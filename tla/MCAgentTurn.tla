----------------------------- MODULE MCAgentTurn -----------------------------
(* Model-checking instances of AgentTurn. *)
EXTENDS AgentTurn, TLC

\* Requests on a thread run the same code.
Symmetry == Permutations(Requests)
=============================================================================
