---------------------------- MODULE MCLearningLoop ----------------------------
(* Model-checking instances of LearningLoop. *)
EXTENDS LearningLoop, TLC

\* Requests and workers run the same code; clusters are told apart only by
\* whether their questions were answered by SQL.
Symmetry == Permutations(Requests) \union Permutations(Workers)
=============================================================================
