-------------------------- MODULE MCKnowledgeReview --------------------------
(* Model-checking instances of KnowledgeReview. *)
EXTENDS KnowledgeReview, TLC

CONSTANTS base, other, mid, top, title, c1, c2, c3, r1, r2

\* Candidates, reviewers, seeds and derived metrics are interchangeable.
Symmetry == UNION {Permutations(Candidates), Permutations(Reviewers),
                   Permutations(Seeds), Permutations(Names \ Seeds)}
==============================================================================
