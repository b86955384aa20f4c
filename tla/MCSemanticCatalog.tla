-------------------------- MODULE MCSemanticCatalog --------------------------
\* SemanticCatalog on a datasource of one table, or of two tables and one join.
EXTENDS SemanticCatalog, TLC

CONSTANTS t1, t2, a1, a2

NoJoins == {}

OneJoin == {<<t1, t2>>}

Symmetry == Permutations(Actors)
==============================================================================
