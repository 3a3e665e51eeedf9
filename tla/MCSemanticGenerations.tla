------------------------- MODULE MCSemanticGenerations -------------------------
EXTENDS SemanticGenerations

CONSTANT c1

\* Every source says the same.
Alike == [s \in Sources |-> c1]

=============================================================================
