-------------------------- MODULE MCKnowledgeQueue --------------------------
EXTENDS KnowledgeQueue, TLC

Symmetry == Permutations(Workers)

=============================================================================
