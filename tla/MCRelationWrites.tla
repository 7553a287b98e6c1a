--------------------------- MODULE MCRelationWrites ---------------------------
EXTENDS RelationWrites, TLC

WriteSymmetry == Permutations(Writers)

=============================================================================
