-------------------------- MODULE MCRevocationQueue --------------------------
EXTENDS RevocationQueue, TLC

UserSymmetry == Permutations(Users)

=============================================================================
