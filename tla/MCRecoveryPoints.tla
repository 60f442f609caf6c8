-------------------------- MODULE MCRecoveryPoints --------------------------
EXTENDS RecoveryPoints, TLC

Symmetry == Permutations(Attests) \cup Permutations(Restores)
=============================================================================
