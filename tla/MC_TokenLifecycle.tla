------------------------- MODULE MC_TokenLifecycle -------------------------
EXTENDS TokenLifecycle, TLC

MC_Symmetry == Permutations(Users)
=============================================================================
