------------------------------- MODULE MCBooks -------------------------------
EXTENDS Books, TLC

IdSymmetry == Permutations(Ids)
=============================================================================
