------------------------ MODULE MCCappedVisibility --------------------------
EXTENDS CappedVisibility, TLC

CappedSymmetry == Permutations(Txns)
=============================================================================
