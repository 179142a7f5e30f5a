-------------------------- MODULE MCCappedDelete ----------------------------
EXTENDS CappedDelete, TLC

MCSizeOf == <<2, 1, 1, 2>>

DeleteSymmetry == Permutations(Txns)
=============================================================================
