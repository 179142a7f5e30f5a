------------------------ MODULE MCRocksTransaction -------------------------
EXTENDS RocksTransaction, TLC

UnitSymmetry == Permutations(Units)
=============================================================================
