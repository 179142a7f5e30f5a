--------------------------- MODULE MCRocksEngine ----------------------------
EXTENDS RocksEngine, TLC

UnitSymmetry == Permutations(Units)
=============================================================================
