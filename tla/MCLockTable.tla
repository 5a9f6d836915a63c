---------------------------- MODULE MCLockTable ----------------------------
EXTENDS LockTable, TLC
Symmetry == Permutations(Txn) \cup Permutations(Record)
=============================================================================
