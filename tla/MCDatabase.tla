----------------------------- MODULE MCDatabase -----------------------------
EXTENDS Database, TLC
Symmetry == Permutations(Txn) \cup Permutations(Record)
=============================================================================
