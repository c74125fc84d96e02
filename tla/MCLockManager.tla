--------------------------- MODULE MCLockManager ---------------------------
(* LockManager on small sets of transactions and rows.                      *)
EXTENDS CycleSearch, TLC

Symmetric == Permutations(Txn) \cup Permutations(Resource)
=============================================================================
