SPECIFICATION Spec
CONSTANTS
  Txn = {t1, t2}
  Rid = {r1, r2}
  Key = {k1, k2}
  Null = null
  None = none
  IndexType = {"btree", "gin"}
  MaxIndexes = 1
  MaxChanges = 2
CONSTRAINT ValuesOnce
SYMMETRY Symmetric
INVARIANTS TypeOK   
