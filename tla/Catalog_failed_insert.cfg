SPECIFICATION Spec
CONSTANTS
  Txn = {t1}
  Rid = {r1, r2}
  Key = {k1, k2}
  Null = null
  None = none
  IndexType = {"btree"}
  MaxIndexes = 1
  MaxChanges = 2
PROPERTIES AbortsUndoAll
