SPECIFICATION Spec
CONSTANTS
  Txn = {t1, t2, t3}
  Resource = {r1, r2, r3}
SYMMETRY Symmetric
INVARIANTS TypeOK TablesAgree Compatible NoDeadlock NoLostWakeup SearchIsHasCycle
PROPERTIES VictimsAreGuilty ImplementsRowLocks
\* every transaction may have ended
CHECK_DEADLOCK FALSE
