SPECIFICATION FairSpec
CONSTANTS
  Txn = {t1, t2, t3}
  Resource = {r1, r2}
PROPERTIES WaitsEnd
\* every transaction may have ended
CHECK_DEADLOCK FALSE
