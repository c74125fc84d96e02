SPECIFICATION Spec
CONSTANTS
  rowA = rowA
  rowB = rowB
  rowC = rowC
  Empty = Empty
  Rid = {1, 2, 3, 4}
  Row = {rowA, rowB, rowC}
  Session = {s1, s2}
  Table = {tab}
  MaxBegin = 2
  Workloads <- RecoveryWorkloads
SYMMETRY Symmetric
INVARIANTS TypeOK AllOrNothing Forced
\* the bounds are reached and every client has gone
CHECK_DEADLOCK FALSE
