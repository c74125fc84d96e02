SPECIFICATION Spec
CONSTANTS
  rowA = rowA
  rowB = rowB
  rowC = rowC
  Empty = Empty
  Rid = {1, 2, 3}
  Row = {rowA, rowB}
  Session = {s1}
  Table = {tab}
  MaxBegin = 1
  Workloads <- ServesAgain
INVARIANTS AllOrNothing
\* the bounds are reached and every client has gone
CHECK_DEADLOCK FALSE
