SPECIFICATION Spec
CONSTANTS
  rowA = rowA
  rowB = rowB
  rowC = rowC
  Empty = Empty
  Rid = {1, 2, 3}
  Row = {rowA, rowB}
  Session = {s1, s2}
  Table = {tab}
  MaxBegin = 2
  Workloads <- IsolationWorkloads
SYMMETRY Symmetric
INVARIANTS UndoListsExplainTables MatchesHold
PROPERTIES LockedRowsStay ReadsAreCommitted
\* the bounds are reached and every client has gone
CHECK_DEADLOCK FALSE
