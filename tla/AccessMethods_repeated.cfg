SPECIFICATION Spec
CONSTANTS
  rowA = rowA
  rowB = rowB
  rowC = rowC
  UniqueRow <- OneRowEach
  RepeatedRow <- ThreeRowsTwice
  KeyLen <- ShortKeys
  PageRoom = 10
  RidSize = 2
  SlotSize = 2
  ChildSize = 1
  TreePages = 8
  HashRow <- Hashed
  Hash <- Hashes
  PayloadLen <- OneUnit
  BucketRoom = 4
  BucketSlot = 1
  MaxDepth = 3
  Point <- Points
  Capacity = 2
  BoxPages = 6
  Window <- Windows
  Region <- Regions
  Target <- Targets
  Text <- Texts
  BlockDocs = 2
  TextRow <- TextRows
  Vector <- VectorsOf
  Modality <- KindsOf
  Lists = 2
  Probes = 1
  MaxElements = 2
  MaxLabels = 4
  VectorRow <- VectorRows
  Sought <- Looked
  Query <- Queries
  KeyedRow <- KeysOfTwoLengths
  RowByRid <- RowsOfTwoLengths
  MainRoom = 6
  MainSlot = 1
  OverflowPerPage = 3
  Threshold = 55
  MaxOverflow = 2
INVARIANTS
  FindsEvery
