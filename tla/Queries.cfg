SPECIFICATION Spec
CONSTANTS
  null = null
  raised = raised
  Null <- null
  NoValue <- null
  Raised <- raised
  Columns <- ColumnsOfAll
  Types <- TypesOfAll
  Required <- Keys3
  Indexes <- TheIndexes
  World <- SmallWorld
  Requests <- AllRequests
  Indexed <- IndexOnK
  TextIndexed <- IndexOnV
  SpatialIndexed <- IndexOnG
  Terms <- TermsOf
  FirstRadius = 1
  MaxRadius = 9
  MemoryRecords = 2
  Partitions = 2
  MaxDepth = 1
  Bucket <- Halves
INVARIANTS JoinsAgree SortsStable AnswersMatch
