SPECIFICATION Spec
CONSTANTS
  Client = {c1, c2}
  PoolSize = 2
  K = 2
  MaxPages = 3
  Value = {blank, v}
  Blank = blank
  MaxAccess = 5
SYMMETRY Symmetric
INVARIANTS TypeOK PageTableAgrees PinsAreUsers CleanIsOnDisk
PROPERTIES EvictsTheColdest ImplementsPageStore
