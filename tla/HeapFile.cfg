SPECIFICATION Spec
CONSTANTS
  small = small
  middle = middle
  Row = {small, middle}
  Size <- TwoSizes
  PageSize = 5
  HeaderSize = 1
  SlotSize = 1
  MaxPages = 2
  Zero = zero
  Garbled = garbled
INVARIANTS TypeOK Disjoint ChainsEnd
PROPERTIES ImplementsSlotTable
\* the file may be full and the bound on its pages reached
CHECK_DEADLOCK FALSE
