SPECIFICATION SoundSpec
CONSTANTS
  Rowids = {1, 2, 3, 4, 5, 6, 7}
  None = None
  Root = 1
  Payload <- SmallRows
  Overflowing = {2}
  PageSize = 8
  DbHeader = 1
  LeafHeader = 1
  InteriorHeader = 2
  PtrSize = 1
  DividerSize = 1
  MaxPages = 12
INVARIANTS
  TreeHoldsRows
  DividersSeparate
  EachPageOnce
  CellsWhole
PROPERTIES
  ImplementsOrderedMap
