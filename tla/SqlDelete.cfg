SPECIFICATION DeletionSpec
CONSTANTS
  IntBits = 7
  LitBits = 5
  RealBits = 5
  NCols = 2
  RootPage = 2
  Dividers = {3}
  MaxResets = 1
INVARIANT DeletesAll
CHECK_DEADLOCK FALSE
