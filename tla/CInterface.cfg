SPECIFICATION CSpec
CONSTANTS
  t1 = t1
  t2 = t2
  v1 = v1
  v2 = v2
  h1 = h1
  Null = Null
  Finalized = Finalized
  NoText = NoText
  Names <- MCNames
  Vals <- MCVals
  Unwanted <- MCUnwanted
  Handles <- MCHandles
  MaxPages = 2
  MaxFaults = 1
INVARIANTS
  TransactionsAgree
  TablesStand
  TextIsOfRow
PROPERTIES
  ScansWhole
  ImplementsDatabase
SYMMETRY Interchangeable
CHECK_DEADLOCK FALSE
