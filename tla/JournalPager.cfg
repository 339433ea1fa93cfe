SPECIFICATION CommitSpec
CONSTANTS
  z = z
  a = a
  MaxPage = 2
  Vals <- MCVals
  Zero = z
  NoHdr = NoHdr
  Absent = Absent
  CacheSize = 1
  MaxSaves = 2
  MaxRecs = 3
  Headed = {TRUE}
INVARIANTS
  HeaderMatchesSize
  SizeAsCommitted
  DirtyOrderIsDirtySet
  OriginalsAppended
PROPERTIES
  ImplementsPageStore
