SPECIFICATION MCSpec
CONSTANTS
  z = z
  a = a
  MaxPage = 2
  Vals <- MCVals
  Zero = z
  NoHdr = NoHdr
  Absent = Absent
  CacheSize = 1
  MaxSaves = 1
  Headed = {FALSE}
  MaxFrames = 3
INVARIANTS
  CommittedSurvives
PROPERTIES
  ImplementsPageStore
