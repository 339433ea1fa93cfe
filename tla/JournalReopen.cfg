SPECIFICATION CrashSpec
CONSTANTS
  z = z
  a = a
  MaxPage = 2
  Vals <- MCVals
  Zero = z
  NoHdr = NoHdr
  Absent = Absent
  CacheSize = 1
  MaxSaves = 1
  MaxRecs = 3
  Headed = {FALSE}
INVARIANTS
  ReopenServesCommitted
