SPECIFICATION Spec
CONSTANTS
  t1 = t1
  t2 = t2
  t3 = t3
  Threads <- MCThreads
  Room = 7
  Sizes = {1, 2, 3}
INVARIANTS
  RegionsApart
