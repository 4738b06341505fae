CONSTANTS
  tree = tree  pick = pick  loose = loose  d1 = d1  d2 = d2  empty = empty  chosen = chosen  odd = odd
  f1 = f1  f2 = f2  f3 = f3  g1 = g1  g3 = g3  h1 = h1  h2 = h2  h3 = h3
  Gesture <- MCGesture
  Kind <- MCKind
  Items <- MCItems
  Listed <- MCListed
  Children <- MCChildren
  File <- MCFile
  NoRoot = NoRoot
  Batch = 2
  Conn = {1, 2}
  PerUser = 1
  FilesPerRequest = 2
  MaxEntries = 4
  MaxFaults = 1
SPECIFICATION FairClientSpec
INVARIANTS
  ClientTypeOK
  GestureWhole
  UploadedIsStored
  CopiesExplained
PROPERTIES
  EveryFileArrives
CHECK_DEADLOCK FALSE
