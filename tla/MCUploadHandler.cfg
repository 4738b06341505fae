CONSTANTS
  alice = alice
  bob = bob
  r1 = r1
  r2 = r2
  r3 = r3
  None = None
  Request = {r1, r2, r3}
  Identity = {alice, bob}
  OwnerOf <- MCOwnerOf
  Inode = {i1, i2}
  MaxBytes = 0
  MaxFiles = 2
  MaxFileBytes = 1
  MaxInt = 7
  MaxPart = 0
  RemoveMayFail = FALSE
  PerUser = 1
  Total = 2
  FilesPerRequest = 2
SPECIFICATION HandlerSpec
SYMMETRY MCSymmetry
INVARIANTS
  HandlerTypeOK
  TempsWithinSlots
  IdleServerClean
  MetricsAgree
PROPERTIES
  ImplementsSlots
