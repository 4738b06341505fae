CONSTANTS
  alice = alice
  bob = bob
  r1 = r1
  r2 = r2
  r3 = r3
  None = None
  Request = {r1, r2}
  Identity = {alice}
  OwnerOf <- MCOwnerOf
  Inode = {i1, i2}
  MaxBytes = 1
  MaxFiles = 1
  MaxFileBytes = 1
  MaxInt = 7
  MaxPart = 1
  RemoveMayFail = TRUE
  PerUser = 1
  Total = 1
  FilesPerRequest = 2
SPECIFICATION FairHandlerSpec
INVARIANTS
  AckedFilesDurable
PROPERTIES
  SlotComesBack
