CONSTANTS
  r1 = r1
  r2 = r2
  r3 = r3
  alice = alice
  bob = bob
  None = None
  Request = {r1, r2}
  Identity = {alice}
  OwnerOf <- MCOwnerOf
  Inode = {i1, i2, i3}
  MaxBytes = 2
  MaxFiles = 2
  MaxFileBytes = 2
  MaxInt = 7
  MaxPart = 3
  RemoveMayFail = FALSE
SPECIFICATION StoreSpec
SYMMETRY MCSymmetry
INVARIANTS
  StorageWithinLimit
