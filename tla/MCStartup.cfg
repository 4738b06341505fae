CONSTANTS
  k1 = k1  k2 = k2  bob = bob  NoName = NoName
  Key <- MCKey
  Username <- MCUsername
  Foreign <- MCForeign
  Settings <- MCSettings
  File = {f1, f2}
  MaxFaults = 2
SPECIFICATION FairStartupSpec
INVARIANTS
  StartupTypeOK
  RecountExact
PROPERTIES
  StartupEnds
CHECK_DEADLOCK FALSE
