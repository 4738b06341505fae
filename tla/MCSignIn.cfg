CONSTANTS
  b1 = b1
  b2 = b2
  t1 = t1
  t2 = t2
  t3 = t3
  None = None
  Keep = Keep
  Clear = Clear
  Browser = {b1, b2}
  Tab <- MCTab
  BrowserOf <- MCBrowserOf
  User = {alice, bob}
  LoginLife = 1
  SessionLife = 1
  MaxLogins = 2
  MaxChanges = 1
SPECIFICATION SignInSpec
SYMMETRY MCSymmetry
CHECK_DEADLOCK FALSE
INVARIANTS
  SignInTypeOK
  SessionIsOwn
PROPERTIES
  ServedInTime
  RefusedOnlyIfRaced
  SessionLostOnlyTo
