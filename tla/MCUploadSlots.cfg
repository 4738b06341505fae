CONSTANTS
  r1 = r1
  r2 = r2
  r3 = r3
  r4 = r4
  r5 = r5
  alice = alice
  bob = bob
  Request <- MCRequest
  Subject <- MCSubject
  SubjectOf <- MCSubjectOf
  PerUser = 2
  Total = 3
SPECIFICATION SlotsSpec
INVARIANTS
  SlotsTypeOK
  CountersMatchHolders
PROPERTIES
  ImplementsSlotPool
