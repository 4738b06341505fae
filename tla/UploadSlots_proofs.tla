------------------------- MODULE UploadSlots_proofs -------------------------
(***************************************************************************)
(* Proofs about UploadSlots, for every number of requests and subjects and *)
(* every pair of caps.  The invariant is                                   *)
(*    SlotsTypeOK /\ CountersMatchHolders,                                 *)
(* inductive as it stands; with it each test of acquire on a counter is    *)
(* the test of SlotPool on the set of holders.                             *)
(***************************************************************************)
EXTENDS UploadSlots, FiniteSetTheorems, TLAPS

\* The variables keep their types and no counter passes its cap, whatever
\* the order of the calls of acquire (limits.go:157-169) and release
\* (limits.go:171-185).
THEOREM SlotsTypeCorrect == SlotsSpec => []SlotsTypeOK
<1>. USE SlotsAssumption DEF SlotsTypeOK
<1>1. SlotsInit => SlotsTypeOK
  BY DEF SlotsInit
<1>2. SlotsTypeOK /\ [SlotsNext]_slotVars => SlotsTypeOK'
  <2>. SUFFICES ASSUME SlotsTypeOK, [SlotsNext]_slotVars PROVE SlotsTypeOK'
    OBVIOUS
  <2>1. ASSUME NEW r \in Request, Acquire(r) PROVE SlotsTypeOK'
    BY <2>1 DEF Acquire, AtCap
  <2>2. ASSUME NEW r \in Request, Refuse(r) PROVE SlotsTypeOK'
    BY <2>2 DEF Refuse
  <2>3. ASSUME NEW r \in Request, Release(r) PROVE SlotsTypeOK'
    BY <2>3 DEF Release
  <2>4. CASE RestartSlots
    BY <2>4 DEF RestartSlots
  <2>5. CASE UNCHANGED slotVars
    BY <2>5 DEF slotVars
  <2>. QED BY <2>1, <2>2, <2>3, <2>4, <2>5 DEF SlotsNext
<1>. QED BY <1>1, <1>2, PTL DEF SlotsSpec

\* What a grant and a return do to the sets that the counters stand for.
LEMMA HoldersFinite ==
  ASSUME SlotsTypeOK
  PROVE  /\ IsFiniteSet(holders)
         /\ \A s \in Subject : IsFiniteSet(HeldBy(s))
<1>1. IsFiniteSet(holders)
  BY FS_Subset, SlotsAssumption DEF SlotsTypeOK
<1>2. \A s \in Subject : HeldBy(s) \subseteq holders
  BY DEF HeldBy
<1>. QED BY <1>1, <1>2, FS_Subset

LEMMA GrantCounts ==
  ASSUME SlotsTypeOK, NEW r \in Request, r \notin holders,
         holders' = holders \cup {r}
  PROVE  /\ Cardinality(holders') = Cardinality(holders) + 1
         /\ \A s \in Subject :
              Cardinality(HeldBy(s)') =
                IF s = SubjectOf[r] THEN Cardinality(HeldBy(s)) + 1
                                    ELSE Cardinality(HeldBy(s))
<1>1. Cardinality(holders') = Cardinality(holders) + 1
  BY HoldersFinite, FS_AddElement
<1>2. ASSUME NEW s \in Subject, s = SubjectOf[r]
      PROVE  Cardinality(HeldBy(s)') = Cardinality(HeldBy(s)) + 1
  <2>1. HeldBy(s)' = HeldBy(s) \cup {r} /\ r \notin HeldBy(s)
    BY <1>2 DEF HeldBy
  <2>. QED BY <2>1, HoldersFinite, FS_AddElement
<1>3. ASSUME NEW s \in Subject, s # SubjectOf[r] PROVE HeldBy(s)' = HeldBy(s)
  BY <1>3 DEF HeldBy
<1>. QED BY <1>1, <1>2, <1>3

LEMMA ReturnCounts ==
  ASSUME SlotsTypeOK, NEW r \in holders, holders' = holders \ {r}
  PROVE  /\ Cardinality(holders) \in Nat \ {0}
         /\ Cardinality(holders') = Cardinality(holders) - 1
         /\ \A s \in Subject :
              /\ s = SubjectOf[r] =>
                   /\ Cardinality(HeldBy(s)) \in Nat \ {0}
                   /\ Cardinality(HeldBy(s)') = Cardinality(HeldBy(s)) - 1
              /\ s # SubjectOf[r] => Cardinality(HeldBy(s)') = Cardinality(HeldBy(s))
<1>1. /\ Cardinality(holders) \in Nat \ {0}
      /\ Cardinality(holders') = Cardinality(holders) - 1
  <2>1. holders # {} /\ IsFiniteSet(holders)
    BY HoldersFinite
  <2>. QED BY <2>1, FS_RemoveElement, FS_EmptySet, FS_CardinalityType
<1>2. ASSUME NEW s \in Subject, s = SubjectOf[r]
      PROVE  /\ Cardinality(HeldBy(s)) \in Nat \ {0}
             /\ Cardinality(HeldBy(s)') = Cardinality(HeldBy(s)) - 1
  <2>1. HeldBy(s)' = HeldBy(s) \ {r} /\ r \in HeldBy(s)
    BY <1>2 DEF HeldBy
  <2>2. IsFiniteSet(HeldBy(s))
    BY HoldersFinite
  <2>3. Cardinality(HeldBy(s)) \in Nat /\ Cardinality(HeldBy(s)) # 0
    BY <2>1, <2>2, FS_EmptySet, FS_CardinalityType
  <2>4. Cardinality(HeldBy(s)') = Cardinality(HeldBy(s)) - 1
    BY <2>1, <2>2, FS_RemoveElement, Zenon
  <2>. QED BY <2>3, <2>4
<1>3. ASSUME NEW s \in Subject, s # SubjectOf[r] PROVE HeldBy(s)' = HeldBy(s)
  BY <1>3 DEF HeldBy
<1>. QED BY <1>1, <1>2, <1>3

LEMMA EmptyPoolCounts ==
  ASSUME holders = {}
  PROVE  Cardinality(holders) = 0 /\ \A s \in Subject : Cardinality(HeldBy(s)) = 0
<1>1. \A s \in Subject : HeldBy(s) = {}
  BY DEF HeldBy
<1>. QED BY <1>1, FS_EmptySet

\* The counters equal the sets of holders they stand for: no slot is leaked
\* or returned twice by any sequence of acquire and release (limits.go:157-185).
THEOREM SlotsCounted == SlotsSpec => []CountersMatchHolders
<1>1. SlotsInit => CountersMatchHolders
  BY EmptyPoolCounts DEF SlotsInit, CountersMatchHolders
<1>2. SlotsTypeOK /\ CountersMatchHolders /\ [SlotsNext]_slotVars => CountersMatchHolders'
  <2>. SUFFICES ASSUME SlotsTypeOK, CountersMatchHolders, [SlotsNext]_slotVars
                PROVE  CountersMatchHolders'
    OBVIOUS
  <2>1. ASSUME NEW r \in Request, Acquire(r) PROVE CountersMatchHolders'
    <3>1. /\ r \notin holders /\ holders' = holders \cup {r}
          /\ inFlight' = inFlight + 1
          /\ \A s \in Subject :
               active'[s] = IF s = SubjectOf[r] THEN active[s] + 1 ELSE active[s]
      BY <2>1 DEF Acquire, SlotsTypeOK
    <3>. QED BY <3>1, GrantCounts DEF CountersMatchHolders
  <2>2. ASSUME NEW r \in Request, Refuse(r) PROVE CountersMatchHolders'
    BY <2>2 DEF Refuse, CountersMatchHolders, HeldBy
  <2>3. ASSUME NEW r \in Request, Release(r) PROVE CountersMatchHolders'
    <3>1. /\ r \in holders /\ holders' = holders \ {r}
          /\ inFlight' = IF inFlight > 0 THEN inFlight - 1 ELSE inFlight
          /\ \A s \in Subject :
               active'[s] = IF s # SubjectOf[r] THEN active[s]
                            ELSE IF active[s] <= 1 THEN 0 ELSE active[s] - 1
      BY <2>3 DEF Release, SlotsTypeOK
    <3>. QED BY <3>1, ReturnCounts DEF CountersMatchHolders
  <2>4. CASE RestartSlots
    <3>1. \A s \in Subject : HeldBy(s)' = {}
      BY <2>4 DEF RestartSlots, HeldBy
    <3>. QED BY <2>4, <3>1, FS_EmptySet DEF RestartSlots, CountersMatchHolders
  <2>5. CASE UNCHANGED slotVars
    BY <2>5 DEF slotVars, CountersMatchHolders, HeldBy
  <2>. QED BY <2>1, <2>2, <2>3, <2>4, <2>5 DEF SlotsNext
<1>. QED BY <1>1, <1>2, SlotsTypeCorrect, PTL DEF SlotsSpec

\* Tested on counters that match the holders, AtCap is exactly a full pool or
\* a full share.
LEMMA AtCapIsFull ==
  ASSUME SlotsTypeOK, CountersMatchHolders, NEW s \in Subject
  PROVE  AtCap(s) <=> Pool!Full(s)
<1>1. \A S : Pool!Cardinality(S) = Cardinality(S)
  BY DEF Pool!Cardinality, Cardinality
<1>. QED BY <1>1 DEF AtCap, Pool!Full, Pool!HeldBy, HeldBy, CountersMatchHolders

\* acquire and release implement the pool of SlotPool: a slot is granted only
\* while the process and the subject are below their caps, and a 429
\* (server.go:277-281) is given only when one of them is at its cap.
THEOREM SlotsImplementPool == SlotsSpec => ImplementsSlotPool
<1>1. SlotsInit => Pool!Init
  BY DEF SlotsInit, Pool!Init
<1>2. SlotsTypeOK /\ CountersMatchHolders /\ [SlotsNext]_slotVars
        => [Pool!Next]_(Pool!poolVars)
  <2>. SUFFICES ASSUME SlotsTypeOK, CountersMatchHolders, [SlotsNext]_slotVars
                PROVE  [Pool!Next]_(Pool!poolVars)
    OBVIOUS
  <2>1. ASSUME NEW r \in Request, Acquire(r) PROVE Pool!Grant(r)
    BY <2>1, AtCapIsFull, SlotsAssumption DEF Acquire, Pool!Grant
  <2>2. ASSUME NEW r \in Request, Refuse(r) PROVE Pool!Refuse(r)
    BY <2>2, AtCapIsFull, SlotsAssumption DEF Refuse, Pool!Refuse
  <2>3. ASSUME NEW r \in Request, Release(r) PROVE Pool!Return(r)
    BY <2>3 DEF Release, Pool!Return
  <2>4. CASE RestartSlots
    BY <2>4 DEF RestartSlots, Pool!Next, Pool!Reset
  <2>5. CASE UNCHANGED slotVars
    BY <2>5 DEF slotVars, Pool!poolVars
  <2>. QED BY <2>1, <2>2, <2>3, <2>4, <2>5 DEF SlotsNext, Pool!Next
<1>. QED BY <1>1, <1>2, SlotsTypeCorrect, SlotsCounted, PTL
         DEF SlotsSpec, ImplementsSlotPool, Pool!Spec
=============================================================================
