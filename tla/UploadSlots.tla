---------------------------- MODULE UploadSlots ----------------------------
(***************************************************************************)
(* uploadSlots of internal/dumpbox/limits.go: two counters behind a mutex  *)
(* that cap how many uploads one subject, and the whole process, stream at *)
(* once.  Each operation runs under the mutex and is one action.  The Go   *)
(* map `active` reads 0 for an absent key and nothing ranges over it, so a *)
(* deleted entry and an entry of 0 are the same: `active` is a total       *)
(* function.                                                               *)
(***************************************************************************)
EXTENDS Integers, FiniteSets

CONSTANTS Request,      (* upload requests, each handled by one goroutine   *)
          Subject,      (* OIDC subjects                                    *)
          SubjectOf,    (* the subject on whose behalf a request runs       *)
          PerUser,      (* MAX_CONCURRENT_UPLOADS_PER_USER                  *)
          Total         (* MAX_CONCURRENT_UPLOADS                           *)

\* envCount of config.go accepts positive caps only.
ASSUME SlotsAssumption ==
  /\ IsFiniteSet(Request)
  /\ SubjectOf \in [Request -> Subject]
  /\ PerUser \in Nat \ {0}
  /\ Total \in Nat \ {0}

VARIABLES active,       (* uploads in flight per subject                    *)
          inFlight,     (* uploads in flight in the process                 *)
          holders,      (* requests between acquire and the deferred release*)
          refused       (* requests whose last acquire returned false       *)

slotVars == <<active, inFlight, holders, refused>>

-----------------------------------------------------------------------------
(* Deviations, each a plausible bug, that the checks substitute for the    *)
(* definition of the same shape to see a property fail.                    *)

AtCapSharedOnly(s) == inFlight >= Total

AtCapOffByOne(s) == inFlight > Total \/ active[s] > PerUser

ReleaseSubjectOnly(r) ==
  /\ r \in holders
  /\ active' = [active EXCEPT ![SubjectOf[r]] = IF @ <= 1 THEN 0 ELSE @ - 1]
  /\ holders' = holders \ {r} /\ UNCHANGED <<inFlight, refused>>
-----------------------------------------------------------------------------

SlotsInit ==
  /\ active = [s \in Subject |-> 0] /\ inFlight = 0
  /\ holders = {} /\ refused = {}

\* The test of acquire that makes it return false.
AtCap(s) == inFlight >= Total \/ active[s] >= PerUser

\* acquire returns true.
Acquire(r) ==
  /\ r \notin holders
  /\ ~AtCap(SubjectOf[r])
  /\ inFlight' = inFlight + 1
  /\ active' = [active EXCEPT ![SubjectOf[r]] = @ + 1]
  /\ holders' = holders \cup {r} /\ refused' = refused \ {r}

\* acquire returns false: the handler answers 429 and never releases.
Refuse(r) ==
  /\ r \notin holders
  /\ AtCap(SubjectOf[r])
  /\ refused' = refused \cup {r}
  /\ UNCHANGED <<active, inFlight, holders>>

\* The deferred release.  It clamps at zero instead of going negative.
Release(r) ==
  /\ r \in holders
  /\ active' = [active EXCEPT ![SubjectOf[r]] = IF @ <= 1 THEN 0 ELSE @ - 1]
  /\ inFlight' = IF inFlight > 0 THEN inFlight - 1 ELSE inFlight
  /\ holders' = holders \ {r} /\ UNCHANGED refused

\* The process ends, whatever its handlers were doing, and a new one calls
\* newUploadSlots.
RestartSlots ==
  /\ active' = [s \in Subject |-> 0] /\ inFlight' = 0
  /\ holders' = {} /\ refused' = {}

SlotsNext ==
  \/ \E r \in Request : Acquire(r) \/ Refuse(r) \/ Release(r)
  \/ RestartSlots

SlotsSpec == SlotsInit /\ [][SlotsNext]_slotVars

-----------------------------------------------------------------------------
(* Properties.                                                             *)

HeldBy(s) == {r \in holders : SubjectOf[r] = s}

\* The variables have their types (the fields of uploadSlots, limits.go:21-27),
\* and neither counter passes its cap.
SlotsTypeOK ==
  /\ active \in [Subject -> 0..PerUser]
  /\ inFlight \in 0..Total
  /\ holders \subseteq Request
  /\ refused \subseteq Request

\* The two counters never drift from the requests that hold a slot: no path
\* through acquire and release leaks a slot or gives one back twice, and the
\* clamps of release (limits.go:177-184) never absorb a decrement.
CountersMatchHolders ==
  /\ inFlight = Cardinality(holders)
  /\ \A s \in Subject : active[s] = Cardinality(HeldBy(s))

\* acquire and release keep the promise of SlotPool, read on the set of
\* holders instead of the counters: no cap is exceeded, and a 429 is only
\* ever given when the pool or the subject's share is really full.
Pool == INSTANCE SlotPool
ImplementsSlotPool == Pool!Spec
=============================================================================
