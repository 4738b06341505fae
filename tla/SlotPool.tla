------------------------------ MODULE SlotPool ------------------------------
(***************************************************************************)
(* What the upload slots promise, without their counters: a pool of Total  *)
(* places, at most PerUser of them for one subject.  A request is granted  *)
(* a place or refused one, and a refusal is only ever due to a full pool   *)
(* or a full share.  UploadSlots.tla is shown to implement this module.    *)
(***************************************************************************)
EXTENDS Integers, FiniteSets

CONSTANTS Request,      (* upload requests, each handled by one goroutine   *)
          SubjectOf,    (* the OIDC subject on whose behalf a request runs  *)
          PerUser,      (* MAX_CONCURRENT_UPLOADS_PER_USER                  *)
          Total         (* MAX_CONCURRENT_UPLOADS                           *)

VARIABLES holders,      (* requests that hold a place                       *)
          refused       (* requests whose last attempt was answered 429     *)

poolVars == <<holders, refused>>

\* The requests of subject s that hold a place.
HeldBy(s) == {r \in holders : SubjectOf[r] = s}

Full(s) == Cardinality(holders) >= Total \/ Cardinality(HeldBy(s)) >= PerUser

Init == holders = {} /\ refused = {}

Grant(r) ==
  /\ r \notin holders /\ ~Full(SubjectOf[r])
  /\ holders' = holders \cup {r} /\ refused' = refused \ {r}

Refuse(r) ==
  /\ r \notin holders /\ Full(SubjectOf[r])
  /\ refused' = refused \cup {r} /\ UNCHANGED holders

Return(r) == r \in holders /\ holders' = holders \ {r} /\ UNCHANGED refused

\* A new process starts with an empty pool.
Reset == holders' = {} /\ refused' = {}

Next == (\E r \in Request : Grant(r) \/ Refuse(r) \/ Return(r)) \/ Reset

Spec == Init /\ [][Next]_poolVars
=============================================================================
