------------------------ MODULE UploadHandler_proofs ------------------------
(***************************************************************************)
(* Proofs about UploadHandler, for every number of requests, identities    *)
(* and inodes and every configuration of the limits and caps.              *)
(***************************************************************************)
EXTENDS UploadHandler, StorePart_proofs

USE DEF storeVars, quotaVars, diskVars, uploadVars, handlerVars, slotsVars, metricsVars, processVars

-----------------------------------------------------------------------------
(* Composition.  The handler only ever stores by the steps of StorePart,   *)
(* so what is proved of StorePart holds under it.                          *)

\* What a request does, each step once.
HandlerStep(r) ==
  \/ Forbid(r) \/ TooBusy(r) \/ Admit(r) \/ IncGauge(r)
  \/ RejectParts(r) \/ TooManyFiles(r) \/ BeginStore(r) \/ InStore(r)
  \/ Stored(r) \/ NotStored(r) \/ Finish(r)
  \/ ReleaseSlot(r) \/ DecGauge(r) \/ Observe(r)

LEMMA HandlerCases ==
  ASSUME [HandlerNext]_uploadVars
  PROVE  \/ \E r \in Request : HandlerStep(r)
         \/ Exit \/ Start \/ Sigterm
         \/ UNCHANGED uploadVars
BY DEF HandlerNext, HandlerStep, Progress, Kill, Stop

\* A step of the handler is one of storePart, or leaves its state alone.
LEMMA StoreUnderHandler ==
  ASSUME NEW r \in Request, HandlerStep(r)
  PROVE  \/ StoreStep(r) /\ (BeginStore(r) \/ InStore(r))
         \/ UNCHANGED storeVars
<1>1. CASE BeginStore(r)
  BY <1>1 DEF BeginStore, StoreStep
<1>2. CASE InStore(r)
  BY <1>2 DEF InStore
<1>. QED
  BY <1>1, <1>2
  DEF HandlerStep, Forbid, TooBusy, Admit, IncGauge, RejectParts, TooManyFiles, Stored,
      NotStored, Finish, ReleaseSlot, DecGauge, Observe

LEMMA HandlerStoreStep == [HandlerNext]_uploadVars => [StoreNext]_storeVars
<1>. SUFFICES ASSUME [HandlerNext]_uploadVars PROVE [StoreNext]_storeVars
  OBVIOUS
<1>1. ASSUME NEW r \in Request, HandlerStep(r) PROVE [StoreNext]_storeVars
  BY <1>1, StoreUnderHandler DEF StoreNext
<1>2. CASE Exit
  BY <1>2 DEF Exit, StoreNext
<1>3. CASE Start
  BY <1>3 DEF Start, StoreNext
<1>4. CASE Sigterm
  BY <1>4 DEF Sigterm
<1>. QED BY <1>1, <1>2, <1>3, <1>4, HandlerCases

\* The upload handler, with the start and the stop of the process
\* (server.go:252-413, main.go), is a behaviour of storePart on the quota:
\* all that is proved of StorePart is true under the handler.
THEOREM HandlerImplementsStore == HandlerSpec => StoreSpec
<1>1. HandlerInit => StoreInit
  BY DEF HandlerInit
<1>. QED BY <1>1, HandlerStoreStep, PTL DEF HandlerSpec, StoreSpec

LEMMA StoreTypedUnderHandler == HandlerSpec => []TypeShape
BY HandlerImplementsStore, TypeShapeInvariant, PTL

-----------------------------------------------------------------------------
(* Types and shape of the handler.                                         *)

\* The types of HandlerTypeOK but for the gauge, whose bounds follow from
\* MetricsAgree.
HandlerTyped ==
  /\ hpc \in [Request -> HPC]
  /\ uploaded \in [Request -> SUBSET Inode] /\ latest \in [Request -> Inode \cup {None}]
  /\ answer \in [Request -> Answer]
  /\ active \in [Identity -> Nat] /\ inFlight \in Nat
  /\ activeUploads \in Int /\ uploadRequests \in Nat
  /\ uploadedFiles \in [Identity -> Nat]
  /\ stopping \in BOOLEAN /\ acked \subseteq Inode /\ stale \subseteq Inode

\* storePart runs only while the handler waits for it, and its result is
\* "ok" exactly from the link on.
ResultInStep ==
  \A r \in Request : /\ pc[r] # "idle" => hpc[r] = "storing"
                     /\ pc[r] = "linked" => outcome[r] = "ok"
                     /\ pc[r] \notin {"idle", "linked"} => outcome[r] # "ok"

\* A request is answered when it leaves and not before.
AnsweredLast ==
  \A r \in Request : hpc[r] \in {"idle", "admitted", "parts", "storing"} => answer[r] = "none"

\* What the handler lists, acknowledges or found at startup is published.
ListedPublished ==
  /\ acked \subseteq final /\ old \subseteq final
  /\ \A r \in Request : uploaded[r] \subseteq final
  /\ \A r \in Request : hpc[r] = "storing" /\ outcome[r] = "ok" => latest[r] \in final

\* A process that does not run handles nothing and has counted nothing.
DownQuiet ==
  ~up => /\ \A r \in Request : hpc[r] = "idle"
         /\ \A k \in Identity : uploadedFiles[k] = 0

HandlerShape == ResultInStep /\ AnsweredLast /\ ListedPublished /\ DownQuiet

HInv == HandlerTyped /\ HandlerShape

LEMMA HInvInit == HandlerInit => HInv
<1>. SUFFICES ASSUME HandlerInit PROVE HInv
  OBVIOUS
<1>. USE DEF HandlerInit, StoreInit
<1>1. HandlerTyped
  <2>1. /\ hpc \in [Request -> HPC] /\ answer \in [Request -> Answer]
        /\ latest \in [Request -> Inode \cup {None}]
    BY DEF HPC, Answer
  <2>2. uploaded \in [Request -> SUBSET Inode]
    BY Zenon
  <2>3. /\ active \in [Identity -> Nat] /\ inFlight \in Nat
        /\ activeUploads \in Int /\ uploadRequests \in Nat
        /\ uploadedFiles \in [Identity -> Nat]
    OBVIOUS
  <2>4. stopping \in BOOLEAN /\ acked \subseteq Inode /\ stale \subseteq Inode
    BY Zenon
  <2>. QED BY <2>1, <2>2, <2>3, <2>4 DEF HandlerTyped
<1>2. ResultInStep /\ AnsweredLast
  BY DEF ResultInStep, AnsweredLast
<1>3. ListedPublished /\ DownQuiet
  BY DEF ListedPublished, DownQuiet
<1>. QED BY <1>1, <1>2, <1>3 DEF HInv, HandlerShape

\* Nothing the handler does takes a published file away or changes it.
LEMMA PublishedKept ==
  ASSUME TypeShape, NEW r \in Request, StoreStep(r)
  PROVE  /\ final \subseteq final'
         /\ \A i \in final : inode'[i] = inode[i]
         /\ LinkFile(r) \/ final' = final
<1>. USE DEF TypeShape, StoreTypeOK, StoreShape, OwnTemp, Holding
<1>1. CASE CreateTemp(r)
  BY <1>1 DEF CreateTemp
<1>2. CASE WriteChunk(r)
  BY <1>2 DEF WriteChunk
<1>3. CASE RemoveTemp(r)
  BY <1>3 DEF RemoveTemp
<1>4. CASE LinkFile(r)
  BY <1>4 DEF LinkFile
<1>5. CASE UNCHANGED <<final, inode>>
  BY <1>5
<1>. QED
  BY <1>1, <1>2, <1>3, <1>4, <1>5
  DEF StoreStep, Cleanup, RejectName, ReserveFile, RefuseFile, CreateFails, ReserveChunk,
      RefuseChunk, CopyFails, PartTooLarge, SyncTemp, LinkFails, ReleaseUnwritten,
      Refund, ReleaseFile

\* A step of storePart ends, changes or keeps the result of its own request
\* only, and reports "ok" exactly from the link to its return.
LEMMA ResultMoves ==
  ASSUME TypeShape, ResultInStep, NEW r \in Request, StoreStep(r)
  PROVE  /\ \A q \in Request \ {r} : pc'[q] = pc[q] /\ outcome'[q] = outcome[q] /\ ino'[q] = ino[q]
         /\ LinkFile(r) => pc[r] = "link" /\ pc'[r] = "linked" /\ outcome'[r] = "ok"
         /\ ~LinkFile(r) => /\ pc'[r] # "linked"
                            /\ outcome'[r] = "ok" <=> pc[r] = "linked"
                            /\ pc[r] = "linked" => pc'[r] = "idle"
<1>. USE DEF TypeShape, StoreTypeOK, ResultInStep
<1>1. CASE LinkFile(r)
  BY <1>1 DEF LinkFile
<1>2. CASE RemoveTemp(r)
  BY <1>2 DEF RemoveTemp, LinkFile
<1>3. CASE ReleaseUnwritten(r) \/ Refund(r) \/ ReleaseFile(r)
  BY <1>3 DEF ReleaseUnwritten, Refund, ReleaseFile, LinkFile
<1>4. CASE RejectName(r) \/ ReserveFile(r) \/ RefuseFile(r)
  BY <1>4 DEF RejectName, ReserveFile, RefuseFile, LinkFile
<1>5. CASE CreateTemp(r) \/ CreateFails(r)
  BY <1>5 DEF CreateTemp, CreateFails, LinkFile
<1>6. CASE ReserveChunk(r) \/ RefuseChunk(r) \/ WriteChunk(r)
  BY <1>6 DEF ReserveChunk, RefuseChunk, WriteChunk, LinkFile
<1>7. CASE CopyFails(r) \/ PartTooLarge(r) \/ SyncTemp(r) \/ LinkFails(r)
  BY <1>7 DEF CopyFails, PartTooLarge, SyncTemp, LinkFails, LinkFile
<1>. QED BY <1>1, <1>2, <1>3, <1>4, <1>5, <1>6, <1>7 DEF StoreStep, Cleanup

\* What the steps of a request change: its own entries, and acked.
LEMMA OwnEntries ==
  ASSUME HandlerTyped, NEW r \in Request, HandlerStep(r)
  PROVE  /\ \A q \in Request \ {r} : /\ hpc'[q] = hpc[q] /\ answer'[q] = answer[q]
                                     /\ uploaded'[q] = uploaded[q] /\ latest'[q] = latest[q]
         /\ UNCHANGED <<stopping, stale, old, up>>
         /\ acked' = acked \/ acked' = acked \cup uploaded[r]
<1>. USE DEF HandlerTyped
<1>1. CASE Forbid(r) \/ TooBusy(r) \/ Admit(r) \/ IncGauge(r)
  BY <1>1 DEF Forbid, TooBusy, Admit, IncGauge, Goto, Slots!Refuse, Slots!Acquire
<1>2. CASE RejectParts(r) \/ TooManyFiles(r) \/ NotStored(r) \/ Finish(r)
  BY <1>2 DEF RejectParts, TooManyFiles, NotStored, Finish, Leave, Goto
<1>3. CASE BeginStore(r)
  BY <1>3 DEF BeginStore, Goto, RejectName, ReserveFile, RefuseFile
<1>4. CASE InStore(r)
  <2>1. up' = up
    BY <1>4 DEF InStore, StoreStep, Cleanup, RejectName, ReserveFile, RefuseFile, CreateTemp,
                CreateFails, ReserveChunk, RefuseChunk, WriteChunk, CopyFails, PartTooLarge,
                SyncTemp, LinkFile, LinkFails, ReleaseUnwritten, Refund, RemoveTemp, ReleaseFile
  <2>. QED BY <1>4, <2>1 DEF InStore
<1>5. CASE Stored(r) \/ ReleaseSlot(r) \/ DecGauge(r) \/ Observe(r)
  BY <1>5 DEF Stored, ReleaseSlot, DecGauge, Observe, Goto, Slots!Release
<1>. QED BY <1>1, <1>2, <1>3, <1>4, <1>5 DEF HandlerStep

LEMMA TypedStep ==
  ASSUME TypeShape, HInv, NEW r \in Request, HandlerStep(r)
  PROVE  HandlerTyped'
<1>. USE DEF HandlerTyped, HPC, Answer
<1>1. /\ HandlerTyped /\ ListedPublished /\ OwnerOf[r] \in Identity /\ final \subseteq Inode
      /\ ino \in [Request -> Inode \cup {None}]
  BY StoreAssumption DEF HInv, HandlerShape, TypeShape, StoreTypeOK
<1>2. CASE Forbid(r) \/ TooBusy(r)
  BY <1>1, <1>2 DEF Forbid, TooBusy, Goto, Slots!Refuse
<1>3. CASE Admit(r)
  BY <1>1, <1>3 DEF Admit, Goto, Slots!Acquire
<1>4. CASE IncGauge(r) \/ DecGauge(r)
  BY <1>1, <1>4 DEF IncGauge, DecGauge, Goto
<1>5. CASE RejectParts(r) \/ TooManyFiles(r) \/ NotStored(r)
  <2>1. PICK a \in Answer : Leave(r, a)
    BY <1>5 DEF RejectParts, TooManyFiles, NotStored
  <2>2. UNCHANGED <<slotsVars, metricsVars, processVars>>
    BY <1>5 DEF RejectParts, TooManyFiles, NotStored
  <2>. QED BY <1>1, <2>1, <2>2 DEF Leave, Goto
<1>6. CASE Finish(r)
  <2>1. PICK a \in Answer : Leave(r, a)
    BY <1>6 DEF Finish
  <2>2. UNCHANGED <<slotsVars, metricsVars, stopping, stale>> /\ acked' = acked \cup uploaded[r]
    BY <1>6 DEF Finish
  <2>3. acked' \subseteq Inode
    BY <1>1, <2>2
  <2>. QED BY <1>1, <2>1, <2>2, <2>3 DEF Leave, Goto
<1>7. CASE BeginStore(r)
  BY <1>1, <1>7 DEF BeginStore, Goto
<1>8. CASE InStore(r)
  BY <1>1, <1>8 DEF InStore
<1>9. CASE Stored(r)
  <2>1. latest[r] \in Inode
    BY <1>1, <1>9 DEF Stored, ListedPublished
  <2>. QED BY <1>1, <1>9, <2>1 DEF Stored, Goto
<1>10. CASE ReleaseSlot(r)
  BY <1>1, <1>10 DEF ReleaseSlot, Goto, Slots!Release
<1>11. CASE Observe(r)
  BY <1>1, <1>11 DEF Observe, Goto
<1>. QED
  BY <1>2, <1>3, <1>4, <1>5, <1>6, <1>7, <1>8, <1>9, <1>10, <1>11 DEF HandlerStep

\* What a request of the handler does to its result.
LEMMA ResultInStepKept ==
  ASSUME TypeShape, HInv, NEW r \in Request, HandlerStep(r)
  PROVE  ResultInStep'
<1>1. ResultInStep /\ HandlerTyped
  BY DEF HInv, HandlerShape
<1>2. \A q \in Request \ {r} : hpc'[q] = hpc[q]
  BY <1>1, OwnEntries
<1>3. CASE StoreStep(r) /\ (BeginStore(r) \/ InStore(r))
  <2>1. hpc'[r] = "storing"
    BY <1>1, <1>3 DEF HandlerTyped, BeginStore, InStore, Goto
  <2>. QED BY <1>1, <1>2, <1>3, <2>1, ResultMoves DEF ResultInStep
<1>4. CASE UNCHANGED storeVars /\ ~InStore(r)
  <2>1. hpc[r] = "storing" => pc[r] = "idle" \/ hpc'[r] = "storing"
    BY <1>4 DEF HandlerStep, Forbid, TooBusy, Admit, IncGauge, RejectParts, TooManyFiles,
                BeginStore, Stored, NotStored, Finish, ReleaseSlot, DecGauge, Observe
  <2>. QED BY <1>1, <1>2, <1>4, <2>1 DEF ResultInStep
<1>5. CASE UNCHANGED storeVars /\ InStore(r)
  BY <1>1, <1>5 DEF ResultInStep, InStore
<1>. QED BY <1>3, <1>4, <1>5, StoreUnderHandler

LEMMA AnsweredLastKept ==
  ASSUME HInv, NEW r \in Request, HandlerStep(r)
  PROVE  AnsweredLast'
<1>1. AnsweredLast /\ HandlerTyped
  BY DEF HInv, HandlerShape
<1>2. \A q \in Request \ {r} : hpc'[q] = hpc[q] /\ answer'[q] = answer[q]
  BY <1>1, OwnEntries
<1>3. hpc'[r] \in {"idle", "admitted", "parts", "storing"} => answer'[r] = "none"
  <2>. USE <1>1 DEF AnsweredLast, HandlerTyped
  <2>1. CASE Forbid(r) \/ TooBusy(r) \/ Admit(r) \/ IncGauge(r)
    BY <2>1 DEF Forbid, TooBusy, Admit, IncGauge, Goto
  <2>2. CASE RejectParts(r) \/ TooManyFiles(r) \/ NotStored(r) \/ Finish(r)
    BY <2>2 DEF RejectParts, TooManyFiles, NotStored, Finish, Leave, Goto
  <2>3. CASE BeginStore(r) \/ InStore(r) \/ Stored(r)
    BY <2>3 DEF BeginStore, InStore, Stored, Goto
  <2>4. CASE ReleaseSlot(r) \/ DecGauge(r) \/ Observe(r)
    BY <2>4 DEF ReleaseSlot, DecGauge, Observe, Goto
  <2>. QED BY <2>1, <2>2, <2>3, <2>4 DEF HandlerStep
<1>. QED BY <1>1, <1>2, <1>3 DEF AnsweredLast

LEMMA ListedPublishedKept ==
  ASSUME TypeShape, HInv, NEW r \in Request, HandlerStep(r)
  PROVE  ListedPublished'
<1>1. ListedPublished /\ HandlerTyped /\ ResultInStep
  BY DEF HInv, HandlerShape
<1>2. final \subseteq final'
  BY StoreUnderHandler, PublishedKept
<1>3. /\ \A q \in Request \ {r} : /\ hpc'[q] = hpc[q] /\ uploaded'[q] = uploaded[q]
                                  /\ latest'[q] = latest[q]
      /\ old' = old
      /\ acked' = acked \/ acked' = acked \cup uploaded[r]
  BY <1>1, OwnEntries
<1>4. \A q \in Request \ {r} : outcome'[q] = outcome[q]
  BY <1>1, StoreUnderHandler, ResultMoves
<1>5. uploaded'[r] \subseteq final
  <2>. USE <1>1 DEF ListedPublished, HandlerTyped
  <2>1. CASE RejectParts(r) \/ TooManyFiles(r) \/ NotStored(r) \/ Finish(r)
    BY <2>1 DEF RejectParts, TooManyFiles, NotStored, Finish, Leave
  <2>2. CASE Stored(r)
    BY <2>2 DEF Stored
  <2>3. CASE uploaded' = uploaded
    BY <2>3
  <2>. QED
    BY <2>1, <2>2, <2>3
    DEF HandlerStep, Forbid, TooBusy, Admit, IncGauge, BeginStore, InStore, ReleaseSlot,
        DecGauge, Observe
<1>6. ASSUME hpc'[r] = "storing", outcome'[r] = "ok" PROVE latest'[r] \in final'
  <2>1. hpc[r] = "storing" \/ BeginStore(r)
    BY <1>1, <1>6
    DEF HandlerTyped, HandlerStep, Forbid, TooBusy, Admit, IncGauge, RejectParts, TooManyFiles,
        InStore, Stored, NotStored, Finish, ReleaseSlot, DecGauge, Observe, Goto, Leave
  <2>2. CASE BeginStore(r)
    BY <1>6, <2>2 DEF BeginStore, RejectName, ReserveFile, RefuseFile, TypeShape, StoreTypeOK
  <2>3. CASE InStore(r)
    <3>1. StoreStep(r) /\ pc[r] # "idle"
      BY <2>3 DEF InStore
    <3>2. CASE LinkFile(r)
      <4>1. pc'[r] = "linked"
        BY <1>1, <3>1, <3>2, ResultMoves
      <4>2. latest'[r] = ino[r] /\ ino[r] \in final'
        BY <1>1, <2>3, <3>2, <4>1 DEF InStore, LinkFile, HandlerTyped
      <4>. QED BY <4>2
    <3>3. CASE ~LinkFile(r)
      <4>1. pc'[r] # "linked" /\ pc[r] = "linked"
        BY <1>1, <1>6, <3>1, <3>3, ResultMoves
      <4>2. latest'[r] = latest[r] /\ hpc[r] = "storing" /\ outcome[r] = "ok"
        BY <1>1, <2>3, <4>1 DEF InStore, ResultInStep
      <4>. QED BY <1>1, <1>2, <4>2 DEF ListedPublished
    <3>. QED BY <3>2, <3>3
  <2>4. CASE hpc[r] = "storing" /\ ~InStore(r) /\ ~BeginStore(r)
    BY <1>1, <1>6, <2>4
    DEF HandlerTyped, HandlerStep, Forbid, TooBusy, Admit, IncGauge, RejectParts, TooManyFiles,
        Stored, NotStored, Finish, ReleaseSlot, DecGauge, Observe, Goto, Leave
  <2>. QED BY <2>1, <2>2, <2>3, <2>4
<1>. QED BY <1>1, <1>2, <1>3, <1>4, <1>5, <1>6 DEF ListedPublished

\* A request takes a step only in a process that runs.
LEMMA HandlerStepIsUp ==
  ASSUME HInv, NEW r \in Request, HandlerStep(r) PROVE up /\ up'
<1>1. hpc[r] # "idle" => up
  BY DEF HInv, HandlerShape, DownQuiet
<1>2. up
  BY <1>1
  DEF HandlerStep, Forbid, TooBusy, Admit, IncGauge, RejectParts, TooManyFiles, BeginStore,
      InStore, Stored, NotStored, Finish, ReleaseSlot, DecGauge, Observe
<1>. QED BY <1>2, OwnEntries DEF HInv

\* The end of a process forgets everything but the disk.
LEMMA ExitForgets ==
  ASSUME TypeShape, HInv, Exit
  PROVE  HInv'
<1>1. HandlerTyped /\ ListedPublished
  BY DEF HInv, HandlerShape
<1>2. HandlerTyped'
  <2>1. /\ hpc' \in [Request -> HPC] /\ answer' \in [Request -> Answer]
        /\ latest' \in [Request -> Inode \cup {None}]
    BY DEF Exit, HPC, Answer
  <2>2. uploaded' \in [Request -> SUBSET Inode]
    BY Zenon DEF Exit
  <2>3. /\ active' \in [Identity -> Nat] /\ inFlight' \in Nat
        /\ activeUploads' \in Int /\ uploadRequests' \in Nat
        /\ uploadedFiles' \in [Identity -> Nat]
    BY DEF Exit, Slots!RestartSlots
  <2>4. stopping' \in BOOLEAN /\ acked' \subseteq Inode /\ stale' \subseteq Inode
    BY <1>1 DEF Exit, HandlerTyped
  <2>. QED BY <2>1, <2>2, <2>3, <2>4 DEF HandlerTyped
<1>3. ResultInStep' /\ AnsweredLast'
  BY DEF Exit, Crash, ResultInStep, AnsweredLast
<1>4. ListedPublished' /\ DownQuiet'
  BY <1>1 DEF Exit, Crash, ListedPublished, DownQuiet
<1>. QED BY <1>2, <1>3, <1>4 DEF HInv, HandlerShape

LEMMA HInvStep ==
  ASSUME TypeShape, HInv, [HandlerNext]_uploadVars
  PROVE  HInv'
<1>1. ASSUME NEW r \in Request, HandlerStep(r) PROVE HInv'
  <2>1. DownQuiet'
    BY <1>1, HandlerStepIsUp DEF DownQuiet
  <2>. QED
    BY <1>1, <2>1, TypedStep, ResultInStepKept, AnsweredLastKept, ListedPublishedKept
    DEF HInv, HandlerShape
<1>2. CASE Start
  <2>1. UNCHANGED <<temp, final, pc, outcome, hpc, uploaded, latest, answer, slotsVars,
                    metricsVars, stopping, acked>>
        /\ up' /\ stale' = temp /\ old' = final
    BY <1>2 DEF Start, Restart
  <2>2. temp \subseteq Inode
    BY DEF TypeShape, StoreTypeOK
  <2>3. HandlerTyped'
    BY <2>1, <2>2 DEF HInv, HandlerTyped
  <2>4. ResultInStep' /\ AnsweredLast' /\ ListedPublished' /\ DownQuiet'
    BY <2>1 DEF HInv, HandlerShape, ResultInStep, AnsweredLast, ListedPublished, DownQuiet
  <2>. QED BY <2>3, <2>4 DEF HInv, HandlerShape
<1>3. CASE Sigterm \/ UNCHANGED uploadVars
  <2>1. UNCHANGED <<storeVars, hpc, uploaded, latest, answer, slotsVars, metricsVars, acked,
                    stale, old>> /\ (stopping' = TRUE \/ stopping' = stopping)
    BY <1>3 DEF Sigterm
  <2>2. HandlerTyped'
    BY <2>1 DEF HInv, HandlerTyped
  <2>3. ResultInStep' /\ AnsweredLast' /\ ListedPublished' /\ DownQuiet'
    BY <2>1 DEF HInv, HandlerShape, ResultInStep, AnsweredLast, ListedPublished, DownQuiet
  <2>. QED BY <2>2, <2>3 DEF HInv, HandlerShape
<1>. QED BY <1>1, <1>2, <1>3, HandlerCases, ExitForgets

LEMMA HInvariant == HandlerSpec => []HInv
<1>1. TypeShape /\ HInv /\ [HandlerNext]_uploadVars => HInv'
  BY HInvStep
<1>. QED BY <1>1, HInvInit, StoreTypedUnderHandler, PTL DEF HandlerSpec

\* A file acknowledged with 201 (server.go:408) is published, whole and
\* within the limit, for good: no later request, crash or restart takes it
\* away, as long as maxFileBytes+1 does not overflow and nobody collects it.
THEOREM AckedStay ==
  ASSUME MaxFileBytes < MaxInt PROVE HandlerSpec => []AckedFilesDurable
<1>1. HInv /\ PublishedWhole => AckedFilesDurable
  BY DEF HInv, HandlerShape, ListedPublished, PublishedWhole, AckedFilesDurable
<1>2. HandlerSpec => []PublishedWhole
  BY HandlerImplementsStore, PublishedFilesWhole, PTL
<1>. QED BY <1>1, <1>2, HInvariant, PTL

-----------------------------------------------------------------------------
(* Slots.                                                                  *)

Refused == {r \in Request : answer[r] = "429"}

\* Each step of a request takes a slot, is refused one, gives one back, or
\* leaves the slots as they are.
LEMMA SlotsStep ==
  ASSUME HInv, NEW r \in Request, HandlerStep(r)
  PROVE  \/ Slots!Acquire(r) \/ Slots!Refuse(r) \/ Slots!Release(r)
         \/ UNCHANGED <<slotsVars, Holders, Refused>>
<1>1. HandlerTyped /\ AnsweredLast
  BY DEF HInv, HandlerShape
<1>2. /\ \A q \in Request \ {r} : hpc'[q] = hpc[q] /\ answer'[q] = answer[q]
  BY <1>1, OwnEntries
<1>3. ASSUME r \in Holders' <=> r \in Holders, answer'[r] = "429" <=> answer[r] = "429"
      PROVE  UNCHANGED <<Holders, Refused>>
  BY <1>2, <1>3 DEF Holders, Refused
<1>. USE <1>1 DEF HandlerTyped
<1>4. CASE TooBusy(r) \/ Admit(r) \/ ReleaseSlot(r)
  BY <1>4 DEF TooBusy, Admit, ReleaseSlot
<1>5. CASE Forbid(r)
  <2>1. r \in Holders' <=> r \in Holders
    BY <1>5 DEF Forbid, Goto, Holders
  <2>2. answer'[r] # "429" /\ answer[r] # "429"
    BY <1>5 DEF Forbid, AnsweredLast
  <2>. QED BY <1>3, <1>5, <2>1, <2>2 DEF Forbid
<1>6. CASE RejectParts(r) \/ TooManyFiles(r) \/ NotStored(r) \/ Finish(r)
  <2>1. r \in Holders' <=> r \in Holders
    BY <1>6 DEF RejectParts, TooManyFiles, NotStored, Finish, Leave, Goto, Holders
  <2>2. answer'[r] # "429" /\ answer[r] # "429"
    BY <1>6 DEF RejectParts, TooManyFiles, NotStored, Finish, Leave, AnsweredLast
  <2>. QED BY <1>3, <1>6, <2>1, <2>2 DEF RejectParts, TooManyFiles, NotStored, Finish
<1>7. CASE BeginStore(r) \/ InStore(r) \/ Stored(r) \/ IncGauge(r)
  <2>1. r \in Holders' <=> r \in Holders
    BY <1>7 DEF BeginStore, InStore, Stored, IncGauge, Goto, Holders
  <2>2. answer' = answer /\ UNCHANGED slotsVars
    BY <1>7 DEF BeginStore, InStore, Stored, IncGauge
  <2>. QED BY <1>3, <2>1, <2>2
<1>8. CASE DecGauge(r) \/ Observe(r)
  <2>1. r \in Holders' <=> r \in Holders
    BY <1>8 DEF DecGauge, Observe, Goto, Holders
  <2>2. answer' = answer /\ UNCHANGED slotsVars
    BY <1>8 DEF DecGauge, Observe
  <2>. QED BY <1>3, <2>1, <2>2
<1>. QED BY <1>4, <1>5, <1>6, <1>7, <1>8 DEF HandlerStep

\* Every way through the handler takes its slot once and gives it back once,
\* also past errors and panics, and 429 is only the answer of a request that
\* took none (server.go:277-284): a behaviour of UploadSlots.
THEOREM HandlerImplementsSlots == HandlerSpec => ImplementsSlots
<1>1. HandlerInit => Slots!SlotsInit
  BY DEF HandlerInit, Slots!SlotsInit, Holders
<1>2. HInv /\ [HandlerNext]_uploadVars => [Slots!SlotsNext]_<<active, inFlight, Holders, Refused>>
  <2>. SUFFICES ASSUME HInv, [HandlerNext]_uploadVars
                PROVE  Slots!SlotsNext \/ UNCHANGED <<active, inFlight, Holders, Refused>>
    OBVIOUS
  <2>1. ASSUME NEW r \in Request, HandlerStep(r)
        PROVE  Slots!SlotsNext \/ UNCHANGED <<active, inFlight, Holders, Refused>>
    BY <2>1, SlotsStep DEF Slots!SlotsNext
  <2>2. CASE Exit
    BY <2>2 DEF Exit, Slots!SlotsNext
  <2>3. CASE Start \/ Sigterm \/ UNCHANGED uploadVars
    BY <2>3 DEF Start, Sigterm, Holders, Refused
  <2>. QED BY <2>1, <2>2, <2>3, HandlerCases
<1>. QED BY <1>1, <1>2, HInvariant, PTL
         DEF HandlerSpec, ImplementsSlots, Slots!SlotsSpec, Slots!slotVars, Refused

HeldFor(k) == {r \in Holders : OwnerOf[r] = k}

\* The counters are the numbers of requests they stand for, within the caps.
SlotsCount ==
  /\ inFlight = Cardinality(Holders) /\ inFlight <= Total
  /\ \A k \in Identity : active[k] = Cardinality(HeldFor(k)) /\ active[k] <= PerUser

LEMMA HoldersAreFinite ==
  /\ IsFiniteSet(Holders) /\ Cardinality(Holders) \in Nat
  /\ \A k : IsFiniteSet(HeldFor(k)) /\ Cardinality(HeldFor(k)) \in Nat
<1>1. Holders \subseteq Request /\ \A k : HeldFor(k) \subseteq Request
  BY DEF Holders, HeldFor
<1>. QED BY <1>1, StoreAssumption, FS_Subset, FS_CardinalityType

LEMMA SlotsCountStep ==
  ASSUME HInv, SlotsCount, [HandlerNext]_uploadVars
  PROVE  SlotsCount'
<1>1. /\ active \in [Identity -> Nat] /\ inFlight \in Nat
      /\ PerUser \in Nat /\ Total \in Nat
  BY HandlerAssumption DEF HInv, HandlerTyped
<1>2. ASSUME NEW r \in Request, HandlerStep(r) PROVE SlotsCount'
  <2>1. OwnerOf[r] \in Identity
    BY StoreAssumption
  <2>2. CASE Slots!Acquire(r)
    <3>1. /\ r \notin Holders /\ Holders' = Holders \cup {r}
          /\ inFlight < Total /\ active[OwnerOf[r]] < PerUser
          /\ inFlight' = inFlight + 1
          /\ active' = [active EXCEPT ![OwnerOf[r]] = @ + 1]
      BY <1>1, <2>1, <2>2 DEF Slots!Acquire, Slots!AtCap
    <3>2. inFlight' = Cardinality(Holders') /\ inFlight' <= Total
      <4>1. r \notin Holders /\ Holders' = Holders \cup {r}
        BY <3>1
      <4>2. IsFiniteSet(Holders)
        BY HoldersAreFinite
      <4>3. Cardinality(Holders') = Cardinality(Holders) + 1
        BY <4>1, <4>2, FS_AddElement
      <4>. QED BY <1>1, <3>1, <4>3 DEF SlotsCount
    <3>3. ASSUME NEW k \in Identity
          PROVE  active'[k] = Cardinality(HeldFor(k)') /\ active'[k] <= PerUser
      <4>1. CASE k = OwnerOf[r]
        <5>1. HeldFor(k)' = HeldFor(k) \cup {r} /\ r \notin HeldFor(k)
          BY <3>1, <4>1 DEF HeldFor
        <5>2. Cardinality(HeldFor(k)') = Cardinality(HeldFor(k)) + 1
          BY <5>1, HoldersAreFinite, FS_AddElement
        <5>. QED BY <1>1, <3>1, <4>1, <5>2 DEF SlotsCount
      <4>2. CASE k # OwnerOf[r]
        <5>1. HeldFor(k)' = HeldFor(k)
          BY <3>1, <4>2 DEF HeldFor
        <5>. QED BY <1>1, <3>1, <4>2, <5>1 DEF SlotsCount
      <4>. QED BY <4>1, <4>2
    <3>. QED BY <3>2, <3>3 DEF SlotsCount
  <2>3. CASE Slots!Release(r)
    <3>1. /\ r \in Holders /\ Holders' = Holders \ {r}
          /\ inFlight' = IF inFlight > 0 THEN inFlight - 1 ELSE inFlight
          /\ active' = [active EXCEPT ![OwnerOf[r]] = IF @ <= 1 THEN 0 ELSE @ - 1]
      BY <2>3 DEF Slots!Release
    <3>2. /\ Cardinality(Holders) = Cardinality(Holders') + 1
          /\ Cardinality(Holders') \in Nat
      <4>1. Holders \ {r} = Holders' \ {r} /\ r \notin Holders' /\ r \in Holders
        BY <3>1
      <4>2. IsFiniteSet(Holders)
        BY HoldersAreFinite
      <4>. QED BY <4>1, <4>2, SetChange
    <3>3. inFlight' = Cardinality(Holders') /\ inFlight' <= Total
      BY <1>1, <3>1, <3>2 DEF SlotsCount
    <3>4. ASSUME NEW k \in Identity
          PROVE  active'[k] = Cardinality(HeldFor(k)') /\ active'[k] <= PerUser
      <4>1. CASE k = OwnerOf[r]
        <5>1. /\ HeldFor(k) \ {r} = HeldFor(k)' \ {r} /\ r \notin HeldFor(k)'
              /\ r \in HeldFor(k)
          BY <3>1, <4>1 DEF HeldFor
        <5>2. /\ Cardinality(HeldFor(k)) = Cardinality(HeldFor(k)') + 1
              /\ Cardinality(HeldFor(k)') \in Nat
          BY <5>1, HoldersAreFinite, SetChange
        <5>3. active[k] = Cardinality(HeldFor(k)) /\ active[k] <= PerUser
          BY DEF SlotsCount
        <5>. QED BY <1>1, <3>1, <4>1, <5>2, <5>3
      <4>2. CASE k # OwnerOf[r]
        <5>1. HeldFor(k)' = HeldFor(k)
          BY <3>1, <4>2 DEF HeldFor
        <5>. QED BY <1>1, <3>1, <4>2, <5>1 DEF SlotsCount
      <4>. QED BY <4>1, <4>2
    <3>. QED BY <3>3, <3>4 DEF SlotsCount
  <2>4. CASE Slots!Refuse(r) \/ UNCHANGED <<slotsVars, Holders, Refused>>
    BY <2>4 DEF Slots!Refuse, SlotsCount, HeldFor
  <2>. QED BY <1>2, <2>2, <2>3, <2>4, SlotsStep
<1>3. CASE Exit
  <2>1. /\ Holders' = {} /\ inFlight' = 0 /\ active' = [k \in Identity |-> 0]
        /\ \A k : HeldFor(k)' = {}
    BY <1>3 DEF Exit, Slots!RestartSlots, HeldFor
  <2>. QED BY <1>1, <2>1, FS_EmptySet DEF SlotsCount
<1>4. CASE Start \/ Sigterm \/ UNCHANGED uploadVars
  BY <1>4 DEF Start, Sigterm, SlotsCount, Holders, HeldFor
<1>. QED BY <1>2, <1>3, <1>4, HandlerCases

LEMMA SlotsCountInvariant == HandlerSpec => []SlotsCount
<1>1. HandlerInit => SlotsCount
  <2>. SUFFICES ASSUME HandlerInit PROVE SlotsCount
    OBVIOUS
  <2>1. /\ Holders = {} /\ inFlight = 0 /\ active = [k \in Identity |-> 0]
        /\ \A k : HeldFor(k) = {}
    BY DEF HandlerInit, Holders, HeldFor
  <2>. QED BY <2>1, FS_EmptySet, HandlerAssumption DEF SlotsCount
<1>2. HInv /\ SlotsCount /\ [HandlerNext]_uploadVars => SlotsCount'
  BY SlotsCountStep
<1>. QED BY <1>1, <1>2, HInvariant, PTL DEF HandlerSpec

-----------------------------------------------------------------------------
(* Metrics.  The three conjuncts of MetricsAgree, each by the set that it  *)
(* counts.                                                                 *)

Gauged == {r \in Request : hpc[r] \in {"parts", "storing", "leaving", "released"}}

Served == {r \in Request : hpc[r] = "done" /\ answer[r] # "panic"}

\* A panic does not come back to the rest of observeUpload.
PanicsSkip == \A r \in Request : hpc[r] = "observe" => answer[r] # "panic"

NewFiles(k) == OfOwner(final \ old, k)

Recorded ==
  up => \A k \in Identity :
    uploadedFiles[k] + Cardinality(Unrecorded(k)) = Cardinality(NewFiles(k))

MetricsInv ==
  /\ activeUploads = Cardinality(Gauged)
  /\ uploadRequests = Cardinality(Served)
  /\ PanicsSkip
  /\ Recorded

LEMMA MetricsParts == MetricsInv => MetricsAgree
BY DEF MetricsInv, MetricsAgree, Gauged, Served, Recorded, NewFiles

LEMMA MetricsFinite ==
  ASSUME TypeShape
  PROVE  /\ IsFiniteSet(Gauged) /\ Cardinality(Gauged) \in Nat
         /\ IsFiniteSet(Served) /\ Cardinality(Served) \in Nat
         /\ \A k : IsFiniteSet(Unrecorded(k)) /\ Cardinality(Unrecorded(k)) \in Nat
         /\ \A k : IsFiniteSet(NewFiles(k)) /\ Cardinality(NewFiles(k)) \in Nat
<1>1. /\ Gauged \subseteq Request /\ Served \subseteq Request
      /\ \A k : Unrecorded(k) \subseteq Request
  BY DEF Gauged, Served, Unrecorded
<1>2. \A k : NewFiles(k) \subseteq Inode
  BY DEF NewFiles, OfOwner, TypeShape, StoreTypeOK
<1>. QED BY <1>1, <1>2, StoreAssumption, FS_Subset, FS_CardinalityType

LEMMA GaugeStep ==
  ASSUME TypeShape, HInv, activeUploads = Cardinality(Gauged), NEW r \in Request, HandlerStep(r)
  PROVE  activeUploads' = Cardinality(Gauged')
<1>1. HandlerTyped
  BY DEF HInv
<1>2. Gauged \ {r} = Gauged' \ {r}
  BY <1>1, OwnEntries DEF Gauged
<1>3. IsFiniteSet(Gauged)
  BY MetricsFinite
<1>. USE DEF HandlerTyped
<1>4. CASE IncGauge(r)
  <2>1. r \notin Gauged /\ r \in Gauged'
    BY <1>1, <1>4 DEF IncGauge, Goto, Gauged
  <2>2. Cardinality(Gauged') = Cardinality(Gauged) + 1
    BY <1>2, <1>3, <2>1, SetChange
  <2>. QED BY <1>4, <2>2 DEF IncGauge
<1>5. CASE DecGauge(r)
  <2>1. r \in Gauged /\ r \notin Gauged'
    BY <1>1, <1>5 DEF DecGauge, Goto, Gauged
  <2>2. Cardinality(Gauged) = Cardinality(Gauged') + 1 /\ Cardinality(Gauged') \in Nat
    BY <1>2, <1>3, <2>1, SetChange
  <2>. QED BY <1>5, <2>2 DEF DecGauge
<1>6. CASE ~IncGauge(r) /\ ~DecGauge(r)
  <2>1. r \in Gauged <=> r \in Gauged'
    <3>1. CASE Forbid(r) \/ TooBusy(r) \/ Admit(r) \/ Observe(r) \/ ReleaseSlot(r)
      BY <1>1, <3>1 DEF Forbid, TooBusy, Admit, Observe, ReleaseSlot, Goto, Gauged
    <3>2. CASE RejectParts(r) \/ TooManyFiles(r) \/ NotStored(r) \/ Finish(r)
      BY <1>1, <3>2 DEF RejectParts, TooManyFiles, NotStored, Finish, Leave, Goto, Gauged
    <3>3. CASE BeginStore(r) \/ InStore(r) \/ Stored(r)
      BY <1>1, <3>3 DEF BeginStore, InStore, Stored, Goto, Gauged
    <3>. QED BY <1>6, <3>1, <3>2, <3>3 DEF HandlerStep
  <2>2. Gauged' = Gauged
    BY <1>2, <2>1
  <2>3. activeUploads' = activeUploads
    BY <1>6 DEF HandlerStep, Forbid, TooBusy, Admit, RejectParts, TooManyFiles, BeginStore,
                InStore, Stored, NotStored, Finish, ReleaseSlot, Observe
  <2>. QED BY <2>2, <2>3
<1>. QED BY <1>4, <1>5, <1>6

LEMMA ServedStep ==
  ASSUME TypeShape, HInv, PanicsSkip, uploadRequests = Cardinality(Served),
         NEW r \in Request, HandlerStep(r)
  PROVE  uploadRequests' = Cardinality(Served') /\ PanicsSkip'
<1>1. HandlerTyped /\ AnsweredLast
  BY DEF HInv, HandlerShape
<1>2. /\ Served \ {r} = Served' \ {r}
      /\ \A q \in Request \ {r} : hpc'[q] = hpc[q] /\ answer'[q] = answer[q]
  BY <1>1, OwnEntries DEF Served
<1>3. IsFiniteSet(Served)
  BY MetricsFinite
<1>. USE DEF HandlerTyped
<1>4. PanicsSkip'
  <2>1. hpc'[r] = "observe" => answer'[r] # "panic"
    <3>1. CASE Forbid(r) \/ TooBusy(r) \/ Admit(r) \/ IncGauge(r)
      BY <1>1, <3>1 DEF Forbid, TooBusy, Admit, IncGauge, Goto
    <3>2. CASE RejectParts(r) \/ TooManyFiles(r) \/ NotStored(r) \/ Finish(r)
      BY <1>1, <3>2 DEF RejectParts, TooManyFiles, NotStored, Finish, Leave, Goto
    <3>3. CASE BeginStore(r) \/ InStore(r) \/ Stored(r)
      BY <1>1, <3>3 DEF BeginStore, InStore, Stored, Goto
    <3>4. CASE ReleaseSlot(r) \/ DecGauge(r) \/ Observe(r)
      BY <1>1, <3>4 DEF ReleaseSlot, DecGauge, Observe, Goto
    <3>. QED BY <3>1, <3>2, <3>3, <3>4 DEF HandlerStep
  <2>. QED BY <1>2, <2>1 DEF PanicsSkip
<1>5. CASE Observe(r)
  <2>1. r \notin Served /\ r \in Served'
    BY <1>1, <1>5 DEF Observe, Goto, Served, PanicsSkip
  <2>2. Cardinality(Served') = Cardinality(Served) + 1
    BY <1>2, <1>3, <2>1, SetChange
  <2>. QED BY <1>4, <1>5, <2>2 DEF Observe
<1>6. CASE ~Observe(r)
  <2>1. r \notin Served /\ r \notin Served'
    <3>1. CASE Forbid(r) \/ TooBusy(r) \/ Admit(r) \/ IncGauge(r)
      BY <1>1, <3>1 DEF Forbid, TooBusy, Admit, IncGauge, Goto, Served
    <3>2. CASE RejectParts(r) \/ TooManyFiles(r) \/ NotStored(r) \/ Finish(r)
      BY <1>1, <3>2 DEF RejectParts, TooManyFiles, NotStored, Finish, Leave, Goto, Served
    <3>3. CASE BeginStore(r) \/ InStore(r) \/ Stored(r)
      BY <1>1, <3>3 DEF BeginStore, InStore, Stored, Goto, Served
    <3>4. CASE ReleaseSlot(r) \/ DecGauge(r)
      BY <1>1, <3>4 DEF ReleaseSlot, DecGauge, Goto, Served
    <3>. QED BY <1>6, <3>1, <3>2, <3>3, <3>4 DEF HandlerStep
  <2>2. Served' = Served
    BY <1>2, <2>1
  <2>3. uploadRequests' = uploadRequests
    BY <1>6 DEF HandlerStep, Forbid, TooBusy, Admit, IncGauge, RejectParts, TooManyFiles,
                BeginStore, InStore, Stored, NotStored, Finish, ReleaseSlot, DecGauge
  <2>. QED BY <1>4, <2>2, <2>3
<1>. QED BY <1>5, <1>6

\* A file that recordFile has still to count is one that was just linked.
LEMMA UnrecordedMoves ==
  ASSUME TypeShape, HInv, NEW r \in Request, HandlerStep(r), NEW k \in Identity
  PROVE  /\ Unrecorded(k) \ {r} = Unrecorded(k)' \ {r}
         /\ Stored(r) => /\ r \in Unrecorded(k) <=> OwnerOf[r] = k
                         /\ r \notin Unrecorded(k)'
         /\ InStore(r) /\ LinkFile(r) => /\ r \notin Unrecorded(k)
                                         /\ r \in Unrecorded(k)' <=> OwnerOf[r] = k
         /\ ~Stored(r) /\ ~(InStore(r) /\ LinkFile(r)) => (r \in Unrecorded(k) <=> r \in Unrecorded(k)')
<1>1. HandlerTyped /\ ResultInStep
  BY DEF HInv, HandlerShape
<1>2. \A q \in Request \ {r} : hpc'[q] = hpc[q] /\ outcome'[q] = outcome[q]
  BY <1>1, OwnEntries, StoreUnderHandler, ResultMoves
<1>. USE <1>1 DEF HandlerTyped, Unrecorded
<1>3. Unrecorded(k) \ {r} = Unrecorded(k)' \ {r}
  BY <1>2
<1>4. CASE Stored(r)
  BY <1>3, <1>4 DEF Stored, Goto, InStore
<1>5. CASE InStore(r)
  <2>1. /\ hpc[r] = "storing" /\ hpc' = hpc /\ StoreStep(r) /\ pc[r] # "idle"
        /\ ~Stored(r)
    BY <1>5 DEF InStore, Stored
  <2>2. CASE LinkFile(r)
    <3>1. pc[r] = "link" /\ outcome'[r] = "ok"
      BY <2>1, <2>2, ResultMoves
    <3>2. outcome[r] # "ok"
      BY <3>1 DEF ResultInStep
    <3>3. r \notin Unrecorded(k) /\ (r \in Unrecorded(k)' <=> OwnerOf[r] = k)
      BY <2>1, <3>1, <3>2
    <3>. QED BY <1>3, <1>5, <2>1, <2>2, <3>3
  <2>3. CASE ~LinkFile(r)
    <3>1. outcome'[r] = "ok" <=> pc[r] = "linked"
      BY <2>1, <2>3, ResultMoves
    <3>2. outcome[r] = "ok" <=> pc[r] = "linked"
      BY <2>1 DEF ResultInStep
    <3>. QED BY <1>3, <2>1, <2>3, <3>1, <3>2
  <2>. QED BY <2>2, <2>3
<1>6. CASE BeginStore(r)
  <2>1. hpc[r] = "parts" /\ hpc'[r] = "storing"
    BY <1>6 DEF BeginStore, Goto
  <2>2. pc[r] = "idle" /\ StoreStep(r) /\ ~LinkFile(r)
    BY <1>6 DEF BeginStore, StoreStep, RejectName, ReserveFile, RefuseFile, LinkFile
  <2>3. outcome'[r] # "ok"
    BY <2>2, ResultMoves
  <2>. QED BY <1>3, <2>1, <2>2, <2>3 DEF Stored, InStore
<1>7. CASE NotStored(r)
  <2>1. hpc'[r] # "storing" /\ outcome[r] # "ok"
    BY <1>7 DEF NotStored, Leave, Goto
  <2>. QED BY <1>3, <1>7, <2>1 DEF NotStored, Stored, InStore
<1>8. ASSUME hpc[r] # "storing", hpc'[r] # "storing"
      PROVE  /\ Unrecorded(k) \ {r} = Unrecorded(k)' \ {r}
             /\ ~Stored(r) /\ ~InStore(r)
             /\ r \notin Unrecorded(k) /\ r \notin Unrecorded(k)'
  BY <1>3, <1>8 DEF Stored, InStore
<1>9. CASE Forbid(r) \/ TooBusy(r) \/ Admit(r) \/ IncGauge(r)
  BY <1>8, <1>9 DEF Forbid, TooBusy, Admit, IncGauge, Goto
<1>10. CASE RejectParts(r) \/ TooManyFiles(r) \/ Finish(r)
  BY <1>8, <1>10 DEF RejectParts, TooManyFiles, Finish, Leave, Goto
<1>11. CASE ReleaseSlot(r) \/ DecGauge(r) \/ Observe(r)
  BY <1>8, <1>11 DEF ReleaseSlot, DecGauge, Observe, Goto
<1>. QED BY <1>4, <1>5, <1>6, <1>7, <1>9, <1>10, <1>11 DEF HandlerStep

LEMMA RecordedStep ==
  ASSUME TypeShape, HInv, Recorded, NEW r \in Request, HandlerStep(r)
  PROVE  Recorded'
<1>. SUFFICES ASSUME NEW k \in Identity
              PROVE  uploadedFiles'[k] + Cardinality(Unrecorded(k)') = Cardinality(NewFiles(k)')
  BY DEF Recorded
<1>1. uploadedFiles[k] + Cardinality(Unrecorded(k)) = Cardinality(NewFiles(k))
  BY HandlerStepIsUp DEF Recorded
<1>2. /\ uploadedFiles \in [Identity -> Nat] /\ OwnerOf[r] \in Identity
      /\ ListedPublished /\ HandlerTyped
  BY StoreAssumption DEF HInv, HandlerShape, HandlerTyped
<1>3. /\ IsFiniteSet(Unrecorded(k)) /\ Cardinality(Unrecorded(k)) \in Nat
      /\ IsFiniteSet(NewFiles(k)) /\ Cardinality(NewFiles(k)) \in Nat
  BY MetricsFinite
<1>4. /\ Unrecorded(k) \ {r} = Unrecorded(k)' \ {r}
      /\ Stored(r) => /\ r \in Unrecorded(k) <=> OwnerOf[r] = k
                      /\ r \notin Unrecorded(k)'
      /\ InStore(r) /\ LinkFile(r) => /\ r \notin Unrecorded(k)
                                      /\ r \in Unrecorded(k)' <=> OwnerOf[r] = k
      /\ ~Stored(r) /\ ~(InStore(r) /\ LinkFile(r)) => (r \in Unrecorded(k) <=> r \in Unrecorded(k)')
  BY UnrecordedMoves
<1>5. old' = old
  BY <1>2, OwnEntries
<1>6. ASSUME UNCHANGED storeVars \/ (StoreStep(r) /\ ~LinkFile(r)) PROVE NewFiles(k)' = NewFiles(k)
  <2>1. final' = final /\ \A i \in final : inode'[i] = inode[i]
    BY <1>6, PublishedKept
  <2>. QED BY <1>5, <2>1 DEF NewFiles, OfOwner
<1>7. CASE Stored(r)
  <2>1. NewFiles(k)' = NewFiles(k)
    BY <1>6, <1>7 DEF Stored
  <2>2. uploadedFiles'[k] = IF OwnerOf[r] = k THEN uploadedFiles[k] + 1 ELSE uploadedFiles[k]
    BY <1>2, <1>7 DEF Stored
  <2>3. CASE OwnerOf[r] = k
    <3>1. r \in Unrecorded(k) /\ r \notin Unrecorded(k)'
      BY <1>4, <1>7, <2>3
    <3>2. /\ Cardinality(Unrecorded(k)) = Cardinality(Unrecorded(k)') + 1
          /\ Cardinality(Unrecorded(k)') \in Nat
      BY <1>3, <1>4, <3>1, SetChange
    <3>. QED BY <1>1, <1>2, <1>3, <2>1, <2>2, <2>3, <3>2
  <2>4. CASE OwnerOf[r] # k
    <3>1. r \notin Unrecorded(k) /\ r \notin Unrecorded(k)'
      BY <1>4, <1>7, <2>4
    <3>2. Unrecorded(k)' = Unrecorded(k)
      BY <1>4, <3>1
    <3>. QED BY <1>1, <2>1, <2>2, <2>4, <3>2
  <2>. QED BY <2>3, <2>4
<1>8. CASE InStore(r) /\ LinkFile(r)
  <2>1. uploadedFiles' = uploadedFiles
    BY <1>8 DEF InStore
  <2>2. /\ final' = final \cup {ino[r]} /\ inode' = inode
        /\ ino[r] \notin final /\ ino[r] \in Inode /\ inode[ino[r]].owner = OwnerOf[r]
    BY <1>8 DEF LinkFile, TypeShape, StoreTypeOK, StoreShape, OwnTemp, Holding
  <2>3. ino[r] \notin old
    BY <1>2, <2>2 DEF ListedPublished
  <2>4. /\ NewFiles(k) \ {ino[r]} = NewFiles(k)' \ {ino[r]} /\ ino[r] \notin NewFiles(k)
        /\ ino[r] \in NewFiles(k)' <=> OwnerOf[r] = k
    BY <1>5, <2>2, <2>3 DEF NewFiles, OfOwner
  <2>5. CASE OwnerOf[r] = k
    <3>1. Cardinality(NewFiles(k)') = Cardinality(NewFiles(k)) + 1
      BY <1>3, <2>4, <2>5, SetChange
    <3>2. r \notin Unrecorded(k) /\ r \in Unrecorded(k)'
      BY <1>4, <1>8, <2>5
    <3>3. Cardinality(Unrecorded(k)') = Cardinality(Unrecorded(k)) + 1
      BY <1>3, <1>4, <3>2, SetChange
    <3>. QED BY <1>1, <1>2, <1>3, <2>1, <3>1, <3>3
  <2>6. CASE OwnerOf[r] # k
    <3>1. NewFiles(k)' = NewFiles(k)
      BY <2>4, <2>6
    <3>2. r \notin Unrecorded(k) /\ r \notin Unrecorded(k)'
      BY <1>4, <1>8, <2>6
    <3>3. Unrecorded(k)' = Unrecorded(k)
      BY <1>4, <3>2
    <3>. QED BY <1>1, <2>1, <3>1, <3>3
  <2>. QED BY <2>5, <2>6
<1>9. CASE ~Stored(r) /\ ~(InStore(r) /\ LinkFile(r))
  <2>1. Unrecorded(k)' = Unrecorded(k)
    BY <1>4, <1>9
  <2>2. uploadedFiles' = uploadedFiles
    BY <1>9 DEF HandlerStep, Forbid, TooBusy, Admit, IncGauge, RejectParts, TooManyFiles,
                BeginStore, InStore, NotStored, Finish, ReleaseSlot, DecGauge, Observe
  <2>3. BeginStore(r) => ~LinkFile(r)
    BY DEF BeginStore, RejectName, ReserveFile, RefuseFile, LinkFile
  <2>4. NewFiles(k)' = NewFiles(k)
    BY <1>6, <1>9, <2>3, StoreUnderHandler
  <2>. QED BY <1>1, <2>1, <2>2, <2>4
<1>. QED BY <1>7, <1>8, <1>9

LEMMA MetricsInvariant == HandlerSpec => []MetricsInv
<1>1. HandlerInit => MetricsInv
  <2>. SUFFICES ASSUME HandlerInit PROVE MetricsInv
    OBVIOUS
  <2>1. /\ Gauged = {} /\ Served = {} /\ PanicsSkip
        /\ \A k : Unrecorded(k) = {} /\ NewFiles(k) = {}
    BY DEF HandlerInit, StoreInit, Gauged, Served, PanicsSkip, Unrecorded, NewFiles, OfOwner
  <2>2. activeUploads = 0 /\ uploadRequests = 0 /\ \A k \in Identity : uploadedFiles[k] = 0
    BY DEF HandlerInit
  <2>3. Recorded
    BY <2>1, <2>2, FS_EmptySet DEF Recorded
  <2>. QED BY <2>1, <2>2, <2>3, FS_EmptySet DEF MetricsInv
<1>2. TypeShape /\ HInv /\ MetricsInv /\ [HandlerNext]_uploadVars => MetricsInv'
  <2>. SUFFICES ASSUME TypeShape, HInv, MetricsInv, [HandlerNext]_uploadVars PROVE MetricsInv'
    OBVIOUS
  <2>1. ASSUME NEW r \in Request, HandlerStep(r) PROVE MetricsInv'
    BY <2>1, GaugeStep, ServedStep, RecordedStep DEF MetricsInv
  <2>2. CASE Exit
    <3>1. Gauged' = {} /\ Served' = {} /\ PanicsSkip' /\ ~up'
      BY <2>2 DEF Exit, Crash, Gauged, Served, PanicsSkip
    <3>2. activeUploads' = 0 /\ uploadRequests' = 0
      BY <2>2 DEF Exit
    <3>. QED BY <3>1, <3>2, FS_EmptySet DEF MetricsInv, Recorded
  <2>3. CASE Start
    <3>1. /\ UNCHANGED <<hpc, answer, activeUploads, uploadRequests, uploadedFiles, outcome>>
          /\ ~up /\ old' = final /\ final' = final
      BY <2>3 DEF Start, Restart
    <3>2. Gauged' = Gauged /\ Served' = Served /\ PanicsSkip'
      BY <3>1 DEF MetricsInv, Gauged, Served, PanicsSkip
    <3>3. \A k : Unrecorded(k)' = {} /\ NewFiles(k)' = {}
      BY <3>1 DEF HInv, HandlerShape, DownQuiet, Unrecorded, NewFiles, OfOwner
    <3>4. \A k \in Identity : uploadedFiles'[k] = 0
      BY <3>1 DEF HInv, HandlerShape, DownQuiet
    <3>. QED BY <3>1, <3>2, <3>3, <3>4, FS_EmptySet DEF MetricsInv, Recorded
  <2>4. CASE Sigterm \/ UNCHANGED uploadVars
    <3>1. UNCHANGED <<storeVars, hpc, answer, metricsVars, old>>
      BY <2>4 DEF Sigterm
    <3>2. Gauged' = Gauged /\ Served' = Served /\ PanicsSkip'
      BY <3>1 DEF MetricsInv, Gauged, Served, PanicsSkip
    <3>3. \A k : Unrecorded(k)' = Unrecorded(k) /\ NewFiles(k)' = NewFiles(k)
      BY <3>1 DEF Unrecorded, NewFiles, OfOwner
    <3>. QED BY <3>1, <3>2, <3>3 DEF MetricsInv, Recorded
  <2>. QED BY <2>1, <2>2, <2>3, <2>4, HandlerCases
<1>. QED BY <1>1, <1>2, HInvariant, StoreTypedUnderHandler, PTL DEF HandlerSpec

\* The gauge, the file counter and the request counter always agree with
\* what they describe (server.go:282-283, server.go:402, metrics.go:72-75),
\* past errors, panics, crashes and restarts.
THEOREM MetricsAlwaysAgree == HandlerSpec => []MetricsAgree
BY MetricsInvariant, MetricsParts, PTL

\* The variables of the handler keep their types; the gauge of running
\* uploads never goes below zero or above the number of requests.
THEOREM HandlerTypeCorrect == HandlerSpec => []HandlerTypeOK
<1>1. TypeShape /\ HInv /\ MetricsInv => HandlerTypeOK
  <2>. SUFFICES ASSUME TypeShape, HInv, MetricsInv PROVE HandlerTypeOK
    OBVIOUS
  <2>1. Gauged \subseteq Request
    BY DEF Gauged
  <2>2. /\ Cardinality(Gauged) <= Cardinality(Request) /\ Cardinality(Gauged) \in Nat
        /\ Cardinality(Request) \in Nat
    BY <2>1, StoreAssumption, FS_Subset, FS_CardinalityType
  <2>3. activeUploads \in 0..Cardinality(Request)
    BY <2>2 DEF MetricsInv
  <2>. QED BY <2>3 DEF HInv, HandlerTyped, HandlerTypeOK
<1>. QED BY <1>1, HInvariant, MetricsInvariant, StoreTypedUnderHandler, PTL

-----------------------------------------------------------------------------
(* Temporary files.  While the process runs, each one that it did not find *)
(* at startup belongs to a request, which holds a slot.                    *)

TempsOwned == up => \A i \in temp \ stale : \E r \in Request : ino[r] = i

\* A step of storePart makes its own temporary file, removes it, or leaves
\* the temporary files as they are.
LEMMA TempMoves ==
  ASSUME TypeShape, NEW r \in Request, StoreStep(r)
  PROVE  /\ \A q \in Request \ {r} : ino'[q] = ino[q]
         /\ \A i \in temp : i # ino[r] => i \in temp' /\ inode'[i] = inode[i]
         /\ \/ /\ ino[r] = None /\ ino'[r] \notin temp /\ temp' = temp \cup {ino'[r]}
            \/ /\ ino'[r] = None
               /\ temp' = temp \ {ino[r]} \/ (RemoveMayFail /\ temp' = temp)
            \/ UNCHANGED <<temp, ino>>
<1>. USE DEF TypeShape, StoreTypeOK, StoreShape, OwnTemp, Holding
<1>1. CASE CreateTemp(r)
  BY <1>1 DEF CreateTemp
<1>2. CASE WriteChunk(r)
  BY <1>2 DEF WriteChunk
<1>3. CASE RemoveTemp(r)
  BY <1>3 DEF RemoveTemp
<1>4. CASE UNCHANGED <<temp, ino, inode>>
  BY <1>4
<1>. QED
  BY <1>1, <1>2, <1>3, <1>4
  DEF StoreStep, Cleanup, RejectName, ReserveFile, RefuseFile, CreateFails, ReserveChunk,
      RefuseChunk, CopyFails, PartTooLarge, SyncTemp, LinkFile, LinkFails, ReleaseUnwritten,
      Refund, ReleaseFile

LEMMA TempsOwnedStep ==
  ASSUME ~RemoveMayFail, TypeShape, HInv, TempsOwned, [HandlerNext]_uploadVars
  PROVE  TempsOwned'
<1>1. ASSUME NEW r \in Request, HandlerStep(r) PROVE TempsOwned'
  <2>1. up /\ stale' = stale
    BY <1>1, HandlerStepIsUp, OwnEntries DEF HInv
  <2>2. CASE StoreStep(r)
    <3>1. \A i \in temp : i # None
      BY StoreAssumption DEF TypeShape, StoreTypeOK
    <3>2. ASSUME NEW i \in temp' \ stale' PROVE \E q \in Request : ino'[q] = i
      <4>1. CASE i \notin temp
        BY <2>2, <3>2, <4>1, TempMoves
      <4>2. CASE i \in temp
        <5>1. PICK q \in Request : ino[q] = i
          BY <2>1, <3>2, <4>2 DEF TempsOwned
        <5>2. q # r => ino'[q] = i
          BY <2>2, <5>1, TempMoves
        <5>3. q = r => ino' = ino
          BY <2>2, <3>1, <3>2, <4>2, <5>1, TempMoves
        <5>. QED BY <5>1, <5>2, <5>3
      <4>. QED BY <4>1, <4>2
    <3>. QED BY <3>2 DEF TempsOwned
  <2>3. CASE UNCHANGED storeVars
    BY <2>1, <2>3 DEF TempsOwned
  <2>. QED BY <1>1, <2>2, <2>3, StoreUnderHandler
<1>2. CASE Exit \/ Start
  BY <1>2 DEF Exit, Crash, Start, Restart, TempsOwned
<1>3. CASE Sigterm \/ UNCHANGED uploadVars
  BY <1>3 DEF Sigterm, TempsOwned
<1>. QED BY <1>1, <1>2, <1>3, HandlerCases

\* No more of them than slots: each is sent to the request that has it.
LEMMA OwnedWithinSlots ==
  ASSUME TypeShape, HInv, SlotsCount, TempsOwned, up
  PROVE  TempsWithinSlots
<1>. DEFINE Mine == temp \ stale
            f == [i \in Mine |-> CHOOSE r \in Request : ino[r] = i]
<1>1. ASSUME NEW i \in Mine
      PROVE  f[i] \in Holders /\ ino[f[i]] = i /\ inode[i].owner = OwnerOf[f[i]]
  <2>1. f[i] \in Request /\ ino[f[i]] = i
    BY DEF TempsOwned
  <2>2. i # None
    BY StoreAssumption DEF TypeShape, StoreTypeOK
  <2>3. pc[f[i]] \in Holding /\ inode[i].owner = OwnerOf[f[i]]
    BY <2>1, <2>2 DEF TypeShape, StoreShape, OwnTemp
  <2>4. hpc[f[i]] = "storing"
    BY <2>1, <2>3 DEF HInv, HandlerShape, ResultInStep, Holding
  <2>. QED BY <2>1, <2>3, <2>4 DEF Holders
<1>. HIDE DEF f
<1>2. Cardinality(Mine) <= Total
  <2>1. f \in Injection(Mine, Holders)
    <3>1. f \in [Mine -> Holders]
      BY <1>1 DEF f
    <3>2. \A i, j \in Mine : f[i] = f[j] => i = j
      BY <1>1
    <3>. QED BY <3>1, <3>2 DEF Injection, IsInjective
  <2>2. IsFiniteSet(Holders) /\ Cardinality(Holders) \in Nat
    BY HoldersAreFinite
  <2>3. Cardinality(Mine) <= Cardinality(Holders) /\ IsFiniteSet(Mine)
    BY <2>1, <2>2, FS_Injection
  <2>. QED BY <2>2, <2>3, FS_CardinalityType, HandlerAssumption DEF SlotsCount
<1>3. ASSUME NEW k \in Identity PROVE Cardinality(OfOwner(Mine, k)) <= PerUser
  <2>. DEFINE g == [i \in OfOwner(Mine, k) |-> f[i]]
  <2>1. g \in Injection(OfOwner(Mine, k), HeldFor(k))
    <3>1. ASSUME NEW i \in OfOwner(Mine, k) PROVE i \in Mine /\ g[i] = f[i] /\ g[i] \in HeldFor(k)
      <4>1. i \in Mine /\ inode[i].owner = k
        BY DEF OfOwner
      <4>. QED BY <1>1, <4>1 DEF HeldFor
    <3>2. g \in [OfOwner(Mine, k) -> HeldFor(k)]
      BY <3>1
    <3>3. \A i, j \in OfOwner(Mine, k) : g[i] = g[j] => i = j
      BY <1>1, <3>1
    <3>. HIDE DEF g
    <3>. QED BY <3>2, <3>3 DEF Injection, IsInjective
  <2>. HIDE DEF g
  <2>2. IsFiniteSet(HeldFor(k)) /\ Cardinality(HeldFor(k)) \in Nat
    BY HoldersAreFinite
  <2>3. Cardinality(OfOwner(Mine, k)) <= Cardinality(HeldFor(k)) /\ IsFiniteSet(OfOwner(Mine, k))
    BY <2>1, <2>2, FS_Injection
  <2>. QED BY <2>2, <2>3, FS_CardinalityType, HandlerAssumption DEF SlotsCount
<1>. QED BY <1>2, <1>3 DEF TempsWithinSlots

LEMMA TempsInvariant ==
  ASSUME ~RemoveMayFail PROVE HandlerSpec => [](TempsOwned /\ TempsWithinSlots)
<1>1. HandlerInit => TempsOwned
  BY DEF HandlerInit, StoreInit, TempsOwned
<1>2. TypeShape /\ HInv /\ TempsOwned /\ [HandlerNext]_uploadVars => TempsOwned'
  BY TempsOwnedStep
<1>3. HandlerSpec => []TempsOwned
  BY <1>1, <1>2, HInvariant, StoreTypedUnderHandler, PTL DEF HandlerSpec
<1>4. HandlerInit => up
  BY DEF HandlerInit, StoreInit
<1>5. TypeShape /\ HInv /\ SlotsCount /\ TempsOwned /\ up => TempsWithinSlots
  BY OwnedWithinSlots
<1>6. HInv /\ TempsWithinSlots /\ [HandlerNext]_uploadVars => TempsWithinSlots' \/ up'
  <2>. SUFFICES ASSUME HInv, TempsWithinSlots, ~up', [HandlerNext]_uploadVars
                PROVE  TempsWithinSlots'
    OBVIOUS
  <2>1. UNCHANGED <<temp, stale, inode>>
    BY HandlerCases, HandlerStepIsUp DEF Exit, Crash, Start, Restart, Sigterm
  <2>. QED BY <2>1 DEF TempsWithinSlots, OfOwner
<1>. QED BY <1>3, <1>4, <1>5, <1>6, HInvariant, SlotsCountInvariant, StoreTypedUnderHandler, PTL
         DEF HandlerSpec

\* The slots bound what slow uploads hold open (limits.go:18-20): besides the
\* files a dead process left behind there are never more temporary files than
\* slots, in all and per identity, provided that os.Remove does not fail.
THEOREM TempsLimited ==
  ASSUME ~RemoveMayFail PROVE HandlerSpec => []TempsWithinSlots
BY TempsInvariant, PTL

-----------------------------------------------------------------------------
(* The books of an idle server.                                            *)

\* What the process found at startup is still there, and is no request's.
StaleApart == up => stale \subseteq temp /\ \A r \in Request : ino[r] \notin stale

\* What is kept on the books is what was found at startup, its stale
\* temporary files included, and what is published.
KeptFound ==
  up => \A k \in Identity :
    /\ keptFiles[k] = Cardinality(OfOwner(stale, k)) + Cardinality(OfOwner(final, k))
    /\ MaxBytes # 0 => keptBytes[k] = Cardinality(Units(stale, k)) + Cardinality(Units(final, k))

BooksInv == StaleApart /\ KeptFound

LEMMA StaleApartStep ==
  ASSUME TypeShape, HInv, StaleApart, NEW r \in Request, HandlerStep(r)
  PROVE  /\ StaleApart'
         /\ \A i \in stale : inode'[i] = inode[i]
<1>1. up /\ stale' = stale
  BY HandlerStepIsUp, OwnEntries DEF HInv
<1>2. stale \subseteq temp /\ \A q \in Request : ino[q] \notin stale
  BY <1>1 DEF StaleApart
<1>3. None \notin stale
  BY <1>2, StoreAssumption DEF TypeShape, StoreTypeOK
<1>4. CASE StoreStep(r)
  <2>1. \A i \in stale : i \in temp' /\ inode'[i] = inode[i]
    BY <1>2, <1>4, TempMoves
  <2>2. \A q \in Request : ino'[q] \notin stale
    BY <1>2, <1>3, <1>4, TempMoves
  <2>. QED BY <1>1, <2>1, <2>2 DEF StaleApart
<1>5. CASE UNCHANGED storeVars
  BY <1>1, <1>2, <1>5 DEF StaleApart
<1>. QED BY <1>4, <1>5, StoreUnderHandler

\* One file more holds its size in bytes more.
LEMMA UnitsAdd ==
  ASSUME StoreTypeOK, NEW k \in Identity, NEW S \in SUBSET Inode, NEW i \in Inode \ S
  PROVE  Cardinality(Units(S \cup {i}, k))
           = Cardinality(Units(S, k)) + (IF inode[i].owner = k THEN inode[i].size ELSE 0)
<1>. DEFINE w(T) == [j \in Inode |-> IF j \in T /\ inode[j].owner = k THEN inode[j].size ELSE 0]
<1>1. ASSUME NEW T \in SUBSET Inode PROVE Units(T, k) = Bars(w(T), Inode, MaxPart)
  <2>1. ASSUME NEW u PROVE u \in Units(T, k) <=> u \in Bars(w(T), Inode, MaxPart)
    <3>1. u \in Units(T, k) <=>
            \E j \in Inode, m \in 1..MaxPart :
              u = <<j, m>> /\ j \in T /\ inode[j].owner = k /\ m <= inode[j].size
      BY DEF Units
    <3>2. u \in Bars(w(T), Inode, MaxPart) <=>
            \E j \in Inode, m \in 1..MaxPart : u = <<j, m>> /\ m <= w(T)[j]
      BY DEF Bars
    <3>3. \A j \in Inode, m \in 1..MaxPart :
            m <= w(T)[j] <=> j \in T /\ inode[j].owner = k /\ m <= inode[j].size
      BY StoreAssumption DEF StoreTypeOK
    <3>. QED BY <3>1, <3>2, <3>3
  <2>. QED BY <2>1
<1>. DEFINE h == w(S)
            g == w(S \cup {i})
<1>2. /\ \A j \in Inode : h[j] \in 0..MaxPart /\ g[j] \in 0..MaxPart
      /\ \A j \in Inode \ {i} : g[j] = h[j]
      /\ g[i] - h[i] = IF inode[i].owner = k THEN inode[i].size ELSE 0
  BY StoreAssumption DEF StoreTypeOK
<1>3. Units(S, k) = Bars(h, Inode, MaxPart) /\ Units(S \cup {i}, k) = Bars(g, Inode, MaxPart)
  BY <1>1
<1>4. IsFiniteSet(Inode) /\ MaxPart \in Nat
  BY StoreAssumption
<1>. HIDE DEF h, g
<1>5. Cardinality(Bars(g, Inode, MaxPart)) = Cardinality(Bars(h, Inode, MaxPart)) + (g[i] - h[i])
  BY <1>2, <1>4, BarsChange
<1>. QED BY <1>2, <1>3, <1>5

LEMMA KeptFoundStep ==
  ASSUME TypeShape, HInv, StaleApart, KeptFound, NEW r \in Request, HandlerStep(r)
  PROVE  KeptFound'
<1>. SUFFICES ASSUME NEW k \in Identity
              PROVE  /\ keptFiles'[k] = Cardinality(OfOwner(stale, k)') + Cardinality(OfOwner(final, k)')
                     /\ MaxBytes # 0 =>
                          keptBytes'[k] = Cardinality(Units(stale, k)') + Cardinality(Units(final, k)')
  BY DEF KeptFound
<1>1. up /\ stale' = stale
  BY HandlerStepIsUp, OwnEntries DEF HInv
<1>2. /\ keptFiles[k] = Cardinality(OfOwner(stale, k)) + Cardinality(OfOwner(final, k))
      /\ MaxBytes # 0 => keptBytes[k] = Cardinality(Units(stale, k)) + Cardinality(Units(final, k))
  BY <1>1 DEF KeptFound
<1>3. OfOwner(stale, k)' = OfOwner(stale, k) /\ Units(stale, k)' = Units(stale, k)
  BY <1>1, StaleApartStep DEF OfOwner, Units
<1>4. CASE StoreStep(r) /\ LinkFile(r)
  <2>1. /\ final' = final \cup {ino[r]} /\ inode' = inode
        /\ keptFiles' = [keptFiles EXCEPT ![OwnerOf[r]] = @ + 1]
        /\ MaxBytes # 0 => keptBytes' = [keptBytes EXCEPT ![OwnerOf[r]] = @ + reserved[r]]
        /\ pc[r] = "link"
    BY <1>4 DEF LinkFile
  <2>2. PICK i \in Inode : i = ino[r]
    BY <2>1 DEF TypeShape, StoreTypeOK, StoreShape, OwnTemp, Holding
  <2>3. /\ i \notin final /\ inode[i].owner = OwnerOf[r] /\ reserved[r] = inode[i].size
    BY <2>1, <2>2 DEF TypeShape, StoreShape, OwnTemp, Holding
  <2>4. /\ final \in SUBSET Inode /\ StoreTypeOK /\ OwnerOf[r] \in Identity
        /\ keptFiles \in [Identity -> Nat] /\ keptBytes \in [Identity -> Nat]
        /\ inode[i].size \in Nat
    BY StoreAssumption DEF TypeShape, StoreTypeOK
  <2>5. /\ IsFiniteSet(OfOwner(stale, k)) /\ IsFiniteSet(Units(stale, k))
        /\ IsFiniteSet(OfOwner(final, k)) /\ IsFiniteSet(Units(final, k))
    BY <1>1, <2>4, DiskFinite DEF StaleApart, StoreTypeOK
  <2>6. /\ Cardinality(OfOwner(stale, k)) \in Nat /\ Cardinality(Units(stale, k)) \in Nat
        /\ Cardinality(OfOwner(final, k)) \in Nat /\ Cardinality(Units(final, k)) \in Nat
    BY <2>5, FS_CardinalityType
  <2>7. Units(final, k)' = Units(final \cup {i}, k)
    BY <2>1, <2>2 DEF Units
  <2>8. Cardinality(Units(final, k)')
          = Cardinality(Units(final, k)) + (IF inode[i].owner = k THEN inode[i].size ELSE 0)
    BY <2>3, <2>4, <2>7, UnitsAdd
  <2>9. /\ OfOwner(final, k) \ {i} = OfOwner(final, k)' \ {i}
        /\ i \notin OfOwner(final, k)
        /\ i \in OfOwner(final, k)' <=> OwnerOf[r] = k
    BY <2>1, <2>2, <2>3 DEF OfOwner
  <2>10. Cardinality(OfOwner(final, k)')
          = Cardinality(OfOwner(final, k)) + (IF OwnerOf[r] = k THEN 1 ELSE 0)
    BY <2>5, <2>6, <2>9, SetChange
  <2>11. keptFiles'[k] = keptFiles[k] + (IF OwnerOf[r] = k THEN 1 ELSE 0)
    BY <2>1, <2>4
  <2>12. MaxBytes # 0 => keptBytes'[k] = keptBytes[k] + (IF OwnerOf[r] = k THEN inode[i].size ELSE 0)
    BY <2>1, <2>3, <2>4
  <2>. QED BY <1>2, <1>3, <2>3, <2>4, <2>6, <2>8, <2>10, <2>11, <2>12
<1>5. CASE (StoreStep(r) /\ ~LinkFile(r)) \/ UNCHANGED storeVars
  <2>1. final' = final /\ \A i \in final : inode'[i] = inode[i]
    BY <1>5, PublishedKept
  <2>2. OfOwner(final, k)' = OfOwner(final, k) /\ Units(final, k)' = Units(final, k)
    BY <2>1 DEF OfOwner, Units
  <2>3. UNCHANGED <<keptFiles, keptBytes>>
    BY <1>5 DEF StoreStep, Cleanup, RejectName, ReserveFile, RefuseFile, CreateTemp, CreateFails,
                ReserveChunk, RefuseChunk, WriteChunk, CopyFails, PartTooLarge, SyncTemp,
                LinkFails, ReleaseUnwritten, Refund, RemoveTemp, ReleaseFile
  <2>. QED BY <1>2, <1>3, <2>2, <2>3
<1>. QED BY <1>4, <1>5, StoreUnderHandler

LEMMA BooksInvariant == HandlerSpec => []BooksInv
<1>1. HandlerInit => BooksInv
  <2>. SUFFICES ASSUME HandlerInit PROVE BooksInv
    OBVIOUS
  <2>1. StaleApart
    BY DEF HandlerInit, StoreInit, StaleApart
  <2>2. \A k \in Identity : /\ OfOwner(stale, k) = {} /\ OfOwner(final, k) = {}
                            /\ Units(stale, k) = {} /\ Units(final, k) = {}
                            /\ keptFiles[k] = 0 /\ keptBytes[k] = 0
    BY DEF HandlerInit, StoreInit, OfOwner, Units
  <2>. QED BY <2>1, <2>2, FS_EmptySet DEF BooksInv, KeptFound
<1>2. TypeShape /\ HInv /\ BooksInv /\ [HandlerNext]_uploadVars => BooksInv'
  <2>. SUFFICES ASSUME TypeShape, HInv, BooksInv, [HandlerNext]_uploadVars PROVE BooksInv'
    OBVIOUS
  <2>1. ASSUME NEW r \in Request, HandlerStep(r) PROVE BooksInv'
    BY <2>1, StaleApartStep, KeptFoundStep DEF BooksInv
  <2>2. CASE Exit
    BY <2>2 DEF Exit, Crash, BooksInv, StaleApart, KeptFound
  <2>3. CASE Start
    <3>1. /\ ~up /\ stale' = temp /\ UNCHANGED <<temp, final, inode, ino>>
          /\ keptFiles' = [k \in Identity |-> Cardinality(OfOwner(temp, k)) + Cardinality(OfOwner(final, k))]
          /\ keptBytes' = [k \in Identity |-> Cardinality(Units(temp, k)) + Cardinality(Units(final, k))]
      BY <2>3 DEF Start, Restart
    <3>2. \A r \in Request : ino[r] = None
      BY <3>1 DEF TypeShape, StoreShape, OwnTemp, Holding
    <3>3. StaleApart'
      BY <3>1, <3>2, StoreAssumption DEF StaleApart, TypeShape, StoreTypeOK
    <3>4. \A k : /\ OfOwner(stale, k)' = OfOwner(temp, k) /\ OfOwner(final, k)' = OfOwner(final, k)
                 /\ Units(stale, k)' = Units(temp, k) /\ Units(final, k)' = Units(final, k)
      BY <3>1 DEF OfOwner, Units
    <3>. QED BY <3>1, <3>3, <3>4 DEF BooksInv, KeptFound
  <2>4. CASE Sigterm \/ UNCHANGED uploadVars
    <3>1. UNCHANGED <<storeVars, stale>>
      BY <2>4 DEF Sigterm
    <3>2. \A k : /\ OfOwner(stale, k)' = OfOwner(stale, k) /\ OfOwner(final, k)' = OfOwner(final, k)
                 /\ Units(stale, k)' = Units(stale, k) /\ Units(final, k)' = Units(final, k)
      BY <3>1 DEF OfOwner, Units
    <3>. QED BY <3>1, <3>2 DEF BooksInv, StaleApart, KeptFound
  <2>. QED BY <2>1, <2>2, <2>3, <2>4, HandlerCases
<1>. QED BY <1>1, <1>2, HInvariant, StoreTypedUnderHandler, PTL DEF HandlerSpec

\* A server without requests has nothing under way: no slot taken, a gauge
\* of zero, no temporary file besides those a dead process left behind, and
\* every count of storageQuota found on disk.  This is what a Shutdown that waited for its handlers
\* leaves behind (main.go:67-78), provided that os.Remove does not fail.
THEOREM IdleServerAlwaysClean ==
  ASSUME ~RemoveMayFail PROVE HandlerSpec => []IdleServerClean
<1>1. /\ TypeShape /\ HInv /\ SlotsCount /\ MetricsInv /\ TempsOwned /\ LedgerExact /\ BooksInv
      => IdleServerClean
  <2>. SUFFICES ASSUME TypeShape, HInv, SlotsCount, MetricsInv, TempsOwned, LedgerExact, BooksInv,
                       up, \A r \in Request : hpc[r] \in {"idle", "done"}
                PROVE  /\ inFlight = 0 /\ activeUploads = 0 /\ temp \subseteq stale
                       /\ \A k \in Identity :
                            /\ active[k] = 0
                            /\ files[k] = Cardinality(OfOwner(stale, k)) + Cardinality(OfOwner(final, k))
                            /\ MaxBytes # 0 =>
                                 bytes[k] = Cardinality(Units(stale, k)) + Cardinality(Units(final, k))
    BY DEF IdleServerClean
  <2>1. Holders = {} /\ Gauged = {} /\ \A k : HeldFor(k) = {}
    BY DEF Holders, Gauged, HeldFor
  <2>2. inFlight = 0 /\ activeUploads = 0 /\ \A k \in Identity : active[k] = 0
    BY <2>1, FS_EmptySet DEF SlotsCount, MetricsInv
  <2>3. \A r \in Request : pc[r] = "idle" /\ ino[r] = None
    BY DEF HInv, HandlerShape, ResultInStep, TypeShape, StoreShape, OwnTemp, Holding
  <2>4. temp \subseteq stale
    BY <2>3, StoreAssumption DEF TempsOwned, TypeShape, StoreTypeOK
  <2>5. ASSUME NEW k \in Identity
        PROVE  files[k] = keptFiles[k] /\ (MaxBytes # 0 => bytes[k] = keptBytes[k])
    <3>1. Cardinality(Counting(k)) = 0 /\ Cardinality(Reserving(k)) = 0
      BY <2>3, IdleHoldsNothing
    <3>2. keptFiles[k] \in Nat /\ keptBytes[k] \in Nat
      BY DEF TypeShape, StoreTypeOK
    <3>. QED BY <3>1, <3>2 DEF LedgerExact
  <2>. QED BY <2>2, <2>4, <2>5 DEF BooksInv, KeptFound
<1>2. HandlerSpec => []LedgerExact
  BY HandlerImplementsStore, LedgerAlwaysExact, PTL
<1>. QED BY <1>1, <1>2, HInvariant, SlotsCountInvariant, MetricsInvariant, TempsInvariant,
            BooksInvariant, StoreTypedUnderHandler, PTL

-----------------------------------------------------------------------------
(* What the refinements give the whole program.                            *)

\* Over a whole life of the server, with its shutdowns, kills and restarts,
\* published files stay untouched and the ledger exact; and when os.Remove of
\* a temporary file never fails, the limit on files holds, and while the
\* process runs with the byte limit on, what an identity has on disk beyond
\* its charge is no more than its files hold whose bytes are given back and
\* whose name is about to be removed (limits.go:78-171 as server.go:252-413
\* uses it).
THEOREM HandlerKeepsQuota ==
  /\ HandlerSpec => PublishedUntouched /\ []LedgerExact
  /\ ~RemoveMayFail => (HandlerSpec => [](FilesWithinLimit /\ DiskBytesCharged /\ UnchargedIsRefunded))
<1>1. HandlerSpec => PublishedUntouched
  BY HandlerImplementsStore, PublishedStay
<1>2. HandlerSpec => []LedgerExact
  BY HandlerImplementsStore, LedgerAlwaysExact
<1>3. ASSUME ~RemoveMayFail
      PROVE  HandlerSpec => [](FilesWithinLimit /\ DiskBytesCharged /\ UnchargedIsRefunded)
  <2>1. StoreSpec => []FilesWithinLimit
    BY <1>3, FilesLimited
  <2>2. StoreSpec => [](DiskBytesCharged /\ UnchargedIsRefunded)
    BY <1>3, ChargedOutsideRefund
  <2>. QED BY <2>1, <2>2, HandlerImplementsStore, PTL
<1>. QED BY <1>1, <1>2, <1>3

\* The abstract drop folder is what the whole server is to its users:
\* through the handler and over restarts, files arrive one by one, are never
\* one too many, and leave only when a collector takes them.
THEOREM HandlerImplementsFolder ==
  ASSUME ~RemoveMayFail PROVE HandlerSpec => ImplementsDropFolder
BY HandlerImplementsStore, StoreImplementsFolder
=============================================================================
