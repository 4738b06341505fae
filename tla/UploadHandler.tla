--------------------------- MODULE UploadHandler ---------------------------
(***************************************************************************)
(* POST /upload from admission to the last deferred function: upload of    *)
(* server.go inside observeUpload of metrics.go, on the uploadSlots of     *)
(* UploadSlots and the storePart of StorePart, with the start and the stop *)
(* of the process (main.go).                                               *)
(*                                                                         *)
(* The body of a request is read part by part.  What its form fields say   *)
(* (the root and the paths of a folder) decides names and is left to       *)
(* FolderUpload: here a field, a folder or a read that fails ends the      *)
(* request.  Of the statuses of a response only 201 and 429 are told       *)
(* apart; the other ones are "failed".  A request that gets through        *)
(* requireAuth is handled once in the life of a process.                   *)
(***************************************************************************)
EXTENDS StorePart

CONSTANTS PerUser,          (* MAX_CONCURRENT_UPLOADS_PER_USER               *)
          Total,            (* MAX_CONCURRENT_UPLOADS                        *)
          FilesPerRequest   (* MAX_FILES_PER_REQUEST                         *)

\* envCount accepts positive values; LoadConfig compares the two caps.
ASSUME HandlerAssumption ==
  /\ PerUser \in Nat \ {0} /\ Total \in Nat \ {0} /\ PerUser <= Total
  /\ FilesPerRequest \in Nat \ {0}

VARIABLES hpc,              (* where each request is in the handler          *)
          uploaded,         (* the handler's list of stored files            *)
          latest,           (* the file the running storePart has published  *)
          answer,           (* the status of the response, or "panic"        *)
          active, inFlight, (* uploadSlots                                   *)
          activeUploads,    (* the gauge and the counters of metrics.go      *)
          uploadedFiles, uploadRequests,
          stopping,         (* SIGTERM was received and Shutdown runs        *)
          acked,            (* history: files whose request was answered 201 *)
          stale, old        (* history: temporary and published files that   *)
                            (* the process found at startup                  *)

slotsVars   == <<active, inFlight>>
metricsVars == <<activeUploads, uploadedFiles, uploadRequests>>
processVars == <<stopping, acked, stale, old>>
handlerVars == <<hpc, uploaded, latest, answer, slotsVars, metricsVars, processVars>>
uploadVars  == <<storeVars, handlerVars>>

\* Requests between acquire and the deferred release.
Holders == {r \in Request : hpc[r] \in {"admitted", "parts", "storing", "leaving"}}

Slots == INSTANCE UploadSlots WITH
  Subject <- Identity, SubjectOf <- OwnerOf,
  holders <- Holders, refused <- {r \in Request : answer[r] = "429"}

\* The request moves on to step `where`.
Goto(r, where) == hpc' = [hpc EXCEPT ![r] = where]

\* The request is answered and its deferred functions are due; the handler's
\* variables are not used any more.
Leave(r, status) ==
  /\ answer' = [answer EXCEPT ![r] = status] /\ Goto(r, "leaving")
  /\ uploaded' = [uploaded EXCEPT ![r] = {}] /\ latest' = [latest EXCEPT ![r] = None]

-----------------------------------------------------------------------------
(* Deviations, each a plausible bug, that the checks substitute for the    *)
(* definition of the same shape to see a property fail.                    *)

TooBusyDecrementing(r) ==
  /\ up /\ hpc[r] = "idle"
  /\ answer' = [answer EXCEPT ![r] = "429"] /\ Goto(r, "observe")
  /\ Slots!Refuse(r)
  /\ activeUploads' = activeUploads - 1
  /\ UNCHANGED <<storeVars, uploaded, latest, uploadedFiles, uploadRequests, processVars>>

AdmitAnyway(r) ==
  /\ up /\ hpc[r] = "idle"
  /\ Goto(r, "admitted")
  /\ inFlight' = inFlight + 1 /\ active' = [active EXCEPT ![OwnerOf[r]] = @ + 1]
  /\ UNCHANGED <<storeVars, uploaded, latest, answer, metricsVars, processVars>>

StoredUncounted(r) ==
  /\ hpc[r] = "storing" /\ pc[r] = "idle" /\ outcome[r] = "ok"
  /\ Goto(r, "parts")
  /\ uploaded' = [uploaded EXCEPT ![r] = @ \cup {latest[r]}]
  /\ UNCHANGED <<storeVars, latest, answer, slotsVars, metricsVars, processVars>>

NotStoredBeforeCleanup(r) ==
  /\ hpc[r] = "storing" /\ outcome[r] \notin {"ok", "none"}
  /\ answer' = [answer EXCEPT ![r] = "failed"] /\ Goto(r, "leaving")
  /\ UNCHANGED <<storeVars, uploaded, latest, slotsVars, metricsVars, processVars>>

ReleaseSlotUnlessPanic(r) ==
  /\ hpc[r] = "leaving" /\ Goto(r, "released")
  /\ IF answer[r] = "panic"
       THEN UNCHANGED slotsVars
       ELSE inFlight' = inFlight - 1 /\ active' = [active EXCEPT ![OwnerOf[r]] = @ - 1]
  /\ UNCHANGED <<storeVars, uploaded, latest, answer, metricsVars, processVars>>
-----------------------------------------------------------------------------

HandlerInit ==
  /\ StoreInit
  /\ hpc = [r \in Request |-> "idle"] /\ uploaded = [r \in Request |-> {}]
  /\ latest = [r \in Request |-> None] /\ answer = [r \in Request |-> "none"]
  /\ active = [k \in Identity |-> 0] /\ inFlight = 0
  /\ activeUploads = 0 /\ uploadRequests = 0
  /\ uploadedFiles = [k \in Identity |-> 0]
  /\ stopping = FALSE /\ acked = {} /\ stale = {} /\ old = {}

(* ------------------------------ admission ------------------------------ *)

\* The origin or the X-Dumpbox-Upload header is wrong: 403.
Forbid(r) ==
  /\ up /\ hpc[r] = "idle"
  /\ answer' = [answer EXCEPT ![r] = "failed"] /\ Goto(r, "observe")
  /\ UNCHANGED <<storeVars, uploaded, latest, slotsVars, metricsVars, processVars>>

\* acquire returns false.
TooBusy(r) ==
  /\ up /\ hpc[r] = "idle"
  /\ answer' = [answer EXCEPT ![r] = "429"] /\ Goto(r, "observe")
  /\ Slots!Refuse(r)
  /\ UNCHANGED <<storeVars, uploaded, latest, metricsVars, processVars>>

\* acquire returns true.
Admit(r) ==
  /\ up /\ hpc[r] = "idle"
  /\ Goto(r, "admitted") /\ UNCHANGED answer
  /\ Slots!Acquire(r)
  /\ UNCHANGED <<storeVars, uploaded, latest, metricsVars, processVars>>

\* The gauge is raised; the two deferred functions are registered.
IncGauge(r) ==
  /\ hpc[r] = "admitted" /\ Goto(r, "parts")
  /\ activeUploads' = activeUploads + 1
  /\ UNCHANGED <<storeVars, uploaded, latest, answer, slotsVars, uploadedFiles,
                 uploadRequests, processVars>>

(* ------------------------------ the parts ------------------------------ *)

\* No multipart body, no user directory, a body that breaks off or passes its
\* limit between two parts, a form field that does not fit, a folder that
\* cannot be made: 400, 413 or 500.
RejectParts(r) ==
  /\ hpc[r] = "parts"
  /\ Leave(r, "failed")
  /\ UNCHANGED <<storeVars, slotsVars, metricsVars, processVars>>

MayStore(r) == Cardinality(uploaded[r]) < FilesPerRequest

\* One file more than a request may have: 413.
TooManyFiles(r) ==
  /\ hpc[r] = "parts" /\ ~MayStore(r)
  /\ Leave(r, "failed")
  /\ UNCHANGED <<storeVars, slotsVars, metricsVars, processVars>>

\* A file part arrives and storePart is called.
BeginStore(r) ==
  /\ hpc[r] = "parts" /\ MayStore(r)
  /\ RejectName(r) \/ ReserveFile(r) \/ RefuseFile(r)
  /\ Goto(r, "storing")
  /\ latest' = [latest EXCEPT ![r] = None]
  /\ UNCHANGED <<uploaded, answer, slotsVars, metricsVars, processVars>>

\* The steps of storePart on behalf of the handler.
InStore(r) ==
  /\ hpc[r] = "storing" /\ pc[r] # "idle"
  /\ StoreStep(r)
  /\ latest' = IF pc'[r] = "linked" THEN [latest EXCEPT ![r] = ino[r]] ELSE latest
  /\ UNCHANGED <<hpc, uploaded, answer, slotsVars, metricsVars, processVars>>

\* storePart returns a name: it is appended and recordFile counts it.  The
\* error of filepath.Rel in between cannot occur: targetDirectory is always
\* below directory.
Stored(r) ==
  /\ hpc[r] = "storing" /\ pc[r] = "idle" /\ outcome[r] = "ok"
  /\ Goto(r, "parts")
  /\ uploaded' = [uploaded EXCEPT ![r] = @ \cup {latest[r]}]
  /\ uploadedFiles' = [uploadedFiles EXCEPT ![OwnerOf[r]] = @ + 1]
  /\ UNCHANGED <<storeVars, latest, answer, slotsVars, activeUploads, uploadRequests, processVars>>

\* storePart returns an error (413, 507 or 500), or panics: nothing stored so
\* far is undone.
NotStored(r) ==
  /\ hpc[r] = "storing" /\ pc[r] = "idle" /\ outcome[r] # "ok"
  /\ Leave(r, IF outcome[r] = "panic" THEN "panic" ELSE "failed")
  /\ UNCHANGED <<storeVars, slotsVars, metricsVars, processVars>>

\* io.EOF: the body is complete.
Finish(r) ==
  /\ hpc[r] = "parts"
  /\ Leave(r, IF uploaded[r] = {} THEN "failed" ELSE "201")
  /\ acked' = acked \cup uploaded[r]
  /\ UNCHANGED <<storeVars, slotsVars, metricsVars, stopping, stale, old>>

(* ------------------------- deferred functions -------------------------- *)

ReleaseSlot(r) ==
  /\ hpc[r] = "leaving" /\ Goto(r, "released") /\ UNCHANGED answer
  /\ Slots!Release(r)
  /\ UNCHANGED <<storeVars, uploaded, latest, metricsVars, processVars>>

\* A panic goes on to net/http, past the rest of observeUpload.
DecGauge(r) ==
  /\ hpc[r] = "released"
  /\ Goto(r, IF answer[r] = "panic" THEN "done" ELSE "observe")
  /\ activeUploads' = activeUploads - 1
  /\ UNCHANGED <<storeVars, uploaded, latest, answer, slotsVars, uploadedFiles,
                 uploadRequests, processVars>>

\* observeUpload counts the request.
Observe(r) ==
  /\ hpc[r] = "observe" /\ Goto(r, "done")
  /\ uploadRequests' = uploadRequests + 1
  /\ UNCHANGED <<storeVars, uploaded, latest, answer, slotsVars, activeUploads,
                 uploadedFiles, processVars>>

(* ------------------------------ the process ---------------------------- *)

\* The memory of the process is gone; what is on disk stays.
Exit ==
  /\ Crash
  /\ stopping' = FALSE
  /\ hpc' = [r \in Request |-> "idle"] /\ uploaded' = [r \in Request |-> {}]
  /\ latest' = [r \in Request |-> None] /\ answer' = [r \in Request |-> "none"]
  /\ Slots!RestartSlots
  /\ activeUploads' = 0 /\ uploadRequests' = 0
  /\ uploadedFiles' = [k \in Identity |-> 0]
  /\ UNCHANGED <<acked, stale, old>>

\* The process is killed; or the 30 seconds of Shutdown are over, and main
\* returns whatever its handlers are doing.
Kill == Exit

\* SIGTERM or SIGINT: main calls Shutdown.  A connection accepted before may
\* still bring its first request.
Sigterm ==
  /\ up /\ ~stopping /\ stopping' = TRUE
  /\ UNCHANGED <<storeVars, hpc, uploaded, latest, answer, slotsVars, metricsVars, acked, stale, old>>

\* Shutdown returns once no handler runs, and main returns.
Stop ==
  /\ up /\ stopping
  /\ \A r \in Request : hpc[r] \in {"idle", "done"}
  /\ Exit

Start ==
  /\ Restart
  /\ stale' = temp /\ old' = final
  /\ UNCHANGED <<hpc, uploaded, latest, answer, slotsVars, metricsVars, stopping, acked>>

\* Steps that wait for no client.
Progress(r) ==
  \/ IncGauge(r) \/ (InStore(r) /\ Cleanup(r)) \/ Stored(r) \/ NotStored(r)
  \/ ReleaseSlot(r) \/ DecGauge(r) \/ Observe(r)

HandlerNext ==
  \/ \E r \in Request :
       \/ Forbid(r) \/ TooBusy(r) \/ Admit(r) \/ RejectParts(r) \/ TooManyFiles(r)
       \/ BeginStore(r) \/ InStore(r) \/ Finish(r) \/ Progress(r)
  \/ Kill \/ Sigterm \/ Stop \/ Start

HandlerSpec == HandlerInit /\ [][HandlerNext]_uploadVars

\* The goroutines of the server are scheduled; a client owes nothing.
FairHandlerSpec == HandlerSpec /\ \A r \in Request : WF_uploadVars(Progress(r))

-----------------------------------------------------------------------------
(* Properties.                                                             *)

HPC == {"idle", "admitted", "parts", "storing", "leaving", "released", "observe", "done"}

\* net/http gives no status to a request whose handler panicked.
Answer == {"none", "201", "429", "failed", "panic"}

\* The variables have their types.
HandlerTypeOK ==
  /\ hpc \in [Request -> HPC]
  /\ uploaded \in [Request -> SUBSET Inode] /\ latest \in [Request -> Inode \cup {None}]
  /\ answer \in [Request -> Answer]
  /\ activeUploads \in 0..Cardinality(Request) /\ uploadRequests \in Nat
  /\ uploadedFiles \in [Identity -> Nat]
  /\ stopping \in BOOLEAN /\ acked \subseteq Inode /\ stale \subseteq Inode

\* Every way through the handler, errors and panics included, takes its slot
\* once and returns it once, and 429 is only the answer of a handler that
\* took none: the handler's use of acquire and release (server.go:277-284)
\* is a behaviour of UploadSlots.
ImplementsSlots == Slots!SlotsSpec

\* A file that was acknowledged with 201 (server.go:408) is published, whole,
\* within the limit, and stays so over crashes and restarts.
AckedFilesDurable ==
  \A i \in acked : /\ i \in final /\ inode[i].size = inode[i].want
                   /\ inode[i].size <= MaxFileBytes

\* The slots bound what slow uploads hold open (limits.go:18-20): apart from
\* files a dead process left behind, there are no more temporary files than
\* slots, in all and per identity.
TempsWithinSlots ==
  /\ Cardinality(temp \ stale) <= Total
  /\ \A k \in Identity : Cardinality(OfOwner(temp \ stale, k)) <= PerUser

\* Requests whose published file recordFile has not counted yet.
Unrecorded(k) ==
  {r \in Request : OwnerOf[r] = k /\ hpc[r] = "storing" /\ outcome[r] = "ok"}

\* The metrics agree with what they describe: the gauge with the requests
\* between its two updates (server.go:282-283), the file counter with the
\* files published since startup (server.go:402), the request counter with
\* the requests served, of which a panic drops out (metrics.go:72-75).
MetricsAgree ==
  /\ activeUploads =
       Cardinality({r \in Request : hpc[r] \in {"parts", "storing", "leaving", "released"}})
  /\ uploadRequests = Cardinality({r \in Request : hpc[r] = "done" /\ answer[r] # "panic"})
  /\ up => \A k \in Identity :
       uploadedFiles[k] + Cardinality(Unrecorded(k)) = Cardinality(OfOwner(final \ old, k))

\* A server without requests has nothing under way: no slot taken, a gauge of
\* zero, no temporary file of its own, and every count of storageQuota found
\* on disk.  This is what a Shutdown that waited for its handlers leaves
\* behind (main.go:67-78).
IdleServerClean ==
  (up /\ \A r \in Request : hpc[r] \in {"idle", "done"}) =>
    /\ inFlight = 0 /\ activeUploads = 0 /\ temp \subseteq stale
    /\ \A k \in Identity :
         /\ active[k] = 0
         /\ files[k] = Cardinality(OfOwner(stale, k)) + Cardinality(OfOwner(final, k))
         /\ MaxBytes # 0 =>
              bytes[k] = Cardinality(Units(stale, k)) + Cardinality(Units(final, k))

\* A request whose store failed, or that is answered, always finishes the
\* deferred functions of storePart and gives its slot back, also when os.Remove
\* fails: no client can keep it by doing nothing.
SlotComesBack ==
  \A r \in Request :
    (hpc[r] = "leaving" \/ (hpc[r] = "storing" /\ outcome[r] \notin {"ok", "none"}))
      ~> r \notin Holders
=============================================================================
