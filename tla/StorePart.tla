----------------------------- MODULE StorePart -----------------------------
(***************************************************************************)
(* How a file reaches the disk: storePart and quotaWriter of server.go, on *)
(* the storageQuota of limits.go, over process crashes and restarts.       *)
(*                                                                         *)
(* A request stores one part at a time.  The part is counted against the   *)
(* identity's quota, written to a temporary file chunk by chunk, each      *)
(* chunk reserved before it is written, and published by a hard link.      *)
(* The deferred functions then run in reverse order of their registration: *)
(* give the bytes back, remove the temporary name, give the file back (the *)
(* first and the last only if nothing was published).  Every call that     *)
(* takes the quota's mutex or changes the directory is a step of its own,  *)
(* so the steps of the requests interleave as those of goroutines do.      *)
(*                                                                         *)
(* An inode with a name in `temp` has a .upload-* name, one with a name in *)
(* `final` a published name; between the link and the removal it has both. *)
(* Which published name it gets is the business of publishFile's search,   *)
(* not of the quota, and is left out here: the link succeeds or fails.     *)
(***************************************************************************)
EXTENDS Integers, FiniteSets

CONSTANTS Request,       (* requests, each storing one part at a time         *)
          Identity,      (* quota keys: hash prefixes of OIDC subjects        *)
          OwnerOf,       (* the quota key of each request's session           *)
          Inode,         (* what the filesystem has room for                  *)
          None,          (* no inode, no owner                                *)
          MaxBytes,      (* MAX_BYTES_PER_USER; 0 switches the limit off      *)
          MaxFiles,      (* MAX_FILES_PER_USER                                *)
          MaxFileBytes,  (* MAX_FILE_BYTES                                    *)
          MaxInt,        (* the largest int64                                 *)
          MaxPart,       (* bound of the model: no part is longer             *)
          RemoveMayFail  (* may os.Remove of a temporary file fail?           *)

\* LoadConfig (envBytes, envOptionalBytes, envCount) accepts these values.
ASSUME StoreAssumption ==
  /\ IsFiniteSet(Request) /\ IsFiniteSet(Inode)
  /\ OwnerOf \in [Request -> Identity]
  /\ None \notin Identity /\ None \notin Inode
  /\ MaxBytes \in Nat /\ MaxFiles \in Nat \ {0}
  /\ MaxInt \in Nat \ {0} /\ MaxFileBytes \in 1..MaxInt
  /\ MaxPart \in Nat
  /\ RemoveMayFail \in BOOLEAN

VARIABLES up,            (* is the process running?                           *)
          bytes, files,  (* storageQuota's maps; an absent key reads 0        *)
          temp, final,   (* inodes with a temporary / a published name        *)
          inode,         (* inode -> owner, size, and the length of the part  *)
          pc,            (* where each request is in storePart                *)
          ino,           (* its temporary file                                *)
          reserved,      (* storePart's `reserved`: bytes of it on disk       *)
          pending,       (* bytes reserved and not (yet) written              *)
          outcome,       (* what storePart returned last                      *)
          keptBytes,     (* history: usage found at startup or published      *)
          keptFiles      (* since, which the process never gives back         *)

quotaVars == <<bytes, files, keptBytes, keptFiles>>
diskVars  == <<temp, final, inode>>
storeVars == <<up, quotaVars, diskVars, pc, ino, reserved, pending, outcome>>

-----------------------------------------------------------------------------
(* Deviations of the helpers below: plausible bugs that the checks put in  *)
(* place of the definition of the same shape, to see a property fail.      *)

MayReserveFileOffByOne(k) == files[k] <= MaxFiles

ExhaustedAtLimit(i) == inode[i].size = inode[i].want \/ inode[i].size >= MaxFileBytes

-----------------------------------------------------------------------------
(* Helpers.                                                                *)

Free == [owner |-> None, size |-> 0, want |-> 0]

\* The bytes that the names in S hold for identity k, one element per byte.
Units(S, k) ==
  {u \in S \X (1..MaxPart) : inode[u[1]].owner = k /\ u[2] <= inode[u[1]].size}

OfOwner(S, k) == {i \in S : inode[i].owner = k}

\* maxFileBytes+1 in int64: the allowance of io.LimitReader, which reads
\* nothing at all when it is not positive.
ReadLimit ==
  IF MaxFileBytes + 1 > MaxInt THEN MaxFileBytes + 1 - 2 * (MaxInt + 1)
                               ELSE MaxFileBytes + 1

\* The copy loop sees io.EOF: the part or the allowance is used up.
Exhausted(i) == inode[i].size = inode[i].want \/ inode[i].size >= ReadLimit

\* The release methods delete an entry that reaches zero or less.
Lowered(x, n) == IF x - n <= 0 THEN 0 ELSE x - n

MayReserveFile(k) == files[k] < MaxFiles
MayReserveBytes(k, n) == MaxBytes = 0 \/ n <= MaxBytes - bytes[k]

-----------------------------------------------------------------------------
(* Deviations of the actions below, likewise.                              *)

WriteChunkTrustingLength(r) ==
  /\ pc[r] = "write"
  /\ \E m \in 0..pending[r] : inode' = [inode EXCEPT ![ino[r]].size = @ + m]
  /\ reserved' = [reserved EXCEPT ![r] = @ + pending[r]]
  /\ pending' = [pending EXCEPT ![r] = 0]
  /\ pc' = [pc EXCEPT ![r] = "copy"]
  /\ UNCHANGED <<up, quotaVars, temp, final, ino, outcome>>

ReleaseUnwrittenAndRetry(r) ==
  /\ pc[r] = "unwritten"
  /\ bytes' = IF MaxBytes = 0 THEN bytes
              ELSE [bytes EXCEPT ![OwnerOf[r]] = Lowered(@, pending[r])]
  /\ pending' = [pending EXCEPT ![r] = 0]
  /\ pc' = [pc EXCEPT ![r] = "copy"]
  /\ UNCHANGED <<up, files, keptBytes, keptFiles, diskVars, ino, reserved, outcome>>

CopyFailsKeepingBytes(r) ==
  /\ pc[r] = "copy"
  /\ \E why \in {"tooLarge", "error", "panic"} :
       outcome' = [outcome EXCEPT ![r] = why]
  /\ pc' = [pc EXCEPT ![r] = "discard"]
  /\ reserved' = [reserved EXCEPT ![r] = 0]
  /\ UNCHANGED <<up, quotaVars, diskVars, ino, pending>>

RestartIgnoringTemps ==
  /\ ~up /\ up' = TRUE
  /\ bytes' = [k \in Identity |-> Cardinality(Units(final, k))]
  /\ files' = [k \in Identity |-> Cardinality(OfOwner(final, k))]
  /\ keptBytes' = bytes' /\ keptFiles' = files'
  /\ UNCHANGED <<diskVars, pc, ino, reserved, pending, outcome>>

RestartFromZero ==
  /\ ~up /\ up' = TRUE
  /\ UNCHANGED <<quotaVars, diskVars, pc, ino, reserved, pending, outcome>>

RemoveTempWithFile(r) ==
  /\ pc[r] \in {"linked", "discard"}
  /\ temp' = temp \ {ino[r]} /\ final' = final \ {ino[r]}
  /\ inode' = [inode EXCEPT ![ino[r]] = Free]
  /\ pc' = [pc EXCEPT ![r] = IF pc[r] = "linked" THEN "idle" ELSE "uncount"]
  /\ ino' = [ino EXCEPT ![r] = None]
  /\ reserved' = [reserved EXCEPT ![r] = 0]
  /\ UNCHANGED <<up, quotaVars, pending, outcome>>
-----------------------------------------------------------------------------

StoreInit ==
  /\ up = TRUE
  /\ bytes = [k \in Identity |-> 0] /\ files = [k \in Identity |-> 0]
  /\ keptBytes = bytes /\ keptFiles = files
  /\ temp = {} /\ final = {} /\ inode = [i \in Inode |-> Free]
  /\ pc = [r \in Request |-> "idle"] /\ ino = [r \in Request |-> None]
  /\ reserved = [r \in Request |-> 0] /\ pending = [r \in Request |-> 0]
  /\ outcome = [r \in Request |-> "none"]

(* ------------------------------ storePart ------------------------------ *)

\* safeFilename leaves nothing of the name: return before any reservation.
RejectName(r) ==
  /\ up /\ pc[r] = "idle"
  /\ outcome' = [outcome EXCEPT ![r] = "error"]
  /\ UNCHANGED <<up, quotaVars, diskVars, pc, ino, reserved, pending>>

\* reserveFile returns true.
ReserveFile(r) ==
  /\ up /\ pc[r] = "idle"
  /\ MayReserveFile(OwnerOf[r])
  /\ files' = [files EXCEPT ![OwnerOf[r]] = @ + 1]
  /\ pc' = [pc EXCEPT ![r] = "create"]
  /\ outcome' = [outcome EXCEPT ![r] = "none"]
  /\ UNCHANGED <<up, bytes, keptBytes, keptFiles, diskVars, ino, reserved, pending>>

\* reserveFile returns false: errQuotaExceeded.
RefuseFile(r) ==
  /\ up /\ pc[r] = "idle"
  /\ ~MayReserveFile(OwnerOf[r])
  /\ outcome' = [outcome EXCEPT ![r] = "quota"]
  /\ UNCHANGED <<up, quotaVars, diskVars, pc, ino, reserved, pending>>

\* os.CreateTemp, for a part of n bytes.
CreateTemp(r) ==
  /\ pc[r] = "create"
  /\ \E i \in Inode \ (temp \cup final), n \in 0..MaxPart :
       /\ temp' = temp \cup {i}
       /\ inode' = [inode EXCEPT ![i] = [owner |-> OwnerOf[r], size |-> 0, want |-> n]]
       /\ ino' = [ino EXCEPT ![r] = i]
  /\ pc' = [pc EXCEPT ![r] = "copy"]
  /\ UNCHANGED <<up, quotaVars, final, reserved, pending, outcome>>

\* os.CreateTemp fails, on a full filesystem or any other error.
CreateFails(r) ==
  /\ pc[r] = "create"
  /\ pc' = [pc EXCEPT ![r] = "uncount"]
  /\ outcome' = [outcome EXCEPT ![r] = "error"]
  /\ UNCHANGED <<up, quotaVars, diskVars, ino, reserved, pending>>

\* The lengths the next read of the part can return.
Chunks(i) ==
  {n \in 1..MaxPart : inode[i].size + n <= inode[i].want /\ inode[i].size + n <= ReadLimit}

\* A chunk has been read, and quotaWriter.Write reserves its n bytes.
ReserveChunk(r) ==
  /\ pc[r] = "copy" /\ ~Exhausted(ino[r])
  /\ \E n \in Chunks(ino[r]) :
       /\ MayReserveBytes(OwnerOf[r], n)
       /\ bytes' = IF MaxBytes = 0 THEN bytes ELSE [bytes EXCEPT ![OwnerOf[r]] = @ + n]
       /\ pending' = [pending EXCEPT ![r] = n]
  /\ pc' = [pc EXCEPT ![r] = "write"]
  /\ UNCHANGED <<up, files, keptBytes, keptFiles, diskVars, ino, reserved, outcome>>

\* reserveBytes returns false: errQuotaExceeded, with the chunk unwritten.
RefuseChunk(r) ==
  /\ pc[r] = "copy" /\ ~Exhausted(ino[r])
  /\ \E n \in Chunks(ino[r]) : ~MayReserveBytes(OwnerOf[r], n)
  /\ pc' = [pc EXCEPT ![r] = "refund"]
  /\ outcome' = [outcome EXCEPT ![r] = "quota"]
  /\ UNCHANGED <<up, quotaVars, diskVars, ino, reserved, pending>>

\* The write itself: all of the chunk, or with an error only m bytes of it.
WriteChunk(r) ==
  /\ pc[r] = "write"
  /\ \E m \in 0..pending[r] :
       /\ inode' = [inode EXCEPT ![ino[r]].size = @ + m]
       /\ reserved' = [reserved EXCEPT ![r] = @ + m]
       /\ pending' = [pending EXCEPT ![r] = @ - m]
       /\ IF m = pending[r]
            THEN /\ pc' = [pc EXCEPT ![r] = "copy"] /\ UNCHANGED outcome
            ELSE /\ pc' = [pc EXCEPT ![r] = "unwritten"]
                 /\ outcome' = [outcome EXCEPT ![r] = "error"]
  /\ UNCHANGED <<up, quotaVars, temp, final, ino>>

\* After a short write, Write gives back what was reserved and not written.
ReleaseUnwritten(r) ==
  /\ pc[r] = "unwritten"
  /\ bytes' = IF MaxBytes = 0 THEN bytes
              ELSE [bytes EXCEPT ![OwnerOf[r]] = Lowered(@, pending[r])]
  /\ pending' = [pending EXCEPT ![r] = 0]
  /\ pc' = [pc EXCEPT ![r] = "refund"]
  /\ UNCHANGED <<up, files, keptBytes, keptFiles, diskVars, ino, reserved, outcome>>

\* Chmod, a read, Sync or Close fails: the request body is over its limit, it
\* breaks off, the disk fails, or the read panics.
CopyFails(r) ==
  /\ pc[r] = "copy"
  /\ \E why \in {"tooLarge", "error", "panic"} :
       outcome' = [outcome EXCEPT ![r] = why]
  /\ pc' = [pc EXCEPT ![r] = "refund"]
  /\ UNCHANGED <<up, quotaVars, diskVars, ino, reserved, pending>>

\* The copy ended with one byte more than a file may have.
PartTooLarge(r) ==
  /\ pc[r] = "copy" /\ Exhausted(ino[r])
  /\ inode[ino[r]].size > MaxFileBytes
  /\ pc' = [pc EXCEPT ![r] = "refund"]
  /\ outcome' = [outcome EXCEPT ![r] = "tooLarge"]
  /\ UNCHANGED <<up, quotaVars, diskVars, ino, reserved, pending>>

\* The copy ended within the limit; Sync and Close succeed.
SyncTemp(r) ==
  /\ pc[r] = "copy" /\ Exhausted(ino[r])
  /\ inode[ino[r]].size <= MaxFileBytes
  /\ pc' = [pc EXCEPT ![r] = "link"]
  /\ UNCHANGED <<up, quotaVars, diskVars, ino, reserved, pending, outcome>>

\* publishFile's os.Link succeeds, and what was reserved stays charged.
LinkFile(r) ==
  /\ pc[r] = "link"
  /\ final' = final \cup {ino[r]}
  /\ keptFiles' = [keptFiles EXCEPT ![OwnerOf[r]] = @ + 1]
  /\ keptBytes' = IF MaxBytes = 0 THEN keptBytes
                  ELSE [keptBytes EXCEPT ![OwnerOf[r]] = @ + reserved[r]]
  /\ pc' = [pc EXCEPT ![r] = "linked"]
  /\ outcome' = [outcome EXCEPT ![r] = "ok"]
  /\ UNCHANGED <<up, bytes, files, temp, inode, ino, reserved, pending>>

\* publishFile gives up: an error of os.Link, or every candidate name taken.
LinkFails(r) ==
  /\ pc[r] = "link"
  /\ pc' = [pc EXCEPT ![r] = "refund"]
  /\ outcome' = [outcome EXCEPT ![r] = "error"]
  /\ UNCHANGED <<up, quotaVars, diskVars, ino, reserved, pending>>

\* The last deferred function runs first: give back the bytes.
Refund(r) ==
  /\ pc[r] = "refund"
  /\ bytes' = IF MaxBytes = 0 THEN bytes
              ELSE [bytes EXCEPT ![OwnerOf[r]] = Lowered(@, reserved[r])]
  /\ reserved' = [reserved EXCEPT ![r] = 0]
  /\ pc' = [pc EXCEPT ![r] = "discard"]
  /\ UNCHANGED <<up, files, keptBytes, keptFiles, diskVars, ino, pending, outcome>>

\* Then os.Remove takes the temporary name away; its error is ignored.
RemoveTemp(r) ==
  /\ pc[r] \in {"linked", "discard"}
  /\ \/ /\ temp' = temp \ {ino[r]}
        /\ inode' = [inode EXCEPT ![ino[r]] = IF ino[r] \in final THEN @ ELSE Free]
     \/ /\ RemoveMayFail
        /\ UNCHANGED <<temp, inode>>
  /\ pc' = [pc EXCEPT ![r] = IF pc[r] = "linked" THEN "idle" ELSE "uncount"]
  /\ ino' = [ino EXCEPT ![r] = None]
  /\ reserved' = [reserved EXCEPT ![r] = 0]
  /\ UNCHANGED <<up, quotaVars, final, pending, outcome>>

\* And at last, if nothing was published, give back the file.
ReleaseFile(r) ==
  /\ pc[r] = "uncount"
  /\ files' = [files EXCEPT ![OwnerOf[r]] = Lowered(@, 1)]
  /\ pc' = [pc EXCEPT ![r] = "idle"]
  /\ UNCHANGED <<up, bytes, keptBytes, keptFiles, diskVars, ino, reserved, pending, outcome>>

(* ------------------------- the process and others ---------------------- *)

\* The process is killed, or main returns with requests still running: no
\* deferred function runs and the counters are gone with the memory.
Crash ==
  /\ up /\ up' = FALSE
  /\ bytes' = [k \in Identity |-> 0] /\ files' = [k \in Identity |-> 0]
  /\ keptBytes' = bytes' /\ keptFiles' = files'
  /\ pc' = [r \in Request |-> "idle"] /\ ino' = [r \in Request |-> None]
  /\ reserved' = [r \in Request |-> 0] /\ pending' = [r \in Request |-> 0]
  /\ outcome' = [r \in Request |-> "none"]
  /\ UNCHANGED diskVars

\* newStorageQuota walks the user directories and counts every regular file
\* it finds under its name: stale temporary files too, and an inode with two
\* names twice.  No request runs before it is done.
Restart ==
  /\ ~up /\ up' = TRUE
  /\ bytes' = [k \in Identity |-> Cardinality(Units(temp, k)) + Cardinality(Units(final, k))]
  /\ files' = [k \in Identity |-> Cardinality(OfOwner(temp, k)) + Cardinality(OfOwner(final, k))]
  /\ keptBytes' = bytes' /\ keptFiles' = files'
  /\ UNCHANGED <<diskVars, pc, ino, reserved, pending, outcome>>

\* External: whoever shares the upload directory takes a published file away,
\* behind the back of the counters.
Collect(i) ==
  /\ i \in final
  /\ final' = final \ {i}
  /\ inode' = [inode EXCEPT ![i] = IF i \in temp THEN @ ELSE Free]
  /\ UNCHANGED <<up, quotaVars, temp, pc, ino, reserved, pending, outcome>>

\* The steps storePart takes by itself once the copy loop has ended.
Cleanup(r) == ReleaseUnwritten(r) \/ Refund(r) \/ RemoveTemp(r) \/ ReleaseFile(r)

StoreStep(r) ==
  \/ RejectName(r) \/ ReserveFile(r) \/ RefuseFile(r)
  \/ CreateTemp(r) \/ CreateFails(r)
  \/ ReserveChunk(r) \/ RefuseChunk(r) \/ WriteChunk(r)
  \/ CopyFails(r) \/ PartTooLarge(r) \/ SyncTemp(r)
  \/ LinkFile(r) \/ LinkFails(r)
  \/ Cleanup(r)

StoreNext ==
  \/ \E r \in Request : StoreStep(r)
  \/ Crash \/ Restart
  \/ \E i \in Inode : Collect(i)

StoreSpec == StoreInit /\ [][StoreNext]_storeVars

-----------------------------------------------------------------------------
(* Properties.                                                             *)

PC == {"idle", "create", "copy", "write", "unwritten", "link", "linked",
       "refund", "discard", "uncount"}

Outcome == {"none", "ok", "tooLarge", "quota", "error", "panic"}

\* The variables have their types.
StoreTypeOK ==
  /\ up \in BOOLEAN
  /\ bytes \in [Identity -> Nat] /\ files \in [Identity -> Nat]
  /\ keptBytes \in [Identity -> Nat] /\ keptFiles \in [Identity -> Nat]
  /\ temp \subseteq Inode /\ final \subseteq Inode
  /\ inode \in [Inode -> [owner : Identity \cup {None}, size : 0..MaxPart, want : 0..MaxPart]]
  /\ pc \in [Request -> PC] /\ ino \in [Request -> Inode \cup {None}]
  /\ reserved \in [Request -> 0..MaxPart] /\ pending \in [Request -> 0..MaxPart]
  /\ outcome \in [Request -> Outcome]

\* Whatever the interleaving of uploads, crashes and restarts, an identity
\* never has more files on disk, temporary ones included, than
\* MAX_FILES_PER_USER: reserveFile comes before CreateTemp and releaseFile
\* after Remove (server.go:444-461), and newStorageQuota finds the strays.
FilesWithinLimit == \A k \in Identity : Cardinality(OfOwner(temp \cup final, k)) <= MaxFiles

\* Requests whose file is counted while no published file stands for it.
Counting(k) ==
  {r \in Request : OwnerOf[r] = k /\ pc[r] \notin {"idle", "linked"}}

\* Bytes reserved by the requests of k for files that are not published.
Reserving(k) ==
  {u \in Request \X (1..2 * MaxPart) :
     /\ OwnerOf[u[1]] = k /\ pc[u[1]] # "linked"
     /\ u[2] <= reserved[u[1]] + pending[u[1]]}

\* No error, quota, limit or panic path leaks a reservation or returns one
\* twice: the counters always equal what was found at startup or published
\* since plus what the running requests hold (limits.go:99-151,
\* server.go:421-504), and no clamp at zero ever hides an error.
LedgerExact ==
  up => \A k \in Identity :
    /\ files[k] = keptFiles[k] + Cardinality(Counting(k))
    /\ MaxBytes # 0 => bytes[k] = keptBytes[k] + Cardinality(Reserving(k))

\* Temporary files of k whose bytes are given back and whose name is not yet
\* removed: between the two deferred functions of server.go:458-470.
Refunded(k) == {ino[r] : r \in {q \in Request : OwnerOf[q] = k /\ pc[q] = "discard"}}

\* While the process runs, every byte of an identity on disk is charged to
\* it, except in the window Refunded.  The quota errs on the safe side after
\* a crash and after files are collected.
DiskBytesCharged ==
  (up /\ MaxBytes # 0) => \A k \in Identity :
    Cardinality(Units((temp \cup final) \ Refunded(k), k)) <= bytes[k]

\* A published file is the whole part, and within MAX_FILE_BYTES: a transfer
\* that breaks off, runs over a limit or is cut by a crash never shows up
\* under a published name (server.go:480-503).
PublishedWhole ==
  \A i \in final : inode[i].size = inode[i].want /\ inode[i].size <= MaxFileBytes

\* No step of a request, no crash and no restart removes or changes a
\* published file: Remove only ever takes the temporary name away.
PublishedUntouched ==
  [][(pc' # pc \/ up' # up) => \A i \in final : i \in final' /\ inode'[i] = inode[i]]_storeVars

\* README.md:63 says of MAX_BYTES_PER_USER: "Cumulative storage allowed per
\* OIDC identity".
StorageWithinLimit ==
  MaxBytes # 0 => \A k \in Identity : Cardinality(Units(temp \cup final, k)) <= MaxBytes

-----------------------------------------------------------------------------
(* What the proofs of StorePart_proofs.tla carry along.                    *)

\* The request has a temporary file.
Holding == {"copy", "write", "unwritten", "link", "linked", "refund", "discard"}

\* Its temporary file has its name, is its own and has the size the request
\* believes it has.
OwnTemp(r) ==
  IF pc[r] \in Holding
    THEN /\ ino[r] \in temp
         /\ inode[ino[r]].owner = OwnerOf[r]
         /\ pc[r] # "linked" => ino[r] \notin final
         /\ pc[r] # "discard" => reserved[r] = inode[ino[r]].size
         /\ inode[ino[r]].size + pending[r] <= inode[ino[r]].want
    ELSE ino[r] = None /\ reserved[r] = 0

\* No two requests share a temporary file; nothing runs in a dead process.
StoreShape ==
  /\ \A r \in Request : OwnTemp(r)
  /\ \A r \in Request : pc[r] \notin {"write", "unwritten"} => pending[r] = 0
  /\ \A r, q \in Request : ino[r] = ino[q] /\ ino[r] # None => r = q
  /\ ~up => \A r \in Request : pc[r] = "idle"

\* Files counted for k without an inode: not created yet, or removed.
Unborn(k) == {r \in Request : OwnerOf[r] = k /\ pc[r] \in {"create", "uncount"}}

\* Every file on disk is counted.  At startup the count may be beyond the
\* limit (an inode with two names), but then reserveFile admits no request.
FilesCovered ==
  up => \A k \in Identity :
    /\ Cardinality(OfOwner(temp \cup final, k)) + Cardinality(Unborn(k)) <= files[k]
    /\ (\E r \in Request : OwnerOf[r] = k /\ pc[r] # "idle") => files[k] <= MaxFiles

\* Bytes reserved by the requests of k and not (yet) written.
Unwritten(k) ==
  {u \in Request \X (1..MaxPart) : OwnerOf[u[1]] = k /\ u[2] <= pending[u[1]]}

\* What is charged covers the bytes on disk and those still to be written.
\* After a crash, and after files are collected, it may be more.
BytesCovered ==
  (up /\ MaxBytes # 0) => \A k \in Identity :
    Cardinality(Units((temp \cup final) \ Refunded(k), k)) + Cardinality(Unwritten(k)) <= bytes[k]

\* What has passed Sync is as whole as what is published.
LinkedWhole ==
  \A r \in Request : pc[r] = "link" =>
    /\ inode[ino[r]].size = inode[ino[r]].want
    /\ inode[ino[r]].size <= MaxFileBytes

\* The inductive invariant behind FilesWithinLimit, DiskBytesCharged and
\* PublishedWhole.
StoreInv == StoreShape /\ FilesCovered /\ BytesCovered /\ LinkedWhole
-----------------------------------------------------------------------------

\* What a reader of the directory sees: files that appear one at a time,
\* never more of them per identity than allowed, and stay until collected.
Folder == INSTANCE DropFolder WITH
  stored <- [k \in Identity |-> OfOwner(final, k)], File <- Inode
ImplementsDropFolder == Folder!Spec
=============================================================================
