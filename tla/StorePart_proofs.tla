-------------------------- MODULE StorePart_proofs --------------------------
(***************************************************************************)
(* Proofs about StorePart, for every number of requests, identities and    *)
(* inodes and every configuration of the limits.                           *)
(***************************************************************************)
EXTENDS StorePart, Foundations

USE DEF storeVars, quotaVars, diskVars

-----------------------------------------------------------------------------
(* Types and shape: the two are inductive together, since the size of a    *)
(* file stays within MaxPart only while the request writes to its own file.*)

TypeShape == StoreTypeOK /\ StoreShape

LEMMA TypeShapeInit == StoreInit => TypeShape
BY StoreAssumption DEF StoreInit, TypeShape, StoreTypeOK, StoreShape, OwnTemp, Free, PC, Outcome, Holding

\* What the files of an identity are counted with is finite.
LEMMA DiskFinite ==
  ASSUME StoreTypeOK
  PROVE  \A S \in SUBSET Inode : \A k \in Identity :
           IsFiniteSet(OfOwner(S, k)) /\ IsFiniteSet(Units(S, k))
<1>. SUFFICES ASSUME NEW S \in SUBSET Inode, NEW k \in Identity
              PROVE  IsFiniteSet(OfOwner(S, k)) /\ IsFiniteSet(Units(S, k))
  OBVIOUS
<1>1. IsFiniteSet(Inode) /\ IsFiniteSet(1..MaxPart)
  BY FS_Interval, StoreAssumption
<1>2. IsFiniteSet(Inode \X (1..MaxPart))
  BY <1>1, FS_Product
<1>3. OfOwner(S, k) \subseteq Inode /\ Units(S, k) \subseteq Inode \X (1..MaxPart)
  BY DEF OfOwner, Units
<1>. QED BY <1>1, <1>2, <1>3, FS_Subset

LEMMA TypeStep ==
  ASSUME StoreTypeOK, StoreShape, [StoreNext]_storeVars
  PROVE  StoreTypeOK'
<1>. USE StoreAssumption DEF StoreTypeOK, PC, Outcome
<1>1. ASSUME NEW r \in Request, StoreStep(r) PROVE StoreTypeOK'
  <2>1. CASE RejectName(r)
    BY <2>1 DEF RejectName
  <2>2. CASE ReserveFile(r)
    BY <2>2 DEF ReserveFile
  <2>3. CASE RefuseFile(r)
    BY <2>3 DEF RefuseFile
  <2>4. CASE CreateTemp(r)
    BY <2>4 DEF CreateTemp
  <2>5. CASE CreateFails(r)
    BY <2>5 DEF CreateFails
  <2>6. CASE ReserveChunk(r)
    BY <2>6 DEF ReserveChunk, Chunks
  <2>7. CASE RefuseChunk(r)
    BY <2>7 DEF RefuseChunk
  <2>8. CASE WriteChunk(r)
    <3>1. PICK m \in 0..pending[r] :
            /\ inode' = [inode EXCEPT ![ino[r]].size = @ + m]
            /\ reserved' = [reserved EXCEPT ![r] = @ + m]
            /\ pending' = [pending EXCEPT ![r] = @ - m]
            /\ IF m = pending[r]
                 THEN pc' = [pc EXCEPT ![r] = "copy"] /\ UNCHANGED outcome
                 ELSE /\ pc' = [pc EXCEPT ![r] = "unwritten"]
                      /\ outcome' = [outcome EXCEPT ![r] = "error"]
      BY <2>8 DEF WriteChunk
    <3>2. /\ ino[r] \in Inode
          /\ reserved[r] = inode[ino[r]].size
          /\ inode[ino[r]].size + pending[r] <= inode[ino[r]].want
      BY <1>1, <2>8 DEF WriteChunk, StoreShape, OwnTemp, Holding
    <3>3. inode[ino[r]].size + m \in 0..MaxPart
      BY <3>1, <3>2
    <3>4. inode' \in [Inode -> [owner : Identity \cup {None}, size : 0..MaxPart,
                               want : 0..MaxPart]]
      BY <3>1, <3>2, <3>3
    <3>5. reserved' \in [Request -> 0..MaxPart] /\ pending' \in [Request -> 0..MaxPart]
      BY <1>1, <3>1, <3>2, <3>3
    <3>6. pc' \in [Request -> PC] /\ outcome' \in [Request -> Outcome]
      BY <1>1, <3>1
    <3>. QED BY <2>8, <3>4, <3>5, <3>6 DEF WriteChunk
  <2>9. CASE CopyFails(r)
    BY <2>9 DEF CopyFails
  <2>10. CASE PartTooLarge(r)
    BY <2>10 DEF PartTooLarge
  <2>11. CASE SyncTemp(r)
    BY <2>11 DEF SyncTemp
  <2>12. CASE LinkFile(r)
    BY <2>12 DEF LinkFile, StoreShape, OwnTemp, Holding
  <2>13. CASE LinkFails(r)
    BY <2>13 DEF LinkFails
  <2>14. CASE ReleaseUnwritten(r)
    BY <2>14 DEF ReleaseUnwritten, Lowered
  <2>15. CASE Refund(r)
    BY <2>15 DEF Refund, Lowered
  <2>16. CASE RemoveTemp(r)
    BY <2>16 DEF RemoveTemp, Free
  <2>17. CASE ReleaseFile(r)
    BY <2>17 DEF ReleaseFile, Lowered
  <2>. QED
    BY <1>1, <2>1, <2>2, <2>3, <2>4, <2>5, <2>6, <2>7, <2>8, <2>9, <2>10, <2>11,
       <2>12, <2>13, <2>14, <2>15, <2>16, <2>17 DEF StoreStep, Cleanup
<1>2. CASE Crash
  <2>1. up' \in BOOLEAN
    BY <1>2 DEF Crash
  <2>2. /\ bytes' \in [Identity -> Nat] /\ files' \in [Identity -> Nat]
        /\ keptBytes' \in [Identity -> Nat] /\ keptFiles' \in [Identity -> Nat]
    BY <1>2 DEF Crash
  <2>3. /\ pc' \in [Request -> PC] /\ ino' \in [Request -> Inode \cup {None}]
        /\ reserved' \in [Request -> 0..MaxPart] /\ pending' \in [Request -> 0..MaxPart]
        /\ outcome' \in [Request -> Outcome]
    BY <1>2 DEF Crash
  <2>. QED BY <1>2, <2>1, <2>2, <2>3 DEF Crash
<1>3. CASE Restart
  <2>1. up' \in BOOLEAN
    BY <1>3 DEF Restart
  <2>2. \A k \in Identity :
          /\ Cardinality(Units(temp, k)) \in Nat /\ Cardinality(Units(final, k)) \in Nat
          /\ Cardinality(OfOwner(temp, k)) \in Nat /\ Cardinality(OfOwner(final, k)) \in Nat
    BY DiskFinite, FS_CardinalityType
  <2>3. /\ bytes' \in [Identity -> Nat] /\ files' \in [Identity -> Nat]
        /\ keptBytes' \in [Identity -> Nat] /\ keptFiles' \in [Identity -> Nat]
    BY <1>3, <2>2 DEF Restart
  <2>. QED BY <1>3, <2>1, <2>3 DEF Restart
<1>4. ASSUME NEW i \in Inode, Collect(i) PROVE StoreTypeOK'
  BY <1>4 DEF Collect, Free
<1>5. CASE UNCHANGED storeVars
  BY <1>5
<1>. QED BY <1>1, <1>2, <1>3, <1>4, <1>5 DEF StoreNext

LEMMA ShapeStep ==
  ASSUME StoreTypeOK, StoreShape, [StoreNext]_storeVars
  PROVE  StoreShape'
<1>. USE StoreAssumption DEF StoreTypeOK, StoreShape, OwnTemp, Holding, PC
<1>1. ASSUME NEW r \in Request, StoreStep(r) PROVE StoreShape'
  <2>1. CASE RejectName(r)
    BY <2>1 DEF RejectName
  <2>2. CASE ReserveFile(r)
    BY <2>2 DEF ReserveFile
  <2>3. CASE RefuseFile(r)
    BY <2>3 DEF RefuseFile
  <2>4. CASE CreateTemp(r)
    <3>1. PICK i \in Inode \ (temp \cup final), n \in 0..MaxPart :
            /\ temp' = temp \cup {i}
            /\ inode' = [inode EXCEPT ![i] = [owner |-> OwnerOf[r], size |-> 0, want |-> n]]
            /\ ino' = [ino EXCEPT ![r] = i]
      BY <2>4 DEF CreateTemp
    <3>2. /\ pc[r] = "create" /\ pc' = [pc EXCEPT ![r] = "copy"]
          /\ UNCHANGED <<up, final, reserved, pending>>
      BY <2>4 DEF CreateTemp
    <3>3. /\ ino'[r] = i /\ i \in temp' /\ i # None /\ i \notin final'
          /\ inode'[i] = [owner |-> OwnerOf[r], size |-> 0, want |-> n]
      BY <1>1, <3>1, <3>2
    <3>4. \A q \in Request \ {r} :
            /\ pc'[q] = pc[q] /\ ino'[q] = ino[q] /\ ino[q] # i
            /\ pc[q] \in Holding => ino[q] \in temp' /\ inode'[ino[q]] = inode[ino[q]]
      BY <1>1, <3>1, <3>2
    <3>. QED BY <1>1, <3>2, <3>3, <3>4
  <2>5. CASE CreateFails(r)
    BY <2>5 DEF CreateFails
  <2>6. CASE ReserveChunk(r)
    BY <2>6 DEF ReserveChunk, Chunks
  <2>7. CASE RefuseChunk(r)
    BY <2>7 DEF RefuseChunk
  <2>8. CASE WriteChunk(r)
    <3>1. PICK m \in 0..pending[r] :
            /\ inode' = [inode EXCEPT ![ino[r]].size = @ + m]
            /\ reserved' = [reserved EXCEPT ![r] = @ + m]
            /\ pending' = [pending EXCEPT ![r] = @ - m]
            /\ pc' = [pc EXCEPT ![r] = IF m = pending[r] THEN "copy" ELSE "unwritten"]
      BY <2>8 DEF WriteChunk
    <3>2. ino[r] \in Inode /\ pc[r] = "write" /\ UNCHANGED <<up, temp, final, ino>>
      BY <1>1, <2>8 DEF WriteChunk
    <3>3. \A i \in Inode : /\ inode'[i].owner = inode[i].owner
                           /\ inode'[i].want = inode[i].want
                           /\ inode'[i].size = inode[i].size + IF i = ino[r] THEN m ELSE 0
      BY <3>1, <3>2
    <3>4. \A q \in Request \ {r} :
            /\ pc'[q] = pc[q] /\ reserved'[q] = reserved[q] /\ pending'[q] = pending[q]
            /\ ino[q] # None => ino[q] # ino[r]
      BY <1>1, <3>1, <3>2
    <3>5. /\ pc'[r] = (IF m = pending[r] THEN "copy" ELSE "unwritten")
          /\ reserved'[r] = reserved[r] + m /\ pending'[r] = pending[r] - m
      BY <1>1, <3>1
    <3>6. OwnTemp(r)'
      BY <1>1, <3>2, <3>3, <3>5
    <3>7. ASSUME NEW q \in Request \ {r} PROVE OwnTemp(q)'
      BY <3>2, <3>3, <3>4
    <3>. QED BY <1>1, <3>1, <3>2, <3>4, <3>5, <3>6, <3>7
  <2>9. CASE CopyFails(r)
    BY <2>9 DEF CopyFails
  <2>10. CASE PartTooLarge(r)
    BY <2>10 DEF PartTooLarge
  <2>11. CASE SyncTemp(r)
    BY <2>11 DEF SyncTemp
  <2>12. CASE LinkFile(r)
    BY <2>12 DEF LinkFile
  <2>13. CASE LinkFails(r)
    BY <2>13 DEF LinkFails
  <2>14. CASE ReleaseUnwritten(r)
    BY <2>14 DEF ReleaseUnwritten
  <2>15. CASE Refund(r)
    BY <2>15 DEF Refund
  <2>16. CASE RemoveTemp(r)
    BY <2>16 DEF RemoveTemp, Free
  <2>17. CASE ReleaseFile(r)
    BY <2>17 DEF ReleaseFile
  <2>. QED
    BY <1>1, <2>1, <2>2, <2>3, <2>4, <2>5, <2>6, <2>7, <2>8, <2>9, <2>10, <2>11,
       <2>12, <2>13, <2>14, <2>15, <2>16, <2>17 DEF StoreStep, Cleanup
<1>2. CASE Crash
  BY <1>2 DEF Crash
<1>3. CASE Restart
  BY <1>3 DEF Restart
<1>4. ASSUME NEW i \in Inode, Collect(i) PROVE StoreShape'
  BY <1>4 DEF Collect, Free
<1>5. CASE UNCHANGED storeVars
  BY <1>5
<1>. QED BY <1>1, <1>2, <1>3, <1>4, <1>5 DEF StoreNext

LEMMA TypeShapeStep == TypeShape /\ [StoreNext]_storeVars => TypeShape'
BY TypeStep, ShapeStep DEF TypeShape

LEMMA TypeShapeInvariant == StoreSpec => []TypeShape
BY TypeShapeInit, TypeShapeStep, PTL DEF StoreSpec

\* The variables keep their types: in particular no counter of storageQuota
\* goes negative and no file outgrows what its part had to offer.
THEOREM StoreTypeCorrect == StoreSpec => []StoreTypeOK
BY TypeShapeInvariant, PTL DEF TypeShape

-----------------------------------------------------------------------------
(* Published files.                                                        *)

\* No step of a request, no crash and no restart touches a published file:
\* os.Remove of storePart's deferred function (server.go:458-461) takes a
\* temporary name away, and that file is nobody else's.
THEOREM PublishedStay == StoreSpec => PublishedUntouched
<1>1. ASSUME TypeShape, [StoreNext]_storeVars, pc' # pc \/ up' # up, NEW i \in final
      PROVE  i \in final' /\ inode'[i] = inode[i]
  <2>. USE <1>1 DEF TypeShape, StoreTypeOK, StoreShape, OwnTemp, Holding
  <2>1. ASSUME NEW r \in Request, StoreStep(r)
        PROVE  i \in final' /\ inode'[i] = inode[i]
    <3>1. CASE CreateTemp(r)
      BY <3>1 DEF CreateTemp
    <3>2. CASE WriteChunk(r)
      BY <2>1, <3>2 DEF WriteChunk
    <3>3. CASE RemoveTemp(r)
      BY <2>1, <3>3 DEF RemoveTemp
    <3>4. CASE LinkFile(r)
      BY <3>4 DEF LinkFile
    <3>5. CASE UNCHANGED <<final, inode>>
      BY <3>5
    <3>. QED
      BY <2>1, <3>1, <3>2, <3>3, <3>4, <3>5
      DEF StoreStep, Cleanup, RejectName, ReserveFile, RefuseFile, CreateFails, ReserveChunk,
          RefuseChunk, CopyFails, PartTooLarge, SyncTemp, LinkFails, ReleaseUnwritten,
          Refund, ReleaseFile
  <2>2. CASE Crash \/ Restart \/ UNCHANGED storeVars
    BY <2>2 DEF Crash, Restart
  <2>3. ASSUME NEW j \in Inode, Collect(j) PROVE FALSE
    BY <2>3 DEF Collect
  <2>. QED BY <2>1, <2>2, <2>3 DEF StoreNext
<1>2. TypeShape /\ [StoreNext]_storeVars
        => [(pc' # pc \/ up' # up) => \A i \in final : i \in final' /\ inode'[i] = inode[i]]_storeVars
  BY <1>1
<1>. QED BY <1>2, TypeShapeInvariant, PTL DEF StoreSpec, PublishedUntouched

LEMMA WholeStep ==
  ASSUME MaxFileBytes < MaxInt, TypeShape, LinkedWhole, PublishedWhole, [StoreNext]_storeVars
  PROVE  LinkedWhole' /\ PublishedWhole'
<1>. USE StoreAssumption
     DEF TypeShape, StoreTypeOK, StoreShape, OwnTemp, Holding, LinkedWhole, PublishedWhole
<1>1. ASSUME NEW r \in Request, StoreStep(r) PROVE LinkedWhole' /\ PublishedWhole'
  <2>1. CASE CreateTemp(r)
    BY <1>1, <2>1 DEF CreateTemp
  <2>2. CASE WriteChunk(r)
    BY <1>1, <2>2 DEF WriteChunk
  <2>3. CASE SyncTemp(r)
    <3>1. ReadLimit = MaxFileBytes + 1
      BY DEF ReadLimit
    <3>2. /\ inode[ino[r]].size <= MaxFileBytes
          /\ inode[ino[r]].size = inode[ino[r]].want
      BY <1>1, <2>3, <3>1 DEF SyncTemp, Exhausted
    <3>. QED BY <1>1, <2>3, <3>2 DEF SyncTemp
  <2>4. CASE LinkFile(r)
    BY <1>1, <2>4 DEF LinkFile
  <2>5. CASE RemoveTemp(r)
    BY <1>1, <2>5 DEF RemoveTemp
  <2>6. ASSUME UNCHANGED diskVars, UNCHANGED ino,
               NEW n \in PC \ {"link"}, pc' = pc \/ pc' = [pc EXCEPT ![r] = n]
        PROVE  LinkedWhole' /\ PublishedWhole'
    BY <2>6
  <2>. QED
    BY <1>1, <2>1, <2>2, <2>3, <2>4, <2>5, <2>6
    DEF StoreStep, Cleanup, PC, RejectName, ReserveFile, RefuseFile, CreateFails, ReserveChunk,
        RefuseChunk, CopyFails, PartTooLarge, LinkFails, ReleaseUnwritten, Refund, ReleaseFile
<1>2. CASE Crash
  BY <1>2 DEF Crash
<1>3. CASE Restart \/ UNCHANGED storeVars
  BY <1>3 DEF Restart
<1>4. ASSUME NEW i \in Inode, Collect(i) PROVE LinkedWhole' /\ PublishedWhole'
  BY <1>4 DEF Collect
<1>. QED BY <1>1, <1>2, <1>3, <1>4 DEF StoreNext

\* A published file is its whole part and within MAX_FILE_BYTES, as long as
\* maxFileBytes+1 (server.go:474) does not overflow.
THEOREM PublishedFilesWhole ==
  ASSUME MaxFileBytes < MaxInt PROVE StoreSpec => []PublishedWhole
<1>1. StoreInit => LinkedWhole /\ PublishedWhole
  BY DEF StoreInit, LinkedWhole, PublishedWhole
<1>2. TypeShape /\ LinkedWhole /\ PublishedWhole /\ [StoreNext]_storeVars
        => LinkedWhole' /\ PublishedWhole'
  BY WholeStep
<1>. QED BY <1>1, <1>2, TypeShapeInvariant, PTL DEF StoreSpec

-----------------------------------------------------------------------------
(* Files on disk.  A file is counted from before os.CreateTemp until after *)
(* os.Remove; FilesCovered says so of every file and makes the limit of    *)
(* reserveFile a limit on the directory.                                   *)

OnDisk(k) == OfOwner(temp \cup final, k)

FilesInv == FilesWithinLimit /\ FilesCovered

LEMMA FilesFinite ==
  ASSUME TypeShape
  PROVE  \A k \in Identity :
           /\ IsFiniteSet(OnDisk(k)) /\ Cardinality(OnDisk(k)) \in Nat
           /\ IsFiniteSet(Unborn(k)) /\ Cardinality(Unborn(k)) \in Nat
<1>1. \A k \in Identity : IsFiniteSet(OnDisk(k))
  BY DiskFinite DEF TypeShape, StoreTypeOK, OnDisk
<1>2. \A k \in Identity : Unborn(k) \subseteq Request
  BY DEF Unborn
<1>. QED BY <1>1, <1>2, FS_Subset, FS_CardinalityType, StoreAssumption

\* A step that counts no file and gains no file keeps FilesInv.
LEMMA FilesKept ==
  ASSUME TypeShape, FilesInv, UNCHANGED <<up, files>>,
         \A k \in Identity : OnDisk(k)' \subseteq OnDisk(k) /\ Unborn(k)' = Unborn(k),
         \A r \in Request : pc'[r] # "idle" => pc[r] # "idle"
  PROVE  FilesInv'
<1>1. \A k \in Identity : /\ Cardinality(OnDisk(k)') \in Nat
                          /\ Cardinality(OnDisk(k)') <= Cardinality(OnDisk(k))
  BY FilesFinite, FS_Subset, FS_CardinalityType
<1>2. \A k \in Identity : Cardinality(OnDisk(k)') + Cardinality(Unborn(k)')
                            <= Cardinality(OnDisk(k)) + Cardinality(Unborn(k))
  BY <1>1, FilesFinite
<1>3. FilesWithinLimit'
  <2>1. \A k \in Identity : Cardinality(OnDisk(k)) <= MaxFiles
    BY DEF FilesInv, FilesWithinLimit, OnDisk
  <2>2. \A k \in Identity : Cardinality(OnDisk(k)') <= MaxFiles
    BY <1>1, <2>1, FilesFinite, StoreAssumption
  <2>. QED BY <2>2 DEF FilesWithinLimit, OnDisk
<1>4. ASSUME NEW k \in Identity, up
      PROVE  /\ Cardinality(OnDisk(k)') + Cardinality(Unborn(k)') <= files[k]
             /\ (\E r \in Request : OwnerOf[r] = k /\ pc'[r] # "idle") => files[k] <= MaxFiles
  <2>1. /\ Cardinality(OnDisk(k)) + Cardinality(Unborn(k)) <= files[k]
        /\ (\E r \in Request : OwnerOf[r] = k /\ pc[r] # "idle") => files[k] <= MaxFiles
    BY <1>4 DEF FilesInv, FilesCovered, OnDisk
  <2>2. /\ Cardinality(OnDisk(k)') \in Nat /\ Cardinality(Unborn(k)') \in Nat
        /\ Cardinality(OnDisk(k)) \in Nat /\ Cardinality(Unborn(k)) \in Nat
        /\ files[k] \in Nat
    BY <1>1, FilesFinite DEF TypeShape, StoreTypeOK
  <2>. QED BY <1>2, <2>1, <2>2
<1>. QED BY <1>3, <1>4 DEF FilesInv, FilesCovered, OnDisk

LEMMA ReserveFileStep ==
  ASSUME TypeShape, FilesInv, NEW r \in Request, ReserveFile(r)
  PROVE  FilesInv'
<1>. USE DEF TypeShape, StoreTypeOK
<1>1. \A k \in Identity : OnDisk(k)' = OnDisk(k)
  BY DEF ReserveFile, OnDisk, OfOwner
<1>2. FilesWithinLimit'
  BY <1>1 DEF FilesInv, FilesWithinLimit, OnDisk
<1>3. ASSUME NEW k \in Identity
      PROVE  /\ Cardinality(OnDisk(k)') + Cardinality(Unborn(k)') <= files'[k]
             /\ (\E q \in Request : OwnerOf[q] = k /\ pc'[q] # "idle") => files'[k] <= MaxFiles
  <2>1. /\ Cardinality(OnDisk(k)) + Cardinality(Unborn(k)) <= files[k]
        /\ (\E q \in Request : OwnerOf[q] = k /\ pc[q] # "idle") => files[k] <= MaxFiles
    BY DEF FilesInv, FilesCovered, OnDisk, ReserveFile
  <2>2. CASE k = OwnerOf[r]
    <3>1. Unborn(k)' = Unborn(k) \cup {r} /\ r \notin Unborn(k)
      BY <2>2 DEF Unborn, ReserveFile
    <3>2. Cardinality(Unborn(k)') = Cardinality(Unborn(k)) + 1
      <4>1. IsFiniteSet(Unborn(k))
        BY FilesFinite
      <4>. QED BY <3>1, <4>1, FS_AddElement, ZenonT(30)
    <3>3. files'[k] = files[k] + 1 /\ files[k] < MaxFiles
      BY <2>2 DEF ReserveFile, MayReserveFile
    <3>. QED BY <1>1, <2>1, <3>2, <3>3, FilesFinite, StoreAssumption
  <2>3. CASE k # OwnerOf[r]
    <3>1. Unborn(k)' = Unborn(k) /\ files'[k] = files[k]
      BY <2>3 DEF Unborn, ReserveFile
    <3>2. \A q \in Request : OwnerOf[q] = k => pc'[q] = pc[q]
      BY <2>3 DEF ReserveFile
    <3>. QED BY <1>1, <2>1, <3>1, <3>2
  <2>. QED BY <2>2, <2>3
<1>. QED BY <1>2, <1>3 DEF FilesInv, FilesCovered, OnDisk

LEMMA CreateTempStep ==
  ASSUME TypeShape, FilesInv, NEW r \in Request, CreateTemp(r)
  PROVE  FilesInv'
<1>. USE StoreAssumption DEF TypeShape, StoreTypeOK
<1>1. PICK i \in Inode \ (temp \cup final) :
        /\ temp' = temp \cup {i}
        /\ \E n \in 0..MaxPart :
             inode' = [inode EXCEPT ![i] = [owner |-> OwnerOf[r], size |-> 0, want |-> n]]
  BY DEF CreateTemp
<1>2. up /\ pc[r] = "create" /\ final' = final /\ files' = files /\ pc' = [pc EXCEPT ![r] = "copy"]
  BY DEF CreateTemp, StoreShape
<1>3. ASSUME NEW k \in Identity
      PROVE  /\ Cardinality(OnDisk(k)') <= MaxFiles
             /\ Cardinality(OnDisk(k)') + Cardinality(Unborn(k)') <= files'[k]
             /\ (\E q \in Request : OwnerOf[q] = k /\ pc'[q] # "idle") => files'[k] <= MaxFiles
  <2>1. /\ Cardinality(OnDisk(k)) <= MaxFiles
        /\ Cardinality(OnDisk(k)) + Cardinality(Unborn(k)) <= files[k]
        /\ (\E q \in Request : OwnerOf[q] = k /\ pc[q] # "idle") => files[k] <= MaxFiles
    BY <1>2 DEF FilesInv, FilesCovered, FilesWithinLimit, OnDisk
  <2>2. CASE k = OwnerOf[r]
    <3>1. OnDisk(k)' = OnDisk(k) \cup {i} /\ i \notin OnDisk(k)
      BY <1>1, <1>2, <2>2 DEF OnDisk, OfOwner
    <3>2. Unborn(k)' = Unborn(k) \ {r} /\ r \in Unborn(k)
      BY <1>2, <2>2 DEF Unborn
    <3>3. /\ Cardinality(OnDisk(k)') = Cardinality(OnDisk(k)) + 1
          /\ Cardinality(Unborn(k)') = Cardinality(Unborn(k)) - 1
          /\ Cardinality(Unborn(k)') \in Nat
      <4>1. IsFiniteSet(OnDisk(k)) /\ IsFiniteSet(Unborn(k))
        BY FilesFinite
      <4>2. Cardinality(OnDisk(k)') = Cardinality(OnDisk(k)) + 1
        BY <3>1, <4>1, FS_AddElement
      <4>3. /\ Cardinality(Unborn(k)') = Cardinality(Unborn(k)) - 1
            /\ IsFiniteSet(Unborn(k)')
        BY <3>2, <4>1, FS_RemoveElement
      <4>. QED BY <4>2, <4>3, FS_CardinalityType
    <3>4. files[k] <= MaxFiles
      BY <1>2, <2>1, <2>2
    <3>. QED BY <1>2, <2>1, <3>3, <3>4, FilesFinite
  <2>3. CASE k # OwnerOf[r]
    <3>1. OnDisk(k)' = OnDisk(k)
      BY <1>1, <1>2, <2>3 DEF OnDisk, OfOwner
    <3>2. Unborn(k)' = Unborn(k) /\ \A q \in Request : OwnerOf[q] = k => pc'[q] = pc[q]
      BY <1>2, <2>3 DEF Unborn
    <3>. QED BY <1>2, <2>1, <3>1, <3>2
  <2>. QED BY <2>2, <2>3
<1>. QED BY <1>3 DEF FilesInv, FilesCovered, FilesWithinLimit, OnDisk

LEMMA RemoveTempStep ==
  ASSUME ~RemoveMayFail, TypeShape, FilesInv, NEW r \in Request, RemoveTemp(r)
  PROVE  FilesInv'
<1>. USE StoreAssumption DEF TypeShape, StoreTypeOK
<1>1. /\ temp' = temp \ {ino[r]} /\ UNCHANGED <<up, files, final>>
      /\ inode' = [inode EXCEPT ![ino[r]] = IF ino[r] \in final THEN @ ELSE Free]
      /\ pc[r] \in {"linked", "discard"}
      /\ pc' = [pc EXCEPT ![r] = IF pc[r] = "linked" THEN "idle" ELSE "uncount"]
  BY DEF RemoveTemp
<1>2. /\ up /\ ino[r] \in temp /\ inode[ino[r]].owner = OwnerOf[r]
      /\ pc[r] = "discard" => ino[r] \notin final
  BY <1>1 DEF StoreShape, OwnTemp, Holding
<1>3. \A k \in Identity : OnDisk(k)' \subseteq OnDisk(k)
  BY <1>1 DEF OnDisk, OfOwner, Free
<1>4. CASE pc[r] = "linked"
  <2>1. \A k \in Identity : Unborn(k)' = Unborn(k)
    BY <1>1, <1>4 DEF Unborn
  <2>2. \A q \in Request : pc'[q] # "idle" => pc[q] # "idle"
    BY <1>1, <1>4
  <2>. QED BY <1>1, <1>3, <2>1, <2>2, FilesKept
<1>5. CASE pc[r] = "discard"
  <2>1. ASSUME NEW k \in Identity
        PROVE  /\ Cardinality(OnDisk(k)') <= MaxFiles
               /\ Cardinality(OnDisk(k)') + Cardinality(Unborn(k)') <= files'[k]
               /\ (\E q \in Request : OwnerOf[q] = k /\ pc'[q] # "idle") => files'[k] <= MaxFiles
    <3>1. /\ Cardinality(OnDisk(k)) <= MaxFiles
          /\ Cardinality(OnDisk(k)) + Cardinality(Unborn(k)) <= files[k]
          /\ (\E q \in Request : OwnerOf[q] = k /\ pc[q] # "idle") => files[k] <= MaxFiles
      BY <1>2 DEF FilesInv, FilesCovered, FilesWithinLimit, OnDisk
    <3>2. \A q \in Request : pc'[q] # "idle" => pc[q] # "idle"
      BY <1>1, <1>5
    <3>3. CASE k = OwnerOf[r]
      <4>1. OnDisk(k)' = OnDisk(k) \ {ino[r]} /\ ino[r] \in OnDisk(k)
        BY <1>1, <1>2, <1>5, <3>3 DEF OnDisk, OfOwner, Free
      <4>2. Unborn(k)' = Unborn(k) \cup {r} /\ r \notin Unborn(k)
        BY <1>1, <1>5, <3>3 DEF Unborn
      <4>3. Cardinality(OnDisk(k)') = Cardinality(OnDisk(k)) - 1
        <5>1. IsFiniteSet(OnDisk(k))
          BY FilesFinite, Zenon
        <5>. QED BY <4>1, <5>1, FS_RemoveElement, ZenonT(30)
      <4>4. Cardinality(Unborn(k)') = Cardinality(Unborn(k)) + 1
        <5>1. IsFiniteSet(Unborn(k))
          BY FilesFinite, Zenon
        <5>. QED BY <4>2, <5>1, FS_AddElement, ZenonT(30)
      <4>. QED BY <1>1, <3>1, <3>2, <4>3, <4>4, FilesFinite
    <3>4. CASE k # OwnerOf[r]
      <4>1. OnDisk(k)' = OnDisk(k)
        BY <1>1, <1>2, <3>4 DEF OnDisk, OfOwner, Free
      <4>2. Unborn(k)' = Unborn(k)
        BY <1>1, <1>5, <3>4 DEF Unborn
      <4>. QED BY <1>1, <3>1, <3>2, <4>1, <4>2
    <3>. QED BY <3>3, <3>4
  <2>. QED BY <2>1 DEF FilesInv, FilesCovered, FilesWithinLimit, OnDisk
<1>. QED BY <1>1, <1>4, <1>5

LEMMA ReleaseFileStep ==
  ASSUME TypeShape, FilesInv, NEW r \in Request, ReleaseFile(r)
  PROVE  FilesInv'
<1>. USE StoreAssumption DEF TypeShape, StoreTypeOK
<1>1. /\ pc[r] = "uncount" /\ pc' = [pc EXCEPT ![r] = "idle"]
      /\ files' = [files EXCEPT ![OwnerOf[r]] = Lowered(@, 1)]
      /\ UNCHANGED <<up, temp, final, inode>>
  BY DEF ReleaseFile
<1>2. up
  BY <1>1 DEF StoreShape
<1>3. \A k \in Identity : OnDisk(k)' = OnDisk(k)
  BY <1>1 DEF OnDisk, OfOwner
<1>4. ASSUME NEW k \in Identity
      PROVE  /\ Cardinality(OnDisk(k)') <= MaxFiles
             /\ Cardinality(OnDisk(k)') + Cardinality(Unborn(k)') <= files'[k]
             /\ (\E q \in Request : OwnerOf[q] = k /\ pc'[q] # "idle") => files'[k] <= MaxFiles
  <2>1. /\ Cardinality(OnDisk(k)) <= MaxFiles
        /\ Cardinality(OnDisk(k)) + Cardinality(Unborn(k)) <= files[k]
        /\ (\E q \in Request : OwnerOf[q] = k /\ pc[q] # "idle") => files[k] <= MaxFiles
    BY <1>2 DEF FilesInv, FilesCovered, FilesWithinLimit, OnDisk
  <2>2. \A q \in Request : pc'[q] # "idle" => pc[q] # "idle"
    BY <1>1
  <2>3. CASE k = OwnerOf[r]
    <3>1. Unborn(k)' = Unborn(k) \ {r} /\ r \in Unborn(k)
      BY <1>1, <2>3 DEF Unborn
    <3>2. /\ Cardinality(Unborn(k)') = Cardinality(Unborn(k)) - 1
          /\ Cardinality(Unborn(k)') \in Nat
      BY <3>1, FilesFinite, FS_RemoveElement, FS_CardinalityType
    <3>3. /\ files'[k] = IF files[k] - 1 <= 0 THEN 0 ELSE files[k] - 1
          /\ files[k] \in Nat
      BY <1>1, <2>3 DEF Lowered
    <3>4. files'[k] \in Nat /\ files'[k] >= files[k] - 1 /\ (files[k] >= 1 => files'[k] <= files[k])
      BY <3>3
    <3>5. files[k] <= MaxFiles
      BY <1>1, <2>1, <2>3
    <3>. QED BY <1>3, <2>1, <2>2, <3>2, <3>4, <3>5, FilesFinite
  <2>4. CASE k # OwnerOf[r]
    <3>1. Unborn(k)' = Unborn(k) /\ files'[k] = files[k]
      BY <1>1, <2>4 DEF Unborn
    <3>. QED BY <1>3, <2>1, <2>2, <3>1
  <2>. QED BY <2>3, <2>4
<1>. QED BY <1>4 DEF FilesInv, FilesCovered, FilesWithinLimit, OnDisk

LEMMA RestartStep ==
  ASSUME TypeShape, FilesInv, Restart
  PROVE  FilesInv'
<1>1. ASSUME NEW k \in Identity
      PROVE  /\ OnDisk(k)' = OnDisk(k) /\ Unborn(k)' = {}
             /\ Cardinality(OnDisk(k)) <= files'[k]
  <2>1. OnDisk(k) = OfOwner(temp, k) \cup OfOwner(final, k)
    BY DEF OnDisk, OfOwner
  <2>2. IsFiniteSet(OfOwner(temp, k)) /\ IsFiniteSet(OfOwner(final, k))
    BY DiskFinite DEF TypeShape, StoreTypeOK
  <2>3. Cardinality(OnDisk(k)) <= Cardinality(OfOwner(temp, k)) + Cardinality(OfOwner(final, k))
    <3>1. IsFiniteSet(OfOwner(temp, k) \cap OfOwner(final, k))
      BY <2>2, FS_Intersection
    <3>2. Cardinality(OfOwner(temp, k) \cup OfOwner(final, k))
            = Cardinality(OfOwner(temp, k)) + Cardinality(OfOwner(final, k))
              - Cardinality(OfOwner(temp, k) \cap OfOwner(final, k))
      BY <2>2, FS_Union
    <3>3. /\ Cardinality(OfOwner(temp, k)) \in Nat /\ Cardinality(OfOwner(final, k)) \in Nat
          /\ Cardinality(OfOwner(temp, k) \cap OfOwner(final, k)) \in Nat
      BY <2>2, <3>1, FS_CardinalityType
    <3>. QED BY <2>1, <3>2, <3>3
  <2>4. OnDisk(k)' = OnDisk(k)
    BY DEF OnDisk, OfOwner, Restart
  <2>5. Unborn(k)' = {}
    BY DEF Restart, Unborn, TypeShape, StoreShape
  <2>. QED BY <2>3, <2>4, <2>5 DEF Restart
<1>2. \A k \in Identity : Cardinality(OnDisk(k)') + Cardinality(Unborn(k)') <= files'[k]
  BY <1>1, FilesFinite, FS_EmptySet
<1>3. \A q \in Request : pc'[q] = "idle"
  BY DEF Restart, TypeShape, StoreShape
<1>. QED BY <1>1, <1>2, <1>3 DEF FilesInv, FilesCovered, FilesWithinLimit, OnDisk

LEMMA FilesStep ==
  ASSUME ~RemoveMayFail, TypeShape, FilesInv, [StoreNext]_storeVars
  PROVE  FilesInv'
<1>. USE DEF TypeShape, StoreTypeOK
<1>1. ASSUME NEW r \in Request, StoreStep(r) PROVE FilesInv'
  <2>1. CASE ReserveFile(r)
    BY <1>1, <2>1, ReserveFileStep
  <2>2. CASE CreateTemp(r)
    BY <1>1, <2>2, CreateTempStep
  <2>3. CASE RemoveTemp(r)
    BY <1>1, <2>3, RemoveTempStep
  <2>4. CASE ReleaseFile(r)
    BY <1>1, <2>4, ReleaseFileStep
  <2>5. CASE LinkFile(r)
    <3>1. ino[r] \in temp
      BY <1>1, <2>5 DEF LinkFile, StoreShape, OwnTemp, Holding
    <3>2. \A k \in Identity : OnDisk(k)' = OnDisk(k) /\ Unborn(k)' = Unborn(k)
      BY <1>1, <2>5, <3>1 DEF LinkFile, OnDisk, OfOwner, Unborn
    <3>3. UNCHANGED <<up, files>> /\ \A q \in Request : pc'[q] # "idle" => pc[q] # "idle"
      BY <2>5 DEF LinkFile
    <3>. QED BY <3>2, <3>3, FilesKept
  <2>6. CASE WriteChunk(r)
    <3>1. \A i \in Inode : inode'[i].owner = inode[i].owner
      BY <1>1, <2>6 DEF WriteChunk
    <3>2. \A k \in Identity : OnDisk(k)' = OnDisk(k) /\ Unborn(k)' = Unborn(k)
      BY <1>1, <2>6, <3>1 DEF WriteChunk, OnDisk, OfOwner, Unborn
    <3>3. UNCHANGED <<up, files>> /\ \A q \in Request : pc'[q] # "idle" => pc[q] # "idle"
      BY <2>6 DEF WriteChunk
    <3>. QED BY <3>2, <3>3, FilesKept
  <2>7. ASSUME UNCHANGED <<up, files, diskVars>>,
               \/ pc' = pc
               \/ \E n \in PC \ {"idle", "create", "uncount"} :
                    /\ pc[r] \notin {"idle", "create", "uncount"}
                    /\ pc' = [pc EXCEPT ![r] = n]
               \/ pc[r] = "create" /\ pc' = [pc EXCEPT ![r] = "uncount"]
        PROVE  FilesInv'
    <3>1. \A k \in Identity : OnDisk(k)' = OnDisk(k)
      BY <2>7 DEF OnDisk, OfOwner
    <3>2. \A k \in Identity : Unborn(k)' = Unborn(k)
      BY <1>1, <2>7 DEF Unborn
    <3>3. \A q \in Request : pc'[q] # "idle" => pc[q] # "idle"
      BY <1>1, <2>7
    <3>. QED BY <2>7, <3>1, <3>2, <3>3, FilesKept
  <2>. QED
    BY <1>1, <2>1, <2>2, <2>3, <2>4, <2>5, <2>6, <2>7
    DEF StoreStep, Cleanup, PC, RejectName, RefuseFile, CreateFails, ReserveChunk,
        RefuseChunk, CopyFails, PartTooLarge, SyncTemp, LinkFails, ReleaseUnwritten, Refund
<1>2. CASE Crash
  BY <1>2 DEF Crash, FilesInv, FilesCovered, FilesWithinLimit, OfOwner
<1>3. CASE Restart
  BY <1>3, RestartStep
<1>4. ASSUME NEW i \in Inode, Collect(i) PROVE FilesInv'
  <2>1. \A k \in Identity : OnDisk(k)' \subseteq OnDisk(k) /\ Unborn(k)' = Unborn(k)
    BY <1>4, StoreAssumption DEF Collect, OnDisk, OfOwner, Unborn, Free
  <2>. QED BY <1>4, <2>1, FilesKept DEF Collect
<1>5. CASE UNCHANGED storeVars
  BY <1>5 DEF FilesInv, FilesCovered, FilesWithinLimit, OfOwner, Unborn
<1>. QED BY <1>1, <1>2, <1>3, <1>4, <1>5 DEF StoreNext

LEMMA FilesInvariant ==
  ASSUME ~RemoveMayFail PROVE StoreSpec => []FilesInv
<1>1. StoreInit => FilesInv
  <2>. SUFFICES ASSUME StoreInit PROVE FilesInv
    OBVIOUS
  <2>1. \A k \in Identity : OnDisk(k) = {} /\ Unborn(k) = {} /\ files[k] = 0
    BY DEF StoreInit, OnDisk, OfOwner, Unborn
  <2>2. \A k \in Identity : /\ Cardinality(OnDisk(k)) = 0 /\ Cardinality(Unborn(k)) = 0
                            /\ files[k] = 0
    BY <2>1, FS_EmptySet
  <2>3. FilesWithinLimit
    BY <2>2, StoreAssumption DEF FilesWithinLimit, OnDisk
  <2>4. FilesCovered
    BY <2>2, StoreAssumption DEF FilesCovered, OnDisk
  <2>. QED BY <2>3, <2>4 DEF FilesInv
<1>2. TypeShape /\ FilesInv /\ [StoreNext]_storeVars => FilesInv'
  BY FilesStep
<1>. QED BY <1>1, <1>2, TypeShapeInvariant, PTL DEF StoreSpec

\* No identity ever has more than MAX_FILES_PER_USER files on disk, temporary
\* ones included, over any interleaving, crash or restart, provided that
\* os.Remove of a temporary file (server.go:460) does not fail.
THEOREM FilesLimited ==
  ASSUME ~RemoveMayFail PROVE StoreSpec => []FilesWithinLimit
BY FilesInvariant, PTL DEF FilesInv

-----------------------------------------------------------------------------
(* The ledger.  Every step moves one request, so every count changes by    *)
(* what that request holds before and after: a file while it is counted    *)
(* and unpublished, and the bytes it has reserved.                         *)

Counts(k, r) == OwnerOf[r] = k /\ pc[r] \notin {"idle", "linked"}

Reserves(k, r) == IF OwnerOf[r] = k /\ pc[r] # "linked" THEN reserved[r] + pending[r] ELSE 0

\* After Refund nothing is left to give back.
RefundedOnce == \A r \in Request : pc[r] = "discard" => reserved[r] = 0

LEMMA ReservingChart ==
  \A k : Reserving(k) = Bars([r \in Request |-> Reserves(k, r)], Request, 2 * MaxPart)
BY StoreAssumption DEF Reserving, Reserves, Bars

LEMMA LedgerFinite ==
  \A k : /\ IsFiniteSet(Counting(k)) /\ Cardinality(Counting(k)) \in Nat
         /\ IsFiniteSet(Reserving(k)) /\ Cardinality(Reserving(k)) \in Nat
<1>. TAKE k
<1>1. Counting(k) \subseteq Request
  BY DEF Counting
<1>2. IsFiniteSet(Counting(k)) /\ Cardinality(Counting(k)) \in Nat
  BY <1>1, StoreAssumption, FS_Subset, FS_CardinalityType
<1>3. 2 * MaxPart \in Nat
  BY StoreAssumption
<1>4. IsFiniteSet(Reserving(k)) /\ Cardinality(Reserving(k)) \in Nat
  BY <1>3, StoreAssumption, BarsFinite, ReservingChart
<1>. QED BY <1>2, <1>4

\* What one step of r does to the two counts.
LEMMA LedgerMoves ==
  ASSUME TypeShape, TypeShape', NEW r \in Request, NEW k \in Identity,
         \A q \in Request \ {r} :
           pc'[q] = pc[q] /\ reserved'[q] = reserved[q] /\ pending'[q] = pending[q]
  PROVE  /\ Counts(k, r)' = Counts(k, r) => Cardinality(Counting(k)') = Cardinality(Counting(k))
         /\ Counts(k, r)' /\ ~Counts(k, r)
              => Cardinality(Counting(k)') = Cardinality(Counting(k)) + 1
         /\ Counts(k, r) /\ ~Counts(k, r)'
              => Cardinality(Counting(k)) = Cardinality(Counting(k)') + 1
         /\ Reserves(k, r) \in Nat /\ Reserves(k, r)' \in Nat
         /\ Cardinality(Reserving(k)')
              = Cardinality(Reserving(k)) + (Reserves(k, r)' - Reserves(k, r))
         /\ Cardinality(Counting(k)) \in Nat /\ Cardinality(Counting(k)') \in Nat
         /\ Cardinality(Reserving(k)) \in Nat /\ Cardinality(Reserving(k)') \in Nat
<1>1. /\ r \in Counting(k) <=> Counts(k, r)
      /\ r \in Counting(k)' <=> Counts(k, r)'
      /\ Counting(k) \ {r} = Counting(k)' \ {r}
  BY DEF Counting, Counts
<1>2. IsFiniteSet(Counting(k))
  BY LedgerFinite
<1>3. /\ Counts(k, r)' = Counts(k, r) => Cardinality(Counting(k)') = Cardinality(Counting(k))
      /\ Counts(k, r)' /\ ~Counts(k, r)
           => Cardinality(Counting(k)') = Cardinality(Counting(k)) + 1
      /\ Counts(k, r) /\ ~Counts(k, r)'
           => Cardinality(Counting(k)) = Cardinality(Counting(k)') + 1
      /\ Cardinality(Counting(k)) \in Nat /\ Cardinality(Counting(k)') \in Nat
  BY <1>1, <1>2, SetChange
<1>. DEFINE h == [q \in Request |-> Reserves(k, q)]
            g == [q \in Request |-> Reserves(k, q)']
<1>4. 2 * MaxPart \in Nat
  BY StoreAssumption
<1>5. ASSUME NEW q \in Request
      PROVE  Reserves(k, q) \in 0..2 * MaxPart /\ Reserves(k, q)' \in 0..2 * MaxPart
  BY StoreAssumption DEF Reserves, TypeShape, StoreTypeOK
<1>6. \A q \in Request \ {r} : Reserves(k, q)' = Reserves(k, q)
  BY DEF Reserves
<1>. DEFINE M == 2 * MaxPart
<1>7. Cardinality(Bars(g, Request, M)) = Cardinality(Bars(h, Request, M)) + (g[r] - h[r])
  <2>1. M \in Nat
    BY <1>4
  <2>2. \A q \in Request : h[q] \in 0..M /\ g[q] \in 0..M
    BY <1>5
  <2>3. \A q \in Request \ {r} : g[q] = h[q]
    BY <1>6
  <2>4. IsFiniteSet(Request)
    BY StoreAssumption
  <2>. HIDE DEF h, g, M
  <2>. QED BY <2>1, <2>2, <2>3, <2>4, BarsChange
<1>8. Reserving(k) = Bars(h, Request, 2 * MaxPart)
  BY ReservingChart
<1>9. Reserving(k)' = Bars(g, Request, 2 * MaxPart)
  <2>1. Reserving(k)' = {u \in Request \X (1..2 * MaxPart) :
                           OwnerOf[u[1]] = k /\ pc'[u[1]] # "linked"
                           /\ u[2] <= reserved'[u[1]] + pending'[u[1]]}
    BY DEF Reserving
  <2>. QED BY <2>1, StoreAssumption DEF Reserves, Bars
<1>10. Cardinality(Reserving(k)) \in Nat /\ Cardinality(Reserving(k)') \in Nat
  BY <1>4, <1>8, <1>9, BarsFinite, StoreAssumption
<1>. QED BY <1>3, <1>5, <1>7, <1>8, <1>9, <1>10

\* The ledger balances for identity k.
Balanced(k) ==
  /\ files[k] = keptFiles[k] + Cardinality(Counting(k))
  /\ MaxBytes # 0 => bytes[k] = keptBytes[k] + Cardinality(Reserving(k))

LEMMA OthersUntouched ==
  ASSUME TypeShape, NEW r \in Request, StoreStep(r), NEW k \in Identity, OwnerOf[r] # k
  PROVE  /\ files'[k] = files[k] /\ keptFiles'[k] = keptFiles[k]
         /\ bytes'[k] = bytes[k] /\ keptBytes'[k] = keptBytes[k]
<1>. USE DEF TypeShape, StoreTypeOK
<1>1. CASE ReserveFile(r)
  BY <1>1 DEF ReserveFile
<1>2. CASE ReserveChunk(r)
  BY <1>2 DEF ReserveChunk
<1>3. CASE LinkFile(r)
  BY <1>3 DEF LinkFile
<1>4. CASE ReleaseUnwritten(r)
  BY <1>4 DEF ReleaseUnwritten
<1>5. CASE Refund(r)
  BY <1>5 DEF Refund
<1>6. CASE ReleaseFile(r)
  BY <1>6 DEF ReleaseFile
<1>7. CASE UNCHANGED quotaVars
  BY <1>7
<1>. QED
  BY <1>1, <1>2, <1>3, <1>4, <1>5, <1>6, <1>7
  DEF StoreStep, Cleanup, RejectName, RefuseFile, CreateTemp, CreateFails, RefuseChunk,
      WriteChunk, CopyFails, PartTooLarge, SyncTemp, LinkFails, RemoveTemp

LEMMA LedgerStep ==
  ASSUME TypeShape, TypeShape', RefundedOnce, NEW r \in Request, StoreStep(r),
         NEW k \in Identity, Balanced(k)
  PROVE  Balanced(k)'
<1>. DEFINE n == Cardinality(Counting(k))
            b == Cardinality(Reserving(k))
<1>1. \A q \in Request \ {r} :
        pc'[q] = pc[q] /\ reserved'[q] = reserved[q] /\ pending'[q] = pending[q]
  BY DEF TypeShape, StoreTypeOK, StoreStep, Cleanup, RejectName, ReserveFile, RefuseFile,
         CreateTemp, CreateFails, ReserveChunk, RefuseChunk, WriteChunk, CopyFails,
         PartTooLarge, SyncTemp, LinkFile, LinkFails, ReleaseUnwritten, Refund, RemoveTemp,
         ReleaseFile
<1>2. /\ n \in Nat /\ n' \in Nat /\ b \in Nat /\ b' \in Nat
      /\ Counts(k, r)' = Counts(k, r) => n' = n
      /\ Counts(k, r)' /\ ~Counts(k, r) => n' = n + 1
      /\ Counts(k, r) /\ ~Counts(k, r)' => n = n' + 1
      /\ Reserves(k, r) \in Nat /\ Reserves(k, r)' \in Nat
      /\ b' = b + (Reserves(k, r)' - Reserves(k, r))
  BY <1>1, LedgerMoves
<1>3. /\ files[k] = keptFiles[k] + n
      /\ MaxBytes # 0 => bytes[k] = keptBytes[k] + b
  BY DEF Balanced
<1>4. SUFFICES /\ files'[k] = keptFiles'[k] + n'
               /\ MaxBytes # 0 => bytes'[k] = keptBytes'[k] + b'
  BY DEF Balanced
<1>5. /\ files \in [Identity -> Nat] /\ keptFiles \in [Identity -> Nat]
      /\ bytes \in [Identity -> Nat] /\ keptBytes \in [Identity -> Nat]
      /\ reserved \in [Request -> 0..MaxPart] /\ pending \in [Request -> 0..MaxPart]
      /\ pc \in [Request -> PC] /\ OwnerOf[r] \in Identity /\ MaxPart \in Nat
  BY StoreAssumption DEF TypeShape, StoreTypeOK
<1>6. /\ pc[r] \notin {"write", "unwritten"} => pending[r] = 0
      /\ pc[r] \notin Holding => reserved[r] = 0
      /\ pc[r] = "discard" => reserved[r] = 0
  BY DEF TypeShape, StoreShape, OwnTemp, RefundedOnce
<1>. HIDE DEF n, b
<1>. DEFINE Goal == /\ files'[k] = keptFiles'[k] + n'
                    /\ MaxBytes # 0 => bytes'[k] = keptBytes'[k] + b'
<1>7. CASE OwnerOf[r] # k
  <2>1. /\ files'[k] = files[k] /\ keptFiles'[k] = keptFiles[k]
        /\ bytes'[k] = bytes[k] /\ keptBytes'[k] = keptBytes[k]
    BY <1>7, OthersUntouched
  <2>2. n' = n /\ b' = b
    BY <1>2, <1>7 DEF Counts, Reserves
  <2>. QED BY <1>3, <2>1, <2>2
<1>. SUFFICES ASSUME OwnerOf[r] = k PROVE Goal
  BY <1>7
<1>8. ASSUME UNCHANGED <<files, bytes, keptFiles, keptBytes>>,
             Counts(k, r)' = Counts(k, r), Reserves(k, r)' = Reserves(k, r)
      PROVE  Goal
  BY <1>2, <1>3, <1>5, <1>8
<1>9. CASE ReserveFile(r)
  <2>1. /\ files'[k] = files[k] + 1 /\ UNCHANGED <<keptFiles, bytes, keptBytes>>
        /\ Counts(k, r)' /\ ~Counts(k, r) /\ Reserves(k, r)' = Reserves(k, r)
    BY <1>5, <1>9 DEF ReserveFile, Counts, Reserves
  <2>. QED BY <1>2, <1>3, <1>5, <2>1
<1>10. CASE ReserveChunk(r)
  <2>1. PICK m \in 1..MaxPart :
          /\ bytes' = IF MaxBytes = 0 THEN bytes ELSE [bytes EXCEPT ![k] = @ + m]
          /\ pending' = [pending EXCEPT ![r] = m]
    BY <1>10 DEF ReserveChunk, Chunks
  <2>2. /\ UNCHANGED <<files, keptFiles, keptBytes, reserved>>
        /\ pc[r] = "copy" /\ pc' = [pc EXCEPT ![r] = "write"]
    BY <1>10 DEF ReserveChunk
  <2>3. Counts(k, r)' = Counts(k, r) /\ Reserves(k, r)' = Reserves(k, r) + m
    BY <1>5, <1>6, <2>1, <2>2 DEF Counts, Reserves
  <2>4. MaxBytes # 0 => bytes'[k] = bytes[k] + m
    BY <1>5, <2>1
  <2>. QED BY <1>2, <1>3, <1>5, <2>2, <2>3, <2>4
<1>11. CASE WriteChunk(r)
  <2>1. PICK m \in 0..pending[r] :
          /\ reserved' = [reserved EXCEPT ![r] = @ + m]
          /\ pending' = [pending EXCEPT ![r] = @ - m]
          /\ pc' = [pc EXCEPT ![r] = IF m = pending[r] THEN "copy" ELSE "unwritten"]
    BY <1>11 DEF WriteChunk
  <2>2. UNCHANGED quotaVars /\ pc[r] = "write"
    BY <1>11 DEF WriteChunk
  <2>3. Counts(k, r)' = Counts(k, r) /\ Reserves(k, r)' = Reserves(k, r)
    BY <1>5, <2>1, <2>2 DEF Counts, Reserves
  <2>. QED BY <1>8, <2>2, <2>3
<1>12. CASE LinkFile(r)
  <2>1. /\ UNCHANGED <<files, bytes>> /\ keptFiles'[k] = keptFiles[k] + 1
        /\ MaxBytes # 0 => keptBytes'[k] = keptBytes[k] + Reserves(k, r)
        /\ Counts(k, r) /\ ~Counts(k, r)' /\ Reserves(k, r)' = 0
    BY <1>5, <1>6, <1>12 DEF LinkFile, Counts, Reserves
  <2>. QED BY <1>2, <1>3, <1>5, <2>1
<1>13. CASE ReleaseUnwritten(r)
  <2>1. /\ UNCHANGED <<files, keptFiles, keptBytes, reserved>>
        /\ pc[r] = "unwritten" /\ pc' = [pc EXCEPT ![r] = "refund"]
        /\ pending' = [pending EXCEPT ![r] = 0]
        /\ MaxBytes # 0 => bytes'[k] = Lowered(bytes[k], pending[r])
    BY <1>5, <1>13 DEF ReleaseUnwritten
  <2>2. /\ Counts(k, r)' = Counts(k, r)
        /\ Reserves(k, r) = reserved[r] + pending[r] /\ Reserves(k, r)' = reserved[r]
    BY <1>5, <2>1 DEF Counts, Reserves
  <2>3. MaxBytes # 0 => bytes[k] - pending[r] = keptBytes[k] + b'
    BY <1>2, <1>3, <1>5, <2>2
  <2>. QED BY <1>2, <1>3, <1>5, <2>1, <2>2, <2>3 DEF Lowered
<1>14. CASE Refund(r)
  <2>1. /\ UNCHANGED <<files, keptFiles, keptBytes, pending>>
        /\ pc[r] = "refund" /\ pc' = [pc EXCEPT ![r] = "discard"]
        /\ reserved' = [reserved EXCEPT ![r] = 0]
        /\ MaxBytes # 0 => bytes'[k] = Lowered(bytes[k], reserved[r])
    BY <1>5, <1>14 DEF Refund
  <2>2. /\ Counts(k, r)' = Counts(k, r)
        /\ Reserves(k, r) = reserved[r] /\ Reserves(k, r)' = 0
    BY <1>5, <1>6, <2>1 DEF Counts, Reserves
  <2>3. MaxBytes # 0 => bytes[k] - reserved[r] = keptBytes[k] + b'
    BY <1>2, <1>3, <1>5, <2>2
  <2>. QED BY <1>2, <1>3, <1>5, <2>1, <2>2, <2>3 DEF Lowered
<1>15. CASE RemoveTemp(r)
  <2>1. /\ UNCHANGED <<quotaVars, pending>> /\ pc[r] \in {"linked", "discard"}
        /\ pc' = [pc EXCEPT ![r] = IF pc[r] = "linked" THEN "idle" ELSE "uncount"]
        /\ reserved' = [reserved EXCEPT ![r] = 0]
    BY <1>15 DEF RemoveTemp
  <2>2. Counts(k, r)' = Counts(k, r) /\ Reserves(k, r)' = Reserves(k, r)
    BY <1>5, <1>6, <2>1 DEF Counts, Reserves
  <2>. QED BY <1>8, <2>1, <2>2
<1>16. CASE ReleaseFile(r)
  <2>1. /\ UNCHANGED <<bytes, keptFiles, keptBytes, reserved, pending>>
        /\ pc[r] = "uncount" /\ pc' = [pc EXCEPT ![r] = "idle"]
        /\ files'[k] = Lowered(files[k], 1)
    BY <1>5, <1>16 DEF ReleaseFile
  <2>2. Counts(k, r) /\ ~Counts(k, r)' /\ Reserves(k, r)' = Reserves(k, r)
    BY <1>5, <2>1 DEF Counts, Reserves
  <2>. QED BY <1>2, <1>3, <1>5, <2>1, <2>2 DEF Lowered
<1>17. ASSUME UNCHANGED <<quotaVars, reserved, pending>>,
              \/ pc' = pc
              \/ /\ pc[r] \notin {"idle", "linked"}
                 /\ \E w \in PC \ {"idle", "linked"} : pc' = [pc EXCEPT ![r] = w]
       PROVE  Goal
  <2>1. Counts(k, r)' = Counts(k, r) /\ Reserves(k, r)' = Reserves(k, r)
    BY <1>5, <1>17 DEF Counts, Reserves
  <2>. QED BY <1>8, <1>17, <2>1
<1>. QED
  BY <1>9, <1>10, <1>11, <1>12, <1>13, <1>14, <1>15, <1>16, <1>17
  DEF StoreStep, Cleanup, PC, RejectName, RefuseFile, CreateTemp, CreateFails, RefuseChunk,
      CopyFails, PartTooLarge, SyncTemp, LinkFails

LEMMA RefundedOnceStep ==
  ASSUME TypeShape, RefundedOnce, [StoreNext]_storeVars
  PROVE  RefundedOnce'
<1>. USE DEF TypeShape, StoreTypeOK, RefundedOnce
<1>1. ASSUME NEW r \in Request, StoreStep(r) PROVE RefundedOnce'
  <2>1. CASE Refund(r)
    BY <2>1 DEF Refund
  <2>2. CASE WriteChunk(r)
    BY <2>2 DEF WriteChunk
  <2>3. CASE RemoveTemp(r)
    BY <2>3 DEF RemoveTemp
  <2>4. ASSUME UNCHANGED reserved,
               NEW w \in PC \ {"discard"}, pc' = pc \/ pc' = [pc EXCEPT ![r] = w]
        PROVE  RefundedOnce'
    BY <2>4
  <2>. QED
    BY <1>1, <2>1, <2>2, <2>3, <2>4
    DEF StoreStep, Cleanup, PC, RejectName, ReserveFile, RefuseFile, CreateTemp, CreateFails,
        ReserveChunk, RefuseChunk, CopyFails, PartTooLarge, SyncTemp, LinkFile, LinkFails,
        ReleaseUnwritten, ReleaseFile
<1>2. CASE Crash
  BY <1>2 DEF Crash
<1>3. CASE Restart \/ UNCHANGED storeVars
  BY <1>3 DEF Restart
<1>4. ASSUME NEW i \in Inode, Collect(i) PROVE RefundedOnce'
  BY <1>4 DEF Collect
<1>. QED BY <1>1, <1>2, <1>3, <1>4 DEF StoreNext

\* A request that does nothing holds nothing.
LEMMA IdleHoldsNothing ==
  ASSUME TypeShape, \A r \in Request : pc[r] = "idle"
  PROVE  \A k : /\ Counting(k) = {} /\ Cardinality(Counting(k)) = 0
                /\ Cardinality(Reserving(k)) = 0
<1>1. \A r \in Request : reserved[r] = 0 /\ pending[r] = 0
  BY DEF TypeShape, StoreShape, OwnTemp, Holding
<1>2. \A k : Counting(k) = {} /\ Reserving(k) = {}
  BY <1>1, StoreAssumption DEF Counting, Reserving
<1>. QED BY <1>2, FS_EmptySet

LedgerInv == LedgerExact /\ RefundedOnce

LEMMA LedgerBalance == LedgerExact <=> (up => \A k \in Identity : Balanced(k))
BY DEF LedgerExact, Balanced

\* Only a running process stores.
LEMMA StepIsUp == ASSUME TypeShape, NEW r \in Request, StoreStep(r) PROVE up
BY DEF TypeShape, StoreShape, StoreStep, Cleanup, RejectName, ReserveFile, RefuseFile,
       CreateTemp, CreateFails, ReserveChunk, RefuseChunk, WriteChunk, CopyFails, PartTooLarge,
       SyncTemp, LinkFile, LinkFails, ReleaseUnwritten, Refund, RemoveTemp, ReleaseFile

LEMMA LedgerInvStep ==
  ASSUME TypeShape, LedgerInv, [StoreNext]_storeVars
  PROVE  LedgerInv'
<1>1. RefundedOnce /\ RefundedOnce' /\ TypeShape'
  BY RefundedOnceStep, TypeShapeStep DEF LedgerInv
<1>2. up => \A k \in Identity : Balanced(k)
  BY LedgerBalance DEF LedgerInv
<1>3. SUFFICES ASSUME up', NEW k \in Identity PROVE Balanced(k)'
  BY <1>1 DEF LedgerInv, LedgerExact, Balanced
<1>4. ASSUME NEW r \in Request, StoreStep(r) PROVE Balanced(k)'
  <2>1. up
    BY <1>4, StepIsUp
  <2>. QED BY <1>1, <1>2, <1>4, <2>1, LedgerStep
<1>5. CASE Crash
  BY <1>3, <1>5 DEF Crash
<1>6. CASE Restart
  <2>1. \A r \in Request : pc[r] = "idle"
    BY <1>6 DEF Restart, TypeShape, StoreShape
  <2>2. Cardinality(Counting(k)) = 0 /\ Cardinality(Reserving(k)) = 0
    BY <2>1, IdleHoldsNothing
  <2>3. Counting(k)' = Counting(k) /\ Reserving(k)' = Reserving(k)
    BY <1>6 DEF Restart, Counting, Reserving
  <2>4. /\ keptFiles'[k] = files'[k] /\ keptBytes'[k] = bytes'[k]
        /\ files'[k] \in Nat /\ bytes'[k] \in Nat
    BY <1>1, <1>6 DEF Restart, TypeShape, StoreTypeOK
  <2>. QED BY <2>2, <2>3, <2>4 DEF Balanced
<1>7. CASE (\E i \in Inode : Collect(i)) \/ UNCHANGED storeVars
  <2>1. UNCHANGED <<up, files, bytes, keptFiles, keptBytes, pc, reserved, pending>>
    BY <1>7 DEF Collect
  <2>2. Counting(k)' = Counting(k) /\ Reserving(k)' = Reserving(k)
    BY <2>1 DEF Counting, Reserving
  <2>3. Balanced(k)
    BY <1>2, <1>3, <2>1
  <2>. QED BY <2>1, <2>2, <2>3 DEF Balanced
<1>. QED BY <1>4, <1>5, <1>6, <1>7 DEF StoreNext

\* The counters of storageQuota always equal what was found at startup or
\* published since plus what the running requests hold: no error, quota,
\* limit or panic path of storePart and quotaWriter (server.go:421-504)
\* leaks a reservation or returns one twice, and no clamp of limits.go:125-151
\* hides a difference.
THEOREM LedgerAlwaysExact == StoreSpec => []LedgerExact
<1>1. StoreInit => LedgerInv
  <2>. SUFFICES ASSUME StoreInit PROVE LedgerInv
    OBVIOUS
  <2>1. \A k : Cardinality(Counting(k)) = 0 /\ Cardinality(Reserving(k)) = 0
    BY TypeShapeInit, IdleHoldsNothing DEF StoreInit
  <2>2. \A k \in Identity : files[k] = 0 /\ keptFiles[k] = 0 /\ bytes[k] = 0 /\ keptBytes[k] = 0
    BY DEF StoreInit
  <2>. QED BY <2>1, <2>2 DEF LedgerInv, LedgerExact, RefundedOnce, StoreInit
<1>2. TypeShape /\ LedgerInv /\ [StoreNext]_storeVars => LedgerInv'
  BY LedgerInvStep
<1>3. StoreSpec => []LedgerInv
  BY <1>1, <1>2, TypeShapeInvariant, PTL DEF StoreSpec
<1>. QED BY <1>3, PTL DEF LedgerInv

-----------------------------------------------------------------------------
(* Bytes on disk.  A byte is charged from before it is written until after *)
(* it is given back; each step changes what one inode weighs and what one  *)
(* request still has to write.                                             *)

\* What inode i adds to the bytes of k that must be charged.
Weighs(k, i) ==
  IF i \in temp \cup final /\ i \notin Refunded(k) /\ inode[i].owner = k THEN inode[i].size ELSE 0

Owes(k, r) == IF OwnerOf[r] = k THEN pending[r] ELSE 0

OnDiskUnits(k) == Units((temp \cup final) \ Refunded(k), k)

Charted ==
  \A k \in Identity :
    /\ OnDiskUnits(k) = Bars([i \in Inode |-> Weighs(k, i)], Inode, MaxPart)
    /\ Unwritten(k) = Bars([r \in Request |-> Owes(k, r)], Request, MaxPart)

LEMMA CoverCharts == StoreTypeOK => Charted
<1>. SUFFICES ASSUME StoreTypeOK, NEW k \in Identity
              PROVE  /\ OnDiskUnits(k) = Bars([i \in Inode |-> Weighs(k, i)], Inode, MaxPart)
                     /\ Unwritten(k) = Bars([r \in Request |-> Owes(k, r)], Request, MaxPart)
  BY DEF Charted
<1>1. ASSUME NEW u
      PROVE  u \in OnDiskUnits(k) <=> u \in Bars([i \in Inode |-> Weighs(k, i)], Inode, MaxPart)
  <2>1. u \in OnDiskUnits(k) <=>
          \E i \in Inode, m \in 1..MaxPart :
            /\ u = <<i, m>> /\ i \in temp \cup final /\ i \notin Refunded(k)
            /\ inode[i].owner = k /\ m <= inode[i].size
    BY DEF OnDiskUnits, Units, StoreTypeOK
  <2>2. u \in Bars([i \in Inode |-> Weighs(k, i)], Inode, MaxPart) <=>
          \E i \in Inode, m \in 1..MaxPart : u = <<i, m>> /\ m <= Weighs(k, i)
    BY DEF Bars
  <2>3. \A i \in Inode, m \in 1..MaxPart :
          m <= Weighs(k, i) <=> /\ i \in temp \cup final /\ i \notin Refunded(k)
                                /\ inode[i].owner = k /\ m <= inode[i].size
    BY StoreAssumption DEF Weighs
  <2>. QED BY <2>1, <2>2, <2>3
<1>2. Unwritten(k) = Bars([r \in Request |-> Owes(k, r)], Request, MaxPart)
  BY StoreAssumption DEF Unwritten, Owes, Bars
<1>. QED BY <1>1, <1>2

CoverNat ==
  \A k \in Identity :
    Cardinality(OnDiskUnits(k)) \in Nat /\ Cardinality(Unwritten(k)) \in Nat

LEMMA CoverFinite == StoreTypeOK => CoverNat
BY CoverCharts, BarsFinite, StoreAssumption DEF Charted, CoverNat

\* The weight of one inode changes.
LEMMA DiskMoves ==
  ASSUME StoreTypeOK, StoreTypeOK', NEW k \in Identity, NEW j \in Inode,
         \A i \in Inode \ {j} : Weighs(k, i)' = Weighs(k, i)
  PROVE  /\ Cardinality(OnDiskUnits(k)) \in Nat /\ Cardinality(OnDiskUnits(k)') \in Nat
         /\ Cardinality(OnDiskUnits(k)')
              = Cardinality(OnDiskUnits(k)) + (Weighs(k, j)' - Weighs(k, j))
<1>. DEFINE w == [i \in Inode |-> Weighs(k, i)]
            v == [i \in Inode |-> Weighs(k, i)']
<1>1. \A i \in Inode : w[i] \in 0..MaxPart /\ v[i] \in 0..MaxPart
  BY StoreAssumption DEF Weighs, StoreTypeOK
<1>2. \A i \in Inode \ {j} : v[i] = w[i]
  OBVIOUS
<1>3. OnDiskUnits(k) = Bars(w, Inode, MaxPart)
  BY CoverCharts DEF Charted
<1>4. OnDiskUnits(k)' = Bars(v, Inode, MaxPart)
  <2>1. (StoreTypeOK => Charted)'
    BY CoverCharts, PTL
  <2>. QED BY <2>1 DEF Charted
<1>5. w[j] = Weighs(k, j) /\ v[j] = Weighs(k, j)'
  OBVIOUS
<1>6. IsFiniteSet(Inode) /\ MaxPart \in Nat
  BY StoreAssumption
<1>. HIDE DEF w, v
<1>7. /\ Cardinality(Bars(v, Inode, MaxPart)) = Cardinality(Bars(w, Inode, MaxPart)) + (v[j] - w[j])
      /\ Cardinality(Bars(w, Inode, MaxPart)) \in Nat /\ Cardinality(Bars(v, Inode, MaxPart)) \in Nat
  BY <1>1, <1>2, <1>6, BarsChange, BarsFinite
<1>. QED BY <1>3, <1>4, <1>5, <1>7

\* The weight of no inode changes.
LEMMA DiskStays ==
  ASSUME StoreTypeOK, StoreTypeOK', NEW k \in Identity,
         \A i \in Inode : Weighs(k, i)' = Weighs(k, i)
  PROVE  OnDiskUnits(k)' = OnDiskUnits(k)
<1>1. OnDiskUnits(k) = Bars([i \in Inode |-> Weighs(k, i)], Inode, MaxPart)
  BY CoverCharts DEF Charted
<1>2. (StoreTypeOK => Charted)'
  BY CoverCharts, PTL
<1>3. OnDiskUnits(k)' = Bars([i \in Inode |-> Weighs(k, i)'], Inode, MaxPart)
  BY <1>2 DEF Charted
<1>. QED BY <1>1, <1>3

\* The debt of one request changes.
LEMMA DebtMoves ==
  ASSUME StoreTypeOK, StoreTypeOK', NEW k \in Identity, NEW r \in Request,
         \A q \in Request \ {r} : pending'[q] = pending[q]
  PROVE  /\ Cardinality(Unwritten(k)) \in Nat /\ Cardinality(Unwritten(k)') \in Nat
         /\ Cardinality(Unwritten(k)')
              = Cardinality(Unwritten(k)) + (Owes(k, r)' - Owes(k, r))
<1>. DEFINE o == [q \in Request |-> Owes(k, q)]
            p == [q \in Request |-> Owes(k, q)']
<1>1. \A q \in Request : o[q] \in 0..MaxPart /\ p[q] \in 0..MaxPart
  BY StoreAssumption DEF Owes, StoreTypeOK
<1>2. \A q \in Request \ {r} : p[q] = o[q]
  BY DEF Owes
<1>3. Unwritten(k) = Bars(o, Request, MaxPart)
  BY CoverCharts DEF Charted
<1>4. Unwritten(k)' = Bars(p, Request, MaxPart)
  <2>1. (StoreTypeOK => Charted)'
    BY CoverCharts, PTL
  <2>. QED BY <2>1 DEF Charted
<1>5. o[r] = Owes(k, r) /\ p[r] = Owes(k, r)'
  OBVIOUS
<1>6. IsFiniteSet(Request) /\ MaxPart \in Nat
  BY StoreAssumption
<1>. HIDE DEF o, p
<1>7. /\ Cardinality(Bars(p, Request, MaxPart)) = Cardinality(Bars(o, Request, MaxPart)) + (p[r] - o[r])
      /\ Cardinality(Bars(o, Request, MaxPart)) \in Nat /\ Cardinality(Bars(p, Request, MaxPart)) \in Nat
  BY <1>1, <1>2, <1>6, BarsChange, BarsFinite
<1>. QED BY <1>3, <1>4, <1>5, <1>7

\* Identity k is charged for what it has on disk.
Covered(k) == Cardinality(OnDiskUnits(k)) + Cardinality(Unwritten(k)) <= bytes[k]

LEMMA CoverStep ==
  ASSUME ~RemoveMayFail, MaxBytes # 0, TypeShape, TypeShape',
         NEW r \in Request, StoreStep(r), NEW k \in Identity, Covered(k)
  PROVE  Covered(k)'
<1>. DEFINE d == Cardinality(OnDiskUnits(k))
            u == Cardinality(Unwritten(k))
<1>1. StoreTypeOK /\ StoreTypeOK' /\ StoreShape
  BY DEF TypeShape
<1>2. /\ bytes \in [Identity -> Nat] /\ OwnerOf[r] \in Identity /\ MaxPart \in Nat
      /\ inode \in [Inode -> [owner : Identity \cup {None}, size : 0..MaxPart, want : 0..MaxPart]]
      /\ temp \subseteq Inode /\ final \subseteq Inode
      /\ reserved \in [Request -> 0..MaxPart] /\ pending \in [Request -> 0..MaxPart]
      /\ pc \in [Request -> PC] /\ ino \in [Request -> Inode \cup {None}]
      /\ None \notin Identity /\ None \notin Inode
  BY <1>1, StoreAssumption DEF StoreTypeOK
<1>3. /\ pc[r] \in Holding => /\ ino[r] \in temp /\ inode[ino[r]].owner = OwnerOf[r]
                              /\ pc[r] # "linked" => ino[r] \notin final
                              /\ pc[r] # "discard" => reserved[r] = inode[ino[r]].size
                              /\ inode[ino[r]].size + pending[r] <= inode[ino[r]].want
      /\ pc[r] \notin {"write", "unwritten"} => pending[r] = 0
      /\ \A q \in Request : ino[r] = ino[q] /\ ino[r] # None => r = q
      /\ \A q \in Request : pc[q] = "discard" => ino[q] \in temp
  BY <1>1 DEF StoreShape, OwnTemp, Holding
<1>4. d + u <= bytes[k]
  BY DEF Covered
<1>5. SUFFICES d' + u' <= bytes'[k]
  BY DEF Covered
<1>6. d \in Nat /\ d' \in Nat /\ u \in Nat /\ u' \in Nat
  <2>1. (StoreTypeOK => CoverNat)'
    BY CoverFinite, PTL
  <2>. QED BY <1>1, <2>1, CoverFinite DEF CoverNat
<1>7. \A i : i \in Refunded(k) <=> \E q \in Request : OwnerOf[q] = k /\ pc[q] = "discard" /\ i = ino[q]
  BY DEF Refunded
<1>8. \A i : i \in Refunded(k)' <=>
               \E q \in Request : OwnerOf[q] = k /\ pc'[q] = "discard" /\ i = ino'[q]
  BY DEF Refunded
\* Steps that leave weights and debts alone.
<1>9. ASSUME \A i \in Inode : Weighs(k, i)' = Weighs(k, i),
             UNCHANGED <<pending, bytes>>
      PROVE  d' + u' <= bytes'[k]
  <2>1. OnDiskUnits(k)' = OnDiskUnits(k)
    BY <1>1, <1>9, DiskStays
  <2>2. Unwritten(k)' = Unwritten(k)
    BY <1>9 DEF Unwritten
  <2>. QED BY <1>4, <1>9, <2>1, <2>2
<1>. HIDE DEF d, u
<1>10. CASE CreateTemp(r)
  <2>1. PICK j \in Inode \ (temp \cup final), n \in 0..MaxPart :
          /\ temp' = temp \cup {j}
          /\ inode' = [inode EXCEPT ![j] = [owner |-> OwnerOf[r], size |-> 0, want |-> n]]
          /\ ino' = [ino EXCEPT ![r] = j]
    BY <1>10 DEF CreateTemp
  <2>2. /\ pc[r] = "create" /\ pc' = [pc EXCEPT ![r] = "copy"]
        /\ UNCHANGED <<quotaVars, final, pending>>
    BY <1>10 DEF CreateTemp
  <2>3. \A i : i \in Refunded(k)' <=> i \in Refunded(k)
    BY <1>2, <1>7, <1>8, <2>1, <2>2
  <2>4. \A i \in Inode : Weighs(k, i)' = Weighs(k, i)
    BY <1>2, <2>1, <2>2, <2>3 DEF Weighs
  <2>. QED BY <1>9, <2>2, <2>4
<1>11. CASE ReserveChunk(r)
  <2>1. PICK m \in 1..MaxPart :
          /\ bytes' = [bytes EXCEPT ![OwnerOf[r]] = @ + m]
          /\ pending' = [pending EXCEPT ![r] = m]
    BY <1>11 DEF ReserveChunk, Chunks
  <2>2. /\ pc[r] = "copy" /\ pc' = [pc EXCEPT ![r] = "write"] /\ UNCHANGED <<diskVars, ino>>
    BY <1>11 DEF ReserveChunk
  <2>3. \A i : i \in Refunded(k)' <=> i \in Refunded(k)
    BY <1>2, <1>7, <1>8, <2>2
  <2>4. d' = d
    <3>1. \A i \in Inode : Weighs(k, i)' = Weighs(k, i)
      BY <2>2, <2>3 DEF Weighs
    <3>. QED BY <1>1, <3>1, DiskStays DEF d
  <2>5. u' = u + (Owes(k, r)' - Owes(k, r))
    BY <1>1, <1>2, <2>1, DebtMoves DEF u
  <2>6. bytes'[k] = bytes[k] + (Owes(k, r)' - Owes(k, r)) /\ Owes(k, r)' - Owes(k, r) \in Nat
    BY <1>2, <1>3, <2>1, <2>2 DEF Owes
  <2>. QED BY <1>2, <1>4, <1>6, <2>4, <2>5, <2>6
<1>12. CASE WriteChunk(r)
  <2>1. PICK m \in 0..pending[r] :
          /\ inode' = [inode EXCEPT ![ino[r]].size = @ + m]
          /\ pending' = [pending EXCEPT ![r] = @ - m]
          /\ pc' = [pc EXCEPT ![r] = IF m = pending[r] THEN "copy" ELSE "unwritten"]
    BY <1>12 DEF WriteChunk
  <2>2. pc[r] = "write" /\ UNCHANGED <<quotaVars, temp, final, ino>>
    BY <1>12 DEF WriteChunk
  <2>3. ino[r] \in temp /\ inode[ino[r]].owner = OwnerOf[r]
    BY <1>3, <2>2 DEF Holding
  <2>0. PICK j \in Inode : j = ino[r]
    BY <1>2, <2>3
  <2>4. \A i : i \in Refunded(k)' <=> i \in Refunded(k)
    BY <2>0, <1>2, <1>7, <1>8, <2>1, <2>2
  <2>5. j \notin Refunded(k)
    BY <2>0, <1>2, <1>3, <1>7, <2>2, <2>3
  <2>6. \A i \in Inode \ {j} : Weighs(k, i)' = Weighs(k, i)
    BY <2>0, <1>2, <2>1, <2>2, <2>4 DEF Weighs
  <2>7. /\ Weighs(k, j)' - Weighs(k, j) = IF OwnerOf[r] = k THEN m ELSE 0
        /\ Owes(k, r)' - Owes(k, r) = IF OwnerOf[r] = k THEN -m ELSE 0
    BY <2>0, <1>2, <2>1, <2>2, <2>3, <2>4, <2>5 DEF Weighs, Owes
  <2>8. d' = d + (Weighs(k, j)' - Weighs(k, j))
    BY <2>0, <1>1, <1>2, <2>3, <2>6, DiskMoves DEF d
  <2>9. u' = u + (Owes(k, r)' - Owes(k, r))
    BY <2>0, <1>1, <1>2, <2>1, DebtMoves DEF u
  <2>. QED BY <2>0, <1>2, <1>4, <1>6, <2>2, <2>7, <2>8, <2>9
<1>13. CASE ReleaseUnwritten(r)
  <2>1. /\ pc[r] = "unwritten" /\ pc' = [pc EXCEPT ![r] = "refund"] /\ UNCHANGED <<diskVars, ino>>
        /\ pending' = [pending EXCEPT ![r] = 0]
        /\ bytes' = [bytes EXCEPT ![OwnerOf[r]] = Lowered(@, pending[r])]
    BY <1>13 DEF ReleaseUnwritten
  <2>2. \A i : i \in Refunded(k)' <=> i \in Refunded(k)
    BY <1>2, <1>7, <1>8, <2>1
  <2>3. d' = d
    <3>1. \A i \in Inode : Weighs(k, i)' = Weighs(k, i)
      BY <2>1, <2>2 DEF Weighs
    <3>. QED BY <1>1, <3>1, DiskStays DEF d
  <2>4. u' = u + (Owes(k, r)' - Owes(k, r))
    BY <1>1, <1>2, <2>1, DebtMoves DEF u
  <2>5. /\ Owes(k, r)' - Owes(k, r) \in Int
        /\ bytes'[k] >= bytes[k] + (Owes(k, r)' - Owes(k, r))
    BY <1>2, <2>1 DEF Owes, Lowered
  <2>6. bytes[k] \in Nat /\ bytes'[k] \in Nat
    BY <1>1 DEF StoreTypeOK
  <2>. QED BY <1>4, <1>6, <2>3, <2>4, <2>5, <2>6
<1>14. CASE Refund(r)
  <2>1. /\ pc[r] = "refund" /\ pc' = [pc EXCEPT ![r] = "discard"]
        /\ UNCHANGED <<diskVars, ino, pending>>
        /\ bytes' = [bytes EXCEPT ![OwnerOf[r]] = Lowered(@, reserved[r])]
    BY <1>14 DEF Refund
  <2>2. /\ ino[r] \in temp /\ inode[ino[r]].owner = OwnerOf[r] /\ ino[r] \notin final
        /\ reserved[r] = inode[ino[r]].size
    BY <1>3, <2>1 DEF Holding
  <2>0. PICK j \in Inode : j = ino[r]
    BY <1>2, <2>2
  <2>3. \A i : i \in Refunded(k)' <=> i \in Refunded(k) \/ (OwnerOf[r] = k /\ i = j)
    BY <2>0, <1>2, <1>7, <1>8, <2>1
  <2>4. j \notin Refunded(k)
    BY <2>0, <1>2, <1>3, <1>7, <2>1, <2>2
  <2>5. \A i \in Inode \ {j} : Weighs(k, i)' = Weighs(k, i)
    BY <2>0, <2>1, <2>3 DEF Weighs
  <2>6. Weighs(k, j)' - Weighs(k, j) = IF OwnerOf[r] = k THEN -reserved[r] ELSE 0
    BY <2>0, <1>2, <2>1, <2>2, <2>3, <2>4 DEF Weighs
  <2>7. d' = d + (Weighs(k, j)' - Weighs(k, j))
    BY <2>0, <1>1, <1>2, <2>2, <2>5, DiskMoves DEF d
  <2>8. u' = u
    BY <2>0, <2>1 DEF u, Unwritten
  <2>9. bytes'[k] >= bytes[k] + (IF OwnerOf[r] = k THEN -reserved[r] ELSE 0)
    BY <2>0, <1>2, <2>1 DEF Lowered
  <2>10. bytes[k] \in Nat /\ bytes'[k] \in Nat /\ reserved[r] \in Nat
    BY <2>0, <1>1 DEF StoreTypeOK
  <2>. QED BY <2>0, <1>4, <1>6, <2>6, <2>7, <2>8, <2>9, <2>10
<1>15. CASE RemoveTemp(r)
  <2>1. /\ pc[r] \in {"linked", "discard"} /\ UNCHANGED <<quotaVars, final, pending>>
        /\ pc' = [pc EXCEPT ![r] = IF pc[r] = "linked" THEN "idle" ELSE "uncount"]
        /\ ino' = [ino EXCEPT ![r] = None]
        /\ temp' = temp \ {ino[r]}
        /\ inode' = [inode EXCEPT ![ino[r]] = IF ino[r] \in final THEN @ ELSE Free]
    BY <1>15 DEF RemoveTemp
  <2>2. ino[r] \in temp /\ inode[ino[r]].owner = OwnerOf[r]
    BY <1>3, <2>1 DEF Holding
  <2>0. PICK j \in Inode : j = ino[r]
    BY <1>2, <2>2
  <2>3. \A i : i # j => (i \in Refunded(k)' <=> i \in Refunded(k))
    BY <2>0, <1>2, <1>7, <1>8, <2>1
  <2>4. \A i \in Inode \ {j} : Weighs(k, i)' = Weighs(k, i)
    BY <2>0, <1>2, <2>1, <2>3 DEF Weighs
  <2>5. Weighs(k, j)' <= Weighs(k, j)
    <3>1. CASE j \notin final
      BY <2>0, <1>2, <2>1, <2>2, <3>1 DEF Weighs
    <3>2. CASE j \in final
      <4>1. pc[r] = "linked"
        BY <2>0, <1>3, <2>1, <3>2 DEF Holding
      <4>2. j \notin Refunded(k)
        BY <2>0, <1>2, <1>3, <1>7, <2>2, <4>1
      <4>. QED BY <2>0, <1>2, <2>1, <2>2, <3>2, <4>2 DEF Weighs
    <3>. QED BY <2>0, <3>1, <3>2
  <2>6. /\ d' = d + (Weighs(k, j)' - Weighs(k, j))
        /\ Weighs(k, j) \in Nat /\ Weighs(k, j)' \in Nat
    <3>1. Weighs(k, j) \in Nat /\ Weighs(k, j)' \in Nat
      BY <2>0, <1>1, <2>2 DEF Weighs, StoreTypeOK
    <3>. QED BY <2>0, <1>1, <1>2, <2>2, <2>4, <3>1, DiskMoves DEF d
  <2>7. u' = u
    BY <2>0, <2>1 DEF u, Unwritten
  <2>. QED BY <2>0, <1>2, <1>4, <1>6, <2>1, <2>5, <2>6, <2>7
<1>16. ASSUME UNCHANGED <<bytes, temp \cup final, inode, ino, pending>>,
              \/ pc' = pc
              \/ pc[r] # "discard" /\ \E w \in PC \ {"discard"} : pc' = [pc EXCEPT ![r] = w]
       PROVE  d' + u' <= bytes'[k]
  <2>1. \A i : i \in Refunded(k)' <=> i \in Refunded(k)
    BY <1>2, <1>7, <1>8, <1>16
  <2>2. \A i \in Inode : Weighs(k, i)' = Weighs(k, i)
    BY <1>16, <2>1 DEF Weighs
  <2>. QED BY <1>9, <1>16, <2>2
<1>17. CASE LinkFile(r)
  <2>1. temp' \cup final' = temp \cup final
    BY <1>3, <1>17 DEF LinkFile, Holding
  <2>. QED BY <1>16, <1>17, <2>1 DEF LinkFile, PC
<1>. QED
  BY <1>10, <1>11, <1>12, <1>13, <1>14, <1>15, <1>16, <1>17
  DEF StoreStep, Cleanup, PC, RejectName, ReserveFile, RefuseFile, CreateFails, RefuseChunk,
      CopyFails, PartTooLarge, SyncTemp, LinkFails, ReleaseFile

LEMMA CoverRestart ==
  ASSUME TypeShape, MaxBytes # 0, Restart, NEW k \in Identity
  PROVE  Covered(k)'
<1>1. \A r \in Request : pc[r] = "idle" /\ pending[r] = 0
  BY DEF TypeShape, StoreShape, Restart
<1>2. Refunded(k)' = {} /\ Unwritten(k)' = {}
  BY <1>1, StoreAssumption DEF Refunded, Unwritten, Restart
<1>3. OnDiskUnits(k)' = Units(temp, k) \cup Units(final, k)
  BY <1>2 DEF OnDiskUnits, Units, Restart
<1>4. IsFiniteSet(Units(temp, k)) /\ IsFiniteSet(Units(final, k))
  BY DiskFinite DEF TypeShape, StoreTypeOK
<1>5. /\ Cardinality(OnDiskUnits(k)') \in Nat
      /\ Cardinality(OnDiskUnits(k)') <= Cardinality(Units(temp, k)) + Cardinality(Units(final, k))
  BY <1>3, <1>4, UnionAtMost
<1>6. Cardinality(Unwritten(k)') = 0
  BY <1>2, FS_EmptySet
<1>7. bytes'[k] = Cardinality(Units(temp, k)) + Cardinality(Units(final, k))
  BY DEF Restart
<1>. QED BY <1>5, <1>6, <1>7 DEF Covered

LEMMA CoverCollect ==
  ASSUME TypeShape, TypeShape', NEW i \in Inode, Collect(i), NEW k \in Identity, Covered(k)
  PROVE  Covered(k)'
<1>1. StoreTypeOK /\ StoreTypeOK'
  BY DEF TypeShape
<1>2. /\ final' = final \ {i} /\ UNCHANGED <<temp, bytes, pc, ino, pending>>
      /\ inode' = [inode EXCEPT ![i] = IF i \in temp THEN @ ELSE Free]
  BY DEF Collect
<1>3. Refunded(k)' = Refunded(k) /\ Unwritten(k)' = Unwritten(k)
  BY <1>2 DEF Refunded, Unwritten
<1>4. \A j \in Inode \ {i} : Weighs(k, j)' = Weighs(k, j)
  BY <1>1, <1>2, <1>3 DEF Weighs, StoreTypeOK
<1>5. Weighs(k, i) \in Nat /\ Weighs(k, i)' \in Nat /\ Weighs(k, i)' <= Weighs(k, i)
  <2>1. Weighs(k, i) \in Nat /\ Weighs(k, i)' \in Nat
    BY <1>1 DEF Weighs, StoreTypeOK
  <2>2. Weighs(k, i)' = Weighs(k, i) \/ Weighs(k, i)' = 0
    BY <1>1, <1>2, <1>3 DEF Weighs, StoreTypeOK
  <2>. QED BY <2>1, <2>2
<1>6. /\ Cardinality(OnDiskUnits(k)) \in Nat /\ Cardinality(OnDiskUnits(k)') \in Nat
      /\ Cardinality(OnDiskUnits(k)')
           = Cardinality(OnDiskUnits(k)) + (Weighs(k, i)' - Weighs(k, i))
  BY <1>1, <1>4, DiskMoves
<1>7. Cardinality(Unwritten(k)) \in Nat /\ bytes[k] \in Nat
  BY <1>1, CoverFinite DEF CoverNat, StoreTypeOK
<1>. QED BY <1>2, <1>3, <1>5, <1>6, <1>7 DEF Covered

LEMMA CoveredForAll ==
  BytesCovered <=> ((up /\ MaxBytes # 0) => \A k \in Identity : Covered(k))
BY DEF BytesCovered, Covered, OnDiskUnits

LEMMA BytesCoveredStep ==
  ASSUME ~RemoveMayFail, TypeShape, BytesCovered, [StoreNext]_storeVars
  PROVE  BytesCovered'
<1>1. TypeShape'
  BY TypeShapeStep
<1>2. SUFFICES ASSUME up', MaxBytes # 0, NEW k \in Identity PROVE Covered(k)'
  BY DEF BytesCovered, Covered, OnDiskUnits
<1>3. up => Covered(k)
  BY <1>2, CoveredForAll
<1>4. ASSUME NEW r \in Request, StoreStep(r) PROVE Covered(k)'
  <2>1. up
    BY <1>4, StepIsUp
  <2>. QED BY <1>1, <1>2, <1>3, <1>4, <2>1, CoverStep
<1>5. CASE Crash
  BY <1>2, <1>5 DEF Crash
<1>6. CASE Restart
  BY <1>2, <1>6, CoverRestart
<1>7. ASSUME NEW i \in Inode, Collect(i) PROVE Covered(k)'
  <2>1. up
    BY <1>2, <1>7 DEF Collect
  <2>. QED BY <1>1, <1>3, <1>7, <2>1, CoverCollect
<1>8. CASE UNCHANGED storeVars
  <2>1. up
    BY <1>2, <1>8
  <2>2. /\ OnDiskUnits(k)' = OnDiskUnits(k) /\ Unwritten(k)' = Unwritten(k)
        /\ bytes'[k] = bytes[k]
    BY <1>8 DEF OnDiskUnits, Units, Refunded, Unwritten
  <2>. QED BY <1>3, <2>1, <2>2 DEF Covered
<1>. QED BY <1>4, <1>5, <1>6, <1>7, <1>8 DEF StoreNext

LEMMA BytesCoveredInvariant ==
  ASSUME ~RemoveMayFail PROVE StoreSpec => []BytesCovered
<1>1. StoreInit => BytesCovered
  <2>. SUFFICES ASSUME StoreInit, NEW k \in Identity PROVE Covered(k)
    BY CoveredForAll
  <2>1. OnDiskUnits(k) = {} /\ Unwritten(k) = {} /\ bytes[k] = 0
    BY StoreAssumption DEF StoreInit, OnDiskUnits, Units, Unwritten
  <2>. QED BY <2>1, FS_EmptySet DEF Covered
<1>2. TypeShape /\ BytesCovered /\ [StoreNext]_storeVars => BytesCovered'
  BY BytesCoveredStep
<1>. QED BY <1>1, <1>2, TypeShapeInvariant, PTL DEF StoreSpec

\* What an identity has on disk beyond its charge is at most what its files in
\* the window Refunded hold: with no request of its own between the two
\* deferred functions, everything is charged.
UnchargedIsRefunded ==
  (up /\ MaxBytes # 0) => \A k \in Identity :
    Cardinality(Units(temp \cup final, k)) <= bytes[k] + Cardinality(Units(Refunded(k), k))

LEMMA UnchargedBounded ==
  TypeShape /\ DiskBytesCharged => UnchargedIsRefunded
<1>. SUFFICES ASSUME TypeShape, DiskBytesCharged, up, MaxBytes # 0, NEW k \in Identity
              PROVE  Cardinality(Units(temp \cup final, k))
                       <= bytes[k] + Cardinality(Units(Refunded(k), k))
  BY DEF UnchargedIsRefunded
<1>. DEFINE all   == Units(temp \cup final, k)
            sure  == Units((temp \cup final) \ Refunded(k), k)
            loose == Units(Refunded(k), k)
<1>1. Cardinality(sure) <= bytes[k] /\ bytes[k] \in Nat
  BY DEF DiskBytesCharged, TypeShape, StoreTypeOK
<1>2. all \subseteq sure \cup loose
  BY DEF Units
<1>3. Refunded(k) \subseteq temp
  BY DEF Refunded, TypeShape, StoreShape, OwnTemp, Holding
<1>4. /\ IsFiniteSet(sure) /\ Cardinality(sure) \in Nat
      /\ IsFiniteSet(loose) /\ Cardinality(loose) \in Nat
  <2>1. temp \subseteq Inode /\ final \subseteq Inode
    BY DEF TypeShape, StoreTypeOK
  <2>2. IsFiniteSet(Inode \X (1..MaxPart))
    <3>1. IsFiniteSet(1..MaxPart)
      BY StoreAssumption, FS_Interval
    <3>. QED BY <3>1, StoreAssumption, FS_Product
  <2>3. sure \subseteq Inode \X (1..MaxPart) /\ loose \subseteq Inode \X (1..MaxPart)
    BY <1>3, <2>1 DEF Units
  <2>. QED BY <2>2, <2>3, FS_Subset, FS_CardinalityType
<1>. HIDE DEF all, sure, loose
<1>5. IsFiniteSet(sure \cup loose) /\ Cardinality(sure \cup loose) \in Nat
      /\ Cardinality(sure \cup loose) <= Cardinality(sure) + Cardinality(loose)
  <2>1. IsFiniteSet(sure \cap loose)
    BY <1>4, FS_Intersection
  <2>2. Cardinality(sure \cap loose) \in Nat
    BY <2>1, FS_CardinalityType
  <2>3. /\ IsFiniteSet(sure \cup loose)
        /\ Cardinality(sure \cup loose)
             = Cardinality(sure) + Cardinality(loose) - Cardinality(sure \cap loose)
    BY <1>4, FS_Union
  <2>4. Cardinality(sure \cup loose) \in Nat
    BY <2>3, FS_CardinalityType
  <2>. QED BY <1>4, <2>2, <2>3, <2>4
<1>6. Cardinality(all) <= Cardinality(sure \cup loose) /\ Cardinality(all) \in Nat
  BY <1>2, <1>5, FS_Subset, FS_CardinalityType
<1>7. Cardinality(all) <= bytes[k] + Cardinality(loose)
  BY <1>1, <1>4, <1>5, <1>6
<1>. QED BY <1>7 DEF all, loose

\* While the process runs, with the byte limit on and provided that os.Remove
\* does not fail, over any interleaving, crash and restart: the bytes on disk
\* are charged to their identity except those of the files between the two
\* deferred functions that give the bytes back and remove the file
\* (server.go:458-470), and what is uncharged is no more than those files
\* hold.  In that window bytes do go uncharged: StorageWithinLimit fails of it.
THEOREM ChargedOutsideRefund ==
  ASSUME ~RemoveMayFail PROVE StoreSpec => [](DiskBytesCharged /\ UnchargedIsRefunded)
<1>1. TypeShape /\ BytesCovered => DiskBytesCharged
  <2>. SUFFICES ASSUME TypeShape, BytesCovered, up, MaxBytes # 0, NEW k \in Identity
                PROVE  Cardinality(OnDiskUnits(k)) <= bytes[k]
    BY DEF DiskBytesCharged, OnDiskUnits
  <2>1. Covered(k)
    BY CoveredForAll
  <2>2. /\ Cardinality(OnDiskUnits(k)) \in Nat /\ Cardinality(Unwritten(k)) \in Nat
        /\ bytes[k] \in Nat
    BY CoverFinite DEF CoverNat, TypeShape, StoreTypeOK
  <2>. QED BY <2>1, <2>2 DEF Covered
<1>. QED BY <1>1, UnchargedBounded, TypeShapeInvariant, BytesCoveredInvariant, PTL

\* The whole strengthened invariant behind FilesLimited and
\* ChargedOutsideRefund, with the admission bound on files and the reserved
\* bytes that are not written yet, and what LinkFile publishes.
THEOREM StoreInvariant ==
  ASSUME ~RemoveMayFail, MaxFileBytes < MaxInt PROVE StoreSpec => []StoreInv
<1>1. StoreInit => LinkedWhole /\ PublishedWhole
  BY DEF StoreInit, LinkedWhole, PublishedWhole
<1>2. TypeShape /\ LinkedWhole /\ PublishedWhole /\ [StoreNext]_storeVars
        => LinkedWhole' /\ PublishedWhole'
  BY WholeStep
<1>3. StoreSpec => []LinkedWhole
  BY <1>1, <1>2, TypeShapeInvariant, PTL DEF StoreSpec
<1>. QED BY <1>3, TypeShapeInvariant, FilesInvariant, BytesCoveredInvariant, PTL
     DEF StoreInv, TypeShape, FilesInv

-----------------------------------------------------------------------------
(* The refinement: LinkFile is Arrive, Collect is Leave, and every other   *)
(* step leaves the published files as they are.                            *)

LEMMA SameCardinality == \A S : Folder!Cardinality(S) = Cardinality(S)
BY DEF Folder!Cardinality, Cardinality

stored == [k \in Identity |-> OfOwner(final, k)]

LEMMA LinkArrives ==
  ASSUME TypeShape, FilesInv, NEW r \in Request, LinkFile(r)
  PROVE  Folder!Arrive(OwnerOf[r], ino[r])
<1>. DEFINE k == OwnerOf[r]
            i == ino[r]
<1>. USE DEF TypeShape, StoreTypeOK
<1>1. /\ k \in Identity /\ i \in Inode /\ i \in temp /\ i \notin final /\ inode[i].owner = k
      /\ final' = final \cup {i} /\ inode' = inode
  BY StoreAssumption DEF LinkFile, StoreShape, OwnTemp, Holding
<1>2. \A j \in Identity : i \notin stored[j]
  BY <1>1 DEF stored, OfOwner
<1>3. Cardinality(OfOwner(final, k)) < MaxFiles
  <2>1. /\ IsFiniteSet(OnDisk(k)) /\ Cardinality(OnDisk(k)) \in Nat
        /\ Cardinality(OnDisk(k)) <= MaxFiles
    BY <1>1, FilesFinite DEF FilesInv, FilesWithinLimit, OnDisk
  <2>2. OfOwner(final, k) \cup {i} \subseteq OnDisk(k) /\ i \notin OfOwner(final, k)
    BY <1>1 DEF OnDisk, OfOwner
  <2>3. IsFiniteSet(OfOwner(final, k)) /\ IsFiniteSet(OfOwner(final, k) \cup {i})
    BY <2>1, <2>2, FS_Subset
  <2>4. Cardinality(OfOwner(final, k) \cup {i}) = Cardinality(OfOwner(final, k)) + 1
    BY <2>2, <2>3, FS_AddElement
  <2>5. Cardinality(OfOwner(final, k) \cup {i}) <= Cardinality(OnDisk(k))
    BY <2>1, <2>2, FS_Subset
  <2>6. Cardinality(OfOwner(final, k)) \in Nat
    BY <2>3, FS_CardinalityType
  <2>. QED BY <2>1, <2>4, <2>5, <2>6, StoreAssumption
<1>4. stored' = [stored EXCEPT ![k] = @ \cup {i}]
  <2>1. ASSUME NEW j \in Identity
        PROVE  OfOwner(final, j)' = IF j = k THEN OfOwner(final, j) \cup {i} ELSE OfOwner(final, j)
    BY <1>1 DEF OfOwner
  <2>2. stored' = [j \in Identity |->
                     IF j = k THEN OfOwner(final, j) \cup {i} ELSE OfOwner(final, j)]
    BY <2>1, Zenon DEF stored, OfOwner
  <2>. QED BY <2>2 DEF stored
<1>. QED BY <1>1, <1>2, <1>3, <1>4, SameCardinality DEF Folder!Arrive, stored

LEMMA CollectLeaves ==
  ASSUME TypeShape, NEW i \in Inode, Collect(i)
  PROVE  \/ \E k \in Identity : Folder!Leave(k, i)
         \/ stored' = stored
<1>. USE DEF TypeShape, StoreTypeOK
<1>1. /\ i \in final /\ final' = final \ {i}
      /\ \A j \in Inode \ {i} : inode'[j] = inode[j]
  BY DEF Collect
<1>2. \A k \in Identity : OfOwner(final, k)' = OfOwner(final, k) \ {i}
  BY <1>1 DEF OfOwner
<1>3. ASSUME NEW k \in Identity, inode[i].owner = k PROVE Folder!Leave(k, i)
  <2>1. i \in stored[k]
    BY <1>1, <1>3 DEF stored, OfOwner
  <2>2. \A j \in Identity \ {k} : i \notin OfOwner(final, j)
    BY <1>3 DEF OfOwner
  <2>3. stored' = [stored EXCEPT ![k] = @ \ {i}]
    <3>1. OfOwner(final, k)' = OfOwner(final, k) \ {i}
      BY <1>2
    <3>2. ASSUME NEW j \in Identity, j # k PROVE OfOwner(final, j)' = OfOwner(final, j)
      <4>1. /\ i \notin OfOwner(final, j)
            /\ OfOwner(final, j)' = OfOwner(final, j) \ {i}
        BY <1>2, <2>2, <3>2
      <4>. QED BY <4>1
    <3>3. ASSUME NEW j \in Identity
          PROVE  OfOwner(final, j)' = IF j = k THEN OfOwner(final, j) \ {i} ELSE OfOwner(final, j)
      BY <3>1, <3>2
    <3>4. stored' = [j \in Identity |->
                       IF j = k THEN OfOwner(final, j) \ {i} ELSE OfOwner(final, j)]
      BY <3>3, Zenon DEF stored, OfOwner
    <3>. QED BY <3>4 DEF stored
  <2>. QED BY <2>1, <2>3 DEF Folder!Leave, stored
<1>4. ASSUME inode[i].owner \notin Identity PROVE stored' = stored
  <2>1. \A k \in Identity : i \notin OfOwner(final, k)
    BY <1>4 DEF OfOwner
  <2>2. ASSUME NEW k \in Identity PROVE OfOwner(final, k)' = OfOwner(final, k)
    <3>1. OfOwner(final, k)' = OfOwner(final, k) \ {i} /\ i \notin OfOwner(final, k)
      BY <1>2, <2>1
    <3>. QED BY <3>1
  <2>. QED BY <2>2 DEF stored, OfOwner
<1>. QED BY <1>3, <1>4

LEMMA OthersStutter ==
  ASSUME TypeShape, final' = final, \A i \in final : inode'[i].owner = inode[i].owner
  PROVE  stored' = stored
BY DEF stored, OfOwner

\* To someone who only looks at published names the upload directory behaves
\* as DropFolder says: files arrive one by one within the limit of
\* their identity, and only a collector makes them leave.
THEOREM StoreImplementsFolder ==
  ASSUME ~RemoveMayFail PROVE StoreSpec => ImplementsDropFolder
<1>1. StoreInit => Folder!Init
  BY DEF StoreInit, Folder!Init, OfOwner
<1>2. TypeShape /\ FilesInv /\ [StoreNext]_storeVars => [Folder!Next]_stored
  <2>. SUFFICES ASSUME TypeShape, FilesInv, [StoreNext]_storeVars
                PROVE  Folder!Next \/ stored' = stored
    OBVIOUS
  <2>. USE DEF TypeShape, StoreTypeOK, StoreShape, OwnTemp, Holding
  <2>1. ASSUME NEW r \in Request, StoreStep(r) PROVE Folder!Next \/ stored' = stored
    <3>1. CASE LinkFile(r)
      <4>1. OwnerOf[r] \in Identity /\ ino[r] \in Inode
        BY <2>1, <3>1, StoreAssumption DEF LinkFile
      <4>. QED BY <2>1, <3>1, <4>1, LinkArrives DEF Folder!Next
    <3>2. CASE CreateTemp(r)
      <4>1. final' = final /\ \A i \in final : inode'[i].owner = inode[i].owner
        BY <3>2 DEF CreateTemp
      <4>. QED BY <4>1, OthersStutter
    <3>3. CASE WriteChunk(r)
      <4>1. final' = final /\ \A i \in final : inode'[i].owner = inode[i].owner
        BY <3>3 DEF WriteChunk
      <4>. QED BY <4>1, OthersStutter
    <3>4. CASE RemoveTemp(r)
      <4>1. final' = final /\ \A i \in final : inode'[i].owner = inode[i].owner
        BY <3>4 DEF RemoveTemp
      <4>. QED BY <4>1, OthersStutter
    <3>5. CASE UNCHANGED <<final, inode>>
      BY <3>5, OthersStutter
    <3>. QED
      BY <2>1, <3>1, <3>2, <3>3, <3>4, <3>5
      DEF StoreStep, Cleanup, RejectName, ReserveFile, RefuseFile, CreateFails, ReserveChunk,
          RefuseChunk, CopyFails, PartTooLarge, SyncTemp, LinkFails, ReleaseUnwritten,
          Refund, ReleaseFile
  <2>2. CASE Crash \/ Restart \/ UNCHANGED storeVars
    BY <2>2, OthersStutter DEF Crash, Restart
  <2>3. ASSUME NEW i \in Inode, Collect(i) PROVE Folder!Next \/ stored' = stored
    BY <2>3, CollectLeaves DEF Folder!Next
  <2>. QED BY <2>1, <2>2, <2>3 DEF StoreNext
<1>. QED BY <1>1, <1>2, TypeShapeInvariant, FilesInvariant, PTL
         DEF StoreSpec, ImplementsDropFolder, Folder!Spec, stored
=============================================================================
