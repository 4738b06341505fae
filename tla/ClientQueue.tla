---------------------------- MODULE ClientQueue ----------------------------
(***************************************************************************)
(* The page (app.js): what a person picks or drops becomes a queue of      *)
(* uploads, and each upload is sent until it is stored or given up.        *)
(*                                                                         *)
(* A dropped folder is read through callbacks, a batch of entries at a     *)
(* time and all its directories at once; nothing is queued before all of   *)
(* it has been read.  Then all its uploads are sent together.  The server  *)
(* is seen from outside: it admits PerUser requests, stores the files of a *)
(* request one after the other, and may fail between them.  A connection   *)
(* may break at any moment; the server may not notice.                     *)
(*                                                                         *)
(* entry.file() of a single file is not a step of its own: it can only     *)
(* delay Dropped, or fail, which ReadFails is.                             *)
(***************************************************************************)
EXTENDS Integers, Sequences, FiniteSets, SequencesExt, FiniteSetsExt

CONSTANTS Gesture,        (* what the person does                            *)
          Kind,           (* Gesture -> "files", "folder" or "drop"          *)
          Items,          (* Gesture -> the nodes dropped, in their order    *)
          Listed,         (* Gesture -> FileList: [file, parts], the parts   *)
                          (* of webkitRelativePath; <<>> if it has none      *)
          Children,       (* directory -> its nodes, in their order          *)
          File,           (* the nodes that are files; others are neither    *)
          NoRoot,         (* the root of an entry that is a single file      *)
          Batch,          (* entries that readEntries returns at most        *)
          Conn,           (* connections, numbered                           *)
          PerUser,        (* MAX_CONCURRENT_UPLOADS_PER_USER                 *)
          FilesPerRequest,
          MaxEntries,     (* entries that all gestures together can make     *)
          MaxFaults       (* failures, other than a 429, in a behaviour      *)

Directory == DOMAIN Children

\* The list of files is what is uploaded: of a picker, of a drop that shows no
\* files or directories, or when the list has paths of its own.
TakesList(g) ==
  \/ Kind[g] # "drop"
  \/ Range(Items[g]) \cap (File \cup Directory) = {}
  \/ \E x \in Range(Listed[g]) : Len(x.parts) > 1

ASSUME ClientAssumption ==
  /\ Batch \in Nat \ {0} /\ PerUser \in Nat \ {0} /\ FilesPerRequest \in Nat \ {0}
  /\ IsFiniteSet(Conn) /\ Conn = 1..Cardinality(Conn) /\ MaxFaults \in Nat
  /\ Kind \in [Gesture -> {"files", "folder", "drop"}]

\* A list has each file once, and the parts of a path are names.
ASSUME ListAssumption ==
  /\ DOMAIN Listed = Gesture
  /\ \A g \in Gesture :
       /\ Listed[g] \in Seq(Range(Listed[g]))
       /\ \A x \in Range(Listed[g]) : /\ x = [file |-> x.file, parts |-> x.parts]
                                      /\ x.parts \in Seq(Range(x.parts) \ {NoRoot})
       /\ TakesList(g) =>
            /\ \A x \in Range(Listed[g]) : x.file \in File
            /\ \A i, j \in DOMAIN Listed[g] : Listed[g][i].file = Listed[g][j].file => i = j

\* What is dropped are trees: a node is at one place, and none is below itself.
ASSUME TreeAssumption ==
  /\ IsFiniteSet(Directory) /\ File \cap Directory = {} /\ NoRoot \notin Directory
  /\ \A d \in Directory : Children[d] \in Seq(Range(Children[d]))
  /\ \A d, e \in Directory : \A i \in DOMAIN Children[d], j \in DOMAIN Children[e] :
       Children[d][i] = Children[e][j] => d = e /\ i = j
  /\ \E height \in [Directory -> 1..Cardinality(Directory)] :
       \A d \in Directory : \A c \in Range(Children[d]) \cap Directory : height[c] < height[d]
  /\ DOMAIN Items = Gesture
  /\ \A g \in Gesture :
       /\ Items[g] \in Seq(Range(Items[g]))
       /\ \A i, j \in DOMAIN Items[g] : Items[g][i] = Items[g][j] => i = j
       /\ \A d \in Directory : Range(Items[g]) \cap Range(Children[d]) = {}

\* The browser hands out nodes of its own for each gesture.
ASSUME OwnerAssumption ==
  \E owner \in [File \cup Directory -> Gesture] :
    /\ \A d \in Directory : \A c \in Range(Children[d]) \cap DOMAIN owner : owner[c] = owner[d]
    /\ \A g \in Gesture :
         /\ \A n \in Range(Items[g]) \cap DOMAIN owner : owner[n] = g
         /\ TakesList(g) => \A x \in Range(Listed[g]) : owner[x.file] = g

VARIABLES got,            (* entries that have been read of each directory   *)
          closed,         (* directories whose readDirectory has resolved    *)
          stage,          (* of each gesture                                 *)
          queue,          (* the entries: [by, root, files, sent]; an entry  *)
                          (* that is not sent never has a request            *)
          shown,          (* how the page shows each entry                   *)
          waiting,        (* entries whose request has no connection yet     *)
          line,           (* the request on each connection                  *)
          copies,         (* how often each file has been stored             *)
          hits            (* failures that each entry has met, without 429s  *)

readVars   == <<got, closed>>
pageVars   == <<stage, queue>>
clientVars == <<readVars, pageVars, shown, waiting, line, copies, hits>>

-----------------------------------------------------------------------------
(* From what was given to entries.                                         *)

Single(f) == [root |-> NoRoot, files |-> <<[file |-> f, path |-> <<>>]>>]

\* entriesFromFiles: files of one root become one entry, at the place of the
\* first of them.
EntriesFromFiles(list) ==
  FoldLeft(LAMBDA entries, f :
    LET root == Head(f.parts)
        item == [file |-> f.file, path |-> SubSeq(f.parts, 2, Len(f.parts) - 1)]
        same == {k \in DOMAIN entries : entries[k].root = root}
    IN IF Len(f.parts) < 2 THEN Append(entries, Single(f.file))
       ELSE IF same = {} THEN Append(entries, [root |-> root, files |-> <<item>>])
       ELSE [entries EXCEPT ![Max(same)].files = Append(@, item)],
    <<>>, list)

\* filesFromDirectory and filesFromEntry: what has been read below d, in the
\* order of the entries and not of the callbacks, each file with its path.
Below[d \in Directory] ==
  FlattenSeq([i \in 1..got[d] |->
    LET c == Children[d][i] IN
      IF c \in Directory
        THEN [j \in DOMAIN Below[c] |-> [Below[c][j] EXCEPT !.path = <<c>> \o @]]
        ELSE IF c \in File THEN <<[file |-> c, path |-> <<>>]>> ELSE <<>>])

\* droppedEntries, once everything is read.
DroppedEntries(g) ==
  LET transferred == EntriesFromFiles(Listed[g])
      usable == FlattenSeq([i \in DOMAIN Items[g] |->
        LET n == Items[g][i] IN
          CASE n \in File      -> <<Single(n)>>
            [] n \in Directory -> <<[root |-> n, files |-> Below[n]]>>
            [] OTHER           -> <<>>])
  IN IF (\E i \in DOMAIN transferred : transferred[i].root # NoRoot) \/ usable = <<>>
       THEN transferred ELSE usable

\* uploadAll gives upload the number of a file in the list as its root.  The
\* first number, 0, is as good as none.  With the next one the File is taken
\* for the files of a folder: its entry is on the page when the loop over them
\* throws, and neither its request is made, nor the files after it looked at,
\* nor the picker emptied.
NotAFolder == [root |-> 1, files |-> <<>>]

PickedEntries(g) ==
  IF Kind[g] = "folder" THEN EntriesFromFiles(Listed[g])
  ELSE IF Len(Listed[g]) > 1 THEN <<Single(Listed[g][1].file), NotAFolder>>
  ELSE [i \in DOMAIN Listed[g] |-> Single(Listed[g][i].file)]

\* How many of them get as far as a request.
Started(g) ==
  IF Kind[g] = "files" /\ Len(Listed[g]) > 1 THEN 1 ELSE Len(PickedEntries(g))

\* The directories at and below d.
Under[d \in Directory] ==
  {d} \cup UNION {Under[c] : c \in Range(Children[d]) \cap Directory}

DirectoriesOf == [g \in Gesture |-> UNION {Under[d] : d \in Range(Items[g]) \cap Directory}]

Idle == [of |-> 0, at |-> "idle", stored |-> 0, status |-> "none", heard |-> TRUE]

Serving == {c \in Conn : line[c].at = "serving"}

Faults == FoldLeft(LAMBDA sum, n : sum + n, 0, hits)

\* The server never accepts such an entry: a folder of no files, or too many.
Hopeless(i) == Len(queue[i].files) \notin 1..FilesPerRequest

-----------------------------------------------------------------------------
(* Deviations, each a plausible bug, that the checks substitute for the    *)
(* definition of the same shape to see a property fail.                    *)

CompleteAfterOneBatch(d) == got[d] > 0 \/ Children[d] = <<>>

RetriableWhileSending(i) == shown[i] \in {"sending", "failed"}

AcceptedBelow500(status) == status \in {"201", "400", "413", "429"}

FailSilently(i) == UNCHANGED shown
-----------------------------------------------------------------------------

ClientInit ==
  /\ got = [d \in Directory |-> 0] /\ closed = {}
  /\ stage = [g \in Gesture |-> "none"]
  /\ queue = <<>> /\ shown = <<>> /\ waiting = <<>> /\ hits = <<>>
  /\ line = [c \in Conn |-> Idle] /\ copies = [f \in File |-> 0]

\* upload of each entry: it joins the queue, and the first n are sent at once.
Upload(g, entries, n) ==
  /\ queue' = queue \o [i \in DOMAIN entries |->
                          [by |-> g, root |-> entries[i].root, files |-> entries[i].files,
                           sent |-> i <= n]]
  /\ shown' = shown \o [i \in DOMAIN entries |-> "sending"]
  /\ waiting' = waiting \o [i \in 1..n |-> Len(queue) + i]
  /\ hits' = hits \o [i \in DOMAIN entries |-> 0]
  /\ stage' = [stage EXCEPT ![g] = "queued"]
  /\ UNCHANGED <<readVars, line, copies>>

\* reportDropError.
ReportDropError(g) ==
  /\ stage' = [stage EXCEPT ![g] = "unreadable"]
  /\ UNCHANGED <<readVars, queue, shown, waiting, line, copies, hits>>

(* ------------------------------- reading ------------------------------- *)

\* One of the two file pickers.
Pick(g) ==
  /\ stage[g] = "none" /\ Kind[g] # "drop"
  /\ Upload(g, PickedEntries(g), Started(g))

Drop(g) ==
  /\ stage[g] = "none" /\ Kind[g] = "drop"
  /\ stage' = [stage EXCEPT ![g] = "reading"]
  /\ UNCHANGED <<readVars, queue, shown, waiting, line, copies, hits>>

\* Directories whose reader is at work: those dropped, and the ones below
\* once their parent has been read.
Open(g) ==
  {d \in DirectoriesOf[g] \ closed :
     d \in Range(Items[g]) \/ \E p \in closed : d \in Range(Children[p])}

\* readEntries gives the next batch, of one entry or more.
ReadBatch(g, d) ==
  /\ stage[g] = "reading" /\ d \in Open(g)
  /\ \E n \in 1..Batch :
       /\ got[d] + n <= Len(Children[d])
       /\ got' = [got EXCEPT ![d] = @ + n]
  /\ UNCHANGED <<closed, pageVars, shown, waiting, line, copies, hits>>

\* readEntries gives an empty batch when there is nothing left.
Complete(d) == got[d] = Len(Children[d])

CloseDirectory(g, d) ==
  /\ stage[g] = "reading" /\ d \in Open(g) /\ Complete(d)
  /\ closed' = closed \cup {d}
  /\ UNCHANGED <<got, pageVars, shown, waiting, line, copies, hits>>

\* Any reader or file that fails rejects the promise of the whole drop.
ReadFails(g) == stage[g] = "reading" /\ ReportDropError(g)

\* Promise.all: every directory of every item has been read.
Dropped(g) ==
  /\ stage[g] = "reading" /\ DirectoriesOf[g] \subseteq closed
  /\ \E entries \in {DroppedEntries(g)} :
       IF entries = <<>> THEN ReportDropError(g) ELSE Upload(g, entries, Len(entries))

Read(g) == Dropped(g) \/ \E d \in Directory : ReadBatch(g, d) \/ CloseDirectory(g, d)

(* ------------------------------- sending ------------------------------- *)

\* The browser has a connection for the request that has waited longest.
Connect(c) ==
  /\ waiting # <<>> /\ line[c] = Idle /\ \A b \in 1..c-1 : line[b] # Idle
  /\ line' = [line EXCEPT ![c] = [Idle EXCEPT !.of = Head(waiting), !.at = "sent"]]
  /\ waiting' = Tail(waiting)
  /\ UNCHANGED <<readVars, pageVars, shown, copies, hits>>

Accepted(status) == status = "201"

Fail(i) == shown' = [shown EXCEPT ![i] = "failed"]

\* onload.
Hear(c) ==
  /\ line[c].at = "answered"
  /\ LET i == line[c].of IN
       IF Accepted(line[c].status) THEN shown' = [shown EXCEPT ![i] = "done"] ELSE Fail(i)
  /\ line' = [line EXCEPT ![c] = Idle]
  /\ UNCHANGED <<readVars, pageVars, waiting, copies, hits>>

\* onerror.  What the server has received of the request may live on.
Lose(c) ==
  /\ line[c].of # 0 /\ line[c].heard /\ Faults < MaxFaults
  /\ Fail(line[c].of)
  /\ hits' = [hits EXCEPT ![line[c].of] = @ + 1]
  /\ line' = [line EXCEPT ![c] = IF @.at = "answered" THEN Idle ELSE [@ EXCEPT !.heard = FALSE]]
  /\ UNCHANGED <<readVars, pageVars, waiting, copies>>

\* The button is there only on an entry that has failed.
Retriable(i) == shown[i] = "failed"

\* Nobody retries for ever what cannot succeed.
Retry(i) ==
  /\ i \in DOMAIN queue /\ Retriable(i)
  /\ Hopeless(i) => Faults <= MaxFaults
  /\ shown' = [shown EXCEPT ![i] = "sending"]
  /\ waiting' = Append(waiting, i)
  /\ UNCHANGED <<readVars, pageVars, line, copies, hits>>

(* ------------------------------ the server ----------------------------- *)

\* The server answers; nobody hears the answer on a connection that broke.
Answer(c, status) ==
  line' = [line EXCEPT ![c] = IF @.heard THEN [@ EXCEPT !.at = "answered", !.status = status]
                                         ELSE Idle]

Admit(c) ==
  /\ line[c].at = "sent" /\ Cardinality(Serving) < PerUser
  /\ line' = [line EXCEPT ![c].at = "serving"]
  /\ UNCHANGED <<readVars, pageVars, shown, waiting, copies, hits>>

Refuse(c) ==
  /\ line[c].at = "sent" /\ Cardinality(Serving) >= PerUser
  /\ Answer(c, "429")
  /\ UNCHANGED <<readVars, pageVars, shown, waiting, copies, hits>>

\* The next file of the request is on disk, under a name of its own.
StoreNext(c) ==
  /\ line[c].at = "serving"
  /\ LET files == queue[line[c].of].files
         n     == line[c].stored + 1
     IN /\ n <= Len(files) /\ n <= FilesPerRequest
        /\ copies' = [copies EXCEPT ![files[n].file] = @ + 1]
        /\ line' = [line EXCEPT ![c].stored = n]
  /\ UNCHANGED <<readVars, pageVars, shown, waiting, hits>>

\* All files are stored, or there was none.
Finish(c) ==
  /\ line[c].at = "serving" /\ line[c].stored = Len(queue[line[c].of].files)
  /\ IF line[c].stored > 0
       THEN Answer(c, "201") /\ UNCHANGED hits
       ELSE Answer(c, "400") /\ hits' = [hits EXCEPT ![line[c].of] = @ + 1]
  /\ UNCHANGED <<readVars, pageVars, shown, waiting, copies>>

\* One file too many; those before it stay.
TooManyFiles(c) ==
  /\ line[c].at = "serving" /\ line[c].stored = FilesPerRequest
  /\ Len(queue[line[c].of].files) > FilesPerRequest
  /\ Answer(c, "413")
  /\ hits' = [hits EXCEPT ![line[c].of] = @ + 1]
  /\ UNCHANGED <<readVars, pageVars, shown, waiting, copies>>

\* Any other failure, before a file or after some.
ServerFails(c) ==
  /\ line[c].at \in {"sent", "serving"} /\ Faults < MaxFaults
  /\ Answer(c, "500")
  /\ hits' = [hits EXCEPT ![line[c].of] = @ + 1]
  /\ UNCHANGED <<readVars, pageVars, shown, waiting, copies>>

\* What is left of a broken connection never arrives, or ends at the server.
Vanish(c) ==
  /\ line[c].of # 0 /\ ~line[c].heard
  /\ line' = [line EXCEPT ![c] = Idle]
  /\ UNCHANGED <<readVars, pageVars, shown, waiting, copies, hits>>

Serve(c) == Admit(c) \/ Refuse(c) \/ StoreNext(c) \/ Finish(c) \/ TooManyFiles(c) \/ Vanish(c)

ClientNext ==
  \/ \E g \in Gesture : Pick(g) \/ Drop(g) \/ Read(g) \/ ReadFails(g)
  \/ \E i \in DOMAIN queue : Retry(i)
  \/ \E c \in Conn : Connect(c) \/ Hear(c) \/ Lose(c) \/ Serve(c) \/ ServerFails(c)

ClientSpec == ClientInit /\ [][ClientNext]_clientVars

\* The browser calls back, a connection and the server at its end get on with
\* a request, and the person who sees that an entry failed presses its button.
FairClientSpec ==
  /\ ClientSpec
  /\ WF_clientVars(\E g \in Gesture : Read(g))
  /\ \A c \in Conn : WF_clientVars(Connect(c) \/ Hear(c) \/ Serve(c))
  /\ \A i \in 1..MaxEntries : WF_clientVars(Retry(i))

-----------------------------------------------------------------------------
(* Properties.                                                             *)

\* The variables have their types; one request is on its way for every entry
\* that shows itself as being sent, and none for another.  The exception are
\* entries that were never sent: they show themselves as being sent for ever.
ClientTypeOK ==
  /\ closed \subseteq Directory /\ \A d \in Directory : got[d] \in 0..Len(Children[d])
  /\ DOMAIN shown = DOMAIN queue /\ DOMAIN hits = DOMAIN queue
  /\ \A i \in DOMAIN queue :
       LET under == {c \in Conn : line[c].of = i /\ line[c].heard}
           unsent == {k \in DOMAIN waiting : waiting[k] = i}
       IN /\ Cardinality(under) + Cardinality(unsent)
               = IF queue[i].sent /\ shown[i] = "sending" THEN 1 ELSE 0
          /\ ~queue[i].sent => shown[i] = "sending"

\* The path leads from directory d to the file f.
Leads(d, path, f) ==
  LET way == <<d>> \o path IN
    /\ \A i \in 1..Len(path) : path[i] \in Directory \cap Range(Children[way[i]])
    /\ f \in Range(Children[way[Len(way)]])

\* The files that the person gave, and where one of them belongs: below the
\* folder dropped, or in the folder that its path in the list begins with.
FilesOf(g) ==
  IF TakesList(g) THEN {x.file : x \in Range(Listed[g])}
  ELSE File \cap (Range(Items[g]) \cup UNION {Range(Children[d]) : d \in DirectoriesOf[g]})

\* What the page takes up of them: of files chosen with the picker, the first.
TakenUp(g) ==
  IF Kind[g] = "files" THEN {Listed[g][i].file : i \in {1} \cap DOMAIN Listed[g]} ELSE FilesOf(g)

Belongs(g, root, item) ==
  IF TakesList(g)
    THEN \E x \in Range(Listed[g]) :
           /\ x.file = item.file
           /\ IF Kind[g] = "files" \/ Len(x.parts) < 2
                THEN root = NoRoot /\ item.path = <<>>
                ELSE x.parts = <<root>> \o item.path \o <<Last(x.parts)>>
    ELSE \/ root = NoRoot /\ item.path = <<>> /\ item.file \in Range(Items[g])
         \/ root \in Range(Items[g]) /\ Leads(root, item.path, item.file)

\* "Dropped folders are uploaded recursively with their directory structure
\* preserved" (README.md:85-86): a drop or a folder puts all it was given into
\* the queue, each file once and where it belongs, or nothing at all, however
\* the callbacks of the browser are interleaved.  Of files chosen without a
\* folder it is the first; the others are not in any entry.
GestureWhole ==
  \A g \in Gesture :
    LET own == {i \in DOMAIN queue : queue[i].by = g} IN
      IF stage[g] # "queued" THEN own = {} ELSE
        /\ \A i \in own : \A k \in DOMAIN queue[i].files :
             /\ Belongs(g, queue[i].root, queue[i].files[k])
             /\ \A j \in own : \A l \in DOMAIN queue[j].files :
                  queue[i].files[k].file = queue[j].files[l].file => i = j /\ k = l
        /\ \A f \in TakenUp(g) : \E i \in own :
             queue[i].sent /\ \E k \in DOMAIN queue[i].files : queue[i].files[k].file = f

\* "The upload queue keeps files in the order they were added and offers a
\* retry action when an upload fails" (README.md:87-89): every file of a
\* gesture is in an entry that is sent, and so can be retried.
NothingLeftOut ==
  \A g \in Gesture : stage[g] = "queued" =>
    \A f \in FilesOf(g) : \E i \in DOMAIN queue :
      queue[i].by = g /\ queue[i].sent /\ \E k \in DOMAIN queue[i].files : queue[i].files[k].file = f

\* "Uploaded" is shown only when the server has stored every file of the entry,
\* whatever was lost, refused or sent again before.
UploadedIsStored ==
  \A i \in DOMAIN queue : shown[i] = "done" =>
    queue[i].files # <<>> /\ \A k \in DOMAIN queue[i].files : copies[queue[i].files[k].file] > 0

\* A retry stores again what an earlier attempt had stored: a file is there
\* more than once only if its entry has failed, other than by a 429, and at
\* most once more for each failure.
CopiesExplained ==
  \A i \in DOMAIN queue : \A k \in DOMAIN queue[i].files :
    copies[queue[i].files[k].file] <= 1 + hits[i]

\* "offers a retry action when an upload fails, including when the server's
\* concurrency limit returns 429" (README.md:88-89).  The page sends all its
\* entries at once and has many of them refused; retrying brings each of
\* them in, once failures of another kind have come to an end: again and
\* again, all that was sent and can be stored shows itself as stored.
EveryFileArrives ==
  []<>(\A i \in DOMAIN queue : queue[i].sent /\ ~Hopeless(i) => shown[i] = "done")
=============================================================================
