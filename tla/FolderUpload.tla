---------------------------- MODULE FolderUpload ----------------------------
(***************************************************************************)
(* Where the files of an upload land in the identity's directory: the form *)
(* fields of the multipart loop of upload, createUniqueDirectory,          *)
(* createRelativeDirectory and publishFile of server.go, for requests of   *)
(* one identity that run side by side in one directory.                    *)
(*                                                                         *)
(* Every attempt at a name is one system call and one step: os.Mkdir and   *)
(* os.Link take a name or find it taken.  What storePart does to the       *)
(* content and to the quota is the business of StorePart; here a part is   *)
(* stored or the request ends.                                             *)
(*                                                                         *)
(* The names in a body are what a client sends; Names has what safeFilename*)
(* makes of them, so that different names may meet in one.  In the tree a  *)
(* path is the sequence of its names.                                      *)
(***************************************************************************)
EXTENDS Names

CONSTANTS Request,        (* upload requests of one identity                 *)
          Bodies,         (* multipart bodies that clients send              *)
          Candidates      (* names tried before giving up: 10,000            *)

\* Bodies, and the names in them, are sequences.
ASSUME FolderAssumption ==
  /\ Candidates \in Nat \ {0}
  /\ \A b \in Bodies : b \in Seq(Range(b))
  /\ \A part \in UNION {Range(b) : b \in Bodies} :
       /\ part.kind \in {"root", "file"} => part.name \in Seq(Range(part.name))
       /\ part.kind = "path" => /\ part.segments \in Seq(Range(part.segments))
                               /\ \A s \in Range(part.segments) : s \in Seq(Range(s))

VARIABLES tree,           (* the directory: path -> file or directory        *)
          body, pos,      (* the body of each request and its next part      *)
          folderRoot,     (* the handler's folderRoot, folderName and        *)
          folderName,     (* relativeDirectory; <<>> is the empty string     *)
          relativeDirectory,
          todo,           (* components MkdirAll has not made yet            *)
          target,         (* targetDirectory                                 *)
          sequence,       (* the loop variable of the name being sought      *)
          step,           (* what the handler does next                      *)
          uploaded,       (* paths of the files stored                       *)
          answer          (* the status of the response                      *)

fieldVars  == <<folderRoot, folderName, relativeDirectory>>
folderVars == <<tree, body, pos, fieldVars, todo, target, sequence, step, uploaded, answer>>

-----------------------------------------------------------------------------
(* Names.                                                                  *)

\* The names in the bodies.
Sent ==
  UNION {CASE part.kind \in {"root", "file"} -> {part.name}
           [] part.kind = "path" -> Range(part.segments)
           [] OTHER -> {} : part \in UNION {Range(b) : b \in Bodies}}

\* What safeFilename makes of them; it looks twice at the name of a root.
Safe == [name \in Sent \cup {SafeFilename(n) : n \in Sent} |-> SafeFilename(name)]

Suffix(n) == "(" \o ToString(n) \o ")"

\* It has nothing in it that a name may not have.
ASSUME SuffixAssumption ==
  \A n \in 1..Candidates :
    Suffix(n) \notin Bad \cup DOMAIN Wide \cup {"/", "\\", " ", "replacement"}

\* The candidates of createUniqueDirectory, which looks at the name again:
\* the suffix comes last.
DirectoryCandidate(root, n) ==
  IF n = 0 THEN Safe[root] ELSE Append(Safe[root], Suffix(n))

\* The candidates of publishFile: the suffix comes before the extension.
FileCandidate(name, n) ==
  LET ext == Ext(name) IN
    IF n = 0 THEN name ELSE Append(SubSeq(name, 1, Len(name) - Len(ext)), Suffix(n)) \o ext

\* filepath.Join of the segments of a path, which may be, or become, dots.
Joined(segments) ==
  FoldLeft(LAMBDA path, s :
             LET name == Safe[s] IN
               CASE name = Dot -> path
                 [] name = DotDot /\ path # <<>> /\ Last(path) # DotDot -> Front(path)
                 [] OTHER -> Append(path, name),
           <<>>, segments)

\* No segment is without a name, and filepath.IsLocal.
Usable(segments) ==
  /\ \A s \in Range(segments) : Safe[s] # <<>>
  /\ Joined(segments) # <<>> => Head(Joined(segments)) # DotDot

\* The names the loops of createUniqueDirectory and publishFile try next.
RootCandidate(r) == DirectoryCandidate(folderRoot[r], sequence[r])
Candidate(r) ==
  Append(target[r], FileCandidate(Safe[body[r][pos[r]].name], sequence[r]))

\* The second look leaves no name for the folder, or none that is local.
RootUnusable(r) == Safe[folderRoot[r]] \in {<<>>, DotDot}

Taken(path) == path \in DOMAIN tree \/ Last(path) \in {Dot, DotDot}

\* The tree with one more node of request r, for the part it is reading.
With(path, kind, r) ==
  [p \in DOMAIN tree \cup {path} |->
     IF p = path THEN [kind |-> kind, by |-> r, part |-> pos[r]] ELSE tree[p]]

-----------------------------------------------------------------------------
(* Deviations, each a plausible bug, that the checks substitute for the    *)
(* definition of the same shape to see a property fail.                    *)

TakeRootMerging(r) ==
  /\ step[r] = "root"
  /\ LET name == RootCandidate(r) IN
       /\ tree' = IF Taken(<<name>>) THEN tree ELSE With(<<name>>, "dir", r)
       /\ folderName' = [folderName EXCEPT ![r] = name]
       /\ target' = [target EXCEPT ![r] = <<name>>]
  /\ step' = [step EXCEPT ![r] = "relative"]
  /\ UNCHANGED <<body, pos, folderRoot, relativeDirectory, todo, sequence, uploaded, answer>>

RelativeKept(r) ==
  /\ step[r] = "relative"
  /\ Usable(relativeDirectory[r])
  /\ todo' = [todo EXCEPT ![r] = Joined(relativeDirectory[r])]
  /\ step' = [step EXCEPT ![r] = "mkdirs"]
  /\ UNCHANGED <<tree, body, pos, fieldVars, target, sequence, uploaded, answer>>

NameTakenSameAgain(r) ==
  /\ step[r] = "link" /\ sequence[r] < Candidates
  /\ Taken(Candidate(r))
  /\ UNCHANGED folderVars

MakeDirectoryAnywhere(r) ==
  /\ step[r] = "mkdirs" /\ todo[r] # <<>>
  /\ LET path == Append(target[r], Head(todo[r])) IN
       /\ tree' = IF Taken(path) THEN tree ELSE With(path, "dir", r)
       /\ target' = [target EXCEPT ![r] = path]
  /\ todo' = [todo EXCEPT ![r] = Tail(@)]
  /\ UNCHANGED <<body, pos, fieldVars, sequence, step, uploaded, answer>>

LinkReplacing(r) ==
  /\ step[r] = "link" /\ sequence[r] < Candidates
  /\ LET path == Append(target[r], Safe[body[r][pos[r]].name]) IN
       /\ tree' = With(path, "file", r)
       /\ uploaded' = [uploaded EXCEPT ![r] = Append(@, path)]
  /\ pos' = [pos EXCEPT ![r] = @ + 1]
  /\ step' = [step EXCEPT ![r] = "part"]
  /\ UNCHANGED <<body, fieldVars, todo, target, sequence, answer>>
-----------------------------------------------------------------------------

FolderInit ==
  /\ tree = <<>>
  /\ body \in [Request -> Bodies] /\ pos = [r \in Request |-> 1]
  /\ folderRoot = [r \in Request |-> <<>>] /\ folderName = [r \in Request |-> <<>>]
  /\ relativeDirectory = [r \in Request |-> <<>>] /\ todo = [r \in Request |-> <<>>]
  /\ target = [r \in Request |-> <<>>] /\ sequence = [r \in Request |-> 0]
  /\ step = [r \in Request |-> "part"]
  /\ uploaded = [r \in Request |-> <<>>] /\ answer = [r \in Request |-> "none"]

\* The request is answered and its handler returns.
Reply(r, status) ==
  /\ answer' = [answer EXCEPT ![r] = status]
  /\ step' = [step EXCEPT ![r] = "done"]
  /\ UNCHANGED <<tree, body, pos, fieldVars, todo, target, sequence, uploaded>>

\* reader.NextPart returns a part of this kind.
Reads(r, kind) == step[r] = "part" /\ pos[r] <= Len(body[r]) /\ body[r][pos[r]].kind = kind

(* -------------------------------- fields ------------------------------- *)

\* "root" comes first, once, and is a usable name.
RootFits(r) ==
  uploaded[r] = <<>> /\ folderRoot[r] = <<>> /\ Safe[body[r][pos[r]].name] # <<>>

RootField(r) ==
  /\ Reads(r, "root") /\ RootFits(r)
  /\ folderRoot' = [folderRoot EXCEPT ![r] = Safe[body[r][pos[r]].name]]
  /\ pos' = [pos EXCEPT ![r] = @ + 1]
  /\ UNCHANGED <<tree, body, folderName, relativeDirectory, todo, target, sequence, step,
                 uploaded, answer>>

\* "path" needs a root; its segments are looked at when the file comes.
PathField(r) ==
  /\ Reads(r, "path") /\ folderRoot[r] # <<>>
  /\ relativeDirectory' = [relativeDirectory EXCEPT ![r] = body[r][pos[r]].segments]
  /\ pos' = [pos EXCEPT ![r] = @ + 1]
  /\ UNCHANGED <<tree, body, folderRoot, folderName, todo, target, sequence, step,
                 uploaded, answer>>

RejectField(r) ==
  /\ \/ Reads(r, "root") /\ ~RootFits(r)
     \/ Reads(r, "path") /\ folderRoot[r] = <<>>
  /\ Reply(r, "400")

\* Any other field, and a file under another name than "file", is passed over.
SkipPart(r) ==
  /\ Reads(r, "other")
  /\ pos' = [pos EXCEPT ![r] = @ + 1]
  /\ UNCHANGED <<tree, body, fieldVars, todo, target, sequence, step, uploaded, answer>>

(* -------------------------------- a file ------------------------------- *)

\* The first file of a folder needs the folder; any other one has its root.
FilePart(r) ==
  /\ Reads(r, "file")
  /\ sequence' = [sequence EXCEPT ![r] = 0]
  /\ target' = [target EXCEPT ![r] = IF folderName[r] = <<>> THEN <<>> ELSE <<folderName[r]>>]
  /\ step' = [step EXCEPT ![r] =
                CASE folderRoot[r] = <<>> -> "store"
                  [] folderRoot[r] # <<>> /\ folderName[r] = <<>> -> "root"
                  [] OTHER -> "relative"]
  /\ UNCHANGED <<tree, body, pos, fieldVars, todo, uploaded, answer>>

\* createUniqueDirectory: os.Mkdir takes the candidate.
TakeRoot(r) ==
  /\ step[r] = "root" /\ sequence[r] < Candidates /\ ~RootUnusable(r)
  /\ LET name == RootCandidate(r) IN
       /\ ~Taken(<<name>>)
       /\ tree' = With(<<name>>, "dir", r)
       /\ folderName' = [folderName EXCEPT ![r] = name]
       /\ target' = [target EXCEPT ![r] = <<name>>]
  /\ step' = [step EXCEPT ![r] = "relative"]
  /\ UNCHANGED <<body, pos, folderRoot, relativeDirectory, todo, sequence, uploaded, answer>>

\* createUniqueDirectory: os.Mkdir finds the candidate taken.
RootTaken(r) ==
  /\ step[r] = "root" /\ sequence[r] < Candidates /\ ~RootUnusable(r)
  /\ Taken(<<RootCandidate(r)>>)
  /\ sequence' = [sequence EXCEPT ![r] = @ + 1]
  /\ UNCHANGED <<tree, body, pos, fieldVars, todo, target, step, uploaded, answer>>

\* createRelativeDirectory checks the segments; the handler then forgets them.
Relative(r) ==
  /\ step[r] = "relative"
  /\ Usable(relativeDirectory[r])
  /\ todo' = [todo EXCEPT ![r] = Joined(relativeDirectory[r])]
  /\ relativeDirectory' = [relativeDirectory EXCEPT ![r] = <<>>]
  /\ step' = [step EXCEPT ![r] = "mkdirs"]
  /\ UNCHANGED <<tree, body, pos, folderRoot, folderName, target, sequence, uploaded, answer>>

\* os.MkdirAll makes, or walks through, one directory after the other.
MakeDirectory(r) ==
  /\ step[r] = "mkdirs" /\ todo[r] # <<>>
  /\ LET path == Append(target[r], Head(todo[r])) IN
       /\ \/ ~Taken(path) /\ tree' = With(path, "dir", r)
          \/ Taken(path) /\ tree[path].kind = "dir" /\ UNCHANGED tree
       /\ target' = [target EXCEPT ![r] = path]
  /\ todo' = [todo EXCEPT ![r] = Tail(@)]
  /\ UNCHANGED <<body, pos, fieldVars, sequence, step, uploaded, answer>>

\* A segment that is no name, or a file in the way.
RejectRelative(r) ==
  /\ \/ step[r] = "relative" /\ ~Usable(relativeDirectory[r])
     \/ /\ step[r] = "mkdirs" /\ todo[r] # <<>>
        /\ LET path == Append(target[r], Head(todo[r])) IN Taken(path) /\ tree[path].kind = "file"
  /\ Reply(r, "400")

DirectoriesMade(r) ==
  /\ step[r] = "mkdirs" /\ todo[r] = <<>>
  /\ step' = [step EXCEPT ![r] = "store"]
  /\ UNCHANGED <<tree, body, pos, fieldVars, todo, target, sequence, uploaded, answer>>

\* storePart has the whole part on disk under its temporary name.
Store(r) ==
  /\ step[r] = "store" /\ Safe[body[r][pos[r]].name] # <<>>
  /\ sequence' = [sequence EXCEPT ![r] = 0]
  /\ step' = [step EXCEPT ![r] = "link"]
  /\ UNCHANGED <<tree, body, pos, fieldVars, todo, target, uploaded, answer>>

\* storePart fails: too large, over the quota, a name of which nothing is
\* left, an error of the disk.
StoreFails(r) ==
  /\ step[r] = "store"
  /\ \E status \in {"413", "500", "507"} : Reply(r, status)

\* publishFile: os.Link takes the candidate, and the handler lists the path.
LinkName(r) ==
  /\ step[r] = "link" /\ sequence[r] < Candidates
  /\ LET path == Candidate(r) IN
       /\ ~Taken(path)
       /\ tree' = With(path, "file", r)
       /\ uploaded' = [uploaded EXCEPT ![r] = Append(@, path)]
  /\ pos' = [pos EXCEPT ![r] = @ + 1]
  /\ step' = [step EXCEPT ![r] = "part"]
  /\ UNCHANGED <<body, fieldVars, todo, target, sequence, answer>>

\* publishFile: os.Link finds the candidate taken.
NameTaken(r) ==
  /\ step[r] = "link" /\ sequence[r] < Candidates
  /\ Taken(Candidate(r))
  /\ sequence' = [sequence EXCEPT ![r] = @ + 1]
  /\ UNCHANGED <<tree, body, pos, fieldVars, todo, target, step, uploaded, answer>>

\* Every candidate was taken, or the second look at the root leaves no name.
NoNameLeft(r) ==
  /\ \/ step[r] \in {"root", "link"} /\ sequence[r] >= Candidates
     \/ step[r] = "root" /\ RootUnusable(r)
  /\ Reply(r, "500")

\* os.Mkdir, os.MkdirAll or os.Link fails, and not because the name is taken.
DiskFails(r) ==
  \/ step[r] \in {"root", "link"} /\ Reply(r, "500")
  \/ step[r] = "mkdirs" /\ todo[r] # <<>> /\ Reply(r, "400")

\* The body breaks off between two parts, is over its limit, has a field of
\* more than 4096 bytes or one file too many.
BodyFails(r) ==
  /\ step[r] = "part"
  /\ \E status \in {"400", "413"} : Reply(r, status)

\* io.EOF.
Finish(r) ==
  /\ step[r] = "part" /\ pos[r] > Len(body[r])
  /\ Reply(r, IF uploaded[r] = <<>> THEN "400" ELSE "201")

\* The search for names, which waits for no client.
Search(r) ==
  \/ TakeRoot(r) \/ RootTaken(r)
  \/ Relative(r) \/ MakeDirectory(r) \/ RejectRelative(r) \/ DirectoriesMade(r)
  \/ LinkName(r) \/ NameTaken(r) \/ NoNameLeft(r)

FolderNext ==
  \E r \in Request :
    \/ RootField(r) \/ PathField(r) \/ RejectField(r) \/ SkipPart(r) \/ BodyFails(r)
    \/ FilePart(r) \/ Search(r) \/ Store(r) \/ StoreFails(r) \/ DiskFails(r) \/ Finish(r)

FolderSpec == FolderInit /\ [][FolderNext]_folderVars

\* Goroutines are scheduled; a client may never send the next part.
FairFolderSpec == FolderSpec /\ \A r \in Request : WF_folderVars(Search(r))

-----------------------------------------------------------------------------
(* Properties.                                                             *)

Status == {"none", "201", "400", "413", "500", "507"}

\* The variables have their types, and the tree is one: a node lies in a
\* directory.
FolderTypeOK ==
  /\ \A p \in DOMAIN tree :
       /\ tree[p].kind \in {"file", "dir"} /\ tree[p].by \in Request
       /\ Len(p) > 1 => Front(p) \in DOMAIN tree /\ tree[Front(p)].kind = "dir"
  /\ \A r \in Request : /\ body[r] \in Bodies /\ pos[r] \in 1..Len(body[r]) + 1
                        /\ sequence[r] \in 0..Candidates
                        /\ answer[r] \in Status

\* README.md:86-87: "A conflicting root folder receives a numeric suffix instead of
\* being merged or overwritten."  All that is in a folder, at any depth, was
\* put there by the request that made the folder.
FoldersNotMerged ==
  \A p \in DOMAIN tree : tree[p].by = tree[<<p[1]>>].by

\* README.md:84-85: "Duplicate filenames receive a numeric suffix instead of
\* overwriting existing data."  No step takes a name from a file or a
\* directory that has it, and none is removed.
NothingOverwritten ==
  [][\A p \in DOMAIN tree : p \in DOMAIN tree' /\ tree'[p] = tree[p]]_folderVars

\* The parts before part n of a body that are files.
FilesBefore(b, n) == {j \in 1..n-1 : b[j].kind = "file"}

\* The path announced for the file that is part j: that of the last "path"
\* field after the file before it.
Announced(b, j) ==
  LET paths == {i \in 1..j-1 : /\ b[i].kind = "path"
                               /\ \A h \in i+1..j-1 : b[h].kind \notin {"path", "file"}}
  IN IF paths = {} THEN <<>> ELSE b[CHOOSE i \in paths : TRUE].segments

\* "Dropped folders are uploaded recursively with their directory structure
\* preserved" (README.md:85-86): the n-th path of a 201 is where the n-th file of
\* the body was stored, in the directory the body announced for it, under
\* its own name or that name with a suffix.
FilesWhereAnnounced ==
  \A r \in Request : answer[r] = "201" =>
    LET files == FilesBefore(body[r], Len(body[r]) + 1) IN
      /\ Len(uploaded[r]) = Cardinality(files)
      /\ \A j \in files :
           LET path == uploaded[r][Cardinality(FilesBefore(body[r], j)) + 1]
           IN /\ tree[path] = [kind |-> "file", by |-> r, part |-> j]
              /\ Front(path) = (IF folderRoot[r] = <<>> THEN <<>> ELSE <<folderName[r]>>)
                               \o Joined(Announced(body[r], j))
              /\ \E m \in 0..Candidates - 1 : Last(path) = FileCandidate(Safe[body[r][j].name], m)

\* Whatever a client sends, a name in the directory is one that the file system
\* takes (255 bytes: the limit and a suffix) and that has nothing in it of what
\* safeFilename is there to replace, also where the limit cuts a character in
\* two and where the root of a folder is looked at twice (server_test.go:553-567).
NamesLegal ==
  \A p \in DOMAIN tree : \A i \in DOMAIN p :
    /\ p[i] \notin {<<>>, Dot, DotDot}
    /\ Range(p[i]) \cap (Bad \cup {"/", "\\"}) = {} /\ Last(p[i]) # " "
    /\ Bytes(p[i]) <= MaxNameBytes + 1

\* Requests that contend for the same names all come to an end: the loops of
\* createUniqueDirectory and publishFile are bounded, and no conflict sends
\* them back.
SearchEnds ==
  \A r \in Request : step[r] \in {"root", "relative", "mkdirs", "link"}
                        ~> step[r] \in {"part", "store", "done"}
=============================================================================
