# Dumpbox in TLA+

Dumpbox is a small Go server (`src/cmd`, `src/internal/dumpbox`): people sign in
at an OIDC provider and drop files and folders, which the server stores in one
directory per identity. These modules model what in it is concurrent, can fail
half-way, or spans several requests; TLC checks them on small instances and
TLAPS proves every safety property of the passing runs for every value of
the constants that the named assumptions allow.

Paths below are relative to `src/`; `server.go`, `limits.go`, `session.go`,
`metrics.go` and `config.go` are in `internal/dumpbox/`, `app.js` in
`internal/dumpbox/assets/`, `main.go` in `cmd/dumpbox/`.

## 1. The system

### Components

| component | code | state it keeps | operations |
| --- | --- | --- | --- |
| upload slots | limits.go:18-27, 153-185 | `active` per subject, `inFlight`, under a mutex | acquire, release |
| storage quota | limits.go:29-151 | `bytes` and `files` per quota key, under a mutex; rebuilt from disk at startup | reserve and release of bytes and of files, newStorageQuota |
| storing a part | server.go:414-523 | one temporary file; how much of it is reserved; whether it is published | storePart, quotaWriter.Write, publishFile |
| folders and names | server.go:300-369, 507-595 | the directory tree; per request the root, the folder made for it and the announced path | the form fields, createUniqueDirectory, createRelativeDirectory, publishFile, safeFilename |
| upload handler | server.go:271-409 | the files stored by the request | admission, the loop over the parts, the deferred functions |
| metrics | metrics.go:68-117 | a gauge, counters, a histogram | observeUpload, recordFile |
| process | main.go:17-78 | running, shutting down, gone | start, SIGTERM and Shutdown, the 30 s timeout, failures |
| sign-in | server.go:136-269, session.go | nothing on the server; two signed cookies per browser | login, callback, logout, home, requireAuth |
| browser queue | app.js | one entry per dropped file or folder, and how it is shown | pick, drop and read, send, answer, fail, retry |
| startup | main.go:17-66, limits.go:37-97, server.go:597-604 | the listeners, the counters being rebuilt, the settings | LoadConfig, discovery, newStorageQuota, the two listeners |
| configuration | config.go | read once | LoadConfig |
| origins | server.go:606-648 | none | sameOrigin, originPort, safeDirectoryComponent |
| pages, assets, deployment | page.go, assets.go, scripts/ | none | |

### How they interact

A browser signs in with two redirects: `login` puts a signed request into a
cookie and sends it to the provider, which sends it back to `callback`; that
checks the cookie against the URL, exchanges the code (a call to the provider
in the middle of the handler) and sets the session cookie. Every upload passes
`requireAuth` (the session, once), `observeUpload` and then `upload`: it takes a
slot, raises the gauge, and reads its parts one after the other, each through
`storePart`, which calls back into the quota for every chunk. All requests
share the slots, the quota, the metrics and the disk; other people share the
upload directory. Nothing but the disk and the cookies survives the process.
On the other side of the connection, the page turns what a person picks or drops
into uploads, one per file or folder, sends them all at once, and offers Retry
for each that is not answered with 201.

### What is hard about it

* **Interleaving.** The quota and the slots lock per call, so the calls of
  concurrent uploads interleave inside an upload; requests compete for the same
  file and folder names; tabs of a browser share its cookies.
* **Failure in the middle.** `storePart` can fail after any of a dozen calls, a
  write can be short, a handler can panic; deferred functions put right what
  was done, in reverse order, and the counters clamp at zero, which would hide
  a mistake.
* **Crashes.** The counters are lost at any step, and rebuilt from what the
  disk then holds: complete files, partial ones, and a file under two names.
* **Stops and failures.** After a failure a supervisor starts the process again;
  after SIGTERM it ends with code 0 and may stay down.
* **Timeouts.** Shutdown waits 30 seconds for uploads of any length; sessions,
  logins and cookies expire.
* **Liveness.** Slots and temporary files must come back; contending searches
  for a free name must end.

`PROJECT.json` lists these hazards at their lines, with the properties that cover them.

### What makes each part correct

* slots: no cap is passed, and nobody is refused while there is room;
* quota: the account of an identity equals what is on disk plus what its
  running uploads hold, and no identity is over its limits on disk;
* startup: the server that comes up has counted every file of every directory of
  an identity and nothing else, and it comes up again after every failure;
* storing: a file appears whole or not at all, stays, and fits its limit;
* folders: nothing is overwritten or merged, everything is where it was announced;
* handler: slots come back, a 201 is durable, metrics tell the truth, an idle
  server has nothing under way;
* the page: a drop or a folder is queued whole or not at all (of several files
  chosen without a folder only the first is, finding 4), "Uploaded" is never shown
  of what is not stored, a file is stored twice only after a failure, and retrying
  brings in what was sent and can be stored;
* sign-in: a session belongs to the browser that signed in, is honoured only in
  time, and logins do not break each other more than they must.

## 2. The modules

```
SlotPool        abstract: a pool of slots with two caps
  UploadSlots   limits.go: the two counters         UploadSlots_proofs
DropFolder      abstract: files appear whole, never too many
  StorePart     storePart over storageQuota, crashes StorePart_proofs
UploadHandler   POST /upload: EXTENDS StorePart,
                INSTANCE UploadSlots                UploadHandler_proofs
Startup         LoadConfig, the walk over the disk,
                the listeners                       Startup_proofs
Names           safeFilename
  FolderUpload  folders, paths and the search for
                names: EXTENDS Names                FolderUpload_proofs
ClientQueue     app.js: reading a drop, sending,
                retrying                            ClientQueue_proofs
SignIn          cookies, callbacks, sessions         SignIn_proofs
Foundations     lemmas on counting, folds and recursion, which know
                nothing of Dumpbox
MC<module>      the instance that TLC checks
```

Each module has its deviations near the top: operators with the shape of one of
its definitions and a plausible bug inside. No specification uses them; a
deviation put in the place of its definition makes TLC report a property, which
shows that the property depends on the code being as it is.

**UploadSlots** has the Go map and counter as `active` and `inFlight`, and
`holders`, the requests between `acquire` and the deferred `release`. `Acquire`
and `Refuse` are the two results of `acquire`; `Release` keeps the clamps. It
implements **SlotPool**, which knows only the set of holders.

**StorePart** has `bytes` and `files` as in the code; the disk as `temp` and
`final`, the inodes that have a temporary and a published name; and for each
request where it is in `storePart`, its inode, and its local `reserved`. Every
call that takes the quota's mutex or changes the directory is an action, in the
order of the code: reserve the file, create, (reserve a chunk, write it)*, sync,
link; then the deferred functions, `Refund`, `RemoveTemp`, `ReleaseFile`. The
copy may fail at any moment (`CopyFails`), a write may be short (`WriteChunk`),
`os.Remove` may fail if `RemoveMayFail`. The limit reader's allowance is computed
in the width of `int64` (`ReadLimit`, with `MaxInt` for the largest one).
`Crash` leaves the disk as it is, `Restart` is `newStorageQuota`. `Collect` is
someone who takes files out of the directory. `keptBytes` and `keptFiles` are
history: what the counters hold that no running request will give back.
It implements **DropFolder**, which knows only the published files of each
identity.

**UploadHandler** extends StorePart by the handler around it. Its conjunction
with `StoreStep` makes a request take the steps of `storePart` only between
`BeginStore` and `Stored` or `NotStored`. Of the statuses only 201 and 429 are told
apart, the other refusals are "failed". `Slots!Acquire`, `Slots!Refuse` and
`Slots!Release` are the actions of UploadSlots on the handler's own variables,
so the composition is checked as a refinement (`ImplementsSlots`). `Sigterm`,
`Stop` (Shutdown came to its end), `Kill` (it did not, or the process was
killed) and `Start` are the process.

**FolderUpload** is the part of the handler that StorePart and UploadHandler
leave out: which name a file gets. The directory is a function from paths to
nodes that remember their request; `os.Mkdir` and `os.Link` are atomic: they
take a free name or fail. A name is a sequence of characters, and a suffix is one
of them, so that `a (1)` made by a suffix and `a (1)` sent by a client are the
same name. Bodies hold the names as clients send them.

**Names** is `safeFilename`: `Base`, the replaced characters, the trimming and the
cut at 220 bytes, for characters that have a width in bytes. The cut may end
inside a character; what is left of it is the character `"broken"`, which a
second look turns into U+FFFD as `strings.Map` does. FolderUpload applies it where
the code does: to the name of a file, to every segment of a path, and twice to
the name of a root folder (`RootField` and `DirectoryCandidate`). `Safe` is the
table of its results, so that TLC computes each once.

**ClientQueue** is the page. `Below` is what `filesFromDirectory` has gathered at
a moment, out of what `got` says each reader has been given: the promises are
joined in the order of the entries, not of the callbacks. `ReadBatch` and
`CloseDirectory` are the callbacks of `readEntries`, `ReadFails` any rejection,
`Dropped` the end of `Promise.all`. `Pick` is the other two ways, and they differ:
a folder goes through `entriesFromFiles`, but a list of files through
`Array.from(files).forEach(upload)`, which gives `upload` the number of the file as
its `root`. Of two files or more, `PickedEntries` therefore makes the entry of the
first and `NotAFolder`, the entry that is on the page when the second call throws;
`Started` says how many of them get a request, and `sent` remembers it in the
queue. `TakenUp` is what the page takes up of a gesture. An entry waits for a
connection, is sent
(`Connect`), and is heard of (`Hear`, `Lose`); `Retry` is the button. The server
is what a page can tell of it: a cap (`Refuse`), files stored one after the
other, the answers 201, 400 and 413, and any other failure. After `Lose` the
server may still be storing (`heard = FALSE`): this is how a retry meets its own
predecessor. The two readings of a drop, as entries and as a flat list of files,
are both there, with the rule that chooses between them. `TakesList` says of which
gestures the list is what counts; `FilesOf` and `Belongs` say from it what the
person gave and where it belongs, without the code's algorithms, so that
`GestureWhole` can judge them. The assumptions are what a browser shows: a list
has a file once (`ListAssumption`), what is dropped are finite trees
(`TreeAssumption`), and two gestures share no node (`OwnerAssumption`).

**Startup** follows `main` from one start to the next. `EnterDirectory`,
`CountFile`, `DirectoryVanished` and `FileVanished` are the steps of
`filepath.WalkDir`, between which `Collect` and `CollectDirectory` change the
disk. Directory names are sequences of the parts that `userDirectory` puts
together; `HasKey` is `quotaKeyFromDirectory`, which looks at the first and the
last of them. `Accepts` is what LoadConfig says of the counts and the two caps,
`Configure` an administrator between two starts. A process ends in two ways:
by a failure (`Exit`: `os.Exit(1)`, or `Ends`, a crash or a kill by force), after
which phase is "down" and the supervisor's `Start` is next, or by `Stop`: SIGTERM
or SIGINT makes `main` return with code 0, and nobody starts the service again
but a person or a boot (`StartService`). `charged` is history: the files that the
counters count.

**SignIn** has the two cookies of each browser and what each tab is doing. A
request carries the cookie of the moment it is sent (`sent`), its response
changes cookies when it arrives (`reply`, `Arrive`) and may be lost. All
handlers answer in one step except `callback`, which waits for the provider
between its checks and the session (`BeginExchange`, `GrantSession`). State and
nonce are the number of the login: they are random values drawn together.
Signatures are perfect: a value is accepted if the key in force signed it.

## 3. What TLC checks

| run | instance | states | shows |
| --- | --- | --- | --- |
| slots | 5 requests, 2 subjects, 2 per user, 3 in all | 170 | caps, exact counters, refinement of SlotPool |
| store | 2 requests, 3 inodes, 4 bytes and 2 files allowed, parts of 0..3, limit 2 | 18,230 | the account, the disk, whole files, refinement of DropFolder |
| handler | 2 requests of one identity and 1 of another, 1 slot each and 2 in all, up to 2 empty files each | 636,172 | handler refines UploadSlots, temporary files are bounded, metrics, idle server |
| handler_live | 2 requests for 1 slot, parts of 0 or 1 byte, 1 byte and 1 file allowed, `os.Remove` may fail | 93,919 | durable 201, slots come back |
| folders | 2 requests, any of 14 bodies each, 3 candidates, names of 4 bytes | 72,995 | no merging, no overwriting, structure kept, legal names, search ends |
| client | a drop of 3 directories, a picked folder and 3 picked files, 2 connections for 1 slot, 1 failure | 84,046 | nothing of a drop or a folder lost between the gesture and the disk, duplicates explained, retries succeed |
| startup | 2 identities with 2 user names, 2 foreign directories, 2 files, 4 settings, 2 faults or stops | 131,876 | the recount is exact, the server comes up after every failure |
| signin | 2+1 tabs, 2 browsers, 2 users, 2 logins, 1 tick or 1 new key | 713,661 | sessions, expiry, lost logins and sessions |
| store_storage, store_maxint, store_remove | as store | | findings 1 to 3 below |
| client_pick | as client | | finding 4 below |

**Bounds.** They are chosen so that each limit is met and each can be met before
the others: of three requests against two slots the two of one identity meet
their own cap of one first; files are empty, at the limit, or one byte over it, and two uploads that together pass a quota which each
of them respects. What a third request could add to `store` is a
third holder of the same counters, and the proofs cover any number. The
candidates of a name are 3 instead of 10,000, so that running out of them
happens. `MaxLogins` and `MaxChanges` bound SignIn's histories: a login, its
rival, and a life that ends or a key that changes; every lifetime is one tick.
Chunks are of any size that fits. `MaxPart` bounds the length of a part. In
UploadHandler a request is handled once per life of the process, and nobody
collects files. In `handler` files have no bytes, so that two of a request, its
failure after the first, and three requests fit: the clause of `IdleServerClean`
on bytes is proved and not checked there, and uploads of one identity at the same
time are the business of `store`. In `handler_live` the quota lets one file pass: a
request may store its first part and fail at its second.

In `folders` a name may have 4 bytes, so that names of a few characters meet the
limit in each of its ways: with an extension that stays, with one that leaves no
room, inside a character, and after white space. A suffix counts as one byte.
In `client` a folder of three files goes to a server that takes two per request,
an empty directory below another has nothing to store (dropped by itself it would
be an entry that is answered 400: the proofs cover it, the instance does not), a
directory inside another gives its
entries in batches of two, three files are picked so that one comes after the one that
breaks, and two connections compete for one upload, so that
429 happens and a retry can overtake its predecessor. `MaxFaults` bounds the
failures other than a 429; an entry the server can never accept is retried while
`Faults <= MaxFaults`, as no person retries it for ever. `MaxEntries` is the number of
entries that the gestures make, four here. In `startup` an identity whose user name looks
like the key of the other one meets it in every order; two faults are any two
of a failure, a stop and a change of settings. There are no other bounds.

**Symmetry** is over inodes and over requests of one identity, over tabs of one
browser and over users; runs with liveness properties use none.

**Deadlock** is checked except in `folders`, where the requests end, in `signin`,
where the bounds on logins and time end the behaviour, in `client`, where the page
is at rest when all is uploaded, and in `startup`, where the process stays down
under settings it does not accept.

**Fairness** is weak fairness of each request's own steps in the server that
wait for nobody: `Progress` and `Search`. It stands for the Go scheduler and for
system calls that return. Clients, the provider, failing disks, crashes and
signals owe nothing. `Startup` adds the supervisor: `Begin` is the process and
`restart: unless-stopped` (compose.yaml:9) or `Restart=on-failure`
(scripts/install.sh:138), which starts it again after a failure. Neither is assumed
to do so after a `Stop`: systemd does not restart a service that ended with code 0
or of SIGTERM, and docker not one that was stopped, so `StartService` has no
fairness and `StartupEnds` leaves a stopped service out: it says that once the
settings are acceptable, the server is up, or stopped, again and again. `ClientQueue` is fair to the browser's callbacks, to
each connection with the server at its end (a broken one is given up by TCP), and
to the person's Retry on each entry; failures are finitely many, because of
`MaxFaults`. `EveryFileArrives` then says what Retry can promise of the
entries that are sent, and would fail if the button were missing on any path that
ends in a failure. That every file has such an entry is `NothingLeftOut`, and false
(finding 4).

## 4. What is proved

TLAPS checks these for every value of the constants that the named assumptions
allow.

*UploadSlots_proofs.* `SlotsTypeCorrect`: no cap is passed, which is inductive
as it stands. `SlotsCounted`: the counters are the cardinalities of the sets of
holders; needs the type invariant, and a lemma each on a set that gains and
loses a member. With both, a test of the counters is a test of the sets, and
`SlotsImplementPool` follows action by action.

*StorePart_proofs.* `TypeShape` (types and `StoreShape`): a request between
CreateTemp and Remove has a temporary file of its own, which nobody else has and
whose size is what it believes. From it `PublishedStay`: a step removes only a
name that is not published. Then `LinkedWhole` (what has passed the length check
is the whole part) gives `PublishedFilesWhole`. `FilesCovered`: the files on disk
plus those counted but not born yet are at most `files`, and whoever runs was
admitted at or under the limit; from it `FilesLimited`. It must be an inequality
with the second conjunct, because after a restart `files` may be over the limit
(an inode with two names counts twice) and then admits nobody.
`StoreImplementsFolder` puts them together: a step of StorePart is the arrival
of one whole file within the limit, a collection, or a stutter.

The account is proved by counting. Each request contributes to `files` and
`bytes` what it counts and has reserved, a chart with one bar per request; a step
moves one bar (`BarsChange` in Foundations), and the counter by as much.
`LedgerAlwaysExact` needs `RefundedOnce`: after `Refund` a request has
nothing left to give back, so that the clamps at zero never absorb anything.
`ChargedOutsideRefund` compares two charts, what is on disk and what is
reserved and unwritten. It does not say that every byte on disk is charged, which
is false (finding 1): the files of `Refunded`, whose bytes are given back and whose
name is about to be removed, are exempt, and so are a dead process and a byte
limit of 0, where nothing is charged. Its second half, `UnchargedIsRefunded`, says
how much that can be: no more than the files of `Refunded` hold, and so nothing
while there is none. `StoreInvariant` is the strengthened invariant in one piece.

Two of the code's weaknesses appear as assumptions of these theorems and are
needed, as the findings show: `MaxFileBytes < MaxInt` for the wholeness, and
`~RemoveMayFail` for the file limit and `ChargedOutsideRefund`. Types, shape,
`PublishedStay` and the ledger need neither.

*UploadHandler_proofs.* `HandlerImplementsStore`: every step of the handler, of the
process and of its supervisor is a step of StorePart or leaves its variables
alone, so each theorem on StorePart holds under the handler. The others use that;
`HandlerKeepsQuota` and `HandlerImplementsFolder` say it of the limits, with the
exception of `Refunded` as above, and of the abstract drop folder.
`HInv` ties the two program counters together: `storePart` runs only while the
handler waits for it, its result is "ok" from the link on, and everything
listed, acknowledged or found at startup is published. From it and
`PublishedFilesWhole` follows `AckedStay` (so `MaxFileBytes < MaxInt`), and
`HandlerImplementsSlots`: `Holders`, the requests between `Admit` and
`ReleaseSlot`, are the holders of UploadSlots through panics, shutdown and kills.
`MetricsAlwaysAgree` counts the requests that stand between the deferred
functions. `TempsLimited` and `IdleServerAlwaysClean` assume `~RemoveMayFail`: every
temporary file that is not stale (left behind by a dead process, and exempt from
both) is that of a slot's holder, and with nobody
running the account is what the process found plus what is published.

*FolderUpload_proofs.* `NeverOverwritten` needs no invariant: a node is only ever
added, at a free path. `FolderInv` (the tree is closed under parents; a request's
target is a directory inside its folder) gives `FolderTypesCorrect` and
`NeverMerged`. `NamesAlwaysLegal` is about the algorithm of `safeFilename` for any
characters and any limit: the trimmed and cut name has no replaced character, is
not empty, `.` or `..`, and keeps within the limit, with the suffix of a candidate
added where the code adds it. `PlacesInv` carries what the parts have announced so
far next to what the handler's fields say, and gives `AlwaysWhereAnnounced`.

*Startup_proofs.* `RecountAlwaysExact` from `WalkInv`: what is charged is charged
once (`ChargedOnce`); what is charged, or listed and not yet charged, lies behind
the walk (`Passed`); and no file of an identity that is still there is behind the
walk and uncharged (`NoneMissed`).

*ClientQueue_proofs.* The first half is about the gestures, for every tree and every
list. `EntriesFromFiles` is a fold; `Grouped` says what it has made of the first
m files, and one step keeps it. `Below` is recursive over the tree; `BelowRight`
says by induction on the height that it has every file below a directory once,
each with the path that leads to it, as far as reading has got. `PickedWhole` and
`DroppedWhole` conclude that what a gesture uploads is `Whole`: all that
`TakenUp` has of it, once and where it belongs. For a drop, a folder
or a single file that is everything it was given; for several files picked
without a folder (`FirstPicked`) it is the first, which is what the code does and
not what the documents say. The second half
is `ClientInv`, over the whole life of an entry:
an entry that shows itself as being sent is waiting or on one heard connection
(`Tracked`), unless it was never sent: then it never has a request; a connection that is serving has seen its first files stored, and one
with a 201 all of them (`LineOK`); and `Budget`: the copies of a file, plus the
requests that may still store it (heard of or not), plus one if its entry may be
sent again without another failure, are at most one more than its failures.
`CopiesExplained` alone is not inductive, since a retry adds a copy only later:
the budget charges it when it becomes possible. From `ClientInv` follow
`ClientTypesCorrect`, `GesturesWhole`, `UploadedAlwaysStored` and
`CopiesAlwaysExplained`. It needs no bound on faults, entries or connections.

*SignIn_proofs.* `SignInTypeCorrect`. `SessionsAreOwn` from `OwnInv`: every
authentication cookie, in a browser, on its way to one, or in a request, is
for a login of that browser, and so every session that `GrantSession` hands out
is for a user of `UsersOf`: one whose callback URL belongs to such a login.
`ServedOnlyInTime` from `BackedInv`: every session anywhere is in `HandedTo`, the
values handed out to that browser, with their key and their expiry. Both speak
of cookies on the way because a handler judges the cookie a request was sent
with, not the one its browser has by then.
`LostOnlyToLogoutOrLateAnswer` from `JustifiedInv`: an answer that clears the
session, other than a logout's, goes to a request whose cookie was not valid, and
an invalid cookie never becomes valid again; so if it clears a valid one, that is a
newer one. `RefusedOnlyForAReason` from `LoneInv`: of a browser that does one
login at a time, at most one tab is in the middle of it, and while the user is at
the provider the browser has the cookie of that login, unless its time is over.

*Foundations* has what the library lacks. Its induction theorems take an operator
as a parameter and cannot be used here, so the lemmas take sets and functions
instead: `AllUpTo` and `RankInduction` (induction), `FoldExists` and `FoldUnique`
(what a fold of the community modules is), `RankRecursion` (a recursive function
over a well-founded order exists and obeys its equation), `FoldChain` and
`LoopExists` (a fold and a loop as the last of a chain of steps), and the counting
lemmas on `Bars`.

The proofs changed three definitions. `Cut` in Names had two arms of a CASE that
could both hold; they are exclusive now. `GestureWhole` was wrong for a drop
that contains nothing but directories without files, together with a list: the
page then takes the list (`TakesList`). And `Below` has nested IFs for the three
kinds of a node, because this version of tlapm does not see a recursive call
behind the second arm of a CASE and would expand the function as if it were
not recursive.

**Only model-checked:** the liveness properties (`SlotComesBack`, `SearchEnds`,
`EveryFileArrives`, `StartupEnds`), since this prover does not treat ENABLED and
fairness; and the four findings, which are counterexamples.

## 5. Findings

1. *store_storage.* An upload that fails gives its bytes back (server.go:465-470)
   before it removes its temporary file (458-461), because deferred functions run
   in reverse order. Another upload of the identity can fill them meanwhile, and
   the disk holds more than `MAX_BYTES_PER_USER` ("Cumulative storage allowed
   per OIDC identity", README.md:63). `DiskBytesCharged` says what does hold:
   all bytes are charged but those in that window.
2. *store_maxint.* `MAX_FILE_BYTES=9223372036854775807` is accepted;
   `maxFileBytes+1` (server.go:474) wraps, nothing is read, and every upload is
   stored empty and acknowledged. The tests expect "stored file differs from
   uploaded content" never to be seen (server_test.go:246-248).
3. *store_remove.* If `os.Remove` of a temporary file fails (server.go:460, error
   ignored) the file is nonetheless given back to the quota, and the identity can
   have more files than `MAX_FILES_PER_USER` (README.md:65) until the next start.
4. *client_pick.* Of several files chosen with "Choose files" (`multiple`,
   page.go:51) only the first is uploaded. `uploadAll` is
   `Array.from(files).forEach(upload)` (app.js:28), so `upload(value, root = "")`
   (app.js:111) gets the number of the file as its root: 0 is as good as none, but
   with 1 the second File is taken for the files of a folder and
   `files.forEach` throws (app.js:131). Its entry is already on the page, shows
   "Starting…" with Retry hidden (app.js:128) and never has a request; the files
   after it never reach the queue, and the picker is not emptied (app.js:23). The
   documents say "The upload queue keeps files in the order they were added and
   offers a retry action when an upload fails" (README.md:87-89).

Observed and within what the documents say: stale `.upload-*` files of a dead
process are charged for ever and never removed; an inode with two names is
charged twice after a restart; files taken out of the directory stay charged
until a restart; two logins at a time in one browser can both fail; an upload
that is redirected to `/login` starts a login nobody sees, which replaces the
cookie of a real one; a late answer can clear a new session.

Of the page: a folder without files is answered 400 and one of more than
`MAX_FILES_PER_REQUEST` files 413, at every retry, and in the second case each
attempt stores the files before the limit once more; directories without files
are not kept; one child that cannot be read discards the whole drop; a pick made
while a drop is still being read is queued before it; the page has no handler for
an aborted request or a timeout, so such an entry would stay as it is; an upload
without a session ends as a failed entry. Of the start: a file that vanishes
during the walk ends it, and the supervisor begins anew. Of names: the limit is
applied after the trimming, so a name may have white space or a dash in front
after it, part of a character at its end, or be nothing but a dot, and a second
look changes it again; the search for a free name treats such names as taken or
ends with an error, and the invariants hold with them.

## 6. Not modelled

* Power failures: a crash is the end of the process. The code syncs a file but
  not its directory.
* Permissions: Chmod, and the directory of the identity, appear only as calls
  that may fail.
* Configuration beyond the counts and caps: the parsing of URLs, numbers, modes
  and the secret happens once, alone, before there is any state.
* `sameOrigin`, `originPort` and the characters of `safeDirectoryComponent`: pure
  functions of one request, with no order of events for a model to add.
* In ClientQueue, the progress bar and the texts; a drop without directory
  entries at all (`getAsFile`) is the same as its list of files.
* In Startup, files in subdirectories and temporary ones: StorePart counts those.
* HMAC, JSON, HTTP and multipart parsing; pages, assets, histograms; scripts.

## 7. Plan

Done: every component with state of its own has its module and its instance, and
every invariant, action property and refinement that a passing run checks is
proved.

What could come next: the theorems of UploadSlots restated of the handler that
implements it (the caps over a whole life of the process), and the lemma that `DirectoryCandidate` and `FileCandidate` give
different names for different numbers, which the end of the search rests on.
