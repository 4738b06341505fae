------------------------------ MODULE Startup -------------------------------
(***************************************************************************)
(* From the start of the process to the moment it serves, again and again: *)
(* main, LoadConfig, the discovery of the provider, newStorageQuota's walk *)
(* over the upload directory, and the two listeners.                       *)
(*                                                                         *)
(* StorePart has the walk as one step.  Here it goes directory by          *)
(* directory and file by file while other people take files away: what     *)
(* vanishes under its hands ends the process, and a supervisor starts it   *)
(* again, unless it was asked to stop: then a person has to.  An identity  *)
(* has a directory for every user name it came with; all of them count for *)
(* one key.  The configuration may be another one at every start.          *)
(*                                                                         *)
(* An upload is one step (StorePart has the rest), and so is the end of    *)
(* the process (UploadHandler has Shutdown).                               *)
(***************************************************************************)
EXTENDS Integers, Sequences, FiniteSets, SequencesExt

CONSTANTS Key,            (* the 24 hex digits of quotaKey                   *)
          Username,       (* what safeDirectoryComponent leaves of a name    *)
          NoName,         (* the Username of which nothing is left           *)
          File,           (* files that exist at some time                   *)
          Foreign,        (* names of directories that Dumpbox never makes   *)
          Settings,       (* what the administrator writes: [files, perUser, *)
                          (* total]                                          *)
          MaxFaults       (* failures, crashes, stops, changes of settings   *)

ASSUME StartupAssumption ==
  /\ NoName \in Username /\ MaxFaults \in Nat
  /\ \A s \in Settings : s.files \in Int /\ s.perUser \in Int /\ s.total \in Int

VARIABLES phase,          (* of the process: "down" while the supervisor is  *)
                          (* to start it, "stopped" while nobody is          *)
          listening,      (* the listeners that are up                       *)
          settings,       (* the environment variables                       *)
          maxFiles,       (* storageQuota: the limit,                        *)
          files,          (*   and the number of files charged to each key   *)
          todo,           (* directories that the walk has still to enter    *)
          left,           (* files of the present one, still to be looked at *)
          place,          (* the directory each file was stored in           *)
          disk,           (* the files that are there                        *)
          made,           (* the directories that exist                      *)
          charged,        (* the files that files counts (history)           *)
          faults          (* failures so far                                 *)

walkVars    == <<todo, left>>
quotaVars   == <<maxFiles, files, charged>>
diskVars    == <<place, disk, made>>
startupVars == <<phase, listening, settings, quotaVars, walkVars, diskVars, faults>>

-----------------------------------------------------------------------------
(* Deviations, each a plausible bug, that the checks substitute for the    *)
(* definition of the same shape to see a property fail.                    *)

HasKeyOnly(d) == Len(d) = 2 /\ Head(d) = "user-" /\ Last(d) \in Key

AcceptsZero(s) == s.perUser <= s.total

FileVanishedAndRetried(f) ==
  /\ f \in left \ disk
  /\ UNCHANGED startupVars
-----------------------------------------------------------------------------
(* Names of directories, as sequences of the parts they are made of.       *)

\* userDirectory.
UserDirectory(k, name) == IF name = NoName THEN <<"user-", k>> ELSE <<"user-", name, "-", k>>

Directory == {UserDirectory(k, name) : k \in Key, name \in Username} \cup Foreign

\* quotaKeyFromDirectory: the prefix, and the last 24 characters.
HasKey(d) == Head(d) = "user-" /\ Last(d) \in Key

NotYet == <<>>            \* the place of a file that has not been stored

FilesIn(d) == {f \in disk : place[f] = d}

\* The files among S in a directory of this identity.
OfKey(S, k) == {f \in S : HasKey(place[f]) /\ Last(place[f]) = k}

\* envCount, and the check on the two caps.
Accepts(s) == s.files >= 1 /\ s.perUser >= 1 /\ s.total >= 1 /\ s.perUser <= s.total

-----------------------------------------------------------------------------

StartupInit ==
  /\ phase = "down" /\ listening = {} /\ settings \in Settings
  /\ maxFiles = 0 /\ files = [k \in Key |-> 0] /\ charged = {}
  /\ todo = {} /\ left = {}
  /\ place \in [File -> Directory \cup {NotYet}]
  /\ disk = {f \in File : place[f] # NotYet} /\ made = {place[f] : f \in disk}
  /\ faults = 0

Fault == faults < MaxFaults /\ faults' = faults + 1

EndAs(next) ==
  /\ phase' = next /\ listening' = {} /\ todo' = {} /\ left' = {}
  /\ UNCHANGED <<settings, quotaVars, diskVars>>

\* os.Exit(1), or the end of the process by a failure of another kind.
Exit == EndAs("down")

\* The supervisor starts the process; LoadConfig accepts what it finds, or
\* the process ends at once.
Start ==
  /\ phase = "down" /\ Accepts(settings)
  /\ phase' = "discover"
  /\ maxFiles' = settings.files
  /\ files' = [k \in Key |-> 0] /\ charged' = {}
  /\ UNCHANGED <<listening, settings, walkVars, diskVars, faults>>

\* oidc.NewProvider, then os.ReadDir of the upload directory.
Discover ==
  /\ phase = "discover"
  /\ phase' = "walk" /\ todo' = made
  /\ UNCHANGED <<listening, settings, quotaVars, left, diskVars, faults>>

\* The provider does not answer within 15 seconds.
DiscoverFails == phase = "discover" /\ Fault /\ Exit

(* -------------------------- newStorageQuota ---------------------------- *)

\* The walk enters a directory and reads its names; others are passed over.
EnterDirectory(d) ==
  /\ phase = "walk" /\ left = {} /\ d \in todo
  /\ HasKey(d) => d \in made
  /\ todo' = todo \ {d}
  /\ left' = IF HasKey(d) THEN FilesIn(d) ELSE {}
  /\ UNCHANGED <<phase, listening, settings, quotaVars, diskVars, faults>>

\* item.Info().
CountFile(f) ==
  /\ f \in left \cap disk
  /\ LET k == Last(place[f]) IN files' = [files EXCEPT ![k] = @ + 1]
  /\ charged' = charged \cup {f}
  /\ left' = left \ {f}
  /\ UNCHANGED <<phase, listening, settings, maxFiles, todo, diskVars, faults>>

\* A directory or a file that was listed is not there any more: an error.
DirectoryVanished(d) ==
  /\ phase = "walk" /\ left = {} /\ d \in todo /\ HasKey(d) /\ d \notin made
  /\ Exit /\ UNCHANGED faults

FileVanished(f) ==
  /\ f \in left \ disk
  /\ Exit /\ UNCHANGED faults

WalkDone ==
  /\ phase = "walk" /\ todo = {} /\ left = {}
  /\ phase' = "listen"
  /\ UNCHANGED <<listening, settings, quotaVars, walkVars, diskVars, faults>>

(* ------------------------------- serving ------------------------------- *)

\* The server and the metrics come up in any order.
Listen(l) ==
  /\ phase = "listen" /\ l \notin listening
  /\ listening' = listening \cup {l}
  /\ UNCHANGED <<phase, settings, quotaVars, walkVars, diskVars, faults>>

\* One of them cannot: the process ends, whatever the other is doing.
ListenFails(l) == phase = "listen" /\ l \notin listening /\ Fault /\ Exit

\* External: a crash, or a kill by force.
Ends == phase \notin {"down", "stopped"} /\ Fault /\ Exit

\* SIGTERM or SIGINT: main returns, with code 0 also when Shutdown gave up, or
\* dies of the signal before it listens for it.  Neither is a failure.
Stop == phase # "stopped" /\ Fault /\ EndAs("stopped")

\* External: a person, or a boot, starts the service again.
StartService ==
  /\ phase = "stopped" /\ phase' = "down"
  /\ UNCHANGED <<listening, settings, quotaVars, walkVars, diskVars, faults>>

\* MkdirAll, reserveFile and all of storePart for an identity with its
\* user name of the moment.
Upload(k, name, f) ==
  /\ "server" \in listening /\ files[k] < maxFiles /\ place[f] = NotYet
  /\ place' = [place EXCEPT ![f] = UserDirectory(k, name)]
  /\ disk' = disk \cup {f} /\ made' = made \cup {UserDirectory(k, name)}
  /\ files' = [files EXCEPT ![k] = @ + 1] /\ charged' = charged \cup {f}
  /\ UNCHANGED <<phase, listening, settings, maxFiles, walkVars, faults>>

(* ------------------------------- others -------------------------------- *)

\* Somebody takes a file, or a directory with nothing in it, away.
Collect(f) ==
  /\ f \in disk
  /\ disk' = disk \ {f}
  /\ UNCHANGED <<phase, listening, settings, quotaVars, walkVars, place, made, faults>>

CollectDirectory(d) ==
  /\ d \in made /\ FilesIn(d) = {}
  /\ made' = made \ {d}
  /\ UNCHANGED <<phase, listening, settings, quotaVars, walkVars, place, disk, faults>>

\* The administrator changes the settings, for the next start.
Configure(s) ==
  /\ s # settings /\ Fault
  /\ settings' = s
  /\ UNCHANGED <<phase, listening, quotaVars, walkVars, diskVars>>

\* What the process does by itself, and the supervisor.
Begin ==
  \/ Start \/ Discover \/ WalkDone
  \/ \E d \in Directory : EnterDirectory(d) \/ DirectoryVanished(d)
  \/ \E f \in File : CountFile(f) \/ FileVanished(f)
  \/ \E l \in {"server", "metrics"} : Listen(l)

StartupNext ==
  \/ Begin \/ DiscoverFails \/ Ends \/ Stop \/ StartService
  \/ \E l \in {"server", "metrics"} : ListenFails(l)
  \/ \E k \in Key, name \in Username, f \in File : Upload(k, name, f)
  \/ \E f \in File : Collect(f)
  \/ \E d \in Directory : CollectDirectory(d)
  \/ \E s \in Settings : Configure(s)

StartupSpec == StartupInit /\ [][StartupNext]_startupVars

\* The process runs, and a supervisor starts it again after a failure
\* (Restart=on-failure, restart: unless-stopped), not after a Stop; nobody
\* else owes anything.
FairStartupSpec == StartupSpec /\ WF_startupVars(Begin)

-----------------------------------------------------------------------------
(* Properties.                                                             *)

\* The variables have their types, and no upload is served but under a
\* configuration with which uploads can be admitted.
StartupTypeOK ==
  /\ phase \in {"stopped", "down", "discover", "walk", "listen"} /\ listening \subseteq {"server", "metrics"}
  /\ todo \subseteq Directory /\ left \subseteq File /\ faults \in 0..MaxFaults
  /\ listening # {} => phase = "listen" /\ maxFiles >= 1
  /\ made \subseteq Directory /\ \A f \in disk : place[f] \in made

\* "Dumpbox rebuilds both per-identity counters from DATA_DIR at startup, so
\* these limits work regardless of where the directory is stored"
\* (README.md:73-75).  Whoever is served has been charged for every file on
\* disk, in whichever of the directories of the identity it lies, and for
\* nothing but what was there; others pay for none of it.
RecountExact ==
  "server" \in listening => \A k \in Key :
    /\ OfKey(disk, k) \subseteq charged
    /\ files[k] = Cardinality(OfKey(charged, k))

\* A collector that takes files away during the walk makes the start fail; it
\* cannot do so for ever, and once the settings are and stay acceptable the
\* server comes up after every failure, with both of its listeners, and stays
\* away only when it has been stopped.
StartupEnds ==
  <>[]Accepts(settings) => []<>(listening = {"server", "metrics"} \/ phase = "stopped")
=============================================================================
