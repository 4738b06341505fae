--------------------------- MODULE Startup_proofs ---------------------------
(***************************************************************************)
(* Proofs about Startup, for every set of keys, user names, files and      *)
(* settings: what the walk over the upload directory has charged, and to   *)
(* whom, when the server begins to serve.                                  *)
(***************************************************************************)
EXTENDS Startup, Foundations

USE DEF startupVars, walkVars, quotaVars, diskVars

-----------------------------------------------------------------------------
(* Cases of a step.                                                        *)

\* The steps that leave the disk, the quota and the walk alone, but for Start
\* and Discover.
Other ==
  \/ WalkDone \/ StartService \/ \E l \in {"server", "metrics"} : Listen(l)
  \/ \E s \in Settings : Configure(s)

\* Every way in which the process ends.
Ended == (Exit \/ EndAs("stopped")) /\ (UNCHANGED faults \/ Fault)

LEMMA StartupCases ==
  ASSUME [StartupNext]_startupVars
  PROVE  \/ Start \/ Discover \/ Other \/ Ended \/ UNCHANGED startupVars
         \/ \E d \in Directory : EnterDirectory(d) \/ CollectDirectory(d)
         \/ \E f \in File : CountFile(f) \/ Collect(f)
         \/ \E k \in Key, name \in Username, f \in File : Upload(k, name, f)
BY DEF StartupNext, Begin, Other, Ended, DirectoryVanished, FileVanished, DiscoverFails,
       ListenFails, Ends, Stop

-----------------------------------------------------------------------------
(* Names of directories.                                                   *)

\* The name a directory is given tells whose it is, whatever the user name.
LEMMA UserDirectoryKey ==
  ASSUME NEW k \in Key, NEW name \in Username
  PROVE  LET d == UserDirectory(k, name) IN
           d \in Directory /\ d # NotYet /\ HasKey(d) /\ Last(d) = k
<1>1. UserDirectory(k, name) \in Directory
  BY DEF Directory
<1>2. CASE name = NoName
  BY <1>1, <1>2 DEF UserDirectory, HasKey, Last, NotYet
<1>3. CASE name # NoName
  BY <1>1, <1>3 DEF UserDirectory, HasKey, Last, NotYet
<1>. QED BY <1>2, <1>3

-----------------------------------------------------------------------------
(* Types.                                                                  *)

\* The types that a step relies on.
StartupTyped ==
  /\ maxFiles \in Int /\ files \in [Key -> Nat] /\ settings \in Settings
  /\ place \in [File -> Directory \cup {NotYet}] /\ disk \subseteq File
  /\ phase \notin {"down", "stopped"} => maxFiles >= 1
  /\ \A f \in disk : place[f] # NotYet

TypeInv == StartupTypeOK /\ StartupTyped

LEMMA StartupTypeInit == StartupInit => TypeInv
BY StartupAssumption
   DEF StartupInit, TypeInv, StartupTypeOK, StartupTyped

LEMMA StartupTypeStep == TypeInv /\ [StartupNext]_startupVars => TypeInv'
<1>. SUFFICES ASSUME TypeInv, [StartupNext]_startupVars PROVE TypeInv'
  OBVIOUS
<1>. USE StartupAssumption DEF TypeInv, StartupTypeOK, StartupTyped
<1>1. CASE Start
  BY <1>1 DEF Start, Accepts
<1>2. CASE Discover
  BY <1>2 DEF Discover
<1>3. CASE Other
  <2>1. CASE WalkDone
    BY <2>1 DEF WalkDone
  <2>2. ASSUME NEW l \in {"server", "metrics"}, Listen(l) PROVE TypeInv'
    BY <2>2 DEF Listen
  <2>3. ASSUME NEW s \in Settings, Configure(s) PROVE TypeInv'
    BY <2>3 DEF Configure, Fault
  <2>4. CASE StartService
    BY <2>4 DEF StartService
  <2>. QED BY <1>3, <2>1, <2>2, <2>3, <2>4 DEF Other
<1>4. CASE Ended
  BY <1>4 DEF Ended, Exit, EndAs, Fault
<1>5. CASE UNCHANGED startupVars
  BY <1>5
<1>6. ASSUME NEW d \in Directory, EnterDirectory(d) PROVE TypeInv'
  BY <1>6 DEF EnterDirectory, FilesIn
<1>7. ASSUME NEW d \in Directory, CollectDirectory(d) PROVE TypeInv'
  BY <1>7 DEF CollectDirectory, FilesIn
<1>8. ASSUME NEW f \in File, CountFile(f) PROVE TypeInv'
  <2>1. files' \in [Key -> Nat]
    <3>. DEFINE k == Last(place[f])
    <3>1. files' = [files EXCEPT ![k] = @ + 1] /\ files \in [Key -> Nat]
      BY <1>8 DEF CountFile
    <3>. HIDE DEF k
    <3>2. CASE k \in Key
      BY <3>1, <3>2
    <3>3. CASE k \notin Key
      BY <3>1, <3>3
    <3>. QED BY <3>2, <3>3
  <2>. QED BY <1>8, <2>1 DEF CountFile
<1>9. ASSUME NEW f \in File, Collect(f) PROVE TypeInv'
  BY <1>9 DEF Collect
<1>10. ASSUME NEW k \in Key, NEW name \in Username, NEW f \in File, Upload(k, name, f)
       PROVE  TypeInv'
  <2>. DEFINE d == UserDirectory(k, name)
  <2>1. d \in Directory /\ d # NotYet
    BY UserDirectoryKey
  <2>. HIDE DEF d
  <2>2. place' = [place EXCEPT ![f] = d] /\ disk' = disk \cup {f} /\ made' = made \cup {d}
        /\ place[f] = NotYet
    BY <1>10 DEF Upload, d
  <2>3. f \notin disk
    BY <2>2
  <2>4. files' \in [Key -> Nat]
    BY <1>10 DEF Upload
  <2>5. \A g \in disk' : place'[g] \in made' /\ place'[g] # NotYet
    BY <2>1, <2>2, <2>3
  <2>. QED BY <1>10, <2>1, <2>2, <2>4, <2>5 DEF Upload
<1>. QED
  BY <1>1, <1>2, <1>3, <1>4, <1>5, <1>6, <1>7, <1>8, <1>9, <1>10, StartupCases

\* The types of the model, that every file on disk lies in a directory that
\* exists, and that nothing is served under a limit that admits no upload
\* (config.go: LoadConfig; limits.go: newStorageQuota).
THEOREM StartupTypesCorrect == StartupSpec => []StartupTypeOK
<1>1. TypeInv => StartupTypeOK
  BY DEF TypeInv
<1>. QED BY <1>1, StartupTypeInit, StartupTypeStep, PTL DEF StartupSpec

-----------------------------------------------------------------------------
(* The walk.                                                               *)

\* The counters agree with the files that were charged, at any time: nothing
\* is charged twice, and to nobody but the identity of the directory.
ChargedOnce ==
  /\ IsFiniteSet(charged) /\ charged \subseteq File
  /\ \A f \in charged : place[f] # NotYet /\ HasKey(place[f])
  /\ \A k \in Key : files[k] = Cardinality(OfKey(charged, k))

\* The walk knows each directory once: what it has charged, and what it has
\* listed and not yet charged, lies in none of those it has still to enter.
Passed ==
  /\ left \cap charged = {}
  /\ \A f \in left : place[f] # NotYet /\ HasKey(place[f]) /\ place[f] \notin todo
  /\ phase = "walk" => \A f \in charged : place[f] \notin todo

\* Only the walk has directories to enter, and it begins with nothing.
WalkOnly ==
  /\ phase # "walk" => todo = {} /\ left = {}
  /\ phase = "discover" => charged = {}

\* No file of an identity that is there has been passed over.
NoneMissed ==
  \A f \in disk : HasKey(place[f]) =>
    /\ phase = "walk" => f \in charged \cup left \/ place[f] \in todo
    /\ phase = "listen" => f \in charged

\* The inductive invariant.
WalkInv == TypeInv /\ ChargedOnce /\ Passed /\ WalkOnly /\ NoneMissed

\* Charging one more file to its identity.
LEMMA ChargeOne ==
  ASSUME TypeInv, ChargedOnce, NEW f \in File, f \notin charged, NEW k \in Key,
         place'[f] # NotYet, HasKey(place'[f]), Last(place'[f]) = k,
         \A g \in charged : place'[g] = place[g],
         charged' = charged \cup {f}, files' = [files EXCEPT ![k] = @ + 1]
  PROVE  ChargedOnce'
<1>. USE DEF ChargedOnce, OfKey
<1>1. IsFiniteSet(charged') /\ charged' \subseteq File
  BY FS_AddElement
<1>2. \A g \in charged' : place'[g] # NotYet /\ HasKey(place'[g])
  OBVIOUS
<1>3. ASSUME NEW j \in Key PROVE files'[j] = Cardinality(OfKey(charged, j)')
  <2>. DEFINE S == OfKey(charged, j)
              T == {g \in charged' : HasKey(place'[g]) /\ Last(place'[g]) = j}
  <2>1. S \subseteq charged /\ IsFiniteSet(S)
    BY FS_Subset
  <2>2. f \notin S /\ S \ {f} = T \ {f} /\ (f \in T <=> j = k)
    OBVIOUS
  <2>3. files[j] = Cardinality(S) /\ files \in [Key -> Nat]
    BY DEF TypeInv, StartupTyped
  <2>. HIDE DEF S
  <2>4. Cardinality(S) \in Nat /\ Cardinality(T) = IF j = k THEN Cardinality(S) + 1 ELSE Cardinality(S)
    <3>. HIDE DEF T
    <3>. QED BY <2>1, <2>2, SetChange
  <2>. QED BY <2>3, <2>4
<1>. QED BY <1>1, <1>2, <1>3

LEMMA WalkInit == StartupInit => WalkInv
<1>. SUFFICES ASSUME StartupInit PROVE WalkInv
  OBVIOUS
<1>1. \A k \in Key : OfKey(charged, k) = {}
  BY DEF StartupInit, OfKey
<1>2. ChargedOnce
  BY <1>1, FS_EmptySet DEF StartupInit, ChargedOnce
<1>. QED
  BY <1>2, StartupTypeInit DEF StartupInit, WalkInv, Passed, WalkOnly, NoneMissed

\* A step that charges nothing and moves no charged file.
LEMMA ChargedKept ==
  ASSUME ChargedOnce, UNCHANGED <<charged, files>>, \A f \in charged : place'[f] = place[f]
  PROVE  ChargedOnce'
<1>1. \A k \in Key : OfKey(charged, k)' = OfKey(charged, k)
  BY DEF OfKey
<1>. QED BY <1>1 DEF ChargedOnce

LEMMA WalkStep == WalkInv /\ [StartupNext]_startupVars => WalkInv'
<1>. SUFFICES ASSUME WalkInv, [StartupNext]_startupVars PROVE WalkInv'
  OBVIOUS
<1>0. TypeInv'
  BY StartupTypeStep DEF WalkInv
<1>. USE <1>0 DEF WalkInv
<1>1. CASE Start
  <2>1. \A k \in Key : OfKey(charged, k)' = {}
    BY <1>1 DEF Start, OfKey
  <2>2. ChargedOnce'
    BY <1>1, <2>1, FS_EmptySet DEF Start, ChargedOnce
  <2>. QED BY <1>1, <2>2 DEF Start, Passed, WalkOnly, NoneMissed
<1>2. CASE Discover
  <2>1. ChargedOnce'
    BY <1>2, ChargedKept DEF Discover
  <2>2. NoneMissed'
    BY <1>2 DEF Discover, NoneMissed, TypeInv, StartupTypeOK
  <2>. QED BY <1>2, <2>1, <2>2 DEF Discover, Passed, WalkOnly
<1>3. CASE Other
  <2>1. ChargedOnce'
    BY <1>3, ChargedKept DEF Other, StartService, WalkDone, Listen, Configure
  <2>. QED
    BY <1>3, <2>1
    DEF Other, StartService, WalkDone, Listen, Configure, Passed, WalkOnly, NoneMissed
<1>4. CASE Ended
  <2>1. ChargedOnce'
    BY <1>4, ChargedKept DEF Ended, Exit, EndAs
  <2>. QED BY <1>4, <2>1 DEF Ended, Exit, EndAs, Passed, WalkOnly, NoneMissed
<1>5. CASE UNCHANGED startupVars
  <2>1. ChargedOnce'
    BY <1>5, ChargedKept
  <2>. QED BY <1>5, <2>1 DEF Passed, WalkOnly, NoneMissed
<1>6. ASSUME NEW d \in Directory, EnterDirectory(d) PROVE WalkInv'
  <2>1. ChargedOnce'
    BY <1>6, ChargedKept DEF EnterDirectory
  <2>2. Passed'
    BY <1>6 DEF EnterDirectory, FilesIn, Passed, TypeInv, StartupTyped
  <2>3. NoneMissed'
    BY <1>6 DEF EnterDirectory, FilesIn, NoneMissed
  <2>. QED BY <1>6, <2>1, <2>2, <2>3 DEF EnterDirectory, WalkOnly
<1>7. ASSUME NEW d \in Directory, CollectDirectory(d) PROVE WalkInv'
  <2>1. ChargedOnce'
    BY <1>7, ChargedKept DEF CollectDirectory
  <2>. QED BY <1>7, <2>1 DEF CollectDirectory, Passed, WalkOnly, NoneMissed
<1>8. ASSUME NEW f \in File, CountFile(f) PROVE WalkInv'
  <2>1. f \in left /\ f \notin charged /\ HasKey(place[f]) /\ place[f] # NotYet
    BY <1>8 DEF CountFile, Passed
  <2>2. ChargedOnce'
    <3>1. Last(place[f]) \in Key
      BY <2>1 DEF HasKey
    <3>. QED BY <1>8, <2>1, <3>1, ChargeOne DEF CountFile
  <2>3. Passed' /\ NoneMissed'
    BY <1>8, <2>1 DEF CountFile, Passed, NoneMissed
  <2>. QED BY <1>8, <2>1, <2>2, <2>3 DEF CountFile, WalkOnly
<1>9. ASSUME NEW f \in File, Collect(f) PROVE WalkInv'
  <2>1. ChargedOnce'
    BY <1>9, ChargedKept DEF Collect
  <2>. QED BY <1>9, <2>1 DEF Collect, Passed, WalkOnly, NoneMissed
<1>10. ASSUME NEW k \in Key, NEW name \in Username, NEW f \in File, Upload(k, name, f)
       PROVE  WalkInv'
  <2>. DEFINE d == UserDirectory(k, name)
  <2>1. d \in Directory /\ d # NotYet /\ HasKey(d) /\ Last(d) = k
    BY UserDirectoryKey
  <2>. HIDE DEF d
  <2>2. /\ place[f] = NotYet /\ place' = [place EXCEPT ![f] = d] /\ disk' = disk \cup {f}
        /\ files' = [files EXCEPT ![k] = @ + 1] /\ charged' = charged \cup {f}
        /\ UNCHANGED <<phase, todo, left>> /\ place \in [File -> Directory \cup {NotYet}]
    BY <1>10 DEF Upload, d, TypeInv, StartupTyped
  <2>3. phase = "listen"
    BY <1>10 DEF Upload, TypeInv, StartupTypeOK
  <2>4. f \notin charged /\ f \notin disk /\ charged \subseteq File /\ disk \subseteq File
    BY <2>2 DEF ChargedOnce, TypeInv, StartupTyped
  <2>5. place'[f] = d /\ \A g \in File : g # f => place'[g] = place[g]
    BY <2>2
  <2>6. ChargedOnce'
    BY <2>1, <2>2, <2>4, <2>5, ChargeOne
  <2>7. Passed' /\ WalkOnly'
    BY <2>2, <2>3 DEF Passed, WalkOnly
  <2>8. NoneMissed'
    BY <2>2, <2>3, <2>4, <2>5 DEF NoneMissed
  <2>. QED BY <2>6, <2>7, <2>8
<1>. QED
  BY <1>1, <1>2, <1>3, <1>4, <1>5, <1>6, <1>7, <1>8, <1>9, <1>10, StartupCases

\* Whoever is served has been charged for every file on disk, in whichever
\* directory of the identity it lies, once, and nobody else for it
\* (limits.go: newStorageQuota, quotaKeyFromDirectory), whatever is taken away
\* while the walk is going on and however often the process starts.
THEOREM RecountAlwaysExact == StartupSpec => []RecountExact
<1>1. WalkInv => RecountExact
  <2>. SUFFICES ASSUME WalkInv, "server" \in listening, NEW k \in Key
                PROVE  OfKey(disk, k) \subseteq charged /\ files[k] = Cardinality(OfKey(charged, k))
    BY DEF RecountExact
  <2>1. phase = "listen"
    BY DEF WalkInv, TypeInv, StartupTypeOK
  <2>. QED BY <2>1 DEF WalkInv, NoneMissed, ChargedOnce, OfKey
<1>. QED BY <1>1, WalkInit, WalkStep, PTL DEF StartupSpec
=============================================================================
