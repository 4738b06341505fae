----------------------------- MODULE DropFolder -----------------------------
(***************************************************************************)
(* What Dumpbox promises of the upload directory to someone who only looks *)
(* at published names: a file is there or it is not.  Files arrive one by  *)
(* one, each for one identity that still has room under MAX_FILES_PER_USER,*)
(* and leave only when somebody outside the server collects them; crashes, *)
(* restarts and failed uploads leave no trace.  StorePart.tla is shown to  *)
(* implement this module.                                                  *)
(***************************************************************************)
EXTENDS Integers, FiniteSets

CONSTANTS Identity,     (* identities with a directory of their own         *)
          File,         (* files the disk has room for                      *)
          MaxFiles      (* MAX_FILES_PER_USER                               *)

VARIABLE stored         (* the published files of each identity             *)

Init == stored = [k \in Identity |-> {}]

Arrive(k, f) ==
  /\ \A j \in Identity : f \notin stored[j]
  /\ Cardinality(stored[k]) < MaxFiles
  /\ stored' = [stored EXCEPT ![k] = @ \cup {f}]

Leave(k, f) == f \in stored[k] /\ stored' = [stored EXCEPT ![k] = @ \ {f}]

Next == \E k \in Identity, f \in File : Arrive(k, f) \/ Leave(k, f)

Spec == Init /\ [][Next]_stored
=============================================================================
