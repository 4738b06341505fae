------------------------------- MODULE Names --------------------------------
(***************************************************************************)
(* safeFilename: what the server makes of the name of a file, of a root    *)
(* folder, or of a directory on the way to a file.                         *)
(*                                                                         *)
(* A name is a sequence of characters, of which a few count: separators,   *)
(* dots, blanks, dashes, those that are replaced, and those that take more *)
(* than one byte, because the length is limited in bytes.  "broken" is a   *)
(* byte that is left of a character the limit has cut in two; when such a  *)
(* name is looked at again, it is read as "replacement" (U+FFFD, 3 bytes). *)
(* A suffix that the server adds is one character of one byte.             *)
(***************************************************************************)
EXTENDS Integers, Sequences, SequencesExt

CONSTANTS MaxNameBytes,   (* 220                                             *)
          Bad,            (* characters that are not allowed in a name       *)
          Blank,          (* white space of Unicode, without " "             *)
          Wide            (* characters of several bytes: their number       *)

ASSUME NamesAssumption ==
  /\ MaxNameBytes \in Nat \ {0} /\ \A c \in DOMAIN Wide : Wide[c] \in Nat \ {0, 1}
  /\ {".", " ", "-", "_", "broken"} \cap (Bad \cup Blank \cup DOMAIN Wide) = {}
  /\ "replacement" \notin Bad \cup DOMAIN Wide

Dot    == <<".">>
DotDot == <<".", ".">>

Width(c) ==
  CASE c = "replacement" -> 3 [] c \in DOMAIN Wide -> Wide[c] [] OTHER -> 1

Bytes(name) == FoldLeft(LAMBDA sum, c : sum + Width(c), 0, name)

\* strings.Trim.
Trim(name, cut) ==
  LET kept == {i \in DOMAIN name : name[i] \notin cut}
  IN IF kept = {} THEN <<>>
     ELSE SubSeq(name, CHOOSE i \in kept : \A j \in kept : i <= j,
                       CHOOSE i \in kept : \A j \in kept : i >= j)

\* The place of the last of these characters, or 0.
LastOf(name, chars) ==
  CHOOSE i \in 0..Len(name) :
    /\ i > 0 => name[i] \in chars
    /\ \A j \in i+1..Len(name) : name[j] \notin chars

\* filepath.Base, with both separators; the last element, or a dot.
Base(name) ==
  LET seps == {"/", "\\"}
      path == SubSeq(name, 1, CHOOSE i \in 0..Len(name) :
                                /\ i > 0 => name[i] \notin seps
                                /\ \A j \in i+1..Len(name) : name[j] \in seps)
  IN CASE name = <<>> -> Dot
       [] path = <<>> /\ name # <<>> -> <<"/">>
       [] OTHER -> SubSeq(path, LastOf(path, seps) + 1, Len(path))

\* filepath.Ext: from the last dot.
Ext(name) ==
  LET i == LastOf(name, {"."}) IN IF i = 0 THEN <<>> ELSE SubSeq(name, i, Len(name))

\* name[:keep], which may end inside a character.
FirstBytes(name, keep) ==
  LET n    == CHOOSE n \in 0..Len(name) :
                /\ Bytes(SubSeq(name, 1, n)) <= keep
                /\ n < Len(name) => Bytes(SubSeq(name, 1, n + 1)) > keep
      rest == IF n = Len(name) THEN 0 ELSE keep - Bytes(SubSeq(name, 1, n))
  IN SubSeq(name, 1, n) \o [i \in 1..rest |-> "broken"]

-----------------------------------------------------------------------------
(* A deviation, a plausible bug, that a check substitutes for Cut.         *)

CutBeforeExtension(name) ==
  IF Bytes(name) <= MaxNameBytes THEN name
  ELSE Trim(FirstBytes(name, MaxNameBytes), Blank \cup {" "}) \o Ext(name)
-----------------------------------------------------------------------------

\* The limit: the extension stays if it leaves room for a byte before it.
Cut(name) ==
  LET keep == MaxNameBytes - Bytes(Ext(name))
      stem(k) == Trim(FirstBytes(name, k), Blank \cup {" "})
  IN CASE Bytes(name) <= MaxNameBytes -> name
       [] Bytes(name) > MaxNameBytes /\ keep >= 1 -> stem(keep) \o Ext(name)
       [] OTHER -> stem(MaxNameBytes)

Replaced(c) ==
  CASE c \in Bad \cup {"/"} -> "_" [] c = "broken" -> "replacement" [] OTHER -> c

\* <<>> is a name of which nothing is left.
SafeFilename(name) ==
  LET base    == Base(name)
      trimmed == Trim([i \in DOMAIN base |-> Replaced(base[i])], {" ", "."})
  IN IF trimmed = <<>> THEN <<>>
     ELSE Cut(IF Head(trimmed) = "-" THEN <<"_">> \o Tail(trimmed) ELSE trimmed)
=============================================================================
