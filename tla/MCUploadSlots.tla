--------------------------- MODULE MCUploadSlots ---------------------------
(* UploadSlots on five requests of two subjects.                           *)
EXTENDS UploadSlots

CONSTANTS r1, r2, r3, r4, r5, alice, bob

MCRequest == {r1, r2, r3, r4, r5}
MCSubject == {alice, bob}
MCSubjectOf == [r \in MCRequest |-> IF r \in {r1, r2, r3} THEN alice ELSE bob]
=============================================================================
