--------------------------- MODULE MCUploadHandler --------------------------
(* UploadHandler on requests of two identities, or of one.                 *)
EXTENDS UploadHandler, TLC

CONSTANTS alice, bob, r1, r2, r3

\* Requests of alice, and one of bob where the instance has it.
MCOwnerOf == [r \in Request |-> IF r = r3 THEN bob ELSE alice]

\* Inodes are interchangeable, and so are the two requests of alice.
MCSymmetry == Permutations(Inode) \cup Permutations({r1, r2})
=============================================================================
