---------------------------- MODULE MCStorePart ----------------------------
(* StorePart on a few requests of one or two identities.                   *)
EXTENDS StorePart, TLC

CONSTANTS r1, r2, r3, alice, bob

MCOwnerOf == [r \in Request |-> IF r = r3 THEN bob ELSE alice]

\* Inodes are interchangeable.  The requests of alice are too.
MCSymmetry == Permutations(Inode) \cup Permutations(Request \ {r3})
=============================================================================
