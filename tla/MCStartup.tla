----------------------------- MODULE MCStartup ------------------------------
(* Startup with two identities, one of which has had a user name that looks *)
(* like the key of the other, and two directories that are not Dumpbox's.   *)
EXTENDS Startup

CONSTANTS k1, k2, bob

MCKey      == {k1, k2}
MCUsername == {NoName, k1}
MCForeign  == {<<"user-", bob>>, <<"backup", k1>>}
MCSettings == {[files |-> 1, perUser |-> 1, total |-> 1], [files |-> 2, perUser |-> 1, total |-> 2],
               [files |-> 0, perUser |-> 1, total |-> 1], [files |-> 1, perUser |-> 2, total |-> 1]}
=============================================================================
