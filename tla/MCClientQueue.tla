--------------------------- MODULE MCClientQueue ----------------------------
(* ClientQueue on a folder that is dropped, with folders inside, one of     *)
(* them empty, and one file more than a request may have (the browser lists *)
(* the folder among the files as well); a folder chosen with one picker,    *)
(* and three files chosen with the other.                                   *)
EXTENDS ClientQueue, TLC

CONSTANTS tree, pick, loose, d1, d2, empty, f1, f2, f3, g1, g3, h1, h2, h3, odd, chosen

MCGesture  == {tree, pick, loose}
MCKind     == (tree :> "drop") @@ (pick :> "folder") @@ (loose :> "files")
MCItems    == (tree :> <<odd, d1>>) @@ (pick :> <<>>) @@ (loose :> <<>>)
MCListed   == (tree :> <<[file |-> d1, parts |-> <<>>]>>)
              @@ (pick :> <<[file |-> g1, parts |-> <<chosen, g1>>],
                            [file |-> g3, parts |-> <<chosen, d2, g3>>]>>)
              @@ (loose :> <<[file |-> h1, parts |-> <<>>], [file |-> h2, parts |-> <<>>],
                             [file |-> h3, parts |-> <<>>]>>)
MCChildren == (d1 :> <<f1, d2, f2>>) @@ (d2 :> <<f3, empty>>) @@ (empty :> <<>>)
MCFile     == {f1, f2, f3, g1, g3, h1, h2, h3}
=============================================================================
