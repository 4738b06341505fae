--------------------------- MODULE MCFolderUpload ---------------------------
(* FolderUpload on bodies that meet in a few names.                        *)
EXTENDS FolderUpload, TLC

File(name)     == [kind |-> "file", name |-> name]
Root(name)     == [kind |-> "root", name |-> name]
Path(segments) == [kind |-> "path", segments |-> segments]
Other          == [kind |-> "other"]

a   == <<"a">>
a1  == <<"a", "(1)">>
txt == <<"a", ".", "t">>
dot == <<"n2", ".", " ", "n2", "n2">>

\* Single files, names that differ only beyond the limit, a literal "a (1)" and
\* a name that is trimmed, a folder named like a file, a folder with a
\* subdirectory and a file without a path of its own, a subdirectory where a
\* file already is, names whose last character the limit cuts in two, names
\* that are replaced by the same one, names of which the limit leaves a dot, and
\* bodies the handler refuses.
MCBodies ==
  { <<File(a)>>,
    <<File(<<"a", "b", "c", ".", "t">>), Other, File(<<"a", "b", "d", ".", "t">>)>>,
    <<File(a1), File(<<".", "a", " ">>)>>,
    <<Root(<<"b", "/", "a">>), Path(<<>>), File(a), Path(<<a, txt>>), File(txt)>>,
    <<Root(a), Path(<<a>>), File(txt), File(txt), Path(<<a>>), File(a)>>,
    <<Root(a1), File(<<"a", "e2", ".", "t">>)>>,
    <<Root(<<"a", "?", "a", "e2">>), Path(<<<<"*">>>>), File(<<"-">>), File(<<"?", "n2", "a">>)>>,
    <<Path(<<a>>), File(a)>>,
    <<File(a), Root(a)>>,
    <<Root(a), Path(<<<<>>, a>>), File(a)>>,
    <<File(<<" ", ".">>)>>,
    <<Root(<<>>)>>,
    <<Root(dot), File(a)>>,
    <<Root(a), Path(<<dot>>), File(dot)>> }

MCWide == [c \in {"e2", "n2"} |-> 2]
=============================================================================
