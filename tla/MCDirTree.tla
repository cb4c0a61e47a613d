------------------------------ MODULE MCDirTree ------------------------------
(* Small instances of DirTree.                                             *)
EXTENDS DirTree, TLC

\* Two long names of two chunks, with the same last chunk and short name.
MCChunks == "longname-one" :> <<"c", "z">> @@ "longname-two" :> <<"d", "z">>
MCAlias == "longname-one" :> "longna~1" @@ "longname-two" :> "longna~1"

MCPaths == {<<"a">>, <<"longname-one">>, <<"longname-two">>, <<"", "a">>,
            <<"..">>}
MCNewNames == {<<"a">>}
=============================================================================
