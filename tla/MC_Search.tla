------------------------------ MODULE MC_Search ------------------------------
(***************************************************************************)
(* Small filesystems, arguments and scaled buffer sizes for Search.       *)
(***************************************************************************)
EXTENDS Search, TLC

E(n, t) == [name |-> n, type |-> t]

(* /r holds ".", a directory a, files b and ab, an unreadable directory  *)
(* c and a directory n on a filesystem with a native ->search; /r/a      *)
(* holds b and a directory a, which holds b and a directory a again: the *)
(* last lies at depth 3, where TREE_DEPTH = 3 stops the walk.             *)
R    == <<"/", "r">>
RA   == R \o <<"/", "a">>
RAA  == RA \o <<"/", "a">>
RAAA == RAA \o <<"/", "a">>
RC   == R \o <<"/", "c">>
RN   == R \o <<"/", "n">>
FSMain ==
    (R :> <<E(<<".">>, "d"), E(<<"a">>, "d"), E(<<"b">>, "o"), E(<<"a", "b">>, "o"),
            E(<<"c">>, "d"), E(<<"n">>, "d")>>)
    @@ (RA :> <<E(<<"b">>, "o"), E(<<"a">>, "d")>>)
    @@ (RAA :> <<E(<<"b">>, "o"), E(<<"a">>, "d")>>)
    @@ (RAAA :> <<E(<<"b">>, "o")>>)
    @@ (RC :> <<E(<<"b">>, "o")>>)
    @@ (RN :> <<>>)

(* A native directory that holds matches. *)
FSNative == (RN :> <<E(<<"b">>, "o")>>) @@ FSMain

(* The root directory "/" holding directory a, which holds b. *)
Root == <<"/">>
A    == <<"/", "a">>
FSSlash == (Root :> <<E(<<"a">>, "d")>>) @@ (A :> <<E(<<"b">>, "o")>>)

MC_Unreadable == {RC}
MC_Native == {RN}

(* Arguments.  Besides /r: a missing root (skipped), the unreadable /r/c *)
(* (skipped by the walk, fatal to the literal lookup) and the file /r/b   *)
(* (ENOTDIR, fatal to both).                                              *)
S(str) == [i \in 1..Len(str) |-> SubSeq(str, i, i)]
PathsMain   == {S("/r"), S("/x|/r/c|/r"), S("/r/b")}
PatternMain == {S("*"), S("b"), S("/a/b"), S("/a/*"), S("a|/b"), S("/ab")}
FlagsMain   == {{}, {"STOPATFIRST"}, {"INCLUDEROOT"}, {"METADATA"}}

(* Inputs of the runs that each show one disagreement. *)
PathsRoot    == {S("/r")}
PathsSlash   == {S("/")}
PatternStar  == {S("*")}
PatternNested  == {S("b")}
PatternLiteral == {S("/a/b")}
PatternSlash == {S("a/b")}
FlagsNone    == {{}}
==============================================================================
