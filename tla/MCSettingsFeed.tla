--------------------------- MODULE MCSettingsFeed ---------------------------
(***************************************************************************)
(* Instances of SettingsFeed for TLC.  Characters are strings; every field *)
(* of every version is one character of its own unless a run is about what *)
(* is inside a field.                                                      *)
(***************************************************************************)
EXTENDS SettingsFeed

MCSpace == {"NL"}

\* Two versions whose fields are all different.
OneWordPolicies ==
    << [length |-> <<"n1">>, processes |-> <<"p1">>,
        paths |-> <<"f1">>, exts |-> <<"x1">>],
       [length |-> <<"n2">>, processes |-> <<"p2">>,
        paths |-> <<"f2">>, exts |-> <<"x2">>] >>

\* Both versions list two processes and block two types of files, "x" in both.
ListPolicies ==
    << [length |-> <<"n1">>, processes |-> <<"p", "NL", "q">>,
        paths |-> <<"f1">>, exts |-> <<"x", "NL", "y">>],
       [length |-> <<"n2">>, processes |-> <<"q", "NL", "p">>,
        paths |-> <<"f2">>, exts |-> <<"z", "NL", "x">>] >>

MCJunk == <<"junk">>

MCChar ==
    {":", "NL", "junk", "n1", "n2", "p1", "p2", "f1", "f2", "x1", "x2",
     "p", "q", "x", "y", "z"}
=============================================================================
