---------------------------- MODULE MCFrontEnds -----------------------------
(* Instances of FrontEnds for TLC.                                         *)
EXTENDS FrontEnds

CONSTANTS ua

Both(pA, pAny) == [n \in Names \cup {"*"} |-> IF n = "*" THEN pAny ELSE IF n = "sA" THEN pA ELSE {}]

\* sA is configured, sB is a container of the daemon only.
Text(known, perms, defs) ==
    [known |-> known, pass |-> [u \in Users |-> "p1"], perms |-> [u \in Users |-> perms],
     servers |-> {"sA"}, defs |-> [n \in Names |-> defs]]

AllDefs == {"image", "stop", "backup"}
Read    == PermContainerRead

\* The permissions of the examples and words that look like them: wildcards
\* at every depth, a permission without its last word, one with a word more.
FewTexts ==
    {Text({ua}, p, AllDefs) :
       p \in {Both({}, {<<"*">>}),
              Both({Read, PermFileWrite}, {}),
              Both({Read, Execute("start"), Execute("stop")}, {}),
              Both({<<"container", "*">>, <<"file">>}, {}),
              Both({<<"container", "execute">>}, {<<"container", "read", "*">>}),
              Both({<<"file", "*">>, PermContainerExecute}, {Read})}}
    \cup {Text({}, Both({<<"*">>}, {}), {}), Text({ua}, Both({PermContainerWrite, Read}, {}), {"stop"})}

Name == [n \in {"sA", "sB", "cA", "cB"} |-> IF n \in {"sA", "cA"} THEN "sA" ELSE "sB"]

TwoMounts == [n \in Names |-> IF n = "sA" THEN {<<"data">>, <<"opt", "world">>} ELSE {<<"data">>}]

FewPaths == {<<>>, <<"sA">>, <<"sA", "data">>, <<"sA", "data", "f">>, <<"sB", "data">>, <<"sA", "opt">>}

\* Texts of WebDAV clients: with and without a first slash, with dots.
DotPaths == {<<"">>, <<"", "">>, <<"", "sA", "">>, <<"sA", "data", "f">>, <<"", "sB", "data">>,
             <<"sA", "data", "..", "..", "..", "f">>, <<"", "sB", "..", "sA", "data", "f">>}
=============================================================================
