---------------------------- MODULE MCLoaderBuild ----------------------------
EXTENDS LoaderBuild

K(a, n) == [app |-> a, name |-> n]

(* App 1: 1, 2 and 3 in a line and 4, which squashes 1 and 2.  App 2: two  *)
(* migrations that reach into app 1.  App 3 has no migrations.             *)
MCKey == {K(1, 1), K(1, 2), K(1, 3), K(1, 4), K(2, 1), K(2, 2),
          K(1, 8), K(1, 9), K(3, 8)}

M(deps, before, replaces) == [deps |-> deps, before |-> before, replaces |-> replaces]

App(registered) ==
    [disabled |-> FALSE, compiled |-> TRUE, dirExists |-> TRUE,
     files |-> DOMAIN registered, registered |-> registered, foreign |-> {}, moved |-> {}]

NoApp == [disabled |-> FALSE, compiled |-> FALSE, dirExists |-> FALSE,
          files |-> {}, registered |-> <<>>, foreign |-> {}, moved |-> {}]

Blog(outside, third, before) ==
    << M(<<>>, <<>>, <<>>), M(<<K(1, 1)>> \o outside, <<>>, <<>>),
       M(third, before, <<>>), M(outside, <<>>, <<K(1, 1), K(1, 2)>>) >>

Shop(first, second) == << M(first, <<>>, <<>>), M(<<K(2, 1)>> \o second, <<>>, <<>>) >>

Deleted(r, gone) == [n \in DOMAIN r \ gone |-> r[n]]

(* A binary older or newer than the files next to it, one with a migration *)
(* of another app or file, and an app with its migrations disabled.        *)
StaleProjects ==
    {<<[App(Blog(<<>>, <<K(1, 2)>>, <<>>)) EXCEPT !.files = a.files, !.foreign = a.foreign,
                                                  !.moved = a.moved],
       App(Shop(<<K(1, 1)>>, <<>>)), [NoApp EXCEPT !.disabled = TRUE, !.files = {1}]>> :
        a \in [files : {1..3, 1..4, 1..5}, foreign : {{}, {2}}, moved : {{}, {3}}]}

MCProjects == StaleProjects \cup
    {<<App(Deleted(Blog(outside, third, before), gone)), App(Shop(first, second)), NoApp>> :
        outside \in {<<>>, <<K(2, 1)>>},
        third \in {<<K(1, 2)>>, <<K(1, 4)>>},
        before \in {<<>>, <<K(2, 2)>>},
        gone \in {{}, {1, 2}},
        first \in {<<>>, <<K(1, 1)>>, <<K(1, 8)>>, <<K(3, 8)>>},
        second \in {<<>>, <<K(1, 2)>>, <<K(1, 4)>>, <<K(1, 9)>>}}

(* 4 squashes 2 and 3; 5 squashes 1 and 4; 6 comes after 5.                *)
NestedKey == [app : {1}, name : 1..6]
NestedProjects ==
    {<<App(<< M(<<>>, <<>>, <<>>), M(<<K(1, 1)>>, <<>>, <<>>), M(<<K(1, 2)>>, <<>>, <<>>),
              M(<<K(1, 1)>>, <<>>, <<K(1, 2), K(1, 3)>>),
              M(<<>>, <<>>, <<K(1, 1), K(1, 4)>>),
              M(<<K(1, 5)>>, <<>>, <<>>) >>)>>}

(* A project is regular just when it loads into an empty database.         *)
ASSUME RegularIsLoadable ==
    \A p \in {LoadDisk(a) : a \in MCProjects} :
        Regular(p) <=> BuildGraph(p, {}, TRUE).error = "none"
=============================================================================
