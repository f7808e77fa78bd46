-------------------------- MODULE MCMigrateCommand --------------------------
EXTENDS MigrateCommand

K(a, n) == [app |-> a, name |-> n]

(* App 1: 1, 2, then 4; 3 squashes 1 and 2.  App 2: 1 needs 2 of app 1 and *)
(* 2, which 4 of app 1 asks to run before.                                 *)
MCKey == {K(1, 1), K(1, 2), K(1, 3), K(1, 4), K(2, 1), K(2, 2)}
Squash == K(1, 3)

M(deps, before, replaces) == [deps |-> deps, before |-> before, replaces |-> replaces]

All(on, replaces) ==
    [k \in MCKey |->
        CASE k = K(1, 1) -> M(<<>>, <<>>, <<>>)
          [] k = K(1, 2) -> M(<<K(1, 1)>>, <<>>, <<>>)
          [] k = Squash  -> M(<<>>, <<>>, replaces)
          [] k = K(1, 4) -> M(<<on>>, <<K(2, 2)>>, <<>>)
          [] k = K(2, 1) -> M(<<on>>, <<>>, <<>>)
          [] k = K(2, 2) -> M(<<K(2, 1)>>, <<>>, <<>>)]

Without(f, gone) == [k \in DOMAIN f \ gone |-> f[k]]

Project(migs) == [migs |-> migs, migrated |-> {1, 2}, unmigrated |-> {}]

Both == <<K(1, 1), K(1, 2)>>

(* 1: before the squash.  2: with it.  3: without the files it replaces.   *)
(* 4: without its list.                                                    *)
MCTree == << Project(Without(All(K(1, 2), <<>>), {Squash})),
             Project(All(K(1, 2), Both)),
             Project(Without(All(Squash, Both), {K(1, 1), K(1, 2)})),
             Project(Without(All(Squash, <<>>), {K(1, 1), K(1, 2)})) >>
MCRelease == 1..4
MCUpgrades == {<<1, 2>>, <<2, 1>>, <<2, 3>>, <<3, 4>>, <<2, 4>>}

(* A release in which the squash has a migration of its own after it.      *)
AfterTree == << Project(All(Squash, Both)) >>

MCOriginal == MCKey \ {Squash}
MCBrings == [k \in MCKey |-> IF k = Squash THEN {K(1, 1), K(1, 2)} ELSE {k}]
MCNeeds == [u \in MCOriginal |->
        CASE u = K(1, 1) -> {}
          [] u = K(1, 2) -> {K(1, 1)}
          [] u = K(1, 4) -> {K(1, 2)}
          [] u = K(2, 1) -> {K(1, 2)}
          [] u = K(2, 2) -> {K(2, 1), K(1, 4)}]

=============================================================================
