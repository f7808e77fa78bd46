------------------------- MODULE MCMakeMigrations --------------------------
(* App 1 has features 1 and 3, app 2 has 2 and 4; 2 needs 1, and 3 needs   *)
(* 2.  5 is a colleague's, in app 1.                                       *)
EXTENDS MakeMigrations

MCAppOf == <<1, 2, 1, 2, 1>>
MCNeeds == <<{}, {1}, {2}, {}, {}>>
MCKey == [app : {1, 2}, name : Nat]

K(a, n) == At(a, Name(n, 0))

NoFiles == [k \in {} |-> <<>>]
OneFile == [k \in {K(1, 1)} |-> Migration(<<>>, {1})]
(* Two apps that wait for each other in turn.                              *)
InTurn == [k \in {K(1, 1), K(1, 2), K(2, 1), K(2, 2)} |->
             CASE k = K(1, 1) -> Migration(<<>>, {1})
               [] k = K(2, 1) -> Migration(<<K(1, 1)>>, {2})
               [] k = K(2, 2) -> Migration(<<K(2, 1)>>, {4})
               [] k = K(1, 2) -> Migration(<<K(1, 1), K(2, 1)>>, {3})]

MCProjects == { [models |-> {1, 2, 3, 4}, packages |-> {1, 2}, files |-> NoFiles],
                [models |-> {1}, packages |-> {1}, files |-> OneFile],
                [models |-> {1, 2, 3, 4}, packages |-> {1, 2}, files |-> InTurn] }
============================================================================
