----------------------------- MODULE MCGraphDFS -----------------------------
(* Every acyclic graph over four migrations of two apps.                   *)
EXTENDS GraphDFS

MCKey == [app : {1, 2}, name : {1, 2}]
=============================================================================
