---------------------------- MODULE MCGraphCycles ----------------------------
(* Every graph over four migrations of two apps, self-dependencies too.   *)
EXTENDS GraphCycles

MCKey == [app : {1, 2}, name : {1, 2}]
=============================================================================
