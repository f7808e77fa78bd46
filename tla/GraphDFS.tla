------------------------------ MODULE GraphDFS ------------------------------
(***************************************************************************)
(* Graph.iterativeDFS run one turn of its loop at a time, on any graph the *)
(* loader can hand it (BuildGraph ends with EnsureNotCyclic), from any     *)
(* node, in either direction.  A forwards plan follows parents, a          *)
(* backwards plan follows children.                                        *)
(***************************************************************************)
EXTENDS MigrationGraph

VARIABLES graph, start, forwards, search

vars == <<graph, start, forwards, search>>

Graphs == [nodes : {Key}, dummies : {{}}, edges : SUBSET (Key \X Key)]

Init == /\ graph \in {g \in Graphs : Acyclic(g)}
        /\ start \in Key
        /\ forwards \in BOOLEAN
        /\ search = DFSStart(start)

Turn == /\ search.stack # <<>>
        /\ search' = DFSStep(graph, forwards, search)
        /\ UNCHANGED <<graph, start, forwards>>

Returned == search.stack = <<>> /\ UNCHANGED vars

Next == Turn \/ Returned

(* The loop runs on one goroutine and never blocks.                        *)
Spec == Init /\ [][Next]_vars /\ WF_vars(Turn)

-----------------------------------------------------------------------------
Neighbours(k) == DFSNeighbours(graph, k, forwards)

TypeOK == /\ graph \in Graphs
          /\ start \in Key
          /\ forwards \in BOOLEAN
          /\ search \in [stack : Seq(Item), seen : SUBSET Key, visited : Seq(Key)]

(* A migration enters the plan only after everything it needs first: all   *)
(* of its parents in a forwards plan, all of its children in a backwards   *)
(* one.  This is what lets the executor run a plan from left to right.     *)
NeighboursFirst ==
    \A i \in 1..Len(search.visited) :
        \A k \in Neighbours(search.visited[i]) :
            \E j \in 1..(i - 1) : search.visited[j] = k

(* No migration is listed twice, however many paths lead to it: the        *)
(* executor would run it twice.                                            *)
NoDuplicates ==
    \A i, j \in 1..Len(search.visited) :
        search.visited[i] = search.visited[j] => i = j

(* When the loop ends the plan holds exactly what the target reaches, and  *)
(* the target comes last.                                                  *)
PlanIsReach ==
    search.stack = <<>> =>
        /\ ToSet(search.visited) = Reach(graph, start, forwards)
        /\ Last(search.visited) = start

(* The loop ends on every acyclic graph.                                   *)
Terminates == <>(search.stack = <<>>)
=============================================================================
