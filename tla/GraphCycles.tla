----------------------------- MODULE GraphCycles -----------------------------
(***************************************************************************)
(* Graph.EnsureNotCyclic, one turn of its inner loop at a time, on any     *)
(* graph the loader can build: a migration may name any key, its own       *)
(* included, as a dependency.                                              *)
(*                                                                         *)
(* todo and stack are the code's locals; result is what it returns, with   *)
(* the part of the stack it reports as the cycle.  finished is a history   *)
(* variable: the nodes in the order they left the stack.                   *)
(***************************************************************************)
EXTENDS MigrationGraph

VARIABLES graph, todo, stack, result, cycle, finished

vars == <<graph, todo, stack, result, cycle, finished>>

Graphs == [nodes : {Key}, dummies : {{}}, edges : SUBSET (Key \X Key)]

Init == /\ graph \in Graphs
        /\ todo = graph.nodes
        /\ stack = <<>>
        /\ result = "running"
        /\ cycle = <<>>
        /\ finished = <<>>

(* The outer loop walks the sorted nodes and skips those no longer to do,  *)
(* so it takes the first of todo each time the stack is empty.             *)
StartSearch ==
    /\ result = "running" /\ stack = <<>> /\ todo # {}
    /\ LET first == SortKeys(todo)[1]
       IN  /\ todo' = todo \ {first}
           /\ stack' = <<first>>
    /\ UNCHANGED <<graph, result, cycle, finished>>

Top == stack[Len(stack)]

(* The children at which the inner loop stops: it scans them in order,     *)
(* and one that is neither on the stack nor to do is passed over.          *)
StopAtNoStack == Children(graph, Top) \cap todo
StopAt == Children(graph, Top) \cap (ToSet(stack) \cup todo)

(* The lead-in reported with the cycle.                                    *)
ReportStack ==
    /\ result = "running" /\ stack # <<>> /\ StopAt # {}
    /\ SortKeys(StopAt)[1] \in ToSet(stack)
    /\ cycle' = stack
    /\ result' = "cycle"
    /\ UNCHANGED <<graph, todo, stack, finished>>

ReportCycle ==
    /\ result = "running" /\ stack # <<>> /\ StopAt # {}
    /\ LET child == SortKeys(StopAt)[1]
       IN  \E i \in 1..Len(stack) :
             /\ stack[i] = child
             /\ cycle' = SubSeq(stack, i, Len(stack))
    /\ result' = "cycle"
    /\ UNCHANGED <<graph, todo, stack, finished>>

PushChild ==
    /\ result = "running" /\ stack # <<>> /\ StopAt # {}
    /\ LET child == SortKeys(StopAt)[1]
       IN  /\ child \in todo
           /\ stack' = Append(stack, child)
           /\ todo' = todo \ {child}
    /\ UNCHANGED <<graph, result, cycle, finished>>

PopNothing ==
    /\ result = "running" /\ stack # <<>> /\ StopAt = {}
    /\ UNCHANGED vars

Pop ==
    /\ result = "running" /\ stack # <<>> /\ StopAt = {}
    /\ stack' = SubSeq(stack, 1, Len(stack) - 1)
    /\ finished' = Append(finished, Top)
    /\ UNCHANGED <<graph, todo, result, cycle>>

ReturnNil ==
    /\ result = "running" /\ stack = <<>> /\ todo = {}
    /\ result' = "nil"
    /\ UNCHANGED <<graph, todo, stack, cycle, finished>>

Returned == result # "running" /\ UNCHANGED vars

Turn == StartSearch \/ ReportCycle \/ PushChild \/ Pop \/ ReturnNil

Next == Turn \/ Returned

(* One goroutine, no blocking call.                                        *)
Spec == Init /\ [][Next]_vars /\ WF_vars(Turn)

-----------------------------------------------------------------------------
TypeOK == /\ graph \in Graphs
          /\ todo \in SUBSET Key
          /\ stack \in Seq(Key)
          /\ result \in {"running", "nil", "cycle"}
          /\ cycle \in Seq(Key)
          /\ finished \in Seq(Key)

(* A graph that is accepted has no cycle: every plan drawn from it ends,   *)
(* and can be run with each migration after its dependencies.              *)
AcceptedIsAcyclic == result = "nil" => Acyclic(graph)

(* The keys named in a CircularDependencyError are a cycle of the graph:   *)
(* each depends on the one before it and the first on the last.            *)
ReportedIsCycle ==
    result = "cycle" =>
        /\ cycle # <<>>
        /\ \A i \in 1..(Len(cycle) - 1) : <<cycle[i + 1], cycle[i]>> \in graph.edges
        /\ <<cycle[1], cycle[Len(cycle)]>> \in graph.edges

(* The check answers on every graph, cyclic ones included.                 *)
Terminates == <>(result # "running")
=============================================================================
