--------------------------- MODULE MigrationGraph ---------------------------
(***************************************************************************)
(* internal/graph/graph.go: the dependency graph of a project's migrations *)
(* and the plans drawn from it.                                            *)
(*                                                                         *)
(* A migration key is a record [app, name] of numbers that sort as the     *)
(* strings do.  A graph is a record: nodes is the key set of NodeMap (and  *)
(* of Nodes, which the code keeps in step with it), dummies are the nodes  *)
(* without a migration, edges holds a pair <<child, parent>> for each      *)
(* dependency.  The two adjacency sets of a Node are both read off edges.  *)
(***************************************************************************)
EXTENDS Naturals, Sequences, FiniteSets, SequencesExt

CONSTANT Key       \* every migration key the project can mention

KeyLess(a, b) == a.app < b.app \/ (a.app = b.app /\ a.name < b.name)

SortKeys(S) ==
    [i \in 1..Cardinality(S) |->
        CHOOSE k \in S : Cardinality({j \in S : KeyLess(j, k)}) = i - 1]

(* slices.SortFunc returns exactly the elements it was given.              *)
ASSUME SortKeysAssumption ==
    \A S \in SUBSET Key : SortKeys(S) \in Seq(S) /\ ToSet(SortKeys(S)) = S

-----------------------------------------------------------------------------
(* The graph and its mutations.                                            *)

EmptyGraph == [nodes |-> {}, dummies |-> {}, edges |-> {}]

Parents(g, k)  == {e[2] : e \in {d \in g.edges : d[1] = k}}
Children(g, k) == {e[1] : e \in {d \in g.edges : d[2] = k}}

AddNodes(g, keys) == [g EXCEPT !.nodes = @ \cup keys]

AddDependencies(g, pairs) ==
    LET missing == (UNION {{e[1], e[2]} : e \in pairs}) \ g.nodes
    IN  [nodes   |-> g.nodes \cup missing,
         dummies |-> g.dummies \cup missing,
         edges   |-> g.edges \cup pairs]

(* Variant: the edges move but the replaced nodes stay.                    *)
RemoveReplacedEdges(g, replacement, replaced) ==
    LET moved(k) == IF k \in replaced THEN replacement ELSE k
    IN  [nodes   |-> g.nodes \ (replaced \cap g.dummies),
         dummies |-> g.dummies \ replaced,
         edges   |-> {<<moved(e[1]), moved(e[2])>> :
                        e \in {d \in g.edges : ~({d[1], d[2]} \subseteq replaced)}}]

(* The replaced nodes go; an edge that crossed their border moves to the   *)
(* replacement, an edge between two of them disappears.                    *)
RemoveReplacedNodes(g, replacement, replaced) ==
    LET inside(k) == k \in replaced
        moved(k)  == IF inside(k) THEN replacement ELSE k
    IN  [nodes   |-> g.nodes \ replaced,
         dummies |-> g.dummies \ replaced,
         edges   |-> {<<moved(e[1]), moved(e[2])>> :
                        e \in {d \in g.edges : ~(inside(d[1]) /\ inside(d[2]))}}]

(* A child of the replacement is left without it.                          *)
RemoveReplacementOnly(g, replacement, replaced) ==
    [nodes   |-> g.nodes \ {replacement},
     dummies |-> g.dummies \ {replacement},
     edges   |-> {e \in g.edges : replacement \notin {e[1], e[2]}}]

(* The replacement goes; its children move to the last of the replaced     *)
(* nodes, those that are not the parent of another replaced node.          *)
RemoveReplacementNode(g, replacement, replaced) ==
    LET present == replaced \cap (g.nodes \ {replacement})
        last    == present \ UNION {Parents(g, k) : k \in present}
        kept    == {e \in g.edges : replacement \notin {e[1], e[2]}}
    IN  [nodes   |-> g.nodes \ {replacement},
         dummies |-> g.dummies \ {replacement},
         edges   |-> kept \cup (Children(g, replacement) \X last)]

ValidateConsistency(g) == g.dummies = {}

Has(g, k) == k \in g.nodes

InApp(keys, app) == {k \in keys : k.app = app}

RootNodes(g, apps) ==
    SortKeys({k \in g.nodes : k.app \in apps /\ InApp(Parents(g, k), k.app) = {}})

LeafNodes(g, apps) ==
    SortKeys({k \in g.nodes : k.app \in apps /\ InApp(Children(g, k), k.app) = {}})

-----------------------------------------------------------------------------
(* iterativeDFS.  A search is the record of its three local variables; one *)
(* turn of the loop is DFSStep.                                            *)

Item == [n : Key, processed : BOOLEAN]

DFSStart(k) ==
    [stack |-> <<[n |-> k, processed |-> FALSE]>>, seen |-> {}, visited |-> <<>>]

DFSNeighbours(g, k, forwards) ==
    IF forwards THEN Parents(g, k) ELSE Children(g, k)

DFSPush(g, k, forwards) ==
    LET next == SortKeys(DFSNeighbours(g, k, forwards))
    IN  <<[n |-> k, processed |-> TRUE]>>
          \o [i \in 1..Len(next) |-> [n |-> next[i], processed |-> FALSE]]

(* Variant of the loop body a slip would give: a node listed before its   *)
(* neighbours instead of after them.                                       *)
DFSStepPreOrder(g, forwards, s) ==
    LET it   == s.stack[Len(s.stack)]
        rest == SubSeq(s.stack, 1, Len(s.stack) - 1)
    IN  IF it.n \in s.seen
          THEN [s EXCEPT !.stack = rest]
        ELSE [stack   |-> rest \o Tail(DFSPush(g, it.n, forwards)),
              seen    |-> s.seen \cup {it.n},
              visited |-> Append(s.visited, it.n)]

(* A seen node is left on the stack.                                       *)
DFSStepNoPop(g, forwards, s) ==
    LET it   == s.stack[Len(s.stack)]
        rest == SubSeq(s.stack, 1, Len(s.stack) - 1)
    IN  IF it.n \in s.seen
          THEN s
        ELSE IF it.processed
          THEN [stack |-> rest, seen |-> s.seen \cup {it.n},
                visited |-> Append(s.visited, it.n)]
        ELSE [s EXCEPT !.stack = rest \o DFSPush(g, it.n, forwards)]

(* The target left out of its own plan.                                    *)
DFSStepNoTarget(g, forwards, s) ==
    LET it   == s.stack[Len(s.stack)]
        rest == SubSeq(s.stack, 1, Len(s.stack) - 1)
    IN  IF it.n \in s.seen \/ (it.processed /\ rest = <<>>)
          THEN [s EXCEPT !.stack = rest]
        ELSE IF it.processed
          THEN [stack |-> rest, seen |-> s.seen \cup {it.n},
                visited |-> Append(s.visited, it.n)]
        ELSE [s EXCEPT !.stack = rest \o DFSPush(g, it.n, forwards)]

DFSStep(g, forwards, s) ==
    LET it   == s.stack[Len(s.stack)]
        rest == SubSeq(s.stack, 1, Len(s.stack) - 1)
    IN  IF it.n \in s.seen
          THEN [s EXCEPT !.stack = rest]
        ELSE IF it.processed
          THEN [stack |-> rest, seen |-> s.seen \cup {it.n},
                visited |-> Append(s.visited, it.n)]
        ELSE [s EXCEPT !.stack = rest \o DFSPush(g, it.n, forwards)]

IterativeDFS(g, start, forwards) ==
    LET run[s \in [stack : Seq(Item), seen : SUBSET Key, visited : Seq(Key)]] ==
            IF s.stack = <<>> THEN s.visited ELSE run[DFSStep(g, forwards, s)]
    IN  run[DFSStart(start)]

ForwardsPlan(g, k)  == IterativeDFS(g, k, TRUE)
BackwardsPlan(g, k) == IterativeDFS(g, k, FALSE)

-----------------------------------------------------------------------------
(* Reference definitions the algorithms are checked against.               *)

Closed(g, S, forwards) == \A k \in S : DFSNeighbours(g, k, forwards) \subseteq S

(* What k reaches: the least closed set that holds it.                     *)
Reach(g, k, forwards) ==
    {n \in g.nodes : \A S \in SUBSET g.nodes :
        k \in S /\ Closed(g, S, forwards) => n \in S}

(* Every non-empty set of nodes has a member with no child in the set.     *)
Acyclic(g) ==
    \A S \in SUBSET g.nodes :
        S # {} => \E k \in S : Children(g, k) \cap S = {}
=============================================================================
