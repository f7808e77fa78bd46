-------------------------- MODULE GraphCycles_proofs --------------------------
(***************************************************************************)
(* For every set of keys and every graph over it: a graph EnsureNotCyclic  *)
(* accepts is acyclic, and what it reports is a cycle.                     *)
(***************************************************************************)
EXTENDS GraphCycles, SequenceTheorems, WellFoundedInduction, TLAPS

(* The stack is a path: each node is a child of the one below it.          *)
Chain ==
    \A i \in 1..(Len(stack) - 1) : stack[i + 1] \in Children(graph, stack[i])

(* A node is still to do, on the stack, or finished.                       *)
Covered == graph.nodes \subseteq todo \cup ToSet(stack) \cup ToSet(finished)

(* A node finishes after all of its children.                              *)
ChildrenFirst ==
    \A i \in 1..Len(finished) : \A k \in Children(graph, finished[i]) :
        \E j \in 1..(i - 1) : finished[j] = k

AtEnd == result = "nil" => todo = {} /\ stack = <<>>

IInv == TypeOK /\ Chain /\ Covered /\ ChildrenFirst /\ AtEnd /\ ReportedIsCycle

-----------------------------------------------------------------------------
LEMMA ChildrenType ==
    ASSUME NEW g \in Graphs, NEW k
    PROVE  Children(g, k) \subseteq Key
BY DEF Graphs, Children

LEMMA ChildEdge ==
    ASSUME NEW g \in Graphs, NEW k, NEW c \in Children(g, k)
    PROVE  <<c, k>> \in g.edges
BY DEF Graphs, Children

LEMMA AppendShape ==
    ASSUME NEW v \in Seq(Key), NEW k \in Key
    PROVE  /\ Append(v, k) \in Seq(Key)
           /\ Len(Append(v, k)) = Len(v) + 1
           /\ Len(v) \in Nat
           /\ \A i \in 1..Len(v) : Append(v, k)[i] = v[i]
           /\ Append(v, k)[Len(v) + 1] = k
           /\ ToSet(Append(v, k)) = ToSet(v) \cup {k}
<1> DEFINE w == Append(v, k)
<1>1. /\ w \in Seq(Key) /\ Len(w) = Len(v) + 1 /\ Len(v) \in Nat
      /\ \A i \in 1..Len(v) : w[i] = v[i]
      /\ w[Len(v) + 1] = k
  OBVIOUS
<1> HIDE DEF w
<1>2. DOMAIN v = 1..Len(v) /\ DOMAIN w = 1..(Len(v) + 1)
  BY <1>1
<1>3. ToSet(w) = ToSet(v) \cup {k}
  BY <1>1, <1>2 DEF ToSet
<1> QED BY <1>1, <1>3 DEF w

LEMMA FrontShape ==
    ASSUME NEW v \in Seq(Key), v # <<>>
    PROVE  LET w == SubSeq(v, 1, Len(v) - 1) IN
           /\ Len(v) \in Nat \ {0} /\ v[Len(v)] \in Key
           /\ w \in Seq(Key) /\ Len(w) = Len(v) - 1
           /\ \A i \in 1..(Len(v) - 1) : w[i] = v[i]
           /\ ToSet(v) = ToSet(w) \cup {v[Len(v)]}
<1> DEFINE w == SubSeq(v, 1, Len(v) - 1)
<1>1. Len(v) \in Nat \ {0} /\ v[Len(v)] \in Key
  BY EmptySeq
<1>2. /\ w \in Seq(Key) /\ Len(w) = Len(v) - 1
      /\ \A i \in 1..(Len(v) - 1) : w[i] = v[i]
  <2> DEFINE n == Len(v) - 1
  <2>1. n \in Nat /\ 1 \in Int /\ n \in Int /\ \A i \in 1..n : v[i] \in Key
    BY <1>1
  <2>2. /\ w \in Seq(Key) /\ Len(w) = (IF 1 =< n THEN n - 1 + 1 ELSE 0)
        /\ \A i \in 1..(n - 1 + 1) : w[i] = v[1 + i - 1]
    <3> HIDE DEF n
    <3> QED BY <2>1, SubSeqProperties DEF n
  <2> HIDE DEF n, w
  <2>3. Len(w) = n /\ \A i \in 1..n : w[i] = v[i]
    BY <2>1, <2>2
  <2> QED BY <2>2, <2>3 DEF n
<1> HIDE DEF w
<1>3. DOMAIN v = 1..Len(v) /\ DOMAIN w = 1..Len(w)
  BY <1>2
<1>4. ToSet(v) = ToSet(w) \cup {v[Len(v)]}
  <2>1. \A i \in 1..Len(v) : i = Len(v) \/ i \in 1..(Len(v) - 1)
    BY <1>1
  <2>2. \A i \in 1..(Len(v) - 1) : i \in 1..Len(v)
    BY <1>1
  <2>3. ASSUME NEW k \in ToSet(v) PROVE k \in ToSet(w) \cup {v[Len(v)]}
    <3>1. PICK i \in 1..Len(v) : v[i] = k
      BY <1>3 DEF ToSet
    <3> QED BY <1>2, <1>3, <2>1, <3>1 DEF ToSet
  <2>4. ASSUME NEW k \in ToSet(w) PROVE k \in ToSet(v)
    <3>1. PICK i \in 1..(Len(v) - 1) : w[i] = k
      BY <1>2, <1>3 DEF ToSet
    <3> QED BY <1>2, <1>3, <2>2, <3>1 DEF ToSet
  <2>5. v[Len(v)] \in ToSet(v)
    BY <1>1, <1>3 DEF ToSet
  <2> QED BY <2>3, <2>4, <2>5
<1> QED BY <1>1, <1>2, <1>4 DEF w

(* The child at which the scan of the children stops.                      *)
LEMMA FirstStop ==
    ASSUME NEW S \in SUBSET Key, S # {}
    PROVE  SortKeys(S)[1] \in S
<1>1. SortKeys(S) \in Seq(S) /\ ToSet(SortKeys(S)) = S
  BY SortKeysAssumption
<1>2. SortKeys(S) # <<>>
  BY <1>1 DEF ToSet
<1>3. Len(SortKeys(S)) \in Nat \ {0}
  BY <1>1, <1>2, EmptySeq
<1> QED BY <1>1, <1>3

-----------------------------------------------------------------------------
LEMMA InitInv == Init => IInv
<1> SUFFICES ASSUME Init PROVE IInv
  OBVIOUS
<1>1. graph.nodes = Key
  BY DEF Init, Graphs
<1> QED BY <1>1 DEF Init, IInv, TypeOK, Chain, Covered, ChildrenFirst, AtEnd,
               ReportedIsCycle

(* A step that finishes no node keeps ChildrenFirst.                       *)
LEMMA FinishedFixed ==
    ASSUME ChildrenFirst, graph' = graph, finished' = finished
    PROVE  ChildrenFirst'
<1>1. SUFFICES ASSUME NEW i \in 1..Len(finished'), NEW k \in Children(graph, finished[i])
               PROVE  \E j \in 1..(i - 1) : finished'[j] = k
  BY DEF ChildrenFirst
<1>2. i \in 1..Len(finished)
  OBVIOUS
<1>3. \E j \in 1..(i - 1) : finished[j] = k
  BY <1>1, <1>2 DEF ChildrenFirst
<1> QED BY <1>3

LEMMA StartSearchInv == IInv /\ StartSearch => IInv'
<1> SUFFICES ASSUME IInv, StartSearch PROVE IInv'
  OBVIOUS
<1> DEFINE first == SortKeys(todo)[1]
<1>1. first \in todo /\ first \in Key
  BY FirstStop DEF IInv, TypeOK, StartSearch
<1>2. /\ todo' = todo \ {first} /\ stack' = <<first>> /\ stack = <<>>
      /\ graph' = graph /\ result' = result /\ cycle' = cycle
      /\ finished' = finished /\ result = "running"
  BY DEF StartSearch
<1> HIDE DEF first
<1>3. stack' \in Seq(Key) /\ Len(stack') = 1 /\ ToSet(stack') = {first}
  BY <1>1, <1>2 DEF ToSet
<1>4. TypeOK'
  BY <1>1, <1>2, <1>3 DEF IInv, TypeOK
<1>5. Chain'
  BY <1>3 DEF Chain
<1>6. Covered'
  BY <1>1, <1>2, <1>3 DEF IInv, Covered, ToSet
<1>7. ChildrenFirst'
  BY <1>2, FinishedFixed DEF IInv
<1>8. AtEnd' /\ ReportedIsCycle'
  BY <1>2 DEF AtEnd, ReportedIsCycle
<1> QED BY <1>4, <1>5, <1>6, <1>7, <1>8 DEF IInv

LEMMA ReportCycleInv == IInv /\ ReportCycle => IInv'
<1> SUFFICES ASSUME IInv, ReportCycle PROVE IInv'
  OBVIOUS
<1> DEFINE child == SortKeys(StopAt)[1]
           L == Len(stack)
<1>1. L \in Nat \ {0} /\ stack \in Seq(Key) /\ graph \in Graphs
  BY EmptySeq DEF IInv, TypeOK, ReportCycle
<1>2. StopAt \in SUBSET Key /\ StopAt # {}
  BY <1>1, ChildrenType DEF StopAt, ReportCycle
<1>3. child \in Children(graph, stack[L])
  BY <1>2, FirstStop DEF StopAt, Top
<1>4. PICK i \in 1..L : stack[i] = child /\ cycle' = SubSeq(stack, i, L)
  BY DEF ReportCycle
<1>5. /\ cycle' \in Seq(Key) /\ Len(cycle') = L - i + 1
      /\ \A j \in 1..(L - i + 1) : cycle'[j] = stack[i + j - 1]
  <2>1. \A j \in i..L : stack[j] \in Key
    BY <1>1
  <2>2. i \in Int /\ L \in Int /\ i =< L
    BY <1>1
  <2> HIDE DEF L
  <2> QED BY <1>4, <2>1, <2>2, SubSeqProperties
<1>6. /\ result' = "cycle" /\ graph' = graph /\ todo' = todo
      /\ stack' = stack /\ finished' = finished
  BY DEF ReportCycle
<1>7. TypeOK'
  BY <1>5, <1>6 DEF IInv, TypeOK
<1>8. Chain' /\ Covered' /\ ChildrenFirst' /\ AtEnd'
  <2>1. Chain' /\ Covered'
    BY <1>6 DEF IInv, Chain, Covered
  <2>2. ChildrenFirst'
    BY <1>6, FinishedFixed DEF IInv
  <2>3. AtEnd'
    BY <1>6 DEF AtEnd
  <2> QED BY <2>1, <2>2, <2>3
<1>9. ReportedIsCycle'
  <2> HIDE DEF L, child
  <2>1. cycle' # <<>>
    <3>1. Len(cycle') # 0
      BY <1>1, <1>5
    <3> QED BY <1>5, <3>1
  <2>2. ASSUME NEW j \in 1..(Len(cycle') - 1)
        PROVE  <<cycle'[j + 1], cycle'[j]>> \in graph.edges
    <3>0. /\ j \in 1..(L - i + 1) /\ j + 1 \in 1..(L - i + 1)
          /\ i + j - 1 \in 1..(L - 1) /\ i + (j + 1) - 1 = (i + j - 1) + 1
      <4>1. j \in 1..(L - i)
        BY <1>1, <1>5
      <4> QED BY <1>1, <4>1
    <3>1. /\ i + j - 1 \in 1..(L - 1)
          /\ cycle'[j] = stack[i + j - 1] /\ cycle'[j + 1] = stack[(i + j - 1) + 1]
      <4>1. cycle'[j] = stack[i + j - 1]
        BY <1>5, <3>0
      <4>2. cycle'[j + 1] = stack[i + (j + 1) - 1]
        BY <1>5, <3>0
      <4> QED BY <3>0, <4>1, <4>2
    <3>2. stack[(i + j - 1) + 1] \in Children(graph, stack[i + j - 1])
      BY <3>1 DEF IInv, Chain, L
    <3> QED BY <1>1, <3>1, <3>2, ChildEdge
  <2>3. cycle'[1] = child /\ cycle'[Len(cycle')] = stack[L]
    <3>1. 1 \in 1..(L - i + 1) /\ i + 1 - 1 = i
      BY <1>1
    <3>2. L - i + 1 \in 1..(L - i + 1) /\ i + (L - i + 1) - 1 = L
      BY <1>1
    <3>3. cycle'[1] = stack[i + 1 - 1]
      BY <1>5, <3>1
    <3>4. cycle'[L - i + 1] = stack[i + (L - i + 1) - 1]
      BY <1>5, <3>2
    <3> QED BY <1>4, <1>5, <3>1, <3>2, <3>3, <3>4
  <2>4. <<child, stack[L]>> \in graph.edges
    BY <1>1, <1>3, ChildEdge
  <2> QED BY <1>6, <2>1, <2>2, <2>3, <2>4 DEF ReportedIsCycle
<1> QED BY <1>7, <1>8, <1>9 DEF IInv

LEMMA PushChildInv == IInv /\ PushChild => IInv'
<1> SUFFICES ASSUME IInv, PushChild PROVE IInv'
  OBVIOUS
<1> DEFINE child == SortKeys(StopAt)[1]
           L == Len(stack)
<1>1. L \in Nat \ {0} /\ stack \in Seq(Key) /\ graph \in Graphs
  BY EmptySeq DEF IInv, TypeOK, PushChild
<1>2. StopAt \in SUBSET Key /\ StopAt # {}
  BY <1>1, ChildrenType DEF StopAt, PushChild
<1>3. child \in Children(graph, stack[L]) /\ child \in Key
  BY <1>2, FirstStop DEF StopAt, Top
<1>4. /\ stack' = Append(stack, child) /\ todo' = todo \ {child}
      /\ graph' = graph /\ result' = result /\ cycle' = cycle
      /\ finished' = finished /\ result = "running"
  BY DEF PushChild
<1> HIDE DEF child
<1>5. /\ stack' \in Seq(Key) /\ Len(stack') = L + 1
      /\ \A i \in 1..L : stack'[i] = stack[i]
      /\ stack'[L + 1] = child /\ ToSet(stack') = ToSet(stack) \cup {child}
  BY <1>1, <1>3, <1>4, AppendShape
<1>6. TypeOK'
  BY <1>4, <1>5 DEF IInv, TypeOK
<1>7. Chain'
  <2> SUFFICES ASSUME NEW i \in 1..L
               PROVE  stack'[i + 1] \in Children(graph, stack'[i])
    BY <1>1, <1>4, <1>5 DEF Chain
  <2>1. CASE i = L
    BY <1>1, <1>3, <1>5, <2>1
  <2>2. CASE i # L
    <3>1. i \in 1..(L - 1) /\ i + 1 \in 1..L
      BY <1>1, <2>2
    <3> QED BY <1>5, <3>1 DEF IInv, Chain
  <2> QED BY <2>1, <2>2
<1>8. Covered'
  BY <1>4, <1>5 DEF IInv, Covered
<1>9. ChildrenFirst' /\ AtEnd' /\ ReportedIsCycle'
  BY <1>4, FinishedFixed DEF IInv, AtEnd, ReportedIsCycle
<1> QED BY <1>6, <1>7, <1>8, <1>9 DEF IInv

LEMMA PopInv == IInv /\ Pop => IInv'
<1> SUFFICES ASSUME IInv, Pop PROVE IInv'
  OBVIOUS
<1> DEFINE L == Len(stack)
           v == finished
           w == finished'
<1>1. /\ stack \in Seq(Key) /\ stack # <<>> /\ graph \in Graphs
      /\ v \in Seq(Key) /\ StopAt = {} /\ graph.nodes = Key
  BY DEF IInv, TypeOK, Pop, Graphs
<1>2. /\ L \in Nat \ {0} /\ Top \in Key
      /\ stack' \in Seq(Key) /\ Len(stack') = L - 1
      /\ \A i \in 1..(L - 1) : stack'[i] = stack[i]
      /\ ToSet(stack) = ToSet(stack') \cup {Top}
  BY <1>1, FrontShape DEF Pop, Top
<1>3. /\ w = Append(v, Top) /\ graph' = graph /\ todo' = todo
      /\ result' = result /\ cycle' = cycle /\ result = "running"
  BY DEF Pop
<1>4. /\ w \in Seq(Key) /\ Len(w) = Len(v) + 1 /\ Len(v) \in Nat
      /\ \A i \in 1..Len(v) : w[i] = v[i]
      /\ w[Len(v) + 1] = Top /\ ToSet(w) = ToSet(v) \cup {Top}
  BY <1>1, <1>2, <1>3, AppendShape
<1>5. TypeOK'
  BY <1>2, <1>3, <1>4 DEF IInv, TypeOK
<1>6. Chain'
  <2> SUFFICES ASSUME NEW i \in 1..(L - 1 - 1)
               PROVE  stack'[i + 1] \in Children(graph, stack'[i])
    BY <1>2, <1>3 DEF Chain
  <2>1. i \in 1..(L - 1) /\ i + 1 \in 1..(L - 1)
    BY <1>2
  <2> QED BY <1>2, <2>1 DEF IInv, Chain
<1>7. Covered'
  BY <1>2, <1>3, <1>4 DEF IInv, Covered
<1>8. ChildrenFirst'
  <2>1. Children(graph, Top) \subseteq ToSet(v)
    BY <1>1, ChildrenType DEF IInv, Covered, StopAt
  <2>2. \A k \in ToSet(v) : \E j \in 1..Len(v) : v[j] = k
    BY <1>1 DEF ToSet
  <2>3. \A i \in 1..Len(v) : \A k \in Children(graph, v[i]) :
            \E j \in 1..(i - 1) : v[j] = k
    BY DEF IInv, ChildrenFirst
  <2> HIDE DEF v, w
  <2>4. ASSUME NEW i \in 1..Len(w), NEW k \in Children(graph, w[i])
        PROVE  \E j \in 1..(i - 1) : w[j] = k
    <3>1. CASE i = Len(v) + 1
      <4>1. PICK j \in 1..Len(v) : v[j] = k
        BY <1>4, <2>1, <2>2, <3>1
      <4> QED BY <1>4, <3>1, <4>1
    <3>2. CASE i # Len(v) + 1
      <4>1. i \in 1..Len(v) /\ w[i] = v[i]
        BY <1>4, <3>2
      <4>2. PICK j \in 1..(i - 1) : v[j] = k
        BY <2>3, <4>1
      <4> QED BY <1>4, <4>1, <4>2
    <3> QED BY <3>1, <3>2
  <2> QED BY <1>3, <2>4 DEF ChildrenFirst, w
<1>9. AtEnd' /\ ReportedIsCycle'
  BY <1>3 DEF AtEnd, ReportedIsCycle
<1> QED BY <1>5, <1>6, <1>7, <1>8, <1>9 DEF IInv

LEMMA NextInv == IInv /\ [Next]_vars => IInv'
<1> SUFFICES ASSUME IInv, [Next]_vars PROVE IInv'
  OBVIOUS
<1>1. CASE ReturnNil
  BY <1>1 DEF ReturnNil, IInv, TypeOK, Chain, Covered, ChildrenFirst, AtEnd,
              ReportedIsCycle
<1>2. CASE UNCHANGED vars
  BY <1>2 DEF vars, IInv, TypeOK, Chain, Covered, ChildrenFirst, AtEnd,
              ReportedIsCycle
<1> QED BY <1>1, <1>2, StartSearchInv, ReportCycleInv, PushChildInv, PopInv
        DEF Next, Turn, Returned

(* The invariant holds throughout the check.                               *)
THEOREM Invariance == Spec => []IInv
BY InitInv, NextInv, PTL DEF Spec

(* The variables of EnsureNotCyclic keep their types.                      *)
THEOREM Typing == Spec => []TypeOK
<1>1. IInv => TypeOK
  BY DEF IInv
<1> QED BY <1>1, Invariance, PTL

(* Whatever the graph, the keys a CircularDependencyError names form a     *)
(* cycle of it.                                                            *)
THEOREM ReportSound == Spec => []ReportedIsCycle
<1>1. IInv => ReportedIsCycle
  BY DEF IInv
<1> QED BY <1>1, Invariance, PTL

(* Whatever the graph, it is acyclic when EnsureNotCyclic returns nil.     *)
THEOREM AcceptSound == Spec => []AcceptedIsAcyclic
<1>1. IInv => AcceptedIsAcyclic
  <2> SUFFICES ASSUME IInv, result = "nil",
                      NEW S \in SUBSET graph.nodes, S # {}
               PROVE  \E k \in S : Children(graph, k) \cap S = {}
    BY DEF AcceptedIsAcyclic, Acyclic
  <2>1. S \subseteq ToSet(finished) /\ finished \in Seq(Key)
    BY DEF IInv, AtEnd, Covered, ToSet, TypeOK
  <2> DEFINE T == {i \in Nat : i \in 1..Len(finished) /\ finished[i] \in S}
  <2>2. T \subseteq Nat /\ T # {}
    <3>1. PICK k \in S : TRUE
      OBVIOUS
    <3>2. PICK i \in 1..Len(finished) : finished[i] = k
      BY <2>1, <3>1 DEF ToSet
    <3>3. i \in T
      BY <3>2
    <3> QED BY <3>3
  <2>3. PICK i \in T : \A j \in T : ~(<<j, i>> \in OpToRel(<, Nat))
    <3> HIDE DEF T
    <3> QED BY <2>2, WFMin, NatLessThanWellFounded
  <2>4. \A j \in T : ~(j < i)
    BY <2>3 DEF OpToRel
  <2>5. i \in 1..Len(finished) /\ finished[i] \in S
    BY <2>3
  <2>6. ASSUME NEW c \in Children(graph, finished[i]) \cap S PROVE FALSE
    <3>1. PICK j \in 1..(i - 1) : finished[j] = c
      BY <2>5 DEF IInv, ChildrenFirst
    <3>2. j \in 1..Len(finished) /\ j < i /\ j \in Nat
      BY <2>1, <2>5
    <3>3. j \in T
      BY <3>1, <3>2, <2>6
    <3> QED BY <2>4, <3>2, <3>3
  <2> QED BY <2>5, <2>6
<1> QED BY <1>1, Invariance, PTL
=============================================================================
