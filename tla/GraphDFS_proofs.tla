--------------------------- MODULE GraphDFS_proofs ---------------------------
(***************************************************************************)
(* For every set of keys and every graph over it: the plan iterativeDFS    *)
(* builds lists a migration only after its neighbours, never twice, and    *)
(* holds, when the loop ends, exactly what the target reaches, the target  *)
(* last.                                                                   *)
(***************************************************************************)
EXTENDS GraphDFS, SequenceTheorems, WellFoundedInduction, TLAPS

(* A processed item waits for its neighbours: each of them is already in   *)
(* the plan or lies above the item on the stack.                           *)
Waiting ==
    \A i \in 1..Len(search.stack) : search.stack[i].processed =>
        \A k \in Neighbours(search.stack[i].n) :
            \/ k \in search.seen
            \/ \E j \in (i + 1)..Len(search.stack) : search.stack[j].n = k

(* An item was pushed as a neighbour of the nearest processed item below.  *)
Path ==
    \A i, j \in 1..Len(search.stack) :
        /\ i < j /\ search.stack[i].processed
        /\ \A h \in (i + 1)..(j - 1) : ~search.stack[h].processed
        => search.stack[j].n \in Neighbours(search.stack[i].n)

(* No processed item is in the plan yet.                                   *)
Unseen ==
    \A i \in 1..Len(search.stack) :
        search.stack[i].processed => search.stack[i].n \notin search.seen

(* The target lies at the bottom of the stack until the loop ends.         *)
Bottom ==
    IF search.stack = <<>>
      THEN search.visited # <<>> /\ search.visited[Len(search.visited)] = start
      ELSE /\ search.stack[1].n = start /\ start \notin search.seen
           /\ Len(search.stack) > 1 => search.stack[1].processed

SeenIsVisited == search.seen = ToSet(search.visited)

(* The search stays inside every closed set that holds the target.         *)
Inside ==
    \A S \in SUBSET graph.nodes :
        start \in S /\ Closed(graph, S, forwards) =>
            /\ search.seen \subseteq S
            /\ \A i \in 1..Len(search.stack) : search.stack[i].n \in S

IInv == /\ TypeOK /\ Waiting /\ Path /\ Unseen /\ Bottom
        /\ SeenIsVisited /\ Inside /\ NeighboursFirst /\ NoDuplicates

-----------------------------------------------------------------------------
LEMMA NeighboursType ==
    ASSUME NEW g \in Graphs, NEW k, NEW f
    PROVE  DFSNeighbours(g, k, f) \subseteq Key
BY DEF Graphs, DFSNeighbours, Parents, Children

LEMMA ConcatShape ==
    \A S : \A a, b \in Seq(S) :
        /\ a \o b \in Seq(S) /\ Len(a \o b) = Len(a) + Len(b)
        /\ \A i \in 1..Len(a) : (a \o b)[i] = a[i]
        /\ \A i \in 1..Len(b) : (a \o b)[Len(a) + i] = b[i]
<1> SUFFICES ASSUME NEW S, NEW a \in Seq(S), NEW b \in Seq(S)
             PROVE  /\ a \o b \in Seq(S) /\ Len(a \o b) = Len(a) + Len(b)
                    /\ \A i \in 1..Len(a) : (a \o b)[i] = a[i]
                    /\ \A i \in 1..Len(b) : (a \o b)[Len(a) + i] = b[i]
  OBVIOUS
<1> QED BY ConcatProperties

(* What an expansion pushes: the node itself, then one item for each of    *)
(* its neighbours.                                                         *)
LEMMA PushShape ==
    ASSUME NEW g \in Graphs, NEW k \in Key, NEW f
    PROVE  LET P == DFSPush(g, k, f) IN
           /\ P \in Seq(Item)
           /\ Len(P) \in Nat \ {0}
           /\ P[1].n = k /\ P[1].processed
           /\ \A i \in 1..(Len(P) - 1) : /\ P[1 + i].n \in DFSNeighbours(g, k, f)
                                         /\ ~P[1 + i].processed
           /\ \A m \in DFSNeighbours(g, k, f) :
                 \E i \in 1..(Len(P) - 1) : P[1 + i].n = m
<1> DEFINE S == DFSNeighbours(g, k, f)
           next == SortKeys(S)
           Q == [i \in 1..Len(next) |-> [n |-> next[i], processed |-> FALSE]]
           H == <<[n |-> k, processed |-> TRUE]>>
           P == DFSPush(g, k, f)
<1>1. S \in SUBSET Key
  BY NeighboursType
<1>2. next \in Seq(S) /\ ToSet(next) = S
  BY <1>1, SortKeysAssumption
<1>3. /\ Len(next) \in Nat
      /\ \A i \in 1..Len(next) : next[i] \in S /\ next[i] \in Key
      /\ \A m \in S : \E i \in 1..Len(next) : next[i] = m
  BY <1>1, <1>2 DEF ToSet
<1>4. P = H \o Q
  BY DEF DFSPush
<1> HIDE DEF next, S, P
<1>5. Q \in Seq(Item) /\ Len(Q) = Len(next)
  BY <1>3 DEF Item
<1>6. \A i \in 1..Len(next) : Q[i].n = next[i] /\ ~Q[i].processed
  <2> TAKE i \in 1..Len(next)
  <2>1. Q[i] = [n |-> next[i], processed |-> FALSE]
    OBVIOUS
  <2> HIDE DEF Q
  <2> QED BY <2>1
<1>7. H \in Seq(Item) /\ Len(H) = 1 /\ H[1].n = k /\ H[1].processed
  BY DEF Item
<1> HIDE DEF Q, H
<1>8. /\ P \in Seq(Item) /\ Len(P) = 1 + Len(next)
      /\ P[1] = H[1]
      /\ \A i \in 1..Len(next) : P[1 + i] = Q[i]
  <2>1. /\ P \in Seq(Item) /\ Len(P) = Len(H) + Len(Q)
        /\ \A i \in 1..Len(H) : P[i] = H[i]
        /\ \A i \in 1..Len(Q) : P[Len(H) + i] = Q[i]
    <3>1. H \in Seq(Item) /\ Q \in Seq(Item)
      BY <1>5, <1>7
    <3>2. /\ H \o Q \in Seq(Item) /\ Len(H \o Q) = Len(H) + Len(Q)
          /\ \A i \in 1..Len(H) : (H \o Q)[i] = H[i]
          /\ \A i \in 1..Len(Q) : (H \o Q)[Len(H) + i] = Q[i]
      BY <3>1, ConcatShape
    <3> QED BY <3>2, <1>4, Zenon
  <2> QED BY <2>1, <1>3, <1>5, <1>7
<1>9. Len(P) - 1 = Len(next) /\ Len(P) \in Nat \ {0}
  BY <1>3, <1>8
<1>10. P[1].n = k /\ P[1].processed
  BY <1>7, <1>8
<1>11. \A i \in 1..Len(next) : P[1 + i].n \in S /\ ~P[1 + i].processed
  <2> TAKE i \in 1..Len(next)
  <2>1. P[1 + i] = Q[i] /\ Q[i].n \in S /\ ~Q[i].processed
    BY <1>3, <1>6, <1>8
  <2> QED BY <2>1
<1>12. \A m \in S : \E i \in 1..Len(next) : P[1 + i].n = m
  <2> TAKE m \in S
  <2>1. PICK i \in 1..Len(next) : next[i] = m
    BY <1>3
  <2>2. P[1 + i] = Q[i] /\ Q[i].n = m
    BY <2>1, <1>6, <1>8
  <2> QED BY <2>2
<1> QED BY <1>8, <1>9, <1>10, <1>11, <1>12 DEF P, S

-----------------------------------------------------------------------------
(* The three branches of the loop body, as facts about the stack.          *)
LEMMA TurnCases ==
    ASSUME TypeOK, Turn
    PROVE  LET s == search.stack
               t == search'.stack
               L == Len(search.stack)
               it == search.stack[Len(search.stack)]
           IN
           /\ L \in Nat \ {0} /\ it \in Item /\ s[L] = it
           /\ t \in Seq(Item)
           /\ graph' = graph /\ start' = start /\ forwards' = forwards
           /\ \/ /\ it.n \in search.seen
                 /\ Len(t) = L - 1
                 /\ \A i \in 1..(L - 1) : t[i] = s[i]
                 /\ search'.seen = search.seen /\ search'.visited = search.visited
              \/ /\ it.n \notin search.seen /\ it.processed
                 /\ Len(t) = L - 1
                 /\ \A i \in 1..(L - 1) : t[i] = s[i]
                 /\ search'.seen = search.seen \cup {it.n}
                 /\ search'.visited = Append(search.visited, it.n)
              \/ /\ it.n \notin search.seen /\ ~it.processed
                 /\ Len(t) \in Nat /\ Len(t) >= L
                 /\ \A i \in 1..(L - 1) : t[i] = s[i]
                 /\ t[L].n = it.n /\ t[L].processed
                 /\ \A i \in 1..(Len(t) - L) : /\ t[L + i].n \in Neighbours(it.n)
                                               /\ ~t[L + i].processed
                 /\ \A m \in Neighbours(it.n) :
                       \E i \in 1..(Len(t) - L) : t[L + i].n = m
                 /\ search'.seen = search.seen /\ search'.visited = search.visited
<1> DEFINE s == search.stack
           t == search'.stack
           L == Len(s)
           it == s[L]
           rest == SubSeq(s, 1, L - 1)
           P == DFSPush(graph, it.n, forwards)
<1>1. s \in Seq(Item) /\ L \in Nat \ {0} /\ it \in Item /\ it.n \in Key
  <2>1. s \in Seq(Item) /\ s # <<>>
    BY DEF TypeOK, Turn
  <2>2. L \in Nat \ {0}
    BY <2>1, EmptySeq
  <2>3. it \in Item
    BY <2>1, <2>2
  <2> QED BY <2>1, <2>2, <2>3 DEF Item
<1>2. rest \in Seq(Item) /\ Len(rest) = L - 1 /\ \A i \in 1..(L - 1) : rest[i] = s[i]
  BY <1>1
<1>3. /\ P \in Seq(Item) /\ Len(P) \in Nat \ {0}
      /\ P[1].n = it.n /\ P[1].processed
      /\ \A i \in 1..(Len(P) - 1) : P[1 + i].n \in Neighbours(it.n) /\ ~P[1 + i].processed
      /\ \A m \in Neighbours(it.n) : \E i \in 1..(Len(P) - 1) : P[1 + i].n = m
  <2> HIDE DEF it
  <2>1. graph \in Graphs
    BY DEF TypeOK
  <2> QED BY <1>1, <2>1, PushShape DEF Neighbours
<1>4. search' = DFSStep(graph, forwards, search)
  BY DEF Turn
<1>5. /\ search = [stack |-> s, seen |-> search.seen, visited |-> search.visited]
      /\ search \in [stack : Seq(Item), seen : SUBSET Key, visited : Seq(Key)]
  BY DEF TypeOK
<1>6. CASE it.n \in search.seen
  <2>1. search' = [search EXCEPT !.stack = rest]
    BY <1>4, <1>6 DEF DFSStep
  <2>2. t = rest /\ search'.seen = search.seen /\ search'.visited = search.visited
    BY <2>1, <1>5
  <2> QED BY <1>1, <1>2, <1>6, <2>2 DEF Turn
<1>7. CASE it.n \notin search.seen /\ it.processed
  <2>1. search' = [stack |-> rest, seen |-> search.seen \cup {it.n},
                   visited |-> Append(search.visited, it.n)]
    BY <1>4, <1>7 DEF DFSStep
  <2> QED BY <1>1, <1>2, <1>7, <2>1 DEF Turn
<1>8. CASE it.n \notin search.seen /\ ~it.processed
  <2>1. search' = [search EXCEPT !.stack = rest \o P]
    BY <1>4, <1>8 DEF DFSStep
  <2>2. t = rest \o P /\ search'.seen = search.seen /\ search'.visited = search.visited
    BY <2>1, <1>5
  <2> HIDE DEF rest, P, s, t, L, it
  <2>3. /\ t \in Seq(Item) /\ Len(t) = (L - 1) + Len(P)
        /\ \A i \in 1..(L - 1) : t[i] = s[i]
        /\ \A i \in 1..Len(P) : t[(L - 1) + i] = P[i]
    <3>1. /\ t \in Seq(Item) /\ Len(t) = Len(rest) + Len(P)
          /\ \A i \in 1..Len(rest) : t[i] = rest[i]
          /\ \A i \in 1..Len(P) : t[Len(rest) + i] = P[i]
      <4>1. rest \in Seq(Item) /\ P \in Seq(Item)
        BY <1>2, <1>3
      <4>2. t = rest \o P
        BY <2>2
      <4>3. /\ rest \o P \in Seq(Item) /\ Len(rest \o P) = Len(rest) + Len(P)
            /\ \A i \in 1..Len(rest) : (rest \o P)[i] = rest[i]
            /\ \A i \in 1..Len(P) : (rest \o P)[Len(rest) + i] = P[i]
        BY <4>1, ConcatShape
      <4> QED BY <4>2, <4>3, Zenon
    <3> QED BY <1>1, <1>2, <3>1
  <2>4. Len(t) \in Nat /\ Len(t) >= L /\ t[L] = P[1] /\ Len(t) - L = Len(P) - 1
    <3>1. 1 \in 1..Len(P) /\ (L - 1) + 1 = L
      BY <1>1, <1>3
    <3> QED BY <1>1, <1>3, <2>3, <3>1
  <2>8. ASSUME NEW i \in 1..(Len(P) - 1) PROVE t[L + i] = P[1 + i]
    <3>1. 1 + i \in 1..Len(P) /\ (L - 1) + (1 + i) = L + i
      BY <1>1, <1>3
    <3> QED BY <3>1, <2>3
  <2>5. \A i \in 1..(Len(P) - 1) : t[L + i].n \in Neighbours(it.n) /\ ~t[L + i].processed
    BY <2>8, <1>3
  <2>6. \A m \in Neighbours(it.n) : \E i \in 1..(Len(P) - 1) : t[L + i].n = m
    <3> TAKE m \in Neighbours(it.n)
    <3>1. PICK i \in 1..(Len(P) - 1) : P[1 + i].n = m
      BY <1>3
    <3> QED BY <3>1, <2>8
  <2>7. graph' = graph /\ start' = start /\ forwards' = forwards
    BY DEF Turn
  <2> QED BY <1>1, <1>3, <1>8, <2>2, <2>3, <2>4, <2>5, <2>6, <2>7 DEF s, t, L, it
<1> QED BY <1>6, <1>7, <1>8

-----------------------------------------------------------------------------
(* Only the search changes in a turn.                                      *)
LEMMA NeighboursFixed ==
    ASSUME Turn
    PROVE  \A k : Neighbours(k)' = Neighbours(k)
BY DEF Turn, Neighbours

(* Appending a key the plan does not hold yet.                             *)
LEMMA AppendShape ==
    ASSUME NEW v \in Seq(Key), NEW k \in Key
    PROVE  /\ Append(v, k) \in Seq(Key)
           /\ Len(Append(v, k)) = Len(v) + 1
           /\ Len(v) \in Nat
           /\ \A i \in 1..Len(v) : Append(v, k)[i] = v[i]
           /\ Append(v, k)[Len(v) + 1] = k
           /\ ToSet(Append(v, k)) = ToSet(v) \cup {k}
           /\ Append(v, k) # <<>>
<1> DEFINE w == Append(v, k)
<1>1. /\ w \in Seq(Key) /\ Len(w) = Len(v) + 1 /\ Len(v) \in Nat
      /\ \A i \in 1..Len(v) : w[i] = v[i]
      /\ w[Len(v) + 1] = k
  OBVIOUS
<1> HIDE DEF w
<1>2. DOMAIN v = 1..Len(v) /\ DOMAIN w = 1..(Len(v) + 1)
  BY <1>1
<1>3. ToSet(w) = ToSet(v) \cup {k}
  BY <1>1, <1>2 DEF ToSet
<1>4. w # <<>>
  BY <1>1
<1> QED BY <1>1, <1>3, <1>4 DEF w

(* The stack holds nothing above its top, so an item that leaves it with   *)
(* all it waited for has all its neighbours in the plan.                   *)
LEMMA TopComplete ==
    ASSUME TypeOK, Waiting, search.stack # <<>>,
           search.stack[Len(search.stack)].processed
    PROVE  Neighbours(search.stack[Len(search.stack)].n) \subseteq search.seen
<1>1. Len(search.stack) \in Nat \ {0}
  BY EmptySeq DEF TypeOK
<1> QED BY <1>1 DEF Waiting

(* No other processed item carries the node of the top one: the item above *)
(* it would be a neighbour of that node, hence in the plan already.        *)
LEMMA TopUnique ==
    ASSUME IInv, search.stack # <<>>,
           search.stack[Len(search.stack)].processed,
           search.stack[Len(search.stack)].n \notin search.seen,
           NEW i \in 1..(Len(search.stack) - 1), search.stack[i].processed
    PROVE  search.stack[i].n # search.stack[Len(search.stack)].n
<1> DEFINE s == search.stack
           L == Len(s)
<1>1. L \in Nat \ {0}
  BY EmptySeq DEF IInv, TypeOK
<1> SUFFICES ASSUME s[i].n = s[L].n PROVE FALSE
  OBVIOUS
<1>2. Neighbours(s[i].n) \subseteq search.seen
  BY TopComplete DEF IInv
<1> DEFINE T == {d \in Nat : i + d + 1 \in 1..L /\ s[i + d + 1].processed}
<1>3. T \subseteq Nat /\ T # {}
  <2>1. i + (L - i - 1) + 1 = L /\ L - i - 1 \in Nat
    BY <1>1
  <2>2. L - i - 1 \in T
    BY <2>1, <1>1
  <2> QED BY <2>2
<1>4. PICK d \in T : \A e \in T : ~(<<e, d>> \in OpToRel(<, Nat))
  <2> HIDE DEF T
  <2> QED BY <1>3, WFMin, NatLessThanWellFounded
<1>5. \A e \in T : ~(e < d)
  BY <1>4 DEF OpToRel
<1> DEFINE j == i + d + 1
<1>6. /\ d \in Nat /\ i \in Nat /\ L \in Nat /\ j = i + d + 1
      /\ j \in 1..L /\ i < j /\ s[j].processed /\ i \in 1..L
  <2>1. d \in Nat /\ j \in 1..L /\ s[j].processed
    BY <1>4
  <2> HIDE DEF L, s, T
  <2>2. i \in Nat /\ L \in Nat /\ i \in 1..(L - 1)
    BY <1>1 DEF L, s
  <2>3. i < j /\ i \in 1..L
    BY <2>1, <2>2
  <2> QED BY <2>1, <2>2, <2>3
<1>7. \A h \in (i + 1)..(j - 1) : ~s[h].processed
  <2> SUFFICES ASSUME NEW h \in (i + 1)..(j - 1), s[h].processed PROVE FALSE
    OBVIOUS
  <2>1. h - i - 1 \in Nat /\ i + (h - i - 1) + 1 = h /\ h \in 1..L
    <3> HIDE DEF j, L, s, T
    <3> QED BY <1>6
  <2>2. h - i - 1 \in T
    BY <2>1
  <2>3. h - i - 1 < d
    <3> HIDE DEF j, L, s, T
    <3> QED BY <1>6, <2>1
  <2> QED BY <2>2, <2>3, <1>5
<1>8. s[j].n \in Neighbours(s[i].n)
  <2> HIDE DEF j
  <2> QED BY <1>6, <1>7 DEF IInv, Path
<1>9. s[j].n \in search.seen
  BY <1>2, <1>8
<1> QED
  <2>1. s[j].n \notin search.seen
    <3> HIDE DEF j
    <3> QED BY <1>6 DEF IInv, Unseen
  <2> QED BY <1>9, <2>1

-----------------------------------------------------------------------------
LEMMA InitInv == Init => IInv
<1> SUFFICES ASSUME Init PROVE IInv
  OBVIOUS
<1> DEFINE it == [n |-> start, processed |-> FALSE]
<1>1. it \in Item /\ it.n = start /\ ~it.processed
  BY DEF Init, Item
<1>2. search.stack = <<it>> /\ search.seen = {} /\ search.visited = <<>>
  BY DEF Init, DFSStart
<1>3. search.stack \in Seq(Item) /\ Len(search.stack) = 1 /\ search.stack[1] = it
  BY <1>1, <1>2
<1> HIDE DEF it
<1>4. TypeOK
  <2>1. search = [stack |-> <<it>>, seen |-> {}, visited |-> <<>>]
    BY DEF Init, DFSStart, it
  <2>2. search \in [stack : Seq(Item), seen : SUBSET Key, visited : Seq(Key)]
    BY <1>2, <1>3, <2>1
  <2> QED BY <2>2 DEF Init, TypeOK
<1>5. Waiting /\ Path /\ Unseen
  BY <1>1, <1>3 DEF Waiting, Path, Unseen
<1>6. Bottom
  <2>1. search.stack # <<>>
    BY <1>2
  <2> QED BY <1>1, <1>2, <1>3, <2>1 DEF Bottom
<1>7. SeenIsVisited
  BY <1>2 DEF SeenIsVisited, ToSet
<1>8. Inside
  BY <1>1, <1>2, <1>3 DEF Inside
<1>9. NeighboursFirst /\ NoDuplicates
  BY <1>2 DEF NeighboursFirst, NoDuplicates
<1> QED BY <1>4, <1>5, <1>6, <1>7, <1>8, <1>9 DEF IInv

-----------------------------------------------------------------------------
(* Each part of the invariant survives a turn of the loop.                 *)

LEMMA TypeStep == ASSUME IInv, Turn PROVE TypeOK'
<1> DEFINE L == Len(search.stack)
           it == search.stack[L]
<1>1. TypeOK
  BY DEF IInv
<1>2. /\ it.n \in Key /\ search'.stack \in Seq(Item)
      /\ search.seen \in SUBSET Key /\ search.visited \in Seq(Key)
      /\ graph' = graph /\ start' = start /\ forwards' = forwards
  BY <1>1, TurnCases DEF TypeOK, Item
<1>3. search'.seen \in SUBSET Key /\ search'.visited \in Seq(Key)
  <2>1. \/ search'.seen = search.seen /\ search'.visited = search.visited
        \/ /\ search'.seen = search.seen \cup {it.n}
           /\ search'.visited = Append(search.visited, it.n)
    BY <1>1, TurnCases
  <2> HIDE DEF it
  <2>2. search.seen \cup {it.n} \in SUBSET Key
    BY <1>2
  <2>3. Append(search.visited, it.n) \in Seq(Key)
    BY <1>2, AppendShape
  <2> QED BY <1>2, <2>1, <2>2, <2>3
<1>4. search' = [stack |-> search'.stack, seen |-> search'.seen,
                 visited |-> search'.visited]
  <2> DEFINE rest == SubSeq(search.stack, 1, L - 1)
             P == DFSPush(graph, it.n, forwards)
  <2>1. search = [stack |-> search.stack, seen |-> search.seen,
                  visited |-> search.visited]
    BY <1>1 DEF TypeOK
  <2>2. \/ search' = [search EXCEPT !.stack = rest]
        \/ search' = [stack |-> rest, seen |-> search.seen \cup {it.n},
                      visited |-> Append(search.visited, it.n)]
        \/ search' = [search EXCEPT !.stack = rest \o P]
    BY DEF Turn, DFSStep
  <2> QED BY <2>1, <2>2
<1>5. search' \in [stack : Seq(Item), seen : SUBSET Key, visited : Seq(Key)]
  BY <1>2, <1>3, <1>4
<1> QED BY <1>1, <1>2, <1>5 DEF TypeOK

LEMMA WaitingStep == ASSUME IInv, Turn PROVE Waiting'
<1> DEFINE s == search.stack
           t == search'.stack
           L == Len(s)
           it == s[L]
<1>1. TypeOK /\ Waiting
  BY DEF IInv
<1>2. L \in Nat \ {0} /\ \A k : Neighbours(k)' = Neighbours(k)
  BY <1>1, TurnCases, NeighboursFixed
<1>3. \A i \in 1..L : s[i].processed =>
        \A k \in Neighbours(s[i].n) :
            k \in search.seen \/ \E j \in (i + 1)..L : s[j].n = k
  BY <1>1 DEF Waiting
<1> SUFFICES ASSUME NEW i \in 1..Len(t), t[i].processed,
                    NEW k \in Neighbours(t[i].n)
             PROVE  k \in search'.seen \/ \E j \in (i + 1)..Len(t) : t[j].n = k
  BY <1>2 DEF Waiting
<1>4. CASE /\ Len(t) = L - 1 /\ \A h \in 1..(L - 1) : t[h] = s[h]
           /\ search.seen \cup {it.n} \subseteq search'.seen
  <2> HIDE DEF s, t, L
  <2>1. i \in 1..L /\ t[i] = s[i]
    BY <1>2, <1>4
  <2>2. CASE k \in search.seen
    BY <1>4, <2>2
  <2>3. CASE \E j \in (i + 1)..L : s[j].n = k
    <3>1. PICK j \in (i + 1)..L : s[j].n = k
      BY <2>3
    <3>2. CASE j = L
      BY <1>4, <3>1, <3>2
    <3>3. CASE j # L
      <4>1. j \in (i + 1)..Len(t) /\ t[j] = s[j]
        BY <1>2, <1>4, <2>1, <3>1, <3>3
      <4> QED BY <3>1, <4>1
    <3> QED BY <3>2, <3>3
  <2> QED BY <1>3, <2>1, <2>2, <2>3
<1>5. CASE /\ Len(t) \in Nat /\ Len(t) >= L /\ \A h \in 1..(L - 1) : t[h] = s[h]
           /\ t[L].n = it.n
           /\ \A h \in 1..(Len(t) - L) : ~t[L + h].processed
           /\ \A m \in Neighbours(it.n) : \E h \in 1..(Len(t) - L) : t[L + h].n = m
           /\ search'.seen = search.seen
  <2> HIDE DEF s, t, L, it
  <2>1. CASE i < L
    <3>1. i \in 1..L /\ t[i] = s[i]
      BY <1>2, <1>5, <2>1
    <3>2. CASE k \in search.seen
      BY <1>5, <3>2
    <3>3. CASE \E j \in (i + 1)..L : s[j].n = k
      <4>1. PICK j \in (i + 1)..L : s[j].n = k
        BY <3>3
      <4>2. j \in (i + 1)..Len(t)
        BY <1>2, <1>5, <4>1, <3>1
      <4>3. t[j].n = k
        <5>1. CASE j = L
          BY <1>5, <4>1, <5>1 DEF it
        <5>2. CASE j # L
          BY <1>2, <1>5, <4>1, <5>2, <3>1
        <5> QED BY <5>1, <5>2
      <4> QED BY <4>2, <4>3
    <3> QED BY <1>3, <3>1, <3>2, <3>3
  <2>2. CASE i = L
    <3>1. PICK h \in 1..(Len(t) - L) : t[L + h].n = k
      BY <1>5, <2>2
    <3>2. L + h \in (i + 1)..Len(t)
      BY <1>2, <1>5, <2>2
    <3> QED BY <3>1, <3>2
  <2>3. CASE i > L
    <3>1. i - L \in 1..(Len(t) - L) /\ L + (i - L) = i
      BY <1>2, <1>5, <2>3
    <3> QED BY <1>5, <3>1
  <2> QED BY <1>2, <2>1, <2>2, <2>3
<1> QED BY <1>1, <1>4, <1>5, TurnCases

LEMMA PathStep == ASSUME IInv, Turn PROVE Path'
<1> DEFINE s == search.stack
           t == search'.stack
           L == Len(s)
           it == s[L]
<1>1. TypeOK /\ Path
  BY DEF IInv
<1>2. L \in Nat \ {0} /\ \A k : Neighbours(k)' = Neighbours(k)
  BY <1>1, TurnCases, NeighboursFixed
<1>3. \A a, b \in 1..L :
        /\ a < b /\ s[a].processed
        /\ \A h \in (a + 1)..(b - 1) : ~s[h].processed
        => s[b].n \in Neighbours(s[a].n)
  BY <1>1 DEF Path
<1> SUFFICES ASSUME NEW i \in 1..Len(t), NEW j \in 1..Len(t),
                    i < j, t[i].processed,
                    \A h \in (i + 1)..(j - 1) : ~t[h].processed
             PROVE  t[j].n \in Neighbours(t[i].n)
  BY <1>2 DEF Path
<1>4. CASE Len(t) = L - 1 /\ \A h \in 1..(L - 1) : t[h] = s[h]
  <2> HIDE DEF s, t, L
  <2>1. i \in 1..L /\ j \in 1..L /\ t[i] = s[i] /\ t[j] = s[j]
    BY <1>2, <1>4
  <2>2. \A h \in (i + 1)..(j - 1) : ~s[h].processed
    BY <1>2, <1>4
  <2> QED BY <1>3, <2>1, <2>2
<1>5. CASE /\ Len(t) \in Nat /\ Len(t) >= L /\ \A h \in 1..(L - 1) : t[h] = s[h]
           /\ t[L].n = it.n /\ t[L].processed
           /\ \A h \in 1..(Len(t) - L) : /\ t[L + h].n \in Neighbours(it.n)
                                         /\ ~t[L + h].processed
  <2> HIDE DEF s, t, L
  <2>1. CASE j =< L
    <3>1. i \in 1..L /\ j \in 1..L /\ t[i] = s[i] /\ t[j].n = s[j].n
      BY <1>2, <1>5, <2>1
    <3>2. \A h \in (i + 1)..(j - 1) : ~s[h].processed
      BY <1>2, <1>5, <2>1
    <3> QED BY <1>3, <3>1, <3>2
  <2>2. CASE j > L
    <3>1. i = L
      <4>1. CASE i > L
        <5>1. i - L \in 1..(Len(t) - L) /\ L + (i - L) = i
          BY <1>2, <1>5, <4>1
        <5> QED BY <1>5, <5>1
      <4>2. CASE i < L
        <5>1. L \in (i + 1)..(j - 1)
          BY <1>2, <2>2, <4>2
        <5> QED BY <1>5, <5>1
      <4> QED BY <1>2, <4>1, <4>2
    <3>2. j - L \in 1..(Len(t) - L) /\ L + (j - L) = j
      BY <1>2, <1>5, <2>2
    <3>3. t[j].n \in Neighbours(it.n)
      BY <1>5, <3>2
    <3> QED BY <1>5, <3>1, <3>3
  <2> QED BY <1>2, <2>1, <2>2
<1> QED BY <1>1, <1>4, <1>5, TurnCases

LEMMA UnseenStep == ASSUME IInv, Turn PROVE Unseen'
<1> DEFINE s == search.stack
           t == search'.stack
           L == Len(s)
           it == s[L]
<1>1. TypeOK /\ s # <<>>
  BY DEF IInv, Turn
<1>2. L \in Nat \ {0}
  BY <1>1, TurnCases
<1>3. \A i \in 1..L : s[i].processed => s[i].n \notin search.seen
  BY DEF IInv, Unseen
<1> SUFFICES ASSUME NEW i \in 1..Len(t), t[i].processed
             PROVE  t[i].n \notin search'.seen
  BY DEF Unseen
<1>4. CASE /\ Len(t) = L - 1 /\ \A h \in 1..(L - 1) : t[h] = s[h]
           /\ search'.seen = search.seen
  <2> HIDE DEF s, t, L
  <2> QED BY <1>2, <1>3, <1>4
<1>5. CASE /\ it.n \notin search.seen /\ it.processed
           /\ Len(t) = L - 1 /\ \A h \in 1..(L - 1) : t[h] = s[h]
           /\ search'.seen = search.seen \cup {it.n}
  <2>1. i \in 1..(L - 1) /\ t[i] = s[i]
    <3> HIDE DEF s, t, L
    <3> QED BY <1>2, <1>5
  <2>2. s[i].n # it.n
    BY <1>1, <1>5, <2>1, TopUnique
  <2> HIDE DEF s, t, L
  <2> QED BY <1>2, <1>3, <1>5, <2>1, <2>2
<1>6. CASE /\ it.n \notin search.seen
           /\ Len(t) \in Nat /\ Len(t) >= L /\ \A h \in 1..(L - 1) : t[h] = s[h]
           /\ t[L].n = it.n
           /\ \A h \in 1..(Len(t) - L) : ~t[L + h].processed
           /\ search'.seen = search.seen
  <2> HIDE DEF s, t, L
  <2>1. CASE i < L
    BY <1>2, <1>3, <1>6, <2>1
  <2>2. CASE i = L
    BY <1>6, <2>2
  <2>3. CASE i > L
    <3>1. i - L \in 1..(Len(t) - L) /\ L + (i - L) = i
      BY <1>2, <1>6, <2>3
    <3> QED BY <1>6, <3>1
  <2> QED BY <1>2, <2>1, <2>2, <2>3
<1> QED BY <1>1, <1>4, <1>5, <1>6, TurnCases

LEMMA BottomStep == ASSUME IInv, Turn PROVE Bottom'
<1> DEFINE s == search.stack
           t == search'.stack
           L == Len(s)
           it == s[L]
<1>1. TypeOK /\ s # <<>>
  BY DEF IInv, Turn
<1>2. /\ L \in Nat \ {0} /\ it \in Item /\ t \in Seq(Item)
      /\ search.visited \in Seq(Key) /\ start' = start
  BY <1>1, TurnCases DEF TypeOK
<1>3. s[1].n = start /\ start \notin search.seen /\ (L > 1 => s[1].processed)
  BY <1>1 DEF IInv, Bottom
<1>4. CASE L > 1
  <2>1. Len(t) \in Nat /\ Len(t) >= L - 1 /\ t[1] = s[1]
    <3>1. Len(t) >= L - 1 /\ \A h \in 1..(L - 1) : t[h] = s[h]
      BY <1>1, <1>2, TurnCases
    <3> HIDE DEF s, t, L
    <3> QED BY <1>2, <1>4, <3>1
  <2>2. t # <<>>
    <3> HIDE DEF s, t, L
    <3> QED BY <1>2, <1>4, <2>1
  <2>3. start \notin search'.seen
    <3>1. CASE search'.seen = search.seen
      BY <1>3, <3>1
    <3>2. CASE /\ it.n \notin search.seen /\ it.processed
               /\ search'.seen = search.seen \cup {it.n}
      <4>1. 1 \in 1..(L - 1)
        <5> HIDE DEF s, L
        <5> QED BY <1>2, <1>4
      <4>2. s[1].n # it.n
        BY <1>1, <1>3, <1>4, <3>2, <4>1, TopUnique
      <4> QED BY <1>3, <3>2, <4>2
    <3> QED BY <1>1, <3>1, <3>2, TurnCases
  <2> QED BY <1>2, <1>3, <1>4, <2>1, <2>2, <2>3 DEF Bottom
<1>5. CASE L = 1
  <2>1. it.n = start /\ it.n \notin search.seen
    BY <1>3, <1>5
  <2>2. CASE it.processed
    <3>1. Len(t) = 0 /\ search'.visited = Append(search.visited, start)
      BY <1>1, <1>5, <2>1, <2>2, TurnCases
    <3>2. t = <<>>
      <4> HIDE DEF t
      <4> QED BY <1>2, <3>1, EmptySeq
    <3>3. /\ search'.visited # <<>>
          /\ search'.visited[Len(search'.visited)] = start
      <4>1. start \in Key
        BY <1>1 DEF TypeOK
      <4> QED BY <1>2, <3>1, <4>1, AppendShape
    <3> QED BY <1>2, <3>2, <3>3 DEF Bottom
  <2>3. CASE ~it.processed
    <3>1. /\ Len(t) \in Nat /\ Len(t) >= 1 /\ t[1].n = start /\ t[1].processed
          /\ search'.seen = search.seen
      BY <1>1, <1>5, <2>1, <2>3, TurnCases
    <3>2. t # <<>>
      <4> HIDE DEF t
      <4> QED BY <1>2, <3>1
    <3> QED BY <1>2, <1>3, <3>1, <3>2 DEF Bottom
  <2> QED BY <2>2, <2>3
<1>6. L > 1 \/ L = 1
  <2> HIDE DEF L
  <2> QED BY <1>2
<1> QED BY <1>4, <1>5, <1>6

LEMMA SeenStep == ASSUME IInv, Turn PROVE SeenIsVisited' /\ Inside'
<1> DEFINE s == search.stack
           t == search'.stack
           L == Len(s)
           it == s[L]
<1>1. TypeOK /\ search.seen = ToSet(search.visited) /\ Inside
  BY DEF IInv, SeenIsVisited
<1>2. /\ L \in Nat \ {0} /\ it.n \in Key /\ search.visited \in Seq(Key)
      /\ graph' = graph /\ start' = start /\ forwards' = forwards
  BY <1>1, TurnCases DEF TypeOK, Item
<1>3. SeenIsVisited'
  <2>1. ToSet(Append(search.visited, it.n)) = ToSet(search.visited) \cup {it.n}
    BY <1>2, AppendShape
  <2>2. \/ search'.seen = search.seen /\ search'.visited = search.visited
        \/ /\ search'.seen = search.seen \cup {it.n}
           /\ search'.visited = Append(search.visited, it.n)
    BY <1>1, TurnCases
  <2> HIDE DEF it
  <2> QED BY <1>1, <2>1, <2>2 DEF SeenIsVisited
<1>4. Inside'
  <2> SUFFICES ASSUME NEW S \in SUBSET graph.nodes, start \in S,
                      Closed(graph, S, forwards)
               PROVE  /\ search'.seen \subseteq S
                      /\ \A i \in 1..Len(t) : t[i].n \in S
    BY <1>2 DEF Inside
  <2>1. search.seen \subseteq S /\ \A i \in 1..L : s[i].n \in S
    BY <1>1 DEF Inside
  <2>2. it.n \in S /\ Neighbours(it.n) \subseteq S
    BY <1>2, <2>1 DEF Closed, Neighbours
  <2>3. search'.seen \subseteq S
    BY <1>1, <2>1, <2>2, TurnCases
  <2>4. ASSUME NEW i \in 1..Len(t) PROVE t[i].n \in S
    <3>1. CASE Len(t) = L - 1 /\ \A h \in 1..(L - 1) : t[h] = s[h]
      <4> HIDE DEF s, t, L
      <4> QED BY <1>2, <2>1, <3>1
    <3>2. CASE /\ Len(t) \in Nat /\ Len(t) >= L /\ \A h \in 1..(L - 1) : t[h] = s[h]
               /\ t[L].n = it.n
               /\ \A h \in 1..(Len(t) - L) : t[L + h].n \in Neighbours(it.n)
      <4> HIDE DEF s, t, L, it
      <4>1. CASE i < L
        BY <1>2, <2>1, <3>2, <4>1
      <4>2. CASE i = L
        BY <2>2, <3>2, <4>2
      <4>3. CASE i > L
        <5>1. i - L \in 1..(Len(t) - L) /\ L + (i - L) = i
          BY <1>2, <3>2, <4>3
        <5> QED BY <2>2, <3>2, <5>1
      <4> QED BY <1>2, <4>1, <4>2, <4>3
    <3> QED BY <1>1, <3>1, <3>2, TurnCases
  <2> QED BY <2>3, <2>4
<1> QED BY <1>3, <1>4

LEMMA PlanStep == ASSUME IInv, Turn PROVE NeighboursFirst' /\ NoDuplicates'
<1> DEFINE v == search.visited
           w == search'.visited
           L == Len(search.stack)
           it == search.stack[L]
<1>1. /\ TypeOK /\ search.stack # <<>> /\ search.seen = ToSet(v)
      /\ NeighboursFirst /\ NoDuplicates
  BY DEF IInv, Turn, SeenIsVisited
<1>2. /\ it.n \in Key /\ v \in Seq(Key) /\ Len(v) \in Nat
      /\ \A k : Neighbours(k)' = Neighbours(k)
  BY <1>1, TurnCases, NeighboursFixed DEF TypeOK, Item
<1>3. CASE w = v
  <2>1. \A i \in 1..Len(v) : \A k \in Neighbours(v[i]) :
            \E j \in 1..(i - 1) : v[j] = k
    BY <1>1 DEF NeighboursFirst
  <2>2. \A i, j \in 1..Len(v) : v[i] = v[j] => i = j
    BY <1>1 DEF NoDuplicates
  <2> HIDE DEF v, w
  <2>3. \A i \in 1..Len(w) : \A k \in Neighbours(w[i]) :
            \E j \in 1..(i - 1) : w[j] = k
    BY <1>3, <2>1
  <2>4. \A i, j \in 1..Len(w) : w[i] = w[j] => i = j
    BY <1>3, <2>2
  <2> QED BY <1>2, <2>3, <2>4 DEF NeighboursFirst, NoDuplicates, w
<1>4. CASE it.n \notin search.seen /\ it.processed /\ w = Append(v, it.n)
  <2>1. Neighbours(it.n) \subseteq ToSet(v)
    BY <1>1, <1>4, TopComplete DEF IInv
  <2>2. /\ Len(w) = Len(v) + 1 /\ w[Len(v) + 1] = it.n
        /\ \A i \in 1..Len(v) : w[i] = v[i]
    BY <1>2, <1>4, AppendShape
  <2>3. \A k \in ToSet(v) : \E j \in 1..Len(v) : v[j] = k
    BY <1>2 DEF ToSet
  <2>4. \A j \in 1..Len(v) : v[j] \in ToSet(v)
    BY <1>2 DEF ToSet
  <2>5. \A i \in 1..Len(v) : \A k \in Neighbours(v[i]) :
            \E j \in 1..(i - 1) : v[j] = k
    BY <1>1 DEF NeighboursFirst
  <2>6. \A i, j \in 1..Len(v) : v[i] = v[j] => i = j
    BY <1>1 DEF NoDuplicates
  <2> HIDE DEF v, w, it
  <2>7. ASSUME NEW i \in 1..Len(w), NEW k \in Neighbours(w[i])
        PROVE  \E j \in 1..(i - 1) : w[j] = k
    <3>1. CASE i = Len(v) + 1
      <4>1. PICK j \in 1..Len(v) : v[j] = k
        BY <2>1, <2>2, <2>3, <3>1
      <4> QED BY <1>2, <2>2, <3>1, <4>1
    <3>2. CASE i # Len(v) + 1
      <4>1. i \in 1..Len(v) /\ w[i] = v[i]
        BY <1>2, <2>2, <3>2
      <4>2. PICK j \in 1..(i - 1) : v[j] = k
        BY <2>5, <4>1
      <4> QED BY <1>2, <2>2, <4>1, <4>2
    <3> QED BY <3>1, <3>2
  <2>8. ASSUME NEW i \in 1..Len(w), NEW j \in 1..Len(w), w[i] = w[j]
        PROVE  i = j
    <3>1. it.n \notin ToSet(v)
      BY <1>1, <1>4 DEF v, it
    <3> QED BY <1>2, <2>2, <2>4, <2>6, <2>8, <3>1
  <2> QED BY <1>2, <2>7, <2>8 DEF NeighboursFirst, NoDuplicates, w
<1> QED BY <1>1, <1>3, <1>4, TurnCases

-----------------------------------------------------------------------------
LEMMA NextInv == IInv /\ [Next]_vars => IInv'
<1> SUFFICES ASSUME IInv, [Next]_vars PROVE IInv'
  OBVIOUS
<1>1. CASE Turn
  BY <1>1, TypeStep, WaitingStep, PathStep, UnseenStep, BottomStep, SeenStep,
     PlanStep DEF IInv
<1>2. CASE UNCHANGED vars
  <2> USE <1>2 DEF vars
  <2>1. TypeOK'
    BY DEF IInv, TypeOK
  <2>2. Waiting' /\ Path' /\ Unseen'
    BY DEF IInv, Waiting, Path, Unseen, Neighbours
  <2>3. Bottom' /\ SeenIsVisited' /\ Inside'
    BY DEF IInv, Bottom, SeenIsVisited, Inside
  <2>4. NeighboursFirst' /\ NoDuplicates'
    BY DEF IInv, NeighboursFirst, NoDuplicates, Neighbours
  <2> QED BY <2>1, <2>2, <2>3, <2>4 DEF IInv
<1> QED BY <1>1, <1>2 DEF Next, Returned

(* The invariant holds throughout a search.                                *)
THEOREM Invariance == Spec => []IInv
BY InitInv, NextInv, PTL DEF Spec

(* The variables of iterativeDFS keep their types.                         *)
THEOREM Typing == Spec => []TypeOK
<1>1. IInv => TypeOK
  BY DEF IInv
<1> QED BY <1>1, Invariance, PTL

(* Whatever the graph, a migration enters the plan only after its          *)
(* dependencies (its dependents in a backwards plan).                      *)
THEOREM DependencyOrder == Spec => []NeighboursFirst
<1>1. IInv => NeighboursFirst
  BY DEF IInv
<1> QED BY <1>1, Invariance, PTL

(* Whatever the graph, no migration is listed twice.                       *)
THEOREM EachOnce == Spec => []NoDuplicates
<1>1. IInv => NoDuplicates
  BY DEF IInv
<1> QED BY <1>1, Invariance, PTL

(* Whatever the graph, a loop that ends leaves exactly what the target     *)
(* reaches, the target last.                                               *)
THEOREM PlanCorrect == Spec => []PlanIsReach
<1>1. IInv => PlanIsReach
  <2> SUFFICES ASSUME IInv, search.stack = <<>>
               PROVE  /\ ToSet(search.visited) = Reach(graph, start, forwards)
                      /\ Last(search.visited) = start
    BY DEF PlanIsReach
  <2> DEFINE v == search.visited
  <2>1. v \in Seq(Key) /\ v # <<>> /\ v[Len(v)] = start /\ graph.nodes = Key
    BY DEF IInv, TypeOK, Bottom, Graphs
  <2>2. Last(v) = start
    BY <2>1 DEF Last
  <2>3. ToSet(v) \subseteq Key /\ start \in ToSet(v)
    <3>1. Len(v) \in Nat \ {0}
      BY <2>1, EmptySeq
    <3> QED BY <2>1, <3>1 DEF ToSet
  <2>4. Closed(graph, ToSet(v), forwards)
    <3> SUFFICES ASSUME NEW m \in ToSet(v), NEW k \in Neighbours(m)
                 PROVE  k \in ToSet(v)
      BY DEF Closed, Neighbours
    <3>1. PICK i \in 1..Len(v) : v[i] = m
      BY <2>1 DEF ToSet
    <3>2. PICK j \in 1..(i - 1) : v[j] = k
      BY <3>1 DEF IInv, NeighboursFirst
    <3> QED BY <2>1, <3>2 DEF ToSet
  <2>5. Reach(graph, start, forwards) \subseteq ToSet(v)
    BY <2>1, <2>3, <2>4 DEF Reach
  <2>6. ToSet(v) \subseteq Reach(graph, start, forwards)
    BY <2>1, <2>3 DEF Reach, IInv, Inside, SeenIsVisited
  <2> QED BY <2>2, <2>5, <2>6
<1> QED BY <1>1, Invariance, PTL
=============================================================================
