------------------------ MODULE LoaderBuild_proofs ------------------------
(***************************************************************************)
(* The loader folds the squashed migrations of a project into its graph.   *)
(* First, what one fold does to the order of migrations, for any graph:    *)
(* RemoveReplacedNodes, when all that a squash replaces is applied or      *)
(* nothing is, and RemoveReplacementNode otherwise. Then, by induction     *)
(* over the squashes of a project, what BuildGraph makes of every regular  *)
(* project with every content of the table that a deployment can have.     *)
(***************************************************************************)
EXTENDS LoaderBuild, FiniteSetTheorems, WellFoundedInduction, TLAPS

Graph(g) == g.edges \subseteq g.nodes \X g.nodes

(* What k depends on, directly or not, and itself.                         *)
Needs(g, k) == Reach(g, k, TRUE)

LEMMA Edges ==
    ASSUME NEW g, NEW V, g.edges \subseteq V \X V, NEW k, NEW p
    PROVE  /\ p \in Parents(g, k) <=> <<k, p>> \in g.edges
           /\ k \in Children(g, p) <=> <<k, p>> \in g.edges
           /\ <<k, p>> \in g.edges => k \in V /\ p \in V
<1>1. \A e \in g.edges : e = <<e[1], e[2]>>
  OBVIOUS
<1> QED BY <1>1 DEF Parents, Children

LEMMA NeedsSelf ==
    ASSUME NEW g, NEW k \in g.nodes
    PROVE  k \in Needs(g, k)
BY DEF Needs, Reach

LEMMA NeedsNode ==
    ASSUME NEW g, NEW k, NEW n \in Needs(g, k)
    PROVE  n \in g.nodes
BY DEF Needs, Reach

LEMMA NeedsLeast ==
    ASSUME NEW g, NEW k, NEW S, S \subseteq g.nodes, k \in S,
           \A n \in S : Parents(g, n) \subseteq S
    PROVE  Needs(g, k) \subseteq S
<1>1. Closed(g, S, TRUE)
  BY DEF Closed, DFSNeighbours
<1> QED BY <1>1 DEF Needs, Reach

LEMMA NeedsStep ==
    ASSUME NEW g, Graph(g), NEW k, NEW n \in Needs(g, k), NEW p \in Parents(g, n)
    PROVE  p \in Needs(g, k)
<1>1. p \in g.nodes
  BY Edges DEF Graph
<1> SUFFICES ASSUME NEW S \in SUBSET g.nodes, k \in S, Closed(g, S, TRUE)
             PROVE  p \in S
  BY <1>1 DEF Needs, Reach
<1>2. n \in S
  BY DEF Needs, Reach
<1> QED BY <1>2 DEF Closed, DFSNeighbours

LEMMA NeedsTrans ==
    ASSUME NEW g, NEW k, NEW n \in Needs(g, k), NEW m \in Needs(g, n)
    PROVE  m \in Needs(g, k)
BY DEF Needs, Reach

(* Acyclic, read as a way to refute: no set in which everyone has a child. *)
LEMMA NoRing ==
    ASSUME NEW g, Acyclic(g), NEW S, S \subseteq g.nodes, S # {}
    PROVE  \E k \in S : \A c \in S : c \notin Children(g, k)
<1>1. PICK k \in S : Children(g, k) \cap S = {}
  BY DEF Acyclic
<1> QED BY <1>1

LEMMA NoLoop ==
    ASSUME NEW g, Graph(g), Acyclic(g), NEW k \in g.nodes
    PROVE  <<k, k>> \notin g.edges
<1>1. Children(g, k) \cap {k} = {}
  BY DEF Acyclic
<1> QED BY <1>1, Edges DEF Graph

(* Whatever k needs and is not k, some other need of k depends on.         *)
LEMMA NeededBy ==
    ASSUME NEW g, Graph(g), NEW k \in g.nodes, NEW n \in Needs(g, k), n # k
    PROVE  \E c \in Needs(g, k) : n \in Parents(g, c)
<1> SUFFICES ASSUME \A c \in Needs(g, k) : n \notin Parents(g, c)
             PROVE  FALSE
  OBVIOUS
<1> DEFINE S == Needs(g, k) \ {n}
<1>1. S \subseteq g.nodes /\ k \in S
  BY NeedsSelf, NeedsNode
<1>2. \A c \in S : Parents(g, c) \subseteq S
  BY NeedsStep
<1> HIDE DEF S
<1>3. Needs(g, k) \subseteq S
  BY <1>1, <1>2, NeedsLeast
<1> QED BY <1>3 DEF S

(* Two migrations of an acyclic graph do not need each other.              *)
LEMMA NotBoth ==
    ASSUME NEW g, Graph(g), Acyclic(g), NEW a \in g.nodes, NEW b \in Needs(g, a), a \in Needs(g, b)
    PROVE  a = b
<1> SUFFICES ASSUME a # b PROVE FALSE
  OBVIOUS
<1> DEFINE C == {n \in Needs(g, a) : a \in Needs(g, n)}
<1>1. C \subseteq g.nodes /\ a \in C
  BY NeedsSelf, NeedsNode
<1>2. ASSUME NEW n \in C
      PROVE  \E c \in C : c \in Children(g, n)
  <2>1. ASSUME NEW k \in C, n # k, n \in Needs(g, k)
        PROVE  \E c \in C : c \in Children(g, n)
    <3>1. k \in g.nodes
      BY <1>1
    <3>2. PICK c \in Needs(g, k) : n \in Parents(g, c)
      BY <2>1, <3>1, NeededBy
    <3>3. c \in Needs(g, a)
      BY <3>2, NeedsTrans
    <3>4. c \in g.nodes
      BY <3>3, NeedsNode
    <3>5. n \in Needs(g, c)
      BY <3>2, <3>4, NeedsSelf, NeedsStep
    <3>6. a \in Needs(g, c)
      BY <3>5, NeedsTrans
    <3>7. c \in Children(g, n)
      BY <3>2, Edges DEF Graph
    <3> QED BY <3>3, <3>6, <3>7
  <2>2. CASE n # a
    BY <1>1, <2>1, <2>2
  <2>3. CASE n = a
    <3>1. b \in C /\ n # b /\ n \in Needs(g, b)
      BY <2>3
    <3> QED BY <2>1, <3>1
  <2> QED BY <2>2, <2>3
<1> HIDE DEF C
<1> QED BY <1>1, <1>2, NoRing

-----------------------------------------------------------------------------
(* RemoveReplacedNodes: r takes the place of the migrations in S.          *)
Moved(r, S, k) == IF k \in S THEN r ELSE k

(* The edge from c to p of the folded graph stands for e.                  *)
Image(r, S, e, c, p) ==
    /\ ~(e[1] \in S /\ e[2] \in S)
    /\ c = Moved(r, S, e[1]) /\ p = Moved(r, S, e[2])

LEMMA Folded ==
    ASSUME NEW g, Graph(g), NEW r \in g.nodes, NEW S, r \notin S
    PROVE  LET h == RemoveReplacedNodes(g, r, S)
           IN  /\ h.nodes = g.nodes \ S /\ Graph(h)
               /\ \A k \in g.nodes : Moved(r, S, k) \in h.nodes
               /\ \A c, p : <<c, p>> \in g.edges /\ ~(c \in S /\ p \in S) =>
                    <<Moved(r, S, c), Moved(r, S, p)>> \in h.edges
               /\ \A c, p : <<c, p>> \in h.edges =>
                    \E e \in g.edges : Image(r, S, e, c, p)
<1> DEFINE h == RemoveReplacedNodes(g, r, S)
<1>1. /\ h.nodes = g.nodes \ S
      /\ h.edges = {<<Moved(r, S, e[1]), Moved(r, S, e[2])>> :
                      e \in {d \in g.edges : ~(d[1] \in S /\ d[2] \in S)}}
  BY DEF RemoveReplacedNodes, Moved
<1> HIDE DEF h
<1>2. \A e \in g.edges : e = <<e[1], e[2]>> /\ e[1] \in g.nodes /\ e[2] \in g.nodes
  BY DEF Graph
<1>3. \A k \in g.nodes : Moved(r, S, k) \in h.nodes
  BY <1>1 DEF Moved
<1>4. ASSUME NEW c, NEW p, <<c, p>> \in g.edges, ~(c \in S /\ p \in S)
      PROVE  <<Moved(r, S, c), Moved(r, S, p)>> \in h.edges
  BY <1>1, <1>4
<1>5. ASSUME NEW c, NEW p, <<c, p>> \in h.edges
      PROVE  \E e \in g.edges : Image(r, S, e, c, p)
  <2>1. PICK e \in g.edges : ~(e[1] \in S /\ e[2] \in S) /\ <<c, p>> = <<Moved(r, S, e[1]), Moved(r, S, e[2])>>
    BY <1>1, <1>5
  <2>2. c = Moved(r, S, e[1]) /\ p = Moved(r, S, e[2])
    BY <2>1
  <2> QED BY <2>1, <2>2 DEF Image
<1>6. Graph(h)
  <2> SUFFICES ASSUME NEW e \in h.edges PROVE e \in h.nodes \X h.nodes
    BY DEF Graph
  <2>1. PICK d \in g.edges : e = <<Moved(r, S, d[1]), Moved(r, S, d[2])>>
    BY <1>1
  <2> QED BY <1>2, <1>3, <2>1
<1> QED BY <1>1, <1>3, <1>4, <1>5, <1>6 DEF h

(* RemoveReplacedNodes loses no dependency of any graph: whoever needed a  *)
(* migration, directly or not, needs it or the squashed one that took its  *)
(* place, and that one needs all that those it replaces needed.            *)
THEOREM FoldKeepsOrder ==
    ASSUME NEW g, Graph(g), NEW r \in g.nodes, NEW S, r \notin S,
           NEW x \in g.nodes, NEW y \in Reach(g, x, TRUE)
    PROVE  Moved(r, S, y) \in Reach(RemoveReplacedNodes(g, r, S), Moved(r, S, x), TRUE)
<1> DEFINE h == RemoveReplacedNodes(g, r, S)
<1>1. /\ \A k \in g.nodes : Moved(r, S, k) \in h.nodes
      /\ \A c, p : <<c, p>> \in g.edges /\ ~(c \in S /\ p \in S) =>
           <<Moved(r, S, c), Moved(r, S, p)>> \in h.edges
      /\ Graph(h)
  BY Folded
<1> HIDE DEF h
<1>2. y \in Needs(g, x)
  BY DEF Needs
<1>3. Moved(r, S, y) \in h.nodes
  BY <1>1, <1>2, NeedsNode
<1> SUFFICES ASSUME NEW T \in SUBSET h.nodes, Moved(r, S, x) \in T, Closed(h, T, TRUE)
             PROVE  Moved(r, S, y) \in T
  BY <1>3 DEF Reach, h
<1> DEFINE U == {k \in g.nodes : Moved(r, S, k) \in T}
<1>4. ASSUME NEW k \in U, NEW p \in Parents(g, k)
      PROVE  p \in U
  <2>1. <<k, p>> \in g.edges /\ p \in g.nodes
    BY Edges DEF Graph
  <2>2. CASE k \in S /\ p \in S
    BY <2>1, <2>2 DEF Moved
  <2>3. CASE ~(k \in S /\ p \in S)
    <3>1. <<Moved(r, S, k), Moved(r, S, p)>> \in h.edges
      BY <1>1, <2>1, <2>3
    <3>2. Moved(r, S, p) \in Parents(h, Moved(r, S, k))
      BY <1>1, <3>1, Edges DEF Graph
    <3>3. Moved(r, S, p) \in T
      BY <3>2 DEF Closed, DFSNeighbours
    <3> QED BY <2>1, <3>3
  <2> QED BY <2>2, <2>3
<1>5. U \subseteq g.nodes /\ x \in U
  OBVIOUS
<1> HIDE DEF U
<1>6. y \in U
  BY <1>2, <1>4, <1>5, NeedsLeast
<1> QED BY <1>6 DEF U

(* Nothing outside a squash lies between its migrations: needs one of them *)
(* and is needed by one.  r is the squashed migration.                     *)
Between(g, r, S) == {k \in g.nodes \ (S \cup {r}) :
                       /\ \E b \in S \cup {r} : b \in Needs(g, k)
                       /\ \E b \in (S \cup {r}) \cap g.nodes : k \in Needs(g, b)}

(* The squashed migration and those it replaces are unrelated in the files *)
(* that squashmigrations writes.                                           *)
Apart(g, r, S) == \A s \in S : <<r, s>> \notin g.edges /\ <<s, r>> \notin g.edges

LEMMA FoldAcyclic ==
    ASSUME NEW g, Graph(g), Acyclic(g), NEW r \in g.nodes, NEW S, r \notin S, Apart(g, r, S),
           Between(g, r, S) = {}
    PROVE  Acyclic(RemoveReplacedNodes(g, r, S))
<1> DEFINE h == RemoveReplacedNodes(g, r, S)
           B == S \cup {r}
<1>1. /\ h.nodes = g.nodes \ S /\ Graph(h)
      /\ \A c, p : <<c, p>> \in h.edges =>
           \E e \in g.edges : Image(r, S, e, c, p)
  BY Folded
<1> HIDE DEF h
<1> SUFFICES ASSUME NEW T \in SUBSET h.nodes, T # {},
                    \A k \in T : Children(h, k) \cap T # {}
             PROVE  FALSE
  BY DEF Acyclic, h
<1>2. <<r, r>> \notin g.edges
  BY NoLoop
(* An edge of h within T that does not meet r is one of g; one at r comes  *)
(* from an edge of g between the block and the outside.                    *)
<1>3. ASSUME NEW k \in T
      PROVE  \E a, b : /\ <<a, b>> \in g.edges /\ ~(a \in S /\ b \in S)
                       /\ Moved(r, S, a) \in T /\ k = Moved(r, S, b)
  <2>1. PICK c \in T : c \in Children(h, k)
    OBVIOUS
  <2>2. <<c, k>> \in h.edges
    BY <1>1, <2>1, Edges DEF Graph
  <2>3. PICK e \in g.edges : Image(r, S, e, c, k)
    BY <1>1, <2>2
  <2>4. e = <<e[1], e[2]>>
    BY DEF Graph
  <2> QED BY <2>1, <2>3, <2>4 DEF Image
<1>4. CASE r \notin T
  <2>1. ASSUME NEW k \in T
        PROVE  \E c \in T : c \in Children(g, k)
    <3>1. PICK a, b : /\ <<a, b>> \in g.edges
                      /\ Moved(r, S, a) \in T /\ k = Moved(r, S, b)
      BY <1>3
    <3>2. Moved(r, S, a) = a /\ k = b
      BY <1>4, <3>1 DEF Moved
    <3> QED BY <3>1, <3>2, Edges DEF Graph
  <2>2. T \subseteq g.nodes
    BY <1>1
  <2> QED BY <2>1, <2>2, NoRing
<1>5. CASE r \in T
  <2> DEFINE D == {k \in T \ {r} : \E b \in B : b \in Needs(g, k)}
  <2>1. D \subseteq g.nodes /\ D \cap B = {}
    BY <1>1
  <2>2. D # {}
    <3>1. PICK a, b : /\ <<a, b>> \in g.edges /\ ~(a \in S /\ b \in S)
                      /\ Moved(r, S, a) \in T /\ r = Moved(r, S, b)
      BY <1>3, <1>5
    <3>2. b \in B
      BY <3>1 DEF Moved
    <3>3. a \notin B
      BY <1>2, <3>1, <3>2 DEF Apart
    <3>4. Moved(r, S, a) = a /\ a \in g.nodes /\ b \in Parents(g, a)
      BY <3>1, <3>3, Edges DEF Moved, Graph
    <3>5. b \in Needs(g, a)
      BY <3>4, NeedsSelf, NeedsStep
    <3> QED BY <3>1, <3>2, <3>3, <3>4, <3>5
  <2>3. ASSUME NEW k \in D
        PROVE  \E c \in D : c \in Children(g, k)
    <3>1. PICK a, b : /\ <<a, b>> \in g.edges
                      /\ Moved(r, S, a) \in T /\ k = Moved(r, S, b)
      BY <1>3
    <3>2. k = b /\ k \notin B
      BY <2>1, <3>1 DEF Moved
    <3>3. a \in g.nodes /\ k \in Parents(g, a) /\ a \in Children(g, k)
      BY <3>1, <3>2, Edges DEF Graph
    <3>4. k \in Needs(g, a)
      BY <3>3, NeedsSelf, NeedsStep
    <3>5. a \notin B
      <4> SUFFICES ASSUME a \in B PROVE FALSE
        OBVIOUS
      <4>1. k \in Between(g, r, S)
        BY <2>1, <3>2, <3>3, <3>4 DEF Between
      <4> QED BY <4>1
    <3>6. Moved(r, S, a) = a /\ a # r
      BY <3>1, <3>5 DEF Moved
    <3>7. PICK b2 \in B : b2 \in Needs(g, k)
      OBVIOUS
    <3>8. b2 \in Needs(g, a)
      BY <3>4, <3>7, NeedsTrans
    <3> QED BY <3>1, <3>3, <3>6, <3>7, <3>8
  <2> HIDE DEF D
  <2> QED BY <2>1, <2>2, <2>3, NoRing
<1> QED BY <1>4, <1>5

LEMMA FoldCyclic ==
    ASSUME NEW g, Graph(g), NEW r \in g.nodes, NEW S, r \notin S,
           Acyclic(RemoveReplacedNodes(g, r, S)), NEW k \in Between(g, r, S)
    PROVE  FALSE
<1> DEFINE h == RemoveReplacedNodes(g, r, S)
<1>1. h.nodes = g.nodes \ S /\ Graph(h)
  BY Folded
<1>2. k \in g.nodes /\ k \notin S /\ k # r /\ Moved(r, S, k) = k
  BY DEF Between, Moved
<1>3. PICK b \in S \cup {r} : b \in Needs(g, k)
  BY DEF Between
<1>4. PICK c \in (S \cup {r}) \cap g.nodes : k \in Needs(g, c)
  BY DEF Between
<1>5. Moved(r, S, b) = r /\ Moved(r, S, c) = r
  BY DEF Moved
<1>6. Moved(r, S, b) \in Reach(h, Moved(r, S, k), TRUE)
  BY <1>2, <1>3, FoldKeepsOrder DEF Needs
<1>7. Moved(r, S, k) \in Reach(h, Moved(r, S, c), TRUE)
  BY <1>4, FoldKeepsOrder DEF Needs
<1>8. r \in Needs(h, k) /\ k \in Needs(h, r)
  BY <1>2, <1>5, <1>6, <1>7 DEF Needs
<1>9. k \in h.nodes
  BY <1>1, <1>2
<1> HIDE DEF h
<1>10. Acyclic(h)
  BY DEF h
<1> QED BY <1>1, <1>2, <1>8, <1>9, <1>10, NotBoth

(* BuildGraph refuses a squash only where it must: folded into an acyclic  *)
(* graph by RemoveReplacedNodes it leaves one without cycle if and only if *)
(* no migration lies between those it replaces.                            *)
THEOREM FoldMakesNoCycle ==
    ASSUME NEW g, Graph(g), Acyclic(g), NEW r \in g.nodes, NEW S, r \notin S, Apart(g, r, S)
    PROVE  Acyclic(RemoveReplacedNodes(g, r, S)) <=> Between(g, r, S) = {}
BY FoldAcyclic, FoldCyclic

-----------------------------------------------------------------------------
(* RemoveReplacementNode: the squashed migration r goes and those of S     *)
(* that are in the graph stay; its children move to the last of these.     *)
Staying(g, r, S) == S \cap (g.nodes \ {r})

LastOf(g, r, S) == Staying(g, r, S) \ UNION {Parents(g, k) : k \in Staying(g, r, S)}

(* The migrations that are replaced do not wait for the one that replaces  *)
(* them, and it waits for nothing but what they wait for: its dependencies *)
(* are theirs, as squashmigrations writes them.                            *)
Ahead(g, r, S)  == \A s \in Staying(g, r, S) : r \notin Needs(g, s)
Follows(g, r, S) == \A p \in Parents(g, r) : \E s \in Staying(g, r, S) : p \in Needs(g, s)

LEMMA Unfolded ==
    ASSUME NEW g, Graph(g), Acyclic(g), NEW r \in g.nodes, NEW S
    PROVE  LET h == RemoveReplacementNode(g, r, S)
           IN  /\ h.nodes = g.nodes \ {r} /\ Graph(h)
               /\ \A c, p : <<c, p>> \in g.edges /\ c # r /\ p # r => <<c, p>> \in h.edges
               /\ \A c : \A l \in LastOf(g, r, S) : <<c, r>> \in g.edges => <<c, l>> \in h.edges
               /\ \A c, p : <<c, p>> \in h.edges =>
                    \/ <<c, p>> \in g.edges
                    \/ <<c, r>> \in g.edges /\ p \in LastOf(g, r, S)
<1> DEFINE h == RemoveReplacementNode(g, r, S)
<1>1. /\ h.nodes = g.nodes \ {r}
      /\ h.edges = {e \in g.edges : r \notin {e[1], e[2]}} \cup (Children(g, r) \X LastOf(g, r, S))
  BY DEF RemoveReplacementNode, LastOf, Staying
<1> HIDE DEF h
<1>2. \A e \in g.edges : e = <<e[1], e[2]>> /\ e[1] \in g.nodes /\ e[2] \in g.nodes
  BY DEF Graph
<1>3. \A c : c \in Children(g, r) <=> <<c, r>> \in g.edges
  BY Edges DEF Graph
<1>4. ASSUME NEW c, NEW p, <<c, p>> \in g.edges, c # r, p # r
      PROVE  <<c, p>> \in h.edges
  BY <1>1, <1>4
<1>5. ASSUME NEW c, NEW l \in LastOf(g, r, S), <<c, r>> \in g.edges
      PROVE  <<c, l>> \in h.edges
  BY <1>1, <1>3, <1>5
<1>6. ASSUME NEW c, NEW p, <<c, p>> \in h.edges
      PROVE  \/ <<c, p>> \in g.edges
             \/ <<c, r>> \in g.edges /\ p \in LastOf(g, r, S)
  BY <1>1, <1>3, <1>6
<1>7. Graph(h)
  <2> SUFFICES ASSUME NEW e \in h.edges PROVE e \in h.nodes \X h.nodes
    BY DEF Graph
  <2>1. CASE e \in g.edges /\ r \notin {e[1], e[2]}
    BY <1>1, <1>2, <2>1
  <2>2. CASE e \in Children(g, r) \X LastOf(g, r, S)
    <3>1. PICK c \in Children(g, r), l \in LastOf(g, r, S) : e = <<c, l>>
      BY <2>2
    <3>2. <<c, r>> \in g.edges /\ c \in g.nodes /\ c # r
      BY <1>3, Edges, NoLoop DEF Graph
    <3>3. l \in g.nodes /\ l # r
      BY DEF LastOf, Staying
    <3> QED BY <1>1, <3>1, <3>2, <3>3
  <2> QED BY <1>1, <2>1, <2>2
<1> QED BY <1>1, <1>4, <1>5, <1>6, <1>7 DEF h

(* Every one of the migrations that stay is needed by one of the last.     *)
LEMMA LastNeed ==
    ASSUME NEW g, Graph(g), Acyclic(g), NEW r, NEW S, NEW s \in Staying(g, r, S)
    PROVE  \E l \in LastOf(g, r, S) : s \in Needs(g, l)
<1> DEFINE C == {k \in Staying(g, r, S) : s \in Needs(g, k)}
<1>1. C \subseteq g.nodes /\ s \in C
  BY NeedsSelf DEF Staying
<1>2. PICK k \in C : \A c \in C : c \notin Children(g, k)
  <2> HIDE DEF C
  <2> QED BY <1>1, NoRing
<1>3. ASSUME NEW m \in Staying(g, r, S), k \in Parents(g, m)
      PROVE  FALSE
  <2>1. m \in g.nodes /\ m \in Children(g, k)
    BY <1>3, Edges DEF Graph
  <2>2. k \in Needs(g, m)
    BY <1>3, <2>1, NeedsSelf, NeedsStep
  <2>3. s \in Needs(g, m)
    BY <2>2, NeedsTrans
  <2> QED BY <1>2, <2>1, <2>3
<1>4. k \in LastOf(g, r, S)
  BY <1>3 DEF LastOf
<1> QED BY <1>4

(* RemoveReplacementNode makes no cycle: where the migrations that are     *)
(* replaced do not wait for the squashed one, moving its children to the   *)
(* last of them leaves an acyclic graph acyclic.                           *)
THEOREM UnfoldMakesNoCycle ==
    ASSUME NEW g, Graph(g), Acyclic(g), NEW r \in g.nodes, NEW S, Ahead(g, r, S)
    PROVE  Acyclic(RemoveReplacementNode(g, r, S))
<1> DEFINE h == RemoveReplacementNode(g, r, S)
<1>1. /\ h.nodes = g.nodes \ {r} /\ Graph(h)
      /\ \A c, p : <<c, p>> \in h.edges =>
           \/ <<c, p>> \in g.edges
           \/ <<c, r>> \in g.edges /\ p \in LastOf(g, r, S)
  BY Unfolded
<1> HIDE DEF h
<1> SUFFICES ASSUME NEW T \in SUBSET h.nodes, T # {},
                    \A k \in T : Children(h, k) \cap T # {}
             PROVE  FALSE
  BY DEF Acyclic, h
<1>2. T \subseteq g.nodes
  BY <1>1
<1>3. ASSUME NEW k \in T
      PROVE  \E c \in T : <<c, k>> \in g.edges \/ (<<c, r>> \in g.edges /\ k \in LastOf(g, r, S))
  <2>1. PICK c \in T : c \in Children(h, k)
    OBVIOUS
  <2>2. Graph(h)
    BY <1>1
  <2>3. <<c, k>> \in h.edges
    BY <2>1, <2>2, Edges DEF Graph
  <2> QED BY <1>1, <2>3
<1>4. \A c, p : <<c, p>> \in g.edges => p \in Parents(g, c) /\ c \in Children(g, p)
  BY Edges DEF Graph
(* Those of T that need r: no last one is among them.                      *)
<1> DEFINE D == {k \in T : r \in Needs(g, k)}
<1>5. ASSUME NEW k \in D
      PROVE  \E c \in D : c \in Children(g, k)
  <2>1. k \notin LastOf(g, r, S)
    BY DEF LastOf, Ahead
  <2>2. PICK c \in T : <<c, k>> \in g.edges
    BY <1>3, <2>1
  <2>3. k \in Needs(g, c)
    BY <1>2, <1>4, <2>2, NeedsSelf, NeedsStep
  <2>4. r \in Needs(g, c)
    BY <2>3, NeedsTrans
  <2> QED BY <1>4, <2>2, <2>4
<1>6. ASSUME NEW c \in T, <<c, r>> \in g.edges
      PROVE  c \in D
  BY <1>2, <1>4, <1>6, NeedsSelf, NeedsStep
<1>7. D \subseteq g.nodes
  BY <1>2
<1> HIDE DEF D
<1>8. D = {}
  BY <1>5, <1>7, NoRing
<1>9. \A k \in T : \E c \in T : c \in Children(g, k)
  BY <1>3, <1>4, <1>6, <1>8
<1> QED BY <1>2, <1>9, NoRing

(* RemoveReplacementNode loses no dependency: whoever needed a migration,  *)
(* directly or through the squashed one, still needs it, and whoever       *)
(* needed the squashed one needs every migration it was to replace.        *)
THEOREM UnfoldKeepsOrder ==
    ASSUME NEW g, Graph(g), Acyclic(g), NEW r \in g.nodes, NEW S,
           Ahead(g, r, S), Follows(g, r, S),
           NEW x \in g.nodes \ {r}, NEW y \in Reach(g, x, TRUE)
    PROVE  LET after == Reach(RemoveReplacementNode(g, r, S), x, TRUE)
           IN  IF y = r THEN S \cap (g.nodes \ {r}) \subseteq after ELSE y \in after
<1> DEFINE h == RemoveReplacementNode(g, r, S)
<1>1. /\ h.nodes = g.nodes \ {r} /\ Graph(h)
      /\ \A c, p : <<c, p>> \in g.edges /\ c # r /\ p # r => <<c, p>> \in h.edges
      /\ \A c : \A l \in LastOf(g, r, S) : <<c, r>> \in g.edges => <<c, l>> \in h.edges
  BY Unfolded
<1> HIDE DEF h
<1>2. y \in Needs(g, x) /\ y \in g.nodes
  BY NeedsNode DEF Needs
<1>3. Staying(g, r, S) \subseteq h.nodes
  BY <1>1 DEF Staying
<1> SUFFICES ASSUME NEW T \in SUBSET h.nodes, x \in T, Closed(h, T, TRUE)
             PROVE  IF y = r THEN Staying(g, r, S) \subseteq T ELSE y \in T
  BY <1>1, <1>2, <1>3 DEF Reach, h, Staying
<1>4. T \subseteq g.nodes /\ r \notin T
  BY <1>1
<1>5. \A c \in T : \A p : <<c, p>> \in h.edges => p \in T
  <2>1. \A c, p : <<c, p>> \in h.edges => p \in Parents(h, c)
    BY <1>1, Edges DEF Graph
  <2> QED BY <2>1 DEF Closed, DFSNeighbours
<1>6. \A c, p : p \in Parents(g, c) => <<c, p>> \in g.edges /\ p \in g.nodes
  BY Edges DEF Graph
(* A last one in T brings all that it needs.                               *)
<1>7. ASSUME NEW l \in LastOf(g, r, S), l \in T
      PROVE  Needs(g, l) \subseteq T
  <2> DEFINE U == Needs(g, l) \cap T
  <2>1. U \subseteq g.nodes /\ l \in U
    BY <1>4, <1>7, NeedsSelf
  <2>2. ASSUME NEW n \in U, NEW p \in Parents(g, n)
        PROVE  p \in U
    <3>1. p \in Needs(g, l)
      BY NeedsStep
    <3>2. p # r /\ n # r
      BY <3>1 DEF Ahead, LastOf
    <3>3. p \in T
      BY <1>1, <1>5, <1>6, <3>2
    <3> QED BY <3>1, <3>3
  <2> HIDE DEF U
  <2>3. Needs(g, l) \subseteq U
    BY <2>1, <2>2, NeedsLeast
  <2> QED BY <2>3 DEF U
<1>8. ASSUME LastOf(g, r, S) \subseteq T, NEW s \in Staying(g, r, S)
      PROVE  Needs(g, s) \subseteq T /\ s \in T
  <2>1. PICK l \in LastOf(g, r, S) : s \in Needs(g, l)
    BY LastNeed
  <2>2. Needs(g, l) \subseteq T
    BY <1>7, <1>8
  <2>3. Needs(g, s) \subseteq Needs(g, l)
    BY <2>1, NeedsTrans
  <2> QED BY <2>1, <2>2, <2>3
<1> DEFINE V == T \cup (IF LastOf(g, r, S) \subseteq T THEN {r} ELSE {})
<1>9. V \subseteq g.nodes /\ x \in V
  BY <1>4
<1>10. ASSUME NEW n \in V, NEW p \in Parents(g, n)
       PROVE  p \in V
  <2>1. CASE n = r
    <3>1. LastOf(g, r, S) \subseteq T
      BY <1>4, <2>1
    <3>2. PICK s \in Staying(g, r, S) : p \in Needs(g, s)
      BY <2>1 DEF Follows
    <3>3. p \in T
      BY <1>8, <3>1, <3>2
    <3> QED BY <3>3
  <2>2. CASE n # r /\ p = r
    <3>1. n \in T /\ <<n, r>> \in g.edges
      BY <1>6, <2>2
    <3>2. LastOf(g, r, S) \subseteq T
      BY <1>1, <1>5, <3>1
    <3> QED BY <2>2, <3>2
  <2>3. CASE n # r /\ p # r
    <3>1. n \in T /\ <<n, p>> \in g.edges
      BY <1>6, <2>3
    <3>2. p \in T
      BY <1>1, <1>5, <2>3, <3>1
    <3> QED BY <3>2
  <2> QED BY <2>1, <2>2, <2>3
<1> HIDE DEF V
<1>11. y \in V
  BY <1>2, <1>9, <1>10, NeedsLeast
<1>12. CASE y = r
  <2>1. LastOf(g, r, S) \subseteq T
    BY <1>4, <1>11, <1>12 DEF V
  <2> QED BY <1>8, <1>12, <2>1
<1>13. CASE y # r
  BY <1>11, <1>13 DEF V
<1> QED BY <1>12, <1>13

-----------------------------------------------------------------------------
(* Induction over the naturals, as a fact about sets.                      *)
LEMMA Induction ==
    ASSUME NEW S, 0 \in S, \A n \in Nat : n \in S => n + 1 \in S
    PROVE  \A n \in Nat : n \in S
<1> DEFINE T == {n \in Nat : n \notin S}
<1> SUFFICES ASSUME T # {} PROVE FALSE
  OBVIOUS
<1>1. PICK n \in T : \A j \in T : ~(<<j, n>> \in OpToRel(<, Nat))
  <2>1. T \subseteq Nat
    OBVIOUS
  <2> HIDE DEF T
  <2> QED BY <2>1, WFMin, NatLessThanWellFounded
<1>2. \A j \in T : ~(j < n)
  BY <1>1 DEF OpToRel
<1>3. n \in Nat /\ n \notin S /\ n # 0
  OBVIOUS
<1>4. n - 1 \in Nat /\ n - 1 < n /\ (n - 1) + 1 = n
  BY <1>3
<1>5. n - 1 \in S
  BY <1>2, <1>4
<1> QED BY <1>3, <1>4, <1>5

(* A loop that starts from b and takes one step for each of n turns: f[i]  *)
(* is where it is after i of them.                                         *)

IsAdded(f, p, b, k) ==
    f = [i \in 0..Len(Links(p, k)) |->
           IF i = 0 THEN b ELSE AddChecked(p, f[i - 1], k, Links(p, k)[i])]

LEMMA AddedIs ==
    ASSUME NEW p, NEW b, NEW k, Len(Links(p, k)) \in Nat
    PROVE  \E f : /\ f[0] = b
                  /\ \A i \in 1..Len(Links(p, k)) : f[i] = AddChecked(p, f[i - 1], k, Links(p, k)[i])
                  /\ AddExternalDependencies(p, b, k) = f[Len(Links(p, k))]
<1> DEFINE L == Len(Links(p, k))
           Turn(x, i) == AddChecked(p, x, k, Links(p, k)[i])
<1> HIDE DEF Turn
<1> DEFINE Up(f, n) == f = [i \in 0..n |-> IF i = 0 THEN b ELSE Turn(f[i - 1], i)]
           S == {n \in Nat : \E f : Up(f, n)}
<1>1. 0 \in S
  <2>1. Up([i \in 0..0 |-> b], 0)
    OBVIOUS
  <2> QED BY <2>1
<1>2. ASSUME NEW n \in Nat, n \in S PROVE n + 1 \in S
  <2>1. PICK f : Up(f, n)
    BY <1>2
  <2> DEFINE q == [i \in 0..(n + 1) |-> IF i = 0 THEN b ELSE Turn(f[i - 1], i)]
  <2>2. \A i \in 0..n : q[i] = f[i]
    BY <2>1
  <2>3. q = [i \in 0..(n + 1) |-> IF i = 0 THEN b ELSE Turn(f[i - 1], i)]
    OBVIOUS
  <2> HIDE DEF q
  <2>4. \A i \in 0..(n + 1) : i # 0 => q[i - 1] = f[i - 1]
    <3>1. \A i \in 0..(n + 1) : i # 0 => i - 1 \in 0..n
      OBVIOUS
    <3> QED BY <2>2, <3>1
  <2>5. Up(q, n + 1)
    BY <2>3, <2>4
  <2> QED BY <2>5
<1>3. \E f : Up(f, L)
  <2> HIDE DEF S
  <2>1. L \in S
    BY <1>1, <1>2, Induction
  <2> QED BY <2>1 DEF S
<1>4. \E f : IsAdded(f, p, b, k)
  BY <1>3 DEF IsAdded, Turn
<1> DEFINE F == CHOOSE f : IsAdded(f, p, b, k)
<1>5. IsAdded(F, p, b, k)
  BY <1>4, Zenon
<1>6. AddExternalDependencies(p, b, k) = F[L]
  BY Zenon DEF AddExternalDependencies, IsAdded
<1>7. Up(F, L)
  BY <1>5, Zenon DEF IsAdded, Turn
<1> HIDE DEF F
<1>8. F[0] = b /\ \A i \in 1..L : F[i] = Turn(F[i - 1], i)
  BY <1>7
<1> QED BY <1>6, <1>8, Zenon DEF Turn

(* The loader before any dependency on another app.                        *)
Unlinked(p) ==
    [graph |-> AddInternalDependencies(p, AddNodes(EmptyGraph, Disk(p))), error |-> "none"]

IsLinked(f, p) ==
    f = [i \in 0..Len(SortKeys(Disk(p))) |->
           IF i = 0 THEN Unlinked(p) ELSE AddExternalDependencies(p, f[i - 1], SortKeys(Disk(p))[i])]

LEMMA LinkedIs ==
    ASSUME NEW p, Len(SortKeys(Disk(p))) \in Nat
    PROVE  \E f : /\ f[0] = Unlinked(p)
                  /\ \A i \in 1..Len(SortKeys(Disk(p))) : f[i] = AddExternalDependencies(p, f[i - 1], SortKeys(Disk(p))[i])
                  /\ Linked(p) = f[Len(SortKeys(Disk(p)))]
<1> DEFINE L == Len(SortKeys(Disk(p)))
           Turn(x, i) == AddExternalDependencies(p, x, SortKeys(Disk(p))[i])
<1> HIDE DEF Turn
<1> DEFINE Up(f, n) == f = [i \in 0..n |-> IF i = 0 THEN Unlinked(p) ELSE Turn(f[i - 1], i)]
           S == {n \in Nat : \E f : Up(f, n)}
<1>1. 0 \in S
  <2>1. Up([i \in 0..0 |-> Unlinked(p)], 0)
    OBVIOUS
  <2> QED BY <2>1
<1>2. ASSUME NEW n \in Nat, n \in S PROVE n + 1 \in S
  <2>1. PICK f : Up(f, n)
    BY <1>2
  <2> DEFINE q == [i \in 0..(n + 1) |-> IF i = 0 THEN Unlinked(p) ELSE Turn(f[i - 1], i)]
  <2>2. \A i \in 0..n : q[i] = f[i]
    BY <2>1
  <2>3. q = [i \in 0..(n + 1) |-> IF i = 0 THEN Unlinked(p) ELSE Turn(f[i - 1], i)]
    OBVIOUS
  <2> HIDE DEF q
  <2>4. \A i \in 0..(n + 1) : i # 0 => q[i - 1] = f[i - 1]
    <3>1. \A i \in 0..(n + 1) : i # 0 => i - 1 \in 0..n
      OBVIOUS
    <3> QED BY <2>2, <3>1
  <2>5. Up(q, n + 1)
    BY <2>3, <2>4
  <2> QED BY <2>5
<1>3. \E f : Up(f, L)
  <2> HIDE DEF S
  <2>1. L \in S
    BY <1>1, <1>2, Induction
  <2> QED BY <2>1 DEF S
<1>4. \E f : IsLinked(f, p)
  BY <1>3 DEF IsLinked, Turn
<1> DEFINE F == CHOOSE f : IsLinked(f, p)
<1>5. IsLinked(F, p)
  BY <1>4, Zenon
<1>6. Linked(p) = F[L]
  BY Zenon DEF Linked, IsLinked, Unlinked
<1>7. Up(F, L)
  BY <1>5, Zenon DEF IsLinked, Turn
<1> HIDE DEF F
<1>8. F[0] = Unlinked(p) /\ \A i \in 1..L : F[i] = Turn(F[i - 1], i)
  BY <1>7
<1> QED BY <1>6, <1>8, Zenon DEF Turn

IsReplaced(f, p, b) ==
    f = [i \in 0..Len(SortKeys(Replacements(p))) |->
           IF i = 0 THEN b ELSE ReplaceMigration(p, f[i - 1], SortKeys(Replacements(p))[i])]

LEMMA ReplacedIs ==
    ASSUME NEW p, NEW b, Len(SortKeys(Replacements(p))) \in Nat
    PROVE  \E f : /\ f[0] = b
                  /\ \A i \in 1..Len(SortKeys(Replacements(p))) : f[i] = ReplaceMigration(p, f[i - 1], SortKeys(Replacements(p))[i])
                  /\ ReplaceMigrations(p, b) = f[Len(SortKeys(Replacements(p)))]
<1> DEFINE L == Len(SortKeys(Replacements(p)))
           Turn(x, i) == ReplaceMigration(p, x, SortKeys(Replacements(p))[i])
<1> HIDE DEF Turn
<1> DEFINE Up(f, n) == f = [i \in 0..n |-> IF i = 0 THEN b ELSE Turn(f[i - 1], i)]
           S == {n \in Nat : \E f : Up(f, n)}
<1>1. 0 \in S
  <2>1. Up([i \in 0..0 |-> b], 0)
    OBVIOUS
  <2> QED BY <2>1
<1>2. ASSUME NEW n \in Nat, n \in S PROVE n + 1 \in S
  <2>1. PICK f : Up(f, n)
    BY <1>2
  <2> DEFINE q == [i \in 0..(n + 1) |-> IF i = 0 THEN b ELSE Turn(f[i - 1], i)]
  <2>2. \A i \in 0..n : q[i] = f[i]
    BY <2>1
  <2>3. q = [i \in 0..(n + 1) |-> IF i = 0 THEN b ELSE Turn(f[i - 1], i)]
    OBVIOUS
  <2> HIDE DEF q
  <2>4. \A i \in 0..(n + 1) : i # 0 => q[i - 1] = f[i - 1]
    <3>1. \A i \in 0..(n + 1) : i # 0 => i - 1 \in 0..n
      OBVIOUS
    <3> QED BY <2>2, <3>1
  <2>5. Up(q, n + 1)
    BY <2>3, <2>4
  <2> QED BY <2>5
<1>3. \E f : Up(f, L)
  <2> HIDE DEF S
  <2>1. L \in S
    BY <1>1, <1>2, Induction
  <2> QED BY <2>1 DEF S
<1>4. \E f : IsReplaced(f, p, b)
  BY <1>3 DEF IsReplaced, Turn
<1> DEFINE F == CHOOSE f : IsReplaced(f, p, b)
<1>5. IsReplaced(F, p, b)
  BY <1>4, Zenon
<1>6. ReplaceMigrations(p, b) = F[L]
  BY Zenon DEF ReplaceMigrations, IsReplaced
<1>7. Up(F, L)
  BY <1>5, Zenon DEF IsReplaced, Turn
<1> HIDE DEF F
<1>8. F[0] = b /\ \A i \in 1..L : F[i] = Turn(F[i - 1], i)
  BY <1>7
<1> QED BY <1>6, <1>8, Zenon DEF Turn

-----------------------------------------------------------------------------
(* The graph of a project: all migrations on disk are in it, the others in *)
(* it are placeholders.                                                    *)
GraphSet == [nodes : SUBSET Key, dummies : SUBSET Key, edges : SUBSET (Key \X Key)]

Built(p, g) ==
    /\ g \in GraphSet /\ Graph(g)
    /\ Disk(p) \subseteq g.nodes /\ g.dummies = g.nodes \ Disk(p)

LEMMA AddBuilt ==
    ASSUME NEW p, NEW g, Built(p, g), NEW pairs, pairs \subseteq Key \X Key
    PROVE  Built(p, AddDependencies(g, pairs))
<1> DEFINE E == UNION {{e[1], e[2]} : e \in pairs}
           h == AddDependencies(g, pairs)
<1>1. E \subseteq Key /\ pairs \subseteq E \X E
  OBVIOUS
<1>2. /\ h = [nodes |-> g.nodes \cup (E \ g.nodes), dummies |-> g.dummies \cup (E \ g.nodes),
              edges |-> g.edges \cup pairs]
  BY DEF AddDependencies
<1> HIDE DEF E
<1>3. h.nodes = g.nodes \cup E /\ h.dummies = g.dummies \cup (E \ g.nodes) /\ h.edges = g.edges \cup pairs
  BY <1>2
<1>4. h \in GraphSet
  BY <1>1, <1>2 DEF Built, GraphSet
<1>5. Graph(h)
  BY <1>1, <1>3 DEF Built, Graph
<1> HIDE DEF h
<1>6. Disk(p) \subseteq h.nodes /\ h.dummies = h.nodes \ Disk(p)
  BY <1>3 DEF Built
<1> QED BY <1>4, <1>5, <1>6 DEF Built, h

LEMMA SortIs ==
    ASSUME NEW S \in SUBSET Key
    PROVE  /\ SortKeys(S) \in Seq(S) /\ Len(SortKeys(S)) \in Nat
           /\ \A i \in 1..Len(SortKeys(S)) : SortKeys(S)[i] \in S
           /\ \A k \in S : \E i \in 1..Len(SortKeys(S)) : SortKeys(S)[i] = k
<1>1. SortKeys(S) \in Seq(S) /\ ToSet(SortKeys(S)) = S
  BY SortKeysAssumption
<1> DEFINE q == SortKeys(S)
<1> HIDE DEF q
<1>2. q \in Seq(S) /\ {q[i] : i \in DOMAIN q} = S
  BY <1>1 DEF q, ToSet
<1>3. Len(q) \in Nat /\ DOMAIN q = 1..Len(q) /\ \A i \in 1..Len(q) : q[i] \in S
  BY <1>2
<1> QED BY <1>2, <1>3 DEF q

(* What checkKey finds is a migration.                                     *)
LEMMA FoundKey ==
    ASSUME NEW p, NEW g, Built(p, g), NEW key \in Key, NEW app, ~CheckKeyFails(p, g, key, app)
    PROVE  CheckKey(p, g, key, app) \subseteq Key
<1> DEFINE E == Ends(g, key)
<1>1. ASSUME E # <<>> PROVE Head(E) \in Key
  <2>1. PICK S \in SUBSET Key : E = SortKeys(S)
    <3>1. g.nodes \subseteq Key
      BY DEF Built, GraphSet
    <3>2. CASE key.name = First
      <4> DEFINE T == {k \in g.nodes : k.app \in {key.app} /\ InApp(Parents(g, k), k.app) = {}}
      <4>1. T \in SUBSET Key /\ E = SortKeys(T)
        BY <3>1, <3>2 DEF Ends, RootNodes
      <4> HIDE DEF T, E
      <4> QED BY <4>1
    <3>3. CASE key.name # First
      <4> DEFINE T == {k \in g.nodes : k.app \in {key.app} /\ InApp(Children(g, k), k.app) = {}}
      <4>1. T \in SUBSET Key /\ E = SortKeys(T)
        BY <3>1, <3>3 DEF Ends, LeafNodes
      <4> HIDE DEF T, E
      <4> QED BY <4>1
    <3> QED BY <3>2, <3>3
  <2> HIDE DEF E
  <2>2. E \in Seq(S)
    BY <2>1, SortIs
  <2>3. Head(E) \in S
    BY <1>1, <2>2
  <2> QED BY <2>3
<1> QED BY <1>1 DEF CheckKey, CheckKeyFails

Halfway(p) == {l \in [graph : GraphSet, error : {"none", "value"}] : Built(p, l.graph)}

LEMMA CheckedBuilt ==
    ASSUME NEW p, NEW k \in Key, NEW l \in Halfway(p), NEW link,
           link.other \in Key, link.before \in BOOLEAN
    PROVE  AddChecked(p, l, k, link) \in Halfway(p)
<1> DEFINE found == CheckKey(p, l.graph, link.other, k.app)
           pairs == IF link.before THEN found \X {k} ELSE {k} \X found
           m == [l EXCEPT !.graph = AddDependencies(@, pairs)]
<1>1. Built(p, l.graph) /\ l \in [graph : GraphSet, error : {"none", "value"}]
  BY DEF Halfway
<1>2. [l EXCEPT !.error = "value"] \in Halfway(p)
  BY <1>1 DEF Halfway
<1>3. ASSUME ~CheckKeyFails(p, l.graph, link.other, k.app)
      PROVE  m \in Halfway(p)
  <2>1. found \subseteq Key
    BY <1>1, <1>3, FoundKey
  <2> HIDE DEF found
  <2>2. pairs \subseteq Key \X Key
    BY <2>1
  <2> HIDE DEF pairs
  <2>3. Built(p, AddDependencies(l.graph, pairs))
    BY <1>1, <2>2, AddBuilt
  <2>4. AddDependencies(l.graph, pairs) \in GraphSet
    BY <2>3 DEF Built
  <2>5. m \in [graph : GraphSet, error : {"none", "value"}] /\ m.graph = AddDependencies(l.graph, pairs)
    BY <1>1, <2>4
  <2> HIDE DEF m
  <2> QED BY <2>3, <2>5 DEF Halfway
<1>4. AddChecked(p, l, k, link) \in {l, [l EXCEPT !.error = "value"]}
        \/ (~CheckKeyFails(p, l.graph, link.other, k.app) /\ AddChecked(p, l, k, link) = m)
  BY Zenon DEF AddChecked
<1> QED BY <1>2, <1>3, <1>4

LEMMA LinksTyped ==
    ASSUME NEW p, WellFormed(p), NEW k \in Disk(p)
    PROVE  /\ Len(Links(p, k)) \in Nat
           /\ \A i \in 1..Len(Links(p, k)) :
                Links(p, k)[i].other \in Key /\ Links(p, k)[i].before \in BOOLEAN
<1> DEFINE R == [other : Key, before : BOOLEAN]
           a == p.migs[k].deps
           b == p.migs[k].before
           la == [i \in DOMAIN a |-> [other |-> a[i], before |-> FALSE]]
           lb == [i \in DOMAIN b |-> [other |-> b[i], before |-> TRUE]]
<1>1. a \in Seq(Key) /\ b \in Seq(Key)
  BY DEF WellFormed
<1>2. Links(p, k) = la \o lb
  BY Zenon DEF Links
<1> HIDE DEF a, b
<1>3. la \in [1..Len(a) -> R] /\ lb \in [1..Len(b) -> R] /\ Len(a) \in Nat /\ Len(b) \in Nat
  BY <1>1
<1> HIDE DEF la, lb
<1>4. la \in Seq(R) /\ lb \in Seq(R)
  <2> HIDE DEF R
  <2> QED BY <1>3
<1> DEFINE l == la \o lb
<1>5. l \in Seq(R)
  <2> HIDE DEF R
  <2> QED BY <1>4
<1> HIDE DEF l
<1>6. Len(l) \in Nat /\ \A i \in 1..Len(l) : l[i] \in R
  <2> HIDE DEF R
  <2> QED BY <1>5
<1>7. \A x \in R : x.other \in Key /\ x.before \in BOOLEAN
  OBVIOUS
<1>8. Len(l) \in Nat /\ \A i \in 1..Len(l) : l[i].other \in Key /\ l[i].before \in BOOLEAN
  <2> HIDE DEF R
  <2> QED BY <1>6, <1>7
<1> QED BY <1>2, <1>8, Zenon DEF l

LEMMA ExternalBuilt ==
    ASSUME NEW p, WellFormed(p), NEW k \in Disk(p), NEW b \in Halfway(p)
    PROVE  AddExternalDependencies(p, b, k) \in Halfway(p)
<1> DEFINE L == Len(Links(p, k))
<1>1. L \in Nat /\ \A i \in 1..L : Links(p, k)[i].other \in Key /\ Links(p, k)[i].before \in BOOLEAN
  BY LinksTyped
<1>a. Len(Links(p, k)) \in Nat
  BY <1>1
<1>2. PICK f : /\ f[0] = b
               /\ \A i \in 1..L : f[i] = AddChecked(p, f[i - 1], k, Links(p, k)[i])
               /\ AddExternalDependencies(p, b, k) = f[L]
  BY <1>a, AddedIs
<1>3. k \in Key
  BY DEF WellFormed
<1> HIDE DEF L
<1> DEFINE S == {n \in Nat : n \in 0..L => f[n] \in Halfway(p)}
<1>4. 0 \in S
  BY <1>2
<1>5. ASSUME NEW n \in Nat, n \in S PROVE n + 1 \in S
  <2> SUFFICES ASSUME n + 1 \in 0..L PROVE f[n + 1] \in Halfway(p)
    OBVIOUS
  <2>1. n + 1 \in 1..L /\ n \in 0..L /\ (n + 1) - 1 = n
    BY <1>1
  <2>2. f[n] \in Halfway(p) /\ f[n + 1] = AddChecked(p, f[n], k, Links(p, k)[n + 1])
    BY <1>2, <1>5, <2>1
  <2> QED BY <1>1, <1>3, <2>1, <2>2, CheckedBuilt
<1> HIDE DEF S
<1>6. L \in S
  BY <1>1, <1>4, <1>5, Induction
<1>7. L \in 0..L
  BY <1>1
<1> QED BY <1>2, <1>6, <1>7 DEF S

(* What BuildGraph has before any squash is folded in.                     *)
LEMMA LinkedBuilt ==
    ASSUME NEW p, WellFormed(p)
    PROVE  Linked(p) \in Halfway(p)
<1> DEFINE keys == SortKeys(Disk(p))
           L == Len(keys)
<1>1. L \in Nat /\ \A i \in 1..L : keys[i] \in Disk(p)
  BY SortIs DEF WellFormed
<1>2. PICK f : /\ f[0] = Unlinked(p)
               /\ \A i \in 1..L : f[i] = AddExternalDependencies(p, f[i - 1], keys[i])
               /\ Linked(p) = f[L]
  BY <1>1, LinkedIs, Zenon
<1>3. Unlinked(p) \in Halfway(p)
  <2> DEFINE internal(k) == {q \in ToSet(p.migs[k].deps) : q.app = k.app /\ q.name # First}
             pairs == UNION {{k} \X internal(k) : k \in Disk(p)}
             g == AddNodes(EmptyGraph, Disk(p))
  <2>1. pairs \subseteq Key \X Key
    <3>1. ASSUME NEW k \in Disk(p) PROVE internal(k) \subseteq Key /\ k \in Key
      <4>1. p.migs[k].deps \in Seq(Key) /\ k \in Key
        BY DEF WellFormed
      <4>2. \A i \in DOMAIN p.migs[k].deps : p.migs[k].deps[i] \in Key
        BY <4>1
      <4> QED BY <4>1, <4>2 DEF ToSet
    <3> HIDE DEF internal
    <3> QED BY <3>1
  <2>2. Built(p, g)
    BY DEF WellFormed, Built, AddNodes, EmptyGraph, GraphSet, Graph
  <2>3. AddInternalDependencies(p, g) = AddDependencies(g, pairs)
    BY Zenon DEF AddInternalDependencies
  <2> HIDE DEF pairs, g
  <2>4. Built(p, AddInternalDependencies(p, g))
    BY <2>1, <2>2, <2>3, AddBuilt
  <2>5. AddInternalDependencies(p, g) \in GraphSet
    BY <2>4 DEF Built
  <2>6. Unlinked(p) = [graph |-> AddInternalDependencies(p, g), error |-> "none"]
    BY DEF Unlinked, g
  <2> QED BY <2>4, <2>5, <2>6 DEF Halfway
<1> HIDE DEF keys, L
<1> DEFINE S == {n \in Nat : n \in 0..L => f[n] \in Halfway(p)}
<1>4. 0 \in S
  BY <1>2, <1>3
<1>5. ASSUME NEW n \in Nat, n \in S PROVE n + 1 \in S
  <2> SUFFICES ASSUME n + 1 \in 0..L PROVE f[n + 1] \in Halfway(p)
    OBVIOUS
  <2>1. n + 1 \in 1..L /\ n \in 0..L /\ (n + 1) - 1 = n
    BY <1>1
  <2>2. f[n] \in Halfway(p) /\ f[n + 1] = AddExternalDependencies(p, f[n], keys[n + 1])
    BY <1>2, <1>5, <2>1
  <2> QED BY <1>1, <2>1, <2>2, ExternalBuilt
<1> HIDE DEF S
<1>6. L \in S
  BY <1>1, <1>4, <1>5, Induction
<1>7. L \in 0..L
  BY <1>1
<1> QED BY <1>2, <1>6, <1>7 DEF S

-----------------------------------------------------------------------------
(* resolveReplacedKeys and replaceMigration have nothing to go into where  *)
(* no squash replaces another.                                             *)

IsResolve(f, p) ==
    f = [x \in Replacements(p) |->
           UNION {IF q \in Replacements(p) THEN f[q] ELSE {q} : q \in ToSet(p.migs[x].replaces)}]

LEMMA ResolvedFlat ==
    ASSUME NEW p, Flat(p), NEW r \in Replacements(p)
    PROVE  ResolveReplacedKeys(p, r) = Squash(p, r)
<1> DEFINE U(f, x) == UNION {IF q \in Replacements(p) THEN f[q] ELSE {q} : q \in ToSet(p.migs[x].replaces)}
<1>1. ASSUME NEW f, NEW x \in Replacements(p) PROVE U(f, x) = Squash(p, x)
  <2>1. \A q \in ToSet(p.migs[x].replaces) : q \notin Replacements(p)
    BY DEF Flat, Squash
  <2>2. U(f, x) \subseteq ToSet(p.migs[x].replaces)
    BY <2>1
  <2>3. ToSet(p.migs[x].replaces) \subseteq U(f, x)
    BY <2>1
  <2> QED BY <2>2, <2>3 DEF Squash
<1> HIDE DEF U
<1> DEFINE f0 == [x \in Replacements(p) |-> Squash(p, x)]
<1>2. f0 = [x \in Replacements(p) |-> U(f0, x)]
  BY <1>1
<1>3. \E f : IsResolve(f, p)
  BY <1>2, Zenon DEF IsResolve, U
<1> DEFINE F == CHOOSE f : IsResolve(f, p)
<1>4. IsResolve(F, p)
  BY <1>3, Zenon
<1>5. ResolveReplacedKeys(p, r) = F[r]
  BY Zenon DEF ResolveReplacedKeys, IsResolve
<1> HIDE DEF F
<1>6. F = [x \in Replacements(p) |-> U(F, x)]
  BY <1>4, Zenon DEF IsResolve, U
<1>7. F[r] = U(F, r)
  BY <1>6
<1> QED BY <1>1, <1>5, <1>7

IsNested(n, p, f, k, l) ==
    n = [i \in 0..Len(p.migs[k].replaces) |->
           IF i = 0 THEN [l EXCEPT !.open = @ \cup {k}]
           ELSE IF p.migs[k].replaces[i] \in Replacements(p) THEN f[<<p.migs[k].replaces[i], n[i - 1]>>]
           ELSE n[i - 1]]

Inner(p, f, k, l) == (CHOOSE n : IsNested(n, p, f, k, l))[Len(p.migs[k].replaces)]

Replaced(p, l, k, inner) ==
    IF l.error # "none" \/ k \in l.done THEN l
    ELSE IF k \in l.open THEN [l EXCEPT !.error = "cyclical"]
    ELSE IF inner.error # "none" THEN inner ELSE FoldIn(p, inner, k)

IsReplace(f, p) ==
    f = [kl \in Replacements(p) \X Loaders |-> Replaced(p, kl[2], kl[1], Inner(p, f, kl[1], kl[2]))]

LEMMA InnerFlat ==
    ASSUME NEW p, WellFormed(p), Flat(p), NEW f, NEW k \in Replacements(p), NEW l
    PROVE  Inner(p, f, k, l) = [l EXCEPT !.open = @ \cup {k}]
<1> DEFINE m == [l EXCEPT !.open = @ \cup {k}]
           R == p.migs[k].replaces
           L == Len(R)
           T(i, x) == IF R[i] \in Replacements(p) THEN f[<<R[i], x>>] ELSE x
<1>1. L \in Nat /\ \A i \in 1..L : R[i] \notin Replacements(p)
  <2>1. R \in Seq(Key) /\ \A i \in DOMAIN R : R[i] \notin Replacements(p)
    BY DEF WellFormed, Flat, Squash, Replacements, ToSet
  <2> HIDE DEF R
  <2> QED BY <2>1
<1>2. \A x : \A i \in 1..L : T(i, x) = x
  BY <1>1
<1>3. \A n : IsNested(n, p, f, k, l) <=> n = [i \in 0..L |-> IF i = 0 THEN m ELSE T(i, n[i - 1])]
  BY Zenon DEF IsNested
<1> HIDE DEF m, R, L, T
<1> DEFINE c == [i \in 0..L |-> m]
<1>4. c = [i \in 0..L |-> IF i = 0 THEN m ELSE T(i, c[i - 1])]
  <2>1. ASSUME NEW i \in 0..L, i # 0 PROVE T(i, c[i - 1]) = m
    <3>1. i \in 1..L /\ i - 1 \in 0..L
      BY <1>1, <2>1
    <3> QED BY <1>2, <3>1
  <2> QED BY <2>1
<1> DEFINE N == CHOOSE n : IsNested(n, p, f, k, l)
<1>5. IsNested(N, p, f, k, l)
  BY <1>3, <1>4, Zenon
<1>6. N = [i \in 0..L |-> IF i = 0 THEN m ELSE T(i, N[i - 1])]
  BY <1>3, <1>5, Zenon
<1>7. Inner(p, f, k, l) = N[L]
  BY Zenon DEF Inner, L, R
<1> HIDE DEF N
<1> DEFINE S == {n \in Nat : n \in 0..L => N[n] = m}
<1>8. 0 \in S
  BY <1>1, <1>6
<1>9. ASSUME NEW n \in Nat, n \in S PROVE n + 1 \in S
  <2> SUFFICES ASSUME n + 1 \in 0..L PROVE N[n + 1] = m
    OBVIOUS
  <2>1. n + 1 \in 1..L /\ n \in 0..L /\ (n + 1) - 1 = n /\ n + 1 # 0
    BY <1>1
  <2>2. N[n + 1] = T(n + 1, N[n])
    BY <1>6, <2>1
  <2> QED BY <1>2, <1>9, <2>1, <2>2
<1> HIDE DEF S
<1>10. L \in S
  BY <1>1, <1>8, <1>9, Induction
<1>11. L \in 0..L
  BY <1>1
<1> QED BY <1>7, <1>10, <1>11 DEF S, m

LEMMA ReplaceFlat ==
    ASSUME NEW p, WellFormed(p), Flat(p), NEW k \in Replacements(p), NEW l \in Loaders
    PROVE  ReplaceMigration(p, l, k) = Replaced(p, l, k, [l EXCEPT !.open = @ \cup {k}])
<1> DEFINE D == Replacements(p) \X Loaders
           W(f, x) == Replaced(p, x[2], x[1], Inner(p, f, x[1], x[2]))
           V(x) == Replaced(p, x[2], x[1], [x[2] EXCEPT !.open = @ \cup {x[1]}])
           f0 == [x \in D |-> V(x)]
<1>1. \A f : \A x \in D : W(f, x) = V(x)
  <2>1. \A x \in D : x[1] \in Replacements(p)
    OBVIOUS
  <2> HIDE DEF D
  <2>2. \A f : \A kk \in Replacements(p) : \A ll : Inner(p, f, kk, ll) = [ll EXCEPT !.open = @ \cup {kk}]
    BY InnerFlat
  <2> QED BY <2>1, <2>2, Zenon
<1>2. \A f : IsReplace(f, p) <=> f = [x \in D |-> W(f, x)]
  BY Zenon DEF IsReplace
<1>a. <<k, l>> \in D /\ <<k, l>>[1] = k /\ <<k, l>>[2] = l
  OBVIOUS
<1> HIDE DEF V, W, D
<1>3. \A f : f = [x \in D |-> W(f, x)] <=> f = f0
  BY <1>1
<1> HIDE DEF f0
<1> DEFINE F == CHOOSE f : IsReplace(f, p)
<1>4. F = f0
  <2>1. \E f : IsReplace(f, p)
    BY <1>2, <1>3, Zenon
  <2>2. IsReplace(F, p)
    BY <2>1, Zenon
  <2> QED BY <1>2, <1>3, <2>2, Zenon
<1>5. ReplaceMigration(p, l, k) = F[<<k, l>>]
  BY Zenon DEF ReplaceMigration, IsReplace, Replaced, Inner, IsNested
<1> HIDE DEF F
<1>6. f0[<<k, l>>] = V(<<k, l>>)
  BY <1>a DEF f0
<1>7. V(<<k, l>>) = Replaced(p, l, k, [l EXCEPT !.open = @ \cup {k}])
  BY <1>a DEF V
<1> QED BY <1>4, <1>5, <1>6, <1>7

-----------------------------------------------------------------------------
(* The squashes of a regular project.                                      *)

Base(p) == Linked(p).graph

LEMMA BaseBuilt ==
    ASSUME NEW p, WellFormed(p)
    PROVE  Built(p, Base(p)) /\ Replacements(p) \subseteq Disk(p)
BY LinkedBuilt DEF Halfway, Base, Replacements

LEMMA StandInIs ==
    ASSUME NEW p, Flat(p)
    PROVE  /\ \A r \in Replacements(p) : \A k \in Squash(p, r) : StandIn(p, k) = r
           /\ \A r \in Replacements(p) : StandIn(p, r) = r
           /\ \A k : (\A r \in Replacements(p) : k \notin Squash(p, r)) => StandIn(p, k) = k
           /\ \A k : StandIn(p, k) # k =>
                StandIn(p, k) \in Replacements(p) /\ k \in Squash(p, StandIn(p, k))
<1>1. ASSUME NEW r \in Replacements(p), NEW k \in Squash(p, r) PROVE StandIn(p, k) = r
  <2> DEFINE c == CHOOSE s \in Replacements(p) : k \in Squash(p, s)
  <2>1. c \in Replacements(p) /\ k \in Squash(p, c)
    BY Zenon
  <2>2. StandIn(p, k) = c
    BY Zenon DEF StandIn
  <2> HIDE DEF c
  <2> QED BY <2>1, <2>2 DEF Flat
<1>2. ASSUME NEW k, \A r \in Replacements(p) : k \notin Squash(p, r) PROVE StandIn(p, k) = k
  BY <1>2, Zenon DEF StandIn
<1>3. ASSUME NEW r \in Replacements(p) PROVE StandIn(p, r) = r
  <2>1. \A s \in Replacements(p) : r \notin Squash(p, s)
    BY DEF Flat
  <2> QED BY <1>2, <2>1
<1>4. ASSUME NEW k, StandIn(p, k) # k
      PROVE  StandIn(p, k) \in Replacements(p) /\ k \in Squash(p, StandIn(p, k))
  <2>1. PICK r \in Replacements(p) : k \in Squash(p, r)
    BY <1>2, <1>4
  <2> QED BY <1>1, <2>1
<1> QED BY <1>1, <1>2, <1>3, <1>4

(* The graph in which every squash stands for what it replaces.            *)
LEMMA SquashedIs ==
    ASSUME NEW p, WellFormed(p), Flat(p)
    PROVE  /\ Graph(Squashed(p))
           /\ \A k \in Base(p).nodes : StandIn(p, k) \in Squashed(p).nodes
           /\ \A c, d : <<c, d>> \in Base(p).edges =>
                \/ <<StandIn(p, c), StandIn(p, d)>> \in Squashed(p).edges
                \/ Together(p, c, d)
<1> DEFINE g == Base(p)
           Q == Squashed(p)
<1>1. g.edges \subseteq g.nodes \X g.nodes /\ Disk(p) \subseteq g.nodes /\ Replacements(p) \subseteq Disk(p)
  BY BaseBuilt DEF Built, Graph
<1>2. /\ Q.nodes = {k \in g.nodes : StandIn(p, k) = k}
      /\ Q.edges = {<<StandIn(p, e[1]), StandIn(p, e[2])>> :
                      e \in {d \in g.edges : ~Together(p, d[1], d[2])}}
  BY DEF Squashed, Base
<1> HIDE DEF g, Q
<1>3. ASSUME NEW k \in g.nodes PROVE StandIn(p, k) \in Q.nodes
  <2>1. StandIn(p, k) \in g.nodes /\ StandIn(p, StandIn(p, k)) = StandIn(p, k)
    BY <1>1, StandInIs
  <2> QED BY <1>2, <2>1
<1>4. Graph(Q)
  <2>1. ASSUME NEW e \in g.edges PROVE <<StandIn(p, e[1]), StandIn(p, e[2])>> \in Q.nodes \X Q.nodes
    <3>1. e[1] \in g.nodes /\ e[2] \in g.nodes
      BY <1>1
    <3> QED BY <1>3, <3>1
  <2> QED BY <1>2, <2>1 DEF Graph
<1>5. ASSUME NEW c, NEW d, <<c, d>> \in g.edges, ~Together(p, c, d)
      PROVE  <<StandIn(p, c), StandIn(p, d)>> \in Q.edges
  <2> DEFINE e == <<c, d>>
  <2>1. e \in {x \in g.edges : ~Together(p, x[1], x[2])} /\ e[1] = c /\ e[2] = d
    BY <1>5
  <2> HIDE DEF e
  <2> QED BY <1>2, <2>1
<1> QED BY <1>3, <1>4, <1>5 DEF g, Q

(* An edge of g leads where one of the project's does, squashes standing   *)
(* for what they replace, or is one of the project's within a squash.      *)
Leads(p, g) ==
    \A c, d : <<c, d>> \in g.edges =>
        \/ <<StandIn(p, c), StandIn(p, d)>> \in Squashed(p).edges
        \/ <<c, d>> \in Base(p).edges /\ Together(p, c, d)

LEMMA TogetherIs ==
    ASSUME NEW p, Flat(p), NEW c, NEW d, Together(p, c, d)
    PROVE  /\ StandIn(p, c) = StandIn(p, d)
           /\ c \notin Replacements(p) /\ d \notin Replacements(p)
<1>1. PICK r \in Replacements(p) : c \in Squash(p, r) /\ d \in Squash(p, r)
  BY DEF Together
<1> QED BY <1>1, StandInIs DEF Flat

(* Folded or not, the squashes make no circle.                             *)
LEMMA NoCircle ==
    ASSUME NEW p, Regular(p), NEW g, Graph(g), g.nodes \subseteq Base(p).nodes, Leads(p, g)
    PROVE  Acyclic(g)
<1> DEFINE Q == Squashed(p)
           q(k) == StandIn(p, k)
<1>0. WellFormed(p) /\ Flat(p) /\ Acyclic(Q) /\ Acyclic(Base(p))
  BY DEF Regular, Base
<1>a. Graph(Q) /\ \A k \in Base(p).nodes : q(k) \in Q.nodes
  BY <1>0, SquashedIs
<1>b. Graph(Base(p))
  BY <1>0, BaseBuilt DEF Built
<1> SUFFICES ASSUME NEW T \in SUBSET g.nodes, T # {},
                    \A k \in T : Children(g, k) \cap T # {}
             PROVE  FALSE
  BY DEF Acyclic
<1> DEFINE I == {q(k) : k \in T}
<1>1. I \subseteq Q.nodes /\ I # {}
  BY <1>a
<1> HIDE DEF Q, q
<1>2. PICK a \in I : \A c \in I : c \notin Children(Q, a)
  <2> HIDE DEF I
  <2> QED BY <1>0, <1>1, NoRing
<1> DEFINE B == {k \in T : q(k) = a}
<1>3. B \subseteq Base(p).nodes /\ B # {}
  OBVIOUS
<1>4. ASSUME NEW k \in B PROVE \E c \in B : c \in Children(Base(p), k)
  <2>1. PICK c \in T : c \in Children(g, k)
    OBVIOUS
  <2>2. <<c, k>> \in g.edges
    BY <2>1, Edges DEF Graph
  <2>3. <<q(c), q(k)>> \notin Q.edges
    <3>1. q(c) \in I /\ q(k) = a
      OBVIOUS
    <3> QED BY <1>2, <1>a, <3>1, Edges DEF Graph
  <2>4. <<c, k>> \in Base(p).edges /\ Together(p, c, k)
    BY <2>2, <2>3 DEF Leads, q, Q
  <2>5. q(c) = q(k)
    BY <1>0, <2>4, TogetherIs DEF q
  <2>6. c \in Children(Base(p), k)
    BY <1>b, <2>4, Edges DEF Graph
  <2> QED BY <2>5, <2>6
<1> HIDE DEF B
<1> QED BY <1>0, <1>3, <1>4, NoRing

(* Needs are kept where squashes stand in.                                 *)
LEMMA NeedsStandIn ==
    ASSUME NEW p, Regular(p), NEW g, Graph(g), g.nodes \subseteq Base(p).nodes, Leads(p, g),
           NEW k \in g.nodes, NEW n \in Needs(g, k)
    PROVE  StandIn(p, n) \in Needs(Squashed(p), StandIn(p, k))
<1> DEFINE Q == Squashed(p)
           q(m) == StandIn(p, m)
           S == {m \in g.nodes : q(m) \in Needs(Q, q(k))}
<1>0. WellFormed(p) /\ Flat(p)
  BY DEF Regular
<1>a. Graph(Q) /\ \A m \in Base(p).nodes : q(m) \in Q.nodes
  BY <1>0, SquashedIs
<1>1. k \in S
  BY <1>a, NeedsSelf
<1>2. ASSUME NEW m \in S, NEW d \in Parents(g, m) PROVE d \in S
  <2>1. <<m, d>> \in g.edges /\ d \in g.nodes
    BY Edges DEF Graph
  <2>2. CASE <<q(m), q(d)>> \in Q.edges
    <3>1. q(d) \in Parents(Q, q(m))
      BY <1>a, <2>2, Edges DEF Graph
    <3> QED BY <1>a, <2>1, <3>1, NeedsStep
  <2>3. CASE Together(p, m, d)
    BY <1>0, <2>1, <2>3, TogetherIs
  <2> QED BY <2>1, <2>2, <2>3 DEF Leads
<1>3. Needs(g, k) \subseteq S
  <2>1. S \subseteq g.nodes
    OBVIOUS
  <2> HIDE DEF S
  <2> QED BY <1>1, <1>2, <2>1, NeedsLeast
<1> QED BY <1>3

(* What is replaced never waits for the squash.                            *)
LEMMA AheadHolds ==
    ASSUME NEW p, Regular(p), NEW g, Graph(g), g.nodes \subseteq Base(p).nodes, Leads(p, g),
           NEW r \in Replacements(p)
    PROVE  Ahead(g, r, Squash(p, r))
<1>0. WellFormed(p) /\ Flat(p) /\ Acyclic(Squashed(p))
  BY DEF Regular
<1>a. Graph(Squashed(p)) /\ \A m \in Base(p).nodes : StandIn(p, m) \in Squashed(p).nodes
  BY <1>0, SquashedIs
<1> SUFFICES ASSUME NEW s \in Staying(g, r, Squash(p, r)), r \in Needs(g, s)
             PROVE  FALSE
  BY DEF Ahead
<1>1. s \in g.nodes /\ s \in Squash(p, r) /\ s # r
  BY DEF Staying
<1>2. PICK c \in Needs(g, s) : r \in Parents(g, c)
  BY <1>1, NeededBy
<1>3. <<c, r>> \in g.edges /\ c \in g.nodes /\ r \in g.nodes
  BY <1>2, Edges DEF Graph
<1>4. StandIn(p, s) = r /\ StandIn(p, r) = r
  BY <1>0, <1>1, StandInIs
<1>5. ~Together(p, c, r)
  BY <1>0, TogetherIs
<1>6. <<StandIn(p, c), r>> \in Squashed(p).edges
  BY <1>3, <1>4, <1>5 DEF Leads
<1>7. StandIn(p, c) \in Needs(Squashed(p), r)
  BY <1>1, <1>4, NeedsStandIn
<1>8. r \in Needs(Squashed(p), StandIn(p, c))
  <2>1. r \in Parents(Squashed(p), StandIn(p, c)) /\ StandIn(p, c) \in Squashed(p).nodes
    BY <1>a, <1>3, <1>6, Edges DEF Graph
  <2> QED BY <1>a, <2>1, NeedsSelf, NeedsStep
<1>9. r \in Squashed(p).nodes
  BY <1>a, <1>3, <1>4
<1>10. StandIn(p, c) = r
  BY <1>0, <1>a, <1>7, <1>8, <1>9, NotBoth
<1> QED BY <1>0, <1>a, <1>6, <1>9, <1>10, NoLoop

-----------------------------------------------------------------------------
(* The graph after some squashes: those of F stand for what they replace,  *)
(* those of U have gone.                                                   *)

Rep(p, F, k) == IF StandIn(p, k) \in F THEN StandIn(p, k) ELSE k

(* Whoever needed a migration needs what is left of it.                    *)
Keeps(p, F, U, g) ==
    \A x \in Base(p).nodes \ U : \A y \in Needs(Base(p), x) :
        /\ y \in U => Squash(p, y) \subseteq Needs(g, Rep(p, F, x))
        /\ y \notin U => Rep(p, F, y) \in Needs(g, Rep(p, F, x))

(* The squashes still to come wait only for what they replace waits for.   *)
Inherit(p, R, g) ==
    \A r \in R : Squash(p, r) \subseteq Disk(p) => Follows(g, r, Squash(p, r))

Shape(p, F, U, g) ==
    /\ Graph(g) /\ Leads(p, g)
    /\ g.nodes = {k \in Base(p).nodes : k \notin U /\ \A r \in F : k \notin Squash(p, r)}
    /\ g.dummies = {k \in Base(p).dummies : \A r \in F : k \notin Squash(p, r)}
    /\ Keeps(p, F, U, g)
    /\ Inherit(p, Replacements(p) \ (F \cup U), g)

LEMMA ShapeStart ==
    ASSUME NEW p, Regular(p)
    PROVE  Shape(p, {}, {}, Base(p))
<1> DEFINE g == Base(p)
<1>0. WellFormed(p) /\ Flat(p) /\ Inherits(p)
  BY DEF Regular
<1>1. Graph(g) /\ Disk(p) \subseteq g.nodes
  BY <1>0, BaseBuilt DEF Built
<1>2. Leads(p, g)
  BY <1>0, SquashedIs DEF Leads
<1>3. Keeps(p, {}, {}, g)
  BY Zenon DEF Keeps, Rep
<1>4. Inherit(p, Replacements(p), g)
  <2> SUFFICES ASSUME NEW r \in Replacements(p), Squash(p, r) \subseteq Disk(p), NEW q \in Parents(g, r)
               PROVE  \E s \in Staying(g, r, Squash(p, r)) : q \in Needs(g, s)
    BY DEF Inherit, Follows
  <2>1. PICK s \in Squash(p, r) : q \in Needs(g, s)
    BY <1>0 DEF Inherits, Needs, Base
  <2>2. s \in Staying(g, r, Squash(p, r))
    BY <1>0, <1>1 DEF Staying, Flat
  <2> QED BY <2>1, <2>2
<1> HIDE DEF g
<1>5. /\ g.nodes = {k \in g.nodes : k \notin {} /\ \A r \in {} : k \notin Squash(p, r)}
      /\ g.dummies = {k \in g.dummies : \A r \in {} : k \notin Squash(p, r)}
  OBVIOUS
<1>6. Replacements(p) \ ({} \cup {}) = Replacements(p)
  OBVIOUS
<1> QED BY <1>1, <1>2, <1>3, <1>4, <1>5, <1>6 DEF Shape, g

(* Facts about a squash that is still to come.                             *)
LEMMA ToCome ==
    ASSUME NEW p, Regular(p), NEW F, NEW U, F \cup U \subseteq Replacements(p), F \cap U = {},
           NEW g, Shape(p, F, U, g), NEW r \in Replacements(p), r \notin F \cup U
    PROVE  /\ r \in g.nodes /\ r \notin Squash(p, r) /\ r \notin g.dummies
           /\ g.nodes \subseteq Base(p).nodes /\ Acyclic(g) /\ Ahead(g, r, Squash(p, r))
           /\ \A k \in Base(p).nodes \ U : Rep(p, F, k) \in g.nodes
           /\ Squash(p, r) \subseteq Disk(p) => Squash(p, r) \subseteq g.nodes
<1>0. WellFormed(p) /\ Flat(p)
  BY DEF Regular
<1>1. /\ Disk(p) \subseteq Base(p).nodes /\ Replacements(p) \subseteq Disk(p)
      /\ Base(p).dummies = Base(p).nodes \ Disk(p)
  BY <1>0, BaseBuilt DEF Built
<1>2. g.nodes = {k \in Base(p).nodes : k \notin U /\ \A s \in F : k \notin Squash(p, s)}
  BY DEF Shape
<1>3. g.nodes \subseteq Base(p).nodes
  BY <1>2
<1>4. ASSUME NEW k \in Replacements(p), k \notin U PROVE k \in g.nodes
  BY <1>0, <1>1, <1>2, <1>4 DEF Flat
<1>5. r \notin Squash(p, r) /\ r \notin g.dummies
  BY <1>0, <1>1 DEF Flat, Shape
<1>6. Acyclic(g) /\ Ahead(g, r, Squash(p, r))
  BY <1>3, NoCircle, AheadHolds DEF Shape
<1>7. ASSUME NEW k \in Base(p).nodes, k \notin U PROVE Rep(p, F, k) \in g.nodes
  <2>1. CASE StandIn(p, k) \in F
    <3>1. StandIn(p, k) \in Replacements(p)
      BY <2>1
    <3>2. StandIn(p, k) \notin U
      BY <2>1
    <3> QED BY <1>4, <2>1, <3>1, <3>2 DEF Rep
  <2>2. CASE StandIn(p, k) \notin F
    <3>1. \A s \in F : k \notin Squash(p, s)
      BY <1>0, <2>2, StandInIs
    <3> QED BY <1>2, <1>7, <2>2, <3>1 DEF Rep
  <2> QED BY <2>1, <2>2
<1>8. ASSUME Squash(p, r) \subseteq Disk(p), NEW s \in Squash(p, r) PROVE s \in g.nodes
  <2>1. s \in Base(p).nodes /\ s \notin U
    BY <1>0, <1>1, <1>8 DEF Flat
  <2>2. \A t \in F : s \notin Squash(p, t)
    BY <1>0 DEF Flat
  <2> QED BY <1>2, <2>1, <2>2
<1> QED BY <1>3, <1>4, <1>5, <1>6, <1>7, <1>8

(* RemoveReplacedNodes, for one squash more.                               *)
LEMMA ShapeFold ==
    ASSUME NEW p, Regular(p), NEW F, NEW U, F \cup U \subseteq Replacements(p), F \cap U = {},
           NEW g, Shape(p, F, U, g), NEW r \in Replacements(p), r \notin F \cup U
    PROVE  Shape(p, F \cup {r}, U, RemoveReplacedNodes(g, r, Squash(p, r)))
<1> DEFINE S == Squash(p, r)
           h == RemoveReplacedNodes(g, r, S)
           G == F \cup {r}
<1>0. Flat(p)
  BY DEF Regular
<1>1. /\ Graph(g) /\ Leads(p, g) /\ Keeps(p, F, U, g)
      /\ g.nodes = {k \in Base(p).nodes : k \notin U /\ \A s \in F : k \notin Squash(p, s)}
      /\ g.dummies = {k \in Base(p).dummies : \A s \in F : k \notin Squash(p, s)}
      /\ Inherit(p, Replacements(p) \ (F \cup U), g)
  BY DEF Shape
<1>2. /\ r \in g.nodes /\ r \notin S
      /\ \A k \in Base(p).nodes \ U : Rep(p, F, k) \in g.nodes
  BY ToCome
<1>3. /\ h.nodes = g.nodes \ S /\ Graph(h)
      /\ \A c, d : <<c, d>> \in h.edges => \E e \in g.edges : Image(r, S, e, c, d)
  BY <1>1, <1>2, Folded
<1>4. h.dummies = g.dummies \ S
  BY DEF RemoveReplacedNodes
<1>5. \A x \in g.nodes : \A y \in Needs(g, x) : Moved(r, S, y) \in Needs(h, Moved(r, S, x))
  BY <1>1, <1>2, FoldKeepsOrder DEF Needs
<1>6. \A k : StandIn(p, Moved(r, S, k)) = StandIn(p, k)
  BY <1>0, StandInIs DEF Moved
<1>7. \A k : Rep(p, G, k) = Moved(r, S, Rep(p, F, k))
  <2> SUFFICES ASSUME NEW k PROVE Rep(p, G, k) = Moved(r, S, Rep(p, F, k))
    OBVIOUS
  <2>1. CASE k \in S
    <3>1. StandIn(p, k) = r
      BY <1>0, <2>1, StandInIs
    <3> QED BY <2>1, <3>1 DEF Rep, Moved
  <2>2. CASE k \notin S
    <3>1. StandIn(p, k) = r => k = r
      BY <1>0, <2>2, StandInIs
    <3>2. StandIn(p, k) \in F => StandIn(p, k) \notin S
      BY <1>0 DEF Flat
    <3> QED BY <2>2, <3>1, <3>2 DEF Rep, Moved
  <2> QED BY <2>1, <2>2
<1>8. h.nodes = {k \in Base(p).nodes : k \notin U /\ \A s \in G : k \notin Squash(p, s)}
  BY <1>1, <1>3
<1>9. h.dummies = {k \in Base(p).dummies : \A s \in G : k \notin Squash(p, s)}
  BY <1>1, <1>4
<1> HIDE DEF h, S, G
<1>10. Leads(p, h)
  <2> SUFFICES ASSUME NEW c, NEW d, <<c, d>> \in h.edges
               PROVE  \/ <<StandIn(p, c), StandIn(p, d)>> \in Squashed(p).edges
                      \/ <<c, d>> \in Base(p).edges /\ Together(p, c, d)
    BY DEF Leads
  <2>1. PICK e \in g.edges : Image(r, S, e, c, d)
    BY <1>3
  <2>2. /\ e = <<e[1], e[2]>> /\ ~(e[1] \in S /\ e[2] \in S)
        /\ c = Moved(r, S, e[1]) /\ d = Moved(r, S, e[2])
    BY <1>1, <2>1 DEF Image, Graph
  <2>3. CASE <<StandIn(p, e[1]), StandIn(p, e[2])>> \in Squashed(p).edges
    BY <1>6, <2>2, <2>3
  <2>4. CASE <<e[1], e[2]>> \in Base(p).edges /\ Together(p, e[1], e[2])
    <3>1. PICK s \in Replacements(p) : e[1] \in Squash(p, s) /\ e[2] \in Squash(p, s)
      BY <2>4 DEF Together
    <3>2. e[1] \notin S /\ e[2] \notin S
      BY <1>0, <2>2, <3>1 DEF Flat, S
    <3>3. c = e[1] /\ d = e[2]
      BY <2>2, <3>2 DEF Moved
    <3> QED BY <2>4, <3>3
  <2>5. <<e[1], e[2]>> \in g.edges
    BY <2>2
  <2> QED BY <1>1, <2>3, <2>4, <2>5 DEF Leads
<1>11. Keeps(p, G, U, h)
  <2> SUFFICES ASSUME NEW x \in Base(p).nodes \ U, NEW y \in Needs(Base(p), x)
               PROVE  /\ y \in U => Squash(p, y) \subseteq Needs(h, Rep(p, G, x))
                      /\ y \notin U => Rep(p, G, y) \in Needs(h, Rep(p, G, x))
    BY DEF Keeps
  <2>1. Rep(p, F, x) \in g.nodes
    BY <1>2
  <2>2. ASSUME y \notin U PROVE Rep(p, G, y) \in Needs(h, Rep(p, G, x))
    <3>1. Rep(p, F, y) \in Needs(g, Rep(p, F, x))
      BY <1>1, <2>2 DEF Keeps
    <3> QED BY <1>5, <1>7, <2>1, <3>1
  <2>3. ASSUME y \in U, NEW s \in Squash(p, y) PROVE s \in Needs(h, Rep(p, G, x))
    <3>1. s \in Needs(g, Rep(p, F, x))
      BY <1>1, <2>3 DEF Keeps
    <3>2. s \notin S
      BY <1>0, <2>3 DEF Flat, S
    <3>3. Moved(r, S, s) = s
      BY <3>2 DEF Moved
    <3> QED BY <1>5, <1>7, <2>1, <3>1, <3>3
  <2> QED BY <2>2, <2>3
<1>12. Inherit(p, Replacements(p) \ (G \cup U), h)
  <2> SUFFICES ASSUME NEW t \in Replacements(p), t \notin F, t # r, t \notin U,
                      Squash(p, t) \subseteq Disk(p), NEW d \in Parents(h, t)
               PROVE  \E s \in Staying(h, t, Squash(p, t)) : d \in Needs(h, s)
    BY DEF Inherit, Follows, G
  <2>1. <<t, d>> \in h.edges
    BY <1>3, Edges DEF Graph
  <2>2. PICK e \in g.edges : Image(r, S, e, t, d)
    BY <1>3, <2>1
  <2>3. t = Moved(r, S, e[1]) /\ d = Moved(r, S, e[2]) /\ e = <<e[1], e[2]>>
    BY <1>1, <2>2 DEF Image, Graph
  <2>4. e[1] = t
    BY <2>3 DEF Moved
  <2>5. e[2] \in Parents(g, t)
    BY <1>1, <2>3, <2>4, Edges DEF Graph
  <2>6. Follows(g, t, Squash(p, t))
    BY <1>1 DEF Inherit
  <2>7. PICK s \in Staying(g, t, Squash(p, t)) : e[2] \in Needs(g, s)
    BY <2>5, <2>6 DEF Follows
  <2>8. s \in Squash(p, t) /\ s \in g.nodes /\ s # t /\ s \notin S
    BY <1>0 DEF Staying, Flat, S
  <2>9. s \in Staying(h, t, Squash(p, t)) /\ Moved(r, S, s) = s
    BY <1>3, <2>8 DEF Staying, Moved
  <2>10. d \in Needs(h, s)
    BY <1>5, <2>3, <2>7, <2>8, <2>9
  <2> QED BY <2>9, <2>10
<1> QED BY <1>3, <1>8, <1>9, <1>10, <1>11, <1>12 DEF Shape, h, S, G

(* RemoveReplacementNode, for one squash more.                             *)
LEMMA ShapeUnfold ==
    ASSUME NEW p, Regular(p), NEW F, NEW U, F \cup U \subseteq Replacements(p), F \cap U = {},
           NEW g, Shape(p, F, U, g), NEW r \in Replacements(p), r \notin F \cup U,
           Squash(p, r) \subseteq Disk(p)
    PROVE  Shape(p, F, U \cup {r}, RemoveReplacementNode(g, r, Squash(p, r)))
<1> DEFINE S == Squash(p, r)
           h == RemoveReplacementNode(g, r, S)
           V == U \cup {r}
<1>0. Flat(p)
  BY DEF Regular
<1>1. /\ Graph(g) /\ Leads(p, g) /\ Keeps(p, F, U, g)
      /\ g.nodes = {k \in Base(p).nodes : k \notin U /\ \A s \in F : k \notin Squash(p, s)}
      /\ g.dummies = {k \in Base(p).dummies : \A s \in F : k \notin Squash(p, s)}
      /\ Inherit(p, Replacements(p) \ (F \cup U), g)
  BY DEF Shape
<1>2. /\ r \in g.nodes /\ r \notin S /\ r \notin g.dummies /\ Acyclic(g) /\ Ahead(g, r, S)
      /\ \A k \in Base(p).nodes \ U : Rep(p, F, k) \in g.nodes
      /\ S \subseteq g.nodes
  BY ToCome
<1>3. Follows(g, r, S)
  BY <1>1 DEF Inherit
<1>4. /\ h.nodes = g.nodes \ {r} /\ Graph(h)
      /\ \A c, d : <<c, d>> \in h.edges =>
           \/ <<c, d>> \in g.edges
           \/ <<c, r>> \in g.edges /\ d \in LastOf(g, r, S)
  BY <1>1, <1>2, Unfolded
<1>5. h.dummies = g.dummies
  BY <1>2 DEF RemoveReplacementNode
<1> HIDE DEF h
<1>6. S \cap (g.nodes \ {r}) = S
  BY <1>2
<1>7. ASSUME NEW x \in g.nodes, x # r, NEW y \in Needs(g, x)
      PROVE  IF y = r THEN S \subseteq Needs(h, x) ELSE y \in Needs(h, x)
  BY <1>1, <1>2, <1>3, <1>6, <1>7, UnfoldKeepsOrder DEF Needs, h
<1>8. h.nodes = {k \in Base(p).nodes : k \notin V /\ \A s \in F : k \notin Squash(p, s)}
  BY <1>1, <1>4
<1> HIDE DEF S, V
<1>9. LastOf(g, r, S) \subseteq S
  BY DEF LastOf, Staying
<1>10. Leads(p, h)
  <2> SUFFICES ASSUME NEW c, NEW d, <<c, d>> \in h.edges, <<c, d>> \notin g.edges
               PROVE  \/ <<StandIn(p, c), StandIn(p, d)>> \in Squashed(p).edges
                      \/ <<c, d>> \in Base(p).edges /\ Together(p, c, d)
    BY <1>1 DEF Leads
  <2>1. <<c, r>> \in g.edges /\ d \in S
    BY <1>4, <1>9
  <2>2. ~Together(p, c, r)
    BY <1>0, TogetherIs
  <2>3. <<StandIn(p, c), StandIn(p, r)>> \in Squashed(p).edges
    BY <1>1, <2>1, <2>2 DEF Leads
  <2>4. StandIn(p, d) = r /\ StandIn(p, r) = r
    BY <1>0, <2>1, StandInIs DEF S
  <2> QED BY <2>3, <2>4
<1>11. Keeps(p, F, V, h)
  <2> SUFFICES ASSUME NEW x \in Base(p).nodes \ V, NEW y \in Needs(Base(p), x)
               PROVE  /\ y \in V => Squash(p, y) \subseteq Needs(h, Rep(p, F, x))
                      /\ y \notin V => Rep(p, F, y) \in Needs(h, Rep(p, F, x))
    BY DEF Keeps
  <2>1. x \in Base(p).nodes \ U /\ x # r
    BY DEF V
  <2>2. ASSUME NEW k, k # r PROVE Rep(p, F, k) # r
    BY <2>2 DEF Rep
  <2>3. Rep(p, F, x) \in g.nodes /\ Rep(p, F, x) # r
    BY <1>2, <2>1, <2>2
  <2>4. ASSUME y \notin U PROVE Rep(p, F, y) \in Needs(g, Rep(p, F, x))
    BY <1>1, <2>1, <2>4 DEF Keeps
  <2>5. ASSUME y \notin V PROVE Rep(p, F, y) \in Needs(h, Rep(p, F, x))
    <3>1. y \notin U /\ y # r
      BY <2>5 DEF V
    <3> QED BY <1>7, <2>2, <2>3, <2>4, <3>1
  <2>6. ASSUME y = r PROVE S \subseteq Needs(h, Rep(p, F, x))
    <3>1. Rep(p, F, r) = r
      BY <1>0, StandInIs DEF Rep
    <3>2. r \in Needs(g, Rep(p, F, x))
      BY <2>4, <2>6, <3>1
    <3> QED BY <1>7, <2>3, <3>2
  <2>7. ASSUME y \in U, NEW s \in Squash(p, y) PROVE s \in Needs(h, Rep(p, F, x))
    <3>1. s \in Needs(g, Rep(p, F, x))
      BY <1>1, <2>1, <2>7 DEF Keeps
    <3>2. s # r
      BY <1>0, <2>7 DEF Flat
    <3> QED BY <1>7, <2>3, <3>1, <3>2
  <2> QED BY <2>5, <2>6, <2>7 DEF V, S
<1>12. Inherit(p, Replacements(p) \ (F \cup V), h)
  <2> SUFFICES ASSUME NEW t \in Replacements(p), t \notin F, t # r, t \notin U,
                      Squash(p, t) \subseteq Disk(p), NEW d \in Parents(h, t)
               PROVE  \E s \in Staying(h, t, Squash(p, t)) : d \in Needs(h, s)
    BY DEF Inherit, Follows, V
  <2>1. <<t, d>> \in h.edges /\ d \in h.nodes
    <3>1. h.edges \subseteq h.nodes \X h.nodes
      BY <1>4 DEF Graph
    <3>2. <<t, d>> \in h.edges
      BY <3>1, Edges
    <3> QED BY <3>1, <3>2
  <2>2. Follows(g, t, Squash(p, t))
    BY <1>1 DEF Inherit
  <2>3. ASSUME NEW s \in Staying(g, t, Squash(p, t))
        PROVE  s \in Staying(h, t, Squash(p, t)) /\ s \in g.nodes /\ s # r
    <3>1. s \in Squash(p, t) /\ s \in g.nodes /\ s # t
      BY DEF Staying
    <3>2. s # r
      BY <1>0, <3>1 DEF Flat
    <3> QED BY <1>4, <3>1, <3>2 DEF Staying
  <2>4. CASE <<t, d>> \in g.edges
    <3>1. d \in Parents(g, t) /\ d # r
      BY <1>1, <1>4, <2>1, <2>4, Edges DEF Graph
    <3>2. PICK s \in Staying(g, t, Squash(p, t)) : d \in Needs(g, s)
      BY <2>2, <3>1 DEF Follows
    <3>3. d \in Needs(h, s)
      BY <1>7, <2>3, <3>1, <3>2
    <3> QED BY <2>3, <3>3
  <2>5. CASE <<t, r>> \in g.edges /\ d \in LastOf(g, r, S)
    <3>1. r \in Parents(g, t) /\ d \in S
      BY <1>1, <1>9, <2>5, Edges DEF Graph
    <3>2. PICK s \in Staying(g, t, Squash(p, t)) : r \in Needs(g, s)
      BY <2>2, <3>1 DEF Follows
    <3>3. d \in Needs(h, s)
      BY <1>7, <2>3, <3>1, <3>2
    <3> QED BY <2>3, <3>3
  <2> QED BY <1>4, <2>1, <2>4, <2>5
<1>13. h.dummies = {k \in Base(p).dummies : \A s \in F : k \notin Squash(p, s)}
  BY <1>1, <1>5
<1> QED BY <1>4, <1>8, <1>10, <1>11, <1>12, <1>13 DEF Shape, h, S, V

-----------------------------------------------------------------------------
(* BuildGraph with the rows of a deployment.                               *)

(* Some of what r replaces is applied and some is not: r is unfolded.      *)
Partly(p, t, r) == Squash(p, r) \cap t # {} /\ ~(Squash(p, r) \subseteq t)

In(p, t, D)  == {r \in D : ~Partly(p, t, r)}
Out(p, t, D) == {r \in D : Partly(p, t, r)}

(* The loader with the squashes D done, from the rows t.                   *)
Course(p, t, D, l) ==
    /\ l \in Loaders /\ l.error = "none" /\ l.open = D /\ l.done = D
    /\ \A k : k \notin Replacements(p) => (k \in l.applied <=> k \in t)
    /\ Shape(p, In(p, t, D), Out(p, t, D), l.graph)

(* The files of what is applied in part are there.                         *)
Kept(p, t) == \A r \in Replacements(p) : Partly(p, t, r) => Squash(p, r) \subseteq Disk(p)

LEMMA ShapeTyped ==
    ASSUME NEW p, WellFormed(p), NEW F, NEW U, NEW N, NEW D, NEW E,
           Shape(p, F, U, [nodes |-> N, dummies |-> D, edges |-> E])
    PROVE  [nodes |-> N, dummies |-> D, edges |-> E] \in GraphSet
<1>1. Base(p).nodes \subseteq Key /\ Base(p).dummies \subseteq Key
  BY BaseBuilt DEF Built, GraphSet
<1>2. N \subseteq Base(p).nodes /\ D \subseteq Base(p).dummies /\ E \subseteq N \X N
  BY DEF Shape, Graph
<1> QED BY <1>1, <1>2 DEF GraphSet

LEMMA LoaderTyped ==
    ASSUME NEW l \in Loaders, NEW r \in Key, NEW a \in SUBSET Key, NEW g \in GraphSet
    PROVE  /\ [[l EXCEPT !.open = @ \cup {r}] EXCEPT !.applied = a, !.graph = g, !.done = @ \cup {r}] \in Loaders
           /\ l.applied \in SUBSET Key
BY DEF Loaders, GraphSet

LEMMA CourseStep ==
    ASSUME NEW p, Regular(p), NEW t, Kept(p, t), NEW D, D \subseteq Replacements(p),
           NEW l, Course(p, t, D, l), NEW r \in Replacements(p)
    PROVE  Course(p, t, D \cup {r}, ReplaceMigration(p, l, r))
<1>0. WellFormed(p) /\ Flat(p)
  BY DEF Regular
<1> DEFINE m == [l EXCEPT !.open = @ \cup {r}]
           S == Squash(p, r)
           F == In(p, t, D)
           U == Out(p, t, D)
<1>1. l \in Loaders /\ l.error = "none" /\ l.open = D /\ l.done = D
  BY DEF Course
<1>2. ReplaceMigration(p, l, r) = Replaced(p, l, r, m)
  BY <1>0, <1>1, ReplaceFlat
<1>3. CASE r \in D
  <2>1. Replaced(p, l, r, m) = l /\ D \cup {r} = D
    BY <1>1, <1>3 DEF Replaced
  <2> QED BY <1>2, <2>1
<1>4. CASE r \notin D
  <2>1. F \cup U \subseteq Replacements(p) /\ F \cap U = {} /\ r \notin F \cup U
    BY <1>4 DEF In, Out
  <2>2. Shape(p, F, U, l.graph)
    BY DEF Course
  <2>3. r \in l.graph.nodes
    BY <2>1, <2>2, ToCome
  <2>4. /\ m.error = "none" /\ m.graph = l.graph /\ m.applied = l.applied /\ m.done = D
        /\ m.open = D \cup {r}
    BY <1>1 DEF Loaders
  <2>5. ResolveReplacedKeys(p, r) = S
    BY <1>0, ResolvedFlat
  <2> DEFINE all == S \subseteq m.applied
             some == S \cap m.applied # {}
             a == IF all THEN m.applied \cup {r} ELSE m.applied \ {r}
             g == IF all \/ ~some THEN RemoveReplacedNodes(m.graph, r, S)
                                  ELSE RemoveReplacementNode(m.graph, r, S)
             n == [m EXCEPT !.applied = a, !.graph = g, !.done = @ \cup {r}]
  <2>6. FoldIn(p, m, r) = n
    <3>1. ToSet(p.migs[r].replaces) = S
      BY DEF Squash
    <3>2. r \in m.graph.nodes
      BY <2>3, <2>4
    <3> QED BY <2>5, <3>1, <3>2 DEF FoldIn
  <2>7. Replaced(p, l, r, m) = n
    <3> HIDE DEF m, n
    <3> QED BY <1>1, <1>4, <2>4, <2>6 DEF Replaced
  <2>8. (all \/ ~some) <=> ~Partly(p, t, r)
    <3>1. \A s \in S : s \in m.applied <=> s \in t
      BY <1>0, <2>4 DEF Course, Flat
    <3> HIDE DEF m
    <3> QED BY <3>1 DEF Partly
  <2> HIDE DEF all, some
  <2>9. Shape(p, In(p, t, D \cup {r}), Out(p, t, D \cup {r}), g)
    <3>1. CASE Partly(p, t, r)
      <4>1. In(p, t, D \cup {r}) = F /\ Out(p, t, D \cup {r}) = U \cup {r}
        BY <3>1 DEF In, Out
      <4>2. g = RemoveReplacementNode(l.graph, r, S)
        BY <2>4, <2>8, <3>1
      <4>3. S \subseteq Disk(p)
        BY <3>1 DEF Kept
      <4> HIDE DEF F, U, g
      <4>4. Shape(p, F, U \cup {r}, RemoveReplacementNode(l.graph, r, Squash(p, r)))
        BY <2>1, <2>2, <4>3, ShapeUnfold
      <4> QED BY <4>1, <4>2, <4>4
    <3>2. CASE ~Partly(p, t, r)
      <4>1. In(p, t, D \cup {r}) = F \cup {r} /\ Out(p, t, D \cup {r}) = U
        BY <3>2 DEF In, Out
      <4>2. g = RemoveReplacedNodes(l.graph, r, S)
        BY <2>4, <2>8, <3>2
      <4> HIDE DEF F, U, g
      <4>3. Shape(p, F \cup {r}, U, RemoveReplacedNodes(l.graph, r, Squash(p, r)))
        BY <2>1, <2>2, ShapeFold
      <4> QED BY <4>1, <4>2, <4>3
    <3> QED BY <3>1, <3>2
  <2>10. g \in GraphSet
    <3>1. \E N, B, E : g = [nodes |-> N, dummies |-> B, edges |-> E]
      BY Zenon DEF RemoveReplacedNodes, RemoveReplacementNode
    <3> HIDE DEF g
    <3> QED BY <1>0, <2>9, <3>1, ShapeTyped
  <2>11. r \in Key /\ a \in SUBSET Key
    <3>1. r \in Key
      BY <1>0, BaseBuilt DEF WellFormed
    <3>2. l.applied \in SUBSET Key
      BY <1>1 DEF Loaders
    <3> QED BY <2>4, <3>1, <3>2
  <2>12. \A k : k \notin Replacements(p) => (k \in a <=> k \in t)
    BY <2>4 DEF Course
  <2> HIDE DEF a, g
  <2>13. n \in Loaders
    BY <1>1, <2>10, <2>11, LoaderTyped
  <2>14. n.error = "none" /\ n.open = D \cup {r} /\ n.done = D \cup {r} /\ n.applied = a /\ n.graph = g
    BY <1>1, <2>4 DEF Loaders
  <2> HIDE DEF n, m
  <2> QED BY <1>2, <2>7, <2>9, <2>12, <2>13, <2>14 DEF Course
<1> QED BY <1>3, <1>4

Beginning(p, t) ==
    [graph |-> Base(p), applied |-> t, open |-> {}, done |-> {}, error |-> "none"]

(* All squashes are done in the end.                                       *)
LEMMA CourseEnd ==
    ASSUME NEW p, Regular(p), NEW t \in SUBSET Key, Kept(p, t)
    PROVE  Course(p, t, Replacements(p), ReplaceMigrations(p, Beginning(p, t)))
<1> DEFINE keys == SortKeys(Replacements(p))
           L == Len(keys)
           b == Beginning(p, t)
<1>0. WellFormed(p)
  BY DEF Regular
<1>1. /\ L \in Nat /\ \A i \in 1..L : keys[i] \in Replacements(p)
      /\ \A k \in Replacements(p) : \E i \in 1..L : keys[i] = k
  <2>1. Replacements(p) \in SUBSET Key
    BY <1>0, BaseBuilt DEF WellFormed
  <2> QED BY <2>1, SortIs
<1>2. PICK f : /\ f[0] = b
               /\ \A i \in 1..L : f[i] = ReplaceMigration(p, f[i - 1], keys[i])
               /\ ReplaceMigrations(p, b) = f[L]
  BY <1>1, ReplacedIs
<1>3. Course(p, t, {}, b)
  <2>1. Shape(p, {}, {}, Base(p)) /\ In(p, t, {}) = {} /\ Out(p, t, {}) = {}
    BY ShapeStart DEF In, Out
  <2>2. Base(p) \in GraphSet
    BY <1>0, BaseBuilt DEF Built
  <2>3. b \in Loaders
    BY <2>2 DEF Loaders, GraphSet, Beginning
  <2>4. b.error = "none" /\ b.open = {} /\ b.done = {} /\ b.applied = t /\ b.graph = Base(p)
    BY DEF Beginning
  <2> HIDE DEF b
  <2> QED BY <2>1, <2>3, <2>4 DEF Course
<1> HIDE DEF keys, L, b
<1> DEFINE Done(n) == {keys[i] : i \in 1..n}
           T == {n \in Nat : n \in 0..L => Course(p, t, Done(n), f[n])}
<1>4. 0 \in T
  <2>1. Done(0) = {}
    OBVIOUS
  <2> QED BY <1>2, <1>3, <2>1
<1>5. ASSUME NEW n \in Nat, n \in T PROVE n + 1 \in T
  <2> SUFFICES ASSUME n + 1 \in 0..L PROVE Course(p, t, Done(n + 1), f[n + 1])
    OBVIOUS
  <2>1. n + 1 \in 1..L /\ n \in 0..L /\ (n + 1) - 1 = n
    BY <1>1
  <2>2. Course(p, t, Done(n), f[n]) /\ f[n + 1] = ReplaceMigration(p, f[n], keys[n + 1])
    BY <1>2, <1>5, <2>1
  <2>3. Done(n + 1) = Done(n) \cup {keys[n + 1]}
    <3>1. 1..(n + 1) = 1..n \cup {n + 1}
      BY <1>5
    <3> QED BY <3>1
  <2>4. Done(n) \subseteq Replacements(p) /\ keys[n + 1] \in Replacements(p)
    BY <1>1, <2>1
  <2> HIDE DEF Done
  <2> QED BY <2>2, <2>3, <2>4, CourseStep
<1>6. L \in T
  <2> HIDE DEF T
  <2> QED BY <1>1, <1>4, <1>5, Induction
<1>7. L \in 0..L /\ Done(L) = Replacements(p)
  BY <1>1
<1>8. Course(p, t, Replacements(p), f[L])
  BY <1>6, <1>7
<1> QED BY <1>2, <1>8 DEF b

(* A regular project loads.                                                *)
LEMMA LoadsRegular ==
    ASSUME NEW p, Regular(p), NEW t \in SUBSET Key, Kept(p, t)
    PROVE  /\ Course(p, t, Replacements(p), BuildGraph(p, t, TRUE))
           /\ BuildGraph(p, t, TRUE).error = "none"
<1> DEFINE l == ReplaceMigrations(p, Beginning(p, t))
           R == Replacements(p)
<1>0. WellFormed(p) /\ Flat(p) /\ Linked(p).error = "none"
  BY DEF Regular
<1>1. Course(p, t, R, l)
  BY CourseEnd
<1>2. BuildGraph(p, t, TRUE) = Validated(l)
  BY <1>0 DEF BuildGraph, Beginning, Base
<1> HIDE DEF l
<1>3. l.error = "none" /\ Shape(p, In(p, t, R), Out(p, t, R), l.graph)
  BY <1>1 DEF Course
<1>4. ValidateConsistency(l.graph)
  <2> SUFFICES ASSUME NEW k \in l.graph.dummies PROVE FALSE
    BY DEF ValidateConsistency
  <2>1. k \in Base(p).dummies /\ \A r \in In(p, t, R) : k \notin Squash(p, r)
    BY <1>3 DEF Shape
  <2>2. k \notin Disk(p)
    BY <1>0, <2>1, BaseBuilt DEF Built
  <2>3. StandIn(p, k) # k
    BY <2>1 DEF Regular, Base
  <2>4. StandIn(p, k) \in R /\ k \in Squash(p, StandIn(p, k))
    BY <1>0, <2>3, StandInIs
  <2>5. ~Partly(p, t, StandIn(p, k))
    BY <2>2, <2>4 DEF Kept
  <2> QED BY <2>1, <2>4, <2>5 DEF In
<1>5. Acyclic(l.graph)
  BY <1>3, NoCircle DEF Shape
<1>6. Validated(l) = l
  BY <1>3, <1>4, <1>5 DEF Validated
<1> QED BY <1>1, <1>2, <1>3, <1>6

-----------------------------------------------------------------------------
(* What stands for what in the graph that is loaded.                       *)

LEMMA StandsIs ==
    ASSUME NEW p, Flat(p), NEW k
    PROVE  Stands(p, k) = IF k \in Replacements(p) THEN Squash(p, k) ELSE {k}
BY ResolvedFlat DEF Stands

LEMMA DeployedKept ==
    ASSUME NEW p, Flat(p), NEW t, Deployable(p, t)
    PROVE  Kept(p, t)
<1> SUFFICES ASSUME NEW r \in Replacements(p), Partly(p, t, r)
             PROVE  Squash(p, r) \subseteq Disk(p)
  BY DEF Kept
<1>1. Stands(p, r) = Squash(p, r)
  BY StandsIs
<1>2. Squash(p, r) \subseteq Disk(p) \cup t \/ (Squash(p, r) \cap t) \subseteq Disk(p)
  BY <1>1 DEF Deployable
<1> QED BY <1>2 DEF Partly, Flat

LEMMA FullIs ==
    ASSUME NEW p
    PROVE  Full(p) = Base(p)
BY DEF Full, BuildGraph, Validated, Base

LEMMA OriginalsTyped ==
    ASSUME NEW p, WellFormed(p), Flat(p)
    PROVE  Disk(p) \cup Originals(p) \subseteq Key
<1>1. ASSUME NEW k \in Disk(p) PROVE Stands(p, k) \subseteq Key
  <2>1. k \in Key /\ p.migs[k].replaces \in Seq(Key)
    BY DEF WellFormed
  <2>2. \A i \in DOMAIN p.migs[k].replaces : p.migs[k].replaces[i] \in Key
    BY <2>1
  <2>3. Squash(p, k) \subseteq Key
    BY <2>2 DEF Squash, ToSet
  <2> QED BY <2>1, <2>3, StandsIs
<1> QED BY <1>1 DEF WellFormed, Originals

Covering(p, l, o) == {k \in l.graph.nodes : o \in Stands(p, k)}

LEMMA CoverIs ==
    ASSUME NEW p, Regular(p), NEW t, NEW l, Course(p, t, Replacements(p), l), Kept(p, t),
           NEW o \in Originals(p)
    PROVE  \E n : Covering(p, l, o) = {n}
<1> DEFINE R == Replacements(p)
           F == In(p, t, R)
           U == Out(p, t, R)
           g == l.graph
<1>0. WellFormed(p) /\ Flat(p)
  BY DEF Regular
<1>1. /\ g.nodes = {k \in Base(p).nodes : k \notin U /\ \A r \in F : k \notin Squash(p, r)}
      /\ Disk(p) \subseteq Base(p).nodes /\ R \subseteq Disk(p)
  BY <1>0, BaseBuilt DEF Course, Shape, Built
<1>2. F \cup U = R /\ F \cap U = {}
  BY DEF In, Out
<1>3. \A k : Stands(p, k) = IF k \in R THEN Squash(p, k) ELSE {k}
  BY <1>0, StandsIs
<1>4. o \notin R
  BY <1>0, <1>3 DEF Originals, Flat
<1> HIDE DEF g
<1>5. CASE \E r \in R : o \in Squash(p, r)
  <2>1. PICK r \in R : o \in Squash(p, r)
    BY <1>5
  <2>2. \A k \in R : o \in Squash(p, k) => k = r
    BY <1>0, <2>1 DEF Flat
  <2>3. CASE r \in F
    <3>1. r \in g.nodes /\ o \notin g.nodes
      BY <1>0, <1>1, <1>2, <2>1, <2>3 DEF Flat
    <3>2. \A k \in g.nodes : o \in Stands(p, k) <=> k = r
      BY <1>3, <2>1, <2>2, <3>1
    <3>3. Covering(p, l, o) = {r}
      BY <3>1, <3>2 DEF Covering, g
    <3> QED BY <3>3
  <2>4. CASE r \in U
    <3>1. Squash(p, r) \subseteq Disk(p)
      BY <2>4 DEF Out, Kept
    <3>2. r \notin g.nodes
      BY <1>1, <2>4
    <3>3. o \in g.nodes
      <4>1. o \in Base(p).nodes /\ o \notin U
        BY <1>1, <1>2, <1>4, <2>1, <3>1
      <4>2. \A s \in F : o \notin Squash(p, s)
        BY <1>2, <2>2, <2>4
      <4> QED BY <1>1, <4>1, <4>2
    <3>4. \A k \in g.nodes : o \in Stands(p, k) <=> k = o
      BY <1>3, <1>4, <2>2, <3>2
    <3>5. Covering(p, l, o) = {o}
      BY <3>3, <3>4 DEF Covering, g
    <3> QED BY <3>5
  <2> QED BY <1>2, <2>1, <2>3, <2>4
<1>6. CASE \A r \in R : o \notin Squash(p, r)
  <2>1. o \in Disk(p)
    BY <1>3, <1>6 DEF Originals
  <2>2. o \in g.nodes
    BY <1>1, <1>2, <1>4, <1>6, <2>1
  <2>3. \A k \in g.nodes : o \in Stands(p, k) <=> k = o
    BY <1>3, <1>4, <1>6
  <2>4. Covering(p, l, o) = {o}
    BY <2>2, <2>3 DEF Covering, g
  <2> QED BY <2>4
<1> QED BY <1>5, <1>6

LEMMA KeptOrder ==
    ASSUME NEW p, Regular(p), NEW t, NEW l, Course(p, t, Replacements(p), l),
           NEW e \in Base(p).edges, NEW m \in l.graph.nodes, e[1] = m \/ e[1] \in Stands(p, m),
           NEW o \in Stands(p, e[2])
    PROVE  \E n \in Needs(l.graph, m) : o \in Stands(p, n)
<1> DEFINE R == Replacements(p)
           F == In(p, t, R)
           U == Out(p, t, R)
           g == l.graph
           x == e[1]
           y == e[2]
<1>0. WellFormed(p) /\ Flat(p)
  BY DEF Regular
<1>1. /\ g.nodes = {k \in Base(p).nodes : k \notin U /\ \A r \in F : k \notin Squash(p, r)}
      /\ Keeps(p, F, U, g) /\ Graph(Base(p))
  BY <1>0, BaseBuilt DEF Course, Shape, Built
<1>2. F \cup U = R /\ F \cap U = {}
  BY DEF In, Out
<1>3. \A k : Stands(p, k) = IF k \in R THEN Squash(p, k) ELSE {k}
  BY <1>0, StandsIs
<1>4. x \in Base(p).nodes /\ y \in Base(p).nodes /\ <<x, y>> \in Base(p).edges
  BY <1>1 DEF Graph
<1> HIDE DEF g, x, y, F, U
<1>5. y \in Needs(Base(p), x)
  <2>1. y \in Parents(Base(p), x)
    BY <1>1, <1>4, Edges DEF Graph
  <2> QED BY <1>1, <1>4, <2>1, NeedsSelf, NeedsStep
<1>6. x \notin U /\ Rep(p, F, x) = m
  <2>1. m \in g.nodes /\ m \notin U /\ \A r \in F : m \notin Squash(p, r)
    BY <1>1 DEF g
  <2>2. CASE x = m
    <3>1. StandIn(p, m) \in F => StandIn(p, m) = m
      BY <1>0, <2>1, StandInIs
    <3> QED BY <2>1, <2>2, <3>1 DEF Rep
  <2>3. CASE x # m
    <3>1. m \in R /\ x \in Squash(p, m)
      BY <1>3, <2>3 DEF x
    <3>2. m \in F /\ StandIn(p, x) = m
      BY <1>0, <1>2, <2>1, <3>1, StandInIs
    <3>3. x \notin R
      BY <1>0, <3>1 DEF Flat
    <3> QED BY <1>2, <3>2, <3>3 DEF Rep
  <2> QED BY <2>2, <2>3
<1>7. /\ y \in U => Squash(p, y) \subseteq Needs(g, m)
      /\ y \notin U => Rep(p, F, y) \in Needs(g, m)
  BY <1>1, <1>4, <1>5, <1>6 DEF Keeps
<1>8. CASE y \in U
  <2>1. o \in Squash(p, y) /\ o \notin R
    BY <1>0, <1>2, <1>3, <1>8 DEF y, Flat
  <2>2. o \in Needs(g, m) /\ o \in Stands(p, o)
    BY <1>3, <1>7, <1>8, <2>1
  <2> QED BY <2>2 DEF g
<1>9. CASE y \notin U /\ y \in R
  <2>1. Rep(p, F, y) = y
    BY <1>0, <1>9, StandInIs DEF Rep
  <2>2. y \in Needs(g, m) /\ o \in Stands(p, y)
    BY <1>7, <1>9, <2>1 DEF y
  <2> QED BY <2>2 DEF g
<1>10. CASE y \notin R
  <2>1. o = y /\ y \notin U
    BY <1>2, <1>3, <1>10 DEF y
  <2>2. o \in Stands(p, Rep(p, F, y))
    <3>1. CASE StandIn(p, y) \in F
      <4>1. StandIn(p, y) # y /\ StandIn(p, y) \in R
        BY <1>2, <1>10, <3>1
      <4>2. y \in Squash(p, StandIn(p, y))
        BY <1>0, <4>1, StandInIs
      <4> QED BY <1>3, <2>1, <3>1, <4>1, <4>2 DEF Rep
    <3>2. CASE StandIn(p, y) \notin F
      BY <1>3, <1>10, <2>1, <3>2 DEF Rep
    <3> QED BY <3>1, <3>2
  <2> QED BY <1>7, <2>1, <2>2 DEF g
<1> QED BY <1>8, <1>9, <1>10

-----------------------------------------------------------------------------
(* A command loads once, from the files and rows that are there.           *)
Loading ==
    /\ rows \in SUBSET (Disk(Project) \cup Originals(Project)) /\ Deployable(Project, rows)
    /\ \/ loader = NotLoaded
       \/ loader = [error |-> "disk"]
       \/ loader = BuildGraph(Project, rows, TRUE)

LEMMA LoadingInvariant == Spec => []Loading
<1>1. Init => Loading
  BY DEF Init, Loading
<1>2. Loading /\ [Next]_vars => Loading'
  <2> SUFFICES ASSUME Loading, [Next]_vars PROVE Loading'
    OBVIOUS
  <2>1. UNCHANGED <<apps, rows>>
    BY DEF Next, Load, Loaded, vars
  <2>2. Project' = Project
    BY <2>1 DEF Project
  <2>3. loader' \in {loader, [error |-> "disk"], BuildGraph(Project, rows, TRUE)}
    BY DEF Next, Load, Loaded, vars
  <2> QED BY <2>1, <2>2, <2>3 DEF Loading
<1> QED BY <1>1, <1>2, PTL DEF Spec

LEMMA LoadedCourse ==
    ASSUME Loading, Regular(Project)
    PROVE  \/ loader.error \in {"not loaded", "disk"}
           \/ /\ loader.error = "none" /\ Kept(Project, rows)
              /\ Course(Project, rows, Replacements(Project), loader)
<1>1. WellFormed(Project) /\ Flat(Project)
  BY DEF Regular
<1>2. Kept(Project, rows) /\ rows \in SUBSET Key
  BY <1>1, DeployedKept, OriginalsTyped DEF Loading
<1>3. CASE loader = BuildGraph(Project, rows, TRUE)
  BY <1>2, <1>3, LoadsRegular
<1>4. CASE loader = NotLoaded
  <2>1. loader.error = "not loaded"
    BY <1>4 DEF NotLoaded
  <2> QED BY <2>1
<1>5. CASE loader = [error |-> "disk"]
  <2>1. loader.error = "disk"
    BY <1>5
  <2> QED BY <2>1
<1> QED BY <1>3, <1>4, <1>5 DEF Loading

(* A regular project loads whatever part of it a deployment has applied:   *)
(* BuildGraph reports an error only of files that are not those compiled   *)
(* in.                                                                     *)
THEOREM RegularLoads == Spec => [](Regular(Project) => loader.error \in {"not loaded", "disk", "none"})
<1>1. Loading => (Regular(Project) => loader.error \in {"not loaded", "disk", "none"})
  BY LoadedCourse
<1> QED BY <1>1, LoadingInvariant, PTL

(* And in what is loaded every original migration is stood for once, by    *)
(* itself or by a squash, however many of them there are.                  *)
THEOREM CoverExact == Spec => [](Regular(Project) => ExactCover)
<1>1. ASSUME Loading, Regular(Project) PROVE ExactCover
  <2>1. loader.error \notin {"missing", "replacement", "cyclical", "value"}
    BY <1>1, LoadedCourse
  <2>2. ASSUME Good, NEW o \in Originals(Project)
        PROVE  Cardinality({n \in loader.graph.nodes : o \in Stands(Project, n)}) = 1
    <3>1. Kept(Project, rows) /\ Course(Project, rows, Replacements(Project), loader)
      BY <1>1, <2>2, LoadedCourse DEF Good
    <3>2. PICK n : Covering(Project, loader, o) = {n}
      BY <1>1, <3>1, CoverIs
    <3>3. Cardinality(Covering(Project, loader, o)) = 1
      BY <3>2, FS_Singleton
    <3> QED BY <3>3 DEF Covering
  <2> QED BY <2>1, <2>2 DEF ExactCover
<1> QED BY <1>1, LoadingInvariant, PTL

(* And no dependency is lost: whatever a migration, or one it replaces,    *)
(* was declared to depend on, it comes after what now stands for that.     *)
THEOREM OrderKept == Spec => [](Regular(Project) => DependencyKept)
<1>1. ASSUME Loading, Regular(Project) PROVE DependencyKept
  <2> SUFFICES ASSUME Good, NEW e \in Full(Project).edges, NEW m \in loader.graph.nodes,
                      e[1] = m \/ e[1] \in Stands(Project, m), NEW o \in Stands(Project, e[2])
               PROVE  \E n \in Reach(loader.graph, m, TRUE) : o \in Stands(Project, n)
    BY DEF DependencyKept
  <2>1. Course(Project, rows, Replacements(Project), loader)
    BY <1>1, LoadedCourse DEF Good
  <2>2. e \in Base(Project).edges
    BY FullIs
  <2> QED BY <1>1, <2>1, <2>2, KeptOrder DEF Needs
<1> QED BY <1>1, LoadingInvariant, PTL

=============================================================================
