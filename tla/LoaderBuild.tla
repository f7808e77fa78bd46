----------------------------- MODULE LoaderBuild -----------------------------
(***************************************************************************)
(* A command loads its project: any of the given projects, against any     *)
(* content of the migrations table a deployment of it can have.            *)
(***************************************************************************)
EXTENDS MigrationLoader

CONSTANT Projects      \* the apps of the projects to load, see LoadDisk

VARIABLES apps, rows, loader

vars == <<apps, rows, loader>>

Project == LoadDisk(apps)

NotLoaded == [error |-> "not loaded"]

(* A migration and the originals it stands for.                            *)
Stands(p, k) == IF k \in Replacements(p) THEN ResolveReplacedKeys(p, k) ELSE {k}

Originals(p) == UNION {Stands(p, k) : k \in Disk(p)}

Full(p) == BuildGraph(p, {}, FALSE).graph

(* What a deployment can have recorded: an original only after all that it *)
(* depends on, a squashed migration at any time (its row may be missing or *)
(* left over).  The files of replaced migrations are deleted only once     *)
(* every deployment has applied them all; one started later has none.      *)
Deployable(p, applied) ==
  /\ \A e \in Full(p).edges :
        e[1] \in applied \ Replacements(p) => Stands(p, e[2]) \subseteq applied
  /\ \A k \in Replacements(p) :
        Stands(p, k) \subseteq Disk(p) \cup applied
          \/ (Stands(p, k) \cap applied) \subseteq Disk(p)

Init == /\ apps \in Projects
        /\ rows \in {r \in SUBSET (Disk(Project) \cup Originals(Project)) : Deployable(Project, r)}
        /\ loader = NotLoaded

(* New: loadDisk, then BuildGraph with ReplaceMigrations set.              *)
Load == /\ loader = NotLoaded
        /\ loader' = IF LoadDiskError(apps, FALSE) THEN [error |-> "disk"]
                     ELSE BuildGraph(Project, rows, TRUE)
        /\ UNCHANGED <<apps, rows>>

Loaded == loader # NotLoaded /\ UNCHANGED vars

Next == Load \/ Loaded

Spec == Init /\ [][Next]_vars

-----------------------------------------------------------------------------
Good == loader.error = "none"

(* Nothing is applied twice and nothing is forgotten: the project loads,   *)
(* with files of replaced migrations gone as well, and every original      *)
(* migration is stood for by exactly one node of the graph, itself or a    *)
(* squashed migration.                                                     *)
ExactCover ==
    /\ loader.error \notin {"missing", "replacement", "cyclical", "value"}
    /\ Good => \A o \in Originals(Project) :
                 Cardinality({n \in loader.graph.nodes : o \in Stands(Project, n)}) = 1

(* No dependency is lost in the folding: a migration of the graph still    *)
(* comes after whatever now stands for each migration that it, or one that *)
(* it replaces, was declared to depend on.                                 *)
DependencyKept ==
    Good =>
        \A e \in Full(Project).edges : \A m \in loader.graph.nodes :
            (e[1] = m \/ e[1] \in Stands(Project, m)) =>
                \A o \in Stands(Project, e[2]) :
                    \E n \in Reach(loader.graph, m, TRUE) : o \in Stands(Project, n)

-----------------------------------------------------------------------------
(* The projects of which both are proved, with any migrations and any      *)
(* number of squashes.                                                     *)

Squash(p, r) == ToSet(p.migs[r].replaces)

(* What is left of a migration where all squashes stand for theirs.        *)
StandIn(p, k) ==
    IF \E r \in Replacements(p) : k \in Squash(p, r)
      THEN CHOOSE r \in Replacements(p) : k \in Squash(p, r) ELSE k

Together(p, c, d) == \E r \in Replacements(p) : c \in Squash(p, r) /\ d \in Squash(p, r)

Squashed(p) ==
    LET g == Linked(p).graph
    IN  [nodes   |-> {k \in g.nodes : StandIn(p, k) = k},
         dummies |-> {},
         edges   |-> {<<StandIn(p, e[1]), StandIn(p, e[2])>> :
                        e \in {d \in g.edges : ~Together(p, d[1], d[2])}}]

WellFormed(p) ==
    /\ Disk(p) \subseteq Key
    /\ \A k \in Disk(p) : /\ p.migs[k].deps \in Seq(Key) /\ p.migs[k].before \in Seq(Key)
                          /\ p.migs[k].replaces \in Seq(Key)

(* No squash replaces a squash, or what another replaces; its files are    *)
(* all there or all deleted.                                               *)
Flat(p) ==
    /\ \A r \in Replacements(p) : Squash(p, r) \cap Replacements(p) = {}
    /\ \A r, s \in Replacements(p) : r # s => Squash(p, r) \cap Squash(p, s) = {}
    /\ \A r \in Replacements(p) : Squash(p, r) \subseteq Disk(p) \/ Squash(p, r) \cap Disk(p) = {}

(* A squash depends on nothing that those it replaces do not depend on.    *)
Inherits(p) ==
    LET g == Linked(p).graph
    IN  \A r \in Replacements(p) : Squash(p, r) \subseteq Disk(p) =>
            \A q \in Parents(g, r) : \E s \in Squash(p, r) : q \in Reach(g, s, TRUE)

(* What is depended on is there or squashed, and neither the migrations    *)
(* nor the squashes in their place wait for each other in a circle.        *)
Regular(p) ==
    /\ WellFormed(p) /\ Flat(p) /\ Inherits(p)
    /\ Linked(p).error = "none"
    /\ \A k \in Linked(p).graph.dummies : StandIn(p, k) # k
    /\ Acyclic(Linked(p).graph) /\ Acyclic(Squashed(p))
=============================================================================
