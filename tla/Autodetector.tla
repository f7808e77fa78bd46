---------------------------- MODULE Autodetector ----------------------------
(***************************************************************************)
(* internal/autodetector/autodetector.go: ChangesFor.  The operations that *)
(* Detection generates are sorted within each app, cut into migrations by  *)
(* what they wait for in other apps, optimized, and put after the leaves   *)
(* of the graph.                                                           *)
(*                                                                         *)
(* What is made is then applied, in any order its dependencies allow, to   *)
(* the state it was made for: that is what the migrations are for.         *)
(*                                                                         *)
(* A migration of the graph or a new one is known by <<app, number>>;      *)
(* number 0 stands for "__first__", 1 for the leaf an app may have.        *)
(***************************************************************************)
EXTENDS Detection

CONSTANTS
    Before,     \* the states the migrations on disk may lead to
    Models,     \* the states the model structs may describe
    Labels      \* the app labels makemigrations may be given

VARIABLES
    phase,
    det,        \* the detector
    labels,     \* the apps named on the command line
    migs,       \* migs[a]: the migrations made for app a
    chop,       \* chopMode
    project,    \* the state after the new migrations applied so far
    applied     \* their keys

vars == <<phase, det, labels, migs, chop, project, applied>>

Leaf(a) == \E k \in DOMAIN det.from : AppOf[k] = a

-----------------------------------------------------------------------------
(* The questions that can come up; any of them may be answered with yes.   *)
Questions(from, to) ==
    LET all(s) == UNION {{k} \X DOMAIN s[k].fields : k \in DOMAIN s}
        gone   == DOMAIN from \ DOMAIN to
        came   == DOMAIN to \ DOMAIN from
        models == {p \in gone \X came : /\ AppOf[p[1]] = AppOf[p[2]]
                                        /\ RelationAgnostic(from[p[1]]) = RelationAgnostic(to[p[2]])}
        fields == {p \in (all(from) \ all(to)) \X (all(to) \ all(from)) : p[1][1] = p[2][1]}
        oneOff == {p \in all(from) \cap all(to) : /\ from[p[1]].fields[p[2]].null
                                                 /\ ~to[p[1]].fields[p[2]].null}
    IN  {ModelRenamed(p[1], p[2]) : p \in models} \cup {FieldRenamed(p[1], p[2]) : p \in fields}
          \cup (IF oneOff = {} THEN {} ELSE {OneOff})

Begin ==
    /\ phase = "start"
    /\ \E from \in Before, to \in Models, named \in Labels :
         \E yes \in SUBSET Questions(from, to) :
           /\ det' = Start(from, to, named, yes)
           /\ labels' = named
           \* the models of apps without migrations are there as they are
           /\ project' = from @@ Restrict(to, {k \in DOMAIN to : AppOf[k] \in Real \ named})
    /\ phase' = "models"
    /\ UNCHANGED <<migs, chop, applied>>

(* detectChanges, its steps up to sortMigrations.                          *)
WholeModels(d) ==
    \E r \in {prepareFieldLists(generateRenamedModels(d))} :
    \E m \in {generateCreatedModels(generateDeletedModels(r))} :
    \E o \in {generateAlteredDBTableComment(generateAlteredOptions(m))} :
        det' = createRenamedFields(o)
Removals(d) ==
    \E p \in {generateRemovedIndexes(generateRemovedConstraints(d))} :
    \E r \in {generateRenamedIndexes(generateRenamedFields(p))} :
        det' = generateRemovedFields(generateRemovedAlteredUniqueTogether(r))
Additions(d) ==
    \E f \in {generateAlteredFields(generateAddedFields(d))} :
    \E p \in {generateAddedIndexes(generateAlteredUniqueTogether(f))} :
    \E c \in {generateAlteredConstraints(generateAddedConstraints(p))} :
        det' = generateAlteredDBTable(c)

Generate(from, Steps(_), next) ==
    /\ phase = from
    /\ Steps(det)
    /\ phase' = next
    /\ UNCHANGED <<labels, migs, chop, project, applied>>

(* sortMigrations; a cycle within an app ends the command.                 *)
sortMigrations ==
    /\ phase = "sort"
    /\ \E sorted \in {[a \in App |-> SortedOps(det.gen[a], a)]} :
         /\ det' = [det EXCEPT !.gen = sorted]
         /\ phase' = IF \A a \in App : Len(sorted[a]) = Len(det.gen[a]) THEN "build" ELSE "failed"
    /\ UNCHANGED <<labels, migs, chop, project, applied>>

-----------------------------------------------------------------------------
(* buildMigrationList: b holds the operations left, the migrations made    *)
(* and chopMode.                                                           *)

Foreign(app, op) == SelectSeq(op.deps, LAMBDA x : AppOf[x.key] # app)

(* A dependency on another app is met when no operation left there brings  *)
(* it, and there is something to depend on.                                *)
Met(b, dep) ==
    LET a == AppOf[dep.key]
    IN  /\ \A i \in DOMAIN b.left[a] : ~satisfiedBy(dep, b.left[a][i].op)
        /\ b.migs[a] # <<>> \/ b.chop

Satisfied(b, app, op) == \A i \in DOMAIN Foreign(app, op) : Met(b, Foreign(app, op)[i])

DependsOn(b, dep) ==
    LET a == AppOf[dep.key]
    IN  IF b.migs[a] # <<>> THEN <<a, "auto", Len(b.migs[a])>>
        ELSE IF Leaf(a) THEN <<a, "disk", 1>> ELSE <<a, "disk", 0>>

(* How many operations of the app can be taken from the front.             *)
Taken(b, app) ==
    LET ops == b.left[app]
    IN  CHOOSE n \in 0..Len(ops) :
            /\ \A i \in 1..n : Satisfied(b, app, ops[i])
            /\ n < Len(ops) => ~Satisfied(b, app, ops[n + 1])

(* Mutant: the operations taken stay in the list.                          *)
CutAppKeeps(b, app) ==
    LET n == Taken(b, app)
    IN  IF n = 0 \/ (n < Len(b.left[app]) /\ ~b.chop) THEN b
        ELSE [b EXCEPT !.migs[app] = Append(@, [deps |-> {}, ops |-> <<>>]), !.chop = FALSE]

CutApp(b, app) ==
    LET n      == Taken(b, app)
        ops    == b.left[app]
        deps   == UNION {{DependsOn(b, Foreign(app, ops[i])[j]) : j \in DOMAIN Foreign(app, ops[i])}
                           : i \in 1..n}
        made   == [deps |-> deps, ops |-> [i \in 1..n |-> ops[i].op]]
    IN  IF n = 0 \/ (n < Len(ops) /\ ~b.chop) THEN b
        ELSE [left |-> [b.left EXCEPT ![app] = SubSeq(@, n + 1, Len(@))],
              migs |-> [b.migs EXCEPT ![app] = Append(@, made)],
              chop |-> FALSE]

AppsInOrder == SetToSortSeq(App, <)

(* One turn of the outer loop.                                             *)
Cut ==
    /\ phase = "build"
    /\ \E a \in App : det.gen[a] # <<>>
    /\ \E b \in {After([left |-> det.gen, migs |-> migs, chop |-> chop], AppsInOrder, CutApp)} :
         LET stuck == b.left = det.gen
         IN  /\ det' = [det EXCEPT !.gen = b.left]
             /\ migs' = b.migs
             /\ chop' = (b.chop \/ stuck)
             /\ phase' = IF stuck /\ b.chop THEN "failed" ELSE "build"
    /\ UNCHANGED <<labels, project, applied>>

(* optimizeMigrations.                                                     *)
optimizeMigrations ==
    /\ phase = "build"
    /\ \A a \in App : det.gen[a] = <<>>
    /\ migs' = [a \in App |-> [n \in DOMAIN migs[a] |->
                   [ops  |-> OptimizedOps(migs[a][n].ops),
                    deps |-> migs[a][n].deps \cup (IF n = 1 THEN {} ELSE {<<a, "auto", n - 1>>})]]]
    /\ phase' = "arrange"
    /\ UNCHANGED <<det, labels, chop, project, applied>>

-----------------------------------------------------------------------------
(* ArrangeForGraph and trimChangesToApps.  Every app gets the initial      *)
(* migration it lacks; MakeMigrations has the apps that are left out.      *)

Number(a, n) == IF Leaf(a) THEN n + 1 ELSE n

Named(dep) == IF dep[2] = "disk" THEN <<dep[1], dep[3]>> ELSE <<dep[1], Number(dep[1], dep[3])>>

Arranged(a, n) ==
    [migs[a][n] EXCEPT !.deps = {Named(x) : x \in @} \cup
                                (IF n = 1 /\ Leaf(a) THEN {<<a, 1>>} ELSE {})]

(* The apps that the named ones need, in as many steps as it takes.        *)
Required(made) ==
    LET deps(S) == S \cup {x[1] : x \in UNION {made[a][n].deps : <<a, n>> \in
                               {<<a, n>> \in S \X (1..Max({1} \cup {Len(made[b]) : b \in App})) : n <= Len(made[a])}}}
        grown[n \in 0..Cardinality(App)] == IF n = 0 THEN labels ELSE deps(grown[n - 1])
    IN  grown[Cardinality(App)]

(* Mutant: only the apps that were named.                                  *)
TrimmedToNamed(made) ==
    IF labels = {} THEN made ELSE [a \in App |-> IF a \in labels THEN made[a] ELSE <<>>]

trimChangesToApps(made) ==
    IF labels = {} THEN made
    ELSE [a \in App |-> IF a \in Required(made) THEN made[a] ELSE <<>>]

Arrange ==
    /\ phase = "arrange"
    /\ migs' = trimChangesToApps([a \in App |-> [n \in DOMAIN migs[a] |-> Arranged(a, n)]])
    /\ phase' = "made"
    /\ UNCHANGED <<det, labels, chop, project, applied>>

-----------------------------------------------------------------------------
(* The migrations are applied.                                             *)

New == UNION {{<<a, Number(a, n)>> : n \in DOMAIN migs[a]} : a \in App}
Made(key) == migs[key[1]][IF Leaf(key[1]) THEN key[2] - 1 ELSE key[2]]

(* __first__ is the first migration of its app, if there is one at all.    *)
Resolve(x) == IF x[2] = 0 /\ <<x[1], 1>> \in New THEN <<x[1], 1>> ELSE x

Ready == {key \in New \ applied : \A x \in Made(key).deps : Resolve(x) \in applied \cup ({x} \ New)}

Path(s, ops) ==
    LET path[i \in 0..Len(ops)] == IF i = 0 THEN s ELSE StateForwards(ops[i], path[i - 1])
    IN  path

RunsFrom(s, ops) == \A i \in DOMAIN ops : Runs(ops[i], Path(s, ops)[i - 1])

Apply(key) ==
    /\ phase = "made"
    /\ key \in Ready
    /\ RunsFrom(project, Made(key).ops)
    /\ LET ops == Made(key).ops IN project' = Path(project, ops)[Len(ops)]
    /\ applied' = applied \cup {key}
    /\ UNCHANGED <<phase, det, labels, migs, chop>>

(* The command failed, or nothing is left that runs.                       *)
Done ==
    \/ phase = "failed"
    \/ phase = "made" /\ \A key \in Ready : ~RunsFrom(project, Made(key).ops)

Init ==
    /\ phase = "start"
    /\ det = <<>>
    /\ labels = {}
    /\ migs = [a \in App |-> <<>>]
    /\ chop = FALSE
    /\ project = <<>>
    /\ applied = {}

Next ==
    \/ Begin
    \/ Generate("models", WholeModels, "removals")
    \/ Generate("removals", Removals, "additions")
    \/ Generate("additions", Additions, "sort")
    \/ sortMigrations \/ Cut \/ optimizeMigrations \/ Arrange
    \/ \E a \in App, n \in 1..9 : Apply(<<a, n>>)
    \/ Done /\ UNCHANGED vars

Spec == Init /\ [][Next]_vars

-----------------------------------------------------------------------------
(* Four cases in which an operation comes before one it needs.  A model    *)
(* that loses a field gets a unique set over a new one: the removal waits  *)
(* for the unique set, and so pulls it in front of the new field.          *)
UniqueOverNewField ==
    \E k \in kept(det) :
        /\ \E f \in DOMAIN oldState(det, k).fields : f \notin DOMAIN det.to[k].fields
        /\ ~(UNION det.to[k].unique \subseteq DOMAIN oldState(det, k).fields)

(* A renamed model is tied to a new one: the rename waits for the new      *)
(* model, which may point at the new name, and other changes of the        *)
(* renamed model do not wait for the rename.                               *)
LateRename ==
    \E k \in DOMAIN det.renamedModels, new \in det.new \ det.old :
        \/ \E f \in Range(det.to[new].fields) : f.to = k
        \/ \E f \in Range(det.to[k].fields) : f.to = new

(* A model goes that a foreign key constraint points at: it waits for the  *)
(* fields that do, and for no constraint.                                  *)
ConstraintToDeleted ==
    \E gone \in DOMAIN det.from, k \in DOMAIN det.from :
        /\ gone \notin det.new \cup Range(det.renamedModels)
        /\ \E c \in Range(det.from[k].constraints) : c.to = gone

(* A column comes or goes that a foreign key points at by name: no         *)
(* dependency is about the column.                                         *)
PointedColumnChanges ==
    \E s \in {det.from, det.to} : \E k \in DOMAIN s : \E x \in Pointers(s[k]) :
    \E p \in (det.oldFields \ det.newFields) \cup (det.newFields \ det.oldFields) :
        x.to \in {p[1], oldName(det, p[1])} /\ p[2] \in x.toFields

(* The columns of a model that is, or is to be, unmanaged change: they are *)
(* not followed, by design.                                                *)
Unfollowed ==
    \E k \in DOMAIN det.from \cap DOMAIN det.to :
        /\ ~(det.from[k].managed /\ det.to[k].managed)
        /\ det.from[k].fields # det.to[k].fields

Misordered == UniqueOverNewField \/ LateRename \/ ConstraintToDeleted \/ PointedColumnChanges \/ Unfollowed

(* Whatever order the dependencies of the new migrations leave open, each  *)
(* of them runs when its turn comes, every operation of it.                *)
EveryOrderRuns ==
    phase = "made" /\ ~Misordered => \A key \in Ready : RunsFrom(project, Made(key).ops)

(* The models at the end; of an unmanaged one that it is unmanaged.        *)
Followed(s, k) ==
    IF det.to[k].managed /\ (k \in DOMAIN det.from => det.from[k].managed) THEN s[k]
    ELSE [managed |-> s[k].managed]

(* A foreign key that comes to point at what the same command renames      *)
(* passes for one that did so before; only the next makemigrations sees it.*)
MissedAlteration ==
    \E p \in (det.oldFields \cap det.newFields) \ DOMAIN det.renamedFields :
        LET old       == oldState(det, p[1]).fields[p[2]]
            new       == det.to[p[1]].fields[p[2]]
            column(f) == IF <<new.to, f>> \in DOMAIN det.renamedFields THEN det.renamedFields[<<new.to, f>>] ELSE f
        IN  /\ AlteredTo(det, old, new) # new
            /\ <<oldName(det, new.to), {column(f) : f \in new.toFields}>> # <<old.to, old.toFields>>

(* Applied all together, the new migrations make the state of the models.  *)
ReachesModels ==
    phase = "made" /\ labels = {} /\ applied = New /\ ~Misordered /\ ~MissedAlteration =>
        /\ DOMAIN project = DOMAIN det.to
        /\ \A k \in DOMAIN project : Followed(project, k) = Followed(det.to, k)

(* Every dependency of a new migration is on a migration that is there or  *)
(* made by the same command, none of them in a circle: there is always one *)
(* to apply next.                                                          *)
AlwaysNext ==
    phase = "made" => /\ applied # New => Ready # {}
                      /\ \A key \in New : \A x \in Made(key).deps :
                            \/ x \in New
                            \/ x = <<x[1], 1>> /\ Leaf(x[1])
                            \/ x = <<x[1], 0>> /\ (x[1] \in Real \/ <<x[1], 1>> \in New)

(* Any two states can be bridged: the operations of an app are in no       *)
(* circle, and buildMigrationList ends with all of them placed.  A turn of *)
(* its loop places an operation, or it is the first after which part of    *)
(* what an app needs may be placed.                                        *)
Remaining(gen) == FoldFunctionOnSet(LAMBDA ops, n : Len(ops) + n, 0, gen, App)
TurnsEnd ==
    [][/\ phase' # "failed"
       /\ phase = "build" /\ phase' = "build" =>
            \/ Remaining(det'.gen) < Remaining(det.gen)
            \/ det'.gen = det.gen /\ ~chop /\ chop']_vars
=============================================================================
