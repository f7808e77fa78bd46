--------------------------- MODULE MigrateCommand ---------------------------
(***************************************************************************)
(* The migrate command from the loading of the project to the last row:    *)
(* migrateCmd.run and prune (internal/management/migrate.go) over the      *)
(* executor's MigrationPlan, MigrateTo, migrateAllForwards,                *)
(* migrateAllBackwards and CheckReplacements.  Commands follow one another *)
(* on one database; each may fail after any of its writes.  Between them   *)
(* the binary is replaced by another release, whose project has other      *)
(* migrations: squashing, and the removal of what was squashed.            *)
(*                                                                         *)
(* Running one migration is a single step here; MigrationRunner takes it   *)
(* apart.  schema is the set of original migrations whose work is in the   *)
(* database; Brings says which ones a migration carries out, Needs what an *)
(* original one depends on.                                                *)
(***************************************************************************)
EXTENDS MigrationLoader

CONSTANTS
    Release,          \* releases of the project,
    Tree,             \* Tree[r]: the migrations of r, a project of the loader
    Upgrades,         \* and the pairs of releases that may follow one another
    Original, Brings, Needs,
    Zero, NoName,     \* the migration name zero, and none given
    NoApp,            \* no app label given
    PruneDry          \* whether --prune is given together with --check, --plan

ASSUME CommandAssumption ==
    /\ Brings \in [Key -> SUBSET Original] /\ Needs \in [Original -> SUBSET Original]
    /\ PruneDry \in BOOLEAN

VARIABLES release, rows, schema, cmd, outcome

vars == <<release, rows, schema, cmd, outcome>>

project == Tree[release]

Command == [app : {NoApp} \cup {k.app : k \in Key}, name : {Zero, NoName} \cup {k.name : k \in Key},
            prune : BOOLEAN, dry : BOOLEAN]

NoCommand == [app |-> NoApp, name |-> NoName, prune |-> FALSE, dry |-> FALSE]

(* c is what was asked, loader what was read at the start, todo the rows   *)
(* still to prune or the migrations still to run.                          *)
Idle == [pc |-> "idle", c |-> NoCommand, loader |-> [error |-> "none"], todo |-> <<>>]

Init == /\ release \in Release
        /\ rows = {} /\ schema = {}
        /\ cmd = Idle /\ outcome = "none"

-----------------------------------------------------------------------------
(* MigrationPlan: steps [key, backwards].                                  *)

PlanBack(g, acc, n) ==
    LET add(a, k) == IF k \in a.applied
                       THEN [plan    |-> Append(a.plan, [key |-> k, backwards |-> TRUE]),
                             applied |-> a.applied \ {k}]
                       ELSE a
    IN  FoldLeft(add, acc, BackwardsPlan(g, n))

PlanForth(g, acc, n) ==
    LET add(a, k) == IF k \notin a.applied
                       THEN [plan    |-> Append(a.plan, [key |-> k, backwards |-> FALSE]),
                             applied |-> a.applied \cup {k}]
                       ELSE a
    IN  FoldLeft(add, acc, ForwardsPlan(g, n))

(* Where the backwards plans for a target start.                           *)
UndoFromLeaves(g, target) ==
    IF target.name = Zero THEN LeafNodes(g, {target.app})
                          ELSE SortKeys(InApp(Children(g, target), target.app))

UndoFrom(g, target) ==
    IF target.name = Zero THEN RootNodes(g, {target.app})
                          ELSE SortKeys(InApp(Children(g, target), target.app))

MigrationPlan(l, targets, cleanStart) ==
    LET back(acc, n) == PlanBack(l.graph, acc, n)
        step(acc, t) == IF t.name = Zero \/ t \in acc.applied
                          THEN FoldLeft(back, acc, UndoFrom(l.graph, t))
                          ELSE PlanForth(l.graph, acc, t)
        start == [plan |-> <<>>, applied |-> IF cleanStart THEN {} ELSE l.applied]
    IN  FoldLeft(step, start, targets).plan

(* A target outside the graph has been replaced: the executor loads again  *)
(* without replacements and keeps that loader.                             *)
Unknown(l, targets) == \E t \in ToSet(targets) : t.name # Zero /\ t \notin l.graph.nodes

-----------------------------------------------------------------------------
(* The start of run: load, check, find the targets.                        *)

(* What c asks for; a squashed migration that is not in the graph is taken *)
(* for the last one that it replaces.                                      *)
TargetOf(l, k) == IF k \notin l.graph.nodes /\ k \in Replacements(project)
                    THEN Last(project.migs[k].replaces) ELSE k

Targets(l, c) ==
    IF c.app = NoApp THEN LeafNodes(l.graph, Apps(l.graph))
    ELSE IF c.name = NoName THEN LeafNodes(l.graph, {c.app})
    ELSE IF c.name = Zero THEN <<[app |-> c.app, name |-> Zero]>>
    ELSE <<TargetOf(l, [app |-> c.app, name |-> c.name])>>

StartError(l, c) ==
    IF l.error # "none" THEN "load"
    ELSE IF ~ConsistentHistory(project, l.graph, rows) THEN "inconsistent"
    ELSE IF Conflicts(l.graph) # {} THEN "conflict"
    ELSE IF c.prune /\ c.app = NoApp THEN "usage"
    ELSE "none"

PruneRegardless(l, c) ==
    IF c.prune THEN SortKeys({k \in l.applied \ Disk(project) : k.app = c.app}) ELSE <<>>

(* prune: the rows of the app without a file, unless a squashed migration  *)
(* still says that it replaces one of them.                                *)
ToPrune(l, c) ==
    LET gone == {k \in l.applied \ Disk(project) : k.app = c.app}
        held == \E k \in Replacements(project) : ToSet(project.migs[k].replaces) \cap gone # {}
    IN  IF c.prune /\ ~held THEN SortKeys(gone) ELSE <<>>

(* What a user may type.                                                   *)
Asked(c) ==
    /\ c.app \in {NoApp} \cup project.migrated
    /\ c.app = NoApp => c.name = NoName
    /\ c.name \notin {Zero, NoName} => [app |-> c.app, name |-> c.name] \in Disk(project)
    /\ PruneDry \/ ~c.prune \/ ~c.dry

StartWith(l) ==
    \E c \in Command :
        /\ Asked(c)
        /\ outcome' = IF StartError(l, c) = "none" THEN "running" ELSE StartError(l, c)
        /\ cmd' = IF StartError(l, c) = "none"
                    THEN [pc |-> "prune", c |-> c, loader |-> l, todo |-> ToPrune(l, c)]
                    ELSE Idle

Migrate ==
    /\ cmd.pc = "idle"
    /\ StartWith(BuildGraph(project, rows, TRUE))
    /\ UNCHANGED <<release, rows, schema>>

PruneOne ==
    /\ cmd.pc = "prune" /\ cmd.todo # <<>>
    /\ rows' = rows \ {Head(cmd.todo)}
    /\ cmd' = [cmd EXCEPT !.todo = Tail(@)]
    /\ UNCHANGED <<release, schema, outcome>>

-----------------------------------------------------------------------------
(* The plan, and the migrations in the order in which they will run.       *)

(* The end of a command; what was asked is remembered after a success.     *)
End(result) == /\ cmd' = [Idle EXCEPT !.c = IF result = "ok" THEN cmd.c ELSE @]
               /\ outcome' = result

Mixed(plan) == Cardinality({s.backwards : s \in ToSet(plan)}) > 1

(* Forwards in the order of the full plan, backwards in that of the plan.  *)
migrateAllForwards(l, plan) ==
    LET full == MigrationPlan(l, LeafNodes(l.graph, Apps(l.graph)), TRUE)
    IN  SelectSeq(full, LAMBDA s : s \in ToSet(plan))

(* Mutant: as the steps are found in the full plan.                        *)
UndoOldestFirst(plan) == Reverse(SelectSeq(plan, LAMBDA s : s.backwards))

migrateAllBackwards(plan) == SelectSeq(plan, LAMBDA s : s.backwards)

RunOrder(l, plan) ==
    IF \E s \in ToSet(plan) : s.backwards THEN migrateAllBackwards(plan)
                                          ELSE migrateAllForwards(l, plan)

Enter(l, plan) ==
    IF Mixed(plan) THEN End("mixed")
    ELSE /\ cmd' = [cmd EXCEPT !.pc = "run", !.todo = RunOrder(l, plan)]
         /\ UNCHANGED outcome

PlanWith(l, targets) ==
    IF l.error # "none" THEN End("load")
    ELSE IF Unknown(l, targets) THEN End("missing")
    ELSE IF cmd.c.dry \/ cmd.c.prune THEN End("stopped")
    ELSE Enter(l, MigrationPlan(l, targets, FALSE))

(* A target that the graph lacks, because a squash replaces it, is looked  *)
(* for in one built without replacements.                                  *)
MakePlan ==
    /\ cmd.pc = "prune" /\ cmd.todo = <<>>
    /\ LET targets == Targets(cmd.loader, cmd.c)
       IN  PlanWith(IF Unknown(cmd.loader, targets) THEN BuildGraph(project, rows, FALSE)
                                                    ELSE cmd.loader, targets)
    /\ UNCHANGED <<release, rows, schema>>

(* RecordMigration: k and, all the way down, what it replaces.             *)
RecordsOf(k) ==
    LET records[x \in Key] ==
            {x} \cup (IF x \in Replacements(project)
                        THEN UNION {records[r] : r \in ToSet(project.migs[x].replaces)}
                        ELSE {})
    IN  records[k]

RunOne ==
    /\ cmd.pc = "run" /\ cmd.todo # <<>>
    /\ LET s == Head(cmd.todo)
       IN  IF s.backwards
             THEN schema' = schema \ Brings[s.key] /\ rows' = rows \ RecordsOf(s.key)
             ELSE schema' = schema \cup Brings[s.key] /\ rows' = rows \cup RecordsOf(s.key)
    /\ cmd' = [cmd EXCEPT !.todo = Tail(@)]
    /\ UNCHANGED <<release, outcome>>

(* CheckReplacements, one row at a time, then the end.                     *)
Unrecorded == {k \in Replacements(project) :
                 k \notin rows /\ AllReplacedApplied(project, k, rows)}

CheckReplacements ==
    /\ cmd.pc = "run" /\ cmd.todo = <<>> /\ Unrecorded # {}
    /\ rows' = rows \cup {SortKeys(Unrecorded)[1]}
    /\ UNCHANGED <<release, schema, cmd, outcome>>

Finish ==
    /\ cmd.pc = "run" /\ cmd.todo = <<>> /\ Unrecorded = {}
    /\ End("ok")
    /\ UNCHANGED <<release, rows, schema>>

Fail ==
    /\ cmd.pc # "idle"
    /\ End("failed")
    /\ UNCHANGED <<release, rows, schema>>

-----------------------------------------------------------------------------
(* showmigrations, which reads and changes nothing.                        *)

(* Applied and recorded, applied without a row of its own, not applied.    *)
ListMark(l, k) == IF k \notin l.applied THEN "[ ]" ELSE IF k \in rows THEN "[X]" ELSE "[-]"

(* Mutant: what has no row is not applied.                                 *)
PlanMarkByRow(l, k) == IF k \in rows THEN "[X]" ELSE "[ ]"

PlanMark(l, k) == IF k \in l.applied THEN "[X]" ELSE "[ ]"

(* The list of an app: its part of the plans of its leaves.                *)
showList(l, app) ==
    LET list(acc, leaf) == acc \o SelectSeq(ForwardsPlan(l.graph, leaf),
                                LAMBDA k : k.app = app /\ k \notin ToSet(acc))
        keys == FoldLeft(list, <<>>, LeafNodes(l.graph, {app}))
    IN  [i \in DOMAIN keys |-> [key |-> keys[i], mark |-> ListMark(l, keys[i])]]

(* --plan: the plans of the leaves one after another.                      *)
showPlan(l, apps) ==
    LET list(acc, leaf) == acc \o SelectSeq(ForwardsPlan(l.graph, leaf), LAMBDA k : k \notin ToSet(acc))
        keys == FoldLeft(list, <<>>, LeafNodes(l.graph, apps))
    IN  [i \in DOMAIN keys |-> [key |-> keys[i], mark |-> PlanMark(l, keys[i])]]

-----------------------------------------------------------------------------
(* Another release is installed.  Files of replaced migrations go only     *)
(* from deployments that have applied all of them or none; the replaces    *)
(* list goes when the squashed migration itself is recorded too.           *)

Settled(k, next) ==
    LET replaced == ToSet(project.migs[k].replaces)
        all == replaced \cup (IF k \in Replacements(Tree[next]) THEN {} ELSE {k})
    IN  \/ replaced \subseteq Disk(Tree[next])
        \/ all \subseteq rows \/ (replaced \cup {k}) \cap rows = {}

Install ==
    /\ cmd.pc = "idle"
    /\ \E next \in Release :
         /\ <<release, next>> \in Upgrades
         /\ \A k \in Replacements(project) : Settled(k, next)
         /\ release' = next
    /\ outcome' = "none"
    /\ UNCHANGED <<rows, schema, cmd>>

Step == PruneOne \/ MakePlan \/ RunOne \/ CheckReplacements \/ Finish

Next == Migrate \/ Step \/ Fail \/ Install

(* One goroutine: a command that has started goes on.                      *)
Spec == Init /\ [][Next]_vars /\ WF_vars(Step)

-----------------------------------------------------------------------------
Running == cmd.pc = "run" /\ cmd.todo # <<>>

Now == Head(cmd.todo)

(* Whatever mixture of releases, targets and failures came before, a       *)
(* migration is run forwards only when none of its work has been done and  *)
(* all that it needs is in the database, and backwards only when all of it *)
(* is there and nothing left needs it: a squashed migration never runs     *)
(* over the work of what it replaces.                                      *)
RunsInItsPlace ==
    Running =>
        IF Now.backwards
          THEN /\ Brings[Now.key] \subseteq schema
               /\ \A u \in schema \ Brings[Now.key] : Needs[u] \cap Brings[Now.key] = {}
          ELSE /\ Brings[Now.key] \cap schema = {}
               /\ \A u \in Brings[Now.key] : Needs[u] \subseteq schema \cup Brings[Now.key]

(* Between commands the next one will read the truth: what the loader      *)
(* takes for applied is in the database, what it does not is not.          *)
TableTellsTheTruth ==
    cmd.pc = "idle" =>
        \A l \in {BuildGraph(project, rows, TRUE)} : \A k \in l.graph.nodes :
            IF k \in l.applied THEN Brings[k] \subseteq schema
                               ELSE Brings[k] \cap schema = {}

(* The command never brings about a history that it later refuses.         *)
NoDeadEnd == outcome \notin {"load", "inconsistent", "conflict", "mixed", "missing"}

(* Everything that the originals in S need, all the way down.              *)
Closure(S) == {u \in Original : \A C \in SUBSET Original :
                 S \subseteq C /\ (\A v \in C : Needs[v] \subseteq C) => u \in C}

WorkOf(app) == UNION {Brings[k] : k \in InApp(Disk(project), app)}

(* A command that succeeds has done what was asked: without arguments all  *)
(* the work of the project is in the database, with an app all of the app  *)
(* and its needs, with a migration the app is at exactly that point.       *)
DoneAsAsked ==
    outcome = "ok" =>
        LET c == cmd.c
            k == [app |-> c.app, name |-> c.name]
        IN  IF c.app = NoApp THEN schema = UNION {WorkOf(a) : a \in project.migrated}
            ELSE IF c.name = NoName THEN Closure(WorkOf(c.app)) \subseteq schema
            ELSE IF c.name = Zero THEN schema \cap WorkOf(c.app) = {}
            ELSE schema \cap WorkOf(c.app) = Closure(Brings[k]) \cap WorkOf(c.app)

(* showmigrations says what migrate does: between commands the plan that   *)
(* it shows, without what is marked as applied, is what migrate will run,  *)
(* in that order; and after a migrate that ran to the end every migration  *)
(* is listed as applied, none as still to be recorded.                     *)
ShownIsRun ==
    cmd.pc = "idle" =>
        \A l \in {BuildGraph(project, rows, TRUE)} :
            LET apps == Apps(l.graph)
                open == SelectSeq(showPlan(l, apps), LAMBDA x : x.mark = "[ ]")
                runs == RunOrder(l, MigrationPlan(l, LeafNodes(l.graph, apps), FALSE))
            IN
            /\ [i \in DOMAIN open |-> open[i].key] = [i \in DOMAIN runs |-> runs[i].key]
            /\ outcome = "ok" /\ cmd.c.app = NoApp =>
                 \A a \in apps : \A x \in ToSet(showList(l, a)) : x.mark = "[X]"
=============================================================================
