# A TLA+ model of gormgate

gormgate brings Django-style migrations to gorm: it compares the models with a
recorded history, writes migration files, orders them by their dependencies and
runs them against a database, keeping a table of what has been applied. This
directory holds TLA+ modules translated from its source, the TLC configurations
that check them on small instances, and TLAPS proofs of what matters most about
them. Paths below are relative to the repository.

1. [The system](#1-the-system)
2. [The modules](#2-the-modules)
3. [The runs](#3-the-runs)
4. [Bounds and fairness](#4-bounds-and-fairness)
5. [What is proved](#5-what-is-proved)
6. [Where code and documentation disagree](#6-where-code-and-documentation-disagree)
7. [What is not modelled](#7-what-is-not-modelled)
8. [Plan](#8-plan)

To check a run: `tlc -config MCGraphDFS.cfg MCGraphDFS`. To check the proofs of
a module: `tlapm GraphDFS_proofs.tla`. `PROJECT.json` lists the runs with their
properties, the source lines behind every definition, a variant of the code
that breaks each property, the hazards the properties are aimed at, and the
theorems.

## 1. The system

Two pipelines meet in the project state (`docs/architecture.md`):

    gorm models -> fromgorm -----------------------> state --+
                                                             +-> autodetector -> optimizer -> writer -> files
    files -> registry -> loader -> graph -> replay -> state -+

    files -> loader -> graph -> executor -> operations -> schema editor -> database
                 ^                  |
                 +---- recorder <---+      (the migrations table)

| component | state | operations | interacts with |
| --- | --- | --- | --- |
| graph (`internal/graph`) | nodes, placeholders, two adjacency sets per node | AddNode, AddDependency, RemoveReplacedNodes, RemoveReplacementNode, Validate, EnsureNotCyclic, Forwards/BackwardsPlan, Root/LeafNodes, MakeState | built by the loader, read by everyone |
| loader (`internal/loader`) | migrations found, apps with and without migrations, squashes, applied rows, graph | loadDisk, BuildGraph, replaceMigration, CheckConsistentHistory, DetectConflicts | registry, recorder, graph |
| registry (`migrations/registry.go`) | what was compiled in | Register | filled at package initialisation, read by the loader |
| executor (`internal/executor`) | loader, recorder, connection | MigrationPlan, MigrateTo, ApplyMigration, UnapplyMigration, RecordMigration, CheckReplacements, DetectSoftApplied | runs migrations through the schema editor |
| recorder (`internal/recorder`) | the migrations table | EnsureSchema, AppliedMigrations, RecordApplied, RecordUnapplied | executor, loader, migrate |
| migration (`migrations/migration.go`) | operations, dependencies, replaces, atomic | Apply, Unapply, MutateState | state, schema editor |
| project state and operations (`migrations/state.go`, `op_*.go`) | models, fields, indexes, constraints | StateForwards, DatabaseForwards/Backwards, Reduce | everything |
| schema editor (`backends/base/editor.go`, `ddl_references.go`) | deferred statements, a transaction | Begin, Execute, Defer, Finish and the DDL algorithms | connection, backends |
| connection (`backends/base/conn.go`) | a pinned session and its transaction | Atomic, Exec | database |
| backends (`backends/*`) | features, type maps | their own versions of the DDL algorithms; SQLite rebuilds tables and checks foreign keys before commit | schema editor |
| autodetector (`internal/autodetector`) | from and to state, generated operations | generate*, sortMigrations, buildMigrationList, ArrangeForGraph | questioner, graph |
| optimizer (`internal/optimizer`) | none | Optimize | operations' Reduce |
| questioner, writer, commands (`internal/questioner`, `internal/writer`, `internal/management`) | what the user said, files | ask, write, run | all of the above |

What is hard here:

- **Crashes and partial failure.** A migration is several statements, some
  of them deferred to the end, and a row (several for a squash). On SQLite,
  PostgreSQL and SQL Server one transaction may hold them; on MySQL, Oracle,
  ClickHouse and CockroachDB the editor takes it that none can. What a failure
  or a death leaves behind depends on where it strikes.
- **Interleaving.** No lock keeps two `migrate` processes apart. Both read the
  same rows and make the same plan.
- **Long histories.** Squashing replaces migrations by one; the files of the
  replaced ones go later, the list of what it replaces later still; rows are
  pruned; targets are named that no longer stand in the graph. What the table
  says must stay true through any sequence of those.
- **Graph algorithms** written as loops over explicit stacks, on which the
  order of everything rests.
- **Operation algebra.** Optimizing and detecting changes reorder and merge
  operations; each step is sound only under conditions on what lies between.

What makes each component correct, in a sentence: a *plan* lists each migration
once and after all it needs; the *loader's graph* stands for every original
migration exactly once, keeps every dependency and takes for applied what is;
a *run* leaves schema and record in agreement or at worst the record behind, and
never claims what was not done; a *command* does what was asked or says that it
did not, and never makes a history that it later refuses; the *optimizer* keeps
the effect of a list of operations on the state; the *autodetector's* output
turns the old state into the new one and its migrations load without a cycle;
the *schema editor's* deferred statements name things that exist when they run.

## 2. The modules

    MigrationGraph ---> GraphDFS ------> GraphDFS_proofs
         |      \-----> GraphCycles ---> GraphCycles_proofs
         v
    MigrationLoader --> LoaderBuild ---> LoaderBuild_proofs
         |------------> MigrateCommand
         \------------> MakeMigrations
    MigrationRunner --> MigrationRunner_proofs --> RunnerOperations_proofs
         |                            \----------------v
         \------------> RunnerRefinement ---> RunnerRefinement_proofs
                        (implements MigrationHistory)
    FirstRun ---------> FirstRun_proofs
    ProjectState -> Operations -> Reduction -> Optimizer -> OrdinaryMigration
         |               |            |                          \--> Optimizer_proofs
         |               |            \------> Detection --> Autodetector
         v               v
      Catalog -> SchemaEditor -> SqliteEditor, BackendEditors --> SchemaMigration

An `MC` module gives a module its constants for TLC. Definitions marked as
variants in the modules (named for the slip, such as `DFSStepNoSeen`) are the
faulty forms that show that a property can fail; no specification uses them.

**MigrationGraph** (`internal/graph/graph.go`). A key is a record `[app, name]`
of numbers that sort as the code's strings do. A graph is the record of its
nodes, its placeholders (`dummies`) and its edges `<<child, parent>>`; the two
adjacency sets that a `Node` keeps are both read off `edges`, which is sound
because the code always changes them together. Every mutation is an operator
from graph to graph. `DFSStep` is one turn of the loop of `iterativeDFS`.
`Reach` and `Acyclic` are reference definitions by sets, independent of any
search.

**GraphDFS** and **GraphCycles** run `iterativeDFS` and `EnsureNotCyclic` one
turn at a time. GraphCycles has one history variable, the nodes in the order in
which they left the stack.

**MigrationLoader** (`internal/loader/loader.go`) is the loader as operators: a
project as loadDisk leaves it, with compiled migrations held against the files,
those that declare another app or come from another file refused, disabled apps and apps without migrations; `BuildGraph` with internal and
external dependencies, `__first__` and `__latest__`, run-before, and the folding
of squashes in dependency order; `ConsistentHistory`, `Conflicts`,
`AllReplacedApplied`. **LoaderBuild** loads any of a family of projects against
any content of the table that a deployment of it can have. `Regular` says of which
projects its properties are proved.

**MigrationRunner** (`executor.go` 366-450, `migration.go`, `editor.go`,
`conn.go`, `recorder.go`) runs migrations, one statement per step, in any number
of commands at once. A migration is a list of statements, each with one effect
and the effects that it defers. The database is external: it refuses DDL that
repeats an effect (or undoes one that is not there), shows a transaction's
changes when it commits, makes another session wait for an object that an open
transaction has touched, breaks a circle of such waits by failing the statement
of one of them (`Deadlocked`, a part of `Refused`), and, where it cannot roll DDL
back, commits on meeting it. One action stands for each part of the code:

| action | code |
| --- | --- |
| `Plan` | the step taken from MigrationPlan, by rows that may have changed since |
| `Begin`, `Fake` | NewEditor and Editor.Begin; the fake path |
| `Execute` | an operation's statement through Editor.Execute, in the operation's own transaction where atomicOperation asks for one |
| `RecordInside`, `EndOps` | RecordMigration before Finish, when nothing is deferred |
| `RunDeferred`, `Finish` | Editor.Finish: the deferred statements, then the commit |
| `Record` | RecordMigration after Finish: forwards with deferred statements, and always backwards |
| `Refused`, `Fault` | an error of the code or the server; an outside failure or the death of the process |

Two history variables name the windows that the code leaves open: `torn` holds
the migrations whose run ended between schema and record, `faked` those
recorded by `--fake`.

**MigrationHistory** is the abstract specification of a run, for backends that
roll DDL back: a migration is applied or undone in one step, with its rows if it
defers nothing; the rows of the others are owed, and whoever owes them writes
them one by one or is lost. **RunnerRefinement** maps MigrationRunner to it:
schema and table are what is committed, cut down to the atomic migrations, and a
command owes what RecordMigration still has to write after Finish. The property
`ImplementsHistory` is the abstract specification, its fairness included.

**MigrateCommand** (`internal/management/migrate.go`, `executor.go` 80-367,
452-476, `showmigrations.go`) is the command from the load to the last row. Running one
migration is a single step; MigrationRunner takes it apart. Commands follow one
another, each may fail after any write, and between them another release of the
project may be installed. `schema` holds the original migrations whose work is
in the database. `showList` and `showPlan` are the two formats of showmigrations.

**FirstRun** (`executor.go` 212-303, 447-563, `recorder.go`, `migrate.go`
syncApps) starts several migrate commands on one database at once. What each of
them looks up and acts on later is a step of its own: the rows for the plan, the
tables of unmigrated apps (`syncApps`), the migrations table (`FindTable`,
`CreateTable`), the tables of an initial migration (`DetectSoftApplied`), the
rows again for the squashed migrations (`ReadRows`, `RecordReplacement`).

**ProjectState** (`migrations/state.go`) is the project state as a function from
model keys to definitions, and each of its changes as an operator; a rename is
followed into everything that names what was renamed. Fields, indexes and
constraints are functions from their names: the order in which they are declared
is dropped. An index is the set of its columns. A foreign key that names no
column points at the primary key, which is one column. `Renders` is renderApps'
demand that every foreign key finds its target.

**Operations** (`migrations/op_models.go`, `op_fields.go`, `op_special.go`,
`operation.go`) gives each operation its StateForwards, the errors it returns,
its ReferencesModel and ReferencesField, and its Reduce. Reduce's three answers
are two operators: `Replacement` is the set of lists that replace a pair, at
most one, and `Through` tells ReduceThrough from ReduceBlock where there is
none. AlterModelTable, AlterModelTableComment, AlterUniqueTogether and
AlterModelOptions are one record type with an `option`; RunSQL, RunGo and
SeparateDatabaseAndState are `Special`, with their state operations. The
database enters only as what it refuses (`NameTaken`, `ColumnsExist`, external);
index names are unique in the project, as on PostgreSQL and SQLite.

**Reduction** is a pass of the optimizer over a list as an operator, for the
modules that optimize on the way. **Optimizer** (`internal/optimizer/optimizer.go`). First a migration is written
(`Write`), every operation one that runs where it stands; then `Pass` is one
optimizeInner that reduces, and `Return` the pass that finds nothing. A pass
tries the operations from the left, each with the first later one that it is
replaced together with, and either moves the first to the right or the second to
the left; `MovesRight` is the loop's `right` flag. **OrdinaryMigration** models no
code: it says of which lists `SameEffect` and `CodeUnaffected` are proved
(section 5), and TLC holds the run's operations against it.

**Detection** (`internal/autodetector/autodetector.go`, first half) goes from the
state of the files and that of the models to operations, one operator per
generate function, each operation with what it waits for. The questioner is the
set `yes` of the questions that are answered with yes. **Autodetector** (second
half) is `ChangesFor`: the generate functions in detectChanges' order, three
actions for them; `sortMigrations`; `Cut`, one turn of buildMigrationList's outer
loop; `optimizeMigrations`; `Arrange` with trimChangesToApps. What was made is
then applied (`Apply`) in any order its dependencies allow, since that is what
the executor may do with it.

**Catalog** is a database, external: tables, columns, keys, indexes and
constraints, and one operator per kind of DDL statement with what makes a server
refuse it. **SchemaEditor** (`backends/base/editor.go`, `ddl_references.go`, with
the steps MySQL, TiDB, CockroachDB and PostgreSQL replace) turns operations into
statements and keeps the deferred ones right when tables and columns are renamed
or dropped. **SqliteEditor** adds the building of a table anew and the check of
all keys before a commit; **BackendEditors** SQL Server, Oracle and ClickHouse.
**SchemaMigration** drives them: `Apply` is DatabaseForwards of one operation,
`Unapply` DatabaseBackwards of the last one, `Finish` the deferred statements.

**MakeMigrations** (`internal/management/makemigrations.go`,
`squashmigrations.go`, `optimizemigration.go`, `project.go`, the file side of
`internal/writer`, `migrations/registry.go`) has the commands that write files,
with a developer who edits, pulls and builds, and migrate run from that build. A
migration does a set of *features*, a feature standing for the operations of one
change to the models. A command loads what is compiled in, decides in one step
and puts its writes in `todo`; `PackageFile`, `LinkFile`, `MigrationFile` and
`RemoveFile` carry them out one at a time, and `Interrupt` cuts them short.

## 3. The runs

| run | distinct states | shows |
| --- | --- | --- |
| `graph_dfs` | 24 144 | On every acyclic graph over four keys of two apps, from every node in both directions: a plan lists a migration after all it needs (`NeighboursFirst`), is exactly what the target reaches (`PlanIsReach`), and the loop ends (`Terminates`). |
| `graph_cycles` | 252 650 | On all 2^16 graphs over four keys: what EnsureNotCyclic accepts has no cycle, what it reports is one, and it answers. |
| `runner_concurrent` | 46 055 | Two commands forwards at once, with DDL rollback, over a plain migration, one that defers, a squash of both that makes its tables in another order and one that is not atomic, with two faults: what others see is a history of whole migrations (`ImplementsHistory`), the rows of a squash in their order; every command ends, also when two wait for each other (`EveryRunEnds`). |
| `runner_backwards` | 35 195 | One command after another in both directions, faked ones and an irreversible migration included: `ImplementsHistory` again, and record and schema agree outside the named windows (`Agreement`). |
| `runner_no_rollback` | 9 256 | Two commands at a time, both forwards or both backwards, on a backend without DDL rollback: a row means that all the work is there, unless a migration that can be undone is being undone (`RecordedIsApplied`), and an operation with a transaction of its own is seen whole or not at all, because Execute refuses DDL inside it (`OperationAllOrNothing`). |
| `loader_build` | 8 208 | 268 two-app projects with one squash against every table content: the project loads, with deleted replaced files too, each original is stood for exactly once (`ExactCover`), and no dependency is lost (`DependencyKept`). |
| `migrate_command` | 3 495 | Any sequence of commands, failures and four releases (before a squash, with it, without the replaced files, without the list): a migration runs when what it needs is there and its own work is not (`RunsInItsPlace`), what the next command reads is true (`TableTellsTheTruth`), no history the command made is refused (`NoDeadEnd`), a success did what was asked (`DoneAsAsked`), and showmigrations shows what migrate will run (`ShownIsRun`). |
| `optimizer` | 97 419 | Every migration of up to four of 40 operations that runs, optimized: after any number of passes the list still runs and leads to the same state (`SameEffect`), RunGo and RunSQL find the models they were written for (`CodeUnaffected`), and Optimize returns (`Terminates`). |
| `autodetector` | 237 963 | Between any two of a family of states of three apps, with any answers and labels: sorting and cutting get through (`TurnsEnd`), what a new migration depends on is there or made with it, in no circle (`AlwaysNext`), in whatever order they are applied each one runs (`EveryOrderRuns`), and together they make the models' state (`ReachesModels`). |
| `schema_editor` | 231 691 | Two operations of any kind on four schemas, in one migration or two, forwards and backwards, on eight backends: deferred statements name what is there (`DeferredValid`), nothing the project state allows is refused by the server (`NothingFails`), the editor refuses before it changes anything (`RefusedWhole`), and between migrations the database is the one that creating the models from nothing gives (`Faithful`). |
| `makemigrations` | 128 186 | Two commands that write files, with edits, a colleague's branch, builds, migrate and interruptions between: the files load (`AlwaysLoads`) and compile (`AlwaysCompiles`), no work is done twice in a database (`NeverTwice`), the command has done what it is for (`Accomplishes`), no migration is written over (`NothingRewritten`), and a stale binary migrates nothing (`MigratesFiles`). |
| `first_run` | 442 090 | Three commands at once on six databases, with and without DDL rollback, `--fake-initial`, `--run-syncdb`, and a fault: a row means the whole migration (`RecordedIsWhole`), one of them gets through on an empty database (`OneSucceeds`), a squashed migration's row follows those it replaces (`SquashFollows`), all of them end (`AllEnd`). |

## 4. Bounds and fairness

- *Graphs*: four keys in two apps are enough for two paths to one node, a
  diamond across apps, a cycle with a lead-in and a self-dependency. The
  theorems of section 5 lift the bound.
- *Runner*: `MaxRuns` 4 or 5 lets each of two commands run a migration, fail
  and run it or an overlapping one again; `MaxFaults` 2 lets a fault strike the
  repair of a fault. The programs hold one of each kind the code tells apart:
  plain, deferring, squash, irreversible, not atomic, with DDL from a RunGo.
  The squash makes the two tables of a migration it replaces in the other order,
  as the optimizer does when a later operation ties one to the other, so that the
  squash and the migration, run at once, come to wait for each other: without the
  server's part in `Refused`, `EveryRunEnds` fails. The migration
  of runner_no_rollback that cannot be undone has a reversible operation after the
  irreversible one, which a check made operation by operation would have undone by
  then. That run does not go on from states in which two commands are under way in
  opposite directions (`CONSTRAINT OneWay`): section 5 says what happens there.
  The model has no step that depends on a longer program.
- *Projects*: one squash of two migrations, a successor of it, a second app
  that reaches in by name, `__first__`, `__latest__` or run-before, an app
  without migrations, with and without the replaced files, and binaries older
  and newer than the files or with a migration of another app or file. Table contents are all that respect dependencies;
  `Deployable` says which: an original is recorded only after what it depends
  on, and files of replaced migrations are deleted only from deployments that
  have all of them recorded or none, as `docs/guide/squashing.md` asks.
- *Commands*: the history is unbounded in length; the state is finite because
  the releases and rows are.
- *Releases* in MigrateCommand are installed under the same rule (`Settled`).
  A command may name any migration on disk, one that a squash replaces too; that
  no other migration depends on the squash itself by name, and `PruneDry`, keep two
  known disagreements of section 6 out of the run.
- *Optimizer*: `MaxOps` 4 holds a pair that reduces with two operations between
  them, which is what it takes for one to let the pair through and the other to
  block it, and lets one reduction make another possible. The operations cover
  every type and every reduction, on two models that can point at each other and
  a third that was there before. The disagreements of section 6 cannot happen in the
  passing run: it renames no model that another points at and gives no name a
  second time, removes and renames no column that is indexed or pointed at, and
  has no composite foreign key and no default that is not preserved. Seven other
  sets in MCOptimizer bring them in. All operations of the run but the two that
  rename a model make ordinary lists (`MostAreOrdinary`, an ASSUME that TLC
  evaluates), so that for these the theorems lift the bound. An elidable operation carries no state operations: dropping one that
  did would change the state, and the flag is the author's word that it may go.
- *Autodetector*: five models in three apps, one of them without migrations,
  that can point at each other in both directions across and within apps, which
  is what makes cutting necessary; and one model with every kind of part that can
  change. Every pair of states is tried. `Misordered` and `MissedAlteration` name
  the cases of section 6.
- *Schema editor*: `MaxOps` 2 lets one operation act on what another has queued,
  and undoing follow doing. The four schemas have a key to a primary key, to a
  unique column and over two columns, unique sets, checks, indexes; every table
  has rows. `Fillable` and `TypesAgree` say what an author sees to: a column that
  becomes NOT NULL has a default, and a key has the type of what it points at.
  `Avoided` names the flaws of section 6, each an operator that says when it
  strikes.
- *makemigrations*: `MaxCommands` 2 and `MaxSquashes` 1, from an empty project, one
  file and two apps that wait for each other in turn. The developer edits only
  while a command is to come, agrees to the merge of an app only if its branches do
  different things, and after `--update` ports the functions and deletes the file as its
  message asks. `--check` and `--dry-run` write nothing and are left out.
- *First run*: three commands, so that two can fail on each other while a third
  goes on; an initial migration of several tables with a deferred key, a second
  one, one of another app, and a squash of the first two. `MaxFaults` 1.

Fairness is weak fairness of one command's own steps. In the graph modules,
MigrateCommand and Optimizer there is one goroutine that never blocks; in MigrationRunner
and FirstRun each command is one goroutine on a pinned connection, whose only wait is for another
session's transaction. That wait is part of the guards of `Execute` and
`RunDeferred`, so `EveryRunEnds` and `AllEnd` do say that no commands wait for each other
for ever. In MigrationRunner that takes the server, which fails one of a circle: every
backend with transactions does (PostgreSQL 40P01, MySQL 1213, SQL Server 1205, ORA-00060),
and SQLite has one writer. No fairness is assumed of starting a command, of faults, of installing a release or
of writing another operation. In MigrationHistory a client that owes rows writes
them or is lost.

Deadlock is checked except where the system may stop: when Optimize has returned
(`Terminates` says that it stops nowhere else), when every command of first_run
has ended (`AllEnd` says that), and when the bounds on operations and commands
are reached in schema_editor and makemigrations.

## 5. What is proved

TLAPS checks these for every value of the constants.

**GraphDFS_proofs**: `Typing`, `DependencyOrder`, `EachOnce`, `PlanCorrect` -
for any set of keys and any acyclic graph. The code marks a node as seen only
when it leaves the stack the second time, so the stack can hold it several
times and neither order nor uniqueness is inductive alone. `IInv` adds: a
processed item's neighbours are in the plan or above it (`Waiting`); an item was
pushed as a neighbour of the nearest processed item below (`Path`), so the
processed items form a path and acyclicity forbids a second copy; a processed
item is not in the plan yet (`Unseen`); the target lies at the bottom
(`Bottom`); the search stays inside every closed set that holds the target
(`Inside`).

**GraphCycles_proofs**: `Typing`, `ReportSound`, `AcceptSound` - for any graph.
`IInv` says that the stack is a path (`Chain`), that every node is to do, on the
stack or finished (`Covered`) and that a node finishes after its children
(`ChildrenFirst`). At the end every node is finished, and the one that finished
first of any set has no child in it.

**MigrationRunner_proofs**: `Typing` for any programs, backend, directions and
number of commands; and `RecordTrue`, that `RecordedIsApplied` holds while
commands run forwards (`Dirs \subseteq {"forwards"}`), on any backend, for any
programs and squashes, any number of commands at once, failures and deaths. The
inductive invariant `FInv` is stronger than the property: every single row is
true, squashes' rows included (`RowsTrue`), and of each run in progress, what
its migration brings is in the database, in its transaction, still to be sent or
still deferred (`Covered`), it writes only its own keys (`Keys`), and it holds
rows only when nothing is left to send (`Order`).

**RunnerRefinement_proofs** has three results, each with an invariant of its own
on top of the runner's types.

*`Refinement`*: where DDL can be rolled back (`CanRollbackDDL`), the first state and
every step of MigrationRunner are those of MigrationHistory or stutter, in both
directions, for any number of commands, faked, failing and dying: the safety half
of `ImplementsHistory`. A commit must bring a migration as one whole, so `RInv`
says what each open transaction holds: forwards, that what the migration brings is
in it, still to be sent or deferred, and that what the server refuses to make twice
was not there before (`Ahead`); backwards, that what it takes away and what is left to
send is all of it (`Back`); and no two transactions hold the same object (`Apart`),
which is the server's lock and what makes two commits the steps of a history.
`Simulation` then takes the actions one by one.

*`SchemaAndTable`*: `Agreement`, for any number of commands forwards or one in both
directions (`NoRace`). `AInv` adds to `RInv` that a run that has still to write rows
has done its part to the schema, and that the rows it is through with are written
(`Settled`). The hypothesis is needed: of two commands in opposite directions the one
that unapplies can remove, after its commit, the row that the other has just written,
and then `Agreement` is false with no run in progress to excuse it.

*`RecordTrueBothWays`*: `RecordedIsApplied` with runs backwards, on every backend, under
`NoRace`. `GInv` holds, of each command that goes forwards, what `RecordTrue` needs (the
lemmas `ForwardPlan` to `ForwardError` of MigrationRunner_proofs are stated for a single
step so that both proofs can use them), and of each that goes backwards, that it takes
away nothing but its own migration's effects and removes rows only after all of them
(`Undoes`). Here a row may well outlive its effects; `RowFits` says that then a run
that undoes it can be seen or was left behind. `UInv`, which needs neither hypothesis, says
that such a run is of a migration whose operations are all reversible or was faked
(`Looked`): Unapply goes through all of them before its first statement. `Flat` is the second hypothesis: what the
loader reads for a squash are keys that replace nothing themselves, as it has them
after resolving a squash of squashes.

**RunnerOperations_proofs**: `OperationsWhole`, that `OperationAllOrNothing` holds for any
programs, backend, number of commands and directions. `PInv` says what of an operation
is in its transaction and what is still to be sent (`Doing`), that no other
transaction is open when a migration goes operation by operation (`ByParts`), and that
the statements of an operation not yet begun are all still there (`Ahead`). The
hypothesis `NothingQueued` says that an operation with a transaction of its own defers
nothing: RunGo is the only kind that can have one (`migrations/operation.go:152`,
`op_special.go:235`), and what its function were to queue would be executed by
`Finish`, outside that transaction.

**FirstRun_proofs**: `Typing`, `RowMeansWhole`, `SquashRowsFollow` and `OneGetsThrough`, for
any migrations and any number of commands that start at once. `BInv` says how far each
command is in its migration (`Applying`: what it has passed is in the database or its
transaction, what is left is the end of the list). `WInv` adds that rows mean whole
migrations, and with transactions so do the tables that `--fake-initial` looks at.
`SInv` adds that a command's migrations have rows or are in its plan, and that what it
read stays. `OneGetsThrough` needs more: that of commands that refuse each other one is
never refused. `OInv` says that there is always a leader, a command that has not failed
and none of whose objects yet to come is taken (`Leads`); when one command makes an
object of the leader's, it becomes the leader itself, for objects are made in one order
(`Orderly`). At the end the leader is through.

**LoaderBuild_proofs** is first about what the loader does to the graph for one squash, on
any graph. `FoldKeepsOrder`: RemoveReplacedNodes loses no dependency, the squash standing
for what it replaces. `FoldMakesNoCycle`: and the graph stays acyclic if, and only if,
no other migration lies between those it replaces; the other half is `SquashesAcross`
of section 6, which nothing in squashmigrations keeps away. `UnfoldMakesNoCycle` and
`UnfoldKeepsOrder`: RemoveReplacementNode, for a squash that is partly applied, makes no
cycle and loses no dependency. The hypotheses are what squashmigrations writes: a
squash and what it replaces do not depend on each other (`Apart`, `Ahead`), and it has
their dependencies (`Follows`, `squashmigrations.go:157`).

Then it is about all of BuildGraph: `RegularLoads`, `CoverExact` and `OrderKept` say that
every *regular* project, with any migrations and any number of squashes, loads with
every content of the table that a deployment can have, that in the graph each
original is then stood for exactly once (`ExactCover`) and that no declared dependency is
lost (`DependencyKept`). `Regular` is about the files alone, never about rows: no squash
replaces another, or what another replaces, and the files it replaces are all there
or all deleted (`Flat`); it depends on nothing that these do not depend on
(`Inherits`); what is depended on is there or squashed; and neither the declared
dependencies nor those between the squashes (`Squashed`) form a circle. Of the 268
projects of `loader_build` 204 are regular, just those that load into an empty database
(`RegularIsLoadable`, which TLC evaluates); so for them the theorems say that a project that loads on a developer's new
database loads on every older one too. With nested squashes `Follows` stops
being true when the inner one has gone, which is the third case of section 6.

The argument: `Shape` describes the graph when the squashes `F` stand for theirs and the
squashes `U` have gone. Each of its edges leads to an edge of `Squashed` or is a declared one
within a squash (`Leads`), so it has no circle (`NoCircle`) and nothing that is replaced
waits for its squash (`AheadHolds`); whoever needed a migration needs what is left of it
(`Keeps`); the squashes still to come wait only for what they replace waits for
(`Inherit`), without which the next one could not be taken out. `ShapeFold` and
`ShapeUnfold` carry that over one squash; `Course` ties it to the loader after some turns of
the loop, with those in `F` that are applied wholly or not at all, and `LoadsRegular`
goes through the loop by induction with sets, as Optimizer_proofs does.
`LinkedIs`, `ReplacedIs`, `ResolvedFlat` and `ReplaceFlat` unfold the recursive functions
of the loader.

**Optimizer_proofs**: `Typing` and `NotLonger`, for any operations, start state
and length of the migration; and `EffectKept` and `CodeKept`, that `SameEffect` and
`CodeUnaffected` hold after any number of passes over an *ordinary* migration, of
any length, over any models and columns, from any project state. A pass may put
operations into the list that nobody wrote (a CreateModel with a field folded in),
so nothing ties the list to `Op` once it has begun; `Lists` keeps just that it is
a sequence of something.

The two properties are false of some migrations (section 6), because Optimize looks
at two operations and never at the project state. `Ordinary` excludes what it
overlooks, and all renaming of models with it: there are a set of columns `G` that no foreign key
points at, which holds all that are removed or renamed, and a set `R` that no index
or constraint of the list covers, which holds all that are renamed; no model is
renamed; a foreign key is a field; defaults are preserved; and what is elidable has
no state operations. It says nothing about order, and the operations that folding
makes are sound again for the same `G` and `R` (`StepGood` and the `Reduces` lemmas),
so the exclusion is about what is written, not about what passes make of it.

The argument: an operation that lets another through (`Through`) commutes with it
(`Commute`: both orders run, and to the same state); what replaces two neighbours
does what they did (`Reduces`, one lemma for each kind of Reduce); `MoveRight` and
`MoveLeft` bring two operations together over all that lies between, by induction on
its length; and `ReplacedLeads` and `PassLeads` put a pass together. The inductive
invariant `Effect` is that the list still leads from the start to where the written
one leads and that code finds the same states on the way (`Keeps`), and that
the list is still sound: without soundness of what folding has made, the next pass
could not be argued about. Induction over a list is done with sets: the lemma
`Induction` takes the set of numbers for which a statement holds, and its least
non-member exists by `WFMin`. `PlainPathIs`, `PathIs` and `FoundIs` unfold the recursive
functions of the model that way.

The assumptions, each evaluated by TLC in the runs: `SortKeysAssumption`, that sorting
returns the elements it was given; `RunnerAssumption`, the types of the constants;
`SquashAssumption`, that a squash brings what it replaces brings, and records its own
key last; `RefinementAssumption`, that RecordMigration writes each key once and atomic
migrations share no object with others; `OwnershipAssumption`, that what a
migration brings none brings but those that squash it; `OperationsAssumption`, that the
statements of an operation come one after the other, with one flag, and that two
operations that share effects, as those of a squash and what it replaces do, share all
of them. `FirstRunAssumption` types FirstRun's constants; `ObjectsAssumption` says that no
object is made twice, `StartAssumption` that the database at the start is the work of
commands that came to an end, `OrderAssumption` what sorting returns. `MaxOpsAssumption`
types the bound of Optimizer. `CommandAssumption` types MigrateCommand's constants and
`NameAssumption` keeps `None` apart from the models' keys; no theorem uses these two.

Fifteen theorems are about fourteen properties that the runs check too:
`NeighboursFirst`, `PlanIsReach`, `AcceptedIsAcyclic`, `ReportedIsCycle`,
`RecordedIsApplied` (twice, once for any number of commands and once in both
directions), `Agreement`, `OperationAllOrNothing`, `RecordedIsWhole`, `SquashFollows`,
`OneSucceeds`, for regular projects `ExactCover` and `DependencyKept`, and for ordinary
migrations `SameEffect` and `CodeUnaffected`. The type
invariants, `NoDuplicates` and `NeverLonger` are proved and no run repeats them.

Only model-checked:

- termination and liveness (`Terminates`, `EveryRunEnds`, `AllEnd`, the fairness of
  `ImplementsHistory`), which are out of the prover's reach;
- commands in opposite directions at once, beyond `Refinement` and `OperationsWhole`;
- `ExactCover` and `DependencyKept` of projects that are not regular: those of the run,
  which do not load into an empty database, and nested squashes, where they can fail;
- MigrateCommand, the autodetector and the schema editors: the plans and the editors are
  folds and recursive functions over whole projects, and the library's induction theorems
  take an operator that no installed prover can instantiate. What is left is the
  induction with sets of Optimizer_proofs and LoaderBuild_proofs, which needs the single
  steps as lemmas;
- MakeMigrations, whose properties rest on the numbers of files, which come from such
  folds;
- `SameEffect` and `CodeUnaffected` of lists that are not ordinary: those that rename a
  model that nothing points at, which the run has, and those of section 6, where
  they fail.

## 6. Where code and documentation disagree

The runs keep clear of the cases below. Each is brought in by the change that is
named, and TLC then ends in a counterexample.

*migrate and the loader*

- `run` calls `prune` before it looks at `--plan` and `--check`
  (`internal/management/migrate.go:210`), so `migrate --prune --check app` deletes
  rows; the flag's help says "exit non-zero if anything is unapplied, and change
  nothing". With `PruneDry = TRUE` in MCMigrateCommand.cfg the action property
  `[][cmd.c.dry => rows' = rows]_vars` fails.
- For a target that a squash replaces, MigrationPlan loads again without
  replacements (`internal/executor/executor.go:113`). A migration that depends on
  the squash itself is not a child of the target there, so it stays applied and
  the command succeeds; the help says "naming a migration moves that app to
  exactly that point, forwards or backwards". The one
  release of `AfterTree` (`Tree <- AfterTree`, `Release = {1}`, `Upgrades = {}`) breaks `RunsInItsPlace`, for what comes after the target is undone while
  that migration still needs it, and `DoneAsAsked`.
- replaceMigration hands RemoveReplacementNode the unresolved `mig.Replaces`
  (`internal/loader/loader.go:373`). When a squash of a squash is partly applied
  and the inner one has gone, the outer one's children move only to the replaced
  nodes that are left and lose dependencies; `docs/guide/squashing.md` says that
  the chain is resolved recursively. `Key <- NestedKey` and `Projects <-
  NestedProjects` in MCLoaderBuild.cfg break `DependencyKept`.

*The optimizer*, whose help promises "the smallest set that has the same effect".
Each breaks `SameEffect` with another set for `Op` in MCOptimizer.cfg:

- `RenamedTarget`: CreateModel A, CreateModel B with a foreign key to A,
  RenameModel A to C. The second lets the rename through, because RenameModel's
  ReferencesModel knows its two names and not who points at them
  (`migrations/op_models.go`); the rename folds into the first and B's key is left
  naming A.
- `RenamedColumn`: CreateModel takes a RenameField into its fields and
  unique_together, and leaves the indexes and constraints in its options with the
  old name (`migrations/op_models.go:167`).
- `CompositeKey`: CreateModel's ReferencesModel goes through fields, not through
  foreign key constraints (`migrations/op_models.go:79`), so a model can be moved
  behind one that points at it by such a constraint.
- `OneOffDefault`: CreateModel takes in an AddField without regard to
  PreserveDefault (`migrations/op_models.go:128`), so a default meant for the
  existing rows stays in the state.
- `ReusedName`: RenameModel D to E, CreateModel D, RenameModel E to F. RenameModel
  joins the later rename when what lies between does not refer to the new name
  (`migrations/op_models.go:366`); that it creates the old one is not looked at, and
  the list no longer runs.
- `RenamedPointed`: RenameField's ReferencesField knows its two names and not who
  points at them, so CreateModel takes in the renaming of a column that the model
  created between them points at (`migrations/op_models.go:167`).
- `RemovedPointed` (with `Start <- PointedStart`): RemoveField of a foreign key,
  RemoveField of the column it pointed at, DeleteModel of the key's model. The first
  carries no definition of the field it removes, so it lets the second through and is
  dropped for the third; now the column goes while the key still points at it.

Each is shut out by one condition of OrdinaryMigration, and `EffectKept` says that,
for lists that rename no model, there are no others.

A comment is off too: `optimizer.go:15` says that each reduction "shortens the list
or replaces two operations by fewer", while AlterField followed by RenameField gives
two for two. `NeverLonger` is what holds, and the loop ends all the same.

*The autodetector* puts an operation before one it needs in four cases, named in
Autodetector; `EveryOrderRuns` fails without `~Misordered`:

- `UniqueOverNewField`: RemoveField waits for any AlterUniqueTogether of its model
  (`autodetector.go:852`), which then comes before the AddField of a column of the
  new set.
- `LateRename`: RenameModel waits for the creation of models that point at it
  (`autodetector.go:575`), and other changes of the model do not wait for the
  rename.
- `ConstraintToDeleted`: DeleteModel waits for the fields that point at it and for
  no ForeignKeyConstraint.
- `PointedColumnChanges`: no dependency is about the column that a key names as its
  target.

`Unfollowed` is by design: columns of unmanaged models are not compared. And
`MissedAlteration`: a key that comes to point at what the same command renames
passes for one that did so before; the next makemigrations sees it.

*The schema editors*. Taking a name out of `Avoided` in MCSchemaMigration.cfg shows
each:

- `RenamesConstrained`, `RenamesQueued`: a composite key is put back over the old
  column name; on SQLite RENAME COLUMN reaches neither the constraints of a table
  that is then built anew nor queued statements.
- `StillQueued`: an index, constraint or key that the same migration has only
  queued is looked up in the database, and not found.
- `DropsSupport`: on MySQL the index that carries a composite key is dropped and
  not put back first.
- `LosesUnique`: SQL Server's unique constraint over one altered column is not put
  back; `docs/vendors.md:182` speaks of restoring what was dropped.
- `ReplacesColumn`: what else stands on a column that Oracle replaces blocks the
  drop or goes with it (`docs/vendors.md:209`).
- `RefusesLate`: TiDB refuses to alter a clustered key after it has dropped the
  foreign keys, ClickHouse an index without a type after it has created the table.

*The commands that write files*. The same with `Avoided` of MCMakeMigrations.cfg:

- `UpdatesOffline` (breaks `NeverTwice`): without a database `--update` knows of
  nothing applied (`makemigrations.go:482`), while
  `docs/commands/makemigrations.md` says that it refuses a migration that is.
- `EditsUnbuilt` (`MigratesFiles`): only names are held against the files, so an
  edited migration is not noticed; `docs/guide/writing-migrations.md` says
  "rebuild it after writing or editing a migration. gormgate notices the
  mismatch".
- `UpdatesTogether` (`AlwaysLoads`): `--update` of two apps at once keeps
  dependencies on migrations that are never written.
- `SquashesAcross` (`AlwaysLoads`): a squash over migrations between which another
  app's lies is written, and makes a circle.
- `ConvertsLate`, `SplitsApp` (`AlwaysLoads`): an app's first migration depends on
  the leaf of an app that waits for it; and an app whose two migrations were cut
  short after the first.
- `LeavesBoth` (`NeverTwice`): cut short between writing the new file of `--update`
  and removing the old one, both are there.
- `ReusesNumber` (`NothingRewritten`): a squash with a name of its own gives the
  numbers after it a second time.
- `LosesFunctions` (`AlwaysCompiles`): a file is written over with the functions
  that it defines.

## 7. What is not modelled

No control in them to check: the spelling of SQL and of Go source, type maps,
introspection of system catalogues and inspectdb, the mapping of gorm's schema,
flags, colours, and the commands that only print (showmigrations apart).

Left out of what is modelled: project states carried along a plan in the
executor's modules (they decide what SQL an operation sends, never whether or
when it is sent; SchemaMigration has them); the dates of rows; signals and hooks;
collected SQL; comments, collations and tablespaces; the historical models handed
to RunGo; the operations of `migrations/postgres`, which are statements of one
backend; GaussDB, which follows PostgreSQL; how the questioner reads a line and
parses a default; the suggestion of migration names; a connection lost while the
process lives on, which ends the command as any error does; a migration file that a
death leaves truncated, for a file is there or is not; the `Atomic` and `Initial` that
optimizemigration does not carry over into a new file
(`optimizemigration.go:71`; that it leaves out the run-before list is modelled).

Of the backends' own cases: SQLite's rebuild for a column whose database default is an
expression (`sqlite3.go:411`); an Oracle identity that goes with the type of its column
(ORA-30675, `oracle/schema.go:343`) and the referential actions that Oracle refuses
(`oracle/schema.go:72`). That a type was refused, and so the workaround is tried, is
read in BackendEditors off what stood on the column, where the code reads error codes.

What `AlwaysCompiles` and `MigratesFiles` do not cover is named in section 6
(`LosesFunctions`, `EditsUnbuilt`). The windows in which a death leaves schema and
table apart (`executor.go:393` and `:436`) are there by design of the code;
`Agreement` and `RecordedIsApplied` say that they are the only ones.

CheckConsistentHistory reads the table a second time (`loader.go:493`) and holds
those rows against the graph of the first reading. The commands of MigrateCommand
follow one another, so both readings agree; what a second reading can do beside
another command is refuse, before anything has been run.

## 8. Plan

1. **Operation algebra**: `EffectKept` for lists that rename a model that nothing
   points at, under names used once; the variant of buildMigrationList (`TurnsEnd`)
   for any operations. **Loader**: nested squashes of which the outer one is applied wholly
   or not at all.
2. **Composition**: MigrateCommand's step of one migration refined by
   MigrationRunner; SchemaMigration's statements as the programs of
   MigrationRunner, for what a crash leaves of SQLite's table rebuild.
3. The operations of `migrations/postgres`.
