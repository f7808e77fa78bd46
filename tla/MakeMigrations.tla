--------------------------- MODULE MakeMigrations ---------------------------
(***************************************************************************)
(* The commands that write migration files, internal/management:           *)
(* makemigrations (plain, --empty, --update, --merge), squashmigrations    *)
(* and optimizemigration, with the developer who edits models and files,   *)
(* pulls the work of a colleague and builds the command, and with migrate  *)
(* run from that build.  Migrations are compiled in: each command believes *)
(* its binary, once the loader has compared the names with the files.      *)
(*                                                                         *)
(* A migration does a set of features; a feature stands for the operations *)
(* of one change to the models.  AppOf and Needs say where it belongs and  *)
(* which ones come before it; features are numbered in an order that       *)
(* respects Needs.  How operations are found and sorted is Autodetector's  *)
(* subject, how they are folded Optimizer's, how one is run                *)
(* MigrationRunner's.                                                      *)
(*                                                                         *)
(* A command loads and decides in one step; what it writes is put in todo  *)
(* and goes to the disk one file at a time, and may be cut short.          *)
(***************************************************************************)
EXTENDS Naturals, Sequences, FiniteSets, SequencesExt

CONSTANTS
    App, Feature, AppOf, Needs,
    Pulled,         \* the features a colleague works on
    Hand,           \* the feature that is written by hand into an empty migration
    Fragment,       \* the fragments names are made of, given with --name or suggested
    Constrained,    \* those that end in "test" or in the name of a platform
    Key, First, Latest,
    Projects,       \* the projects to start from, see Init
    MaxCommands, MaxSquashes,
    Avoided         \* the disagreements to keep clear of, see below

ASSUME FilesAssumption ==
    /\ \A f \in Feature : \A g \in Needs[f] : g < f
    /\ Hand \notin Feature /\ Pulled \subseteq Feature
    /\ \A f \in Pulled : Needs[f] = {}

VARIABLES
    models,     \* the features of the model structs
    packages,   \* the apps with a migrations.go
    link,       \* the apps the link file imports
    files,      \* the migration files, by key
    built,      \* packages and files as they were compiled in
    rows,       \* the migrations table of the database
    schema,     \* how often the work of a feature was done there
    todo,       \* the writes of the running command that are still to come
    last,       \* the command that was run last, for the properties
    commands    \* how many have been run

vars == <<models, packages, link, files, built, rows, schema, todo, last, commands>>

INSTANCE MigrationLoader

-----------------------------------------------------------------------------
(* Names.  A name is a number of four digits: the leading number, the one  *)
(* ParseNumber finds, what stands before "_squashed_", and the fragment.   *)
(* They sort as the strings do as far as the code looks at the order.      *)

Lead(name)        == name \div 1000
LeadingNumber(name) == Lead(name)       \* mutant: the second number is not looked for
ParseNumber(name) == (name \div 100) % 10

Name(n, fragment) == n * 1100 + fragment
Updated(name)     == name + 4                       \* name_updated
Optimized(name)   == (name \div 10) * 10 + 8        \* name_optimized
Plain(name)       == name % 10
Squashed(lead, before, name) == lead * 1000 + (name % 1000) + 10 * before

At(app, name) == [app |-> app, name |-> name]

(* The file of a migration.  The go tool leaves out a file whose name ends *)
(* in _test.go or _linux.go, so a trailing underscore is put there.        *)
Filename(name) == [stem |-> name, underscore |-> Plain(name) \in Constrained]

MigrationNameFromFile(file) ==
    IF file = Filename(file.stem) \/ ~file.underscore THEN file.stem ELSE 10 * file.stem

BuildSees(file) == file.underscore \/ Plain(file.stem) \notin Constrained

(* A migration: calls are the files whose functions its operations name;   *)
(* fn says that it defines its own; folded that the optimizer has nothing  *)
(* to do.                                                                  *)
Migration(deps, ops) ==
    [deps |-> deps, before |-> <<>>, replaces |-> <<>>, ops |-> ops,
     calls |-> {}, fn |-> FALSE, folded |-> TRUE]

Compiles ==
    \A k \in DOMAIN files : \A c \in files[k].calls : c \in DOMAIN files /\ files[c].fn

(* What registers itself in a build: the files of the packages imported.   *)
Compiled ==
    LET seen == {k \in DOMAIN files : k.app \in link /\ BuildSees(Filename(k.name))}
    IN  [packages |-> link, files |-> [k \in seen |-> files[k]]]

(* go build; go run does it every time.                                    *)
Build ==
    /\ todo = <<>> /\ Compiles
    /\ built' = Compiled
    /\ UNCHANGED <<models, packages, link, files, rows, schema, todo, last, commands>>

UpToDate == built = Compiled

-----------------------------------------------------------------------------
(* The loader every command starts with.                                   *)

Installed == [a \in App |->
    [disabled |-> FALSE, compiled |-> a \in built.packages, dirExists |-> a \in packages,
     files |-> {MigrationNameFromFile(Filename(k.name)) : k \in InApp(DOMAIN files, a)},
     registered |-> [n \in {k.name : k \in InApp(DOMAIN built.files, a)} |-> built.files[At(a, n)]],
     foreign |-> {}, moved |-> {}]]

Project == LoadDisk(Installed)

(* A package that was made and got no migration.                           *)
Bare == {a \in Project.migrated : InApp(Disk(Project), a) = {}}

(* makemigrations ignores dependencies on such an app.                     *)
Loaded(applied, ignoreNoMigrations) ==
    IF LoadDiskError(Installed, FALSE) THEN [error |-> "disk"]
    ELSE IF ignoreNoMigrations THEN BuildGraph([Project EXCEPT !.unmigrated = @ \cup Bare], applied, TRUE)
    ELSE BuildGraph(Project, applied, TRUE)

Mig(k) == built.files[k]

Leaf(l, a) == LeafNodes(l.graph, {a})[1]
HasLeaf(l, a) == LeafNodes(l.graph, {a}) # <<>>

(* What a command has done is forgotten when something else happens.       *)
Nothing == [cmd |-> "none", apps |-> {}, split |-> FALSE]

(* A command that writes the given files.                                  *)
Start(cmd, apps, writes, split) ==
    /\ todo' = writes
    /\ last' = [cmd |-> cmd, apps |-> apps, split |-> split]
    /\ commands' = commands + 1
    /\ UNCHANGED <<models, packages, link, files, built, rows, schema>>

(* A previous file that --update kept for its functions.                   *)
Unported == \E k \in DOMAIN files : \E c \in files[k].calls \ {k} :
                files[k].replaces = <<>> /\ c \in DOMAIN files /\ files[k].ops \cap files[c].ops # {}

(* The next command is given once that has been dealt with.                *)
Idle == todo = <<>> /\ commands < MaxCommands /\ ~Unported

(* What the writer puts into a file: the dependencies sorted, the          *)
(* operations with the functions they name, and no function.               *)
AsString(m) ==
    LET before(x, y) == x.app < y.app \/ (x.app = y.app /\ x.name < y.name)
    IN  [m EXCEPT !.deps = SortSeq(@, before), !.fn = FALSE]

Write(k, m) == [do |-> "write", key |-> k, mig |-> AsString(m)]
DoRemove(k) == [do |-> "remove", key |-> k]

(* ensurePackage and writeLinkFile write what is not there yet.            *)
Ensure(a) ==
    (IF a \in packages THEN <<>> ELSE << [do |-> "package", key |-> At(a, First)] >>)
      \o (IF link = packages \cup {a} THEN <<>> ELSE << [do |-> "link", key |-> At(a, First)] >>)

-----------------------------------------------------------------------------
(* The autodetector, on features.                                          *)

(* The state that the migrations lead to, leaf after leaf.                 *)
generatePlan(g) ==
    UNION {ToSet(ForwardsPlan(g, n)) : n \in ToSet(LeafNodes(g, App))}

MakeState(g) == UNION {Mig(k).ops : k \in generatePlan(g)}

(* The models of an app without migrations are there as they are, unless   *)
(* the app is named.                                                       *)
Missing(l, labels) ==
    {f \in models : AppOf[f] \in Project.migrated \cup labels} \ MakeState(l.graph)

Foreign(f) == {g \in Needs[f] : AppOf[g] # AppOf[f]}

InOrder(S) == SetToSortSeq(S, <)

(* buildMigrationList: [left, migs, chop, order], order being the apps in  *)
(* the order in which they got their first migration.                      *)
Met(b, g) == g \notin ToSet(b.left[AppOf[g]]) /\ (b.migs[AppOf[g]] # <<>> \/ b.chop)

DependsOn(l, b, g) ==
    LET a == AppOf[g]
    IN  IF b.migs[a] # <<>> THEN [app |-> a, new |-> Len(b.migs[a])]
        ELSE IF HasLeaf(l, a) THEN Leaf(l, a) ELSE At(a, First)

CutApp(l, b, a) ==
    LET ready(f) == \A g \in Foreign(f) : Met(b, g)
        ops  == b.left[a]
        n    == CHOOSE i \in 0..Len(ops) : /\ \A j \in 1..i : ready(ops[j])
                                           /\ i < Len(ops) => ~ready(ops[i + 1])
        done == SubSeq(ops, 1, n)
        deps == {DependsOn(l, b, g) : g \in UNION {Foreign(f) : f \in ToSet(done)}}
    IN  IF n = 0 \/ (n < Len(ops) /\ ~b.chop) THEN b
        ELSE [left  |-> [b.left EXCEPT ![a] = SubSeq(@, n + 1, Len(@))],
              migs  |-> [b.migs EXCEPT ![a] = Append(@, [ops |-> ToSet(done), deps |-> deps])],
              chop  |-> FALSE,
              order |-> IF a \in ToSet(b.order) THEN b.order ELSE Append(b.order, a)]

BuildMigrationList(l, missing) ==
    LET turn(b) == FoldLeft(LAMBDA c, a : CutApp(l, c, a), b, InOrder(App))
        list[b \in [left : [App -> Seq(Feature)], migs : [App -> Seq([ops : SUBSET Feature, deps : SUBSET (Key \cup [app : App, new : Nat])])],
                    chop : BOOLEAN, order : Seq(App)]] ==
            IF \A a \in App : b.left[a] = <<>> THEN b
            ELSE CHOOSE c \in {list[d] : d \in {[t EXCEPT !.chop = @ \/ t.left = b.left] : t \in {turn(b)}}} : TRUE
    IN  list[[left |-> [a \in App |-> InOrder({f \in missing : AppOf[f] = a})],
              migs |-> [a \in App |-> <<>>], chop |-> FALSE, order |-> <<>>]]

(* ArrangeForGraph: numbers that follow the leaf, and what the names give. *)
NewName(l, a, i, fragment) ==
    Name((IF HasLeaf(l, a) THEN ParseNumber(Leaf(l, a).name) ELSE 0) + i, fragment)

(* An app gets its initial migration if it is named, or if its package has *)
(* no migration file yet; the others are left out.                         *)
AskInitial(a, labels) == a \in labels \/ (a \in packages /\ InApp(DOMAIN files, a) = {})

LeftOut(l, a, labels) == ~HasLeaf(l, a) /\ ~AskInitial(a, labels)

Arranged(l, made, a, i, labels, fragment) ==
    LET named(d) == IF "new" \notin DOMAIN d THEN d
                    ELSE At(d.app, IF LeftOut(l, d.app, labels) THEN First ELSE NewName(l, d.app, d.new, fragment))
        own == IF i > 1 THEN {At(a, NewName(l, a, i - 1, fragment))}
               ELSE IF HasLeaf(l, a) THEN {Leaf(l, a)} ELSE {}
    IN  Migration(SetToSeq({named(d) : d \in made[a][i].deps} \cup own), made[a][i].ops)

(* trimChangesToApps.  What the apps left out would need does not count:   *)
(* ArrangeForGraph has taken their migrations away.                        *)
Required(l, made, labels) ==
    LET needs(a) == IF LeftOut(l, a, labels) THEN {} ELSE UNION {m.deps : m \in ToSet(made[a])}
        needed(S) == S \cup {d.app : d \in UNION {needs(a) : a \in S}}
        grown[n \in 0..Cardinality(App)] == IF n = 0 THEN labels ELSE needed(grown[n - 1])
    IN  IF labels = {} THEN App ELSE grown[Cardinality(App)]

(* The apps in the order in which they got their first migration.          *)
Order(b, kept) == SelectSeq(b.order, LAMBDA a : a \in kept)

(* ChangesFor: [migs, order].                                              *)
ChangesFor(l, labels, fragment) ==
    LET b    == BuildMigrationList(l, Missing(l, labels))
        kept == {a \in Required(l, b.migs, labels) : ~LeftOut(l, a, labels)}
    IN  [migs  |-> [a \in App |-> IF a \notin kept THEN <<>> ELSE
                      [i \in DOMAIN b.migs[a] |-> [key |-> At(a, NewName(l, a, i, fragment)),
                                                   mig |-> Arranged(l, b.migs, a, i, labels, fragment)]]],
         order |-> Order(b, kept)]

-----------------------------------------------------------------------------
(* makemigrations.  The history is checked against the database, if that   *)
(* can be reached; a conflict in another app than the named ones is none.  *)

HistoryFails(l, online) == online /\ ~ConsistentHistory(Project, l.graph, rows)

ConflictsIn(l, labels) ==
    {a \in Conflicts(l.graph) : labels = {} \/ a \in labels}

NeedsManualPorting(k, m) == \E c \in m.calls : c # k

(* Mutant: the apps in alphabetical order.                                 *)
WritesOfSorted(changes, order) ==
    LET app(a) == Ensure(a) \o [i \in DOMAIN changes[a] |-> Write(changes[a][i].key, changes[a][i].mig)]
    IN  FlattenSeq([i \in DOMAIN order |-> app(InOrder(ToSet(order))[i])])

(* writeMigrationFiles: app after app, the package before its first file.  *)
WritesOf(changes, order) ==
    LET write(c) == << Write(c.key, c.mig) >>
        app(a)   == Ensure(a) \o FlattenSeq([i \in DOMAIN changes[a] |-> write(changes[a][i])])
    IN  FlattenSeq([i \in DOMAIN order |-> app(order[i])])

(* An app gets its first migration after one of another app was told to    *)
(* wait for whatever comes first there: its own depends on that app's leaf, *)
(* not on the migration that has what it needs.                            *)
ConvertsLate(l, c) ==
    \E a \in App : /\ c.migs[a] # <<>> /\ ~HasLeaf(l, a)
                   /\ \E k \in l.graph.nodes, d \in ToSet(c.migs[a][1].mig.deps) :
                        At(a, First) \in ToSet(Mig(k).deps) /\ d.app = k.app

Make(l, labels, fragment, online) ==
    /\ ~HistoryFails(l, online) /\ ConflictsIn(l, labels) = {}
    /\ \E c \in {ChangesFor(l, labels, fragment)} :
         /\ c.order # <<>>
         /\ "ConvertsLate" \in Avoided => ~ConvertsLate(l, c)
         /\ Start("make", IF labels = {} THEN Project.migrated ELSE labels,
                  WritesOf(c.migs, c.order), \E a \in App : Len(c.migs[a]) > 1)

(* --empty: one migration for each named app.                              *)
Empty(l, a, fragment, online) ==
    /\ ~HistoryFails(l, online) /\ ConflictsIn(l, {a}) = {}
    /\ LET deps == IF HasLeaf(l, a) THEN << Leaf(l, a) >> ELSE <<>>
       IN  Start("empty", {a}, Ensure(a) \o
                 << Write(At(a, NewName(l, a, 1, fragment)), Migration(deps, {})) >>, FALSE)

-----------------------------------------------------------------------------
(* --update: writeToLastMigrationFiles.  It loads again, with the rows, if *)
(* there is a database to read them from.                                  *)

(* Mutant: rows do not matter.                                             *)
UpdateFailsUnread(u, a) ==
    \/ ~HasLeaf(u, a)
    \/ Mig(Leaf(u, a)).replaces # <<>>
    \/ \E k \in DOMAIN built.files : Leaf(u, a) \in ToSet(Mig(k).deps)

UpdateFails(u, a) ==
    \/ ~HasLeaf(u, a)
    \/ Mig(Leaf(u, a)).replaces # <<>>
    \/ Leaf(u, a) \in u.applied
    \/ \E k \in DOMAIN built.files : Leaf(u, a) \in ToSet(Mig(k).deps)

UpdatedName(name, fragment) ==
    IF name = Name(Lead(name), fragment) THEN Updated(name) ELSE Name(Lead(name), fragment)

UpdatedLeaf(u, c, a) ==
    LET leaf == Mig(Leaf(u, a))
        new  == [i \in DOMAIN c.migs[a] |-> c.migs[a][i].mig]
        elsewhere(m) == SelectSeq(m.deps, LAMBDA d : d.app # a)
    IN  [leaf EXCEPT !.ops = @ \cup UNION {m.ops : m \in ToSet(new)},
                     !.deps = @ \o FlattenSeq([i \in DOMAIN new |-> elsewhere(new[i])]),
                     !.folded = TRUE]

(* Mutant: the previous file goes, whatever functions it holds.            *)
UpdateWritesRemoves(u, c, fragment) ==
    LET app(a) == Ensure(a) \o << Write(At(a, UpdatedName(Leaf(u, a).name, fragment)), UpdatedLeaf(u, c, a)),
                                  DoRemove(Leaf(u, a)) >>
    IN  FlattenSeq([i \in DOMAIN c.order |-> app(c.order[i])])

UpdateWrites(u, c, fragment) ==
    LET app(a) ==
          LET old == Leaf(u, a)
              k   == At(a, UpdatedName(old.name, fragment))
              m   == UpdatedLeaf(u, c, a)
          IN  Ensure(a) \o << Write(k, m) >>
                \o (IF NeedsManualPorting(k, m) THEN <<>> ELSE << DoRemove(old) >>)
    IN  FlattenSeq([i \in DOMAIN c.order |-> app(c.order[i])])

(* The dependencies of the changes on apps that are updated along with     *)
(* them are kept as they were arranged; those files are never written, or  *)
(* are removed by this very command.                                       *)
UpdatesTogether(u, c) ==
    \E a \in ToSet(c.order) : \E d \in ToSet(UpdatedLeaf(u, c, a).deps) :
        d.app \in ToSet(c.order) \ {a} /\ d \notin DOMAIN files \ {Leaf(u, b) : b \in ToSet(c.order)}

(* Without a database nothing is known to be applied.                      *)
UpdatesOffline(u, c, online) ==
    ~online /\ \E a \in ToSet(c.order) : HasLeaf(u, a) /\ Leaf(u, a) \in rows

(* Other files call a function of the one that is removed.                 *)
OwnsFunction(k) == k \in DOMAIN files /\ files[k].fn /\ Mig(k).calls = {}

Update(l, labels, fragment, online) ==
    /\ ~HistoryFails(l, online) /\ ConflictsIn(l, labels) = {}
    /\ \E u \in {Loaded(IF online THEN rows ELSE {}, FALSE)} :
         /\ u.error = "none"
         /\ \E c \in {ChangesFor(l, labels, fragment)} :
              /\ c.order # <<>> /\ \A a \in ToSet(c.order) : ~UpdateFails(u, a)
              /\ "UpdatesTogether" \in Avoided => ~UpdatesTogether(u, c)
              /\ "UpdatesOffline" \in Avoided => ~UpdatesOffline(u, c, online)
              /\ "LosesFunctions" \in Avoided => ~\E a \in ToSet(c.order) : OwnsFunction(Leaf(u, a))
              /\ Start("make", IF labels = {} THEN Project.migrated ELSE labels,
                       UpdateWrites(u, c, fragment), FALSE)

-----------------------------------------------------------------------------
(* --merge: handleMerge.                                                   *)

Ancestry(l, k) == SelectSeq(ForwardsPlan(l.graph, k), LAMBDA j : j.app = k.app)

(* How many migrations the branches have in common.                        *)
Common(branches) ==
    LET same(i) == \A b \in ToSet(branches) : Len(b) >= i /\ b[i] = branches[1][i]
    IN  CHOOSE n \in 0..Len(branches[1]) :
            /\ \A i \in 1..n : same(i)
            /\ n < Len(branches[1]) => ~same(n + 1)

(* The operations printed for each branch, which the user looks at before  *)
(* agreeing.                                                               *)
BranchOps(branches) ==
    LET new(b) == ToSet(SubSeq(b, Common(branches) + 1, Len(b)))
    IN  [i \in DOMAIN branches |-> UNION {Mig(k).ops : k \in new(branches[i])}]

(* Mutant: the last leaf is forgotten.                                     *)
MergeOfFew(l, a, fragment) ==
    LET leaves == LeafNodes(l.graph, {a})
        number == Max({ParseNumber(k.name) : k \in ToSet(leaves)}) + 1
    IN  Write(At(a, Name(number, fragment)), Migration(Front(leaves), {}))

MergeOf(l, a, fragment) ==
    LET leaves == LeafNodes(l.graph, {a})
        number == Max({ParseNumber(k.name) : k \in ToSet(leaves)}) + 1
    IN  Write(At(a, Name(number, fragment)), Migration(leaves, {}))

(* App by app, with a question for each; the first app whose branches have *)
(* no common ancestor ends the command, after what is written by then.     *)
Merge(l, labels, fragment, online) ==
    /\ ~HistoryFails(l, online)
    /\ LET apps == InOrder(ConflictsIn(l, labels))
           branches(a) == [i \in DOMAIN LeafNodes(l.graph, {a}) |-> Ancestry(l, LeafNodes(l.graph, {a})[i])]
           apart(a) == \A i, j \in DOMAIN branches(a) :
                           i # j => BranchOps(branches(a))[i] \cap BranchOps(branches(a))[j] = {}
           reached == {apps[i] : i \in {n \in DOMAIN apps :
                                           \A j \in 1..n : Common(branches(apps[j])) > 0}}
       IN  \E agreed \in SUBSET {a \in reached : apart(a)} :
             /\ agreed # {}
             /\ LET merged == InOrder(agreed)
                IN  Start("merge", agreed, [i \in DOMAIN merged |-> MergeOf(l, merged[i], fragment)], FALSE)

-----------------------------------------------------------------------------
(* squashmigrations app [start] migration.                                 *)

NoStart(k) == At(k.app, First)

ToSquash(l, from, k) ==
    LET all == Ancestry(l, k)
    IN  IF from = NoStart(k) THEN all
        ELSE SubSeq(all, CHOOSE i \in DOMAIN all : all[i] = from, Len(all))

(* The dependencies on other apps, and all of the first one's.             *)
SquashedDeps(squash) ==
    LET deps(i) == SelectSeq(Mig(squash[i]).deps, LAMBDA d : d.app # squash[i].app \/ i = 1)
    IN  FlattenSeq([i \in DOMAIN squash |-> deps(i)])

SquashOf(squash) ==
    [Migration(SquashedDeps(squash), UNION {Mig(k).ops : k \in ToSet(squash)}) EXCEPT
        !.replaces = squash, !.calls = UNION {Mig(k).calls : k \in ToSet(squash)}]

(* named: --squashed-name was given, with this fragment.                   *)
SquashedName(from, k, named, fragment) ==
    IF from = NoStart(k)
      THEN IF named THEN Name(1, fragment) ELSE Squashed(1, 9, k.name)
      ELSE IF named THEN Name(Lead(from.name), fragment)
           ELSE Squashed(Lead(from.name), 1 + Plain(from.name), k.name)

(* A migration of another app lies between two of those that are squashed. *)
SquashesAcross(l, squash) ==
    \E k \in ToSet(squash) : \E d \in Reach(l.graph, k, TRUE) :
        d \notin ToSet(squash) /\ Reach(l.graph, d, TRUE) \cap ToSet(squash) # {}

(* A name without "_squashed_" gives the numbers that follow a second time. *)
ReusesNumber(squash, named) == named /\ Len(squash) > 1

Squash(l, from, k, named, fragment) ==
    /\ Cardinality({j \in DOMAIN files : files[j].replaces # <<>>}) < MaxSquashes
    /\ from = NoStart(k) \/ from \in ToSet(Ancestry(l, k))
    /\ LET squash == ToSquash(l, from, k)
           key    == At(k.app, SquashedName(from, k, named, fragment))
       IN  /\ key \notin DOMAIN files
           /\ "SquashesAcross" \in Avoided => ~SquashesAcross(l, squash)
           /\ "ReusesNumber" \in Avoided => ~ReusesNumber(squash, named)
           /\ Start("squash", {k.app}, << Write(key, SquashOf(squash)) >>, FALSE)

-----------------------------------------------------------------------------
(* optimizemigration.  What is written names functions and defines none.   *)

OptimizedWrite(k) ==
    LET m    == [Mig(k) EXCEPT !.folded = TRUE]
        copy == [m EXCEPT !.before = <<>>, !.replaces = << k >>]
    IN  IF NeedsManualPorting(k, m) THEN Write(At(k.app, Optimized(k.name)), copy) ELSE Write(k, m)

(* The file is written over, with the functions it defines.                *)
LosesFunctions(k) == k \in DOMAIN files /\ files[k].fn /\ ~NeedsManualPorting(k, Mig(k))

Optimize(k) ==
    /\ ~Mig(k).folded
    /\ NeedsManualPorting(k, Mig(k)) => Mig(k).replaces = <<>>
    /\ "LosesFunctions" \in Avoided => ~LosesFunctions(k)
    /\ Start("optimize", {k.app}, << OptimizedWrite(k) >>, FALSE)

-----------------------------------------------------------------------------
(* A write reaches the disk, or the command is cut short.                  *)

PackageFile(w) ==
    /\ w.do = "package"
    /\ packages' = packages \cup {w.key.app}
    /\ UNCHANGED <<link, files>>

(* The link file imports the packages there are by then.                   *)
LinkFile(w) ==
    /\ w.do = "link"
    /\ link' = packages
    /\ UNCHANGED <<packages, files>>

MigrationFile(w) ==
    /\ w.do = "write"
    /\ files' = [k \in DOMAIN files \cup {w.key} |-> IF k = w.key THEN w.mig ELSE files[k]]
    /\ UNCHANGED <<packages, link>>

RemoveFile(w) ==
    /\ w.do = "remove"
    /\ files' = [k \in DOMAIN files \ {w.key} |-> files[k]]
    /\ UNCHANGED <<packages, link>>

WriteNext ==
    /\ todo # <<>>
    /\ \/ PackageFile(Head(todo)) \/ LinkFile(Head(todo))
       \/ MigrationFile(Head(todo)) \/ RemoveFile(Head(todo))
    /\ todo' = Tail(todo)
    /\ UNCHANGED <<models, built, rows, schema, last, commands>>

(* The previous file of --update is still there, next to the new one.      *)
LeavesBoth == Head(todo).do = "remove"

Interrupt ==
    /\ todo # <<>>
    /\ "LeavesBoth" \in Avoided => ~LeavesBoth
    /\ "SplitsApp" \in Avoided => ~last.split
    /\ todo' = <<>> /\ last' = Nothing
    /\ UNCHANGED <<models, packages, link, files, built, rows, schema, commands>>

-----------------------------------------------------------------------------
(* The developer, as long as there is a command to come.                   *)

Editing == todo = <<>> /\ commands < MaxCommands

Declare(f) ==
    /\ Editing /\ f \in (Feature \ Pulled) \ models /\ Needs[f] \subseteq models
    /\ models' = models \cup {f}
    /\ last' = Nothing
    /\ UNCHANGED <<packages, link, files, built, rows, schema, todo, commands>>

(* A colleague's migration, made when k was the leaf, with its models.     *)
Pull(f, k) ==
    /\ Editing /\ f \in Pulled \ models
    /\ k \in DOMAIN files /\ k.app = AppOf[f] /\ files[k].replaces = <<>>
    /\ LET key == At(k.app, Name(ParseNumber(k.name) + 1, 3))
           m   == [Migration(<< k >>, {f}) EXCEPT !.folded = FALSE]
       IN  files' = [j \in DOMAIN files \cup {key} |-> IF j = key THEN m ELSE files[j]]
    /\ models' = models \cup {f}
    /\ last' = Nothing
    /\ UNCHANGED <<packages, link, built, rows, schema, todo, commands>>

(* A build does not show that a file has been edited since.                *)
EditsUnbuilt(k) == k \in DOMAIN built.files

(* An empty migration is filled in by hand: its operations call a function *)
(* written into that file or into another one.                             *)
Fill(k, c) ==
    /\ Editing /\ {k, c} \subseteq DOMAIN files /\ k.app = c.app
    /\ files[k].ops = {} /\ Len(files[k].deps) <= 1 /\ files[k].folded
    /\ \A j \in DOMAIN files : Hand \notin files[j].ops
    /\ "EditsUnbuilt" \in Avoided => ~EditsUnbuilt(k)
    /\ files' = [files EXCEPT ![k].ops = {Hand}, ![k].calls = {c}, ![k].folded = FALSE, ![c].fn = TRUE]
    /\ last' = Nothing
    /\ UNCHANGED <<models, packages, link, built, rows, schema, todo, commands>>

(* What the message of --update asks for: the functions are moved and the  *)
(* previous file is deleted, after the last command too.                   *)
Port(k, old) ==
    /\ todo = <<>> /\ {k, old} \subseteq DOMAIN files
    /\ files[k].calls = {old} /\ k # old /\ files[k].replaces = <<>>
    /\ files[k].ops \cap files[old].ops # {}
    /\ \A j \in DOMAIN files \ {k, old} : old \notin ToSet(files[j].deps) /\ old \notin files[j].calls
    /\ files' = [j \in DOMAIN files \ {old} |->
                    IF j = k THEN [files[k] EXCEPT !.calls = {k}, !.fn = TRUE] ELSE files[j]]
    /\ last' = Nothing
    /\ UNCHANGED <<models, packages, link, built, rows, schema, todo, commands>>

-----------------------------------------------------------------------------
(* migrate, to the leaves, in one step.                                    *)

RecordsOf(k) ==
    LET records[x \in Key] ==
            {x} \cup (IF x \in Replacements(Project)
                        THEN UNION {records[r] : r \in ToSet(Mig(x).replaces)} ELSE {})
    IN  records[k]

Migrate ==
    /\ todo = <<>>
    /\ \E l \in {Loaded(rows, FALSE)} :
         /\ l.error = "none" /\ Conflicts(l.graph) = {}
         /\ ConsistentHistory(Project, l.graph, rows)
         /\ \E plan \in {l.graph.nodes \ l.applied} :
              /\ plan # {}
              /\ rows' = LET ran == rows \cup UNION {RecordsOf(k) : k \in plan}
                         IN  ran \cup {k \in Replacements(Project) : AllReplacedApplied(Project, k, ran)}
              /\ schema' = [f \in DOMAIN schema |->
                              schema[f] + Cardinality({k \in plan : f \in Mig(k).ops})]
    /\ UNCHANGED <<models, packages, link, files, built, todo, last, commands>>

-----------------------------------------------------------------------------
Init ==
    /\ \E p \in Projects :
         /\ models = p.models /\ packages = p.packages /\ files = p.files
         /\ link = p.packages
         /\ built = [packages |-> p.packages, files |-> p.files]
    /\ rows = {} /\ schema = [f \in Feature \cup {Hand} |-> 0]
    /\ todo = <<>> /\ last = Nothing /\ commands = 0

Labels == {{}} \cup {{a} : a \in App}

(* Each command loads first.                                               *)
MakeCommand ==
    /\ Idle
    /\ \E l \in {Loaded({}, TRUE)} :
         /\ l.error = "none"
         /\ \E fragment \in Fragment, online \in BOOLEAN :
              \/ \E labels \in Labels : Make(l, labels, fragment, online)
              \/ \E labels \in Labels : Update(l, labels, fragment, online)
              \/ \E labels \in Labels : Merge(l, labels, fragment, online)
              \/ \E a \in App : Empty(l, a, fragment, online)

RewriteCommand ==
    /\ Idle
    /\ \E l \in {Loaded({}, FALSE)} :
         /\ l.error = "none"
         /\ \/ \E k \in l.graph.nodes, fragment \in Fragment, named \in BOOLEAN :
                 \E from \in {NoStart(k)} \cup InApp(l.graph.nodes, k.app) :
                     Squash(l, from, k, named, fragment)
            \/ \E k \in DOMAIN built.files : Optimize(k)

Next ==
    \/ MakeCommand \/ RewriteCommand
    \/ WriteNext \/ Interrupt
    \/ \E f \in Feature : Declare(f)
    \/ \E f \in Feature, k \in DOMAIN files : Pull(f, k)
    \/ \E k, c \in DOMAIN files : Fill(k, c)
    \/ \E k, old \in DOMAIN files : Port(k, old)
    \/ Build \/ Migrate

Spec == Init /\ [][Next]_vars

-----------------------------------------------------------------------------
Settled == todo = <<>> /\ UpToDate

(* Whatever the commands wrote, and wherever one of them was cut short,    *)
(* the next build loads, and makemigrations can go on: no migration waits  *)
(* for one that is not there, and none for itself.  The other commands     *)
(* load it too, unless an app was left with a package and no migration.    *)
AlwaysLoads ==
    Settled => /\ Loaded({}, TRUE).error = "none"
               /\ Bare = {} => Loaded(rows, FALSE).error = "none"

(* A command leaves a package that compiles: every function its operations *)
(* name is still defined in some file (NeedsManualPorting).                *)
AlwaysCompiles == todo = <<>> => Compiles

(* The work of a feature is done once in a database, however its migration *)
(* was updated, squashed, optimized or merged in between.                  *)
NeverTwice == \A f \in DOMAIN schema : schema[f] <= 1

(* A command has done what it is for: after makemigrations the same apps   *)
(* have no change left to write, after --merge they have one leaf.         *)
Accomplishes ==
    Settled /\ Loaded({}, TRUE).error = "none" =>
        /\ last.cmd = "make" => \A f \in Missing(Loaded({}, TRUE), {}) : AppOf[f] \notin last.apps
        /\ last.cmd = "merge" => Conflicts(Loaded({}, TRUE).graph) \cap last.apps = {}

(* No command changes what a migration that already has a file does; only  *)
(* the developer does (numbers are not given twice, --update renames).     *)
NothingRewritten ==
    [][\A k \in DOMAIN files \cap DOMAIN files' : files'[k].ops # files[k].ops => todo = <<>>]_vars

(* A stale binary does not migrate a history that is not the one on disk:  *)
(* what it runs is what the files say (checkDisk).                         *)
MigratesFiles ==
    [][rows' # rows => /\ DOMAIN built.files = DOMAIN files
                       /\ \A k \in DOMAIN files : built.files[k].ops = files[k].ops]_vars
=============================================================================
