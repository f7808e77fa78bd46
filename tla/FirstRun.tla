------------------------------ MODULE FirstRun ------------------------------
(***************************************************************************)
(* Several migrate commands start on one database at once, with or without *)
(* --fake-initial: the project is loaded, Executor.MigrateTo makes the     *)
(* migrations table, runs what was planned from the rows read before, and  *)
(* CheckReplacements adds the rows of squashed migrations.  Everything is  *)
(* looked up first and done later, and the others are at work in between.  *)
(*                                                                         *)
(* Migrations are numbered in the order of the full plan.  Running one is  *)
(* a series of statements, each making one object, then the deferred ones; *)
(* where DDL can be rolled back they are in one transaction, and whoever   *)
(* touches the same object waits.  MigrationRunner has the rest.           *)
(***************************************************************************)
EXTENDS Naturals, Sequences, FiniteSets, SequencesExt

CONSTANTS
    Proc,
    Askings,        \* what the commands may be given, together: the migrations
                    \* each is asked for (all, or an app's), and which of them
                    \* have --fake-initial and --run-syncdb
    Unmigrated,     \* the tables of apps without migrations, in their order
    Mig, Squash,    \* the migrations of the plan; squashed ones without a row
    Replaces,       \* Replaces[s]: what a squashed migration replaces
    Statements, Deferred,
    Looked,         \* Looked[k]: the tables and columns DetectSoftApplied looks
                    \* for; empty unless k is initial
    Starts,         \* the states of the database to start from
    MaxFaults

Whole(k) == ToSet(Statements[k]) \cup ToSet(Deferred[k])

(* The statements of a migration in the order in which they are executed.  *)
Line(k) == Statements[k] \o Deferred[k]

Things == (UNION {Whole(k) : k \in Mig}) \cup ToSet(Unmigrated)

(* A plan goes by the numbers.                                             *)
Sorted(S) == SetToSortSeq(S, <)

(* The tables of Unmigrated that are not among the tables S there are.     *)
Missing(S) == SelectSeq(Unmigrated, LAMBDA t : t \notin S)

ASSUME FirstRunAssumption ==
    /\ Proc # {} /\ MaxFaults \in Nat
    /\ Mig \subseteq Nat /\ Squash \subseteq Nat /\ Mig \cap Squash = {}
    /\ Askings \subseteq [asked : [Proc -> SUBSET Mig], soft : SUBSET Proc, syncs : SUBSET Proc]
    /\ Starts \subseteq [objects : SUBSET Things, table : BOOLEAN, rows : SUBSET (Mig \cup Squash)]
    /\ Unmigrated \in Seq(ToSet(Unmigrated))
    /\ \A k \in Mig : /\ Statements[k] \in Seq(Whole(k)) /\ Deferred[k] \in Seq(Whole(k))
                     /\ Looked[k] \subseteq ToSet(Statements[k])
    /\ \A s \in Squash : Replaces[s] \subseteq Mig

Once(v) == \A i, j \in DOMAIN v : v[i] = v[j] => i = j

(* An object has one statement that makes it.                              *)
ASSUME ObjectsAssumption ==
    /\ Once(Unmigrated)
    /\ \A k \in Mig : Once(Line(k)) /\ Whole(k) \cap ToSet(Unmigrated) = {}
    /\ \A j, k \in Mig : j # k => Whole(j) \cap Whole(k) = {}

(* The database at the start is the work of commands that came to an end,  *)
(* or has the tables of an initial migration whole or not at all, as       *)
(* --fake-initial expects them.                                            *)
ASSUME StartAssumption ==
    \A s \in Starts :
        /\ s.rows # {} => s.table
        /\ \A k \in Mig : k \in s.rows \/ (Looked[k] # {} /\ Looked[k] \subseteq s.objects)
                              => Whole(k) \subseteq s.objects
        /\ \A k \in Squash \cap s.rows : Replaces[k] \subseteq s.rows

(* A sorted set has its elements, in their order; so has a selection.      *)
ASSUME OrderAssumption ==
    /\ \A S \in SUBSET (Mig \cup Squash) :
         /\ Sorted(S) \in Seq(S) /\ ToSet(Sorted(S)) = S
         /\ \A i, j \in DOMAIN Sorted(S) : i < j => Sorted(S)[i] < Sorted(S)[j]
    /\ \A S \in SUBSET Things :
         /\ Missing(S) \in Seq(ToSet(Unmigrated)) /\ ToSet(Missing(S)) = ToSet(Unmigrated) \ S
         /\ \A i, j \in DOMAIN Missing(S), m, n \in DOMAIN Unmigrated :
              i < j /\ Missing(S)[i] = Unmigrated[m] /\ Missing(S)[j] = Unmigrated[n] => m < n

VARIABLES
    rollback,   \* CanRollbackDDL of the backend
    asked,
    soft,       \* the commands given --fake-initial
    syncs,      \* the commands given --run-syncdb
    table,      \* whether the migrations table is there
    rows,       \* how many rows a migration has
    objects,    \* what the schema holds, as far as it is committed
    run,        \* run[p]: how far command p is
    faults,
    start       \* what was there at the start, for the properties

vars == <<rollback, asked, soft, syncs, table, rows, objects, run, faults, start>>

NotStarted == [pc |-> "load", plan |-> <<>>, todo |-> <<>>,
               made |-> {}, has |-> FALSE, seen |-> {}]

Init ==
    /\ rollback \in BOOLEAN
    /\ \E a \in Askings : asked = a.asked /\ soft = a.soft /\ syncs = a.syncs
    /\ \E s \in Starts :
         /\ objects = s.objects /\ table = s.table /\ start = s
         /\ rows = [k \in Mig \cup Squash |-> IF k \in s.rows THEN 1 ELSE 0]
    /\ run = [p \in Proc |-> NotStarted]
    /\ faults = 0

Become(p, r) == run' = [run EXCEPT ![p] = r]

Recorded == {k \in Mig \cup Squash : rows[k] > 0}

-----------------------------------------------------------------------------
(* The loader reads the rows, and the plan is made.  HasTable keeps a      *)
(* positive answer.                                                        *)
MigrateTo(r) == [r EXCEPT !.has = r.has \/ table,
                          !.pc = IF r.plan # <<>> THEN "ensure" ELSE IF r.has \/ table THEN "read" ELSE "ok"]

Load(p) ==
    /\ run[p].pc = "load"
    /\ \E plan \in {Sorted(asked[p] \ Recorded)} :
         \E r \in {[run[p] EXCEPT !.plan = plan, !.has = table]} :
             Become(p, IF p \in syncs THEN [r EXCEPT !.pc = "sync"] ELSE MigrateTo(r))
    /\ UNCHANGED <<rollback, asked, soft, syncs, table, rows, objects, faults, start>>

(* syncApps: the tables there are looked up, and the missing ones created, *)
(* in a transaction of their own where that is possible.                   *)
syncApps(p) ==
    /\ run[p].pc = "sync"
    /\ Become(p, [run[p] EXCEPT !.pc = "syncing", !.todo = Missing(objects)])
    /\ UNCHANGED <<rollback, asked, soft, syncs, table, rows, objects, faults, start>>

Synced(p) ==
    /\ run[p].pc = "syncing" /\ run[p].todo = <<>>
    /\ objects' = objects \cup run[p].made
    /\ Become(p, MigrateTo([run[p] EXCEPT !.made = {}]))
    /\ UNCHANGED <<rollback, asked, soft, syncs, table, rows, faults, start>>

(* Mutant: the table is always created.                                    *)
FindTableNever(p) ==
    /\ run[p].pc = "ensure"
    /\ Become(p, [run[p] EXCEPT !.pc = "create"])
    /\ UNCHANGED <<rollback, asked, soft, syncs, table, rows, objects, faults, start>>

(* EnsureSchema: look for the table, then create it.                       *)
FindTable(p) ==
    /\ run[p].pc = "ensure"
    /\ Become(p, [run[p] EXCEPT !.has = run[p].has \/ table,
                                !.pc = IF run[p].has \/ table THEN "next" ELSE "create"])
    /\ UNCHANGED <<rollback, asked, soft, syncs, table, rows, objects, faults, start>>

CreateTable(p) ==
    /\ run[p].pc = "create" /\ ~table
    /\ table' = TRUE
    /\ Become(p, [run[p] EXCEPT !.pc = "next", !.has = TRUE])
    /\ UNCHANGED <<rollback, asked, soft, syncs, rows, objects, faults, start>>

-----------------------------------------------------------------------------
(* migrateAllForwards and ApplyMigration.                                  *)

(* Mutant: any of the objects will do.                                     *)
AnyOf(k) == Looked[k] \cap objects # {}

(* DetectSoftApplied: the tables and columns of an initial migration.      *)
DetectSoftApplied(k) == Looked[k] # {} /\ Looked[k] \subseteq objects

NextMigration(p) ==
    /\ run[p].pc = "next" /\ run[p].plan # <<>>
    /\ LET k == Head(run[p].plan)
       IN  Become(p, IF p \in soft /\ DetectSoftApplied(k)
                       THEN [run[p] EXCEPT !.pc = "record"]
                       ELSE [run[p] EXCEPT !.pc = "apply", !.todo = Statements[k]])
    /\ UNCHANGED <<rollback, asked, soft, syncs, table, rows, objects, faults, start>>

Held(p, e) == \E q \in Proc \ {p} : e \in run[q].made

(* One statement, within the transaction or on its own.                    *)
Makes(p, e) ==
    /\ ~Held(p, e) /\ e \notin objects \cup run[p].made
    /\ Become(p, [run[p] EXCEPT !.todo = Tail(run[p].todo),
                                !.made = IF rollback THEN run[p].made \cup {e} ELSE run[p].made])
    /\ objects' = IF rollback THEN objects ELSE objects \cup {e}

Execute(p) ==
    /\ run[p].pc \in {"syncing", "apply", "finish"} /\ run[p].todo # <<>>
    /\ Makes(p, Head(run[p].todo))
    /\ UNCHANGED <<rollback, asked, soft, syncs, table, rows, faults, start>>

(* With nothing deferred the row is written before the commit.             *)
RecordsInside(k) == Deferred[k] = <<>>

(* Finish: the deferred statements.                                        *)
Finish(p) ==
    /\ run[p].pc = "apply" /\ run[p].todo = <<>>
    /\ Become(p, [run[p] EXCEPT !.pc = "finish", !.todo = Deferred[Head(run[p].plan)]])
    /\ UNCHANGED <<rollback, asked, soft, syncs, table, rows, objects, faults, start>>

Commit(p) ==
    /\ run[p].pc = "finish" /\ run[p].todo = <<>>
    /\ LET k == Head(run[p].plan)
       IN  /\ objects' = objects \cup run[p].made
           /\ rows' = IF RecordsInside(k) THEN [rows EXCEPT ![k] = rows[k] + 1] ELSE rows
           /\ Become(p, IF RecordsInside(k)
                          THEN [run[p] EXCEPT !.made = {}, !.pc = "next", !.plan = Tail(run[p].plan)]
                          ELSE [run[p] EXCEPT !.made = {}, !.pc = "record"])
    /\ UNCHANGED <<rollback, asked, soft, syncs, table, faults, start>>

Record(p) ==
    /\ run[p].pc = "record"
    /\ rows' = [rows EXCEPT ![Head(run[p].plan)] = rows[Head(run[p].plan)] + 1]
    /\ Become(p, [run[p] EXCEPT !.pc = "next", !.plan = Tail(run[p].plan)])
    /\ UNCHANGED <<rollback, asked, soft, syncs, table, objects, faults, start>>

-----------------------------------------------------------------------------
(* CheckReplacements: the rows are read, then one is added for each        *)
(* squashed migration that is missing and whose originals are all there.   *)

EndPlan(p) ==
    /\ run[p].pc = "next" /\ run[p].plan = <<>>
    /\ Become(p, [run[p] EXCEPT !.pc = "read"])
    /\ UNCHANGED <<rollback, asked, soft, syncs, table, rows, objects, faults, start>>

(* One of which nothing was applied the loader has put in the place of     *)
(* what it replaces, and it is run and recorded as any other.              *)
Squashes == {s \in Squash : Replaces[s] \cap start.rows # {}}

(* Mutant: one of the originals is enough.                                 *)
ReplacedInPart(seen) == {s \in Squashes \ seen : Replaces[s] \cap seen # {}}

Unrecorded(seen) == {s \in Squashes \ seen : Replaces[s] \subseteq seen}

ReadRows(p) ==
    /\ run[p].pc = "read"
    /\ Become(p, [run[p] EXCEPT !.pc = "check", !.seen = Recorded])
    /\ UNCHANGED <<rollback, asked, soft, syncs, table, rows, objects, faults, start>>

RecordReplacement(p) ==
    /\ run[p].pc = "check" /\ Unrecorded(run[p].seen) # {}
    /\ LET s == Head(Sorted(Unrecorded(run[p].seen)))
       IN  /\ rows' = [rows EXCEPT ![s] = rows[s] + 1]
           /\ Become(p, [run[p] EXCEPT !.seen = run[p].seen \cup {s}])
    /\ UNCHANGED <<rollback, asked, soft, syncs, table, objects, faults, start>>

End(p) ==
    /\ run[p].pc = "check" /\ Unrecorded(run[p].seen) = {}
    /\ Become(p, [run[p] EXCEPT !.pc = "ok"])
    /\ UNCHANGED <<rollback, asked, soft, syncs, table, rows, objects, faults, start>>

-----------------------------------------------------------------------------
(* An error ends the command; an open transaction is rolled back.          *)

(* Mutant: the transaction stays open.                                     *)
StayOpen(p) == [run[p] EXCEPT !.pc = "failed"]

RolledBack(p) == [run[p] EXCEPT !.pc = "failed", !.made = {}]

(* The server refuses to create what is there.                             *)
Refused(p) ==
    /\ \/ run[p].pc = "create" /\ table
       \/ /\ run[p].pc \in {"syncing", "apply", "finish"} /\ run[p].todo # <<>>
          /\ Head(run[p].todo) \in objects
    /\ Become(p, RolledBack(p))
    /\ UNCHANGED <<rollback, asked, soft, syncs, table, rows, objects, faults, start>>

Fault(p) ==
    /\ run[p].pc \notin {"load", "ok", "failed"} /\ faults < MaxFaults
    /\ Become(p, RolledBack(p))
    /\ faults' = faults + 1
    /\ UNCHANGED <<rollback, asked, soft, syncs, table, rows, objects, start>>

Over == \A p \in Proc : run[p].pc \in {"ok", "failed"}

Step(p) ==
    \/ Load(p) \/ syncApps(p) \/ Synced(p) \/ FindTable(p) \/ CreateTable(p) \/ NextMigration(p) \/ Execute(p) \/ Finish(p)
    \/ Commit(p) \/ Record(p) \/ EndPlan(p) \/ ReadRows(p) \/ RecordReplacement(p) \/ End(p)
    \/ Refused(p)

Next == \E p \in Proc : Step(p) \/ Fault(p)

(* Each command is one goroutine that goes on; a server that makes one     *)
(* session wait for another wakes it when that one is done.                *)
Spec == Init /\ [][Next]_vars /\ \A p \in Proc : WF_vars(Step(p))

-----------------------------------------------------------------------------
(* A row means that the whole migration is there, deferred statements      *)
(* included, also when --fake-initial took it for applied while another    *)
(* command was in the middle of it.  Without transactions the tables of a  *)
(* migration are seen before it is finished; there it holds as long as no  *)
(* command is given --fake-initial.                                        *)
RecordedIsWhole ==
    rollback \/ soft = {} => \A k \in Mig : rows[k] > 0 => Whole(k) \subseteq objects

(* Commands that start at once on a database without tables get in each    *)
(* other's way, but never all of them: one is through at the end, and what *)
(* it was asked for is there.                                              *)
OneSucceeds ==
    Over /\ faults = 0 /\ start.objects = {} =>
        \E p \in Proc : /\ run[p].pc = "ok"
                        /\ \A k \in asked[p] : rows[k] > 0 /\ Whole(k) \subseteq objects
                        /\ p \in syncs => ToSet(Unmigrated) \subseteq objects

(* The row of a squashed migration is there only with those of all that it *)
(* replaces, and is there once a command got through that was asked for    *)
(* all of them.                                                            *)
SquashFollows ==
    \A s \in Squashes :
        /\ rows[s] > 0 => Replaces[s] \subseteq Recorded
        /\ (\E p \in Proc : run[p].pc = "ok" /\ Replaces[s] \subseteq asked[p]) => rows[s] > 0

(* However they wait for each other, every command comes to an end.        *)
AllEnd == \A p \in Proc : <>(run[p].pc \in {"ok", "failed"})
=============================================================================
