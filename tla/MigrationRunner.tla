--------------------------- MODULE MigrationRunner ---------------------------
(***************************************************************************)
(* Running one migration: Executor.ApplyMigration, UnapplyMigration and    *)
(* RecordMigration over Migration.Apply and Unapply, the schema editor's   *)
(* Begin, Execute, Defer and Finish, and the connection's transactions.    *)
(* Any number of commands run at once on one database, each on its own     *)
(* pinned connection, and any statement may fail or process die.           *)
(*                                                                         *)
(* A migration is the sequence of statements its operations send forwards; *)
(* backwards they are undone in reverse.  A statement brings one effect    *)
(* into the schema (or the data) and may queue others, the deferred SQL,   *)
(* for Finish.  Undoing a statement removes what it queued as well: the    *)
(* foreign keys and indexes go with their column or table.                 *)
(*                                                                         *)
(* The database is external: DDL that repeats an effect is refused, a      *)
(* transaction's changes are seen by others once it commits, another       *)
(* session that touches the same object waits for it, and a circle of      *)
(* sessions that wait is broken by failing the statement of one of them.   *)
(***************************************************************************)
EXTENDS Naturals, Sequences, FiniteSets, SequencesExt

CONSTANTS
    Mig, NoMig,           \* migrations, and none
    Effect,               \* what statements create
    Program,              \* Program[k]: the statements of k, forwards
    Records,              \* Records[k]: the keys RecordMigration writes for k
    AtomicMig,            \* the migrations with IsAtomic
    CanRollbackDDL,       \* backend features
    SupportsTransactions,
    Proc,                 \* concurrent commands
    Dirs,                 \* the directions in which they run migrations
    FakeAllowed,          \* whether some of them are given --fake
    MaxRuns,              \* bounds: migrations started,
    MaxFaults             \* statements that fail for outside reasons, deaths

(* op numbers the operation of a statement; atomic is op.Atomic(), with    *)
(* "nil" for the unset pointer; code statements come from a RunGo, which   *)
(* does not go through Editor.Execute.                                     *)
Stmt == [effect : Effect, op : Nat, kind : {"ddl", "code"}, later : Seq(Effect),
         atomic : {"true", "false", "nil"}, reversible : BOOLEAN]

(* What a statement, a list of statements and a migration bring about.     *)
Yields(s) == {s.effect} \cup ToSet(s.later)
AllOf(todo) == UNION {Yields(todo[i]) : i \in 1..Len(todo)}
Eff(k) == AllOf(Program[k])

ASSUME RunnerAssumption ==
    /\ NoMig \notin Mig
    /\ Program \in [Mig -> Seq(Stmt)]
    /\ Records \in [Mig -> Seq(Mig)]
    /\ AtomicMig \subseteq Mig
    /\ CanRollbackDDL \in BOOLEAN /\ SupportsTransactions \in BOOLEAN
    /\ Dirs \subseteq {"forwards", "backwards"}
    /\ FakeAllowed \in BOOLEAN
    /\ MaxRuns \in Nat /\ MaxFaults \in Nat

(* The loader takes a squashed migration for applied when all it replaces  *)
(* are, whatever its own row says.                                         *)
Read(k) == IF Records[k] = <<k>> THEN {k} ELSE ToSet(Records[k]) \ {k}

(* A squashed migration has the effects of what it replaces, and its row   *)
(* comes after theirs.                                                     *)
ASSUME SquashAssumption ==
    \A k \in Mig : /\ Records[k] # <<>> /\ Last(Records[k]) = k
                   /\ Eff(k) = UNION {Eff(j) : j \in Read(k)}

VARIABLES
    effects,   \* committed: the effects in the database
    rows,      \* committed: how many rows each key has in the migrations table
    run,       \* run[p]: the command p's progress with one migration
    runs, faults,
    torn,      \* history: the migrations, with the direction, a run left
               \* between schema and record
    faked      \* history: the migrations recorded or removed with --fake

vars == <<effects, rows, run, runs, faults, torn, faked>>

Idle == [pc |-> "idle", mig |-> NoMig, dir |-> "none", todo |-> <<>>,
         deferred |-> <<>>, tx |-> "none", add |-> {}, del |-> {}, ins |-> <<>>,
         recs |-> <<>>]

Init == /\ effects = {}
        /\ rows = [k \in Mig |-> 0]
        /\ run = [p \in Proc |-> Idle]
        /\ runs = 0 /\ faults = 0 /\ torn = {} /\ faked = {}

-----------------------------------------------------------------------------
(* The database as one session sees and changes it.                        *)

Visible(r) == (effects \ r.del) \cup r.add

InTx(r) == r.tx # "none"

(* Another session's open transaction has touched e.                       *)
Locked(p, e) == \E q \in Proc \ {p} : e \in run[q].add \cup run[q].del

(* What the next statement of p touches, and the sessions it waits for.    *)
Touches(p) ==
    CASE run[p].pc = "ops" /\ run[p].todo # <<>> -> Yields(Head(run[p].todo))
      [] run[p].pc = "finish" /\ run[p].deferred # <<>> -> {Head(run[p].deferred)}
      [] OTHER -> {}

WaitsFor(p) == {q \in Proc \ {p} : Touches(p) \cap (run[q].add \cup run[q].del) # {}}

(* p is among those that p waits for, directly or not.                     *)
Deadlocked(p) ==
    \A S \in SUBSET Proc :
        WaitsFor(p) \subseteq S /\ (\A q \in S : WaitsFor(q) \subseteq S) => p \in S

Insert(bag, keys) == [k \in Mig |-> bag[k] + Cardinality({i \in DOMAIN keys : keys[i] = k})]

(* The transaction of r is committed, or its changes never needed one.     *)
Committed(r) == [r EXCEPT !.tx = "none", !.add = {}, !.del = {}, !.ins = <<>>]

CommitInto(r) == /\ effects' = Visible(r)
                 /\ rows' = Insert(rows, r.ins)

(* A change of r made inside its transaction, or else at once.             *)
Changed(p, r) ==
    IF InTx(r) THEN run' = [run EXCEPT ![p] = r] /\ UNCHANGED <<effects, rows>>
    ELSE run' = [run EXCEPT ![p] = Committed(r)] /\ CommitInto(r)

(* A server that cannot roll DDL back commits on meeting it.               *)
ImplicitCommit(r, s) == IF s.kind = "ddl" /\ ~CanRollbackDDL
                          THEN [r EXCEPT !.tx = "none"] ELSE r

-----------------------------------------------------------------------------
(* Starting.  The executor's plan says forwards when no row was read for   *)
(* the migration or for what it replaces, and backwards when all were; the *)
(* rows may change before the run begins.                                  *)

ReadApplied(k) == \A j \in Read(k) : rows[j] > 0

(* RecordMigration: what is replaced first, the migration itself last.     *)
OwnRowFirst(k) == Reverse(Records[k])
RowsToWrite(k) == Records[k]

Statements(k, dir) == IF dir = "forwards" THEN Program[k] ELSE Reverse(Program[k])

Plan(p) ==
    /\ run[p].pc = "idle" /\ runs < MaxRuns
    /\ \E k \in Mig, dir \in Dirs :
         /\ \A j \in Read(k) : (rows[j] > 0) = (dir = "backwards")
         /\ run' = [run EXCEPT ![p] = [Idle EXCEPT !.pc = "begin", !.mig = k,
                        !.dir = dir, !.todo = Statements(k, dir), !.recs = RowsToWrite(k)]]
    /\ runs' = runs + 1
    /\ UNCHANGED <<effects, rows, faults, torn, faked>>

(* NewEditor and Begin.                                                    *)
AtomicMigration(k) == CanRollbackDDL /\ k \in AtomicMig

(* Unapply looks at every operation before it runs the first.              *)
Irreversible(r) == /\ r.dir = "backwards"
                   /\ \E i \in 1..Len(r.todo) : ~r.todo[i].reversible

BeginNoTx(p) ==
    /\ run[p].pc = "begin" /\ ~Irreversible(run[p])
    /\ run' = [run EXCEPT ![p].pc = "ops"]
    /\ UNCHANGED <<effects, rows, runs, faults, torn, faked>>

Begin(p) ==
    /\ run[p].pc = "begin" /\ ~Irreversible(run[p])
    /\ run' = [run EXCEPT ![p].pc = "ops",
                 ![p].tx = IF AtomicMigration(run[p].mig) THEN "migration" ELSE "none"]
    /\ UNCHANGED <<effects, rows, runs, faults, torn, faked>>

(* --fake: record without running anything.                                *)
Fake(p) ==
    /\ run[p].pc = "begin" /\ FakeAllowed
    /\ run' = [run EXCEPT ![p].pc = "record", ![p].todo = <<>>]
    /\ faked' = faked \cup {run[p].mig}
    /\ UNCHANGED <<effects, rows, runs, faults, torn>>

-----------------------------------------------------------------------------
(* Migration.Apply and Unapply: one statement at a time.                   *)

(* atomicOperation: the operation asks for a transaction, or the migration *)
(* is atomic and the operation does not refuse one.                        *)
AtomicOperation(r, s) == \/ s.atomic = "true"
                         \/ r.mig \in AtomicMig /\ s.atomic = "nil"

OpensTx(r, s) == /\ ~AtomicMigration(r.mig) /\ ~InTx(r)
                 /\ AtomicOperation(r, s) /\ SupportsTransactions

WithTx(r) == IF OpensTx(r, Head(r.todo)) THEN [r EXCEPT !.tx = "operation"] ELSE r

RefusedByServer(r, s) ==
    /\ s.kind = "ddl"
    /\ \/ r.dir = "forwards" /\ s.effect \in Visible(r)
       \/ r.dir = "backwards" /\ s.effect \notin Visible(r)

(* Execute refuses DDL inside a transaction that could not undo it, and    *)
(* the server refuses what exists already or is not there.                 *)
Refuses(r, s) == \/ s.kind = "ddl" /\ InTx(r) /\ ~CanRollbackDDL
                 \/ RefusedByServer(r, s)

SteppedInPlace(r) == [r EXCEPT !.add = @ \cup {Head(r.todo).effect},
                              !.deferred = @ \o Head(r.todo).later]

(* r after its next statement: the effect, the queue, the rest.            *)
Stepped(r) ==
    LET s == Head(r.todo)
    IN  IF r.dir = "forwards"
          THEN [r EXCEPT !.add = @ \cup {s.effect}, !.del = @ \ {s.effect},
                         !.deferred = @ \o s.later, !.todo = Tail(@)]
          ELSE [r EXCEPT !.add = @ \ Yields(s), !.del = @ \cup Yields(s),
                         !.todo = Tail(@)]

(* The operation's own transaction ends with the operation.                *)
LastOfOp(r) == Len(r.todo) = 1 \/ r.todo[2].op # Head(r.todo).op

EndOp(r, last) == IF last /\ r.tx = "operation" THEN [r EXCEPT !.tx = "none"] ELSE r

Execute(p) ==
    /\ run[p].pc = "ops" /\ run[p].todo # <<>>
    /\ LET r == WithTx(run[p])
           s == Head(r.todo)
       IN  /\ ~Refuses(r, s)
           /\ \A e \in Yields(s) : ~Locked(p, e)
           /\ Changed(p, EndOp(ImplicitCommit(Stepped(r), s), LastOfOp(r)))
    /\ UNCHANGED <<runs, faults, torn, faked>>

(* After the operations: a forwards run with nothing deferred records      *)
(* itself before Finish, in the migration's transaction if there is one.   *)
RecordsAfterFinish(r) == FALSE
RecordsEvenDeferred(r) == r.dir = "forwards"
RecordsBeforeFinish(r) == r.dir = "forwards" /\ r.deferred = <<>>

RecordInside(p) ==
    /\ run[p].pc = "ops" /\ run[p].todo = <<>> /\ RecordsBeforeFinish(run[p])
    /\ run[p].recs # <<>>
    /\ Changed(p, [run[p] EXCEPT !.ins = Append(@, Head(run[p].recs)),
                                 !.recs = Tail(@)])
    /\ UNCHANGED <<runs, faults, torn, faked>>

EndOps(p) ==
    /\ run[p].pc = "ops" /\ run[p].todo = <<>>
    /\ RecordsBeforeFinish(run[p]) => run[p].recs = <<>>
    /\ run' = [run EXCEPT ![p].pc = "finish"]
    /\ UNCHANGED <<effects, rows, runs, faults, torn, faked>>

-----------------------------------------------------------------------------
(* Finish: the deferred statements in order, then the commit.              *)

RunDeferred(p) ==
    /\ run[p].pc = "finish" /\ run[p].deferred # <<>>
    /\ LET e == Head(run[p].deferred)
       IN  /\ e \notin Visible(run[p])
           /\ ~Locked(p, e)
           /\ Changed(p, [run[p] EXCEPT !.add = @ \cup {e}, !.deferred = Tail(@)])
    /\ UNCHANGED <<runs, faults, torn, faked>>

(* A run that has recorded itself is over; another still has to.           *)
AfterFinish(r) == IF r.recs = <<>> THEN Idle ELSE [Committed(r) EXCEPT !.pc = "record"]

Finish(p) ==
    /\ run[p].pc = "finish" /\ run[p].deferred = <<>>
    /\ CommitInto(run[p])
    /\ run' = [run EXCEPT ![p] = AfterFinish(run[p])]
    /\ UNCHANGED <<runs, faults, torn, faked>>

(* RecordMigration outside any transaction: one row at a time.             *)
Recorded(bag, r) ==
    IF r.dir = "forwards" THEN [bag EXCEPT ![Head(r.recs)] = @ + 1]
                          ELSE [bag EXCEPT ![Head(r.recs)] = 0]

Record(p) ==
    /\ run[p].pc = "record" /\ run[p].recs # <<>>
    /\ rows' = Recorded(rows, run[p])
    /\ run' = [run EXCEPT ![p] =
                 IF Len(run[p].recs) = 1 THEN Idle
                 ELSE [run[p] EXCEPT !.recs = Tail(run[p].recs)]]
    /\ UNCHANGED <<effects, runs, faults, torn, faked>>

-----------------------------------------------------------------------------
(* Errors.  Every error ends the command: Finish(err) rolls an open        *)
(* transaction back and nothing more is run.  So does the death of the     *)
(* process, when the server drops its session.                             *)

(* Something of the run is already committed and something is missing.     *)
HalfDone(r) == \/ r.pc = "record" /\ r.mig \notin faked
               \/ /\ ~AtomicMigration(r.mig) /\ r.pc \in {"ops", "finish"}
                  /\ \/ r.todo # Statements(r.mig, r.dir)
                     \/ r.recs # RowsToWrite(r.mig)

Abandon(p) == /\ run' = [run EXCEPT ![p] = Idle]
              /\ torn' = IF HalfDone(run[p]) THEN torn \cup {<<run[p].mig, run[p].dir>>} ELSE torn
              /\ UNCHANGED <<effects, rows, runs, faked>>

Refused(p) ==
    /\ \/ run[p].pc = "begin" /\ Irreversible(run[p])
       \/ /\ run[p].pc = "ops" /\ run[p].todo # <<>>
          /\ LET r == WithTx(run[p])
                 s == Head(r.todo)
             IN  Refuses(r, s) /\ ~Locked(p, s.effect)
       \/ /\ run[p].pc = "finish" /\ run[p].deferred # <<>>
          /\ Head(run[p].deferred) \in Visible(run[p])
       \/ run[p].pc \in {"ops", "finish"} /\ Deadlocked(p)
    /\ Abandon(p)
    /\ UNCHANGED faults

Fault(p) ==
    /\ run[p].pc # "idle" /\ faults < MaxFaults
    /\ Abandon(p)
    /\ faults' = faults + 1

Done == (\A p \in Proc : run[p].pc = "idle") /\ UNCHANGED vars

Step(p) == \/ Begin(p) \/ Fake(p) \/ Execute(p) \/ RecordInside(p) \/ EndOps(p)
           \/ RunDeferred(p) \/ Finish(p) \/ Record(p) \/ Refused(p)

Next == (\E p \in Proc : Plan(p) \/ Step(p) \/ Fault(p)) \/ Done

(* A command that has started keeps going: nothing in it waits for ever.   *)
Spec == Init /\ [][Next]_vars /\ \A p \in Proc : WF_vars(Step(p))

-----------------------------------------------------------------------------
Run == [pc : {"idle", "begin", "ops", "finish", "record"}, mig : Mig \cup {NoMig},
        dir : {"none", "forwards", "backwards"}, todo : Seq(Stmt),
        deferred : Seq(Effect), tx : {"none", "migration", "operation"},
        add : SUBSET Effect, del : SUBSET Effect, ins : Seq(Mig), recs : Seq(Mig)]

TypeOK == /\ effects \in SUBSET Effect
          /\ rows \in [Mig -> Nat]
          /\ run \in [Proc -> Run]
          /\ runs \in 0..MaxRuns /\ faults \in 0..MaxFaults
          /\ torn \in SUBSET (Mig \X {"forwards", "backwards"})
          /\ faked \in SUBSET Mig

(* The migrations whose runs write the row of k.                           *)
Writers(k) == {j \in Mig : k \in ToSet(Records[j])}

(* A migration that can be undone is, or a run has left it half undone.    *)
Reversible(j) == \A i \in 1..Len(Program[j]) : Program[j][i].reversible

RunsBackwards(j) ==
    /\ Reversible(j)
    /\ \/ <<j, "backwards">> \in torn
       \/ \E p \in Proc : run[p].mig = j /\ run[p].dir = "backwards"

(* On every backend: a migration that the rows make applied has its        *)
(* effects all there, unless a migration that writes one of its rows runs  *)
(* backwards, was left half undone, or was faked.  A forwards run writes   *)
(* its rows only after its last statement, deferred ones included; a       *)
(* migration with an irreversible operation anywhere loses nothing, since  *)
(* Unapply looks at every operation before it undoes the first.            *)
RecordedIsApplied ==
    \A k \in Mig :
        \/ ~ReadApplied(k)
        \/ Eff(k) \subseteq effects
        \/ \E j \in Mig : ToSet(Records[j]) \cap ToSet(Records[k]) # {}
                          /\ (j \in faked \/ RunsBackwards(j))

(* A migration that no squashed one shares a row with, and that is atomic. *)
Plain(k) == Records[k] = <<k>> /\ Writers(k) \subseteq AtomicMig

(* Where the backend can roll DDL back, schema and record agree at every   *)
(* moment, with the exceptions that the code leaves open: a migration with deferred statements is recorded  *)
(* after its commit, and so is every run backwards; until then, or if that *)
(* never comes, the table is behind the schema.                            *)
Deferring(k) == \E i \in 1..Len(Program[k]) : Program[k][i].later # <<>>

Behind(j) == \/ \E p \in Proc : run[p].mig = j /\ run[p].pc = "record"
                                /\ (run[p].dir = "backwards" \/ Deferring(j))
             \/ <<j, "backwards">> \in torn
             \/ <<j, "forwards">> \in torn /\ Deferring(j)

Agreement ==
    CanRollbackDDL => \A k \in Mig :
        \/ ~Plain(k) \/ Eff(k) = {}
        \/ (Eff(k) \subseteq effects) = (rows[k] > 0)
        \/ \E j \in Writers(k) : j \in faked \/ Behind(j)

(* An operation that has a transaction of its own, on a backend that       *)
(* cannot put the migration in one, is seen whole or not at all.           *)
OpEff(k, n) == UNION {Yields(Program[k][i]) : i \in {j \in DOMAIN Program[k] :
                        Program[k][j].op = n}}

OwnTransaction(k, n) ==
    /\ ~AtomicMigration(k) /\ SupportsTransactions
    /\ \E i \in DOMAIN Program[k] :
         Program[k][i].op = n /\ AtomicOperation([mig |-> k], Program[k][i])

(* An operation sends its statements one after the other, and has one      *)
(* Atomic(); what one with a transaction of its own makes, no other makes, *)
(* unless it is the same operation in a squash.                            *)
ASSUME OperationsAssumption ==
    /\ \A k \in Mig : \A i, j \in DOMAIN Program[k] : Program[k][i].op = Program[k][j].op =>
         /\ Program[k][i].atomic = Program[k][j].atomic
         /\ \A l \in i..j : Program[k][l].op = Program[k][i].op
    /\ \A j, k \in Mig : \A x \in DOMAIN Program[j], y \in DOMAIN Program[k] :
         LET m == Program[j][x].op
             n == Program[k][y].op
         IN  OwnTransaction(k, n) /\ OpEff(j, m) \cap OpEff(k, n) # {} =>
               OpEff(j, m) = OpEff(k, n) /\ (OwnTransaction(j, m) \/ AtomicMigration(j))

OperationAllOrNothing ==
    \A k \in Mig : \A i \in DOMAIN Program[k] :
        LET n == Program[k][i].op
        IN  OwnTransaction(k, n) =>
              OpEff(k, n) \subseteq effects \/ OpEff(k, n) \cap effects = {}

(* Every command comes to an end, whatever the others hold.                *)
EveryRunEnds == \A p \in Proc : run[p].pc # "idle" ~> run[p].pc = "idle"
=============================================================================
