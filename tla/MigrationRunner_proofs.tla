----------------------- MODULE MigrationRunner_proofs -----------------------
(***************************************************************************)
(* For every set of migrations, programs, backend and number of commands:  *)
(* the types, and that a migration the table makes applied has its effects *)
(* in the database as long as migrations run forwards.                     *)
(***************************************************************************)
EXTENDS MigrationRunner, FiniteSetTheorems, SequenceTheorems, TLAPS

(* A command that is not idle has a migration and a direction.             *)
Active == \A p \in Proc : run[p].pc # "idle" =>
            run[p].mig \in Mig /\ run[p].dir \in {"forwards", "backwards"}

TInv == TypeOK /\ Active

-----------------------------------------------------------------------------
LEMMA InsertType ==
    ASSUME NEW bag \in [Mig -> Nat], NEW keys \in Seq(Mig)
    PROVE  /\ Insert(bag, keys) \in [Mig -> Nat]
           /\ \A k \in Mig : Insert(bag, keys)[k] > 0 =>
                bag[k] > 0 \/ k \in ToSet(keys)
<1> DEFINE At(k) == {i \in DOMAIN keys : keys[i] = k}
<1>1. IsFiniteSet(DOMAIN keys)
  <2>1. Len(keys) \in Nat /\ DOMAIN keys = 1..Len(keys)
    OBVIOUS
  <2> QED BY <2>1, FS_Interval
<1>2. \A k \in Mig : IsFiniteSet(At(k)) /\ Cardinality(At(k)) \in Nat
  BY <1>1, FS_Subset, FS_CardinalityType
<1>3. \A k \in Mig : k \notin ToSet(keys) => Cardinality(At(k)) = 0
  <2> SUFFICES ASSUME NEW k \in Mig, k \notin ToSet(keys)
               PROVE  Cardinality(At(k)) = 0
    OBVIOUS
  <2>1. At(k) = {}
    BY DEF ToSet
  <2> QED BY <2>1, FS_EmptySet
<1> HIDE DEF At
<1>4. Insert(bag, keys) = [k \in Mig |-> bag[k] + Cardinality(At(k))]
  BY DEF Insert, At
<1> QED BY <1>2, <1>3, <1>4

LEMMA ReverseType ==
    ASSUME NEW S, NEW v \in Seq(S)
    PROVE  Reverse(v) \in Seq(S)
<1>1. Reverse(v) = [i \in 1..Len(v) |-> v[Len(v) - i + 1]]
  BY DEF Reverse
<1>2. Len(v) \in Nat /\ \A i \in 1..Len(v) : v[Len(v) - i + 1] \in S
  OBVIOUS
<1> QED BY <1>1, <1>2, SeqDef, SMT

LEMMA StatementsType ==
    ASSUME NEW k \in Mig, NEW dir
    PROVE  Statements(k, dir) \in Seq(Stmt)
<1>1. Program[k] \in Seq(Stmt)
  BY RunnerAssumption
<1> QED BY <1>1, ReverseType DEF Statements

LEMMA IdleType == Idle \in Run
<1>1. <<>> \in Seq(Stmt) /\ <<>> \in Seq(Effect) /\ <<>> \in Seq(Mig)
  OBVIOUS
<1> QED BY <1>1 DEF Idle, Run

LEMMA CommittedType ==
    ASSUME NEW r \in Run
    PROVE  Committed(r) \in Run
<1>1. <<>> \in Seq(Mig)
  OBVIOUS
<1> QED BY <1>1 DEF Run, Committed

LEMMA CommitIntoType ==
    ASSUME TypeOK, NEW r \in Run, CommitInto(r)
    PROVE  effects' \in SUBSET Effect /\ rows' \in [Mig -> Nat]
<1>1. effects' = (effects \ r.del) \cup r.add /\ rows' = Insert(rows, r.ins)
  BY DEF CommitInto, Visible
<1>2. r.del \in SUBSET Effect /\ r.add \in SUBSET Effect /\ r.ins \in Seq(Mig)
  BY DEF Run
<1>3. effects \in SUBSET Effect /\ rows \in [Mig -> Nat]
  BY DEF TypeOK
<1> QED BY <1>1, <1>2, <1>3, InsertType

(* A change of run p alone keeps the types.                                *)
LEMMA ChangedType ==
    ASSUME TypeOK, NEW p \in Proc, NEW r \in Run, Changed(p, r)
    PROVE  /\ effects' \in SUBSET Effect /\ rows' \in [Mig -> Nat]
           /\ run' \in [Proc -> Run]
           /\ \A q \in Proc \ {p} : run'[q] = run[q]
           /\ run'[p] = r \/ run'[p] = Committed(r)
<1>1. run \in [Proc -> Run] /\ effects \in SUBSET Effect /\ rows \in [Mig -> Nat]
  BY DEF TypeOK
<1>2. CASE InTx(r)
  BY <1>1, <1>2 DEF Changed
<1>3. CASE ~InTx(r)
  <2>1. run' = [run EXCEPT ![p] = Committed(r)] /\ CommitInto(r)
    BY <1>3 DEF Changed
  <2> QED BY <1>1, <2>1, CommittedType, CommitIntoType
<1> QED BY <1>2, <1>3

LEMMA SteppedType ==
    ASSUME NEW r \in Run, r.todo # <<>>
    PROVE  /\ Stepped(r) \in Run
           /\ Stepped(r).pc = r.pc /\ Stepped(r).mig = r.mig /\ Stepped(r).dir = r.dir
<1>1. r.todo \in Seq(Stmt) /\ Head(r.todo) \in Stmt /\ Tail(r.todo) \in Seq(Stmt)
  BY DEF Run
<1> DEFINE s == Head(r.todo)
<1>2. s.effect \in Effect /\ s.later \in Seq(Effect)
  BY <1>1 DEF Stmt
<1>3. ToSet(s.later) \subseteq Effect
  BY <1>2 DEF ToSet
<1>4. Yields(s) \subseteq Effect
  BY <1>2, <1>3 DEF Yields
<1> HIDE DEF s
<1>5. r.deferred \o s.later \in Seq(Effect)
  BY <1>2 DEF Run
<1>6. r.add \in SUBSET Effect /\ r.del \in SUBSET Effect /\ r.deferred \in Seq(Effect)
  BY DEF Run
<1> DEFINE t == Tail(r.todo)
<1>7. CASE r.dir = "forwards"
  <2> DEFINE a == r.add \cup {s.effect}
             d == r.del \ {s.effect}
             f == r.deferred \o s.later
  <2>1. /\ a \in SUBSET Effect /\ d \in SUBSET Effect
        /\ f \in Seq(Effect) /\ t \in Seq(Stmt)
    BY <1>1, <1>2, <1>5, <1>6
  <2>2. Stepped(r) = [r EXCEPT !.add = a, !.del = d, !.deferred = f, !.todo = t]
    BY <1>7 DEF Stepped, s, Run
  <2> HIDE DEF a, d, f, t
  <2> QED BY <2>1, <2>2 DEF Run
<1>8. CASE r.dir # "forwards"
  <2> DEFINE a == r.add \ Yields(s)
             d == r.del \cup Yields(s)
  <2>1. a \in SUBSET Effect /\ d \in SUBSET Effect /\ t \in Seq(Stmt)
    BY <1>1, <1>4, <1>6
  <2>2. Stepped(r) = [r EXCEPT !.add = a, !.del = d, !.todo = t]
    BY <1>8 DEF Stepped, s, Run
  <2> HIDE DEF a, d, t
  <2> QED BY <2>1, <2>2 DEF Run
<1> QED BY <1>7, <1>8

(* The transaction bookkeeping touches the tx field alone.                 *)
Same(t, r) == /\ t.pc = r.pc /\ t.mig = r.mig /\ t.dir = r.dir /\ t.todo = r.todo
              /\ t.deferred = r.deferred /\ t.add = r.add /\ t.del = r.del
              /\ t.ins = r.ins /\ t.recs = r.recs

LEMMA TxOnly ==
    ASSUME NEW r \in Run, NEW x \in {"none", "migration", "operation"}
    PROVE  [r EXCEPT !.tx = x] \in Run /\ Same([r EXCEPT !.tx = x], r)
BY DEF Run, Same

LEMMA WithTxType ==
    ASSUME NEW r \in Run
    PROVE  WithTx(r) \in Run /\ Same(WithTx(r), r)
<1>1. Same(r, r)
  BY DEF Same
<1> QED BY <1>1, TxOnly DEF WithTx

LEMMA ImplicitCommitType ==
    ASSUME NEW r \in Run, NEW s
    PROVE  ImplicitCommit(r, s) \in Run /\ Same(ImplicitCommit(r, s), r)
<1>1. Same(r, r)
  BY DEF Same
<1> QED BY <1>1, TxOnly DEF ImplicitCommit

LEMMA EndOpType ==
    ASSUME NEW r \in Run, NEW last
    PROVE  EndOp(r, last) \in Run /\ Same(EndOp(r, last), r)
<1>1. Same(r, r)
  BY DEF Same
<1> QED BY <1>1, TxOnly DEF EndOp

-----------------------------------------------------------------------------
(* One command moves and the rest of the state keeps its type.             *)
LEMMA OneRun ==
    ASSUME TInv, NEW p \in Proc, NEW R \in Run,
           R.pc # "idle" => R.mig \in Mig /\ R.dir \in {"forwards", "backwards"},
           run' = [run EXCEPT ![p] = R],
           effects' \in SUBSET Effect, rows' \in [Mig -> Nat],
           runs' \in 0..MaxRuns, faults' \in 0..MaxFaults,
           torn' \in SUBSET (Mig \X {"forwards", "backwards"}), faked' \in SUBSET Mig
    PROVE  TInv'
<1>1. run' \in [Proc -> Run]
  BY DEF TInv, TypeOK
<1>2. Active'
  BY DEF TInv, TypeOK, Active
<1> QED BY <1>1, <1>2 DEF TInv, TypeOK

LEMMA OneChange ==
    ASSUME TInv, NEW p \in Proc, NEW R \in Run, Changed(p, R),
           R.pc # "idle" => R.mig \in Mig /\ R.dir \in {"forwards", "backwards"},
           UNCHANGED <<runs, faults, torn, faked>>
    PROVE  TInv'
<1>1. Committed(R).pc = R.pc /\ Committed(R).mig = R.mig /\ Committed(R).dir = R.dir
  BY DEF Committed, Run
<1>2. TypeOK
  BY DEF TInv
<1>3. effects' \in SUBSET Effect /\ rows' \in [Mig -> Nat]
  BY <1>2, ChangedType
<1>4. /\ runs' \in 0..MaxRuns /\ faults' \in 0..MaxFaults
      /\ torn' \in SUBSET (Mig \X {"forwards", "backwards"}) /\ faked' \in SUBSET Mig
  BY <1>2 DEF TypeOK
<1>5. CASE run' = [run EXCEPT ![p] = R]
  BY <1>3, <1>4, <1>5, OneRun
<1>6. CASE run' = [run EXCEPT ![p] = Committed(R)]
  BY <1>1, <1>3, <1>4, <1>6, OneRun, CommittedType
<1> QED BY <1>5, <1>6 DEF Changed

LEMMA AbandonType ==
    ASSUME TInv, NEW p \in Proc, run[p].pc # "idle", Abandon(p), faults' \in 0..MaxFaults
    PROVE  TInv'
<1>1. Idle \in Run /\ Idle.pc = "idle"
  BY IdleType DEF Idle
<1>2. run[p].mig \in Mig /\ run[p].dir \in {"forwards", "backwards"}
  BY DEF TInv, Active
<1>3. torn' \in SUBSET (Mig \X {"forwards", "backwards"})
  BY <1>2 DEF Abandon, TInv, TypeOK
<1> QED BY <1>1, <1>3, OneRun DEF Abandon, TInv, TypeOK

LEMMA TInvInit == Init => TInv
<1> SUFFICES ASSUME Init PROVE TInv
  OBVIOUS
<1>1. run \in [Proc -> Run]
  BY IdleType DEF Init
<1>2. Active
  BY DEF Init, Active, Idle
<1>3. runs \in 0..MaxRuns /\ faults \in 0..MaxFaults
  BY RunnerAssumption DEF Init
<1> QED BY <1>1, <1>2, <1>3 DEF Init, TInv, TypeOK

LEMMA TInvPlan ==
    ASSUME TInv, NEW p \in Proc, Plan(p)
    PROVE  TInv'
<1>1. PICK k \in Mig, dir \in Dirs :
        run' = [run EXCEPT ![p] = [Idle EXCEPT !.pc = "begin", !.mig = k, !.dir = dir,
                       !.todo = Statements(k, dir), !.recs = RowsToWrite(k)]]
  BY DEF Plan
<1> DEFINE R == [Idle EXCEPT !.pc = "begin", !.mig = k, !.dir = dir,
                       !.todo = Statements(k, dir), !.recs = RowsToWrite(k)]
<1>2. dir \in {"forwards", "backwards"} /\ RowsToWrite(k) \in Seq(Mig)
  BY RunnerAssumption DEF RowsToWrite
<1>3. Statements(k, dir) \in Seq(Stmt)
  BY StatementsType
<1>4. R \in Run /\ R.mig = k /\ R.dir = dir
  BY <1>2, <1>3, IdleType DEF Run, Idle
<1>5. runs' \in 0..MaxRuns
  BY RunnerAssumption DEF Plan, TInv, TypeOK
<1> HIDE DEF R
<1>6. run' = [run EXCEPT ![p] = R]
  BY <1>1 DEF R
<1> QED BY <1>2, <1>4, <1>5, <1>6, OneRun DEF Plan, TInv, TypeOK

LEMMA TInvBegin ==
    ASSUME TInv, NEW p \in Proc, Begin(p) \/ Fake(p) \/ EndOps(p)
    PROVE  TInv'
<1>1. run[p] \in Run /\ run[p].pc # "idle"
  BY DEF TInv, TypeOK, Begin, Fake, EndOps
<1>2. run[p].mig \in Mig /\ run[p].dir \in {"forwards", "backwards"}
  BY <1>1 DEF TInv, Active
<1>3. CASE Begin(p)
  <2> DEFINE R == [run[p] EXCEPT !.pc = "ops",
                     !.tx = IF AtomicMigration(run[p].mig) THEN "migration" ELSE "none"]
  <2>1. R \in Run /\ R.mig = run[p].mig /\ R.dir = run[p].dir
    BY <1>1 DEF Run
  <2>2. run' = [run EXCEPT ![p] = R]
    BY <1>3 DEF Begin, TInv, TypeOK
  <2> HIDE DEF R
  <2> QED BY <2>1, <2>2, <1>2, <1>3, OneRun DEF Begin, TInv, TypeOK
<1>4. CASE Fake(p)
  <2> DEFINE R == [run[p] EXCEPT !.pc = "record", !.todo = <<>>]
  <2>0. <<>> \in Seq(Stmt)
    OBVIOUS
  <2>1. R \in Run /\ R.mig = run[p].mig /\ R.dir = run[p].dir
    BY <1>1, <2>0 DEF Run
  <2>2. run' = [run EXCEPT ![p] = R]
    BY <1>4 DEF Fake, TInv, TypeOK
  <2>3. faked' \in SUBSET Mig
    BY <1>2, <1>4 DEF Fake, TInv, TypeOK
  <2> HIDE DEF R
  <2> QED BY <2>1, <2>2, <2>3, <1>2, <1>4, OneRun DEF Fake, TInv, TypeOK
<1>5. CASE EndOps(p)
  <2> DEFINE R == [run[p] EXCEPT !.pc = "finish"]
  <2>1. R \in Run /\ R.mig = run[p].mig /\ R.dir = run[p].dir
    BY <1>1 DEF Run
  <2>2. run' = [run EXCEPT ![p] = R]
    BY <1>5 DEF EndOps, TInv, TypeOK
  <2> HIDE DEF R
  <2> QED BY <2>1, <2>2, <1>2, <1>5, OneRun DEF EndOps, TInv, TypeOK
<1> QED BY <1>3, <1>4, <1>5

(* What Execute makes of a run, and what it leaves alone.                  *)
LEMMA ExecutedType ==
    ASSUME NEW r \in Run, r.todo # <<>>
    PROVE  LET w == WithTx(r)
               R == EndOp(ImplicitCommit(Stepped(w), Head(w.todo)), LastOfOp(w))
           IN  R \in Run /\ R.mig = r.mig /\ R.dir = r.dir /\ Same(R, Stepped(w))
<1> DEFINE w == WithTx(r)
           u == Stepped(w)
           s == Head(w.todo)
           v == ImplicitCommit(u, s)
           l == LastOfOp(w)
           R == EndOp(v, l)
<1>1. w \in Run /\ w.todo = r.todo /\ w.pc = r.pc /\ w.mig = r.mig /\ w.dir = r.dir
  BY WithTxType DEF Same
<1> HIDE DEF w
<1>2. u \in Run /\ u.pc = w.pc /\ u.mig = w.mig /\ u.dir = w.dir
  BY <1>1, SteppedType
<1> HIDE DEF u, s
<1>3. v \in Run /\ Same(v, u)
  BY <1>2, ImplicitCommitType
<1> HIDE DEF v, l
<1>4. R \in Run /\ Same(R, v)
  BY <1>3, EndOpType
<1> HIDE DEF R
<1>5. R \in Run /\ R.mig = r.mig /\ R.dir = r.dir /\ Same(R, u)
  BY <1>1, <1>2, <1>3, <1>4 DEF Same
<1> QED BY <1>5 DEF R, v, u, w, s, l

LEMMA TInvExecute ==
    ASSUME TInv, NEW p \in Proc, Execute(p)
    PROVE  TInv'
<1> DEFINE w == WithTx(run[p])
           R == EndOp(ImplicitCommit(Stepped(w), Head(w.todo)), LastOfOp(w))
<1>1. run[p] \in Run /\ run[p].pc # "idle" /\ run[p].todo # <<>>
  BY DEF TInv, TypeOK, Execute
<1>2. R \in Run /\ R.mig = run[p].mig /\ R.dir = run[p].dir
  BY <1>1, ExecutedType
<1>3. Changed(p, R) /\ UNCHANGED <<runs, faults, torn, faked>>
  BY DEF Execute
<1> HIDE DEF R
<1> QED BY <1>1, <1>2, <1>3, OneChange DEF TInv, Active

LEMMA TInvRecordInside ==
    ASSUME TInv, NEW p \in Proc, RecordInside(p)
    PROVE  TInv'
<1> DEFINE R == [run[p] EXCEPT !.ins = Append(@, Head(run[p].recs)), !.recs = Tail(@)]
<1>1. run[p] \in Run /\ run[p].pc # "idle" /\ run[p].recs # <<>>
  BY DEF TInv, TypeOK, RecordInside
<1>2. run[p].ins \in Seq(Mig) /\ run[p].recs \in Seq(Mig)
  BY <1>1 DEF Run
<1>3. Append(run[p].ins, Head(run[p].recs)) \in Seq(Mig) /\ Tail(run[p].recs) \in Seq(Mig)
  BY <1>1, <1>2
<1>4. R \in Run /\ R.mig = run[p].mig /\ R.dir = run[p].dir
  BY <1>1, <1>3 DEF Run
<1>5. Changed(p, R) /\ UNCHANGED <<runs, faults, torn, faked>>
  BY DEF RecordInside
<1> HIDE DEF R
<1> QED BY <1>1, <1>4, <1>5, OneChange DEF TInv, Active

LEMMA TInvRunDeferred ==
    ASSUME TInv, NEW p \in Proc, RunDeferred(p)
    PROVE  TInv'
<1> DEFINE e == Head(run[p].deferred)
           R == [run[p] EXCEPT !.add = @ \cup {e}, !.deferred = Tail(@)]
<1>1. run[p] \in Run /\ run[p].pc # "idle" /\ run[p].deferred # <<>>
  BY DEF TInv, TypeOK, RunDeferred
<1>2. run[p].deferred \in Seq(Effect) /\ run[p].add \in SUBSET Effect
  BY <1>1 DEF Run
<1>3. run[p].add \cup {e} \in SUBSET Effect /\ Tail(run[p].deferred) \in Seq(Effect)
  BY <1>1, <1>2
<1>4. Changed(p, R) /\ UNCHANGED <<runs, faults, torn, faked>>
  BY DEF RunDeferred
<1> HIDE DEF e
<1>5. R \in Run /\ R.mig = run[p].mig /\ R.dir = run[p].dir
  BY <1>1, <1>3 DEF Run
<1> HIDE DEF R
<1> QED BY <1>1, <1>4, <1>5, OneChange DEF TInv, Active

LEMMA TInvFinish ==
    ASSUME TInv, NEW p \in Proc, Finish(p)
    PROVE  TInv'
<1> DEFINE r == run[p]
           R == AfterFinish(r)
<1>1. r \in Run /\ r.pc # "idle"
  BY DEF TInv, TypeOK, Finish
<1>2. r.mig \in Mig /\ r.dir \in {"forwards", "backwards"}
  BY <1>1 DEF TInv, Active
<1>3. CommitInto(r) /\ run' = [run EXCEPT ![p] = R]
  BY DEF Finish
<1>4. effects' \in SUBSET Effect /\ rows' \in [Mig -> Nat]
  BY <1>1, <1>3, CommitIntoType DEF TInv
<1> DEFINE C == [Committed(r) EXCEPT !.pc = "record"]
<1>5. C \in Run /\ C.mig = r.mig /\ C.dir = r.dir
  BY <1>1, CommittedType DEF Run, Committed
<1>6. R = Idle \/ R = C
  BY DEF AfterFinish
<1> HIDE DEF R, C
<1>7. R \in Run /\ (R.pc # "idle" => R.mig \in Mig /\ R.dir \in {"forwards", "backwards"})
  <2>1. CASE R = Idle
    BY <2>1, IdleType DEF Idle
  <2>2. CASE R = C
    BY <2>2, <1>2, <1>5
  <2> QED BY <1>6, <2>1, <2>2
<1> QED BY <1>3, <1>4, <1>7, OneRun DEF Finish, TInv, TypeOK

LEMMA TInvRecord ==
    ASSUME TInv, NEW p \in Proc, Record(p)
    PROVE  TInv'
<1> DEFINE r == run[p]
           C == [r EXCEPT !.recs = Tail(r.recs)]
           R == IF Len(r.recs) = 1 THEN Idle ELSE C
<1>1. r \in Run /\ r.pc # "idle" /\ r.recs # <<>>
  BY DEF TInv, TypeOK, Record
<1>2. r.mig \in Mig /\ r.dir \in {"forwards", "backwards"}
  BY <1>1 DEF TInv, Active
<1>3. r.recs \in Seq(Mig) /\ Head(r.recs) \in Mig /\ Tail(r.recs) \in Seq(Mig)
  BY <1>1 DEF Run
<1>4. rows' \in [Mig -> Nat]
  BY <1>3 DEF Record, Recorded, TInv, TypeOK
<1>5. C \in Run /\ C.mig = r.mig /\ C.dir = r.dir
  BY <1>1, <1>3 DEF Run
<1>6. run' = [run EXCEPT ![p] = R]
  BY DEF Record
<1> HIDE DEF C
<1>7. R \in Run /\ (R.pc # "idle" => R.mig \in Mig /\ R.dir \in {"forwards", "backwards"})
  <2>1. CASE Len(r.recs) = 1
    BY <2>1, IdleType DEF Idle
  <2>2. CASE Len(r.recs) # 1
    BY <2>2, <1>2, <1>5
  <2> QED BY <2>1, <2>2
<1> HIDE DEF R
<1> QED BY <1>4, <1>6, <1>7, OneRun DEF Record, TInv, TypeOK

LEMMA TInvError ==
    ASSUME TInv, NEW p \in Proc, Refused(p) \/ Fault(p)
    PROVE  TInv'
<1>1. CASE Refused(p)
  <2>1. run[p].pc # "idle" /\ Abandon(p) /\ faults' = faults
    BY <1>1 DEF Refused
  <2> QED BY <2>1, AbandonType DEF TInv, TypeOK
<1>2. CASE Fault(p)
  <2>1. run[p].pc # "idle" /\ Abandon(p)
    BY <1>2 DEF Fault
  <2>2. faults' \in 0..MaxFaults
    BY <1>2, RunnerAssumption DEF Fault, TInv, TypeOK
  <2> QED BY <2>1, <2>2, AbandonType
<1> QED BY <1>1, <1>2

LEMMA TInvNext == TInv /\ [Next]_vars => TInv'
<1> SUFFICES ASSUME TInv, [Next]_vars PROVE TInv'
  OBVIOUS
<1>1. CASE UNCHANGED vars
  BY <1>1 DEF vars, TInv, TypeOK, Active
<1>2. CASE Done
  BY <1>2 DEF Done, vars, TInv, TypeOK, Active
<1>3. ASSUME NEW p \in Proc, Plan(p) \/ Step(p) \/ Fault(p)
      PROVE  TInv'
  BY <1>3, TInvPlan, TInvBegin, TInvExecute, TInvRecordInside, TInvRunDeferred,
     TInvFinish, TInvRecord, TInvError DEF Step
<1> QED BY <1>1, <1>2, <1>3 DEF Next

(* The type invariant of the runner, for any backend, any programs and any *)
(* number of commands, in both directions.                                 *)
THEOREM Typing == Spec => []TypeOK
<1>1. Spec => []TInv
  BY TInvInit, TInvNext, PTL DEF Spec
<1>2. TInv => TypeOK
  BY DEF TInv
<1> QED BY <1>1, <1>2, PTL

-----------------------------------------------------------------------------
(* Forwards only: what a run still has to bring about, what it may write,  *)
(* and in which order it goes about it.  E stands for the effects in the   *)
(* database and F for the faked migrations.                                *)

Covered(r, E, F) ==
    \/ Eff(r.mig) \subseteq E \cup r.add \cup AllOf(r.todo) \cup ToSet(r.deferred)
    \/ r.pc = "record" /\ r.mig \in F

Keys(r) == ToSet(r.ins) \cup ToSet(r.recs) \subseteq ToSet(Records[r.mig])

Order(r) ==
    /\ r.pc \in {"finish", "record"} => r.todo = <<>>
    /\ r.pc = "record" => r.deferred = <<>>
    /\ r.pc \in {"begin", "record"} => r.add = {}
    /\ r.pc = "begin" => r.deferred = <<>>
    /\ r.ins # <<>> => /\ r.pc \in {"ops", "finish"}
                        /\ r.todo = <<>> /\ r.deferred = <<>>

Forward(r, E, F) ==
    /\ r.dir # "backwards" /\ r.del = {}
    /\ r.pc # "idle" => Covered(r, E, F) /\ Keys(r) /\ Order(r)

RowsTrue == \A k \in Mig : rows[k] > 0 =>
              Eff(k) \subseteq effects \/ \E j \in faked : k \in ToSet(Records[j])

FInv == /\ TInv /\ RowsTrue
        /\ \A p \in Proc : Forward(run[p], effects, faked)

-----------------------------------------------------------------------------
(* Sequences.                                                              *)
LEMMA ToSetTail ==
    ASSUME NEW S, NEW v \in Seq(S), v # <<>>
    PROVE  Head(v) \in ToSet(v) /\ ToSet(v) = {Head(v)} \cup ToSet(Tail(v))
<1>1. Len(v) \in Nat /\ Len(v) > 0 /\ DOMAIN v = 1..Len(v)
  BY EmptySeq
<1>2. DOMAIN Tail(v) = 1..(Len(v) - 1) /\ \A i \in 1..(Len(v) - 1) : Tail(v)[i] = v[i + 1]
  BY <1>1, HeadTailProperties
<1>3. Head(v) = v[1]
  BY <1>1
<1>4. ASSUME NEW x \in ToSet(v)
      PROVE  x \in {Head(v)} \cup ToSet(Tail(v))
  <2>1. PICK i \in 1..Len(v) : x = v[i]
    BY <1>1 DEF ToSet
  <2>2. CASE i = 1
    BY <2>1, <2>2, <1>3
  <2>3. CASE i # 1
    <3>1. i - 1 \in 1..(Len(v) - 1) /\ Tail(v)[i - 1] = x
      BY <1>1, <1>2, <2>1, <2>3
    <3> QED BY <3>1, <1>2 DEF ToSet
  <2> QED BY <2>2, <2>3
<1>5. ASSUME NEW x \in ToSet(Tail(v))
      PROVE  x \in ToSet(v)
  <2>1. PICK i \in 1..(Len(v) - 1) : x = v[i + 1]
    BY <1>2 DEF ToSet
  <2>2. i + 1 \in 1..Len(v)
    BY <1>1
  <2> QED BY <1>1, <2>1, <2>2 DEF ToSet
<1>6. Head(v) \in ToSet(v)
  BY <1>1, <1>3 DEF ToSet
<1> QED BY <1>4, <1>5, <1>6

LEMMA ToSetConcat ==
    ASSUME NEW S, NEW v \in Seq(S), NEW w \in Seq(S)
    PROVE  ToSet(v) \cup ToSet(w) \subseteq ToSet(v \o w)
<1>1. /\ Len(v) \in Nat /\ DOMAIN v = 1..Len(v)
      /\ Len(w) \in Nat /\ DOMAIN w = 1..Len(w)
  OBVIOUS
<1>2. /\ DOMAIN (v \o w) = 1..(Len(v) + Len(w))
      /\ \A i \in 1..Len(v) : (v \o w)[i] = v[i]
      /\ \A i \in 1..Len(w) : (v \o w)[Len(v) + i] = w[i]
  BY <1>1
<1>3. ASSUME NEW x \in ToSet(v)
      PROVE  x \in ToSet(v \o w)
  <2>1. PICK i \in 1..Len(v) : x = v[i]
    BY <1>1 DEF ToSet
  <2>2. i \in 1..(Len(v) + Len(w))
    BY <1>1
  <2> QED BY <1>2, <2>1, <2>2 DEF ToSet
<1>4. ASSUME NEW x \in ToSet(w)
      PROVE  x \in ToSet(v \o w)
  <2>1. PICK i \in 1..Len(w) : x = w[i]
    BY <1>1 DEF ToSet
  <2>2. Len(v) + i \in 1..(Len(v) + Len(w))
    BY <1>1
  <2> QED BY <1>2, <2>1, <2>2 DEF ToSet
<1> QED BY <1>3, <1>4

LEMMA ToSetAppend ==
    ASSUME NEW S, NEW v \in Seq(S), NEW e \in S
    PROVE  ToSet(Append(v, e)) \subseteq ToSet(v) \cup {e}
<1>1. Len(v) \in Nat /\ DOMAIN v = 1..Len(v)
  OBVIOUS
<1>2. DOMAIN Append(v, e) = 1..(Len(v) + 1)
      /\ \A i \in 1..(Len(v) + 1) : Append(v, e)[i] = IF i <= Len(v) THEN v[i] ELSE e
  BY <1>1
<1> SUFFICES ASSUME NEW x \in ToSet(Append(v, e))
             PROVE  x \in ToSet(v) \cup {e}
  OBVIOUS
<1>3. PICK i \in 1..(Len(v) + 1) : x = IF i <= Len(v) THEN v[i] ELSE e
  BY <1>2 DEF ToSet
<1>4. CASE i <= Len(v)
  <2>1. i \in 1..Len(v) /\ x = v[i]
    BY <1>1, <1>3, <1>4
  <2> QED BY <1>1, <2>1 DEF ToSet
<1>5. CASE ~(i <= Len(v))
  BY <1>3, <1>5
<1> QED BY <1>4, <1>5

LEMMA ToSetEmpty == ToSet(<<>>) = {} /\ AllOf(<<>>) = {}
BY DEF ToSet, AllOf

LEMMA AllOfTail ==
    ASSUME NEW v \in Seq(Stmt), v # <<>>
    PROVE  AllOf(v) \subseteq Yields(Head(v)) \cup AllOf(Tail(v))
<1>1. Len(v) \in Nat /\ Len(v) > 0 /\ Len(Tail(v)) = Len(v) - 1
  BY EmptySeq, HeadTailProperties
<1>2. \A i \in 1..(Len(v) - 1) : Tail(v)[i] = v[i + 1]
  BY <1>1, HeadTailProperties
<1> SUFFICES ASSUME NEW e \in AllOf(v), e \notin Yields(Head(v))
             PROVE  e \in AllOf(Tail(v))
  OBVIOUS
<1>3. PICK i \in 1..Len(v) : e \in Yields(v[i])
  BY DEF AllOf
<1>4. v[1] = Head(v)
  BY <1>1
<1>5. i # 1
  BY <1>3, <1>4
<1>6. i - 1 \in 1..Len(Tail(v)) /\ Tail(v)[i - 1] = v[i]
  BY <1>1, <1>2, <1>5
<1> QED BY <1>3, <1>6 DEF AllOf

LEMMA TailIndex ==
    ASSUME NEW S, NEW v \in Seq(S), v # <<>>
    PROVE  /\ DOMAIN v = 1..Len(v) /\ 1 \in DOMAIN v /\ v[1] = Head(v)
           /\ \A i \in DOMAIN v : i # 1 => i - 1 \in DOMAIN Tail(v) /\ Tail(v)[i - 1] = v[i]
           /\ \A i \in DOMAIN Tail(v) : i + 1 \in DOMAIN v /\ v[i + 1] = Tail(v)[i]
<1>1. Len(v) \in Nat /\ Len(v) > 0 /\ DOMAIN v = 1..Len(v)
  BY EmptySeq
<1>2. DOMAIN Tail(v) = 1..(Len(v) - 1) /\ \A i \in 1..(Len(v) - 1) : Tail(v)[i] = v[i + 1]
  BY <1>1, HeadTailProperties
<1>3. 1 \in DOMAIN v /\ v[1] = Head(v)
  BY <1>1
<1>4. ASSUME NEW i \in DOMAIN v, i # 1
      PROVE  i - 1 \in DOMAIN Tail(v) /\ Tail(v)[i - 1] = v[i]
  BY <1>1, <1>2, <1>4
<1>5. ASSUME NEW i \in DOMAIN Tail(v)
      PROVE  i + 1 \in DOMAIN v /\ v[i + 1] = Tail(v)[i]
  BY <1>1, <1>2
<1> QED BY <1>1, <1>3, <1>4, <1>5

LEMMA AllOfSplit ==
    ASSUME NEW v \in Seq(Stmt), v # <<>>
    PROVE  AllOf(v) = Yields(Head(v)) \cup AllOf(Tail(v))
<1>1. AllOf(v) \subseteq Yields(Head(v)) \cup AllOf(Tail(v))
  BY AllOfTail
<1>2. Tail(v) \in Seq(Stmt) /\ DOMAIN Tail(v) = 1..Len(Tail(v))
  OBVIOUS
<1>3. ASSUME NEW e \in AllOf(Tail(v))
      PROVE  e \in AllOf(v)
  <2>1. PICK i \in 1..Len(Tail(v)) : e \in Yields(Tail(v)[i])
    BY DEF AllOf
  <2>2. i + 1 \in 1..Len(v) /\ v[i + 1] = Tail(v)[i]
    BY <1>2, TailIndex
  <2> QED BY <2>1, <2>2 DEF AllOf
<1>4. Yields(Head(v)) \subseteq AllOf(v)
  <2>1. 1 \in 1..Len(v) /\ v[1] = Head(v)
    BY TailIndex
  <2> QED BY <2>1 DEF AllOf
<1> QED BY <1>1, <1>3, <1>4

LEMMA AllOfReverse ==
    ASSUME NEW v \in Seq(Stmt)
    PROVE  AllOf(Reverse(v)) = AllOf(v)
<1>1. Len(v) \in Nat /\ Reverse(v) = [i \in 1..Len(v) |-> v[Len(v) - i + 1]]
  BY DEF Reverse
<1>2. Len(Reverse(v)) = Len(v)
  <2>1. Reverse(v) \in Seq(Stmt) /\ DOMAIN Reverse(v) = 1..Len(v)
    BY <1>1, ReverseType
  <2> QED BY <1>1, <2>1, LenProperties
<1>3. ASSUME NEW e \in AllOf(v)
      PROVE  e \in AllOf(Reverse(v))
  <2>1. PICK i \in 1..Len(v) : e \in Yields(v[i])
    BY DEF AllOf
  <2>2. Len(v) - i + 1 \in 1..Len(v) /\ Len(v) - (Len(v) - i + 1) + 1 = i
    BY <1>1
  <2>3. Reverse(v)[Len(v) - i + 1] = v[i]
    BY <1>1, <2>2
  <2> QED BY <1>2, <2>1, <2>2, <2>3 DEF AllOf
<1>4. ASSUME NEW e \in AllOf(Reverse(v))
      PROVE  e \in AllOf(v)
  <2>1. PICK i \in 1..Len(v) : e \in Yields(Reverse(v)[i])
    BY <1>2 DEF AllOf
  <2>2. Len(v) - i + 1 \in 1..Len(v) /\ Reverse(v)[i] = v[Len(v) - i + 1]
    BY <1>1
  <2> QED BY <2>1, <2>2 DEF AllOf
<1> QED BY <1>3, <1>4

LEMMA StatementsAllOf ==
    ASSUME NEW k \in Mig, NEW dir
    PROVE  AllOf(Statements(k, dir)) = Eff(k)
<1>1. Program[k] \in Seq(Stmt)
  BY RunnerAssumption
<1> QED BY <1>1, AllOfReverse DEF Statements, Eff

LEMMA ConcatFacts ==
    ASSUME NEW S, NEW v \in Seq(S), NEW w \in Seq(S)
    PROVE  /\ ToSet(v \o w) = ToSet(v) \cup ToSet(w)
           /\ v \o w = <<>> <=> v = <<>> /\ w = <<>>
<1>1. /\ Len(v) \in Nat /\ DOMAIN v = 1..Len(v)
      /\ Len(w) \in Nat /\ DOMAIN w = 1..Len(w)
  OBVIOUS
<1>2. /\ DOMAIN (v \o w) = 1..(Len(v) + Len(w)) /\ Len(v \o w) = Len(v) + Len(w)
      /\ \A i \in 1..Len(v) : (v \o w)[i] = v[i]
      /\ \A i \in 1..Len(w) : (v \o w)[Len(v) + i] = w[i]
  BY <1>1
<1>3. ASSUME NEW x \in ToSet(v \o w), x \notin ToSet(v)
      PROVE  x \in ToSet(w)
  <2>1. PICK i \in 1..(Len(v) + Len(w)) : x = (v \o w)[i]
    BY <1>2 DEF ToSet
  <2>2. ~(i <= Len(v))
    <3> SUFFICES ASSUME i <= Len(v) PROVE FALSE
      OBVIOUS
    <3>1. i \in 1..Len(v) /\ x = v[i]
      BY <1>1, <1>2, <2>1
    <3> QED BY <1>1, <1>3, <3>1 DEF ToSet
  <2>3. i - Len(v) \in 1..Len(w) /\ x = w[i - Len(v)]
    <3>1. i - Len(v) \in 1..Len(w) /\ Len(v) + (i - Len(v)) = i
      BY <1>1, <2>2
    <3> QED BY <1>2, <2>1, <3>1
  <2> QED BY <1>1, <2>3 DEF ToSet
<1>4. v \o w = <<>> <=> v = <<>> /\ w = <<>>
  <2>1. v \o w \in Seq(S)
    OBVIOUS
  <2>2. (v \o w = <<>>) <=> (Len(v \o w) = 0)
    BY <2>1, EmptySeq
  <2>3. (v = <<>> <=> Len(v) = 0) /\ (w = <<>> <=> Len(w) = 0)
    BY EmptySeq
  <2> QED BY <1>1, <1>2, <2>2, <2>3
<1> QED BY <1>3, <1>4, ToSetConcat

(* A row that a migration writes stands for effects it brings about.       *)
LEMMA RecordsCovered ==
    ASSUME NEW m \in Mig, NEW k \in ToSet(Records[m])
    PROVE  k \in Mig /\ Eff(k) \subseteq Eff(m)
<1>1. Records[m] \in Seq(Mig)
  BY RunnerAssumption
<1>2. k \in Mig
  BY <1>1 DEF ToSet
<1>3. CASE k = m
  BY <1>2, <1>3
<1>4. CASE k # m
  <2>1. k \in Read(m)
    <3>1. CASE Records[m] = <<m>>
      <4>1. ToSet(<<m>>) = {m}
        BY DEF ToSet
      <4> QED BY <3>1, <4>1, <1>4
    <3>2. CASE Records[m] # <<m>>
      BY <3>2, <1>4 DEF Read
    <3> QED BY <3>1, <3>2
  <2>2. Eff(m) = UNION {Eff(j) : j \in Read(m)}
    BY SquashAssumption
  <2> QED BY <1>2, <2>1, <2>2
<1> QED BY <1>3, <1>4

-----------------------------------------------------------------------------
(* Effects are never lost, so what a run has covered stays covered.        *)
LEMMA ForwardGrows ==
    ASSUME NEW r, NEW E, NEW F, NEW G, NEW H,
           Forward(r, E, F), E \subseteq G, F \subseteq H
    PROVE  Forward(r, G, H)
BY DEF Forward, Covered

(* A step of p forwards: nothing is lost, the rows it writes are true.     *)
Advances(p) ==
    /\ \A q \in Proc \ {p} : run'[q] = run[q]
    /\ Forward(run'[p], effects', faked')
    /\ effects \subseteq effects' /\ faked \subseteq faked'
    /\ \A k \in Mig : rows'[k] > 0 =>
         \/ rows[k] > 0 \/ Eff(k) \subseteq effects'
         \/ \E j \in faked' : k \in ToSet(Records[j])

(* What p has to know before it.                                           *)
Ready(p) == TInv /\ Forward(run[p], effects, faked)

LEMMA OneAdvance ==
    ASSUME TInv, NEW p \in Proc, NEW R, run' = [run EXCEPT ![p] = R],
           Forward(R, effects', faked'), effects \subseteq effects', faked \subseteq faked',
           \A k \in Mig : rows'[k] > 0 =>
               \/ rows[k] > 0 \/ Eff(k) \subseteq effects'
               \/ \E j \in faked' : k \in ToSet(Records[j])
    PROVE  Advances(p)
<1>1. run'[p] = R /\ \A q \in Proc \ {p} : run'[q] = run[q]
  BY DEF TInv, TypeOK
<1> QED BY <1>1 DEF Advances

LEMMA OneForward ==
    ASSUME FInv, TInv', NEW p \in Proc, Advances(p)
    PROVE  FInv'
<1>1. RowsTrue'
  BY DEF FInv, RowsTrue, Advances
<1>2. ASSUME NEW q \in Proc
      PROVE  Forward(run'[q], effects', faked')
  <2>1. CASE q = p
    BY <2>1 DEF Advances
  <2>2. CASE q # p
    <3>1. run'[q] = run[q] /\ Forward(run[q], effects, faked)
      BY <2>2 DEF FInv, Advances
    <3> QED BY <3>1, ForwardGrows DEF Advances
  <2> QED BY <2>1, <2>2
<1> QED BY <1>1, <1>2 DEF FInv

(* A commit: the rows it brings are those of a migration whose last        *)
(* statement has been executed.                                            *)
LEMMA ForwardCommit ==
    ASSUME TInv, NEW R \in Run, R.pc # "idle", R.mig \in Mig,
           Forward(R, effects, faked), CommitInto(R)
    PROVE  /\ effects' = effects \cup R.add
           /\ Forward(Committed(R), effects', faked)
           /\ \A k \in Mig : rows'[k] > 0 => rows[k] > 0 \/ Eff(k) \subseteq effects'
<1>1. effects' = effects \cup R.add
  BY DEF Forward, CommitInto, Visible
<1>2. Forward(Committed(R), effects', faked)
  <2> DEFINE C == Committed(R)
  <2>1. /\ C.pc = R.pc /\ C.mig = R.mig /\ C.dir = R.dir /\ C.todo = R.todo
        /\ C.deferred = R.deferred /\ C.add = {} /\ C.del = {} /\ C.ins = <<>>
        /\ C.recs = R.recs
    BY DEF Committed, Run
  <2> HIDE DEF C
  <2>2. Covered(C, effects', faked)
    BY <1>1, <2>1 DEF Forward, Covered
  <2>3. Keys(C)
    BY <2>1, ToSetEmpty DEF Forward, Keys
  <2>4. Order(C)
    BY <2>1 DEF Forward, Order
  <2>5. Forward(C, effects', faked)
    BY <2>1, <2>2, <2>3, <2>4 DEF Forward
  <2> QED BY <2>5 DEF C
<1>3. ASSUME NEW k \in Mig, rows'[k] > 0, ~(rows[k] > 0)
      PROVE  Eff(k) \subseteq effects'
  <2>1. R.ins \in Seq(Mig) /\ rows \in [Mig -> Nat] /\ rows' = Insert(rows, R.ins)
    BY DEF Run, TInv, TypeOK, CommitInto
  <2>2. k \in ToSet(R.ins)
    BY <1>3, <2>1, InsertType
  <2>3. R.ins # <<>>
    BY <2>2, ToSetEmpty
  <2>4. R.todo = <<>> /\ R.deferred = <<>> /\ R.pc # "record"
    BY <2>3 DEF Forward, Order
  <2>5. Eff(R.mig) \subseteq effects \cup R.add
    BY <2>4, ToSetEmpty DEF Forward, Covered
  <2>6. Eff(k) \subseteq Eff(R.mig)
    BY <2>2, RecordsCovered DEF Forward, Keys
  <2> QED BY <1>1, <2>5, <2>6
<1> QED BY <1>1, <1>2, <1>3

LEMMA ForwardChange ==
    ASSUME TInv, NEW p \in Proc, NEW R \in Run, R.pc # "idle", R.mig \in Mig,
           Forward(R, effects, faked), Changed(p, R), faked' = faked
    PROVE  Advances(p)
<1>1. CASE InTx(R)
  <2>1. run' = [run EXCEPT ![p] = R] /\ effects' = effects /\ rows' = rows
    BY <1>1 DEF Changed
  <2>2. Forward(R, effects', faked')
    BY <2>1
  <2> QED BY <2>1, <2>2, OneAdvance
<1>2. CASE ~InTx(R)
  <2> DEFINE C == Committed(R)
  <2>1. run' = [run EXCEPT ![p] = C] /\ CommitInto(R)
    BY <1>2 DEF Changed
  <2>2. /\ effects' = effects \cup R.add /\ Forward(C, effects', faked)
        /\ \A k \in Mig : rows'[k] > 0 => rows[k] > 0 \/ Eff(k) \subseteq effects'
    BY <2>1, ForwardCommit
  <2> HIDE DEF C
  <2>3. Forward(C, effects', faked')
    BY <2>2
  <2> QED BY <2>1, <2>2, <2>3, OneAdvance
<1> QED BY <1>1, <1>2

(* Field by field, a forwards statement.                                   *)
LEMMA SteppedForward ==
    ASSUME NEW r \in Run, r.dir = "forwards"
    PROVE  /\ Stepped(r).add = r.add \cup {Head(r.todo).effect}
           /\ Stepped(r).del = r.del \ {Head(r.todo).effect}
           /\ Stepped(r).deferred = r.deferred \o Head(r.todo).later
           /\ Stepped(r).todo = Tail(r.todo)
           /\ Stepped(r).ins = r.ins /\ Stepped(r).recs = r.recs
           /\ Stepped(r).pc = r.pc /\ Stepped(r).mig = r.mig /\ Stepped(r).dir = r.dir
BY DEF Stepped, Run

LEMMA SteppedBackward ==
    ASSUME NEW r \in Run, r.dir = "backwards"
    PROVE  /\ Stepped(r).add = r.add \ Yields(Head(r.todo))
           /\ Stepped(r).del = r.del \cup Yields(Head(r.todo))
           /\ Stepped(r).deferred = r.deferred /\ Stepped(r).todo = Tail(r.todo)
           /\ Stepped(r).ins = r.ins /\ Stepped(r).recs = r.recs
           /\ Stepped(r).pc = r.pc /\ Stepped(r).mig = r.mig /\ Stepped(r).dir = r.dir
BY DEF Stepped, Run

(* The migration's transaction stays open over a statement.                *)
LEMMA TxKept ==
    ASSUME CanRollbackDDL, NEW r \in Run, r.mig \in AtomicMig, r.tx = "migration",
           r.todo # <<>>
    PROVE  LET w == WithTx(r)
           IN  EndOp(ImplicitCommit(Stepped(w), Head(w.todo)), LastOfOp(w)).tx = "migration"
<1>1. WithTx(r) = r
  BY DEF WithTx, OpensTx, AtomicMigration
<1>2. Stepped(r).tx = "migration"
  BY DEF Stepped, Run
<1>3. ImplicitCommit(Stepped(r), Head(r.todo)) = Stepped(r)
  BY DEF ImplicitCommit
<1>4. EndOp(Stepped(r), LastOfOp(r)) = Stepped(r)
  BY <1>2 DEF EndOp
<1> QED BY <1>1, <1>2, <1>3, <1>4

-----------------------------------------------------------------------------
LEMMA FInvInit == Init => FInv
<1> SUFFICES ASSUME Init PROVE FInv
  OBVIOUS
<1>1. TInv
  BY TInvInit
<1>2. RowsTrue
  BY DEF Init, RowsTrue
<1>3. \A p \in Proc : Forward(run[p], effects, faked)
  BY DEF Init, Forward, Idle
<1> QED BY <1>1, <1>2, <1>3 DEF FInv

(* What a command that is not idle knows of its run.                       *)
LEMMA RunFacts ==
    ASSUME NEW p \in Proc, Ready(p), run[p].pc # "idle"
    PROVE  /\ run[p] \in Run /\ run[p].mig \in Mig /\ run[p].dir = "forwards"
           /\ Forward(run[p], effects, faked) /\ run[p].del = {}
           /\ Covered(run[p], effects, faked) /\ Keys(run[p]) /\ Order(run[p])
<1>1. run[p] \in Run /\ run[p].mig \in Mig /\ run[p].dir \in {"forwards", "backwards"}
  BY DEF Ready, TInv, TypeOK, Active
<1>2. Forward(run[p], effects, faked)
  BY DEF Ready
<1> QED BY <1>1, <1>2 DEF Forward

LEMMA ForwardPlan ==
    ASSUME NEW p \in Proc, TInv, Plan(p), run'[p].dir = "forwards"
    PROVE  Advances(p)
<1>1. PICK k \in Mig, dir \in Dirs :
        run' = [run EXCEPT ![p] = [Idle EXCEPT !.pc = "begin", !.mig = k, !.dir = dir,
                       !.todo = Statements(k, dir), !.recs = RowsToWrite(k)]]
  BY DEF Plan
<1> DEFINE R == [Idle EXCEPT !.pc = "begin", !.mig = k, !.dir = dir,
                       !.todo = Statements(k, dir), !.recs = RowsToWrite(k)]
<1>2. dir = "forwards" /\ Statements(k, dir) = Program[k] /\ RowsToWrite(k) = Records[k]
  <2>1. R.dir = dir /\ run'[p] = R
    BY <1>1 DEF Idle, TInv, TypeOK
  <2> QED BY <2>1 DEF Statements, RowsToWrite
<1>3. /\ R.pc = "begin" /\ R.mig = k /\ R.dir = "forwards" /\ R.todo = Program[k]
      /\ R.recs = Records[k] /\ R.add = {} /\ R.del = {} /\ R.ins = <<>>
      /\ R.deferred = <<>>
  BY <1>2 DEF Idle
<1> HIDE DEF R
<1>4. Covered(R, effects, faked) /\ Keys(R) /\ Order(R)
  BY <1>3, ToSetEmpty DEF Covered, Eff, Keys, Order
<1>5. run' = [run EXCEPT ![p] = R]
  BY <1>1 DEF R
<1>6. Forward(R, effects', faked') /\ rows' = rows /\ effects' = effects /\ faked' = faked
  BY <1>3, <1>4 DEF Forward, Plan
<1> QED BY <1>5, <1>6, OneAdvance

LEMMA ForwardBegin ==
    ASSUME NEW p \in Proc, Ready(p), Begin(p) \/ EndOps(p)
    PROVE  Advances(p)
<1>1. run[p].pc # "idle"
  BY DEF Begin, EndOps
<1>2. /\ run[p] \in Run /\ run[p].dir = "forwards" /\ run[p].del = {}
      /\ Covered(run[p], effects, faked) /\ Keys(run[p]) /\ Order(run[p])
  BY <1>1, RunFacts
<1>3. rows' = rows /\ effects' = effects /\ faked' = faked
  BY DEF Begin, EndOps
<1>4. PICK R \in Run :
        /\ run' = [run EXCEPT ![p] = R] /\ R.pc \in {"ops", "finish"}
        /\ R.pc = "finish" => run[p].todo = <<>>
        /\ Same(R, [run[p] EXCEPT !.pc = R.pc])
  <2>1. CASE Begin(p)
    <3> DEFINE R == [run[p] EXCEPT !.pc = "ops",
                       !.tx = IF AtomicMigration(run[p].mig) THEN "migration" ELSE "none"]
    <3>1. R \in Run /\ R.pc = "ops" /\ Same(R, [run[p] EXCEPT !.pc = R.pc])
      BY <1>2 DEF Run, Same
    <3>2. run' = [run EXCEPT ![p] = R]
      BY <2>1 DEF Begin, Ready, TInv, TypeOK
    <3> HIDE DEF R
    <3> QED BY <3>1, <3>2
  <2>2. CASE EndOps(p)
    <3> DEFINE R == [run[p] EXCEPT !.pc = "finish"]
    <3>1. R \in Run /\ R.pc = "finish" /\ Same(R, [run[p] EXCEPT !.pc = R.pc])
      BY <1>2 DEF Run, Same
    <3>2. run' = [run EXCEPT ![p] = R] /\ run[p].todo = <<>>
      BY <2>2 DEF EndOps, Ready, TInv, TypeOK
    <3> HIDE DEF R
    <3> QED BY <3>1, <3>2
  <2> QED BY <2>1, <2>2
<1>5. /\ R.mig = run[p].mig /\ R.dir = run[p].dir /\ R.todo = run[p].todo
      /\ R.deferred = run[p].deferred /\ R.add = run[p].add /\ R.del = run[p].del
      /\ R.ins = run[p].ins /\ R.recs = run[p].recs
  BY <1>2, <1>4 DEF Same, Run
<1>6. run[p].pc \in {"begin", "ops"}
  BY DEF Begin, EndOps
<1>7. Covered(R, effects, faked)
  BY <1>2, <1>5, <1>6 DEF Covered
<1>8. Keys(R)
  BY <1>2, <1>5 DEF Keys
<1>9. Order(R)
  BY <1>2, <1>4, <1>5, <1>6 DEF Order
<1>10. Forward(R, effects', faked')
  BY <1>2, <1>3, <1>5, <1>7, <1>8, <1>9 DEF Forward
<1> QED BY <1>3, <1>4, <1>10, OneAdvance DEF Ready

LEMMA ForwardFake ==
    ASSUME NEW p \in Proc, Ready(p), Fake(p)
    PROVE  Advances(p)
<1>1. run[p].pc = "begin"
  BY DEF Fake
<1>2. /\ run[p] \in Run /\ run[p].dir = "forwards" /\ run[p].del = {}
      /\ Keys(run[p]) /\ Order(run[p])
  BY <1>1, RunFacts
<1> DEFINE R == [run[p] EXCEPT !.pc = "record", !.todo = <<>>]
<1>3. /\ R.mig = run[p].mig /\ R.dir = run[p].dir /\ R.todo = <<>> /\ R.pc = "record"
      /\ R.deferred = run[p].deferred /\ R.add = run[p].add /\ R.del = run[p].del
      /\ R.ins = run[p].ins /\ R.recs = run[p].recs
  BY <1>2 DEF Run
<1>4. run' = [run EXCEPT ![p] = R]
  BY DEF Fake, Ready, TInv, TypeOK
<1>5. /\ rows' = rows /\ effects' = effects /\ faked \subseteq faked'
      /\ run[p].mig \in faked'
  BY DEF Fake
<1> HIDE DEF R
<1>6. Covered(R, effects', faked')
  BY <1>3, <1>5 DEF Covered
<1>7. Keys(R) /\ Order(R)
  BY <1>1, <1>2, <1>3 DEF Keys, Order
<1>8. Forward(R, effects', faked')
  BY <1>2, <1>3, <1>6, <1>7 DEF Forward
<1> QED BY <1>4, <1>5, <1>8, OneAdvance DEF Ready

LEMMA ForwardExecute ==
    ASSUME NEW p \in Proc, Ready(p), Execute(p)
    PROVE  Advances(p)
<1> DEFINE r == run[p]
           w == WithTx(r)
           u == Stepped(w)
           s == Head(w.todo)
           R == EndOp(ImplicitCommit(u, s), LastOfOp(w))
<1>1. r.pc = "ops" /\ r.todo # <<>> /\ Changed(p, R) /\ faked' = faked
  BY DEF Execute
<1>2. /\ r \in Run /\ r.mig \in Mig /\ r.dir = "forwards" /\ r.del = {}
      /\ Covered(r, effects, faked) /\ Keys(r) /\ Order(r)
  BY <1>1, RunFacts
<1>3. R \in Run /\ R.mig = r.mig /\ R.dir = r.dir /\ Same(R, u)
  BY <1>1, <1>2, ExecutedType
<1>4. w \in Run /\ Same(w, r)
  BY <1>2, WithTxType
<1> HIDE DEF R, r, w
<1>5. w.dir = "forwards"
  BY <1>2, <1>4 DEF Same
<1>6. /\ u.add = w.add \cup {s.effect} /\ u.del = w.del \ {s.effect}
      /\ u.deferred = w.deferred \o s.later /\ u.todo = Tail(w.todo)
      /\ u.ins = w.ins /\ u.recs = w.recs /\ u.pc = w.pc
  BY <1>4, <1>5, SteppedForward
<1> HIDE DEF u
<1>7. /\ R.add = r.add \cup {s.effect} /\ R.del = {} /\ R.deferred = r.deferred \o s.later
      /\ R.todo = Tail(r.todo) /\ R.ins = r.ins /\ R.recs = r.recs /\ R.pc = "ops"
      /\ s = Head(r.todo)
  BY <1>1, <1>2, <1>3, <1>4, <1>6 DEF Same
<1> HIDE DEF s
<1>8. Covered(R, effects, faked)
  <2>1. r.todo \in Seq(Stmt) /\ r.deferred \in Seq(Effect)
    BY <1>2 DEF Run
  <2>2. s \in Stmt
    BY <1>1, <1>7, <2>1
  <2>3. s.later \in Seq(Effect)
    BY <2>2 DEF Stmt
  <2>4. AllOf(r.todo) \subseteq Yields(s) \cup AllOf(Tail(r.todo))
    BY <1>1, <1>7, <2>1, AllOfTail
  <2>5. ToSet(r.deferred) \cup ToSet(s.later) \subseteq ToSet(r.deferred \o s.later)
    BY <2>1, <2>3, ToSetConcat
  <2>6. Yields(s) = {s.effect} \cup ToSet(s.later)
    BY DEF Yields
  <2>7. Eff(r.mig) \subseteq effects \cup r.add \cup AllOf(r.todo) \cup ToSet(r.deferred)
    BY <1>1, <1>2 DEF Covered
  <2> QED BY <1>3, <1>7, <2>4, <2>5, <2>6, <2>7 DEF Covered
<1>9. Keys(R)
  BY <1>2, <1>3, <1>7 DEF Keys
<1>10. r.ins = <<>>
  BY <1>1, <1>2 DEF Order
<1>11. Order(R)
  BY <1>7, <1>10 DEF Order
<1>12. Forward(R, effects, faked)
  BY <1>2, <1>3, <1>7, <1>8, <1>9, <1>11 DEF Forward
<1> QED BY <1>1, <1>2, <1>3, <1>7, <1>12, ForwardChange DEF Ready

LEMMA ForwardRecordInside ==
    ASSUME NEW p \in Proc, Ready(p), RecordInside(p)
    PROVE  Advances(p)
<1> DEFINE r == run[p]
           i == Append(r.ins, Head(r.recs))
           c == Tail(r.recs)
           R == [r EXCEPT !.ins = i, !.recs = c]
<1>1. /\ r.pc = "ops" /\ r.todo = <<>> /\ r.deferred = <<>> /\ r.recs # <<>>
      /\ faked' = faked
  BY DEF RecordInside, RecordsBeforeFinish
<1>2. /\ r \in Run /\ r.mig \in Mig /\ r.dir = "forwards" /\ r.del = {}
      /\ Covered(r, effects, faked) /\ Keys(r) /\ Order(r)
  BY <1>1, RunFacts
<1>3. Changed(p, R)
  BY DEF RecordInside
<1> HIDE DEF r
<1>4. r.ins \in Seq(Mig) /\ r.recs \in Seq(Mig)
  BY <1>2 DEF Run
<1>5. i \in Seq(Mig) /\ c \in Seq(Mig) /\ Head(r.recs) \in Mig
  BY <1>1, <1>4
<1>6. Head(r.recs) \in ToSet(r.recs) /\ ToSet(c) \subseteq ToSet(r.recs)
  BY <1>1, <1>4, ToSetTail
<1>7. ToSet(i) \subseteq ToSet(r.ins) \cup {Head(r.recs)}
  BY <1>4, <1>5, ToSetAppend
<1> HIDE DEF i, c
<1>8. R \in Run
  BY <1>2, <1>5 DEF Run
<1>9. /\ R.pc = r.pc /\ R.mig = r.mig /\ R.dir = r.dir /\ R.todo = r.todo
      /\ R.deferred = r.deferred /\ R.add = r.add /\ R.del = r.del
      /\ R.ins = i /\ R.recs = c
  BY <1>2 DEF Run
<1> HIDE DEF R
<1>10. Covered(R, effects, faked)
  BY <1>2, <1>9 DEF Covered
<1>11. Keys(R)
  BY <1>2, <1>6, <1>7, <1>9 DEF Keys
<1>12. Order(R)
  BY <1>1, <1>9 DEF Order
<1>13. Forward(R, effects, faked)
  BY <1>2, <1>9, <1>10, <1>11, <1>12 DEF Forward
<1> QED BY <1>1, <1>2, <1>3, <1>8, <1>9, <1>13, ForwardChange DEF Ready

LEMMA ForwardRunDeferred ==
    ASSUME NEW p \in Proc, Ready(p), RunDeferred(p)
    PROVE  Advances(p)
<1> DEFINE r == run[p]
           e == Head(r.deferred)
           a == r.add \cup {e}
           d == Tail(r.deferred)
           R == [r EXCEPT !.add = a, !.deferred = d]
<1>1. r.pc = "finish" /\ r.deferred # <<>> /\ faked' = faked
  BY DEF RunDeferred
<1>2. /\ r \in Run /\ r.mig \in Mig /\ r.dir = "forwards" /\ r.del = {}
      /\ Covered(r, effects, faked) /\ Keys(r) /\ Order(r)
  BY <1>1, RunFacts
<1>3. Changed(p, R)
  BY DEF RunDeferred
<1> HIDE DEF r
<1>4. r.deferred \in Seq(Effect) /\ r.add \in SUBSET Effect
  BY <1>2 DEF Run
<1>5. a \in SUBSET Effect /\ d \in Seq(Effect)
  BY <1>1, <1>4
<1>6. ToSet(r.deferred) = {e} \cup ToSet(d) /\ r.add \cup {e} = a
  BY <1>1, <1>4, ToSetTail
<1> HIDE DEF a, d, e
<1>7. R \in Run
  BY <1>2, <1>5 DEF Run
<1>8. /\ R.pc = r.pc /\ R.mig = r.mig /\ R.dir = r.dir /\ R.todo = r.todo
      /\ R.deferred = d /\ R.add = a /\ R.del = r.del
      /\ R.ins = r.ins /\ R.recs = r.recs
  BY <1>2 DEF Run
<1> HIDE DEF R
<1>9. Covered(R, effects, faked)
  BY <1>1, <1>2, <1>6, <1>8 DEF Covered
<1>10. Keys(R)
  BY <1>2, <1>8 DEF Keys
<1>11. Order(R)
  BY <1>1, <1>2, <1>8 DEF Order
<1>12. Forward(R, effects, faked)
  BY <1>2, <1>8, <1>9, <1>10, <1>11 DEF Forward
<1> QED BY <1>1, <1>2, <1>3, <1>7, <1>8, <1>12, ForwardChange DEF Ready

LEMMA IdleForward ==
    ASSUME NEW E, NEW F
    PROVE  Forward(Idle, E, F)
BY DEF Forward, Idle

LEMMA ForwardFinish ==
    ASSUME NEW p \in Proc, Ready(p), Finish(p)
    PROVE  Advances(p)
<1> DEFINE r == run[p]
           R == AfterFinish(r)
           C == Committed(r)
           D == [C EXCEPT !.pc = "record"]
<1>1. r.pc = "finish" /\ r.deferred = <<>> /\ faked' = faked
  BY DEF Finish
<1>2. /\ r \in Run /\ r.mig \in Mig /\ r.dir = "forwards" /\ r.del = {}
      /\ Forward(r, effects, faked) /\ Order(r)
  BY <1>1, RunFacts
<1>3. CommitInto(r) /\ run' = [run EXCEPT ![p] = R] /\ (R = Idle \/ R = D)
  BY DEF Finish, AfterFinish
<1> HIDE DEF R, r
<1>4. /\ effects' = effects \cup r.add /\ Forward(C, effects', faked)
      /\ \A k \in Mig : rows'[k] > 0 => rows[k] > 0 \/ Eff(k) \subseteq effects'
  BY <1>1, <1>2, <1>3, ForwardCommit DEF Ready
<1>5. C \in Run /\ C.pc = "finish" /\ C.add = {} /\ C.ins = <<>> /\ C.deferred = <<>>
  BY <1>1, <1>2, CommittedType DEF Committed, Run
<1> HIDE DEF C
<1>6. Forward(D, effects', faked')
  <2>1. /\ D.pc = "record" /\ D.mig = C.mig /\ D.dir = C.dir /\ D.todo = C.todo
        /\ D.deferred = C.deferred /\ D.add = C.add /\ D.del = C.del
        /\ D.ins = C.ins /\ D.recs = C.recs
    BY <1>5 DEF Run
  <2> HIDE DEF D
  <2>2. C.dir # "backwards" /\ C.del = {} /\ Covered(C, effects', faked) /\ Keys(C) /\ Order(C)
    BY <1>4, <1>5 DEF Forward
  <2>3. Covered(D, effects', faked')
    BY <1>1, <1>5, <2>1, <2>2 DEF Covered
  <2>4. Keys(D)
    BY <2>1, <2>2 DEF Keys
  <2>5. Order(D)
    BY <1>5, <2>1, <2>2 DEF Order
  <2> QED BY <2>1, <2>2, <2>3, <2>4, <2>5 DEF Forward
<1> HIDE DEF D
<1>7. Forward(R, effects', faked')
  BY <1>3, <1>6, IdleForward
<1> QED BY <1>1, <1>3, <1>4, <1>7, OneAdvance DEF Ready

LEMMA ForwardRecord ==
    ASSUME NEW p \in Proc, Ready(p), Record(p)
    PROVE  Advances(p)
<1> DEFINE r == run[p]
           c == Tail(r.recs)
           C == [r EXCEPT !.recs = c]
           R == IF Len(r.recs) = 1 THEN Idle ELSE C
           h == Head(r.recs)
<1>1. r.pc = "record" /\ r.recs # <<>> /\ faked' = faked /\ effects' = effects
  BY DEF Record
<1>2. /\ r \in Run /\ r.mig \in Mig /\ r.dir = "forwards" /\ r.del = {}
      /\ Covered(r, effects, faked) /\ Keys(r) /\ Order(r)
  BY <1>1, RunFacts
<1>3. run' = [run EXCEPT ![p] = R] /\ (R = Idle \/ R = C)
  BY DEF Record
<1>4. rows' = [rows EXCEPT ![h] = rows[h] + 1] /\ rows \in [Mig -> Nat]
  BY <1>2 DEF Record, Recorded, Ready, TInv, TypeOK
<1> HIDE DEF R, r
<1>5. r.recs \in Seq(Mig)
  BY <1>2 DEF Run
<1>6. h \in ToSet(r.recs) /\ ToSet(c) \subseteq ToSet(r.recs)
  BY <1>1, <1>5, ToSetTail
<1> HIDE DEF h, c
<1>7. h \in Mig /\ (Eff(h) \subseteq effects \/ \E j \in faked : h \in ToSet(Records[j]))
  <2>1. h \in ToSet(Records[r.mig])
    BY <1>2, <1>6 DEF Keys
  <2>2. h \in Mig /\ Eff(h) \subseteq Eff(r.mig)
    BY <1>2, <2>1, RecordsCovered
  <2>3. r.add = {} /\ r.todo = <<>> /\ r.deferred = <<>>
    BY <1>1, <1>2 DEF Order
  <2>4. Eff(r.mig) \subseteq effects \/ r.mig \in faked
    BY <1>2, <2>3, ToSetEmpty DEF Covered
  <2> QED BY <2>1, <2>2, <2>4
<1>8. \A k \in Mig : rows'[k] > 0 => \/ rows[k] > 0 \/ Eff(k) \subseteq effects'
                                     \/ \E j \in faked' : k \in ToSet(Records[j])
  <2> SUFFICES ASSUME NEW k \in Mig, rows'[k] > 0, ~(rows[k] > 0)
               PROVE  Eff(k) \subseteq effects \/ \E j \in faked : k \in ToSet(Records[j])
    BY <1>1
  <2>1. k = h
    BY <1>4
  <2> QED BY <1>7, <2>1
<1>9. Forward(C, effects', faked')
  <2>1. /\ C.pc = r.pc /\ C.mig = r.mig /\ C.dir = r.dir /\ C.todo = r.todo
        /\ C.deferred = r.deferred /\ C.add = r.add /\ C.del = r.del
        /\ C.ins = r.ins /\ C.recs = c
    BY <1>2 DEF Run
  <2> HIDE DEF C
  <2>2. Covered(C, effects', faked')
    BY <1>1, <1>2, <2>1 DEF Covered
  <2>3. Keys(C)
    BY <1>2, <1>6, <2>1 DEF Keys
  <2>4. Order(C)
    BY <1>2, <2>1 DEF Order
  <2> QED BY <1>2, <2>1, <2>2, <2>3, <2>4 DEF Forward
<1> HIDE DEF C
<1>10. Forward(R, effects', faked')
  BY <1>3, <1>9, IdleForward
<1> QED BY <1>1, <1>3, <1>8, <1>10, OneAdvance DEF Ready

LEMMA ForwardError ==
    ASSUME NEW p \in Proc, Ready(p), Refused(p) \/ Fault(p)
    PROVE  Advances(p)
<1>1. run' = [run EXCEPT ![p] = Idle] /\ effects' = effects /\ rows' = rows /\ faked' = faked
  BY DEF Refused, Fault, Abandon
<1>2. Forward(Idle, effects', faked')
  BY IdleForward
<1> QED BY <1>1, <1>2, OneAdvance DEF Ready

LEMMA FInvNext ==
    ASSUME Dirs \subseteq {"forwards"}
    PROVE  FInv /\ [Next]_vars => FInv'
<1> SUFFICES ASSUME FInv, [Next]_vars PROVE FInv'
  OBVIOUS
<1>1. TInv'
  BY TInvNext DEF FInv
<1>2. CASE UNCHANGED vars
  BY <1>1, <1>2 DEF vars, FInv, RowsTrue
<1>3. CASE Done
  BY <1>1, <1>3 DEF Done, vars, FInv, RowsTrue
<1>4. ASSUME NEW p \in Proc, Plan(p) \/ Step(p) \/ Fault(p)
      PROVE  FInv'
  <2>1. Ready(p)
    BY DEF FInv, Ready
  <2>2. Plan(p) => run'[p].dir = "forwards"
    <3> SUFFICES ASSUME Plan(p) PROVE run'[p].dir = "forwards"
      OBVIOUS
    <3>1. PICK k \in Mig, dir \in Dirs :
            run' = [run EXCEPT ![p] = [Idle EXCEPT !.pc = "begin", !.mig = k, !.dir = dir,
                           !.todo = Statements(k, dir), !.recs = RowsToWrite(k)]]
      BY DEF Plan
    <3> QED BY <3>1 DEF Idle, FInv, TInv, TypeOK
  <2>3. Advances(p)
    BY <1>4, <2>1, <2>2, ForwardPlan, ForwardBegin, ForwardFake, ForwardExecute,
       ForwardRecordInside, ForwardRunDeferred, ForwardFinish, ForwardRecord, ForwardError
    DEF Step, Ready
  <2> QED BY <1>1, <2>3, OneForward
<1> QED BY <1>2, <1>3, <1>4 DEF Next

(* RecordMigration never runs ahead of the schema: for any programs,       *)
(* squashes, backend and number of concurrent commands, whatever fails or  *)
(* dies and whenever, a migration that the rows make applied has all its   *)
(* effects, deferred ones included, unless one that writes its rows was    *)
(* faked.  Commands migrate forwards here; UnapplyMigration removes the    *)
(* row only after the effects have gone, which is the exception that       *)
(* RecordedIsApplied makes for the other direction.                        *)
THEOREM RecordTrue ==
    ASSUME Dirs \subseteq {"forwards"}
    PROVE  Spec => []RecordedIsApplied
<1>1. Spec => []FInv
  BY FInvInit, FInvNext, PTL DEF Spec
<1>2. FInv => RecordedIsApplied
  <2> SUFFICES ASSUME FInv, NEW k \in Mig, ReadApplied(k), ~(Eff(k) \subseteq effects)
               PROVE  \E j \in Mig : /\ ToSet(Records[j]) \cap ToSet(Records[k]) # {}
                                     /\ j \in faked \/ RunsBackwards(j)
    BY DEF RecordedIsApplied
  <2>1. Eff(k) = UNION {Eff(j) : j \in Read(k)}
    BY SquashAssumption
  <2>2. PICK j \in Read(k) : ~(Eff(j) \subseteq effects)
    BY <2>1
  <2>3. Read(k) \subseteq ToSet(Records[k])
    BY DEF Read, ToSet
  <2>4. j \in Mig /\ rows[j] > 0
    BY <2>3, RecordsCovered DEF ReadApplied
  <2>5. PICK m \in faked : j \in ToSet(Records[m])
    BY <2>2, <2>4 DEF FInv, RowsTrue
  <2>6. m \in Mig
    BY DEF FInv, TInv, TypeOK
  <2> QED BY <2>3, <2>5, <2>6
<1> QED BY <1>1, <1>2, PTL
=============================================================================
