----------------------- MODULE RunnerOperations_proofs -----------------------
(***************************************************************************)
(* An operation that has a transaction of its own is seen whole or not at  *)
(* all: for any programs, on any backend, in both directions and for any   *)
(* number of commands.                                                     *)
(***************************************************************************)
EXTENDS MigrationRunner_proofs

(* Such an operation defers nothing.  RunGo is the only one that can have  *)
(* a transaction of its own; what its function were to defer is executed   *)
(* by Finish, after that transaction.                                      *)
NothingQueued ==
    \A k \in Mig : \A i \in DOMAIN Program[k] :
        OwnTransaction(k, Program[k][i].op) => Program[k][i].later = <<>>

(* What the statements of operation n in a list bring.                     *)
Part(v, n) == UNION {Yields(v[i]) : i \in {i \in DOMAIN v : v[i].op = n}}

(* The statements of each operation come one after the other.              *)
Blocks(v) == \A i, j \in DOMAIN v : v[i].op = v[j].op => \A l \in i..j : v[l].op = v[i].op

Closed(r) == r.tx = "none" /\ r.add = {} /\ r.del = {}

(* The statements a run has yet to send are of its migration, and of an    *)
(* operation with its own transaction all of them, unless it is in it.     *)
Ahead(r) ==
    /\ ToSet(r.todo) \subseteq ToSet(Program[r.mig]) /\ Blocks(r.todo)
    /\ \A s \in ToSet(r.todo) : OwnTransaction(r.mig, s.op) =>
         \/ Part(r.todo, s.op) = OpEff(r.mig, s.op)
         \/ r.tx = "operation" /\ s.op = Head(r.todo).op

(* A transaction is open, for what the rest of W and the list v bring.     *)
Doing(r, v, W) ==
    /\ r.dir = "forwards" => r.del = {} /\ r.add \cup v = W
    /\ r.dir = "backwards" => r.add = {} /\ r.del \cup v = W

(* A migration in one transaction.                                         *)
AsOne(r) ==
    /\ r.tx = "migration"
    /\ r.dir = "backwards" => r.deferred = <<>>
    /\ Doing(r, AllOf(r.todo) \cup ToSet(r.deferred), Eff(r.mig))

(* A migration by operations: a transaction is the one of the operation    *)
(* whose statement is next.                                                *)
ByParts(r) ==
    /\ r.tx = "none" => Closed(r)
    /\ r.tx # "none" =>
         /\ r.tx = "operation" /\ r.todo # <<>> /\ OwnTransaction(r.mig, Head(r.todo).op)
         /\ Doing(r, Part(r.todo, Head(r.todo).op), OpEff(r.mig, Head(r.todo).op))

(* What is deferred was deferred by a statement of the migration.          *)
Queued(r) == \A e \in ToSet(r.deferred) : \E s \in ToSet(Program[r.mig]) : e \in ToSet(s.later)

Partial(r) ==
    r.pc # "idle" =>
      /\ Queued(r)
      /\ r.pc \in {"begin", "record"} => Closed(r)
      /\ r.pc = "begin" => AllOf(r.todo) = Eff(r.mig) /\ r.deferred = <<>>
      /\ r.pc = "finish" => r.todo = <<>>
      /\ r.pc \in {"begin", "ops"} => Ahead(r)
      /\ AtomicMigration(r.mig) /\ r.pc \in {"ops", "finish"} => AsOne(r)
      /\ ~AtomicMigration(r.mig) /\ r.pc = "ops" => ByParts(r)
      /\ ~AtomicMigration(r.mig) /\ r.pc = "finish" => Closed(r)

PInv == TInv /\ OperationAllOrNothing /\ \A p \in Proc : Partial(run[p])

-----------------------------------------------------------------------------
(* Lists of statements.                                                    *)
LEMMA PartTail ==
    ASSUME NEW v \in Seq(Stmt), v # <<>>, NEW n
    PROVE  Part(v, n) = (IF Head(v).op = n THEN Yields(Head(v)) ELSE {}) \cup Part(Tail(v), n)
<1> DEFINE first == IF Head(v).op = n THEN Yields(Head(v)) ELSE {}
<1>1. ASSUME NEW e \in Part(v, n), e \notin first
      PROVE  e \in Part(Tail(v), n)
  <2>1. PICK i \in DOMAIN v : v[i].op = n /\ e \in Yields(v[i])
    BY DEF Part
  <2>2. i # 1
    BY <1>1, <2>1, TailIndex
  <2>3. i - 1 \in DOMAIN Tail(v) /\ Tail(v)[i - 1] = v[i]
    BY <2>2, TailIndex
  <2> QED BY <2>1, <2>3 DEF Part
<1>2. ASSUME NEW e \in Part(Tail(v), n)
      PROVE  e \in Part(v, n)
  <2>1. PICK i \in DOMAIN Tail(v) : Tail(v)[i].op = n /\ e \in Yields(Tail(v)[i])
    BY DEF Part
  <2>2. i + 1 \in DOMAIN v /\ v[i + 1] = Tail(v)[i]
    BY TailIndex
  <2> QED BY <2>1, <2>2 DEF Part
<1>3. first \subseteq Part(v, n)
  <2>1. 1 \in DOMAIN v /\ v[1] = Head(v)
    BY TailIndex
  <2> QED BY <2>1 DEF Part
<1> QED BY <1>1, <1>2, <1>3

LEMMA PartNone ==
    ASSUME NEW v, NEW n, \A s \in ToSet(v) : s.op # n
    PROVE  Part(v, n) = {}
BY DEF Part, ToSet

LEMMA BlocksTail ==
    ASSUME NEW v \in Seq(Stmt), v # <<>>, Blocks(v)
    PROVE  Blocks(Tail(v))
<1> SUFFICES ASSUME NEW i \in DOMAIN Tail(v), NEW j \in DOMAIN Tail(v),
                    Tail(v)[i].op = Tail(v)[j].op, NEW l \in i..j
             PROVE  Tail(v)[l].op = Tail(v)[i].op
  BY DEF Blocks
<1>1. Tail(v) \in Seq(Stmt) /\ DOMAIN Tail(v) = 1..Len(Tail(v)) /\ Len(Tail(v)) \in Nat
  OBVIOUS
<1>2. l \in DOMAIN Tail(v) /\ l + 1 \in (i + 1)..(j + 1)
  BY <1>1
<1>3. /\ i + 1 \in DOMAIN v /\ v[i + 1] = Tail(v)[i]
      /\ j + 1 \in DOMAIN v /\ v[j + 1] = Tail(v)[j]
      /\ v[l + 1] = Tail(v)[l]
  BY <1>2, TailIndex
<1> QED BY <1>2, <1>3 DEF Blocks

(* After the last statement of an operation there is none of it.           *)
LEMMA BlockEnds ==
    ASSUME NEW v \in Seq(Stmt), v # <<>>, Blocks(v), Len(v) = 1 \/ v[2].op # Head(v).op
    PROVE  \A s \in ToSet(Tail(v)) : s.op # Head(v).op
<1> SUFFICES ASSUME NEW s \in ToSet(Tail(v)), s.op = Head(v).op
             PROVE  FALSE
  OBVIOUS
<1>1. PICK i \in DOMAIN Tail(v) : s = Tail(v)[i]
  BY DEF ToSet
<1>2. i + 1 \in DOMAIN v /\ v[i + 1] = s /\ 1 \in DOMAIN v /\ v[1] = Head(v)
  BY <1>1, TailIndex
<1>3. DOMAIN v = 1..Len(v) /\ Len(v) \in Nat /\ i \in Nat /\ i > 0
  <2>1. Tail(v) \in Seq(Stmt) /\ DOMAIN Tail(v) = 1..Len(Tail(v)) /\ Len(Tail(v)) \in Nat
    OBVIOUS
  <2> QED BY <2>1
<1>4. Len(v) # 1 /\ 2 \in 1..(i + 1)
  BY <1>2, <1>3
<1>5. v[2].op = v[1].op
  BY <1>2, <1>4 DEF Blocks
<1> QED BY <1>2, <1>4, <1>5

(* The next statement is of the same operation.                            *)
LEMMA BlockGoes ==
    ASSUME NEW v \in Seq(Stmt), v # <<>>, ~(Len(v) = 1 \/ v[2].op # Head(v).op)
    PROVE  Tail(v) # <<>> /\ Head(Tail(v)).op = Head(v).op
<1>1. DOMAIN v = 1..Len(v) /\ Len(v) \in Nat /\ Len(v) > 1
  <2>1. DOMAIN v = 1..Len(v) /\ Len(v) \in Nat /\ 1 \in DOMAIN v
    BY TailIndex
  <2>2. Len(v) # 1
    OBVIOUS
  <2> QED BY <2>1, <2>2
<1>2. Len(Tail(v)) = Len(v) - 1 /\ Tail(v) \in Seq(Stmt)
  BY <1>1, HeadTailProperties
<1>3. Tail(v) # <<>>
  <2>1. Len(Tail(v)) # 0
    BY <1>1, <1>2
  <2> QED BY <2>1, <1>2, EmptySeq
<1>4. 2 \in DOMAIN v /\ Tail(v)[1] = v[2] /\ Head(Tail(v)) = Tail(v)[1]
  <2>1. 2 \in DOMAIN v
    BY <1>1
  <2>2. Tail(v)[2 - 1] = v[2]
    BY <2>1, TailIndex
  <2>3. Head(Tail(v)) = Tail(v)[1]
    BY <1>2, <1>3
  <2> QED BY <2>1, <2>2, <2>3
<1> QED BY <1>3, <1>4

LEMMA ReverseIndex ==
    ASSUME NEW S, NEW v \in Seq(S)
    PROVE  /\ DOMAIN Reverse(v) = DOMAIN v
           /\ DOMAIN v = 1..Len(v) /\ Len(v) \in Nat
           /\ \A i \in DOMAIN v : /\ Len(v) - i + 1 \in DOMAIN v
                                  /\ Reverse(v)[i] = v[Len(v) - i + 1]
                                  /\ Reverse(v)[Len(v) - i + 1] = v[i]
<1>1. Len(v) \in Nat /\ DOMAIN v = 1..Len(v)
  OBVIOUS
<1>2. Reverse(v) = [i \in 1..Len(v) |-> v[Len(v) - i + 1]]
  BY DEF Reverse
<1>3. \A i \in 1..Len(v) : Len(v) - i + 1 \in 1..Len(v) /\ Len(v) - (Len(v) - i + 1) + 1 = i
  BY <1>1
<1> QED BY <1>1, <1>2, <1>3

LEMMA ReverseFacts ==
    ASSUME NEW v \in Seq(Stmt), NEW n
    PROVE  /\ Part(Reverse(v), n) = Part(v, n) /\ ToSet(Reverse(v)) = ToSet(v)
           /\ Blocks(v) => Blocks(Reverse(v))
<1>1. Part(Reverse(v), n) = Part(v, n)
  <2>1. ASSUME NEW e \in Part(v, n) PROVE e \in Part(Reverse(v), n)
    <3>1. PICK i \in DOMAIN v : v[i].op = n /\ e \in Yields(v[i])
      BY DEF Part
    <3> QED BY <3>1, ReverseIndex DEF Part
  <2>2. ASSUME NEW e \in Part(Reverse(v), n) PROVE e \in Part(v, n)
    <3>1. PICK i \in DOMAIN v : Reverse(v)[i].op = n /\ e \in Yields(Reverse(v)[i])
      BY ReverseIndex DEF Part
    <3> QED BY <3>1, ReverseIndex DEF Part
  <2> QED BY <2>1, <2>2
<1>2. ToSet(Reverse(v)) = ToSet(v)
  <2>1. ASSUME NEW i \in DOMAIN v
        PROVE  /\ \E j \in DOMAIN v : Reverse(v)[j] = v[i]
               /\ \E j \in DOMAIN v : v[j] = Reverse(v)[i]
    BY ReverseIndex
  <2> QED BY <2>1, ReverseIndex DEF ToSet
<1>3. ASSUME Blocks(v), NEW i \in DOMAIN v, NEW j \in DOMAIN v,
             Reverse(v)[i].op = Reverse(v)[j].op, NEW l \in i..j
      PROVE  Reverse(v)[l].op = Reverse(v)[i].op
  <2> DEFINE x == Len(v) - i + 1
             y == Len(v) - j + 1
             z == Len(v) - l + 1
  <2>1. /\ x \in DOMAIN v /\ y \in DOMAIN v
        /\ Reverse(v)[i] = v[x] /\ Reverse(v)[j] = v[y]
    BY ReverseIndex
  <2>2. l \in DOMAIN v /\ z \in y..x
    BY ReverseIndex
  <2>3. Reverse(v)[l] = v[z]
    BY <2>2, ReverseIndex
  <2> HIDE DEF x, y, z
  <2>4. v[z].op = v[y].op
    BY <1>3, <2>1, <2>2 DEF Blocks
  <2> QED BY <1>3, <2>1, <2>3, <2>4
<1>4. Blocks(v) => Blocks(Reverse(v))
  BY <1>3, ReverseIndex DEF Blocks
<1> QED BY <1>1, <1>2, <1>4

-----------------------------------------------------------------------------
(* Operations.                                                             *)
LEMMA ProgramFacts ==
    ASSUME NEW k \in Mig, NEW n
    PROVE  /\ Program[k] \in Seq(Stmt) /\ Blocks(Program[k])
           /\ OpEff(k, n) = Part(Program[k], n)
<1>1. Program[k] \in Seq(Stmt)
  BY RunnerAssumption
<1>2. Blocks(Program[k])
  BY OperationsAssumption DEF Blocks
<1>3. OpEff(k, n) = Part(Program[k], n)
  BY DEF OpEff, Part
<1> QED BY <1>1, <1>2, <1>3

LEMMA StatementsFacts ==
    ASSUME NEW k \in Mig, NEW dir, NEW n
    PROVE  LET v == Statements(k, dir)
           IN  /\ v \in Seq(Stmt) /\ Blocks(v) /\ ToSet(v) = ToSet(Program[k])
               /\ Part(v, n) = OpEff(k, n)
BY ProgramFacts, ReverseFacts, StatementsType DEF Statements

LEMMA StatementEffects ==
    ASSUME NEW k \in Mig, NEW s \in ToSet(Program[k])
    PROVE  Yields(s) \subseteq OpEff(k, s.op)
<1>1. PICK i \in DOMAIN Program[k] : s = Program[k][i]
  BY DEF ToSet
<1> QED BY <1>1 DEF OpEff

(* Whether an operation has its own transaction, seen from one statement.  *)
LEMMA OwnIff ==
    ASSUME NEW k \in Mig, NEW s \in ToSet(Program[k]), NEW r, r.mig = k
    PROVE  OwnTransaction(k, s.op) <=>
             ~AtomicMigration(k) /\ SupportsTransactions /\ AtomicOperation(r, s)
<1>1. PICK i \in DOMAIN Program[k] : s = Program[k][i]
  BY DEF ToSet
<1>2. AtomicOperation(r, s) <=> s.atomic = "true" \/ (k \in AtomicMig /\ s.atomic = "nil")
  BY DEF AtomicOperation
<1>3. \A j \in DOMAIN Program[k] : AtomicOperation([mig |-> k], Program[k][j]) <=>
         \/ Program[k][j].atomic = "true"
         \/ k \in AtomicMig /\ Program[k][j].atomic = "nil"
  BY DEF AtomicOperation
<1>4. \A j \in DOMAIN Program[k] : Program[k][j].op = s.op => Program[k][j].atomic = s.atomic
  BY <1>1, OperationsAssumption
<1> QED BY <1>1, <1>2, <1>3, <1>4 DEF OwnTransaction

(* A set of effects that cuts through no operation with a transaction of   *)
(* its own.                                                                *)
Solid(X) == \A k \in Mig : \A i \in DOMAIN Program[k] :
              OwnTransaction(k, Program[k][i].op) =>
                \/ OpEff(k, Program[k][i].op) \subseteq X
                \/ OpEff(k, Program[k][i].op) \cap X = {}

LEMMA WholeKept ==
    ASSUME OperationAllOrNothing, NEW X, Solid(X),
           effects' = effects \cup X \/ effects' = effects \ X
    PROVE  OperationAllOrNothing'
<1> SUFFICES ASSUME NEW k \in Mig, NEW i \in DOMAIN Program[k],
                    OwnTransaction(k, Program[k][i].op)
             PROVE  \/ OpEff(k, Program[k][i].op) \subseteq effects'
                    \/ OpEff(k, Program[k][i].op) \cap effects' = {}
  BY DEF OperationAllOrNothing
<1> DEFINE W == OpEff(k, Program[k][i].op)
<1>1. W \subseteq X \/ W \cap X = {}
  BY DEF Solid
<1>2. W \subseteq effects \/ W \cap effects = {}
  BY DEF OperationAllOrNothing
<1> HIDE DEF W
<1>3. W \subseteq effects' \/ W \cap effects' = {}
  BY <1>1, <1>2
<1> QED BY <1>3 DEF W

LEMMA SolidEmpty == Solid({})
BY DEF Solid

LEMMA Shared ==
    ASSUME NEW j \in Mig, NEW s \in ToSet(Program[j]), NEW k \in Mig,
           NEW i \in DOMAIN Program[k], OwnTransaction(k, Program[k][i].op),
           OpEff(j, s.op) \cap OpEff(k, Program[k][i].op) # {}
    PROVE  /\ OpEff(j, s.op) = OpEff(k, Program[k][i].op)
           /\ OwnTransaction(j, s.op) \/ AtomicMigration(j)
<1>1. PICK x \in DOMAIN Program[j] : s = Program[j][x]
  BY DEF ToSet
<1> QED BY <1>1, OperationsAssumption

(* An atomic migration, an operation in its own transaction, and anything  *)
(* of an operation without one.                                            *)
LEMMA SolidMigration ==
    ASSUME NEW j \in Mig, AtomicMigration(j)
    PROVE  Solid(Eff(j))
<1> SUFFICES ASSUME NEW k \in Mig, NEW i \in DOMAIN Program[k],
                    OwnTransaction(k, Program[k][i].op),
                    NEW e \in OpEff(k, Program[k][i].op), e \in Eff(j)
             PROVE  OpEff(k, Program[k][i].op) \subseteq Eff(j)
  BY DEF Solid
<1>1. Program[j] \in Seq(Stmt) /\ DOMAIN Program[j] = 1..Len(Program[j])
  BY RunnerAssumption
<1>2. PICK x \in DOMAIN Program[j] : e \in Yields(Program[j][x])
  BY <1>1 DEF Eff, AllOf
<1>3. PICK s \in ToSet(Program[j]) : s = Program[j][x]
  BY DEF ToSet
<1>4. e \in OpEff(j, s.op)
  BY <1>2, <1>3, StatementEffects
<1>5. OpEff(j, s.op) \cap OpEff(k, Program[k][i].op) # {}
  BY <1>4
<1>6. OpEff(j, s.op) = OpEff(k, Program[k][i].op)
  BY <1>5, Shared
<1>7. OpEff(j, s.op) \subseteq Eff(j)
  BY <1>1 DEF OpEff, Eff, AllOf
<1> QED BY <1>6, <1>7

LEMMA SolidOperation ==
    ASSUME NEW j \in Mig, NEW s \in ToSet(Program[j])
    PROVE  Solid(OpEff(j, s.op))
<1> SUFFICES ASSUME NEW k \in Mig, NEW i \in DOMAIN Program[k],
                    OwnTransaction(k, Program[k][i].op),
                    OpEff(k, Program[k][i].op) \cap OpEff(j, s.op) # {}
             PROVE  OpEff(k, Program[k][i].op) \subseteq OpEff(j, s.op)
  BY DEF Solid
<1> QED BY Shared

LEMMA SolidLoose ==
    ASSUME NEW j \in Mig, NEW s \in ToSet(Program[j]), ~AtomicMigration(j),
           ~OwnTransaction(j, s.op), NEW X, X \subseteq OpEff(j, s.op)
    PROVE  Solid(X)
<1> SUFFICES ASSUME NEW k \in Mig, NEW i \in DOMAIN Program[k],
                    OwnTransaction(k, Program[k][i].op),
                    OpEff(k, Program[k][i].op) \cap X # {}
             PROVE  FALSE
  BY DEF Solid
<1> QED BY Shared

-----------------------------------------------------------------------------
(* One command moves, and what is committed cuts through no operation.     *)
LEMMA OnePartial ==
    ASSUME PInv, TInv', NEW p \in Proc, NEW R, run' = [run EXCEPT ![p] = R], Partial(R),
           NEW X, Solid(X), effects' = effects \cup X \/ effects' = effects \ X
    PROVE  PInv'
<1>1. OperationAllOrNothing'
  BY WholeKept DEF PInv
<1>2. ASSUME NEW q \in Proc
      PROVE  Partial(run'[q])
  <2>1. run'[q] = IF q = p THEN R ELSE run[q]
    BY DEF PInv, TInv, TypeOK
  <2> QED BY <2>1 DEF PInv
<1>3. (\A q \in Proc : Partial(run[q]))'
  BY <1>2
<1> QED BY <1>1, <1>3 DEF PInv

LEMMA QuietPartial ==
    ASSUME PInv, TInv', NEW p \in Proc, NEW R, run' = [run EXCEPT ![p] = R], Partial(R),
           effects' = effects
    PROVE  PInv'
<1>1. effects' = effects \cup {}
  OBVIOUS
<1> QED BY <1>1, SolidEmpty, OnePartial

LEMMA IdlePartial == Partial(Idle)
BY DEF Partial, Idle

(* What a command that is not idle knows of its run.                       *)
LEMMA PartialFacts ==
    ASSUME PInv, NEW p \in Proc, run[p].pc # "idle"
    PROVE  /\ run[p] \in Run /\ run[p].mig \in Mig
           /\ run[p].dir \in {"forwards", "backwards"} /\ Partial(run[p])
BY DEF PInv, TInv, TypeOK, Active

LEMMA PInvInit == Init => PInv
<1> SUFFICES ASSUME Init PROVE PInv
  OBVIOUS
<1>1. TInv
  BY TInvInit
<1>2. OperationAllOrNothing
  BY DEF Init, OperationAllOrNothing
<1>3. \A p \in Proc : Partial(run[p])
  BY IdlePartial DEF Init
<1> QED BY <1>1, <1>2, <1>3 DEF PInv

LEMMA PInvPlan ==
    ASSUME PInv, TInv', NEW p \in Proc, Plan(p)
    PROVE  PInv'
<1>1. PICK k \in Mig, dir \in Dirs :
        run' = [run EXCEPT ![p] = [Idle EXCEPT !.pc = "begin", !.mig = k, !.dir = dir,
                       !.todo = Statements(k, dir), !.recs = RowsToWrite(k)]]
  BY DEF Plan
<1> DEFINE R == [Idle EXCEPT !.pc = "begin", !.mig = k, !.dir = dir,
                       !.todo = Statements(k, dir), !.recs = RowsToWrite(k)]
<1>2. /\ R.pc = "begin" /\ R.mig = k /\ R.todo = Statements(k, dir) /\ R.deferred = <<>>
      /\ R.tx = "none" /\ R.add = {} /\ R.del = {}
  BY DEF Idle
<1>3. run' = [run EXCEPT ![p] = R]
  BY <1>1
<1> HIDE DEF R
<1>4. Ahead(R)
  <2>1. Blocks(R.todo) /\ ToSet(R.todo) = ToSet(Program[k])
    BY <1>2, StatementsFacts
  <2>2. \A s \in ToSet(R.todo) : Part(R.todo, s.op) = OpEff(k, s.op)
    BY <1>2, StatementsFacts
  <2> QED BY <1>2, <2>1, <2>2 DEF Ahead
<1>5. Queued(R)
  BY <1>2, ToSetEmpty DEF Queued
<1>6. AllOf(R.todo) = Eff(k)
  BY <1>2, StatementsAllOf
<1>7. Partial(R)
  BY <1>2, <1>4, <1>5, <1>6 DEF Partial, Closed
<1>8. effects' = effects
  BY DEF Plan
<1> QED BY <1>3, <1>7, <1>8, QuietPartial

LEMMA PInvBegin ==
    ASSUME PInv, TInv', NEW p \in Proc, Begin(p)
    PROVE  PInv'
<1> DEFINE r == run[p]
           R == [r EXCEPT !.pc = "ops",
                          !.tx = IF AtomicMigration(r.mig) THEN "migration" ELSE "none"]
<1>1. r.pc = "begin" /\ run' = [run EXCEPT ![p] = R] /\ effects' = effects
  BY DEF Begin, PInv, TInv, TypeOK
<1>2. r \in Run /\ r.mig \in Mig /\ r.dir \in {"forwards", "backwards"} /\ Partial(r)
  BY <1>1, PartialFacts
<1>3. /\ R.pc = "ops" /\ R.mig = r.mig /\ R.dir = r.dir /\ R.todo = r.todo
      /\ R.deferred = r.deferred /\ R.add = r.add /\ R.del = r.del
      /\ R.tx = IF AtomicMigration(r.mig) THEN "migration" ELSE "none"
  BY <1>2 DEF Run
<1> HIDE DEF r, R
<1>4. /\ Queued(r) /\ Closed(r) /\ Ahead(r)
      /\ AllOf(r.todo) = Eff(r.mig) /\ r.deferred = <<>>
  BY <1>1, <1>2 DEF Partial
<1>5. Queued(R)
  BY <1>3, <1>4 DEF Queued
<1>6. Ahead(R)
  BY <1>3, <1>4 DEF Ahead, Closed
<1>7. AtomicMigration(r.mig) => AsOne(R)
  BY <1>2, <1>3, <1>4, ToSetEmpty DEF AsOne, Doing, Closed
<1>8. ~AtomicMigration(r.mig) => ByParts(R)
  BY <1>3, <1>4 DEF ByParts, Closed
<1>9. Partial(R)
  BY <1>3, <1>5, <1>6, <1>7, <1>8 DEF Partial
<1> QED BY <1>1, <1>9, QuietPartial

LEMMA PInvFake ==
    ASSUME PInv, TInv', NEW p \in Proc, Fake(p)
    PROVE  PInv'
<1> DEFINE r == run[p]
           R == [r EXCEPT !.pc = "record", !.todo = <<>>]
<1>1. r.pc = "begin" /\ run' = [run EXCEPT ![p] = R] /\ effects' = effects
  BY DEF Fake, PInv, TInv, TypeOK
<1>2. r \in Run /\ Partial(r)
  BY <1>1, PartialFacts
<1>3. /\ R.pc = "record" /\ R.mig = r.mig /\ R.tx = r.tx
      /\ R.deferred = r.deferred /\ R.add = r.add /\ R.del = r.del
  BY <1>2 DEF Run
<1> HIDE DEF r, R
<1>4. Partial(R)
  BY <1>1, <1>2, <1>3 DEF Partial, Closed, Queued
<1> QED BY <1>1, <1>4, QuietPartial

LEMMA PInvEndOps ==
    ASSUME PInv, TInv', NEW p \in Proc, EndOps(p)
    PROVE  PInv'
<1> DEFINE r == run[p]
           R == [r EXCEPT !.pc = "finish"]
<1>1. /\ r.pc = "ops" /\ r.todo = <<>>
      /\ run' = [run EXCEPT ![p] = R] /\ effects' = effects
  BY DEF EndOps, PInv, TInv, TypeOK
<1>2. r \in Run /\ Partial(r)
  BY <1>1, PartialFacts
<1>3. /\ R.pc = "finish" /\ R.mig = r.mig /\ R.dir = r.dir /\ R.tx = r.tx
      /\ R.todo = r.todo /\ R.deferred = r.deferred /\ R.add = r.add /\ R.del = r.del
  BY <1>2 DEF Run
<1> HIDE DEF r, R
<1>4. Queued(R)
  BY <1>1, <1>2, <1>3 DEF Partial, Queued
<1>5. AtomicMigration(r.mig) => AsOne(R)
  BY <1>1, <1>2, <1>3 DEF Partial, AsOne, Doing
<1>6. ~AtomicMigration(r.mig) => Closed(R)
  BY <1>1, <1>2, <1>3 DEF Partial, ByParts, Closed
<1>7. Partial(R)
  BY <1>1, <1>3, <1>4, <1>5, <1>6 DEF Partial
<1> QED BY <1>1, <1>7, QuietPartial

(* A change outside transactions commits just what the run had in hand.    *)
LEMMA PartialChange ==
    ASSUME PInv, TInv', NEW p \in Proc, NEW R \in Run, Changed(p, R),
           InTx(R) => Partial(R),
           ~InTx(R) => Partial(Committed(R)),
           ~InTx(R) => Solid(R.add \cup R.del) /\ (R.add = {} \/ R.del = {})
    PROVE  PInv'
<1>1. CASE InTx(R)
  BY <1>1, QuietPartial DEF Changed
<1>2. CASE ~InTx(R)
  <2>1. /\ run' = [run EXCEPT ![p] = Committed(R)]
        /\ effects' = (effects \ R.del) \cup R.add
    BY <1>2 DEF Changed, CommitInto, Visible
  <2>2. \/ effects' = effects \cup (R.add \cup R.del)
        \/ effects' = effects \ (R.add \cup R.del)
    BY <1>2, <2>1
  <2> QED BY <1>2, <2>1, <2>2, OnePartial
<1> QED BY <1>1, <1>2

LEMMA CommittedFields ==
    ASSUME NEW r \in Run
    PROVE  /\ Closed(Committed(r)) /\ Committed(r).pc = r.pc /\ Committed(r).mig = r.mig
           /\ Committed(r).dir = r.dir /\ Committed(r).todo = r.todo
           /\ Committed(r).deferred = r.deferred /\ Committed(r).recs = r.recs
BY DEF Committed, Run, Closed

LEMMA PInvRecordInside ==
    ASSUME PInv, TInv', NEW p \in Proc, RecordInside(p)
    PROVE  PInv'
<1> DEFINE r == run[p]
           R == [r EXCEPT !.ins = Append(@, Head(r.recs)), !.recs = Tail(@)]
<1>1. r.pc = "ops" /\ r.todo = <<>> /\ r.recs # <<>> /\ Changed(p, R)
  BY DEF RecordInside
<1>2. r \in Run /\ Partial(r)
  BY <1>1, PartialFacts
<1>3. r.ins \in Seq(Mig) /\ r.recs \in Seq(Mig)
  BY <1>2 DEF Run
<1>4. Append(r.ins, Head(r.recs)) \in Seq(Mig) /\ Tail(r.recs) \in Seq(Mig)
  BY <1>1, <1>3
<1>5. /\ R \in Run /\ R.pc = "ops" /\ R.mig = r.mig /\ R.dir = r.dir /\ R.tx = r.tx
      /\ R.todo = <<>> /\ R.deferred = r.deferred /\ R.add = r.add /\ R.del = r.del
  BY <1>1, <1>2, <1>4 DEF Run
<1> HIDE DEF r, R
<1> DEFINE C == Committed(R)
<1>6. /\ Closed(C) /\ C.pc = "ops" /\ C.mig = r.mig /\ C.dir = r.dir
      /\ C.todo = <<>> /\ C.deferred = r.deferred
  BY <1>5, CommittedFields
<1> HIDE DEF C
<1>7. Queued(R) /\ Queued(C)
  BY <1>1, <1>2, <1>5, <1>6 DEF Partial, Queued
<1>8. Ahead(R) /\ Ahead(C)
  <2>1. Ahead(r)
    BY <1>1, <1>2 DEF Partial
  <2> QED BY <2>1, <1>1, <1>5, <1>6, ToSetEmpty DEF Ahead
<1>9. AtomicMigration(r.mig) => AsOne(R) /\ InTx(R)
  BY <1>1, <1>2, <1>5 DEF Partial, AsOne, Doing, InTx
<1>10. ~AtomicMigration(r.mig) => ByParts(R) /\ ByParts(C) /\ Closed(R)
  BY <1>1, <1>2, <1>5, <1>6 DEF Partial, ByParts, Closed
<1>11. Partial(R) /\ (~InTx(R) => Partial(C))
  BY <1>5, <1>6, <1>7, <1>8, <1>9, <1>10 DEF Partial
<1>12. ~InTx(R) => R.add \cup R.del = {}
  BY <1>9, <1>10 DEF Closed
<1> QED BY <1>1, <1>5, <1>11, <1>12, SolidEmpty, PartialChange DEF C, r

LEMMA PInvRunDeferred ==
    ASSUME NothingQueued, PInv, TInv', NEW p \in Proc, RunDeferred(p)
    PROVE  PInv'
<1> DEFINE r == run[p]
           e == Head(r.deferred)
           R == [r EXCEPT !.add = @ \cup {e}, !.deferred = Tail(@)]
<1>1. r.pc = "finish" /\ r.deferred # <<>> /\ Changed(p, R)
  BY DEF RunDeferred
<1>2. r \in Run /\ r.mig \in Mig /\ r.dir \in {"forwards", "backwards"} /\ Partial(r)
  BY <1>1, PartialFacts
<1>3. r.deferred \in Seq(Effect) /\ r.add \in SUBSET Effect
  BY <1>2 DEF Run
<1>4. e \in Effect /\ r.add \cup {e} \in SUBSET Effect /\ Tail(r.deferred) \in Seq(Effect)
  BY <1>1, <1>3
<1>5. e \in ToSet(r.deferred) /\ ToSet(r.deferred) = {e} \cup ToSet(Tail(r.deferred))
  BY <1>1, <1>3, ToSetTail
<1> HIDE DEF e
<1>6. /\ R \in Run /\ R.pc = "finish" /\ R.mig = r.mig /\ R.dir = r.dir /\ R.tx = r.tx
      /\ R.todo = r.todo /\ R.deferred = Tail(r.deferred)
      /\ R.add = r.add \cup {e} /\ R.del = r.del
  BY <1>1, <1>2, <1>4 DEF Run
<1> HIDE DEF r, R
<1> DEFINE C == Committed(R)
<1>7. /\ Closed(C) /\ C.pc = "finish" /\ C.mig = r.mig /\ C.dir = r.dir
      /\ C.todo = r.todo /\ C.deferred = Tail(r.deferred)
  BY <1>6, CommittedFields
<1> HIDE DEF C
<1>8. Queued(r) /\ Queued(R) /\ Queued(C) /\ r.todo = <<>>
  BY <1>1, <1>2, <1>5, <1>6, <1>7 DEF Partial, Queued
<1>9. AtomicMigration(r.mig) => AsOne(R) /\ InTx(R)
  BY <1>1, <1>2, <1>5, <1>6 DEF Partial, AsOne, Doing, InTx
<1>10. ~AtomicMigration(r.mig) => Closed(r) /\ ~InTx(R) /\ R.add = {e} /\ R.del = {}
  BY <1>1, <1>2, <1>6 DEF Partial, Closed, InTx
<1>11. (InTx(R) => Partial(R)) /\ (~InTx(R) => Partial(C))
  BY <1>6, <1>7, <1>8, <1>9, <1>10 DEF Partial
<1>12. ASSUME ~AtomicMigration(r.mig)
       PROVE  Solid({e})
  <2>1. PICK s \in ToSet(Program[r.mig]) : e \in ToSet(s.later)
    BY <1>5, <1>8 DEF Queued
  <2>2. PICK i \in DOMAIN Program[r.mig] : s = Program[r.mig][i]
    BY DEF ToSet
  <2>3. s.later # <<>>
    BY <2>1, ToSetEmpty
  <2>4. ~OwnTransaction(r.mig, s.op)
    BY <1>2, <2>2, <2>3 DEF NothingQueued
  <2>5. e \in Yields(s)
    BY <2>1 DEF Yields
  <2>6. {e} \subseteq OpEff(r.mig, s.op)
    BY <1>2, <2>5, StatementEffects
  <2> QED BY <1>2, <1>12, <2>4, <2>6, SolidLoose
<1>13. ~InTx(R) => R.add \cup R.del = {e} /\ R.del = {} /\ Solid({e})
  BY <1>9, <1>10, <1>12
<1> QED BY <1>1, <1>6, <1>11, <1>13, PartialChange DEF C, r

LEMMA PInvFinish ==
    ASSUME PInv, TInv', NEW p \in Proc, Finish(p)
    PROVE  PInv'
<1> DEFINE r == run[p]
           C == [Committed(r) EXCEPT !.pc = "record"]
<1>1. /\ r.pc = "finish" /\ r.deferred = <<>>
      /\ effects' = (effects \ r.del) \cup r.add
      /\ run' = [run EXCEPT ![p] = AfterFinish(r)]
  BY DEF Finish, CommitInto, Visible
<1>2. r \in Run /\ r.mig \in Mig /\ r.dir \in {"forwards", "backwards"} /\ Partial(r)
  BY <1>1, PartialFacts
<1>3. C.pc = "record" /\ Closed(C) /\ C.mig = r.mig /\ C.deferred = r.deferred
  BY <1>2 DEF Committed, Run, Closed
<1>4. AfterFinish(r) = Idle \/ AfterFinish(r) = C
  BY DEF AfterFinish
<1> HIDE DEF r, C
<1>5. Queued(C)
  BY <1>1, <1>3, ToSetEmpty DEF Queued
<1>6. Partial(AfterFinish(r))
  BY <1>3, <1>4, <1>5, IdlePartial DEF Partial
<1>7. CASE AtomicMigration(r.mig)
  <2>1. AsOne(r) /\ r.todo = <<>>
    BY <1>1, <1>2, <1>7 DEF Partial
  <2>2. \/ effects' = effects \cup Eff(r.mig)
        \/ effects' = effects \ Eff(r.mig)
    BY <1>1, <1>2, <2>1, ToSetEmpty DEF AsOne, Doing
  <2> QED BY <1>1, <1>2, <1>6, <1>7, <2>2, SolidMigration, OnePartial DEF r
<1>8. CASE ~AtomicMigration(r.mig)
  <2>1. effects' = effects
    BY <1>1, <1>2, <1>8 DEF Partial, Closed
  <2> QED BY <1>1, <1>6, <2>1, QuietPartial DEF r
<1> QED BY <1>7, <1>8

LEMMA PInvRecord ==
    ASSUME PInv, TInv', NEW p \in Proc, Record(p)
    PROVE  PInv'
<1> DEFINE r == run[p]
           C == [r EXCEPT !.recs = Tail(r.recs)]
           R == IF Len(r.recs) = 1 THEN Idle ELSE C
<1>1. r.pc = "record" /\ effects' = effects /\ run' = [run EXCEPT ![p] = R]
  BY DEF Record
<1>2. r \in Run /\ Partial(r)
  BY <1>1, PartialFacts
<1>3. /\ C.pc = "record" /\ C.mig = r.mig /\ C.tx = r.tx /\ C.add = r.add
      /\ C.del = r.del /\ C.deferred = r.deferred
  BY <1>1, <1>2 DEF Run
<1> HIDE DEF r, C
<1>4. Partial(C)
  BY <1>1, <1>2, <1>3 DEF Partial, Closed, Queued
<1>5. Partial(R)
  BY <1>4, IdlePartial
<1> QED BY <1>1, <1>5, QuietPartial DEF r

LEMMA PInvError ==
    ASSUME PInv, TInv', NEW p \in Proc, Refused(p) \/ Fault(p)
    PROVE  PInv'
<1>1. run' = [run EXCEPT ![p] = Idle] /\ effects' = effects
  BY DEF Refused, Fault, Abandon
<1> QED BY <1>1, IdlePartial, QuietPartial

-----------------------------------------------------------------------------
(* Execute: the fields of the run after a statement.                       *)
LEMMA ExecutedFields ==
    ASSUME NEW r \in Run, r.todo # <<>>, r.dir \in {"forwards", "backwards"}
    PROVE  LET w == WithTx(r)
               s == Head(r.todo)
               R == EndOp(ImplicitCommit(Stepped(w), Head(w.todo)), LastOfOp(w))
           IN  /\ R \in Run /\ R.mig = r.mig /\ R.dir = r.dir /\ R.pc = r.pc
               /\ R.todo = Tail(r.todo) /\ w.todo = r.todo /\ w.mig = r.mig
               /\ r.dir = "forwards" => /\ R.add = r.add \cup {s.effect}
                                        /\ R.del = r.del \ {s.effect}
                                        /\ R.deferred = r.deferred \o s.later
               /\ r.dir = "backwards" => /\ R.add = r.add \ Yields(s)
                                         /\ R.del = r.del \cup Yields(s)
                                         /\ R.deferred = r.deferred
<1> DEFINE w == WithTx(r)
           u == Stepped(w)
           R == EndOp(ImplicitCommit(u, Head(w.todo)), LastOfOp(w))
<1>1. R \in Run /\ R.mig = r.mig /\ R.dir = r.dir /\ Same(R, u)
  BY ExecutedType
<1>2. w \in Run /\ Same(w, r)
  BY WithTxType
<1> HIDE DEF R, w
<1>3. w.dir = r.dir /\ w.todo = r.todo
  BY <1>2 DEF Same
<1>4. CASE r.dir = "forwards"
  <2>1. /\ u.add = w.add \cup {Head(w.todo).effect} /\ u.del = w.del \ {Head(w.todo).effect}
        /\ u.deferred = w.deferred \o Head(w.todo).later /\ u.todo = Tail(w.todo)
        /\ u.pc = w.pc
    BY <1>2, <1>3, <1>4, SteppedForward
  <2> HIDE DEF u
  <2>2. /\ R.pc = r.pc /\ R.todo = Tail(r.todo) /\ w.todo = r.todo /\ w.mig = r.mig
        /\ R.add = r.add \cup {Head(r.todo).effect} /\ R.del = r.del \ {Head(r.todo).effect}
        /\ R.deferred = r.deferred \o Head(r.todo).later
    BY <1>1, <1>2, <2>1 DEF Same
  <2> QED BY <1>1, <1>4, <2>2 DEF R, u, w
<1>5. CASE r.dir = "backwards"
  <2>1. /\ u.add = w.add \ Yields(Head(w.todo)) /\ u.del = w.del \cup Yields(Head(w.todo))
        /\ u.deferred = w.deferred /\ u.todo = Tail(w.todo) /\ u.pc = w.pc
    BY <1>2, <1>3, <1>5, SteppedBackward
  <2> HIDE DEF u
  <2>2. /\ R.pc = r.pc /\ R.todo = Tail(r.todo) /\ w.todo = r.todo /\ w.mig = r.mig
        /\ R.add = r.add \ Yields(Head(r.todo)) /\ R.del = r.del \cup Yields(Head(r.todo))
        /\ R.deferred = r.deferred
    BY <1>1, <1>2, <2>1 DEF Same
  <2> QED BY <1>1, <1>5, <2>2 DEF R, u, w
<1> QED BY <1>4, <1>5

LEMMA SteppedTx ==
    ASSUME NEW r \in Run
    PROVE  Stepped(r).tx = r.tx
BY DEF Stepped, Run

(* The transaction of an operation is open after each of its statements    *)
(* but the last: DDL that would end it was refused.                        *)
LEMMA OwnTx ==
    ASSUME NEW r \in Run, r.mig \in Mig, r.todo # <<>>, Head(r.todo) \in ToSet(Program[r.mig]),
           OwnTransaction(r.mig, Head(r.todo).op), r.tx \in {"none", "operation"},
           ~Refuses(WithTx(r), Head(WithTx(r).todo))
    PROVE  LET w == WithTx(r)
               R == EndOp(ImplicitCommit(Stepped(w), Head(w.todo)), LastOfOp(w))
           IN  R.tx = IF LastOfOp(r) THEN "none" ELSE "operation"
<1> DEFINE w == WithTx(r)
           s == Head(r.todo)
<1>1. ~AtomicMigration(r.mig) /\ SupportsTransactions /\ AtomicOperation(r, s)
  BY OwnIff
<1>2. w \in Run /\ w.todo = r.todo /\ w.tx = "operation"
  <2>1. w \in Run /\ Same(w, r)
    BY WithTxType
  <2>2. CASE r.tx = "none"
    BY <1>1, <2>1, <2>2 DEF WithTx, OpensTx, InTx, Run, Same
  <2>3. CASE r.tx = "operation"
    BY <2>1, <2>3 DEF WithTx, OpensTx, InTx, Same
  <2> QED BY <2>1, <2>2, <2>3 DEF Same
<1> HIDE DEF w
<1>3. ~(s.kind = "ddl" /\ ~CanRollbackDDL)
  <2>1. ~Refuses(w, s)
    BY <1>2 DEF w
  <2> QED BY <1>2, <2>1 DEF Refuses, InTx
<1>4. ImplicitCommit(Stepped(w), s) = Stepped(w)
  BY <1>3 DEF ImplicitCommit
<1>5. Stepped(w).tx = "operation" /\ Stepped(w) \in Run
  BY <1>2, SteppedTx, SteppedType
<1>6. LastOfOp(w) = LastOfOp(r)
  BY <1>2 DEF LastOfOp
<1>7. EndOp(Stepped(w), LastOfOp(w)).tx = IF LastOfOp(r) THEN "none" ELSE "operation"
  BY <1>5, <1>6 DEF EndOp, Run
<1> QED BY <1>2, <1>4, <1>7 DEF w

(* Without one, none is opened.                                            *)
LEMMA LooseTx ==
    ASSUME NEW r \in Run, r.mig \in Mig, r.todo # <<>>, Head(r.todo) \in ToSet(Program[r.mig]),
           ~AtomicMigration(r.mig), ~OwnTransaction(r.mig, Head(r.todo).op), r.tx = "none"
    PROVE  LET w == WithTx(r)
               R == EndOp(ImplicitCommit(Stepped(w), Head(w.todo)), LastOfOp(w))
           IN  R.tx = "none"
<1>1. ~OpensTx(r, Head(r.todo))
  BY OwnIff DEF OpensTx
<1>2. WithTx(r) = r
  BY <1>1 DEF WithTx
<1>3. Stepped(r).tx = "none" /\ Stepped(r) \in Run
  BY SteppedTx, SteppedType
<1>4. ImplicitCommit(Stepped(r), Head(r.todo)).tx = "none"
  BY <1>3 DEF ImplicitCommit, Run
<1> QED BY <1>2, <1>4 DEF EndOp

(* The operations that come after the next statement, seen after it.       *)
LEMMA AheadAfter ==
    ASSUME NEW r \in Run, r.mig \in Mig, r.todo # <<>>, Ahead(r),
           NEW R, R.mig = r.mig, R.todo = Tail(r.todo),
           OwnTransaction(r.mig, Head(r.todo).op) =>
             R.tx = IF LastOfOp(r) THEN "none" ELSE "operation"
    PROVE  Ahead(R)
<1> DEFINE s == Head(r.todo)
           v == Tail(r.todo)
<1>1. r.todo \in Seq(Stmt) /\ v \in Seq(Stmt)
  BY DEF Run
<1>2. ToSet(r.todo) = {s} \cup ToSet(v)
  BY <1>1, ToSetTail
<1>3. Blocks(v)
  BY <1>1, BlocksTail DEF Ahead
<1> HIDE DEF v
<1>4. ASSUME NEW t \in ToSet(v), OwnTransaction(r.mig, t.op)
      PROVE  \/ Part(v, t.op) = OpEff(r.mig, t.op)
             \/ R.tx = "operation" /\ t.op = Head(v).op
  <2>1. CASE t.op # s.op
    <3>1. Part(r.todo, t.op) = (IF s.op = t.op THEN Yields(s) ELSE {}) \cup Part(v, t.op)
      BY <1>1, PartTail DEF v
    <3>2. Part(r.todo, t.op) = OpEff(r.mig, t.op)
      BY <1>2, <1>4, <2>1 DEF Ahead
    <3> QED BY <2>1, <3>1, <3>2
  <2>2. CASE t.op = s.op
    <3>1. ~LastOfOp(r)
      BY <1>1, <1>4, <2>2, BlockEnds DEF LastOfOp, Ahead, v
    <3>2. Head(v).op = s.op
      BY <1>1, <3>1, BlockGoes DEF LastOfOp, v
    <3> QED BY <1>4, <2>2, <3>1, <3>2
  <2> QED BY <2>1, <2>2
<1> QED BY <1>2, <1>3, <1>4 DEF Ahead, v

LEMMA PInvExecute ==
    ASSUME NothingQueued, PInv, TInv', NEW p \in Proc, Execute(p)
    PROVE  PInv'
<1> DEFINE r == run[p]
           w == WithTx(r)
           s == Head(r.todo)
           n == s.op
           R == EndOp(ImplicitCommit(Stepped(w), Head(w.todo)), LastOfOp(w))
           C == Committed(R)
<1>1. r.pc = "ops" /\ r.todo # <<>> /\ Changed(p, R) /\ ~Refuses(w, Head(w.todo))
  BY DEF Execute
<1>2. r \in Run /\ r.mig \in Mig /\ r.dir \in {"forwards", "backwards"} /\ Partial(r)
  BY <1>1, PartialFacts
<1>3. /\ R \in Run /\ R.mig = r.mig /\ R.dir = r.dir /\ R.pc = "ops"
      /\ R.todo = Tail(r.todo)
      /\ r.dir = "forwards" => /\ R.add = r.add \cup {s.effect} /\ R.del = r.del \ {s.effect}
                               /\ R.deferred = r.deferred \o s.later
      /\ r.dir = "backwards" => /\ R.add = r.add \ Yields(s) /\ R.del = r.del \cup Yields(s)
                                /\ R.deferred = r.deferred
  BY <1>1, <1>2, ExecutedFields
<1>4. Queued(r) /\ Ahead(r)
  BY <1>1, <1>2 DEF Partial
<1>5. /\ r.todo \in Seq(Stmt) /\ r.deferred \in Seq(Effect)
      /\ s \in Stmt /\ s \in ToSet(r.todo) /\ s \in ToSet(Program[r.mig])
  <2>1. r.todo \in Seq(Stmt) /\ r.deferred \in Seq(Effect)
    BY <1>2 DEF Run
  <2>2. s \in Stmt /\ s \in ToSet(r.todo)
    BY <1>1, <2>1, ToSetTail
  <2> QED BY <1>4, <2>1, <2>2 DEF Ahead
<1>6. Yields(s) = {s.effect} \cup ToSet(s.later) /\ s.later \in Seq(Effect)
  BY <1>5 DEF Yields, Stmt
<1>7. Yields(s) \subseteq OpEff(r.mig, n)
  BY <1>2, <1>5, StatementEffects
<1>8. AtomicMigration(r.mig) => AsOne(r) /\ R.tx = "migration"
  <2> SUFFICES ASSUME AtomicMigration(r.mig) PROVE AsOne(r) /\ R.tx = "migration"
    OBVIOUS
  <2>1. AsOne(r)
    BY <1>1, <1>2 DEF Partial
  <2>2. CanRollbackDDL /\ r.mig \in AtomicMig /\ r.tx = "migration"
    BY <2>1 DEF AtomicMigration, AsOne
  <2> QED BY <1>1, <1>2, <2>1, <2>2, TxKept
<1>9. ~AtomicMigration(r.mig) => ByParts(r)
  BY <1>1, <1>2 DEF Partial
<1>10. OwnTransaction(r.mig, n) => R.tx = IF LastOfOp(r) THEN "none" ELSE "operation"
  <2> SUFFICES ASSUME OwnTransaction(r.mig, n)
               PROVE  R.tx = IF LastOfOp(r) THEN "none" ELSE "operation"
    OBVIOUS
  <2>1. ~AtomicMigration(r.mig)
    BY DEF OwnTransaction
  <2>2. r.tx \in {"none", "operation"}
    BY <1>9, <2>1 DEF ByParts
  <2> QED BY <1>1, <1>2, <1>5, <2>2, OwnTx
<1>11. ~AtomicMigration(r.mig) /\ ~OwnTransaction(r.mig, n) => Closed(r) /\ R.tx = "none"
  <2> SUFFICES ASSUME ~AtomicMigration(r.mig), ~OwnTransaction(r.mig, n)
               PROVE  Closed(r) /\ R.tx = "none"
    OBVIOUS
  <2>1. Closed(r)
    BY <1>9 DEF ByParts
  <2> QED BY <1>1, <1>2, <1>5, <2>1, LooseTx DEF Closed
<1>12. OwnTransaction(r.mig, n) => s.later = <<>>
  <2>1. PICK i \in DOMAIN Program[r.mig] : s = Program[r.mig][i]
    BY <1>5 DEF ToSet
  <2> QED BY <1>2, <2>1 DEF NothingQueued
<1> HIDE DEF r, R, s, w
<1>13. /\ Closed(C) /\ C.pc = "ops" /\ C.mig = r.mig /\ C.dir = r.dir
       /\ C.todo = Tail(r.todo) /\ C.deferred = R.deferred
  BY <1>3, CommittedFields
<1> HIDE DEF C
<1>14. r.dir = "forwards" => ToSet(R.deferred) = ToSet(r.deferred) \cup ToSet(s.later)
  <2>1. ToSet(r.deferred \o s.later) = ToSet(r.deferred) \cup ToSet(s.later)
    BY <1>5, <1>6, ConcatFacts
  <2> QED BY <1>3, <2>1
<1>15. Queued(R) /\ Queued(C)
  <2>1. ToSet(R.deferred) \subseteq ToSet(r.deferred) \cup ToSet(s.later)
    <3>1. CASE r.dir = "forwards"
      BY <1>14, <3>1
    <3>2. CASE r.dir = "backwards"
      BY <1>3, <3>2
    <3> QED BY <1>2, <3>1, <3>2
  <2> QED BY <1>3, <1>4, <1>5, <1>13, <2>1 DEF Queued
<1>16. Ahead(R)
  BY <1>1, <1>2, <1>3, <1>4, <1>10, AheadAfter DEF s
<1>17. ~InTx(R) => Ahead(C)
  <2> SUFFICES ASSUME ~InTx(R) PROVE Ahead(C)
    OBVIOUS
  <2>1. R.tx = "none"
    BY DEF InTx
  <2> QED BY <2>1, <1>3, <1>13, <1>16 DEF Ahead
<1>18. CASE AtomicMigration(r.mig)
  <2>1. AllOf(r.todo) = Yields(s) \cup AllOf(Tail(r.todo))
    BY <1>1, <1>5, AllOfSplit DEF s
  <2>2. AsOne(R)
    <3>1. CASE r.dir = "forwards"
      BY <1>3, <1>6, <1>8, <1>18, <1>14, <2>1, <3>1 DEF AsOne, Doing
    <3>2. CASE r.dir = "backwards"
      BY <1>3, <1>8, <1>18, <2>1, <3>2, ToSetEmpty DEF AsOne, Doing
    <3> QED BY <1>2, <3>1, <3>2
  <2>3. InTx(R) /\ Partial(R)
    BY <1>3, <1>8, <1>15, <1>16, <1>18, <2>2 DEF InTx, Partial
  <2> QED BY <1>1, <1>3, <2>3, PartialChange
<1>19. CASE ~AtomicMigration(r.mig) /\ ~OwnTransaction(r.mig, n)
  <2>1. Closed(r) /\ ~InTx(R)
    BY <1>11, <1>19 DEF InTx
  <2>2. ByParts(C)
    BY <1>13 DEF ByParts, Closed
  <2>3. Partial(C)
    BY <1>13, <1>15, <1>17, <1>19, <2>1, <2>2 DEF Partial
  <2>4. (R.add = {} \/ R.del = {}) /\ R.add \cup R.del \subseteq Yields(s)
    BY <1>2, <1>3, <1>6, <2>1 DEF Closed
  <2>5. Solid(R.add \cup R.del)
    BY <1>2, <1>5, <1>7, <1>19, <2>4, SolidLoose
  <2> QED BY <1>1, <1>3, <2>1, <2>3, <2>4, <2>5, PartialChange DEF C
<1>20. CASE OwnTransaction(r.mig, n)
  <2> DEFINE W == OpEff(r.mig, n)
             v == Tail(r.todo)
  <2>1. ~AtomicMigration(r.mig) /\ ByParts(r)
    BY <1>9, <1>20 DEF OwnTransaction
  <2>2. Doing(r, Part(r.todo, n), W)
    <3>1. CASE r.tx = "none"
      <4>1. Closed(r) /\ Part(r.todo, n) = W
        BY <1>4, <1>5, <1>20, <2>1, <3>1 DEF ByParts, Ahead
      <4> QED BY <4>1 DEF Closed, Doing
    <3>2. CASE r.tx # "none"
      BY <2>1, <3>2 DEF ByParts, s
    <3> QED BY <3>1, <3>2
  <2>3. Part(r.todo, n) = Yields(s) \cup Part(v, n)
    BY <1>1, <1>5, PartTail DEF s
  <2>4. Yields(s) = {s.effect}
    BY <1>6, <1>12, <1>20, ToSetEmpty
  <2> HIDE DEF W
  <2>5. Doing(R, Part(v, n), W)
    BY <1>2, <1>3, <2>2, <2>3, <2>4 DEF Doing
  <2>6. CASE LastOfOp(r)
    <3>1. \A t \in ToSet(v) : t.op # n
      BY <1>1, <1>4, <1>5, <2>6, BlockEnds DEF Ahead, LastOfOp, s
    <3>2. Part(v, n) = {}
      BY <3>1, PartNone
    <3>3. ~InTx(R) /\ (R.add = {} \/ R.del = {}) /\ R.add \cup R.del = W
      BY <1>2, <1>3, <1>10, <1>20, <2>5, <2>6, <3>2 DEF Doing, InTx
    <3>4. Solid(R.add \cup R.del)
      BY <1>2, <1>5, <3>3, SolidOperation DEF W
    <3>5. Partial(C)
      BY <1>13, <1>15, <1>17, <2>1, <3>3 DEF Partial, ByParts, Closed
    <3> QED BY <1>1, <1>3, <3>3, <3>4, <3>5, PartialChange DEF C
  <2>7. CASE ~LastOfOp(r)
    <3>1. v # <<>> /\ Head(v).op = n
      BY <1>1, <1>5, <2>7, BlockGoes DEF LastOfOp, s
    <3>2. R.tx = "operation"
      BY <1>10, <1>20, <2>7
    <3>3. ByParts(R)
      BY <1>3, <1>20, <2>5, <3>1, <3>2 DEF ByParts, W
    <3>4. InTx(R) /\ Partial(R)
      BY <1>3, <1>15, <1>16, <2>1, <3>2, <3>3 DEF InTx, Partial
    <3> QED BY <1>1, <1>3, <3>4, PartialChange
  <2> QED BY <2>6, <2>7
<1> QED BY <1>18, <1>19, <1>20

LEMMA PInvNext ==
    ASSUME NothingQueued
    PROVE  PInv /\ [Next]_vars => PInv'
<1> SUFFICES ASSUME PInv, [Next]_vars PROVE PInv'
  OBVIOUS
<1>1. TInv'
  BY TInvNext DEF PInv
<1>2. CASE UNCHANGED vars
  BY <1>1, <1>2 DEF vars, PInv, OperationAllOrNothing
<1>3. CASE Done
  BY <1>1, <1>3 DEF Done, vars, PInv, OperationAllOrNothing
<1>4. ASSUME NEW p \in Proc, Plan(p) \/ Step(p) \/ Fault(p)
      PROVE  PInv'
  BY <1>1, <1>4, PInvPlan, PInvBegin, PInvFake, PInvExecute, PInvRecordInside, PInvEndOps,
     PInvRunDeferred, PInvFinish, PInvRecord, PInvError DEF Step
<1> QED BY <1>2, <1>3, <1>4 DEF Next

(* atomicOperation in Migration.Apply and Unapply: where no transaction    *)
(* holds the migration, an operation with one of its own, none of whose    *)
(* statements defers, is in the database whole or not at all at every      *)
(* moment: whatever other commands do, whatever fails, forwards and back.  *)
THEOREM OperationsWhole ==
    ASSUME NothingQueued
    PROVE  Spec => []OperationAllOrNothing
<1>1. PInv => OperationAllOrNothing
  BY DEF PInv
<1>2. Spec => []PInv
  BY PInvInit, PInvNext, PTL DEF Spec
<1> QED BY <1>1, <1>2, PTL
==============================================================================
