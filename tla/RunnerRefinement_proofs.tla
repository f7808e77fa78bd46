----------------------- MODULE RunnerRefinement_proofs -----------------------
(***************************************************************************)
(* Where DDL can be rolled back, for any programs, squashes, directions    *)
(* and number of commands: what the commands do to schema and table is a   *)
(* history of whole migrations.  And what follows for one migration: the   *)
(* table says that it is applied when its effects are there.               *)
(***************************************************************************)
EXTENDS RunnerRefinement, MigrationRunner_proofs

(* What a list of statements brings that can be made only once.            *)
OnceOf(v) == UNION {IF v[i].kind = "ddl" THEN Yields(v[i])
                    ELSE ToSet(v[i].later) : i \in DOMAIN v}

(* Some statement of the list has something to defer.                      *)
SomeLater(v) == \E i \in DOMAIN v : v[i].later # <<>>

(* A run touches what its migration brings, and writes its keys.           *)
Within(r) ==
    /\ r.add \cup r.del \cup AllOf(r.todo) \cup ToSet(r.deferred) \subseteq Eff(r.mig)
    /\ ToSet(r.ins) \cup ToSet(r.recs) \subseteq ToSet(Records[r.mig])

(* An atomic run has nothing in hand before its transaction and after it.  *)
Outside(r) ==
    /\ r.pc \in {"begin", "record"} =>
         /\ r.add = {} /\ r.del = {} /\ r.ins = <<>> /\ r.deferred = <<>>
    /\ r.pc = "begin" => r.recs = Records[r.mig]
    /\ r.pc \in {"ops", "finish"} => r.tx = "migration"
    /\ r.pc \in {"finish", "record"} => r.todo = <<>>

(* Forwards: what it has yet to bring, and what of it was not there; the   *)
(* rows wait for a commit if something is deferred, and else go with it.   *)
Ahead(r, E) ==
    /\ r.del = {}
    /\ Eff(r.mig) \subseteq r.add \cup AllOf(r.todo) \cup ToSet(r.deferred)
    /\ \A e \in MadeOnce(r.mig) : \/ e \in r.add /\ e \notin E
                                  \/ e \in ToSet(r.deferred) \cup OnceOf(r.todo)
    /\ r.ins \o r.recs = Records[r.mig]
    /\ r.ins # <<>> => r.todo = <<>> /\ r.deferred = <<>> /\ ~Deferring(r.mig)
    /\ r.pc # "finish" => (Deferring(r.mig) <=> r.deferred # <<>> \/ SomeLater(r.todo))
    /\ r.pc = "finish" => (Deferring(r.mig) \/ r.recs = <<>>)

(* Backwards: what it has yet to take away; the rows always wait.          *)
Back(r) ==
    /\ r.add = {} /\ r.deferred = <<>> /\ r.ins = <<>> /\ r.recs = Records[r.mig]
    /\ Eff(r.mig) \subseteq r.del \cup AllOf(r.todo)

Fits(r, E) ==
    r.pc # "idle" =>
      /\ Within(r)
      /\ r.mig \in AtomicMig =>
           /\ Outside(r)
           /\ r.pc # "record" /\ r.dir = "forwards" => Ahead(r, E)
           /\ r.pc # "record" /\ r.dir = "backwards" => Back(r)

(* No two open transactions have touched the same object.                  *)
Touched(r) == r.add \cup r.del
Apart == \A p \in Proc : \A q \in Proc \ {p} : Touched(run[p]) \cap Touched(run[q]) = {}

RInv == TInv /\ Apart /\ \A p \in Proc : Fits(run[p], effects)
-----------------------------------------------------------------------------
(* Sequences.                                                              *)
LEMMA OnceSplit ==
    ASSUME NEW v \in Seq(Stmt), v # <<>>
    PROVE  /\ OnceOf(v) \subseteq OnceOf(Tail(v)) \cup ToSet(Head(v).later)
                                  \cup (IF Head(v).kind = "ddl" THEN {Head(v).effect} ELSE {})
           /\ SomeLater(v) <=> Head(v).later # <<>> \/ SomeLater(Tail(v))
<1> DEFINE Once(s) == IF s.kind = "ddl" THEN Yields(s) ELSE ToSet(s.later)
<1>1. ASSUME NEW e \in OnceOf(v), e \notin Once(Head(v))
      PROVE  e \in OnceOf(Tail(v))
  <2>1. PICK i \in DOMAIN v : e \in Once(v[i])
    BY DEF OnceOf
  <2>2. i # 1
    BY <1>1, <2>1, TailIndex
  <2>3. i - 1 \in DOMAIN Tail(v) /\ Tail(v)[i - 1] = v[i]
    BY <2>2, TailIndex
  <2>4. e \in Once(Tail(v)[i - 1])
    BY <2>1, <2>3
  <2> QED BY <2>3, <2>4 DEF OnceOf
<1>2. Once(Head(v)) \subseteq ToSet(Head(v).later)
                              \cup (IF Head(v).kind = "ddl" THEN {Head(v).effect} ELSE {})
  BY DEF Yields
<1>3. ASSUME SomeLater(v), Head(v).later = <<>>
      PROVE  SomeLater(Tail(v))
  <2>1. PICK i \in DOMAIN v : v[i].later # <<>>
    BY <1>3 DEF SomeLater
  <2>2. i # 1
    BY <1>3, <2>1, TailIndex
  <2>3. i - 1 \in DOMAIN Tail(v) /\ Tail(v)[i - 1] = v[i]
    BY <2>2, TailIndex
  <2> QED BY <2>1, <2>3 DEF SomeLater
<1>4. ASSUME Head(v).later # <<>>
      PROVE  SomeLater(v)
  BY <1>4, TailIndex DEF SomeLater
<1>5. ASSUME SomeLater(Tail(v))
      PROVE  SomeLater(v)
  <2>1. PICK i \in DOMAIN Tail(v) : Tail(v)[i].later # <<>>
    BY <1>5 DEF SomeLater
  <2>2. i + 1 \in DOMAIN v /\ v[i + 1] = Tail(v)[i]
    BY TailIndex
  <2> QED BY <2>1, <2>2 DEF SomeLater
<1> QED BY <1>1, <1>2, <1>3, <1>4, <1>5

LEMMA OnceEmpty == OnceOf(<<>>) = {} /\ ~SomeLater(<<>>)
BY DEF OnceOf, SomeLater

LEMMA ProgramOnce ==
    ASSUME NEW k \in Mig
    PROVE  /\ MadeOnce(k) = OnceOf(Program[k])
           /\ Deferring(k) <=> SomeLater(Program[k])
<1>1. Program[k] \in Seq(Stmt) /\ DOMAIN Program[k] = 1..Len(Program[k])
  BY RunnerAssumption
<1> QED BY <1>1 DEF MadeOnce, OnceOf, Deferring, SomeLater

(* A key moves from the end of what is to be written to what is.           *)
LEMMA ShiftKey ==
    ASSUME NEW S, NEW v \in Seq(S), NEW w \in Seq(S), w # <<>>
    PROVE  Append(v, Head(w)) \o Tail(w) = v \o w
<1>1. <<Head(w)>> \o Tail(w) = w
  OBVIOUS
<1>2. Append(v, Head(w)) = v \o <<Head(w)>>
  OBVIOUS
<1>3. (v \o <<Head(w)>>) \o Tail(w) = v \o (<<Head(w)>> \o Tail(w))
  OBVIOUS
<1> QED BY <1>1, <1>2, <1>3

(* What Insert adds to the rows.                                           *)
LEMMA InsertFacts ==
    ASSUME NEW bag \in [Mig -> Nat], NEW keys \in Seq(Mig)
    PROVE  /\ \A k \in Mig : k \notin ToSet(keys) => Insert(bag, keys)[k] = bag[k]
           /\ keys = <<>> => Insert(bag, keys) = bag
           /\ IsInjective(keys) =>
                \A k \in Mig : k \in ToSet(keys) => Insert(bag, keys)[k] = bag[k] + 1
<1> DEFINE At(k) == {i \in DOMAIN keys : keys[i] = k}
<1>1. ASSUME NEW k \in Mig, k \notin ToSet(keys)
      PROVE  Cardinality(At(k)) = 0
  <2>1. At(k) = {}
    BY <1>1 DEF ToSet
  <2> QED BY <2>1, FS_EmptySet
<1>2. ASSUME IsInjective(keys), NEW k \in Mig, k \in ToSet(keys)
      PROVE  Cardinality(At(k)) = 1
  <2>1. PICK i \in DOMAIN keys : keys[i] = k
    BY <1>2 DEF ToSet
  <2>2. \A j \in DOMAIN keys : keys[j] = k => j = i
    BY <1>2, <2>1 DEF IsInjective
  <2>3. At(k) = {i}
    BY <2>1, <2>2
  <2> QED BY <2>3, FS_Singleton
<1>3. keys = <<>> => \A k \in Mig : k \notin ToSet(keys)
  BY ToSetEmpty
<1> HIDE DEF At
<1>4. Insert(bag, keys) = [k \in Mig |-> bag[k] + Cardinality(At(k))]
  BY DEF Insert, At
<1>5. \A k \in Mig : k \notin ToSet(keys) => Insert(bag, keys)[k] = bag[k]
  BY <1>1, <1>4
<1>6. keys = <<>> => Insert(bag, keys) = bag
  BY <1>3, <1>4, <1>5
<1>7. IsInjective(keys) => \A k \in Mig : k \in ToSet(keys) => Insert(bag, keys)[k] = bag[k] + 1
  BY <1>2, <1>4
<1> QED BY <1>5, <1>6, <1>7

-----------------------------------------------------------------------------
(* What MigrationHistory sees of a state, and its steps in these terms.    *)
Union == UNION {Eff(k) : k \in AtomicMig}
Schema == effects \cap Union
Table == [k \in AtomicKeys |-> rows[k]]
Free == [way |-> "none", keys |-> <<>>]
Owe(r) == IF r.pc = "record" /\ r.mig \in AtomicMig
            THEN [way |-> r.dir, keys |-> r.recs] ELSE Free
Owed == [p \in Proc |-> OwedBy(p)]

LEMMA Unseen ==
    ASSUME Schema' = Schema, Table' = Table, Owed' = Owed
    PROVE  UNCHANGED History!hvars
BY DEF History!hvars, Schema, Table, Owed, Union

LEMMA ApplyStep ==
    ASSUME NEW p \in Proc, NEW k \in AtomicMig, Owed[p] = Free, MadeOnce(k) \cap Schema = {},
           Schema' = Schema \cup Eff(k),
           Deferring(k) => /\ Owed' = [Owed EXCEPT ![p] = [way |-> "forwards", keys |-> Records[k]]]
                           /\ Table' = Table,
           ~Deferring(k) => /\ Table' = [j \in AtomicKeys |-> IF j \in ToSet(Records[k])
                                                              THEN Table[j] + 1 ELSE Table[j]]
                            /\ Owed' = Owed
    PROVE  History!Next
<1>1. CASE Deferring(k)
  <2>1. History!Apply(p, k)
    BY <1>1 DEF History!Apply, History!Owes, History!Nothing, Schema, Table, Owed, Union, Free
  <2> QED BY <2>1 DEF History!Next
<1>2. CASE ~Deferring(k)
  <2>1. History!Apply(p, k)
    BY <1>2 DEF History!Apply, History!Nothing, History!ToSet, ToSet, Schema, Table, Owed,
                Union, Free
  <2> QED BY <2>1 DEF History!Next
<1> QED BY <1>1, <1>2

LEMMA UndoStep ==
    ASSUME NEW p \in Proc, NEW k \in AtomicMig, Owed[p] = Free, Schema' = Schema \ Eff(k),
           Owed' = [Owed EXCEPT ![p] = [way |-> "backwards", keys |-> Records[k]]],
           Table' = Table
    PROVE  History!Next
<1>1. History!Undo(p, k)
  BY DEF History!Undo, History!Owes, History!Nothing, Schema, Table, Owed, Union, Free
<1> QED BY <1>1 DEF History!Next

LEMMA PretendStep ==
    ASSUME NEW p \in Proc, NEW k \in AtomicMig, Owed[p] = Free, Schema' = Schema,
           NEW w \in {"forwards", "backwards"},
           Owed' = [Owed EXCEPT ![p] = [way |-> w, keys |-> Records[k]]],
           Table' = Table
    PROVE  History!Next
<1>1. History!Pretend(p, k)
  BY DEF History!Pretend, History!Owes, History!Nothing, Schema, Table, Owed, Union, Free
<1> QED BY <1>1 DEF History!Next

LEMMA WriteStep ==
    ASSUME NEW p \in Proc, NEW o, Owed[p] = o, o.keys # <<>>, Schema' = Schema,
           Table' = IF o.way = "forwards" THEN [Table EXCEPT ![Head(o.keys)] = @ + 1]
                                          ELSE [Table EXCEPT ![Head(o.keys)] = 0],
           Owed' = [Owed EXCEPT ![p] = IF Len(o.keys) = 1 THEN Free
                                       ELSE [way |-> o.way, keys |-> Tail(o.keys)]]
    PROVE  History!Next
<1>1. History!Write(p)
  BY DEF History!Write, History!Nothing, Schema, Table, Owed, Union, Free
<1> QED BY <1>1 DEF History!Next

LEMMA LoseStep ==
    ASSUME NEW p \in Proc, Owed[p] # Free, Schema' = Schema, Table' = Table,
           Owed' = [Owed EXCEPT ![p] = Free]
    PROVE  History!Next
<1>1. History!Lose(p)
  BY DEF History!Lose, History!Nothing, Schema, Table, Owed, Union, Free
<1> QED BY <1>1 DEF History!Next

(* A step of p that MigrationHistory does not see.                         *)
Quiet(p) == /\ Schema' = Schema /\ Table' = Table /\ Owed' = Owed
            /\ run[p].pc # "record" /\ run'[p].pc # "record"
            /\ \A q \in Proc \ {p} : run'[q] = run[q]

(* One run changes, and with it what its command owes.                     *)
LEMMA OwedAfter ==
    ASSUME TypeOK, NEW p \in Proc, NEW R, run' = [run EXCEPT ![p] = R]
    PROVE  /\ Owed' = [Owed EXCEPT ![p] = Owe(R)]
           /\ Owed[p] = Owe(run[p])
           /\ Owe(R) = Owe(run[p]) => Owed' = Owed
<1>1. run'[p] = R /\ \A q \in Proc \ {p} : run'[q] = run[q]
  BY DEF TypeOK
<1>2. \A q \in Proc : OwedBy(q) = Owe(run[q]) /\ OwedBy(q)' = Owe(run'[q])
  BY DEF OwedBy, Owe, Free
<1>3. Owed = [q \in Proc |-> Owe(run[q])] /\ Owed' = [q \in Proc |-> Owe(run'[q])]
  BY <1>2 DEF Owed
<1> QED BY <1>1, <1>3

(* A migration that is not atomic is no part of the history.               *)
LEMMA NotAtomic ==
    ASSUME NEW m \in Mig, m \notin AtomicMig
    PROVE  Eff(m) \cap Union = {} /\ \A k \in AtomicKeys : k \notin ToSet(Records[m])
BY RefinementAssumption DEF Union, AtomicKeys, Writers

-----------------------------------------------------------------------------
(* Another's step leaves what a run has in hand alone.                     *)
LEMMA FitsKept ==
    ASSUME NEW r, NEW E, NEW G, NEW T, Fits(r, E), G \subseteq E \cup T,
           T \cap Touched(r) = {}
    PROVE  Fits(r, G)
<1>1. Ahead(r, E) => Ahead(r, G)
  BY DEF Ahead, Touched
<1> QED BY <1>1 DEF Fits

LEMMA OneFits ==
    ASSUME RInv, TInv', NEW p \in Proc, NEW R, run' = [run EXCEPT ![p] = R],
           Fits(R, effects'), NEW T, Touched(R) \subseteq T, effects' \subseteq effects \cup T,
           \A q \in Proc \ {p} : T \cap Touched(run[q]) = {}
    PROVE  RInv'
<1>1. run'[p] = R /\ \A q \in Proc \ {p} : run'[q] = run[q]
  BY DEF RInv, TInv, TypeOK
<1>2. ASSUME NEW q \in Proc
      PROVE  Fits(run'[q], effects')
  <2>1. CASE q = p
    BY <1>1, <2>1
  <2>2. CASE q # p
    <3>1. run'[q] = run[q] /\ Fits(run[q], effects) /\ T \cap Touched(run[q]) = {}
      BY <1>1, <2>2 DEF RInv
    <3>2. Fits(run[q], effects')
      BY <3>1, FitsKept
    <3> QED BY <3>1, <3>2
  <2> QED BY <2>1, <2>2
<1>3. ASSUME NEW q \in Proc, NEW o \in Proc \ {q}
      PROVE  Touched(run'[q]) \cap Touched(run'[o]) = {}
  <2>1. CASE q = p
    BY <1>1, <2>1
  <2>2. CASE o = p
    BY <1>1, <2>2
  <2>3. CASE q # p /\ o # p
    BY <1>1, <2>3 DEF RInv, Apart
  <2> QED BY <2>1, <2>2, <2>3
<1>4. Apart'
  BY <1>3 DEF Apart, Touched
<1> QED BY <1>2, <1>4 DEF RInv

LEMMA FitsChange ==
    ASSUME RInv, TInv', NEW p \in Proc, NEW R \in Run, Changed(p, R), Fits(R, effects),
           R.pc \notin {"idle", "record"}, R.mig \in Mig, R.mig \in AtomicMig => InTx(R),
           run[p].pc # "record",
           \A q \in Proc \ {p} : Touched(R) \cap Touched(run[q]) = {}
    PROVE  RInv' /\ Quiet(p)
<1>1. CASE InTx(R)
  <2>1. run' = [run EXCEPT ![p] = R] /\ effects' = effects /\ rows' = rows
    BY <1>1 DEF Changed
  <2>3. Schema' = Schema /\ Table' = Table
    BY <2>1 DEF Schema, Table, Union
  <2>4. Owed' = Owed
    BY <2>1, OwedAfter DEF Owe, RInv, TInv
  <2>2. Fits(R, effects') /\ effects' \subseteq effects \cup Touched(R)
    BY <2>1
  <2>5. run'[p] = R /\ \A q \in Proc \ {p} : run'[q] = run[q]
    BY <2>1 DEF RInv, TInv, TypeOK
  <2> QED BY <2>1, <2>2, <2>3, <2>4, <2>5, OneFits DEF Quiet
<1>2. CASE ~InTx(R)
  <2> DEFINE C == Committed(R)
  <2>1. /\ run' = [run EXCEPT ![p] = C] /\ effects' = (effects \ R.del) \cup R.add
        /\ rows' = Insert(rows, R.ins)
    BY <1>2 DEF Changed, CommitInto, Visible
  <2>2. /\ C.pc = R.pc /\ C.mig = R.mig /\ C.todo = R.todo /\ C.deferred = R.deferred
        /\ C.add = {} /\ C.del = {} /\ C.ins = <<>> /\ C.recs = R.recs
    BY DEF Committed, Run
  <2> HIDE DEF C
  <2>3. Within(C)
    BY <2>2, ToSetEmpty DEF Fits, Within
  <2>4. Fits(C, effects')
    BY <1>2, <2>2, <2>3 DEF Fits
  <2>5. Touched(C) \subseteq Touched(R) /\ effects' \subseteq effects \cup Touched(R)
    BY <2>1, <2>2 DEF Touched
  <2>6. Within(R) /\ R.mig \notin AtomicMig
    BY <1>2 DEF Fits
  <2>7. Schema' = Schema
    BY <2>1, <2>6, NotAtomic DEF Schema, Union, Within
  <2>8. \A k \in AtomicKeys : k \in Mig /\ rows'[k] = rows[k]
    <3>1. rows \in [Mig -> Nat] /\ R.ins \in Seq(Mig)
      BY DEF RInv, TInv, TypeOK, Run
    <3>2. \A k \in AtomicKeys : k \in Mig /\ k \notin ToSet(R.ins)
      BY <2>6, NotAtomic DEF Within, AtomicKeys
    <3> QED BY <2>1, <3>1, <3>2, InsertFacts
  <2>9. Table' = Table
    BY <2>8 DEF Table
  <2>10. Owed' = Owed
    BY <2>1, <2>2, OwedAfter DEF Owe, RInv, TInv
  <2>11. run'[p] = C /\ \A q \in Proc \ {p} : run'[q] = run[q]
    BY <2>1 DEF RInv, TInv, TypeOK
  <2> QED BY <2>1, <2>2, <2>4, <2>5, <2>7, <2>9, <2>10, <2>11, OneFits DEF Quiet
<1> QED BY <1>1, <1>2

LEMMA IdleFits ==
    ASSUME NEW E
    PROVE  Fits(Idle, E) /\ Touched(Idle) = {}
BY DEF Fits, Idle, Touched

(* What a command that is not idle knows of its run.                       *)
LEMMA FitFacts ==
    ASSUME RInv, NEW p \in Proc, run[p].pc # "idle"
    PROVE  /\ run[p] \in Run /\ run[p].mig \in Mig
           /\ run[p].dir \in {"forwards", "backwards"} /\ Within(run[p])
           /\ run[p].mig \in AtomicMig => Outside(run[p])
           /\ run[p].mig \in AtomicMig /\ run[p].pc # "record" /\ run[p].dir = "forwards"
                => Ahead(run[p], effects)
           /\ run[p].mig \in AtomicMig /\ run[p].pc # "record" /\ run[p].dir = "backwards"
                => Back(run[p])
           /\ \A q \in Proc \ {p} : Touched(run[p]) \cap Touched(run[q]) = {}
<1>1. run[p] \in Run /\ run[p].mig \in Mig /\ run[p].dir \in {"forwards", "backwards"}
  BY DEF RInv, TInv, TypeOK, Active
<1>2. Fits(run[p], effects)
  BY DEF RInv
<1> QED BY <1>1, <1>2 DEF Fits, RInv, Apart

LEMMA RInvInit == Init => RInv
<1> SUFFICES ASSUME Init PROVE RInv
  OBVIOUS
<1>1. TInv
  BY TInvInit
<1>2. \A p \in Proc : Fits(run[p], effects) /\ Touched(run[p]) = {}
  BY IdleFits DEF Init
<1> QED BY <1>1, <1>2 DEF RInv, Apart

LEMMA RInvPlan ==
    ASSUME RInv, TInv', NEW p \in Proc, Plan(p)
    PROVE  RInv'
<1>1. PICK k \in Mig, dir \in Dirs :
        run' = [run EXCEPT ![p] = [Idle EXCEPT !.pc = "begin", !.mig = k, !.dir = dir,
                       !.todo = Statements(k, dir), !.recs = RowsToWrite(k)]]
  BY DEF Plan
<1> DEFINE R == [Idle EXCEPT !.pc = "begin", !.mig = k, !.dir = dir,
                       !.todo = Statements(k, dir), !.recs = RowsToWrite(k)]
<1>2. /\ R.pc = "begin" /\ R.mig = k /\ R.dir = dir /\ R.todo = Statements(k, dir)
      /\ R.recs = Records[k] /\ R.add = {} /\ R.del = {} /\ R.ins = <<>>
      /\ R.deferred = <<>>
  BY DEF Idle, RowsToWrite
<1>3. run' = [run EXCEPT ![p] = R] /\ effects' = effects
  BY <1>1 DEF Plan
<1> HIDE DEF R
<1>4. AllOf(R.todo) = Eff(k)
  BY <1>2, StatementsAllOf
<1>5. Within(R)
  BY <1>2, <1>4, ToSetEmpty DEF Within
<1>6. Outside(R)
  BY <1>2 DEF Outside
<1>7. ASSUME dir = "forwards"
      PROVE  Ahead(R, effects)
  <2>1. R.todo = Program[k]
    BY <1>2, <1>7 DEF Statements
  <2>2. MadeOnce(k) = OnceOf(R.todo) /\ (Deferring(k) <=> SomeLater(R.todo))
    BY <2>1, ProgramOnce
  <2>3. Records[k] \in Seq(Mig)
    BY RunnerAssumption
  <2>4. <<>> \o Records[k] = Records[k]
    BY <2>3
  <2> QED BY <1>2, <1>4, <2>2, <2>4 DEF Ahead
<1>8. Back(R)
  BY <1>2, <1>4 DEF Back
<1>9. Fits(R, effects')
  BY <1>2, <1>3, <1>5, <1>6, <1>7, <1>8 DEF Fits
<1>10. Touched(R) = {}
  BY <1>2 DEF Touched
<1> QED BY <1>3, <1>9, <1>10, OneFits

LEMMA RInvBegin ==
    ASSUME CanRollbackDDL, RInv, TInv', NEW p \in Proc, Begin(p)
    PROVE  RInv'
<1> DEFINE r == run[p]
           R == [r EXCEPT !.pc = "ops",
                   !.tx = IF AtomicMigration(r.mig) THEN "migration" ELSE "none"]
<1>1. r.pc = "begin" /\ effects' = effects
  BY DEF Begin
<1>2. /\ r \in Run /\ Within(r) /\ (r.mig \in AtomicMig => Outside(r))
      /\ r.mig \in AtomicMig /\ r.dir = "forwards" => Ahead(r, effects)
      /\ r.mig \in AtomicMig /\ r.dir = "backwards" => Back(r)
      /\ \A q \in Proc \ {p} : Touched(r) \cap Touched(run[q]) = {}
  BY <1>1, FitFacts
<1>3. run' = [run EXCEPT ![p] = R]
  BY DEF Begin, RInv, TInv, TypeOK
<1> HIDE DEF r
<1>4. /\ R.pc = "ops" /\ R.mig = r.mig /\ R.dir = r.dir /\ R.todo = r.todo
      /\ R.deferred = r.deferred /\ R.add = r.add /\ R.del = r.del
      /\ R.ins = r.ins /\ R.recs = r.recs /\ (r.mig \in AtomicMig => R.tx = "migration")
  BY <1>2 DEF Run, AtomicMigration
<1> HIDE DEF R
<1>5. Within(R)
  BY <1>2, <1>4 DEF Within
<1>6. r.mig \in AtomicMig => Outside(R)
  BY <1>4 DEF Outside
<1>7. Ahead(r, effects) => Ahead(R, effects)
  BY <1>1, <1>4 DEF Ahead
<1>8. Back(r) => Back(R)
  BY <1>4 DEF Back
<1>9. Fits(R, effects')
  BY <1>1, <1>2, <1>4, <1>5, <1>6, <1>7, <1>8 DEF Fits
<1>10. Touched(R) = Touched(r)
  BY <1>4 DEF Touched
<1> QED BY <1>1, <1>2, <1>3, <1>9, <1>10, OneFits

LEMMA RInvEndOps ==
    ASSUME RInv, TInv', NEW p \in Proc, EndOps(p)
    PROVE  RInv'
<1> DEFINE r == run[p]
           R == [r EXCEPT !.pc = "finish"]
<1>1. /\ r.pc = "ops" /\ r.todo = <<>> /\ effects' = effects
      /\ r.dir = "forwards" /\ r.deferred = <<>> => r.recs = <<>>
  BY DEF EndOps, RecordsBeforeFinish
<1>2. /\ r \in Run /\ Within(r) /\ (r.mig \in AtomicMig => Outside(r))
      /\ r.mig \in AtomicMig /\ r.dir = "forwards" => Ahead(r, effects)
      /\ r.mig \in AtomicMig /\ r.dir = "backwards" => Back(r)
      /\ \A q \in Proc \ {p} : Touched(r) \cap Touched(run[q]) = {}
  BY <1>1, FitFacts
<1>3. run' = [run EXCEPT ![p] = R]
  BY DEF EndOps, RInv, TInv, TypeOK
<1> HIDE DEF r
<1>4. /\ R.pc = "finish" /\ R.mig = r.mig /\ R.dir = r.dir /\ R.todo = r.todo
      /\ R.deferred = r.deferred /\ R.add = r.add /\ R.del = r.del
      /\ R.ins = r.ins /\ R.recs = r.recs /\ R.tx = r.tx
  BY <1>2 DEF Run
<1> HIDE DEF R
<1>5. Within(R)
  BY <1>2, <1>4 DEF Within
<1>6. Outside(r) => Outside(R)
  BY <1>1, <1>4 DEF Outside
<1>7. r.dir = "forwards" /\ Ahead(r, effects) => Ahead(R, effects)
  BY <1>1, <1>4, OnceEmpty DEF Ahead
<1>8. Back(r) => Back(R)
  BY <1>4 DEF Back
<1>9. Fits(R, effects')
  BY <1>1, <1>2, <1>4, <1>5, <1>6, <1>7, <1>8 DEF Fits
<1>10. Touched(R) = Touched(r)
  BY <1>4 DEF Touched
<1> QED BY <1>1, <1>2, <1>3, <1>9, <1>10, OneFits

LEMMA RInvFake ==
    ASSUME RInv, TInv', NEW p \in Proc, Fake(p)
    PROVE  RInv'
<1> DEFINE r == run[p]
           R == [r EXCEPT !.pc = "record", !.todo = <<>>]
<1>1. r.pc = "begin" /\ effects' = effects
  BY DEF Fake
<1>2. /\ r \in Run /\ Within(r) /\ (r.mig \in AtomicMig => Outside(r))
      /\ \A q \in Proc \ {p} : Touched(r) \cap Touched(run[q]) = {}
  BY <1>1, FitFacts
<1>3. run' = [run EXCEPT ![p] = R]
  BY DEF Fake, RInv, TInv, TypeOK
<1> HIDE DEF r
<1>4. /\ R.pc = "record" /\ R.mig = r.mig /\ R.dir = r.dir /\ R.todo = <<>>
      /\ R.deferred = r.deferred /\ R.add = r.add /\ R.del = r.del
      /\ R.ins = r.ins /\ R.recs = r.recs
  BY <1>2 DEF Run
<1> HIDE DEF R
<1>5. Within(R)
  BY <1>2, <1>4, ToSetEmpty DEF Within
<1>6. Outside(r) => Outside(R)
  BY <1>1, <1>4 DEF Outside
<1>7. Fits(R, effects')
  BY <1>1, <1>2, <1>4, <1>5, <1>6 DEF Fits
<1>8. Touched(R) = Touched(r)
  BY <1>4 DEF Touched
<1> QED BY <1>1, <1>2, <1>3, <1>7, <1>8, OneFits

LEMMA RInvExecute ==
    ASSUME CanRollbackDDL, RInv, TInv', NEW p \in Proc, Execute(p)
    PROVE  RInv' /\ Quiet(p)
<1> DEFINE r == run[p]
           w == WithTx(r)
           u == Stepped(w)
           s == Head(w.todo)
           R == EndOp(ImplicitCommit(u, s), LastOfOp(w))
<1>1. /\ r.pc = "ops" /\ r.todo # <<>> /\ Changed(p, R)
      /\ ~RefusedByServer(w, s) /\ \A e \in Yields(s) : ~Locked(p, e)
  BY DEF Execute, Refuses
<1>2. /\ r \in Run /\ r.mig \in Mig /\ r.dir \in {"forwards", "backwards"}
      /\ Within(r) /\ (r.mig \in AtomicMig => Outside(r))
      /\ r.mig \in AtomicMig /\ r.dir = "forwards" => Ahead(r, effects)
      /\ r.mig \in AtomicMig /\ r.dir = "backwards" => Back(r)
      /\ \A q \in Proc \ {p} : Touched(r) \cap Touched(run[q]) = {}
  BY <1>1, FitFacts
<1>3. R \in Run /\ R.mig = r.mig /\ R.dir = r.dir /\ Same(R, u)
  BY <1>1, <1>2, ExecutedType
<1>4. w \in Run /\ Same(w, r)
  BY <1>2, WithTxType
<1>5. r.mig \in AtomicMig => R.tx = "migration"
  <2> SUFFICES ASSUME r.mig \in AtomicMig PROVE R.tx = "migration"
    OBVIOUS
  <2>1. r.tx = "migration"
    BY <1>1, <1>2 DEF Outside
  <2> QED BY <1>1, <1>2, <2>1, TxKept
<1>6. \A q \in Proc \ {p} : Yields(s) \cap Touched(run[q]) = {}
  BY <1>1 DEF Locked, Touched
<1> HIDE DEF R, r, w
<1>7. s = Head(r.todo) /\ s \in Stmt /\ r.todo \in Seq(Stmt) /\ r.deferred \in Seq(Effect)
  <2>1. w.todo = r.todo
    BY <1>4 DEF Same
  <2> QED BY <1>1, <1>2, <2>1 DEF Run
<1>8. s.later \in Seq(Effect)
  BY <1>7 DEF Stmt
<1>9. AllOf(r.todo) = Yields(s) \cup AllOf(Tail(r.todo))
  BY <1>1, <1>7, AllOfSplit
<1>10. Yields(s) = {s.effect} \cup ToSet(s.later)
  BY DEF Yields
<1>11. R.pc = "ops" /\ R.ins = r.ins /\ R.recs = r.recs /\ R.todo = Tail(r.todo)
  <2>1. w.dir \in {"forwards", "backwards"}
    BY <1>2, <1>4 DEF Same
  <2>2. u.pc = w.pc /\ u.ins = w.ins /\ u.recs = w.recs /\ u.todo = Tail(w.todo)
    BY <1>4, <2>1, SteppedForward, SteppedBackward
  <2> QED BY <1>1, <1>3, <1>4, <2>2 DEF Same
<1>12. CASE r.dir = "forwards"
  <2>1. /\ R.add = r.add \cup {s.effect} /\ R.del = r.del \ {s.effect}
        /\ R.deferred = r.deferred \o s.later
    BY <1>3, <1>4, <1>12, SteppedForward DEF Same
  <2> HIDE DEF s, u
  <2>2. ToSet(R.deferred) = ToSet(r.deferred) \cup ToSet(s.later)
    BY <1>7, <1>8, <2>1, ConcatFacts
  <2>3. Within(R)
    BY <1>2, <1>3, <1>9, <1>10, <1>11, <2>1, <2>2 DEF Within
  <2>4. ASSUME r.mig \in AtomicMig
        PROVE  Outside(R) /\ Ahead(R, effects)
    <3>1. Outside(r) /\ Ahead(r, effects)
      BY <1>2, <1>12, <2>4
    <3>2. Outside(R)
      BY <1>5, <1>11, <2>4 DEF Outside
    <3>3. s.kind = "ddl" => s.effect \notin effects
      BY <1>1, <1>4, <1>12, <3>1 DEF RefusedByServer, Visible, Same, Ahead
    <3>4. OnceOf(r.todo) \subseteq OnceOf(R.todo) \cup ToSet(s.later)
                                   \cup (IF s.kind = "ddl" THEN {s.effect} ELSE {})
      BY <1>1, <1>7, <1>11, OnceSplit
    <3>5. \A e \in MadeOnce(R.mig) : \/ e \in R.add /\ e \notin effects
                                     \/ e \in ToSet(R.deferred) \cup OnceOf(R.todo)
      BY <1>3, <2>1, <2>2, <3>1, <3>3, <3>4 DEF Ahead
    <3>6. Deferring(r.mig) <=> r.deferred # <<>> \/ SomeLater(r.todo)
      BY <1>1, <3>1 DEF Ahead
    <3>7. SomeLater(r.todo) <=> s.later # <<>> \/ SomeLater(R.todo)
      BY <1>1, <1>7, <1>11, OnceSplit
    <3>8. R.deferred = <<>> <=> r.deferred = <<>> /\ s.later = <<>>
      BY <1>7, <1>8, <2>1, ConcatFacts
    <3>9. Deferring(R.mig) <=> R.deferred # <<>> \/ SomeLater(R.todo)
      BY <1>3, <3>6, <3>7, <3>8
    <3>10. r.ins = <<>>
      BY <1>1, <3>1 DEF Ahead
    <3>11. Eff(R.mig) \subseteq R.add \cup AllOf(R.todo) \cup ToSet(R.deferred)
      BY <1>3, <1>9, <1>10, <1>11, <2>1, <2>2, <3>1 DEF Ahead
    <3>12. R.ins \o R.recs = Records[R.mig] /\ R.del = {}
      BY <1>3, <1>11, <2>1, <3>1 DEF Ahead
    <3> QED BY <1>11, <3>2, <3>5, <3>9, <3>10, <3>11, <3>12 DEF Ahead
  <2>5. Fits(R, effects)
    BY <1>3, <1>12, <2>3, <2>4 DEF Fits
  <2>6. Touched(R) \subseteq Touched(r) \cup Yields(s)
    BY <1>10, <2>1 DEF Touched
  <2>7. \A q \in Proc \ {p} : Touched(R) \cap Touched(run[q]) = {}
    BY <1>2, <1>6, <2>6 DEF s
  <2>8. R.mig \in AtomicMig => InTx(R)
    BY <1>3, <1>5 DEF InTx
  <2> QED BY <1>1, <1>2, <1>3, <1>11, <2>5, <2>7, <2>8, FitsChange DEF r, s, u
<1>13. CASE r.dir = "backwards"
  <2>1. /\ R.add = r.add \ Yields(s) /\ R.del = r.del \cup Yields(s)
        /\ R.deferred = r.deferred
    BY <1>3, <1>4, <1>13, SteppedBackward DEF Same
  <2> HIDE DEF s, u
  <2>2. Within(R)
    BY <1>2, <1>3, <1>9, <1>11, <2>1 DEF Within
  <2>3. ASSUME r.mig \in AtomicMig
        PROVE  Outside(R) /\ Back(R)
    <3>1. Back(r)
      BY <1>2, <1>13, <2>3
    <3>2. Outside(R)
      BY <1>5, <1>11, <2>3 DEF Outside
    <3>3. Back(R)
      BY <1>3, <1>9, <1>11, <2>1, <3>1 DEF Back
    <3> QED BY <3>2, <3>3
  <2>4. Fits(R, effects)
    BY <1>3, <1>13, <2>2, <2>3 DEF Fits
  <2>5. Touched(R) \subseteq Touched(r) \cup Yields(s)
    BY <2>1 DEF Touched
  <2>6. \A q \in Proc \ {p} : Touched(R) \cap Touched(run[q]) = {}
    BY <1>2, <1>6, <2>5 DEF s
  <2>7. R.mig \in AtomicMig => InTx(R)
    BY <1>3, <1>5 DEF InTx
  <2> QED BY <1>1, <1>2, <1>3, <1>11, <2>4, <2>6, <2>7, FitsChange DEF r, s, u
<1> QED BY <1>2, <1>12, <1>13

LEMMA RInvRecordInside ==
    ASSUME CanRollbackDDL, RInv, TInv', NEW p \in Proc, RecordInside(p)
    PROVE  RInv' /\ Quiet(p)
<1> DEFINE r == run[p]
           i == Append(r.ins, Head(r.recs))
           c == Tail(r.recs)
           R == [r EXCEPT !.ins = i, !.recs = c]
<1>1. /\ r.pc = "ops" /\ r.todo = <<>> /\ r.recs # <<>> /\ Changed(p, R)
      /\ r.dir = "forwards" /\ r.deferred = <<>>
  BY DEF RecordInside, RecordsBeforeFinish
<1>2. /\ r \in Run /\ r.mig \in Mig /\ Within(r)
      /\ r.mig \in AtomicMig => Outside(r) /\ Ahead(r, effects)
      /\ \A q \in Proc \ {p} : Touched(r) \cap Touched(run[q]) = {}
  BY <1>1, FitFacts
<1> HIDE DEF r
<1>3. r.ins \in Seq(Mig) /\ r.recs \in Seq(Mig)
  BY <1>2 DEF Run
<1>4. i \in Seq(Mig) /\ c \in Seq(Mig) /\ Head(r.recs) \in Mig
  BY <1>1, <1>3
<1>5. Head(r.recs) \in ToSet(r.recs) /\ ToSet(c) \subseteq ToSet(r.recs)
  BY <1>1, <1>3, ToSetTail
<1>6. ToSet(i) \subseteq ToSet(r.ins) \cup {Head(r.recs)}
  BY <1>3, <1>4, ToSetAppend
<1>7. i \o c = r.ins \o r.recs
  BY <1>1, <1>3, ShiftKey
<1> HIDE DEF i, c
<1>8. R \in Run
  BY <1>2, <1>4 DEF Run
<1>9. /\ R.pc = r.pc /\ R.mig = r.mig /\ R.dir = r.dir /\ R.todo = r.todo
      /\ R.deferred = r.deferred /\ R.add = r.add /\ R.del = r.del
      /\ R.ins = i /\ R.recs = c /\ R.tx = r.tx
  BY <1>2 DEF Run
<1> HIDE DEF R
<1>10. Within(R)
  BY <1>2, <1>5, <1>6, <1>9 DEF Within
<1>11. Outside(r) => Outside(R)
  BY <1>1, <1>9 DEF Outside
<1>12. ASSUME Ahead(r, effects)
       PROVE  Ahead(R, effects)
  <2>1. ~Deferring(r.mig)
    BY <1>1, <1>12, OnceEmpty DEF Ahead
  <2> QED BY <1>1, <1>7, <1>9, <1>12, <2>1 DEF Ahead
<1>13. Fits(R, effects)
  BY <1>1, <1>2, <1>9, <1>10, <1>11, <1>12 DEF Fits
<1>14. Touched(R) = Touched(r)
  BY <1>9 DEF Touched
<1>15. R.mig \in AtomicMig => InTx(R)
  BY <1>1, <1>2, <1>9 DEF Outside, InTx
<1> QED BY <1>1, <1>2, <1>8, <1>9, <1>13, <1>14, <1>15, FitsChange DEF r

LEMMA RInvRunDeferred ==
    ASSUME CanRollbackDDL, RInv, TInv', NEW p \in Proc, RunDeferred(p)
    PROVE  RInv' /\ Quiet(p)
<1> DEFINE r == run[p]
           e == Head(r.deferred)
           a == r.add \cup {e}
           d == Tail(r.deferred)
           R == [r EXCEPT !.add = a, !.deferred = d]
<1>1. /\ r.pc = "finish" /\ r.deferred # <<>> /\ Changed(p, R)
      /\ e \notin (effects \ r.del) \cup r.add /\ ~Locked(p, e)
  BY DEF RunDeferred, Visible
<1>2. /\ r \in Run /\ r.mig \in Mig /\ r.dir \in {"forwards", "backwards"}
      /\ Within(r) /\ (r.mig \in AtomicMig => Outside(r))
      /\ r.mig \in AtomicMig /\ r.dir = "forwards" => Ahead(r, effects)
      /\ r.mig \in AtomicMig /\ r.dir = "backwards" => Back(r)
      /\ \A q \in Proc \ {p} : Touched(r) \cap Touched(run[q]) = {}
  BY <1>1, FitFacts
<1>3. \A q \in Proc \ {p} : e \notin Touched(run[q])
  BY <1>1 DEF Locked, Touched
<1> HIDE DEF r
<1>4. r.deferred \in Seq(Effect) /\ r.add \in SUBSET Effect
  BY <1>2 DEF Run
<1>5. a \in SUBSET Effect /\ d \in Seq(Effect)
  BY <1>1, <1>4
<1>6. ToSet(r.deferred) = {e} \cup ToSet(d) /\ r.add \cup {e} = a
  BY <1>1, <1>4, ToSetTail
<1> HIDE DEF a, d, e
<1>7. R \in Run
  BY <1>2, <1>5 DEF Run
<1>8. /\ R.pc = r.pc /\ R.mig = r.mig /\ R.dir = r.dir /\ R.todo = r.todo
      /\ R.deferred = d /\ R.add = a /\ R.del = r.del
      /\ R.ins = r.ins /\ R.recs = r.recs /\ R.tx = r.tx
  BY <1>2 DEF Run
<1> HIDE DEF R
<1>9. Within(R)
  BY <1>2, <1>6, <1>8 DEF Within
<1>10. Outside(r) => Outside(R)
  BY <1>1, <1>8 DEF Outside
<1>11. ASSUME r.mig \in AtomicMig
       PROVE  r.dir = "forwards" /\ Ahead(R, effects)
  <2>1. r.dir = "forwards" /\ Ahead(r, effects)
    BY <1>1, <1>2, <1>11 DEF Back
  <2>2. e \notin effects
    BY <1>1, <2>1 DEF Ahead
  <2>3. r.ins = <<>>
    BY <1>1, <2>1 DEF Ahead
  <2>4. \A x \in MadeOnce(R.mig) : \/ x \in R.add /\ x \notin effects
                                   \/ x \in ToSet(R.deferred) \cup OnceOf(R.todo)
    BY <1>6, <1>8, <2>1, <2>2 DEF Ahead
  <2>5. Eff(R.mig) \subseteq R.add \cup AllOf(R.todo) \cup ToSet(R.deferred)
    BY <1>6, <1>8, <2>1 DEF Ahead
  <2> QED BY <1>1, <1>8, <2>1, <2>3, <2>4, <2>5 DEF Ahead
<1>12. Fits(R, effects)
  BY <1>1, <1>2, <1>8, <1>9, <1>10, <1>11 DEF Fits
<1>13. Touched(R) = Touched(r) \cup {e}
  BY <1>6, <1>8 DEF Touched
<1>14. R.mig \in AtomicMig => InTx(R)
  BY <1>1, <1>2, <1>8 DEF Outside, InTx
<1>15. \A q \in Proc \ {p} : Touched(R) \cap Touched(run[q]) = {}
  BY <1>2, <1>3, <1>13
<1> QED BY <1>1, <1>2, <1>7, <1>8, <1>12, <1>14, <1>15, FitsChange DEF r

LEMMA RInvFinish ==
    ASSUME RInv, TInv', NEW p \in Proc, Finish(p)
    PROVE  RInv'
<1> DEFINE r == run[p]
           R == AfterFinish(r)
           D == [Committed(r) EXCEPT !.pc = "record"]
<1>1. /\ r.pc = "finish" /\ r.deferred = <<>> /\ run' = [run EXCEPT ![p] = R]
      /\ effects' = (effects \ r.del) \cup r.add /\ (R = Idle \/ R = D)
  BY DEF Finish, CommitInto, Visible, AfterFinish
<1>2. /\ r \in Run /\ Within(r) /\ (r.mig \in AtomicMig => Outside(r))
      /\ \A q \in Proc \ {p} : Touched(r) \cap Touched(run[q]) = {}
  BY <1>1, FitFacts
<1> HIDE DEF r, R
<1>3. /\ D.pc = "record" /\ D.mig = r.mig /\ D.todo = r.todo /\ D.recs = r.recs
      /\ D.add = {} /\ D.del = {} /\ D.ins = <<>> /\ D.deferred = <<>>
  BY <1>1, <1>2 DEF Run, Committed
<1> HIDE DEF D
<1>4. Within(D)
  BY <1>2, <1>3, ToSetEmpty DEF Within
<1>5. Outside(r) => Outside(D)
  BY <1>1, <1>3 DEF Outside
<1>6. Fits(D, effects') /\ Touched(D) = {}
  BY <1>2, <1>3, <1>4, <1>5 DEF Fits, Touched
<1>7. Fits(R, effects') /\ Touched(R) \subseteq Touched(r)
  BY <1>1, <1>6, IdleFits
<1>8. effects' \subseteq effects \cup Touched(r)
  BY <1>1 DEF Touched
<1> QED BY <1>1, <1>2, <1>7, <1>8, OneFits

LEMMA RInvRecord ==
    ASSUME RInv, TInv', NEW p \in Proc, Record(p)
    PROVE  RInv'
<1> DEFINE r == run[p]
           c == Tail(r.recs)
           C == [r EXCEPT !.recs = c]
           R == IF Len(r.recs) = 1 THEN Idle ELSE C
<1>1. /\ r.pc = "record" /\ r.recs # <<>> /\ effects' = effects
      /\ run' = [run EXCEPT ![p] = R] /\ (R = Idle \/ R = C)
  BY DEF Record
<1>2. /\ r \in Run /\ Within(r) /\ (r.mig \in AtomicMig => Outside(r))
      /\ \A q \in Proc \ {p} : Touched(r) \cap Touched(run[q]) = {}
  BY <1>1, FitFacts
<1> HIDE DEF r, R
<1>3. ToSet(c) \subseteq ToSet(r.recs)
  <2>1. r.recs \in Seq(Mig)
    BY <1>2 DEF Run
  <2> QED BY <1>1, <2>1, ToSetTail
<1> HIDE DEF c
<1>4. /\ C.pc = r.pc /\ C.mig = r.mig /\ C.dir = r.dir /\ C.todo = r.todo
      /\ C.deferred = r.deferred /\ C.add = r.add /\ C.del = r.del
      /\ C.ins = r.ins /\ C.recs = c
  BY <1>2 DEF Run
<1> HIDE DEF C
<1>5. Within(C)
  BY <1>2, <1>3, <1>4 DEF Within
<1>6. Outside(r) => Outside(C)
  BY <1>1, <1>4 DEF Outside
<1>7. Fits(C, effects') /\ Touched(C) = Touched(r)
  BY <1>1, <1>2, <1>4, <1>5, <1>6 DEF Fits, Touched
<1>8. Fits(R, effects') /\ Touched(R) \subseteq Touched(r)
  BY <1>1, <1>7, IdleFits
<1> QED BY <1>1, <1>2, <1>8, OneFits

LEMMA RInvError ==
    ASSUME RInv, TInv', NEW p \in Proc, Refused(p) \/ Fault(p)
    PROVE  RInv'
<1>1. run' = [run EXCEPT ![p] = Idle] /\ effects' = effects
  BY DEF Refused, Fault, Abandon
<1>2. Fits(Idle, effects') /\ Touched(Idle) = {}
  BY IdleFits
<1> QED BY <1>1, <1>2, OneFits

LEMMA RInvNext ==
    ASSUME CanRollbackDDL
    PROVE  RInv /\ [Next]_vars => RInv'
<1> SUFFICES ASSUME RInv, [Next]_vars PROVE RInv'
  OBVIOUS
<1>1. TInv'
  BY TInvNext DEF RInv
<1>2. CASE UNCHANGED vars
  BY <1>1, <1>2 DEF vars, RInv, Apart, Touched
<1>3. CASE Done
  BY <1>1, <1>3 DEF Done, vars, RInv, Apart, Touched
<1>4. ASSUME NEW p \in Proc, Plan(p) \/ Step(p) \/ Fault(p)
      PROVE  RInv'
  BY <1>1, <1>4, RInvPlan, RInvBegin, RInvFake, RInvExecute, RInvRecordInside, RInvEndOps,
     RInvRunDeferred, RInvFinish, RInvRecord, RInvError DEF Step
<1> QED BY <1>2, <1>3, <1>4 DEF Next

-----------------------------------------------------------------------------
(* The refinement, action by action.  The statements inside a transaction  *)
(* have been dealt with: nobody sees them.                                 *)
LEMMA QuietStep ==
    ASSUME RInv, NEW p \in Proc, Plan(p) \/ Begin(p) \/ EndOps(p)
    PROVE  Quiet(p)
<1>1. PICK R : run' = [run EXCEPT ![p] = R] /\ R.pc # "record"
  <2>1. CASE Plan(p)
    <3>1. PICK k \in Mig, dir \in Dirs :
            run' = [run EXCEPT ![p] = [Idle EXCEPT !.pc = "begin", !.mig = k, !.dir = dir,
                           !.todo = Statements(k, dir), !.recs = RowsToWrite(k)]]
      BY <2>1 DEF Plan
    <3> DEFINE R == [Idle EXCEPT !.pc = "begin", !.mig = k, !.dir = dir,
                           !.todo = Statements(k, dir), !.recs = RowsToWrite(k)]
    <3>2. R.pc = "begin" /\ run' = [run EXCEPT ![p] = R]
      BY <3>1 DEF Idle
    <3> HIDE DEF R
    <3> QED BY <3>2
  <2>2. CASE Begin(p)
    <3> DEFINE R == [run[p] EXCEPT !.pc = "ops",
                       !.tx = IF AtomicMigration(run[p].mig) THEN "migration" ELSE "none"]
    <3>1. R.pc = "ops" /\ run' = [run EXCEPT ![p] = R]
      BY <2>2 DEF Begin, RInv, TInv, TypeOK, Run
    <3> HIDE DEF R
    <3> QED BY <3>1
  <2>3. CASE EndOps(p)
    <3> DEFINE R == [run[p] EXCEPT !.pc = "finish"]
    <3>1. R.pc = "finish" /\ run' = [run EXCEPT ![p] = R]
      BY <2>3 DEF EndOps, RInv, TInv, TypeOK, Run
    <3> HIDE DEF R
    <3> QED BY <3>1
  <2> QED BY <2>1, <2>2, <2>3
<1>2. run[p].pc # "record" /\ effects' = effects /\ rows' = rows
  BY DEF Plan, Begin, EndOps
<1>3. Owed' = Owed
  BY <1>1, <1>2, OwedAfter DEF Owe, RInv, TInv
<1>4. Schema' = Schema /\ Table' = Table
  BY <1>2 DEF Schema, Table, Union
<1>5. run'[p] = R /\ \A q \in Proc \ {p} : run'[q] = run[q]
  BY <1>1 DEF RInv, TInv, TypeOK
<1> QED BY <1>1, <1>2, <1>3, <1>4, <1>5 DEF Quiet

LEMMA FakeStep ==
    ASSUME RInv, NEW p \in Proc, Fake(p)
    PROVE  History!Next \/ UNCHANGED History!hvars
<1> DEFINE r == run[p]
           R == [r EXCEPT !.pc = "record", !.todo = <<>>]
<1>1. r.pc = "begin" /\ effects' = effects /\ rows' = rows
  BY DEF Fake
<1>2. r \in Run /\ r.dir \in {"forwards", "backwards"} /\ (r.mig \in AtomicMig => Outside(r))
  BY <1>1, FitFacts
<1>3. run' = [run EXCEPT ![p] = R]
  BY DEF Fake, RInv, TInv, TypeOK
<1>4. R.pc = "record" /\ R.mig = r.mig /\ R.dir = r.dir /\ R.recs = r.recs
  BY <1>2 DEF Run
<1> HIDE DEF R
<1>5. Schema' = Schema /\ Table' = Table
  BY <1>1 DEF Schema, Table, Union
<1>6. Owed' = [Owed EXCEPT ![p] = Owe(R)] /\ Owed[p] = Owe(r) /\ (Owe(R) = Owe(r) => Owed' = Owed)
  BY <1>3, OwedAfter DEF RInv, TInv
<1>7. Owe(r) = Free
  BY <1>1 DEF Owe
<1>8. CASE r.mig \in AtomicMig
  <2>1. Owe(R) = [way |-> r.dir, keys |-> Records[r.mig]]
    BY <1>1, <1>2, <1>4, <1>8 DEF Owe, Outside
  <2> QED BY <1>2, <1>5, <1>6, <1>7, <1>8, <2>1, PretendStep
<1>9. CASE r.mig \notin AtomicMig
  <2>1. Owe(R) = Free
    BY <1>4, <1>9 DEF Owe
  <2> QED BY <1>5, <1>6, <1>7, <2>1, Unseen
<1> QED BY <1>8, <1>9

(* The commit: a migration is there, or gone, in one step.                 *)
LEMMA FinishFacts ==
    ASSUME RInv, NEW p \in Proc, Finish(p)
    PROVE  LET r == run[p]
               m == r.mig
           IN  /\ Owed[p] = Free /\ m \in Mig /\ r.pc = "finish"
               /\ r.dir \in {"forwards", "backwards"}
               /\ m \notin AtomicMig => Schema' = Schema /\ Table' = Table /\ Owed' = Owed
               /\ m \in AtomicMig /\ r.dir = "forwards" =>
                    /\ MadeOnce(m) \cap Schema = {} /\ Schema' = Schema \cup Eff(m)
                    /\ Deferring(m) =>
                         /\ Owed' = [Owed EXCEPT ![p] = [way |-> "forwards", keys |-> Records[m]]]
                         /\ Table' = Table /\ r.recs = Records[m]
                    /\ ~Deferring(m) =>
                         /\ Table' = [j \in AtomicKeys |-> IF j \in ToSet(Records[m])
                                                          THEN Table[j] + 1 ELSE Table[j]]
                         /\ Owed' = Owed /\ r.recs = <<>>
               /\ m \in AtomicMig /\ r.dir = "backwards" =>
                    /\ Schema' = Schema \ Eff(m) /\ Table' = Table /\ r.recs = Records[m]
                    /\ Owed' = [Owed EXCEPT ![p] = [way |-> "backwards", keys |-> Records[m]]]
<1> DEFINE r == run[p]
           m == r.mig
           R == AfterFinish(r)
           D == [Committed(r) EXCEPT !.pc = "record"]
<1>1. /\ r.pc = "finish" /\ r.deferred = <<>> /\ run' = [run EXCEPT ![p] = R]
      /\ effects' = (effects \ r.del) \cup r.add /\ rows' = Insert(rows, r.ins)
      /\ R = IF r.recs = <<>> THEN Idle ELSE D
  BY DEF Finish, CommitInto, Visible, AfterFinish
<1>2. /\ r \in Run /\ m \in Mig /\ r.dir \in {"forwards", "backwards"} /\ Within(r)
      /\ m \in AtomicMig => Outside(r)
      /\ m \in AtomicMig /\ r.dir = "forwards" => Ahead(r, effects)
      /\ m \in AtomicMig /\ r.dir = "backwards" => Back(r)
  BY <1>1, FitFacts
<1>3. D.pc = "record" /\ D.mig = m /\ D.dir = r.dir /\ D.recs = r.recs
  BY <1>2 DEF Run, Committed
<1>4. Owed' = [Owed EXCEPT ![p] = Owe(R)] /\ Owed[p] = Owe(r) /\ (Owe(R) = Owe(r) => Owed' = Owed)
  BY <1>1, OwedAfter DEF RInv, TInv
<1>5. rows \in [Mig -> Nat] /\ r.ins \in Seq(Mig) /\ AtomicKeys \subseteq Mig
  BY <1>2 DEF RInv, TInv, TypeOK, Run, AtomicKeys
<1> HIDE DEF R, r, m, D
<1>6. Owe(r) = Free
  BY <1>1 DEF Owe
<1>7. Owe(R) = IF r.recs = <<>> \/ m \notin AtomicMig THEN Free
               ELSE [way |-> r.dir, keys |-> r.recs]
  BY <1>1, <1>3 DEF Owe, Idle
<1>8. Table' = [k \in AtomicKeys |-> rows'[k]] /\ Table = [k \in AtomicKeys |-> rows[k]]
  BY DEF Table
<1>9. ASSUME m \notin AtomicMig
      PROVE  Schema' = Schema /\ Table' = Table /\ Owed' = Owed
  <2>1. Schema' = Schema
    BY <1>1, <1>2, <1>9, NotAtomic DEF Schema, Union, Within, m
  <2>2. \A k \in AtomicKeys : k \notin ToSet(r.ins)
    BY <1>2, <1>9, NotAtomic DEF Within, m
  <2>3. \A k \in AtomicKeys : rows'[k] = rows[k]
    BY <1>1, <1>5, <2>2, InsertFacts
  <2> QED BY <1>4, <1>6, <1>7, <1>8, <1>9, <2>1, <2>3
<1>10. ASSUME m \in AtomicMig, r.ins = <<>>
       PROVE  Table' = Table
  BY <1>1, <1>5, <1>8, <1>10, InsertFacts
<1>11. ASSUME m \in AtomicMig
       PROVE  r.todo = <<>> /\ Eff(m) \subseteq Union /\ Records[m] # <<>>
              /\ r.add \cup r.del \subseteq Eff(m)
  BY <1>1, <1>2, <1>11, SquashAssumption DEF Outside, Union, Within, m
<1>12. ASSUME m \in AtomicMig, r.dir = "forwards"
       PROVE  /\ MadeOnce(m) \cap Schema = {} /\ Schema' = Schema \cup Eff(m)
              /\ Deferring(m) =>
                   /\ Owed' = [Owed EXCEPT ![p] = [way |-> "forwards", keys |-> Records[m]]]
                   /\ Table' = Table /\ r.recs = Records[m]
              /\ ~Deferring(m) =>
                   /\ Table' = [j \in AtomicKeys |-> IF j \in ToSet(Records[m])
                                                    THEN Table[j] + 1 ELSE Table[j]]
                   /\ Owed' = Owed /\ r.recs = <<>>
  <2>1. Ahead(r, effects) /\ r.del = {}
    BY <1>2, <1>12 DEF Ahead
  <2>2. r.add = Eff(m)
    BY <1>1, <1>11, <1>12, <2>1, ToSetEmpty DEF Ahead, m
  <2>3. MadeOnce(m) \cap Schema = {}
    BY <1>1, <1>11, <1>12, <2>1, ToSetEmpty, OnceEmpty DEF Ahead, m, Schema
  <2>4. Schema' = Schema \cup Eff(m)
    BY <1>1, <1>11, <1>12, <2>1, <2>2 DEF Schema, Union
  <2>5. r.ins \o r.recs = Records[m] /\ r.recs \in Seq(Mig)
    BY <1>2, <2>1 DEF Ahead, m, Run
  <2>6. ASSUME Deferring(m)
        PROVE  /\ Owed' = [Owed EXCEPT ![p] = [way |-> "forwards", keys |-> Records[m]]]
               /\ Table' = Table /\ r.recs = Records[m]
    <3>1. r.ins = <<>>
      BY <2>1, <2>6 DEF Ahead, m
    <3>2. r.recs = Records[m]
      BY <2>5, <3>1
    <3> QED BY <1>4, <1>7, <1>10, <1>11, <1>12, <3>1, <3>2
  <2>7. ASSUME ~Deferring(m)
        PROVE  /\ Table' = [j \in AtomicKeys |-> IF j \in ToSet(Records[m])
                                                 THEN Table[j] + 1 ELSE Table[j]]
               /\ Owed' = Owed /\ r.recs = <<>>
    <3>1. r.recs = <<>>
      BY <1>1, <2>1, <2>7 DEF Ahead, m
    <3>2. r.ins = Records[m]
      BY <1>5, <2>5, <3>1
    <3>3. IsInjective(r.ins)
      BY <1>2, <3>2, RefinementAssumption
    <3>4. \A k \in AtomicKeys : rows'[k] = IF k \in ToSet(Records[m]) THEN rows[k] + 1 ELSE rows[k]
      BY <1>1, <1>5, <3>2, <3>3, InsertFacts
    <3> QED BY <1>4, <1>6, <1>7, <1>8, <3>1, <3>4
  <2> QED BY <2>3, <2>4, <2>6, <2>7
<1>13. ASSUME m \in AtomicMig, r.dir = "backwards"
       PROVE  /\ Schema' = Schema \ Eff(m) /\ Table' = Table /\ r.recs = Records[m]
              /\ Owed' = [Owed EXCEPT ![p] = [way |-> "backwards", keys |-> Records[m]]]
  <2>1. Back(r)
    BY <1>2, <1>13
  <2>2. r.del = Eff(m) /\ r.add = {} /\ r.recs = Records[m] /\ r.ins = <<>>
    BY <1>11, <1>13, <2>1, ToSetEmpty DEF Back, m
  <2>3. Schema' = Schema \ Eff(m)
    BY <1>1, <2>2 DEF Schema, Union
  <2>4. Owed' = [Owed EXCEPT ![p] = [way |-> "backwards", keys |-> Records[m]]]
    BY <1>4, <1>7, <1>11, <1>13, <2>2
  <2>5. Table' = Table
    BY <1>10, <1>13, <2>2
  <2> QED BY <2>2, <2>3, <2>4, <2>5
<1> QED BY <1>1, <1>2, <1>4, <1>6, <1>9, <1>12, <1>13 DEF r, m

LEMMA FinishStep ==
    ASSUME RInv, NEW p \in Proc, Finish(p)
    PROVE  History!Next \/ UNCHANGED History!hvars
BY FinishFacts, ApplyStep, UndoStep, Unseen

LEMMA RecordStep ==
    ASSUME RInv, NEW p \in Proc, Record(p)
    PROVE  History!Next \/ UNCHANGED History!hvars
<1> DEFINE r == run[p]
           h == Head(r.recs)
           c == Tail(r.recs)
           C == [r EXCEPT !.recs = c]
           R == IF Len(r.recs) = 1 THEN Idle ELSE C
<1>1. /\ r.pc = "record" /\ r.recs # <<>> /\ effects' = effects
      /\ run' = [run EXCEPT ![p] = R]
      /\ rows' = IF r.dir = "forwards" THEN [rows EXCEPT ![h] = rows[h] + 1]
                                       ELSE [rows EXCEPT ![h] = 0]
  BY DEF Record, Recorded
<1>2. r \in Run /\ r.mig \in Mig /\ Within(r)
  BY <1>1, FitFacts
<1>3. C.pc = "record" /\ C.mig = r.mig /\ C.dir = r.dir /\ C.recs = c
  BY <1>1, <1>2 DEF Run
<1>4. Owed' = [Owed EXCEPT ![p] = Owe(R)] /\ Owed[p] = Owe(r) /\ (Owe(R) = Owe(r) => Owed' = Owed)
  BY <1>1, OwedAfter DEF RInv, TInv
<1>5. rows \in [Mig -> Nat] /\ AtomicKeys \subseteq Mig /\ h \in ToSet(r.recs)
  <2>1. r.recs \in Seq(Mig)
    BY <1>2 DEF Run
  <2> QED BY <1>1, <2>1, ToSetTail DEF RInv, TInv, TypeOK, AtomicKeys
<1>6. Schema' = Schema
  BY <1>1 DEF Schema, Union
<1> HIDE DEF r, h, c, C
<1>7. CASE r.mig \in AtomicMig
  <2>1. Owe(r) = [way |-> r.dir, keys |-> r.recs]
    BY <1>1, <1>7 DEF Owe
  <2>2. Owe(R) = IF Len(r.recs) = 1 THEN Free ELSE [way |-> r.dir, keys |-> c]
    BY <1>3, <1>7 DEF Owe, Idle
  <2>3. Table' = IF r.dir = "forwards" THEN [Table EXCEPT ![h] = @ + 1]
                                       ELSE [Table EXCEPT ![h] = 0]
    BY <1>1, <1>5 DEF Table
  <2> DEFINE o == [way |-> r.dir, keys |-> r.recs]
  <2>4. o.keys = r.recs /\ o.way = r.dir
    OBVIOUS
  <2>5. Owed[p] = o
    BY <1>4, <2>1
  <2> HIDE DEF o
  <2>6. Owed' = [Owed EXCEPT ![p] = IF Len(o.keys) = 1 THEN Free
                                    ELSE [way |-> o.way, keys |-> Tail(o.keys)]]
    BY <1>4, <2>2, <2>4 DEF c
  <2>7. Table' = IF o.way = "forwards" THEN [Table EXCEPT ![Head(o.keys)] = @ + 1]
                                       ELSE [Table EXCEPT ![Head(o.keys)] = 0]
    BY <2>3, <2>4 DEF h
  <2>8. o.keys # <<>>
    BY <1>1, <2>4
  <2> QED BY <1>6, <2>5, <2>6, <2>7, <2>8, WriteStep
<1>8. CASE r.mig \notin AtomicMig
  <2>1. Owe(R) = Free /\ Owe(r) = Free
    BY <1>3, <1>8 DEF Owe, Idle
  <2>2. h \notin AtomicKeys
    BY <1>2, <1>5, <1>8, NotAtomic DEF Within
  <2>3. Table' = Table
    BY <1>1, <1>5, <2>2 DEF Table
  <2> QED BY <1>4, <1>6, <2>1, <2>3, Unseen
<1> QED BY <1>7, <1>8

LEMMA ErrorStep ==
    ASSUME RInv, NEW p \in Proc, Refused(p) \/ Fault(p)
    PROVE  History!Next \/ UNCHANGED History!hvars
<1>1. run' = [run EXCEPT ![p] = Idle] /\ effects' = effects /\ rows' = rows
  BY DEF Refused, Fault, Abandon
<1>2. Schema' = Schema /\ Table' = Table
  BY <1>1 DEF Schema, Table, Union
<1>3. Owe(Idle) = Free
  BY DEF Owe, Idle
<1>4. /\ Owed' = [Owed EXCEPT ![p] = Free] /\ Owed[p] = Owe(run[p])
      /\ Owe(run[p]) = Free => Owed' = Owed
  BY <1>1, <1>3, OwedAfter DEF RInv, TInv
<1> QED BY <1>2, <1>4, LoseStep, Unseen

LEMMA Simulation ==
    ASSUME CanRollbackDDL
    PROVE  RInv /\ [Next]_vars => [History!Next]_(History!hvars)
<1> SUFFICES ASSUME RInv, [Next]_vars PROVE History!Next \/ UNCHANGED History!hvars
  OBVIOUS
<1>1. TInv'
  BY TInvNext DEF RInv
<1>2. CASE UNCHANGED vars
  <2>1. Schema' = Schema /\ Table' = Table /\ Owed' = Owed
    BY <1>2 DEF vars, Schema, Table, Union, Owed, OwedBy
  <2> QED BY <2>1, Unseen
<1>3. CASE Done
  <2>1. Schema' = Schema /\ Table' = Table /\ Owed' = Owed
    BY <1>3 DEF Done, vars, Schema, Table, Union, Owed, OwedBy
  <2> QED BY <2>1, Unseen
<1>4. ASSUME NEW p \in Proc, Plan(p) \/ Step(p) \/ Fault(p)
      PROVE  History!Next \/ UNCHANGED History!hvars
  BY <1>1, <1>4, QuietStep, FakeStep, RInvExecute, RInvRecordInside, RInvRunDeferred,
     FinishStep, RecordStep, ErrorStep, Unseen DEF Step, Quiet
<1> QED BY <1>2, <1>3, <1>4 DEF Next

LEMMA HistoryInit == Init => History!Init
<1> SUFFICES ASSUME Init PROVE History!Init
  OBVIOUS
<1>1. \A p \in Proc : OwedBy(p) = Free
  BY DEF Init, OwedBy, Idle, Free
<1>2. \A k \in AtomicKeys : rows[k] = 0
  BY DEF Init, AtomicKeys
<1> QED BY <1>1, <1>2 DEF Init, History!Init, History!Nothing, Free

(* Migration.Apply, Unapply and the executor implement MigrationHistory on *)
(* a backend that rolls DDL back: for any programs, squashes, directions,  *)
(* fakes and number of commands, and whatever fails, another session sees  *)
(* an atomic migration appear or go in one step, together with its rows if *)
(* it defers nothing, and every row written or removed is one that some    *)
(* command owes for such a step or for --fake.                             *)
THEOREM Refinement ==
    ASSUME CanRollbackDDL
    PROVE  Spec => HistorySteps
<1>1. Spec => []RInv
  BY RInvInit, RInvNext, PTL DEF Spec
<1>2. Init => History!Init
  BY HistoryInit
<1>3. RInv /\ [Next]_vars => [History!Next]_(History!hvars)
  BY Simulation
<1> QED BY <1>1, <1>2, <1>3, PTL DEF Spec, HistorySteps

-----------------------------------------------------------------------------
(* Agreement.  Several commands at once only forwards, or one both ways:   *)
(* a command that unapplies removes the row another has just written.      *)
NoRace == Dirs \subseteq {"forwards"} \/ \A p, q \in Proc : p = q

InDirs == \A p \in Proc : run[p].pc # "idle" => run[p].dir \in Dirs

(* A run that has still to write rows has done its part to the schema, and *)
(* the keys it is through with are written.                                *)
Settled(r, S, T, F) ==
    r.pc = "record" /\ r.mig \in AtomicMig /\ r.mig \notin F =>
      \/ /\ r.dir = "forwards" /\ Eff(r.mig) \subseteq S
         /\ \A k \in ToSet(Records[r.mig]) \cap AtomicKeys : k \in ToSet(r.recs) \/ T[k] > 0
      \/ /\ r.dir = "backwards" /\ Eff(r.mig) \cap S = {}
         /\ \A k \in ToSet(Records[r.mig]) \cap AtomicKeys : k \in ToSet(r.recs) \/ T[k] = 0

Excused(k) == \E j \in Writers(k) : j \in faked \/ Behind(j)

Agree(k) == Plain(k) /\ Eff(k) # {} =>
              ((Eff(k) \subseteq Schema) <=> (Table[k] > 0)) \/ Excused(k)

AInv == /\ RInv /\ InDirs
        /\ \A p \in Proc : Settled(run[p], Schema, Table, faked)
        /\ \A k \in Mig : Agree(k)

(* What Plain says of a migration.                                         *)
LEMMA PlainFacts ==
    ASSUME NEW k \in Mig, Plain(k)
    PROVE  /\ k \in AtomicMig /\ k \in AtomicKeys /\ Writers(k) \subseteq AtomicMig
           /\ Eff(k) \subseteq Union
           /\ \A j \in Mig : j \notin Writers(k) => Eff(j) \cap Eff(k) = {}
           /\ \A j \in Writers(k) : j \in Mig /\ k \in ToSet(Records[j]) /\ Eff(k) \subseteq Eff(j)
<1>1. Records[k] = <<k>> /\ Writers(k) \subseteq AtomicMig
  BY DEF Plain
<1>2. ToSet(<<k>>) = {k}
  BY DEF ToSet
<1>3. k \in Writers(k)
  BY <1>1, <1>2 DEF Writers
<1>4. k \in AtomicMig /\ k \in AtomicKeys /\ Eff(k) \subseteq Union
  BY <1>1, <1>3 DEF AtomicKeys, Union
<1>5. \A j \in Mig : j \notin Writers(k) => Eff(j) \cap Eff(k) = {}
  BY <1>1, OwnershipAssumption DEF Writers
<1>6. \A j \in Writers(k) : j \in Mig /\ k \in ToSet(Records[j]) /\ Eff(k) \subseteq Eff(j)
  BY RecordsCovered DEF Writers
<1> QED BY <1>1, <1>4, <1>5, <1>6

(* An excuse lasts: a run that leaves its rows unwritten is remembered.    *)
LEMMA ExcuseKept ==
    ASSUME NEW p \in Proc, NEW k \in Mig, Excused(k), torn \subseteq torn', faked \subseteq faked',
           \A q \in Proc \ {p} : run'[q] = run[q],
           run[p].pc = "record" /\ run[p].mig \in Writers(k)
             /\ (run[p].dir = "backwards" \/ Deferring(run[p].mig)) => Excused(k)'
    PROVE  Excused(k)'
<1>1. PICK j \in Writers(k) : j \in faked \/ Behind(j)
  BY DEF Excused
<1>2. Writers(k)' = Writers(k) /\ Deferring(j)' = Deferring(j)
  BY DEF Writers, Deferring
<1>3. CASE \E q \in Proc : /\ run[q].mig = j /\ run[q].pc = "record"
                           /\ run[q].dir = "backwards" \/ Deferring(j)
  <2>1. PICK q \in Proc : /\ run[q].mig = j /\ run[q].pc = "record"
                          /\ run[q].dir = "backwards" \/ Deferring(j)
    BY <1>3
  <2>2. CASE q = p
    BY <1>1, <2>1, <2>2
  <2>3. CASE q # p
    <3>1. run'[q] = run[q]
      BY <2>3
    <3> QED BY <1>1, <1>2, <2>1, <3>1 DEF Excused, Behind
  <2> QED BY <2>2, <2>3
<1>4. CASE j \in faked
  BY <1>1, <1>2, <1>4 DEF Excused
<1>5. CASE <<j, "backwards">> \in torn \/ (<<j, "forwards">> \in torn /\ Deferring(j))
  BY <1>1, <1>2, <1>5 DEF Excused, Behind
<1> QED BY <1>1, <1>3, <1>4, <1>5 DEF Behind

LEMMA SettledKept ==
    ASSUME NEW r, NEW S, NEW T, NEW F, NEW G, Settled(r, S, T, F), F \subseteq G
    PROVE  Settled(r, S, T, G)
BY DEF Settled

(* A step that changes neither schema nor table.                           *)
LEMMA AInvQuiet ==
    ASSUME AInv, RInv', InDirs', NEW p \in Proc, Quiet(p), torn' = torn, faked' = faked
    PROVE  AInv'
<1>1. \A q \in Proc : Settled(run'[q], Schema', Table', faked')
  <2> SUFFICES ASSUME NEW q \in Proc PROVE Settled(run'[q], Schema, Table, faked)
    BY DEF Quiet
  <2>1. CASE q = p
    BY <2>1 DEF Quiet, Settled
  <2>2. CASE q # p
    BY <2>2 DEF Quiet, AInv
  <2> QED BY <2>1, <2>2
<1>2. ASSUME NEW k \in Mig
      PROVE  Agree(k)'
  <2>1. Excused(k) => Excused(k)'
    BY ExcuseKept DEF Quiet
  <2>2. Agree(k)
    BY DEF AInv
  <2> QED BY <2>1, <2>2 DEF Quiet, Agree, Plain, Eff, AllOf, Writers
<1> QED BY <1>1, <1>2 DEF AInv

LEMMA OthersSettled ==
    ASSUME NoRace, AInv, NEW p \in Proc, NEW q \in Proc \ {p}, run[p].pc # "idle",
           faked \subseteq faked',
           run[p].dir = "forwards" =>
             Schema \subseteq Schema' /\ \A k \in AtomicKeys : Table[k] > 0 => Table'[k] > 0
    PROVE  Settled(run[q], Schema', Table', faked')
<1>1. Dirs \subseteq {"forwards"}
  BY DEF NoRace
<1>2. run[p].dir = "forwards"
  BY <1>1 DEF AInv, InDirs
<1>3. run[q].pc = "record" => run[q].dir = "forwards"
  BY <1>1 DEF AInv, InDirs
<1>4. Settled(run[q], Schema, Table, faked)
  BY DEF AInv
<1> QED BY <1>2, <1>3, <1>4 DEF Settled

LEMMA OneAgree ==
    ASSUME AInv, RInv', InDirs', NEW p \in Proc, \A q \in Proc \ {p} : run'[q] = run[q],
           \A q \in Proc \ {p} : Settled(run[q], Schema', Table', faked'),
           Settled(run'[p], Schema', Table', faked'),
           \A k \in Mig : Agree(k)'
    PROVE  AInv'
<1>1. \A q \in Proc : Settled(run'[q], Schema', Table', faked')
  <2> SUFFICES ASSUME NEW q \in Proc PROVE Settled(run'[q], Schema', Table', faked')
    OBVIOUS
  <2>1. CASE q = p
    BY <2>1
  <2>2. CASE q # p
    BY <2>2
  <2> QED BY <2>1, <2>2
<1> QED BY <1>1 DEF AInv

LEMMA AInvFake ==
    ASSUME AInv, RInv', InDirs', NEW p \in Proc, Fake(p)
    PROVE  AInv'
<1>1. /\ run[p].pc = "begin" /\ effects' = effects /\ rows' = rows /\ torn' = torn
      /\ faked' = faked \cup {run[p].mig}
  BY DEF Fake
<1>2. run[p] \in Run
  BY <1>1, FitFacts DEF AInv
<1>3. run'[p].mig = run[p].mig /\ \A q \in Proc \ {p} : run'[q] = run[q]
  BY <1>2 DEF Fake, AInv, RInv, TInv, TypeOK, Run
<1>4. Schema' = Schema /\ Table' = Table
  BY <1>1 DEF Schema, Table, Union
<1>5. Settled(run'[p], Schema', Table', faked')
  BY <1>1, <1>3 DEF Settled
<1>6. \A q \in Proc \ {p} : Settled(run[q], Schema', Table', faked')
  BY <1>1, <1>4, SettledKept DEF AInv
<1>7. ASSUME NEW k \in Mig
      PROVE  Agree(k)'
  <2>1. Excused(k) => Excused(k)'
    BY <1>1, <1>3, ExcuseKept
  <2>2. Agree(k)
    BY DEF AInv
  <2> QED BY <1>4, <2>1, <2>2 DEF Agree, Plain, Eff, AllOf, Writers
<1> QED BY <1>3, <1>5, <1>6, <1>7, OneAgree

(* A run that was left before its rows were written is an excuse.          *)
LEMMA TornExcuses ==
    ASSUME NEW k \in Mig, NEW j \in Writers(k),
           \/ <<j, "backwards">> \in torn'
           \/ <<j, "forwards">> \in torn' /\ Deferring(j)
    PROVE  Excused(k)'
BY DEF Excused, Behind, Writers, Deferring

LEMMA AInvFinish ==
    ASSUME NoRace, AInv, RInv', InDirs', NEW p \in Proc, Finish(p)
    PROVE  AInv'
<1> DEFINE r == run[p]
           m == r.mig
           R == AfterFinish(r)
           D == [Committed(r) EXCEPT !.pc = "record"]
<1>0. RInv
  BY DEF AInv
<1>1. /\ r.pc = "finish" /\ run' = [run EXCEPT ![p] = R] /\ torn' = torn /\ faked' = faked
      /\ R = IF r.recs = <<>> THEN Idle ELSE D
  BY DEF Finish, AfterFinish
<1>2. /\ m \in Mig /\ r.dir \in {"forwards", "backwards"}
      /\ m \notin AtomicMig => Schema' = Schema /\ Table' = Table
      /\ m \in AtomicMig /\ r.dir = "forwards" =>
           /\ Schema' = Schema \cup Eff(m)
           /\ Deferring(m) => Table' = Table /\ r.recs = Records[m]
           /\ ~Deferring(m) =>
                /\ Table' = [j \in AtomicKeys |-> IF j \in ToSet(Records[m])
                                                 THEN Table[j] + 1 ELSE Table[j]]
                /\ r.recs = <<>>
      /\ m \in AtomicMig /\ r.dir = "backwards" =>
           Schema' = Schema \ Eff(m) /\ Table' = Table /\ r.recs = Records[m]
  BY <1>0, FinishFacts
<1>3. r \in Run
  BY <1>0, <1>1, FitFacts
<1>4. D.pc = "record" /\ D.mig = m /\ D.dir = r.dir /\ D.recs = r.recs
  BY <1>3 DEF Run, Committed
<1>5. run'[p] = R /\ \A q \in Proc \ {p} : run'[q] = run[q]
  BY <1>0, <1>1 DEF RInv, TInv, TypeOK
<1> HIDE DEF r, m, R, D
<1>6. Records[m] # <<>>
  BY <1>2, SquashAssumption
<1>7. \A k \in AtomicKeys : Table[k] \in Nat
  BY <1>0 DEF Table, RInv, TInv, TypeOK, AtomicKeys
<1>8. Settled(R, Schema', Table', faked')
  <2>1. CASE R = Idle
    BY <2>1 DEF Settled, Idle
  <2>2. CASE R = D /\ r.recs # <<>>
    BY <1>2, <1>4, <2>2 DEF Settled
  <2> QED BY <1>1, <2>1, <2>2
<1>9. \A q \in Proc \ {p} : Settled(run[q], Schema', Table', faked')
  <2>1. ASSUME r.dir = "forwards"
        PROVE  Schema \subseteq Schema' /\ \A k \in AtomicKeys : Table[k] > 0 => Table'[k] > 0
    BY <1>2, <1>7, <2>1
  <2> QED BY <1>1, <2>1, OthersSettled DEF r
<1>10. ASSUME NEW k \in Mig
       PROVE  Agree(k)'
  <2> SUFFICES ASSUME Plain(k), Eff(k) # {}
               PROVE  ((Eff(k) \subseteq Schema') <=> (Table'[k] > 0)) \/ Excused(k)'
    BY DEF Agree, Plain, Eff, AllOf, Writers
  <2>1. Agree(k) /\ (Excused(k) => Excused(k)')
    BY <1>1, <1>5, ExcuseKept DEF AInv, r
  <2>2. /\ k \in AtomicKeys /\ Writers(k) \subseteq AtomicMig
        /\ m \notin Writers(k) => Eff(m) \cap Eff(k) = {} /\ k \notin ToSet(Records[m])
        /\ m \in Writers(k) => k \in ToSet(Records[m]) /\ Eff(k) \subseteq Eff(m)
    BY <1>2, PlainFacts DEF Writers
  <2>3. CASE m \notin Writers(k)
    <3>1. (Eff(k) \subseteq Schema') <=> (Eff(k) \subseteq Schema)
      BY <1>2, <2>2, <2>3
    <3>2. Table'[k] = Table[k]
      BY <1>2, <2>2, <2>3
    <3> QED BY <2>1, <3>1, <3>2 DEF Agree
  <2>4. CASE m \in Writers(k) /\ r.dir = "forwards" /\ ~Deferring(m)
    <3>1. Eff(k) \subseteq Schema' /\ Table'[k] = Table[k] + 1
      BY <1>2, <2>2, <2>4
    <3> QED BY <1>7, <2>2, <3>1
  <2>5. CASE m \in Writers(k) /\ (r.dir = "backwards" \/ Deferring(m))
    <3>1. R = D
      BY <1>1, <1>2, <1>6, <2>2, <2>5
    <3>2. run'[p].pc = "record" /\ run'[p].mig \in Writers(k)
          /\ (run'[p].dir = "backwards" \/ Deferring(run'[p].mig))
      BY <1>4, <1>5, <2>5, <3>1
    <3>3. Excused(k)'
      BY <3>2 DEF Excused, Behind, Writers, Deferring
    <3> QED BY <3>3
  <2> QED BY <1>2, <2>3, <2>4, <2>5
<1> QED BY <1>5, <1>8, <1>9, <1>10, OneAgree

LEMMA AInvRecord ==
    ASSUME NoRace, AInv, RInv', InDirs', NEW p \in Proc, Record(p)
    PROVE  AInv'
<1> DEFINE r == run[p]
           m == r.mig
           h == Head(r.recs)
           c == Tail(r.recs)
           C == [r EXCEPT !.recs = c]
           R == IF Len(r.recs) = 1 THEN Idle ELSE C
<1>0. RInv
  BY DEF AInv
<1>1. /\ r.pc = "record" /\ r.recs # <<>> /\ effects' = effects
      /\ run' = [run EXCEPT ![p] = R] /\ torn' = torn /\ faked' = faked
      /\ rows' = IF r.dir = "forwards" THEN [rows EXCEPT ![h] = rows[h] + 1]
                                       ELSE [rows EXCEPT ![h] = 0]
  BY DEF Record, Recorded
<1>2. /\ r \in Run /\ m \in Mig /\ r.dir \in {"forwards", "backwards"} /\ Within(r)
      /\ Settled(r, Schema, Table, faked)
  BY <1>0, <1>1, FitFacts DEF AInv
<1>3. C.pc = "record" /\ C.mig = m /\ C.dir = r.dir /\ C.recs = c
  BY <1>1, <1>2 DEF Run
<1>4. rows \in [Mig -> Nat] /\ AtomicKeys \subseteq Mig
  BY <1>0 DEF RInv, TInv, TypeOK, AtomicKeys
<1>5. h \in ToSet(r.recs) /\ ToSet(r.recs) = {h} \cup ToSet(c) /\ (Len(r.recs) = 1 => ToSet(c) = {})
  <2>1. r.recs \in Seq(Mig)
    BY <1>2 DEF Run
  <2>2. h \in ToSet(r.recs) /\ ToSet(r.recs) = {h} \cup ToSet(c)
    BY <1>1, <2>1, ToSetTail
  <2>3. ASSUME Len(r.recs) = 1 PROVE c = <<>>
    <3>1. c \in Seq(Mig) /\ Len(c) = 0
      BY <1>1, <2>1, <2>3, HeadTailProperties
    <3> QED BY <3>1, EmptySeq
  <2> QED BY <2>2, <2>3, ToSetEmpty
<1>6. Schema' = Schema
  BY <1>1 DEF Schema, Union
<1>7. run'[p] = R /\ \A q \in Proc \ {p} : run'[q] = run[q]
  BY <1>0, <1>1 DEF RInv, TInv, TypeOK
<1> HIDE DEF r, m, h, c, C, R
<1>8. /\ h \in ToSet(Records[m]) /\ h \in Mig
      /\ \A k \in AtomicKeys : /\ k # h => Table'[k] = Table[k]
                               /\ k = h /\ r.dir = "forwards" => Table'[k] = Table[k] + 1
                               /\ k = h /\ r.dir = "backwards" => Table'[k] = 0
      /\ \A k \in AtomicKeys : Table[k] \in Nat
  <2>1. h \in ToSet(Records[m])
    BY <1>2, <1>5 DEF Within, m
  <2>2. h \in Mig
    BY <1>2, <2>1, RecordsCovered
  <2> QED BY <1>1, <1>4, <2>1, <2>2 DEF Table
<1>9. R = Idle \/ (R = C /\ Len(r.recs) # 1)
  BY DEF R
<1>10. Settled(R, Schema', Table', faked')
  <2>1. CASE R = Idle
    BY <2>1 DEF Settled, Idle
  <2>2. CASE R = C
    BY <1>1, <1>2, <1>3, <1>5, <1>6, <1>8, <2>2 DEF Settled, m
  <2> QED BY <1>9, <2>1, <2>2
<1>11. \A q \in Proc \ {p} : Settled(run[q], Schema', Table', faked')
  <2>1. ASSUME r.dir = "forwards"
        PROVE  Schema \subseteq Schema' /\ \A k \in AtomicKeys : Table[k] > 0 => Table'[k] > 0
    BY <1>6, <1>8, <2>1
  <2> QED BY <1>1, <2>1, OthersSettled DEF r
<1>12. ASSUME NEW k \in Mig
       PROVE  Agree(k)'
  <2> SUFFICES ASSUME Plain(k), Eff(k) # {}
               PROVE  ((Eff(k) \subseteq Schema') <=> (Table'[k] > 0)) \/ Excused(k)'
    BY DEF Agree, Plain, Eff, AllOf, Writers
  <2>1. Agree(k)
    BY DEF AInv
  <2>2. /\ k \in AtomicKeys /\ Writers(k) \subseteq AtomicMig
        /\ m \notin Writers(k) => k # h
        /\ m \in Writers(k) => k \in ToSet(Records[m]) /\ Eff(k) \subseteq Eff(m)
    BY <1>2, <1>8, PlainFacts DEF Writers
  <2>3. CASE m \notin Writers(k)
    <3>1. Excused(k) => Excused(k)'
      BY <1>1, <1>7, <2>3, ExcuseKept DEF r, m
    <3> QED BY <1>6, <1>8, <2>1, <2>2, <2>3, <3>1 DEF Agree
  <2>4. CASE m \in Writers(k) /\ m \in faked
    BY <1>1, <2>4 DEF Excused, Writers
  <2>5. CASE m \in Writers(k) /\ m \notin faked /\ R = C /\ (r.dir = "backwards" \/ Deferring(m))
    <3>1. run'[p].pc = "record" /\ run'[p].mig \in Writers(k)
          /\ (run'[p].dir = "backwards" \/ Deferring(run'[p].mig))
      BY <1>3, <1>7, <2>5
    <3>2. Excused(k)'
      BY <3>1 DEF Excused, Behind, Writers, Deferring
    <3> QED BY <3>2
  <2>6. CASE m \in Writers(k) /\ m \notin faked /\ r.dir = "forwards" /\ ~Deferring(m)
    <3>1. Excused(k) => Excused(k)'
      BY <1>1, <1>7, <2>6, ExcuseKept DEF r, m
    <3>2. Eff(k) \subseteq Schema
      BY <1>1, <1>2, <2>2, <2>6 DEF Settled, m
    <3> QED BY <1>6, <1>8, <2>1, <2>2, <2>6, <3>1, <3>2 DEF Agree
  <2>7. CASE m \in Writers(k) /\ m \notin faked /\ R = Idle /\ Len(r.recs) = 1
    <3>1. m \in AtomicMig /\ k \in ToSet(Records[m]) \cap AtomicKeys
      BY <2>2, <2>7
    <3>2. k # h => k \notin ToSet(r.recs)
      BY <1>5, <2>7
    <3>3. CASE r.dir = "forwards"
      <4>1. Eff(k) \subseteq Schema /\ (k # h => Table[k] > 0)
        BY <1>1, <1>2, <2>2, <2>7, <3>1, <3>2, <3>3 DEF Settled, m
      <4> QED BY <1>6, <1>8, <2>2, <3>3, <4>1
    <3>4. CASE r.dir = "backwards"
      <4>1. Eff(k) \cap Schema = {} /\ (k # h => Table[k] = 0)
        BY <1>1, <1>2, <2>2, <2>7, <3>1, <3>2, <3>4 DEF Settled, m
      <4>2. ~(Eff(k) \subseteq Schema') /\ Table'[k] = 0
        BY <1>6, <1>8, <2>2, <3>4, <4>1
      <4> QED BY <4>2
    <3> QED BY <1>2, <3>3, <3>4
  <2>8. R = C \/ (R = Idle /\ Len(r.recs) = 1)
    BY DEF R
  <2> QED BY <1>2, <2>3, <2>4, <2>5, <2>6, <2>7, <2>8
<1> QED BY <1>7, <1>10, <1>11, <1>12, OneAgree

LEMMA AInvError ==
    ASSUME NoRace, AInv, RInv', InDirs', NEW p \in Proc, Refused(p) \/ Fault(p)
    PROVE  AInv'
<1> DEFINE r == run[p]
<1>0. RInv
  BY DEF AInv
<1>1. /\ r.pc # "idle" /\ run' = [run EXCEPT ![p] = Idle]
      /\ effects' = effects /\ rows' = rows /\ faked' = faked
      /\ torn' = IF HalfDone(r) THEN torn \cup {<<r.mig, r.dir>>} ELSE torn
  BY DEF Refused, Fault, Abandon
<1>2. Schema' = Schema /\ Table' = Table
  BY <1>1 DEF Schema, Table, Union
<1>3. run'[p] = Idle /\ \A q \in Proc \ {p} : run'[q] = run[q]
  BY <1>0, <1>1 DEF RInv, TInv, TypeOK
<1>4. r.dir \in {"forwards", "backwards"}
  BY <1>0, <1>1, FitFacts
<1>5. Settled(run'[p], Schema', Table', faked')
  BY <1>3 DEF Settled, Idle
<1>6. \A q \in Proc \ {p} : Settled(run[q], Schema', Table', faked')
  BY <1>1, <1>2 DEF AInv
<1>7. ASSUME NEW k \in Mig
      PROVE  Agree(k)'
  <2>1. ASSUME r.pc = "record", r.mig \in Writers(k), r.dir = "backwards" \/ Deferring(r.mig)
        PROVE  Excused(k)'
    <3>1. CASE r.mig \in faked
      BY <1>1, <2>1, <3>1 DEF Excused, Writers
    <3>2. CASE r.mig \notin faked
      <4>1. <<r.mig, r.dir>> \in torn'
        BY <1>1, <2>1, <3>2 DEF HalfDone
      <4> QED BY <1>4, <2>1, <4>1, TornExcuses
    <3> QED BY <3>1, <3>2
  <2>2. Excused(k) => Excused(k)'
    BY <1>1, <1>3, <2>1, ExcuseKept
  <2>3. Agree(k)
    BY DEF AInv
  <2> QED BY <1>2, <2>2, <2>3 DEF Agree, Plain, Eff, AllOf, Writers
<1> QED BY <1>3, <1>5, <1>6, <1>7, OneAgree

LEMMA InDirsNext == TInv /\ InDirs /\ [Next]_vars => InDirs'
<1> SUFFICES ASSUME TInv, InDirs, [Next]_vars PROVE InDirs'
  OBVIOUS
<1>1. CASE UNCHANGED vars \/ Done
  BY <1>1 DEF Done, vars, InDirs
<1>2. ASSUME NEW p \in Proc, Plan(p) \/ Step(p) \/ Fault(p)
      PROVE  InDirs'
  <2>1. ASSUME NEW R, run' = [run EXCEPT ![p] = R], R.pc # "idle" => R.dir \in Dirs
        PROVE  InDirs'
    BY <2>1 DEF InDirs, TInv, TypeOK
  <2>2. ASSUME NEW R \in Run, Changed(p, R), R.dir = run[p].dir, run[p].pc # "idle"
        PROVE  InDirs'
    <3>1. Committed(R).dir = R.dir
      BY DEF Committed, Run
    <3>2. PICK Q : run' = [run EXCEPT ![p] = Q] /\ Q.dir = run[p].dir
      BY <2>2, <3>1 DEF Changed
    <3> QED BY <2>1, <2>2, <3>2 DEF InDirs
  <2>3. run[p] \in Run /\ Idle.pc = "idle"
    BY DEF TInv, TypeOK, Idle
  <2>4. CASE Plan(p)
    <3>1. PICK k \in Mig, dir \in Dirs :
            run' = [run EXCEPT ![p] = [Idle EXCEPT !.pc = "begin", !.mig = k, !.dir = dir,
                           !.todo = Statements(k, dir), !.recs = RowsToWrite(k)]]
      BY <2>4 DEF Plan
    <3> DEFINE R == [Idle EXCEPT !.pc = "begin", !.mig = k, !.dir = dir,
                           !.todo = Statements(k, dir), !.recs = RowsToWrite(k)]
    <3>2. R.dir = dir /\ run' = [run EXCEPT ![p] = R]
      BY <3>1 DEF Idle
    <3> HIDE DEF R
    <3> QED BY <2>1, <3>2
  <2>5. CASE Begin(p) \/ Fake(p) \/ EndOps(p)
    <3>1. run'[p].dir = run[p].dir /\ run[p].pc # "idle"
          /\ \A q \in Proc \ {p} : run'[q] = run[q]
      BY <2>3, <2>5 DEF Begin, Fake, EndOps, TInv, TypeOK, Run
    <3> QED BY <3>1 DEF InDirs
  <2>6. CASE Execute(p)
    <3> DEFINE w == WithTx(run[p])
               R == EndOp(ImplicitCommit(Stepped(w), Head(w.todo)), LastOfOp(w))
    <3>1. run[p].todo # <<>> /\ Changed(p, R) /\ run[p].pc # "idle"
      BY <2>6 DEF Execute
    <3>2. R \in Run /\ R.dir = run[p].dir
      BY <2>3, <3>1, ExecutedType
    <3> HIDE DEF R
    <3> QED BY <2>2, <3>1, <3>2
  <2>7. CASE RecordInside(p)
    <3> DEFINE R == [run[p] EXCEPT !.ins = Append(@, Head(run[p].recs)), !.recs = Tail(@)]
    <3>1. run[p].recs # <<>> /\ Changed(p, R) /\ run[p].pc # "idle"
      BY <2>7 DEF RecordInside
    <3>2. run[p].ins \in Seq(Mig) /\ run[p].recs \in Seq(Mig)
      BY <2>3 DEF Run
    <3>3. Append(run[p].ins, Head(run[p].recs)) \in Seq(Mig) /\ Tail(run[p].recs) \in Seq(Mig)
      BY <3>1, <3>2
    <3>4. R \in Run /\ R.dir = run[p].dir
      BY <2>3, <3>3 DEF Run
    <3> HIDE DEF R
    <3> QED BY <2>2, <3>1, <3>4
  <2>8. CASE RunDeferred(p)
    <3> DEFINE e == Head(run[p].deferred)
               R == [run[p] EXCEPT !.add = @ \cup {e}, !.deferred = Tail(@)]
    <3>1. run[p].deferred # <<>> /\ Changed(p, R) /\ run[p].pc # "idle"
      BY <2>8 DEF RunDeferred
    <3>2. run[p].deferred \in Seq(Effect) /\ run[p].add \in SUBSET Effect
      BY <2>3 DEF Run
    <3>3. run[p].add \cup {e} \in SUBSET Effect /\ Tail(run[p].deferred) \in Seq(Effect)
      BY <3>1, <3>2
    <3> HIDE DEF e
    <3>4. R \in Run /\ R.dir = run[p].dir
      BY <2>3, <3>3 DEF Run
    <3> HIDE DEF R
    <3> QED BY <2>2, <3>1, <3>4
  <2>9. CASE Finish(p)
    <3> DEFINE R == AfterFinish(run[p])
    <3>1. run' = [run EXCEPT ![p] = R] /\ run[p].pc # "idle"
      BY <2>9 DEF Finish
    <3>2. R.pc # "idle" => R.dir = run[p].dir
      BY <2>3 DEF AfterFinish, Committed, Run
    <3> HIDE DEF R
    <3> QED BY <2>1, <3>1, <3>2 DEF InDirs
  <2>10. CASE Record(p)
    <3> DEFINE R == IF Len(run[p].recs) = 1 THEN Idle
                    ELSE [run[p] EXCEPT !.recs = Tail(run[p].recs)]
    <3>1. run' = [run EXCEPT ![p] = R] /\ run[p].pc # "idle"
      BY <2>10 DEF Record
    <3>2. R.pc # "idle" => R.dir = run[p].dir
      BY <2>3 DEF Run
    <3> HIDE DEF R
    <3> QED BY <2>1, <3>1, <3>2 DEF InDirs
  <2>11. CASE Refused(p) \/ Fault(p)
    <3>1. run' = [run EXCEPT ![p] = Idle]
      BY <2>11 DEF Refused, Fault, Abandon
    <3> QED BY <2>1, <2>3, <3>1
  <2> QED BY <1>2, <2>4, <2>5, <2>6, <2>7, <2>8, <2>9, <2>10, <2>11 DEF Step
<1> QED BY <1>1, <1>2 DEF Next

LEMMA AInvInit == Init => AInv
<1> SUFFICES ASSUME Init PROVE AInv
  OBVIOUS
<1>1. RInv
  BY RInvInit
<1>2. \A p \in Proc : run[p].pc = "idle"
  BY DEF Init, Idle
<1>3. InDirs /\ \A p \in Proc : Settled(run[p], Schema, Table, faked)
  BY <1>2 DEF InDirs, Settled
<1>4. ASSUME NEW k \in Mig, Plain(k), Eff(k) # {}
      PROVE  ~(Eff(k) \subseteq Schema) /\ ~(Table[k] > 0)
  <2>1. Schema = {} /\ k \in AtomicKeys
    BY <1>4, PlainFacts DEF Init, Schema
  <2>2. Table[k] = 0
    BY <2>1 DEF Init, Table
  <2> QED BY <1>4, <2>1, <2>2
<1> QED BY <1>1, <1>3, <1>4 DEF AInv, Agree

LEMMA AInvNext ==
    ASSUME CanRollbackDDL, NoRace
    PROVE  AInv /\ [Next]_vars => AInv'
<1> SUFFICES ASSUME AInv, [Next]_vars PROVE AInv'
  OBVIOUS
<1>1. RInv /\ TInv /\ TInv' /\ RInv' /\ InDirs'
  BY RInvNext, TInvNext, InDirsNext DEF AInv, RInv
<1>2. CASE UNCHANGED vars \/ Done
  <2>1. UNCHANGED vars
    BY <1>2 DEF Done
  <2>2. Schema' = Schema /\ Table' = Table /\ run' = run /\ faked' = faked
    BY <2>1 DEF vars, Schema, Table, Union
  <2>3. ASSUME NEW k \in Mig PROVE Agree(k)'
    <3>1. Excused(k)' = Excused(k)
      BY <2>1 DEF vars, Excused, Behind, Writers, Deferring
    <3> QED BY <2>2, <3>1 DEF AInv, Agree, Plain, Eff, AllOf, Writers
  <2> QED BY <1>1, <2>2, <2>3 DEF AInv
<1>3. ASSUME NEW p \in Proc, Plan(p) \/ Step(p) \/ Fault(p)
      PROVE  AInv'
  <2>1. CASE Plan(p) \/ Begin(p) \/ EndOps(p)
    <3>1. Quiet(p) /\ torn' = torn /\ faked' = faked
      BY <1>1, <2>1, QuietStep DEF Plan, Begin, EndOps
    <3> QED BY <1>1, <3>1, AInvQuiet
  <2>2. CASE Execute(p) \/ RecordInside(p) \/ RunDeferred(p)
    <3>1. Quiet(p)
      BY <1>1, <2>2, RInvExecute, RInvRecordInside, RInvRunDeferred
    <3>2. torn' = torn /\ faked' = faked
      BY <2>2 DEF Execute, RecordInside, RunDeferred
    <3> QED BY <1>1, <3>1, <3>2, AInvQuiet
  <2> QED BY <1>1, <1>3, <2>1, <2>2, AInvFake, AInvFinish, AInvRecord, AInvError DEF Step
<1> QED BY <1>2, <1>3 DEF Next

(* Where DDL can be rolled back, schema and migrations table agree on an   *)
(* atomic migration at every moment, whatever fails, except while its rows *)
(* are still to be written after the commit, or were left so, or --fake    *)
(* was used: for any programs and squashes, for any number of commands     *)
(* that migrate forwards, and for one that goes both ways.  Two commands   *)
(* in opposite directions can do worse: RecordMigration of the one that    *)
(* unapplies removes the row that the other has just written.              *)
THEOREM SchemaAndTable ==
    ASSUME NoRace
    PROVE  Spec => []Agreement
<1>1. CASE CanRollbackDDL
  <2>1. Spec => []AInv
    BY <1>1, AInvInit, AInvNext, PTL DEF Spec
  <2>2. AInv => Agreement
    <3> SUFFICES ASSUME AInv, NEW k \in Mig, Plain(k), Eff(k) # {}, ~Excused(k)
                 PROVE  (Eff(k) \subseteq effects) = (rows[k] > 0)
      BY DEF Agreement, Excused
    <3>1. k \in AtomicKeys /\ Eff(k) \subseteq Union
      BY PlainFacts
    <3>2. (Eff(k) \subseteq Schema) <=> (Table[k] > 0)
      BY DEF AInv, Agree
    <3> QED BY <3>1, <3>2 DEF Schema, Table
  <2> QED BY <2>1, <2>2, PTL
<1>2. CASE ~CanRollbackDDL
  <2>1. Agreement
    BY <1>2 DEF Agreement
  <2> QED BY <2>1, PTL
<1> QED BY <1>1, <1>2

-----------------------------------------------------------------------------
(* RecordedIsApplied in both directions, on any backend.  The rows that    *)
(* the loader reads for a migration are those of migrations that replace   *)
(* nothing: it resolves a squash of squashes before it looks.              *)
Flat == \A k \in Mig : \A j \in Read(k) : Records[j] = <<j>>

(* Something of a run of j backwards is to be seen, or was left behind.    *)
Spare(j) == \/ j \in faked \/ <<j, "backwards">> \in torn
            \/ \E p \in Proc : run[p].mig = j /\ run[p].dir = "backwards" /\ HalfDone(run[p])

RowFits(k) == Records[k] = <<k>> /\ rows[k] > 0 =>
                Eff(k) \subseteq effects \/ \E j \in Writers(k) : Spare(j)

(* A run backwards takes away only what its migration brought, inside the  *)
(* migration's transaction if there is one, and removes the rows last.     *)
Undoes(r, T) ==
    r.pc # "idle" /\ r.dir = "backwards" =>
      /\ r.add = {} /\ r.deferred = <<>> /\ r.ins = <<>>
      /\ r.del \cup AllOf(r.todo) \subseteq Eff(r.mig)
      /\ ToSet(r.recs) \subseteq ToSet(Records[r.mig])
      /\ r.pc # "record" => r.recs = Records[r.mig]
      /\ Len(r.todo) <= Len(Statements(r.mig, r.dir))
      /\ AtomicMigration(r.mig) /\ r.pc \in {"ops", "finish"} => r.tx = "migration"
      /\ r.pc = "record" => \A k \in ToSet(Records[r.mig]) : k \in ToSet(r.recs) \/ T[k] = 0

GInv == /\ TInv /\ InDirs
        /\ \A p \in Proc : /\ run[p].dir # "backwards" => Forward(run[p], effects, faked)
                           /\ Undoes(run[p], rows)
        /\ \A k \in Mig : RowFits(k)

LEMMA ForwardFits ==
    ASSUME NoRace, GInv, TInv', InDirs', NEW p \in Proc, Advances(p), torn \subseteq torn',
           run[p].dir # "backwards" \/ run[p].pc = "idle"
    PROVE  GInv'
<1>1. ASSUME NEW q \in Proc
      PROVE  /\ run'[q].dir # "backwards" => Forward(run'[q], effects', faked')
             /\ Undoes(run'[q], rows')
  <2>1. CASE q = p
    <3>1. Forward(run'[p], effects', faked')
      BY DEF Advances
    <3>2. run'[p].dir # "backwards"
      BY <3>1 DEF Forward
    <3> QED BY <2>1, <3>1, <3>2 DEF Undoes
  <2>2. CASE q # p
    <3>1. run'[q] = run[q]
      BY <2>2 DEF Advances
    <3>2. run[q].pc # "idle" => run[q].dir # "backwards"
      BY <2>2 DEF NoRace, GInv, InDirs
    <3>3. run[q].dir # "backwards" => Forward(run[q], effects', faked')
      BY ForwardGrows DEF GInv, Advances
    <3> QED BY <3>1, <3>2, <3>3 DEF Undoes
  <2> QED BY <2>1, <2>2
<1>2. ASSUME NEW j, Spare(j)
      PROVE  Spare(j)'
  <2>1. CASE j \in faked \/ <<j, "backwards">> \in torn
    BY <2>1 DEF Spare, Advances
  <2>2. CASE \E q \in Proc : run[q].mig = j /\ run[q].dir = "backwards" /\ HalfDone(run[q])
    <3>1. PICK q \in Proc : run[q].mig = j /\ run[q].dir = "backwards" /\ HalfDone(run[q])
      BY <2>2
    <3>2. q # p
      BY <3>1 DEF HalfDone
    <3>3. run'[q] = run[q]
      BY <3>2 DEF Advances
    <3>4. CASE j \in faked'
      BY <3>4 DEF Spare
    <3>5. CASE j \notin faked'
      <4>1. HalfDone(run[q])'
        BY <3>1, <3>3, <3>5 DEF HalfDone, AtomicMigration, Statements, RowsToWrite
      <4> QED BY <3>1, <3>3, <4>1 DEF Spare
    <3> QED BY <3>4, <3>5
  <2> QED BY <1>2, <2>1, <2>2 DEF Spare
<1>3. ASSUME NEW k \in Mig
      PROVE  RowFits(k)'
  <2> SUFFICES ASSUME Records[k] = <<k>>, rows'[k] > 0, ~(Eff(k) \subseteq effects')
               PROVE  \E j \in Writers(k) : Spare(j)'
    BY DEF RowFits, Writers, Eff, AllOf
  <2>1. CASE rows[k] > 0
    <3>1. PICK j \in Writers(k) : Spare(j)
      BY <2>1 DEF GInv, RowFits, Advances
    <3> QED BY <1>2, <3>1
  <2>2. CASE ~(rows[k] > 0)
    <3>1. PICK j \in faked' : k \in ToSet(Records[j])
      BY <2>2 DEF Advances
    <3>2. j \in Writers(k)
      BY <3>1 DEF Writers, TInv, TypeOK
    <3> QED BY <3>1, <3>2 DEF Spare
  <2> QED BY <2>1, <2>2
<1> QED BY <1>1, <1>3 DEF GInv

(* A step of p backwards, m its migration: what leaves the schema is m's,  *)
(* and then the run is seen to undo it; once it is not, the rows are gone. *)
Retreats(p, m) ==
    /\ \A q \in Proc \ {p} : run'[q] = run[q]
    /\ Undoes(run'[p], rows')
    /\ run'[p].dir # "backwards" => run'[p] = Idle
    /\ torn \subseteq torn' /\ faked \subseteq faked'
    /\ \A k \in Mig : rows'[k] > 0 => rows[k] > 0
    /\ effects \subseteq effects' \/ (Spare(m)' /\ effects \ Eff(m) \subseteq effects')
    /\ HalfDone(run[p]) => /\ run[p].mig = m
                           /\ Spare(m)' \/ \A k \in ToSet(Records[m]) : rows'[k] = 0

LEMMA BackwardFits ==
    ASSUME NoRace, GInv, TInv', InDirs', NEW p \in Proc, NEW m \in Mig, Retreats(p, m),
           "backwards" \in Dirs
    PROVE  GInv'
<1>1. \A q \in Proc : q = p
  BY DEF NoRace
<1>2. ASSUME NEW q \in Proc
      PROVE  /\ run'[q].dir # "backwards" => Forward(run'[q], effects', faked')
             /\ Undoes(run'[q], rows')
  <2>1. q = p
    BY <1>1
  <2> QED BY <2>1, IdleForward DEF Retreats
<1>3. ASSUME NEW k \in Mig, NEW j \in Writers(k), Spare(j), rows'[k] > 0
      PROVE  \E i \in Writers(k) : Spare(i)'
  <2>1. CASE j \in faked \/ <<j, "backwards">> \in torn
    BY <2>1 DEF Spare, Retreats
  <2>2. CASE \E q \in Proc : run[q].mig = j /\ HalfDone(run[q])
    <3>1. run[p].mig = j /\ HalfDone(run[p])
      BY <1>1, <2>2
    <3>2. m = j /\ (Spare(m)' \/ \A i \in ToSet(Records[m]) : rows'[i] = 0)
      BY <3>1 DEF Retreats
    <3>3. k \in ToSet(Records[m])
      BY <3>2 DEF Writers
    <3> QED BY <1>3, <3>2, <3>3
  <2> QED BY <1>3, <2>1, <2>2 DEF Spare
<1>4. ASSUME NEW k \in Mig
      PROVE  RowFits(k)'
  <2> SUFFICES ASSUME Records[k] = <<k>>, rows'[k] > 0, ~(Eff(k) \subseteq effects')
               PROVE  \E j \in Writers(k) : Spare(j)'
    BY DEF RowFits, Writers, Eff, AllOf
  <2>1. rows[k] > 0
    BY DEF Retreats
  <2>2. CASE \E j \in Writers(k) : Spare(j)
    BY <1>3, <2>2
  <2>3. CASE Eff(k) \subseteq effects
    <3>1. Spare(m)' /\ effects \ Eff(m) \subseteq effects'
      BY <2>3 DEF Retreats
    <3>2. Eff(m) \cap Eff(k) # {}
      BY <2>3, <3>1
    <3>3. m \in Writers(k)
      BY <3>2, OwnershipAssumption DEF Writers
    <3> QED BY <3>1, <3>3
  <2> QED BY <2>1, <2>2, <2>3 DEF GInv, RowFits
<1> QED BY <1>2, <1>4 DEF GInv

(* What a command that runs backwards knows of its run.                    *)
LEMMA BackFacts ==
    ASSUME GInv, NEW p \in Proc, run[p].pc # "idle", run[p].dir = "backwards"
    PROVE  LET r == run[p]
           IN  /\ r \in Run /\ r.mig \in Mig /\ rows \in [Mig -> Nat]
               /\ r.add = {} /\ r.deferred = <<>> /\ r.ins = <<>>
               /\ r.del \cup AllOf(r.todo) \subseteq Eff(r.mig)
               /\ ToSet(r.recs) \subseteq ToSet(Records[r.mig])
               /\ r.pc # "record" => r.recs = Records[r.mig]
               /\ Len(r.todo) <= Len(Statements(r.mig, r.dir))
               /\ AtomicMigration(r.mig) /\ r.pc \in {"ops", "finish"} => r.tx = "migration"
               /\ r.pc = "record" => \A k \in ToSet(Records[r.mig]) : k \in ToSet(r.recs) \/ rows[k] = 0
<1>1. run[p] \in Run /\ run[p].mig \in Mig /\ rows \in [Mig -> Nat]
  BY DEF GInv, TInv, TypeOK, Active
<1>2. Undoes(run[p], rows)
  BY DEF GInv
<1> QED BY <1>1, <1>2 DEF Undoes

(* A step that changes neither schema nor table, and after which what was  *)
(* seen of the run still is.                                               *)
LEMMA RetreatQuiet ==
    ASSUME TInv, NEW p \in Proc, NEW m, NEW R, run' = [run EXCEPT ![p] = R],
           effects' = effects, rows' = rows, torn \subseteq torn', faked \subseteq faked',
           Undoes(R, rows), R.dir # "backwards" => R = Idle,
           HalfDone(run[p]) => run[p].mig = m /\ Spare(m)'
    PROVE  Retreats(p, m)
<1>1. run'[p] = R /\ \A q \in Proc \ {p} : run'[q] = run[q]
  BY DEF TInv, TypeOK
<1> QED BY <1>1 DEF Retreats

LEMMA BackPlan ==
    ASSUME GInv, NEW p \in Proc, Plan(p), run'[p].dir = "backwards"
    PROVE  \E m \in Mig : Retreats(p, m)
<1>1. PICK k \in Mig, dir \in Dirs :
        run' = [run EXCEPT ![p] = [Idle EXCEPT !.pc = "begin", !.mig = k, !.dir = dir,
                       !.todo = Statements(k, dir), !.recs = RowsToWrite(k)]]
  BY DEF Plan
<1> DEFINE R == [Idle EXCEPT !.pc = "begin", !.mig = k, !.dir = dir,
                       !.todo = Statements(k, dir), !.recs = RowsToWrite(k)]
<1>2. /\ R.pc = "begin" /\ R.mig = k /\ R.dir = dir /\ R.todo = Statements(k, dir)
      /\ R.recs = Records[k] /\ R.add = {} /\ R.del = {} /\ R.ins = <<>> /\ R.deferred = <<>>
  BY DEF Idle, RowsToWrite
<1>3. run' = [run EXCEPT ![p] = R]
  BY <1>1
<1> HIDE DEF R
<1>4. R.dir = "backwards"
  BY <1>3 DEF GInv, TInv, TypeOK
<1>5. /\ effects' = effects /\ rows' = rows /\ torn' = torn /\ faked' = faked
      /\ ~HalfDone(run[p])
  BY DEF Plan, HalfDone
<1>6. Len(Statements(k, dir)) <= Len(Statements(k, dir)) /\ AllOf(Statements(k, dir)) = Eff(k)
  <2>1. Statements(k, dir) \in Seq(Stmt)
    BY StatementsType
  <2> QED BY <2>1, StatementsAllOf
<1>7. Undoes(R, rows)
  BY <1>2, <1>6 DEF Undoes
<1>8. Retreats(p, k)
  BY <1>3, <1>4, <1>5, <1>7, RetreatQuiet DEF GInv
<1> QED BY <1>8

LEMMA BackBegin ==
    ASSUME GInv, NEW p \in Proc, Begin(p) \/ Fake(p) \/ EndOps(p), run[p].dir = "backwards",
           NEW m \in Mig, m = run[p].mig
    PROVE  Retreats(p, m)
<1> DEFINE r == run[p]
           tx == IF AtomicMigration(r.mig) THEN "migration" ELSE "none"
<1>1. /\ r.pc # "idle" /\ effects' = effects /\ rows' = rows /\ torn' = torn
      /\ faked \subseteq faked'
  BY DEF Begin, Fake, EndOps
<1>2. /\ r \in Run /\ r.mig \in Mig /\ rows \in [Mig -> Nat]
      /\ r.add = {} /\ r.deferred = <<>> /\ r.ins = <<>>
      /\ r.del \cup AllOf(r.todo) \subseteq Eff(r.mig)
      /\ ToSet(r.recs) \subseteq ToSet(Records[r.mig])
      /\ r.pc # "record" => r.recs = Records[r.mig]
      /\ Len(r.todo) <= Len(Statements(r.mig, r.dir))
      /\ AtomicMigration(r.mig) /\ r.pc \in {"ops", "finish"} => r.tx = "migration"
  BY <1>1, BackFacts
<1>3. TInv
  BY DEF GInv
<1>4. CASE Begin(p)
  <2> DEFINE R == [r EXCEPT !.pc = "ops", !.tx = tx]
  <2>1. run' = [run EXCEPT ![p] = R] /\ r.pc = "begin"
    BY <1>3, <1>4 DEF Begin, TInv, TypeOK
  <2>2. /\ R.pc = "ops" /\ R.tx = tx /\ R.mig = r.mig /\ R.dir = r.dir /\ R.todo = r.todo
        /\ R.recs = r.recs /\ R.add = r.add /\ R.del = r.del /\ R.ins = r.ins
        /\ R.deferred = r.deferred
    BY <1>2 DEF Run
  <2> HIDE DEF R
  <2>3. Undoes(R, rows)
    BY <1>2, <2>1, <2>2 DEF Undoes
  <2>4. ~HalfDone(r)
    BY <2>1 DEF HalfDone
  <2> QED BY <1>1, <1>3, <2>1, <2>2, <2>3, <2>4, RetreatQuiet
<1>5. CASE Fake(p)
  <2> DEFINE R == [r EXCEPT !.pc = "record", !.todo = <<>>]
  <2>1. run' = [run EXCEPT ![p] = R] /\ r.pc = "begin"
    BY <1>3, <1>5 DEF Fake, TInv, TypeOK
  <2>2. /\ R.pc = "record" /\ R.mig = r.mig /\ R.dir = r.dir /\ R.todo = <<>>
        /\ R.recs = r.recs /\ R.add = r.add /\ R.del = r.del /\ R.ins = r.ins
        /\ R.deferred = r.deferred
    BY <1>2 DEF Run
  <2> HIDE DEF R
  <2>3. Len(R.todo) <= Len(Statements(r.mig, r.dir))
    <3>1. Statements(r.mig, r.dir) \in Seq(Stmt)
      BY <1>2, StatementsType
    <3>2. Len(Statements(r.mig, r.dir)) \in Nat /\ Len(R.todo) = 0
      BY <2>2, <3>1
    <3> QED BY <3>2
  <2>4. Undoes(R, rows)
    BY <1>2, <2>1, <2>2, <2>3, ToSetEmpty DEF Undoes
  <2>5. ~HalfDone(r)
    BY <2>1 DEF HalfDone
  <2> QED BY <1>1, <1>3, <2>1, <2>2, <2>4, <2>5, RetreatQuiet
<1>6. CASE EndOps(p)
  <2> DEFINE R == [r EXCEPT !.pc = "finish"]
  <2>1. run' = [run EXCEPT ![p] = R] /\ r.pc = "ops" /\ faked' = faked /\ run'[p] = R
    BY <1>3, <1>6 DEF EndOps, TInv, TypeOK
  <2>2. /\ R.pc = "finish" /\ R.mig = r.mig /\ R.dir = r.dir /\ R.todo = r.todo
        /\ R.recs = r.recs /\ R.add = r.add /\ R.del = r.del /\ R.ins = r.ins
        /\ R.deferred = r.deferred /\ R.tx = r.tx
    BY <1>2 DEF Run
  <2> HIDE DEF R
  <2>3. Undoes(R, rows)
    BY <1>2, <2>1, <2>2 DEF Undoes
  <2>4. ASSUME HalfDone(r) PROVE Spare(m)'
    <3>1. HalfDone(run[p])'
      BY <2>1, <2>2, <2>4 DEF HalfDone, AtomicMigration, Statements, RowsToWrite
    <3> QED BY <2>1, <2>2, <3>1 DEF Spare
  <2> QED BY <1>1, <1>3, <2>1, <2>2, <2>3, <2>4, RetreatQuiet
<1> QED BY <1>4, <1>5, <1>6

LEMMA BackError ==
    ASSUME GInv, NEW p \in Proc, Refused(p) \/ Fault(p), run[p].dir = "backwards",
           NEW m \in Mig, m = run[p].mig
    PROVE  Retreats(p, m)
<1>1. /\ run' = [run EXCEPT ![p] = Idle] /\ effects' = effects /\ rows' = rows /\ faked' = faked
      /\ torn' = IF HalfDone(run[p]) THEN torn \cup {<<run[p].mig, run[p].dir>>} ELSE torn
  BY DEF Refused, Fault, Abandon
<1>2. Undoes(Idle, rows)
  BY DEF Undoes, Idle
<1>3. HalfDone(run[p]) => Spare(m)'
  BY <1>1 DEF Spare
<1> QED BY <1>1, <1>2, <1>3, RetreatQuiet DEF GInv

LEMMA BackExecute ==
    ASSUME GInv, NEW p \in Proc, Execute(p), run[p].dir = "backwards",
           NEW m \in Mig, m = run[p].mig
    PROVE  Retreats(p, m)
<1> DEFINE r == run[p]
           w == WithTx(r)
           u == Stepped(w)
           s == Head(w.todo)
           R == EndOp(ImplicitCommit(u, s), LastOfOp(w))
           C == Committed(R)
<1>1. r.pc = "ops" /\ r.todo # <<>> /\ Changed(p, R) /\ torn' = torn /\ faked' = faked
  BY DEF Execute
<1>2. /\ r \in Run /\ r.mig \in Mig /\ rows \in [Mig -> Nat]
      /\ r.add = {} /\ r.deferred = <<>> /\ r.ins = <<>>
      /\ r.del \cup AllOf(r.todo) \subseteq Eff(r.mig)
      /\ r.recs = Records[r.mig]
      /\ Len(r.todo) <= Len(Statements(r.mig, r.dir))
      /\ AtomicMigration(r.mig) => r.tx = "migration"
  BY <1>1, BackFacts
<1>3. R \in Run /\ R.mig = r.mig /\ R.dir = r.dir /\ Same(R, u)
  BY <1>1, <1>2, ExecutedType
<1>4. w \in Run /\ Same(w, r)
  BY <1>2, WithTxType
<1>5. AtomicMigration(r.mig) => R.tx = "migration"
  BY <1>1, <1>2, TxKept DEF AtomicMigration
<1>6. TInv
  BY DEF GInv
<1> HIDE DEF R, w
<1>7. w.dir = "backwards"
  BY <1>4 DEF Same
<1>8. /\ u.add = w.add \ Yields(s) /\ u.del = w.del \cup Yields(s)
      /\ u.deferred = w.deferred /\ u.todo = Tail(w.todo)
      /\ u.ins = w.ins /\ u.recs = w.recs /\ u.pc = w.pc
  BY <1>4, <1>7, SteppedBackward
<1> HIDE DEF u
<1>9. /\ R.add = {} /\ R.del = r.del \cup Yields(Head(r.todo)) /\ R.deferred = <<>>
      /\ R.todo = Tail(r.todo) /\ R.ins = <<>> /\ R.recs = Records[r.mig] /\ R.pc = "ops"
  BY <1>1, <1>2, <1>3, <1>4, <1>8 DEF Same
<1>10. /\ C.mig = R.mig /\ C.dir = R.dir /\ C.add = {} /\ C.del = {} /\ C.deferred = <<>>
       /\ C.todo = R.todo /\ C.ins = <<>> /\ C.recs = R.recs /\ C.pc = R.pc
  BY <1>3, <1>9 DEF Committed, Run
<1> HIDE DEF C, s
<1>11. /\ AllOf(r.todo) = Yields(Head(r.todo)) \cup AllOf(Tail(r.todo))
       /\ Len(Tail(r.todo)) < Len(Statements(r.mig, r.dir))
       /\ Len(Tail(r.todo)) \in Nat /\ Len(Statements(r.mig, r.dir)) \in Nat
  <2>1. r.todo \in Seq(Stmt) /\ Statements(r.mig, r.dir) \in Seq(Stmt)
    BY <1>2, StatementsType DEF Run
  <2>2. AllOf(r.todo) = Yields(Head(r.todo)) \cup AllOf(Tail(r.todo))
    BY <1>1, <2>1, AllOfSplit
  <2>3. Len(r.todo) \in Nat /\ Len(Statements(r.mig, r.dir)) \in Nat
    BY <2>1
  <2>4. Len(Tail(r.todo)) = Len(r.todo) - 1 /\ Tail(r.todo) \in Seq(Stmt)
    BY <1>1, <2>1, HeadTailProperties
  <2>5. Len(Tail(r.todo)) \in Nat
    BY <2>4
  <2> QED BY <1>2, <2>2, <2>3, <2>4, <2>5
<1>12. R.del \cup AllOf(R.todo) \subseteq Eff(m) /\ AllOf(C.todo) \subseteq Eff(m)
  BY <1>2, <1>9, <1>10, <1>11
<1>13. R.todo # Statements(r.mig, r.dir) /\ C.todo # Statements(r.mig, r.dir)
  <2>1. Len(Tail(r.todo)) # Len(Statements(r.mig, r.dir))
    BY <1>11
  <2>2. Tail(r.todo) # Statements(r.mig, r.dir)
    BY <2>1
  <2> QED BY <1>9, <1>10, <2>2
<1>14. ASSUME ~AtomicMigration(m), run'[p] = R \/ run'[p] = C
       PROVE  Spare(m)'
  <2>1. HalfDone(run[p])'
    BY <1>3, <1>9, <1>10, <1>13, <1>14 DEF HalfDone, AtomicMigration, Statements, RowsToWrite
  <2> QED BY <1>3, <1>10, <1>14, <2>1 DEF Spare
<1>15. AtomicMigration(m) => ~HalfDone(r)
  BY <1>1 DEF HalfDone
<1>16. Undoes(R, rows)
  BY <1>2, <1>3, <1>5, <1>9, <1>11, <1>12 DEF Undoes
<1>17. CASE InTx(R)
  <2>1. run' = [run EXCEPT ![p] = R] /\ effects' = effects /\ rows' = rows
    BY <1>1, <1>17 DEF Changed
  <2>2. run'[p] = R
    BY <1>6, <2>1 DEF TInv, TypeOK
  <2>3. HalfDone(r) => Spare(m)'
    BY <1>14, <1>15, <2>2
  <2> QED BY <1>1, <1>3, <1>6, <1>16, <2>1, <2>3, RetreatQuiet
<1>18. CASE ~InTx(R)
  <2>1. ~AtomicMigration(m)
    BY <1>5, <1>18 DEF InTx
  <2>2. run' = [run EXCEPT ![p] = C] /\ effects' = (effects \ R.del) \cup R.add
        /\ rows' = Insert(rows, <<>>)
    BY <1>1, <1>9, <1>18 DEF Changed, CommitInto, Visible, C
  <2>3. run'[p] = C /\ \A q \in Proc \ {p} : run'[q] = run[q]
    BY <1>6, <2>2 DEF TInv, TypeOK
  <2>4. rows' = rows
    <3>1. <<>> \in Seq(Mig)
      OBVIOUS
    <3> QED BY <1>2, <2>2, <3>1, InsertFacts
  <2>5. Spare(m)'
    BY <1>14, <2>1, <2>3
  <2>6. Undoes(C, rows)
    BY <1>2, <1>3, <1>9, <1>10, <1>11, <1>12, <2>1 DEF Undoes
  <2>7. effects \ Eff(m) \subseteq effects'
    BY <1>12, <2>2
  <2> QED BY <1>1, <1>3, <1>10, <2>3, <2>4, <2>5, <2>6, <2>7 DEF Retreats
<1> QED BY <1>17, <1>18

LEMMA BackFinish ==
    ASSUME GInv, NEW p \in Proc, Finish(p), run[p].dir = "backwards",
           NEW m \in Mig, m = run[p].mig
    PROVE  Retreats(p, m)
<1> DEFINE r == run[p]
           D == [Committed(r) EXCEPT !.pc = "record"]
<1>1. r.pc = "finish" /\ CommitInto(r) /\ torn' = torn /\ faked' = faked
      /\ run' = [run EXCEPT ![p] = AfterFinish(r)]
  BY DEF Finish
<1>2. /\ r \in Run /\ r.mig \in Mig /\ rows \in [Mig -> Nat]
      /\ r.add = {} /\ r.deferred = <<>> /\ r.ins = <<>>
      /\ r.del \cup AllOf(r.todo) \subseteq Eff(r.mig)
      /\ r.recs = Records[r.mig] /\ Len(r.todo) <= Len(Statements(r.mig, r.dir))
  BY <1>1, BackFacts
<1>3. r.recs # <<>>
  BY <1>2, SquashAssumption
<1>4. run' = [run EXCEPT ![p] = D]
  BY <1>1, <1>3 DEF AfterFinish
<1>5. /\ D.pc = "record" /\ D.mig = m /\ D.dir = "backwards" /\ D.recs = Records[m]
      /\ D.todo = r.todo /\ D.add = {} /\ D.del = {} /\ D.ins = <<>> /\ D.deferred = <<>>
  BY <1>2 DEF Committed, Run
<1> HIDE DEF D
<1>6. run'[p] = D /\ \A q \in Proc \ {p} : run'[q] = run[q]
  BY <1>4 DEF GInv, TInv, TypeOK
<1>7. effects' = effects \ r.del /\ rows' = rows
  <2>1. rows' = Insert(rows, <<>>) /\ effects' = effects \ r.del
    BY <1>1, <1>2 DEF CommitInto, Visible
  <2>2. <<>> \in Seq(Mig)
    OBVIOUS
  <2> QED BY <1>2, <2>1, <2>2, InsertFacts
<1>8. Spare(m)'
  <2>1. CASE m \in faked
    BY <1>1, <2>1 DEF Spare
  <2>2. CASE m \notin faked
    <3>1. HalfDone(run[p])'
      BY <1>1, <1>5, <1>6, <2>2 DEF HalfDone
    <3> QED BY <1>5, <1>6, <3>1 DEF Spare
  <2> QED BY <2>1, <2>2
<1>9. Undoes(D, rows)
  BY <1>2, <1>5 DEF Undoes
<1>10. effects \ Eff(m) \subseteq effects'
  BY <1>2, <1>7
<1> QED BY <1>1, <1>5, <1>6, <1>7, <1>8, <1>9, <1>10 DEF Retreats

LEMMA BackRecord ==
    ASSUME GInv, NEW p \in Proc, Record(p), run[p].dir = "backwards",
           NEW m \in Mig, m = run[p].mig
    PROVE  Retreats(p, m)
<1> DEFINE r == run[p]
           h == Head(r.recs)
           c == Tail(r.recs)
           C == [r EXCEPT !.recs = c]
           R == IF Len(r.recs) = 1 THEN Idle ELSE C
<1>1. /\ r.pc = "record" /\ r.recs # <<>> /\ effects' = effects
      /\ run' = [run EXCEPT ![p] = R] /\ torn' = torn /\ faked' = faked
      /\ rows' = [rows EXCEPT ![h] = 0]
  BY DEF Record, Recorded
<1>2. /\ r \in Run /\ r.mig \in Mig /\ rows \in [Mig -> Nat]
      /\ r.add = {} /\ r.deferred = <<>> /\ r.ins = <<>>
      /\ r.del \cup AllOf(r.todo) \subseteq Eff(r.mig)
      /\ ToSet(r.recs) \subseteq ToSet(Records[r.mig])
      /\ Len(r.todo) <= Len(Statements(r.mig, r.dir))
      /\ \A k \in ToSet(Records[r.mig]) : k \in ToSet(r.recs) \/ rows[k] = 0
  BY <1>1, BackFacts
<1>3. h \in ToSet(r.recs) /\ ToSet(r.recs) = {h} \cup ToSet(c) /\ (Len(r.recs) = 1 => ToSet(c) = {})
  <2>1. r.recs \in Seq(Mig)
    BY <1>2 DEF Run
  <2>2. h \in ToSet(r.recs) /\ ToSet(r.recs) = {h} \cup ToSet(c)
    BY <1>1, <2>1, ToSetTail
  <2>3. ASSUME Len(r.recs) = 1 PROVE c = <<>>
    <3>1. c \in Seq(Mig) /\ Len(c) = 0
      BY <1>1, <2>1, <2>3, HeadTailProperties
    <3> QED BY <3>1, EmptySeq
  <2> QED BY <2>2, <2>3, ToSetEmpty
<1>4. /\ C.pc = "record" /\ C.mig = m /\ C.dir = "backwards" /\ C.recs = c
      /\ C.todo = r.todo /\ C.add = {} /\ C.del = r.del /\ C.ins = <<>> /\ C.deferred = <<>>
  BY <1>1, <1>2 DEF Run
<1>5. run'[p] = R /\ \A q \in Proc \ {p} : run'[q] = run[q]
  BY <1>1 DEF GInv, TInv, TypeOK
<1>6. \A k \in Mig : (k = h => rows'[k] = 0) /\ (k # h => rows'[k] = rows[k]) /\ rows[k] \in Nat
  BY <1>1, <1>2
<1>7. ToSet(Records[m]) \subseteq Mig
  BY RecordsCovered
<1>8. R = C \/ (R = Idle /\ ToSet(c) = {})
  BY <1>3
<1> HIDE DEF R, C, c, h
<1>9. \A k \in ToSet(Records[m]) : k \in ToSet(c) \/ rows'[k] = 0
  BY <1>2, <1>3, <1>6, <1>7
<1>10. Undoes(R, rows')
  <2>1. Undoes(C, rows')
    BY <1>2, <1>3, <1>4, <1>9 DEF Undoes
  <2>2. Undoes(Idle, rows')
    BY DEF Undoes, Idle
  <2> QED BY <1>8, <2>1, <2>2
<1>11. ASSUME HalfDone(r)
       PROVE  Spare(m)' \/ \A k \in ToSet(Records[m]) : rows'[k] = 0
  <2>1. CASE R = C
    <3>1. HalfDone(run[p])'
      BY <1>1, <1>4, <1>5, <1>11, <2>1 DEF HalfDone
    <3> QED BY <1>4, <1>5, <2>1, <3>1 DEF Spare
  <2>2. CASE ToSet(c) = {}
    BY <1>9, <2>2
  <2> QED BY <1>8, <2>1, <2>2
<1>12. \A k \in Mig : rows'[k] > 0 => rows[k] > 0
  BY <1>6
<1> QED BY <1>1, <1>4, <1>5, <1>8, <1>10, <1>11, <1>12 DEF Retreats

LEMMA GInvInit == Init => GInv
<1> SUFFICES ASSUME Init PROVE GInv
  OBVIOUS
<1>1. TInv
  BY TInvInit
<1>2. \A p \in Proc : run[p] = Idle
  BY DEF Init
<1>3. \A p \in Proc : Forward(run[p], effects, faked)
  BY <1>2, IdleForward
<1>4. InDirs /\ \A p \in Proc : Undoes(run[p], rows)
  BY <1>2 DEF InDirs, Undoes, Idle
<1>5. \A k \in Mig : RowFits(k)
  BY DEF Init, RowFits
<1> QED BY <1>1, <1>3, <1>4, <1>5 DEF GInv

LEMMA GInvNext ==
    ASSUME NoRace
    PROVE  GInv /\ [Next]_vars => GInv'
<1> SUFFICES ASSUME GInv, [Next]_vars PROVE GInv'
  OBVIOUS
<1>1. TInv /\ TInv' /\ InDirs /\ InDirs'
  BY TInvNext, InDirsNext DEF GInv
<1>2. CASE UNCHANGED vars \/ Done
  <2>1. UNCHANGED vars
    BY <1>2 DEF Done
  <2>2. ASSUME NEW j PROVE Spare(j)' = Spare(j)
    BY <2>1 DEF vars, Spare, HalfDone, AtomicMigration, Statements, RowsToWrite
  <2>3. ASSUME NEW k \in Mig PROVE RowFits(k)'
    BY <2>1, <2>2 DEF vars, GInv, RowFits, Writers, Eff, AllOf
  <2> QED BY <1>1, <2>1, <2>3 DEF vars, GInv
<1>3. ASSUME NEW p \in Proc, Plan(p) \/ Step(p) \/ Fault(p)
      PROVE  GInv'
  <2>1. torn \subseteq torn'
    BY <1>3 DEF Plan, Step, Begin, Fake, Execute, RecordInside, EndOps, RunDeferred, Finish,
       Record, Refused, Fault, Abandon
  <2>2. CASE Plan(p)
    <3>1. PICK k \in Mig, dir \in Dirs :
            run' = [run EXCEPT ![p] = [Idle EXCEPT !.pc = "begin", !.mig = k, !.dir = dir,
                           !.todo = Statements(k, dir), !.recs = RowsToWrite(k)]]
      BY <2>2 DEF Plan
    <3>2. run'[p].dir = dir /\ run[p].pc = "idle"
      BY <1>1, <2>2, <3>1 DEF Plan, Idle, TInv, TypeOK
    <3>3. CASE dir = "forwards"
      <4>1. Advances(p)
        BY <1>1, <2>2, <3>2, <3>3, ForwardPlan
      <4> QED BY <1>1, <2>1, <3>2, <4>1, ForwardFits
    <3>4. CASE dir = "backwards"
      <4>1. PICK m \in Mig : Retreats(p, m)
        BY <2>2, <3>2, <3>4, BackPlan
      <4> QED BY <1>1, <3>4, <4>1, BackwardFits
    <3> QED BY <3>3, <3>4, RunnerAssumption
  <2>3. CASE Step(p) \/ Fault(p)
    <3>1. run[p].pc # "idle"
      BY <2>3 DEF Step, Begin, Fake, Execute, RecordInside, EndOps, RunDeferred, Finish,
         Record, Refused, Fault
    <3>2. CASE run[p].dir # "backwards"
      <4>1. Ready(p)
        BY <3>2 DEF GInv, Ready
      <4>2. Advances(p)
        BY <2>3, <4>1, ForwardBegin, ForwardFake, ForwardExecute, ForwardRecordInside,
           ForwardRunDeferred, ForwardFinish, ForwardRecord, ForwardError DEF Step
      <4> QED BY <1>1, <2>1, <3>2, <4>2, ForwardFits
    <3>3. CASE run[p].dir = "backwards"
      <4>1. PICK m \in Mig : m = run[p].mig
        BY <1>1, <3>1 DEF TInv, Active
      <4>2. "backwards" \in Dirs
        BY <1>1, <3>1, <3>3 DEF InDirs
      <4>3. ~RecordInside(p) /\ ~RunDeferred(p)
        BY <3>1, <3>3, BackFacts DEF RecordInside, RecordsBeforeFinish, RunDeferred
      <4>4. Retreats(p, m)
        BY <2>3, <3>3, <4>1, <4>3, BackBegin, BackExecute, BackFinish, BackRecord, BackError DEF Step
      <4> QED BY <1>1, <4>2, <4>4, BackwardFits
    <3> QED BY <3>2, <3>3
  <2> QED BY <1>3, <2>2, <2>3
<1> QED BY <1>2, <1>3 DEF Next

-----------------------------------------------------------------------------
(* Only what can be undone is: a run backwards past Begin has looked at    *)
(* every operation of its migration, or --fake has passed them all over.   *)
Undoable(m, F) == Reversible(m) \/ m \in F

Looked(r, F) == r.dir = "backwards" =>
    /\ r.pc = "begin" => r.todo = Statements(r.mig, r.dir)
    /\ r.pc \notin {"idle", "begin"} => Undoable(r.mig, F)

UInv == /\ TInv
        /\ \A p \in Proc : Looked(run[p], faked)
        /\ \A k \in Mig : <<k, "backwards">> \in torn => Undoable(k, faked)

LEMMA ReversedReversible ==
    ASSUME NEW k \in Mig, \A i \in 1..Len(Statements(k, "backwards")) :
                              Statements(k, "backwards")[i].reversible
    PROVE  Reversible(k)
<1> DEFINE v == Program[k]
<1>1. v \in Seq(Stmt) /\ Statements(k, "backwards") = Reverse(v)
  BY RunnerAssumption DEF Statements
<1> HIDE DEF v
<1>2. Len(v) \in Nat /\ Reverse(v) = [i \in 1..Len(v) |-> v[(Len(v) - i) + 1]]
  BY <1>1 DEF Reverse
<1>3. Len(Reverse(v)) = Len(v)
  BY <1>2
<1>4. ASSUME NEW i \in 1..Len(v)
      PROVE  v[i].reversible
  <2> DEFINE j == (Len(v) - i) + 1
  <2>1. j \in 1..Len(v) /\ (Len(v) - j) + 1 = i
    BY <1>2
  <2> HIDE DEF j
  <2>2. Reverse(v)[j] = v[i]
    BY <1>2, <2>1
  <2> QED BY <1>1, <1>3, <2>1, <2>2
<1> QED BY <1>4 DEF Reversible, v

(* A step of p past Begin goes on with the same migration or ends its run. *)
Continues(p) == /\ run[p].pc \notin {"idle", "begin"}
                /\ \/ run'[p] = Idle
                   \/ /\ run'[p].mig = run[p].mig /\ run'[p].dir = run[p].dir
                      /\ run'[p].pc # "begin"
                /\ \A q \in Proc \ {p} : run'[q] = run[q]
                /\ torn' = torn /\ faked' = faked

LEMMA ContinuesChanged ==
    ASSUME TInv, NEW p \in Proc, NEW R \in Run, Changed(p, R), R.mig = run[p].mig,
           R.dir = run[p].dir, R.pc = run[p].pc, run[p].pc \notin {"idle", "begin"},
           torn' = torn, faked' = faked
    PROVE  Continues(p)
<1>1. run' = [run EXCEPT ![p] = R] \/ run' = [run EXCEPT ![p] = Committed(R)]
  BY DEF Changed
<1>2. Committed(R).mig = R.mig /\ Committed(R).dir = R.dir /\ Committed(R).pc = R.pc
  BY DEF Committed, Run
<1>3. run'[p] \in {R, Committed(R)} /\ \A q \in Proc \ {p} : run'[q] = run[q]
  BY <1>1 DEF TInv, TypeOK
<1> QED BY <1>2, <1>3 DEF Continues

LEMMA StepContinues ==
    ASSUME TInv, NEW p \in Proc,
           Execute(p) \/ RecordInside(p) \/ EndOps(p) \/ RunDeferred(p) \/ Finish(p) \/ Record(p)
    PROVE  Continues(p)
<1> DEFINE r == run[p]
<1>0. r \in Run
  BY DEF TInv, TypeOK
<1>1. CASE Execute(p)
  <2> DEFINE w == WithTx(r)
             R == EndOp(ImplicitCommit(Stepped(w), Head(w.todo)), LastOfOp(w))
  <2>1. r.pc = "ops" /\ r.todo # <<>> /\ Changed(p, R) /\ torn' = torn /\ faked' = faked
    BY <1>1 DEF Execute
  <2>2. R \in Run /\ R.mig = r.mig /\ R.dir = r.dir /\ Same(R, Stepped(w))
    BY <1>0, <2>1, ExecutedType
  <2>3. w \in Run /\ w.pc = r.pc
    BY <1>0, <2>1, WithTxType DEF Same
  <2>4. R.pc = r.pc
    BY <2>2, <2>3 DEF Same, Stepped, Run
  <2> HIDE DEF R
  <2> QED BY <2>1, <2>2, <2>4, ContinuesChanged
<1>2. CASE RecordInside(p)
  <2> DEFINE R == [r EXCEPT !.ins = Append(@, Head(r.recs)), !.recs = Tail(@)]
  <2>1. r.pc = "ops" /\ r.recs # <<>> /\ Changed(p, R) /\ torn' = torn /\ faked' = faked
    BY <1>2 DEF RecordInside
  <2>2. Append(r.ins, Head(r.recs)) \in Seq(Mig) /\ Tail(r.recs) \in Seq(Mig)
    <3>1. r.ins \in Seq(Mig) /\ r.recs \in Seq(Mig)
      BY <1>0 DEF Run
    <3> QED BY <2>1, <3>1
  <2>3. R \in Run /\ R.mig = r.mig /\ R.dir = r.dir /\ R.pc = r.pc
    BY <1>0, <2>2 DEF Run
  <2> HIDE DEF R
  <2> QED BY <2>1, <2>3, ContinuesChanged
<1>3. CASE RunDeferred(p)
  <2> DEFINE R == [r EXCEPT !.add = @ \cup {Head(r.deferred)}, !.deferred = Tail(@)]
  <2>1. r.pc = "finish" /\ r.deferred # <<>> /\ Changed(p, R) /\ torn' = torn /\ faked' = faked
    BY <1>3 DEF RunDeferred
  <2>2. Head(r.deferred) \in Effect /\ Tail(r.deferred) \in Seq(Effect)
    <3>1. r.deferred \in Seq(Effect)
      BY <1>0 DEF Run
    <3> QED BY <2>1, <3>1
  <2>3. R \in Run /\ R.mig = r.mig /\ R.dir = r.dir /\ R.pc = r.pc
    BY <1>0, <2>2 DEF Run
  <2> HIDE DEF R
  <2> QED BY <2>1, <2>3, ContinuesChanged
<1>4. CASE EndOps(p)
  <2> DEFINE R == [r EXCEPT !.pc = "finish"]
  <2>1. /\ r.pc = "ops" /\ torn' = torn /\ faked' = faked /\ run'[p] = R
        /\ \A q \in Proc \ {p} : run'[q] = run[q]
    BY <1>4 DEF EndOps, TInv, TypeOK
  <2>2. R.mig = r.mig /\ R.dir = r.dir /\ R.pc = "finish"
    BY <1>0 DEF Run
  <2> QED BY <2>1, <2>2 DEF Continues
<1>5. CASE Finish(p)
  <2> DEFINE D == [Committed(r) EXCEPT !.pc = "record"]
  <2>1. /\ r.pc = "finish" /\ torn' = torn /\ faked' = faked /\ run'[p] = AfterFinish(r)
        /\ \A q \in Proc \ {p} : run'[q] = run[q]
    BY <1>5 DEF Finish, TInv, TypeOK
  <2>2. D.mig = r.mig /\ D.dir = r.dir /\ D.pc = "record"
    BY <1>0 DEF Committed, Run
  <2>3. AfterFinish(r) \in {Idle, D}
    BY DEF AfterFinish
  <2> QED BY <2>1, <2>2, <2>3 DEF Continues
<1>6. CASE Record(p)
  <2> DEFINE C == [r EXCEPT !.recs = Tail(r.recs)]
  <2>1. /\ r.pc = "record" /\ torn' = torn /\ faked' = faked /\ run'[p] \in {Idle, C}
        /\ \A q \in Proc \ {p} : run'[q] = run[q]
    BY <1>6 DEF Record, TInv, TypeOK
  <2>2. C.mig = r.mig /\ C.dir = r.dir /\ C.pc = "record"
    BY <1>0, <2>1 DEF Run
  <2> QED BY <2>1, <2>2 DEF Continues
<1> QED BY <1>1, <1>2, <1>3, <1>4, <1>5, <1>6

LEMMA LookedIdle == ASSUME NEW F PROVE Looked(Idle, F)
BY DEF Looked, Idle

LEMMA LookedGrows ==
    ASSUME NEW r, NEW F, NEW G, Looked(r, F), F \subseteq G
    PROVE  Looked(r, G)
BY DEF Looked, Undoable

LEMMA UInvInit == Init => UInv
<1> SUFFICES ASSUME Init PROVE UInv
  OBVIOUS
<1>1. TInv /\ torn = {} /\ \A p \in Proc : run[p] = Idle
  BY TInvInit DEF Init
<1> QED BY <1>1, LookedIdle DEF UInv

LEMMA UInvNext == UInv /\ [Next]_vars => UInv'
<1> SUFFICES ASSUME UInv, [Next]_vars PROVE UInv'
  OBVIOUS
<1>1. TInv /\ TInv'
  BY TInvNext DEF UInv
<1>2. CASE UNCHANGED vars \/ Done
  <2>1. UNCHANGED vars
    BY <1>2 DEF Done
  <2> QED BY <1>1, <2>1 DEF vars, UInv, Looked, Undoable, Reversible, Statements
<1>3. ASSUME NEW p \in Proc, Plan(p) \/ Step(p) \/ Fault(p)
      PROVE  UInv'
  <2> DEFINE r == run[p]
  <2>0. run \in [Proc -> Run] /\ r \in Run
    BY <1>1 DEF TInv, TypeOK
  <2>1. ASSUME \A q \in Proc \ {p} : run'[q] = run[q], faked \subseteq faked',
               Looked(run'[p], faked'),
               torn' = torn \/ (torn' = torn \cup {<<r.mig, r.dir>>} /\ HalfDone(r))
        PROVE  UInv'
    <3>1. ASSUME NEW q \in Proc PROVE Looked(run'[q], faked')
      BY <2>1, LookedGrows DEF UInv
    <3>2. ASSUME NEW k \in Mig, <<k, "backwards">> \in torn' PROVE Undoable(k, faked')
      <4>1. CASE <<k, "backwards">> \in torn
        BY <2>1, <4>1 DEF UInv, Undoable
      <4>2. CASE k = r.mig /\ r.dir = "backwards" /\ HalfDone(r)
        <5>1. r.pc \in {"ops", "finish", "record"}
          BY <4>2 DEF HalfDone
        <5>2. Undoable(k, faked)
          BY <4>2, <5>1 DEF UInv, Looked
        <5> QED BY <2>1, <5>2 DEF Undoable
      <4> QED BY <2>1, <3>2, <4>1, <4>2
    <3>3. UInv'
      BY <1>1, <3>1, <3>2 DEF UInv, Looked, Undoable, Reversible, Statements
    <3> QED BY <3>3
  <2>2. CASE Plan(p)
    <3>1. PICK k \in Mig, dir \in Dirs :
            run' = [run EXCEPT ![p] = [Idle EXCEPT !.pc = "begin", !.mig = k, !.dir = dir,
                           !.todo = Statements(k, dir), !.recs = RowsToWrite(k)]]
      BY <2>2 DEF Plan
    <3>2. /\ run'[p].pc = "begin" /\ run'[p].todo = Statements(run'[p].mig, run'[p].dir)
          /\ \A q \in Proc \ {p} : run'[q] = run[q]
      BY <2>0, <3>1 DEF Idle
    <3>3. Looked(run'[p], faked')
      BY <3>2 DEF Looked
    <3> QED BY <2>1, <2>2, <3>2, <3>3 DEF Plan
  <2>3. CASE Begin(p)
    <3>1. /\ r.pc = "begin" /\ ~Irreversible(r) /\ torn' = torn /\ faked' = faked
          /\ run'[p].mig = r.mig /\ run'[p].dir = r.dir /\ run'[p].pc = "ops"
          /\ \A q \in Proc \ {p} : run'[q] = run[q]
      BY <2>0, <2>3 DEF Begin, Run
    <3>2. ASSUME r.dir = "backwards" PROVE Reversible(r.mig)
      <4>1. r.todo = Statements(r.mig, "backwards")
        BY <3>1, <3>2 DEF UInv, Looked
      <4>2. \A i \in 1..Len(r.todo) : r.todo[i].reversible
        BY <3>1, <3>2 DEF Irreversible
      <4>3. r.mig \in Mig
        BY <1>1, <3>1 DEF TInv, Active
      <4> QED BY <4>1, <4>2, <4>3, ReversedReversible
    <3>3. Looked(run'[p], faked')
      BY <3>1, <3>2 DEF Looked, Undoable
    <3> QED BY <2>1, <3>1, <3>3
  <2>4. CASE Fake(p)
    <3>1. /\ torn' = torn /\ faked' = faked \cup {r.mig}
          /\ run'[p].mig = r.mig /\ run'[p].pc = "record"
          /\ \A q \in Proc \ {p} : run'[q] = run[q]
      BY <2>0, <2>4 DEF Fake, Run
    <3>2. Looked(run'[p], faked')
      BY <3>1 DEF Looked, Undoable
    <3> QED BY <2>1, <3>1, <3>2
  <2>5. CASE Refused(p) \/ Fault(p)
    <3>1. /\ run' = [run EXCEPT ![p] = Idle] /\ faked' = faked
          /\ torn' = IF HalfDone(r) THEN torn \cup {<<r.mig, r.dir>>} ELSE torn
      BY <2>5 DEF Refused, Fault, Abandon
    <3>2. run'[p] = Idle /\ \A q \in Proc \ {p} : run'[q] = run[q]
      BY <2>0, <3>1
    <3> QED BY <2>1, <3>1, <3>2, LookedIdle
  <2>6. CASE Execute(p) \/ RecordInside(p) \/ EndOps(p) \/ RunDeferred(p) \/ Finish(p) \/ Record(p)
    <3>1. Continues(p)
      BY <1>1, <2>6, StepContinues
    <3>2. Looked(r, faked)
      BY DEF UInv
    <3>3. Looked(run'[p], faked')
      BY <3>1, <3>2, LookedIdle DEF Continues, Looked
    <3> QED BY <2>1, <3>1, <3>3 DEF Continues
  <2> QED BY <1>3, <2>2, <2>3, <2>4, <2>5, <2>6 DEF Step
<1> QED BY <1>2, <1>3 DEF Next

(* On every backend, with and without DDL rollback, for any programs and   *)
(* squashes, and however the runs fail or die: what the rows make applied  *)
(* has its effects all there, unless a migration that writes one of its    *)
(* rows was faked, or is being unapplied or was left half unapplied with   *)
(* every operation of it reversible: one that cannot be undone whole is    *)
(* not undone at all.  Any number of commands forwards, or one that goes   *)
(* both ways.  Unapply must take the effects away before the rows and, if  *)
(* it is cut short between, leave a run that can be told.                  *)
THEOREM RecordTrueBothWays ==
    ASSUME NoRace, Flat
    PROVE  Spec => []RecordedIsApplied
<1>1. Spec => []GInv
  BY GInvInit, GInvNext, PTL DEF Spec
<1>2. Spec => []UInv
  BY UInvInit, UInvNext, PTL DEF Spec
<1>3. GInv /\ UInv => RecordedIsApplied
  <2> SUFFICES ASSUME GInv, UInv, NEW k \in Mig, ReadApplied(k), ~(Eff(k) \subseteq effects)
               PROVE  \E j \in Mig : /\ ToSet(Records[j]) \cap ToSet(Records[k]) # {}
                                     /\ j \in faked \/ RunsBackwards(j)
    BY DEF RecordedIsApplied
  <2>1. Eff(k) = UNION {Eff(j) : j \in Read(k)}
    BY SquashAssumption
  <2>2. PICK j \in Read(k) : ~(Eff(j) \subseteq effects)
    BY <2>1
  <2>3. Read(k) \subseteq ToSet(Records[k])
    BY DEF Read, ToSet
  <2>4. j \in Mig /\ rows[j] > 0 /\ Records[j] = <<j>>
    BY <2>3, RecordsCovered DEF ReadApplied, Flat
  <2>5. PICK m \in Writers(j) : Spare(m)
    BY <2>2, <2>4 DEF GInv, RowFits
  <2>6. m \in Mig /\ j \in ToSet(Records[m])
    BY DEF Writers
  <2>7. m \in faked \/ RunsBackwards(m)
    <3>1. CASE m \in faked
      BY <3>1
    <3>2. CASE <<m, "backwards">> \in torn
      BY <2>6, <3>2 DEF UInv, Undoable, RunsBackwards
    <3>3. CASE \E p \in Proc : run[p].mig = m /\ run[p].dir = "backwards" /\ HalfDone(run[p])
      <4>1. PICK p \in Proc : run[p].mig = m /\ run[p].dir = "backwards" /\ HalfDone(run[p])
        BY <3>3
      <4>2. run[p].pc \in {"ops", "finish", "record"}
        BY <4>1 DEF HalfDone
      <4> QED BY <4>1, <4>2 DEF UInv, Looked, Undoable, RunsBackwards
    <3> QED BY <2>5, <3>1, <3>2, <3>3 DEF Spare
  <2> QED BY <2>3, <2>6, <2>7
<1> QED BY <1>1, <1>2, <1>3, PTL
=============================================================================
