-------------------------- MODULE FirstRun_proofs --------------------------
(***************************************************************************)
(* For any number of commands, migrations and statements, asked for what   *)
(* they may be: a row means a whole migration, the row of a squash follows *)
(* those of what it replaces, and of commands that start at once on an     *)
(* empty database one gets through.                                        *)
(***************************************************************************)
EXTENDS FirstRun, TLAPS, SequenceTheorems

PC == {"load", "sync", "syncing", "ensure", "create", "next", "apply", "finish",
       "record", "read", "check", "ok", "failed"}

Run == [pc : PC, plan : Seq(Mig), todo : Seq(Things), made : SUBSET Things,
        has : BOOLEAN, seen : SUBSET (Mig \cup Squash)]

(* The type of every variable.                                             *)
TypeOK ==
    /\ rollback \in BOOLEAN /\ table \in BOOLEAN /\ faults \in Nat
    /\ asked \in [Proc -> SUBSET Mig] /\ soft \in SUBSET Proc /\ syncs \in SUBSET Proc
    /\ rows \in [Mig \cup Squash -> Nat]
    /\ objects \in SUBSET Things
    /\ run \in [Proc -> Run]
    /\ start \in Starts

-----------------------------------------------------------------------------
(* What holds of a command on its own.                                     *)

Increasing(v) == \A i, j \in DOMAIN v : i < j => v[i] < v[j]

(* In the order of Unmigrated.                                             *)
InOrder(v) ==
    \A i, j \in DOMAIN v, m, n \in DOMAIN Unmigrated :
        i < j /\ v[i] = Unmigrated[m] /\ v[j] = Unmigrated[n] => m < n

(* How many statements of its migration a command is past.                 *)
Past(r) ==
    Len(Statements[Head(r.plan)]) - Len(r.todo)
      + (IF r.pc = "finish" THEN Len(Deferred[Head(r.plan)]) ELSE 0)

Planned(r) ==
    /\ Increasing(r.plan)
    /\ r.pc \in {"apply", "finish", "record"} => r.plan # <<>>
    /\ r.pc \in {"read", "check", "ok"} => r.plan = <<>>

(* What it is about is there, held by its transaction, or still to do.     *)
Syncing(r, O) ==
    /\ r.todo \in Seq(ToSet(Unmigrated)) /\ InOrder(r.todo)
    /\ r.made \subseteq ToSet(Unmigrated)
    /\ ToSet(Unmigrated) \subseteq O \cup r.made \cup ToSet(r.todo)

Applying(r, O) ==
    LET k == Head(r.plan)
    IN  /\ r.made \subseteq Whole(k)
        /\ Len(r.todo) <= Len(IF r.pc = "apply" THEN Statements[k] ELSE Deferred[k])
        /\ \A i \in DOMAIN r.todo : r.todo[i] = Line(k)[Past(r) + i]
        /\ \A i \in DOMAIN Line(k) : i <= Past(r) => Line(k)[i] \in O \cup r.made

Working(r, O) ==
    /\ r.pc \notin {"syncing", "apply", "finish"} => r.made = {}
    /\ r.pc = "syncing" => Syncing(r, O)
    /\ r.pc \in {"apply", "finish"} => Applying(r, O)

BInv ==
    /\ TypeOK
    /\ \A p \in Proc : /\ Planned(run[p]) /\ Working(run[p], objects)
                       /\ ~rollback => run[p].made = {}

-----------------------------------------------------------------------------
(* A row means the whole migration.  Where there are transactions, so do   *)
(* the tables that --fake-initial looks for; where there are none, no one  *)
(* is given --fake-initial.                                                *)
RowsWhole ==
    /\ \A k \in Mig : rows[k] > 0 => Whole(k) \subseteq objects
    /\ \A p \in Proc : run[p].pc = "record" => Whole(Head(run[p].plan)) \subseteq objects

LookedWhole == \A k \in Mig : DetectSoftApplied(k) => Whole(k) \subseteq objects

WInv == /\ BInv
        /\ rollback \/ soft = {} => RowsWhole
        /\ rollback => LookedWhole

-----------------------------------------------------------------------------
(* What a command was asked for has a row or is in its plan; what it has   *)
(* read stays.                                                             *)
Asked(p) ==
    /\ run[p].seen \subseteq Recorded
    /\ run[p].pc \notin {"load", "failed"} => asked[p] \subseteq Recorded \cup ToSet(run[p].plan)
    /\ run[p].pc = "check" => asked[p] \subseteq run[p].seen
    /\ run[p].pc = "ok" /\ start.table =>
         \A s \in Squashes : Replaces[s] \subseteq asked[p] => rows[s] > 0

SInv == /\ BInv
        /\ start.table => table
        /\ \A s \in Squash : rows[s] > 0 => Replaces[s] \subseteq Recorded
        /\ \A p \in Proc : Asked(p)

-----------------------------------------------------------------------------
(* What a command may yet make, were it asked for everything: the tables   *)
(* of the unmigrated apps from its next one on, and what its migration     *)
(* still brings, and all later ones.                                       *)
RestOf(v) == {Unmigrated[n] : n \in {n \in DOMAIN Unmigrated :
                \E m \in DOMAIN Unmigrated : v # <<>> /\ Unmigrated[m] = Head(v) /\ m <= n}}

Since(k) == UNION {Whole(j) : j \in {j \in Mig : j >= k}}
After(k) == UNION {Whole(j) : j \in {j \in Mig : j > k}}

Rest(r) == {Line(Head(r.plan))[i] : i \in {i \in DOMAIN Line(Head(r.plan)) : i > Past(r)}}

Ahead(r) ==
    CASE r.pc \in {"load", "sync"} -> Things
      [] r.pc = "syncing" -> RestOf(r.todo) \cup Since(0)
      [] r.pc \in {"ensure", "create"} -> Since(0)
      [] r.pc = "next" /\ r.plan # <<>> -> Since(Head(r.plan))
      [] r.pc \in {"apply", "finish"} -> Rest(r) \cup After(Head(r.plan))
      [] r.pc = "record" -> After(Head(r.plan))
      [] OTHER -> {}

BeforeTable(r) == r.pc \in {"load", "sync", "syncing", "ensure", "create"}

Taken(e) == e \in objects \/ \E q \in Proc : e \in run[q].made

(* A command that nobody is ahead of, and that cannot be refused.          *)
Leads(p) ==
    /\ run[p].pc # "failed"
    /\ \A e \in Ahead(run[p]) : ~Taken(e)
    /\ BeforeTable(run[p]) => ~table \/ start.table

(* Without transactions: a command that makes the rest of its migration,   *)
(* and one that finds its next object made.                                *)
Free(r, O) == Rest(r) \cap O = {}
Blocked(r, O) ==
    LET L == Line(Head(r.plan))
    IN  Past(r) + 1 \in DOMAIN L /\ L[Past(r) + 1] \in O

InMigration(r) == r.pc \in {"apply", "finish"}

(* A migration that is begun is done, or there is one command to do it.    *)
Begun(k) == Whole(k) \cap objects # {} =>
    /\ Line(k)[1] \in objects
    /\ \/ Whole(k) \subseteq objects
       \/ ~rollback /\ \E q \in Proc : /\ InMigration(run[q]) /\ Head(run[q].plan) = k
                                       /\ Free(run[q], objects)

SomeOf(k) == Whole(k) = {} \/ Whole(k) \cap objects # {}

Orderly ==
    /\ \A k \in Mig : Begun(k) /\ (rows[k] > 0 => SomeOf(k))
    /\ \A p \in Proc :
         /\ run[p].pc = "record" => SomeOf(Head(run[p].plan))
         /\ ~rollback /\ InMigration(run[p]) => Free(run[p], objects) \/ Blocked(run[p], objects)

(* The tables of syncApps are there when it is over, and the migrations    *)
(* table is created only where there was none.                             *)
Prepared(p) ==
    /\ p \in syncs /\ run[p].pc \notin {"load", "sync", "syncing", "failed"}
         => ToSet(Unmigrated) \subseteq objects
    /\ run[p].pc = "create" => ~start.table

OInv == /\ SInv
        /\ \A p \in Proc : Prepared(p)
        /\ faults = 0 /\ start.objects = {} => (\E p \in Proc : Leads(p)) /\ Orderly

-----------------------------------------------------------------------------
(* Sequences, and what the constants are.                                  *)
LEMMA HeadTail ==
    ASSUME NEW S, NEW v \in Seq(S), v # <<>>
    PROVE  /\ Len(v) \in Nat /\ Len(v) > 0 /\ DOMAIN v = 1..Len(v) /\ Head(v) = v[1] /\ Head(v) \in S
           /\ Tail(v) \in Seq(S) /\ Len(Tail(v)) = Len(v) - 1 /\ DOMAIN Tail(v) = 1..(Len(v) - 1)
           /\ \A i \in 1..(Len(v) - 1) : Tail(v)[i] = v[i + 1]
<1>1. Len(v) \in Nat /\ Len(v) > 0 /\ DOMAIN v = 1..Len(v)
  BY EmptySeq
<1>2. Tail(v) \in Seq(S) /\ Len(Tail(v)) = Len(v) - 1 /\ \A i \in 1..(Len(v) - 1) : Tail(v)[i] = v[i + 1]
  BY <1>1, HeadTailProperties
<1>3. DOMAIN Tail(v) = 1..(Len(v) - 1)
  BY <1>2
<1>4. Head(v) = v[1] /\ Head(v) \in S
  BY <1>1
<1> QED BY <1>1, <1>2, <1>3, <1>4

LEMMA FrontSet ==
    ASSUME NEW S, NEW v \in Seq(S), v # <<>>
    PROVE  ToSet(v) = {Head(v)} \cup ToSet(Tail(v))
<1>1. Len(v) \in Nat /\ Len(v) > 0 /\ DOMAIN v = 1..Len(v)
  BY HeadTail
<1>2. \A i \in 1..(Len(v) - 1) : Tail(v)[i] = v[i + 1]
  BY HeadTail
<1>3. DOMAIN Tail(v) = 1..(Len(v) - 1)
  BY HeadTail
<1>4. Head(v) = v[1]
  BY HeadTail
<1>5. ASSUME NEW i \in DOMAIN v PROVE v[i] \in {Head(v)} \cup ToSet(Tail(v))
  <2>1. CASE i = 1 BY <1>4, <2>1
  <2>2. CASE i # 1
    <3>1. i - 1 \in 1..(Len(v) - 1) /\ Tail(v)[i - 1] = v[i] BY <1>1, <1>2, <2>2
    <3> QED BY <3>1, <1>3 DEF ToSet
  <2> QED BY <2>1, <2>2
<1>6. ASSUME NEW i \in DOMAIN Tail(v) PROVE Tail(v)[i] \in ToSet(v)
  <2>1. i + 1 \in DOMAIN v /\ Tail(v)[i] = v[i + 1] BY <1>1, <1>2, <1>3
  <2> QED BY <2>1 DEF ToSet
<1>7. Head(v) \in ToSet(v)
  BY <1>1, <1>4 DEF ToSet
<1> QED BY <1>5, <1>6, <1>7 DEF ToSet

LEMMA Joined ==
    ASSUME NEW S, NEW v \in Seq(S), NEW w \in Seq(S)
    PROVE  /\ Len(v) \in Nat /\ Len(w) \in Nat
           /\ DOMAIN (v \o w) = 1..(Len(v) + Len(w))
           /\ \A i \in 1..Len(v) : (v \o w)[i] = v[i]
           /\ \A i \in 1..Len(w) : (v \o w)[Len(v) + i] = w[i]
           /\ ToSet(v \o w) = ToSet(v) \cup ToSet(w)
<1>1. /\ Len(v) \in Nat /\ DOMAIN v = 1..Len(v)
      /\ Len(w) \in Nat /\ DOMAIN w = 1..Len(w)
  OBVIOUS
<1>2. /\ DOMAIN (v \o w) = 1..(Len(v) + Len(w))
      /\ \A i \in 1..Len(v) : (v \o w)[i] = v[i]
      /\ \A i \in 1..Len(w) : (v \o w)[Len(v) + i] = w[i]
  OBVIOUS
<1>3. ASSUME NEW i \in DOMAIN (v \o w) PROVE (v \o w)[i] \in ToSet(v) \cup ToSet(w)
  <2>1. CASE i <= Len(v) BY <1>1, <1>2, <2>1 DEF ToSet
  <2>2. CASE i > Len(v)
    <3>1. i - Len(v) \in 1..Len(w) /\ i = Len(v) + (i - Len(v)) BY <1>1, <1>2, <2>2
    <3>2. (v \o w)[i] = w[i - Len(v)] BY <3>1, <1>2
    <3> QED BY <3>1, <3>2, <1>1 DEF ToSet
  <2> QED BY <1>1, <1>2, <2>1, <2>2
<1>4. ASSUME NEW i \in DOMAIN v PROVE v[i] \in ToSet(v \o w)
  <2>1. i \in DOMAIN (v \o w) /\ v[i] = (v \o w)[i] BY <1>1, <1>2
  <2> QED BY <2>1 DEF ToSet
<1>5. ASSUME NEW i \in DOMAIN w PROVE w[i] \in ToSet(v \o w)
  <2>1. Len(v) + i \in DOMAIN (v \o w) /\ w[i] = (v \o w)[Len(v) + i] BY <1>1, <1>2
  <2> QED BY <2>1 DEF ToSet
<1>6. ToSet(v \o w) = ToSet(v) \cup ToSet(w)
  BY <1>3, <1>4, <1>5 DEF ToSet
<1> QED BY <1>1, <1>2, <1>6

LEMMA Lines ==
    ASSUME NEW k \in Mig
    PROVE  /\ Statements[k] \in Seq(Whole(k)) /\ Deferred[k] \in Seq(Whole(k))
           /\ Len(Statements[k]) \in Nat /\ Len(Deferred[k]) \in Nat
           /\ DOMAIN Line(k) = 1..(Len(Statements[k]) + Len(Deferred[k]))
           /\ \A i \in 1..Len(Statements[k]) : Line(k)[i] = Statements[k][i]
           /\ \A i \in 1..Len(Deferred[k]) : Line(k)[Len(Statements[k]) + i] = Deferred[k][i]
           /\ \A i \in DOMAIN Line(k) : Line(k)[i] \in Whole(k)
           /\ \A e \in Whole(k) : \E i \in DOMAIN Line(k) : e = Line(k)[i]
           /\ Whole(k) \subseteq Things
<1>1. Statements[k] \in Seq(Whole(k)) /\ Deferred[k] \in Seq(Whole(k))
  BY FirstRunAssumption
<1>2. /\ Len(Statements[k]) \in Nat /\ Len(Deferred[k]) \in Nat
      /\ DOMAIN Line(k) = 1..(Len(Statements[k]) + Len(Deferred[k]))
      /\ \A i \in 1..Len(Statements[k]) : Line(k)[i] = Statements[k][i]
      /\ \A i \in 1..Len(Deferred[k]) : Line(k)[Len(Statements[k]) + i] = Deferred[k][i]
      /\ ToSet(Line(k)) = ToSet(Statements[k]) \cup ToSet(Deferred[k])
  <2> DEFINE v == Statements[k]
             w == Deferred[k]
             L == Line(k)
  <2>1. v \in Seq(Whole(k)) /\ w \in Seq(Whole(k)) BY <1>1
  <2>2. L = v \o w BY DEF Line
  <2> HIDE DEF v, w, L
  <2>3. /\ Len(v) \in Nat /\ Len(w) \in Nat
        /\ DOMAIN (v \o w) = 1..(Len(v) + Len(w))
        /\ \A i \in 1..Len(v) : (v \o w)[i] = v[i]
        /\ \A i \in 1..Len(w) : (v \o w)[Len(v) + i] = w[i]
        /\ ToSet(v \o w) = ToSet(v) \cup ToSet(w)
    BY ONLY <2>1, Joined
  <2>4. /\ Len(v) \in Nat /\ Len(w) \in Nat
        /\ DOMAIN L = 1..(Len(v) + Len(w))
        /\ \A i \in 1..Len(v) : L[i] = v[i]
        /\ \A i \in 1..Len(w) : L[Len(v) + i] = w[i]
        /\ ToSet(L) = ToSet(v) \cup ToSet(w)
    BY ONLY <2>2, <2>3, Zenon
  <2> QED BY <2>4 DEF v, w, L
<1>3. ToSet(Line(k)) = Whole(k)
  BY <1>2 DEF Whole
<1>4. Whole(k) = {Line(k)[i] : i \in DOMAIN Line(k)}
  BY <1>3, Zenon DEF ToSet
<1>5. Whole(k) \subseteq Things
  BY DEF Things
<1> QED BY <1>1, <1>2, <1>4, <1>5

(* What the constants give a command to do has its type.                   *)
LEMMA SeqOfThings ==
    /\ \A k \in Mig : Statements[k] \in Seq(Things) /\ Deferred[k] \in Seq(Things)
    /\ \A S \in SUBSET Things : Missing(S) \in Seq(Things)
    /\ \A S \in SUBSET Mig : Sorted(S) \in Seq(Mig)
<1>1. ASSUME NEW A, NEW B, A \subseteq B, NEW v \in Seq(A) PROVE v \in Seq(B)
  BY <1>1
<1>2. ToSet(Unmigrated) \subseteq Things
  BY DEF Things
<1>3. \A k \in Mig : Statements[k] \in Seq(Things) /\ Deferred[k] \in Seq(Things)
  BY <1>1, Lines
<1>4. \A S \in SUBSET Things : Missing(S) \in Seq(Things)
  BY <1>1, <1>2, OrderAssumption
<1>5. ASSUME NEW S \in SUBSET Mig PROVE Sorted(S) \in Seq(Mig)
  <2>1. S \in SUBSET (Mig \cup Squash) OBVIOUS
  <2>2. Sorted(S) \in Seq(S) BY <2>1, OrderAssumption
  <2> QED BY <1>1, <2>2
<1> QED BY <1>3, <1>4, <1>5

-----------------------------------------------------------------------------
(* The first invariant, by the command that moves: the others stay what    *)
(* they are as objects are only added.                                     *)
LEMMA Kept ==
    ASSUME BInv, NEW p \in Proc, NEW r \in Run, run' = [run EXCEPT ![p] = r],
           Planned(r), Working(r, objects'), ~rollback => r.made = {},
           objects \subseteq objects', objects' \subseteq Things,
           table' \in BOOLEAN, faults' \in Nat, rows' \in [Mig \cup Squash -> Nat],
           UNCHANGED <<rollback, asked, soft, syncs, start>>
    PROVE  BInv'
<1>1. TypeOK'
  BY DEF BInv, TypeOK
<1>2. ASSUME NEW q \in Proc
      PROVE  (/\ Planned(run[q]) /\ Working(run[q], objects)
              /\ ~rollback => run[q].made = {})'
  <2>1. CASE q = p
    <3>1. run'[q] = r BY <2>1 DEF BInv, TypeOK
    <3> QED BY <3>1
  <2>2. CASE q # p
    <3>1. run'[q] = run[q] BY <2>2 DEF BInv, TypeOK
    <3>2. Planned(run[q]) /\ Working(run[q], objects) /\ (~rollback => run[q].made = {}) BY DEF BInv
    <3>3. Working(run[q], objects') BY <3>2 DEF Working, Syncing, Applying
    <3> QED BY <3>1, <3>2, <3>3
  <2> QED BY <2>1, <2>2
<1> QED BY <1>1, <1>2 DEF BInv

(* A command that is neither in a migration nor at the tables of syncApps. *)
LEMMA Elsewhere ==
    ASSUME NEW r, NEW O, r.pc \notin {"syncing", "apply", "finish"}, r.made = {}
    PROVE  Working(r, O)
BY DEF Working

LEMMA InitBase == Init => BInv
<1> SUFFICES ASSUME Init PROVE BInv
  OBVIOUS
<1>1. PICK a \in Askings : asked = a.asked /\ soft = a.soft /\ syncs = a.syncs
  BY DEF Init
<1>2. PICK s \in Starts : /\ objects = s.objects /\ table = s.table /\ start = s
                          /\ rows = [k \in Mig \cup Squash |-> IF k \in s.rows THEN 1 ELSE 0]
  BY DEF Init
<1>3. NotStarted \in Run
  BY DEF NotStarted, Run, PC
<1>4. a \in [asked : [Proc -> SUBSET Mig], soft : SUBSET Proc, syncs : SUBSET Proc]
  BY FirstRunAssumption
<1>5. s \in [objects : SUBSET Things, table : BOOLEAN, rows : SUBSET (Mig \cup Squash)]
  BY FirstRunAssumption
<1>6. TypeOK
  BY <1>1, <1>2, <1>3, <1>4, <1>5 DEF TypeOK, Init
<1>7. ASSUME NEW p \in Proc
      PROVE  Planned(run[p]) /\ Working(run[p], objects) /\ run[p].made = {}
  <2>1. run[p] = NotStarted BY DEF Init
  <2>2. NotStarted.pc = "load" /\ NotStarted.made = {} /\ NotStarted.plan = <<>> BY DEF NotStarted
  <2>3. Planned(NotStarted) BY <2>2 DEF Planned, Increasing
  <2> QED BY <2>1, <2>2, <2>3, Elsewhere
<1> QED BY <1>6, <1>7 DEF BInv

LEMMA SortedPlan ==
    ASSUME NEW S \in SUBSET Mig
    PROVE  Sorted(S) \in Seq(Mig) /\ ToSet(Sorted(S)) = S /\ Increasing(Sorted(S))
<1>1. S \in SUBSET (Mig \cup Squash)
  OBVIOUS
<1>2. ToSet(Sorted(S)) = S /\ Increasing(Sorted(S))
  BY <1>1, OrderAssumption DEF Increasing
<1> QED BY <1>2, SeqOfThings

LEMMA TailIncreasing ==
    ASSUME NEW v \in Seq(Mig), v # <<>>, Increasing(v)
    PROVE  /\ Tail(v) \in Seq(Mig) /\ Increasing(Tail(v)) /\ Head(v) \in Mig
           /\ Tail(v) # <<>> => Head(Tail(v)) > Head(v) /\ Head(Tail(v)) \in Mig
<1>1. /\ Len(v) \in Nat /\ Len(v) > 0 /\ DOMAIN v = 1..Len(v) /\ Head(v) = v[1] /\ Head(v) \in Mig
      /\ Tail(v) \in Seq(Mig) /\ DOMAIN Tail(v) = 1..(Len(v) - 1)
      /\ \A i \in 1..(Len(v) - 1) : Tail(v)[i] = v[i + 1]
  BY HeadTail
<1>2. Increasing(Tail(v))
  <2> SUFFICES ASSUME NEW i \in 1..(Len(v) - 1), NEW j \in 1..(Len(v) - 1), i < j
               PROVE  Tail(v)[i] < Tail(v)[j]
    BY <1>1 DEF Increasing
  <2>1. i + 1 \in DOMAIN v /\ j + 1 \in DOMAIN v /\ i + 1 < j + 1 BY <1>1
  <2>2. v[i + 1] < v[j + 1] BY <2>1 DEF Increasing
  <2> QED BY <1>1, <2>2
<1>3. ASSUME Tail(v) # <<>> PROVE Head(Tail(v)) > Head(v) /\ Head(Tail(v)) \in Mig
  <2>1. 1 \in DOMAIN Tail(v) /\ Head(Tail(v)) = Tail(v)[1] /\ Head(Tail(v)) \in Mig BY <1>1, <1>3, HeadTail
  <2>2. Head(Tail(v)) = v[2] /\ 2 \in DOMAIN v BY <1>1, <2>1
  <2>3. v[1] < v[2] BY <1>1, <2>2 DEF Increasing
  <2> QED BY <1>1, <2>1, <2>2, <2>3, FirstRunAssumption
<1> QED BY <1>1, <1>2, <1>3

LEMMA Begins ==
    ASSUME TypeOK, NEW r \in Run, Increasing(r.plan), r.made = {}
    PROVE  /\ MigrateTo(r) \in Run /\ Planned(MigrateTo(r))
           /\ MigrateTo(r).plan = r.plan /\ MigrateTo(r).todo = r.todo
           /\ MigrateTo(r).made = {} /\ MigrateTo(r).seen = r.seen
           /\ r.plan # <<>> => MigrateTo(r).pc = "ensure"
           /\ r.plan = <<>> => MigrateTo(r).pc \in {"read", "ok"}
           /\ MigrateTo(r).pc = "ok" => ~table
<1>1. r.has \/ table \in BOOLEAN
  BY DEF TypeOK, Run
<1>2. /\ MigrateTo(r) \in Run
      /\ MigrateTo(r).plan = r.plan /\ MigrateTo(r).todo = r.todo
      /\ MigrateTo(r).made = {} /\ MigrateTo(r).seen = r.seen
      /\ MigrateTo(r).pc = IF r.plan # <<>> THEN "ensure" ELSE IF r.has \/ table THEN "read" ELSE "ok"
  BY <1>1 DEF MigrateTo, Run, PC
<1>3. Planned(MigrateTo(r))
  BY <1>2 DEF Planned
<1> QED BY <1>2, <1>3

(* Entering a migration and going on to the next one.                      *)
LEMMA EntersApply ==
    ASSUME NEW r \in Run, NEW O, Increasing(r.plan), r.plan # <<>>, r.made = {}, r.pc = "apply",
           r.todo = Statements[Head(r.plan)]
    PROVE  Planned(r) /\ Working(r, O) /\ Past(r) = 0
<1>1. Head(r.plan) \in Mig
  BY TailIncreasing DEF Run
<1> DEFINE k == Head(r.plan)
<1>2. Past(r) = 0
  BY <1>1, Lines DEF Past
<1>3. /\ DOMAIN r.todo = 1..Len(Statements[k]) /\ Len(r.todo) = Len(Statements[k])
      /\ Len(Statements[k]) \in Nat
      /\ \A i \in 1..Len(Statements[k]) : Line(k)[i] = Statements[k][i]
      /\ \A i \in DOMAIN Line(k) : i > 0
  <2>1. Statements[k] \in Seq(Whole(k)) BY <1>1, Lines
  <2>2. DOMAIN Line(k) = 1..(Len(Statements[k]) + Len(Deferred[k])) /\ Len(Deferred[k]) \in Nat
    BY <1>1, Lines
  <2>3. \A i \in 1..Len(Statements[k]) : Line(k)[i] = Statements[k][i] BY <1>1, Lines
  <2>4. r.todo = Statements[k] OBVIOUS
  <2> HIDE DEF k
  <2>5. DOMAIN Statements[k] = 1..Len(Statements[k]) /\ Len(Statements[k]) \in Nat BY <2>1
  <2>6. \A i \in DOMAIN Line(k) : i > 0 BY <2>2, <2>5
  <2> QED BY ONLY <2>3, <2>4, <2>5, <2>6
<1>4. Applying(r, O)
  BY <1>2, <1>3 DEF Applying
<1> QED BY <1>2, <1>4 DEF Working, Planned

LEMMA LoadBase ==
    ASSUME BInv, NEW p \in Proc, Load(p)
    PROVE  BInv'
<1> DEFINE plan == Sorted(asked[p] \ Recorded)
           r == [run[p] EXCEPT !.plan = plan, !.has = table]
           R == IF p \in syncs THEN [r EXCEPT !.pc = "sync"] ELSE MigrateTo(r)
<1>1. asked[p] \ Recorded \in SUBSET Mig
  BY DEF BInv, TypeOK
<1>2. plan \in Seq(Mig) /\ Increasing(plan)
  BY <1>1, SortedPlan
<1>3. run[p] \in Run /\ run[p].made = {} /\ run[p].pc = "load" /\ table \in BOOLEAN
  BY DEF BInv, TypeOK, Load, Working
<1>4. run' = [run EXCEPT ![p] = R]
  BY DEF Load, Become
<1> HIDE DEF plan
<1>5. r \in Run /\ r.made = {} /\ r.plan = plan
  BY <1>2, <1>3 DEF Run, PC
<1>6. R \in Run /\ Planned(R) /\ R.made = {} /\ R.pc \notin {"syncing", "apply", "finish"}
  <2>1. CASE p \in syncs
    <3>1. R = [r EXCEPT !.pc = "sync"] BY <2>1
    <3>2. R \in Run /\ R.made = {} /\ R.pc = "sync" /\ R.plan = plan
      BY <3>1, <1>5 DEF Run, PC
    <3> QED BY <3>2, <1>2 DEF Planned
  <2>2. CASE p \notin syncs
    <3>1. R = MigrateTo(r) BY <2>2
    <3> QED BY <3>1, <1>2, <1>5, Begins DEF BInv
  <2> QED BY <2>1, <2>2
<1> HIDE DEF R
<1>7. Working(R, objects')
  BY <1>6, Elsewhere
<1> QED BY <1>4, <1>6, <1>7, Kept DEF Load, BInv, TypeOK

LEMMA SyncBase ==
    ASSUME BInv, NEW p \in Proc, syncApps(p)
    PROVE  BInv'
<1> DEFINE R == [run[p] EXCEPT !.pc = "syncing", !.todo = Missing(objects)]
<1>1. run' = [run EXCEPT ![p] = R] /\ run[p].pc = "sync" /\ objects' = objects
  BY DEF syncApps, Become
<1>2. run[p] \in Run /\ run[p].made = {} /\ Increasing(run[p].plan)
  BY <1>1 DEF BInv, TypeOK, Working, Planned
<1>3. objects \in SUBSET Things
  BY DEF BInv, TypeOK
<1>4. /\ Missing(objects) \in Seq(Things) /\ Missing(objects) \in Seq(ToSet(Unmigrated))
      /\ ToSet(Missing(objects)) = ToSet(Unmigrated) \ objects
      /\ InOrder(Missing(objects))
  BY <1>3, OrderAssumption, SeqOfThings DEF InOrder
<1>5. /\ R \in Run /\ R.made = {} /\ R.pc = "syncing" /\ R.plan = run[p].plan
      /\ R.todo = Missing(objects)
  BY <1>2, <1>4 DEF Run, PC
<1> HIDE DEF R
<1>6. Syncing(R, objects)
  BY <1>4, <1>5 DEF Syncing
<1>7. Planned(R) /\ Working(R, objects')
  BY <1>1, <1>2, <1>5, <1>6 DEF Planned, Working
<1> QED BY <1>1, <1>5, <1>7, Kept DEF syncApps, BInv, TypeOK

LEMMA SyncedBase ==
    ASSUME BInv, NEW p \in Proc, Synced(p)
    PROVE  BInv'
<1> DEFINE r == [run[p] EXCEPT !.made = {}]
           R == MigrateTo(r)
<1>1. run' = [run EXCEPT ![p] = R] /\ objects' = objects \cup run[p].made
  BY DEF Synced, Become
<1>2. run[p] \in Run /\ Increasing(run[p].plan)
  BY DEF BInv, TypeOK, Planned
<1>3. r \in Run /\ r.made = {} /\ r.plan = run[p].plan
  BY <1>2 DEF Run, PC
<1> HIDE DEF r
<1>4. R \in Run /\ Planned(R) /\ R.made = {} /\ R.pc \notin {"syncing", "apply", "finish"}
  BY <1>2, <1>3, Begins DEF BInv
<1>5. objects' \subseteq Things
  BY <1>1, <1>2 DEF BInv, TypeOK, Run
<1> HIDE DEF R
<1>6. Working(R, objects')
  BY <1>4, Elsewhere
<1> QED BY <1>1, <1>4, <1>5, <1>6, Kept DEF Synced, BInv, TypeOK

LEMMA TableBase ==
    ASSUME BInv, NEW p \in Proc, FindTable(p) \/ CreateTable(p)
    PROVE  BInv'
<1> DEFINE R == run'[p]
<1>1. run[p] \in Run /\ Planned(run[p]) /\ run[p].made = {} /\ table \in BOOLEAN
  BY DEF BInv, TypeOK, Working, FindTable, CreateTable
<1>2. /\ run' = [run EXCEPT ![p] = R] /\ R \in Run /\ R.plan = run[p].plan /\ R.made = {}
      /\ R.pc \in {"next", "create"}
  <2>1. CASE FindTable(p)
    <3> DEFINE r == [run[p] EXCEPT !.has = run[p].has \/ table,
                                   !.pc = IF run[p].has \/ table THEN "next" ELSE "create"]
    <3>1. run' = [run EXCEPT ![p] = r] /\ R = r BY <2>1 DEF FindTable, Become, BInv, TypeOK
    <3>2. run[p].has \/ table \in BOOLEAN BY <1>1 DEF Run
    <3>3. r \in Run /\ r.plan = run[p].plan /\ r.made = {} /\ r.pc \in {"next", "create"}
      BY <1>1, <3>2 DEF Run, PC
    <3> QED BY <3>1, <3>3
  <2>2. CASE CreateTable(p)
    <3> DEFINE r == [run[p] EXCEPT !.pc = "next", !.has = TRUE]
    <3>1. run' = [run EXCEPT ![p] = r] /\ R = r BY <2>2 DEF CreateTable, Become, BInv, TypeOK
    <3>2. r \in Run /\ r.plan = run[p].plan /\ r.made = {} /\ r.pc = "next"
      BY <1>1 DEF Run, PC
    <3> QED BY <3>1, <3>2
  <2> QED BY <2>1, <2>2
<1> HIDE DEF R
<1>3. Planned(R) /\ Working(R, objects')
  BY <1>1, <1>2, Elsewhere DEF Planned
<1>4. table' \in BOOLEAN
  BY DEF FindTable, CreateTable, BInv, TypeOK
<1> QED BY <1>2, <1>3, <1>4, Kept DEF FindTable, CreateTable, BInv, TypeOK

LEMMA NextBase ==
    ASSUME BInv, NEW p \in Proc, NextMigration(p)
    PROVE  BInv'
<1> DEFINE k == Head(run[p].plan)
           A == [run[p] EXCEPT !.pc = "record"]
           B == [run[p] EXCEPT !.pc = "apply", !.todo = Statements[k]]
<1>1. run[p] \in Run /\ Planned(run[p]) /\ run[p].made = {} /\ run[p].plan # <<>>
  BY DEF BInv, TypeOK, Working, NextMigration
<1>2. run' = [run EXCEPT ![p] = A] \/ run' = [run EXCEPT ![p] = B]
  BY DEF NextMigration, Become
<1>3. k \in Mig /\ Increasing(run[p].plan)
  BY <1>1, TailIncreasing DEF Run, Planned
<1>4. A \in Run /\ A.plan = run[p].plan /\ A.made = {} /\ A.pc = "record"
  BY <1>1 DEF Run, PC
<1>5. Statements[k] \in Seq(Things)
  BY <1>3, SeqOfThings
<1>6. /\ B \in Run /\ B.plan = run[p].plan /\ B.made = {} /\ B.pc = "apply"
      /\ B.todo = Statements[k]
  BY <1>1, <1>5 DEF Run, PC
<1>7. Planned(A) /\ Working(A, objects')
  BY <1>1, <1>4, Elsewhere DEF Planned
<1>8. Planned(B) /\ Working(B, objects')
  BY <1>1, <1>3, <1>6, EntersApply
<1> HIDE DEF A, B
<1>9. CASE run' = [run EXCEPT ![p] = A]
  BY <1>9, <1>4, <1>7, Kept DEF NextMigration, BInv, TypeOK
<1>10. CASE run' = [run EXCEPT ![p] = B]
  BY <1>10, <1>6, <1>8, Kept DEF NextMigration, BInv, TypeOK
<1> QED BY <1>2, <1>9, <1>10

(* A command in a migration is at the statement after those it is past.    *)
LEMMA Place ==
    ASSUME NEW r \in Run, NEW O, r.pc \in {"apply", "finish"}, r.plan # <<>>, Applying(r, O)
    PROVE  /\ Head(r.plan) \in Mig /\ Past(r) \in Nat
           /\ r.todo # <<>> => /\ Past(r) + 1 \in DOMAIN Line(Head(r.plan))
                               /\ Head(r.todo) = Line(Head(r.plan))[Past(r) + 1]
<1> DEFINE k == Head(r.plan)
           a == Len(Statements[k])
           b == Len(Deferred[k])
           n == Len(r.todo)
<1>1. k \in Mig /\ r.todo \in Seq(Things) /\ n \in Nat
  BY HeadTail DEF Run
<1>2. a \in Nat /\ b \in Nat /\ DOMAIN Line(k) = 1..(a + b)
  BY <1>1, Lines
<1>3. /\ n <= (IF r.pc = "apply" THEN a ELSE b)
      /\ \A i \in DOMAIN r.todo : r.todo[i] = Line(k)[Past(r) + i]
  BY DEF Applying
<1>4. Past(r) = a - n + (IF r.pc = "finish" THEN b ELSE 0)
  BY Zenon DEF Past
<1>5. r.todo # <<>> => n > 0 /\ 1 \in DOMAIN r.todo /\ Head(r.todo) = r.todo[1]
  BY <1>1, HeadTail
<1> HIDE DEF k, a, b, n
<1>6. Past(r) \in Nat /\ (n > 0 => Past(r) + 1 \in 1..(a + b))
  <2>1. CASE r.pc = "apply"
    <3>1. n <= a /\ Past(r) = a - n + 0 BY <2>1, <1>3, <1>4
    <3> QED BY ONLY <1>1, <1>2, <3>1
  <2>2. CASE r.pc = "finish"
    <3>1. n <= b /\ Past(r) = a - n + b BY <2>2, <1>3, <1>4
    <3> QED BY ONLY <1>1, <1>2, <3>1
  <2> QED BY <2>1, <2>2
<1> QED BY <1>1, <1>2, <1>3, <1>5, <1>6 DEF k

(* After a statement it is past one more.                                  *)
LEMMA Advances ==
    ASSUME NEW r \in Run, NEW R \in Run, NEW O, NEW Q, r.pc \in {"apply", "finish"},
           r.plan # <<>>, Applying(r, O), r.todo # <<>>,
           R.pc = r.pc, R.plan = r.plan, R.todo = Tail(r.todo),
           R.made \subseteq r.made \cup {Head(r.todo)},
           O \cup r.made \cup {Head(r.todo)} \subseteq Q \cup R.made
    PROVE  Applying(R, Q) /\ Past(R) = Past(r) + 1
<1> DEFINE k == Head(r.plan)
           a == Len(Statements[k])
           b == Len(Deferred[k])
           n == Len(r.todo)
<1>1. k \in Mig /\ r.todo \in Seq(Things) /\ r.plan \in Seq(Mig)
  BY HeadTail DEF Run
<1>2. /\ a \in Nat /\ b \in Nat /\ DOMAIN Line(k) = 1..(a + b)
      /\ \A i \in DOMAIN Line(k) : Line(k)[i] \in Whole(k)
  BY <1>1, Lines
<1>3. /\ Len(r.todo) \in Nat /\ Len(r.todo) > 0 /\ DOMAIN r.todo = 1..Len(r.todo)
      /\ Len(Tail(r.todo)) = Len(r.todo) - 1 /\ DOMAIN Tail(r.todo) = 1..(Len(r.todo) - 1)
      /\ \A i \in 1..(Len(r.todo) - 1) : Tail(r.todo)[i] = r.todo[i + 1]
  BY <1>1, HeadTail
<1>4. /\ r.made \subseteq Whole(k)
      /\ Len(r.todo) <= (IF r.pc = "apply" THEN a ELSE b)
      /\ \A i \in DOMAIN r.todo : r.todo[i] = Line(k)[Past(r) + i]
      /\ \A i \in DOMAIN Line(k) : i <= Past(r) => Line(k)[i] \in O \cup r.made
  BY DEF Applying
<1>5. /\ Past(r) = a - n + (IF r.pc = "finish" THEN b ELSE 0)
      /\ Past(R) = a - Len(R.todo) + (IF r.pc = "finish" THEN b ELSE 0)
  BY Zenon DEF Past
<1>6. Past(r) \in Nat /\ Past(r) + 1 \in DOMAIN Line(k) /\ Head(r.todo) = Line(k)[Past(r) + 1]
  BY Place
<1>7. Past(R) = Past(r) + 1
  <2>1. a \in Nat /\ b \in Nat /\ n \in Nat /\ Len(R.todo) = n - 1 BY <1>2, <1>3
  <2> HIDE DEF a, b, n
  <2> QED BY ONLY <1>5, <2>1
<1>8. R.made \subseteq Whole(k)
  BY <1>2, <1>4, <1>6
<1>9. Len(R.todo) <= (IF R.pc = "apply" THEN a ELSE b)
  BY <1>2, <1>3, <1>4
<1>10. ASSUME NEW i \in DOMAIN R.todo PROVE R.todo[i] = Line(k)[Past(R) + i]
  <2>1. i \in 1..(Len(r.todo) - 1) /\ R.todo[i] = r.todo[i + 1] BY <1>3
  <2>2. i + 1 \in DOMAIN r.todo BY <1>3, <2>1
  <2>3. R.todo[i] = Line(k)[Past(r) + (i + 1)] BY <1>4, <2>1, <2>2
  <2>4. Past(r) + (i + 1) = Past(R) + i BY <1>6, <1>7, <2>1
  <2> QED BY <2>3, <2>4
<1>11. ASSUME NEW i \in DOMAIN Line(k), i <= Past(R) PROVE Line(k)[i] \in Q \cup R.made
  <2>1. i <= Past(r) \/ i = Past(r) + 1 BY <1>2, <1>6, <1>7, <1>11
  <2> QED BY <1>4, <1>6, <2>1
<1>12. Applying(R, Q)
  <2>1. Head(R.plan) = k OBVIOUS
  <2>2. Len(R.todo) <= Len(IF R.pc = "apply" THEN Statements[k] ELSE Deferred[k]) BY <1>9
  <2> HIDE DEF k
  <2> QED BY <1>8, <1>10, <1>11, <2>1, <2>2 DEF Applying
<1> QED BY <1>7, <1>12

(* The same among the tables of syncApps.                                  *)
LEMMA AdvancesSync ==
    ASSUME NEW r, NEW R, NEW O, NEW Q, Syncing(r, O), r.todo # <<>>,
           R.todo = Tail(r.todo), R.made \subseteq r.made \cup {Head(r.todo)},
           O \cup r.made \cup {Head(r.todo)} \subseteq Q \cup R.made
    PROVE  Syncing(R, Q)
<1>1. r.todo \in Seq(ToSet(Unmigrated)) /\ InOrder(r.todo)
  BY DEF Syncing
<1> DEFINE v == r.todo
<1>2. /\ Len(v) \in Nat /\ DOMAIN v = 1..Len(v) /\ Head(v) \in ToSet(Unmigrated)
      /\ Tail(v) \in Seq(ToSet(Unmigrated)) /\ DOMAIN Tail(v) = 1..(Len(v) - 1)
      /\ \A i \in 1..(Len(v) - 1) : Tail(v)[i] = v[i + 1]
  BY <1>1, HeadTail
<1>3. ToSet(v) = {Head(v)} \cup ToSet(Tail(v))
  BY <1>1, FrontSet
<1> HIDE DEF v
<1>4. InOrder(Tail(v))
  <2> SUFFICES ASSUME NEW i \in DOMAIN Tail(v), NEW j \in DOMAIN Tail(v),
                      NEW m \in DOMAIN Unmigrated, NEW n \in DOMAIN Unmigrated,
                      i < j, Tail(v)[i] = Unmigrated[m], Tail(v)[j] = Unmigrated[n]
               PROVE  m < n
    BY DEF InOrder
  <2>1. i + 1 \in DOMAIN v /\ j + 1 \in DOMAIN v /\ i + 1 < j + 1 BY <1>2
  <2>2. v[i + 1] = Unmigrated[m] /\ v[j + 1] = Unmigrated[n] BY <1>2
  <2>3. InOrder(v) BY <1>1 DEF v
  <2> QED BY <2>1, <2>2, <2>3 DEF InOrder
<1>5. /\ r.made \subseteq ToSet(Unmigrated)
      /\ ToSet(Unmigrated) \subseteq O \cup r.made \cup ToSet(v)
  BY DEF Syncing, v
<1>6. R.todo = Tail(v) /\ R.made \subseteq r.made \cup {Head(v)}
      /\ O \cup r.made \cup {Head(v)} \subseteq Q \cup R.made
  BY DEF v
<1> QED BY ONLY <1>2, <1>3, <1>4, <1>5, <1>6 DEF Syncing

(* What Execute does, the command's own part.                              *)
LEMMA Executes ==
    ASSUME BInv, NEW p \in Proc, Execute(p)
    PROVE  LET e == Head(run[p].todo)
               R == run'[p]
           IN  /\ run' = [run EXCEPT ![p] = R] /\ R \in Run
               /\ R.pc = run[p].pc /\ R.plan = run[p].plan /\ R.todo = Tail(run[p].todo)
               /\ R.seen = run[p].seen
               /\ R.made = IF rollback THEN run[p].made \cup {e} ELSE run[p].made
               /\ objects' = IF rollback THEN objects ELSE objects \cup {e}
               /\ e \in Things /\ e \notin objects /\ \A q \in Proc : e \notin run[q].made
               /\ run[p].todo # <<>> /\ run[p].pc \in {"syncing", "apply", "finish"}
<1> DEFINE e == Head(run[p].todo)
           M == IF rollback THEN run[p].made \cup {e} ELSE run[p].made
           R == [run[p] EXCEPT !.todo = Tail(run[p].todo), !.made = M]
<1>1. /\ run' = [run EXCEPT ![p] = R]
      /\ objects' = IF rollback THEN objects ELSE objects \cup {e}
      /\ ~Held(p, e) /\ e \notin objects \cup run[p].made
      /\ run[p].todo # <<>> /\ run[p].pc \in {"syncing", "apply", "finish"}
  BY DEF Execute, Makes, Become
<1>2. run[p] \in Run /\ run[p].todo \in Seq(Things) /\ run[p].made \subseteq Things
  BY DEF BInv, TypeOK, Run
<1>3. e \in Things /\ Tail(run[p].todo) \in Seq(Things)
  BY <1>1, <1>2, HeadTail
<1>4. M \in SUBSET Things
  BY <1>2, <1>3
<1> HIDE DEF M, e
<1>5. /\ R \in Run /\ R.pc = run[p].pc /\ R.plan = run[p].plan /\ R.todo = Tail(run[p].todo)
      /\ R.seen = run[p].seen /\ R.made = M
  BY <1>2, <1>3, <1>4 DEF Run
<1>6. run'[p] = R
  BY <1>1 DEF BInv, TypeOK
<1>7. \A q \in Proc : e \notin run[q].made
  BY <1>1 DEF Held
<1> HIDE DEF R
<1> QED BY <1>1, <1>3, <1>5, <1>6, <1>7 DEF M, e

LEMMA ExecuteBase ==
    ASSUME BInv, NEW p \in Proc, Execute(p)
    PROVE  BInv'
<1> DEFINE r == run[p]
           R == run'[p]
           e == Head(r.todo)
<1>1. /\ run' = [run EXCEPT ![p] = R] /\ R \in Run
      /\ R.pc = r.pc /\ R.plan = r.plan /\ R.todo = Tail(r.todo)
      /\ R.made = IF rollback THEN r.made \cup {e} ELSE r.made
      /\ objects' = IF rollback THEN objects ELSE objects \cup {e}
      /\ e \in Things /\ r.todo # <<>> /\ r.pc \in {"syncing", "apply", "finish"}
  BY Executes
<1>2. r \in Run /\ Planned(r) /\ Working(r, objects) /\ (~rollback => r.made = {})
  BY DEF BInv, TypeOK
<1> HIDE DEF r, R
<1>3. /\ R.made \subseteq r.made \cup {e}
      /\ objects \cup r.made \cup {e} \subseteq objects' \cup R.made
  BY <1>1
<1> HIDE DEF e
<1>4. Planned(R)
  BY <1>1, <1>2 DEF Planned
<1>5. Working(R, objects')
  <2>1. CASE r.pc = "syncing"
    <3>1. Syncing(R, objects') BY <1>1, <1>2, <1>3, <2>1, AdvancesSync DEF Working, e
    <3> QED BY <3>1, <1>1, <2>1 DEF Working
  <2>2. CASE r.pc \in {"apply", "finish"}
    <3>1. r.plan # <<>> /\ Applying(r, objects) BY <1>2, <2>2 DEF Planned, Working
    <3>2. Applying(R, objects') BY <1>1, <1>2, <1>3, <2>2, <3>1, Advances DEF e
    <3> QED BY <3>2, <1>1, <2>2 DEF Working
  <2> QED BY <1>1, <2>1, <2>2
<1>6. objects \subseteq objects' /\ objects' \subseteq Things
  BY <1>1 DEF BInv, TypeOK
<1>7. ~rollback => R.made = {}
  BY <1>1, <1>2
<1> QED BY <1>1, <1>4, <1>5, <1>6, <1>7, Kept DEF Execute, BInv, TypeOK

(* Statements done: on to the deferred ones, at the same place.            *)
LEMMA EntersFinish ==
    ASSUME NEW r \in Run, NEW R \in Run, NEW O, r.pc = "apply", r.todo = <<>>, r.plan # <<>>,
           Applying(r, O), R.pc = "finish", R.plan = r.plan, R.made = r.made,
           R.todo = Deferred[Head(r.plan)]
    PROVE  Applying(R, O) /\ Past(R) = Past(r) /\ Past(r) = Len(Statements[Head(r.plan)])
<1> DEFINE k == Head(r.plan)
           a == Len(Statements[k])
           b == Len(Deferred[k])
<1>1. k \in Mig
  BY HeadTail DEF Run
<1>2. /\ a \in Nat /\ b \in Nat /\ Deferred[k] \in Seq(Whole(k))
      /\ \A i \in 1..b : Line(k)[a + i] = Deferred[k][i]
  BY <1>1, Lines
<1>3. Past(r) = a - Len(r.todo) + 0 /\ Past(R) = a - b + b /\ Len(r.todo) = 0
  BY DEF Past
<1>4. Past(r) = a /\ Past(R) = a
  <2> HIDE DEF a, b
  <2> QED BY ONLY <1>2, <1>3
<1>5. DOMAIN Deferred[k] = 1..b
  BY <1>2
<1>6. /\ r.made \subseteq Whole(k)
      /\ \A i \in DOMAIN Line(k) : i <= a => Line(k)[i] \in O \cup r.made
  BY <1>4 DEF Applying
<1>7. R.todo = Deferred[k] /\ Head(R.plan) = k
  OBVIOUS
<1>8. Len(R.todo) <= Len(Deferred[k])
  BY <1>2
<1> HIDE DEF k, a, b
<1>9. \A i \in DOMAIN R.todo : R.todo[i] = Line(k)[Past(R) + i]
  BY <1>2, <1>4, <1>5, <1>7
<1>10. Applying(R, O)
  BY <1>4, <1>6, <1>7, <1>8, <1>9 DEF Applying
<1> QED BY <1>4, <1>10 DEF a, k

(* A migration with nothing left to do is there whole.                     *)
LEMMA Complete ==
    ASSUME NEW r \in Run, NEW O, r.pc = "finish", r.todo = <<>>, r.plan # <<>>, Applying(r, O)
    PROVE  /\ Head(r.plan) \in Mig /\ Whole(Head(r.plan)) \subseteq O \cup r.made
           /\ \A i \in DOMAIN Line(Head(r.plan)) : i <= Past(r)
<1> DEFINE k == Head(r.plan)
           a == Len(Statements[k])
           b == Len(Deferred[k])
<1>1. k \in Mig
  BY HeadTail DEF Run
<1>2. /\ a \in Nat /\ b \in Nat /\ DOMAIN Line(k) = 1..(a + b)
      /\ \A e \in Whole(k) : \E i \in DOMAIN Line(k) : e = Line(k)[i]
  BY <1>1, Lines
<1>3. Past(r) = a - Len(r.todo) + b /\ Len(r.todo) = 0
  BY DEF Past
<1>4. \A i \in DOMAIN Line(k) : i <= Past(r) => Line(k)[i] \in O \cup r.made
  BY DEF Applying
<1> HIDE DEF a, b, k
<1>5. \A i \in DOMAIN Line(k) : i <= Past(r)
  BY ONLY <1>2, <1>3
<1>6. Whole(k) \subseteq O \cup r.made
  BY <1>2, <1>4, <1>5
<1> QED BY <1>1, <1>5, <1>6 DEF k

LEMMA FinishBase ==
    ASSUME BInv, NEW p \in Proc, Finish(p)
    PROVE  BInv'
<1> DEFINE r == run[p]
           k == Head(r.plan)
           R == [run[p] EXCEPT !.pc = "finish", !.todo = Deferred[Head(run[p].plan)]]
<1>1. run' = [run EXCEPT ![p] = R] /\ r.pc = "apply" /\ r.todo = <<>> /\ objects' = objects
  BY DEF Finish, Become
<1>2. r \in Run /\ Planned(r) /\ Working(r, objects) /\ (~rollback => r.made = {})
  BY DEF BInv, TypeOK
<1>3. r.plan # <<>> /\ Applying(r, objects)
  BY <1>1, <1>2 DEF Planned, Working
<1>4. k \in Mig
  BY <1>2, <1>3, HeadTail DEF Run
<1>5. Deferred[k] \in Seq(Things)
  BY <1>4, SeqOfThings
<1>6. R \in Run /\ R.pc = "finish" /\ R.plan = r.plan /\ R.made = r.made /\ R.todo = Deferred[k]
  BY <1>2, <1>5 DEF Run, PC
<1> HIDE DEF R, r
<1>7. Applying(R, objects')
  BY <1>1, <1>2, <1>3, <1>6, EntersFinish
<1>8. Planned(R) /\ Working(R, objects') /\ (~rollback => R.made = {})
  BY <1>2, <1>3, <1>6, <1>7 DEF Planned, Working
<1> QED BY <1>1, <1>6, <1>8, Kept DEF Finish, BInv, TypeOK

(* A row more, for a migration.                                            *)
LEMMA RowAdded ==
    ASSUME rows \in [Mig \cup Squash -> Nat], NEW k \in Mig \cup Squash,
           rows' = [rows EXCEPT ![k] = rows[k] + 1]
    PROVE  /\ rows' \in [Mig \cup Squash -> Nat] /\ rows'[k] > 0
           /\ \A j \in Mig \cup Squash : j # k => rows'[j] = rows[j]
           /\ \A j \in Mig \cup Squash : rows[j] > 0 => rows'[j] > 0
<1>1. rows' \in [Mig \cup Squash -> Nat] /\ rows'[k] = rows[k] + 1 /\ rows[k] \in Nat
  OBVIOUS
<1>2. \A j \in Mig \cup Squash : j # k => rows'[j] = rows[j]
  OBVIOUS
<1>3. rows'[k] > 0
  BY <1>1
<1> QED BY <1>1, <1>2, <1>3

(* The end of a migration: what Commit and Record make of the command.     *)
LEMMA Commits ==
    ASSUME BInv, NEW p \in Proc, Commit(p)
    PROVE  LET k == Head(run[p].plan)
               R == run'[p]
           IN  /\ run' = [run EXCEPT ![p] = R] /\ R \in Run /\ R.made = {} /\ R.seen = run[p].seen
               /\ Planned(R) /\ run[p].plan # <<>> /\ k \in Mig
               /\ run[p].pc = "finish" /\ run[p].todo = <<>> /\ Applying(run[p], objects)
               /\ objects' = objects \cup run[p].made /\ objects' \subseteq Things
               /\ rows' \in [Mig \cup Squash -> Nat]
               /\ \A j \in Mig \cup Squash : j # k => rows'[j] = rows[j]
               /\ \A j \in Mig \cup Squash : rows[j] > 0 => rows'[j] > 0
               /\ \/ R.pc = "next" /\ R.plan = Tail(run[p].plan) /\ rows'[k] > 0
                  \/ R.pc = "record" /\ R.plan = run[p].plan /\ rows' = rows
<1> DEFINE r == run[p]
           k == Head(r.plan)
           A == [run[p] EXCEPT !.made = {}, !.pc = "next", !.plan = Tail(run[p].plan)]
           B == [run[p] EXCEPT !.made = {}, !.pc = "record"]
<1>1. /\ r.pc = "finish" /\ r.todo = <<>> /\ objects' = objects \cup r.made
      /\ \/ rows' = [rows EXCEPT ![k] = rows[k] + 1] /\ run' = [run EXCEPT ![p] = A]
         \/ rows' = rows /\ run' = [run EXCEPT ![p] = B]
  BY DEF Commit, Become
<1>2. r \in Run /\ Planned(r) /\ Working(r, objects) /\ rows \in [Mig \cup Squash -> Nat]
  BY DEF BInv, TypeOK
<1>3. r.plan # <<>> /\ Applying(r, objects) /\ Increasing(r.plan) /\ r.plan \in Seq(Mig)
  BY <1>1, <1>2 DEF Planned, Working, Run
<1>4. k \in Mig /\ Tail(r.plan) \in Seq(Mig) /\ Increasing(Tail(r.plan))
  BY <1>3, TailIncreasing
<1>5. A \in Run /\ A.made = {} /\ A.pc = "next" /\ A.plan = Tail(r.plan) /\ A.seen = r.seen
  BY <1>2, <1>4 DEF Run, PC
<1>6. B \in Run /\ B.made = {} /\ B.pc = "record" /\ B.plan = r.plan /\ B.seen = r.seen
  BY <1>2 DEF Run, PC
<1>7. Planned(A) /\ Planned(B)
  BY <1>3, <1>4, <1>5, <1>6 DEF Planned
<1>8. objects' \subseteq Things
  BY <1>1, <1>2 DEF BInv, TypeOK, Run
<1> HIDE DEF A, B
<1>9. CASE rows' = [rows EXCEPT ![k] = rows[k] + 1] /\ run' = [run EXCEPT ![p] = A]
  <2>1. run'[p] = A BY <1>9 DEF BInv, TypeOK
  <2>2. /\ rows' \in [Mig \cup Squash -> Nat] /\ rows'[k] > 0
        /\ \A j \in Mig \cup Squash : j # k => rows'[j] = rows[j]
        /\ \A j \in Mig \cup Squash : rows[j] > 0 => rows'[j] > 0
    BY <1>2, <1>4, <1>9, RowAdded
  <2> QED BY <1>1, <1>3, <1>4, <1>5, <1>7, <1>8, <1>9, <2>1, <2>2
<1>10. CASE rows' = rows /\ run' = [run EXCEPT ![p] = B]
  <2>1. run'[p] = B BY <1>10 DEF BInv, TypeOK
  <2> QED BY <1>1, <1>2, <1>3, <1>4, <1>6, <1>7, <1>8, <1>10, <2>1
<1> QED BY <1>1, <1>9, <1>10

LEMMA Records ==
    ASSUME BInv, NEW p \in Proc, Record(p)
    PROVE  LET k == Head(run[p].plan)
               R == run'[p]
           IN  /\ run' = [run EXCEPT ![p] = R] /\ R \in Run /\ R.made = {} /\ R.seen = run[p].seen
               /\ Planned(R) /\ run[p].plan # <<>> /\ k \in Mig /\ run[p].pc = "record"
               /\ rows' \in [Mig \cup Squash -> Nat] /\ rows'[k] > 0
               /\ \A j \in Mig \cup Squash : j # k => rows'[j] = rows[j]
               /\ \A j \in Mig \cup Squash : rows[j] > 0 => rows'[j] > 0
               /\ R.pc = "next" /\ R.plan = Tail(run[p].plan) /\ objects' = objects
<1> DEFINE r == run[p]
           k == Head(r.plan)
           A == [run[p] EXCEPT !.pc = "next", !.plan = Tail(run[p].plan)]
<1>1. /\ r.pc = "record" /\ objects' = objects
      /\ rows' = [rows EXCEPT ![k] = rows[k] + 1] /\ run' = [run EXCEPT ![p] = A]
  BY DEF Record, Become
<1>2. r \in Run /\ Planned(r) /\ Working(r, objects) /\ rows \in [Mig \cup Squash -> Nat]
  BY DEF BInv, TypeOK
<1>3. r.plan # <<>> /\ r.made = {} /\ Increasing(r.plan) /\ r.plan \in Seq(Mig)
  BY <1>1, <1>2 DEF Planned, Working, Run
<1>4. k \in Mig /\ Tail(r.plan) \in Seq(Mig) /\ Increasing(Tail(r.plan))
  BY <1>3, TailIncreasing
<1>5. A \in Run /\ A.made = {} /\ A.pc = "next" /\ A.plan = Tail(r.plan) /\ A.seen = r.seen
  BY <1>2, <1>3, <1>4 DEF Run, PC
<1>6. Planned(A)
  BY <1>4, <1>5 DEF Planned
<1>7. run'[p] = A
  BY <1>1 DEF BInv, TypeOK
<1>8. /\ rows' \in [Mig \cup Squash -> Nat] /\ rows'[k] > 0
      /\ \A j \in Mig \cup Squash : j # k => rows'[j] = rows[j]
      /\ \A j \in Mig \cup Squash : rows[j] > 0 => rows'[j] > 0
  BY <1>1, <1>2, <1>4, RowAdded
<1> HIDE DEF A
<1> QED BY <1>1, <1>3, <1>4, <1>5, <1>6, <1>7, <1>8

(* CheckReplacements adds a row for a squash that is missing.              *)
LEMMA Replacing ==
    ASSUME BInv, NEW p \in Proc, RecordReplacement(p)
    PROVE  LET s == Head(Sorted(Unrecorded(run[p].seen)))
               R == run'[p]
           IN  /\ run' = [run EXCEPT ![p] = R] /\ R \in Run /\ R.made = {} /\ R.pc = "check"
               /\ run[p].pc = "check" /\ R.plan = run[p].plan /\ R.seen = run[p].seen \cup {s}
               /\ Planned(R) /\ s \in Squashes /\ s \in Squash /\ Replaces[s] \subseteq run[p].seen
               /\ rows' \in [Mig \cup Squash -> Nat] /\ rows'[s] > 0
               /\ \A j \in Mig \cup Squash : j # s => rows'[j] = rows[j]
               /\ \A j \in Mig \cup Squash : rows[j] > 0 => rows'[j] > 0
               /\ objects' = objects
<1> DEFINE r == run[p]
           U == Unrecorded(r.seen)
           s == Head(Sorted(U))
           A == [run[p] EXCEPT !.seen = run[p].seen \cup {s}]
<1>1. /\ r.pc = "check" /\ objects' = objects /\ U # {}
      /\ rows' = [rows EXCEPT ![s] = rows[s] + 1] /\ run' = [run EXCEPT ![p] = A]
  BY DEF RecordReplacement, Become
<1>2. r \in Run /\ Planned(r) /\ Working(r, objects) /\ rows \in [Mig \cup Squash -> Nat]
  BY DEF BInv, TypeOK
<1>3. U \subseteq Squash
  BY DEF Unrecorded, Squashes
<1>4. s \in U
  <2>1. U \in SUBSET (Mig \cup Squash) BY <1>3
  <2>2. Sorted(U) \in Seq(U) /\ ToSet(Sorted(U)) = U BY <2>1, OrderAssumption
  <2> HIDE DEF U
  <2>3. Sorted(U) # <<>>
    <3>1. ToSet(<<>>) = {} BY DEF ToSet
    <3> QED BY <1>1, <2>2, <3>1
  <2> QED BY <2>2, <2>3, HeadTail
<1>5. s \in Squash /\ s \in Squashes /\ Replaces[s] \subseteq r.seen
  BY <1>3, <1>4 DEF Unrecorded
<1> HIDE DEF s, U
<1>6. r.made = {}
  BY <1>1, <1>2 DEF Working
<1>7. A \in Run /\ A.made = {} /\ A.pc = "check" /\ A.plan = r.plan /\ A.seen = r.seen \cup {s}
  <2>1. r.seen \cup {s} \in SUBSET (Mig \cup Squash) BY <1>2, <1>5 DEF Run
  <2> QED BY <1>1, <1>2, <1>6, <2>1 DEF Run
<1>8. Planned(A)
  BY <1>1, <1>2, <1>7 DEF Planned
<1>9. run'[p] = A
  BY <1>1 DEF BInv, TypeOK
<1>10. /\ rows' \in [Mig \cup Squash -> Nat] /\ rows'[s] > 0
       /\ \A j \in Mig \cup Squash : j # s => rows'[j] = rows[j]
       /\ \A j \in Mig \cup Squash : rows[j] > 0 => rows'[j] > 0
  BY <1>1, <1>2, <1>5, RowAdded
<1> HIDE DEF A
<1> QED BY <1>1, <1>5, <1>7, <1>8, <1>9, <1>10 DEF s, U

LEMMA RowsBase ==
    ASSUME BInv, NEW p \in Proc, Commit(p) \/ Record(p) \/ RecordReplacement(p)
    PROVE  BInv'
<1> DEFINE R == run'[p]
<1>1. /\ run' = [run EXCEPT ![p] = R] /\ R \in Run /\ R.made = {} /\ Planned(R)
      /\ R.pc \in {"next", "record", "check"} /\ rows' \in [Mig \cup Squash -> Nat]
      /\ objects \subseteq objects' /\ objects' \subseteq Things
  <2>1. CASE Commit(p) BY <2>1, Commits
  <2>2. CASE Record(p) BY <2>2, Records DEF BInv, TypeOK
  <2>3. CASE RecordReplacement(p) BY <2>3, Replacing DEF BInv, TypeOK
  <2> QED BY <2>1, <2>2, <2>3
<1> HIDE DEF R
<1>2. Working(R, objects')
  BY <1>1, Elsewhere
<1> QED BY <1>1, <1>2, Kept DEF Commit, Record, RecordReplacement, BInv, TypeOK

(* The steps that only read.                                               *)
LEMMA Reads ==
    ASSUME BInv, NEW p \in Proc, EndPlan(p) \/ ReadRows(p) \/ End(p)
    PROVE  LET R == run'[p]
           IN  /\ run' = [run EXCEPT ![p] = R] /\ R \in Run /\ R.made = {} /\ Planned(R)
               /\ R.pc \in {"read", "check", "ok"}
               /\ R.plan = <<>> /\ run[p].plan = <<>> /\ run[p].pc # "failed" /\ run[p].pc # "load"
               /\ UNCHANGED <<rollback, asked, soft, syncs, table, rows, objects, faults, start>>
<1> DEFINE r == run[p]
           A == [run[p] EXCEPT !.pc = "read"]
           B == [run[p] EXCEPT !.pc = "check", !.seen = Recorded]
           C == [run[p] EXCEPT !.pc = "ok"]
<1>1. /\ r.pc \in {"next", "read", "check"} /\ r \in Run /\ Planned(r) /\ Working(r, objects)
      /\ UNCHANGED <<rollback, asked, soft, syncs, table, rows, objects, faults, start>>
  BY DEF EndPlan, ReadRows, End, BInv, TypeOK
<1>2. r.plan = <<>> /\ r.made = {}
  BY <1>1 DEF EndPlan, ReadRows, End, Planned, Working
<1>3. \E R \in {A, B, C} : run' = [run EXCEPT ![p] = R]
  BY DEF EndPlan, ReadRows, End, Become
<1>4. Recorded \in SUBSET (Mig \cup Squash)
  BY DEF Recorded
<1>5. \A R \in {A, B, C} : /\ R \in Run /\ R.made = {} /\ R.plan = <<>>
                           /\ R.pc \in {"read", "check", "ok"}
  <2>1. A \in Run /\ A.made = {} /\ A.plan = <<>> /\ A.pc = "read" BY <1>1, <1>2 DEF Run, PC
  <2>2. B \in Run /\ B.made = {} /\ B.plan = <<>> /\ B.pc = "check" BY <1>1, <1>2, <1>4 DEF Run, PC
  <2>3. C \in Run /\ C.made = {} /\ C.plan = <<>> /\ C.pc = "ok" BY <1>1, <1>2 DEF Run, PC
  <2> QED BY <2>1, <2>2, <2>3
<1> HIDE DEF A, B, C
<1>6. PICK R \in {A, B, C} : run' = [run EXCEPT ![p] = R]
  BY <1>3
<1>7. run'[p] = R
  BY <1>6 DEF BInv, TypeOK
<1>8. Planned(R)
  BY <1>5 DEF Planned, Increasing
<1> QED BY <1>1, <1>2, <1>5, <1>6, <1>7, <1>8

(* An error ends the command.                                              *)
LEMMA Ends ==
    ASSUME BInv, NEW p \in Proc, Refused(p) \/ Fault(p)
    PROVE  LET R == run'[p]
           IN  /\ run' = [run EXCEPT ![p] = R] /\ R \in Run /\ R.made = {} /\ Planned(R)
               /\ R.pc = "failed" /\ R.plan = run[p].plan /\ R.seen = run[p].seen
               /\ faults' \in Nat /\ (Fault(p) => faults' # 0) /\ (Refused(p) => faults' = faults)
               /\ UNCHANGED <<rollback, asked, soft, syncs, table, rows, objects, start>>
<1> DEFINE r == run[p]
           A == [run[p] EXCEPT !.pc = "failed", !.made = {}]
<1>1. r \in Run /\ Planned(r) /\ faults \in Nat
  BY DEF BInv, TypeOK
<1>2. run' = [run EXCEPT ![p] = A] /\ run'[p] = A
  BY DEF Refused, Fault, Become, RolledBack, BInv, TypeOK
<1>3. A \in Run /\ A.made = {} /\ A.pc = "failed" /\ A.plan = r.plan /\ A.seen = r.seen
  BY <1>1 DEF Run, PC
<1>4. Planned(A)
  BY <1>1, <1>3 DEF Planned
<1>5. faults' \in Nat /\ (Fault(p) => faults' # 0) /\ (Refused(p) => faults' = faults)
  BY <1>1 DEF Refused, Fault
<1> HIDE DEF A
<1> QED BY <1>2, <1>3, <1>4, <1>5 DEF Refused, Fault

LEMMA BaseNext ==
    ASSUME BInv, [Next]_vars
    PROVE  BInv'
<1>1. CASE UNCHANGED vars
  BY <1>1 DEF vars, BInv, TypeOK, Planned, Working, Syncing, Applying, Past
<1>2. ASSUME NEW p \in Proc, EndPlan(p) \/ ReadRows(p) \/ End(p) \/ Refused(p) \/ Fault(p)
      PROVE  BInv'
  <2> DEFINE R == run'[p]
  <2>1. /\ run' = [run EXCEPT ![p] = R] /\ R \in Run /\ R.made = {} /\ Planned(R)
        /\ R.pc \in {"read", "check", "ok", "failed"} /\ faults' \in Nat
        /\ UNCHANGED <<rollback, asked, soft, syncs, table, rows, objects, start>>
    <3>1. faults \in Nat BY DEF BInv, TypeOK
    <3> QED BY <1>2, <3>1, Reads, Ends
  <2> HIDE DEF R
  <2>2. Working(R, objects') BY <2>1, Elsewhere
  <2> QED BY <2>1, <2>2, Kept DEF BInv, TypeOK
<1>3. ASSUME NEW p \in Proc, Step(p) \/ Fault(p) PROVE BInv'
  BY <1>2, <1>3, LoadBase, SyncBase, SyncedBase, TableBase, NextBase, ExecuteBase, FinishBase, RowsBase DEF Step
<1> QED BY <1>1, <1>3 DEF Next

(* Every variable stays in its type, whatever the commands are asked for   *)
(* and however they meet: FirstRun's TypeOK.                               *)
THEOREM Typing == Spec => []TypeOK
<1>1. BInv /\ [Next]_vars => BInv'
  BY BaseNext
<1>2. BInv => TypeOK
  BY DEF BInv
<1> QED BY InitBase, <1>1, <1>2, PTL DEF Spec

-----------------------------------------------------------------------------
(* What the other steps make of the command that takes them.               *)
LEMMA Loads ==
    ASSUME BInv, NEW p \in Proc, Load(p)
    PROVE  LET R == run'[p]
           IN  /\ run' = [run EXCEPT ![p] = R] /\ run[p].pc = "load" /\ R.made = {}
               /\ R.plan = Sorted(asked[p] \ Recorded) /\ R.seen = run[p].seen
               /\ p \in syncs => R.pc = "sync"
               /\ p \notin syncs /\ R.plan # <<>> => R.pc = "ensure"
               /\ p \notin syncs /\ R.plan = <<>> => R.pc \in {"read", "ok"}
               /\ R.pc = "ok" => ~table
               /\ UNCHANGED <<rollback, asked, soft, syncs, table, rows, objects, faults, start>>
<1> DEFINE plan == Sorted(asked[p] \ Recorded)
           r == [run[p] EXCEPT !.plan = plan, !.has = table]
           R == IF p \in syncs THEN [r EXCEPT !.pc = "sync"] ELSE MigrateTo(r)
<1>1. plan \in Seq(Mig) /\ Increasing(plan)
  <2>1. asked[p] \ Recorded \in SUBSET Mig BY DEF BInv, TypeOK
  <2> QED BY <2>1, SortedPlan
<1>2. run[p] \in Run /\ run[p].made = {} /\ run[p].pc = "load" /\ table \in BOOLEAN
  BY DEF BInv, TypeOK, Load, Working
<1>3. run' = [run EXCEPT ![p] = R] /\ run'[p] = R
  BY DEF Load, Become, BInv, TypeOK
<1> HIDE DEF plan
<1>4. r \in Run /\ r.made = {} /\ r.plan = plan /\ r.seen = run[p].seen
  BY <1>1, <1>2 DEF Run, PC
<1>5. CASE p \in syncs
  <2>1. R = [r EXCEPT !.pc = "sync"] BY <1>5
  <2>2. R.made = {} /\ R.pc = "sync" /\ R.plan = plan /\ R.seen = run[p].seen
    BY <2>1, <1>4 DEF Run, PC
  <2> HIDE DEF R
  <2> QED BY <1>2, <1>3, <1>5, <2>2 DEF Load, plan
<1>6. CASE p \notin syncs
  <2>1. R = MigrateTo(r) BY <1>6
  <2>2. /\ R.made = {} /\ R.plan = plan /\ R.seen = run[p].seen
        /\ plan # <<>> => R.pc = "ensure"
        /\ plan = <<>> => R.pc \in {"read", "ok"}
        /\ R.pc = "ok" => ~table
    BY <2>1, <1>1, <1>4, Begins DEF BInv
  <2> HIDE DEF R
  <2> QED BY <1>2, <1>3, <1>6, <2>2 DEF Load, plan
<1> QED BY <1>5, <1>6

LEMMA Syncs ==
    ASSUME BInv, NEW p \in Proc, syncApps(p)
    PROVE  LET R == run'[p]
           IN  /\ run' = [run EXCEPT ![p] = R] /\ run[p].pc = "sync" /\ R.made = {}
               /\ R.plan = run[p].plan /\ R.seen = run[p].seen /\ R.pc = "syncing"
               /\ R.todo = Missing(objects)
               /\ UNCHANGED <<rollback, asked, soft, syncs, table, rows, objects, faults, start>>
<1>1. run[p] \in Run /\ run[p].made = {} /\ run[p].pc = "sync"
  BY DEF BInv, TypeOK, syncApps, Working
<1> DEFINE R == [run[p] EXCEPT !.pc = "syncing", !.todo = Missing(objects)]
<1>2. run' = [run EXCEPT ![p] = R] /\ run'[p] = R
  BY DEF syncApps, Become, BInv, TypeOK
<1>3. /\ R.made = {} /\ R.plan = run[p].plan /\ R.seen = run[p].seen /\ R.pc = "syncing"
      /\ R.todo = Missing(objects)
  BY <1>1 DEF Run
<1> HIDE DEF R
<1> QED BY <1>1, <1>2, <1>3 DEF syncApps

LEMMA Syncends ==
    ASSUME BInv, NEW p \in Proc, Synced(p)
    PROVE  LET R == run'[p]
           IN  /\ run' = [run EXCEPT ![p] = R] /\ run[p].pc = "syncing" /\ R.made = {}
               /\ run[p].todo = <<>>
               /\ R.plan = run[p].plan /\ R.seen = run[p].seen
               /\ R.plan # <<>> => R.pc = "ensure"
               /\ R.plan = <<>> => R.pc \in {"read", "ok"}
               /\ R.pc = "ok" => ~table
               /\ objects' = objects \cup run[p].made
               /\ UNCHANGED <<rollback, asked, soft, syncs, table, rows, faults, start>>
<1> DEFINE r == [run[p] EXCEPT !.made = {}]
<1>1. run[p] \in Run /\ Increasing(run[p].plan)
  BY DEF BInv, TypeOK, Planned
<1>2. r \in Run /\ r.made = {} /\ r.plan = run[p].plan /\ r.seen = run[p].seen
  BY <1>1 DEF Run
<1>3. run' = [run EXCEPT ![p] = MigrateTo(r)] /\ run'[p] = MigrateTo(r)
  BY DEF Synced, Become, BInv, TypeOK
<1> HIDE DEF r
<1>4. /\ MigrateTo(r).plan = r.plan /\ MigrateTo(r).made = {} /\ MigrateTo(r).seen = r.seen
      /\ r.plan # <<>> => MigrateTo(r).pc = "ensure"
      /\ r.plan = <<>> => MigrateTo(r).pc \in {"read", "ok"}
      /\ MigrateTo(r).pc = "ok" => ~table
  BY <1>1, <1>2, Begins DEF BInv
<1> QED BY <1>2, <1>3, <1>4 DEF Synced

LEMMA Tables ==
    ASSUME BInv, NEW p \in Proc, FindTable(p) \/ CreateTable(p)
    PROVE  LET R == run'[p]
           IN  /\ run' = [run EXCEPT ![p] = R] /\ run[p].pc \in {"ensure", "create"} /\ R.made = {}
               /\ R.plan = run[p].plan /\ R.seen = run[p].seen
               /\ R.pc = "create" => ~table /\ ~table'
               /\ R.pc \in {"create", "next"}
               /\ CreateTable(p) => R.pc = "next"
               /\ table => table'
               /\ FindTable(p) => table' = table
               /\ UNCHANGED <<rollback, asked, soft, syncs, rows, objects, faults, start>>
<1>1. run[p] \in Run /\ run[p].made = {} /\ table \in BOOLEAN
  BY DEF BInv, TypeOK, Working, FindTable, CreateTable
<1>2. CASE FindTable(p)
  <2> DEFINE r == [run[p] EXCEPT !.has = run[p].has \/ table,
                                 !.pc = IF run[p].has \/ table THEN "next" ELSE "create"]
  <2>1. run' = [run EXCEPT ![p] = r] /\ run'[p] = r BY <1>2 DEF FindTable, Become, BInv, TypeOK
  <2>2. r.plan = run[p].plan /\ r.seen = run[p].seen /\ r.made = {} /\ r.pc \in {"next", "create"}
    BY <1>1 DEF Run
  <2>3. r.pc = "create" => ~table BY <1>1 DEF Run
  <2> HIDE DEF r
  <2>4. table' = table /\ run[p].pc = "ensure" BY <1>2 DEF FindTable
  <2>5. FindTable(p) /\ ~CreateTable(p) BY <1>2, <2>4 DEF CreateTable
  <2>6. UNCHANGED <<rollback, asked, soft, syncs, rows, objects, faults, start>> BY <1>2 DEF FindTable
  <2> QED BY <2>1, <2>2, <2>3, <2>4, <2>5, <2>6
<1>3. CASE CreateTable(p)
  <2> DEFINE r == [run[p] EXCEPT !.pc = "next", !.has = TRUE]
  <2>1. run' = [run EXCEPT ![p] = r] /\ run'[p] = r BY <1>3 DEF CreateTable, Become, BInv, TypeOK
  <2>2. r.plan = run[p].plan /\ r.seen = run[p].seen /\ r.made = {} /\ r.pc = "next"
    BY <1>1 DEF Run
  <2> HIDE DEF r
  <2>3. table' = TRUE /\ run[p].pc = "create" BY <1>3 DEF CreateTable
  <2>4. ~FindTable(p) BY <2>3 DEF FindTable
  <2>5. UNCHANGED <<rollback, asked, soft, syncs, rows, objects, faults, start>> BY <1>3 DEF CreateTable
  <2> QED BY <1>3, <2>1, <2>2, <2>3, <2>4, <2>5
<1> QED BY <1>2, <1>3

LEMMA Takes ==
    ASSUME BInv, NEW p \in Proc, NextMigration(p)
    PROVE  LET R == run'[p]
               k == Head(run[p].plan)
           IN  /\ run' = [run EXCEPT ![p] = R] /\ run[p].pc = "next" /\ run[p].plan # <<>>
               /\ k \in Mig /\ R.made = {} /\ R.plan = run[p].plan /\ R.seen = run[p].seen
               /\ \/ R.pc = "record" /\ p \in soft /\ DetectSoftApplied(k)
                  \/ R.pc = "apply" /\ R.todo = Statements[k] /\ Past(R) = 0
               /\ UNCHANGED <<rollback, asked, soft, syncs, table, rows, objects, faults, start>>
<1> DEFINE k == Head(run[p].plan)
           A == [run[p] EXCEPT !.pc = "record"]
           B == [run[p] EXCEPT !.pc = "apply", !.todo = Statements[k]]
<1>1. run[p] \in Run /\ run[p].made = {} /\ run[p].plan # <<>> /\ Increasing(run[p].plan)
  BY DEF BInv, TypeOK, Working, NextMigration, Planned
<1>2. k \in Mig
  BY <1>1, TailIncreasing DEF Run
<1>3. Statements[k] \in Seq(Things)
  BY <1>2, SeqOfThings
<1>4. A.plan = run[p].plan /\ A.seen = run[p].seen /\ A.made = {} /\ A.pc = "record"
  BY <1>1 DEF Run
<1>5. /\ B \in Run /\ B.plan = run[p].plan /\ B.seen = run[p].seen /\ B.made = {} /\ B.pc = "apply"
      /\ B.todo = Statements[k]
  BY <1>1, <1>3 DEF Run, PC
<1>6. Past(B) = 0
  BY <1>1, <1>5, EntersApply
<1>7. CASE p \in soft /\ DetectSoftApplied(k)
  <2>1. run' = [run EXCEPT ![p] = A] /\ run'[p] = A BY <1>7 DEF NextMigration, Become, BInv, TypeOK
  <2> HIDE DEF A
  <2> QED BY <1>1, <1>2, <1>4, <1>7, <2>1 DEF NextMigration
<1>8. CASE ~(p \in soft /\ DetectSoftApplied(k))
  <2>1. run' = [run EXCEPT ![p] = B] /\ run'[p] = B BY <1>8 DEF NextMigration, Become, BInv, TypeOK
  <2> HIDE DEF B
  <2> QED BY <1>1, <1>2, <1>5, <1>6, <2>1 DEF NextMigration
<1> QED BY <1>7, <1>8

LEMMA Finishes ==
    ASSUME BInv, NEW p \in Proc, Finish(p)
    PROVE  LET R == run'[p]
           IN  /\ run' = [run EXCEPT ![p] = R] /\ run[p].pc = "apply" /\ R.pc = "finish"
               /\ run[p].plan # <<>> /\ Head(run[p].plan) \in Mig
               /\ R.made = run[p].made /\ R.plan = run[p].plan /\ R.seen = run[p].seen
               /\ Past(R) = Past(run[p])
               /\ UNCHANGED <<rollback, asked, soft, syncs, table, rows, objects, faults, start>>
<1> DEFINE r == run[p]
           k == Head(r.plan)
           R == [run[p] EXCEPT !.pc = "finish", !.todo = Deferred[Head(run[p].plan)]]
<1>1. run' = [run EXCEPT ![p] = R] /\ run'[p] = R /\ r.pc = "apply" /\ r.todo = <<>>
  BY DEF Finish, Become, BInv, TypeOK
<1>2. r \in Run /\ r.plan # <<>> /\ Applying(r, objects)
  BY <1>1 DEF BInv, TypeOK, Planned, Working
<1>3. k \in Mig
  BY <1>2, HeadTail DEF Run
<1>4. Deferred[k] \in Seq(Things)
  BY <1>3, SeqOfThings
<1>5. R \in Run /\ R.pc = "finish" /\ R.plan = r.plan /\ R.made = r.made /\ R.todo = Deferred[k] /\ R.seen = r.seen
  BY <1>2, <1>4 DEF Run, PC
<1> HIDE DEF R
<1>6. Past(R) = Past(r)
  BY <1>1, <1>2, <1>5, EntersFinish
<1> QED BY <1>1, <1>2, <1>3, <1>5, <1>6 DEF Finish

(* Nothing is ever taken away, and no command changes another.             *)
LEMMA Frame ==
    ASSUME BInv, NEW p \in Proc, Step(p) \/ Fault(p)
    PROVE  /\ \A q \in Proc : q # p => run'[q] = run[q]
           /\ UNCHANGED <<rollback, asked, soft, syncs, start>>
           /\ objects \subseteq objects' /\ (table => table')
           /\ \A j \in Mig \cup Squash : rows[j] > 0 => rows'[j] > 0
<1>1. UNCHANGED <<rollback, asked, soft, syncs, start>>
  BY DEF Step, Load, syncApps, Synced, FindTable, CreateTable, NextMigration, Execute, Finish,
         Commit, Record, EndPlan, ReadRows, RecordReplacement, End, Refused, Fault
<1>2. run' = [run EXCEPT ![p] = run'[p]]
  BY Loads, Syncs, Syncends, Tables, Takes, Executes, Finishes, Commits, Records, Replacing, Reads, Ends
     DEF Step
<1>3. \A q \in Proc : q # p => run'[q] = run[q]
  BY <1>2 DEF BInv, TypeOK
<1>4. objects \subseteq objects' /\ (table => table')
  BY DEF Step, Load, syncApps, Synced, FindTable, CreateTable, NextMigration, Execute, Makes, Finish,
         Commit, Record, EndPlan, ReadRows, RecordReplacement, End, Refused, Fault
<1>5. \A j \in Mig \cup Squash : rows[j] > 0 => rows'[j] > 0
  <2>1. CASE Commit(p) \/ Record(p) \/ RecordReplacement(p) BY <2>1, Commits, Records, Replacing
  <2>2. CASE ~(Commit(p) \/ Record(p) \/ RecordReplacement(p))
    <3>1. rows' = rows
      BY <2>2 DEF Step, Load, syncApps, Synced, FindTable, CreateTable, NextMigration, Execute, Finish,
                  EndPlan, ReadRows, End, Refused, Fault
    <3> QED BY <3>1
  <2> QED BY <2>1, <2>2
<1> QED BY <1>1, <1>3, <1>4, <1>5

-----------------------------------------------------------------------------
(* A row means the whole migration.                                        *)

LEMMA InitWhole == Init => WInv
<1> SUFFICES ASSUME Init PROVE WInv
  OBVIOUS
<1>1. BInv
  BY InitBase
<1>2. PICK s \in Starts : /\ objects = s.objects
                          /\ rows = [k \in Mig \cup Squash |-> IF k \in s.rows THEN 1 ELSE 0]
  BY DEF Init
<1>3. ASSUME NEW k \in Mig PROVE (rows[k] > 0 => k \in s.rows)
  BY <1>2
<1>4. \A k \in Mig : rows[k] > 0 => Whole(k) \subseteq objects
  BY <1>2, <1>3, StartAssumption
<1>5. \A p \in Proc : run[p].pc = "load"
  BY DEF Init, NotStarted
<1>6. LookedWhole
  BY <1>2, StartAssumption DEF LookedWhole, DetectSoftApplied
<1> QED BY <1>1, <1>4, <1>5, <1>6 DEF WInv, RowsWhole

(* The steps after which rows and objects are as before, and no migration  *)
(* waits for its row that did not.                                         *)
LEMMA QuietWhole ==
    ASSUME WInv, NEW p \in Proc, Step(p) \/ Fault(p), BInv', rows' = rows, objects' = objects,
           run'[p].pc # "record"
    PROVE  WInv'
<1>1. /\ \A q \in Proc : q # p => run'[q] = run[q]
      /\ UNCHANGED <<rollback, asked, soft, syncs, start>>
  BY Frame DEF WInv
<1>2. ASSUME rollback \/ soft = {} PROVE RowsWhole'
  <2>1. RowsWhole BY <1>2 DEF WInv
  <2> QED BY <1>1, <2>1 DEF RowsWhole
<1>3. ASSUME rollback PROVE LookedWhole'
  <2>1. LookedWhole BY <1>3 DEF WInv
  <2> QED BY <2>1 DEF LookedWhole, DetectSoftApplied
<1> QED BY <1>1, <1>2, <1>3 DEF WInv

(* Objects of one migration, or of none, do not make another one whole.    *)
LEMMA LookedGrows ==
    ASSUME LookedWhole, objects \subseteq objects', NEW k \in Mig,
           objects' \ objects \subseteq Whole(k), Whole(k) \subseteq objects'
    PROVE  LookedWhole'
<1> SUFFICES ASSUME NEW j \in Mig, Looked[j] # {}, Looked[j] \subseteq objects'
             PROVE  Whole(j) \subseteq objects'
  BY DEF LookedWhole, DetectSoftApplied
<1>1. CASE j = k BY <1>1
<1>2. CASE j # k
  <2>1. Looked[j] \subseteq Whole(j) BY FirstRunAssumption DEF Whole
  <2>2. Whole(j) \cap Whole(k) = {} BY <1>2, ObjectsAssumption
  <2>3. Looked[j] \subseteq objects BY <2>1, <2>2
  <2>4. DetectSoftApplied(j) BY <2>3 DEF DetectSoftApplied
  <2> QED BY <2>4 DEF LookedWhole
<1> QED BY <1>1, <1>2

LEMMA LookedSynced ==
    ASSUME LookedWhole, objects \subseteq objects', objects' \ objects \subseteq ToSet(Unmigrated)
    PROVE  LookedWhole'
<1> SUFFICES ASSUME NEW j \in Mig, Looked[j] # {}, Looked[j] \subseteq objects'
             PROVE  Whole(j) \subseteq objects'
  BY DEF LookedWhole, DetectSoftApplied
<1>1. Looked[j] \subseteq Whole(j) BY FirstRunAssumption DEF Whole
<1>2. Whole(j) \cap ToSet(Unmigrated) = {} BY ObjectsAssumption
<1>3. Looked[j] \subseteq objects BY <1>1, <1>2
<1>4. DetectSoftApplied(j) BY <1>3 DEF DetectSoftApplied
<1> QED BY <1>4 DEF LookedWhole

LEMMA WholeStep ==
    ASSUME WInv, NEW p \in Proc, Step(p) \/ Fault(p), BInv'
    PROVE  WInv'
<1>1. BInv
  BY DEF WInv
<1>2. /\ \A q \in Proc : q # p => run'[q] = run[q]
      /\ UNCHANGED <<rollback, asked, soft, syncs, start>> /\ objects \subseteq objects'
  BY <1>1, Frame
<1>3. CASE \/ Load(p) \/ syncApps(p) \/ FindTable(p) \/ CreateTable(p) \/ Finish(p) \/ EndPlan(p)
           \/ ReadRows(p) \/ End(p) \/ Refused(p) \/ Fault(p)
  <2>1. rows' = rows /\ objects' = objects /\ run'[p].pc # "record"
    BY <1>1, <1>3, Loads, Syncs, Tables, Finishes, Reads, Ends
       DEF Refused, Fault, EndPlan, ReadRows, End
  <2> QED BY <1>1, <2>1, QuietWhole
<1>4. CASE Synced(p) \/ Execute(p)
  <2>1. rows' = rows BY <1>4 DEF Synced, Execute
  <2>2. run'[p].pc # "record"
    BY <1>1, <1>4, Syncends, Executes
  <2>3. ASSUME rollback \/ soft = {} PROVE RowsWhole'
    <3>1. RowsWhole BY <2>3 DEF WInv
    <3> QED BY <3>1, <1>2, <2>1, <2>2 DEF RowsWhole
  <2>4. ASSUME rollback PROVE LookedWhole'
    <3>1. LookedWhole BY <2>4 DEF WInv
    <3>2. CASE Synced(p)
      <4>1. objects' = objects \cup run[p].made /\ run[p].pc = "syncing" BY <1>1, <3>2, Syncends
      <4>2. run[p].made \subseteq ToSet(Unmigrated) BY <1>1, <4>1 DEF BInv, Working, Syncing
      <4> QED BY <3>1, <4>1, <4>2, LookedSynced
    <3>3. CASE Execute(p)
      <4>1. objects' = objects BY <1>1, <2>4, <3>3, Executes
      <4> QED BY <3>1, <4>1 DEF LookedWhole, DetectSoftApplied
    <3> QED BY <1>4, <3>2, <3>3
  <2> QED BY <1>2, <2>3, <2>4 DEF WInv
<1>5. CASE NextMigration(p)
  <2> DEFINE k == Head(run[p].plan)
  <2>1. /\ rows' = rows /\ objects' = objects /\ run'[p].plan = run[p].plan /\ k \in Mig
        /\ run'[p].pc = "record" => p \in soft /\ DetectSoftApplied(k)
    BY <1>1, <1>5, Takes
  <2>2. CASE run'[p].pc # "record" BY <1>1, <2>1, <2>2, QuietWhole
  <2>3. CASE run'[p].pc = "record"
    <3>1. p \in soft /\ DetectSoftApplied(k) BY <2>1, <2>3
    <3>2. ASSUME rollback \/ soft = {} PROVE RowsWhole'
      <4>1. RowsWhole /\ LookedWhole BY <3>1, <3>2 DEF WInv
      <4>2. Whole(k) \subseteq objects BY <2>1, <3>1, <4>1 DEF LookedWhole
      <4> QED BY <4>1, <4>2, <1>2, <2>1 DEF RowsWhole
    <3>3. ASSUME rollback PROVE LookedWhole'
      <4>1. LookedWhole BY <3>3 DEF WInv
      <4> QED BY <4>1, <2>1 DEF LookedWhole, DetectSoftApplied
    <3> QED BY <1>2, <3>2, <3>3 DEF WInv
  <2> QED BY <2>2, <2>3
<1>6. CASE Commit(p)
  <2> DEFINE k == Head(run[p].plan)
  <2>1. /\ k \in Mig /\ run[p].plan # <<>> /\ run[p].pc = "finish" /\ run[p].todo = <<>>
        /\ Applying(run[p], objects) /\ objects' = objects \cup run[p].made
        /\ \A j \in Mig \cup Squash : j # k => rows'[j] = rows[j]
        /\ run'[p].pc = "record" => run'[p].plan = run[p].plan
    BY <1>1, <1>6, Commits
  <2>2. run[p] \in Run BY <1>1 DEF BInv, TypeOK
  <2>3. Whole(k) \subseteq objects' /\ run[p].made \subseteq Whole(k)
    BY <2>1, <2>2, Complete DEF Applying
  <2> HIDE DEF k
  <2>4. ASSUME rollback \/ soft = {} PROVE RowsWhole'
    <3>1. RowsWhole BY <2>4 DEF WInv
    <3>2. ASSUME NEW j \in Mig, rows'[j] > 0 PROVE Whole(j) \subseteq objects'
      <4>1. CASE j = k BY <2>3, <4>1
      <4>2. CASE j # k BY <1>2, <2>1, <3>1, <3>2, <4>2 DEF RowsWhole
      <4> QED BY <4>1, <4>2
    <3>3. ASSUME NEW q \in Proc, run'[q].pc = "record" PROVE Whole(Head(run'[q].plan)) \subseteq objects'
      <4>1. CASE q = p BY <2>1, <2>3, <3>3, <4>1 DEF k
      <4>2. CASE q # p BY <1>2, <3>1, <3>3, <4>2 DEF RowsWhole
      <4> QED BY <4>1, <4>2
    <3> QED BY <3>2, <3>3 DEF RowsWhole
  <2>5. ASSUME rollback PROVE LookedWhole'
    <3>1. LookedWhole BY <2>5 DEF WInv
    <3> QED BY <2>1, <2>3, <3>1, LookedGrows
  <2> QED BY <1>2, <2>4, <2>5 DEF WInv
<1>7. CASE Record(p) \/ RecordReplacement(p)
  <2>1. objects' = objects /\ run'[p].pc # "record" BY <1>1, <1>7, Records, Replacing
  <2>2. ASSUME NEW j \in Mig, rows'[j] > 0
        PROVE  rows[j] > 0 \/ (run[p].pc = "record" /\ j = Head(run[p].plan))
    <3>1. CASE Record(p) BY <1>1, <2>2, <3>1, Records
    <3>2. CASE RecordReplacement(p)
      <4>1. Head(Sorted(Unrecorded(run[p].seen))) \in Squash BY <1>1, <3>2, Replacing
      <4>2. Head(Sorted(Unrecorded(run[p].seen))) # j BY <4>1, FirstRunAssumption
      <4>3. rows'[j] = rows[j] BY <1>1, <3>2, <4>2, Replacing
      <4> QED BY <2>2, <4>3
    <3> QED BY <1>7, <3>1, <3>2
  <2>3. ASSUME rollback \/ soft = {} PROVE RowsWhole'
    <3>1. RowsWhole BY <2>3 DEF WInv
    <3> QED BY <1>2, <2>1, <2>2, <3>1 DEF RowsWhole
  <2>4. ASSUME rollback PROVE LookedWhole'
    <3>1. LookedWhole BY <2>4 DEF WInv
    <3> QED BY <3>1, <2>1 DEF LookedWhole, DetectSoftApplied
  <2> QED BY <1>2, <2>3, <2>4 DEF WInv
<1> QED BY <1>3, <1>4, <1>5, <1>6, <1>7 DEF Step

(* RecordedIsWhole: whatever else is at work, a row is written only when   *)
(* the whole migration is committed, as the row waits for the deferred     *)
(* statements; and what --fake-initial finds, another command committed.   *)
THEOREM RowMeansWhole == Spec => []RecordedIsWhole
<1>1. WInv /\ [Next]_vars => WInv'
  <2> SUFFICES ASSUME WInv, [Next]_vars PROVE WInv'
    OBVIOUS
  <2>1. BInv' BY BaseNext DEF WInv
  <2>2. CASE UNCHANGED vars
    BY <2>1, <2>2 DEF vars, WInv, RowsWhole, LookedWhole, DetectSoftApplied
  <2> QED BY <2>1, <2>2, WholeStep DEF Next
<1>2. WInv => RecordedIsWhole
  BY DEF WInv, RowsWhole, RecordedIsWhole
<1> QED BY InitWhole, <1>1, <1>2, PTL DEF Spec

-----------------------------------------------------------------------------
(* The row of a squash follows.                                            *)

LEMMA InitSquash == Init => SInv
<1> SUFFICES ASSUME Init PROVE SInv
  OBVIOUS
<1>1. BInv
  BY InitBase
<1>2. PICK s \in Starts : /\ table = s.table /\ start = s
                          /\ rows = [k \in Mig \cup Squash |-> IF k \in s.rows THEN 1 ELSE 0]
  BY DEF Init
<1>3. s.rows \subseteq Mig \cup Squash
  BY FirstRunAssumption
<1>4. Recorded = s.rows
  BY <1>2, <1>3 DEF Recorded
<1>5. \A k \in Squash : rows[k] > 0 => Replaces[k] \subseteq Recorded
  <2> SUFFICES ASSUME NEW k \in Squash, rows[k] > 0 PROVE Replaces[k] \subseteq Recorded
    OBVIOUS
  <2>1. k \in s.rows BY <1>2
  <2> QED BY <1>4, <2>1, StartAssumption
<1>6. \A p \in Proc : run[p].pc = "load" /\ run[p].seen = {}
  BY DEF Init, NotStarted
<1> QED BY <1>1, <1>2, <1>5, <1>6 DEF SInv, Asked

(* What a command was asked for, however the others add rows.              *)
LEMMA AskedKept ==
    ASSUME NEW p \in Proc, Asked(p), run'[p] = run[p], UNCHANGED <<asked, start>>,
           \A j \in Mig \cup Squash : rows[j] > 0 => rows'[j] > 0
    PROVE  Asked(p)'
<1>1. Recorded \subseteq Recorded'
  BY DEF Recorded
<1>2. Squashes' = Squashes /\ Squashes \subseteq Squash
  BY DEF Squashes
<1> QED BY <1>1, <1>2 DEF Asked

LEMMA AskedStep ==
    ASSUME SInv, NEW p \in Proc, Step(p) \/ Fault(p)
    PROVE  Asked(p)'
<1>1. BInv /\ Asked(p) /\ (start.table => table)
  BY DEF SInv
<1>2. /\ UNCHANGED <<rollback, asked, soft, syncs, start>>
      /\ \A j \in Mig \cup Squash : rows[j] > 0 => rows'[j] > 0
  BY <1>1, Frame
<1>3. Recorded \subseteq Recorded'
  BY <1>2 DEF Recorded
<1>4. Squashes' = Squashes /\ Squashes \subseteq Squash
  BY <1>2 DEF Squashes
<1>5. ToSet(<<>>) = {}
  BY DEF ToSet
<1>6. CASE Load(p)
  <2>1. /\ run'[p].plan = Sorted(asked[p] \ Recorded) /\ run'[p].seen = run[p].seen
        /\ run'[p].pc # "check" /\ (run'[p].pc = "ok" => ~table)
    BY <1>1, <1>6, Loads
  <2>2. ToSet(Sorted(asked[p] \ Recorded)) = asked[p] \ Recorded
    <3>1. asked[p] \ Recorded \in SUBSET Mig BY <1>1 DEF BInv, TypeOK
    <3> QED BY <3>1, SortedPlan
  <2> QED BY <1>1, <1>2, <1>3, <2>1, <2>2 DEF Asked
<1>7. CASE syncApps(p) \/ Synced(p) \/ FindTable(p) \/ CreateTable(p) \/ NextMigration(p) \/ Execute(p) \/ Finish(p)
  <2>1. /\ run'[p].plan = run[p].plan /\ run'[p].seen = run[p].seen
        /\ run[p].pc \notin {"load", "failed"}
        /\ run'[p].pc # "check" /\ (run'[p].pc = "ok" => ~table)
    BY <1>1, <1>7, Syncs, Syncends, Tables, Takes, Executes, Finishes
  <2> QED BY <1>1, <1>2, <1>3, <2>1 DEF Asked
<1>8. CASE Commit(p) \/ Record(p)
  <2> DEFINE k == Head(run[p].plan)
  <2>1. /\ run'[p].seen = run[p].seen /\ run[p].pc \notin {"load", "failed"}
        /\ run'[p].pc \in {"next", "record"} /\ run[p].plan # <<>> /\ k \in Mig
        /\ run'[p].plan = run[p].plan \/ (run'[p].plan = Tail(run[p].plan) /\ rows'[k] > 0)
    BY <1>1, <1>8, Commits, Records
  <2>2. run[p].plan \in Seq(Mig) BY <1>1 DEF BInv, TypeOK, Run
  <2>3. ToSet(run[p].plan) = {k} \cup ToSet(Tail(run[p].plan)) BY <2>1, <2>2, FrontSet
  <2>4. asked[p] \subseteq Recorded \cup ToSet(run[p].plan) BY <1>1, <2>1 DEF Asked
  <2>5. asked[p] \subseteq Recorded' \cup ToSet(run'[p].plan)
    <3>1. CASE run'[p].plan = run[p].plan BY <1>3, <2>4, <3>1
    <3>2. CASE run'[p].plan = Tail(run[p].plan) /\ rows'[k] > 0
      <4>1. k \in Recorded' BY <2>1, <3>2 DEF Recorded
      <4> QED BY <1>3, <2>3, <2>4, <3>2, <4>1
    <3> QED BY <2>1, <3>1, <3>2
  <2> QED BY <1>1, <1>2, <1>3, <2>1, <2>5 DEF Asked
<1>9. CASE RecordReplacement(p)
  <2> DEFINE s == Head(Sorted(Unrecorded(run[p].seen)))
  <2>1. /\ run'[p].plan = run[p].plan /\ run'[p].seen = run[p].seen \cup {s}
        /\ run'[p].pc = "check" /\ run[p].pc = "check" /\ rows'[s] > 0 /\ s \in Squash
    BY <1>1, <1>9, Replacing
  <2>2. s \in Recorded' BY <2>1 DEF Recorded
  <2> HIDE DEF s
  <2> QED BY <1>1, <1>2, <1>3, <2>1, <2>2 DEF Asked
<1>10. CASE EndPlan(p) \/ ReadRows(p) \/ End(p)
  <2>1. /\ run[p].plan = <<>> /\ run'[p].plan = <<>> /\ run[p].pc \notin {"load", "failed"}
        /\ rows' = rows
    BY <1>1, <1>10, Reads
  <2>2. asked[p] \subseteq Recorded BY <1>1, <1>5, <2>1 DEF Asked
  <2>3. Recorded' = Recorded BY <2>1 DEF Recorded
  <2>4. CASE EndPlan(p)
    <3>1. run'[p] = [run[p] EXCEPT !.pc = "read"] /\ run[p] \in Run
      BY <1>1, <2>4 DEF EndPlan, Become, BInv, TypeOK
    <3>2. run'[p].pc = "read" /\ run'[p].seen = run[p].seen BY <3>1 DEF Run
    <3> QED BY <1>1, <1>2, <2>2, <2>3, <3>2 DEF Asked
  <2>5. CASE ReadRows(p)
    <3>1. run'[p] = [run[p] EXCEPT !.pc = "check", !.seen = Recorded] /\ run[p] \in Run
      BY <1>1, <2>5 DEF ReadRows, Become, BInv, TypeOK
    <3>2. run'[p].pc = "check" /\ run'[p].seen = Recorded BY <3>1 DEF Run
    <3> QED BY <1>2, <2>2, <2>3, <3>2 DEF Asked
  <2>6. CASE End(p)
    <3>1. /\ run'[p] = [run[p] EXCEPT !.pc = "ok"] /\ run[p] \in Run
          /\ run[p].pc = "check" /\ Unrecorded(run[p].seen) = {}
      BY <1>1, <2>6 DEF End, Become, BInv, TypeOK
    <3>2. run'[p].pc = "ok" /\ run'[p].seen = run[p].seen BY <3>1 DEF Run
    <3>3. ASSUME NEW s \in Squashes, Replaces[s] \subseteq asked[p] PROVE rows[s] > 0
      <4>1. asked[p] \subseteq run[p].seen /\ run[p].seen \subseteq Recorded BY <1>1, <3>1 DEF Asked
      <4>2. s \in run[p].seen BY <3>1, <3>3, <4>1 DEF Unrecorded
      <4> QED BY <4>1, <4>2 DEF Recorded
    <3>4. run'[p].seen \subseteq Recorded' BY <1>1, <2>3, <3>2 DEF Asked
    <3>5. \A s \in Squashes' : Replaces[s] \subseteq asked'[p] => rows'[s] > 0
      BY <1>2, <1>4, <2>1, <3>3
    <3> QED BY <1>2, <2>2, <2>3, <3>2, <3>4, <3>5 DEF Asked
  <2> QED BY <1>10, <2>4, <2>5, <2>6
<1>11. CASE Refused(p) \/ Fault(p)
  <2>1. run'[p].pc = "failed" /\ run'[p].seen = run[p].seen BY <1>1, <1>11, Ends
  <2> QED BY <1>1, <1>2, <1>3, <2>1 DEF Asked
<1> QED BY <1>6, <1>7, <1>8, <1>9, <1>10, <1>11 DEF Step

LEMMA SquashStep ==
    ASSUME SInv, NEW p \in Proc, Step(p) \/ Fault(p), BInv'
    PROVE  SInv'
<1>1. BInv /\ (start.table => table)
  BY DEF SInv
<1>2. /\ \A q \in Proc : q # p => run'[q] = run[q]
      /\ UNCHANGED <<rollback, asked, soft, syncs, start>> /\ (table => table')
      /\ \A j \in Mig \cup Squash : rows[j] > 0 => rows'[j] > 0
  BY <1>1, Frame
<1>3. Recorded \subseteq Recorded'
  BY <1>2 DEF Recorded
<1>4. ASSUME NEW s \in Squash, rows'[s] > 0 PROVE Replaces[s] \subseteq Recorded'
  <2>1. CASE rows[s] > 0 BY <1>3, <2>1 DEF SInv
  <2>2. CASE ~(rows[s] > 0)
    <3>1. RecordReplacement(p) /\ s = Head(Sorted(Unrecorded(run[p].seen)))
      <4>1. CASE Commit(p) \/ Record(p)
        <5>1. Head(run[p].plan) \in Mig BY <1>1, <4>1, Commits, Records
        <5>2. s # Head(run[p].plan) BY <5>1, FirstRunAssumption
        <5>3. rows'[s] = rows[s] BY <1>1, <4>1, <5>2, Commits, Records
        <5> QED BY <1>4, <2>2, <5>3
      <4>2. CASE RecordReplacement(p)
        BY <1>1, <1>4, <2>2, <4>2, Replacing
      <4>3. CASE ~(Commit(p) \/ Record(p) \/ RecordReplacement(p))
        <5>1. rows' = rows
          BY <4>3 DEF Step, Load, syncApps, Synced, FindTable, CreateTable, NextMigration, Execute, Finish,
                      EndPlan, ReadRows, End, Refused, Fault
        <5> QED BY <1>4, <2>2, <5>1
      <4> QED BY <4>1, <4>2, <4>3
    <3>2. Replaces[s] \subseteq run[p].seen BY <1>1, <3>1, Replacing
    <3>3. run[p].seen \subseteq Recorded BY DEF SInv, Asked
    <3> QED BY <1>3, <3>2, <3>3
  <2> QED BY <2>1, <2>2
<1>5. ASSUME NEW q \in Proc PROVE Asked(q)'
  <2>1. CASE q = p BY <2>1, AskedStep
  <2>2. CASE q # p
    <3>1. Asked(q) /\ run'[q] = run[q] BY <1>2, <2>2 DEF SInv
    <3> QED BY <1>2, <3>1, AskedKept
  <2> QED BY <2>1, <2>2
<1> QED BY <1>1, <1>2, <1>4, <1>5 DEF SInv

LEMMA SquashNext ==
    ASSUME SInv, [Next]_vars
    PROVE  SInv'
<1>1. BInv'
  BY BaseNext DEF SInv
<1>2. CASE UNCHANGED vars
  BY <1>1, <1>2 DEF vars, SInv, Recorded, Squashes, Asked
<1> QED BY <1>1, <1>2, SquashStep DEF Next

(* SquashFollows: CheckReplacements reads the rows before it adds one, but *)
(* rows are only added, so that what it read is still there; and a command *)
(* that was asked for all of a squash reads them after its own are in.     *)
THEOREM SquashRowsFollow == Spec => []SquashFollows
<1>1. SInv => SquashFollows
  <2> SUFFICES ASSUME SInv, NEW s \in Squashes
               PROVE  /\ rows[s] > 0 => Replaces[s] \subseteq Recorded
                      /\ \A p \in Proc : run[p].pc = "ok" /\ Replaces[s] \subseteq asked[p] => rows[s] > 0
    BY DEF SquashFollows
  <2>1. s \in Squash /\ start.rows # {} BY DEF Squashes
  <2>2. start.table BY <2>1, StartAssumption DEF SInv, BInv, TypeOK
  <2> QED BY <2>1, <2>2 DEF SInv, Asked
<1>2. SInv /\ [Next]_vars => SInv'
  BY SquashNext
<1> QED BY InitSquash, <1>1, <1>2, PTL DEF Spec

-----------------------------------------------------------------------------
(* Of commands that start on an empty database one gets through.  First,   *)
(* what lies ahead of a command.                                           *)

LEMMA AheadIs ==
    ASSUME NEW r
    PROVE  /\ r.pc \in {"load", "sync"} => Ahead(r) = Things
           /\ r.pc = "syncing" => Ahead(r) = RestOf(r.todo) \cup Since(0)
           /\ r.pc \in {"ensure", "create"} => Ahead(r) = Since(0)
           /\ r.pc = "next" /\ r.plan # <<>> => Ahead(r) = Since(Head(r.plan))
           /\ r.pc = "next" /\ r.plan = <<>> => Ahead(r) = {}
           /\ r.pc \in {"apply", "finish"} => Ahead(r) = Rest(r) \cup After(Head(r.plan))
           /\ r.pc = "record" => Ahead(r) = After(Head(r.plan))
           /\ r.pc \in {"read", "check", "ok", "failed"} => Ahead(r) = {}
BY DEF Ahead

LEMMA Order ==
    ASSUME NEW k \in Mig
    PROVE  /\ k \in Nat /\ Since(k) = Whole(k) \cup After(k) /\ Since(k) \subseteq Since(0)
           /\ Since(0) \subseteq Things /\ Since(0) \cap ToSet(Unmigrated) = {}
           /\ Whole(k) \cap After(k) = {}
           /\ \A j \in Mig : j > k => Since(j) \subseteq After(k)
           /\ \A j \in Mig, e \in Whole(k) : /\ e \in Whole(j) => j = k
                                             /\ e \in Since(j) => j <= k
                                             /\ e \in After(j) => j < k
<1>1. Mig \subseteq Nat
  BY FirstRunAssumption
<1>2. \A i, j \in Mig : i # j => Whole(i) \cap Whole(j) = {}
  BY ObjectsAssumption
<1>3. \A j \in Mig : Whole(j) \cap ToSet(Unmigrated) = {}
  BY ObjectsAssumption
<1>4. \A e : e \in After(k) <=> \E j \in Mig : j > k /\ e \in Whole(j)
  BY DEF After
<1>5. \A n \in Nat : \A e : e \in Since(n) <=> \E j \in Mig : j >= n /\ e \in Whole(j)
  BY DEF Since
<1>6. Since(k) = Whole(k) \cup After(k)
  BY <1>1, <1>4, <1>5
<1>7. Since(k) \subseteq Since(0)
  BY <1>1, <1>5
<1>8. Since(0) \subseteq Things
  BY <1>5 DEF Things
<1>9. Since(0) \cap ToSet(Unmigrated) = {}
  BY <1>3, <1>5
<1>10. Whole(k) \cap After(k) = {}
  BY <1>1, <1>2, <1>4
<1>11. \A j \in Mig : j > k => Since(j) \subseteq After(k)
  BY <1>1, <1>4, <1>5
<1>12. ASSUME NEW j \in Mig, NEW e \in Whole(k)
       PROVE  /\ e \in Whole(j) => j = k
              /\ e \in Since(j) => j <= k
              /\ e \in After(j) => j < k
  <2>1. \A i \in Mig : e \in Whole(i) => i = k BY <1>2
  <2>2. e \in Since(j) => j <= k BY <1>1, <1>5, <2>1
  <2>3. e \in After(j) => j < k BY <1>1, <2>1 DEF After
  <2> QED BY <2>1, <2>2, <2>3
<1> QED BY <1>1, <1>6, <1>7, <1>8, <1>9, <1>10, <1>11, <1>12

LEMMA SinceZero ==
    /\ Since(0) \subseteq Things /\ Since(0) \cap ToSet(Unmigrated) = {}
    /\ \A v : RestOf(v) \subseteq ToSet(Unmigrated)
    /\ \A k \in Mig : Whole(k) \subseteq Since(0) /\ Since(k) \subseteq Since(0) /\ After(k) \subseteq Since(0)
<1>1. \A e : e \in Since(0) <=> \E j \in Mig : e \in Whole(j)
  BY FirstRunAssumption DEF Since
<1>2. Since(0) \subseteq Things /\ Since(0) \cap ToSet(Unmigrated) = {}
  BY <1>1, ObjectsAssumption DEF Things
<1>3. \A v : RestOf(v) \subseteq ToSet(Unmigrated)
  BY DEF RestOf, ToSet
<1>4. \A k \in Mig : Whole(k) \subseteq Since(0)
  BY <1>1
<1>5. \A k \in Mig : Since(k) \subseteq Since(0) /\ After(k) \subseteq Since(0)
  BY Order
<1> QED BY <1>2, <1>3, <1>4, <1>5

(* The tables of syncApps: a list of them covers what comes after its head.*)
LEMMA SyncOrder ==
    ASSUME NEW v \in Seq(ToSet(Unmigrated)), InOrder(v), v # <<>>
    PROVE  /\ Head(v) \in RestOf(v) /\ Head(v) \in ToSet(Unmigrated)
           /\ RestOf(Tail(v)) \subseteq RestOf(v) \ {Head(v)}
           /\ \A w : Head(v) \in RestOf(w) => RestOf(v) \subseteq RestOf(w)
<1>1. /\ Len(v) \in Nat /\ Len(v) > 0 /\ DOMAIN v = 1..Len(v) /\ Head(v) = v[1]
      /\ Head(v) \in ToSet(Unmigrated)
      /\ Tail(v) \in Seq(ToSet(Unmigrated)) /\ DOMAIN Tail(v) = 1..(Len(v) - 1)
      /\ \A i \in 1..(Len(v) - 1) : Tail(v)[i] = v[i + 1]
  BY HeadTail
<1>2. PICK m \in DOMAIN Unmigrated : Unmigrated[m] = Head(v)
  BY <1>1 DEF ToSet
<1>3. DOMAIN Unmigrated = 1..Len(Unmigrated) /\ Len(Unmigrated) \in Nat
  BY FirstRunAssumption
<1>4. \A i, j \in DOMAIN Unmigrated : Unmigrated[i] = Unmigrated[j] => i = j
  BY ObjectsAssumption DEF Once
<1>5. RestOf(v) = {Unmigrated[n] : n \in {n \in DOMAIN Unmigrated : m <= n}}
  BY <1>2, <1>4 DEF RestOf
<1>6. Head(v) \in RestOf(v)
  BY <1>2, <1>3, <1>5
<1>7. RestOf(Tail(v)) \subseteq RestOf(v) \ {Head(v)}
  <2> SUFFICES ASSUME NEW e \in RestOf(Tail(v)) PROVE e \in RestOf(v) /\ e # Head(v)
    OBVIOUS
  <2>1. PICK n \in DOMAIN Unmigrated, l \in DOMAIN Unmigrated :
            e = Unmigrated[n] /\ Tail(v) # <<>> /\ Unmigrated[l] = Head(Tail(v)) /\ l <= n
    BY DEF RestOf
  <2>2. Head(Tail(v)) = Tail(v)[1] /\ 1 \in DOMAIN Tail(v) BY <1>1, <2>1, HeadTail
  <2>3. 2 \in DOMAIN v /\ v[2] = Unmigrated[l] /\ v[1] = Unmigrated[m] /\ 1 \in DOMAIN v
    BY <1>1, <1>2, <2>1, <2>2
  <2>4. m < l BY <2>3 DEF InOrder
  <2>5. m < n BY <1>3, <2>1, <2>4
  <2>6. e # Head(v) BY <1>2, <1>3, <1>4, <2>1, <2>5
  <2>7. e \in RestOf(v) BY <1>3, <1>5, <2>1, <2>5
  <2> QED BY <2>6, <2>7
<1>8. ASSUME NEW w, Head(v) \in RestOf(w) PROVE RestOf(v) \subseteq RestOf(w)
  <2>1. PICK n \in DOMAIN Unmigrated, l \in DOMAIN Unmigrated :
            Head(v) = Unmigrated[n] /\ w # <<>> /\ Unmigrated[l] = Head(w) /\ l <= n
    BY <1>8 DEF RestOf
  <2>2. n = m BY <1>2, <1>4, <2>1
  <2> SUFFICES ASSUME NEW i \in DOMAIN Unmigrated, m <= i PROVE Unmigrated[i] \in RestOf(w)
    BY <1>5
  <2>3. l <= i BY <1>3, <2>1, <2>2
  <2> QED BY <2>1, <2>3 DEF RestOf
<1> QED BY <1>1, <1>6, <1>7, <1>8

(* The same within a migration.                                            *)
LEMMA RestOrder ==
    ASSUME NEW r \in Run, NEW R \in Run, r.plan # <<>>, R.plan = r.plan, Past(r) \in Nat,
           Past(R) = Past(r) + 1, Past(r) + 1 \in DOMAIN Line(Head(r.plan)),
           NEW e, e = Line(Head(r.plan))[Past(r) + 1]
    PROVE  /\ Head(r.plan) \in Mig /\ e \in Whole(Head(r.plan)) /\ e \in Rest(r)
           /\ Rest(R) = Rest(r) \ {e} /\ Rest(r) \subseteq Whole(Head(r.plan))
           /\ \A i \in DOMAIN Line(Head(r.plan)) : Line(Head(r.plan))[i] \in Rest(r) <=> i > Past(r)
<1> DEFINE k == Head(r.plan)
           L == Line(k)
           n == Past(r)
<1>1. k \in Mig
  BY HeadTail DEF Run
<1>2. /\ DOMAIN L = 1..(Len(Statements[k]) + Len(Deferred[k]))
      /\ Len(Statements[k]) \in Nat /\ Len(Deferred[k]) \in Nat
      /\ \A i \in DOMAIN L : L[i] \in Whole(k)
  BY <1>1, Lines
<1>3. \A i, j \in DOMAIN L : L[i] = L[j] => i = j
  BY <1>1, ObjectsAssumption DEF Once
<1>4. Rest(r) = {L[i] : i \in {i \in DOMAIN L : i > n}}
  BY DEF Rest
<1>5. Rest(R) = {L[i] : i \in {i \in DOMAIN L : i > n + 1}}
  BY DEF Rest
<1>6. n \in Nat /\ n + 1 \in DOMAIN L /\ e = L[n + 1]
  OBVIOUS
<1> HIDE DEF k, L, n
<1>7. \A i \in DOMAIN L : i \in Nat
  BY ONLY <1>2
<1>8. \A i \in DOMAIN L : i > n + 1 <=> i > n /\ i # n + 1
  BY <1>6, <1>7
<1>9. Rest(R) = Rest(r) \ {e}
  BY <1>3, <1>4, <1>5, <1>6, <1>8
<1>10. e \in Rest(r)
  BY <1>4, <1>6
<1>11. \A i \in DOMAIN L : L[i] \in Rest(r) <=> i > n
  BY <1>3, <1>4
<1>12. Rest(r) \subseteq Whole(k) /\ e \in Whole(k)
  BY <1>2, <1>4, <1>6
<1> QED BY <1>1, <1>9, <1>10, <1>11, <1>12 DEF k, L, n

LEMMA RestWithin ==
    ASSUME NEW r \in Run, r.plan # <<>>
    PROVE  Head(r.plan) \in Mig /\ Rest(r) \subseteq Whole(Head(r.plan))
<1>1. Head(r.plan) \in Mig
  BY HeadTail DEF Run
<1>2. \A i \in DOMAIN Line(Head(r.plan)) : Line(Head(r.plan))[i] \in Whole(Head(r.plan))
  BY <1>1, Lines
<1> QED BY <1>1, <1>2 DEF Rest

LEMMA AheadThings ==
    ASSUME NEW r \in Run, Planned(r)
    PROVE  /\ Ahead(r) \subseteq Things
           /\ ~BeforeTable(r) => Ahead(r) \subseteq Since(0)
           /\ r.pc \in {"ensure", "create"} => Ahead(r) \subseteq Since(0)
<1>1. r.pc \in PC
  BY DEF Run
<1>2. Since(0) \subseteq Things /\ ToSet(Unmigrated) \subseteq Things
  BY SinceZero DEF Things
<1>3. CASE BeforeTable(r)
  <2>1. RestOf(r.todo) \subseteq ToSet(Unmigrated) BY SinceZero
  <2> QED BY <1>2, <1>3, <2>1, AheadIs DEF BeforeTable
<1>4. CASE r.pc \in {"next", "apply", "finish", "record"} /\ r.plan # <<>>
  <2>1. Head(r.plan) \in Mig /\ Rest(r) \subseteq Whole(Head(r.plan)) BY <1>4, RestWithin
  <2>2. /\ Whole(Head(r.plan)) \subseteq Since(0) /\ Since(Head(r.plan)) \subseteq Since(0)
        /\ After(Head(r.plan)) \subseteq Since(0)
    BY <2>1, SinceZero
  <2>3. Ahead(r) \subseteq Since(0) BY <1>4, <2>1, <2>2, AheadIs
  <2> QED BY <1>2, <2>3
<1>5. CASE r.pc \in {"read", "check", "ok", "failed"} \/ (r.pc = "next" /\ r.plan = <<>>)
  BY <1>5, AheadIs
<1>6. r.pc \in {"apply", "finish", "record"} => r.plan # <<>>
  BY DEF Planned
<1> QED BY <1>1, <1>3, <1>4, <1>5, <1>6 DEF PC, BeforeTable

(* The next object is the first of what lies ahead.                        *)
LEMMA HeadAhead ==
    ASSUME NEW r \in Run, NEW O, Planned(r), Working(r, O),
           r.pc \in {"syncing", "apply", "finish"}, r.todo # <<>>
    PROVE  Head(r.todo) \in Ahead(r)
<1>1. CASE r.pc = "syncing"
  <2>1. Syncing(r, O) BY <1>1 DEF Working
  <2>2. Head(r.todo) \in RestOf(r.todo) BY <2>1, SyncOrder DEF Syncing
  <2> QED BY <1>1, <2>2, AheadIs
<1>2. CASE r.pc \in {"apply", "finish"}
  <2>1. Applying(r, O) /\ r.plan # <<>> BY <1>2 DEF Working, Planned
  <2>2. /\ Past(r) \in Nat /\ Past(r) + 1 \in DOMAIN Line(Head(r.plan))
        /\ Head(r.todo) = Line(Head(r.plan))[Past(r) + 1]
    BY <1>2, <2>1, Place
  <2>3. Past(r) + 1 > Past(r) BY <2>2
  <2>4. Head(r.todo) \in Rest(r) BY <2>2, <2>3 DEF Rest
  <2> QED BY <1>2, <2>4, AheadIs
<1> QED BY <1>1, <1>2

(* As it goes on, less lies ahead of a command.                            *)
LEMMA AheadShrinks ==
    ASSUME BInv, BInv', NEW p \in Proc, Step(p), ~Refused(p), ~Execute(p)
    PROVE  /\ Ahead(run'[p]) \subseteq Ahead(run[p])
           /\ BeforeTable(run'[p]) => BeforeTable(run[p])
           /\ run'[p].pc # "failed"
<1> DEFINE r == run[p]
           R == run'[p]
           k == Head(r.plan)
<1>1. r \in Run /\ R \in Run /\ Planned(r) /\ Planned(R)
  BY DEF BInv, TypeOK
<1>2. CASE Load(p) \/ syncApps(p)
  <2>1. r.pc \in {"load", "sync"} /\ R.pc # "failed" BY <1>2, Loads, Syncs
  <2>2. Ahead(r) = Things BY <2>1, AheadIs
  <2>3. Ahead(R) \subseteq Things BY <1>1, AheadThings
  <2> QED BY <2>1, <2>2, <2>3 DEF BeforeTable
<1>3. CASE Synced(p)
  <2>1. r.pc = "syncing" /\ R.pc \in {"ensure", "read", "ok"} BY <1>3, Syncends
  <2>2. Ahead(R) \subseteq Since(0) BY <2>1, AheadIs
  <2>3. Since(0) \subseteq Ahead(r) BY <2>1, AheadIs
  <2> QED BY <2>1, <2>2, <2>3 DEF BeforeTable
<1>4. CASE FindTable(p) \/ CreateTable(p)
  <2>1. r.pc \in {"ensure", "create"} /\ R.pc \in {"create", "next"} BY <1>4, Tables
  <2>2. Ahead(R) \subseteq Since(0) BY <1>1, <2>1, AheadThings DEF BeforeTable
  <2>3. Since(0) = Ahead(r) BY <2>1, AheadIs
  <2> QED BY <2>1, <2>2, <2>3 DEF BeforeTable
<1>5. CASE NextMigration(p)
  <2>1. r.pc = "next" /\ r.plan # <<>> /\ k \in Mig /\ R.plan = r.plan /\ R.pc \in {"record", "apply"}
    BY <1>5, Takes
  <2>2. Ahead(r) = Whole(k) \cup After(k) BY <2>1, AheadIs, Order
  <2>3. Rest(R) \subseteq Whole(k) BY <1>1, <2>1, RestWithin
  <2>4. Ahead(R) \subseteq Whole(k) \cup After(k) BY <2>1, <2>3, AheadIs
  <2> QED BY <2>1, <2>2, <2>4 DEF BeforeTable
<1>6. CASE Finish(p)
  <2>1. /\ r.pc = "apply" /\ R.pc = "finish" /\ R.plan = r.plan /\ Past(R) = Past(r)
    BY <1>6, Finishes
  <2>2. Rest(R) = Rest(r) BY <2>1 DEF Rest
  <2>3. Ahead(R) = Ahead(r) BY <2>1, <2>2, AheadIs
  <2> QED BY <2>1, <2>3 DEF BeforeTable
<1>7. CASE Commit(p) \/ Record(p)
  <2>1. /\ r.pc \in {"finish", "record"} /\ r.plan # <<>> /\ k \in Mig
        /\ \/ R.pc = "next" /\ R.plan = Tail(r.plan)
           \/ R.pc = "record" /\ R.plan = r.plan
    BY <1>7, Commits, Records
  <2>2. After(k) \subseteq Ahead(r) BY <2>1, AheadIs
  <2>3. Ahead(R) \subseteq After(k)
    <3>1. CASE R.pc = "record" /\ R.plan = r.plan BY <3>1, AheadIs
    <3>2. CASE R.pc = "next" /\ R.plan = Tail(r.plan) /\ Tail(r.plan) # <<>>
      <4>1. Head(R.plan) > k /\ Head(R.plan) \in Mig BY <1>1, <2>1, <3>2, TailIncreasing DEF Run, Planned
      <4>2. Since(Head(R.plan)) \subseteq After(k) BY <2>1, <4>1, Order
      <4> QED BY <3>2, <4>2, AheadIs
    <3>3. CASE R.pc = "next" /\ R.plan = <<>> BY <3>3, AheadIs
    <3> QED BY <2>1, <3>1, <3>2, <3>3
  <2> QED BY <2>1, <2>2, <2>3 DEF BeforeTable
<1>8. CASE EndPlan(p) \/ ReadRows(p) \/ RecordReplacement(p) \/ End(p)
  <2>1. R.pc \in {"read", "check", "ok"} BY <1>8, Reads, Replacing
  <2>2. Ahead(R) = {} BY <2>1, AheadIs
  <2> QED BY <2>1, <2>2 DEF BeforeTable
<1> QED BY <1>2, <1>3, <1>4, <1>5, <1>6, <1>7, <1>8 DEF Step

LEMMA ExecutePast ==
    ASSUME BInv, NEW p \in Proc, Execute(p), run[p].pc \in {"apply", "finish"}
    PROVE  Past(run'[p]) = Past(run[p]) + 1
<1> DEFINE r == run[p]
           R == run'[p]
           e == Head(r.todo)
<1>1. /\ R \in Run
      /\ R.pc = r.pc /\ R.plan = r.plan /\ R.todo = Tail(r.todo)
      /\ R.made = IF rollback THEN r.made \cup {e} ELSE r.made
      /\ objects' = IF rollback THEN objects ELSE objects \cup {e}
      /\ r.todo # <<>> /\ r.pc \in {"apply", "finish"}
  BY Executes
<1>2. r \in Run /\ r.plan # <<>> /\ Applying(r, objects)
  BY DEF BInv, TypeOK, Planned, Working
<1> HIDE DEF r, R
<1>3. /\ R.made \subseteq r.made \cup {e}
      /\ objects \cup r.made \cup {e} \subseteq objects' \cup R.made
  BY <1>1
<1> HIDE DEF e
<1>4. Applying(R, objects') /\ Past(R) = Past(r) + 1
  BY <1>1, <1>2, <1>3, Advances DEF e
<1> QED BY <1>4 DEF r, R

(* Whoever makes something that lies ahead of another is ahead of it.      *)
LEMMA Overtakes ==
    ASSUME BInv, NEW p \in Proc, NEW q \in Proc, Execute(q), Head(run[q].todo) \in Ahead(run[p])
    PROVE  /\ Ahead(run'[q]) \subseteq Ahead(run[p]) \ {Head(run[q].todo)}
           /\ BeforeTable(run'[q]) => BeforeTable(run[p])
<1> DEFINE s == run[p]
           r == run[q]
           R == run'[q]
           e == Head(r.todo)
           k == Head(r.plan)
           j == Head(s.plan)
<1>1. /\ s \in Run /\ r \in Run /\ Planned(s) /\ Planned(r)
      /\ Working(s, objects) /\ Working(r, objects)
  BY DEF BInv, TypeOK
<1>2. /\ R \in Run /\ R.pc = r.pc /\ R.plan = r.plan /\ R.todo = Tail(r.todo) /\ r.todo # <<>>
      /\ r.pc \in {"syncing", "apply", "finish"}
      /\ R.made = IF rollback THEN r.made \cup {e} ELSE r.made
      /\ objects' = IF rollback THEN objects ELSE objects \cup {e}
  BY Executes
<1>3. s.pc \in PC /\ (s.pc \in {"apply", "finish", "record"} => s.plan # <<>>)
  BY <1>1 DEF Run, Planned
<1>4. e \in Ahead(s)
  OBVIOUS
<1> HIDE DEF s, r, R
<1>5. CASE r.pc = "syncing"
  <2>1. r.todo \in Seq(ToSet(Unmigrated)) /\ InOrder(r.todo) BY <1>1, <1>5 DEF Working, Syncing
  <2>2. /\ e \in ToSet(Unmigrated) /\ RestOf(R.todo) \subseteq RestOf(r.todo) \ {e}
        /\ \A w : e \in RestOf(w) => RestOf(r.todo) \subseteq RestOf(w)
    BY <1>2, <2>1, SyncOrder
  <2> HIDE DEF e
  <2>3. e \notin Since(0) BY <2>2, SinceZero
  <2>4. s.pc \in {"load", "sync", "syncing"}
    BY <1>1, <1>3, <1>4, <2>3, AheadThings DEF PC, BeforeTable
  <2>5. Ahead(R) = RestOf(R.todo) \cup Since(0) BY <1>2, <1>5, AheadIs
  <2>6. CASE s.pc \in {"load", "sync"}
    <3>1. Ahead(s) = Things BY <2>6, AheadIs
    <3>2. RestOf(r.todo) \subseteq Things /\ Since(0) \subseteq Things BY SinceZero DEF Things
    <3> QED BY <2>2, <2>3, <2>4, <2>5, <3>1, <3>2 DEF BeforeTable, s, R, e, r
  <2>7. CASE s.pc = "syncing"
    <3>1. Ahead(s) = RestOf(s.todo) \cup Since(0) BY <2>7, AheadIs
    <3>2. RestOf(r.todo) \subseteq RestOf(s.todo) BY <1>4, <2>2, <2>3, <3>1
    <3> QED BY <2>2, <2>3, <2>4, <2>5, <3>1, <3>2 DEF BeforeTable, s, R, e, r
  <2> QED BY <2>4, <2>6, <2>7
<1>6. CASE r.pc \in {"apply", "finish"}
  <2>1. r.plan # <<>> /\ Applying(r, objects) BY <1>1, <1>6 DEF Planned, Working
  <2>2. k \in Mig /\ Past(r) \in Nat /\ Past(r) + 1 \in DOMAIN Line(k) /\ e = Line(k)[Past(r) + 1]
    BY <1>1, <1>2, <1>6, <2>1, Place
  <2>3. Past(R) = Past(r) + 1 BY <1>6, ExecutePast DEF r, R
  <2>4. /\ e \in Whole(k) /\ e \in Rest(r) /\ Rest(R) = Rest(r) \ {e} /\ Rest(r) \subseteq Whole(k)
        /\ \A i \in DOMAIN Line(k) : Line(k)[i] \in Rest(r) <=> i > Past(r)
    BY <1>1, <1>2, <2>1, <2>2, <2>3, RestOrder
  <2>5. Ahead(R) = Rest(R) \cup After(k) BY <1>2, <1>6, AheadIs
  <2>6. e \notin After(k) /\ Whole(k) \cap After(k) = {} BY <2>2, <2>4, Order
  <2>7. Rest(r) \cup After(k) \subseteq Since(k) BY <2>2, <2>4, Order
  <2>8. ~BeforeTable(R) BY <1>2, <1>6 DEF BeforeTable
  <2> HIDE DEF e, k
  <2> SUFFICES Rest(r) \cup After(k) \subseteq Ahead(s)
    BY <2>4, <2>5, <2>6, <2>8 DEF s, R, e, r
  <2>9. CASE BeforeTable(s)
    <3>1. Since(0) \subseteq Ahead(s)
      BY <2>9, AheadIs, SinceZero DEF BeforeTable
    <3>2. Since(k) \subseteq Since(0) BY <2>2, Order
    <3> QED BY <2>7, <3>1, <3>2
  <2>10. CASE s.pc = "next"
    <3>1. s.plan # <<>> /\ Ahead(s) = Since(j) BY <1>4, <2>10, AheadIs
    <3>2. j \in Mig BY <1>1, <3>1, RestWithin
    <3>3. j <= k BY <1>4, <2>2, <2>4, <3>1, <3>2, Order
    <3>4. Since(k) \subseteq Since(j)
      <4>1. CASE j = k BY <4>1
      <4>2. CASE j < k
        <5>1. k > j BY <2>2, <3>2, <4>2, FirstRunAssumption
        <5>2. Since(k) \subseteq After(j) /\ After(j) \subseteq Since(j) BY <2>2, <3>2, <5>1, Order
        <5> QED BY <5>2
      <4>3. j \in Nat /\ k \in Nat BY <2>2, <3>2, FirstRunAssumption
      <4>4. j = k \/ j < k BY ONLY <3>3, <4>3
      <4> QED BY <4>1, <4>2, <4>4
    <3> QED BY <2>7, <3>1, <3>4
  <2>11. CASE s.pc \in {"record", "apply", "finish"}
    <3>1. s.plan # <<>> BY <1>3, <2>11
    <3>2. j \in Mig /\ Rest(s) \subseteq Whole(j) BY <1>1, <3>1, RestWithin
    <3>3. CASE e \in After(j)
      <4>1. j < k BY <2>2, <2>4, <3>2, <3>3, Order
      <4>2. k > j BY <2>2, <3>2, <4>1, FirstRunAssumption
      <4>3. Since(k) \subseteq After(j) BY <2>2, <3>2, <4>2, Order
      <4>4. After(j) \subseteq Ahead(s) BY <2>11, AheadIs
      <4> QED BY <2>7, <4>3, <4>4
    <3>4. CASE e \notin After(j)
      <4>1. s.pc \in {"apply", "finish"} /\ e \in Rest(s) BY <1>4, <2>11, <3>4, AheadIs
      <4>2. j = k BY <2>2, <2>4, <3>2, <4>1, Order
      <4>3. Ahead(s) = Rest(s) \cup After(k) BY <4>1, <4>2, AheadIs
      <4>4. Past(s) \in Nat
        <5>1. Applying(s, objects) BY <1>1, <4>1 DEF Working
        <5> QED BY <1>1, <3>1, <4>1, <5>1, Place
      <4>5. Past(r) + 1 > Past(s)
        <5>1. PICK i \in DOMAIN Line(k) : e = Line(k)[i] /\ i > Past(s) BY <4>1, <4>2 DEF Rest
        <5>2. i = Past(r) + 1 BY <2>2, <5>1, ObjectsAssumption DEF Once
        <5> QED BY <5>1, <5>2
      <4>6. Rest(r) \subseteq Rest(s)
        <5> SUFFICES ASSUME NEW i \in DOMAIN Line(k), i > Past(r) PROVE Line(k)[i] \in Rest(s)
          BY DEF Rest, k
        <5>1. i \in Nat
          <6>1. /\ DOMAIN Line(k) = 1..(Len(Statements[k]) + Len(Deferred[k]))
                /\ Len(Statements[k]) \in Nat /\ Len(Deferred[k]) \in Nat
            BY <2>2, Lines
          <6> QED BY ONLY <6>1
        <5>2. i > Past(s) BY <2>2, <4>4, <4>5, <5>1
        <5> QED BY <4>2, <5>2 DEF Rest
      <4> QED BY <4>3, <4>6
    <3> QED BY <3>3, <3>4
  <2>12. s.pc \notin {"read", "check", "ok", "failed"} BY <1>4, AheadIs
  <2> QED BY <1>3, <2>9, <2>10, <2>11, <2>12 DEF PC, BeforeTable
<1> QED BY <1>2, <1>5, <1>6

LEMMA PreparedStep ==
    ASSUME SInv, BInv', \A q \in Proc : Prepared(q), NEW p \in Proc, Step(p) \/ Fault(p)
    PROVE  \A q \in Proc : Prepared(q)'
<1>1. BInv /\ (start.table => table)
  BY DEF SInv
<1>2. /\ \A q \in Proc : q # p => run'[q] = run[q]
      /\ UNCHANGED <<rollback, asked, soft, syncs, start>> /\ objects \subseteq objects'
  BY <1>1, Frame
<1>3. ASSUME NEW q \in Proc, q # p PROVE Prepared(q)'
  BY <1>2, <1>3 DEF Prepared
<1>4. Prepared(p)'
  <2>1. CASE Load(p) \/ syncApps(p) \/ Refused(p) \/ Fault(p)
    <3>1. /\ p \in syncs => run'[p].pc \in {"sync", "syncing", "failed"}
          /\ run'[p].pc # "create"
      BY <1>1, <2>1, Loads, Syncs, Ends
    <3> QED BY <1>2, <3>1 DEF Prepared
  <2>2. CASE Synced(p)
    <3>1. /\ run'[p].pc # "create" /\ run[p].pc = "syncing" /\ run[p].todo = <<>>
          /\ objects' = objects \cup run[p].made
      BY <1>1, <2>2, Syncends
    <3>2. ToSet(Unmigrated) \subseteq objects \cup run[p].made \cup ToSet(<<>>)
      BY <1>1, <3>1 DEF BInv, Working, Syncing
    <3>3. ToSet(<<>>) = {} BY DEF ToSet
    <3> QED BY <3>1, <3>2, <3>3 DEF Prepared
  <2>3. CASE FindTable(p) \/ CreateTable(p)
    <3>1. run[p].pc \in {"ensure", "create"} /\ (run'[p].pc = "create" => ~table)
      BY <1>1, <2>3, Tables
    <3> QED BY <1>1, <1>2, <3>1 DEF Prepared
  <2>4. CASE Execute(p)
    <3>1. run'[p].pc = run[p].pc /\ run[p].pc \in {"syncing", "apply", "finish"}
      BY <1>1, <2>4, Executes
    <3> QED BY <1>2, <3>1 DEF Prepared
  <2>5. CASE NextMigration(p) \/ Finish(p) \/ Commit(p) \/ Record(p) \/ RecordReplacement(p)
    <3>1. /\ run[p].pc \notin {"load", "sync", "syncing", "failed"}
          /\ run'[p].pc # "create"
      BY <1>1, <2>5, Takes, Finishes, Commits, Records, Replacing
    <3> QED BY <1>2, <3>1 DEF Prepared
  <2>6. CASE EndPlan(p) \/ ReadRows(p) \/ End(p)
    <3>1. run'[p].pc # "create" BY <1>1, <2>6, Reads
    <3>2. run[p].pc \notin {"load", "sync", "syncing", "failed"} BY <2>6 DEF EndPlan, ReadRows, End
    <3> QED BY <1>2, <3>1, <3>2 DEF Prepared
  <2> QED BY <2>1, <2>2, <2>3, <2>4, <2>5, <2>6 DEF Step
<1> QED BY <1>3, <1>4

(* There is always a leader, though not always the same.                   *)
LEMMA LeadStep ==
    ASSUME SInv, BInv', \A p \in Proc : Prepared(p), NEW q \in Proc, Step(q), \E p \in Proc : Leads(p)
    PROVE  (\E p \in Proc : Leads(p))'
<1>1. BInv /\ (start.table => table)
  BY DEF SInv
<1>2. /\ \A p \in Proc : p # q => run'[p] = run[p]
      /\ UNCHANGED <<rollback, asked, soft, syncs, start>>
  BY <1>1, Frame
<1>3. PICK p \in Proc : Leads(p)
  OBVIOUS
<1>4. run[q] \in Run /\ Planned(run[q]) /\ Working(run[q], objects) /\ table \in BOOLEAN
  BY <1>1 DEF BInv, TypeOK
<1>5. CASE Execute(q)
  <2> DEFINE e == Head(run[q].todo)
  <2>1. /\ run'[q].made \subseteq run[q].made \cup {e} /\ objects' \subseteq objects \cup {e}
        /\ run'[q].pc = run[q].pc /\ run[q].pc \in {"syncing", "apply", "finish"}
        /\ run[q].todo # <<>> /\ table' = table
    BY <1>1, <1>5, Executes DEF Execute
  <2>2. ASSUME NEW x, Taken(x)', x # e PROVE Taken(x)
    BY <1>2, <2>1, <2>2 DEF Taken
  <2>3. CASE e \in Ahead(run[p])
    <3>1. /\ Ahead(run'[q]) \subseteq Ahead(run[p]) \ {e}
          /\ BeforeTable(run'[q]) => BeforeTable(run[p])
      BY <1>1, <1>5, <2>3, Overtakes
    <3>2. \A x \in Ahead(run'[q]) : ~Taken(x)' BY <1>3, <2>2, <3>1 DEF Leads
    <3>3. BeforeTable(run'[q]) => ~table' \/ start'.table BY <1>2, <1>3, <2>1, <3>1 DEF Leads
    <3> QED BY <2>1, <3>2, <3>3 DEF Leads
  <2>4. CASE e \notin Ahead(run[p])
    <3>1. e \in Ahead(run[q]) BY <1>4, <2>1, HeadAhead
    <3>2. p # q BY <2>4, <3>1
    <3>3. run'[p] = run[p] BY <1>2, <3>2
    <3>4. \A x \in Ahead(run'[p]) : ~Taken(x)' BY <1>3, <2>2, <2>4, <3>3 DEF Leads
    <3> QED BY <1>2, <1>3, <2>1, <3>3, <3>4 DEF Leads
  <2> QED BY <2>3, <2>4
<1>6. CASE ~Execute(q)
  <2>1. /\ \A x : Taken(x)' => Taken(x)
    <3>1. objects' \subseteq objects \cup run[q].made /\ run'[q].made \subseteq run[q].made
      <4>1. CASE Load(q) \/ syncApps(q) \/ FindTable(q) \/ CreateTable(q) \/ NextMigration(q) \/ Finish(q)
        BY <1>1, <4>1, Loads, Syncs, Tables, Takes, Finishes
      <4>2. CASE Synced(q) \/ Commit(q) \/ Record(q) \/ RecordReplacement(q)
        BY <1>1, <4>2, Syncends, Commits, Records, Replacing
      <4>3. CASE EndPlan(q) \/ ReadRows(q) \/ End(q) \/ Refused(q)
        BY <1>1, <4>3, Reads, Ends
      <4> QED BY <1>6, <4>1, <4>2, <4>3 DEF Step
    <3> QED BY <1>2, <3>1 DEF Taken
  <2>2. p = q => ~Refused(q)
    <3> SUFFICES ASSUME p = q, Refused(q) PROVE FALSE
      OBVIOUS
    <3>1. CASE run[q].pc = "create" /\ table
      <4>1. ~start.table BY <3>1 DEF Prepared
      <4> QED BY <1>3, <3>1, <4>1 DEF Leads, BeforeTable
    <3>2. CASE /\ run[q].pc \in {"syncing", "apply", "finish"} /\ run[q].todo # <<>>
               /\ Head(run[q].todo) \in objects
      <4>1. Head(run[q].todo) \in Ahead(run[q]) BY <1>4, <3>2, HeadAhead
      <4> QED BY <1>3, <3>2, <4>1 DEF Leads, Taken
    <3> QED BY <3>1, <3>2 DEF Refused
  <2>3. /\ run'[p].pc # "failed" /\ Ahead(run'[p]) \subseteq Ahead(run[p])
        /\ BeforeTable(run'[p]) => BeforeTable(run[p])
    <3>1. CASE p = q BY <1>1, <1>6, <2>2, <3>1, AheadShrinks
    <3>2. CASE p # q BY <1>2, <1>3, <3>2 DEF Leads
    <3> QED BY <3>1, <3>2
  <2>4. \A x \in Ahead(run'[p]) : ~Taken(x)' BY <1>3, <2>1, <2>3 DEF Leads
  <2>5. CASE table' = table
    <3>1. BeforeTable(run'[p]) => ~table' \/ start'.table BY <1>2, <1>3, <2>3, <2>5 DEF Leads
    <3> QED BY <2>3, <2>4, <3>1 DEF Leads
  <2>6. CASE table' # table
    <3>1. CreateTable(q)
      BY <2>6 DEF Step, Load, syncApps, Synced, FindTable, NextMigration, Execute, Finish,
         Commit, Record, EndPlan, ReadRows, RecordReplacement, End, Refused
    <3>2. run'[q].pc = "next" BY <1>1, <3>1, Tables
    <3>3. ~BeforeTable(run'[q]) BY <3>2 DEF BeforeTable
    <3>4. CASE BeforeTable(run[p])
      <4>1. Since(0) \subseteq Ahead(run[p]) BY <3>4, AheadIs, SinceZero DEF BeforeTable
      <4>2. run'[q] \in Run /\ Planned(run'[q]) BY DEF BInv, TypeOK
      <4>3. Ahead(run'[q]) \subseteq Since(0) BY <3>3, <4>2, AheadThings
      <4>4. \A x \in Ahead(run'[q]) : ~Taken(x)' BY <1>3, <2>1, <4>1, <4>3 DEF Leads
      <4> QED BY <3>2, <3>3, <4>4 DEF Leads
    <3>5. CASE ~BeforeTable(run[p])
      <4>1. ~BeforeTable(run'[p]) BY <2>3, <3>5
      <4> QED BY <2>3, <2>4, <4>1 DEF Leads
    <3> QED BY <3>4, <3>5
  <2> QED BY <2>5, <2>6
<1> QED BY <1>5, <1>6

(* Which migrations are begun, and who does the rest.  Free and Blocked    *)
(* look at the objects of the command's own migration only.                *)
LEMMA SameThere ==
    ASSUME NEW r \in Run, r.plan # <<>>, NEW O, NEW Q,
           Whole(Head(r.plan)) \cap O = Whole(Head(r.plan)) \cap Q
    PROVE  /\ Free(r, O) <=> Free(r, Q)
           /\ Blocked(r, O) <=> Blocked(r, Q)
<1>1. Head(r.plan) \in Mig /\ Rest(r) \subseteq Whole(Head(r.plan))
  BY RestWithin
<1>2. \A i \in DOMAIN Line(Head(r.plan)) : Line(Head(r.plan))[i] \in Whole(Head(r.plan))
  BY <1>1, Lines
<1>3. Free(r, O) <=> Free(r, Q)
  BY <1>1 DEF Free
<1>4. Blocked(r, O) <=> Blocked(r, Q)
  BY <1>2 DEF Blocked
<1> QED BY <1>3, <1>4

(* A migration that makes anything has a first statement.                  *)
LEMMA HasFirst ==
    ASSUME NEW k \in Mig, Whole(k) # {}
    PROVE  1 \in DOMAIN Line(k) /\ Line(k)[1] \in Whole(k)
<1>1. PICK i \in DOMAIN Line(k) : TRUE
  BY Lines
<1> DEFINE a == Len(Statements[k])
           b == Len(Deferred[k])
           D == DOMAIN Line(k)
<1>2. D = 1..(a + b) /\ a \in Nat /\ b \in Nat /\ i \in D
  BY <1>1, Lines
<1> HIDE DEF a, b, D
<1>3. 1 \in D
  BY ONLY <1>2
<1> QED BY <1>3, Lines DEF D

(* Nothing changes for a migration of which nothing is made, as long as    *)
(* the command that has the rest of it to make keeps at it.                *)
LEMMA BegunKept ==
    ASSUME BInv, NEW p \in Proc, Step(p), NEW k \in Mig, Begun(k),
           Whole(k) \cap objects' = Whole(k) \cap objects,
           ~rollback /\ InMigration(run[p]) /\ Head(run[p].plan) = k /\ Free(run[p], objects) =>
             \/ Whole(k) \subseteq objects'
             \/ InMigration(run'[p]) /\ Head(run'[p].plan) = k /\ Free(run'[p], objects')
    PROVE  Begun(k)'
<1>1. /\ \A q \in Proc : q # p => run'[q] = run[q]
      /\ rollback' = rollback /\ objects \subseteq objects'
  BY Frame
<1> SUFFICES ASSUME Whole(k) \cap objects' # {}, ~(Whole(k) \subseteq objects')
             PROVE  /\ Line(k)[1] \in objects'
                    /\ ~rollback /\ \E q \in Proc : /\ InMigration(run'[q]) /\ Head(run'[q].plan) = k
                                                    /\ Free(run'[q], objects')
  <2>1. CASE Whole(k) \subseteq objects' /\ Whole(k) \cap objects' # {}
    <3>1. Line(k)[1] \in objects' BY <1>1, <2>1 DEF Begun
    <3> QED BY <2>1, <3>1 DEF Begun
  <2> QED BY <1>1, <2>1 DEF Begun
<1>2. /\ Line(k)[1] \in objects /\ ~rollback
      /\ \E q \in Proc : /\ InMigration(run[q]) /\ Head(run[q].plan) = k /\ Free(run[q], objects)
  BY <1>1 DEF Begun
<1>3. PICK q \in Proc : InMigration(run[q]) /\ Head(run[q].plan) = k /\ Free(run[q], objects)
  BY <1>2
<1>4. InMigration(run'[q]) /\ Head(run'[q].plan) = k /\ Free(run'[q], objects')
  <2>1. CASE q = p BY <1>2, <1>3, <2>1
  <2>2. CASE q # p
    <3>1. run'[q] = run[q] BY <1>1, <2>2
    <3>2. run[q] \in Run /\ run[q].plan # <<>> BY <1>3 DEF BInv, TypeOK, Planned, InMigration
    <3>3. Free(run[q], objects') BY <1>3, <3>2, SameThere
    <3> QED BY <1>3, <3>1, <3>3
  <2> QED BY <2>1, <2>2
<1> QED BY <1>1, <1>2, <1>4

(* What Orderly asks of a step, beside the migrations that are begun.      *)
LEMMA OrderlyKept ==
    ASSUME BInv, Orderly, NEW p \in Proc, Step(p), \A k \in Mig : Begun(k)',
           \A k \in Mig : rows'[k] > 0 => rows[k] > 0 \/ SomeOf(k)',
           (run[p].pc = "record" => SomeOf(Head(run[p].plan)))',
           \A q \in Proc : ~rollback /\ InMigration(run'[q])
                             => Free(run'[q], objects') \/ Blocked(run'[q], objects')
    PROVE  Orderly'
<1>1. /\ \A q \in Proc : q # p => run'[q] = run[q]
      /\ rollback' = rollback /\ objects \subseteq objects'
  BY Frame
<1>2. \A k : SomeOf(k) => SomeOf(k)'
  BY <1>1 DEF SomeOf
<1>3. \A k \in Mig : rows'[k] > 0 => SomeOf(k)'
  BY <1>2 DEF Orderly
<1>4. ASSUME NEW q \in Proc PROVE (run[q].pc = "record" => SomeOf(Head(run[q].plan)))'
  <2>1. CASE q = p BY <2>1
  <2>2. CASE q # p
    <3>1. run'[q] = run[q] BY <1>1, <2>2
    <3>2. run[q].pc = "record" => SomeOf(Head(run[q].plan)) BY DEF Orderly
    <3> QED BY <1>1, <3>1, <3>2 DEF SomeOf
  <2> QED BY <2>1, <2>2
<1> QED BY <1>1, <1>3, <1>4 DEF Orderly

(* A step that makes no object of a migration.                             *)
LEMMA OrderlyQuiet ==
    ASSUME BInv, BInv', Orderly, NEW p \in Proc, Step(p),
           \A k \in Mig : Whole(k) \cap objects' = Whole(k) \cap objects,
           \A k \in Mig : rows'[k] > 0 => rows[k] > 0 \/ SomeOf(k)',
           (run[p].pc = "record" => SomeOf(Head(run[p].plan)))',
           ~rollback /\ InMigration(run'[p])
             => Free(run'[p], objects') \/ Blocked(run'[p], objects'),
           ~rollback /\ InMigration(run[p]) /\ Free(run[p], objects) =>
             \/ Whole(Head(run[p].plan)) \subseteq objects'
             \/ /\ InMigration(run'[p]) /\ Head(run'[p].plan) = Head(run[p].plan)
                /\ Free(run'[p], objects')
    PROVE  Orderly'
<1>1. \A q \in Proc : q # p => run'[q] = run[q]
  BY Frame
<1>2. ASSUME NEW k \in Mig PROVE Begun(k)'
  <2>1. Begun(k) BY DEF Orderly
  <2> QED BY <2>1, BegunKept
<1>3. ASSUME NEW q \in Proc, ~rollback, InMigration(run'[q])
      PROVE  Free(run'[q], objects') \/ Blocked(run'[q], objects')
  <2>1. CASE q = p BY <1>3, <2>1
  <2>2. CASE q # p
    <3>1. run'[q] = run[q] BY <1>1, <2>2
    <3>2. run[q] \in Run /\ run[q].plan # <<>> BY <1>3, <3>1 DEF BInv, TypeOK, Planned, InMigration
    <3>3. Free(run[q], objects) \/ Blocked(run[q], objects) BY <1>3, <3>1 DEF Orderly
    <3>4. Head(run[q].plan) \in Mig BY <3>2, RestWithin
    <3>5. Whole(Head(run[q].plan)) \cap objects' = Whole(Head(run[q].plan)) \cap objects BY <3>4
    <3> QED BY <3>1, <3>2, <3>3, <3>5, SameThere
  <2> QED BY <2>1, <2>2
<1> QED BY <1>2, <1>3, OrderlyKept

LEMMA OrderlyElsewhere ==
    ASSUME BInv, BInv', Orderly, NEW p \in Proc,
           \/ Load(p) \/ syncApps(p) \/ Synced(p) \/ FindTable(p) \/ CreateTable(p)
           \/ EndPlan(p) \/ ReadRows(p) \/ RecordReplacement(p) \/ End(p)
    PROVE  Orderly'
<1>1. Step(p)
  BY DEF Step
<1>2. ~InMigration(run[p]) /\ ~InMigration(run'[p]) /\ run'[p].pc # "record"
  <2>1. CASE Load(p) \/ syncApps(p) \/ Synced(p) \/ FindTable(p) \/ CreateTable(p)
    BY <2>1, Loads, Syncs, Syncends, Tables DEF InMigration
  <2>2. CASE EndPlan(p) \/ ReadRows(p) \/ End(p)
    <3>1. run'[p].pc \in {"read", "check", "ok"} BY <2>2, Reads
    <3>2. run[p].pc \in {"next", "read", "check"} BY <2>2 DEF EndPlan, ReadRows, End
    <3> QED BY <3>1, <3>2 DEF InMigration
  <2>3. CASE RecordReplacement(p) BY <2>3, Replacing DEF InMigration
  <2> QED BY <2>1, <2>2, <2>3
<1>3. \A k \in Mig : Whole(k) \cap objects' = Whole(k) \cap objects
  <2>1. CASE Synced(p)
    <3>1. run[p].pc = "syncing" /\ objects' = objects \cup run[p].made BY <2>1, Syncends
    <3>2. run[p].made \subseteq ToSet(Unmigrated) BY <3>1 DEF BInv, Working, Syncing
    <3> QED BY <3>1, <3>2, ObjectsAssumption
  <2>2. CASE ~Synced(p)
    <3>1. objects' = objects
      BY <2>2 DEF Load, syncApps, FindTable, CreateTable, EndPlan, ReadRows, RecordReplacement, End
    <3> QED BY <3>1
  <2> QED BY <2>1, <2>2
<1>4. \A k \in Mig : rows'[k] > 0 => rows[k] > 0
  <2>1. CASE RecordReplacement(p)
    <3>1. \A k \in Mig : rows'[k] = rows[k] BY <2>1, Replacing, FirstRunAssumption
    <3> QED BY <3>1
  <2>2. CASE ~RecordReplacement(p)
    <3>1. rows' = rows
      BY <2>2 DEF Load, syncApps, Synced, FindTable, CreateTable, EndPlan, ReadRows, End
    <3> QED BY <3>1
  <2> QED BY <2>1, <2>2
<1> QED BY <1>1, <1>2, <1>3, <1>4, OrderlyQuiet

(* The next migration: whole, begun by another, or all of it to be made.   *)
LEMMA OrderlyTakes ==
    ASSUME BInv, BInv', Orderly, NEW p \in Proc, NextMigration(p)
    PROVE  Orderly'
<1> DEFINE R == run'[p]
<1>0. PICK k \in Mig : k = Head(run[p].plan)
  BY Takes
<1>1. Step(p)
  BY DEF Step
<1>2. /\ run[p].pc = "next" /\ run[p].plan # <<>> /\ k \in Mig /\ R.plan = run[p].plan
      /\ \/ R.pc = "record" /\ DetectSoftApplied(k)
         \/ R.pc = "apply" /\ R.todo = Statements[k] /\ Past(R) = 0
      /\ objects' = objects /\ rows' = rows
  BY <1>0, Takes
<1>3. R \in Run
  BY DEF BInv, TypeOK
<1> HIDE DEF R
<1>4. ASSUME R.pc = "record" PROVE SomeOf(k)'
  <2>1. Looked[k] # {} /\ Looked[k] \subseteq objects BY <1>2, <1>4 DEF DetectSoftApplied
  <2>2. Looked[k] \subseteq Whole(k) BY <1>2, FirstRunAssumption DEF Whole
  <2>3. Whole(k) \cap objects # {} BY <2>1, <2>2
  <2> QED BY <1>2, <2>3 DEF SomeOf
<1>5. ASSUME InMigration(R) PROVE Free(R, objects) \/ Blocked(R, objects)
  <2>1. Past(R) = 0 /\ Head(R.plan) = k /\ R.plan # <<>> BY <1>0, <1>2, <1>5 DEF InMigration
  <2>2. CASE Whole(k) \cap objects = {}
    <3>1. Rest(R) \subseteq Whole(k) BY <1>3, <2>1, RestWithin
    <3> QED BY <2>2, <3>1 DEF Free
  <2>3. CASE Whole(k) \cap objects # {}
    <3>1. Line(k)[1] \in objects BY <1>2, <2>3 DEF Orderly, Begun
    <3>2. 1 \in DOMAIN Line(k) BY <2>3, HasFirst
    <3>3. Past(R) + 1 = 1 BY <2>1
    <3> QED BY <2>1, <3>1, <3>2, <3>3 DEF Blocked
  <2> QED BY <2>2, <2>3
<1>6. (run[p].pc = "record" => SomeOf(Head(run[p].plan)))'
  BY <1>0, <1>2, <1>4 DEF R
<1>7. InMigration(run'[p]) => Free(run'[p], objects') \/ Blocked(run'[p], objects')
  BY <1>2, <1>5 DEF R
<1>8. ~InMigration(run[p])
  BY <1>2 DEF InMigration
<1> QED BY <1>1, <1>2, <1>6, <1>7, <1>8, OrderlyQuiet

LEMMA OrderlyFinish ==
    ASSUME BInv, BInv', Orderly, NEW p \in Proc, Finish(p)
    PROVE  Orderly'
<1>1. Step(p)
  BY DEF Step
<1>2. /\ run[p].pc = "apply" /\ run'[p].pc = "finish" /\ run'[p].plan = run[p].plan
      /\ Past(run'[p]) = Past(run[p]) /\ objects' = objects /\ rows' = rows
  BY Finishes
<1>3. /\ Free(run'[p], objects') <=> Free(run[p], objects)
      /\ Blocked(run'[p], objects') <=> Blocked(run[p], objects)
  BY <1>2 DEF Free, Blocked, Rest
<1>4. InMigration(run[p]) /\ InMigration(run'[p])
  BY <1>2 DEF InMigration
<1>5. ~rollback => Free(run[p], objects) \/ Blocked(run[p], objects)
  BY <1>4 DEF Orderly
<1> QED BY <1>1, <1>2, <1>3, <1>4, <1>5, OrderlyQuiet

LEMMA OrderlyRecord ==
    ASSUME BInv, BInv', Orderly, NEW p \in Proc, Record(p)
    PROVE  Orderly'
<1>1. Step(p)
  BY DEF Step
<1>2. /\ run[p].pc = "record" /\ run'[p].pc = "next" /\ objects' = objects
      /\ \A j \in Mig : j # Head(run[p].plan) => rows'[j] = rows[j]
  BY Records
<1>3. ASSUME NEW k \in Mig, k = Head(run[p].plan) PROVE SomeOf(k)'
  <2>1. SomeOf(k) BY <1>2, <1>3 DEF Orderly
  <2> QED BY <1>2, <2>1 DEF SomeOf
<1>4. \A k \in Mig : rows'[k] > 0 => rows[k] > 0 \/ SomeOf(k)'
  BY <1>2, <1>3
<1>5. ~InMigration(run[p]) /\ ~InMigration(run'[p]) /\ run'[p].pc # "record"
  BY <1>2 DEF InMigration
<1> QED BY <1>1, <1>2, <1>4, <1>5, OrderlyQuiet

(* Whoever is refused had not the rest to make.                            *)
LEMMA OrderlyRefused ==
    ASSUME BInv, BInv', Orderly, NEW p \in Proc, Refused(p)
    PROVE  Orderly'
<1>1. Step(p)
  BY DEF Step
<1>2. run'[p].pc = "failed" /\ objects' = objects /\ rows' = rows
  BY Ends
<1>3. ASSUME InMigration(run[p]) PROVE ~Free(run[p], objects)
  <2>1. /\ run[p].pc \in {"apply", "finish"} /\ run[p].todo # <<>>
        /\ Head(run[p].todo) \in objects
    BY <1>3 DEF Refused, InMigration
  <2>2. run[p] \in Run /\ run[p].plan # <<>> /\ Applying(run[p], objects)
    BY <2>1 DEF BInv, TypeOK, Planned, Working
  <2>3. /\ Past(run[p]) \in Nat /\ Past(run[p]) + 1 \in DOMAIN Line(Head(run[p].plan))
        /\ Head(run[p].todo) = Line(Head(run[p].plan))[Past(run[p]) + 1]
    BY <2>1, <2>2, Place
  <2>4. Past(run[p]) + 1 > Past(run[p]) BY <2>3
  <2>5. Head(run[p].todo) \in Rest(run[p]) BY <2>3, <2>4 DEF Rest
  <2> QED BY <2>1, <2>5 DEF Free
<1>4. ~InMigration(run'[p]) /\ run'[p].pc # "record"
  BY <1>2 DEF InMigration
<1> QED BY <1>1, <1>2, <1>3, <1>4, OrderlyQuiet

LEMMA OrderlyCommit ==
    ASSUME BInv, BInv', Orderly, NEW p \in Proc, Commit(p)
    PROVE  Orderly'
<1>1. PICK k \in Mig : k = Head(run[p].plan)
  BY Commits
<1>2. /\ run[p].plan # <<>> /\ run[p].pc = "finish" /\ run[p].todo = <<>>
      /\ Applying(run[p], objects) /\ objects' = objects \cup run[p].made
      /\ \A j \in Mig : j # k => rows'[j] = rows[j]
      /\ run'[p].pc \in {"next", "record"} /\ (run'[p].pc = "record" => run'[p].plan = run[p].plan)
  BY <1>1, Commits
<1>3. run[p] \in Run /\ Step(p)
  BY DEF BInv, TypeOK, Step
<1>4. Whole(k) \subseteq objects' /\ run[p].made \subseteq Whole(k)
  BY <1>1, <1>2, <1>3, Complete DEF Applying
<1>5. SomeOf(k)'
  BY <1>4 DEF SomeOf
<1>6. \A j \in Mig : j # k => Whole(j) \cap objects' = Whole(j) \cap objects
  BY <1>2, <1>4, ObjectsAssumption
<1>7. ASSUME NEW j \in Mig PROVE Begun(j)'
  <2>1. CASE j = k
    <3>1. Whole(k) # {} => Line(k)[1] \in objects' BY <1>4, HasFirst
    <3> QED BY <1>4, <2>1, <3>1 DEF Begun
  <2>2. CASE j # k
    <3>1. Begun(j) BY DEF Orderly
    <3>2. Head(run[p].plan) # j BY <1>1, <2>2
    <3> QED BY <1>3, <1>6, <2>2, <3>1, <3>2, BegunKept
  <2> QED BY <2>1, <2>2
<1>8. ASSUME NEW q \in Proc, ~rollback, InMigration(run'[q])
      PROVE  Free(run'[q], objects') \/ Blocked(run'[q], objects')
  <2>1. q # p BY <1>2, <1>8 DEF InMigration
  <2>2. run'[q] = run[q] BY <1>3, <2>1, Frame
  <2>3. run[p].made = {} BY <1>8 DEF BInv
  <2>4. objects' = objects BY <1>2, <2>3
  <2> QED BY <1>8, <2>2, <2>4 DEF Orderly
<1>9. (run[p].pc = "record" => SomeOf(Head(run[p].plan)))'
  <2>1. run'[p].pc = "record" => k = Head(run'[p].plan) BY <1>1, <1>2
  <2> QED BY <1>5, <2>1
<1>10. \A j \in Mig : rows'[j] > 0 => rows[j] > 0 \/ SomeOf(j)'
  BY <1>2, <1>5
<1> QED BY <1>3, <1>7, <1>8, <1>9, <1>10, OrderlyKept

(* A statement on its own: it was the first of what was left to its        *)
(* command, and stops every other command that came as far.                *)
LEMMA OrderlyAlone ==
    ASSUME BInv, BInv', Orderly, NEW p \in Proc, Execute(p), ~rollback, InMigration(run[p])
    PROVE  Orderly'
<1>1. run[p].plan # <<>> /\ run[p] \in Run /\ Applying(run[p], objects) /\ Step(p)
  BY DEF BInv, TypeOK, Planned, Working, InMigration, Step
<1>2. PICK k \in Mig : k = Head(run[p].plan)
  BY <1>1, RestWithin
<1>3. PICK e : e = Head(run[p].todo)
  OBVIOUS
<1>4. /\ run'[p] \in Run /\ run'[p].pc = run[p].pc /\ run'[p].plan = run[p].plan
      /\ objects' = objects \cup {e} /\ e \notin objects /\ run[p].todo # <<>>
  BY <1>3, Executes
<1>5. Past(run'[p]) = Past(run[p]) + 1
  BY ExecutePast DEF InMigration
<1>6. /\ Past(run[p]) \in Nat /\ Past(run[p]) + 1 \in DOMAIN Line(k)
      /\ e = Line(k)[Past(run[p]) + 1]
  BY <1>1, <1>2, <1>3, <1>4, Place DEF InMigration
<1>7. /\ e \in Whole(k) /\ e \in Rest(run[p]) /\ Rest(run'[p]) = Rest(run[p]) \ {e}
  BY <1>1, <1>2, <1>4, <1>5, <1>6, RestOrder
<1>8. Free(run[p], objects)
  <2>1. Free(run[p], objects) \/ Blocked(run[p], objects) BY DEF Orderly
  <2>2. ~Blocked(run[p], objects) BY <1>2, <1>4, <1>6 DEF Blocked
  <2> QED BY <2>1, <2>2
<1>9. Free(run'[p], objects')
  BY <1>4, <1>7, <1>8 DEF Free
<1>10. \A j \in Mig : j # k => Whole(j) \cap objects' = Whole(j) \cap objects
  BY <1>4, <1>7, ObjectsAssumption
<1>11. rollback' = rollback /\ \A q \in Proc : q # p => run'[q] = run[q]
  BY <1>1, Frame
<1>12. InMigration(run'[p]) /\ Head(run'[p].plan) = k
  BY <1>2, <1>4 DEF InMigration
<1>13. Line(k)[1] \in objects'
  <2>1. CASE Past(run[p]) = 0 BY <1>4, <1>6, <2>1
  <2>2. CASE Past(run[p]) # 0
    <3>1. 1 <= Past(run[p]) BY <1>6, <2>2
    <3>2. 1 \in DOMAIN Line(k) BY <1>7, HasFirst
    <3>3. run[p].made = {} BY DEF BInv
    <3>4. Line(k)[1] \in objects \cup run[p].made BY <1>1, <1>2, <3>1, <3>2 DEF Applying
    <3> QED BY <1>4, <3>3, <3>4
  <2> QED BY <2>1, <2>2
<1>14. ASSUME NEW j \in Mig PROVE Begun(j)'
  <2>1. CASE j = k BY <1>9, <1>11, <1>12, <1>13, <2>1 DEF Begun
  <2>2. CASE j # k
    <3>1. Begun(j) BY DEF Orderly
    <3>2. Head(run[p].plan) # j BY <1>2, <2>2
    <3> QED BY <1>1, <1>10, <2>2, <3>1, <3>2, BegunKept
  <2> QED BY <2>1, <2>2
<1>15. ASSUME NEW q \in Proc, InMigration(run'[q])
       PROVE  Free(run'[q], objects') \/ Blocked(run'[q], objects')
  <2>1. CASE q = p BY <1>9, <2>1
  <2>2. CASE q # p
    <3>1. run'[q] = run[q] /\ InMigration(run[q]) BY <1>11, <1>15, <2>2
    <3>2. run[q] \in Run /\ run[q].plan # <<>> /\ Applying(run[q], objects) /\ run[q].made = {}
      BY <3>1 DEF BInv, TypeOK, Planned, Working, InMigration
    <3>3. Free(run[q], objects) \/ Blocked(run[q], objects) BY <3>1 DEF Orderly
    <3>4. CASE Head(run[q].plan) # k
      <4>1. Head(run[q].plan) \in Mig BY <3>2, RestWithin
      <4>2. Whole(Head(run[q].plan)) \cap objects' = Whole(Head(run[q].plan)) \cap objects
        BY <1>10, <3>4, <4>1
      <4> QED BY <3>1, <3>2, <3>3, <4>2, SameThere
    <3>5. CASE Blocked(run[q], objects) BY <1>4, <3>1, <3>5 DEF Blocked
    <3>6. CASE Head(run[q].plan) = k /\ Free(run[q], objects)
      <4>1. Past(run[q]) \in Nat BY <3>1, <3>2, Place DEF InMigration
      <4>2. Past(run[p]) >= Past(run[q])
        <5> SUFFICES ASSUME Past(run[p]) < Past(run[q]) PROVE FALSE
          BY <1>6, <4>1
        <5>1. Past(run[p]) + 1 <= Past(run[q]) BY <1>6, <4>1
        <5>2. e \in objects \cup run[q].made BY <1>6, <3>2, <3>6, <5>1 DEF Applying
        <5> QED BY <1>4, <3>2, <5>2
      <4>3. Past(run[p]) <= Past(run[q])
        <5> SUFFICES ASSUME Past(run[q]) < Past(run[p]) PROVE FALSE
          BY <1>6, <4>1
        <5> DEFINE n == Past(run[q]) + 1
        <5>1. n <= Past(run[p]) /\ n > Past(run[q]) BY <1>6, <4>1
        <5>2. n \in DOMAIN Line(k)
          <6> DEFINE a == Len(Statements[k])
                     b == Len(Deferred[k])
                     m == Past(run[p])
                     l == Past(run[q])
          <6>1. DOMAIN Line(k) = 1..(a + b) /\ a \in Nat /\ b \in Nat BY Lines
          <6>2. m + 1 \in DOMAIN Line(k) /\ m \in Nat /\ l \in Nat /\ l + 1 <= m BY <1>6, <4>1, <5>1
          <6> HIDE DEF a, b, m, l
          <6>3. m + 1 \in 1..(a + b) BY <6>1, <6>2
          <6>4. l + 1 \in 1..(a + b) BY ONLY <6>1, <6>2, <6>3
          <6> QED BY <6>1, <6>4 DEF l
        <5> HIDE DEF n
        <5>3. Line(k)[n] \in Rest(run[q]) BY <3>6, <5>1, <5>2 DEF Rest
        <5>4. run[p].made = {} BY DEF BInv
        <5>5. Line(k)[n] \in objects BY <1>1, <1>2, <5>1, <5>2, <5>4 DEF Applying
        <5> QED BY <3>6, <5>3, <5>5 DEF Free
      <4>4. Past(run[q]) = Past(run[p]) BY <1>6, <4>1, <4>2, <4>3
      <4> QED BY <1>4, <1>6, <3>1, <3>6, <4>4 DEF Blocked
    <3> QED BY <3>3, <3>4, <3>5, <3>6
  <2> QED BY <2>1, <2>2
<1>16. run'[p].pc # "record" /\ rows' = rows
  BY <1>4 DEF InMigration, Execute
<1> QED BY <1>1, <1>14, <1>15, <1>16, OrderlyKept

LEMMA OrderlyExecute ==
    ASSUME BInv, BInv', Orderly, NEW p \in Proc, Execute(p)
    PROVE  Orderly'
<1>1. /\ run'[p].pc = run[p].pc /\ run[p].todo # <<>> /\ run[p].pc \in {"syncing", "apply", "finish"}
      /\ objects' = IF rollback THEN objects ELSE objects \cup {Head(run[p].todo)}
  BY Executes
<1>2. Step(p) /\ rows' = rows
  BY DEF Step, Execute
<1>3. CASE rollback \/ ~InMigration(run[p])
  <2>1. ASSUME NEW k \in Mig PROVE Whole(k) \cap objects' = Whole(k) \cap objects
    <3>1. CASE rollback BY <1>1, <3>1
    <3>2. CASE ~rollback
      <4>1. run[p].pc = "syncing" BY <1>1, <1>3, <3>2 DEF InMigration
      <4>2. run[p].todo \in Seq(ToSet(Unmigrated)) BY <4>1 DEF BInv, Working, Syncing
      <4>3. Head(run[p].todo) \in ToSet(Unmigrated) BY <1>1, <4>2, HeadTail
      <4>4. Head(run[p].todo) \notin Whole(k) BY <4>3, ObjectsAssumption
      <4> QED BY <1>1, <4>4
    <3> QED BY <3>1, <3>2
  <2>2. run'[p].pc # "record" /\ (InMigration(run'[p]) <=> InMigration(run[p])) BY <1>1 DEF InMigration
  <2> QED BY <1>2, <1>3, <2>1, <2>2, OrderlyQuiet
<1>4. CASE ~rollback /\ InMigration(run[p])
  BY <1>4, OrderlyAlone
<1> QED BY <1>3, <1>4

LEMMA OrderlyStep ==
    ASSUME BInv, BInv', Orderly, NEW p \in Proc, Step(p)
    PROVE  Orderly'
BY OrderlyElsewhere, OrderlyTakes, OrderlyFinish, OrderlyRecord, OrderlyRefused, OrderlyCommit,
   OrderlyExecute DEF Step

LEMMA InitOne == Init => OInv
<1> SUFFICES ASSUME Init PROVE OInv
  OBVIOUS
<1>1. SInv /\ BInv
  BY InitSquash DEF SInv
<1>2. \A p \in Proc : run[p].pc = "load" /\ run[p].made = {}
  BY DEF Init, NotStarted
<1>3. \A p \in Proc : Prepared(p)
  BY <1>2 DEF Prepared
<1>4. ASSUME start.objects = {} PROVE (\E p \in Proc : Leads(p)) /\ Orderly
  <2>1. objects = {} /\ start \in Starts /\ (table => start.table)
    BY <1>4 DEF Init
  <2>2. ASSUME NEW p \in Proc PROVE Leads(p)
    <3>1. \A e : ~Taken(e) BY <1>2, <2>1 DEF Taken
    <3> QED BY <1>2, <2>1, <3>1 DEF Leads
  <2>3. ASSUME NEW k \in Mig PROVE Begun(k) /\ (rows[k] > 0 => SomeOf(k))
    <3>1. Begun(k) BY <2>1 DEF Begun
    <3>2. rows[k] > 0 => k \in start.rows BY DEF Init
    <3>3. rows[k] > 0 => Whole(k) = {} BY <1>4, <2>1, <3>2, StartAssumption
    <3> QED BY <3>1, <3>3 DEF SomeOf
  <2>4. Orderly BY <1>2, <2>3 DEF Orderly, InMigration
  <2>5. Proc # {} BY FirstRunAssumption
  <2> QED BY <2>2, <2>4, <2>5
<1> QED BY <1>1, <1>3, <1>4 DEF OInv

LEMMA OneNext ==
    ASSUME OInv, [Next]_vars
    PROVE  OInv'
<1>1. SInv /\ BInv /\ SInv' /\ BInv'
  BY SquashNext DEF OInv, SInv
<1>2. CASE UNCHANGED vars
  <2>1. \A p \in Proc : Prepared(p)' BY <1>2 DEF OInv, Prepared, vars
  <2>2. ASSUME NEW p \in Proc, Leads(p) PROVE Leads(p)' BY <1>2, <2>2 DEF Leads, Taken, vars
  <2>3. Orderly => Orderly' BY <1>2 DEF Orderly, Begun, SomeOf, vars
  <2>4. faults' = faults /\ start' = start BY <1>2 DEF vars
  <2> QED BY <1>1, <2>1, <2>2, <2>3, <2>4 DEF OInv
<1>3. ASSUME NEW p \in Proc, Step(p) \/ Fault(p) PROVE OInv'
  <2>1. \A q \in Proc : Prepared(q)' BY <1>1, <1>3, PreparedStep DEF OInv
  <2>2. start' = start BY <1>1, <1>3, Frame
  <2>3. ASSUME faults' = 0, start'.objects = {} PROVE (\E q \in Proc : Leads(q))' /\ Orderly'
    <3>1. Step(p) BY <1>1, <1>3, <2>3, Ends
    <3>2. faults' = faults
      BY <3>1 DEF Step, Load, syncApps, Synced, FindTable, CreateTable, NextMigration, Execute, Finish,
                  Commit, Record, EndPlan, ReadRows, RecordReplacement, End, Refused
    <3>3. (\E q \in Proc : Leads(q)) /\ Orderly BY <2>2, <2>3, <3>2 DEF OInv
    <3> QED BY <1>1, <3>1, <3>3, LeadStep, OrderlyStep DEF OInv
  <2> QED BY <1>1, <2>1, <2>3 DEF OInv
<1> QED BY <1>2, <1>3 DEF Next

(* Of commands that start at once on a database without tables, whatever   *)
(* each is asked for, one is through at the end with all that it was asked *)
(* for: there is always one that nobody is ahead of and that no statement  *)
(* stops, and a migration it found done was done by commands that are over.*)
THEOREM OneGetsThrough == Spec => []OneSucceeds
<1>1. OInv => OneSucceeds
  <2> SUFFICES ASSUME OInv, Over, faults = 0, start.objects = {}
               PROVE  \E p \in Proc : /\ run[p].pc = "ok"
                                      /\ \A k \in asked[p] : rows[k] > 0 /\ Whole(k) \subseteq objects
                                      /\ p \in syncs => ToSet(Unmigrated) \subseteq objects
    BY DEF OneSucceeds
  <2>1. Orderly /\ SInv /\ BInv BY DEF OInv, SInv
  <2>2. PICK p \in Proc : Leads(p) BY DEF OInv
  <2>3. run[p].pc = "ok" BY <2>2 DEF Leads, Over
  <2>4. run[p].plan = <<>> BY <2>1, <2>3 DEF BInv, Planned
  <2>5. asked[p] \subseteq Recorded \cup ToSet(<<>>) BY <2>1, <2>3, <2>4 DEF SInv, Asked
  <2>6. ToSet(<<>>) = {} BY DEF ToSet
  <2>7. ASSUME NEW k \in asked[p] PROVE rows[k] > 0 /\ Whole(k) \subseteq objects
    <3>1. rows[k] > 0 BY <2>5, <2>6 DEF Recorded
    <3>2. k \in Mig BY <2>1 DEF BInv, TypeOK
    <3>3. SomeOf(k) /\ Begun(k) BY <2>1, <3>1, <3>2 DEF Orderly
    <3>4. \A q \in Proc : ~InMigration(run[q]) BY DEF Over, InMigration
    <3>5. Whole(k) \subseteq objects BY <3>3, <3>4 DEF SomeOf, Begun
    <3> QED BY <3>1, <3>5
  <2>8. p \in syncs => ToSet(Unmigrated) \subseteq objects BY <2>3 DEF OInv, Prepared
  <2> QED BY <2>3, <2>7, <2>8
<1>2. OInv /\ [Next]_vars => OInv'
  BY OneNext
<1> QED BY InitOne, <1>1, <1>2, PTL DEF Spec
=============================================================================
