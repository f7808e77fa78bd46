-------------------------- MODULE Optimizer_proofs --------------------------
(***************************************************************************)
(* Optimize returns an equal or shorter operation list, whatever the       *)
(* operations, the project state and the length of the migration; and a    *)
(* list with the same effect, whenever the migration is ordinary.          *)
(*                                                                         *)
(* Folding makes operations that nobody wrote, so the lists of the passes  *)
(* are sequences over no set fixed beforehand; IsList says that there is   *)
(* one.                                                                    *)
(*                                                                         *)
(* The effect rests on two facts about operations.  Commute: an operation  *)
(* that is let through the next one changes places with it.  Reduces: the  *)
(* list that replaces two operations in a row does what they do.  From     *)
(* these, by induction on what lies between, MoveRight and MoveLeft bring  *)
(* the two that reduce together, and a pass keeps what the list leads to.  *)
(***************************************************************************)
EXTENDS OrdinaryMigration, SequenceTheorems, WellFoundedInduction, TLAPS

IsList(l) == \E S : l \in Seq(S)

(* The result of a reduction: a list of at most two operations.            *)
Short(r) == r = <<>> \/ (\E a : r = <<a>>) \/ (\E a, b : r = <<a, b>>)

(* Every operation's own reduction is short.                               *)
LEMMA OwnShort ==
    ASSUME NEW op, NEW x, NEW r \in OwnReduction(op, x)
    PROVE  Short(r)
<1>1. CASE r \in ReduceCreate(op, x)
  <2>1. r = <<>> \/ (\E a : r = <<a>>)
    BY <1>1, Zenon DEF ReduceCreate
  <2>2. QED BY <2>1 DEF Short
<1>2. CASE r \in ReduceRenameModel(op, x)
  BY <1>2, Zenon DEF ReduceRenameModel, When, Short
<1>3. CASE r \in ReduceOption(op, x)
  BY <1>3, Zenon DEF ReduceOption, When, Short
<1>4. CASE r \in ReduceAddIndex(op, x)
  BY <1>4, Zenon DEF ReduceAddIndex, When, Short
<1>5. CASE r \in ReduceRenameIndex(op, x)
  BY <1>5, Zenon DEF ReduceRenameIndex, When, Short
<1>6. CASE r \in ReduceAddConstraint(op, x)
  BY <1>6, Zenon DEF ReduceAddConstraint, When, Short
<1>7. CASE r \in ReduceAlterConstraint(op, x)
  BY <1>7, Zenon DEF ReduceAlterConstraint, When, Short
<1>8. CASE r \in ReduceAddField(op, x)
  BY <1>8, Zenon DEF ReduceAddField, When, Short
<1>9. CASE r \in ReduceRemoveField(op, x)
  BY <1>9, Zenon DEF ReduceRemoveField, When, Short
<1>10. CASE r \in ReduceAlterField(op, x)
  BY <1>10, Zenon DEF ReduceAlterField, When, Short
<1>11. CASE r \in ReduceRenameField(op, x)
  BY <1>11, Zenon DEF ReduceRenameField, When, Short
<1>12. QED
  BY <1>1, <1>2, <1>3, <1>4, <1>5, <1>6, <1>7, <1>8, <1>9, <1>10, <1>11
     DEF OwnReduction

(* So is the fallback that drops an elidable operation.                    *)
LEMMA ReplacementShort ==
    ASSUME NEW op, NEW x, NEW r \in Replacement(op, x)
    PROVE  Short(r)
<1>1. CASE OwnReduction(op, x) # {}
  <2>1. r \in OwnReduction(op, x)
    BY <1>1 DEF Replacement
  <2>2. QED BY <2>1, OwnShort
<1>2. CASE OwnReduction(op, x) = {}
  <2>1. r \in ReduceElidable(op, x)
    BY <1>2 DEF Replacement
  <2>2. QED BY <2>1, Zenon DEF ReduceElidable, When, Short
<1>3. QED BY <1>1, <1>2

(* The arithmetic of the next lemma.                                       *)
LEMMA SumCommutes ==
    ASSUME NEW m \in Nat, NEW n \in Nat
    PROVE  m + n = n + m
OBVIOUS

LEMMA TwoForTwo ==
    ASSUME NEW i \in Nat, NEW j \in Nat, NEW n \in Nat, NEW k \in 0..2
    PROVE  (i - 1) + (j - i - 1 + k) + (n - j) <= n
OBVIOUS

(* Replacing two operations of a list by a short one gives a list that is  *)
(* not longer, wherever the others end up.                                 *)
LEMMA ReplacedShorter ==
    ASSUME NEW S, NEW ops \in Seq(S), NEW i \in 1..Len(ops), NEW j \in (i + 1)..Len(ops),
           NEW r, Short(r)
    PROVE  /\ IsList(Replaced(ops, i, j, r))
           /\ Len(Replaced(ops, i, j, r)) <= Len(ops)
<1>1. PICK T : /\ S \subseteq T
               /\ r \in Seq(T)
               /\ Len(r) \in 0..2
  <2>1. CASE r = <<>>
    BY <2>1
  <2>2. ASSUME NEW a, r = <<a>>
        PROVE  \E T : S \subseteq T /\ r \in Seq(T) /\ Len(r) \in 0..2
    <3>1. r \in Seq(S \cup {a}) /\ Len(r) \in 0..2
      BY <2>2
    <3>2. S \subseteq S \cup {a}
      OBVIOUS
    <3>3. QED BY <3>1, <3>2, Zenon
  <2>3. ASSUME NEW a, NEW b, r = <<a, b>>
        PROVE  \E T : S \subseteq T /\ r \in Seq(T) /\ Len(r) \in 0..2
    <3>1. r \in Seq(S \cup {a, b}) /\ Len(r) \in 0..2
      BY <2>3
    <3>2. S \subseteq S \cup {a, b}
      OBVIOUS
    <3>3. QED BY <3>1, <3>2, Zenon
  <2>4. QED BY <2>1, <2>2, <2>3 DEF Short
<1>2. ops \in Seq(T) /\ Len(ops) \in Nat /\ i \in Nat /\ j \in Nat
  <2>1. \A k \in 1..Len(ops) : ops[k] \in T
    BY <1>1
  <2>2. QED BY <2>1
<1> DEFINE front == SubSeq(ops, 1, i - 1)
           between == SubSeq(ops, i + 1, j - 1)
           rest == SubSeq(ops, j + 1, Len(ops))
<1>3. front \in Seq(T) /\ Len(front) = i - 1
  BY <1>2
<1>4. between \in Seq(T) /\ Len(between) = j - i - 1
  BY <1>2
<1>5. rest \in Seq(T) /\ Len(rest) = Len(ops) - j
  BY <1>2
<1> DEFINE middle == IF MovesRight(ops, i, j) THEN between \o r ELSE r \o between
<1>6. middle \in Seq(T) /\ Len(middle) = Len(between) + Len(r)
  <2> HIDE DEF between
  <2>1. between \o r \in Seq(T) /\ Len(between \o r) = Len(between) + Len(r)
    BY <1>1, <1>4, ConcatProperties
  <2>2. r \o between \in Seq(T) /\ Len(r \o between) = Len(r) + Len(between)
    BY <1>1, <1>4, ConcatProperties
  <2>3. Len(r) + Len(between) = Len(between) + Len(r)
    BY <1>1, <1>4, SumCommutes, LenProperties
  <2>4. QED BY <2>1, <2>2, <2>3
<1>7. Replaced(ops, i, j, r) = front \o middle \o rest
  BY DEF Replaced
<1> HIDE DEF front, between, rest, middle
<1>8. front \o middle \in Seq(T) /\ Len(front \o middle) = Len(front) + Len(middle)
  BY <1>3, <1>6, ConcatProperties
<1>9. /\ front \o middle \o rest \in Seq(T)
      /\ Len(front \o middle \o rest) = Len(front \o middle) + Len(rest)
  BY <1>5, <1>8, ConcatProperties
<1>10. IsList(Replaced(ops, i, j, r))
  BY <1>7, <1>9, Zenon DEF IsList
<1>11. Len(Replaced(ops, i, j, r)) = (i - 1) + (j - i - 1 + Len(r)) + (Len(ops) - j)
  BY <1>3, <1>4, <1>5, <1>6, <1>7, <1>8, <1>9
<1>12. (i - 1) + (j - i - 1 + Len(r)) + (Len(ops) - j) <= Len(ops)
  BY <1>1, <1>2, TwoForTwo
<1>13. QED BY <1>10, <1>11, <1>12

(* One pass over a list gives a list that is not longer.                   *)
LEMMA PassShorter ==
    ASSUME NEW ops, IsList(ops), NEW new \in optimizeInner(ops)
    PROVE  IsList(new) /\ Len(new) <= Len(ops)
<1>1. PICK S : ops \in Seq(S)
  BY DEF IsList
<1> DEFINE AtPair(i, j) == {Replaced(ops, i, j, r) : r \in Replacement(ops[i], ops[j])}
           At(i) == UNION {AtPair(i, j) : j \in Partner(ops, i)}
<1>2. new \in UNION {At(i) : i \in First(Reducible(ops))}
  BY DEF optimizeInner
<1> HIDE DEF At
<1>3. PICK i \in First(Reducible(ops)) : new \in At(i)
  BY <1>2
<1> USE DEF At
<1> HIDE DEF AtPair
<1>4. PICK j \in Partner(ops, i) : new \in AtPair(i, j)
  BY <1>3
<1> USE DEF AtPair
<1>5. PICK r \in Replacement(ops[i], ops[j]) : new = Replaced(ops, i, j, r)
  BY <1>4
<1>6. i \in 1..Len(ops)
  BY <1>1, <1>3 DEF First, Reducible
<1>7. j \in (i + 1)..Len(ops)
  BY <1>3, <1>4 DEF Partner, First
<1>8. Short(r)
  BY <1>5, ReplacementShort
<1>9. QED BY <1>1, <1>5, <1>6, <1>7, <1>8, ReplacedShorter

-----------------------------------------------------------------------------

(* The written list is one of the operations at hand, at most MaxOps long, *)
(* and the list given to Optimize is the one that was written.             *)
THEOREM Typing == Spec => []TypeOK
<1>1. Init => TypeOK
  BY MaxOpsAssumption DEF Init, TypeOK
<1>2. TypeOK /\ [Next]_vars => TypeOK'
  <2> SUFFICES ASSUME TypeOK, [Next]_vars
               PROVE  TypeOK'
    OBVIOUS
  <2>1. ASSUME NEW op \in Op, Write(op)
        PROVE  TypeOK'
    <3>1. Append(written, op) \in Seq(Op) /\ Len(Append(written, op)) = Len(written) + 1
      BY DEF TypeOK
    <3>2. QED BY <2>1, <3>1, MaxOpsAssumption DEF TypeOK, Write
  <2>2. CASE Optimize
    BY <2>2 DEF TypeOK, Optimize
  <2>3. CASE Pass
    BY <2>3 DEF TypeOK, Pass
  <2>4. CASE Return
    BY <2>4 DEF TypeOK, Return
  <2>5. CASE UNCHANGED vars
    BY <2>5 DEF TypeOK, vars
  <2>6. QED BY <2>1, <2>2, <2>3, <2>4, <2>5 DEF Next
<1>3. QED BY <1>1, <1>2, PTL DEF Spec

(* The lists of the passes are lists.                                      *)
Lists == TypeOK /\ IsList(list)

LEMMA ListsInductive ==
    ASSUME Lists, [Next]_vars, TypeOK'
    PROVE  Lists'
<1>1. ASSUME NEW op \in Op, Write(op)
      PROVE  IsList(list)'
  <2>1. list' \in Seq(Op)
    BY <1>1 DEF Lists, TypeOK, Write
  <2>2. QED BY <2>1 DEF IsList
<1>2. CASE Pass
  BY <1>2, PassShorter DEF Lists, Pass
<1>3. CASE Optimize \/ Return \/ UNCHANGED vars
  BY <1>3 DEF Lists, Optimize, Return, vars
<1>4. QED BY <1>1, <1>2, <1>3 DEF Next, Lists

(* No pass of Optimize lengthens the list, for any operations.             *)
THEOREM NotLonger == Spec => NeverLonger
<1>1. Init => Lists
  <2>1. Init => TypeOK
    BY MaxOpsAssumption DEF Init, TypeOK
  <2>2. Init => IsList(list)
    <3>1. <<>> \in Seq(Op)
      OBVIOUS
    <3>2. QED BY <3>1 DEF Init, IsList
  <2>3. QED BY <2>1, <2>2 DEF Lists
<1>2. Lists /\ [Next]_vars /\ TypeOK' => Lists'
  BY ListsInductive
<1>3. Lists /\ [Next]_vars => [phase = "optimizing" => Len(list') <= Len(list)]_vars
  <2> SUFFICES ASSUME Lists, [Next]_vars, phase = "optimizing", ~UNCHANGED vars
               PROVE  Len(list') <= Len(list)
    OBVIOUS
  <2>1. CASE Pass
    BY <2>1, PassShorter DEF Lists, Pass
  <2>2. CASE Return
    <3>1. PICK S : list \in Seq(S)
      BY DEF Lists, IsList
    <3>2. Len(list) \in Nat
      BY <3>1
    <3>3. QED BY <2>2, <3>2 DEF Return
  <2>3. QED BY <2>1, <2>2 DEF Next, Write, Optimize
<1>4. QED BY <1>1, <1>2, <1>3, Typing, PTL DEF Spec, NeverLonger

-----------------------------------------------------------------------------
(* The effect of a list, from here to the end.                             *)

(* What an operation on one model makes of it.                             *)
Change(op, m) ==
    CASE op.op = "AlterOption" -> [m EXCEPT ![op.option] = op.value]
      [] Is(op, {"AddField", "AlterField"}) -> [m EXCEPT !.fields = Put(@, op.name, op.def)]
      [] op.op = "RemoveField" -> [m EXCEPT !.fields = Drop(@, op.name)]
      [] op.op = "RenameField" -> RenameInModel(m, op.name, op.new)
      [] op.op = "AddIndex" -> [m EXCEPT !.indexes = Put(@, op.name, op.def)]
      [] op.op = "RemoveIndex" -> [m EXCEPT !.indexes = Drop(@, op.name)]
      [] op.op = "RenameIndex" -> [m EXCEPT !.indexes = Rename(@, op.name, op.new)]
      [] op.op = "RemoveConstraint" -> [m EXCEPT !.constraints = Drop(@, op.name)]
      [] Is(op, {"AddConstraint", "AlterConstraint"}) -> [m EXCEPT !.constraints = Put(@, op.name, op.def)]

(* The operations on one model that is there and stays there.              *)
Local == FieldOps \cup IndexOps \cup ConstraintOps \cup {"AlterOption"}

(* Put, Drop and Rename give functions; what these are defined on, and     *)
(* what they hold.                                                         *)
LEMMA PutFcn == \A f, k, v : IsFcn(Put(f, k, v))
BY DEF Put, IsFcn

LEMMA PutIn == \A f, k, v, x : x \in DOMAIN Put(f, k, v) <=> x \in DOMAIN f \/ x = k
BY DEF Put

LEMMA PutAt ==
    \A f, k, v, x : x \in DOMAIN f \/ x = k => Put(f, k, v)[x] = IF x = k THEN v ELSE f[x]
BY DEF Put

LEMMA DropFcn == \A f, k : IsFcn(Drop(f, k))
BY DEF Drop, Restrict, IsFcn

LEMMA DropIn == \A f, k, x : x \in DOMAIN Drop(f, k) <=> x \in DOMAIN f /\ x # k
BY DEF Drop, Restrict

LEMMA DropAt == \A f, k, x : x \in DOMAIN f /\ x # k => Drop(f, k)[x] = f[x]
BY DEF Drop, Restrict

LEMMA RenameFcn == \A f, old, new : IsFcn(Rename(f, old, new))
BY PutFcn DEF Rename

LEMMA RenamedIn ==
    \A f, old, new, x : x \in DOMAIN Rename(f, old, new) <=> (x \in DOMAIN f /\ x # old) \/ x = new
BY PutIn, DropIn DEF Rename

LEMMA RenameAt ==
    \A f, old, new, x : (x \in DOMAIN f /\ x # old) \/ x = new =>
        Rename(f, old, new)[x] = IF x = new THEN f[old] ELSE f[x]
BY PutAt, DropAt, DropIn DEF Rename

(* Two functions that agree are one.                                       *)
LEMMA Same ==
    ASSUME NEW f, NEW g, IsFcn(f), IsFcn(g), DOMAIN f = DOMAIN g,
           \A x \in DOMAIN f : f[x] = g[x]
    PROVE  f = g
BY DEF IsFcn

(* A model stays well formed with other fields.                            *)
LEMMA FieldsOK ==
    ASSUME NEW G, NEW m, ModelOK(m, G), NEW g, IsFcn(g), \A x \in DOMAIN g : Pointer(g[x], G)
    PROVE  ModelOK([m EXCEPT !.fields = g], G)
BY DEF ModelOK, IsFcn, Pointers, Range

(* The same with other indexes.                                            *)
LEMMA IndexesOK ==
    ASSUME NEW G, NEW m, ModelOK(m, G), NEW g, IsFcn(g)
    PROVE  ModelOK([m EXCEPT !.indexes = g], G)
BY DEF ModelOK, IsFcn, Pointers, Range

(* The same with other constraints.                                        *)
LEMMA ConstraintsOK ==
    ASSUME NEW G, NEW m, ModelOK(m, G), NEW g, IsFcn(g),
           \A x \in DOMAIN g : Pointer(g[x], G) /\ "columns" \in DOMAIN g[x]
    PROVE  ModelOK([m EXCEPT !.constraints = g], G)
BY DEF ModelOK, IsFcn, Pointers, Range

(* The same with another option.                                           *)
LEMMA OptionOK ==
    ASSUME NEW G, NEW m, ModelOK(m, G), NEW o, NEW v, o \notin {"fields", "indexes", "constraints"}
    PROVE  ModelOK([m EXCEPT ![o] = v], G)
BY DEF ModelOK, IsFcn, Pointers, Range

(* The same with a column renamed wherever the model names it.             *)
LEMMA RenameInModelOK ==
    ASSUME NEW G, NEW m, ModelOK(m, G), NEW old \in DOMAIN m.fields, NEW new
    PROVE  ModelOK(RenameInModel(m, old, new), G)
<1> DEFINE f == Rename(m.fields, old, new)
           u == {RenameIn(t, old, new) : t \in m.unique}
           i == [x \in DOMAIN m.indexes |-> RenameIn(m.indexes[x], old, new)]
           c == [x \in DOMAIN m.constraints |-> RenameCovered(m.constraints[x], old, new)]
<1>1. IsFcn(f) /\ \A x \in DOMAIN f : Pointer(f[x], G)
  <2>1. \A x \in DOMAIN m.fields : Pointer(m.fields[x], G)
    BY DEF ModelOK, Pointers, Range
  <2> QED BY <2>1, RenameFcn, RenamedIn, RenameAt
<1>2. IsFcn(i)
  BY DEF IsFcn
<1>3. ASSUME NEW x \in DOMAIN m.constraints
      PROVE  LET d == RenameCovered(m.constraints[x], old, new)
             IN  Pointer(d, G) /\ "columns" \in DOMAIN d
  <2>1. Pointer(m.constraints[x], G) /\ "columns" \in DOMAIN m.constraints[x]
    BY DEF ModelOK, Pointers, Range
  <2> QED BY <2>1 DEF Pointer, IsFcn, RenameCovered
<1>4. IsFcn(c) /\ \A x \in DOMAIN c : Pointer(c[x], G) /\ "columns" \in DOMAIN c[x]
  BY <1>3 DEF IsFcn
<1>5. RenameInModel(m, old, new) = [[[[m EXCEPT !.fields = f] EXCEPT !.unique = u] EXCEPT !.indexes = i]
                               EXCEPT !.constraints = c]
  BY DEF RenameInModel, ModelOK
<1> HIDE DEF f, u, i, c
<1>6. ModelOK([m EXCEPT !.fields = f], G)
  BY <1>1, FieldsOK
<1>7. ModelOK([[m EXCEPT !.fields = f] EXCEPT !.unique = u], G)
  BY <1>6, OptionOK
<1>8. ModelOK([[[m EXCEPT !.fields = f] EXCEPT !.unique = u] EXCEPT !.indexes = i], G)
  BY <1>2, <1>7, IndexesOK
<1> DEFINE M == [[[m EXCEPT !.fields = f] EXCEPT !.unique = u] EXCEPT !.indexes = i]
<1>9. ModelOK(M, G) /\ RenameInModel(m, old, new) = [M EXCEPT !.constraints = c]
  BY <1>5, <1>8
<1> HIDE DEF M
<1> QED BY <1>4, <1>9, ConstraintsOK

(* Retargeting a foreign key that does not name the column changes nothing.*)
LEMMA TargetIs ==
    ASSUME NEW G, NEW x, Pointer(x, G), NEW key, NEW old, NEW new, <<key, old>> \in G
    PROVE  RenameTarget(x, key, old, new) = x
<1>1. x.to = key => old \notin x.toFields
  BY DEF Pointer
<1>2. x.to = key => RenameIn(x.toFields, old, new) = x.toFields
  BY <1>1 DEF RenameIn, Swap
<1>3. RenameTarget(x, key, old, new) = [x EXCEPT !.toFields = x.toFields]
  BY <1>2 DEF RenameTarget
<1> QED BY <1>3 DEF Pointer, IsFcn

(* So retargeting the foreign keys of a model changes nothing.             *)
LEMMA RetargetedIs ==
    ASSUME NEW G, NEW m, ModelOK(m, G), NEW key, NEW old, NEW new, <<key, old>> \in G
    PROVE  RenameTargets(m, key, old, new) = m
<1>1. [f \in DOMAIN m.fields |-> RenameTarget(m.fields[f], key, old, new)] = m.fields
  <2>1. \A f \in DOMAIN m.fields : RenameTarget(m.fields[f], key, old, new) = m.fields[f]
    BY TargetIs DEF ModelOK, Pointers, Range
  <2> QED BY <2>1 DEF ModelOK, IsFcn
<1>2. [c \in DOMAIN m.constraints |-> RenameTarget(m.constraints[c], key, old, new)] = m.constraints
  <2>1. \A c \in DOMAIN m.constraints : RenameTarget(m.constraints[c], key, old, new) = m.constraints[c]
    BY TargetIs DEF ModelOK, Pointers, Range
  <2> QED BY <2>1 DEF ModelOK, IsFcn
<1> QED BY <1>1, <1>2 DEF ModelOK, IsFcn, RenameTargets

(* A RenameField of a column that nothing points at changes one model.     *)
LEMMA RenameFieldIs ==
    ASSUME NEW G, NEW s, StateOK(s, G), NEW n, NEW old, NEW new, Lower[n] \in DOMAIN s,
           <<Lower[n], old>> \in G, old \in DOMAIN s[Lower[n]].fields
    PROVE  RenameField(s, n, old, new) = Put(s, Lower[n], RenameInModel(s[Lower[n]], old, new))
<1> DEFINE key == Lower[n]
           renamed == [s EXCEPT ![key] = RenameInModel(@, old, new)]
<1>1. \A k \in DOMAIN s : ModelOK(renamed[k], G)
  <2>1. ModelOK(RenameInModel(s[key], old, new), G)
    BY RenameInModelOK DEF StateOK
  <2> QED BY <2>1 DEF StateOK
<1>2. renamed = Put(s, key, RenameInModel(s[key], old, new))
  BY DEF Put, StateOK, IsFcn
<1>3. DOMAIN renamed = DOMAIN s /\ IsFcn(renamed)
  BY DEF IsFcn
<1>4. RenameField(s, n, old, new) = [k \in DOMAIN s |-> RenameTargets(renamed[k], key, old, new)]
  BY DEF RenameField
<1> HIDE DEF renamed
<1>5. \A k \in DOMAIN s : RenameTargets(renamed[k], key, old, new) = renamed[k]
  BY <1>1, RetargetedIs
<1>6. RenameField(s, n, old, new) = [k \in DOMAIN s |-> renamed[k]]
  BY <1>4, <1>5
<1> QED BY <1>2, <1>3, <1>6 DEF IsFcn

(* What an operation on one model does to the project state.               *)
LEMMA ForwardIs ==
    ASSUME NEW G, NEW R, NEW s, StateOK(s, G), NEW op, SoundPlain(op, G, R),
           Is(op, Local), ~Fails(op, s), ~NameTaken(op, s)
    PROVE  /\ Key(op) \in DOMAIN s
           /\ PlainForwards(s, op) = Put(s, Key(op), Change(op, s[Key(op)]))
<1> USE DEF Is, FieldOps, IndexOps, ConstraintOps
<1>1. Key(op) \in DOMAIN s
  BY DEF Fails, Local
<1>2. ASSUME NEW m PROVE [s EXCEPT ![Key(op)] = m] = Put(s, Key(op), m)
  BY <1>1 DEF Put, StateOK, IsFcn
<1>3. CASE op.op = "AlterOption"
  BY <1>1, <1>2, <1>3 DEF PlainForwards, ModelForwards, AlterOption, Key, Change
<1>4. CASE Is(op, {"AddField", "AlterField"})
  BY <1>1, <1>2, <1>4 DEF PlainForwards, FieldForwards, PutField, Key, Change, Stored, SoundPlain, SoundField
<1>5. CASE op.op = "RemoveField"
  BY <1>1, <1>2, <1>5 DEF PlainForwards, FieldForwards, RemoveField, Key, Change
<1>6. CASE op.op = "RenameField"
  <2>1. <<Key(op), op.name>> \in G /\ op.name \in DOMAIN s[Key(op)].fields
    BY <1>6 DEF SoundPlain, SoundField, Fails
  <2>2. PlainForwards(s, op) = RenameField(s, op.model, op.name, op.new)
    BY <1>6 DEF PlainForwards, FieldForwards
  <2>3. Change(op, s[Key(op)]) = RenameInModel(s[Key(op)], op.name, op.new)
    BY <1>6 DEF Change
  <2> QED BY <1>1, <2>1, <2>2, <2>3, RenameFieldIs DEF Key
<1>7. CASE op.op = "AddIndex"
  BY <1>1, <1>2, <1>7 DEF PlainForwards, IndexForwards, AddPart, Key, Change
<1>8. CASE op.op = "RemoveIndex"
  BY <1>1, <1>2, <1>8 DEF PlainForwards, IndexForwards, RemovePart, Key, Change
<1>9. CASE op.op = "RenameIndex"
  <2>1. op.name \in DOMAIN s[Key(op)].indexes
    BY <1>9 DEF NameTaken
  <2> QED BY <1>1, <1>2, <1>9, <2>1 DEF PlainForwards, IndexForwards, RenameIndex, Key, Change
<1>10. CASE op.op = "AddConstraint"
  BY <1>1, <1>2, <1>10 DEF PlainForwards, ConstraintForwards, AddPart, Key, Change
<1>11. CASE op.op = "RemoveConstraint"
  BY <1>1, <1>2, <1>11 DEF PlainForwards, ConstraintForwards, RemovePart, Key, Change
<1>12. CASE op.op = "AlterConstraint"
  <2>1. op.name \in DOMAIN s[Key(op)].constraints
    BY <1>12 DEF NameTaken
  <2> QED BY <1>1, <1>2, <1>12, <2>1 DEF PlainForwards, ConstraintForwards, AlterConstraint, Key, Change
<1> QED BY <1>1, <1>3, <1>4, <1>5, <1>6, <1>7, <1>8, <1>9, <1>10, <1>11, <1>12 DEF Local

(* What an operation makes of a well formed model is well formed.          *)
LEMMA ChangeOK ==
    ASSUME NEW G, NEW R, NEW m, ModelOK(m, G), NEW op, SoundPlain(op, G, R), Is(op, Local),
           Is(op, {"RenameField"}) => op.name \in DOMAIN m.fields,
           Is(op, {"RenameIndex"}) => op.name \in DOMAIN m.indexes
    PROVE  ModelOK(Change(op, m), G)
<1> USE DEF Is, FieldOps, IndexOps, ConstraintOps
<1>0. /\ \A f \in DOMAIN m.fields : Pointer(m.fields[f], G)
      /\ \A c \in DOMAIN m.constraints : Pointer(m.constraints[c], G) /\ "columns" \in DOMAIN m.constraints[c]
  BY DEF ModelOK, Pointers, Range
<1>1. CASE op.op = "AlterOption"
  BY <1>1, OptionOK DEF Change, SoundPlain, SoundOption
<1>2. CASE op.op \in {"AddField", "AlterField"}
  <2>1. Pointer(op.def, G)
    BY <1>2 DEF SoundPlain, SoundField
  <2>2. \A f \in DOMAIN Put(m.fields, op.name, op.def) : Pointer(Put(m.fields, op.name, op.def)[f], G)
    BY <1>0, <2>1, PutIn, PutAt
  <2> QED BY <1>2, <2>2, FieldsOK, PutFcn DEF Change
<1>3. CASE op.op = "RemoveField"
  <2>2. \A f \in DOMAIN Drop(m.fields, op.name) : Pointer(Drop(m.fields, op.name)[f], G)
    BY <1>0, DropIn, DropAt
  <2> QED BY <1>3, <2>2, FieldsOK, DropFcn DEF Change
<1>4. CASE op.op = "RenameField"
  BY <1>4, RenameInModelOK DEF Change
<1>5. CASE op.op \in {"AddIndex", "RemoveIndex", "RenameIndex"}
  BY <1>5, IndexesOK, PutFcn, DropFcn, RenameFcn DEF Change
<1>6. CASE op.op \in {"AddConstraint", "AlterConstraint"}
  <2>1. Pointer(op.def, G) /\ "columns" \in DOMAIN op.def
    BY <1>6 DEF SoundPlain, SoundPart, SoundConstraint
  <2>2. \A c \in DOMAIN Put(m.constraints, op.name, op.def) :
           /\ Pointer(Put(m.constraints, op.name, op.def)[c], G)
           /\ "columns" \in DOMAIN Put(m.constraints, op.name, op.def)[c]
    BY <1>0, <2>1, PutIn, PutAt
  <2> QED BY <1>6, <2>2, ConstraintsOK, PutFcn DEF Change
<1>7. CASE op.op = "RemoveConstraint"
  <2>2. \A c \in DOMAIN Drop(m.constraints, op.name) :
           /\ Pointer(Drop(m.constraints, op.name)[c], G)
           /\ "columns" \in DOMAIN Drop(m.constraints, op.name)[c]
    BY <1>0, DropIn, DropAt
  <2> QED BY <1>7, <2>2, ConstraintsOK, DropFcn DEF Change
<1> QED BY <1>1, <1>2, <1>3, <1>4, <1>5, <1>6, <1>7 DEF Local

-----------------------------------------------------------------------------
(* The operations that may be let through, DeleteModel apart.              *)
Roams == {"CreateModel", "AlterOption"} \cup FieldOps

(* The operation finds the columns it names, and no other by a new name.   *)
FitsModel(op, m) ==
    /\ Is(op, {"AddField"}) => op.name \notin DOMAIN m.fields
    /\ Is(op, {"AlterField", "RemoveField", "RenameField"}) => op.name \in DOMAIN m.fields
    /\ Is(op, {"RenameField"}) => op.new \notin DOMAIN m.fields \/ op.new = op.name

(* The operation finds its model, or no model by the name of a new one.    *)
Fits(op, s) ==
    IF Is(op, {"CreateModel"}) THEN Key(op) \notin DOMAIN s
    ELSE Key(op) \in DOMAIN s /\ FitsModel(op, s[Key(op)])

(* The model as the operation leaves it.                                   *)
NewModel(op, s) ==
    IF Is(op, {"CreateModel"}) THEN Put(op.def, "name", op.model) ELSE Change(op, s[Key(op)])

(* For these operations that is what Fails and NameTaken ask.              *)
LEMMA FitsIs ==
    ASSUME NEW op, NEW s, Is(op, Roams)
    PROVE  Fits(op, s) <=> ~Fails(op, s) /\ ~NameTaken(op, s)
<1> USE DEF Is, FieldOps, IndexOps, ConstraintOps
<1>1. CASE op.op = "CreateModel"
  BY <1>1 DEF Fits, Fails, NameTaken
<1>2. CASE op.op = "AlterOption"
  BY <1>2 DEF Fits, FitsModel, Fails, NameTaken
<1>3. CASE op.op \in FieldOps
  BY <1>3 DEF Fits, FitsModel, Fails, NameTaken
<1> QED BY <1>1, <1>2, <1>3 DEF Roams

(* They put the model back as they leave it and change no other.           *)
LEMMA RoamsForward ==
    ASSUME NEW G, NEW R, NEW s, StateOK(s, G), NEW op, SoundPlain(op, G, R), Is(op, Roams), Fits(op, s)
    PROVE  PlainForwards(s, op) = Put(s, Key(op), NewModel(op, s))
<1>1. CASE op.op = "CreateModel"
  BY <1>1 DEF PlainForwards, ModelForwards, AddModel, NewModel, Is, FieldOps, IndexOps, ConstraintOps, Key
<1>2. CASE op.op # "CreateModel"
  <2>1. Is(op, Local)
    BY <1>2 DEF Is, Roams, Local
  <2> QED BY <1>2, <2>1, FitsIs, ForwardIs DEF NewModel, Is
<1> QED BY <1>1, <1>2

(* When they run.                                                          *)
LEMMA RoamsRuns ==
    ASSUME NEW G, NEW R, NEW s, StateOK(s, G), NEW op, SoundPlain(op, G, R), Is(op, Roams)
    PROVE  PlainRuns(op, s) <=> /\ Fits(op, s)
                                /\ Renders(Put(s, Key(op), NewModel(op, s)))
                                /\ ColumnsExist(Put(s, Key(op), NewModel(op, s)))
BY FitsIs, RoamsForward DEF PlainRuns

(* A model with its name is well formed.                                   *)
LEMMA NamedOK ==
    ASSUME NEW G, NEW m, ModelOK(m, G), NEW n
    PROVE  ModelOK(Put(m, "name", n), G)
<1> DEFINE p == Put(m, "name", n)
<1>1. /\ IsFcn(p) /\ {"fields", "unique", "indexes", "constraints"} \subseteq DOMAIN p
      /\ p.fields = m.fields /\ p.indexes = m.indexes /\ p.constraints = m.constraints
  BY PutFcn, PutIn, PutAt DEF ModelOK
<1> HIDE DEF p
<1>2. ModelOK(p, G)
  BY <1>1 DEF ModelOK, Pointers
<1> QED BY <1>2 DEF p

(* The model as such an operation leaves it is well formed.                *)
LEMMA NewOK ==
    ASSUME NEW G, NEW R, NEW s, StateOK(s, G), NEW op, SoundPlain(op, G, R), Is(op, Roams), Fits(op, s)
    PROVE  ModelOK(NewModel(op, s), G)
<1>1. CASE op.op = "CreateModel"
  BY <1>1, NamedOK DEF NewModel, Is, SoundPlain, SoundCreate, FieldOps, IndexOps, ConstraintOps
<1>2. CASE op.op # "CreateModel"
  BY <1>2, ChangeOK DEF NewModel, Fits, FitsModel, Is, Roams, Local, StateOK, FieldOps, IndexOps, ConstraintOps
<1> QED BY <1>1, <1>2

(* A state stays well formed with such a model in it.                      *)
LEMMA PutStateOK ==
    ASSUME NEW G, NEW s, StateOK(s, G), NEW k, NEW m, ModelOK(m, G)
    PROVE  StateOK(Put(s, k, m), G)
BY PutFcn, PutIn, PutAt DEF StateOK

(* The same without a model.                                               *)
LEMMA DropStateOK ==
    ASSUME NEW G, NEW s, StateOK(s, G), NEW k
    PROVE  StateOK(Drop(s, k), G)
BY DropFcn, DropIn, DropAt DEF StateOK

(* An operation that runs leads from a good state to a good state.         *)
LEMMA PlainGood ==
    ASSUME NEW G, NEW R, NEW s, Good(s, G), NEW op, SoundPlain(op, G, R), PlainRuns(op, s)
    PROVE  Good(PlainForwards(s, op), G)
<1>1. StateOK(PlainForwards(s, op), G)
  <2>1. CASE op.op = "DeleteModel"
    BY <2>1, DropStateOK DEF PlainForwards, ModelForwards, RemoveModel, Is, FieldOps, IndexOps, ConstraintOps, Good
  <2>2. CASE op.op = "CreateModel"
    <3>1. Is(op, Roams) /\ Fits(op, s)
      BY <2>2, FitsIs DEF Is, Roams, PlainRuns
    <3> QED BY <3>1, RoamsForward, NewOK, PutStateOK DEF Good
  <2>3. CASE Is(op, Local)
    <3>1. /\ Key(op) \in DOMAIN s
          /\ PlainForwards(s, op) = Put(s, Key(op), Change(op, s[Key(op)]))
      BY <2>3, ForwardIs DEF Good, PlainRuns
    <3>2. /\ Is(op, {"RenameField"}) => op.name \in DOMAIN s[Key(op)].fields
          /\ Is(op, {"RenameIndex"}) => op.name \in DOMAIN s[Key(op)].indexes
      BY DEF PlainRuns, Fails, NameTaken, Is, FieldOps
    <3>3. ModelOK(Change(op, s[Key(op)]), G)
      BY <2>3, <3>1, <3>2, ChangeOK DEF Good, StateOK
    <3> QED BY <3>1, <3>3, PutStateOK DEF Good
  <2> QED BY <2>1, <2>2, <2>3 DEF SoundPlain, Is, Local
<1>2. Renders(PlainForwards(s, op)) /\ ColumnsExist(PlainForwards(s, op))
  BY DEF PlainRuns
<1> QED BY <1>1, <1>2 DEF Good

-----------------------------------------------------------------------------
(* The references of one model, and whether a reference is found.          *)
Finds(x, s) == x.to # None => x.to \in DOMAIN s /\ x.toFields \subseteq DOMAIN s[x.to].fields
(* Indexes, constraints and unique sets cover columns that are there.      *)
Covers(m) == CoveredColumns(m) \subseteq DOMAIN m.fields

(* renderApps succeeds when all references are found.                      *)
LEMMA RendersIs ==
    ASSUME NEW s
    PROVE  Renders(s) <=> \A k \in DOMAIN s : \A x \in Pointers(s[k]) : Finds(x, s)
BY DEF Renders, Finds

(* And the columns exist when every model covers its own.                  *)
LEMMA ColumnsExistIs ==
    ASSUME NEW s
    PROVE  ColumnsExist(s) <=> \A k \in DOMAIN s : Covers(s[k])
BY DEF ColumnsExist, Covers

(* The fields of a changed model.                                          *)
FieldsOf(op, f) ==
    CASE Is(op, {"AddField", "AlterField"}) -> Put(f, op.name, op.def)
      [] op.op = "RemoveField" -> Drop(f, op.name)
      [] op.op = "RenameField" -> Rename(f, op.name, op.new)
      [] op.op = "AlterOption" -> f

(* The fields of a changed model are these.                                *)
LEMMA ChangeFields ==
    ASSUME NEW G, NEW R, NEW m, ModelOK(m, G), NEW op, SoundPlain(op, G, R),
           Is(op, FieldOps \cup {"AlterOption"})
    PROVE  Change(op, m).fields = FieldsOf(op, m.fields)
<1> USE DEF Is, FieldOps, IndexOps, ConstraintOps
<1>1. CASE op.op = "AlterOption"
  BY <1>1 DEF Change, FieldsOf, SoundPlain, SoundOption, ModelOK
<1>2. CASE op.op \in {"AddField", "AlterField"}
  BY <1>2 DEF Change, FieldsOf, ModelOK
<1>3. CASE op.op = "RemoveField"
  BY <1>3 DEF Change, FieldsOf, ModelOK
<1>4. CASE op.op = "RenameField"
  BY <1>4 DEF Change, FieldsOf, ModelOK, RenameInModel
<1> QED BY <1>1, <1>2, <1>3, <1>4

(* Which fields they are.                                                  *)
LEMMA FieldsOfIn ==
    ASSUME NEW op, NEW f, Is(op, FieldOps \cup {"AlterOption"}), NEW g
    PROVE  g \in DOMAIN FieldsOf(op, f) <=>
              \/ g \in DOMAIN f /\ ~(Is(op, {"RemoveField", "RenameField"}) /\ g = op.name)
              \/ Is(op, {"AddField", "AlterField"}) /\ g = op.name
              \/ Is(op, {"RenameField"}) /\ g = op.new
BY PutIn, DropIn, RenamedIn DEF FieldsOf, Is, FieldOps

(* What the pointers of a changed model point at was pointed at before, or *)
(* is what the operation says.                                             *)
LEMMA ChangePointers ==
    ASSUME NEW G, NEW R, NEW m, ModelOK(m, G), NEW op, SoundPlain(op, G, R),
           Is(op, FieldOps \cup {"AlterOption"}), FitsModel(op, m), NEW x \in Pointers(Change(op, m))
    PROVE  \/ \E y \in Pointers(m) : y.to = x.to /\ y.toFields = x.toFields
           \/ Is(op, {"AddField", "AlterField"}) /\ x = op.def
<1> USE DEF Is, FieldOps, IndexOps, ConstraintOps
<1>1. CASE op.op = "AlterOption"
  BY <1>1 DEF Change, SoundPlain, SoundOption, ModelOK, Pointers
<1>2. CASE op.op \in {"AddField", "AlterField"}
  <2>1. /\ Change(op, m).fields = Put(m.fields, op.name, op.def)
        /\ Change(op, m).constraints = m.constraints
    BY <1>2 DEF Change, ModelOK
  <2>2. CASE x \in Range(m.constraints)
    BY <2>2 DEF Pointers
  <2>3. CASE x \in Range(Put(m.fields, op.name, op.def))
    <3>1. x = op.def \/ x \in Range(m.fields)
      BY <2>3, PutIn, PutAt DEF Range
    <3> QED BY <1>2, <3>1 DEF Pointers
  <2> QED BY <2>1, <2>2, <2>3 DEF Pointers
<1>3. CASE op.op = "RemoveField"
  BY <1>3, DropIn, DropAt DEF Change, ModelOK, Pointers, Range
<1>4. CASE op.op = "RenameField"
  <2> DEFINE n == Change(op, m)
  <2>1. /\ n.fields = Rename(m.fields, op.name, op.new)
        /\ n.constraints = [c \in DOMAIN m.constraints |-> RenameCovered(m.constraints[c], op.name, op.new)]
    BY <1>4 DEF Change, ModelOK, RenameInModel
  <2>2. x \in Range(n.fields) \/ x \in Range(n.constraints)
    BY DEF Pointers
  <2>3. CASE x \in Range(n.fields)
    <3>1. PICK f \in DOMAIN n.fields : x = n.fields[f]
      BY <2>3 DEF Range
    <3>2. x \in Range(m.fields)
      BY <1>4, <2>1, <3>1, RenamedIn, RenameAt DEF FitsModel, Range
    <3> QED BY <3>2 DEF Pointers
  <2>4. CASE x \in Range(n.constraints)
    <3>1. PICK c \in DOMAIN m.constraints : x = RenameCovered(m.constraints[c], op.name, op.new)
      BY <2>1, <2>4 DEF Range
    <3>2. x.to = m.constraints[c].to /\ x.toFields = m.constraints[c].toFields
      BY <3>1 DEF RenameCovered
    <3> QED BY <3>2 DEF Pointers, Range
  <2> QED BY <2>2, <2>3, <2>4
<1> QED BY <1>1, <1>2, <1>3, <1>4

(* What a reference finds it still finds after an operation that removes   *)
(* no model.                                                               *)
LEMMA StillFinds ==
    ASSUME NEW G, NEW R, NEW s, StateOK(s, G), NEW op, SoundPlain(op, G, R), Is(op, Roams), Fits(op, s),
           NEW x, Finds(x, s), \A g \in x.toFields : <<x.to, g>> \notin G
    PROVE  Finds(x, Put(s, Key(op), NewModel(op, s)))
<1> DEFINE t == Put(s, Key(op), NewModel(op, s))
<1> SUFFICES ASSUME x.to # None
             PROVE  x.to \in DOMAIN t /\ \A g \in x.toFields : g \in DOMAIN t[x.to].fields
  BY DEF Finds
<1>1. x.to \in DOMAIN s /\ \A g \in x.toFields : g \in DOMAIN s[x.to].fields
  BY DEF Finds
<1>2. x.to \in DOMAIN t
  BY <1>1, PutIn
<1>3. CASE x.to # Key(op)
  BY <1>1, <1>2, <1>3, PutAt
<1>4. CASE x.to = Key(op)
  <2>1. Is(op, FieldOps \cup {"AlterOption"}) /\ ~Is(op, {"CreateModel"})
    BY <1>1, <1>4 DEF Fits, Is, Roams, FieldOps
  <2>2. t[x.to] = Change(op, s[Key(op)])
    BY <1>4, <2>1, PutAt DEF NewModel
  <2>3. t[x.to].fields = FieldsOf(op, s[Key(op)].fields)
    BY <1>1, <1>4, <2>1, <2>2, ChangeFields DEF StateOK
  <2>4. Is(op, {"RemoveField", "RenameField"}) => <<Key(op), op.name>> \in G
    BY DEF SoundPlain, SoundField, Is, FieldOps, IndexOps, ConstraintOps
  <2> HIDE DEF t
  <2>5. ASSUME NEW g \in x.toFields PROVE g \in DOMAIN t[x.to].fields
    BY <1>1, <1>4, <2>1, <2>3, <2>4, FieldsOfIn DEF Is
  <2> QED BY <1>2, <2>5
<1> QED BY <1>3, <1>4

(* What op says by itself about x: that it does not look at a, not at all  *)
(* or not at the columns that a is about.                                  *)
LEMMA ThroughIs ==
    ASSUME NEW a, NEW x, Through(a, x)
    PROVE  /\ Is(a, {"CreateModel", "DeleteModel", "AlterOption"}) => ~ReferencesModel(x, Key(a))
           /\ Is(a, FieldOps) => ~ReferencesField(x, Key(a), a.name)
           /\ Is(a, {"RenameField"}) => ~ReferencesField(x, Key(a), a.new)
BY DEF Through, Is, FieldOps

(* The operations that take part in a move.                                *)
LEMMA MoversAre ==
    ASSUME NEW G, NEW R, NEW a, Sound(a, G, R), NEW x, Sound(x, G, R), Through(a, x)
    PROVE  /\ SoundPlain(a, G, R) /\ SoundPlain(x, G, R)
           /\ Is(a, Roams \cup {"DeleteModel"})
           /\ Is(x, Roams)
           /\ Key(a) = Key(x) => Is(a, FieldOps) /\ Is(x, FieldOps \cup {"AlterOption"})
           /\ Key(a) = Key(x) /\ Is(x, {"AlterOption"}) => x.option = "unique"
<1> USE DEF Is, FieldOps, IndexOps, ConstraintOps
<1>1. Is(a, Roams \cup {"DeleteModel"}) /\ SoundPlain(a, G, R)
  BY DEF Through, Roams, Sound, SoundPlain
<1>2. \E k : ~ReferencesModel(x, k) \/ \E f : ~ReferencesField(x, k, f)
  BY <1>1, ThroughIs DEF Roams
<1>3. Is(x, Roams) /\ SoundPlain(x, G, R)
  BY <1>2 DEF ReferencesModel, ReferencesField, Roams, Sound, SoundPlain
<1>4. ASSUME Key(a) = Key(x) 
      PROVE  Is(a, FieldOps) /\ Is(x, FieldOps \cup {"AlterOption"})
             /\ (Is(x, {"AlterOption"}) => x.option = "unique")
  <2>1. ReferencesModel(x, Key(a))
    BY <1>3, <1>4 DEF ReferencesModel, Roams
  <2>2. Is(a, FieldOps)
    BY <1>1, <2>1, ThroughIs DEF Roams
  <2>3. ~ReferencesField(x, Key(a), a.name)
    BY <2>2, ThroughIs
  <2> QED BY <1>3, <2>1, <2>2, <2>3 DEF ReferencesField, Roams
<1> QED BY <1>1, <1>3, <1>4

(* What a new model of x points at, and finds after a, it finds without a. *)
LEMMA FindsWithout ==
    ASSUME NEW G, NEW R, NEW s, StateOK(s, G), NEW a, SoundPlain(a, G, R), NEW x, Through(a, x),
           Is(a, Roams \cup {"DeleteModel"}), Is(x, Roams), Key(a) # Key(x),
           Is(a, Roams) => Fits(a, s),
           NEW y, \/ Is(x, {"CreateModel"}) /\ y \in Range(x.def.fields)
                  \/ Is(x, {"AddField", "AlterField"}) /\ y = x.def,
           NEW n,
           Finds(y, Put(IF Is(a, {"DeleteModel"}) THEN Drop(s, Key(a))
                        ELSE Put(s, Key(a), NewModel(a, s)), Key(x), n))
    PROVE  Finds(y, Put(s, Key(x), n))
<1> DEFINE s1 == IF Is(a, {"DeleteModel"}) THEN Drop(s, Key(a)) ELSE Put(s, Key(a), NewModel(a, s))
           s2 == Put(s1, Key(x), n)
           t == Put(s, Key(x), n)
<1> SUFFICES ASSUME y.to # None
             PROVE  y.to \in DOMAIN t /\ \A g \in y.toFields : g \in DOMAIN t[y.to].fields
  BY DEF Finds
<1>1. y.to \in DOMAIN s2 /\ \A g \in y.toFields : g \in DOMAIN s2[y.to].fields
  BY DEF Finds
<1>2. \A k : k # Key(a) => (k \in DOMAIN s1 <=> k \in DOMAIN s) /\ (k \in DOMAIN s => s1[k] = s[k])
  BY PutIn, PutAt, DropIn, DropAt
<1>3. CASE y.to # Key(a)
  <2> HIDE DEF s1
  <2>1. y.to \in DOMAIN t /\ t[y.to] = s2[y.to]
    BY <1>1, <1>2, <1>3, PutIn, PutAt
  <2> QED BY <1>1, <2>1
<1>4. CASE y.to = Key(a)
  <2>1. ReferencesModel(x, Key(a))
    BY <1>4 DEF ReferencesModel, References, Is
  <2>2. Is(a, FieldOps)
    BY <2>1, ThroughIs DEF Is, Roams
  <2>3. ~ReferencesField(x, Key(a), a.name) /\ (Is(a, {"RenameField"}) => ~ReferencesField(x, Key(a), a.new))
    BY <2>2, ThroughIs
  <2>4. Is(x, {"AddField", "AlterField"}) /\ y = x.def
    BY <2>1, <2>3 DEF ReferencesField, Is
  <2>5. a.name \notin y.toFields /\ (Is(a, {"RenameField"}) => a.new \notin y.toFields)
    BY <1>4, <2>3, <2>4 DEF ReferencesField, ReferencesColumn, Is
  <2>6. Key(a) \in DOMAIN s /\ s1 = Put(s, Key(a), Change(a, s[Key(a)]))
    BY <2>2 DEF Fits, Is, Roams, FieldOps, NewModel
  <2>7. s2[Key(a)].fields = FieldsOf(a, s[Key(a)].fields)
    <3>1. s2[Key(a)] = Change(a, s[Key(a)])
      BY <2>6, PutAt, PutIn
    <3> QED BY <2>2, <2>6, <3>1, ChangeFields DEF StateOK, Is
  <2>8. Key(a) \in DOMAIN t /\ t[Key(a)] = s[Key(a)]
    BY <2>6, PutIn, PutAt
  <2> HIDE DEF s1, s2, t
  <2>9. ASSUME NEW g \in y.toFields PROVE g \in DOMAIN t[y.to].fields
    <3>1. g \in DOMAIN FieldsOf(a, s[Key(a)].fields) /\ g # a.name /\ (Is(a, {"RenameField"}) => g # a.new)
      BY <1>1, <1>4, <2>5, <2>7
    <3>2. g \in DOMAIN s[Key(a)].fields
      BY <2>2, <3>1, FieldsOfIn DEF Is
    <3> QED BY <1>4, <2>8, <3>2
  <2> QED BY <1>4, <2>8, <2>9
<1> QED BY <1>3, <1>4

(* Operations on two models change places.                                 *)
LEMMA CommuteApart ==
    ASSUME NEW G, NEW R, NEW s, Good(s, G), NEW a, SoundPlain(a, G, R), NEW x, SoundPlain(x, G, R),
           Through(a, x), Is(a, Roams \cup {"DeleteModel"}), Is(x, Roams), Key(a) # Key(x),
           PlainRuns(a, s), PlainRuns(x, PlainForwards(s, a))
    PROVE  /\ PlainRuns(x, s)
           /\ PlainRuns(a, PlainForwards(s, x))
           /\ PlainForwards(PlainForwards(s, x), a) = PlainForwards(PlainForwards(s, a), x)
<1> DEFINE s1 == IF Is(a, {"DeleteModel"}) THEN Drop(s, Key(a)) ELSE Put(s, Key(a), NewModel(a, s))
           n == NewModel(x, s)
           s2 == Put(s1, Key(x), n)
           t == Put(s, Key(x), n)
<1>0. StateOK(s, G) /\ Renders(s) /\ ColumnsExist(s)
  BY DEF Good
<1>1. Is(a, Roams) => Fits(a, s)
  BY <1>0, FitsIs DEF PlainRuns
<1>2. PlainForwards(s, a) = s1
  <2>1. CASE Is(a, {"DeleteModel"})
    BY <2>1 DEF PlainForwards, ModelForwards, RemoveModel, Is, FieldOps, IndexOps, ConstraintOps, Key
  <2>2. CASE ~Is(a, {"DeleteModel"})
    BY <1>0, <1>1, <2>2, RoamsForward DEF Is
  <2> QED BY <2>1, <2>2
<1>3. StateOK(s1, G)
  BY <1>2, PlainGood DEF Good
<1>4. \A k : k # Key(a) => (k \in DOMAIN s1 <=> k \in DOMAIN s) /\ (k \in DOMAIN s => s1[k] = s[k])
  BY PutIn, PutAt, DropIn, DropAt
<1> HIDE DEF s1
<1>5. Fits(x, s1) /\ Renders(Put(s1, Key(x), NewModel(x, s1))) /\ ColumnsExist(Put(s1, Key(x), NewModel(x, s1)))
  BY <1>2, <1>3, RoamsRuns
<1>6. Fits(x, s) /\ NewModel(x, s1) = n
  BY <1>4, <1>5 DEF Fits, NewModel
<1>7. Renders(s2) /\ ColumnsExist(s2) /\ PlainForwards(s1, x) = s2
  BY <1>3, <1>5, <1>6, RoamsForward
<1>8. StateOK(t, G) /\ ModelOK(n, G) /\ PlainForwards(s, x) = t
  BY <1>0, <1>6, NewOK, PutStateOK, RoamsForward
<1>8a. Key(x) \in DOMAIN s2 /\ s2[Key(x)] = n
  BY PutIn, PutAt
<1>9. ColumnsExist(t)
  <2>1. \A k \in DOMAIN s2 : Covers(s2[k])
    BY <1>7, ColumnsExistIs
  <2>2. \A k \in DOMAIN s : Covers(s[k])
    BY <1>0, ColumnsExistIs
  <2>3. Covers(n)
    BY <1>8a, <2>1
  <2>4. \A k \in DOMAIN t : Covers(t[k])
    BY <2>2, <2>3, PutIn, PutAt
  <2> QED BY <2>4, ColumnsExistIs
<1>10. Renders(t)
  <2>1. \A k \in DOMAIN s2 : \A y \in Pointers(s2[k]) : Finds(y, s2)
    BY <1>7, RendersIs
  <2>2. \A k \in DOMAIN s : \A y \in Pointers(s[k]) : Finds(y, s) /\ Pointer(y, G)
    BY <1>0, RendersIs DEF StateOK, ModelOK
  <2>3. \A k \in DOMAIN s : \A y \in Pointers(s[k]) : Finds(y, t)
    BY <1>0, <1>6, <2>2, StillFinds DEF Pointer
  <2>4. ASSUME NEW y \in Pointers(n) PROVE Finds(y, t)
    <3>1. Finds(y, s2)
      BY <1>8a, <2>1
    <3>2. CASE Is(x, {"CreateModel"})
      <4>1. n.fields = x.def.fields /\ n.constraints = x.def.constraints /\ SoundCreate(x, G, R)
        BY <3>2, PutAt DEF NewModel, SoundPlain, SoundCreate, ModelOK, Is, FieldOps, IndexOps, ConstraintOps
      <4>2. CASE y \in Range(x.def.fields)
        BY <1>0, <1>1, <3>1, <3>2, <4>2, FindsWithout DEF s1
      <4>3. CASE y \in Range(x.def.constraints)
        BY <4>1, <4>3 DEF SoundCreate, SoundConstraint, Range, Finds
      <4> QED BY <4>1, <4>2, <4>3 DEF Pointers
    <3>3. CASE ~Is(x, {"CreateModel"})
      <4>1. Key(x) \in DOMAIN s /\ FitsModel(x, s[Key(x)]) /\ n = Change(x, s[Key(x)])
        BY <1>6, <3>3 DEF Fits, NewModel
      <4>2. Is(x, FieldOps \cup {"AlterOption"})
        BY <3>3 DEF Is, Roams
      <4>3. \/ \E z \in Pointers(s[Key(x)]) : z.to = y.to /\ z.toFields = y.toFields
            \/ Is(x, {"AddField", "AlterField"}) /\ y = x.def
        BY <1>0, <4>1, <4>2, ChangePointers DEF StateOK
      <4>4. CASE \E z \in Pointers(s[Key(x)]) : z.to = y.to /\ z.toFields = y.toFields
        BY <2>3, <4>1, <4>4 DEF Finds
      <4>5. CASE Is(x, {"AddField", "AlterField"}) /\ y = x.def
        BY <1>0, <1>1, <3>1, <4>5, FindsWithout DEF s1
      <4> QED BY <4>3, <4>4, <4>5
    <3> QED BY <3>2, <3>3
  <2>5. \A k \in DOMAIN t : \A y \in Pointers(t[k]) : Finds(y, t)
    <3>1. \A k \in DOMAIN t : t[k] = IF k = Key(x) THEN n ELSE s[k]
      BY PutIn, PutAt
    <3>2. \A k \in DOMAIN t : k \in DOMAIN s \/ k = Key(x)
      BY PutIn
    <3> HIDE DEF t, n
    <3> QED BY <2>3, <2>4, <3>1, <3>2
  <2> QED BY <2>5, RendersIs
<1>11. PlainRuns(x, s)
  BY <1>0, <1>6, <1>9, <1>10, RoamsRuns
<1>12. (Key(a) \in DOMAIN t <=> Key(a) \in DOMAIN s) /\ (Key(a) \in DOMAIN s => t[Key(a)] = s[Key(a)])
  BY PutIn, PutAt
<1> HIDE DEF t, n
<1>13. CASE Is(a, {"DeleteModel"})
  <2>1. Key(a) \in DOMAIN s
    BY <1>13 DEF PlainRuns, Fails, Is
  <2>2. PlainForwards(t, a) = Drop(t, Key(a))
    BY <1>13 DEF PlainForwards, ModelForwards, RemoveModel, Is, FieldOps, IndexOps, ConstraintOps, Key
  <2>3. Drop(t, Key(a)) = s2
    <3>1. IsFcn(Drop(t, Key(a))) /\ IsFcn(s2)
      BY DropFcn, PutFcn
    <3>2. \A k : /\ k \in DOMAIN Drop(t, Key(a)) <=> k \in DOMAIN s2
                 /\ k \in DOMAIN s2 => Drop(t, Key(a))[k] = s2[k]
      BY <1>13, PutIn, PutAt, DropIn, DropAt DEF s1, t
    <3> QED BY <3>1, <3>2, Same
  <2>4. ~Fails(a, t) /\ ~NameTaken(a, t)
    BY <1>12, <1>13, <2>1 DEF Fails, NameTaken, Is, FieldOps
  <2>5. PlainRuns(a, t)
    BY <1>7, <2>2, <2>3, <2>4 DEF PlainRuns
  <2> QED BY <1>2, <1>7, <1>8, <1>11, <2>2, <2>3, <2>5
<1>14. CASE ~Is(a, {"DeleteModel"})
  <2>1. Is(a, Roams) /\ Fits(a, t) /\ NewModel(a, t) = NewModel(a, s)
    BY <1>1, <1>12, <1>14 DEF Fits, NewModel, Is
  <2>2. Put(t, Key(a), NewModel(a, s)) = s2
    <3>1. IsFcn(Put(t, Key(a), NewModel(a, s))) /\ IsFcn(s2)
      BY PutFcn
    <3>2. \A k : /\ k \in DOMAIN Put(t, Key(a), NewModel(a, s)) <=> k \in DOMAIN s2
                 /\ k \in DOMAIN s2 => Put(t, Key(a), NewModel(a, s))[k] = s2[k]
      BY <1>14, PutIn, PutAt DEF s1, t
    <3> QED BY <3>1, <3>2, Same
  <2>3. PlainForwards(t, a) = s2
    BY <1>8, <2>1, <2>2, RoamsForward
  <2>4. PlainRuns(a, t)
    BY <1>7, <1>8, <2>1, <2>2, RoamsRuns
  <2> QED BY <1>2, <1>7, <1>8, <1>11, <2>3, <2>4
<1> QED BY <1>13, <1>14

-----------------------------------------------------------------------------
(* The other parts of a model after an operation on a field or on          *)
(* unique_together.                                                        *)
UniqueOf(op, u) ==
    CASE op.op = "RenameField" -> {RenameIn(t, op.name, op.new) : t \in u}
      [] op.op = "AlterOption" -> op.value
      [] OTHER -> u
IndexesOf(op, i) ==
    IF Is(op, {"RenameField"}) THEN [n \in DOMAIN i |-> RenameIn(i[n], op.name, op.new)] ELSE i
ConstraintsOf(op, c) ==
    IF Is(op, {"RenameField"}) THEN [n \in DOMAIN c |-> RenameCovered(c[n], op.name, op.new)] ELSE c

(* The operations that touch just these four parts of a model.             *)
OfFields(op) == Is(op, FieldOps) \/ (Is(op, {"AlterOption"}) /\ op.option = "unique")

(* They leave the parts so, and all else alone.                            *)
LEMMA ChangeParts ==
    ASSUME NEW G, NEW m, ModelOK(m, G), NEW op, OfFields(op)
    PROVE  /\ Change(op, m).fields = FieldsOf(op, m.fields)
           /\ Change(op, m).unique = UniqueOf(op, m.unique)
           /\ Change(op, m).indexes = IndexesOf(op, m.indexes)
           /\ Change(op, m).constraints = ConstraintsOf(op, m.constraints)
           /\ DOMAIN Change(op, m) = DOMAIN m
           /\ \A l \in DOMAIN m \ {"fields", "unique", "indexes", "constraints"} : Change(op, m)[l] = m[l]
<1> USE DEF Is, FieldOps, OfFields, ModelOK, FieldsOf, UniqueOf, IndexesOf, ConstraintsOf, Change
<1>1. CASE op.op = "AlterOption"
  BY <1>1
<1>2. CASE op.op \in {"AddField", "AlterField"}
  BY <1>2
<1>3. CASE op.op = "RemoveField"
  BY <1>3
<1>4. CASE op.op = "RenameField"
  BY <1>4 DEF RenameInModel
<1> QED BY <1>1, <1>2, <1>3, <1>4

(* x names none of the columns that a is about.                            *)
Disjoint(a, x) ==
    /\ Is(x, FieldOps) => /\ a.name # x.name
                          /\ Is(x, {"RenameField"}) => a.name # x.new
                          /\ Is(a, {"RenameField"}) => a.new # x.name
                          /\ Is(a, {"RenameField"}) /\ Is(x, {"RenameField"}) => a.new # x.new
    /\ Is(x, {"AlterOption"}) => \A t \in x.value : /\ a.name \notin t
                                                    /\ Is(a, {"RenameField"}) => a.new \notin t

(* So it is when a is let through x, on one model.                         *)
LEMMA ThroughDisjoint ==
    ASSUME NEW a, NEW x, Through(a, x), Is(a, FieldOps), OfFields(x), Key(a) = Key(x)
    PROVE  Disjoint(a, x)
<1>1. /\ ~ReferencesField(x, Key(a), a.name)
      /\ Is(a, {"RenameField"}) => ~ReferencesField(x, Key(a), a.new)
  BY ThroughIs
<1> QED BY <1>1 DEF ReferencesField, Disjoint, OfFields, Is, FieldOps

(* Then each fits the model before the other as well as after it.          *)
LEMMA FitsDisjoint ==
    ASSUME NEW G, NEW m, ModelOK(m, G), NEW a, NEW x, Is(a, FieldOps), OfFields(x), Disjoint(a, x),
           FitsModel(a, m), FitsModel(x, Change(a, m))
    PROVE  FitsModel(x, m) /\ FitsModel(a, Change(x, m))
<1>1. /\ Change(a, m).fields = FieldsOf(a, m.fields)
      /\ Change(x, m).fields = FieldsOf(x, m.fields)
  BY ChangeParts DEF OfFields
<1>2. \A g : /\ g \in DOMAIN FieldsOf(a, m.fields) <=>
                  \/ g \in DOMAIN m.fields /\ ~(Is(a, {"RemoveField", "RenameField"}) /\ g = a.name)
                  \/ Is(a, {"AddField", "AlterField"}) /\ g = a.name
                  \/ Is(a, {"RenameField"}) /\ g = a.new
             /\ g \in DOMAIN FieldsOf(x, m.fields) <=>
                  \/ g \in DOMAIN m.fields /\ ~(Is(x, {"RemoveField", "RenameField"}) /\ g = x.name)
                  \/ Is(x, {"AddField", "AlterField"}) /\ g = x.name
                  \/ Is(x, {"RenameField"}) /\ g = x.new
  BY FieldsOfIn DEF OfFields, Is
<1>3. FitsModel(x, m)
  BY <1>1, <1>2 DEF FitsModel, Is, FieldOps, OfFields, Disjoint
<1>4. FitsModel(a, Change(x, m))
  BY <1>1, <1>2 DEF FitsModel, Is, FieldOps, OfFields, Disjoint
<1> QED BY <1>3, <1>4

(* Fields are a function, before and after.                                *)
LEMMA FieldsOfFcn ==
    ASSUME NEW op, OfFields(op), NEW f, IsFcn(f)
    PROVE  IsFcn(FieldsOf(op, f))
BY PutFcn, DropFcn, RenameFcn DEF FieldsOf, OfFields, Is, FieldOps

(* What a field is afterwards.                                             *)
LEMMA FieldsOfAt ==
    ASSUME NEW op, NEW f, OfFields(op), NEW g, g \in DOMAIN FieldsOf(op, f)
    PROVE  FieldsOf(op, f)[g] = IF Is(op, {"AddField", "AlterField"}) /\ g = op.name THEN op.def
                                ELSE IF Is(op, {"RenameField"}) /\ g = op.new THEN f[op.name]
                                ELSE f[g]
BY PutIn, DropIn, RenamedIn, PutAt, DropAt, RenameAt DEF FieldsOf, OfFields, Is, FieldOps

(* The fields come out the same in either order.                           *)
LEMMA FieldsCommute ==
    ASSUME NEW f, IsFcn(f), NEW a, NEW x, Is(a, FieldOps), OfFields(x), Disjoint(a, x),
           Is(a, {"RenameField"}) => a.name \in DOMAIN f,
           Is(x, {"RenameField"}) => x.name \in DOMAIN f
    PROVE  FieldsOf(a, FieldsOf(x, f)) = FieldsOf(x, FieldsOf(a, f))
<1> DEFINE l == FieldsOf(a, FieldsOf(x, f))
           r == FieldsOf(x, FieldsOf(a, f))
<1>1. IsFcn(l) /\ IsFcn(r)
  BY FieldsOfFcn DEF OfFields
<1>2. OfFields(a) /\ Is(a, FieldOps \cup {"AlterOption"}) /\ Is(x, FieldOps \cup {"AlterOption"})
  BY DEF OfFields, Is
<1>3. ASSUME NEW g PROVE g \in DOMAIN l <=> g \in DOMAIN r
  BY <1>2, FieldsOfIn DEF Is, FieldOps, OfFields, Disjoint
<1>4. ASSUME NEW g \in DOMAIN l PROVE l[g] = r[g]
  BY <1>2, <1>3, FieldsOfIn, FieldsOfAt DEF Is, FieldOps, OfFields, Disjoint
<1> HIDE DEF l, r
<1>5. l = r
  BY <1>1, <1>3, <1>4, Same
<1> QED BY <1>5 DEF l, r

(* Renames of different columns in a set change places.                    *)
LEMMA RenameInCommute ==
    ASSUME NEW S, NEW o1, NEW n1, NEW o2, NEW n2, {o1, n1} \cap {o2, n2} = {}
    PROVE  RenameIn(RenameIn(S, o1, n1), o2, n2) = RenameIn(RenameIn(S, o2, n2), o1, n1)
BY DEF RenameIn, Swap

(* Renaming what is not in a set leaves it.                                *)
LEMMA RenameInFree ==
    ASSUME NEW S, NEW old, NEW new, old \notin S
    PROVE  RenameIn(S, old, new) = S
BY DEF RenameIn, Swap

(* The unique sets come out the same in either order.                      *)
LEMMA UniqueCommute ==
    ASSUME NEW u, NEW a, NEW x, Is(a, FieldOps), OfFields(x), Disjoint(a, x)
    PROVE  UniqueOf(a, UniqueOf(x, u)) = UniqueOf(x, UniqueOf(a, u))
<1> USE DEF Is, FieldOps, OfFields
<1>1. CASE a.op # "RenameField"
  BY <1>1 DEF UniqueOf
<1>2. CASE a.op = "RenameField" /\ x.op = "RenameField"
  <2>1. \A t : RenameIn(RenameIn(t, x.name, x.new), a.name, a.new)
                 = RenameIn(RenameIn(t, a.name, a.new), x.name, x.new)
    BY <1>2, RenameInCommute DEF Disjoint
  <2>2. /\ UniqueOf(a, UniqueOf(x, u)) = {RenameIn(RenameIn(t, x.name, x.new), a.name, a.new) : t \in u}
        /\ UniqueOf(x, UniqueOf(a, u)) = {RenameIn(RenameIn(t, a.name, a.new), x.name, x.new) : t \in u}
    BY <1>2 DEF UniqueOf
  <2> QED BY <2>1, <2>2
<1>3. CASE a.op = "RenameField" /\ x.op = "AlterOption"
  <2>1. \A t \in x.value : RenameIn(t, a.name, a.new) = t
    BY <1>3, RenameInFree DEF Disjoint
  <2> QED BY <1>3, <2>1 DEF UniqueOf
<1>4. CASE a.op = "RenameField" /\ x.op \in {"AddField", "AlterField", "RemoveField"}
  BY <1>4 DEF UniqueOf
<1> QED BY <1>1, <1>2, <1>3, <1>4

(* So do the indexes.                                                      *)
LEMMA IndexesCommute ==
    ASSUME NEW i, NEW a, NEW x, Is(a, FieldOps), OfFields(x), Disjoint(a, x)
    PROVE  IndexesOf(a, IndexesOf(x, i)) = IndexesOf(x, IndexesOf(a, i))
<1> USE DEF Is, FieldOps, OfFields
<1>1. CASE a.op = "RenameField" /\ x.op = "RenameField"
  <2>1. \A t : RenameIn(RenameIn(t, x.name, x.new), a.name, a.new)
                 = RenameIn(RenameIn(t, a.name, a.new), x.name, x.new)
    BY <1>1, RenameInCommute DEF Disjoint
  <2> QED BY <1>1, <2>1 DEF IndexesOf
<1>2. CASE ~(a.op = "RenameField" /\ x.op = "RenameField")
  BY <1>2 DEF IndexesOf
<1> QED BY <1>1, <1>2

(* So do the constraints.                                                  *)
LEMMA ConstraintsCommute ==
    ASSUME NEW c, NEW a, NEW x, Is(a, FieldOps), OfFields(x), Disjoint(a, x),
           \A n \in DOMAIN c : IsFcn(c[n]) /\ "columns" \in DOMAIN c[n]
    PROVE  ConstraintsOf(a, ConstraintsOf(x, c)) = ConstraintsOf(x, ConstraintsOf(a, c))
<1> USE DEF Is, FieldOps, OfFields
<1>1. CASE a.op = "RenameField" /\ x.op = "RenameField"
  <2>1. \A t : RenameIn(RenameIn(t, x.name, x.new), a.name, a.new)
                 = RenameIn(RenameIn(t, a.name, a.new), x.name, x.new)
    BY <1>1, RenameInCommute DEF Disjoint
  <2>2. \A n \in DOMAIN c : RenameCovered(RenameCovered(c[n], x.name, x.new), a.name, a.new)
                 = RenameCovered(RenameCovered(c[n], a.name, a.new), x.name, x.new)
    BY <2>1 DEF RenameCovered, IsFcn
  <2> QED BY <1>1, <2>2 DEF ConstraintsOf
<1>2. CASE ~(a.op = "RenameField" /\ x.op = "RenameField")
  BY <1>2 DEF ConstraintsOf
<1> QED BY <1>1, <1>2

(* A change of one field and a change of others, or of unique_together,    *)
(* give one model in either order.                                         *)
LEMMA ChangesCommute ==
    ASSUME NEW G, NEW R, NEW m, ModelOK(m, G), NEW a, NEW x, SoundPlain(a, G, R), SoundPlain(x, G, R),
           Is(a, FieldOps), OfFields(x), Disjoint(a, x),
           FitsModel(a, m), FitsModel(x, Change(a, m)), FitsModel(x, m), FitsModel(a, Change(x, m))
    PROVE  Change(a, Change(x, m)) = Change(x, Change(a, m))
<1> DEFINE ma == Change(a, m)
           mx == Change(x, m)
<1>0. Is(a, Local) /\ Is(x, Local) /\ OfFields(a)
  BY DEF Local, Is, OfFields
<1>1. ModelOK(ma, G) /\ ModelOK(mx, G)
  BY <1>0, ChangeOK DEF FitsModel, Is, OfFields, FieldOps
<1>2. ModelOK(Change(x, ma), G) /\ ModelOK(Change(a, mx), G)
  BY <1>0, <1>1, ChangeOK DEF FitsModel, Is, OfFields, FieldOps
<1>3. Change(a, mx).fields = Change(x, ma).fields
  <2>1. /\ Change(a, mx).fields = FieldsOf(a, FieldsOf(x, m.fields))
        /\ Change(x, ma).fields = FieldsOf(x, FieldsOf(a, m.fields))
    BY <1>0, <1>1, ChangeParts
  <2> QED BY <2>1, FieldsCommute DEF FitsModel, ModelOK, Is
<1>4. Change(a, mx).unique = Change(x, ma).unique
  <2>1. /\ Change(a, mx).unique = UniqueOf(a, UniqueOf(x, m.unique))
        /\ Change(x, ma).unique = UniqueOf(x, UniqueOf(a, m.unique))
    BY <1>0, <1>1, ChangeParts
  <2> QED BY <2>1, UniqueCommute
<1>5. Change(a, mx).indexes = Change(x, ma).indexes
  <2>1. /\ Change(a, mx).indexes = IndexesOf(a, IndexesOf(x, m.indexes))
        /\ Change(x, ma).indexes = IndexesOf(x, IndexesOf(a, m.indexes))
    BY <1>0, <1>1, ChangeParts
  <2> QED BY <2>1, IndexesCommute
<1>6. Change(a, mx).constraints = Change(x, ma).constraints
  <2>1. /\ Change(a, mx).constraints = ConstraintsOf(a, ConstraintsOf(x, m.constraints))
        /\ Change(x, ma).constraints = ConstraintsOf(x, ConstraintsOf(a, m.constraints))
    BY <1>0, <1>1, ChangeParts
  <2>2. \A n \in DOMAIN m.constraints : IsFcn(m.constraints[n]) /\ "columns" \in DOMAIN m.constraints[n]
    BY DEF ModelOK, Pointers, Range, Pointer
  <2> QED BY <2>1, <2>2, ConstraintsCommute
<1>7. /\ DOMAIN Change(a, mx) = DOMAIN m /\ DOMAIN Change(x, ma) = DOMAIN m
      /\ \A l \in DOMAIN m \ {"fields", "unique", "indexes", "constraints"} :
            Change(a, mx)[l] = m[l] /\ Change(x, ma)[l] = m[l]
  <2>1. /\ DOMAIN ma = DOMAIN m /\ DOMAIN mx = DOMAIN m
        /\ \A l \in DOMAIN m \ {"fields", "unique", "indexes", "constraints"} :
              ma[l] = m[l] /\ mx[l] = m[l]
    BY <1>0, ChangeParts
  <2>2. /\ DOMAIN Change(a, mx) = DOMAIN mx /\ DOMAIN Change(x, ma) = DOMAIN ma
        /\ \A l \in DOMAIN mx \ {"fields", "unique", "indexes", "constraints"} : Change(a, mx)[l] = mx[l]
        /\ \A l \in DOMAIN ma \ {"fields", "unique", "indexes", "constraints"} : Change(x, ma)[l] = ma[l]
    BY <1>0, <1>1, ChangeParts
  <2> HIDE DEF ma, mx
  <2> QED BY <2>1, <2>2
<1> HIDE DEF ma, mx
<1>8. \A l \in DOMAIN m : Change(a, mx)[l] = Change(x, ma)[l]
  BY <1>3, <1>4, <1>5, <1>6, <1>7
<1>9. IsFcn(Change(a, mx)) /\ IsFcn(Change(x, ma))
  BY <1>2 DEF ModelOK
<1>10. Change(a, mx) = Change(x, ma)
  BY <1>7, <1>8, <1>9, Same
<1> QED BY <1>10 DEF ma, mx

(* Covers, part by part.                                                   *)
LEMMA CoversIs ==
    ASSUME NEW m
    PROVE  Covers(m) <=> /\ \A t \in m.unique : \A c \in t : c \in DOMAIN m.fields
                         /\ \A i \in DOMAIN m.indexes : \A c \in m.indexes[i] : c \in DOMAIN m.fields
                         /\ \A i \in DOMAIN m.constraints : \A c \in m.constraints[i].columns : c \in DOMAIN m.fields
BY DEF Covers, CoveredColumns, Range

(* What covers its columns after both covers them after x alone.           *)
LEMMA CoversWithout ==
    ASSUME NEW G, NEW R, NEW m, ModelOK(m, G), Covers(m), NEW a, NEW x, SoundPlain(a, G, R), SoundPlain(x, G, R),
           Is(a, FieldOps), OfFields(x), Disjoint(a, x),
           FitsModel(a, m), FitsModel(x, m), Covers(Change(x, Change(a, m)))
    PROVE  Covers(Change(x, m))
<1> DEFINE ma == Change(a, m)
           m2 == Change(x, ma)
           n == Change(x, m)
<1>0. OfFields(a) /\ ModelOK(ma, G) /\ Is(a, FieldOps \cup {"AlterOption"}) /\ Is(x, FieldOps \cup {"AlterOption"})
  BY ChangeOK DEF OfFields, FitsModel, Is, Local, FieldOps
<1>1. /\ ma.fields = FieldsOf(a, m.fields) /\ ma.unique = UniqueOf(a, m.unique)
      /\ ma.indexes = IndexesOf(a, m.indexes) /\ ma.constraints = ConstraintsOf(a, m.constraints)
  BY <1>0, ChangeParts
<1>2. /\ n.fields = FieldsOf(x, m.fields) /\ n.unique = UniqueOf(x, m.unique)
      /\ n.indexes = IndexesOf(x, m.indexes) /\ n.constraints = ConstraintsOf(x, m.constraints)
  BY ChangeParts
<1>3. /\ m2.fields = FieldsOf(x, ma.fields) /\ m2.unique = UniqueOf(x, ma.unique)
      /\ m2.indexes = IndexesOf(x, ma.indexes) /\ m2.constraints = ConstraintsOf(x, ma.constraints)
  BY <1>0, ChangeParts
<1>4. /\ \A t \in m.unique : \A c \in t : c \in DOMAIN m.fields
      /\ \A i \in DOMAIN m.indexes : \A c \in m.indexes[i] : c \in DOMAIN m.fields
      /\ \A i \in DOMAIN m.constraints : \A c \in m.constraints[i].columns : c \in DOMAIN m.fields
  BY CoversIs
<1>5. /\ \A t \in m2.unique : \A c \in t : c \in DOMAIN m2.fields
      /\ \A i \in DOMAIN m2.indexes : \A c \in m2.indexes[i] : c \in DOMAIN m2.fields
      /\ \A i \in DOMAIN m2.constraints : \A c \in m2.constraints[i].columns : c \in DOMAIN m2.fields
  BY CoversIs
<1>6. \A i \in DOMAIN m.constraints : "columns" \in DOMAIN m.constraints[i]
  BY DEF ModelOK
<1> HIDE DEF ma, m2, n
<1> SUFFICES /\ \A t \in n.unique : \A c \in t : c \in DOMAIN n.fields
             /\ \A i \in DOMAIN n.indexes : \A c \in n.indexes[i] : c \in DOMAIN n.fields
             /\ \A i \in DOMAIN n.constraints : \A c \in n.constraints[i].columns : c \in DOMAIN n.fields
  BY CoversIs DEF n
<1>7. CASE x.op \in {"AddField", "AlterField"}
  <2>1. n.unique = m.unique /\ n.indexes = m.indexes /\ n.constraints = m.constraints
    BY <1>2, <1>7 DEF UniqueOf, IndexesOf, ConstraintsOf, Is
  <2>2. \A c \in DOMAIN m.fields : c \in DOMAIN n.fields
    BY <1>0, <1>2, <1>7, FieldsOfIn DEF Is
  <2> QED BY <1>4, <2>1, <2>2
<1>8. CASE x.op = "RenameField"
  <2>1. /\ n.unique = {RenameIn(t, x.name, x.new) : t \in m.unique}
        /\ n.indexes = [i \in DOMAIN m.indexes |-> RenameIn(m.indexes[i], x.name, x.new)]
        /\ n.constraints = [i \in DOMAIN m.constraints |-> RenameCovered(m.constraints[i], x.name, x.new)]
    BY <1>2, <1>8 DEF UniqueOf, IndexesOf, ConstraintsOf, Is
  <2>2. \A c \in DOMAIN m.fields : Swap(c, x.name, x.new) \in DOMAIN n.fields
    BY <1>0, <1>2, <1>8, FieldsOfIn DEF Is, Swap
  <2>3. \A i \in DOMAIN n.constraints : n.constraints[i].columns = RenameIn(m.constraints[i].columns, x.name, x.new)
    BY <1>6, <2>1 DEF RenameCovered
  <2>4. \A S : (\A c \in S : c \in DOMAIN m.fields)
              => \A c \in RenameIn(S, x.name, x.new) : c \in DOMAIN n.fields
    BY <2>2 DEF RenameIn
  <2>5. \A t \in n.unique : \A c \in t : c \in DOMAIN n.fields
    BY <1>4, <2>1, <2>4
  <2>6. \A i \in DOMAIN n.indexes : \A c \in n.indexes[i] : c \in DOMAIN n.fields
    BY <1>4, <2>1, <2>4
  <2>7. ASSUME NEW i \in DOMAIN n.constraints
        PROVE  \A c \in n.constraints[i].columns : c \in DOMAIN n.fields
    <3>1. i \in DOMAIN m.constraints
      BY <2>1
    <3>2. \A c \in m.constraints[i].columns : c \in DOMAIN m.fields
      BY <1>4, <3>1
    <3>3. \A c \in RenameIn(m.constraints[i].columns, x.name, x.new) : c \in DOMAIN n.fields
      BY <2>4, <3>2
    <3> QED BY <2>3, <3>3
  <2> QED BY <2>5, <2>6, <2>7
<1>9. CASE x.op = "AlterOption"
  <2>1. n.unique = x.value /\ n.indexes = m.indexes /\ n.constraints = m.constraints /\ n.fields = m.fields
    BY <1>2, <1>9 DEF UniqueOf, IndexesOf, ConstraintsOf, FieldsOf, Is
  <2>2. \A t \in x.value : \A c \in t : c \in DOMAIN FieldsOf(a, m.fields)
    BY <1>1, <1>3, <1>5, <1>9 DEF UniqueOf, FieldsOf, Is
  <2>3. \A t \in x.value : \A c \in t : c \in DOMAIN m.fields
    BY <1>0, <1>9, <2>2, FieldsOfIn DEF Disjoint, Is, FieldOps
  <2> QED BY <1>4, <2>1, <2>3
<1>10. CASE x.op = "RemoveField"
  <2>1. n.unique = m.unique /\ n.indexes = m.indexes /\ n.constraints = m.constraints
    BY <1>2, <1>10 DEF UniqueOf, IndexesOf, ConstraintsOf, Is
  <2>2. m2.unique = ma.unique /\ m2.indexes = ma.indexes /\ m2.constraints = ma.constraints
    BY <1>3, <1>10 DEF UniqueOf, IndexesOf, ConstraintsOf, Is
  <2>3. x.name \notin DOMAIN m2.fields
    BY <1>0, <1>3, <1>10, FieldsOfIn DEF Is
  <2>4. \A c \in DOMAIN m.fields : c # x.name => c \in DOMAIN n.fields
    BY <1>0, <1>2, <1>10, FieldsOfIn DEF Is
  <2>5. CASE a.op # "RenameField"
    <3>1. ma.unique = m.unique /\ ma.indexes = m.indexes /\ ma.constraints = m.constraints
      BY <1>1, <2>5 DEF UniqueOf, IndexesOf, ConstraintsOf, Is, FieldOps
    <3> QED BY <1>4, <1>5, <2>1, <2>2, <2>3, <2>4, <3>1
  <2>6. CASE a.op = "RenameField"
    <3>1. /\ ma.unique = {RenameIn(t, a.name, a.new) : t \in m.unique}
          /\ ma.indexes = [i \in DOMAIN m.indexes |-> RenameIn(m.indexes[i], a.name, a.new)]
          /\ ma.constraints = [i \in DOMAIN m.constraints |-> RenameCovered(m.constraints[i], a.name, a.new)]
      BY <1>1, <2>6 DEF UniqueOf, IndexesOf, ConstraintsOf, Is
    <3>2. \A i \in DOMAIN ma.constraints : ma.constraints[i].columns = RenameIn(m.constraints[i].columns, a.name, a.new)
      BY <1>6, <3>1 DEF RenameCovered
    <3>3. \A S : x.name \in S => x.name \in RenameIn(S, a.name, a.new)
      BY <1>10, <2>6 DEF RenameIn, Swap, Disjoint, Is, FieldOps
    <3>4. \A t \in m.unique : x.name \notin t
      BY <1>5, <2>2, <2>3, <3>1, <3>3
    <3>5. \A i \in DOMAIN m.indexes : x.name \notin m.indexes[i]
      BY <1>5, <2>2, <2>3, <3>1, <3>3
    <3>6. \A i \in DOMAIN m.constraints : x.name \notin m.constraints[i].columns
      BY <1>5, <2>2, <2>3, <3>1, <3>2, <3>3
    <3> QED BY <1>4, <2>1, <2>4, <3>4, <3>5, <3>6
  <2> QED BY <2>5, <2>6
<1> QED BY <1>7, <1>8, <1>9, <1>10 DEF OfFields, Is, FieldOps

(* Operations on one model change places.                                  *)
LEMMA CommuteSame ==
    ASSUME NEW G, NEW R, NEW s, Good(s, G), NEW a, SoundPlain(a, G, R), NEW x, SoundPlain(x, G, R),
           Through(a, x), Is(a, FieldOps), OfFields(x), Key(a) = Key(x),
           PlainRuns(a, s), PlainRuns(x, PlainForwards(s, a))
    PROVE  /\ PlainRuns(x, s)
           /\ PlainRuns(a, PlainForwards(s, x))
           /\ PlainForwards(PlainForwards(s, x), a) = PlainForwards(PlainForwards(s, a), x)
<1> DEFINE k == Key(x)
           m == s[k]
           ma == Change(a, m)
           m2 == Change(x, ma)
           n == Change(x, m)
           s1 == Put(s, k, ma)
           s2 == Put(s1, k, m2)
           t == Put(s, k, n)
<1>0. StateOK(s, G) /\ Renders(s) /\ ColumnsExist(s)
  BY DEF Good
<1>1. /\ Is(a, Roams) /\ Is(x, Roams) /\ ~Is(a, {"CreateModel"}) /\ ~Is(x, {"CreateModel"})
      /\ Is(x, FieldOps \cup {"AlterOption"})
  BY DEF Is, Roams, OfFields, FieldOps
<1>2. k \in DOMAIN s /\ FitsModel(a, m)
  BY <1>0, <1>1, FitsIs DEF PlainRuns, Fits
<1>3. PlainForwards(s, a) = s1
  BY <1>0, <1>1, <1>2, RoamsForward DEF Fits, NewModel
<1>4. StateOK(s1, G) /\ s1[k] = ma /\ k \in DOMAIN s1
  BY <1>2, <1>3, PlainGood, PutAt, PutIn DEF Good
<1>5. FitsModel(x, ma)
  BY <1>1, <1>3, <1>4, FitsIs DEF PlainRuns, Fits
<1>6. PlainForwards(s1, x) = s2 /\ Renders(s2) /\ ColumnsExist(s2)
  <2>1. PlainForwards(s1, x) = s2
    BY <1>1, <1>4, <1>5, RoamsForward DEF Fits, NewModel
  <2> QED BY <1>3, <2>1 DEF PlainRuns
<1>7. ModelOK(m, G)
  BY <1>0, <1>2 DEF StateOK
<1>8. Disjoint(a, x)
  BY ThroughDisjoint
<1>9. FitsModel(x, m) /\ FitsModel(a, n)
  BY <1>2, <1>5, <1>7, <1>8, FitsDisjoint
<1>10. Change(a, n) = m2
  BY <1>2, <1>5, <1>7, <1>8, <1>9, ChangesCommute
<1>11. Fits(x, s) /\ PlainForwards(s, x) = t /\ StateOK(t, G) /\ NewModel(x, s) = n
  <2>1. Fits(x, s) /\ NewModel(x, s) = n
    BY <1>1, <1>2, <1>9 DEF Fits, NewModel
  <2> QED BY <1>0, <1>1, <2>1, RoamsForward, NewOK, PutStateOK
<1>12. k \in DOMAIN s2 /\ s2[k] = m2 /\ k \in DOMAIN t /\ t[k] = n
  BY PutIn, PutAt
<1>13. \A j : j # k => /\ j \in DOMAIN s2 <=> j \in DOMAIN s
                       /\ j \in DOMAIN t <=> j \in DOMAIN s
                       /\ j \in DOMAIN s => s2[j] = s[j] /\ t[j] = s[j]
  BY PutIn, PutAt
<1> HIDE DEF m, ma, m2, n, s1, s2, t
<1>14. ColumnsExist(t)
  <2>1. Covers(m2) /\ \A j \in DOMAIN s : Covers(s[j])
    BY <1>0, <1>6, <1>12, ColumnsExistIs
  <2>2. Covers(n)
    BY <1>2, <1>7, <1>8, <1>9, <2>1, CoversWithout DEF m, ma, m2, n
  <2>3. \A j \in DOMAIN t : Covers(t[j])
    BY <1>12, <1>13, <2>1, <2>2
  <2> QED BY <2>3, ColumnsExistIs
<1>15. Renders(t)
  <2>1. \A j \in DOMAIN s2 : \A y \in Pointers(s2[j]) : Finds(y, s2)
    BY <1>6, RendersIs
  <2>2. \A j \in DOMAIN s : \A y \in Pointers(s[j]) : Finds(y, s) /\ Pointer(y, G)
    BY <1>0, RendersIs DEF StateOK, ModelOK
  <2>3. \A j \in DOMAIN s : \A y \in Pointers(s[j]) : Finds(y, t)
    BY <1>0, <1>1, <1>11, <2>2, StillFinds DEF Pointer, t
  <2>4. ASSUME Is(x, {"AddField", "AlterField"}) PROVE Finds(x.def, t)
    <3> DEFINE y == x.def
    <3>1. /\ ma.fields = FieldsOf(a, m.fields) /\ n.fields = FieldsOf(x, m.fields)
          /\ m2.fields = FieldsOf(x, ma.fields) /\ m2.constraints = ConstraintsOf(x, ma.constraints)
          /\ OfFields(a)
      <4>1. OfFields(a)
        BY DEF OfFields
      <4>2. ModelOK(ma, G)
        BY <1>4 DEF StateOK
      <4> QED BY <1>7, <4>1, <4>2, ChangeParts DEF ma, m2, n
    <3>2. Finds(y, s2)
      <4>1. m2.fields = Put(ma.fields, x.name, y)
        BY <2>4, <3>1 DEF FieldsOf, Is
      <4>2. y \in Range(m2.fields)
        BY <4>1, PutIn, PutAt DEF Range
      <4> QED BY <1>12, <2>1, <4>2 DEF Pointers
    <3>3. CASE y.to = None
      BY <3>3 DEF Finds
    <3>4. CASE y.to # None /\ y.to # k
      BY <1>13, <3>2, <3>4 DEF Finds
    <3>5. CASE y.to # None /\ y.to = k
      <4>1. a.name \notin y.toFields /\ (Is(a, {"RenameField"}) => a.new \notin y.toFields)
        <5>1. /\ ~ReferencesField(x, k, a.name)
              /\ Is(a, {"RenameField"}) => ~ReferencesField(x, k, a.new)
          BY ThroughIs
        <5> QED BY <2>4, <3>5, <5>1 DEF ReferencesField, ReferencesColumn, Is
      <4>2. \A g \in y.toFields : g \in DOMAIN FieldsOf(x, FieldsOf(a, m.fields))
        BY <1>12, <3>1, <3>2, <3>5 DEF Finds
      <4>3. \A g \in y.toFields : g \in DOMAIN FieldsOf(x, m.fields)
        BY <1>1, <2>4, <4>1, <4>2, FieldsOfIn DEF Is, FieldOps
      <4> QED BY <1>12, <3>1, <3>5, <4>3 DEF Finds
    <3> QED BY <3>3, <3>4, <3>5
  <2>5. ASSUME NEW y \in Pointers(n) PROVE Finds(y, t)
    <3>1. \/ \E z \in Pointers(m) : z.to = y.to /\ z.toFields = y.toFields
          \/ Is(x, {"AddField", "AlterField"}) /\ y = x.def
      BY <1>1, <1>7, <1>9, ChangePointers DEF n
    <3>2. ASSUME NEW z \in Pointers(m), z.to = y.to, z.toFields = y.toFields PROVE Finds(y, t)
      BY <1>2, <2>3, <3>2 DEF Finds, m
    <3> QED BY <2>4, <3>1, <3>2
  <2>6. \A j \in DOMAIN t : \A y \in Pointers(t[j]) : Finds(y, t)
    BY <1>12, <1>13, <2>3, <2>5
  <2> QED BY <2>6, RendersIs
<1>16. PlainRuns(x, s)
  BY <1>11, <1>14, <1>15, FitsIs, <1>1 DEF PlainRuns
<1>17. Fits(a, t) /\ NewModel(a, t) = m2
  BY <1>1, <1>9, <1>10, <1>12 DEF Fits, NewModel
<1>18. Put(t, k, m2) = s2
  <2>1. IsFcn(Put(t, k, m2)) /\ IsFcn(s2)
    BY PutFcn DEF s2
  <2>2. \A j : /\ j \in DOMAIN Put(t, k, m2) <=> j \in DOMAIN s2
               /\ j \in DOMAIN s2 => Put(t, k, m2)[j] = s2[j]
    BY <1>12, <1>13, PutIn, PutAt
  <2> QED BY <2>1, <2>2, Same
<1>19. PlainForwards(t, a) = s2
  BY <1>1, <1>11, <1>17, <1>18, RoamsForward
<1>20. PlainRuns(a, t)
  BY <1>1, <1>6, <1>11, <1>17, <1>18, RoamsRuns
<1> QED BY <1>3, <1>6, <1>11, <1>16, <1>19, <1>20

(* An operation that may be optimized across the next one changes places   *)
(* with it.                                                                *)
LEMMA Commute ==
    ASSUME NEW G, NEW R, NEW s, Good(s, G), NEW a, Sound(a, G, R), NEW x, Sound(x, G, R), Through(a, x),
           Runs(a, s), Runs(x, StateForwards(a, s))
    PROVE  /\ Runs(x, s)
           /\ Runs(a, StateForwards(x, s))
           /\ StateForwards(a, StateForwards(x, s)) = StateForwards(x, StateForwards(a, s))
<1>1. /\ SoundPlain(a, G, R) /\ SoundPlain(x, G, R)
      /\ Is(a, Roams \cup {"DeleteModel"}) /\ Is(x, Roams)
      /\ Key(a) = Key(x) => Is(a, FieldOps) /\ OfFields(x)
  BY MoversAre DEF OfFields, Is
<1>2. \A o : Is(o, Roams \cup {"DeleteModel"}) => ~Is(o, {"Special"})
  BY DEF Is, Roams, FieldOps
<1>3. /\ \A r : Runs(a, r) <=> PlainRuns(a, r)
      /\ \A r : Runs(x, r) <=> PlainRuns(x, r)
      /\ \A r : StateForwards(a, r) = PlainForwards(r, a)
      /\ \A r : StateForwards(x, r) = PlainForwards(r, x)
  BY <1>1, <1>2 DEF Runs, StateForwards, Is
<1>4. PlainRuns(a, s) /\ PlainRuns(x, PlainForwards(s, a))
  BY <1>3
<1>5. /\ PlainRuns(x, s)
      /\ PlainRuns(a, PlainForwards(s, x))
      /\ PlainForwards(PlainForwards(s, x), a) = PlainForwards(PlainForwards(s, a), x)
  BY <1>1, <1>4, CommuteApart, CommuteSame
<1> QED BY <1>3, <1>5

-----------------------------------------------------------------------------
(* The list r takes the state s to t, every operation of it running.       *)
Makes(r, s, t, G, R) ==
    \/ r = <<>> /\ t = s
    \/ \E o : r = <<o>> /\ SoundPlain(o, G, R) /\ PlainRuns(o, s) /\ PlainForwards(s, o) = t
    \/ \E o, p : /\ r = <<o, p>> /\ SoundPlain(o, G, R) /\ SoundPlain(p, G, R)
                 /\ PlainRuns(o, s) /\ PlainRuns(p, PlainForwards(s, o))
                 /\ PlainForwards(PlainForwards(s, o), p) = t

(* An operation that is not special runs as PlainRuns says.                *)
LEMMA PlainIs ==
    ASSUME NEW G, NEW R, NEW op, SoundPlain(op, G, R), NEW s
    PROVE  /\ Sound(op, G, R)
           /\ Runs(op, s) <=> PlainRuns(op, s)
           /\ StateForwards(op, s) = PlainForwards(s, op)
BY DEF SoundPlain, Sound, Runs, StateForwards, Is, FieldOps, IndexOps, ConstraintOps

(* One operation that runs and leads to t replaces what leads to t.        *)
LEMMA OneMakes ==
    ASSUME NEW G, NEW R, NEW s, NEW t, Good(t, G), NEW o, SoundPlain(o, G, R),
           ~Fails(o, s), ~NameTaken(o, s), PlainForwards(s, o) = t
    PROVE  Makes(<<o>>, s, t, G, R)
<1>1. PlainRuns(o, s)
  BY DEF PlainRuns, Good
<1> QED BY <1>1, Zenon DEF Makes

(* The second of two entries under one name stays.                         *)
LEMMA PutPut ==
    ASSUME NEW f, NEW k, NEW v, NEW w
    PROVE  Put(Put(f, k, v), k, w) = Put(f, k, w)
BY DEF Put

(* An entry put and dropped leaves no trace.                               *)
LEMMA DropPut ==
    ASSUME NEW f, IsFcn(f), NEW k, NEW v, k \notin DOMAIN f
    PROVE  Drop(Put(f, k, v), k) = f
<1>1. IsFcn(Drop(Put(f, k, v), k))
  BY DropFcn
<1>2. \A x : /\ x \in DOMAIN Drop(Put(f, k, v), k) <=> x \in DOMAIN f
             /\ x \in DOMAIN f => Drop(Put(f, k, v), k)[x] = f[x]
  BY PutIn, PutAt, DropIn, DropAt
<1> QED BY <1>1, <1>2, Same

(* An entry put before its drop makes no difference.                       *)
LEMMA DropPutAny ==
    ASSUME NEW f, NEW k, NEW v
    PROVE  Drop(Put(f, k, v), k) = Drop(f, k)
<1>1. IsFcn(Drop(Put(f, k, v), k)) /\ IsFcn(Drop(f, k))
  BY DropFcn
<1>2. \A x : /\ x \in DOMAIN Drop(Put(f, k, v), k) <=> x \in DOMAIN Drop(f, k)
             /\ x \in DOMAIN Drop(f, k) => Drop(Put(f, k, v), k)[x] = Drop(f, k)[x]
  BY PutIn, PutAt, DropIn, DropAt
<1> QED BY <1>1, <1>2, Same

(* Putting what is there changes nothing.                                  *)
LEMMA PutSame ==
    ASSUME NEW f, IsFcn(f), NEW k \in DOMAIN f
    PROVE  Put(f, k, f[k]) = f
BY DEF Put, IsFcn

(* Folding a change into a created model changes that model.               *)
LEMMA FoldIs ==
    ASSUME NEW G, NEW R, NEW op, SoundCreate(op, G, R), NEW x, SoundPlain(x, G, R), Key(op) = Key(x),
           Is(x, Local \ {"RenameIndex"}), 
           Is(x, {"AlterField", "RenameField"}) => x.name \in DOMAIN op.def.fields,
           Is(x, {"RemoveField"}) => \A t \in op.def.unique : x.name \notin t
    PROVE  FoldIntoCreate(op.def, x) = Change(x, op.def)
<1> DEFINE m == op.def
<1> USE DEF Is, FieldOps, IndexOps, ConstraintOps
<1>0. ModelOK(m, G)
  BY DEF SoundCreate
<1>1. CASE x.op = "AlterOption"
  BY <1>1 DEF FoldIntoCreate, Change
<1>2. CASE x.op \in {"AddField", "AlterField"}
  BY <1>0, <1>2 DEF FoldIntoCreate, Change, ModelOK
<1>3. CASE x.op = "RemoveField"
  <2>1. {t \ {x.name} : t \in m.unique} \ {{}} = m.unique
    <3>1. \A t \in m.unique : t \ {x.name} = t
      BY <1>3
    <3>2. {} \notin m.unique
      BY DEF SoundCreate
    <3> QED BY <3>1, <3>2
  <2>2. [m EXCEPT !.fields = Drop(@, x.name), !.unique = m.unique] = [m EXCEPT !.fields = Drop(@, x.name)]
    BY <1>0 DEF ModelOK
  <2> QED BY <1>3, <2>1, <2>2 DEF FoldIntoCreate, Change
<1>4. CASE x.op = "RenameField"
  <2>1. <<Key(op), x.name>> \in R
    BY <1>4 DEF SoundPlain, SoundField
  <2>2. [i \in DOMAIN m.indexes |-> RenameIn(m.indexes[i], x.name, x.new)] = m.indexes
    <3>1. \A i \in DOMAIN m.indexes : x.name \notin m.indexes[i]
      BY <2>1 DEF SoundCreate, Free
    <3>2. \A i \in DOMAIN m.indexes : RenameIn(m.indexes[i], x.name, x.new) = m.indexes[i]
      BY <3>1, RenameInFree
    <3> QED BY <1>0, <3>2 DEF ModelOK, IsFcn
  <2>3. [c \in DOMAIN m.constraints |-> RenameCovered(m.constraints[c], x.name, x.new)] = m.constraints
    <3>1. \A c \in DOMAIN m.constraints :
             x.name \notin m.constraints[c].columns /\ IsFcn(m.constraints[c])
      BY <2>1 DEF SoundCreate, SoundConstraint, Free, Pointer
    <3>2. \A c \in DOMAIN m.constraints :
             RenameIn(m.constraints[c].columns, x.name, x.new) = m.constraints[c].columns
      BY <3>1, RenameInFree
    <3>3. \A c \in DOMAIN m.constraints : RenameCovered(m.constraints[c], x.name, x.new) = m.constraints[c]
      BY <3>1, <3>2 DEF RenameCovered, IsFcn
    <3> QED BY <1>0, <3>3 DEF ModelOK, IsFcn
  <2>4. Change(x, m) = [m EXCEPT !.fields = Rename(@, x.name, x.new),
                                 !.unique = {RenameIn(t, x.name, x.new) : t \in @},
                                 !.indexes = m.indexes, !.constraints = m.constraints]
    BY <1>4, <2>2, <2>3 DEF Change, RenameInModel
  <2>5. FoldIntoCreate(m, x) = [m EXCEPT !.fields = Rename(@, x.name, x.new),
                                         !.unique = {RenameIn(t, x.name, x.new) : t \in @}]
    BY <1>4 DEF FoldIntoCreate
  <2> QED BY <1>0, <2>4, <2>5 DEF ModelOK, IsFcn
<1>5. CASE x.op \in {"AddIndex", "RemoveIndex", "RemoveConstraint", "AddConstraint", "AlterConstraint"}
  BY <1>5 DEF FoldIntoCreate, Change
<1> QED BY <1>1, <1>2, <1>3, <1>4, <1>5 DEF Local

(* A change leaves the name of the model alone.                            *)
LEMMA ChangeNamed ==
    ASSUME NEW G, NEW R, NEW m, ModelOK(m, G), NEW x, SoundPlain(x, G, R), Is(x, Local), NEW n
    PROVE  Change(x, Put(m, "name", n)) = Put(Change(x, m), "name", n)
<1> USE DEF Is, FieldOps, IndexOps, ConstraintOps
<1>1. CASE x.op = "AlterOption"
  BY <1>1 DEF Change, Put, SoundPlain, SoundOption
<1>2. CASE x.op \in {"AddField", "AlterField", "RemoveField"}
  BY <1>2 DEF Change, Put, ModelOK
<1>3. CASE x.op = "RenameField"
  <2> DEFINE p == Put(m, "name", n)
  <2>1. p.fields = m.fields /\ p.unique = m.unique /\ p.indexes = m.indexes /\ p.constraints = m.constraints
    BY PutAt DEF ModelOK
  <2> DEFINE f == Rename(m.fields, x.name, x.new)
             u == {RenameIn(t, x.name, x.new) : t \in m.unique}
             i == [j \in DOMAIN m.indexes |-> RenameIn(m.indexes[j], x.name, x.new)]
             c == [j \in DOMAIN m.constraints |-> RenameCovered(m.constraints[j], x.name, x.new)]
  <2>2. Change(x, p) = [p EXCEPT !.fields = f, !.unique = u, !.indexes = i, !.constraints = c]
    <3> HIDE DEF p
    <3> QED BY <1>3, <2>1 DEF Change, RenameInModel
  <2>3. Change(x, m) = [m EXCEPT !.fields = f, !.unique = u, !.indexes = i, !.constraints = c]
    BY <1>3 DEF Change, RenameInModel
  <2> HIDE DEF f, u, i, c
  <2>4. [p EXCEPT !.fields = f, !.unique = u, !.indexes = i, !.constraints = c]
          = Put([m EXCEPT !.fields = f, !.unique = u, !.indexes = i, !.constraints = c], "name", n)
    BY DEF Put, ModelOK
  <2> QED BY <2>2, <2>3, <2>4
<1>4. CASE x.op \in {"AddIndex", "RemoveIndex", "RenameIndex"}
  BY <1>4 DEF Change, Put, ModelOK
<1>5. CASE x.op \in {"RemoveConstraint", "AddConstraint", "AlterConstraint"}
  BY <1>5 DEF Change, Put, ModelOK
<1> QED BY <1>1, <1>2, <1>3, <1>4, <1>5 DEF Local

(* The created model with the change is sound.                             *)
LEMMA FoldSound ==
    ASSUME NEW G, NEW R, NEW op, SoundCreate(op, G, R), NEW x, SoundPlain(x, G, R), Key(op) = Key(x),
           Is(x, Local \ {"RenameIndex"}),
           Is(x, {"RenameField"}) => x.name \in DOMAIN op.def.fields,
           NEW o, Key(o) = Key(op), "def" \in DOMAIN o, o.def = Change(x, op.def)
    PROVE  SoundCreate(o, G, R)
<1> DEFINE m == op.def
           d == Change(x, m)
<1> USE DEF Is, FieldOps, IndexOps, ConstraintOps
<1>0. ModelOK(m, G) /\ ModelOK(d, G)
  BY ChangeOK DEF SoundCreate
<1> SUFFICES /\ {} \notin d.unique
             /\ \A i \in DOMAIN d.indexes : Free(op, d.indexes[i], R)
             /\ \A c \in DOMAIN d.constraints : SoundConstraint(op, d.constraints[c], G, R)
  BY <1>0 DEF SoundCreate, Free, SoundConstraint
<1>1. /\ {} \notin m.unique
      /\ \A i \in DOMAIN m.indexes : Free(op, m.indexes[i], R)
      /\ \A c \in DOMAIN m.constraints : SoundConstraint(op, m.constraints[c], G, R)
  BY DEF SoundCreate
<1>2. CASE x.op = "AlterOption"
  BY <1>0, <1>1, <1>2 DEF Change, ModelOK, SoundPlain, SoundOption
<1>3. CASE x.op \in {"AddField", "AlterField", "RemoveField"}
  BY <1>0, <1>1, <1>3 DEF Change, ModelOK
<1>4. CASE x.op = "RenameField"
  <2>1. FoldIntoCreate(m, x) = d
    BY <1>4, FoldIs
  <2>2. /\ d.unique = {RenameIn(t, x.name, x.new) : t \in m.unique}
        /\ d.indexes = m.indexes /\ d.constraints = m.constraints
    BY <1>0, <1>4, <2>1 DEF FoldIntoCreate, ModelOK
  <2>3. \A t \in m.unique : RenameIn(t, x.name, x.new) # {}
    BY <1>1 DEF RenameIn
  <2> QED BY <1>1, <2>2, <2>3
<1>5. CASE x.op = "AddIndex"
  <2>1. d.unique = m.unique /\ d.indexes = Put(m.indexes, x.name, x.def) /\ d.constraints = m.constraints
    BY <1>0, <1>5 DEF Change, ModelOK
  <2>2. Free(op, x.def, R)
    BY <1>5 DEF SoundPlain, SoundPart, Free
  <2> QED BY <1>1, <2>1, <2>2, PutIn, PutAt
<1>6. CASE x.op = "RemoveIndex"
  <2>1. d.unique = m.unique /\ d.indexes = Drop(m.indexes, x.name) /\ d.constraints = m.constraints
    BY <1>0, <1>6 DEF Change, ModelOK
  <2> QED BY <1>1, <2>1, DropIn, DropAt
<1>7. CASE x.op \in {"AddConstraint", "AlterConstraint"}
  <2>1. d.unique = m.unique /\ d.constraints = Put(m.constraints, x.name, x.def) /\ d.indexes = m.indexes
    BY <1>0, <1>7 DEF Change, ModelOK
  <2>2. SoundConstraint(op, x.def, G, R)
    BY <1>7 DEF SoundPlain, SoundPart, SoundConstraint, Free
  <2> QED BY <1>1, <2>1, <2>2, PutIn, PutAt
<1>8. CASE x.op = "RemoveConstraint"
  <2>1. d.unique = m.unique /\ d.constraints = Drop(m.constraints, x.name) /\ d.indexes = m.indexes
    BY <1>0, <1>8 DEF Change, ModelOK
  <2> QED BY <1>1, <2>1, DropIn, DropAt
<1> QED BY <1>2, <1>3, <1>4, <1>5, <1>6, <1>7, <1>8 DEF Local

(* Reductions of CreateModel.                                              *)
LEMMA CreateReduces ==
    ASSUME NEW G, NEW R, NEW s, Good(s, G), NEW a, SoundPlain(a, G, R), NEW x, SoundPlain(x, G, R),
           PlainRuns(a, s), PlainRuns(x, PlainForwards(s, a)), Is(a, {"CreateModel"}), NEW r \in ReduceCreate(a, x)
    PROVE  Makes(r, s, PlainForwards(PlainForwards(s, a), x), G, R)
<1> USE DEF Is, FieldOps, IndexOps, ConstraintOps
<1> DEFINE k == Key(a)
           p == Put(a.def, "name", a.model)
           s1 == Put(s, k, p)
           s2 == PlainForwards(s1, x)
<1>1. k \notin DOMAIN s /\ PlainForwards(s, a) = s1
  BY FitsIs, RoamsForward DEF PlainRuns, Fits, NewModel, Roams, Good
<1>2. Good(s1, G) /\ Good(s2, G)
  BY <1>1, PlainGood
<1>3. SoundCreate(a, G, R) /\ {"op", "model", "def"} \subseteq DOMAIN a
  BY DEF SoundPlain, SoundCreate
<1>4. Key(x) = k /\ x.op \notin {"CreateModel", "RenameIndex"}
  BY DEF ReduceCreate, SameModel
<1>5. CASE x.op = "DeleteModel"
  <2>1. r = <<>>
    BY <1>5 DEF ReduceCreate
  <2>2. s2 = Drop(s1, k)
    BY <1>4, <1>5 DEF PlainForwards, ModelForwards, RemoveModel, Key
  <2>3. s2 = s
    BY <1>1, <2>2, DropPut DEF Good, StateOK
  <2> QED BY <1>1, <2>1, <2>3 DEF Makes
<1>6. CASE Is(x, Local)
  <2> DEFINE o == [a EXCEPT !.def = FoldIntoCreate(@, x)]
             m == a.def
  <2>1. r = <<o>>
    BY <1>4, <1>6 DEF ReduceCreate, Local
  <2>2. s1[k] = p /\ s2 = Put(s1, k, Change(x, p))
    <3>1. s1[k] = p
      BY PutAt
    <3>2. ~Fails(x, s1) /\ ~NameTaken(x, s1)
      BY <1>1 DEF PlainRuns
    <3> QED BY <1>2, <1>4, <1>6, <3>1, <3>2, ForwardIs DEF Good
  <2>3. s2 = Put(s, k, Change(x, p)) /\ s2[k] = Change(x, p) /\ k \in DOMAIN s2
    BY <2>2, PutPut, PutAt, PutIn
  <2>4. p.fields = m.fields /\ p.unique = m.unique /\ ModelOK(m, G)
    BY <1>3, PutAt DEF SoundCreate, ModelOK
  <2>5. Is(x, {"AlterField", "RenameField"}) => x.name \in DOMAIN m.fields
    <3>1. Is(x, {"AlterField", "RenameField"}) => x.name \in DOMAIN s1[k].fields
      BY <1>1, <1>4 DEF PlainRuns, Fails
    <3> QED BY <2>2, <2>4, <3>1
  <2>6. Is(x, {"RemoveField"}) => \A t \in m.unique : x.name \notin t
    <3> SUFFICES ASSUME Is(x, {"RemoveField"}) PROVE \A t \in m.unique : x.name \notin t
      OBVIOUS
    <3>1. ModelOK(p, G)
      BY <2>4, NamedOK
    <3>2. Change(x, p).fields = Drop(p.fields, x.name) /\ Change(x, p).unique = p.unique
      BY <3>1 DEF Change, ModelOK
    <3>3. Covers(Change(x, p))
      BY <1>2, <2>3, ColumnsExistIs DEF Good
    <3>4. \A t \in Change(x, p).unique : \A c \in t : c \in DOMAIN Change(x, p).fields
      BY <3>3, CoversIs
    <3> QED BY <2>4, <3>2, <3>4, DropIn
  <2>7. FoldIntoCreate(m, x) = Change(x, m)
    BY <1>3, <1>4, <1>6, <2>5, <2>6, FoldIs
  <2>8. o.op = "CreateModel" /\ o.model = a.model /\ {"op", "model", "def"} \subseteq DOMAIN o /\ o.def = Change(x, m)
    BY <1>3, <2>7
  <2> HIDE DEF o
  <2>9. Key(o) = k
    BY <2>8 DEF Key
  <2>10. SoundPlain(o, G, R)
    <3>1. SoundCreate(o, G, R)
      BY <1>3, <1>4, <1>6, <2>5, <2>8, <2>9, FoldSound
    <3> QED BY <2>8, <3>1 DEF SoundPlain
  <2>11. Fits(o, s) /\ Is(o, Roams) /\ NewModel(o, s) = Put(Change(x, m), "name", a.model)
    BY <1>1, <2>8, <2>9 DEF Fits, Roams, NewModel
  <2>12. Put(Change(x, m), "name", a.model) = Change(x, p)
    BY <1>6, <2>4, ChangeNamed
  <2>13. PlainForwards(s, o) = s2
    BY <2>3, <2>9, <2>10, <2>11, <2>12, RoamsForward DEF Good
  <2>14. Makes(<<o>>, s, s2, G, R)
    BY <1>2, <2>10, <2>11, <2>13, FitsIs, OneMakes
  <2> QED BY <1>1, <2>1, <2>14 DEF o
<1> QED BY <1>4, <1>5, <1>6 DEF SoundPlain, Local

(* Reductions of an operation on a model by what follows it on that model. *)
LEMMA OptionReduces ==
    ASSUME NEW G, NEW R, NEW s, Good(s, G), NEW a, SoundPlain(a, G, R), NEW x, SoundPlain(x, G, R),
           PlainRuns(a, s), PlainRuns(x, PlainForwards(s, a)), Is(a, {"AlterOption"}), NEW r \in ReduceOption(a, x)
    PROVE  Makes(r, s, PlainForwards(PlainForwards(s, a), x), G, R)
<1> USE DEF Is, FieldOps, IndexOps, ConstraintOps
<1> DEFINE k == Key(a)
           s1 == Put(s, k, Change(a, s[k]))
           s2 == PlainForwards(s1, x)
<1>1. k \in DOMAIN s /\ PlainForwards(s, a) = s1
  BY ForwardIs DEF PlainRuns, Good, Local
<1>2. Good(s1, G) /\ Good(s2, G)
  BY <1>1, PlainGood
<1>3. Key(x) = k /\ r = <<x>> /\ (x.op = "DeleteModel" \/ (x.op = "AlterOption" /\ x.option = a.option))
  BY DEF ReduceOption, SameModel, When
<1>4. ~Fails(x, s) /\ ~NameTaken(x, s)
  BY <1>1, <1>3 DEF Fails, NameTaken
<1>5. PlainForwards(s, x) = s2
  <2>1. CASE x.op = "DeleteModel"
    <3>1. \A q : PlainForwards(q, x) = Drop(q, k)
      BY <1>3, <2>1 DEF PlainForwards, ModelForwards, RemoveModel, Key
    <3> QED BY <3>1, DropPutAny
  <2>2. CASE x.op = "AlterOption"
    <3>1. PlainForwards(s, x) = Put(s, k, Change(x, s[k]))
      BY <1>3, <1>4, <2>2, ForwardIs DEF Good, Local
    <3>2. s2 = Put(s1, k, Change(x, s1[k])) /\ s1[k] = Change(a, s[k])
      BY <1>1, <1>2, <1>3, <2>2, ForwardIs, PutAt DEF Good, Local, PlainRuns
    <3>3. Change(x, Change(a, s[k])) = Change(x, s[k])
      BY <1>3, <2>2 DEF Change
    <3> QED BY <3>1, <3>2, <3>3, PutPut
  <2> QED BY <1>3, <2>1, <2>2
<1> QED BY <1>1, <1>2, <1>3, <1>4, <1>5, OneMakes

(* RemoveField followed by DeleteModel: the deletion is left.              *)
LEMMA RemoveFieldReduces ==
    ASSUME NEW G, NEW R, NEW s, Good(s, G), NEW a, SoundPlain(a, G, R), NEW x, SoundPlain(x, G, R),
           PlainRuns(a, s), PlainRuns(x, PlainForwards(s, a)), Is(a, {"RemoveField"}), NEW r \in ReduceRemoveField(a, x)
    PROVE  Makes(r, s, PlainForwards(PlainForwards(s, a), x), G, R)
<1> USE DEF Is, FieldOps, IndexOps, ConstraintOps
<1> DEFINE k == Key(a)
           s1 == Put(s, k, Change(a, s[k]))
           s2 == PlainForwards(s1, x)
<1>1. k \in DOMAIN s /\ PlainForwards(s, a) = s1
  BY ForwardIs DEF PlainRuns, Good, Local
<1>2. Good(s1, G) /\ Good(s2, G)
  BY <1>1, PlainGood
<1>3. Key(x) = k /\ r = <<x>> /\ x.op = "DeleteModel"
  BY DEF ReduceRemoveField, SameModel, When
<1>4. ~Fails(x, s) /\ ~NameTaken(x, s)
  BY <1>1, <1>3 DEF Fails, NameTaken
<1>5. PlainForwards(s, x) = s2
  <2>1. \A q : PlainForwards(q, x) = Drop(q, k)
    BY <1>3 DEF PlainForwards, ModelForwards, RemoveModel, Key
  <2> QED BY <2>1, DropPutAny
<1> QED BY <1>1, <1>2, <1>3, <1>4, <1>5, OneMakes

(* Two operations on one model, one after the other.                       *)
LEMMA LocalTwo ==
    ASSUME NEW G, NEW R, NEW s, Good(s, G), NEW a, SoundPlain(a, G, R), NEW x, SoundPlain(x, G, R),
           PlainRuns(a, s), PlainRuns(x, PlainForwards(s, a)), Is(a, Local), Is(x, Local), Key(a) = Key(x)
    PROVE  LET k  == Key(a)
               m  == s[k]
               s1 == Put(s, k, Change(a, m))
               s2 == Put(s, k, Change(x, Change(a, m)))
           IN  /\ k \in DOMAIN s /\ k \in DOMAIN s1 /\ s1[k] = Change(a, m) /\ IsFcn(s)
               /\ ModelOK(m, G) /\ ModelOK(Change(a, m), G)
               /\ PlainForwards(s, a) = s1
               /\ PlainForwards(PlainForwards(s, a), x) = s2
               /\ Good(s1, G) /\ Good(s2, G)
               /\ ~Fails(a, s) /\ ~NameTaken(a, s) /\ ~Fails(x, s1) /\ ~NameTaken(x, s1)
<1> DEFINE k  == Key(a)
           m  == s[k]
           s1 == Put(s, k, Change(a, m))
<1>1. ~Fails(a, s) /\ ~NameTaken(a, s) /\ StateOK(s, G)
  BY DEF PlainRuns, Good
<1>2. k \in DOMAIN s /\ PlainForwards(s, a) = s1
  BY <1>1, ForwardIs
<1>3. Good(s1, G) /\ Good(PlainForwards(s1, x), G)
  BY <1>2, PlainGood
<1>4. k \in DOMAIN s1 /\ s1[k] = Change(a, m)
  BY PutIn, PutAt
<1>5. ModelOK(m, G) /\ ModelOK(Change(a, m), G) /\ IsFcn(s)
  BY <1>1, <1>2, <1>3, <1>4 DEF StateOK, Good
<1>6. ~Fails(x, s1) /\ ~NameTaken(x, s1)
  BY <1>2 DEF PlainRuns
<1>7. PlainForwards(s1, x) = Put(s1, k, Change(x, s1[k]))
  BY <1>3, <1>6, ForwardIs DEF Good
<1>8. PlainForwards(s1, x) = Put(s, k, Change(x, Change(a, m)))
  BY <1>4, <1>7, PutPut
<1> QED BY <1>1, <1>2, <1>3, <1>4, <1>5, <1>6, <1>8

(* One operation on the model in place of two.                             *)
LEMMA LocalOne ==
    ASSUME NEW G, NEW R, NEW s, Good(s, G), NEW o, SoundPlain(o, G, R), Is(o, Local), NEW n,
           ~Fails(o, s), ~NameTaken(o, s), Change(o, s[Key(o)]) = n, Good(Put(s, Key(o), n), G)
    PROVE  Makes(<<o>>, s, Put(s, Key(o), n), G, R)
<1>1. PlainForwards(s, o) = Put(s, Key(o), n)
  BY ForwardIs DEF Good
<1> QED BY <1>1, OneMakes

(* A removed addition.                                                     *)
LEMMA LocalNone ==
    ASSUME NEW G, NEW R, NEW s, IsFcn(s), NEW k \in DOMAIN s, NEW n, n = s[k]
    PROVE  Makes(<<>>, s, Put(s, k, n), G, R)
BY PutSame DEF Makes

(* Changes of the fields and what names them are equal when their parts    *)
(* are.                                                                    *)
LEMMA SameParts ==
    ASSUME NEW G, NEW m, ModelOK(m, G), NEW n, ModelOK(n, G), DOMAIN m = DOMAIN n,
           m.fields = n.fields, m.unique = n.unique, m.indexes = n.indexes, m.constraints = n.constraints,
           \A l \in DOMAIN m \ {"fields", "unique", "indexes", "constraints"} : m[l] = n[l]
    PROVE  m = n
<1>1. \A l \in DOMAIN m : m[l] = n[l]
  OBVIOUS
<1> QED BY <1>1, Same DEF ModelOK

(* The parts of a model after two such operations.                         *)
LEMMA TwoParts ==
    ASSUME NEW G, NEW m, ModelOK(m, G), NEW a, OfFields(a), ModelOK(Change(a, m), G), NEW x, OfFields(x)
    PROVE  LET n == Change(x, Change(a, m))
           IN  /\ n.fields = FieldsOf(x, FieldsOf(a, m.fields))
               /\ n.unique = UniqueOf(x, UniqueOf(a, m.unique))
               /\ n.indexes = IndexesOf(x, IndexesOf(a, m.indexes))
               /\ n.constraints = ConstraintsOf(x, ConstraintsOf(a, m.constraints))
               /\ DOMAIN n = DOMAIN m
               /\ \A l \in DOMAIN m \ {"fields", "unique", "indexes", "constraints"} : n[l] = m[l]
<1> DEFINE p == Change(a, m)
           n == Change(x, p)
<1>1. /\ p.fields = FieldsOf(a, m.fields) /\ p.unique = UniqueOf(a, m.unique)
      /\ p.indexes = IndexesOf(a, m.indexes) /\ p.constraints = ConstraintsOf(a, m.constraints)
      /\ DOMAIN p = DOMAIN m
      /\ \A l \in DOMAIN m \ {"fields", "unique", "indexes", "constraints"} : p[l] = m[l]
  BY ChangeParts
<1>2. /\ n.fields = FieldsOf(x, p.fields) /\ n.unique = UniqueOf(x, p.unique)
      /\ n.indexes = IndexesOf(x, p.indexes) /\ n.constraints = ConstraintsOf(x, p.constraints)
      /\ DOMAIN n = DOMAIN p
      /\ \A l \in DOMAIN p \ {"fields", "unique", "indexes", "constraints"} : n[l] = p[l]
  BY ChangeParts
<1> HIDE DEF p, n
<1>3. /\ n.fields = FieldsOf(x, FieldsOf(a, m.fields)) /\ n.unique = UniqueOf(x, UniqueOf(a, m.unique))
      /\ n.indexes = IndexesOf(x, IndexesOf(a, m.indexes))
      /\ n.constraints = ConstraintsOf(x, ConstraintsOf(a, m.constraints))
      /\ DOMAIN n = DOMAIN m
      /\ \A l \in DOMAIN m \ {"fields", "unique", "indexes", "constraints"} : n[l] = m[l]
  BY <1>1, <1>2
<1> QED BY <1>3 DEF n, p

(* A change of fields that touches nothing else.                           *)
LEMMA OnlyFields ==
    ASSUME NEW op, Is(op, {"AddField", "AlterField", "RemoveField"}), NEW u
    PROVE  UniqueOf(op, u) = u /\ IndexesOf(op, u) = u /\ ConstraintsOf(op, u) = u
BY DEF UniqueOf, IndexesOf, ConstraintsOf, Is

(* A rename of a column that nothing covers touches nothing else.          *)
LEMMA UncoveredRename ==
    ASSUME NEW G, NEW m, ModelOK(m, G), Covers(m), NEW x, Is(x, {"RenameField"}), x.name \notin DOMAIN m.fields
    PROVE  /\ UniqueOf(x, m.unique) = m.unique
           /\ IndexesOf(x, m.indexes) = m.indexes
           /\ ConstraintsOf(x, m.constraints) = m.constraints
<1>3. /\ \A t \in m.unique : RenameIn(t, x.name, x.new) = t
      /\ \A i \in DOMAIN m.indexes : RenameIn(m.indexes[i], x.name, x.new) = m.indexes[i]
      /\ \A c \in DOMAIN m.constraints : RenameIn(m.constraints[c].columns, x.name, x.new) = m.constraints[c].columns
  BY CoversIs, RenameInFree
<1>4. {RenameIn(t, x.name, x.new) : t \in m.unique} = m.unique
  BY <1>3
<1>5. [i \in DOMAIN m.indexes |-> RenameIn(m.indexes[i], x.name, x.new)] = m.indexes
  BY <1>3 DEF ModelOK, IsFcn
<1>6. [c \in DOMAIN m.constraints |-> RenameCovered(m.constraints[c], x.name, x.new)] = m.constraints
  <2>1. \A c \in DOMAIN m.constraints : IsFcn(m.constraints[c])
    BY DEF ModelOK, Pointers, Range, Pointer
  <2>2. \A c \in DOMAIN m.constraints : RenameCovered(m.constraints[c], x.name, x.new) = m.constraints[c]
    BY <1>3, <2>1 DEF RenameCovered, IsFcn
  <2> QED BY <2>2 DEF ModelOK, IsFcn
<1> QED BY <1>4, <1>5, <1>6 DEF UniqueOf, IndexesOf, ConstraintsOf, Is

(* An entry put and renamed is put under the new name.                     *)
LEMMA RenamePut ==
    ASSUME NEW f, IsFcn(f), NEW k, NEW v, NEW new, k \notin DOMAIN f
    PROVE  Rename(Put(f, k, v), k, new) = Put(f, new, v)
<1>1. IsFcn(Rename(Put(f, k, v), k, new)) /\ IsFcn(Put(f, new, v))
  BY RenameFcn, PutFcn
<1>2. \A x : /\ x \in DOMAIN Rename(Put(f, k, v), k, new) <=> x \in DOMAIN Put(f, new, v)
             /\ x \in DOMAIN Put(f, new, v) => Rename(Put(f, k, v), k, new)[x] = Put(f, new, v)[x]
  BY PutIn, PutAt, RenamedIn, RenameAt
<1> QED BY <1>1, <1>2, Same

(* Two renames in a row are one.                                           *)
LEMMA RenameRename ==
    ASSUME NEW f, IsFcn(f), NEW x \in DOMAIN f, NEW y, NEW z, y \notin DOMAIN f \/ y = x
    PROVE  Rename(Rename(f, x, y), y, z) = Rename(f, x, z)
<1>1. IsFcn(Rename(Rename(f, x, y), y, z)) /\ IsFcn(Rename(f, x, z))
  BY RenameFcn
<1>2. \A c : /\ c \in DOMAIN Rename(Rename(f, x, y), y, z) <=> c \in DOMAIN Rename(f, x, z)
             /\ c \in DOMAIN Rename(f, x, z) => Rename(Rename(f, x, y), y, z)[c] = Rename(f, x, z)[c]
  BY RenamedIn, RenameAt
<1> QED BY <1>1, <1>2, Same

(* AddField followed by a change of the field.                             *)
LEMMA AddFieldReduces ==
    ASSUME NEW G, NEW R, NEW s, Good(s, G), NEW a, SoundPlain(a, G, R), NEW x, SoundPlain(x, G, R),
           PlainRuns(a, s), PlainRuns(x, PlainForwards(s, a)), Is(a, {"AddField"}), NEW r \in ReduceAddField(a, x)
    PROVE  Makes(r, s, PlainForwards(PlainForwards(s, a), x), G, R)
<1> USE DEF Is, FieldOps, IndexOps, ConstraintOps
<1> DEFINE k == Key(a)
           m == s[k]
           s1 == Put(s, k, Change(a, m))
           s2 == Put(s, k, Change(x, Change(a, m)))
<1>0. /\ Key(x) = k /\ x.name = a.name /\ x.op \in {"AlterField", "RemoveField", "RenameField"}
      /\ x.op = "AlterField" => r = <<[a EXCEPT !.def = x.def]>>
      /\ x.op = "RemoveField" => r = <<>>
      /\ x.op = "RenameField" => r = <<[a EXCEPT !.name = x.new]>>
  BY DEF ReduceAddField, SameName, SameModel, When
<1>1. /\ k \in DOMAIN s /\ k \in DOMAIN s1 /\ s1[k] = Change(a, m) /\ IsFcn(s)
      /\ ModelOK(m, G) /\ ModelOK(Change(a, m), G)
      /\ PlainForwards(PlainForwards(s, a), x) = s2
      /\ Good(s1, G) /\ Good(s2, G)
      /\ ~Fails(a, s) /\ ~NameTaken(a, s) /\ ~Fails(x, s1) /\ ~NameTaken(x, s1)
  BY <1>0, LocalTwo DEF Local
<1>2. a.name \notin DOMAIN m.fields /\ IsFcn(m.fields)
  BY <1>1 DEF NameTaken, ModelOK
<1>3. OfFields(a) /\ OfFields(x)
  BY <1>0 DEF OfFields
<1>4. Change(a, m).fields = Put(m.fields, a.name, a.def)
  BY <1>1, <1>3, ChangeParts DEF FieldsOf
<1>4a. ModelOK(Change(x, Change(a, m)), G)
  <2>1. k \in DOMAIN s2 /\ s2[k] = Change(x, Change(a, m))
    BY PutIn, PutAt
  <2> QED BY <1>1, <2>1 DEF Good, StateOK
<1>5. {"op", "model", "name", "def", "preserve"} \subseteq DOMAIN a /\ SoundField(a, G, R)
  BY DEF SoundPlain, SoundField
<1> HIDE DEF s1
<1>6. CASE x.op = "RemoveField"
  <2>1. FieldsOf(x, FieldsOf(a, m.fields)) = m.fields
    BY <1>0, <1>2, <1>6, DropPut DEF FieldsOf
  <2>2. /\ UniqueOf(x, UniqueOf(a, m.unique)) = m.unique
        /\ IndexesOf(x, IndexesOf(a, m.indexes)) = m.indexes
        /\ ConstraintsOf(x, ConstraintsOf(a, m.constraints)) = m.constraints
    BY <1>6, OnlyFields
  <2>3. Change(x, Change(a, m)) = m
    BY <1>1, <1>3, <1>4a, <2>1, <2>2, TwoParts, SameParts
  <2> QED BY <1>0, <1>1, <1>6, <2>3, LocalNone
<1>7. CASE x.op = "AlterField"
  <2> DEFINE o == [a EXCEPT !.def = x.def]
  <2>1. /\ o.op = "AddField" /\ o.model = a.model /\ o.name = a.name /\ o.def = x.def /\ o.preserve = a.preserve
        /\ DOMAIN o = DOMAIN a
    BY <1>5
  <2> HIDE DEF o
  <2>2. SoundPlain(o, G, R) /\ Key(o) = k
    BY <1>5, <1>7, <2>1 DEF SoundPlain, SoundField, Key
  <2>3. ~Fails(o, s) /\ ~NameTaken(o, s)
    BY <1>1, <1>2, <2>1, <2>2 DEF Fails, NameTaken
  <2>4. Change(o, m) = Change(x, Change(a, m))
    <3>1. OfFields(o)
      BY <2>1 DEF OfFields
    <3>2. ModelOK(Change(o, m), G)
      BY <1>1, <2>1, <2>2, ChangeOK DEF Local
    <3>3. FieldsOf(x, FieldsOf(a, m.fields)) = FieldsOf(o, m.fields)
      BY <1>0, <1>7, <2>1, PutPut DEF FieldsOf
    <3>4. /\ UniqueOf(x, UniqueOf(a, m.unique)) = UniqueOf(o, m.unique)
          /\ IndexesOf(x, IndexesOf(a, m.indexes)) = IndexesOf(o, m.indexes)
          /\ ConstraintsOf(x, ConstraintsOf(a, m.constraints)) = ConstraintsOf(o, m.constraints)
      BY <1>7, <2>1, OnlyFields
    <3> QED BY <1>1, <1>3, <1>4a, <3>1, <3>2, <3>3, <3>4, TwoParts, ChangeParts, SameParts
  <2>5. Makes(<<o>>, s, s2, G, R)
    BY <1>1, <2>1, <2>2, <2>3, <2>4, LocalOne DEF Local
  <2> QED BY <1>0, <1>1, <1>7, <2>5 DEF o
<1>8. CASE x.op = "RenameField"
  <2> DEFINE o == [a EXCEPT !.name = x.new]
  <2>1. /\ o.op = "AddField" /\ o.model = a.model /\ o.name = x.new /\ o.def = a.def /\ o.preserve = a.preserve
        /\ DOMAIN o = DOMAIN a
    BY <1>5
  <2> HIDE DEF o
  <2>2. SoundPlain(o, G, R) /\ Key(o) = k
    BY <1>5, <2>1 DEF SoundPlain, SoundField, Key
  <2>3. x.new \notin DOMAIN m.fields
    <3>1. x.new \notin DOMAIN s1[k].fields \ {x.name}
      BY <1>0, <1>1, <1>8 DEF NameTaken
    <3> QED BY <1>0, <1>1, <1>2, <1>4, <3>1, PutIn
  <2>4. ~Fails(o, s) /\ ~NameTaken(o, s)
    BY <1>1, <2>1, <2>2, <2>3 DEF Fails, NameTaken
  <2>5. Change(o, m) = Change(x, Change(a, m))
    <3>1. OfFields(o)
      BY <2>1 DEF OfFields
    <3>2. ModelOK(Change(o, m), G)
      BY <1>1, <2>1, <2>2, ChangeOK DEF Local
    <3>3. FieldsOf(x, FieldsOf(a, m.fields)) = FieldsOf(o, m.fields)
      BY <1>0, <1>2, <1>8, <2>1, RenamePut DEF FieldsOf
    <3>4. Covers(m)
      BY <1>1, ColumnsExistIs DEF Good
    <3>5. /\ UniqueOf(x, UniqueOf(a, m.unique)) = UniqueOf(o, m.unique)
          /\ IndexesOf(x, IndexesOf(a, m.indexes)) = IndexesOf(o, m.indexes)
          /\ ConstraintsOf(x, ConstraintsOf(a, m.constraints)) = ConstraintsOf(o, m.constraints)
      BY <1>0, <1>1, <1>2, <1>8, <2>1, <3>4, OnlyFields, UncoveredRename
    <3> QED BY <1>1, <1>3, <1>4a, <3>1, <3>2, <3>3, <3>5, TwoParts, ChangeParts, SameParts
  <2>6. Makes(<<o>>, s, s2, G, R)
    BY <1>1, <2>1, <2>2, <2>4, <2>5, LocalOne DEF Local
  <2> QED BY <1>0, <1>1, <1>8, <2>6 DEF o
<1> QED BY <1>0, <1>6, <1>7, <1>8

(* An entry altered and renamed, or renamed and altered.                   *)
LEMMA PutRename ==
    ASSUME NEW f, IsFcn(f), NEW k \in DOMAIN f, NEW v, NEW new
    PROVE  Put(Rename(f, k, new), new, v) = Rename(Put(f, k, v), k, new)
<1>1. IsFcn(Put(Rename(f, k, new), new, v)) /\ IsFcn(Rename(Put(f, k, v), k, new))
  BY RenameFcn, PutFcn
<1>2. \A x : /\ x \in DOMAIN Put(Rename(f, k, new), new, v) <=> x \in DOMAIN Rename(Put(f, k, v), k, new)
             /\ x \in DOMAIN Rename(Put(f, k, v), k, new) =>
                   Put(Rename(f, k, new), new, v)[x] = Rename(Put(f, k, v), k, new)[x]
  BY PutIn, PutAt, RenamedIn, RenameAt
<1> QED BY <1>1, <1>2, Same

(* A rename that fits a good state runs, if what it leaves of the model    *)
(* covers no column that is gone.                                          *)
LEMMA RenameRuns ==
    ASSUME NEW G, NEW R, NEW s, Good(s, G), NEW x, SoundPlain(x, G, R), Is(x, {"RenameField"}), Fits(x, s),
           Covers(Change(x, s[Key(x)]))
    PROVE  PlainRuns(x, s)
<1> USE DEF Is, FieldOps, IndexOps, ConstraintOps
<1> DEFINE k == Key(x)
           n == Change(x, s[k])
           u == Put(s, k, n)
<1>1. k \in DOMAIN s /\ StateOK(s, G) /\ FitsModel(x, s[k]) /\ NewModel(x, s) = n /\ x.op \in Roams
  BY DEF Fits, Good, NewModel, Roams
<1>2. \A y : Finds(y, s) /\ (\A g \in y.toFields : <<y.to, g>> \notin G) => Finds(y, u)
  BY <1>1, StillFinds
<1>3. \A j \in DOMAIN s : \A y \in Pointers(s[j]) : Finds(y, s) /\ \A g \in y.toFields : <<y.to, g>> \notin G
  BY RendersIs DEF Good, StateOK, ModelOK, Pointer
<1>4. ModelOK(s[k], G)
  BY <1>1 DEF StateOK
<1>5. \A y \in Pointers(n) : \E z \in Pointers(s[k]) : z.to = y.to /\ z.toFields = y.toFields
  BY <1>1, <1>4, ChangePointers
<1>6. Renders(u)
  <2> SUFFICES ASSUME NEW j \in DOMAIN u, NEW y \in Pointers(u[j]) PROVE Finds(y, u)
    BY RendersIs
  <2>1. CASE j = k
    <3>1. y \in Pointers(n)
      BY <2>1, PutAt
    <3>2. PICK z \in Pointers(s[k]) : z.to = y.to /\ z.toFields = y.toFields
      BY <1>5, <3>1
    <3>3. Finds(z, u)
      BY <1>1, <1>2, <1>3
    <3> QED BY <3>2, <3>3 DEF Finds
  <2>2. CASE j # k
    <3>1. j \in DOMAIN s /\ u[j] = s[j]
      BY <2>2, PutIn, PutAt
    <3> QED BY <1>2, <1>3, <3>1
  <2> QED BY <2>1, <2>2
<1>7. ColumnsExist(u)
  <2> SUFFICES ASSUME NEW j \in DOMAIN u PROVE Covers(u[j])
    BY ColumnsExistIs
  <2>1. CASE j = k
    BY <2>1, PutAt
  <2>2. CASE j # k
    <3>1. j \in DOMAIN s /\ u[j] = s[j]
      BY <2>2, PutIn, PutAt
    <3> QED BY <3>1, ColumnsExistIs DEF Good
  <2> QED BY <2>1, <2>2
<1> QED BY <1>1, <1>6, <1>7, RoamsRuns

(* AlterField followed by a change of the field; a rename goes first.      *)
LEMMA AlterFieldReduces ==
    ASSUME NEW G, NEW R, NEW s, Good(s, G), NEW a, SoundPlain(a, G, R), NEW x, SoundPlain(x, G, R),
           PlainRuns(a, s), PlainRuns(x, PlainForwards(s, a)), Is(a, {"AlterField"}), NEW r \in ReduceAlterField(a, x)
    PROVE  Makes(r, s, PlainForwards(PlainForwards(s, a), x), G, R)
<1> USE DEF Is, FieldOps, IndexOps, ConstraintOps
<1> DEFINE k == Key(a)
           m == s[k]
           s1 == Put(s, k, Change(a, m))
           s2 == Put(s, k, Change(x, Change(a, m)))
<1>0. /\ Key(x) = k /\ x.name = a.name /\ x.op \in {"AlterField", "RemoveField", "RenameField"}
      /\ x.op # "RenameField" => r = <<x>>
      /\ x.op = "RenameField" => r = <<x, [a EXCEPT !.name = x.new]>>
  BY DEF ReduceAlterField, SameName, SameModel, When
<1>1. /\ k \in DOMAIN s /\ k \in DOMAIN s1 /\ s1[k] = Change(a, m) /\ IsFcn(s)
      /\ ModelOK(m, G) /\ ModelOK(Change(a, m), G)
      /\ PlainForwards(PlainForwards(s, a), x) = s2
      /\ Good(s1, G) /\ Good(s2, G)
      /\ ~Fails(a, s) /\ ~NameTaken(a, s) /\ ~Fails(x, s1) /\ ~NameTaken(x, s1)
  BY <1>0, LocalTwo DEF Local
<1>2. a.name \in DOMAIN m.fields /\ IsFcn(m.fields)
  BY <1>1 DEF Fails, ModelOK
<1>3. OfFields(a) /\ OfFields(x)
  BY <1>0 DEF OfFields
<1>4. Change(a, m).fields = Put(m.fields, a.name, a.def)
  BY <1>1, <1>3, ChangeParts DEF FieldsOf
<1>4a. ModelOK(Change(x, Change(a, m)), G) /\ Covers(Change(x, Change(a, m)))
  <2>1. k \in DOMAIN s2 /\ s2[k] = Change(x, Change(a, m))
    BY PutIn, PutAt
  <2> QED BY <1>1, <2>1, ColumnsExistIs DEF Good, StateOK
<1>5. {"op", "model", "name", "def", "preserve"} \subseteq DOMAIN a /\ SoundField(a, G, R)
  BY DEF SoundPlain, SoundField
<1> HIDE DEF s1
<1>6. CASE x.op \in {"AlterField", "RemoveField"}
  <2>1. FieldsOf(x, FieldsOf(a, m.fields)) = FieldsOf(x, m.fields)
    BY <1>0, <1>6, PutPut, DropPutAny DEF FieldsOf
  <2>2. /\ UniqueOf(x, UniqueOf(a, m.unique)) = UniqueOf(x, m.unique)
        /\ IndexesOf(x, IndexesOf(a, m.indexes)) = IndexesOf(x, m.indexes)
        /\ ConstraintsOf(x, ConstraintsOf(a, m.constraints)) = ConstraintsOf(x, m.constraints)
    BY OnlyFields
  <2>3. ModelOK(Change(x, m), G)
    BY <1>1, <1>6, ChangeOK DEF Local
  <2>4. Change(x, m) = Change(x, Change(a, m))
    BY <1>1, <1>3, <1>4a, <2>1, <2>2, <2>3, TwoParts, ChangeParts, SameParts
  <2>5. ~Fails(x, s) /\ ~NameTaken(x, s)
    BY <1>0, <1>1, <1>2, <1>6 DEF Fails, NameTaken
  <2> QED BY <1>0, <1>1, <1>6, <2>4, <2>5, LocalOne DEF Local
<1>8. CASE x.op = "RenameField"
  <2> DEFINE o == [a EXCEPT !.name = x.new]
  <2>1. /\ o.op = "AlterField" /\ o.model = a.model /\ o.name = x.new /\ o.def = a.def /\ o.preserve = a.preserve
        /\ DOMAIN o = DOMAIN a
    BY <1>5
  <2> HIDE DEF o
  <2>2. SoundPlain(o, G, R) /\ Key(o) = k
    BY <1>5, <2>1 DEF SoundPlain, SoundField, Key
  <2> DEFINE n == Change(x, m)
             u == Put(s, k, n)
  <2>3. x.new \notin DOMAIN m.fields \/ x.new = x.name
    <3>1. x.new \notin DOMAIN s1[k].fields \ {x.name}
      BY <1>0, <1>1, <1>8 DEF NameTaken
    <3> QED BY <1>0, <1>1, <1>2, <1>4, <3>1, PutIn
  <2>4. Fits(x, s)
    BY <1>0, <1>1, <1>2, <1>8, <2>3 DEF Fits, FitsModel
  <2>5. ModelOK(n, G)
    BY <1>0, <1>1, <1>2, <1>8, ChangeOK DEF Local
  <2>6. /\ n.fields = Rename(m.fields, a.name, x.new)
        /\ n.unique = Change(x, Change(a, m)).unique
        /\ n.indexes = Change(x, Change(a, m)).indexes
        /\ n.constraints = Change(x, Change(a, m)).constraints
        /\ DOMAIN n = DOMAIN m
        /\ \A l \in DOMAIN m \ {"fields", "unique", "indexes", "constraints"} : n[l] = m[l]
    <3>1. /\ UniqueOf(a, m.unique) = m.unique
          /\ IndexesOf(a, m.indexes) = m.indexes
          /\ ConstraintsOf(a, m.constraints) = m.constraints
      BY OnlyFields
    <3>2. FieldsOf(x, m.fields) = Rename(m.fields, a.name, x.new)
      BY <1>0, <1>8 DEF FieldsOf
    <3> QED BY <1>1, <1>3, <3>1, <3>2, TwoParts, ChangeParts
  <2>7. Change(x, Change(a, m)).fields = Rename(Put(m.fields, a.name, a.def), a.name, x.new)
    <3>1. FieldsOf(x, FieldsOf(a, m.fields)) = Rename(Put(m.fields, a.name, a.def), a.name, x.new)
      BY <1>0, <1>8 DEF FieldsOf
    <3> QED BY <1>1, <1>3, <3>1, TwoParts
  <2>8. Covers(n)
    <3> DEFINE q == Change(x, Change(a, m))
    <3>1. \A c : c \in DOMAIN q.fields <=> c \in DOMAIN n.fields
      BY <1>2, <2>6, <2>7, RenamedIn, PutIn
    <3> HIDE DEF q, n
    <3> QED BY <1>4a, <2>6, <3>1, CoversIs DEF q
  <2>9. PlainRuns(x, s)
    BY <1>0, <1>8, <2>4, <2>8, RenameRuns
  <2>10. PlainForwards(s, x) = u /\ Good(u, G)
    BY <1>0, <1>8, <2>9, ForwardIs, PlainGood DEF Local, Good, PlainRuns
  <2>11. k \in DOMAIN u /\ u[k] = n
    BY PutIn, PutAt
  <2>12. Change(o, n) = Change(x, Change(a, m))
    <3>1. OfFields(o)
      BY <2>1 DEF OfFields
    <3>2. ModelOK(Change(o, n), G)
      BY <2>1, <2>2, <2>5, ChangeOK DEF Local
    <3>3. FieldsOf(o, n.fields) = Change(x, Change(a, m)).fields
      BY <1>0, <1>2, <2>1, <2>6, <2>7, PutRename DEF FieldsOf
    <3>4. /\ UniqueOf(o, n.unique) = n.unique
          /\ IndexesOf(o, n.indexes) = n.indexes
          /\ ConstraintsOf(o, n.constraints) = n.constraints
      BY <2>1, OnlyFields
    <3>5. /\ DOMAIN Change(x, Change(a, m)) = DOMAIN m
          /\ \A l \in DOMAIN m \ {"fields", "unique", "indexes", "constraints"} : Change(x, Change(a, m))[l] = m[l]
      BY <1>1, <1>3, TwoParts
    <3> DEFINE p == Change(o, n)
               q == Change(x, Change(a, m))
    <3>6. /\ p.fields = FieldsOf(o, n.fields) /\ p.unique = UniqueOf(o, n.unique)
          /\ p.indexes = IndexesOf(o, n.indexes) /\ p.constraints = ConstraintsOf(o, n.constraints)
          /\ DOMAIN p = DOMAIN n
          /\ \A l \in DOMAIN n \ {"fields", "unique", "indexes", "constraints"} : p[l] = n[l]
      BY <2>5, <3>1, ChangeParts
    <3>7. /\ q.fields = FieldsOf(o, n.fields) /\ q.unique = n.unique /\ q.indexes = n.indexes
          /\ q.constraints = n.constraints /\ DOMAIN q = DOMAIN m
          /\ \A l \in DOMAIN m \ {"fields", "unique", "indexes", "constraints"} : q[l] = m[l]
      BY <2>6, <3>3, <3>5
    <3>8. ModelOK(p, G) /\ ModelOK(q, G)
      BY <1>4a, <3>2
    <3> HIDE DEF p, q, n
    <3>9. p = q
      BY <2>6, <3>4, <3>6, <3>7, <3>8, SameParts
    <3> QED BY <3>9 DEF p, q, n
  <2>13. ~Fails(o, u) /\ ~NameTaken(o, u)
    <3>1. x.new \in DOMAIN n.fields
      BY <2>6, RenamedIn
    <3> QED BY <2>1, <2>2, <2>11, <3>1 DEF Fails, NameTaken
  <2>14. PlainForwards(u, o) = s2
    <3>1. PlainForwards(u, o) = Put(u, k, Change(o, u[k]))
      BY <2>1, <2>2, <2>10, <2>13, ForwardIs DEF Local, Good
    <3> QED BY <2>11, <2>12, <3>1, PutPut
  <2>15. PlainRuns(o, u)
    BY <1>1, <2>13, <2>14 DEF PlainRuns, Good
  <2>17. r = <<x, o>>
    BY <1>0, <1>8 DEF o
  <2> HIDE DEF u
  <2>18. Makes(r, s, s2, G, R)
    BY <2>2, <2>9, <2>10, <2>14, <2>15, <2>17, Zenon DEF Makes
  <2> QED BY <1>1, <2>18
<1> QED BY <1>0, <1>6, <1>8

(* Two renames in a row in a set of columns are one.                       *)
LEMMA RenameInTwice ==
    ASSUME NEW S, NEW x, NEW y, NEW z, y \notin S \/ y = x
    PROVE  RenameIn(RenameIn(S, x, y), y, z) = RenameIn(S, x, z)
<1>1. \A c \in S : Swap(Swap(c, x, y), y, z) = Swap(c, x, z)
  BY DEF Swap
<1> QED BY <1>1 DEF RenameIn

(* RenameField followed by a rename of the new name.                       *)
LEMMA RenameFieldReduces ==
    ASSUME NEW G, NEW R, NEW s, Good(s, G), NEW a, SoundPlain(a, G, R), NEW x, SoundPlain(x, G, R),
           PlainRuns(a, s), PlainRuns(x, PlainForwards(s, a)), Is(a, {"RenameField"}), NEW r \in ReduceRenameField(a, x)
    PROVE  Makes(r, s, PlainForwards(PlainForwards(s, a), x), G, R)
<1> USE DEF Is, FieldOps, IndexOps, ConstraintOps
<1> DEFINE k == Key(a)
           m == s[k]
           s1 == Put(s, k, Change(a, m))
           s2 == Put(s, k, Change(x, Change(a, m)))
           o == [a EXCEPT !.new = x.new]
<1>0. Key(x) = k /\ x.name = a.new /\ x.op = "RenameField" /\ r = <<o>>
  BY DEF ReduceRenameField, SameModel, When
<1>1. /\ k \in DOMAIN s /\ k \in DOMAIN s1 /\ s1[k] = Change(a, m) /\ IsFcn(s)
      /\ ModelOK(m, G) /\ ModelOK(Change(a, m), G)
      /\ PlainForwards(PlainForwards(s, a), x) = s2
      /\ Good(s1, G) /\ Good(s2, G)
      /\ ~Fails(a, s) /\ ~NameTaken(a, s) /\ ~Fails(x, s1) /\ ~NameTaken(x, s1)
  BY <1>0, LocalTwo DEF Local
<1>2. a.name \in DOMAIN m.fields /\ IsFcn(m.fields) /\ (a.new \notin DOMAIN m.fields \/ a.new = a.name)
  BY <1>1 DEF Fails, NameTaken, ModelOK
<1>3. OfFields(a) /\ OfFields(x)
  BY <1>0 DEF OfFields
<1>4. Change(a, m).fields = Rename(m.fields, a.name, a.new)
  BY <1>1, <1>3, ChangeParts DEF FieldsOf
<1>4a. ModelOK(Change(x, Change(a, m)), G)
  <2>1. k \in DOMAIN s2 /\ s2[k] = Change(x, Change(a, m))
    BY PutIn, PutAt
  <2> QED BY <1>1, <2>1 DEF Good, StateOK
<1>5. {"op", "model", "name", "new"} \subseteq DOMAIN a /\ SoundField(a, G, R)
  BY DEF SoundPlain, SoundField
<1> HIDE DEF s1
<1>6. /\ o.op = "RenameField" /\ o.model = a.model /\ o.name = a.name /\ o.new = x.new
      /\ DOMAIN o = DOMAIN a
  BY <1>5
<1> HIDE DEF o
<1>7. SoundPlain(o, G, R) /\ Key(o) = k
  BY <1>5, <1>6 DEF SoundPlain, SoundField, Key
<1>8. x.new \notin DOMAIN m.fields \ {a.name}
  <2>1. x.new \notin DOMAIN s1[k].fields \ {x.name}
    BY <1>0, <1>1 DEF NameTaken
  <2> QED BY <1>0, <1>1, <1>2, <1>4, <2>1, RenamedIn
<1>9. ~Fails(o, s) /\ ~NameTaken(o, s)
  BY <1>1, <1>2, <1>6, <1>7, <1>8 DEF Fails, NameTaken
<1>10. Change(o, m) = Change(x, Change(a, m))
  <2>1. OfFields(o)
    BY <1>6 DEF OfFields
  <2>2. ModelOK(Change(o, m), G)
    BY <1>1, <1>2, <1>6, <1>7, ChangeOK DEF Local
  <2>3. FieldsOf(x, FieldsOf(a, m.fields)) = FieldsOf(o, m.fields)
    BY <1>0, <1>2, <1>6, RenameRename DEF FieldsOf
  <2>4. Covers(m)
    BY <1>1, ColumnsExistIs DEF Good
  <2>5. /\ \A t \in m.unique : a.new \notin t \/ a.new = a.name
        /\ \A i \in DOMAIN m.indexes : a.new \notin m.indexes[i] \/ a.new = a.name
        /\ \A c \in DOMAIN m.constraints : a.new \notin m.constraints[c].columns \/ a.new = a.name
    BY <1>2, <2>4, CoversIs
  <2>6. UniqueOf(x, UniqueOf(a, m.unique)) = UniqueOf(o, m.unique)
    <3>1. \A t \in m.unique : RenameIn(RenameIn(t, a.name, a.new), a.new, x.new) = RenameIn(t, a.name, x.new)
      BY <2>5, RenameInTwice
    <3> QED BY <1>0, <1>6, <3>1 DEF UniqueOf
  <2>7. IndexesOf(x, IndexesOf(a, m.indexes)) = IndexesOf(o, m.indexes)
    <3>1. \A i \in DOMAIN m.indexes :
             RenameIn(RenameIn(m.indexes[i], a.name, a.new), a.new, x.new) = RenameIn(m.indexes[i], a.name, x.new)
      BY <2>5, RenameInTwice
    <3> QED BY <1>0, <1>6, <3>1 DEF IndexesOf
  <2>8. ConstraintsOf(x, ConstraintsOf(a, m.constraints)) = ConstraintsOf(o, m.constraints)
    <3>1. \A c \in DOMAIN m.constraints :
             RenameIn(RenameIn(m.constraints[c].columns, a.name, a.new), a.new, x.new)
               = RenameIn(m.constraints[c].columns, a.name, x.new)
      BY <2>5, RenameInTwice
    <3>2. \A c \in DOMAIN m.constraints : IsFcn(m.constraints[c]) /\ "columns" \in DOMAIN m.constraints[c]
      BY <1>1 DEF ModelOK, Pointers, Range, Pointer
    <3>3. \A c \in DOMAIN m.constraints :
             RenameCovered(RenameCovered(m.constraints[c], a.name, a.new), a.new, x.new)
               = RenameCovered(m.constraints[c], a.name, x.new)
      BY <3>1, <3>2 DEF RenameCovered, IsFcn
    <3> QED BY <1>0, <1>6, <3>3 DEF ConstraintsOf
  <2> QED BY <1>1, <1>3, <1>4a, <2>1, <2>2, <2>3, <2>6, <2>7, <2>8, TwoParts, ChangeParts, SameParts
<1>11. Makes(<<o>>, s, s2, G, R)
  BY <1>1, <1>6, <1>7, <1>9, <1>10, LocalOne DEF Local
<1> QED BY <1>0, <1>1, <1>11

(* The name of an index is its own in the project.                         *)
LEMMA AddIndexReduces ==
    ASSUME NEW G, NEW R, NEW s, Good(s, G), NEW a, SoundPlain(a, G, R), NEW x, SoundPlain(x, G, R),
           PlainRuns(a, s), PlainRuns(x, PlainForwards(s, a)), Is(a, {"AddIndex"}), NEW r \in ReduceAddIndex(a, x)
    PROVE  Makes(r, s, PlainForwards(PlainForwards(s, a), x), G, R)
<1> USE DEF Is, FieldOps, IndexOps, ConstraintOps
<1> DEFINE k == Key(a)
           m == s[k]
           s1 == Put(s, k, Change(a, m))
           s2 == Put(s, k, Change(x, Change(a, m)))
<1>0. /\ x.name = a.name /\ x.op \in {"RemoveIndex", "RenameIndex"}
      /\ x.op = "RemoveIndex" => r = <<>>
      /\ x.op = "RenameIndex" => r = <<[a EXCEPT !.name = x.new]>>
  BY DEF ReduceAddIndex, When
<1>0a. \A j \in DOMAIN s : a.name \notin DOMAIN s[j].indexes
  BY DEF PlainRuns, NameTaken
<1>0b. k \in DOMAIN s /\ PlainForwards(s, a) = s1
  BY ForwardIs DEF PlainRuns, Good, Local
<1>0c. Key(x) = k
  <2>1. Key(x) \in DOMAIN s1 /\ x.name \in DOMAIN s1[Key(x)].indexes
    BY <1>0, <1>0b DEF PlainRuns, Fails, NameTaken
  <2> QED BY <1>0, <1>0a, <2>1, PutIn, PutAt
<1>1. /\ k \in DOMAIN s /\ k \in DOMAIN s1 /\ s1[k] = Change(a, m) /\ IsFcn(s)
      /\ ModelOK(m, G) /\ ModelOK(Change(a, m), G)
      /\ PlainForwards(PlainForwards(s, a), x) = s2
      /\ Good(s1, G) /\ Good(s2, G)
      /\ ~Fails(a, s) /\ ~NameTaken(a, s) /\ ~Fails(x, s1) /\ ~NameTaken(x, s1)
  BY <1>0, <1>0c, LocalTwo DEF Local
<1>2. IsFcn(m.indexes) /\ "indexes" \in DOMAIN m /\ IsFcn(m)
  BY <1>1 DEF ModelOK
<1>3. Change(a, m) = [m EXCEPT !.indexes = Put(m.indexes, a.name, a.def)]
  BY DEF Change
<1>4. Change(a, m).indexes = Put(m.indexes, a.name, a.def)
  BY <1>2, <1>3
<1>5. {"op", "model", "name", "def"} \subseteq DOMAIN a /\ SoundPart(a, G, R)
  BY DEF SoundPlain, SoundPart
<1> HIDE DEF s1
<1>6. CASE x.op = "RemoveIndex"
  <2>0. Drop(Change(a, m).indexes, x.name) = m.indexes
    BY <1>0, <1>0a, <1>1, <1>2, <1>4, DropPut
  <2>1. Change(x, Change(a, m)) = [Change(a, m) EXCEPT !.indexes = m.indexes]
    BY <1>6, <2>0 DEF Change
  <2>2. Change(x, Change(a, m)) = m
    BY <1>2, <1>3, <2>1 DEF IsFcn
  <2> QED BY <1>0, <1>1, <1>6, <2>2, LocalNone
<1>7. CASE x.op = "RenameIndex"
  <2> DEFINE o == [a EXCEPT !.name = x.new]
  <2>1. o.op = "AddIndex" /\ o.model = a.model /\ o.name = x.new /\ o.def = a.def /\ DOMAIN o = DOMAIN a
    BY <1>5
  <2> HIDE DEF o
  <2>2. SoundPlain(o, G, R) /\ Key(o) = k
    BY <1>5, <2>1 DEF SoundPlain, SoundPart, Key, Free
  <2>3. \A j \in DOMAIN s : x.new \notin DOMAIN s[j].indexes
    <3>1. x.new = x.name \/ \A j \in DOMAIN s1 : x.new \notin DOMAIN s1[j].indexes
      BY <1>1, <1>7 DEF NameTaken
    <3>2. \A j \in DOMAIN s : j \in DOMAIN s1 /\ (j # k => s1[j] = s[j])
      BY PutIn, PutAt DEF s1
    <3> QED BY <1>0, <1>0a, <1>1, <1>4, <3>1, <3>2, PutIn
  <2>4. ~Fails(o, s) /\ ~NameTaken(o, s)
    BY <1>1, <2>1, <2>2, <2>3 DEF Fails, NameTaken
  <2>5. Change(o, m) = Change(x, Change(a, m))
    <3> DEFINE F == Put(m.indexes, x.new, a.def)
               E == Put(m.indexes, a.name, a.def)
    <3>0. Rename(Change(a, m).indexes, x.name, x.new) = F
      BY <1>0, <1>0a, <1>1, <1>2, <1>4, RenamePut
    <3>1. Change(x, Change(a, m)) = [Change(a, m) EXCEPT !.indexes = F]
      BY <1>7, <3>0 DEF Change
    <3>2. Change(o, m) = [m EXCEPT !.indexes = F]
      BY <2>1 DEF Change
    <3>3. Change(a, m) = [m EXCEPT !.indexes = E]
      BY <1>3
    <3> HIDE DEF F, E
    <3> QED BY <1>2, <3>1, <3>2, <3>3
  <2>6. Makes(<<o>>, s, s2, G, R)
    BY <1>1, <2>1, <2>2, <2>4, <2>5, LocalOne DEF Local
  <2> QED BY <1>0, <1>1, <1>7, <2>6 DEF o
<1> QED BY <1>0, <1>6, <1>7

(* RenameIndex followed by a rename of the new name.                       *)
LEMMA RenameIndexReduces ==
    ASSUME NEW G, NEW R, NEW s, Good(s, G), NEW a, SoundPlain(a, G, R), NEW x, SoundPlain(x, G, R),
           PlainRuns(a, s), PlainRuns(x, PlainForwards(s, a)), Is(a, {"RenameIndex"}), NEW r \in ReduceRenameIndex(a, x)
    PROVE  Makes(r, s, PlainForwards(PlainForwards(s, a), x), G, R)
<1> USE DEF Is, FieldOps, IndexOps, ConstraintOps
<1> DEFINE k == Key(a)
           m == s[k]
           s1 == Put(s, k, Change(a, m))
           s2 == Put(s, k, Change(x, Change(a, m)))
           o == [a EXCEPT !.new = x.new]
<1>0. Key(x) = k /\ x.name = a.new /\ x.op = "RenameIndex" /\ r = <<o>>
  BY DEF ReduceRenameIndex, SameModel, When
<1>1. /\ k \in DOMAIN s /\ k \in DOMAIN s1 /\ s1[k] = Change(a, m) /\ IsFcn(s)
      /\ ModelOK(m, G) /\ ModelOK(Change(a, m), G)
      /\ PlainForwards(PlainForwards(s, a), x) = s2
      /\ Good(s1, G) /\ Good(s2, G)
      /\ ~Fails(a, s) /\ ~NameTaken(a, s) /\ ~Fails(x, s1) /\ ~NameTaken(x, s1)
  BY <1>0, LocalTwo DEF Local
<1>2. IsFcn(m.indexes) /\ "indexes" \in DOMAIN m /\ IsFcn(m)
  BY <1>1 DEF ModelOK
<1>3. /\ a.name \in DOMAIN m.indexes
      /\ a.new = a.name \/ \A j \in DOMAIN s : a.new \notin DOMAIN s[j].indexes
  BY <1>1 DEF NameTaken
<1>4. Change(a, m) = [m EXCEPT !.indexes = Rename(m.indexes, a.name, a.new)]
  BY DEF Change
<1>4a. Change(a, m).indexes = Rename(m.indexes, a.name, a.new)
  BY <1>2, <1>4
<1>5. {"op", "model", "name", "new"} \subseteq DOMAIN a /\ SoundPart(a, G, R)
  BY DEF SoundPlain, SoundPart
<1> HIDE DEF s1
<1>6. o.op = "RenameIndex" /\ o.model = a.model /\ o.name = a.name /\ o.new = x.new /\ DOMAIN o = DOMAIN a
  BY <1>5
<1> HIDE DEF o
<1>7. SoundPlain(o, G, R) /\ Key(o) = k
  BY <1>5, <1>6 DEF SoundPlain, SoundPart, Key
<1>8. x.new = a.name \/ \A j \in DOMAIN s : x.new \notin DOMAIN s[j].indexes
  <2>1. x.new = x.name \/ \A j \in DOMAIN s1 : x.new \notin DOMAIN s1[j].indexes
    BY <1>0, <1>1 DEF NameTaken
  <2>2. \A j \in DOMAIN s : j \in DOMAIN s1 /\ (j # k => s1[j] = s[j])
    BY PutIn, PutAt DEF s1
  <2> QED BY <1>0, <1>1, <1>3, <1>4a, <2>1, <2>2, RenamedIn
<1>9. ~Fails(o, s) /\ ~NameTaken(o, s)
  BY <1>1, <1>3, <1>6, <1>7, <1>8 DEF Fails, NameTaken
<1>10. Change(o, m) = Change(x, Change(a, m))
  <2> DEFINE F == Rename(m.indexes, a.name, x.new)
             E == Rename(m.indexes, a.name, a.new)
  <2>0. Rename(Change(a, m).indexes, x.name, x.new) = F
    BY <1>0, <1>1, <1>2, <1>3, <1>4a, RenameRename
  <2>1. Change(x, Change(a, m)) = [Change(a, m) EXCEPT !.indexes = F]
    BY <1>0, <2>0 DEF Change
  <2>2. Change(o, m) = [m EXCEPT !.indexes = F]
    BY <1>6 DEF Change
  <2>3. Change(a, m) = [m EXCEPT !.indexes = E]
    BY <1>4
  <2> HIDE DEF F, E
  <2> QED BY <1>2, <2>1, <2>2, <2>3
<1>11. Makes(<<o>>, s, s2, G, R)
  BY <1>1, <1>6, <1>7, <1>9, <1>10, LocalOne DEF Local
<1> QED BY <1>0, <1>1, <1>11

(* AddConstraint followed by a change of the constraint.                   *)
LEMMA AddConstraintReduces ==
    ASSUME NEW G, NEW R, NEW s, Good(s, G), NEW a, SoundPlain(a, G, R), NEW x, SoundPlain(x, G, R),
           PlainRuns(a, s), PlainRuns(x, PlainForwards(s, a)), Is(a, {"AddConstraint"}), NEW r \in ReduceAddConstraint(a, x)
    PROVE  Makes(r, s, PlainForwards(PlainForwards(s, a), x), G, R)
<1> USE DEF Is, FieldOps, IndexOps, ConstraintOps
<1> DEFINE k == Key(a)
           m == s[k]
           s1 == Put(s, k, Change(a, m))
           s2 == Put(s, k, Change(x, Change(a, m)))
<1>0. /\ Key(x) = k /\ x.name = a.name /\ x.op \in {"RemoveConstraint", "AlterConstraint"}
      /\ x.op = "RemoveConstraint" => r = <<>>
      /\ x.op = "AlterConstraint" => r = <<[a EXCEPT !.def = x.def]>>
  BY DEF ReduceAddConstraint, SameName, SameModel, When
<1>1. /\ k \in DOMAIN s /\ k \in DOMAIN s1 /\ s1[k] = Change(a, m) /\ IsFcn(s)
      /\ ModelOK(m, G) /\ ModelOK(Change(a, m), G)
      /\ PlainForwards(PlainForwards(s, a), x) = s2
      /\ Good(s1, G) /\ Good(s2, G)
      /\ ~Fails(a, s) /\ ~NameTaken(a, s) /\ ~Fails(x, s1) /\ ~NameTaken(x, s1)
  BY <1>0, LocalTwo DEF Local
<1>2. IsFcn(m.constraints) /\ "constraints" \in DOMAIN m /\ IsFcn(m) /\ a.name \notin DOMAIN m.constraints
  BY <1>1 DEF ModelOK, NameTaken
<1> DEFINE E == Put(m.constraints, a.name, a.def)
<1>3. Change(a, m) = [m EXCEPT !.constraints = E]
  BY DEF Change
<1>5. {"op", "model", "name", "def"} \subseteq DOMAIN a /\ SoundPart(a, G, R)
  BY DEF SoundPlain, SoundPart
<1> HIDE DEF s1, E
<1>4. Change(a, m).constraints = E
  BY <1>2, <1>3
<1>6. CASE x.op = "RemoveConstraint"
  <2>0. Drop(E, x.name) = m.constraints
    BY <1>0, <1>2, DropPut DEF E
  <2>1. Change(x, Change(a, m)) = [Change(a, m) EXCEPT !.constraints = Drop(E, x.name)]
    BY <1>4, <1>6 DEF Change
  <2>2. Change(x, Change(a, m)) = m
    BY <1>2, <1>3, <2>0, <2>1 DEF IsFcn
  <2> QED BY <1>0, <1>1, <1>6, <2>2, LocalNone
<1>7. CASE x.op = "AlterConstraint"
  <2> DEFINE o == [a EXCEPT !.def = x.def]
  <2>1. o.op = "AddConstraint" /\ o.model = a.model /\ o.name = a.name /\ o.def = x.def /\ DOMAIN o = DOMAIN a
    BY <1>5
  <2> HIDE DEF o
  <2>2. SoundPlain(o, G, R) /\ Key(o) = k
    <3>1. SoundConstraint(x, x.def, G, R)
      BY <1>7 DEF SoundPlain, SoundPart
    <3>2. Key(o) = k
      BY <2>1 DEF Key
    <3> QED BY <1>0, <1>5, <2>1, <3>1, <3>2 DEF SoundPlain, SoundPart, SoundConstraint, Free
  <2>4. ~Fails(o, s) /\ ~NameTaken(o, s)
    BY <1>1, <1>2, <2>1, <2>2 DEF Fails, NameTaken
  <2>5. Change(o, m) = Change(x, Change(a, m))
    <3> DEFINE F == Put(m.constraints, a.name, x.def)
    <3>0. Put(E, x.name, x.def) = F
      BY <1>0, PutPut DEF E
    <3>1. Change(x, Change(a, m)) = [Change(a, m) EXCEPT !.constraints = F]
      BY <1>4, <1>7, <3>0 DEF Change
    <3>2. Change(o, m) = [m EXCEPT !.constraints = F]
      BY <2>1 DEF Change
    <3> HIDE DEF F
    <3> QED BY <1>2, <1>3, <3>1, <3>2
  <2>6. Makes(<<o>>, s, s2, G, R)
    BY <1>1, <2>1, <2>2, <2>4, <2>5, LocalOne DEF Local
  <2> QED BY <1>0, <1>1, <1>7, <2>6 DEF o
<1> QED BY <1>0, <1>6, <1>7

(* AlterConstraint followed by another one or by the removal.              *)
LEMMA AlterConstraintReduces ==
    ASSUME NEW G, NEW R, NEW s, Good(s, G), NEW a, SoundPlain(a, G, R), NEW x, SoundPlain(x, G, R),
           PlainRuns(a, s), PlainRuns(x, PlainForwards(s, a)), Is(a, {"AlterConstraint"}),
           NEW r \in ReduceAlterConstraint(a, x)
    PROVE  Makes(r, s, PlainForwards(PlainForwards(s, a), x), G, R)
<1> USE DEF Is, FieldOps, IndexOps, ConstraintOps
<1> DEFINE k == Key(a)
           m == s[k]
           s1 == Put(s, k, Change(a, m))
           s2 == Put(s, k, Change(x, Change(a, m)))
<1>0. Key(x) = k /\ x.name = a.name /\ x.op \in {"RemoveConstraint", "AlterConstraint"} /\ r = <<x>>
  BY DEF ReduceAlterConstraint, SameName, SameModel, When
<1>1. /\ k \in DOMAIN s /\ k \in DOMAIN s1 /\ s1[k] = Change(a, m) /\ IsFcn(s)
      /\ ModelOK(m, G) /\ ModelOK(Change(a, m), G)
      /\ PlainForwards(PlainForwards(s, a), x) = s2
      /\ Good(s1, G) /\ Good(s2, G)
      /\ ~Fails(a, s) /\ ~NameTaken(a, s) /\ ~Fails(x, s1) /\ ~NameTaken(x, s1)
  BY <1>0, LocalTwo DEF Local
<1>2. IsFcn(m.constraints) /\ "constraints" \in DOMAIN m /\ IsFcn(m) /\ a.name \in DOMAIN m.constraints
  BY <1>1 DEF ModelOK, NameTaken
<1> DEFINE E == Put(m.constraints, a.name, a.def)
<1>3. Change(a, m) = [m EXCEPT !.constraints = E]
  BY DEF Change
<1> HIDE DEF s1, E
<1>4. Change(a, m).constraints = E
  BY <1>2, <1>3
<1>5. ~Fails(x, s) /\ ~NameTaken(x, s)
  BY <1>0, <1>1, <1>2 DEF Fails, NameTaken
<1>6. Change(x, m) = Change(x, Change(a, m))
  <2>1. CASE x.op = "RemoveConstraint"
    <3> DEFINE F == Drop(m.constraints, a.name)
    <3>0. Drop(E, x.name) = F
      BY <1>0, DropPutAny DEF E
    <3>1. Change(x, Change(a, m)) = [Change(a, m) EXCEPT !.constraints = F]
      BY <1>4, <2>1, <3>0 DEF Change
    <3>2. Change(x, m) = [m EXCEPT !.constraints = F]
      BY <1>0, <2>1 DEF Change
    <3> HIDE DEF F
    <3> QED BY <1>2, <1>3, <3>1, <3>2
  <2>2. CASE x.op = "AlterConstraint"
    <3> DEFINE F == Put(m.constraints, a.name, x.def)
    <3>0. Put(E, x.name, x.def) = F
      BY <1>0, PutPut DEF E
    <3>1. Change(x, Change(a, m)) = [Change(a, m) EXCEPT !.constraints = F]
      BY <1>4, <2>2, <3>0 DEF Change
    <3>2. Change(x, m) = [m EXCEPT !.constraints = F]
      BY <1>0, <2>2 DEF Change
    <3> HIDE DEF F
    <3> QED BY <1>2, <1>3, <3>1, <3>2
  <2> QED BY <1>0, <2>1, <2>2
<1> QED BY <1>0, <1>1, <1>5, <1>6, LocalOne DEF Local

-----------------------------------------------------------------------------
(* Induction over the naturals, as a fact about sets.                      *)
LEMMA Induction ==
    ASSUME NEW S, 0 \in S, \A n \in Nat : n \in S => n + 1 \in S
    PROVE  \A n \in Nat : n \in S
<1> DEFINE T == {n \in Nat : n \notin S}
<1> SUFFICES ASSUME T # {} PROVE FALSE
  OBVIOUS
<1>1. PICK n \in T : \A j \in T : ~(<<j, n>> \in OpToRel(<, Nat))
  <2>1. T \subseteq Nat
    OBVIOUS
  <2> HIDE DEF T
  <2> QED BY <2>1, WFMin, NatLessThanWellFounded
<1>2. \A j \in T : ~(j < n)
  BY <1>1 DEF OpToRel
<1>3. n \in Nat /\ n \notin S /\ n # 0
  OBVIOUS
<1>4. n - 1 \in Nat /\ n - 1 < n /\ (n - 1) + 1 = n
  BY <1>3
<1>5. n - 1 \in S
  BY <1>2, <1>4
<1> QED BY <1>3, <1>4, <1>5

(* The states that the state operations of a special operation lead        *)
(* through.                                                                *)
LEMMA PlainPathIs ==
    ASSUME NEW s, NEW ops, Len(ops) \in Nat
    PROVE  /\ PlainPath(s, ops)[0] = s
           /\ \A i \in 1..Len(ops) : PlainPath(s, ops)[i] = PlainForwards(PlainPath(s, ops)[i - 1], ops[i])
<1> DEFINE Up(p, n) == p = [i \in 0..n |-> IF i = 0 THEN s ELSE PlainForwards(p[i - 1], ops[i])]
           S == {n \in Nat : \E p : Up(p, n)}
<1>1. 0 \in S
  <2>1. Up([i \in 0..0 |-> s], 0)
    OBVIOUS
  <2> QED BY <2>1
<1>2. ASSUME NEW n \in Nat, n \in S PROVE n + 1 \in S
  <2>1. PICK p : Up(p, n)
    BY <1>2
  <2> DEFINE q == [i \in 0..(n + 1) |-> IF i = 0 THEN s ELSE PlainForwards(p[i - 1], ops[i])]
  <2>2. \A i \in 0..n : q[i] = p[i]
    BY <2>1
  <2>2a. q = [i \in 0..(n + 1) |-> IF i = 0 THEN s ELSE PlainForwards(p[i - 1], ops[i])]
    OBVIOUS
  <2> HIDE DEF q
  <2>2b. \A i \in 0..(n + 1) : i # 0 => q[i - 1] = p[i - 1]
    <3>1. \A i \in 0..(n + 1) : i # 0 => i - 1 \in 0..n
      OBVIOUS
    <3> QED BY <2>2, <3>1
  <2>3. Up(q, n + 1)
    BY <2>2a, <2>2b
  <2> QED BY <2>3
<1>3. \E p : Up(p, Len(ops))
  <2> HIDE DEF S
  <2>1. Len(ops) \in S
    BY <1>1, <1>2, Induction
  <2> QED BY <2>1 DEF S
<1>4. Up(PlainPath(s, ops), Len(ops))
  BY <1>3, Zenon DEF PlainPath
<1> DEFINE P == PlainPath(s, ops)
<1>5. Up(P, Len(ops))
  BY <1>4
<1> HIDE DEF P
<1>6. P[0] = s /\ \A i \in 1..Len(ops) : P[i] = PlainForwards(P[i - 1], ops[i])
  BY <1>5
<1> QED BY <1>6 DEF P

(* A step leads from a good state to a good state.                         *)
LEMMA StepGood ==
    ASSUME NEW G, NEW R, NEW s, Good(s, G), NEW op, Sound(op, G, R), Runs(op, s)
    PROVE  Good(StateForwards(op, s), G)
<1>1. CASE SoundPlain(op, G, R)
  BY <1>1, PlainIs, PlainGood
<1>2. CASE Is(op, {"Special"}) /\ ~SoundPlain(op, G, R)
  <2>1. /\ \A i \in DOMAIN op.state : SoundPlain(op.state[i], G, R)
        /\ Len(op.state) \in Nat /\ DOMAIN op.state = 1..Len(op.state)
    BY <1>2 DEF Sound
  <2> DEFINE p == PlainPath(s, op.state)
             L == Len(op.state)
             S == {n \in Nat : n <= L => Good(p[n], G)}
  <2>2. p[0] = s /\ \A i \in 1..L : p[i] = PlainForwards(p[i - 1], op.state[i])
    BY <2>1, PlainPathIs
  <2>3. \A i \in 1..L : PlainRuns(op.state[i], p[i - 1])
    BY <1>2, <2>1 DEF Runs
  <2>4. 0 \in S
    BY <2>2
  <2>5. ASSUME NEW n \in Nat, n \in S PROVE n + 1 \in S
    <3> SUFFICES ASSUME n + 1 <= L PROVE Good(p[n + 1], G)
      OBVIOUS
    <3> HIDE DEF p
    <3>1. n + 1 \in 1..L /\ (n + 1) - 1 = n /\ n <= L
      BY <2>1
    <3>2. Good(p[n], G) /\ PlainRuns(op.state[n + 1], p[n])
      BY <2>3, <2>5, <3>1
    <3>3. SoundPlain(op.state[n + 1], G, R) /\ p[n + 1] = PlainForwards(p[n], op.state[n + 1])
      BY <2>1, <2>2, <3>1
    <3> QED BY <3>2, <3>3, PlainGood
  <2>6. L \in S
    <3> HIDE DEF S
    <3> QED BY <2>1, <2>4, <2>5, Induction
  <2>7. Good(p[L], G)
    <3> HIDE DEF p
    <3> QED BY <2>1, <2>6
  <2> QED BY <1>2, <2>7 DEF StateForwards
<1> QED BY <1>1, <1>2 DEF Sound

(* An elidable operation leaves the project state alone.                   *)
LEMMA ElidableIs ==
    ASSUME NEW G, NEW R, NEW s, NEW op, Sound(op, G, R), Elidable(op)
    PROVE  StateForwards(op, s) = s
<1>1. op.state = <<>> /\ Is(op, {"Special"})
  BY DEF Sound, SoundPlain, Elidable, Is, FieldOps, IndexOps, ConstraintOps
<1>2. Len(op.state) = 0
  BY <1>1
<1>3. PlainPath(s, op.state)[0] = s
  BY <1>2, PlainPathIs
<1> QED BY <1>1, <1>2, <1>3 DEF StateForwards

-----------------------------------------------------------------------------
(* What a run of operations has come to: the project state, and what the   *)
(* operations with code found.                                             *)
Seen(op, z) == IF IsCode(op) THEN Append(z[2], <<op, z[1]>>) ELSE z[2]
Step(op, z) == <<StateForwards(op, z[1]), Seen(op, z)>>
Can(op, z)  == Runs(op, z[1])
Fine(z, G)  == z = <<z[1], z[2]>> /\ Good(z[1], G)

(* A step leads from good to good.                                         *)
LEMMA StepFine ==
    ASSUME NEW G, NEW R, NEW z, Fine(z, G), NEW op, Sound(op, G, R), Can(op, z)
    PROVE  Fine(Step(op, z), G)
BY StepGood DEF Fine, Can, Step

(* Steps change places where operations do; none of the two has code.      *)
LEMMA CommuteStep ==
    ASSUME NEW G, NEW R, NEW z, Fine(z, G), NEW a, Sound(a, G, R), NEW x, Sound(x, G, R), Through(a, x),
           Can(a, z), Can(x, Step(a, z))
    PROVE  /\ Can(x, z)
           /\ Can(a, Step(x, z))
           /\ Step(a, Step(x, z)) = Step(x, Step(a, z))
<1>1. ~IsCode(a) /\ ~IsCode(x)
  <2>1. SoundPlain(a, G, R) /\ SoundPlain(x, G, R)
    BY MoversAre
  <2> QED BY <2>1 DEF SoundPlain, IsCode, Is, FieldOps, IndexOps, ConstraintOps
<1>2. /\ Runs(x, z[1])
      /\ Runs(a, StateForwards(x, z[1]))
      /\ StateForwards(a, StateForwards(x, z[1])) = StateForwards(x, StateForwards(a, z[1]))
  BY Commute DEF Fine, Can, Step
<1> QED BY <1>1, <1>2 DEF Can, Step, Seen

(* The list r takes z to w.                                                *)
Does(r, z, w, G, R) ==
    \/ r = <<>> /\ w = z
    \/ \E o : r = <<o>> /\ Sound(o, G, R) /\ Can(o, z) /\ Step(o, z) = w
    \/ \E o, p : /\ r = <<o, p>> /\ Sound(o, G, R) /\ Sound(p, G, R)
                 /\ Can(o, z) /\ Can(p, Step(o, z))
                 /\ Step(p, Step(o, z)) = w

(* A step of an operation without code.                                    *)
LEMMA PlainStep ==
    ASSUME NEW G, NEW R, NEW op, SoundPlain(op, G, R), NEW s, NEW c
    PROVE  /\ Sound(op, G, R)
           /\ Can(op, <<s, c>>) <=> PlainRuns(op, s)
           /\ Step(op, <<s, c>>) = <<PlainForwards(s, op), c>>
<1>1. ~IsCode(op)
  BY DEF SoundPlain, IsCode, Is, FieldOps, IndexOps, ConstraintOps
<1> QED BY <1>1, PlainIs DEF Can, Step, Seen

(* So a list that makes t of s takes the code that was seen along.         *)
LEMMA MakesDoes ==
    ASSUME NEW G, NEW R, NEW s, NEW t, NEW c, NEW r, Makes(r, s, t, G, R)
    PROVE  Does(r, <<s, c>>, <<t, c>>, G, R)
<1>1. CASE r = <<>> /\ t = s
  BY <1>1, Zenon DEF Does
<1>2. ASSUME NEW o, r = <<o>>, SoundPlain(o, G, R), PlainRuns(o, s), PlainForwards(s, o) = t
      PROVE  Does(r, <<s, c>>, <<t, c>>, G, R)
  <2>1. Sound(o, G, R) /\ Can(o, <<s, c>>) /\ Step(o, <<s, c>>) = <<t, c>>
    BY <1>2, PlainStep
  <2> QED BY <1>2, <2>1, Zenon DEF Does
<1>3. ASSUME NEW o, NEW p, r = <<o, p>>, SoundPlain(o, G, R), SoundPlain(p, G, R), PlainRuns(o, s),
             PlainRuns(p, PlainForwards(s, o)), PlainForwards(PlainForwards(s, o), p) = t
      PROVE  Does(r, <<s, c>>, <<t, c>>, G, R)
  <2>1. Sound(o, G, R) /\ Can(o, <<s, c>>) /\ Step(o, <<s, c>>) = <<PlainForwards(s, o), c>>
    BY <1>3, PlainStep
  <2>2. /\ Sound(p, G, R) /\ Can(p, <<PlainForwards(s, o), c>>)
        /\ Step(p, <<PlainForwards(s, o), c>>) = <<t, c>>
    BY <1>3, PlainStep
  <2>3. Can(p, Step(o, <<s, c>>)) /\ Step(p, Step(o, <<s, c>>)) = <<t, c>>
    BY <2>1, <2>2
  <2> QED BY <1>3, <2>1, <2>2, <2>3, Zenon DEF Does
<1> QED BY <1>1, <1>2, <1>3 DEF Makes

(* The list that replaces two operations does what they do.                *)
LEMMA Reduces ==
    ASSUME NEW G, NEW R, NEW z, Fine(z, G), NEW a, Sound(a, G, R), NEW x, Sound(x, G, R),
           Can(a, z), Can(x, Step(a, z)), NEW r \in Replacement(a, x)
    PROVE  Does(r, z, Step(x, Step(a, z)), G, R)
<1>z. PICK s, c : z = <<s, c>> /\ Good(s, G)
  BY DEF Fine
<1>0. Runs(a, s) /\ Runs(x, StateForwards(a, s))
  BY <1>z DEF Can, Step
<1>1. CASE r \in OwnReduction(a, x)
  <2>1. SoundPlain(a, G, R)
    BY <1>1 DEF OwnReduction, Sound, Is
  <2>2. SoundPlain(x, G, R)
    <3> SUFFICES ASSUME Is(x, {"Special"}), "model" \notin DOMAIN x PROVE FALSE
      BY DEF Sound
    <3> USE DEF Is
    <3>1. ~SameModel(a, x)
      BY DEF SameModel
    <3>2. ReduceCreate(a, x) = {} /\ ReduceOption(a, x) = {} /\ ReduceRemoveField(a, x) = {}
      BY <3>1 DEF ReduceCreate, ReduceOption, ReduceRemoveField, When
    <3>3. /\ ReduceRenameModel(a, x) = {} /\ ReduceAddIndex(a, x) = {} /\ ReduceRenameIndex(a, x) = {}
          /\ ReduceRenameField(a, x) = {}
      BY <3>1 DEF ReduceRenameModel, ReduceAddIndex, ReduceRenameIndex, ReduceRenameField, When
    <3>4. /\ ReduceAddConstraint(a, x) = {} /\ ReduceAlterConstraint(a, x) = {}
          /\ ReduceAddField(a, x) = {} /\ ReduceAlterField(a, x) = {}
      BY <3>1 DEF ReduceAddConstraint, ReduceAlterConstraint, ReduceAddField, ReduceAlterField, SameName, When
    <3> QED BY <1>1, <3>2, <3>3, <3>4 DEF OwnReduction
  <2>3. PlainRuns(a, s) /\ PlainRuns(x, PlainForwards(s, a))
    BY <1>0, <2>1, <2>2, PlainIs
  <2>3a. Step(x, Step(a, z)) = <<PlainForwards(PlainForwards(s, a), x), c>>
    BY <1>z, <2>1, <2>2, PlainStep
  <2> SUFFICES Makes(r, s, PlainForwards(PlainForwards(s, a), x), G, R)
    BY <1>z, <2>3a, MakesDoes
  <2>4. \/ Is(a, {"CreateModel"}) /\ r \in ReduceCreate(a, x)
        \/ Is(a, {"AlterOption"}) /\ r \in ReduceOption(a, x)
        \/ Is(a, {"AddIndex"}) /\ r \in ReduceAddIndex(a, x)
        \/ Is(a, {"RenameIndex"}) /\ r \in ReduceRenameIndex(a, x)
        \/ Is(a, {"AddConstraint"}) /\ r \in ReduceAddConstraint(a, x)
        \/ Is(a, {"AlterConstraint"}) /\ r \in ReduceAlterConstraint(a, x)
        \/ Is(a, {"AddField"}) /\ r \in ReduceAddField(a, x)
        \/ Is(a, {"RemoveField"}) /\ r \in ReduceRemoveField(a, x)
        \/ Is(a, {"AlterField"}) /\ r \in ReduceAlterField(a, x)
        \/ Is(a, {"RenameField"}) /\ r \in ReduceRenameField(a, x)
    BY <1>1, <2>1 DEF OwnReduction, SoundPlain, Is, FieldOps, IndexOps, ConstraintOps
  <2>5. CASE Is(a, {"CreateModel"}) /\ r \in ReduceCreate(a, x)
    BY <2>1, <2>2, <2>3, <2>5, <1>z, CreateReduces
  <2>6. CASE Is(a, {"AlterOption"}) /\ r \in ReduceOption(a, x)
    BY <2>1, <2>2, <2>3, <2>6, <1>z, OptionReduces
  <2>7. CASE Is(a, {"AddIndex"}) /\ r \in ReduceAddIndex(a, x)
    BY <2>1, <2>2, <2>3, <2>7, <1>z, AddIndexReduces
  <2>8. CASE Is(a, {"RenameIndex"}) /\ r \in ReduceRenameIndex(a, x)
    BY <2>1, <2>2, <2>3, <2>8, <1>z, RenameIndexReduces
  <2>9. CASE Is(a, {"AddConstraint"}) /\ r \in ReduceAddConstraint(a, x)
    BY <2>1, <2>2, <2>3, <2>9, <1>z, AddConstraintReduces
  <2>10. CASE Is(a, {"AlterConstraint"}) /\ r \in ReduceAlterConstraint(a, x)
    BY <2>1, <2>2, <2>3, <2>10, <1>z, AlterConstraintReduces
  <2>11. CASE Is(a, {"AddField"}) /\ r \in ReduceAddField(a, x)
    BY <2>1, <2>2, <2>3, <2>11, <1>z, AddFieldReduces
  <2>12. CASE Is(a, {"RemoveField"}) /\ r \in ReduceRemoveField(a, x)
    BY <2>1, <2>2, <2>3, <2>12, <1>z, RemoveFieldReduces
  <2>13. CASE Is(a, {"AlterField"}) /\ r \in ReduceAlterField(a, x)
    BY <2>1, <2>2, <2>3, <2>13, <1>z, AlterFieldReduces
  <2>14. CASE Is(a, {"RenameField"}) /\ r \in ReduceRenameField(a, x)
    BY <2>1, <2>2, <2>3, <2>14, <1>z, RenameFieldReduces
  <2> QED BY <2>4, <2>5, <2>6, <2>7, <2>8, <2>9, <2>10, <2>11, <2>12, <2>13, <2>14
<1>2. CASE r \in ReduceElidable(a, x)
  <2>1. CASE Elidable(a)
    <3>1. r = <<x>>
      BY <1>2, <2>1 DEF ReduceElidable
    <3>2. Step(a, z) = z
      BY <1>z, <2>1, ElidableIs DEF Step, Seen, IsCode
    <3> QED BY <3>1, <3>2, Zenon DEF Does
  <2>2. CASE ~Elidable(a)
    <3>1. r = <<a>> /\ Elidable(x)
      BY <1>2, <2>2 DEF ReduceElidable, When
    <3>2. Step(x, Step(a, z)) = Step(a, z)
      BY <1>z, <3>1, ElidableIs DEF Step, Seen, IsCode
    <3> QED BY <3>1, <3>2, Zenon DEF Does
  <2> QED BY <2>1, <2>2
<1> QED BY <1>1, <1>2 DEF Replacement

-----------------------------------------------------------------------------
(* The operations ops lead from s to t through good states, all running.   *)
Leads(ops, s, t, G) ==
    \E p : /\ p[0] = s /\ p[Len(ops)] = t
           /\ \A i \in 0..Len(ops) : Fine(p[i], G)
           /\ \A i \in 1..Len(ops) : Can(ops[i], p[i - 1]) /\ p[i] = Step(ops[i], p[i - 1])

AllSound(V, G, R) == \A op \in V : Sound(op, G, R)

(* Where a list leads from and to is good.                                 *)
LEMMA LeadsFine ==
    ASSUME NEW G, NEW V, NEW ops \in Seq(V), NEW s, NEW t, Leads(ops, s, t, G)
    PROVE  Fine(s, G) /\ Fine(t, G)
<1>1. PICK p : p[0] = s /\ p[Len(ops)] = t /\ \A i \in 0..Len(ops) : Fine(p[i], G)
  BY Zenon DEF Leads
<1>2. Len(ops) \in Nat
  BY LenProperties
<1> QED BY <1>1, <1>2

(* The empty list leads nowhere else.                                      *)
LEMMA LeadsNone ==
    ASSUME NEW G, NEW s, NEW t
    PROVE  Leads(<<>>, s, t, G) <=> Fine(s, G) /\ t = s
<1>1. ASSUME Leads(<<>>, s, t, G) PROVE Fine(s, G) /\ t = s
  <2>1. PICK p : p[0] = s /\ p[Len(<<>>)] = t /\ \A i \in 0..Len(<<>>) : Fine(p[i], G)
    BY <1>1, Zenon DEF Leads
  <2> QED BY <2>1
<1>2. ASSUME Fine(s, G), t = s PROVE Leads(<<>>, s, t, G)
  <2> DEFINE p == [i \in 0..0 |-> s]
  <2>1. /\ p[0] = s /\ p[Len(<<>>)] = t
        /\ \A i \in 0..Len(<<>>) : Fine(p[i], G)
        /\ \A i \in 1..Len(<<>>) : Can(<<>>[i], p[i - 1]) /\ p[i] = Step(<<>>[i], p[i - 1])
    BY <1>2
  <2> HIDE DEF p
  <2> QED BY <2>1 DEF Leads
<1> QED BY <1>1, <1>2

(* One more operation, one more step.                                      *)
LEMMA LeadsAppend ==
    ASSUME NEW G, NEW R, NEW V, AllSound(V, G, R), NEW ops \in Seq(V), NEW op \in V, NEW s, NEW t
    PROVE  Leads(Append(ops, op), s, t, G) <=>
               \E u : Leads(ops, s, u, G) /\ Can(op, u) /\ t = Step(op, u)
<1> DEFINE L == Len(ops)
           new == Append(ops, op)
<1>1. L \in Nat /\ Len(new) = L + 1 /\ new[L + 1] = op /\ \A i \in 1..L : new[i] = ops[i]
  BY AppendProperties, LenProperties
<1> HIDE DEF L, new
<1>2. ASSUME Leads(new, s, t, G)
      PROVE  \E u : Leads(ops, s, u, G) /\ Can(op, u) /\ t = Step(op, u)
  <2>1. PICK p : /\ p[0] = s /\ p[Len(new)] = t
                 /\ \A i \in 0..Len(new) : Fine(p[i], G)
                 /\ \A i \in 1..Len(new) : Can(new[i], p[i - 1]) /\ p[i] = Step(new[i], p[i - 1])
    BY <1>2, Zenon DEF Leads
  <2>2. /\ p[0] = s /\ \A i \in 0..L : Fine(p[i], G)
        /\ \A i \in 1..L : Can(ops[i], p[i - 1]) /\ p[i] = Step(ops[i], p[i - 1])
    <3>1. (\A i \in 0..L : i \in 0..Len(new)) /\ \A i \in 1..L : i \in 1..Len(new)
      BY <1>1
    <3>2. \A i \in 1..L : Can(new[i], p[i - 1]) /\ p[i] = Step(new[i], p[i - 1])
      BY <2>1, <3>1
    <3> QED BY <1>1, <2>1, <3>1, <3>2
  <2>3. Leads(ops, s, p[L], G)
    BY <2>2 DEF Leads, L
  <2>4. L + 1 \in 1..Len(new) /\ (L + 1) - 1 = L
    BY <1>1
  <2>5. Can(op, p[L]) /\ t = Step(op, p[L])
    BY <1>1, <2>1, <2>4
  <2> QED BY <2>3, <2>5
<1>3. ASSUME NEW u, Leads(ops, s, u, G), Can(op, u), t = Step(op, u)
      PROVE  Leads(new, s, t, G)
  <2>1. PICK p : /\ p[0] = s /\ p[L] = u
                 /\ \A i \in 0..L : Fine(p[i], G)
                 /\ \A i \in 1..L : Can(ops[i], p[i - 1]) /\ p[i] = Step(ops[i], p[i - 1])
    BY <1>3, Zenon DEF Leads, L
  <2>2. Fine(t, G)
    <3>1. Fine(u, G) /\ Sound(op, G, R)
      BY <1>3, LeadsFine DEF AllSound
    <3> QED BY <1>3, <3>1, StepFine
  <2> DEFINE q == [i \in 0..(L + 1) |-> IF i = L + 1 THEN t ELSE p[i]]
  <2>3. q[L + 1] = t /\ \A i \in 0..L : q[i] = p[i]
    BY <1>1
  <2> HIDE DEF q
  <2>4. q[0] = s /\ q[Len(new)] = t /\ \A i \in 0..Len(new) : Fine(q[i], G)
    BY <1>1, <2>1, <2>2, <2>3
  <2>5. \A i \in 1..Len(new) : Can(new[i], q[i - 1]) /\ q[i] = Step(new[i], q[i - 1])
    <3> SUFFICES ASSUME NEW i \in 1..Len(new)
                 PROVE  Can(new[i], q[i - 1]) /\ q[i] = Step(new[i], q[i - 1])
      OBVIOUS
    <3>1. CASE i = L + 1
      <4>1. i - 1 = L /\ L \in 0..L
        BY <1>1, <3>1
      <4> QED BY <1>1, <1>3, <2>1, <2>3, <3>1, <4>1
    <3>2. CASE i # L + 1
      <4>1. i \in 1..L /\ i - 1 \in 0..L /\ i \in 0..L
        BY <1>1, <3>2
      <4> QED BY <1>1, <2>1, <2>3, <4>1
    <3> QED BY <3>1, <3>2
  <2> QED BY <2>4, <2>5 DEF Leads
<1> QED BY <1>2, <1>3 DEF new

(* One list after the other.                                               *)
LEMMA LeadsConcat ==
    ASSUME NEW G, NEW R, NEW V, AllSound(V, G, R), NEW a \in Seq(V), NEW b \in Seq(V), NEW s, NEW t
    PROVE  Leads(a \o b, s, t, G) <=> \E u : Leads(a, s, u, G) /\ Leads(b, u, t, G)
<1> DEFINE P(l) == \A v : Leads(a \o l, s, v, G) <=> \E u : Leads(a, s, u, G) /\ Leads(l, u, v, G)
           S == {n \in Nat : \A l \in Seq(V) : Len(l) = n => P(l)}
<1>1. 0 \in S
  <2> SUFFICES ASSUME NEW l \in Seq(V), Len(l) = 0 PROVE P(l)
    OBVIOUS
  <2>1. l = <<>> /\ a \o l = a
    BY EmptySeq, ConcatEmptySeq
  <2>2. \A v : Leads(a, s, v, G) => Fine(v, G)
    BY LeadsFine
  <2> QED BY <2>1, <2>2, LeadsNone
<1>2. ASSUME NEW n \in Nat, n \in S PROVE n + 1 \in S
  <2> SUFFICES ASSUME NEW l \in Seq(V), Len(l) = n + 1 PROVE P(l)
    OBVIOUS
  <2>1. l # <<>>
    BY EmptySeq
  <2>2. PICK c \in Seq(V), x \in V : l = Append(c, x)
    BY <2>1, SequenceEmptyOrAppend
  <2>3. Len(c) = n
    BY <2>2, AppendProperties, LenProperties
  <2>4. a \o l = Append(a \o c, x) /\ a \o c \in Seq(V)
    <3>1. l = c \o <<x>> /\ <<x>> \in Seq(V)
      BY <2>2, AppendIsConcat
    <3>2. a \o l = (a \o c) \o <<x>>
      BY <3>1, ConcatAssociative
    <3> QED BY <3>2, AppendIsConcat, ConcatProperties
  <2>5. P(c)
    BY <1>2, <2>3
  <2> SUFFICES ASSUME NEW v
               PROVE  Leads(a \o l, s, v, G) <=> \E u : Leads(a, s, u, G) /\ Leads(l, u, v, G)
    OBVIOUS
  <2>6. Leads(a \o l, s, v, G) <=>
            \E w : Leads(a \o c, s, w, G) /\ Can(x, w) /\ v = Step(x, w)
    <3> DEFINE d == a \o c
    <3>1. d \in Seq(V) /\ a \o l = Append(d, x)
      BY <2>4
    <3> HIDE DEF d
    <3>2. Leads(Append(d, x), s, v, G) <=> \E w : Leads(d, s, w, G) /\ Can(x, w) /\ v = Step(x, w)
      BY <3>1, LeadsAppend
    <3>3. Leads(a \o l, s, v, G) <=> \E w : Leads(d, s, w, G) /\ Can(x, w) /\ v = Step(x, w)
      BY <3>1, <3>2
    <3> QED BY <3>3 DEF d
  <2>7. \A u : Leads(l, u, v, G) <=> \E w : Leads(c, u, w, G) /\ Can(x, w) /\ v = Step(x, w)
    BY <2>2, LeadsAppend
  <2> QED BY <2>5, <2>6, <2>7
<1>3. Len(b) \in S
  <2> HIDE DEF S
  <2> QED BY <1>1, <1>2, Induction, LenProperties
<1> QED BY <1>3

(* What replaces two operations is a list of sound operations.             *)
LEMMA DoesLeads ==
    ASSUME NEW G, NEW R, NEW s, NEW t, Fine(s, G), NEW r, Does(r, s, t, G, R)
    PROVE  \E V : AllSound(V, G, R) /\ r \in Seq(V) /\ Leads(r, s, t, G)
<1>1. CASE r = <<>> /\ t = s
  <2>1. AllSound({}, G, R) /\ <<>> \in Seq({})
    BY DEF AllSound
  <2>2. Leads(r, s, t, G)
    BY <1>1, LeadsNone
  <2> QED BY <1>1, <2>1, <2>2
<1>2. ASSUME NEW o, r = <<o>>, Sound(o, G, R), Can(o, s), Step(o, s) = t
      PROVE  \E V : AllSound(V, G, R) /\ r \in Seq(V) /\ Leads(r, s, t, G)
  <2>1. AllSound({o}, G, R) /\ <<>> \in Seq({o}) /\ r \in Seq({o}) /\ r = Append(<<>>, o)
    BY <1>2 DEF AllSound
  <2>2. Leads(<<>>, s, s, G)
    BY LeadsNone
  <2>3. Leads(Append(<<>>, o), s, t, G)
    BY <1>2, <2>1, <2>2, LeadsAppend
  <2> QED BY <2>1, <2>3
<1>3. ASSUME NEW o, NEW p, r = <<o, p>>, Sound(o, G, R), Sound(p, G, R), Can(o, s),
             Can(p, Step(o, s)), Step(p, Step(o, s)) = t
      PROVE  \E V : AllSound(V, G, R) /\ r \in Seq(V) /\ Leads(r, s, t, G)
  <2> DEFINE V == {o, p}
  <2>1. AllSound(V, G, R) /\ <<>> \in Seq(V) /\ Append(<<>>, o) \in Seq(V) /\ r \in Seq(V)
    BY <1>3 DEF AllSound
  <2>1a. r = Append(Append(<<>>, o), p) /\ o \in V /\ p \in V
    BY <1>3
  <2> HIDE DEF V
  <2>2. Leads(<<>>, s, s, G)
    BY LeadsNone
  <2>3. Leads(Append(<<>>, o), s, Step(o, s), G)
    BY <1>3, <2>1, <2>1a, <2>2, LeadsAppend
  <2> DEFINE l == Append(<<>>, o)
  <2>4. l \in Seq(V) /\ Leads(l, s, Step(o, s), G)
    BY <2>1, <2>3
  <2> HIDE DEF l
  <2>5. Leads(Append(l, p), s, t, G)
    BY <1>3, <2>1, <2>1a, <2>4, LeadsAppend
  <2>6. Leads(r, s, t, G)
    BY <2>1a, <2>5 DEF l
  <2> QED BY <2>1, <2>6
<1> QED BY <1>1, <1>2, <1>3 DEF Does

(* An operation that may be optimized across all of b runs after them as   *)
(* well.                                                                   *)
LEMMA MoveRight ==
    ASSUME NEW G, NEW R, NEW V, AllSound(V, G, R), NEW b \in Seq(V), NEW a \in V,
           \A k \in 1..Len(b) : Through(a, b[k]),
           NEW s, NEW t, Fine(s, G), Can(a, s), Leads(b, Step(a, s), t, G)
    PROVE  \E u : Leads(b, s, u, G) /\ Can(a, u) /\ Step(a, u) = t
<1> DEFINE s1 == Step(a, s)
           P(l) == (\A k \in 1..Len(l) : Through(a, l[k])) =>
                      \A v : Leads(l, s1, v, G) =>
                         \E u : Leads(l, s, u, G) /\ Can(a, u) /\ Step(a, u) = v
           S == {n \in Nat : \A l \in Seq(V) : Len(l) = n => P(l)}
<1> HIDE DEF s1
<1>0. Fine(s, G) /\ Can(a, s) /\ Step(a, s) = s1
  BY DEF s1
<1>1. 0 \in S
  <2> SUFFICES ASSUME NEW l \in Seq(V), Len(l) = 0 PROVE P(l)
    OBVIOUS
  <2>1. l = <<>>
    BY EmptySeq
  <2> QED BY <1>0, <2>1, LeadsNone
<1>2. ASSUME NEW n \in Nat, n \in S PROVE n + 1 \in S
  <2> SUFFICES ASSUME NEW l \in Seq(V), Len(l) = n + 1 PROVE P(l)
    OBVIOUS
  <2>1. l # <<>>
    BY EmptySeq
  <2>2. PICK c \in Seq(V), x \in V : l = Append(c, x)
    BY <2>1, SequenceEmptyOrAppend
  <2>3. Len(c) = n /\ l[n + 1] = x /\ \A k \in 1..n : l[k] = c[k]
    BY <2>2, AppendProperties, LenProperties
  <2> SUFFICES ASSUME \A k \in 1..Len(l) : Through(a, l[k]), NEW v, Leads(l, s1, v, G)
               PROVE  \E u : Leads(l, s, u, G) /\ Can(a, u) /\ Step(a, u) = v
    OBVIOUS
  <2>4. (\A k \in 1..Len(c) : Through(a, c[k])) /\ Through(a, x)
    <3>1. n + 1 \in 1..Len(l) /\ \A k \in 1..n : k \in 1..Len(l)
      OBVIOUS
    <3> QED BY <2>3, <3>1
  <2>5. PICK w : Leads(c, s1, w, G) /\ Can(x, w) /\ v = Step(x, w)
    BY <2>2, LeadsAppend
  <2>6. PICK u : Leads(c, s, u, G) /\ Can(a, u) /\ Step(a, u) = w
    BY <1>2, <2>3, <2>4, <2>5
  <2>7. Fine(u, G) /\ Sound(a, G, R) /\ Sound(x, G, R)
    BY <2>6, LeadsFine DEF AllSound
  <2>8. /\ Can(x, u) /\ Can(a, Step(x, u))
        /\ Step(a, Step(x, u)) = v
    BY <2>4, <2>5, <2>6, <2>7, CommuteStep
  <2>9. Leads(l, s, Step(x, u), G)
    BY <2>2, <2>6, <2>8, LeadsAppend
  <2> QED BY <2>8, <2>9
<1>3. Len(b) \in S
  <2> HIDE DEF S
  <2> QED BY <1>1, <1>2, Induction, LenProperties
<1> QED BY <1>3 DEF s1

(* An operation that all of b may be optimized across runs before them as  *)
(* well.                                                                   *)
LEMMA MoveLeft ==
    ASSUME NEW G, NEW R, NEW V, AllSound(V, G, R), NEW b \in Seq(V), NEW x \in V,
           \A k \in 1..Len(b) : Through(b[k], x),
           NEW s, NEW t, Leads(b, s, t, G), Can(x, t)
    PROVE  Can(x, s) /\ Leads(b, Step(x, s), Step(x, t), G)
<1> DEFINE s1 == Step(x, s)
           P(l) == (\A k \in 1..Len(l) : Through(l[k], x)) =>
                      \A v : Leads(l, s, v, G) /\ Can(x, v) =>
                         Can(x, s) /\ Leads(l, s1, Step(x, v), G)
           S == {n \in Nat : \A l \in Seq(V) : Len(l) = n => P(l)}
<1> HIDE DEF s1
<1>0. Sound(x, G, R)
  BY DEF AllSound
<1>1. 0 \in S
  <2> SUFFICES ASSUME NEW l \in Seq(V), Len(l) = 0 PROVE P(l)
    OBVIOUS
  <2> SUFFICES ASSUME NEW v, Leads(l, s, v, G), Can(x, v)
               PROVE  Can(x, s) /\ Leads(l, s1, Step(x, v), G)
    OBVIOUS
  <2>1. l = <<>>
    BY EmptySeq
  <2>2. Fine(s, G) /\ v = s
    BY <2>1, LeadsNone
  <2>3. Fine(s1, G)
    BY <1>0, <2>2, StepFine DEF s1
  <2> QED BY <2>1, <2>2, <2>3, LeadsNone DEF s1
<1>2. ASSUME NEW n \in Nat, n \in S PROVE n + 1 \in S
  <2> SUFFICES ASSUME NEW l \in Seq(V), Len(l) = n + 1 PROVE P(l)
    OBVIOUS
  <2>1. l # <<>>
    BY EmptySeq
  <2>2. PICK c \in Seq(V), y \in V : l = Append(c, y)
    BY <2>1, SequenceEmptyOrAppend
  <2>3. Len(c) = n /\ l[n + 1] = y /\ \A k \in 1..n : l[k] = c[k]
    BY <2>2, AppendProperties, LenProperties
  <2> SUFFICES ASSUME \A k \in 1..Len(l) : Through(l[k], x), NEW v, Leads(l, s, v, G), Can(x, v)
               PROVE  Can(x, s) /\ Leads(l, s1, Step(x, v), G)
    OBVIOUS
  <2>4. (\A k \in 1..Len(c) : Through(c[k], x)) /\ Through(y, x)
    <3>1. n + 1 \in 1..Len(l) /\ \A k \in 1..n : k \in 1..Len(l)
      OBVIOUS
    <3> QED BY <2>3, <3>1
  <2>5. PICK w : Leads(c, s, w, G) /\ Can(y, w) /\ v = Step(y, w)
    BY <2>2, LeadsAppend
  <2>6. Fine(w, G) /\ Sound(y, G, R)
    BY <2>5, LeadsFine DEF AllSound
  <2>7. /\ Can(x, w) /\ Can(y, Step(x, w))
        /\ Step(y, Step(x, w)) = Step(x, v)
    BY <1>0, <2>4, <2>5, <2>6, CommuteStep
  <2>8. Can(x, s) /\ Leads(c, s1, Step(x, w), G)
    BY <1>2, <2>3, <2>4, <2>5, <2>7
  <2>9. Leads(Append(c, y), s1, Step(x, v), G)
    BY <2>7, <2>8, LeadsAppend
  <2> QED BY <2>2, <2>8, <2>9
<1>3. Len(b) \in S
  <2> HIDE DEF S
  <2> QED BY <1>1, <1>2, Induction, LenProperties
<1> QED BY <1>3 DEF s1

(* A replacement keeps what the list leads to.                             *)
LEMMA ReplacedLeads ==
    ASSUME NEW G, NEW R, NEW V, AllSound(V, G, R), NEW ops \in Seq(V), NEW s, NEW t, Leads(ops, s, t, G),
           NEW i \in 1..Len(ops), NEW j \in (i + 1)..Len(ops), MovesRight(ops, i, j) \/ MovesLeft(ops, i, j),
           NEW r \in Replacement(ops[i], ops[j])
    PROVE  \E W : AllSound(W, G, R) /\ Replaced(ops, i, j, r) \in Seq(W) /\ Leads(Replaced(ops, i, j, r), s, t, G)
<1> DEFINE L == Len(ops)
           front == SubSeq(ops, 1, i - 1)
           between == SubSeq(ops, i + 1, j - 1)
           rest == SubSeq(ops, j + 1, L)
           a == ops[i]
           x == ops[j]
<1>0. L \in Nat /\ i \in Nat /\ j \in Nat /\ 1 <= i /\ i + 1 <= j /\ j <= L /\ ops \in Seq(V)
  BY LenProperties
<1>1. a \in V /\ x \in V /\ \A k \in 1..L : ops[k] \in V
  BY ElementOfSeq
<1> HIDE DEF L
<1>2. front \in Seq(V) /\ between \in Seq(V) /\ rest \in Seq(V)
  BY <1>0, <1>1, SubSeqProperties
<1>3. Len(between) = j - i - 1 /\ \A k \in 1..(j - i - 1) : between[k] = ops[i + k]
  <2>1. \A k \in (i + 1)..(j - 1) : ops[k] \in V
    BY <1>0, <1>1
  <2>2. /\ Len(between) = IF i + 1 <= j - 1 THEN (j - 1) - (i + 1) + 1 ELSE 0
        /\ \A k \in 1..(j - 1) - (i + 1) + 1 : between[k] = ops[(i + 1) + k - 1]
    BY <1>0, <2>1, SubSeqProperties
  <2>3. (j - 1) - (i + 1) + 1 = j - i - 1 /\ \A k \in Nat : (i + 1) + k - 1 = i + k
    BY <1>0
  <2> HIDE DEF between
  <2> QED BY <1>0, <2>2, <2>3
<1>4. ops = (Append(front, a) \o Append(between, x)) \o rest
  <2>1. SubSeq(ops, 1, i) = front \o <<a>>
    BY <1>0, SubSeqRecursiveSecond DEF L
  <2>2. SubSeq(ops, i + 1, j) = between \o <<x>>
    BY <1>0, SubSeqRecursiveSecond DEF L
  <2>3. SubSeq(ops, 1, i) \o SubSeq(ops, i + 1, j) = SubSeq(ops, 1, j)
    BY <1>0, ConcatAdjacentSubSeq DEF L
  <2>4. SubSeq(ops, 1, j) \o rest = SubSeq(ops, 1, L)
    <3>1. 1 \in 1..(Len(ops) + 1) /\ j \in (1 - 1)..Len(ops) /\ Len(ops) \in j..Len(ops)
      BY <1>0 DEF L
    <3> QED BY <3>1, ConcatAdjacentSubSeq DEF L
  <2>5. SubSeq(ops, 1, L) = ops
    BY SubSeqFull DEF L
  <2>6. Append(front, a) = front \o <<a>> /\ Append(between, x) = between \o <<x>>
    BY <1>1, <1>2, AppendIsConcat
  <2> HIDE DEF front, between, rest, a, x
  <2> QED BY <2>1, <2>2, <2>3, <2>4, <2>5, <2>6
<1>5. /\ MovesRight(ops, i, j) => \A k \in 1..Len(between) : Through(a, between[k])
      /\ MovesLeft(ops, i, j) => \A k \in 1..Len(between) : Through(between[k], x)
  <2>1. \A k \in 1..(j - i - 1) : i + k \in (i + 1)..(j - 1)
    BY <1>0
  <2> HIDE DEF between
  <2> QED BY <1>3, <2>1 DEF MovesRight, MovesLeft
<1>6. Replaced(ops, i, j, r) = front \o (IF MovesRight(ops, i, j) THEN between \o r ELSE r \o between) \o rest
  BY DEF Replaced, L
<1> DEFINE fa == Append(front, a)
           bx == Append(between, x)
<1>7. fa \in Seq(V) /\ bx \in Seq(V) /\ fa \o bx \in Seq(V)
  BY <1>1, <1>2, AppendProperties, ConcatProperties
<1>a. Sound(a, G, R) /\ Sound(x, G, R) /\ r \in Replacement(a, x)
  BY <1>1 DEF AllSound
<1> HIDE DEF front, between, rest, a, x
<1>8. PICK u3 : Leads(fa \o bx, s, u3, G) /\ Leads(rest, u3, t, G)
  <2> HIDE DEF fa, bx
  <2> DEFINE fb == fa \o bx
  <2>1. fb \in Seq(V) /\ ops = fb \o rest
    BY <1>4, <1>7 DEF fa, bx
  <2> HIDE DEF fb
  <2>2. \E u3 : Leads(fb, s, u3, G) /\ Leads(rest, u3, t, G)
    BY <1>2, <2>1, LeadsConcat
  <2> QED BY <2>2 DEF fb
<1>9. PICK u1 : Leads(fa, s, u1, G) /\ Leads(bx, u1, u3, G)
  <2> HIDE DEF fa, bx
  <2> QED BY <1>7, <1>8, LeadsConcat
<1>10. PICK u0 : Leads(front, s, u0, G) /\ Can(a, u0) /\ u1 = Step(a, u0)
  BY <1>1, <1>2, <1>9, LeadsAppend
<1>11. PICK u2 : Leads(between, u1, u2, G) /\ Can(x, u2) /\ u3 = Step(x, u2)
  BY <1>1, <1>2, <1>9, LeadsAppend
<1>12. Fine(u0, G)
  BY <1>2, <1>10, LeadsFine
<1>13. CASE MovesRight(ops, i, j)
  <2>1. PICK w : Leads(between, u0, w, G) /\ Can(a, w) /\ Step(a, w) = u2
    BY <1>1, <1>2, <1>5, <1>10, <1>11, <1>12, <1>13, MoveRight
  <2>2. Fine(w, G)
    BY <1>2, <2>1, LeadsFine
  <2>3. Does(r, w, u3, G, R)
    BY <1>11, <1>a, <2>1, <2>2, Reduces
  <2>4. PICK U : AllSound(U, G, R) /\ r \in Seq(U) /\ Leads(r, w, u3, G)
    BY <2>2, <2>3, DoesLeads
  <2> DEFINE W == V \cup U
             br == between \o r
             fbr == front \o br
  <2>5. AllSound(W, G, R)
    BY <2>4 DEF AllSound
  <2>6. front \in Seq(W) /\ between \in Seq(W) /\ rest \in Seq(W) /\ r \in Seq(W)
    <3>1. V \subseteq W /\ U \subseteq W
      OBVIOUS
    <3> HIDE DEF W
    <3> QED BY <1>2, <2>4, <3>1, SeqMonotonic
  <2> HIDE DEF W
  <2>7. br \in Seq(W) /\ fbr \in Seq(W) /\ fbr \o rest \in Seq(W)
    BY <2>6, ConcatProperties
  <2>8. Leads(br, u0, u3, G)
    BY <2>1, <2>4, <2>5, <2>6, LeadsConcat
  <2> HIDE DEF br
  <2>9. Leads(fbr, s, u3, G)
    BY <1>10, <2>5, <2>6, <2>7, <2>8, LeadsConcat
  <2> HIDE DEF fbr
  <2>10. Leads(fbr \o rest, s, t, G)
    BY <1>8, <2>5, <2>6, <2>7, <2>9, LeadsConcat
  <2>11. Replaced(ops, i, j, r) = fbr \o rest
    BY <1>6, <1>13 DEF fbr, br
  <2> QED BY <2>5, <2>7, <2>10, <2>11
<1>14. CASE ~MovesRight(ops, i, j)
  <2>1. Can(x, u1) /\ Leads(between, Step(x, u1), u3, G)
    BY <1>1, <1>2, <1>5, <1>11, <1>14, MoveLeft
  <2>3. Does(r, u0, Step(x, u1), G, R)
    BY <1>10, <1>12, <1>a, <2>1, Reduces
  <2>4. PICK U : AllSound(U, G, R) /\ r \in Seq(U) /\ Leads(r, u0, Step(x, u1), G)
    BY <1>12, <2>3, DoesLeads
  <2> DEFINE W == V \cup U
             br == r \o between
             fbr == front \o br
  <2>5. AllSound(W, G, R)
    BY <2>4 DEF AllSound
  <2>6. front \in Seq(W) /\ between \in Seq(W) /\ rest \in Seq(W) /\ r \in Seq(W)
    <3>1. V \subseteq W /\ U \subseteq W
      OBVIOUS
    <3> HIDE DEF W
    <3> QED BY <1>2, <2>4, <3>1, SeqMonotonic
  <2> HIDE DEF W
  <2>7. br \in Seq(W) /\ fbr \in Seq(W) /\ fbr \o rest \in Seq(W)
    BY <2>6, ConcatProperties
  <2>8. Leads(br, u0, u3, G)
    BY <2>1, <2>4, <2>5, <2>6, LeadsConcat
  <2> HIDE DEF br
  <2>9. Leads(fbr, s, u3, G)
    BY <1>10, <2>5, <2>6, <2>7, <2>8, LeadsConcat
  <2> HIDE DEF fbr
  <2>10. Leads(fbr \o rest, s, t, G)
    BY <1>8, <2>5, <2>6, <2>7, <2>9, LeadsConcat
  <2>11. Replaced(ops, i, j, r) = fbr \o rest
    BY <1>6, <1>14 DEF fbr, br
  <2> QED BY <2>5, <2>7, <2>10, <2>11
<1> QED BY <1>13, <1>14

(* One pass keeps what the list leads to.                                  *)
LEMMA PassLeads ==
    ASSUME NEW G, NEW R, NEW V, AllSound(V, G, R), NEW ops \in Seq(V), NEW s, NEW t, Leads(ops, s, t, G),
           NEW new \in optimizeInner(ops)
    PROVE  \E W : AllSound(W, G, R) /\ new \in Seq(W) /\ Leads(new, s, t, G)
<1> DEFINE AtPair(i, j) == {Replaced(ops, i, j, r) : r \in Replacement(ops[i], ops[j])}
           At(i) == UNION {AtPair(i, j) : j \in Partner(ops, i)}
<1>2. new \in UNION {At(i) : i \in First(Reducible(ops))}
  BY DEF optimizeInner
<1> HIDE DEF At
<1>3. PICK i \in First(Reducible(ops)) : new \in At(i)
  BY <1>2
<1> USE DEF At
<1> HIDE DEF AtPair
<1>4. PICK j \in Partner(ops, i) : new \in AtPair(i, j)
  BY <1>3
<1> USE DEF AtPair
<1>5. PICK r \in Replacement(ops[i], ops[j]) : new = Replaced(ops, i, j, r)
  BY <1>4
<1>6. i \in 1..Len(ops) /\ \E k \in Partner(ops, i) : MovesRight(ops, i, k) \/ MovesLeft(ops, i, k)
  BY <1>3, LenProperties DEF First, Reducible
<1>7. \A k \in Partner(ops, i) : k \in (i + 1)..Len(ops) /\ k = j
  <2>1. \A k, l \in Partner(ops, i) : k \in (i + 1)..Len(ops) /\ k <= l
    BY DEF Partner, First
  <2>2. Len(ops) \in Nat /\ i \in Nat
    BY <1>6, LenProperties
  <2> QED BY <1>4, <2>1, <2>2
<1>8. j \in (i + 1)..Len(ops) /\ (MovesRight(ops, i, j) \/ MovesLeft(ops, i, j))
  BY <1>4, <1>6, <1>7
<1> QED BY <1>5, <1>6, <1>8, ReplacedLeads

-----------------------------------------------------------------------------
(* The states a list leads through, and what its code finds, are what      *)
(* their recursive definitions say.                                        *)
LEMMA PathIs ==
    ASSUME NEW ops, Len(ops) \in Nat
    PROVE  /\ Path(ops)[0] = Start
           /\ \A i \in 1..Len(ops) : Path(ops)[i] = StateForwards(ops[i], Path(ops)[i - 1])
<1> DEFINE Up(p, n) == p = [i \in 0..n |-> IF i = 0 THEN Start ELSE StateForwards(ops[i], p[i - 1])]
           S == {n \in Nat : \E p : Up(p, n)}
<1>1. 0 \in S
  <2>1. Up([i \in 0..0 |-> Start], 0)
    OBVIOUS
  <2> QED BY <2>1
<1>2. ASSUME NEW n \in Nat, n \in S PROVE n + 1 \in S
  <2>1. PICK p : Up(p, n)
    BY <1>2
  <2> DEFINE q == [i \in 0..(n + 1) |-> IF i = 0 THEN Start ELSE StateForwards(ops[i], p[i - 1])]
  <2>2. \A i \in 0..n : q[i] = p[i]
    BY <2>1
  <2>3. q = [i \in 0..(n + 1) |-> IF i = 0 THEN Start ELSE StateForwards(ops[i], p[i - 1])]
    OBVIOUS
  <2> HIDE DEF q
  <2>4. \A i \in 0..(n + 1) : i # 0 => q[i - 1] = p[i - 1]
    <3>1. \A i \in 0..(n + 1) : i # 0 => i - 1 \in 0..n
      OBVIOUS
    <3> QED BY <2>2, <3>1
  <2>5. Up(q, n + 1)
    BY <2>3, <2>4
  <2> QED BY <2>5
<1>3. \E p : Up(p, Len(ops))
  <2> HIDE DEF S
  <2>1. Len(ops) \in S
    BY <1>1, <1>2, Induction
  <2> QED BY <2>1 DEF S
<1> DEFINE P == Path(ops)
<1>4. Up(P, Len(ops))
  BY <1>3, Zenon DEF Path
<1> HIDE DEF P
<1>5. P[0] = Start /\ \A i \in 1..Len(ops) : P[i] = StateForwards(ops[i], P[i - 1])
  BY <1>4
<1> QED BY <1>5 DEF P

(* What the code among ops has found after each of them.                   *)
IsFound(f, ops) ==
    f = [i \in 0..Len(ops) |->
            IF i = 0 THEN <<>>
            ELSE IF IsCode(ops[i]) THEN Append(f[i - 1], <<ops[i], Path(ops)[i - 1]>>)
            ELSE f[i - 1]]

(* CodeFinds is the last entry of such a function.                         *)
LEMMA FoundIs ==
    ASSUME NEW ops, Len(ops) \in Nat
    PROVE  \E f : IsFound(f, ops) /\ CodeFinds(ops) = f[Len(ops)]
<1> DEFINE More(l, i) == IF IsCode(ops[i]) THEN Append(l, <<ops[i], Path(ops)[i - 1]>>) ELSE l
<1> HIDE DEF More
<1> DEFINE Up(p, n) == p = [i \in 0..n |-> IF i = 0 THEN <<>> ELSE More(p[i - 1], i)]
           S == {n \in Nat : \E p : Up(p, n)}
<1>1. 0 \in S
  <2>1. Up([i \in 0..0 |-> <<>>], 0)
    OBVIOUS
  <2> QED BY <2>1
<1>2. ASSUME NEW n \in Nat, n \in S PROVE n + 1 \in S
  <2>1. PICK p : Up(p, n)
    BY <1>2
  <2> DEFINE q == [i \in 0..(n + 1) |-> IF i = 0 THEN <<>> ELSE More(p[i - 1], i)]
  <2>2. \A i \in 0..n : q[i] = p[i]
    BY <2>1
  <2>3. q = [i \in 0..(n + 1) |-> IF i = 0 THEN <<>> ELSE More(p[i - 1], i)]
    OBVIOUS
  <2> HIDE DEF q
  <2>4. \A i \in 0..(n + 1) : i # 0 => q[i - 1] = p[i - 1]
    <3>1. \A i \in 0..(n + 1) : i # 0 => i - 1 \in 0..n
      OBVIOUS
    <3> QED BY <2>2, <3>1
  <2>5. Up(q, n + 1)
    BY <2>3, <2>4
  <2> QED BY <2>5
<1>3. \E p : Up(p, Len(ops))
  <2> HIDE DEF S
  <2>1. Len(ops) \in S
    BY <1>1, <1>2, Induction
  <2> QED BY <2>1 DEF S
<1>4. \E p : IsFound(p, ops)
  BY <1>3 DEF IsFound, More
<1> DEFINE F == CHOOSE f : IsFound(f, ops)
<1>5. IsFound(F, ops)
  BY <1>4, Zenon
<1>6. CodeFinds(ops) = F[Len(ops)]
  BY Zenon DEF CodeFinds, IsFound
<1> QED BY <1>5, <1>6, Zenon

(* A list taken step by step, its code included.                           *)
Taken(p, ops) ==
    /\ p[0] = <<Start, <<>>>>
    /\ \A i \in 1..Len(ops) : p[i] = Step(ops[i], p[i - 1])

(* There is such a course of a list, and it ends in After and CodeFinds.   *)
LEMMA TakenIs ==
    ASSUME NEW V, NEW ops \in Seq(V)
    PROVE  \E p : /\ Taken(p, ops) /\ p[Len(ops)] = <<After(ops), CodeFinds(ops)>>
                  /\ \A i \in 0..Len(ops) : p[i][1] = Path(ops)[i]
<1> DEFINE L == Len(ops)
           P == Path(ops)
<1>1. L \in Nat
  BY LenProperties
<1>2. P[0] = Start /\ \A i \in 1..L : P[i] = StateForwards(ops[i], P[i - 1])
  BY <1>1, PathIs
<1>3. PICK f : IsFound(f, ops) /\ CodeFinds(ops) = f[L]
  BY <1>1, FoundIs
<1>4. f = [i \in 0..L |-> IF i = 0 THEN <<>>
                          ELSE IF IsCode(ops[i]) THEN Append(f[i - 1], <<ops[i], P[i - 1]>>)
                          ELSE f[i - 1]]
  BY <1>3 DEF IsFound
<1> DEFINE p == [i \in 0..L |-> <<P[i], f[i]>>]
<1>5. After(ops) = P[L]
  BY DEF After
<1> HIDE DEF L, P
<1>6. f[0] = <<>> /\ \A i \in 1..L : f[i] = IF IsCode(ops[i]) THEN Append(f[i - 1], <<ops[i], P[i - 1]>>) ELSE f[i - 1]
  <2> DEFINE More(l, i) == IF IsCode(ops[i]) THEN Append(l, <<ops[i], P[i - 1]>>) ELSE l
  <2>1. f = [i \in 0..L |-> IF i = 0 THEN <<>> ELSE More(f[i - 1], i)]
    BY <1>4
  <2>2. f[0] = <<>> /\ \A i \in 1..L : f[i] = More(f[i - 1], i)
    <3> HIDE DEF More
    <3> QED BY <1>1, <2>1
  <2> QED BY <2>2
<1>7. p[0] = <<Start, <<>>>> /\ p[L] = <<After(ops), CodeFinds(ops)>>
  BY <1>1, <1>2, <1>3, <1>5, <1>6
<1>8. \A i \in 0..L : p[i] = <<P[i], f[i]>> /\ p[i][1] = P[i]
  OBVIOUS
<1>9. \A i \in 1..L : p[i] = Step(ops[i], p[i - 1])
  <2> SUFFICES ASSUME NEW i \in 1..L PROVE p[i] = Step(ops[i], p[i - 1])
    OBVIOUS
  <2>1. p[i] = <<P[i], f[i]>> /\ p[i - 1] = <<P[i - 1], f[i - 1]>>
    BY <1>1
  <2>2. Step(ops[i], <<P[i - 1], f[i - 1]>>)
           = <<StateForwards(ops[i], P[i - 1]),
               IF IsCode(ops[i]) THEN Append(f[i - 1], <<ops[i], P[i - 1]>>) ELSE f[i - 1]>>
    BY DEF Step, Seen
  <2> HIDE DEF p
  <2> QED BY <1>2, <1>6, <2>1, <2>2
<1> HIDE DEF p
<1> QED BY <1>7, <1>8, <1>9 DEF Taken, L, P

(* There is only one.                                                      *)
LEMMA TakenOnce ==
    ASSUME NEW V, NEW ops \in Seq(V), NEW p, Taken(p, ops), NEW q, Taken(q, ops)
    PROVE  \A i \in 0..Len(ops) : p[i] = q[i]
<1> DEFINE S == {n \in Nat : n <= Len(ops) => p[n] = q[n]}
<1>0. Len(ops) \in Nat
  BY LenProperties
<1>1. 0 \in S
  BY DEF Taken
<1>2. ASSUME NEW n \in Nat, n \in S PROVE n + 1 \in S
  <2> SUFFICES ASSUME n + 1 <= Len(ops) PROVE p[n + 1] = q[n + 1]
    OBVIOUS
  <2>1. n + 1 \in 1..Len(ops) /\ (n + 1) - 1 = n /\ n <= Len(ops)
    BY <1>0
  <2>2. p[n + 1] = Step(ops[n + 1], p[n]) /\ q[n + 1] = Step(ops[n + 1], q[n])
    BY <2>1 DEF Taken
  <2> QED BY <1>2, <2>1, <2>2
<1>3. \A n \in Nat : n \in S
  <2> HIDE DEF S
  <2> QED BY <1>1, <1>2, Induction
<1> QED BY <1>0, <1>3

(* A list that leads anywhere runs, and leads to where it was written to   *)
(* lead to.                                                                *)
LEMMA LeadsSame ==
    ASSUME NEW G, NEW V, NEW ops \in Seq(V), NEW w, Leads(ops, <<Start, <<>>>>, w, G)
    PROVE  RunsThrough(ops) /\ w = <<After(ops), CodeFinds(ops)>>
<1>1. PICK p : /\ p[0] = <<Start, <<>>>> /\ p[Len(ops)] = w
               /\ \A i \in 1..Len(ops) : Can(ops[i], p[i - 1]) /\ p[i] = Step(ops[i], p[i - 1])
  BY Zenon DEF Leads
<1>2. PICK q : /\ Taken(q, ops) /\ q[Len(ops)] = <<After(ops), CodeFinds(ops)>>
               /\ \A i \in 0..Len(ops) : q[i][1] = Path(ops)[i]
  BY TakenIs
<1>3. \A i \in 0..Len(ops) : p[i] = q[i]
  BY <1>1, <1>2, TakenOnce DEF Taken
<1>4. Len(ops) \in Nat /\ DOMAIN ops = 1..Len(ops)
  BY LenProperties
<1>5. w = <<After(ops), CodeFinds(ops)>>
  BY <1>1, <1>2, <1>3, <1>4
<1>6. \A i \in 1..Len(ops) : Runs(ops[i], Path(ops)[i - 1])
  <2> SUFFICES ASSUME NEW i \in 1..Len(ops) PROVE Runs(ops[i], Path(ops)[i - 1])
    OBVIOUS
  <2>1. i - 1 \in 0..Len(ops)
    BY <1>4
  <2> QED BY <1>1, <1>2, <1>3, <2>1 DEF Can
<1> QED BY <1>4, <1>5, <1>6 DEF RunsThrough

(* An ordinary list that runs leads to its end through good states.        *)
LEMMA RunLeads ==
    ASSUME NEW G, NEW R, NEW V, AllSound(V, G, R), NEW ops \in Seq(V), Good(Start, G), RunsThrough(ops)
    PROVE  Leads(ops, <<Start, <<>>>>, <<After(ops), CodeFinds(ops)>>, G)
<1>1. PICK p : /\ Taken(p, ops) /\ p[Len(ops)] = <<After(ops), CodeFinds(ops)>>
               /\ \A i \in 0..Len(ops) : p[i][1] = Path(ops)[i]
  BY TakenIs
<1>2. Len(ops) \in Nat /\ DOMAIN ops = 1..Len(ops) /\ \A i \in 1..Len(ops) : ops[i] \in V
  BY LenProperties, ElementOfSeq
<1>3. \A i \in 1..Len(ops) : Can(ops[i], p[i - 1]) /\ p[i] = Step(ops[i], p[i - 1]) /\ Sound(ops[i], G, R)
  <2> SUFFICES ASSUME NEW i \in 1..Len(ops)
               PROVE  Can(ops[i], p[i - 1]) /\ p[i] = Step(ops[i], p[i - 1]) /\ Sound(ops[i], G, R)
    OBVIOUS
  <2>1. i - 1 \in 0..Len(ops)
    BY <1>2
  <2>2. Runs(ops[i], Path(ops)[i - 1])
    BY <1>2 DEF RunsThrough
  <2> QED BY <1>1, <1>2, <2>1, <2>2 DEF Can, Taken, AllSound
<1> DEFINE S == {n \in Nat : n <= Len(ops) => Fine(p[n], G)}
<1>4. 0 \in S
  BY <1>1 DEF Taken, Fine
<1>5. ASSUME NEW n \in Nat, n \in S PROVE n + 1 \in S
  <2> SUFFICES ASSUME n + 1 <= Len(ops) PROVE Fine(p[n + 1], G)
    OBVIOUS
  <2>1. n + 1 \in 1..Len(ops) /\ (n + 1) - 1 = n /\ n <= Len(ops)
    BY <1>2
  <2>2. /\ Can(ops[n + 1], p[n]) /\ p[n + 1] = Step(ops[n + 1], p[n]) /\ Sound(ops[n + 1], G, R)
        /\ Fine(p[n], G)
    BY <1>3, <1>5, <2>1
  <2> QED BY <2>2, StepFine
<1>6. \A n \in Nat : n \in S
  <2> HIDE DEF S
  <2> QED BY <1>4, <1>5, Induction
<1>7. \A i \in 0..Len(ops) : Fine(p[i], G)
  BY <1>2, <1>6
<1> QED BY <1>1, <1>3, <1>7 DEF Leads, Taken

(* A list that runs still runs with one more operation that runs after it. *)
LEMMA RunsOn ==
    ASSUME NEW V, NEW ops \in Seq(V), NEW op \in V, RunsThrough(ops), Runs(op, After(ops))
    PROVE  RunsThrough(Append(ops, op))
<1> DEFINE L == Len(ops)
           new == Append(ops, op)
           P == Path(ops)
           N == Path(new)
<1>1. L \in Nat /\ Len(new) = L + 1 /\ new[L + 1] = op /\ \A i \in 1..L : new[i] = ops[i]
  BY AppendProperties, LenProperties
<1>1a. DOMAIN new = 1..(L + 1) /\ DOMAIN ops = 1..L
  BY <1>1, AppendProperties, LenProperties
<1> HIDE DEF new
<1>2. P[0] = Start /\ \A i \in 1..L : P[i] = StateForwards(ops[i], P[i - 1])
  BY <1>1, PathIs
<1>3. N[0] = Start /\ \A i \in 1..(L + 1) : N[i] = StateForwards(new[i], N[i - 1])
  BY <1>1, PathIs
<1>4. P[L] = After(ops)
  BY DEF After
<1> HIDE DEF L, P, N
<1> DEFINE S == {n \in Nat : n <= L => P[n] = N[n]}
<1>5. 0 \in S
  BY <1>2, <1>3
<1>6. ASSUME NEW n \in Nat, n \in S PROVE n + 1 \in S
  <2> SUFFICES ASSUME n + 1 <= L PROVE P[n + 1] = N[n + 1]
    OBVIOUS
  <2>1. n + 1 \in 1..L /\ (n + 1) - 1 = n /\ n <= L /\ n + 1 \in 1..(L + 1)
    BY <1>1
  <2>2. P[n + 1] = StateForwards(ops[n + 1], P[n]) /\ N[n + 1] = StateForwards(new[n + 1], N[n])
    BY <1>2, <1>3, <2>1
  <2> QED BY <1>1, <1>6, <2>1, <2>2
<1>7. \A n \in Nat : n \in S
  <2> HIDE DEF S
  <2> QED BY <1>5, <1>6, Induction
<1>8. \A n \in 0..L : N[n] = P[n]
  BY <1>1, <1>7
<1>9. \A i \in 1..(L + 1) : Runs(new[i], N[i - 1])
  <2> SUFFICES ASSUME NEW i \in 1..(L + 1) PROVE Runs(new[i], N[i - 1])
    OBVIOUS
  <2>1. i - 1 \in 0..L /\ N[i - 1] = P[i - 1]
    BY <1>1, <1>8
  <2>2. CASE i = L + 1
    <3>1. i - 1 = L
      BY <1>1, <2>2
    <3> QED BY <1>1, <1>4, <2>1, <2>2, <3>1
  <2>3. CASE i # L + 1
    <3>1. i \in 1..L
      BY <1>1, <2>3
    <3>2. Runs(ops[i], P[i - 1])
      BY <1>1a, <3>1 DEF RunsThrough, P
    <3> QED BY <1>1, <2>1, <3>1, <3>2
  <2> QED BY <2>2, <2>3
<1> QED BY <1>1a, <1>9 DEF RunsThrough, new, N

-----------------------------------------------------------------------------
(* The list l leads, through good states, to where the ordinary list ops   *)
(* leads to, and its code finds what that of ops finds.                    *)
Keeps(l, ops) ==
    Ordinary(ops) =>
        \E G, R, V : /\ AllSound(V, G, R) /\ l \in Seq(V)
                     /\ Leads(l, <<Start, <<>>>>, <<After(ops), CodeFinds(ops)>>, G)

(* The inductive invariant.                                                *)
Effect == TypeOK /\ RunsThrough(written) /\ Keeps(list, written)

(* A written list leads where it leads.                                    *)
LEMMA WrittenKept ==
    ASSUME NEW ops \in Seq(Op), RunsThrough(ops)
    PROVE  Keeps(ops, ops)
<1> SUFFICES ASSUME NEW G, NEW R, Good(Start, G), \A i \in DOMAIN ops : Sound(ops[i], G, R)
             PROVE  \E V : /\ AllSound(V, G, R) /\ ops \in Seq(V)
                           /\ Leads(ops, <<Start, <<>>>>, <<After(ops), CodeFinds(ops)>>, G)
  BY DEF Keeps, Ordinary
<1> DEFINE V == {ops[i] : i \in DOMAIN ops}
<1>1. AllSound(V, G, R)
  BY DEF AllSound
<1>2. ops \in Seq(V)
  <2>1. Len(ops) \in Nat /\ DOMAIN ops = 1..Len(ops) /\ ops \in [1..Len(ops) -> Op]
    BY LenProperties
  <2>2. ops \in [1..Len(ops) -> V]
    BY <2>1
  <2> HIDE DEF V
  <2> QED BY <2>1, <2>2, SeqDef
<1> HIDE DEF V
<1>3. Leads(ops, <<Start, <<>>>>, <<After(ops), CodeFinds(ops)>>, G)
  BY <1>1, <1>2, RunLeads
<1> QED BY <1>1, <1>2, <1>3

(* A pass keeps that.                                                      *)
LEMMA PassKept ==
    ASSUME NEW ops, NEW l, Keeps(l, ops), NEW new \in optimizeInner(l)
    PROVE  Keeps(new, ops)
<1> DEFINE z == <<Start, <<>>>>
           w == <<After(ops), CodeFinds(ops)>>
<1> HIDE DEF z, w
<1> SUFFICES ASSUME Ordinary(ops)
             PROVE  \E G, R, V : AllSound(V, G, R) /\ new \in Seq(V) /\ Leads(new, z, w, G)
  BY DEF Keeps, z, w
<1>1. PICK G, R, V : AllSound(V, G, R) /\ l \in Seq(V) /\ Leads(l, z, w, G)
  BY DEF Keeps, z, w
<1>2. \E W : AllSound(W, G, R) /\ new \in Seq(W) /\ Leads(new, z, w, G)
  BY <1>1, PassLeads
<1> QED BY <1>2

(* Every step keeps the invariant.                                         *)
LEMMA EffectInductive ==
    ASSUME Effect, [Next]_vars, TypeOK'
    PROVE  Effect'
<1>1. ASSUME NEW op \in Op, Write(op) PROVE Effect'
  <2> DEFINE new == Append(written, op)
  <2>1. written' = new /\ list' = new /\ Runs(op, After(written)) /\ written \in Seq(Op) /\ new \in Seq(Op)
    BY <1>1 DEF Write, Effect, TypeOK
  <2>2. RunsThrough(new)
    BY <2>1, RunsOn DEF Effect
  <2> HIDE DEF new
  <2>3. Keeps(new, new)
    BY <2>1, <2>2, WrittenKept
  <2> QED BY <2>1, <2>2, <2>3 DEF Effect
<1>2. CASE Pass
  <2>1. written' = written /\ list' \in optimizeInner(list)
    BY <1>2 DEF Pass
  <2>2. Keeps(list', written)
    BY <2>1, PassKept DEF Effect
  <2> QED BY <2>1, <2>2 DEF Effect
<1>3. CASE Optimize \/ Return \/ UNCHANGED vars
  <2>1. written' = written /\ list' = list
    BY <1>3 DEF Optimize, Return, vars
  <2> QED BY <2>1 DEF Effect
<1> QED BY <1>1, <1>2, <1>3 DEF Next

(* And it holds at the start.                                              *)
LEMMA EffectInit == Init => Effect
<1> SUFFICES ASSUME Init PROVE Effect
  OBVIOUS
<1>1. TypeOK /\ written = <<>> /\ list = <<>> /\ <<>> \in Seq(Op)
  BY MaxOpsAssumption DEF Init, TypeOK
<1>2. RunsThrough(<<>>)
  BY DEF RunsThrough
<1>3. Keeps(<<>>, <<>>)
  BY <1>1, <1>2, WrittenKept
<1> QED BY <1>1, <1>2, <1>3 DEF Effect

(* It says what is to be shown.                                            *)
LEMMA EffectIs == Effect => (Ordinary(written) => SameEffect /\ CodeUnaffected)
<1> SUFFICES ASSUME Effect, Ordinary(written) PROVE SameEffect /\ CodeUnaffected
  OBVIOUS
<1> DEFINE w == <<After(written), CodeFinds(written)>>
<1>1. PICK G, R, V : AllSound(V, G, R) /\ list \in Seq(V) /\ Leads(list, <<Start, <<>>>>, w, G)
  BY DEF Effect, Keeps
<1>2. RunsThrough(list) /\ w = <<After(list), CodeFinds(list)>>
  <2> HIDE DEF w
  <2> QED BY <1>1, LeadsSame
<1>3. After(list) = After(written) /\ CodeFinds(list) = CodeFinds(written)
  BY <1>2
<1> QED BY <1>2, <1>3 DEF SameEffect, CodeUnaffected

(* An ordinary migration, of any length and over any models, still runs    *)
(* after any number of passes of Optimize and leads to the same project    *)
(* state.                                                                  *)
THEOREM EffectKept == Spec => [](Ordinary(written) => SameEffect)
<1>1. Effect /\ [Next]_vars /\ TypeOK' => Effect'
  BY EffectInductive
<1>2. Effect => (Ordinary(written) => SameEffect)
  BY EffectIs
<1> QED BY <1>1, <1>2, EffectInit, Typing, PTL DEF Spec

(* And whatever runs code or SQL in it finds the project state that it was *)
(* written for: Optimize never moves a change past RunGo or RunSQL.        *)
THEOREM CodeKept == Spec => [](Ordinary(written) => CodeUnaffected)
<1>1. Effect /\ [Next]_vars /\ TypeOK' => Effect'
  BY EffectInductive
<1>2. Effect => (Ordinary(written) => CodeUnaffected)
  BY EffectIs
<1> QED BY <1>1, <1>2, EffectInit, Typing, PTL DEF Spec
=============================================================================
