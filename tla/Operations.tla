----------------------------- MODULE Operations -----------------------------
(***************************************************************************)
(* migrations/op_models.go, op_fields.go, op_special.go and the defaults   *)
(* of operation.go: what an operation does to the project state, which     *)
(* models and columns it touches, and how it reduces an operation that     *)
(* follows it.                                                             *)
(*                                                                         *)
(* An operation is a record: op, its type, and                             *)
(*   model, the model it names; name, the field, index or constraint;      *)
(*   new, the name a rename gives; def, what is created, added or altered; *)
(*   preserve, whether a field keeps its default;                          *)
(*   option and value, for the four AlterModelXxx and AlterUniqueTogether; *)
(*   elidable and state, the flag and the StateOperations of RunSQL, RunGo *)
(*   and SeparateDatabaseAndState, all three written "Special".            *)
(***************************************************************************)
EXTENDS ProjectState

Is(op, types) == op.op \in types
Key(op) == Lower[op.model]
SameModel(op, other) == "model" \in DOMAIN other /\ Key(op) = Key(other)
Elidable(op) == Is(op, {"Special"}) /\ op.elidable

FieldOps      == {"AddField", "RemoveField", "AlterField", "RenameField"}
IndexOps      == {"AddIndex", "RemoveIndex", "RenameIndex"}
ConstraintOps == {"AddConstraint", "RemoveConstraint", "AlterConstraint"}

-----------------------------------------------------------------------------
(* StateForwards.                                                          *)

ModelForwards(op, s) ==
    CASE op.op = "CreateModel" -> AddModel(s, op.model, op.def)
      [] op.op = "DeleteModel" -> RemoveModel(s, op.model)
      [] op.op = "RenameModel" -> RenameModel(s, op.model, op.new)
      [] op.op = "AlterOption" -> AlterOption(s, op.model, op.option, op.value)

IndexForwards(op, s) ==
    CASE op.op = "AddIndex"    -> AddPart(s, op.model, "indexes", op.name, op.def)
      [] op.op = "RemoveIndex" -> RemovePart(s, op.model, "indexes", op.name)
      [] op.op = "RenameIndex" -> RenameIndex(s, op.model, op.name, op.new)

ConstraintForwards(op, s) ==
    CASE op.op = "AddConstraint"    -> AddPart(s, op.model, "constraints", op.name, op.def)
      [] op.op = "RemoveConstraint" -> RemovePart(s, op.model, "constraints", op.name)
      [] op.op = "AlterConstraint"  -> AlterConstraint(s, op.model, op.name, op.def)

FieldForwards(op, s) ==
    CASE Is(op, {"AddField", "AlterField"}) -> PutField(s, op.model, op.name, op.def, op.preserve)
      [] op.op = "RemoveField"              -> RemoveField(s, op.model, op.name)
      [] op.op = "RenameField"              -> RenameField(s, op.model, op.name, op.new)

PlainForwards(s, op) ==
    CASE Is(op, FieldOps)      -> FieldForwards(op, s)
      [] Is(op, IndexOps)      -> IndexForwards(op, s)
      [] Is(op, ConstraintOps) -> ConstraintForwards(op, s)
      [] OTHER                 -> ModelForwards(op, s)

(* A special operation carries its own state operations, often none.       *)
PlainPath(s, ops) ==
    LET path[i \in 0..Len(ops)] == IF i = 0 THEN s ELSE PlainForwards(path[i - 1], ops[i])
    IN  path

StateForwards(op, s) ==
    IF Is(op, {"Special"}) THEN PlainPath(s, op.state)[Len(op.state)] ELSE PlainForwards(s, op)

(* The error a StateForwards returns: no such model, index or field.       *)
Fails(op, s) ==
    IF Is(op, {"CreateModel", "Special"}) THEN FALSE
    ELSE \/ Key(op) \notin DOMAIN s
         \/ Is(op, {"RemoveIndex"}) /\ op.name \notin DOMAIN s[Key(op)].indexes
         \/ Is(op, FieldOps \ {"AddField"}) /\ op.name \notin DOMAIN s[Key(op)].fields

(* What DatabaseForwards and the database refuse besides: a name that is   *)
(* taken, an index or a constraint that is not there.  Index names are     *)
(* taken to be unique in the project, as PostgreSQL and SQLite have them;  *)
(* renaming a thing to the name it has is no error.                        *)
NameTaken(op, s) ==
    LET m == s[Key(op)]
    IN  CASE op.op = "CreateModel"   -> Key(op) \in DOMAIN s
          [] op.op = "RenameModel"   -> Lower[op.new] \in DOMAIN s \ {Key(op)}
          [] op.op = "AddField"      -> op.name \in DOMAIN m.fields
          [] op.op = "RenameField"   -> op.new \in DOMAIN m.fields \ {op.name}
          [] op.op = "AddIndex"      -> \E k \in DOMAIN s : op.name \in DOMAIN s[k].indexes
          [] op.op = "RenameIndex"   -> \/ op.name \notin DOMAIN m.indexes
                                        \/ /\ op.new # op.name
                                           /\ \E k \in DOMAIN s : op.new \in DOMAIN s[k].indexes
          [] op.op = "AddConstraint" -> op.name \in DOMAIN m.constraints
          [] Is(op, {"RemoveConstraint", "AlterConstraint"}) -> op.name \notin DOMAIN m.constraints
          [] OTHER -> FALSE

(* The executor runs op in state s without an error.                       *)
PlainRuns(op, s) ==
    /\ ~Fails(op, s)
    /\ ~NameTaken(op, s)
    /\ LET to == PlainForwards(s, op) IN Renders(to) /\ ColumnsExist(to)

Runs(op, s) ==
    IF Is(op, {"Special"})
    THEN \A i \in DOMAIN op.state : PlainRuns(op.state[i], PlainPath(s, op.state)[i - 1])
    ELSE PlainRuns(op, s)

-----------------------------------------------------------------------------
(* ReferencesModel and ReferencesField: key is a model's key.  A created   *)
(* model's foreign key constraints are not looked at.                      *)

(* Mutant: only an operation that names the model counts.                  *)
ReferencesNamedModel(op, key) == "model" \in DOMAIN op /\ Key(op) = key

ReferencesModel(op, key) ==
    CASE op.op = "CreateModel" ->
            Key(op) = key \/ \E x \in Range(op.def.fields) : References(x, key)
      [] op.op = "RenameModel" -> key \in {Key(op), Lower[op.new]}
      [] Is(op, {"AlterOption", "RemoveField", "RenameField"}) -> Key(op) = key
      [] Is(op, {"AddField", "AlterField"}) -> Key(op) = key \/ References(op.def, key)
      [] OTHER -> TRUE

ReferencesField(op, key, f) ==
    CASE op.op = "AlterOption" /\ op.option = "unique" ->
            Key(op) = key /\ (op.value = {} \/ f \in UNION op.value)
      [] Is(op, {"AddField", "AlterField"}) ->
            (Key(op) = key /\ op.name = f) \/ ReferencesColumn(op.def, key, f)
      [] op.op = "RemoveField" -> Key(op) = key /\ op.name = f
      [] op.op = "RenameField" -> Key(op) = key /\ f \in {op.name, op.new}
      [] OTHER -> ReferencesModel(op, key)

-----------------------------------------------------------------------------
(* Reduce, first part: the lists that replace op and other, at most one.   *)

When(condition, list) == IF condition THEN {list} ELSE {}

(* What a created model looks like with a later change folded in.          *)
FoldIntoCreate(m, x) ==
    CASE x.op = "AlterOption" -> [m EXCEPT ![x.option] = x.value]
      [] x.op = "AddField"    -> [m EXCEPT !.fields = Put(@, x.name, x.def)]
      [] x.op = "AlterField"  ->
            [m EXCEPT !.fields = IF x.name \in DOMAIN @ THEN Put(@, x.name, x.def) ELSE @]
      [] x.op = "RemoveField" ->
            [m EXCEPT !.fields = Drop(@, x.name),
                      !.unique = {t \ {x.name} : t \in @} \ {{}}]
      [] x.op = "RenameField" ->
            [m EXCEPT !.fields = IF x.name \in DOMAIN @ THEN Rename(@, x.name, x.new) ELSE @,
                      !.unique = {RenameIn(t, x.name, x.new) : t \in @}]
      [] x.op = "AddIndex"         -> [m EXCEPT !.indexes = Put(@, x.name, x.def)]
      [] x.op = "RemoveIndex"      -> [m EXCEPT !.indexes = Drop(@, x.name)]
      [] x.op = "RemoveConstraint" -> [m EXCEPT !.constraints = Drop(@, x.name)]
      [] Is(x, {"AddConstraint", "AlterConstraint"}) ->
            [m EXCEPT !.constraints = Put(@, x.name, x.def)]

ReduceCreate(op, x) ==
    IF ~SameModel(op, x) \/ Is(x, {"CreateModel", "RenameIndex"}) THEN {}
    ELSE CASE x.op = "DeleteModel" -> {<<>>}
           [] x.op = "RenameModel" -> {<<[op EXCEPT !.model = x.new]>>}
           [] OTHER                -> {<<[op EXCEPT !.def = FoldIntoCreate(@, x)]>>}

ReduceRenameModel(op, x) ==
    When(Is(x, {"RenameModel"}) /\ Lower[op.new] = Key(x), <<[op EXCEPT !.new = x.new]>>)

ReduceOption(op, x) ==
    When(/\ SameModel(op, x)
         /\ \/ Is(x, {"DeleteModel"})
            \/ Is(x, {"AlterOption"}) /\ x.option = op.option, <<x>>)

(* An index is known by its name alone.                                    *)
ReduceAddIndex(op, x) ==
    When(Is(x, {"RemoveIndex"}) /\ x.name = op.name, <<>>)
      \cup When(Is(x, {"RenameIndex"}) /\ x.name = op.name, <<[op EXCEPT !.name = x.new]>>)

ReduceRenameIndex(op, x) ==
    When(Is(x, {"RenameIndex"}) /\ SameModel(op, x) /\ op.new = x.name,
         <<[op EXCEPT !.new = x.new]>>)

SameName(op, x, types) == Is(x, types) /\ SameModel(op, x) /\ op.name = x.name

ReduceAddConstraint(op, x) ==
    When(SameName(op, x, {"RemoveConstraint"}), <<>>)
      \cup When(SameName(op, x, {"AlterConstraint"}), <<[op EXCEPT !.def = x.def]>>)

ReduceAlterConstraint(op, x) ==
    When(SameName(op, x, {"AlterConstraint", "RemoveConstraint"}), <<x>>)

ReduceAddField(op, x) ==
    When(SameName(op, x, {"AlterField"}), <<[op EXCEPT !.def = x.def]>>)
      \cup When(SameName(op, x, {"RemoveField"}), <<>>)
      \cup When(SameName(op, x, {"RenameField"}), <<[op EXCEPT !.name = x.new]>>)

ReduceRemoveField(op, x) == When(Is(x, {"DeleteModel"}) /\ SameModel(op, x), <<x>>)

(* Mutant: the two keep their places.                                      *)
ReduceAlterFieldInPlace(op, x) ==
    When(SameName(op, x, {"AlterField", "RemoveField"}), <<x>>)
      \cup When(SameName(op, x, {"RenameField"}), <<op, x>>)

(* The rename goes first, and the alteration follows it under the new name.*)
ReduceAlterField(op, x) ==
    When(SameName(op, x, {"AlterField", "RemoveField"}), <<x>>)
      \cup When(SameName(op, x, {"RenameField"}), <<x, [op EXCEPT !.name = x.new]>>)

ReduceRenameField(op, x) ==
    When(Is(x, {"RenameField"}) /\ SameModel(op, x) /\ op.new = x.name,
         <<[op EXCEPT !.new = x.new]>>)

(* baseReduce: an elidable operation on either side drops out.             *)
ReduceElidable(op, x) ==
    IF Elidable(op) THEN {<<x>>} ELSE When(Elidable(x), <<op>>)

OwnReduction(op, x) ==
    CASE op.op = "CreateModel"     -> ReduceCreate(op, x)
      [] op.op = "RenameModel"     -> ReduceRenameModel(op, x)
      [] op.op = "AlterOption"     -> ReduceOption(op, x)
      [] op.op = "AddIndex"        -> ReduceAddIndex(op, x)
      [] op.op = "RenameIndex"     -> ReduceRenameIndex(op, x)
      [] op.op = "AddConstraint"   -> ReduceAddConstraint(op, x)
      [] op.op = "AlterConstraint" -> ReduceAlterConstraint(op, x)
      [] op.op = "AddField"        -> ReduceAddField(op, x)
      [] op.op = "RemoveField"     -> ReduceRemoveField(op, x)
      [] op.op = "AlterField"      -> ReduceAlterField(op, x)
      [] op.op = "RenameField"     -> ReduceRenameField(op, x)
      [] OTHER                     -> {}

Replacement(op, x) ==
    IF OwnReduction(op, x) # {} THEN OwnReduction(op, x) ELSE ReduceElidable(op, x)

(* Second part: when neither replaces the other, whether op can be         *)
(* optimized across x (ReduceThrough) or not (ReduceBlock).                *)
Through(op, x) ==
    /\ Replacement(op, x) = {}
    /\ CASE Is(op, {"CreateModel", "DeleteModel", "AlterOption"}) -> ~ReferencesModel(x, Key(op))
         [] op.op = "RenameModel" -> ~ReferencesModel(x, Lower[op.new])
         [] Is(op, {"AddField", "RemoveField", "AlterField"}) -> ~ReferencesField(x, Key(op), op.name)
         [] op.op = "RenameField" ->
               ~ReferencesField(x, Key(op), op.name) /\ ~ReferencesField(x, Key(op), op.new)
         [] OTHER -> FALSE
=============================================================================
