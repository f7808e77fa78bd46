------------------------- MODULE OrdinaryMigration -------------------------
(***************************************************************************)
(* Which migrations the optimizer keeps the effect of, whatever their      *)
(* length and whatever models they are about.  The reductions and the      *)
(* moves of internal/optimizer look at the two operations in hand and not  *)
(* at the project state, so they overlook what another model points at,    *)
(* what an index covers and what a name stood for before.  An ordinary     *)
(* list of operations leaves them nothing to overlook:                     *)
(*                                                                         *)
(*   - no model is renamed;                                                *)
(*   - no foreign key points at a column that the list removes or renames, *)
(*     G being a set of such columns, each with the key of its model;      *)
(*   - no index or constraint that the list makes covers a column that the *)
(*     list renames, R being a set of those;                               *)
(*   - foreign keys are fields, not constraints over several columns;      *)
(*   - an added or altered field keeps its default;                        *)
(*   - a set of columns of unique_together is not empty;                   *)
(*   - an elidable operation has no state operations.                      *)
(*                                                                         *)
(* MCOptimizer has a list for each of the first five that is not ordinary  *)
(* and loses its effect.                                                   *)
(***************************************************************************)
EXTENDS Optimizer

IsFcn(f) == f = [x \in DOMAIN f |-> f[x]]

-----------------------------------------------------------------------------
(* Project states.                                                         *)

(* x, a field or a constraint, points at no column in G.                   *)
Pointer(x, G) == IsFcn(x) /\ \A g \in x.toFields : <<x.to, g>> \notin G

ModelOK(m, G) ==
    /\ IsFcn(m)
    /\ {"fields", "unique", "indexes", "constraints"} \subseteq DOMAIN m
    /\ IsFcn(m.fields) /\ IsFcn(m.indexes) /\ IsFcn(m.constraints)
    /\ \A x \in Pointers(m) : Pointer(x, G)
    /\ \A c \in DOMAIN m.constraints : "columns" \in DOMAIN m.constraints[c]

StateOK(s, G) == IsFcn(s) /\ \A k \in DOMAIN s : ModelOK(s[k], G)

Good(s, G) == StateOK(s, G) /\ Renders(s) /\ ColumnsExist(s)

-----------------------------------------------------------------------------
(* Operations, by what they carry.                                         *)

(* None of the columns S of op's model is in R.                            *)
Free(op, S, R) == \A c \in S : <<Key(op), c>> \notin R

SoundConstraint(op, c, G, R) ==
    /\ Pointer(c, G) /\ {"columns", "to", "toFields"} \subseteq DOMAIN c
    /\ c.to = None
    /\ Free(op, c.columns, R)

SoundCreate(op, G, R) ==
    /\ "def" \in DOMAIN op
    /\ ModelOK(op.def, G)
    /\ {} \notin op.def.unique
    /\ \A i \in DOMAIN op.def.indexes : Free(op, op.def.indexes[i], R)
    /\ \A c \in DOMAIN op.def.constraints : SoundConstraint(op, op.def.constraints[c], G, R)

SoundOption(op) ==
    /\ {"option", "value"} \subseteq DOMAIN op
    /\ op.option \notin {"name", "fields", "indexes", "constraints"}
    /\ op.option = "unique" => {} \notin op.value

SoundField(op, G, R) ==
    /\ "name" \in DOMAIN op
    /\ Is(op, {"AddField", "AlterField"}) =>
          {"def", "preserve"} \subseteq DOMAIN op /\ op.preserve = TRUE /\ Pointer(op.def, G)
    /\ Is(op, {"RemoveField", "RenameField"}) => <<Key(op), op.name>> \in G
    /\ Is(op, {"RenameField"}) => "new" \in DOMAIN op /\ <<Key(op), op.name>> \in R

SoundPart(op, G, R) ==
    /\ "name" \in DOMAIN op
    /\ Is(op, {"RenameIndex"}) => "new" \in DOMAIN op
    /\ Is(op, {"AddIndex"}) => "def" \in DOMAIN op /\ Free(op, op.def, R)
    /\ Is(op, {"AddConstraint", "AlterConstraint"}) =>
          "def" \in DOMAIN op /\ SoundConstraint(op, op.def, G, R)

SoundPlain(op, G, R) ==
    /\ {"op", "model"} \subseteq DOMAIN op
    /\ \/ Is(op, {"CreateModel"}) /\ SoundCreate(op, G, R)
       \/ Is(op, {"DeleteModel"})
       \/ Is(op, {"AlterOption"}) /\ SoundOption(op)
       \/ Is(op, FieldOps) /\ SoundField(op, G, R)
       \/ Is(op, IndexOps \cup ConstraintOps) /\ SoundPart(op, G, R)

Sound(op, G, R) ==
    \/ SoundPlain(op, G, R)
    \/ /\ Is(op, {"Special"}) /\ "model" \notin DOMAIN op
       /\ op.state \in Seq(Range(op.state))
       /\ \A i \in DOMAIN op.state : SoundPlain(op.state[i], G, R)
       /\ op.elidable \in BOOLEAN /\ (op.elidable => op.state = <<>>)

-----------------------------------------------------------------------------

Ordinary(ops) == \E G, R : Good(Start, G) /\ \A i \in DOMAIN ops : Sound(ops[i], G, R)
=============================================================================
