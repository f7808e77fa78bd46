---------------------------- MODULE ProjectState ----------------------------
(***************************************************************************)
(* migrations/state.go: the models of a project at one point of its        *)
(* history, and what each change does to them.                             *)
(*                                                                         *)
(* A state is a function from the keys of its models to their definitions. *)
(* Fields, indexes and constraints are functions from their names, since   *)
(* the order in which they are declared decides nothing here; an index is  *)
(* the set of its columns, and unique (unique_together) a set of sets of   *)
(* columns.  A field may point at a model, and at one of its columns.      *)
(***************************************************************************)
EXTENDS Naturals, Sequences, FiniteSets, Functions, TLC

CONSTANTS
    Name,      \* model names of the app, spelled in upper and lower case
    Lower,     \* Lower[n]: the key of the model named n
    None       \* no model, no column

ASSUME NameAssumption == None \notin {Lower[n] : n \in Name}

Put(f, k, v) == [x \in {k} \cup DOMAIN f |-> IF x = k THEN v ELSE f[x]]
Drop(f, k) == Restrict(f, DOMAIN f \ {k})

Swap(x, old, new) == IF x = old THEN new ELSE x
RenameIn(S, old, new) == {Swap(x, old, new) : x \in S}

(* f with the entry old under the name new.                                *)
Rename(f, old, new) == Put(Drop(f, old), new, f[old])

-----------------------------------------------------------------------------
(* Models.                                                                 *)

AddModel(s, n, m) == Put(s, Lower[n], Put(m, "name", n))

RemoveModel(s, n) == Drop(s, Lower[n])

(* The model and every reference to it, its own included.                  *)
RenameModel(s, n, new) ==
    LET old        == Lower[n]
        renamed    == Rename(s, old, Lower[new])
        repoint(x) == [x EXCEPT !.to = Swap(x.to, old, Lower[new])]
    IN  [k \in DOMAIN renamed |->
            [renamed[k] EXCEPT
                !.name        = IF k = Lower[new] THEN new ELSE @,
                !.fields      = [f \in DOMAIN @ |-> repoint(@[f])],
                !.constraints = [c \in DOMAIN @ |-> repoint(@[c])]]]

(* AlterTable, AlterTableComment, AlterUniqueTogether, AlterModelOptions.  *)
AlterOption(s, n, option, value) == [s EXCEPT ![Lower[n]][option] = value]

-----------------------------------------------------------------------------
(* Indexes and constraints: part is "indexes" or "constraints".            *)

AddPart(s, n, part, name, def) ==
    [s EXCEPT ![Lower[n]][part] = Put(@, name, def)]

RemovePart(s, n, part, name) ==
    [s EXCEPT ![Lower[n]][part] = Drop(@, name)]

RenameIndex(s, n, old, new) ==
    [s EXCEPT ![Lower[n]].indexes = IF old \in DOMAIN @ THEN Rename(@, old, new) ELSE @]

AlterConstraint(s, n, name, def) ==
    [s EXCEPT ![Lower[n]].constraints = IF name \in DOMAIN @ THEN Put(@, name, def) ELSE @]

-----------------------------------------------------------------------------
(* Fields.                                                                 *)

(* A default that is not preserved fills rows and does not enter the state.*)
Stored(def, preserve) == IF preserve THEN def ELSE [def EXCEPT !.default = FALSE]

PutField(s, n, f, def, preserve) ==
    [s EXCEPT ![Lower[n]].fields = Put(@, f, Stored(def, preserve))]

RemoveField(s, n, f) == [s EXCEPT ![Lower[n]].fields = Drop(@, f)]

(* The field and whatever names it: on the model unique_together, indexes  *)
(* and constraints, elsewhere the foreign keys that point at it.           *)
RenameCovered(c, old, new) == [c EXCEPT !.columns = RenameIn(@, old, new)]

RenameInModel(m, old, new) ==
    [m EXCEPT !.fields      = Rename(@, old, new),
              !.unique      = {RenameIn(t, old, new) : t \in @},
              !.indexes     = [i \in DOMAIN @ |-> RenameIn(@[i], old, new)],
              !.constraints = [c \in DOMAIN @ |-> RenameCovered(@[c], old, new)]]

RenameTarget(x, key, old, new) ==
    [x EXCEPT !.toFields = IF x.to = key THEN RenameIn(@, old, new) ELSE @]

RenameTargets(m, key, old, new) ==
    [m EXCEPT !.fields      = [f \in DOMAIN @ |-> RenameTarget(@[f], key, old, new)],
              !.constraints = [c \in DOMAIN @ |-> RenameTarget(@[c], key, old, new)]]

RenameField(s, n, old, new) ==
    LET key     == Lower[n]
        renamed == [s EXCEPT ![key] = RenameInModel(@, old, new)]
    IN  [k \in DOMAIN s |-> RenameTargets(renamed[k], key, old, new)]

-----------------------------------------------------------------------------
(* FieldReferences: x, a field or a foreign key constraint, points at key, *)
(* and at its column f unless it names none.                               *)
References(x, key) == x.to = key
ReferencesColumn(x, key, f) == x.to = key /\ (x.toFields = {} \/ f \in x.toFields)

(* renderApps: every foreign key finds its model and its columns.          *)
Pointers(m) == Range(m.fields) \cup Range(m.constraints)

Renders(s) ==
    \A k \in DOMAIN s : \A x \in Pointers(s[k]) :
        x.to # None => x.to \in DOMAIN s /\ x.toFields \subseteq DOMAIN s[x.to].fields

(* What no database holds: an index, a constraint or a unique set over a   *)
(* column that is not there.                                               *)
CoveredColumns(m) ==
    UNION (m.unique \cup Range(m.indexes) \cup {c.columns : c \in Range(m.constraints)})

ColumnsExist(s) == \A k \in DOMAIN s : CoveredColumns(s[k]) \subseteq DOMAIN s[k].fields
=============================================================================
