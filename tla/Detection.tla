------------------------------ MODULE Detection ------------------------------
(***************************************************************************)
(* internal/autodetector/autodetector.go, first half: from the state the   *)
(* migrations lead to and the state of the models to the operations that   *)
(* turn one into the other, and what each of them has to wait for.         *)
(*                                                                         *)
(* A detector d is a record:                                               *)
(*   from, to     the two states; yes, the questions answered with yes;    *)
(*   old, new     keys of the managed models, oldUn and newUn of the rest; *)
(*   oldFields, newFields   <<key, field>> of the models on both sides;    *)
(*   renamedModels, renamedFields   from the new key to the old name;      *)
(*   gen          the operations of each app, each with what it waits for. *)
(* A model's key stands for its app too: no two apps share one.  Fields    *)
(* are declared in the order of their names.                               *)
(***************************************************************************)
EXTENDS Reduction, SequencesExt

CONSTANTS
    App,        \* app labels, numbers that sort as the labels do
    AppOf,      \* AppOf[k]: the app of the model with key k
    Alphabet,   \* all names, in their order
    Real        \* apps without migrations

Sorted(S) == SelectSeq(Alphabet, LAMBDA x : x \in S)
Pairs == FlattenSeq([i \in DOMAIN Alphabet |-> [j \in DOMAIN Alphabet |-> <<Alphabet[i], Alphabet[j]>>]])
SortedPairs(S) == SelectSeq(Pairs, LAMBDA p : p \in S)

(* What Make gives for each element of seq, and one after another what     *)
(* Many gives.                                                             *)
Each(seq, Make(_)) == [i \in DOMAIN seq |-> Make(seq[i])]
EachMany(seq, Many(_)) == FlattenSeq([i \in DOMAIN seq |-> Many(seq[i])])

-----------------------------------------------------------------------------
(* Dependencies between operations.                                        *)

Dep(type, key, field) == [type |-> type, key |-> key, field |-> field]
Created(key) == Dep("modelCreated", key, None)

satisfiedBy(dep, op) ==
    /\ "model" \in DOMAIN op
    /\ Key(op) = dep.key
    /\ CASE dep.type = "modelCreated" -> op.op = "CreateModel"
         [] dep.type = "modelDeleted" -> op.op = "DeleteModel"
         [] dep.type = "fieldCreated" ->
               \/ op.op = "CreateModel" /\ dep.field \in DOMAIN op.def.fields
               \/ op.op = "AddField" /\ op.name = dep.field
         [] dep.type = "fieldRemoved" -> op.op = "RemoveField" /\ op.name = dep.field
         [] dep.type = "fieldAltered" -> op.op = "AlterField" /\ op.name = dep.field
         [] dep.type = "uniqueAltered" -> op.op = "AlterOption" /\ op.option = "unique"
         [] dep.type = "partRemoved" -> Is(op, {"RemoveIndex", "RemoveConstraint"})

IsRelation(f) == f.to # None
Relations(m) == SelectSeq(Sorted(DOMAIN m.fields), LAMBDA f : IsRelation(m.fields[f]))

(* dependenciesForModel, dependenciesForForeignKey, ...ForConstraint.      *)
ForeignKeyDep(f) == IF IsRelation(f) THEN <<Created(f.to)>> ELSE <<>>
RelationDeps(m) == Each(Relations(m), LAMBDA f : Created(m.fields[f].to))

(* referencingFields: the fields that point at key, not the constraints.   *)
Referencing(s, key) ==
    SortedPairs({p \in UNION {{k} \X DOMAIN s[k].fields : k \in DOMAIN s} :
                    s[p[1]].fields[p[2]].to = key})

-----------------------------------------------------------------------------
(* addOperation, for a list of operations and what each waits for.         *)

Entry(key, op, deps) == [key |-> key, op |-> op, deps |-> deps]
OfApp(entries, a) == SelectSeq(entries, LAMBDA e : AppOf[e.key] = a)

addOperations(d, entries) == [d EXCEPT !.gen = [a \in App |-> @[a] \o OfApp(entries, a)]]

(* CreateModel goes first, so the last one to come is in front.            *)
addFirst(d, entries) == [d EXCEPT !.gen = [a \in App |-> Reverse(OfApp(entries, a)) \o @[a]]]

OnModel(type, m) == [op |-> type, model |-> m.name]
OnPart(type, m, name) == [op |-> type, model |-> m.name, name |-> name]
OnPartTo(type, m, name, new) == [op |-> type, model |-> m.name, name |-> name, new |-> new]
WithDef(type, m, name, def) == [op |-> type, model |-> m.name, name |-> name, def |-> def]
WithField(type, m, name, def, preserve) ==
    [op |-> type, model |-> m.name, name |-> name, def |-> def, preserve |-> preserve]
SetOption(m, option, value) ==
    [op |-> "AlterOption", model |-> m.name, option |-> option, value |-> value]

oldName(d, k) == IF k \in DOMAIN d.renamedModels THEN d.renamedModels[k] ELSE k
oldState(d, k) == d.from[oldName(d, k)]

kept(d) == d.old \cap d.new
keptAny(d) == kept(d) \cup (d.oldUn \cap d.newUn)

-----------------------------------------------------------------------------
(* detectChanges: the models of each side that count.                      *)

Start(from, to, convert, yes) ==
    LET managed(s, real) == {k \in DOMAIN s : s[k].managed /\ AppOf[k] \notin real}
        other(s)         == {k \in DOMAIN s : ~s[k].managed}
    IN  [from |-> from, to |-> to, yes |-> yes,
         old |-> managed(from, Real), new |-> managed(to, Real \ convert),
         oldUn |-> other(from), newUn |-> other(to),
         oldFields |-> {}, newFields |-> {},
         renamedModels |-> <<>>, renamedFields |-> <<>>,
         gen |-> [a \in App |-> <<>>]]

(* onlyRelationAgnosticFields: definitions in the order of the names,      *)
(* without the names and without what they point at.                       *)
RelationAgnostic(m) ==
    LET fs == Sorted(DOMAIN m.fields)
    IN  [i \in DOMAIN fs |-> <<[m.fields[fs[i]] EXCEPT !.to = None], IsRelation(m.fields[fs[i]])>>]

(* The questions: was model r renamed to k, was field r renamed to p, and  *)
(* is there a value for the rows that hold none.                           *)
ModelRenamed(r, k) == <<<<r, None>>, <<k, None>>>>
FieldRenamed(r, p) == <<r, p>>
OneOff == <<<<None, None>>, <<None, None>>>>

(* The first model that is gone, looks the same and was renamed, says the  *)
(* user.                                                                   *)
RenamedFrom(d, k) ==
    Sorted({r \in d.old \ d.new : /\ AppOf[r] = AppOf[k]
                                  /\ RelationAgnostic(d.from[r]) = RelationAgnostic(d.to[k])
                                  /\ ModelRenamed(r, k) \in d.yes})

RenameOne(d, k) ==
    LET m    == d.to[k]
        from == RenamedFrom(d, k)
        deps == RelationDeps(m) \o Each(Referencing(d.to, k), LAMBDA p : Created(p[1]))
        op   == [op |-> "RenameModel", model |-> d.from[from[1]].name, new |-> m.name]
    IN  IF from = <<>> THEN d
        ELSE [addOperations(d, <<Entry(k, op, deps)>>)
                EXCEPT !.renamedModels = Put(@, k, from[1]),
                       !.old = (@ \ {from[1]}) \cup {k}]

(* d after Step for each element of seq.                                   *)
After(d, seq, Step(_, _)) ==
    LET after[n \in 0..Len(seq)] ==
            IF n = 0 THEN d ELSE CHOOSE e \in {Step(after[n - 1], seq[n])} : TRUE
    IN  after[Len(seq)]

generateRenamedModels(d) == After(d, Sorted(d.new \ d.old), RenameOne)

FieldsOf(keys, M(_)) == UNION {{k} \X DOMAIN M(k).fields : k \in keys}

prepareFieldLists(d) ==
    [d EXCEPT !.oldFields = FieldsOf(kept(d), LAMBDA k : oldState(d, k)),
              !.newFields = FieldsOf(kept(d), LAMBDA k : d.to[k])]

-----------------------------------------------------------------------------
(* Models that went and models that came.                                  *)

(* Mutant: a model goes without waiting for those that point at it.        *)
DeleteDepsOwn(d, k) == Each(Relations(d.from[k]), LAMBDA f : Dep("fieldRemoved", k, f))

DeleteDeps(d, k) ==
    EachMany(Referencing(d.from, k), LAMBDA p : <<Dep("fieldRemoved", p[1], p[2]), Dep("fieldAltered", p[1], p[2])>>)
      \o Each(Relations(d.from[k]), LAMBDA f : Dep("fieldRemoved", k, f))

DeleteOne(d, k) ==
    LET m == d.from[k]
    IN  (IF m.unique = {} THEN <<>> ELSE <<Entry(k, SetOption(m, "unique", {}), <<>>)>>)
          \o Each(Sorted(DOMAIN m.indexes), LAMBDA i : Entry(k, OnPart("RemoveIndex", m, i), <<>>))
          \o Each(Sorted(DOMAIN m.constraints), LAMBDA c : Entry(k, OnPart("RemoveConstraint", m, c), <<>>))
          \o Each(Relations(m), LAMBDA f : Entry(k, OnPart("RemoveField", m, f), <<Dep("partRemoved", k, f)>>))
          \o <<Entry(k, OnModel("DeleteModel", m), DeleteDeps(d, k))>>

generateDeletedModels(d) ==
    LET stay == d.new \cup d.newUn
    IN  addOperations(d, EachMany(Sorted(d.old \ stay) \o Sorted(d.oldUn \ stay),
                                  LAMBDA k : DeleteOne(d, k)))

(* A foreign key outside the primary key is added once its target is there.*)
Later(m) == SelectSeq(Relations(m), LAMBDA f : ~m.fields[f].pk)

CreateDeps(m, k) ==
    LET pks == SelectSeq(Relations(m), LAMBDA f : m.fields[f].pk)
    IN  <<Dep("modelDeleted", k, None)>> \o Each(pks, LAMBDA f : Created(m.fields[f].to))

(* What CreateModel holds of m.                                            *)
Bare(m) ==
    Drop([m EXCEPT !.fields = Restrict(@, DOMAIN @ \ ToSet(Later(m))),
                   !.indexes = <<>>, !.constraints = <<>>, !.unique = {}], "name")

CreateOne(m, k) == Entry(k, [op |-> "CreateModel", model |-> m.name, def |-> Bare(m)], CreateDeps(m, k))

(* What follows once the table is there; none of it for unmanaged models.  *)
CompleteOne(m, k) ==
    LET deps == Each(Later(m), LAMBDA f : Dep("fieldCreated", k, f)) \o <<Created(k)>>
        add(f) == Entry(k, WithField("AddField", m, f, m.fields[f], TRUE),
                        <<Created(m.fields[f].to), Created(k)>>)
        index(i) == Entry(k, WithDef("AddIndex", m, i, m.indexes[i]), deps)
        constraint(c) == Entry(k, WithDef("AddConstraint", m, c, m.constraints[c]),
                               deps \o ForeignKeyDep(m.constraints[c]))
    IN  IF ~m.managed THEN <<>>
        ELSE Each(Later(m), add)
               \o Each(Sorted(DOMAIN m.indexes), index)
               \o Each(Sorted(DOMAIN m.constraints), constraint)
               \o (IF m.unique = {} THEN <<>> ELSE <<Entry(k, SetOption(m, "unique", m.unique), deps)>>)

generateCreatedModels(d) ==
    LET had  == d.old \cup d.oldUn
        keys == Reverse(Sorted(d.new \ had)) \o Reverse(Sorted(d.newUn \ had))
    IN  addFirst(addOperations(d, EachMany(keys, LAMBDA k : CompleteOne(d.to[k], k))),
                 Each(keys, LAMBDA k : CreateOne(d.to[k], k)))

-----------------------------------------------------------------------------
(* Options of the models that stayed.                                      *)

AlterWhere(d, keys, option) ==
    LET changed == {k \in keys : oldState(d, k)[option] # d.to[k][option]}
    IN  addOperations(d, Each(Sorted(changed),
            LAMBDA k : Entry(k, SetOption(d.to[k], option, d.to[k][option]), <<>>)))

generateAlteredOptions(d) ==
    AlterWhere(d, keptAny(d) \cup (d.oldUn \cap d.new) \cup (d.old \cap d.newUn), "managed")
generateAlteredDBTableComment(d) == AlterWhere(d, keptAny(d), "comment")
generateAlteredDBTable(d) == AlterWhere(d, keptAny(d), "table")

-----------------------------------------------------------------------------
(* Fields.                                                                 *)

(* The old field with what it points at under its new name.                *)
Repointed(d, f) ==
    LET new == {k \in DOMAIN d.renamedModels : d.renamedModels[k] = f.to}
    IN  IF new = {} THEN f ELSE [f EXCEPT !.to = CHOOSE k \in new : TRUE]

(* d.left holds the old field keys that createRenamedFields has not used.  *)
RenamedFieldFrom(d, p) ==
    LET new == d.to[p[1]].fields[p[2]]
        was(f) == IF IsRelation(new) THEN Repointed(d, f) ELSE f
    IN  SortedPairs({r \in d.left \ d.newFields : /\ r[1] = p[1]
                                                  /\ was(oldState(d, r[1]).fields[r[2]]) = new
                                                  /\ FieldRenamed(r, p) \in d.yes})

RenameFieldOne(d, p) ==
    LET from == RenamedFieldFrom(d, p)
    IN  IF from = <<>> THEN d
        ELSE [d EXCEPT !.renamedFields = Put(@, p, from[1][2]),
                       !.left = (@ \ {from[1]}) \cup {p},
                       !.renamedOps = Append(@, <<from[1], p>>)]

createRenamedFields(d) ==
    After(("left" :> d.oldFields) @@ (("renamedOps" :> <<>>) @@ d),
          SortedPairs(d.newFields \ d.oldFields), RenameFieldOne)

(* Each element of renamedOps is the pair of the old and the new field.    *)
generateRenamedFields(d) ==
    LET rename(r) == Entry(r[2][1], OnPartTo("RenameField", d.to[r[2][1]], r[1][2], r[2][2]), <<>>)
        renamed   == ToSet(d.renamedOps)
    IN  [addOperations(d, Each(d.renamedOps, rename))
           EXCEPT !.oldFields = (@ \ {r[1] : r \in renamed}) \cup {r[2] : r \in renamed}]

(* A field that needs a value for the rows that are there gets one from    *)
(* the user, for this once.                                                *)
AddOne(d, p) ==
    LET m     == d.to[p[1]]
        f     == m.fields[p[2]]
        keeps == f.null \/ f.default
        def   == IF keeps THEN f ELSE [f EXCEPT !.default = TRUE]
    IN  Entry(p[1], WithField("AddField", m, p[2], def, keeps),
              <<Dep("fieldRemoved", p[1], p[2])>> \o ForeignKeyDep(f))

generateAddedFields(d) ==
    addOperations(d, Each(SortedPairs(d.newFields \ d.oldFields), LAMBDA p : AddOne(d, p)))

RemoveOne(d, p) ==
    Entry(p[1], OnPart("RemoveField", d.to[p[1]], p[2]),
          <<Dep("uniqueAltered", p[1], p[2]), Dep("partRemoved", p[1], p[2])>>)

generateRemovedFields(d) ==
    addOperations(d, Each(SortedPairs(d.oldFields \ d.newFields), LAMBDA p : RemoveOne(d, p)))

(* The new field, pointing where the old one does if only that was renamed.*)
AlteredTo(d, old, new) ==
    LET byModel  == new.to \in DOMAIN d.renamedModels
        byColumn == \E f \in new.toFields : <<new.to, f>> \in DOMAIN d.renamedFields
    IN  IF ~IsRelation(new) \/ ~IsRelation(old) THEN new
        ELSE [new EXCEPT !.to = IF byModel \/ byColumn THEN old.to ELSE @,
                         !.toFields = IF byColumn THEN old.toFields ELSE @]

AlterOne(d, p) ==
    LET m     == d.to[p[1]]
        was   == IF p \in DOMAIN d.renamedFields THEN d.renamedFields[p] ELSE p[2]
        old   == oldState(d, p[1]).fields[was]
        new   == AlteredTo(d, old, m.fields[p[2]])
        asks  == old.null /\ ~new.null /\ ~new.default /\ OneOff \in d.yes
        field == IF asks THEN [new EXCEPT !.default = TRUE] ELSE new
    IN  IF old = new \/ was # p[2] THEN <<>>
        ELSE <<Entry(p[1], WithField("AlterField", m, p[2], field, ~asks), ForeignKeyDep(new))>>

generateAlteredFields(d) ==
    addOperations(d, EachMany(SortedPairs(d.oldFields \cap d.newFields), LAMBDA p : AlterOne(d, p)))

-----------------------------------------------------------------------------
(* Indexes and constraints of the models that stayed, by name.             *)

Changed(a, b) == {n \in DOMAIN a : n \notin DOMAIN b \/ a[n] # b[n]}

(* createAlteredIndexes: <<old, new>> of the indexes that only changed     *)
(* their name, and those that came and went otherwise.                     *)
IndexRenames(d, k) ==
    LET old == oldState(d, k).indexes
        new == d.to[k].indexes
    IN  {<<o, n>> \in Changed(old, new) \X Changed(new, old) : old[o] = new[n] /\ o # n}
IndexesAdded(d, k) ==
    Changed(d.to[k].indexes, oldState(d, k).indexes) \ {r[2] : r \in IndexRenames(d, k)}
IndexesRemoved(d, k) ==
    Changed(oldState(d, k).indexes, d.to[k].indexes) \ {r[1] : r \in IndexRenames(d, k)}

(* createAlteredConstraints: altered when only what the database does not  *)
(* see has changed.                                                        *)
SeenByDatabase(c) == [c EXCEPT !.message = ""]
ConstraintsAltered(d, k) ==
    LET old == oldState(d, k).constraints
        new == d.to[k].constraints
    IN  {n \in Changed(new, old) \cap DOMAIN old : SeenByDatabase(old[n]) = SeenByDatabase(new[n])}
ConstraintsAdded(d, k) ==
    Changed(d.to[k].constraints, oldState(d, k).constraints) \ ConstraintsAltered(d, k)
ConstraintsRemoved(d, k) ==
    Changed(oldState(d, k).constraints, d.to[k].constraints) \ ConstraintsAltered(d, k)

(* For each kept model and each of its Part names: Make gives the operation*)
(* and Deps what it waits for.                                             *)
ForParts(d, Parts(_), Make(_, _), Deps(_, _)) ==
    addOperations(d, Each(SortedPairs(UNION {{k} \X Parts(k) : k \in kept(d)}),
                          LAMBDA p : Entry(p[1], Make(p[1], p[2]), Deps(p[1], p[2]))))

generateRemovedConstraints(d) ==
    ForParts(d, LAMBDA k : ConstraintsRemoved(d, k),
             LAMBDA k, c : OnPart("RemoveConstraint", d.to[k], c), LAMBDA k, c : <<>>)
generateRemovedIndexes(d) ==
    ForParts(d, LAMBDA k : IndexesRemoved(d, k),
             LAMBDA k, i : OnPart("RemoveIndex", d.to[k], i), LAMBDA k, i : <<>>)
generateAddedIndexes(d) ==
    ForParts(d, LAMBDA k : IndexesAdded(d, k),
             LAMBDA k, i : WithDef("AddIndex", d.to[k], i, d.to[k].indexes[i]),
             LAMBDA k, i : RelationDeps(d.to[k]))
generateAddedConstraints(d) ==
    ForParts(d, LAMBDA k : ConstraintsAdded(d, k),
             LAMBDA k, c : WithDef("AddConstraint", d.to[k], c, d.to[k].constraints[c]),
             LAMBDA k, c : RelationDeps(d.to[k]) \o ForeignKeyDep(d.to[k].constraints[c]))
generateAlteredConstraints(d) ==
    ForParts(d, LAMBDA k : ConstraintsAltered(d, k),
             LAMBDA k, c : WithDef("AlterConstraint", d.to[k], c, d.to[k].constraints[c]),
             LAMBDA k, c : RelationDeps(d.to[k]))
generateRenamedIndexes(d) ==
    LET rename(k, r) == Entry(k, OnPartTo("RenameIndex", d.to[k], r[1], r[2]), <<>>)
    IN  addOperations(d, EachMany(Sorted(kept(d)),
            LAMBDA k : Each(SortedPairs(IndexRenames(d, k)), LAMBDA r : rename(k, r))))

-----------------------------------------------------------------------------
(* unique_together, in two steps: down to what stays, up to what is new.   *)

(* alteredUniqueTogether; renamedFieldByOld looks an old name up among the *)
(* new ones.                                                               *)
OldUnique(d, k) ==
    LET name(f) == IF <<k, f>> \in DOMAIN d.renamedFields THEN d.renamedFields[<<k, f>>] ELSE f
    IN  {{name(f) : f \in t} : t \in oldState(d, k).unique}
(* Mutant: setEqual compares the sizes and no more.                        *)
UniqueCountChanged(d) ==
    Sorted({k \in kept(d) : Cardinality(OldUnique(d, k)) # Cardinality(d.to[k].unique)})
UniqueChanged(d) == Sorted({k \in kept(d) : OldUnique(d, k) # d.to[k].unique})
UniqueDeps(d, k) ==
    Each(SelectSeq(Relations(d.to[k]), LAMBDA f : f \in UNION d.to[k].unique),
         LAMBDA f : Created(d.to[k].fields[f].to))
AlterUnique(d, keys, unique) ==
    addOperations(d, Each(keys, LAMBDA k : Entry(k, SetOption(d.to[k], "unique", unique[k]), UniqueDeps(d, k))))

generateRemovedAlteredUniqueTogether(d) ==
    AlterUnique(d, SelectSeq(UniqueChanged(d), LAMBDA k : OldUnique(d, k) # {}),
                [k \in kept(d) |-> d.to[k].unique \cap OldUnique(d, k)])

generateAlteredUniqueTogether(d) ==
    AlterUnique(d, SelectSeq(UniqueChanged(d), LAMBDA k : ~(d.to[k].unique \subseteq OldUnique(d, k))),
                [k \in kept(d) |-> d.to[k].unique])

-----------------------------------------------------------------------------
(* topoSorter: whole sets of operations that are ready, in the order they  *)
(* were added; an operation that waits for two is released by the last.    *)

(* The operations that operation i of the app waits for, with repetitions. *)
Preds(ops, app, i) ==
    LET deps == SelectSeq(ops[i].deps, LAMBDA x : AppOf[x.key] = app)
        pred(x) == SelectSeq([j \in DOMAIN ops |-> j], LAMBDA j : satisfiedBy(x, ops[j].op))
    IN  FlattenSeq([n \in DOMAIN deps |-> pred(deps[n])])

FirstOnly(seq) ==
    SelectSeq([i \in DOMAIN seq |-> i], LAMBDA i : \A j \in 1..(i - 1) : seq[j] # seq[i])

Count(seq, x) == Cardinality({i \in DOMAIN seq : seq[i] = x})

(* The nodes in the order they enter the sorter, and those waiting for j,  *)
(* once for each time they name it.                                        *)
Entered(preds) ==
    LET calls  == EachMany([i \in DOMAIN preds |-> i], LAMBDA i : <<i>> \o preds[i])
    IN  Each(FirstOnly(calls), LAMBDA n : calls[n])
Waiting(preds, j) ==
    EachMany([i \in DOMAIN preds |-> i], LAMBDA i : [n \in 1..Count(preds[i], j) |-> i])

(* g with the nodes that are ready taken out and their successors told.    *)
Release(preds, g) ==
    LET told == EachMany(g.ready, LAMBDA j : Waiting(preds, j))
        last == SelectSeq([i \in DOMAIN told |-> i],
                    LAMBDA i : Count(g.done, told[i]) + Count(SubSeq(told, 1, i), told[i])
                                 = Len(preds[told[i]]))
    IN  [out |-> g.out \o g.ready, ready |-> Each(last, LAMBDA i : told[i]), done |-> g.done \o told]

(* The order of the operations of an app; shorter than ops on a cycle.     *)
TopoOrder(ops, app) ==
    CHOOSE out \in
        {After([out |-> <<>>, ready |-> SelectSeq(Entered(preds), LAMBDA i : preds[i] = <<>>), done |-> <<>>],
               ops, LAMBDA g, turn : Release(preds, g)).out
           : preds \in {[i \in DOMAIN ops |-> Preds(ops, app, i)]}} : TRUE

SortedOps(ops, app) ==
    LET order == TopoOrder(ops, app) IN [i \in DOMAIN order |-> ops[order[i]]]
=============================================================================
