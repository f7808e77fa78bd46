---------------------------- MODULE SqliteEditor ----------------------------
(***************************************************************************)
(* backends/sqlite3/sqlite3.go: what ALTER TABLE cannot do is done by      *)
(* building the table anew beside the old one, copying the rows, dropping  *)
(* the old one and renaming the new one into its place.                    *)
(***************************************************************************)
EXTENDS SchemaEditor

(* Keys are not looked at while a migration runs, and all of them before   *)
(* it is committed: each has to find the key it points at.                 *)
Dangles(w, o) ==
    ~(/\ HasColumns(w, o.to, o.toColumns)
      /\ \E k \in w.objects : k.table = o.to /\ k.kind \in {"pk", "unique"} /\ k.columns = o.toColumns)

CheckConstraints(w) == Try(w, ~\E o \in w.objects : o.kind = "fk" /\ Dangles(w, o), w)

SqliteFinish(w) == CheckConstraints(RunDeferred(w))

(* remakeTable.  m is the model as it is to be, nulls the columns that     *)
(* receive a NULL from the copy.  Whatever was queued, for other tables    *)
(* too, runs at once.                                                      *)
RemakeTable(w, s, k, m, nulls) ==
    LET t       == s[k].table
        temp    == "new__" \o t
        created == CreateModel(w, [s EXCEPT ![k] = [m EXCEPT !.table = temp]], k)
        copy(v) == Try(v, \A c \in nulls : m.fields[c].null,
                       [v EXCEPT !.tables[temp] = [c \in DOMAIN @ |-> [@[c] EXCEPT !.nulls = c \in nulls]]])
    IN  RunDeferred(AlterDBTable(DeleteModel(copy(created), s, k), temp, t))

NullsOf(w, t) == {c \in DOMAIN w.tables[t] : w.tables[t][c].nulls}

(* A field that is or becomes part of the primary key is all of it.        *)
OnlyKey(m, c) == [m EXCEPT !.fields = [d \in DOMAIN @ |-> IF d = c THEN @[d] ELSE [@[d] EXCEPT !.pk = FALSE]]]

RemakeWithField(w, s, k, c, f) ==
    LET m == IF f.pk THEN OnlyKey(s[k], c) ELSE s[k]
    IN  RemakeTable(w, s, k, [m EXCEPT !.fields = Put(@, c, f)],
                    NullsOf(w, s[k].table) \cup (IF f.default \/ f.dbDefault THEN {} ELSE {c}))

(* Indexes over the field go with it, unique sets and constraints do not.  *)
RemakeWithoutField(w, s, k, c) ==
    LET m == s[k]
    IN  RemakeTable(w, s, k,
            [m EXCEPT !.fields  = Drop(@, c),
                      !.indexes = Restrict(@, {n \in DOMAIN @ : c \notin @[n]})],
            NullsOf(w, m.table) \ {c})

(* The field in its place and under its new name; unique sets, indexes and *)
(* the keys that point back at the table follow, constraints do not.       *)
RemakeAltered(w, s, k, old, new, f) ==
    LET in(S)     == RenameIn(S, old, new)
        of        == s[k].fields[old]
        back(x)   == IF x.to = k THEN [x EXCEPT !.toFields = in(@)] ELSE x
        m         == [s[k] EXCEPT
                        !.fields  = LET g == Put(Drop(@, old), new, f) IN [d \in DOMAIN g |-> back(g[d])],
                        !.unique  = {in(u) : u \in @},
                        !.indexes = [n \in DOMAIN @ |-> in(@[n])]]
        nulls     == NullsOf(w, m.table)
        coalesced == of.null /\ ~f.null /\ (f.default \/ f.dbDefault)
    IN  RemakeTable(w, s, k, IF f.pk THEN OnlyKey(m, new) ELSE m,
                    (nulls \ {old}) \cup (IF old \in nulls /\ ~coalesced THEN {new} ELSE {}))

(* A database default is taken to be a literal, which ADD COLUMN accepts.  *)
SqliteAddField(w, s, k, c, f) ==
    IF f.pk \/ f.unique \/ ~f.null \/ f.default \/ f.to # None
    THEN RemakeWithField(w, s, k, c, f) ELSE AddField(w, s, k, c, f)

ColumnIsIndexed(m, c) == c \in UNION (Range(m.indexes) \cup m.unique)
ColumnInConstraint(m, c) == \E x \in Range(m.constraints) : c \in x.columns

SqliteRemoveField(w, s, k, c) ==
    LET f == s[k].fields[c]
    IN  IF f.pk \/ f.unique \/ f.to # None \/ ColumnIsIndexed(s[k], c) \/ ColumnInConstraint(s[k], c)
        THEN RemakeWithoutField(w, s, k, c) ELSE RemoveFieldFrom(w, s[k], c)

(* A name alone is changed by RENAME COLUMN, which queued statements do    *)
(* not learn of.                                                           *)
SqlitePerformAlterField(w, from, to, k, old, new, f) ==
    LET of      == from[k].fields[old]
        rels    == IF (f.unique \/ f.pk) /\ of.type # f.type
                   THEN {r[1] : r \in RelatedObjects(to, k, new)} \ {k} ELSE {}
        follow[js \in SUBSET rels] ==
            IF js = {} THEN RemakeAltered(w, from, k, old, new, f)
            ELSE LET j == CHOOSE x \in js : TRUE
                 IN  RemakeTable(follow[js \ {j}], to, j, to[j], NullsOf(w, to[j].table))
    IN  IF old # new /\ of.to = None /\ f.to = None /\ ColumnSQL(w, of, FALSE) = ColumnSQL(w, f, FALSE)
        THEN RenameColumn(w, from[k].table, old, new) ELSE follow[rels]

(* s is the state after the operation, as the code has it.                 *)
SqliteRemakes(x) == x.kind # "partial"
SqliteConstraint(w, s, k) == RemakeTable(w, s, k, s[k], NullsOf(w, s[k].table))
=============================================================================
