---------------------------- MODULE SchemaEditor ----------------------------
(***************************************************************************)
(* backends/base/editor.go and ddl_references.go: how an operation becomes *)
(* statements, which of them wait for the end of the migration, and what   *)
(* happens to the ones that wait when a table or a column is renamed or    *)
(* dropped before they run.  The steps MySQL and CockroachDB replace are   *)
(* here too, since the shared algorithms call them.                        *)
(*                                                                         *)
(* A model is given as a project state s and a key k.  A field adds to the *)
(* ones of ProjectState type, null, pk, unique, dbDefault and fk, the name *)
(* of its foreign key; a constraint has a kind ("check", "unique",         *)
(* "partial" for a conditional unique one, "fk") and columns.  A column is *)
(* named after its field.  Comments, collations and the spelling of        *)
(* statements are left out.                                                *)
(***************************************************************************)
EXTENDS Catalog

-----------------------------------------------------------------------------
(* Features.                                                               *)

SupportsForeignKeys(w) == w.vendor # "clickhouse"
CanCreateInlineFK(w) == w.vendor = "sqlite"
CanRenameIndex(w) == w.vendor \notin {"sqlite", "clickhouse"}
SupportsPartialIndexes(w) == w.vendor \in {"postgresql", "cockroachdb", "sqlite", "mssql"}
InterpretsEmptyStringsAsNulls(w) == w.vendor = "oracle"

-----------------------------------------------------------------------------
(* Deferred statements: ddl_references.go.                                 *)

Defer(w, st) == IF w.error THEN w ELSE [w EXCEPT !.deferred = Append(@, st)]
DeferAll(w, sts) == IF w.error THEN w ELSE [w EXCEPT !.deferred = @ \o SetToSeq(sts)]

RemoveDeferred(w, Match(_)) ==
    IF w.error THEN w ELSE [w EXCEPT !.deferred = SelectSeq(@, LAMBDA st : ~Match(st))]

(* A pending creation of the same foreign key is replaced.                 *)
DeferFK(w, st) ==
    Defer(RemoveDeferred(w, LAMBDA d : d.kind = st.kind /\ d.table = st.table /\ d.name = st.name), st)

DeferFKs(w, sts) ==
    DeferAll(RemoveDeferred(w, LAMBDA d : \E st \in sts :
                d.kind = st.kind /\ d.table = st.table /\ d.name = st.name), sts)

(* The queued statements run in the order they were queued.                *)
RunDeferred(w) ==
    LET run[i \in 0..Len(w.deferred)] ==
            IF i = 0 THEN [w EXCEPT !.deferred = <<>>] ELSE AddObject(run[i - 1], w.deferred[i])
    IN  IF w.error THEN w ELSE run[Len(w.deferred)]

ReferencesTable(st, t) == t \in {st.table, st.to}
StatementNames(st, t, c) == Covers(st, t, c) \/ PointsAt(st, t, c)

MapDeferred(w, f(_)) ==
    IF w.error THEN w ELSE [w EXCEPT !.deferred = [i \in DOMAIN @ |-> f(@[i])]]

RenameTableReferences(w, old, new) ==
    MapDeferred(w, LAMBDA st : [st EXCEPT !.table = Swap(@, old, new), !.to = Swap(@, old, new)])

(* Mutant: a foreign key that waits keeps the old name of its target.      *)
RenameOwnColumns(w, t, old, new) ==
    MapDeferred(w, LAMBDA st : [st EXCEPT !.columns = IF st.table = t THEN RenameIn(@, old, new) ELSE @])

RenameColumnReferences(w, t, old, new) ==
    MapDeferred(w, LAMBDA st : [st EXCEPT
        !.columns   = IF st.table = t THEN RenameIn(@, old, new) ELSE @,
        !.toColumns = IF st.to = t THEN RenameIn(@, old, new) ELSE @])

-----------------------------------------------------------------------------
(* What a field, a unique set, an index and a constraint become.           *)

PK(m) == {c \in DOMAIN m.fields : m.fields[c].pk}

(* The columns a field or a key points at: the target's primary key unless *)
(* it names some.                                                          *)
RemoteColumns(s, x) == IF x.toFields = {} THEN PK(s[x.to]) ELSE x.toFields

ForeignKey(s, k, name, columns, x) ==
    [Object(s[k].table, "fk", name, columns) EXCEPT
        !.to = s[x.to].table, !.toColumns = RemoteColumns(s, x)]

CreateFKSQL(s, k, c, f) == ForeignKey(s, k, f.fk, {c}, f)
CompositeFKSQL(s, k, name) ==
    LET x == s[k].constraints[name] IN ForeignKey(s, k, name, x.columns, x)
CreateUniqueFieldSQL(t, c) == Object(t, "unique", "uni", {c})
CreateUniqueTogetherSQL(t, columns) == Object(t, "unique", "uniq", columns)
CreatePrimaryKeySQL(t, columns) == Object(t, "pk", "pk", columns)
CreateIndexSQL(t, name, columns) == Object(t, "index", name, columns)

CreateConstraintSQL(s, k, name) ==
    LET x == s[k].constraints[name]
    IN  IF x.kind = "fk" THEN CompositeFKSQL(s, k, name) ELSE Object(s[k].table, x.kind, name, x.columns)

(* Unsupported constraints are skipped.                                    *)
ConstraintSupported(w, x) ==
    /\ x.kind = "fk" => SupportsForeignKeys(w)
    /\ x.kind = "partial" => SupportsPartialIndexes(w)

(* An auto-increment column is an integer that counts by itself.           *)
DataType(type) == IF type = "auto" THEN "int" ELSE type

(* A declared database default stays; a default of the program's is there  *)
(* only for the rows that a new column finds.                              *)
DefaultOf(f, includeDefault) ==
    CASE f.dbDefault -> "db"
      [] ~f.dbDefault /\ includeDefault /\ f.default -> "one-off"
      [] OTHER -> "none"

(* ClickHouse has NULL in the type, and nothing that counts.               *)
ClickHouseColumn(f, includeDefault) ==
    [type |-> DataType(f.type), null |-> TRUE, nulls |-> f.null,
     default |-> IF f.type = "auto" THEN "none" ELSE DefaultOf(f, includeDefault)]

ColumnSQL(w, f, includeDefault) ==
    IF w.vendor = "clickhouse" THEN ClickHouseColumn(f, includeDefault)
    ELSE [type    |-> DataType(f.type),
          null    |-> f.null \/ (InterpretsEmptyStringsAsNulls(w) /\ f.type = "text" /\ ~f.pk),
          nulls   |-> f.null,
          default |-> IF f.type = "auto" THEN "auto" ELSE DefaultOf(f, includeDefault)]

ForeignKeys(m) == {c \in DOMAIN m.fields : m.fields[c].to # None}
ConstraintsOf(m, kinds) == {n \in DOMAIN m.constraints : m.constraints[n].kind \in kinds}

-----------------------------------------------------------------------------
(* CreateModel and DeleteModel.  Everything that needs another table, and  *)
(* what CREATE TABLE cannot say, waits for the end.                        *)

InlineObjects(w, s, k) ==
    LET m == s[k]
        t == m.table
    IN  {CreateUniqueFieldSQL(t, c) : c \in {d \in DOMAIN m.fields : m.fields[d].unique /\ ~m.fields[d].pk}}
          \cup (IF PK(m) = {} THEN {} ELSE {CreatePrimaryKeySQL(t, PK(m))})
          \cup {CreateConstraintSQL(s, k, n) : n \in ConstraintsOf(m, {"check", "unique"})}

ForeignKeyObjects(w, s, k) ==
    IF ~SupportsForeignKeys(w) THEN {}
    ELSE {CreateFKSQL(s, k, c, s[k].fields[c]) : c \in ForeignKeys(s[k])}
           \cup {CompositeFKSQL(s, k, n) : n \in ConstraintsOf(s[k], {"fk"})}

DeferredUnique(w, s, k) ==
    {CreateUniqueTogetherSQL(s[k].table, u) : u \in s[k].unique}
      \cup {CreateConstraintSQL(s, k, n) :
              n \in {c \in ConstraintsOf(s[k], {"partial"}) : SupportsPartialIndexes(w)}}

DeferredIndexes(s, k) ==
    {CreateIndexSQL(s[k].table, n, s[k].indexes[n]) : n \in DOMAIN s[k].indexes}

CreateModel(w, s, k) ==
    LET m       == s[k]
        inline  == IF CanCreateInlineFK(w) THEN ForeignKeyObjects(w, s, k) ELSE {}
        waiting == ForeignKeyObjects(w, s, k) \ inline
        queued  == DeferFKs(DeferAll(w, DeferredUnique(w, s, k)), waiting)
        created == CreateTable(queued, m.table,
                               [c \in DOMAIN m.fields |-> ColumnSQL(w, m.fields[c], FALSE)],
                               InlineObjects(w, s, k) \cup inline)
    IN  DeferAll(created, DeferredIndexes(s, k))

DeleteModel(w, s, k) ==
    LET t == s[k].table
    IN  RemoveDeferred(DropTable(w, t), LAMBDA st : ReferencesTable(st, t))

-----------------------------------------------------------------------------
(* Names of what is there, by introspection; queued creations are not.     *)

ConstraintNames(w, t, columns, kinds) ==
    {o \in w.objects : o.table = t /\ o.columns = columns /\ o.kind \in kinds}

Declared(m) == DOMAIN m.constraints \cup DOMAIN m.indexes

(* ExecDrop; MySQL drops the index it made for a foreign key too, unless   *)
(* another foreign key starts with the same column.                        *)
OwnIndexesOf(w, objects) ==
    {OwnIndex(fk) : fk \in {o \in objects : o.kind = "fk" /\
        ~\E p \in w.objects \ {o} :
            p.kind = "fk" /\ p.table = o.table /\ First(p.columns) = First(o.columns)}}

ExecDrop(w, objects) ==
    DropObjects(DropObjects(w, objects),
                IF w.vendor \in MySQLs THEN OwnIndexesOf(w, objects) \cap w.objects ELSE {})

-----------------------------------------------------------------------------
(* Indexes.                                                                *)

AddIndex(w, m, name, columns) == AddObject(w, CreateIndexSQL(m.table, name, columns))

(* The creation, if it is still queued, is forgotten; the drop is sent all *)
(* the same, and PostgreSQL's says IF EXISTS.                              *)
ForgetIndex(w, t, name) == RemoveDeferred(w, LAMBDA st : st.table = t /\ st.name = name)

DropsIfExists(w) == w.vendor \in {"postgresql", "cockroachdb"}
DropIndex(w, o) ==
    IF DropsIfExists(w) /\ o \notin w.objects THEN w ELSE DropObjects(w, {o})

(* createMissingFKIndex: the foreign key of the first column keeps an      *)
(* index of its own when its last one is about to go.                      *)
CreateMissingFKIndex(w, m, columns) ==
    LET first == First(columns)
        led   == {o \in w.objects : o.table = m.table /\ o.kind \in Indexed /\ First(o.columns) = first}
    IN  IF w.vendor \in MySQLs /\ first \in ForeignKeys(m) /\ Cardinality(led) = 1
        THEN AddObject(w, CreateIndexSQL(m.table, "fkidx", {first}))
        ELSE w

RemoveIndex(w, m, name, columns) ==
    DropIndex(ForgetIndex(CreateMissingFKIndex(w, m, columns), m.table, name),
              CreateIndexSQL(m.table, name, columns))

RenameIndexIn(w, m, old, new, columns) ==
    IF CanRenameIndex(w) THEN RenameObject(w, CreateIndexSQL(m.table, old, columns), new)
    ELSE AddIndex(RemoveIndex(w, m, old, columns), m, new, columns)

-----------------------------------------------------------------------------
(* Constraints.                                                            *)

AddConstraint(w, s, k, name) ==
    IF ConstraintSupported(w, s[k].constraints[name])
    THEN AddObject(w, CreateConstraintSQL(s, k, name)) ELSE w

DropConstraint(w, o) ==
    CASE o.kind = "fk"      -> ExecDrop(w, {o})
      [] o.kind = "partial" -> DropIndex(ForgetIndex(w, o.table, o.name), o)
      [] OTHER              -> DropObjects(w, {o})

(* s is the state that has the constraint.                                 *)
RemoveConstraint(w, s, k, name) ==
    LET x == s[k].constraints[name]
        o == CreateConstraintSQL(s, k, name)
    IN  CASE ~ConstraintSupported(w, x) -> w
          [] x.kind = "unique" -> DropConstraint(CreateMissingFKIndex(w, s[k], x.columns), o)
          [] OTHER             -> DropConstraint(w, o)

(* DeleteComposedIndex: exactly one unique constraint over the columns     *)
(* that no field, index or constraint of the model declares.               *)
DeleteComposedIndex(w, m, columns) ==
    LET found(v) == {o \in ConstraintNames(v, m.table, columns, {"unique", "partial"}) :
                       o.name \notin Declared(m) \cup {"uni"}}
        dropped(v) == IF Cardinality(found(v)) = 1 \/ v.error THEN ExecDrop(v, found(v)) ELSE Fail(v)
    IN  dropped(CreateMissingFKIndex(w, m, columns))

AlterUniqueTogether(w, m, old, new) ==
    LET deleted[gone \in SUBSET (old \ new)] ==
            IF gone = {} THEN w
            ELSE LET u == CHOOSE x \in gone : TRUE
                 IN  DeleteComposedIndex(deleted[gone \ {u}], m, u)
        added[come \in SUBSET (new \ old)] ==
            IF come = {} THEN deleted[old \ new]
            ELSE LET u == CHOOSE x \in come : TRUE
                 IN  AddObject(added[come \ {u}], CreateUniqueTogetherSQL(m.table, u))
    IN  added[new \ old]

AlterDBTable(w, old, new) ==
    IF old = new THEN w ELSE RenameTableReferences(RenameTable(w, old, new), old, new)

-----------------------------------------------------------------------------
(* Fields.                                                                 *)

(* The rows are filled through a default that is dropped again; MySQL      *)
(* takes none for a text column and fills it with an UPDATE.               *)
SkipDefault(w, f) == w.vendor \in MySQLs /\ f.type = "text"

(* Mutant: the default that filled the rows is left behind.                *)
AddFieldKeepsDefault(w, s, k, c, f) ==
    LET t     == s[k].table
        added == AddColumn(IF f.to = None THEN w ELSE DeferFK(w, CreateFKSQL(s, k, c, f)), t, c, ColumnSQL(w, f, TRUE))
    IN  IF f.unique /\ ~f.pk THEN AddObject(added, CreateUniqueFieldSQL(t, c)) ELSE added

AddField(w, s, k, c, f) ==
    LET t         == s[k].table
        queued    == IF f.to # None /\ SupportsForeignKeys(w) THEN DeferFK(w, CreateFKSQL(s, k, c, f)) ELSE w
        unique(v) == IF f.unique /\ ~f.pk THEN AddObject(v, CreateUniqueFieldSQL(t, c)) ELSE v
        settle(v) == CASE f.dbDefault \/ ~f.default -> v
                       [] SkipDefault(w, f)         -> FillColumn(v, t, c)
                       [] OTHER                     -> SetDefault(v, t, c, "none")
    IN  settle(unique(AddColumn(queued, t, c, ColumnSQL(w, f, ~SkipDefault(w, f)))))

RemoveFieldFrom(w, m, c) ==
    LET keys    == IF m.fields[c].to # None /\ SupportsForeignKeys(w)
                   THEN ConstraintNames(w, m.table, {c}, {"fk"}) ELSE {}
        dropped == DropColumn(ExecDrop(w, keys), m.table, c)
    IN  RemoveDeferred(dropped, LAMBDA st : StatementNames(st, m.table, c))

-----------------------------------------------------------------------------
(* AlterField.  old and new are columns, f the field as it is to be, its   *)
(* one-off default included; from and to are the states around the         *)
(* operation.                                                              *)

SameRemote(from, to, of, f) ==
    of.to # None /\ f.to # None /\ from[of.to].table = to[f.to].table

FieldShouldBeAltered(from, to, k, old, new, f) ==
    LET of == from[k].fields[old]
    IN  \/ old # new
        \/ IF SameRemote(from, to, of, f) THEN [of EXCEPT !.to = f.to] # f ELSE of # f

(* The fields of state s that point at column c of model k.                *)
RelatedObjects(s, k, c) ==
    UNION {{<<j, d>> : d \in {e \in DOMAIN s[j].fields :
                s[j].fields[e].to = k /\ RemoteColumns(s, s[j].fields[e]) = {c}}} : j \in DOMAIN s}

(* The table-level keys over a column of model k, and those that point at  *)
(* one.                                                                    *)
CompositeFKsOn(m, columns) ==
    {n \in ConstraintsOf(m, {"fk"}) : m.constraints[n].columns \cap columns # {}}

CompositeFKsReferencing(s, k, c) ==
    UNION {{<<j, n>> : n \in {x \in ConstraintsOf(s[j], {"fk"}) :
                s[j].constraints[x].to = k /\ c \in s[j].constraints[x].toFields}} : j \in DOMAIN s}

(* Drops by name fail for a key that is not there.                         *)
DropFKNames(w, t, names) ==
    LET found == {o \in w.objects : o.table = t /\ o.kind = "fk" /\ o.name \in names}
    IN  Try(w, {o.name : o \in found} = names, ExecDrop(w, found))

UniqueShouldBeAdded(of, f) == ~f.pk /\ f.unique /\ (~of.unique \/ of.pk)

PrimaryKeyOf(w, t) == {o \in w.objects : o.table = t /\ o.kind = "pk"}

DropPrimaryKey(w, t) == ExecDrop(w, PrimaryKeyOf(w, t))

(* CockroachDB has no table without a primary key: the key is moved, and   *)
(* the index over the old one, which that leaves behind, is dropped.       *)
MovePrimaryKey(w, t, columns) ==
    Try(w, columns # {},
        [w EXCEPT !.objects = (@ \ PrimaryKeyOf(w, t)) \cup {CreatePrimaryKeySQL(t, columns)}])

DeletePrimaryKey(w, t, left) ==
    IF w.vendor = "cockroachdb" THEN MovePrimaryKey(w, t, left) ELSE DropPrimaryKey(w, t)

AlterPrimaryKey(w, t, columns) ==
    IF w.vendor = "cockroachdb" THEN MovePrimaryKey(w, t, columns)
    ELSE AddObject(DropPrimaryKey(w, t), CreatePrimaryKeySQL(t, columns))

(* TiDB stores the rows under a single integer key, which keeps its type.  *)
IsClusteredIntegerPK(m, f) == f.pk /\ DataType(f.type) = "int" /\ Cardinality(PK(m)) = 1

(* A type alone.                                                           *)
Retyped(w, t, c, of, f) ==
    IF DataType(of.type) = DataType(f.type) THEN w ELSE AlterType(w, t, c, DataType(f.type))

(* Into and out of auto-increment the type may stay: a sequence, an        *)
(* identity or a default comes or goes.                                    *)
SerialDefault(w, t, c, of, f) ==
    CASE f.type = "auto" -> SetDefault(w, t, c, "auto")
      [] of.type = "auto" -> SetDefault(w, t, c, "none")
      [] OTHER -> w

(* MySQL's MODIFY states the whole column: the default that is there and   *)
(* NULL as before are said again.                                          *)
Modified(w, t, c, of, f) ==
    LET typed == Retyped(w, t, c, of, f)
    IN  SetDefault(typed, t, c, IF f.type = "auto" THEN "auto" ELSE DefaultOf(of, FALSE))

(* Oracle takes the identity off before it looks at the type.              *)
WithoutIdentity(w, t, c, of, f) ==
    LET plain == IF of.type = "auto" THEN SetDefault(w, t, c, "none") ELSE w
    IN  Retyped(plain, t, c, of, f)

AlterColumnType(w, m, c, of, f) ==
    LET t == m.table
    IN  CASE f.type = of.type -> w
          [] w.vendor = "tidb" /\ IsClusteredIntegerPK(m, of) /\ IsClusteredIntegerPK(m, f) -> Refuse(w)
          [] w.vendor \in MySQLs -> Modified(w, t, c, of, f)
          [] w.vendor = "oracle" -> WithoutIdentity(w, t, c, of, f)
          [] OTHER -> SerialDefault(Retyped(w, t, c, of, f), t, c, of, f)

AlterColumnDatabaseDefault(w, t, c, of, f) ==
    CASE f.dbDefault /\ ~of.dbDefault -> SetDefault(w, t, c, "db")
      [] of.dbDefault /\ ~f.dbDefault -> SetDefault(w, t, c, "none")
      [] OTHER -> w

(* MySQL's MODIFY drops a default that is not said again.                  *)
ModifiedNull(w, t, c, f) ==
    SetDefault(AlterNull(w, t, c, f.null), t, c, IF f.type = "auto" THEN "auto" ELSE DefaultOf(f, FALSE))

(* Oracle takes no NULL for a column that has it, nor NOT NULL.            *)
NullChanges(w, t, c, f) == HasColumns(w, t, {c}) => w.tables[t][c].null # f.null

(* Empty strings are NULLs on Oracle, whose text columns all take NULL;    *)
(* ClickHouse has the matter in the type.                                  *)
AlterColumnNull(w, t, c, f) ==
    CASE w.vendor = "clickhouse" \/ (InterpretsEmptyStringsAsNulls(w) /\ f.type = "text") -> w
      [] w.vendor = "oracle" /\ ~NullChanges(w, t, c, f) -> w
      [] w.vendor \in MySQLs -> ModifiedNull(w, t, c, f)
      [] OTHER -> AlterNull(w, t, c, f.null)

(* The one-off default for the rows, and its end.                          *)
AlterColumnDefault(w, t, c, drop) == SetDefault(w, t, c, IF drop THEN "none" ELSE "one-off")

(* The column itself: its type, its defaults and NULL, with the rows       *)
(* filled before it refuses NULL.                                          *)
NeedsDatabaseDefault(w, of, f) ==
    of.null /\ ~f.null /\ ~f.dbDefault /\ f.default /\ ~of.default /\ ~SkipDefault(w, f)

AlterColumn(w, m, c, of, f) ==
    LET t         == m.table
        fourWay   == of.null /\ ~f.null /\ (f.default \/ f.dbDefault)
        lent(v)   == IF NeedsDatabaseDefault(w, of, f) THEN AlterColumnDefault(v, t, c, FALSE) ELSE v
        filled(v) == IF fourWay THEN FillColumn(v, t, c) ELSE v
        nulled(v) == IF of.null # f.null THEN AlterColumnNull(v, t, c, f) ELSE v
    IN  nulled(filled(lent(AlterColumnDatabaseDefault(AlterColumnType(w, m, c, of, f), t, c, of, f))))

(* PerformAlterField: what hangs on the column goes first and comes back,  *)
(* for the foreign keys at the end of the migration.  What was dropped is  *)
(* kept: the table-level keys of the model and of others, the column's own *)
(* key and the fields that point at the column.                            *)
OwnKeys(w, t, c, of) ==
    IF SupportsForeignKeys(w) /\ of.to # None THEN ConstraintNames(w, t, {c}, {"fk"}) ELSE {}

DropUniqueField(w, m, c, of, f) ==
    IF of.unique /\ (~f.unique \/ (~of.pk /\ f.pk))
      THEN ExecDrop(w, {o \in ConstraintNames(w, m.table, {c}, {"unique", "partial"}) : o.name \notin Declared(m)})
      ELSE w

DropIncoming(w, to, pointing, rels) ==
    LET relKeys   == UNION {ConstraintNames(w, to[r[1]].table, {r[2]}, {"fk"}) : r \in rels}
        pointKeys == {o \in w.objects : o.kind = "fk" /\ \E r \in pointing : o.table = to[r[1]].table /\ o.name = r[2]}
    IN  Try(w, Cardinality(pointKeys) = Cardinality(pointing), ExecDrop(w, pointKeys \cup relKeys))

(* What hangs on the column goes; what is to come back is remembered.      *)
DropDependents(w, from, to, k, old, new, of, f) ==
    LET m         == from[k]
        fks       == SupportsForeignKeys(w)
        composite == IF fks THEN CompositeFKsOn(m, {old, new}) ELSE {}
        incoming  == fks /\ ((of.pk /\ f.pk) \/ (of.unique /\ f.unique)) /\ of.type # f.type
        pointing  == IF incoming
                     THEN {r \in CompositeFKsReferencing(to, k, new) : ~(r[1] = k /\ r[2] \in composite)} ELSE {}
        rels      == IF incoming THEN RelatedObjects(to, k, new) ELSE {}
        rest(v, own) ==
            [w |-> DropIncoming(DropUniqueField(ExecDrop(v, own), m, old, of, f), to, pointing, rels),
             composite |-> composite, own |-> own, pointing |-> pointing, rels |-> rels]
        keyed(v) == rest(v, OwnKeys(v, m.table, old, of))
    IN  keyed(DropFKNames(w, m.table, composite))

(* The primary key is taken from the column or extended to it.             *)
AlterKeys(w, m, to, k, c, of, f) ==
    LET t          == m.table
        keyless    == IF of.pk /\ ~f.pk THEN DeletePrimaryKey(w, t, PK(to[k])) ELSE w
        unique(v)  == IF UniqueShouldBeAdded(of, f) THEN AddObject(v, CreateUniqueFieldSQL(t, c)) ELSE v
        primary(v) == IF of.pk \/ ~f.pk THEN v
                      ELSE IF PK(m) = {} THEN AddObject(v, CreatePrimaryKeySQL(t, PK(to[k])))
                      ELSE AlterPrimaryKey(v, t, PK(to[k]))
    IN  primary(unique(keyless))

RecreateForeignKeys(w, d, from, to, k, c, of, f) ==
    LET changed == d.own # {} \/ of.to = None \/ of.fk # f.fk \/ of.toFields # f.toFields
        own     == IF SupportsForeignKeys(w) /\ f.to # None /\ changed THEN DeferFK(w, CreateFKSQL(to, k, c, f)) ELSE w
        rels    == DeferFKs(own, {CreateFKSQL(to, r[1], r[2], to[r[1]].fields[r[2]]) : r \in d.rels})
    IN  DeferFKs(rels, {CompositeFKSQL(from, k, n) : n \in d.composite}
                       \cup {CompositeFKSQL(to, r[1], r[2]) : r \in d.pointing})

BasePerformAlterField(w, from, to, k, old, new, of, f) ==
    LET m          == from[k]
        t          == m.table
        renamed(v) == IF old = new THEN v ELSE RenameColumnReferences(RenameColumn(v, t, old, new), t, old, new)
        altered(v) == AlterKeys(AlterColumn(renamed(v), m, new, of, f), m, to, k, new, of, f)
        whole(d)   == RecreateForeignKeys(altered(d.w), d, from, to, k, new, of, f)
        taken(v)   == IF NeedsDatabaseDefault(w, of, f) THEN AlterColumnDefault(v, t, new, TRUE) ELSE v
    IN  taken(whole(DropDependents(w, from, to, k, old, new, of, f)))
=============================================================================
