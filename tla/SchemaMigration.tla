--------------------------- MODULE SchemaMigration ---------------------------
(***************************************************************************)
(* A migration's operations on a live database: DatabaseForwards and       *)
(* DatabaseBackwards of migrations/op_models.go and op_fields.go, driven   *)
(* through the backend's schema editor, one operation at a time, with the  *)
(* deferred statements run when the migration finishes.  Migrations are    *)
(* applied one after the other, and the last one may be unapplied.         *)
(***************************************************************************)
EXTENDS SqliteEditor, BackendEditors, Operations

CONSTANTS
    Vendors,       \* the backends
    Projects,      \* the project states to start from
    Offered(_),    \* the operations written for a state
    Avoided,       \* the flaws to keep clear of, by name
    MaxOps         \* bound: operations in all

VARIABLES
    project,       \* the project state the executor has reached
    work,          \* the schema editor and its database: see Catalog
    log,           \* the operations of the migration, each with the state before it
    phase,         \* "idle", "forwards" or "backwards"
    left           \* operations that may still be written

vars == <<project, work, log, phase, left>>

-----------------------------------------------------------------------------
(* The schema editor a vendor has.                                         *)

EditorCreateModel(w, s, k) ==
    IF w.vendor = "clickhouse" THEN ClickHouseCreateModel(w, s, k) ELSE CreateModel(w, s, k)

EditorDeleteModel(w, s, k) ==
    IF w.vendor = "mssql" THEN MssqlDeleteModel(w, s, k) ELSE DeleteModel(w, s, k)

EditorAddField(w, s, k, c, f) ==
    CASE w.vendor = "sqlite"     -> SqliteAddField(w, s, k, c, f)
      [] w.vendor = "clickhouse" -> ClickHouseAddField(w, s, k, c, f)
      [] OTHER                   -> AddField(w, s, k, c, f)

EditorRemoveField(w, s, k, c) ==
    CASE w.vendor = "sqlite"     -> SqliteRemoveField(w, s, k, c)
      [] w.vendor = "mssql"      -> MssqlRemoveField(w, s[k], c)
      [] w.vendor = "oracle"     -> OracleRemoveField(w, s[k], c)
      [] w.vendor = "clickhouse" -> ClickHouseRemoveField(w, s[k], c)
      [] OTHER                   -> RemoveFieldFrom(w, s[k], c)

PerformAlterField(w, from, to, k, old, new, f) ==
    CASE w.vendor = "sqlite"     -> SqlitePerformAlterField(w, from, to, k, old, new, f)
      [] w.vendor = "mssql"      -> MssqlPerformAlterField(w, from, to, k, old, new, f)
      [] w.vendor = "clickhouse" -> ClickHousePerformAlterField(w, from, to, k, old, new, f)
      [] OTHER                   -> BasePerformAlterField(w, from, to, k, old, new, from[k].fields[old], f)

AlterField(w, from, to, k, old, new, f) ==
    IF w.vendor = "oracle" THEN OracleAlterField(w, from, to, k, old, new, f)
    ELSE IF FieldShouldBeAltered(from, to, k, old, new, f) THEN PerformAlterField(w, from, to, k, old, new, f)
    ELSE w

EditorAddIndex(w, m, name, columns) ==
    IF w.vendor = "clickhouse" /\ name \notin Typed THEN Refuse(w) ELSE AddIndex(w, m, name, columns)

EditorRenameIndex(w, m, old, new, columns) ==
    IF w.vendor = "clickhouse" THEN Refuse(w) ELSE RenameIndexIn(w, m, old, new, columns)

EditorAlterUniqueTogether(w, m, old, new) ==
    IF w.vendor = "clickhouse" /\ old \cup new # {} THEN Refuse(w) ELSE AlterUniqueTogether(w, m, old, new)

(* has is the state that has the constraint, to the one after the step.    *)
EditorAddConstraint(w, to, k, name) ==
    LET x == to[k].constraints[name]
    IN  CASE w.vendor = "sqlite" /\ SqliteRemakes(x)        -> SqliteConstraint(w, to, k)
          [] w.vendor = "clickhouse" /\ ~CheckConstraint(x) -> Refuse(w)
          [] OTHER                                          -> AddConstraint(w, to, k, name)

EditorRemoveConstraint(w, has, to, k, name) ==
    IF w.vendor = "sqlite" /\ SqliteRemakes(has[k].constraints[name])
    THEN SqliteConstraint(w, to, k) ELSE RemoveConstraint(w, has, k, name)

-----------------------------------------------------------------------------
(* DatabaseForwards, from the state before the operation to the one after, *)
(* and DatabaseBackwards, the other way.                                   *)

(* The default a field is altered or added with, kept in the state or not. *)
WithDefault(op, f) == IF op.preserve THEN f ELSE [f EXCEPT !.default = op.def.default]

(* renameModelDB: the table keeps its name, and the foreign keys that      *)
(* point at it are altered if they are to be.                              *)
RenameModelDB(w, from, to, old, new) ==
    LET rels == UNION {{<<j, c>> : c \in {d \in ForeignKeys(from[j]) : from[j].fields[d].to = old}} :
                         j \in DOMAIN from \ {old}}
        altered[rs \in SUBSET rels] ==
            IF rs = {} THEN AlterDBTable(w, from[old].table, to[new].table)
            ELSE LET r == CHOOSE x \in rs : TRUE
                 IN  AlterField(altered[rs \ {r}], from, to, r[1], r[2], r[2], to[r[1]].fields[r[2]])
    IN  altered[rels]

TableAltered(w, k, from, to) == AlterDBTable(w, from[k].table, to[k].table)
UniqueAltered(w, k, from, to) == EditorAlterUniqueTogether(w, to[k], from[k].unique, to[k].unique)

OptionAltered(w, op, from, to) ==
    CASE op.option = "table"  -> TableAltered(w, Key(op), from, to)
      [] op.option = "unique" -> UniqueAltered(w, Key(op), from, to)

FieldAltered(w, op, from, to) ==
    AlterField(w, from, to, Key(op), op.name, op.name, WithDefault(op, to[Key(op)].fields[op.name]))

FieldRenamed(w, k, from, to, old, new) == AlterField(w, from, to, k, old, new, to[k].fields[new])

DatabaseForwards(w, op, from, to) ==
    LET k == Key(op)
    IN  CASE op.op = "CreateModel"      -> EditorCreateModel(w, to, k)
          [] op.op = "DeleteModel"      -> EditorDeleteModel(w, from, k)
          [] op.op = "AddField"         -> EditorAddField(w, from, k, op.name, WithDefault(op, to[k].fields[op.name]))
          [] op.op = "RemoveField"      -> EditorRemoveField(w, from, k, op.name)
          [] op.op = "AlterField"       -> FieldAltered(w, op, from, to)
          [] op.op = "RenameField"      -> FieldRenamed(w, k, from, to, op.name, op.new)
          [] op.op = "RenameModel"      -> RenameModelDB(w, from, to, k, Lower[op.new])
          [] op.op = "AddIndex"         -> EditorAddIndex(w, to[k], op.name, op.def)
          [] op.op = "RemoveIndex"      -> RemoveIndex(w, from[k], op.name, from[k].indexes[op.name])
          [] op.op = "RenameIndex"      -> EditorRenameIndex(w, to[k], op.name, op.new, from[k].indexes[op.name])
          [] op.op = "AddConstraint"    -> EditorAddConstraint(w, to, k, op.name)
          [] op.op = "RemoveConstraint" -> EditorRemoveConstraint(w, from, to, k, op.name)
          [] OTHER                      -> OptionAltered(w, op, from, to)

DatabaseBackwards(w, op, from, to) ==
    LET k == Key(op)
    IN  CASE op.op = "CreateModel"      -> EditorDeleteModel(w, from, k)
          [] op.op = "DeleteModel"      -> EditorCreateModel(w, to, k)
          [] op.op = "AddField"         -> EditorRemoveField(w, from, k, op.name)
          [] op.op = "RemoveField"      -> EditorAddField(w, from, k, op.name, to[k].fields[op.name])
          [] op.op = "AlterField"       -> FieldAltered(w, op, from, to)
          [] op.op = "RenameField"      -> FieldRenamed(w, k, from, to, op.new, op.name)
          [] op.op = "RenameModel"      -> RenameModelDB(w, from, to, Lower[op.new], k)
          [] op.op = "AddIndex"         -> RemoveIndex(w, from[k], op.name, op.def)
          [] op.op = "RemoveIndex"      -> EditorAddIndex(w, to[k], op.name, to[k].indexes[op.name])
          [] op.op = "RenameIndex"      -> EditorRenameIndex(w, to[k], op.new, op.name, from[k].indexes[op.new])
          [] op.op = "AddConstraint"    -> EditorRemoveConstraint(w, from, to, k, op.name)
          [] op.op = "RemoveConstraint" -> EditorAddConstraint(w, to, k, op.name)
          [] OTHER                      -> OptionAltered(w, op, from, to)

-----------------------------------------------------------------------------
(* What makes a project's foreign keys acceptable to a server: they point  *)
(* at a key, and a key over several columns has the types of its target.   *)
Types(m, columns) == {DataType(m.fields[c].type) : c \in columns}

Sound(s) ==
    \A k \in DOMAIN s : \A x \in Pointers(s[k]) : x.to # None =>
        LET t       == s[x.to]
            columns == RemoteColumns(s, x)
        IN  /\ \/ columns = PK(t)
               \/ columns \in {{c} : c \in {d \in DOMAIN t.fields : t.fields[d].unique}}
               \/ columns \in {c.columns : c \in {d \in Range(t.constraints) : d.kind = "unique"}}
            /\ "columns" \in DOMAIN x => Types(s[k], x.columns) = Types(t, columns)

(* A field may get the type of its target in a later operation.            *)
TypesAgree(s) ==
    \A k \in DOMAIN s : \A c \in ForeignKeys(s[k]) :
        LET f == s[k].fields[c] IN Types(s[k], {c}) = Types(s[f.to], RemoteColumns(s, f))

(* The rows have a value for a column that refuses NULL: its default, or   *)
(* the one the questioner asked for.                                       *)
Lends(op) == op.op \in {"AddField", "AlterField"} /\ op.def.default

Fillable(op, from, to) ==
    op.op \in {"AddField", "RemoveField", "AlterField"} /\ op.name \in DOMAIN to[Key(op)].fields =>
        LET of == from[Key(op)].fields
            f  == to[Key(op)].fields[op.name]
        IN  f.null \/ f.dbDefault \/ Lends(op) \/ (op.name \in DOMAIN of /\ ~of[op.name].null)

(* The catalog that creating state s from nothing gives.                   *)
ExpectedTables(w, s) ==
    [t \in {s[k].table : k \in DOMAIN s} |->
        LET m == s[CHOOSE k \in DOMAIN s : s[k].table = t]
        IN  [c \in DOMAIN m.fields |-> ColumnSQL(w, m.fields[c], FALSE)]]

ExpectedObjects(w, s) ==
    UNION {InlineObjects(w, s, k) \cup ForeignKeyObjects(w, s, k)
             \cup DeferredUnique(w, s, k) \cup DeferredIndexes(s, k) : k \in DOMAIN s}

Created(v, s) ==
    LET w == [vendor |-> v, tables |-> <<>>, objects |-> {}, deferred |-> <<>>,
              error |-> FALSE, refused |-> FALSE, touched |-> FALSE]
        bare == [w EXCEPT !.tables = ExpectedTables(w, s),
                          !.objects = {o \in ExpectedObjects(w, s) : o.kind # "fk"}]
    IN  RunDeferred(IF CanCreateInlineFK(w) THEN [bare EXCEPT !.objects = ExpectedObjects(w, s)]
                    ELSE DeferAll(bare, {o \in ExpectedObjects(w, s) : o.kind = "fk"}))

Expressible(v, s) ==
    v = "clickhouse" => \A k \in DOMAIN s : CheckModel(s[k]) /\ DOMAIN s[k].indexes \subseteq Typed

Init ==
    /\ project \in Projects
    /\ work \in {Created(v, project) : v \in {u \in Vendors : Expressible(u, project)}}
    /\ log = <<>>
    /\ phase = "idle"
    /\ left = MaxOps

-----------------------------------------------------------------------------
(* What the code gets wrong, each by the operation that does it.           *)

(* A composite foreign key is put back over the column's old name, and on  *)
(* SQLite a table that is built anew has its constraints over it.          *)
RenamesConstrained(w, op, s) ==
    LET m == s[Key(op)]
    IN  /\ op.op = "RenameField"
        /\ IF w.vendor = "sqlite" THEN m.fields[op.name].to # None /\ ColumnInConstraint(m, op.name)
           ELSE CompositeFKsOn(m, {op.name}) # {}

(* Queued statements do not learn of SQLite's RENAME COLUMN.               *)
RenamesQueued(w, op, s) ==
    /\ op.op = "RenameField" /\ w.vendor = "sqlite"
    /\ \E i \in DOMAIN w.deferred : StatementNames(w.deferred[i], s[Key(op)].table, op.name)

(* MySQL's index for a key over several columns is not put back.           *)
DropsSupport(w, op, s) ==
    LET names == IF op.op \in {"RemoveIndex", "RemoveConstraint"} THEN {op.name} ELSE {"uniq"}
    IN  /\ w.vendor \in MySQLs /\ op.op \in {"RemoveIndex", "RemoveConstraint", "AlterOption"}
        /\ \E fk \in w.objects : fk.kind = "fk" /\ fk.name \notin names /\ Cardinality(fk.columns) > 1
             /\ {o.name : o \in {p \in w.objects : Supports(p, fk)}} \subseteq names

(* SQL Server's unique constraint over one column is not put back.         *)
LosesUnique(w, op, s) ==
    /\ w.vendor = "mssql" /\ op.op = "AlterField" /\ ~op.def.unique
    /\ \E o \in w.objects : Covers(o, s[Key(op)].table, op.name) /\ o.kind = "unique"
                              /\ o.name # "uni" /\ o.columns = {op.name}

(* What else stands on a column that Oracle replaces blocks the drop, goes *)
(* with the column or is not put back.                                     *)
ReplacesColumn(w, op, s) ==
    LET m  == s[Key(op)]
        of == m.fields[op.name]
    IN  /\ w.vendor = "oracle" /\ op.op = "AlterField"
        /\ DataType(of.type) # DataType(op.def.type) \/ NeedsTypeWorkaround(of, op.def)
        /\ \E o \in w.objects \cup Range(w.deferred) :
             \/ PointsAt(o, m.table, op.name)
             \/ Covers(o, m.table, op.name) /\ (o.columns # {op.name} \/ o.name \notin {"pk", "uni", of.fk})

(* TiDB's editor refuses once it has dropped the foreign keys, that of     *)
(* ClickHouse once it has created the table.                               *)
RefusesLate(w, op, s) ==
    \/ /\ w.vendor = "tidb" /\ op.op = "AlterField"
       /\ LET m  == s[Key(op)]
              of == m.fields[op.name]
          IN  /\ of.type # op.def.type /\ IsClusteredIntegerPK(m, of) /\ IsClusteredIntegerPK(m, op.def)
              /\ \E o \in w.objects : o.kind = "fk" /\ (PointsAt(o, m.table, op.name) \/ Covers(o, m.table, op.name))
    \/ /\ w.vendor = "clickhouse" /\ op.op = "CreateModel"
       /\ CheckModel(op.def) /\ ~(DOMAIN op.def.indexes \subseteq Typed)

(* What the migration has only queued is looked up in the database.        *)
Queued(w, t, name) == \E i \in DOMAIN w.deferred : w.deferred[i].table = t /\ w.deferred[i].name = name

StillQueued(w, op, s) ==
    /\ Key(op) \in DOMAIN s
    /\ LET m == s[Key(op)] IN
        \/ op.op = "RenameIndex" /\ Queued(w, m.table, op.name)
        \/ op.op = "AlterOption" /\ op.option = "unique" /\ Queued(w, m.table, "uniq")
        \/ op.op = "RemoveIndex" /\ ~DropsIfExists(w) /\ Queued(w, m.table, op.name)
        \/ /\ op.op = "RemoveConstraint" /\ op.name \in DOMAIN m.constraints /\ Queued(w, m.table, op.name)
           /\ m.constraints[op.name].kind = "partial" => ~DropsIfExists(w)
        \/ /\ op.op = "AlterField"
           /\ \/ \E n \in CompositeFKsOn(m, {op.name}) : Queued(w, m.table, n)
              \/ LET of == m.fields[op.name]
                 IN  of.to # None /\ Queued(w, m.table, of.fk)
                       /\ <<of.to, of.toFields, of.fk>> # <<op.def.to, op.def.toFields, op.def.fk>>

(* The operation that undoing op amounts to.                               *)
Undoing(op, before) ==
    CASE op.op \in {"RenameIndex", "RenameField"} -> [op EXCEPT !.name = op.new, !.new = op.name]
      [] op.op = "AddConstraint" -> [op EXCEPT !.op = "RemoveConstraint"]
      [] op.op = "AddIndex"      -> [op EXCEPT !.op = "RemoveIndex"]
      [] op.op = "AlterField"    -> [op EXCEPT !.def = before[Key(op)].fields[op.name]]
      [] OTHER                   -> op

Flaws(w, op, s) ==
    {n \in Avoided : CASE n = "RenamesConstrained" -> RenamesConstrained(w, op, s)
                       [] n = "RenamesQueued"      -> RenamesQueued(w, op, s)
                       [] n = "LosesUnique"        -> LosesUnique(w, op, s)
                       [] n = "ReplacesColumn"     -> ReplacesColumn(w, op, s)
                       [] n = "RefusesLate"        -> RefusesLate(w, op, s)
                       [] n = "DropsSupport"       -> DropsSupport(w, op, s)
                       [] n = "StillQueued"        -> StillQueued(w, op, s)}

-----------------------------------------------------------------------------
(* The executor applies the next operation of a migration.                 *)
Apply ==
    /\ phase \in {"idle", "forwards"} /\ ~work.error
    /\ left > 0
    /\ \E op \in Offered(project) :
        /\ Runs(op, project) /\ Flaws(work, op, project) = {}
        /\ \E to \in {StateForwards(op, project)} :
            /\ Sound(to) /\ Fillable(op, project, to)
            /\ project' = to
            /\ work' = DatabaseForwards([work EXCEPT !.touched = FALSE], op, project, to)
            /\ log' = Append(IF phase = "idle" THEN <<>> ELSE log, [op |-> op, before |-> project])
    /\ phase' = "forwards"
    /\ left' = left - 1

(* It undoes the last operation of the migration just applied.             *)
Unapply ==
    /\ phase \in {"idle", "backwards"} /\ ~work.error
    /\ log # <<>> /\ Fillable(Last(log).op, project, Last(log).before)
    /\ Flaws(work, Undoing(Last(log).op, Last(log).before), project) = {}
    /\ project' = Last(log).before
    /\ work' = DatabaseBackwards([work EXCEPT !.touched = FALSE], Last(log).op, project, Last(log).before)
    /\ log' = Front(log)
    /\ phase' = "backwards"
    /\ UNCHANGED left

(* Finish: the queued statements run, and the migration is over.           *)
Finish ==
    /\ ~work.error
    /\ \/ phase = "forwards"
       \/ phase = "backwards" /\ log = <<>>
    /\ TypesAgree(project)
    /\ work' = IF work.vendor = "sqlite" THEN SqliteFinish(work) ELSE RunDeferred(work)
    /\ phase' = "idle"
    /\ UNCHANGED <<project, log, left>>

Next == Apply \/ Unapply \/ Finish

Spec == Init /\ [][Next]_vars

-----------------------------------------------------------------------------
(* Between migrations the database is what the project state says: the     *)
(* tables and columns, and every key, index and constraint, are those that *)
(* creating the models from nothing would give.                            *)
Plain(tables) == [t \in DOMAIN tables |-> [c \in DOMAIN tables[t] |-> [tables[t][c] EXCEPT !.nulls = FALSE]]]

(* MySQL has indexes for foreign keys besides, which may outlive the key.  *)
Supporting(w) == {o \in w.objects : o.kind = "implicit" \/ o.name = "fkidx"}

Faithful ==
    phase = "idle" /\ ~work.error =>
        /\ Plain(work.tables) = Plain(ExpectedTables(work, project))
        /\ LET expected == ExpectedObjects(work, project)
           IN  expected \subseteq work.objects /\ work.objects \ expected \subseteq Supporting(work)

(* Every statement that waits names tables and columns that are there.     *)
DeferredValid ==
    ~work.error => \A i \in DOMAIN work.deferred :
        LET st == work.deferred[i]
        IN  /\ HasColumns(work, st.table, st.columns)
            /\ st.kind = "fk" => HasColumns(work, st.to, st.toColumns)

(* An operation the editor refuses has changed nothing.                    *)
RefusedWhole == work.refused => ~work.touched

(* Operations the project state allows are not refused by the database.    *)
NothingFails == work.error => work.refused
==============================================================================
