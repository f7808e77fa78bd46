------------------------------- MODULE Catalog -------------------------------
(***************************************************************************)
(* The database as backends/base and its backends drive it: the tables and *)
(* what hangs on their columns.  The servers are not part of the           *)
(* repository; each operator here is one kind of DDL statement, with what  *)
(* makes a server refuse it.                                               *)
(*                                                                         *)
(* An editor at work is a record w:                                        *)
(*   vendor    the backend;                                                *)
(*   tables    table -> column -> [type, null, nulls, default], where      *)
(*             nulls says that rows hold NULL there and default is "none", *)
(*             "db" (the field's own), "auto" (auto-increment) or          *)
(*             "one-off" (to fill the rows);                               *)
(*   objects   keys, indexes and constraints, each                         *)
(*             [table, kind, name, columns, to, toColumns];                *)
(*   deferred  the statements queued for the end of the migration, each    *)
(*             the object it creates;                                      *)
(*   error     an operation has failed and nothing more is executed;       *)
(*   refused   the editor itself refused it (NotSupportedError);           *)
(*   touched   the operation has changed the database.                     *)
(* Every table has rows.  The generated names "pk", "uni" (a unique field) *)
(* and "uniq" (unique_together) are told apart by their columns, and lists *)
(* of columns are all written in the order of Rank.                        *)
(***************************************************************************)
EXTENDS ProjectState, SequencesExt

CONSTANT Rank      \* Rank[c]: the place of column c in every list

Object(table, kind, name, columns) ==
    [table |-> table, kind |-> kind, name |-> name, columns |-> columns, to |-> None, toColumns |-> {}]

Generated == {"pk", "uni", "uniq", "fkidx"}
Keys == {"pk", "unique", "partial"}           \* what an index enforces as unique
Indexed == {"index", "implicit", "pk", "unique", "partial"}

Same(o, p) ==
    o.table = p.table /\ o.name = p.name /\ (o.name \in Generated => o.columns = p.columns)

Covers(o, t, c) == o.table = t /\ c \in o.columns
PointsAt(o, t, c) == o.to = t /\ c \in o.toColumns

Leads(columns, o) ==
    /\ columns \subseteq o.columns
    /\ \A x \in columns, y \in o.columns \ columns : Rank[x] < Rank[y]

First(columns) == CHOOSE c \in columns : \A d \in columns : Rank[c] <= Rank[d]

-----------------------------------------------------------------------------
(* Execution: an error stops everything that would follow.                 *)

MySQLs == {"mysql", "tidb"}
Cascades == {"postgresql", "cockroachdb", "oracle"}   \* DROP ... CASCADE

Fail(w) == [w EXCEPT !.error = TRUE]
Refuse(w) == IF w.error THEN w ELSE [w EXCEPT !.error = TRUE, !.refused = TRUE]

Try(w, ok, done) ==
    IF w.error THEN w
    ELSE IF ok THEN [done EXCEPT !.touched = @ \/ done # w] ELSE Fail(w)

HasColumns(w, t, columns) == t \in DOMAIN w.tables /\ columns \subseteq DOMAIN w.tables[t]

(* What a foreign key needs before the server takes it.                    *)
Target(w, o) ==
    /\ HasColumns(w, o.to, o.toColumns)
    /\ {w.tables[o.table][c].type : c \in o.columns} = {w.tables[o.to][c].type : c \in o.toColumns}
    /\ \E k \in w.objects : k.table = o.to /\ k.kind \in {"pk", "unique"} /\ k.columns = o.toColumns

Acceptable(w, o) ==
    /\ HasColumns(w, o.table, o.columns)
    /\ ~\E p \in w.objects : Same(o, p) /\ {o.kind, p.kind} # {"fk", "implicit"}
    /\ o.kind = "fk" => Target(w, o)
    /\ o.kind = "pk" => ~\E p \in w.objects : p.table = o.table /\ p.kind = "pk"

(* MySQL gives a foreign key an index of its own unless one leads with its *)
(* columns, and lets go of that one when another comes.                    *)
Supports(o, fk) == o.table = fk.table /\ o.kind \in Indexed /\ Leads(fk.columns, o)
OwnIndex(fk) == Object(fk.table, "implicit", fk.name, fk.columns)
IndexFor(w, o) ==
    IF w.vendor \in MySQLs /\ o.kind = "fk" /\ ~\E p \in w.objects : Supports(p, o)
    THEN {OwnIndex(o)} ELSE {}

Superseded(w, o) ==
    IF w.vendor \in MySQLs /\ o.kind \in Indexed
    THEN {OwnIndex(fk) : fk \in {p \in w.objects : p.kind = "fk" /\ Supports(o, p)}} ELSE {}

(* A primary key takes no NULL.                                            *)
NotNull(o) == IF o.kind = "pk" THEN o.columns ELSE {}

AddObject(w, o) ==
    Try(w, Acceptable(w, o),
        [w EXCEPT !.objects = (@ \ Superseded(w, o)) \cup {o} \cup IndexFor(w, o),
                  !.tables[o.table] = [c \in DOMAIN @ |-> IF c \in NotNull(o) THEN [@[c] EXCEPT !.null = FALSE] ELSE @[c]]])

(* The keys a foreign key points at and, on MySQL, the last index that     *)
(* supports one, cannot go.                                                *)
Held(w, objects, rest) ==
    \E fk \in rest : fk.kind = "fk" /\
        \/ /\ w.vendor # "sqlite"
           /\ \E o \in objects : o.kind \in {"pk", "unique"} /\ o.table = fk.to /\ o.columns = fk.toColumns
           /\ ~\E o \in rest : o.kind \in {"pk", "unique"} /\ o.table = fk.to /\ o.columns = fk.toColumns
        \/ /\ w.vendor \in MySQLs
           /\ \E o \in objects : Supports(o, fk)
           /\ ~\E o \in rest : Supports(o, fk)

(* Drops of named objects, one statement each.                             *)
DropObjects(w, objects) ==
    LET rest == w.objects \ objects
    IN  Try(w, objects \subseteq w.objects /\ ~Held(w, objects, rest), [w EXCEPT !.objects = rest])

RenameObject(w, o, name) ==
    LET new == [o EXCEPT !.name = name]
    IN  Try(w, o \in w.objects /\ ~\E p \in w.objects : Same(new, p),
            [w EXCEPT !.objects = (@ \ {o}) \cup {new}])

-----------------------------------------------------------------------------
CreateTable(w, t, columns, objects) ==
    Try(w, t \notin DOMAIN w.tables /\ \A o \in objects : o.columns \subseteq DOMAIN columns,
        [w EXCEPT !.tables = Put(@, t, columns), !.objects = @ \cup objects])

(* SQLite runs with foreign_keys off, and keeps a key that dangles.        *)
DropTable(w, t) ==
    LET incoming == {o \in w.objects : o.to = t /\ o.table # t}
        gone     == {o \in w.objects : o.table = t} \cup (IF w.vendor \in Cascades THEN incoming ELSE {})
    IN  Try(w, t \in DOMAIN w.tables /\ (incoming = {} \/ w.vendor \in Cascades \cup {"sqlite"}),
            [w EXCEPT !.tables = Drop(@, t), !.objects = @ \ gone])

RenameTable(w, old, new) ==
    Try(w, old \in DOMAIN w.tables /\ new \notin DOMAIN w.tables,
        [w EXCEPT
            !.tables  = Rename(@, old, new),
            !.objects = {[o EXCEPT !.table = Swap(@, old, new), !.to = Swap(@, old, new)] : o \in @}])

(* A column that must hold a value needs one for the rows that are there;  *)
(* MySQL has one for every type.                                           *)
AddColumn(w, t, c, column) ==
    Try(w, /\ HasColumns(w, t, {}) /\ c \notin DOMAIN w.tables[t]
           /\ column.null \/ column.default # "none" \/ w.vendor \in MySQLs,
        [w EXCEPT !.tables[t] = Put(@, c, [column EXCEPT !.nulls = column.null /\ column.default = "none"])])

(* What stands on the column goes with it; not on SQL Server, and not what *)
(* Oracle has over several columns.                                        *)
DropColumn(w, t, c) ==
    LET on   == {o \in w.objects : Covers(o, t, c)}
        into == {o \in w.objects : o.kind = "fk" /\ PointsAt(o, t, c)} \ on
    IN  Try(w, /\ HasColumns(w, t, {c}) /\ into = {}
               /\ (\E o \in on : o.kind = "fk") => w.vendor \in Cascades
               /\ w.vendor = "mssql" => on = {} /\ w.tables[t][c].default \in {"none", "auto"}
               /\ w.vendor = "oracle" => \A o \in on : o.kind # "index" => o.columns = {c},
            [w EXCEPT !.tables[t] = Drop(@, c), !.objects = @ \ on])

RenameColumn(w, t, old, new) ==
    Try(w, HasColumns(w, t, {old}) /\ new \notin DOMAIN w.tables[t],
        [w EXCEPT
            !.tables[t] = Rename(@, old, new),
            !.objects   = {[o EXCEPT
                              !.columns   = IF o.table = t THEN RenameIn(@, old, new) ELSE @,
                              !.toColumns = IF o.to = t THEN RenameIn(@, old, new) ELSE @] : o \in @}])

(* No foreign key may hang on a column whose type changes.  SQL Server     *)
(* alters no column that anything else stands on, and Oracle gives no      *)
(* other type to a column with values.                                     *)
Free(w, t, c) == w.vendor = "mssql" => ~\E o \in w.objects : Covers(o, t, c)
NoKeys(w, t, c) == ~\E o \in w.objects : o.kind = "fk" /\ (Covers(o, t, c) \/ PointsAt(o, t, c))

AlterType(w, t, c, type) ==
    Try(w, /\ HasColumns(w, t, {c}) /\ NoKeys(w, t, c) /\ Free(w, t, c) /\ w.vendor # "oracle"
           /\ w.vendor = "mssql" => w.tables[t][c].default = "none",
        [w EXCEPT !.tables[t][c].type = type])

AlterNull(w, t, c, null) ==
    Try(w, HasColumns(w, t, {c}) /\ Free(w, t, c) /\ (null \/ ~w.tables[t][c].nulls),
        [w EXCEPT !.tables[t][c].null = null, !.tables[t][c].nulls = null])

SetDefault(w, t, c, default) ==
    Try(w, HasColumns(w, t, {c}), [w EXCEPT !.tables[t][c].default = default])

(* UPDATE t SET c = the default, where c IS NULL or everywhere.            *)
FillColumn(w, t, c) == Try(w, HasColumns(w, t, {c}), [w EXCEPT !.tables[t][c].nulls = FALSE])
==============================================================================
