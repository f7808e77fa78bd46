--------------------------- MODULE BackendEditors ---------------------------
(***************************************************************************)
(* The schema editors of SQL Server (backends/mssql/mssql.go), Oracle      *)
(* (backends/oracle/schema.go) and ClickHouse                              *)
(* (backends/clickhouse/clickhouse.go), where they differ from the shared  *)
(* one.                                                                    *)
(***************************************************************************)
EXTENDS SchemaEditor

CONSTANT Typed     \* the indexes that declare a type

-----------------------------------------------------------------------------
(* SQL Server: what depends on a column has to go before the column is     *)
(* altered or dropped, and is put back under its name.                     *)

MssqlDeleteModel(w, s, k) ==
    LET t == s[k].table
    IN  DeleteModel(ExecDrop(w, {o \in w.objects : o.to = t /\ o.table # t}), s, k)

(* dropColumnObjects: the foreign keys that point at the column go only    *)
(* when a key over it does.                                                *)
DependentIndexes(w, t, c) == {o \in w.objects : Covers(o, t, c) /\ o.kind \in Indexed}
DependentChecks(w, t, c) == {o \in w.objects : Covers(o, t, c) /\ o.kind = "check"}
(* Mutant: the foreign keys that point at the column stay.                 *)
NoIncomingKeys(w, t, c) == {}

IncomingKeys(w, t, c) ==
    IF \E o \in DependentIndexes(w, t, c) : o.kind \in Keys
    THEN {o \in w.objects : o.kind = "fk" /\ PointsAt(o, t, c)} ELSE {}
HasDefault(w, t, c) == w.tables[t][c].default \in {"db", "one-off"}

DropColumnObjects(w, t, c, withDefault) ==
    LET freed   == DropObjects(w, IncomingKeys(w, t, c))
        bare    == DropObjects(freed, DependentIndexes(w, t, c) \cup DependentChecks(w, t, c))
    IN  IF withDefault /\ HasDefault(w, t, c) THEN SetDefault(bare, t, c, "none") ELSE bare

DropForeignKeysOn(w, t, c) == ExecDrop(w, {o \in w.objects : Covers(o, t, c) /\ o.kind = "fk"})

MssqlRemoveField(w, m, c) ==
    RemoveFieldFrom(DropForeignKeysOn(DropColumnObjects(w, m.table, c, TRUE), m.table, c), m, c)

(* restoreColumnObjects leaves out what the shared editor creates and what *)
(* the field no longer has.                                                *)
ComesBack(o, of, f) ==
    CASE o.kind = "pk" -> of.pk /\ f.pk
      [] o.kind = "unique" /\ Cardinality(o.columns) = 1 -> f.unique /\ ~f.pk /\ ~UniqueShouldBeAdded(of, f)
      [] OTHER -> TRUE

AddObjects(w, objects) ==
    LET added[os \in SUBSET objects] ==
            IF os = {} THEN w
            ELSE LET o == CHOOSE x \in os : TRUE IN AddObject(added[os \ {o}], o)
    IN  added[objects]

RestoreColumnObjects(w, before, t, old, new, of, f) ==
    LET renamed(o) == [o EXCEPT !.columns = RenameIn(@, old, new)]
        back       == {o \in DependentIndexes(before, t, old) : ComesBack(o, of, f)}
                        \cup DependentChecks(before, t, old)
        restored   == AddObjects(w, {renamed(o) : o \in back})
        default    == IF HasDefault(before, t, old) /\ of.type # f.type /\ of.dbDefault /\ f.dbDefault
                      THEN SetDefault(restored, t, new, "db") ELSE restored
    IN  DeferFKs(default, {[o EXCEPT !.toColumns = RenameIn(@, old, new)] : o \in IncomingKeys(before, t, old)})

(* An auto-increment property can be neither given nor taken away.         *)
MssqlPerformAlterField(w, from, to, k, old, new, f) ==
    LET t           == from[k].table
        of          == from[k].fields[old]
        dropDefault == of.type # f.type \/ of.dbDefault # f.dbDefault
        inTheWay    == dropDefault \/ of.null # f.null
        bare        == IF inTheWay THEN DropColumnObjects(w, t, old, dropDefault) ELSE w
        restored(v) == IF inTheWay THEN RestoreColumnObjects(v, w, t, old, new, of, f) ELSE v
    IN  IF (of.type = "auto") # (f.type = "auto") THEN Refuse(w)
        ELSE restored(BasePerformAlterField(bare, from, to, k, old, new, of, f))

-----------------------------------------------------------------------------
(* Oracle: a type that cannot be changed in place is changed by adding a   *)
(* column, copying the values, dropping the old one and renaming the new   *)
(* one.                                                                    *)

IsIdentityColumn(w, t, c) == HasColumns(w, t, {c}) /\ w.tables[t][c].default = "auto"

OracleRemoveField(w, m, c) ==
    RemoveFieldFrom(IF IsIdentityColumn(w, m.table, c) THEN SetDefault(w, m.table, c, "none") ELSE w, m, c)

NeedsTypeWorkaround(of, f) == f.type = "auto" /\ of.type # "auto"

AlterFieldTypeWorkaround(w, from, to, k, old, new, f) ==
    LET m       == from[k]
        t       == m.table
        of      == m.fields[old]
        temp    == "temp"
        plain   == [f EXCEPT !.null = f.type # "auto", !.pk = FALSE, !.unique = FALSE,
                             !.to = None, !.toFields = {}, !.fk = None]
        keyless == IF of.pk THEN DeletePrimaryKey(w, t, {}) ELSE w
        copy(v) == Try(v, TRUE, [v EXCEPT !.tables[t][temp].nulls = v.tables[t][old].nulls])
        dropped == OracleRemoveField(copy(AddField(keyless, from, k, temp, plain)), m, old)
    IN  BasePerformAlterField(dropped, from, to, k, temp, new, plain, f)

(* Oracle gives no other type to a column that holds values: the statement *)
(* was refused though no key stood in its way.                             *)
RefusesType(v, t, c, of, f) == /\ v.error /\ DataType(of.type) # DataType(f.type)
                               /\ HasColumns(v, t, {c}) /\ NoKeys(v, t, c)

(* The workaround is tried where the plain alteration has failed on the    *)
(* type, from what that left.  An identity that is lost with the type, and *)
(* the referential actions Oracle does not know, are left out.             *)
OracleAlterField(w, from, to, k, old, new, f) ==
    LET of        == from[k].fields[old]
        around(v) == AlterFieldTypeWorkaround(v, from, to, k, old, new, f)
        direct    == NeedsTypeWorkaround(of, f)
        tried     == IF ~direct /\ FieldShouldBeAltered(from, to, k, old, new, f)
                     THEN BasePerformAlterField(w, from, to, k, old, new, of, f) ELSE w
        again(v)  == IF direct \/ RefusesType(v, from[k].table, new, of, f)
                     THEN around([v EXCEPT !.error = FALSE]) ELSE v
    IN  IF w.error THEN w ELSE again(tried)

-----------------------------------------------------------------------------
(* ClickHouse refuses what it cannot express.                              *)

(* The columns the rows are sorted by, which stay as they are.             *)
KeyColumns(m) == PK(m)

CheckField(f) == f.to = None /\ (f.unique => f.pk)
CheckConstraint(x) == x.kind = "check"
CheckModel(m) ==
    /\ \A f \in Range(m.fields) : CheckField(f)
    /\ m.unique = {}
    /\ \A x \in Range(m.constraints) : CheckConstraint(x)

(* An index without a type is met only once the table is there.            *)
ClickHouseCreateModel(w, s, k) ==
    CASE ~CheckModel(s[k]) -> Refuse(w)
      [] DOMAIN s[k].indexes \subseteq Typed -> CreateModel(w, s, k)
      [] OTHER -> Refuse(CreateModel(w, s, k))

(* Mutant: the field is looked at once the column is there.                *)
AddFieldCheckedLate(w, s, k, c, f) ==
    IF CheckField(f) THEN AddField(w, s, k, c, f) ELSE Refuse(AddField(w, s, k, c, f))

ClickHouseAddField(w, s, k, c, f) == IF CheckField(f) THEN AddField(w, s, k, c, f) ELSE Refuse(w)
ClickHouseRemoveField(w, m, c) == IF c \in KeyColumns(m) THEN Refuse(w) ELSE RemoveFieldFrom(w, m, c)

ClickHousePerformAlterField(w, from, to, k, old, new, f) ==
    LET of == from[k].fields[old]
    IN  IF /\ CheckField(f) /\ CheckField(of) /\ of.pk = f.pk
           /\ old \in KeyColumns(from[k]) => old = new /\ of.type = f.type
        THEN BasePerformAlterField(w, from, to, k, old, new, of, f) ELSE Refuse(w)
=============================================================================
