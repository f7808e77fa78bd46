------------------------- MODULE MCSchemaMigration -------------------------
(* Two tables that point at each other's keys in the ways the code tells   *)
(* apart, a third one to be created, and one operation of every kind on    *)
(* each of them.                                                           *)
EXTENDS SchemaMigration

MCLower == ("A" :> "a") @@ ("B" :> "b") @@ ("C" :> "c") @@ ("D" :> "d")
MCRank == ("id" :> 1) @@ ("x" :> 2) @@ ("y" :> 3) @@ ("z" :> 4)

Whole == [type |-> "int", null |-> FALSE, pk |-> FALSE, unique |-> FALSE, default |-> FALSE,
        dbDefault |-> FALSE, to |-> "none", toFields |-> {}, fk |-> "none"]
IdField   == [Whole EXCEPT !.type = "auto", !.pk = TRUE]
Text     == [Whole EXCEPT !.type = "text"]
Nullable == [Whole EXCEPT !.null = TRUE]
Lent     == [Whole EXCEPT !.default = TRUE]
Unique   == [Nullable EXCEPT !.unique = TRUE]
Kept     == [Whole EXCEPT !.dbDefault = TRUE]
ToA      == [Nullable EXCEPT !.to = "a", !.fk = "fk_a"]
ToAx     == [ToA EXCEPT !.toFields = {"x"}]

Table(name, table, fields) ==
    [name |-> name, table |-> table, fields |-> fields, unique |-> {}, indexes |-> <<>>, constraints |-> <<>>]
Fields(id, x, y) == ("id" :> id) @@ ("x" :> x) @@ ("y" :> y)

Check(columns) == [kind |-> "check", columns |-> columns, to |-> "none", toFields |-> {}]
UniqueOver(columns) == [Check(columns) EXCEPT !.kind = "unique"]
Partial(columns) == [Check(columns) EXCEPT !.kind = "partial"]
Both == [Check({"x", "y"}) EXCEPT !.kind = "fk", !.to = "a", !.toFields = {"x", "y"}]

(* A foreign key to a primary key, to a unique column, and over two        *)
(* columns.                                                                *)
TableA == [Table("A", "ta", Fields(IdField, [Whole EXCEPT !.unique = TRUE], Whole)) EXCEPT
              !.indexes = ("ia" :> {"y"}), !.constraints = ("ua" :> UniqueOver({"x", "y"}))]
TableB(x, y, more) == [Table("B", "tb", Fields(IdField, x, y)) EXCEPT !.constraints = more]

MCProjects ==
    {("a" :> TableA) @@ ("b" :> [TableB(ToA, Text, ("cb" :> Check({"y"}))) EXCEPT !.unique = {{"x", "y"}}]),
     ("a" :> TableA) @@ ("b" :> [TableB(ToAx, Nullable, <<>>) EXCEPT !.indexes = ("ib" :> {"x", "y"})]),
     ("a" :> TableA) @@ ("b" :> TableB(Whole, Whole, ("fb" :> Both))),
     ("a" :> [Table("A", "ta", Fields(IdField, Whole, Nullable)) EXCEPT !.indexes = ("it" :> {"y"})])}

TableC == [Table("C", "tc", Fields(IdField, ToA, Text)) EXCEPT
              !.unique = {{"x", "y"}}, !.indexes = ("ic" :> {"y"}), !.constraints = ("pc" :> Partial({"x"}))]

OfType(type, m) == [op |-> type, model |-> m]
OnPart(type, m, n) == ("name" :> n) @@ OfType(type, m)
Adds(type, m, n, def) == ("def" :> def) @@ OnPart(type, m, n)
Option(m, option, value) == ("option" :> option) @@ ("value" :> value) @@ OfType("AlterOption", m)
To(new, op) == ("new" :> new) @@ op

FieldOf(type, m, n, def) == ("preserve" :> FALSE) @@ Adds(type, m, n, def)

ModelOperations(s) ==
    {Adds("CreateModel", "C", "C", TableC)}
      \cup {Adds("CreateModel", "C", "C", [Table("C", "tc", Fields(IdField, Whole, Text)) EXCEPT
                !.indexes = (i :> {"y"}), !.constraints = ("cn" :> Check({"y"}))]) : i \in {"ic", "it"}}
      \cup {OfType("DeleteModel", m) : m \in {"A", "B", "C", "D"}}
      \cup {To("D", OfType("RenameModel", "A"))}
      \cup {Option("A", "table", "tn"), Option("B", "table", "tm")}
      \cup {Option(m, "unique", u) : m \in {"B", "C"}, u \in {{}, {{"x", "y"}}}}

FieldOperations(s, m) ==
    {FieldOf("AddField", m, "z", f) : f \in {Nullable, Lent, Unique, Kept, [ToA EXCEPT !.fk = "fk_z"]}}
      \cup {OnPart("RemoveField", m, c) : c \in {"x", "y"}}
      \cup {To("z", OnPart("RenameField", m, c)) : c \in {"x", "y"}}
      \cup {FieldOf("AlterField", m, "x", f) : f \in {Lent, ToA, ToAx, Unique, Text}}
      \cup {FieldOf("AlterField", m, "y", f) : f \in {Kept, Nullable, [Text EXCEPT !.default = TRUE]}}
      \cup {FieldOf("AlterField", m, "id", [f EXCEPT !.pk = TRUE]) : f \in {Whole, Text}}

PartOperations(s, m) ==
    LET i == CASE m = "A" -> "ia" [] m = "B" -> "ib" [] OTHER -> "ic"
    IN  {Adds("AddIndex", m, i, {"x"}), OnPart("RemoveIndex", m, i), To("in", OnPart("RenameIndex", m, i))}
          \cup {Adds("AddConstraint", m, "cn", d) : d \in {Check({"y"}), Partial({"y"}), UniqueOver({"x", "y"}), UniqueOver({"y"})}}
          \cup {OnPart("RemoveConstraint", m, c) : c \in {"ua", "cb", "fb", "pc", "cn"}}

MCOffered(s) ==
    ModelOperations(s) \cup
      UNION {FieldOperations(s, m) \cup PartOperations(s, m) : m \in {s[k].name : k \in DOMAIN s}}
=============================================================================
