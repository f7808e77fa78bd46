---- MODULE MCOptimizer ----
EXTENDS OrdinaryMigration

MCName == {"A", "B", "C", "D", "E", "F"}
MCLower == ("A" :> "a") @@ ("B" :> "b") @@ ("C" :> "c") @@ ("D" :> "d") @@ ("E" :> "e") @@ ("F" :> "f")

Nothing == <<>>
Column(type) == [type |-> type, to |-> None, toFields |-> {}, default |-> FALSE]
FK(key) == [Column("int") EXCEPT !.to = key]
Unique(columns, message) == [columns |-> columns, to |-> None, toFields |-> {}, message |-> message]

Table(fields) ==
    [table |-> "t", comment |-> "", managed |-> TRUE, fields |-> fields,
     unique |-> {}, indexes |-> Nothing, constraints |-> Nothing]
Id == "id" :> Column("int")

\* One model is there already, and may be renamed: nothing points at it.
MCStart == "d" :> (("name" :> "D") @@ Table(Id @@ ("x" :> Column("int"))))

Create(n, fields) == [op |-> "CreateModel", model |-> n, def |-> Table(fields)]
Delete(n) == [op |-> "DeleteModel", model |-> n]
RenameTo(n, new) == [op |-> "RenameModel", model |-> n, new |-> new]
Option(n, option, value) == [op |-> "AlterOption", model |-> n, option |-> option, value |-> value]
Part(op, n, name, def) == [op |-> op, model |-> n, name |-> name, def |-> def]
Remove(op, n, name) == [op |-> op, model |-> n, name |-> name]
Renamed(op, n, old, new) == [op |-> op, model |-> n, name |-> old, new |-> new]
Field(op, n, name, def, preserve) ==
    [op |-> op, model |-> n, name |-> name, def |-> def, preserve |-> preserve]
Code(elidable, state) == [op |-> "Special", elidable |-> elidable, state |-> state]

Models ==
    {Create("A", Id @@ ("x" :> Column("int"))),
     Create("B", Id), Create("B", Id @@ ("a" :> FK("a"))),
     Delete("A"), Delete("B"), Delete("D"), Delete("F"),
     RenameTo("D", "E"), RenameTo("E", "F"),
     Option("A", "table", "t2"), Option("A", "unique", {{"x"}}), Option("A", "unique", {}),
     Option("D", "comment", "c"), Option("D", "comment", "d")}

Columns ==
    {Field("AddField", "A", "b", FK("b"), TRUE), Field("AddField", "B", "a", FK("a"), TRUE),
     Field("AddField", "A", "y", Column("int"), TRUE), Field("AlterField", "A", "y", Column("text"), TRUE),
     Remove("RemoveField", "A", "y"), Remove("RemoveField", "A", "b"),
     Renamed("RenameField", "A", "y", "z"),
     Field("AlterField", "D", "x", Column("text"), TRUE),
     Renamed("RenameField", "D", "x", "y"), Renamed("RenameField", "D", "y", "z"),
     Renamed("RenameField", "D", "y", "x"),
     Field("AlterField", "D", "y", Column("text"), TRUE), Remove("RemoveField", "D", "y")}

Parts ==
    {Part("AddIndex", "A", "i", {"x"}), Remove("RemoveIndex", "A", "i"),
     Renamed("RenameIndex", "A", "i", "j"), Renamed("RenameIndex", "A", "j", "k"),
     Part("AddConstraint", "A", "c", Unique({"x"}, "m")),
     Part("AlterConstraint", "A", "c", Unique({"x"}, "n")),
     Remove("RemoveConstraint", "A", "c"),
     Part("AddConstraint", "D", "c", Unique({"id"}, "m")),
     Part("AlterConstraint", "D", "c", Unique({"id"}, "n")),
     Remove("RemoveConstraint", "D", "c")}

\* RunGo that is elidable, RunGo that is not, SeparateDatabaseAndState.
Specials ==
    {Code(TRUE, <<>>), Code(FALSE, <<>>),
     Code(FALSE, <<Field("AddField", "D", "y", Column("int"), TRUE)>>)}

MCOp == Models \cup Columns \cup Parts \cup Specials

\* The operations but for the two that rename a model make ordinary lists.
Gone == {<<"a", "b">>, <<"a", "y">>, <<"d", "x">>, <<"d", "y">>}
ASSUME MostAreOrdinary ==
    /\ Good(MCStart, Gone)
    /\ \A op \in MCOp : Is(op, {"RenameModel"}) \/ Sound(op, Gone, Gone \ {<<"a", "b">>})

\* A model that another one points at is renamed.
RenamedTarget ==
    {Create("A", Id), Create("B", Id @@ ("a" :> FK("a"))), RenameTo("A", "C")}

\* A column that an index covers is renamed.
RenamedColumn ==
    {Create("A", Id @@ ("x" :> Column("int"))), Part("AddIndex", "A", "i", {"x"}),
     Renamed("RenameField", "A", "x", "y")}

\* A foreign key over several columns is a constraint of its model.
Composite == [columns |-> {"id"}, to |-> "a", toFields |-> {"id"}, message |-> ""]
CompositeKey ==
    {Create("A", Id), [Create("B", Id) EXCEPT !.def.constraints = "fk" :> Composite],
     Field("AddField", "A", "y", Column("int"), TRUE)}

\* A column is added with a value for the rows that are there, and no default.
OneOffDefault ==
    {Create("A", Id),
     Field("AddField", "A", "y", [Column("int") EXCEPT !.default = TRUE], FALSE)}

\* The name that a model had is given to another one.
ReusedName == {RenameTo("D", "E"), Create("D", Id), RenameTo("E", "F")}

\* A column that a foreign key points at is renamed.
RenamedPointed ==
    {Create("A", Id @@ ("x" :> Column("int"))),
     Create("B", Id @@ ("a" :> [FK("a") EXCEPT !.toFields = {"x"}])),
     Renamed("RenameField", "A", "x", "y")}

\* A column that a foreign key has pointed at is removed, with PointedStart.
PointedStart ==
    MCStart @@ ("a" :> (("name" :> "A") @@ Table(Id @@ ("d" :> [FK("d") EXCEPT !.toFields = {"x"}]))))
RemovedPointed ==
    {Remove("RemoveField", "A", "d"), Remove("RemoveField", "D", "x"), Delete("A")}
====
