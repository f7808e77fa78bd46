---- MODULE MCAutodetector ----
EXTENDS Autodetector

\* Apps 1 and 2 have migrations, app 3 has none.
MCName == {"A", "B", "C", "P", "U"}
MCLower == ("A" :> "a") @@ ("B" :> "b") @@ ("C" :> "c") @@ ("P" :> "p") @@ ("U" :> "u")
MCAppOf == ("a" :> 1) @@ ("b" :> 1) @@ ("c" :> 1) @@ ("p" :> 2) @@ ("u" :> 3)
MCAlphabet == <<"a", "b", "c", "fk", "i", "id", "j", "p", "u", "x", "y">>

Nothing == <<>>
Plain == [type |-> "int", null |-> FALSE, default |-> FALSE, pk |-> FALSE, to |-> None, toFields |-> {}]
Key1 == "id" :> [Plain EXCEPT !.pk = TRUE]
FK(key) == "fk" :> [Plain EXCEPT !.to = key]
X == "x" :> Plain
Y == "y" :> Plain

Model(n, fields) ==
    [name |-> n, table |-> "t", comment |-> "", managed |-> TRUE, fields |-> Key1 @@ fields,
     unique |-> {}, indexes |-> Nothing, constraints |-> Nothing]
On(m, part, name, def) == [m EXCEPT ![part] = name :> def]

(* Models of three apps that point at one another.                         *)
One(S) == {<<>>} \cup {Lower[m.name] :> m : m \in S}
AsA == {Model("A", Nothing), Model("A", FK("p")), Model("A", FK("b")), Model("C", X)}
AsB == {Model("B", Nothing), Model("B", FK("a")), Model("B", FK("u"))}
AsP == {Model("P", Nothing), Model("P", FK("a"))}
Related == {a @@ b @@ p : a \in One(AsA), b \in One(AsB), p \in One(AsP)}

(* One model with one thing or another that can change, next to model B    *)
(* and model P.                                                            *)
Check(message) == [to |-> None, toFields |-> {}, columns |-> {"x"}, message |-> message]
AsAWith ==
    {Model("A", X), Model("A", Y),
     Model("A", "x" :> [Plain EXCEPT !.null = TRUE]),
     Model("A", "fk" :> [Plain EXCEPT !.to = "b", !.pk = TRUE]),
     Model("A", "fk" :> [Plain EXCEPT !.to = "b", !.toFields = {"x"}]),
     Model("A", "fk" :> [Plain EXCEPT !.to = "b", !.toFields = {"y"}]),
     [Model("A", X) EXCEPT !.table = "other", !.comment = "words"],
     [Model("A", X) EXCEPT !.managed = FALSE],
     [On(Model("A", X), "indexes", "i", {"x"}) EXCEPT !.unique = {{"x"}}],
     [On(Model("A", X), "indexes", "j", {"x"}) EXCEPT !.unique = {{"id", "x"}}],
     [On(Model("A", Y), "indexes", "j", {"y"}) EXCEPT !.unique = {{"y"}, {"id", "y"}}],
     On(Model("A", X), "constraints", "i", Check("m")),
     On(Model("A", X), "constraints", "i", Check("n")),
     On(Model("A", X), "constraints", "j", [Check("m") EXCEPT !.to = "b"])}
Varied == {"a" :> a @@ b : a \in AsAWith, b \in {"b" :> Model("B", X), "b" :> Model("B", Y)}} \cup {"a" :> Model("A", X)}

WellFormed(s) == Renders(s) /\ ColumnsExist(s)
MCModels == {s \in {s @@ ("u" :> Model("U", Nothing)) : s \in Related \cup Varied} : WellFormed(s)}
MCBefore == {Restrict(s, DOMAIN s \ {"u"}) : s \in MCModels}
====
