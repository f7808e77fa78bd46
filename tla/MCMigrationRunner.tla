------------------------- MODULE MCMigrationRunner -------------------------
EXTENDS RunnerRefinement, TLC

CONSTANTS a, b, c, sq,             \* migrations; sq replaces a and b
          w1, w2, w3, w4, w5, w6, w7, w8   \* effects

(* Statements of an ordinary operation and of a RunGo.                     *)
Ddl(e, n, later) == [effect |-> e, op |-> n, kind |-> "ddl", later |-> later,
                     atomic |-> "false", reversible |-> TRUE]
Go(e, n, kind) == [effect |-> e, op |-> n, kind |-> kind, later |-> <<>>,
                   atomic |-> "nil", reversible |-> TRUE]
GoOnce(e, n) == [effect |-> e, op |-> n, kind |-> "code", later |-> <<>>,
                 atomic |-> "true", reversible |-> FALSE]

MCEffect == {w1, w2, w3, w4, w5, w6, w7, w8}
MCMig == {a, b, c, sq}
Forwards == {"forwards"}
Both == {"forwards", "backwards"}

(* a: DDL, then a change of data.  b: DDL that defers a statement.         *)
(* c: an irreversible operation, in a migration that is not atomic.  In    *)
(* the squash the optimizer has put the second table of a before the       *)
(* first, as it does when a later operation points from one to the other.  *)
Data == Go(w2, 2, "code")
ProgramA == <<Ddl(w1, 1, <<>>), Ddl(w7, 5, <<>>), Data>>
ProgramB == <<Ddl(w3, 3, <<w4>>)>>
Folded == <<Ddl(w7, 5, <<>>), Ddl(w1, 1, <<>>), Data>> \o ProgramB
MCProgram == (a :> ProgramA) @@ (b :> ProgramB) @@ (sq :> Folded)
             @@ (c :> <<GoOnce(w5, 4), GoOnce(w6, 4)>>)
MCRecords == (a :> <<a>>) @@ (b :> <<b>>) @@ (c :> <<c>>) @@ (sq :> <<a, b, sq>>)
MCAtomic == {a, b, sq}

(* For backends that cannot roll DDL back: a changes data twice in one     *)
(* operation, b sends DDL from a RunGo, and c has an irreversible          *)
(* operation before one that can be undone.                                *)
PlainMig == {a, b, c}
PlainProgram ==
    (a :> <<Ddl(w1, 1, <<w6>>), Go(w2, 2, "code"), Go(w3, 2, "code")>>)
    @@ (b :> <<Go(w4, 3, "ddl"), Go(w5, 3, "code")>>)
    @@ (c :> <<GoOnce(w7, 4), Ddl(w8, 5, <<>>)>>)
PlainRecords == (a :> <<a>>) @@ (b :> <<b>>) @@ (c :> <<c>>)

(* The commands that are under way go in the same direction.  One that     *)
(* unapplies removes the row that another, applying, has just written.     *)
OneWay == \A p, q \in Proc :
            run[p].pc # "idle" /\ run[q].pc # "idle" => run[p].dir = run[q].dir
=============================================================================
