-------------------------- MODULE MigrationHistory --------------------------
(***************************************************************************)
(* What running migrations promises, where DDL can be rolled back: others  *)
(* see a migration in one step, all of it or none, and with its rows when  *)
(* it defers nothing.  Otherwise, and for every run backwards, the rows    *)
(* are owed: the client that ran it writes them one by one, or is lost.    *)
(* No rows are written or removed but these.                               *)
(***************************************************************************)
EXTENDS Naturals, Sequences, SequencesExt

CONSTANTS
    Client,
    Name, Key,      \* the migrations; the keys of the migrations table
    Makes,          \* Makes[k]: all that is there once k is applied
    Creates,        \* Creates[k]: the part of it that is there only once
    Keys,           \* Keys[k]: the keys that are written for k, in order
    Defers          \* the migrations that defer statements

VARIABLES
    schema, table,
    owed            \* owed[c]: the rows that c still has to write

hvars == <<schema, table, owed>>

Nothing == [way |-> "none", keys |-> <<>>]

Init == /\ schema = {}
        /\ table = [k \in Key |-> 0]
        /\ owed = [c \in Client |-> Nothing]

Owes(c, k, w) == owed' = [owed EXCEPT ![c] = [way |-> w, keys |-> Keys[k]]]

Apply(c, k) ==
    /\ owed[c] = Nothing
    /\ Creates[k] \cap schema = {}
    /\ schema' = schema \cup Makes[k]
    /\ IF k \in Defers
         THEN Owes(c, k, "forwards") /\ UNCHANGED table
         ELSE /\ table' = [j \in Key |-> IF j \in ToSet(Keys[k]) THEN table[j] + 1 ELSE table[j]]
              /\ UNCHANGED owed

Undo(c, k) ==
    /\ owed[c] = Nothing
    /\ schema' = schema \ Makes[k]
    /\ Owes(c, k, "backwards")
    /\ UNCHANGED table

(* --fake: the rows alone.                                                 *)
Pretend(c, k) ==
    /\ owed[c] = Nothing
    /\ \E w \in {"forwards", "backwards"} : Owes(c, k, w)
    /\ UNCHANGED <<schema, table>>

Write(c) ==
    /\ owed[c].keys # <<>>
    /\ LET j == Head(owed[c].keys)
       IN  table' = IF owed[c].way = "forwards" THEN [table EXCEPT ![j] = @ + 1]
                                                ELSE [table EXCEPT ![j] = 0]
    /\ owed' = [owed EXCEPT ![c] =
                  IF Len(owed[c].keys) = 1 THEN Nothing
                  ELSE [way |-> owed[c].way, keys |-> Tail(owed[c].keys)]]
    /\ UNCHANGED schema

Lose(c) ==
    /\ owed[c] # Nothing
    /\ owed' = [owed EXCEPT ![c] = Nothing]
    /\ UNCHANGED <<schema, table>>

Next == \E c \in Client : \/ \E k \in Name : Apply(c, k) \/ Undo(c, k) \/ Pretend(c, k)
                          \/ Write(c) \/ Lose(c)

(* What is owed does not stay so.                                          *)
Spec == Init /\ [][Next]_hvars /\ \A c \in Client : WF_hvars(Write(c) \/ Lose(c))
=============================================================================
