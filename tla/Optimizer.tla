----------------------------- MODULE Optimizer ------------------------------
(***************************************************************************)
(* internal/optimizer/optimizer.go: Optimize repeats optimizeInner, one    *)
(* pass that makes at most one reduction, until a pass makes none.         *)
(*                                                                         *)
(* The operations are written first, one at a time, each one an operation  *)
(* the executor can run after those before it: a migration that works.     *)
(***************************************************************************)
EXTENDS Reduction

CONSTANTS
    Start,     \* the project state before the migration
    Op,        \* the operations it may be written with
    MaxOps     \* the length of the longest migration

ASSUME MaxOpsAssumption == MaxOps \in Nat

VARIABLES
    written,   \* the operations as they were given to Optimize
    list,      \* the operations after the passes so far
    phase      \* "writing", "optimizing", "done"

vars == <<written, list, phase>>

-----------------------------------------------------------------------------
(* The state an operation list leads to, and whether it runs at all.       *)

Path(ops) ==
    LET path[i \in 0..Len(ops)] == IF i = 0 THEN Start ELSE StateForwards(ops[i], path[i - 1])
    IN  path
After(ops) == Path(ops)[Len(ops)]
RunsThrough(ops) == \A i \in DOMAIN ops : Runs(ops[i], Path(ops)[i - 1])

-----------------------------------------------------------------------------

Init ==
    /\ written = <<>>
    /\ list = <<>>
    /\ phase = "writing"

Write(op) ==
    /\ phase = "writing"
    /\ Len(written) < MaxOps
    /\ Runs(op, After(written))
    /\ written' = Append(written, op)
    /\ list' = written'
    /\ UNCHANGED phase

Optimize ==
    /\ phase = "writing"
    /\ phase' = "optimizing"
    /\ UNCHANGED <<written, list>>

Pass ==
    /\ phase = "optimizing"
    /\ list' \in optimizeInner(list)
    /\ UNCHANGED <<written, phase>>

Return ==
    /\ phase = "optimizing"
    /\ optimizeInner(list) = {}
    /\ phase' = "done"
    /\ UNCHANGED <<written, list>>

Next == (\E op \in Op : Write(op)) \/ Optimize \/ Pass \/ Return

(* The loop of Optimize runs on; nobody has to write another operation.    *)
Spec == Init /\ [][Next]_vars /\ WF_vars(Pass \/ Return)

-----------------------------------------------------------------------------

TypeOK ==
    /\ written \in Seq(Op)
    /\ Len(written) <= MaxOps
    /\ phase \in {"writing", "optimizing", "done"}
    /\ phase = "writing" => list = written

(* The list after any number of passes still runs from the start, every    *)
(* operation of it, and leads to the project state the written one leads   *)
(* to: reducing never loses a change nor moves one before what it needs.   *)
SameEffect == RunsThrough(list) /\ After(list) = After(written)

(* The project states that the operations which run code or SQL find, in   *)
(* order: RunGo reads its models, so it must find the ones it was written  *)
(* for.  Elidable ones are dropped, all others stay.                       *)
IsCode(op) == Is(op, {"Special"}) /\ ~Elidable(op)

CodeFinds(ops) ==
    LET path == Path(ops)
        found[i \in 0..Len(ops)] ==
            IF i = 0 THEN <<>>
            ELSE IF IsCode(ops[i]) THEN Append(found[i - 1], <<ops[i], path[i - 1]>>)
            ELSE found[i - 1]
    IN  found[Len(ops)]

CodeUnaffected == CodeFinds(list) = CodeFinds(written)

(* A pass never lengthens the list.  It may leave the length as it was: an *)
(* AlterField and a RenameField change places and remain two.              *)
NeverLonger == [][phase = "optimizing" => Len(list') <= Len(list)]_vars

(* Optimize returns.                                                       *)
Terminates == phase = "optimizing" ~> phase = "done"
=============================================================================
