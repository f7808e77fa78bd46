-------------------------- MODULE RunnerRefinement --------------------------
(***************************************************************************)
(* MigrationRunner implements MigrationHistory on the atomic migrations.   *)
(* Its statements, transactions and errors are not to be seen: schema and  *)
(* table are what is committed, and a client owes what RecordMigration     *)
(* has still to write after Finish.                                        *)
(***************************************************************************)
EXTENDS MigrationRunner

(* The keys that only runs of atomic migrations write.                     *)
AtomicKeys == {k \in Mig : Writers(k) \subseteq AtomicMig}

(* What the server refuses to make twice: DDL and what it defers.          *)
MadeOnce(k) == UNION {IF Program[k][i].kind = "ddl" THEN Yields(Program[k][i])
                     ELSE ToSet(Program[k][i].later) : i \in DOMAIN Program[k]}

(* RecordMigration writes each of its keys once, and what is atomic has    *)
(* no object in common with what is not.                                   *)
ASSUME RefinementAssumption ==
    /\ \A k \in Mig : IsInjective(Records[k])
    /\ \A j \in Mig \ AtomicMig : \A k \in AtomicMig : Eff(j) \cap Eff(k) = {}

(* What a migration brings, none brings but those that squash it.          *)
ASSUME OwnershipAssumption ==
    \A j, k \in Mig : Records[k] = <<k>> /\ k \notin ToSet(Records[j]) => Eff(j) \cap Eff(k) = {}

OwedBy(p) ==
    IF run[p].pc = "record" /\ run[p].mig \in AtomicMig
      THEN [way |-> run[p].dir, keys |-> run[p].recs]
      ELSE [way |-> "none", keys |-> <<>>]

History == INSTANCE MigrationHistory WITH
    Client <- Proc,
    Name <- AtomicMig,
    Key <- AtomicKeys,
    Makes <- [k \in AtomicMig |-> Eff(k)],
    Creates <- [k \in AtomicMig |-> MadeOnce(k)],
    Keys <- Records,
    Defers <- {k \in AtomicMig : Deferring(k)},
    schema <- effects \cap UNION {Eff(k) : k \in AtomicMig},
    table <- [k \in AtomicKeys |-> rows[k]],
    owed <- [p \in Proc |-> OwedBy(p)]

(* Whatever the commands interleave, fail in or die of, what they do to    *)
(* the schema and the migrations table is a history of whole migrations.   *)
ImplementsHistory == History!Spec

(* The part of it that is safety.                                          *)
HistorySteps == History!Init /\ [][History!Next]_(History!hvars)
=============================================================================
