----------------------------- MODULE MCFirstRun -----------------------------
(* 1, the initial migration, makes two tables and a column and defers a    *)
(* foreign key; 2 makes an index; 9 squashes them.  3 is another app's.    *)
EXTENDS FirstRun

MCStatements == <<<<"author", "book", "title">>, <<"index">>, <<"log">>>>
MCDeferred == <<<<"fk">>, <<>>, <<>>>>
MCLooked == <<{"author", "book", "title"}, {}, {}>>
MCUnmigrated == <<"note", "tag">>
MCReplaces == [s \in {9} |-> {1, 2}]

(* All three are asked for the same app, or one of them for the other;     *)
(* two may be given --fake-initial or --run-syncdb.                        *)
Same == <<{1, 2}, {1, 2}, {1, 2}>>
Other == <<{1, 2}, {1, 2}, {3}>>
Asking(a, sft, snc) == [asked |-> a, soft |-> sft, syncs |-> snc]
MCAskings == {Asking(a, s, {}) : a \in {Same, Other}, s \in {{}, {1, 2}}} \cup {Asking(Other, {}, {1, 2})}

(* A new database, with and without the migrations table, one with tables  *)
(* made by other means, whole or without the column, and databases         *)
(* migrated up to 1 and to 2, without the row of 9.                        *)
Start(objs, t, rws) == [objects |-> objs, table |-> t, rows |-> rws]
MCStarts == { Start({}, FALSE, {}), Start({}, TRUE, {}),
              Start(Whole(1), FALSE, {}), Start({"author", "book"}, FALSE, {}),
              Start(Whole(1), TRUE, {1}), Start(Whole(1) \cup Whole(2), TRUE, {1, 2}) }
=============================================================================
