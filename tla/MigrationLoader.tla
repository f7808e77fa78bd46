--------------------------- MODULE MigrationLoader ---------------------------
(***************************************************************************)
(* internal/loader/loader.go: the migrations compiled into the command and *)
(* the rows of the migrations table, made into a graph.                    *)
(*                                                                         *)
(* A project is [migs, migrated, unmigrated]: migs maps the keys of        *)
(* DiskMigrations to records [deps, before, replaces] of key sequences,    *)
(* the other two are sets of apps.  A loader is [graph, applied, open,     *)
(* done, error]; open and done are the keys l.progress maps to false and   *)
(* true; an error is "none" as long as BuildGraph goes on.                 *)
(***************************************************************************)
EXTENDS MigrationGraph

CONSTANTS
    First, Latest      \* the names __first__ and __latest__

Disk(project) == DOMAIN project.migs

Replacements(project) == {k \in Disk(project) : project.migs[k].replaces # <<>>}

-----------------------------------------------------------------------------
(* loadDisk.  An app is [disabled, compiled, dirExists, files, registered, *)
(* foreign, moved]: files are the names found in its directory, registered *)
(* the migrations compiled in, foreign those of them that declare another  *)
(* app and moved those that were compiled from a file of another name.     *)

(* Mutant: the names are only counted.                                     *)
StaleCount(app) == Cardinality(app.files) # Cardinality(DOMAIN app.registered)

StaleBinary(app) == app.files # DOMAIN app.registered

LoadDiskError(apps, skipDiskCheck) ==
    \E a \in DOMAIN apps :
        /\ ~apps[a].disabled
        /\ \/ apps[a].compiled /\ apps[a].foreign # {}
           \/ /\ ~skipDiskCheck
              /\ IF apps[a].compiled
                   THEN apps[a].dirExists /\ (apps[a].moved # {} \/ StaleBinary(apps[a]))
                   ELSE apps[a].files # {}

LoadDisk(apps) ==
    LET migrated == {a \in DOMAIN apps : ~apps[a].disabled /\ apps[a].compiled}
        disk == UNION {{[app |-> a, name |-> n] : n \in DOMAIN apps[a].registered} : a \in migrated}
    IN  [migs       |-> [k \in disk |-> apps[k.app].registered[k.name]],
         migrated   |-> migrated,
         unmigrated |-> DOMAIN apps \ migrated]

-----------------------------------------------------------------------------
(* Dependencies.  checkKey answers with the key to depend on, with nothing *)
(* or with an error; the answer is a set of at most one key.               *)

Named(g, key) == key.name \notin {First, Latest} \/ Has(g, key)

(* The ends of the app that __first__ and __latest__ choose from.          *)
Ends(g, key) == IF key.name = First THEN RootNodes(g, {key.app})
                                    ELSE LeafNodes(g, {key.app})

CheckKeyFails(project, g, key, currentApp) ==
    /\ ~Named(g, key)
    /\ key.app # currentApp /\ key.app \notin project.unmigrated
    /\ key.app \in project.migrated => Ends(g, key) = <<>>

CheckKey(project, g, key, currentApp) ==
    IF Named(g, key) THEN {key}
    ELSE IF key.app = currentApp \/ key.app \in project.unmigrated THEN {}
    ELSE {Head(Ends(g, key))}

(* A loader at this stage is [graph, error].                               *)
AddInternalDependencies(project, g) ==
    LET internal(k) == {p \in ToSet(project.migs[k].deps) : p.app = k.app /\ p.name # First}
    IN  AddDependencies(g, UNION {{k} \X internal(k) : k \in Disk(project)})

(* The dependencies, then the migrations to run before.                    *)
Links(project, k) ==
    LET link(keys, before) == [i \in DOMAIN keys |-> [other |-> keys[i], before |-> before]]
    IN  link(project.migs[k].deps, FALSE) \o link(project.migs[k].before, TRUE)

AddChecked(project, l, k, link) ==
    IF l.error # "none" \/ (~link.before /\ link.other.app = k.app) THEN l
    ELSE IF CheckKeyFails(project, l.graph, link.other, k.app)
      THEN [l EXCEPT !.error = "value"]
    ELSE LET found == CheckKey(project, l.graph, link.other, k.app)
         IN  [l EXCEPT !.graph = AddDependencies(@, IF link.before THEN found \X {k} ELSE {k} \X found)]

AddExternalDependencies(project, loader, k) ==
    LET links == Links(project, k)
        added[i \in 0..Len(links)] ==
            IF i = 0 THEN loader ELSE AddChecked(project, added[i - 1], k, links[i])
    IN  added[Len(links)]

-----------------------------------------------------------------------------
(* Squashed migrations.                                                    *)

(* resolveReplacedKeys: the original migrations behind a squashed one.     *)
ResolveReplacedKeys(project, k) ==
    LET resolve[x \in Replacements(project)] ==
            UNION {IF r \in Replacements(project) THEN resolve[r] ELSE {r} :
                     r \in ToSet(project.migs[x].replaces)}
    IN  resolve[k]

FoldIn(project, l, k) ==
    LET replaces == ToSet(project.migs[k].replaces)
        replaced == ResolveReplacedKeys(project, k)
        all  == replaced \subseteq l.applied
        some == replaced \cap l.applied # {}
    IN  IF k \notin l.graph.nodes THEN [l EXCEPT !.error = "replacement"]
        ELSE [l EXCEPT
               !.applied = IF all THEN @ \cup {k} ELSE @ \ {k},
               !.graph   = IF all \/ ~some THEN RemoveReplacedNodes(@, k, replaces)
                                           ELSE RemoveReplacementNode(@, k, replaces),
               !.done    = @ \cup {k}]

Loaders == [graph : [nodes : SUBSET Key, dummies : SUBSET Key, edges : SUBSET (Key \X Key)],
            applied : SUBSET Key, open : SUBSET Key, done : SUBSET Key,
            error : {"none", "value", "cyclical", "replacement", "missing", "cycle"}]

ReplaceMigration(project, loader, key) ==
    LET replace[kl \in Replacements(project) \X Loaders] ==
            LET k == kl[1]
                l == kl[2]
                replaces == project.migs[k].replaces
                nested[i \in 0..Len(replaces)] ==
                    IF i = 0 THEN [l EXCEPT !.open = @ \cup {k}]
                    ELSE IF replaces[i] \in Replacements(project)
                      THEN replace[<<replaces[i], nested[i - 1]>>]
                    ELSE nested[i - 1]
                inner == nested[Len(replaces)]
            IN  IF l.error # "none" \/ k \in l.done THEN l
                ELSE IF k \in l.open THEN [l EXCEPT !.error = "cyclical"]
                ELSE IF inner.error # "none" THEN inner ELSE FoldIn(project, inner, k)
    IN  replace[<<key, loader>>]

-----------------------------------------------------------------------------
(* BuildGraph on the rows the recorder returns.                            *)

(* What must hold of the graph at the end.                                 *)
Validated(l) ==
    IF l.error # "none" THEN l
    ELSE IF ~ValidateConsistency(l.graph) THEN [l EXCEPT !.error = "missing"]
    ELSE IF ~Acyclic(l.graph) THEN [l EXCEPT !.error = "cycle"]
    ELSE l

(* The graph of what the migrations say of each other.                     *)
Linked(project) ==
    LET keys  == SortKeys(Disk(project))
        nodes == AddNodes(EmptyGraph, Disk(project))
        linked[i \in 0..Len(keys)] ==
            IF i = 0 THEN [graph |-> AddInternalDependencies(project, nodes), error |-> "none"]
            ELSE AddExternalDependencies(project, linked[i - 1], keys[i])
    IN  linked[Len(keys)]

ReplaceMigrations(project, loader) ==
    LET keys == SortKeys(Replacements(project))
        replaced[i \in 0..Len(keys)] ==
            IF i = 0 THEN loader ELSE ReplaceMigration(project, replaced[i - 1], keys[i])
    IN  replaced[Len(keys)]

BuildGraph(project, rows, replaceMigrations) ==
    LET linked == Linked(project)
        loader == [graph |-> linked.graph, applied |-> rows, open |-> {}, done |-> {},
                   error |-> linked.error]
    IN  Validated(IF replaceMigrations THEN ReplaceMigrations(project, loader) ELSE loader)

-----------------------------------------------------------------------------
(* Questions asked of a loaded graph.                                      *)

AllReplacedApplied(project, k, applied) ==
    LET all[x \in Key] ==
            /\ x \in Replacements(project)
            /\ \A r \in ToSet(project.migs[x].replaces) : r \in applied \/ all[r]
    IN  all[k]

ConsistentRows(project, g, rows) ==
    \A k \in rows \cap g.nodes : Parents(g, k) \subseteq rows

ConsistentHistory(project, g, rows) ==
    \A k \in rows \cap g.nodes : \A p \in Parents(g, k) :
        p \in rows \/ AllReplacedApplied(project, p, rows)

Apps(g) == {k.app : k \in g.nodes}

Conflicts(g) == {a \in Apps(g) : Len(LeafNodes(g, {a})) > 1}
=============================================================================
