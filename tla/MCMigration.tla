---------------------------- MODULE MCMigration ----------------------------
(***************************************************************************)
(* Instances of Migration: two artifacts have data, the others have none.  *)
(***************************************************************************)
EXTENDS Migration

CONSTANT Pairs \* the pairs of artifacts with data

IsDir(u) == u \in {"logs", "store", "plugins", "gpx"}
Filled(u, p, names) == {Item(p, n) : n \in names} \cup (IF IsDir(u) THEN {Dir} ELSE {})
Empty == [p \in Places |-> {}]

\* What may be in a place: nothing or one item; the database also has a sidecar, and
\* beside logs, plugins and tracks lies something that is not moved.
Choices(u, p) ==
    CASE p = "stage" -> {{}}
      [] p = "user" -> IF u = "credentials" THEN {{}, Filled(u, p, {"main"})} ELSE {{}}
      [] p = "home" -> IF u \in {"credentials", "store", "database"} THEN {{}, Filled(u, p, {"main"})} ELSE {{}}
      [] p = "r2" -> IF u = "gpx" THEN {{}} ELSE {{}, Filled(u, p, {"main"})}
      [] p \in {"r1", "dest"} -> IF u = "database" THEN {{}, Filled(u, p, {"main"}), Filled(u, p, {"main", "side"})}
                                 ELSE IF p = "r1" /\ u \in {"logs", "plugins", "gpx"}
                                 THEN {{}, Filled(u, p, {"main", "rest"})}
                                 ELSE {{}, Filled(u, p, {"main"})}

Contents(u) == {c \in [Places -> UNION {Choices(u, p) : p \in Places}] :
                  /\ \A p \in Places : c[p] \in Choices(u, p)
                  /\ Cardinality({p \in Sources : c[p] # {}}) \in 1..2}

SomeLayouts ==
    UNION {{[w \in Units |-> CASE w = ab[1] -> c [] w = ab[2] -> d [] OTHER -> Empty] :
              c \in Contents(ab[1]), d \in Contents(ab[2])} : ab \in Pairs}

SomePairs == {<<"credentials", "database">>, <<"config", "plugins">>, <<"logs", "store">>, <<"plugins", "gpx">>}
\* The layouts are ones for which a success is said to be true.
ASSUME RegularLayouts == Regular

SomeRoots == {<<"r1", "r2">>, <<>>}
=============================================================================
