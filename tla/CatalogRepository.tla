------------------------- MODULE CatalogRepository -------------------------
(***************************************************************************)
(* What CipherSuitesRepository promises, stated without the builder: the  *)
(* catalog is built in one step, exactly once, from what the engine build *)
(* supports; it is either the full expected catalog or the build failed;  *)
(* lookups are served only from a built catalog and return its entry.     *)
(***************************************************************************)
EXTENDS CipherSuiteTranslation

VARIABLES
  engine,       \* the engine build the process runs with (fixed)
  unavailable,  \* the engine calls that raise for lack of protocol support
  status,       \* "unbuilt", "built" or "failed"
  repo,         \* the published catalog: version -> set of CipherSuite
  lookup        \* the last lookup served: version and result

vars == <<engine, unavailable, status, repo, lookup>>

NoLookup == [version |-> "none", found |-> FALSE, result |-> {}]

Init ==
  /\ engine \in Engines
  /\ unavailable \in SUBSET EnginePairs
  /\ status = "unbuilt"
  /\ repo = [v \in Versions |-> {}]
  /\ lookup = NoLookup

Build ==
  /\ status = "unbuilt"
  /\ IF BuildFails(engine, unavailable)
     THEN /\ status' = "failed"
          /\ UNCHANGED repo
     ELSE /\ status' = "built"
          /\ repo' = [v \in Versions |-> Expected(engine, v)]
  /\ UNCHANGED <<engine, unavailable, lookup>>

Lookup(v) ==
  /\ status = "built"
  /\ lookup' = [version |-> v, found |-> TRUE, result |-> repo[v]]
  /\ UNCHANGED <<engine, unavailable, status, repo>>

Next == Build \/ \E v \in Versions : Lookup(v)

Spec == Init /\ [][Next]_vars

=============================================================================
