----------------------------- MODULE MCServing -----------------------------
(* Every service, in a cluster and standalone, with two RPC threads. *)
EXTENDS Serving

CONSTANTS r1, r2

MCThread == {r1, r2}

Bounds(calls, saves, mixes, crashes, fails) ==
  [calls |-> calls, saves |-> saves, mixes |-> mixes, crashes |-> crashes, fails |-> fails]

AllMethods(s) == (DOMAIN Services[s].locks) \cup {"get_config"}

(* The methods of each service against each other and against the mixer. *)
Locking ==
  [service : DOMAIN Services, standalone : {FALSE},
   left : {Bounds(3, 0, 1, 0, 0)}]
Alone ==
  [service : DOMAIN Services, standalone : {TRUE}, left : {Bounds(3, 0, 0, 0, 0)}]

(* Saving and loading, next to updates that lock and updates that do not. *)
Files ==
  [service : {"regression", "classifier"}, standalone : BOOLEAN,
   left : {Bounds(2, 3, 0, 1, 1)}]
Ids == [service : {"anomaly", "graph"}, standalone : {TRUE}, left : {Bounds(4, 1, 0, 1, 0)}]

With(sc, methods) ==
  [service |-> sc.service, standalone |-> sc.standalone, left |-> sc.left, methods |-> methods]

MCScenarios ==
  {With(sc, AllMethods(sc.service)) : sc \in Locking \cup Alone}
    \cup {With(sc, {"train", "save", "load"}) : sc \in Files}
    \cup {With(sc, {"add", "create_node", "clear", "save", "load"}
                     \cap (AllMethods(sc.service) \cup {"save", "load"})) : sc \in Ids}

=============================================================================
