----------------------------- MODULE MCPushMixer -----------------------------
(***************************************************************************)
(* Model-checking instances of PushMixer: up to three servers; every fault *)
(* of the environment has a scenario of its own.                           *)
(***************************************************************************)
EXTENDS PushMixer

CONSTANTS u1, u2

None == [boot |-> 0, train |-> 0, domix |-> 0, lost |-> 0, zk |-> 0, end |-> 0]

Scenario(mixers, manual, running, joining, known, budget) ==
  [mixers |-> mixers, manual |-> manual, running |-> running,
   joining |-> joining, known |-> known, budget |-> budget]

All == {"random", "skip", "broadcast"}

(* A third server joins two others, one of which mixes only when told to;  *)
(* a second one joins while do_mix is called, while a ZooKeeper call       *)
(* fails, or while the first one ends; a call is lost between two servers. *)
AllScenarios ==
  {Scenario({"skip", "broadcast"}, {2}, {2, 3}, {1}, {u1}, [None EXCEPT !.boot = 1]),
   Scenario({"broadcast"}, {2}, {2}, {1}, {u1}, [None EXCEPT !.boot = 1, !.domix = 1]),
   Scenario({"broadcast"}, {}, {1}, {2}, {u1}, [None EXCEPT !.boot = 1, !.zk = 1]),
   Scenario({"broadcast"}, {}, {1}, {2}, {u1}, [None EXCEPT !.boot = 1, !.end = 1]),
   Scenario(All, {}, {1, 2}, {}, {}, [None EXCEPT !.train = 2, !.lost = 1])}

=============================================================================
