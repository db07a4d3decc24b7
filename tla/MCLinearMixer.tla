---------------------------- MODULE MCLinearMixer ----------------------------
(***************************************************************************)
(* Model-checking instances of LinearMixer: two or three servers, started  *)
(* one after another, and a budget for everything that may happen to them. *)
(***************************************************************************)
EXTENDS LinearMixer, TLC

CONSTANTS n1, n2, n3

Nothing == [b \in Bound |-> 0]

(* All servers are of one release. *)
OneProtocol == [n \in Node |-> 1]

(* n1 is of a newer release than the others. *)
TwoProtocols == [n \in Node |-> IF n = n1 THEN 2 ELSE 1]

Scenario(protocol, max) == [protocol |-> protocol, max |-> max]

(* One RPC lost or late, and one server that ends. *)
LostAndEnd ==
  {Scenario(OneProtocol, [Nothing EXCEPT !.mix = 3, !.due = 1, !.lost = 1, !.end = 1])}

(* One RPC lost or late. *)
Lost == {Scenario(OneProtocol, [Nothing EXCEPT !.mix = 3, !.due = 1, !.lost = 1])}

(* Rounds and handlers that wait for one another, with one RPC lost or     *)
(* late and one failing ZooKeeper call; servers that are told to end or    *)
(* lose their session; and servers of different releases, with a do_mix    *)
(* call, an expired session and a crash or SIGTERM.                        *)
StuckOrStopped ==
  {Scenario(OneProtocol, [Nothing EXCEPT !.mix = 3, !.due = 1, !.lost = 1, !.zk = 1]),
   Scenario(OneProtocol, [Nothing EXCEPT !.mix = 3, !.expire = 1, !.end = 1]),
   Scenario(TwoProtocols, [Nothing EXCEPT !.mix = 2, !.domix = 1, !.expire = 1, !.end = 1])}

(* Servers of one release are interchangeable (safety runs only). *)
Symmetry == Permutations(Node)

=============================================================================
