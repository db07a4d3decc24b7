---------------------------- MODULE MCPlacement ----------------------------
(* Three servers with two virtual nodes each, one proxy, two calls.        *)
EXTENDS Placement

CONSTANTS a, b, d, c1, c2

MCNode == {a, b, d}
MCProxy == {"p"}
MCCaller == {c1, c2}
MCKey == {1, 2}

(* The ring: a a b d b d, so that find may meet one server twice. *)
MCHash == [v \in MCNode \X (1..2) |->
  CASE v = <<a, 1>> -> 1 [] v = <<a, 2>> -> 3 [] v = <<b, 1>> -> 5
    [] v = <<d, 1>> -> 7 [] v = <<b, 2>> -> 9 [] v = <<d, 2>> -> 11]
MCKeyHash == [k \in MCKey |-> IF k = 1 THEN 4 ELSE 12]

Bounds(n, joins, crashes, fails, sessions) ==
  [calls |-> n, joins |-> joins, crashes |-> crashes, fails |-> fails, sessions |-> sessions]

Scenario(s, running, bounds) == [service |-> s, running |-> running, left |-> bounds]

MCScenarios ==
  {Scenario("recommender", MCNode, Bounds(3, 0, 0, 1, 0)),
   Scenario("recommender", {a, b}, Bounds(2, 1, 0, 0, 0)),
   Scenario("recommender", {a, b}, Bounds(1, 1, 0, 0, 1)),
   Scenario("stat", {a, b}, Bounds(2, 0, 1, 0, 0)),
   Scenario("anomaly", MCNode, Bounds(2, 0, 0, 1, 0)),
   Scenario("anomaly", {a, b}, Bounds(2, 1, 0, 0, 0)),
   Scenario("anomaly", {a, b}, Bounds(2, 0, 1, 0, 0)),
   Scenario("graph", MCNode, Bounds(3, 0, 0, 1, 0)),
   Scenario("graph", MCNode, Bounds(3, 0, 1, 0, 0)),
   Scenario("burst", {a, b}, Bounds(0, 2, 2, 1, 0))}

=============================================================================
