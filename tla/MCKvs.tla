------------------------------- MODULE MCKvs -------------------------------
(***************************************************************************)
(* Model-checking instances of Kvs: two or three servers, two keys, and    *)
(* one kind of fault at a time.                                            *)
(***************************************************************************)
EXTENDS Kvs

None == [put |-> 0, save |-> 0, load |-> 0, lost |-> 0, start |-> 0, crash |-> 0]

Scenario(running, bounds) == [running |-> running, left |-> bounds]

(* Puts to servers that mix; a server that joins; a call that is lost or   *)
(* late; a server that dies and starts again; a model saved and loaded.    *)
MCScenarios ==
  {Scenario({1, 2}, [None EXCEPT !.put = 3]),
   Scenario({1, 2, 3}, [None EXCEPT !.put = 2]),
   Scenario({1}, [None EXCEPT !.put = 2, !.start = 1]),
   Scenario({1, 2}, [None EXCEPT !.put = 2, !.lost = 1]),
   Scenario({1, 2}, [None EXCEPT !.put = 1, !.start = 1, !.crash = 1]),
   Scenario({1, 2}, [None EXCEPT !.put = 1, !.save = 1, !.load = 1])}

(* What is put may be negative. *)
MCValue == {-2, 3}

(* A server by itself. *)
Alone == {Scenario({1}, [None EXCEPT !.put = 2])}

=============================================================================
