------------------------------- MODULE RWLock -------------------------------
(***************************************************************************)
(* What the lock service promises its users: a read/write lock whose       *)
(* attempts may fail but never overlap wrongly.  Holders may lose the lock *)
(* at any moment, several at once, because a ZooKeeper session that ends   *)
(* takes every lock of its process with it.                                *)
(*                                                                         *)
(* This is the contract of try_lockable (common/lock_service.hpp) that     *)
(* the mixers and the configuration commands rely on; ZkMutex implements   *)
(* it.                                                                     *)
(***************************************************************************)
CONSTANT Objects      \* the lock objects that contend for one lock path

VARIABLE held         \* held[o]: the mode in which o holds the lock

Modes == {"w", "r"}

(* Two modes exclude each other unless both are read locks. *)
Conflicts(m, k) == m = "w" \/ k = "w"

TypeOK == held \in [Objects -> Modes \cup {"none"}]

Init == held = [o \in Objects |-> "none"]

(* A successful try_lock or try_rlock. *)
Acquire(o, m) ==
  /\ held[o] = "none"
  /\ \A p \in Objects : held[p] # "none" => ~Conflicts(m, held[p])
  /\ held' = [held EXCEPT ![o] = m]

(* unlock and unlock_r, or the end of the session that held the locks. *)
Release(S) ==
  held' = [o \in Objects |-> IF o \in S THEN "none" ELSE held[o]]

Next ==
  \/ \E o \in Objects, m \in Modes : Acquire(o, m)
  \/ \E S \in SUBSET Objects : Release(S)

Spec == Init /\ [][Next]_held

=============================================================================
