----------------------------- MODULE MCZkMutex -----------------------------
(***************************************************************************)
(* Model-checking instance of ZkMutex: three lock objects of two processes *)
(* that contend for one lock path.  Two of them belong to one process, as  *)
(* the lock of the mixer thread and the lock of a do_mix call do.          *)
(***************************************************************************)
EXTENDS ZkMutex

CONSTANTS o1, o2, o3, s1, s2

MCOwner == [o \in Objects |-> IF o = o3 THEN s2 ELSE s1]

=============================================================================
