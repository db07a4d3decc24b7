---------------------------- MODULE MCJubavisor ----------------------------
(***************************************************************************)
(* Model-checking instance of Jubavisor: two RPC threads, the main thread  *)
(* and the ZooKeeper client's, two ports.                                  *)
(***************************************************************************)
EXTENDS Jubavisor, TLC

CONSTANTS t1, t2, main, zk, a

=============================================================================
