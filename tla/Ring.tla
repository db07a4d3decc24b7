------------------------------- MODULE Ring -------------------------------
(***************************************************************************)
(* Consistent hashing (common/cht.cpp): every server has NumVServ virtual  *)
(* nodes on a ring of hashes, and a key belongs to the servers of the      *)
(* virtual nodes that follow its hash.                                     *)
(***************************************************************************)
EXTENDS Naturals, Sequences, FiniteSets, SequencesExt

CONSTANTS
  Node,          \* the servers
  NumVServ,      \* NUM_VSERV: virtual nodes of each server
  Key,           \* what is placed on the ring: rows, ids, keywords
  Hash,          \* make_hash of a virtual node
  KeyHash        \* make_hash of a key

VNode == Node \X (1..NumVServ)

ASSUME RingAssumption ==
  /\ IsFiniteSet(Node) /\ NumVServ \in Nat \ {0}
  /\ Hash \in [VNode -> Nat] /\ KeyHash \in [Key -> Nat]
  /\ \A v, w \in VNode : Hash[v] = Hash[w] => v = w

Owner(v) == v[1]
VNodesOf(S) == {v \in VNode : Owner(v) \in S}

(* The virtual node at index i (from 0) of the sorted list of /cht. *)
AtIndex(S, i) == CHOOSE v \in S : Cardinality({w \in S : Hash[w] < Hash[v]}) = i

(* std::lower_bound, modulo the size of the list. *)
FirstIndex(S, k) == Cardinality({v \in S : Hash[v] < KeyHash[k]}) % Cardinality(S)

(* The virtual nodes find reads, n of them, when the children are S.  The  *)
(* servers they belong to may be fewer: neighbours on the ring may belong  *)
(* to one server.                                                          *)
Find(S, k, n) ==
  [i \in 1..n |-> AtIndex(S, (FirstIndex(S, k) + i - 1) % Cardinality(S))]

(* The servers for k when the children of /cht are S. *)
OwnersIn(S, k, n) == IF S = {} THEN {} ELSE {Owner(v) : v \in Range(Find(S, k, n))}

=============================================================================
