----------------------------- MODULE LockProofs -----------------------------
(***************************************************************************)
(* Proofs about the lock and about those who live under it, the two sides  *)
(* of RWLock.                                                              *)
(*                                                                         *)
(* Below it, ZkMutex for any number of objects, processes, lock nodes and  *)
(* lost calls: its inductive invariant, mutual exclusion, and that every   *)
(* step of zkmutex is a step of RWLock or none.                            *)
(*                                                                         *)
(* Above it, Startup for any number of servers, proxies and commands and   *)
(* any bounds: a server that is listed serves, its configuration does not  *)
(* change under it, and all that is done with its lock is what RWLock      *)
(* allows.                                                                 *)
(***************************************************************************)
EXTENDS Startup, ZkMutex, FiniteSetTheorems, TLAPS

USE OwnerAssumption, BoundAssumption

(* The initial state satisfies the invariant: no node, no holder. *)
LEMMA MutexInitIInv == MutexInit => MutexIInv
  BY DEF MutexInit, MutexIInv, MutexTypeOK, NumbersBelowNext, FilesDiffer, HoldersIdle, NodeInUse,
         HoldersCameFirst, UsesNode, Holds, Node, Modes, SessionState

(* Making a node keeps the invariant, except for what it says of seqfile of *)
(* the object it is made for.                                               *)
LEMMA CreateSeqIInv ==
  ASSUME MutexIInv, NEW o \in Objects, NEW m \in Modes, CreateSeq(o, m)
  PROVE  MutexIInv'
<1> USE DEF CreateSeq, NewNode, MutexIInv, MutexTypeOK
<1>1. MutexTypeOK'
  BY DEF Node, Connected
<1>2. NumbersBelowNext'
  BY DEF NumbersBelowNext
<1>3. FilesDiffer' /\ HoldersIdle'
  BY DEF NumbersBelowNext, FilesDiffer, HoldersIdle
<1>4. NodeInUse'
  BY DEF NodeInUse, UsesNode, Connected, NodeOf
<1>5. HoldersCameFirst'
  BY DEF HoldersCameFirst, Holds, Connected, Wins, NumbersBelowNext
<1> QED BY <1>1, <1>2, <1>3, <1>4, <1>5

(* A failed create_seq may leave a node that is nobody's. *)
LEMMA CreateSeqFailsIInv ==
  ASSUME MutexIInv, NEW o \in Objects, NEW m \in Modes, CreateSeqFails(o, m)
  PROVE  MutexIInv'
<1> USE DEF CreateSeqFails, NewNode, MutexIInv, MutexTypeOK
<1>1. MutexTypeOK'
  BY DEF Node
<1>2. NumbersBelowNext'
  BY DEF NumbersBelowNext
<1>3. FilesDiffer' /\ HoldersIdle'
  BY DEF FilesDiffer, HoldersIdle
<1>4. NodeInUse'
  BY DEF NodeInUse, UsesNode, Connected, NodeOf
<1>5. HoldersCameFirst'
  BY DEF HoldersCameFirst, Holds, Connected, Wins, NumbersBelowNext
<1> QED BY <1>1, <1>2, <1>3, <1>4, <1>5

(* The comparison loop is what makes a holder the first of its kind. *)
LEMMA ListIInv ==
  ASSUME MutexIInv, NEW o \in Objects, List(o)
  PROVE  MutexIInv'
<1> USE DEF List, MutexIInv, MutexTypeOK
<1>1. MutexTypeOK'
  OBVIOUS
<1>2. NumbersBelowNext' /\ FilesDiffer' /\ HoldersIdle'
  BY DEF NumbersBelowNext, FilesDiffer, HoldersIdle
<1>3. NodeInUse'
  BY DEF NodeInUse, UsesNode, Connected, NodeOf
<1>4. HoldersCameFirst'
  BY DEF HoldersCameFirst, Holds, Connected, Wins
<1> QED BY <1>1, <1>2, <1>3, <1>4

(* A list that fails only ends the attempt.                                *)
LEMMA ListFailsIInv ==
  ASSUME MutexIInv, NEW o \in Objects, ListFails(o)
  PROVE  MutexIInv'
<1> USE DEF ListFails, MutexIInv, MutexTypeOK
<1>1. MutexTypeOK' /\ NumbersBelowNext' /\ FilesDiffer' /\ HoldersIdle'
  BY DEF NumbersBelowNext, FilesDiffer, HoldersIdle
<1>2. NodeInUse'
  BY DEF NodeInUse, UsesNode, Connected, NodeOf
<1>3. HoldersCameFirst'
  BY DEF HoldersCameFirst, Holds, Connected, Wins
<1> QED BY <1>1, <1>2, <1>3

(* Removing the node of one object leaves the nodes in use by the others,  *)
(* because their numbers differ.                                           *)
LEMMA RemoveKeepsOthers ==
  ASSUME MutexIInv, NEW o \in Objects, Remove(o), UsesNode(o),
         NEW p \in Objects \ {o}, NodeOf(p) \in children
  PROVE  NodeOf(p) \in children'
<1>1. seqfile[o] # 0
  BY DEF MutexIInv, NodeInUse
<1>2. NodeOf(p).seq # seqfile[o]
  BY <1>1 DEF MutexIInv, FilesDiffer, NodeOf
<1> QED BY <1>2 DEF Remove, Without

(* A remove, lost or not, adds no node.                                    *)
LEMMA RemoveShrinks ==
  ASSUME MutexIInv, NEW o \in Objects, Remove(o)
  PROVE  children' \subseteq children /\ fails' \in Nat
BY DEF Remove, Without, MutexIInv, MutexTypeOK

(* The loser's remove ends an attempt that has not won.                    *)
LEMMA RemoveLoserIInv ==
  ASSUME MutexIInv, NEW o \in Objects, RemoveLoser(o)
  PROVE  MutexIInv'
<1>1. Remove(o) /\ children' \subseteq children /\ fails' \in Nat
  BY RemoveShrinks DEF RemoveLoser
<1>2. UsesNode(o)
  BY DEF RemoveLoser, UsesNode
<1>3. MutexTypeOK' /\ NumbersBelowNext' /\ FilesDiffer' /\ HoldersIdle'
  BY <1>1 DEF RemoveLoser, MutexIInv, MutexTypeOK, NumbersBelowNext, FilesDiffer, HoldersIdle
<1>4. NodeInUse'
  <2>1. ASSUME NEW p \in Objects \ {o}, UsesNode(p)', Connected(p)'
        PROVE  NodeOf(p)' \in children'
    <3>1. UsesNode(p) /\ Connected(p) /\ NodeOf(p)' = NodeOf(p)
      BY <2>1 DEF RemoveLoser, UsesNode, Connected, NodeOf, MutexIInv, MutexTypeOK
    <3> QED BY <1>1, <1>2, <3>1, RemoveKeepsOthers DEF MutexIInv, NodeInUse
  <2>2. \A p \in Objects : UsesNode(p)' => seqfile'[p] # 0
    BY DEF RemoveLoser, MutexIInv, MutexTypeOK, NodeInUse, UsesNode
  <2>3. UsesNode(o)' /\ Connected(o)' => NodeOf(o)' \in children'
    <3>1. ~has[o]
      BY DEF RemoveLoser, MutexIInv, HoldersIdle
    <3> QED BY <3>1 DEF RemoveLoser, UsesNode, MutexIInv, MutexTypeOK
  <2> QED BY <2>1, <2>2, <2>3 DEF NodeInUse
<1>5. HoldersCameFirst'
  BY <1>1 DEF RemoveLoser, MutexIInv, MutexTypeOK, HoldersCameFirst, Holds, Connected, Wins
<1> QED BY <1>3, <1>4, <1>5 DEF MutexIInv

(* The destructor gives up the lock together with its node.                *)
LEMMA DestroyIInv ==
  ASSUME MutexIInv, NEW o \in Objects, Destroy(o)
  PROVE  MutexIInv'
<1>1. Remove(o) /\ children' \subseteq children /\ fails' \in Nat
  BY RemoveShrinks DEF Destroy
<1>2. UsesNode(o) /\ pc[o] = "idle"
  BY DEF Destroy, UsesNode, MutexIInv, HoldersIdle
<1>3. MutexTypeOK' /\ NumbersBelowNext' /\ FilesDiffer' /\ HoldersIdle'
  BY <1>1 DEF Destroy, MutexIInv, MutexTypeOK, NumbersBelowNext, FilesDiffer, HoldersIdle
<1>4. NodeInUse'
  <2>1. ASSUME NEW p \in Objects \ {o}, UsesNode(p)', Connected(p)'
        PROVE  NodeOf(p)' \in children'
    <3>1. UsesNode(p) /\ Connected(p) /\ NodeOf(p)' = NodeOf(p)
      BY <2>1 DEF Destroy, UsesNode, Connected, NodeOf, MutexIInv, MutexTypeOK
    <3> QED BY <1>1, <1>2, <3>1, RemoveKeepsOthers DEF MutexIInv, NodeInUse
  <2>2. ~UsesNode(o)'
    BY <1>2 DEF Destroy, UsesNode, MutexIInv, MutexTypeOK
  <2>3. \A p \in Objects : UsesNode(p)' => seqfile'[p] # 0
    BY <2>2 DEF Destroy, MutexIInv, MutexTypeOK, NodeInUse, UsesNode
  <2> QED BY <2>1, <2>2, <2>3 DEF NodeInUse
<1>5. HoldersCameFirst'
  BY <1>1 DEF Destroy, MutexIInv, MutexTypeOK, HoldersCameFirst, Holds, Connected, Wins
<1> QED BY <1>3, <1>4, <1>5 DEF MutexIInv

(* A process that ends takes its objects with it and touches no node. *)
LEMMA DropObjectsIInv ==
  ASSUME MutexIInv, NEW s \in Sessions, DropObjects(s), UNCHANGED <<children, next>>,
         fails' = fails, NEW st \in SessionState \ {"live"},
         life' = [life EXCEPT ![s] = st]
  PROVE  MutexIInv'
<1> USE DEF DropObjects, MutexIInv, MutexTypeOK
<1>1. MutexTypeOK'
  OBVIOUS
<1>2. NumbersBelowNext' /\ FilesDiffer' /\ HoldersIdle'
  BY DEF NumbersBelowNext, FilesDiffer, HoldersIdle
<1>3. NodeInUse'
  BY DEF NodeInUse, UsesNode, Connected, NodeOf
<1>4. HoldersCameFirst'
  BY DEF HoldersCameFirst, Holds, Connected, Wins
<1> QED BY <1>1, <1>2, <1>3, <1>4

(* ZooKeeper removes the nodes of a session together with the session's    *)
(* claim to its locks.                                                     *)
LEMMA ExpireIInv ==
  ASSUME MutexIInv, NEW s \in Sessions, ExpireSession(s)
  PROVE  MutexIInv'
<1> USE DEF ExpireSession, objs, MutexIInv, MutexTypeOK
<1>1. MutexTypeOK'
  BY DEF SessionState
<1>2. NumbersBelowNext' /\ FilesDiffer' /\ HoldersIdle'
  BY DEF NumbersBelowNext, FilesDiffer, HoldersIdle
<1>3. NodeInUse'
  BY DEF NodeInUse, UsesNode, Connected, NodeOf
<1>4. HoldersCameFirst'
  BY DEF HoldersCameFirst, Holds, Connected, Wins
<1> QED BY <1>1, <1>2, <1>3, <1>4

(* So every step of a process or session keeps the invariant.              *)
LEMMA SessionStepIInv ==
  ASSUME MutexIInv, NEW s \in Sessions, SessionStep(s)
  PROVE  MutexIInv'
<1>1. CASE CrashSession(s)
  BY <1>1, DropObjectsIInv DEF CrashSession, SessionState
<1>2. CASE ExpireSession(s)
  BY <1>2, ExpireIInv
<1>3. CASE ExitExpired(s)
  BY <1>3, DropObjectsIInv DEF ExitExpired, SessionState
<1> QED BY <1>1, <1>2, <1>3 DEF SessionStep

(* The invariant is inductive. *)
THEOREM MutexInvariance == MutexSpec => []MutexIInv
<1>1. MutexIInv /\ [MutexNext]_mutexVars => MutexIInv'
  <2> SUFFICES ASSUME MutexIInv, [MutexNext]_mutexVars PROVE MutexIInv'
    OBVIOUS
  <2>1. ASSUME NEW o \in Objects, ObjectStep(o) PROVE MutexIInv'
    BY <2>1, CreateSeqIInv, CreateSeqFailsIInv, ListIInv, ListFailsIInv,
       RemoveLoserIInv, DestroyIInv DEF ObjectStep
  <2>2. ASSUME NEW s \in Sessions, SessionStep(s) PROVE MutexIInv'
    BY <2>2, SessionStepIInv
  <2>3. CASE UNCHANGED mutexVars
    BY <2>3 DEF mutexVars, MutexIInv, MutexTypeOK, NumbersBelowNext, FilesDiffer, HoldersIdle,
       NodeInUse, UsesNode, NodeOf, HoldersCameFirst, Holds, Connected, Wins
  <2> QED BY <2>1, <2>2, <2>3 DEF MutexNext
<1> QED BY <1>1, MutexInitIInv, PTL DEF MutexSpec

(* zkmutex's state stays well typed: sequence numbers, session states and  *)
(* the flags of every object, for any number of contenders.                *)
THEOREM MutexTypeCorrect == MutexSpec => []MutexTypeOK
<1>1. MutexIInv => MutexTypeOK
  BY DEF MutexIInv
<1> QED BY <1>1, MutexInvariance, PTL

(* Of two connected holders the one with the later node would have seen    *)
(* the earlier one's node, so their modes do not exclude each other.       *)
LEMMA IInvExcludes == MutexIInv => MutualExclusion
<1> SUFFICES ASSUME MutexIInv, NEW o \in Objects, NEW p \in Objects,
                    o # p, Holds(o), Holds(p), Conflicts(mode[o], mode[p])
             PROVE  FALSE
  BY DEF MutualExclusion
<1>1. NodeOf(o) \in children /\ NodeOf(p) \in children /\ seqfile[o] # seqfile[p]
  BY DEF MutexIInv, NodeInUse, UsesNode, Holds, FilesDiffer
<1>2. Wins(o) /\ Wins(p)
  BY DEF MutexIInv, HoldersCameFirst
<1>3. seqfile[p] >= seqfile[o]
  BY <1>1, <1>2 DEF Wins, NodeOf
<1>4. Conflicts(mode[p], mode[o])
  BY DEF Conflicts
<1>5. seqfile[o] >= seqfile[p]
  BY <1>1, <1>2, <1>4 DEF Wins, NodeOf
<1> QED BY <1>1, <1>3, <1>5 DEF MutexIInv, MutexTypeOK

(* No two connected zkmutex objects hold one lock in excluding modes, for  *)
(* any number of processes, objects, lost calls, crashes and expiries.     *)
THEOREM ZkMutexExcludes == MutexSpec => []MutualExclusion
BY IInvExcludes, MutexInvariance, PTL

-----------------------------------------------------------------------------
(* Refinement: the abstract lock sees who holds what, and nothing of the   *)
(* nodes. *)

(* No node, no holder: the initial states map to the one of RWLock. *)
LEMMA InitRefines == MutexInit => RW!Init
BY DEF MutexInit, RW!Init, Held, Holds

(* The loop that grants the lock is the only step that adds a holder. *)
LEMMA ListRefines ==
  ASSUME MutexIInv, NEW o \in Objects, List(o), MutualExclusion'
  PROVE  [RW!Next]_Held
<1> USE DEF MutexIInv, MutexTypeOK
<1>1. CASE ~Wins(o)
  BY <1>1 DEF List, Held, Holds, Connected
<1>2. CASE Wins(o)
  <2>1. ~has[o]
    BY DEF List, HoldersIdle
  <2>2. Held' = [Held EXCEPT ![o] = mode[o]]
    BY <1>2 DEF List, Held, Holds, Connected
  <2>3. ASSUME NEW p \in Objects, Held[p] # "none"
        PROVE  ~RW!Conflicts(mode[o], Held[p])
    <3>1. p # o /\ Holds(p) /\ Held[p] = mode[p]
      BY <2>1, <2>3 DEF Held, Holds
    <3>2. Holds(p)' /\ Holds(o)' /\ mode' = mode
      BY <1>2, <3>1 DEF List, Holds, Connected
    <3>3. ~Conflicts(mode[o], mode[p])
      BY <3>1, <3>2 DEF MutualExclusion, Conflicts
    <3> QED BY <3>1, <3>3 DEF Conflicts, RW!Conflicts
  <2>4. RW!Acquire(o, mode[o])
    BY <2>1, <2>2, <2>3 DEF RW!Acquire, Held, Holds
  <2> QED BY <2>4 DEF RW!Next, RW!Modes, Modes
<1> QED BY <1>1, <1>2

(* Every other step of an object leaves the holders alone or gives up one. *)
LEMMA ObjectStepRefines ==
  ASSUME MutexIInv, NEW o \in Objects, ObjectStep(o), MutualExclusion'
  PROVE  [RW!Next]_Held
<1> USE DEF MutexIInv, MutexTypeOK, Held, Holds, Connected
<1>1. ASSUME NEW m \in Modes, CreateSeq(o, m) \/ CreateSeqFails(o, m)
      PROVE  Held' = Held
  BY <1>1 DEF CreateSeq, CreateSeqFails
<1>2. CASE ListFails(o) \/ RemoveLoser(o)
  BY <1>2 DEF ListFails, RemoveLoser
<1>3. CASE Destroy(o)
  <2>1. RW!Release({o})
    BY <1>3 DEF Destroy, RW!Release
  <2> QED BY <2>1 DEF RW!Next
<1>4. CASE List(o)
  BY <1>4, ListRefines
<1> QED BY <1>1, <1>2, <1>3, <1>4 DEF ObjectStep

(* The end of a session releases all the locks of its process at once. *)
LEMMA SessionStepRefines ==
  ASSUME MutexIInv, NEW s \in Sessions, SessionStep(s)
  PROVE  [RW!Next]_Held
<1> DEFINE S == {o \in Objects : Owner[o] = s}
<1>1. RW!Release(S)
  BY DEF SessionStep, CrashSession, ExpireSession, ExitExpired, DropObjects, objs,
         RW!Release, Held, Holds, Connected, MutexIInv, MutexTypeOK
<1> QED BY <1>1 DEF RW!Next

(* zkmutex implements the read/write lock: what its users see of any run   *)
(* over ZooKeeper is a run of RWLock. *)
THEOREM ZkMutexImplementsRWLock == MutexSpec => ImplementsRWLock
<1>1. MutexIInv /\ MutualExclusion' /\ [MutexNext]_mutexVars => [RW!Next]_Held
  <2> SUFFICES ASSUME MutexIInv, MutualExclusion', [MutexNext]_mutexVars
               PROVE  [RW!Next]_Held
    OBVIOUS
  <2>1. CASE UNCHANGED mutexVars
    BY <2>1 DEF mutexVars, Held, Holds, Connected
  <2> QED BY <2>1, ObjectStepRefines, SessionStepRefines DEF MutexNext
<1> QED BY <1>1, InitRefines, MutexInvariance, ZkMutexExcludes, PTL
        DEF MutexSpec, ImplementsRWLock, RW!Spec

-----------------------------------------------------------------------------
(* Nodes that stay behind. *)

StrayNodes == {z \in children : Stray(z)}

CInv == MutexIInv /\ IsFiniteSet(children) /\ StrayNodesFromLostCalls

(* A step that strays no node, or one for a call it loses.                 *)
LEMMA StraysCounted ==
  ASSUME CInv, IsFiniteSet(children)', fails' \in Nat, NEW z,
         \/ StrayNodes' \subseteq StrayNodes /\ fails' >= fails
         \/ StrayNodes' \subseteq StrayNodes \cup {z} /\ fails' = fails + 1
  PROVE  StrayNodesFromLostCalls'
<1>1. fails \in Nat /\ Cardinality(StrayNodes) <= fails
  BY DEF CInv, MutexIInv, MutexTypeOK, StrayNodesFromLostCalls, StrayNodes
<1>2. IsFiniteSet(StrayNodes) /\ Cardinality(StrayNodes) \in Nat
  BY FS_Subset, FS_CardinalityType DEF CInv, StrayNodes
<1>3. /\ IsFiniteSet(StrayNodes \cup {z})
      /\ Cardinality(StrayNodes \cup {z}) \in Nat
      /\ Cardinality(StrayNodes \cup {z}) <= Cardinality(StrayNodes) + 1
  <2>1. IsFiniteSet(StrayNodes \cup {z}) /\ Cardinality(StrayNodes \cup {z}) \in Nat
    BY <1>2, FS_AddElement, FS_CardinalityType
  <2>2. \/ Cardinality(StrayNodes \cup {z}) = Cardinality(StrayNodes)
        \/ Cardinality(StrayNodes \cup {z}) = Cardinality(StrayNodes) + 1
    BY <1>2, FS_AddElement, Zenon
  <2> QED BY <1>2, <2>1, <2>2
<1>4. Cardinality(StrayNodes') <= fails' 
  <2>1. CASE StrayNodes' \subseteq StrayNodes /\ fails' >= fails
    <3>1. Cardinality(StrayNodes') \in Nat /\ Cardinality(StrayNodes') <= Cardinality(StrayNodes)
      BY <1>2, <2>1, FS_Subset, FS_CardinalityType
    <3> QED BY <1>1, <1>2, <2>1, <3>1
  <2>2. CASE StrayNodes' \subseteq StrayNodes \cup {z} /\ fails' = fails + 1
    <3>1. /\ Cardinality(StrayNodes') \in Nat
          /\ Cardinality(StrayNodes') <= Cardinality(StrayNodes \cup {z})
      BY <1>3, <2>2, FS_Subset, FS_CardinalityType
    <3> QED BY <1>1, <1>2, <1>3, <2>2, <3>1
  <2> QED BY <2>1, <2>2
<1> QED BY <1>4 DEF StrayNodesFromLostCalls, StrayNodes

(* The objects that will remove z, and their part in whether it is stray.  *)
Removes(o, z) == NodeOf(o) = z /\ (has[o] \/ pc[o] \in {"created", "lost"})

(* The stray nodes, by what they are. *)
LEMMA StrayIs ==
  \A z :
    /\ Stray(z) <=> life[z.sess] = "live" /\ ~\E o \in Objects : Removes(o, z)
    /\ Stray(z)' <=> life'[z.sess] = "live" /\ ~\E o \in Objects : Removes(o, z)'
  BY DEF Stray, Removes

(* An attempt: what o has made it will remove, unless a call is lost.      *)
LEMMA AttemptStrays ==
  ASSUME CInv, NEW o \in Objects, NEW m \in Modes,
         CreateSeq(o, m) \/ CreateSeqFails(o, m) \/ List(o)
  PROVE  CInv'
<1> PICK new : new = [seq |-> next, kind |-> m, sess |-> Owner[o]]
  OBVIOUS
<1>1. MutexIInv'
  BY CreateSeqIInv, CreateSeqFailsIInv, ListIInv DEF CInv
<1>2. IsFiniteSet(children)'
  <2>1. children' = children \/ children' = children \cup {new}
    BY DEF CreateSeq, CreateSeqFails, List, NewNode
  <2>2. IsFiniteSet(children \cup {new})
    BY FS_AddElement, Zenon DEF CInv
  <2> QED BY <2>1, <2>2, Zenon DEF CInv
<1>3. \A z : \A p \in Objects : p # o => (Removes(p, z)' <=> Removes(p, z))
  BY DEF CInv, MutexIInv, MutexTypeOK, CreateSeq, CreateSeqFails, List, Removes, NodeOf
<1>4. life' = life /\ fails' \in Nat
  BY <1>1 DEF CreateSeq, CreateSeqFails, List, MutexIInv, MutexTypeOK
<1>5. CASE CreateSeq(o, m)
  <2>1. \A z : ~Removes(o, z)
    BY <1>5 DEF CreateSeq, Removes
  <2>2. Removes(o, new)' /\ children' = children \cup {new} /\ fails' = fails
    BY <1>5 DEF CreateSeq, NewNode, Removes, NodeOf, CInv, MutexIInv, MutexTypeOK
  <2>3. StrayNodes' \subseteq StrayNodes
    BY <1>3, <1>4, <2>1, <2>2, StrayIs DEF StrayNodes
  <2> QED BY <1>1, <1>2, <1>4, <2>2, <2>3, StraysCounted DEF CInv, MutexIInv, MutexTypeOK
<1>6. CASE CreateSeqFails(o, m)
  <2>1. \A z : ~Removes(o, z)
    BY <1>6 DEF CreateSeqFails, Removes, CInv, MutexIInv, MutexTypeOK
  <2>2. \/ children' = children /\ fails' >= fails
        \/ children' = children \cup {new} /\ fails' = fails + 1
    BY <1>6 DEF CreateSeqFails, NewNode, CInv, MutexIInv, MutexTypeOK
  <2>3. \A z : Stray(z)' => Stray(z)
    BY <1>3, <1>4, <2>1, StrayIs
  <2>4. \/ StrayNodes' \subseteq StrayNodes /\ fails' >= fails
        \/ StrayNodes' \subseteq StrayNodes \cup {new} /\ fails' = fails + 1
    BY <2>2, <2>3 DEF StrayNodes
  <2> QED BY <1>1, <1>2, <1>4, <2>4, StraysCounted DEF CInv
<1>7. CASE List(o)
  <2>1. \A z : Removes(o, z) => Removes(o, z)'
    BY <1>7 DEF List, Removes, NodeOf, CInv, MutexIInv, MutexTypeOK
  <2>2. StrayNodes' \subseteq StrayNodes /\ fails' = fails
    BY <1>3, <1>4, <1>7, <2>1, StrayIs DEF List, StrayNodes
  <2> QED BY <1>1, <1>2, <1>4, <2>2, StraysCounted DEF CInv, MutexIInv, MutexTypeOK
<1> QED BY <1>5, <1>6, <1>7

(* The end of an attempt or of a lock: the node is removed, or goes with   *)
(* its session, or a call is lost.                                         *)
LEMMA EndStrays ==
  ASSUME CInv, NEW o \in Objects, ListFails(o) \/ RemoveLoser(o) \/ Destroy(o)
  PROVE  CInv'
<1>1. MutexIInv'
  BY ListFailsIInv, RemoveLoserIInv, DestroyIInv DEF CInv
<1>2. IsFiniteSet(children)'
  <2>1. children' \subseteq children
    BY DEF ListFails, RemoveLoser, Destroy, Remove, Without
  <2> QED BY <2>1, FS_Subset DEF CInv
<1>3. \A z : \A p \in Objects : p # o => (Removes(p, z)' <=> Removes(p, z))
  BY DEF CInv, MutexIInv, MutexTypeOK, ListFails, RemoveLoser, Destroy, Removes, NodeOf
<1>4. life' = life /\ fails' \in Nat /\ fails \in Nat
  BY <1>1 DEF ListFails, RemoveLoser, Destroy, CInv, MutexIInv, MutexTypeOK
<1>5. \/ NodeOf(o) \notin children' /\ children' \subseteq children /\ fails' = fails
      \/ life[Owner[o]] # "live" /\ children' = children /\ fails' = fails
      \/ children' = children /\ fails' = fails + 1
  BY DEF ListFails, RemoveLoser, Destroy, Remove, Without, NodeOf, Connected
<1>6. \A z : z # NodeOf(o) => (Stray(z)' => Stray(z))
  BY <1>3, <1>4, StrayIs DEF Removes
<1>7. \/ StrayNodes' \subseteq StrayNodes /\ fails' >= fails
      \/ StrayNodes' \subseteq StrayNodes \cup {NodeOf(o)} /\ fails' = fails + 1
  <2>1. NodeOf(o).sess = Owner[o]
    BY DEF NodeOf
  <2> QED BY <1>4, <1>5, <1>6, <2>1 DEF StrayNodes, Stray
<1> QED BY <1>1, <1>2, <1>4, <1>7, StraysCounted DEF CInv

(* The end of a session: its nodes are not those of a running process.     *)
LEMMA SessionStrays ==
  ASSUME CInv, NEW s \in Sessions, SessionStep(s)
  PROVE  CInv'
<1>1. MutexIInv'
  BY SessionStepIInv DEF CInv
<1>2. children' \subseteq children /\ fails' = fails /\ fails \in Nat
  BY DEF SessionStep, CrashSession, ExpireSession, ExitExpired, CInv, MutexIInv, MutexTypeOK
<1>3. IsFiniteSet(children)'
  BY <1>2, FS_Subset DEF CInv
<1>4. \A t \in Sessions : life'[t] = "live" => t # s /\ life[t] = "live"
  BY DEF SessionStep, CrashSession, ExpireSession, ExitExpired, CInv, MutexIInv, MutexTypeOK
<1>5. \A z : \A p \in Objects : z.sess # s => (Removes(p, z) => Removes(p, z)')
  <2> SUFFICES ASSUME NEW p \in Objects, NEW z, z.sess # s, Removes(p, z)
               PROVE  Removes(p, z)'
    OBVIOUS
  <2>1. Owner[p] # s
    BY DEF Removes, NodeOf
  <2>2. seqfile'[p] = seqfile[p] /\ has'[p] = has[p] /\ pc'[p] = pc[p] /\ mode' = mode
    BY <2>1 DEF SessionStep, CrashSession, ExpireSession, ExitExpired, DropObjects, objs
  <2> QED BY <2>2 DEF Removes, NodeOf
<1>6. \A z \in children : z.sess \in Sessions
  BY DEF CInv, MutexIInv, MutexTypeOK, Node
<1>7. StrayNodes' \subseteq StrayNodes
  BY <1>2, <1>4, <1>5, <1>6, StrayIs DEF StrayNodes
<1> QED BY <1>1, <1>2, <1>3, <1>7, StraysCounted DEF CInv

(* Whatever the interleaving of attempts, crashes and expiries, no more    *)
(* nodes of running processes stay behind than calls were lost.            *)
THEOREM OnlyLostCallsStray == MutexSpec => []StrayNodesFromLostCalls
<1>1. MutexInit => CInv
  <2>1. MutexInit => IsFiniteSet(children) /\ StrayNodes = {} /\ fails = 0
    BY FS_EmptySet DEF MutexInit, StrayNodes
  <2> QED BY <2>1, MutexInitIInv, FS_EmptySet DEF CInv, StrayNodesFromLostCalls, StrayNodes
<1>2. CInv /\ [MutexNext]_mutexVars => CInv'
  <2>1. SUFFICES ASSUME CInv, [MutexNext]_mutexVars PROVE CInv'
    OBVIOUS
  <2>2. CASE UNCHANGED mutexVars
    <3>1. MutexIInv' /\ IsFiniteSet(children)'
      BY <2>1, <2>2 DEF CInv, mutexVars, MutexIInv, MutexTypeOK, NumbersBelowNext, FilesDiffer,
         HoldersIdle, NodeInUse, UsesNode, NodeOf, HoldersCameFirst, Holds,
         Connected, Wins
    <3>2. StrayNodesFromLostCalls'
      BY <2>1, <2>2 DEF CInv, mutexVars, StrayNodesFromLostCalls, Stray, NodeOf
    <3> QED BY <3>1, <3>2 DEF CInv
  <2>3. ASSUME NEW o \in Objects, ObjectStep(o) PROVE CInv'
    <3>1. ASSUME NEW m \in Modes, CreateSeq(o, m) \/ CreateSeqFails(o, m) PROVE CInv'
      BY <2>1, <3>1, AttemptStrays
    <3>2. CASE List(o)
      <4>1. "w" \in Modes
        BY DEF Modes
      <4> QED BY <2>1, <3>2, <4>1, AttemptStrays
    <3>3. CASE ListFails(o) \/ RemoveLoser(o) \/ Destroy(o)
      BY <2>1, <3>3, EndStrays
    <3> QED BY <2>3, <3>1, <3>2, <3>3 DEF ObjectStep
  <2>4. ASSUME NEW s \in Sessions, SessionStep(s) PROVE CInv'
    BY <2>1, <2>4, SessionStrays
  <2> QED BY <2>1, <2>2, <2>3, <2>4 DEF MutexNext
<1>3. CInv => StrayNodesFromLostCalls
  BY DEF CInv
<1> QED BY <1>1, <1>2, <1>3, PTL DEF MutexSpec

-----------------------------------------------------------------------------
(* Servers and commands *)


USE StartupAssumption

User == Process \cup Command

(* What is kept of a command. *)
Cmds == [do : {"write", "delete", None}, value : Configs \cup {None},
          at : {"idle", "prepare", "exists", "lock", "check", "create", "remove", "set", "over"},
          retry : Nat]

(* The types the steps rely on. *)
Typed ==
  /\ main \in [Process -> Mains]
  /\ action \in [Process -> {"exit", "stop", None}]
  /\ sig \in [Process -> {"wait", "stop_mixer", "unlock", "close", "end", "over"}]
  /\ conf \in [Process -> Configs \cup {None}]
  /\ rpc \in [Process -> BOOLEAN]
  /\ held \in [User -> {"none", "r", "w"}]
  /\ nodes \subseteq Process
  /\ cmd \in [Command -> Cmds]

(* A process that has listened serves until its signal thread is done, the *)
(* signal thread stops a process only after the main thread has handed it  *)
(* the action, which is after the registration, and a server's node is     *)
(* gone when the signal thread comes to the RPC server.                    *)
Placed ==
  /\ \A p \in nodes : main[p] \in {"watch", "handle", "mix", "join", "dead"}
  /\ \A p \in Process :
       main[p] \in {"register", "watch", "handle", "mix", "join"} => rpc[p] \/ sig[p] = "over"
  /\ \A p \in Process : Alive(p) /\ sig[p] = "wait" => action[p] \in {"exit", "stop"}
  /\ \A p \in Process :
       action[p] = "stop" \/ sig[p] # "wait" => main[p] \in {"mix", "join", "dead"}
  /\ \A p \in Process \ Proxy : sig[p] \in {"end", "over"} => p \notin nodes

(* Until it may be stopped, a server with a session holds the lock it read *)
(* its configuration under; so does a command that looks for servers.      *)
Locked ==
  /\ \A o, q \in User : held[o] = "w" /\ q # o => held[q] = "none"
  /\ \A p \in Process \ Proxy :
       p \in session /\ main[p] \in {"configure", "listen", "register"} => held[p] = "r"
  /\ \A c \in Command :
       c \in session /\ cmd[c].at \in {"check", "create", "remove", "set"} => held[c] = "w"

(* A command that goes on has seen that no server is listed, or was blind. *)
Configured ==
  /\ \A p \in Process :
       main[p] \in {"off", "connect", "prepare", "lock", "configure"} => conf[p] = None
  /\ \A p \in Proxy : conf[p] = None /\ main[p] \notin {"lock", "configure"}
  /\ \A c \in Command :
       c \in session /\ cmd[c].at \in {"create", "remove", "set"} => nodes \subseteq Proxy \/ blind
  /\ ConfigAgrees

IInv == Typed /\ Placed /\ Locked /\ Configured

(* The first state satisfies the invariant. *)
LEMMA InitIInv == Init => IInv
<1>1. SUFFICES ASSUME Init PROVE IInv
  OBVIOUS
<1>2. Typed
  BY <1>1 DEF Init, Typed, Cmds, ConfigLock!Init, Mains, None, User
<1>3. Placed
  BY <1>1 DEF Init, Placed, Alive, None
<1>4. Locked
  BY <1>1 DEF Init, Locked, ConfigLock!Init, User
<1>5. Configured
  BY <1>1 DEF Init, Configured, ConfigAgrees, Alive, None
<1> QED BY <1>2, <1>3, <1>4, <1>5 DEF IInv

-----------------------------------------------------------------------------
(* Where a command goes on is the only thing that changes about it. *)
LEMMA GoesTyped ==
  ASSUME Typed, NEW c \in Command, NEW to \in {"lock", "check", "set", "over"}, Goes(c, to)
  PROVE  cmd' \in [Command -> Cmds]
<1>1. [cmd[c] EXCEPT !.at = to] \in Cmds
  BY DEF Typed, Cmds
<1> QED BY <1>1 DEF Typed, Goes

(* Every step keeps the types. *)
LEMMA TypedStep == ASSUME Typed, [Next]_vars PROVE Typed'
<1> USE DEF Typed, Cmds, User, Mains, None, Configs
<1>1. ASSUME NEW p \in Process, Boot(p) PROVE Typed'
  BY <1>1 DEF Boot, Steps, process, zk
<1>2. ASSUME NEW p \in Process, Connect(p) PROVE Typed'
  BY <1>2 DEF Connect, Steps, process, zk
<1>3. ASSUME NEW p \in Process, GiveUp(p) PROVE Typed'
  BY <1>3 DEF GiveUp, Exit, Quiet, CloseSession, ConfigLock!Release, process, zk
<1>4. ASSUME NEW p \in Process, Prepare(p) PROVE Typed'
  BY <1>4 DEF Prepare, Steps, process, zk
<1>5. ASSUME NEW p \in Process, LockConfig(p) PROVE Typed'
  BY <1>5 DEF LockConfig, ConfigLock!Acquire, process, zk
<1>6. ASSUME NEW p \in Process, LockAgain(p) PROVE Typed'
  BY <1>6 DEF LockAgain, process, zk
<1>7. ASSUME NEW p \in Process, Configure(p) PROVE Typed'
  BY <1>7 DEF Configure, Steps, Takes, process, zk
<1>8. ASSUME NEW p \in Process, Listen(p) PROVE Typed'
  BY <1>8 DEF Listen, Steps, process, zk
<1>9. ASSUME NEW p \in Process, Register(p) PROVE Typed'
  BY <1>9 DEF Register, Steps, process, zk
<1>10. ASSUME NEW p \in Process, Watch(p) PROVE Typed'
  BY <1>10 DEF Watch, Steps, process, zk
<1>11. ASSUME NEW p \in Process, Handle(p) PROVE Typed'
  BY <1>11 DEF Handle, Steps, process, zk
<1>12. ASSUME NEW p \in Process, StartMixer(p) PROVE Typed'
  BY <1>12 DEF StartMixer, Steps, process, zk
<1>13. ASSUME NEW p \in Process, RegisterProxy(p) PROVE Typed'
  BY <1>13 DEF RegisterProxy, Steps, process, zk
<1>14. ASSUME NEW p \in Process, HandleProxy(p) PROVE Typed'
  BY <1>14 DEF HandleProxy, Steps, process, zk
<1>15. ASSUME NEW p \in Process, Signal(p) PROVE Typed'
  <2>1. CASE action[p] = "exit"
    <3>1. Exit(p)
      BY <1>15, <2>1 DEF Signal
    <3> QED BY <3>1 DEF Exit, Quiet, CloseSession, ConfigLock!Release
  <2>2. CASE action[p] = "stop"
    BY <1>15, <2>2 DEF Signal, zk
  <2>3. CASE action[p] \notin {"exit", "stop"}
    BY <1>15, <2>3 DEF Signal, zk
  <2> QED BY <2>1, <2>2, <2>3
<1>16. ASSUME NEW p \in Process, StopMixer(p) PROVE Typed'
  BY <1>16 DEF StopMixer, SigStep, process, zk
<1>17. ASSUME NEW p \in Process, Unlock(p) PROVE Typed'
  BY <1>17 DEF Unlock, SigStep, ConfigLock!Release, process, zk
<1>18. ASSUME NEW p \in Process, Close(p) PROVE Typed'
  BY <1>18 DEF Close, SigStep, CloseSession, ConfigLock!Release, process, zk
<1>19. ASSUME NEW p \in Process, EndRpc(p) PROVE Typed'
  BY <1>19 DEF EndRpc, SigStep, process, zk
<1>20. ASSUME NEW p \in Process, Crash(p) PROVE Typed'
  BY <1>20 DEF Crash, Quiet, process, zk
<1>21. ASSUME NEW p \in Process, GetStatus(p) PROVE Typed'
  BY <1>21 DEF GetStatus, Quiet, process, zk
<1>22. ASSUME NEW p \in Process, Kill(p) PROVE Typed'
  BY <1>22 DEF Kill, process, zk
<1>23. ASSUME NEW p \in Process, DeleteActor(p) PROVE Typed'
  BY <1>23 DEF DeleteActor, process, zk
<1>24. ASSUME NEW p \in Process, Deleted(p) PROVE Typed'
  BY <1>24 DEF Deleted, process, zk
<1>25. ASSUME NEW o \in User, Expire(o) PROVE Typed'
  BY <1>25 DEF Expire, CloseSession, ConfigLock!Release
<1>26. ASSUME NEW c \in Command, NEW do \in {"write", "delete"},
            NEW v \in Configs \cup {None}, StartCommand(c, do, v)
     PROVE Typed'
  BY <1>26 DEF StartCommand, At, CmdUnchanged, process
<1>27. ASSUME NEW c \in Command, PreparePaths(c) PROVE Typed'
  BY <1>27 DEF PreparePaths, At, CmdUnchanged, Goes, process
<1>28. ASSUME NEW c \in Command, LockExists(c) PROVE Typed'
  BY <1>28 DEF LockExists, At, CmdUnchanged, Goes, process
<1>29. ASSUME NEW c \in Command, TryLock(c) PROVE Typed'
  <2>1. cmd' \in [Command -> Cmds]
    BY <1>29, GoesTyped DEF TryLock
  <2>2. held' \in [User -> {"none", "r", "w"}]
    BY <1>29 DEF TryLock, ConfigLock!Acquire
  <2> QED BY <1>29, <2>1, <2>2 DEF TryLock, CmdUnchanged, process
<1>30. ASSUME NEW c \in Command, TryAgain(c) PROVE Typed'
  BY <1>30 DEF TryAgain, At, CmdUnchanged, process
<1>31. ASSUME NEW c \in Command, NoWorkers(c) PROVE Typed'
  BY <1>31 DEF NoWorkers, At, CmdUnchanged, Goes, process
<1>32. ASSUME NEW c \in Command, CreateConfig(c) PROVE Typed'
  BY <1>32 DEF CreateConfig, At, CmdUnchanged, Goes, process
<1>33. ASSUME NEW c \in Command, WriteConfig(c) PROVE Typed'
  <2>1. EndCommand(c)
    BY <1>33 DEF WriteConfig
  <2>2. cmd' \in [Command -> Cmds]
    BY <2>1, GoesTyped DEF EndCommand
  <2>3. held' \in [User -> {"none", "r", "w"}]
    BY <2>1 DEF EndCommand, ConfigLock!Release
  <2> QED BY <2>1, <2>2, <2>3 DEF EndCommand, CmdUnchanged, process
<1>34. ASSUME NEW c \in Command, RemoveConfig(c) PROVE Typed'
  BY <1>34 DEF RemoveConfig, At, CmdUnchanged, EndCommand, Goes, ConfigLock!Release,
     process
<1>35. ASSUME NEW c \in Command, GiveUpCommand(c) PROVE Typed'
  BY <1>35 DEF GiveUpCommand, At, CmdUnchanged, EndCommand, Goes,
     ConfigLock!Release, process
<1>36. CASE UNCHANGED vars
  BY <1>36 DEF vars, process, zk
<1> QED BY <1>1, <1>2, <1>3, <1>4, <1>5, <1>6, <1>7, <1>8, <1>9, <1>10, <1>11,
      <1>12, <1>13, <1>14, <1>15, <1>16, <1>17, <1>18, <1>19, <1>20, <1>21, <1>22,
      <1>23, <1>24, <1>25, <1>26, <1>27, <1>28, <1>29, <1>30, <1>31, <1>32, <1>33,
      <1>34, <1>35, <1>36 DEF Next, Main, SignalThread, Runs

(* Commands leave processes alone, and a process changes only itself. *)
LEMMA PlacedStep == ASSUME Typed, Placed, [Next]_vars PROVE Placed'
<1> USE DEF Typed, Placed, Alive, None, Mains, User
<1>1. ASSUME NEW p \in Process, Boot(p) PROVE Placed'
  BY <1>1 DEF Boot, Steps, process, zk
<1>2. ASSUME NEW p \in Process, Connect(p) PROVE Placed'
  BY <1>2 DEF Connect, Steps, process, zk
<1>3. ASSUME NEW p \in Process, GiveUp(p) PROVE Placed'
  BY <1>3 DEF GiveUp, Exit, Quiet, CloseSession, ConfigLock!Release, process, zk
<1>4. ASSUME NEW p \in Process, Prepare(p) PROVE Placed'
  BY <1>4 DEF Prepare, Steps, process, zk
<1>5. ASSUME NEW p \in Process, LockConfig(p) PROVE Placed'
  BY <1>5 DEF LockConfig, ConfigLock!Acquire, process, zk
<1>6. ASSUME NEW p \in Process, LockAgain(p) PROVE Placed'
  BY <1>6 DEF LockAgain, process, zk
<1>7. ASSUME NEW p \in Process, Configure(p) PROVE Placed'
  BY <1>7 DEF Configure, Steps, Takes, process, zk
<1>8. ASSUME NEW p \in Process, Listen(p) PROVE Placed'
  BY <1>8 DEF Listen, Steps, process, zk
<1>9. ASSUME NEW p \in Process, Register(p) PROVE Placed'
  BY <1>9 DEF Register, Steps, process, zk
<1>10. ASSUME NEW p \in Process, Watch(p) PROVE Placed'
  BY <1>10 DEF Watch, Steps, process, zk
<1>11. ASSUME NEW p \in Process, Handle(p) PROVE Placed'
  BY <1>11 DEF Handle, Steps, process, zk
<1>12. ASSUME NEW p \in Process, StartMixer(p) PROVE Placed'
  BY <1>12 DEF StartMixer, Steps, process, zk
<1>13. ASSUME NEW p \in Process, RegisterProxy(p) PROVE Placed'
  BY <1>13 DEF RegisterProxy, Steps, process, zk
<1>14. ASSUME NEW p \in Process, HandleProxy(p) PROVE Placed'
  BY <1>14 DEF HandleProxy, Steps, process, zk
<1>15. ASSUME NEW p \in Process, Signal(p) PROVE Placed'
  BY <1>15 DEF Signal, Exit, Quiet, CloseSession, ConfigLock!Release, process, zk
<1>16. ASSUME NEW p \in Process, StopMixer(p) PROVE Placed'
  BY <1>16 DEF StopMixer, SigStep, process, zk
<1>17. ASSUME NEW p \in Process, Unlock(p) PROVE Placed'
  BY <1>17 DEF Unlock, SigStep, ConfigLock!Release, process, zk
<1>18. ASSUME NEW p \in Process, Close(p) PROVE Placed'
  BY <1>18 DEF Close, SigStep, CloseSession, ConfigLock!Release, process, zk
<1>19. ASSUME NEW p \in Process, EndRpc(p) PROVE Placed'
  BY <1>19 DEF EndRpc, SigStep, process, zk
<1>20. ASSUME NEW p \in Process, Crash(p) PROVE Placed'
  BY <1>20 DEF Crash, Quiet, process, zk
<1>21. ASSUME NEW p \in Process, GetStatus(p) PROVE Placed'
  BY <1>21 DEF GetStatus, Quiet, process, zk
<1>22. ASSUME NEW p \in Process, Kill(p) PROVE Placed'
  BY <1>22 DEF Kill, process, zk
<1>23. ASSUME NEW p \in Process, DeleteActor(p) PROVE Placed'
  BY <1>23 DEF DeleteActor, process, zk
<1>24. ASSUME NEW p \in Process, Deleted(p) PROVE Placed'
  BY <1>24 DEF Deleted, process, zk
<1>25. ASSUME NEW o \in User, Expire(o) PROVE Placed'
  BY <1>25 DEF Expire, CloseSession, ConfigLock!Release
<1>26. ASSUME NEW c \in Command, NEW do \in {"write", "delete"},
            NEW v \in Configs \cup {None}, StartCommand(c, do, v)
     PROVE Placed'
  BY <1>26 DEF StartCommand, At, CmdUnchanged, process
<1>27. ASSUME NEW c \in Command, PreparePaths(c) PROVE Placed'
  BY <1>27 DEF PreparePaths, At, CmdUnchanged, Goes, process
<1>28. ASSUME NEW c \in Command, LockExists(c) PROVE Placed'
  BY <1>28 DEF LockExists, At, CmdUnchanged, Goes, process
<1>29. ASSUME NEW c \in Command, TryLock(c) PROVE Placed'
  BY <1>29 DEF TryLock, At, CmdUnchanged, Goes, ConfigLock!Acquire, process
<1>30. ASSUME NEW c \in Command, TryAgain(c) PROVE Placed'
  BY <1>30 DEF TryAgain, At, CmdUnchanged, process
<1>31. ASSUME NEW c \in Command, NoWorkers(c) PROVE Placed'
  BY <1>31 DEF NoWorkers, At, CmdUnchanged, Goes, process
<1>32. ASSUME NEW c \in Command, CreateConfig(c) PROVE Placed'
  BY <1>32 DEF CreateConfig, At, CmdUnchanged, Goes, process
<1>33. ASSUME NEW c \in Command, WriteConfig(c) PROVE Placed'
  BY <1>33 DEF WriteConfig, At, CmdUnchanged, EndCommand, Goes, ConfigLock!Release,
     process
<1>34. ASSUME NEW c \in Command, RemoveConfig(c) PROVE Placed'
  BY <1>34 DEF RemoveConfig, At, CmdUnchanged, EndCommand, Goes, ConfigLock!Release,
     process
<1>35. ASSUME NEW c \in Command, GiveUpCommand(c) PROVE Placed'
  BY <1>35 DEF GiveUpCommand, At, CmdUnchanged, EndCommand, Goes,
     ConfigLock!Release, process
<1>36. CASE UNCHANGED vars
  BY <1>36 DEF vars, process, zk
<1> QED BY <1>1, <1>2, <1>3, <1>4, <1>5, <1>6, <1>7, <1>8, <1>9, <1>10, <1>11,
      <1>12, <1>13, <1>14, <1>15, <1>16, <1>17, <1>18, <1>19, <1>20, <1>21, <1>22,
      <1>23, <1>24, <1>25, <1>26, <1>27, <1>28, <1>29, <1>30, <1>31, <1>32, <1>33,
      <1>34, <1>35, <1>36 DEF Next, Main, SignalThread, Runs

(* Whoever takes the lock finds nobody who excludes it, and who needs it *)
(* gives it back only with the session, or when the process stops.       *)
LEMMA LockedStep == ASSUME Typed, Placed, Locked, [Next]_vars PROVE Locked'
<1> USE DEF Typed, Placed, Locked, User, Mains
<1>1. ASSUME NEW p \in Process, Boot(p) PROVE Locked'
  BY <1>1 DEF Boot, Steps, process, zk
<1>2. ASSUME NEW p \in Process, Connect(p) PROVE Locked'
  BY <1>2 DEF Connect, Steps, process, zk
<1>3. ASSUME NEW p \in Process, GiveUp(p) PROVE Locked'
  BY <1>3 DEF GiveUp, Exit, Quiet, CloseSession, ConfigLock!Release, process, zk
<1>4. ASSUME NEW p \in Process, Prepare(p) PROVE Locked'
  BY <1>4 DEF Prepare, Steps, process, zk
<1>5. ASSUME NEW p \in Process, LockConfig(p) PROVE Locked'
  BY <1>5 DEF LockConfig, ConfigLock!Acquire, process, zk, ConfigLock!Conflicts
<1>6. ASSUME NEW p \in Process, LockAgain(p) PROVE Locked'
  BY <1>6 DEF LockAgain, process, zk
<1>7. ASSUME NEW p \in Process, Configure(p) PROVE Locked'
  BY <1>7 DEF Configure, Steps, Takes, process, zk
<1>8. ASSUME NEW p \in Process, Listen(p) PROVE Locked'
  BY <1>8 DEF Listen, Steps, process, zk
<1>9. ASSUME NEW p \in Process, Register(p) PROVE Locked'
  BY <1>9 DEF Register, Steps, process, zk
<1>10. ASSUME NEW p \in Process, Watch(p) PROVE Locked'
  BY <1>10 DEF Watch, Steps, process, zk
<1>11. ASSUME NEW p \in Process, Handle(p) PROVE Locked'
  BY <1>11 DEF Handle, Steps, process, zk
<1>12. ASSUME NEW p \in Process, StartMixer(p) PROVE Locked'
  BY <1>12 DEF StartMixer, Steps, process, zk
<1>13. ASSUME NEW p \in Process, RegisterProxy(p) PROVE Locked'
  BY <1>13 DEF RegisterProxy, Steps, process, zk
<1>14. ASSUME NEW p \in Process, HandleProxy(p) PROVE Locked'
  BY <1>14 DEF HandleProxy, Steps, process, zk
<1>15. ASSUME NEW p \in Process, Signal(p) PROVE Locked'
  BY <1>15 DEF Signal, Exit, Quiet, CloseSession, ConfigLock!Release, process, zk
<1>16. ASSUME NEW p \in Process, StopMixer(p) PROVE Locked'
  BY <1>16 DEF StopMixer, SigStep, process, zk
<1>17. ASSUME NEW p \in Process, Unlock(p) PROVE Locked'
  BY <1>17 DEF Unlock, SigStep, ConfigLock!Release, process, zk
<1>18. ASSUME NEW p \in Process, Close(p) PROVE Locked'
  BY <1>18 DEF Close, SigStep, CloseSession, ConfigLock!Release, process, zk
<1>19. ASSUME NEW p \in Process, EndRpc(p) PROVE Locked'
  BY <1>19 DEF EndRpc, SigStep, process, zk
<1>20. ASSUME NEW p \in Process, Crash(p) PROVE Locked'
  BY <1>20 DEF Crash, Quiet, process, zk
<1>21. ASSUME NEW p \in Process, GetStatus(p) PROVE Locked'
  BY <1>21 DEF GetStatus, Quiet, process, zk
<1>22. ASSUME NEW p \in Process, Kill(p) PROVE Locked'
  BY <1>22 DEF Kill, process, zk
<1>23. ASSUME NEW p \in Process, DeleteActor(p) PROVE Locked'
  BY <1>23 DEF DeleteActor, process, zk
<1>24. ASSUME NEW p \in Process, Deleted(p) PROVE Locked'
  BY <1>24 DEF Deleted, process, zk
<1>25. ASSUME NEW o \in User, Expire(o) PROVE Locked'
  BY <1>25 DEF Expire, CloseSession, ConfigLock!Release
<1>26. ASSUME NEW c \in Command, NEW do \in {"write", "delete"},
            NEW v \in Configs \cup {None}, StartCommand(c, do, v)
     PROVE Locked'
  BY <1>26 DEF StartCommand, At, CmdUnchanged, process
<1>27. ASSUME NEW c \in Command, PreparePaths(c) PROVE Locked'
  BY <1>27 DEF PreparePaths, At, CmdUnchanged, Goes, process
<1>28. ASSUME NEW c \in Command, LockExists(c) PROVE Locked'
  BY <1>28 DEF LockExists, At, CmdUnchanged, Goes, process
<1>29. ASSUME NEW c \in Command, TryLock(c) PROVE Locked'
  BY <1>29 DEF TryLock, At, CmdUnchanged, Goes, ConfigLock!Acquire, process,
     ConfigLock!Conflicts
<1>30. ASSUME NEW c \in Command, TryAgain(c) PROVE Locked'
  BY <1>30 DEF TryAgain, At, CmdUnchanged, process
<1>31. ASSUME NEW c \in Command, NoWorkers(c) PROVE Locked'
  BY <1>31 DEF NoWorkers, At, CmdUnchanged, Goes, process
<1>32. ASSUME NEW c \in Command, CreateConfig(c) PROVE Locked'
  BY <1>32 DEF CreateConfig, At, CmdUnchanged, Goes, process
<1>33. ASSUME NEW c \in Command, WriteConfig(c) PROVE Locked'
  BY <1>33 DEF WriteConfig, At, CmdUnchanged, EndCommand, Goes, ConfigLock!Release,
     process
<1>34. ASSUME NEW c \in Command, RemoveConfig(c) PROVE Locked'
  BY <1>34 DEF RemoveConfig, At, CmdUnchanged, EndCommand, Goes, ConfigLock!Release,
     process
<1>35. ASSUME NEW c \in Command, GiveUpCommand(c) PROVE Locked'
  BY <1>35 DEF GiveUpCommand, At, CmdUnchanged, EndCommand, Goes,
     ConfigLock!Release, process
<1>36. CASE UNCHANGED vars
  BY <1>36 DEF vars, process, zk
<1> QED BY <1>1, <1>2, <1>3, <1>4, <1>5, <1>6, <1>7, <1>8, <1>9, <1>10, <1>11,
      <1>12, <1>13, <1>14, <1>15, <1>16, <1>17, <1>18, <1>19, <1>20, <1>21, <1>22,
      <1>23, <1>24, <1>25, <1>26, <1>27, <1>28, <1>29, <1>30, <1>31, <1>32, <1>33,
      <1>34, <1>35, <1>36 DEF Next, Main, SignalThread, Runs

(* The configuration changes by the hand of a command that has a session,   *)
(* hence the lock, so that no server holds it, and none is listed.  A       *)
(* server that registers holds the lock and so still has what it has read.  *)
LEMMA ConfiguredStep == ASSUME IInv, [Next]_vars PROVE Configured'
<1> USE DEF IInv, Typed, Placed, Locked, Configured, ConfigAgrees, Alive, None,
   User, Mains, Configs
<1>1. ASSUME NEW p \in Process, Boot(p) PROVE Configured'
  BY <1>1 DEF Boot, Steps, process, zk
<1>2. ASSUME NEW p \in Process, Connect(p) PROVE Configured'
  BY <1>2 DEF Connect, Steps, process, zk
<1>3. ASSUME NEW p \in Process, GiveUp(p) PROVE Configured'
  BY <1>3 DEF GiveUp, Exit, Quiet, CloseSession, ConfigLock!Release, process, zk
<1>4. ASSUME NEW p \in Process, Prepare(p) PROVE Configured'
  BY <1>4 DEF Prepare, Steps, process, zk
<1>5. ASSUME NEW p \in Process, LockConfig(p) PROVE Configured'
  BY <1>5 DEF LockConfig, ConfigLock!Acquire, process, zk
<1>6. ASSUME NEW p \in Process, LockAgain(p) PROVE Configured'
  BY <1>6 DEF LockAgain, process, zk
<1>7. ASSUME NEW p \in Process, Configure(p) PROVE Configured'
  BY <1>7 DEF Configure, Steps, Takes, process, zk
<1>8. ASSUME NEW p \in Process, Listen(p) PROVE Configured'
  BY <1>8 DEF Listen, Steps, process, zk
<1>9. ASSUME NEW p \in Process, Register(p) PROVE Configured'
  BY <1>9 DEF Register, Steps, process, zk, CanCreate
<1>10. ASSUME NEW p \in Process, Watch(p) PROVE Configured'
  BY <1>10 DEF Watch, Steps, process, zk
<1>11. ASSUME NEW p \in Process, Handle(p) PROVE Configured'
  BY <1>11 DEF Handle, Steps, process, zk
<1>12. ASSUME NEW p \in Process, StartMixer(p) PROVE Configured'
  BY <1>12 DEF StartMixer, Steps, process, zk
<1>13. ASSUME NEW p \in Process, RegisterProxy(p) PROVE Configured'
  BY <1>13 DEF RegisterProxy, Steps, process, zk
<1>14. ASSUME NEW p \in Process, HandleProxy(p) PROVE Configured'
  BY <1>14 DEF HandleProxy, Steps, process, zk
<1>15. ASSUME NEW p \in Process, Signal(p) PROVE Configured'
  BY <1>15 DEF Signal, Exit, Quiet, CloseSession, ConfigLock!Release, process, zk
<1>16. ASSUME NEW p \in Process, StopMixer(p) PROVE Configured'
  BY <1>16 DEF StopMixer, SigStep, process, zk
<1>17. ASSUME NEW p \in Process, Unlock(p) PROVE Configured'
  BY <1>17 DEF Unlock, SigStep, ConfigLock!Release, process, zk
<1>18. ASSUME NEW p \in Process, Close(p) PROVE Configured'
  BY <1>18 DEF Close, SigStep, CloseSession, ConfigLock!Release, process, zk
<1>19. ASSUME NEW p \in Process, EndRpc(p) PROVE Configured'
  BY <1>19 DEF EndRpc, SigStep, process, zk
<1>20. ASSUME NEW p \in Process, Crash(p) PROVE Configured'
  BY <1>20 DEF Crash, Quiet, process, zk
<1>21. ASSUME NEW p \in Process, GetStatus(p) PROVE Configured'
  BY <1>21 DEF GetStatus, Quiet, process, zk
<1>22. ASSUME NEW p \in Process, Kill(p) PROVE Configured'
  BY <1>22 DEF Kill, process, zk
<1>23. ASSUME NEW p \in Process, DeleteActor(p) PROVE Configured'
  BY <1>23 DEF DeleteActor, process, zk
<1>24. ASSUME NEW p \in Process, Deleted(p) PROVE Configured'
  BY <1>24 DEF Deleted, process, zk
<1>25. ASSUME NEW o \in User, Expire(o) PROVE Configured'
  BY <1>25 DEF Expire, CloseSession, ConfigLock!Release
<1>26. ASSUME NEW c \in Command, NEW do \in {"write", "delete"},
            NEW v \in Configs \cup {None}, StartCommand(c, do, v)
     PROVE Configured'
  BY <1>26 DEF StartCommand, At, CmdUnchanged, process
<1>27. ASSUME NEW c \in Command, PreparePaths(c) PROVE Configured'
  BY <1>27 DEF PreparePaths, At, CmdUnchanged, Goes, process
<1>28. ASSUME NEW c \in Command, LockExists(c) PROVE Configured'
  BY <1>28 DEF LockExists, At, CmdUnchanged, Goes, process
<1>29. ASSUME NEW c \in Command, TryLock(c) PROVE Configured'
  BY <1>29 DEF TryLock, At, CmdUnchanged, Goes, ConfigLock!Acquire, process
<1>30. ASSUME NEW c \in Command, TryAgain(c) PROVE Configured'
  BY <1>30 DEF TryAgain, At, CmdUnchanged, process
<1>31. ASSUME NEW c \in Command, NoWorkers(c) PROVE Configured'
  BY <1>31 DEF NoWorkers, At, CmdUnchanged, Goes, process
<1>32. ASSUME NEW c \in Command, CreateConfig(c) PROVE Configured'
  BY <1>32 DEF CreateConfig, At, CmdUnchanged, Goes, process
<1>33. ASSUME NEW c \in Command, WriteConfig(c) PROVE Configured'
  BY <1>33 DEF WriteConfig, At, CmdUnchanged, EndCommand, Goes, ConfigLock!Release,
     process
<1>34. ASSUME NEW c \in Command, RemoveConfig(c) PROVE Configured'
  BY <1>34 DEF RemoveConfig, At, CmdUnchanged, EndCommand, Goes, ConfigLock!Release,
     process
<1>35. ASSUME NEW c \in Command, GiveUpCommand(c) PROVE Configured'
  BY <1>35 DEF GiveUpCommand, At, CmdUnchanged, EndCommand, Goes,
     ConfigLock!Release, process
<1>36. CASE UNCHANGED vars
  BY <1>36 DEF vars, process, zk
<1> QED BY <1>1, <1>2, <1>3, <1>4, <1>5, <1>6, <1>7, <1>8, <1>9, <1>10, <1>11,
      <1>12, <1>13, <1>14, <1>15, <1>16, <1>17, <1>18, <1>19, <1>20, <1>21, <1>22,
      <1>23, <1>24, <1>25, <1>26, <1>27, <1>28, <1>29, <1>30, <1>31, <1>32, <1>33,
      <1>34, <1>35, <1>36 DEF Next, Main, SignalThread, Runs

-----------------------------------------------------------------------------

(* The invariant is inductive: however many processes and commands there   *)
(* are, whatever fails, expires or is killed.                              *)
THEOREM Invariance == Spec => []IInv
<1>1. IInv /\ [Next]_vars => IInv'
  BY TypedStep, PlacedStep, LockedStep, ConfiguredStep DEF IInv
<1> QED BY <1>1, InitIInv, PTL DEF Spec

(* A server whose node is in the list has a running RPC server, a proxy up *)
(* to the end of its signal thread.                                        *)
THEOREM ListedServe == Spec => []ListedServes
<1>1. IInv => ListedServes
  BY DEF IInv, Typed, Placed, ListedServes, Alive, Mains
<1> QED BY <1>1, Invariance, PTL

(* No command changes the configuration under a server that runs on it,    *)
(* unless it could not get the list of servers.                            *)
THEOREM ConfigIsKept == Spec => []ConfigAgrees
<1>1. IInv => ConfigAgrees
  BY DEF IInv, Configured
<1> QED BY <1>1, Invariance, PTL

-----------------------------------------------------------------------------
(* The lock of the configuration is an RWLock *)

LockMoves ==
  \/ UNCHANGED held
  \/ \E u \in User : ConfigLock!Acquire(u, "r") \/ ConfigLock!Acquire(u, "w")
  \/ \E S \in SUBSET User : ConfigLock!Release(S)

(* Every step changes the holders as the lock does, or not at all. *)
LEMMA LockStep == ASSUME [Next]_vars PROVE LockMoves
<1> DEFINE Freed(u) == UNCHANGED held \/ ConfigLock!Release({u})
<1>0. ASSUME NEW u \in User, Freed(u) PROVE LockMoves
  <2>1. {u} \in SUBSET User
    OBVIOUS
  <2> QED BY <1>0, <2>1 DEF LockMoves
<1>1. ASSUME NEW p \in Process, Boot(p) \/ Main(p) PROVE LockMoves
  <2>1. ASSUME LockConfig(p) PROVE LockMoves
    BY <2>1 DEF LockConfig, LockMoves, User
  <2>2. ASSUME GiveUp(p) PROVE Freed(p)
    BY <2>2 DEF GiveUp, Exit, CloseSession, zk
  <2>3. ASSUME \/ Boot(p) \/ Connect(p) \/ Prepare(p) \/ LockAgain(p) \/ Configure(p) \/ Listen(p)
               \/ Register(p) \/ Watch(p) \/ Handle(p) \/ StartMixer(p) \/ RegisterProxy(p)
               \/ HandleProxy(p)
        PROVE UNCHANGED held
    BY <2>3 DEF Boot, Connect, Prepare, LockAgain, Configure, Listen, Register, Watch, Handle,
       StartMixer, RegisterProxy, HandleProxy, Steps, zk
  <2> QED BY <1>0, <1>1, <2>1, <2>2, <2>3 DEF Main, LockMoves, User
<1>2. ASSUME NEW p \in Process, SignalThread(p) PROVE LockMoves
  <2>1. ASSUME Signal(p) \/ Unlock(p) \/ Close(p) PROVE Freed(p)
    BY <2>1 DEF Signal, Exit, Unlock, Close, SigStep, CloseSession, zk
  <2>2. ASSUME StopMixer(p) \/ EndRpc(p) PROVE UNCHANGED held
    BY <2>2 DEF StopMixer, EndRpc, SigStep, zk
  <2> QED BY <1>0, <1>2, <2>1, <2>2 DEF SignalThread, LockMoves, User
<1>3. ASSUME NEW p \in Process,
             Crash(p) \/ GetStatus(p) \/ Kill(p) \/ DeleteActor(p) \/ Deleted(p)
      PROVE  UNCHANGED held
  BY <1>3 DEF Crash, GetStatus, Kill, DeleteActor, Deleted, zk
<1>4. ASSUME NEW u \in User, Expire(u) PROVE Freed(u)
  BY <1>4 DEF Expire, CloseSession
<1>5. ASSUME NEW c \in Command, NEW do, NEW v, StartCommand(c, do, v) PROVE UNCHANGED held
  BY <1>5 DEF StartCommand
<1>6. ASSUME NEW c \in Command, Runs(c) PROVE LockMoves
  <2>1. ASSUME TryLock(c) PROVE LockMoves
    BY <2>1 DEF TryLock, LockMoves, User
  <2>2. ASSUME WriteConfig(c) \/ RemoveConfig(c) \/ GiveUpCommand(c) PROVE Freed(c)
    BY <2>2 DEF WriteConfig, RemoveConfig, GiveUpCommand, EndCommand
  <2>3. ASSUME PreparePaths(c) \/ LockExists(c) \/ TryAgain(c) \/ NoWorkers(c) \/ CreateConfig(c)
        PROVE  UNCHANGED held
    BY <2>3 DEF PreparePaths, LockExists, TryAgain, NoWorkers, CreateConfig
  <2> QED BY <1>0, <1>6, <2>1, <2>2, <2>3 DEF Runs, LockMoves, User
<1>7. CASE UNCHANGED vars
  BY <1>7 DEF vars, zk, LockMoves
<1> QED BY <1>0, <1>1, <1>2, <1>3, <1>4, <1>5, <1>6, <1>7 DEF Next, LockMoves, User

(* Whatever servers, proxies and commands do with the lock of the          *)
(* configuration, and whatever fails or expires under them, is what the    *)
(* lock allows: with ZkMutexImplementsRWLock, the two models meet in one   *)
(* contract.                                                               *)
THEOREM ConfigLockIsRWLock == Spec => ConfigLock!Spec
<1>1. Init => ConfigLock!Init
  BY DEF Init
<1>2. [Next]_vars => [ConfigLock!Next]_held
  <2> SUFFICES ASSUME [Next]_vars PROVE [ConfigLock!Next]_held
    OBVIOUS
  <2>1. LockMoves
    BY LockStep
  <2> QED BY <2>1 DEF LockMoves, User, ConfigLock!Next, ConfigLock!Modes
<1> QED BY <1>1, <1>2, PTL DEF Spec, ConfigLock!Spec

=============================================================================
