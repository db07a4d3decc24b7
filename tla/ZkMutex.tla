------------------------------ MODULE ZkMutex ------------------------------
(***************************************************************************)
(* The distributed lock of the lock service: class zkmutex                 *)
(* (common/zk.cpp, common/zk.hpp) over one ZooKeeper directory.            *)
(*                                                                         *)
(* A lock attempt is three ZooKeeper calls, each atomic in the server but  *)
(* freely interleaved with the calls of the other contenders:              *)
(*   create_seq   an ephemeral sequential node wlock_N or rlock_N          *)
(*   list         the attempt has won unless an earlier node excludes it   *)
(*   remove       a loser takes its node away again                        *)
(* Nobody ever waits: a loser reports false and its caller decides.        *)
(*                                                                         *)
(* A process is represented by its one ZooKeeper session.  Its zkmutex     *)
(* objects are built, tried and destroyed as their callers do it: the      *)
(* mixers build a write lock on master_lock for every attempt round        *)
(* (linear_mixer.cpp), jubaconfig and jubactl build a write lock on the    *)
(* config_lock and the servers keep a read lock on it (config.cpp,         *)
(* server_helper.cpp).  Every caller locks an object in one mode only.     *)
(*                                                                         *)
(* LockProofs extends this module and Startup, the module of its users, so *)
(* that names which both would have begin with Mutex here.                 *)
(***************************************************************************)
EXTENDS Naturals, FiniteSets

CONSTANTS
  Objects,     \* zkmutex objects that can exist at the same time
  Sessions,    \* ZooKeeper sessions, one per process
  Owner,       \* Owner[o]: the session of the process that uses object o
  MaxSeq,      \* bound: nodes created in the lock directory
  MaxFail      \* bound: calls whose request or answer is lost

ASSUME OwnerAssumption == Owner \in [Objects -> Sessions]
ASSUME BoundAssumption == MaxSeq \in Nat /\ MaxFail \in Nat

VARIABLES
  children,    \* children of path_: records of sequence, kind and session
  next,        \* the sequence number ZooKeeper gives the next node
  life,        \* what ZooKeeper and the process know of each session
  mode,        \* mode[o]: the lock its user asks for
  pc,          \* where o's user is inside try_lock / try_rlock
  seqfile,     \* seqfile_ of o, 0 for the empty string
  has,         \* has_lock_ or has_rlock_ of o, after its mode
  fails        \* calls lost so far

mutexVars == <<children, next, life, mode, pc, seqfile, has, fails>>
objs == <<mode, pc, seqfile, has>>

Modes == {"w", "r"}

Node == [seq : Nat, kind : Modes, sess : Sessions]

(* "live"    process running, session known to ZooKeeper: where zk's       *)
(*           constructor leaves a session, and where every process starts  *)
(* "orphan"  process gone, ZooKeeper has not timed the session out         *)
(* "expired" timed out by ZooKeeper, process still running                 *)
(* "closed"  neither                                                       *)
SessionState == {"live", "orphan", "expired", "closed"}

MutexTypeOK ==
  /\ children \subseteq Node
  /\ next \in Nat \ {0}
  /\ life \in [Sessions -> SessionState]
  /\ mode \in [Objects -> Modes]
  /\ pc \in [Objects -> {"idle", "created", "lost"}]
  /\ seqfile \in [Objects -> Nat]
  /\ has \in [Objects -> BOOLEAN]
  /\ fails \in Nat

MutexInit ==
  /\ children = {}
  /\ next = 1
  /\ life = [s \in Sessions |-> "live"]
  /\ mode = [o \in Objects |-> "w"]
  /\ pc = [o \in Objects |-> "idle"]
  /\ seqfile = [o \in Objects |-> 0]
  /\ has = [o \in Objects |-> FALSE]
  /\ fails = 0

-----------------------------------------------------------------------------
(* Helpers *)

(* The process of o runs. *)
Running(o) == life[Owner[o]] \in {"live", "expired"}

(* ZooKeeper serves calls on the session of o's process. *)
Connected(o) == life[Owner[o]] = "live"

(* The node that o's last create_seq made. *)
NodeOf(o) == [seq |-> seqfile[o], kind |-> mode[o], sess |-> Owner[o]]

(* A write attempt yields to any earlier node, a read attempt only to an   *)
(* earlier wlock_.                                                         *)
Conflicts(m, k) == m = "w" \/ k = "w"

(* Variants: try_lock looks at wlock_ nodes only; try_rlock looks at        *)
(* rlock_ nodes only. *)
WinsOverWriters(o) ==
  \A z \in children : z.kind = "w" => z.seq >= seqfile[o]
WinsOverReaders(o) ==
  \A z \in children : (mode[o] = "w" \/ z.kind = "r") => z.seq >= seqfile[o]

Wins(o) == \A z \in children : Conflicts(mode[o], z.kind) => z.seq >= seqfile[o]

Without(n) == {z \in children : z.seq # n}

CanLoseCall == fails < MaxFail

-----------------------------------------------------------------------------
(* The life of an object.  An object that does not have the lock and is    *)
(* not inside an attempt may be a new one: constructing and destroying it  *)
(* has no effect outside it, so neither is an action.                      *)

(* ZooKeeper makes the ephemeral sequential node of o. *)
NewNode(o, m) ==
  /\ next <= MaxSeq
  /\ children' = children \cup {[seq |-> next, kind |-> m, sess |-> Owner[o]]}
  /\ next' = next + 1

(* A call of try_lock or try_rlock begins with create_seq.  An object that *)
(* has the lock answers true at once and nothing changes.                  *)
CreateSeq(o, m) ==
  /\ Connected(o) /\ pc[o] = "idle" /\ ~has[o]
  /\ NewNode(o, m)
  /\ mode' = [mode EXCEPT ![o] = m]
  /\ seqfile' = [seqfile EXCEPT ![o] = next]
  /\ pc' = [pc EXCEPT ![o] = "created"]
  /\ UNCHANGED <<life, has, fails>>

(* create_seq reports an error: seqfile_ is cleared and try_lock returns   *)
(* false.  The request may have been lost, or only its answer, in which    *)
(* case the node is there and nobody knows its name.                       *)
CreateSeqFails(o, m) ==
  /\ Running(o) /\ pc[o] = "idle" /\ ~has[o]
  /\ \/ ~Connected(o) /\ UNCHANGED <<children, next, fails>>
     \/ /\ Connected(o) /\ CanLoseCall
        /\ fails' = fails + 1
        /\ UNCHANGED <<children, next>> \/ NewNode(o, m)
  /\ mode' = [mode EXCEPT ![o] = m]
  /\ seqfile' = [seqfile EXCEPT ![o] = 0]
  /\ UNCHANGED <<life, pc, has>>

(* Variant: a loser leaves its node behind. *)
ListNoRemove(o) ==
  /\ Connected(o) /\ pc[o] = "created"
  /\ pc' = [pc EXCEPT ![o] = "idle"]
  /\ has' = [has EXCEPT ![o] = Wins(o)]
  /\ UNCHANGED <<children, next, life, mode, seqfile, fails>>

(* list and the comparison loop over its answer. *)
List(o) ==
  /\ Connected(o) /\ pc[o] = "created"
  /\ \/ /\ Wins(o)
        /\ has' = [has EXCEPT ![o] = TRUE]
        /\ pc' = [pc EXCEPT ![o] = "idle"]
     \/ /\ ~Wins(o)
        /\ pc' = [pc EXCEPT ![o] = "lost"]
        /\ UNCHANGED has
  /\ UNCHANGED <<children, next, life, mode, seqfile, fails>>

(* list fails: try_lock returns false and leaves the node it created. *)
ListFails(o) ==
  /\ pc[o] = "created"
  /\ \/ ~Connected(o) /\ UNCHANGED fails
     \/ Connected(o) /\ CanLoseCall /\ fails' = fails + 1
  /\ pc' = [pc EXCEPT ![o] = "idle"]
  /\ UNCHANGED <<children, next, life, mode, seqfile, has>>

(* zk_.remove(seqfile_) for object o: done, refused because the session    *)
(* has expired, or lost before ZooKeeper sees it.  Nobody looks at the     *)
(* result.                                                                 *)
Remove(o) ==
  \/ /\ Connected(o)
     /\ children' = Without(seqfile[o])
     /\ UNCHANGED fails
  \/ /\ ~Connected(o)
     /\ UNCHANGED <<children, fails>>
  \/ /\ Connected(o) /\ CanLoseCall
     /\ fails' = fails + 1
     /\ UNCHANGED children

(* The loser's remove at the end of try_lock. *)
RemoveLoser(o) ==
  /\ pc[o] = "lost"
  /\ Remove(o)
  /\ pc' = [pc EXCEPT ![o] = "idle"]
  /\ UNCHANGED <<next, life, mode, seqfile, has>>

(* Variant: the destructor gives back write locks only. *)
DestroyWriteOnly(o) ==
  /\ has[o]
  /\ IF mode[o] = "w" THEN Remove(o) ELSE UNCHANGED <<children, fails>>
  /\ has' = [has EXCEPT ![o] = FALSE]
  /\ seqfile' = [seqfile EXCEPT ![o] = 0]
  /\ UNCHANGED <<next, life, mode, pc>>

(* ~zkmutex: unlock or unlock_r removes the node of a lock that is held,   *)
(* and the object is gone.                                                 *)
Destroy(o) ==
  /\ has[o]
  /\ Remove(o)
  /\ has' = [has EXCEPT ![o] = FALSE]
  /\ seqfile' = [seqfile EXCEPT ![o] = 0]
  /\ UNCHANGED <<next, life, mode, pc>>

-----------------------------------------------------------------------------
(* Processes and sessions *)

(* The process of s ends without running destructors. *)
DropObjects(s) ==
  LET Kept(f, v) == [o \in Objects |-> IF Owner[o] = s THEN v ELSE f[o]] IN
  /\ pc' = Kept(pc, "idle")
  /\ seqfile' = Kept(seqfile, 0)
  /\ has' = Kept(has, FALSE)
  /\ UNCHANGED mode

(* The process crashes, or mywatcher gives up waiting for a reconnection   *)
(* and run_cleanup ends it, before ZooKeeper times the session out.        *)
CrashSession(s) ==
  /\ life[s] = "live"
  /\ life' = [life EXCEPT ![s] = "orphan"]
  /\ DropObjects(s)
  /\ UNCHANGED <<children, next, fails>>

(* ZooKeeper times the session out and deletes its ephemeral nodes. *)
ExpireSession(s) ==
  /\ life[s] \in {"live", "orphan"}
  /\ life' = [life EXCEPT
       ![s] = IF life[s] = "live" THEN "expired" ELSE "closed"]
  /\ children' = {z \in children : z.sess # s}
  /\ UNCHANGED <<next, objs, fails>>

(* mywatcher sees the expiry, run_cleanup calls shutdown_server. *)
ExitExpired(s) ==
  /\ life[s] = "expired"
  /\ life' = [life EXCEPT ![s] = "closed"]
  /\ DropObjects(s)
  /\ UNCHANGED <<children, next, fails>>

-----------------------------------------------------------------------------

ObjectStep(o) ==
  \/ \E m \in Modes : CreateSeq(o, m) \/ CreateSeqFails(o, m)
  \/ List(o) \/ ListFails(o)
  \/ RemoveLoser(o)
  \/ Destroy(o)

SessionStep(s) == CrashSession(s) \/ ExpireSession(s) \/ ExitExpired(s)

MutexNext ==
  \/ \E o \in Objects : ObjectStep(o)
  \/ \E s \in Sessions : SessionStep(s)

MutexSpec == MutexInit /\ [][MutexNext]_mutexVars

(* A thread inside try_lock goes on, users destroy their objects (the      *)
(* mixer at the end of each round, jubaconfig and the servers when they    *)
(* end), ZooKeeper times out the session of a dead process, and a process  *)
(* that learns of its expiry ends.                                         *)
Fairness ==
  /\ \A o \in Objects :
       WF_mutexVars(\/ List(o) \/ RemoveLoser(o) \/ Destroy(o)
               \/ (ListFails(o) /\ ~Connected(o)))
  /\ \A s \in Sessions :
       WF_mutexVars((life[s] = "orphan" /\ ExpireSession(s)) \/ ExitExpired(s))

FairMutexSpec == MutexSpec /\ Fairness

-----------------------------------------------------------------------------
(* Properties *)

(* o is entitled to the lock: its object says so and ZooKeeper has not     *)
(* ended the session. *)
Holds(o) == has[o] /\ Connected(o)

(* No two connected objects hold the lock in excluding modes, whatever the *)
(* interleaving of creations, lists and removals, lost calls, crashes and  *)
(* expiries (zkmutex::try_lock, zkmutex::try_rlock).  The claim stops at   *)
(* the session: an expired process still believes it holds the lock.       *)
MutualExclusion ==
  \A o, p \in Objects :
    (o # p /\ Holds(o) /\ Holds(p)) => ~Conflicts(mode[o], mode[p])

(* Why mutual exclusion holds, as an inductive invariant.  ZooKeeper never *)
(* reuses a sequence number, so the nodes that could exclude a holder are  *)
(* all later than its own; and no two objects share a node, so the only    *)
(* things that remove a holder's node are the holder and its session's end.*)
NumbersBelowNext ==
  /\ \A z \in children : z.seq \in 1..(next - 1)
  /\ \A o \in Objects : seqfile[o] < next

FilesDiffer ==
  \A o, p \in Objects : (o # p /\ seqfile[o] # 0) => seqfile[o] # seqfile[p]

UsesNode(o) == pc[o] # "idle" \/ has[o]

HoldersIdle == \A o \in Objects : has[o] => pc[o] = "idle"

NodeInUse ==
  \A o \in Objects :
    /\ UsesNode(o) => seqfile[o] # 0
    /\ UsesNode(o) /\ Connected(o) => NodeOf(o) \in children

HoldersCameFirst == \A o \in Objects : Holds(o) => Wins(o)

MutexIInv ==
  /\ MutexTypeOK
  /\ NumbersBelowNext
  /\ FilesDiffer
  /\ HoldersIdle
  /\ NodeInUse
  /\ HoldersCameFirst

(* A node in the directory that no object will ever remove: it belongs to  *)
(* a running process, but no object holds or is still trying with it. *)
Stray(z) ==
  /\ life[z.sess] = "live"
  /\ ~\E o \in Objects : /\ NodeOf(o) = z
                         /\ has[o] \/ pc[o] \in {"created", "lost"}

(* Only a lost ZooKeeper call leaves a lock node behind in a running       *)
(* process, at most one each: without one, no interleaving of try_lock and *)
(* destructors blocks the lock for good.                                   *)
StrayNodesFromLostCalls == Cardinality({z \in children : Stray(z)}) <= fails

(* As long as no call is lost, every lock is given back: once the attempts *)
(* stop, the directory empties for good, over crashed and expired holders  *)
(* too. *)
LocksComeFree == (fails = 0 /\ next > MaxSeq) ~> (children = {} \/ fails > 0)

(* zkmutex implements the read/write lock its users rely on. *)
Held == [o \in Objects |-> IF Holds(o) THEN mode[o] ELSE "none"]
RW == INSTANCE RWLock WITH held <- Held
ImplementsRWLock == RW!Spec

=============================================================================
