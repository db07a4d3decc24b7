----------------------------- MODULE Jubavisor -----------------------------
(***************************************************************************)
(* jubavisor (jubavisor/jubavisor.cpp, jubavisor/process.cpp): the daemon  *)
(* that starts and stops server processes on one machine and gives each of *)
(* them a port of its pool.                                                *)
(*                                                                         *)
(* Modelled: the RPC threads in start and stop, stop_all in the main       *)
(* thread after them and, when the session has expired, in the ZooKeeper   *)
(* client's thread at any moment; the SIGCHLD handler, which interrupts    *)
(* any thread and takes the mutex m_ the requests use, also on top of the  *)
(* thread that has it; and the child processes, which may end by           *)
(* themselves at any moment.                                               *)
(***************************************************************************)
EXTENDS Naturals, Sequences, FiniteSets, SequencesExt

CONSTANTS
  Rpc,           \* the threads that serve start and stop
  Main,          \* the main thread, which joins the RPC threads and destroys
                 \* the jubavisor
  Zk,            \* the ZooKeeper client's thread, which runs
                 \* on_connection_expired
  NoThread,      \* no thread
  SigThreads,    \* the threads SIGCHLD is delivered to
  Names,         \* cluster names, the keys of children_
  Ports,         \* the ports of the pool: one for each of max_children_
  MaxSpawn       \* bound: forks ever tried

Enders == {Main, Zk}   \* the threads that call stop_all
Threads == Rpc \cup Enders

ASSUME ThreadAssumption ==
  /\ NoThread \notin Threads /\ SigThreads \subseteq Threads
  /\ Main \notin Rpc /\ Zk \notin Rpc /\ Main # Zk

ASSUME PortAssumption == IsFiniteSet(Ports) /\ Names # {} /\ MaxSpawn \in Nat

VARIABLES
  pool,          \* port_pool_
  children,      \* children_: records of name, port and pid
  proc,          \* proc[pid]: what has become of a child
  spawned,       \* forks so far; the pid of the next child is one more
  lock,          \* the thread that has m_
  pc,            \* where a thread is in its request
  todo,          \* N in start_: how many children are still to be forked
  target,        \* the name a request is about
  list,          \* the copy v of the children to stop: those still to kill
  victim,        \* the child being killed, if any
  handler,       \* sigchld_handler_ on top of a thread
  caught,        \* the pid the handler has got from waitpid
  pending,       \* a SIGCHLD is pending
  ended,         \* the RPC threads have been joined
  lost           \* a kill has failed, or two pushes to port_pool_ overlapped

vars == <<pool, children, proc, spawned, lock, pc, todo, target, list, victim,
          handler, caught, pending, ended, lost>>
kids == <<children, proc, spawned>>
thread == <<lock, pc, todo, target, list, victim>>
signal == <<handler, caught, pending>>

Child == [name : Names, port : Ports, pid : 1..MaxSpawn]

TypeOK ==
  /\ pool \in Seq(Ports)
  /\ children \subseteq Child
  /\ proc \in [1..MaxSpawn -> {"none", "running", "told", "zombie", "reaped"}]
  /\ spawned \in 0..MaxSpawn
  /\ lock \in Threads \cup {NoThread}
  /\ pc \in [Threads -> {"idle", "start", "copy", "kill", "wait", "push",
                         "killall", "waitall", "exit", "gone"}]
  /\ todo \in [Threads -> Nat]
  /\ target \in [Threads -> Names]
  /\ list \in [Threads -> SUBSET Child] /\ victim \in [Threads -> SUBSET Child]
  /\ handler \in [Threads -> {"off", "reap", "release"}]
  /\ caught \in [Threads -> 0..MaxSpawn]
  /\ {pending, ended, lost} \subseteq BOOLEAN

(* The target of a thread that needs none. *)
NoName == CHOOSE m \in Names : TRUE

Init ==
  /\ pool = SetToSeq(Ports)
  /\ children = {} /\ proc = [p \in 1..MaxSpawn |-> "none"] /\ spawned = 0
  /\ lock = NoThread
  /\ pc = [t \in Threads |-> "idle"] /\ todo = [t \in Threads |-> 0]
  /\ target = [t \in Threads |-> NoName]
  /\ list = [t \in Threads |-> {}] /\ victim = [t \in Threads |-> {}]
  /\ handler = [t \in Threads |-> "off"] /\ caught = [t \in Threads |-> 0]
  /\ pending = FALSE /\ ended = FALSE
  /\ lost = FALSE

-----------------------------------------------------------------------------
(* Helpers *)

(* The process is there until main has returned or exit has ended it.      *)
Alive == \A e \in Enders : pc[e] # "gone"

(* t is at l in its own code, not in the signal handler. *)
Runs(t, l) == Alive /\ pc[t] = l /\ handler[t] = "off"

Goto(t, l) == pc' = [pc EXCEPT ![t] = l]

Of(m) == {c \in children : c.name = m}

(* port_pool_.push.  stop pushes without m_: while another push is under   *)
(* way, both may write the same slot and one port is gone.                 *)
Push(p, others) ==
  \/ pool' = Append(pool, p) /\ UNCHANGED lost
  \/ others /\ pool' = pool /\ lost' = TRUE

OtherPushes(t) == \E u \in Threads \ {t} : pc[u] = "push"

(* A thread gets m_ only when nobody has it, itself included: m_ is not    *)
(* recursive.                                                              *)
TakeLock(t) == lock = NoThread /\ lock' = t

-----------------------------------------------------------------------------
(* start *)

(* start and start_ up to the loop: N is the number of children wanted in  *)
(* all.  A request for fewer than there are, or for more than there are    *)
(* ports, returns -1 and changes nothing.                                  *)
Start(t, m, n) ==
  /\ t \in Rpc /\ ~ended /\ Runs(t, "idle") /\ lock = NoThread
  /\ n > Cardinality(Of(m))
  /\ n - Cardinality(Of(m)) <= Len(pool)
  /\ spawned + n - Cardinality(Of(m)) <= MaxSpawn
  /\ TakeLock(t) /\ Goto(t, "start")
  /\ todo' = [todo EXCEPT ![t] = n - Cardinality(Of(m))]
  /\ target' = [target EXCEPT ![t] = m]
  /\ UNCHANGED <<pool, kids, list, victim, signal, ended, lost>>

(* One round of the loop: fork a child on the first port of the pool. *)
Spawn(t) ==
  /\ Runs(t, "start") /\ todo[t] > 0
  /\ pool # <<>> /\ pool' = Tail(pool)
  /\ spawned' = spawned + 1
  /\ proc' = [proc EXCEPT ![spawned + 1] = "running"]
  /\ children' = children \cup
       {[name |-> target[t], port |-> Head(pool), pid |-> spawned + 1]}
  /\ todo' = [todo EXCEPT ![t] = @ - 1]
  /\ UNCHANGED <<lock, pc, target, list, victim, signal, ended, lost>>

(* Variant: the port does not go back. *)
SpawnFailsLeaks(t) ==
  /\ Runs(t, "start") /\ todo[t] > 0 /\ pool # <<>>
  /\ spawned' = spawned + 1
  /\ pool' = Tail(pool)
  /\ todo' = [todo EXCEPT ![t] = 0]
  /\ UNCHANGED <<children, proc, lock, pc, target, list, victim, signal,
                 ended, lost>>

(* fork fails: the port goes back and start returns -1. *)
SpawnFails(t) ==
  /\ Runs(t, "start") /\ todo[t] > 0 /\ pool # <<>>
  /\ spawned' = spawned + 1
  /\ pool' = Append(Tail(pool), Head(pool))
  /\ todo' = [todo EXCEPT ![t] = 0]
  /\ UNCHANGED <<children, proc, lock, pc, target, list, victim, signal,
                 ended, lost>>

StartEnds(t) ==
  /\ Runs(t, "start") /\ todo[t] = 0
  /\ lock' = NoThread /\ Goto(t, "idle")
  /\ target' = [target EXCEPT ![t] = NoName]
  /\ UNCHANGED <<pool, kids, todo, list, victim, signal, ended, lost>>

-----------------------------------------------------------------------------
(* stop *)

(* stop takes m_ (a name without children is answered at once) ... *)
Stop(t, m) ==
  /\ t \in Rpc /\ ~ended /\ Runs(t, "idle") /\ Of(m) # {} /\ TakeLock(t)
  /\ Goto(t, "copy")
  /\ target' = [target EXCEPT ![t] = m]
  /\ UNCHANGED <<pool, kids, todo, list, victim, signal, ended, lost>>

(* Variants: the children stay in children_; only one of them is stopped. *)
StopCopiesKeeping(t) ==
  /\ Runs(t, "copy")
  /\ list' = [list EXCEPT ![t] = Of(target[t])]
  /\ target' = [target EXCEPT ![t] = NoName]
  /\ lock' = NoThread /\ Goto(t, "kill")
  /\ UNCHANGED <<pool, kids, todo, victim, signal, ended, lost>>
StopCopiesOne(t) ==
  /\ Runs(t, "copy")
  /\ \E c \in Of(target[t]) : list' = [list EXCEPT ![t] = {c}]
  /\ children' = children \ Of(target[t])
  /\ target' = [target EXCEPT ![t] = NoName]
  /\ lock' = NoThread /\ Goto(t, "kill")
  /\ UNCHANGED <<pool, proc, spawned, todo, victim, signal, ended, lost>>

(* ... to move the children of that name out of children_, whatever server *)
(* they are of and however many were asked for.                            *)
StopCopies(t) ==
  /\ Runs(t, "copy")
  /\ list' = [list EXCEPT ![t] = Of(target[t])]
  /\ children' = children \ Of(target[t])
  /\ target' = [target EXCEPT ![t] = NoName]
  /\ lock' = NoThread /\ Goto(t, "kill")
  /\ UNCHANGED <<pool, proc, spawned, todo, victim, signal, ended, lost>>

(* process::kill sends SIGTERM.  A child that has been reaped is not found *)
(* (ESRCH); it is passed over and its port is not returned.                *)
Kill(t, c) ==
  /\ \/ Runs(t, "kill") \/ Runs(t, "killall")
  /\ c \in list[t] /\ list' = [list EXCEPT ![t] = @ \ {c}]
  /\ \/ /\ proc[c.pid] # "reaped"
        /\ proc' = [proc EXCEPT ![c.pid] = IF @ = "running" THEN "told" ELSE @]
        /\ victim' = [victim EXCEPT ![t] = {c}]
        /\ Goto(t, IF pc[t] = "kill" THEN "wait" ELSE "waitall")
        /\ UNCHANGED lost
     \/ /\ proc[c.pid] = "reaped"
        /\ lost' = TRUE
        /\ UNCHANGED <<proc, victim, pc>>
  /\ UNCHANGED <<pool, children, spawned, lock, todo, target, signal, ended>>

(* Variant: waits for the exit status, whoever has got it. *)
WaitZombie(t) ==
  /\ Runs(t, "wait")
  /\ \E c \in victim[t] :
       /\ proc[c.pid] = "zombie"
       /\ proc' = [proc EXCEPT ![c.pid] = "reaped"]
  /\ Goto(t, "push")
  /\ UNCHANGED <<pool, children, spawned, lock, todo, target, list, victim,
                 signal, ended, lost>>

(* waitpid: the child is reaped here, or has been by the handler.  stop_all *)
(* goes on with the next child. *)
WaitChild(t) ==
  /\ \/ Runs(t, "wait") \/ Runs(t, "waitall")
  /\ \E c \in victim[t] :
       /\ proc[c.pid] \in {"zombie", "reaped"}
       /\ proc' = [proc EXCEPT ![c.pid] = "reaped"]
  /\ \/ pc[t] = "wait" /\ Goto(t, "push") /\ UNCHANGED victim
     \/ /\ pc[t] = "waitall" /\ Goto(t, "killall")
        /\ victim' = [victim EXCEPT ![t] = {}]
  /\ UNCHANGED <<pool, children, spawned, lock, todo, target, list, signal,
                 ended, lost>>

(* Without m_, the port of a child that is stopped goes back to the pool. *)
ReturnPort(t) ==
  /\ Runs(t, "push")
  /\ \E c \in victim[t] : Push(c.port, OtherPushes(t))
  /\ victim' = [victim EXCEPT ![t] = {}] /\ Goto(t, "kill")
  /\ UNCHANGED <<kids, lock, todo, target, list, signal, ended>>

StopEnds(t) ==
  /\ Runs(t, "kill") /\ list[t] = {}
  /\ Goto(t, "idle")
  /\ UNCHANGED <<pool, kids, lock, todo, target, list, victim, signal, ended,
                 lost>>

-----------------------------------------------------------------------------
(* The end of the daemon: stop_all keeps m_ until every child is dead. *)

StopAll(t) ==
  /\ Runs(t, "idle") /\ TakeLock(t)
  /\ list' = [list EXCEPT ![t] = children]
  /\ Goto(t, "killall")
  /\ UNCHANGED <<pool, kids, todo, target, victim, signal, lost>>

(* SIGTERM ends the RPC server, main joins its threads and leaves, which   *)
(* destroys the jubavisor. *)
Destroy ==
  /\ ~ended /\ \A t \in Rpc : Runs(t, "idle")
  /\ ended' = TRUE
  /\ StopAll(Main)

(* on_connection_expired, whatever the other threads are doing. *)
Expire == StopAll(Zk) /\ UNCHANGED ended

StopAllEnds(t) ==
  /\ Runs(t, "killall") /\ list[t] = {}
  /\ children' = {} /\ lock' = NoThread
  /\ Goto(t, IF t = Main THEN "gone" ELSE "exit")
  /\ UNCHANGED <<pool, proc, spawned, todo, target, list, victim, signal,
                 ended, lost>>

(* exit(-1) ends the process, whatever the other threads have done since   *)
(* stop_all has given back m_. *)
Quit ==
  /\ Runs(Zk, "exit") /\ Goto(Zk, "gone")
  /\ UNCHANGED <<pool, kids, lock, todo, target, list, victim, signal, ended,
                 lost>>

-----------------------------------------------------------------------------
(* Children and SIGCHLD *)

(* A child ends, by itself or because it is told to, and leaves a zombie.  *)
Exit(p) ==
  /\ proc[p] \in {"running", "told"}
  /\ proc' = [proc EXCEPT ![p] = "zombie"]
  /\ pending' = TRUE
  /\ UNCHANGED <<pool, children, spawned, thread, handler, caught, ended,
                 lost>>

(* The pending signal, however many children it stands for, interrupts a   *)
(* thread that may take it, whether that thread has m_ or not. *)
Interrupt(t) ==
  /\ t \in SigThreads /\ Alive /\ pending /\ handler[t] = "off"
  /\ pending' = FALSE
  /\ handler' = [handler EXCEPT ![t] = "reap"]
  /\ UNCHANGED <<pool, kids, thread, caught, ended, lost>>

(* waitpid(-1, WNOHANG) gets any zombie there is; the loop ends without one. *)
Reap(t) ==
  /\ Alive /\ handler[t] = "reap"
  /\ \/ \E p \in 1..MaxSpawn :
          /\ proc[p] = "zombie"
          /\ proc' = [proc EXCEPT ![p] = "reaped"]
          /\ caught' = [caught EXCEPT ![t] = p]
          /\ handler' = [handler EXCEPT ![t] = "release"]
     \/ /\ \A p \in 1..MaxSpawn : proc[p] # "zombie"
        /\ handler' = [handler EXCEPT ![t] = "off"]
        /\ UNCHANGED <<proc, caught>>
  /\ UNCHANGED <<pool, children, spawned, thread, pending, ended, lost>>

(* Variant: one child for each signal. *)
ReleaseOnce(t) ==
  /\ Alive /\ handler[t] = "release" /\ lock = NoThread
  /\ \/ \E c \in children :
          /\ c.pid = caught[t]
          /\ children' = children \ {c}
          /\ Push(c.port, OtherPushes(NoThread))
     \/ /\ \A c \in children : c.pid # caught[t]
        /\ UNCHANGED <<children, pool, lost>>
  /\ caught' = [caught EXCEPT ![t] = 0]
  /\ handler' = [handler EXCEPT ![t] = "off"]
  /\ UNCHANGED <<proc, spawned, thread, pending, ended>>

(* Under m_, the handler releases the port of the child, if it still is in *)
(* children_.                                                              *)
Release(t) ==
  /\ Alive /\ handler[t] = "release" /\ lock = NoThread
  /\ \/ \E c \in children :
          /\ c.pid = caught[t]
          /\ children' = children \ {c}
          /\ Push(c.port, OtherPushes(NoThread))
     \/ /\ \A c \in children : c.pid # caught[t]
        /\ UNCHANGED <<children, pool, lost>>
  /\ caught' = [caught EXCEPT ![t] = 0]
  /\ handler' = [handler EXCEPT ![t] = "reap"]
  /\ UNCHANGED <<proc, spawned, thread, pending, ended>>

-----------------------------------------------------------------------------

Request(t) ==
  \/ Spawn(t) \/ StartEnds(t)
  \/ StopCopies(t) \/ StopEnds(t) \/ ReturnPort(t)
  \/ \E c \in list[t] : Kill(t, c)
  \/ WaitChild(t) \/ StopAllEnds(t)

Handle(t) == Reap(t) \/ Release(t)

Next ==
  \/ \E t \in Threads :
       Request(t) \/ Interrupt(t) \/ Handle(t) \/ SpawnFails(t)
  \/ \E t \in Rpc, m \in Names :
       Stop(t, m) \/ \E n \in 1..Cardinality(Ports) : Start(t, m, n)
  \/ Destroy \/ Expire \/ Quit
  \/ \E p \in 1..MaxSpawn : Exit(p)

Spec == Init /\ [][Next]_vars

(* A thread runs on, in its request or in the handler on top of it; the    *)
(* signal comes to some thread; and the servers that get SIGTERM end       *)
(* (server_helper::stop). *)
Fairness ==
  /\ \A t \in Threads : WF_vars(Request(t) \/ Handle(t))
  /\ WF_vars(\E t \in Threads : Interrupt(t))
  /\ WF_vars(\E p \in 1..MaxSpawn : proc[p] = "told" /\ Exit(p))

FairSpec == Spec /\ Fairness

-----------------------------------------------------------------------------
(* Properties *)

PortsOf(S) == {c.port : c \in S}
Stopping == UNION {list[t] \cup victim[t] : t \in Rpc}
Kept == ToSet(pool) \cup PortsOf(children) \cup PortsOf(Stopping)
StopAllOver == \E e \in Enders : pc[e] \in {"exit", "gone"}

(* A port in the pool is there once and no running child has it, although  *)
(* start, stop and the handler return ports at their own times and stop    *)
(* does so without m_.                                                     *)
PoolPortsFree ==
  /\ IsInjective(pool)
  /\ \A c \in children \cup Stopping :
       proc[c.pid] \in {"running", "told"} => c.port \notin ToSet(pool)

(* jubavisor loses no port before a stop_all is over, unless a kill has    *)
(* failed or two threads have pushed at the same time: what is not in the  *)
(* pool belongs to a child in children_ or to one that is being stopped.   *)
PortsKept == ~lost /\ ~StopAllOver => Kept = Ports

(* Every server that runs can be stopped: it is in children_ or some stop  *)
(* call is about to kill it.                                               *)
NoStrayServers ==
  \A p \in 1..MaxSpawn :
    proc[p] = "running" => \E c \in children \cup Stopping : c.pid = p

(* The handler runs on top of the thread that has m_ and waits for m_: as  *)
(* no thread blocks SIGCHLD, it may be the one that is in start, in stop   *)
(* or in stop_all.  Nobody gets m_ after that.                             *)
SelfLocked == \E u \in Threads : lock = u /\ handler[u] = "release"

(* The one thing that keeps a request from its end is that thread: stop    *)
(* does not wait in vain for a child that the handler has reaped, however  *)
(* late the signal comes, and handlers and requests do not wait for each   *)
(* other's mutex in another way.                                           *)
RequestsEnd == \A t \in Rpc : []<>(pc[t] = "idle" \/ SelfLocked \/ ~Alive)

(* But for that thread, the entry of a child that dies goes, and its port  *)
(* with it ("release reserved port"), also when one signal stands for      *)
(* several children and when stop and stop_all reap some of them.          *)
DeadChildrenGo ==
  \A p \in 1..MaxSpawn :
    []<>(\/ SelfLocked \/ ~Alive
         \/ \A c \in children :
              c.pid = p => proc[p] \notin {"zombie", "reaped"})

=============================================================================
