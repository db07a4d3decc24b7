-------------------------- MODULE JubavisorProofs --------------------------
(***************************************************************************)
(* Proofs about Jubavisor for any number of threads, ports, names and      *)
(* children: ports are not given away twice nor lost, and no running       *)
(* server is forgotten, although stop works without m_ most of the time    *)
(* and stop_all comes in between when the session expires.                 *)
(***************************************************************************)
EXTENDS Jubavisor, FiniteSetTheorems, TLAPS

USE ThreadAssumption, PortAssumption DEF Enders

(* The records that children_ and the copies of stop hold. *)
Kid == [name : Names, port : Ports, pid : Nat]

(* The children that t has taken out of children_ to stop them. *)
Has(t) == list[t] \cup victim[t]

Typed ==
  /\ pool \in Seq(Ports)
  /\ children \in SUBSET Kid
  /\ list \in [Threads -> SUBSET Kid] /\ victim \in [Threads -> SUBSET Kid]
  /\ proc \in [1..MaxSpawn -> {"none", "running", "told", "zombie", "reaped"}]
  /\ spawned \in Nat
  /\ pc \in [Threads -> {"idle", "start", "copy", "kill", "wait", "push",
                         "killall", "waitall", "exit", "gone"}]
  /\ target \in [Threads -> Names]
  /\ handler \in [Threads -> {"off", "reap", "release"}]
  /\ caught \in [Threads -> Nat]
  /\ lost \in BOOLEAN /\ ended \in BOOLEAN

(* start and stop_all keep m_ to their end and stop while it copies; the   *)
(* main thread comes when the RPC threads are joined; nobody holds a child *)
(* outside a request.                                                      *)
Controlled ==
  /\ \A t \in Rpc : pc[t] \in {"idle", "start", "copy", "kill", "wait", "push"}
  /\ \A e \in Enders : pc[e] \in {"idle", "killall", "waitall", "exit", "gone"}
  /\ \A t \in Threads : pc[t] \in {"start", "copy", "killall", "waitall"} => lock = t
  /\ \A t \in Rpc : pc[t] \in {"idle", "start", "copy"} => list[t] = {}
  /\ \A t \in Threads : pc[t] \in {"idle", "start", "copy", "kill", "killall"} => victim[t] = {}
  /\ \A t \in Threads : \A c, d \in victim[t] : c = d
  /\ ended => pc[Main] # "idle" /\ \A t \in Rpc : pc[t] = "idle"
  /\ pc[Main] # "idle" => ended

(* pids are used once; whoever is about to forget a child has seen it      *)
(* dead, or is about to kill it.                                           *)
Pids ==
  /\ \A p \in 1..MaxSpawn : p > spawned => proc[p] = "none"
  /\ \A c \in children :
       c.pid <= spawned /\ (c.pid \in 1..MaxSpawn => proc[c.pid] # "none")
  /\ \A t \in Threads : \A c \in Has(t) :
       c.pid <= spawned /\ (c.pid \in 1..MaxSpawn => proc[c.pid] # "none")
  /\ \A t \in Threads : pc[t] = "push" =>
       \A c \in victim[t] : c.pid \in 1..MaxSpawn => proc[c.pid] = "reaped"
  /\ \A t \in Threads : \A c \in victim[t] :
       c.pid \in 1..MaxSpawn => proc[c.pid] \notin {"none", "running"}
  /\ \A t \in Threads : handler[t] = "release" =>
       caught[t] \in 1..MaxSpawn /\ proc[caught[t]] = "reaped"
  /\ \A e \in Enders : pc[e] \in {"killall", "waitall"} =>
       \A c \in children \ list[e] : c.pid \in 1..MaxSpawn => proc[c.pid] # "running"

(* A running server is in children_ or with a thread that stops it. *)
Found ==
  \A p \in 1..MaxSpawn : proc[p] = "running" =>
    \/ \E c \in children : c.pid = p
    \/ \E t \in Rpc : \E c \in list[t] : c.pid = p

(* Every child is in one place, and no two of them have the same port, nor *)
(* is it in the pool, where each port is once.                             *)
Apart ==
  /\ \A t \in Rpc : Has(t) \cap children = {} /\ list[t] \cap victim[t] = {}
  /\ \A t, u \in Rpc : t # u => Has(t) \cap Has(u) = {}
Owned(S) == \A c \in S : /\ c.port \notin ToSet(pool)
                         /\ \A d \in children : c.port = d.port => c = d
                         /\ \A t \in Rpc : \A d \in Has(t) : c.port = d.port => c = d
PortsOwned ==
  /\ IsInjective(pool)
  /\ Owned(children)
  /\ \A t \in Rpc : Owned(Has(t))

(* Without a failed kill and a race, a port has a place until stop_all is  *)
(* over.                                                                   *)
Placed ==
  ~lost /\ ~StopAllOver =>
    \A p \in Ports :
      \/ p \in ToSet(pool)
      \/ \E c \in children : c.port = p
      \/ \E t \in Rpc : \E c \in Has(t) : c.port = p

IInv == Typed /\ Controlled /\ Pids /\ Found /\ Apart /\ PortsOwned /\ Placed

-----------------------------------------------------------------------------
(* The pool as a set. *)

(* start takes the first port of the pool, *)
LEMMA TailPool ==
  ASSUME NEW s \in Seq(Ports), s # <<>>, IsInjective(s)
  PROVE  /\ Head(s) \in Ports /\ Tail(s) \in Seq(Ports)
         /\ ToSet(Tail(s)) = ToSet(s) \ {Head(s)}
         /\ IsInjective(Tail(s))
         /\ Head(s) \in ToSet(s)
<1>1. Len(s) \in Nat \ {0} /\ s \in [1..Len(s) -> Ports] /\ Head(s) = s[1]
  OBVIOUS
<1>2. /\ Tail(s) \in Seq(Ports) /\ Len(Tail(s)) = Len(s) - 1
      /\ \A i \in 1..(Len(s) - 1) : Tail(s)[i] = s[i + 1]
  BY <1>1
<1>3. IsInjective(Tail(s))
  BY <1>1, <1>2 DEF IsInjective
<1>4. ASSUME NEW p PROVE p \in ToSet(Tail(s)) <=> p \in ToSet(s) /\ p # Head(s)
  <2>1. ASSUME p \in ToSet(Tail(s)) PROVE p \in ToSet(s) /\ p # Head(s)
    <3>1. PICK i \in 1..(Len(s) - 1) : p = s[i + 1]
      BY <1>1, <1>2, <2>1 DEF ToSet
    <3> QED BY <1>1, <3>1 DEF ToSet, IsInjective
  <2>2. ASSUME p \in ToSet(s), p # Head(s) PROVE p \in ToSet(Tail(s))
    <3>1. PICK i \in 1..Len(s) : p = s[i] /\ i # 1
      BY <1>1, <2>2 DEF ToSet
    <3>2. i - 1 \in 1..(Len(s) - 1) /\ (i - 1) + 1 = i
      BY <1>1, <3>1
    <3>3. Tail(s)[i - 1] = p /\ DOMAIN Tail(s) = 1..(Len(s) - 1)
      BY <1>2, <3>1, <3>2
    <3> QED BY <3>2, <3>3 DEF ToSet
  <2> QED BY <2>1, <2>2
<1>5. Head(s) \in Ports /\ Head(s) \in ToSet(s)
  BY <1>1 DEF ToSet
<1> QED BY <1>2, <1>3, <1>4, <1>5

(* and whoever returns one puts it behind the others. *)
LEMMA AppendPool ==
  ASSUME NEW s \in Seq(Ports), NEW p \in Ports, p \notin ToSet(s), IsInjective(s)
  PROVE  /\ Append(s, p) \in Seq(Ports)
         /\ ToSet(Append(s, p)) = ToSet(s) \cup {p}
         /\ IsInjective(Append(s, p))
<1>1. Len(s) \in Nat /\ s \in [1..Len(s) -> Ports]
  OBVIOUS
<1>2. /\ Append(s, p) \in Seq(Ports) /\ Len(Append(s, p)) = Len(s) + 1
      /\ DOMAIN Append(s, p) = 1..(Len(s) + 1)
      /\ \A i \in 1..Len(s) : Append(s, p)[i] = s[i]
      /\ Append(s, p)[Len(s) + 1] = p
  BY <1>1
<1>3. \A i \in 1..Len(s) : s[i] # p
  BY <1>1 DEF ToSet
<1>4. IsInjective(Append(s, p))
  BY <1>1, <1>2, <1>3 DEF IsInjective
<1>5. ASSUME NEW q PROVE q \in ToSet(Append(s, p)) <=> q \in ToSet(s) \/ q = p
  <2>1. q \in ToSet(Append(s, p)) <=> \E i \in 1..(Len(s) + 1) : q = Append(s, p)[i]
    BY <1>2 DEF ToSet
  <2>2. q \in ToSet(s) <=> \E i \in 1..Len(s) : q = s[i]
    BY <1>1 DEF ToSet
  <2>3. (\E i \in 1..(Len(s) + 1) : q = Append(s, p)[i])
          <=> (\E i \in 1..Len(s) : q = s[i]) \/ q = p
    BY <1>1, <1>2
  <2> QED BY <2>1, <2>2, <2>3
<1> QED BY <1>2, <1>4, <1>5

(* At the beginning it holds every port once. *)
LEMMA InitPool ==
  /\ SetToSeq(Ports) \in Seq(Ports) /\ IsInjective(SetToSeq(Ports))
  /\ ToSet(SetToSeq(Ports)) = Ports
<1> DEFINE n == Cardinality(Ports)
<1>1. n \in Nat /\ ExistsBijection(1..n, Ports)
  BY FS_CardinalityType
<1>2. PICK f \in Bijection(1..n, Ports) : TRUE
  BY <1>1 DEF ExistsBijection
<1>3. f \in [1..n -> Ports] /\ IsInjective(f)
  BY <1>2 DEF Bijection, Injection
<1>4. SetToSeq(Ports) \in [1..n -> Ports] /\ IsInjective(SetToSeq(Ports))
  BY <1>3 DEF SetToSeq
<1> DEFINE g == SetToSeq(Ports)
<1>5. g \in Injection(1..n, Ports)
  BY <1>4 DEF Injection
<1>6. IsFiniteSet(1..n) /\ Cardinality(1..n) = n
  BY <1>1, FS_Interval
<1>7. g \in Surjection(1..n, Ports)
  BY <1>5, <1>6, FS_Injection
<1>8. \A p \in Ports : \E i \in 1..n : g[i] = p
  BY <1>7 DEF Surjection
<1>9. g \in Seq(Ports) /\ DOMAIN g = 1..n
  BY <1>1, <1>4
<1>10. ToSet(g) = Ports
  BY <1>4, <1>8, <1>9 DEF ToSet
<1> QED BY <1>4, <1>9, <1>10

(* A new child takes a new pid and a port that is nobody's.                *)
LEMMA SpawnStep == ASSUME IInv, NEW t \in Threads, Spawn(t) PROVE IInv'
<1> DEFINE k == [name |-> target[t], port |-> Head(pool), pid |-> spawned + 1]
<1> USE DEF IInv
<1>1. /\ pc[t] = "start" /\ pool # <<>> /\ pool' = Tail(pool) /\ spawned' = spawned + 1
      /\ proc' = [proc EXCEPT ![spawned + 1] = "running"] /\ children' = children \cup {k}
      /\ UNCHANGED <<list, victim, pc, lock, target, handler, caught, ended, lost>>
  BY DEF Spawn, Runs, signal
<1> HIDE DEF k
<1>2. t \in Rpc /\ \A e \in Enders : pc[e] \notin {"killall", "waitall"}
  BY <1>1 DEF Controlled, Threads
<1>3. /\ Head(pool) \in Ports /\ Tail(pool) \in Seq(Ports)
      /\ ToSet(Tail(pool)) = ToSet(pool) \ {Head(pool)}
      /\ IsInjective(Tail(pool)) /\ Head(pool) \in ToSet(pool)
  BY <1>1, TailPool DEF Typed, PortsOwned
<1>4. k \in Kid /\ k.port = Head(pool) /\ k.pid = spawned + 1
  BY <1>3 DEF k, Kid, Typed
<1>5. \A p \in 1..MaxSpawn : /\ proc'[p] = IF p = spawned + 1 THEN "running" ELSE proc[p]
                            /\ p = spawned + 1 => proc[p] = "none"
  BY <1>1 DEF Typed, Pids
<1>6. k \notin children /\ \A u \in Rpc : k \notin Has(u)
  BY <1>4 DEF Pids, Typed, Threads
<1>7. Typed'
  <2>1. proc' \in [1..MaxSpawn -> {"none", "running", "told", "zombie", "reaped"}]
    BY <1>1 DEF Typed
  <2>2. children' \in SUBSET Kid /\ spawned' \in Nat /\ pool' \in Seq(Ports)
    BY <1>1, <1>3, <1>4 DEF Typed
  <2> QED BY <1>1, <2>1, <2>2 DEF Typed
<1>8. Controlled'
  BY <1>1 DEF Controlled
<1>9. Pids'
  <2>1. /\ \A p \in 1..MaxSpawn : p > spawned' => proc'[p] = "none"
        /\ \A c \in children' :
             c.pid <= spawned' /\ (c.pid \in 1..MaxSpawn => proc'[c.pid] # "none")
        /\ \A u \in Threads : \A c \in Has(u)' :
             c.pid <= spawned' /\ (c.pid \in 1..MaxSpawn => proc'[c.pid] # "none")
    BY <1>1, <1>4, <1>5 DEF Pids, Typed, Has, Kid
  <2>2. \A u \in Threads : \A c \in victim[u] : c.pid # spawned + 1
    BY DEF Pids, Typed, Has, Kid
  <2>3. /\ \A u \in Threads : pc'[u] = "push" =>
             \A c \in victim'[u] : c.pid \in 1..MaxSpawn => proc'[c.pid] = "reaped"
        /\ \A u \in Threads : \A c \in victim'[u] :
             c.pid \in 1..MaxSpawn => proc'[c.pid] \notin {"none", "running"}
    BY <1>1, <1>5, <2>2 DEF Pids
  <2>4. \A u \in Threads : handler'[u] = "release" =>
          caught'[u] \in 1..MaxSpawn /\ proc'[caught'[u]] = "reaped"
    BY <1>1, <1>5 DEF Pids
  <2> QED BY <1>1, <1>2, <2>1, <2>3, <2>4 DEF Pids
<1>10. Found'
  BY <1>1, <1>4, <1>5 DEF Found
<1>11. Apart'
  BY <1>1, <1>6 DEF Apart, Has
<1>12. PortsOwned'
  <2>1. \A c \in children : c.port # k.port
    BY <1>3, <1>4 DEF PortsOwned, Owned
  <2>2. \A u \in Rpc : \A c \in Has(u) : c.port # k.port
    BY <1>3, <1>4 DEF PortsOwned, Owned
  <2>3. k.port \notin ToSet(pool') /\ IsInjective(pool') /\ ToSet(pool') \subseteq ToSet(pool)
    BY <1>1, <1>3, <1>4
  <2>4. \A u : Has(u)' = Has(u)
    BY <1>1 DEF Has
  <2> QED BY <1>1, <2>1, <2>2, <2>3, <2>4 DEF PortsOwned, Owned
<1>13. Placed'
  <2>1. \A u : Has(u)' = Has(u)
    BY <1>1 DEF Has
  <2>2. ToSet(pool') = ToSet(pool) \ {k.port}
    BY <1>1, <1>3, <1>4
  <2> QED BY <1>1, <2>1, <2>2 DEF Placed, StopAllOver
<1> QED BY <1>7, <1>8, <1>9, <1>10, <1>11, <1>12, <1>13

(* A fork that fails costs a pid, and its port goes behind the others.     *)
LEMMA SpawnFailsStep == ASSUME IInv, NEW t \in Threads, SpawnFails(t) PROVE IInv'
<1> USE DEF IInv
<1>1. /\ pool # <<>> /\ pool' = Append(Tail(pool), Head(pool)) /\ spawned' = spawned + 1
      /\ UNCHANGED <<children, proc, list, victim, pc, lock, target, handler, caught, ended,
                     lost>>
  BY DEF SpawnFails, Runs, signal
<1>2. pool' \in Seq(Ports) /\ IsInjective(pool') /\ ToSet(pool') = ToSet(pool)
  <2>1. /\ Head(pool) \in Ports /\ Tail(pool) \in Seq(Ports)
        /\ ToSet(Tail(pool)) = ToSet(pool) \ {Head(pool)}
        /\ IsInjective(Tail(pool)) /\ Head(pool) \in ToSet(pool)
    BY <1>1, TailPool DEF Typed, PortsOwned
  <2>2. Head(pool) \notin ToSet(Tail(pool))
    BY <2>1
  <2>3. /\ pool' \in Seq(Ports) /\ IsInjective(pool')
        /\ ToSet(pool') = ToSet(Tail(pool)) \cup {Head(pool)}
    BY <1>1, <2>1, <2>2, AppendPool
  <2> QED BY <2>1, <2>3
<1>3. \A u : Has(u)' = Has(u)
  BY <1>1 DEF Has
<1>4. Typed'
  BY <1>1, <1>2 DEF Typed
<1>5. Controlled'
  BY <1>1 DEF Controlled
<1>6. Pids'
  <2>1. /\ \A p \in 1..MaxSpawn : p > spawned' => proc'[p] = "none"
        /\ \A c \in children' :
             c.pid <= spawned' /\ (c.pid \in 1..MaxSpawn => proc'[c.pid] # "none")
        /\ \A u \in Threads : \A c \in Has(u)' :
             c.pid <= spawned' /\ (c.pid \in 1..MaxSpawn => proc'[c.pid] # "none")
    BY <1>1, <1>3 DEF Pids, Typed, Kid, Has
  <2> QED BY <1>1, <2>1 DEF Pids
<1>7. Found'
  BY <1>1 DEF Found
<1>8. Apart'
  BY <1>1, <1>3 DEF Apart
<1>9. PortsOwned'
  BY <1>1, <1>2, <1>3 DEF PortsOwned, Owned
<1>10. Placed'
  BY <1>1, <1>2, <1>3 DEF Placed, StopAllOver
<1> QED BY <1>4, <1>5, <1>6, <1>7, <1>8, <1>9, <1>10

(* start gives back m_; the children it made are in children_.            *)
LEMMA StartEndsStep == ASSUME IInv, NEW t \in Threads, StartEnds(t) PROVE IInv'
<1> USE DEF vars, kids, thread, signal, Goto, Runs, IInv
<1>1. Typed'
  BY DEF StartEnds, NoName, Typed
<1>2. Controlled'
  BY DEF StartEnds, Typed, Controlled, Threads
<1>3. Pids'
  BY DEF StartEnds, Typed, Controlled, Pids, Has, Threads
<1>4. Found'
  BY DEF StartEnds, Typed, Controlled, Pids, Found, Threads, Has
<1>5. Apart'
  BY DEF StartEnds, Typed, Controlled, Apart, Has, Threads
<1>6. PortsOwned'
  BY DEF StartEnds, Typed, Controlled, Apart, PortsOwned, Owned, Has, Threads
<1>7. Placed'
  BY DEF StartEnds, Typed, Controlled, Placed, StopAllOver, Has, Threads, Apart
<1> QED BY <1>1, <1>2, <1>3, <1>4, <1>5, <1>6, <1>7

(* stop moves the children of a name to its own list in one step.          *)
LEMMA StopCopiesStep == ASSUME IInv, NEW t \in Threads, StopCopies(t) PROVE IInv'
<1> USE DEF vars, kids, thread, signal, Goto, Runs, IInv
<1>1. Typed'
  BY DEF StopCopies, NoName, Of, Typed
<1>2. Controlled'
  BY DEF StopCopies, Of, Typed, Controlled, Threads
<1>3. Pids'
  BY DEF StopCopies, Of, Typed, Controlled, Pids, Has, Threads
<1>4. Found'
  <2>1. /\ t \in Rpc /\ list[t] = {} /\ proc' = proc
        /\ \A c \in children : c \in children' \/ c \in list'[t]
        /\ \A u \in Threads : list[u] \subseteq list'[u]
    BY DEF StopCopies, Of, Typed, Controlled, Threads
  <2> QED BY <2>1 DEF Found, Threads
<1>5. Apart'
  BY DEF StopCopies, Of, Typed, Controlled, Apart, Has, Threads
<1>6. PortsOwned'
  BY DEF StopCopies, Of, Typed, Controlled, Apart, PortsOwned, Owned, Has, Threads
<1>7. Placed'
  BY DEF StopCopies, Of, Typed, Controlled, Placed, StopAllOver, Has, Threads, Apart
<1> QED BY <1>1, <1>2, <1>3, <1>4, <1>5, <1>6, <1>7

(* stop has nothing left to kill.                                          *)
LEMMA StopEndsStep == ASSUME IInv, NEW t \in Threads, StopEnds(t) PROVE IInv'
<1> USE DEF vars, kids, thread, signal, Goto, Runs, IInv
<1>1. Typed'
  BY DEF StopEnds, Typed
<1>2. Controlled'
  BY DEF StopEnds, Typed, Controlled, Threads
<1>3. Pids'
  BY DEF StopEnds, Typed, Controlled, Pids, Has, Threads
<1>4. Found'
  BY DEF StopEnds, Typed, Controlled, Pids, Found, Threads, Has
<1>5. Apart'
  BY DEF StopEnds, Typed, Controlled, Apart, Has, Threads
<1>6. PortsOwned'
  BY DEF StopEnds, Typed, Controlled, Apart, PortsOwned, Owned, Has, Threads
<1>7. Placed'
  BY DEF StopEnds, Typed, Controlled, Placed, StopAllOver, Has, Threads, Apart
<1> QED BY <1>1, <1>2, <1>3, <1>4, <1>5, <1>6, <1>7

(* stop gives back the port of a child it has seen dead: nobody else has   *)
(* it.  If somebody pushes at the same time, a port may be lost.           *)
LEMMA ReturnPortStep == ASSUME IInv, NEW t \in Threads, ReturnPort(t) PROVE IInv'
<1> USE DEF IInv
<1>1. PICK c \in victim[t] :
        \/ pool' = Append(pool, c.port) /\ lost' = lost
        \/ pool' = pool /\ lost' = TRUE
  BY DEF ReturnPort, Push
<1>2. /\ pc[t] = "push" /\ pc' = [pc EXCEPT ![t] = "kill"]
      /\ victim' = [victim EXCEPT ![t] = {}]
      /\ UNCHANGED <<children, proc, spawned, list, lock, target, handler, caught, ended>>
  BY DEF ReturnPort, Runs, Goto, kids, signal
<1>3. t \in Rpc /\ c \in Has(t) /\ c.port \in Ports /\ c.port \notin ToSet(pool)
  BY <1>2 DEF Controlled, Typed, Threads, Has, PortsOwned, Owned, Kid
<1>4. /\ pool' \in Seq(Ports) /\ IsInjective(pool')
      /\ ToSet(pool) \subseteq ToSet(pool') /\ ToSet(pool') \subseteq ToSet(pool) \cup {c.port}
      /\ ~lost' => ToSet(pool') = ToSet(pool) \cup {c.port}
  <2>1. CASE pool' = Append(pool, c.port)
    BY <1>3, <2>1, AppendPool DEF Typed, PortsOwned
  <2>2. CASE pool' = pool /\ lost' = TRUE
    BY <2>2 DEF Typed, PortsOwned
  <2> QED BY <1>1, <2>1, <2>2
<1>5. /\ \A u \in Threads \ {t} : Has(u)' = Has(u) /\ victim'[u] = victim[u]
      /\ Has(t)' = list[t] /\ victim'[t] = {}
  BY <1>2 DEF Has, Typed
<1>6. \A d \in children : d.port # c.port
  BY <1>3 DEF Apart, PortsOwned, Owned
<1>7. \A u \in Rpc : \A d \in Has(u)' : d.port # c.port
  BY <1>3, <1>5 DEF Apart, PortsOwned, Owned, Has, Threads
<1>8. \A u \in Threads : Has(u)' \subseteq Has(u)
  BY <1>5 DEF Has
<1>9. lost' \in BOOLEAN
  BY <1>1 DEF Typed
<1>10. Typed'
  BY <1>2, <1>4, <1>9 DEF Typed
<1>11. Controlled'
  BY <1>2, <1>3 DEF Typed, Controlled, Threads
<1>12. Pids'
  <2>1. \A u \in Threads : pc'[u] = "push" => pc[u] = "push" /\ u # t
    BY <1>2 DEF Typed
  <2>2. \A e \in Enders : pc'[e] \in {"killall", "waitall"} => pc[e] \in {"killall", "waitall"}
    BY <1>2 DEF Typed, Threads
  <2> QED BY <1>2, <1>5, <1>8, <2>1, <2>2 DEF Pids
<1>13. Found'
  BY <1>2 DEF Found
<1>14. Apart'
  BY <1>2, <1>5, <1>8 DEF Apart, Threads
<1>15. PortsOwned'
  BY <1>2, <1>4, <1>6, <1>7, <1>8 DEF PortsOwned, Owned, Threads
<1>16. Placed'
  <2>1. SUFFICES ASSUME ~lost', ~StopAllOver', NEW p \in Ports, p \notin ToSet(pool')
                 PROVE  \/ \E d \in children' : d.port = p
                        \/ \E u \in Rpc : \E d \in Has(u)' : d.port = p
    BY DEF Placed, StopAllOver
  <2>2. ~lost /\ ~StopAllOver /\ p # c.port /\ p \notin ToSet(pool)
    BY <1>1, <1>2, <1>3, <1>4, <2>1 DEF Typed, StopAllOver, Threads
  <2>3. CASE \E d \in children : d.port = p
    BY <1>2, <2>3
  <2>4. ASSUME NEW u \in Rpc, NEW d \in Has(u), d.port = p
        PROVE  d \in Has(u)'
    <3>1. CASE u # t
      BY <1>5, <3>1 DEF Threads
    <3>2. CASE u = t
      <4>1. d # c
        BY <2>2, <2>4
      <4>2. d \in list[t]
        BY <1>1, <1>2, <1>3, <2>4, <3>2, <4>1 DEF Has, Controlled, Threads
      <4> QED BY <1>5, <3>2, <4>2
    <3> QED BY <3>1, <3>2
  <2> QED BY <1>2, <2>1, <2>2, <2>3, <2>4 DEF Placed, StopAllOver
<1> QED BY <1>10, <1>11, <1>12, <1>13, <1>14, <1>15, <1>16

(* stop kills a child it has: the child is told to end, or is dead and its *)
(* port is lost.                                                           *)
LEMMA KillStep == ASSUME IInv, NEW t \in Threads, NEW c \in list[t], Kill(t, c) PROVE IInv'
<1> USE DEF IInv
<1>1. /\ pc[t] \in {"kill", "killall"} /\ c \in list[t] /\ list' = [list EXCEPT ![t] = @ \ {c}]
      /\ UNCHANGED <<pool, children, spawned, lock, target, handler, caught, ended>>
  BY DEF Kill, Runs, signal
<1>2. c \in Kid /\ victim[t] = {} /\ c.pid <= spawned
  BY <1>1 DEF Typed, Controlled, Pids, Has
<1>3. /\ list'[t] = list[t] \ {c} /\ list' \in [Threads -> SUBSET Kid]
      /\ \A u \in Threads \ {t} : list'[u] = list[u]
  BY <1>1 DEF Typed
<1>4. /\ pc[t] = "kill" <=> t \in Rpc
      /\ pc[t] = "killall" <=> t \in Enders
  BY <1>1 DEF Controlled, Threads
<1>5. CASE proc[c.pid] = "reaped"
  <2>1. lost' = TRUE /\ UNCHANGED <<proc, victim, pc>>
    BY <1>5 DEF Kill
  <2>2. Typed'
    BY <1>1, <1>3, <2>1 DEF Typed
  <2>3. Controlled'
    BY <1>1, <1>3, <2>1 DEF Controlled, Threads
  <2>4. \A u \in Threads : Has(u)' \subseteq Has(u)
    BY <1>3, <2>1 DEF Has
  <2>5. Pids'
    BY <1>1, <1>2, <1>3, <1>5, <2>1, <2>4 DEF Pids, Threads
  <2>6. Found'
    BY <1>1, <1>3, <1>5, <2>1 DEF Found, Threads
  <2>7. Apart'
    BY <1>1, <1>3, <2>1, <2>4 DEF Apart, Threads
  <2>8. PortsOwned'
    BY <1>1, <2>4 DEF PortsOwned, Owned, Threads
  <2>9. Placed'
    BY <2>1 DEF Placed, StopAllOver, Typed
  <2> QED BY <2>2, <2>3, <2>5, <2>6, <2>7, <2>8, <2>9
<1>6. CASE proc[c.pid] # "reaped"
  <2>1. /\ proc' = [proc EXCEPT ![c.pid] = IF @ = "running" THEN "told" ELSE @]
        /\ victim' = [victim EXCEPT ![t] = {c}] /\ lost' = lost
        /\ pc' = [pc EXCEPT ![t] = IF pc[t] = "kill" THEN "wait" ELSE "waitall"]
    BY <1>6 DEF Kill, Goto
  <2>2. /\ victim'[t] = {c} /\ victim' \in [Threads -> SUBSET Kid]
        /\ \A u \in Threads \ {t} : victim'[u] = victim[u]
    BY <1>2, <2>1 DEF Typed
  <2>3. /\ pc'[t] = IF t \in Rpc THEN "wait" ELSE "waitall"
        /\ \A u \in Threads \ {t} : pc'[u] = pc[u]
    BY <1>1, <1>4, <2>1 DEF Typed
  <2>4. \A u \in Threads : Has(u)' = Has(u)
    BY <1>1, <1>2, <1>3, <2>2 DEF Has
  <2>5. /\ \A p \in 1..MaxSpawn \ {c.pid} : proc'[p] = proc[p]
        /\ c.pid \in 1..MaxSpawn => proc'[c.pid] \notin {"none", "running"}
    <3>1. c.pid \in 1..MaxSpawn => proc[c.pid] # "none"
      BY <1>1, <1>2 DEF Pids, Has
    <3> QED BY <1>2, <2>1, <3>1 DEF Typed
  <2>6. Typed'
    BY <1>1, <1>2, <1>3, <2>1, <2>2 DEF Typed
  <2>7. Controlled'
    BY <1>1, <1>3, <1>4, <2>2, <2>3 DEF Controlled, Threads
  <2>8. Pids'
    <3>1. /\ \A p \in 1..MaxSpawn : p > spawned' => proc'[p] = "none"
          /\ \A d \in children' :
               d.pid <= spawned' /\ (d.pid \in 1..MaxSpawn => proc'[d.pid] # "none")
          /\ \A u \in Threads : \A d \in Has(u)' :
               d.pid <= spawned' /\ (d.pid \in 1..MaxSpawn => proc'[d.pid] # "none")
      BY <1>1, <1>2, <2>4, <2>5 DEF Pids, Typed
    <3>2. \A p \in 1..MaxSpawn : proc[p] = "reaped" => proc'[p] = "reaped"
      BY <1>6, <2>5
    <3>3. \A u \in Threads : pc'[u] = "push" =>
            \A d \in victim'[u] : d.pid \in 1..MaxSpawn => proc'[d.pid] = "reaped"
      BY <2>2, <2>3, <3>2 DEF Pids
    <3>4. \A p \in 1..MaxSpawn : proc[p] \notin {"none", "running"} =>
                                  proc'[p] \notin {"none", "running"}
      BY <2>5
    <3>5. \A u \in Threads : \A d \in victim'[u] :
            d.pid \in 1..MaxSpawn => proc'[d.pid] \notin {"none", "running"}
      BY <2>2, <2>5, <3>4 DEF Pids
    <3>6. \A u \in Threads : handler'[u] = "release" =>
            caught'[u] \in 1..MaxSpawn /\ proc'[caught'[u]] = "reaped"
      BY <1>1, <3>2 DEF Pids
    <3>7. \A e \in Enders : pc'[e] \in {"killall", "waitall"} =>
            \A d \in children' \ list'[e] : d.pid \in 1..MaxSpawn => proc'[d.pid] # "running"
      BY <1>1, <1>3, <1>4, <2>3, <2>5 DEF Pids, Threads
    <3> QED BY <3>1, <3>3, <3>5, <3>6, <3>7 DEF Pids
  <2>9. Found'
    BY <1>1, <1>3, <2>5 DEF Found, Threads
  <2>10. Apart'
    BY <1>1, <1>3, <2>2, <2>4 DEF Apart, Threads
  <2>11. PortsOwned'
    BY <1>1, <2>4 DEF PortsOwned, Owned, Threads
  <2>12. Placed'
    BY <1>1, <2>1, <2>4 DEF Placed, StopAllOver, Threads
  <2> QED BY <2>6, <2>7, <2>8, <2>9, <2>10, <2>11, <2>12
<1> QED BY <1>5, <1>6

(* waitpid comes back when the child is dead.                              *)
LEMMA WaitChildStep == ASSUME IInv, NEW t \in Threads, WaitChild(t) PROVE IInv'
<1> USE DEF IInv
<1>1. PICK c \in victim[t] : /\ proc[c.pid] \in {"zombie", "reaped"}
                            /\ proc' = [proc EXCEPT ![c.pid] = "reaped"]
  BY DEF WaitChild
<1>2. /\ pc[t] \in {"wait", "waitall"}
      /\ pc' = [pc EXCEPT ![t] = IF pc[t] = "wait" THEN "push" ELSE "killall"]
      /\ victim' = IF pc[t] = "wait" THEN victim ELSE [victim EXCEPT ![t] = {}]
      /\ UNCHANGED <<pool, children, list, spawned, lock, target, handler, caught, ended,
                     lost>>
  BY DEF WaitChild, Runs, Goto, signal
<1>3. pc[t] = "wait" <=> t \in Rpc
  BY <1>2 DEF Controlled, Threads
<1>4. \A u \in Threads : victim'[u] \subseteq victim[u] /\ Has(u)' \subseteq Has(u)
  BY <1>2 DEF Has, Typed
<1>5. \A u \in Rpc : victim'[u] = victim[u] /\ Has(u)' = Has(u)
  BY <1>2, <1>3 DEF Has, Typed, Threads
<1>6. /\ pc'[t] = IF t \in Rpc THEN "push" ELSE "killall"
      /\ \A u \in Threads \ {t} : pc'[u] = pc[u]
  BY <1>2, <1>3 DEF Typed
<1>7. \A p \in 1..MaxSpawn : proc'[p] = IF p = c.pid THEN "reaped" ELSE proc[p]
  BY <1>1 DEF Typed
<1>8. Typed'
  BY <1>1, <1>2 DEF Typed
<1>9. Controlled'
  <2>1. t \notin Rpc => victim'[t] = {}
    BY <1>2, <1>3 DEF Typed
  <2> QED BY <1>2, <1>3, <1>4, <1>6, <2>1 DEF Controlled, Threads
<1>10. Pids'
  <2>1. /\ \A d \in children' :
             d.pid <= spawned' /\ (d.pid \in 1..MaxSpawn => proc'[d.pid] # "none")
        /\ \A u \in Threads : \A d \in Has(u)' :
             d.pid <= spawned' /\ (d.pid \in 1..MaxSpawn => proc'[d.pid] # "none")
    BY <1>2, <1>4, <1>7 DEF Pids
  <2>2. \A p \in 1..MaxSpawn : p > spawned' => proc'[p] = "none"
    BY <1>1, <1>2, <1>7 DEF Pids
  <2>3. /\ \A p \in 1..MaxSpawn : proc[p] = "reaped" => proc'[p] = "reaped"
        /\ \A p \in 1..MaxSpawn : proc[p] \notin {"none", "running"} =>
                                   proc'[p] \notin {"none", "running"}
        /\ \A p \in 1..MaxSpawn : proc'[p] = "running" => proc[p] = "running"
    BY <1>7
  <2>4. \A u \in Threads : pc'[u] = "push" =>
          \A d \in victim'[u] : d.pid \in 1..MaxSpawn => proc'[d.pid] = "reaped"
    <3>1. \A d \in victim[t] : d = c
      BY DEF Controlled
    <3> QED BY <1>4, <1>6, <1>7, <2>3, <3>1 DEF Pids
  <2>5. \A u \in Threads : \A d \in victim'[u] :
          d.pid \in 1..MaxSpawn => proc'[d.pid] \notin {"none", "running"}
    BY <1>4, <2>3 DEF Pids
  <2>6. \A u \in Threads : handler'[u] = "release" =>
          caught'[u] \in 1..MaxSpawn /\ proc'[caught'[u]] = "reaped"
    BY <1>2, <2>3 DEF Pids
  <2>7. \A e \in Enders : pc'[e] \in {"killall", "waitall"} =>
          \A d \in children' \ list'[e] : d.pid \in 1..MaxSpawn => proc'[d.pid] # "running"
    <3>1. \A e \in Enders :
            pc'[e] \in {"killall", "waitall"} => pc[e] \in {"killall", "waitall"}
      BY <1>2, <1>3, <1>6 DEF Threads
    <3> QED BY <1>2, <2>3, <3>1 DEF Pids
  <2> QED BY <2>1, <2>2, <2>4, <2>5, <2>6, <2>7 DEF Pids
<1>11. Found'
  BY <1>2, <1>7 DEF Found
<1>12. Apart'
  BY <1>2, <1>5 DEF Apart
<1>13. PortsOwned'
  BY <1>2, <1>5 DEF PortsOwned, Owned
<1>14. Placed'
  BY <1>2, <1>5 DEF Placed, StopAllOver
<1> QED BY <1>8, <1>9, <1>10, <1>11, <1>12, <1>13, <1>14

(* Nothing that runs is left when stop_all forgets the children.           *)
LEMMA StopAllEndsStep == ASSUME IInv, NEW t \in Threads, StopAllEnds(t) PROVE IInv'
<1> USE DEF vars, kids, thread, signal, Goto, Runs, IInv
<1>1. Typed'
  BY DEF StopAllEnds, Typed
<1>2. Controlled'
  BY DEF StopAllEnds, Typed, Controlled, Threads
<1>3. Pids'
  BY DEF StopAllEnds, Typed, Controlled, Pids, Has, Threads
<1>4. Found'
  <2>1. t \in Enders /\ list[t] = {} /\ children' = {} /\ UNCHANGED <<proc, list>>
    BY DEF StopAllEnds, Controlled, Threads
  <2>2. \A c \in children : c.pid \in 1..MaxSpawn => proc[c.pid] # "running"
    BY <2>1 DEF StopAllEnds, Pids
  <2> QED BY <2>1, <2>2 DEF Found
<1>5. Apart'
  BY DEF StopAllEnds, Typed, Controlled, Apart, Has, Threads
<1>6. PortsOwned'
  BY DEF StopAllEnds, Typed, Controlled, Apart, PortsOwned, Owned, Has, Threads
<1>7. Placed'
  BY DEF StopAllEnds, Typed, Controlled, Placed, StopAllOver, Has, Threads, Apart
<1> QED BY <1>1, <1>2, <1>3, <1>4, <1>5, <1>6, <1>7

(* A signal leaves the request under the handler as it is.                 *)
LEMMA InterruptStep == ASSUME IInv, NEW t \in Threads, Interrupt(t) PROVE IInv'
<1> USE DEF vars, kids, thread, signal, Goto, Runs, IInv
<1>1. Typed'
  BY DEF Interrupt, Typed
<1>2. Controlled'
  BY DEF Interrupt, Typed, Controlled, Threads
<1>3. Pids'
  BY DEF Interrupt, Typed, Controlled, Pids, Has, Threads
<1>4. Found'
  BY DEF Interrupt, Typed, Controlled, Pids, Found, Threads, Has
<1>5. Apart'
  BY DEF Interrupt, Typed, Controlled, Apart, Has, Threads
<1>6. PortsOwned'
  BY DEF Interrupt, Typed, Controlled, Apart, PortsOwned, Owned, Has, Threads
<1>7. Placed'
  BY DEF Interrupt, Typed, Controlled, Placed, StopAllOver, Has, Threads, Apart
<1> QED BY <1>1, <1>2, <1>3, <1>4, <1>5, <1>6, <1>7

(* The handler gets a zombie, or has none left to get.                     *)
LEMMA ReapStep == ASSUME IInv, NEW t \in Threads, Reap(t) PROVE IInv'
<1> USE DEF IInv
<1>1. /\ handler[t] = "reap"
      /\ UNCHANGED <<pool, children, list, victim, spawned, pc, lock, target, lost, ended>>
  BY DEF Reap, thread
<1>2. \A u : Has(u)' = Has(u)
  BY <1>1 DEF Has
<1>3. Controlled'
  BY <1>1 DEF Controlled
<1>4. Apart' /\ PortsOwned' /\ Placed'
  BY <1>1, <1>2 DEF Apart, PortsOwned, Owned, Placed, StopAllOver
<1>5. ASSUME NEW p \in 1..MaxSpawn, proc[p] = "zombie", proc' = [proc EXCEPT ![p] = "reaped"],
             caught' = [caught EXCEPT ![t] = p], handler' = [handler EXCEPT ![t] = "release"]
      PROVE  Typed' /\ Pids' /\ Found'
  <2>1. Typed'
    BY <1>1, <1>5 DEF Typed
  <2>2. \A q \in 1..MaxSpawn : proc'[q] = IF q = p THEN "reaped" ELSE proc[q]
    BY <1>5 DEF Typed
  <2>3. \A u \in Threads : handler'[u] = "release" =>
          caught'[u] \in 1..MaxSpawn /\ proc'[caught'[u]] = "reaped"
    BY <1>5, <2>2 DEF Typed, Pids
  <2>4. Pids'
    BY <1>1, <1>2, <1>5, <2>2, <2>3 DEF Pids
  <2>5. Found'
    BY <1>1, <2>2 DEF Found
  <2> QED BY <2>1, <2>4, <2>5
<1>6. ASSUME handler' = [handler EXCEPT ![t] = "off"], UNCHANGED <<proc, caught>>
      PROVE  Typed' /\ Pids' /\ Found'
  <2>1. Typed' /\ Found'
    BY <1>1, <1>6 DEF Typed, Found
  <2>2. \A u \in Threads : handler'[u] = "release" => handler[u] = "release"
    BY <1>6 DEF Typed
  <2> QED BY <1>1, <1>2, <1>6, <2>1, <2>2 DEF Pids
<1> QED BY <1>3, <1>4, <1>5, <1>6 DEF Reap

(* The handler takes a dead child out of children_ and gives back its port, *)
(* or finds that some stop call has it.                                    *)
LEMMA ReleaseStep == ASSUME IInv, NEW t \in Threads, Release(t) PROVE IInv'
<1> USE DEF IInv
<1>1. /\ handler[t] = "release" /\ handler' = [handler EXCEPT ![t] = "reap"]
      /\ caught' = [caught EXCEPT ![t] = 0]
      /\ UNCHANGED <<proc, spawned, list, victim, pc, lock, target, ended>>
  BY DEF Release, thread
<1>2. \A u : Has(u)' = Has(u)
  BY <1>1 DEF Has
<1>3. \A u \in Threads : handler'[u] = "release" =>
        caught'[u] \in 1..MaxSpawn /\ proc'[caught'[u]] = "reaped"
  BY <1>1 DEF Pids, Typed
<1>4. CASE \A c \in children : c.pid # caught[t]
  <2>1. UNCHANGED <<children, pool, lost>>
    BY <1>4 DEF Release
  <2>2. Typed' /\ Controlled'
    BY <1>1, <2>1 DEF Typed, Controlled
  <2>3. Pids'
    BY <1>1, <1>2, <1>3, <2>1 DEF Pids
  <2>4. Found' /\ Apart' /\ PortsOwned' /\ Placed'
    BY <1>1, <1>2, <2>1 DEF Found, Apart, PortsOwned, Owned, Placed, StopAllOver
  <2> QED BY <2>2, <2>3, <2>4
<1>5. CASE ~(\A c \in children : c.pid # caught[t])
  <2>1. PICK c \in children :
          /\ c.pid = caught[t] /\ children' = children \ {c}
          /\ \/ pool' = Append(pool, c.port) /\ lost' = lost
             \/ pool' = pool /\ lost' = TRUE
    BY <1>5 DEF Release, Push
  <2>2. c.port \in Ports /\ c.port \notin ToSet(pool)
    BY DEF Typed, PortsOwned, Owned, Kid
  <2>3. /\ pool' \in Seq(Ports) /\ IsInjective(pool') /\ lost' \in BOOLEAN
        /\ ToSet(pool) \subseteq ToSet(pool') /\ ToSet(pool') \subseteq ToSet(pool) \cup {c.port}
        /\ ~lost' => ~lost /\ ToSet(pool') = ToSet(pool) \cup {c.port}
    <3>1. CASE pool' = Append(pool, c.port) /\ lost' = lost
      BY <2>2, <3>1, AppendPool DEF Typed, PortsOwned
    <3>2. CASE pool' = pool /\ lost' = TRUE
      BY <3>2 DEF Typed, PortsOwned
    <3> QED BY <2>1, <3>1, <3>2
  <2>4. /\ \A d \in children' : d.port # c.port
        /\ \A u \in Rpc : \A d \in Has(u) : d.port # c.port
    BY <2>1 DEF PortsOwned, Owned, Apart
  <2>5. Typed'
    BY <1>1, <2>1, <2>3 DEF Typed
  <2>6. Controlled'
    BY <1>1 DEF Controlled
  <2>7. Pids'
    BY <1>1, <1>2, <1>3, <2>1 DEF Pids
  <2>8. Found'
    <3>1. proc[c.pid] = "reaped"
      BY <1>1, <2>1 DEF Pids
    <3> QED BY <1>1, <2>1, <3>1 DEF Found
  <2>9. Apart'
    BY <1>1, <1>2, <2>1 DEF Apart
  <2>10. PortsOwned'
    BY <1>2, <2>1, <2>3, <2>4 DEF PortsOwned, Owned
  <2>11. Placed'
    BY <1>1, <1>2, <2>1, <2>3 DEF Placed, StopAllOver
  <2> QED BY <2>5, <2>6, <2>7, <2>8, <2>9, <2>10, <2>11
<1> QED BY <1>4, <1>5

(* A request to stop begins on a thread that has no child.                 *)
LEMMA StopStep == ASSUME IInv, NEW t \in Rpc, NEW m \in Names, Stop(t, m) PROVE IInv'
<1> USE DEF vars, kids, thread, signal, Goto, Runs, IInv
<1>1. Typed'
  BY DEF Stop, TakeLock, Typed
<1>2. Controlled'
  BY DEF Stop, TakeLock, Typed, Controlled, Threads
<1>3. Pids'
  BY DEF Stop, TakeLock, Typed, Controlled, Pids, Has, Threads
<1>4. Found'
  <2>1. UNCHANGED <<children, list, proc>>
    BY DEF Stop
  <2> QED BY <2>1 DEF Found
<1>5. Apart'
  BY DEF Stop, TakeLock, Typed, Controlled, Apart, Has, Threads
<1>6. PortsOwned'
  BY DEF Stop, TakeLock, Typed, Controlled, Apart, PortsOwned, Owned, Has, Threads
<1>7. Placed'
  BY DEF Stop, TakeLock, Typed, Controlled, Placed, StopAllOver, Has, Threads, Apart
<1> QED BY <1>1, <1>2, <1>3, <1>4, <1>5, <1>6, <1>7

(* A request to start, likewise.                                           *)
LEMMA StartStep == ASSUME IInv, NEW t \in Rpc, NEW m \in Names, NEW n \in Nat, Start(t, m, n) PROVE IInv'
<1> USE DEF vars, kids, thread, signal, Goto, Runs, IInv
<1>1. Typed'
  BY DEF Start, TakeLock, Typed
<1>2. Controlled'
  BY DEF Start, TakeLock, Typed, Controlled, Threads
<1>3. Pids'
  BY DEF Start, TakeLock, Typed, Controlled, Pids, Has, Threads
<1>4. Found'
  <2>1. UNCHANGED <<children, list, proc>>
    BY DEF Start
  <2> QED BY <2>1 DEF Found
<1>5. Apart'
  BY DEF Start, TakeLock, Typed, Controlled, Apart, Has, Threads
<1>6. PortsOwned'
  BY DEF Start, TakeLock, Typed, Controlled, Apart, PortsOwned, Owned, Has, Threads
<1>7. Placed'
  BY DEF Start, TakeLock, Typed, Controlled, Placed, StopAllOver, Has, Threads, Apart
<1> QED BY <1>1, <1>2, <1>3, <1>4, <1>5, <1>6, <1>7

(* Main comes when no RPC thread has a child.                              *)
LEMMA DestroyStep == ASSUME IInv, Destroy PROVE IInv'
<1> USE DEF vars, kids, thread, signal, Goto, Runs, IInv
<1>1. Typed'
  BY DEF Destroy, StopAll, TakeLock, Typed
<1>2. Controlled'
  BY DEF Destroy, StopAll, TakeLock, Typed, Controlled, Threads
<1>3. Pids'
  BY DEF Destroy, StopAll, TakeLock, Typed, Controlled, Pids, Has, Threads
<1>4. Found'
  BY DEF Destroy, StopAll, TakeLock, Typed, Controlled, Pids, Found, Threads, Has
<1>5. Apart'
  BY DEF Destroy, StopAll, TakeLock, Typed, Controlled, Apart, Has, Threads
<1>6. PortsOwned'
  BY DEF Destroy, StopAll, TakeLock, Typed, Controlled, Apart, PortsOwned, Owned, Has,
     Threads
<1>7. Placed'
  BY DEF Destroy, StopAll, TakeLock, Typed, Controlled, Placed, StopAllOver, Has, Threads, Apart
<1> QED BY <1>1, <1>2, <1>3, <1>4, <1>5, <1>6, <1>7

(* The ZooKeeper thread comes at any moment; what stop has taken stays with *)
(* stop.                                                                   *)
LEMMA ExpireStep == ASSUME IInv, Expire PROVE IInv'
<1> USE DEF vars, kids, thread, signal, Goto, Runs, IInv
<1>1. Typed'
  BY DEF Expire, StopAll, TakeLock, Typed
<1>2. Controlled'
  BY DEF Expire, StopAll, TakeLock, Typed, Controlled, Threads
<1>3. Pids'
  BY DEF Expire, StopAll, TakeLock, Typed, Controlled, Pids, Has, Threads
<1>4. Found'
  BY DEF Expire, StopAll, TakeLock, Typed, Controlled, Pids, Found, Threads, Has
<1>5. Apart'
  BY DEF Expire, StopAll, TakeLock, Typed, Controlled, Apart, Has, Threads
<1>6. PortsOwned'
  BY DEF Expire, StopAll, TakeLock, Typed, Controlled, Apart, PortsOwned, Owned, Has,
     Threads
<1>7. Placed'
  BY DEF Expire, StopAll, TakeLock, Typed, Controlled, Placed, StopAllOver, Has, Threads, Apart
<1> QED BY <1>1, <1>2, <1>3, <1>4, <1>5, <1>6, <1>7

(* The process goes with all it had.                                       *)
LEMMA QuitStep == ASSUME IInv, Quit PROVE IInv'
<1> USE DEF vars, kids, thread, signal, Goto, Runs, IInv
<1>1. Typed'
  BY DEF Quit, Typed
<1>2. Controlled'
  BY DEF Quit, Typed, Controlled, Threads
<1>3. Pids'
  BY DEF Quit, Typed, Controlled, Pids, Has, Threads
<1>4. Found'
  BY DEF Quit, Typed, Controlled, Pids, Found, Threads, Has
<1>5. Apart'
  BY DEF Quit, Typed, Controlled, Apart, Has, Threads
<1>6. PortsOwned'
  BY DEF Quit, Typed, Controlled, Apart, PortsOwned, Owned, Has,
     Threads
<1>7. Placed'
  BY DEF Quit, Typed, Controlled, Placed, StopAllOver, Has, Threads, Apart
<1> QED BY <1>1, <1>2, <1>3, <1>4, <1>5, <1>6, <1>7

(* A child ends where it is.                                               *)
LEMMA ExitStep == ASSUME IInv, NEW p \in 1..MaxSpawn, Exit(p) PROVE IInv'
<1> USE DEF vars, kids, thread, signal, Goto, Runs, IInv
<1>1. Typed'
  BY DEF Exit, Typed
<1>2. Controlled'
  BY DEF Exit, Typed, Controlled, Threads
<1>3. Pids'
  BY DEF Exit, Typed, Controlled, Pids, Has, Threads
<1>4. Found'
  <2>1. /\ UNCHANGED <<children, list>>
        /\ \A q \in 1..MaxSpawn : proc'[q] = "running" => proc[q] = "running"
    BY DEF Exit, Typed
  <2> QED BY <2>1 DEF Found
<1>5. Apart'
  BY DEF Exit, Typed, Controlled, Apart, Has, Threads
<1>6. PortsOwned'
  BY DEF Exit, Typed, Controlled, Apart, PortsOwned, Owned, Has, Threads
<1>7. Placed'
  BY DEF Exit, Typed, Controlled, Placed, StopAllOver, Has, Threads, Apart
<1> QED BY <1>1, <1>2, <1>3, <1>4, <1>5, <1>6, <1>7

(* The pool is full and nothing else has a port.                           *)
LEMMA InitIInv == Init => IInv
<1>1. SUFFICES ASSUME Init PROVE IInv
  OBVIOUS
<1>2. Typed
  BY <1>1, InitPool DEF Init, NoName, Typed, Threads
<1>3. Controlled /\ Pids /\ Found
  BY <1>1 DEF Init, Controlled, Pids, Found, Has, Threads
<1>4. Apart /\ PortsOwned /\ Placed
  BY <1>1, InitPool DEF Init, Apart, PortsOwned, Owned, Placed, StopAllOver, Has, Threads
<1> QED BY <1>2, <1>3, <1>4 DEF IInv

(* One lemma above for each action. *)
LEMMA NextIInv == IInv /\ [Next]_vars => IInv'
<1>1. SUFFICES ASSUME IInv, [Next]_vars PROVE IInv'
  OBVIOUS
<1>2. ASSUME NEW t \in Threads, Request(t) PROVE IInv'
  BY <1>1, <1>2, SpawnStep, StartEndsStep, StopCopiesStep, StopEndsStep, ReturnPortStep,
     KillStep, WaitChildStep, StopAllEndsStep DEF Request
<1>3. ASSUME NEW t \in Threads, Interrupt(t) \/ Handle(t) PROVE IInv'
  BY <1>1, <1>3, InterruptStep, ReapStep, ReleaseStep DEF Handle
<1>4. ASSUME NEW t \in Threads, SpawnFails(t) PROVE IInv'
  BY <1>1, <1>4, SpawnFailsStep
<1>5. ASSUME NEW t \in Rpc, NEW m \in Names, Stop(t, m) PROVE IInv'
  BY <1>1, <1>5, StopStep
<1>6. ASSUME NEW t \in Rpc, NEW m \in Names, NEW n \in 1..Cardinality(Ports), Start(t, m, n)
      PROVE  IInv'
  <2>1. n \in Nat
    BY FS_CardinalityType
  <2> QED BY <1>1, <1>6, <2>1, StartStep
<1>7. CASE Destroy \/ Expire \/ Quit
  BY <1>1, <1>7, DestroyStep, ExpireStep, QuitStep
<1>8. ASSUME NEW p \in 1..MaxSpawn, Exit(p) PROVE IInv'
  BY <1>1, <1>8, ExitStep
<1>9. CASE UNCHANGED vars
  <2>1. \A t : Has(t)' = Has(t)
    BY <1>9 DEF vars, thread, Has
  <2>2. Typed' /\ Controlled' /\ Found'
    BY <1>1, <1>9 DEF vars, kids, thread, signal, IInv, Typed, Controlled, Found
  <2>3. Pids' /\ Apart' /\ PortsOwned' /\ Placed'
    BY <1>1, <1>9, <2>1 DEF vars, kids, thread, signal, IInv, Pids, Apart, PortsOwned,
       Owned, Placed, StopAllOver
  <2> QED BY <2>2, <2>3 DEF IInv
<1> QED BY <1>1, <1>2, <1>3, <1>4, <1>5, <1>6, <1>7, <1>8, <1>9 DEF Next

(* Requests of any number of threads, children that die at any moment and  *)
(* a handler on top of any of them keep the invariant.                     *)
THEOREM Invariance == Spec => []IInv
<1> QED BY InitIInv, NextIInv, PTL DEF Spec

(* The children in the hands of a stop call, as the properties say it. *)
LEMMA InStopping == \A c : c \in Stopping <=> \E t \in Rpc : c \in Has(t)
  BY DEF Stopping, Has

(* No port is in the pool twice, or while a running child has it.          *)
THEOREM PoolIsFree == Spec => []PoolPortsFree
<1>1. IInv => PoolPortsFree
  <2>1. ASSUME IInv, NEW c \in children \cup Stopping PROVE c.port \notin ToSet(pool)
    BY <2>1, InStopping DEF IInv, PortsOwned, Owned
  <2> QED BY <2>1 DEF IInv, PortsOwned, PoolPortsFree
<1> QED BY <1>1, Invariance, PTL

(* No port is lost but by a kill that fails or by two pushes at once.      *)
THEOREM NoPortIsLost == Spec => []PortsKept
<1>1. IInv => PortsKept
  <2>1. SUFFICES ASSUME IInv, ~lost, ~StopAllOver PROVE Kept = Ports
    BY DEF PortsKept
  <2>2. ToSet(pool) \subseteq Ports
    BY <2>1 DEF IInv, Typed, ToSet
  <2>3. /\ \A c \in children : c.port \in Ports
        /\ \A t \in Rpc : \A c \in Has(t) : c.port \in Ports
    BY <2>1 DEF IInv, Typed, Kid, Has, Threads
  <2>4. \A c \in children \cup Stopping : c.port \in Ports
    BY <2>3, InStopping
  <2>5. \A p \in Ports : p \in ToSet(pool) \/ \E c \in children \cup Stopping : c.port = p
    BY <2>1, InStopping DEF IInv, Placed, StopAllOver
  <2> QED BY <2>2, <2>4, <2>5 DEF Kept, PortsOf
<1> QED BY <1>1, Invariance, PTL

(* Every running server is known to jubavisor or about to be killed.       *)
THEOREM NoServerIsForgotten == Spec => []NoStrayServers
<1>1. IInv => NoStrayServers
  <2>1. SUFFICES ASSUME IInv, NEW p \in 1..MaxSpawn, proc[p] = "running"
                 PROVE  \E c \in children \cup Stopping : c.pid = p
    BY DEF NoStrayServers
  <2>2. \/ \E c \in children : c.pid = p
        \/ \E t \in Rpc : \E c \in Has(t) : c.pid = p
    BY <2>1 DEF IInv, Found, Has
  <2> QED BY <2>2, InStopping
<1> QED BY <1>1, Invariance, PTL

============================================================================
