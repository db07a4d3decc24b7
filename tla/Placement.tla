----------------------------- MODULE Placement -----------------------------
(***************************************************************************)
(* Where the data of a cluster is: servers enter the ring and leave it     *)
(* (server_helper.cpp, cht.cpp), proxies route calls by lists they cache   *)
(* (cached_zk.cpp, proxy_common.cpp), servers that create rows place them  *)
(* on other servers (graph_serv.cpp, anomaly_serv.cpp), and the servers    *)
(* of a burst cluster share the keywords (burst_serv.cpp).                 *)
(*                                                                         *)
(* ZooKeeper is external: an ordered store whose child watches fire once,  *)
(* whose events arrive later, and whose calls may fail.  The mixing of     *)
(* rows between servers is left out: what is asked here is where the rows  *)
(* of direct calls are.                                                    *)
(***************************************************************************)
EXTENDS Ring, Methods

CONSTANTS
  Proxy,         \* the proxies
  Caller,        \* calls that may be under way at the same time
  Scenarios      \* the service, the servers that run, and the bounds

ASSUME ScenarioAssumption ==
  \A sc \in Scenarios : sc.running \subseteq Node /\ sc.service \in DOMAIN Services

VARIABLES
  service,       \* the service of the cluster
  up,            \* servers that run and have a session
  ring,          \* children of /cht
  nodes,         \* children of /nodes
  listed, list,  \* a proxy's cached list of /cht, if it has one
  known,         \* the virtual nodes whose contents a proxy has cached
  watch, event,  \* a child watch of a proxy on /cht, and its event
  unheard,       \* history: a reload of the proxy failed
  rows, edges,   \* the rows of a server, and the rows it has an edge of
  wlock,         \* the call that holds a server's write lock between steps
  pc, call,      \* the calls under way
  nextId,        \* the version of id_generator
  answered,      \* history: rows whose creation succeeded on this ring
  placed,        \* history: "here" when a call has put the row on this ring
                 \* without a failure, "gone" when one has cleared it
  linked,        \* history: rows an edge was put on in the same way
  processed,     \* the keywords a server processes
  bound,         \* watcher_binded_
  kwatch, kevent,\* the watch of a burst server on /nodes, and its event
  kpc,           \* where its watcher is: "idle" or "rebind"
  missed,        \* history: it could not see a change of the ring
  left           \* how much of each bound is left

zk == <<ring, nodes, up>>
proxies == <<listed, list, known, watch, event, unheard>>
data == <<rows, edges, wlock>>
calls == <<pc, call, nextId>>
history == <<answered, placed, linked>>
burst == <<processed, bound, kwatch, kevent, kpc, missed>>
vars == <<service, zk, proxies, data, calls, history, burst, left>>

Spend(b) == left[b] > 0 /\ left' = [left EXCEPT ![b] = @ - 1]

None == "none"

ASSUME NameAssumption == None \notin Node

(* A call: its method and key, the proxy that routes it or the server that *)
(* runs it, the virtual nodes to read, the servers to call, whether the    *)
(* next of them must succeed, whether one has failed, and whether the ring *)
(* and the calls for the same key have left it alone.                      *)
NoCall == [method |-> None, key |-> 0, by |-> None, at |-> None, vnodes |-> <<>>,
           todo |-> <<>>, first |-> FALSE, failed |-> FALSE, settled |-> FALSE]

Width(m) == LET r == Route(service, m) IN IF r = "cht2" THEN 2 ELSE IF r = "cht1" THEN 1 ELSE 0

(* The methods proxies route by key: those that put a row, that clear it,  *)
(* and that ask for it.                                                    *)
ByKey == {m \in DOMAIN Services[service].routes : Width(m) > 0}
Puts == ByKey \cap {"update_row", "update", "overwrite", "push", "set_row"}
Clears == ByKey \cap {"clear_row"}
Asks == {m \in ByKey : Effect(service, m) = "read"}
Creates == DOMAIN Services[service].routes \cap {"create_node", "add"}

(* Variant: no replica. *)
NoReplicas == 1

(* How many servers create_node, create_edge and add look for, and the     *)
(* replication_level of burst.                                             *)
Replicas == 2
ReplicationLevel == 2
IsAssigned(n, k) == n \in OwnersIn(ring, k, ReplicationLevel)
RehashKeywords(n) == {k \in Key : IsAssigned(n, k)}

(* Where a server that creates a row looks for its servers, and whom a     *)
(* server takes for the others.                                            *)
FindFromCht(k) == Find(ring, k, Replicas)
GetMembers(n) == nodes \ {n}

TypeOK ==
  /\ up \subseteq Node /\ nodes \subseteq up /\ ring \subseteq VNodesOf(up)
  /\ VNodesOf(nodes) \subseteq ring
  /\ \A p \in Proxy : list[p] \subseteq VNode /\ known[p] \subseteq VNode
  /\ \A p \in Proxy : ~listed[p] => list[p] = {}
  /\ rows \in [Node -> SUBSET Key] /\ edges \in [Node -> SUBSET Key]
  /\ \A n \in Node : n \notin up => rows[n] = {} /\ processed[n] = {} /\ ~kwatch[n]
  /\ pc \in [Caller -> {"idle", "list", "read", "send", "local", "members", "tell"}]
  /\ \A c \in Caller : pc[c] = "read" => call[c].vnodes # <<>>
  /\ \A c \in Caller : pc[c] \in {"send", "tell"} => call[c].todo # <<>>
  /\ \A c \in Caller : pc[c] \in {"local", "members", "tell"} => call[c].at \in nodes
  /\ \A n \in Node : wlock[n] # None => pc[wlock[n]] = "members" /\ call[wlock[n]].at = n
  /\ placed \in [Key -> {"here", "gone", "unknown"}]
  /\ linked \subseteq Key /\ answered \subseteq Key
  /\ processed \in [Node -> SUBSET Key]
  /\ \A n \in Node : ~(kwatch[n] /\ kevent[n])

(* The servers of sc.running have joined; in a burst cluster they hold the *)
(* keywords, which were added to all of them, and watch the others.        *)
Init ==
  /\ \E sc \in Scenarios :
       /\ service = sc.service /\ up = sc.running /\ left = sc.left
       /\ bound = [n \in Node |-> sc.service = "burst" /\ n \in sc.running]
  /\ nodes = up /\ ring = VNodesOf(up)
  /\ listed = [p \in Proxy |-> FALSE] /\ list = [p \in Proxy |-> {}]
  /\ known = [p \in Proxy |-> {}]
  /\ watch = [p \in Proxy |-> FALSE] /\ event = [p \in Proxy |-> FALSE]
  /\ unheard = [p \in Proxy |-> FALSE]
  /\ rows = [n \in Node |-> {}] /\ edges = [n \in Node |-> {}]
  /\ wlock = [n \in Node |-> None]
  /\ pc = [c \in Caller |-> "idle"] /\ call = [c \in Caller |-> NoCall]
  /\ nextId = 1
  /\ answered = {} /\ linked = {} /\ placed = [k \in Key |-> "gone"]
  /\ processed = [n \in Node |-> IF bound[n] THEN RehashKeywords(n) ELSE {}]
  /\ kwatch = bound
  /\ kevent = [n \in Node |-> FALSE] /\ kpc = [n \in Node |-> "idle"]
  /\ missed = [n \in Node |-> FALSE]

-----------------------------------------------------------------------------
(* ZooKeeper, and the servers that come and go. *)

Half(n) == n \in up /\ n \notin nodes

(* The watches on /cht fire, and what is known to be placed is not known   *)
(* of the new ring.                                                        *)
RingChanges(S) ==
  /\ ring' = S
  /\ event' = [p \in Proxy |-> event[p] \/ watch[p]]
  /\ watch' = [p \in Proxy |-> FALSE]
  /\ answered' = {} /\ linked' = {} /\ placed' = [k \in Key |-> "unknown"]
  /\ UNCHANGED <<listed, list, known, unheard>>

(* The watches on /nodes fire; a burst server that has not bound its own   *)
(* again yet misses the change.                                            *)
NodesChange(S) ==
  /\ nodes' = S
  /\ kevent' = [n \in Node |-> n \in up' /\ (kevent[n] \/ kwatch[n])]
  /\ kwatch' = [n \in Node |-> FALSE]

Unsettle(C) ==
  [c \in Caller |-> IF c \in C THEN [call[c] EXCEPT !.settled = FALSE] ELSE call[c]]

(* A server starts: register_node creates its virtual nodes one by one. *)
RegisterNode(n, i) ==
  /\ IF n \in up THEN Half(n) /\ UNCHANGED <<up, left>>
     ELSE Spend("joins") /\ up' = up \cup {n}
  /\ <<n, i>> \notin ring /\ \A j \in 1..(i - 1) : <<n, j>> \in ring
  /\ RingChanges(ring \cup {<<n, i>>})
  /\ call' = Unsettle(Caller)
  /\ UNCHANGED <<service, nodes, data, pc, nextId, burst>>

(* prepare_for_run registers it in /nodes after that. *)
RegisterActor(n) ==
  /\ Half(n) /\ VNodesOf({n}) \subseteq ring
  /\ up' = up /\ NodesChange(nodes \cup {n})
  /\ missed' = [m \in Node |-> missed[m] \/ kpc[m] = "rebind"]
  /\ UNCHANGED <<service, ring, proxies, data, calls, history, processed, bound, kpc, left>>

(* A server dies, or stops: its session ends and takes its nodes with it,  *)
(* and the calls it was running are not answered.  The death of a server   *)
(* that is not in /nodes yet changes the ring, and no burst server sees it.*)
ServerDies(n) ==
  /\ n \in up /\ Cardinality(up) > 1 /\ Spend("crashes")
  /\ up' = up \ {n} /\ RingChanges(ring \ VNodesOf({n}))
  /\ IF Half(n) THEN UNCHANGED <<nodes, kwatch, kevent>> ELSE NodesChange(nodes \ {n})
  /\ missed' = [m \in Node |-> m # n /\ (missed[m] \/ Half(n) \/ kpc[m] = "rebind")]
  /\ rows' = [rows EXCEPT ![n] = {}] /\ edges' = [edges EXCEPT ![n] = {}]
  /\ wlock' = [wlock EXCEPT ![n] = None]
  /\ pc' = [c \in Caller |-> IF call[c].at = n THEN "idle" ELSE pc[c]]
  /\ call' = [c \in Caller |-> IF call[c].at = n THEN NoCall ELSE Unsettle(Caller)[c]]
  /\ processed' = [processed EXCEPT ![n] = {}]
  /\ bound' = [bound EXCEPT ![n] = FALSE] /\ kpc' = [kpc EXCEPT ![n] = "idle"]
  /\ UNCHANGED <<service, nextId>>

-----------------------------------------------------------------------------
(* The caches of a proxy. *)

(* Variant: the listing after an event sets no watch. *)
ReloadOnce(p) ==
  /\ event[p] /\ event' = [event EXCEPT ![p] = FALSE]
  /\ listed' = [listed EXCEPT ![p] = TRUE] /\ list' = [list EXCEPT ![p] = ring]
  /\ UNCHANGED <<service, zk, known, watch, unheard, data, calls, history, burst, left>>

(* The child event arrives: reload_cache lists again and watches again.    *)
(* When the listing fails it leaves an empty list, and no watch.           *)
Reload(p) ==
  /\ event[p] /\ event' = [event EXCEPT ![p] = FALSE]
  /\ listed' = [listed EXCEPT ![p] = TRUE]
  /\ \/ /\ list' = [list EXCEPT ![p] = ring] /\ watch' = [watch EXCEPT ![p] = TRUE]
        /\ UNCHANGED <<unheard, left>>
     \/ /\ Spend("fails") /\ list' = [list EXCEPT ![p] = {}]
        /\ unheard' = [unheard EXCEPT ![p] = TRUE] /\ UNCHANGED watch
  /\ UNCHANGED <<service, zk, known, data, calls, history, burst>>

(* A session event comes with no path or with an empty one: it clears both *)
(* caches or nothing.  The watches of the session stay.                    *)
SessionEvent(p) ==
  /\ Spend("sessions")
  /\ listed' = [listed EXCEPT ![p] = FALSE]
  /\ list' = [list EXCEPT ![p] = {}] /\ known' = [known EXCEPT ![p] = {}]
  /\ UNCHANGED <<service, zk, watch, event, unheard, data, calls, history, burst>>

(* The deleted event of a virtual node takes its contents from the cache. *)
Forget(p, v) ==
  /\ v \in known[p] \ ring /\ known' = [known EXCEPT ![p] = @ \ {v}]
  /\ UNCHANGED <<service, zk, listed, list, watch, event, unheard, data, calls, history, burst, left>>

-----------------------------------------------------------------------------
(* Calls. *)

SameKey(k) == {c \in Caller : pc[c] # "idle" /\ call[c].key = k}

(* A call for k begins: what was known of the row is not known any more,   *)
(* and the calls for k under way may be ordered either way.                *)
Begin(c, k, new, at) ==
  /\ pc' = [pc EXCEPT ![c] = at]
  /\ call' = [Unsettle(SameKey(k)) EXCEPT ![c] = new]
  /\ placed' = [placed EXCEPT ![k] = "unknown"]
  /\ answered' = IF new.method \in Clears \cup {"remove_node"} THEN answered \ {k} ELSE answered

End(c) == pc' = [pc EXCEPT ![c] = "idle"] /\ call' = [call EXCEPT ![c] = NoCall]

(* Only the first listing of a proxy asks ZooKeeper, and watches. *)
CacheList(p) ==
  /\ listed' = [listed EXCEPT ![p] = TRUE]
  /\ list' = IF listed[p] THEN list ELSE [list EXCEPT ![p] = ring]
  /\ watch' = IF listed[p] THEN watch ELSE [watch EXCEPT ![p] = TRUE]

(* A proxy looks for the servers of k in its list; when that is empty, or  *)
(* cannot be had, it answers with an error.                                *)
Routed(c, p, m, k) ==
  /\ pc[c] = "idle" /\ Spend("calls")
  /\ m \in Puts \cup Clears \/ (m = "create_edge" /\ m \in ByKey)
  /\ CacheList(p) /\ list'[p] # {}
  /\ Begin(c, k, [NoCall EXCEPT !.method = m, !.key = k, !.by = p,
                    !.vnodes = Find(list'[p], k, Width(m)),
                    !.settled = list'[p] = ring /\ SameKey(k) = {}], "read")
  /\ UNCHANGED <<service, zk, known, event, unheard, data, nextId, linked, burst>>

(* create_id: the version of a node that every server writes to. *)
Generate == nextId \in Key /\ nextId' = nextId + 1

(* create_node and add run on any server: they take a new id, list the     *)
(* ring themselves, and must reach the first of the servers they find.     *)
Create(c, n, m) ==
  /\ pc[c] = "idle" /\ Spend("calls") /\ m \in Creates
  /\ n \in nodes /\ Generate
  /\ Begin(c, nextId, [NoCall EXCEPT !.method = m, !.key = nextId, !.at = n,
                         !.vnodes = FindFromCht(nextId), !.first = TRUE,
                         !.settled = SameKey(nextId) = {}], "read")
  /\ UNCHANGED <<service, zk, proxies, data, linked, burst>>

(* create_edge at the server a proxy has sent it to: it looks for the      *)
(* servers of the source again.                                            *)
ListEdge(c) ==
  /\ pc[c] = "list"
  /\ pc' = [pc EXCEPT ![c] = "read"]
  /\ call' = [call EXCEPT ![c].vnodes = FindFromCht(call[c].key)]
  /\ UNCHANGED <<service, zk, proxies, data, nextId, history, burst, left>>

(* The contents of the next virtual node.  At a server a failing read ends *)
(* the call; a proxy goes on with what it has read before, or with nobody. *)
Read(c) ==
  LET v == Head(call[c].vnodes)
      p == call[c].by
      cached == call[c].at = None /\ v \in known[p]
      before == IF call[c].todo = <<>> THEN None ELSE Last(call[c].todo)
      Took(t, settled) ==
        /\ call' = [call EXCEPT ![c].vnodes = Tail(@), ![c].todo = Append(@, t),
                                ![c].settled = @ /\ settled]
        /\ pc' = [pc EXCEPT ![c] = IF Len(call[c].vnodes) > 1 THEN @
                    ELSE IF call[c].method = "create_edge" /\ call[c].at # None THEN "local"
                    ELSE "send"]
  IN  /\ pc[c] = "read"
      /\ \/ /\ cached \/ v \in ring
            /\ Took(Owner(v), TRUE)
            /\ known' = IF call[c].at # None THEN known ELSE [known EXCEPT ![p] = @ \cup {v}]
            /\ left' = left
         \/ /\ ~cached /\ IF v \in ring THEN Spend("fails") ELSE left' = left
            /\ IF call[c].at # None THEN End(c) ELSE Took(before, FALSE)
            /\ known' = known
      /\ UNCHANGED <<service, zk, listed, list, watch, event, unheard, data, nextId, history, burst>>

(* create_edge on the server that runs it, whether it is the first the     *)
(* ring gives or not; the second, unless it is itself, is called after it. *)
LocalEdge(c) ==
  LET n == call[c].at
      others == RemoveFirst(Tail(call[c].todo), n)
  IN  /\ pc[c] = "local" /\ wlock[n] = None
      /\ IF call[c].key \in rows[n]
         THEN /\ edges' = [edges EXCEPT ![n] = @ \cup {call[c].key}]
              /\ IF others = <<>> THEN End(c)
                 ELSE pc' = [pc EXCEPT ![c] = "send"] /\ call' = [call EXCEPT ![c].todo = others]
              /\ linked' = IF others = <<>> /\ call[c].settled THEN linked \cup {call[c].key}
                           ELSE linked
         ELSE End(c) /\ UNCHANGED <<edges, linked>>
      /\ UNCHANGED <<service, zk, proxies, rows, wlock, nextId, answered, placed, burst, left>>

(* The proxy calls its servers at once; a server calls the others in turn. *)
Targets(c) == IF call[c].at = None THEN Range(call[c].todo) ELSE {Head(call[c].todo)}

(* What the method does on server t, and whether it succeeds. *)
Fits(c, t) == call[c].method = "create_edge" => call[c].key \in rows[t]
Apply(c, t) ==
  /\ rows' = [rows EXCEPT ![t] =
       CASE call[c].method \in Puts \cup Creates -> @ \cup {call[c].key}
         [] call[c].method \in Clears -> @ \ {call[c].key}
         [] OTHER -> @]
  /\ edges' = IF call[c].method = "create_edge" /\ Fits(c, t)
              THEN [edges EXCEPT ![t] = @ \cup {call[c].key}] ELSE edges

(* Variant: a row is created although its first server has failed. *)
ResultLenient(c, t, ok) ==
  LET rest == RemoveFirst(call[c].todo, t)
  IN  /\ IF rest = <<>> THEN End(c)
         ELSE call' = [call EXCEPT ![c].todo = rest, ![c].failed = @ \/ ~ok] /\ pc' = pc
      /\ answered' = IF rest = <<>> /\ call[c].settled THEN answered \cup {call[c].key} ELSE answered
      /\ UNCHANGED <<placed, linked>>

(* One server has answered, or not; the first that a row is created on     *)
(* must.  The call ends with the last of them.                             *)
Result(c, t, ok) ==
  LET rest == RemoveFirst(call[c].todo, t)
      failed == call[c].failed \/ ~ok
      over == rest = <<>> \/ (call[c].first /\ ~ok)
      k == call[c].key
      good == over /\ call[c].settled /\ ~(call[c].first /\ ~ok)
  IN  /\ IF over THEN End(c)
         ELSE /\ call' = [call EXCEPT ![c].todo = rest, ![c].first = FALSE, ![c].failed = failed]
              /\ pc' = pc
      /\ answered' = IF good /\ call[c].method \in Creates THEN answered \cup {k} ELSE answered
      /\ linked' = IF good /\ ~failed /\ call[c].method = "create_edge" THEN linked \cup {k} ELSE linked
      /\ placed' = IF ~good \/ failed THEN placed
                   ELSE CASE call[c].method \in Puts \cup Creates -> [placed EXCEPT ![k] = "here"]
                          [] call[c].method \in Clears -> [placed EXCEPT ![k] = "gone"]
                          [] OTHER -> placed

(* A call reaches a server once its lock is free; it, or its answer, may   *)
(* be lost.  create_edge of a proxy goes on at that server.                *)
Deliver(c) ==
  /\ pc[c] = "send"
  /\ \E t \in Targets(c) \cap nodes :
      /\ IF call[c].method = "create_edge" /\ call[c].at = None
         THEN /\ pc' = [pc EXCEPT ![c] = "list"]
              /\ call' = [call EXCEPT ![c].at = t, ![c].todo = <<>>]
              /\ UNCHANGED <<rows, edges, history>>
         ELSE wlock[t] = None /\ Apply(c, t) /\ Result(c, t, Fits(c, t))
      /\ UNCHANGED <<service, zk, proxies, wlock, nextId, burst, left>>

Lose(c) ==
  /\ pc[c] = "send"
  /\ \E t \in Targets(c) :
      /\ IF t \in nodes THEN Spend("fails") ELSE left' = left
      /\ IF call[c].method = "create_edge" /\ call[c].at = None
         THEN End(c) /\ UNCHANGED <<rows, edges, history>>
         ELSE /\ \/ t \in nodes /\ wlock[t] = None /\ Apply(c, t)
                 \/ UNCHANGED <<rows, edges>>
              /\ Result(c, t, FALSE)
      /\ UNCHANGED <<service, zk, proxies, wlock, nextId, burst>>

-----------------------------------------------------------------------------
(* remove_node of graph, on one server. *)

RemoveNode(c, n, k) ==
  /\ service = "graph" /\ pc[c] = "idle" /\ Spend("calls")
  /\ n \in nodes /\ wlock[n] = None /\ k \in rows[n]
  /\ rows' = [rows EXCEPT ![n] = @ \ {k}] /\ edges' = [edges EXCEPT ![n] = @ \ {k}]
  /\ wlock' = [wlock EXCEPT ![n] = c]
  /\ Begin(c, k, [NoCall EXCEPT !.method = "remove_node", !.key = k, !.at = n], "members")
  /\ linked' = linked \ {k}
  /\ UNCHANGED <<service, zk, proxies, nextId, burst>>

(* Variant: it keeps the lock while it calls the others. *)
MembersLocked(c) ==
  LET others == GetMembers(call[c].at)
  IN  /\ pc[c] = "members"
      /\ IF others = {} THEN End(c) /\ wlock' = [wlock EXCEPT ![call[c].at] = None]
         ELSE /\ call' = [call EXCEPT ![c].todo = SetToSeq(others)]
              /\ pc' = [pc EXCEPT ![c] = "tell"] /\ wlock' = wlock
      /\ UNCHANGED <<service, zk, proxies, rows, edges, nextId, history, burst, left>>

(* It lists the others under the lock, and gives it back before it calls   *)
(* them; when the list cannot be had there is nobody to call.              *)
Members(c) ==
  LET others == GetMembers(call[c].at)
  IN  /\ pc[c] = "members"
      /\ wlock' = [wlock EXCEPT ![call[c].at] = None]
      /\ \/ /\ others # {} /\ left' = left
            /\ call' = [call EXCEPT ![c].todo = SetToSeq(others)]
            /\ pc' = [pc EXCEPT ![c] = "tell"]
         \/ /\ IF others = {} THEN left' = left ELSE Spend("fails")
            /\ End(c)
      /\ UNCHANGED <<service, zk, proxies, rows, edges, nextId, history, burst>>

(* remove_global_node on the next of them, under its lock; a call that     *)
(* fails is passed over.  The lock is free at the end of remove_node.      *)
Told(c, t) ==
  LET n == call[c].at
      rest == RemoveFirst(call[c].todo, t)
  IN  /\ IF rest = <<>> THEN End(c) ELSE call' = [call EXCEPT ![c].todo = rest] /\ pc' = pc
      /\ wlock' = IF rest = <<>> /\ wlock[n] = c THEN [wlock EXCEPT ![n] = None] ELSE wlock

Tell(c) ==
  /\ pc[c] = "tell"
  /\ \E t \in Range(call[c].todo) :
      /\ \/ t \in nodes /\ wlock[t] = None /\ left' = left
         \/ t \notin nodes /\ left' = left
         \/ t \in nodes /\ Spend("fails")
      /\ Told(c, t)
      /\ UNCHANGED <<service, zk, proxies, rows, edges, nextId, history, burst>>

-----------------------------------------------------------------------------
(* Burst: which server processes a keyword. *)

(* rehash_keywords in watcher_impl_, under the write lock.  When the ring  *)
(* cannot be listed it throws, and the watcher is not bound again.         *)
Rehash(n) ==
  /\ kevent[n] /\ kevent' = [kevent EXCEPT ![n] = FALSE]
  /\ \/ /\ processed' = [processed EXCEPT ![n] = RehashKeywords(n)]
        /\ kpc' = [kpc EXCEPT ![n] = "rebind"]
        /\ missed' = [missed EXCEPT ![n] = FALSE] /\ left' = left
     \/ /\ Spend("fails") /\ missed' = [missed EXCEPT ![n] = TRUE]
        /\ UNCHANGED <<processed, kpc>>
  /\ UNCHANGED <<service, zk, proxies, data, calls, history, bound, kwatch>>

(* Variant: the watcher is taken for one that stays. *)
RebindNever(n) ==
  /\ kpc[n] = "rebind" /\ kpc' = [kpc EXCEPT ![n] = "idle"]
  /\ UNCHANGED <<service, zk, proxies, data, calls, history, processed, bound, kwatch, kevent, missed, left>>

(* bind_watcher_, after the lock is given back; its failure goes unseen. *)
Rebind(n) ==
  /\ kpc[n] = "rebind" /\ kpc' = [kpc EXCEPT ![n] = "idle"]
  /\ \/ kwatch' = [kwatch EXCEPT ![n] = TRUE] /\ UNCHANGED <<missed, left>>
     \/ Spend("fails") /\ missed' = [missed EXCEPT ![n] = TRUE] /\ kwatch' = kwatch
  /\ UNCHANGED <<service, zk, proxies, data, calls, history, processed, bound, kevent>>

(* The first add_documents of a server that has been mixed: its keywords   *)
(* are those of the others.                                                *)
AddDocuments(n) ==
  /\ service = "burst" /\ n \in nodes /\ ~bound[n]
  /\ bound' = [bound EXCEPT ![n] = TRUE]
  /\ processed' = [processed EXCEPT ![n] = RehashKeywords(n)]
  /\ kpc' = [kpc EXCEPT ![n] = "rebind"] /\ missed' = [missed EXCEPT ![n] = FALSE]
  /\ UNCHANGED <<service, zk, proxies, data, calls, history, kwatch, kevent, left>>

-----------------------------------------------------------------------------

Steps(c) ==
  \/ Read(c) \/ ListEdge(c) \/ LocalEdge(c) \/ Deliver(c) \/ Lose(c)
  \/ Members(c) \/ Tell(c)

Next ==
  \/ \E n \in Node : (\E i \in 1..NumVServ : RegisterNode(n, i)) \/ RegisterActor(n)
  \/ \E n \in Node : ServerDies(n) \/ Rehash(n) \/ Rebind(n) \/ AddDocuments(n)
  \/ \E p \in Proxy : Reload(p) \/ SessionEvent(p) \/ \E v \in VNode : Forget(p, v)
  \/ \E c \in Caller, p \in Proxy, m \in ByKey, k \in Key : Routed(c, p, m, k)
  \/ \E c \in Caller, n \in Node, m \in Creates : Create(c, n, m)
  \/ \E c \in Caller, n \in Node, k \in Key : RemoveNode(c, n, k)
  \/ \E c \in Caller : Steps(c)

Spec == Init /\ [][Next]_vars

(* A call that can go on without a failure does. *)
FairSpec == Spec /\ \A c \in Caller : WF_vars(Steps(c) /\ left' = left)

-----------------------------------------------------------------------------
(* Properties. *)

(* A server that a query may ask for a row has it when a call has put the  *)
(* row without a failure since the ring last changed, and does not when    *)
(* one has cleared it: queries look at no more servers than updates reach, *)
(* whatever the proxy has cached.                                          *)
PlacedFound ==
  \A k \in Key, m \in Asks :
    /\ placed[k] = "here" => \A n \in OwnersIn(ring, k, Width(m)) : k \in rows[n]
    /\ placed[k] = "gone" => \A n \in OwnersIn(ring, k, Width(m)) : k \notin rows[n]

(* An edge whose creation did not fail is on every server that get_node    *)
(* asks for its source.                                                    *)
LinkedFound ==
  \A k \in linked : \A n \in OwnersIn(ring, k, Width("get_node")) : k \in edges[n]

(* A row whose creation was answered is on the first server for its id,    *)
(* "this sequences MUST success", until the ring changes.                  *)
AnsweredHeld == \A k \in answered : \A n \in OwnersIn(ring, k, 1) : k \in rows[n]

(* The list a proxy routes by is that of the ring, or it will hear of the  *)
(* change, unless a reload has failed.                                     *)
CacheFollows ==
  \A p \in Proxy : listed[p] /\ list[p] # ring /\ ~unheard[p] => event[p]

(* A burst server processes the keywords that proxies ask it for, or it    *)
(* will hear of a change, unless it was not watching when the ring changed.*)
KeywordsFollow ==
  \A n \in nodes : bound[n] /\ ~missed[n] /\ (\A m \in Node : ~Half(m))
                     => kevent[n] \/ processed[n] = RehashKeywords(n)

(* No call waits for ever for another: remove_node gives back its lock     *)
(* before it calls the others, so that two of them do not block each       *)
(* other, even if no call times out.                                       *)
CallsEnd == []<>(\A c \in Caller : pc[c] = "idle")

=============================================================================
