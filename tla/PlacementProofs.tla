-------------------------- MODULE PlacementProofs --------------------------
(***************************************************************************)
(* Proofs about Placement for any ring, any servers, proxies and callers   *)
(* and any bounds: whoever caches the ring, a proxy its list or a burst    *)
(* server its keywords, will hear of every change it has not seen; and     *)
(* what a call has put is on the servers that others ask for it.           *)
(***************************************************************************)
EXTENDS Placement, TLAPS, FiniteSetTheorems, WellFoundedInduction, SequenceTheorems

(* The steps of calls leave the ring and those who watch it alone, but for *)
(* the first listing of a proxy, which no burst server sees.               *)
LEMMA CallSteps ==
  ASSUME NEW c \in Caller, Steps(c)
  PROVE  UNCHANGED <<zk, burst, listed, list, watch, event, unheard>>
BY DEF Steps, Read, ListEdge, LocalEdge, Deliver, Lose, Members, Tell, proxies

-----------------------------------------------------------------------------
(* The list of a proxy. *)

ListTypes ==
  /\ listed \in [Proxy -> BOOLEAN] /\ unheard \in [Proxy -> BOOLEAN]
  /\ watch \in [Proxy -> BOOLEAN] /\ event \in [Proxy -> BOOLEAN]
  /\ list \in [Proxy -> SUBSET VNode] /\ ring \subseteq VNode

(* A proxy that has a list and has not failed to renew it has an event to  *)
(* come, or a watch on the ring it has listed.                             *)
Watches(p) == listed[p] /\ ~unheard[p] => event[p] \/ (watch[p] /\ list[p] = ring)

ListIInv == ListTypes /\ \A p \in Proxy : Watches(p)

(* Every watch that a change of the ring finds becomes an event. *)
LEMMA RingChangesList ==
  ASSUME ListIInv, NEW S \in SUBSET VNode, RingChanges(S)
  PROVE  ListIInv'
<1>1. ListTypes'
  BY DEF ListIInv, ListTypes, RingChanges
<1>2. ASSUME NEW p \in Proxy PROVE Watches(p)'
  <2>1. listed'[p] = listed[p] /\ unheard'[p] = unheard[p] /\ event'[p] = (event[p] \/ watch[p])
    BY DEF RingChanges
  <2> QED BY <2>1 DEF ListIInv, Watches
<1> QED BY <1>1, <1>2 DEF ListIInv

(* A listing that succeeds sets a watch on what it has seen. *)
LEMMA ProxyStepsList ==
  ASSUME ListIInv, NEW p \in Proxy, ring' = ring,
         \/ Reload(p) \/ SessionEvent(p)
         \/ CacheList(p) /\ UNCHANGED <<event, unheard>>
  PROVE  ListIInv'
<1>1. ListTypes'
  BY DEF ListIInv, ListTypes, Reload, SessionEvent, CacheList
<1>2. ASSUME NEW q \in Proxy, q # p PROVE Watches(q)'
  <2>1. /\ listed'[q] = listed[q] /\ unheard'[q] = unheard[q] /\ event'[q] = event[q]
        /\ watch'[q] = watch[q] /\ list'[q] = list[q]
    BY <1>2 DEF ListIInv, ListTypes, Reload, SessionEvent, CacheList
  <2> QED BY <2>1 DEF ListIInv, Watches
<1>3. Watches(p)'
  <2>1. CASE Reload(p)
    <3>1. \/ list'[p] = ring /\ watch'[p]
          \/ unheard'[p]
      BY <2>1 DEF ListIInv, ListTypes, Reload
    <3> QED BY <3>1 DEF Watches
  <2>2. CASE SessionEvent(p)
    <3>1. ~listed'[p]
      BY <2>2 DEF ListIInv, ListTypes, SessionEvent
    <3> QED BY <3>1 DEF Watches
  <2>3. CASE CacheList(p) /\ UNCHANGED <<event, unheard>>
    <3>1. CASE listed[p]
      BY <2>3, <3>1 DEF CacheList, ListIInv, Watches
    <3>2. CASE ~listed[p]
      <4>1. list'[p] = ring /\ watch'[p]
        BY <2>3, <3>2 DEF CacheList, ListIInv, ListTypes
      <4> QED BY <4>1 DEF Watches
    <3> QED BY <3>1, <3>2
  <2> QED BY <2>1, <2>2, <2>3
<1> QED BY <1>1, <1>2, <1>3 DEF ListIInv

(* A step that touches none of it. *)
LEMMA ListKept ==
  ASSUME ListIInv, UNCHANGED <<ring, listed, list, watch, event, unheard>>
  PROVE  ListIInv'
BY DEF ListIInv, ListTypes, Watches

(* The list a proxy routes by is that of the ring, or an event is on its   *)
(* way to it (cached_zk::list, reload_cache, clear_cache), whatever the    *)
(* servers, the calls and the sessions do, unless a reload has failed.     *)
THEOREM CachedListFollows == Spec => []CacheFollows
<1>1. Init => ListIInv
  <2>1. VNodesOf(up) \subseteq VNode
    BY DEF VNodesOf
  <2> QED BY <2>1 DEF Init, ListIInv, ListTypes, Watches
<1>2. ListIInv /\ [Next]_vars => ListIInv'
  <2> SUFFICES ASSUME ListIInv, [Next]_vars PROVE ListIInv'
    OBVIOUS
  <2>1. ASSUME NEW n \in Node, NEW i \in 1..NumVServ, RegisterNode(n, i) PROVE ListIInv'
    <3>1. ring \cup {<<n, i>>} \in SUBSET VNode
      BY DEF ListIInv, ListTypes, VNode
    <3> QED BY <2>1, <3>1, RingChangesList DEF RegisterNode
  <2>2. ASSUME NEW n \in Node, ServerDies(n) PROVE ListIInv'
    <3>1. ring \ VNodesOf({n}) \in SUBSET VNode
      BY DEF ListIInv, ListTypes
    <3> QED BY <2>2, <3>1, RingChangesList DEF ServerDies
  <2>3. ASSUME NEW n \in Node, RegisterActor(n) \/ Rehash(n) \/ Rebind(n) \/ AddDocuments(n)
        PROVE  ListIInv'
    BY <2>3, ListKept DEF RegisterActor, Rehash, Rebind, AddDocuments, proxies, zk
  <2>4. ASSUME NEW p \in Proxy, Reload(p) \/ SessionEvent(p) PROVE ListIInv'
    BY <2>4, ProxyStepsList DEF Reload, SessionEvent, zk
  <2>5. ASSUME NEW p \in Proxy, NEW v \in VNode, Forget(p, v) PROVE ListIInv'
    BY <2>5, ListKept DEF Forget, zk
  <2>6. ASSUME NEW c \in Caller, NEW p \in Proxy, NEW m \in ByKey, NEW k \in Key, Routed(c, p, m, k)
        PROVE  ListIInv'
    BY <2>6, ProxyStepsList DEF Routed, zk
  <2>7. ASSUME NEW c \in Caller, NEW n \in Node,
               (\E m \in Creates : Create(c, n, m)) \/ (\E k \in Key : RemoveNode(c, n, k))
        PROVE  ListIInv'
    BY <2>7, ListKept DEF Create, RemoveNode, proxies, zk
  <2>8. ASSUME NEW c \in Caller, Steps(c) PROVE ListIInv'
    BY <2>8, CallSteps, ListKept DEF zk
  <2>9. CASE UNCHANGED vars
    BY <2>9, ListKept DEF vars, zk, proxies
  <2> QED BY <2>1, <2>2, <2>3, <2>4, <2>5, <2>6, <2>7, <2>8, <2>9 DEF Next
<1>3. ListIInv => CacheFollows
  BY DEF ListIInv, Watches, CacheFollows
<1> QED BY <1>1, <1>2, <1>3, PTL DEF Spec

-----------------------------------------------------------------------------
(* The keywords of a burst server. *)

KeywordTypes ==
  /\ up \subseteq Node /\ nodes \subseteq up
  /\ bound \in [Node -> BOOLEAN] /\ missed \in [Node -> BOOLEAN]
  /\ kwatch \in [Node -> BOOLEAN] /\ kevent \in [Node -> BOOLEAN]
  /\ kpc \in [Node -> {"idle", "rebind"}]
  /\ processed \in [Node -> SUBSET Key]

(* A server that follows the ring has an event to come, a watch, or is     *)
(* about to set one, and while no server is half registered it has taken   *)
(* the keywords of the ring or has an event to come.                       *)
Follows(n) ==
  bound[n] /\ ~missed[n] =>
    /\ kevent[n] \/ kwatch[n] \/ kpc[n] = "rebind"
    /\ (\A m \in Node : ~Half(m)) => kevent[n] \/ processed[n] = RehashKeywords(n)

KeywordIInv ==
  /\ KeywordTypes
  /\ \A n \in Node : n \notin nodes => ~bound[n]
  /\ \A n \in nodes : Follows(n)

(* Between the first and the last virtual node of a server the ring and    *)
(* /nodes differ, and whoever listens will hear of the end of it.          *)
LEMMA RegisterNodeKeywords ==
  ASSUME KeywordIInv, NEW n \in Node, NEW i \in 1..NumVServ, RegisterNode(n, i)
  PROVE  KeywordIInv'
<1>1. KeywordTypes'
  BY DEF KeywordIInv, KeywordTypes, RegisterNode, burst
<1>2. Half(n)'
  BY DEF KeywordIInv, KeywordTypes, RegisterNode, Half
<1>3. ASSUME NEW m \in nodes' PROVE Follows(m)'
  <2>1. m \in nodes /\ UNCHANGED <<bound, missed, kevent, kwatch, kpc>>
    BY <1>3 DEF RegisterNode, burst
  <2> QED BY <1>2, <2>1 DEF KeywordIInv, Follows
<1> QED BY <1>1, <1>3 DEF KeywordIInv, RegisterNode, burst

(* A change of /nodes reaches every server that follows it, or was missed. *)
LEMMA NodesChangeKeywords ==
  ASSUME KeywordIInv, NEW n \in Node, RegisterActor(n) \/ (ServerDies(n) /\ ~Half(n))
  PROVE  KeywordIInv'
<1>1. KeywordTypes'
  <2>1. /\ up' \subseteq Node /\ nodes' \subseteq up'
        /\ bound' \in [Node -> BOOLEAN] /\ kpc' \in [Node -> {"idle", "rebind"}]
        /\ processed' \in [Node -> SUBSET Key]
    BY DEF KeywordIInv, KeywordTypes, RegisterActor, ServerDies, NodesChange, Half
  <2>2. kwatch' \in [Node -> BOOLEAN] /\ kevent' \in [Node -> BOOLEAN]
    <3>1. \E S : NodesChange(S)
      BY DEF RegisterActor, ServerDies
    <3>2. PICK S : NodesChange(S)
      BY <3>1
    <3>3. \A m \in Node : (m \in up' /\ (kevent[m] \/ kwatch[m])) \in BOOLEAN
      OBVIOUS
    <3> QED BY <3>2, <3>3, Zenon DEF NodesChange
  <2>3. missed' \in [Node -> BOOLEAN]
    BY DEF RegisterActor, ServerDies
  <2> QED BY <2>1, <2>2, <2>3 DEF KeywordTypes
<1>2. \A m \in Node : bound'[m] => bound[m] /\ (ServerDies(n) => m # n)
  BY DEF KeywordIInv, KeywordTypes, RegisterActor, ServerDies
<1>3. \A m \in Node : m \notin nodes' => ~bound'[m]
  BY <1>2 DEF KeywordIInv, RegisterActor, ServerDies, NodesChange
<1>4. ASSUME NEW m \in nodes' PROVE Follows(m)'
  <2> SUFFICES ASSUME bound'[m], ~missed'[m] PROVE kevent'[m]
    BY DEF Follows
  <2>1. m \in nodes /\ m \in Node /\ m \in up'
    BY <1>1, <1>2, <1>4 DEF KeywordTypes, KeywordIInv
  <2>2. ~missed[m] /\ kpc[m] # "rebind"
    BY <1>2, <2>1 DEF RegisterActor, ServerDies
  <2>3. kevent[m] \/ kwatch[m]
    BY <1>2, <2>1, <2>2 DEF KeywordIInv, Follows
  <2> QED BY <2>1, <2>3 DEF RegisterActor, ServerDies, NodesChange
<1> QED BY <1>1, <1>3, <1>4 DEF KeywordIInv

(* The end of a server that was only half registered goes unseen. *)
LEMMA HalfDiesKeywords ==
  ASSUME KeywordIInv, NEW n \in Node, ServerDies(n), Half(n)
  PROVE  KeywordIInv'
<1>1. KeywordTypes'
  BY DEF KeywordIInv, KeywordTypes, ServerDies, Half
<1>2. nodes' = nodes /\ n \notin nodes /\ \A m \in nodes : missed'[m]
  BY DEF KeywordIInv, KeywordTypes, ServerDies, Half
<1>3. \A m \in Node : bound'[m] => bound[m]
  BY DEF KeywordIInv, KeywordTypes, ServerDies
<1> QED BY <1>1, <1>2, <1>3 DEF KeywordIInv, Follows

(* What a burst server does by itself leaves the others alone. *)
LEMMA OwnKeywords ==
  ASSUME KeywordIInv, NEW n \in Node, Rehash(n) \/ Rebind(n) \/ AddDocuments(n)
  PROVE  KeywordIInv'
<1>1. zk' = zk /\ ring' = ring /\ nodes' = nodes /\ up' = up
  BY DEF Rehash, Rebind, AddDocuments, zk
<1>2. RehashKeywords(n) \in SUBSET Key /\ \A m : RehashKeywords(m)' = RehashKeywords(m)
  BY <1>1 DEF RehashKeywords, IsAssigned
<1>3. KeywordTypes'
  BY <1>1, <1>2 DEF KeywordIInv, KeywordTypes, Rehash, Rebind, AddDocuments
<1>4. \A m \in Node : (bound'[m] => bound[m] \/ m \in nodes)
  BY DEF KeywordIInv, KeywordTypes, Rehash, Rebind, AddDocuments
<1>5. ASSUME NEW m \in nodes, m # n PROVE Follows(m)'
  <2>1. m \in Node
    BY DEF KeywordIInv, KeywordTypes
  <2>2. /\ bound'[m] = bound[m] /\ missed'[m] = missed[m] /\ kevent'[m] = kevent[m]
        /\ kwatch'[m] = kwatch[m] /\ kpc'[m] = kpc[m] /\ processed'[m] = processed[m]
    BY <1>5, <2>1 DEF KeywordIInv, KeywordTypes, Rehash, Rebind, AddDocuments
  <2> QED BY <1>1, <1>2, <2>2 DEF KeywordIInv, Follows, Half
<1>6. n \in nodes => Follows(n)'
  <2> SUFFICES ASSUME n \in nodes PROVE Follows(n)'
    OBVIOUS
  <2>1. CASE Rehash(n) \/ AddDocuments(n)
    <3>1. \/ missed'[n]
          \/ kpc'[n] = "rebind" /\ processed'[n] = RehashKeywords(n)
      BY <2>1 DEF KeywordIInv, KeywordTypes, Rehash, AddDocuments
    <3> QED BY <1>2, <3>1 DEF Follows
  <2>2. CASE Rebind(n)
    <3>1. /\ \/ missed'[n]
             \/ kwatch'[n] /\ missed' = missed
          /\ UNCHANGED <<bound, kevent, processed>>
      BY <2>2 DEF KeywordIInv, KeywordTypes, Rebind
    <3> QED BY <1>1, <1>2, <3>1 DEF KeywordIInv, Follows, Half
  <2> QED BY <2>1, <2>2
<1> QED BY <1>1, <1>3, <1>4, <1>5, <1>6 DEF KeywordIInv

(* A step that touches neither the ring nor a burst server. *)
LEMMA KeywordsKept ==
  ASSUME KeywordIInv, UNCHANGED <<ring, nodes, up, burst>>
  PROVE  KeywordIInv'
BY DEF KeywordIInv, KeywordTypes, Follows, Half, RehashKeywords, IsAssigned, burst

(* A burst server processes the keywords the ring assigns to it, or an     *)
(* event is on its way to it (watcher_impl_, bind_watcher_ and             *)
(* rehash_keywords), whatever joins and dies, unless it was not watching   *)
(* when the ring changed.                                                  *)
THEOREM KeywordsFollowRing == Spec => []KeywordsFollow
<1>1. Init => KeywordIInv
  <2> SUFFICES ASSUME Init PROVE KeywordIInv
    OBVIOUS
  <2>1. PICK sc \in Scenarios : up = sc.running /\ bound = [n \in Node |-> sc.service = "burst" /\ n \in sc.running]
    BY DEF Init
  <2>2. \A n \in Node : RehashKeywords(n) \in SUBSET Key
    BY DEF RehashKeywords
  <2>3. sc.running \subseteq Node
    BY <2>1, ScenarioAssumption
  <2> QED BY <2>1, <2>2, <2>3 DEF Init, KeywordIInv, KeywordTypes, Follows
<1>2. KeywordIInv /\ [Next]_vars => KeywordIInv'
  <2> SUFFICES ASSUME KeywordIInv, [Next]_vars PROVE KeywordIInv'
    OBVIOUS
  <2>1. ASSUME NEW n \in Node, NEW i \in 1..NumVServ, RegisterNode(n, i) PROVE KeywordIInv'
    BY <2>1, RegisterNodeKeywords
  <2>2. ASSUME NEW n \in Node, RegisterActor(n) \/ ServerDies(n) PROVE KeywordIInv'
    BY <2>2, NodesChangeKeywords, HalfDiesKeywords
  <2>3. ASSUME NEW n \in Node, Rehash(n) \/ Rebind(n) \/ AddDocuments(n) PROVE KeywordIInv'
    BY <2>3, OwnKeywords
  <2>4. ASSUME NEW p \in Proxy, Reload(p) \/ SessionEvent(p) \/ (\E v \in VNode : Forget(p, v))
        PROVE  KeywordIInv'
    BY <2>4, KeywordsKept DEF Reload, SessionEvent, Forget, zk
  <2>5. ASSUME NEW c \in Caller,
               \/ \E p \in Proxy, m \in ByKey, k \in Key : Routed(c, p, m, k)
               \/ \E n \in Node, m \in Creates : Create(c, n, m)
               \/ \E n \in Node, k \in Key : RemoveNode(c, n, k)
        PROVE  KeywordIInv'
    BY <2>5, KeywordsKept DEF Routed, Create, RemoveNode, zk
  <2>6. ASSUME NEW c \in Caller, Steps(c) PROVE KeywordIInv'
    BY <2>6, CallSteps, KeywordsKept DEF zk
  <2>7. CASE UNCHANGED vars
    BY <2>7, KeywordsKept DEF vars, zk
  <2> QED BY <2>1, <2>2, <2>3, <2>4, <2>5, <2>6, <2>7 DEF Next
<1>3. KeywordIInv => KeywordsFollow
  BY DEF KeywordIInv, Follows, KeywordsFollow
<1> QED BY <1>1, <1>2, <1>3, PTL DEF Spec

-----------------------------------------------------------------------------
(* What the folds of the model return: the first of a list, and the       *)
(* virtual node at an index of the ring.                                   *)

(* A set of numbers that is not empty has a least one. *)
LEMMA MinIs == ASSUME NEW I \in SUBSET Nat, I # {} PROVE Min(I) \in I /\ \A i \in I : Min(I) <= i
<1> DEFINE R == OpToRel(<, Nat)
<1>1. \A x, y \in Nat : <<y, x>> \in R <=> y < x
  BY DEF OpToRel
<1>2. IsWellFoundedOn(R, Nat)
  BY NatLessThanWellFounded DEF R
<1> HIDE DEF R
<1>3. \E x \in I : \A y \in I : ~(<<y, x>> \in R)
  BY <1>2, WFMin
<1>4. PICK x \in I : \A y \in I : ~(<<y, x>> \in R)
  BY <1>3
<1>5. \A y \in I : x \in Nat /\ y \in Nat /\ ~(y < x)
  BY <1>1, <1>4
<1>6. \A y \in I : x =< y
  BY <1>5
<1> QED BY <1>6 DEF Min

(* Taking the first t out of a list takes nothing else out. *)
LEMMA RestIs ==
  ASSUME NEW S, NEW s \in Seq(S), NEW t
  PROVE  /\ RemoveFirst(s, t) \in Seq(S)
         /\ \A x \in Range(s) : x = t \/ x \in Range(RemoveFirst(s, t))
<1>1. CASE ~\E i \in 1..Len(s) : s[i] = t
  BY <1>1 DEF RemoveFirst
<1>2. CASE \E i \in 1..Len(s) : s[i] = t
  <2> DEFINE I == {i \in 1..Len(s) : s[i] = t}
  <2>1. I \in SUBSET Nat /\ I # {}
    BY <1>2
  <2>2. Min(I) \in I
    BY <2>1, MinIs
  <2>3. RemoveFirst(s, t) = RemoveAt(s, Min(I))
    <3>1. SelectInSeq(s, LAMBDA v : v = t) = Min(I)
      BY <2>1 DEF SelectInSeq
    <3> QED BY <1>2, <3>1 DEF RemoveFirst
  <2>4. PICK j \in 1..Len(s) : s[j] = t /\ RemoveFirst(s, t) = SubSeq(s, 1, j - 1) \o SubSeq(s, j + 1, Len(s))
    BY <2>2, <2>3 DEF RemoveAt
  <2> HIDE DEF I
  <2> DEFINE a == SubSeq(s, 1, j - 1)
             b == SubSeq(s, j + 1, Len(s))
  <2>5. /\ a \in Seq(S) /\ Len(a) = j - 1 /\ \A i \in 1..(j - 1) : a[i] = s[i]
    OBVIOUS
  <2>6. /\ b \in Seq(S) /\ Len(b) = Len(s) - j /\ \A i \in 1..(Len(s) - j) : b[i] = s[i + j]
    OBVIOUS
  <2>7. RemoveFirst(s, t) = a \o b
    BY <2>4
  <2> HIDE DEF a, b
  <2>8. PICK r : r = a \o b
    OBVIOUS
  <2>9. /\ r \in Seq(S) /\ Len(r) = Len(s) - 1
        /\ \A i \in 1..(Len(s) - 1) : r[i] = IF i <= j - 1 THEN a[i] ELSE b[i - (j - 1)]
    <3>1. /\ r \in Seq(S) /\ Len(r) = Len(a) + Len(b)
          /\ \A i \in 1..(Len(a) + Len(b)) : r[i] = IF i <= Len(a) THEN a[i] ELSE b[i - Len(a)]
      BY <2>5, <2>6, <2>8, ConcatProperties
    <3>2. Len(a) + Len(b) = Len(s) - 1
      BY <2>5, <2>6
    <3> QED BY <2>5, <3>1, <3>2
  <2>10. ASSUME NEW i \in 1..Len(s), i # j PROVE \E l \in 1..Len(r) : r[l] = s[i]
    <3>0. Len(s) \in Nat
      OBVIOUS
    <3>1. CASE i < j
      <4>1. i \in 1..Len(r) /\ i \in 1..(j - 1) /\ i <= j - 1
        BY <2>9, <3>0, <3>1
      <4> QED BY <2>5, <2>9, <4>1
    <3>2. CASE i > j
      <4>1. /\ i - 1 \in 1..Len(r) /\ ~(i - 1 <= j - 1) /\ i - j \in 1..(Len(s) - j)
            /\ (i - 1) - (j - 1) = i - j /\ (i - j) + j = i
        BY <2>9, <3>0, <3>2
      <4>2. b[i - j] = s[i]
        BY <2>6, <4>1
      <4> QED BY <2>9, <4>1, <4>2
    <3> QED BY <2>10, <3>0, <3>1, <3>2
  <2>11. DOMAIN s = 1..Len(s) /\ DOMAIN r = 1..Len(r)
    BY <2>9
  <2>12. ASSUME NEW x \in Range(s) PROVE x = t \/ x \in Range(r)
    <3>1. PICK i \in 1..Len(s) : x = s[i]
      BY <2>11 DEF Range
    <3>2. CASE i = j
      BY <2>4, <3>1, <3>2
    <3>3. CASE i # j
      <4>1. PICK l \in 1..Len(r) : r[l] = s[i]
        BY <2>10, <3>3
      <4> QED BY <2>11, <3>1, <4>1 DEF Range
    <3> QED BY <3>2, <3>3
  <2> QED BY <2>7, <2>8, <2>9, <2>12
<1> QED BY <1>1, <1>2

(* The virtual nodes that come before v on the ring S. *)
Before(S, v) == {w \in S : Hash[w] < Hash[v]}

(* The virtual nodes are finitely many, and their hashes are numbers. *)
LEMMA VNodesFinite == IsFiniteSet(VNode) /\ \A v \in VNode : Hash[v] \in Nat
<1>1. IsFiniteSet(1..NumVServ)
  <2>1. 1 \in Int /\ NumVServ \in Int
    BY RingAssumption
  <2> QED BY <2>1, FS_Interval
<1> QED BY <1>1, FS_Product, RingAssumption DEF VNode

(* Of some virtual nodes one comes last on the ring. *)
LEMMA LastOnRing ==
  ASSUME NEW S \in SUBSET VNode, S # {}
  PROVE  \E v \in S : Before(S, v) = S \ {v}
<1>1. IsFiniteSet(S) /\ Cardinality(S) \in Nat
  BY VNodesFinite, FS_Subset, FS_CardinalityType
<1>2. ASSUME NEW v \in S PROVE IsFiniteSet(Before(S, v)) /\ Cardinality(Before(S, v)) \in Nat /\ Cardinality(Before(S, v)) <= Cardinality(S)
  <2>1. Before(S, v) \in SUBSET S
    BY DEF Before
  <2> QED BY <1>1, <2>1, FS_Subset, FS_CardinalityType
<1> DEFINE I == {Cardinality(S) - Cardinality(Before(S, v)) : v \in S}
<1>3. I \in SUBSET Nat /\ I # {}
  BY <1>1, <1>2
<1>4. PICK v \in S : \A w \in S : Cardinality(S) - Cardinality(Before(S, v)) <= Cardinality(S) - Cardinality(Before(S, w))
  <2>1. Min(I) \in I /\ \A i \in I : Min(I) <= i
    BY <1>3, MinIs
  <2> QED BY <2>1
<1>5. \A w \in S : Cardinality(Before(S, w)) <= Cardinality(Before(S, v))
  BY <1>1, <1>2, <1>4
<1>6. ASSUME NEW w \in S, w # v PROVE Hash[w] < Hash[v]
  <2> SUFFICES ASSUME ~(Hash[w] < Hash[v]) PROVE FALSE
    OBVIOUS
  <2>1. Hash[v] \in Nat /\ Hash[w] \in Nat /\ Hash[w] # Hash[v]
    BY <1>6, RingAssumption
  <2>2. Hash[v] < Hash[w]
    BY <2>1
  <2>3. Before(S, v) \cup {v} \in SUBSET Before(S, w) /\ v \notin Before(S, v)
    BY <2>1, <2>2, RingAssumption DEF Before
  <2>4. Cardinality(Before(S, v) \cup {v}) = Cardinality(Before(S, v)) + 1
    BY <1>2, <2>3, FS_AddElement
  <2>5. Cardinality(Before(S, v) \cup {v}) <= Cardinality(Before(S, w))
    BY <1>2, <2>3, FS_Subset
  <2> QED BY <1>2, <1>5, <2>4, <2>5
<1>7. Before(S, v) = S \ {v}
  <2>1. ~(Hash[v] < Hash[v])
    BY VNodesFinite
  <2> QED BY <1>6, <2>1 DEF Before
<1> QED BY <1>7

(* At every index of the ring there is a virtual node.                     *)
LEMMA IndexHasNode ==
  ASSUME NEW S \in SUBSET VNode, NEW i \in Nat, i < Cardinality(S)
  PROVE  AtIndex(S, i) \in S
<1> DEFINE Gap(T) == \E j \in Nat : j < Cardinality(T) /\ \A v \in T : Cardinality(Before(T, v)) # j
           Gaps == {T \in SUBSET VNode : Gap(T)}
           I == {Cardinality(T) : T \in Gaps}
<1>1. \A T \in SUBSET VNode : IsFiniteSet(T) /\ Cardinality(T) \in Nat
  BY VNodesFinite, FS_Subset, FS_CardinalityType
<1>2. Gaps = {}
  <2> SUFFICES ASSUME Gaps # {} PROVE FALSE
    OBVIOUS
  <2>1. I \in SUBSET Nat /\ I # {}
    BY <1>1
  <2>2. PICK T \in Gaps : \A U \in Gaps : Cardinality(T) <= Cardinality(U)
    <3>1. Min(I) \in I /\ \A n \in I : Min(I) <= n
      BY <2>1, MinIs
    <3> QED BY <3>1
  <2>3. PICK j \in Nat : j < Cardinality(T) /\ \A v \in T : Cardinality(Before(T, v)) # j
    BY <2>2
  <2>4. T \in SUBSET VNode /\ T # {} /\ Cardinality(T) \in Nat
    BY <1>1, <2>2, <2>3, FS_EmptySet
  <2>5. PICK v \in T : Before(T, v) = T \ {v}
    BY <2>4, LastOnRing
  <2>6. Cardinality(T \ {v}) = Cardinality(T) - 1
    BY <1>1, <2>4, <2>5, FS_RemoveElement
  <2>7. j < Cardinality(T \ {v})
    BY <2>3, <2>4, <2>5, <2>6
  <2>8. T \ {v} \notin Gaps
    <3>1. T \ {v} \in Gaps => Cardinality(T) <= Cardinality(T) - 1
      <4> HIDE DEF Gaps
      <4> QED BY <2>2, <2>6
    <3> QED BY <2>4, <3>1
  <2>9. PICK w \in T \ {v} : Cardinality(Before(T \ {v}, w)) = j
    BY <2>4, <2>7, <2>8
  <2>10. Hash[v] \in Nat /\ Hash[w] \in Nat /\ Hash[w] < Hash[v]
    BY <2>4, <2>5, <2>9, VNodesFinite DEF Before
  <2>11. Before(T \ {v}, w) = Before(T, w)
    BY <2>10 DEF Before
  <2> QED BY <2>3, <2>9, <2>11
<1>3. \E v \in S : Cardinality(Before(S, v)) = i
  <2>1. ~Gap(S)
    BY <1>2
  <2> QED BY <2>1
<1> QED BY <1>3 DEF AtIndex, Before

(* find reads virtual nodes of the ring, and longer searches go on where   *)
(* shorter ones end.                                                       *)
Place(S, k, i) == AtIndex(S, (FirstIndex(S, k) + i - 1) % Cardinality(S))

(* What find returns: n virtual nodes, the first n places from the hash of *)
(* the key; the servers it names own one of them.                          *)
LEMMA FindIs ==
  ASSUME NEW S, NEW k, NEW n \in Nat
  PROVE  /\ \E T : Find(S, k, n) \in Seq(T)
         /\ Len(Find(S, k, n)) = n
         /\ \A i \in 1..n : Find(S, k, n)[i] = Place(S, k, i)
         /\ \A o \in OwnersIn(S, k, n) : \E i \in 1..n : o = Owner(Place(S, k, i))
<1> DEFINE T == {Place(S, k, i) : i \in 1..n}
<1>1. Find(S, k, n) = [i \in 1..n |-> Place(S, k, i)]
  BY DEF Find, Place
<1>2. \A i \in 1..n : Place(S, k, i) \in T
  OBVIOUS
<1> HIDE DEF T
<1>3. Find(S, k, n) \in Seq(T) /\ Len(Find(S, k, n)) = n
  BY <1>1, <1>2
<1>4. \A o \in OwnersIn(S, k, n) : \E i \in 1..n : o = Owner(Place(S, k, i))
  <2>1. DOMAIN Find(S, k, n) = 1..n
    BY <1>1
  <2> QED BY <1>1, <2>1 DEF OwnersIn, Range
<1> QED BY <1>1, <1>3, <1>4

(* A place on a ring that is not empty is a virtual node of it, and a      *)
(* server owns that.                                                       *)
LEMMA PlaceOnRing ==
  ASSUME NEW S \in SUBSET VNode, S # {}, NEW k \in Key, NEW i \in Nat \ {0}
  PROVE  Place(S, k, i) \in S /\ Owner(Place(S, k, i)) \in Node
<1>1. IsFiniteSet(S) /\ Cardinality(S) \in Nat /\ Cardinality(S) # 0
  BY VNodesFinite, FS_Subset, FS_CardinalityType, FS_EmptySet
<1> DEFINE B == {v \in S : Hash[v] < KeyHash[k]}
<1>2. Cardinality(B) \in Nat
  BY <1>1, FS_Subset, FS_CardinalityType
<1>3. PICK c \in Nat \ {0} : c = Cardinality(S)
  BY <1>1
<1>4. PICK b \in Nat : b = Cardinality(B)
  BY <1>2
<1>5. FirstIndex(S, k) = b % c
  BY <1>3, <1>4 DEF FirstIndex
<1>6. b % c \in Nat /\ ((b % c) + i - 1) % c \in 0..(c - 1)
  OBVIOUS
<1>7. Place(S, k, i) \in S
  BY <1>3, <1>5, <1>6, IndexHasNode DEF Place
<1> QED BY <1>7 DEF Owner, VNode

-----------------------------------------------------------------------------
(* The routing tables. *)

RowPuts == {"update_row", "update", "overwrite", "push", "set_row"}

(* What the tables of a service promise: an update of a row, or its        *)
(* clearing, goes to as many servers as any query by key asks, and         *)
(* create_edge to one.                                                     *)
Reaches(s) ==
  LET routes == Services[s].routes
      effects == Services[s].effects IN
  /\ \A m \in DOMAIN routes, a \in DOMAIN routes :
       /\ m \in RowPuts \cup {"clear_row"} /\ routes[m] = "cht1"
       /\ routes[a] = "cht2"
       => effects[a] # "read"
  /\ \A m \in DOMAIN routes : m = "create_edge" => routes[m] = "cht1"

(* Every service keeps this promise in its tables. *)
LEMMA TablesReach == \A s \in DOMAIN Services : Reaches(s)
<1> USE DEF Reaches, Services, Each, ++, RowPuts
<1>1. Reaches("anomaly")
  BY DEF AnomalyRoutes, AnomalyEffects
<1>2. Reaches("bandit")
  BY DEF BanditRoutes, BanditEffects
<1>3. Reaches("burst")
  BY DEF BurstRoutes, BurstEffects, BurstReads
<1>4. Reaches("classifier")
  BY DEF ClassifierRoutes, ClassifierEffects
<1>5. Reaches("clustering")
  BY DEF ClusteringRoutes, ClusteringEffects, ClusteringReads
<1>6. Reaches("graph")
  <2>1. \A m \in DOMAIN GraphRoutes : GraphRoutes[m] = "cht1" <=> m = "create_edge"
    BY DEF GraphRoutes, GraphQueries
  <2> HIDE DEF ++, Each
  <2> QED BY <2>1
<1>7. Reaches("nearest_neighbor")
  BY DEF NeighborRoutes, NeighborEffects, NeighborQueries
<1>8. Reaches("recommender")
  BY DEF RecommenderRoutes, RecommenderEffects, RecommenderByRow, RecommenderByDatum
<1>9. Reaches("regression")
  BY DEF RegressionRoutes, RegressionEffects
<1>10. Reaches("stat")
  BY DEF StatRoutes, StatEffects, StatReads
<1>11. Reaches("weight")
  <2>1. \A m \in DOMAIN WeightRoutes : WeightRoutes[m] # "cht1" /\ m # "create_edge"
    BY DEF WeightRoutes
  <2> HIDE DEF ++, Each
  <2> QED BY <2>1
<1>12. Reaches("kvs")
  BY DEF KvsRoutes, KvsEffects
<1>13. DOMAIN Services = {"anomaly", "bandit", "burst", "classifier", "clustering", "graph",
         "nearest_neighbor", "recommender", "regression", "stat", "weight", "kvs"}
  OBVIOUS
<1> HIDE DEF Services, Reaches
<1> QED BY <1>1, <1>2, <1>3, <1>4, <1>5, <1>6, <1>7, <1>8, <1>9, <1>10, <1>11, <1>12, <1>13

(* The same of the number of servers that a proxy calls. *)
LEMMA WidthIs ==
  ASSUME service \in DOMAIN Services
  PROVE  /\ \A m : Width(m) \in {0, 1, 2}
         /\ \A m \in ByKey : Width(m) \in {1, 2} /\ m \in DOMAIN Services[service].routes
         /\ \A m \in Puts \cup Clears, a \in Asks : Width(a) <= Width(m)
         /\ "create_edge" \in ByKey => Width("create_edge") = 1
<1>1. \A m : Width(m) \in {0, 1, 2}
  BY DEF Width
<1>2. \A m \in ByKey : Width(m) \in {1, 2} /\ m \in DOMAIN Services[service].routes
  BY <1>1 DEF ByKey
<1>3. \A m \in ByKey : Route(service, m) = Services[service].routes[m]
  BY <1>2 DEF Route, ++
<1>4. Reaches(service)
  BY TablesReach
<1>5. ASSUME NEW m \in Puts \cup Clears, NEW a \in Asks PROVE Width(a) <= Width(m)
  <2>1. m \in ByKey /\ a \in ByKey /\ Effect(service, a) = "read" /\ m \in RowPuts \cup {"clear_row"}
    BY DEF Puts, Clears, Asks, RowPuts
  <2>2. ~(Route(service, m) = "cht1" /\ Route(service, a) = "cht2")
    BY <1>2, <1>3, <1>4, <2>1 DEF Reaches, Effect
  <2>3. Width(m) \in {1, 2} /\ Width(a) \in {1, 2}
    BY <1>2, <2>1
  <2> QED BY <2>2, <2>3 DEF Width
<1>6. "create_edge" \in ByKey => Width("create_edge") = 1
  BY <1>2, <1>3, <1>4 DEF Reaches, Width
<1> QED BY <1>1, <1>2, <1>5, <1>6

-----------------------------------------------------------------------------
(* Calls: the shape of each, its course when nothing has disturbed it, and *)
(* what is known of a row.                                                 *)

OwnerAt(k, i) == Owner(Place(ring, k, i))

IsCall(r) ==
  /\ r = [method |-> r.method, key |-> r.key, by |-> r.by, at |-> r.at, vnodes |-> r.vnodes,
          todo |-> r.todo, first |-> r.first, failed |-> r.failed, settled |-> r.settled]
  /\ r.at \in Node \cup {None}
  /\ r.first \in BOOLEAN /\ r.failed \in BOOLEAN /\ r.settled \in BOOLEAN
  /\ \E S : r.vnodes \in Seq(S)
  /\ \E S : r.todo \in Seq(S)

CallTypes ==
  /\ service \in DOMAIN Services /\ nodes \subseteq Node
  /\ rows \in [Node -> SUBSET Key] /\ edges \in [Node -> SUBSET Key]
  /\ pc \in [Caller -> {"idle", "list", "read", "send", "local", "members", "tell"}]
  /\ call = [c \in Caller |-> call[c]] /\ \A c \in Caller : IsCall(call[c])
  /\ placed \in [Key -> {"here", "gone", "unknown"}]
  /\ answered \subseteq Key /\ linked \subseteq Key

(* How many servers a call is to reach. *)
Aim(r) == IF r.at = None THEN Width(r.method) ELSE Replicas

(* Where a call is tells what it is about. *)
Shape(p, r) ==
  p # "idle" =>
    /\ r.key \in Key
    /\ r.method \in Puts \cup Clears \cup Creates \cup {"create_edge", "remove_node"}
    /\ r.method \in Puts \cup Clears => r.at = None /\ p \in {"read", "send"}
    /\ r.method \in Creates => r.at # None /\ p \in {"read", "send"} /\ (p = "read" => r.first)
    /\ r.method = "create_edge" =>
         p \in {"list", "read", "local", "send"} /\ r.method \in ByKey
    /\ p \in {"list", "local"} => r.method = "create_edge" /\ r.at # None
    /\ r.method = "remove_node" => p \in {"members", "tell"}
    /\ r.first => r.method \in Creates
    /\ p = "read" => r.vnodes # <<>> /\ Len(r.todo) + Len(r.vnodes) = Aim(r)
    /\ p = "local" => Len(r.todo) = Replicas
    /\ p = "list" => r.todo = <<>>

(* What method m does for k has been done on o. *)
Has(m, k, o) ==
  /\ o \in Node
  /\ m \in Puts \cup Creates => k \in rows[o]
  /\ m \in Clears => k \notin rows[o]
  /\ m = "create_edge" => k \in edges[o]

ToProxied(r) == r.method = "create_edge" /\ r.at = None

(* How far a call has come that neither the ring nor another call for its  *)
(* key has disturbed.                                                      *)
Course(p, r) ==
  p # "idle" /\ r.settled =>
    /\ p \in {"read", "local"} => \A i \in 1..Len(r.todo) : r.todo[i] = OwnerAt(r.key, i)
    /\ p = "read" => \A i \in 1..Len(r.vnodes) : r.vnodes[i] = Place(ring, r.key, Len(r.todo) + i)
    /\ r.at # None /\ r.method = "create_edge" /\ p # "send" => r.at = OwnerAt(r.key, 1)
    /\ p = "send" /\ ToProxied(r) => \A x \in Range(r.todo) : x = OwnerAt(r.key, 1)
    /\ p = "send" /\ ~ToProxied(r) =>
         \A i \in 1..Aim(r) : \/ OwnerAt(r.key, i) \in Range(r.todo)
                              \/ r.failed
                              \/ Has(r.method, r.key, OwnerAt(r.key, i))
    /\ p = "send" /\ r.first => Head(r.todo) = OwnerAt(r.key, 1)
    /\ p = "send" /\ r.method \in Creates /\ ~r.first => Has(r.method, r.key, OwnerAt(r.key, 1))

Active(c, k) == pc[c] # "idle" /\ call[c].key = k

Alone ==
  \A c \in Caller : pc[c] # "idle" /\ call[c].settled =>
    \A d \in Caller : d # c => ~Active(d, call[c].key)

(* What is known of a row is so, and no call under way can change it. *)
Known(k) ==
  /\ placed[k] # "unknown" => \A c \in Caller : ~Active(c, k)
  /\ placed[k] = "here" => \A m \in Asks : \A i \in 1..Width(m) :
       OwnerAt(k, i) \in Node /\ k \in rows[OwnerAt(k, i)]
  /\ placed[k] = "gone" /\ ring # {} => \A m \in Asks : \A i \in 1..Width(m) :
       OwnerAt(k, i) \in Node /\ k \notin rows[OwnerAt(k, i)]
  /\ k \in answered =>
       /\ OwnerAt(k, 1) \in Node /\ k \in rows[OwnerAt(k, 1)]
       /\ \A c \in Caller : Active(c, k) => call[c].method \notin Clears
  /\ k \in linked => \A i \in 1..Replicas : OwnerAt(k, i) \in Node /\ k \in edges[OwnerAt(k, i)]

CallIInv ==
  /\ CallTypes
  /\ \A c \in Caller : Shape(pc[c], call[c]) /\ Course(pc[c], call[c])
  /\ Alone
  /\ \A k \in Key : Known(k)

(* The methods by what they do: none of them does two things. *)
LEMMA Names ==
  /\ Puts \subseteq RowPuts /\ Clears \subseteq {"clear_row"} /\ Creates \subseteq {"create_node", "add"}
  /\ Puts \cup Clears \subseteq ByKey
BY DEF Puts, Clears, Creates, RowPuts

(* The tables are those of the service, and the owners those of the ring. *)
LEMMA TablesKept ==
  ASSUME UNCHANGED service
  PROVE  /\ Puts' = Puts /\ Clears' = Clears /\ Asks' = Asks /\ Creates' = Creates /\ ByKey' = ByKey
         /\ \A m : Width(m)' = Width(m)
<1>1. \A m : Width(m)' = Width(m)
  BY DEF Width
<1>2. ByKey' = ByKey
  BY <1>1 DEF ByKey
<1> QED BY <1>1, <1>2 DEF Puts, Clears, Asks, Creates

(* The shape of a call does not depend on the ring. *)
LEMMA ShapeKept ==
  ASSUME UNCHANGED service, NEW p, NEW r
  PROVE  Shape(p, r)' <=> Shape(p, r)
BY TablesKept DEF Shape, Aim

(* While the ring stays so do the places on it. *)
LEMMA OwnersKept ==
  ASSUME UNCHANGED ring
  PROVE  \A k, i : OwnerAt(k, i)' = OwnerAt(k, i) /\ Place(ring, k, i)' = Place(ring, k, i)
BY DEF OwnerAt

(* A step that touches no row of the call's key leaves its course alone. *)
LEMMA CourseKept ==
  ASSUME UNCHANGED <<service, ring>>, NEW p, NEW r,
         \A n \in Node : r.key \in rows'[n] <=> r.key \in rows[n],
         \A n \in Node : r.key \in edges'[n] <=> r.key \in edges[n]
  PROVE  Course(p, r)' <=> Course(p, r)
<1>1. \A o : Has(r.method, r.key, o)' <=> Has(r.method, r.key, o)
  BY TablesKept DEF Has
<1>2. \A i : OwnerAt(r.key, i)' = OwnerAt(r.key, i) /\ Place(ring, r.key, i)' = Place(ring, r.key, i)
  BY OwnersKept
<1>3. Aim(r)' = Aim(r) /\ Creates' = Creates
  BY TablesKept DEF Aim
<1> QED BY <1>1, <1>2, <1>3 DEF Course, ToProxied

(* Nor what is known of a row. *)
LEMMA KnownKept ==
  ASSUME UNCHANGED <<service, ring>>, NEW k,
         \A n \in Node : k \in rows'[n] <=> k \in rows[n],
         \A n \in Node : k \in edges'[n] <=> k \in edges[n],
         placed'[k] = placed[k], k \in answered' <=> k \in answered, k \in linked' <=> k \in linked,
         \A c \in Caller : Active(c, k)' => Active(c, k) /\ call'[c].method = call[c].method,
         Known(k)
  PROVE  Known(k)'
<1>1. \A i : OwnerAt(k, i)' = OwnerAt(k, i)
  BY OwnersKept
<1>2. Asks' = Asks /\ Clears' = Clears /\ \A m : Width(m)' = Width(m)
  BY TablesKept
<1> QED BY <1>1, <1>2 DEF Known, Replicas

(* After a step a call has a shape and a course, in the state after it.    *)
LEMMA ShapeAfter ==
  ASSUME NEW c, NEW p, NEW r, pc'[c] = p, call'[c] = r, Shape(p, r)'
  PROVE  Shape(pc[c], call[c])'
BY DEF Shape, Aim

(* The same of its course. *)
LEMMA CourseAfter ==
  ASSUME NEW c, NEW p, NEW r, pc'[c] = p, call'[c] = r, Course(p, r)'
  PROVE  Course(pc[c], call[c])'
BY DEF Course, Aim, ToProxied, Has, OwnerAt

-----------------------------------------------------------------------------
(* The steps of calls. *)

(* The ring changes: nothing is known any more, and the calls that go on   *)
(* are unsettled.                                                          *)
LEMMA RingStep ==
  ASSUME CallIInv, UNCHANGED service, nodes' \subseteq Node,
         rows' \in [Node -> SUBSET Key], edges' \in [Node -> SUBSET Key],
         answered' = {}, linked' = {}, placed' = [k \in Key |-> "unknown"],
         pc' = [c \in Caller |-> pc'[c]], call' = [c \in Caller |-> call'[c]],
         \A c \in Caller :
           \/ pc'[c] = "idle" /\ call'[c] = NoCall
           \/ pc'[c] = pc[c] /\ call'[c] = [call[c] EXCEPT !.settled = FALSE]
  PROVE  CallIInv'
<1>1. ASSUME NEW c \in Caller
      PROVE  IsCall(call'[c]) /\ ~call'[c].settled /\ Shape(pc[c], call[c])' /\ pc'[c] \in {"idle", "list", "read", "send", "local", "members", "tell"}
  <2>1. PICK p, r : p = pc[c] /\ r = call[c]
    OBVIOUS
  <2>2. IsCall(r) /\ Shape(p, r) /\ p \in {"idle", "list", "read", "send", "local", "members", "tell"}
    BY <2>1 DEF CallIInv, CallTypes
  <2>3. CASE pc'[c] = "idle" /\ call'[c] = NoCall
    <3>1. IsCall(NoCall) /\ ~NoCall.settled
      <4>1. <<>> \in Seq({})
        OBVIOUS
      <4> QED BY <4>1 DEF IsCall, NoCall
    <3> QED BY <2>3, <3>1 DEF Shape
  <2>4. CASE pc'[c] = pc[c] /\ call'[c] = [call[c] EXCEPT !.settled = FALSE]
    <3>1. PICK q : q = [r EXCEPT !.settled = FALSE]
      OBVIOUS
    <3>2. /\ q.method = r.method /\ q.key = r.key /\ q.at = r.at /\ q.vnodes = r.vnodes
          /\ q.todo = r.todo /\ q.first = r.first /\ q.settled = FALSE /\ IsCall(q)
      BY <2>2, <3>1 DEF IsCall
    <3>3. Shape(p, q)
      BY <2>2, <3>2 DEF Shape, Aim
    <3>4. Shape(p, q)'
      BY <3>3, ShapeKept
    <3>5. pc'[c] = p /\ call'[c] = q
      BY <2>1, <2>4, <3>1
    <3> QED BY <2>2, <3>2, <3>4, <3>5, ShapeAfter
  <2> QED BY <2>3, <2>4
<1>2. CallTypes'
  BY <1>1 DEF CallIInv, CallTypes, IsCall
<1>3. Alone' /\ \A c \in Caller : Course(pc[c], call[c])'
  BY <1>1 DEF Alone, Course
<1>4. \A k \in Key : Known(k)'
  BY DEF Known
<1> QED BY <1>1, <1>2, <1>3, <1>4 DEF CallIInv

Locations == {"idle", "list", "read", "send", "local", "members", "tell"}

(* A call for k begins, and touches at most what is known of k. *)
LEMMA BeginStep ==
  ASSUME CallIInv, UNCHANGED <<service, ring, nodes>>,
         NEW c \in Caller, NEW k \in Key, NEW new, NEW p \in Locations, Begin(c, k, new, p),
         pc[c] = "idle", p # "idle", IsCall(new), new.key = k, new.settled => SameKey(k) = {},
         Shape(p, new), Course(p, new)',
         rows' \in [Node -> SUBSET Key], edges' \in [Node -> SUBSET Key], linked' \subseteq Key,
         \A n \in Node, j \in Key : j # k => /\ j \in rows'[n] <=> j \in rows[n]
                                             /\ j \in edges'[n] <=> j \in edges[n],
         \A j \in Key : j # k => (j \in linked' <=> j \in linked),
         \/ UNCHANGED <<rows, edges, linked>>
         \/ new.method = "remove_node" /\ k \notin linked'
  PROVE  CallIInv'
<1>1. /\ pc' = [pc EXCEPT ![c] = p]
      /\ call' = [Unsettle(SameKey(k)) EXCEPT ![c] = new]
      /\ placed' = [placed EXCEPT ![k] = "unknown"]
      /\ answered' = IF new.method \in Clears \cup {"remove_node"} THEN answered \ {k} ELSE answered
  BY DEF Begin
<1>2. /\ pc \in [Caller -> Locations] /\ placed \in [Key -> {"here", "gone", "unknown"}]
      /\ answered \subseteq Key
  BY DEF CallIInv, CallTypes, Locations
<1>3. pc'[c] = p /\ call'[c] = new
  BY <1>1, <1>2 DEF Unsettle
<1>4. ASSUME NEW d \in Caller, d # c
      PROVE  /\ pc'[d] = pc[d]
             /\ ~Active(d, k) => call'[d] = call[d]
             /\ Active(d, k) => call'[d] = [call[d] EXCEPT !.settled = FALSE]
  <2>1. d \in SameKey(k) <=> Active(d, k)
    BY DEF SameKey, Active
  <2> QED BY <1>1, <1>2, <1>4, <2>1 DEF Unsettle
<1>5. ASSUME NEW d \in Caller, d # c
      PROVE  /\ IsCall(call'[d])
             /\ Shape(pc[d], call[d])' /\ Course(pc[d], call[d])'
             /\ call'[d].key = call[d].key /\ call'[d].method = call[d].method
             /\ Active(d, k) => ~call'[d].settled
             /\ ~Active(d, k) => call'[d].settled = call[d].settled
  <2>1. PICK q, r : q = pc[d] /\ r = call[d]
    OBVIOUS
  <2>2. IsCall(r) /\ Shape(q, r) /\ Course(q, r) /\ q \in Locations
    BY <2>1 DEF CallIInv, CallTypes, Locations
  <2>3. Shape(q, r)'
    BY <2>2, ShapeKept
  <2>4. CASE ~Active(d, k)
    <3>1. pc'[d] = q /\ call'[d] = r
      BY <1>4, <1>5, <2>1, <2>4
    <3>2. Course(q, r)'
      <4>1. CASE q = "idle"
        BY <4>1 DEF Course
      <4>2. CASE q # "idle"
        <5>1. r.key \in Key /\ r.key # k
          BY <2>1, <2>2, <2>4, <4>2 DEF Shape, Active
        <5> QED BY <2>2, <5>1, CourseKept
      <4> QED BY <4>1, <4>2
    <3> QED BY <2>1, <2>2, <2>3, <2>4, <3>1, <3>2, ShapeAfter, CourseAfter
  <2>5. CASE Active(d, k)
    <3>1. PICK s : s = [r EXCEPT !.settled = FALSE]
      OBVIOUS
    <3>2. /\ s.method = r.method /\ s.key = r.key /\ s.at = r.at /\ s.vnodes = r.vnodes
          /\ s.todo = r.todo /\ s.first = r.first /\ s.settled = FALSE /\ IsCall(s)
      BY <2>2, <3>1 DEF IsCall
    <3>3. Shape(q, s)'
      <4>1. Shape(q, s)
        BY <2>2, <3>2 DEF Shape, Aim
      <4> QED BY <4>1, ShapeKept
    <3>4. Course(q, s)'
      BY <3>2 DEF Course
    <3>5. pc'[d] = q /\ call'[d] = s
      BY <1>4, <1>5, <2>1, <2>5, <3>1
    <3> QED BY <2>1, <2>5, <3>2, <3>3, <3>4, <3>5, ShapeAfter, CourseAfter
  <2> QED BY <2>4, <2>5
<1>6. Shape(pc[c], call[c])' /\ Course(pc[c], call[c])'
  <2>1. Shape(p, new)'
    BY ShapeKept
  <2> QED BY <1>3, <2>1, ShapeAfter, CourseAfter
<1>7. CallTypes'
  <2>1. \A d \in Caller : IsCall(call[d])'
    BY <1>3, <1>5 DEF IsCall
  <2>2. call' = [d \in Caller |-> call'[d]]
    BY <1>1 DEF Unsettle
  <2> QED BY <1>1, <1>2, <2>1, <2>2 DEF CallIInv, CallTypes, Locations
<1>8. Alone'
  <2> SUFFICES ASSUME NEW d \in Caller, pc'[d] # "idle", call'[d].settled, NEW e \in Caller, e # d, Active(e, call[d].key)'
               PROVE  FALSE
    BY DEF Alone
  <2>1. CASE d = c
    <3>1. pc[e] # "idle" /\ call[e].key = k
      BY <1>3, <1>4, <1>5, <2>1 DEF Active
    <3> QED BY <1>3, <2>1, <3>1 DEF SameKey
  <2>2. CASE d # c /\ e = c
    <3>1. call[d].key = k /\ pc[d] # "idle"
      BY <1>3, <1>4, <1>5, <2>2 DEF Active
    <3> QED BY <1>5, <2>2, <3>1 DEF Active
  <2>3. CASE d # c /\ e # c
    <3>1. ~Active(d, k)
      BY <1>5, <2>3
    <3>2. pc[d] # "idle" /\ call[d].settled /\ Active(e, call[d].key)
      BY <1>4, <1>5, <2>3, <3>1 DEF Active
    <3> QED BY <3>2 DEF CallIInv, Alone
  <2> QED BY <2>1, <2>2, <2>3
<1>9. ASSUME NEW j \in Key PROVE Known(j)'
  <2>1. Known(j)
    BY DEF CallIInv
  <2>2. CASE j # k
    <3>1. \A d \in Caller : Active(d, j)' => Active(d, j) /\ call'[d].method = call[d].method
      BY <1>3, <1>4, <1>5, <2>2 DEF Active
    <3>2. placed'[j] = placed[j] /\ (j \in answered' <=> j \in answered)
      BY <1>1, <1>2, <2>2
    <3> QED BY <2>1, <2>2, <3>1, <3>2, KnownKept
  <2>3. CASE j = k
    <3>1. placed'[k] = "unknown"
      BY <1>1, <1>2
    <3>2. Clears' = Clears /\ \A i : OwnerAt(k, i)' = OwnerAt(k, i)
      BY TablesKept, OwnersKept
    <3>3. ASSUME k \in answered'
          PROVE  /\ OwnerAt(k, 1)' \in Node /\ k \in rows'[OwnerAt(k, 1)']
                 /\ \A d \in Caller : Active(d, k)' => call'[d].method \notin Clears'
      <4>1. k \in answered /\ new.method \notin Clears \cup {"remove_node"}
        BY <1>1, <3>3
      <4>2. rows' = rows
        BY <4>1
      <4>3. ASSUME NEW d \in Caller, Active(d, k)' PROVE call'[d].method \notin Clears
        BY <1>3, <1>4, <1>5, <2>1, <2>3, <4>1, <4>3 DEF Active, Known
      <4> QED BY <2>1, <2>3, <3>2, <4>1, <4>2, <4>3 DEF Known
    <3>4. ASSUME k \in linked'
          PROVE  \A i \in 1..Replicas : OwnerAt(k, i)' \in Node /\ k \in edges'[OwnerAt(k, i)']
      <4>1. k \in linked /\ edges' = edges
        BY <3>4
      <4> QED BY <2>1, <2>3, <3>2, <4>1 DEF Known
    <3> QED BY <2>3, <3>1, <3>3, <3>4 DEF Known, Replicas
  <2> QED BY <2>2, <2>3
<1> QED BY <1>5, <1>6, <1>7, <1>8, <1>9 DEF CallIInv

(* A call for k goes on, and touches at most what is known of k. *)
LEMMA OwnStep ==
  ASSUME CallIInv, UNCHANGED <<service, ring, nodes>>,
         NEW c \in Caller, NEW k \in Key, Active(c, k),
         NEW p \in Locations, NEW r, IsCall(r),
         pc' = [pc EXCEPT ![c] = p], call' = [call EXCEPT ![c] = r],
         p # "idle" => r.key = k /\ r.method = call[c].method /\ (r.settled => call[c].settled),
         Shape(p, r), Course(p, r)',
         rows' \in [Node -> SUBSET Key], edges' \in [Node -> SUBSET Key],
         placed' \in [Key -> {"here", "gone", "unknown"}], answered' \subseteq Key, linked' \subseteq Key,
         \A n \in Node, j \in Key : j # k => /\ j \in rows'[n] <=> j \in rows[n]
                                             /\ j \in edges'[n] <=> j \in edges[n],
         \A j \in Key : j # k => /\ placed'[j] = placed[j]
                                 /\ j \in answered' <=> j \in answered
                                 /\ j \in linked' <=> j \in linked,
         Known(k)'
  PROVE  CallIInv'
<1>1. pc \in [Caller -> Locations] /\ call = [d \in Caller |-> call[d]]
  BY DEF CallIInv, CallTypes, Locations
<1>2. pc'[c] = p /\ call'[c] = r
  BY <1>1
<1>3. ASSUME NEW d \in Caller, d # c
      PROVE  pc'[d] = pc[d] /\ call'[d] = call[d]
  BY <1>1, <1>3
<1>4. Shape(pc[c], call[c])' /\ Course(pc[c], call[c])'
  <2>1. Shape(p, r)'
    BY ShapeKept
  <2> QED BY <1>2, <2>1, ShapeAfter, CourseAfter
<1>5. ASSUME NEW d \in Caller, d # c
      PROVE  IsCall(call'[d]) /\ Shape(pc[d], call[d])' /\ Course(pc[d], call[d])'
  <2>1. PICK q, s : q = pc[d] /\ s = call[d]
    OBVIOUS
  <2>2. IsCall(s) /\ Shape(q, s) /\ Course(q, s)
    BY <2>1 DEF CallIInv, CallTypes
  <2>3. Shape(q, s)'
    BY <2>2, ShapeKept
  <2>4. Course(q, s)'
    <3>1. CASE q = "idle" \/ ~s.settled
      BY <3>1 DEF Course
    <3>2. CASE q # "idle" /\ s.settled
      <4>1. s.key \in Key
        BY <2>2, <3>2 DEF Shape
      <4>2. s.key # k
        BY <1>5, <2>1, <3>2 DEF CallIInv, Alone, Active
      <4> QED BY <2>2, <4>1, <4>2, CourseKept
    <3> QED BY <2>2, <3>1, <3>2 DEF IsCall
  <2> QED BY <1>3, <1>5, <2>1, <2>2, <2>3, <2>4, ShapeAfter, CourseAfter
<1>6. CallTypes'
  <2>1. \A d \in Caller : IsCall(call[d])'
    BY <1>2, <1>5 DEF IsCall
  <2>2. call' = [d \in Caller |-> call'[d]]
    BY <1>1
  <2> QED BY <1>1, <2>1, <2>2 DEF CallIInv, CallTypes, Locations
<1>7. Alone'
  <2> SUFFICES ASSUME NEW d \in Caller, pc'[d] # "idle", call'[d].settled, NEW e \in Caller, e # d, Active(e, call[d].key)'
               PROVE  FALSE
    BY DEF Alone
  <2>1. /\ pc[d] # "idle" /\ call[d].settled /\ call'[d].key = call[d].key
        /\ pc[e] # "idle" /\ call'[e].key = call[e].key
    BY <1>2, <1>3 DEF Active
  <2> QED BY <2>1 DEF CallIInv, Alone, Active
<1>8. ASSUME NEW j \in Key, j # k PROVE Known(j)'
  <2>1. \A d \in Caller : Active(d, j)' => Active(d, j) /\ call'[d].method = call[d].method
    BY <1>2, <1>3, <1>8 DEF Active
  <2>2. Known(j)
    BY DEF CallIInv
  <2> QED BY <1>8, <2>1, <2>2, KnownKept
<1> QED BY <1>4, <1>5, <1>6, <1>7, <1>8 DEF CallIInv

(* Or it touches nothing. *)
LEMMA QuietStep ==
  ASSUME CallIInv, UNCHANGED <<service, ring, nodes, rows, edges, answered, placed, linked>>,
         NEW c \in Caller, pc[c] # "idle",
         NEW p \in Locations, NEW r, IsCall(r),
         pc' = [pc EXCEPT ![c] = p], call' = [call EXCEPT ![c] = r],
         p # "idle" => /\ r.key = call[c].key /\ r.method = call[c].method
                       /\ r.settled => call[c].settled,
         Shape(p, r), Course(p, r)
  PROVE  CallIInv'
<1>1. PICK k : k = call[c].key
  OBVIOUS
<1>2. k \in Key /\ Active(c, k)
  BY <1>1 DEF CallIInv, Shape, Active
<1>3. Course(p, r)'
  BY CourseKept
<1>4. \A d \in Caller : Active(d, k)' => Active(d, k) /\ call'[d].method = call[d].method
  <2>1. \A d \in Caller : d # c => pc'[d] = pc[d] /\ call'[d] = call[d]
    BY DEF CallIInv, CallTypes
  <2>2. pc'[c] = p /\ call'[c] = r
    BY DEF CallIInv, CallTypes
  <2> QED BY <1>1, <2>1, <2>2 DEF Active
<1>5. Known(k)'
  <2>1. Known(k)
    BY <1>2 DEF CallIInv
  <2> QED BY <1>4, <2>1, KnownKept
<1>6. /\ rows' \in [Node -> SUBSET Key] /\ edges' \in [Node -> SUBSET Key]
      /\ placed' \in [Key -> {"here", "gone", "unknown"}] /\ answered' \subseteq Key /\ linked' \subseteq Key
  BY DEF CallIInv, CallTypes
<1> QED BY <1>1, <1>2, <1>3, <1>5, <1>6, OwnStep

(* A caller that is idle has no call. *)
LEMMA NoCallIs == IsCall(NoCall) /\ ~NoCall.settled /\ Shape("idle", NoCall) /\ Course("idle", NoCall)
<1>1. <<>> \in Seq({})
  OBVIOUS
<1> QED BY <1>1 DEF IsCall, NoCall, Shape, Course

(* A call may always be given up. *)
LEMMA EndStep ==
  ASSUME CallIInv, UNCHANGED <<service, ring, nodes, rows, edges, answered, placed, linked>>,
         NEW c \in Caller, pc[c] # "idle", End(c)
  PROVE  CallIInv'
BY QuietStep, NoCallIs DEF End, Locations

(* What a call does on server t, if it does it: it stays where it has been *)
(* done, and touches no other row.                                         *)
LEMMA ApplyDoes ==
  ASSUME CallIInv, UNCHANGED <<service, ring, nodes>>, NEW c \in Caller, pc[c] = "send",
         NEW t, (t \in Node /\ Apply(c, t)) \/ UNCHANGED <<rows, edges>>,
         NEW m, NEW k \in Key, call[c].method = m, call[c].key = k
  PROVE  /\ rows' \in [Node -> SUBSET Key] /\ edges' \in [Node -> SUBSET Key]
         /\ \A n \in Node, j \in Key : j # k => /\ j \in rows'[n] <=> j \in rows[n]
                                                /\ j \in edges'[n] <=> j \in edges[n]
         /\ \A n \in Node : k \in edges[n] => k \in edges'[n]
         /\ m \notin Clears => \A n \in Node : k \in rows[n] => k \in rows'[n]
         /\ \A o : Has(m, k, o) => Has(m, k, o)'
         /\ t \in Node /\ Apply(c, t) /\ Fits(c, t) => Has(m, k, t)'
<1>0. rows \in [Node -> SUBSET Key] /\ edges \in [Node -> SUBSET Key]
  BY DEF CallIInv, CallTypes
<1>1. Puts' = Puts /\ Clears' = Clears /\ Creates' = Creates
  BY TablesKept
<1>2. CASE UNCHANGED <<rows, edges>> /\ ~(t \in Node /\ Apply(c, t))
  BY <1>0, <1>1, <1>2 DEF Has
<1>3. CASE t \in Node /\ Apply(c, t)
  <2>1. /\ rows' = [rows EXCEPT ![t] =
             IF m \in Puts \cup Creates THEN rows[t] \cup {k}
             ELSE IF m \in Clears THEN rows[t] \ {k} ELSE rows[t]]
        /\ edges' = IF m = "create_edge" /\ Fits(c, t) THEN [edges EXCEPT ![t] = edges[t] \cup {k}] ELSE edges
    <3>1. m \in Puts \cup Creates \/ m \in Clears \/ (m \notin Puts \cup Creates /\ m \notin Clears)
      OBVIOUS
    <3>2. ~(m \in Puts \cup Creates /\ m \in Clears)
      BY Names DEF RowPuts
    <3> QED BY <1>3, <3>1, <3>2 DEF Apply
  <2>2. ~(m \in Puts \cup Creates /\ m \in Clears)
    BY Names DEF RowPuts
  <2>3. /\ rows' \in [Node -> SUBSET Key] /\ edges' \in [Node -> SUBSET Key]
    BY <1>0, <2>1
  <2>4. \A n \in Node : n # t => rows'[n] = rows[n] /\ edges'[n] = edges[n]
    BY <1>0, <1>3, <2>1
  <2>5. /\ rows'[t] = IF m \in Puts \cup Creates THEN rows[t] \cup {k}
                      ELSE IF m \in Clears THEN rows[t] \ {k} ELSE rows[t]
        /\ edges'[t] = IF m = "create_edge" /\ Fits(c, t) THEN edges[t] \cup {k} ELSE edges[t]
    BY <1>0, <1>3, <2>1
  <2> HIDE DEF Apply, Fits
  <2>6. ASSUME NEW n \in Node, NEW j \in Key, j # k
        PROVE  (j \in rows'[n] <=> j \in rows[n]) /\ (j \in edges'[n] <=> j \in edges[n])
    BY <2>4, <2>5, <2>6
  <2>7. ASSUME NEW n \in Node
        PROVE  /\ k \in edges[n] => k \in edges'[n]
               /\ m \notin Clears => (k \in rows[n] => k \in rows'[n])
               /\ m \in Clears => (k \notin rows[n] => k \notin rows'[n])
    BY <2>2, <2>4, <2>5
  <2>8. \A o : Has(m, k, o) => Has(m, k, o)'
    BY <1>1, <2>2, <2>7 DEF Has
  <2>9. Fits(c, t) => Has(m, k, t)'
    BY <1>1, <1>3, <2>2, <2>5 DEF Has
  <2> QED BY <2>3, <2>6, <2>7, <2>8, <2>9
<1> QED BY <1>2, <1>3

(* A server has answered a call that is not on its way through a proxy. *)
LEMMA ResultStep ==
  ASSUME CallIInv, UNCHANGED <<service, ring, nodes>>, NEW c \in Caller, pc[c] = "send",
         ~ToProxied(call[c]), NEW t \in Targets(c), NEW ok \in BOOLEAN, Result(c, t, ok),
         (t \in Node /\ Apply(c, t)) \/ UNCHANGED <<rows, edges>>,
         ok => t \in Node /\ Apply(c, t) /\ Fits(c, t)
  PROVE  CallIInv'
<1>1. PICK r, m, k : r = call[c] /\ m = r.method /\ k = r.key
  OBVIOUS
<1>2. IsCall(r) /\ Shape("send", r) /\ Course("send", r) /\ k \in Key /\ Active(c, k)
  BY <1>1 DEF CallIInv, CallTypes, Shape, Active
<1>3. /\ rows' \in [Node -> SUBSET Key] /\ edges' \in [Node -> SUBSET Key]
      /\ \A n \in Node, j \in Key : j # k => /\ j \in rows'[n] <=> j \in rows[n]
                                             /\ j \in edges'[n] <=> j \in edges[n]
      /\ \A n \in Node : k \in edges[n] => k \in edges'[n]
      /\ m \notin Clears => \A n \in Node : k \in rows[n] => k \in rows'[n]
      /\ \A o : Has(m, k, o) => Has(m, k, o)'
      /\ ok => Has(m, k, t)'
  BY <1>1, <1>2, ApplyDoes
<1>4. PICK rest : rest = RemoveFirst(r.todo, t)
  OBVIOUS
<1>5. /\ \E S : rest \in Seq(S)
      /\ \A x \in Range(r.todo) : x = t \/ x \in Range(rest)
  BY <1>2, <1>4, RestIs DEF IsCall
<1> DEFINE failed == r.failed \/ ~ok
           over == rest = <<>> \/ (r.first /\ ~ok)
           good == over /\ r.settled /\ ~(r.first /\ ~ok)
<1>6. /\ failed <=> r.failed \/ ~ok
      /\ over <=> rest = <<>> \/ (r.first /\ ~ok)
      /\ good <=> over /\ r.settled /\ ~(r.first /\ ~ok)
      /\ failed \in BOOLEAN
  OBVIOUS
<1>7. /\ IF over THEN End(c)
         ELSE /\ call' = [call EXCEPT ![c].todo = rest, ![c].first = FALSE, ![c].failed = failed]
              /\ pc' = pc
      /\ answered' = IF good /\ m \in Creates THEN answered \cup {k} ELSE answered
      /\ linked' = IF good /\ ~failed /\ m = "create_edge" THEN linked \cup {k} ELSE linked
      /\ placed' = IF ~good \/ failed THEN placed
                   ELSE CASE m \in Puts \cup Creates -> [placed EXCEPT ![k] = "here"]
                          [] m \in Clears -> [placed EXCEPT ![k] = "gone"]
                          [] OTHER -> placed
  BY <1>1, <1>4 DEF Result
<1> HIDE DEF failed, over, good
<1>8. /\ rows \in [Node -> SUBSET Key] /\ placed \in [Key -> {"here", "gone", "unknown"}]
      /\ answered \subseteq Key /\ linked \subseteq Key
      /\ pc \in [Caller -> Locations] /\ call = [d \in Caller |-> call[d]]
  BY DEF CallIInv, CallTypes, Locations
<1>9. /\ placed' \in [Key -> {"here", "gone", "unknown"}] /\ answered' \subseteq Key /\ linked' \subseteq Key
      /\ \A j \in Key : j # k => /\ placed'[j] = placed[j]
                                 /\ j \in answered' <=> j \in answered
                                 /\ j \in linked' <=> j \in linked
  BY <1>2, <1>7, <1>8
<1>10. \A i : OwnerAt(k, i)' = OwnerAt(k, i)
  BY OwnersKept
(* Where the call has got to. *)
<1>11. ~(r.method = "create_edge" /\ r.at = None) /\ ~ToProxied(r)
  BY <1>1 DEF ToProxied
<1>12. ASSUME r.settled, NEW i \in 1..Aim(r)
       PROVE  \/ OwnerAt(k, i) \in Range(rest)
              \/ failed
              \/ Has(m, k, OwnerAt(k, i))'
  <2>1. \/ OwnerAt(k, i) \in Range(r.todo) \/ r.failed \/ Has(m, k, OwnerAt(k, i))
    BY <1>1, <1>2, <1>11, <1>12 DEF Course
  <2>2. PICK o : o = OwnerAt(k, i)
    OBVIOUS
  <2>3. o \in Range(rest) \/ failed \/ Has(m, k, o)'
    BY <1>3, <1>5, <1>6, <2>1, <2>2
  <2>4. Has(m, k, OwnerAt(k, i))' <=> Has(m, k, o)'
    BY <1>10, <2>2 DEF Has
  <2> QED BY <2>2, <2>3, <2>4
<1>13. ASSUME r.settled, m \in Creates, ~(r.first /\ ~ok) PROVE Has(m, k, OwnerAt(k, 1))'
  <2>1. PICK o : o = OwnerAt(k, 1)
    OBVIOUS
  <2>2. Has(m, k, o)'
    <3>1. CASE r.first
      <4>1. t = o
        BY <1>1, <1>2, <1>13, <2>1, <3>1 DEF Targets, Course, Shape
      <4> QED BY <1>3, <1>13, <3>1, <4>1
    <3>2. CASE ~r.first
      BY <1>1, <1>2, <1>3, <1>13, <2>1, <3>2 DEF Course
    <3> QED BY <3>1, <3>2
  <2> QED BY <1>10, <2>1, <2>2 DEF Has
(* What is known of k then. *)
<1>14. Known(k)
  BY <1>2 DEF CallIInv
<1>15. r.settled => \A d \in Caller : d # c => ~Active(d, k)
  BY <1>1 DEF CallIInv, Alone
<1>16. /\ Puts' = Puts /\ Clears' = Clears /\ Asks' = Asks /\ Creates' = Creates
       /\ \A w : Width(w)' = Width(w)
  BY TablesKept
<1>17. \A d \in Caller : Active(d, k)' => Active(d, k) /\ call'[d].method = call[d].method
  <2>1. \A d \in Caller : d # c => pc'[d] = pc[d] /\ call'[d] = call[d]
    BY <1>7, <1>8 DEF End
  <2>2. pc'[c] # "idle" => call'[c].method = call[c].method /\ call'[c].key = k
    <3>1. over => pc'[c] = "idle"
      BY <1>7, <1>8 DEF End
    <3>2. ~over => call'[c] = [r EXCEPT !.todo = rest, !.first = FALSE, !.failed = failed]
      BY <1>1, <1>7, <1>8
    <3> QED BY <1>1, <1>2, <3>1, <3>2 DEF IsCall
  <2> QED BY <1>2, <2>1, <2>2 DEF Active
<1>18. good => \A d \in Caller : ~Active(d, k)'
  <2>1. good => pc'[c] = "idle"
    BY <1>6, <1>7, <1>8 DEF End
  <2> QED BY <1>6, <1>15, <1>17, <2>1 DEF Active
<1>19. Known(k)'
  <2>1. placed[k] = "unknown"
    BY <1>2, <1>14 DEF Known
  <2>2. placed'[k] # "unknown" => good /\ ~failed
    BY <1>7, <2>1
  <2>3. ASSUME good, ~failed, NEW i \in 1..Aim(r) PROVE Has(m, k, OwnerAt(k, i))'
    <3>1. rest = <<>>
      BY <1>6, <2>3
    <3>2. Range(rest) = {}
      BY <3>1 DEF Range
    <3> QED BY <1>6, <1>12, <2>3, <3>2
  <2>4. m \in Puts \cup Clears \cup Creates => \A a \in Asks : Width(a) <= Aim(r) /\ Width(a) \in Nat /\ Aim(r) \in Nat
    <3>1. m \in Creates => Aim(r) = 2
      BY <1>1, <1>2 DEF Shape, Aim, Replicas
    <3>2. m \in Puts \cup Clears => Aim(r) = Width(m)
      BY <1>1, <1>2 DEF Shape, Aim
    <3> QED BY <3>1, <3>2, WidthIs DEF CallIInv, CallTypes
  <2>5. ASSUME placed'[k] = "here"
        PROVE  \A a \in Asks' : \A i \in 1..Width(a)' : OwnerAt(k, i)' \in Node /\ k \in rows'[OwnerAt(k, i)']
    <3>1. good /\ ~failed
      BY <2>2, <2>5
    <3>2. m \in Puts \cup Creates
      BY <1>2, <1>7, <1>8, <2>1, <2>5, <3>1
    <3>3. ASSUME NEW a \in Asks, NEW i \in 1..Width(a)
          PROVE  OwnerAt(k, i)' \in Node /\ k \in rows'[OwnerAt(k, i)']
      <4>1. i \in 1..Aim(r)
        BY <2>4, <3>2, <3>3
      <4> QED BY <1>16, <2>3, <3>1, <3>2, <4>1 DEF Has
    <3> QED BY <1>16, <3>3
  <2>6. ASSUME placed'[k] = "gone"
        PROVE  \A a \in Asks' : \A i \in 1..Width(a)' : OwnerAt(k, i)' \in Node /\ k \notin rows'[OwnerAt(k, i)']
    <3>1. good /\ ~failed
      BY <2>2, <2>6
    <3>2. m \in Clears
      BY <1>2, <1>7, <1>8, <2>1, <2>6, <3>1
    <3>3. ASSUME NEW a \in Asks, NEW i \in 1..Width(a)
          PROVE  OwnerAt(k, i)' \in Node /\ k \notin rows'[OwnerAt(k, i)']
      <4>1. i \in 1..Aim(r)
        BY <2>4, <3>2, <3>3
      <4> QED BY <1>16, <2>3, <3>1, <3>2, <4>1 DEF Has
    <3> QED BY <1>16, <3>3
  <2>7. ASSUME k \in answered'
        PROVE  /\ OwnerAt(k, 1)' \in Node /\ k \in rows'[OwnerAt(k, 1)']
               /\ \A d \in Caller : Active(d, k)' => call'[d].method \notin Clears'
    <3>1. CASE k \in answered
      <4>1. m \notin Clears
        BY <1>1, <1>2, <1>14, <3>1 DEF Known
      <4>2. OwnerAt(k, 1) \in Node /\ k \in rows[OwnerAt(k, 1)]
        BY <1>14, <3>1 DEF Known
      <4>3. k \in rows'[OwnerAt(k, 1)]
        BY <1>3, <4>1, <4>2
      <4>4. \A d \in Caller : Active(d, k)' => call'[d].method \notin Clears
        BY <1>14, <1>17, <3>1 DEF Known
      <4> QED BY <1>10, <1>16, <4>2, <4>3, <4>4
    <3>2. CASE good /\ m \in Creates
      <4>1. Has(m, k, OwnerAt(k, 1))'
        BY <1>6, <1>13, <3>2
      <4> QED BY <1>16, <1>18, <3>2, <4>1 DEF Has
    <3> QED BY <1>7, <2>7, <3>1, <3>2
  <2>8. ASSUME k \in linked'
        PROVE  \A i \in 1..Replicas : OwnerAt(k, i)' \in Node /\ k \in edges'[OwnerAt(k, i)']
    <3>1. CASE k \in linked
      BY <1>3, <1>10, <1>14, <3>1 DEF Known
    <3>2. CASE good /\ ~failed /\ m = "create_edge"
      <4>1. Aim(r) = Replicas
        BY <1>1, <1>11, <3>2 DEF Aim
      <4> QED BY <2>3, <3>2, <4>1 DEF Has
    <3> QED BY <1>7, <2>8, <3>1, <3>2
  <2>9. placed'[k] # "unknown" => \A d \in Caller : ~Active(d, k)'
    BY <1>18, <2>2
  <2> QED BY <2>5, <2>6, <2>7, <2>8, <2>9 DEF Known, Replicas
<1>20. CASE over
  <2>1. pc' = [pc EXCEPT ![c] = "idle"] /\ call' = [call EXCEPT ![c] = NoCall]
    BY <1>7, <1>20 DEF End
  <2>2. Course("idle", NoCall)'
    BY DEF Course
  <2> QED BY <1>2, <1>3, <1>9, <1>19, <2>1, <2>2, NoCallIs, OwnStep DEF Locations
<1>21. CASE ~over
  <2>1. PICK s : s = [r EXCEPT !.todo = rest, !.first = FALSE, !.failed = failed]
    OBVIOUS
  <2>2. /\ s.method = m /\ s.key = k /\ s.at = r.at /\ s.todo = rest /\ s.first = FALSE
        /\ s.failed = failed /\ s.settled = r.settled /\ IsCall(s)
    BY <1>1, <1>2, <1>5, <1>6, <2>1 DEF IsCall
  <2>3. pc' = [pc EXCEPT ![c] = "send"] /\ call' = [call EXCEPT ![c] = s]
    BY <1>1, <1>7, <1>8, <1>21, <2>1
  <2>4. Shape("send", s)
    BY <1>1, <1>2, <2>2 DEF Shape
  <2>5. Course("send", s)'
    <3> SUFFICES ASSUME r.settled PROVE Course("send", s)'
      BY <2>2 DEF Course
    <3>1. ~ToProxied(s) /\ ~ToProxied(s)' /\ Aim(s)' = Aim(r)
      BY <1>1, <1>11, <1>16, <2>2 DEF ToProxied, Aim
    <3>2. \A i \in 1..Aim(r) : OwnerAt(k, i)' \in Range(rest) \/ failed \/ Has(m, k, OwnerAt(k, i))'
      BY <1>10, <1>12
    <3>3. m \in Creates => Has(m, k, OwnerAt(k, 1))'
      BY <1>6, <1>13, <1>21
    <3> QED BY <1>16, <2>2, <3>1, <3>2, <3>3 DEF Course
  <2> QED BY <1>1, <1>2, <1>3, <1>9, <1>19, <2>2, <2>3, <2>4, <2>5, OwnStep DEF Locations
<1> QED BY <1>20, <1>21, <1>6

(* One virtual node more has been read, or could not be. *)
LEMMA TookStep ==
  ASSUME CallIInv, UNCHANGED <<service, ring, nodes, rows, edges, answered, placed, linked>>,
         NEW c \in Caller, pc[c] = "read", NEW t, NEW b \in BOOLEAN,
         b => t = Owner(Head(call[c].vnodes)),
         call' = [call EXCEPT ![c].vnodes = Tail(@), ![c].todo = Append(@, t),
                              ![c].settled = @ /\ b],
         pc' = [pc EXCEPT ![c] = IF Len(call[c].vnodes) > 1 THEN @
                    ELSE IF call[c].method = "create_edge" /\ call[c].at # None THEN "local"
                    ELSE "send"]
  PROVE  CallIInv'
<1>1. PICK r : r = call[c]
  OBVIOUS
<1>2. IsCall(r) /\ Shape("read", r) /\ Course("read", r)
  BY <1>1 DEF CallIInv, CallTypes
<1>3. PICK v, d : v = r.vnodes /\ d = r.todo
  OBVIOUS
<1>4. PICK S, T : v \in Seq(S) /\ d \in Seq(T)
  BY <1>2, <1>3 DEF IsCall
<1>5. v # <<>> /\ Len(d) + Len(v) = Aim(r)
  BY <1>2, <1>3 DEF Shape
<1>6. PICK w, e : w = Tail(v) /\ e = Append(d, t)
  OBVIOUS
<1>7. /\ w \in Seq(S) /\ Len(w) = Len(v) - 1 /\ Len(v) \in Nat /\ Len(v) > 0
      /\ \A i \in 1..(Len(v) - 1) : w[i] = v[i + 1]
      /\ Head(v) = v[1]
  BY <1>4, <1>5, <1>6
<1>8. /\ e \in Seq(T \cup {t}) /\ Len(e) = Len(d) + 1 /\ Len(d) \in Nat
      /\ \A i \in 1..Len(d) : e[i] = d[i]
      /\ e[Len(d) + 1] = t /\ DOMAIN e = 1..Len(e)
  <2>1. d \in Seq(T \cup {t})
    BY <1>4
  <2> QED BY <2>1, <1>4, <1>6
<1>9. PICK s : s = [r EXCEPT !.vnodes = w, !.todo = e, !.settled = r.settled /\ b]
  OBVIOUS
<1>10. /\ s.method = r.method /\ s.key = r.key /\ s.at = r.at /\ s.vnodes = w /\ s.todo = e
       /\ s.first = r.first /\ s.failed = r.failed /\ s.settled = (r.settled /\ b) /\ IsCall(s)
  BY <1>2, <1>7, <1>8, <1>9 DEF IsCall
<1>11. PICK p : p = IF Len(v) > 1 THEN "read"
                    ELSE IF r.method = "create_edge" /\ r.at # None THEN "local" ELSE "send"
  OBVIOUS
<1>12. pc' = [pc EXCEPT ![c] = p] /\ call' = [call EXCEPT ![c] = s]
  BY <1>1, <1>3, <1>6, <1>9, <1>11
<1>13. p \in Locations
  BY <1>11 DEF Locations
<1>14. Aim(s) = Aim(r)
  BY <1>10 DEF Aim
<1>15. p = "read" => w # <<>> /\ Len(e) + Len(w) = Aim(r)
  BY <1>4, <1>5, <1>7, <1>8, <1>11
<1>16. p # "read" => Len(e) = Aim(r) /\ Len(v) = 1
  BY <1>5, <1>7, <1>8, <1>11
<1>17. Shape(p, s)
  <2>1. p = "local" => r.method = "create_edge" /\ r.at # None /\ Len(e) = Replicas
    BY <1>11, <1>16 DEF Aim
  <2> QED BY <1>2, <1>10, <1>11, <1>14, <1>15, <2>1, Names DEF Shape, RowPuts
<1>18. Course(p, s)
  <2> SUFFICES ASSUME r.settled, b PROVE Course(p, s)
    BY <1>10 DEF Course
  <2>1. /\ \A i \in 1..Len(d) : d[i] = OwnerAt(r.key, i)
        /\ \A i \in 1..Len(v) : v[i] = Place(ring, r.key, Len(d) + i)
    BY <1>2, <1>3 DEF Course
  <2>2. t = OwnerAt(r.key, Len(d) + 1)
    BY <1>1, <1>3, <1>7, <2>1 DEF OwnerAt
  <2>3. ASSUME NEW i \in 1..Len(e) PROVE e[i] = OwnerAt(r.key, i)
    <3>1. i \in 1..Len(d) \/ i = Len(d) + 1
      BY <1>8
    <3> QED BY <1>8, <2>1, <2>2, <3>1
  <2>4. ASSUME NEW i \in 1..Len(w) PROVE w[i] = Place(ring, r.key, Len(e) + i)
    <3>0. PICK nd, nv \in Nat : nd = Len(d) /\ nv = Len(v)
      BY <1>7, <1>8
    <3>1. Len(e) = nd + 1 /\ Len(w) = nv - 1
      BY <1>7, <1>8, <3>0
    <3>2. i \in 1..(nv - 1)
      BY <2>4, <3>1
    <3>3. i + 1 \in 1..nv /\ nd + (i + 1) = (nd + 1) + i
      BY <3>0, <3>2
    <3>4. v[i + 1] = Place(ring, r.key, nd + (i + 1))
      BY <2>1, <3>0, <3>3
    <3>5. w[i] = v[i + 1]
      BY <1>7, <3>0, <3>2
    <3> QED BY <3>1, <3>3, <3>4, <3>5
  <2>5. r.at # None /\ r.method = "create_edge" => r.at = OwnerAt(r.key, 1)
    BY <1>2 DEF Course
  <2>6. ASSUME p = "send", ToProxied(s), NEW x \in Range(e) PROVE x = OwnerAt(r.key, 1)
    <3>1. "create_edge" \in ByKey
      BY <1>2, <1>10, <2>6 DEF Shape, ToProxied
    <3>2. Aim(r) = 1
      BY <1>10, <2>6, <3>1, WidthIs DEF ToProxied, Aim, CallIInv, CallTypes
    <3>3. Len(e) = 1
      BY <1>16, <2>6, <3>2
    <3>4. PICK i \in 1..Len(e) : x = e[i]
      BY <1>8, <2>6 DEF Range
    <3>5. i = 1
      BY <3>3
    <3> QED BY <2>3, <3>4, <3>5
  <2>7. ASSUME p = "send", NEW i \in 1..Aim(r) PROVE OwnerAt(r.key, i) \in Range(e)
    <3>1. i \in 1..Len(e)
      BY <1>16, <2>7
    <3> QED BY <1>8, <2>3, <3>1 DEF Range
  <2>8. p = "send" /\ r.first => Head(e) = OwnerAt(r.key, 1)
    <3>1. 1 \in 1..Len(e) /\ Head(e) = e[1]
      BY <1>8
    <3> QED BY <2>3, <3>1
  <2>9. r.method \in Creates => r.first
    BY <1>2 DEF Shape
  <2> QED BY <1>10, <1>11, <1>14, <2>3, <2>4, <2>5, <2>6, <2>7, <2>8, <2>9 DEF Course
<1> QED BY <1>1, <1>10, <1>12, <1>13, <1>17, <1>18, QuietStep DEF IsCall

(* The call of a caller goes on with what has been read, or ends. *)
LEMMA ReadStep ==
  ASSUME CallIInv, NEW c \in Caller, Read(c)
  PROVE  CallIInv'
<1>1. UNCHANGED <<service, ring, nodes, rows, edges, answered, placed, linked>> /\ pc[c] = "read"
  BY DEF Read, zk, data, history
<1>2. CASE End(c)
  BY <1>1, <1>2, EndStep
<1> DEFINE Took(t, b) ==
             /\ b => t = Owner(Head(call[c].vnodes))
             /\ call' = [call EXCEPT ![c].vnodes = Tail(@), ![c].todo = Append(@, t),
                              ![c].settled = @ /\ b]
             /\ pc' = [pc EXCEPT ![c] = IF Len(call[c].vnodes) > 1 THEN @
                    ELSE IF call[c].method = "create_edge" /\ call[c].at # None THEN "local"
                    ELSE "send"]
<1>3. ASSUME NEW t, NEW b \in BOOLEAN, Took(t, b) PROVE CallIInv'
  BY <1>1, <1>3, TookStep
<1>4. End(c) \/ Took(Owner(Head(call[c].vnodes)), TRUE)
             \/ \E t : Took(t, FALSE)
  BY DEF Read
<1> HIDE DEF Took
<1> QED BY <1>2, <1>3, <1>4

(* create_edge reads the two servers of the source, whatever the proxy     *)
(* read.                                                                   *)
LEMMA ListEdgeStep ==
  ASSUME CallIInv, NEW c \in Caller, ListEdge(c)
  PROVE  CallIInv'
<1>1. /\ UNCHANGED <<service, ring, nodes, rows, edges, answered, placed, linked>>
      /\ pc[c] = "list" /\ pc' = [pc EXCEPT ![c] = "read"]
  BY DEF ListEdge, zk, data, history
<1>2. PICK r : r = call[c]
  OBVIOUS
<1>3. IsCall(r) /\ Shape("list", r) /\ Course("list", r)
  BY <1>1, <1>2 DEF CallIInv, CallTypes
<1>4. PICK v : v = FindFromCht(r.key)
  OBVIOUS
<1>5. /\ \E S : v \in Seq(S)
      /\ Len(v) = 2 /\ \A i \in 1..2 : v[i] = Place(ring, r.key, i)
  <2>1. Replicas \in Nat /\ Replicas = 2
    BY DEF Replicas
  <2> QED BY <1>4, <2>1, FindIs DEF FindFromCht
<1>6. PICK s : s = [r EXCEPT !.vnodes = v]
  OBVIOUS
<1>7. /\ s.method = r.method /\ s.key = r.key /\ s.at = r.at /\ s.vnodes = v /\ s.todo = r.todo
      /\ s.first = r.first /\ s.failed = r.failed /\ s.settled = r.settled /\ IsCall(s)
  BY <1>3, <1>5, <1>6 DEF IsCall
<1>8. r.todo = <<>> /\ r.at # None /\ r.method = "create_edge" /\ v # <<>>
  <2>1. Len(<<>>) = 0 /\ 2 # 0
    OBVIOUS
  <2>2. Len(v) = 2
    BY <1>5
  <2>3. v # <<>>
    BY <2>1, <2>2
  <2> QED BY <1>3, <2>3 DEF Shape
<1>9. Shape("read", s)
  BY <1>3, <1>5, <1>7, <1>8, Names DEF Shape, Aim, Replicas, RowPuts
<1>10. Course("read", s)
  <2>1. Len(s.todo) = 0 /\ Len(s.vnodes) = 2
    BY <1>5, <1>7, <1>8
  <2>2. \A i \in 1..2 : s.vnodes[i] = Place(ring, s.key, 0 + i)
    BY <1>5, <1>7
  <2>3. r.settled => r.at = OwnerAt(r.key, 1)
    BY <1>3, <1>8 DEF Course
  <2> QED BY <1>7, <1>8, <2>1, <2>2, <2>3 DEF Course
<1>11. call' = [call EXCEPT ![c] = s]
  BY <1>2, <1>4, <1>6 DEF ListEdge
<1> QED BY <1>1, <1>2, <1>7, <1>9, <1>10, <1>11, QuietStep DEF Locations

(* create_edge puts the edge on the server that runs it, which is the      *)
(* first for the source when nothing has disturbed the call, and goes on   *)
(* to the second unless that is itself.                                    *)
LEMMA LocalEdgeStep ==
  ASSUME CallIInv, NEW c \in Caller, LocalEdge(c)
  PROVE  CallIInv'
<1>1. /\ UNCHANGED <<service, ring, nodes, rows, answered, placed>> /\ pc[c] = "local"
  BY DEF LocalEdge, zk
<1>2. PICK r, k, n : r = call[c] /\ k = r.key /\ n = r.at
  OBVIOUS
<1>3. IsCall(r) /\ Shape("local", r) /\ Course("local", r)
  BY <1>1, <1>2 DEF CallIInv, CallTypes
<1>4. /\ k \in Key /\ n \in Node /\ r.method = "create_edge" /\ Len(r.todo) = 2 /\ Active(c, k)
  BY <1>1, <1>2, <1>3 DEF Shape, IsCall, Replicas, Active
<1>5. PICK others : others = RemoveFirst(Tail(r.todo), n)
  OBVIOUS
<1>6. PICK S : r.todo \in Seq(S)
  BY <1>3 DEF IsCall
<1>7. PICK d : d = r.todo
  OBVIOUS
<1>8. /\ Tail(d) \in Seq(S) /\ Range(Tail(d)) = {d[2]}
  <2>1. d \in Seq(S) /\ Len(d) = 2
    BY <1>4, <1>6, <1>7
  <2>2. PICK e : e = Tail(d)
    OBVIOUS
  <2>4. /\ e \in Seq(S) /\ Len(e) = Len(d) - 1
        /\ \A i \in 1..(Len(d) - 1) : e[i] = d[i + 1]
    <3>1. Len(<<>>) = 0
      OBVIOUS
    <3>2. d # <<>>
      BY <2>1, <3>1
    <3>3. /\ Tail(d) \in Seq(S) /\ Len(Tail(d)) = Len(d) - 1
          /\ \A i \in 1..Len(Tail(d)) : Tail(d)[i] = d[i + 1]
      BY <2>1, <3>2, HeadTailProperties
    <3> QED BY <2>2, <3>3
  <2>5. Len(e) = 1 /\ e[1] = d[2] /\ DOMAIN e = 1..1
    BY <2>1, <2>4
  <2>3. 1..1 = {1}
    OBVIOUS
  <2> QED BY <2>2, <2>3, <2>4, <2>5 DEF Range
<1>9. others \in Seq(S) /\ (d[2] = n \/ d[2] \in Range(others))
  BY <1>5, <1>7, <1>8, RestIs
<1>10. r.settled => OwnerAt(k, 1) = n /\ OwnerAt(k, 2) = d[2]
  <2>1. Len(r.todo) = 2 /\ r.method = "create_edge" /\ r.at = n /\ n # None /\ r.key = k /\ r.todo = d
    BY <1>2, <1>3, <1>4, <1>7 DEF Shape
  <2> QED BY <1>3, <2>1 DEF Course
<1>11. /\ edges \in [Node -> SUBSET Key] /\ rows \in [Node -> SUBSET Key] /\ linked \subseteq Key
       /\ pc \in [Caller -> Locations] /\ call = [e \in Caller |-> call[e]]
  BY DEF CallIInv, CallTypes, Locations
<1>12. CASE k \notin rows[n]
  <2>1. End(c) /\ UNCHANGED <<edges, linked>>
    BY <1>2, <1>12 DEF LocalEdge
  <2> QED BY <1>1, <2>1, EndStep
<1>13. CASE k \in rows[n]
  <2>1. /\ edges' = [edges EXCEPT ![n] = edges[n] \cup {k}]
        /\ IF others = <<>> THEN End(c)
           ELSE pc' = [pc EXCEPT ![c] = "send"] /\ call' = [call EXCEPT ![c].todo = others]
        /\ linked' = IF others = <<>> /\ r.settled THEN linked \cup {k} ELSE linked
    BY <1>2, <1>5, <1>13 DEF LocalEdge
  <2>2. /\ edges' \in [Node -> SUBSET Key] /\ k \in edges'[n]
        /\ \A o \in Node : k \in edges[o] => k \in edges'[o]
        /\ \A o \in Node, j \in Key : j # k => (j \in edges'[o] <=> j \in edges[o])
    BY <1>4, <1>11, <2>1
  <2>3. linked' \subseteq Key /\ \A j \in Key : j # k => (j \in linked' <=> j \in linked)
    BY <1>4, <1>11, <2>1
  <2>4. \A i : OwnerAt(k, i)' = OwnerAt(k, i)
    BY <1>1, OwnersKept
  <2>5. others = <<>> => Range(others) = {}
    BY DEF Range
  <2>6. Known(k)
    BY <1>4 DEF CallIInv
  <2>7. /\ Puts' = Puts /\ Clears' = Clears /\ Asks' = Asks /\ Creates' = Creates
        /\ \A w : Width(w)' = Width(w)
    BY <1>1, TablesKept
  <2>8. ASSUME k \in linked'
        PROVE  \A i \in 1..Replicas : OwnerAt(k, i)' \in Node /\ k \in edges'[OwnerAt(k, i)']
    <3>1. CASE k \in linked
      BY <2>2, <2>4, <2>6, <3>1 DEF Known
    <3>2. CASE others = <<>> /\ r.settled
      <4>1. OwnerAt(k, 1) = n /\ OwnerAt(k, 2) = n
        BY <1>9, <1>10, <2>5, <3>2
      <4>2. \A i \in 1..Replicas : i = 1 \/ i = 2
        BY DEF Replicas
      <4> QED BY <1>4, <2>2, <2>4, <4>1, <4>2
    <3> QED BY <2>1, <2>8, <3>1, <3>2
  <2>9. \A e \in Caller : Active(e, k)' => Active(e, k) /\ call'[e].method = call[e].method
    <3>1. \A e \in Caller : e # c => pc'[e] = pc[e] /\ call'[e] = call[e]
      BY <1>11, <2>1 DEF End
    <3>2. others = <<>> => pc'[c] = "idle"
      BY <1>11, <2>1 DEF End
    <3>3. others # <<>> => call'[c] = [r EXCEPT !.todo = others]
      BY <1>2, <1>11, <2>1
    <3>4. others # <<>> => call'[c].method = r.method
      BY <1>3, <3>3 DEF IsCall
    <3> QED BY <1>2, <1>4, <3>1, <3>2, <3>4 DEF Active
  <2>10. Known(k)'
    <3>1. placed'[k] = "unknown"
      BY <1>1, <1>4, <2>6 DEF Known
    <3>2. ASSUME k \in answered'
          PROVE  /\ OwnerAt(k, 1)' \in Node /\ k \in rows'[OwnerAt(k, 1)']
                 /\ \A e \in Caller : Active(e, k)' => call'[e].method \notin Clears'
      BY <1>1, <2>4, <2>6, <2>7, <2>9, <3>2 DEF Known
    <3> QED BY <2>8, <3>1, <3>2 DEF Known, Replicas
  <2>11. /\ placed' \in [Key -> {"here", "gone", "unknown"}] /\ answered' \subseteq Key
         /\ rows' \in [Node -> SUBSET Key] /\ \A o \in Node : rows'[o] = rows[o]
         /\ placed' = placed /\ answered' = answered
    BY <1>1, <1>11 DEF CallIInv, CallTypes
  <2>12. CASE others = <<>>
    <3>1. pc' = [pc EXCEPT ![c] = "idle"] /\ call' = [call EXCEPT ![c] = NoCall]
      BY <2>1, <2>12 DEF End
    <3>2. Course("idle", NoCall)'
      BY DEF Course
    <3> QED BY <1>1, <1>4, <2>2, <2>3, <2>10, <2>11, <3>1, <3>2, NoCallIs, OwnStep DEF Locations
  <2>13. CASE others # <<>>
    <3>1. PICK s : s = [r EXCEPT !.todo = others]
      OBVIOUS
    <3>2. /\ s.method = "create_edge" /\ s.key = k /\ s.at = n /\ s.todo = others /\ s.first = r.first
          /\ s.failed = r.failed /\ s.settled = r.settled /\ IsCall(s)
      BY <1>2, <1>3, <1>4, <1>9, <3>1 DEF IsCall
    <3>3. pc' = [pc EXCEPT ![c] = "send"] /\ call' = [call EXCEPT ![c] = s]
      BY <1>2, <2>1, <2>13, <3>1
    <3>4. ~r.first /\ "create_edge" \in ByKey /\ n # None /\ "create_edge" \notin Puts \cup Creates \cup Clears
      BY <1>2, <1>3, <1>4, Names DEF Shape, RowPuts
    <3>5. Shape("send", s)
      BY <1>4, <3>2, <3>4 DEF Shape
    <3>6. Course("send", s)'
      <4> SUFFICES ASSUME r.settled PROVE Course("send", s)'
        BY <3>2 DEF Course
      <4>1. ~ToProxied(s) /\ ~ToProxied(s)' /\ Aim(s)' = 2
        BY <3>2, <3>4 DEF ToProxied, Aim, Replicas
      <4>2. ASSUME NEW i \in 1..2 PROVE OwnerAt(k, i)' \in Range(others) \/ Has("create_edge", k, OwnerAt(k, i))'
        <5>1. OwnerAt(k, 1) = n /\ OwnerAt(k, 2) = d[2]
          BY <1>10
        <5>2. n \in Node /\ k \in edges'[n]
          BY <1>4, <2>2
        <5>3. \/ OwnerAt(k, i) = n
              \/ OwnerAt(k, i) \in Range(others)
          <6>1. i = 1 \/ i = 2
            OBVIOUS
          <6> QED BY <1>9, <5>1, <6>1
        <5> QED BY <2>4, <2>7, <3>4, <5>2, <5>3 DEF Has
      <4> QED BY <2>7, <3>2, <3>4, <4>1, <4>2 DEF Course
    <3> QED BY <1>1, <1>2, <1>4, <2>2, <2>3, <2>10, <2>11, <3>2, <3>3, <3>5, <3>6, OwnStep DEF Locations
  <2> QED BY <2>12, <2>13
<1> QED BY <1>12, <1>13

(* Members are listed one by one. *)
LEMMA MembersInSeq ==
  ASSUME NEW S \in SUBSET Node
  PROVE  SetToSeq(S) \in Seq(S)
<1>1. IsFiniteSet(S) /\ Cardinality(S) \in Nat
  BY RingAssumption, FS_Subset, FS_CardinalityType
<1>2. PICK n \in Nat : n = Cardinality(S)
  BY <1>1
<1>3. ExistsBijection(1..n, S)
  <2>1. PICK m \in Nat : ExistsBijection(1..m, S)
    BY <1>1, FS_NatBijection
  <2>2. m = n
    BY <1>2, <2>1, FS_CountingElements
  <2> QED BY <2>1, <2>2
<1>4. PICK f \in Bijection(1..n, S) : TRUE
  BY <1>3 DEF ExistsBijection
<1>5. f \in [1..n -> S] /\ IsInjective(f)
  BY <1>4 DEF Bijection, Injection
<1>6. SetToSeq(S) \in [1..n -> S]
  BY <1>2, <1>5 DEF SetToSeq
<1> QED BY <1>6

(* A call reaches a server: it goes on there, or is answered.              *)
LEMMA DeliverStep ==
  ASSUME CallIInv, NEW c \in Caller, Deliver(c)
  PROVE  CallIInv'
<1>1. UNCHANGED <<service, ring, nodes>> /\ pc[c] = "send"
  BY DEF Deliver, zk
<1>2. PICK r : r = call[c]
  OBVIOUS
<1>3. IsCall(r) /\ Shape("send", r) /\ Course("send", r) /\ nodes \subseteq Node
  BY <1>1, <1>2 DEF CallIInv, CallTypes
<1>4. CASE ToProxied(r)
  <2>1. PICK t \in Targets(c) \cap nodes :
          /\ pc' = [pc EXCEPT ![c] = "list"]
          /\ call' = [call EXCEPT ![c].at = t, ![c].todo = <<>>]
          /\ UNCHANGED <<rows, edges, history>>
    BY <1>2, <1>4 DEF Deliver, ToProxied
  <2>2. PICK s : s = [r EXCEPT !.at = t, !.todo = <<>>]
    OBVIOUS
  <2>3. /\ s.method = r.method /\ s.key = r.key /\ s.at = t /\ s.vnodes = r.vnodes /\ s.todo = <<>>
        /\ s.first = r.first /\ s.failed = r.failed /\ s.settled = r.settled /\ IsCall(s)
    <3>1. t \in Node
      BY <1>3, <2>1
    <3>2. <<>> \in Seq({})
      OBVIOUS
    <3> QED BY <1>3, <2>2, <3>1, <3>2 DEF IsCall
  <2>4. call' = [call EXCEPT ![c] = s]
    BY <1>2, <2>1, <2>2
  <2>5. r.at = None /\ r.method = "create_edge" /\ t \in Range(r.todo) /\ t # None
    BY <1>2, <1>3, <1>4, <2>1, NameAssumption DEF ToProxied, Targets
  <2>6. Shape("list", s)
    BY <1>3, <2>3, <2>5, Names DEF Shape, RowPuts
  <2>7. Course("list", s)
    <3>1. r.settled => t = OwnerAt(r.key, 1)
      BY <1>3, <1>4, <2>5 DEF Course
    <3> QED BY <2>3, <3>1 DEF Course
  <2> QED BY <1>1, <1>2, <2>1, <2>3, <2>4, <2>6, <2>7, QuietStep DEF Locations, history
<1>5. CASE ~ToProxied(r)
  <2>1. PICK t \in Targets(c) \cap nodes : Apply(c, t) /\ Result(c, t, Fits(c, t))
    BY <1>2, <1>5 DEF Deliver, ToProxied
  <2>2. Fits(c, t) \in BOOLEAN
    BY DEF Fits
  <2>3. t \in Node /\ t \in Targets(c)
    BY <1>3, <2>1
  <2>4. PICK ok \in BOOLEAN : (ok <=> Fits(c, t)) /\ ok = Fits(c, t)
    BY <2>2
  <2>5. Result(c, t, ok)
    BY <2>1, <2>4
  <2> HIDE DEF Result, Apply, Fits
  <2> QED BY <1>1, <1>2, <1>5, <2>1, <2>3, <2>4, <2>5, ResultStep
<1> QED BY <1>4, <1>5

(* The same of a call that is lost: what it is to do may have been done. *)
LEMMA LoseStep ==
  ASSUME CallIInv, NEW c \in Caller, Lose(c)
  PROVE  CallIInv'
<1>1. UNCHANGED <<service, ring, nodes>> /\ pc[c] = "send" /\ nodes \subseteq Node
  BY DEF Lose, zk, CallIInv, CallTypes
<1>2. CASE ToProxied(call[c])
  <2>1. End(c) /\ UNCHANGED <<rows, edges, answered, placed, linked>>
    BY <1>2 DEF Lose, ToProxied, history
  <2> QED BY <1>1, <2>1, EndStep
<1>3. CASE ~ToProxied(call[c])
  <2>1. PICK t \in Targets(c) :
          /\ (t \in nodes /\ Apply(c, t)) \/ UNCHANGED <<rows, edges>>
          /\ Result(c, t, FALSE)
    BY <1>3 DEF Lose, ToProxied
  <2> QED BY <1>1, <1>3, <2>1, ResultStep
<1> QED BY <1>2, <1>3

(* remove_node asks who the others are, and calls them. *)
LEMMA MembersStep ==
  ASSUME CallIInv, NEW c \in Caller, Members(c)
  PROVE  CallIInv'
<1>1. UNCHANGED <<service, ring, nodes, rows, edges, answered, placed, linked>> /\ pc[c] = "members"
  BY DEF Members, zk, history
<1>2. CASE End(c)
  BY <1>1, <1>2, EndStep
<1>3. CASE ~End(c)
  <2>1. PICK r, others : r = call[c] /\ others = GetMembers(r.at)
    OBVIOUS
  <2>2. IsCall(r) /\ Shape("members", r) /\ nodes \subseteq Node
    BY <1>1, <2>1 DEF CallIInv, CallTypes
  <2>3. PICK todo : todo = SetToSeq(others)
    OBVIOUS
  <2>4. pc' = [pc EXCEPT ![c] = "tell"] /\ call' = [call EXCEPT ![c].todo = todo]
    BY <1>3, <2>1, <2>3 DEF Members
  <2>5. \E S : todo \in Seq(S)
    BY <2>1, <2>2, <2>3, MembersInSeq DEF GetMembers
  <2>6. PICK s : s = [r EXCEPT !.todo = todo]
    OBVIOUS
  <2>7. /\ s.method = r.method /\ s.key = r.key /\ s.at = r.at /\ s.first = r.first
        /\ s.settled = r.settled /\ IsCall(s)
    BY <2>2, <2>5, <2>6 DEF IsCall
  <2>8. call' = [call EXCEPT ![c] = s]
    BY <2>1, <2>4, <2>6
  <2>9. r.method = "remove_node"
    BY <2>2, Names DEF Shape, RowPuts
  <2>10. Shape("tell", s) /\ Course("tell", s)
    BY <2>2, <2>7, <2>9, Names DEF Shape, Course, RowPuts
  <2> QED BY <1>1, <2>1, <2>4, <2>7, <2>8, <2>10, QuietStep DEF Locations
<1> QED BY <1>2, <1>3

(* One of the others has been called, or passed over. *)
LEMMA TellStep ==
  ASSUME CallIInv, NEW c \in Caller, Tell(c)
  PROVE  CallIInv'
<1>1. UNCHANGED <<service, ring, nodes, rows, edges, answered, placed, linked>> /\ pc[c] = "tell"
  BY DEF Tell, zk, history
<1>2. CASE End(c)
  BY <1>1, <1>2, EndStep
<1>3. CASE ~End(c)
  <2>1. PICK r : r = call[c]
    OBVIOUS
  <2>2. IsCall(r) /\ Shape("tell", r)
    BY <1>1, <2>1 DEF CallIInv, CallTypes
  <2>3. PICK t : call' = [call EXCEPT ![c].todo = RemoveFirst(call[c].todo, t)] /\ pc' = pc
    BY <1>3 DEF Tell, Told
  <2>4. PICK todo : todo = RemoveFirst(r.todo, t)
    OBVIOUS
  <2>5. \E S : todo \in Seq(S)
    BY <2>2, <2>4, RestIs DEF IsCall
  <2>6. PICK s : s = [r EXCEPT !.todo = todo]
    OBVIOUS
  <2>7. /\ s.method = r.method /\ s.key = r.key /\ s.at = r.at /\ s.first = r.first
        /\ s.settled = r.settled /\ IsCall(s)
    BY <2>2, <2>5, <2>6 DEF IsCall
  <2>8. call' = [call EXCEPT ![c] = s] /\ pc' = [pc EXCEPT ![c] = "tell"]
    <3>1. pc \in [Caller -> Locations]
      BY DEF CallIInv, CallTypes, Locations
    <3> QED BY <1>1, <2>1, <2>3, <2>4, <2>6, <3>1
  <2>9. r.method = "remove_node"
    BY <2>2, Names DEF Shape, RowPuts
  <2>10. Shape("tell", s) /\ Course("tell", s)
    BY <2>2, <2>7, <2>9, Names DEF Shape, Course, RowPuts
  <2> QED BY <1>1, <2>1, <2>7, <2>8, <2>10, QuietStep DEF Locations
<1> QED BY <1>2, <1>3

(* A proxy routes a call. *)
LEMMA RoutedStep ==
  ASSUME CallIInv, NEW c \in Caller, NEW proxy \in Proxy, NEW m \in ByKey, NEW k \in Key,
         Routed(c, proxy, m, k)
  PROVE  CallIInv'
<1>1. /\ UNCHANGED <<service, ring, nodes, rows, edges, linked>> /\ pc[c] = "idle"
      /\ m \in Puts \cup Clears \/ m = "create_edge"
  BY DEF Routed, zk, data
<1>2. PICK L : L = list'[proxy]
  OBVIOUS
<1>3. PICK w : w = Width(m)
  OBVIOUS
<1>4. w \in {1, 2} /\ w \in Nat
  BY <1>3, WidthIs DEF CallIInv, CallTypes
<1>5. PICK v : v = Find(L, k, w)
  OBVIOUS
<1>6. /\ \E S : v \in Seq(S)
      /\ Len(v) = w /\ v # <<>> /\ \A i \in 1..w : v[i] = Place(L, k, i)
  <2>1. Len(<<>>) = 0
    OBVIOUS
  <2> QED BY <1>4, <1>5, <2>1, FindIs
<1> DEFINE b == L = ring /\ SameKey(k) = {}
<1>7. b \in BOOLEAN /\ (b => L = ring /\ SameKey(k) = {})
  OBVIOUS
<1>8. PICK new : new = [NoCall EXCEPT !.method = m, !.key = k, !.by = proxy, !.vnodes = v, !.settled = b]
  OBVIOUS
<1>9. Begin(c, k, new, "read")
  BY <1>2, <1>3, <1>5, <1>8 DEF Routed, Begin
<1> HIDE DEF b
<1>10. /\ new.method = m /\ new.key = k /\ new.at = None /\ new.vnodes = v /\ new.todo = <<>>
       /\ new.first = FALSE /\ new.failed = FALSE /\ new.settled = b
  BY <1>8 DEF NoCall
<1>11. IsCall(new)
  <2>1. <<>> \in Seq({})
    OBVIOUS
  <2> QED BY <1>6, <1>7, <1>8, <2>1 DEF IsCall, NoCall
<1>12. Len(<<>>) = 0 /\ 0 + w = w
  BY <1>4
<1>13. Shape("read", new)
  BY <1>1, <1>3, <1>6, <1>10, <1>12, Names DEF Shape, Aim, RowPuts
<1>14. Course("read", new)'
  <2> SUFFICES ASSUME b PROVE Course("read", new)'
    BY <1>10 DEF Course
  <2>1. \A i \in 1..w : v[i] = Place(ring, k, 0 + i)'
    <3>1. \A i \in 1..w : 0 + i = i /\ v[i] = Place(ring, k, i)
      BY <1>4, <1>6, <1>7
    <3> QED BY <1>1, <3>1, OwnersKept
  <2> QED BY <1>6, <1>10, <1>12, <2>1 DEF Course
<1>15. rows \in [Node -> SUBSET Key] /\ edges \in [Node -> SUBSET Key] /\ linked \subseteq Key
  BY DEF CallIInv, CallTypes
<1> HIDE DEF Begin
<1> QED BY <1>1, <1>7, <1>9, <1>10, <1>11, <1>13, <1>14, <1>15, BeginStep DEF Locations

(* A server creates a row. *)
LEMMA CreateStep ==
  ASSUME CallIInv, NEW c \in Caller, NEW n \in Node, NEW m \in Creates, Create(c, n, m)
  PROVE  CallIInv'
<1>1. UNCHANGED <<service, ring, nodes, rows, edges, linked>> /\ pc[c] = "idle" /\ nextId \in Key
  BY DEF Create, Generate, zk, data
<1>2. PICK k \in Key : k = nextId
  BY <1>1
<1>3. PICK v : v = FindFromCht(k)
  OBVIOUS
<1>4. /\ \E S : v \in Seq(S)
      /\ Len(v) = 2 /\ v # <<>> /\ \A i \in 1..2 : v[i] = Place(ring, k, i)
  <2>2. Len(<<>>) = 0
    OBVIOUS
  <2>3. v = Find(ring, k, 2)
    BY <1>3 DEF FindFromCht, Replicas
  <2>4. PICK w \in Nat : w = 2
    OBVIOUS
  <2>5. (\E S : v \in Seq(S)) /\ Len(v) = w /\ \A i \in 1..w : v[i] = Place(ring, k, i)
    BY <2>3, <2>4, FindIs
  <2>6. Len(v) = 2 /\ 2 # 0
    BY <2>4, <2>5
  <2>7. v # <<>>
    BY <2>2, <2>6
  <2>8. \A i \in 1..2 : v[i] = Place(ring, k, i)
    BY <2>4, <2>5
  <2> QED BY <2>5, <2>6, <2>7, <2>8
<1> DEFINE b == SameKey(k) = {}
<1>5. b \in BOOLEAN /\ (b => SameKey(k) = {})
  OBVIOUS
<1>6. PICK new : new = [NoCall EXCEPT !.method = m, !.key = k, !.at = n, !.vnodes = v,
                                      !.first = TRUE, !.settled = b]
  OBVIOUS
<1>7. Begin(c, k, new, "read")
  BY <1>2, <1>3, <1>6 DEF Create, Begin
<1> HIDE DEF b
<1>8. /\ new.method = m /\ new.key = k /\ new.at = n /\ new.vnodes = v /\ new.todo = <<>>
      /\ new.first = TRUE /\ new.failed = FALSE /\ new.settled = b
  BY <1>6 DEF NoCall
<1>9. IsCall(new)
  <2>1. <<>> \in Seq({})
    OBVIOUS
  <2> QED BY <1>4, <1>5, <1>6, <2>1 DEF IsCall, NoCall
<1>10. Len(<<>>) = 0 /\ 0 + 2 = 2 /\ n # None
  BY NameAssumption
<1>11. Shape("read", new)
  BY <1>4, <1>8, <1>10, Names DEF Shape, Aim, Replicas, RowPuts
<1>12. Course("read", new)'
  <2>1. \A i \in 1..2 : v[i] = Place(ring, k, 0 + i)'
    <3>1. \A i \in 1..2 : 0 + i = i /\ v[i] = Place(ring, k, i)
      BY <1>4
    <3> QED BY <1>1, <3>1, OwnersKept
  <2>2. m # "create_edge"
    BY Names
  <2>3. Len(new.todo) = 0 /\ Len(new.vnodes) = 2
    BY <1>4, <1>8, <1>10
  <2> QED BY <1>8, <2>1, <2>2, <2>3 DEF Course
<1>13. rows \in [Node -> SUBSET Key] /\ edges \in [Node -> SUBSET Key] /\ linked \subseteq Key
  BY DEF CallIInv, CallTypes
<1> HIDE DEF Begin
<1> QED BY <1>1, <1>5, <1>7, <1>8, <1>9, <1>11, <1>12, <1>13, BeginStep DEF Locations

(* A server removes a node. *)
LEMMA RemoveNodeStep ==
  ASSUME CallIInv, NEW c \in Caller, NEW n \in Node, NEW k \in Key, RemoveNode(c, n, k)
  PROVE  CallIInv'
<1>1. /\ UNCHANGED <<service, ring, nodes>> /\ pc[c] = "idle"
      /\ rows' = [rows EXCEPT ![n] = rows[n] \ {k}] /\ edges' = [edges EXCEPT ![n] = edges[n] \ {k}]
      /\ linked' = linked \ {k}
  BY DEF RemoveNode, zk
<1>2. PICK new : new = [NoCall EXCEPT !.method = "remove_node", !.key = k, !.at = n]
  OBVIOUS
<1>3. Begin(c, k, new, "members")
  BY <1>2 DEF RemoveNode, Begin
<1>4. /\ new.method = "remove_node" /\ new.key = k /\ new.at = n /\ new.vnodes = <<>> /\ new.todo = <<>>
      /\ new.first = FALSE /\ new.failed = FALSE /\ new.settled = FALSE
  BY <1>2 DEF NoCall
<1>5. IsCall(new)
  <2>1. <<>> \in Seq({})
    OBVIOUS
  <2> QED BY <1>2, <2>1 DEF IsCall, NoCall
<1>6. Shape("members", new) /\ Course("members", new)'
  BY <1>4, Names DEF Shape, Course, RowPuts
<1>7. rows \in [Node -> SUBSET Key] /\ edges \in [Node -> SUBSET Key] /\ linked \subseteq Key
  BY DEF CallIInv, CallTypes
<1>8. /\ rows' \in [Node -> SUBSET Key] /\ edges' \in [Node -> SUBSET Key] /\ linked' \subseteq Key
      /\ \A o \in Node, j \in Key : j # k => /\ j \in rows'[o] <=> j \in rows[o]
                                             /\ j \in edges'[o] <=> j \in edges[o]
      /\ \A j \in Key : j # k => (j \in linked' <=> j \in linked)
      /\ k \notin linked'
  BY <1>1, <1>7
<1> HIDE DEF Begin
<1> QED BY <1>1, <1>3, <1>4, <1>5, <1>6, <1>8, BeginStep DEF Locations

(* The servers come and go. *)
LEMMA RegisterNodeStep ==
  ASSUME CallIInv, NEW n, NEW i, RegisterNode(n, i)
  PROVE  CallIInv'
<1>1. /\ UNCHANGED <<service, nodes, rows, edges>> /\ pc' = pc
      /\ answered' = {} /\ linked' = {} /\ placed' = [k \in Key |-> "unknown"]
      /\ call' = Unsettle(Caller)
  BY DEF RegisterNode, RingChanges, data
<1>2. /\ nodes \subseteq Node /\ pc = [c \in Caller |-> pc[c]] /\ call = [c \in Caller |-> call[c]]
      /\ rows \in [Node -> SUBSET Key] /\ edges \in [Node -> SUBSET Key]
  BY DEF CallIInv, CallTypes
<1>3. call' = [c \in Caller |-> [call[c] EXCEPT !.settled = FALSE]]
  BY <1>1 DEF Unsettle
<1>4. /\ pc' = [c \in Caller |-> pc'[c]] /\ call' = [c \in Caller |-> call'[c]]
      /\ \A c \in Caller : pc'[c] = pc[c] /\ call'[c] = [call[c] EXCEPT !.settled = FALSE]
  BY <1>1, <1>2, <1>3
<1> QED BY <1>1, <1>2, <1>4, RingStep

(* The calls a server was running end when it dies, the others are         *)
(* unsettled.                                                              *)
LEMMA ServerDiesStep ==
  ASSUME CallIInv, NEW n \in Node, ServerDies(n)
  PROVE  CallIInv'
<1>1. /\ UNCHANGED service /\ nodes' \subseteq nodes
      /\ answered' = {} /\ linked' = {} /\ placed' = [k \in Key |-> "unknown"]
      /\ rows' = [rows EXCEPT ![n] = {}] /\ edges' = [edges EXCEPT ![n] = {}]
      /\ pc' = [c \in Caller |-> IF call[c].at = n THEN "idle" ELSE pc[c]]
      /\ call' = [c \in Caller |-> IF call[c].at = n THEN NoCall ELSE Unsettle(Caller)[c]]
  BY DEF ServerDies, RingChanges, NodesChange
<1>2. /\ nodes \subseteq Node
      /\ rows \in [Node -> SUBSET Key] /\ edges \in [Node -> SUBSET Key]
  BY DEF CallIInv, CallTypes
<1>3. /\ nodes' \subseteq Node
      /\ rows' \in [Node -> SUBSET Key] /\ edges' \in [Node -> SUBSET Key]
      /\ pc' = [c \in Caller |-> pc'[c]] /\ call' = [c \in Caller |-> call'[c]]
      /\ \A c \in Caller :
           \/ pc'[c] = "idle" /\ call'[c] = NoCall
           \/ pc'[c] = pc[c] /\ call'[c] = [call[c] EXCEPT !.settled = FALSE]
  BY <1>1, <1>2 DEF Unsettle
<1> QED BY <1>1, <1>3, RingStep

(* A step that no call and no row is part of. *)
LEMMA OtherStep ==
  ASSUME CallIInv, nodes' \subseteq Node,
         UNCHANGED <<service, ring, rows, edges, pc, call, answered, placed, linked>>
  PROVE  CallIInv'
<1>1. ASSUME NEW c \in Caller PROVE IsCall(call[c])' /\ Shape(pc[c], call[c])' /\ Course(pc[c], call[c])'
  <2>1. PICK p, r : p = pc[c] /\ r = call[c]
    OBVIOUS
  <2>2. IsCall(r) /\ Shape(p, r) /\ Course(p, r)
    BY <2>1 DEF CallIInv, CallTypes
  <2>3. Shape(p, r)' /\ Course(p, r)'
    BY <2>2, ShapeKept, CourseKept
  <2>4. pc'[c] = p /\ call'[c] = r
    BY <2>1
  <2> QED BY <2>2, <2>3, <2>4, ShapeAfter, CourseAfter DEF IsCall
<1>2. CallTypes'
  BY <1>1 DEF CallIInv, CallTypes, IsCall
<1>3. Alone' /\ \A k : \A c \in Caller : Active(c, k)' <=> Active(c, k)
  BY DEF CallIInv, Alone, Active
<1>4. ASSUME NEW k \in Key PROVE Known(k)'
  <2>1. Known(k)
    BY DEF CallIInv
  <2> QED BY <1>3, <2>1, KnownKept
<1> QED BY <1>1, <1>2, <1>3, <1>4 DEF CallIInv

(* It holds at first. *)
LEMMA CallInit == ASSUME Init PROVE CallIInv
<1>1. /\ nodes = up /\ ring = VNodesOf(up) /\ up \subseteq Node /\ service \in DOMAIN Services
      /\ rows = [n \in Node |-> {}] /\ edges = [n \in Node |-> {}]
      /\ pc = [c \in Caller |-> "idle"] /\ call = [c \in Caller |-> NoCall]
      /\ answered = {} /\ linked = {} /\ placed = [k \in Key |-> "gone"]
  <2>1. PICK sc \in Scenarios : service = sc.service /\ up = sc.running
    BY DEF Init
  <2> QED BY <2>1, ScenarioAssumption DEF Init
<1>2. \A c \in Caller : pc[c] = "idle" /\ call[c] = NoCall
  BY <1>1
<1>3. CallTypes
  <2>1. /\ rows \in [Node -> SUBSET Key] /\ edges \in [Node -> SUBSET Key]
        /\ placed \in [Key -> {"here", "gone", "unknown"}]
    BY <1>1
  <2>2. pc \in [Caller -> {"idle", "list", "read", "send", "local", "members", "tell"}]
    BY <1>1
  <2>3. call = [c \in Caller |-> call[c]] /\ \A c \in Caller : IsCall(call[c])
    BY <1>1, NoCallIs
  <2> QED BY <1>1, <2>1, <2>2, <2>3 DEF CallTypes
<1>4. /\ \A c \in Caller : Shape(pc[c], call[c]) /\ Course(pc[c], call[c])
      /\ Alone
  BY <1>2, NoCallIs DEF Alone
<1>5. ASSUME NEW k \in Key PROVE Known(k)
  <2>1. placed[k] = "gone" /\ k \notin answered /\ k \notin linked /\ \A c \in Caller : ~Active(c, k)
    BY <1>1, <1>2 DEF Active
  <2>2. ASSUME ring # {}, NEW m \in Asks, NEW i \in 1..Width(m)
        PROVE  OwnerAt(k, i) \in Node /\ k \notin rows[OwnerAt(k, i)]
    <3>1. i \in Nat \ {0}
      BY <1>1, WidthIs
    <3>2. ring \in SUBSET VNode
      BY <1>1 DEF VNodesOf
    <3>3. OwnerAt(k, i) \in Node
      BY <2>2, <3>1, <3>2, PlaceOnRing DEF OwnerAt
    <3> QED BY <1>1, <3>3
  <2> QED BY <2>1, <2>2 DEF Known
<1> QED BY <1>3, <1>4, <1>5 DEF CallIInv

(* And every step keeps it. *)
LEMMA CallNext == ASSUME CallIInv, [Next]_vars PROVE CallIInv'
<1>1. ASSUME NEW n \in Node, NEW i \in 1..NumVServ, RegisterNode(n, i) PROVE CallIInv'
  BY <1>1, RegisterNodeStep
<1>2. ASSUME NEW n \in Node, RegisterActor(n) PROVE CallIInv'
  <2>1. nodes' \subseteq Node
    BY <1>2 DEF RegisterActor, NodesChange, CallIInv, CallTypes
  <2> QED BY <1>2, <2>1, OtherStep DEF RegisterActor, data, calls, history
<1>3. ASSUME NEW n \in Node, ServerDies(n) PROVE CallIInv'
  BY <1>3, ServerDiesStep
<1>4. nodes \subseteq Node
  BY DEF CallIInv, CallTypes
<1>5. ASSUME NEW n \in Node, Rehash(n) \/ Rebind(n) \/ AddDocuments(n) PROVE CallIInv'
  <2>1. UNCHANGED <<service, zk, data, calls, history>>
    BY <1>5 DEF Rehash, Rebind, AddDocuments
  <2> QED BY <1>4, <2>1, OtherStep DEF zk, data, calls, history
<1>6. ASSUME NEW p \in Proxy, Reload(p) \/ SessionEvent(p) \/ \E v \in VNode : Forget(p, v) PROVE CallIInv'
  <2>1. UNCHANGED <<service, zk, data, calls, history>>
    BY <1>6 DEF Reload, SessionEvent, Forget
  <2> QED BY <1>4, <2>1, OtherStep DEF zk, data, calls, history
<1>7. ASSUME NEW c \in Caller, NEW p \in Proxy, NEW m \in ByKey, NEW k \in Key, Routed(c, p, m, k) PROVE CallIInv'
  BY <1>7, RoutedStep
<1>8. ASSUME NEW c \in Caller, NEW n \in Node, NEW m \in Creates, Create(c, n, m) PROVE CallIInv'
  BY <1>8, CreateStep
<1>9. ASSUME NEW c \in Caller, NEW n \in Node, NEW k \in Key, RemoveNode(c, n, k) PROVE CallIInv'
  BY <1>9, RemoveNodeStep
<1>10. ASSUME NEW c \in Caller, Steps(c) PROVE CallIInv'
  BY <1>10, ReadStep, ListEdgeStep, LocalEdgeStep, DeliverStep, LoseStep, MembersStep, TellStep DEF Steps
<1>11. CASE UNCHANGED vars
  <2>1. UNCHANGED <<service, zk, data, calls, history>>
    BY <1>11 DEF vars
  <2> QED BY <1>4, <2>1, OtherStep DEF zk, data, calls, history
<1> QED BY <1>1, <1>2, <1>3, <1>5, <1>6, <1>7, <1>8, <1>9, <1>10, <1>11 DEF Next

(* Every state of the system has the invariant of calls. *)
LEMMA Calls == Spec => []CallIInv
<1>1. Init => CallIInv
  BY CallInit
<1>2. CallIInv /\ [Next]_vars => CallIInv'
  BY CallNext
<1> QED BY <1>1, <1>2, PTL DEF Spec

(* The servers a search names are those of the first places on the ring. *)
LEMMA OwnersAre ==
  ASSUME NEW k, NEW w \in Nat, NEW n \in OwnersIn(ring, k, w)
  PROVE  ring # {} /\ \E i \in 1..w : n = OwnerAt(k, i)
<1>1. ring # {}
  BY DEF OwnersIn
<1>2. \A o \in OwnersIn(ring, k, w) : \E i \in 1..w : o = Owner(Place(ring, k, i))
  BY FindIs
<1> QED BY <1>1, <1>2 DEF OwnerAt

(* A row that a call has put without a failure since the ring last changed *)
(* is on every server that a query asks for it, and a row that was cleared *)
(* is on none, whatever the proxies have cached (proxy_common.cpp,         *)
(* cht.cpp).                                                               *)
THEOREM RowsAreFound == Spec => []PlacedFound
<1>1. ASSUME CallIInv PROVE PlacedFound
  <2> SUFFICES ASSUME NEW k \in Key, NEW m \in Asks, NEW n \in OwnersIn(ring, k, Width(m))
               PROVE  /\ placed[k] = "here" => k \in rows[n]
                      /\ placed[k] = "gone" => k \notin rows[n]
    BY DEF PlacedFound
  <2>1. Width(m) \in Nat
    BY <1>1, WidthIs DEF CallIInv, CallTypes
  <2>2. ring # {} /\ \E i \in 1..Width(m) : n = OwnerAt(k, i)
    BY <2>1, OwnersAre
  <2>3. Known(k)
    BY <1>1 DEF CallIInv
  <2> QED BY <2>2, <2>3 DEF Known
<1> QED BY <1>1, Calls, PTL

(* An edge whose creation did not fail is on every server that get_node    *)
(* asks for its source, though create_edge looks for the servers again     *)
(* (graph_serv.cpp).                                                       *)
THEOREM EdgesAreFound == Spec => []LinkedFound
<1>1. ASSUME CallIInv PROVE LinkedFound
  <2> SUFFICES ASSUME NEW k \in linked, NEW n \in OwnersIn(ring, k, Width("get_node")) PROVE k \in edges[n]
    BY DEF LinkedFound
  <2>1. Width("get_node") \in {0, 1, 2} /\ k \in Key
    BY <1>1, WidthIs DEF CallIInv, CallTypes
  <2>2. PICK i \in 1..Width("get_node") : n = OwnerAt(k, i)
    BY <2>1, OwnersAre
  <2>3. i \in 1..2
    BY <2>1
  <2>4. Known(k)
    BY <1>1, <2>1 DEF CallIInv
  <2> QED BY <2>2, <2>3, <2>4 DEF Known, Replicas
<1> QED BY <1>1, Calls, PTL

(* A row whose creation was answered is on the first server for its id     *)
(* until the ring changes ("this sequences MUST success").                 *)
THEOREM AnsweredRowsAreHeld == Spec => []AnsweredHeld
<1>1. ASSUME CallIInv PROVE AnsweredHeld
  <2> SUFFICES ASSUME NEW k \in answered, NEW n \in OwnersIn(ring, k, 1) PROVE k \in rows[n]
    BY DEF AnsweredHeld
  <2>1. k \in Key /\ Known(k)
    BY <1>1 DEF CallIInv, CallTypes
  <2>2. PICK i \in 1..1 : n = OwnerAt(k, i)
    BY OwnersAre
  <2>3. i = 1
    OBVIOUS
  <2> QED BY <2>1, <2>2, <2>3 DEF Known
<1> QED BY <1>1, Calls, PTL

=============================================================================
