--------------------------- MODULE ServingProofs ---------------------------
(***************************************************************************)
(* Proofs about Serving for any number of RPC threads, any scenarios of    *)
(* the twelve services and any bounds: no two threads meet in a driver     *)
(* that does not lock itself, what waits to be mixed is counted, what a    *)
(* save answered for is in the file, what comes out of a file is a model,  *)
(* and a standalone server's new rows get new ids.                         *)
(***************************************************************************)
EXTENDS Serving, TLAPS, WellFoundedInduction

(* The methods every service has beside those of its tables.               *)
CommonMethods == {"get_config", "save", "load", "get_status"}

(* What the tables of a service promise: a method that looks after itself   *)
(* runs under NOLOCK_, and, unless the core driver locks itself, a method   *)
(* that changes the model runs under the write lock or looks after itself.  *)
ServiceFits(s) ==
  LET locks == Services[s].locks
      effects == Services[s].effects IN
  \A m \in DOMAIN locks :
    /\ m \notin CommonMethods
    /\ locks[m] \in {"R", "W", "N"}
    /\ effects[m] \in {"read", "change", "counted", "quiet", "late"}
    /\ effects[m] \in {"counted", "quiet", "late"} => locks[m] = "N"
    /\ m \in Creators => effects[m] \in {"counted", "quiet"}
    /\ s \notin SelfLocked =>
         /\ effects[m] # "late"
         /\ locks[m] = "N" => effects[m] \in {"counted", "quiet"}
         /\ effects[m] = "change" => locks[m] = "W"

(* All twelve services keep the promise, by going through their tables.     *)
LEMMA TablesFit == \A s \in DOMAIN Services : ServiceFits(s)
<1> USE DEF ServiceFits, Services, SelfLocked, CommonMethods, Creators, Each, ++
<1>1. ServiceFits("anomaly")
  BY DEF AnomalyLocks, AnomalyEffects
<1>2. ServiceFits("bandit")
  BY DEF BanditLocks, BanditEffects
<1>3. ServiceFits("burst")
  BY DEF BurstLocks, BurstEffects, BurstReads
<1>4. ServiceFits("classifier")
  BY DEF ClassifierLocks, ClassifierEffects
<1>5. ServiceFits("clustering")
  BY DEF ClusteringLocks, ClusteringEffects, ClusteringReads
<1>6. ServiceFits("graph")
  <2>1. Services["graph"].locks = GraphLocks /\ Services["graph"].effects = GraphEffects
    OBVIOUS
  <2> HIDE DEF Services
  <2>2. DOMAIN GraphLocks
          = {"create_node", "remove_node", "create_edge"} \cup GraphReads \cup GraphUpdates
              \cup GraphQueries \cup GraphInternal
    BY DEF GraphLocks
  <2>3. \A m \in GraphReads : GraphLocks[m] = "R" /\ GraphEffects[m] = "read"
    BY DEF GraphLocks, GraphEffects, GraphReads, GraphUpdates, GraphQueries, GraphInternal
  <2>4. \A m \in GraphUpdates : GraphLocks[m] = "W" /\ GraphEffects[m] = "change"
    BY DEF GraphLocks, GraphEffects, GraphReads, GraphUpdates, GraphQueries, GraphInternal
  <2>5. \A m \in GraphQueries \cup GraphInternal : GraphLocks[m] = "W" /\ GraphEffects[m] = "change"
    BY DEF GraphLocks, GraphEffects, GraphReads, GraphUpdates, GraphQueries, GraphInternal
  <2>6. /\ GraphLocks["create_node"] = "N" /\ GraphEffects["create_node"] = "quiet"
        /\ GraphLocks["create_edge"] = "N" /\ GraphEffects["create_edge"] = "quiet"
        /\ GraphLocks["remove_node"] = "N" /\ GraphEffects["remove_node"] = "counted"
    BY DEF GraphLocks, GraphEffects, GraphReads, GraphUpdates, GraphQueries, GraphInternal
  <2> HIDE DEF ++, Each
  <2> QED BY <2>1, <2>2, <2>3, <2>4, <2>5, <2>6
        DEF GraphReads, GraphUpdates, GraphQueries, GraphInternal
<1>7. ServiceFits("nearest_neighbor")
  BY DEF NeighborLocks, NeighborEffects, NeighborQueries
<1>8. ServiceFits("recommender")
  BY DEF RecommenderLocks, RecommenderEffects, RecommenderByRow, RecommenderByDatum
<1>9. ServiceFits("regression")
  BY DEF RegressionLocks, RegressionEffects
<1>10. ServiceFits("stat")
  BY DEF StatLocks, StatEffects, StatReads
<1>11. ServiceFits("weight")
  BY DEF WeightLocks, WeightEffects
<1>12. ServiceFits("kvs")
  BY DEF KvsLocks, KvsEffects
<1> HIDE DEF ServiceFits
<1>13. DOMAIN Services = {"anomaly", "bandit", "burst", "classifier", "clustering", "graph",
                          "nearest_neighbor", "recommender", "regression", "stat", "weight",
                          "kvs"}
  OBVIOUS
<1> HIDE DEF Services
<1> QED BY <1>1, <1>2, <1>3, <1>4, <1>5, <1>6, <1>7, <1>8, <1>9, <1>10, <1>11, <1>12, <1>13

-----------------------------------------------------------------------------
(* The threads, what they run, and the lock.                               *)

Effects == {"none", "read", "change", "counted", "quiet", "late", "save", "load",
            "get_diff", "put_diff"}
Ops == [lock : {"none", "R", "W", "N"}, effect : Effects, creates : BOOLEAN, clears : BOOLEAN]
Holding == {"driver", "open", "flock", "write", "reset"}

(* The lock of an operation is the one its effect needs.                   *)
Fits(o) ==
  /\ o.lock = "none" <=> o.effect = "none"
  /\ o.effect \in {"save", "get_diff"} => o.lock = "R"
  /\ o.effect \in {"load", "put_diff"} => o.lock = "W"
  /\ o.effect \in {"counted", "quiet", "late"} => o.lock = "N"
  /\ o.creates => o.effect \in {"counted", "quiet"}
  /\ cluster.service \notin SelfLocked =>
       /\ o.effect # "late"
       /\ o.lock = "N" => o.effect \in {"counted", "quiet"}
       /\ o.effect = "change" => o.lock = "W"

(* The types of what the control of a thread depends on.                   *)
WorkTyped ==
  /\ cluster.service \in DOMAIN Services /\ cluster.standalone \in BOOLEAN
  /\ cluster.methods \subseteq MethodsOf(cluster.service)
  /\ up \in BOOLEAN
  /\ pc \in [Worker -> Locations] /\ op \in [Worker -> Ops]
  /\ readers \subseteq Worker /\ writer \subseteq Worker

(* Clients never run the calls of the mixer, and the mixer runs no other.   *)
OpsFit ==
  /\ \A t \in Worker : Fits(op[t])
  /\ \A t \in Thread : op[t].effect \notin {"get_diff", "put_diff"}
  /\ op["mixer"].effect \in {"none", "get_diff", "put_diff"}

(* Where a thread is tells what it runs.                                    *)
Placed ==
  \A t \in Worker :
    /\ pc[t] = "idle" <=> op[t] = NoOp
    /\ pc[t] # "idle" => up /\ op[t].effect # "none"
    /\ pc[t] \in {"open", "flock", "write"} => op[t].effect = "save"
    /\ pc[t] = "reset" => op[t].effect = "load"
    /\ pc[t] = "bare" =>
         op[t].effect = "late" \/ (op[t].lock = "N" /\ op[t].effect \in {"read", "change"})
    /\ pc[t] = "driver" => op[t].effect \notin {"save", "late"}

(* Who is past the lock holds it in the mode of its method, and rw_mutex_   *)
(* has one writer or any number of readers.                                *)
Locked ==
  /\ \A t \in Worker : pc[t] \in Holding => IF Mode(t) = "W" THEN writer = {t} ELSE t \in readers
  /\ writer # {} => readers = {}
  /\ \A t \in readers \cup writer : pc[t] \in Holding
  /\ \A t, u \in writer : t = u

(* The part of the invariant that DriverExclusion follows from.             *)
Control == WorkTyped /\ OpsFit /\ Placed /\ Locked

(* What a client may call is an operation whose lock fits its effect.       *)
LEMMA OpFits ==
  ASSUME WorkTyped, NEW m \in cluster.methods
  PROVE  /\ OpOf(m) \in Ops /\ Fits(OpOf(m))
         /\ OpOf(m).effect \notin {"none", "get_diff", "put_diff"}
         /\ OpOf(m).creates <=> m \in Creators
<1> DEFINE s == cluster.service
           l == Lock(s, m)
           e == OpOf(m).effect
<1>1. ServiceFits(s)
  BY TablesFit DEF WorkTyped
<1>2. CommonLocks = [x \in {"get_config", "save", "get_status", "load"} |->
                       IF x = "load" THEN "W" ELSE "R"]
  BY DEF CommonLocks, Each, ++
<1>3. /\ OpOf(m) = [lock |-> l, effect |-> e, creates |-> m \in Creators, clears |-> m = "clear"]
      /\ e = IF m \in {"save", "load"} THEN m
             ELSE IF m \in {"get_config", "get_status"} THEN "read" ELSE Effect(s, m)
  BY DEF OpOf
<1>4. /\ l \in {"R", "W", "N"}
      /\ e \in {"read", "change", "counted", "quiet", "late", "save", "load"}
      /\ e = "save" => l = "R"
      /\ e = "load" => l = "W"
      /\ e \in {"counted", "quiet", "late"} => l = "N"
      /\ m \in Creators => e \in {"counted", "quiet"}
      /\ s \notin SelfLocked =>
           /\ e # "late"
           /\ l = "N" => e \in {"counted", "quiet"}
           /\ e = "change" => l = "W"
  <2> HIDE DEF e
  <2>1. CASE m \in CommonMethods
    <3>1. m \notin DOMAIN Services[s].locks
      BY <1>1, <2>1 DEF ServiceFits
    <3>2. l = IF m = "load" THEN "W" ELSE "R"
      BY <1>2, <2>1, <3>1 DEF Lock, ++, CommonMethods
    <3> HIDE DEF l
    <3>3. e = IF m \in {"save", "load"} THEN m ELSE "read"
      BY <1>3, <2>1 DEF CommonMethods
    <3> QED BY <2>1, <3>2, <3>3 DEF CommonMethods, Creators
  <2>2. CASE m \in DOMAIN Services[s].locks
    <3>1. m \notin CommonMethods
      BY <1>1, <2>2 DEF ServiceFits
    <3>2. l = Services[s].locks[m]
      BY <2>2 DEF Lock, ++
    <3>3. e = Services[s].effects[m]
      BY <1>3, <3>1 DEF CommonMethods, Effect
    <3> HIDE DEF l
    <3> QED BY <1>1, <2>2, <3>2, <3>3 DEF ServiceFits
  <2>3. m \in CommonMethods \/ m \in DOMAIN Services[s].locks
    BY DEF WorkTyped, MethodsOf, CommonMethods
  <2> QED BY <2>1, <2>2, <2>3
<1> HIDE DEF l, e
<1>5. PICK o : o = OpOf(m)
  OBVIOUS
<1>6. o = [lock |-> l, effect |-> e, creates |-> m \in Creators, clears |-> m = "clear"]
  BY <1>3, <1>5
<1>7. o.lock = l /\ o.effect = e /\ (o.creates <=> m \in Creators)
  BY <1>6
<1>8. o \in Ops
  BY <1>4, <1>6 DEF Ops, Effects
<1>9. Fits(o)
  BY <1>4, <1>7 DEF Fits
<1> QED BY <1>4, <1>5, <1>7, <1>8, <1>9

-----------------------------------------------------------------------------
(* A thread at rest runs nothing, which fits too.                           *)
LEMMA NoOpFits == NoOp \in Ops /\ Fits(NoOp) /\ NoOp.effect = "none" /\ ~NoOp.creates
  BY DEF NoOp, Ops, Effects, Fits

(* A method that returns, or throws, gives back what it holds.              *)
LEMMA ReturnControl ==
  ASSUME Control, NEW t \in Worker, Return(t), UNCHANGED <<cluster, up>>
  PROVE  Control'
<1> USE DEF Control, Return
<1>1. WorkTyped'
  BY NoOpFits DEF WorkTyped, Locations
<1>2. OpsFit'
  BY NoOpFits DEF WorkTyped, OpsFit, Fits, Worker
<1>3. Placed'
  BY NoOpFits DEF WorkTyped, Placed
<1>4. Locked'
  BY DEF WorkTyped, Locked, Mode, Holding
<1> QED BY <1>1, <1>2, <1>3, <1>4

(* A thread that goes on under the lock it has keeps it.                    *)
LEMMA GotoControl ==
  ASSUME Control, NEW t \in Worker, NEW l \in Holding, pc[t] \in Holding, Goto(t, l),
         UNCHANGED <<cluster, up, op, lock>>,
         l \in {"flock", "write"} => op[t].effect = "save",
         l = "reset" => op[t].effect = "load",
         l \notin {"open", "driver"}
  PROVE  Control'
<1> USE DEF Control, Goto, lock
<1>1. WorkTyped'
  BY DEF WorkTyped, Locations, Holding
<1>2. OpsFit'
  BY DEF OpsFit, Fits
<1>3. Placed'
  BY DEF WorkTyped, Placed, Holding
<1>4. Locked'
  BY DEF WorkTyped, Locked, Mode, Holding
<1> QED BY <1>1, <1>2, <1>3, <1>4

(* A call starts outside the lock.                                          *)
LEMMA CallControl ==
  ASSUME Control, NEW t \in Thread, NEW m \in cluster.methods, Call(t, m)
  PROVE  Control'
<1> USE DEF Control, Call, Goto
<1>1. PICK o : o = OpOf(m)
  OBVIOUS
<1>2. /\ o \in Ops /\ Fits(o)
      /\ o.effect \notin {"none", "get_diff", "put_diff"}
  BY <1>1, OpFits
<1>3. PICK l \in {"bare", "wait"} :
        /\ pc' = [pc EXCEPT ![t] = l]
        /\ l = "bare" => o.lock = "N" /\ o.effect \in {"read", "change"}
  BY <1>1
<1>4. /\ op' = [op EXCEPT ![t] = o] /\ up /\ pc[t] = "idle" /\ t \in Worker
      /\ UNCHANGED <<cluster, up, readers, writer>>
  BY <1>1 DEF fixed, lock, Worker
<1> HIDE DEF Call
<1>5. WorkTyped'
  BY <1>2, <1>3, <1>4 DEF WorkTyped, Locations
<1>6. OpsFit'
  BY <1>2, <1>4, ServingAssumption DEF WorkTyped, OpsFit, Fits, Worker
<1>7. Placed'
  BY <1>2, <1>3, <1>4, NoOpFits DEF WorkTyped, Placed
<1>8. Locked'
  BY <1>3, <1>4 DEF WorkTyped, Locked, Mode, Holding
<1> QED BY <1>5, <1>6, <1>7, <1>8

(* Nobody is in when a writer enters, and no writer is when a reader does.   *)
LEMMA EnterControl ==
  ASSUME Control, NEW t \in Worker, Enter(t)
  PROVE  Control'
<1>1. PICK l \in {"open", "driver"} :
        /\ pc' = [pc EXCEPT ![t] = l]
        /\ l = "open" <=> op[t].effect = "save"
  BY DEF Enter, Goto
<1>2. /\ pc[t] = "wait" /\ op[t].effect # "late"
      /\ UNCHANGED <<cluster, up, op>>
  BY DEF Enter, fixed
<1>3. /\ writer = {} /\ (Mode(t) = "W" => readers = {})
      /\ IF Mode(t) = "W" THEN writer' = {t} /\ readers' = readers
         ELSE readers' = readers \cup {t} /\ writer' = writer
  BY DEF Enter, Hold, Free
<1> USE DEF Control
<1>4. WorkTyped'
  BY <1>1, <1>2, <1>3 DEF WorkTyped, Locations
<1>5. OpsFit'
  BY <1>2 DEF OpsFit, Fits
<1>6. Placed'
  BY <1>1, <1>2 DEF WorkTyped, Placed
<1>7. Locked'
  BY <1>1, <1>2, <1>3 DEF WorkTyped, Locked, Mode, Holding
<1> QED BY <1>4, <1>5, <1>6, <1>7

(* classifier_serv has given the lock back when it goes on.                 *)
LEMMA TellFirstControl ==
  ASSUME Control, NEW t \in Worker, TellFirst(t)
  PROVE  Control'
<1> USE DEF Control, TellFirst, Goto, fixed, lock
<1>1. WorkTyped'
  BY DEF WorkTyped, Locations
<1>2. OpsFit'
  BY DEF OpsFit, Fits
<1>3. Placed'
  BY DEF WorkTyped, Placed
<1>4. Locked'
  BY DEF WorkTyped, Locked, Mode, Holding
<1> QED BY <1>1, <1>2, <1>3, <1>4

(* The two calls of the mixer fit as well.                                  *)
LEMMA MixerOps ==
  /\ Internal("R", "get_diff") \in Ops /\ Fits(Internal("R", "get_diff"))
  /\ Internal("W", "put_diff") \in Ops /\ Fits(Internal("W", "put_diff"))
  /\ Internal("R", "get_diff").effect = "get_diff" /\ Internal("W", "put_diff").effect = "put_diff"
  /\ Internal("R", "get_diff") # NoOp /\ Internal("W", "put_diff") # NoOp
  BY DEF Internal, NoOp, Ops, Effects, Fits

(* A request for the diff waits for the lock.                               *)
LEMMA AskDiffControl ==
  ASSUME Control, NEW own \in BOOLEAN, AskDiff(own)
  PROVE  Control'
<1> DEFINE o == Internal("R", "get_diff")
<1> USE DEF Control, AskDiff, Goto, fixed, lock
<1>1. o \in Ops /\ Fits(o) /\ o.effect = "get_diff" /\ o # NoOp
  BY MixerOps
<1>2. /\ pc' = [pc EXCEPT !["mixer"] = "wait"] /\ op' = [op EXCEPT !["mixer"] = o]
      /\ up /\ pc["mixer"] = "idle" /\ "mixer" \in Worker
  BY DEF Worker
<1> HIDE DEF o
<1>3. WorkTyped'
  BY <1>1, <1>2 DEF WorkTyped, Locations
<1>4. OpsFit'
  BY <1>1, <1>2, ServingAssumption DEF WorkTyped, OpsFit, Fits, Worker
<1>5. Placed'
  BY <1>1, <1>2 DEF WorkTyped, Placed
<1>6. Locked'
  BY <1>2 DEF WorkTyped, Locked, Mode, Holding
<1> QED BY <1>3, <1>4, <1>5, <1>6

(* Between get_diff and put_diff the mixer holds nothing.                   *)
LEMMA GetDiffControl ==
  ASSUME Control, GetDiff
  PROVE  Control'
<1> DEFINE o == Internal("W", "put_diff")
<1> USE DEF Control, GetDiff, Goto, fixed
<1>1. o \in Ops /\ Fits(o) /\ o.effect = "put_diff" /\ o # NoOp
  BY MixerOps
<1>2. /\ pc' = [pc EXCEPT !["mixer"] = "wait"] /\ op' = [op EXCEPT !["mixer"] = o]
      /\ pc["mixer"] = "driver" /\ op["mixer"].effect = "get_diff" /\ "mixer" \in Worker
  BY DEF Worker
<1> HIDE DEF o
<1>3. WorkTyped'
  BY <1>1, <1>2 DEF WorkTyped, Locations
<1>4. OpsFit'
  BY <1>1, <1>2, ServingAssumption DEF WorkTyped, OpsFit, Fits, Worker
<1>5. Placed'
  BY <1>1, <1>2 DEF WorkTyped, Placed
<1>6. Locked'
  <2>1. Mode("mixer") # "W"
    BY <1>2 DEF OpsFit, Fits, Mode
  <2> QED BY <1>2, <2>1 DEF WorkTyped, Locked, Mode, Holding
<1> QED BY <1>3, <1>4, <1>5, <1>6

(* A process that died holds nothing.                                       *)
LEMMA DiesControl ==
  ASSUME Control, Dies
  PROVE  Control'
<1> USE DEF Control, Dies
<1>1. WorkTyped'
  BY NoOpFits DEF WorkTyped, Locations
<1>2. OpsFit'
  BY NoOpFits DEF WorkTyped, OpsFit, Fits, Worker
<1>3. Placed' /\ Locked'
  BY NoOpFits DEF Placed, Locked, Holding
<1> QED BY <1>1, <1>2, <1>3

(* Every step keeps the control part of the invariant.                      *)
LEMMA ControlStep == Control /\ [Next]_vars => Control'
<1> SUFFICES ASSUME Control, [Next]_vars PROVE Control'
  OBVIOUS
<1> USE DEF fixed, lock, work
<1>1. ASSUME NEW t \in Worker, Server(t) PROVE Control'
  <2>1. CASE Enter(t) \/ TellFirst(t)
    BY <2>1, EnterControl, TellFirstControl
  <2>2. CASE Work(t) \/ PutDiff \/ MixFails \/ FlockFails(t) \/ Close(t) \/ LoadThrows(t) \/ ResetIds(t)
    <3>1. \/ Return(t) /\ UNCHANGED <<cluster, up>>
          \/ Return("mixer") /\ UNCHANGED <<cluster, up>>
      BY <2>2 DEF Work, PutDiff, MixFails, FlockFails, Close, LoadThrows, ResetIds, Leave
    <3> QED BY <3>1, ReturnControl DEF Worker
  <2>3. CASE Open(t)
    BY <2>3, GotoControl DEF Open, Control, Placed, Holding
  <2>4. CASE Flock(t)
    BY <2>4, GotoControl DEF Flock, Control, Placed, Holding
  <2>5. CASE Load(t)
    BY <2>5, GotoControl DEF Load, Control, Placed, Holding
  <2>6. CASE \E amount \in {"part", "all"} : Write(t, amount)
    <3>1. UNCHANGED <<cluster, up, pc, op, readers, writer>>
      BY <2>6 DEF Write
    <3> QED BY <3>1 DEF Control, WorkTyped, OpsFit, Fits, Placed, Locked, Mode
  <2>7. CASE GetDiff
    BY <2>7, GetDiffControl
  <2> QED BY <1>1, <2>1, <2>2, <2>3, <2>4, <2>5, <2>6, <2>7 DEF Server
<1>2. ASSUME NEW t \in Thread, NEW m \in cluster.methods, Call(t, m) PROVE Control'
  BY <1>2, CallControl
<1>3. ASSUME NEW own \in BOOLEAN, AskDiff(own) PROVE Control'
  BY <1>3, AskDiffControl
<1>4. ASSUME NEW t \in Thread, WriteFails(t) PROVE Control'
  BY <1>4, ReturnControl DEF WriteFails, Leave, Worker
<1>5. CASE Crash \/ GetDiffDies
  BY <1>5, DiesControl DEF Crash, GetDiffDies
<1>6. ASSUME NEW c \in Configs, Restart(c) PROVE Control'
  <2>1. /\ UNCHANGED <<cluster, pc, op, readers, writer>> /\ up' = TRUE
    BY <1>6 DEF Restart
  <2> QED BY <2>1 DEF Control, WorkTyped, OpsFit, Fits, Placed, Locked, Mode
<1>7. CASE UNCHANGED vars
  BY <1>7 DEF vars, Control, WorkTyped, OpsFit, Fits, Placed, Locked, Mode
<1> QED BY <1>1, <1>2, <1>3, <1>4, <1>5, <1>6, <1>7 DEF Next

(* It holds when the server starts.                                         *)
LEMMA InitControl == Init => Control
<1> SUFFICES ASSUME Init PROVE Control
  OBVIOUS
<1>1. PICK sc \in Scenarios :
        cluster = [service |-> sc.service, standalone |-> sc.standalone, methods |-> sc.methods]
  BY DEF Init
<1>2. WorkTyped
  BY <1>1, ScenarioAssumption, NoOpFits DEF Init, WorkTyped, Locations
<1>3. OpsFit
  BY NoOpFits DEF Init, OpsFit, Worker
<1>4. Placed /\ Locked
  BY NoOpFits DEF Init, Placed, Locked, Holding
<1> QED BY <1>2, <1>3, <1>4 DEF Control

(* The methods of every service whose core driver does not lock itself     *)
(* exclude each other in the driver as they must: whoever changes the model *)
(* holds the write lock, and everybody else in the driver holds the lock.   *)
THEOREM Exclusion == Spec => []DriverExclusion
<1>1. Control => DriverExclusion
  <2> SUFFICES ASSUME Control, NEW t \in Worker, NEW u \in Worker, t # u, InDriver(t), Changes(u),
                      cluster.service \notin SelfLocked
               PROVE  FALSE
    BY DEF DriverExclusion
  <2> USE DEF Control
  <2>1. pc[t] # "bare" /\ pc[u] # "bare"
    BY DEF WorkTyped, OpsFit, Fits, Placed
  <2>2. pc[t] \in Holding /\ pc[u] \in Holding
    BY <2>1 DEF InDriver, Changes, Holding
  <2>3. Mode(u) = "W"
    BY <2>1 DEF Changes, Mode, OpsFit, Fits, Placed, WorkTyped, Ops, Effects
  <2>4. writer = {u}
    BY <2>2, <2>3 DEF Locked
  <2>5. t \in readers \/ writer = {t}
    BY <2>2 DEF Locked
  <2> QED BY <2>4, <2>5 DEF Locked
<1> QED BY <1>1, InitControl, ControlStep, PTL DEF Spec

-----------------------------------------------------------------------------
(* The model, the file, and the diff that is not mixed yet.                *)
Model == [version : Int, rows : SUBSET Nat, config : Configs]
FileStates == {"none", "empty", "part", "whole", "broken"}
Fds == [ino : Nat, wrote : {"nothing", "part", "all"}, holed : BOOLEAN, packed : Model]

(* The types of everything else.                                            *)
DataTyped ==
  /\ config \in Configs /\ model \in Model /\ stamp \in Nat
  /\ gen \in Nat /\ id \in [Thread -> Nat] /\ raced \in BOOLEAN
  /\ counter \in Nat /\ diff \subseteq 1..stamp /\ taken \subseteq 1..stamp
  /\ forgotten \subseteq 1..stamp
  /\ file \in [ino : Nat, state : FileStates, model : Model]
  /\ fd \in [Thread -> Fds] /\ flocked \subseteq Thread
  /\ promised \in Model /\ contested \in BOOLEAN
  /\ left \in [Budgets -> Nat]

(* The ids of a model are bounded, so that find_max_int_id finds one; which *)
(* a model read from the file, or still in the buffer of a save, keeps.     *)
Bounded(S) == \E b \in Nat : \A r \in S : r <= b

RowsBounded ==
  /\ Bounded(model.rows) /\ Bounded(file.model.rows)
  /\ \A t \in Thread : Bounded(fd[t].packed.rows)

(* The part of the invariant that says what the data are.                   *)
Data == DataTyped /\ RowsBounded

(* UnmixedAreCounted is not inductive: it also takes that a change still    *)
(* under way has been counted, while no mix is, or once it has its diff.    *)
Counted ==
  /\ ~up => diff = {} /\ taken = {} /\ forgotten = {}
  /\ pc["mixer"] = "idle" \/ op["mixer"].effect = "put_diff"
       => \A t \in Worker : pc[t] = "driver" /\ Tells(t) => counter > 0
  /\ UnmixedAreCounted

(* A method that tells the mixer has the driver for itself.                *)
LEMMA TellsLocked ==
  ASSUME Control, NEW t \in Worker, pc[t] = "driver", Tells(t)
  PROVE  writer = {t} /\ readers = {}
<1>1. Mode(t) = "W"
  BY DEF Control, Placed, OpsFit, Fits, Tells, Mode
<1> QED BY <1>1 DEF Control, Locked, Holding

(* get_diff is a reader and put_diff a writer: neither finds a counted      *)
(* change half done in the driver.                                          *)
LEMMA CountedStep == Control /\ Control' /\ DataTyped /\ Counted /\ [Next]_vars => Counted'
<1> SUFFICES ASSUME Control, Control', DataTyped, Counted, [Next]_vars PROVE Counted'
  OBVIOUS
<1> USE DEF fixed, lock, work, mixing, Counted, UnmixedAreCounted, DataTyped
<1>1. WorkTyped /\ Placed /\ OpsFit /\ "mixer" \in Worker /\ \A t \in Thread : t # "mixer" /\ t \in Worker
  BY ServingAssumption DEF Control, Worker
<1>2. ASSUME NEW t \in Worker, Enter(t) PROVE Counted'
  BY <1>2, <1>1 DEF Enter, Goto, Tells, WorkTyped, Placed
<1>3. ASSUME NEW t \in Worker, TellFirst(t) PROVE Counted'
  BY <1>3, <1>1 DEF TellFirst, Goto, Tells, WorkTyped, Placed
<1>4. ASSUME NEW t \in Worker, Work(t) PROVE Counted'
  <2>1. /\ up /\ up' /\ t # "mixer" /\ UNCHANGED <<taken, counter>>
        /\ pc' = [pc EXCEPT ![t] = "idle"] /\ op' = [op EXCEPT ![t] = NoOp]
    BY <1>4, <1>1 DEF Work, Return, Placed, OpsFit
  <2>2. diff' \subseteq forgotten' \/ counter > 0 \/ ~(pc["mixer"] = "idle")
    BY <1>4, <1>1, <2>1 DEF Work, Changed
  <2> QED BY <1>1, <2>1, <2>2 DEF Tells, WorkTyped
<1>5. ASSUME NEW t \in Thread, NEW l \in Locations \ {"driver"}, Goto(t, l), l # "idle",
             UNCHANGED <<cluster, up, op, mixing>>
      PROVE  Counted'
  BY <1>5, <1>1 DEF Goto, Tells, WorkTyped
<1>6. ASSUME NEW t \in Thread, Return(t), UNCHANGED <<cluster, up, mixing>>
      PROVE  Counted'
  BY <1>6, <1>1 DEF Return, Tells, WorkTyped
<1>7. ASSUME NEW t \in Thread, NEW amount \in {"part", "all"}, Write(t, amount)
      PROVE  Counted'
  BY <1>7 DEF Write, Tells
<1>8. ASSUME NEW t \in Thread, Open(t) \/ Flock(t) PROVE Counted'
  BY <1>5, <1>8 DEF Open, Flock, Locations
<1>9. ASSUME NEW t \in Thread,
             FlockFails(t) \/ Close(t) \/ WriteFails(t) \/ LoadThrows(t) \/ ResetIds(t)
      PROVE  Counted'
  BY <1>6, <1>9 DEF FlockFails, Close, WriteFails, LoadThrows, ResetIds, Leave
<1>10. ASSUME NEW t \in Thread, Load(t) PROVE Counted'
  BY <1>10, <1>1 DEF Load, Goto, Tells, WorkTyped, Placed
<1>11. CASE GetDiff
  <2>1. readers # {}
    BY <1>11, <1>1 DEF GetDiff, Control, Locked, Mode, OpsFit, Fits, Holding
  <2>2. \A t \in Worker : ~(pc[t] = "driver" /\ Tells(t))
    BY <2>1, TellsLocked
  <2>3. \A t \in Worker : ~(pc'[t] = "driver" /\ Tells(t)')
    BY <1>11, <1>1, <2>2 DEF GetDiff, Goto, Tells, WorkTyped
  <2> QED BY <1>11, <1>1, <2>3 DEF GetDiff, Goto, WorkTyped
<1>12. CASE PutDiff
  <2>1. writer = {"mixer"}
    BY <1>12, <1>1 DEF PutDiff, Control, Locked, Mode, OpsFit, Fits, Holding
  <2>2. \A t \in Worker : ~(pc[t] = "driver" /\ Tells(t)) \/ t = "mixer"
    BY <2>1, TellsLocked
  <2>3. \A t \in Worker : ~(pc'[t] = "driver" /\ Tells(t)')
    BY <1>12, <1>1, <2>2 DEF PutDiff, Return, Tells, WorkTyped
  <2> QED BY <1>12, <1>1, <2>3 DEF PutDiff, Return, WorkTyped, Placed
<1>13. CASE MixFails
  BY <1>13, <1>1 DEF MixFails, Return, Tells, WorkTyped, Placed
<1>14. ASSUME NEW t \in Thread, NEW m \in cluster.methods, Call(t, m) PROVE Counted'
  BY <1>14, <1>1 DEF Call, Goto, Tells, WorkTyped, Placed
<1>15. ASSUME NEW own \in BOOLEAN, AskDiff(own) PROVE Counted'
  BY <1>15, <1>1, MixerOps DEF AskDiff, Goto, Tells, WorkTyped, Placed
<1>16. CASE Dies
  BY <1>16 DEF Dies
<1>17. ASSUME NEW c \in Configs, Restart(c) PROVE Counted'
  BY <1>17, <1>1 DEF Restart, Tells, Placed
<1>18. CASE UNCHANGED vars
  BY <1>18 DEF vars, Tells
<1> QED BY <1>2, <1>3, <1>4, <1>7, <1>8, <1>9, <1>10, <1>11, <1>12, <1>13, <1>14, <1>15, <1>16,
           <1>17, <1>18
        DEF Next, Server, Crash, GetDiffDies

-----------------------------------------------------------------------------
(* A set of natural numbers has a least element.                            *)
LEMMA MinOfNat ==
  ASSUME NEW T \in SUBSET Nat, T # {}
  PROVE  \E x \in T : \A y \in T : x <= y
<1> DEFINE R == OpToRel(<, Nat)
<1>1. \A x, y \in Nat : <<x, y>> \in R <=> x < y
  BY DEF OpToRel
<1> HIDE DEF R
<1>2. IsWellFoundedOn(R, Nat)
  BY NatLessThanWellFounded DEF R
<1>3. PICK x \in T : \A y \in T : ~ (<<y, x>> \in R)
  BY <1>2, WFMin
<1>4. \A y \in T : x \in Nat /\ y \in Nat /\ ~ (y < x)
  BY <1>1, <1>3
<1>5. \A y \in T : x <= y
  BY <1>4
<1> QED BY <1>5

(* A bounded one has a greatest, the least of its upper bounds.             *)
LEMMA MaxOfBounded ==
  ASSUME NEW S \in SUBSET Nat, S # {}, Bounded(S)
  PROVE  Max(S) \in S /\ \A r \in S : r <= Max(S)
<1> DEFINE Above == {x \in Nat : \A r \in S : r <= x}
<1>1. PICK m \in Above : \A x \in Above : m <= x
  BY MinOfNat DEF Bounded
<1>2. m \in S
  <2> SUFFICES ASSUME m \notin S PROVE FALSE
    OBVIOUS
  <2>1. PICK r \in S : TRUE
    OBVIOUS
  <2>2. r < m /\ m - 1 \in Above
    BY <2>1
  <2> QED BY <1>1, <2>2
<1> QED BY <1>2 DEF Max

(* find_max_int_id() + 1 is above every id of the model.                    *)
LEMMA NextIdIsNew ==
  ASSUME NEW m \in Model, Bounded(m.rows)
  PROVE  NextId(m) \in Nat /\ \A r \in m.rows : r < NextId(m)
  BY MaxOfBounded DEF NextId, Model

(* One more row leaves the ids bounded.                                     *)
LEMMA BoundedSets ==
  /\ Bounded({})
  /\ \A S \in SUBSET Nat, i \in Nat : Bounded(S) => Bounded(S \cup {i})
<1>1. Bounded({})
  BY DEF Bounded
<1>2. ASSUME NEW S \in SUBSET Nat, NEW i \in Nat, Bounded(S) PROVE Bounded(S \cup {i})
  <2>1. PICK b \in Nat : \A r \in S : r <= b
    BY <1>2 DEF Bounded
  <2>2. \A r \in S \cup {i} : r <= b + i
    BY <2>1
  <2> QED BY <2>1, <2>2 DEF Bounded
<1> QED BY <1>1, <1>2

(* The models that stand for none, for garbage and for an empty driver.     *)
LEMMA Models ==
  /\ NoModel \in Model /\ NoModel.rows = {} /\ Garbage \in Model /\ Garbage.rows = {}
  /\ \A c \in Configs : Fresh(c) \in Model /\ Fresh(c).rows = {}
  BY DEF NoModel, Garbage, Fresh, Model, Configs

(* A thread that saves nothing.                                             *)
LEMMA NoFdTyped == NoFd \in Fds /\ NoFd.packed = NoModel
  BY Models DEF NoFd, Fds

(* What a write leaves in the file.                                         *)
LEMMA ContentTyped ==
  ASSUME Data, NEW t \in Thread, NEW s \in {"part", "whole"}
  PROVE  /\ Content(t, s) \in [ino : Nat, state : FileStates, model : Model]
         /\ Bounded(Content(t, s).model.rows)
<1> PICK f : f = Content(t, s)
  OBVIOUS
<1>1. fd[t].packed \in Model /\ Bounded(fd[t].packed.rows)
  BY DEF Data, DataTyped, RowsBounded, Fds
<1>2. \/ f = file
      \/ f = [file EXCEPT !.state = "broken", !.model = Garbage]
      \/ f = [file EXCEPT !.state = s, !.model = IF s = "whole" THEN fd[t].packed ELSE NoModel]
  BY DEF Content
<1>3. f \in [ino : Nat, state : FileStates, model : Model]
  BY <1>1, <1>2, Models DEF Data, DataTyped, FileStates
<1>4. f.model = file.model \/ f.model = Garbage \/ f.model = NoModel \/ f.model = fd[t].packed
  BY <1>2 DEF Data, DataTyped
<1>5. Bounded(f.model.rows)
  BY <1>1, <1>4, Models, BoundedSets DEF Data, RowsBounded
<1> QED BY <1>3, <1>5

(* Every step keeps the types.                                              *)
LEMMA DataStep == Control /\ Data /\ [Next]_vars => Data'
<1> SUFFICES ASSUME Control, Data, [Next]_vars PROVE Data'
  OBVIOUS
<1> USE DEF Data, DataTyped, RowsBounded, fixed, lock, work, mixing, ids, disk, promise, Spend
<1>1. ASSUME NEW t \in Worker, Enter(t) \/ TellFirst(t) PROVE Data'
  <2>1. counter' \in Nat
    BY <1>1 DEF Enter, TellFirst
  <2>2. UNCHANGED <<config, model, stamp, ids, diff, taken, forgotten, disk, promise, left>>
    BY <1>1 DEF Enter, TellFirst
  <2> QED BY <2>1, <2>2
<1>2. ASSUME NEW t \in Worker, Work(t) PROVE Data'
  <2>1. /\ UNCHANGED <<config, gen, id, raced, counter, taken, file, fd, flocked, promised,
                       contested, left>>
        /\ t \in Thread
    BY <1>2 DEF Work, Control, Placed, OpsFit, Worker
  <2>2. CASE UNCHANGED <<model, stamp, diff, forgotten>>
    BY <2>1, <2>2
  <2>3. CASE Changed(t)
    <3>1. stamp' = stamp + 1 /\ stamp' \in Nat
      BY <2>3 DEF Changed
    <3>2. diff' \subseteq 1..stamp' /\ taken' \subseteq 1..stamp' /\ forgotten' \subseteq 1..stamp'
      BY <2>1, <2>3, <3>1 DEF Changed
    <3>3. PICK rows \in {{}, model.rows, model.rows \cup {id[t]}} :
            model' = [model EXCEPT !.version = stamp + 1, !.rows = rows]
      BY <2>3 DEF Changed
    <3>4. model.rows \in SUBSET Nat /\ id[t] \in Nat
      BY <2>1 DEF Model
    <3>5. rows \in SUBSET Nat /\ Bounded(rows)
      BY <3>4, BoundedSets
    <3>6. model' \in Model /\ model'.rows = rows
      <4>1. model' = [version |-> stamp + 1, rows |-> rows, config |-> model.config]
        BY <3>3 DEF Model
      <4>2. stamp + 1 \in Int /\ model.config \in Configs
        BY DEF Model
      <4> QED BY <3>5, <4>1, <4>2 DEF Model
    <3>7. Bounded(model'.rows)
      BY <3>5, <3>6
    <3> QED BY <2>1, <3>1, <3>2, <3>6, <3>7
  <2> QED BY <1>2, <2>2, <2>3 DEF Work
<1>3. ASSUME NEW t \in Thread, Open(t) PROVE Data'
  <2>1. UNCHANGED <<config, model, stamp, ids, mixing, flocked, left>>
        /\ promised' = NoModel /\ contested' \in BOOLEAN
    BY <1>3 DEF Open
  <2> DEFINE n == IF file.state = "none" THEN file.ino + 1 ELSE file.ino
  <2>2. n \in Nat
    OBVIOUS
  <2>3. file' = [ino |-> n, state |-> "empty", model |-> NoModel]
    BY <1>3 DEF Open
  <2>4. file' \in [ino : Nat, state : FileStates, model : Model] /\ Bounded(file'.model.rows)
    BY <2>2, <2>3, Models, BoundedSets DEF FileStates
  <2>5. fd' \in [Thread -> Fds] /\ \A u \in Thread : fd'[u].packed \in {NoModel, fd[u].packed}
    <3>1. fd' = [u \in Thread |->
                  IF u = t THEN [NoFd EXCEPT !.ino = n]
                  ELSE [fd[u] EXCEPT !.holed = @ \/ (fd[u].ino = n /\ fd[u].wrote # "nothing")]]
      BY <1>3 DEF Open
    <3> HIDE DEF n
    <3>2. [NoFd EXCEPT !.ino = n] \in Fds /\ [NoFd EXCEPT !.ino = n].packed = NoModel
      BY <2>2, Models DEF NoFd, Fds
    <3>3. \A u \in Thread, h \in BOOLEAN :
            /\ [fd[u] EXCEPT !.holed = h] \in Fds
            /\ [fd[u] EXCEPT !.holed = h].packed = fd[u].packed
      BY DEF Fds
    <3> QED BY <3>1, <3>2, <3>3
  <2> QED BY <2>1, <2>4, <2>5, Models, BoundedSets
<1>4. ASSUME NEW t \in Thread, Flock(t) PROVE Data'
  BY <1>4 DEF Flock, Fds
<1>5. ASSUME NEW t \in Thread, FlockFails(t) PROVE Data'
  BY <1>5, NoFdTyped, Models, BoundedSets DEF FlockFails, Leave
<1>6. ASSUME NEW t \in Thread, NEW amount \in {"part", "all"}, Write(t, amount) PROVE Data'
  BY <1>6, ContentTyped DEF Write, Fds
<1>7. ASSUME NEW t \in Thread, Close(t) PROVE Data'
  BY <1>7, ContentTyped, NoFdTyped, Models, BoundedSets DEF Close, Leave, Fds
<1>8. ASSUME NEW t \in Thread, WriteFails(t) PROVE Data'
  <2>1. /\ file' = [file EXCEPT !.state = "none", !.model = NoModel] /\ promised' = NoModel
        /\ fd' = [fd EXCEPT ![t] = NoFd] /\ flocked' = flocked \ {t}
        /\ left' \in [Budgets -> Nat]
        /\ UNCHANGED <<config, model, stamp, ids, mixing, contested>>
    BY <1>8 DEF WriteFails, Leave, Budgets
  <2> QED BY <2>1, NoFdTyped, Models, BoundedSets DEF FileStates
<1>9. ASSUME NEW t \in Thread, Load(t) PROVE Data'
  BY <1>9 DEF Load
<1>10. ASSUME NEW t \in Thread, LoadThrows(t) PROVE Data'
  BY <1>10 DEF LoadThrows
<1>11. ASSUME NEW t \in Thread, ResetIds(t) PROVE Data'
  BY <1>11, NextIdIsNew DEF ResetIds
<1>12. CASE GetDiff
  BY <1>12 DEF GetDiff
<1>13. CASE PutDiff
  BY <1>13 DEF PutDiff, Model
<1>14. CASE MixFails
  BY <1>14 DEF MixFails
<1>15. ASSUME NEW t \in Thread, NEW m \in cluster.methods, Call(t, m) PROVE Data'
  <2>1. /\ left' \in [Budgets -> Nat]
        /\ UNCHANGED <<config, model, stamp, mixing, disk, promise>>
    BY <1>15 DEF Call, Budgets
  <2>2. gen' \in Nat /\ id' \in [Thread -> Nat]
    BY <1>15 DEF Call
  <2>3. raced' \in BOOLEAN
    BY <1>15, Zenon DEF Call
  <2> QED BY <2>1, <2>2, <2>3
<1>16. ASSUME NEW own \in BOOLEAN, AskDiff(own) PROVE Data'
  BY <1>16 DEF AskDiff, Budgets
<1>17. CASE Crash \/ GetDiffDies
  <2>1. /\ left' \in [Budgets -> Nat]
        /\ counter' = 0 /\ diff' = {} /\ taken' = {} /\ forgotten' = {}
        /\ UNCHANGED <<config, model, stamp, ids, file, promise>>
        /\ fd' = [u \in Thread |-> NoFd] /\ flocked' = {}
    BY <1>17 DEF Crash, GetDiffDies, Dies, Budgets
  <2> QED BY <2>1, NoFdTyped, Models, BoundedSets
<1>18. ASSUME NEW c \in Configs, Restart(c) PROVE Data'
  <2>1. UNCHANGED <<stamp, id, mixing, disk, promise, left>> /\ config' = c /\ raced' = FALSE
    BY <1>18 DEF Restart
  <2>2. model' \in Model /\ Bounded(model'.rows) /\ gen' \in Nat
    <3>1. CASE model' = Fresh(c) /\ gen' = 0
      BY <3>1, Models, BoundedSets
    <3>2. CASE model' = file.model /\ gen' = NextId(file.model)
      BY <3>2, NextIdIsNew
    <3> QED BY <1>18, <3>1, <3>2 DEF Restart
  <2> QED BY <2>1, <2>2
<1>19. CASE UNCHANGED vars
  BY <1>19 DEF vars
<1> QED BY <1>1, <1>2, <1>3, <1>4, <1>5, <1>6, <1>7, <1>8, <1>9, <1>10, <1>11, <1>12, <1>13,
           <1>14, <1>15, <1>16, <1>17, <1>18, <1>19 DEF Next, Server

-----------------------------------------------------------------------------
(* A save that has the file for itself: nobody else has it open, its        *)
(* descriptor is the file, and what it has written is there.               *)
Saved ==
  /\ flocked \subseteq {t \in Thread : pc[t] = "write"}
  /\ \A t \in Thread : pc[t] = "flock" => fd[t].wrote = "nothing"
  /\ ~contested =>
       /\ \A t, u \in Thread : Saving(t) /\ Saving(u) => t = u
       /\ \A t \in Thread : Saving(t) =>
            /\ promised = NoModel /\ fd[t].ino = file.ino /\ file.state # "none" /\ ~fd[t].holed
            /\ fd[t].wrote = "all" => file.state = "whole" /\ file.model = fd[t].packed
  /\ SavedIsThere

(* A step that touches neither file nor descriptors, and starts or ends no  *)
(* save, keeps that.                                                        *)
LEMMA SavedElsewhere ==
  ASSUME Saved, UNCHANGED <<file, fd, flocked, promised, contested>>,
         \A t \in Thread : (Saving(t) \/ Saving(t)') => pc'[t] = pc[t]
  PROVE  Saved'
  BY DEF Saved, Saving, SavedIsThere

(* Only opening the file can take it away from a save, and it then counts   *)
(* as contested; whoever leaves an uncontested file was alone with it.      *)
LEMMA SavedStep == Control /\ Data /\ Saved /\ [Next]_vars => Saved'
<1> SUFFICES ASSUME Control, Data, Saved, [Next]_vars PROVE Saved'
  OBVIOUS
<1> USE DEF fixed, lock, work, mixing, ids, disk, promise
<1>1. pc \in [Worker -> Locations] /\ Thread \subseteq Worker /\ fd \in [Thread -> Fds]
      /\ file \in [ino : Nat, state : FileStates, model : Model]
  BY DEF Control, WorkTyped, Worker, Data, DataTyped
<1>2. ASSUME NEW t \in Worker, NEW l \in Locations, ~Saving(t), l \notin {"flock", "write"}, Goto(t, l),
             UNCHANGED <<disk, promise>>
      PROVE  Saved'
  BY <1>1, <1>2, SavedElsewhere DEF Goto, Saving
<1>3. ASSUME NEW t \in Thread, Open(t) PROVE Saved'
  <2> DEFINE n == IF file.state = "none" THEN file.ino + 1 ELSE file.ino
  <2>1. /\ pc' = [pc EXCEPT ![t] = "flock"]
        /\ file' = [ino |-> n, state |-> "empty", model |-> NoModel]
        /\ promised' = NoModel /\ flocked' = flocked
        /\ pc[t] = "open"
    BY <1>3 DEF Open, Goto
  <2>2. ~contested' => \A u \in Thread \ {t} : ~Saving(u)
    BY <1>3 DEF Open
  <2>3. fd'[t] = [NoFd EXCEPT !.ino = n] /\ \A u \in Thread \ {t} : fd'[u].wrote = fd[u].wrote
    BY <1>1, <1>3 DEF Open, Fds
  <2>4. fd'[t].wrote = "nothing" /\ fd'[t].ino = n /\ ~fd'[t].holed
    BY <2>3 DEF NoFd
  <2>5. file'.ino = n /\ file'.state = "empty"
    BY <2>1
  <2> HIDE DEF n
  <2>6. flocked' \subseteq {u \in Thread : pc'[u] = "write"}
    BY <1>1, <2>1 DEF Saved
  <2>7. \A u \in Thread : pc'[u] = "flock" => fd'[u].wrote = "nothing"
    BY <1>1, <2>1, <2>3, <2>4 DEF Saved
  <2>8. ~contested' => \A u \in Thread : Saving(u)' => u = t
    BY <1>1, <2>1, <2>2 DEF Saving
  <2> QED BY <2>1, <2>4, <2>5, <2>6, <2>7, <2>8 DEF Saved, SavedIsThere
<1>4. ASSUME NEW t \in Thread, Flock(t) PROVE Saved'
  <2>1. /\ pc' = [pc EXCEPT ![t] = "write"] /\ flocked' = flocked \cup {t} /\ pc[t] = "flock"
        /\ fd' = [fd EXCEPT ![t].packed = model]
        /\ UNCHANGED <<file, promised, contested>>
    BY <1>4 DEF Flock, Goto
  <2>2. \A u \in Thread : /\ fd'[u].wrote = fd[u].wrote /\ fd'[u].ino = fd[u].ino
                          /\ fd'[u].holed = fd[u].holed
                          /\ u # t => fd'[u].packed = fd[u].packed
    BY <1>1, <2>1 DEF Fds
  <2>3. \A u \in Thread : Saving(u)' <=> Saving(u)
    BY <1>1, <2>1 DEF Saving
  <2>4. flocked' \subseteq {u \in Thread : pc'[u] = "write"}
    BY <1>1, <2>1 DEF Saved
  <2>5. \A u \in Thread : pc'[u] = "flock" => pc[u] = "flock" /\ u # t
    BY <1>1, <2>1
  <2>6. fd[t].wrote = "nothing"
    BY <2>1 DEF Saved
  <2> QED BY <2>1, <2>2, <2>3, <2>4, <2>5, <2>6 DEF Saved, SavedIsThere
<1>5. ASSUME NEW t \in Thread, Saving(t), Leave(t), UNCHANGED contested,
             ~contested => promised' = NoModel \/ (file'.state = "whole" /\ file'.model = promised')
      PROVE  Saved'
  <2>1. /\ pc' = [pc EXCEPT ![t] = "idle"] /\ flocked' = flocked \ {t}
        /\ fd' = [fd EXCEPT ![t] = NoFd]
    BY <1>5 DEF Leave, Return
  <2>2. \A u \in Thread : Saving(u)' <=> Saving(u) /\ u # t
    BY <1>1, <2>1 DEF Saving
  <2>3. ~contested => \A u \in Thread : ~Saving(u)'
    BY <1>5, <2>2 DEF Saved
  <2>4. \A u \in Thread : pc'[u] = "flock" => pc[u] = "flock" /\ u # t /\ fd'[u] = fd[u]
    BY <1>1, <2>1
  <2>5. flocked' \subseteq {u \in Thread : pc'[u] = "write"}
    BY <1>1, <2>1 DEF Saved
  <2> QED BY <1>5, <2>3, <2>4, <2>5 DEF Saved, SavedIsThere
<1>6. ASSUME NEW t \in Thread, FlockFails(t) PROVE Saved'
  BY <1>5, <1>6 DEF FlockFails, Saved, SavedIsThere, Saving
<1>7. ASSUME NEW t \in Thread, NEW amount \in {"part", "all"}, Write(t, amount) PROVE Saved'
  <2> DEFINE s == IF amount = "all" THEN "whole" ELSE "part"
  <2>1. /\ pc' = pc /\ flocked' = flocked /\ pc[t] = "write" /\ fd[t].wrote # "all"
        /\ file' = Content(t, s) /\ fd' = [fd EXCEPT ![t].wrote = amount]
        /\ UNCHANGED <<promised, contested>>
    BY <1>7 DEF Write
  <2>2. /\ fd'[t].wrote = amount /\ fd'[t].ino = fd[t].ino /\ fd'[t].packed = fd[t].packed
        /\ fd'[t].holed = fd[t].holed
        /\ \A u \in Thread : u # t => fd'[u] = fd[u]
    BY <1>1, <2>1 DEF Fds
  <2>3. ~contested => promised = NoModel /\ fd[t].ino = file.ino /\ file.state # "none" /\ ~fd[t].holed
    BY <2>1 DEF Saved, Saving
  <2>4. ~contested => /\ file'.ino = file.ino /\ file'.state = s
                      /\ s = "whole" => file'.model = fd[t].packed
    BY <1>1, <2>1, <2>3 DEF Content
  <2>5. \A u \in Thread : Saving(u)' <=> Saving(u)
    BY <2>1 DEF Saving
  <2> QED BY <2>1, <2>2, <2>3, <2>4, <2>5 DEF Saved, SavedIsThere, Saving
<1>8. ASSUME NEW t \in Thread, Close(t) PROVE Saved'
  <2>1. /\ pc[t] = "write" /\ promised' = fd[t].packed /\ Leave(t) /\ UNCHANGED contested
        /\ file' = IF fd[t].wrote = "all" THEN file ELSE Content(t, "whole")
    BY <1>8 DEF Close
  <2>2. ~contested => file'.state = "whole" /\ file'.model = fd[t].packed
    BY <1>1, <2>1 DEF Saved, Saving, Content
  <2> QED BY <1>5, <2>1, <2>2 DEF Saving
<1>9. ASSUME NEW t \in Thread, WriteFails(t) PROVE Saved'
  BY <1>5, <1>9 DEF WriteFails, Saving
<1>10. CASE Crash \/ GetDiffDies
  <2>1. /\ \A t \in Thread : pc'[t] = "idle"
        /\ flocked' = {} /\ UNCHANGED <<file, promised, contested>>
    BY <1>1, <1>10 DEF Crash, GetDiffDies, Dies
  <2> QED BY <2>1 DEF Saved, SavedIsThere, Saving
<1>11. ASSUME NEW t \in Worker, Enter(t) \/ TellFirst(t) PROVE Saved'
  BY <1>2, <1>11 DEF Enter, TellFirst, Saving, Locations
<1>12. ASSUME NEW t \in Worker,
              Work(t) \/ (t \in Thread /\ (Load(t) \/ LoadThrows(t) \/ ResetIds(t)))
                \/ (t = "mixer" /\ (GetDiff \/ PutDiff \/ MixFails))
       PROVE  Saved'
  <2>1. PICK l \in {"idle", "reset", "wait"} : Goto(t, l)
    BY <1>12 DEF Work, Load, LoadThrows, ResetIds, GetDiff, PutDiff, MixFails, Return, Goto
  <2>2. ~Saving(t) /\ UNCHANGED <<disk, promise>>
    BY <1>12 DEF Work, Load, LoadThrows, ResetIds, GetDiff, PutDiff, MixFails, Saving
  <2> QED BY <1>2, <2>1, <2>2 DEF Locations
<1>13. ASSUME NEW t \in Thread, NEW m \in cluster.methods, Call(t, m) PROVE Saved'
  <2>1. PICK l \in {"bare", "wait"} : Goto(t, l)
    BY <1>13 DEF Call
  <2>2. ~Saving(t) /\ UNCHANGED <<disk, promise>>
    BY <1>13 DEF Call, Saving
  <2> QED BY <1>1, <1>2, <2>1, <2>2 DEF Locations
<1>14. ASSUME NEW own \in BOOLEAN, AskDiff(own) PROVE Saved'
  BY <1>2, <1>14 DEF AskDiff, Saving, Locations, Worker
<1>15. CASE UNCHANGED <<pc, disk, promise>>
  BY <1>15, SavedElsewhere
<1>16. ASSUME NEW c \in Configs, Restart(c) PROVE Saved'
  BY <1>15, <1>16 DEF Restart
<1> QED BY <1>3, <1>4, <1>6, <1>7, <1>8, <1>9, <1>10, <1>11, <1>12, <1>13, <1>14, <1>15, <1>16
        DEF Next, Server, vars

-----------------------------------------------------------------------------
(* What the file holds, once whole, is a model of a server, because what a  *)
(* save has packed was one.                                                 *)
Sound ==
  /\ ModelIsSound
  /\ file.state = "whole" => file.model.version >= 0
  /\ \A t \in Thread : pc[t] = "write" => fd[t].packed.version >= 0

(* Every step keeps that.                                                   *)
LEMMA SoundStep == Control /\ Data /\ Sound /\ [Next]_vars => Sound'
<1> SUFFICES ASSUME Control, Data, Sound, [Next]_vars PROVE Sound'
  OBVIOUS
<1> USE DEF fixed, lock, work, mixing, ids, disk, promise
<1>1. /\ pc \in [Worker -> Locations] /\ Thread \subseteq Worker /\ fd \in [Thread -> Fds]
      /\ file \in [ino : Nat, state : FileStates, model : Model]
      /\ model \in Model /\ stamp \in Nat
  BY DEF Control, WorkTyped, Worker, Data, DataTyped
<1>2. ASSUME NEW t \in Worker, NEW l \in Locations \ {"write"}, Goto(t, l), UNCHANGED <<disk, up, config>>,
             model'.version >= 0, up => model'.config = config
      PROVE  Sound'
  BY <1>1, <1>2 DEF Sound, ModelIsSound, Goto
<1>3. ASSUME NEW t \in Worker,
             Enter(t) \/ TellFirst(t)
                \/ (t \in Thread /\ (LoadThrows(t) \/ ResetIds(t)))
                \/ (t = "mixer" /\ (GetDiff \/ MixFails))
      PROVE  Sound'
  <2>1. PICK l \in Locations \ {"write"} : Goto(t, l)
    BY <1>3 DEF Enter, TellFirst, LoadThrows, ResetIds, GetDiff, MixFails, Return, Goto, Locations
  <2>2. UNCHANGED <<disk, up, config, model>>
    BY <1>3 DEF Enter, TellFirst, LoadThrows, ResetIds, GetDiff, MixFails
  <2> QED BY <1>2, <2>1, <2>2 DEF Sound, ModelIsSound
<1>4. ASSUME NEW t \in Worker, Work(t) \/ (t = "mixer" /\ PutDiff) PROVE Sound'
  <2>1. Goto(t, "idle") /\ UNCHANGED <<disk, up, config>>
    BY <1>4 DEF Work, PutDiff, Return, Goto
  <2>2. model' = model \/ (model'.version = stamp + 1 /\ model'.config = model.config)
    BY <1>1, <1>4 DEF Work, Changed, PutDiff, Model
  <2>3. model'.version >= 0 /\ (up => model'.config = config)
    BY <1>1, <2>2 DEF Sound, ModelIsSound
  <2> QED BY <1>2, <2>1, <2>3 DEF Locations
<1>5. ASSUME NEW t \in Thread, Load(t) PROVE Sound'
  <2>1. Goto(t, "reset") /\ UNCHANGED <<disk, up, config>>
    BY <1>5 DEF Load
  <2>2. model'.version >= 0 /\ model'.config = config
    BY <1>5 DEF Load, Readable, SameConfig, Sound
  <2> QED BY <1>1, <1>2, <2>1, <2>2 DEF Locations
<1>6. ASSUME NEW t \in Thread, Open(t) PROVE Sound'
  <2>1. /\ pc' = [pc EXCEPT ![t] = "flock"] /\ file'.state = "empty"
        /\ UNCHANGED <<up, config, model>>
    BY <1>6 DEF Open, Goto
  <2>2. \A u \in Thread \ {t} : fd'[u].packed = fd[u].packed
    BY <1>1, <1>6 DEF Open, Fds
  <2> QED BY <1>1, <2>1, <2>2 DEF Sound, ModelIsSound
<1>7. ASSUME NEW t \in Thread, Flock(t) PROVE Sound'
  <2>1. /\ pc' = [pc EXCEPT ![t] = "write"] /\ fd' = [fd EXCEPT ![t].packed = model]
        /\ UNCHANGED <<up, config, model, file>>
    BY <1>7 DEF Flock, Goto
  <2>2. fd'[t].packed = model /\ \A u \in Thread \ {t} : fd'[u] = fd[u]
    BY <1>1, <2>1 DEF Fds
  <2> QED BY <1>1, <2>1, <2>2 DEF Sound, ModelIsSound
<1>8. ASSUME NEW t \in Thread, Leave(t), UNCHANGED <<up, config, model>>,
             file'.state = "whole" => file'.model.version >= 0
      PROVE  Sound'
  <2>1. pc' = [pc EXCEPT ![t] = "idle"] /\ \A u \in Thread \ {t} : fd'[u] = fd[u]
    BY <1>1, <1>8 DEF Leave, Return
  <2> QED BY <1>1, <1>8, <2>1 DEF Sound, ModelIsSound
<1>9. ASSUME NEW t \in Thread, pc[t] = "write", NEW s \in {"part", "whole"}
      PROVE  Content(t, s).state = "whole" => Content(t, s).model.version >= 0
  BY <1>1, <1>9 DEF Content, Sound, Fds
<1>10. ASSUME NEW t \in Thread, FlockFails(t) \/ WriteFails(t) PROVE Sound'
  BY <1>1, <1>8, <1>10 DEF FlockFails, WriteFails, Sound
<1>11. ASSUME NEW t \in Thread, NEW amount \in {"part", "all"}, Write(t, amount) PROVE Sound'
  <2>1. /\ pc[t] = "write" /\ UNCHANGED <<pc, up, config, model>>
        /\ \E s \in {"part", "whole"} : file' = Content(t, s)
    BY <1>11 DEF Write
  <2>2. \A u \in Thread : fd'[u].packed = fd[u].packed
    BY <1>1, <1>11 DEF Write, Fds
  <2> QED BY <1>9, <2>1, <2>2 DEF Sound, ModelIsSound
<1>12. ASSUME NEW t \in Thread, Close(t) PROVE Sound'
  BY <1>8, <1>9, <1>12 DEF Close, Sound
<1>13. CASE Crash \/ GetDiffDies
  <2>1. /\ \A t \in Thread : pc'[t] = "idle"
        /\ up' = FALSE /\ UNCHANGED <<file, config, model>>
    BY <1>1, <1>13 DEF Crash, GetDiffDies, Dies
  <2> QED BY <2>1 DEF Sound, ModelIsSound
<1>14. ASSUME NEW t \in Thread, NEW m \in cluster.methods, Call(t, m) PROVE Sound'
  <2>1. PICK l \in {"bare", "wait"} : Goto(t, l)
    BY <1>14 DEF Call
  <2>2. UNCHANGED <<disk, up, config, model>>
    BY <1>14 DEF Call
  <2> QED BY <1>1, <1>2, <2>1, <2>2 DEF Locations, Sound, ModelIsSound
<1>15. ASSUME NEW own \in BOOLEAN, AskDiff(own) PROVE Sound'
  <2>1. Goto("mixer", "wait") /\ UNCHANGED <<disk, up, config, model>>
    BY <1>15 DEF AskDiff
  <2> QED BY <1>2, <2>1 DEF Worker, Locations, Sound, ModelIsSound
<1>16. ASSUME NEW c \in Configs, Restart(c) PROVE Sound'
  <2>1. UNCHANGED <<pc, disk>> /\ config' = c
    BY <1>16 DEF Restart
  <2>2. model'.version >= 0 /\ model'.config = c
    BY <1>16 DEF Restart, Fresh, Readable, Sound
  <2> QED BY <2>1, <2>2 DEF Sound, ModelIsSound
<1>17. CASE UNCHANGED vars
  BY <1>17 DEF vars, Sound, ModelIsSound
<1> QED BY <1>3, <1>4, <1>5, <1>6, <1>7, <1>10, <1>11, <1>12, <1>13, <1>14, <1>15, <1>16, <1>17
        DEF Next, Server

-----------------------------------------------------------------------------
(* A load has replaced the model, and the generator is still the old one.   *)
Resetting == \E t \in Thread : pc[t] = "reset"
(* A call that has its id for a new row and has not answered.              *)
Creating(t) == pc[t] # "idle" /\ op[t].creates

(* The generator is ahead of the rows, except while a load is being         *)
(* finished, and of the ids of the calls under way, which all differ.       *)
NewIds ==
  cluster.standalone /\ ~raced =>
    /\ up /\ ~Resetting => \A r \in model.rows : r < gen
    /\ \A t \in Thread : Creating(t) =>
         /\ ~Resetting /\ id[t] < gen /\ id[t] \notin model.rows
         /\ \A u \in Thread : Creating(u) /\ id[t] = id[u] => t = u

(* Every step keeps that, unless a load and a call that creates a row meet. *)
LEMMA NewIdsStep == Control /\ Data /\ NewIds /\ [Next]_vars => NewIds'
<1> SUFFICES ASSUME Control, Data, NewIds, [Next]_vars PROVE NewIds'
  OBVIOUS
<1> USE DEF fixed, lock, work, mixing, ids, disk, promise
<1>1. /\ pc \in [Worker -> Locations] /\ op \in [Worker -> Ops] /\ Thread \subseteq Worker
      /\ model.rows \in SUBSET Nat /\ gen \in Nat /\ id \in [Thread -> Nat]
  BY DEF Control, WorkTyped, Worker, Data, DataTyped, Model
<1>2. ASSUME NEW t \in Worker, NEW l \in Locations \ {"reset"}, Goto(t, l), pc[t] # "reset", pc[t] # "idle",
             UNCHANGED <<cluster, up, ids>>, model'.rows \subseteq model.rows,
             op' = op \/ op' = [op EXCEPT ![t] = NoOp]
      PROVE  NewIds'
  <2>1. \A u \in Thread : Creating(u)' => Creating(u)
    BY <1>1, <1>2, NoOpFits DEF Creating, Goto
  <2>2. Resetting' <=> Resetting
    BY <1>1, <1>2 DEF Resetting, Goto
  <2> HIDE DEF Resetting
  <2> QED BY <1>2, <2>1, <2>2 DEF NewIds
<1>3. ASSUME NEW t \in Worker, Work(t), Changed(t), op[t].creates, ~op[t].clears PROVE NewIds'
  <2>1. t \in Thread /\ Creating(t) /\ model'.rows = model.rows \cup {id[t]}
    BY <1>3 DEF Work, Changed, Control, Placed, OpsFit, Worker, Creating, Data, DataTyped, Model
  <2>2. /\ pc' = [pc EXCEPT ![t] = "idle"] /\ op' = [op EXCEPT ![t] = NoOp]
        /\ UNCHANGED <<cluster, up, ids>> /\ pc[t] # "reset"
    BY <1>3 DEF Work, Return
  <2>3. \A u \in Thread : Creating(u)' => Creating(u) /\ u # t
    BY <1>1, <2>2 DEF Creating
  <2>4. Resetting' <=> Resetting
    BY <1>1, <2>2 DEF Resetting
  <2> HIDE DEF Resetting
  <2> QED BY <1>1, <2>1, <2>2, <2>3, <2>4 DEF NewIds
<1>4. ASSUME NEW t \in Worker, Work(t) PROVE NewIds'
  <2>1. /\ Goto(t, "idle") /\ op' = [op EXCEPT ![t] = NoOp] /\ UNCHANGED <<cluster, up, ids>>
        /\ pc[t] \in {"driver", "bare"}
    BY <1>4 DEF Work, Return, Goto
  <2>2. model'.rows \subseteq model.rows \/ (Changed(t) /\ op[t].creates /\ ~op[t].clears)
    BY <1>4 DEF Work, Changed, Data, DataTyped, Model
  <2> QED BY <1>2, <1>3, <1>4, <2>1, <2>2 DEF Locations
<1>5. ASSUME NEW t \in Worker,
             Enter(t) \/ TellFirst(t)
               \/ (t \in Thread /\ (Open(t) \/ Flock(t) \/ FlockFails(t) \/ Close(t) \/ WriteFails(t)
                                      \/ LoadThrows(t)))
               \/ (t = "mixer" /\ (PutDiff \/ MixFails))
      PROVE  NewIds'
  <2>1. PICK l \in {"idle", "driver", "open", "bare", "flock", "write"} : Goto(t, l)
    BY <1>5 DEF Enter, TellFirst, Open, Flock, FlockFails, Close, WriteFails, LoadThrows, PutDiff, MixFails,
       Return, Leave, Goto
  <2>2. /\ op' = op \/ op' = [op EXCEPT ![t] = NoOp]
        /\ UNCHANGED <<cluster, up, ids>> /\ pc[t] # "reset" /\ pc[t] # "idle"
    BY <1>5 DEF Enter, TellFirst, Open, Flock, FlockFails, Close, WriteFails, LoadThrows, PutDiff, MixFails,
       Return, Leave
  <2>3. model'.rows = model.rows
    BY <1>5 DEF Enter, TellFirst, Open, Flock, FlockFails, Close, WriteFails, LoadThrows, PutDiff, MixFails,
       Data, DataTyped, Model
  <2> QED BY <1>2, <2>1, <2>2, <2>3 DEF Locations
<1>6. ASSUME NEW t \in Thread, Load(t) PROVE NewIds'
  <2>1. /\ pc' = [pc EXCEPT ![t] = "reset"] /\ UNCHANGED <<cluster, op>>
        /\ ~raced' => \A u \in Thread : ~op[u].creates
    BY <1>6 DEF Load, Goto
  <2>2. Resetting'
    BY <1>1, <2>1 DEF Resetting
  <2> QED BY <2>1, <2>2 DEF NewIds, Creating
<1>7. ASSUME NEW t \in Thread, ResetIds(t) PROVE NewIds'
  <2>1. /\ pc[t] = "reset" /\ pc' = [pc EXCEPT ![t] = "idle"] /\ op' = [op EXCEPT ![t] = NoOp]
        /\ UNCHANGED <<cluster, up, model, id, raced>>
        /\ cluster.standalone => gen' = NextId(model)
    BY <1>7 DEF ResetIds, Return
  <2>2. Resetting
    BY <2>1 DEF Resetting
  <2>3. cluster.standalone => \A r \in model.rows : r < gen'
    BY <2>1, NextIdIsNew DEF Data, DataTyped, RowsBounded
  <2>4. cluster.standalone /\ ~raced => \A u \in Thread : ~Creating(u)
    BY <2>2 DEF NewIds
  <2>5. \A u \in Thread : Creating(u)' => Creating(u)
    BY <1>1, <2>1, NoOpFits DEF Creating
  <2> QED BY <2>1, <2>3, <2>4, <2>5 DEF NewIds
<1>8. ASSUME NEW t \in Thread, NEW m \in cluster.methods, Call(t, m) PROVE NewIds'
  <2>1. PICK o : o = OpOf(m)
    OBVIOUS
  <2>2. PICK l \in {"bare", "wait"} : pc' = [pc EXCEPT ![t] = l]
    BY <1>8 DEF Call, Goto
  <2>3. /\ op' = [op EXCEPT ![t] = o] /\ UNCHANGED <<cluster, up, model>> /\ pc[t] = "idle"
        /\ up
        /\ o.creates <=> m \in Creators
    BY <1>8, <2>1, OpFits DEF Call, Control
  <2>4. Resetting' <=> Resetting
    BY <1>1, <2>2, <2>3 DEF Resetting
  <2>5. \A u \in Thread \ {t} : Creating(u)' <=> Creating(u)
    BY <1>1, <2>2, <2>3 DEF Creating
  <2>6. CASE m \in Creators
    <3>1. id' = [id EXCEPT ![t] = gen] /\ gen' = gen + 1 /\ (~raced' => ~raced /\ ~Resetting)
      BY <1>8, <2>6 DEF Call, Resetting
    <3> HIDE DEF Resetting
    <3> QED BY <1>1, <2>3, <2>4, <2>5, <3>1 DEF NewIds
  <2>7. CASE m \notin Creators
    <3>1. UNCHANGED ids
      BY <1>8, <2>7 DEF Call
    <3>2. ~Creating(t)'
      BY <1>1, <2>3, <2>7 DEF Creating
    <3> HIDE DEF Resetting
    <3> QED BY <2>3, <2>4, <2>5, <3>1, <3>2 DEF NewIds
  <2> QED BY <2>6, <2>7
<1>9. CASE GetDiff \/ \E own \in BOOLEAN : AskDiff(own)
  <2>1. /\ pc' = [pc EXCEPT !["mixer"] = "wait"] /\ "mixer" \notin Thread
        /\ \A u \in Thread : op'[u] = op[u]
        /\ UNCHANGED <<cluster, up, model, ids>>
    BY <1>1, <1>9, ServingAssumption DEF GetDiff, AskDiff, Goto
  <2>2. (Resetting' <=> Resetting) /\ \A u \in Thread : Creating(u)' <=> Creating(u)
    BY <1>1, <2>1 DEF Resetting, Creating
  <2> HIDE DEF Resetting
  <2> QED BY <2>1, <2>2 DEF NewIds
<1>10. CASE Crash \/ GetDiffDies
  <2>1. /\ \A t \in Thread : pc'[t] = "idle"
        /\ up' = FALSE
    BY <1>1, <1>10 DEF Crash, GetDiffDies, Dies
  <2> QED BY <2>1 DEF NewIds, Creating
<1>11. ASSUME NEW c \in Configs, Restart(c) PROVE NewIds'
  <2>1. UNCHANGED <<pc, op, cluster>> /\ \A t \in Thread : pc[t] = "idle"
    BY <1>1, <1>11 DEF Restart, Control, Placed
  <2>2. \A r \in model'.rows : r < gen'
    <3>1. CASE model' = Fresh(c)
      BY <3>1, Models
    <3>2. CASE model' = file.model /\ gen' = NextId(file.model)
      BY <3>2, NextIdIsNew DEF Data, DataTyped, RowsBounded
    <3> QED BY <1>11, <3>1, <3>2 DEF Restart
  <2> QED BY <2>1, <2>2 DEF NewIds, Creating
<1>12. CASE UNCHANGED <<cluster, up, pc, op, model, ids>>
  BY <1>12 DEF NewIds, Creating, Resetting
<1>13. ASSUME NEW t \in Thread, NEW amount \in {"part", "all"}, Write(t, amount) PROVE NewIds'
  BY <1>12, <1>13 DEF Write
<1> QED BY <1>4, <1>5, <1>6, <1>7, <1>8, <1>9, <1>10, <1>11, <1>12, <1>13
        DEF Next, Server, vars, Worker

-----------------------------------------------------------------------------
(* The server starts with data of these types.                              *)
LEMMA InitData == Init => Data
<1> SUFFICES ASSUME Init PROVE Data
  OBVIOUS
<1>1. PICK sc \in Scenarios : left = sc.left
  BY DEF Init
<1>2. left \in [Budgets -> Nat]
  BY <1>1, ScenarioAssumption
<1>3. model \in Model /\ model.rows = {} /\ config \in Configs
  BY Models DEF Init, Configs
<1>4. file \in [ino : Nat, state : FileStates, model : Model] /\ file.model.rows = {}
  BY Models DEF Init, NoFile, FileStates
<1>5. /\ fd \in [Thread -> Fds] /\ \A t \in Thread : fd[t].packed.rows = {}
      /\ promised \in Model
  BY Models, NoFdTyped DEF Init
<1>6. DataTyped
  BY <1>2, <1>3, <1>4, <1>5 DEF Init, DataTyped
<1>7. RowsBounded
  BY <1>3, <1>4, <1>5, BoundedSets DEF RowsBounded
<1> QED BY <1>6, <1>7 DEF Data

(* The inductive invariant.                                                 *)
IInv == Control /\ Data /\ Counted /\ Saved /\ Sound /\ NewIds

(* It holds at the start,                                                   *)
LEMMA InitIInv == Init => IInv
<1> SUFFICES ASSUME Init PROVE IInv
  OBVIOUS
<1>1. Counted
  BY DEF Init, Counted, UnmixedAreCounted
<1>2. Saved
  BY DEF Init, Saved, SavedIsThere, Saving, Worker
<1>3. Sound
  BY DEF Init, Sound, ModelIsSound, Fresh, NoFile, Worker
<1>4. NewIds
  BY DEF Init, NewIds, Creating, Fresh, Worker
<1> QED BY <1>1, <1>2, <1>3, <1>4, InitControl, InitData DEF IInv

(* every step keeps it,                                                     *)
LEMMA StepIInv == IInv /\ [Next]_vars => IInv'
  BY ControlStep, DataStep, CountedStep, SavedStep, SoundStep, NewIdsStep DEF IInv, Data

(* and so it always holds.                                                  *)
LEMMA Always == Spec => []IInv
  BY InitIInv, StepIInv, PTL DEF Spec

(* Every variable of the server keeps its type.                             *)
THEOREM Typing == Spec => []TypeOK
<1>1. IInv => TypeOK
  <2> SUFFICES ASSUME IInv PROVE TypeOK
    OBVIOUS
  <2>1. \A t \in readers \cup writer : pc[t] \in {"driver", "open", "flock", "write", "reset"}
    BY DEF IInv, Control, Locked, Holding
  <2>2. \A t \in Worker : pc[t] = "idle" <=> op[t] = NoOp
    BY DEF IInv, Control, Placed
  <2>3. \A b \in DOMAIN left : left[b] \in Nat
    BY DEF IInv, Data, DataTyped
  <2>4. flocked \subseteq {t \in Thread : pc[t] = "write"}
    BY DEF IInv, Saved
  <2> QED BY <2>1, <2>2, <2>3, <2>4 DEF IInv, Control, WorkTyped, Data, DataTyped, TypeOK, Model, FileStates
<1> QED BY <1>1, Always, PTL

(* What waits to be mixed is counted, unless it came in during a mix, the   *)
(* mix failed, or the method does not tell: put_diff and the methods that   *)
(* tell exclude each other by rw_mutex_.                                    *)
THEOREM Counting == Spec => []UnmixedAreCounted
<1>1. IInv => UnmixedAreCounted
  BY DEF IInv, Counted
<1> QED BY <1>1, Always, PTL

(* What a successful save answered for is in the file, as long as no later  *)
(* save touches it and it had the file for itself.                          *)
THEOREM Saves == Spec => []SavedIsThere
<1>1. IInv => SavedIsThere
  BY DEF IInv, Saved
<1> QED BY <1>1, Always, PTL

(* A model that comes out of a file is one that a server had, built with    *)
(* the configuration the server runs with.                                  *)
THEOREM Soundness == Spec => []ModelIsSound
<1>1. IInv => ModelIsSound
  BY DEF IInv, Sound
<1> QED BY <1>1, Always, PTL

(* A standalone server gives a new row an id no row of its model has,       *)
(* unless a load overtook the call: after a load the generator starts above *)
(* the greatest id loaded.                                                  *)
THEOREM FreshIds == Spec => []NewRowsAreNew
<1>1. IInv => NewRowsAreNew
  BY DEF IInv, NewIds, NewRowsAreNew, Creating
<1> QED BY <1>1, Always, PTL
=============================================================================
