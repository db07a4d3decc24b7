------------------------------ MODULE Serving ------------------------------
(***************************************************************************)
(* One server while it serves: its RPC threads run the methods of a        *)
(* service (module Methods) on the model, under the read/write lock of     *)
(* server_base or on their own; the mixer takes diffs and puts them back;  *)
(* save and load move the model to a file and back                         *)
(* (framework/server_base.cpp, framework/save_load.cpp); and the process   *)
(* may crash and start again, from the file or without it.                 *)
(*                                                                         *)
(* A model is a version number (every change makes a new one), the ids of  *)
(* its rows, and the configuration it was built with.  Core drivers are    *)
(* external: a change is one step at the end of the call.                  *)
(***************************************************************************)
EXTENDS Integers, FiniteSets, FiniteSetsExt, Methods

CONSTANTS
  Thread,        \* the RPC threads that serve clients
  Scenarios      \* what to start from: the service, standalone or not, the
                 \* methods clients call, and the bounds

ASSUME ServingAssumption == "mixer" \notin Thread

Budgets == {"calls", "saves", "mixes", "crashes", "fails"}
MethodsOf(s) == (DOMAIN Services[s].locks) \cup {"get_config", "save", "load", "get_status"}

(* A scenario is about one of the services, and its clients call methods   *)
(* that the service has.                                                   *)
ASSUME ScenarioAssumption ==
  \A sc \in Scenarios :
    /\ sc.service \in DOMAIN Services /\ sc.standalone \in BOOLEAN
    /\ sc.methods \subseteq MethodsOf(sc.service)
    /\ sc.left \in [Budgets -> Nat]

(* "mixer" stands for whichever thread runs get_diff and put_diff. *)
Worker == Thread \cup {"mixer"}

VARIABLES
  cluster,       \* [service, standalone, methods]
  up,            \* the process runs
  config,        \* config_, which the driver was built with
  pc,            \* where a worker is
  op,            \* what it runs
  readers, writer,  \* rw_mutex_
  model,         \* the driver's model
  stamp,         \* versions made so far
  gen,           \* the next id of the standalone id generator
  id,            \* the id a thread has generated for a new row
  raced,         \* history: a load and a call that creates a row overlapped
  counter,       \* the mixer's counter_
  diff, taken,   \* the changes not mixed yet, and those of get_diff
  forgotten,     \* history: changes of diff that counter_ does not count
  file,          \* the model file of the one model id
  fd,            \* the open file of a thread that saves
  flocked,       \* the threads that hold their file's exclusive lock
  promised,      \* history: the model a successful save has put in the file,
                 \* as long as no later save has opened it
  contested,     \* history: that save had the file open together with another
  left           \* how much of each bound is left

work == <<pc, op>>
lock == <<readers, writer>>
ids == <<gen, id, raced>>
mixing == <<counter, diff, taken, forgotten>>
disk == <<file, fd, flocked>>
promise == <<promised, contested>>
fixed == <<cluster, up, config>>
vars == <<fixed, work, lock, model, stamp, ids, mixing, disk, promise, left>>

Spend(b) == left[b] > 0 /\ left' = [left EXCEPT ![b] = @ - 1]

Configs == {"c1", "c2"}
Fresh(c) == [version |-> 0, rows |-> {}, config |-> c]
Garbage == [version |-> -1, rows |-> {}, config |-> "c1"]
NoModel == [version |-> -2, rows |-> {}, config |-> "c1"]
NoOp == [lock |-> "none", effect |-> "none", creates |-> FALSE, clears |-> FALSE]
Internal(l, e) == [NoOp EXCEPT !.lock = l, !.effect = e]
NoFd == [ino |-> 0, wrote |-> "nothing", holed |-> FALSE, packed |-> NoModel]
NoFile == [ino |-> 0, state |-> "none", model |-> NoModel]

(* The methods that put a new row in the model, under an id of their own. *)
Creators == {"add", "create_node", "create_edge"}

OpOf(m) ==
  [lock |-> Lock(cluster.service, m),
   effect |-> IF m \in {"save", "load"} THEN m
              ELSE IF m \in {"get_config", "get_status"} THEN "read"
              ELSE Effect(cluster.service, m),
   creates |-> m \in Creators, clears |-> m = "clear"]

(* The lock the thread asks for: NOLOCK_ methods ask for the write lock in *)
(* the service, if they ask for one at all.                                *)
Mode(t) == IF op[t].lock = "N" THEN "W" ELSE op[t].lock
(* event_model_updated is called while the write lock is held: by JWLOCK_, *)
(* or by the method itself.                                                *)
Tells(t) ==
  \/ op[t].lock = "W" /\ op[t].effect # "put_diff"
  \/ op[t].effect \in {"counted", "late"}

Locations == {"idle", "wait", "driver", "bare", "open", "flock", "write", "reset"}

TypeOK ==
  /\ up \in BOOLEAN /\ config \in Configs
  /\ pc \in [Worker -> Locations]
  /\ \A t \in Worker : pc[t] = "idle" <=> op[t] = NoOp
  /\ readers \subseteq Worker /\ writer \subseteq Worker
  /\ \A t \in readers \cup writer : pc[t] \in {"driver", "open", "flock", "write", "reset"}
  /\ stamp \in Nat /\ gen \in Nat /\ model.rows \subseteq Nat
  /\ id \in [Thread -> Nat] /\ raced \in BOOLEAN
  /\ counter \in Nat /\ diff \subseteq 1..stamp
  /\ taken \subseteq 1..stamp /\ forgotten \subseteq 1..stamp
  /\ file.state \in {"none", "empty", "part", "whole", "broken"}
  /\ flocked \subseteq {t \in Thread : pc[t] = "write"}
  /\ \A b \in DOMAIN left : left[b] \in Nat

Init ==
  /\ \E sc \in Scenarios :
       /\ cluster = [service |-> sc.service, standalone |-> sc.standalone,
                     methods |-> sc.methods]
       /\ left = sc.left
  /\ up = TRUE /\ config = "c1"
  /\ pc = [t \in Worker |-> "idle"] /\ op = [t \in Worker |-> NoOp]
  /\ readers = {} /\ writer = {}
  /\ model = Fresh("c1") /\ stamp = 0
  /\ gen = 0 /\ id = [t \in Thread |-> 0] /\ raced = FALSE
  /\ counter = 0 /\ diff = {} /\ taken = {} /\ forgotten = {}
  /\ file = NoFile /\ fd = [t \in Thread |-> NoFd] /\ flocked = {}
  /\ promised = NoModel /\ contested = FALSE

-----------------------------------------------------------------------------
(* rw_mutex_ and the scope of a method. *)

Goto(t, l) == pc' = [pc EXCEPT ![t] = l]

Free(m) == writer = {} /\ (m = "W" => readers = {})

Hold(t, m) ==
  /\ Free(m)
  /\ IF m = "W" THEN writer' = {t} /\ UNCHANGED readers
     ELSE readers' = readers \cup {t} /\ UNCHANGED writer

(* The answer, or an exception that leaves the method: the scoped lock and *)
(* whatever else the method holds are given back.                          *)
Return(t) ==
  /\ pc' = [pc EXCEPT ![t] = "idle"] /\ op' = [op EXCEPT ![t] = NoOp]
  /\ readers' = readers \ {t} /\ writer' = writer \ {t}

(* A client's call reaches a thread.  NOLOCK_ methods that do not lock go  *)
(* straight to the driver; those that create a row generate its id first,  *)
(* before they wait for the lock.                                          *)
Call(t, m) ==
  /\ up /\ pc[t] = "idle" /\ Spend(IF m = "save" THEN "saves" ELSE "calls")
  /\ m \in cluster.methods
  /\ op' = [op EXCEPT ![t] = OpOf(m)]
  /\ Goto(t, IF OpOf(m).lock = "N" /\ OpOf(m).effect \in {"read", "change"}
             THEN "bare" ELSE "wait")
  /\ IF m \in Creators
     THEN /\ id' = [id EXCEPT ![t] = gen] /\ gen' = gen + 1
          /\ raced' = (raced \/ \E u \in Thread : pc[u] = "reset")
     ELSE UNCHANGED ids
  /\ UNCHANGED <<fixed, lock, model, stamp, mixing, disk, promise>>

(* Variant: JWLOCK_ forgets to tell the mixer. *)
EnterUntold(t) ==
  /\ pc[t] = "wait" /\ op[t].effect # "late" /\ Hold(t, Mode(t))
  /\ counter' = IF op[t].effect = "counted" THEN counter + 1 ELSE counter
  /\ Goto(t, IF op[t].effect = "save" THEN "open" ELSE "driver")
  /\ UNCHANGED <<fixed, op, model, stamp, ids, diff, taken, forgotten, disk, promise, left>>

(* The lock is taken, and the mixer told if the method changes the model.  *)
Enter(t) ==
  /\ pc[t] = "wait" /\ op[t].effect # "late" /\ Hold(t, Mode(t))
  /\ counter' = IF Tells(t) THEN counter + 1 ELSE counter
  /\ Goto(t, IF op[t].effect = "save" THEN "open" ELSE "driver")
  /\ UNCHANGED <<fixed, op, model, stamp, ids, diff, taken, forgotten, disk, promise, left>>

(* classifier_serv takes the write lock only to tell the mixer. *)
TellFirst(t) ==
  /\ pc[t] = "wait" /\ op[t].effect = "late" /\ Free("W")
  /\ counter' = counter + 1
  /\ Goto(t, "bare")
  /\ UNCHANGED <<fixed, op, lock, model, stamp, ids, diff, taken, forgotten, disk, promise, left>>

(* A new version of the model.  A create in distributed mode ends up here  *)
(* too, for the rows that are this server's; its id then comes from        *)
(* ZooKeeper and is not modelled here.                                     *)
Changed(t) ==
  /\ stamp' = stamp + 1
  /\ model' = [model EXCEPT !.version = stamp + 1,
                            !.rows = IF op[t].clears THEN {}
                                     ELSE IF op[t].creates THEN @ \cup {id[t]} ELSE @]
  /\ diff' = diff \cup {stamp + 1}
  /\ forgotten' = IF pc[t] = "driver" /\ Tells(t) THEN forgotten ELSE forgotten \cup {stamp + 1}

(* The driver's part of a method, which may also throw. *)
Work(t) ==
  /\ pc[t] \in {"driver", "bare"} /\ op[t].effect \notin {"load", "get_diff", "put_diff"}
  /\ Return(t)
  /\ \/ op[t].effect # "read" /\ Changed(t)
     \/ UNCHANGED <<model, stamp, diff, forgotten>>
  /\ UNCHANGED <<fixed, ids, counter, taken, disk, promise, left>>

-----------------------------------------------------------------------------
(* The mixer (linear_mixer.cpp); the protocol between servers is module    *)
(* LinearMixer.                                                            *)

(* A master, this server's or another's, asks for the diff.  The server    *)
(* that is the master itself has set counter_ to 0 before.                 *)
AskDiff(own) ==
  /\ up /\ ~cluster.standalone /\ pc["mixer"] = "idle" /\ taken = {} /\ Spend("mixes")
  /\ own => counter > 0
  /\ counter' = IF own THEN 0 ELSE counter
  /\ op' = [op EXCEPT !["mixer"] = Internal("R", "get_diff")]
  /\ Goto("mixer", "wait")
  /\ UNCHANGED <<fixed, lock, model, stamp, ids, diff, taken, forgotten, disk, promise>>

GetDiff ==
  /\ pc["mixer"] = "driver" /\ op["mixer"].effect = "get_diff" /\ MixerHasDriver(cluster.service)
  /\ taken' = diff
  /\ readers' = readers \ {"mixer"}
  /\ op' = [op EXCEPT !["mixer"] = Internal("W", "put_diff")]
  /\ Goto("mixer", "wait")
  /\ UNCHANGED <<fixed, writer, model, stamp, ids, counter, diff, forgotten, disk, promise, left>>

(* What came in since get_diff stays in the diff, but is no longer counted. *)
PutDiff ==
  /\ pc["mixer"] = "driver" /\ op["mixer"].effect = "put_diff"
  /\ Return("mixer")
  /\ diff' = diff \ taken /\ taken' = {} /\ counter' = 0
  /\ forgotten' = (forgotten \cup diff) \ taken
  /\ stamp' = stamp + 1 /\ model' = [model EXCEPT !.version = stamp + 1]
  /\ UNCHANGED <<fixed, ids, disk, promise, left>>

(* The mix ends without a put_diff: a peer failed, or nothing was merged. *)
MixFails ==
  /\ pc["mixer"] = "wait" /\ op["mixer"].effect = "put_diff"
  /\ Return("mixer")
  /\ taken' = {} /\ forgotten' = forgotten \cup diff
  /\ UNCHANGED <<fixed, model, stamp, ids, counter, diff, disk, promise, left>>

-----------------------------------------------------------------------------
(* save: the file is opened, which truncates it, before it is locked.      *)

SameFile(t, u) == fd[t].ino = fd[u].ino

Saving(t) == pc[t] \in {"flock", "write"}

Open(t) ==
  /\ pc[t] = "open"
  /\ LET ino == IF file.state = "none" THEN file.ino + 1 ELSE file.ino IN
     /\ file' = [ino |-> ino, state |-> "empty", model |-> NoModel]
     /\ fd' = [u \in Thread |->
                 IF u = t THEN [NoFd EXCEPT !.ino = ino]
                 ELSE [fd[u] EXCEPT !.holed = @ \/ (fd[u].ino = ino /\ fd[u].wrote # "nothing")]]
  /\ promised' = NoModel /\ contested' = \E u \in Thread \ {t} : Saving(u)
  /\ Goto(t, "flock")
  /\ UNCHANGED <<fixed, op, lock, model, stamp, ids, mixing, flocked, left>>

(* The lock is taken, and save_server packs the model. *)
Flock(t) ==
  /\ pc[t] = "flock" /\ \A u \in flocked : ~SameFile(t, u)
  /\ flocked' = flocked \cup {t} /\ Goto(t, "write")
  /\ fd' = [fd EXCEPT ![t].packed = model]
  /\ UNCHANGED <<fixed, op, lock, model, stamp, ids, mixing, file, promise, left>>

(* The call ends, and the file is closed and unlocked. *)
Leave(t) ==
  /\ Return(t)
  /\ fd' = [fd EXCEPT ![t] = NoFd] /\ flocked' = flocked \ {t}

(* LOCK_NB: somebody saves to this file. *)
FlockFails(t) ==
  /\ pc[t] = "flock" /\ \E u \in flocked : SameFile(t, u)
  /\ Leave(t)
  /\ UNCHANGED <<fixed, model, stamp, ids, mixing, file, promise, left>>

(* fwrite passes on some of the data, or all of it, before fclose. *)
Content(t, state) ==
  IF fd[t].ino # file.ino \/ file.state = "none" THEN file
  ELSE IF fd[t].holed THEN [file EXCEPT !.state = "broken", !.model = Garbage]
  ELSE [file EXCEPT !.state = state, !.model = IF state = "whole" THEN fd[t].packed ELSE NoModel]

Write(t, amount) ==
  /\ pc[t] = "write" /\ fd[t].wrote # "all" /\ fd[t].wrote # amount
  /\ file' = Content(t, IF amount = "all" THEN "whole" ELSE "part")
  /\ fd' = [fd EXCEPT ![t].wrote = amount]
  /\ UNCHANGED <<fixed, work, lock, model, stamp, ids, mixing, flocked, promise, left>>

(* Variant: the error of fclose is ignored. *)
CloseUnchecked(t) ==
  /\ pc[t] = "write"
  /\ UNCHANGED file
  /\ promised' = fd[t].packed
  /\ Leave(t)
  /\ UNCHANGED <<fixed, model, stamp, ids, mixing, contested, left>>

(* fclose writes what is left; save answers with the path. *)
Close(t) ==
  /\ pc[t] = "write"
  /\ file' = IF fd[t].wrote = "all" THEN file ELSE Content(t, "whole")
  /\ promised' = fd[t].packed
  /\ Leave(t)
  /\ UNCHANGED <<fixed, model, stamp, ids, mixing, contested, left>>

(* fwrite or fclose fails: the dirty file is removed by its path. *)
WriteFails(t) ==
  /\ pc[t] = "write" /\ Spend("fails")
  /\ file' = [file EXCEPT !.state = "none", !.model = NoModel]
  /\ promised' = NoModel
  /\ Leave(t)
  /\ UNCHANGED <<fixed, model, stamp, ids, mixing, contested>>

-----------------------------------------------------------------------------
(* load: everything is read and checked before the driver unpacks it.      *)

(* Variant: the checksum is not compared. *)
ReadableUnsummed == file.state \in {"whole", "broken"}

Readable == file.state = "whole"              \* magic, version, sizes, crc32
SameConfig == file.model.config = config      \* compare_config

Load(t) ==
  /\ pc[t] = "driver" /\ op[t].effect = "load" /\ Readable /\ SameConfig
  /\ model' = file.model
  /\ diff' \in {diff, {}}      \* up to the core driver
  /\ raced' = (raced \/ \E u \in Thread : op[u].creates)
  /\ Goto(t, "reset")
  /\ UNCHANGED <<fixed, op, lock, stamp, gen, id, counter, taken, forgotten, disk,
                 promise, left>>

(* Variant: the exception leaves the lock behind. *)
LoadThrowsLocked(t) ==
  /\ pc[t] = "driver" /\ op[t].effect = "load" /\ ~(Readable /\ SameConfig)
  /\ Goto(t, "idle") /\ op' = [op EXCEPT ![t] = NoOp]
  /\ UNCHANGED <<fixed, lock, model, stamp, ids, mixing, disk, promise, left>>

LoadThrows(t) ==
  /\ pc[t] = "driver" /\ op[t].effect = "load" /\ ~(Readable /\ SameConfig)
  /\ Return(t)
  /\ UNCHANGED <<fixed, model, stamp, ids, mixing, disk, promise, left>>

(* Variant: the greatest id is taken for the next one. *)
NextIdTaken(m) == IF m.rows = {} THEN 0 ELSE Max(m.rows)

(* find_max_int_id() + 1 *)
NextId(m) == IF m.rows = {} THEN 0 ELSE Max(m.rows) + 1

(* The load is over; graph_serv and anomaly_serv restart the generator,    *)
(* which an add on another thread may use at any moment.                   *)
ResetIds(t) ==
  /\ pc[t] = "reset"
  /\ gen' = IF cluster.standalone THEN NextId(model) ELSE gen
  /\ Return(t)
  /\ UNCHANGED <<fixed, model, stamp, id, raced, mixing, disk, promise, left>>

-----------------------------------------------------------------------------
(* The process dies, and the kernel closes its files. *)

Dies ==
  /\ up' = FALSE
  /\ pc' = [t \in Worker |-> "idle"] /\ op' = [t \in Worker |-> NoOp]
  /\ readers' = {} /\ writer' = {}
  /\ fd' = [t \in Thread |-> NoFd] /\ flocked' = {}
  /\ counter' = 0 /\ diff' = {} /\ taken' = {} /\ forgotten' = {}
  /\ UNCHANGED <<cluster, config, model, stamp, ids, file, promise>>

Crash == up /\ Spend("crashes") /\ Dies

(* get_diff without a driver: the mixer asks a null pointer for its        *)
(* mixables.                                                               *)
GetDiffDies ==
  /\ pc["mixer"] = "driver" /\ op["mixer"].effect = "get_diff" /\ ~MixerHasDriver(cluster.service)
  /\ Dies
  /\ UNCHANGED left

(* It is started with a configuration, or, standalone, from the file, whose *)
(* configuration it takes over; it does not start from a bad file.         *)
Restart(c) ==
  /\ ~up
  /\ up' = TRUE /\ config' = c /\ raced' = FALSE
  /\ \/ model' = Fresh(c) /\ gen' = 0
     \/ /\ cluster.standalone /\ Readable /\ c = file.model.config
        /\ model' = file.model /\ gen' = NextId(file.model)
  /\ UNCHANGED <<cluster, work, lock, stamp, id, mixing, disk, promise, left>>

-----------------------------------------------------------------------------

Server(t) ==
  \/ Enter(t) \/ TellFirst(t) \/ Work(t)
  \/ t \in Thread /\ (Open(t) \/ Flock(t) \/ FlockFails(t) \/ Close(t))
  \/ t \in Thread /\ \E amount \in {"part", "all"} : Write(t, amount)
  \/ t \in Thread /\ (Load(t) \/ LoadThrows(t) \/ ResetIds(t))
  \/ t = "mixer" /\ (GetDiff \/ PutDiff \/ MixFails)

Next ==
  \/ \E t \in Worker : Server(t)
  \/ \E t \in Thread, m \in cluster.methods : Call(t, m)
  \/ \E own \in BOOLEAN : AskDiff(own)
  \/ \E t \in Thread : WriteFails(t)
  \/ Crash \/ GetDiffDies
  \/ \E c \in Configs : Restart(c)

Spec == Init /\ [][Next]_vars

-----------------------------------------------------------------------------
(* Properties. *)

(* The core drivers of these services lock themselves. *)
SelfLocked == {"classifier", "weight", "nearest_neighbor"}

InDriver(t) == pc[t] \in {"driver", "bare", "flock", "write", "reset"}
Changes(t) ==
  pc[t] \in {"driver", "bare", "reset"} /\ op[t].effect \notin {"read", "save", "get_diff"}

(* Whatever mix of client calls, mixes, saves and loads is under way, no    *)
(* worker changes the driver's model while another one is in the driver:    *)
(* the lock each method takes in *_impl.cpp, or takes itself, is enough for *)
(* what it does in *_serv.cpp.                                              *)
DriverExclusion ==
  \A t, u \in Worker :
    t # u /\ InDriver(t) /\ Changes(u) => cluster.service \in SelfLocked

(* What waits to be mixed is counted by the mixer, so that a mix will come, *)
(* unless it came in during a mix (put_diff sets counter_ to 0), the mix    *)
(* failed, or the method did not tell the mixer under the lock it changed   *)
(* the model under.                                                         *)
UnmixedAreCounted ==
  pc["mixer"] = "idle" /\ up => diff \subseteq forgotten \/ counter > 0

(* What a successful save answered for is in the file, as long as no later  *)
(* save touches it and it had the file for itself, whatever crashes follow. *)
SavedIsThere ==
  promised # NoModel /\ ~contested => file.state = "whole" /\ file.model = promised

(* A model that comes out of a file, after any crash or concurrent save, is *)
(* one that a server had, and was built with the server's configuration.    *)
ModelIsSound == model.version >= 0 /\ (up => model.config = config)

(* A standalone server gives a new row an id that no row of its model has,  *)
(* loaded rows included, unless a load overtook the call.                   *)
NewRowsAreNew ==
  cluster.standalone /\ ~raced =>
    \A t \in Thread : op[t].creates /\ pc[t] # "idle" => id[t] \notin model.rows

(* Every call is answered: no lock is left behind by a call that throws,    *)
(* and no two calls wait for each other.                                    *)
RequestsEnd == []<>(\A t \in Worker : pc[t] = "idle")

-----------------------------------------------------------------------------
(* A thread that can go on does, and a process that died is started again. *)
FairSpec ==
  /\ Spec /\ \A t \in Worker : WF_vars(Server(t))
  /\ WF_vars(GetDiffDies) /\ WF_vars(\E c \in Configs : Restart(c))

=============================================================================
