------------------------------ MODULE Startup ------------------------------
(***************************************************************************)
(* The life of a server process (framework/server_helper.{hpp,cpp},        *)
(* common/signals.cpp) next to the commands that write and delete the      *)
(* configuration of its cluster (cmd/jubaconfig.cpp, common/config.cpp).   *)
(* A server holds the configuration's read lock from before it reads it    *)
(* until it stops; a command takes the write lock and looks for running    *)
(* servers.  A proxy (framework/proxy.cpp, proxy_common.cpp) lives on the  *)
(* same parts without a configuration and a mixer, registers in a list of  *)
(* its own, and ends in another order.                                     *)
(*                                                                         *)
(* The lock is the one of module RWLock, which ZkMutex implements.         *)
(* ZooKeeper is external: sessions that may expire, and that take their    *)
(* nodes and locks with them; calls that may fail.                         *)
(***************************************************************************)
EXTENDS Naturals, FiniteSets

CONSTANTS
  Process,       \* servers and proxies; one that starts again is another process
  Proxy,         \* the proxies among them
  Address,       \* the ip and port of a process: Address[p]
  Command,       \* runs of jubaconfig
  Retries,       \* of the lock: 3 in the code
  Budgets        \* bounds: processes and commands, failures, expiries,
                 \* crashes, signals and deletions

ASSUME StartupAssumption == Proxy \subseteq Process /\ Process \cap Command = {} /\ Retries \in Nat

VARIABLES
  main,          \* where the main thread of a process is
  action,        \* action_on_term
  sig,           \* where its signal thread is
  term,          \* SIGTERM or SIGINT is pending
  conf,          \* the configuration it has set
  rpc, mixer,    \* its RPC server and its mixer thread run
  zkset,         \* zk_ of the helper is not reset
  retry,         \* attempts left at the lock
  session,       \* processes and commands that have a session
  held,          \* the configuration's lock (RWLock)
  nodes,         \* processes whose node is a child of /nodes, or of the
                 \* proxies' list
  watching,      \* processes whose watch on their node is set
  lockPath,      \* the lock's path has been created
  znode,         \* the configuration in ZooKeeper
  cmd,           \* a command: what it does, and where it is
  blind,         \* history: a command took a list it could not get for an empty one
  left           \* how much of each bound is left

process == <<main, action, sig, term, conf, rpc, mixer, zkset, retry>>
zk == <<session, held, nodes, watching, lockPath, znode>>
vars == <<process, zk, cmd, blind, left>>

ConfigLock == INSTANCE RWLock WITH Objects <- Process \cup Command

Spend(b) == left[b] > 0 /\ left' = [left EXCEPT ![b] = @ - 1]

(* Configurations: one that a server takes, and one it refuses.  A node    *)
(* that has been created and not set holds the empty one.                  *)
Absent == "absent"
Empty == "empty"
Configs == {"good", "bad"}
None == "none"

Alive(p) == main[p] \notin {"off", "dead"}
Stopping(p) == sig[p] \notin {"wait", "over"}

Mains == {"off", "connect", "prepare", "lock", "configure", "listen", "register", "watch",
          "handle", "mix", "join", "dead"}

TypeOK ==
  /\ main \in [Process -> Mains]
  /\ action \in [Process -> {"exit", "stop", None}]
  /\ sig \in [Process -> {"wait", "stop_mixer", "unlock", "close", "end", "over"}]
  /\ conf \in [Process -> Configs \cup {None}]
  /\ znode \in Configs \cup {Absent, Empty}
  /\ ConfigLock!TypeOK
  /\ \A o \in Process \cup Command : held[o] # "none" => o \in session
  /\ nodes \cup watching \subseteq session
  /\ \A p \in Process : main[p] \in {"off", "connect"} => p \notin session
  /\ \A p \in Process : ~Alive(p) => ~rpc[p] /\ ~mixer[p]
  /\ \A p, q \in nodes : Address[p] = Address[q] /\ (p \in Proxy <=> q \in Proxy) => p = q
  /\ \A p \in Proxy : conf[p] = None /\ held[p] = "none" /\ p \notin watching

Init ==
  /\ main = [p \in Process |-> "off"] /\ action = [p \in Process |-> None]
  /\ sig = [p \in Process |-> "wait"] /\ term = [p \in Process |-> FALSE]
  /\ conf = [p \in Process |-> None] /\ retry = [p \in Process |-> Retries]
  /\ rpc = [p \in Process |-> FALSE] /\ mixer = [p \in Process |-> FALSE]
  /\ zkset = [p \in Process |-> FALSE]
  /\ session = {} /\ ConfigLock!Init /\ nodes = {} /\ watching = {}
  /\ \/ lockPath = FALSE /\ znode = Absent
     \/ lockPath = TRUE /\ znode \in {Absent, "good"}
  /\ cmd = [c \in Command |-> [do |-> None, value |-> None, at |-> "idle", retry |-> Retries]]
  /\ blind = FALSE /\ left \in Budgets

-----------------------------------------------------------------------------
(* The end of a process. *)

(* The session ends: its nodes, watches and locks are gone. *)
CloseSession(S) ==
  /\ session' = session \ S /\ nodes' = nodes \ S /\ watching' = watching \ S
  /\ ConfigLock!Release(S)

Quiet(p) ==
  /\ rpc' = [rpc EXCEPT ![p] = FALSE] /\ mixer' = [mixer EXCEPT ![p] = FALSE]
  /\ main' = [main EXCEPT ![p] = "dead"]

(* The main thread returns, or some thread calls exit: close_lock_service  *)
(* runs at exit, whichever way.                                            *)
Exit(p) ==
  /\ Quiet(p) /\ CloseSession({p})
  /\ UNCHANGED <<action, sig, conf, zkset, retry, lockPath, znode, cmd, blind>>

(* The process is killed: its session stays until it expires. *)
Crash(p) ==
  /\ Alive(p) /\ Spend("crashes") /\ Quiet(p)
  /\ UNCHANGED <<action, sig, term, conf, zkset, retry, zk, cmd, blind>>

Steps(p, from, to) == main[p] = from /\ main' = [main EXCEPT ![p] = to]

-----------------------------------------------------------------------------
(* The main thread. *)

(* Variant: the thread waits for signals with no action to take. *)
BootDeaf(p) ==
  /\ Steps(p, "off", "connect") /\ p \in left.boots /\ left' = [left EXCEPT !.boots = @ \ {p}]
  /\ UNCHANGED <<action, sig, term, conf, rpc, mixer, zkset, retry, zk, cmd, blind>>

(* Signals are blocked and waited for by a thread of their own, whose      *)
(* action is exit until another is set.                                    *)
Boot(p) ==
  /\ Steps(p, "off", "connect") /\ p \in left.boots /\ left' = [left EXCEPT !.boots = @ \ {p}]
  /\ action' = [action EXCEPT ![p] = "exit"]
  /\ UNCHANGED <<sig, term, conf, rpc, mixer, zkset, retry, zk, cmd, blind>>

(* The constructor of zk waits until it is connected, or throws.           *)
Connect(p) ==
  /\ Steps(p, "connect", "prepare")
  /\ session' = session \cup {p} /\ zkset' = [zkset EXCEPT ![p] = TRUE]
  /\ UNCHANGED <<action, sig, term, conf, rpc, mixer, retry, held, nodes, watching, lockPath,
                 znode, cmd, blind, left>>

(* A call to ZooKeeper fails, always without a session. *)
Fails(o) == IF o \in session THEN Spend("fails") ELSE left' = left

(* get_conf finds a configuration, and set_config takes it.                *)
ConfigFromZk(p) == p \in session /\ znode # Absent
Takes(config) == config = "good"

(* zk::create of an ephemeral node fails when there is one of that name.   *)
CanCreate(p) ==
  /\ p \in session
  /\ \A q \in nodes : Address[q] = Address[p] => (p \in Proxy) # (q \in Proxy)

(* The main thread gives up: an exception, or exit. *)
GiveUp(p) ==
  /\ \/ main[p] \in {"prepare", "configure", "register", "watch"} /\ Fails(p)
     \/ main[p] = "connect" /\ Spend("fails")
     \/ /\ left' = left
        /\ \/ main[p] = "lock" /\ retry[p] = 0
           \/ main[p] = "configure" /\ ~(ConfigFromZk(p) /\ Takes(znode))
           \/ main[p] = "listen" /\ \E q \in Process : rpc[q] /\ Address[q] = Address[p]
           \/ main[p] = "register" /\ ~CanCreate(p)
           \/ main[p] = "watch" /\ p \notin nodes
           \/ main[p] = "join" /\ ~rpc[p]
  /\ term' = [term EXCEPT ![p] = FALSE] /\ Exit(p)

(* prepare_jubatus creates the paths of the cluster, for a proxy, which has *)
(* no name, only those above it.                                           *)
Prepare(p) ==
  /\ Steps(p, "prepare", IF p \in Proxy THEN "listen" ELSE "lock")
  /\ p \in session /\ lockPath' = (lockPath \/ p \notin Proxy)
  /\ UNCHANGED <<action, sig, term, conf, rpc, mixer, zkset, retry, session, held, nodes,
                 watching, znode, cmd, blind, left>>

(* Variant: without the lock it goes on. *)
LockAgainOrNot(p) ==
  /\ main[p] = "lock"
  /\ IF \E c \in Command : held[c] = "w" THEN left' = left ELSE Fails(p)
  /\ IF retry[p] > 0 THEN retry' = [retry EXCEPT ![p] = @ - 1] /\ main' = main
     ELSE main' = [main EXCEPT ![p] = "configure"] /\ retry' = retry
  /\ UNCHANGED <<action, sig, term, conf, rpc, mixer, zkset, zk, cmd, blind>>

(* get_config_lock: an attempt that fails is repeated after a second. *)
LockConfig(p) ==
  /\ main[p] = "lock" /\ p \in session /\ ConfigLock!Acquire(p, "r")
  /\ main' = [main EXCEPT ![p] = "configure"]
  /\ UNCHANGED <<action, sig, term, conf, rpc, mixer, zkset, retry, session, nodes, watching,
                 lockPath, znode, cmd, blind, left>>

LockAgain(p) ==
  /\ main[p] = "lock" /\ retry[p] > 0
  /\ IF \E c \in Command : held[c] = "w" THEN left' = left ELSE Fails(p)
  /\ retry' = [retry EXCEPT ![p] = @ - 1]
  /\ UNCHANGED <<main, action, sig, term, conf, rpc, mixer, zkset, zk, cmd, blind>>

(* get_conf and set_config. *)
Configure(p) ==
  /\ Steps(p, "configure", "listen") /\ ConfigFromZk(p) /\ Takes(znode)
  /\ conf' = [conf EXCEPT ![p] = znode]
  /\ UNCHANGED <<action, sig, term, rpc, mixer, zkset, retry, zk, cmd, blind, left>>

(* server_helper::start. *)
Listen(p) ==
  /\ Steps(p, "listen", "register")
  /\ \A q \in Process : rpc[q] => Address[q] # Address[p]
  /\ rpc' = [rpc EXCEPT ![p] = TRUE]
  /\ UNCHANGED <<action, sig, term, conf, mixer, zkset, retry, zk, cmd, blind, left>>

(* register_actor. *)
Register(p) ==
  /\ p \notin Proxy /\ Steps(p, "register", "watch") /\ CanCreate(p)
  /\ nodes' = nodes \cup {p}
  /\ UNCHANGED <<action, sig, term, conf, rpc, mixer, zkset, retry, session, held, watching,
                 lockPath, znode, cmd, blind, left>>

Watch(p) ==
  /\ Steps(p, "watch", "handle") /\ p \in nodes
  /\ watching' = watching \cup {p}
  /\ UNCHANGED <<action, sig, term, conf, rpc, mixer, zkset, retry, session, held, nodes,
                 lockPath, znode, cmd, blind, left>>

(* set_action_on_term, which swaps the action in. *)
Handle(p) ==
  /\ p \notin Proxy /\ Steps(p, "handle", "mix")
  /\ action' = [action EXCEPT ![p] = "stop"]
  /\ UNCHANGED <<sig, term, conf, rpc, mixer, zkset, retry, zk, cmd, blind, left>>

StartMixer(p) ==
  /\ Steps(p, "mix", "join") /\ mixer' = [mixer EXCEPT ![p] = TRUE]
  /\ UNCHANGED <<action, sig, term, conf, rpc, zkset, retry, zk, cmd, blind, left>>

(* register_proxy: nobody watches the node. *)
RegisterProxy(p) ==
  /\ p \in Proxy /\ Steps(p, "register", "handle") /\ CanCreate(p)
  /\ nodes' = nodes \cup {p}
  /\ UNCHANGED <<action, sig, term, conf, rpc, mixer, zkset, retry, session, held, watching,
                 lockPath, znode, cmd, blind, left>>

(* The last of proxy::run before it joins the RPC server. *)
HandleProxy(p) ==
  /\ p \in Proxy /\ Steps(p, "handle", "join")
  /\ action' = [action EXCEPT ![p] = "stop"]
  /\ UNCHANGED <<sig, term, conf, rpc, mixer, zkset, retry, zk, cmd, blind, left>>

-----------------------------------------------------------------------------
(* The signal thread: it takes the action of one signal and ends. *)

Signal(p) ==
  /\ Alive(p) /\ term[p] /\ sig[p] = "wait"
  /\ term' = [term EXCEPT ![p] = FALSE]
  /\ CASE action[p] = "exit" -> Exit(p) /\ left' = left
       [] action[p] = "stop" ->
            /\ sig' = [sig EXCEPT ![p] = IF p \in Proxy THEN "end" ELSE "stop_mixer"]
            /\ action' = [action EXCEPT ![p] = None]
            /\ UNCHANGED <<main, conf, rpc, mixer, zkset, retry, zk, cmd, blind, left>>
       [] OTHER ->
            /\ sig' = [sig EXCEPT ![p] = "over"]
            /\ UNCHANGED <<main, action, conf, rpc, mixer, zkset, retry, zk, cmd, blind, left>>

SigStep(p, from, to) == Alive(p) /\ sig[p] = from /\ sig' = [sig EXCEPT ![p] = to]

(* server_helper::stop: the mixer first.  One that the main thread has not *)
(* started yet is not stopped.                                             *)
StopMixer(p) ==
  /\ SigStep(p, "stop_mixer", "unlock") /\ mixer' = [mixer EXCEPT ![p] = FALSE]
  /\ UNCHANGED <<main, action, term, conf, rpc, zkset, retry, zk, cmd, blind, left>>

(* Variant: the RPC server ends before the session is closed. *)
UnlockAfterRpc(p) ==
  /\ SigStep(p, "unlock", "close") /\ rpc' = [rpc EXCEPT ![p] = FALSE]
  /\ ConfigLock!Release({p}) /\ zkset' = [zkset EXCEPT ![p] = FALSE]
  /\ UNCHANGED <<main, action, term, conf, mixer, retry, session, nodes, watching, lockPath,
                 znode, cmd, blind, left>>

(* prepare_for_stop gives back the configuration's lock and resets zk_, *)
Unlock(p) ==
  /\ SigStep(p, "unlock", "close")
  /\ ConfigLock!Release({p}) /\ zkset' = [zkset EXCEPT ![p] = FALSE]
  /\ UNCHANGED <<main, action, term, conf, rpc, mixer, retry, session, nodes, watching, lockPath,
                 znode, cmd, blind, left>>

(* and closes the session. *)
Close(p) ==
  /\ SigStep(p, "close", "end") /\ CloseSession({p})
  /\ UNCHANGED <<main, action, term, conf, rpc, mixer, zkset, retry, lockPath, znode, cmd, blind, left>>

(* The RPC server ends last, and the main thread returns from join.  It is *)
(* all that stop_rpc_server of a proxy does: the session ends with it.     *)
EndRpc(p) ==
  /\ SigStep(p, "end", "over") /\ rpc' = [rpc EXCEPT ![p] = FALSE]
  /\ UNCHANGED <<main, action, term, conf, mixer, zkset, retry, zk, cmd, blind, left>>

(* get_status while the RPC server runs: it calls zk_, which may be reset, *)
(* and the process ends by a fault.                                        *)
GetStatus(p) ==
  /\ rpc[p] /\ ~zkset[p] /\ Quiet(p)
  /\ UNCHANGED <<action, sig, term, conf, zkset, retry, zk, cmd, blind, left>>

-----------------------------------------------------------------------------
(* What happens to a process. *)

(* The session of a process or command expires: a live process hears of    *)
(* it, and its cleanup sends it SIGTERM.                                   *)
Expire(o) ==
  /\ o \in session /\ CloseSession({o})
  /\ IF o \in Process /\ ~Alive(o) THEN left' = left ELSE Spend("expiries")
  /\ term' = [p \in Process |-> term[p] \/ (p = o /\ Alive(p))]
  /\ UNCHANGED <<main, action, sig, conf, rpc, mixer, zkset, retry, lockPath, znode, cmd, blind>>

Kill(p) ==
  /\ Alive(p) /\ Spend("signals") /\ term' = [term EXCEPT ![p] = TRUE]
  /\ UNCHANGED <<main, action, sig, conf, rpc, mixer, zkset, retry, zk, cmd, blind>>

(* Somebody deletes the node of a process. *)
DeleteActor(p) ==
  /\ p \in nodes /\ Spend("deletions")
  /\ nodes' = nodes \ {p}
  /\ UNCHANGED <<process, session, held, watching, lockPath, znode, cmd, blind>>

(* The event comes later, while there is a session: term_if_deleted sends  *)
(* SIGINT.                                                                 *)
Deleted(p) ==
  /\ p \in watching \ nodes /\ Alive(p)
  /\ watching' = watching \ {p} /\ term' = [term EXCEPT ![p] = TRUE]
  /\ UNCHANGED <<main, action, sig, conf, rpc, mixer, zkset, retry, session, held, nodes,
                 lockPath, znode, cmd, blind, left>>

-----------------------------------------------------------------------------
(* jubaconfig. *)

At(c, from) == cmd[c].at = from
Goes(c, to) == cmd' = [cmd EXCEPT ![c].at = to]

CmdUnchanged == UNCHANGED <<process, nodes, watching>>

(* set_config prepares the paths; delete_config does not. *)
StartCommand(c, do, value) ==
  /\ At(c, "idle") /\ c \in left.commands /\ left' = [left EXCEPT !.commands = @ \ {c}]
  /\ session' = session \cup {c}
  /\ cmd' = [cmd EXCEPT ![c] = [do |-> do, value |-> value, retry |-> Retries,
                                 at |-> IF do = "write" THEN "prepare" ELSE "exists"]]
  /\ CmdUnchanged /\ UNCHANGED <<held, lockPath, znode, blind>>

(* The command ends, by an exception or not; its lock goes with it. *)
EndCommand(c) ==
  /\ Goes(c, "over") /\ session' = session \ {c} /\ ConfigLock!Release({c})
  /\ CmdUnchanged /\ UNCHANGED <<lockPath, blind>>

PreparePaths(c) ==
  /\ At(c, "prepare") /\ c \in session /\ lockPath' = TRUE /\ Goes(c, "exists")
  /\ CmdUnchanged /\ UNCHANGED <<session, held, znode, blind, left>>

LockExists(c) ==
  /\ At(c, "exists") /\ c \in session /\ lockPath /\ Goes(c, "lock")
  /\ CmdUnchanged /\ UNCHANGED <<session, held, lockPath, znode, blind, left>>

TryLock(c) ==
  /\ At(c, "lock") /\ c \in session /\ ConfigLock!Acquire(c, "w") /\ Goes(c, "check")
  /\ CmdUnchanged /\ UNCHANGED <<session, lockPath, znode, blind, left>>

TryAgain(c) ==
  /\ At(c, "lock") /\ cmd[c].retry > 0
  /\ IF \E o \in Process \cup Command : held[o] # "none" THEN left' = left ELSE Fails(c)
  /\ cmd' = [cmd EXCEPT ![c].retry = @ - 1]
  /\ CmdUnchanged /\ UNCHANGED <<session, held, lockPath, znode, blind>>

(* is_no_workers: a list that cannot be had is empty. *)
NoWorkers(c) ==
  /\ At(c, "check")
  /\ \/ c \in session /\ nodes \subseteq Proxy /\ UNCHANGED <<blind, left>>
     \/ Fails(c) /\ blind' = TRUE
  /\ Goes(c, IF cmd[c].do = "write" THEN "create" ELSE "remove")
  /\ CmdUnchanged /\ UNCHANGED <<session, held, lockPath, znode>>

(* config_tozk creates the node and sets it, the second also when the      *)
(* first has failed.                                                       *)
CreateConfig(c) ==
  /\ At(c, "create") /\ Goes(c, "set")
  /\ \/ /\ c \in session /\ left' = left
        /\ znode' = IF znode = Absent THEN Empty ELSE znode
     \/ Fails(c) /\ znode' = znode
  /\ CmdUnchanged /\ UNCHANGED <<session, held, lockPath, blind>>

WriteConfig(c) ==
  /\ At(c, "set") /\ EndCommand(c)
  /\ \/ /\ c \in session /\ left' = left
        /\ znode' = IF znode = Absent THEN Absent ELSE cmd[c].value
     \/ Fails(c) /\ znode' = znode

RemoveConfig(c) ==
  /\ At(c, "remove") /\ EndCommand(c)
  /\ \/ c \in session /\ znode' = Absent /\ left' = left
     \/ Fails(c) /\ znode' = znode

(* An exception: of a call that fails, of the lock, or of a running server. *)
GiveUpCommand(c) ==
  /\ \/ cmd[c].at \in {"prepare", "exists"} /\ Fails(c)
     \/ /\ left' = left
        /\ \/ At(c, "exists") /\ ~lockPath
           \/ At(c, "lock") /\ cmd[c].retry = 0
           \/ At(c, "check") /\ c \in session /\ ~(nodes \subseteq Proxy)
  /\ EndCommand(c) /\ znode' = znode

-----------------------------------------------------------------------------

Main(p) ==
  \/ Connect(p) \/ GiveUp(p) \/ Prepare(p) \/ LockConfig(p) \/ LockAgain(p) \/ Configure(p)
  \/ Listen(p) \/ Register(p) \/ Watch(p) \/ Handle(p) \/ StartMixer(p)
  \/ RegisterProxy(p) \/ HandleProxy(p)

SignalThread(p) == Signal(p) \/ StopMixer(p) \/ Unlock(p) \/ Close(p) \/ EndRpc(p)

Runs(c) ==
  \/ PreparePaths(c) \/ LockExists(c) \/ TryLock(c) \/ TryAgain(c) \/ NoWorkers(c)
  \/ CreateConfig(c) \/ WriteConfig(c) \/ RemoveConfig(c) \/ GiveUpCommand(c)

Next ==
  \/ \E p \in Process : Boot(p) \/ Main(p) \/ SignalThread(p)
  \/ \E p \in Process : Crash(p) \/ GetStatus(p) \/ Kill(p) \/ DeleteActor(p) \/ Deleted(p)
  \/ \E o \in Process \cup Command : Expire(o)
  \/ \E c \in Command, v \in Configs : StartCommand(c, "write", v)
  \/ \E c \in Command : StartCommand(c, "delete", None)
  \/ \E c \in Command : Runs(c)

Spec == Init /\ [][Next]_vars

(* Threads and commands run on, events arrive, and the sessions of dead    *)
(* processes expire.                                                       *)
FairSpec ==
  /\ Spec
  /\ \A p \in Process : WF_vars(Main(p)) /\ WF_vars(SignalThread(p))
  /\ \A p \in Process : WF_vars(~Alive(p) /\ Expire(p)) /\ WF_vars(Deleted(p))
  /\ \A c \in Command : WF_vars(Runs(c))

-----------------------------------------------------------------------------
(* Properties. *)

(* The configuration does not change under a server: while it is listed or *)
(* holds the lock, what it has set is what ZooKeeper holds, unless a       *)
(* command took a list of servers it could not get for an empty one.  It   *)
(* takes both: a server that starts is not listed yet, and one that stops  *)
(* has given back its lock.                                                *)
ConfigAgrees ==
  \A p \in Process :
    Alive(p) /\ conf[p] # None /\ (p \in nodes \/ held[p] = "r") => conf[p] = znode \/ blind

(* A server that is listed serves: it listens before it registers, and its *)
(* node is gone before the RPC server ends; only a process that died, or a *)
(* proxy that has done its part of ending, may be listed in vain.          *)
ListedServes == \A p \in nodes : Alive(p) => rpc[p] \/ (p \in Proxy /\ sig[p] = "over")

(* A process that is told to end, by a signal, by the loss of its session  *)
(* or by the deletion of a node it watches, does so wherever its main      *)
(* thread is.                                                              *)
ToldEnds == \A p \in Process : term[p] \/ p \in watching \ nodes ~> ~Alive(p)

=============================================================================
