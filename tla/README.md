# Jubatus server: TLA+ specifications, model checking and proofs

This directory specifies the distributed core of the Jubatus server found under
`src/test-engine/jubatus-master/jubatus/server` (paths below are relative to that
directory) and the key-value engine built on it under `src/test-engine`. Jubatus
is an online machine learning framework: servers train local models, a *mixer*
merges them over RPC, ZooKeeper holds the membership, the configuration and the
locks, a proxy fans requests out, and `jubavisor` runs the server processes of a
machine. The models concentrate on what threads, processes, lost calls and
crashes can do to each other there.

## Inventory

| Component | State | Operations | Talks to | Correct when |
|---|---|---|---|---|
| **zkmutex** (`common/zk.cpp`, `lock_service.cpp`) | per object `seqfile_`, `has_lock_`, `has_rlock_`; nodes in ZooKeeper | `try_lock`, `try_rlock`, destructor | ZooKeeper calls, each of which can be lost; the clean-up at session expiry | connected holders never exclude each other; nodes do not stay behind; locks come free |
| **linear mixer** (`framework/mixer/linear_mixer.cpp`) | `counter_`, `is_obsolete_`, `is_running_`, the model, `servers_`; `/nodes`, `/actives` | `stabilizer_loop`, `mix`, `update_model`, `do_mix`; RPCs `get_diff`, `put_diff`, `get_model` | other servers by RPC, `master_lock`, membership | active servers hold one history of mixes, nobody takes a mix twice, rounds end, servers join and stop |
| **push mixers** (`framework/mixer/push_mixer.cpp`, `random_`, `skip_`, `broadcast_mixer.hpp`) | as the linear mixer, without a lock between servers | `start`, `mixer_loop`, `do_mix`, `mix`; RPCs `pull`, `get_pull_argument`, `push` | other servers by RPC, membership | nothing known is lost by joining, the flag follows the list, updates spread |
| **membership** (`common/membership.cpp`) | ephemeral nodes | `register_actor`, `register_active`, `unregister_active`, `register_proxy`, lists | ZooKeeper | an entry exactly while its process is alive and means it |
| **server and proxy lifecycle** (`framework/server_helper.*`, `framework/proxy*.cpp`, `common/signals.cpp`) | session, configuration lock, RPC server, mixer thread, own node, `action_on_term` | start, SIGTERM, expiry, deletion of the node | mixer, ZooKeeper, RPC, the signal thread | who is listed serves, who is told to end ends |
| **configuration** (`common/config.cpp`, `cmd/jubaconfig.cpp`) | a node, `config_lock` | write, delete, read at start-up | zkmutex, membership | the configuration does not change under a running server |
| **jubavisor** (`jubavisor/*.cpp`) | `children_`, `port_pool_`, mutex `m_`, child processes | `start`, `stop`, `stop_all`, `sigchld_handler_`, `on_connection_expired` | two RPC threads, the ZooKeeper client's thread, signals, `waitpid` | ports are neither lost nor given twice, no server is forgotten, requests end |
| **async_task** (`framework/proxy.hpp`) | futures, results, errors, timer, `cancelled_`; the session pool | `call_apply`, `done_one`, `on_timeout` | RPC thread, event loop threads, servers | every request is answered, by one consistent answer made of all results |
| **services** (`server/*_serv.cpp`, `*_impl.cpp`, `*_proxy.cpp`) | the driver, its `rw_mutex`, the mixer's `counter_` | the RPC methods of eleven services | the mixer, save and load, other servers | a method's lock is enough for what it does; what is to be mixed is counted |
| **save and load** (`framework/save_load.cpp`, `server_base.cpp`), **id generators** | files under `flock`; the next id | `save`, `load`, `generate` | file system, RPC threads | a saved file is whole, a loaded model is sound, new rows get new ids |
| **cht, cached_zk** (`common/cht.cpp`, `cached_zk.cpp`) | the ring of virtual nodes, the proxy's cache and watches | `register_node`, `find`; `list`, `read`, watch events | ZooKeeper | a key goes to the servers that have it, caches follow changes |
| **graph, anomaly, burst** (`server/{graph,anomaly,burst}_serv.cpp`) | rows, nodes and edges placed on the ring, keywords | `create_node`, `create_edge`, `remove_node`, `add`, `update`, `clear_row`, `rehash_keywords` | the ring, other servers by RPC | replicas are where they are looked for, calls end, keywords follow the ring |
| **key-value engine** (`test-engine/kvs_*.cpp`) | pairs, local and global sums and sizes | `put`, `get_average`; `get_diff`, `mix`, `put_diff` | the linear mixer | a complete mix makes every average right |
| others | - | tools, options, logging, network and file helpers, jenerator, generated clients | - | sequential or pure I/O; see `PROJECT.json` |

What is hard in this code: three-call lock attempts that interleave with each
other; two mutexes per mixer, one of which is held over an RPC to oneself;
RPCs that arrive after their caller has given up; registration that fails after
the model has changed; sessions that end while a process goes on; processes that
are half started or half stopped when a signal comes; a signal handler that takes
a mutex; a timer that races the last reply; methods whose lock is chosen in one
file and whose effect is in another; files that are truncated before they are
locked; watches that fire once. `PROJECT.json` lists these as hazards with their
lines and the properties that watch them.

## Modules

    RWLock           abstract read/write lock (what try_lockable promises)
      ^ refined by   ZkMutex         zkmutex over ZooKeeper       + LockProofs
      ^ used by      Startup         servers, proxies, commands   + LockProofs
      ^ relied on by LinearMixer     cluster of linear mixers     + LinearMixerProofs
                       ^ seen from   Kvs        the key-value engine in a cluster  + KvsProofs
    PushMixer        cluster of push mixers                       + PushMixerProofs
    Jubavisor        process supervisor                           + JubavisorProofs
    AsyncTask        forwarding by the proxy                      + AsyncTaskProofs
    Methods          lock, route and effect of every RPC method
      ^ used by      Serving         one server: calls, mixer, save, load + ServingProofs
      ^ used by      Placement       rows and keywords on the ring + PlacementProofs
    Ring             consistent hashing
      ^ used by      Placement

`MC*` are the TLC instances. `Startup` instantiates `RWLock` for the
configuration's lock; `LinearMixer` uses the lock through what `RWLock` states of
it: its variable `master` is the one connected writer of `master_lock`, taken only
when free and given up at the end of a round or of the session. `ZkMutex` is shown
to implement `RWLock`, and what `Startup` does with its lock to be what `RWLock`
allows, so that what the users rely on is what the code gives them.

### ZkMutex

`children` holds the children of the lock path (sequence number, kind,
session), `next` the number ZooKeeper gives out next. For each object `pc` says
where its caller is in `try_lock`, `seqfile` and `has` are the members of that
name (`has_lock_` and `has_rlock_` in one, as every caller uses an object in one
mode). `CreateSeq`, `List` and `RemoveLoser` are the three calls of an attempt,
`CreateSeqFails` and `ListFails` its early returns, `Destroy` the destructor,
which is how every caller unlocks. A lost call is one of: the request never
arrives, or only its answer is lost; `MaxFail` bounds them. A process is its one
ZooKeeper session: `CrashSession` ends the process first, `ExpireSession` the session first,
`ExitExpired` is `mywatcher` calling the clean-up that sends SIGTERM. An object
that holds nothing and is not in an attempt may stand for a new one.

Left out: `lock()` and `rlock()` (polling loops nobody calls), the watchers,
`unlock()` apart from the destructor.

### LinearMixer

A model is the sequence of the mixes put into it, its length the version; local
training and the arithmetic of diffs belong to jubatus core, which is not in the
repository. What is used of core is stated in one place: `Applies`, a `put_diff`
is taken only by a model of the version the diff was made of, and the fold in
`GetDiff`, the highest version prevails.

The stabilizer thread is `StartMix` (a mix is due) or `StartUpdate` (the model is
obsolete), then `ChoosePeer`, `Fetch`, `Unpack` or `Claim`, `ClaimRegisters`
(`update_model`), then `UpdateMembers`, `GetDiff`, `PutDiff`, `PutsDone` (`mix`)
and `AfterMix`. `CallDoMix` and `DoMix` are the RPC of that name, which spins on
the lock and then runs the same `mix`. Each server has one mixing thread at a
time, because all of them need `master_lock` (a thread that has lost its session
can still be on its way, but its server gets no new lock).

Handlers: `GetDiff` and `Fetch` are the other server's `get_diff` and
`get_model`, which need `model_mutex_` and `m_`; `Deliver` is `put_diff`. When
`put_diff` has to register or unregister while the mixing thread of its server
holds the communication mutex (`CommBusy`), it waits in `blocked` with
`model_mutex_` and `m_` held, which makes its server unresponsive until `Resume`.

`msgs` are `put_diff` requests on the way; a caller may give up on one
(`PutDiffFails`) that then arrives late or never. `/nodes` and `/actives` are
sets; each call of a connected server may fail, with or without effect.

A process is "up"; "cut" when it runs without a session (expired, or closed by
`prepare_for_stop`); "dead" when ZooKeeper still keeps the session of a process
that is gone; or "down". `Terminate`, `Leave` and `Shutdown` are the stages of
`server_helper::stop`: the mixer thread is waited for, the session is closed,
the RPC threads are waited for. Servers of different releases (`Protocol`) find
out in `get_model` and stop.

Simplifications: a `put_diff` under way when its dead sender's session times
out, and a `do_mix` that mixes while its server leaves, count as a late call and
an expired session, as the properties that depend on the lock do; a thread that
tries to join itself in `stop()` is taken to fail and go on; a server without a
linear mixable is not modelled; one `do_mix` call spins at a time and server.

### PushMixer

Three threads of a server may mix at once, so `pc` has one location for each of
`start`, the mixer thread and `do_mix`: `UpdateMembers` (`servers_` is replaced
under `m_`), the candidates of the strategy (`RandomCandidates`,
`SkipCandidates`, `BroadcastCandidates`, translated from the three headers), the
four calls of an exchange with each candidate, and `RegisterActive` with
`is_obsolete_` cleared after it. A model is the set of updates it knows; pull and
push are unions. Every RPC and every ZooKeeper call may fail, an exchange half
done stays half done. `Boot`, `Train`, `Crash`, `SessionTimeout`, `StartThrows`,
`Stop`, `Leave` and `Shutdown` are the life of a process. What a newcomer is
`owed` is a history: what all running servers knew when it came up.

### Startup

A process is its main thread (`main`: constructor, configuration lock,
configuration, RPC server, registration, watch, `set_action_on_term`, mixer,
join), its signal thread (`sig`: `stop` step by step), and what they share.
Signals that come before there is an action end the process by `exit`.
`LockConfig` and `LockAgain` are the attempts at the configuration's read lock;
a server that does not get it gives up (`GiveUp`).
Commands are `jubaconfig` write and delete. Two processes may have one address,
so that a node left by a dead predecessor makes the registration of its successor
throw. A proxy skips the configuration and the mixer, registers in a list of its
own, and its signal thread ends the RPC server before the session closes.
`GetStatus` is `server_helper::get_status` on a `zk_` that `stop` has reset, a
null pointer. Lost calls are requests that fail or answers that are lost;
`Expire`, `Crash`, `Kill` and `DeleteActor` are the environment's.

### Jubavisor

`children` is `children_` (name, port, pid), `pool` the queue of ports, `lock`
the owner of `m_`. `Start`, `Spawn`, `SpawnFails`, `StartEnds` are the request
`start`; `Stop`, `StopCopies`, `Kill`, `WaitChild`, `ReturnPort`, `StopEnds` the
request `stop`, which kills without the mutex and pushes ports without it, so
that two pushes that overlap are a data race: one of them may be lost. `StopAll`
(then `Kill`, `WaitChild`, `StopAllEnds`) is `stop_all`, which keeps `m_` all the
time; `Destroy` is the destructor, which calls it on the main thread when the RPC
threads have been joined, and `Expire` is `on_connection_expired`, which calls it
on the ZooKeeper client's thread at any moment, in the middle of requests too.
`Quit` is the `exit` behind it: until then the RPC threads go on and may start
servers that nobody stops any more. `Interrupt`, `Reap`, `Release` are the SIGCHLD
handler on top of any thread of `SigThreads`; no thread blocks the signal, so the
run has all of them there, and the handler may come on top of the thread that has
`m_`. `Exit` is a child that ends. A pid is used once (the reuse of pids by the
kernel is not modelled).

### AsyncTask

One RPC thread of the proxy with its thread-local loop; other RPC threads share
nothing with it. `dest`, `fut`, `sess`, `running`, `cancelled`, `timer`,
`results`, `errors`, `transport` are the members `hosts_`, `futures_`,
`sessions_`, `running_count_`, `cancelled_`, `timer_id_`, `results_`, `errors_`,
`transport_error_` of the task of a request. `fut[r][i]` goes from "none" to
"wait", then to an outcome or "cancelled", then to "gone" when `done_one` resets
it. `lock` is the recursive `lock_` where it is held over more than one step.
`answers` are the calls of `req_.result` and `req_.error`; the RPC library
passes on only the first.

`CallApply`, `GetSession`, `SendCall`, `EndApply` are `call_apply`, where
`SessionFails` and `DispatchError` are an exception of `get_session` and its way
to the client. `CallEnds` is the network, `DoneOne` a callback, whole, as it runs
under `lock_`. `TimerFires`, `OnTimeout`, `SkipCall`, `CancelCall`,
`RemoveSession`, `TimeoutAnswers` are `on_timeout`, whose loop is split because
the pool it changes is not protected by `lock_`. `EvictSession` is the pool's
time and size limit. `Refuse` is a request for which no server can be listed.

`Lists` gives the host lists a method can be sent to: one server, all active
ones, or N of the ring, where one server can come twice. Left out: what the
reducer computes from the results, request counters and status.

### Methods and Serving

`Methods` has, for every method of the eleven services and the key-value engine,
the lock of its stub (`*_impl.cpp`), its route (`*_proxy.cpp`) and its effect
(`*_serv.cpp`): three files that only agree by convention, brought together in
one table per service. `Serving` runs them. A worker is an RPC thread or the
mixer; `pc` says whether it waits for the lock, is in the driver with it, is in
the driver without it ("bare"), or in a step of `save` or `load`. `Enter` and its
neighbours are the lock macros of the stubs with `event_model_updated`; the mixer's `get_diff`
and `put_diff` take the lock as the drivers hand it over; `save` opens (and
truncates), locks the file, writes and closes; `load` reads, checks, replaces
the driver's model and resets the id generator afterwards. `GetDiffDies` is the
mixer asking a driver that is still null (`weight_serv.cpp:67`). A model is a
version, its rows and the configuration it was built with; a file is none, empty,
broken or whole.

### Ring and Placement

`Ring` is `cht::register_node` and `cht::find` over `NumVServ` virtual nodes per
server; the hash is a constant. In `Placement` a server joins one virtual node
at a time and dies with all of them; a proxy caches the ring, with a watch that
fires once (`Reload`, `SessionEvent`, `Forget`); a call is routed by that cache
or, for creations, starts on a server that asks ZooKeeper itself. `create_node`,
`create_edge` and `add` go to further servers one at a time, any of which may
fail; `remove_node` takes and gives back the lock as the code does; burst servers
rehash their keywords on an event and then watch again.

### Kvs

The engine's own arithmetic, with sums that are `int32_t` (`Signed`: they wrap
around, as the build makes of an overflow the language leaves undefined) and sizes
that are `uint32_t`, `Word` being 2^32, on a round of the linear mixer: `Claim`, `ChoosePeer`, `Fetch`,
`Unpack`, `GetDiff`, `SendMix`, `PutDiff`, `EndMix`. Here a `put` can come between
any two of them; `put_diff` subtracts what is local *now* from a mix made *then*.

## Runs

| Run | Instance | Checks |
|---|---|---|
| `zkmutex` | 3 objects, 2 processes, 4 nodes, 1 lost call | `MutualExclusion`, `StrayNodesFromLostCalls` (only a lost call leaves a node behind, one each), `LocksComeFree`, `ImplementsRWLock` |
| `mixer_safety` | 3 servers (symmetric), 3 mixes, 1 lost RPC, 1 end | `ActiveModelsAgree`, `ListedIffFresh`, `MixesInOrder`, `ActiveModelsGrow` |
| `mixer_progress` | 2 servers, with a lost RPC and a failing ZooKeeper call, with an expiry and an end, or of 2 releases with a `do_mix` call | `RoundsEnd`, `ServersJoin`, `StopsWhenTold` |
| `mixer_diverged` | 2 servers, 1 lost or late RPC | violates `UpToDateModelsAgree` |
| `push_mixer` | 2 or 3 servers, 3 strategies, one fault per scenario | `ActivesKnowOld`, `FreshIsListed`, `UpdatesSpread` |
| `startup` | 2 runs of one server, another server, a proxy, 2 commands; 8 budgets | `ConfigAgrees`, `ListedServes`, `ToldEnds` |
| `jubavisor` | 2 RPC threads, the main and the ZooKeeper thread, 1 name, 2 ports, 3 children, signals to any thread | `PoolPortsFree`, `PortsKept`, `NoStrayServers`, `RequestsEnd`, `DeadChildrenGo` |
| `async_task` | a request to 2 servers and one to 1 of them | `AnswersTellAll`, `AnswersDoNotCross`, `TimedOutLeavesPool`, `RequestsAnswered` |
| `serving` | every service, in a cluster and standalone, 2 RPC threads and the mixer; files and ids with crashes and failures | `DriverExclusion`, `UnmixedAreCounted`, `SavedIsThere`, `ModelIsSound`, `NewRowsAreNew`, `RequestsEnd` |
| `placement` | 2 or 3 servers with 2 virtual nodes each, a proxy, 2 callers; 10 scenarios | `PlacedFound`, `LinkedFound`, `AnsweredHeld`, `CacheFollows`, `KeywordsFollow`, `CallsEnd` |
| `kvs` | 2 or 3 servers, 2 keys, 2 values, one kind of fault per scenario | `MixUnifies`, `AveragesMeet` |
| `kvs_average` | 1 server, 2 puts | violates `AverageIsOfValues` |

The comment before each property says what it means. Deadlock checking is off in
all runs: the bounds make the systems stop. Each module also defines its types
(`TypeOK`, or `Typed` beside a proof).

### Bounds and why they are enough

Where several things can go wrong, a run has *scenarios*: initial states that give
each fault a budget, instead of one instance that has them all at once.

- `zkmutex`: a wrong grant needs two nodes, a leak a third and a lost call, and
  three objects in two processes give readers, a writer and two contenders of
  one session. The theorems remove the bounds for the safety properties.
- mixer: agreement is about two histories, so two servers and two mixes after a
  first common one; the third server is what can be missed by a mix that the
  other two take. One lost RPC is the smallest that makes a server fall behind;
  the properties that survive it say so, those that do not are conditioned on
  `used["lost"]`, which counts losses, and have a violation run.
- push mixers: a newcomer, a server that mixes with it and one that only mixes
  when told to are the three roles of an exchange; the strategies differ only in
  whom they choose, which needs three servers.
- startup: a command needs one server that starts and one that stops; a node of
  a dead predecessor needs two processes of one address; a second command is what
  the first may race with. `Retries` is 1 instead of 3, which only makes giving up
  come sooner. The theorems remove the bounds for the safety properties.
- jubavisor: two threads that stop and start while a third may stop all, and a
  pool smaller than the children asked for; the third child gets a port that has
  come back. One name is enough: `stop` takes its children out of the table at
  once, so that a second `start` of the name, and a second `stop`, run beside the
  kills of the first as those of another name would. Requests to fewer names make
  the run small enough to let the signal go to any of the four threads. Theorems
  for safety, for any names.
- async_task: a partial answer needs two servers, a session that goes wrong for
  another request needs a second request to one of them. No bound cuts off a
  behaviour: every request ends. The theorems hold for any number.
- serving: exclusion and counting are about pairs of calls and the mixer; three
  calls let one come before, between and after. Three saves or loads give a save
  that overlaps another and a load after both.
- placement: the ring `a a b d b d` has neighbours of one server, so that `find`
  meets a server twice; with three servers an owner can leave or come and leave
  others in place.
- kvs: two keys tell a new pair from an overwritten one, two values a sum from a
  size; a negative and a positive one, -2 and 3, with sums above 4 and below -5
  overflowing, let runs overflow to both sides and come back. The theorems
  remove the bounds for `MixUnifies`. `kvs_average` has `Word = 32`, which none of its
  sums reaches.

### Fairness

Weak fairness only. Threads run and mutexes are granted; an RPC is answered or
times out; an RPC that is not lost arrives; `stabilizer_loop` and `mixer_loop`
wake up every half second; ZooKeeper times out the session of a dead process and
delivers its events; a process that got SIGTERM goes through `stop`; a command
runs on; a child that got SIGTERM ends; the timer of a proxied request fires
(`interconnect_timeout` is at least 1) unless it is removed; a server whose
process died is started again (`Serving`, as jubavisor or an operator does).
In `PushMixer` the interval of a server's mixer may be started anew by a push, so
fairness is of "mixes or is pushed to". In `Placement` a call goes on by the steps
that spend no failure. Nothing is assumed of the servers the proxy calls, of
crashes, clients, losses, or of who wins a contended lock. The liveness
properties of the linear mixer end where the budget of mixes ends (`MixesLeft`),
so that a bound is never mistaken for progress or for a standstill.

### What the violations show

- `mixer_diverged`: `put_diff` reports "I got latest model", but it compares
  version numbers. After one late `put_diff` or one lost `get_diff` two servers
  reach the same version by different mixes, and stay that way. This is why
  `ActiveModelsAgree` and `ActiveModelsGrow` have conditions, and half of
  `MixesInOrder` and of `ListedIffFresh`: with a lost RPC or a lost session the code
  does not keep them. A late mix may be applied after a newer one; and two late `put_diff`s between the clearing of
  `is_obsolete_` and the registration leave an obsolete server listed. Without any
  condition no model takes a mix twice, and without lost ZooKeeper calls a server
  that is not obsolete is listed.
- `kvs_average`: "get_average returns the average of the values of the whole
  cluster", but a put between `get_diff` and `put_diff` makes `global_size_` of a
  lone server wrap round to 2^32 - 1; `counter_` is reset by the same `put_diff`,
  so nothing corrects it until something else is put.

## Disagreements met while modelling

The models contain each of these as the code has it; properties exclude them by
name, and a reader of a property sees there what is excluded.

- A registration whose answer is lost throws before `is_obsolete_` is cleared,
  and every later one throws because the node exists (`linear_mixer.cpp:663`):
  the server stays obsolete while it is listed. Excepted in `ServersJoin`.
- A `do_mix` that waits for the lock when the session ends never returns
  (`linear_mixer.cpp:323`), so the server never ends: `SpinsInVain`.
- `start` of the push mixer unlocks by hand what a scoped lock unlocks again
  (`push_mixer.cpp:250`); `mix` walks over references into a vector `do_mix` may
  replace (`:364`): `excused`.
- The SIGCHLD handler can interrupt the thread that has `m_` and then waits for
  itself (`jubavisor.cpp:126`): an RPC thread in `start` or at the beginning of
  `stop`, or a thread in `stop_all`, whose own kills bring the signal. Nobody gets
  `m_` after that. The run gets there; `RequestsEnd` and `DeadChildrenGo` name the
  state (`SelfLocked`), fail without it, and say that it is the only one in which a
  request or the entry of a dead child stays for ever.
- After `on_connection_expired` has stopped all servers and given back `m_`, a
  request may start new ones before `exit` ends the process
  (`jubavisor.cpp:49-51`): the model allows it, and no property forbids it.
- A port is lost when `kill` fails because the handler has just reaped the child,
  or when two unsynchronised pushes overlap: `PortsKept`.
- "cancelled sessions cannot be reused, so remove them from the session pool",
  but `on_timeout` cancels first and removes afterwards (`proxy.hpp:419`), and in
  between the RPC thread can get the session for another request. Only that
  window is left: `TimedOutLeavesPool`.
- A failing `get_all_nodes` looks like a cluster without servers, so that
  `jubaconfig` may overwrite a configuration in use: `blind` in `ConfigAgrees`.
- `get_status` after `prepare_for_stop` follows a null pointer
  (`server_helper.hpp:210`): `GetStatus`. The process is ending anyway.
- A proxy's RPC server ends before its node goes: `ListedServes` excepts it.
- `save` truncates before it locks, so that two saves that overlap may leave less
  than either: `contested` in `SavedIsThere`.
- `counter_ = 0` in `put_diff` forgets updates that came after `get_diff`, and
  some methods tell the mixer outside the lock: `forgotten` in
  `UnmixedAreCounted`.
- A load replaces the model before it resets the id generator: `raced` in
  `NewRowsAreNew`.
- `weight` hands its mixer a null driver (`weight_serv.cpp:67`): `GetDiffDies`.
- `cht::find` may return one server twice, so that two replicas are one; a reload
  that fails leaves a list without a watch (`unheard`), a failing rebind, or
  a change of the ring between rehash and rebind, a burst server without one
  (`missed`).
- `put_diff` of the key-value engine counts a put in between twice or not at all:
  `mix.kept`, `spoilt`.

## Proofs

Eight modules, for every value of the constants under the assumptions named in the
modelled module. Each follows one pattern: an invariant `IInv` that strengthens
the properties, `Init => IInv`, `IInv /\ [Next]_vars => IInv'` with one lemma per
action or group of actions, and the properties from `IInv`.

**LockProofs** is about both sides of `RWLock`. Below it, `ZkMutex` (`OwnerAssumption`: every object has a session;
`BoundAssumption`: the bounds are natural numbers): `MutexInvariance`,
`MutexTypeCorrect`, `ZkMutexExcludes` (`MutualExclusion`), `ZkMutexImplementsRWLock`
(`ImplementsRWLock`: `MutexSpec => RW!Spec`). `MutualExclusion` is not inductive: it
does not say why a holder keeps the lock. `MutexIInv` adds that ZooKeeper's numbers
lie below `next` (so every new node is later than a holder's), that two objects
never share a number (so nobody removes another's node), that a connected user of
a node has it in the directory, and that a holder came first
(`HoldersCameFirst`). Two connected holders then each see the other's node, and
the later one would have lost. `RemoveKeepsOthers` is the step where the differing
numbers matter. For the refinement, `List` is `Acquire` when it wins, `Destroy`
and the session steps are `Release`, all else stutters. `OnlyLostCallsStray`
(`StrayNodesFromLostCalls`) shows of each action that it strays no node, or one
for a call it loses, so that the strays never outnumber `fails`.

Above it, `Startup` (`StartupAssumption`): `Invariance`, `ListedServe`
(`ListedServes`), `ConfigIsKept` (`ConfigAgrees`). `Placed` ties what a process
has registered to how far its two threads have come: a listed process is past its
registration, the signal thread stops nothing before the main thread has handed
it the action, and a server's node is gone when the signal thread comes to the RPC
server. `Locked` says that a server with a session holds the read lock from its
configuration to its registration, and a command that looks for servers the write
lock; `Configured`, that a command that goes on has seen no listed server or was
blind. So a command that changes the configuration meets servers in neither phase.
`ConfigLockIsRWLock` (`Spec => ConfigLock!Spec`) closes the circle: of every action
it says that it takes the lock as `Acquire` allows, gives up what one user holds, or
leaves the holders alone. The two modules were written apart; where both had a
name, the one of `ZkMutex` begins with `Mutex`.

**AsyncTaskProofs** (`FanAssumption`: the bound is a natural number;
`ListAssumption`: a list has at least one host and at most the bound):
`Invariance`, `TypeCorrect`, `ClientsAreToldAll` (`AnswersTellAll`),
`TimeoutsDoNotCross` (`AnswersDoNotCross`). `AnswersTellAll` speaks of all hosts
of a list, `done_one` looks at a counter. `IInv` adds `Counting`
(`running_count_` is the length of the list less the futures that were reset,
sent or not), `Noting` (until the timeout the futures that were reset are exactly
those in `results_` or `errors_`, and an error that is not the server's own is in
`transport_error_`) and `Timing` (who holds `lock_` in which phase, a cancelled
task has spent its timer, a task that is in `on_timeout` has not said so yet). In
`DoneOne` the counter reaches 0 when the reset futures are as many as the hosts;
being positions of the list they are all of them, and the notes tell the rest.
`TimedOutSessionsLeave` (`TimedOutLeavesPool`) adds `Pooled`: no session is made
twice, so a session that a call has been cancelled on is the pooled one of its host
or of none, and the one `on_timeout` has at its cursor.

**JubavisorProofs** (`PortAssumption`: finitely many ports, some name;
`ThreadAssumption`: the main and the ZooKeeper thread are two and serve no RPCs):
`Invariance`, `PoolIsFree` (`PoolPortsFree`), `NoPortIsLost` (`PortsKept`),
`NoServerIsForgotten` (`NoStrayServers`). The properties look at children in the
table or in the hands of a `stop`; the proof has to say that these never overlap
(`Apart`: `stop` takes a child out of `children_` under `m_` before anyone else
can), that a pid belongs to one of them (`Pids`, `Found`), which ports are owned
by whom (`PortsOwned`), and where the threads are (`Controlled`, `Placed`). That
`stop_all` may forget the children rests on `m_`: while a thread is in it nobody
else has the mutex, so no child is added, and those it has passed do not run.
`TailPool`, `AppendPool` and `InitPool` are the queue of ports as a set.

**PushMixerProofs** (`PushAssumption`: finitely many servers; `ScenarioAssumption`):
`FreshServersAreListed` (`FreshIsListed`). The thread that is
about to clear `is_obsolete_` has its server listed (`Listed`); the list loses a
server only with its session, when it is no longer up. `ActivesComeToKnow`
(`ActivesKnowOld`) rests on `Know`: what a server is owed and does not have is
known to a listed server that runs (`Held`), and is ahead of each of its threads
that walks over its list: at a place the thread has yet to visit, or in what it has
pulled and not yet merged (`Way`). Whoever is past the walk misses nothing. Other
threads of the server may walk at once, models only grow, and a server that ends
makes the call to it fail, which excuses the caller. `AscendingIs` says that the
ascending list of a set has all of its members. The proof showed a case the runs
are too small for: a server on the list crashes, its session ends and it starts
again, empty, before the walk comes to it, while another that has joined since
still knows the update. Nothing fails for the caller, which registers without the
update; `excused` therefore also covers a list with a restarted server on it.

**PlacementProofs** (`RingAssumption`: finitely many servers, differing hashes;
`ScenarioAssumption`: the servers that run at the start are servers, the service
is one of the twelve; `NameAssumption`: no server is called "none"):
`CachedListFollows` (`CacheFollows`), `KeywordsFollowRing` (`KeywordsFollow`). Both
say that whoever has not seen a change will hear of it. `Watches` and `Follows` are
the inductive form: a proxy has an event to come or a watch on exactly the list it
holds, a burst server an event, a watch, or a rebind under way. Every change of the
ring turns the watches it finds into events; the changes that a burst server hears
of follow a registration or a death, and in between a server is half registered
(`Half`), which the property excludes.

`RowsAreFound` (`PlacedFound`), `EdgesAreFound` (`LinkedFound`) and
`AnsweredRowsAreHeld` (`AnsweredHeld`) speak of calls that are over; the invariant
`CallIInv` has to follow them from the start. `Shape` says what a call at each point
is about and how many servers it has yet to read; `Course`, of a call that no change
of the ring and no other call for its key has disturbed, that the virtual nodes it
reads are the next places on the ring, and that each server it is to reach is still
to be called, has failed, or has the row; `Alone`, that no other call for the key is
under way beside such a call; and `Known`, that a row whose place is known has no
call that could move it. `RingStep`, `BeginStep` and `OwnStep` are the three ways a
step can touch that: the ring changes, a call begins, a call goes on. Two facts carry
the argument from there to what queries find. `TablesReach` goes through the tables
of the twelve services: no query by key asks more servers than any update or
clearing reaches, and `create_edge` is routed to one. `FindIs` says that a longer
search on the ring goes on where a shorter one ends, so that the fewer servers are
among the more; `PlaceOnRing` that what a search names is on the ring, by
`IndexHasNode` (of finitely many virtual nodes with differing hashes one stands at
every index), which is proved by a least counterexample since induction over data
is out of reach.

**LinearMixerProofs** (`NodeAssumption`): `TypeCorrect`, `ActiveServersAgree`
(`ActiveModelsAgree`), `ActiveServersKeepMixes` (`ActiveModelsGrow`). That the
models of active servers agree is not inductive: a request under way could carry
anything. The invariant is `Typed /\ (Sound => Core)`, `Sound` being that no call
was lost or late and no running server lost its session. `Core` says: who mixes
holds `master_lock`, so there is one round at a time (`OneRound`); a request under
way comes from the round of the holder, or of one that died with its session still
holding the lock, and all of them carry the same mix (`Puts`); the servers whose
models count (`Party`: with a session, or listed by the round before they closed
theirs) hold prefixes of one history (`Agree`); a model longer than the version of
a request has taken it already (`Pending`); and no model outgrows the version the
round has gathered (`Round`). `AppendAgrees` is the fact about sequences that the
delivery of a request rests on, `PrefixIs` reads `IsPrefix` elementwise.
`MixesKeepTheirOrder` (`MixesInOrder`) has two parts. That no model holds a mix
twice needs nothing to go right: a request is applied only to a model of the
version it was made of, so every mix has one place in all histories (`OnePlace`),
whatever is late or lost. That newer mixes come later needs the rounds to follow
one another (`InOrder`, from `Core`): a request under way is newer than what its
receiver has. `ListedServersAreFresh` (`ListedIffFresh`) is `Listed` (as long as
ZooKeeper calls succeed, a server that is not obsolete has registered or is about
to) and `NoneObsolete` (under `Sound`, `put_diff` changes the flag and the list
together, and nothing else contradicts the registering thread).

**ServingProofs** (`ScenarioAssumption`: a scenario is of one of the twelve
services and calls its methods): `Exclusion` (`DriverExclusion`), `Typing`,
`Counting` (`UnmixedAreCounted`), `Saves` (`SavedIsThere`), `Soundness`
(`ModelIsSound`), `FreshIds` (`NewRowsAreNew`). What the lock excludes depends on
the tables of `Methods`: `TablesFit` goes through the twelve of them once and shows
that a method which runs under NOLOCK_ looks after itself and one that changes
the model has the write lock, unless the core driver locks itself. `Control` then
says which operation is where and who holds the lock in which mode. `Counted` adds
to its property that a change under way is counted before it ends, while no mix is
between `get_diff` and `put_diff`; `Saved`, that a save nobody contested has the
file for itself and what it wrote is there; `Sound`, that what a save has packed
was a model of the server; `NewIds`, that the generator is ahead of the rows and
of the ids of all calls under way, which differ.

**KvsProofs** (`KvsAssumption`: finitely many servers, integer values):
`Invariance`, `TypeCorrect`, `MixesUnify` (`MixUnifies`), `SmallClustersFit`. The
sums of this engine are folds over sets of any size. What a fold gives is proved
from its defining recursion, `SumIs` to `SumOfAny`: that the recursion has a solution
on the subsets of at most n elements is shown for the least n for which it might not,
and a property of the sums (`SumNat`, `SumRemove`, `SumBounded`) for a smallest set
without it, as induction over data is out of reach. `Signed` wraps around:
`WordsVanish`, `SignedAdds` and `SignedSums` say that it may do so at every addition
or once at the end. `MixUnifies` looks at the end of a round; the invariant follows it from
`update_members` on. `Mixed` says that the sums the round has gathered, those a
request of this mix carries, and those of a server that has taken it together with
its own are the sums over `mix.parts`, as long as none of these has changed its
pairs (`Whole`). Requests of earlier mixes, wherever they are, make a server leave
`mix.took`. Sizes cannot be treated like the sums: `get_average` adds a 64-bit size,
which does not wrap back, so that each size is right only when the whole fits
(`PartOfMix`). That the present values fit in the counters (`Fits`: their sum is an `int32_t`,
neither too large nor too small, and their number a `uint32_t`) is part of the
property, since the code never looks: with `Word = 10` the run has states that do not,
above and below, and TLC finds `MixUnifies` violated without it. Only the total has to
fit: sums of single servers and of half a mix may wrap on the way. `SmallClustersFit`
says when nothing does: if no value is further than `top` from 0, servers times keys
is below 2^32 and servers times keys times `top` below 2^31, then in every state the
total fits and the sum each server keeps is exact.

Every safety property and every action property of a passing run is stated by a
theorem. Only model-checked is liveness under fairness, which is out of reach of the
prover: `LocksComeFree`, `RoundsEnd`, `ServersJoin`, `StopsWhenTold`, `UpdatesSpread`,
`ToldEnds`, `RequestsEnd`, `DeadChildrenGo`, `RequestsAnswered`, `CallsEnd`,
`AveragesMeet`.

## Not modelled, and why

- `jubactl` and `jubaconv`: sequential tools that keep no state; options, logging,
  network and file helpers: parsing, formatting and system calls.
- jenerator, packaging, plugins and the generated clients: translation, nothing to
  interleave. The generated stubs and proxies are in `Methods` for their locks and
  routes.
- What a service computes, and what mixing does to its rows: jubatus core, which
  is not in the repository. Queries of graph, anomaly and burst beyond the keys.
- `rpc_mclient::join` with a reducer, the proxy's counters and status, `lock()` and
  `rlock()` of zkmutex: no concurrent state of their own, or no caller.
- `zk::create_id` counts the versions of a node; ids are fresh by what ZooKeeper
  promises, and `Placement` takes them so.

## Plan

What would come next: the watcher of class `zk`, which holds `m_` while it waits
for a connection; the composition of `Placement` with `Startup`, so that a ring
changes by processes that start and stop.
