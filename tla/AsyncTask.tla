----------------------------- MODULE AsyncTask -----------------------------
(***************************************************************************)
(* The forwarding of requests by the proxy: class async_task               *)
(* (framework/proxy.hpp) over the session pool of its async_task_loop.     *)
(*                                                                         *)
(* A request is sent on to a list of servers: one at random, all active    *)
(* ones, or the N that follow its key on the ring (where a server may      *)
(* come twice).  Three kinds of threads meet in one async_task:            *)
(*   call_apply   the RPC thread that received the request                 *)
(*   done_one     a thread of the loop, once for each server that answers  *)
(*   on_timeout   a thread of the loop, interconnect_timeout seconds later *)
(* lock_ of the task orders them, but the session pool and the futures     *)
(* are shared with other tasks and with the network, which take no lock_.  *)
(*                                                                         *)
(* The module is one RPC thread with its thread-local async_task_loop; the *)
(* other RPC threads have loops and pools of their own.                    *)
(***************************************************************************)
EXTENDS Integers, FiniteSets, Sequences

CONSTANTS
  Requests,    \* client requests that the RPC thread takes
  Hosts,       \* servers
  MaxFan,      \* bound: servers one request is sent to
  Lists        \* Lists[r]: the host lists that r's method can be sent to

ASSUME FanAssumption == MaxFan \in Nat

(* A list of n hosts, n at least 1: an empty one is refused. *)
ASSUME ListAssumption ==
  Lists \in [Requests -> SUBSET UNION {[1..n -> Hosts] : n \in 1..MaxFan}]

VARIABLES
  phase,       \* where the RPC thread is with the request
  dest,        \* hosts_
  fut,         \* futures_, by position in hosts_
  sess,        \* sessions_, 0 where nothing was sent
  sent,        \* futures_.size()
  running,     \* running_count_
  cancelled,   \* cancelled_
  timer,       \* the timer behind timer_id_
  results,     \* results_: positions whose result is in
  errors,      \* errors_: positions with the kind of their error
  transport,   \* transport_error_ is there
  lock,        \* what holds lock_, and where on_timeout is in its loop
  scan,        \* i of the loop of on_timeout
  answers,     \* calls of req_.result and req_.error, in order
  held,        \* s of call_apply: the session it is about to use, or 0
  pool,        \* session pool: the session of each host, or 0
  dead,        \* sessions on which a call was cancelled
  made         \* sessions made so far

task == <<dest, running, cancelled, results, errors, transport>>
calls == <<fut, sess, sent>>
sessions == <<held, pool, dead, made>>
vars == <<phase, task, calls, timer, lock, scan, answers, sessions>>

Positions == 1..MaxFan

Finished == {"ok", "call", "io"}
Answer == {"result", "call", "transport", "timeout", "thrown", "refused"}

TypeOK ==
  /\ phase \in [Requests -> {"new", "apply", "thrown", "left"}]
  /\ dest \in [Requests -> {<<>>} \cup UNION {Lists[r] : r \in Requests}]
  /\ fut \in [Requests -> [Positions ->
                {"none", "wait", "cancelled", "gone"} \cup Finished]]
  /\ sess \in [Requests -> [Positions -> Nat]]
  /\ sent \in [Requests -> 0..MaxFan]
  /\ running \in [Requests -> Int]
  /\ cancelled \in [Requests -> BOOLEAN]
  /\ timer \in [Requests -> {"unset", "set", "fired", "spent"}]
  /\ results \in [Requests -> SUBSET Positions]
  /\ errors \in [Requests -> SUBSET (Positions \X {"call", "io"})]
  /\ transport \in [Requests -> BOOLEAN]
  /\ lock \in [Requests -> {"free", "apply", "check", "remove"}]
  /\ scan \in [Requests -> 0..(MaxFan + 1)]
  /\ answers \in [Requests -> Seq(Answer)]
  /\ held \in Nat
  /\ pool \in [Hosts -> Nat]
  /\ dead \subseteq Nat
  /\ made \in Nat

Init ==
  /\ phase = [r \in Requests |-> "new"]
  /\ dest = [r \in Requests |-> <<>>]
  /\ fut = [r \in Requests |-> [i \in Positions |-> "none"]]
  /\ sess = [r \in Requests |-> [i \in Positions |-> 0]]
  /\ sent = [r \in Requests |-> 0]
  /\ running = [r \in Requests |-> 0]
  /\ cancelled = [r \in Requests |-> FALSE]
  /\ timer = [r \in Requests |-> "unset"]
  /\ results = [r \in Requests |-> {}]
  /\ errors = [r \in Requests |-> {}]
  /\ transport = [r \in Requests |-> FALSE]
  /\ lock = [r \in Requests |-> "free"]
  /\ scan = [r \in Requests |-> 0]
  /\ answers = [r \in Requests |-> <<>>]
  /\ held = 0
  /\ pool = [h \in Hosts |-> 0]
  /\ dead = {}
  /\ made = 0

(* req_.result or req_.error.  The task may call it twice; the request     *)
(* object of the RPC library sends the first answer only.                  *)
Tell(r, a) == answers' = [answers EXCEPT ![r] = Append(@, a)]

-----------------------------------------------------------------------------
(* The RPC thread: dispatch, *_async_vproxy and call_apply *)

Idle == \A r \in Requests : phase[r] \in {"new", "left"}

(* get_members_ or get_members_from_cht_ throws: ZooKeeper does not answer *)
(* or there is no worker.  dispatch reports what it catches.               *)
Refuse(r) ==
  /\ Idle /\ phase[r] = "new"
  /\ phase' = [phase EXCEPT ![r] = "left"]
  /\ Tell(r, "refused")
  /\ UNCHANGED <<task, calls, timer, lock, scan, sessions>>

(* Variant: call_apply sets no timer. *)
CallApplyUntimed(r) ==
  /\ Idle /\ phase[r] = "new"
  /\ phase' = [phase EXCEPT ![r] = "apply"]
  /\ lock' = [lock EXCEPT ![r] = "apply"]
  /\ \E d \in Lists[r] :
       /\ dest' = [dest EXCEPT ![r] = d]
       /\ running' = [running EXCEPT ![r] = Len(d)]
  /\ UNCHANGED <<cancelled, results, errors, transport, calls, timer, scan,
                 answers, sessions>>

(* call_apply: lock_, running_count_ for all hosts before any is called,   *)
(* and the timer (interconnect_timeout is at least 1).                     *)
CallApply(r) ==
  /\ Idle /\ phase[r] = "new"
  /\ phase' = [phase EXCEPT ![r] = "apply"]
  /\ lock' = [lock EXCEPT ![r] = "apply"]
  /\ \E d \in Lists[r] :
       /\ dest' = [dest EXCEPT ![r] = d]
       /\ running' = [running EXCEPT ![r] = Len(d)]
  /\ timer' = [timer EXCEPT ![r] = "set"]
  /\ UNCHANGED <<cancelled, results, errors, transport, calls, scan, answers,
                 sessions>>

Calling(r) == phase[r] = "apply" /\ sent[r] < Len(dest[r])

(* pool.get_session: the pooled session of the next host, or a new one.    *)
GetSession(r) ==
  /\ Calling(r) /\ held = 0
  /\ LET h == dest[r][sent[r] + 1] IN
       \/ /\ pool[h] # 0
          /\ held' = pool[h]
          /\ UNCHANGED <<pool, made>>
       \/ /\ pool[h] = 0
          /\ made' = made + 1
          /\ held' = made + 1
          /\ pool' = [pool EXCEPT ![h] = made + 1]
  /\ UNCHANGED <<phase, task, calls, timer, lock, scan, answers, dead>>

(* get_session throws: the address cannot be resolved.  The calls already  *)
(* sent stay under way, the timer too, and lock_ is released.              *)
SessionFails(r) ==
  /\ Calling(r) /\ held = 0
  /\ phase' = [phase EXCEPT ![r] = "thrown"]
  /\ lock' = [lock EXCEPT ![r] = "free"]
  /\ UNCHANGED <<task, calls, timer, scan, answers, sessions>>

(* dispatch answers what call_apply threw. *)
DispatchError(r) ==
  /\ phase[r] = "thrown"
  /\ phase' = [phase EXCEPT ![r] = "left"]
  /\ Tell(r, "thrown")
  /\ UNCHANGED <<task, calls, timer, lock, scan, sessions>>

(* s.call_apply and attach_callback. *)
SendCall(r) ==
  /\ Calling(r) /\ held # 0
  /\ LET i == sent[r] + 1 IN
       /\ fut' = [fut EXCEPT ![r][i] = "wait"]
       /\ sess' = [sess EXCEPT ![r][i] = held]
       /\ sent' = [sent EXCEPT ![r] = i]
  /\ held' = 0
  /\ UNCHANGED <<phase, task, timer, lock, scan, answers, pool, dead, made>>

EndApply(r) ==
  /\ phase[r] = "apply" /\ sent[r] = Len(dest[r])
  /\ phase' = [phase EXCEPT ![r] = "left"]
  /\ lock' = [lock EXCEPT ![r] = "free"]
  /\ UNCHANGED <<task, calls, timer, scan, answers, sessions>>

-----------------------------------------------------------------------------
(* The loop threads *)

(* A call ends: a result, an error of the server, or no connection.  The   *)
(* future has it before done_one runs.                                     *)
CallEnds(r, i) ==
  /\ fut[r][i] = "wait"
  /\ \E o \in Finished : fut' = [fut EXCEPT ![r][i] = o]
  /\ UNCHANGED <<phase, task, sess, sent, timer, lock, scan, answers, sessions>>

(* lock_ is recursive: the callback of a future that is finished when      *)
(* call_apply attaches it may run inside call_apply.                       *)
CanLock(r, i) ==
  \/ lock[r] = "free"
  \/ (lock[r] = "apply" /\ held = 0 /\ i = sent[r])

(* Variant: an error that is caught for its kind is not thrown again. *)
TakeNoteSwallows(r, i) ==
  /\ results' = [results EXCEPT ![r] =
       IF ~cancelled[r] /\ fut[r][i] = "ok" THEN @ \cup {i} ELSE @]
  /\ errors' = [errors EXCEPT ![r] =
       IF ~cancelled[r] /\ fut[r][i] = "call"
       THEN @ \cup {<<i, fut[r][i]>>} ELSE @]
  /\ transport' = [transport EXCEPT ![r] =
       @ \/ (~cancelled[r] /\ fut[r][i] = "io")]

(* done_one takes note of the outcome, unless on_timeout has been there.   *)
TakeNote(r, i) ==
  /\ results' = [results EXCEPT ![r] =
       IF ~cancelled[r] /\ fut[r][i] = "ok" THEN @ \cup {i} ELSE @]
  /\ errors' = [errors EXCEPT ![r] =
       IF ~cancelled[r] /\ fut[r][i] \in {"call", "io"}
       THEN @ \cup {<<i, fut[r][i]>>} ELSE @]
  /\ transport' = [transport EXCEPT ![r] =
       @ \/ (~cancelled[r] /\ fut[r][i] = "io")]

(* cancel_timeout.  remove_timer comes too late for a timer whose callback *)
(* is already on its way to lock_.                                         *)
CancelTimeout(r) ==
  timer' = [timer EXCEPT ![r] = IF @ = "set" THEN "unset" ELSE @]

(* The answer done_one gives when it has noted the last call. *)
Verdict(errs, io) ==
  IF errs = {} THEN "result" ELSE IF io THEN "transport" ELSE "call"

(* Variant: the last done_one answers although on_timeout has been there. *)
DoneOneAnyway(r, i) ==
  /\ fut[r][i] \in Finished \cup {"cancelled"}
  /\ CanLock(r, i)
  /\ TakeNote(r, i)
  /\ fut' = [fut EXCEPT ![r][i] = "gone"]
  /\ running' = [running EXCEPT ![r] = @ - 1]
  /\ IF running'[r] <= 0
     THEN CancelTimeout(r) /\ Tell(r, Verdict(errors'[r], transport'[r]))
     ELSE UNCHANGED <<timer, answers>>
  /\ UNCHANGED <<phase, dest, sess, sent, cancelled, lock, scan, sessions>>

(* done_one.  A cancelled future may still call back. *)
DoneOne(r, i) ==
  /\ fut[r][i] \in Finished \cup {"cancelled"}
  /\ CanLock(r, i)
  /\ TakeNote(r, i)
  /\ fut' = [fut EXCEPT ![r][i] = "gone"]
  /\ running' = [running EXCEPT ![r] = @ - 1]
  /\ IF ~cancelled[r] /\ running'[r] <= 0
     THEN CancelTimeout(r) /\ Tell(r, Verdict(errors'[r], transport'[r]))
     ELSE UNCHANGED <<timer, answers>>
  /\ UNCHANGED <<phase, dest, sess, sent, cancelled, lock, scan, sessions>>

(* The loop starts on_timeout on one of its threads. *)
TimerFires(r) ==
  /\ timer[r] = "set"
  /\ timer' = [timer EXCEPT ![r] = "fired"]
  /\ UNCHANGED <<phase, task, calls, lock, scan, answers, sessions>>

(* on_timeout gets lock_. *)
OnTimeout(r) ==
  /\ timer[r] = "fired" /\ lock[r] = "free"
  /\ timer' = [timer EXCEPT ![r] = "spent"]
  /\ lock' = [lock EXCEPT ![r] = IF cancelled[r] THEN @ ELSE "check"]
  /\ scan' = [scan EXCEPT ![r] = IF cancelled[r] THEN @ ELSE 1]
  /\ cancelled' = [cancelled EXCEPT ![r] = TRUE]
  /\ UNCHANGED <<phase, dest, running, results, errors, transport, calls,
                 answers, sessions>>

Checking(r) == lock[r] = "check" /\ scan[r] <= sent[r]

(* futures_[i] is finished, or was reset by done_one. *)
SkipCall(r) ==
  /\ Checking(r) /\ fut[r][scan[r]] # "wait"
  /\ scan' = [scan EXCEPT ![r] = @ + 1]
  /\ UNCHANGED <<phase, task, calls, timer, lock, answers, sessions>>

CancelCall(r) ==
  /\ Checking(r) /\ fut[r][scan[r]] = "wait"
  /\ fut' = [fut EXCEPT ![r][scan[r]] = "cancelled"]
  /\ dead' = dead \cup {sess[r][scan[r]]}
  /\ lock' = [lock EXCEPT ![r] = "remove"]
  /\ UNCHANGED <<phase, task, sess, sent, timer, scan, answers, held, pool,
                 made>>

(* Variant: the session stays in the pool, as before release 0.6.1. *)
RemoveSessionNot(r) ==
  /\ lock[r] = "remove"
  /\ lock' = [lock EXCEPT ![r] = "check"]
  /\ scan' = [scan EXCEPT ![r] = @ + 1]
  /\ UNCHANGED <<phase, task, calls, timer, answers, sessions>>

(* remove_session of the cancelled call. *)
RemoveSession(r) ==
  /\ lock[r] = "remove"
  /\ pool' = [h \in Hosts |->
       IF pool[h] = sess[r][scan[r]] THEN 0 ELSE pool[h]]
  /\ lock' = [lock EXCEPT ![r] = "check"]
  /\ scan' = [scan EXCEPT ![r] = @ + 1]
  /\ UNCHANGED <<phase, task, calls, timer, answers, held, dead, made>>

TimeoutAnswers(r) ==
  /\ lock[r] = "check" /\ scan[r] > sent[r]
  /\ lock' = [lock EXCEPT ![r] = "free"]
  /\ scan' = [scan EXCEPT ![r] = 0]
  /\ Tell(r, "timeout")
  /\ UNCHANGED <<phase, task, calls, timer, sessions>>

(* The pool drops a session: pool_expire and pool_size. *)
EvictSession(h) ==
  /\ pool[h] # 0
  /\ pool' = [pool EXCEPT ![h] = 0]
  /\ UNCHANGED <<phase, task, calls, timer, lock, scan, answers, held, dead,
                 made>>

-----------------------------------------------------------------------------

RpcThread(r) ==
  GetSession(r) \/ SessionFails(r) \/ DispatchError(r) \/ SendCall(r)
    \/ EndApply(r)

TimeoutThread(r) ==
  OnTimeout(r) \/ SkipCall(r) \/ CancelCall(r) \/ RemoveSession(r)
    \/ TimeoutAnswers(r)

Next ==
  \/ \E r \in Requests :
       \/ Refuse(r) \/ CallApply(r) \/ RpcThread(r)
       \/ TimerFires(r) \/ TimeoutThread(r)
       \/ \E i \in Positions : CallEnds(r, i) \/ DoneOne(r, i)
  \/ \E h \in Hosts : EvictSession(h)

Spec == Init /\ [][Next]_vars

(* Threads run and timers fire; servers need not answer, and a cancelled   *)
(* future need not call back.  No behaviour takes infinitely many steps,   *)
(* so one condition for each request makes all its threads go on.          *)
Threads(r) ==
  \/ RpcThread(r) \/ TimerFires(r) \/ TimeoutThread(r)
  \/ \E i \in Positions : fut[r][i] \in Finished /\ DoneOne(r, i)

Fairness == \A r \in Requests : WF_vars(Threads(r))

FairSpec == Spec /\ Fairness

-----------------------------------------------------------------------------
(* Properties *)

Told(r, a) == \E k \in 1..Len(answers[r]) : answers[r][k] = a

(* A client is told a result only when every server of the list has given  *)
(* one, and no failure is left out: an error of a server is reported only  *)
(* if all servers were reached.  So it is whatever the order of done_one,  *)
(* call_apply and on_timeout.                                              *)
AnswersTellAll ==
  \A r \in Requests :
    /\ Told(r, "result") =>
         results[r] = 1..Len(dest[r]) /\ errors[r] = {}
    /\ Told(r, "call") =>
         errors[r] # {} /\ \A e \in errors[r] : e[2] = "call"

(* Once a request has timed out, replies that come late say nothing more;  *)
(* and a request that done_one has answered is not timed out later, unless *)
(* the timer had fired before.                                             *)
AnswersDoNotCross ==
  \A r \in Requests :
    /\ \A j, k \in 1..Len(answers[r]) :
         j < k /\ answers[r][j] = "timeout" => answers[r][k] = "thrown"
    /\ \A a \in {"result", "call", "transport"} :
         Told(r, a) => timer[r] # "set"

(* What the two invariants above rest on.  running_count_ counts the hosts  *)
(* whose done_one is still to come, whether their call is sent or not.     *)
Gone(r) == {i \in Positions : fut[r][i] = "gone"}

Counting ==
  \A r \in Requests :
    /\ sent[r] <= Len(dest[r])
    /\ \A i \in Positions : fut[r][i] = "none" <=> i > sent[r]
    /\ running[r] = Len(dest[r]) - Cardinality(Gone(r))

(* What done_one has noted, until on_timeout. *)
Noting ==
  \A r \in Requests :
    /\ ~cancelled[r] => Gone(r) = results[r] \cup {e[1] : e \in errors[r]}
    /\ ~transport[r] => \A e \in errors[r] : e[2] = "call"
    /\ Told(r, "result") \/ Told(r, "call") => Gone(r) = 1..Len(dest[r])

(* Where lock_ and the timer are when a request waits, times out and has   *)
(* timed out.                                                              *)
Timing ==
  \A r \in Requests :
    /\ phase[r] = "new" =>
         dest[r] = <<>> /\ answers[r] = <<>> /\ timer[r] = "unset"
    /\ phase[r] \in {"new", "thrown"} => lock[r] # "apply"
    /\ phase[r] = "apply" => lock[r] = "apply"
    /\ cancelled[r] => timer[r] = "spent"
    /\ \A i \in Positions : fut[r][i] = "cancelled" => cancelled[r]
    /\ lock[r] \in {"check", "remove"} =>
         cancelled[r] /\ ~Told(r, "timeout") /\ scan[r] > 0
    /\ lock[r] = "remove" => scan[r] <= sent[r]
    /\ Told(r, "timeout") => cancelled[r]

IInv ==
  /\ TypeOK /\ Counting /\ Noting /\ Timing
  /\ AnswersTellAll /\ AnswersDoNotCross

(* A session with a cancelled call stays in the pool only until on_timeout *)
(* takes its next step ("Fix timed-out connection instances are left in    *)
(* the pool"), whoever else uses it.                                       *)
TimedOutLeavesPool ==
  \A h \in Hosts :
    pool[h] \in dead =>
      \E r \in Requests : lock[r] = "remove" /\ sess[r][scan[r]] = pool[h]

(* Every request is answered, whatever servers do and wherever call_apply  *)
(* fails.                                                                  *)
RequestsAnswered ==
  \A r \in Requests : (phase[r] # "new") ~> (answers[r] # <<>>)

=============================================================================
