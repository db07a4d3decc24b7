---------------------------- MODULE LinearMixer ----------------------------
(***************************************************************************)
(* The linear mixer of a distributed cluster                               *)
(* (framework/mixer/linear_mixer.cpp): servers train local models, and the *)
(* server that gets the cluster's master_lock collects the differences of  *)
(* all servers (get_diff), folds them, and sends the result back to all    *)
(* (put_diff).  A server whose model cannot take the result is obsolete:   *)
(* it leaves the list of active servers, fetches a model from another      *)
(* server (get_model) and mixes again.                                     *)
(*                                                                         *)
(* Modelled: the stabilizer thread and the do_mix call of every server,    *)
(* the three mix RPCs with their handlers, the mutexes that can block one  *)
(* another, /nodes and /actives in ZooKeeper, and what may go wrong: lost  *)
(* or late RPCs, failing ZooKeeper calls, crashes, expired sessions,       *)
(* orderly shutdown and restart.  master_lock is the abstract lock RWLock  *)
(* that ZkMutex implements: at most one connected holder, lost with the    *)
(* session.                                                                *)
(*                                                                         *)
(* A model is the sequence of the mixes put into it; its length is the     *)
(* version that jubatus core checks before it applies a put_diff.          *)
(***************************************************************************)
EXTENDS Naturals, Sequences, FiniteSets, SequencesExt

CONSTANTS
  Node,          \* the servers of the cluster
  NoNode,        \* no server
  Scenarios      \* what may happen: the mix protocol version each server was
                 \* built with, and a bound on each of
                 \*   mix     mixes that reach put_diff
                 \*   due     times the update count or the interval is reached
                 \*   domix   do_mix calls
                 \*   lost    RPCs lost or delayed past the caller's timeout
                 \*   zk      ZooKeeper calls of connected servers that fail
                 \*   expire  sessions of running servers that expire
                 \*   end     crashes and SIGTERMs

Bound == {"mix", "due", "domix", "lost", "zk", "expire", "end"}

ASSUME NodeAssumption ==
  NoNode \notin Node /\ Scenarios \subseteq [protocol : [Node -> Nat], max : [Bound -> Nat]]

VARIABLES
  proc,          \* proc[n]: "down", "up", "cut" (runs without a session),
                 \* "dead" (does not run, but its session is still there)
  term,          \* term[n]: n has been told to terminate
  nodes,         \* children of /nodes
  actives,       \* children of /actives
  master,        \* connected holder of master_lock
  obsolete,      \* is_obsolete_
  due,           \* counter_ > 0 and a threshold is reached
  model,         \* the mixes put into n's model, oldest first
  spin,          \* a do_mix call of n waits for master_lock
  pc,            \* where the thread of n that mixes is
  role,          \* why it mixes: "loop", "update" or "user"
  srv,           \* servers_ of n's communication object
  wait,          \* servers whose answer to the current RPC is outstanding
  got,           \* the folded diff: version plus one, 0 while there is none
  buf,           \* the model fetched by get_model, or the id of the put mix
  blocked,       \* a put_diff handler of n that waits for communication m_
  msgs,          \* put_diff requests on the way
  env            \* the scenario [protocol, max], and used: how much of each bound
                 \* is used up

vars == <<proc, term, nodes, actives, master, obsolete, due, model, spin, pc,
          role, srv, wait, got, buf, blocked, msgs, env>>
zk == <<nodes, actives, master>>
status == <<obsolete, due>>
thread == <<pc, role, srv, wait, got, buf>>
life == <<proc, term, spin>>

Spend(b) == /\ env.used[b] < env.max[b]
            /\ env' = [env EXCEPT !.used[b] = @ + 1]

Message == [to : Node, from : Node, ver : Nat, id : Nat]

TypeOK ==
  /\ proc \in [Node -> {"down", "up", "cut", "dead"}]
  /\ term \in [Node -> BOOLEAN]
  /\ nodes \subseteq Node /\ actives \subseteq Node
  /\ master \in Node \cup {NoNode}
  /\ obsolete \in [Node -> BOOLEAN] /\ due \in [Node -> BOOLEAN]
  /\ \A n \in Node : model[n] \in Seq(1..env.max["mix"])
  /\ pc \in [Node -> {"idle", "model", "fetch", "claim", "register", "unpack", "mismatch",
                      "members", "alone", "diffs", "puts", "mixed"}]
  /\ role \in [Node -> {"loop", "update", "user"}]
  /\ spin \in [Node -> BOOLEAN]
  /\ srv \in [Node -> SUBSET Node] /\ wait \in [Node -> SUBSET Node]
  /\ \A n \in Node : got[n] \in Nat /\ buf[n] \in Seq(1..env.max["mix"])
  /\ \A n \in Node : blocked[n] = <<>> \/
       blocked[n] \in Seq([msg : Message, applied : BOOLEAN])
  /\ msgs \subseteq Message
  /\ env \in [protocol : [Node -> Nat], max : [Bound -> Nat], used : [Bound -> Nat]]

Init ==
  /\ proc = [n \in Node |-> "down"]
  /\ term = [n \in Node |-> FALSE]
  /\ nodes = {} /\ actives = {} /\ master = NoNode
  /\ obsolete = [n \in Node |-> TRUE]
  /\ due = [n \in Node |-> FALSE]
  /\ model = [n \in Node |-> <<>>]
  /\ spin = [n \in Node |-> FALSE] /\ pc = [n \in Node |-> "idle"]
  /\ role = [n \in Node |-> "loop"]
  /\ srv = [n \in Node |-> {}] /\ wait = [n \in Node |-> {}]
  /\ got = [n \in Node |-> 0] /\ buf = [n \in Node |-> <<>>]
  /\ blocked = [n \in Node |-> <<>>]
  /\ msgs = {}
  /\ \E sc \in Scenarios :
       env = [protocol |-> sc.protocol, max |-> sc.max, used |-> [b \in Bound |-> 0]]

-----------------------------------------------------------------------------
(* Helpers *)

Serving(n) == proc[n] \in {"up", "cut"}

(* n answers mix RPCs: no handler of it sits on model_mutex_ and m_. *)
Responsive(n) == Serving(n) /\ blocked[n] = <<>>

(* communication's m_ is held while get_model and get_diff wait. *)
CommBusy(n) == pc[n] \in {"fetch", "diffs"}

Goto(n, l) == pc' = [pc EXCEPT ![n] = l]

(* Variant: the round forgets its zklock. *)
KeepLock(n) == UNCHANGED master

(* ~zkmutex at the end of a round or of do_mix. *)
ReleaseLock(n) == master' = IF master = n THEN NoNode ELSE master

-----------------------------------------------------------------------------
(* /nodes and /actives: every call may fail on a connected server, with or *)
(* without effect, and fails on a server whose session has expired.        *)

(* get_all_nodes into servers_; a failure leaves servers_ empty. *)
ListNodes(n, S) ==
  \/ proc[n] = "up" /\ S = nodes /\ UNCHANGED env
  \/ proc[n] = "cut" /\ S = {} /\ UNCHANGED env
  \/ proc[n] = "up" /\ S = {} /\ Spend("zk")

(* register_active creates an ephemeral node and throws if it is there. *)
Registers(n) == /\ proc[n] = "up" /\ n \notin actives
                /\ actives' = actives \cup {n}
                /\ UNCHANGED env

RegisterThrows(n) ==
  \/ /\ proc[n] = "cut" \/ n \in actives
     /\ UNCHANGED <<actives, env>>
  \/ /\ proc[n] = "up" /\ n \notin actives /\ Spend("zk")
     /\ actives' \in {actives, actives \cup {n}}

(* unregister_active; a node that is not there is as good as removed. *)
Unregisters(n) == /\ proc[n] = "up"
                  /\ actives' = actives \ {n}
                  /\ UNCHANGED env

UnregisterThrows(n) ==
  \/ proc[n] = "cut" /\ UNCHANGED <<actives, env>>
  \/ proc[n] = "up" /\ Spend("zk") /\ actives' \in {actives, actives \ {n}}

-----------------------------------------------------------------------------
(* The handler of put_diff, under model_mutex_ and m_ *)

(* Variant: the version check lets mixes of older versions pass.           *)
AppliesOlder(n, m) == Len(model[n]) >= m.ver

(* The model takes the mix only if it has the version the mix was made of  *)
(* (core's mixable->put_diff).                                             *)
Applies(n, m) == Len(model[n]) = m.ver

(* Only a change of is_obsolete_ touches /actives, under communication's   *)
(* m_.                                                                     *)
ChangesStatus(n, applied) == applied = obsolete[n]

(* Variant: put_diff becomes active without registering. *)
PutDiffEndsUnlisted(n, applied) ==
  /\ \/ applied /\ UNCHANGED <<actives, env>>
     \/ ~applied /\ Unregisters(n)
  /\ obsolete' = [obsolete EXCEPT ![n] = ~applied]
  /\ due' = [due EXCEPT ![n] = FALSE]

(* The end of put_diff.  An exception of register or unregister leaves     *)
(* is_obsolete_ and counter_ as they were, with the model already changed. *)
PutDiffEnds(n, applied) ==
  \/ /\ \/ ~ChangesStatus(n, applied) /\ UNCHANGED <<actives, env>>
        \/ ChangesStatus(n, applied) /\ applied /\ Registers(n)
        \/ ChangesStatus(n, applied) /\ ~applied /\ Unregisters(n)
     /\ obsolete' = [obsolete EXCEPT ![n] = ~applied]
     /\ due' = [due EXCEPT ![n] = FALSE]
  \/ /\ ChangesStatus(n, applied)
     /\ \/ applied /\ RegisterThrows(n)
        \/ ~applied /\ UnregisterThrows(n)
     /\ UNCHANGED status

(* The mixing thread stops waiting for an answer to m. *)
Answered(m) ==
  wait' = [wait EXCEPT ![m.from] =
             IF pc[m.from] = "puts" /\ buf[m.from] = <<m.id>>
             THEN @ \ {m.to} ELSE @]

Deliver(m) ==
  LET n == m.to
      applied == Applies(n, m)
  IN
  /\ m \in msgs /\ Responsive(n)
  /\ msgs' = msgs \ {m}
  /\ model' = [model EXCEPT ![n] = IF applied THEN Append(@, m.id) ELSE @]
  /\ \/ /\ ~(ChangesStatus(n, applied) /\ CommBusy(n))
        /\ PutDiffEnds(n, applied)
        /\ Answered(m)
        /\ UNCHANGED blocked
     \/ /\ ChangesStatus(n, applied) /\ CommBusy(n)
        /\ blocked' = [blocked EXCEPT ![n] = <<[msg |-> m, applied |-> applied]>>]
        /\ UNCHANGED <<actives, status, wait, env>>
  /\ UNCHANGED <<life, nodes, master, pc, role, srv, got, buf>>

(* The handler gets communication's m_ at last. *)
Resume(n) ==
  /\ blocked[n] # <<>> /\ ~CommBusy(n)
  /\ PutDiffEnds(n, Head(blocked[n]).applied)
  /\ Answered(Head(blocked[n]).msg)
  /\ blocked' = [blocked EXCEPT ![n] = <<>>]
  /\ UNCHANGED <<life, nodes, master, model, pc, role, srv, got, buf, msgs>>

-----------------------------------------------------------------------------
(* The stabilizer thread and do_mix: getting master_lock *)

(* updated() has reached a threshold. *)
BecomeDue(n) ==
  /\ Serving(n) /\ ~due[n] /\ blocked[n] = <<>>
  /\ Spend("due")
  /\ due' = [due EXCEPT ![n] = TRUE]
  /\ UNCHANGED <<life, zk, obsolete, model, thread, blocked, msgs>>

(* Variant: the answer of try_lock is not looked at. *)
GetLockAnyway(n) == /\ proc[n] = "up" /\ pc[n] = "idle"
                    /\ env.used["mix"] < env.max["mix"]
                    /\ master' = IF master = NoNode THEN n ELSE master

GetLock(n) == /\ proc[n] = "up" /\ pc[n] = "idle"
              /\ master = NoNode /\ env.used["mix"] < env.max["mix"]
              /\ master' = n

(* One round of stabilizer_loop that finds a mix due. *)
StartMix(n) ==
  /\ due[n] /\ ~term[n] /\ blocked[n] = <<>> /\ GetLock(n)
  /\ due' = [due EXCEPT ![n] = FALSE]
  /\ Goto(n, "members") /\ role' = [role EXCEPT ![n] = "loop"]
  /\ UNCHANGED <<life, nodes, actives, obsolete, model, srv, wait, got, buf,
                 blocked, msgs, env>>

(* Variant: the model is updated without master_lock. *)
StartUpdateUnlocked(n) ==
  /\ proc[n] = "up" /\ pc[n] = "idle" /\ blocked[n] = <<>>
  /\ obsolete[n] /\ ~term[n]
  /\ Goto(n, "model") /\ role' = [role EXCEPT ![n] = "update"]
  /\ UNCHANGED <<life, zk, status, model, srv, wait, got, buf, blocked, msgs,
                 env>>

(* One round that finds the model obsolete.  It may be due as well, if the *)
(* first try_lock of the round failed.                                     *)
StartUpdate(n) ==
  /\ obsolete[n] /\ ~term[n] /\ blocked[n] = <<>> /\ GetLock(n)
  /\ Goto(n, "model") /\ role' = [role EXCEPT ![n] = "update"]
  /\ UNCHANGED <<life, nodes, actives, status, model, srv, wait, got, buf,
                 blocked, msgs, env>>

(* do_mix resets the counter and tries to get the lock, again and again.   *)
CallDoMix(n) ==
  /\ Serving(n) /\ ~spin[n] /\ blocked[n] = <<>> /\ Spend("domix")
  /\ due' = [due EXCEPT ![n] = FALSE]
  /\ spin' = [spin EXCEPT ![n] = TRUE]
  /\ UNCHANGED <<proc, term, zk, obsolete, model, thread, blocked, msgs>>

DoMix(n) ==
  /\ spin[n] /\ GetLock(n)
  /\ spin' = [spin EXCEPT ![n] = FALSE]
  /\ Goto(n, "members") /\ role' = [role EXCEPT ![n] = "user"]
  /\ UNCHANGED <<proc, term, nodes, actives, status, model, srv, wait, got,
                 buf, blocked, msgs, env>>

(* The round or the do_mix call is over, or an exception has ended it. *)
EndRound(n) ==
  /\ Goto(n, "idle") /\ ReleaseLock(n)
  /\ srv' = [srv EXCEPT ![n] = {}] /\ wait' = [wait EXCEPT ![n] = {}]
  /\ got' = [got EXCEPT ![n] = 0] /\ buf' = [buf EXCEPT ![n] = <<>>]
  /\ UNCHANGED role

-----------------------------------------------------------------------------
(* update_model *)

(* get_model lists the servers and picks any other one, unless there is at *)
(* most one.                                                               *)
ChoosePeer(n) ==
  /\ pc[n] = "model"
  /\ \E S \in SUBSET Node :
       /\ ListNodes(n, S)
       /\ srv' = [srv EXCEPT ![n] = S]
       /\ \/ /\ Cardinality(S) <= 1
             /\ Goto(n, "claim") /\ UNCHANGED wait
          \/ /\ Cardinality(S) > 1
             /\ \E p \in S \ {n} : wait' = [wait EXCEPT ![n] = {p}]
             /\ Goto(n, "fetch")
  /\ UNCHANGED <<life, zk, status, model, role, got, buf, blocked, msgs>>

(* The peer's get_model handler answers with its model and protocol.  A    *)
(* foreign protocol makes n stop its mixer, whose thread cannot join       *)
(* itself, and send itself SIGTERM; then it carries on.                    *)
Fetch(n) ==
  /\ pc[n] = "fetch"
  /\ \E p \in wait[n] :
       /\ Responsive(p)
       /\ buf' = [buf EXCEPT ![n] = model[p]]
       /\ \/ /\ env.protocol[p] = env.protocol[n] \/ term[n]
             /\ Goto(n, "unpack") /\ UNCHANGED term
          \/ /\ env.protocol[p] # env.protocol[n] /\ ~term[n]
             /\ Goto(n, "mismatch") /\ term' = [term EXCEPT ![n] = TRUE]
  /\ wait' = [wait EXCEPT ![n] = {}]
  /\ UNCHANGED <<proc, spin, zk, status, model, role, srv, got, blocked, msgs,
                 env>>

(* The call fails or times out: the exception ends the round. *)
FetchFails(n) ==
  /\ pc[n] = "fetch"
  /\ \E p \in wait[n] : \/ ~Responsive(p) /\ UNCHANGED env
                        \/ Responsive(p) /\ Spend("lost")
  /\ EndRound(n)
  /\ UNCHANGED <<life, nodes, actives, status, model, blocked, msgs>>

(* driver_->unpack under model_mutex_; then the round goes on to mix()     *)
(* unless the mixer has been stopped meanwhile.                            *)
Unpack(n) ==
  /\ pc[n] \in {"unpack", "mismatch"} /\ blocked[n] = <<>>
  /\ model' = [model EXCEPT ![n] = buf[n]]
  /\ \/ /\ ~term[n]
        /\ Goto(n, "members") /\ buf' = [buf EXCEPT ![n] = <<>>]
        /\ UNCHANGED <<master, role, srv, wait, got>>
     \/ term[n] /\ EndRound(n)
  /\ UNCHANGED <<life, nodes, actives, status, blocked, msgs, env>>

(* "no other server available, I become active": first the flag, under m_, *)
(* then the registration, under communication's m_.                        *)
Claim(n) ==
  /\ pc[n] = "claim" /\ blocked[n] = <<>>
  /\ obsolete' = [obsolete EXCEPT ![n] = FALSE]
  /\ Goto(n, "register")
  /\ UNCHANGED <<life, zk, due, model, role, srv, wait, got, buf, blocked,
                 msgs, env>>

ClaimRegisters(n) ==
  /\ pc[n] = "register"
  /\ \/ /\ Registers(n)
        /\ \/ ~term[n] /\ Goto(n, "members")
              /\ UNCHANGED <<master, role, srv, wait, got, buf>>
           \/ term[n] /\ EndRound(n)
     \/ RegisterThrows(n) /\ EndRound(n)
  /\ UNCHANGED <<life, nodes, status, model, blocked, msgs>>

-----------------------------------------------------------------------------
(* mix *)

UpdateMembers(n) ==
  /\ pc[n] = "members"
  /\ \E S \in SUBSET Node :
       /\ ListNodes(n, S)
       /\ srv' = [srv EXCEPT ![n] = S]
       /\ wait' = [wait EXCEPT ![n] = S]
       /\ Goto(n, IF S = {} THEN "alone" ELSE "diffs")
  /\ UNCHANGED <<life, zk, status, model, role, got, buf, blocked, msgs>>

(* "no server exists, assuming myself as up-to-date": registers without    *)
(* touching is_obsolete_. *)
MixAlone(n) ==
  /\ pc[n] = "alone"
  /\ \/ /\ Registers(n) /\ Goto(n, "mixed")
        /\ UNCHANGED <<master, role, srv, wait, got, buf>>
     \/ RegisterThrows(n) /\ EndRound(n)
  /\ UNCHANGED <<life, nodes, status, model, blocked, msgs>>

(* The get_diff handler of p, folded at once: the diff of the highest      *)
(* version prevails (core's mixable->mix).                                 *)
GetDiff(n, p) ==
  /\ pc[n] = "diffs" /\ p \in wait[n] /\ Responsive(p)
  /\ got' = [got EXCEPT ![n] = IF Len(model[p]) + 1 > @
                               THEN Len(model[p]) + 1 ELSE @]
  /\ wait' = [wait EXCEPT ![n] = @ \ {p}]
  /\ UNCHANGED <<life, zk, status, model, pc, role, srv, buf, blocked, msgs,
                 env>>

(* Variant: get_diff waits without a timeout. *)
GetDiffLost(n, p) ==
  /\ pc[n] = "diffs" /\ p \in wait[n] /\ Serving(p) /\ Spend("lost")
  /\ wait' = [wait EXCEPT ![n] = @ \ {p}]
  /\ UNCHANGED <<life, zk, status, model, pc, role, srv, got, buf, blocked,
                 msgs>>

GetDiffFails(n, p) ==
  /\ pc[n] = "diffs" /\ p \in wait[n]
  /\ \/ ~Responsive(p) /\ UNCHANGED env
     \/ Responsive(p) /\ Spend("lost")
  /\ wait' = [wait EXCEPT ![n] = @ \ {p}]
  /\ UNCHANGED <<life, zk, status, model, pc, role, srv, got, buf, blocked,
                 msgs>>

(* All answers are in: give up if there is none, else send the fold to all *)
(* servers. *)
PutDiff(n) ==
  /\ pc[n] = "diffs" /\ wait[n] = {}
  /\ \/ /\ got[n] = 0
        /\ Goto(n, "mixed")
        /\ UNCHANGED <<wait, buf, msgs, env>>
     \/ /\ got[n] > 0 /\ Spend("mix")
        /\ LET id == env.used["mix"] + 1 IN
           /\ msgs' = msgs \cup {[to |-> p, from |-> n, ver |-> got[n] - 1,
                                  id |-> id] : p \in {q \in srv[n] : Serving(q)}}
           /\ buf' = [buf EXCEPT ![n] = <<id>>]
        /\ wait' = [wait EXCEPT ![n] = srv[n]]
        /\ Goto(n, "puts")
  /\ UNCHANGED <<life, zk, status, model, role, srv, got, blocked>>

(* The call to p ends without an answer: p is gone or has restarted, the   *)
(* handler is stuck, or the request is lost or overtaken by the timeout;   *)
(* then it may still arrive later.                                         *)
PutDiffFails(n, p) ==
  /\ pc[n] = "puts" /\ p \in wait[n]
  /\ LET mine == {m \in msgs : m.to = p /\ m.from = n /\ m.id = buf[n][1]} IN
     \/ mine = {} /\ UNCHANGED <<msgs, env>>
     \/ ~Responsive(p) /\ UNCHANGED <<msgs, env>>
     \/ mine # {} /\ Responsive(p) /\ Spend("lost") /\ msgs' \in {msgs, msgs \ mine}
  /\ wait' = [wait EXCEPT ![n] = @ \ {p}]
  /\ UNCHANGED <<life, zk, status, model, pc, role, srv, got, buf, blocked>>

PutsDone(n) ==
  /\ pc[n] = "puts" /\ wait[n] = {}
  /\ Goto(n, "mixed")
  /\ UNCHANGED <<life, zk, status, model, role, srv, wait, got, buf, blocked,
                 msgs, env>>

(* mix() has returned.  A round that mixed because a mix was due goes on   *)
(* to update an obsolete model, still under the lock.                      *)
AfterMix(n) ==
  /\ pc[n] = "mixed"
  /\ \/ /\ role[n] = "loop" /\ blocked[n] = <<>> /\ obsolete[n]
        /\ env.used["mix"] < env.max["mix"]
        /\ Goto(n, "model") /\ role' = [role EXCEPT ![n] = "update"]
        /\ got' = [got EXCEPT ![n] = 0] /\ buf' = [buf EXCEPT ![n] = <<>>]
        /\ UNCHANGED <<master, srv, wait>>
     \/ /\ role[n] = "loop" => blocked[n] = <<>> /\ ~obsolete[n]
        /\ EndRound(n)
  /\ UNCHANGED <<life, nodes, actives, status, model, blocked, msgs, env>>

-----------------------------------------------------------------------------
(* Processes and sessions *)

(* The server starts: RPC, then register_actor, then the mixer.  A node of *)
(* an earlier session would make register_actor throw.                     *)
Start(n) ==
  /\ proc[n] = "down" /\ n \notin nodes
  /\ proc' = [proc EXCEPT ![n] = "up"]
  /\ nodes' = nodes \cup {n}
  /\ UNCHANGED <<term, spin, actives, master, status, model, thread, blocked,
                 msgs, env>>

(* What n keeps in memory is gone, and so are the requests on their way. *)
Forget(n) ==
  /\ term' = [term EXCEPT ![n] = FALSE]
  /\ obsolete' = [obsolete EXCEPT ![n] = TRUE]
  /\ due' = [due EXCEPT ![n] = FALSE]
  /\ model' = [model EXCEPT ![n] = <<>>]
  /\ blocked' = [blocked EXCEPT ![n] = <<>>]
  /\ msgs' = {m \in msgs : m.to # n}
  /\ spin' = [spin EXCEPT ![n] = FALSE]
  /\ pc' = [pc EXCEPT ![n] = "idle"] /\ role' = [role EXCEPT ![n] = "loop"]
  /\ srv' = [srv EXCEPT ![n] = {}] /\ wait' = [wait EXCEPT ![n] = {}]
  /\ got' = [got EXCEPT ![n] = 0] /\ buf' = [buf EXCEPT ![n] = <<>>]

(* The process of n ends.  ZooKeeper still keeps its session, if it had    *)
(* one.                                                                    *)
Exit(n) ==
  /\ proc' = [proc EXCEPT ![n] = IF proc[n] = "up" THEN "dead" ELSE "down"]
  /\ Forget(n)
  /\ UNCHANGED zk

Crash(n) == Serving(n) /\ Spend("end") /\ Exit(n)

(* ZooKeeper ends the session of n: its ephemeral nodes and its lock go. *)
EndSession(n) ==
  /\ nodes' = nodes \ {n} /\ actives' = actives \ {n}
  /\ ReleaseLock(n)

(* The session of a process that is gone is closed or times out.  A        *)
(* put_diff of its that is still under way then counts as a late call.     *)
SessionTimeout(n) ==
  /\ proc[n] = "dead"
  /\ IF \E m \in msgs : m.from = n THEN Spend("lost") ELSE UNCHANGED env
  /\ proc' = [proc EXCEPT ![n] = "down"]
  /\ EndSession(n)
  /\ UNCHANGED <<term, spin, status, model, thread, blocked, msgs>>

(* The session of a running server expires; mywatcher's cleanup sends it   *)
(* SIGTERM.                                                                *)
Expire(n) ==
  /\ proc[n] = "up" /\ Spend("expire")
  /\ proc' = [proc EXCEPT ![n] = "cut"]
  /\ term' = [term EXCEPT ![n] = TRUE]
  /\ EndSession(n)
  /\ UNCHANGED <<spin, status, model, thread, blocked, msgs>>

(* SIGTERM: server_helper::stop stops the mixer and waits for the round of *)
(* its thread, unless that thread has stopped itself, ...                  *)
Terminate(n) ==
  /\ proc[n] = "up" /\ ~term[n] /\ Spend("end")
  /\ term' = [term EXCEPT ![n] = TRUE]
  /\ UNCHANGED <<proc, spin, zk, status, model, thread, blocked, msgs>>

MixerStopped(n) == pc[n] \in {"idle", "mismatch"} \/ role[n] = "user"

(* ... closes the session, while RPCs are still served (a do_mix that      *)
(* mixes at this moment counts as one whose session expires), ...          *)
Leave(n) ==
  /\ proc[n] = "up" /\ term[n] /\ MixerStopped(n)
  /\ IF pc[n] # "idle" /\ role[n] = "user" THEN Spend("expire") ELSE UNCHANGED env
  /\ proc' = [proc EXCEPT ![n] = "cut"]
  /\ EndSession(n)
  /\ UNCHANGED <<term, spin, status, model, thread, blocked, msgs>>

(* ... and ends the RPC server and the process, when all RPC threads have  *)
(* returned. *)
Shutdown(n) ==
  /\ proc[n] = "cut" /\ term[n]
  /\ pc[n] \in {"idle", "mismatch"} /\ ~spin[n]
  /\ Exit(n)
  /\ UNCHANGED env

-----------------------------------------------------------------------------

(* Steps of the thread that mixes, which go on by themselves. *)
ThreadStep(n) ==
  \/ ChoosePeer(n) \/ Fetch(n) \/ FetchFails(n) \/ Unpack(n)
  \/ Claim(n) \/ ClaimRegisters(n)
  \/ UpdateMembers(n) \/ MixAlone(n)
  \/ \E p \in Node : GetDiff(n, p) \/ GetDiffFails(n, p)
  \/ PutDiff(n) \/ PutsDone(n) \/ AfterMix(n)
  \/ \E p \in Node : PutDiffFails(n, p)

Environment(n) ==
  \/ BecomeDue(n) \/ CallDoMix(n) \/ DoMix(n)
  \/ Start(n) \/ Crash(n) \/ SessionTimeout(n) \/ Expire(n)
  \/ Terminate(n) \/ Leave(n) \/ Shutdown(n)

Next ==
  \/ \E n \in Node :
       \/ StartMix(n) \/ StartUpdate(n) \/ ThreadStep(n) \/ Resume(n)
       \/ Environment(n)
  \/ \E m \in msgs : Deliver(m)

Spec == Init /\ [][Next]_vars

(* A thread that mixes goes on, each of its calls is answered or times     *)
(* out; stabilizer_loop wakes up every half second and finds the lock free *)
(* if nobody contends; requests that are not lost arrive; ZooKeeper times  *)
(* out the session of a dead process; and a process told to stop stops.    *)
Fairness ==
  \A n \in Node :
    /\ WF_vars(ThreadStep(n)) /\ WF_vars(StartMix(n) \/ StartUpdate(n))
    /\ WF_vars(\E m \in msgs : m.to = n /\ Deliver(m)) /\ WF_vars(Resume(n))
    /\ WF_vars(SessionTimeout(n)) /\ WF_vars(Leave(n)) /\ WF_vars(Shutdown(n))

FairSpec == Spec /\ Fairness

-----------------------------------------------------------------------------
(* Properties *)

(* n takes part in the cluster and considers its model up to date. *)
Fresh(n) == /\ proc[n] = "up" /\ blocked[n] = <<>>
            /\ n \in actives /\ ~obsolete[n]

SameHistory(a, b) == IsPrefix(a, b) \/ IsPrefix(b, a)

FreshModelsAgree ==
  \A n, p \in Node : Fresh(n) /\ Fresh(p) => SameHistory(model[n], model[p])

NoSessionLost == env.used["expire"] = 0

(* Active servers hold one history of mixes, some of them perhaps a few    *)
(* mixes behind others, whatever crashes and failing ZooKeeper calls do    *)
(* to rounds half done: put_diff's version check and the retreat from      *)
(* /actives keep a server that missed a mix from going on by itself.  Lost *)
(* RPCs and lost sessions are excluded: see UpToDateModelsAgree.           *)
ActiveModelsAgree ==
  (env.used["lost"] = 0 /\ NoSessionLost) => FreshModelsAgree

(* Without ZooKeeper failures a server that does not consider itself       *)
(* obsolete is listed in /actives, whatever put_diff, update_model and     *)
(* mix() do to the flag and to the list under different mutexes, and       *)
(* however late put_diffs arrive; the instant between Claim and its        *)
(* registration is excepted.  A listed server is not obsolete either, as   *)
(* long as no call is late and no session lost: two late put_diffs that    *)
(* arrive at that instant leave an obsolete server listed.                 *)
ListedIffFresh ==
  env.used["zk"] = 0 =>
    \A n \in Node :
      (proc[n] = "up" /\ blocked[n] = <<>> /\ pc[n] # "register") =>
        /\ ~obsolete[n] => n \in actives
        /\ env.used["lost"] = 0 /\ NoSessionLost /\ n \in actives => ~obsolete[n]

(* No model takes a mix twice, even when put_diffs arrive after their      *)
(* caller has given up on them and crashed or lost its session: a mix has  *)
(* one place in all models, which the version check of put_diff keeps.     *)
(* Nor does a model take an older mix after a newer one, unless a call is  *)
(* late or a session is lost: a late mix can still fit a model that has    *)
(* missed a mix before and caught up with a newer one.                     *)
MixesInOrder ==
  \A n \in Node : \A i, j \in 1..Len(model[n]) : i < j =>
    /\ model[n][i] # model[n][j]
    /\ env.used["lost"] = 0 /\ NoSessionLost => model[n][i] < model[n][j]

(* No step takes a mix away from the model of an active server: unpack     *)
(* replaces the models of obsolete servers only, because master_lock keeps *)
(* mixes out between get_model and unpack. *)
ActiveModelsGrow ==
  [][(env'.used["lost"] = 0 /\ env'.used["expire"] = 0) =>
       \A n \in Node : Fresh(n) /\ Fresh(n)' =>
                         IsPrefix(model[n], model'[n])]_vars

(* The bound on mixes has not cut the behaviour short. *)
MixesLeft == env.used["mix"] < env.max["mix"]

(* Every round of the stabilizer thread and every do_mix call ends, also   *)
(* when the server waits for its own put_diff handler, which waits for the *)
(* mutex of the mixing thread; and so does every such put_diff handler.    *)
RoundsEnd ==
  \A n \in Node :
    /\ pc[n] # "idle" ~> (pc[n] = "idle" \/ ~MixesLeft)
    /\ blocked[n] # <<>> ~> (blocked[n] = <<>> \/ ~MixesLeft)

(* A do_mix call that waits for the lock of a session that is gone. *)
SpinsInVain(n) == spin[n] /\ proc[n] = "cut"

(* A server that is told to stop does, with the rounds it is in, unless a  *)
(* do_mix call keeps it: try_lock goes on failing without its session.     *)
StopsWhenTold ==
  \A n \in Node : term[n] ~> (~term[n] \/ SpinsInVain(n) \/ ~MixesLeft)

OneRelease == \A n, p \in Node : env.protocol[n] = env.protocol[p]

(* A running server does not stay obsolete: it gets the model of another   *)
(* server or learns that there is none, and catches up with the next mix.  *)
(* A failing registration is excepted: the next round finds nothing to do; *)
(* and so is a cluster of several releases, whose servers may stop one     *)
(* another and be started again for ever.                                  *)
ServersJoin ==
  \A n \in Node :
    (proc[n] = "up" /\ obsolete[n]) ~>
      (~obsolete[n] \/ proc[n] # "up" \/ term[n] \/ env.used["zk"] > 0 \/ ~MixesLeft
       \/ ~OneRelease)

-----------------------------------------------------------------------------
(* Claims of the source that do not hold *)

AtRest == msgs = {} /\ \A n \in Node : pc[n] = "idle"

(* put_diff reports "I got latest model. So I become active", but all it   *)
(* compares is version numbers: a put_diff that arrives late, or a         *)
(* get_diff that gets lost, lets two servers count to the same version     *)
(* with different mixes.                                                   *)
UpToDateModelsAgree == AtRest => FreshModelsAgree

=============================================================================
