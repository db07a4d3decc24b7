------------------------------ MODULE PushMixer ------------------------------
(***************************************************************************)
(* The push mixers of a distributed cluster                                *)
(* (framework/mixer/push_mixer.cpp): a server that mixes lists the other   *)
(* servers, selects some of them (random_mixer, skip_mixer,                *)
(* broadcast_mixer), and with each of them in turn exchanges what either   *)
(* does not have: pull from her, pull from me, push to her, push to me.    *)
(* There is no lock between servers, and three threads of one server may   *)
(* mix at the same time: the main thread in start(), mixer_loop, and the   *)
(* RPC thread that serves do_mix.                                          *)
(*                                                                         *)
(* A model is the set of updates it has taken; pulling and pushing is      *)
(* union, as for the push_mixables of jubatus core (external).             *)
(***************************************************************************)
EXTENDS Naturals, Sequences, FiniteSets, SequencesExt

CONSTANTS
  Node,          \* the servers, by their place in the order of their names
  Update,        \* what can be learned from clients
  Scenarios      \* the clusters to start from: options, servers that run and
                 \* servers that may join, what is known, and the bounds on
                 \* what the environment may do

ASSUME PushAssumption == Node \subseteq Nat /\ IsFiniteSet(Node)
ASSUME ScenarioAssumption ==
  \A sc \in Scenarios : sc.running \subseteq Node /\ sc.known \subseteq Update

Thread == {"main", "loop", "rpc"}

VARIABLES
  argv,          \* the options of the servers: the mixer, and those of them
                 \* that have no threshold and mix only when they are told to
  proc,          \* proc[n]: "down", "up", "cut" (has left ZooKeeper),
                 \* "dead" (does not run, but its session is still there),
                 \* "off" (not of this cluster)
  term,          \* is_running_ has been cleared by stop()
  nodes,         \* children of /nodes
  actives,       \* children of /actives
  obsolete,      \* is_obsolete_
  model,         \* the updates in n's model
  servers,       \* servers_ of n's communication object
  pc,            \* pc[n][t]: where thread t of n is
  todo,          \* the candidates left: pointers into servers_
  her, mine,     \* her_diff and my_diff of the exchange under way
  owed,          \* history: what every server knew when n came up
  excused,       \* history: a call of n's failed, or its list was replaced
                 \* or a server on it started again while n walked over it
  left           \* how much of each bound is left

vars == <<argv, proc, term, nodes, actives, obsolete, model, servers,
          pc, todo, her, mine, owed, excused, left>>
walk == <<todo, her, mine>>
life == <<argv, proc, term, nodes>>

Spend(b) == left[b] > 0 /\ left' = [left EXCEPT ![b] = @ - 1]

At(n, t, l) == pc[n][t] = l
Goto(n, t, l) == pc' = [pc EXCEPT ![n][t] = l]

Locations == {"idle", "members", "choose", "pull", "argument", "push", "merge",
              "flag", "register", "clear", "thrown", "serve"}

TypeOK ==
  /\ argv \in [mixer : {"random", "skip", "broadcast"}, manual : SUBSET Node]
  /\ proc \in [Node -> {"down", "up", "cut", "dead", "off"}]
  /\ term \in [Node -> BOOLEAN]
  /\ nodes \subseteq Node /\ actives \subseteq nodes
  /\ obsolete \in [Node -> BOOLEAN]
  /\ model \in [Node -> SUBSET Update]
  /\ servers \in [Node -> Seq(Node)]
  /\ pc \in [Node -> [Thread -> Locations]]
  /\ todo \in [Node -> [Thread -> Seq(Nat \ {0})]]
  /\ her \in [Node -> [Thread -> SUBSET Update]]
  /\ mine \in [Node -> [Thread -> SUBSET Update]]
  /\ owed \in [Node -> SUBSET Update] /\ excused \in [Node -> BOOLEAN]
  /\ \A b \in DOMAIN left : left[b] \in Nat

Idle == [t \in Thread |-> "idle"]
Nothing == [t \in Thread |-> {}]

(* The servers of sc.running have started and hold sc.known. *)
Init ==
  /\ \E sc \in Scenarios :
       /\ argv \in [mixer : sc.mixers, manual : {sc.manual}]
       /\ proc = [n \in Node |-> IF n \in sc.running THEN "up"
                               ELSE IF n \in sc.joining THEN "down" ELSE "off"]
       /\ nodes = sc.running /\ actives = sc.running
       /\ obsolete = [n \in Node |-> n \notin sc.running]
       /\ model = [n \in Node |-> IF n \in sc.running THEN sc.known ELSE {}]
       /\ pc = [n \in Node |->
                 [Idle EXCEPT !["main"] = IF n \in sc.running THEN "serve" ELSE "idle"]]
       /\ left = sc.budget
  /\ term = [n \in Node |-> FALSE]
  /\ servers = [n \in Node |-> <<>>]
  /\ todo = [n \in Node |-> [t \in Thread |-> <<>>]]
  /\ her = [n \in Node |-> Nothing] /\ mine = [n \in Node |-> Nothing]
  /\ owed = [n \in Node |-> {}] /\ excused = [n \in Node |-> FALSE]

Serving(n) == proc[n] \in {"up", "cut"}

-----------------------------------------------------------------------------
(* filter_candidates: which entries of the list of servers to mix with *)

Others(n, s) == {i \in 1..Len(s) : s[i] # n}

(* The members of S from the least to the greatest. *)
Ascending(S) ==
  [i \in 1..Cardinality(S) |-> CHOOSE n \in S : Cardinality({m \in S : m < n}) = i - 1]

(* random_mixer draws until it does not draw itself; alone, it draws none. *)
RandomCandidates(n, s) ==
  IF Others(n, s) = {} THEN {<<>>} ELSE {<<i>> : i \in Others(n, s)}

(* Variant: broadcast_mixer stops before the last entry. *)
BroadcastShort(n, s) == {Ascending(Others(n, s) \ {Len(s)})}

BroadcastCandidates(n, s) == {Ascending(Others(n, s))}

(* std::find: one past the end for a server that is not in the list. *)
Myself(n, s) == IF \E i \in 1..Len(s) : s[i] = n
                THEN (CHOOSE i \in 1..Len(s) : s[i] = n) - 1 ELSE Len(s)

(* The strides of skip_mixer: half of the width, half of that, ..., one. *)
Strides(width) ==
  LET f[w \in 0..width] == IF w = 0 THEN <<>> ELSE <<w>> \o f[w \div 2]
  IN f[width \div 2]

SkipCandidates(n, s) ==
  {[k \in DOMAIN Strides(Len(s)) |->
      ((Myself(n, s) + Strides(Len(s))[k]) % Len(s)) + 1]}

Candidates(n, s) == CASE argv.mixer = "random" -> RandomCandidates(n, s)
                      [] argv.mixer = "broadcast" -> BroadcastCandidates(n, s)
                      [] argv.mixer = "skip" -> SkipCandidates(n, s)

-----------------------------------------------------------------------------
(* mix *)

(* The exchange or the mix is over: nothing of it is kept. *)
Drop(n, t) == /\ her' = [her EXCEPT ![n][t] = {}]
              /\ mine' = [mine EXCEPT ![n][t] = {}]
              /\ todo' = [todo EXCEPT ![n][t] = <<>>]

(* Where a thread goes when mix() has returned: start() goes on to wait    *)
(* for the end of the server.                                              *)
Returned(t) == IF t = "main" THEN "serve" ELSE "idle"

(* An exception of register_active_list leaves mix(): mixer_loop and       *)
(* do_mix log it, start() passes it on.                                    *)
Thrown(t) == IF t = "main" THEN "thrown" ELSE "idle"

(* Threads of n that hold pointers into servers_. *)
Walking(n) == {t \in Thread : pc[n][t] \in {"choose", "pull", "argument", "push", "merge"}}

(* update_members replaces servers_ under communication's m_, whatever     *)
(* other threads hold into it; a failing get_all_nodes leaves it empty.    *)
UpdateMembers(n, t) ==
  /\ At(n, t, "members")
  /\ \/ proc[n] = "up" /\ servers' = [servers EXCEPT ![n] = Ascending(nodes)]
        /\ excused' = [excused EXCEPT ![n] = @ \/ Walking(n) # {}]
        /\ UNCHANGED left
     \/ /\ \/ proc[n] = "cut" /\ UNCHANGED left
           \/ proc[n] = "up" /\ Spend("zk")
        /\ servers' = [servers EXCEPT ![n] = <<>>]
        /\ excused' = [excused EXCEPT ![n] = TRUE]
  /\ Goto(n, t, IF servers'[n] \in {<<>>, <<n>>} THEN "flag" ELSE "choose")
  /\ UNCHANGED <<life, actives, obsolete, model, walk, owed>>

(* The candidates are pointers to entries of servers_. *)
Choose(n, t) ==
  /\ At(n, t, "choose")
  /\ IF servers[n] = <<>>
     THEN todo' = todo
     ELSE \E c \in Candidates(n, servers[n]) : todo' = [todo EXCEPT ![n][t] = c]
  /\ Goto(n, t, IF todo'[n][t] = <<>> THEN "flag" ELSE "pull")
  /\ UNCHANGED <<life, actives, obsolete, model, servers, her, mine, owed,
                 excused, left>>

(* The peer t is at: what the pointer finds in servers_ now. *)
HasShe(n, t) == todo[n][t] # <<>> /\ Head(todo[n][t]) \in DOMAIN servers[n]
She(n, t) == servers[n][Head(todo[n][t])]

Reaches(n, t) == HasShe(n, t) /\ Serving(She(n, t))

(* The loop goes on with the next candidate, or ends. *)
NextPeer(n, t) ==
  /\ todo' = [todo EXCEPT ![n][t] = Tail(@)]
  /\ Goto(n, t, IF Len(todo[n][t]) = 1 THEN "flag" ELSE "pull")
  /\ her' = [her EXCEPT ![n][t] = {}] /\ mine' = [mine EXCEPT ![n][t] = {}]

(* The handlers of pull and get_pull_argument: the argument says what a    *)
(* server has, and pull answers with what it lacks.                        *)
PullArgument(p) == model[p]
TakePull(p, arg) == model[p] \ arg

(* pull from her, with what I have as the argument *)
Pull(n, t) ==
  /\ At(n, t, "pull") /\ Reaches(n, t)
  /\ her' = [her EXCEPT ![n][t] = TakePull(She(n, t), PullArgument(n))]
  /\ Goto(n, t, "argument")
  /\ UNCHANGED <<life, actives, obsolete, model, servers, todo, mine, owed,
                 excused, left>>

(* get_pull_argument of her, and pull from me with it *)
GetPullArgument(n, t) ==
  /\ At(n, t, "argument") /\ Reaches(n, t)
  /\ mine' = [mine EXCEPT ![n][t] = TakePull(n, PullArgument(She(n, t)))]
  /\ Goto(n, t, "push")
  /\ UNCHANGED <<life, actives, obsolete, model, servers, todo, her, owed,
                 excused, left>>

(* The handler of push *)
TakePush(p, diff) == model' = [model EXCEPT ![p] = @ \cup diff]

(* push to her ... *)
Push(n, t) ==
  /\ At(n, t, "push") /\ Reaches(n, t)
  /\ TakePush(She(n, t), mine[n][t])
  /\ Goto(n, t, "merge")
  /\ UNCHANGED <<life, actives, obsolete, servers, walk, owed, excused, left>>

(* Variant: what the peer had is thrown away. *)
PushMineForgets(n, t) ==
  /\ At(n, t, "merge")
  /\ TakePush(n, {})
  /\ NextPeer(n, t)
  /\ UNCHANGED <<life, actives, obsolete, servers, owed, excused, left>>

(* ... and to me *)
PushMine(n, t) ==
  /\ At(n, t, "merge")
  /\ TakePush(n, her[n][t])
  /\ NextPeer(n, t)
  /\ UNCHANGED <<life, actives, obsolete, servers, owed, excused, left>>

(* A call to the peer fails: she does not run, the pointer does not find a *)
(* server, or the call is lost, a push with or without effect.  If all     *)
(* that comes back is an error, the exchange is left and the loop goes on  *)
(* with the next candidate; if the call throws, mix() returns.             *)
CallFails(n, t) ==
  /\ pc[n][t] \in {"pull", "argument", "push"}
  /\ \/ ~Reaches(n, t) /\ UNCHANGED <<model, left>>
     \/ Reaches(n, t) /\ Spend("lost")
        /\ \/ UNCHANGED model
           \/ At(n, t, "push") /\ TakePush(She(n, t), mine[n][t])
  /\ \/ NextPeer(n, t)
     \/ Drop(n, t) /\ Goto(n, t, Returned(t))
  /\ excused' = [excused EXCEPT ![n] = TRUE]
  /\ UNCHANGED <<life, actives, obsolete, servers, owed>>

(* is_obsolete_ is read under m_, but acted on after m_ is released. *)
ReadFlag(n, t) ==
  /\ At(n, t, "flag")
  /\ Goto(n, t, IF obsolete[n] THEN "register" ELSE Returned(t))
  /\ owed' = IF nodes \subseteq {n} THEN [owed EXCEPT ![n] = {}] ELSE owed
  /\ UNCHANGED <<life, actives, obsolete, model, servers, walk, excused,
                 left>>

(* Variant: the answer of register_active is not looked at. *)
RegisterActiveUnchecked(n, t) ==
  /\ At(n, t, "register")
  /\ actives' = IF proc[n] = "up" /\ left["zk"] = 0 THEN actives \cup {n} ELSE actives
  /\ Goto(n, t, "clear")
  /\ UNCHANGED <<life, obsolete, model, servers, walk, owed, excused, left>>

(* register_active creates an ephemeral node and throws if it is there or  *)
(* the call fails, with or without effect.                                 *)
RegisterActive(n, t) ==
  /\ At(n, t, "register")
  /\ \/ /\ proc[n] = "up" /\ n \notin actives
        /\ actives' = actives \cup {n}
        /\ Goto(n, t, "clear") /\ UNCHANGED left
     \/ /\ proc[n] = "cut" \/ n \in actives
        /\ Goto(n, t, Thrown(t)) /\ UNCHANGED <<actives, left>>
     \/ /\ proc[n] = "up" /\ n \notin actives /\ Spend("zk")
        /\ actives' \in {actives, actives \cup {n}}
        /\ Goto(n, t, Thrown(t))
  /\ UNCHANGED <<life, obsolete, model, servers, walk, owed, excused>>

ClearFlag(n, t) ==
  /\ At(n, t, "clear")
  /\ obsolete' = [obsolete EXCEPT ![n] = FALSE]
  /\ Goto(n, t, Returned(t))
  /\ UNCHANGED <<life, actives, model, servers, walk, owed, excused, left>>

-----------------------------------------------------------------------------
(* The threads that call mix *)

(* One round of mixer_loop that finds a mix due: the counter that          *)
(* updated() counts has reached its threshold, or the interval since the   *)
(* last mix is over.  start() starts the thread before it mixes itself.    *)
MixerLoop(n) ==
  /\ proc[n] = "up" /\ ~term[n] /\ At(n, "loop", "idle") /\ n \notin argv.manual
  /\ Goto(n, "loop", "members")
  /\ UNCHANGED <<life, actives, obsolete, model, servers, walk, owed, excused,
                 left>>

(* The RPC do_mix, served as soon as the RPC server is started. *)
DoMix(n) ==
  /\ Serving(n) /\ At(n, "rpc", "idle") /\ Spend("domix")
  /\ Goto(n, "rpc", "members")
  /\ UNCHANGED <<life, actives, obsolete, model, servers, walk, owed, excused>>

-----------------------------------------------------------------------------
(* Servers *)

(* server_helper::start: the RPC server, then register_actor, then the     *)
(* mixer, whose start() mixes.  Who walks over a list with an earlier life *)
(* of n on it meets n as it is now.                                        *)
Boot(n) ==
  /\ proc[n] = "down" /\ n \notin nodes /\ Spend("boot")
  /\ proc' = [proc EXCEPT ![n] = "up"]
  /\ nodes' = nodes \cup {n}
  /\ owed' = [owed EXCEPT ![n] =
                {u \in Update : /\ \E p \in nodes : TRUE
                                /\ \A p \in nodes : u \in model[p]}]
  /\ excused' = [m \in Node |->
                   excused[m] \/ (Walking(m) # {} /\ n \in Range(servers[m]))]
  /\ Goto(n, "main", "members")
  /\ UNCHANGED <<argv, term, actives, obsolete, model, servers, walk>>

(* A client trains the server: the model and then updated(). *)
Train(n, u) ==
  /\ Serving(n) /\ u \notin UNION {model[p] : p \in Node} /\ Spend("train")
  /\ model' = [model EXCEPT ![n] = @ \cup {u}]
  /\ UNCHANGED <<life, actives, obsolete, servers, pc, walk, owed, excused>>

(* What n knew is owed to others only as far as somebody else knows it. *)
Gone(n) ==
  owed' = [m \in Node |->
             IF m = n THEN {}
             ELSE owed[m] \cap (model[m] \cup
                    UNION {model[p] : p \in {q \in nodes \ {m, n} : proc[q] = "up"}})]

(* The process ends; ZooKeeper still keeps its session, if it had one. *)
Exit(n) ==
  /\ proc' = [proc EXCEPT ![n] = IF proc[n] = "up" THEN "dead" ELSE "down"]
  /\ term' = [term EXCEPT ![n] = FALSE]
  /\ obsolete' = [obsolete EXCEPT ![n] = TRUE]
  /\ model' = [model EXCEPT ![n] = {}]
  /\ servers' = [servers EXCEPT ![n] = <<>>]
  /\ pc' = [pc EXCEPT ![n] = Idle]
  /\ todo' = [todo EXCEPT ![n] = [t \in Thread |-> <<>>]]
  /\ her' = [her EXCEPT ![n] = Nothing] /\ mine' = [mine EXCEPT ![n] = Nothing]
  /\ excused' = [excused EXCEPT ![n] = FALSE]
  /\ Gone(n)
  /\ UNCHANGED <<argv, nodes, actives>>

Crash(n) == Serving(n) /\ Spend("end") /\ Exit(n)

(* An exception that leaves start() ends the server. *)
StartThrows(n) == Serving(n) /\ At(n, "main", "thrown") /\ Exit(n) /\ UNCHANGED left

(* The session of a process that is gone is closed or times out. *)
SessionTimeout(n) ==
  /\ proc[n] = "dead"
  /\ proc' = [proc EXCEPT ![n] = "down"]
  /\ nodes' = nodes \ {n} /\ actives' = actives \ {n}
  /\ UNCHANGED <<argv, term, obsolete, model, servers, pc, walk, owed,
                 excused, left>>

(* SIGTERM: stop() clears is_running_ ... *)
Stop(n) ==
  /\ proc[n] = "up" /\ ~term[n] /\ Spend("end")
  /\ term' = [term EXCEPT ![n] = TRUE]
  /\ UNCHANGED <<argv, proc, nodes, actives, obsolete, model, servers,
                 pc, walk, owed, excused>>

(* ... waits for mixer_loop; then the session is closed, with RPCs still   *)
(* served and start() perhaps still mixing, ...                            *)
Leave(n) ==
  /\ proc[n] = "up" /\ term[n] /\ At(n, "loop", "idle")
  /\ proc' = [proc EXCEPT ![n] = "cut"]
  /\ nodes' = nodes \ {n} /\ actives' = actives \ {n}
  /\ Gone(n)
  /\ UNCHANGED <<argv, term, obsolete, model, servers, pc, walk,
                 excused, left>>

(* ... and the RPC server ends, when its threads have returned. *)
Shutdown(n) ==
  /\ proc[n] = "cut" /\ At(n, "rpc", "idle") /\ At(n, "main", "serve")
  /\ Exit(n) /\ UNCHANGED left

-----------------------------------------------------------------------------
MixStep(n, t) ==
  \/ UpdateMembers(n, t) \/ Choose(n, t)
  \/ Pull(n, t) \/ GetPullArgument(n, t) \/ Push(n, t) \/ PushMine(n, t)
  \/ CallFails(n, t)
  \/ ReadFlag(n, t) \/ RegisterActive(n, t) \/ ClearFlag(n, t)

Next ==
  \E n \in Node :
    \/ \E t \in Thread : MixStep(n, t)
    \/ MixerLoop(n) \/ DoMix(n)
    \/ Boot(n) \/ \E u \in Update : Train(n, u)
    \/ Crash(n) \/ StartThrows(n) \/ SessionTimeout(n)
    \/ Stop(n) \/ Leave(n) \/ Shutdown(n)

Spec == Init /\ [][Next]_vars

(* A push counts as a mix of its receiver: it resets counter_ and          *)
(* ticktime_, so that the next round of its mixer_loop is put off.         *)
Pushed(n) == \E p \in Node, t \in Thread :
               At(p, t, "push") /\ Reaches(p, t) /\ She(p, t) = n /\ Push(p, t)

(* Threads go on, every call is answered or fails; a server mixes when the *)
(* interval since the last mix or push is over; dead sessions time out;    *)
(* stop() and an exception lead to the end of the process.                 *)
Fairness ==
  \A n \in Node :
    /\ \A t \in Thread : WF_vars(MixStep(n, t))
    /\ WF_vars(MixerLoop(n) \/ Pushed(n))
    /\ WF_vars(StartThrows(n) \/ SessionTimeout(n) \/ Leave(n) \/ Shutdown(n))

FairSpec == Spec /\ Fairness

-----------------------------------------------------------------------------
(* Properties *)

(* A server that has joined with the broadcast mixer knows everything that *)
(* all servers knew when it came up, as far as one of them still runs:     *)
(* exchanges overlap with each other, with servers that come and go, and   *)
(* with do_mix, but registration comes after an exchange with each listed  *)
(* server.  Servers whose own calls failed are excused, and so are servers *)
(* whose list was replaced while they walked over it, or had a server on   *)
(* it that ended and started again meanwhile.                              *)
ActivesKnowOld ==
  argv.mixer = "broadcast" =>
    \A n \in actives : (proc[n] = "up" /\ ~excused[n]) => owed[n] \subseteq model[n]

(* is_obsolete_ is cleared only while the server is listed, whichever of   *)
(* its threads registers and whichever registration throws.                *)
FreshIsListed == \A n \in Node : (proc[n] = "up" /\ ~obsolete[n]) => n \in actives

Stays(n) == proc[n] = "up" /\ ~term[n]

(* Servers come, learn and go for a while; in the end all servers that     *)
(* stay know the same, with every strategy: failed and half-done exchanges *)
(* are made up for by later ones, although a push puts off the next mix of *)
(* its receiver.                                                           *)
UpdatesSpread ==
  <>[](\A n, p \in Node : Stays(n) /\ Stays(p) => model[n] = model[p])

=============================================================================
