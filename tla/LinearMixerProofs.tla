------------------------- MODULE LinearMixerProofs -------------------------
(***************************************************************************)
(* Proofs about LinearMixer for any servers, any protocol versions and any *)
(* bounds: types, one round of mixing at a time, one history of mixes on   *)
(* the active servers, the order of the mixes in a model, and the list of  *)
(* active servers.                                                         *)
(***************************************************************************)
EXTENDS LinearMixer, TLAPS

-----------------------------------------------------------------------------
(* Types. *)

(* What a model can be, and a put_diff request. *)
Histories == Seq(1..env.max["mix"])
Requests == [to : Node, from : Node, ver : Nat, id : 1..env.max["mix"]]

EnvTyped ==
  /\ env \in [protocol : [Node -> Nat], max : [Bound -> Nat], used : [Bound -> Nat]]
  /\ env.used["mix"] <= env.max["mix"]

ThreadTyped ==
  /\ pc \in [Node -> {"idle", "model", "fetch", "claim", "register", "unpack", "mismatch",
                      "members", "alone", "diffs", "puts", "mixed"}]
  /\ role \in [Node -> {"loop", "update", "user"}]
  /\ srv \in [Node -> SUBSET Node] /\ wait \in [Node -> SUBSET Node]
  /\ got \in [Node -> Nat] /\ buf \in [Node -> Histories]

Typed ==
  /\ proc \in [Node -> {"down", "up", "cut", "dead"}]
  /\ term \in [Node -> BOOLEAN]
  /\ nodes \subseteq Node /\ actives \subseteq Node
  /\ master \in Node \cup {NoNode}
  /\ obsolete \in [Node -> BOOLEAN] /\ due \in [Node -> BOOLEAN]
  /\ model \in [Node -> Histories]
  /\ spin \in [Node -> BOOLEAN]
  /\ ThreadTyped
  /\ blocked \in [Node -> Seq([msg : Message, applied : BOOLEAN])]
  /\ msgs \subseteq Requests
  /\ EnvTyped

(* The scenario stays, and what it has been used of grows. *)
EnvGrows ==
  /\ EnvTyped'
  /\ env'.max = env.max /\ env'.protocol = env.protocol
  /\ \A b \in Bound : env'.used[b] >= env.used[b]

(* Spending counts one up, to its bound at most. *)
LEMMA SpendGrows ==
  ASSUME EnvTyped, \/ UNCHANGED env
                   \/ \E b \in Bound : Spend(b)
  PROVE  EnvGrows
<1>1. CASE UNCHANGED env
  <2>1. env.used \in [Bound -> Nat]
    BY DEF EnvTyped
  <2> QED BY <1>1, <2>1 DEF EnvTyped, EnvGrows
<1>2. ASSUME NEW b \in Bound, Spend(b) PROVE EnvGrows
  <2>1. /\ env.used \in [Bound -> Nat] /\ env.max \in [Bound -> Nat]
        /\ env.protocol \in [Node -> Nat] /\ env.used["mix"] <= env.max["mix"]
    BY DEF EnvTyped
  <2>2. /\ env' = [env EXCEPT !.used = [env.used EXCEPT ![b] = env.used[b] + 1]]
        /\ env.used[b] < env.max[b]
    BY <1>2 DEF Spend
  <2>3. /\ env'.used = [env.used EXCEPT ![b] = env.used[b] + 1]
        /\ env'.max = env.max /\ env'.protocol = env.protocol
    BY <2>2 DEF EnvTyped
  <2>4. env'.used \in [Bound -> Nat] /\ \A c \in Bound : env'.used[c] >= env.used[c]
    BY <2>1, <2>3
  <2>5. env'.used["mix"] <= env'.max["mix"]
    BY <2>1, <2>2, <2>3 DEF Bound
  <2>6. env' \in [protocol : [Node -> Nat], max : [Bound -> Nat], used : [Bound -> Nat]]
    <3>1. env' = [protocol |-> env.protocol, max |-> env.max, used |-> env'.used]
      BY <2>2, <2>3 DEF EnvTyped
    <3> QED BY <2>1, <2>4, <3>1
  <2> QED BY <2>3, <2>4, <2>5, <2>6 DEF EnvGrows, EnvTyped
<1> QED BY <1>1, <1>2

(* Histories grow by mixes. *)
LEMMA HistoryFacts ==
  ASSUME EnvTyped
  PROVE  /\ <<>> \in Histories
         /\ \A s \in Histories, i \in 1..env.max["mix"] : Append(s, i) \in Histories
         /\ \A i \in 1..env.max["mix"] : <<i>> \in Histories
         /\ \A s \in Histories : Len(s) \in Nat
BY DEF Histories

(* What the typing of a step relies on. *)
Typable ==
  /\ Histories' = Histories /\ Requests' = Requests /\ EnvTyped'
  /\ <<>> \in Histories

(* What follows from a scenario that grows. *)
LEMMA TypableStep ==
  ASSUME EnvTyped, EnvGrows
  PROVE  Typable
BY HistoryFacts DEF EnvGrows, Histories, Requests, Typable

(* The end of a round keeps the types of the thread and of master_lock.    *)
LEMMA EndRoundTyped ==
  ASSUME Typed, Typable, NEW n \in Node, EndRound(n)
  PROVE  ThreadTyped' /\ master' \in Node \cup {NoNode}
BY DEF Typed, ThreadTyped, Typable, EndRound, ReleaseLock, Goto

(* So does the end of a process for what the process had.                  *)
LEMMA ForgetTyped ==
  ASSUME Typed, Typable, NEW n \in Node, Forget(n)
  PROVE  /\ ThreadTyped'
         /\ term' \in [Node -> BOOLEAN] /\ spin' \in [Node -> BOOLEAN]
         /\ obsolete' \in [Node -> BOOLEAN] /\ due' \in [Node -> BOOLEAN]
         /\ model' \in [Node -> Histories']
         /\ blocked' \in [Node -> Seq([msg : Message, applied : BOOLEAN])]
         /\ msgs' \subseteq Requests'
<1>1. ThreadTyped'
  BY DEF Typed, ThreadTyped, Typable, Forget
<1>2. model' \in [Node -> Histories'] /\ msgs' \subseteq Requests'
  BY DEF Typed, Typable, Forget
<1>3. blocked' \in [Node -> Seq([msg : Message, applied : BOOLEAN])]
  <2>1. <<>> \in Seq([msg : Message, applied : BOOLEAN])
    OBVIOUS
  <2> QED BY <2>1 DEF Typed, Forget
<1> QED BY <1>1, <1>2, <1>3 DEF Typed, Forget

(* The end of the put_diff handler registers, or leaves the list.          *)
LEMMA PutDiffEndsTyped ==
  ASSUME Typed, NEW n \in Node, NEW applied \in BOOLEAN, PutDiffEnds(n, applied)
  PROVE  /\ actives' \subseteq Node
         /\ obsolete' \in [Node -> BOOLEAN] /\ due' \in [Node -> BOOLEAN]
BY DEF Typed, PutDiffEnds, Registers, RegisterThrows, Unregisters, UnregisterThrows, status

(* An answer takes one server off a set of servers. *)
LEMMA AnsweredTyped ==
  ASSUME Typed, NEW m, Answered(m)
  PROVE  wait' \in [Node -> SUBSET Node]
BY DEF Typed, ThreadTyped, Answered

(* No step spends what it must not, or takes anything back. *)
LEMMA NextGrows ==
  ASSUME EnvTyped, [Next]_vars
  PROVE  EnvGrows
<1> SUFFICES UNCHANGED env \/ \E b \in Bound : Spend(b)
  BY SpendGrows
<1>1. ASSUME NEW n \in Node,
            BecomeDue(n) \/ StartMix(n) \/ StartUpdate(n) \/ CallDoMix(n) \/ DoMix(n)
      PROVE  UNCHANGED env \/ \E b \in Bound : Spend(b)
  BY <1>1 DEF Bound, BecomeDue, StartMix, StartUpdate, CallDoMix, DoMix
<1>2. ASSUME NEW n \in Node,
            ChoosePeer(n) \/ Fetch(n) \/ FetchFails(n) \/ Unpack(n) \/ Claim(n) \/ ClaimRegisters(n)
      PROVE  UNCHANGED env \/ \E b \in Bound : Spend(b)
  BY <1>2 DEF Bound, ChoosePeer, ListNodes, Fetch, FetchFails, Unpack, Claim, ClaimRegisters,
        Registers,
      RegisterThrows
<1>3. ASSUME NEW n \in Node,
            UpdateMembers(n) \/ MixAlone(n) \/ PutDiff(n) \/ PutsDone(n) \/ AfterMix(n)
      PROVE  UNCHANGED env \/ \E b \in Bound : Spend(b)
  BY <1>3 DEF Bound, UpdateMembers, ListNodes, MixAlone, Registers, RegisterThrows, PutDiff,
        PutsDone,
      AfterMix
<1>4. ASSUME NEW n \in Node, \E p \in Node : GetDiff(n, p) \/ GetDiffFails(n,
            p) \/ PutDiffFails(n, p)
      PROVE  UNCHANGED env \/ \E b \in Bound : Spend(b)
  BY <1>4 DEF Bound, GetDiff, GetDiffFails, PutDiffFails
<1>5. ASSUME NEW n \in Node,
            Start(n) \/ Crash(n) \/ SessionTimeout(n) \/ Expire(n) \/ Terminate(n) \/ Leave(n) \/ Shutdown(n)
      PROVE  UNCHANGED env \/ \E b \in Bound : Spend(b)
  BY <1>5 DEF Bound, Start, Crash, SessionTimeout, Expire, Terminate, Leave, Shutdown
<1>6. ASSUME NEW n \in Node, Resume(n)
      PROVE  UNCHANGED env \/ \E b \in Bound : Spend(b)
  BY <1>6 DEF Bound, Resume, PutDiffEnds, Registers, RegisterThrows, Unregisters, UnregisterThrows
<1>7. ASSUME NEW m \in msgs, Deliver(m)
      PROVE  UNCHANGED env \/ \E b \in Bound : Spend(b)
  BY <1>7 DEF Bound, Deliver, PutDiffEnds, Registers, RegisterThrows, Unregisters, UnregisterThrows
<1>8. CASE UNCHANGED vars
  BY <1>8 DEF vars
<1> QED BY <1>1, <1>2, <1>3, <1>4, <1>5, <1>6, <1>7, <1>8 DEF Next, ThreadStep, Environment

(* Every step keeps the types: one step for each action. *)
LEMMA TypedStep ==
  ASSUME Typed, [Next]_vars
  PROVE  Typed'
<1>0. Typable
  BY TypableStep, NextGrows DEF Typed
<1>1. ASSUME NEW n \in Node, BecomeDue(n) PROVE Typed'
  BY <1>0, <1>1 DEF BecomeDue, Typed, ThreadTyped, Typable, life, zk, status, thread
<1>2. ASSUME NEW n \in Node, StartMix(n) PROVE Typed'
  BY <1>0, <1>2 DEF StartMix, Typed, ThreadTyped, Typable, life, zk, status, thread, GetLock, Goto
<1>3. ASSUME NEW n \in Node, StartUpdate(n) PROVE Typed'
  BY <1>0, <1>3 DEF StartUpdate, Typed, ThreadTyped, Typable, life, zk, status, thread,
        GetLock, Goto
<1>4. ASSUME NEW n \in Node, CallDoMix(n) PROVE Typed'
  BY <1>0, <1>4 DEF CallDoMix, Typed, ThreadTyped, Typable, life, zk, status, thread
<1>5. ASSUME NEW n \in Node, DoMix(n) PROVE Typed'
  BY <1>0, <1>5 DEF DoMix, Typed, ThreadTyped, Typable, life, zk, status, thread, GetLock, Goto
<1>6. ASSUME NEW n \in Node, ChoosePeer(n) PROVE Typed'
  <2>1. srv' \in [Node -> SUBSET Node]
    BY <1>6 DEF ChoosePeer, Typed, ThreadTyped
  <2>2. wait' \in [Node -> SUBSET Node]
    <3>1. UNCHANGED wait \/ \E q \in Node : wait' = [wait EXCEPT ![n] = {q}]
      BY <1>6 DEF ChoosePeer
    <3>2. ASSUME NEW q \in Node, wait' = [wait EXCEPT ![n] = {q}]
          PROVE  wait' \in [Node -> SUBSET Node]
      BY <3>2 DEF Typed, ThreadTyped
    <3> QED BY <3>1, <3>2 DEF Typed, ThreadTyped
  <2>3. pc' = [pc EXCEPT ![n] = "claim"] \/ pc' = [pc EXCEPT ![n] = "fetch"]
    BY <1>6 DEF ChoosePeer, Goto
  <2>5. UNCHANGED <<role, got, buf>>
    BY <1>6 DEF ChoosePeer
  <2>4. ThreadTyped'
    BY <1>0, <2>1, <2>2, <2>3, <2>5 DEF Typed, ThreadTyped, Typable
  <2> QED BY <1>0, <1>6, <2>4 DEF ChoosePeer, Typed, Typable, life, zk, status
<1>7. ASSUME NEW n \in Node, Fetch(n) PROVE Typed'
  <2>1. buf' \in [Node -> Histories']
    BY <1>0, <1>7 DEF Fetch, Typed, ThreadTyped, Typable
  <2>2. pc' = [pc EXCEPT ![n] = "unpack"] \/ pc' = [pc EXCEPT ![n] = "mismatch"]
    BY <1>7 DEF Fetch, Goto
  <2>3. wait' \in [Node -> SUBSET Node]
    BY <1>7 DEF Fetch, Typed, ThreadTyped
  <2>4. ThreadTyped'
    BY <1>0, <1>7, <2>1, <2>2, <2>3 DEF Fetch, Typed, ThreadTyped, Typable
  <2>5. term' \in [Node -> BOOLEAN]
    BY <1>7 DEF Fetch, Typed
  <2> QED BY <1>0, <1>7, <2>4, <2>5 DEF Fetch, Typed, Typable, zk, status
<1>8. ASSUME NEW n \in Node, FetchFails(n) PROVE Typed'
  BY <1>0, <1>8, EndRoundTyped DEF FetchFails, Typed, Typable, life, status
<1>9. ASSUME NEW n \in Node, Unpack(n) PROVE Typed'
  <2>1. model' \in [Node -> Histories']
    BY <1>0, <1>9 DEF Unpack, Typed, ThreadTyped, Typable
  <2>2. ThreadTyped' /\ master' \in Node \cup {NoNode}
    <3>1. CASE EndRound(n)
      BY <3>1, <1>0, EndRoundTyped
    <3>2. CASE Goto(n, "members") /\ buf' = [buf EXCEPT ![n] = <<>>]
               /\ UNCHANGED <<master, role, srv, wait, got>>
      BY <1>0, <3>2 DEF Typed, ThreadTyped, Typable, Goto
    <3> QED BY <1>9, <3>1, <3>2 DEF Unpack
  <2> QED BY <1>0, <1>9, <2>1, <2>2 DEF Unpack, Typed, Typable, life, status
<1>10. ASSUME NEW n \in Node, Claim(n) PROVE Typed'
  BY <1>0, <1>10 DEF Claim, Typed, ThreadTyped, Typable, life, zk, status, thread, Goto
<1>11. ASSUME NEW n \in Node, ClaimRegisters(n) PROVE Typed'
  <2>1. actives' \subseteq Node
    BY <1>11 DEF ClaimRegisters, Registers, RegisterThrows, Typed
  <2>2. ThreadTyped' /\ master' \in Node \cup {NoNode}
    <3>1. CASE EndRound(n)
      BY <3>1, <1>0, EndRoundTyped
    <3>2. CASE Goto(n, "members") /\ UNCHANGED <<master, role, srv, wait, got, buf>>
      BY <1>0, <3>2 DEF Typed, ThreadTyped, Typable, Goto
    <3> QED BY <1>11, <3>1, <3>2 DEF ClaimRegisters
  <2> QED BY <1>0, <1>11, <2>1, <2>2 DEF ClaimRegisters, Typed, Typable, life, status
<1>12. ASSUME NEW n \in Node, UpdateMembers(n) PROVE Typed'
  <2>1. ThreadTyped'
    BY <1>0, <1>12 DEF UpdateMembers, Typed, ThreadTyped, Typable, Goto
  <2> QED BY <1>0, <1>12, <2>1 DEF UpdateMembers, Typed, Typable, life, zk, status
<1>13. ASSUME NEW n \in Node, MixAlone(n) PROVE Typed'
  <2>1. actives' \subseteq Node
    BY <1>13 DEF MixAlone, Registers, RegisterThrows, Typed
  <2>2. ThreadTyped' /\ master' \in Node \cup {NoNode}
    <3>1. CASE EndRound(n)
      BY <3>1, <1>0, EndRoundTyped
    <3>2. CASE Goto(n, "mixed") /\ UNCHANGED <<master, role, srv, wait, got, buf>>
      BY <1>0, <3>2 DEF Typed, ThreadTyped, Typable, Goto
    <3> QED BY <1>13, <3>1, <3>2 DEF MixAlone
  <2> QED BY <1>0, <1>13, <2>1, <2>2 DEF MixAlone, Typed, Typable, life, status
<1>14. ASSUME NEW n \in Node, NEW p \in Node, GetDiff(n, p) PROVE Typed'
  <2>1. ThreadTyped'
    BY <1>0, <1>14 DEF GetDiff, Typed, ThreadTyped, Typable
  <2> QED BY <1>0, <1>14, <2>1 DEF GetDiff, Typed, Typable, life, zk, status
<1>15. ASSUME NEW n \in Node, NEW p \in Node, GetDiffFails(n, p) PROVE Typed'
  BY <1>0, <1>15 DEF GetDiffFails, Typed, ThreadTyped, Typable, life, zk, status, thread
<1>16. ASSUME NEW n \in Node, PutDiff(n) PROVE Typed'
  <2>1. CASE UNCHANGED <<wait, buf, msgs, env>> /\ Goto(n, "mixed")
    <3>1. ThreadTyped'
      BY <1>0, <1>16, <2>1 DEF PutDiff, Goto, Typed, ThreadTyped, Typable
    <3> QED BY <1>0, <1>16, <2>1, <3>1 DEF PutDiff, Typed, Typable, life, zk, status
  <2>2. CASE ~(UNCHANGED <<wait, buf, msgs, env>> /\ Goto(n, "mixed"))
    <3> DEFINE id == env.used["mix"] + 1
    <3>1. /\ got[n] > 0 /\ Spend("mix") /\ Goto(n, "puts")
          /\ msgs' = msgs \cup {[to |-> p_1, from |-> n, ver |-> got[n] - 1,
                                  id |-> id] : p_1 \in {q \in srv[n] : Serving(q)}}
          /\ buf' = [buf EXCEPT ![n] = <<id>>] /\ wait' = [wait EXCEPT ![n] = srv[n]]
      BY <1>16, <2>2 DEF PutDiff
    <3>2. id \in 1..env.max["mix"]
      <4>1. env.used["mix"] \in Nat /\ env.max["mix"] \in Nat
        BY DEF Typed, EnvTyped, Bound
      <4>2. env.used["mix"] < env.max["mix"]
        BY <3>1 DEF Spend
      <4> QED BY <4>1, <4>2
    <3>3. <<id>> \in Histories
      BY <3>2, HistoryFacts DEF Typed
    <3>4. got[n] - 1 \in Nat /\ srv[n] \subseteq Node
      BY <3>1 DEF Typed, ThreadTyped
    <3> HIDE DEF id
    <3>5. ThreadTyped'
      BY <1>0, <1>16, <3>1, <3>3, <3>4 DEF PutDiff, Goto, Typed, ThreadTyped, Typable
    <3>6. msgs' \subseteq Requests'
      BY <1>0, <3>1, <3>2, <3>4 DEF Typed, Typable, Requests
    <3> QED BY <1>0, <1>16, <3>5, <3>6 DEF PutDiff, Typed, Typable, life, zk, status
  <2> QED BY <2>1, <2>2
<1>17. ASSUME NEW n \in Node, NEW p \in Node, PutDiffFails(n, p) PROVE Typed'
  BY <1>0, <1>17 DEF PutDiffFails, Typed, ThreadTyped, Typable, life, zk, status, thread
<1>18. ASSUME NEW n \in Node, PutsDone(n) PROVE Typed'
  BY <1>0, <1>18 DEF PutsDone, Typed, ThreadTyped, Typable, life, zk, status, thread, Goto
<1>19. ASSUME NEW n \in Node, AfterMix(n) PROVE Typed'
  <2>2. ThreadTyped' /\ master' \in Node \cup {NoNode}
    <3>1. CASE EndRound(n)
      BY <3>1, <1>0, EndRoundTyped
    <3>2. CASE /\ Goto(n, "model") /\ role' = [role EXCEPT ![n] = "update"]
               /\ got' = [got EXCEPT ![n] = 0] /\ buf' = [buf EXCEPT ![n] = <<>>]
               /\ UNCHANGED <<master, srv, wait>>
      BY <1>0, <3>2 DEF Typed, ThreadTyped, Typable, Goto
    <3> QED BY <1>19, <3>1, <3>2 DEF AfterMix
  <2> QED BY <1>0, <1>19, <2>2 DEF AfterMix, Typed, Typable, life, status
<1>20. ASSUME NEW n \in Node, Start(n) PROVE Typed'
  BY <1>0, <1>20 DEF Start, Typed, ThreadTyped, Typable, life, zk, status, thread
<1>21. ASSUME NEW n \in Node, Crash(n) PROVE Typed'
  BY <1>0, <1>21, ForgetTyped DEF Crash, Exit, Typed, Typable, zk
<1>22. ASSUME NEW n \in Node, SessionTimeout(n) PROVE Typed'
  BY <1>0, <1>22 DEF SessionTimeout, Typed, ThreadTyped, Typable, life, zk, status, thread,
        EndSession, ReleaseLock
<1>23. ASSUME NEW n \in Node, Expire(n) PROVE Typed'
  BY <1>0, <1>23 DEF Expire, Typed, ThreadTyped, Typable, life, zk, status, thread, EndSession,
        ReleaseLock
<1>24. ASSUME NEW n \in Node, Terminate(n) PROVE Typed'
  BY <1>0, <1>24 DEF Terminate, Typed, ThreadTyped, Typable, life, zk, status, thread
<1>25. ASSUME NEW n \in Node, Leave(n) PROVE Typed'
  BY <1>0, <1>25 DEF Leave, Typed, ThreadTyped, Typable, life, zk, status, thread, EndSession,
        ReleaseLock
<1>26. ASSUME NEW n \in Node, Shutdown(n) PROVE Typed'
  BY <1>0, <1>26, ForgetTyped DEF Shutdown, Exit, Typed, Typable, zk
<1>27. ASSUME NEW n \in Node, Resume(n) PROVE Typed'
  <2>1. Head(blocked[n]).applied \in BOOLEAN
    <3>1. blocked[n] \in Seq([msg : Message, applied : BOOLEAN]) /\ blocked[n] # <<>>
      BY <1>27 DEF Resume, Typed
    <3>2. \A S, s : s \in Seq(S) /\ s # <<>> => Head(s) \in S
      OBVIOUS
    <3>3. Head(blocked[n]) \in [msg : Message, applied : BOOLEAN]
      BY <3>1, <3>2, Zenon
    <3> QED BY <3>3
  <2>2. /\ actives' \subseteq Node
        /\ obsolete' \in [Node -> BOOLEAN] /\ due' \in [Node -> BOOLEAN]
    BY <1>27, <2>1, PutDiffEndsTyped DEF Resume
  <2>3. ThreadTyped'
    BY <1>0, <1>27, AnsweredTyped DEF Resume, Typed, ThreadTyped, Typable
  <2>4. blocked' \in [Node -> Seq([msg : Message, applied : BOOLEAN])]
    <3>1. <<>> \in Seq([msg : Message, applied : BOOLEAN])
      OBVIOUS
    <3> QED BY <1>27, <3>1 DEF Resume, Typed
  <2> QED BY <1>0, <1>27, <2>2, <2>3, <2>4 DEF Resume, Typed, Typable, life
<1>28. ASSUME NEW m \in msgs, Deliver(m) PROVE Typed'
  <2> DEFINE applied == Applies(m.to, m)
  <2>1. /\ m.to \in Node /\ m.id \in 1..env.max["mix"] /\ m \in Message
        /\ applied \in BOOLEAN
    <3>1. m \in Requests
      BY DEF Typed
    <3>2. m.to \in Node /\ m.id \in 1..env.max["mix"] /\ m \in Message
      BY <3>1 DEF Requests, Message
    <3> QED BY <3>2 DEF Applies
  <2>2. model' \in [Node -> Histories']
    <3>1. Append(model[m.to], m.id) \in Histories
      BY <2>1, HistoryFacts DEF Typed
    <3> QED BY <1>0, <1>28, <2>1, <3>1 DEF Deliver, Typed, Typable
  <2> HIDE DEF applied
  <2>3. CASE PutDiffEnds(m.to, applied) /\ Answered(m) /\ UNCHANGED blocked
    <3>1. /\ actives' \subseteq Node
          /\ obsolete' \in [Node -> BOOLEAN] /\ due' \in [Node -> BOOLEAN]
      BY <2>1, <2>3, PutDiffEndsTyped
    <3>2. ThreadTyped'
      BY <1>0, <1>28, <2>3, AnsweredTyped DEF Deliver, Typed, ThreadTyped, Typable
    <3> QED BY <1>0, <1>28, <2>2, <2>3, <3>1, <3>2 DEF Deliver, Typed, Typable, life
  <2>4. CASE /\ blocked' = [blocked EXCEPT ![m.to] = <<[msg |-> m, applied |-> applied]>>]
             /\ UNCHANGED <<actives, status, wait, env>>
    <3>1. <<[msg |-> m, applied |-> applied]>> \in Seq([msg : Message, applied : BOOLEAN])
      BY <2>1
    <3>2. blocked' \in [Node -> Seq([msg : Message, applied : BOOLEAN])]
      BY <2>4, <3>1 DEF Typed
    <3>3. ThreadTyped'
      BY <1>0, <1>28, <2>4 DEF Deliver, Typed, ThreadTyped, Typable
    <3> QED BY <1>0, <1>28, <2>2, <2>4, <3>2, <3>3 DEF Deliver, Typed, Typable, life, status
  <2> QED BY <1>28, <2>3, <2>4 DEF Deliver, applied
<1>29. CASE UNCHANGED vars
  BY <1>29 DEF vars, Typed, ThreadTyped, EnvTyped, Histories, Requests
<1> QED BY <1>1, <1>2, <1>3, <1>4, <1>5, <1>6, <1>7, <1>8, <1>9, <1>10, <1>11, <1>12, <1>13,
      <1>14, <1>15, <1>16, <1>17, <1>18, <1>19, <1>20, <1>21, <1>22, <1>23, <1>24, <1>25,
      <1>26, <1>27, <1>28, <1>29 DEF Next, ThreadStep, Environment

(* The first state. *)
LEMMA InitTyped == Init => Typed
<1> SUFFICES ASSUME Init PROVE Typed
  OBVIOUS
<1>1. EnvTyped
  BY NodeAssumption DEF Init, EnvTyped, Bound
<1>2. <<>> \in Histories /\ <<>> \in Seq([msg : Message, applied : BOOLEAN])
  BY <1>1, HistoryFacts
<1> QED BY <1>1, <1>2 DEF Init, Typed, ThreadTyped

(* Every variable keeps its type, and no model holds a mix that was not    *)
(* made.                                                                   *)
THEOREM TypeCorrect == Spec => []TypeOK
<1>1. Init => Typed
  BY InitTyped
<1>2. Typed /\ [Next]_vars => Typed'
  BY TypedStep
<1>3. Typed => TypeOK
  <2> SUFFICES ASSUME Typed PROVE TypeOK
    OBVIOUS
  <2>1. msgs \subseteq Message
    BY DEF Typed, Requests, Message
  <2>2. env \in [protocol : [Node -> Nat], max : [Bound -> Nat], used : [Bound -> Nat]]
    BY DEF Typed, EnvTyped
  <2> QED BY <2>1, <2>2 DEF Typed, ThreadTyped, TypeOK, Histories
<1> QED BY <1>1, <1>2, <1>3, PTL DEF Spec

-----------------------------------------------------------------------------
(* Sequences. *)

(* The front of a sequence as a function. *)
LEMMA SubSeqIs ==
  ASSUME NEW S, NEW s \in Seq(S), NEW n \in 0..Len(s)
  PROVE  SubSeq(s, 1, n) = [i \in 1..n |-> s[i]]
OBVIOUS

(* A prefix has the same elements as far as it goes. *)
LEMMA PrefixIs ==
  ASSUME NEW S, NEW s \in Seq(S), NEW t \in Seq(S)
  PROVE  IsPrefix(s, t) <=> Len(s) <= Len(t) /\ \A i \in 1..Len(s) : s[i] = t[i]
<1>1. CASE Len(s) <= Len(t)
  <2>1. /\ SubSeq(s, 1, Len(s)) = [i \in 1..Len(s) |-> s[i]]
        /\ SubSeq(t, 1, Len(s)) = [i \in 1..Len(s) |-> t[i]]
    BY <1>1, SubSeqIs
  <2>2. IsPrefix(s, t) <=> [i \in 1..Len(s) |-> s[i]] = [i \in 1..Len(s) |-> t[i]]
    BY <1>1, <2>1 DEF IsPrefix
  <2> QED BY <1>1, <2>2
<1>2. CASE ~(Len(s) <= Len(t))
  BY <1>2 DEF IsPrefix
<1> QED BY <1>1, <1>2

(* A sequence is a prefix of itself and of what is put at its end. *)
LEMMA PrefixFacts ==
  ASSUME NEW S, NEW s \in Seq(S)
  PROVE  /\ IsPrefix(s, s) /\ IsPrefix(<<>>, s)
         /\ \A i \in S : IsPrefix(s, Append(s, i))
<1>1. IsPrefix(s, s)
  BY DEF IsPrefix
<1>2. IsPrefix(<<>>, s)
  <2>1. <<>> \in Seq(S) /\ Len(<<>>) = 0 /\ Len(s) \in Nat
    OBVIOUS
  <2>2. Len(<<>>) <= Len(s) /\ \A j \in 1..Len(<<>>) : <<>>[j] = s[j]
    BY <2>1
  <2> QED BY <2>1, <2>2, PrefixIs, Zenon
<1>3. ASSUME NEW i \in S PROVE IsPrefix(s, Append(s, i))
  <2>1. /\ Append(s, i) \in Seq(S) /\ Len(s) <= Len(Append(s, i))
        /\ \A j \in 1..Len(s) : Append(s, i)[j] = s[j]
    OBVIOUS
  <2> QED BY <2>1, PrefixIs
<1> QED BY <1>1, <1>2, <1>3

(* Histories that agree. *)
LEMMA SameFacts ==
  ASSUME NEW S
  PROVE  /\ \A s \in Seq(S) : SameHistory(s, s) /\ SameHistory(<<>>, s) /\ SameHistory(s, <<>>)
         /\ \A s, t \in Seq(S) : SameHistory(s, t) => SameHistory(t, s)
BY PrefixFacts DEF SameHistory

(* A mix put at the end of one history that the other has there, if it is  *)
(* longer.                                                                 *)
LEMMA AppendAgrees ==
  ASSUME NEW S, NEW s \in Seq(S), NEW t \in Seq(S), NEW i \in S, SameHistory(s, t),
         Len(t) > Len(s) => t[Len(s) + 1] = i
  PROVE  SameHistory(Append(s, i), t)
<1> DEFINE a == Append(s, i)
<1>1. a \in Seq(S) /\ Len(a) = Len(s) + 1 /\ a[Len(s) + 1] = i
      /\ \A j \in 1..Len(s) : a[j] = s[j]
  OBVIOUS
<1> HIDE DEF a
<1>2. CASE Len(t) > Len(s)
  <2>1. \A j \in 1..Len(s) : s[j] = t[j]
    BY <1>2, PrefixIs DEF SameHistory
  <2>2. \A j \in 1..Len(a) : a[j] = t[j]
    BY <1>1, <1>2, <2>1
  <2>3. IsPrefix(a, t)
    BY <1>1, <1>2, <2>2, PrefixIs
  <2> QED BY <2>3 DEF SameHistory, a
<1>3. CASE Len(t) <= Len(s)
  <2>1. \A j \in 1..Len(t) : t[j] = s[j]
    BY <1>3, PrefixIs DEF SameHistory
  <2>2. \A j \in 1..Len(t) : t[j] = a[j]
    BY <1>1, <1>3, <2>1
  <2>3. IsPrefix(t, a)
    BY <1>1, <1>3, <2>2, PrefixIs
  <2> QED BY <2>3 DEF SameHistory, a
<1> QED BY <1>2, <1>3

-----------------------------------------------------------------------------
(* One round at a time. *)

(* No call has been lost or been late, and no running server has lost its  *)
(* session.                                                                *)
Sound == env.used["lost"] = 0 /\ NoSessionLost

(* A server that has met a foreign protocol and closed its session, its    *)
(* mixing thread still on the way out.                                     *)
Stuck(n) == proc[n] = "cut" /\ pc[n] = "mismatch"

(* The servers whose models count: those with a session, and those that a  *)
(* round under way has listed before they closed theirs.                   *)
Party(x) ==
  \/ proc[x] = "up"
  \/ Serving(x) /\ \E y \in Node : pc[y] \in {"fetch", "diffs"} /\ x \in srv[y]
  \/ \E m \in msgs : m.to = x

Sessions ==
  \A n \in Node :
    /\ proc[n] = "up" => n \in nodes
    /\ n \in nodes => proc[n] \in {"up", "dead"}
    /\ ~Serving(n) => model[n] = <<>> /\ pc[n] = "idle"

(* Who mixes holds master_lock, so that nobody else does. *)
OneRound ==
  /\ \A n \in Node : blocked[n] = <<>>
  /\ \A n \in Node : pc[n] # "idle" => (proc[n] = "up" /\ master = n) \/ Stuck(n)
  /\ \A n \in Node : pc[n] = "mismatch" => term[n]
  /\ \A n \in Node : Party(n) => ~Stuck(n)

(* The sender of a put_diff under way still waits for its answer, or it    *)
(* has died and its session still has master_lock.                         *)
Sending(m) ==
  /\ Serving(m.to) /\ master = m.from
  /\ \/ proc[m.from] = "dead"
     \/ pc[m.from] = "puts" /\ m.to \in wait[m.from] /\ buf[m.from] = <<m.id>>

Puts ==
  /\ \A m \in msgs : Sending(m)
  /\ \A m, o \in msgs : m.ver = o.ver /\ m.id = o.id

Agree == \A x, y \in Node : Party(x) /\ Party(y) => SameHistory(model[x], model[y])

(* A model that is longer than a mix under way was made of has taken it.   *)
Pending == \A m \in msgs : \A x \in Node :
  Party(x) /\ Len(model[x]) > m.ver => model[x][m.ver + 1] = m.id

(* What the thread of n has gathered: no model is longer than the diff it  *)
(* has folded, and the model it has fetched agrees with the others.        *)
Round(n) ==
  /\ pc[n] \in {"fetch", "diffs"} => wait[n] \subseteq srv[n]
  /\ pc[n] = "diffs" => \A x \in Node :
       Party(x) => x \in wait[n] \/ model[x] = <<>> \/ Len(model[x]) < got[n]
  /\ pc[n] \in {"unpack", "mismatch"} /\ proc[n] = "up" => \A x \in Node :
       Party(x) => SameHistory(buf[n], model[x])
  /\ pc[n] \in {"model", "fetch", "unpack", "mismatch", "claim"} /\ proc[n] = "up" => obsolete[n]

Core == Sessions /\ OneRound /\ Puts /\ Agree /\ Pending /\ \A n \in Node : Round(n)

MInv == Typed /\ (Sound => Core)

(* What a step spends it counts, and nothing that was spent comes back. *)
LEMMA SoundBefore ==
  ASSUME EnvTyped, EnvGrows, Sound'
  PROVE  Sound /\ ~Spend("lost") /\ ~Spend("expire")
<1>1. /\ env.used \in [Bound -> Nat] /\ env'.used \in [Bound -> Nat]
      /\ "lost" \in Bound /\ "expire" \in Bound
  BY DEF EnvTyped, EnvGrows, Bound
<1>2. \A b \in Bound : env'.used[b] >= env.used[b]
  BY DEF EnvGrows
<1>3. Sound
  BY <1>1, <1>2 DEF Sound, NoSessionLost
<1>4. ASSUME NEW b \in Bound, Spend(b) PROVE env'.used[b] = env.used[b] + 1
  <2>1. env' = [env EXCEPT !.used = [env.used EXCEPT ![b] = env.used[b] + 1]]
    BY <1>4 DEF Spend
  <2>2. env'.used = [env.used EXCEPT ![b] = env.used[b] + 1]
    BY <2>1 DEF EnvTyped
  <2> QED BY <1>1, <2>2
<1> QED BY <1>1, <1>3, <1>4 DEF Sound, NoSessionLost

(* While a connected server is in a round, but not at put_diff, it is      *)
(* alone, and nothing is under way.                                        *)
Others(n) == \A p \in Node : p # n => pc[p] = "idle" \/ Stuck(p)

LEMMA Alone ==
  ASSUME Core, NEW n \in Node, proc[n] = "up", pc[n] # "idle"
  PROVE  master = n /\ Others(n) /\ (pc[n] # "puts" => msgs = {})
<1>1. master = n
  BY DEF Core, OneRound, Stuck
<1> QED BY <1>1 DEF Core, OneRound, Puts, Sending, Others

(* While nobody holds master_lock nobody mixes.                            *)
LEMMA NobodyMixes ==
  ASSUME Typed, Core, NEW n \in Node, master = NoNode
  PROVE  Others(n) /\ msgs = {}
<1>1. \A m \in msgs : m.from \in Node
  BY DEF Typed, Requests
<1> QED BY <1>1, NodeAssumption DEF Core, OneRound, Puts, Sending, Others

(* A step of the round of n that changes no model. *)
LEMMA RoundStep ==
  ASSUME Core, NEW n \in Node, proc[n] = "up", Others(n), msgs = {},
         UNCHANGED <<proc, nodes, model, blocked, msgs>>,
         \A p \in Node : term[p] => term'[p],
         \A p \in Node : p # n =>
           /\ pc'[p] = pc[p] /\ srv'[p] = srv[p] /\ wait'[p] = wait[p]
           /\ got'[p] = got[p] /\ buf'[p] = buf[p] /\ obsolete'[p] = obsolete[p],
         pc'[n] = "idle" \/ master' = n,
         pc'[n] = "mismatch" => term'[n],
         pc'[n] \in {"fetch", "diffs"} => \A x \in srv'[n] :
           Serving(x) => proc[x] = "up" \/ (pc[n] \in {"fetch", "diffs"} /\ x \in srv[n]),
         pc'[n] \in {"fetch", "diffs"} => wait'[n] \subseteq srv'[n],
         pc'[n] = "diffs" => \A x \in Node :
           Party(x) => x \in wait'[n] \/ model[x] = <<>> \/ Len(model[x]) < got'[n],
         pc'[n] \in {"unpack", "mismatch"} => \A x \in Node :
           Party(x) => SameHistory(buf'[n], model[x]),
         pc'[n] \in {"model", "fetch", "unpack", "mismatch", "claim"} => obsolete'[n]
  PROVE  Core'
<1>1. \A x \in Node : Party(x)' => Party(x)
  BY DEF Party, Serving
<1>2. Sessions'
  BY DEF Core, Sessions, Serving
<1>3. OneRound'
  BY <1>1 DEF Core, OneRound, Others, Stuck
<1>4. Puts' /\ Pending'
  BY DEF Puts, Pending
<1>5. Agree'
  BY <1>1 DEF Core, Agree
<1>6. ASSUME NEW p \in Node PROVE Round(p)'
  <2>1. CASE p = n
    BY <1>1, <2>1 DEF Round
  <2>2. CASE p # n
    BY <1>1, <2>2 DEF Core, Round
  <2> QED BY <2>1, <2>2
<1> QED BY <1>2, <1>3, <1>4, <1>5, <1>6 DEF Core

(* A step that touches none of this. *)
LEMMA CoreKept ==
  ASSUME Core, \A p \in Node : term[p] => term'[p],
         UNCHANGED <<proc, nodes, master, model, pc, srv, wait, got, buf, obsolete, blocked, msgs>>
  PROVE  Core'
<1>1. \A x \in Node : Party(x)' = Party(x) /\ Stuck(x)' = Stuck(x) /\ Serving(x)' = Serving(x)
  BY DEF Party, Stuck, Serving
<1>2. Sessions' /\ OneRound'
  BY <1>1 DEF Core, Sessions, OneRound
<1>3. Puts' /\ Pending' /\ Agree'
  BY <1>1 DEF Core, Puts, Sending, Serving, Pending, Agree
<1>4. \A n \in Node : Round(n)'
  BY <1>1 DEF Core, Round
<1> QED BY <1>2, <1>3, <1>4 DEF Core

(* What is needed of the types to follow a step of one server. *)
Maps ==
  /\ DOMAIN proc = Node /\ DOMAIN term = Node /\ DOMAIN model = Node /\ DOMAIN obsolete = Node
  /\ DOMAIN pc = Node /\ DOMAIN srv = Node /\ DOMAIN wait = Node /\ DOMAIN got = Node
  /\ DOMAIN buf = Node /\ DOMAIN blocked = Node
  /\ \A n \in Node : Len(model[n]) \in Nat /\ got[n] \in Nat /\ srv[n] \subseteq Node

(* The domains of the maps follow from their types. *)
LEMMA TypedMaps == Typed => Maps
<1> SUFFICES ASSUME Typed PROVE Maps
  OBVIOUS
<1>1. \A n \in Node : Len(model[n]) \in Nat
  BY HistoryFacts DEF Typed
<1> QED BY <1>1 DEF Typed, ThreadTyped, Maps

(* A round begins. *)
LEMMA Begins ==
  ASSUME Typed, Core, NEW n \in Node, StartMix(n) \/ StartUpdate(n) \/ DoMix(n)
  PROVE  Core'
<1>1. /\ proc[n] = "up" /\ pc[n] = "idle" /\ master = NoNode /\ master' = n
      /\ \/ pc' = [pc EXCEPT ![n] = "members"]
         \/ pc' = [pc EXCEPT ![n] = "model"] /\ obsolete[n]
      /\ UNCHANGED <<proc, term, nodes, model, obsolete, srv, wait, got, buf, blocked, msgs>>
  BY DEF StartMix, StartUpdate, DoMix, GetLock, Goto, life, status
<1>2. Others(n) /\ msgs = {}
  BY <1>1, NobodyMixes
<1>3. pc'[n] \in {"members", "model"} /\ \A p \in Node : p # n => pc'[p] = pc[p]
  BY <1>1, TypedMaps DEF Maps
<1>4. pc'[n] = "model" => obsolete'[n]
  BY <1>1, TypedMaps DEF Maps
<1> QED BY <1>1, <1>2, <1>3, <1>4, RoundStep

(* The rounds of others are not touched by the end of one. *)
LEMMA RoundEnds ==
  ASSUME Typed, Core, NEW n \in Node, pc[n] # "idle", proc[n] = "up",
         pc[n] = "puts" => msgs = {}, EndRound(n),
         \A p \in Node : p # n => obsolete'[p] = obsolete[p],
         UNCHANGED <<proc, term, nodes, model, blocked, msgs>>
  PROVE  Core'
<1>1. Others(n) /\ msgs = {}
  BY Alone
<1>2. /\ pc'[n] = "idle"
      /\ \A p \in Node : p # n =>
           /\ pc'[p] = pc[p] /\ srv'[p] = srv[p] /\ wait'[p] = wait[p]
           /\ got'[p] = got[p] /\ buf'[p] = buf[p]
  BY TypedMaps DEF Maps, EndRound, Goto
<1> QED BY <1>1, <1>2, RoundStep

(* The steps of update_model. *)
LEMMA ChoosePeerCore ==
  ASSUME Typed, Core, NEW n \in Node, ChoosePeer(n)
  PROVE  Core'
<1>1. pc[n] = "model" /\ proc[n] = "up" /\ obsolete[n]
  BY DEF ChoosePeer, Core, OneRound, Round, Stuck
<1>2. Others(n) /\ msgs = {} /\ master = n
  BY <1>1, Alone
<1>3. PICK S \in SUBSET Node :
        /\ S = nodes \/ S = {}
        /\ srv' = [srv EXCEPT ![n] = S]
        /\ \/ pc' = [pc EXCEPT ![n] = "claim"] /\ wait' = wait
           \/ /\ \E p \in S : wait' = [wait EXCEPT ![n] = {p}]
              /\ pc' = [pc EXCEPT ![n] = "fetch"]
  BY <1>1 DEF ChoosePeer, ListNodes, Goto
<1>4. UNCHANGED <<proc, term, nodes, master, model, obsolete, got, buf, blocked, msgs>>
  BY DEF ChoosePeer, life, zk, status
<1>5. \A p \in Node : p # n => pc'[p] = pc[p] /\ srv'[p] = srv[p] /\ wait'[p] = wait[p]
  BY <1>3, TypedMaps DEF Maps
<1>6. srv'[n] = S /\ pc'[n] \in {"claim", "fetch"} /\ (pc'[n] = "fetch" => wait'[n] \subseteq S)
  BY <1>3, TypedMaps DEF Maps
<1>7. \A x \in S : Serving(x) => proc[x] = "up"
  BY <1>3 DEF Core, Sessions, Serving
<1> QED BY <1>1, <1>2, <1>4, <1>5, <1>6, <1>7, RoundStep

(* get_model copies the model of a server that agrees with all others.     *)
LEMMA FetchCore ==
  ASSUME Typed, Core, NEW n \in Node, Fetch(n)
  PROVE  Core'
<1>1. pc[n] = "fetch" /\ proc[n] = "up" /\ obsolete[n] /\ wait[n] \subseteq srv[n]
  BY DEF Fetch, Core, OneRound, Round, Stuck
<1>2. Others(n) /\ msgs = {} /\ master = n
  BY <1>1, Alone
<1>3. PICK p \in wait[n] :
        /\ Responsive(p) /\ buf' = [buf EXCEPT ![n] = model[p]]
        /\ \/ pc' = [pc EXCEPT ![n] = "unpack"] /\ term' = term
           \/ pc' = [pc EXCEPT ![n] = "mismatch"] /\ term' = [term EXCEPT ![n] = TRUE]
  BY DEF Fetch, Goto
<1>4. /\ UNCHANGED <<proc, nodes, master, model, obsolete, srv, got, blocked, msgs>>
      /\ wait' = [wait EXCEPT ![n] = {}]
  BY DEF Fetch, zk, status
<1>5. \A q \in Node : q # n => pc'[q] = pc[q] /\ wait'[q] = wait[q] /\ buf'[q] = buf[q]
  BY <1>3, <1>4, TypedMaps DEF Maps
<1>6. /\ pc'[n] \in {"unpack", "mismatch"} /\ buf'[n] = model[p]
      /\ pc'[n] = "mismatch" => term'[n]
      /\ \A q \in Node : term[q] => term'[q]
  BY <1>3, TypedMaps DEF Maps
<1>7. \A x \in Node : Party(x) => SameHistory(model[p], model[x])
  <2>1. p \in Node /\ Party(p)
    BY <1>1, <1>3, TypedMaps DEF Maps, Party, Responsive
  <2> QED BY <2>1 DEF Core, Agree
<1> QED BY <1>1, <1>2, <1>4, <1>5, <1>6, <1>7, RoundStep

(* unpack gives an active model to n, or to one that is on its way out. *)
LEMMA UnpackCore ==
  ASSUME Typed, Core, NEW n \in Node, Unpack(n)
  PROVE  Core'
<1>1. /\ pc[n] \in {"unpack", "mismatch"} /\ model' = [model EXCEPT ![n] = buf[n]]
      /\ UNCHANGED <<proc, term, nodes, obsolete, blocked, msgs>>
      /\ \/ ~term[n] /\ pc' = [pc EXCEPT ![n] = "members"]
            /\ buf' = [buf EXCEPT ![n] = <<>>] /\ UNCHANGED <<master, srv, wait, got>>
         \/ term[n] /\ EndRound(n)
  BY DEF Unpack, Goto, life, status
<1>2. /\ pc'[n] \in {"members", "idle"} /\ model'[n] = buf[n]
      /\ \A p \in Node : p # n =>
           /\ pc'[p] = pc[p] /\ srv'[p] = srv[p] /\ wait'[p] = wait[p]
           /\ got'[p] = got[p] /\ buf'[p] = buf[p] /\ model'[p] = model[p]
      /\ master' = master \/ (master = n /\ pc'[n] = "idle")
  BY <1>1, TypedMaps DEF Maps, EndRound, Goto, ReleaseLock
<1>3. \A x \in Node : Party(x)' => Party(x)
  BY <1>1, <1>2 DEF Party, Serving
<1>4. CASE proc[n] = "up"
  <2>1. Others(n) /\ msgs = {} /\ master = n
    BY <1>1, <1>4, Alone
  <2>2. Sessions'
    BY <1>1, <1>2, <1>4 DEF Core, Sessions, Serving
  <2>3. OneRound'
    BY <1>1, <1>2, <1>3, <1>4, <2>1 DEF Core, OneRound, Others, Stuck, EndRound
  <2>4. Puts' /\ Pending'
    BY <1>1, <2>1 DEF Puts, Pending
  <2>5. \A x \in Node : Party(x) => SameHistory(buf[n], model[x])
    BY <1>1, <1>4 DEF Core, Round
  <2>6. Agree'
    <3>1. \A s, t \in Histories : SameHistory(s, t) => SameHistory(t, s) /\ SameHistory(s, s)
      BY SameFacts DEF Histories
    <3>2. buf[n] \in Histories /\ \A x \in Node : model[x] \in Histories
      BY DEF Typed, ThreadTyped
    <3> QED BY <1>2, <1>3, <2>5, <3>1, <3>2 DEF Core, Agree, SameHistory
  <2>7. \A p \in Node : Round(p)'
    BY <1>1, <1>2, <1>4, <2>1 DEF Others, Stuck, Core, Round
  <2> QED BY <2>2, <2>3, <2>4, <2>6, <2>7 DEF Core
<1>5. CASE proc[n] # "up"
  <2>1. Stuck(n) /\ term[n] /\ ~Party(n) /\ pc'[n] = "idle" /\ Serving(n)
    <3>1. Stuck(n) /\ term[n] /\ ~Party(n) /\ Serving(n)
      BY <1>1, <1>5 DEF Core, OneRound, Stuck, Serving
    <3>2. EndRound(n)
      BY <1>1, <3>1
    <3> QED BY <3>1, <3>2, TypedMaps DEF Maps, EndRound, Goto
  <2>2. master' = IF master = n THEN NoNode ELSE master
    BY <1>1, <2>1 DEF EndRound, ReleaseLock
  <2>3. ~Party(n)' /\ \A p \in Node : Stuck(p)' => Stuck(p)
    BY <1>1, <1>2, <1>3, <2>1 DEF Stuck
  <2>4. Sessions'
    BY <1>1, <1>2, <2>1 DEF Core, Sessions, Serving
  <2>5. OneRound'
    BY <1>1, <1>2, <1>3, <2>1, <2>2, <2>3 DEF Core, OneRound, Stuck
  <2>6. \A m \in msgs : m.from \in Node /\ m.from # n
    BY <1>5, <2>1 DEF Typed, Requests, Core, Puts, Sending, Stuck, Serving
  <2>7. Puts'
    <3>1. ASSUME NEW m \in msgs PROVE Sending(m)'
      <4>1. Sending(m) /\ m.from \in Node /\ m.from # n
        BY <2>6 DEF Core, Puts
      <4>2. master' = master
        BY <2>2, <4>1 DEF Sending
      <4> QED BY <1>1, <1>2, <4>1, <4>2 DEF Sending, Serving
    <3> QED BY <1>1, <3>1 DEF Core, Puts
  <2>8. Agree' /\ Pending'
    BY <1>1, <1>2, <1>3, <2>1 DEF Core, Agree, Pending
  <2>9. ASSUME NEW p \in Node PROVE Round(p)'
    <3>1. CASE p = n
      BY <2>1, <3>1 DEF Round
    <3>2. CASE p # n
      BY <1>1, <1>2, <1>3, <2>1, <2>3, <3>2 DEF Core, Round
    <3> QED BY <3>1, <3>2
  <2> QED BY <2>4, <2>5, <2>7, <2>8, <2>9 DEF Core
<1> QED BY <1>4, <1>5

(* The first active server claims the empty model; whoever does not, stays *)
(* obsolete.                                                               *)
LEMMA ClaimCore ==
  ASSUME Typed, Core, NEW n \in Node, Claim(n) \/ ClaimRegisters(n) \/ MixAlone(n)
  PROVE  Core'
<1>1. /\ pc[n] \in {"claim", "register", "alone"}
      /\ UNCHANGED <<proc, term, nodes, model, blocked, msgs>>
      /\ obsolete' = obsolete \/ obsolete' = [obsolete EXCEPT ![n] = FALSE]
      /\ \/ EndRound(n)
         \/ /\ \E l \in {"register", "members", "mixed"} : pc' = [pc EXCEPT ![n] = l]
            /\ UNCHANGED <<master, srv, wait, got, buf>>
  BY DEF Claim, ClaimRegisters, MixAlone, Goto, life, zk, status
<1>2. proc[n] = "up"
  BY <1>1 DEF Core, OneRound, Stuck
<1>3. Others(n) /\ msgs = {} /\ master = n
  BY <1>1, <1>2, Alone
<1>4. \A p \in Node : p # n => obsolete'[p] = obsolete[p]
  BY <1>1, TypedMaps DEF Maps
<1>5. CASE EndRound(n)
  BY <1>1, <1>2, <1>4, <1>5, RoundEnds
<1>6. CASE /\ \E l \in {"register", "members", "mixed"} : pc' = [pc EXCEPT ![n] = l]
           /\ UNCHANGED <<master, srv, wait, got, buf>>
  <2>1. pc'[n] \in {"register", "members", "mixed"} /\ \A p \in Node : p # n => pc'[p] = pc[p]
    BY <1>6, TypedMaps DEF Maps
  <2> QED BY <1>1, <1>2, <1>3, <1>4, <1>6, <2>1, RoundStep
<1> QED BY <1>1, <1>5, <1>6

(* The steps of mix. *)
LEMMA UpdateMembersCore ==
  ASSUME Typed, Core, NEW n \in Node, UpdateMembers(n)
  PROVE  Core'
<1>1. pc[n] = "members" /\ proc[n] = "up"
  BY DEF UpdateMembers, Core, OneRound, Stuck
<1>2. Others(n) /\ msgs = {} /\ master = n
  BY <1>1, Alone
<1>3. PICK S \in SUBSET Node :
        /\ S = nodes \/ S = {}
        /\ srv' = [srv EXCEPT ![n] = S] /\ wait' = [wait EXCEPT ![n] = S]
        /\ pc' = [pc EXCEPT ![n] = IF S = {} THEN "alone" ELSE "diffs"]
  BY <1>1 DEF UpdateMembers, ListNodes, Goto
<1>4. UNCHANGED <<proc, term, nodes, master, model, obsolete, got, buf, blocked, msgs>>
  BY DEF UpdateMembers, life, zk, status
<1>5. \A p \in Node : p # n => pc'[p] = pc[p] /\ srv'[p] = srv[p] /\ wait'[p] = wait[p]
  BY <1>3, TypedMaps DEF Maps
<1>6. /\ srv'[n] = S /\ wait'[n] = S /\ pc'[n] \in {"alone", "diffs"}
      /\ pc'[n] = "diffs" => S = nodes
  BY <1>3, TypedMaps DEF Maps
<1>7. \A x \in S : Serving(x) => proc[x] = "up"
  BY <1>3 DEF Core, Sessions, Serving
<1>8. \A x \in Node : Party(x) => x \in nodes
  <2>1. \A y \in Node : pc[y] \notin {"fetch", "diffs"}
    BY <1>1, <1>2 DEF Others, Stuck
  <2> QED BY <1>2, <2>1 DEF Party, Core, Sessions
<1> QED BY <1>1, <1>2, <1>4, <1>5, <1>6, <1>7, <1>8, RoundStep

(* A get_diff folds the length of the model it meets.                      *)
LEMMA GetDiffCore ==
  ASSUME Typed, Core, NEW n \in Node, NEW p \in Node,
         GetDiff(n, p) \/ (GetDiffFails(n, p) /\ ~Responsive(p))
  PROVE  Core'
<1>1. pc[n] = "diffs" /\ proc[n] = "up"
  BY DEF GetDiff, GetDiffFails, Core, OneRound, Stuck
<1>2. Others(n) /\ msgs = {} /\ master = n
  BY <1>1, Alone
<1>3. /\ UNCHANGED <<proc, term, nodes, master, model, obsolete, pc, srv, buf, blocked, msgs>>
      /\ wait' = [wait EXCEPT ![n] = wait[n] \ {p}]
      /\ \/ got' = [got EXCEPT ![n] = IF Len(model[p]) + 1 > got[n]
                                      THEN Len(model[p]) + 1 ELSE got[n]]
         \/ got' = got /\ ~Responsive(p)
  BY DEF GetDiff, GetDiffFails, life, zk, status
<1>4. \A q \in Node : q # n => wait'[q] = wait[q] /\ got'[q] = got[q]
  BY <1>3, TypedMaps DEF Maps
<1>5. wait'[n] = wait[n] \ {p} /\ wait[n] \subseteq srv[n]
  BY <1>1, <1>3, TypedMaps DEF Maps, Core, Round
<1>6. /\ got'[n] \in Nat /\ got[n] \in Nat /\ got'[n] >= got[n]
      /\ got'[n] > Len(model[p]) \/ ~Responsive(p)
  BY <1>3, TypedMaps DEF Maps
<1>7. ~Responsive(p) => ~Party(p)
  BY DEF Responsive, Core, OneRound, Puts, Sending, Party, Serving
<1>8. \A x \in Node : Party(x) => x \in wait'[n] \/ model[x] = <<>> \/ Len(model[x]) < got'[n]
  <2> SUFFICES ASSUME NEW x \in Node, Party(x)
               PROVE  x \in wait'[n] \/ model[x] = <<>> \/ Len(model[x]) < got'[n]
    OBVIOUS
  <2>1. x \in wait[n] \/ model[x] = <<>> \/ Len(model[x]) < got[n]
    BY <1>1 DEF Core, Round
  <2>2. Len(model[x]) \in Nat
    BY TypedMaps DEF Maps
  <2> QED BY <1>5, <1>6, <1>7, <2>1, <2>2
<1> QED BY <1>1, <1>2, <1>3, <1>4, <1>5, <1>8, RoundStep

(* The steps after the calls of a round, or in their place.                *)
LEMMA PutsOverCore ==
  ASSUME Typed, Core, NEW n \in Node,
         PutsDone(n) \/ AfterMix(n) \/ FetchFails(n) \/ (PutDiff(n) /\ got[n] = 0)
  PROVE  Core'
<1>1. /\ pc[n] \in {"puts", "mixed", "fetch", "diffs"} /\ (pc[n] = "puts" => wait[n] = {})
      /\ UNCHANGED <<proc, term, nodes, model, obsolete, blocked, msgs>>
      /\ \/ EndRound(n)
         \/ /\ pc' = [pc EXCEPT ![n] = "mixed"]
            /\ UNCHANGED <<master, srv, wait, got, buf>>
         \/ /\ pc' = [pc EXCEPT ![n] = "model"] /\ obsolete[n]
            /\ got' = [got EXCEPT ![n] = 0] /\ buf' = [buf EXCEPT ![n] = <<>>]
            /\ UNCHANGED <<master, srv, wait>>
  BY DEF PutsDone, AfterMix, FetchFails, PutDiff, Goto, life, zk, status
<1>2. proc[n] = "up"
  BY <1>1 DEF Core, OneRound, Stuck
<1>3. Others(n) /\ master = n
  BY <1>1, <1>2, Alone
<1>4. msgs = {}
  <2>1. CASE pc[n] = "puts"
    BY <1>1, <1>2, <1>3, <2>1 DEF Core, Puts, Sending
  <2>2. CASE pc[n] # "puts"
    BY <1>1, <1>2, <2>2, Alone
  <2> QED BY <2>1, <2>2
<1>5. CASE EndRound(n)
  BY <1>1, <1>2, <1>4, <1>5, RoundEnds
<1>6. CASE ~EndRound(n)
  <2>1. /\ pc'[n] \in {"mixed", "model"} /\ (pc'[n] = "model" => obsolete'[n])
        /\ \A p \in Node : p # n => pc'[p] = pc[p] /\ got'[p] = got[p] /\ buf'[p] = buf[p]
        /\ UNCHANGED <<master, srv, wait>>
    BY <1>1, <1>6, TypedMaps DEF Maps
  <2> QED BY <1>1, <1>2, <1>3, <1>4, <2>1, RoundStep
<1> QED BY <1>5, <1>6

(* The put_diffs of a mix: no model that counts is longer than the diff    *)
(* they carry.                                                             *)
LEMMA PutDiffCore ==
  ASSUME Typed, Core, NEW n \in Node, PutDiff(n), got[n] # 0
  PROVE  Core'
<1> DEFINE id == env.used["mix"] + 1
<1>1. /\ pc[n] = "diffs" /\ wait[n] = {} /\ got[n] > 0
      /\ msgs' = msgs \cup {[to |-> p, from |-> n, ver |-> got[n] - 1,
                              id |-> id] : p \in {q \in srv[n] : Serving(q)}}
      /\ buf' = [buf EXCEPT ![n] = <<id>>] /\ wait' = [wait EXCEPT ![n] = srv[n]]
      /\ pc' = [pc EXCEPT ![n] = "puts"]
      /\ UNCHANGED <<proc, term, nodes, master, obsolete, model, srv, got, blocked>>
  BY DEF PutDiff, Goto, life, zk, status
<1> HIDE DEF id
<1>2. proc[n] = "up"
  BY <1>1 DEF Core, OneRound, Stuck
<1>3. Others(n) /\ msgs = {} /\ master = n
  BY <1>1, <1>2, Alone
<1>4. /\ pc'[n] = "puts" /\ wait'[n] = srv[n] /\ buf'[n] = <<id>>
      /\ \A p \in Node : p # n => pc'[p] = pc[p] /\ wait'[p] = wait[p] /\ buf'[p] = buf[p]
      /\ got[n] \in Nat /\ srv[n] \subseteq Node
  BY <1>1, TypedMaps DEF Maps
<1>5. \A m \in msgs' : /\ m.to \in srv[n] /\ Serving(m.to) /\ m.from = n
                       /\ m.ver = got[n] - 1 /\ m.id = id
  BY <1>1, <1>3
<1>6. \A x \in Node : Party(x)' => Party(x)
  BY <1>1, <1>4, <1>5 DEF Party, Serving
<1>7. \A x \in Node : Party(x) => Len(model[x]) <= got[n] - 1
  <2> SUFFICES ASSUME NEW x \in Node, Party(x) PROVE Len(model[x]) <= got[n] - 1
    OBVIOUS
  <2>1. model[x] = <<>> \/ Len(model[x]) < got[n]
    BY <1>1 DEF Core, Round
  <2>2. Len(model[x]) \in Nat /\ (model[x] = <<>> => Len(model[x]) = 0)
    BY TypedMaps DEF Maps
  <2> QED BY <1>1, <1>4, <2>1, <2>2
<1>8. Sessions'
  BY <1>1, <1>2, <1>4 DEF Core, Sessions, Serving
<1>9. OneRound'
  BY <1>1, <1>2, <1>3, <1>4, <1>6 DEF Core, OneRound, Stuck
<1>10. Puts'
  BY <1>1, <1>3, <1>4, <1>5 DEF Puts, Sending, Serving
<1>11. Agree'
  BY <1>1, <1>6 DEF Core, Agree
<1>12. Pending'
  <2>1. \A x \in Node : Len(model[x]) \in Nat
    BY TypedMaps DEF Maps
  <2> QED BY <1>1, <1>4, <1>5, <1>6, <1>7, <2>1 DEF Pending
<1>13. ASSUME NEW p \in Node PROVE Round(p)'
  <2>1. CASE p = n
    BY <1>4, <2>1 DEF Round
  <2>2. CASE p # n
    BY <1>1, <1>3, <1>4, <1>6, <2>2 DEF Others, Stuck, Core, Round
  <2> QED BY <2>1, <2>2
<1> QED BY <1>8, <1>9, <1>10, <1>11, <1>12, <1>13 DEF Core

(* A call of put_diff that ends without an answer and was not lost: its    *)
(* request is not there any more.                                          *)
LEMMA PutDiffFailsCore ==
  ASSUME Typed, Core, NEW n \in Node, NEW p \in Node, PutDiffFails(n, p), ~Spend("lost")
  PROVE  Core'
<1>1. /\ pc[n] = "puts" /\ p \in wait[n] /\ wait' = [wait EXCEPT ![n] = wait[n] \ {p}]
      /\ UNCHANGED <<proc, term, nodes, master, model, obsolete, pc, srv, got, buf, blocked, msgs>>
      /\ \/ {m \in msgs : m.to = p /\ m.from = n /\ m.id = buf[n][1]} = {}
         \/ ~Responsive(p)
  BY DEF PutDiffFails, life, zk, status
<1>2. /\ wait'[n] = wait[n] \ {p}
      /\ \A q \in Node : q # n => wait'[q] = wait[q]
  BY <1>1, TypedMaps DEF Maps
<1>3. \A x \in Node : Party(x)' = Party(x) /\ Stuck(x)' = Stuck(x) /\ Serving(x)' = Serving(x)
  BY <1>1 DEF Party, Stuck, Serving
<1>4. ASSUME NEW m \in msgs PROVE Sending(m)'
  <2>1. Sending(m) /\ m.from \in Node /\ m.to \in Node
    BY DEF Core, Puts, Typed, Requests
  <2>2. CASE m.from = n
    <3>1. proc[n] = "up"
      BY <1>1 DEF Core, OneRound, Stuck
    <3>2. m.to \in wait[n] /\ buf[n] = <<m.id>>
      BY <2>1, <2>2, <3>1 DEF Sending
    <3>3. m.to # p
      <4>1. Responsive(m.to)
        BY <2>1 DEF Sending, Responsive, Core, OneRound
      <4>2. buf[n][1] = m.id
        BY <3>2
      <4> QED BY <1>1, <2>2, <4>1, <4>2
    <3> QED BY <1>1, <1>2, <1>3, <2>1, <2>2, <3>2, <3>3 DEF Sending, Serving
  <2>3. CASE m.from # n
    BY <1>1, <1>2, <2>1, <2>3 DEF Sending, Serving
  <2> QED BY <2>2, <2>3
<1>5. Sessions' /\ OneRound'
  BY <1>1, <1>3 DEF Core, Sessions, OneRound
<1>6. Puts' /\ Agree' /\ Pending'
  BY <1>1, <1>3, <1>4 DEF Core, Puts, Agree, Pending
<1>7. ASSUME NEW q \in Node PROVE Round(q)'
  BY <1>1, <1>2, <1>3 DEF Core, Round
<1> QED BY <1>5, <1>6, <1>7 DEF Core

(* Processes and sessions. *)
LEMMA StartCore ==
  ASSUME Typed, Core, NEW n \in Node, Start(n)
  PROVE  Core'
<1>1. /\ proc[n] = "down" /\ n \notin nodes /\ nodes' = nodes \cup {n}
      /\ proc' = [proc EXCEPT ![n] = "up"]
      /\ UNCHANGED <<term, master, model, obsolete, pc, srv, wait, got, buf, blocked, msgs>>
  BY DEF Start, thread, status
<1>2. proc'[n] = "up" /\ \A p \in Node : p # n => proc'[p] = proc[p]
  BY <1>1, TypedMaps DEF Maps
<1>3. model[n] = <<>> /\ pc[n] = "idle"
  BY <1>1 DEF Core, Sessions, Serving
<1>4. \A x \in Node : x # n => (Party(x)' <=> Party(x)) /\ (Stuck(x)' <=> Stuck(x))
  BY <1>1, <1>2 DEF Party, Stuck, Serving
<1>5. Sessions'
  BY <1>1, <1>2 DEF Core, Sessions, Serving
<1>6. OneRound'
  BY <1>1, <1>2, <1>3, <1>4 DEF Core, OneRound, Stuck
<1>7. Puts'
  <2>1. \A m \in msgs : m.from \in Node /\ m.to \in Node
    BY DEF Typed, Requests
  <2>2. \A m \in msgs : m.from # n /\ m.to # n
    BY <1>1, <1>3 DEF Core, Puts, Sending, Serving
  <2> QED BY <1>1, <1>2, <2>1, <2>2 DEF Core, Puts, Sending, Serving
<1>8. \A x \in Node : /\ SameHistory(model[n], model[x]) /\ SameHistory(model[x], model[n])
                      /\ buf[x] \in Histories /\ SameHistory(buf[x], model[n])
  <2>1. /\ \A x \in Node : model[x] \in Histories /\ buf[x] \in Histories
        /\ \A s \in Histories : SameHistory(<<>>, s) /\ SameHistory(s, <<>>)
    BY SameFacts DEF Typed, ThreadTyped, Histories
  <2> QED BY <1>3, <2>1
<1>9. Agree'
  BY <1>1, <1>4, <1>8 DEF Core, Agree
<1>10. Pending'
  <2>1. Len(model[n]) = 0 /\ \A m \in msgs : m.ver \in Nat
    BY <1>3 DEF Typed, Requests
  <2> QED BY <1>1, <1>4, <2>1 DEF Core, Pending
<1>11. ASSUME NEW p \in Node PROVE Round(p)'
  <2>1. CASE p = n
    BY <1>1, <1>3, <2>1 DEF Round
  <2>2. CASE p # n
    BY <1>1, <1>2, <1>3, <1>4, <1>8, <2>2 DEF Core, Round
  <2> QED BY <2>1, <2>2
<1> QED BY <1>5, <1>6, <1>7, <1>9, <1>10, <1>11 DEF Core

(* A process that ends leaves no model behind. *)
LEMMA ExitCore ==
  ASSUME Typed, Core, NEW n \in Node, Crash(n) \/ Shutdown(n)
  PROVE  Core'
<1>1. /\ Serving(n) /\ Forget(n) /\ UNCHANGED <<nodes, master>>
      /\ proc' = [proc EXCEPT ![n] = IF proc[n] = "up" THEN "dead" ELSE "down"]
  BY DEF Crash, Shutdown, Exit, zk, Serving
<1>2. /\ proc'[n] = (IF proc[n] = "up" THEN "dead" ELSE "down")
      /\ pc'[n] = "idle" /\ model'[n] = <<>> /\ blocked'[n] = <<>>
      /\ \A p \in Node : p # n =>
           /\ proc'[p] = proc[p] /\ term'[p] = term[p] /\ pc'[p] = pc[p] /\ srv'[p] = srv[p]
           /\ wait'[p] = wait[p] /\ got'[p] = got[p] /\ buf'[p] = buf[p]
           /\ model'[p] = model[p] /\ obsolete'[p] = obsolete[p] /\ blocked'[p] = blocked[p]
      /\ msgs' = {m \in msgs : m.to # n}
  BY <1>1, TypedMaps DEF Maps, Forget
<1>3. ~Party(n)' /\ \A x \in Node : Party(x)' => Party(x) /\ x # n
  BY <1>1, <1>2 DEF Party, Serving
<1>4. Sessions'
  BY <1>1, <1>2 DEF Core, Sessions, Serving
<1>5. OneRound'
  BY <1>1, <1>2, <1>3 DEF Core, OneRound, Stuck
<1>6. Puts'
  <2>1. ASSUME NEW m \in msgs' PROVE Sending(m)'
    <3>1. m \in msgs /\ m.to # n /\ Sending(m) /\ m.from \in Node /\ m.to \in Node
      BY <1>2 DEF Core, Puts, Typed, Requests
    <3>2. CASE m.from = n
      <4>1. proc[n] = "up"
        BY <1>1, <3>1, <3>2 DEF Sending, Core, OneRound, Stuck, Serving
      <4> QED BY <1>1, <1>2, <3>1, <3>2, <4>1 DEF Sending, Serving
    <3>3. CASE m.from # n
      BY <1>1, <1>2, <3>1, <3>3 DEF Sending, Serving
    <3> QED BY <3>2, <3>3
  <2> QED BY <1>2, <2>1 DEF Core, Puts
<1>7. Agree' /\ Pending'
  BY <1>2, <1>3 DEF Core, Agree, Pending
<1>8. ASSUME NEW p \in Node PROVE Round(p)'
  <2>1. CASE p = n
    BY <1>2, <2>1 DEF Round
  <2>2. CASE p # n
    BY <1>2, <1>3, <2>2 DEF Core, Round
  <2> QED BY <2>1, <2>2
<1> QED BY <1>4, <1>5, <1>6, <1>7, <1>8 DEF Core

(* The session of n ends while n does not mix, or mixes no more. *)
LEMMA SessionEnds ==
  ASSUME Typed, Core, NEW n \in Node, NEW s \in {"down", "cut"},
         proc[n] = (IF s = "down" THEN "dead" ELSE "up"),
         pc[n] \in {"idle", "mismatch"}, \A m \in msgs : m.from # n,
         proc' = [proc EXCEPT ![n] = s], EndSession(n),
         UNCHANGED <<term, model, obsolete, pc, srv, wait, got, buf, blocked, msgs>>
  PROVE  Core'
<1>1. /\ nodes' = nodes \ {n} /\ master' = IF master = n THEN NoNode ELSE master
      /\ proc'[n] = s /\ \A p \in Node : p # n => proc'[p] = proc[p]
  BY TypedMaps DEF Maps, EndSession, ReleaseLock
<1>2. \A x \in Node : (Party(x)' => Party(x)) /\ (x # n => (Stuck(x)' <=> Stuck(x)))
  BY <1>1 DEF Party, Stuck, Serving
<1>3. \A m \in msgs : Sending(m) /\ m.from \in Node /\ m.to \in Node
  BY DEF Core, Puts, Typed, Requests
<1>4. CASE Party(n)' /\ Stuck(n)'
  <2>1. pc[n] = "mismatch" /\ proc[n] = "up"
    BY <1>1, <1>4 DEF Stuck
  <2>2. Others(n) /\ msgs = {}
    BY <2>1, Alone
  <2> QED BY <1>1, <1>4, <2>1, <2>2 DEF Party, Stuck, Others
<1>5. Sessions'
  BY <1>1 DEF Core, Sessions, Serving
<1>6. CASE ~(Party(n)' /\ Stuck(n)')
  <2>1. OneRound'
    <3>1. \A p \in Node : Party(p)' => ~Stuck(p)'
      BY <1>2, <1>6 DEF Core, OneRound
    <3>2. \A p \in Node : pc[p] # "idle" => (proc'[p] = "up" /\ master' = p) \/ Stuck(p)'
      BY <1>1, <1>2 DEF Core, OneRound, Stuck
    <3> QED BY <3>1, <3>2 DEF Core, OneRound
  <2>2. Puts'
    <3>1. ASSUME NEW m \in msgs PROVE Sending(m)'
      <4>1. master = m.from /\ m.from # n /\ Serving(m.to)'
        BY <1>1, <1>3 DEF Sending, Serving
      <4> QED BY <1>1, <1>3, <4>1 DEF Sending
    <3> QED BY <3>1 DEF Core, Puts
  <2>3. Agree' /\ Pending'
    BY <1>2 DEF Core, Agree, Pending
  <2>4. ASSUME NEW p \in Node PROVE Round(p)'
    BY <1>1, <1>2 DEF Core, Round
  <2> QED BY <1>5, <2>1, <2>2, <2>3, <2>4 DEF Core
<1> QED BY <1>4, <1>6

(* A session ends by its timeout, or is closed by the way out.             *)
LEMMA SessionStepsCore ==
  ASSUME Typed, Core, NEW n \in Node, ~Spend("lost"), ~Spend("expire"),
         SessionTimeout(n) \/ Leave(n)
  PROVE  Core'
<1>1. CASE SessionTimeout(n)
  <2>1. proc[n] = "dead" /\ proc' = [proc EXCEPT ![n] = "down"] /\ EndSession(n)
        /\ (\A m \in msgs : m.from # n)
        /\ UNCHANGED <<term, model, obsolete, pc, srv, wait, got, buf, blocked, msgs>>
    BY <1>1 DEF SessionTimeout, status, thread
  <2>2. pc[n] = "idle"
    BY <2>1 DEF Core, Sessions, Serving
  <2> QED BY <2>1, <2>2, SessionEnds
<1>2. CASE Leave(n)
  <2>1. proc[n] = "up" /\ proc' = [proc EXCEPT ![n] = "cut"] /\ EndSession(n)
        /\ pc[n] \in {"idle", "mismatch"}
        /\ UNCHANGED <<term, model, obsolete, pc, srv, wait, got, buf, blocked, msgs>>
    BY <1>2 DEF Leave, MixerStopped, status, thread
  <2>2. \A m \in msgs : m.from # n
    BY <2>1 DEF Core, Puts, Sending
  <2> QED BY <2>1, <2>2, SessionEnds
<1> QED BY <1>1, <1>2

(* put_diff at n = m.to: a model that takes the mix goes on agreeing with  *)
(* those that have taken it and with those that have not.                  *)
LEMMA DeliverCore ==
  ASSUME Typed, Core, NEW m \in msgs, Deliver(m)
  PROVE  Core'
<1> DEFINE n == m.to
           i == m.id
<1>1. Sending(m) /\ n \in Node /\ m.from \in Node /\ m.ver \in Nat /\ i \in 1..env.max["mix"]
  BY DEF Core, Puts, Typed, Requests
<1>2. /\ proc[m.from] = "up" \/ proc[m.from] = "dead"
      /\ \A y \in Node : pc[y] # "idle" => Stuck(y) \/ (y = m.from /\ pc[y] = "puts" /\ proc[y] = "up")
  <2>1. \A y \in Node : pc[y] # "idle" => Stuck(y) \/ (proc[y] = "up" /\ y = m.from)
    BY <1>1 DEF Core, OneRound, Sending
  <2>2. \A y \in Node : y = m.from /\ pc[y] # "idle" /\ proc[y] = "up" => pc[y] = "puts"
    BY <1>1 DEF Sending
  <2> QED BY <1>1, <2>1, <2>2 DEF Sending, Stuck
<1>3. ~CommBusy(n)
  BY <1>1, <1>2 DEF CommBusy, Stuck
<1>4. /\ msgs' = msgs \ {m}
      /\ model' = [model EXCEPT ![n] = IF Applies(n, m) THEN Append(model[n], i) ELSE model[n]]
      /\ Answered(m)
      /\ UNCHANGED <<proc, term, nodes, master, pc, srv, got, buf, blocked>>
  BY <1>3 DEF Deliver, life
<1>5. \A p \in Node : p # n => obsolete'[p] = obsolete[p]
  BY <1>1, <1>3, TypedMaps DEF Maps, Deliver, PutDiffEnds, status
<1>6. /\ model'[n] = (IF Len(model[n]) = m.ver THEN Append(model[n], i) ELSE model[n])
      /\ \A p \in Node : p # n => model'[p] = model[p]
      /\ \A p \in Node : p # m.from => wait'[p] = wait[p]
      /\ wait'[m.from] = wait[m.from] \/ wait'[m.from] = wait[m.from] \ {n}
      /\ wait'[m.from] # wait[m.from] => pc[m.from] = "puts"
  BY <1>1, <1>4, TypedMaps DEF Maps, Answered, Applies
<1>7. \A x \in Node : Party(x)' => Party(x)
  BY <1>4 DEF Party, Serving
<1>8. Party(n)
  BY DEF Party
<1>9. Sessions'
  BY <1>1, <1>4, <1>6 DEF Core, Sessions, Sending, Serving
<1>10. OneRound'
  BY <1>4, <1>7 DEF Core, OneRound, Stuck
<1>11. Puts'
  <2>1. ASSUME NEW o \in msgs' PROVE Sending(o)'
    <3>1. o \in msgs /\ o # m /\ Sending(o) /\ o.ver = m.ver /\ o.id = m.id /\ o.from = m.from
      BY <1>1, <1>4 DEF Core, Puts, Sending
    <3>2. o.to # n
      <4>1. o \in Requests /\ m \in Requests
        BY <3>1 DEF Typed
      <4> QED BY <3>1, <4>1 DEF Requests
    <3> QED BY <1>1, <1>4, <1>6, <3>1, <3>2 DEF Sending, Serving
  <2> QED BY <1>4, <2>1 DEF Core, Puts
<1>12. \A x \in Node : model[x] \in Histories /\ Len(model[x]) \in Nat
  BY TypedMaps DEF Maps, Typed
<1>13. ASSUME NEW x \in Node, Party(x), x # n PROVE SameHistory(model'[n], model[x])
  <2>1. SameHistory(model[n], model[x])
    BY <1>1, <1>8, <1>13 DEF Core, Agree
  <2>2. CASE Len(model[n]) = m.ver
    <3>1. Len(model[x]) > Len(model[n]) => model[x][Len(model[n]) + 1] = i
      BY <1>13, <2>2 DEF Core, Pending
    <3>2. \A s, t \in Histories :
            SameHistory(s, t) /\ (Len(t) > Len(s) => t[Len(s) + 1] = i)
              => SameHistory(Append(s, i), t)
      BY <1>1, AppendAgrees DEF Histories
    <3>3. model'[n] = Append(model[n], i)
      BY <1>6, <2>2
    <3>4. model[n] \in Histories /\ model[x] \in Histories
      BY <1>1, <1>12
    <3>5. SameHistory(Append(model[n], i), model[x])
      <4> HIDE DEF n, i
      <4> QED BY <2>1, <3>1, <3>2, <3>4
    <3> QED BY <3>3, <3>5
  <2>3. CASE Len(model[n]) # m.ver
    BY <1>6, <2>1, <2>3
  <2> QED BY <2>2, <2>3
<1>14. Agree'
  <2>1. model'[n] \in Histories
    BY <1>1, <1>6, <1>12, HistoryFacts DEF Typed
  <2>2. \A s \in Histories : SameHistory(s, s)
    BY SameFacts DEF Histories
  <2> QED BY <1>6, <1>7, <1>13, <2>1, <2>2 DEF Core, Agree, SameHistory
<1>15. Pending'
  <2> SUFFICES ASSUME NEW o \in msgs', NEW x \in Node, Party(x)', Len(model'[x]) > o.ver
               PROVE  model'[x][o.ver + 1] = o.id
    BY DEF Pending
  <2>1. o \in msgs /\ o.ver = m.ver /\ o.id = i /\ Party(x)
    BY <1>4, <1>7 DEF Core, Puts
  <2>2. CASE x = n /\ Len(model[n]) = m.ver
    <3>1. \A s \in Histories : Append(s, i)[Len(s) + 1] = i
      BY <1>1 DEF Histories
    <3> QED BY <1>6, <1>12, <2>1, <2>2, <3>1
  <2>3. CASE ~(x = n /\ Len(model[n]) = m.ver)
    <3>1. model'[x] = model[x]
      BY <1>6, <2>3
    <3> QED BY <2>1, <3>1 DEF Core, Pending
  <2> QED BY <2>2, <2>3
<1>16. ASSUME NEW p \in Node PROVE Round(p)'
  BY <1>2, <1>4 DEF Round, Stuck
<1> QED BY <1>9, <1>10, <1>11, <1>14, <1>15, <1>16 DEF Core

(* No handler waits for a mixing thread, no session expires.               *)
LEMMA CoreStep ==
  ASSUME Typed, Core, [Next]_vars, ~Spend("lost"), ~Spend("expire")
  PROVE  Core'
<1>1. ASSUME NEW n \in Node, StartMix(n) \/ StartUpdate(n) \/ DoMix(n) PROVE Core'
  BY <1>1, Begins
<1>2. ASSUME NEW n \in Node, ThreadStep(n) PROVE Core'
  <2>1. CASE ChoosePeer(n) \/ Fetch(n) \/ Unpack(n)
    BY <2>1, ChoosePeerCore, FetchCore, UnpackCore
  <2>2. CASE Claim(n) \/ ClaimRegisters(n) \/ MixAlone(n) \/ UpdateMembers(n)
    BY <2>2, ClaimCore, UpdateMembersCore
  <2>3. CASE PutsDone(n) \/ AfterMix(n) \/ FetchFails(n) \/ PutDiff(n)
    BY <2>3, PutsOverCore, PutDiffCore
  <2>4. ASSUME NEW p \in Node, GetDiff(n, p) \/ GetDiffFails(n, p) PROVE Core'
    <3>1. GetDiffFails(n, p) => ~Responsive(p)
      BY DEF GetDiffFails
    <3> QED BY <2>4, <3>1, GetDiffCore
  <2>5. ASSUME NEW p \in Node, PutDiffFails(n, p) PROVE Core'
    BY <2>5, PutDiffFailsCore
  <2> QED BY <1>2, <2>1, <2>2, <2>3, <2>4, <2>5 DEF ThreadStep
<1>3. ASSUME NEW n \in Node, BecomeDue(n) \/ CallDoMix(n) \/ Terminate(n) PROVE Core'
  <2>1. UNCHANGED <<proc, nodes, master, model, pc, srv, wait, got, buf, obsolete, blocked, msgs>>
    BY <1>3 DEF BecomeDue, CallDoMix, Terminate, life, zk, status, thread
  <2>2. \A p \in Node : term[p] => term'[p]
    BY <1>3, TypedMaps DEF Maps, BecomeDue, CallDoMix, Terminate, life
  <2> QED BY <2>1, <2>2, CoreKept
<1>4. ASSUME NEW n \in Node, Start(n) \/ Crash(n) \/ Shutdown(n) PROVE Core'
  BY <1>4, StartCore, ExitCore
<1>5. ASSUME NEW n \in Node, SessionTimeout(n) \/ Leave(n) PROVE Core'
  BY <1>5, SessionStepsCore
<1>6. ASSUME NEW n \in Node, Resume(n) \/ Expire(n) PROVE FALSE
  BY <1>6 DEF Resume, Expire, Core, OneRound
<1>7. ASSUME NEW m \in msgs, Deliver(m) PROVE Core'
  BY <1>7, DeliverCore
<1>8. CASE UNCHANGED vars
  BY <1>8, CoreKept DEF vars
<1> QED BY <1>1, <1>2, <1>3, <1>4, <1>5, <1>6, <1>7, <1>8 DEF Next, Environment

(* The invariant is inductive. *)
LEMMA MInvInductive ==
  /\ Init => MInv
  /\ MInv /\ [Next]_vars => MInv'
<1>1. ASSUME Init PROVE MInv
  <2>1. Typed
    BY <1>1, InitTyped
  <2>2. Sessions /\ OneRound /\ Puts
    BY <1>1 DEF Init, Sessions, OneRound, Puts, Party, Serving, Stuck
  <2>3. Agree /\ Pending /\ \A n \in Node : Round(n)
    BY <1>1 DEF Init, Agree, Pending, Round, Party, Serving
  <2> QED BY <2>1, <2>2, <2>3 DEF MInv, Core
<1>2. ASSUME MInv, [Next]_vars PROVE MInv'
  <2>1. Typed' /\ EnvGrows /\ EnvTyped
    BY <1>2, TypedStep, NextGrows DEF MInv, Typed
  <2>2. ASSUME Sound' PROVE Core'
    BY <1>2, <2>1, <2>2, SoundBefore, CoreStep DEF MInv
  <2> QED BY <2>1, <2>2 DEF MInv
<1> QED BY <1>1, <1>2

(* As long as no call is lost or late and no running server loses its      *)
(* session, active servers hold one history of mixes (put_diff,            *)
(* update_model, mix), for any servers, crashes, shutdowns, releases and   *)
(* ZooKeeper failures.                                                     *)
THEOREM ActiveServersAgree == Spec => []ActiveModelsAgree
<1>1. MInv => ActiveModelsAgree
  BY DEF MInv, Core, Agree, Party, Sound, ActiveModelsAgree, FreshModelsAgree, Fresh
<1> QED BY <1>1, MInvInductive, PTL DEF Spec

(* No step takes a mix away from the model of an active server under the   *)
(* same conditions: unpack replaces the models of obsolete servers only.   *)
THEOREM ActiveServersKeepMixes == Spec => ActiveModelsGrow
<1>1. MInv /\ [Next]_vars =>
        [(env'.used["lost"] = 0 /\ env'.used["expire"] = 0) =>
           \A n \in Node : Fresh(n) /\ Fresh(n)' => IsPrefix(model[n], model'[n])]_vars
  <2> SUFFICES ASSUME MInv, Next, Sound', NEW n \in Node, Fresh(n), Fresh(n)'
               PROVE  IsPrefix(model[n], model'[n])
    BY DEF Sound, NoSessionLost
  <2>1. Typed /\ Core
    BY NextGrows, SoundBefore DEF MInv, Typed
  <2>2. /\ model[n] \in Histories
        /\ IsPrefix(model[n], model[n])
        /\ \A i \in 1..env.max["mix"] : IsPrefix(model[n], Append(model[n], i))
    BY <2>1, PrefixFacts DEF Typed, Histories
  <2>3. ASSUME NEW m \in msgs, Deliver(m) PROVE IsPrefix(model[n], model'[n])
    <3>1. m.id \in 1..env.max["mix"]
      BY <2>1 DEF Typed, Requests
    <3>2. model'[n] = model[n] \/ model'[n] = Append(model[n], m.id)
      BY <2>1, <2>3, TypedMaps DEF Maps, Deliver
    <3> QED BY <2>2, <3>1, <3>2
  <2>4. ASSUME NEW p \in Node, Unpack(p) PROVE IsPrefix(model[n], model'[n])
    <3>1. pc[p] \in {"unpack", "mismatch"} /\ model' = [model EXCEPT ![p] = buf[p]]
      BY <2>4 DEF Unpack
    <3>2. p # n
      BY <2>1, <3>1 DEF Core, Round, Fresh
    <3> QED BY <2>1, <2>2, <3>1, <3>2, TypedMaps DEF Maps
  <2>5. ASSUME NEW p \in Node, Crash(p) \/ Shutdown(p) PROVE IsPrefix(model[n], model'[n])
    <3>1. proc'[p] # "up" /\ \A q \in Node : q # p => model'[q] = model[q]
      BY <2>1, <2>5, TypedMaps DEF Maps, Crash, Shutdown, Exit, Forget
    <3> QED BY <2>2, <3>1 DEF Fresh
  <2>6. ASSUME UNCHANGED model PROVE IsPrefix(model[n], model'[n])
    BY <2>2, <2>6
  <2>7. ASSUME NEW p \in Node, ThreadStep(p), ~Unpack(p) PROVE UNCHANGED model
    BY <2>7 DEF ThreadStep, ChoosePeer, Fetch, FetchFails, Claim, ClaimRegisters,
      UpdateMembers, MixAlone, GetDiff, GetDiffFails, PutDiff, PutsDone, AfterMix, PutDiffFails
  <2>8. ASSUME NEW p \in Node,
               \/ StartMix(p) \/ StartUpdate(p) \/ Resume(p)
               \/ BecomeDue(p) \/ CallDoMix(p) \/ DoMix(p) \/ Start(p) \/ SessionTimeout(p)
               \/ Expire(p) \/ Terminate(p) \/ Leave(p)
        PROVE  UNCHANGED model
    BY <2>8 DEF StartMix, StartUpdate, Resume, BecomeDue, CallDoMix, DoMix, Start,
      SessionTimeout, Expire, Terminate, Leave
  <2> QED BY <2>3, <2>4, <2>5, <2>6, <2>7, <2>8 DEF Next, Environment
<1> QED BY <1>1, MInvInductive, PTL DEF Spec, ActiveModelsGrow

-----------------------------------------------------------------------------
(* The place of a mix. *)

(* The histories a server has: its model, and one it has fetched and not   *)
(* unpacked yet.                                                           *)
Held(h) == \E n \in Node : h = model[n] \/ (pc[n] \in {"unpack", "mismatch"} /\ h = buf[n])

(* Every mix of h is among those that were made, at the place f gives it. *)
Fits(f, h, made) == \A i \in 1..Len(h) : h[i] <= made /\ f[h[i]] = i

(* A mix is put into a model of the version it was made of, and into no    *)
(* other, so that it has one place in all histories, those to come         *)
(* included.                                                               *)
OnePlace ==
  \E f \in [Nat -> Nat] :
    /\ \A h \in Histories : Held(h) => Fits(f, h, env.used["mix"])
    /\ \A m \in msgs : m.id <= env.used["mix"] /\ f[m.id] = m.ver + 1

(* What the steps do to histories and to requests: they keep or drop them, *)
(* except for the sender's and the receiver's step of put_diff.            *)
Carries ==
  /\ \A h : Held(h)' => h = <<>> \/ Held(h)
  /\ \A n \in Node : model'[n] = model[n] \/ model'[n] = <<>> \/ Unpack(n)
  /\ msgs' \subseteq msgs

(* A step that leaves the models and what is fetched alone. *)
LEMMA CarriesSame ==
  ASSUME UNCHANGED <<model, msgs>>,
         \A n \in Node : pc'[n] \in {"unpack", "mismatch"} => pc'[n] = pc[n] /\ buf'[n] = buf[n]
  PROVE  Carries
BY DEF Carries, Held

(* One case for each action. *)
LEMMA HistorySteps ==
  ASSUME Typed, [Next]_vars
  PROVE  \/ Carries
         \/ \E n \in Node : PutDiff(n) /\ got[n] # 0
         \/ \E m \in msgs : Deliver(m)
<1> USE TypedMaps DEF Maps
<1>1. ASSUME NEW n \in Node,
             \/ StartMix(n) \/ StartUpdate(n) \/ ChoosePeer(n) \/ FetchFails(n) \/ Claim(n)
             \/ ClaimRegisters(n)
      PROVE  Carries
  BY <1>1, CarriesSame DEF StartMix, StartUpdate, ChoosePeer, FetchFails, Claim,
    ClaimRegisters, GetLock, EndRound, Goto, life, zk, status, thread
<1>2. ASSUME NEW n \in Node,
             \/ UpdateMembers(n) \/ MixAlone(n) \/ (PutDiff(n) /\ got[n] = 0)
             \/ PutsDone(n) \/ AfterMix(n) \/ Resume(n)
             \/ \E p \in Node : GetDiff(n, p) \/ GetDiffFails(n, p)
      PROVE  Carries
  BY <1>2, CarriesSame DEF UpdateMembers, MixAlone, PutDiff, PutsDone, AfterMix, Resume,
    GetDiff, GetDiffFails, EndRound, Goto, life, zk, status, thread
<1>3. ASSUME NEW n \in Node,
             \/ BecomeDue(n) \/ CallDoMix(n) \/ DoMix(n) \/ Start(n) \/ SessionTimeout(n)
             \/ Expire(n) \/ Terminate(n) \/ Leave(n)
      PROVE  Carries
  BY <1>3, CarriesSame DEF BecomeDue, CallDoMix, DoMix, Start, SessionTimeout, Expire,
    Terminate, Leave, GetLock, Goto, life, zk, status, thread
<1>4. ASSUME NEW n \in Node, NEW p \in Node, PutDiffFails(n, p) PROVE Carries
  <2>1. msgs' \subseteq msgs /\ UNCHANGED <<model, pc, buf>>
    BY <1>4 DEF PutDiffFails
  <2> QED BY <2>1 DEF Carries, Held
<1>5. ASSUME NEW n \in Node, Fetch(n) PROVE Carries
  <2>1. PICK p \in Node : buf' = [buf EXCEPT ![n] = model[p]]
    BY <1>5 DEF Fetch, Typed, ThreadTyped
  <2>2. /\ UNCHANGED <<model, msgs>> /\ buf'[n] = model[p]
        /\ \A q \in Node : q # n => pc'[q] = pc[q] /\ buf'[q] = buf[q]
    BY <1>5, <2>1 DEF Fetch, Goto
  <2> QED BY <2>2 DEF Carries, Held
<1>6. ASSUME NEW n \in Node, Unpack(n) PROVE Carries
  <2>1. /\ pc[n] \in {"unpack", "mismatch"} /\ model'[n] = buf[n] /\ msgs' = msgs
        /\ pc'[n] \in {"members", "idle"}
        /\ \A q \in Node : q # n => model'[q] = model[q] /\ pc'[q] = pc[q] /\ buf'[q] = buf[q]
    BY <1>6 DEF Unpack, EndRound, Goto
  <2> QED BY <1>6, <2>1 DEF Carries, Held
<1>7. ASSUME NEW n \in Node, Crash(n) \/ Shutdown(n) PROVE Carries
  <2>1. /\ model'[n] = <<>> /\ pc'[n] = "idle" /\ msgs' \subseteq msgs
        /\ \A q \in Node : q # n => model'[q] = model[q] /\ pc'[q] = pc[q] /\ buf'[q] = buf[q]
    BY <1>7 DEF Crash, Shutdown, Exit, Forget
  <2> QED BY <2>1 DEF Carries, Held
<1>8. CASE UNCHANGED vars
  BY <1>8, CarriesSame DEF vars
<1> QED BY <1>1, <1>2, <1>3, <1>4, <1>5, <1>6, <1>7, <1>8 DEF Next, ThreadStep, Environment

(* put_diff's requests: the new mix is none of those in any history. *)
LEMMA PutDiffSends ==
  ASSUME Typed, NEW n \in Node, PutDiff(n), got[n] # 0
  PROVE  /\ env'.used["mix"] = env.used["mix"] + 1
         /\ env.used["mix"] \in Nat
         /\ got[n] \in Nat \ {0}
         /\ UNCHANGED model
         /\ \A h : Held(h)' => Held(h)
         /\ \A m \in msgs' :
              m \in msgs \/ (m.id = env.used["mix"] + 1 /\ m.ver = got[n] - 1 /\ m.to \in Node)
<1> DEFINE id == env.used["mix"] + 1
<1>1. /\ pc' = [pc EXCEPT ![n] = "puts"] /\ buf' = [buf EXCEPT ![n] = <<id>>]
      /\ Spend("mix") /\ UNCHANGED model
      /\ msgs' = msgs \cup {[to |-> p, from |-> n, ver |-> got[n] - 1,
                              id |-> id] : p \in {q \in srv[n] : Serving(q)}}
  BY DEF PutDiff, Goto
<1>2. env'.used["mix"] = id /\ env.used["mix"] \in Nat
  <2>1. env' = [env EXCEPT !.used = [env.used EXCEPT !["mix"] = env.used["mix"] + 1]]
    BY <1>1 DEF Spend
  <2>2. env.used \in [Bound -> Nat] /\ "mix" \in Bound
    BY DEF Typed, EnvTyped, Bound
  <2>3. env'.used = [env.used EXCEPT !["mix"] = env.used["mix"] + 1]
    BY <2>1 DEF Typed, EnvTyped
  <2> QED BY <2>2, <2>3
<1> HIDE DEF id
<1>3. /\ pc'[n] = "puts" /\ \A q \in Node : q # n => pc'[q] = pc[q] /\ buf'[q] = buf[q]
      /\ srv[n] \subseteq Node /\ got[n] \in Nat
  BY <1>1, TypedMaps DEF Maps
<1>4. \A h : Held(h)' => Held(h)
  BY <1>1, <1>3 DEF Held
<1>5. \A m \in msgs' : m \in msgs \/ (m.id = id /\ m.ver = got[n] - 1 /\ m.to \in Node)
  BY <1>1, <1>3
<1> QED BY <1>1, <1>2, <1>3, <1>4, <1>5 DEF id

(* put_diff's handler: the model takes the mix at the place it was made    *)
(* for, or not at all.                                                     *)
LEMMA DeliverPuts ==
  ASSUME Typed, NEW m \in msgs, Deliver(m)
  PROVE  /\ m.to \in Node /\ m.ver \in Nat /\ m.id \in 1..env.max["mix"]
         /\ msgs' = msgs \ {m}
         /\ UNCHANGED <<pc, buf>>
         /\ \A p \in Node : p # m.to => model'[p] = model[p]
         /\ \/ model'[m.to] = model[m.to]
            \/ Len(model[m.to]) = m.ver /\ model'[m.to] = Append(model[m.to], m.id)
<1>1. m.to \in Node /\ m.ver \in Nat /\ m.id \in 1..env.max["mix"]
  BY DEF Typed, Requests
<1> QED BY <1>1, TypedMaps DEF Maps, Deliver, Applies

(* A history at whose end a mix is put. *)
LEMMA AppendIs ==
  ASSUME NEW S
  PROVE  \A h \in Seq(S), i \in S :
           /\ Len(h) \in Nat /\ Len(Append(h, i)) = Len(h) + 1
           /\ Append(h, i)[Len(h) + 1] = i
           /\ \A j \in 1..Len(h) : Append(h, i)[j] = h[j]
           /\ \A j \in 1..Len(Append(h, i)) : j \in 1..Len(h) \/ j = Len(h) + 1
OBVIOUS

(* The numbers of the mixes. *)
LEMMA MixNumbers ==
  ASSUME Typed
  PROVE  /\ env.used["mix"] \in Nat /\ env.max["mix"] \in Nat
         /\ \A h \in Histories : Len(h) \in Nat /\ \A i \in 1..Len(h) : h[i] \in Nat
         /\ \A m \in msgs : /\ m.to \in Node /\ m.from \in Node
                            /\ m.ver \in Nat /\ m.id \in 1..env.max["mix"] /\ m.id \in Nat
<1>1. env.used["mix"] \in Nat /\ env.max["mix"] \in Nat
  BY DEF Typed, EnvTyped, Bound
<1>2. \A j \in 1..env.max["mix"] : j \in Nat
  BY <1>1
<1>3. ASSUME NEW h \in Histories PROVE Len(h) \in Nat /\ \A i \in 1..Len(h) : h[i] \in Nat
  <2>1. Len(h) \in Nat /\ \A i \in 1..Len(h) : h[i] \in 1..env.max["mix"]
    <3> DEFINE S == 1..env.max["mix"]
    <3>1. h \in Seq(S)
      BY DEF Histories
    <3> HIDE DEF S
    <3>2. Len(h) \in Nat /\ \A i \in 1..Len(h) : h[i] \in S
      BY <3>1
    <3> QED BY <3>2 DEF S
  <2> QED BY <1>2, <2>1
<1>4. ASSUME NEW m \in msgs
      PROVE  /\ m.to \in Node /\ m.from \in Node
             /\ m.ver \in Nat /\ m.id \in 1..env.max["mix"]
  BY DEF Typed, Requests
<1> QED BY <1>1, <1>2, <1>3, <1>4

(* The place of every mix stays, whatever is lost, late, or crashes. *)
LEMMA OnePlaceStep ==
  ASSUME Typed, OnePlace, [Next]_vars
  PROVE  OnePlace'
<1>0. PICK k \in Nat, made \in Nat :
        k = env.used["mix"] /\ made = env'.used["mix"] /\ made >= k
  <2>1. EnvGrows /\ "mix" \in Bound
    BY NextGrows DEF Typed, Bound
  <2> QED BY <2>1, MixNumbers DEF EnvGrows, EnvTyped
<1>a. \A i \in Nat : i <= k => i <= made
  BY <1>0
<1>1. PICK f \in [Nat -> Nat] :
        /\ \A h \in Histories : Held(h) => Fits(f, h, k)
        /\ \A m \in msgs : m.id <= k /\ f[m.id] = m.ver + 1
  BY <1>0 DEF OnePlace
<1>2. /\ Histories' = Histories
      /\ \A n \in Node : model[n] \in Histories /\ model'[n] \in Histories
  <2>1. EnvGrows /\ Typed' /\ EnvTyped
    BY NextGrows, TypedStep DEF Typed
  <2> QED BY <2>1 DEF Typed, EnvGrows, Histories
<1>3. \A m \in msgs : m.id \in Nat /\ m.ver \in Nat
  BY MixNumbers
<1>4. \A h \in Histories : Len(h) \in Nat /\ \A i \in 1..Len(h) : h[i] \in Nat
  BY MixNumbers
<1>5. ASSUME NEW g \in [Nat -> Nat],
             \A h \in Histories : Held(h)' => Fits(g, h, made),
             \A m \in msgs' : m.id <= made /\ g[m.id] = m.ver + 1
      PROVE  OnePlace'
  BY <1>0, <1>2, <1>5 DEF OnePlace
<1>6. \A h \in Histories : Fits(f, h, k) => Fits(f, h, made)
  BY <1>4, <1>a DEF Fits
<1>7. CASE Carries
  <2>1. Fits(f, <<>>, made)
    BY DEF Fits
  <2>2. \A h \in Histories : Held(h)' => Fits(f, h, made)
    BY <1>1, <1>6, <1>7, <2>1 DEF Carries
  <2>3. \A m \in msgs' : m.id <= made /\ f[m.id] = m.ver + 1
    BY <1>a, <1>1, <1>3, <1>7 DEF Carries
  <2> QED BY <1>5, <2>2, <2>3
<1>8. ASSUME NEW n \in Node, PutDiff(n), got[n] # 0 PROVE OnePlace'
  <2> DEFINE g == [f EXCEPT ![k + 1] = got[n]]
  <2>1. /\ made = k + 1 /\ got[n] \in Nat \ {0}
        /\ \A h : Held(h)' => Held(h)
        /\ \A m \in msgs' : m \in msgs \/ (m.id = k + 1 /\ m.ver = got[n] - 1)
    BY <1>8, <1>0, PutDiffSends
  <2>2. g \in [Nat -> Nat] /\ g[k + 1] = got[n] /\ \A i \in Nat : i <= k => g[i] = f[i]
    BY <1>0, <2>1
  <2> HIDE DEF g
  <2>3. \A h \in Histories : Fits(f, h, k) => Fits(g, h, made)
    BY <1>4, <1>a, <2>2 DEF Fits
  <2>4. \A h \in Histories : Held(h)' => Fits(g, h, made)
    BY <1>1, <2>1, <2>3
  <2>5. \A m \in msgs' : m.id <= made /\ g[m.id] = m.ver + 1
    BY <1>a, <1>1, <1>3, <2>1, <2>2
  <2> QED BY <1>5, <2>2, <2>4, <2>5
<1>9. ASSUME NEW m \in msgs, Deliver(m) PROVE OnePlace'
  <2> DEFINE n == m.to
  <2>1. /\ n \in Node /\ m.ver \in Nat /\ m.id \in 1..env.max["mix"]
        /\ msgs' = msgs \ {m} /\ UNCHANGED <<pc, buf>>
        /\ \A p \in Node : p # n => model'[p] = model[p]
        /\ \/ model'[n] = model[n]
           \/ Len(model[n]) = m.ver /\ model'[n] = Append(model[n], m.id)
    BY <1>9, DeliverPuts
  <2> HIDE DEF n
  <2>2. \A h : Held(h)' => h = model'[n] \/ Held(h)
    BY <2>1 DEF Held
  <2>3. model[n] \in Histories /\ Held(model[n])
    BY <1>2, <2>1 DEF Held
  <2>4. Fits(f, model[n], k)
    BY <1>1, <2>3
  <2>5. Fits(f, model'[n], made)
    <3>1. CASE model'[n] = model[n]
      BY <1>6, <2>3, <2>4, <3>1
    <3>2. CASE Len(model[n]) = m.ver /\ model'[n] = Append(model[n], m.id)
      <4>1. /\ Len(model[n]) \in Nat /\ Len(model'[n]) = Len(model[n]) + 1
            /\ model'[n][Len(model[n]) + 1] = m.id
            /\ \A j \in 1..Len(model[n]) : model'[n][j] = model[n][j]
            /\ \A j \in 1..Len(model'[n]) : j \in 1..Len(model[n]) \/ j = Len(model[n]) + 1
        <5> DEFINE S == 1..env.max["mix"]
        <5>1. model[n] \in Seq(S) /\ m.id \in S
          BY <2>1, <2>3 DEF Histories
        <5> HIDE DEF S
        <5>2. PICK h \in Seq(S), i \in S : h = model[n] /\ i = m.id
          BY <5>1
        <5>3. model'[n] = Append(h, i)
          BY <3>2, <5>2
        <5>4. /\ Len(h) \in Nat /\ Len(Append(h, i)) = Len(h) + 1
              /\ Append(h, i)[Len(h) + 1] = i
              /\ \A j \in 1..Len(h) : Append(h, i)[j] = h[j]
              /\ \A j \in 1..Len(Append(h, i)) : j \in 1..Len(h) \/ j = Len(h) + 1
          BY AppendIs
        <5> QED BY <5>2, <5>3, <5>4, Zenon
      <4>2. m.id <= made /\ f[m.id] = Len(model[n]) + 1
        BY <1>a, <1>1, <1>3, <3>2
      <4>3. Fits(f, model[n], made)
        BY <1>6, <2>3, <2>4
      <4> QED BY <4>1, <4>2, <4>3 DEF Fits
    <3> QED BY <2>1, <3>1, <3>2
  <2>6. \A h \in Histories : Held(h)' => Fits(f, h, made)
    BY <1>1, <1>6, <2>2, <2>5
  <2>7. \A o \in msgs' : o.id <= made /\ f[o.id] = o.ver + 1
    BY <1>a, <1>1, <1>3, <2>1
  <2> QED BY <1>5, <2>6, <2>7
<1> QED BY <1>7, <1>8, <1>9, HistorySteps

(* The order of the mixes. *)
Sorted(h) == \A i, j \in 1..Len(h) : i < j => h[i] < h[j]
Below(h, id) == \A i \in 1..Len(h) : h[i] < id

(* As long as rounds follow one another, the mix under way is newer than   *)
(* what the models it goes to have.                                        *)
InOrder ==
  /\ \A h \in Histories : Held(h) => Sorted(h)
  /\ \A m \in msgs : Below(model[m.to], m.id)

(* A newer mix at the end keeps the order. *)
LEMMA SortedAppend ==
  ASSUME NEW S, NEW h \in Seq(S), NEW i \in S, Sorted(h), Below(h, i)
  PROVE  Sorted(Append(h, i))
<1> DEFINE a == Append(h, i)
<1>1. /\ Len(h) \in Nat /\ Len(a) = Len(h) + 1 /\ a[Len(h) + 1] = i
      /\ \A j \in 1..Len(h) : a[j] = h[j]
      /\ \A j \in 1..Len(a) : j \in 1..Len(h) \/ j = Len(h) + 1
  BY AppendIs
<1> HIDE DEF a
<1>2. ASSUME NEW j \in 1..Len(a), NEW k \in 1..Len(a), j < k PROVE a[j] < a[k]
  <2>1. j \in 1..Len(h)
    BY <1>1, <1>2
  <2>2. CASE k \in 1..Len(h)
    BY <1>1, <1>2, <2>1, <2>2 DEF Sorted
  <2>3. CASE k = Len(h) + 1
    BY <1>1, <2>1, <2>3 DEF Below
  <2> QED BY <1>1, <2>2, <2>3
<1> QED BY <1>2 DEF Sorted, a

(* The order stays in rounds that follow one another. *)
LEMMA InOrderStep ==
  ASSUME Typed, Core, OnePlace, InOrder, [Next]_vars
  PROVE  InOrder'
<1>1. /\ Histories' = Histories
      /\ \A n \in Node : model[n] \in Histories
  <2>1. EnvGrows
    BY NextGrows DEF Typed
  <2> QED BY <2>1 DEF Typed, EnvGrows, Histories
<1>2. CASE Carries
  <2>1. \A h \in Histories : Held(h)' => Sorted(h)
    <3>1. Sorted(<<>>)
      BY DEF Sorted
    <3> QED BY <1>2, <3>1 DEF Carries, InOrder
  <2>2. ASSUME NEW m \in msgs' PROVE Below(model'[m.to], m.id)
    <3>1. m \in msgs /\ m.to \in Node
      BY <1>2, MixNumbers DEF Carries
    <3>2. ~Unpack(m.to)
      <4>1. CASE proc[m.to] = "up"
        <5>1. Unpack(m.to) => pc[m.to] \in {"unpack", "mismatch"}
          BY DEF Unpack
        <5> QED BY <3>1, <4>1, <5>1, Alone
      <4>2. CASE proc[m.to] # "up"
        <5>1. Party(m.to)
          BY <3>1 DEF Party
        <5> QED BY <3>1, <4>2, <5>1 DEF Unpack, Core, OneRound
      <4> QED BY <4>1, <4>2
    <3>3. model'[m.to] = model[m.to] \/ model'[m.to] = <<>>
      BY <1>2, <3>1, <3>2 DEF Carries
    <3>4. Below(<<>>, m.id) /\ Below(model[m.to], m.id)
      BY <3>1 DEF Below, InOrder
    <3> QED BY <3>3, <3>4
  <2> QED BY <1>1, <2>1, <2>2 DEF InOrder
<1>3. ASSUME NEW n \in Node, PutDiff(n), got[n] # 0 PROVE InOrder'
  <2>1. msgs = {}
    <3>1. pc[n] = "diffs"
      BY <1>3 DEF PutDiff
    <3>2. proc[n] = "up"
      BY <3>1 DEF Core, OneRound, Stuck
    <3> QED BY <3>1, <3>2, Alone
  <2>2. PICK k \in Nat : k = env.used["mix"]
    BY MixNumbers
  <2>3. /\ \A h : Held(h)' => Held(h)
        /\ \A m \in msgs' : m.id = k + 1 /\ m.to \in Node
        /\ UNCHANGED model
    BY <1>3, <2>1, <2>2, PutDiffSends
  <2>4. ASSUME NEW n_1 \in Node PROVE Below(model[n_1], k + 1)
    <3>1. PICK h \in Histories : h = model[n_1] /\ Held(h)
      BY <1>1 DEF Held
    <3>2. \A i \in 1..Len(h) : h[i] <= k /\ h[i] \in Nat
      BY <2>2, <3>1, MixNumbers DEF OnePlace, Fits
    <3>3. Below(h, k + 1)
      <4>1. \A i \in Nat : i <= k => i < k + 1
        BY <2>2
      <4> QED BY <3>2, <4>1 DEF Below
    <3> QED BY <3>1, <3>3
  <2> QED BY <1>1, <2>3, <2>4 DEF InOrder
<1>4. ASSUME NEW m \in msgs, Deliver(m) PROVE InOrder'
  <2> DEFINE n == m.to
  <2>1. /\ n \in Node /\ m.id \in Nat
        /\ msgs' = msgs \ {m} /\ UNCHANGED <<pc, buf>>
        /\ \A p \in Node : p # n => model'[p] = model[p]
        /\ \/ model'[n] = model[n]
           \/ model'[n] = Append(model[n], m.id)
    BY <1>4, DeliverPuts, MixNumbers
  <2>2. ASSUME NEW o \in msgs' PROVE o \in msgs /\ o.to \in Node /\ o.to # n
    <3>1. /\ o \in msgs /\ o # m /\ o.ver = m.ver /\ o.id = m.id
          /\ o.from = master /\ m.from = master
      BY <2>1 DEF Core, Puts, Sending
    <3>2. o \in Requests /\ m \in Requests
      BY <3>1 DEF Typed
    <3> QED BY <3>1, <3>2 DEF Requests
  <2>3. Below(model[n], m.id)
    BY DEF InOrder
  <2> HIDE DEF n
  <2>4. \A h : Held(h)' => h = model'[n] \/ Held(h)
    BY <2>1 DEF Held
  <2>5. Sorted(model'[n])
    <3>1. model[n] \in Histories /\ Held(model[n])
      BY <1>1, <2>1 DEF Held
    <3>2. Sorted(model[n])
      BY <3>1 DEF InOrder
    <3> DEFINE S == 1..env.max["mix"]
    <3>3. PICK h \in Seq(S), i \in S : h = model[n] /\ i = m.id
      BY <3>1, MixNumbers DEF Histories
    <3> HIDE DEF S
    <3>4. Sorted(Append(h, i))
      BY <2>3, <3>2, <3>3, SortedAppend
    <3> QED BY <2>1, <3>2, <3>3, <3>4
  <2>6. \A h \in Histories : Held(h)' => Sorted(h)
    BY <2>4, <2>5 DEF InOrder
  <2>7. \A o \in msgs' : Below(model'[o.to], o.id)
    BY <2>1, <2>2 DEF InOrder
  <2> QED BY <1>1, <2>6, <2>7 DEF InOrder
<1> QED BY <1>2, <1>3, <1>4, HistorySteps

(* No model takes a mix twice, whatever is lost, late or crashes, and none *)
(* takes an older mix after a newer one as long as no call is lost or late *)
(* and no running server loses its session (put_diff's version check, one  *)
(* round at a time under master_lock).                                     *)
THEOREM MixesKeepTheirOrder == Spec => []MixesInOrder
<1> DEFINE Inv == MInv /\ OnePlace /\ (Sound => InOrder)
<1>1. ASSUME Init PROVE Inv
  <2>1. MInv /\ Typed
    BY <1>1, MInvInductive, InitTyped
  <2>2. /\ \A h : Held(h) => h = <<>>
        /\ msgs = {}
    BY <1>1 DEF Init, Held
  <2>3. OnePlace
    <3>1. [i \in Nat |-> 0] \in [Nat -> Nat]
      OBVIOUS
    <3>2. \A f, k : Fits(f, <<>>, k)
      BY DEF Fits
    <3> QED BY <2>2, <3>1, <3>2 DEF OnePlace
  <2>4. InOrder
    <3>1. Sorted(<<>>)
      BY DEF Sorted
    <3> QED BY <2>2, <3>1 DEF InOrder
  <2> QED BY <2>1, <2>3, <2>4
<1>2. ASSUME Inv, [Next]_vars PROVE Inv'
  <2>1. MInv' /\ OnePlace' /\ EnvGrows
    BY <1>2, MInvInductive, OnePlaceStep, NextGrows DEF MInv, Typed
  <2>2. ASSUME Sound' PROVE InOrder'
    <3>1. Sound
      BY <1>2, <2>1, <2>2, SoundBefore DEF MInv, Typed
    <3> QED BY <1>2, <3>1, InOrderStep DEF MInv
  <2> QED BY <2>1, <2>2
<1>3. ASSUME Inv PROVE MixesInOrder
  <2> SUFFICES ASSUME NEW n \in Node, NEW i \in 1..Len(model[n]), NEW j \in 1..Len(model[n]), i < j
               PROVE  /\ model[n][i] # model[n][j]
                      /\ Sound => model[n][i] < model[n][j]
    BY DEF MixesInOrder, Sound
  <2>1. PICK h \in Histories : h = model[n] /\ Held(h)
    BY <1>3 DEF MInv, Typed, Held
  <2>2. PICK f : Fits(f, h, env.used["mix"])
    BY <1>3, <2>1 DEF OnePlace
  <2>3. Len(h) \in Nat
    BY <1>3, MixNumbers DEF MInv
  <2>4. h[i] # h[j]
    <3>1. f[h[i]] = i /\ f[h[j]] = j
      BY <2>1, <2>2 DEF Fits
    <3>2. i # j
      BY <2>1, <2>3
    <3> QED BY <3>1, <3>2
  <2>5. Sound => h[i] < h[j]
    BY <1>3, <2>1 DEF InOrder, Sorted
  <2> QED BY <2>1, <2>4, <2>5
<1> HIDE DEF Inv
<1> QED BY <1>1, <1>2, <1>3, PTL DEF Spec

-----------------------------------------------------------------------------
(* The list of active servers. *)

(* A server that does not consider itself obsolete has registered, or is   *)
(* about to.                                                               *)
Listed ==
  \A n \in Node :
    /\ ~Serving(n) => obsolete[n] /\ blocked[n] = <<>> /\ pc[n] = "idle"
    /\ proc[n] = "up" /\ ~obsolete[n] /\ pc[n] # "register" => n \in actives

(* A server that has registered, or is about to, is not obsolete; and no   *)
(* connected server finds the list of servers empty, which has itself.     *)
NoneObsolete ==
  \A n \in Node :
    /\ n \in actives => n \in nodes
    /\ proc[n] = "up" => pc[n] # "alone"
    /\ proc[n] = "up" /\ (n \in actives \/ pc[n] = "register") => ~obsolete[n]

(* What failing ZooKeeper calls spend is not given back. *)
LEMMA ZkBefore ==
  ASSUME EnvTyped, EnvGrows, env'.used["zk"] = 0
  PROVE  env.used["zk"] = 0 /\ ~Spend("zk")
<1>1. /\ env.used \in [Bound -> Nat] /\ env'.used \in [Bound -> Nat] /\ "zk" \in Bound
      /\ env'.used["zk"] >= env.used["zk"]
  BY DEF EnvTyped, EnvGrows, Bound
<1>2. Spend("zk") => env'.used["zk"] = env.used["zk"] + 1
  <2> SUFFICES ASSUME Spend("zk") PROVE env'.used["zk"] = env.used["zk"] + 1
    OBVIOUS
  <2>1. env' = [env EXCEPT !.used = [env.used EXCEPT !["zk"] = env.used["zk"] + 1]]
    BY DEF Spend
  <2>2. env'.used = [env.used EXCEPT !["zk"] = env.used["zk"] + 1]
    BY <2>1 DEF EnvTyped
  <2> QED BY <1>1, <2>2
<1> QED BY <1>1, <1>2

(* What the steps that touch neither the list nor is_obsolete_ leave as it *)
(* is.                                                                     *)
Aside ==
  /\ UNCHANGED <<actives, obsolete, proc, nodes>>
  /\ \A n \in Node : pc'[n] = "register" <=> pc[n] = "register"

(* The steps aside. *)
LEMMA AsideSteps ==
  ASSUME Typed, NEW n \in Node,
         \/ StartMix(n) \/ StartUpdate(n) \/ ChoosePeer(n) \/ Fetch(n) \/ FetchFails(n)
         \/ Unpack(n) \/ UpdateMembers(n)
         \/ \E p \in Node : GetDiff(n, p) \/ GetDiffFails(n, p) \/ PutDiffFails(n, p)
         \/ PutDiff(n) \/ PutsDone(n) \/ AfterMix(n)
         \/ BecomeDue(n) \/ CallDoMix(n) \/ DoMix(n) \/ Terminate(n)
  PROVE  Aside
<1> USE TypedMaps DEF Maps, Aside, Goto, EndRound, GetLock, life, zk, status, thread
<1>1. CASE StartMix(n) \/ StartUpdate(n) \/ ChoosePeer(n) \/ Fetch(n) \/ FetchFails(n)
  BY <1>1 DEF StartMix, StartUpdate, ChoosePeer, Fetch, FetchFails
<1>2. CASE \/ Unpack(n) \/ UpdateMembers(n)
           \/ \E p \in Node : GetDiff(n, p) \/ GetDiffFails(n, p) \/ PutDiffFails(n, p)
  BY <1>2 DEF Unpack, UpdateMembers, GetDiff, GetDiffFails, PutDiffFails
<1>3. CASE PutDiff(n) \/ PutsDone(n) \/ AfterMix(n)
  BY <1>3 DEF PutDiff, PutsDone, AfterMix
<1>4. CASE BecomeDue(n) \/ CallDoMix(n) \/ DoMix(n) \/ Terminate(n)
  BY <1>4 DEF BecomeDue, CallDoMix, DoMix, Terminate
<1> QED BY <1>1, <1>2, <1>3, <1>4

(* A change of is_obsolete_ at n together with one of the list. *)
Together(n) ==
  /\ \A p \in Node : p # n => obsolete'[p] = obsolete[p] /\ (p \in actives' <=> p \in actives)
  /\ n \in actives' => n \in actives \/ proc[n] = "up"
  /\ \/ obsolete'[n] = obsolete[n] /\ (n \in actives' <=> n \in actives)
     \/ ~obsolete'[n] /\ n \in actives'
     \/ obsolete'[n] /\ n \notin actives'
     \/ proc[n] # "up"

(* The end of put_diff while no ZooKeeper call of a connected server fails *)
(* changes them together.                                                  *)
LEMMA PutDiffEndsListed ==
  ASSUME Typed, ~Spend("zk"), NEW n \in Node, NEW applied \in BOOLEAN, PutDiffEnds(n, applied)
  PROVE  Together(n)
<1>0. DOMAIN obsolete = Node /\ obsolete[n] \in BOOLEAN
  BY DEF Typed
<1>1. CASE /\ \/ ~ChangesStatus(n, applied) /\ UNCHANGED <<actives, env>>
              \/ ChangesStatus(n, applied) /\ applied /\ Registers(n)
              \/ ChangesStatus(n, applied) /\ ~applied /\ Unregisters(n)
           /\ obsolete' = [obsolete EXCEPT ![n] = ~applied]
  <2>1. obsolete'[n] = ~applied /\ \A p \in Node : p # n => obsolete'[p] = obsolete[p]
    BY <1>0, <1>1
  <2>2. CASE ~ChangesStatus(n, applied)
    BY <1>0, <1>1, <2>1, <2>2 DEF Together, ChangesStatus
  <2>3. CASE ChangesStatus(n, applied)
    BY <1>0, <1>1, <2>1, <2>3 DEF Together, ChangesStatus, Registers, Unregisters
  <2> QED BY <2>2, <2>3
<1>2. CASE /\ \/ applied /\ RegisterThrows(n)
              \/ ~applied /\ UnregisterThrows(n)
           /\ UNCHANGED status
  BY <1>2 DEF Together, RegisterThrows, UnregisterThrows, status
<1> QED BY <1>1, <1>2 DEF PutDiffEnds

(* So does the handler as a whole, or it is still waiting.                 *)
LEMMA PutDiffListed ==
  ASSUME Typed, ~Spend("zk"), Listed, NEW n \in Node,
         Resume(n) \/ \E m \in msgs : m.to = n /\ Deliver(m)
  PROVE  /\ UNCHANGED <<proc, pc, nodes>>
         /\ Serving(n)
         /\ \A p \in Node : p # n => blocked'[p] = blocked[p]
         /\ Together(n)
<1>1. CASE Resume(n)
  <2>1. Head(blocked[n]).applied \in BOOLEAN
    <3>1. blocked[n] \in Seq([msg : Message, applied : BOOLEAN]) /\ blocked[n] # <<>>
      BY <1>1 DEF Resume, Typed
    <3>2. \A S, s : s \in Seq(S) /\ s # <<>> => Head(s) \in S
      OBVIOUS
    <3>3. Head(blocked[n]) \in [msg : Message, applied : BOOLEAN]
      BY <3>1, <3>2, Zenon
    <3> QED BY <3>3
  <2>2. Together(n)
    BY <1>1, <2>1, PutDiffEndsListed DEF Resume
  <2> QED BY <1>1, <2>2, TypedMaps DEF Maps, Resume, Listed, life
<1>2. ASSUME NEW m \in msgs, m.to = n, Deliver(m)
      PROVE  /\ UNCHANGED <<proc, pc, nodes>>
             /\ Serving(n)
             /\ \A p \in Node : p # n => blocked'[p] = blocked[p]
             /\ Together(n)
  <2>1. /\ UNCHANGED <<proc, pc, nodes>> /\ Serving(n)
        /\ \/ PutDiffEnds(n, Applies(n, m)) /\ UNCHANGED blocked
           \/ /\ \E e : blocked' = [blocked EXCEPT ![n] = e]
              /\ UNCHANGED <<actives, status>>
    BY <1>2 DEF Deliver, Responsive, life
  <2>2. \A p \in Node : p # n => blocked'[p] = blocked[p]
    BY <2>1, TypedMaps DEF Maps
  <2>3. Applies(n, m) \in BOOLEAN
    BY DEF Applies
  <2>4. CASE PutDiffEnds(n, Applies(n, m))
    BY <2>1, <2>2, <2>3, <2>4, PutDiffEndsListed
  <2>5. CASE UNCHANGED <<actives, status>>
    BY <2>1, <2>2, <2>5 DEF Together, status
  <2> QED BY <2>1, <2>4, <2>5
<1> QED BY <1>1, <1>2

(* A process that ends, a session that ends, and a start, for what the     *)
(* list is about.                                                          *)
LEMMA LifeListed ==
  ASSUME Typed, NEW n \in Node,
         \/ Start(n) \/ Crash(n) \/ Shutdown(n) \/ SessionTimeout(n) \/ Expire(n) \/ Leave(n)
  PROVE  /\ \A p \in Node : p # n =>
              /\ proc'[p] = proc[p] /\ pc'[p] = pc[p] /\ blocked'[p] = blocked[p]
              /\ obsolete'[p] = obsolete[p]
              /\ (p \in actives' <=> p \in actives) /\ (p \in nodes' <=> p \in nodes)
         /\ \/ Start(n) /\ proc[n] = "down" /\ proc'[n] = "up" /\ n \notin nodes /\ n \in nodes'
               /\ UNCHANGED <<actives, obsolete, pc, blocked>>
            \/ /\ ~Serving(n)' /\ obsolete'[n] /\ blocked'[n] = <<>> /\ pc'[n] = "idle"
               /\ UNCHANGED <<actives, nodes>>
            \/ /\ n \notin actives' /\ n \notin nodes' /\ proc'[n] # "up"
               /\ Serving(n)' <=> Serving(n)
               /\ UNCHANGED <<obsolete, blocked, pc>>
<1> USE TypedMaps DEF Maps
<1>1. CASE Start(n)
  BY <1>1 DEF Start, thread, status
<1>2. CASE Crash(n) \/ Shutdown(n)
  BY <1>2 DEF Crash, Shutdown, Exit, Forget, Serving, zk
<1>3. CASE SessionTimeout(n) \/ Expire(n) \/ Leave(n)
  BY <1>3 DEF SessionTimeout, Expire, Leave, EndSession, Serving, thread, status
<1> QED BY <1>1, <1>2, <1>3

(* The server that claims to be active, and the one that finds itself      *)
(* alone, while no ZooKeeper call of a connected server fails.             *)
LEMMA ClaimListed ==
  ASSUME Typed, ~Spend("zk"), NEW n \in Node, Claim(n) \/ ClaimRegisters(n) \/ MixAlone(n)
  PROVE  /\ UNCHANGED <<proc, nodes, blocked>>
         /\ \A p \in Node : p # n =>
              obsolete'[p] = obsolete[p] /\ pc'[p] = pc[p] /\ (p \in actives' <=> p \in actives)
         /\ \/ Claim(n) /\ pc'[n] = "register" /\ ~obsolete'[n] /\ UNCHANGED actives
            \/ /\ pc[n] = "register" \/ pc[n] = "alone"
               /\ pc'[n] \notin {"register", "alone"} /\ UNCHANGED obsolete
               /\ n \in actives' \/ (proc[n] = "cut" /\ UNCHANGED actives)
               /\ n \in actives \/ n \notin actives' \/ proc[n] = "up"
<1> USE TypedMaps DEF Maps
<1>1. CASE Claim(n)
  BY <1>1 DEF Claim, Goto, life, zk
<1>2. CASE ClaimRegisters(n) \/ MixAlone(n)
  <2>1. /\ Registers(n) \/ RegisterThrows(n)
        /\ pc[n] = "register" \/ pc[n] = "alone"
        /\ EndRound(n) \/ \E l \in {"members", "mixed"} : Goto(n, l)
        /\ UNCHANGED <<proc, nodes, obsolete, blocked>>
    BY <1>2 DEF ClaimRegisters, MixAlone, life, status
  <2>2. /\ n \in actives' \/ (proc[n] = "cut" /\ UNCHANGED actives)
        /\ n \in actives \/ n \notin actives' \/ proc[n] = "up"
        /\ \A p \in Node : p # n => (p \in actives' <=> p \in actives)
    BY <2>1 DEF Registers, RegisterThrows
  <2>3. pc'[n] \in {"idle", "members", "mixed"} /\ \A p \in Node : p # n => pc'[p] = pc[p]
    BY <2>1 DEF EndRound, Goto
  <2> QED BY <2>1, <2>2, <2>3
<1> QED BY <1>1, <1>2

(* Whatever is late or crashes, a server that is not obsolete is listed.   *)
LEMMA ListedStep ==
  ASSUME Typed, Listed, ~Spend("zk"), [Next]_vars
  PROVE  Listed'
<1>1. ASSUME UNCHANGED blocked, Aside,
             \A p \in Node : ~Serving(p) /\ pc[p] = "idle" => pc'[p] = "idle"
      PROVE  Listed'
  BY <1>1 DEF Listed, Aside, Serving
<1>2. ASSUME NEW n \in Node, StartMix(n) \/ StartUpdate(n) \/ ThreadStep(n),
             ~Claim(n), ~ClaimRegisters(n), ~MixAlone(n)
      PROVE  Listed'
  <2>1. Aside
    BY <1>2, AsideSteps DEF ThreadStep
  <2>2. UNCHANGED blocked
    BY <1>2 DEF ThreadStep, StartMix, StartUpdate, ChoosePeer, Fetch, FetchFails, Unpack,
      UpdateMembers, GetDiff, GetDiffFails, PutDiffFails, PutDiff, PutsDone, AfterMix
  <2>3. proc[n] = "up" \/ pc[n] # "idle"
    BY <1>2 DEF ThreadStep, StartMix, StartUpdate, GetLock, ChoosePeer, Fetch, FetchFails, Unpack,
      UpdateMembers, GetDiff, GetDiffFails, PutDiffFails, PutDiff, PutsDone, AfterMix
  <2>4. \A p \in Node : p # n => pc'[p] = pc[p]
    BY <1>2, TypedMaps DEF Maps, ThreadStep, StartMix, StartUpdate, ChoosePeer, Fetch, FetchFails,
      Unpack, UpdateMembers, GetDiff, GetDiffFails, PutDiffFails, PutDiff, PutsDone, AfterMix,
      EndRound, Goto
  <2> QED BY <1>1, <2>1, <2>2, <2>3, <2>4 DEF Serving
<1>3. ASSUME NEW n \in Node, BecomeDue(n) \/ CallDoMix(n) \/ DoMix(n) \/ Terminate(n)
      PROVE  Listed'
  <2>1. Aside
    BY <1>3, AsideSteps
  <2>2. UNCHANGED blocked /\ \A p \in Node : ~Serving(p) /\ pc[p] = "idle" => pc'[p] = "idle"
    BY <1>3, TypedMaps DEF Maps, BecomeDue, CallDoMix, DoMix, Terminate, GetLock, Goto, Serving,
      thread
  <2> QED BY <1>1, <2>1, <2>2
<1>4. ASSUME NEW n \in Node, Claim(n) \/ ClaimRegisters(n) \/ MixAlone(n) PROVE Listed'
  <2>1. pc[n] \in {"claim", "register", "alone"}
    BY <1>4 DEF Claim, ClaimRegisters, MixAlone
  <2> QED BY <1>4, <2>1, ClaimListed DEF Listed, Serving
<1>5. ASSUME NEW n \in Node, Resume(n) \/ \E m \in msgs : m.to = n /\ Deliver(m) PROVE Listed'
  <2>1. /\ UNCHANGED <<proc, pc, nodes>>
        /\ Serving(n)
        /\ \A p \in Node : p # n => blocked'[p] = blocked[p]
        /\ Together(n)
    BY <1>5, PutDiffListed
  <2> QED BY <2>1 DEF Listed, Serving, Together
<1>6. ASSUME NEW n \in Node,
             Start(n) \/ Crash(n) \/ Shutdown(n) \/ SessionTimeout(n) \/ Expire(n) \/ Leave(n)
      PROVE  Listed'
  BY <1>6, LifeListed DEF Listed, Serving
<1>7. ASSUME NEW m \in msgs, Deliver(m) PROVE Listed'
  BY <1>5, <1>7, MixNumbers
<1>8. CASE UNCHANGED vars
  BY <1>8, <1>1 DEF vars, Aside
<1> QED BY <1>1, <1>2, <1>3, <1>4, <1>5, <1>6, <1>7, <1>8 DEF Next, Environment

(* While nothing is late and no session lost, a listed server is not       *)
(* obsolete.                                                               *)
LEMMA NoneObsoleteStep ==
  ASSUME Typed, Core, Listed, NoneObsolete, ~Spend("zk"), ~Spend("lost"), ~Spend("expire"),
         [Next]_vars
  PROVE  NoneObsolete'
<1>1. ASSUME Aside, \A p \in Node : proc[p] = "up" /\ pc'[p] = "alone" => pc[p] = "alone"
      PROVE  NoneObsolete'
  BY <1>1 DEF NoneObsolete, Aside
<1>2. ASSUME NEW n \in Node, StartMix(n) \/ StartUpdate(n) \/ ThreadStep(n),
             ~Claim(n), ~ClaimRegisters(n), ~MixAlone(n)
      PROVE  NoneObsolete'
  <2>1. Aside
    BY <1>2, AsideSteps DEF ThreadStep
  <2>2. CASE UpdateMembers(n)
    <3>1. ASSUME proc[n] = "up" PROVE pc'[n] # "alone"
      <4>1. PICK S \in SUBSET Node : ListNodes(n, S) /\ Goto(n, IF S = {} THEN "alone" ELSE "diffs")
        BY <2>2 DEF UpdateMembers
      <4>2. S = nodes /\ n \in S
        BY <3>1, <4>1 DEF ListNodes, Core, Sessions
      <4> QED BY <4>1, <4>2, TypedMaps DEF Maps, Goto
    <3>2. \A p \in Node : p # n => pc'[p] = pc[p]
      BY <2>2, TypedMaps DEF Maps, UpdateMembers, Goto
    <3> QED BY <1>1, <2>1, <3>1, <3>2
  <2>3. CASE ~UpdateMembers(n)
    <3>1. \A p \in Node : pc'[p] = "alone" => pc[p] = "alone"
      BY <1>2, <2>3, TypedMaps DEF Maps, ThreadStep, StartMix, StartUpdate, GetLock, EndRound, Goto,
        ChoosePeer, Fetch, FetchFails, Unpack, GetDiff, GetDiffFails, PutDiffFails, PutDiff,
        PutsDone, AfterMix
    <3> QED BY <1>1, <2>1, <3>1
  <2> QED BY <2>2, <2>3
<1>3. ASSUME NEW n \in Node, BecomeDue(n) \/ CallDoMix(n) \/ DoMix(n) \/ Terminate(n)
      PROVE  NoneObsolete'
  <2>1. \A p \in Node : pc'[p] = "alone" => pc[p] = "alone"
    BY <1>3, TypedMaps DEF Maps, BecomeDue, CallDoMix, DoMix, Terminate, GetLock, Goto, thread
  <2> QED BY <1>1, <1>3, <2>1, AsideSteps
<1>4. ASSUME NEW n \in Node, Claim(n) \/ ClaimRegisters(n) \/ MixAlone(n) PROVE NoneObsolete'
  <2>1. proc[n] = "up"
    <3>1. pc[n] \in {"claim", "register", "alone"}
      BY <1>4 DEF Claim, ClaimRegisters, MixAlone
    <3> QED BY <3>1 DEF Core, OneRound, Stuck
  <2>2. n \in nodes /\ pc[n] # "alone"
    BY <2>1 DEF Core, Sessions, NoneObsolete
  <2> QED BY <1>4, <2>1, <2>2, ClaimListed DEF NoneObsolete
<1>5. ASSUME NEW m \in msgs, Deliver(m) PROVE NoneObsolete'
  <2> DEFINE n == m.to
  <2>1. n \in Node
    BY MixNumbers
  <2>2. /\ UNCHANGED <<proc, pc, nodes>>
        /\ Together(n)
    BY <1>5, <2>1, PutDiffListed
  <2>3. proc[n] = "up" => pc[n] # "register" /\ n \in nodes
    BY <2>1, Alone DEF Core, Sessions
  <2> HIDE DEF n
  <2> QED BY <2>1, <2>2, <2>3 DEF NoneObsolete, Together
<1>6. ASSUME NEW n \in Node,
             Start(n) \/ Crash(n) \/ Shutdown(n) \/ SessionTimeout(n) \/ Leave(n)
      PROVE  NoneObsolete'
  <2>1. proc[n] = "down" => pc[n] = "idle"
    BY DEF Core, Sessions, Serving
  <2> QED BY <1>6, <2>1, LifeListed DEF NoneObsolete, Serving
<1>7. ASSUME NEW n \in Node, Resume(n) \/ Expire(n) PROVE FALSE
  BY <1>7 DEF Resume, Expire, Core, OneRound
<1>8. CASE UNCHANGED vars
  BY <1>8, <1>1 DEF vars, Aside
<1> QED BY <1>2, <1>3, <1>4, <1>5, <1>6, <1>7, <1>8 DEF Next, Environment

(* As long as no ZooKeeper call of a connected server fails, a connected   *)
(* server that is not obsolete is listed, whatever is late, crashes or     *)
(* expires; and a listed one is not obsolete as long as nothing is late    *)
(* and no session lost (put_diff, update_model, mix).                      *)
THEOREM ListedServersAreFresh == Spec => []ListedIffFresh
<1> DEFINE Calm == env.used["zk"] = 0
           Inv == MInv /\ (Calm => Listed) /\ (Calm /\ Sound => NoneObsolete)
<1>1. ASSUME Init PROVE Inv
  <2>1. MInv
    BY <1>1, MInvInductive
  <2>2. Listed /\ NoneObsolete
    BY <1>1 DEF Init, Listed, NoneObsolete, Serving
  <2> QED BY <2>1, <2>2
<1>2. ASSUME Inv, [Next]_vars PROVE Inv'
  <2>1. MInv' /\ EnvGrows /\ EnvTyped /\ Typed
    BY <1>2, MInvInductive, NextGrows DEF MInv, Typed
  <2>2. ASSUME Calm' PROVE Listed'
    BY <1>2, <2>1, <2>2, ZkBefore, ListedStep
  <2>3. ASSUME Calm', Sound' PROVE NoneObsolete'
    <3>1. Calm /\ ~Spend("zk") /\ Sound /\ ~Spend("lost") /\ ~Spend("expire")
      BY <2>1, <2>3, ZkBefore, SoundBefore
    <3> QED BY <1>2, <3>1, NoneObsoleteStep DEF MInv
  <2> QED BY <2>1, <2>2, <2>3
<1>3. ASSUME Inv PROVE ListedIffFresh
  BY <1>3 DEF ListedIffFresh, Listed, NoneObsolete, Sound
<1> HIDE DEF Inv
<1> QED BY <1>1, <1>2, <1>3, PTL DEF Spec

=============================================================================
