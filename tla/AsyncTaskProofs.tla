-------------------------- MODULE AsyncTaskProofs --------------------------
(***************************************************************************)
(* Proofs about AsyncTask for any number of requests and servers and lists *)
(* of any length: what a client is told, and when.                         *)
(***************************************************************************)
EXTENDS AsyncTask, FiniteSetTheorems, TLAPS

USE FanAssumption

(* A host list names at most MaxFan servers, and servers only. *)
LEMMA ListLength ==
  ASSUME NEW r \in Requests, NEW d \in Lists[r]
  PROVE  /\ Len(d) \in 1..MaxFan
         /\ d \in [1..Len(d) -> Hosts]
<1>1. PICK n \in 1..MaxFan : d \in [1..n -> Hosts]
  BY ListAssumption
<1>2. d \in Seq(Hosts) /\ Len(d) = n
  BY <1>1
<1> QED BY <1>1, <1>2

(* What a request has been given as its list of hosts. *)
LEMMA DestLength ==
  ASSUME TypeOK, NEW r \in Requests
  PROVE  /\ Len(dest[r]) \in 0..MaxFan
         /\ dest[r] \in [1..Len(dest[r]) -> Hosts]
<1>1. CASE dest[r] = <<>>
  BY <1>1
<1>2. CASE dest[r] # <<>>
  <2>1. PICK q \in Requests : dest[r] \in Lists[q]
    BY <1>2 DEF TypeOK
  <2> QED BY <2>1, ListLength
<1> QED BY <1>1, <1>2

(* What one more answer changes in what was told. *)
LEMMA TellTold ==
  ASSUME TypeOK, NEW r \in Requests, NEW a \in Answer, Tell(r, a)
  PROVE  /\ answers' \in [Requests -> Seq(Answer)]
         /\ \A q \in Requests \ {r} : answers'[q] = answers[q]
         /\ Len(answers'[r]) = Len(answers[r]) + 1
         /\ answers'[r][Len(answers[r]) + 1] = a
         /\ \A k \in 1..Len(answers[r]) : answers'[r][k] = answers[r][k]
         /\ \A q \in Requests : \A b : Told(q, b)' <=> Told(q, b) \/ (q = r /\ b = a)
<1>1. answers[r] \in Seq(Answer)
  BY DEF TypeOK
<1>2. answers'[r] = Append(answers[r], a)
  BY DEF Tell, TypeOK
<1>3. /\ answers' \in [Requests -> Seq(Answer)]
      /\ \A q \in Requests \ {r} : answers'[q] = answers[q]
  BY <1>1 DEF Tell, TypeOK
<1>4. /\ Len(answers'[r]) = Len(answers[r]) + 1
      /\ answers'[r][Len(answers[r]) + 1] = a
      /\ \A k \in 1..Len(answers[r]) : answers'[r][k] = answers[r][k]
  BY <1>1, <1>2
<1>5. \A q \in Requests : \A b : Told(q, b)' <=> Told(q, b) \/ (q = r /\ b = a)
  <2>1. SUFFICES ASSUME NEW q \in Requests, NEW b
                 PROVE  Told(q, b)' <=> Told(q, b) \/ (q = r /\ b = a)
    OBVIOUS
  <2>2. CASE q # r
    BY <1>3, <2>2 DEF Told
  <2>3. CASE q = r
    <3>1. Len(answers[r]) \in Nat
      BY <1>1
    <3> QED BY <1>4, <2>3, <3>1 DEF Told
  <2> QED BY <2>2, <2>3
<1> QED BY <1>3, <1>4, <1>5

(* Steps that leave done_one's marks in futures_ leave the count and the   *)
(* notes alone, whatever else they answer.                                 *)
LEMMA NotesKept ==
  ASSUME IInv, UNCHANGED <<dest, results, errors, transport>>,
         \A r \in Requests :
           /\ Gone(r)' = Gone(r)
           /\ cancelled[r] => cancelled'[r]
           /\ \A a \in {"result", "call"} : Told(r, a)' => Told(r, a)
  PROVE  Noting' /\ AnswersTellAll'
<1>1. Noting'
  BY DEF IInv, Noting
<1>2. AnswersTellAll'
  BY DEF IInv, AnswersTellAll
<1> QED BY <1>1, <1>2

(* A step that leaves the futures and the counter alone keeps Counting.     *)
LEMMA CountKept ==
  ASSUME IInv, UNCHANGED <<dest, fut, sent, running>>
  PROVE  /\ Counting'
         /\ \A r \in Requests : Gone(r)' = Gone(r)
BY DEF IInv, Counting, Gone

(* No request has been made: nothing is counted, noted or timed.            *)
LEMMA InitIInv == Init => IInv
<1> SUFFICES ASSUME Init PROVE IInv
  OBVIOUS
<1> USE DEF Init
<1>1. TypeOK
  BY DEF TypeOK, Finished
<1>2. \A r \in Requests : Gone(r) = {} /\ \A a : ~Told(r, a)
  BY DEF Gone, Told
<1>3. Counting
  <2> SUFFICES ASSUME NEW r \in Requests
               PROVE  /\ sent[r] <= Len(dest[r])
                      /\ \A i \in Positions : fut[r][i] = "none" <=> i > sent[r]
                      /\ running[r] = Len(dest[r]) - Cardinality(Gone(r))
    BY DEF Counting
  <2>1. Cardinality(Gone(r)) = 0
    BY <1>2, FS_EmptySet
  <2>2. sent[r] = 0 /\ running[r] = 0 /\ Len(dest[r]) = 0
    OBVIOUS
  <2> QED BY <2>1, <2>2 DEF Positions
<1>4. Noting /\ Timing /\ AnswersTellAll /\ AnswersDoNotCross
  BY <1>2 DEF Noting, Timing, AnswersTellAll, AnswersDoNotCross
<1> QED BY <1>1, <1>3, <1>4 DEF IInv

(* get_members_ throws: the first answer to the request and the only one.  *)
LEMMA RefuseIInv ==
  ASSUME IInv, NEW r \in Requests, Refuse(r)
  PROVE  IInv'
<1> USE DEF Refuse, task, calls, sessions
<1>1. Tell(r, "refused") /\ "refused" \in Answer /\ TypeOK
  BY DEF Answer, IInv
<1>2. /\ answers' \in [Requests -> Seq(Answer)]
      /\ Len(answers'[r]) = Len(answers[r]) + 1
      /\ \A q \in Requests \ {r} : answers'[q] = answers[q]
      /\ \A q \in Requests : \A b :
           Told(q, b)' <=> Told(q, b) \/ (q = r /\ b = "refused")
  BY <1>1, TellTold
<1>3. TypeOK'
  BY <1>2 DEF IInv, TypeOK
<1>4. Counting' /\ Noting' /\ AnswersTellAll'
  BY <1>2, CountKept, NotesKept
<1>5. Timing'
  <2>1. \A q \in Requests : phase'[q] = IF q = r THEN "left" ELSE phase[q]
    BY DEF IInv, TypeOK
  <2> QED BY <1>2, <2>1 DEF IInv, Timing
<1>6. AnswersDoNotCross'
  <2>1. Len(answers'[r]) = 1
    BY <1>2 DEF IInv, Timing
  <2> QED BY <1>2, <2>1 DEF IInv, AnswersDoNotCross
<1> QED BY <1>3, <1>4, <1>5, <1>6 DEF IInv

(* call_apply starts the count of a request that nothing was done for: no  *)
(* call of it is sent, none gone.                                          *)
LEMMA CallApplyIInv ==
  ASSUME IInv, NEW r \in Requests, CallApply(r)
  PROVE  IInv'
<1> USE DEF CallApply, calls, sessions
<1>1. PICK d \in Lists[r] : /\ dest' = [dest EXCEPT ![r] = d]
                            /\ running' = [running EXCEPT ![r] = Len(d)]
  OBVIOUS
<1>2. Len(d) \in 1..MaxFan
  BY ListLength
<1>3. dest[r] = <<>> /\ answers[r] = <<>> /\ timer[r] = "unset" /\ ~cancelled[r]
  BY DEF IInv, Timing
<1>4. TypeOK'
  <2>1. dest' \in [Requests -> {<<>>} \cup UNION {Lists[q] : q \in Requests}]
    BY <1>1 DEF IInv, TypeOK
  <2>2. running' \in [Requests -> Int]
    BY <1>1, <1>2 DEF IInv, TypeOK
  <2> QED BY <2>1, <2>2 DEF IInv, TypeOK
<1>5. \A q \in Requests : \A a : Told(q, a)' <=> Told(q, a)
  BY DEF Told
<1>6. \A a : ~Told(r, a)
  BY <1>3 DEF Told
<1>7. Gone(r) = {}
  <2>1. sent[r] <= 0
    BY <1>3 DEF IInv, Counting
  <2>2. \A i \in Positions : i > sent[r]
    BY <2>1 DEF IInv, TypeOK, Positions
  <2>3. \A i \in Positions : fut[r][i] = "none"
    BY <2>2 DEF IInv, Counting
  <2> QED BY <2>3 DEF Gone
<1>8. \A q \in Requests : Gone(q)' = Gone(q)
  BY DEF Gone
<1>9. Counting'
  <2>1. Cardinality(Gone(r)) = 0
    BY <1>7, FS_EmptySet
  <2>2. sent[r] <= Len(dest'[r]) /\ running'[r] = Len(dest'[r]) - Cardinality(Gone(r))
    <3>1. sent[r] <= 0
      BY <1>3 DEF IInv, Counting
    <3> QED BY <1>1, <1>2, <2>1, <3>1 DEF IInv, TypeOK
  <2> QED BY <1>1, <1>8, <2>2 DEF IInv, TypeOK, Counting
<1>10. Noting' /\ AnswersTellAll'
  <2>1. dest \in [Requests -> {<<>>} \cup UNION {Lists[q] : q \in Requests}]
    BY DEF IInv, TypeOK
  <2>2. \A q \in Requests \ {r} : dest'[q] = dest[q]
    BY <1>1, <2>1
  <2>3. Noting'
    BY <1>5, <1>6, <1>8, <2>2 DEF IInv, Noting
  <2>4. AnswersTellAll'
    BY <1>5, <1>6, <2>2 DEF IInv, AnswersTellAll
  <2> QED BY <2>3, <2>4
<1>11. Timing' /\ AnswersDoNotCross'
  BY <1>3, <1>5, <1>6 DEF IInv, TypeOK, Timing, AnswersDoNotCross
<1> QED BY <1>4, <1>9, <1>10, <1>11 DEF IInv

(* The next host is a host of the list, so there is a session for it.      *)
LEMMA GetSessionIInv ==
  ASSUME IInv, NEW r \in Requests, GetSession(r)
  PROVE  IInv'
<1> USE DEF GetSession, task, calls
<1>1. dest[r][sent[r] + 1] \in Hosts
  <2>1. Len(dest[r]) \in 0..MaxFan /\ dest[r] \in [1..Len(dest[r]) -> Hosts]
    BY DestLength DEF IInv
  <2> QED BY <2>1 DEF Calling, IInv, TypeOK
<1>2. TypeOK'
  <2>1. held' \in Nat /\ pool' \in [Hosts -> Nat] /\ made' \in Nat
    BY <1>1 DEF IInv, TypeOK
  <2> QED BY <2>1 DEF IInv, TypeOK
<1>3. \A q \in Requests : \A a : Told(q, a)' <=> Told(q, a)
  BY DEF Told
<1>4. Counting' /\ Noting' /\ AnswersTellAll'
  BY <1>3, CountKept, NotesKept
<1>5. Timing' /\ AnswersDoNotCross'
  BY <1>3 DEF IInv, Timing, AnswersDoNotCross
<1> QED BY <1>2, <1>4, <1>5 DEF IInv

(* get_session throws: nothing is counted, and lock_ is free again.        *)
LEMMA SessionFailsIInv ==
  ASSUME IInv, NEW r \in Requests, SessionFails(r)
  PROVE  IInv'
<1> USE DEF SessionFails, task, calls, sessions, Calling
<1>1. TypeOK'
  BY DEF IInv, TypeOK
<1>2. \A q \in Requests : \A a : Told(q, a)' <=> Told(q, a)
  BY DEF Told
<1>3. Counting' /\ Noting' /\ AnswersTellAll'
  BY <1>2, CountKept, NotesKept DEF IInv, TypeOK, Timing
<1>4. Timing'
  BY <1>2 DEF IInv, TypeOK, Timing
<1>5. AnswersDoNotCross'
  BY <1>2 DEF IInv, AnswersDoNotCross
<1> QED BY <1>1, <1>3, <1>4, <1>5 DEF IInv

(* call_apply returns.                                                     *)
LEMMA EndApplyIInv ==
  ASSUME IInv, NEW r \in Requests, EndApply(r)
  PROVE  IInv'
<1> USE DEF EndApply, task, calls, sessions
<1>1. TypeOK'
  BY DEF IInv, TypeOK
<1>2. \A q \in Requests : \A a : Told(q, a)' <=> Told(q, a)
  BY DEF Told
<1>3. Counting' /\ Noting' /\ AnswersTellAll'
  BY <1>2, CountKept, NotesKept DEF IInv, TypeOK, Timing
<1>4. Timing' /\ AnswersDoNotCross'
  BY <1>2 DEF IInv, TypeOK, Timing, AnswersDoNotCross
<1> QED BY <1>1, <1>3, <1>4 DEF IInv

(* The timer of a request that nobody has timed out.                       *)
LEMMA TimerFiresIInv ==
  ASSUME IInv, NEW r \in Requests, TimerFires(r)
  PROVE  IInv'
<1> USE DEF TimerFires, task, calls, sessions
<1>1. TypeOK'
  BY DEF IInv, TypeOK
<1>2. \A q \in Requests : \A a : Told(q, a)' <=> Told(q, a)
  BY DEF Told
<1>3. Counting' /\ Noting' /\ AnswersTellAll'
  BY <1>2, CountKept, NotesKept DEF IInv, TypeOK, Timing
<1>4. Timing' /\ AnswersDoNotCross'
  BY <1>2 DEF IInv, TypeOK, Timing, AnswersDoNotCross
<1> QED BY <1>1, <1>3, <1>4 DEF IInv

(* on_timeout starts: from here on done_one notes and says nothing.        *)
LEMMA OnTimeoutIInv ==
  ASSUME IInv, NEW r \in Requests, OnTimeout(r)
  PROVE  IInv'
<1> USE DEF OnTimeout, task, calls, sessions
<1>1. TypeOK'
  BY DEF IInv, TypeOK
<1>2. \A q \in Requests : \A a : Told(q, a)' <=> Told(q, a)
  BY DEF Told
<1>3. Counting' /\ Noting' /\ AnswersTellAll'
  BY <1>2, CountKept, NotesKept DEF IInv, TypeOK, Timing
<1>4. Timing' /\ AnswersDoNotCross'
  BY <1>2 DEF IInv, TypeOK, Timing, AnswersDoNotCross
<1> QED BY <1>1, <1>3, <1>4 DEF IInv

(* A step of on_timeout's loop.                                            *)
LEMMA SkipCallIInv ==
  ASSUME IInv, NEW r \in Requests, SkipCall(r)
  PROVE  IInv'
<1> USE DEF SkipCall, task, calls, sessions, Checking
<1>1. TypeOK'
  BY DEF IInv, TypeOK
<1>2. \A q \in Requests : \A a : Told(q, a)' <=> Told(q, a)
  BY DEF Told
<1>3. Counting' /\ Noting' /\ AnswersTellAll'
  BY <1>2, CountKept, NotesKept DEF IInv, TypeOK, Timing
<1>4. Timing' /\ AnswersDoNotCross'
  BY <1>2 DEF IInv, TypeOK, Timing, AnswersDoNotCross
<1> QED BY <1>1, <1>3, <1>4 DEF IInv

(* The session leaves the pool.                                            *)
LEMMA RemoveSessionIInv ==
  ASSUME IInv, NEW r \in Requests, RemoveSession(r)
  PROVE  IInv'
<1> USE DEF RemoveSession, task, calls, sessions
<1>1. TypeOK'
  <2>1. scan[r] + 1 \in 0..(MaxFan + 1)
    BY DEF IInv, TypeOK, Timing
  <2>2. pool' \in [Hosts -> Nat]
    BY DEF IInv, TypeOK
  <2> QED BY <2>1, <2>2 DEF IInv, TypeOK
<1>2. \A q \in Requests : \A a : Told(q, a)' <=> Told(q, a)
  BY DEF Told
<1>3. Counting' /\ Noting' /\ AnswersTellAll'
  BY <1>2, CountKept, NotesKept DEF IInv, TypeOK, Timing
<1>4. Timing' /\ AnswersDoNotCross'
  BY <1>2 DEF IInv, TypeOK, Timing, AnswersDoNotCross
<1> QED BY <1>1, <1>3, <1>4 DEF IInv

(* dispatch answers for a task that threw: the task itself may answer too, *)
(* but only with its timeout.                                              *)
LEMMA DispatchErrorIInv ==
  ASSUME IInv, NEW r \in Requests, DispatchError(r)
  PROVE  IInv'
<1> USE DEF DispatchError, task, calls, sessions
<1>1. Tell(r, "thrown") /\ "thrown" \in Answer /\ TypeOK
  BY DEF Answer, IInv
<1>2. /\ answers' \in [Requests -> Seq(Answer)]
      /\ \A q \in Requests \ {r} : answers'[q] = answers[q]
      /\ Len(answers'[r]) = Len(answers[r]) + 1
      /\ answers'[r][Len(answers[r]) + 1] = "thrown"
      /\ \A k \in 1..Len(answers[r]) : answers'[r][k] = answers[r][k]
      /\ \A q \in Requests : \A b :
           Told(q, b)' <=> Told(q, b) \/ (q = r /\ b = "thrown")
  BY <1>1, TellTold
<1>3. TypeOK'
  BY <1>2 DEF IInv, TypeOK
<1>4. Counting' /\ Noting' /\ AnswersTellAll'
  BY <1>2, CountKept, NotesKept
<1>5. Timing'
  BY <1>2 DEF IInv, TypeOK, Timing
<1>6. AnswersDoNotCross'
  <2>1. Len(answers[r]) \in Nat
    BY <1>1 DEF TypeOK
  <2>2. ASSUME NEW j \in 1..Len(answers'[r]), NEW k \in 1..Len(answers'[r]),
               j < k, answers'[r][j] = "timeout"
        PROVE  answers'[r][k] = "thrown"
    <3>1. CASE k = Len(answers[r]) + 1
      BY <1>2, <3>1
    <3>2. CASE k # Len(answers[r]) + 1
      <4>1. k \in 1..Len(answers[r]) /\ j \in 1..Len(answers[r])
        BY <1>2, <2>1, <2>2, <3>2
      <4>2. answers[r][j] = "timeout" /\ answers'[r][k] = answers[r][k]
        BY <1>2, <2>2, <4>1
      <4> QED BY <2>2, <4>1, <4>2 DEF IInv, AnswersDoNotCross
    <3> QED BY <3>1, <3>2
  <2>3. ASSUME NEW q \in Requests, NEW j \in 1..Len(answers'[q]),
               NEW k \in 1..Len(answers'[q]), j < k, answers'[q][j] = "timeout"
        PROVE  answers'[q][k] = "thrown"
    <3>1. CASE q = r
      BY <2>2, <2>3, <3>1
    <3>2. CASE q # r
      <4>1. answers'[q] = answers[q]
        BY <1>2, <3>2
      <4> QED BY <2>3, <4>1 DEF IInv, AnswersDoNotCross
    <3> QED BY <3>1, <3>2
  <2>4. \A q \in Requests, a \in {"result", "call", "transport"} :
          Told(q, a)' => timer'[q] # "set"
    BY <1>2 DEF IInv, AnswersDoNotCross
  <2> QED BY <2>3, <2>4 DEF AnswersDoNotCross
<1> QED BY <1>3, <1>4, <1>5, <1>6 DEF IInv

(* The next call goes out. *)
LEMMA SendCallIInv ==
  ASSUME IInv, NEW r \in Requests, SendCall(r)
  PROVE  IInv'
<1> USE DEF SendCall, Calling, task
<1>1. /\ sent[r] \in Nat /\ sent[r] + 1 \in Positions
      /\ sent[r] + 1 <= Len(dest[r])
  <2>1. Len(dest[r]) \in 0..MaxFan /\ sent[r] \in 0..MaxFan
    BY DestLength DEF IInv, TypeOK
  <2>2. sent[r] < Len(dest[r])
    OBVIOUS
  <2> QED BY <2>1, <2>2 DEF Positions
<1>2. TypeOK'
  <2>1. sent' \in [Requests -> 0..MaxFan]
    <3>1. sent[r] + 1 \in 0..MaxFan
      BY <1>1 DEF Positions
    <3> QED BY <3>1 DEF IInv, TypeOK
  <2>2. fut' \in [Requests -> [Positions ->
               {"none", "wait", "cancelled", "gone"} \cup Finished]]
    BY DEF IInv, TypeOK
  <2>3. sess' \in [Requests -> [Positions -> Nat]]
    BY DEF IInv, TypeOK
  <2> QED BY <2>1, <2>2, <2>3 DEF IInv, TypeOK
<1>3. \A q \in Requests : \A a : Told(q, a)' <=> Told(q, a)
  BY DEF Told
<1>4. fut[r][sent[r] + 1] = "none"
  <2>1. sent[r] + 1 > sent[r]
    BY <1>1
  <2> QED BY <1>1, <2>1 DEF IInv, Counting
<1>5. \A q \in Requests : Gone(q)' = Gone(q)
  BY <1>4 DEF IInv, TypeOK, Gone
<1>6. Counting'
  <2>1. \A q \in Requests \ {r} : fut'[q] = fut[q] /\ sent'[q] = sent[q]
    BY DEF IInv, TypeOK
  <2>2. sent'[r] = sent[r] + 1
    BY DEF IInv, TypeOK
  <2>3. \A i \in Positions : fut'[r][i] = "none" <=> i > sent'[r]
    <3> TAKE i \in Positions
    <3>1. fut'[r][i] = IF i = sent[r] + 1 THEN "wait" ELSE fut[r][i]
      BY <1>1 DEF IInv, TypeOK
    <3>2. fut[r][i] = "none" <=> i > sent[r]
      BY DEF IInv, Counting
    <3> QED BY <1>1, <2>2, <3>1, <3>2 DEF Positions
  <2> QED BY <1>1, <1>5, <2>1, <2>2, <2>3 DEF IInv, Counting
<1>7. Noting' /\ AnswersTellAll'
  BY <1>3, <1>5, NotesKept
<1>8. Timing'
  <2>1. \A q \in Requests : sent[q] <= sent'[q]
    <3> TAKE q \in Requests
    <3>1. sent[q] \in Nat
      BY DEF IInv, TypeOK
    <3>2. sent'[q] = IF q = r THEN sent[q] + 1 ELSE sent[q]
      BY DEF IInv, TypeOK
    <3> QED BY <3>1, <3>2
  <2>2. \A q \in Requests : scan[q] \in Nat /\ sent[q] \in Nat /\ sent'[q] \in Nat
    BY <1>2 DEF IInv, TypeOK
  <2> QED BY <1>3, <2>1, <2>2 DEF IInv, Timing
<1>9. AnswersDoNotCross'
  BY <1>3 DEF IInv, AnswersDoNotCross
<1> QED BY <1>2, <1>6, <1>7, <1>8, <1>9 DEF IInv

(* A call ends, or on_timeout cancels it: done_one is still to come.       *)
LEMMA WaitEndsKeeps ==
  ASSUME IInv, NEW r \in Requests, NEW i \in Positions, fut[r][i] = "wait",
         NEW o \in Finished \cup {"cancelled"},
         fut' = [fut EXCEPT ![r][i] = o],
         UNCHANGED <<task, sent, answers>>
  PROVE  /\ fut' \in [Requests -> [Positions ->
                  {"none", "wait", "cancelled", "gone"} \cup Finished]]
         /\ Counting' /\ Noting' /\ AnswersTellAll'
<1> USE DEF task
<1>1. o \notin {"none", "gone"}
  BY DEF Finished
<1>2. fut' \in [Requests -> [Positions ->
               {"none", "wait", "cancelled", "gone"} \cup Finished]]
  BY DEF IInv, TypeOK
<1>3. \A q \in Requests, j \in Positions :
        /\ fut'[q][j] = "gone" <=> fut[q][j] = "gone"
        /\ fut'[q][j] = "none" <=> fut[q][j] = "none"
  BY <1>1 DEF IInv, TypeOK
<1>4. \A q \in Requests : Gone(q)' = Gone(q)
  BY <1>3 DEF Gone
<1>5. Counting'
  BY <1>3, <1>4 DEF IInv, Counting
<1>6. Noting' /\ AnswersTellAll'
  BY <1>4, NotesKept DEF Told
<1> QED BY <1>2, <1>5, <1>6

(* A call ends with its future finished, and done_one still to come. *)
LEMMA CallEndsIInv ==
  ASSUME IInv, NEW r \in Requests, NEW i \in Positions, CallEnds(r, i)
  PROVE  IInv'
<1> USE DEF CallEnds, task, sessions
<1>1. PICK o \in Finished : fut' = [fut EXCEPT ![r][i] = o]
  OBVIOUS
<1>2. /\ fut' \in [Requests -> [Positions ->
              {"none", "wait", "cancelled", "gone"} \cup Finished]]
      /\ Counting' /\ Noting' /\ AnswersTellAll'
  BY <1>1, WaitEndsKeeps
<1>3. TypeOK'
  BY <1>2 DEF IInv, TypeOK
<1>4. Timing' /\ AnswersDoNotCross'
  <2>1. \A q \in Requests, j \in Positions :
          fut'[q][j] = "cancelled" => fut[q][j] = "cancelled"
    BY <1>1 DEF IInv, TypeOK, Finished
  <2> QED BY <2>1 DEF IInv, Timing, AnswersDoNotCross, Told
<1> QED BY <1>2, <1>3, <1>4 DEF IInv

(* on_timeout cancels a call that still waits. *)
LEMMA CancelCallIInv ==
  ASSUME IInv, NEW r \in Requests, CancelCall(r)
  PROVE  IInv'
<1> USE DEF CancelCall, Checking, task, sessions
<1>1. scan[r] \in Positions
  BY DEF IInv, TypeOK, Timing, Positions
<1>2. /\ fut' \in [Requests -> [Positions ->
              {"none", "wait", "cancelled", "gone"} \cup Finished]]
      /\ Counting' /\ Noting' /\ AnswersTellAll'
  BY <1>1, WaitEndsKeeps
<1>3. sess[r][scan[r]] \in Nat
  BY <1>1 DEF IInv, TypeOK
<1>4. TypeOK'
  BY <1>2, <1>3 DEF IInv, TypeOK
<1>5. Timing' /\ AnswersDoNotCross'
  BY DEF IInv, TypeOK, Timing, AnswersDoNotCross, Told
<1> QED BY <1>2, <1>4, <1>5 DEF IInv

(* on_timeout answers once, and nothing that done_one says can follow.     *)
LEMMA TimeoutAnswersIInv ==
  ASSUME IInv, NEW r \in Requests, TimeoutAnswers(r)
  PROVE  IInv'
<1> USE DEF TimeoutAnswers, task, calls, sessions
<1>1. Tell(r, "timeout") /\ "timeout" \in Answer /\ TypeOK
  BY DEF Answer, IInv
<1>2. /\ answers' \in [Requests -> Seq(Answer)]
      /\ \A q \in Requests \ {r} : answers'[q] = answers[q]
      /\ Len(answers'[r]) = Len(answers[r]) + 1
      /\ \A k \in 1..Len(answers[r]) : answers'[r][k] = answers[r][k]
      /\ \A q \in Requests : \A b :
           Told(q, b)' <=> Told(q, b) \/ (q = r /\ b = "timeout")
  BY <1>1, TellTold
<1>3. ~Told(r, "timeout") /\ cancelled[r] /\ timer[r] = "spent"
  BY DEF IInv, Timing
<1>4. TypeOK'
  <2>1. lock' \in [Requests -> {"free", "apply", "check", "remove"}]
    BY DEF IInv, TypeOK
  <2>2. scan' \in [Requests -> 0..(MaxFan + 1)]
    BY DEF IInv, TypeOK
  <2> QED BY <1>2, <2>1, <2>2 DEF IInv, TypeOK
<1>5. Counting' /\ Noting' /\ AnswersTellAll'
  BY <1>2, CountKept, NotesKept
<1>6. Timing'
  <2>1. \A q \in Requests :
          lock'[q] = IF q = r THEN "free" ELSE lock[q]
    BY DEF IInv, TypeOK
  <2>2. \A q \in Requests : q # r => scan'[q] = scan[q]
    BY DEF IInv, TypeOK
  <2>3. phase[r] \notin {"new", "apply"}
    BY <1>3 DEF IInv, Timing
  <2> QED BY <1>2, <1>3, <2>1, <2>2, <2>3 DEF IInv, Timing
<1>7. AnswersDoNotCross'
  <2>1. Len(answers[r]) \in Nat
    BY <1>1 DEF TypeOK
  <2>2. \A j, k \in 1..Len(answers'[r]) : j < k => answers'[r][j] # "timeout"
    <3> SUFFICES ASSUME NEW j \in 1..Len(answers'[r]), NEW k \in 1..Len(answers'[r]),
                        j < k
                 PROVE  answers'[r][j] # "timeout"
      OBVIOUS
    <3>1. j \in 1..Len(answers[r])
      BY <1>2, <2>1
    <3>2. answers'[r][j] = answers[r][j]
      BY <1>2, <3>1
    <3> QED BY <1>3, <3>1, <3>2 DEF Told
  <2>3. ASSUME NEW q \in Requests, NEW j \in 1..Len(answers'[q]),
               NEW k \in 1..Len(answers'[q]), j < k, answers'[q][j] = "timeout"
        PROVE  answers'[q][k] = "thrown"
    <3>1. CASE q = r
      BY <2>2, <2>3, <3>1
    <3>2. CASE q # r
      <4>1. answers'[q] = answers[q]
        BY <1>2, <3>2
      <4> QED BY <2>3, <4>1 DEF IInv, AnswersDoNotCross
    <3> QED BY <3>1, <3>2
  <2>4. \A q \in Requests, a \in {"result", "call", "transport"} :
          Told(q, a)' => timer'[q] # "set"
    BY <1>2 DEF IInv, AnswersDoNotCross
  <2> QED BY <2>3, <2>4 DEF AnswersDoNotCross
<1> QED BY <1>4, <1>5, <1>6, <1>7 DEF IInv

(* The pool drops a session. *)
LEMMA EvictSessionIInv ==
  ASSUME IInv, NEW h \in Hosts, EvictSession(h)
  PROVE  IInv'
<1> USE DEF EvictSession, task, calls
<1>1. TypeOK'
  BY DEF IInv, TypeOK
<1>2. \A q \in Requests : \A a : Told(q, a)' <=> Told(q, a)
  BY DEF Told
<1>3. Counting' /\ Noting' /\ AnswersTellAll'
  BY <1>2, CountKept, NotesKept
<1>4. Timing' /\ AnswersDoNotCross'
  BY <1>2 DEF IInv, Timing, AnswersDoNotCross
<1> QED BY <1>1, <1>3, <1>4 DEF IInv

(* done_one: the i-th future is reset and its outcome noted.               *)
LEMMA DoneOneNotes ==
  ASSUME IInv, NEW r \in Requests, NEW i \in Positions, DoneOne(r, i)
  PROVE  /\ fut' \in [Requests -> [Positions ->
                  {"none", "wait", "cancelled", "gone"} \cup Finished]]
         /\ results' \in [Requests -> SUBSET Positions]
         /\ errors' \in [Requests -> SUBSET (Positions \X {"call", "io"})]
         /\ transport' \in [Requests -> BOOLEAN]
         /\ i \notin Gone(r) /\ Gone(r)' = Gone(r) \cup {i}
         /\ ~cancelled[r] =>
              Gone(r)' = results'[r] \cup {e[1] : e \in errors'[r]}
         /\ ~transport'[r] => \A e \in errors'[r] : e[2] = "call"
         /\ \A q \in Requests \ {r} :
              /\ Gone(q)' = Gone(q) /\ results'[q] = results[q]
              /\ errors'[q] = errors[q] /\ transport'[q] = transport[q]
<1> USE DEF DoneOne
<1>1. /\ fut' \in [Requests -> [Positions ->
              {"none", "wait", "cancelled", "gone"} \cup Finished]]
      /\ results' \in [Requests -> SUBSET Positions]
      /\ transport' \in [Requests -> BOOLEAN]
  BY DEF IInv, TypeOK, TakeNote
<1>2. errors' \in [Requests -> SUBSET (Positions \X {"call", "io"})]
  BY DEF IInv, TypeOK, TakeNote
<1>3. i \notin Gone(r) /\ Gone(r)' = Gone(r) \cup {i}
  BY DEF IInv, TypeOK, Gone, Finished
<1>4. ASSUME ~cancelled[r]
      PROVE  Gone(r)' = results'[r] \cup {e[1] : e \in errors'[r]}
  <2>1. Gone(r) = results[r] \cup {e[1] : e \in errors[r]}
    BY <1>4 DEF IInv, Noting
  <2>2. fut[r][i] \in Finished
    <3>1. fut[r][i] # "cancelled"
      BY <1>4 DEF IInv, Timing
    <3> QED BY <3>1
  <2>3. CASE fut[r][i] = "ok"
    <3>1. results'[r] = results[r] \cup {i} /\ errors'[r] = errors[r]
      BY <1>4, <2>3 DEF IInv, TypeOK, TakeNote
    <3> QED BY <1>3, <2>1, <3>1
  <2>4. CASE fut[r][i] # "ok"
    <3>1. results'[r] = results[r] /\ errors'[r] = errors[r] \cup {<<i, fut[r][i]>>}
      BY <1>4, <2>2, <2>4 DEF IInv, TypeOK, TakeNote, Finished
    <3>2. {e[1] : e \in errors'[r]} = {e[1] : e \in errors[r]} \cup {i}
      <4> DEFINE p == <<i, fut[r][i]>>
      <4>1. p[1] = i /\ errors'[r] = errors[r] \cup {p}
        BY <3>1
      <4> HIDE DEF p
      <4> QED BY <4>1
    <3> QED BY <1>3, <2>1, <3>1, <3>2
  <2> QED BY <2>3, <2>4
<1>5. ASSUME ~transport'[r], NEW e \in errors'[r]
      PROVE  e[2] = "call"
  <2>1. ~transport[r] /\ ~(~cancelled[r] /\ fut[r][i] = "io")
    BY <1>5 DEF IInv, TypeOK, TakeNote
  <2>2. CASE e \in errors[r]
    BY <2>1, <2>2 DEF IInv, Noting
  <2>3. CASE e \notin errors[r]
    <3>1. e = <<i, fut[r][i]>> /\ fut[r][i] \in {"call", "io"} /\ ~cancelled[r]
      BY <1>5, <2>3 DEF IInv, TypeOK, TakeNote
    <3> QED BY <2>1, <3>1
  <2> QED BY <2>2, <2>3
<1>6. \A q \in Requests \ {r} :
        /\ Gone(q)' = Gone(q) /\ results'[q] = results[q]
        /\ errors'[q] = errors[q] /\ transport'[q] = transport[q]
  BY DEF IInv, TypeOK, TakeNote, Gone
<1> QED BY <1>1, <1>2, <1>3, <1>4, <1>5, <1>6

(* When running_count_ reaches 0, done_one has run for every host: the      *)
(* count started with the length of the list and lost one for each.        *)
LEMMA DoneOneCounts ==
  ASSUME IInv, NEW r \in Requests, NEW i \in Positions, DoneOne(r, i)
  PROVE  /\ running' \in [Requests -> Int]
         /\ Counting'
         /\ phase[r] # "new"
         /\ Gone(r) # 1..Len(dest[r])
         /\ running'[r] <= 0 => Gone(r)' = 1..Len(dest[r])
<1> USE DEF DoneOne
<1>1. /\ i \notin Gone(r) /\ Gone(r)' = Gone(r) \cup {i}
      /\ \A q \in Requests \ {r} : Gone(q)' = Gone(q)
  BY DoneOneNotes
<1>2. Len(dest[r]) \in Nat /\ Len(dest[r]) <= MaxFan /\ sent[r] \in Nat
  <2>1. Len(dest[r]) \in 0..MaxFan
    BY DestLength DEF IInv
  <2>2. sent[r] \in Nat
    BY DEF IInv, TypeOK
  <2> QED BY <2>1, <2>2
<1>3. /\ sent[r] <= Len(dest[r])
      /\ running[r] = Len(dest[r]) - Cardinality(Gone(r))
      /\ \A j \in Positions : fut[r][j] = "none" <=> j > sent[r]
  BY DEF IInv, Counting
<1>4. fut[r][i] # "none"
  BY DEF Finished
<1>5. i \in 1..Len(dest[r]) /\ Gone(r) \subseteq 1..Len(dest[r])
  BY <1>2, <1>3, <1>4 DEF Gone, Positions
<1>6. IsFiniteSet(1..Len(dest[r])) /\ Cardinality(1..Len(dest[r])) = Len(dest[r])
  <2>1. /\ IsFiniteSet(1..Len(dest[r]))
        /\ Cardinality(1..Len(dest[r])) =
             IF 1 > Len(dest[r]) THEN 0 ELSE Len(dest[r]) - 1 + 1
    <3>1. 1 \in Int /\ Len(dest[r]) \in Int
      BY <1>2
    <3> QED BY ONLY <3>1, FS_Interval
  <2> QED BY <1>2, <2>1
<1>7. IsFiniteSet(Gone(r))
  BY <1>5, <1>6, FS_Subset
<1>8. /\ Cardinality(Gone(r)') = Cardinality(Gone(r)) + 1
      /\ Cardinality(Gone(r)) \in Nat
  BY <1>1, <1>7, FS_AddElement, FS_CardinalityType
<1>9. /\ running' \in [Requests -> Int]
      /\ running'[r] = running[r] - 1
      /\ \A q \in Requests \ {r} : running'[q] = running[q]
  BY DEF IInv, TypeOK
<1>10. Counting'
  <2>1. \A q \in Requests, j \in Positions :
          fut'[q][j] = "none" <=> fut[q][j] = "none"
    BY <1>4 DEF IInv, TypeOK
  <2>2. running'[r] = Len(dest[r]) - Cardinality(Gone(r)')
    BY <1>2, <1>3, <1>8, <1>9
  <2> QED BY <1>1, <1>9, <2>1, <2>2 DEF IInv, Counting
<1>11. ASSUME running'[r] <= 0
       PROVE  Gone(r)' = 1..Len(dest[r])
  <2>1. Gone(r)' \in SUBSET (1..Len(dest[r]))
    BY <1>1, <1>5
  <2>2. Cardinality(Gone(r)') >= Len(dest[r])
    BY <1>2, <1>3, <1>8, <1>9, <1>11
  <2>3. /\ Cardinality(Gone(r)') <= Cardinality(1..Len(dest[r]))
        /\ Cardinality(1..Len(dest[r])) = Cardinality(Gone(r)') =>
             1..Len(dest[r]) = Gone(r)'
    BY <1>6, <2>1, FS_Subset
  <2>4. Cardinality(Gone(r)') \in Nat
    BY <1>8
  <2> QED BY <1>2, <1>6, <2>2, <2>3, <2>4
<1>12. phase[r] # "new"
  <2>1. Len(dest[r]) # 0
    BY <1>5
  <2> QED BY <2>1 DEF IInv, Timing
<1> QED BY <1>1, <1>5, <1>9, <1>10, <1>11, <1>12

(* The reply of a server: the counter goes down with a note of the reply. *)
LEMMA DoneOneIInv ==
  ASSUME IInv, NEW r \in Requests, NEW i \in Positions, DoneOne(r, i)
  PROVE  IInv'
<1> DEFINE last == ~cancelled[r] /\ running'[r] <= 0
           v == Verdict(errors'[r], transport'[r])
<1>0. /\ fut' \in [Requests -> [Positions ->
              {"none", "wait", "cancelled", "gone"} \cup Finished]]
      /\ results' \in [Requests -> SUBSET Positions]
      /\ errors' \in [Requests -> SUBSET (Positions \X {"call", "io"})]
      /\ transport' \in [Requests -> BOOLEAN]
      /\ ~cancelled[r] =>
           Gone(r)' = results'[r] \cup {e[1] : e \in errors'[r]}
      /\ ~transport'[r] => \A e \in errors'[r] : e[2] = "call"
      /\ \A q \in Requests \ {r} :
           /\ Gone(q)' = Gone(q) /\ results'[q] = results[q]
           /\ errors'[q] = errors[q] /\ transport'[q] = transport[q]
  BY DoneOneNotes
<1> UNCHANGED <<phase, dest, sess, sent, cancelled, lock, scan, sessions>>
  BY DEF DoneOne
<1>1. /\ Counting' /\ phase[r] # "new" /\ Gone(r) # 1..Len(dest[r])
      /\ running' \in [Requests -> Int]
      /\ last => Gone(r)' = 1..Len(dest[r])
  BY DoneOneCounts
<1>2. ~Told(r, "result") /\ ~Told(r, "call")
  BY <1>1 DEF IInv, Noting
<1>3. v \in {"result", "call", "transport"} /\ v \in Answer
  BY DEF Verdict, Answer
<1>4. CASE last
  <2>1. Tell(r, v) /\ CancelTimeout(r)
    BY <1>4 DEF DoneOne
  <2> HIDE DEF v
  <2>2. /\ answers' \in [Requests -> Seq(Answer)]
        /\ \A q \in Requests \ {r} : answers'[q] = answers[q]
        /\ Len(answers'[r]) = Len(answers[r]) + 1
        /\ \A k \in 1..Len(answers[r]) : answers'[r][k] = answers[r][k]
        /\ \A q \in Requests : \A b :
             Told(q, b)' <=> Told(q, b) \/ (q = r /\ b = v)
    BY <1>3, <2>1, TellTold DEF IInv
  <2>3. ~Told(r, "timeout") /\ ~cancelled[r]
    BY <1>4 DEF IInv, Timing
  <2>4. TypeOK'
    <3>1. timer' \in [Requests -> {"unset", "set", "fired", "spent"}]
      BY <2>1 DEF CancelTimeout, IInv, TypeOK
    <3> QED BY <1>1, <2>2, <3>1, <1>0 DEF IInv, TypeOK, sessions
  <2>5. Noting'
    BY <1>1, <1>4, <2>2, <1>0 DEF IInv, Noting
  <2>6. Timing'
    <3>1. \A q \in Requests, j \in Positions :
            fut'[q][j] = "cancelled" => fut[q][j] = "cancelled"
      BY DEF DoneOne, IInv, TypeOK
    <3>2. \A q \in Requests :
            /\ timer[q] # "set" => timer'[q] = timer[q]
            /\ timer'[q] # "set" \/ q # r
      BY <2>1 DEF CancelTimeout, IInv, TypeOK
    <3> QED BY <1>1, <1>3, <2>2, <3>1, <3>2 DEF IInv, Timing
  <2>7. AnswersTellAll'
    <3>1. v = "result" => errors'[r] = {} /\ results'[r] = 1..Len(dest[r])
      <4>1. v = "result" => errors'[r] = {}
        BY DEF v, Verdict
      <4>2. Gone(r)' = results'[r] \cup {e[1] : e \in errors'[r]}
        BY <2>3, <1>0
      <4> QED BY <1>1, <1>4, <4>1, <4>2
    <3>2. v = "call" => errors'[r] # {} /\ \A e \in errors'[r] : e[2] = "call"
      BY <1>0 DEF v, Verdict
    <3> QED BY <1>2, <2>2, <3>1, <3>2, <1>0 DEF IInv, AnswersTellAll
  <2>8. AnswersDoNotCross'
    <3>1. Len(answers[r]) \in Nat
      BY DEF IInv, TypeOK
    <3>2. \A j, k \in 1..Len(answers'[r]) : j < k => answers'[r][j] # "timeout"
      BY <2>2, <2>3, <3>1 DEF Told
    <3>3. \A q \in Requests :
            timer'[q] = "set" => q # r /\ timer[q] = "set"
      BY <2>1 DEF CancelTimeout, IInv, TypeOK
    <3> QED BY <2>2, <3>2, <3>3 DEF IInv, AnswersDoNotCross
  <2> QED BY <1>1, <2>4, <2>5, <2>6, <2>7, <2>8 DEF IInv
<1>5. CASE ~last
  <2>1. UNCHANGED <<timer, answers>>
    BY <1>5 DEF DoneOne
  <2>2. \A q \in Requests : \A a : Told(q, a)' <=> Told(q, a)
    BY <2>1 DEF Told
  <2>3. TypeOK'
    BY <1>1, <2>1, <1>0 DEF IInv, TypeOK, sessions
  <2>4. Noting'
    BY <1>2, <2>2, <1>0 DEF IInv, Noting
  <2>5. Timing'
    <3>1. \A q \in Requests, j \in Positions :
            fut'[q][j] = "cancelled" => fut[q][j] = "cancelled"
      BY DEF DoneOne, IInv, TypeOK
    <3> QED BY <2>1, <2>2, <3>1 DEF IInv, Timing
  <2>6. AnswersTellAll'
    BY <1>2, <2>2, <1>0 DEF IInv, AnswersTellAll
  <2>7. AnswersDoNotCross'
    BY <2>1, <2>2 DEF IInv, AnswersDoNotCross
  <2> QED BY <1>1, <2>3, <2>4, <2>5, <2>6, <2>7 DEF IInv
<1> QED BY <1>4, <1>5

(* Every step keeps the invariant. *)
LEMMA NextIInv == IInv /\ [Next]_vars => IInv'
<1> SUFFICES ASSUME IInv, [Next]_vars
             PROVE  IInv'
  OBVIOUS
<1>1. CASE UNCHANGED vars
  <2> USE <1>1 DEF vars, task, calls, sessions
  <2>1. TypeOK'
    BY DEF IInv, TypeOK
  <2>2. \A q \in Requests : \A a : Told(q, a)' <=> Told(q, a)
    BY DEF Told
  <2>3. Counting' /\ Noting' /\ AnswersTellAll'
    BY <2>2, CountKept, NotesKept
  <2>4. Timing' /\ AnswersDoNotCross'
    BY <2>2 DEF IInv, Timing, AnswersDoNotCross
  <2> QED BY <2>1, <2>3, <2>4 DEF IInv
<1>2. CASE \E r \in Requests : Refuse(r) \/ CallApply(r) \/ RpcThread(r)
  BY <1>2, RefuseIInv, CallApplyIInv, GetSessionIInv, SessionFailsIInv,
     DispatchErrorIInv, SendCallIInv, EndApplyIInv DEF RpcThread
<1>3. CASE \E r \in Requests : TimerFires(r) \/ TimeoutThread(r)
  BY <1>3, TimerFiresIInv, OnTimeoutIInv, SkipCallIInv, CancelCallIInv,
     RemoveSessionIInv, TimeoutAnswersIInv DEF TimeoutThread
<1>4. CASE \E r \in Requests, i \in Positions : CallEnds(r, i) \/ DoneOne(r, i)
  BY <1>4, CallEndsIInv, DoneOneIInv
<1>5. CASE \E h \in Hosts : EvictSession(h)
  BY <1>5, EvictSessionIInv
<1> QED BY <1>1, <1>2, <1>3, <1>4, <1>5 DEF Next

(* The inductive invariant holds in every reachable state. *)
THEOREM Invariance == Spec => []IInv
<1>1. Init => IInv
  BY InitIInv
<1>2. IInv /\ [Next]_vars => IInv'
  BY NextIInv
<1> QED BY <1>1, <1>2, PTL DEF Spec

(* Type correctness of async_task and of the session pool. *)
THEOREM TypeCorrect == Spec => []TypeOK
<1>1. IInv => TypeOK
  BY DEF IInv
<1> QED BY <1>1, Invariance, PTL

(* A result that a client gets is made of the results of all servers of    *)
(* its request, and an error does not hide that a server was not reached,  *)
(* however many servers there are and in whatever order they answer.       *)
THEOREM ClientsAreToldAll == Spec => []AnswersTellAll
<1>1. IInv => AnswersTellAll
  BY DEF IInv
<1> QED BY <1>1, Invariance, PTL

(* Late replies say nothing after a timeout, and what done_one has         *)
(* answered times out only if the timer had fired already.                 *)
THEOREM TimeoutsDoNotCross == Spec => []AnswersDoNotCross
<1>1. IInv => AnswersDoNotCross
  BY DEF IInv
<1> QED BY <1>1, Invariance, PTL

-----------------------------------------------------------------------------
(* The session pool.  No session is made that was made before, so one with *)
(* a cancelled call never comes back to the pool.                          *)
Pooled ==
  /\ held <= made /\ \A h \in Hosts : pool[h] <= made
  /\ \A r \in Requests, i \in Positions :
       sess[r][i] <= made /\ (fut[r][i] = "wait" => sess[r][i] # 0)
  /\ \A s \in dead : s # 0 /\ s <= made

SInv == IInv /\ Pooled /\ TimedOutLeavesPool

(* What these steps need of the types and of the loop of on_timeout.       *)
Types ==
  /\ sess \in [Requests -> [Positions -> Nat]]
  /\ fut \in [Requests -> [Positions -> {"none", "wait", "cancelled", "gone"} \cup Finished]]
  /\ lock \in [Requests -> {"free", "apply", "check", "remove"}]
  /\ scan \in [Requests -> Nat] /\ sent \in [Requests -> 0..MaxFan]
  /\ held \in Nat /\ pool \in [Hosts -> Nat] /\ made \in Nat /\ dead \subseteq Nat
  /\ \A r \in Requests :
       /\ lock[r] = "remove" => phase[r] \notin {"new", "apply"} /\ scan[r] \in 1..sent[r]
       /\ lock[r] = "check" => scan[r] > 0

(* The invariant holds the types. *)
LEMMA TypesHold == ASSUME IInv PROVE Types
<1>1. TypeOK /\ Timing
  BY DEF IInv
<1>2. \A r \in Requests : scan[r] \in Nat /\ (lock[r] \in {"check", "remove"} => scan[r] > 0)
  BY <1>1 DEF TypeOK, Timing
<1>3. ASSUME NEW r \in Requests, lock[r] = "remove"
      PROVE  phase[r] \notin {"new", "apply"} /\ scan[r] \in 1..sent[r]
  <2>1. phase[r] # "new"
    BY <1>1, <1>3 DEF Timing
  <2>2. phase[r] # "apply"
    BY <1>1, <1>3 DEF Timing
  <2>3. scan[r] <= sent[r] /\ sent[r] \in Nat
    BY <1>1, <1>3 DEF TypeOK, Timing
  <2> QED BY <1>2, <1>3, <2>1, <2>2, <2>3
<1> QED BY <1>1, <1>2, <1>3 DEF TypeOK, Types

(* A step that leaves the loop of on_timeout and the sessions alone, and   *)
(* sends nothing, leaves the pool as it is.                                *)
LEMMA PoolKept ==
  ASSUME SInv, UNCHANGED <<sess, sessions>>,
         \A r \in Requests : /\ lock[r] = "remove" => lock'[r] = "remove" /\ scan'[r] = scan[r]
                             /\ \A i \in Positions : fut'[r][i] = "wait" => fut[r][i] = "wait"
  PROVE  (Pooled /\ TimedOutLeavesPool)'
  BY DEF SInv, Pooled, TimedOutLeavesPool, sessions

(* The steps of the RPC thread: a new session is none of the dead ones.    *)
LEMMA RpcThreadPool ==
  ASSUME SInv, NEW r \in Requests, Refuse(r) \/ CallApply(r) \/ RpcThread(r)
  PROVE  (Pooled /\ TimedOutLeavesPool)'
<1>1. Types /\ Pooled /\ TimedOutLeavesPool
  BY TypesHold DEF SInv
<1> USE <1>1 DEF Types
<1>2. CASE GetSession(r)
  <2>1. dest[r][sent[r] + 1] \in Hosts
    <3>1. dest[r] \in [1..Len(dest[r]) -> Hosts] /\ Len(dest[r]) \in Nat
      BY DestLength DEF SInv, IInv
    <3>2. sent[r] \in Nat /\ sent[r] < Len(dest[r])
      BY <1>2 DEF GetSession, Calling
    <3>3. sent[r] + 1 \in 1..Len(dest[r])
      BY <3>1, <3>2
    <3> QED BY <3>1, <3>3, Zenon
  <2>2. made' \in Nat /\ made' >= made /\ UNCHANGED <<fut, sess, lock, scan, dead>> /\ held' <= made'
    BY <1>2, <2>1 DEF GetSession, calls, Pooled
  <2>3. \A h \in Hosts : pool'[h] <= made' /\ (pool'[h] \in dead => pool'[h] = pool[h])
    BY <1>2, <2>1 DEF GetSession, Pooled
  <2>4. Pooled'
    BY <2>2, <2>3 DEF Pooled
  <2>5. TimedOutLeavesPool'
    BY <2>2, <2>3 DEF TimedOutLeavesPool
  <2> QED BY <2>4, <2>5
<1>3. CASE SendCall(r)
  <2>1. UNCHANGED <<lock, scan, pool, dead, made>> /\ held' = 0
    BY <1>3 DEF SendCall
  <2>2. \A q \in Requests, i \in Positions :
          IF q = r /\ i = sent[r] + 1 THEN sess'[q][i] = held
          ELSE sess'[q][i] = sess[q][i] /\ fut'[q][i] = fut[q][i]
    BY <1>3 DEF SendCall
  <2>3. Pooled'
    BY <1>3, <2>1, <2>2 DEF Pooled, SendCall
  <2>4. \A q \in Requests : lock[q] = "remove" => sess'[q][scan[q]] = sess[q][scan[q]]
    BY <1>1, <1>3, <2>2 DEF SendCall, Calling, Positions
  <2> QED BY <2>1, <2>3, <2>4 DEF TimedOutLeavesPool
<1>4. CASE Refuse(r)
  BY <1>4, PoolKept DEF Refuse, calls
<1>5. CASE CallApply(r)
  BY <1>1, <1>5, PoolKept DEF CallApply, calls
<1>6. CASE SessionFails(r)
  BY <1>1, <1>6, PoolKept DEF SessionFails, Calling, calls
<1>7. CASE DispatchError(r)
  BY <1>7, PoolKept DEF DispatchError, calls
<1>8. CASE EndApply(r)
  BY <1>1, <1>8, PoolKept DEF EndApply, calls
<1> QED BY <1>2, <1>3, <1>4, <1>5, <1>6, <1>7, <1>8 DEF RpcThread

(* The steps of the loop's threads.                                        *)
LEMMA LoopThreadsPool ==
  ASSUME SInv, NEW r \in Requests,
         \/ TimerFires(r) \/ TimeoutThread(r)
         \/ \E i \in Positions : CallEnds(r, i) \/ DoneOne(r, i)
  PROVE  (Pooled /\ TimedOutLeavesPool)'
<1>0. Types /\ Pooled /\ TimedOutLeavesPool
  BY TypesHold DEF SInv
<1> USE <1>0 DEF Types
<1>1. ASSUME NEW i \in Positions, CallEnds(r, i) \/ DoneOne(r, i)
      PROVE  (Pooled /\ TimedOutLeavesPool)'
  <2>1. UNCHANGED <<sess, sessions, lock, scan>>
    BY <1>1 DEF CallEnds, DoneOne
  <2>2. \E o \in Finished \cup {"gone"} : fut' = [fut EXCEPT ![r][i] = o]
    BY <1>1 DEF CallEnds, DoneOne
  <2>3. \A q \in Requests, k \in Positions : fut'[q][k] = "wait" => fut[q][k] = "wait"
    BY <2>2 DEF Finished
  <2> QED BY <2>1, <2>3, PoolKept
<1>2. CASE TimerFires(r)
  BY <1>2, PoolKept DEF TimerFires, calls
<1>3. CASE OnTimeout(r)
  BY <1>3, PoolKept DEF OnTimeout, calls
<1>4. CASE SkipCall(r)
  BY <1>4, PoolKept DEF SkipCall, Checking, calls
<1>5. CASE TimeoutAnswers(r)
  BY <1>5, PoolKept DEF TimeoutAnswers, calls
<1>6. CASE CancelCall(r)
  <2>1. /\ UNCHANGED <<sess, scan, held, pool, made>> /\ lock[r] = "check"
        /\ lock' = [lock EXCEPT ![r] = "remove"] /\ dead' = dead \cup {sess[r][scan[r]]}
        /\ fut[r][scan[r]] = "wait" /\ scan[r] <= sent[r]
    BY <1>6 DEF CancelCall, Checking
  <2>2. scan[r] \in Positions
    BY <2>1 DEF Positions
  <2>3. \A q \in Requests, k \in Positions : fut'[q][k] = "wait" => fut[q][k] = "wait"
    BY <1>6 DEF CancelCall
  <2>4. Pooled'
    BY <2>1, <2>2, <2>3 DEF Pooled
  <2>5. \A q \in Requests : lock[q] = "remove" => q # r /\ lock'[q] = "remove"
    BY <2>1
  <2> QED BY <2>1, <2>4, <2>5 DEF TimedOutLeavesPool
<1>7. CASE RemoveSession(r)
  <2>1. /\ UNCHANGED <<fut, sess, held, dead, made>> /\ lock[r] = "remove"
        /\ pool' = [h \in Hosts |-> IF pool[h] = sess[r][scan[r]] THEN 0 ELSE pool[h]]
        /\ \A q \in Requests : q # r => lock'[q] = lock[q] /\ scan'[q] = scan[q]
    BY <1>7 DEF RemoveSession, calls
  <2>2. Pooled'
    BY <2>1 DEF Pooled
  <2>3. ASSUME NEW h \in Hosts, pool'[h] \in dead
        PROVE  \E q \in Requests : lock'[q] = "remove" /\ sess[q][scan'[q]] = pool'[h]
    <3>1. pool'[h] = pool[h] /\ pool[h] # sess[r][scan[r]]
      BY <2>1, <2>3 DEF Pooled
    <3>2. PICK q \in Requests : lock[q] = "remove" /\ sess[q][scan[q]] = pool[h]
      BY <2>3, <3>1 DEF TimedOutLeavesPool
    <3> QED BY <2>1, <3>1, <3>2
  <2> QED BY <2>1, <2>2, <2>3 DEF TimedOutLeavesPool
<1> QED BY <1>1, <1>2, <1>3, <1>4, <1>5, <1>6, <1>7 DEF TimeoutThread

(* However requests share sessions and whenever they time out, a session   *)
(* with a cancelled call is in the pool only until on_timeout goes on.     *)
THEOREM TimedOutSessionsLeave == Spec => []TimedOutLeavesPool
<1>1. Init => SInv
  BY InitIInv DEF Init, SInv, Pooled, TimedOutLeavesPool
<1>2. SInv /\ [Next]_vars => SInv'
  <2>1. SUFFICES ASSUME SInv, [Next]_vars PROVE (Pooled /\ TimedOutLeavesPool)'
    BY NextIInv DEF SInv
  <2>2. CASE UNCHANGED vars
    BY <2>1, <2>2, PoolKept DEF vars, calls
  <2>3. ASSUME NEW h \in Hosts, EvictSession(h) PROVE (Pooled /\ TimedOutLeavesPool)'
    <3>1. Types /\ Pooled /\ TimedOutLeavesPool
      BY <2>1, TypesHold DEF SInv
    <3>2. /\ \A g \in Hosts : pool'[g] \in {0, pool[g]}
          /\ UNCHANGED <<fut, sess, lock, scan, held, dead, made>>
      BY <2>3, <3>1 DEF EvictSession, calls, Types
    <3>3. Pooled'
      BY <3>1, <3>2 DEF Types, Pooled
    <3>4. \A g \in Hosts : pool'[g] \in dead => pool'[g] = pool[g]
      BY <3>1, <3>2 DEF Pooled
    <3> QED BY <3>1, <3>2, <3>3, <3>4 DEF TimedOutLeavesPool
  <2> QED BY <2>1, <2>2, <2>3, RpcThreadPool, LoopThreadsPool DEF Next
<1>3. SInv => TimedOutLeavesPool
  BY DEF SInv
<1> QED BY <1>1, <1>2, <1>3, PTL DEF Spec

=============================================================================
