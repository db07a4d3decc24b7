-------------------------- MODULE PushMixerProofs --------------------------
(***************************************************************************)
(* Proofs about PushMixer for any number of servers and updates, any       *)
(* options and any bounds: the flag is_obsolete_ follows the list of       *)
(* active servers, and an active server knows what it was owed.            *)
(***************************************************************************)
EXTENDS PushMixer, FiniteSetTheorems, WellFoundedInduction, SequenceTheorems, TLAPS

(* The types the steps rely on. *)
Typed ==
  /\ proc \in [Node -> {"down", "up", "cut", "dead", "off"}]
  /\ obsolete \in [Node -> BOOLEAN]
  /\ pc \in [Node -> [Thread -> Locations]]

(* A thread that is about to clear the flag has registered the server, and *)
(* a server that does not run has neither a thread nor anything learned.   *)
Listed ==
  /\ \A n \in Node, t \in Thread : proc[n] = "up" /\ At(n, t, "clear") => n \in actives
  /\ \A n \in Node : proc[n] \in {"down", "dead", "off"} =>
       obsolete[n] /\ \A t \in Thread : At(n, t, "idle")

IInv == Typed /\ Listed /\ FreshIsListed

(* A cluster starts with listed servers, and with some that do not run.    *)
LEMMA InitIInv == Init => IInv
<1>1. SUFFICES ASSUME Init PROVE IInv
  OBVIOUS
<1>2. PICK sc \in Scenarios :
        /\ proc = [n \in Node |-> IF n \in sc.running THEN "up"
                                ELSE IF n \in sc.joining THEN "down" ELSE "off"]
        /\ actives = sc.running
        /\ obsolete = [n \in Node |-> n \notin sc.running]
        /\ pc = [n \in Node |->
                   [Idle EXCEPT !["main"] = IF n \in sc.running THEN "serve" ELSE "idle"]]
  BY <1>1 DEF Init
<1>3. Typed
  BY <1>2 DEF Typed, Idle, Thread, Locations
<1>4. Listed
  BY <1>2 DEF Listed, At, Idle, Thread
<1>5. FreshIsListed
  BY <1>2 DEF FreshIsListed
<1> QED BY <1>3, <1>4, <1>5 DEF IInv

(* A thread that runs is a thread of a process that runs. *)
LEMMA ThreadsRun ==
  ASSUME IInv, NEW n \in Node, NEW t \in Thread, ~At(n, t, "idle")
  PROVE  Serving(n)
  BY DEF IInv, Typed, Listed, At, Serving

(* Where a thread goes, no other thread moves. *)
LEMMA GotoTyped ==
  ASSUME Typed, NEW n \in Node, NEW t \in Thread, NEW l \in Locations, Goto(n, t, l)
  PROVE  /\ pc' \in [Node -> [Thread -> Locations]]
         /\ \A m \in Node, u \in Thread : pc'[m][u] = IF m = n /\ u = t THEN l ELSE pc[m][u]
  BY DEF Typed, Goto

(* Steps of one running thread to a place where it does not clear the flag *)
(* change neither the flag nor the lists.                                  *)
LEMMA Walks ==
  ASSUME IInv, NEW n \in Node, NEW t \in Thread, ~At(n, t, "idle"),
         NEW l \in Locations \ {"clear"}, Goto(n, t, l),
         UNCHANGED <<proc, actives, obsolete>>
  PROVE  IInv'
<1>1. Serving(n)
  BY ThreadsRun
<1>2. Typed'
  BY GotoTyped DEF IInv, Typed
<1>3. Listed'
  BY <1>1, GotoTyped DEF IInv, Typed, Listed, At, Serving
<1>4. FreshIsListed'
  BY DEF IInv, FreshIsListed
<1> QED BY <1>2, <1>3, <1>4 DEF IInv

(* The steps of mix(). *)
LEMMA MixSteps ==
  ASSUME IInv, NEW n \in Node, NEW t \in Thread, MixStep(n, t)
  PROVE  IInv'
<1>1. CASE UpdateMembers(n, t)
  <2>1. ~At(n, t, "idle") /\ UNCHANGED <<proc, actives, obsolete>>
    BY <1>1 DEF UpdateMembers, At, life
  <2>2. \E l \in Locations \ {"clear"} : Goto(n, t, l)
    BY <1>1 DEF UpdateMembers, Locations
  <2> QED BY <2>1, <2>2, Walks
<1>2. CASE Choose(n, t)
  <2>1. ~At(n, t, "idle") /\ UNCHANGED <<proc, actives, obsolete>>
    BY <1>2 DEF Choose, At, life
  <2>2. \E l \in Locations \ {"clear"} : Goto(n, t, l)
    BY <1>2 DEF Choose, Locations
  <2> QED BY <2>1, <2>2, Walks
<1>3. CASE Pull(n, t)
  <2>1. ~At(n, t, "idle") /\ UNCHANGED <<proc, actives, obsolete>>
    BY <1>3 DEF Pull, At, life
  <2>2. \E l \in Locations \ {"clear"} : Goto(n, t, l)
    BY <1>3 DEF Pull, Locations
  <2> QED BY <2>1, <2>2, Walks
<1>4. CASE GetPullArgument(n, t)
  <2>1. ~At(n, t, "idle") /\ UNCHANGED <<proc, actives, obsolete>>
    BY <1>4 DEF GetPullArgument, At, life
  <2>2. \E l \in Locations \ {"clear"} : Goto(n, t, l)
    BY <1>4 DEF GetPullArgument, Locations
  <2> QED BY <2>1, <2>2, Walks
<1>5. CASE Push(n, t)
  <2>1. ~At(n, t, "idle") /\ UNCHANGED <<proc, actives, obsolete>>
    BY <1>5 DEF Push, At, life
  <2>2. \E l \in Locations \ {"clear"} : Goto(n, t, l)
    BY <1>5 DEF Push, Locations
  <2> QED BY <2>1, <2>2, Walks
<1>6. CASE PushMine(n, t)
  <2>1. ~At(n, t, "idle") /\ UNCHANGED <<proc, actives, obsolete>>
    BY <1>6 DEF PushMine, At, life
  <2>2. \E l \in Locations \ {"clear"} : Goto(n, t, l)
    BY <1>6 DEF PushMine, Locations, NextPeer
  <2> QED BY <2>1, <2>2, Walks
<1>7. CASE CallFails(n, t)
  <2>1. ~At(n, t, "idle") /\ UNCHANGED <<proc, actives, obsolete>>
    BY <1>7 DEF CallFails, At, life
  <2>2. \E l \in Locations \ {"clear"} : Goto(n, t, l)
    BY <1>7 DEF CallFails, Locations, NextPeer, Drop, Returned
  <2> QED BY <2>1, <2>2, Walks
<1>8. CASE ReadFlag(n, t)
  <2>1. ~At(n, t, "idle") /\ UNCHANGED <<proc, actives, obsolete>>
    BY <1>8 DEF ReadFlag, At, life
  <2>2. \E l \in Locations \ {"clear"} : Goto(n, t, l)
    BY <1>8 DEF ReadFlag, Locations, Returned
  <2> QED BY <2>1, <2>2, Walks
<1>9. CASE RegisterActive(n, t)
  <2>1. ~At(n, t, "idle") /\ UNCHANGED <<proc, obsolete>>
    BY <1>9 DEF RegisterActive, At, life
  <2>2. PICK l \in Locations :
          /\ Goto(n, t, l)
          /\ l = "clear" => actives' = actives \cup {n}
          /\ actives \subseteq actives'
    BY <1>9 DEF RegisterActive, Locations, Thrown
  <2>3. Serving(n)
    BY <2>1, ThreadsRun
  <2>4. Typed'
    BY <2>1, <2>2, GotoTyped DEF IInv, Typed
  <2>5. Listed'
    BY <2>1, <2>2, <2>3, GotoTyped DEF IInv, Typed, Listed, At, Serving
  <2>6. FreshIsListed'
    BY <2>1, <2>2 DEF IInv, FreshIsListed
  <2> QED BY <2>4, <2>5, <2>6 DEF IInv
<1>10. CASE ClearFlag(n, t)
  <2>1. /\ At(n, t, "clear") /\ UNCHANGED <<proc, actives>>
        /\ obsolete' = [obsolete EXCEPT ![n] = FALSE]
    BY <1>10 DEF ClearFlag, life
  <2>2. PICK l \in Locations \ {"clear"} : Goto(n, t, l)
    BY <1>10 DEF ClearFlag, Locations, Returned
  <2>3. Serving(n)
    BY <2>1, ThreadsRun DEF At
  <2>4. Typed'
    BY <2>1, <2>2, GotoTyped DEF IInv, Typed
  <2>5. Listed'
    BY <2>1, <2>2, <2>3, GotoTyped DEF IInv, Typed, Listed, At, Serving
  <2>6. FreshIsListed'
    BY <2>1 DEF IInv, Typed, Listed, FreshIsListed
  <2> QED BY <2>4, <2>5, <2>6 DEF IInv
<1> QED BY <1>1, <1>2, <1>3, <1>4, <1>5, <1>6, <1>7, <1>8, <1>9, <1>10 DEF MixStep

(* The end of a process leaves nothing but, perhaps, its session. *)
LEMMA ExitStep ==
  ASSUME IInv, NEW n \in Node, Serving(n), Exit(n)
  PROVE  IInv'
<1>1. /\ proc' = [proc EXCEPT ![n] = IF proc[n] = "up" THEN "dead" ELSE "down"]
      /\ obsolete' = [obsolete EXCEPT ![n] = TRUE]
      /\ pc' = [pc EXCEPT ![n] = Idle] /\ actives' = actives
  BY DEF Exit
<1>2. Typed'
  BY <1>1 DEF IInv, Typed, Idle, Locations
<1>3. Listed'
  BY <1>1 DEF IInv, Typed, Listed, At, Idle
<1>4. FreshIsListed'
  BY <1>1 DEF IInv, Typed, FreshIsListed
<1> QED BY <1>2, <1>3, <1>4 DEF IInv

(* One case for each action. *)
LEMMA NextIInv == IInv /\ [Next]_vars => IInv'
<1>1. SUFFICES ASSUME IInv, [Next]_vars PROVE IInv'
  OBVIOUS
<1>2. ASSUME NEW n \in Node, NEW t \in Thread, MixStep(n, t) PROVE IInv'
  BY <1>1, <1>2, MixSteps
<1>3. ASSUME NEW n \in Node, MixerLoop(n) PROVE IInv'
  <2>1. /\ proc[n] = "up" /\ Goto(n, "loop", "members") /\ UNCHANGED <<proc, actives, obsolete>>
    BY <1>3 DEF MixerLoop, life
  <2>2. "loop" \in Thread /\ "members" \in Locations
    BY DEF Thread, Locations
  <2>3. Typed'
    BY <1>1, <2>1, <2>2, GotoTyped DEF IInv, Typed
  <2>4. Listed'
    <3>1. \A m \in Node, u \in Thread :
            pc'[m][u] = IF m = n /\ u = "loop" THEN "members" ELSE pc[m][u]
      BY <1>1, <2>1, <2>2, GotoTyped DEF IInv
    <3> QED BY <1>1, <2>1, <2>2, <3>1 DEF IInv, Typed, Listed, At
  <2>5. FreshIsListed'
    BY <1>1, <2>1 DEF IInv, Typed, Listed, FreshIsListed
  <2> QED BY <2>3, <2>4, <2>5 DEF IInv
<1>4. ASSUME NEW n \in Node, DoMix(n) PROVE IInv'
  <2>1. /\ Serving(n) /\ Goto(n, "rpc", "members") /\ UNCHANGED <<proc, actives, obsolete>>
    BY <1>4 DEF DoMix, life
  <2>2. "rpc" \in Thread /\ "members" \in Locations
    BY DEF Thread, Locations
  <2>3. Typed'
    BY <1>1, <2>1, <2>2, GotoTyped DEF IInv, Typed
  <2>4. Listed'
    <3>1. \A m \in Node, u \in Thread :
            pc'[m][u] = IF m = n /\ u = "rpc" THEN "members" ELSE pc[m][u]
      BY <1>1, <2>1, <2>2, GotoTyped DEF IInv
    <3> QED BY <1>1, <2>1, <2>2, <3>1 DEF IInv, Typed, Listed, At, Serving
  <2>5. FreshIsListed'
    BY <1>1, <2>1 DEF IInv, Typed, Listed, FreshIsListed
  <2> QED BY <2>3, <2>4, <2>5 DEF IInv
<1>5. ASSUME NEW n \in Node, Boot(n) PROVE IInv'
  <2>1. /\ proc[n] = "down" /\ proc' = [proc EXCEPT ![n] = "up"]
        /\ Goto(n, "main", "members") /\ UNCHANGED <<actives, obsolete>>
    BY <1>5 DEF Boot
  <2>2. "main" \in Thread /\ "members" \in Locations
    BY DEF Thread, Locations
  <2>3. Typed'
    BY <1>1, <2>1, <2>2, GotoTyped DEF IInv, Typed
  <2>4. Listed'
    <3>1. \A m \in Node, u \in Thread :
            pc'[m][u] = IF m = n /\ u = "main" THEN "members" ELSE pc[m][u]
      BY <1>1, <2>1, <2>2, GotoTyped DEF IInv
    <3> QED BY <1>1, <2>1, <2>2, <3>1 DEF IInv, Typed, Listed, At
  <2>5. FreshIsListed'
    BY <1>1, <2>1 DEF IInv, Typed, Listed, FreshIsListed
  <2> QED BY <2>3, <2>4, <2>5 DEF IInv
<1>6. ASSUME NEW n \in Node, NEW u \in Update, Train(n, u) PROVE IInv'
  BY <1>1, <1>6 DEF Train, life, IInv, Typed, Listed, FreshIsListed, At
<1>7. ASSUME NEW n \in Node, Crash(n) \/ StartThrows(n) PROVE IInv'
  BY <1>1, <1>7, ExitStep DEF Crash, StartThrows
<1>8. ASSUME NEW n \in Node, SessionTimeout(n) PROVE IInv'
  BY <1>1, <1>8 DEF SessionTimeout, IInv, Typed, Listed, FreshIsListed, At
<1>9. ASSUME NEW n \in Node, Stop(n) PROVE IInv'
  BY <1>1, <1>9 DEF Stop, IInv, Typed, Listed, FreshIsListed, At
<1>10. ASSUME NEW n \in Node, Leave(n) PROVE IInv'
  BY <1>1, <1>10 DEF Leave, IInv, Typed, Listed, FreshIsListed, At
<1>11. ASSUME NEW n \in Node, Shutdown(n) PROVE IInv'
  BY <1>1, <1>11, ExitStep DEF Shutdown, Serving
<1>12. CASE UNCHANGED vars
  BY <1>1, <1>12 DEF vars, IInv, Typed, Listed, FreshIsListed, At
<1> QED BY <1>1, <1>2, <1>3, <1>4, <1>5, <1>6, <1>7, <1>8, <1>9, <1>10, <1>11, <1>12
        DEF Next

(* However many servers mix, join, fail and end at once, one that does not *)
(* think itself obsolete is in the list of active servers, as long as it   *)
(* has its session.                                                        *)
THEOREM FreshServersAreListed == Spec => []FreshIsListed
<1>1. IInv => FreshIsListed
  BY DEF IInv
<1> QED BY <1>1, InitIInv, NextIInv, PTL DEF Spec

-----------------------------------------------------------------------------
(* The list of the servers. *)

(* A set of numbers that is not empty has a least one. *)
LEMMA LeastIs == ASSUME NEW I \in SUBSET Nat, I # {} PROVE \E i \in I : \A j \in I : i <= j
<1> DEFINE R == OpToRel(<, Nat)
<1>1. \A x, y \in Nat : <<y, x>> \in R <=> y < x
  BY DEF OpToRel
<1>2. IsWellFoundedOn(R, Nat)
  BY NatLessThanWellFounded DEF R
<1> HIDE DEF R
<1>3. \E x \in I : \A y \in I : ~(<<y, x>> \in R)
  BY <1>2, WFMin
<1>4. PICK x \in I : \A y \in I : ~(<<y, x>> \in R)
  BY <1>3
<1>5. \A y \in I : x \in Nat /\ y \in Nat /\ ~(y < x)
  BY <1>1, <1>4
<1>6. \A y \in I : x <= y
  BY <1>5
<1> QED BY <1>6

Below(S, n) == {m \in S : m < n}

(* What is below a member is fewer than all, and more below a greater one. *)
LEMMA BelowIs ==
  ASSUME NEW S \in SUBSET Nat, IsFiniteSet(S), NEW x \in S
  PROVE  /\ Cardinality(S) \in Nat /\ Cardinality(Below(S, x)) \in Nat
         /\ Cardinality(Below(S, x)) < Cardinality(S)
         /\ \A w \in S : x < w => Cardinality(Below(S, x)) < Cardinality(Below(S, w))
<1>1. \A T \in SUBSET S : IsFiniteSet(T) /\ Cardinality(T) \in Nat
  BY FS_Subset, FS_CardinalityType
<1>2. /\ Below(S, x) \in SUBSET S /\ x \notin Below(S, x)
      /\ Below(S, x) \cup {x} \in SUBSET S
  BY DEF Below
<1>3. Cardinality(Below(S, x) \cup {x}) = Cardinality(Below(S, x)) + 1
  BY <1>1, <1>2, FS_AddElement
<1>4. \A T \in SUBSET S : Below(S, x) \cup {x} \subseteq T =>
        Cardinality(Below(S, x)) + 1 <= Cardinality(T)
  BY <1>1, <1>3, FS_Subset
<1>5. ASSUME NEW w \in S, x < w
      PROVE  Below(S, w) \in SUBSET S /\ Below(S, x) \cup {x} \subseteq Below(S, w)
  <2>1. w \in Nat /\ x \in Nat /\ \A m \in S : m \in Nat
    OBVIOUS
  <2>2. \A m \in Nat : m < x => m < w
    BY <1>5, <2>1
  <2> QED BY <1>5, <2>1, <2>2 DEF Below
<1>6. Cardinality(Below(S, x)) + 1 <= Cardinality(S)
  BY <1>2, <1>4
<1>7. \A w \in S : x < w =>
        /\ Cardinality(Below(S, x)) + 1 <= Cardinality(Below(S, w))
        /\ Cardinality(Below(S, w)) \in Nat
  BY <1>1, <1>4, <1>5
<1> QED BY <1>1, <1>2, <1>6, <1>7

(* A finite set of numbers that is not empty has a greatest one. *)
LEMMA GreatestIs ==
  ASSUME NEW S \in SUBSET Nat, IsFiniteSet(S), S # {}
  PROVE  \E x \in S : Below(S, x) = S \ {x}
<1>1. Cardinality(S) \in Nat
  BY FS_CardinalityType
<1> DEFINE I == {Cardinality(S) - Cardinality(Below(S, x)) : x \in S}
<1>2. I \in SUBSET Nat /\ I # {}
  <2>1. ASSUME NEW x \in S PROVE Cardinality(S) - Cardinality(Below(S, x)) \in Nat
    <3>1. PICK b \in Nat : b = Cardinality(Below(S, x)) /\ b < Cardinality(S)
      BY BelowIs
    <3> QED BY <1>1, <3>1
  <2> QED BY <2>1
<1>3. PICK i \in I : \A j \in I : i <= j
  BY <1>2, LeastIs
<1>4. PICK x \in S : \A w \in S :
        Cardinality(S) - Cardinality(Below(S, x)) <= Cardinality(S) - Cardinality(Below(S, w))
  BY <1>3
<1>5. ASSUME NEW w \in S, w # x PROVE w < x
  <2> SUFFICES ASSUME ~(w < x) PROVE FALSE
    OBVIOUS
  <2>1. x < w
    BY <1>5
  <2>2. /\ Cardinality(Below(S, x)) < Cardinality(Below(S, w))
        /\ Cardinality(Below(S, x)) \in Nat /\ Cardinality(Below(S, w)) \in Nat
    BY <2>1, BelowIs
  <2>3. Cardinality(S) - Cardinality(Below(S, x)) <= Cardinality(S) - Cardinality(Below(S, w))
    BY <1>4
  <2> QED BY <1>1, <2>2, <2>3
<1>6. ~(x < x)
  OBVIOUS
<1> QED BY <1>5, <1>6 DEF Below

(* There is a member with i others below it. *)
LEMMA RankHasMember ==
  ASSUME NEW S \in SUBSET Nat, IsFiniteSet(S), NEW i \in Nat, i < Cardinality(S)
  PROVE  \E x \in S : Cardinality(Below(S, x)) = i
<1> DEFINE Gap(T) == \E j \in Nat : j < Cardinality(T) /\ \A x \in T : Cardinality(Below(T, x)) # j
           Gaps == {T \in SUBSET S : Gap(T)}
           I == {Cardinality(T) : T \in Gaps}
<1>1. \A T \in SUBSET S : T \in SUBSET Nat /\ IsFiniteSet(T) /\ Cardinality(T) \in Nat
  BY FS_Subset, FS_CardinalityType
<1>2. Gaps = {}
  <2> SUFFICES ASSUME Gaps # {} PROVE FALSE
    OBVIOUS
  <2>1. I \in SUBSET Nat /\ I # {}
    BY <1>1
  <2>2. PICK T \in Gaps : \A U \in Gaps : Cardinality(T) <= Cardinality(U)
    <3>1. \E n \in I : \A m \in I : n <= m
      <4> HIDE DEF I
      <4> QED BY <2>1, LeastIs
    <3> QED BY <3>1
  <2>3. PICK j \in Nat : j < Cardinality(T) /\ \A x \in T : Cardinality(Below(T, x)) # j
    BY <2>2
  <2>4. T \in SUBSET S /\ T # {} /\ Cardinality(T) \in Nat
    BY <1>1, <2>2, <2>3, FS_EmptySet
  <2>5. PICK x \in T : Below(T, x) = T \ {x}
    BY <1>1, <2>4, GreatestIs
  <2>6. Cardinality(T \ {x}) = Cardinality(T) - 1
    BY <1>1, <2>4, <2>5, FS_RemoveElement
  <2>7. j < Cardinality(T \ {x})
    BY <2>3, <2>4, <2>5, <2>6
  <2>8. T \ {x} \notin Gaps
    <3>1. T \ {x} \in Gaps => Cardinality(T) <= Cardinality(T) - 1
      <4> HIDE DEF Gaps
      <4> QED BY <2>2, <2>6
    <3> QED BY <2>4, <3>1
  <2>9. PICK w \in T \ {x} : Cardinality(Below(T \ {x}, w)) = j
    BY <2>4, <2>7, <2>8
  <2>10. x \in Nat /\ w \in Nat /\ w < x
    BY <2>4, <2>5, <2>9 DEF Below
  <2>11. Below(T \ {x}, w) = Below(T, w)
    BY <2>10 DEF Below
  <2> QED BY <2>3, <2>9, <2>11
<1>3. ~Gap(S)
  BY <1>2
<1> QED BY <1>3

(* The ascending list of a set of numbers is one of its members, and of    *)
(* all of them.                                                            *)
LEMMA AscendingIs ==
  ASSUME NEW S \in SUBSET Nat, IsFiniteSet(S)
  PROVE  /\ Ascending(S) \in Seq(S) /\ Range(Ascending(S)) = S
<1>1. PICK c \in Nat : c = Cardinality(S)
  BY FS_CardinalityType
<1> DEFINE at(i) == CHOOSE n \in S : Cardinality({m \in S : m < n}) = i - 1
<1>2. Ascending(S) = [i \in 1..c |-> at(i)]
  BY <1>1 DEF Ascending
<1>3. ASSUME NEW i \in 1..c PROVE at(i) \in S /\ Cardinality(Below(S, at(i))) = i - 1
  <2>1. i - 1 \in Nat /\ i - 1 < Cardinality(S)
    BY <1>1
  <2>2. \E n \in S : Cardinality({m \in S : m < n}) = i - 1
    BY <2>1, RankHasMember DEF Below
  <2> QED BY <2>2 DEF Below
<1>4. ASSUME NEW x \in S PROVE \E i \in 1..c : at(i) = x
  <2>1. PICK r \in Nat : r = Cardinality(Below(S, x)) /\ r < c
    BY <1>1, BelowIs
  <2>2. r + 1 \in 1..c /\ (r + 1) - 1 = r
    BY <2>1
  <2>3. PICK y \in S : y = at(r + 1) /\ Cardinality(Below(S, y)) = r
    BY <1>3, <2>2
  <2>4. ~(x < y) /\ ~(y < x)
    <3>1. Cardinality(Below(S, x)) = Cardinality(Below(S, y))
      BY <2>1, <2>2, <2>3
    <3>2. /\ x < y => Cardinality(Below(S, x)) < Cardinality(Below(S, y))
          /\ y < x => Cardinality(Below(S, y)) < Cardinality(Below(S, x))
      BY BelowIs
    <3> QED BY <2>1, <3>1, <3>2
  <2>5. x = y
    <3>1. x \in Nat /\ y \in Nat
      OBVIOUS
    <3> QED BY <2>4, <3>1
  <2> QED BY <2>2, <2>3, <2>5
<1> HIDE DEF at
<1>5. Ascending(S) \in Seq(S) /\ DOMAIN Ascending(S) = 1..c
  BY <1>2, <1>3
<1>6. \A i \in 1..c : Ascending(S)[i] = at(i)
  BY <1>2
<1>7. Range(Ascending(S)) = {Ascending(S)[i] : i \in 1..c}
  BY <1>5 DEF Range
<1>8. Range(Ascending(S)) \subseteq S
  BY <1>3, <1>6, <1>7
<1>9. S \subseteq Range(Ascending(S))
  BY <1>4, <1>6, <1>7
<1> QED BY <1>5, <1>8, <1>9
-----------------------------------------------------------------------------
(* What a server that joins with the broadcast mixer comes to know. *)

KnowTypes ==
  /\ actives \subseteq nodes
  /\ \A n \in Node : n \in nodes <=> proc[n] \in {"up", "dead"}
  /\ nodes \subseteq Node
  /\ model \in [Node -> SUBSET Update] /\ owed \in [Node -> SUBSET Update]
  /\ excused \in [Node -> BOOLEAN]
  /\ servers \in [Node -> Seq(Node)]
  /\ todo \in [Node -> [Thread -> Seq(Nat)]]
  /\ her \in [Node -> [Thread -> SUBSET Update]]
  /\ mine \in [Node -> [Thread -> SUBSET Update]]
  /\ \A n \in Node : ~Serving(n) => model[n] = {}

(* What n is owed and does not know is known to a listed server that runs. *)
Missing(n) == owed[n] \ model[n]

Held ==
  \A n \in Node : \A u \in Missing(n) :
    \E q \in nodes \ {n} : proc[q] = "up" /\ u \in model[q]

(* A server will tell u to who asks, or will not answer. *)
Tells(q, u) == u \in model[q] \/ ~Serving(q)

(* The places of the list of n that are of another such server. *)
Tellers(n, u) ==
  {i \in 1..Len(servers[n]) : servers[n][i] # n /\ Tells(servers[n][i], u)}

(* What n is owed and does not know is ahead of each thread that walks, or *)
(* in what it has pulled; whoever is past the walk has missed nothing.     *)
Way(n, t) ==
  /\ At(n, t, "choose") => \A u \in Missing(n) : Tellers(n, u) # {}
  /\ At(n, t, "pull") => \A u \in Missing(n) : Tellers(n, u) \cap Range(todo[n][t]) # {}
  /\ pc[n][t] \in {"argument", "push", "merge"} =>
       \A u \in Missing(n) :
         u \in her[n][t] \/ Tellers(n, u) \cap Range(Tail(todo[n][t])) # {}
  /\ pc[n][t] \in {"flag", "register"} => Missing(n) = {}

Exchanging(n, t) == pc[n][t] \in {"pull", "argument", "push", "merge"}

HasPeers == \A n \in Node, t \in Thread : Exchanging(n, t) => todo[n][t] # <<>>
OnTheWay == \A n \in Node, t \in Thread : ~excused[n] => Way(n, t)
Settled == \A n \in actives : proc[n] = "up" /\ ~excused[n] => Missing(n) = {}

Know == KnowTypes /\ Held /\ HasPeers /\ OnTheWay /\ Settled

KnowIInv == argv.mixer = "broadcast" => Know

(* The members of a list are at its places. *)
LEMMA SeqRange ==
  ASSUME NEW D, NEW s \in Seq(D)
  PROVE  /\ \A i \in 1..Len(s) : s[i] \in Range(s)
         /\ \A x \in Range(s) : \E i \in 1..Len(s) : s[i] = x
         /\ Range(s) \subseteq D
<1>1. DOMAIN s = 1..Len(s) /\ s \in [1..Len(s) -> D]
  OBVIOUS
<1> QED BY <1>1 DEF Range

(* Whoever is in a list is its head or is in the rest of it. *)
LEMMA RangeHeadTail ==
  ASSUME NEW D, NEW s \in Seq(D), s # <<>>
  PROVE  \A x \in Range(s) : x = Head(s) \/ x \in Range(Tail(s))
<1>1. /\ Head(s) = s[1] /\ Tail(s) \in Seq(D) /\ Len(Tail(s)) = Len(s) - 1
      /\ \A i \in 1..Len(Tail(s)) : Tail(s)[i] = s[i + 1]
      /\ Len(s) \in Nat /\ Len(s) # 0
  BY HeadTailProperties, EmptySeq, LenProperties
<1>2. SUFFICES ASSUME NEW x \in Range(s), x # Head(s) PROVE x \in Range(Tail(s))
  OBVIOUS
<1>3. PICK i \in 1..Len(s) : s[i] = x
  BY SeqRange
<1>4. i \in Nat /\ i # 1
  BY <1>1, <1>2, <1>3
<1>5. i - 1 \in 1..Len(Tail(s)) /\ (i - 1) + 1 = i
  BY <1>1, <1>3, <1>4
<1>6. Tail(s)[i - 1] = x
  BY <1>1, <1>3, <1>5
<1> QED BY <1>1, <1>5, <1>6, SeqRange

(* Servers that tell what they told before are still ahead of n. *)
LEMMA TellersKept ==
  ASSUME NEW n \in Node, NEW u, servers[n] \in Seq(Node), servers'[n] = servers[n],
         \A q \in Range(servers[n]) : Tells(q, u) => Tells(q, u)'
  PROVE  Tellers(n, u) \subseteq Tellers(n, u)'
<1>1. PICK s \in Seq(Node) : s = servers[n] /\ s = servers'[n]
  OBVIOUS
<1>2. \A i \in 1..Len(s) : s[i] \in Range(s)
  BY SeqRange
<1>3. \A i \in 1..Len(s) : Tells(s[i], u) => Tells(s[i], u)'
  BY <1>1, <1>2
<1>4. Tellers(n, u) = {i \in 1..Len(s) : s[i] # n /\ Tells(s[i], u)}
  BY <1>1 DEF Tellers
<1>5. Tellers(n, u)' = {i \in 1..Len(s) : s[i] # n /\ Tells(s[i], u)'}
  BY <1>1 DEF Tellers
<1> QED BY <1>3, <1>4, <1>5

(* A thread that does not move stays on its way when its server misses no  *)
(* more than before, and those on its list tell what they told before.     *)
LEMMA WayKept ==
  ASSUME NEW n \in Node, NEW t \in Thread, Way(n, t),
         pc'[n][t] = pc[n][t], todo'[n][t] = todo[n][t], her'[n][t] = her[n][t],
         Missing(n)' \subseteq Missing(n),
         \A u \in Missing(n)' : Tellers(n, u) \subseteq Tellers(n, u)'
  PROVE  Way(n, t)'
<1>1. PICK d : d = todo[n][t] /\ d = todo'[n][t]
  OBVIOUS
<1>2. PICK h : h = her[n][t] /\ h = her'[n][t]
  OBVIOUS
<1>3. PICK l : l = pc[n][t] /\ l = pc'[n][t]
  OBVIOUS
<1>4. /\ l = "choose" => \A u \in Missing(n)' : Tellers(n, u)' # {}
      /\ l = "pull" => \A u \in Missing(n)' : Tellers(n, u)' \cap Range(d) # {}
      /\ l \in {"argument", "push", "merge"} =>
           \A u \in Missing(n)' : u \in h \/ Tellers(n, u)' \cap Range(Tail(d)) # {}
      /\ l \in {"flag", "register"} => Missing(n)' = {}
  BY <1>1, <1>2, <1>3 DEF Way, At
<1> QED BY <1>1, <1>2, <1>3, <1>4 DEF Way, At

(* What is told goes on to be told while models only grow. *)
LEMMA TellersGrow ==
  ASSUME KnowTypes, proc' = proc, \A m \in Node : model[m] \subseteq model'[m],
         NEW n \in Node, NEW u, servers'[n] = servers[n]
  PROVE  Tellers(n, u) \subseteq Tellers(n, u)'
<1>1. servers[n] \in Seq(Node)
  BY DEF KnowTypes
<1>2. \A q \in Range(servers[n]) : q \in Node
  BY <1>1, SeqRange
<1>3. \A q \in Node : Tells(q, u) => Tells(q, u)'
  BY DEF Tells, Serving
<1> QED BY <1>1, <1>2, <1>3, TellersKept

(* A step of one thread, which leaves ZooKeeper and the other threads      *)
(* alone, makes nobody forget and owes nothing new.                        *)
LEMMA ThreadStep ==
  ASSUME IInv, Know, NEW n \in Node, NEW t \in Thread,
         UNCHANGED <<proc, nodes, actives, servers>>,
         KnowTypes',
         \A m \in Node : /\ model[m] \subseteq model'[m]
                         /\ owed'[m] \subseteq owed[m]
                         /\ excused[m] => excused'[m],
         \A m \in Node, s \in Thread : m # n \/ s # t =>
           pc'[m][s] = pc[m][s] /\ todo'[m][s] = todo[m][s] /\ her'[m][s] = her[m][s],
         Exchanging(n, t)' => todo'[n][t] # <<>>,
         ~excused'[n] => Way(n, t)'
  PROVE  Know'
<1>1. \A m \in Node : Missing(m)' \subseteq Missing(m)
  BY DEF Missing
<1>2. Held'
  <2>1. ASSUME NEW m \in Node, NEW u \in Missing(m)'
        PROVE  \E q \in nodes \ {m} : proc[q] = "up" /\ u \in model'[q]
    <3>1. PICK q \in nodes \ {m} : proc[q] = "up" /\ u \in model[q]
      BY <1>1, <2>1 DEF Know, Held
    <3>2. q \in Node
      BY <3>1 DEF Know, KnowTypes
    <3> QED BY <3>1, <3>2
  <2> QED BY <2>1 DEF Held
<1>3. HasPeers'
  <2>1. ASSUME NEW m \in Node, NEW s \in Thread, m # n \/ s # t, Exchanging(m, s)'
        PROVE  todo'[m][s] # <<>>
    BY <2>1 DEF Know, HasPeers, Exchanging
  <2> QED BY <2>1 DEF HasPeers
<1>4. OnTheWay'
  <2>1. ASSUME NEW m \in Node, NEW s \in Thread, m # n \/ s # t, ~excused'[m]
        PROVE  Way(m, s)'
    <3>1. Way(m, s)
      BY <2>1 DEF Know, OnTheWay
    <3>2. \A u \in Missing(m)' : Tellers(m, u) \subseteq Tellers(m, u)'
      BY TellersGrow DEF Know
    <3>3. pc'[m][s] = pc[m][s] /\ todo'[m][s] = todo[m][s] /\ her'[m][s] = her[m][s]
      BY <2>1
    <3> QED BY <1>1, <3>1, <3>2, <3>3, WayKept
  <2> QED BY <2>1 DEF OnTheWay
<1>5. Settled'
  <2>1. ASSUME NEW m \in actives, proc[m] = "up", ~excused'[m] PROVE Missing(m)' = {}
    BY <1>1, <2>1 DEF Know, KnowTypes, Settled
  <2> QED BY <2>1 DEF Settled
<1> QED BY <1>2, <1>3, <1>4, <1>5 DEF Know

(* Nothing that the invariant is about changes. *)
LEMMA StandsStill ==
  ASSUME Know, UNCHANGED <<proc, nodes, actives, model, servers, pc, todo, her, mine, owed, excused>>
  PROVE  Know'
<1>1. KnowTypes' /\ Held' /\ HasPeers' /\ Settled'
  BY DEF Know, KnowTypes, Held, HasPeers, Settled, Missing, Exchanging, Serving
<1>2. ASSUME NEW n \in Node, NEW t \in Thread, ~excused'[n] PROVE Way(n, t)'
  <2>1. Way(n, t)
    BY <1>2 DEF Know, OnTheWay
  <2>2. \A u \in Missing(n)' : Tellers(n, u) \subseteq Tellers(n, u)'
    BY TellersGrow DEF Know
  <2>3. Missing(n)' \subseteq Missing(n)
    BY DEF Missing
  <2> QED BY <2>1, <2>2, <2>3, WayKept
<1> QED BY <1>1, <1>2 DEF Know, OnTheWay

(* Choose: all other servers of the list are ahead, whoever they are. *)
LEMMA ChooseKnow ==
  ASSUME IInv, Know, argv.mixer = "broadcast", NEW n \in Node, NEW t \in Thread, Choose(n, t)
  PROVE  Know'
<1>1. /\ At(n, t, "choose")
      /\ UNCHANGED <<proc, nodes, actives, model, servers, her, mine, owed, excused>>
      /\ Goto(n, t, IF todo'[n][t] = <<>> THEN "flag" ELSE "pull")
  BY DEF Choose, life
<1>2. PICK s \in Seq(Node) : s = servers[n] /\ s = servers'[n]
  BY <1>1 DEF Know, KnowTypes
<1>3. CASE s = <<>>
  <2>1. todo' = todo
    BY <1>2, <1>3 DEF Choose
  <2>2. KnowTypes'
    BY <1>1, <2>1 DEF Know, KnowTypes, Serving
  <2>3. ~excused[n] => Missing(n) = {}
    <3>1. Len(s) = 0
      BY <1>3
    <3>2. \A u : Tellers(n, u) = {}
      BY <1>2, <3>1 DEF Tellers
    <3> QED BY <1>1, <3>2 DEF Know, OnTheWay, Way
  <2>4. PICK l \in {"flag", "pull"} : Goto(n, t, l) /\ (l = "pull" => todo'[n][t] # <<>>)
    BY <1>1
  <2>5. /\ pc'[n][t] = l
        /\ \A m \in Node, r \in Thread : m # n \/ r # t => pc'[m][r] = pc[m][r]
    BY <2>4, GotoTyped DEF IInv, Locations
  <2>6. Missing(n)' = Missing(n)
    BY <1>1 DEF Missing
  <2>7. ~excused'[n] => Way(n, t)'
    BY <1>1, <2>3, <2>5, <2>6 DEF Way, At
  <2>8. Exchanging(n, t)' => todo'[n][t] # <<>>
    BY <2>4, <2>5 DEF Exchanging
  <2> QED BY <1>1, <2>1, <2>2, <2>5, <2>7, <2>8, ThreadStep
<1>4. CASE s # <<>>
  <2>1. Others(n, s) \in SUBSET Nat /\ IsFiniteSet(Others(n, s))
    <3>1. Len(s) \in Nat /\ Others(n, s) \subseteq 1..Len(s) /\ 1..Len(s) \subseteq Nat
      BY LenProperties DEF Others
    <3>2. IsFiniteSet(1..Len(s))
      BY <3>1, FS_Interval
    <3>3. IsFiniteSet(Others(n, s))
      BY <3>1, <3>2, FS_Subset
    <3> QED BY <3>1, <3>3
  <2>2. PICK c \in Seq(Nat) : c = Ascending(Others(n, s)) /\ Range(c) = Others(n, s)
    <3>1. /\ Ascending(Others(n, s)) \in Seq(Others(n, s))
          /\ Range(Ascending(Others(n, s))) = Others(n, s)
      BY <2>1, AscendingIs
    <3>2. Ascending(Others(n, s)) \in Seq(Nat)
      BY <2>1, <3>1
    <3> QED BY <3>1, <3>2
  <2>3. todo' = [todo EXCEPT ![n][t] = c]
    BY <1>2, <1>4, <2>2 DEF Choose, Candidates, BroadcastCandidates
  <2>4. /\ todo' \in [Node -> [Thread -> Seq(Nat)]] /\ todo'[n][t] = c
        /\ \A m \in Node, r \in Thread : m # n \/ r # t => todo'[m][r] = todo[m][r]
    BY <2>3 DEF Know, KnowTypes
  <2>5. KnowTypes'
    BY <1>1, <2>4 DEF Know, KnowTypes, Serving
  <2>6. ~excused[n] => \A u \in Missing(n) : Tellers(n, u) \cap Range(c) # {}
    <3>1. \A u : Tellers(n, u) \subseteq Others(n, s)
      BY <1>2 DEF Tellers, Others
    <3> QED BY <1>1, <2>2, <3>1 DEF Know, OnTheWay, Way
  <2>7. c = <<>> => Range(c) = {}
    BY DEF Range
  <2>8. PICK l \in {"flag", "pull"} : Goto(n, t, l) /\ (l = "pull" <=> c # <<>>)
    BY <1>1, <2>4
  <2>9. /\ pc'[n][t] = l
        /\ \A m \in Node, r \in Thread : m # n \/ r # t => pc'[m][r] = pc[m][r]
    BY <2>8, GotoTyped DEF IInv, Locations
  <2>10. Missing(n)' = Missing(n)
    BY <1>1 DEF Missing
  <2>11. \A u \in Missing(n) : Tellers(n, u) \subseteq Tellers(n, u)'
    BY <1>1, TellersGrow DEF Know
  <2>12. ~excused'[n] => Way(n, t)'
    BY <1>1, <2>4, <2>6, <2>7, <2>8, <2>9, <2>10, <2>11 DEF Way, At
  <2>13. Exchanging(n, t)' => todo'[n][t] # <<>>
    BY <2>4, <2>8, <2>9 DEF Exchanging
  <2> QED BY <1>1, <2>4, <2>5, <2>9, <2>12, <2>13, ThreadStep
<1> QED BY <1>3, <1>4

(* Pull: she tells what she knows; the others are still ahead. *)
LEMMA PullKnow ==
  ASSUME IInv, Know, NEW n \in Node, NEW t \in Thread, Pull(n, t)
  PROVE  Know'
<1>1. /\ At(n, t, "pull") /\ Reaches(n, t) /\ Goto(n, t, "argument")
      /\ her' = [her EXCEPT ![n][t] = TakePull(She(n, t), PullArgument(n))]
      /\ UNCHANGED <<proc, nodes, actives, model, servers, todo, mine, owed, excused>>
  BY DEF Pull, life
<1>2. PICK d \in Seq(Nat) : d = todo[n][t] /\ d = todo'[n][t] /\ d # <<>>
  BY <1>1 DEF Know, KnowTypes, Reaches, HasShe
<1>3. PICK s \in Seq(Node) : s = servers[n] /\ s = servers'[n]
  BY <1>1 DEF Know, KnowTypes
<1>4. PICK i : i = Head(d) /\ i \in DOMAIN s /\ Serving(s[i])
  BY <1>1, <1>2, <1>3 DEF Reaches, HasShe, She
<1>5. s[i] \in Node
  BY <1>4
<1>6. PICK h \in SUBSET Update : h = model[s[i]] \ model[n] /\ her' = [her EXCEPT ![n][t] = h]
  <2>1. TakePull(She(n, t), PullArgument(n)) = model[s[i]] \ model[n]
    BY <1>2, <1>3, <1>4 DEF TakePull, PullArgument, She
  <2>2. model[s[i]] \ model[n] \in SUBSET Update
    BY <1>5 DEF Know, KnowTypes
  <2> QED BY <1>1, <2>1, <2>2
<1>7. /\ her' \in [Node -> [Thread -> SUBSET Update]] /\ her'[n][t] = h
      /\ \A m \in Node, r \in Thread : m # n \/ r # t => her'[m][r] = her[m][r]
  BY <1>6 DEF Know, KnowTypes
<1>8. KnowTypes'
  BY <1>1, <1>7 DEF Know, KnowTypes, Serving
<1>9. /\ pc'[n][t] = "argument"
      /\ \A m \in Node, r \in Thread : m # n \/ r # t => pc'[m][r] = pc[m][r]
  BY <1>1, GotoTyped DEF IInv, Locations
<1>10. ASSUME ~excused[n], NEW u \in Missing(n)
       PROVE  u \in h \/ Tellers(n, u) \cap Range(Tail(d)) # {}
  <2>1. PICK j \in Tellers(n, u) : j \in Range(d)
    BY <1>1, <1>2, <1>10 DEF Know, OnTheWay, Way
  <2>2. CASE j = i
    <3>1. u \in model[s[i]]
      BY <1>3, <1>4, <2>1, <2>2 DEF Tellers, Tells
    <3> QED BY <1>6, <1>10, <3>1 DEF Missing
  <2>3. CASE j # i
    BY <1>2, <1>4, <2>1, <2>3, RangeHeadTail
  <2> QED BY <2>2, <2>3
<1>11. Missing(n)' = Missing(n)
  BY <1>1 DEF Missing
<1>12. \A u \in Missing(n) : Tellers(n, u) \subseteq Tellers(n, u)'
  BY <1>1, TellersGrow DEF Know
<1>13. ~excused'[n] => Way(n, t)'
  BY <1>1, <1>2, <1>7, <1>9, <1>10, <1>11, <1>12 DEF Way, At
<1> QED BY <1>1, <1>2, <1>7, <1>8, <1>9, <1>13, ThreadStep

(* GetPullArgument: n still has what it has pulled. *)
LEMMA GetPullArgumentKnow ==
  ASSUME IInv, Know, NEW n \in Node, NEW t \in Thread, GetPullArgument(n, t)
  PROVE  Know'
<1>1. /\ At(n, t, "argument") /\ Reaches(n, t) /\ Goto(n, t, "push")
      /\ mine' = [mine EXCEPT ![n][t] = TakePull(n, PullArgument(She(n, t)))]
      /\ UNCHANGED <<proc, nodes, actives, model, servers, todo, her, owed, excused>>
  BY DEF GetPullArgument, life
<1>2. KnowTypes'
  <2>1. TakePull(n, PullArgument(She(n, t))) \in SUBSET Update
    BY DEF Know, KnowTypes, TakePull
  <2>2. mine' \in [Node -> [Thread -> SUBSET Update]]
    BY <1>1, <2>1 DEF Know, KnowTypes
  <2> QED BY <1>1, <2>2 DEF Know, KnowTypes, Serving
<1>3. /\ pc'[n][t] = "push"
      /\ \A m \in Node, r \in Thread : m # n \/ r # t => pc'[m][r] = pc[m][r]
  BY <1>1, GotoTyped DEF IInv, Locations
<1>4. PICK d, h : d = todo[n][t] /\ d = todo'[n][t] /\ d # <<>> /\ h = her[n][t] /\ h = her'[n][t]
  BY <1>1 DEF Reaches, HasShe
<1>5. ~excused[n] => \A u \in Missing(n) : u \in h \/ Tellers(n, u) \cap Range(Tail(d)) # {}
  BY <1>1, <1>4 DEF Know, OnTheWay, Way, At
<1>6. Missing(n)' = Missing(n)
  BY <1>1 DEF Missing
<1>7. \A u \in Missing(n) : Tellers(n, u) \subseteq Tellers(n, u)'
  BY <1>1, TellersGrow DEF Know
<1>8. ~excused'[n] => Way(n, t)'
  BY <1>1, <1>3, <1>4, <1>5, <1>6, <1>7 DEF Way, At
<1> QED BY <1>1, <1>2, <1>3, <1>4, <1>8, ThreadStep

(* Push: she learns, and nobody else forgets. *)
LEMMA PushKnow ==
  ASSUME IInv, Know, NEW n \in Node, NEW t \in Thread, Push(n, t)
  PROVE  Know'
<1>1. /\ At(n, t, "push") /\ Reaches(n, t) /\ Goto(n, t, "merge")
      /\ TakePush(She(n, t), mine[n][t])
      /\ UNCHANGED <<proc, nodes, actives, servers, todo, her, mine, owed, excused>>
  BY DEF Push, life, walk
<1>2. PICK q \in Node : Serving(q) /\ model' = [model EXCEPT ![q] = @ \cup mine[n][t]]
  <2>1. She(n, t) \in Node
    BY <1>1 DEF Know, KnowTypes, Reaches, HasShe, She
  <2> QED BY <1>1, <2>1 DEF Reaches, TakePush
<1>3. /\ model' \in [Node -> SUBSET Update] /\ \A m \in Node : model[m] \subseteq model'[m]
      /\ \A m \in Node : m # q => model'[m] = model[m]
  BY <1>2 DEF Know, KnowTypes
<1>4. KnowTypes'
  BY <1>1, <1>2, <1>3 DEF Know, KnowTypes, Serving
<1>5. /\ pc'[n][t] = "merge"
      /\ \A m \in Node, r \in Thread : m # n \/ r # t => pc'[m][r] = pc[m][r]
  BY <1>1, GotoTyped DEF IInv, Locations
<1>6. PICK d, h : d = todo[n][t] /\ d = todo'[n][t] /\ d # <<>> /\ h = her[n][t] /\ h = her'[n][t]
  BY <1>1 DEF Reaches, HasShe
<1>7. ~excused[n] => \A u \in Missing(n) : u \in h \/ Tellers(n, u) \cap Range(Tail(d)) # {}
  BY <1>1, <1>6 DEF Know, OnTheWay, Way, At
<1>8. Missing(n)' \subseteq Missing(n)
  BY <1>1, <1>3 DEF Missing
<1>9. \A u \in Missing(n) : Tellers(n, u) \subseteq Tellers(n, u)'
  BY <1>1, <1>3, TellersGrow DEF Know
<1>10. ~excused'[n] => Way(n, t)'
  BY <1>1, <1>5, <1>6, <1>7, <1>8, <1>9 DEF Way, At
<1> QED BY <1>1, <1>3, <1>4, <1>5, <1>6, <1>10, ThreadStep

(* Going on to the next peer. *)
LEMMA NextPeerIs ==
  ASSUME IInv, KnowTypes, NEW n \in Node, NEW t \in Thread, todo[n][t] # <<>>, NextPeer(n, t)
  PROVE  /\ todo' \in [Node -> [Thread -> Seq(Nat)]]
         /\ her' \in [Node -> [Thread -> SUBSET Update]]
         /\ mine' \in [Node -> [Thread -> SUBSET Update]]
         /\ todo'[n][t] = Tail(todo[n][t])
         /\ \A m \in Node, r \in Thread : m # n \/ r # t =>
              pc'[m][r] = pc[m][r] /\ todo'[m][r] = todo[m][r] /\ her'[m][r] = her[m][r]
         /\ \/ pc'[n][t] = "flag" /\ Range(todo'[n][t]) = {}
            \/ pc'[n][t] = "pull" /\ todo'[n][t] # <<>>
<1>1. PICK d \in Seq(Nat) : d = todo[n][t] /\ d # <<>>
  BY DEF KnowTypes
<1>2. Tail(d) \in Seq(Nat) /\ Len(Tail(d)) = Len(d) - 1 /\ Len(d) \in Nat
  BY <1>1, HeadTailProperties, LenProperties
<1>3. todo' = [todo EXCEPT ![n][t] = Tail(d)]
  BY <1>1 DEF NextPeer, KnowTypes
<1>4. /\ todo' \in [Node -> [Thread -> Seq(Nat)]] /\ todo'[n][t] = Tail(d)
      /\ \A m \in Node, r \in Thread : m # n \/ r # t => todo'[m][r] = todo[m][r]
  BY <1>2, <1>3 DEF KnowTypes
<1>5. her' = [her EXCEPT ![n][t] = {}] /\ mine' = [mine EXCEPT ![n][t] = {}]
  BY DEF NextPeer
<1>6. /\ her' \in [Node -> [Thread -> SUBSET Update]]
      /\ \A m \in Node, r \in Thread : m # n \/ r # t => her'[m][r] = her[m][r]
  BY <1>5 DEF KnowTypes
<1>7. mine' \in [Node -> [Thread -> SUBSET Update]]
  BY <1>5 DEF KnowTypes
<1>8. PICK l \in {"flag", "pull"} : Goto(n, t, l) /\ (l = "flag" <=> Len(d) = 1)
  BY <1>1 DEF NextPeer
<1>9. /\ pc'[n][t] = l
      /\ \A m \in Node, r \in Thread : m # n \/ r # t => pc'[m][r] = pc[m][r]
  BY <1>8, GotoTyped DEF IInv, Locations
<1>10. CASE l = "flag"
  <2>1. Len(Tail(d)) = 0
    <3>1. Len(d) = 1
      BY <1>8, <1>10
    <3>2. Len(d) - 1 = 0
      BY <3>1
    <3> QED BY <1>2, <3>2
  <2>2. Tail(d) = <<>>
    BY <1>2, <2>1, EmptySeq
  <2>3. Range(Tail(d)) = {}
    BY <2>2 DEF Range
  <2> QED BY <1>1, <1>4, <1>6, <1>7, <1>9, <1>10, <2>3
<1>11. CASE l = "pull"
  <2>1. Len(Tail(d)) # 0
    BY <1>1, <1>2, <1>8, <1>11, EmptySeq
  <2>2. Tail(d) # <<>>
    <3>1. Len(<<>>) = 0
      OBVIOUS
    <3> QED BY <2>1, <3>1
  <2> QED BY <1>1, <1>4, <1>6, <1>7, <1>9, <1>11, <2>2
<1> QED BY <1>8, <1>10, <1>11

(* PushMine: what was pulled is learned. *)
LEMMA PushMineKnow ==
  ASSUME IInv, Know, NEW n \in Node, NEW t \in Thread, PushMine(n, t)
  PROVE  Know'
<1>1. /\ At(n, t, "merge") /\ NextPeer(n, t)
      /\ model' = [model EXCEPT ![n] = @ \cup her[n][t]]
      /\ UNCHANGED <<proc, nodes, actives, servers, owed, excused>>
  BY DEF PushMine, TakePush, life
<1>2. KnowTypes /\ todo[n][t] # <<>> /\ Serving(n)
  <2>1. ~At(n, t, "idle")
    BY <1>1 DEF At
  <2>2. todo[n][t] # <<>>
    BY <1>1 DEF Know, HasPeers, Exchanging, At
  <2> QED BY <2>1, <2>2, ThreadsRun DEF Know
<1>3. /\ model' \in [Node -> SUBSET Update] /\ \A m \in Node : model[m] \subseteq model'[m]
      /\ \A m \in Node : m # n => model'[m] = model[m]
      /\ model'[n] = model[n] \cup her[n][t]
  <2>1. PICK h \in SUBSET Update : h = her[n][t]
    BY <1>2 DEF KnowTypes
  <2> QED BY <1>1, <1>2, <2>1 DEF KnowTypes
<1>4. /\ todo' \in [Node -> [Thread -> Seq(Nat)]]
      /\ her' \in [Node -> [Thread -> SUBSET Update]]
      /\ mine' \in [Node -> [Thread -> SUBSET Update]]
      /\ todo'[n][t] = Tail(todo[n][t])
      /\ \A m \in Node, r \in Thread : m # n \/ r # t =>
           pc'[m][r] = pc[m][r] /\ todo'[m][r] = todo[m][r] /\ her'[m][r] = her[m][r]
      /\ \/ pc'[n][t] = "flag" /\ Range(todo'[n][t]) = {}
         \/ pc'[n][t] = "pull" /\ todo'[n][t] # <<>>
  BY <1>1, <1>2, NextPeerIs
<1>5. KnowTypes'
  BY <1>1, <1>2, <1>3, <1>4 DEF KnowTypes, Serving
<1>6. ASSUME ~excused[n] PROVE Way(n, t)'
  <2>1. PICK e, h : e = Tail(todo[n][t]) /\ e = todo'[n][t] /\ h = her[n][t]
    BY <1>4
  <2>2. \A u \in Missing(n) : u \in h \/ Tellers(n, u) \cap Range(e) # {}
    BY <1>1, <1>6, <2>1 DEF Know, OnTheWay, Way, At
  <2>3. Missing(n)' \subseteq Missing(n) \ h
    BY <1>1, <1>3, <2>1 DEF Missing
  <2>4. \A u \in Missing(n) : Tellers(n, u) \subseteq Tellers(n, u)'
    BY <1>1, <1>2, <1>3, TellersGrow
  <2> QED BY <1>4, <2>1, <2>2, <2>3, <2>4 DEF Way, At
<1>7. Exchanging(n, t)' => todo'[n][t] # <<>>
  BY <1>4 DEF Exchanging
<1>8. UNCHANGED <<proc, nodes, actives, servers>>
  BY <1>1
<1>9. \A m \in Node :
        /\ model[m] \subseteq model'[m]
        /\ owed'[m] \subseteq owed[m]
        /\ excused[m] => excused'[m]
  BY <1>1, <1>3
<1>10. \A m \in Node, s \in Thread : m # n \/ s # t =>
         pc'[m][s] = pc[m][s] /\ todo'[m][s] = todo[m][s] /\ her'[m][s] = her[m][s]
  BY <1>4
<1>11. ~excused'[n] => Way(n, t)'
  BY <1>1, <1>6
<1> QED BY <1>5, <1>7, <1>8, <1>9, <1>10, <1>11, ThreadStep

(* CallFails: who has not reached everybody is excused. *)
LEMMA CallFailsKnow ==
  ASSUME IInv, Know, NEW n \in Node, NEW t \in Thread, CallFails(n, t)
  PROVE  Know'
<1>1. /\ pc[n][t] \in {"pull", "argument", "push"}
      /\ NextPeer(n, t) \/ (Drop(n, t) /\ Goto(n, t, Returned(t)))
      /\ excused' = [excused EXCEPT ![n] = TRUE]
      /\ UNCHANGED <<proc, nodes, actives, servers, owed>>
  BY DEF CallFails, life
<1>2. KnowTypes /\ todo[n][t] # <<>>
  BY <1>1 DEF Know, HasPeers, Exchanging
<1>3. \/ model' = model
      \/ \E q \in Node : Serving(q) /\ model' = [model EXCEPT ![q] = @ \cup mine[n][t]]
  <2>1. Reaches(n, t) => She(n, t) \in Node /\ Serving(She(n, t))
    BY <1>2 DEF KnowTypes, Reaches, HasShe, She
  <2>2. CASE ~Reaches(n, t) /\ UNCHANGED <<model, left>>
    BY <2>2
  <2>3. CASE Reaches(n, t) /\ (UNCHANGED model \/ TakePush(She(n, t), mine[n][t]))
    BY <2>1, <2>3 DEF TakePush
  <2> QED BY <2>2, <2>3 DEF CallFails
<1>4. /\ model' \in [Node -> SUBSET Update] /\ \A m \in Node : model[m] \subseteq model'[m]
      /\ \A m \in Node : ~Serving(m) => model'[m] = model[m]
  <2>1. mine[n][t] \in SUBSET Update /\ model \in [Node -> SUBSET Update]
    BY <1>2 DEF KnowTypes
  <2>2. ASSUME NEW q \in Node, Serving(q), NEW g \in SUBSET Update,
               model' = [model EXCEPT ![q] = @ \cup g]
        PROVE  /\ model' \in [Node -> SUBSET Update]
               /\ \A m \in Node : model[m] \subseteq model'[m]
               /\ \A m \in Node : ~Serving(m) => model'[m] = model[m]
    BY <2>1, <2>2
  <2> QED BY <1>3, <2>1, <2>2
<1>5. /\ todo' \in [Node -> [Thread -> Seq(Nat)]]
      /\ her' \in [Node -> [Thread -> SUBSET Update]]
      /\ mine' \in [Node -> [Thread -> SUBSET Update]]
      /\ \A m \in Node, r \in Thread : m # n \/ r # t =>
           pc'[m][r] = pc[m][r] /\ todo'[m][r] = todo[m][r] /\ her'[m][r] = her[m][r]
      /\ Exchanging(n, t)' => todo'[n][t] # <<>>
  <2>1. CASE NextPeer(n, t)
    BY <1>2, <2>1, NextPeerIs DEF Exchanging
  <2>2. CASE Drop(n, t) /\ Goto(n, t, Returned(t))
    <3>1. her' = [her EXCEPT ![n][t] = {}] /\ mine' = [mine EXCEPT ![n][t] = {}]
      BY <2>2 DEF Drop
    <3>2. todo' = [todo EXCEPT ![n][t] = <<>>]
      BY <2>2 DEF Drop
    <3>3. /\ todo' \in [Node -> [Thread -> Seq(Nat)]]
          /\ \A m \in Node, r \in Thread : m # n \/ r # t => todo'[m][r] = todo[m][r]
      BY <1>2, <3>2 DEF KnowTypes
    <3>4. /\ her' \in [Node -> [Thread -> SUBSET Update]]
          /\ mine' \in [Node -> [Thread -> SUBSET Update]]
          /\ \A m \in Node, r \in Thread : m # n \/ r # t => her'[m][r] = her[m][r]
      BY <1>2, <3>1 DEF KnowTypes
    <3>5. PICK l \in {"serve", "idle"} : Goto(n, t, l)
      BY <2>2 DEF Returned
    <3>6. /\ pc'[n][t] = l
          /\ \A m \in Node, r \in Thread : m # n \/ r # t => pc'[m][r] = pc[m][r]
      BY <3>5, GotoTyped DEF IInv, Locations
    <3> QED BY <3>3, <3>4, <3>5, <3>6 DEF Exchanging
  <2> QED BY <1>1, <2>1, <2>2
<1>6. /\ excused' \in [Node -> BOOLEAN] /\ excused'[n]
      /\ \A m \in Node : excused[m] => excused'[m]
  BY <1>1, <1>2 DEF KnowTypes
<1>7. KnowTypes'
  BY <1>1, <1>2, <1>4, <1>5, <1>6 DEF KnowTypes, Serving
<1> QED BY <1>1, <1>4, <1>5, <1>6, <1>7, ThreadStep

(* Steps of a thread that leave the walks and the models alone, to a place *)
(* where nothing is missing.                                               *)
LEMMA LeavesWalk ==
  ASSUME IInv, Know, NEW n \in Node, NEW t \in Thread, NEW l \in Locations,
         ~Exchanging(n, t)', Goto(n, t, l),
         UNCHANGED <<proc, nodes, actives, model, servers, todo, her, mine, excused>>,
         owed' \in [Node -> SUBSET Update],
         \A m \in Node : owed'[m] \subseteq owed[m],
         l \notin {"choose", "pull", "argument", "push", "merge"},
         ~excused[n] /\ l \in {"flag", "register"} => Missing(n) = {}
  PROVE  Know'
<1>1. KnowTypes'
  BY DEF Know, KnowTypes, Serving
<1>2. /\ pc'[n][t] = l
      /\ \A m \in Node, s \in Thread : m # n \/ s # t =>
           pc'[m][s] = pc[m][s] /\ todo'[m][s] = todo[m][s] /\ her'[m][s] = her[m][s]
  BY GotoTyped DEF IInv
<1>3. Missing(n)' \subseteq Missing(n)
  BY DEF Missing
<1>4. ~excused'[n] => Way(n, t)'
  BY <1>2, <1>3 DEF Way, At
<1>5. \A m \in Node :
        /\ model[m] \subseteq model'[m]
        /\ owed'[m] \subseteq owed[m]
        /\ excused[m] => excused'[m]
  OBVIOUS
<1>6. Exchanging(n, t)' => todo'[n][t] # <<>>
  OBVIOUS
<1> QED BY <1>1, <1>2, <1>4, <1>5, <1>6, ThreadStep

(* ReadFlag: what is owed may only shrink. *)
LEMMA ReadFlagKnow ==
  ASSUME IInv, Know, NEW n \in Node, NEW t \in Thread, ReadFlag(n, t)
  PROVE  Know'
<1>1. /\ At(n, t, "flag")
      /\ owed' = IF nodes \subseteq {n} THEN [owed EXCEPT ![n] = {}] ELSE owed
      /\ UNCHANGED <<proc, nodes, actives, model, servers, todo, her, mine, excused>>
  BY DEF ReadFlag, life, walk
<1>2. PICK l \in {"register", "serve", "idle"} : Goto(n, t, l)
  BY DEF ReadFlag, Returned
<1>3. owed' \in [Node -> SUBSET Update] /\ \A m \in Node : owed'[m] \subseteq owed[m]
  BY <1>1 DEF Know, KnowTypes
<1>4. l \in Locations /\ l \notin {"choose", "pull", "argument", "push", "merge"}
  BY <1>2 DEF Locations
<1>5. ~Exchanging(n, t)'
  BY <1>2, <1>4, GotoTyped DEF IInv, Exchanging
<1>6. ~excused[n] => Missing(n) = {}
  BY <1>1 DEF Know, OnTheWay, Way, At
<1> QED BY <1>1, <1>2, <1>3, <1>4, <1>5, <1>6, LeavesWalk

(* ClearFlag, and the steps that set a thread going. *)
LEMMA FlagKnow ==
  ASSUME IInv, Know, NEW n \in Node, NEW t \in Thread, NEW l \in {"members", "serve", "idle"},
         Goto(n, t, l),
         UNCHANGED <<proc, nodes, actives, model, servers, todo, her, mine, owed, excused>>
  PROVE  Know'
<1>1. l \in Locations /\ l \notin {"choose", "pull", "argument", "push", "merge", "flag", "register"}
  BY DEF Locations
<1>2. ~Exchanging(n, t)'
  BY <1>1, GotoTyped DEF IInv, Exchanging
<1>3. owed' \in [Node -> SUBSET Update] /\ \A m \in Node : owed'[m] \subseteq owed[m]
  BY DEF Know, KnowTypes
<1> QED BY <1>1, <1>2, <1>3, LeavesWalk

(* UpdateMembers: who knows what n misses is in the new list, and no other *)
(* thread walks over it, or n is excused.                                  *)
LEMMA UpdateMembersKnow ==
  ASSUME IInv, Know, NEW n \in Node, NEW t \in Thread, UpdateMembers(n, t)
  PROVE  Know'
<1>1. /\ At(n, t, "members")
      /\ Goto(n, t, IF servers'[n] \in {<<>>, <<n>>} THEN "flag" ELSE "choose")
      /\ UNCHANGED <<proc, nodes, actives, model, todo, her, mine, owed>>
  BY DEF UpdateMembers, life, walk
<1>2. IsFiniteSet(nodes) /\ nodes \in SUBSET Nat /\ nodes \subseteq Node
  BY PushAssumption, FS_Subset DEF Know, KnowTypes
<1>3. Ascending(nodes) \in Seq(nodes) /\ Range(Ascending(nodes)) = nodes
  BY <1>2, AscendingIs
<1>4. PICK v \in Seq(Node) :
        /\ servers' = [servers EXCEPT ![n] = v]
        /\ \/ Range(v) = nodes /\ excused' = [excused EXCEPT ![n] = @ \/ Walking(n) # {}]
           \/ excused' = [excused EXCEPT ![n] = TRUE]
  <2>1. Ascending(nodes) \in Seq(Node) /\ <<>> \in Seq(Node)
    <3>1. \A D \in SUBSET Node : Seq(D) \subseteq Seq(Node)
      OBVIOUS
    <3>2. Seq(nodes) \subseteq Seq(Node)
      BY <1>2, <3>1
    <3> QED BY <1>3, <3>2
  <2>2. \/ /\ servers' = [servers EXCEPT ![n] = Ascending(nodes)]
           /\ excused' = [excused EXCEPT ![n] = @ \/ Walking(n) # {}]
        \/ servers' = [servers EXCEPT ![n] = <<>>] /\ excused' = [excused EXCEPT ![n] = TRUE]
    BY DEF UpdateMembers
  <2> QED BY <1>3, <2>1, <2>2
<1>5. /\ servers' \in [Node -> Seq(Node)] /\ servers'[n] = v
      /\ \A m \in Node : m # n => servers'[m] = servers[m]
  BY <1>4 DEF Know, KnowTypes
<1>6. /\ excused' \in [Node -> BOOLEAN]
      /\ \A m \in Node : m # n => excused'[m] = excused[m]
      /\ ~excused'[n] => ~excused[n] /\ Range(v) = nodes /\ Walking(n) = {}
  BY <1>4 DEF Know, KnowTypes
<1>7. KnowTypes'
  BY <1>1, <1>5, <1>6 DEF Know, KnowTypes, Serving
<1>8. \A m \in Node : Missing(m)' = Missing(m)
  BY <1>1 DEF Missing
<1>9. Held'
  BY <1>1, <1>8 DEF Know, Held
<1>10. PICK l \in {"flag", "choose"} : Goto(n, t, l) /\ (l = "flag" <=> v \in {<<>>, <<n>>})
  BY <1>1, <1>5
<1>11. /\ pc'[n][t] = l
       /\ \A m \in Node, s \in Thread : m # n \/ s # t => pc'[m][s] = pc[m][s]
  BY <1>10, GotoTyped DEF IInv, Locations
<1>12. HasPeers'
  BY <1>1, <1>10, <1>11 DEF Know, HasPeers, Exchanging
<1>13. ASSUME NEW u \in Missing(n), ~excused'[n] PROVE l = "choose" /\ Tellers(n, u)' # {}
  <2>1. PICK q \in nodes \ {n} : u \in model[q]
    BY <1>13 DEF Know, Held
  <2>2. q \in Range(v)
    BY <1>6, <1>13, <2>1
  <2>3. PICK i \in 1..Len(v) : v[i] = q
    BY <2>2, SeqRange
  <2>4. v # <<>>
    BY <2>2 DEF Range
  <2>5. v # <<n>>
    <3>1. Range(<<n>>) = {n}
      BY DEF Range
    <3> QED BY <2>1, <2>2, <3>1
  <2>6. Tells(q, u)'
    BY <1>1, <2>1 DEF Tells
  <2>7. i \in Tellers(n, u)'
    BY <1>5, <2>1, <2>3, <2>6 DEF Tellers
  <2> QED BY <1>10, <2>4, <2>5, <2>7
<1>14. OnTheWay'
  <2>1. ASSUME NEW m \in Node, NEW s \in Thread, ~excused'[m], m # n PROVE Way(m, s)'
    <3>1. Way(m, s)
      BY <1>6, <2>1 DEF Know, OnTheWay
    <3>2. \A u : Tellers(m, u) \subseteq Tellers(m, u)'
      BY <1>1, <1>5, <2>1, TellersGrow DEF Know
    <3> QED BY <1>1, <1>5, <1>8, <1>11, <2>1, <3>1, <3>2, WayKept
  <2>2. ASSUME NEW s \in Thread, ~excused'[n], s # t PROVE Way(n, s)'
    <3>1. pc[n][s] \notin {"choose", "pull", "argument", "push", "merge"}
      BY <1>6, <2>2 DEF Walking
    <3>2. pc[n][s] \in {"flag", "register"} => Missing(n) = {}
      BY <1>6, <2>2 DEF Know, OnTheWay, Way
    <3> QED BY <1>8, <1>11, <2>2, <3>1, <3>2 DEF Way, At
  <2>3. ASSUME ~excused'[n] PROVE Way(n, t)'
    <3>1. l = "flag" => Missing(n) = {}
      BY <1>13, <2>3
    <3>2. \A u \in Missing(n) : Tellers(n, u)' # {}
      BY <1>13, <2>3
    <3> QED BY <1>8, <1>10, <1>11, <3>1, <3>2 DEF Way, At
  <2> QED BY <2>1, <2>2, <2>3 DEF OnTheWay
<1>15. Settled'
  <2>1. ASSUME NEW m \in actives, proc[m] = "up", ~excused'[m] PROVE Missing(m)' = {}
    <3>1. m \in Node /\ ~excused[m]
      BY <1>6, <2>1 DEF Know, KnowTypes
    <3> QED BY <1>8, <2>1, <3>1 DEF Know, Settled
  <2> QED BY <1>1, <2>1 DEF Settled
<1> QED BY <1>7, <1>9, <1>12, <1>14, <1>15 DEF Know

(* RegisterActive: who registers has missed nothing. *)
LEMMA RegisterActiveKnow ==
  ASSUME IInv, Know, NEW n \in Node, NEW t \in Thread, RegisterActive(n, t)
  PROVE  Know'
<1>1. /\ At(n, t, "register")
      /\ UNCHANGED <<proc, nodes, model, servers, todo, her, mine, owed, excused>>
      /\ \/ actives' = actives
         \/ proc[n] = "up" /\ actives' = actives \cup {n}
  BY DEF RegisterActive, life, walk
<1>2. PICK l \in {"clear", "thrown", "idle"} : Goto(n, t, l)
  BY DEF RegisterActive, Thrown
<1>3. /\ pc'[n][t] = l
      /\ \A m \in Node, s \in Thread : m # n \/ s # t => pc'[m][s] = pc[m][s]
  BY <1>2, GotoTyped DEF IInv, Locations
<1>4. KnowTypes'
  BY <1>1 DEF Know, KnowTypes, Serving
<1>5. \A m \in Node : Missing(m)' = Missing(m)
  BY <1>1 DEF Missing
<1>6. Held'
  BY <1>1, <1>5 DEF Know, Held
<1>7. HasPeers'
  BY <1>1, <1>2, <1>3 DEF Know, HasPeers, Exchanging
<1>8. OnTheWay'
  <2>1. ASSUME NEW m \in Node, NEW s \in Thread, ~excused[m], m # n \/ s # t PROVE Way(m, s)'
    <3>1. Way(m, s)
      BY <2>1 DEF Know, OnTheWay
    <3>2. \A u : Tellers(m, u) \subseteq Tellers(m, u)'
      BY <1>1, TellersGrow DEF Know
    <3> QED BY <1>1, <1>3, <1>5, <2>1, <3>1, <3>2, WayKept
  <2>2. Way(n, t)'
    BY <1>2, <1>3 DEF Way, At
  <2> QED BY <1>1, <2>1, <2>2 DEF OnTheWay
<1>9. Settled'
  <2>1. ~excused[n] => Missing(n) = {}
    BY <1>1 DEF Know, OnTheWay, Way, At
  <2>2. ASSUME NEW m \in actives', proc[m] = "up", ~excused[m] PROVE Missing(m)' = {}
    <3>1. m \in actives \/ m = n
      BY <1>1
    <3>2. m \in Node
      BY <3>1 DEF Know, KnowTypes
    <3> QED BY <1>5, <2>1, <2>2, <3>1, <3>2 DEF Know, Settled
  <2> QED BY <1>1, <2>2 DEF Settled
<1> QED BY <1>4, <1>6, <1>7, <1>8, <1>9 DEF Know

(* The steps of mix(). *)
LEMMA MixKnow ==
  ASSUME IInv, Know, argv.mixer = "broadcast", NEW n \in Node, NEW t \in Thread, MixStep(n, t)
  PROVE  Know'
<1>1. CASE ClearFlag(n, t)
  <2>1. PICK l \in {"members", "serve", "idle"} : Goto(n, t, l)
    BY <1>1 DEF ClearFlag, Returned
  <2>2. UNCHANGED <<proc, nodes, actives, model, servers, todo, her, mine, owed, excused>>
    BY <1>1 DEF ClearFlag, life, walk
  <2> QED BY <2>1, <2>2, FlagKnow
<1> QED BY <1>1, UpdateMembersKnow, ChooseKnow, PullKnow, GetPullArgumentKnow, PushKnow,
           PushMineKnow, CallFailsKnow, ReadFlagKnow, RegisterActiveKnow DEF MixStep

(* What a client teaches is owed to nobody. *)
LEMMA TrainKnow ==
  ASSUME IInv, Know, NEW n \in Node, NEW u \in Update, Train(n, u)
  PROVE  Know'
<1>1. /\ Serving(n) /\ model' = [model EXCEPT ![n] = @ \cup {u}]
      /\ UNCHANGED <<proc, nodes, actives, servers, pc, todo, her, mine, owed, excused>>
  BY DEF Train, life, walk
<1>2. /\ model' \in [Node -> SUBSET Update]
      /\ \A m \in Node : model[m] \subseteq model'[m] /\ (m # n => model'[m] = model[m])
  BY <1>1 DEF Know, KnowTypes
<1>3. KnowTypes'
  BY <1>1, <1>2 DEF Know, KnowTypes, Serving
<1>4. "main" \in Thread
  BY DEF Thread
<1>5. ~excused'[n] => Way(n, "main")'
  <2>1. ~excused[n] => Way(n, "main")
    BY <1>4 DEF Know, OnTheWay
  <2>2. Missing(n)' \subseteq Missing(n)
    BY <1>1, <1>2 DEF Missing
  <2>3. \A w : Tellers(n, w) \subseteq Tellers(n, w)'
    BY <1>1, <1>2, TellersGrow DEF Know
  <2> QED BY <1>1, <1>4, <2>1, <2>2, <2>3, WayKept
<1>6. Exchanging(n, "main")' => todo'[n]["main"] # <<>>
  BY <1>1, <1>4 DEF Know, HasPeers, Exchanging
<1>7. \A m \in Node :
        /\ model[m] \subseteq model'[m]
        /\ owed'[m] \subseteq owed[m]
        /\ excused[m] => excused'[m]
  BY <1>1, <1>2
<1>8. \A m \in Node, s \in Thread :
        pc'[m][s] = pc[m][s] /\ todo'[m][s] = todo[m][s] /\ her'[m][s] = her[m][s]
  BY <1>1
<1>9. UNCHANGED <<proc, nodes, actives, servers>>
  BY <1>1
<1> QED BY <1>3, <1>4, <1>5, <1>6, <1>7, <1>8, <1>9, ThreadStep

(* Boot: what the server is owed is known to a listed server, which is not *)
(* a dead one; who walks over a list with it on is excused.                *)
LEMMA BootKnow ==
  ASSUME IInv, Know, NEW n \in Node, Boot(n)
  PROVE  Know'
<1>1. /\ proc[n] = "down" /\ n \notin nodes
      /\ proc' = [proc EXCEPT ![n] = "up"] /\ nodes' = nodes \cup {n}
      /\ Goto(n, "main", "members")
      /\ UNCHANGED <<actives, model, servers, todo, her, mine>>
  BY DEF Boot, walk
<1>2. owed' = [owed EXCEPT ![n] =
                 {u \in Update : /\ \E p \in nodes : TRUE
                                 /\ \A p \in nodes : u \in model[p]}]
  BY DEF Boot
<1>3. excused' = [m \in Node |-> excused[m] \/ (Walking(m) # {} /\ n \in Range(servers[m]))]
  BY DEF Boot
<1>4. /\ proc'[n] = "up" /\ \A m \in Node : m # n => proc'[m] = proc[m]
  BY <1>1 DEF IInv, Typed
<1>5. /\ owed' \in [Node -> SUBSET Update]
      /\ \A m \in Node : m # n => owed'[m] = owed[m]
      /\ \A u \in owed'[n] : (\E p \in nodes : TRUE) /\ \A p \in nodes : u \in model[p]
  BY <1>2 DEF Know, KnowTypes
<1>6. /\ excused' \in [Node -> BOOLEAN]
      /\ \A m \in Node : ~excused'[m] =>
           ~excused[m] /\ (Walking(m) = {} \/ n \notin Range(servers[m]))
  BY <1>3 DEF Know, KnowTypes
<1>7. KnowTypes'
  BY <1>1, <1>4, <1>5, <1>6 DEF Know, KnowTypes, Serving
<1>8. /\ \A s \in Thread : pc[n][s] = "idle"
      /\ \A s \in Thread : pc'[n][s] \in {"idle", "members"}
      /\ \A m \in Node, s \in Thread : m # n => pc'[m][s] = pc[m][s]
  <2>1. "main" \in Thread /\ "members" \in Locations
    BY DEF Thread, Locations
  <2>2. \A s \in Thread : pc[n][s] = "idle"
    BY <1>1 DEF IInv, Listed, At
  <2>3. \A m \in Node, s \in Thread :
          pc'[m][s] = IF m = n /\ s = "main" THEN "members" ELSE pc[m][s]
    BY <1>1, <2>1, GotoTyped DEF IInv
  <2> QED BY <2>2, <2>3
<1>9. \A m \in Node : m # n => Missing(m)' = Missing(m)
  BY <1>1, <1>5 DEF Missing
<1>10. Held'
  <2>1. ASSUME NEW u \in Missing(n)'
        PROVE  \E q \in nodes' \ {n} : proc'[q] = "up" /\ u \in model'[q]
    <3>1. u \in owed'[n]
      BY <2>1 DEF Missing
    <3>2. PICK q \in nodes : u \in model[q]
      BY <1>5, <3>1
    <3>3. q \in Node /\ proc[q] \in {"up", "dead"} /\ Serving(q)
      BY <3>2 DEF Know, KnowTypes
    <3>4. q # n /\ proc'[q] = "up"
      BY <1>1, <1>4, <3>2, <3>3 DEF Serving
    <3> QED BY <1>1, <3>2, <3>4
  <2>2. ASSUME NEW m \in Node, m # n, NEW u \in Missing(m)'
        PROVE  \E q \in nodes' \ {m} : proc'[q] = "up" /\ u \in model'[q]
    <3>1. PICK q \in nodes \ {m} : proc[q] = "up" /\ u \in model[q]
      BY <1>9, <2>2 DEF Know, Held
    <3>2. proc'[q] = "up"
      BY <1>1, <1>4, <3>1 DEF Know, KnowTypes
    <3> QED BY <1>1, <3>1, <3>2
  <2> QED BY <2>1, <2>2 DEF Held
<1>11. HasPeers'
  BY <1>1, <1>8 DEF Know, HasPeers, Exchanging
<1>12. OnTheWay'
  <2>1. ASSUME NEW s \in Thread PROVE Way(n, s)'
    BY <1>8 DEF Way, At
  <2>2. ASSUME NEW m \in Node, NEW s \in Thread, m # n, ~excused'[m], Walking(m) = {}
        PROVE  Way(m, s)'
    <3>1. pc[m][s] \notin {"choose", "pull", "argument", "push", "merge"}
      BY <2>2 DEF Walking
    <3>2. pc[m][s] \in {"flag", "register"} => Missing(m) = {}
      BY <1>6, <2>2 DEF Know, OnTheWay, Way
    <3> QED BY <1>8, <1>9, <2>2, <3>1, <3>2 DEF Way, At
  <2>3. ASSUME NEW m \in Node, NEW s \in Thread, m # n, ~excused'[m], n \notin Range(servers[m])
        PROVE  Way(m, s)'
    <3>1. Way(m, s)
      BY <1>6, <2>3 DEF Know, OnTheWay
    <3>2. servers[m] \in Seq(Node)
      BY DEF Know, KnowTypes
    <3>3. \A q \in Range(servers[m]) : q \in Node /\ q # n
      BY <2>3, <3>2, SeqRange
    <3>4. \A u : \A q \in Range(servers[m]) : Tells(q, u) => Tells(q, u)'
      BY <1>1, <1>4, <3>3 DEF Tells, Serving
    <3>5. \A u : Tellers(m, u) \subseteq Tellers(m, u)'
      BY <1>1, <3>2, <3>4, TellersKept
    <3> QED BY <1>1, <1>8, <1>9, <2>3, <3>1, <3>5, WayKept
  <2> QED BY <1>6, <2>1, <2>2, <2>3 DEF OnTheWay
<1>13. Settled'
  <2>1. ASSUME NEW m \in actives, proc'[m] = "up", ~excused'[m] PROVE Missing(m)' = {}
    <3>1. m \in Node /\ m # n
      BY <1>1 DEF Know, KnowTypes
    <3> QED BY <1>4, <1>6, <1>9, <2>1, <3>1 DEF Know, Settled
  <2> QED BY <1>1, <2>1 DEF Settled
<1> QED BY <1>7, <1>10, <1>11, <1>12, <1>13 DEF Know

(* What is owed when n is gone is known to another that runs. *)
LEMMA GoneHeld ==
  ASSUME Know, NEW n \in Node, Gone(n)
  PROVE  /\ owed' \in [Node -> SUBSET Update] /\ owed'[n] = {}
         /\ \A m \in Node : owed'[m] \subseteq owed[m]
         /\ \A m \in Node, u \in Update : m # n /\ u \in owed'[m] /\ u \notin model[m] =>
              \E q \in nodes \ {m, n} : proc[q] = "up" /\ u \in model[q]
<1>1. owed' = [m \in Node |->
                 IF m = n THEN {}
                 ELSE owed[m] \cap (model[m] \cup
                        UNION {model[p] : p \in {q \in nodes \ {m, n} : proc[q] = "up"}})]
  BY DEF Gone
<1>2. owed \in [Node -> SUBSET Update]
  BY DEF Know, KnowTypes
<1> QED BY <1>1, <1>2

(* The end of a process: the other servers are as before, and nothing is   *)
(* owed to it.                                                             *)
LEMMA ExitKnow ==
  ASSUME IInv, Know, NEW n \in Node, Serving(n), Exit(n)
  PROVE  Know'
<1>1. /\ proc' = [proc EXCEPT ![n] = IF proc[n] = "up" THEN "dead" ELSE "down"]
      /\ model' = [model EXCEPT ![n] = {}] /\ servers' = [servers EXCEPT ![n] = <<>>]
      /\ pc' = [pc EXCEPT ![n] = Idle]
      /\ todo' = [todo EXCEPT ![n] = [t \in Thread |-> <<>>]]
      /\ her' = [her EXCEPT ![n] = Nothing] /\ mine' = [mine EXCEPT ![n] = Nothing]
      /\ excused' = [excused EXCEPT ![n] = FALSE]
      /\ UNCHANGED <<nodes, actives>> /\ Gone(n)
  BY DEF Exit
<1>2. /\ owed' \in [Node -> SUBSET Update] /\ owed'[n] = {}
      /\ \A m \in Node : owed'[m] \subseteq owed[m]
      /\ \A m \in Node, u \in Update : m # n /\ u \in owed'[m] /\ u \notin model[m] =>
           \E q \in nodes \ {m, n} : proc[q] = "up" /\ u \in model[q]
  BY <1>1, GoneHeld
<1>3. /\ proc'[n] \in {"dead", "down"} /\ (proc[n] = "up" <=> proc'[n] = "dead")
      /\ \A m \in Node : m # n => proc'[m] = proc[m]
  BY <1>1 DEF IInv, Typed
<1>4. /\ model' \in [Node -> SUBSET Update] /\ model'[n] = {}
      /\ \A m \in Node : m # n => model'[m] = model[m]
  BY <1>1 DEF Know, KnowTypes
<1>5. /\ servers' \in [Node -> Seq(Node)] /\ \A m \in Node : m # n => servers'[m] = servers[m]
  BY <1>1 DEF Know, KnowTypes
<1>6. /\ todo' \in [Node -> [Thread -> Seq(Nat)]]
      /\ \A m \in Node : m # n => todo'[m] = todo[m]
  BY <1>1 DEF Know, KnowTypes
<1>7. /\ her' \in [Node -> [Thread -> SUBSET Update]]
      /\ mine' \in [Node -> [Thread -> SUBSET Update]]
      /\ \A m \in Node : m # n => her'[m] = her[m]
  BY <1>1 DEF Know, KnowTypes, Nothing
<1>8. /\ excused' \in [Node -> BOOLEAN] /\ \A m \in Node : m # n => excused'[m] = excused[m]
  BY <1>1 DEF Know, KnowTypes
<1>9. /\ \A s \in Thread : pc'[n][s] = "idle"
      /\ \A m \in Node : m # n => pc'[m] = pc[m]
  BY <1>1 DEF IInv, Typed, Idle
<1>10. KnowTypes'
  <2>1. n \in nodes <=> proc'[n] \in {"up", "dead"}
    BY <1>3 DEF Know, KnowTypes, Serving
  <2> QED BY <1>1, <1>2, <1>3, <1>4, <1>5, <1>6, <1>7, <1>8, <2>1 DEF Know, KnowTypes, Serving
<1>11. Missing(n)' = {} /\ \A m \in Node : m # n => Missing(m)' \subseteq Missing(m)
  BY <1>2, <1>4 DEF Missing
<1>12. Held'
  <2>1. ASSUME NEW m \in Node, m # n, NEW u \in Missing(m)'
        PROVE  \E q \in nodes \ {m} : proc'[q] = "up" /\ u \in model'[q]
    <3>1. u \in Update /\ u \in owed'[m] /\ u \notin model[m]
      BY <1>2, <1>4, <2>1 DEF Missing
    <3>2. PICK q \in nodes \ {m, n} : proc[q] = "up" /\ u \in model[q]
      BY <1>2, <2>1, <3>1
    <3>3. q \in Node
      BY <3>2 DEF Know, KnowTypes
    <3> QED BY <1>3, <1>4, <3>2, <3>3
  <2> QED BY <1>1, <1>11, <2>1 DEF Held
<1>13. HasPeers'
  BY <1>6, <1>9 DEF Know, HasPeers, Exchanging
<1>14. OnTheWay'
  <2>1. ASSUME NEW s \in Thread PROVE Way(n, s)'
    BY <1>9 DEF Way, At
  <2>2. ASSUME NEW m \in Node, NEW s \in Thread, m # n, ~excused'[m] PROVE Way(m, s)'
    <3>1. Way(m, s)
      BY <1>8, <2>2 DEF Know, OnTheWay
    <3>2. servers[m] \in Seq(Node)
      BY DEF Know, KnowTypes
    <3>3. \A q \in Range(servers[m]) : q \in Node
      BY <3>2, SeqRange
    <3>4. \A u : \A q \in Range(servers[m]) : Tells(q, u) => Tells(q, u)'
      BY <1>3, <1>4, <3>3 DEF Tells, Serving
    <3>5. \A u : Tellers(m, u) \subseteq Tellers(m, u)'
      BY <1>5, <2>2, <3>2, <3>4, TellersKept
    <3> QED BY <1>5, <1>6, <1>7, <1>9, <1>11, <2>2, <3>1, <3>5, WayKept
  <2> QED BY <2>1, <2>2 DEF OnTheWay
<1>15. Settled'
  <2>1. ASSUME NEW m \in actives, proc'[m] = "up", ~excused'[m] PROVE Missing(m)' = {}
    <3>1. m \in Node /\ m # n
      BY <1>3, <2>1 DEF Know, KnowTypes
    <3> QED BY <1>3, <1>8, <1>11, <2>1, <3>1 DEF Know, Settled
  <2> QED BY <1>1, <2>1 DEF Settled
<1> QED BY <1>10, <1>12, <1>13, <1>14, <1>15 DEF Know

(* The session of a dead server ends: whoever knows more runs. *)
LEMMA TimeoutKnow ==
  ASSUME IInv, Know, NEW n \in Node, SessionTimeout(n)
  PROVE  Know'
<1>1. /\ proc[n] = "dead" /\ proc' = [proc EXCEPT ![n] = "down"]
      /\ nodes' = nodes \ {n} /\ actives' = actives \ {n}
      /\ UNCHANGED <<model, servers, pc, todo, her, mine, owed, excused>>
  BY DEF SessionTimeout, walk
<1>2. proc'[n] = "down" /\ \A m \in Node : m # n => proc'[m] = proc[m]
  BY <1>1 DEF IInv, Typed
<1>3. KnowTypes'
  BY <1>1, <1>2 DEF Know, KnowTypes, Serving
<1>4. \A m \in Node : Missing(m)' = Missing(m)
  BY <1>1 DEF Missing
<1>5. Held'
  <2>1. ASSUME NEW m \in Node, NEW u \in Missing(m)'
        PROVE  \E q \in nodes' \ {m} : proc'[q] = "up" /\ u \in model'[q]
    <3>1. PICK q \in nodes \ {m} : proc[q] = "up" /\ u \in model[q]
      BY <1>4, <2>1 DEF Know, Held
    <3>2. q \in Node /\ q # n
      BY <1>1, <3>1 DEF Know, KnowTypes
    <3> QED BY <1>1, <1>2, <3>1, <3>2
  <2> QED BY <2>1 DEF Held
<1>6. HasPeers'
  BY <1>1 DEF Know, HasPeers, Exchanging
<1>7. \A q \in Node : \A u : Tells(q, u) => Tells(q, u)'
  BY <1>1, <1>2 DEF Tells, Serving
<1>8. OnTheWay'
  <2>1. ASSUME NEW m \in Node, NEW s \in Thread, ~excused[m] PROVE Way(m, s)'
    <3>1. Way(m, s)
      BY <2>1 DEF Know, OnTheWay
    <3>2. servers[m] \in Seq(Node)
      BY DEF Know, KnowTypes
    <3>3. \A q \in Range(servers[m]) : q \in Node
      BY <3>2, SeqRange
    <3>4. \A u : Tellers(m, u) \subseteq Tellers(m, u)'
      BY <1>1, <1>7, <3>2, <3>3, TellersKept
    <3> QED BY <1>1, <1>4, <3>1, <3>4, WayKept
  <2> QED BY <1>1, <2>1 DEF OnTheWay
<1>9. Settled'
  <2>1. ASSUME NEW m \in actives', proc'[m] = "up", ~excused[m] PROVE Missing(m)' = {}
    <3>1. m \in Node /\ m # n /\ m \in actives
      BY <1>1, <2>1 DEF Know, KnowTypes
    <3> QED BY <1>2, <1>4, <2>1, <3>1 DEF Know, Settled
  <2> QED BY <1>1, <2>1 DEF Settled
<1> QED BY <1>3, <1>5, <1>6, <1>8, <1>9 DEF Know

(* The session is closed: the server still answers. *)
LEMMA LeaveKnow ==
  ASSUME IInv, Know, NEW n \in Node, Leave(n)
  PROVE  Know'
<1>1. /\ proc[n] = "up" /\ proc' = [proc EXCEPT ![n] = "cut"]
      /\ nodes' = nodes \ {n} /\ actives' = actives \ {n} /\ Gone(n)
      /\ UNCHANGED <<model, servers, pc, todo, her, mine, excused>>
  BY DEF Leave, walk
<1>2. /\ owed' \in [Node -> SUBSET Update] /\ owed'[n] = {}
      /\ \A m \in Node : owed'[m] \subseteq owed[m]
      /\ \A m \in Node, u \in Update : m # n /\ u \in owed'[m] /\ u \notin model[m] =>
           \E q \in nodes \ {m, n} : proc[q] = "up" /\ u \in model[q]
  BY <1>1, GoneHeld
<1>3. proc'[n] = "cut" /\ \A m \in Node : m # n => proc'[m] = proc[m]
  BY <1>1 DEF IInv, Typed
<1>4. KnowTypes'
  BY <1>1, <1>2, <1>3 DEF Know, KnowTypes, Serving
<1>5. Missing(n)' = {} /\ \A m \in Node : Missing(m)' \subseteq Missing(m)
  BY <1>1, <1>2 DEF Missing
<1>6. Held'
  <2>1. ASSUME NEW m \in Node, m # n, NEW u \in Missing(m)'
        PROVE  \E q \in nodes' \ {m} : proc'[q] = "up" /\ u \in model'[q]
    <3>1. u \in Update /\ u \in owed'[m] /\ u \notin model[m]
      BY <1>1, <1>2, <2>1 DEF Missing
    <3>2. PICK q \in nodes \ {m, n} : proc[q] = "up" /\ u \in model[q]
      BY <1>2, <2>1, <3>1
    <3>3. q \in Node
      BY <3>2 DEF Know, KnowTypes
    <3> QED BY <1>1, <1>3, <3>2, <3>3
  <2> QED BY <1>5, <2>1 DEF Held
<1>7. HasPeers'
  BY <1>1 DEF Know, HasPeers, Exchanging
<1>8. \A q \in Node : \A u : Tells(q, u) => Tells(q, u)'
  BY <1>1, <1>3 DEF Tells, Serving
<1>9. OnTheWay'
  <2>1. ASSUME NEW m \in Node, NEW s \in Thread, ~excused[m] PROVE Way(m, s)'
    <3>1. Way(m, s)
      BY <2>1 DEF Know, OnTheWay
    <3>2. servers[m] \in Seq(Node)
      BY DEF Know, KnowTypes
    <3>3. \A q \in Range(servers[m]) : q \in Node
      BY <3>2, SeqRange
    <3>4. \A u : Tellers(m, u) \subseteq Tellers(m, u)'
      BY <1>1, <1>8, <3>2, <3>3, TellersKept
    <3> QED BY <1>1, <1>5, <3>1, <3>4, WayKept
  <2> QED BY <1>1, <2>1 DEF OnTheWay
<1>10. Settled'
  <2>1. ASSUME NEW m \in actives', proc'[m] = "up", ~excused[m] PROVE Missing(m)' = {}
    <3>1. m \in Node /\ m # n /\ m \in actives
      BY <1>1, <2>1 DEF Know, KnowTypes
    <3> QED BY <1>3, <1>5, <2>1, <3>1 DEF Know, Settled
  <2> QED BY <1>1, <2>1 DEF Settled
<1> QED BY <1>4, <1>6, <1>7, <1>9, <1>10 DEF Know

(* A cluster starts with nothing owed. *)
LEMMA InitKnow == Init => Know
<1>1. SUFFICES ASSUME Init PROVE Know
  OBVIOUS
<1>2. PICK sc \in Scenarios :
        /\ proc = [n \in Node |-> IF n \in sc.running THEN "up"
                                ELSE IF n \in sc.joining THEN "down" ELSE "off"]
        /\ nodes = sc.running /\ actives = sc.running
        /\ model = [n \in Node |-> IF n \in sc.running THEN sc.known ELSE {}]
        /\ pc = [n \in Node |->
                   [Idle EXCEPT !["main"] = IF n \in sc.running THEN "serve" ELSE "idle"]]
  BY <1>1 DEF Init
<1>3. PICK running \in SUBSET Node, known \in SUBSET Update :
        running = sc.running /\ known = sc.known
  BY ScenarioAssumption
<1>4. /\ servers = [n \in Node |-> <<>>]
      /\ todo = [n \in Node |-> [t \in Thread |-> <<>>]]
      /\ her = [n \in Node |-> Nothing] /\ mine = [n \in Node |-> Nothing]
      /\ owed = [n \in Node |-> {}] /\ excused = [n \in Node |-> FALSE]
  BY <1>1 DEF Init
<1>5. nodes = running /\ actives = running /\ model \in [Node -> SUBSET Update]
  BY <1>2, <1>3
<1>6. \A n \in Node : /\ n \in running <=> proc[n] = "up"
                      /\ proc[n] \in {"up", "down", "off"}
                      /\ n \notin running => model[n] = {}
  BY <1>2, <1>3
<1>7. /\ servers \in [Node -> Seq(Node)] /\ todo \in [Node -> [Thread -> Seq(Nat)]]
      /\ her \in [Node -> [Thread -> SUBSET Update]]
      /\ mine \in [Node -> [Thread -> SUBSET Update]]
      /\ owed \in [Node -> SUBSET Update] /\ excused \in [Node -> BOOLEAN]
  BY <1>4 DEF Nothing
<1>8. KnowTypes
  BY <1>5, <1>6, <1>7 DEF KnowTypes, Serving
<1>9. \A n \in Node : Missing(n) = {}
  BY <1>4 DEF Missing
<1>10. \A n \in Node, t \in Thread : pc[n][t] \in {"idle", "serve"}
  BY <1>2 DEF Idle
<1>11. HasPeers /\ OnTheWay
  BY <1>10 DEF HasPeers, OnTheWay, Exchanging, Way, At
<1>12. Held /\ Settled
  BY <1>5, <1>9 DEF Held, Settled
<1> QED BY <1>8, <1>11, <1>12 DEF Know

(* One case for each action of a cluster with the broadcast mixer. *)
LEMMA NextKnow == IInv /\ KnowIInv /\ [Next]_vars => KnowIInv'
<1>1. SUFFICES ASSUME IInv, KnowIInv, [Next]_vars, argv'.mixer = "broadcast" PROVE Know'
  BY DEF KnowIInv
<1>2. argv' = argv
  BY <1>1 DEF Next, MixStep, UpdateMembers, Choose, Pull, GetPullArgument, Push, PushMine,
              CallFails, ReadFlag, RegisterActive, ClearFlag, MixerLoop, DoMix, Boot, Train,
              Crash, StartThrows, Exit, SessionTimeout, Stop, Leave, Shutdown, life, vars
<1>3. Know /\ argv.mixer = "broadcast"
  BY <1>1, <1>2 DEF KnowIInv
<1>4. ASSUME NEW n \in Node, NEW t \in Thread, MixStep(n, t) PROVE Know'
  BY <1>1, <1>3, <1>4, MixKnow
<1>5. ASSUME NEW n \in Node, MixerLoop(n) \/ DoMix(n) PROVE Know'
  <2>1. PICK t \in Thread : Goto(n, t, "members")
    BY <1>5 DEF MixerLoop, DoMix, Thread
  <2>2. UNCHANGED <<proc, nodes, actives, model, servers, todo, her, mine, owed, excused>>
    BY <1>5 DEF MixerLoop, DoMix, life, walk
  <2> QED BY <1>1, <1>3, <2>1, <2>2, FlagKnow
<1>6. ASSUME NEW n \in Node, Boot(n) PROVE Know'
  BY <1>1, <1>3, <1>6, BootKnow
<1>7. ASSUME NEW n \in Node, NEW u \in Update, Train(n, u) PROVE Know'
  BY <1>1, <1>3, <1>7, TrainKnow
<1>8. ASSUME NEW n \in Node, Crash(n) \/ StartThrows(n) \/ Shutdown(n) PROVE Know'
  <2>1. Serving(n) /\ Exit(n)
    BY <1>8 DEF Crash, StartThrows, Shutdown, Serving
  <2> QED BY <1>1, <1>3, <2>1, ExitKnow
<1>9. ASSUME NEW n \in Node, SessionTimeout(n) PROVE Know'
  BY <1>1, <1>3, <1>9, TimeoutKnow
<1>10. ASSUME NEW n \in Node, Leave(n) PROVE Know'
  BY <1>1, <1>3, <1>10, LeaveKnow
<1>11. ASSUME NEW n \in Node, Stop(n) PROVE Know'
  <2>1. UNCHANGED <<proc, nodes, actives, model, servers, pc, todo, her, mine, owed, excused>>
    BY <1>11 DEF Stop, walk
  <2> QED BY <1>3, <2>1, StandsStill
<1>12. CASE UNCHANGED vars
  <2>1. UNCHANGED <<proc, nodes, actives, model, servers, pc, todo, her, mine, owed, excused>>
    BY <1>12 DEF vars
  <2> QED BY <1>3, <2>1, StandsStill
<1> QED BY <1>1, <1>4, <1>5, <1>6, <1>7, <1>8, <1>9, <1>10, <1>11, <1>12 DEF Next

(* However exchanges overlap with each other, with do_mix and with servers *)
(* that come, crash and come again, a server that has joined with the      *)
(* broadcast mixer knows what all knew when it came up and one that runs   *)
(* still knows, unless a call of its own failed or its list was replaced   *)
(* or outlived by a server on it while it walked.                          *)
THEOREM ActivesComeToKnow == Spec => []ActivesKnowOld
<1>1. Init => IInv /\ KnowIInv
  BY InitIInv, InitKnow DEF KnowIInv
<1>2. IInv /\ KnowIInv /\ [Next]_vars => IInv' /\ KnowIInv'
  BY NextIInv, NextKnow
<1>3. KnowIInv => ActivesKnowOld
  BY DEF KnowIInv, Know, KnowTypes, Settled, Missing, ActivesKnowOld
<1> QED BY <1>1, <1>2, <1>3, PTL DEF Spec

=============================================================================
