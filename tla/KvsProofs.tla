----------------------------- MODULE KvsProofs -----------------------------
(***************************************************************************)
(* Proofs about Kvs for any servers, keys, values, word, scenarios and     *)
(* bounds: what every server keeps, and that a mix all servers took part   *)
(* in tells all of them the average of the cluster.                        *)
(*                                                                         *)
(* The sums are folds over finite sets.  What the proofs need of a fold is *)
(* proved first, from its defining recursion: sets are taken from smallest *)
(* to largest by their cardinality, and a claim that fails somewhere fails *)
(* at a smallest set.                                                      *)
(***************************************************************************)
EXTENDS Kvs, FiniteSetTheorems, WellFoundedInduction, TLAPS

-----------------------------------------------------------------------------
(* Sums over finite sets *)

Any(S) == CHOOSE x \in S : TRUE

(* The recursion that adds up f, on the sets in D. *)
Adds(g, f, D) ==
  g = [s \in D |-> IF s = {} THEN 0 ELSE f[Any(s)] + g[s \ {Any(s)}]]

(* The sum of the library is what that recursion gives. *)
LEMMA SumIs ==
  ASSUME NEW f, NEW S
  PROVE  SumFunctionOnSet(f, S) = (CHOOSE g : Adds(g, f, SUBSET S))[S]
BY DEF SumFunctionOnSet, FoldFunctionOnSet, MapThenFoldSet, Adds, Any

(* Among numbers, one is the least. *)
LEMMA LeastIs == ASSUME NEW I \in SUBSET Nat, I # {} PROVE \E i \in I : \A j \in I : i <= j
<1> DEFINE R == OpToRel(<, Nat)
<1>1. \A x, y \in Nat : <<y, x>> \in R <=> y < x
  BY DEF OpToRel
<1>2. IsWellFoundedOn(R, Nat)
  BY NatLessThanWellFounded DEF R
<1> HIDE DEF R
<1>3. \E x \in I : \A y \in I : ~(<<y, x>> \in R)
  BY <1>2, WFMin
<1>4. PICK x \in I : \A y \in I : ~(<<y, x>> \in R)
  BY <1>3
<1>5. \A y \in I : x \in Nat /\ y \in Nat /\ ~(y < x)
  BY <1>1, <1>4
<1>6. \A y \in I : x <= y
  BY <1>5
<1> QED BY <1>6

(* A smallest set among finite ones that are not good. *)
LEMMA SmallestIs ==
  ASSUME NEW S, IsFiniteSet(S), NEW Bad \in SUBSET SUBSET S, Bad # {}
  PROVE  \E s \in Bad : \A t \in Bad : Cardinality(s) <= Cardinality(t)
<1> DEFINE I == {Cardinality(s) : s \in Bad}
<1>1. \A s \in SUBSET S : IsFiniteSet(s) /\ Cardinality(s) \in Nat
  BY FS_Subset, FS_CardinalityType
<1>2. I \in SUBSET Nat /\ I # {}
  BY <1>1
<1>3. \E i \in I : \A j \in I : i <= j
  <2> HIDE DEF I
  <2> QED BY <1>2, LeastIs
<1> QED BY <1>3

(* Without one of its members a set is smaller by one. *)
LEMMA AnyRemoved ==
  ASSUME NEW S, IsFiniteSet(S), NEW s \in SUBSET S, NEW x \in s
  PROVE  /\ s \ {x} \in SUBSET S
         /\ Cardinality(s) \in Nat /\ Cardinality(s \ {x}) \in Nat
         /\ Cardinality(s \ {x}) = Cardinality(s) - 1
<1>1. IsFiniteSet(s)
  BY FS_Subset
<1>2. Cardinality(s \ {x}) = Cardinality(s) - 1
  BY <1>1, FS_RemoveElement
<1>3. IsFiniteSet(s \ {x})
  BY <1>1, FS_RemoveElement
<1> QED BY <1>1, <1>2, <1>3, FS_CardinalityType

(* CHOOSE finds a member. *)
LEMMA AnyIn == ASSUME NEW s, s # {} PROVE Any(s) \in s
BY DEF Any

Stage(S, n) == {s \in SUBSET S : Cardinality(s) <= n}

(* On the empty set the recursion has a solution. *)
LEMMA FirstStage == ASSUME NEW f, NEW S, IsFiniteSet(S) PROVE \E g : Adds(g, f, Stage(S, 0))
<1> DEFINE g == [s \in Stage(S, 0) |-> 0]
<1>1. \A s \in Stage(S, 0) : s = {}
  BY FS_Subset, FS_EmptySet, FS_CardinalityType DEF Stage
<1>2. Adds(g, f, Stage(S, 0))
  BY <1>1 DEF Adds
<1> QED BY <1>2

(* A solution on small sets extends to the sets with one member more. *)
LEMMA NextStage ==
  ASSUME NEW f, NEW S, IsFiniteSet(S), NEW n \in Nat, NEW g, Adds(g, f, Stage(S, n))
  PROVE  \E h : Adds(h, f, Stage(S, n + 1))
<1> DEFINE h == [s \in Stage(S, n + 1) |-> IF s \in Stage(S, n) THEN g[s]
                                            ELSE f[Any(s)] + g[s \ {Any(s)}]]
<1>1. \A s \in Stage(S, n + 1) : s # {} => s \ {Any(s)} \in Stage(S, n)
  <2> TAKE s \in Stage(S, n + 1)
  <2> HAVE s # {}
  <2>1. Any(s) \in s
    BY AnyIn
  <2>2. s \in SUBSET S /\ Cardinality(s) <= n + 1
    BY DEF Stage
  <2>3. /\ s \ {Any(s)} \in SUBSET S /\ Cardinality(s) \in Nat
        /\ Cardinality(s \ {Any(s)}) = Cardinality(s) - 1
    BY <2>1, <2>2, AnyRemoved
  <2> QED BY <2>2, <2>3 DEF Stage
<1>2. Stage(S, n) \subseteq Stage(S, n + 1)
  BY FS_Subset, FS_CardinalityType DEF Stage
<1>3. \A s \in Stage(S, n) : g[s] = IF s = {} THEN 0 ELSE f[Any(s)] + g[s \ {Any(s)}]
  BY DEF Adds
<1>4. {} \in Stage(S, n)
  BY FS_EmptySet DEF Stage
<1>5. \A s \in Stage(S, n) : h[s] = g[s]
  BY <1>2
<1>6. \A s \in Stage(S, n + 1) : h[s] = IF s = {} THEN 0 ELSE f[Any(s)] + g[s \ {Any(s)}]
  BY <1>3, <1>4
<1>7. \A s \in Stage(S, n + 1) : h[s] = IF s = {} THEN 0 ELSE f[Any(s)] + h[s \ {Any(s)}]
  BY <1>1, <1>5, <1>6
<1>8. h = [s \in Stage(S, n + 1) |-> h[s]]
  OBVIOUS
<1>9. Adds(h, f, Stage(S, n + 1))
  <2> HIDE DEF h
  <2> QED BY <1>7, <1>8 DEF Adds
<1> QED BY <1>9

(* So it has one on the sets of every size, *)
LEMMA StageAdds ==
  ASSUME NEW f, NEW S, IsFiniteSet(S), NEW n \in Nat
  PROVE  \E g : Adds(g, f, Stage(S, n))
<1> DEFINE I == {m \in Nat : ~\E g : Adds(g, f, Stage(S, m))}
<1>1. ASSUME I # {} PROVE FALSE
  <2>1. \E i \in I : \A j \in I : i <= j
    <3>1. I \in SUBSET Nat
      OBVIOUS
    <3> HIDE DEF I
    <3> QED BY <1>1, <3>1, LeastIs
  <2>2. PICK i \in I : \A j \in I : i <= j
    BY <2>1
  <2>3. i # 0
    BY FirstStage
  <2>4. i - 1 \in Nat /\ i - 1 \notin I
    BY <2>2, <2>3
  <2>5. PICK g : Adds(g, f, Stage(S, i - 1))
    BY <2>4
  <2>6. \E h : Adds(h, f, Stage(S, (i - 1) + 1))
    BY <2>4, <2>5, NextStage
  <2>7. (i - 1) + 1 = i
    BY <2>2
  <2> QED BY <2>6, <2>7
<1> QED BY <1>1

(* and the sum over a finite set is a value of it. *)
LEMMA SumAdds ==
  ASSUME NEW f, NEW S, IsFiniteSet(S)
  PROVE  \E g : Adds(g, f, SUBSET S) /\ SumFunctionOnSet(f, S) = g[S]
<1>1. Stage(S, Cardinality(S)) = SUBSET S
  BY FS_Subset, FS_CardinalityType DEF Stage
<1>2. Cardinality(S) \in Nat
  BY FS_CardinalityType
<1>3. \E g : Adds(g, f, Stage(S, Cardinality(S)))
  BY <1>2, StageAdds
<1>4. \E g : Adds(g, f, SUBSET S)
  BY <1>1, <1>3
<1>5. Adds(CHOOSE g : Adds(g, f, SUBSET S), f, SUBSET S)
  BY <1>4
<1> QED BY <1>5, SumIs

(* What the recursion gives does not depend on the set it starts from. *)
LEMMA SumsAgree ==
  ASSUME NEW S, IsFiniteSet(S), NEW T, IsFiniteSet(T), NEW f, NEW e, NEW g, NEW h,
         Adds(g, f, SUBSET S), Adds(h, e, SUBSET T),
         NEW s \in SUBSET (S \cap T), \A x \in s : f[x] = e[x]
  PROVE  g[s] = h[s]
<1> DEFINE Bad == {t \in SUBSET s : g[t] # h[t]}
<1>0. \A t \in SUBSET s : t \in SUBSET S /\ t \in SUBSET T
  OBVIOUS
<1>1. ASSUME Bad # {} PROVE FALSE
  <2>1. IsFiniteSet(s)
    BY FS_Subset
  <2>2. PICK t \in Bad : \A u \in Bad : Cardinality(t) <= Cardinality(u)
    <3>1. Bad \in SUBSET SUBSET s
      OBVIOUS
    <3> HIDE DEF Bad
    <3> QED BY <1>1, <2>1, <3>1, SmallestIs
  <2>3. /\ g[t] = IF t = {} THEN 0 ELSE f[Any(t)] + g[t \ {Any(t)}]
        /\ h[t] = IF t = {} THEN 0 ELSE e[Any(t)] + h[t \ {Any(t)}]
    BY <1>0 DEF Adds
  <2>4. t # {}
    BY <2>3
  <2>5. Any(t) \in t
    BY <2>4, AnyIn
  <2>6. /\ t \ {Any(t)} \in SUBSET s
        /\ Cardinality(t) \in Nat /\ Cardinality(t \ {Any(t)}) = Cardinality(t) - 1
    BY <2>1, <2>5, AnyRemoved
  <2>7. t \ {Any(t)} \notin Bad
    <3> HIDE DEF Bad
    <3> QED BY <2>2, <2>6
  <2>8. g[t \ {Any(t)}] = h[t \ {Any(t)}]
    BY <2>6, <2>7
  <2>9. f[Any(t)] = e[Any(t)]
    BY <2>5
  <2> QED BY <2>3, <2>4, <2>8, <2>9
<1>2. s \notin Bad
  BY <1>1
<1> QED BY <1>2

(* Nothing adds up to 0. *)
LEMMA SumEmpty == ASSUME NEW f PROVE SumFunctionOnSet(f, {}) = 0
<1>1. PICK g : Adds(g, f, SUBSET {}) /\ SumFunctionOnSet(f, {}) = g[{}]
  BY FS_EmptySet, SumAdds
<1>2. {} \in SUBSET {}
  OBVIOUS
<1> QED BY <1>1, <1>2 DEF Adds

(* The sum depends on the values on the set alone. *)
LEMMA SumSame ==
  ASSUME NEW f, NEW e, NEW S, IsFiniteSet(S), \A x \in S : f[x] = e[x]
  PROVE  SumFunctionOnSet(f, S) = SumFunctionOnSet(e, S)
<1>1. PICK g : Adds(g, f, SUBSET S) /\ SumFunctionOnSet(f, S) = g[S]
  BY SumAdds
<1>2. PICK h : Adds(h, e, SUBSET S) /\ SumFunctionOnSet(e, S) = h[S]
  BY SumAdds
<1>3. S \in SUBSET (S \cap S)
  OBVIOUS
<1> QED BY <1>1, <1>2, <1>3, SumsAgree

(* The sum splits off the member that CHOOSE picks. *)
LEMMA SumOfAny ==
  ASSUME NEW f, NEW S, IsFiniteSet(S), S # {}
  PROVE  SumFunctionOnSet(f, S) = f[Any(S)] + SumFunctionOnSet(f, S \ {Any(S)})
<1> DEFINE T == S \ {Any(S)}
<1>1. PICK g : Adds(g, f, SUBSET S) /\ SumFunctionOnSet(f, S) = g[S]
  BY SumAdds
<1>2. IsFiniteSet(T)
  BY FS_Subset
<1>3. PICK h : Adds(h, f, SUBSET T) /\ SumFunctionOnSet(f, T) = h[T]
  <2> HIDE DEF T
  <2> QED BY <1>2, SumAdds
<1>4. T \in SUBSET (S \cap T)
  OBVIOUS
<1>5. g[T] = h[T]
  <2> HIDE DEF T
  <2> QED BY <1>1, <1>2, <1>3, <1>4, SumsAgree
<1>6. S \in SUBSET S
  OBVIOUS
<1>7. g[S] = f[Any(S)] + g[T]
  BY <1>1, <1>6 DEF Adds
<1> QED BY <1>1, <1>3, <1>5, <1>7

(* A sum of integers is one. *)
LEMMA SumInt ==
  ASSUME NEW f, NEW S, IsFiniteSet(S), \A x \in S : f[x] \in Int
  PROVE  SumFunctionOnSet(f, S) \in Int
<1> DEFINE Bad == {t \in SUBSET S : SumFunctionOnSet(f, t) \notin Int}
<1>1. ASSUME Bad # {} PROVE FALSE
  <2>1. PICK t \in Bad : \A u \in Bad : Cardinality(t) <= Cardinality(u)
    <3>1. Bad \in SUBSET SUBSET S
      OBVIOUS
    <3> HIDE DEF Bad
    <3> QED BY <1>1, <3>1, SmallestIs
  <2>2. t \in SUBSET S /\ SumFunctionOnSet(f, t) \notin Int
    OBVIOUS
  <2>3. t # {}
    BY <2>2, SumEmpty
  <2>4. Any(t) \in t
    BY <2>3, AnyIn
  <2>5. /\ t \ {Any(t)} \in SUBSET S
        /\ Cardinality(t) \in Nat /\ Cardinality(t \ {Any(t)}) = Cardinality(t) - 1
    BY <2>2, <2>4, AnyRemoved
  <2>6. t \ {Any(t)} \notin Bad
    <3> HIDE DEF Bad
    <3> QED BY <2>1, <2>5
  <2>7. SumFunctionOnSet(f, t \ {Any(t)}) \in Int
    BY <2>5, <2>6
  <2>8. f[Any(t)] \in Int
    BY <2>2, <2>4
  <2>9. IsFiniteSet(t)
    BY <2>2, FS_Subset
  <2>10. SumFunctionOnSet(f, t) = f[Any(t)] + SumFunctionOnSet(f, t \ {Any(t)})
    BY <2>3, <2>9, SumOfAny
  <2> QED BY <2>2, <2>7, <2>8, <2>10
<1> QED BY <1>1

(* A sum of naturals is one. *)
LEMMA SumNat ==
  ASSUME NEW f, NEW S, IsFiniteSet(S), \A x \in S : f[x] \in Nat
  PROVE  SumFunctionOnSet(f, S) \in Nat
<1> DEFINE Bad == {t \in SUBSET S : SumFunctionOnSet(f, t) \notin Nat}
<1>1. ASSUME Bad # {} PROVE FALSE
  <2>1. PICK t \in Bad : \A u \in Bad : Cardinality(t) <= Cardinality(u)
    <3>1. Bad \in SUBSET SUBSET S
      OBVIOUS
    <3> HIDE DEF Bad
    <3> QED BY <1>1, <3>1, SmallestIs
  <2>2. t \in SUBSET S /\ SumFunctionOnSet(f, t) \notin Nat
    OBVIOUS
  <2>3. t # {}
    BY <2>2, SumEmpty
  <2>4. Any(t) \in t
    BY <2>3, AnyIn
  <2>5. /\ t \ {Any(t)} \in SUBSET S
        /\ Cardinality(t) \in Nat /\ Cardinality(t \ {Any(t)}) = Cardinality(t) - 1
    BY <2>2, <2>4, AnyRemoved
  <2>6. t \ {Any(t)} \notin Bad
    <3> HIDE DEF Bad
    <3> QED BY <2>1, <2>5
  <2>7. SumFunctionOnSet(f, t \ {Any(t)}) \in Nat
    BY <2>5, <2>6
  <2>8. f[Any(t)] \in Nat
    BY <2>2, <2>4
  <2>9. IsFiniteSet(t)
    BY <2>2, FS_Subset
  <2>10. SumFunctionOnSet(f, t) = f[Any(t)] + SumFunctionOnSet(f, t \ {Any(t)})
    BY <2>3, <2>9, SumOfAny
  <2> QED BY <2>2, <2>7, <2>8, <2>10
<1> QED BY <1>1

(* The sum splits off any member: the order does not matter. *)
LEMMA SumRemove ==
  ASSUME NEW f, NEW S, IsFiniteSet(S), \A y \in S : f[y] \in Int
  PROVE  \A x \in S : SumFunctionOnSet(f, S) = f[x] + SumFunctionOnSet(f, S \ {x})
<1> DEFINE Fails(t, x) == SumFunctionOnSet(f, t) # f[x] + SumFunctionOnSet(f, t \ {x})
           Bad == {t \in SUBSET S : \E x \in t : Fails(t, x)}
<1>1. ASSUME Bad # {} PROVE FALSE
  <2>1. PICK t \in Bad : \A u \in Bad : Cardinality(t) <= Cardinality(u)
    <3>1. Bad \in SUBSET SUBSET S
      OBVIOUS
    <3> HIDE DEF Bad
    <3> QED BY <1>1, <3>1, SmallestIs
  <2>2. t \in SUBSET S /\ \E x \in t : Fails(t, x)
    <3> HIDE DEF Fails
    <3> QED OBVIOUS
  <2>3. PICK x \in t : Fails(t, x)
    BY <2>2
  <2>4. Any(t) \in t
    BY <2>3, AnyIn
  <2> DEFINE s == t \ {Any(t)}
             u == t \ {x}
  <2>5. /\ s \in SUBSET S /\ u \in SUBSET S
        /\ Cardinality(t) \in Nat
        /\ Cardinality(s) = Cardinality(t) - 1 /\ Cardinality(u) = Cardinality(t) - 1
    BY <2>2, <2>4, AnyRemoved
  <2>6. s \notin Bad /\ u \notin Bad
    <3> HIDE DEF Bad, s, u
    <3> QED BY <2>1, <2>5
  <2>7. \A y \in s : ~Fails(s, y)
    <3> HIDE DEF Fails, s
    <3> QED BY <2>5, <2>6
  <2>8. \A y \in u : ~Fails(u, y)
    <3> HIDE DEF Fails, u
    <3> QED BY <2>5, <2>6
  <2>9. IsFiniteSet(t) /\ IsFiniteSet(s) /\ IsFiniteSet(u) /\ IsFiniteSet(s \ {x})
    BY <2>2, FS_Subset
  <2>10. SumFunctionOnSet(f, t) = f[Any(t)] + SumFunctionOnSet(f, s)
    BY <2>4, <2>9, SumOfAny
  <2>11. Any(t) # x
    BY <2>3, <2>10
  <2>12. x \in s /\ Any(t) \in u /\ s \ {x} = u \ {Any(t)}
    BY <2>4, <2>11
  <2>13. SumFunctionOnSet(f, s) = f[x] + SumFunctionOnSet(f, s \ {x})
    BY <2>7, <2>12
  <2>14. SumFunctionOnSet(f, u) = f[Any(t)] + SumFunctionOnSet(f, s \ {x})
    BY <2>8, <2>12
  <2>15. SumFunctionOnSet(f, s \ {x}) \in Int
    <3>1. \A y \in s \ {x} : f[y] \in Int
      BY <2>5
    <3> HIDE DEF s
    <3> QED BY <2>9, <3>1, SumInt
  <2>16. f[x] \in Int /\ f[Any(t)] \in Int
    BY <2>2, <2>4
  <2>17. SumFunctionOnSet(f, t) # f[x] + SumFunctionOnSet(f, u)
    BY <2>3
  <2> HIDE DEF s, u
  <2> QED BY <2>10, <2>13, <2>14, <2>15, <2>16, <2>17
<1>2. S \notin Bad
  BY <1>1
<1> QED BY <1>2

(* A sum of integers between a and b. *)
LEMMA SumBounded ==
  ASSUME NEW f, NEW S, IsFiniteSet(S), NEW a \in Int, NEW b \in Int, \A x \in S : f[x] \in a..b
  PROVE  SumFunctionOnSet(f, S) \in (Cardinality(S) * a)..(Cardinality(S) * b)
<1> DEFINE Fine(t) == SumFunctionOnSet(f, t) \in (Cardinality(t) * a)..(Cardinality(t) * b)
           Bad == {t \in SUBSET S : ~Fine(t)}
<1>1. ASSUME Bad # {} PROVE FALSE
  <2>1. PICK t \in Bad : \A u \in Bad : Cardinality(t) <= Cardinality(u)
    <3>1. Bad \in SUBSET SUBSET S
      OBVIOUS
    <3> HIDE DEF Bad
    <3> QED BY <1>1, <3>1, SmallestIs
  <2>2. t \in SUBSET S /\ ~Fine(t)
    <3> HIDE DEF Fine
    <3> QED OBVIOUS
  <2>3. t # {}
    <3>1. Cardinality({}) = 0 /\ SumFunctionOnSet(f, {}) = 0
      BY FS_EmptySet, SumEmpty
    <3>2. 0 * a = 0 /\ 0 * b = 0
      OBVIOUS
    <3>3. Fine({})
      BY <3>1, <3>2
    <3> QED BY <2>2, <3>3
  <2>4. Any(t) \in t
    BY <2>3, AnyIn
  <2> DEFINE s == t \ {Any(t)}
  <2>5. s \in SUBSET S /\ Cardinality(t) \in Nat /\ Cardinality(s) \in Nat /\ Cardinality(s) = Cardinality(t) - 1
    BY <2>2, <2>4, AnyRemoved
  <2>6. s \notin Bad
    <3> HIDE DEF Bad, s
    <3> QED BY <2>1, <2>5
  <2>7. Fine(s)
    <3> HIDE DEF Fine, s
    <3> QED BY <2>5, <2>6
  <2>8. IsFiniteSet(t)
    BY <2>2, FS_Subset
  <2>9. SumFunctionOnSet(f, t) = f[Any(t)] + SumFunctionOnSet(f, s)
    BY <2>4, <2>8, SumOfAny
  <2>10. f[Any(t)] \in a..b
    BY <2>2, <2>4
  <2>11. SumFunctionOnSet(f, s) \in (Cardinality(s) * a)..(Cardinality(s) * b)
    BY <2>7
  <2> HIDE DEF s
  <2>12. /\ Cardinality(t) * a = Cardinality(s) * a + a /\ Cardinality(s) * a \in Int
         /\ Cardinality(t) * b = Cardinality(s) * b + b /\ Cardinality(s) * b \in Int
    <3>1. \A c, d \in Nat, e \in Int : c = d - 1 => d * e = c * e + e /\ c * e \in Int
      OBVIOUS
    <3> QED BY <2>5, <3>1
  <2>13. Fine(t)
    BY <2>9, <2>10, <2>11, <2>12
  <2> QED BY <2>2, <2>13
<1>2. S \notin Bad
  BY <1>1
<1>3. Fine(S)
  <2> HIDE DEF Fine
  <2> QED BY <1>2
<1> QED BY <1>3

-----------------------------------------------------------------------------
(* The sums of a model *)

Pairs == UNION {[D -> Value] : D \in SUBSET Key}
Models == [data : Pairs, lsum : Int, gsum : Int, gsize : 0..Word - 1]

(* What an engine keeps by the side of its pairs is their sum. *)
Sound(m) == IsFiniteSet(DOMAIN m.data) /\ m.lsum = Signed(SumOf(m))

(* Two fields of the record of an engine change, and the others stay. *)
LEMMA RecordOf ==
  ASSUME NEW A, NEW B, NEW C, NEW D, NEW m \in [data : A, lsum : B, gsum : C, gsize : D], NEW a, NEW b
  PROVE  /\ m.data \in A /\ m.lsum \in B /\ m.gsum \in C /\ m.gsize \in D
         /\ [m EXCEPT !.data = a, !.lsum = b] = [data |-> a, lsum |-> b, gsum |-> m.gsum, gsize |-> m.gsize]
         /\ [m EXCEPT !.gsum = a, !.gsize = b] = [data |-> m.data, lsum |-> m.lsum, gsum |-> a, gsize |-> b]
<1>1. m.data \in A /\ m.lsum \in B /\ m.gsum \in C /\ m.gsize \in D
  OBVIOUS
<1>2. m = [data |-> m.data, lsum |-> m.lsum, gsum |-> m.gsum, gsize |-> m.gsize]
  OBVIOUS
<1>4. /\ [m EXCEPT !.data = a, !.lsum = b] = [[m EXCEPT !.data = a] EXCEPT !.lsum = b]
      /\ [m EXCEPT !.gsum = a, !.gsize = b] = [[m EXCEPT !.gsum = a] EXCEPT !.gsize = b]
  OBVIOUS
<1>5. PICK p, q, r, s : m = [data |-> p, lsum |-> q, gsum |-> r, gsize |-> s]
  BY <1>2
<1>6. m.data = p /\ m.lsum = q /\ m.gsum = r /\ m.gsize = s
  BY <1>5
<1>7. [m EXCEPT !.data = a, !.lsum = b] = [data |-> a, lsum |-> b, gsum |-> r, gsize |-> s]
  <2>1. [m EXCEPT !.data = a] = [data |-> a, lsum |-> q, gsum |-> r, gsize |-> s]
    BY <1>5
  <2>2. PICK n : n = [m EXCEPT !.data = a]
    OBVIOUS
  <2>3. [n EXCEPT !.lsum = b] = [data |-> a, lsum |-> b, gsum |-> r, gsize |-> s]
    <3>1. n = [data |-> a, lsum |-> q, gsum |-> r, gsize |-> s]
      BY <2>1, <2>2
    <3> QED BY <3>1
  <2> QED BY <1>4, <2>2, <2>3
<1>8. [m EXCEPT !.gsum = a, !.gsize = b] = [data |-> p, lsum |-> q, gsum |-> a, gsize |-> b]
  <2>1. [m EXCEPT !.gsum = a] = [data |-> p, lsum |-> q, gsum |-> a, gsize |-> s]
    BY <1>5
  <2>2. PICK n : n = [m EXCEPT !.gsum = a]
    OBVIOUS
  <2>3. [n EXCEPT !.gsize = b] = [data |-> p, lsum |-> q, gsum |-> a, gsize |-> b]
    <3>1. n = [data |-> p, lsum |-> q, gsum |-> a, gsize |-> s]
      BY <2>1, <2>2
    <3> QED BY <3>1
  <2> QED BY <1>4, <2>2, <2>3
<1> QED BY <1>1, <1>6, <1>7, <1>8

(* The same for the models of servers. *)
LEMMA ModelIs ==
  ASSUME NEW m \in Models, NEW a, NEW b
  PROVE  /\ m.data \in Pairs /\ m.lsum \in Int /\ m.gsum \in Int /\ m.gsize \in 0..Word - 1
         /\ [m EXCEPT !.data = a, !.lsum = b] = [data |-> a, lsum |-> b, gsum |-> m.gsum, gsize |-> m.gsize]
         /\ [m EXCEPT !.gsum = a, !.gsize = b] = [data |-> m.data, lsum |-> m.lsum, gsum |-> a, gsize |-> b]
BY RecordOf DEF Models

(* What is reduced modulo Word fits in it, *)
LEMMA WordIs == Word \in Nat \ {0} /\ 0 \in 0..Word - 1 /\ \A i \in Int : i % Word \in 0..Word - 1
BY KvsAssumption

(* and what fits is not changed. *)
LEMMA ModSmall == \A i \in 0..Word - 1 : i % Word = i
BY KvsAssumption

-----------------------------------------------------------------------------
(* 32-bit sums *)

(* What the division by Word leaves. *)
LEMMA Divided == \A i \in Int : \E q \in Int : i = q * Word + (i % Word)
<1> SUFFICES ASSUME NEW i \in Int PROVE i = (i \div Word) * Word + (i % Word) /\ i \div Word \in Int
  OBVIOUS
<1> QED BY KvsAssumption

(* Products grow with their factors. *)
LEMMA ProductsGrow ==
  ASSUME NEW b \in Nat, NEW c \in Int, NEW d \in Int, c <= d
  PROVE  c * b <= d * b
<1>1. PICK e \in Nat : d = c + e
  <2>1. d - c \in Nat /\ d = c + (d - c)
    OBVIOUS
  <2> QED BY <2>1
<1>2. (c + e) * b = c * b + e * b
  OBVIOUS
<1>3. e * b >= 0 /\ c * b \in Int /\ e * b \in Int
  OBVIOUS
<1> QED BY <1>1, <1>2, <1>3

(* There is one remainder. *)
LEMMA OneRemainder ==
  ASSUME NEW p \in Int, NEW q \in Int, NEW r \in 0..Word - 1, NEW s \in 0..Word - 1,
         p * Word + r = q * Word + s
  PROVE  r = s
<1>1. Word \in Nat \ {0} /\ r \in Int /\ s \in Int
  BY KvsAssumption
<1>2. (p + 1) * Word = p * Word + Word /\ (q + 1) * Word = q * Word + Word
  BY <1>1
<1>3. p * Word \in Int /\ q * Word \in Int
  BY <1>1
<1>4. CASE p = q
  BY <1>1, <1>3, <1>4
<1>5. ~(p < q)
  <2> SUFFICES ASSUME p < q PROVE FALSE
    OBVIOUS
  <2>1. (p + 1) * Word <= q * Word
    BY <1>1, ProductsGrow
  <2> QED BY <1>1, <1>2, <1>3, <2>1
<1>6. ~(q < p)
  <2> SUFFICES ASSUME q < p PROVE FALSE
    OBVIOUS
  <2>1. (q + 1) * Word <= p * Word
    BY <1>1, ProductsGrow
  <2> QED BY <1>1, <1>2, <1>3, <2>1
<1> QED BY <1>4, <1>5, <1>6

(* Whole words do not change it. *)
LEMMA WordsVanish == ASSUME NEW i \in Int, NEW q \in Int PROVE (i + q * Word) % Word = i % Word
<1>1. Word \in Nat \ {0} /\ q * Word \in Int
  BY KvsAssumption
<1>2. PICK j \in Int : j = i + q * Word
  BY <1>1
<1>3. PICK r \in 0..Word - 1, s \in 0..Word - 1 : r = i % Word /\ s = j % Word
  BY <1>1
<1>4. PICK a \in Int : i = a * Word + r
  BY <1>3, Divided
<1>5. PICK b \in Int : j = b * Word + s
  BY <1>3, Divided
<1>6. (a + q) * Word = a * Word + q * Word /\ a * Word \in Int /\ b * Word \in Int
  BY <1>1
<1>7. (a + q) * Word + r = b * Word + s
  BY <1>1, <1>2, <1>4, <1>5, <1>6
<1>8. r = s
  <2>1. a + q \in Int
    OBVIOUS
  <2> QED BY <1>7, <2>1, OneRemainder
<1> QED BY <1>2, <1>3, <1>8

(* A sum that has wrapped around differs by whole words, *)
LEMMA SignedIs == ASSUME NEW i \in Int PROVE Signed(i) \in Int /\ \E q \in Int : Signed(i) = i + q * Word
<1>1. Word \in Nat \ {0}
  BY KvsAssumption
<1>2. PICK a \in Int : i = a * Word + (i % Word)
  BY Divided
<1>3. PICK r \in 0..Word - 1 : r = i % Word
  BY <1>1
<1>4. Signed(i) = r \/ Signed(i) = r - Word
  BY <1>3 DEF Signed
<1>5. /\ (-a) * Word = -(a * Word) /\ (-a - 1) * Word = -(a * Word) - Word /\ a * Word \in Int
      /\ -a \in Int /\ -a - 1 \in Int
  BY <1>1
<1>6. r = i + (-a) * Word /\ r - Word = i + (-a - 1) * Word
  BY <1>1, <1>2, <1>3, <1>5
<1>7. \E q \in Int : Signed(i) = i + q * Word
  <2>1. CASE Signed(i) = r
    BY <1>5, <1>6, <2>1
  <2>2. CASE Signed(i) = r - Word
    BY <1>5, <1>6, <2>2
  <2> QED BY <1>4, <2>1, <2>2
<1> QED BY <1>1, <1>4, <1>7

(* so that it may wrap around at every step or once at the end, *)
LEMMA SignedAdds ==
  ASSUME NEW i \in Int, NEW j \in Int
  PROVE  Signed(Signed(i) + j) = Signed(i + j)
<1>1. PICK s \in Int, q \in Int : s = Signed(i) /\ s = i + q * Word
  BY SignedIs
<1>2. Word \in Nat \ {0} /\ q * Word \in Int
  BY KvsAssumption
<1>3. s + j = (i + j) + q * Word /\ i + j \in Int
  BY <1>1, <1>2
<1>4. (s + j) % Word = (i + j) % Word
  BY <1>3, WordsVanish
<1> QED BY <1>1, <1>4 DEF Signed

(* in a sum over a set as well, *)
LEMMA SignedSums ==
  ASSUME NEW f, NEW g, NEW S, IsFiniteSet(S),
         \A x \in S : f[x] \in Int /\ g[x] = Signed(f[x])
  PROVE  Signed(SumFunctionOnSet(g, S)) = Signed(SumFunctionOnSet(f, S))
<1> DEFINE Fine(t) == Signed(SumFunctionOnSet(g, t)) = Signed(SumFunctionOnSet(f, t))
           Bad == {t \in SUBSET S : ~Fine(t)}
<1>1. ASSUME Bad # {} PROVE FALSE
  <2>1. PICK t \in Bad : \A u \in Bad : Cardinality(t) <= Cardinality(u)
    <3>1. Bad \in SUBSET SUBSET S
      OBVIOUS
    <3> HIDE DEF Bad
    <3> QED BY <1>1, <3>1, SmallestIs
  <2>2. t \in SUBSET S /\ ~Fine(t)
    <3> HIDE DEF Fine
    <3> QED OBVIOUS
  <2>3. t # {}
    <3>1. Fine({})
      BY SumEmpty
    <3> QED BY <2>2, <3>1
  <2>4. Any(t) \in t
    BY <2>3, AnyIn
  <2> DEFINE s == t \ {Any(t)}
  <2>5. s \in SUBSET S /\ Cardinality(t) \in Nat /\ Cardinality(s) = Cardinality(t) - 1
    BY <2>2, <2>4, AnyRemoved
  <2>6. s \notin Bad
    <3> HIDE DEF Bad, s
    <3> QED BY <2>1, <2>5
  <2>7. Fine(s)
    <3> HIDE DEF Fine, s
    <3> QED BY <2>5, <2>6
  <2>8. IsFiniteSet(t) /\ IsFiniteSet(s)
    BY <2>2, FS_Subset
  <2>9. /\ SumFunctionOnSet(f, t) = f[Any(t)] + SumFunctionOnSet(f, s)
        /\ SumFunctionOnSet(g, t) = g[Any(t)] + SumFunctionOnSet(g, s)
    BY <2>4, <2>8, SumOfAny
  <2>10. \A x \in S : f[x] \in Int /\ g[x] \in Int
    BY SignedIs
  <2>11. f[Any(t)] \in Int /\ g[Any(t)] = Signed(f[Any(t)])
    BY <2>2, <2>4
  <2>12. SumFunctionOnSet(f, s) \in Int /\ SumFunctionOnSet(g, s) \in Int
    <3>1. \A x \in s : f[x] \in Int /\ g[x] \in Int
      BY <2>5, <2>10
    <3> HIDE DEF s
    <3> QED BY <2>8, <3>1, SumInt
  <2> HIDE DEF s
  <2>13. PICK i \in Int, j \in Int, k \in Int :
           i = f[Any(t)] /\ j = SumFunctionOnSet(f, s) /\ k = SumFunctionOnSet(g, s)
    BY <2>11, <2>12
  <2>14. Signed(k) = Signed(j)
    BY <2>7, <2>13
  <2>15. Signed(Signed(i) + k) = Signed(i + k)
    BY SignedAdds
  <2>16. Signed(Signed(k) + i) = Signed(k + i) /\ Signed(Signed(j) + i) = Signed(j + i)
    BY SignedAdds
  <2>17. k + i = i + k /\ j + i = i + j
    OBVIOUS
  <2>18. Signed(Signed(i) + k) = Signed(i + j)
    BY <2>14, <2>15, <2>16, <2>17
  <2>19. Fine(t)
    BY <2>9, <2>11, <2>13, <2>18
  <2> QED BY <2>2, <2>19
<1>2. S \notin Bad
  BY <1>1
<1>3. Fine(S)
  <2> HIDE DEF Fine
  <2> QED BY <1>2
<1> QED BY <1>3

LEMMA SignedTwice == ASSUME NEW i \in Int PROVE Signed(Signed(i)) = Signed(i)
<1>1. Signed(i) + 0 = Signed(i) /\ i + 0 = i
  BY SignedIs
<1> QED BY <1>1, SignedAdds

(* and a small one does not. *)
LEMMA SignedSmall == ASSUME NEW i \in Int, -Word <= 2 * i, 2 * i < Word PROVE Signed(i) = i
<1>1. Word \in Nat \ {0}
  BY KvsAssumption
<1>2. CASE i >= 0
  <2>1. i \in 0..Word - 1
    BY <1>1, <1>2
  <2>2. i % Word = i
    BY <2>1, ModSmall
  <2> QED BY <2>2 DEF Signed
<1>3. CASE i < 0
  <2>1. PICK j \in 0..Word - 1 : j = i + 1 * Word
    BY <1>1, <1>3
  <2>2. j % Word = j
    BY <2>1, ModSmall
  <2>3. i % Word = j
    BY <2>1, <2>2, WordsVanish
  <2>4. j = i + Word /\ ~(2 * j < Word)
    BY <1>1, <2>1
  <2> QED BY <1>1, <2>3, <2>4 DEF Signed
<1> QED BY <1>2, <1>3

-----------------------------------------------------------------------------
(* The engine *)

(* The pairs of an engine. *)
LEMMA PairsAre ==
  ASSUME NEW d \in Pairs
  PROVE  /\ DOMAIN d \subseteq Key /\ \A k \in DOMAIN d : d[k] \in Value /\ d[k] \in Int
         /\ d = [k \in DOMAIN d |-> d[k]]
BY KvsAssumption DEF Pairs

(* A new engine is sound. *)
LEMMA EmptySound == Empty \in Models /\ Sound(Empty) /\ Empty.lsum = 0
<1>1. [k \in {} |-> 0] \in [{} -> Value]
  OBVIOUS
<1>2. Empty \in Models
  <2>1. [k \in {} |-> 0] \in Pairs
    BY <1>1 DEF Pairs
  <2> QED BY <2>1, WordIs DEF Empty, Models
<1>3. DOMAIN Empty.data = {} /\ Empty.lsum = 0
  BY DEF Empty
<1>4. SumFunctionOnSet(Empty.data, {}) = 0
  BY SumEmpty
<1>5. Signed(0) = 0
  BY SignedSmall, WordIs
<1> QED BY <1>2, <1>3, <1>4, <1>5, FS_EmptySet DEF Sound, SumOf, SumFunction

(* A put keeps lsum the sum of the values as 32 bits hold it, whether it   *)
(* replaces a value or not (kvs_algorithm::put).                           *)
LEMMA StoreSound ==
  ASSUME NEW m \in Models, Sound(m), NEW k \in Key, NEW v \in Value
  PROVE  Store(m, k, v) \in Models /\ Sound(Store(m, k, v))
<1> DEFINE D == DOMAIN m.data
           E == D \cup {k}
           d == [x \in E |-> IF x = k THEN v ELSE m.data[x]]
           old == IF k \in D THEN m.data[k] ELSE 0
<1>1. m.data \in Pairs /\ m.lsum \in Int /\ m.gsum \in Int /\ m.gsize \in 0..Word - 1
  BY ModelIs
<1>2. D \subseteq Key /\ \A x \in D : m.data[x] \in Value /\ m.data[x] \in Int
  BY <1>1, PairsAre
<1>3. v \in Int /\ old \in Int
  BY <1>2, KvsAssumption
<1>4. d \in [E -> Value] /\ E \in SUBSET Key
  BY <1>2
<1>5. d \in Pairs
  BY <1>4 DEF Pairs
<1>6. Store(m, k, v) = [data |-> d, lsum |-> Signed(m.lsum - old + v),
                          gsum |-> m.gsum, gsize |-> m.gsize]
  <2> HIDE DEF d
  <2>1. Store(m, k, v) = [m EXCEPT !.data = d, !.lsum = Signed(m.lsum - old + v)]
    BY DEF Store, d
  <2> HIDE DEF old
  <2> QED BY <2>1, ModelIs
<1>7. Store(m, k, v) \in Models
  <2> HIDE DEF d, old
  <2>1. m.lsum - old + v \in Int
    BY <1>1, <1>3
  <2>2. Signed(m.lsum - old + v) \in Int
    BY <2>1, SignedIs
  <2> QED BY <1>1, <1>5, <1>6, <2>2 DEF Models
<1>8. IsFiniteSet(D) /\ IsFiniteSet(E) /\ m.lsum = Signed(SumFunctionOnSet(m.data, D))
  BY FS_AddElement DEF Sound, SumOf, SumFunction
<1>9. \A x \in E : d[x] \in Int
  BY <1>2, <1>3
<1>10. SumFunctionOnSet(d, E) = v + SumFunctionOnSet(d, D \ {k})
  <2>1. E \ {k} = D \ {k} /\ k \in E /\ d[k] = v
    OBVIOUS
  <2>2. SumFunctionOnSet(d, E) = d[k] + SumFunctionOnSet(d, E \ {k})
    <3> HIDE DEF d, E
    <3> QED BY <1>8, <1>9, <2>1, SumRemove
  <2> QED BY <2>1, <2>2
<1>11. SumFunctionOnSet(d, D \ {k}) = SumFunctionOnSet(m.data, D \ {k})
  <2>1. IsFiniteSet(D \ {k})
    BY <1>8, FS_Subset
  <2>2. \A x \in D \ {k} : d[x] = m.data[x]
    OBVIOUS
  <2> HIDE DEF d, D
  <2> QED BY <2>1, <2>2, SumSame
<1>12. SumFunctionOnSet(m.data, D) = old + SumFunctionOnSet(m.data, D \ {k})
  <2>1. CASE k \in D
    <3>1. \A x \in D : m.data[x] \in Int
      BY <1>2
    <3>2. SumFunctionOnSet(m.data, D) = m.data[k] + SumFunctionOnSet(m.data, D \ {k})
      <4> HIDE DEF D
      <4> QED BY <1>8, <2>1, <3>1, SumRemove
    <3> QED BY <2>1, <3>2
  <2>2. CASE k \notin D
    <3>1. D \ {k} = D /\ old = 0
      BY <2>2
    <3>2. \A x \in D : m.data[x] \in Int
      BY <1>2
    <3> HIDE DEF D
    <3>3. SumFunctionOnSet(m.data, D) \in Int
      BY <1>8, <3>2, SumInt
    <3> HIDE DEF old
    <3> QED BY <3>1, <3>3
  <2> QED BY <2>1, <2>2
<1>13. SumFunctionOnSet(m.data, D \ {k}) \in Int
  <2>1. IsFiniteSet(D \ {k})
    BY <1>8, FS_Subset
  <2>2. \A x \in D \ {k} : m.data[x] \in Int
    BY <1>2
  <2> HIDE DEF D
  <2> QED BY <2>1, <2>2, SumInt
<1>14. Signed(m.lsum - old + v) = Signed(SumFunctionOnSet(d, E))
  <2> HIDE DEF d, old, D, E
  <2>1. PICK rest \in Int : rest = SumFunctionOnSet(m.data, D \ {k})
    BY <1>13
  <2>2. PICK t \in Int : t = SumFunctionOnSet(m.data, D) /\ t = old + rest /\ m.lsum = Signed(t)
    BY <1>3, <1>8, <1>12, <2>1
  <2>3. m.lsum - old + v = m.lsum + (v - old) /\ v - old \in Int
    BY <1>1, <1>3
  <2>4. Signed(m.lsum - old + v) = Signed(t + (v - old))
    BY <2>2, <2>3, SignedAdds
  <2>5. t + (v - old) = v + rest
    BY <1>3, <2>1, <2>2
  <2> QED BY <1>10, <1>11, <2>1, <2>4, <2>5
<1>15. DOMAIN d = E
  OBVIOUS
<1>16. Sound(Store(m, k, v))
  <2> HIDE DEF d, old, E
  <2> QED BY <1>6, <1>8, <1>14, <1>15 DEF Sound, SumOf, SumFunction
<1> QED BY <1>7, <1>16

(* The number of pairs. *)
LEMMA SizeIs == ASSUME NEW m, IsFiniteSet(DOMAIN m.data) PROVE Size(m) \in Nat
BY FS_CardinalityType DEF Size

(* put_diff changes what the engine knows of the others only. *)
LEMMA TakeDiffSound ==
  ASSUME NEW m \in Models, Sound(m), NEW sum \in Int, NEW size \in 0..Word - 1
  PROVE  LET t == TakeDiff(m, sum, size)
         IN  /\ t \in Models /\ Sound(t) /\ t.lsum = m.lsum /\ t.data = m.data
             /\ t.gsum = Signed(sum - m.lsum) /\ t.gsize = (size - Size(m)) % Word
<1> DEFINE r == (size - Size(m)) % Word
           g == Signed(sum - m.lsum)
<1>1. Size(m) \in Nat
  BY SizeIs DEF Sound
<1>2. r \in 0..Word - 1
  <2>1. size - Size(m) \in Int
    BY <1>1, WordIs
  <2> QED BY <2>1, WordIs
<1>3. TakeDiff(m, sum, size) = [data |-> m.data, lsum |-> m.lsum, gsum |-> g, gsize |-> r]
  <2>1. TakeDiff(m, sum, size) = [m EXCEPT !.gsum = g, !.gsize = r]
    BY DEF TakeDiff
  <2> HIDE DEF r, g
  <2> QED BY <2>1, ModelIs
<1>4. g \in Int /\ m.data \in Pairs /\ m.lsum \in Int
  <2>1. m.data \in Pairs /\ m.lsum \in Int
    BY ModelIs
  <2>2. sum - m.lsum \in Int
    BY <2>1
  <2> QED BY <2>1, <2>2, SignedIs
<1> HIDE DEF r, g
<1>5. TakeDiff(m, sum, size) \in Models
  BY <1>2, <1>3, <1>4 DEF Models
<1>6. Sound(TakeDiff(m, sum, size))
  BY <1>3 DEF Sound, SumOf
<1> QED BY <1>3, <1>5, <1>6 DEF r, g

-----------------------------------------------------------------------------
(* Types *)

Phases == {"idle", "model", "fetch", "unpack", "members", "diffs", "puts", "dead"}
Rounds == [by : Node \cup {0}, at : Phases, loop : BOOLEAN, srv : SUBSET Node,
           wait : SUBSET Node, any : BOOLEAN, sum : Int, size : 0..Word - 1, model : Models]
Puts == [to : Node, id : Nat \ {0}, sum : Int, size : 0..Word - 1]
Mixes == [id : Nat, parts : SUBSET Node, took : SUBSET Node, kept : SUBSET Node]

Typed ==
  /\ up \subseteq nodes /\ nodes \subseteq Node /\ obsolete \subseteq up /\ due \subseteq up
  /\ kvs \in [Node -> Models] /\ \A n \in Node : Sound(kvs[n])
  /\ saved \in Models /\ Sound(saved)
  /\ round \in Rounds /\ Sound(round.model) /\ round.wait \subseteq round.srv
  /\ round.at \in {"diffs", "puts"} => mix.id # 0
  /\ puts \subseteq Puts /\ \A m \in puts : m.id <= mix.id
  /\ mix \in Mixes
  /\ spoilt \in BOOLEAN /\ \A b \in DOMAIN left : left[b] \in Nat

(* Typed is TypeOK and more. *)
LEMMA TypedIsOK == Typed => TypeOK
<1> SUFFICES ASSUME Typed PROVE TypeOK
  OBVIOUS
<1>1. ASSUME NEW n \in Node
      PROVE  /\ DOMAIN kvs[n].data \subseteq Key /\ \A k \in DOMAIN kvs[n].data : kvs[n].data[k] \in Value
             /\ kvs[n].lsum = Signed(SumOf(kvs[n])) /\ kvs[n].gsum \in Int /\ kvs[n].gsize \in 0..Word - 1
  <2>1. kvs[n] \in Models /\ Sound(kvs[n])
    BY DEF Typed
  <2>2. kvs[n].data \in Pairs
    BY <2>1, ModelIs
  <2> QED BY <2>1, <2>2, ModelIs, PairsAre DEF Sound
<1>2. round.by \in Node \cup {0} /\ round.wait \subseteq round.srv /\ round.srv \subseteq Node /\ round.at \in Phases
  BY DEF Typed, Rounds
<1>3. ASSUME NEW m \in puts PROVE m.to \in Node /\ m.id \in 1..mix.id /\ m.size \in 0..Word - 1
  BY DEF Typed, Puts, Mixes
<1>4. mix.parts \subseteq Node /\ mix.kept \subseteq Node /\ mix.took \subseteq Node
  BY DEF Typed, Mixes
<1>5. /\ up \subseteq nodes /\ nodes \subseteq Node /\ obsolete \subseteq up /\ due \subseteq up
      /\ spoilt \in BOOLEAN /\ \A b \in DOMAIN left : left[b] \in Nat
  BY DEF Typed
<1> QED BY <1>1, <1>2, <1>3, <1>4, <1>5 DEF TypeOK, Phases

(* The mixer at rest. *)
LEMMA NoRoundIs ==
  NoRound \in Rounds /\ Sound(NoRound.model) /\ NoRound.wait = {} /\ NoRound.at = "idle"
<1>1. NoRound.model = Empty /\ NoRound.wait = {} /\ NoRound.at = "idle"
  BY DEF NoRound
<1>2. NoRound \in Rounds
  BY WordIs, EmptySound DEF NoRound, Rounds, Phases
<1> QED BY <1>1, <1>2, EmptySound

(* The initial states are typed. *)
LEMMA InitTyped == Init => Typed
<1> SUFFICES ASSUME Init PROVE Typed
  OBVIOUS
<1>1. PICK sc \in Scenarios : up = sc.running /\ left = sc.left
  BY DEF Init
<1>2. up \subseteq Node /\ \A b \in DOMAIN left : left[b] \in Nat
  BY <1>1, KvsAssumption
<1>3. nodes = up /\ obsolete = up /\ due = {} /\ puts = {} /\ spoilt = FALSE /\ saved = Empty
  BY DEF Init
<1>4. kvs \in [Node -> Models] /\ \A n \in Node : Sound(kvs[n])
  BY EmptySound DEF Init
<1>5. round = NoRound
  BY DEF Init
<1>6. round \in Rounds /\ Sound(round.model) /\ round.wait \subseteq round.srv /\ round.at = "idle"
  BY <1>5, NoRoundIs
<1>7. mix \in Mixes
  BY DEF Init, Mixes
<1> QED BY <1>2, <1>3, <1>4, <1>6, <1>7, EmptySound DEF Typed

(* Bounds stay naturals. *)
LEMMA SpendLeft ==
  ASSUME \A b \in DOMAIN left : left[b] \in Nat, NEW b, Spend(b)
  PROVE  \A c \in DOMAIN left' : left'[c] \in Nat
<1>1. left[b] > 0 /\ left' = [left EXCEPT ![b] = @ - 1]
  BY DEF Spend
<1>2. DOMAIN left' = DOMAIN left /\ \A c \in DOMAIN left : left'[c] = IF c = b THEN left[b] - 1 ELSE left[c]
  BY <1>1
<1> QED BY <1>1, <1>2

(* A change of n's data. *)
LEMMA TouchedIs ==
  ASSUME mix \in Mixes, NEW n, Touched(n)
  PROVE  /\ mix' \in Mixes /\ mix'.id = mix.id /\ mix'.parts = mix.parts /\ mix'.took = mix.took
         /\ mix'.kept = mix.kept \ {n}
BY DEF Touched, Mixes

(* The model of one server is replaced by a sound one. *)
LEMMA Replaced ==
  ASSUME kvs \in [Node -> Models], \A p \in Node : Sound(kvs[p]),
         NEW n \in Node, NEW m \in Models, Sound(m), kvs' = [kvs EXCEPT ![n] = m]
  PROVE  /\ kvs' \in [Node -> Models] /\ \A p \in Node : Sound(kvs'[p])
         /\ kvs'[n] = m /\ \A p \in Node \ {n} : kvs'[p] = kvs[p]
<1>1. kvs' \in [Node -> Models]
  OBVIOUS
<1>2. \A p \in Node : kvs'[p] = IF p = n THEN m ELSE kvs[p]
  OBVIOUS
<1> QED BY <1>1, <1>2

(* RPC methods keep the types. *)
LEMMA CallsTyped == ASSUME Typed, NEW n \in Node, Calls(n) PROVE Typed'
<1>1. /\ kvs \in [Node -> Models] /\ \A p \in Node : Sound(kvs[p])
      /\ saved \in Models /\ Sound(saved) /\ mix \in Mixes
      /\ \A b \in DOMAIN left : left[b] \in Nat
  BY DEF Typed
<1>2. CASE \E k \in Key, v \in Value : Put(n, k, v)
  <2>1. PICK k \in Key, v \in Value : Put(n, k, v)
    BY <1>2
  <2>2. /\ n \in up /\ Spend("put") /\ kvs' = [kvs EXCEPT ![n] = Store(kvs[n], k, v)] /\ Touched(n)
        /\ due' = due \cup {n} /\ UNCHANGED <<up, nodes, obsolete, round, puts, spoilt, saved>>
    BY <2>1 DEF Put, cluster
  <2>3. kvs[n] \in Models /\ Sound(kvs[n])
    BY <1>1
  <2>4. Store(kvs[n], k, v) \in Models /\ Sound(Store(kvs[n], k, v))
    BY <2>3, StoreSound
  <2>5. kvs' \in [Node -> Models] /\ \A p \in Node : Sound(kvs'[p])
    BY <1>1, <2>2, <2>4, Replaced
  <2>6. mix' \in Mixes /\ mix'.id = mix.id
    BY <1>1, <2>2, TouchedIs
  <2>7. \A c \in DOMAIN left' : left'[c] \in Nat
    BY <1>1, <2>2, SpendLeft
  <2> QED BY <2>2, <2>5, <2>6, <2>7 DEF Typed
<1>3. CASE Save(n)
  <2>1. /\ n \in up /\ Spend("save") /\ saved' = kvs[n]
        /\ UNCHANGED <<up, nodes, kvs, obsolete, due, round, puts, mix, spoilt>>
    BY <1>3 DEF Save, cluster, mixer, history
  <2>2. saved' \in Models /\ Sound(saved')
    BY <1>1, <2>1
  <2>3. \A c \in DOMAIN left' : left'[c] \in Nat
    BY <1>1, <2>1, SpendLeft
  <2> QED BY <2>1, <2>2, <2>3 DEF Typed
<1>4. CASE Load(n)
  <2>1. /\ n \in up /\ Spend("load") /\ kvs' = [kvs EXCEPT ![n] = saved] /\ Touched(n)
        /\ due' = due \cup {n} /\ UNCHANGED <<up, nodes, obsolete, round, puts, spoilt, saved>>
    BY <1>4 DEF Load, cluster
  <2>2. kvs' \in [Node -> Models] /\ \A p \in Node : Sound(kvs'[p])
    BY <1>1, <2>1, Replaced
  <2>3. mix' \in Mixes /\ mix'.id = mix.id
    BY <1>1, <2>1, TouchedIs
  <2>4. \A c \in DOMAIN left' : left'[c] \in Nat
    BY <1>1, <2>1, SpendLeft
  <2> QED BY <2>1, <2>2, <2>3, <2>4 DEF Typed
<1> QED BY <1>2, <1>3, <1>4 DEF Calls

(* What a step of the round leaves alone. *)
LEMMA RoundTyped ==
  ASSUME Typed, UNCHANGED <<up, nodes, saved>>,
         obsolete' \subseteq obsolete, due' \subseteq due, spoilt' \in BOOLEAN,
         kvs' \in [Node -> Models], \A n \in Node : Sound(kvs'[n]),
         round' \in Rounds, Sound(round'.model), round'.wait \subseteq round'.srv,
         round'.at \in {"diffs", "puts"} => mix'.id # 0,
         puts' \subseteq Puts, \A m \in puts' : m.id <= mix'.id, mix' \in Mixes,
         left' = left \/ Spend("lost")
  PROVE  Typed'
<1>1. \A b \in DOMAIN left' : left'[b] \in Nat
  BY SpendLeft DEF Typed
<1> QED BY <1>1 DEF Typed

(* So does every step of the round, *)
LEMMA MixingTyped == ASSUME Typed, Mixing PROVE Typed'
<1>1. /\ kvs \in [Node -> Models] /\ \A p \in Node : Sound(kvs[p])
      /\ round \in Rounds /\ Sound(round.model) /\ round.wait \subseteq round.srv
      /\ round.at \in {"diffs", "puts"} => mix.id # 0
      /\ mix \in Mixes /\ puts \subseteq Puts /\ (\A m \in puts : m.id <= mix.id)
      /\ spoilt \in BOOLEAN /\ nodes \subseteq Node
  BY DEF Typed
<1>2. NoRound \in Rounds /\ Sound(NoRound.model) /\ NoRound.wait = {} /\ NoRound.at = "idle"
  BY NoRoundIs
<1>3. CASE Claim
  <2>1. /\ obsolete' \subseteq obsolete /\ round' = [round EXCEPT !.at = "members"]
        /\ UNCHANGED <<up, nodes, kvs, due, puts, mix, spoilt, saved, left>>
    BY <1>3 DEF Claim, Goto, cluster, history
  <2>2. /\ round' \in Rounds /\ round'.model = round.model /\ round'.wait = round.wait
        /\ round'.srv = round.srv /\ round'.at = "members"
    BY <1>1, <2>1 DEF Rounds, Phases
  <2> QED BY <1>1, <2>1, <2>2, RoundTyped
<1>4. CASE ChoosePeer
  <2>1. PICK p \in nodes \ {round.by} : round' = [round EXCEPT !.at = "fetch", !.wait = {p}, !.srv = {p}]
    BY <1>4 DEF ChoosePeer
  <2>2. UNCHANGED <<up, nodes, kvs, obsolete, due, puts, mix, spoilt, saved, left>>
    BY <1>4 DEF ChoosePeer, cluster, mixer, history
  <2>3. /\ round' \in Rounds /\ round'.model = round.model /\ round'.wait = {p}
        /\ round'.srv = {p} /\ round'.at = "fetch"
    BY <1>1, <2>1 DEF Rounds, Phases
  <2> QED BY <1>1, <2>2, <2>3, RoundTyped
<1>5. CASE Fetch
  <2>1. PICK p \in round.wait :
           \/ /\ p \in up /\ UNCHANGED <<spoilt, left>>
              /\ round' = [round EXCEPT !.at = "unpack", !.wait = {}, !.model = kvs[p]]
           \/ /\ \/ p \notin up /\ UNCHANGED left
                 \/ p \in up /\ Spend("lost")
              /\ round' = NoRound /\ UNCHANGED spoilt
    BY <1>5 DEF Fetch
  <2>2. UNCHANGED <<up, nodes, kvs, obsolete, due, puts, mix, saved>> /\ UNCHANGED spoilt
    BY <1>5, <2>1 DEF Fetch, cluster, mixer
  <2>3. left' = left \/ Spend("lost")
    BY <2>1
  <2>4. kvs[p] \in Models /\ Sound(kvs[p])
    BY <1>1 DEF Rounds
  <2>5. CASE round' = [round EXCEPT !.at = "unpack", !.wait = {}, !.model = kvs[p]]
    <3>1. round' \in Rounds /\ round'.model = kvs[p] /\ round'.wait = {} /\ round'.at = "unpack"
      BY <1>1, <2>4, <2>5 DEF Rounds, Phases
    <3> QED BY <1>1, <2>2, <2>3, <2>4, <3>1, RoundTyped
  <2>6. CASE round' = NoRound
    BY <1>1, <1>2, <2>2, <2>3, <2>6, RoundTyped
  <2> QED BY <2>1, <2>5, <2>6
<1>6. CASE Unpack
  <2>1. /\ round.by \in up /\ kvs' = [kvs EXCEPT ![round.by] = round.model] /\ Touched(round.by)
        /\ round' = [round EXCEPT !.at = "members"]
        /\ UNCHANGED <<up, nodes, obsolete, due, puts, spoilt, saved, left>>
    BY <1>6 DEF Unpack, At, Goto, cluster, mixer
  <2>2. round.by \in Node /\ round.model \in Models
    BY <1>1, <2>1 DEF Typed, Rounds
  <2>3. kvs' \in [Node -> Models] /\ \A p \in Node : Sound(kvs'[p])
    BY <1>1, <2>1, <2>2, Replaced
  <2>4. mix' \in Mixes /\ mix'.id = mix.id
    BY <1>1, <2>1, TouchedIs
  <2>5. /\ round' \in Rounds /\ round'.model = round.model /\ round'.wait = round.wait
        /\ round'.srv = round.srv /\ round'.at = "members"
    BY <1>1, <2>1 DEF Rounds, Phases
  <2> QED BY <1>1, <2>1, <2>3, <2>4, <2>5, RoundTyped
<1>7. CASE UpdateMembers
  <2>1. /\ round' = [round EXCEPT !.at = "diffs", !.srv = nodes, !.wait = nodes,
                                  !.any = FALSE, !.sum = 0, !.size = 0]
        /\ mix' = [id |-> mix.id + 1, parts |-> {}, took |-> {}, kept |-> {}]
        /\ spoilt' = FALSE /\ UNCHANGED <<up, nodes, kvs, obsolete, due, puts, saved, left>>
    BY <1>7 DEF UpdateMembers, cluster, mixer
  <2>2. /\ round' \in Rounds /\ round'.model = round.model /\ round'.wait = nodes /\ round'.srv = nodes
    <3>1. PICK z \in Int \cap (0..Word - 1) : z = 0
      BY WordIs
    <3>2. round' = [round EXCEPT !.at = "diffs", !.srv = nodes, !.wait = nodes,
                                 !.any = FALSE, !.sum = z, !.size = z]
      BY <2>1, <3>1
    <3>3. z \in Int /\ z \in 0..Word - 1 /\ nodes \in SUBSET Node
      BY <1>1
    <3> QED BY <1>1, <3>2, <3>3 DEF Rounds, Phases
  <2>3. mix.id \in Nat
    BY <1>1 DEF Mixes
  <2>4. mix' \in Mixes /\ mix'.id = mix.id + 1 /\ mix'.id # 0
    BY <2>1, <2>3 DEF Mixes
  <2>5. \A m \in puts' : m.id <= mix'.id
    BY <1>1, <2>1, <2>3, <2>4 DEF Puts
  <2> QED BY <1>1, <2>1, <2>2, <2>4, <2>5, RoundTyped
<1>8. CASE SendMix
  <2>1. /\ round.at = "diffs" /\ round.wait = {}
        /\ UNCHANGED <<up, nodes, kvs, obsolete, due, mix, spoilt, saved, left>>
    BY <1>8 DEF SendMix, At, cluster, mixer, history
  <2>2. CASE /\ round.any
             /\ puts' = puts \cup {[to |-> p, id |-> mix.id, sum |-> round.sum,
                                    size |-> round.size] : p \in round.srv}
             /\ round' = [round EXCEPT !.at = "puts", !.wait = round.srv]
    <3>1. /\ round' \in Rounds /\ round'.model = round.model /\ round'.wait = round.srv
          /\ round'.srv = round.srv
      BY <1>1, <2>2 DEF Rounds, Phases
    <3>2. mix.id \in Nat \ {0} /\ round.srv \in SUBSET Node /\ round.sum \in Int /\ round.size \in 0..Word - 1
      BY <1>1, <2>1 DEF Mixes, Rounds
    <3>3. \A p \in round.srv : [to |-> p, id |-> mix.id, sum |-> round.sum, size |-> round.size] \in Puts
      BY <3>2 DEF Puts
    <3>4. puts' \subseteq Puts
      BY <1>1, <2>2, <3>3
    <3>5. \A m \in puts' : m \in puts \/ m.id = mix.id
      BY <2>2
    <3>6. \A m \in puts' : m.id <= mix'.id
      BY <1>1, <2>1, <3>2, <3>5
    <3> QED BY <1>1, <2>1, <3>1, <3>4, <3>6, RoundTyped
  <2>3. CASE puts' = puts /\ round' = NoRound
    BY <1>1, <1>2, <2>1, <2>3, RoundTyped
  <2> QED BY <1>8, <2>2, <2>3 DEF SendMix
<1>9. CASE EndMix
  <2>1. /\ UNCHANGED <<up, nodes, kvs, obsolete, due, puts, mix, spoilt, saved, left>>
        /\ round' = [NoRound EXCEPT !.by = round.by, !.at = "model"] \/ round' = NoRound
    BY <1>9 DEF EndMix, cluster, mixer, history
  <2>2. CASE round' = [NoRound EXCEPT !.by = round.by, !.at = "model"]
    <3>1. round.by \in Node \cup {0}
      BY <1>1 DEF Rounds
    <3>2. round' \in Rounds /\ round'.model = NoRound.model /\ round'.wait = {} /\ round'.at = "model"
      BY <1>2, <2>2, <3>1 DEF Rounds, Phases
    <3> QED BY <1>1, <1>2, <2>1, <3>2, RoundTyped
  <2>3. CASE round' = NoRound
    BY <1>1, <1>2, <2>1, <2>3, RoundTyped
  <2> QED BY <2>1, <2>2, <2>3
<1>10. ASSUME NEW p \in Node, GetDiff(p) PROVE Typed'
  <2>1. /\ round.at = "diffs" /\ p \in up
        /\ round' = [round EXCEPT !.wait = round.wait \ {p}, !.any = TRUE,
                                  !.sum = Signed(round.sum + kvs[p].lsum),
                                  !.size = (round.size + Size(kvs[p])) % Word]
        /\ mix' = [mix EXCEPT !.parts = mix.parts \cup {p}, !.kept = mix.kept \cup {p}]
        /\ UNCHANGED <<up, nodes, kvs, obsolete, due, puts, spoilt, saved, left>>
    BY <1>10 DEF GetDiff, At, cluster, mixer
  <2>2. kvs[p].lsum \in Int /\ Size(kvs[p]) \in Nat
    BY <1>1, ModelIs, SizeIs DEF Sound
  <2>3. round.sum \in Int /\ round.size \in 0..Word - 1
    BY <1>1 DEF Rounds
  <2>4. PICK s : s = Signed(round.sum + kvs[p].lsum)
    OBVIOUS
  <2>5. PICK z : z = (round.size + Size(kvs[p])) % Word
    OBVIOUS
  <2>6. s \in Int /\ z \in 0..Word - 1
    <3>1. round.size + Size(kvs[p]) \in Int /\ round.sum + kvs[p].lsum \in Int
      BY <2>2, <2>3
    <3> QED BY <2>4, <2>5, <3>1, WordIs, SignedIs
  <2>7. round' = [round EXCEPT !.wait = round.wait \ {p}, !.any = TRUE, !.sum = s, !.size = z]
    BY <2>1, <2>4, <2>5
  <2>8. /\ round' \in Rounds /\ round'.model = round.model /\ round'.wait = round.wait \ {p}
        /\ round'.srv = round.srv /\ round'.at = round.at
    BY <1>1, <2>6, <2>7 DEF Rounds
  <2>9. mix' \in Mixes /\ mix'.id = mix.id
    BY <1>1, <2>1 DEF Mixes
  <2> QED BY <1>1, <2>1, <2>8, <2>9, RoundTyped
<1>11. ASSUME NEW p \in Node, GetDiffFails(p) PROVE Typed'
  <2>1. /\ round' = [round EXCEPT !.wait = round.wait \ {p}]
        /\ UNCHANGED <<up, nodes, kvs, obsolete, due, puts, mix, saved>>
        /\ left' = left \/ Spend("lost")
        /\ spoilt' = spoilt \/ spoilt' = TRUE
    BY <1>11 DEF GetDiffFails, cluster, mixer
  <2>2. /\ round' \in Rounds /\ round'.model = round.model /\ round'.wait = round.wait \ {p}
        /\ round'.srv = round.srv /\ round'.at = round.at
    BY <1>1, <2>1 DEF Rounds
  <2> QED BY <1>1, <2>1, <2>2, RoundTyped
<1>12. ASSUME NEW p \in Node, PutDiffFails(p) PROVE Typed'
  <2>1. /\ round' = [round EXCEPT !.wait = round.wait \ {p}]
        /\ UNCHANGED <<up, nodes, kvs, obsolete, due, mix, saved>>
        /\ left' = left \/ Spend("lost")
        /\ spoilt' = spoilt \/ spoilt' = TRUE
        /\ puts' \subseteq puts
    BY <1>12 DEF PutDiffFails, cluster, mixer
  <2>2. /\ round' \in Rounds /\ round'.model = round.model /\ round'.wait = round.wait \ {p}
        /\ round'.srv = round.srv /\ round'.at = round.at
    BY <1>1, <2>1 DEF Rounds
  <2> QED BY <1>1, <2>1, <2>2, RoundTyped
<1> QED BY <1>3, <1>4, <1>5, <1>6, <1>7, <1>8, <1>9, <1>10, <1>11, <1>12 DEF Mixing

(* and every step at all. *)
LEMMA TypedStep == ASSUME Typed, [Next]_vars PROVE Typed'
<1>1. /\ kvs \in [Node -> Models] /\ \A p \in Node : Sound(kvs[p])
      /\ round \in Rounds /\ Sound(round.model) /\ round.wait \subseteq round.srv
      /\ round.at \in {"diffs", "puts"} => mix.id # 0
      /\ mix \in Mixes /\ puts \subseteq Puts /\ (\A m \in puts : m.id <= mix.id)
      /\ spoilt \in BOOLEAN /\ nodes \subseteq Node /\ up \subseteq nodes
      /\ obsolete \subseteq up /\ due \subseteq up
      /\ \A b \in DOMAIN left : left[b] \in Nat
  BY DEF Typed
<1>2. NoRound \in Rounds /\ Sound(NoRound.model) /\ NoRound.wait = {} /\ NoRound.at = "idle"
  BY NoRoundIs
<1>3. CASE UNCHANGED vars
  BY <1>3 DEF Typed, vars
<1>4. CASE Mixing
  BY <1>4, MixingTyped
<1>5. ASSUME NEW m \in puts, PutDiff(m) PROVE Typed'
  <2>1. /\ m.to \in up /\ kvs' = [kvs EXCEPT ![m.to] = TakeDiff(kvs[m.to], m.sum, m.size)]
        /\ obsolete' \subseteq obsolete /\ due' \subseteq due /\ puts' = puts \ {m} /\ Answered(m)
        /\ mix' = [mix EXCEPT !.took = IF m.id = mix.id THEN mix.took \cup {m.to} ELSE mix.took \ {m.to}]
        /\ spoilt' \in BOOLEAN /\ UNCHANGED <<up, nodes, saved, left>>
    BY <1>1, <1>5 DEF PutDiff, cluster
  <2>2. m.to \in Node /\ m.sum \in Int /\ m.size \in 0..Word - 1
    BY <1>1 DEF Puts
  <2>3. kvs[m.to] \in Models /\ Sound(kvs[m.to])
    BY <1>1, <2>2
  <2>4. TakeDiff(kvs[m.to], m.sum, m.size) \in Models /\ Sound(TakeDiff(kvs[m.to], m.sum, m.size))
    BY <2>2, <2>3, TakeDiffSound
  <2>5. kvs' \in [Node -> Models] /\ \A p \in Node : Sound(kvs'[p])
    BY <1>1, <2>1, <2>2, <2>4, Replaced
  <2>6. PICK w : w \subseteq round.wait /\ round' = [round EXCEPT !.wait = w]
    BY <2>1 DEF Answered
  <2>7. /\ round' \in Rounds /\ round'.model = round.model /\ round'.wait = w
        /\ round'.srv = round.srv /\ round'.at = round.at
    <3>1. w \in SUBSET Node
      BY <1>1, <2>6 DEF Rounds
    <3> QED BY <1>1, <2>6, <3>1 DEF Rounds
  <2>8. mix' \in Mixes /\ mix'.id = mix.id
    BY <1>1, <2>1, <2>2 DEF Mixes
  <2> QED BY <1>1, <2>1, <2>5, <2>6, <2>7, <2>8, RoundTyped
<1>6. ASSUME NEW n \in Node, Calls(n) PROVE Typed'
  BY <1>6, CallsTyped
<1>7. ASSUME NEW n \in Node, StartMix(n) PROVE Typed'
  <2>1. /\ due' \subseteq due /\ round' = [NoRound EXCEPT !.by = n, !.at = "members", !.loop = TRUE]
        /\ UNCHANGED <<up, nodes, kvs, obsolete, puts, mix, spoilt, saved, left>>
    BY <1>7 DEF StartMix, cluster, history
  <2>2. round' \in Rounds /\ round'.model = NoRound.model /\ round'.wait = {} /\ round'.at = "members"
    BY <1>2, <2>1 DEF Rounds, Phases
  <2> QED BY <1>1, <1>2, <2>1, <2>2, RoundTyped
<1>8. ASSUME NEW n \in Node, StartUpdate(n) PROVE Typed'
  <2>1. /\ round' = [NoRound EXCEPT !.by = n, !.at = "model"]
        /\ UNCHANGED <<up, nodes, kvs, obsolete, due, puts, mix, spoilt, saved, left>>
    BY <1>8 DEF StartUpdate, cluster, mixer, history
  <2>2. round' \in Rounds /\ round'.model = NoRound.model /\ round'.wait = {} /\ round'.at = "model"
    BY <1>2, <2>1 DEF Rounds, Phases
  <2> QED BY <1>1, <1>2, <2>1, <2>2, RoundTyped
<1>9. ASSUME NEW n \in Node, Start(n) PROVE Typed'
  <2>1. /\ Spend("start") /\ up' = up \cup {n} /\ nodes' = nodes \cup {n}
        /\ kvs' = [kvs EXCEPT ![n] = Empty] /\ Touched(n)
        /\ obsolete' = obsolete \cup {n} /\ due' = due \ {n}
        /\ UNCHANGED <<round, puts, spoilt, saved>>
    BY <1>9 DEF Start
  <2>2. kvs' \in [Node -> Models] /\ \A p \in Node : Sound(kvs'[p])
    BY <1>1, <2>1, EmptySound, Replaced
  <2>3. mix' \in Mixes /\ mix'.id = mix.id
    BY <1>1, <2>1, TouchedIs
  <2>4. \A c \in DOMAIN left' : left'[c] \in Nat
    BY <1>1, <2>1, SpendLeft
  <2> QED BY <1>1, <2>1, <2>2, <2>3, <2>4 DEF Typed
<1>10. ASSUME NEW n \in Node, Crash(n) PROVE Typed'
  <2>1. /\ Spend("crash") /\ up' = up \ {n} /\ obsolete' = obsolete \ {n} /\ due' = due \ {n}
        /\ puts' \subseteq puts /\ spoilt' = TRUE /\ Touched(n) /\ UNCHANGED <<nodes, kvs, saved>>
        /\ round' = [NoRound EXCEPT !.by = n, !.at = "dead"] \/ round' = round
    BY <1>10 DEF Crash
  <2>2. mix' \in Mixes /\ mix'.id = mix.id
    BY <1>1, <2>1, TouchedIs
  <2>3. \A c \in DOMAIN left' : left'[c] \in Nat
    BY <1>1, <2>1, SpendLeft
  <2>4. /\ round' \in Rounds /\ Sound(round'.model) /\ round'.wait \subseteq round'.srv
        /\ round'.at \in {"diffs", "puts"} => mix'.id # 0
    <3>1. CASE round' = [NoRound EXCEPT !.by = n, !.at = "dead"]
      <4>1. round' \in Rounds /\ round'.model = NoRound.model /\ round'.wait = {} /\ round'.at = "dead"
        BY <1>2, <3>1 DEF Rounds, Phases
      <4> QED BY <1>2, <4>1
    <3>2. CASE round' = round
      BY <1>1, <2>2, <3>2
    <3> QED BY <2>1, <3>1, <3>2
  <2> QED BY <1>1, <2>1, <2>2, <2>3, <2>4 DEF Typed
<1>11. ASSUME NEW n \in Node, Expire(n) PROVE Typed'
  <2>1. /\ n \notin up /\ nodes' = nodes \ {n}
        /\ UNCHANGED <<up, kvs, obsolete, due, puts, mix, spoilt, saved, left>>
        /\ round' = NoRound \/ round' = round
    BY <1>11 DEF Expire, mixer, history
  <2>2. /\ round' \in Rounds /\ Sound(round'.model) /\ round'.wait \subseteq round'.srv
        /\ round'.at \in {"diffs", "puts"} => mix'.id # 0
    <3>1. CASE round' = NoRound
      BY <1>2, <3>1
    <3>2. CASE round' = round
      BY <1>1, <2>1, <3>2
    <3> QED BY <2>1, <3>1, <3>2
  <2> QED BY <1>1, <2>1, <2>2 DEF Typed
<1> QED BY <1>3, <1>4, <1>5, <1>6, <1>7, <1>8, <1>9, <1>10, <1>11 DEF Next

-----------------------------------------------------------------------------
(* The mix *)

(* The sum and the number of the values of the servers whose diffs went    *)
(* into the mix.                                                           *)
Sums == [n \in Node |-> kvs[n].lsum]
Sizes == [n \in Node |-> Size(kvs[n])]
MixSum == SumFunctionOnSet(Sums, mix.parts)
MixSize == SumFunctionOnSet(Sizes, mix.parts)

Whole == mix.parts \subseteq mix.kept

(* What is told of the mix as long as none of them has changed.            *)
Carries(sum, size) == Whole => sum = Signed(MixSum) /\ (MixSize < Word => size = MixSize)

(* Whose values still are what the mix was made of is among its parts.     *)
(* While diffs are gathered, the round has those of the parts; a request   *)
(* under way carries the mix, and what a taker holds of the others comes   *)
(* to the mix together with what it holds itself.                          *)
Mixed ==
  /\ mix.kept \subseteq mix.parts
  /\ round.at = "diffs" =>
       /\ round.wait \cap mix.parts = {} /\ mix.took = {} /\ \A m \in puts : m.id # mix.id
       /\ Carries(round.sum, round.size)
  /\ \A m \in puts : m.id = mix.id => Carries(m.sum, m.size)
  /\ \A n \in mix.took \cap mix.kept : Carries(Average(kvs[n]).sum, Average(kvs[n]).size)

IInv == Typed /\ Mixed

(* What is added up. *)
LEMMA SumsAre ==
  ASSUME Typed
  PROVE  /\ \A n \in Node : Sums[n] \in Int /\ Sizes[n] \in Nat
         /\ \A S \in SUBSET Node : IsFiniteSet(S)
         /\ mix.parts \in SUBSET Node /\ IsFiniteSet(mix.parts)
<1>1. \A n \in Node : kvs[n] \in Models /\ Sound(kvs[n])
  BY DEF Typed
<1>2. \A n \in Node : kvs[n].lsum \in Int /\ Size(kvs[n]) \in Nat
  BY <1>1, ModelIs, SizeIs DEF Sound
<1>3. \A S \in SUBSET Node : IsFiniteSet(S)
  BY FS_Subset, KvsAssumption
<1>4. mix.parts \in SUBSET Node
  BY DEF Typed, Mixes
<1> QED BY <1>2, <1>3, <1>4 DEF Sums, Sizes

(* The sums of the mix are numbers. *)
LEMMA MixInt == ASSUME Typed PROVE MixSum \in Int /\ MixSize \in Int
<1>1. /\ \A n \in mix.parts : Sums[n] \in Int /\ Sizes[n] \in Int
      /\ IsFiniteSet(mix.parts)
  BY SumsAre
<1> QED BY <1>1, SumInt DEF MixSum, MixSize

(* The number of its values is a natural, *)
LEMMA MixNat == ASSUME Typed PROVE MixSize \in Nat
<1>1. IsFiniteSet(mix.parts) /\ \A n \in mix.parts : Sizes[n] \in Nat
  BY SumsAre
<1> QED BY <1>1, SumNat DEF MixSize

(* and no less than the number of the values of one server in it. *)
LEMMA PartOfMix == ASSUME Typed, NEW n \in mix.parts PROVE Size(kvs[n]) <= MixSize
<1>1. IsFiniteSet(mix.parts) /\ n \in Node /\ \A p \in mix.parts : Sizes[p] \in Nat
  BY SumsAre
<1>2. IsFiniteSet(mix.parts \ {n})
  BY <1>1, FS_Subset
<1>3. SumFunctionOnSet(Sizes, mix.parts \ {n}) \in Nat
  BY <1>1, <1>2, SumNat
<1>4. SumFunctionOnSet(Sizes, mix.parts) = Sizes[n] + SumFunctionOnSet(Sizes, mix.parts \ {n})
  BY <1>1, SumRemove
<1>5. Sizes[n] = Size(kvs[n]) /\ Sizes[n] \in Nat
  BY <1>1 DEF Sizes
<1> QED BY <1>3, <1>4, <1>5 DEF MixSize

(* A mix stays what it was made of while its parts keep their pairs. *)
LEMMA MixKept ==
  ASSUME Typed, Typed', mix'.parts = mix.parts,
         \A p \in mix.parts : kvs'[p].lsum = kvs[p].lsum /\ Size(kvs'[p]) = Size(kvs[p])
  PROVE  MixSum' = MixSum /\ MixSize' = MixSize
<1>1. mix.parts \in SUBSET Node /\ IsFiniteSet(mix.parts)
  BY SumsAre
<1>2. \A p \in mix.parts : Sums[p] = Sums'[p] /\ Sizes[p] = Sizes'[p]
  BY <1>1 DEF Sums, Sizes
<1>3. /\ SumFunctionOnSet(Sums, mix.parts) = SumFunctionOnSet(Sums', mix.parts)
      /\ SumFunctionOnSet(Sizes, mix.parts) = SumFunctionOnSet(Sizes', mix.parts)
  BY <1>1, <1>2, SumSame
<1> QED BY <1>3 DEF MixSum, MixSize

(* A step that takes no part in the mix: those in T may change, and are no *)
(* more among the unchanged ones.                                          *)
LEMMA AsideMixed ==
  ASSUME Typed, Typed', Mixed, NEW T,
         mix'.id = mix.id, mix'.parts = mix.parts, mix'.took = mix.took, mix'.kept = mix.kept \ T,
         \A p \in Node \ T : kvs'[p] = kvs[p],
         puts' \subseteq puts,
         round'.at = "diffs" =>
           /\ round.at = "diffs" /\ round'.wait \subseteq round.wait
           /\ round'.sum = round.sum /\ round'.size = round.size
  PROVE  Mixed'
<1>1. mix.parts \in SUBSET Node /\ mix.kept \subseteq mix.parts
  BY SumsAre DEF Mixed
<1>2. ASSUME Whole' PROVE Whole /\ MixSum' = MixSum /\ MixSize' = MixSize
  <2>1. mix.parts \subseteq mix.kept \ T
    BY <1>2 DEF Whole
  <2>2. Whole /\ \A p \in mix.parts : kvs'[p] = kvs[p]
    BY <1>1, <2>1 DEF Whole
  <2> QED BY <2>2, MixKept
<1>3. \A s, z : Carries(s, z) => Carries(s, z)'
  BY <1>2 DEF Carries
<1>4. mix'.kept \subseteq mix'.parts
  BY <1>1
<1>5. ASSUME round'.at = "diffs"
      PROVE  /\ round'.wait \cap mix'.parts = {} /\ mix'.took = {} /\ \A m \in puts' : m.id # mix'.id
             /\ Carries(round.sum, round.size)'
  <2>1. PICK s, z : s = round.sum /\ z = round.size
    OBVIOUS
  <2>2. /\ round.wait \cap mix.parts = {} /\ mix.took = {} /\ \A m \in puts : m.id # mix.id
        /\ Carries(s, z)
    BY <1>5, <2>1 DEF Mixed
  <2>3. Carries(s, z)' /\ round'.sum = s /\ round'.size = z
    BY <1>3, <1>5, <2>1, <2>2
  <2>4. Carries(round.sum, round.size)'
    BY <2>3 DEF Carries
  <2> QED BY <1>5, <2>2, <2>4
<1>6. ASSUME NEW m \in puts', m.id = mix'.id PROVE Carries(m.sum, m.size)'
  <2>1. Carries(m.sum, m.size)
    BY <1>6 DEF Mixed
  <2> QED BY <1>3, <2>1 DEF Carries
<1>7. ASSUME NEW n \in mix'.took \cap mix'.kept
      PROVE  Carries(Average(kvs[n]).sum, Average(kvs[n]).size)'
  <2>1. n \in mix.took \cap mix.kept /\ n \in Node \ T
    BY <1>1, <1>7
  <2>2. kvs'[n] = kvs[n]
    BY <2>1
  <2>3. PICK s, z : s = Average(kvs[n]).sum /\ z = Average(kvs[n]).size
    OBVIOUS
  <2>4. Carries(s, z)
    BY <2>1, <2>3 DEF Mixed
  <2>5. Carries(s, z)'
    BY <1>3, <2>4
  <2>6. Average(kvs'[n]).sum = s /\ Average(kvs'[n]).size = z
    BY <2>2, <2>3
  <2> QED BY <2>5, <2>6 DEF Carries
<1> QED BY <1>4, <1>5, <1>6, <1>7 DEF Mixed

(* A mix begins. *)
LEMMA UpdateMembersMixed == ASSUME Typed, Typed', Mixed, UpdateMembers PROVE Mixed'
<1>1. /\ round' = [round EXCEPT !.at = "diffs", !.srv = nodes, !.wait = nodes,
                                !.any = FALSE, !.sum = 0, !.size = 0]
      /\ mix' = [id |-> mix.id + 1, parts |-> {}, took |-> {}, kept |-> {}]
      /\ UNCHANGED <<kvs, puts>>
  BY DEF UpdateMembers
<1>2. round \in Rounds /\ mix.id \in Nat /\ puts \subseteq Puts /\ \A m \in puts : m.id <= mix.id
  BY DEF Typed, Mixes
<1>3. round'.sum = 0 /\ round'.size = 0
  BY <1>1, <1>2 DEF Rounds
<1>4. mix'.id = mix.id + 1 /\ mix'.parts = {} /\ mix'.took = {} /\ mix'.kept = {}
  BY <1>1
<1>5. \A m \in puts' : m.id # mix'.id
  BY <1>1, <1>2, <1>4 DEF Puts
<1>6. MixSum' = 0 /\ MixSize' = 0
  BY <1>4, SumEmpty DEF MixSum, MixSize
<1>7. Signed(0) = 0
  BY SignedSmall, WordIs
<1>8. Carries(round.sum, round.size)'
  BY <1>3, <1>6, <1>7 DEF Carries
<1> QED BY <1>4, <1>5, <1>8 DEF Mixed

(* A diff goes into it. *)
LEMMA GetDiffMixed == ASSUME Typed, Typed', Mixed, NEW p \in Node, GetDiff(p) PROVE Mixed'
<1>1. /\ round.at = "diffs" /\ p \in round.wait
      /\ round' = [round EXCEPT !.wait = round.wait \ {p}, !.any = TRUE,
                                  !.sum = Signed(round.sum + kvs[p].lsum),
                                !.size = (round.size + Size(kvs[p])) % Word]
      /\ mix' = [mix EXCEPT !.parts = mix.parts \cup {p}, !.kept = mix.kept \cup {p}]
      /\ UNCHANGED <<kvs, puts>>
  BY DEF GetDiff, At
<1>2. round \in Rounds /\ mix \in Mixes
  BY DEF Typed
<1>3. round'.wait = round.wait \ {p} /\ round'.sum = Signed(round.sum + kvs[p].lsum)
      /\ round'.size = (round.size + Size(kvs[p])) % Word
  BY <1>1, <1>2 DEF Rounds
<1>4. /\ mix'.id = mix.id /\ mix'.took = mix.took
      /\ mix'.parts = mix.parts \cup {p} /\ mix'.kept = mix.kept \cup {p}
  BY <1>1, <1>2 DEF Mixes
<1>5. /\ mix.kept \subseteq mix.parts /\ p \notin mix.parts
      /\ round.wait \cap mix.parts = {} /\ mix.took = {} /\ \A m \in puts : m.id # mix.id
      /\ Carries(round.sum, round.size)
  BY <1>1 DEF Mixed
<1>6. ASSUME Whole' PROVE Whole
  BY <1>4, <1>5, <1>6 DEF Whole
<1>7. mix.parts \cup {p} \in SUBSET Node /\ IsFiniteSet(mix.parts \cup {p})
  BY SumsAre
<1>8. Sums' = Sums /\ Sizes' = Sizes /\ Sums[p] = kvs[p].lsum /\ Sizes[p] = Size(kvs[p])
  BY <1>1 DEF Sums, Sizes
<1>9. (mix.parts \cup {p}) \ {p} = mix.parts
  BY <1>5
<1>10. MixSum' = kvs[p].lsum + MixSum
  <2>1. \A y \in mix.parts \cup {p} : Sums[y] \in Int
    BY <1>7, SumsAre
  <2>2. SumFunctionOnSet(Sums, mix.parts \cup {p})
          = Sums[p] + SumFunctionOnSet(Sums, (mix.parts \cup {p}) \ {p})
    BY <1>7, <2>1, SumRemove
  <2> QED BY <1>4, <1>8, <1>9, <2>2 DEF MixSum
<1>11. MixSize' = Size(kvs[p]) + MixSize
  <2>1. \A y \in mix.parts \cup {p} : Sizes[y] \in Int
    BY <1>7, SumsAre
  <2>2. SumFunctionOnSet(Sizes, mix.parts \cup {p})
          = Sizes[p] + SumFunctionOnSet(Sizes, (mix.parts \cup {p}) \ {p})
    BY <1>7, <2>1, SumRemove
  <2> QED BY <1>4, <1>8, <1>9, <2>2 DEF MixSize
<1>12. MixSize \in Nat /\ MixSum \in Int /\ Size(kvs[p]) \in Nat /\ kvs[p].lsum \in Int
  BY <1>8, SumsAre, MixInt, MixNat
<1>13. Carries(round.sum, round.size)'
  <2> SUFFICES ASSUME Whole' PROVE round'.sum = Signed(MixSum') /\ (MixSize' < Word => round'.size = MixSize')
    BY DEF Carries
  <2>1. round.sum = Signed(MixSum) /\ (MixSize < Word => round.size = MixSize)
    BY <1>5, <1>6 DEF Carries
  <2>2. round'.sum = Signed(MixSum')
    <3>1. Signed(Signed(MixSum) + kvs[p].lsum) = Signed(MixSum + kvs[p].lsum)
      BY <1>12, SignedAdds
    <3>2. MixSum + kvs[p].lsum = MixSum'
      BY <1>10, <1>12
    <3> QED BY <1>3, <2>1, <3>1, <3>2
  <2>3. ASSUME MixSize' < Word PROVE round'.size = MixSize'
    <3>1. Size(kvs[p]) + MixSize < Word /\ Word \in Nat
      BY <1>11, <2>3, WordIs
    <3>2. MixSize < Word
      BY <1>12, <3>1
    <3>3. round.size + Size(kvs[p]) = MixSize' /\ MixSize' \in 0..Word - 1
      BY <1>11, <1>12, <2>1, <3>1, <3>2
    <3> QED BY <1>3, <3>3, ModSmall
  <2> QED BY <2>2, <2>3
<1>14. round'.wait \cap mix'.parts = {} /\ mix'.took = {} /\ \A m \in puts' : m.id # mix'.id
  BY <1>1, <1>3, <1>4, <1>5
<1>15. mix'.kept \subseteq mix'.parts
  BY <1>4, <1>5
<1> QED BY <1>13, <1>14, <1>15 DEF Mixed

(* Its result is sent. *)
LEMMA SendMixMixed == ASSUME Typed, Typed', Mixed, SendMix PROVE Mixed'
<1>1. round.at = "diffs" /\ UNCHANGED <<kvs, mix>>
  BY DEF SendMix, At, history
<1>2. Carries(round.sum, round.size) /\ mix.took = {} /\ mix.kept \subseteq mix.parts
  BY <1>1 DEF Mixed
<1>3. round \in Rounds
  BY DEF Typed
<1>4. \A s, z : Carries(s, z) => Carries(s, z)'
  BY <1>1 DEF Carries, Whole, MixSum, MixSize, Sums, Sizes
<1>5. round'.at # "diffs"
  <2>1. round' = [round EXCEPT !.at = "puts", !.wait = round.srv] \/ round' = NoRound
    BY DEF SendMix
  <2> QED BY <1>3, <2>1, NoRoundIs DEF Rounds
<1>6. \A m \in puts' : m \in puts \/ (m.sum = round.sum /\ m.size = round.size)
  BY DEF SendMix
<1>7. ASSUME NEW m \in puts', m.id = mix'.id PROVE Carries(m.sum, m.size)'
  <2>1. Carries(m.sum, m.size)
    <3>1. CASE m \in puts
      BY <1>1, <1>7, <3>1 DEF Mixed
    <3>2. CASE m.sum = round.sum /\ m.size = round.size
      BY <1>2, <3>2
    <3> QED BY <1>6, <3>1, <3>2
  <2> QED BY <1>4, <2>1 DEF Carries
<1> QED BY <1>1, <1>2, <1>5, <1>7 DEF Mixed

(* It is taken. *)
LEMMA PutDiffMixed == ASSUME Typed, Typed', Mixed, NEW m \in puts, PutDiff(m) PROVE Mixed'
<1> DEFINE n == m.to
<1>1. /\ kvs' = [kvs EXCEPT ![n] = TakeDiff(kvs[n], m.sum, m.size)]
      /\ puts' = puts \ {m} /\ Answered(m)
      /\ mix' = [mix EXCEPT !.took = IF m.id = mix.id THEN mix.took \cup {n} ELSE mix.took \ {n}]
  BY DEF PutDiff
<1>2. /\ kvs \in [Node -> Models] /\ \A p \in Node : Sound(kvs[p])
      /\ round \in Rounds /\ mix \in Mixes /\ m \in Puts
  BY DEF Typed
<1>3. n \in Node /\ m.sum \in Int /\ m.size \in 0..Word - 1
  BY <1>2 DEF Puts
<1>4. kvs[n] \in Models /\ Sound(kvs[n])
  BY <1>2, <1>3
<1> DEFINE t == TakeDiff(kvs[n], m.sum, m.size)
<1>5. /\ t \in Models /\ Sound(t) /\ t.lsum = kvs[n].lsum /\ t.data = kvs[n].data
      /\ t.gsum = Signed(m.sum - kvs[n].lsum) /\ t.gsize = (m.size - Size(kvs[n])) % Word
  BY <1>3, <1>4, TakeDiffSound
<1>6. Size(t) = Size(kvs[n])
  BY <1>5 DEF Size
<1>7. kvs'[n] = t /\ \A p \in Node \ {n} : kvs'[p] = kvs[p]
  BY <1>1, <1>2, <1>3
<1> HIDE DEF t
<1>8. \A p \in Node : kvs'[p].lsum = kvs[p].lsum /\ Size(kvs'[p]) = Size(kvs[p])
  BY <1>5, <1>6, <1>7
<1>9. /\ mix'.id = mix.id /\ mix'.parts = mix.parts /\ mix'.kept = mix.kept
      /\ mix'.took = IF m.id = mix.id THEN mix.took \cup {n} ELSE mix.took \ {n}
  BY <1>1, <1>2 DEF Mixes
<1>10. mix.parts \subseteq Node /\ mix.kept \subseteq mix.parts
  BY SumsAre DEF Mixed
<1>11. MixSum' = MixSum /\ MixSize' = MixSize
  BY <1>8, <1>9, <1>10, MixKept
<1>12. \A s, z : Carries(s, z) => Carries(s, z)'
  BY <1>9, <1>11 DEF Carries, Whole
<1>13. ASSUME round'.at = "diffs"
       PROVE  /\ round'.wait \cap mix'.parts = {} /\ mix'.took = {} /\ \A k \in puts' : k.id # mix'.id
              /\ Carries(round.sum, round.size)'
  <2>1. round'.at = round.at /\ round'.sum = round.sum /\ round'.size = round.size /\ round'.wait \subseteq round.wait
    <3>1. PICK w : w \subseteq round.wait /\ round' = [round EXCEPT !.wait = w]
      BY <1>1 DEF Answered
    <3> QED BY <1>2, <3>1 DEF Rounds
  <2>2. /\ round.wait \cap mix.parts = {} /\ mix.took = {} /\ \A k \in puts : k.id # mix.id
        /\ Carries(round.sum, round.size)
    BY <1>13, <2>1 DEF Mixed
  <2>3. PICK s, z : s = round.sum /\ z = round.size
    OBVIOUS
  <2>4. Carries(s, z)'
    BY <1>12, <2>2, <2>3
  <2>5. Carries(round.sum, round.size)'
    BY <2>1, <2>3, <2>4 DEF Carries
  <2> QED BY <1>1, <1>9, <2>1, <2>2, <2>5
<1>14. ASSUME NEW k \in puts', k.id = mix'.id PROVE Carries(k.sum, k.size)'
  <2>1. Carries(k.sum, k.size)
    BY <1>1, <1>9, <1>14 DEF Mixed
  <2> QED BY <1>12, <2>1 DEF Carries
<1>15. ASSUME NEW p \in mix'.took \cap mix'.kept
       PROVE  Carries(Average(kvs[p]).sum, Average(kvs[p]).size)'
  <2>1. p \in Node
    BY <1>9, <1>10
  <2>2. CASE p # n
    <3>1. p \in mix.took \cap mix.kept /\ kvs'[p] = kvs[p]
      BY <1>7, <1>9, <2>1, <2>2
    <3>2. PICK s, z : s = Average(kvs[p]).sum /\ z = Average(kvs[p]).size
      OBVIOUS
    <3>3. Carries(s, z)'
      BY <1>12, <3>1, <3>2 DEF Mixed
    <3>4. Average(kvs'[p]).sum = s /\ Average(kvs'[p]).size = z
      BY <3>1, <3>2
    <3> QED BY <3>3, <3>4 DEF Carries
  <2>3. CASE p = n
    <3>1. m.id = mix.id /\ n \in mix.kept /\ n \in mix.parts
      BY <1>9, <1>10, <2>3
    <3>2. Carries(m.sum, m.size)
      BY <3>1 DEF Mixed
    <3>3. Carries(m.sum, m.size)'
      BY <1>12, <3>2
    <3>4. kvs[n].lsum \in Int /\ Size(kvs[n]) \in Nat
      BY <1>4, ModelIs, SizeIs DEF Sound
    <3>5. ASSUME Whole' PROVE Average(kvs'[p]).sum = Signed(MixSum')
      <4>1. PICK l \in Int : l = kvs[n].lsum
        BY <3>4
      <4>2. Average(kvs'[p]).sum = Signed(Signed(m.sum - l) + l)
        BY <1>5, <1>7, <2>3, <4>1 DEF Average
      <4>3. m.sum - l \in Int /\ (m.sum - l) + l = m.sum
        BY <1>3, <4>1
      <4>4. Average(kvs'[p]).sum = Signed(m.sum)
        BY <4>2, <4>3, SignedAdds
      <4>5. m.sum = Signed(MixSum') /\ MixSum' \in Int
        BY <1>11, <3>3, <3>5, MixInt DEF Carries
      <4> QED BY <4>4, <4>5, SignedTwice
    <3>6. ASSUME Whole', MixSize' < Word PROVE Average(kvs'[p]).size = MixSize'
      <4>1. m.size = MixSize
        BY <1>11, <3>3, <3>6 DEF Carries
      <4>2. Size(kvs[n]) <= MixSize
        BY <3>1, PartOfMix
      <4>3. m.size - Size(kvs[n]) \in 0..Word - 1
        <5>1. Word \in Nat /\ m.size \in Nat /\ m.size <= Word - 1 /\ Size(kvs[n]) <= m.size
          BY <1>3, <4>1, <4>2, WordIs
        <5> HIDE DEF n
        <5> QED BY <3>4, <5>1
      <4>4. t.gsize = m.size - Size(kvs[n])
        BY <1>5, <4>3, ModSmall
      <4> HIDE DEF n
      <4> QED BY <1>3, <1>6, <1>7, <1>11, <2>3, <3>4, <4>1, <4>4 DEF Average
    <3> QED BY <3>3, <3>5, <3>6 DEF Carries
  <2> QED BY <2>2, <2>3
<1>16. mix'.kept \subseteq mix'.parts
  BY <1>9, <1>10
<1> QED BY <1>13, <1>14, <1>15, <1>16 DEF Mixed

(* No mix has been at first. *)
LEMMA InitMixed == Init => Mixed
<1> SUFFICES ASSUME Init PROVE Mixed
  OBVIOUS
<1>1. mix = [id |-> 0, parts |-> {}, took |-> {}, kept |-> {}] /\ puts = {} /\ round = NoRound
  BY DEF Init
<1>2. round.at = "idle"
  BY <1>1, NoRoundIs
<1> QED BY <1>1, <1>2 DEF Mixed

(* Every step keeps what is told of the mix true. *)
LEMMA MixedStep == ASSUME Typed, Typed', Mixed, [Next]_vars PROVE Mixed'
<1>1. mix \in Mixes /\ round \in Rounds /\ kvs \in [Node -> Models] /\ up \subseteq Node
  BY DEF Typed
<1>2. ASSUME UNCHANGED <<mix, kvs>>, puts' \subseteq puts,
             round'.at = "diffs" => /\ round.at = "diffs" /\ round'.wait \subseteq round.wait
                                    /\ round'.sum = round.sum /\ round'.size = round.size
      PROVE  Mixed'
  <2>1. mix'.kept = mix.kept \ {}
    BY <1>2
  <2> QED BY <1>2, <2>1, AsideMixed
<1>3. ASSUME NEW n, Touched(n), \A p \in Node \ {n} : kvs'[p] = kvs[p], puts' \subseteq puts,
             round'.at = "diffs" => round' = round
      PROVE  Mixed'
  <2>1. /\ mix'.id = mix.id /\ mix'.parts = mix.parts /\ mix'.took = mix.took
        /\ mix'.kept = mix.kept \ {n}
    BY <1>1, <1>3, TouchedIs
  <2> QED BY <1>3, <2>1, AsideMixed
<1>4. CASE UNCHANGED vars
  BY <1>2, <1>4 DEF vars
<1>5. CASE Mixing
  <2>1. CASE Claim
    <3>1. UNCHANGED <<mix, kvs, puts>> /\ round' = [round EXCEPT !.at = "members"]
      BY <2>1 DEF Claim, Goto, history
    <3>2. round'.at # "diffs"
      BY <1>1, <3>1 DEF Rounds
    <3> QED BY <1>2, <3>1, <3>2
  <2>2. CASE ChoosePeer
    <3>1. PICK p : round' = [round EXCEPT !.at = "fetch", !.wait = {p}, !.srv = {p}]
      BY <2>2 DEF ChoosePeer
    <3>2. UNCHANGED <<mix, kvs, puts>>
      BY <2>2 DEF ChoosePeer, history
    <3>3. round'.at # "diffs"
      BY <1>1, <3>1 DEF Rounds
    <3> QED BY <1>2, <3>2, <3>3
  <2>3. CASE Fetch
    <3>1. PICK p : \/ round' = [round EXCEPT !.at = "unpack", !.wait = {}, !.model = kvs[p]]
                   \/ round' = NoRound
      BY <2>3 DEF Fetch
    <3>2. UNCHANGED <<mix, kvs, puts>>
      BY <2>3 DEF Fetch
    <3>3. round'.at # "diffs"
      BY <1>1, <3>1, NoRoundIs DEF Rounds
    <3> QED BY <1>2, <3>2, <3>3
  <2>4. CASE Unpack
    <3>1. /\ round.by \in up /\ kvs' = [kvs EXCEPT ![round.by] = round.model] /\ Touched(round.by)
          /\ round' = [round EXCEPT !.at = "members"] /\ UNCHANGED puts
      BY <2>4 DEF Unpack, At, Goto
    <3>2. PICK n : n = round.by
      OBVIOUS
    <3>3. Touched(n) /\ kvs' = [kvs EXCEPT ![n] = round.model]
      BY <3>1, <3>2
    <3>4. \A p \in Node \ {n} : kvs'[p] = kvs[p]
      BY <1>1, <3>3
    <3>5. round'.at # "diffs"
      BY <1>1, <3>1 DEF Rounds
    <3> QED BY <1>3, <3>1, <3>3, <3>4, <3>5
  <2>5. CASE UpdateMembers
    BY <2>5, UpdateMembersMixed
  <2>6. CASE SendMix
    BY <2>6, SendMixMixed
  <2>7. CASE EndMix
    <3>1. /\ round' = [NoRound EXCEPT !.by = round.by, !.at = "model"] \/ round' = NoRound
          /\ UNCHANGED <<mix, kvs, puts>>
      BY <2>7 DEF EndMix, history
    <3>2. round'.at # "diffs"
      BY <3>1, NoRoundIs DEF Rounds
    <3> QED BY <1>2, <3>1, <3>2
  <2>8. ASSUME NEW p \in Node, GetDiff(p) PROVE Mixed'
    BY <2>8, GetDiffMixed
  <2>9. ASSUME NEW p \in Node, GetDiffFails(p) \/ PutDiffFails(p) PROVE Mixed'
    <3>1. round' = [round EXCEPT !.wait = @ \ {p}] /\ UNCHANGED <<mix, kvs>> /\ puts' \subseteq puts
      BY <2>9 DEF GetDiffFails, PutDiffFails
    <3>2. /\ round'.at = round.at /\ round'.wait \subseteq round.wait
          /\ round'.sum = round.sum /\ round'.size = round.size
      BY <1>1, <3>1 DEF Rounds
    <3> QED BY <1>2, <3>1, <3>2
  <2> QED BY <1>5, <2>1, <2>2, <2>3, <2>4, <2>5, <2>6, <2>7, <2>8, <2>9 DEF Mixing
<1>6. ASSUME NEW m \in puts, PutDiff(m) PROVE Mixed'
  BY <1>6, PutDiffMixed
<1>7. ASSUME NEW n \in Node, Calls(n) PROVE Mixed'
  <2>1. CASE \E k \in Key, v \in Value : Put(n, k, v)
    <3>1. PICK k \in Key, v \in Value : Put(n, k, v)
      BY <2>1
    <3>2. Touched(n) /\ kvs' = [kvs EXCEPT ![n] = Store(@, k, v)] /\ UNCHANGED <<round, puts>>
      BY <3>1 DEF Put
    <3>3. \A p \in Node \ {n} : kvs'[p] = kvs[p]
      BY <1>1, <3>2
    <3> QED BY <1>3, <3>2, <3>3
  <2>2. CASE Save(n)
    BY <1>2, <2>2 DEF Save, history
  <2>3. CASE Load(n)
    <3>1. Touched(n) /\ kvs' = [kvs EXCEPT ![n] = saved] /\ UNCHANGED <<round, puts>>
      BY <2>3 DEF Load
    <3>2. \A p \in Node \ {n} : kvs'[p] = kvs[p]
      BY <1>1, <3>1
    <3> QED BY <1>3, <3>1, <3>2
  <2> QED BY <1>7, <2>1, <2>2, <2>3 DEF Calls
<1>8. ASSUME NEW n \in Node, StartMix(n) PROVE Mixed'
  <2>1. /\ round' = [NoRound EXCEPT !.by = n, !.at = "members", !.loop = TRUE]
        /\ UNCHANGED <<mix, kvs, puts>>
    BY <1>8 DEF StartMix, history
  <2>2. round'.at # "diffs"
    BY <2>1, NoRoundIs DEF Rounds
  <2> QED BY <1>2, <2>1, <2>2
<1>9. ASSUME NEW n \in Node, StartUpdate(n) PROVE Mixed'
  <2>1. round' = [NoRound EXCEPT !.by = n, !.at = "model"] /\ UNCHANGED <<mix, kvs, puts>>
    BY <1>9 DEF StartUpdate, history
  <2>2. round'.at # "diffs"
    BY <2>1, NoRoundIs DEF Rounds
  <2> QED BY <1>2, <2>1, <2>2
<1>10. ASSUME NEW n \in Node, Start(n) PROVE Mixed'
  <2>1. Touched(n) /\ kvs' = [kvs EXCEPT ![n] = Empty] /\ UNCHANGED <<round, puts>>
    BY <1>10 DEF Start
  <2>2. \A p \in Node \ {n} : kvs'[p] = kvs[p]
    BY <1>1, <2>1
  <2> QED BY <1>3, <2>1, <2>2
<1>11. ASSUME NEW n \in Node, Crash(n) PROVE Mixed'
  <2>1. /\ Touched(n) /\ UNCHANGED kvs /\ puts' \subseteq puts
        /\ round' = [NoRound EXCEPT !.by = n, !.at = "dead"] \/ round' = round
    BY <1>11 DEF Crash
  <2>2. round'.at = "diffs" => round' = round
    BY <2>1, NoRoundIs DEF Rounds
  <2> QED BY <1>3, <2>1, <2>2
<1>12. ASSUME NEW n \in Node, Expire(n) PROVE Mixed'
  <2>1. UNCHANGED <<mix, kvs, puts>> /\ (round' = NoRound \/ round' = round)
    BY <1>12 DEF Expire, history
  <2>2. round'.at = "diffs" => round' = round
    BY <2>1, NoRoundIs
  <2> QED BY <1>2, <2>1, <2>2
<1> QED BY <1>4, <1>5, <1>6, <1>7, <1>8, <1>9, <1>10, <1>11, <1>12 DEF Next

(* The invariant is inductive: whatever is put, saved, loaded and copied,  *)
(* whoever joins or dies, and whichever calls are lost or late.            *)
THEOREM Invariance == Spec => []IInv
<1>1. Init => IInv
  BY InitTyped, InitMixed DEF IInv
<1>2. IInv /\ [Next]_vars => IInv'
  BY TypedStep, MixedStep DEF IInv
<1> QED BY <1>1, <1>2, PTL DEF Spec

(* Every variable keeps its type, and in every server lsum is the sum of   *)
(* the values it holds, as far as 32 bits tell.                            *)
THEOREM TypeCorrect == Spec => []TypeOK
<1>1. IInv => TypeOK
  BY TypedIsOK DEF IInv
<1> QED BY <1>1, Invariance, PTL

(* What the servers of the cluster hold, one by one. *)
LEMMA ClusterIs ==
  ASSUME Typed
  PROVE  LET own == [n \in up |-> SumOf(kvs[n])]
             num == [n \in up |-> Size(kvs[n])]
         IN  /\ ClusterAverage.sum = SumFunctionOnSet(own, up)
             /\ ClusterAverage.size = SumFunctionOnSet(num, up)
             /\ ClusterAverage.sum \in Int
             /\ \A n \in up : SumOf(kvs[n]) \in Int
<1> DEFINE own == [n \in up |-> SumOf(kvs[n])]
           num == [n \in up |-> Size(kvs[n])]
<1>1. IsFiniteSet(up) /\ up \subseteq Node
  BY SumsAre DEF Typed
<1>2. DOMAIN own = up /\ DOMAIN num = up
  OBVIOUS
<1>3. ClusterAverage.sum = SumFunction(own) /\ ClusterAverage.size = SumFunction(num)
  BY DEF ClusterAverage
<1>4. \A n \in up : own[n] = SumOf(kvs[n]) /\ SumOf(kvs[n]) \in Int
  <2> TAKE n \in up
  <2>1. kvs[n] \in Models /\ Sound(kvs[n])
    BY <1>1 DEF Typed
  <2>2. IsFiniteSet(DOMAIN kvs[n].data) /\ \A k \in DOMAIN kvs[n].data : kvs[n].data[k] \in Int
    BY <2>1, ModelIs, PairsAre DEF Sound
  <2>3. SumFunctionOnSet(kvs[n].data, DOMAIN kvs[n].data) \in Int
    BY <2>2, SumInt
  <2> QED BY <2>3 DEF SumOf, SumFunction
<1> HIDE DEF own, num
<1>5. ClusterAverage.sum = SumFunctionOnSet(own, up) /\ ClusterAverage.size = SumFunctionOnSet(num, up)
  BY <1>2, <1>3 DEF SumFunction
<1>6. ClusterAverage.sum \in Int
  BY <1>1, <1>4, <1>5, SumInt
<1> QED BY <1>4, <1>5, <1>6 DEF own, num

(* The sums of the cluster are those of a mix of all its servers, up to    *)
(* what wraps around, in the servers and in the mix.                       *)
LEMMA WholeClusterIs ==
  ASSUME Typed, mix.parts = up
  PROVE  Signed(MixSum) = Signed(ClusterAverage.sum) /\ ClusterAverage.size = MixSize
<1> DEFINE own == [n \in up |-> SumOf(kvs[n])]
           num == [n \in up |-> Size(kvs[n])]
<1>1. IsFiniteSet(up) /\ up \subseteq Node
  BY SumsAre
<1>2. /\ ClusterAverage.sum = SumFunctionOnSet(own, up)
      /\ ClusterAverage.size = SumFunctionOnSet(num, up)
  BY ClusterIs
<1>3. \A n \in up : own[n] \in Int /\ Sums[n] = Signed(own[n]) /\ Sizes[n] = num[n]
  <2> TAKE n \in up
  <2>1. Sums[n] = Signed(SumOf(kvs[n])) /\ Sizes[n] = Size(kvs[n])
    BY <1>1 DEF Typed, Sound, Sums, Sizes
  <2>2. SumOf(kvs[n]) \in Int
    BY ClusterIs
  <2> QED BY <2>1, <2>2
<1> HIDE DEF own, num
<1>4. /\ Signed(SumFunctionOnSet(Sums, up)) = Signed(SumFunctionOnSet(own, up))
      /\ SumFunctionOnSet(Sizes, up) = SumFunctionOnSet(num, up)
  BY <1>1, <1>3, SignedSums, SumSame
<1> QED BY <1>2, <1>4 DEF MixSum, MixSize

(* All have taken a mix of all, and none has changed: all know the sums. *)
LEMMA IInvUnifies == IInv => MixUnifies
<1> SUFFICES ASSUME IInv, Fits, NEW n \in up,
                    up \subseteq mix.parts \cap mix.took \cap mix.kept, mix.parts \subseteq up
             PROVE  Right(n)
  BY DEF MixUnifies
<1>1. Typed /\ Mixed
  BY DEF IInv
<1>2. mix.parts = up /\ Whole /\ n \in mix.took \cap mix.kept
  BY DEF Whole
<1>3. Carries(Average(kvs[n]).sum, Average(kvs[n]).size)
  BY <1>1, <1>2 DEF Mixed
<1>4. PICK i \in Int : i = ClusterAverage.sum
  BY <1>1, ClusterIs
<1>5. Signed(i) = i
  BY <1>4, SignedSmall DEF Fits
<1>6. Signed(MixSum) = i /\ ClusterAverage.size = MixSize
  BY <1>1, <1>2, <1>4, <1>5, WholeClusterIs
<1>7. Average(kvs[n]).sum = i /\ Average(kvs[n]).size = MixSize
  BY <1>2, <1>3, <1>6 DEF Carries, Fits
<1>8. ClusterAverage = [sum |-> i, size |-> MixSize]
  BY <1>4, <1>6 DEF ClusterAverage
<1>9. Average(kvs[n]) = [sum |-> i, size |-> MixSize]
  BY <1>7 DEF Average
<1> QED BY <1>8, <1>9 DEF Right

(* After a mix with the diffs of all servers that all have taken, every    *)
(* server knows the average of the cluster (get_diff, mix and put_diff of  *)
(* kvs_algorithm.cpp), whatever was put before it, and although the sums   *)
(* of servers and of the mix may have wrapped around: only the sum and the *)
(* number of all values there are have to fit.                             *)
THEOREM MixesUnify == Spec => []MixUnifies
<1> QED BY IInvUnifies, Invariance, PTL

(* A sum of integers between -b and b over a part of T.                    *)
LEMMA BoundedOver ==
  ASSUME NEW f, NEW S, NEW T, IsFiniteSet(T), S \subseteq T, NEW b \in Nat,
         \A x \in S : f[x] \in (-b)..b
  PROVE  SumFunctionOnSet(f, S) \in (-(Cardinality(T) * b))..(Cardinality(T) * b)
<1>1. IsFiniteSet(S)
  BY FS_Subset
<1>2. PICK c \in Nat, d \in Nat : c = Cardinality(S) /\ d = Cardinality(T) /\ c <= d
  BY <1>1, FS_Subset, FS_CardinalityType
<1>3. SumFunctionOnSet(f, S) \in (c * (-b))..(c * b)
  <2>1. -b \in Int
    OBVIOUS
  <2> QED BY <1>1, <1>2, <2>1, SumBounded
<1>4. c * b <= d * b /\ c * b \in Nat /\ d * b \in Nat
  BY <1>2, ProductsGrow
<1>5. c * (-b) = -(c * b)
  OBVIOUS
<1>6. \A i, j \in Nat : i <= j => (-i)..i \subseteq (-j)..j
  OBVIOUS
<1> QED BY <1>2, <1>3, <1>4, <1>5, <1>6

(* A server holds a value between -top and top for every key. *)
LEMMA ServerBounded ==
  ASSUME NEW m \in Models, Sound(m), IsFiniteSet(Key),
         NEW top \in Nat, \A v \in Value : -top <= v /\ v <= top
  PROVE  /\ Size(m) \in 0..Cardinality(Key)
         /\ SumOf(m) \in (-(Cardinality(Key) * top))..(Cardinality(Key) * top)
<1> DEFINE D == DOMAIN m.data
<1>1. D \subseteq Key /\ \A k \in D : m.data[k] \in Value /\ m.data[k] \in Int
  BY ModelIs, PairsAre
<1>2. \A k \in D : m.data[k] \in (-top)..top
  BY <1>1
<1>3. SumFunctionOnSet(m.data, D) \in (-(Cardinality(Key) * top))..(Cardinality(Key) * top)
  <2> HIDE DEF D
  <2> QED BY <1>1, <1>2, BoundedOver
<1>4. Cardinality(D) \in Nat /\ Cardinality(Key) \in Nat /\ Cardinality(D) <= Cardinality(Key)
  BY <1>1, FS_Subset, FS_CardinalityType
<1> QED BY <1>3, <1>4 DEF Size, SumOf, SumFunction

(* The number of the values of the cluster. *)
LEMMA CountBounded ==
  ASSUME Typed, NEW f, NEW b \in Nat, \A n \in up : f[n] \in 0..b
  PROVE  SumFunctionOnSet(f, up) \in 0..(Cardinality(Node) * b)
<1>1. IsFiniteSet(up) /\ up \subseteq Node
  BY SumsAre DEF Typed
<1>2. SumFunctionOnSet(f, up) \in Nat
  BY <1>1, SumNat
<1>3. \A n \in up : f[n] \in (-b)..b
  OBVIOUS
<1>4. PICK d \in Nat : d = Cardinality(Node)
  BY FS_CardinalityType, KvsAssumption
<1>5. SumFunctionOnSet(f, up) \in (-(d * b))..(d * b)
  BY <1>1, <1>3, <1>4, BoundedOver, KvsAssumption
<1>6. d * b \in Nat
  OBVIOUS
<1> QED BY <1>2, <1>4, <1>5, <1>6

(* So in a cluster of few servers and keys and small values the sums fit.  *)
LEMMA ClusterFits ==
  ASSUME Typed, IsFiniteSet(Key), Cardinality(Node) * Cardinality(Key) < Word,
         NEW top \in Nat, \A v \in Value : -top <= v /\ v <= top,
         2 * (Cardinality(Node) * (Cardinality(Key) * top)) < Word
  PROVE  Fits /\ \A n \in Node : kvs[n].lsum = SumOf(kvs[n])
<1> DEFINE own == [n \in up |-> SumOf(kvs[n])]
           num == [n \in up |-> Size(kvs[n])]
<1>1. /\ ClusterAverage.sum = SumFunctionOnSet(own, up)
      /\ ClusterAverage.size = SumFunctionOnSet(num, up)
      /\ up \subseteq Node
  BY ClusterIs DEF Typed
<1>2. PICK b \in Nat, c \in Nat : b = Cardinality(Key) /\ c = Cardinality(Key) * top
  BY FS_CardinalityType
<1>3. \A n \in Node : Size(kvs[n]) \in 0..b /\ SumOf(kvs[n]) \in (-c)..c
  BY <1>2, ServerBounded DEF Typed
<1>4. PICK d \in Nat : d = Cardinality(Node) /\ (Node # {} => d >= 1)
  BY FS_CardinalityType, FS_EmptySet, KvsAssumption
<1>5. \A n \in up : num[n] \in 0..b /\ own[n] \in (-c)..c
  BY <1>1, <1>3
<1> HIDE DEF own, num
<1>6. SumFunctionOnSet(num, up) \in 0..(d * b) /\ SumFunctionOnSet(own, up) \in (-(d * c))..(d * c)
  BY <1>1, <1>4, <1>5, CountBounded, BoundedOver, KvsAssumption
<1>7. d * b \in Nat /\ d * c \in Nat /\ d * b < Word /\ 2 * (d * c) < Word /\ Word \in Nat
  BY <1>2, <1>4, WordIs
<1>8. \A i \in Int, j \in Nat : i \in (-j)..j /\ 2 * j < Word => -Word <= 2 * i /\ 2 * i < Word
  BY WordIs
<1>9. Fits
  <2>1. -Word <= 2 * ClusterAverage.sum /\ 2 * ClusterAverage.sum < Word
    BY <1>1, <1>6, <1>7, <1>8
  <2>2. ClusterAverage.size < Word
    BY <1>1, <1>6, <1>7
  <2> QED BY <2>1, <2>2 DEF Fits
<1>10. ASSUME NEW n \in Node PROVE kvs[n].lsum = SumOf(kvs[n])
  <2>1. PICK i \in Int : i = SumOf(kvs[n]) /\ i \in (-c)..c
    BY <1>3
  <2>2. 2 * c < Word
    <3>1. d \in Int /\ 1 <= d /\ 1 \in Int
      BY <1>4
    <3>2. 1 * c <= d * c
      BY <3>1, ProductsGrow
    <3> QED BY <1>7, <3>2
  <2>3. Signed(i) = i
    BY <1>8, <2>1, <2>2, SignedSmall
  <2> QED BY <2>1, <2>3 DEF Typed, Sound
<1> QED BY <1>9, <1>10

(* In a cluster of few servers, few keys and values of small magnitude,    *)
(* positive or negative, local_sum_ of every server is the sum of the      *)
(* values it holds, with nothing lost to wrapping around, and the totals   *)
(* of the cluster fit: there every mix of all servers unifies them.        *)
THEOREM SmallClustersFit ==
  ASSUME IsFiniteSet(Key), Cardinality(Node) * Cardinality(Key) < Word,
         NEW top \in Nat, \A v \in Value : -top <= v /\ v <= top,
         2 * (Cardinality(Node) * (Cardinality(Key) * top)) < Word
  PROVE  Spec => [](Fits /\ \A n \in Node : kvs[n].lsum = SumOf(kvs[n]))
<1>1. IInv => Fits /\ \A n \in Node : kvs[n].lsum = SumOf(kvs[n])
  BY ClusterFits DEF IInv
<1> QED BY <1>1, Invariance, PTL

=============================================================================
