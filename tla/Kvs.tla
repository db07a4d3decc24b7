-------------------------------- MODULE Kvs --------------------------------
(***************************************************************************)
(* The key-value engine of this repository (test-engine/kvs_*.cpp) in a    *)
(* cluster.  Every server keeps the pairs put to it and the sum of their   *)
(* values; the linear mixer tells each server the sum and the number of    *)
(* the values of all others, from which get_average computes the average   *)
(* of the cluster.                                                         *)
(*                                                                         *)
(* The mixer is the round of linear_mixer.cpp as this engine sees it:      *)
(* LinearMixer has its details, and here its locks and lists do not fail.  *)
(* put_diff of the engine always returns true, so every put_diff makes a   *)
(* server active, whatever it has missed.                                  *)
(***************************************************************************)
EXTENDS Integers, FiniteSets, FiniteSetsExt, Functions

CONSTANTS
  Node,          \* the servers
  Key, Value,    \* what clients put
  Word,          \* 2^32: sums are int32_t, sizes uint32_t
  Scenarios      \* the servers that run at first, and the bounds

ASSUME KvsAssumption ==
  /\ IsFiniteSet(Node) /\ 0 \notin Node /\ Value \subseteq Int /\ Word \in Nat \ {0}
  /\ \A sc \in Scenarios : sc.running \subseteq Node /\ \A b \in DOMAIN sc.left : sc.left[b] \in Nat

VARIABLES
  up,            \* the servers that run
  nodes,         \* the children of /nodes
  kvs,           \* kvs_algorithm of each server: [data, lsum, gsum, gsize]
  obsolete,      \* is_obsolete_ of the server's mixer
  due,           \* its counter_ > 0: the interval will make it mix
  round,         \* the round of the server that holds master_lock
  puts,          \* put_diff requests under way
  mix,           \* history: the last mix, the servers whose diffs went into it,
                 \* those that took it, and those unchanged since their diff
  spoilt,        \* history: since that mix began, something happened to the
                 \* cluster that no server's counter_ tells
  saved,         \* the model file
  left           \* how much of each bound is left

vars == <<up, nodes, kvs, obsolete, due, round, puts, mix, spoilt, saved, left>>
mixer == <<obsolete, due>>
cluster == <<up, nodes>>
history == <<mix, spoilt>>

Empty == [data |-> [k \in {} |-> 0], lsum |-> 0, gsum |-> 0, gsize |-> 0]
NoRound == [by |-> 0, at |-> "idle", loop |-> FALSE, srv |-> {}, wait |-> {},
            any |-> FALSE, sum |-> 0, size |-> 0, model |-> Empty]

(* What an int32_t holds after an addition or subtraction with result i:   *)
(* the language leaves an overflow undefined, the build wraps around.      *)
Signed(i) == LET r == i % Word IN IF 2 * r < Word THEN r ELSE r - Word

Size(m) == Cardinality(DOMAIN m.data)
SumOf(m) == SumFunction(m.data)

TypeOK ==
  /\ up \subseteq Node /\ up \subseteq nodes /\ nodes \subseteq Node
  /\ \A n \in Node :
       /\ DOMAIN kvs[n].data \subseteq Key /\ \A k \in DOMAIN kvs[n].data : kvs[n].data[k] \in Value
       /\ kvs[n].lsum = Signed(SumOf(kvs[n])) /\ kvs[n].gsum \in Int /\ kvs[n].gsize \in 0..Word - 1
  /\ obsolete \subseteq up /\ due \subseteq up
  /\ round.by \in Node \cup {0} /\ round.wait \subseteq round.srv /\ round.srv \subseteq Node
  /\ round.at \in {"idle", "model", "fetch", "unpack", "members", "diffs", "puts", "dead"}
  /\ \A m \in puts : m.to \in Node /\ m.id \in 1..mix.id /\ m.size \in 0..Word - 1
  /\ mix.parts \subseteq Node /\ mix.kept \subseteq Node /\ mix.took \subseteq Node
  /\ spoilt \in BOOLEAN /\ \A b \in DOMAIN left : left[b] \in Nat

Init ==
  /\ \E sc \in Scenarios : up = sc.running /\ left = sc.left
  /\ nodes = up /\ obsolete = up /\ due = {}
  /\ kvs = [n \in Node |-> Empty]
  /\ round = NoRound /\ puts = {}
  /\ mix = [id |-> 0, parts |-> {}, took |-> {}, kept |-> {}] /\ spoilt = FALSE
  /\ saved = Empty

Spend(b) == left[b] > 0 /\ left' = [left EXCEPT ![b] = @ - 1]

(* The data of n changes. *)
Touched(n) == mix' = [mix EXCEPT !.kept = @ \ {n}]

-----------------------------------------------------------------------------
(* kvs_algorithm *)

(* Variant: a value that is replaced stays in the sum. *)
StoreTwice(m, k, v) ==
  [m EXCEPT !.data = [x \in DOMAIN m.data \cup {k} |-> IF x = k THEN v ELSE m.data[x]],
            !.lsum = Signed(@ + v)]

Store(m, k, v) ==
  LET old == IF k \in DOMAIN m.data THEN m.data[k] ELSE 0
  IN [m EXCEPT !.data = [x \in DOMAIN m.data \cup {k} |-> IF x = k THEN v ELSE m.data[x]],
               !.lsum = Signed(@ - old + v)]

(* get_average adds two int32_t, and divides by the sum of a uint32_t and  *)
(* a size_t, which does not wrap around.                                   *)
Average(m) == [sum |-> Signed(m.gsum + m.lsum), size |-> m.gsize + Size(m)]

(* The diff of the others is what is left of the mix without my own.       *)
TakeDiff(m, sum, size) ==
  [m EXCEPT !.gsum = Signed(sum - m.lsum), !.gsize = (size - Size(m)) % Word]

-----------------------------------------------------------------------------
(* RPC methods: JWLOCK_ counts the call, whatever it does. *)

Put(n, k, v) ==
  /\ n \in up /\ Spend("put")
  /\ kvs' = [kvs EXCEPT ![n] = Store(@, k, v)] /\ Touched(n)
  /\ due' = due \cup {n}
  /\ UNCHANGED <<cluster, obsolete, round, puts, spoilt, saved>>

Save(n) ==
  /\ n \in up /\ Spend("save")
  /\ saved' = kvs[n]
  /\ UNCHANGED <<cluster, kvs, mixer, round, puts, history>>

(* Variant: load runs under JRLOCK_. *)
LoadUncounted(n) ==
  /\ n \in up /\ Spend("load")
  /\ kvs' = [kvs EXCEPT ![n] = saved] /\ Touched(n)
  /\ UNCHANGED <<cluster, mixer, round, puts, spoilt, saved>>

Load(n) ==
  /\ n \in up /\ Spend("load")
  /\ kvs' = [kvs EXCEPT ![n] = saved] /\ Touched(n)
  /\ due' = due \cup {n}
  /\ UNCHANGED <<cluster, obsolete, round, puts, spoilt, saved>>

-----------------------------------------------------------------------------
(* The round of the server that holds master_lock *)

At(l) == round.at = l /\ round.by \in up
Goto(l) == round' = [round EXCEPT !.at = l]

StartMix(n) ==
  /\ round = NoRound /\ n \in due
  /\ due' = due \ {n}
  /\ round' = [NoRound EXCEPT !.by = n, !.at = "members", !.loop = TRUE]
  /\ UNCHANGED <<cluster, kvs, obsolete, puts, history, saved, left>>

StartUpdate(n) ==
  /\ round = NoRound /\ n \in obsolete
  /\ round' = [NoRound EXCEPT !.by = n, !.at = "model"]
  /\ UNCHANGED <<cluster, kvs, mixer, puts, history, saved, left>>

(* "no other server available, I become active" *)
Claim ==
  /\ At("model") /\ Cardinality(nodes) <= 1
  /\ obsolete' = obsolete \ {round.by} /\ Goto("members")
  /\ UNCHANGED <<cluster, kvs, due, puts, history, saved, left>>

ChoosePeer ==
  /\ At("model") /\ Cardinality(nodes) > 1
  /\ \E p \in nodes \ {round.by} : round' = [round EXCEPT !.at = "fetch", !.wait = {p}, !.srv = {p}]
  /\ UNCHANGED <<cluster, kvs, mixer, puts, history, saved, left>>

(* get_model of a peer: the pairs that were put to it and all; a failure   *)
(* ends the round.                                                         *)
Fetch ==
  /\ At("fetch")
  /\ \E p \in round.wait :
       \/ /\ p \in up /\ UNCHANGED <<spoilt, left>>
          /\ round' = [round EXCEPT !.at = "unpack", !.wait = {}, !.model = kvs[p]]
       \/ /\ \/ p \notin up /\ UNCHANGED left
             \/ p \in up /\ Spend("lost")
          /\ round' = NoRound /\ UNCHANGED spoilt
  /\ UNCHANGED <<cluster, kvs, mixer, puts, mix, saved>>

(* unpack replaces what has been put to this server meanwhile. *)
Unpack ==
  /\ At("unpack")
  /\ kvs' = [kvs EXCEPT ![round.by] = round.model] /\ Touched(round.by)
  /\ Goto("members")
  /\ UNCHANGED <<cluster, mixer, puts, spoilt, saved, left>>

UpdateMembers ==
  /\ At("members")
  /\ round' = [round EXCEPT !.at = "diffs", !.srv = nodes, !.wait = nodes,
                            !.any = FALSE, !.sum = 0, !.size = 0]
  /\ mix' = [id |-> mix.id + 1, parts |-> {}, took |-> {}, kept |-> {}]
  /\ spoilt' = FALSE
  /\ UNCHANGED <<cluster, kvs, mixer, puts, saved, left>>

(* get_diff, folded with mix(): sums and sizes are added. *)
GetDiff(p) ==
  /\ At("diffs") /\ p \in round.wait \cap up
  /\ round' = [round EXCEPT !.wait = @ \ {p}, !.any = TRUE, !.sum = Signed(@ + kvs[p].lsum),
                            !.size = (@ + Size(kvs[p])) % Word]
  /\ mix' = [mix EXCEPT !.parts = @ \cup {p}, !.kept = @ \cup {p}]
  /\ UNCHANGED <<cluster, kvs, mixer, puts, spoilt, saved, left>>

GetDiffFails(p) ==
  /\ At("diffs") /\ p \in round.wait
  /\ \/ p \notin up /\ UNCHANGED <<spoilt, left>>
     \/ p \in up /\ Spend("lost") /\ spoilt' = TRUE
  /\ round' = [round EXCEPT !.wait = @ \ {p}]
  /\ UNCHANGED <<cluster, kvs, mixer, puts, mix, saved>>

SendMix ==
  /\ At("diffs") /\ round.wait = {}
  /\ IF round.any
       THEN /\ puts' = puts \cup {[to |-> p, id |-> mix.id, sum |-> round.sum,
                                   size |-> round.size] : p \in round.srv}
            /\ round' = [round EXCEPT !.at = "puts", !.wait = round.srv]
       ELSE puts' = puts /\ round' = NoRound
  /\ UNCHANGED <<cluster, kvs, mixer, history, saved, left>>

Answered(m) ==
  round' = [round EXCEPT !.wait = IF round.at = "puts" /\ m.id = mix.id THEN @ \ {m.to} ELSE @]

(* put_diff: counter_ = 0, also for a call that came after the get_diff.   *)
PutDiff(m) ==
  /\ m \in puts /\ m.to \in up
  /\ kvs' = [kvs EXCEPT ![m.to] = TakeDiff(@, m.sum, m.size)]
  /\ obsolete' = obsolete \ {m.to} /\ due' = due \ {m.to}
  /\ puts' = puts \ {m} /\ Answered(m)
  /\ mix' = [mix EXCEPT !.took = IF m.id = mix.id THEN @ \cup {m.to} ELSE @ \ {m.to}]
  /\ spoilt' = (spoilt \/ m.id # mix.id \/ m.to \notin mix.kept)
  /\ UNCHANGED <<cluster, saved, left>>

(* The call fails, or times out and arrives later. *)
PutDiffFails(p) ==
  /\ At("puts") /\ p \in round.wait
  /\ LET mine == {m \in puts : m.to = p /\ m.id = mix.id} IN
     \/ p \notin up /\ puts' = puts \ mine /\ UNCHANGED <<spoilt, left>>
     \/ p \in up /\ Spend("lost") /\ puts' \in {puts, puts \ mine} /\ spoilt' = TRUE
  /\ round' = [round EXCEPT !.wait = @ \ {p}]
  /\ UNCHANGED <<cluster, kvs, mixer, mix, saved>>

(* A round of the loop goes on to update an obsolete model. *)
EndMix ==
  /\ At("puts") /\ round.wait = {}
  /\ round' = IF round.loop /\ round.by \in obsolete
                THEN [NoRound EXCEPT !.by = round.by, !.at = "model"] ELSE NoRound
  /\ UNCHANGED <<cluster, kvs, mixer, puts, history, saved, left>>

-----------------------------------------------------------------------------
(* Processes *)

Start(n) ==
  /\ n \notin up \cup nodes /\ Spend("start")
  /\ up' = up \cup {n} /\ nodes' = nodes \cup {n}
  /\ kvs' = [kvs EXCEPT ![n] = Empty] /\ Touched(n)
  /\ obsolete' = obsolete \cup {n} /\ due' = due \ {n}
  /\ UNCHANGED <<round, puts, spoilt, saved>>

(* A server that dies takes its pairs with it. *)
Crash(n) ==
  /\ n \in up /\ Spend("crash")
  /\ up' = up \ {n} /\ obsolete' = obsolete \ {n} /\ due' = due \ {n}
  /\ puts' = {m \in puts : m.to # n}
  /\ round' = IF round.by = n THEN [NoRound EXCEPT !.by = n, !.at = "dead"] ELSE round
  /\ spoilt' = TRUE /\ Touched(n)
  /\ UNCHANGED <<nodes, kvs, saved>>

(* Its session ends, and with it its lock. *)
Expire(n) ==
  /\ n \in nodes \ up
  /\ nodes' = nodes \ {n}
  /\ round' = IF round.by = n THEN NoRound ELSE round
  /\ UNCHANGED <<up, kvs, mixer, puts, history, saved, left>>

-----------------------------------------------------------------------------

Mixing ==
  \/ Claim \/ ChoosePeer \/ Fetch \/ Unpack \/ UpdateMembers \/ SendMix \/ EndMix
  \/ \E p \in Node : GetDiff(p) \/ GetDiffFails(p) \/ PutDiffFails(p)

Calls(n) ==
  \/ \E k \in Key, v \in Value : Put(n, k, v)
  \/ Save(n) \/ Load(n)

Next ==
  \/ Mixing \/ \E m \in puts : PutDiff(m)
  \/ \E n \in Node : Calls(n) \/ StartMix(n) \/ StartUpdate(n)
                     \/ Start(n) \/ Crash(n) \/ Expire(n)

Spec == Init /\ [][Next]_vars

(* The mixer threads go on, requests arrive, dead sessions end. *)
FairSpec ==
  /\ Spec
  /\ WF_vars(Mixing) /\ WF_vars(\E m \in puts : PutDiff(m))
  /\ \A n \in Node : WF_vars(StartMix(n) \/ StartUpdate(n)) /\ WF_vars(Expire(n))

-----------------------------------------------------------------------------
(* Properties *)

(* The sum and the number of all values of the cluster.  A pair counts for *)
(* every server that has it.                                               *)
ClusterAverage ==
  [sum |-> SumFunction([n \in up |-> SumOf(kvs[n])]),
   size |-> SumFunction([n \in up |-> Size(kvs[n])])]

(* The sum of the cluster is one an int32_t can hold and the number of its *)
(* values one a uint32_t can: nothing in kvs_algorithm.cpp looks for an    *)
(* overflow.  The sums of single servers may well be too large or too      *)
(* small on the way there.                                                 *)
Fits ==
  /\ -Word <= 2 * ClusterAverage.sum /\ 2 * ClusterAverage.sum < Word
  /\ ClusterAverage.size < Word

Right(n) == Average(kvs[n]) = ClusterAverage

(* "MIX is idempotent: all models of the cluster are unified by the next   *)
(* MIX, even if some servers could not take part in earlier ones": after a *)
(* mix with the diffs of all servers that all have taken, every server     *)
(* knows the average of the cluster, whatever was lost, late, loaded,      *)
(* copied, crashed or overflown before, as long as no pair has changed     *)
(* since and what there is now fits in the counters.                       *)
MixUnifies ==
  Fits /\ up \subseteq mix.parts \cap mix.took \cap mix.kept /\ mix.parts \subseteq up
    => \A n \in up : Right(n)

(* In the end every server knows the average of the cluster: a put or a    *)
(* load makes its server mix, a server that starts mixes by itself.  What  *)
(* nobody counts is excepted: a server that died, a call that was lost or  *)
(* came late, a change between get_diff and put_diff of one mix; and more  *)
(* than fits in the counters.                                              *)
AveragesMeet == <>[](spoilt \/ ~Fits \/ \A n \in up : Right(n))

(* "get_average returns the average of the values of the whole cluster",   *)
(* so it lies between the least and the greatest of them.                  *)
AverageIsOfValues ==
  \A n \in up : LET a == Average(kvs[n]) IN
    a.size > 0 => /\ a.sum >= a.size * Min(Value)
                  /\ a.sum <= a.size * Max(Value)

=============================================================================
