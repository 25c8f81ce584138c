----------------------------- MODULE DataProofs -----------------------------
(***************************************************************************)
(* Proofs about data that loops and sums build, all resting on FoldLemmas:   *)
(* the refreshes the edge owes (CacheRefresh), the responses it caches       *)
(* (ResponseCache), its log of refused peers (RefusalLog), the traffic       *)
(* report (TrafficReport), the responses the edge forwards (Forwarding), the *)
(* pool of backend sockets (BackendPool), the edge's own numbers             *)
(* (EdgeStats) and its flushes of HTTP/2 answers (Http2Server).  The parts   *)
(* share no variable.                                                        *)
(***************************************************************************)
EXTENDS ResponseCache, CacheRefresh, RefusalLog, TrafficReport,
        Forwarding, BackendPool, EdgeStats, Http2Server, FoldLemmas, SequenceTheorems

-----------------------------------------------------------------------------
(* Stale-while-revalidate: RefreshContract (CacheRefresh).                 *)

\* What FoldLeft(KeepUnanswered, <<>>, s) chooses.
Keeping(g, s) ==
    g = [t \in SUBSET DOMAIN s |->
            IF t = {} THEN <<>> ELSE KeepUnanswered(g[t \ {Max(t)}], s[Max(t)])]

\* The replies CompleteRefreshes keeps are what that function gives for the whole list.
LEMMA KeepUnfold == \A s : FoldLeft(KeepUnanswered, <<>>, s) = (CHOOSE g : Keeping(g, s))[DOMAIN s]
BY DEF FoldLeft, MapThenFoldSet, Keeping

\* Keeping or dropping a reply leaves a list of replies.
LEMMA KeepType ==
  ASSUME NEW R, NEW a \in Seq(R), NEW r \in R
  PROVE  KeepUnanswered(a, r) \in Seq(R)
BY AppendProperties DEF KeepUnanswered

\* CompleteRefreshes as the loop it is: F[i] is what is kept of the first i replies.
LEMMA KeepRun ==
  ASSUME NEW R, NEW s \in Seq(R)
  PROVE  \E F \in [0..Len(s) -> Seq(R)] :
            /\ F[0] = <<>>
            /\ \A i \in 1..Len(s) : F[i] = KeepUnanswered(F[i - 1], s[i])
            /\ FoldLeft(KeepUnanswered, <<>>, s) = F[Len(s)]
<1>0. PICK n \in Nat : n = Len(s) /\ DOMAIN s = 1..n /\ \A i \in 1..n : s[i] \in R
  BY LenProperties, ElementOfSeq
<1>1. PICK A : A = Seq(R)
  OBVIOUS
<1>2. <<>> \in A /\ \A a \in A : \A r \in R : KeepUnanswered(a, r) \in A
  BY <1>1, EmptySeq, KeepType
<1> DEFINE G == [i \in 1..n |-> [a \in A |-> KeepUnanswered(a, s[i])]]
<1>3. G \in [1..n -> [A -> A]]
  BY <1>0, <1>2
<1>4. PICK h \in [SUBSET (1..n) -> A] : Folding(h, n, <<>>, G)
  <2> HIDE DEF G
  <2>1. PICK b \in A : b = <<>>
    BY <1>2
  <2> QED BY <1>3, <2>1, FoldExists
<1>5. ASSUME NEW t \in SUBSET (1..n), t # {}
      PROVE  G[Max(t)][h[t \ {Max(t)}]] = KeepUnanswered(h[t \ {Max(t)}], s[Max(t)])
  BY <1>5, <1>4, MaxOfIndices
<1>6. PICK g : Keeping(g, s) /\ FoldLeft(KeepUnanswered, <<>>, s) = g[1..n]
  <2>1. Keeping(h, s)
    <3> HIDE DEF G
    <3> QED BY <1>0, <1>4, <1>5 DEF Keeping, Folding
  <2> QED BY <1>0, <2>1, KeepUnfold
<1> DEFINE F == [i \in 0..n |-> g[1..i]]
<1>7. F[0] = <<>> /\ F[n] = g[1..n]
  <2>1. 1..0 = {} /\ {} \in SUBSET (1..n)
    OBVIOUS
  <2> QED BY <2>1, <1>0, <1>6 DEF Keeping
<1>8. ASSUME NEW i \in 1..n PROVE F[i] = KeepUnanswered(F[i - 1], s[i])
  <2>1. F[i] = g[1..i] /\ F[i - 1] = g[1..(i - 1)]
    OBVIOUS
  <2>2. 1..i \in SUBSET (1..n) /\ 1..i # {} /\ Max(1..i) = i /\ (1..i) \ {Max(1..i)} = 1..(i - 1)
    BY PrefixRun
  <2>3. g[1..i] = KeepUnanswered(g[1..(i - 1)], s[i])
    BY <2>2, <1>0, <1>6 DEF Keeping
  <2> QED BY <2>1, <2>3
<1>9. F \in [0..n -> A]
  <2> HIDE DEF F
  <2> DEFINE T == {i \in 0..n : F[i] \in A}
  <2>1. 0 \in T
    BY <1>2, <1>7
  <2>2. ASSUME NEW i \in 1..n, i - 1 \in T PROVE i \in T
    BY <2>2, <1>0, <1>2, <1>8
  <2>3. \A i \in 0..n : i \in T
    <3> HIDE DEF T
    <3> QED BY <2>1, <2>2, IndexInduction
  <2> QED BY <2>3 DEF F
<1> QED BY <1>0, <1>1, <1>6, <1>7, <1>8, <1>9

\* c is what KeepUnanswered makes of a and r.
Extends(c, a, r) ==
    /\ Len(c) <= Len(a) + 1
    /\ \A l \in 1..Len(a) : l \in 1..Len(c) /\ c[l] = a[l]
    /\ r.reply = "none" => \E l \in 1..Len(c) : c[l] = r

\* One round keeps the reply as the next one, or leaves it out because it came.
LEMMA KeepStep ==
  ASSUME NEW R, NEW a \in Seq(R), NEW r \in R, NEW c, c = KeepUnanswered(a, r)
  PROVE  Extends(c, a, r)
<1>1. Len(a) \in Nat
  BY LenProperties
<1>2. CASE r.reply = "none"
  <2>1. c = Append(a, r)
    BY <1>2 DEF KeepUnanswered
  <2>2. Len(c) = Len(a) + 1 /\ (\A i \in 1..Len(a) : c[i] = a[i]) /\ c[Len(a) + 1] = r
    BY <2>1, AppendProperties
  <2> QED BY <1>1, <2>2 DEF Extends
<1>3. CASE r.reply # "none"
  BY <1>1, <1>3 DEF KeepUnanswered, Extends
<1> QED BY <1>2, <1>3

\* After i replies were looked at: c is no longer than that, and has each unanswered one.
KeptOnes(c, s, i) ==
    /\ Len(c) <= i
    /\ \A j \in 1..i : s[j].reply = "none" => \E l \in 1..Len(c) : c[l] = s[j]

\* What has been kept of i - 1 replies and what the i-th adds.
LEMMA KeepRound ==
  ASSUME NEW R, NEW s \in Seq(R), NEW i \in 1..Len(s), NEW a \in Seq(R), NEW c,
         NEW r \in R, r = s[i], c = KeepUnanswered(a, r),
         KeptOnes(a, s, i - 1)
  PROVE  KeptOnes(c, s, i)
<1>2. /\ Len(c) <= Len(a) + 1
      /\ \A l \in 1..Len(a) : l \in 1..Len(c) /\ c[l] = a[l]
      /\ r.reply = "none" => \E l \in 1..Len(c) : c[l] = r
  <2>1. Extends(c, a, r)
    BY KeepStep
  <2> QED BY <2>1 DEF Extends
<1>3. Len(a) \in Nat /\ c \in Seq(R) /\ Len(c) \in Nat /\ Len(s) \in Nat
  BY LenProperties, KeepType
<1>4. Len(c) <= i
  BY <1>2, <1>3 DEF KeptOnes
<1>5. ASSUME NEW j \in 1..i, s[j].reply = "none" PROVE \E l \in 1..Len(c) : c[l] = s[j]
  <2>1. CASE j = i
    BY <1>2, <1>5, <2>1
  <2>2. CASE j # i
    <3>1. j \in 1..(i - 1)
      BY <1>3, <2>2
    <3> QED BY <1>2, <1>5, <3>1 DEF KeptOnes
  <2> QED BY <2>1, <2>2
<1> QED BY <1>4, <1>5 DEF KeptOnes

\* After every round.
LEMMA KeepLoop ==
  ASSUME NEW R, NEW s \in Seq(R), NEW F \in [0..Len(s) -> Seq(R)],
         F[0] = <<>>,
         \A i \in 1..Len(s) : F[i] = KeepUnanswered(F[i - 1], s[i])
  PROVE  F[Len(s)] \in Seq(R) /\ KeptOnes(F[Len(s)], s, Len(s))
<1>2. PICK n \in Nat : n = Len(s)
  BY LenProperties
<1> DEFINE T == {i \in 0..n : KeptOnes(F[i], s, i)}
<1>3. 0 \in T
  BY EmptySeq DEF KeptOnes
<1>4. ASSUME NEW i \in 1..n, i - 1 \in T PROVE i \in T
  <2>0. i \in 1..Len(s) /\ i - 1 \in 0..Len(s)
    BY <1>2
  <2>1. PICK a \in Seq(R) : a = F[i - 1]
    BY <2>0
  <2>4. PICK r \in R : r = s[i]
    BY <2>0, ElementOfSeq
  <2>5. F[i] = KeepUnanswered(a, r)
    BY <2>0, <2>1, <2>4
  <2>2. KeptOnes(a, s, i - 1)
    BY <1>4, <2>1
  <2>3. KeptOnes(F[i], s, i)
    BY <2>0, <2>2, <2>4, <2>5, KeepRound
  <2> QED BY <2>3
<1>5. \A i \in 0..n : i \in T
  <2> HIDE DEF T
  <2> QED BY <1>3, <1>4, IndexInduction
<1>6. KeptOnes(F[n], s, n) /\ F[n] \in Seq(R)
  BY <1>2, <1>5
<1> QED BY <1>2, <1>6

\* What is kept: replies that did not come, all of them, and no key twice.
LEMMA KeepFacts ==
  ASSUME NEW R, NEW s \in Seq(R)
  PROVE  \E k \in Seq(R) :
            k = FoldLeft(KeepUnanswered, <<>>, s) /\ KeptOnes(k, s, Len(s))
<1>1. PICK F \in [0..Len(s) -> Seq(R)] :
            /\ F[0] = <<>>
            /\ \A i \in 1..Len(s) : F[i] = KeepUnanswered(F[i - 1], s[i])
            /\ FoldLeft(KeepUnanswered, <<>>, s) = F[Len(s)]
  BY KeepRun
<1>2. PICK k : k = F[Len(s)]
  OBVIOUS
<1>3. k \in Seq(R) /\ KeptOnes(k, s, Len(s))
  BY <1>1, <1>2, KeepLoop
<1>4. k = FoldLeft(KeepUnanswered, <<>>, s)
  BY <1>1, <1>2
<1> QED BY <1>3, <1>4

\* The strengthening: what is owed a refresh is stale, so that a key the loop finds fresh
\* when it takes it off the queue is owed nothing.
OwedIsStale == \A k \in owed : entry[k] = "stale"

\* The inductive invariant.
RefreshInv == RefreshContract /\ OwedIsStale

\* It holds when the edge starts.
LEMMA RefreshInitOK == RefreshInit => RefreshInv
<1> SUFFICES ASSUME RefreshInit PROVE RefreshInv
  OBVIOUS
<1>1. PICK n \in 0..MAX_REFRESH_QUEUE : queue \in [1..n -> Pages]
  BY DEF RefreshInit, SeqOf
<1>2. n \in Nat /\ n <= MAX_REFRESH_QUEUE
  BY CapAssumption
<1>3. queue \in Seq(Pages) /\ Len(queue) = n /\ DOMAIN queue = 1..n
  BY <1>1, <1>2
<1>4. \A i, j \in 1..Len(queue) : queue[i] = queue[j] => i = j
  BY <1>3 DEF RefreshInit, IsInjective
<1>5. pending \in Seq([key : UrlKeys, reply : {"none"} \cup Outcomes]) /\ Len(pending) = 0
  BY EmptySeq DEF RefreshInit
<1>6. RefreshTypeOK
  BY <1>3, <1>5 DEF RefreshInit, RefreshTypeOK
<1>7. QueuesAreBounded
  BY <1>2, <1>3, <1>4, <1>5, CapAssumption DEF QueuesAreBounded
<1>8. StaleServeIsFollowedUp
  BY DEF RefreshInit, StaleServeIsFollowedUp
<1>9. OwedIsStale
  BY DEF RefreshInit, OwedIsStale
<1> QED BY <1>6, <1>7, <1>8, <1>9 DEF RefreshContract, RefreshInv

\* A step that leaves both queues alone and owes nothing new.
LEMMA RefreshKept ==
  ASSUME RefreshContract, UNCHANGED <<queue, pending>>, owed' \subseteq owed,
         entry' \in [Pages -> {"absent", "fresh", "stale"}], pc' \in {"serve", "complete", "drain"}
  PROVE  RefreshContract'
<1>1. RefreshTypeOK'
  BY DEF RefreshContract, RefreshTypeOK
<1>2. QueuesAreBounded'
  BY DEF RefreshContract, QueuesAreBounded
<1>3. StaleServeIsFollowedUp'
  BY DEF RefreshContract, StaleServeIsFollowedUp, Queued
<1> QED BY <1>1, <1>2, <1>3 DEF RefreshContract

\* queue_refresh queues a key once, or knows that it is dropping it.
LEMMA RefreshServeOK == ASSUME RefreshContract, NEW k \in Pages, ServeStale(k) PROVE RefreshContract'
<1>0. /\ queue \in Seq(Pages) /\ Len(queue) \in Nat /\ owed \subseteq Pages
      /\ entry' = entry /\ pending' = pending /\ pc' = pc
      /\ owed' = IF QueueFull /\ ~Queued(k) THEN owed ELSE owed \cup {k}
  BY LenProperties DEF RefreshContract, RefreshTypeOK, ServeStale
<1>1. CASE QueueFull \/ Queued(k)
  <2>1. queue' = queue
    BY <1>1 DEF ServeStale, QueueRefresh
  <2>2. RefreshTypeOK' /\ QueuesAreBounded'
    BY <1>0, <2>1 DEF RefreshContract, RefreshTypeOK, QueuesAreBounded
  <2>3. StaleServeIsFollowedUp'
    BY <1>0, <1>1, <2>1 DEF RefreshContract, StaleServeIsFollowedUp, Queued
  <2> QED BY <2>2, <2>3 DEF RefreshContract
<1>2. CASE ~(QueueFull \/ Queued(k))
  <2>1. PICK q \in Seq(Pages) : q = Append(queue, k)
    BY <1>0, AppendProperties
  <2>2. queue' = q /\ owed' = owed \cup {k}
    BY <1>0, <1>2, <2>1 DEF ServeStale, QueueRefresh
  <2>3. Len(q) = Len(queue) + 1 /\ (\A i \in 1..Len(queue) : q[i] = queue[i]) /\ q[Len(queue) + 1] = k
    BY <1>0, <2>1, AppendProperties
  <2>4. Len(queue) < MAX_REFRESH_QUEUE /\ \A i \in 1..Len(queue) : queue[i] # k
    BY <1>0, <1>2, CapAssumption DEF QueueFull, Queued
  <2>5. RefreshTypeOK'
    BY <1>0, <2>1, <2>2 DEF RefreshContract, RefreshTypeOK
  <2>6. \A i, j \in 1..Len(q) : q[i] = q[j] => i = j
    BY <1>0, <2>3, <2>4 DEF RefreshContract, QueuesAreBounded
  <2>7. QueuesAreBounded'
    BY <1>0, <2>2, <2>3, <2>4, <2>6, CapAssumption DEF RefreshContract, QueuesAreBounded
  <2>8. StaleServeIsFollowedUp'
    <3>1. \A x \in owed : Queued(x) => \E i \in 1..Len(q) : q[i] = x
      BY <1>0, <2>3 DEF Queued
    <3>2. \E i \in 1..Len(q) : q[i] = k
      BY <1>0, <2>3
    <3> QED BY <1>0, <2>2, <3>1, <3>2 DEF RefreshContract, StaleServeIsFollowedUp, Queued
  <2> QED BY <2>5, <2>7, <2>8 DEF RefreshContract
<1> QED BY <1>1, <1>2

\* A reply arriving changes no obligation.
LEMMA RefreshAnswerOK ==
  ASSUME RefreshContract, NEW i \in 1..MAX_REFRESH_QUEUE, NEW reply \in Outcomes, Answer(i, reply)
  PROVE  RefreshContract'
<1> DEFINE R == [key : UrlKeys, reply : {"none"} \cup Outcomes]
<1>0. i \in 1..Len(pending) /\ pending \in Seq(R) /\ Len(pending) \in Nat
  BY LenProperties DEF RefreshContract, RefreshTypeOK, Answer
<1>1. pending[i] \in R
  BY <1>0, ElementOfSeq
<1>2. PICK r \in R : r = [key |-> pending[i].key, reply |-> reply]
  BY <1>1
<1>3. pending' = [pending EXCEPT ![i] = r]
  <2>1. [pending[i] EXCEPT !.reply = reply] = r
    BY <1>1, <1>2
  <2> QED BY <1>0, <2>1 DEF Answer
<1>4. /\ pending' \in Seq(R) /\ Len(pending') = Len(pending)
      /\ \A j \in 1..Len(pending) : pending'[j].key = pending[j].key
  <2>1. /\ [pending EXCEPT ![i] = r] \in Seq(R)
        /\ Len([pending EXCEPT ![i] = r]) = Len(pending)
        /\ \A j \in 1..Len(pending) : [pending EXCEPT ![i] = r][j] = IF j = i THEN r ELSE pending[j]
    BY <1>0, ExceptSeq
  <2> QED BY <1>2, <1>3, <2>1
<1>5. entry' = entry /\ queue' = queue /\ pc' = pc /\ owed' = owed
  BY DEF Answer
<1>6. RefreshTypeOK'
  BY <1>4, <1>5 DEF RefreshContract, RefreshTypeOK
<1>7. QueuesAreBounded'
  BY <1>4, <1>5 DEF RefreshContract, QueuesAreBounded
<1>8. StaleServeIsFollowedUp'
  BY <1>0, <1>4, <1>5 DEF RefreshContract, StaleServeIsFollowedUp, Queued
<1> QED BY <1>6, <1>7, <1>8 DEF RefreshContract

\* Collecting the replies ends the refreshes that came and no other.
LEMMA RefreshCompleteOK == ASSUME RefreshContract, CompleteRefreshes PROVE RefreshContract'
<1> DEFINE R == [key : UrlKeys, reply : {"none"} \cup Outcomes]
<1>0. pending \in Seq(R) /\ Len(pending) \in Nat /\ DOMAIN pending = 1..Len(pending)
  BY LenProperties DEF RefreshContract, RefreshTypeOK
<1>1. PICK kept \in Seq(R) :
         kept = FoldLeft(KeepUnanswered, <<>>, pending) /\ KeptOnes(kept, pending, Len(pending))
  BY <1>0, KeepFacts
<1>2. /\ Len(kept) <= Len(pending) /\ Len(kept) \in Nat
      /\ \A j \in 1..Len(pending) : pending[j].reply = "none" => \E l \in 1..Len(kept) : kept[l] = pending[j]
  BY <1>1, LenProperties DEF KeptOnes
<1>3. /\ pending' = kept /\ queue' = queue /\ pc' = "drain"
      /\ owed' = owed \ (Came("stored") \cup Came("failed"))
      /\ entry' = [k \in Pages |-> IF k \in Came("stored") THEN "fresh" ELSE entry[k]]
  BY <1>1 DEF CompleteRefreshes
<1>4. RefreshTypeOK'
  <2>1. entry' \in [Pages -> {"absent", "fresh", "stale"}]
    <3>1. entry \in [Pages -> {"absent", "fresh", "stale"}]
      BY DEF RefreshContract, RefreshTypeOK
    <3> QED BY <3>1, <1>3
  <2> QED BY <1>2, <1>3, <2>1 DEF RefreshContract, RefreshTypeOK
<1>5. QueuesAreBounded'
  BY <1>0, <1>2, <1>3, CapAssumption DEF RefreshContract, QueuesAreBounded
<1>6. StaleServeIsFollowedUp'
  <2>1. ASSUME NEW k \in owed', ~Queued(k) PROVE \E l \in 1..Len(kept) : kept[l].key = k
    <3>1. k \in owed /\ k \notin Came("stored") /\ k \notin Came("failed")
      BY <1>3
    <3>2. PICK j \in 1..Len(pending) : pending[j].key = k
      BY <2>1, <3>1 DEF RefreshContract, StaleServeIsFollowedUp
    <3>3. pending[j] \in R /\ pending[j] \in ToSet(pending)
      BY <1>0, ElementOfSeq DEF ToSet
    <3>4. pending[j].reply \notin {"stored", "failed"}
      BY <3>1, <3>2, <3>3 DEF Came
    <3>5. pending[j].reply = "none"
      BY <3>3, <3>4, OutcomeAssumption
    <3> QED BY <1>2, <3>2, <3>5
  <2> QED BY <1>3, <2>1 DEF StaleServeIsFollowedUp, Queued
<1> QED BY <1>4, <1>5, <1>6 DEF RefreshContract

\* The queue without its head: what is owed and was queued is its head or still queued.
LEMMA QueueTail ==
  ASSUME RefreshContract, queue # <<>>
  PROVE  /\ Tail(queue) \in Seq(Pages) /\ Head(queue) \in Pages
         /\ Len(Tail(queue)) <= MAX_REFRESH_QUEUE
         /\ \A i, j \in 1..Len(Tail(queue)) : Tail(queue)[i] = Tail(queue)[j] => i = j
         /\ \A k : Queued(k) => k = Head(queue) \/ \E i \in 1..Len(Tail(queue)) : Tail(queue)[i] = k
<1>1. queue \in Seq(Pages) /\ Len(queue) \in Nat \ {0}
  BY LenProperties, EmptySeq DEF RefreshContract, RefreshTypeOK
<1>2. PICK q \in Seq(Pages) : q = Tail(queue)
  BY <1>1, HeadTailProperties
<1>3. /\ Head(queue) \in Pages /\ Len(q) = Len(queue) - 1 /\ \A i \in 1..Len(q) : q[i] = queue[i + 1]
      /\ Head(queue) = queue[1]
  BY <1>1, <1>2, HeadTailProperties
<1>4. Len(queue) <= MAX_REFRESH_QUEUE /\ \A i, j \in 1..Len(queue) : queue[i] = queue[j] => i = j
  BY DEF RefreshContract, QueuesAreBounded
<1>5. Len(q) <= MAX_REFRESH_QUEUE
  BY <1>1, <1>3, <1>4, CapAssumption
<1>6. ASSUME NEW i \in 1..Len(q), NEW j \in 1..Len(q), q[i] = q[j] PROVE i = j
  <2>1. i + 1 \in 1..Len(queue) /\ j + 1 \in 1..Len(queue)
    BY <1>1, <1>3
  <2> QED BY <1>3, <1>4, <1>6, <2>1
<1>7. ASSUME NEW k, Queued(k) PROVE k = Head(queue) \/ \E i \in 1..Len(q) : q[i] = k
  <2>1. PICK i \in 1..Len(queue) : queue[i] = k
    BY <1>7 DEF Queued
  <2>2. CASE i = 1
    BY <1>3, <2>1, <2>2
  <2>3. CASE i # 1
    <3>1. i - 1 \in 1..Len(q) /\ (i - 1) + 1 = i
      BY <1>1, <1>3, <2>3
    <3> QED BY <1>3, <2>1, <3>1
  <2> QED BY <2>2, <2>3
<1> QED BY <1>2, <1>3, <1>5, <1>6, <1>7

\* Taking one refresh off the queue fetches it or hands it to the replies waited for.
LEMMA RefreshDrainOK == ASSUME RefreshContract, OwedIsStale, Drain PROVE RefreshContract'
<1> DEFINE R == [key : UrlKeys, reply : {"none"} \cup Outcomes]
<1>0. /\ pending \in Seq(R) /\ Len(pending) \in Nat /\ owed \subseteq Pages
      /\ entry \in [Pages -> {"absent", "fresh", "stale"}]
  BY LenProperties DEF RefreshContract, RefreshTypeOK
<1>1. CASE queue = <<>>
  BY <1>0, <1>1, RefreshKept DEF Drain
<1>2. CASE queue # <<>>
  <2>1. PICK k : k = Head(queue)
    OBVIOUS
  <2>2. PICK q \in Seq(Pages) : q = Tail(queue)
    BY <1>2, QueueTail
  <2>3. /\ k \in Pages /\ Len(q) <= MAX_REFRESH_QUEUE
        /\ \A i, j \in 1..Len(q) : q[i] = q[j] => i = j
        /\ \A x : Queued(x) => x = k \/ \E i \in 1..Len(q) : q[i] = x
    BY <1>2, <2>1, <2>2, QueueTail
  <2>4. queue' = q /\ pc' = "serve"
    BY <1>2, <2>2 DEF Drain
  <2>5. \/ entry[k] = "fresh" /\ UNCHANGED <<entry, pending, owed>>
        \/ entry[k] # "fresh" /\ k \in UrlKeys /\ FetchDispatched(k)
        \/ \E reply \in Outcomes : FetchInline(k, reply)
    BY <1>2, <2>1 DEF Drain
  <2> HIDE <2>1
  \* Whatever the fetch did, k is not owed any more, or is waited for.
  <2>6. /\ pending' \in Seq(R) /\ Len(pending') <= MAX_REFRESH_QUEUE
        /\ entry' \in [Pages -> {"absent", "fresh", "stale"}]
        /\ owed' \subseteq owed
        /\ k \in owed' => \E i \in 1..Len(pending') : pending'[i].key = k
        /\ \A x : (\E i \in 1..Len(pending) : pending[i].key = x)
                  => \E i \in 1..Len(pending') : pending'[i].key = x
    <3>0. Len(pending) <= MAX_REFRESH_QUEUE
      BY DEF RefreshContract, QueuesAreBounded
    <3>1. CASE entry[k] = "fresh" /\ UNCHANGED <<entry, pending, owed>>
      BY <1>0, <3>0, <3>1 DEF OwedIsStale
    <3>2. CASE k \in UrlKeys /\ FetchDispatched(k) /\ Len(pending) < MAX_REFRESH_QUEUE
      <4>1. PICK r \in R : r = [key |-> k, reply |-> "none"]
        BY <3>2
      <4>2. PICK p \in Seq(R) : p = Append(pending, r)
        BY <1>0, <4>1, AppendProperties
      <4>3. Len(p) = Len(pending) + 1 /\ (\A i \in 1..Len(pending) : p[i] = pending[i]) /\ p[Len(pending) + 1] = r
        BY <1>0, <4>1, <4>2, AppendProperties
      <4>4. pending' = p /\ owed' = owed /\ entry' = entry
        BY <3>2, <4>1, <4>2 DEF FetchDispatched
      <4>5. Len(p) <= MAX_REFRESH_QUEUE /\ Len(p) \in 1..Len(p) /\ p[Len(p)].key = k
        BY <1>0, <3>2, <4>1, <4>3, CapAssumption
      <4>6. \A i \in 1..Len(pending) : i \in 1..Len(p) /\ p[i].key = pending[i].key
        BY <1>0, <4>3
      <4> QED BY <1>0, <4>4, <4>5, <4>6
    <3>3. CASE k \in UrlKeys /\ FetchDispatched(k) /\ ~(Len(pending) < MAX_REFRESH_QUEUE)
      BY <1>0, <3>0, <3>3 DEF FetchDispatched
    <3>4. CASE \E reply \in Outcomes : FetchInline(k, reply)
      <4>1. pending' = pending /\ owed' = owed \ {k}
        BY <3>4 DEF FetchInline
      <4>2. entry' \in [Pages -> {"absent", "fresh", "stale"}]
        BY <1>0, <2>3, <3>4 DEF FetchInline
      <4> QED BY <1>0, <3>0, <4>1, <4>2
    <3> QED BY <2>5, <3>1, <3>2, <3>3, <3>4
  <2>7. RefreshTypeOK'
    BY <1>0, <2>2, <2>4, <2>6 DEF RefreshTypeOK
  <2>8. QueuesAreBounded'
    BY <2>3, <2>4, <2>6 DEF QueuesAreBounded
  <2>9. ASSUME NEW x \in owed'
        PROVE  (\E i \in 1..Len(q) : q[i] = x) \/ \E i \in 1..Len(pending') : pending'[i].key = x
    <3>1. Queued(x) \/ \E i \in 1..Len(pending) : pending[i].key = x
      BY <2>6 DEF RefreshContract, StaleServeIsFollowedUp
    <3> QED BY <2>3, <2>6, <3>1
  <2>10. StaleServeIsFollowedUp'
    BY <2>4, <2>9 DEF StaleServeIsFollowedUp, Queued
  <2> QED BY <2>7, <2>8, <2>10 DEF RefreshContract
<1> QED BY <1>1, <1>2

\* A key is owed a refresh only as long as its entry is stale.
LEMMA OwedStaysStale ==
  ASSUME RefreshContract, OwedIsStale, [RefreshNext]_refreshvars
  PROVE  OwedIsStale'
<1>0. entry \in [Pages -> {"absent", "fresh", "stale"}] /\ owed \subseteq Pages
  BY DEF RefreshContract, RefreshTypeOK
<1>1. ASSUME NEW k \in Pages, Store(k) \/ Expire(k) \/ Evict(k) \/ ServeStale(k) PROVE OwedIsStale'
  BY <1>0, <1>1 DEF Store, Expire, Evict, ServeStale, OwedIsStale
<1>2. CASE CompleteRefreshes
  BY <1>0, <1>2 DEF CompleteRefreshes, OwedIsStale
<1>3. CASE Drain
  <2>1. CASE queue = <<>>
    BY <1>3, <2>1 DEF Drain, OwedIsStale
  <2>2. CASE queue # <<>>
    <3>1. PICK k : k = Head(queue)
      OBVIOUS
    <3>2. k \in Pages
      BY <2>2, <3>1, QueueTail
    <3>3. UNCHANGED <<entry, owed>> \/ FetchDispatched(k) \/ \E reply \in Outcomes : FetchInline(k, reply)
      BY <1>3, <2>2, <3>1 DEF Drain
    <3> HIDE <3>1
    <3> QED BY <1>0, <3>2, <3>3 DEF FetchDispatched, FetchInline, OwedIsStale
  <2> QED BY <2>1, <2>2
<1>4. CASE EndServe \/ UNCHANGED refreshvars
  BY <1>4 DEF EndServe, refreshvars, OwedIsStale
<1>5. ASSUME NEW i, NEW reply, Answer(i, reply) PROVE OwedIsStale'
  BY <1>5 DEF Answer, OwedIsStale
<1> QED BY <1>1, <1>2, <1>3, <1>4, <1>5 DEF RefreshNext, Loop

\* RefreshContract, for every queue bound and every order of replies: both queues are bounded, a
\* key is queued once, and what was served stale is queued for a refresh or in flight until the
\* refresh ends or is knowingly dropped (queue_refresh, and the event loop's passes over both).
THEOREM RefreshIsFollowedUp == RefreshSpec => []RefreshContract
<1>1. RefreshInit => RefreshInv
  BY RefreshInitOK
<1>2. RefreshInv /\ [RefreshNext]_refreshvars => RefreshInv'
  <2> SUFFICES ASSUME RefreshContract, OwedIsStale, [RefreshNext]_refreshvars PROVE RefreshContract'
    BY OwedStaysStale DEF RefreshInv
  <2>0. entry \in [Pages -> {"absent", "fresh", "stale"}] /\ pc \in {"serve", "complete", "drain"}
    BY DEF RefreshContract, RefreshTypeOK
  <2>1. ASSUME NEW k \in Pages, Store(k) \/ Expire(k) \/ Evict(k) PROVE RefreshContract'
    <3>1. entry' \in [Pages -> {"absent", "fresh", "stale"}] /\ UNCHANGED <<queue, pending, pc>> /\ owed' \subseteq owed
      BY <2>0, <2>1 DEF Store, Expire, Evict
    <3> QED BY <2>0, <3>1, RefreshKept
  <2>2. ASSUME NEW k \in Pages, ServeStale(k) PROVE RefreshContract'
    BY <2>2, RefreshServeOK
  <2>3. ASSUME NEW i \in 1..MAX_REFRESH_QUEUE, NEW reply \in Outcomes, Answer(i, reply) PROVE RefreshContract'
    BY <2>3, RefreshAnswerOK
  <2>4. CASE EndServe
    BY <2>0, <2>4, RefreshKept DEF EndServe
  <2>5. CASE CompleteRefreshes
    BY <2>5, RefreshCompleteOK
  <2>6. CASE Drain
    BY <2>6, RefreshDrainOK
  <2>7. CASE UNCHANGED refreshvars
    BY <2>0, <2>7, RefreshKept DEF refreshvars
  <2> QED BY <2>1, <2>2, <2>3, <2>4, <2>5, <2>6, <2>7 DEF RefreshNext, Loop
<1>3. RefreshInv => RefreshContract
  BY DEF RefreshInv
<1> QED BY <1>1, <1>2, <1>3, PTL DEF RefreshSpec

-----------------------------------------------------------------------------
(* The response cache: CacheContract and read-order eviction (ResponseCache).*)

\* The entries the cache can hold.
Entries == [response : Responses, stored_at : Nat, expires_at : Nat, serve_stale_until : Nat,
            footprint : Nat, last_read : Nat]

\* How long a response is fresh, and how long it may be served stale after that.
FreshFor(r) == IF Lifetime(r) = None THEN HEURISTIC_MAX_LIFETIME ELSE Saturating(Lifetime(r), SECOND)
\* The stale window; no-cache has none.
StaleFor(r) == IF r.no_cache THEN 0 ELSE r.swr

\* An entry says of its response what insert computed.
EntryOK(e) ==
    /\ e.footprint = e.response.footprint
    /\ e.expires_at = e.stored_at + FreshFor(e.response)
    /\ e.serve_stale_until = e.expires_at + StaleFor(e.response)

\* A map with its byte count at some tick: the count is exact, no tick is used twice.
StoreOK(m, n, t) ==
    /\ DOMAIN m \subseteq Keys /\ IsFiniteSet(DOMAIN m)
    /\ m \in [DOMAIN m -> Entries]
    /\ \A k \in DOMAIN m : EntryOK(m[k]) /\ m[k].stored_at <= n /\ m[k].last_read < t
    /\ \A j, k \in DOMAIN m : m[j].last_read = m[k].last_read => j = k

\* The footprints, as a function of the key.
Weights(m) == [k \in DOMAIN m |-> m[k].footprint]

\* A footprint is the sum of the weights of its keys.
LEMMA FootIs ==
  ASSUME NEW m, IsFiniteSet(DOMAIN m), NEW ks \in SUBSET DOMAIN m
  PROVE  Footprint(m, ks) = SumFunctionOnSet(Weights(m), ks)
<1> DEFINE f == [k \in ks |-> m[k].footprint]
<1>1. Footprint(m, ks) = SumFunctionOnSet(f, ks)
  BY DEF Footprint, SumFunction
<1>2. \A x \in ks : f[x] = Weights(m)[x]
  BY DEF Weights
<1>3. IsFiniteSet(ks)
  BY FS_Subset
<1> HIDE DEF f
<1>4. SumFunctionOnSet(f, ks) = SumFunctionOnSet(Weights(m), ks)
  BY <1>2, <1>3, SumSame
<1> QED BY <1>1, <1>4

\* It depends on nothing but the entries of those keys.
LEMMA FootAgree ==
  ASSUME NEW m, NEW o, NEW ks, IsFiniteSet(ks), \A k \in ks : m[k].footprint = o[k].footprint
  PROVE  Footprint(m, ks) = Footprint(o, ks)
<1> DEFINE f == [k \in ks |-> m[k].footprint]
           g == [k \in ks |-> o[k].footprint]
<1>1. Footprint(m, ks) = SumFunctionOnSet(f, ks) /\ Footprint(o, ks) = SumFunctionOnSet(g, ks)
  BY DEF Footprint, SumFunction
<1>2. \A x \in ks : f[x] = g[x]
  OBVIOUS
<1> HIDE DEF f, g
<1> QED BY <1>1, <1>2, SumSame

\* On the keys of the map.
LEMMA FootWeights ==
  ASSUME NEW m, NEW n, NEW t, StoreOK(m, n, t)
  PROVE  \A k \in DOMAIN m : Weights(m)[k] \in Nat
BY DEF StoreOK, Weights, Entries

\* It is a natural.
LEMMA FootNat ==
  ASSUME NEW m, NEW n, NEW t, StoreOK(m, n, t), NEW ks \in SUBSET DOMAIN m
  PROVE  Footprint(m, ks) \in Nat
<1>1. IsFiniteSet(DOMAIN m) /\ IsFiniteSet(ks)
  BY FS_Subset DEF StoreOK
<1>2. \A k \in ks : Weights(m)[k] \in Nat
  BY FootWeights
<1>3. SumFunctionOnSet(Weights(m), ks) \in Nat
  BY <1>1, <1>2, SumNat
<1> QED BY <1>1, <1>3, FootIs

\* It is the sum over a part and over the rest.
LEMMA FootSplit ==
  ASSUME NEW m, NEW n, NEW t, StoreOK(m, n, t), NEW ks \in SUBSET DOMAIN m, NEW js \in SUBSET ks
  PROVE  Footprint(m, ks) = Footprint(m, js) + Footprint(m, ks \ js)
<1>1. IsFiniteSet(DOMAIN m) /\ IsFiniteSet(ks)
  BY FS_Subset DEF StoreOK
<1>2. \A k \in ks : Weights(m)[k] \in Nat
  BY FootWeights
<1>3. SumFunctionOnSet(Weights(m), ks)
        = SumFunctionOnSet(Weights(m), js) + SumFunctionOnSet(Weights(m), ks \ js)
  BY <1>1, <1>2, SumSplit
<1>4. js \in SUBSET DOMAIN m /\ ks \ js \in SUBSET DOMAIN m
  OBVIOUS
<1> QED BY <1>1, <1>3, <1>4, FootIs

\* No key weighs nothing.
LEMMA FootNone == \A m : Footprint(m, {}) = 0
<1> TAKE m
<1>1. Footprint(m, {}) = SumFunctionOnSet([k \in {} |-> m[k].footprint], {})
  BY DEF Footprint, SumFunction
<1> QED BY <1>1, SumEmpty

\* One key weighs its footprint.
LEMMA FootOne ==
  ASSUME NEW m, NEW n, NEW t, StoreOK(m, n, t), NEW k \in DOMAIN m
  PROVE  Footprint(m, {k}) = m[k].footprint
<1>1. IsFiniteSet(DOMAIN m) /\ IsFiniteSet({k})
  BY FS_Singleton DEF StoreOK
<1>2. \A x \in {k} : Weights(m)[x] \in Nat
  BY FootWeights
<1>3. SumFunctionOnSet(Weights(m), {k}) = Weights(m)[k] + SumFunctionOnSet(Weights(m), {k} \ {k})
  BY <1>1, <1>2, SumRemove
<1>4. {k} \ {k} = {} /\ SumFunctionOnSet(Weights(m), {}) = 0
  BY SumEmpty
<1>5. Weights(m)[k] = m[k].footprint
  BY DEF Weights
<1>6. Footprint(m, {k}) = SumFunctionOnSet(Weights(m), {k})
  BY <1>1, FootIs
<1> QED BY <1>2, <1>3, <1>4, <1>5, <1>6

\* Eviction aims below the bound.
LEMMA TargetFits == Target \in Nat /\ Target <= MAX_BYTES
<1>1. MAX_BYTES \in Nat
  BY SizeAssumption
<1>2. MAX_BYTES \div 8 \in Nat /\ MAX_BYTES \div 8 <= MAX_BYTES
  BY <1>1
<1> QED BY <1>1, <1>2 DEF Target

\* The entries read before k.
Older(m, k) == {j \in DOMAIN m : m[j].last_read < m[k].last_read}

\* An entry survives when it and the entries read after it fit the target.
LEMMA SurvivorIff ==
  ASSUME NEW m, NEW n, NEW t, StoreOK(m, n, t), NEW held, held = Footprint(m, DOMAIN m)
  PROVE  \A k \in DOMAIN m :
            /\ Footprint(m, Older(m, k)) \in Nat
            /\ k \in Survivors(m, held) <=> held - Footprint(m, Older(m, k)) <= Target
<1> SUFFICES ASSUME NEW k \in DOMAIN m
             PROVE  /\ Footprint(m, Older(m, k)) \in Nat
                    /\ k \in Survivors(m, held) <=> held - Footprint(m, Older(m, k)) <= Target
  OBVIOUS
<1>1. Older(m, k) \in SUBSET DOMAIN m
  BY DEF Older
<1>2. PICK rest : rest = Footprint(m, DOMAIN m \ Older(m, k))
  OBVIOUS
<1>3. PICK o : o = Footprint(m, Older(m, k))
  OBVIOUS
<1>4. o \in Nat /\ rest \in Nat /\ held = o + rest
  BY <1>1, <1>2, <1>3, FootNat, FootSplit
<1>5. Saturating(held, o) = held - o
  BY <1>4 DEF Saturating
<1>6. k \in Survivors(m, held) <=> Saturating(held, o) <= Target
  BY <1>3 DEF Survivors, Older
<1> QED BY <1>3, <1>4, <1>5, <1>6

\* Reading order decides: what is read no earlier than a survivor survives.
LEMMA SurvivorsAreNewest ==
  ASSUME NEW m, NEW n, NEW t, StoreOK(m, n, t), NEW held, held = Footprint(m, DOMAIN m),
         NEW k \in Survivors(m, held), NEW j \in DOMAIN m \ Survivors(m, held)
  PROVE  m[j].last_read < m[k].last_read
<1>0. k \in DOMAIN m /\ held \in Nat
  BY FootNat DEF Survivors
<1>1. m[j].last_read \in Nat /\ m[k].last_read \in Nat
  BY <1>0 DEF StoreOK, Entries
<1>2. SUFFICES ASSUME ~(m[j].last_read < m[k].last_read) PROVE FALSE
  OBVIOUS
<1>3. \A i \in DOMAIN m : m[i].last_read \in Nat
  BY DEF StoreOK, Entries
<1>4. Older(m, k) \in SUBSET Older(m, j) /\ Older(m, j) \in SUBSET DOMAIN m
  BY <1>1, <1>2, <1>3 DEF Older
<1>5. PICK a, b, c : a = Footprint(m, Older(m, k)) /\ b = Footprint(m, Older(m, j))
                    /\ c = Footprint(m, Older(m, j) \ Older(m, k))
  OBVIOUS
<1>6. a \in Nat /\ b \in Nat /\ c \in Nat /\ b = a + c
  BY <1>4, <1>5, FootNat, FootSplit
<1>7. held - a <= Target /\ ~(held - b <= Target)
  BY <1>0, <1>5, SurvivorIff
<1> QED BY <1>0, <1>6, <1>7, TargetFits

\* The survivors fit the target: the least recently read of them says so.
LEMMA SurvivorsFit ==
  ASSUME NEW m, NEW n, NEW t, StoreOK(m, n, t), NEW held, held = Footprint(m, DOMAIN m)
  PROVE  /\ Survivors(m, held) \in SUBSET DOMAIN m
         /\ Footprint(m, Survivors(m, held)) <= Target
         /\ Saturating(held, Footprint(m, DOMAIN m \ Survivors(m, held)))
              = Footprint(m, Survivors(m, held))
<1>1. PICK kept : kept = Survivors(m, held)
  OBVIOUS
<1>2. kept \in SUBSET DOMAIN m
  BY <1>1 DEF Survivors
<1>3. PICK a, b : a = Footprint(m, kept) /\ b = Footprint(m, DOMAIN m \ kept)
  OBVIOUS
<1>4. a \in Nat /\ b \in Nat /\ held = a + b
  BY <1>2, <1>3, FootNat, FootSplit
<1>5. Saturating(held, b) = a
  BY <1>4 DEF Saturating
<1>6. a <= Target
  <2>1. CASE kept = {}
    BY <1>3, <2>1, FootNone, TargetFits
  <2>2. CASE kept # {}
    <3> DEFINE L == {m[k].last_read : k \in kept}
    <3>1. L \in SUBSET Nat /\ L # {}
      BY <1>2, <2>2 DEF StoreOK, Entries
    <3>2. PICK l \in L : \A x \in L : l <= x
      BY <3>1, NatLeast
    <3>3. PICK k \in kept : m[k].last_read = l /\ \A j \in kept : l <= m[j].last_read
      BY <3>2
    <3>4. DOMAIN m \ kept = Older(m, k)
      <4>1. \A i \in DOMAIN m : m[i].last_read \in Nat
        BY DEF StoreOK, Entries
      <4>2. ASSUME NEW j \in DOMAIN m \ kept PROVE j \in Older(m, k)
        BY <1>1, <3>3, SurvivorsAreNewest DEF Older
      <4>3. ASSUME NEW j \in Older(m, k) PROVE j \in DOMAIN m \ kept
        BY <1>2, <3>3, <4>1 DEF Older
      <4> QED BY <4>2, <4>3
    <3>5. held - b <= Target
      BY <1>1, <1>2, <1>3, <3>3, <3>4, SurvivorIff
    <3> QED BY <1>4, <3>5, TargetFits
  <2> QED BY <2>1, <2>2
<1> QED BY <1>1, <1>2, <1>3, <1>5, <1>6

\* A later tick changes nothing of a map.
LEMMA StoreLater ==
  ASSUME NEW m, NEW n \in Nat, NEW t \in Nat, StoreOK(m, n, t), NEW n2 \in Nat, n <= n2, NEW t2 \in Nat, t <= t2
  PROVE  StoreOK(m, n2, t2)
BY DEF StoreOK, Entries

\* Dropping entries keeps a map exact when their bytes are given back.
LEMMA StoreRestrict ==
  ASSUME NEW m, NEW n, NEW t, StoreOK(m, n, t), NEW ks \in SUBSET DOMAIN m
  PROVE  StoreOK([k \in ks |-> m[k]], n, t)
<1>1. PICK o : o = [k \in ks |-> m[k]]
  OBVIOUS
<1>2. DOMAIN o = ks /\ \A k \in ks : o[k] = m[k] /\ k \in DOMAIN m
  BY <1>1
<1>3. IsFiniteSet(ks)
  BY FS_Subset DEF StoreOK
<1>4. o \in [DOMAIN o -> Entries]
  BY <1>1 DEF StoreOK
<1>5. StoreOK(o, n, t)
  BY <1>2, <1>3, <1>4 DEF StoreOK
<1> QED BY <1>1, <1>5

\* An entry that takes the tick t, for a key stored or not.
LEMMA StorePut ==
  ASSUME NEW m, NEW n \in Nat, NEW t \in Nat, StoreOK(m, n, t), NEW k \in Keys,
         NEW e \in Entries, EntryOK(e), e.stored_at <= n, e.last_read = t,
         NEW o, o \in [DOMAIN m \cup {k} -> Entries], o[k] = e, \A j \in DOMAIN m \ {k} : o[j] = m[j]
  PROVE  StoreOK(o, n, t + 1)
<1>1. DOMAIN o = DOMAIN m \cup {k} /\ o[k] = e /\ \A j \in DOMAIN m \ {k} : o[j] = m[j]
  OBVIOUS
<1>2. DOMAIN o \subseteq Keys /\ IsFiniteSet(DOMAIN o)
  BY <1>1, FS_AddElement DEF StoreOK
<1>3. o \in [DOMAIN o -> Entries]
  BY <1>1 DEF StoreOK
<1>4. \A j \in DOMAIN m : m[j].last_read \in Nat /\ m[j].last_read < t
  BY DEF StoreOK, Entries
<1>5. ASSUME NEW j \in DOMAIN o
      PROVE  EntryOK(o[j]) /\ o[j].stored_at <= n /\ o[j].last_read < t + 1
  <2>1. CASE j = k
    BY <1>1, <2>1
  <2>2. CASE j # k
    BY <1>1, <1>4, <2>2 DEF StoreOK
  <2> QED BY <2>1, <2>2
<1>6. ASSUME NEW i \in DOMAIN o, NEW j \in DOMAIN o, o[i].last_read = o[j].last_read PROVE i = j
  <2>1. CASE i # k /\ j # k
    BY <1>1, <1>6, <2>1 DEF StoreOK
  <2>2. CASE i = k \/ j = k
    BY <1>1, <1>4, <1>6, <2>2
  <2> QED BY <2>1, <2>2
<1> QED BY <1>2, <1>3, <1>5, <1>6 DEF StoreOK

\* The inductive invariant.
CacheInv ==
    /\ now \in Nat /\ tick \in Nat
    /\ StoreOK(map, now, tick)
    /\ bytes = Footprint(map, Stored) /\ bytes <= MAX_BYTES
    /\ answer.kind \in {"none", "Miss", "Fresh", "Stale"}
    /\ ServedWithinWindow /\ ClientIsObeyed

\* It gives the contract.
LEMMA CacheInvImplies == CacheInv => CacheContract
<1> SUFFICES ASSUME CacheInv PROVE CacheContract
  OBVIOUS
<1>1. bytes \in Nat
  BY FootNat DEF CacheInv, Stored
<1>2. CacheTypeOK
  BY <1>1 DEF CacheInv, StoreOK, Entries, CacheTypeOK, Stored
<1>3. TicksAreUnique
  BY DEF CacheInv, StoreOK, TicksAreUnique, Stored
<1> QED BY <1>2, <1>3 DEF CacheInv, CacheContract, BytesAreExact, WithinBound

\* An empty cache.
LEMMA CacheInitOK == CacheInit => CacheInv
<1> SUFFICES ASSUME CacheInit PROVE CacheInv
  OBVIOUS
<1>0. DOMAIN map = {}
  BY DEF CacheInit
<1>1. StoreOK(map, now, tick)
  BY <1>0, FS_EmptySet DEF CacheInit, StoreOK
<1>2. bytes = Footprint(map, Stored) /\ bytes <= MAX_BYTES
  BY <1>0, FootNone, SizeAssumption DEF CacheInit, Stored
<1>3. answer.kind = "none"
  BY DEF CacheInit, NoAnswer
<1> QED BY <1>1, <1>2, <1>3 DEF CacheInit, CacheInv, ServedWithinWindow, ClientIsObeyed

\* After a step that answers nothing, only the store is to be looked at.
LEMMA NothingServed ==
  ASSUME answer' = NoAnswer \/ answer' = Miss
  PROVE  answer.kind' \in {"none", "Miss", "Fresh", "Stale"} /\ ServedWithinWindow' /\ ClientIsObeyed'
BY DEF NoAnswer, Miss, ServedWithinWindow, ClientIsObeyed

\* insert's entry.
LEMMA EntryIsOK ==
  ASSUME now \in Nat, tick \in Nat, NEW r \in Responses
  PROVE  Entry(r) \in Entries /\ EntryOK(Entry(r)) /\ Entry(r).stored_at = now
         /\ Entry(r).last_read = tick /\ Entry(r).footprint = r.footprint /\ r.footprint \in Nat
<1>1. /\ r.lifetime \in Nat \cup {None} /\ r.swr \in Nat /\ r.no_cache \in BOOLEAN
      /\ r.footprint \in Nat /\ SECOND \in Nat /\ HEURISTIC_MAX_LIFETIME \in Nat
  BY ResponseAssumption, SizeAssumption, LifetimeAssumption
<1>2. Lifetime(r) \in Nat \cup {None}
  BY <1>1 DEF Lifetime
<1>3. FreshFor(r) \in Nat
  BY <1>1, <1>2 DEF FreshFor, Saturating, None
<1>4. StaleFor(r) \in Nat
  BY <1>1 DEF StaleFor
<1>5. ExpiresAt(r) = now + FreshFor(r)
  BY DEF ExpiresAt, FreshFor, REFRESH_MARGIN
<1>6. Entry(r) = [response |-> r, stored_at |-> now, expires_at |-> now + FreshFor(r),
                  serve_stale_until |-> (now + FreshFor(r)) + StaleFor(r),
                  footprint |-> r.footprint, last_read |-> tick]
  BY <1>5 DEF Entry, StaleFor
<1> QED BY <1>1, <1>3, <1>4, <1>6 DEF Entries, EntryOK

\* The map and the total of an insert before anything is evicted.
Put(k, r) == [j \in Stored \cup {k} |-> IF j = k THEN Entry(r) ELSE map[j]]
\* ... and the bytes counted then.
Held(k, r) == Saturating(bytes, Freed(k)) + r.footprint

\* Storing over an entry gives its bytes back first.
LEMMA PutIsExact ==
  ASSUME CacheInv, NEW k \in Keys, NEW r \in Responses
  PROVE  /\ StoreOK(Put(k, r), now, tick + 1)
         /\ DOMAIN Put(k, r) = Stored \cup {k}
         /\ \A j \in Stored \ {k} : Put(k, r)[j] = map[j]
         /\ Put(k, r)[k].last_read = tick
         /\ Held(k, r) = Footprint(Put(k, r), DOMAIN Put(k, r))
<1>0. now \in Nat /\ tick \in Nat /\ StoreOK(map, now, tick) /\ bytes = Footprint(map, Stored)
  BY DEF CacheInv
<1>1. PICK e \in Entries : e = Entry(r)
  BY <1>0, EntryIsOK
<1>2. EntryOK(e) /\ e.stored_at = now /\ e.last_read = tick /\ e.footprint = r.footprint /\ r.footprint \in Nat
  BY <1>0, <1>1, EntryIsOK
<1>3. PICK o : o = Put(k, r)
  OBVIOUS
<1>4. o = [j \in DOMAIN map \cup {k} |-> IF j = k THEN e ELSE map[j]]
  BY <1>1, <1>3 DEF Put, Stored
<1>5. StoreOK(o, now, tick + 1)
  <2>1. e.stored_at <= now
    BY <1>0, <1>2
  <2>2. EntryOK(e) /\ e.last_read = tick /\ StoreOK(map, now, tick) /\ now \in Nat /\ tick \in Nat
    BY <1>0, <1>2
  <2>3. o \in [DOMAIN map \cup {k} -> Entries] /\ o[k] = e /\ \A j \in DOMAIN map \ {k} : o[j] = map[j]
    BY <1>4, <2>2 DEF StoreOK
  <2> QED BY <2>1, <2>2, <2>3, StorePut
<1>6. DOMAIN o = Stored \cup {k} /\ o[k] = e /\ \A j \in Stored \ {k} : o[j] = map[j]
  BY <1>4 DEF Stored
<1>7. Held(k, r) = Footprint(o, DOMAIN o)
  <2>1. PICK rest : rest = Footprint(map, Stored \ {k})
    OBVIOUS
  <2>2. rest \in Nat
    BY <1>0, <2>1, FootNat DEF Stored
  <2>3. Saturating(bytes, Freed(k)) = rest
    <3>1. CASE k \in Stored
      <4>1. Footprint(map, {k}) = map[k].footprint
        BY <1>0, <3>1, FootOne DEF Stored
      <4>2. map[k].footprint \in Nat
        BY <1>0, <3>1 DEF StoreOK, Entries, Stored
      <4>3. bytes = map[k].footprint + rest
        BY <1>0, <2>1, <3>1, <4>1, FootSplit DEF Stored
      <4> QED BY <2>2, <3>1, <4>2, <4>3 DEF Saturating, Freed
    <3>2. CASE k \notin Stored
      <4>1. Stored \ {k} = Stored
        BY <3>2
      <4> QED BY <1>0, <2>1, <2>2, <3>2, <4>1 DEF Saturating, Freed
    <3> QED BY <3>1, <3>2
  <2>4. Footprint(o, {k}) = r.footprint
    BY <1>2, <1>5, <1>6, FootOne
  <2>5. Footprint(o, DOMAIN o \ {k}) = rest
    <3>1. DOMAIN o \ {k} = Stored \ {k}
      BY <1>6
    <3>2. IsFiniteSet(Stored \ {k})
      BY <1>0, FS_Subset DEF StoreOK, Stored
    <3> QED BY <1>6, <2>1, <3>1, <3>2, FootAgree
  <2>6. Footprint(o, DOMAIN o) = Footprint(o, {k}) + Footprint(o, DOMAIN o \ {k})
    BY <1>5, <1>6, FootSplit
  <2> QED BY <1>2, <2>2, <2>3, <2>4, <2>5, <2>6 DEF Held
<1> QED BY <1>2, <1>3, <1>5, <1>6, <1>7

\* insert stores, and evicts when the bound is passed.
LEMMA InsertIs ==
  ASSUME NEW k, NEW r, Insert(k, r)
  PROVE  /\ tick' = tick + 1 /\ answer' = NoAnswer /\ now' = now
         /\ \/ ~(Held(k, r) > MAX_BYTES) /\ map' = Put(k, r) /\ bytes' = Held(k, r)
            \/ Held(k, r) > MAX_BYTES /\ EvictUntilUnder(Put(k, r), Held(k, r))
BY DEF Insert, Put, Held

\* An insert that passes the bound leaves the survivors and their exact total.
LEMMA EvictionIs ==
  ASSUME NEW m, NEW n, NEW t, StoreOK(m, n, t), NEW held, held = Footprint(m, DOMAIN m),
         EvictUntilUnder(m, held)
  PROVE  /\ StoreOK(map', n, t) /\ DOMAIN map' = Survivors(m, held)
         /\ \A k \in Survivors(m, held) : map'[k] = m[k]
         /\ bytes' = Footprint(map', DOMAIN map') /\ bytes' <= Target
<1>1. PICK kept : kept = Survivors(m, held)
  OBVIOUS
<1>2. kept \in SUBSET DOMAIN m /\ Footprint(m, kept) <= Target
      /\ Saturating(held, Footprint(m, DOMAIN m \ kept)) = Footprint(m, kept)
  BY <1>1, SurvivorsFit
<1>3. map' = [k \in kept |-> m[k]] /\ bytes' = Footprint(m, kept)
  BY <1>1, <1>2 DEF EvictUntilUnder
<1>4. StoreOK(map', n, t)
  BY <1>2, <1>3, StoreRestrict
<1>5. DOMAIN map' = kept /\ \A k \in kept : map'[k] = m[k]
  BY <1>3
<1>6. Footprint(map', kept) = Footprint(m, kept)
  <2>1. IsFiniteSet(kept)
    BY <1>2, FS_Subset DEF StoreOK
  <2>2. \A k \in kept : map'[k].footprint = m[k].footprint
    BY <1>5
  <2> QED BY <2>1, <2>2, FootAgree
<1> QED BY <1>1, <1>2, <1>3, <1>4, <1>5, <1>6

\* insert, with the eviction it ends in.
LEMMA CacheInsertOK ==
  ASSUME CacheInv, NEW k \in Keys, NEW r \in Responses, Insert(k, r)
  PROVE  CacheInv'
<1>0. now \in Nat /\ tick \in Nat /\ MAX_BYTES \in Nat
  BY SizeAssumption DEF CacheInv
<1>1. PICK m, held : m = Put(k, r) /\ held = Held(k, r)
  OBVIOUS
<1>2. StoreOK(m, now, tick + 1) /\ held = Footprint(m, DOMAIN m)
  BY <1>1, PutIsExact
<1>3. held \in Nat
  BY <1>2, FootNat
<1>4. /\ tick' = tick + 1 /\ answer' = NoAnswer /\ now' = now
      /\ \/ ~(held > MAX_BYTES) /\ map' = m /\ bytes' = held
         \/ EvictUntilUnder(m, held)
  BY <1>1, InsertIs
<1>5. /\ StoreOK(map', now', tick') /\ bytes' = Footprint(map', DOMAIN map') /\ bytes' <= MAX_BYTES
  <2>1. CASE ~(held > MAX_BYTES) /\ map' = m /\ bytes' = held
    BY <1>0, <1>2, <1>3, <1>4, <2>1
  <2>2. CASE EvictUntilUnder(m, held)
    <3>1. StoreOK(map', now, tick + 1) /\ bytes' = Footprint(map', DOMAIN map') /\ bytes' <= Target
      BY <1>2, <2>2, EvictionIs
    <3>2. Footprint(map', DOMAIN map') \in Nat
      BY <3>1, FootNat
    <3> QED BY <1>0, <1>4, <3>1, <3>2, TargetFits
  <2> QED BY <1>4, <2>1, <2>2
<1>6. answer.kind' \in {"none", "Miss", "Fresh", "Stale"} /\ ServedWithinWindow' /\ ClientIsObeyed'
  BY <1>4, NothingServed
<1>7. now' \in Nat /\ tick' \in Nat
  BY <1>0, <1>4
<1> QED BY <1>5, <1>6, <1>7 DEF CacheInv, Stored

\* Durations and whole seconds.
LEMMA Seconds ==
  ASSUME NEW d \in Nat, NEW s \in Nat
  PROVE  /\ AsSecs(d) \in Nat
         /\ AsSecs(d) <= s => d < (s + 1) * SECOND
         /\ AsSecs(d) >= s => d >= s * SECOND
<1>1. SECOND \in Nat \ {0}
  BY SizeAssumption
<1>2. PICK q : q = d \div SECOND
  OBVIOUS
<1>3. q \in Nat /\ q * SECOND <= d /\ d < (q + 1) * SECOND
  BY <1>1, <1>2
<1>4. ASSUME q <= s PROVE (q + 1) * SECOND <= (s + 1) * SECOND
  BY <1>1, <1>3, <1>4
<1>5. ASSUME q >= s PROVE s * SECOND <= q * SECOND
  BY <1>1, <1>3, <1>5
<1>6. (s + 1) * SECOND \in Nat /\ s * SECOND \in Nat /\ (q + 1) * SECOND \in Nat /\ q * SECOND \in Nat
  BY <1>1, <1>3
<1> QED BY <1>2, <1>3, <1>4, <1>5, <1>6 DEF AsSecs

\* lookup_with serves only what the deadlines and the client allow, at any reading of the clock.
LEMMA CacheLookupOK ==
  ASSUME CacheInv, NEW k \in Keys, NEW req \in Requests, NEW pause \in {0, 1}, LookupWith(k, req, pause)
  PROVE  CacheInv'
<1>0. /\ now \in Nat /\ tick \in Nat /\ now' = now + pause /\ now' \in Nat /\ now <= now'
      /\ StoreOK(map, now, tick) /\ bytes = Footprint(map, DOMAIN map) /\ bytes <= MAX_BYTES
      /\ bytes' = bytes
  BY DEF CacheInv, LookupWith, Stored
<1>1. /\ tick' \in Nat
      /\ StoreOK(map', now', tick') /\ bytes' = Footprint(map', DOMAIN map') /\ bytes' <= MAX_BYTES
  <2>1. CASE Reads(k, req)
    <3>0. k \in DOMAIN map /\ tick' = tick + 1 /\ map' = [map EXCEPT ![k].last_read = tick]
      BY <2>1 DEF Reads, LookupWith, Stored
    <3>1. map \in [DOMAIN map -> Entries] /\ EntryOK(map[k]) /\ map[k].stored_at <= now
      BY <1>0, <3>0 DEF StoreOK
    <3>2. PICK e \in Entries : e = [map[k] EXCEPT !.last_read = tick]
      BY <1>0, <3>0, <3>1 DEF Entries
    <3>3. /\ e.last_read = tick /\ e.stored_at = map[k].stored_at /\ e.footprint = map[k].footprint
          /\ e.response = map[k].response /\ e.expires_at = map[k].expires_at
          /\ e.serve_stale_until = map[k].serve_stale_until
      BY <3>0, <3>1, <3>2 DEF Entries
    <3>4. EntryOK(e)
      BY <3>1, <3>3 DEF EntryOK
    <3>5. map' = [j \in DOMAIN map \cup {k} |-> IF j = k THEN e ELSE map[j]]
      BY <3>0, <3>1, <3>2
    <3>6. StoreOK(map', now, tick + 1)
      <4>1. map' \in [DOMAIN map \cup {k} -> Entries] /\ map'[k] = e /\ \A j \in DOMAIN map \ {k} : map'[j] = map[j]
        BY <3>1, <3>5
      <4>2. e.stored_at <= now
        BY <3>1, <3>3
      <4> QED BY <1>0, <3>3, <3>4, <4>1, <4>2, StorePut
    <3>7. DOMAIN map' = DOMAIN map /\ \A j \in DOMAIN map : map'[j].footprint = map[j].footprint
      BY <3>0, <3>3, <3>5
    <3>8. IsFiniteSet(DOMAIN map)
      BY <1>0 DEF StoreOK
    <3>9. Footprint(map', DOMAIN map) = Footprint(map, DOMAIN map)
      BY <3>7, <3>8, FootAgree
    <3>10. StoreOK(map', now', tick + 1)
      BY <1>0, <3>6, StoreLater
    <3> QED BY <1>0, <3>0, <3>7, <3>9, <3>10
  <2>2. CASE ~Reads(k, req)
    <3>1. map' = map /\ tick' = tick
      BY <2>2 DEF LookupWith
    <3>2. StoreOK(map, now', tick)
      BY <1>0, StoreLater
    <3> QED BY <1>0, <3>1, <3>2
  <2> QED BY <2>1, <2>2
<1>2. answer.kind' \in {"none", "Miss", "Fresh", "Stale"} /\ ServedWithinWindow' /\ ClientIsObeyed'
  <2>1. CASE ~(Reads(k, req) /\ Accepts(Lookup(k), k, req, now'))
    <3>1. answer' = Miss
      BY <2>1 DEF LookupWith
    <3> QED BY <3>1, NothingServed
  <2>2. CASE Reads(k, req) /\ Accepts(Lookup(k), k, req, now')
    <3>1. PICK e : e = map[k]
      OBVIOUS
    <3>2. PICK base : base = Lookup(k)
      OBVIOUS
    <3>3. k \in Stored /\ ~req.no_cache
      BY <2>2 DEF Reads
    <3>4. answer' = [kind |-> base.kind, age |-> base.age, at |-> now, req |-> req, entry |-> e]
      BY <2>2, <3>1, <3>2 DEF LookupWith
    <3>5. e \in Entries /\ EntryOK(e) /\ e.stored_at <= now
      BY <1>0, <3>1, <3>3 DEF StoreOK, Stored
    <3> DEFINE r == e.response
    <3>6. /\ r \in Responses /\ e.stored_at \in Nat /\ e.expires_at \in Nat
          /\ r.lifetime \in Nat \cup {None} /\ r.swr \in Nat /\ r.no_cache \in BOOLEAN /\ r.upstream_age \in Nat
      BY <3>5, ResponseAssumption DEF Entries
    <3>7. base.kind # "Miss"
      BY <2>2, <3>2 DEF Accepts
    <3>8. /\ base.kind \in {"Fresh", "Stale"}
          /\ base.kind = "Fresh" => now < e.expires_at
          /\ base.kind = "Stale" => ~(now < e.expires_at) /\ now < e.serve_stale_until
          /\ base.age = r.upstream_age + (now - e.stored_at)
      BY <3>1, <3>2, <3>3, <3>7 DEF Lookup, Miss
    <3>9. PICK fresh, stale : fresh = FreshFor(r) /\ stale = StaleFor(r)
      OBVIOUS
    <3>10. e.expires_at = e.stored_at + fresh /\ e.serve_stale_until = (e.stored_at + fresh) + stale
      BY <3>5, <3>9 DEF EntryOK
    <3>11. SECOND \in Nat \ {0} /\ HEURISTIC_MAX_LIFETIME \in Nat
      BY SizeAssumption, LifetimeAssumption
    <3>12. r.no_cache => fresh = 0 /\ stale = 0
      BY <3>9, <3>11 DEF FreshFor, StaleFor, Lifetime, Saturating, None
    <3>13. ~r.no_cache
      BY <1>0, <3>5, <3>6, <3>8, <3>10, <3>12
    <3>14. /\ fresh = IF r.lifetime = None THEN HEURISTIC_MAX_LIFETIME ELSE Saturating(r.lifetime, SECOND)
           /\ stale = r.swr
      BY <3>9, <3>13 DEF FreshFor, StaleFor, Lifetime
    <3>15. fresh \in Nat
      BY <3>6, <3>11, <3>14 DEF Saturating, None
    <3>16. /\ base.kind = "Fresh" => now - e.stored_at < fresh
           /\ base.kind = "Stale" => now - e.stored_at >= fresh /\ now - e.stored_at < fresh + r.swr
      BY <1>0, <3>5, <3>6, <3>8, <3>10, <3>14, <3>15
    <3>17. ServedWithinWindow'
      BY <3>4, <3>13, <3>14, <3>16 DEF ServedWithinWindow
    <3>18. ClientIsObeyed'
      <4>1. /\ req.max_age \in Nat \cup {None} /\ req.min_fresh \in Nat \cup {None}
            /\ req.max_stale \in Nat \cup {None, AnyAge}
        BY RequestAssumption
      <4>2. /\ req.max_age # None => AsSecs(base.age) <= req.max_age
            /\ req.min_fresh # None => AsSecs(Saturating(e.expires_at, now')) >= req.min_fresh
            /\ base.kind = "Stale" /\ req.max_stale \notin {None, AnyAge}
                 => AsSecs(Saturating(now', e.expires_at)) <= req.max_stale
        BY <2>2, <3>1, <3>2 DEF Accepts, RemainingFreshness, Staleness
      <4>3. ASSUME req.max_age # None PROVE base.age < (req.max_age + 1) * SECOND
        <5>1. base.age \in Nat
          BY <1>0, <3>5, <3>6, <3>8
        <5> QED BY <4>1, <4>2, <4>3, <5>1, Seconds
      <4>4. ASSUME req.min_fresh # None
            PROVE  now' + req.min_fresh * SECOND <= Max({e.expires_at, now'})
        <5>1. PICK d \in Nat : d = Saturating(e.expires_at, now')
          BY <1>0, <3>6 DEF Saturating
        <5>2. req.min_fresh \in Nat /\ AsSecs(d) >= req.min_fresh
          BY <4>1, <4>2, <4>4, <5>1
        <5>3. PICK x : x = req.min_fresh * SECOND
          OBVIOUS
        <5>4. d >= x /\ x \in Nat
          BY <3>11, <5>2, <5>3, Seconds
        <5>5. now' + d <= (IF e.expires_at >= now' THEN e.expires_at ELSE now')
          BY <1>0, <3>6, <5>1 DEF Saturating
        <5>6. Max({e.expires_at, now'}) = IF e.expires_at >= now' THEN e.expires_at ELSE now'
          BY <1>0, <3>6, MaxOfTwo
        <5> QED BY <1>0, <3>6, <5>3, <5>4, <5>5, <5>6
      <4>5. ASSUME req.max_stale \notin {None, AnyAge}, base.kind = "Stale"
            PROVE  now' < e.expires_at + (req.max_stale + 1) * SECOND
        <5>1. PICK d \in Nat : d = Saturating(now', e.expires_at)
          BY <1>0, <3>6 DEF Saturating
        <5>2. req.max_stale \in Nat /\ AsSecs(d) <= req.max_stale
          BY <4>1, <4>2, <4>5, <5>1
        <5>3. PICK x : x = (req.max_stale + 1) * SECOND
          OBVIOUS
        <5>4. d < x /\ x \in Nat
          BY <3>11, <5>2, <5>3, Seconds
        <5> QED BY <1>0, <3>6, <5>1, <5>3, <5>4 DEF Saturating
      <4> QED BY <3>3, <3>4, <4>3, <4>4, <4>5 DEF ClientIsObeyed
    <3> QED BY <3>4, <3>8, <3>17, <3>18
  <2> QED BY <2>1, <2>2
<1> QED BY <1>0, <1>1, <1>2 DEF CacheInv, Stored

\* evict_path.
LEMMA CacheEvictOK == ASSUME CacheInv, NEW p, EvictPath(p) PROVE CacheInv'
<1>0. /\ now \in Nat /\ tick \in Nat /\ now' = now /\ tick' = tick /\ answer' = NoAnswer
      /\ StoreOK(map, now, tick) /\ bytes = Footprint(map, DOMAIN map) /\ bytes <= MAX_BYTES
      /\ MAX_BYTES \in Nat
  BY SizeAssumption DEF CacheInv, EvictPath, Stored
<1>1. PICK gone, kept : gone = OfPath(p) /\ kept = DOMAIN map \ gone
  OBVIOUS
<1>2. gone \in SUBSET DOMAIN map /\ kept \in SUBSET DOMAIN map
  BY <1>1 DEF OfPath, Stored
<1>3. PICK a, b : a = Footprint(map, gone) /\ b = Footprint(map, kept)
  OBVIOUS
<1>4. a \in Nat /\ b \in Nat /\ bytes = a + b
  BY <1>0, <1>1, <1>2, <1>3, FootNat, FootSplit
<1>5. map' = [k \in kept |-> map[k]] /\ bytes' = b
  BY <1>1, <1>3, <1>4 DEF EvictPath, Stored
<1>6. StoreOK(map', now, tick)
  BY <1>0, <1>2, <1>5, StoreRestrict
<1>7. DOMAIN map' = kept /\ \A k \in kept : map'[k].footprint = map[k].footprint
  BY <1>5
<1>8. Footprint(map', kept) = b
  <2>1. IsFiniteSet(kept)
    BY <1>0, <1>2, FS_Subset DEF StoreOK
  <2> QED BY <1>3, <1>7, <2>1, FootAgree
<1>9. bytes' <= MAX_BYTES
  BY <1>0, <1>4, <1>5
<1> QED BY <1>0, <1>5, <1>6, <1>7, <1>8, <1>9, NothingServed DEF CacheInv, Stored

\* clear.
LEMMA CacheClearOK == ASSUME CacheInv, Clear PROVE CacheInv'
<1>0. /\ now' \in Nat /\ tick' \in Nat /\ answer' = NoAnswer /\ bytes' = 0 /\ DOMAIN map' = {}
      /\ map' = <<>>
  BY DEF CacheInv, Clear
<1>1. StoreOK(map', now', tick')
  BY <1>0, FS_EmptySet DEF StoreOK
<1>2. bytes' = Footprint(map', DOMAIN map') /\ bytes' <= MAX_BYTES
  BY <1>0, FootNone, SizeAssumption
<1> QED BY <1>0, <1>1, <1>2, NothingServed DEF CacheInv, Stored

\* Time passes.
LEMMA CacheClockOK == ASSUME CacheInv, CacheClock PROVE CacheInv'
<1>0. /\ now \in Nat /\ now' = now + 1 /\ now' \in Nat /\ now <= now' /\ tick \in Nat /\ tick' = tick
      /\ answer' = NoAnswer /\ map' = map /\ bytes' = bytes /\ StoreOK(map, now, tick)
  BY DEF CacheInv, CacheClock
<1>1. StoreOK(map, now', tick)
  <2>1. tick <= tick
    BY <1>0
  <2> QED BY <1>0, <2>1, StoreLater
<1> QED BY <1>0, <1>1, NothingServed DEF CacheInv, Stored

\* Every step of the cache.
LEMMA CacheNextOK == CacheInv /\ [CacheNext]_cachevars => CacheInv'
<1> SUFFICES ASSUME CacheInv, [CacheNext]_cachevars PROVE CacheInv'
  OBVIOUS
<1>1. ASSUME NEW k \in Keys, NEW r \in Responses, Insert(k, r) PROVE CacheInv'
  BY <1>1, CacheInsertOK
<1>2. ASSUME NEW k \in Keys, NEW req \in Requests, NEW pause \in {0, 1}, LookupWith(k, req, pause)
      PROVE  CacheInv'
  BY <1>2, CacheLookupOK
<1>3. ASSUME NEW k \in Keys, EvictPath(k[1]) PROVE CacheInv'
  BY <1>3, CacheEvictOK
<1>4. CASE Clear
  BY <1>4, CacheClearOK
<1>5. CASE CacheClock
  BY <1>5, CacheClockOK
<1>6. CASE UNCHANGED cachevars
  BY <1>6 DEF cachevars, CacheInv, Stored, ServedWithinWindow, ClientIsObeyed
<1> QED BY <1>1, <1>2, <1>3, <1>4, <1>5, <1>6 DEF CacheNext

\* The byte count is exact and within the bound after every operation, and no lookup serves
\* an entry outside its window or against the client's directives (insert, evict_until_under,
\* lookup_with, evict_path, clear).
THEOREM CacheIsExactAndBounded == CacheSpec => []CacheContract
<1>1. CacheSpec => []CacheInv
  BY CacheInitOK, CacheNextOK, PTL DEF CacheSpec
<1> QED BY <1>1, CacheInvImplies, PTL

\* One step evicts in read order.
LEMMA LeastReadStep ==
  ASSUME CacheInv, [CacheNext]_cachevars, tick' > tick
  PROVE  /\ \A j \in Stored \ DOMAIN map', k \in DOMAIN map' : map[j].last_read < map'[k].last_read
         /\ Stored \ DOMAIN map' # {} => bytes' <= Target
<1>0. now \in Nat /\ tick \in Nat /\ StoreOK(map, now, tick)
  BY DEF CacheInv
<1>1. ASSUME NEW x \in Keys, NEW r \in Responses, Insert(x, r)
      PROVE  /\ \A j \in Stored \ DOMAIN map', k \in DOMAIN map' : map[j].last_read < map'[k].last_read
             /\ Stored \ DOMAIN map' # {} => bytes' <= Target
  <2>1. PICK m, held : m = Put(x, r) /\ held = Held(x, r)
    OBVIOUS
  <2>2. /\ StoreOK(m, now, tick + 1) /\ held = Footprint(m, DOMAIN m) /\ DOMAIN m = Stored \cup {x}
        /\ \A j \in Stored \ {x} : m[j] = map[j]
        /\ m[x].last_read = tick
    BY <2>1, PutIsExact
  <2>3. (map' = m) \/ EvictUntilUnder(m, held)
    BY <1>1, <2>1, InsertIs
  <2>4. CASE map' = m
    BY <2>2, <2>4
  <2>5. CASE EvictUntilUnder(m, held)
    <3>1. PICK kept : kept = Survivors(m, held)
      OBVIOUS
    <3>2. DOMAIN map' = kept /\ (\A k \in kept : map'[k] = m[k]) /\ bytes' <= Target
      BY <2>2, <2>5, <3>1, EvictionIs
    <3>3. \A k \in kept, j \in DOMAIN m \ kept : m[j].last_read < m[k].last_read
      BY <2>2, <3>1, SurvivorsAreNewest
    <3>4. ASSUME NEW j \in Stored \ kept, NEW k \in kept PROVE map[j].last_read < map'[k].last_read
      <4>1. m[j].last_read < m[k].last_read /\ map'[k] = m[k]
        BY <2>2, <3>2, <3>3
      <4>2. m[j].last_read \in Nat /\ m[k].last_read \in Nat /\ m[k].last_read < tick + 1
        <5>1. k \in DOMAIN m /\ j \in DOMAIN m
          BY <2>2, <3>1 DEF Survivors
        <5> QED BY <2>2, <5>1 DEF StoreOK, Entries
      <4>3. j # x
        BY <1>0, <2>2, <4>1, <4>2
      <4> QED BY <2>2, <4>1, <4>3
    <3> QED BY <3>2, <3>4
  <2> QED BY <2>3, <2>4, <2>5
<1>2. ASSUME NEW k \in Keys, NEW req \in Requests, NEW pause \in {0, 1}, LookupWith(k, req, pause)
      PROVE  Stored \ DOMAIN map' = {}
  BY <1>0, <1>2 DEF LookupWith, Stored, StoreOK
<1>3. CASE (\E k \in Keys : EvictPath(k[1])) \/ Clear \/ CacheClock \/ UNCHANGED cachevars
  <2>1. tick' = tick
    BY <1>3 DEF EvictPath, Clear, CacheClock, cachevars
  <2>2. FALSE
    BY <1>0, <2>1
  <2> QED BY <2>2
<1> QED BY <1>1, <1>2, <1>3 DEF CacheNext

\* Whatever a step evicts to get under the bound was read less recently than all it keeps
\* (evict_until_under).
THEOREM EvictionFollowsReads == CacheSpec => LeastRecentlyReadGoesFirst
<1>1. CacheSpec => []CacheInv
  BY CacheInitOK, CacheNextOK, PTL DEF CacheSpec
<1>2. CacheInv /\ [CacheNext]_cachevars
        => [LET dropped == Stored \ DOMAIN map'
            IN  tick' > tick =>
                  /\ \A j \in dropped, k \in DOMAIN map' : map[j].last_read < map'[k].last_read
                  /\ dropped # {} => bytes' <= Target]_cachevars
  <2> SUFFICES ASSUME CacheInv, [CacheNext]_cachevars, tick' > tick
               PROVE  /\ \A j \in Stored \ DOMAIN map', k \in DOMAIN map' : map[j].last_read < map'[k].last_read
                      /\ Stored \ DOMAIN map' # {} => bytes' <= Target
    OBVIOUS
  <2> QED BY LeastReadStep
<1> QED BY <1>1, <1>2, PTL DEF CacheSpec, LeastRecentlyReadGoesFirst

-----------------------------------------------------------------------------
(* The log of refused peers: RefusalsAreAccountedFor (RefusalLog).         *)

\* A tracked peer: when it had its last line, and the refusals not yet in a line.
Peer == [last : Nat \cup {Never}, owed : Nat]
\* The summary of a window.
Summary == [other : Nat, addresses : Nat, over : Nat]

\* A table of peers.
PeersOK(f) == IsFiniteSet(DOMAIN f) /\ f \in [DOMAIN f -> Peer]

\* A log, as a record of its parts.
LogOK(l) ==
    /\ l = [peers |-> l.peers, window |-> l.window, lines |-> l.lines, summary |-> l.summary, others |-> l.others]
    /\ PeersOK(l.peers)
    /\ l.window \in Nat \cup {Never} /\ l.lines \in Nat
    /\ l.summary \in Summary

\* The refusals a table still owes a line.
OwedIn(f) == SumFunction([p \in DOMAIN f |-> f[p].owed])

\* What a table owes some of its peers is a natural.
LEMMA OwedSum ==
  ASSUME NEW f, PeersOK(f), NEW S \in SUBSET DOMAIN f
  PROVE  /\ IsFiniteSet(S)
         /\ \A p \in S : [q \in DOMAIN f |-> f[q].owed][p] = f[p].owed /\ f[p].owed \in Nat
         /\ SumFunctionOnSet([q \in DOMAIN f |-> f[q].owed], S) \in Nat
<1>1. IsFiniteSet(S)
  BY FS_Subset DEF PeersOK
<1>2. \A p \in S : [q \in DOMAIN f |-> f[q].owed][p] = f[p].owed /\ f[p].owed \in Nat
  BY DEF PeersOK, Peer
<1>3. SumFunctionOnSet([q \in DOMAIN f |-> f[q].owed], S) \in Nat
  <2>1. PICK g : g = [q \in DOMAIN f |-> f[q].owed]
    OBVIOUS
  <2>2. \A p \in S : g[p] \in Nat
    BY <1>2, <2>1
  <2>3. SumFunctionOnSet(g, S) \in Nat
    BY <1>1, <2>2, SumNat
  <2> QED BY <2>1, <2>3
<1> QED BY <1>1, <1>2, <1>3

\* Everything but p is due the same.
LEMMA OwedRest ==
  ASSUME NEW f, PeersOK(f), NEW g, PeersOK(g), NEW p,
         DOMAIN f \ {p} = DOMAIN g \ {p}, \A q \in DOMAIN f \ {p} : f[q] = g[q]
  PROVE  \E rest \in Nat :
            /\ OwedIn(f) = rest + (IF p \in DOMAIN f THEN f[p].owed ELSE 0)
            /\ OwedIn(g) = rest + (IF p \in DOMAIN g THEN g[p].owed ELSE 0)
<1>1. PICK u, v : u = [q \in DOMAIN f |-> f[q].owed] /\ v = [q \in DOMAIN g |-> g[q].owed]
  OBVIOUS
<1>2. DOMAIN u = DOMAIN f /\ DOMAIN v = DOMAIN g
  BY <1>1
<1>3. OwedIn(f) = SumFunctionOnSet(u, DOMAIN f) /\ OwedIn(g) = SumFunctionOnSet(v, DOMAIN g)
  BY <1>1, <1>2 DEF OwedIn, SumFunction
<1>4. PICK rest : rest = SumFunctionOnSet(u, DOMAIN f \ {p})
  OBVIOUS
<1>5. rest \in Nat /\ IsFiniteSet(DOMAIN f) /\ IsFiniteSet(DOMAIN g) /\ IsFiniteSet(DOMAIN f \ {p})
  BY <1>1, <1>4, OwedSum DEF PeersOK
<1>6. \A q \in DOMAIN f \ {p} : u[q] = v[q]
  BY <1>1
<1>7. rest = SumFunctionOnSet(v, DOMAIN g \ {p})
  BY <1>4, <1>5, <1>6, SumSame
<1>8. /\ \A q \in DOMAIN f : u[q] \in Nat /\ u[q] = f[q].owed
      /\ \A q \in DOMAIN g : v[q] \in Nat /\ v[q] = g[q].owed
  BY <1>1 DEF PeersOK, Peer
<1>9. OwedIn(f) = rest + (IF p \in DOMAIN f THEN f[p].owed ELSE 0)
  <2>1. CASE p \in DOMAIN f
    <3>1. SumFunctionOnSet(u, DOMAIN f) = u[p] + SumFunctionOnSet(u, DOMAIN f \ {p})
      BY <1>5, <1>8, <2>1, SumRemove
    <3>2. u[p] = f[p].owed /\ u[p] \in Nat
      BY <1>8, <2>1
    <3> QED BY <1>3, <1>4, <1>5, <2>1, <3>1, <3>2
  <2>2. CASE p \notin DOMAIN f
    <3>1. DOMAIN f \ {p} = DOMAIN f
      BY <2>2
    <3> QED BY <1>3, <1>4, <1>5, <2>2, <3>1
  <2> QED BY <2>1, <2>2
<1>10. OwedIn(g) = rest + (IF p \in DOMAIN g THEN g[p].owed ELSE 0)
  <2>1. CASE p \in DOMAIN g
    <3>1. SumFunctionOnSet(v, DOMAIN g) = v[p] + SumFunctionOnSet(v, DOMAIN g \ {p})
      BY <1>5, <1>8, <2>1, SumRemove
    <3>2. v[p] = g[p].owed /\ v[p] \in Nat
      BY <1>8, <2>1
    <3> QED BY <1>3, <1>5, <1>7, <2>1, <3>1, <3>2
  <2>2. CASE p \notin DOMAIN g
    <3>1. DOMAIN g \ {p} = DOMAIN g
      BY <2>2
    <3> QED BY <1>3, <1>5, <1>7, <2>2, <3>1
  <2> QED BY <2>1, <2>2
<1> QED BY <1>5, <1>9, <1>10

\* A table with one peer's entry written.
WithPeer(f, p, last, due) == [q \in DOMAIN f \cup {p} |-> IF q = p THEN [last |-> last, owed |-> due] ELSE f[q]]

\* A log from its parts.
LogOf(f, w, n, s, o) == [peers |-> f, window |-> w, lines |-> n, summary |-> s, others |-> o]

\* Every log is one.
LEMMA LogIs == \A l : LogOK(l) => l = LogOf(l.peers, l.window, l.lines, l.summary, l.others)
BY DEF LogOK, LogOf

\* TrackedIn writes the peer's entry.
LEMMA TrackedIs ==
  ASSUME NEW l, LogOK(l), NEW p, NEW last, NEW due
  PROVE  TrackedIn(l, p, last, due)
           = LogOf(WithPeer(l.peers, p, last, due), l.window, l.lines, l.summary, l.others)
<1>1. PICK f, w, n, s, o : l = LogOf(f, w, n, s, o)
  BY LogIs
<1> QED BY <1>1 DEF LogOf, TrackedIn, WithPeer

\* g is f with p's entry written.
Tabled(g, f, p, last, due) == g = WithPeer(f, p, last, due)

\* What a peer was due.
OwedTo(f, p) == IF p \in DOMAIN f THEN f[p].owed ELSE 0

\* What putting a peer into the table does to it.
TabledOK(g, f, p, last, due) ==
    /\ PeersOK(g)
    /\ DOMAIN g = DOMAIN f \cup {p}
    /\ \A q \in DOMAIN f \ {p} : g[q] = f[q]
    /\ g[p].last = last
    /\ OwedIn(g) \in Nat /\ OwedIn(f) \in Nat
    /\ OwedIn(g) + OwedTo(f, p) = OwedIn(f) + due

\* Writing one entry changes what is owed by that entry alone.
LEMMA WithPeerOK ==
  ASSUME NEW f, PeersOK(f), NEW p, NEW last \in Nat \cup {Never}, NEW due \in Nat,
         NEW g, Tabled(g, f, p, last, due)
  PROVE  TabledOK(g, f, p, last, due)
<1>0. PICK x : x = [last |-> last, owed |-> due]
  OBVIOUS
<1>2. x \in Peer /\ x = [last |-> last, owed |-> due] /\ x.last = last /\ x.owed = due
  BY <1>0 DEF Peer
<1>3. DOMAIN g = DOMAIN f \cup {p} /\ g[p] = x /\ \A q \in DOMAIN f \ {p} : g[q] = f[q]
  BY <1>2 DEF WithPeer, Tabled
<1>4. g \in [DOMAIN g -> Peer]
  BY <1>2 DEF WithPeer, Tabled, PeersOK
<1>5. IsFiniteSet(DOMAIN g)
  BY <1>3, FS_AddElement DEF PeersOK
<1>6. PeersOK(g)
  BY <1>4, <1>5 DEF PeersOK
<1>7. PICK rest \in Nat :
            /\ OwedIn(f) = rest + (IF p \in DOMAIN f THEN f[p].owed ELSE 0)
            /\ OwedIn(g) = rest + (IF p \in DOMAIN g THEN g[p].owed ELSE 0)
  BY <1>3, <1>6, OwedRest
<1>8. p \in DOMAIN g /\ g[p].owed = due /\ g[p].last = last
  BY <1>2, <1>3
<1>9. (p \in DOMAIN f) => f[p].owed \in Nat
  BY DEF PeersOK, Peer
<1>10. PICK d \in Nat : d = OwedTo(f, p) /\ d = (IF p \in DOMAIN f THEN f[p].owed ELSE 0)
  BY <1>9 DEF OwedTo
<1>11. OwedIn(g) = rest + due /\ OwedIn(f) = rest + d
  BY <1>7, <1>8, <1>10
<1>12. OwedIn(g) \in Nat /\ OwedIn(f) \in Nat /\ OwedIn(g) + d = OwedIn(f) + due
  BY <1>11
<1> QED BY <1>3, <1>6, <1>8, <1>10, <1>12 DEF TabledOK

\* What recording a refusal of p at `moment` makes of a log whose window is open: one more
\* refusal is accounted for; other peers are kept, or are dropped when they were silent for an interval;
\* and a line means p had none for an interval.
Dropped(f, g, moment) ==
    \A q \in DOMAIN f \ DOMAIN g : f[q].last # Never /\ moment - f[q].last >= REFUSAL_INTERVAL

\* How recording a refusal of p may change the table: p's line is now or where it was, and any
\* other entry stays or was dropped.
Booked(f, g, p, moment, line) ==
    /\ \A q \in DOMAIN g \ {p} : q \in DOMAIN f /\ g[q] = f[q]
    /\ Dropped(f, g, moment)
    /\ line = 1 => /\ p \in DOMAIN g /\ g[p].last = moment
                   /\ p \in DOMAIN f /\ f[p].last # Never => moment - f[p].last >= REFUSAL_INTERVAL
    /\ line = 0 /\ p \in DOMAIN g => IF p \in DOMAIN f THEN g[p].last = f[p].last ELSE g[p].last = Never

\* What record owes its caller: one refusal more, in a line, a count or the summary.
LogWritten(l, p, moment, r) ==
    /\ LogOK(r.log) /\ r.log.window = l.window
    /\ r.line \in {0, 1} /\ r.carried \in Nat
    /\ OwedIn(r.log.peers) \in Nat /\ OwedIn(l.peers) \in Nat
    /\ OwedIn(r.log.peers) + r.log.summary.other + r.line + r.carried
         = OwedIn(l.peers) + l.summary.other + 1
    /\ Booked(l.peers, r.log.peers, p, moment, r.line)
    /\ Cardinality(DOMAIN r.log.peers) <= REFUSAL_MAX_PEERS

\* The three shapes of a new log: peers and lines, peers and the summary, the summary.
LEMMA LogOKMade ==
  ASSUME NEW f, PeersOK(f), NEW w \in Nat \cup {Never}, NEW n \in Nat, NEW s \in Summary, NEW o
  PROVE  LogOK(LogOf(f, w, n, s, o))
BY DEF LogOK, LogOf

\* A peer the table has.
LEMMA TrackedOK ==
  ASSUME NEW l, LogOK(l), NEW p \in DOMAIN l.peers, NEW moment \in Nat,
         Cardinality(DOMAIN l.peers) <= REFUSAL_MAX_PEERS,
         NEW r, r = RecordTracked(l, p, moment)
  PROVE  LogWritten(l, p, moment, r)
<1>1. PICK f, w, n, s, o : f = l.peers /\ w = l.window /\ n = l.lines /\ s = l.summary /\ o = l.others
  OBVIOUS
<1>2. PeersOK(f) /\ w \in Nat \cup {Never} /\ n \in Nat /\ s \in Summary /\ p \in DOMAIN f
  BY <1>1 DEF LogOK
<1>3. PICK e \in Peer : e = f[p]
  BY <1>2 DEF PeersOK
<1>4. e.last \in Nat \cup {Never} /\ e.owed \in Nat /\ e.owed + 1 \in Nat /\ 0 \in Nat /\ n + 1 \in Nat
  BY <1>2 DEF Peer
<1>5. PICK f1, f2 : /\ f1 = WithPeer(f, p, e.last, e.owed + 1) /\ f2 = WithPeer(f, p, moment, 0)
                   /\ Tabled(f1, f, p, e.last, e.owed + 1) /\ Tabled(f2, f, p, moment, 0)
  BY DEF Tabled
<1>6. /\ PeersOK(f1) /\ DOMAIN f1 = DOMAIN f /\ (\A q \in DOMAIN f \ {p} : f1[q] = f[q]) /\ f1[p].last = e.last
      /\ OwedIn(f1) \in Nat /\ OwedIn(f) \in Nat /\ OwedIn(f1) + e.owed = OwedIn(f) + (e.owed + 1)
  <2>1. DOMAIN f \cup {p} = DOMAIN f /\ OwedTo(f, p) = e.owed
    BY <1>2, <1>3 DEF OwedTo
  <2>2. PICK a \in Nat \cup {Never}, c \in Nat : a = e.last /\ c = e.owed + 1 /\ Tabled(f1, f, p, a, c)
    BY <1>4, <1>5
  <2>3. TabledOK(f1, f, p, a, c)
    BY <1>2, <2>2, WithPeerOK
  <2> QED BY <2>1, <2>2, <2>3 DEF TabledOK
<1>7. /\ PeersOK(f2) /\ DOMAIN f2 = DOMAIN f /\ (\A q \in DOMAIN f \ {p} : f2[q] = f[q]) /\ f2[p].last = moment
      /\ OwedIn(f2) \in Nat /\ OwedIn(f2) + e.owed = OwedIn(f) + 0
  <2>1. DOMAIN f \cup {p} = DOMAIN f /\ OwedTo(f, p) = e.owed
    BY <1>2, <1>3 DEF OwedTo
  <2>2. PICK a \in Nat \cup {Never}, c \in Nat : a = moment /\ c = 0 /\ Tabled(f2, f, p, a, c)
    BY <1>4, <1>5
  <2>3. TabledOK(f2, f, p, a, c)
    BY <1>2, <2>2, WithPeerOK
  <2> QED BY <2>1, <2>2, <2>3 DEF TabledOK
<1>8. s.other \in Nat /\ s.over \in Nat /\ s.addresses \in Nat
  BY <1>2 DEF Summary
<1>9. CASE e.last # Never /\ moment - e.last < REFUSAL_INTERVAL
  <2>1. r = [log |-> LogOf(f1, w, n, s, o), line |-> 0, carried |-> 0]
    BY <1>1, <1>3, <1>5, <1>9, TrackedIs DEF RecordTracked
  <2>2. LogOK(LogOf(f1, w, n, s, o))
    BY <1>2, <1>6, LogOKMade
  <2>3. Booked(f, f1, p, moment, 0)
    BY <1>2, <1>3, <1>6 DEF Booked, Dropped
  <2>4. r.log.peers = f1 /\ r.log.window = w /\ r.log.summary = s /\ r.line = 0 /\ r.carried = 0
    BY <2>1 DEF LogOf
  <2> QED BY <1>1, <1>4, <1>6, <1>8, <2>1, <2>2, <2>3, <2>4 DEF LogWritten
<1>10. CASE ~(e.last # Never /\ moment - e.last < REFUSAL_INTERVAL) /\ n >= REFUSAL_MAX_LINES
  <2>1. PICK s2 : s2 = [other |-> s.other, addresses |-> s.addresses, over |-> s.over + 1]
    OBVIOUS
  <2>2. s2 \in Summary /\ s2.other = s.other /\ s2 = [s EXCEPT !.over = s.over + 1]
    BY <1>2, <1>8, <2>1 DEF Summary
  <2>3. r = [log |-> [LogOf(f1, w, n, s, o) EXCEPT !.summary.over = @ + 1], line |-> 0, carried |-> 0]
    BY <1>1, <1>3, <1>5, <1>10, TrackedIs DEF RecordTracked
  <2>4. [LogOf(f1, w, n, s, o) EXCEPT !.summary.over = @ + 1] = LogOf(f1, w, n, s2, o)
    BY <2>2 DEF LogOf
  <2>5. LogOK(LogOf(f1, w, n, s2, o))
    BY <1>2, <1>6, <2>2, LogOKMade
  <2>6. Booked(f, f1, p, moment, 0)
    BY <1>2, <1>3, <1>6 DEF Booked, Dropped
  <2>7. /\ r.log = LogOf(f1, w, n, s2, o) /\ r.log.peers = f1 /\ r.log.window = w /\ r.log.summary = s2
        /\ r.line = 0 /\ r.carried = 0
    BY <2>3, <2>4 DEF LogOf
  <2>8. OwedIn(f1) + s2.other + 0 + 0 = OwedIn(f) + s.other + 1
    BY <1>4, <1>6, <1>8, <2>2
  <2> QED BY <1>1, <1>6, <2>5, <2>6, <2>7, <2>8 DEF LogWritten
<1>11. CASE ~(e.last # Never /\ moment - e.last < REFUSAL_INTERVAL) /\ ~(n >= REFUSAL_MAX_LINES)
  <2>1. r = [log |-> [LogOf(f2, w, n, s, o) EXCEPT !.lines = @ + 1], line |-> 1, carried |-> e.owed]
    BY <1>1, <1>3, <1>5, <1>11, TrackedIs DEF RecordTracked
  <2>2. [LogOf(f2, w, n, s, o) EXCEPT !.lines = @ + 1] = LogOf(f2, w, n + 1, s, o)
    BY DEF LogOf
  <2>3. LogOK(LogOf(f2, w, n + 1, s, o))
    BY <1>2, <1>4, <1>7, LogOKMade
  <2>4. e.last # Never => moment - e.last >= REFUSAL_INTERVAL
    <3>1. REFUSAL_INTERVAL \in Nat
      BY RefusalAssumption
    <3> QED BY <1>4, <1>11, <3>1
  <2>5. Booked(f, f2, p, moment, 1)
    BY <1>2, <1>3, <1>7, <2>4 DEF Booked, Dropped
  <2>6. /\ r.log = LogOf(f2, w, n + 1, s, o) /\ r.log.peers = f2 /\ r.log.window = w /\ r.log.summary = s
        /\ r.line = 1 /\ r.carried = e.owed
    BY <2>1, <2>2 DEF LogOf
  <2>7. OwedIn(f2) + s.other + 1 + e.owed = OwedIn(f) + s.other + 1
    BY <1>4, <1>6, <1>7, <1>8
  <2> QED BY <1>1, <1>4, <1>6, <1>7, <1>8, <2>3, <2>5, <2>6, <2>7 DEF LogWritten
<1> QED BY <1>9, <1>10, <1>11

\* A peer the table has room for.
LEMMA NewOK ==
  ASSUME NEW l, LogOK(l), NEW p, p \notin DOMAIN l.peers, NEW moment \in Nat,
         Cardinality(DOMAIN l.peers) < REFUSAL_MAX_PEERS,
         NEW r, r = RecordNew(l, p, moment)
  PROVE  LogWritten(l, p, moment, r)
<1>1. PICK f, w, n, s, o : f = l.peers /\ w = l.window /\ n = l.lines /\ s = l.summary /\ o = l.others
  OBVIOUS
<1>2. PeersOK(f) /\ w \in Nat \cup {Never} /\ n \in Nat /\ s \in Summary /\ p \notin DOMAIN f
  BY <1>1 DEF LogOK
<1>3. OwedTo(f, p) = 0 /\ 0 \in Nat /\ 1 \in Nat /\ n + 1 \in Nat /\ Never \in Nat \cup {Never}
  BY <1>2 DEF OwedTo
<1>4. PICK f1, f2 : /\ f1 = WithPeer(f, p, Never, 1) /\ f2 = WithPeer(f, p, moment, 0)
                   /\ Tabled(f1, f, p, Never, 1) /\ Tabled(f2, f, p, moment, 0)
  BY DEF Tabled
<1>5. TabledOK(f1, f, p, Never, 1)
  BY <1>2, <1>3, <1>4, WithPeerOK
<1>6. TabledOK(f2, f, p, moment, 0)
  BY <1>2, <1>3, <1>4, WithPeerOK
<1>7. Cardinality(DOMAIN f \cup {p}) <= REFUSAL_MAX_PEERS
  <2>1. IsFiniteSet(DOMAIN f)
    BY <1>2 DEF PeersOK
  <2>2. Cardinality(DOMAIN f \cup {p}) = Cardinality(DOMAIN f) + 1 /\ Cardinality(DOMAIN f) \in Nat
    BY <1>2, <2>1, FS_AddElement, FS_CardinalityType
  <2> QED BY <1>1, <2>2, RefusalAssumption
<1>8. s.other \in Nat /\ s.over \in Nat /\ s.addresses \in Nat
  BY <1>2 DEF Summary
<1>9. CASE n >= REFUSAL_MAX_LINES
  <2>1. PICK s2 : s2 = [other |-> s.other, addresses |-> s.addresses, over |-> s.over + 1]
    OBVIOUS
  <2>2. s2 \in Summary /\ s2.other = s.other /\ s2 = [s EXCEPT !.over = s.over + 1]
    BY <1>2, <1>8, <2>1 DEF Summary
  <2>3. r = [log |-> [LogOf(f1, w, n, s, o) EXCEPT !.summary.over = @ + 1], line |-> 0, carried |-> 0]
    BY <1>1, <1>4, <1>9, TrackedIs DEF RecordNew
  <2>4. [LogOf(f1, w, n, s, o) EXCEPT !.summary.over = @ + 1] = LogOf(f1, w, n, s2, o)
    BY <2>2 DEF LogOf
  <2>5. LogOK(LogOf(f1, w, n, s2, o))
    BY <1>2, <1>5, <2>2, LogOKMade DEF TabledOK
  <2>6. Booked(f, f1, p, moment, 0)
    BY <1>2, <1>5 DEF Booked, Dropped, TabledOK
  <2>7. /\ r.log = LogOf(f1, w, n, s2, o) /\ r.log.peers = f1 /\ r.log.window = w /\ r.log.summary = s2
        /\ r.line = 0 /\ r.carried = 0
    BY <2>3, <2>4 DEF LogOf
  <2>8. OwedIn(f1) \in Nat /\ OwedIn(f) \in Nat /\ OwedIn(f1) + s2.other + 0 + 0 = OwedIn(f) + s.other + 1
    BY <1>3, <1>5, <1>8, <2>2 DEF TabledOK
  <2>9. Cardinality(DOMAIN f1) <= REFUSAL_MAX_PEERS
    BY <1>5, <1>7 DEF TabledOK
  <2> QED BY <1>1, <2>5, <2>6, <2>7, <2>8, <2>9 DEF LogWritten
<1>10. CASE ~(n >= REFUSAL_MAX_LINES)
  <2>1. r = [log |-> [LogOf(f2, w, n, s, o) EXCEPT !.lines = @ + 1], line |-> 1, carried |-> 0]
    BY <1>1, <1>4, <1>10, TrackedIs DEF RecordNew
  <2>2. [LogOf(f2, w, n, s, o) EXCEPT !.lines = @ + 1] = LogOf(f2, w, n + 1, s, o)
    BY DEF LogOf
  <2>3. LogOK(LogOf(f2, w, n + 1, s, o))
    BY <1>2, <1>3, <1>6, LogOKMade DEF TabledOK
  <2>4. Booked(f, f2, p, moment, 1)
    BY <1>2, <1>6 DEF Booked, Dropped, TabledOK
  <2>5. /\ r.log = LogOf(f2, w, n + 1, s, o) /\ r.log.peers = f2 /\ r.log.window = w /\ r.log.summary = s
        /\ r.line = 1 /\ r.carried = 0
    BY <2>1, <2>2 DEF LogOf
  <2>6. OwedIn(f2) \in Nat /\ OwedIn(f) \in Nat /\ OwedIn(f2) + s.other + 1 + 0 = OwedIn(f) + s.other + 1
    BY <1>3, <1>6, <1>8 DEF TabledOK
  <2>7. Cardinality(DOMAIN f2) <= REFUSAL_MAX_PEERS
    BY <1>6, <1>7 DEF TabledOK
  <2> QED BY <1>1, <1>3, <2>3, <2>4, <2>5, <2>6, <2>7 DEF LogWritten
<1> QED BY <1>9, <1>10

\* A table that holds what it may, and lets none go.
LEMMA OtherOK ==
  ASSUME NEW l, LogOK(l), NEW p, p \notin DOMAIN l.peers, NEW moment \in Nat,
         Cardinality(DOMAIN l.peers) <= REFUSAL_MAX_PEERS,
         NEW r, r = RecordOther(l, p)
  PROVE  LogWritten(l, p, moment, r)
<1>1. PICK f, w, n, s, o : f = l.peers /\ w = l.window /\ n = l.lines /\ s = l.summary /\ o = l.others
  OBVIOUS
<1>2. PeersOK(f) /\ w \in Nat \cup {Never} /\ n \in Nat /\ s \in Summary /\ p \notin DOMAIN f /\ l = LogOf(f, w, n, s, o)
  BY <1>1, LogIs DEF LogOK
<1>3. s.other \in Nat /\ s.over \in Nat /\ s.addresses \in Nat
  BY <1>2 DEF Summary
<1>4. PICK s2, o2 : s2 \in Summary /\ s2.other = s.other + 1 /\ r = [log |-> LogOf(f, w, n, s2, o2), line |-> 0, carried |-> 0]
  <2>1. CASE p \notin o /\ Cardinality(o) < REFUSAL_MAX_OTHERS
    <3>1. PICK s2 : s2 = [other |-> s.other + 1, addresses |-> s.addresses + 1, over |-> s.over]
      OBVIOUS
    <3>2. s2 \in Summary /\ s2.other = s.other + 1
      BY <1>3, <3>1 DEF Summary
    <3>3. r = [log |-> LogOf(f, w, n, s2, o \cup {p}), line |-> 0, carried |-> 0]
      BY <1>2, <2>1, <3>1 DEF RecordOther, LogOf, Summary
    <3> QED BY <3>2, <3>3
  <2>2. CASE ~(p \notin o /\ Cardinality(o) < REFUSAL_MAX_OTHERS)
    <3>1. PICK s2 : s2 = [other |-> s.other + 1, addresses |-> s.addresses + 0, over |-> s.over]
      OBVIOUS
    <3>2. s2 \in Summary /\ s2.other = s.other + 1
      BY <1>3, <3>1 DEF Summary
    <3>3. r = [log |-> LogOf(f, w, n, s2, o), line |-> 0, carried |-> 0]
      BY <1>2, <2>2, <3>1 DEF RecordOther, LogOf, Summary
    <3> QED BY <3>2, <3>3
  <2> QED BY <2>1, <2>2
<1>5. LogOK(LogOf(f, w, n, s2, o2))
  BY <1>2, <1>4, LogOKMade
<1>6. Booked(f, f, p, moment, 0)
  BY <1>2 DEF Booked, Dropped
<1>7. OwedIn(f) \in Nat
  <2>1. PICK rest \in Nat : OwedIn(f) = rest + (IF p \in DOMAIN f THEN f[p].owed ELSE 0)
    BY <1>2, OwedRest
  <2> QED BY <1>2, <2>1
<1>8. /\ r.log = LogOf(f, w, n, s2, o2) /\ r.log.peers = f /\ r.log.window = w /\ r.log.summary = s2
      /\ r.line = 0 /\ r.carried = 0
  BY <1>4 DEF LogOf
<1>9. OwedIn(f) + s2.other + 0 + 0 = OwedIn(f) + s.other + 1
  BY <1>3, <1>4, <1>7
<1> QED BY <1>1, <1>5, <1>6, <1>7, <1>8, <1>9 DEF LogWritten

\* Opening a new window: the peers stay, the summary is given up if there was a window.
LEMMA RolledOK ==
  ASSUME NEW l, LogOK(l), NEW moment \in Nat, l.window # Never => l.window <= moment,
         l.window = Never => l.summary.other = 0
  PROVE  /\ LogOK(Rolled(l, moment)) /\ Rolled(l, moment).peers = l.peers
         /\ Rolled(l, moment).window \in Nat /\ Rolled(l, moment).window <= moment
         /\ Rolled(l, moment).summary.other
              + (IF Rolled(l, moment).window # l.window THEN l.summary.other ELSE 0) = l.summary.other
<1>0. REFUSAL_INTERVAL \in Nat \ {0}
  BY RefusalAssumption
<1>1. PICK f, w, n, s, o : f = l.peers /\ w = l.window /\ n = l.lines /\ s = l.summary /\ o = l.others
  OBVIOUS
<1>2. PeersOK(f) /\ w \in Nat \cup {Never} /\ n \in Nat /\ s \in Summary /\ l = LogOf(f, w, n, s, o)
  BY <1>1, LogIs DEF LogOK
<1>3. s.other \in Nat /\ Never \notin Nat
  BY <1>2 DEF Summary, Never
<1>4. CASE w # Never /\ moment - w < REFUSAL_INTERVAL
  <2>1. Rolled(l, moment) = l
    BY <1>1, <1>4 DEF Rolled
  <2> QED BY <1>1, <1>2, <1>3, <1>4, <2>1
<1>5. CASE w # Never /\ ~(moment - w < REFUSAL_INTERVAL)
  <2>1. Rolled(l, moment) = LogOf(f, moment, 0, NoSummary, {})
    BY <1>2, <1>5 DEF Rolled, LogOf
  <2>2. LogOK(LogOf(f, moment, 0, NoSummary, {}))
    <3>1. NoSummary \in Summary
      BY DEF NoSummary, Summary
    <3> QED BY <1>2, <3>1, LogOKMade
  <2>3. moment # w
    BY <1>0, <1>2, <1>5
  <2>4. NoSummary.other = 0
    BY DEF NoSummary
  <2>5. Rolled(l, moment).peers = f /\ Rolled(l, moment).window = moment /\ Rolled(l, moment).summary = NoSummary
    BY <2>1 DEF LogOf
  <2> QED BY <1>1, <1>3, <2>1, <2>2, <2>3, <2>4, <2>5
<1>6. CASE w = Never
  <2>1. Rolled(l, moment) = LogOf(f, moment, 0, s, {})
    BY <1>2, <1>6 DEF Rolled, LogOf
  <2>2. LogOK(LogOf(f, moment, 0, s, {}))
    BY <1>2, LogOKMade
  <2>3. moment # w /\ s.other = 0
    BY <1>1, <1>3, <1>6
  <2>4. Rolled(l, moment).peers = f /\ Rolled(l, moment).window = moment /\ Rolled(l, moment).summary = s
    BY <2>1 DEF LogOf
  <2> QED BY <1>1, <1>3, <2>1, <2>2, <2>3, <2>4
<1> QED BY <1>4, <1>5, <1>6

\* Letting a peer go that is due nothing and was silent for an interval.
LEMMA EvictedOK ==
  ASSUME NEW l, LogOK(l), NEW moment \in Nat, Cardinality(DOMAIN l.peers) <= REFUSAL_MAX_PEERS,
         NEW e \in Evicted(l, moment)
  PROVE  /\ LogOK(e) /\ e.window = l.window /\ e.summary = l.summary
         /\ DOMAIN e.peers \subseteq DOMAIN l.peers /\ \A q \in DOMAIN e.peers : e.peers[q] = l.peers[q]
         /\ Cardinality(DOMAIN e.peers) < REFUSAL_MAX_PEERS
         /\ OwedIn(e.peers) = OwedIn(l.peers)
         /\ Dropped(l.peers, e.peers, moment)
<1>1. PICK f, w, n, s, o : f = l.peers /\ w = l.window /\ n = l.lines /\ s = l.summary /\ o = l.others
  OBVIOUS
<1>2. PeersOK(f) /\ w \in Nat \cup {Never} /\ n \in Nat /\ s \in Summary /\ l = LogOf(f, w, n, s, o)
  BY <1>1, LogIs DEF LogOK
<1>3. PICK p \in Stale(l, moment) : e = [l EXCEPT !.peers = [q \in DOMAIN @ \ {p} |-> @[q]]]
  BY DEF Evicted
<1>4. p \in DOMAIN f /\ f[p].last # Never /\ moment - f[p].last >= REFUSAL_INTERVAL /\ f[p].owed = 0
  BY <1>1 DEF Stale
<1>5. PICK g : g = [q \in DOMAIN f \ {p} |-> f[q]]
  OBVIOUS
<1>6. e = LogOf(g, w, n, s, o)
  BY <1>2, <1>3, <1>5 DEF LogOf
<1>7. DOMAIN g = DOMAIN f \ {p} /\ \A q \in DOMAIN g : g[q] = f[q]
  BY <1>5
<1>8. PeersOK(g)
  <2>1. IsFiniteSet(DOMAIN g)
    BY <1>2, <1>7, FS_RemoveElement DEF PeersOK
  <2>2. g \in [DOMAIN g -> Peer]
    BY <1>2, <1>5 DEF PeersOK
  <2> QED BY <2>1, <2>2 DEF PeersOK
<1>9. Cardinality(DOMAIN g) < REFUSAL_MAX_PEERS
  <2>1. IsFiniteSet(DOMAIN f)
    BY <1>2 DEF PeersOK
  <2>2. Cardinality(DOMAIN g) = Cardinality(DOMAIN f) - 1 /\ Cardinality(DOMAIN f) \in Nat
    BY <1>4, <1>7, <2>1, FS_RemoveElement, FS_CardinalityType
  <2> QED BY <1>1, <2>2, RefusalAssumption
<1>10. OwedIn(g) = OwedIn(f)
  <2>1. DOMAIN f \ {p} = DOMAIN g \ {p} /\ \A q \in DOMAIN f \ {p} : f[q] = g[q]
    BY <1>7
  <2>2. PICK rest \in Nat :
            /\ OwedIn(f) = rest + (IF p \in DOMAIN f THEN f[p].owed ELSE 0)
            /\ OwedIn(g) = rest + (IF p \in DOMAIN g THEN g[p].owed ELSE 0)
    BY <1>2, <1>8, <2>1, OwedRest
  <2>3. p \notin DOMAIN g
    BY <1>7
  <2> QED BY <1>4, <2>2, <2>3
<1>11. Dropped(f, g, moment)
  BY <1>4, <1>7 DEF Dropped
<1>12. LogOK(LogOf(g, w, n, s, o))
  BY <1>2, <1>8, LogOKMade
<1>13. e.peers = g /\ e.window = w /\ e.summary = s
  BY <1>6 DEF LogOf
<1> QED BY <1>1, <1>6, <1>7, <1>9, <1>10, <1>11, <1>12, <1>13

\* Recording after an eviction is recording.
LEMMA EvictedRecorded ==
  ASSUME NEW l, LogOK(l), NEW p, p \notin DOMAIN l.peers, NEW moment \in Nat,
         Cardinality(DOMAIN l.peers) <= REFUSAL_MAX_PEERS,
         NEW e \in Evicted(l, moment), NEW r, r = RecordNew(e, p, moment)
  PROVE  LogWritten(l, p, moment, r)
<1>1. /\ LogOK(e) /\ e.window = l.window /\ e.summary = l.summary
      /\ DOMAIN e.peers \subseteq DOMAIN l.peers /\ \A q \in DOMAIN e.peers : e.peers[q] = l.peers[q]
      /\ Cardinality(DOMAIN e.peers) < REFUSAL_MAX_PEERS
      /\ OwedIn(e.peers) = OwedIn(l.peers)
      /\ Dropped(l.peers, e.peers, moment)
  BY EvictedOK
<1>2. LogWritten(e, p, moment, r)
  BY <1>1, NewOK
<1>3. PICK f, g, h : f = l.peers /\ g = e.peers /\ h = r.log.peers
  OBVIOUS
<1>4. Booked(g, h, p, moment, r.line)
  BY <1>2, <1>3 DEF LogWritten
<1>5. p \notin DOMAIN f /\ DOMAIN g \subseteq DOMAIN f /\ (\A q \in DOMAIN g : g[q] = f[q]) /\ Dropped(f, g, moment)
  BY <1>1, <1>3
<1>6. Dropped(f, h, moment)
  BY <1>4, <1>5 DEF Booked, Dropped
<1>7. Booked(f, h, p, moment, r.line)
  BY <1>4, <1>5, <1>6 DEF Booked
<1> QED BY <1>1, <1>2, <1>3, <1>7 DEF LogWritten

\* A log as it stands at some moment; RefusalLog::record finds and leaves it so.
LogAt(l, moment) ==
    /\ LogOK(l)
    /\ l.window # Never => l.window <= moment
    /\ l.window = Never => l.summary.other = 0
    /\ Cardinality(DOMAIN l.peers) <= REFUSAL_MAX_PEERS

\* What a log comes to when its window is looked at first.
RolledFrom(w, l, moment) ==
    /\ LogOK(w) /\ w.peers = l.peers
    /\ w.window \in Nat /\ w.window <= moment
    /\ w.summary.other + (IF w.window # l.window THEN l.summary.other ELSE 0) = l.summary.other

\* Rolling the window of a log in order.
LEMMA RolledIs ==
  ASSUME NEW l, NEW moment \in Nat, LogAt(l, moment)
  PROVE  RolledFrom(Rolled(l, moment), l, moment)
BY RolledOK DEF LogAt, RolledFrom

\* RefusalLog::record, in every case.
LEMMA RecordOK ==
  ASSUME NEW l, NEW p, NEW moment \in Nat, LogAt(l, moment), NEW r \in Record(l, p, moment)
  PROVE  LogWritten(Rolled(l, moment), p, moment, r)
<1>1. PICK w : w = Rolled(l, moment)
  OBVIOUS
<1>2. RolledFrom(w, l, moment)
  BY <1>1, RolledIs
<1>3. LogOK(w) /\ Cardinality(DOMAIN w.peers) <= REFUSAL_MAX_PEERS
  BY <1>2 DEF RolledFrom, LogAt
<1>4. \/ p \in DOMAIN w.peers /\ r = RecordTracked(w, p, moment)
      \/ /\ p \notin DOMAIN w.peers
         /\ \/ Cardinality(DOMAIN w.peers) < REFUSAL_MAX_PEERS /\ r = RecordNew(w, p, moment)
            \/ r = RecordOther(w, p)
            \/ \E e \in Evicted(w, moment) : r = RecordNew(e, p, moment)
  BY <1>1 DEF Record
<1>5. CASE p \in DOMAIN w.peers /\ r = RecordTracked(w, p, moment)
  BY <1>1, <1>3, <1>5, TrackedOK
<1>6. CASE p \notin DOMAIN w.peers /\ Cardinality(DOMAIN w.peers) < REFUSAL_MAX_PEERS /\ r = RecordNew(w, p, moment)
  BY <1>1, <1>3, <1>6, NewOK
<1>7. CASE p \notin DOMAIN w.peers /\ r = RecordOther(w, p)
  BY <1>1, <1>3, <1>7, OtherOK
<1>8. CASE p \notin DOMAIN w.peers /\ \E e \in Evicted(w, moment) : r = RecordNew(e, p, moment)
  BY <1>1, <1>3, <1>8, EvictedRecorded
<1> QED BY <1>4, <1>5, <1>6, <1>7, <1>8

\* The lines of a peer: at most one per interval; a peer the table remembers a line of had
\* none since, and any other had none for an interval.
Spaced(f, times, p, moment) ==
    /\ \A a \in times : a <= moment
    /\ \A a, b \in times : a < b => b - a >= REFUSAL_INTERVAL
    /\ IF p \in DOMAIN f /\ f[p].last # Never
       THEN f[p].last <= moment /\ \A a \in times : a <= f[p].last
       ELSE \A a \in times : moment - a >= REFUSAL_INTERVAL

\* The times of a peer's lines after a refusal of p that wrote that many.
Lines(later, times, q, p, line, moment) ==
    later = IF q = p /\ line = 1 THEN times \cup {moment} ELSE times

\* The history the refusals are counted in.
Counts == [refused : Nat, lines : Nat, carried : Nat, summarised : Nat, at : [Strangers -> SUBSET Nat]]

\* Every refusal is counted once.
Balanced(l, h) ==
    h.refused = h.lines + h.carried + OwedIn(l.peers) + h.summarised + l.summary.other

\* The lines of every peer are spaced.
SpacedAt(l, at, moment) == \A p \in Strangers : Spaced(l.peers, at[p], p, moment)

\* The inductive invariant: the counts balance, and every peer's lines are far enough apart
\* from each other and, unless the table remembers the last of them, from moment.
RefusalInv ==
    /\ rnow \in Nat /\ LogAt(rlog, rnow) /\ rhist \in Counts
    /\ Balanced(rlog, rhist) /\ SpacedAt(rlog, rhist.at, rnow)

\* An empty log balances.
LEMMA RefusalInitOK == RInit => RefusalInv
<1> SUFFICES ASSUME RInit PROVE RefusalInv
  OBVIOUS
<1>1. PICK f : f = <<>>
  OBVIOUS
<1>2. rlog = LogOf(f, Never, 0, NoSummary, {}) /\ rnow = 0
  BY <1>1 DEF RInit, RNew, LogOf
<1>3. DOMAIN f = {} /\ IsFiniteSet(DOMAIN f) /\ Cardinality(DOMAIN f) = 0
  BY <1>1, FS_EmptySet
<1>4. PeersOK(f)
  <2>1. f \in [DOMAIN f -> Peer]
    BY <1>1, <1>3
  <2> QED BY <1>3, <2>1 DEF PeersOK
<1>5. NoSummary \in Summary /\ NoSummary.other = 0 /\ Never \in Nat \cup {Never} /\ 0 \in Nat
  BY DEF NoSummary, Summary
<1>6. LogOK(LogOf(f, Never, 0, NoSummary, {}))
  BY <1>4, <1>5, LogOKMade
<1>7. rlog.peers = f /\ rlog.window = Never /\ rlog.summary = NoSummary
  BY <1>2 DEF LogOf
<1>8. OwedIn(f) = 0
  <2>1. PICK u : u = [p \in DOMAIN f |-> f[p].owed]
    OBVIOUS
  <2>2. DOMAIN u = {} /\ OwedIn(f) = SumFunctionOnSet(u, {})
    BY <1>3, <2>1 DEF OwedIn, SumFunction
  <2> QED BY <2>2, SumEmpty
<1>9. /\ rhist \in Counts /\ rhist.refused = 0 /\ rhist.lines = 0 /\ rhist.carried = 0 /\ rhist.summarised = 0
      /\ \A p \in Strangers : rhist.at[p] = {}
  BY DEF RInit, Counts
<1>10. SpacedAt(rlog, rhist.at, rnow)
  BY <1>3, <1>7, <1>9 DEF Spaced, SpacedAt
<1>11. LogAt(rlog, rnow)
  BY <1>2, <1>3, <1>5, <1>6, <1>7, RefusalAssumption DEF LogAt
<1>12. Balanced(rlog, rhist)
  BY <1>5, <1>7, <1>8, <1>9 DEF Balanced
<1> QED BY <1>2, <1>9, <1>10, <1>11, <1>12 DEF RefusalInv

\* A line is written only an interval after the peer's last one.
LEMMA SpacedBooked ==
  ASSUME NEW f, PeersOK(f), NEW g, NEW p, NEW moment \in Nat, NEW line \in {0, 1}, Booked(f, g, p, moment, line),
         NEW q, NEW times \in SUBSET Nat, Spaced(f, times, q, moment),
         NEW later, Lines(later, times, q, p, line, moment)
  PROVE  Spaced(g, later, q, moment)
<1>0. REFUSAL_INTERVAL \in Nat \ {0}
  BY RefusalAssumption
<1>1. \A x \in DOMAIN f : f[x].last \in Nat \cup {Never}
  BY DEF PeersOK, Peer
<1>2. CASE q = p /\ line = 1
  <2>1. p \in DOMAIN g /\ g[p].last = moment /\ later = times \cup {moment} /\ moment # Never
    BY <1>2 DEF Booked, Never, Lines
  <2>2. \A a \in times : a \in Nat /\ a <= moment /\ moment - a >= REFUSAL_INTERVAL
    <3>1. CASE p \in DOMAIN f /\ f[p].last # Never
      <4>1. f[p].last \in Nat /\ moment - f[p].last >= REFUSAL_INTERVAL /\ \A a \in times : a <= f[p].last
        BY <1>1, <1>2, <3>1 DEF Booked, Spaced
      <4> QED BY <1>0, <4>1
    <3>2. CASE ~(p \in DOMAIN f /\ f[p].last # Never)
      BY <1>0, <1>2, <3>2 DEF Spaced
    <3> QED BY <3>1, <3>2
  <2>3. \A a, b \in times : a < b => b - a >= REFUSAL_INTERVAL
    BY DEF Spaced
  <2>4. ASSUME NEW a \in later PROVE a <= moment
    <3>1. a \in times \/ a = moment
      BY <2>1
    <3>2. moment <= moment
      BY <1>0
    <3> QED BY <2>2, <3>1, <3>2
  <2>5. ASSUME NEW a \in later, NEW b \in later, a < b PROVE b - a >= REFUSAL_INTERVAL
    <3>1. a \in times \/ a = moment
      BY <2>1
    <3>2. b \in times \/ b = moment
      BY <2>1
    <3>3. CASE a \in times /\ b \in times
      BY <2>3, <2>5, <3>3
    <3>4. CASE a \in times /\ b = moment
      BY <2>2, <3>4
    <3>5. CASE a = moment
      <4>1. CASE b \in times
        BY <2>2, <2>5, <3>5, <4>1
      <4>2. CASE b = moment
        BY <2>5, <3>5, <4>2
      <4> QED BY <3>2, <4>1, <4>2
    <3> QED BY <3>1, <3>2, <3>3, <3>4, <3>5
  <2> QED BY <1>2, <2>1, <2>4, <2>5 DEF Spaced
<1>3. CASE ~(q = p /\ line = 1)
  <2>1. later = times
    BY <1>3 DEF Lines
  <2>2. CASE q \in DOMAIN g
    <3>1. (q \in DOMAIN f /\ g[q].last = f[q].last) \/ (q \notin DOMAIN f /\ g[q].last = Never)
      BY <1>3, <2>2 DEF Booked
    <3> QED BY <2>1, <2>2, <3>1 DEF Spaced
  <2>3. CASE q \notin DOMAIN g /\ q \in DOMAIN f
    <3>1. f[q].last \in Nat /\ moment - f[q].last >= REFUSAL_INTERVAL /\ f[q].last # Never
      BY <1>1, <2>3 DEF Booked, Dropped
    <3>2. \A a \in times : a <= f[q].last
      BY <2>3, <3>1 DEF Spaced
    <3>3. \A a \in times : moment - a >= REFUSAL_INTERVAL
      BY <1>0, <3>1, <3>2
    <3> QED BY <2>1, <2>3, <3>3 DEF Spaced
  <2>4. CASE q \notin DOMAIN g /\ q \notin DOMAIN f
    BY <2>1, <2>4 DEF Spaced
  <2> QED BY <2>2, <2>3, <2>4
<1> QED BY <1>2, <1>3

\* How the counts change with a refusal of p that record answered with r.
Recounted(k, h, r, l, p, moment) ==
    /\ k.refused = h.refused + 1 /\ k.lines = h.lines + r.line /\ k.carried = h.carried + r.carried
    /\ k.summarised = h.summarised + (IF r.log.window # l.window THEN l.summary.other ELSE 0)
    /\ \A q \in Strangers : k.at[q] = IF q = p /\ r.line = 1 THEN h.at[q] \cup {moment} ELSE h.at[q]

\* A refusal is counted once more in what the log says of it.
LEMMA RecordedBalances ==
  ASSUME NEW l, NEW moment, NEW w, RolledFrom(w, l, moment), LogOK(l), NEW p, NEW r, LogWritten(w, p, moment, r),
         NEW h \in Counts, Balanced(l, h), NEW k \in Counts, Recounted(k, h, r, l, p, moment)
  PROVE  Balanced(r.log, k)
<1>1. PICK a, b, c, d : a = h.refused /\ b = h.lines /\ c = h.carried /\ d = h.summarised
  OBVIOUS
<1>2. a \in Nat /\ b \in Nat /\ c \in Nat /\ d \in Nat
  BY <1>1 DEF Counts
<1>3. PICK x, y, u, v, z : /\ x = OwedIn(l.peers) /\ y = OwedIn(r.log.peers)
                           /\ u = l.summary.other /\ v = w.summary.other /\ z = r.log.summary.other
  OBVIOUS
<1>4. PICK i, j : i = r.line /\ j = r.carried
  OBVIOUS
<1>5. /\ i \in Nat /\ j \in Nat /\ x \in Nat /\ y \in Nat
      /\ y + z + i + j = x + v + 1
  BY <1>3, <1>4 DEF LogWritten, RolledFrom
<1>6. u \in Nat
  <2>1. l.summary \in Summary
    BY DEF LogOK
  <2> QED BY <1>3, <2>1 DEF Summary
<1>7. v \in Nat
  <2>1. w.summary \in Summary
    BY DEF LogOK, RolledFrom
  <2> QED BY <1>3, <2>1 DEF Summary
<1>8. z \in Nat
  <2>1. r.log.summary \in Summary
    BY DEF LogOK, LogWritten
  <2> QED BY <1>3, <2>1 DEF Summary
<1>9. PICK e : e = IF r.log.window # l.window THEN u ELSE 0
  OBVIOUS
<1>10. r.log.window = w.window
  BY DEF LogWritten
<1>11. e \in Nat /\ v + e = u
  BY <1>3, <1>6, <1>7, <1>9, <1>10 DEF RolledFrom
<1>12. /\ k.refused = a + 1 /\ k.lines = b + i /\ k.carried = c + j /\ k.summarised = d + e
  BY <1>1, <1>3, <1>4, <1>9 DEF Recounted
<1>13. a = b + c + x + d + u
  BY <1>1, <1>3 DEF Balanced
<1>14. a + 1 = (b + i) + (c + j) + y + (d + e) + z
  BY <1>2, <1>5, <1>6, <1>7, <1>8, <1>11, <1>13
<1> QED BY <1>3, <1>12, <1>14 DEF Balanced

\* So the lines stay an interval apart.
LEMMA RecordedSpaced ==
  ASSUME NEW l, NEW moment \in Nat, LogOK(l), NEW w, RolledFrom(w, l, moment), NEW p, NEW r, LogWritten(w, p, moment, r),
         NEW h \in Counts, SpacedAt(l, h.at, moment), NEW k \in Counts, Recounted(k, h, r, l, p, moment)
  PROVE  SpacedAt(r.log, k.at, moment)
<1>1. PICK f, g, line : f = l.peers /\ g = r.log.peers /\ line = r.line
  OBVIOUS
<1>2. PeersOK(f) /\ Booked(f, g, p, moment, line) /\ line \in {0, 1}
  BY <1>1 DEF LogWritten, LogOK, RolledFrom
<1>3. ASSUME NEW q \in Strangers PROVE Spaced(g, k.at[q], q, moment)
  <2>1. PICK times, later : times = h.at[q] /\ later = k.at[q]
    OBVIOUS
  <2>2. Spaced(f, times, q, moment)
    BY <1>1, <2>1 DEF SpacedAt
  <2>3. times \in SUBSET Nat
    BY <2>1 DEF Counts
  <2>4. Lines(later, times, q, p, line, moment)
    BY <1>1, <2>1 DEF Recounted, Lines
  <2> QED BY <1>2, <2>1, <2>2, <2>3, <2>4, SpacedBooked
<1> QED BY <1>1, <1>3 DEF SpacedAt

\* The window and the table stay within their bounds.
LEMMA RecordedAt ==
  ASSUME NEW l, NEW moment \in Nat, NEW w, RolledFrom(w, l, moment), NEW p, NEW r, LogWritten(w, p, moment, r)
  PROVE  LogAt(r.log, moment)
<1>1. r.log.window \in Nat /\ r.log.window <= moment
  BY DEF RolledFrom, LogWritten
<1>2. r.log.window # Never
  BY <1>1 DEF Never
<1> QED BY <1>1, <1>2 DEF LogAt, LogWritten

\* A refusal.
LEMMA RefusalRefuseOK == ASSUME RefusalInv, NEW p \in Strangers, Refuse(p) PROVE RefusalInv'
<1>1. PICK l, moment, h, k : l = rlog /\ moment = rnow /\ h = rhist /\ k = rhist'
  OBVIOUS
<1>2. moment \in Nat /\ LogAt(l, moment) /\ h \in Counts /\ Balanced(l, h) /\ SpacedAt(l, h.at, moment) /\ rnow' = moment
  BY <1>1 DEF RefusalInv, Refuse
<1>3. PICK r \in Record(l, p, moment) : rlog' = r.log /\ k =
          [refused |-> h.refused + 1, lines |-> h.lines + r.line, carried |-> h.carried + r.carried,
           summarised |-> h.summarised + (IF r.log.window # l.window THEN l.summary.other ELSE 0),
           at |-> [h.at EXCEPT ![p] = IF r.line = 1 THEN @ \cup {moment} ELSE @]]
  BY <1>1 DEF Refuse
<1>4. PICK w : w = Rolled(l, moment)
  OBVIOUS
<1>5. RolledFrom(w, l, moment)
  BY <1>2, <1>4, RolledIs
<1>6. LogWritten(w, p, moment, r)
  BY <1>2, <1>4, RecordOK
<1>7. LogOK(l)
  BY <1>2 DEF LogAt
<1>8. PICK a, b, c, d, at : a = h.refused /\ b = h.lines /\ c = h.carried /\ d = h.summarised /\ at = h.at
  OBVIOUS
<1>9. a \in Nat /\ b \in Nat /\ c \in Nat /\ d \in Nat /\ at \in [Strangers -> SUBSET Nat]
  BY <1>2, <1>8 DEF Counts
<1>10. PICK i, j, e : i = r.line /\ j = r.carried /\ e = IF r.log.window # l.window THEN l.summary.other ELSE 0
  OBVIOUS
<1>11. i \in {0, 1} /\ j \in Nat
  BY <1>6, <1>10 DEF LogWritten
<1>12. e \in Nat
  <2>1. l.summary \in Summary
    BY <1>7 DEF LogOK
  <2>2. l.summary.other \in Nat
    BY <2>1 DEF Summary
  <2> QED BY <1>10, <2>2
<1>13. PICK at2 : at2 = [at EXCEPT ![p] = IF i = 1 THEN @ \cup {moment} ELSE @]
  OBVIOUS
<1>14. at2 \in [Strangers -> SUBSET Nat]
  BY <1>2, <1>9, <1>13
<1>15. \A q \in Strangers : at2[q] = IF q = p /\ i = 1 THEN at[q] \cup {moment} ELSE at[q]
  BY <1>9, <1>13
<1>16. k = [refused |-> a + 1, lines |-> b + i, carried |-> c + j, summarised |-> d + e, at |-> at2]
  BY <1>3, <1>8, <1>10, <1>13
<1>17. k \in Counts
  <2>1. a + 1 \in Nat /\ b + i \in Nat /\ c + j \in Nat /\ d + e \in Nat
    BY <1>9, <1>11, <1>12
  <2> QED BY <1>14, <1>16, <2>1 DEF Counts
<1>18. Recounted(k, h, r, l, p, moment)
  <2>1. k.refused = a + 1 /\ k.lines = b + i /\ k.carried = c + j /\ k.summarised = d + e /\ k.at = at2
    BY <1>16
  <2> QED BY <1>8, <1>10, <1>15, <2>1 DEF Recounted
<1>19. Balanced(r.log, k)
  BY <1>2, <1>5, <1>6, <1>7, <1>17, <1>18, RecordedBalances
<1>20. SpacedAt(r.log, k.at, moment)
  BY <1>2, <1>5, <1>6, <1>7, <1>17, <1>18, RecordedSpaced
<1>21. LogAt(r.log, moment)
  BY <1>2, <1>5, <1>6, RecordedAt
<1> QED BY <1>1, <1>2, <1>3, <1>17, <1>19, <1>20, <1>21 DEF RefusalInv

\* Time passes.
LEMMA RefusalTickOK == ASSUME RefusalInv, RTick PROVE RefusalInv'
<1>1. PICK l, moment, h : l = rlog /\ moment = rnow /\ h = rhist
  OBVIOUS
<1>2. moment \in Nat /\ LogAt(l, moment) /\ h \in Counts /\ Balanced(l, h) /\ SpacedAt(l, h.at, moment)
  BY <1>1 DEF RefusalInv
<1>3. rnow' = moment + 1 /\ rlog' = l /\ rhist' = h /\ REFUSAL_INTERVAL \in Nat
  BY <1>1, RefusalAssumption DEF RTick
<1>4. PeersOK(l.peers) /\ l.window \in Nat \cup {Never}
  BY <1>2 DEF LogAt, LogOK
<1>5. ASSUME NEW p \in Strangers PROVE Spaced(l.peers, h.at[p], p, moment + 1)
  <2>1. PICK f, times : f = l.peers /\ times = h.at[p]
    OBVIOUS
  <2>2. Spaced(f, times, p, moment)
    BY <1>2, <2>1 DEF SpacedAt
  <2>3. times \in SUBSET Nat
    BY <1>2, <2>1 DEF Counts
  <2>4. p \in DOMAIN f => f[p].last \in Nat \cup {Never}
    BY <1>4, <2>1 DEF PeersOK, Peer
  <2>5. Spaced(f, times, p, moment + 1)
    <3>1. \A a \in times : a <= moment + 1
      BY <1>2, <2>2, <2>3 DEF Spaced
    <3>2. \A a, b \in times : a < b => b - a >= REFUSAL_INTERVAL
      BY <2>2 DEF Spaced
    <3>3. CASE p \in DOMAIN f /\ f[p].last # Never
      <4>1. f[p].last \in Nat /\ f[p].last <= moment /\ \A a \in times : a <= f[p].last
        BY <2>2, <2>4, <3>3 DEF Spaced
      <4>2. f[p].last <= moment + 1
        BY <1>2, <4>1
      <4> QED BY <3>1, <3>2, <3>3, <4>1, <4>2 DEF Spaced
    <3>4. CASE ~(p \in DOMAIN f /\ f[p].last # Never)
      <4>1. \A a \in times : moment - a >= REFUSAL_INTERVAL
        BY <2>2, <3>4 DEF Spaced
      <4>2. \A a \in times : (moment + 1) - a >= REFUSAL_INTERVAL
        BY <1>2, <1>3, <2>3, <4>1
      <4> QED BY <3>1, <3>2, <3>4, <4>2 DEF Spaced
    <3> QED BY <3>3, <3>4
  <2> QED BY <2>1, <2>5
<1>6. LogAt(l, moment + 1)
  BY <1>2, <1>4 DEF LogAt
<1>7. SpacedAt(l, h.at, moment + 1)
  BY <1>5 DEF SpacedAt
<1> QED BY <1>2, <1>3, <1>6, <1>7 DEF RefusalInv

\* Every refused connection is in the log exactly once, the table holds no more than its
\* limit, and a peer has at most one line per interval, whatever the order of refusals,
\* evictions and windows (RefusalLog::record, evict_stale).
THEOREM RefusalsAreCounted == RSpec => []RefusalsAreAccountedFor
<1>1. RefusalInv /\ [RNext]_rvars => RefusalInv'
  <2> SUFFICES ASSUME RefusalInv, [RNext]_rvars PROVE RefusalInv'
    OBVIOUS
  <2>1. CASE RTick
    BY <2>1, RefusalTickOK
  <2>2. CASE \E p \in Strangers : Refuse(p)
    BY <2>2, RefusalRefuseOK
  <2>3. CASE UNCHANGED rvars
    BY <2>3 DEF rvars, RefusalInv
  <2> QED BY <2>1, <2>2, <2>3 DEF RNext
<1>2. RefusalInv => RefusalsAreAccountedFor
  <2> SUFFICES ASSUME RefusalInv PROVE RefusalsAreAccountedFor
    OBVIOUS
  <2>1. Owed = OwedIn(rlog.peers)
    BY DEF Owed, OwedIn
  <2>2. \A p \in Strangers : \A a, b \in rhist.at[p] : a < b => b - a >= REFUSAL_INTERVAL
    BY DEF RefusalInv, Spaced, SpacedAt
  <2> QED BY <2>1, <2>2 DEF RefusalInv, RefusalsAreAccountedFor, LogAt, Balanced
<1> QED BY <1>1, <1>2, RefusalInitOK, PTL DEF RSpec

-----------------------------------------------------------------------------
(* TrafficReport.  The crawlers' lines count parts of the window that do not *)
(* meet, so their sizes add up to the claims that are not forged.            *)

\* The requests of an agent that no forger made.
Genuine(reqs, ua, forgers) == {i \in DOMAIN reqs : reqs[i].ua = ua /\ reqs[i].ip \notin forgers}

\* A sighting counts them.
LEMMA SightingIs ==
  ASSUME NEW reqs, NEW ua, NEW forgers
  PROVE  /\ Sighting(reqs, ua, forgers).ua = ua
         /\ Sighting(reqs, ua, forgers).requests = Cardinality(Genuine(reqs, ua, forgers))
         /\ Sighting(reqs, ua, forgers).ips = {reqs[i].ip : i \in Genuine(reqs, ua, forgers)}
<1>1. {i \in {j \in DOMAIN reqs : reqs[j].ua = ua} : reqs[i].ip \notin forgers} = Genuine(reqs, ua, forgers)
  BY DEF Genuine
<1> QED BY <1>1 DEF Sighting

\* What a crawler of the report is.
CrawlerOf(c, reqs, forgers) ==
    /\ c.ua \in TBots /\ c = Sighting(reqs, c.ua, forgers)
    /\ c.requests = Cardinality(Genuine(reqs, c.ua, forgers)) /\ c.requests > 0
    /\ c.ips = {reqs[i].ip : i \in Genuine(reqs, c.ua, forgers)}
    /\ Genuine(reqs, c.ua, forgers) # {}

\* Crawlers has these, and one for every agent with a request of its own.
LEMMA CrawlersAre ==
  ASSUME NEW reqs, IsFiniteSet(DOMAIN reqs), NEW forgers
  PROVE  /\ \A c \in Crawlers(reqs, forgers) : CrawlerOf(c, reqs, forgers)
         /\ \A ua \in TBots : Genuine(reqs, ua, forgers) # {} =>
               Sighting(reqs, ua, forgers) \in Crawlers(reqs, forgers)
<1>1. ASSUME NEW c \in Crawlers(reqs, forgers) PROVE CrawlerOf(c, reqs, forgers)
  <2>1. PICK ua \in TBots : c = Sighting(reqs, ua, forgers)
    BY DEF Crawlers
  <2>2. c.requests > 0
    BY DEF Crawlers
  <2>3. c.ua = ua /\ c.requests = Cardinality(Genuine(reqs, ua, forgers))
        /\ c.ips = {reqs[i].ip : i \in Genuine(reqs, ua, forgers)}
    BY <2>1, SightingIs
  <2>4. Genuine(reqs, ua, forgers) # {}
    BY <2>2, <2>3, FS_EmptySet
  <2> QED BY <2>1, <2>2, <2>3, <2>4 DEF CrawlerOf
<1>2. ASSUME NEW ua \in TBots, Genuine(reqs, ua, forgers) # {}
      PROVE  Sighting(reqs, ua, forgers) \in Crawlers(reqs, forgers)
  <2>1. PICK G : G = Genuine(reqs, ua, forgers)
    OBVIOUS
  <2>2. IsFiniteSet(G)
    BY <2>1, FS_Subset DEF Genuine
  <2>3. Cardinality(G) \in Nat /\ Cardinality(G) # 0
    BY <1>2, <2>1, <2>2, FS_CardinalityType, FS_EmptySet
  <2>4. Sighting(reqs, ua, forgers).requests > 0
    BY <2>1, <2>3, SightingIs
  <2> QED BY <2>4 DEF Crawlers
<1> QED BY <1>1, <1>2

\* There are no more crawlers than requests.
LEMMA CrawlersFinite ==
  ASSUME NEW reqs, IsFiniteSet(DOMAIN reqs), NEW forgers
  PROVE  IsFiniteSet(Crawlers(reqs, forgers))
<1>1. PICK D, C : D = DOMAIN reqs /\ C = Crawlers(reqs, forgers)
  OBVIOUS
<1>2. PICK f : f = [i \in D |-> Sighting(reqs, reqs[i].ua, forgers)]
  OBVIOUS
<1>3. PICK Y : Y = {f[i] : i \in D}
  OBVIOUS
<1>4. IsFiniteSet(Y)
  <2>1. f \in Surjection(D, Y)
    BY <1>2, <1>3 DEF Surjection
  <2> QED BY <1>1, <2>1, FS_Surjection
<1>5. ASSUME NEW c \in C PROVE c \in Y
  <2>1. CrawlerOf(c, reqs, forgers)
    BY <1>1, CrawlersAre
  <2>2. PICK i \in D : reqs[i].ua = c.ua
    BY <1>1, <2>1 DEF CrawlerOf, Genuine
  <2>3. c = f[i]
    BY <1>2, <2>1, <2>2 DEF CrawlerOf
  <2> QED BY <1>3, <2>3
<1>6. C \subseteq Y
  BY <1>5
<1> QED BY <1>1, <1>4, <1>6, FS_Subset

\* The requests credited to crawlers and the ones called forged are those that made the claim.
LEMMA ClaimsAddUp ==
  ASSUME NEW reqs, IsFiniteSet(DOMAIN reqs), NEW forgers
  PROVE  SumFunction([c \in Crawlers(reqs, forgers) |-> c.requests]) + ForgedRequests(reqs, forgers)
            = Cardinality({i \in DOMAIN reqs : reqs[i].ua \in TBots})
<1>1. PICK D, C, w, part :
         /\ D = DOMAIN reqs /\ C = Crawlers(reqs, forgers)
         /\ w = [c \in C |-> c.requests]
         /\ part = [c \in C |-> Genuine(reqs, c.ua, forgers)]
  OBVIOUS
<1>2. IsFiniteSet(D) /\ IsFiniteSet(C)
  BY <1>1, CrawlersFinite
<1>3. \A c \in C : CrawlerOf(c, reqs, forgers)
  BY <1>1, CrawlersAre
<1>4. PartsOf(part, w, C, D)
  <2>1. \A c \in C : part[c] \in SUBSET D /\ w[c] = Cardinality(part[c])
    BY <1>1, <1>3 DEF CrawlerOf, Genuine
  <2>2. ASSUME NEW c \in C, NEW d \in C, NEW i \in part[c] \cap part[d] PROVE c = d
    <3>1. c.ua = d.ua
      BY <1>1 DEF Genuine
    <3> QED BY <1>3, <3>1 DEF CrawlerOf
  <2> QED BY <2>1, <2>2 DEF PartsOf
<1>5. PICK A, B, W : /\ A = UNION {part[c] : c \in C}
                     /\ B = {i \in D : reqs[i].ua \in TBots /\ reqs[i].ip \in forgers}
                     /\ W = {i \in D : reqs[i].ua \in TBots}
  OBVIOUS
<1>6. SumFunctionOnSet(w, C) = Cardinality(A)
  BY <1>2, <1>4, <1>5, SumOfParts
<1>7. SumFunction([c \in Crawlers(reqs, forgers) |-> c.requests]) = SumFunctionOnSet(w, C)
  <2>1. DOMAIN w = C /\ w = [c \in Crawlers(reqs, forgers) |-> c.requests]
    BY <1>1
  <2> QED BY <2>1 DEF SumFunction, SumFunctionOnSet, FoldFunction
<1>8. A = {i \in D : reqs[i].ua \in TBots /\ reqs[i].ip \notin forgers}
  <2>1. ASSUME NEW i \in A PROVE i \in D /\ reqs[i].ua \in TBots /\ reqs[i].ip \notin forgers
    <3>1. PICK c \in C : i \in part[c]
      BY <1>5
    <3>2. i \in Genuine(reqs, c.ua, forgers) /\ c.ua \in TBots
      BY <1>1, <1>3, <3>1 DEF CrawlerOf
    <3> QED BY <1>1, <3>2 DEF Genuine
  <2>2. ASSUME NEW i \in D, reqs[i].ua \in TBots, reqs[i].ip \notin forgers PROVE i \in A
    <3>1. PICK ua : ua = reqs[i].ua
      OBVIOUS
    <3>2. i \in Genuine(reqs, ua, forgers)
      BY <1>1, <2>2, <3>1 DEF Genuine
    <3>3. PICK c \in C : c = Sighting(reqs, ua, forgers)
      BY <1>1, <2>2, <3>1, <3>2, CrawlersAre
    <3>4. c.ua = ua
      BY <3>3, SightingIs
    <3>5. i \in part[c]
      BY <1>1, <3>2, <3>4
    <3> QED BY <1>5, <3>5
  <2> QED BY <2>1, <2>2
<1>9. W = A \cup B /\ A \cap B = {} /\ A \subseteq D /\ B \subseteq D
  BY <1>5, <1>8
<1>10. IsFiniteSet(A) /\ IsFiniteSet(B)
  BY <1>2, <1>9, FS_Subset
<1>11. Cardinality(W) = Cardinality(A) + Cardinality(B)
  <2>1. Cardinality(A \cup B) = Cardinality(A) + Cardinality(B) - Cardinality(A \cap B)
    BY <1>10, FS_Union
  <2>2. Cardinality(A \cap B) = 0
    BY <1>9, FS_EmptySet
  <2> QED BY <1>9, <1>10, <2>1, <2>2, FS_CardinalityType
<1>12. ForgedRequests(reqs, forgers) = Cardinality(B)
  BY <1>1, <1>5 DEF ForgedRequests
<1>13. Cardinality({i \in DOMAIN reqs : reqs[i].ua \in TBots}) = Cardinality(W)
  BY <1>1, <1>5
<1> QED BY <1>6, <1>7, <1>11, <1>12, <1>13

\* Nothing is hidden by setting an address aside.
LEMMA ForgersAreNamed ==
  ASSUME NEW reqs, NEW notable, notable = {ip \in AddrsIn(reqs) : IsNotable(PerIp(reqs, ip))},
         NEW ip \in Forgers(reqs), ip \notin notable
  PROVE  ip \in {x \in AddrsIn(reqs) \ notable : PerIp(reqs, x).paths \cap TProbes # {}}
<1>1. ip \in AddrsIn(reqs)
  BY DEF Forgers
<1>2. PICK a : a = PerIp(reqs, ip)
  OBVIOUS
<1>3. ~IsNotable(a)
  BY <1>1, <1>2
<1>4. Rotating(a) \/ a.paths \cap (TProbes \cup TInjections) # {}
  BY <1>2 DEF Forgers
<1>5. ~Rotating(a) /\ a.paths \cap TInjections = {}
  BY <1>3 DEF IsNotable
<1>6. a.paths \cap TProbes # {}
  BY <1>4, <1>5
<1> QED BY <1>1, <1>2, <1>6

\* A report built from these records.
Accounted(records, r) ==
    LET reqs == RequestsOf(records)
    IN  /\ SumFunction([c \in r.crawlers |-> c.requests]) + r.forged
              = Cardinality({i \in DOMAIN reqs : reqs[i].ua \in TBots})
        /\ \A c \in r.crawlers : c.ips # {} /\ c.ips \cap r.forgers = {}
        /\ r.forgers \subseteq r.notable \cup r.noise

\* Every claim is accounted for, whatever the records.
LEMMA ReportAccounts ==
  ASSUME NEW records, IsFiniteSet(DOMAIN records)
  PROVE  Accounted(records, Report(records))
<1>1. PICK reqs, r : reqs = RequestsOf(records) /\ r = Report(records)
  OBVIOUS
<1>2. IsFiniteSet(DOMAIN reqs)
  <2>1. DOMAIN reqs \subseteq DOMAIN records
    BY <1>1 DEF RequestsOf, Restrict
  <2> QED BY <2>1, FS_Subset
<1>3. PICK forgers, notable : /\ forgers = Forgers(reqs)
                              /\ notable = {ip \in AddrsIn(reqs) : IsNotable(PerIp(reqs, ip))}
  OBVIOUS
<1>4. /\ r.crawlers = Crawlers(reqs, forgers) /\ r.forged = ForgedRequests(reqs, forgers)
      /\ r.forgers = forgers /\ r.notable = notable
      /\ r.noise = {ip \in AddrsIn(reqs) \ notable : PerIp(reqs, ip).paths \cap TProbes # {}}
  BY <1>1, <1>3 DEF Report
<1>5. SumFunction([c \in r.crawlers |-> c.requests]) + r.forged = Cardinality({i \in DOMAIN reqs : reqs[i].ua \in TBots})
  BY <1>2, <1>4, ClaimsAddUp
<1>6. ASSUME NEW c \in r.crawlers PROVE c.ips # {} /\ c.ips \cap r.forgers = {}
  <2>1. CrawlerOf(c, reqs, forgers)
    BY <1>2, <1>4, CrawlersAre
  <2> QED BY <1>4, <2>1 DEF CrawlerOf, Genuine
<1>7. r.forgers \subseteq r.notable \cup r.noise
  <2>1. ASSUME NEW ip \in forgers, ip \notin notable
        PROVE  ip \in {x \in AddrsIn(reqs) \ notable : PerIp(reqs, x).paths \cap TProbes # {}}
    BY <1>3, <2>1, ForgersAreNamed
  <2> QED BY <1>4, <2>1
<1> QED BY <1>1, <1>5, <1>6, <1>7 DEF Accounted

\* A report is built from the records of its window, and kept with them.
TInv ==
    /\ tlog \in Seq(TRecords) /\ tsince \in Nat
    /\ IsFiniteSet(DOMAIN treport.of) /\ treport.report = Report(treport.of)

\* A finite log has finitely many requests in its window.
LEMMA WindowIsFinite ==
  ASSUME NEW s \in Seq(TRecords), NEW k \in Nat
  PROVE  IsFiniteSet(DOMAIN SubSeq(s, k + 1, Len(s)))
<1>1. Len(s) \in Nat
  BY LenProperties
<1>2. DOMAIN SubSeq(s, k + 1, Len(s)) = 1..(Len(s) - k)
  BY <1>1
<1> QED BY <1>1, <1>2, FS_Interval

\* A request, a report and an answer preserve the invariant.
LEMMA TrafficNextOK == TInv /\ [TNext]_tvars => TInv'
<1> SUFFICES ASSUME TInv, [TNext]_tvars PROVE TInv'
  OBVIOUS
<1>1. CASE LogRecord
  <2>1. PICK r \in TRecords : tlog' = Append(tlog, r)
    BY <1>1 DEF LogRecord
  <2>2. tlog' \in Seq(TRecords)
    BY <2>1, AppendProperties DEF TInv
  <2> QED BY <1>1, <2>2 DEF TInv, LogRecord
<1>2. CASE WindowMoves
  BY <1>2 DEF WindowMoves, TInv
<1>3. CASE BuildTraffic
  <2>1. PICK records, r : records = SubSeq(tlog, tsince + 1, Len(tlog)) /\ r = Report(records)
    OBVIOUS
  <2>2. treport' = [of |-> records, report |-> r] /\ tlog' = tlog /\ tsince' = tsince
    BY <1>3, <2>1 DEF BuildTraffic
  <2>3. treport'.of = records /\ treport'.report = r
    BY <2>2
  <2>4. IsFiniteSet(DOMAIN records)
    BY <2>1, WindowIsFinite DEF TInv
  <2> QED BY <2>1, <2>2, <2>3, <2>4 DEF TInv
<1>4. CASE UNCHANGED tvars
  BY <1>4 DEF tvars, TInv
<1> QED BY <1>1, <1>2, <1>3, <1>4 DEF TNext

\* TClaimsAreAccountedFor, for every log and window: the requests credited to crawlers and the
\* forged ones add up to the claims, no forger is an address of a crawler, and every forger is
\* named in the same report (m6-http health.rs).
THEOREM ClaimsAreAccountedFor == TSpec => []TClaimsAreAccountedFor
<1>1. TInit => TInv
  <2>1. ASSUME TInit PROVE TInv
    <3>1. treport.of = <<>> /\ treport.report = Report(treport.of) /\ tlog = <<>> /\ tsince = 0
      BY <2>1 DEF TInit, NoReport
    <3>2. DOMAIN <<>> = 1..0
      OBVIOUS
    <3>3. IsFiniteSet(1..0)
      BY FS_Interval
    <3> QED BY <3>1, <3>2, <3>3 DEF TInv
  <2> QED BY <2>1
<1>2. TInv /\ [TNext]_tvars => TInv'
  BY TrafficNextOK
<1>3. TInv => TClaimsAreAccountedFor
  <2>1. ASSUME TInv PROVE Accounted(treport.of, treport.report)
    BY <2>1, ReportAccounts DEF TInv
  <2> QED BY <2>1 DEF Accounted, TClaimsAreAccountedFor
<1> QED BY <1>1, <1>2, <1>3, PTL DEF TSpec

-----------------------------------------------------------------------------
(* Forwarding.  A chunked body read as good is followed, chunk by chunk from *)
(* the first size line, to the end of the message; so what the edge hands on *)
(* is whole.                                                                 *)

\* What the recursion of ReadChunked asks of g.
ChunksRead(g, t) == g = [p \in 1..(Len(t) + 1) |-> ReadChunk(t, g, p)]

\* ReadChunked is what that function gives at the first size line.
LEMMA ReadChunkedUnfold == \A t : ReadChunked(t) = (CHOOSE g : ChunksRead(g, t))[1]
BY DEF ReadChunked, ChunksRead

\* A chunk looks only at chunks further on.
LEMMA ReadLooksAhead ==
  ASSUME NEW t \in Seq(Int), NEW g, NEW h, NEW p \in 1..(Len(t) + 1),
         \A j \in (p + 1)..(Len(t) + 1) : g[j] = h[j]
  PROVE  ReadChunk(t, g, p) = ReadChunk(t, h, p)
<1>1. PICK n \in Nat : n = Len(t)
  OBVIOUS
<1>2. CASE p + 1 > n \/ t[p + 1] # NL \/ t[p] < 0 \/ t[p] = 0
  BY <1>1, <1>2 DEF ReadChunk
<1>3. CASE ~(p + 1 > n \/ t[p + 1] # NL \/ t[p] < 0 \/ t[p] = 0)
  <2>1. p \in 1..n
    BY <1>1, <1>3
  <2>2. PICK k \in Int : k = t[p] /\ k > 0
    BY <1>1, <1>3, <2>1
  <2>3. CASE p + 2 + k > n
    BY <1>1, <2>2, <2>3 DEF ReadChunk
  <2>4. CASE ~(p + 2 + k > n)
    <3>1. p + 2 + k + 1 \in (p + 1)..(n + 1)
      BY <2>2, <2>4
    <3>2. g[p + 2 + k + 1] = h[p + 2 + k + 1]
      BY <1>1, <3>1
    <3> QED BY <2>2, <3>2 DEF ReadChunk
  <2> QED BY <2>3, <2>4
<1> QED BY <1>2, <1>3

\* The recursion has a solution: it is built from the end of the stream.
LEMMA ChunksReadExists ==
  ASSUME NEW t \in Seq(Int)
  PROVE  \E g : ChunksRead(g, t)
<1>1. PICK n \in Nat : n = Len(t)
  OBVIOUS
<1> DEFINE Late(k) == {p \in 1..(n + 1) : p + k > n + 1}
           Part(g, k) == g = [p \in Late(k) |-> ReadChunk(t, g, p)]
           N == {k \in Nat : \E g : Part(g, k)}
<1>2. 0 \in N
  <2>1. Late(0) = {}
    OBVIOUS
  <2>2. Part([p \in Late(0) |-> 0], 0)
    BY <2>1
  <2> QED BY <2>2
<1>3. ASSUME NEW k \in N PROVE k + 1 \in N
  <2>1. k \in Nat
    OBVIOUS
  <2>2. PICK g : Part(g, k)
    OBVIOUS
  <2> DEFINE h == [p \in Late(k + 1) |-> ReadChunk(t, g, p)]
  <2>3. ASSUME NEW p \in Late(k) PROVE p \in Late(k + 1) /\ h[p] = g[p]
    <3>1. p \in Late(k + 1)
      BY <2>1
    <3>2. h[p] = ReadChunk(t, g, p)
      BY <3>1
    <3>3. g[p] = ReadChunk(t, g, p)
      BY <2>2
    <3> QED BY <3>1, <3>2, <3>3
  <2>4. ASSUME NEW p \in Late(k + 1)
        PROVE  ReadChunk(t, g, p) = ReadChunk(t, h, p)
    <3>1. \A j \in (p + 1)..(n + 1) : j \in Late(k)
      BY <2>1
    <3>2. \A j \in (p + 1)..(n + 1) : g[j] = h[j]
      BY <2>3, <3>1
    <3>3. p \in 1..(n + 1)
      OBVIOUS
    <3> HIDE DEF h
    <3> QED BY <1>1, <3>2, <3>3, ReadLooksAhead
  <2>5. Part(h, k + 1)
    BY <2>4
  <2> HIDE DEF h
  <2>6. \E f : Part(f, k + 1)
    BY <2>5
  <2> HIDE DEF Part
  <2> QED BY <2>1, <2>6
<1>4. N = Nat
  <2> HIDE DEF N
  <2> QED BY <1>2, <1>3, NatSetInduction DEF N
<1>5. PICK g : Part(g, n + 1)
  <2>1. n + 1 \in N
    <3> HIDE DEF N
    <3> QED BY <1>4
  <2> HIDE DEF Part
  <2> QED BY <2>1
<1>6. Late(n + 1) = 1..(n + 1)
  OBVIOUS
<1> QED BY <1>1, <1>5, <1>6 DEF ChunksRead

\* The units of a body from a place on.
UnitsFrom(w, p) == {i \in p..Len(w) : w[i] = Unit}

\* The units of a chunk and of what follows it.
LEMMA UnitsAdd ==
  ASSUME NEW w \in Seq(Int), NEW S, S \subseteq 1..Len(w), ChunkStarts(w, S), NEW p \in S, w[p] > 0
  PROVE  Cardinality(UnitsFrom(w, p)) = Cardinality(UnitsFrom(w, p + 2 + w[p] + 1)) + w[p]
<1>1. PICK n \in Nat : n = Len(w)
  OBVIOUS
<1>2. p \in 1..n
  BY <1>1
<1>3. PICK k \in Int : k = w[p] /\ k > 0
  BY <1>1, <1>2
<1>4. PICK nl \in Int : nl = p + 2 + k
  BY <1>2, <1>3
<1>5. /\ w[p + 1] = NL /\ nl + 1 \in 1..n /\ w[nl] = NL /\ \A i \in (p + 2)..(nl - 1) : w[i] = Unit
  <2>1. w[p + 1] = NL /\ ~(w[p] = 0)
    BY <1>3 DEF ChunkStarts
  <2>2. p + 2 + w[p] + 1 \in S /\ w[p + 2 + w[p]] = NL /\ \A i \in (p + 2)..(p + 2 + w[p] - 1) : w[i] = Unit
    BY <2>1 DEF ChunkStarts
  <2>3. PICK e : e = p + 2 + w[p]
    OBVIOUS
  <2>4. e + 1 \in S /\ w[e] = NL /\ \A i \in (p + 2)..(e - 1) : w[i] = Unit
    BY <2>2, <2>3
  <2>5. e = nl
    BY <1>3, <1>4, <2>3
  <2>6. nl + 1 \in 1..n
    BY <1>1, <2>4, <2>5
  <2> QED BY <2>1, <2>4, <2>5, <2>6
<1>6. PICK A, B : A = (p + 2)..(nl - 1) /\ B = UnitsFrom(w, nl + 1)
  OBVIOUS
<1>7. UnitsFrom(w, p) = A \cup B
  <2>1. ASSUME NEW i \in p..n, w[i] = Unit PROVE i \in A \/ i \in B
    <3>1. i # p /\ i # p + 1 /\ i # nl
      BY <1>3, <1>5, <2>1 DEF Unit, NL
    <3>2. CASE i < nl
      BY <1>2, <1>4, <1>6, <2>1, <3>1, <3>2
    <3>3. CASE ~(i < nl)
      <4>1. i \in (nl + 1)..n
        BY <1>2, <1>4, <2>1, <3>1, <3>3
      <4> QED BY <1>1, <1>6, <2>1, <4>1 DEF UnitsFrom
    <3> QED BY <3>2, <3>3
  <2>2. ASSUME NEW i \in A PROVE i \in p..n /\ w[i] = Unit
    <3>1. i \in p..n
      BY <1>2, <1>4, <1>5, <1>6
    <3> QED BY <1>5, <1>6, <3>1
  <2>3. ASSUME NEW i \in B PROVE i \in p..n /\ w[i] = Unit
    <3>1. i \in (nl + 1)..n /\ w[i] = Unit
      BY <1>1, <1>6 DEF UnitsFrom
    <3>2. i \in p..n
      BY <1>2, <1>3, <1>4, <3>1
    <3> QED BY <3>1, <3>2
  <2> QED BY <1>1, <2>1, <2>2, <2>3 DEF UnitsFrom
<1>8. A \cap B = {}
  BY <1>2, <1>4, <1>6 DEF UnitsFrom
<1>9. IsFiniteSet(A) /\ Cardinality(A) = k
  <2>1. p + 2 \in Int /\ nl - 1 \in Int /\ ~(p + 2 > nl - 1) /\ nl - 1 - (p + 2) + 1 = k
    BY <1>2, <1>3, <1>4
  <2> QED BY <1>6, <2>1, FS_Interval
<1>10. IsFiniteSet(B)
  <2>1. IsFiniteSet((nl + 1)..n)
    BY FS_Interval
  <2>2. B \in SUBSET ((nl + 1)..n)
    BY <1>1, <1>6 DEF UnitsFrom
  <2> QED BY <2>1, <2>2, FS_Subset
<1>11. Cardinality(A \cup B) = Cardinality(A) + Cardinality(B) - Cardinality(A \cap B)
  BY <1>9, <1>10, FS_Union
<1>12. Cardinality(A \cap B) = 0 /\ Cardinality(B) \in Nat
  BY <1>8, <1>10, FS_EmptySet, FS_CardinalityType
<1>13. Cardinality(A \cup B) = Cardinality(B) + k
  BY <1>3, <1>9, <1>11, <1>12
<1> QED BY <1>3, <1>4, <1>6, <1>7, <1>13

\* The last chunk has no units, nor has what follows it.
LEMMA LastHasNone ==
  ASSUME NEW w \in Seq(Int), NEW S, S \subseteq 1..Len(w), ChunkStarts(w, S), NEW p \in S, w[p] = 0
  PROVE  Cardinality(UnitsFrom(w, p)) = 0
<1>1. PICK n \in Nat : n = Len(w) /\ p \in 1..n
  OBVIOUS
<1>2. w[p + 1] = NL /\ \A i \in (p + 2)..n : w[i] # Unit
  BY <1>1 DEF ChunkStarts
<1>3. ASSUME NEW i \in p..n PROVE w[i] # Unit
  <2>1. i = p \/ i = p + 1 \/ i \in (p + 2)..n
    BY <1>1
  <2> QED BY <1>2, <2>1 DEF Unit, NL
<1>4. UnitsFrom(w, p) = {}
  BY <1>1, <1>3 DEF UnitsFrom
<1> QED BY <1>4, FS_EmptySet

\* What reading the chunks of a part of w gives, from the chunk at p on.
WholeFrom(g, w, k, p) ==
    g[p].k = "ok" => k = Len(w) /\ g[p].body = Cardinality(UnitsFrom(w, p))

\* A chunk read as good was followed to the end of the message.
LEMMA WholeStep ==
  ASSUME NEW w \in Seq(Int), NEW S, S \subseteq 1..Len(w), ChunkStarts(w, S), NEW k \in 0..Len(w),
         NEW t, t = SubSeq(w, 1, k), NEW g, ChunksRead(g, t), NEW p \in S, p <= k + 1,
         \A q \in S : (q > p /\ q <= k + 1) => WholeFrom(g, w, k, q)
  PROVE  WholeFrom(g, w, k, p)
<1>1. PICK n \in Nat : n = Len(w) /\ p \in 1..n /\ k \in 0..n
  OBVIOUS
<1>2. Len(t) = k /\ t \in Seq(Int) /\ \A i \in 1..k : t[i] = w[i]
  <2>1. 1 \in 1..(Len(w) + 1) /\ k \in (1 - 1)..Len(w)
    BY <1>1
  <2> QED BY <1>1, <2>1, SubSeqProperties
<1>3. g[p] = ReadChunk(t, g, p)
  <2>1. p \in 1..(Len(t) + 1)
    BY <1>1, <1>2
  <2> QED BY <2>1 DEF ChunksRead
<1> SUFFICES ASSUME g[p].k = "ok" PROVE k = n /\ g[p].body = Cardinality(UnitsFrom(w, p))
  BY <1>1 DEF WholeFrom
<1>4. XFailed.k # "ok" /\ \A m : XOk(m).body = m
  BY DEF XFailed, XOk
<1>5. p + 1 <= k /\ t[p + 1] = NL /\ ~(t[p] < 0)
  <2>1. ~(p + 1 > Len(t) \/ t[p + 1] # NL \/ t[p] < 0)
    BY <1>3, <1>4 DEF ReadChunk
  <2> QED BY <1>1, <1>2, <2>1
<1>6. PICK c \in Nat : c = t[p] /\ c = w[p]
  <2>1. p \in 1..k
    BY <1>1, <1>5
  <2>2. t[p] \in Int /\ t[p] = w[p]
    BY <1>2, <2>1
  <2> QED BY <1>5, <2>2
<1>7. CASE c = 0
  <2>1. TrailersEnd(t, p + 2) /\ g[p] = XOk(0)
    BY <1>2, <1>3, <1>4, <1>5, <1>6, <1>7 DEF ReadChunk
  <2>2. PICK q \in (p + 2)..k : t[q] = NL /\ (q - (p + 2)) % 2 = 0
    BY <1>2, <2>1 DEF TrailersEnd
  <2>3. w[q] = NL /\ q \in (p + 2)..n
    BY <1>1, <1>2, <2>2
  <2>4. q = n
    BY <1>1, <1>6, <1>7, <2>2, <2>3 DEF ChunkStarts
  <2>5. k = n
    BY <1>1, <2>2, <2>4
  <2>6. g[p].body = 0
    BY <1>4, <2>1
  <2> QED BY <1>6, <1>7, <2>5, <2>6, LastHasNone
<1>8. CASE c # 0
  <2>1. PICK nl \in Nat : nl = p + 2 + c
    BY <1>1
  <2>2. /\ ~(nl > k \/ t[nl] # NL \/ g[nl + 1].k # "ok")
        /\ g[p] = XOk(g[nl + 1].body + c)
    BY <1>2, <1>3, <1>4, <1>5, <1>6, <1>8, <2>1 DEF ReadChunk
  <2>3. nl + 1 \in S
    BY <1>6, <1>8, <2>1 DEF ChunkStarts
  <2>4. nl + 1 > p /\ nl + 1 <= k + 1
    BY <1>1, <2>1, <2>2
  <2>5. k = n /\ g[nl + 1].body = Cardinality(UnitsFrom(w, nl + 1))
    BY <1>1, <2>2, <2>3, <2>4 DEF WholeFrom
  <2>6. g[p].body = g[nl + 1].body + c
    BY <1>4, <2>2
  <2>7. w[p] > 0
    <3>1. c > 0
      BY <1>8
    <3> QED BY <1>6, <3>1
  <2>8. Cardinality(UnitsFrom(w, p)) = Cardinality(UnitsFrom(w, p + 2 + w[p] + 1)) + w[p]
    BY <2>7, UnitsAdd
  <2> QED BY <1>6, <2>1, <2>5, <2>6, <2>8
<1> QED BY <1>7, <1>8

\* A chunked body read as good is all of it.
LEMMA ChunkedIsWhole ==
  ASSUME NEW w \in Seq(Int), NEW S, S \subseteq 1..Len(w), ChunkStarts(w, S), NEW k \in 0..Len(w),
         NEW t, t = SubSeq(w, 1, k), ReadChunked(t).k = "ok"
  PROVE  k = Len(w) /\ ReadChunked(t).body = Cardinality({i \in 1..Len(w) : w[i] = Unit})
<1>1. PICK n \in Nat : n = Len(w)
  OBVIOUS
<1>2. t \in Seq(Int)
  <2>1. 1 \in 1..(Len(w) + 1) /\ k \in (1 - 1)..Len(w)
    BY <1>1
  <2> QED BY <2>1, SubSeqProperties
<1>3. PICK g : ChunksRead(g, t) /\ ReadChunked(t) = g[1]
  <2>1. ChunksRead(CHOOSE g : ChunksRead(g, t), t)
    BY <1>2, ChunksReadExists
  <2> QED BY <2>1, ReadChunkedUnfold
<1> DEFINE N == {j \in Nat : \A p \in S : (p + j > n /\ p <= k + 1) => WholeFrom(g, w, k, p)}
<1>4. 0 \in N
  BY <1>1
<1>5. ASSUME NEW j \in N PROVE j + 1 \in N
  <2>1. j \in Nat /\ j + 1 \in Nat
    OBVIOUS
  <2>2. ASSUME NEW p \in S, p + (j + 1) > n, p <= k + 1 PROVE WholeFrom(g, w, k, p)
    <3>1. p \in 1..n
      BY <1>1
    <3>2. ASSUME NEW q \in S, q > p, q <= k + 1 PROVE WholeFrom(g, w, k, q)
      <4>1. q \in 1..n
        BY <1>1
      <4>2. q + j > n
        BY <2>1, <2>2, <3>1, <3>2, <4>1
      <4> QED BY <3>2, <4>2
    <3> HIDE DEF N
    <3> QED BY <1>3, <2>2, <3>2, WholeStep
  <2> QED BY <2>1, <2>2
<1>6. N = Nat
  <2> HIDE DEF N
  <2> QED BY <1>4, <1>5, NatSetInduction DEF N
<1>7. n \in N
  <2> HIDE DEF N
  <2> QED BY <1>6
<1>8. 1 \in S /\ 1 + n > n /\ 1 <= k + 1
  BY <1>1 DEF ChunkStarts
<1>9. WholeFrom(g, w, k, 1)
  BY <1>7, <1>8
<1> QED BY <1>3, <1>9 DEF WholeFrom, UnitsFrom

\* A response read as good is the whole of a message that is well framed.
LEMMA ReadMeansWhole ==
  ASSUME NEW m, WellFramed(m), NEW k \in 0..Len(m.wire), NEW ended \in BOOLEAN, NEW method,
         NEW r, r = ReadResponse(m, SubSeq(m.wire, 1, k), ended, method), r.k = "ok"
  PROVE  \/ XBodyless(m, method)
         \/ m.te = "none" /\ m.lengths = {} /\ ended /\ r.body = k
         \/ k = Len(m.wire) /\ r.body = m.payload
<1>1. PICK w, t : w = m.wire /\ w \in Seq(Int) /\ t = SubSeq(w, 1, k)
  BY DEF WellFramed
<1>2. Len(t) = k /\ k \in 0..Len(w) /\ Len(w) \in Nat
  <2>1. k \in 0..Len(w) /\ Len(w) \in Nat
    BY <1>1
  <2>2. 1 \in 1..(Len(w) + 1) /\ k \in (1 - 1)..Len(w)
    BY <2>1
  <2> QED BY <1>1, <2>1, <2>2, SubSeqProperties
<1>3. XFailed.k # "ok" /\ XMore.k # "ok" /\ \A b : XOk(b).body = b /\ XOk(b).k = "ok"
  BY DEF XFailed, XMore, XOk
<1>4. r = ReadResponse(m, t, ended, method)
  BY <1>1
<1>5. ~FramingRefused(m)
  BY <1>3, <1>4 DEF ReadResponse
<1>6. SUFFICES ASSUME ~XBodyless(m, method) PROVE
         \/ m.te = "none" /\ m.lengths = {} /\ ended /\ r.body = k
         \/ k = Len(m.wire) /\ r.body = m.payload
  OBVIOUS
<1>7. CASE m.te = "chunked"
  <2>1. r = IF Len(t) > MAX_BACKEND_BODY THEN XFailed ELSE IF ended THEN ReadChunked(t) ELSE XMore
    BY <1>4, <1>5, <1>6, <1>7 DEF ReadResponse
  <2>2. r = ReadChunked(t)
    BY <1>3, <2>1
  <2>3. PICK S \in SUBSET (1..Len(w)) : ChunkStarts(w, S)
    BY <1>1, <1>7 DEF WellFramed
  <2>4. m.payload = Cardinality({i \in 1..Len(w) : w[i] = Unit})
    BY <1>1, <1>7 DEF WellFramed
  <2>5. ReadChunked(t).k = "ok" /\ S \subseteq 1..Len(w)
    BY <2>2
  <2>6. k = Len(w) /\ ReadChunked(t).body = Cardinality({i \in 1..Len(w) : w[i] = Unit})
    BY <1>1, <1>2, <2>3, <2>5, ChunkedIsWhole
  <2> QED BY <1>1, <2>2, <2>4, <2>6
<1>8. CASE m.te # "chunked"
  <2>1. m.te = "none"
    BY <1>5, <1>8 DEF FramingRefused, WellFramed
  <2>2. CASE m.lengths = {}
    <3>1. r = IF Len(t) > MAX_BACKEND_BODY THEN XFailed ELSE IF ended THEN XOk(Len(t)) ELSE XMore
      BY <1>4, <1>5, <1>6, <1>8, <2>2 DEF ReadResponse
    <3> QED BY <1>2, <1>3, <2>1, <2>2, <3>1
  <2>3. CASE m.lengths # {}
    <3>1. PICK len \in m.lengths : len = CHOOSE n \in m.lengths : TRUE
      BY <2>3
    <3>2. r = IF len > MAX_BACKEND_BODY THEN XFailed ELSE IF Len(t) >= len THEN XOk(len)
              ELSE IF ended THEN XFailed ELSE XMore
      BY <1>4, <1>5, <1>6, <1>8, <2>3, <3>1 DEF ReadResponse
    <3>3. Len(t) >= len /\ r = XOk(len)
      BY <1>3, <3>2
    <3>4. ~XBodyless(m, "GET")
      BY <1>6 DEF XBodyless
    <3>5. len = m.payload /\ Len(w) <= len /\ len \in Int
      BY <1>1, <1>5, <2>1, <3>1, <3>4 DEF WellFramed
    <3>6. k = Len(w)
      BY <1>2, <3>3, <3>5
    <3> QED BY <1>1, <1>3, <3>3, <3>5, <3>6
  <2> QED BY <2>2, <2>3
<1> QED BY <1>7, <1>8

\* The exchange's place, what has arrived, and that a result is given at the end only.
XInv ==
    /\ XContract
    /\ xin = [head |-> xin.head, toks |-> xin.toks, ended |-> xin.ended]
    /\ xin.head \in BOOLEAN /\ xin.ended \in BOOLEAN /\ xin.toks \in Nat
    /\ xin.head => xmsg \in XMessages /\ xin.toks <= Len(xmsg.wire)
    /\ ~xin.head => xin.toks = 0
    /\ xleg = [kind |-> xleg.kind, url |-> xleg.url, at |-> xleg.at]
    /\ xleg.at # "done" => xresult = XMore

\* A result that is not good promises nothing.
LEMMA NotOk == XFailed.k # "ok" /\ XMore.k # "ok"
BY DEF XFailed, XMore

\* An exchange starts with nothing sent and nothing read.
LEMMA XInitOK == XInit => XInv
<1> SUFFICES ASSUME XInit PROVE XInv
  OBVIOUS
<1>1. PICK f : f = FALSE
  OBVIOUS
<1>2. xin = [head |-> f, toks |-> 0, ended |-> f]
  BY <1>1 DEF XInit, NothingIn
<1>3. /\ xin = [head |-> xin.head, toks |-> xin.toks, ended |-> xin.ended]
      /\ xin.head = f /\ xin.ended = f /\ xin.toks = 0
  BY <1>2
<1>4. xresult.k # "ok" /\ xout = {} /\ xresult = XMore
  BY NotOk DEF XInit
<1>5. XContract
  BY <1>4 DEF XContract, XOkMeansWhole, XHopHeadersStay
<1>6. xleg = [kind |-> xleg.kind, url |-> xleg.url, at |-> xleg.at]
  BY DEF XInit
<1>7. xin.head \in BOOLEAN /\ xin.ended \in BOOLEAN /\ ~xin.head
  BY <1>1, <1>3
<1>8. xin = [head |-> xin.head, toks |-> xin.toks, ended |-> xin.ended] /\ xin.toks = 0 /\ xin.toks \in Nat
  BY <1>3
<1> QED BY <1>4, <1>5, <1>6, <1>7, <1>8 DEF XInv

\* Going on keeps the leg, and only the end gives a result.
LEMMA LegKept ==
  ASSUME XInv, NEW s, XGoTo(s)
  PROVE  xleg' = [kind |-> xleg'.kind, url |-> xleg'.url, at |-> xleg'.at] /\ xleg'.at = s
<1>1. PICK ki, ur, a : xleg = [kind |-> ki, url |-> ur, at |-> a]
  BY DEF XInv
<1>2. xleg' = [kind |-> ki, url |-> ur, at |-> s]
  BY <1>1 DEF XGoTo
<1> QED BY <1>2

\* A failure may be reported at any place.
LEMMA XFailOK ==
  ASSUME XInv, XFinish(XFailed), UNCHANGED <<xreq, xmsg, xin>>, XHopHeadersStay'
  PROVE  XInv'
<1>1. /\ xleg' = [kind |-> xleg'.kind, url |-> xleg'.url, at |-> xleg'.at] /\ xleg'.at = "done"
      /\ xresult' = XFailed
  BY LegKept DEF XFinish
<1>2. XOkMeansWhole'
  BY <1>1, NotOk DEF XOkMeansWhole
<1> QED BY <1>1, <1>2 DEF XInv, XContract

\* The request as it is written has no header of the client's own hop.
LEMMA XSendOK == ASSUME XInv, SendRequest PROVE XInv'
<1>1. UNCHANGED <<xreq, xmsg, xin>> /\ xleg.at = "new"
  BY DEF SendRequest, XAt
<1>2. XHopHeadersStay'
  <2>1. ASSUME NEW w \in xout'
        PROVE  w.names = Kept(xreq) \ {"host"} /\ w.ip = AttributedClientIp(xreq.forwarded, xreq.trust)
    <3>1. PICK na, ho, vi, ip, le :
             /\ WriteSocket(xreq) = [names |-> na, hosts |-> ho, via |-> vi, ip |-> ip, len |-> le]
             /\ na = Kept(xreq) \ {"host"} /\ ip = AttributedClientIp(xreq.forwarded, xreq.trust)
      BY DEF WriteSocket
    <3>2. PICK h : WriteUrl(xreq) = [WriteSocket(xreq) EXCEPT !.hosts = h]
      BY DEF WriteUrl
    <3>3. WriteUrl(xreq) = [names |-> na, hosts |-> h, via |-> vi, ip |-> ip, len |-> le]
      BY <3>1, <3>2
    <3>4. w = WriteSocket(xreq) \/ w = WriteUrl(xreq)
      BY <2>1 DEF SendRequest
    <3> QED BY <3>1, <3>3, <3>4
  <2>2. (Kept(xreq) \ {"host"}) \cap (SkipWhenForwarding \cup xreq.nominated) = {}
    BY DEF Kept
  <2>3. AttributedClientIp(xreq.forwarded, xreq.trust) = "forwarded" => xreq.trust = "backbone"
    BY DEF AttributedClientIp
  <2> QED BY <1>1, <2>1, <2>2, <2>3 DEF XHopHeadersStay
<1>3. CASE XFinish(XFailed)
  BY <1>1, <1>2, <1>3, XFailOK
<1>4. ASSUME NEW s, XGoTo(s), UNCHANGED xresult PROVE XInv'
  <2>1. xresult' = XMore
    BY <1>1, <1>4 DEF XInv
  <2>2. XOkMeansWhole'
    BY <2>1, NotOk DEF XOkMeansWhole
  <2>3. xleg' = [kind |-> xleg'.kind, url |-> xleg'.url, at |-> xleg'.at]
    BY <1>4, LegKept
  <2> QED BY <1>1, <1>2, <2>1, <2>2, <2>3 DEF XInv, XContract
<1> QED BY <1>3, <1>4 DEF SendRequest

\* What arrives before the result.
LEMMA XArrivesOK ==
  ASSUME XInv, XReading, UNCHANGED <<xreq, xleg, xout, xresult>>,
         NEW he \in BOOLEAN, NEW to \in Nat, NEW en \in BOOLEAN, xin' = [head |-> he, toks |-> to, ended |-> en],
         he => xmsg' \in XMessages /\ to <= Len(xmsg'.wire), ~he => to = 0
  PROVE  XInv'
<1>1. xresult' = XMore /\ xresult = XMore
  BY DEF XInv, XReading, XAt
<1>2. XOkMeansWhole'
  BY <1>1, NotOk DEF XOkMeansWhole
<1>3. XHopHeadersStay'
  BY DEF XInv, XContract, XHopHeadersStay
<1>4. xin'.head = he /\ xin'.toks = to /\ xin'.ended = en
  OBVIOUS
<1>5. xin' = [head |-> xin'.head, toks |-> xin'.toks, ended |-> xin'.ended]
  BY <1>4
<1> QED BY <1>1, <1>2, <1>3, <1>4, <1>5 DEF XInv, XContract

\* Every step of the edge and of the backend preserves the invariant.
LEMMA XNextOK == XInv /\ [XNext]_xvars => XInv'
<1> SUFFICES ASSUME XInv, [XNext]_xvars PROVE XInv'
  OBVIOUS
<1>0. PICK he, to, en : /\ xin = [head |-> he, toks |-> to, ended |-> en]
                        /\ xin.head = he /\ xin.toks = to /\ xin.ended = en
                        /\ he \in BOOLEAN /\ en \in BOOLEAN /\ to \in Nat
  BY DEF XInv
<1>1. ASSUME XFinish(XFailed), UNCHANGED <<xreq, xout, xmsg, xin>> PROVE XInv'
  <2>1. XHopHeadersStay'
    BY <1>1 DEF XInv, XContract, XHopHeadersStay
  <2> QED BY <1>1, <2>1, XFailOK
<1>2. CASE RefuseUnsafe \/ XConnectFails \/ XReadFails
  BY <1>1, <1>2 DEF RefuseUnsafe, XConnectFails, XReadFails
<1>3. CASE SendRequest
  BY <1>3, XSendOK
<1>4. ASSUME NEW m \in XMessages, BackendHead(m) PROVE XInv'
  <2>1. UNCHANGED <<xreq, xleg, xout, xresult>> /\ XReading /\ xmsg' = m /\ ~he
    BY <1>0, <1>4 DEF BackendHead
  <2>2. PICK tr \in BOOLEAN : tr = TRUE
    OBVIOUS
  <2>3. xin' = [xin EXCEPT !.head = tr]
    BY <1>4, <2>2 DEF BackendHead
  <2>4. xin' = [head |-> tr, toks |-> to, ended |-> en]
    BY <1>0, <2>3
  <2>5. to = 0
    BY <1>0, <2>1 DEF XInv
  <2>6. m.wire \in Seq(Int)
    BY MessagesAssumption DEF WellFramed
  <2>7. to <= Len(m.wire)
    BY <2>5, <2>6, LenProperties
  <2> QED BY <1>0, <2>1, <2>2, <2>4, <2>5, <2>7, XArrivesOK
<1>5. CASE BackendBytes
  <2>1. UNCHANGED <<xreq, xleg, xout, xresult, xmsg>> /\ XReading /\ he
    BY <1>0, <1>5 DEF BackendBytes
  <2>2. xmsg \in XMessages
    BY <1>0, <2>1 DEF XInv
  <2>3. PICK l \in Nat : l = Len(xmsg.wire)
    BY <2>2, MessagesAssumption, LenProperties DEF WellFramed
  <2>4. PICK n \in (to + 1)..l : xin' = [xin EXCEPT !.toks = n]
    BY <1>0, <1>5, <2>3 DEF BackendBytes
  <2>5. xin' = [head |-> he, toks |-> n, ended |-> en]
    BY <1>0, <2>4
  <2>6. n \in Nat /\ n <= l
    BY <1>0, <2>3, <2>4
  <2> QED BY <1>0, <2>1, <2>2, <2>3, <2>5, <2>6, XArrivesOK
<1>6. CASE BackendEnds
  <2>1. UNCHANGED <<xreq, xleg, xout, xresult, xmsg>> /\ XReading
    BY <1>6 DEF BackendEnds
  <2>2. PICK tr \in BOOLEAN : tr = TRUE
    OBVIOUS
  <2>3. xin' = [xin EXCEPT !.ended = tr]
    BY <1>6, <2>2 DEF BackendEnds
  <2>4. xin' = [head |-> he, toks |-> to, ended |-> tr]
    BY <1>0, <2>3
  <2>5. (he => xmsg' \in XMessages /\ to <= Len(xmsg'.wire)) /\ (~he => to = 0)
    BY <1>0, <2>1 DEF XInv
  <2> QED BY <1>0, <2>1, <2>2, <2>4, <2>5, XArrivesOK
<1>7. CASE ReadAnswer
  <2>1. UNCHANGED <<xreq, xout, xmsg, xin>>
    BY <1>7 DEF ReadAnswer
  <2>2. PICK r : /\ r = IF xin.head
                        THEN ReadResponse(xmsg, SubSeq(xmsg.wire, 1, xin.toks), xin.ended, xreq.method)
                        ELSE XFailed
                 /\ XFinish(r)
    BY <1>7 DEF ReadAnswer
  <2>3. CASE ~xin.head
    BY <1>1, <2>1, <2>2, <2>3
  <2>4. CASE xin.head
    <3>1. PICK m : m = xmsg /\ m \in XMessages /\ WellFramed(m)
      BY <2>4, MessagesAssumption DEF XInv
    <3>2. PICK l \in Nat : l = Len(m.wire)
      BY <3>1, LenProperties DEF WellFramed
    <3>3. to \in 0..Len(m.wire)
      <4>1. to <= l
        BY <1>0, <2>4, <3>1, <3>2 DEF XInv
      <4> QED BY <1>0, <3>2, <4>1
    <3>4. PICK me : me = xreq.method
      OBVIOUS
    <3>5. r = ReadResponse(m, SubSeq(m.wire, 1, to), en, me)
      BY <1>0, <2>2, <2>4, <3>1, <3>4
    <3>6. r.k = "ok" => \/ XBodyless(m, me)
                        \/ m.te = "none" /\ m.lengths = {} /\ en /\ r.body = to
                        \/ to = Len(m.wire) /\ r.body = m.payload
      BY <1>0, <3>1, <3>3, <3>5, ReadMeansWhole
    <3>7. /\ xleg' = [kind |-> xleg'.kind, url |-> xleg'.url, at |-> xleg'.at] /\ xleg'.at = "done"
          /\ xresult' = r
      BY <2>2, LegKept DEF XFinish
    <3>8. XOkMeansWhole'
      BY <1>0, <2>1, <3>1, <3>4, <3>6, <3>7 DEF XOkMeansWhole
    <3>9. XHopHeadersStay'
      BY <2>1 DEF XInv, XContract, XHopHeadersStay
    <3> QED BY <2>1, <3>7, <3>8, <3>9 DEF XInv, XContract
  <2> QED BY <2>3, <2>4
<1>8. CASE UNCHANGED xvars
  BY <1>8 DEF xvars, XInv, XContract, XOkMeansWhole, XHopHeadersStay
<1> QED BY <1>2, <1>3, <1>4, <1>5, <1>6, <1>7, <1>8 DEF XNext

\* XContract, for every request, every well-framed response and every place a backend may stop at:
\* a framed body is handed on only when all of it arrived, chunks and trailer section included, and
\* no header of the client's hop nor one its Connection names reaches the backend (m6-http
\* forward.rs).
THEOREM ForwardedIsWhole == XSpec => []XContract
<1>1. XInit => XInv
  BY XInitOK
<1>2. XInv /\ [XNext]_xvars => XInv'
  BY XNextOK
<1>3. XInv => XContract
  BY DEF XInv
<1> QED BY <1>1, <1>2, <1>3, PTL DEF XSpec

-----------------------------------------------------------------------------
(* BackendPool.  A rescan leaves one member for each socket there is, since  *)
(* what it keeps and what it adds do not meet, and a member that stays keeps *)
(* its wait.                                                                 *)

\* Strictly increasing.
Increasing(s, n) == \A i, j \in 1..n : i < j => s[i] < s[j]

\* A finite set of naturals can be listed in order: its greatest element goes last.
LEMMA OrderExists ==
  ASSUME NEW S \in SUBSET Nat, IsFiniteSet(S)
  PROVE  \E s \in [1..Cardinality(S) -> S] : Increasing(s, Cardinality(S))
<1> DEFINE U == {T \in SUBSET S : \E s \in [1..Cardinality(T) -> T] : Increasing(s, Cardinality(T))}
<1>1. {} \in U
  <2>1. Cardinality({}) = 0
    BY FS_EmptySet
  <2>2. [i \in 1..0 |-> 0] \in [1..0 -> {}] /\ Increasing([i \in 1..0 |-> 0], 0)
    BY DEF Increasing
  <2> QED BY <2>1, <2>2
<1>2. ASSUME NEW T \in SUBSET S, T # {}, \A x \in T : T \ {x} \in U PROVE T \in U
  <2>0. IsFiniteSet(T) /\ T \in SUBSET Int
    <3>1. IsFiniteSet(T)
      BY FS_Subset
    <3>2. T \in SUBSET Int
      OBVIOUS
    <3> QED BY <3>1, <3>2
  <2>1. PICK m \in T : \A x \in T : x <= m
    BY <1>2, <2>0, MaxIn
  <2>2. PICK n \in Nat : n + 1 = Cardinality(T) /\ n = Cardinality(T \ {m})
    <3>1. Cardinality(T \ {m}) = Cardinality(T) - 1 /\ IsFiniteSet(T \ {m})
      BY <2>0, FS_RemoveElement
    <3>2. Cardinality(T \ {m}) \in Nat /\ Cardinality(T) \in Nat
      BY <2>0, <3>1, FS_CardinalityType
    <3> QED BY <3>1, <3>2
  <2>3. PICK s \in [1..n -> T \ {m}] : Increasing(s, n)
    BY <1>2, <2>2
  <2> DEFINE t == [i \in 1..(n + 1) |-> IF i = n + 1 THEN m ELSE s[i]]
  <2>4. \A i \in 1..n : t[i] = s[i] /\ s[i] \in T /\ s[i] # m
    BY <2>3
  <2>5. t[n + 1] = m
    OBVIOUS
  <2>6. t \in [1..(n + 1) -> T]
    BY <2>4
  <2>7. ASSUME NEW i \in 1..(n + 1), NEW j \in 1..(n + 1), i < j PROVE t[i] < t[j]
    <3>1. i \in 1..n
      BY <2>7
    <3>2. CASE j = n + 1
      <4>1. t[i] \in T /\ t[i] # m
        BY <2>4, <3>1
      <4>2. t[i] \in Int /\ m \in Int /\ t[i] <= m
        BY <4>1, <2>0, <2>1
      <4> HIDE DEF t
      <4> QED BY <2>5, <3>2, <4>1, <4>2
    <3>3. CASE j # n + 1
      <4>1. j \in 1..n
        BY <3>3
      <4> HIDE DEF t
      <4> QED BY <2>3, <2>4, <2>7, <3>1, <4>1 DEF Increasing
    <3> QED BY <3>2, <3>3
  <2> HIDE DEF t
  <2>8. Increasing(t, n + 1)
    BY <2>7 DEF Increasing
  <2> QED BY <2>2, <2>6, <2>8
<1>3. \A T \in SUBSET S : T \in U
  <2> HIDE DEF U
  <2> QED BY <1>1, <1>2, SubsetInduction
<1> QED BY <1>3

\* s lists S, each element once.
Lists(s, n, S) ==
    /\ \A i, j \in 1..n : s[i] = s[j] => i = j
    /\ \A x \in S : \E i \in 1..n : s[i] = x

\* What glob gives lists what is there.
LEMMA GlobLists ==
  ASSUME NEW S \in SUBSET Nat, IsFiniteSet(S)
  PROVE  \E n \in Nat : \E s \in [1..n -> S] : n = Cardinality(S) /\ Glob(S) = s /\ Lists(s, n, S)
<1>1. PICK n \in Nat : n = Cardinality(S)
  BY FS_CardinalityType
<1>2. PICK s \in [1..n -> S] : Glob(S) = s /\ Increasing(s, n)
  <2>1. \E s \in [1..n -> S] : Increasing(s, n)
    BY <1>1, OrderExists
  <2>2. \E s \in [1..n -> S] : \A i, j \in DOMAIN s : i < j => s[i] < s[j]
    BY <2>1 DEF Increasing
  <2>3. /\ Glob(S) \in [1..n -> S]
        /\ \A i, j \in DOMAIN Glob(S) : i < j => Glob(S)[i] < Glob(S)[j]
    BY <1>1, <2>2 DEF Glob
  <2> QED BY <2>3 DEF Increasing
<1>3. \A i, j \in 1..n : s[i] = s[j] => i = j
  <2> SUFFICES ASSUME NEW i \in 1..n, NEW j \in 1..n, s[i] = s[j], i < j PROVE FALSE
    OBVIOUS
  <2>1. s[i] < s[j] /\ s[i] \in Nat /\ s[j] \in Nat
    BY <1>2 DEF Increasing
  <2> QED BY <2>1
<1>4. s \in Injection(1..n, S)
  BY <1>2, <1>3 DEF Injection, IsInjective
<1>5. Cardinality(1..n) = Cardinality(S)
  BY <1>1, FS_Interval
<1>6. s \in Surjection(1..n, S)
  BY <1>4, <1>5, FS_Injection
<1>7. \A x \in S : \E i \in 1..n : s[i] = x
  BY <1>6 DEF Surjection
<1> QED BY <1>1, <1>2, <1>3, <1>7 DEF Lists

\* What FoldLeft chooses for a retain.
Retaining(g, S, s) ==
    g = [t \in SUBSET DOMAIN s |->
            IF t = {} THEN <<>> ELSE KeepIn(S, g[t \ {Max(t)}], s[Max(t)])]

\* Retain is what that function gives for all members.
LEMMA RetainUnfold ==
    \A S : Retain(S) = (CHOOSE g : Retaining(g, S, members))[DOMAIN members]
BY DEF Retain, FoldLeft, MapThenFoldSet, Retaining

\* Retain as the loop it is: F[i] is what is kept of the first i members.
LEMMA RetainRun ==
  ASSUME NEW R, members \in Seq(R), NEW S
  PROVE  \E F \in [0..Len(members) -> Seq(R)] :
            /\ F[0] = <<>>
            /\ \A i \in 1..Len(members) : F[i] = KeepIn(S, F[i - 1], members[i])
            /\ Retain(S) = F[Len(members)]
<1> PICK s : s = members
  OBVIOUS
<1>0. PICK n \in Nat : n = Len(s) /\ DOMAIN s = 1..n /\ \A i \in 1..n : s[i] \in R
  BY LenProperties, ElementOfSeq
<1>1. PICK A : A = Seq(R)
  OBVIOUS
<1>2. <<>> \in A /\ \A a \in A : \A r \in R : KeepIn(S, a, r) \in A
  BY <1>1, EmptySeq, AppendProperties DEF KeepIn
<1> DEFINE G == [i \in 1..n |-> [a \in A |-> KeepIn(S, a, s[i])]]
<1>3. G \in [1..n -> [A -> A]]
  BY <1>0, <1>2
<1>4. PICK h \in [SUBSET (1..n) -> A] : Folding(h, n, <<>>, G)
  <2> HIDE DEF G
  <2>1. PICK b \in A : b = <<>>
    BY <1>2
  <2> QED BY <1>3, <2>1, FoldExists
<1>5. ASSUME NEW t \in SUBSET (1..n), t # {}
      PROVE  G[Max(t)][h[t \ {Max(t)}]] = KeepIn(S, h[t \ {Max(t)}], s[Max(t)])
  BY <1>5, <1>4, MaxOfIndices
<1>6. PICK g : Retaining(g, S, s) /\ Retain(S) = g[1..n]
  <2>1. Retaining(h, S, s)
    <3> HIDE DEF G
    <3> QED BY <1>0, <1>4, <1>5 DEF Retaining, Folding
  <2> QED BY <1>0, <2>1, RetainUnfold
<1> DEFINE F == [i \in 0..n |-> g[1..i]]
<1>7. F[0] = <<>> /\ F[n] = g[1..n]
  <2>1. 1..0 = {} /\ {} \in SUBSET (1..n)
    OBVIOUS
  <2> QED BY <2>1, <1>0, <1>6 DEF Retaining
<1>8. ASSUME NEW i \in 1..n PROVE F[i] = KeepIn(S, F[i - 1], s[i])
  <2>1. F[i] = g[1..i] /\ F[i - 1] = g[1..(i - 1)]
    OBVIOUS
  <2>2. 1..i \in SUBSET (1..n) /\ 1..i # {} /\ Max(1..i) = i /\ (1..i) \ {Max(1..i)} = 1..(i - 1)
    BY PrefixRun
  <2>3. g[1..i] = KeepIn(S, g[1..(i - 1)], s[i])
    BY <2>2, <1>0, <1>6 DEF Retaining
  <2> QED BY <2>1, <2>3
<1>9. F \in [0..n -> A]
  <2> HIDE DEF F
  <2> DEFINE T == {i \in 0..n : F[i] \in A}
  <2>1. 0 \in T
    BY <1>2, <1>7
  <2>2. ASSUME NEW i \in 1..n, i - 1 \in T PROVE i \in T
    BY <2>2, <1>0, <1>2, <1>8
  <2>3. \A i \in 0..n : i \in T
    <3> HIDE DEF T
    <3> QED BY <2>1, <2>2, IndexInduction
  <2> QED BY <2>3 DEF F
<1> QED BY <1>0, <1>1, <1>6, <1>7, <1>8, <1>9

\* No two members with one path.
OnePerPath(s) == \A i, j \in 1..Len(s) : s[i].path = s[j].path => i = j

\* c has, of the first k members of s, those with a path in S.
Retained(c, s, S, k) ==
    /\ \A l \in 1..Len(c) : \E i \in 1..k : c[l] = s[i] /\ s[i].path \in S
    /\ \A i \in 1..k : s[i].path \in S => \E l \in 1..Len(c) : c[l] = s[i]

\* A sequence and one element more.
LEMMA AppendedIs ==
  ASSUME NEW R, NEW a \in Seq(R), NEW r \in R, NEW c, c = Append(a, r)
  PROVE  Len(c) = Len(a) + 1 /\ (\A i \in 1..Len(a) : c[i] = a[i]) /\ c[Len(a) + 1] = r
BY AppendProperties

\* One round of the loop.
LEMMA RetainStep ==
  ASSUME NEW R, NEW s \in Seq(R), OnePerPath(s), NEW S, NEW k \in 1..Len(s),
         NEW a \in Seq(R), Retained(a, s, S, k - 1), OnePerPath(a)
  PROVE  Retained(KeepIn(S, a, s[k]), s, S, k) /\ OnePerPath(KeepIn(S, a, s[k]))
<1>1. PICK m \in Nat : m = Len(a)
  BY LenProperties
<1>2. PICK n \in Nat : n = Len(s)
  BY LenProperties
<1>3. PICK r \in R : r = s[k]
  BY ElementOfSeq
<1>4. CASE r.path \in S
  <2>1. PICK c : c = Append(a, r) /\ c = KeepIn(S, a, s[k])
    BY <1>3, <1>4 DEF KeepIn
  <2>2. Len(c) = m + 1 /\ (\A i \in 1..m : c[i] = a[i]) /\ c[m + 1] = r
    <3>1. Len(c) = Len(a) + 1 /\ (\A i \in 1..Len(a) : c[i] = a[i]) /\ c[Len(a) + 1] = r
      BY <2>1, AppendedIs
    <3> QED BY <1>1, <3>1
  <2>3. ASSUME NEW l \in 1..(m + 1) PROVE \E i \in 1..k : c[l] = s[i] /\ s[i].path \in S
    <3>1. CASE l = m + 1
      BY <1>2, <1>3, <1>4, <2>2, <3>1
    <3>2. CASE l \in 1..m
      <4>1. PICK i \in 1..(k - 1) : a[l] = s[i] /\ s[i].path \in S
        BY <1>1, <3>2 DEF Retained
      <4>2. i \in 1..k
        BY <1>2
      <4> QED BY <2>2, <3>2, <4>1, <4>2
    <3> QED BY <3>1, <3>2
  <2>4. ASSUME NEW i \in 1..k, s[i].path \in S PROVE \E l \in 1..(m + 1) : c[l] = s[i]
    <3>1. CASE i = k
      <4>1. m + 1 \in 1..(m + 1)
        OBVIOUS
      <4> QED BY <1>3, <2>2, <3>1, <4>1
    <3>2. CASE i # k
      <4>1. i \in 1..(k - 1)
        BY <1>2, <3>2
      <4>2. PICK l \in 1..m : a[l] = s[i]
        BY <1>1, <2>4, <4>1 DEF Retained
      <4>3. l \in 1..(m + 1)
        OBVIOUS
      <4> QED BY <2>2, <4>2, <4>3
    <3> QED BY <3>1, <3>2
  <2>5. ASSUME NEW l \in 1..m PROVE a[l].path # r.path
    <3>1. PICK i \in 1..(k - 1) : a[l] = s[i]
      BY <1>1 DEF Retained
    <3>2. i \in 1..n /\ k \in 1..n /\ i # k
      BY <1>2
    <3> QED BY <1>2, <1>3, <3>1, <3>2 DEF OnePerPath
  <2>6. ASSUME NEW i \in 1..(m + 1), NEW j \in 1..(m + 1), c[i].path = c[j].path PROVE i = j
    <3>1. CASE i \in 1..m /\ j \in 1..m
      BY <1>1, <2>2, <2>6, <3>1 DEF OnePerPath
    <3>2. CASE i = m + 1 /\ j \in 1..m
      BY <2>2, <2>5, <2>6, <3>2
    <3>3. CASE j = m + 1 /\ i \in 1..m
      BY <2>2, <2>5, <2>6, <3>3
    <3>4. CASE i = m + 1 /\ j = m + 1
      BY <3>4
    <3> QED BY <3>1, <3>2, <3>3, <3>4
  <2>7. Retained(c, s, S, k) /\ OnePerPath(c)
    BY <2>2, <2>3, <2>4, <2>6 DEF Retained, OnePerPath
  <2> QED BY <2>1, <2>7
<1>5. CASE r.path \notin S
  <2>1. KeepIn(S, a, s[k]) = a
    BY <1>3, <1>5 DEF KeepIn
  <2>2. ASSUME NEW l \in 1..m PROVE \E i \in 1..k : a[l] = s[i] /\ s[i].path \in S
    <3>1. PICK i \in 1..(k - 1) : a[l] = s[i] /\ s[i].path \in S
      BY <1>1 DEF Retained
    <3>2. i \in 1..k
      BY <1>2
    <3> QED BY <3>1, <3>2
  <2>3. ASSUME NEW i \in 1..k, s[i].path \in S PROVE \E l \in 1..m : a[l] = s[i]
    <3>1. i # k
      BY <1>3, <1>5, <2>3
    <3>2. i \in 1..(k - 1)
      BY <1>2, <3>1
    <3> QED BY <1>1, <2>3, <3>2 DEF Retained
  <2>4. Retained(a, s, S, k)
    BY <1>1, <2>2, <2>3 DEF Retained
  <2> QED BY <2>1, <2>4
<1> QED BY <1>4, <1>5

\* What a retain leaves.
LEMMA RetainOK ==
  ASSUME NEW R, members \in Seq(R), OnePerPath(members), NEW S
  PROVE  /\ Retain(S) \in Seq(R) /\ OnePerPath(Retain(S))
         /\ Retained(Retain(S), members, S, Len(members))
<1> PICK s : s = members
  OBVIOUS
<1>0. PICK n \in Nat : n = Len(s)
  BY LenProperties
<1>1. PICK F \in [0..n -> Seq(R)] :
            F[0] = <<>> /\ (\A i \in 1..n : F[i] = KeepIn(S, F[i - 1], s[i])) /\ Retain(S) = F[n]
  <2>1. PICK F \in [0..Len(members) -> Seq(R)] :
            /\ F[0] = <<>>
            /\ \A i \in 1..Len(members) : F[i] = KeepIn(S, F[i - 1], members[i])
            /\ Retain(S) = F[Len(members)]
    BY RetainRun
  <2> QED BY <1>0, <2>1
<1> DEFINE T == {i \in 0..n : Retained(F[i], s, S, i) /\ OnePerPath(F[i])}
<1>2. 0 \in T
  <2>1. Len(<<>>) = 0
    OBVIOUS
  <2>2. Retained(<<>>, s, S, 0) /\ OnePerPath(<<>>)
    BY <2>1 DEF Retained, OnePerPath
  <2> QED BY <1>1, <2>2
<1>3. ASSUME NEW i \in 1..n, i - 1 \in T PROVE i \in T
  <2>1. PICK a \in Seq(R) : a = F[i - 1]
    BY <1>1
  <2>2. Retained(a, s, S, i - 1) /\ OnePerPath(a) /\ F[i] = KeepIn(S, a, s[i])
    BY <1>1, <1>3, <2>1
  <2>3. Retained(F[i], s, S, i) /\ OnePerPath(F[i])
    BY <1>0, <2>2, RetainStep
  <2> QED BY <2>3
<1>4. n \in T
  <2> HIDE DEF T
  <2>1. \A i \in 0..n : i \in T
    BY <1>2, <1>3, IndexInduction
  <2> QED BY <2>1
<1>5. F[n] \in Seq(R)
  BY <1>1
<1> QED BY <1>0, <1>1, <1>4, <1>5

\* A member between requests.
PoolMember == [path : Sockets, connections : {0}, retry : {t \in Int : t <= MAX_BACKOFF}, failures : Nat]

\* The pool between requests: a member per path, none of them holding a connection.
PoolInv ==
    /\ present \in SUBSET Sockets
    /\ members \in Seq(PoolMember) /\ OnePerPath(members)
    /\ rescanIn \in Nat

\* c has one new member for each path of S.
NewFor(c, S) ==
    /\ c \in Seq(PoolMember) /\ OnePerPath(c) /\ Len(c) = Cardinality(S)
    /\ \A i \in 1..Len(c) : c[i].path \in S
    /\ \A x \in S : \E i \in 1..Len(c) : c[i].path = x

\* Building a pool, or what a rescan adds to it.
LEMMA NewMembersOK ==
  ASSUME NEW S \in SUBSET Sockets
  PROVE  NewFor(NewMembers(S), S)
<1>0. S \in SUBSET Nat /\ IsFiniteSet(S)
  <2>1. S \in SUBSET Nat
    BY PoolAssumption
  <2>2. IsFiniteSet(S)
    BY PoolAssumption, FS_Subset
  <2> QED BY <2>1, <2>2
<1>1. PICK n \in Nat : \E s \in [1..n -> S] : n = Cardinality(S) /\ Glob(S) = s /\ Lists(s, n, S)
  BY <1>0, GlobLists
<1>2. PICK s \in [1..n -> S] : n = Cardinality(S) /\ Glob(S) = s /\ Lists(s, n, S)
  BY <1>1
<1>3. \A x \in Sockets : Member(x) \in PoolMember /\ Member(x).path = x
  BY PoolAssumption DEF Member, PoolMember
<1>4. PICK c : c = [i \in 1..n |-> Member(s[i])] /\ c = NewMembers(S)
  BY <1>2 DEF NewMembers
<1>5. \A i \in 1..n : c[i] \in PoolMember /\ c[i].path = s[i] /\ s[i] \in S
  BY <1>2, <1>3, <1>4
<1>6. c \in [1..n -> PoolMember]
  BY <1>4, <1>5
<1>7. c \in Seq(PoolMember) /\ Len(c) = n
  BY <1>6
<1>8. OnePerPath(c)
  BY <1>2, <1>5, <1>7 DEF OnePerPath, Lists
<1>9. \A x \in S : \E i \in 1..n : c[i].path = x
  BY <1>2, <1>5 DEF Lists
<1> QED BY <1>2, <1>4, <1>5, <1>7, <1>8, <1>9 DEF NewFor

\* The pool is built with one member for each socket.
LEMMA PoolInitOK == PoolInit => PoolInv
<1> SUFFICES ASSUME PoolInit PROVE PoolInv
  OBVIOUS
<1>1. NewFor(members, present)
  BY NewMembersOK DEF PoolInit
<1> QED BY <1>1, PoolAssumption DEF PoolInit, PoolInv, NewFor

\* s with r in its k-th place.
PutMember(s, k, r) == [s EXCEPT ![k] = r]

\* One member changes and keeps its path.
LEMMA ChangedMember ==
  ASSUME NEW s \in Seq(PoolMember), OnePerPath(s), NEW k \in 1..Len(s), NEW r \in PoolMember,
         r.path = s[k].path, NEW c, c = PutMember(s, k, r)
  PROVE  /\ c \in Seq(PoolMember) /\ OnePerPath(c) /\ Len(c) = Len(s) /\ c[k] = r
         /\ \A i \in 1..Len(s) : i # k => c[i] = s[i]
<1>1. PICK n \in Nat : n = Len(s) /\ DOMAIN s = 1..n /\ \A i \in 1..n : s[i] \in PoolMember
  BY LenProperties, ElementOfSeq
<1>2. c[k] = r /\ DOMAIN c = 1..n /\ \A i \in 1..n : i # k => c[i] = s[i]
  BY <1>1 DEF PutMember
<1>3. c \in [1..n -> PoolMember]
  BY <1>1 DEF PutMember
<1>4. c \in Seq(PoolMember) /\ Len(c) = n
  BY <1>3
<1>5. \A i \in 1..n : c[i].path = s[i].path
  BY <1>1, <1>2
<1>6. OnePerPath(c)
  BY <1>1, <1>4, <1>5 DEF OnePerPath
<1> QED BY <1>1, <1>2, <1>4, <1>6

\* Between its pick and its release or failure a member holds one connection.
LEMMA GivenBack ==
  ASSUME NEW m \in PoolMember, NEW t, t = [m EXCEPT !.connections = @ + 1]
  PROVE  /\ Released(t) \in PoolMember /\ Released(t).path = m.path /\ Released(t).retry = m.retry
         /\ Failed(t) \in PoolMember /\ Failed(t).path = m.path
<1>1. PICK p \in Sockets, d \in Int, f \in Nat :
         d <= MAX_BACKOFF /\ m = [path |-> p, connections |-> 0, retry |-> d, failures |-> f]
  BY DEF PoolMember
<1>2. t = [path |-> p, connections |-> 1, retry |-> d, failures |-> f]
  BY <1>1
<1>a. t.connections = 1 /\ t.failures = f
  BY <1>2
<1>b. (IF t.connections > 0 THEN t.connections - 1 ELSE 0) = 0
  BY <1>a
<1>3. Released(t) = m
  <2>1. Released(t) = [t EXCEPT !.connections = 0]
    BY <1>b DEF Released
  <2> QED BY <1>1, <1>2, <2>1
<1>4. PICK b \in Int : b = Backoff(f + 1) /\ b <= MAX_BACKOFF
  <2>1. f + 1 - 1 \in Nat
    BY <1>1
  <2>2. 2 ^ (f + 1 - 1) \in Int
    BY <2>1
  <2> QED BY <2>1, <2>2, PoolAssumption DEF Backoff
<1>5. Failed(t) = [path |-> p, connections |-> 0, retry |-> b, failures |-> f + 1]
  <2>1. Failed(t) = [t EXCEPT !.connections = 0, !.failures = f + 1, !.retry = b]
    BY <1>a, <1>b, <1>4 DEF Failed
  <2>2. PICK u : u = [t EXCEPT !.connections = 0]
    OBVIOUS
  <2>3. PICK v : v = [u EXCEPT !.failures = f + 1]
    OBVIOUS
  <2>4. Failed(t) = [v EXCEPT !.retry = b]
    BY <2>1, <2>2, <2>3
  <2>5. u = [path |-> p, connections |-> 0, retry |-> d, failures |-> f]
    BY <1>2, <2>2
  <2>6. v = [path |-> p, connections |-> 0, retry |-> d, failures |-> f + 1]
    BY <2>3, <2>5
  <2> QED BY <2>4, <2>6
<1> QED BY <1>1, <1>3, <1>4, <1>5 DEF PoolMember

\* The members of s on the paths P that wait still wait in c.
StillWaits(s, c, P) ==
    \A i \in 1..Len(s) :
        s[i].path \in P /\ s[i].retry > 0 =>
            \E j \in 1..Len(c) : c[j].path = s[i].path /\ c[j].retry >= s[i].retry - 1

\* Members that are there as they were still wait.
LEMMA SameWaits ==
  ASSUME NEW s \in Seq(PoolMember), NEW c, NEW P,
         \A i \in 1..Len(s) : s[i].path \in P /\ s[i].retry > 0 => \E j \in 1..Len(c) : c[j] = s[i]
  PROVE  StillWaits(s, c, P)
<1>1. ASSUME NEW i \in 1..Len(s), s[i].path \in P, s[i].retry > 0
      PROVE  \E j \in 1..Len(c) : c[j].path = s[i].path /\ c[j].retry >= s[i].retry - 1
  <2>1. PICK j \in 1..Len(c) : c[j] = s[i]
    BY <1>1
  <2>2. s[i] \in PoolMember
    BY ElementOfSeq
  <2>3. s[i].retry \in Int
    BY <2>2 DEF PoolMember
  <2> QED BY <2>1, <2>3
<1> QED BY <1>1 DEF StillWaits

\* What every step of the pool does.
PoolStep ==
    /\ members' \in Seq(PoolMember) /\ OnePerPath(members')
    /\ \/ StillWaits(members, members', present)
       \/ Rebuild
       \/ \E p \in Sockets : HandlesDeleted(p) /\ StillWaits(members, members', present \ {p})

\* The directory's events, in their order.
EventsTyped == events \in Seq([path : Sockets, kind : {"SocketCreated", "SocketDeleted"}])

\* The last event about a socket whose last change was not lost tells of that change.
LastIsTrue ==
    \A i \in 1..Len(events) :
        /\ events[i].path \notin lost
        /\ \A j \in 1..Len(events) : j > i => events[j].path # events[i].path
        => events[i].kind = (IF events[i].path \in present THEN "SocketCreated" ELSE "SocketDeleted")

\* Events, members and directory.
EventsInv == EventsTyped /\ LastIsTrue /\ EventsConverge

\* The paths of a pool.
LEMMA PathsAre ==
  ASSUME PoolInv
  PROVE  SocketPaths = {members[i].path : i \in 1..Len(members)}
<1>1. DOMAIN members = 1..Len(members)
  BY LenProperties DEF PoolInv
<1> QED BY <1>1 DEF SocketPaths

\* The same of the next state, where each member keeps its place.
LEMMA PathsStay ==
  ASSUME PoolInv, members' \in Seq(PoolMember), Len(members') = Len(members),
         \A i \in 1..Len(members) : members'[i].path = members[i].path
  PROVE  SocketPaths' = SocketPaths
<1>1. DOMAIN members' = 1..Len(members)
  BY LenProperties
<1>2. SocketPaths' = {members'[i].path : i \in DOMAIN members'}
  BY DEF SocketPaths
<1> QED BY <1>1, <1>2, PathsAre

\* A request picks a member that does not wait, and gives it back.
LEMMA ForwardOK ==
  ASSUME PoolInv, ForwardOk \/ ForwardFails
  PROVE  PoolStep /\ SocketPaths' = SocketPaths
<1> PICK s : s = members
  OBVIOUS
<1> PICK c : c = members'
  OBVIOUS
<1>0. s \in Seq(PoolMember) /\ OnePerPath(s) /\ DOMAIN s = 1..Len(s) /\ DOMAIN members = 1..Len(s)
  BY LenProperties DEF PoolInv
<1>1. CASE c = s
  <2>1. StillWaits(s, c, present)
    BY <1>0, <1>1, SameWaits
  <2>2. SocketPaths' = SocketPaths
    BY <1>1 DEF SocketPaths
  <2> QED BY <1>0, <1>1, <2>1, <2>2 DEF PoolStep
<1>2. CASE c # s
  <2>1. PICK k \in 1..Len(s) : /\ s[k].retry = 0
                               /\ \/ c = [s EXCEPT ![k] = Released(Taken(k))]
                                  \/ c = [s EXCEPT ![k] = Failed(Taken(k))]
    <3>1. CASE ForwardOk
      BY <1>0, <3>1 DEF ForwardOk, Picks, Available
    <3>2. CASE ForwardFails
      BY <1>0, <1>2, <3>2 DEF ForwardFails, Picks, Available
    <3> QED BY <3>1, <3>2
  <2>2. s[k] \in PoolMember
    BY <1>0, ElementOfSeq
  <2>3. PICK t : t = Taken(k) /\ t = [s[k] EXCEPT !.connections = @ + 1]
    BY DEF Taken
  <2>4. PICK r \in PoolMember : r.path = s[k].path /\ c = [s EXCEPT ![k] = r]
    BY <2>1, <2>2, <2>3, GivenBack
  <2>5. /\ c \in Seq(PoolMember) /\ OnePerPath(c) /\ Len(c) = Len(s) /\ c[k] = r
        /\ \A i \in 1..Len(s) : i # k => c[i] = s[i]
    <3>1. s \in Seq(PoolMember) /\ OnePerPath(s)
      BY <1>0
    <3>2. r.path = s[k].path /\ c = PutMember(s, k, r)
      BY <2>4 DEF PutMember
    <3> QED BY <3>1, <3>2, ChangedMember
  <2>6. ASSUME NEW i \in 1..Len(s), s[i].retry > 0 PROVE \E j \in 1..Len(c) : c[j] = s[i]
    BY <2>1, <2>5, <2>6
  <2>7. StillWaits(s, c, present)
    BY <1>0, <2>6, SameWaits
  <2>8. \A i \in 1..Len(s) : c[i].path = s[i].path
    BY <2>4, <2>5
  <2>9. SocketPaths' = SocketPaths
    BY <2>5, <2>8, PathsStay
  <2> QED BY <2>5, <2>7, <2>9 DEF PoolStep
<1> QED BY <1>1, <1>2

\* An event takes its own socket out, or adds it.
LEMMA EventOK ==
  ASSUME PoolInv, EventsTyped, HandleFsEvent
  PROVE  /\ PoolStep
         /\ Head(events).kind = "SocketCreated" => SocketPaths' = SocketPaths \cup {Head(events).path}
         /\ Head(events).kind = "SocketDeleted" => SocketPaths' = SocketPaths \ {Head(events).path}
<1> PICK s : s = members
  OBVIOUS
<1> PICK c : c = members'
  OBVIOUS
<1> PICK P : P = present
  OBVIOUS
<1>0. s \in Seq(PoolMember) /\ OnePerPath(s) /\ DOMAIN s = 1..Len(s)
  BY LenProperties DEF PoolInv
<1>1. SocketPaths = {s[i].path : i \in 1..Len(s)}
  BY <1>0 DEF SocketPaths
<1>5. PICK e \in [path : Sockets, kind : {"SocketCreated", "SocketDeleted"}] : e = Head(events)
  BY HeadTailProperties DEF HandleFsEvent, EventsTyped
<1>6. PICK p \in Sockets : p = e.path
  OBVIOUS
<1>2. CASE e.kind = "SocketDeleted"
  <2>1. c = Retain(SocketPaths \ {p})
    BY <1>2, <1>5, <1>6 DEF HandleFsEvent, Without
  <2>2. /\ c \in Seq(PoolMember) /\ OnePerPath(c)
        /\ Retained(c, s, SocketPaths \ {p}, Len(s))
    BY <1>0, <2>1, RetainOK
  <2>3. ASSUME NEW i \in 1..Len(s), s[i].path \in P \ {p} PROVE \E j \in 1..Len(c) : c[j] = s[i]
    <3>1. s[i].path \in SocketPaths \ {p}
      BY <1>1, <2>3
    <3> QED BY <2>2, <3>1 DEF Retained
  <2>4. StillWaits(s, c, P \ {p})
    BY <1>0, <2>3, SameWaits
  <2>5. HandlesDeleted(p)
    <3>1. e = [path |-> p, kind |-> "SocketDeleted"]
      BY <1>2, <1>6
    <3> QED BY <1>5, <3>1 DEF HandlesDeleted, HandleFsEvent, FsEvent
  <2>6. PoolStep
    BY <2>2, <2>4, <2>5 DEF PoolStep
  <2>7. DOMAIN c = 1..Len(c)
    BY <2>2, LenProperties
  <2>8. ASSUME NEW x PROVE x \in {c[j].path : j \in 1..Len(c)} <=> x \in SocketPaths \ {p}
    <3>1. ASSUME NEW j \in 1..Len(c) PROVE c[j].path \in SocketPaths \ {p}
      BY <2>2 DEF Retained
    <3>2. ASSUME x \in SocketPaths \ {p} PROVE \E j \in 1..Len(c) : c[j].path = x
      <4>1. PICK i \in 1..Len(s) : s[i].path = x
        BY <1>1, <3>2
      <4>2. PICK j \in 1..Len(c) : c[j] = s[i]
        BY <2>2, <3>2, <4>1 DEF Retained
      <4> QED BY <4>1, <4>2
    <3> QED BY <3>1, <3>2
  <2>9. SocketPaths' = SocketPaths \ {p}
    BY <2>7, <2>8 DEF SocketPaths
  <2> QED BY <1>2, <1>5, <1>6, <2>6, <2>9
<1>3. CASE e.kind = "SocketCreated" /\ p \in SocketPaths
  <2>1. c = s
    BY <1>3, <1>5, <1>6 DEF HandleFsEvent, Appeared
  <2>2. StillWaits(s, c, P)
    BY <1>0, <2>1, SameWaits
  <2>3. SocketPaths' = SocketPaths
    BY <2>1 DEF SocketPaths
  <2> QED BY <1>0, <1>3, <1>5, <1>6, <2>1, <2>2, <2>3 DEF PoolStep
<1>4. CASE e.kind = "SocketCreated" /\ p \notin SocketPaths
  <2>1. PICK r \in PoolMember : r.path = p /\ c = Append(s, r)
    <3>1. c = Append(s, Member(p))
      BY <1>4, <1>5, <1>6 DEF HandleFsEvent, Appeared
    <3>2. Member(p) \in PoolMember /\ Member(p).path = p
      BY PoolAssumption DEF Member, PoolMember
    <3> QED BY <3>1, <3>2
  <2>2. Len(c) = Len(s) + 1 /\ (\A i \in 1..Len(s) : c[i] = s[i]) /\ c[Len(s) + 1] = r
    BY <1>0, <2>1, AppendedIs
  <2>3. c \in Seq(PoolMember)
    BY <1>0, <2>1, AppendProperties
  <2>4. PICK n \in Nat : n = Len(s)
    BY <1>0, LenProperties
  <2>5. \A i \in 1..n : s[i].path # r.path
    BY <1>1, <1>4, <2>1, <2>4
  <2>6. ASSUME NEW i \in 1..(n + 1), NEW j \in 1..(n + 1), c[i].path = c[j].path PROVE i = j
    <3>1. CASE i \in 1..n /\ j \in 1..n
      BY <1>0, <2>2, <2>4, <2>6, <3>1 DEF OnePerPath
    <3>2. CASE i = n + 1 /\ j \in 1..n
      BY <2>2, <2>4, <2>5, <2>6, <3>2
    <3>3. CASE j = n + 1 /\ i \in 1..n
      BY <2>2, <2>4, <2>5, <2>6, <3>3
    <3>4. CASE i = n + 1 /\ j = n + 1
      BY <3>4
    <3> QED BY <3>1, <3>2, <3>3, <3>4
  <2>7. OnePerPath(c)
    BY <2>2, <2>4, <2>6 DEF OnePerPath
  <2>8. \A i \in 1..n : i \in 1..Len(c) /\ c[i] = s[i]
    BY <2>2, <2>4
  <2>9. StillWaits(s, c, P)
    BY <1>0, <2>4, <2>8, SameWaits
  <2>10. PoolStep
    BY <2>3, <2>7, <2>9 DEF PoolStep
  <2>11. DOMAIN c = 1..(n + 1)
    BY <2>2, <2>3, <2>4, LenProperties
  <2>12. ASSUME NEW x PROVE x \in {c[j].path : j \in 1..(n + 1)} <=> x \in SocketPaths \cup {p}
    <3>1. ASSUME NEW j \in 1..(n + 1) PROVE c[j].path \in SocketPaths \cup {p}
      <4>1. CASE j = n + 1
        BY <2>1, <2>2, <2>4, <4>1
      <4>2. CASE j \in 1..n
        BY <1>1, <2>2, <2>4, <4>2
      <4> QED BY <4>1, <4>2
    <3>2. ASSUME x \in SocketPaths PROVE \E j \in 1..(n + 1) : c[j].path = x
      <4>1. PICK i \in 1..n : s[i].path = x
        BY <1>1, <2>4, <3>2
      <4>2. i \in 1..(n + 1)
        OBVIOUS
      <4> QED BY <2>2, <2>4, <4>1, <4>2
    <3>3. c[n + 1].path = p /\ n + 1 \in 1..(n + 1)
      BY <2>1, <2>2, <2>4
    <3> QED BY <3>1, <3>2, <3>3
  <2>13. SocketPaths' = SocketPaths \cup {p}
    BY <2>11, <2>12 DEF SocketPaths
  <2> QED BY <1>4, <1>5, <1>6, <2>10, <2>13
<1> QED BY <1>2, <1>3, <1>4

\* A rescan keeps the members whose socket is there and adds one for each other socket.
LEMMA RescanOK ==
  ASSUME PoolInv, Rescan
  PROVE  /\ PoolStep
         /\ {members'[i].path : i \in DOMAIN members'} = present
         /\ Len(members') = Cardinality(present)
<1> PICK s : s = members
  OBVIOUS
<1> PICK c : c = members'
  OBVIOUS
<1> PICK P : P = present
  OBVIOUS
<1>0. s \in Seq(PoolMember) /\ OnePerPath(s) /\ DOMAIN s = 1..Len(s) /\ P \in SUBSET Sockets
  BY LenProperties DEF PoolInv
<1>1. SocketPaths = {s[i].path : i \in 1..Len(s)}
  BY <1>0 DEF SocketPaths
<1>2. PICK a \in Seq(PoolMember) : a = Retain(P) /\ OnePerPath(a) /\ Retained(a, s, P, Len(s))
  BY <1>0, RetainOK
<1>3. PICK b : b = NewMembers(P \ SocketPaths) /\ NewFor(b, P \ SocketPaths)
  BY <1>0, NewMembersOK
<1>4. c = a \o b
  BY <1>2, <1>3 DEF Rescan
<1>5. PICK n \in Nat, m \in Nat : n = Len(a) /\ m = Len(b)
  BY <1>2, <1>3, LenProperties DEF NewFor
<1>6. /\ c \in Seq(PoolMember) /\ Len(c) = n + m
      /\ \A i \in 1..n : c[i] = a[i]
      /\ \A i \in 1..m : c[n + i] = b[i]
  <2>1. b \in Seq(PoolMember)
    BY <1>3 DEF NewFor
  <2>2. c \in Seq(PoolMember) /\ Len(c) = Len(a) + Len(b)
    BY <1>2, <1>4, <2>1, ConcatProperties
  <2>3. \A i \in 1..(Len(a) + Len(b)) : c[i] = IF i <= Len(a) THEN a[i] ELSE b[i - Len(a)]
    BY <1>2, <1>4, <2>1, ConcatProperties
  <2>4. ASSUME NEW i \in 1..n PROVE c[i] = a[i]
    <3>1. i \in 1..(n + m) /\ i <= n
      OBVIOUS
    <3> QED BY <1>5, <2>3, <3>1
  <2>5. ASSUME NEW i \in 1..m PROVE c[n + i] = b[i]
    <3>1. n + i \in 1..(n + m) /\ ~(n + i <= n) /\ n + i - n = i
      OBVIOUS
    <3> QED BY <1>5, <2>3, <3>1
  <2> QED BY <1>5, <2>2, <2>4, <2>5
<1>7. \A i \in 1..n : \E k \in 1..Len(s) : a[i] = s[k] /\ s[k].path \in P
  BY <1>2, <1>5 DEF Retained
<1>8. \A i \in 1..m : b[i].path \in P \ SocketPaths
  BY <1>3, <1>5 DEF NewFor
<1>9. \A i \in 1..n : a[i].path \in P /\ a[i].path \in SocketPaths
  BY <1>1, <1>7
<1>10. ASSUME NEW i \in 1..(n + m) PROVE c[i].path \in P
  <2>1. CASE i \in 1..n
    BY <1>6, <1>9, <2>1
  <2>2. CASE i \notin 1..n
    <3>1. i - n \in 1..m /\ i = n + (i - n)
      BY <2>2
    <3> QED BY <1>6, <1>8, <3>1
  <2> QED BY <2>1, <2>2
<1>11. ASSUME NEW i \in 1..(n + m), NEW j \in 1..(n + m), c[i].path = c[j].path PROVE i = j
  <2>1. CASE i \in 1..n /\ j \in 1..n
    BY <1>2, <1>5, <1>6, <1>11, <2>1 DEF OnePerPath
  <2>2. CASE i \in 1..n /\ j \notin 1..n
    <3>1. j - n \in 1..m /\ j = n + (j - n)
      BY <2>2
    <3>2. c[i].path \in SocketPaths
      BY <1>6, <1>9, <2>2
    <3>3. c[j].path \notin SocketPaths
      BY <1>6, <1>8, <3>1
    <3> QED BY <1>11, <3>2, <3>3
  <2>3. CASE j \in 1..n /\ i \notin 1..n
    <3>1. i - n \in 1..m /\ i = n + (i - n)
      BY <2>3
    <3>2. c[j].path \in SocketPaths
      BY <1>6, <1>9, <2>3
    <3>3. c[i].path \notin SocketPaths
      BY <1>6, <1>8, <3>1
    <3> QED BY <1>11, <3>2, <3>3
  <2>4. CASE i \notin 1..n /\ j \notin 1..n
    <3>1. i - n \in 1..m /\ i = n + (i - n) /\ j - n \in 1..m /\ j = n + (j - n)
      BY <2>4
    <3>2. b[i - n].path = b[j - n].path
      BY <1>6, <1>11, <3>1
    <3>3. i - n = j - n
      BY <1>3, <1>5, <3>1, <3>2 DEF NewFor, OnePerPath
    <3> QED BY <3>1, <3>3
  <2> QED BY <2>1, <2>2, <2>3, <2>4
<1>12. ASSUME NEW x \in P PROVE \E i \in 1..(n + m) : c[i].path = x
  <2>1. CASE x \in SocketPaths
    <3>1. PICK k \in 1..Len(s) : s[k].path = x
      BY <1>1, <2>1
    <3>2. PICK i \in 1..n : a[i] = s[k]
      BY <1>2, <1>5, <3>1 DEF Retained
    <3>3. i \in 1..(n + m)
      OBVIOUS
    <3> QED BY <1>6, <3>1, <3>2, <3>3
  <2>2. CASE x \notin SocketPaths
    <3>1. PICK i \in 1..m : b[i].path = x
      BY <1>3, <1>5, <2>2 DEF NewFor
    <3>2. n + i \in 1..(n + m)
      OBVIOUS
    <3> QED BY <1>6, <3>1, <3>2
  <2> QED BY <2>1, <2>2
<1>13. {c[i].path : i \in DOMAIN c} = P
  <2>1. DOMAIN c = 1..(n + m)
    BY <1>6, LenProperties
  <2> QED BY <1>10, <1>12, <2>1
<1>14. n + m = Cardinality(P)
  <2> DEFINE f == [i \in 1..(n + m) |-> c[i].path]
  <2>1. f \in [1..(n + m) -> P] /\ \A i \in 1..(n + m) : f[i] = c[i].path
    BY <1>10
  <2> HIDE DEF f
  <2>2. \A i, j \in 1..(n + m) : f[i] = f[j] => i = j
    BY <1>11, <2>1
  <2>3. \A x \in P : \E i \in 1..(n + m) : f[i] = x
    BY <1>12, <2>1
  <2>4. f \in Bijection(1..(n + m), P)
    BY <2>1, <2>2, <2>3 DEF Bijection, Injection, Surjection, IsInjective
  <2>5. IsFiniteSet(1..(n + m)) /\ Cardinality(1..(n + m)) = n + m
    BY FS_Interval
  <2> QED BY <2>4, <2>5, FS_Bijection DEF ExistsBijection
<1>15. ASSUME NEW i \in 1..Len(s), s[i].path \in P PROVE \E j \in 1..Len(c) : c[j] = s[i]
  <2>1. PICK j \in 1..n : a[j] = s[i]
    BY <1>2, <1>5, <1>15 DEF Retained
  <2>2. j \in 1..Len(c)
    BY <1>6
  <2> QED BY <1>6, <2>1, <2>2
<1>16. StillWaits(s, c, P)
  BY <1>0, <1>15, SameWaits
<1>17. OnePerPath(c)
  BY <1>6, <1>11 DEF OnePerPath
<1> QED BY <1>6, <1>13, <1>14, <1>16, <1>17 DEF PoolStep

\* A second passes for every member.
LEMMA PoolClockOK == ASSUME PoolInv, PoolClock PROVE PoolStep /\ SocketPaths' = SocketPaths
<1> PICK s : s = members
  OBVIOUS
<1> PICK c : c = members'
  OBVIOUS
<1>0. PICK n \in Nat : n = Len(s) /\ DOMAIN s = 1..n /\ OnePerPath(s) /\ \A i \in 1..n : s[i] \in PoolMember
  BY LenProperties, ElementOfSeq DEF PoolInv
<1>1. c = [i \in 1..n |-> [s[i] EXCEPT !.retry = IF @ > 0 THEN @ - 1 ELSE 0]]
  BY <1>0 DEF PoolClock
<1>2. ASSUME NEW m \in PoolMember, NEW r, r = [m EXCEPT !.retry = IF @ > 0 THEN @ - 1 ELSE 0]
      PROVE  r \in PoolMember /\ r.path = m.path /\ (m.retry > 0 => r.retry >= m.retry - 1)
  <2>1. m.retry \in Int /\ m.retry <= MAX_BACKOFF /\ MAX_BACKOFF \in Nat
    BY PoolAssumption DEF PoolMember
  <2>2. PICK d \in Int : d <= MAX_BACKOFF /\ (m.retry > 0 => d >= m.retry - 1) /\ r = [m EXCEPT !.retry = d]
    <3>1. PICK d \in Int : d = (IF m.retry > 0 THEN m.retry - 1 ELSE 0)
      BY <2>1
    <3>2. d <= MAX_BACKOFF /\ (m.retry > 0 => d >= m.retry - 1)
      BY <2>1, <3>1
    <3>3. r = [m EXCEPT !.retry = d]
      BY <1>2, <3>1
    <3> QED BY <3>2, <3>3
  <2> QED BY <2>2 DEF PoolMember
<1>3. ASSUME NEW i \in 1..n
      PROVE  c[i] \in PoolMember /\ c[i].path = s[i].path /\ (s[i].retry > 0 => c[i].retry >= s[i].retry - 1)
  BY <1>0, <1>1, <1>2
<1>4. c \in [1..n -> PoolMember]
  BY <1>1, <1>3
<1>5. c \in Seq(PoolMember) /\ Len(c) = n
  BY <1>4
<1>6. OnePerPath(c) /\ StillWaits(s, c, present)
  BY <1>0, <1>3, <1>5 DEF OnePerPath, StillWaits
<1>7. SocketPaths' = SocketPaths
  BY <1>0, <1>3, <1>5, PathsStay
<1> QED BY <1>5, <1>6, <1>7 DEF PoolStep

\* Every step preserves the pool's invariant, lets no member off that waits, and either
\* handles an event, leaves the paths as they are or makes them those of the directory.
LEMMA PoolNextOK ==
  ASSUME PoolInv, EventsTyped, [PoolNext]_poolvars
  PROVE  /\ PoolInv' /\ PoolStep
         /\ (rescanIn = 0 /\ rescanIn' = RESCAN) => Rescan
         /\ \/ HandleFsEvent
            \/ SocketPaths' = SocketPaths
            \/ (Rescan \/ Rebuild) /\ SocketPaths' = present
<1>1. CASE ForwardOk \/ ForwardFails
  <2>1. present' = present /\ rescanIn' = rescanIn
    BY <1>1 DEF ForwardOk, ForwardFails, outside
  <2>2. PoolStep /\ SocketPaths' = SocketPaths
    BY <1>1, ForwardOK
  <2> QED BY <2>1, <2>2, PoolAssumption DEF PoolInv, PoolStep
<1>2. ASSUME HandleFsEvent PROVE PoolInv' /\ PoolStep /\ rescanIn' = rescanIn
  BY <1>2, EventOK DEF HandleFsEvent, PoolInv, PoolStep
<1>3. CASE Rescan
  <2>1. present' = present /\ rescanIn' = RESCAN
    BY <1>3 DEF Rescan, outside
  <2>2. SocketPaths' = present
    BY <1>3, RescanOK DEF SocketPaths
  <2> QED BY <1>3, <2>1, <2>2, RescanOK, PoolAssumption DEF PoolInv, PoolStep
<1>4. CASE Rebuild
  <2>1. present' = present /\ rescanIn' = rescanIn /\ NewFor(members', present)
    BY <1>4, NewMembersOK DEF Rebuild, outside, PoolInv
  <2>2. DOMAIN members' = 1..Len(members')
    BY <2>1, LenProperties DEF NewFor
  <2>3. SocketPaths' = present
    BY <2>1, <2>2 DEF NewFor, SocketPaths
  <2> QED BY <1>4, <2>1, <2>3, PoolAssumption DEF PoolInv, PoolStep, NewFor
<1>5. ASSUME members' = members, PoolInv PROVE PoolStep /\ SocketPaths' = SocketPaths
  <2>1. StillWaits(members, members', present)
    BY <1>5, SameWaits DEF PoolInv
  <2> QED BY <1>5, <2>1 DEF PoolInv, PoolStep, SocketPaths
<1>6. ASSUME NEW p \in Sockets, SocketChanges(p) \/ ProcessChanges(p)
      PROVE  PoolInv' /\ PoolStep /\ rescanIn' = rescanIn /\ SocketPaths' = SocketPaths
  <2>1. members' = members /\ rescanIn' = rescanIn /\ present' \in SUBSET Sockets
    BY <1>6 DEF SocketChanges, ProcessChanges, PoolInv
  <2> QED BY <1>5, <2>1 DEF PoolInv
<1>7. CASE PoolClock
  <2>1. present' = present /\ rescanIn \in Nat /\ rescanIn > 0 /\ rescanIn' = rescanIn - 1
    BY <1>7 DEF PoolClock, outside, PoolInv
  <2> QED BY <1>7, <2>1, PoolClockOK DEF PoolInv, PoolStep
<1>8. CASE UNCHANGED poolvars
  <2>1. present' = present /\ rescanIn' = rescanIn /\ members' = members
    BY <1>8 DEF poolvars
  <2> QED BY <1>5, <2>1, PoolAssumption DEF PoolInv
<1> QED BY <1>1, <1>2, <1>3, <1>4, <1>6, <1>7, <1>8, PoolAssumption DEF PoolNext

\* Every step keeps the last event about a socket true, and the pool with the directory
\* where no event is left.
LEMMA EventsNextOK ==
  ASSUME PoolInv, EventsInv, [PoolNext]_poolvars
  PROVE  EventsInv'
<1> PICK E : E = [path : Sockets, kind : {"SocketCreated", "SocketDeleted"}]
  OBVIOUS
<1> PICK s : s = events
  OBVIOUS
<1> PICK t : t = events'
  OBVIOUS
<1>0. s \in Seq(E) /\ DOMAIN s = 1..Len(s) /\ Len(s) \in Nat
  BY LenProperties DEF EventsInv, EventsTyped
<1>1. CASE HandleFsEvent
  <2>0. s # <<>> /\ t = Tail(s) /\ present' = present /\ lost' = lost
    BY <1>1 DEF HandleFsEvent
  <2>1. PICK n \in Nat : /\ Len(s) = n + 1 /\ Len(t) = n /\ t \in Seq(E) /\ DOMAIN t = 1..n
                          /\ Head(s) = s[1]
                          /\ \A i \in 1..n : t[i] = s[i + 1]
    <3>1. t \in Seq(E) /\ Len(t) = Len(s) - 1 /\ Head(s) = s[1] /\ Len(s) # 0
      BY <1>0, <2>0, HeadTailProperties, EmptySeq
    <3>2. \A i \in 1..Len(t) : t[i] = s[i + 1]
      BY <1>0, <2>0, <3>1
    <3>3. PICK n \in Nat : Len(s) = n + 1
      <4>0. Len(s) \in Nat /\ Len(s) # 0
        BY <1>0, <3>1, Zenon
      <4>1. PICK m \in Nat : m = Len(s) /\ m # 0
        BY <4>0, Zenon
      <4>2. m - 1 \in Nat /\ m = (m - 1) + 1
        BY <4>1
      <4> QED BY <4>1, <4>2
    <3>4. Len(t) = n /\ DOMAIN t = 1..Len(t)
      BY <3>1, <3>3, LenProperties
    <3> QED BY <3>1, <3>2, <3>3, <3>4
  <2>2. EventsTyped'
    BY <2>1 DEF EventsTyped
  <2>3. LastIsTrue'
    <3> SUFFICES ASSUME NEW i \in 1..n, t[i].path \notin lost,
                        \A j \in 1..n : j > i => t[j].path # t[i].path
                 PROVE  t[i].kind = (IF t[i].path \in present THEN "SocketCreated" ELSE "SocketDeleted")
      BY <2>0, <2>1 DEF LastIsTrue
    <3>1. i + 1 \in 1..(n + 1) /\ t[i] = s[i + 1]
      BY <2>1
    <3>2. ASSUME NEW j \in 1..(n + 1), j > i + 1 PROVE s[j].path # s[i + 1].path
      <4>1. j - 1 \in 1..n /\ j - 1 > i /\ j = (j - 1) + 1
        BY <3>2
      <4>2. t[j - 1] = s[j]
        BY <2>1, <4>1
      <4> QED BY <3>1, <4>1, <4>2
    <3> QED BY <2>1, <3>1, <3>2 DEF EventsInv, LastIsTrue
  <2>4. EventsConverge'
    <3> SUFFICES ASSUME NEW p \in Sockets, p \notin lost, \A i \in 1..n : t[i].path # p
                 PROVE  p \in SocketPaths' <=> p \in present
      BY <2>0, <2>1 DEF EventsConverge, Announced
    <3>1. \A i \in 1..(n + 1) : i # 1 => s[i].path # p
      <4> SUFFICES ASSUME NEW i \in 1..(n + 1), i # 1 PROVE s[i].path # p
        OBVIOUS
      <4>1. i - 1 \in 1..n /\ i = (i - 1) + 1
        OBVIOUS
      <4>2. t[i - 1] = s[i]
        BY <2>1, <4>1
      <4> QED BY <4>1, <4>2
    <3>2. PICK e \in E : e = s[1] /\ e = Head(s)
      <4>1. 1 \in 1..Len(s)
        BY <2>1
      <4>2. s[1] \in E
        BY <1>0, <4>1, ElementOfSeq
      <4> QED BY <2>1, <4>2
    <3>3. e.kind = "SocketCreated" \/ e.kind = "SocketDeleted"
      BY <3>2
    <3>4. EventsTyped
      BY DEF EventsInv
    <3>5. /\ e.kind = "SocketCreated" => SocketPaths' = SocketPaths \cup {e.path}
          /\ e.kind = "SocketDeleted" => SocketPaths' = SocketPaths \ {e.path}
      BY <1>1, <3>2, <3>4, EventOK
    <3>6. CASE e.path = p
      <4>1. 1 \in 1..Len(s) /\ \A j \in 1..Len(s) : j > 1 => s[j].path # s[1].path
        BY <2>1, <3>1, <3>2, <3>6
      <4>2. e.kind = (IF p \in present THEN "SocketCreated" ELSE "SocketDeleted")
        BY <3>2, <3>6, <4>1 DEF EventsInv, LastIsTrue
      <4> QED BY <3>5, <3>6, <4>2
    <3>7. CASE e.path # p
      <4>1. \A i \in 1..(n + 1) : s[i].path # p
        BY <3>1, <3>2, <3>7
      <4>2. p \in SocketPaths <=> p \in present
        BY <1>0, <2>1, <4>1 DEF EventsInv, EventsConverge, Announced
      <4> QED BY <3>3, <3>5, <3>7, <4>2
    <3> QED BY <3>6, <3>7
  <2> QED BY <2>2, <2>3, <2>4 DEF EventsInv
<1>2. ASSUME t = s, present' = present, lost' = lost, SocketPaths' = SocketPaths
      PROVE  EventsInv'
  <2>1. EventsTyped' /\ LastIsTrue'
    BY <1>2 DEF EventsInv, EventsTyped, LastIsTrue
  <2>2. EventsConverge'
    BY <1>2 DEF EventsInv, EventsConverge, Announced
  <2> QED BY <2>1, <2>2 DEF EventsInv
<1>3. ASSUME Rescan \/ Rebuild PROVE EventsInv'
  <2>0. EventsTyped
    BY DEF EventsInv
  <2>1. t = s /\ present' = present /\ lost' = {p \in lost : Announced(p)}
    BY <1>3 DEF Rescan, Rebuild, outside
  <2>2. SocketPaths' = present
    <3>1. CASE Rescan
      BY <3>1, RescanOK DEF SocketPaths
    <3>2. CASE Rebuild
      <4>1. NewFor(members', present)
        BY <3>2, NewMembersOK DEF Rebuild, PoolInv
      <4>2. DOMAIN members' = 1..Len(members')
        BY <4>1, LenProperties DEF NewFor
      <4> QED BY <4>1, <4>2 DEF NewFor, SocketPaths
    <3> QED BY <1>3, <3>1, <3>2
  <2>3. EventsTyped' /\ EventsConverge'
    BY <2>0, <2>1, <2>2 DEF EventsTyped, EventsConverge
  <2>4. LastIsTrue'
    <3> SUFFICES ASSUME NEW i \in 1..Len(s), s[i].path \notin lost',
                        \A j \in 1..Len(s) : j > i => s[j].path # s[i].path
                 PROVE  s[i].kind = (IF s[i].path \in present THEN "SocketCreated" ELSE "SocketDeleted")
      BY <2>1 DEF LastIsTrue
    <3>1. Announced(s[i].path)
      BY <1>0 DEF Announced
    <3>2. s[i].path \notin lost
      BY <2>1, <3>1
    <3> QED BY <3>2 DEF EventsInv, LastIsTrue
  <2> QED BY <2>3, <2>4 DEF EventsInv
<1>4. ASSUME NEW p \in Sockets, SocketChanges(p) PROVE EventsInv'
  <2>0. SocketPaths' = SocketPaths /\ present' = (IF p \in present THEN present \ {p} ELSE present \cup {p})
    BY <1>4 DEF SocketChanges, SocketPaths
  <2>1. CASE t = s /\ lost' = lost \cup {p}
    <3>1. EventsTyped'
      BY <2>1 DEF EventsInv, EventsTyped
    <3>2. LastIsTrue'
      BY <2>0, <2>1 DEF EventsInv, LastIsTrue
    <3>3. EventsConverge'
      BY <2>0, <2>1 DEF EventsInv, EventsConverge, Announced
    <3> QED BY <3>1, <3>2, <3>3 DEF EventsInv
  <2>2. CASE t = Append(s, FsEvent(p, p \notin present)) /\ lost' = lost \ {p}
    <3>1. PICK e \in E : /\ e = FsEvent(p, p \notin present) /\ e.path = p
                          /\ e.kind = (IF p \in present THEN "SocketDeleted" ELSE "SocketCreated")
      <4>1. CASE p \in present
        <5>1. FsEvent(p, p \notin present) = [path |-> p, kind |-> "SocketDeleted"]
          BY <4>1 DEF FsEvent
        <5> QED BY <4>1, <5>1
      <4>2. CASE p \notin present
        <5>1. FsEvent(p, p \notin present) = [path |-> p, kind |-> "SocketCreated"]
          BY <4>2 DEF FsEvent
        <5> QED BY <4>2, <5>1
      <4> QED BY <4>1, <4>2
    <3>2. PICK n \in Nat : n = Len(s)
      BY <1>0
    <3>3. t \in Seq(E) /\ Len(t) = n + 1 /\ (\A i \in 1..n : t[i] = s[i]) /\ t[n + 1] = e
      <4>1. t = Append(s, e)
        BY <2>2, <3>1
      <4>2. t \in Seq(E)
        BY <1>0, <4>1, AppendProperties
      <4> QED BY <1>0, <3>2, <4>1, <4>2, AppendedIs
    <3>4. DOMAIN t = 1..(n + 1)
      BY <3>3, LenProperties
    <3>5. EventsTyped'
      BY <3>3 DEF EventsTyped
    <3>6. LastIsTrue'
      <4> SUFFICES ASSUME NEW i \in 1..(n + 1), t[i].path \notin lost \ {p},
                          \A j \in 1..(n + 1) : j > i => t[j].path # t[i].path
                   PROVE  t[i].kind = (IF t[i].path \in present' THEN "SocketCreated" ELSE "SocketDeleted")
        BY <2>2, <3>3 DEF LastIsTrue
      <4>1. CASE i = n + 1
        BY <2>0, <3>1, <3>3, <4>1
      <4>2. CASE i \in 1..n
        <5>1. n + 1 \in 1..(n + 1) /\ n + 1 > i
          BY <4>2
        <5>2. t[i].path # p /\ t[i] = s[i]
          BY <3>1, <3>3, <4>2, <5>1
        <5>3. \A j \in 1..n : j > i => s[j].path # s[i].path
          <6> SUFFICES ASSUME NEW j \in 1..n, j > i PROVE s[j].path # s[i].path
            OBVIOUS
          <6>1. j \in 1..(n + 1) /\ t[j] = s[j]
            BY <3>3
          <6> QED BY <5>2, <6>1
        <5>4. s[i].kind = (IF s[i].path \in present THEN "SocketCreated" ELSE "SocketDeleted")
          BY <3>2, <4>2, <5>2, <5>3 DEF EventsInv, LastIsTrue
        <5> QED BY <2>0, <5>2, <5>4
      <4> QED BY <4>1, <4>2
    <3>7. EventsConverge'
      <4> SUFFICES ASSUME NEW x \in Sockets, x \notin lost \ {p}, \A i \in 1..(n + 1) : t[i].path # x
                   PROVE  x \in SocketPaths <=> x \in present'
        BY <2>0, <2>2, <3>4 DEF EventsConverge, Announced
      <4>1. n + 1 \in 1..(n + 1)
        OBVIOUS
      <4>2. x # p
        BY <3>1, <3>3, <4>1
      <4>3. \A i \in 1..n : s[i].path # x
        <5> SUFFICES ASSUME NEW i \in 1..n PROVE s[i].path # x
          OBVIOUS
        <5>1. i \in 1..(n + 1) /\ t[i] = s[i]
          BY <3>3
        <5> QED BY <5>1
      <4>4. x \in SocketPaths <=> x \in present
        BY <1>0, <3>2, <4>2, <4>3 DEF EventsInv, EventsConverge, Announced
      <4> QED BY <2>0, <4>2, <4>4
    <3> QED BY <3>5, <3>6, <3>7 DEF EventsInv
  <2> QED BY <1>4, <2>1, <2>2 DEF SocketChanges
<1>5. ASSUME NEW p \in Sockets, ProcessChanges(p) PROVE EventsInv'
  <2>1. t = s /\ present' = present /\ lost' = lost /\ members' = members
    BY <1>5 DEF ProcessChanges
  <2>2. SocketPaths' = SocketPaths
    BY <2>1 DEF SocketPaths
  <2> QED BY <1>2, <2>1, <2>2
<1>6. CASE ForwardOk \/ ForwardFails \/ PoolClock
  <2>1. t = s /\ present' = present /\ lost' = lost
    BY <1>6 DEF ForwardOk, ForwardFails, PoolClock, outside
  <2>2. SocketPaths' = SocketPaths
    BY <1>6, ForwardOK, PoolClockOK
  <2> QED BY <1>2, <2>1, <2>2
<1>7. CASE UNCHANGED poolvars
  <2>1. t = s /\ present' = present /\ lost' = lost /\ members' = members
    BY <1>7 DEF poolvars
  <2>2. SocketPaths' = SocketPaths
    BY <2>1 DEF SocketPaths
  <2> QED BY <1>2, <2>1, <2>2
<1> QED BY <1>1, <1>3, <1>4, <1>5, <1>6, <1>7 DEF PoolNext

\* PoolContract, for every set of sockets and every order of requests, events, lost or late, and
\* rescans: a rescan leaves one member for each socket that is there and no other; between
\* rescans the pool has a socket as the directory has once the events about it are handled,
\* unless its last change was lost; a member that waits is let off by nothing but a rebuild of
\* the pool, the loss of its socket or an event that tells of one; and every connection is
\* given back (m6-http pool.rs, handle_fs_event).
THEOREM PoolFollowsTheDirectory == PoolSpec => PoolContract
<1> DEFINE Both == PoolInv /\ EventsInv
<1>1. PoolInit => Both
  <2> SUFFICES ASSUME PoolInit PROVE Both
    OBVIOUS
  <2>1. PoolInv
    BY PoolInitOK
  <2>2. NewFor(members, present) /\ events = <<>> /\ lost = {}
    BY NewMembersOK DEF PoolInit
  <2>3. SocketPaths = present
    BY <2>1, <2>2, PathsAre DEF NewFor
  <2>4. Len(events) = 0 /\ DOMAIN events = {}
    BY <2>2
  <2>5. EventsTyped
    BY <2>2 DEF EventsTyped
  <2>6. LastIsTrue
    BY <2>4 DEF LastIsTrue
  <2>7. EventsConverge
    BY <2>3 DEF EventsConverge
  <2> QED BY <2>1, <2>5, <2>6, <2>7 DEF EventsInv
<1>2. Both /\ [PoolNext]_poolvars => Both'
  <2> SUFFICES ASSUME Both, [PoolNext]_poolvars PROVE Both'
    OBVIOUS
  <2>1. PoolInv /\ EventsInv /\ EventsTyped
    BY DEF EventsInv
  <2>2. PoolInv'
    BY <2>1, PoolNextOK
  <2>3. EventsInv'
    BY <2>1, EventsNextOK
  <2> QED BY <2>2, <2>3
<1>6. Both => EventsConverge
  BY DEF EventsInv
<1>7. Both => PoolInv /\ EventsTyped
  BY DEF EventsInv
<1> HIDE DEF Both
<1>3. Both /\ [PoolNext]_poolvars =>
        [ rescanIn = 0 /\ rescanIn' = RESCAN
          => /\ {members'[i].path : i \in DOMAIN members'} = present
             /\ Len(members') = Cardinality(present) ]_poolvars
  BY <1>7, PoolNextOK, RescanOK
<1>4. Both /\ [PoolNext]_poolvars =>
        [ \A p \in Sockets : \A i \in DOMAIN members :
            members[i].path = p /\ members[i].retry > 0 /\ p \in present
            => \/ Rebuild
               \/ HandlesDeleted(p)
               \/ \E j \in DOMAIN members' :
                    members'[j].path = p /\ members'[j].retry >= members[i].retry - 1 ]_poolvars
  <2> SUFFICES ASSUME Both, [PoolNext]_poolvars,
                      NEW p \in Sockets, NEW i \in DOMAIN members,
                      members[i].path = p /\ members[i].retry > 0 /\ p \in present
               PROVE  \/ Rebuild
                      \/ HandlesDeleted(p)
                      \/ \E j \in DOMAIN members' :
                           members'[j].path = p /\ members'[j].retry >= members[i].retry - 1
    OBVIOUS
  <2>1. PoolStep
    BY <1>7, PoolNextOK
  <2>2. DOMAIN members = 1..Len(members) /\ DOMAIN members' = 1..Len(members')
    BY <1>7, <2>1, LenProperties DEF PoolInv, PoolStep
  <2>3. CASE StillWaits(members, members', present)
    BY <2>2, <2>3 DEF StillWaits
  <2>4. ASSUME NEW q \in Sockets, HandlesDeleted(q), StillWaits(members, members', present \ {q})
        PROVE  HandlesDeleted(p) \/ \E j \in DOMAIN members' :
                  members'[j].path = p /\ members'[j].retry >= members[i].retry - 1
    <3>1. CASE p = q
      BY <2>4, <3>1
    <3>2. CASE p # q
      BY <2>2, <2>4, <3>2 DEF StillWaits
    <3> QED BY <3>1, <3>2
  <2> QED BY <2>1, <2>3, <2>4 DEF PoolStep
<1>5. Both /\ [PoolNext]_poolvars =>
        [ \A i \in DOMAIN members' :
            members'[i].connections = 0 /\ members'[i].retry <= MAX_BACKOFF ]_poolvars
  <2> SUFFICES ASSUME Both, [PoolNext]_poolvars, NEW i \in DOMAIN members'
               PROVE  members'[i].connections = 0 /\ members'[i].retry <= MAX_BACKOFF
    OBVIOUS
  <2>1. members' \in Seq(PoolMember)
    BY <1>7, PoolNextOK DEF PoolStep
  <2>2. members'[i] \in PoolMember
    BY <2>1, LenProperties, ElementOfSeq
  <2> QED BY <2>2 DEF PoolMember
<1> QED BY <1>1, <1>2, <1>3, <1>4, <1>5, <1>6, PTL
        DEF PoolSpec, PoolContract, RescanRepairs, BackoffSurvives, MembersComeBack

-----------------------------------------------------------------------------
(* EdgeStats.  A ring holds the newest samples of the whole history back     *)
(* from where the next write goes, and `added` of them are of the window: so *)
(* one ring answers both the periodic line and /perf.                        *)

\* What FoldLeft chooses for the samples of h.
Sampling(g, hit, h) ==
    g = [t \in SUBSET DOMAIN h |->
            IF t = {} THEN <<>> ELSE Sampled(hit, g[t \ {Max(t)}], h[Max(t)])]

\* Samples is what that function gives for all of h.
LEMMA SamplesUnfold == \A h, hit : Samples(h, hit) = (CHOOSE g : Sampling(g, hit, h))[DOMAIN h]
BY DEF Samples, FoldLeft, MapThenFoldSet, Sampling

\* F[i] is the samples of the first i requests.
SampleRun(F, n, h, hit) ==
    /\ F \in [0..n -> Seq(Nat)]
    /\ F[0] = <<>>
    /\ \A i \in 1..n : F[i] = Sampled(hit, F[i - 1], h[i])

\* Samples as a loop over the history.
LEMMA SamplesRun ==
  ASSUME NEW R, \A r \in R : r.ns \in Nat, NEW h \in Seq(R), NEW hit
  PROVE  \E F : SampleRun(F, Len(h), h, hit) /\ Samples(h, hit) = F[Len(h)]
<1>0. PICK n \in Nat : n = Len(h) /\ DOMAIN h = 1..n /\ \A i \in 1..n : h[i] \in R
  BY LenProperties, ElementOfSeq
<1>1. PICK A : A = Seq(Nat)
  OBVIOUS
<1>2. <<>> \in A /\ \A a \in A : \A r \in R : Sampled(hit, a, r) \in A
  BY <1>1, EmptySeq, AppendProperties DEF Sampled
<1> DEFINE G == [i \in 1..n |-> [a \in A |-> Sampled(hit, a, h[i])]]
<1>3. G \in [1..n -> [A -> A]]
  BY <1>0, <1>2
<1>4. PICK e \in [SUBSET (1..n) -> A] : Folding(e, n, <<>>, G)
  <2> HIDE DEF G
  <2>1. PICK b \in A : b = <<>>
    BY <1>2
  <2> QED BY <1>3, <2>1, FoldExists
<1>5. ASSUME NEW t \in SUBSET (1..n), t # {}
      PROVE  G[Max(t)][e[t \ {Max(t)}]] = Sampled(hit, e[t \ {Max(t)}], h[Max(t)])
  BY <1>5, <1>4, MaxOfIndices
<1>6. PICK g : Sampling(g, hit, h) /\ Samples(h, hit) = g[1..n]
  <2>1. Sampling(e, hit, h)
    <3> HIDE DEF G
    <3> QED BY <1>0, <1>4, <1>5 DEF Sampling, Folding
  <2> QED BY <1>0, <2>1, SamplesUnfold
<1> DEFINE F == [i \in 0..n |-> g[1..i]]
<1>7. F[0] = <<>> /\ F[n] = g[1..n]
  <2>1. 1..0 = {} /\ {} \in SUBSET (1..n)
    OBVIOUS
  <2> QED BY <2>1, <1>0, <1>6 DEF Sampling
<1>8. ASSUME NEW i \in 1..n PROVE F[i] = Sampled(hit, F[i - 1], h[i])
  <2>1. F[i] = g[1..i] /\ F[i - 1] = g[1..(i - 1)]
    OBVIOUS
  <2>2. 1..i \in SUBSET (1..n) /\ 1..i # {} /\ Max(1..i) = i /\ (1..i) \ {Max(1..i)} = 1..(i - 1)
    BY PrefixRun
  <2>3. g[1..i] = Sampled(hit, g[1..(i - 1)], h[i])
    BY <2>2, <1>0, <1>6 DEF Sampling
  <2> QED BY <2>1, <2>3
<1>9. F \in [0..n -> A]
  <2> HIDE DEF F
  <2> DEFINE T == {i \in 0..n : F[i] \in A}
  <2>1. 0 \in T
    BY <1>2, <1>7
  <2>2. ASSUME NEW i \in 1..n, i - 1 \in T PROVE i \in T
    BY <2>2, <1>0, <1>2, <1>8
  <2>3. \A i \in 0..n : i \in T
    <3> HIDE DEF T
    <3> QED BY <2>1, <2>2, IndexInduction
  <2> QED BY <2>3 DEF F
<1>10. SampleRun(F, n, h, hit)
  <2> HIDE DEF F
  <2> QED BY <1>1, <1>7, <1>8, <1>9 DEF SampleRun
<1> HIDE DEF F
<1> QED BY <1>0, <1>6, <1>7, <1>10

\* Two runs over one beginning agree on it.
LEMMA RunsAgree ==
  ASSUME NEW n \in Nat, NEW m \in Nat, n <= m, NEW h, NEW k, NEW hit, NEW F, NEW G,
         SampleRun(F, n, h, hit), SampleRun(G, m, k, hit), \A i \in 1..n : h[i] = k[i]
  PROVE  F[n] = G[n]
<1> DEFINE T == {i \in 0..n : F[i] = G[i]}
<1>1. 0 \in T
  BY DEF SampleRun
<1>2. ASSUME NEW i \in 1..n, i - 1 \in T PROVE i \in T
  <2>1. i \in 1..m /\ F[i - 1] = G[i - 1]
    BY <1>2
  <2>2. F[i] = Sampled(hit, F[i - 1], h[i]) /\ G[i] = Sampled(hit, G[i - 1], k[i])
    BY <2>1 DEF SampleRun
  <2> QED BY <2>1, <2>2
<1>3. \A i \in 0..n : i \in T
  <2> HIDE DEF T
  <2> QED BY <1>1, <1>2, IndexInduction
<1> QED BY <1>3

\* One request more gives one sample more, or none.
LEMMA SamplesAppend ==
  ASSUME NEW R, \A r \in R : r.ns \in Nat, NEW h \in Seq(R), NEW q \in R, NEW hit
  PROVE  /\ Samples(h, hit) \in Seq(Nat)
         /\ Samples(Append(h, q), hit) = Sampled(hit, Samples(h, hit), q)
<1>1. PICK n \in Nat : n = Len(h)
  BY LenProperties
<1>2. PICK k \in Seq(R) : k = Append(h, q)
  BY AppendProperties
<1>3. Len(k) = n + 1 /\ (\A i \in 1..n : k[i] = h[i]) /\ k[n + 1] = q
  BY <1>1, <1>2, AppendProperties
<1>4. PICK F : SampleRun(F, n, h, hit) /\ Samples(h, hit) = F[n]
  BY <1>1, SamplesRun
<1>5. PICK G : SampleRun(G, n + 1, k, hit) /\ Samples(k, hit) = G[n + 1]
  BY <1>3, SamplesRun
<1>6. F[n] = G[n]
  <2>1. n + 1 \in Nat /\ n <= n + 1
    OBVIOUS
  <2> QED BY <1>3, <1>4, <1>5, <2>1, RunsAgree
<1>7. G[n + 1] = Sampled(hit, G[n], k[n + 1])
  <2>1. n + 1 \in 1..(n + 1) /\ n + 1 - 1 = n
    OBVIOUS
  <2> QED BY <1>5, <2>1 DEF SampleRun
<1>8. F[n] \in Seq(Nat)
  BY <1>4 DEF SampleRun
<1> QED BY <1>2, <1>3, <1>4, <1>5, <1>6, <1>7, <1>8

\* No request gives no sample.
LEMMA SamplesEmpty == \A hit : Samples(<<>>, hit) = <<>>
<1> TAKE hit
<1>1. <<>> \in Seq({}) /\ Len(<<>>) = 0
  BY EmptySeq
<1>2. PICK F : SampleRun(F, 0, <<>>, hit) /\ Samples(<<>>, hit) = F[0]
  BY <1>1, SamplesRun
<1> QED BY <1>2 DEF SampleRun

\* Where the k-th newest sample is.
LEMMA BackIs ==
  ASSUME NEW cap \in Nat \ {0}, NEW i \in 0..(cap - 1), NEW k \in 1..cap
  PROVE  (i + cap - k) % cap = IF k <= i THEN i - k ELSE i + cap - k
<1>1. \A x \in 0..(cap - 1) : x % cap = x /\ (x + cap) % cap = x
  OBVIOUS
<1>2. CASE k <= i
  <2>1. i - k \in 0..(cap - 1) /\ i + cap - k = (i - k) + cap
    BY <1>2
  <2> QED BY <1>1, <1>2, <2>1
<1>3. CASE ~(k <= i)
  <2>1. i + cap - k \in 0..(cap - 1)
    BY <1>3
  <2> QED BY <1>1, <1>3, <2>1
<1> QED BY <1>2, <1>3

\* Where the next write goes.
LEMMA NextIs ==
  ASSUME NEW cap \in Nat \ {0}, NEW i \in 0..(cap - 1)
  PROVE  (i + 1) % cap = IF i = cap - 1 THEN 0 ELSE i + 1
<1>1. \A x \in 0..(cap - 1) : x % cap = x /\ (x + cap) % cap = x
  OBVIOUS
<1>2. CASE i = cap - 1
  <2>1. 0 \in 0..(cap - 1) /\ i + 1 = 0 + cap
    BY <1>2
  <2> QED BY <1>1, <1>2, <2>1
<1>3. CASE i # cap - 1
  <2>1. i + 1 \in 0..(cap - 1)
    BY <1>3
  <2> QED BY <1>1, <1>3, <2>1
<1> QED BY <1>2, <1>3

\* A ring, as the record it is.
IsRing(r, cap) ==
    \E buf \in [0..(cap - 1) -> Int], idx \in 0..(cap - 1), count \in 0..cap, added \in Nat :
        r = [buf |-> buf, idx |-> idx, count |-> count, added |-> added]

\* A ring has the newest of S, back from idx.
Holds(r, cap, S) ==
    /\ r.count = IF Len(S) <= cap THEN Len(S) ELSE cap
    /\ \A k \in 1..r.count : r.buf[(r.idx + cap - k) % cap] = S[Len(S) + 1 - k]

\* A sample that was measured is the newest; the oldest goes if there is no room.
LEMMA PushOK ==
  ASSUME NEW cap \in Nat \ {0}, NEW r, IsRing(r, cap), NEW S \in Seq(Nat), Holds(r, cap, S),
         NEW ns \in Nat \ {0}
  PROVE  /\ IsRing(Push(r, cap, ns), cap) /\ Holds(Push(r, cap, ns), cap, Append(S, ns))
         /\ Push(r, cap, ns).added = r.added + 1
<1>1. PICK buf \in [0..(cap - 1) -> Int], idx \in 0..(cap - 1), count \in 0..cap, added \in Nat :
        r = [buf |-> buf, idx |-> idx, count |-> count, added |-> added]
  BY DEF IsRing
<1>2. PICK n \in Nat : n = Len(S)
  BY LenProperties
<1>3. /\ count = IF n <= cap THEN n ELSE cap
      /\ \A k \in 1..count : buf[(idx + cap - k) % cap] = S[n + 1 - k]
  BY <1>1, <1>2 DEF Holds
<1>4. PICK U : U = Append(S, ns) /\ Len(U) = n + 1 /\ (\A i \in 1..n : U[i] = S[i]) /\ U[n + 1] = ns
  BY <1>2, AppendProperties
<1>5. PICK b \in [0..(cap - 1) -> Int] : b = [buf EXCEPT ![idx] = ns]
  <2>1. ns \in Int
    OBVIOUS
  <2>2. [buf EXCEPT ![idx] = ns] \in [0..(cap - 1) -> Int]
    BY <2>1
  <2> QED BY <2>2
<1>6. PICK j \in 0..(cap - 1) : j = (idx + 1) % cap /\ j = (IF idx = cap - 1 THEN 0 ELSE idx + 1)
  <2>1. (idx + 1) % cap = IF idx = cap - 1 THEN 0 ELSE idx + 1
    BY NextIs
  <2>2. (IF idx = cap - 1 THEN 0 ELSE idx + 1) \in 0..(cap - 1)
    OBVIOUS
  <2> QED BY <2>1, <2>2
<1>7. PICK c \in 0..cap : c = Min({count + 1, cap}) /\ c = (IF count + 1 <= cap THEN count + 1 ELSE cap)
  <2>1. count + 1 \in Int /\ cap \in Int
    OBVIOUS
  <2>2. Min({count + 1, cap}) = IF count + 1 <= cap THEN count + 1 ELSE cap
    BY <2>1, MinOfTwo
  <2>3. (IF count + 1 <= cap THEN count + 1 ELSE cap) \in 0..cap
    OBVIOUS
  <2> QED BY <2>2, <2>3
<1>8. Push(r, cap, ns) = [buf |-> b, idx |-> j, count |-> c, added |-> added + 1]
  <2>1. ns # 0 /\ r.buf = buf /\ r.idx = idx /\ r.count = count /\ r.added = added
    BY <1>1
  <2> HIDE <1>1
  <2> QED BY <1>5, <1>6, <1>7, <2>1 DEF Push
<1>9. IsRing(Push(r, cap, ns), cap) /\ Push(r, cap, ns).added = r.added + 1
  <2>1. PICK a \in Nat : a = added + 1 /\ r.added = added
    BY <1>1
  <2>2. Push(r, cap, ns) = [buf |-> b, idx |-> j, count |-> c, added |-> a]
    BY <1>8, <2>1
  <2>3. IsRing(Push(r, cap, ns), cap)
    BY <2>2 DEF IsRing
  <2>4. Push(r, cap, ns).added = a
    BY <2>2
  <2> QED BY <2>1, <2>3, <2>4
<1>10. c = IF n + 1 <= cap THEN n + 1 ELSE cap
  <2>1. count = (IF n <= cap THEN n ELSE cap) /\ c = (IF count + 1 <= cap THEN count + 1 ELSE cap)
    BY <1>3, <1>7
  <2> QED BY <2>1
<1>11. ASSUME NEW k \in 1..c PROVE b[(j + cap - k) % cap] = U[n + 2 - k]
  <2>0. k \in 1..cap
    OBVIOUS
  <2>1. PICK x \in Int : x = (j + cap - k) % cap /\ x = (IF k <= j THEN j - k ELSE j + cap - k)
    <3>1. (j + cap - k) % cap = IF k <= j THEN j - k ELSE j + cap - k
      BY <2>0, BackIs
    <3>2. (IF k <= j THEN j - k ELSE j + cap - k) \in Int
      BY <2>0
    <3> QED BY <3>1, <3>2
  <2>2. CASE k = 1
    <3>1. x = idx
      <4>1. j = (IF idx = cap - 1 THEN 0 ELSE idx + 1) /\ x = (IF k <= j THEN j - k ELSE j + cap - k)
        BY <1>6, <2>1
      <4> QED BY <4>1, <2>2
    <3> QED BY <1>4, <1>5, <2>1, <2>2, <3>1
  <2>3. CASE k # 1
    <3>1. k - 1 \in 1..count /\ k - 1 \in 1..cap /\ k - 1 < cap
      BY <1>7, <2>3
    <3>2. PICK y \in Int : /\ y = (idx + cap - (k - 1)) % cap
                           /\ y = (IF k - 1 <= idx THEN idx - (k - 1) ELSE idx + cap - (k - 1))
      <4>0. PICK k1 \in 1..cap : k1 = k - 1
        BY <3>1
      <4>1. (idx + cap - k1) % cap = IF k1 <= idx THEN idx - k1 ELSE idx + cap - k1
        BY BackIs
      <4>2. (IF k1 <= idx THEN idx - k1 ELSE idx + cap - k1) \in Int
        OBVIOUS
      <4> QED BY <4>0, <4>1, <4>2
    <3>3. x = y /\ x # idx /\ x \in 0..(cap - 1)
      <4>1. /\ j = (IF idx = cap - 1 THEN 0 ELSE idx + 1) /\ x = (IF k <= j THEN j - k ELSE j + cap - k)
            /\ y = (IF k - 1 <= idx THEN idx - (k - 1) ELSE idx + cap - (k - 1))
        BY <1>6, <2>1, <3>2
      <4> QED BY <4>1, <3>1
    <3>4. b[x] = buf[x]
      BY <1>5, <3>3
    <3>5. buf[y] = S[n + 1 - (k - 1)]
      BY <1>3, <3>1, <3>2
    <3>6. n + 1 - (k - 1) \in 1..n /\ n + 1 - (k - 1) = n + 2 - k
      BY <1>3, <3>1
    <3> QED BY <1>4, <2>1, <3>3, <3>4, <3>5, <3>6
  <2> QED BY <2>2, <2>3
<1>12. Holds(Push(r, cap, ns), cap, U)
  <2>1. PICK p : p = Push(r, cap, ns) /\ p.buf = b /\ p.idx = j /\ p.count = c
    <3>1. PICK p : p = Push(r, cap, ns)
      OBVIOUS
    <3>2. p = [buf |-> b, idx |-> j, count |-> c, added |-> added + 1]
      BY <1>8, <3>1
    <3>3. p.buf = b /\ p.idx = j /\ p.count = c
      BY <3>2
    <3> QED BY <3>1, <3>3
  <2>2. \A k \in 1..c : n + 2 - k = n + 1 + 1 - k
    OBVIOUS
  <2> QED BY <1>4, <1>10, <1>11, <2>1, <2>2 DEF Holds
<1> QED BY <1>4, <1>9, <1>12

\* C is the end of S.
EndOf(C, S) ==
    /\ Len(C) <= Len(S)
    /\ \A k \in 1..Len(C) : C[Len(C) + 1 - k] = S[Len(S) + 1 - k]

\* Reading as many as C has, or as the ring has, gives the newest of C.
LEMMA NewestOK ==
  ASSUME NEW cap \in Nat \ {0}, NEW r, IsRing(r, cap), NEW S \in Seq(Nat), Holds(r, cap, S),
         NEW C \in Seq(Nat), EndOf(C, S), NEW take \in Nat, take = Len(C) \/ (take = cap /\ C = S)
  PROVE  Newest(r, cap, take) = LastOf(C, cap)
<1>1. PICK n \in Nat, m \in Nat : n = Len(S) /\ m = Len(C)
  BY LenProperties
<1>2. PICK count \in 0..cap : count = r.count /\ count = IF n <= cap THEN n ELSE cap
  <2>1. r.count \in 0..cap
    BY DEF IsRing
  <2> QED BY <1>1, <2>1 DEF Holds
<1>3. m <= n /\ \A k \in 1..m : C[m + 1 - k] = S[n + 1 - k]
  BY <1>1 DEF EndOf
<1>4. PICK z \in Int : z = Min({take, count, cap}) /\ z \in {take, count, cap} /\ z <= take /\ z <= count /\ z <= cap
  <2>1. take \in Int /\ count \in Int /\ cap \in Int
    OBVIOUS
  <2>2. PICK z : z = Min({take, count, cap})
    OBVIOUS
  <2>3. z \in {take, count, cap} /\ z <= take /\ z <= count /\ z <= cap
    BY <2>1, <2>2, MinOfThree
  <2>4. z \in Int
    BY <2>1, <2>3
  <2> QED BY <2>2, <2>3, <2>4
<1>5. Min({cap, m}) = z
  <2>1. Min({cap, m}) = IF cap <= m THEN cap ELSE m
    <3>1. cap \in Int /\ m \in Int
      OBVIOUS
    <3> QED BY <3>1, MinOfTwo
  <2>2. take = m \/ (take = cap /\ m = n)
    BY <1>1
  <2> QED BY <1>2, <1>3, <1>4, <2>1, <2>2
<1>6. z <= count /\ z <= m
  <2>1. Min({cap, m}) = IF cap <= m THEN cap ELSE m
    <3>1. cap \in Int /\ m \in Int
      OBVIOUS
    <3> QED BY <3>1, MinOfTwo
  <2> QED BY <1>4, <1>5, <2>1
<1>7. ASSUME NEW k \in 1..z PROVE r.buf[(r.idx + cap - k) % cap] = C[m + 1 - k]
  <2>1. k \in 1..count /\ k \in 1..m
    BY <1>4, <1>6
  <2> QED BY <1>1, <1>2, <1>3, <2>1 DEF Holds
<1>8. Newest(r, cap, take) = [k \in 1..z |-> r.buf[(r.idx + cap - k) % cap]]
  BY <1>2, <1>4 DEF Newest
<1>9. LastOf(C, cap) = [k \in 1..z |-> C[m + 1 - k]]
  BY <1>1, <1>5 DEF LastOf
<1> QED BY <1>7, <1>8, <1>9

\* u is h from a to b.
IsSpan(u, h, a, b, R) ==
    /\ u \in Seq(R)
    /\ Len(u) = IF a <= b THEN b - a + 1 ELSE 0
    /\ \A i \in 1..(b - a + 1) : u[i] = h[a + i - 1]

\* SubSeq is that.
LEMMA SpanIs ==
  ASSUME NEW R, NEW h, NEW a \in Int, NEW b \in Int, \A i \in a..b : h[i] \in R
  PROVE  \E u : u = SubSeq(h, a, b) /\ IsSpan(u, h, a, b, R)
<1>1. IsSpan(SubSeq(h, a, b), h, a, b, R)
  BY SubSeqProperties DEF IsSpan
<1> QED BY <1>1

\* A span of history that was complete stays what it was.
LEMMA SpanKept ==
  ASSUME NEW R, NEW h \in Seq(R), NEW q \in R, NEW a \in Nat \ {0}, NEW b \in Nat, b <= Len(h)
  PROVE  SubSeq(Append(h, q), a, b) = SubSeq(h, a, b) /\ SubSeq(h, a, b) \in Seq(R)
<1>1. PICK n \in Nat : n = Len(h) /\ b <= n
  BY LenProperties
<1>2. PICK k \in Seq(R) : k = Append(h, q)
  BY AppendProperties
<1>21. \A i \in 1..n : k[i] = h[i]
  BY <1>1, <1>2, AppendProperties
<1>3. \A i \in a..b : i \in 1..n
  BY <1>1
<1>4. \A i \in a..b : h[i] \in R /\ k[i] = h[i]
  BY <1>1, <1>21, <1>3, ElementOfSeq
<1>5. PICK u \in Seq(R) : /\ u = SubSeq(h, a, b) /\ Len(u) = IF a <= b THEN b - a + 1 ELSE 0
                          /\ \A i \in 1..(b - a + 1) : u[i] = h[a + i - 1]
  <2>1. a \in Int /\ b \in Int /\ \A i \in a..b : h[i] \in R
    BY <1>4
  <2>2. PICK u : u = SubSeq(h, a, b) /\ IsSpan(u, h, a, b, R)
    BY <2>1, SpanIs
  <2> QED BY <2>2 DEF IsSpan
<1>6. PICK v \in Seq(R) : /\ v = SubSeq(k, a, b) /\ Len(v) = IF a <= b THEN b - a + 1 ELSE 0
                          /\ \A i \in 1..(b - a + 1) : v[i] = k[a + i - 1]
  <2>1. a \in Int /\ b \in Int /\ \A i \in a..b : k[i] \in R
    BY <1>4
  <2>2. PICK v : v = SubSeq(k, a, b) /\ IsSpan(v, k, a, b, R)
    BY <2>1, SpanIs
  <2> QED BY <2>2 DEF IsSpan
<1>7. ASSUME NEW i \in 1..Len(u) PROVE u[i] = v[i]
  <2>1. PICK l \in Nat : l = Len(u)
    BY LenProperties
  <2>2. i \in 1..(b - a + 1) /\ a + i - 1 \in a..b
    BY <1>5, <2>1
  <2> QED BY <1>4, <1>5, <1>6, <2>2
<1>8. u = v
  <2>1. Len(u) = Len(v)
    BY <1>5, <1>6
  <2> QED BY <1>7, <2>1, SeqEqual
<1> QED BY <1>2, <1>5, <1>6, <1>8

\* What was recorded after the first to requests.
Since(h, to) == SubSeq(h, to + 1, Len(h))

\* It grows with the history ...
LEMMA SinceAppend ==
  ASSUME NEW R, NEW h \in Seq(R), NEW q \in R, NEW to \in Nat, to <= Len(h)
  PROVE  Since(Append(h, q), to) = Append(Since(h, to), q) /\ Since(h, to) \in Seq(R)
<1>1. PICK n \in Nat : n = Len(h) /\ to <= n
  BY LenProperties
<1>2. PICK k \in Seq(R) : k = Append(h, q) /\ Len(k) = n + 1 /\ (\A i \in 1..n : k[i] = h[i]) /\ k[n + 1] = q
  BY <1>1, AppendProperties
<1>3. /\ to + 1 \in Int /\ n + 1 \in Int /\ \A i \in (to + 1)..n : i \in 1..n
      /\ \A i \in (to + 1)..(n + 1) : i \in 1..(n + 1)
  BY <1>1
<1>4. (\A i \in (to + 1)..n : h[i] \in R) /\ \A i \in (to + 1)..(n + 1) : k[i] \in R
  BY <1>1, <1>2, <1>3, ElementOfSeq
<1>5. PICK u \in Seq(R) : /\ u = SubSeq(h, to + 1, n)
                          /\ Len(u) = IF to + 1 <= n THEN n - (to + 1) + 1 ELSE 0
                          /\ \A i \in 1..(n - (to + 1) + 1) : u[i] = h[to + 1 + i - 1]
  <2>1. PICK u : u = SubSeq(h, to + 1, n) /\ IsSpan(u, h, to + 1, n, R)
    <3>1. to + 1 \in Int /\ n \in Int /\ \A i \in (to + 1)..(n) : h[i] \in R
      BY <1>3, <1>4
    <3> QED BY <3>1, SpanIs
  <2> QED BY <2>1 DEF IsSpan
<1>6. PICK v \in Seq(R) : /\ v = SubSeq(k, to + 1, n + 1)
                          /\ Len(v) = IF to + 1 <= n + 1 THEN n + 1 - (to + 1) + 1 ELSE 0
                          /\ \A i \in 1..(n + 1 - (to + 1) + 1) : v[i] = k[to + 1 + i - 1]
  <2>1. PICK v : v = SubSeq(k, to + 1, n + 1) /\ IsSpan(v, k, to + 1, n + 1, R)
    <3>1. to + 1 \in Int /\ n + 1 \in Int /\ \A i \in (to + 1)..(n + 1) : k[i] \in R
      BY <1>3, <1>4
    <3> QED BY <3>1, SpanIs
  <2>2. v \in Seq(R) /\ Len(v) = IF to + 1 <= n + 1 THEN n + 1 - (to + 1) + 1 ELSE 0
    BY <2>1 DEF IsSpan
  <2>3. \A i \in 1..(n + 1 - (to + 1) + 1) : v[i] = k[to + 1 + i - 1]
    BY <2>1 DEF IsSpan
  <2> QED BY <2>1, <2>2, <2>3
<1>7. PICK w \in Seq(R) : /\ w = Append(u, q) /\ Len(w) = Len(u) + 1
                          /\ (\A i \in 1..Len(u) : w[i] = u[i]) /\ w[Len(u) + 1] = q
  BY AppendProperties
<1>8. Len(u) = n - to /\ Len(v) = n - to + 1 /\ Len(w) = n - to + 1
  BY <1>1, <1>5, <1>6, <1>7
<1>9. ASSUME NEW i \in 1..(n - to + 1) PROVE w[i] = v[i]
  <2>1. v[i] = k[to + i]
    <3>1. i \in 1..(n + 1 - (to + 1) + 1) /\ to + 1 + i - 1 = to + i
      OBVIOUS
    <3> QED BY <1>6, <3>1
  <2>2. CASE i = n - to + 1
    <3>1. to + i = n + 1 /\ i = Len(u) + 1
      BY <1>8, <2>2
    <3> QED BY <1>2, <1>7, <2>1, <3>1
  <2>3. CASE i # n - to + 1
    <3>1. i \in 1..(n - (to + 1) + 1) /\ to + 1 + i - 1 = to + i /\ to + i \in 1..n /\ i \in 1..Len(u)
      BY <1>8, <2>3
    <3>2. u[i] = h[to + i] /\ w[i] = u[i]
      BY <1>5, <1>7, <3>1
    <3> QED BY <1>2, <2>1, <3>1, <3>2
  <2> QED BY <2>2, <2>3
<1>10. w = v
  <2>1. Len(w) = Len(v) /\ \A i \in 1..Len(w) : w[i] = v[i]
    BY <1>8, <1>9
  <2> QED BY <2>1, SeqEqual
<1> QED BY <1>1, <1>2, <1>5, <1>6, <1>7, <1>10 DEF Since

\* ... and begins empty.
LEMMA SinceEmpty ==
  ASSUME NEW R, NEW h \in Seq(R)
  PROVE  Since(h, Len(h)) = <<>>
<1>1. PICK n \in Nat : n = Len(h)
  BY LenProperties
<1>2. n + 1 \in Int /\ n \in Int /\ n < n + 1
  OBVIOUS
<1>3. SubSeq(h, n + 1, n) = <<>>
  BY <1>2, SubSeqEmpty
<1> QED BY <1>1, <1>3 DEF Since

\* The end of a sequence grows with it.
LEMMA EndOfAppend ==
  ASSUME NEW C \in Seq(Nat), NEW S \in Seq(Nat), EndOf(C, S), NEW x \in Nat
  PROVE  EndOf(Append(C, x), Append(S, x))
<1>1. PICK n \in Nat, m \in Nat : n = Len(S) /\ m = Len(C) /\ m <= n
  BY LenProperties DEF EndOf
<1>2. PICK U : U = Append(S, x) /\ Len(U) = n + 1 /\ (\A i \in 1..n : U[i] = S[i]) /\ U[n + 1] = x
  BY <1>1, AppendProperties
<1>3. PICK V : V = Append(C, x) /\ Len(V) = m + 1 /\ (\A i \in 1..m : V[i] = C[i]) /\ V[m + 1] = x
  BY <1>1, AppendProperties
<1>4. ASSUME NEW k \in 1..(m + 1) PROVE V[m + 1 + 1 - k] = U[n + 1 + 1 - k]
  <2>1. CASE k = 1
    <3>1. m + 1 + 1 - k = m + 1 /\ n + 1 + 1 - k = n + 1
      BY <2>1
    <3> QED BY <1>2, <1>3, <3>1
  <2>2. CASE k # 1
    <3>1. PICK j \in 1..m : j = k - 1 /\ m + 1 + 1 - k = m + 1 - j /\ n + 1 + 1 - k = n + 1 - j
      BY <2>2
    <3>2. m + 1 - j \in 1..m /\ n + 1 - j \in 1..n
      BY <1>1
    <3>3. C[m + 1 - j] = S[n + 1 - j]
      BY <1>1 DEF EndOf
    <3> QED BY <1>2, <1>3, <3>1, <3>2, <3>3
  <2> QED BY <2>1, <2>2
<1>5. m + 1 <= n + 1
  BY <1>1
<1> QED BY <1>2, <1>3, <1>4, <1>5 DEF EndOf

\* A ring of the edge: it has the newest samples of the whole history, and
\* added says how many of them are of the window.
RingOK(r, h, to, hit) ==
    /\ IsRing(r, RESERVOIR)
    /\ Holds(r, RESERVOIR, Samples(h, hit))
    /\ r.added = Len(Samples(Since(h, to), hit))
    /\ EndOf(Samples(Since(h, to), hit), Samples(h, hit))

\* The ring after one more request.
RingAfter(r, q, hit) ==
    IF q.backend \notin EMonitoring /\ (q.hit <=> hit) THEN Push(r, RESERVOIR, q.ns) ELSE r

\* Recording keeps a ring exact.
LEMMA RingRecord ==
  ASSUME NEW R, \A q \in R : q.ns \in Nat, NEW h \in Seq(R), NEW q \in R, NEW to \in Nat, to <= Len(h),
         NEW hit, NEW r, RingOK(r, h, to, hit)
  PROVE  RingOK(RingAfter(r, q, hit), Append(h, q), to, hit)
<1>0. RESERVOIR \in Nat \ {0} /\ q.ns \in Nat
  BY StatsAssumption
<1>1. PICK c \in Seq(R) : c = Since(h, to) /\ Since(Append(h, q), to) = Append(c, q)
  BY SinceAppend
<1>2. PICK S \in Seq(Nat) : S = Samples(h, hit) /\ Samples(Append(h, q), hit) = Sampled(hit, S, q)
  BY SamplesAppend
<1>3. PICK C \in Seq(Nat) : C = Samples(c, hit) /\ Samples(Append(c, q), hit) = Sampled(hit, C, q)
  BY SamplesAppend
<1>4. IsRing(r, RESERVOIR) /\ Holds(r, RESERVOIR, S) /\ r.added = Len(C) /\ EndOf(C, S)
  BY <1>1, <1>2, <1>3 DEF RingOK
<1>5. CASE Measured(q, hit)
  <2>1. RingAfter(r, q, hit) = Push(r, RESERVOIR, q.ns) /\ q.ns \in Nat \ {0}
    BY <1>0, <1>5 DEF Measured, RingAfter
  <2>2. Samples(Append(h, q), hit) = Append(S, q.ns) /\ Samples(Append(c, q), hit) = Append(C, q.ns)
    BY <1>2, <1>3, <1>5 DEF Sampled
  <2>3. PICK p : p = Push(r, RESERVOIR, q.ns) /\ IsRing(p, RESERVOIR) /\ Holds(p, RESERVOIR, Append(S, q.ns))
                 /\ p.added = r.added + 1
    BY <1>0, <1>4, <2>1, PushOK
  <2>4. p.added = Len(Append(C, q.ns))
    BY <1>0, <1>4, <2>3, AppendProperties
  <2>5. EndOf(Append(C, q.ns), Append(S, q.ns))
    BY <1>0, <1>4, EndOfAppend
  <2> QED BY <1>1, <2>1, <2>2, <2>3, <2>4, <2>5 DEF RingOK
<1>6. CASE ~Measured(q, hit)
  <2>1. RingAfter(r, q, hit) = r
    BY <1>0, <1>6 DEF Measured, RingAfter, Push
  <2>2. Samples(Append(h, q), hit) = S /\ Samples(Append(c, q), hit) = C
    BY <1>2, <1>3, <1>6 DEF Sampled
  <2> QED BY <1>1, <1>4, <2>1, <2>2 DEF RingOK
<1> QED BY <1>5, <1>6

\* A new window has none of the samples.
LEMMA RingEmit ==
  ASSUME NEW R, \A q \in R : q.ns \in Nat, NEW h \in Seq(R), NEW to \in Nat,
         NEW hit, NEW r, RingOK(r, h, to, hit), Samples(h, hit) \in Seq(Nat)
  PROVE  RingOK([r EXCEPT !.added = 0], h, Len(h), hit)
<1>1. PICK buf \in [0..(RESERVOIR - 1) -> Int], idx \in 0..(RESERVOIR - 1), count \in 0..RESERVOIR, added \in Nat :
        r = [buf |-> buf, idx |-> idx, count |-> count, added |-> added]
  BY DEF RingOK, IsRing
<1>2. PICK p : p = [r EXCEPT !.added = 0]
  OBVIOUS
<1>3. p = [buf |-> buf, idx |-> idx, count |-> count, added |-> 0]
  BY <1>1, <1>2
<1>4. IsRing(p, RESERVOIR)
  <2>1. PICK a \in Nat : a = 0
    OBVIOUS
  <2>2. p = [buf |-> buf, idx |-> idx, count |-> count, added |-> a]
    BY <1>3, <2>1
  <2> QED BY <2>2 DEF IsRing
<1>5. p.buf = r.buf /\ p.idx = r.idx /\ p.count = r.count /\ p.added = 0
  BY <1>1, <1>3
<1>6. Holds(p, RESERVOIR, Samples(h, hit))
  BY <1>5 DEF RingOK, Holds
<1>7. Samples(Since(h, Len(h)), hit) = <<>> /\ Len(<<>>) = 0
  BY SinceEmpty, SamplesEmpty, EmptySeq
<1>8. EndOf(<<>>, Samples(h, hit))
  <2>1. PICK n \in Nat : n = Len(Samples(h, hit))
    BY LenProperties
  <2>2. 0 <= n /\ 1..0 = {}
    OBVIOUS
  <2> QED BY <1>7, <2>1, <2>2 DEF EndOf
<1> QED BY <1>2, <1>4, <1>5, <1>6, <1>7, <1>8 DEF RingOK

\* What the line and /perf read from a ring.
LEMMA RingRead ==
  ASSUME NEW R, \A q \in R : q.ns \in Nat, NEW h \in Seq(R), NEW to \in Nat,
         NEW hit, NEW r, RingOK(r, h, to, hit), Samples(h, hit) \in Seq(Nat),
         Samples(Since(h, to), hit) \in Seq(Nat)
  PROVE  /\ Newest(r, RESERVOIR, r.added) = LastOf(Samples(Since(h, to), hit), RESERVOIR)
         /\ Newest(r, RESERVOIR, RESERVOIR) = LastOf(Samples(h, hit), RESERVOIR)
<1>1. RESERVOIR \in Nat \ {0} /\ RESERVOIR \in Nat
  BY StatsAssumption
<1>2. PICK S \in Seq(Nat), C \in Seq(Nat) : S = Samples(h, hit) /\ C = Samples(Since(h, to), hit)
  OBVIOUS
<1>3. IsRing(r, RESERVOIR) /\ Holds(r, RESERVOIR, S) /\ r.added = Len(C) /\ EndOf(C, S)
  BY <1>2 DEF RingOK
<1>4. PICK take \in Nat : take = r.added /\ take = Len(C)
  BY <1>3, LenProperties
<1>5. Newest(r, RESERVOIR, take) = LastOf(C, RESERVOIR)
  BY <1>1, <1>3, <1>4, NewestOK
<1>6. EndOf(S, S)
  <2>1. PICK n \in Nat : n = Len(S)
    BY LenProperties
  <2>2. n <= n
    OBVIOUS
  <2> QED BY <2>1, <2>2 DEF EndOf
<1>7. Newest(r, RESERVOIR, RESERVOIR) = LastOf(S, RESERVOIR)
  BY <1>1, <1>3, <1>6, NewestOK
<1> QED BY <1>2, <1>4, <1>5, <1>7

\* Samples are naturals.
LEMMA SamplesSeq ==
  ASSUME NEW R, \A r \in R : r.ns \in Nat, NEW h \in Seq(R), NEW hit
  PROVE  Samples(h, hit) \in Seq(Nat)
<1>1. PICK n \in Nat : n = Len(h)
  BY LenProperties
<1>2. PICK F : SampleRun(F, n, h, hit) /\ Samples(h, hit) = F[n]
  BY <1>1, SamplesRun
<1>3. n \in 0..n
  OBVIOUS
<1> QED BY <1>2, <1>3 DEF SampleRun

\* The site's requests of a complete span stay what they were ...
LEMMA SiteKept ==
  ASSUME NEW R, NEW h \in Seq(R), NEW q \in R, NEW a \in Nat, NEW b \in Nat, b <= Len(h), NEW hit
  PROVE  SiteRequests(Append(h, q), a, b, hit) = SiteRequests(h, a, b, hit)
<1>1. PICK n \in Nat : n = Len(h) /\ b <= n
  BY LenProperties
<1>2. PICK k : k = Append(h, q)
  OBVIOUS
<1>3. \A i \in 1..n : k[i] = h[i]
  BY <1>1, <1>2, AppendProperties
<1>4. \A i \in (a + 1)..b : i \in 1..n
  BY <1>1
<1>5. \A i \in (a + 1)..b : k[i] = h[i]
  BY <1>3, <1>4
<1> QED BY <1>2, <1>5 DEF SiteRequests

\* ... and those of the window are finite and grow by the request, if it is one.
LEMMA SiteAppend ==
  ASSUME NEW R, NEW h \in Seq(R), NEW q \in R, NEW to \in Nat, to <= Len(h), NEW hit
  PROVE  LET A == SiteRequests(h, to, Len(h), hit)
             B == SiteRequests(Append(h, q), to, Len(Append(h, q)), hit)
         IN  /\ Cardinality(A) \in Nat
             /\ Cardinality(B) = Cardinality(A)
                                  + One(q.backend \notin EMonitoring /\ (q.hit <=> hit))
<1>1. PICK n \in Nat : n = Len(h) /\ to <= n
  BY LenProperties
<1>2. PICK k : k = Append(h, q)
  OBVIOUS
<1>3. Len(k) = n + 1 /\ (\A i \in 1..n : k[i] = h[i]) /\ k[n + 1] = q
  BY <1>1, <1>2, AppendProperties
<1>4. PICK A, B : A = SiteRequests(h, to, n, hit) /\ B = SiteRequests(k, to, n + 1, hit)
  OBVIOUS
<1>5. A \subseteq (to + 1)..n /\ n + 1 \notin A
  BY <1>4 DEF SiteRequests
<1>6. IsFiniteSet(A)
  <2>1. IsFiniteSet((to + 1)..n)
    BY FS_Interval
  <2> QED BY <1>5, <2>1, FS_Subset
<1>7. ASSUME NEW i PROVE i \in B <=> i \in A \/ (i = n + 1 /\ q.backend \notin EMonitoring /\ (q.hit <=> hit))
  <2>1. CASE i \in (to + 1)..n
    <3>1. i \in 1..n /\ i \in (to + 1)..(n + 1) /\ i # n + 1
      BY <2>1
    <3> QED BY <1>3, <1>4, <2>1, <3>1 DEF SiteRequests
  <2>2. CASE i = n + 1
    <3>1. n + 1 \in (to + 1)..(n + 1)
      BY <1>1
    <3> QED BY <1>3, <1>4, <1>5, <2>2, <3>1 DEF SiteRequests
  <2>3. CASE i \notin (to + 1)..n /\ i # n + 1
    <3>1. i \notin (to + 1)..(n + 1)
      BY <2>3
    <3> QED BY <1>4, <1>5, <2>3, <3>1 DEF SiteRequests
  <2> QED BY <2>1, <2>2, <2>3
<1>8. Cardinality(A) \in Nat
  BY <1>6, FS_CardinalityType
<1>9. CASE q.backend \notin EMonitoring /\ (q.hit <=> hit)
  <2>1. B = A \cup {n + 1}
    BY <1>7, <1>9
  <2>2. Cardinality(B) = Cardinality(A) + 1
    BY <1>5, <1>6, <2>1, FS_AddElement
  <2> QED BY <1>1, <1>2, <1>3, <1>4, <1>8, <1>9, <2>2 DEF One
<1>10. CASE ~(q.backend \notin EMonitoring /\ (q.hit <=> hit))
  <2>1. B = A
    BY <1>7, <1>10
  <2> QED BY <1>1, <1>2, <1>3, <1>4, <1>8, <1>10, <2>1 DEF One
<1> QED BY <1>9, <1>10

\* A new window has none.
LEMMA SiteNone ==
  ASSUME NEW n \in Nat, NEW h, NEW hit
  PROVE  Cardinality(SiteRequests(h, n, n, hit)) = 0
<1>1. (n + 1)..n = {}
  OBVIOUS
<1>2. SiteRequests(h, n, n, hit) = {}
  BY <1>1 DEF SiteRequests
<1> QED BY <1>2, FS_EmptySet

\* The counters of the window.
WindowOK(w, h, to) ==
    /\ w.hits = Cardinality(SiteRequests(h, to, Len(h), TRUE))
    /\ w.misses = Cardinality(SiteRequests(h, to, Len(h), FALSE))

\* The window after one more request.
WindowAfter(w, q, failed) == IF q.backend \in EMonitoring THEN w ELSE Tallied(w, q, failed)

\* Recording keeps the window's counters exact.
LEMMA WindowRecord ==
  ASSUME NEW R, NEW h \in Seq(R), NEW q \in R, q.hit \in BOOLEAN, NEW to \in Nat, to <= Len(h),
         NEW w, WindowOK(w, h, to), NEW failed
  PROVE  WindowOK(WindowAfter(w, q, failed), Append(h, q), to)
<1>1. PICK a, b : /\ a = Cardinality(SiteRequests(h, to, Len(h), TRUE))
                  /\ b = Cardinality(SiteRequests(h, to, Len(h), FALSE))
  OBVIOUS
<1>2. PICK c, d : /\ c = Cardinality(SiteRequests(Append(h, q), to, Len(Append(h, q)), TRUE))
                  /\ d = Cardinality(SiteRequests(Append(h, q), to, Len(Append(h, q)), FALSE))
  OBVIOUS
<1>3. a \in Nat /\ c = a + One(q.backend \notin EMonitoring /\ (q.hit <=> TRUE))
  BY <1>1, <1>2, SiteAppend
<1>4. b \in Nat /\ d = b + One(q.backend \notin EMonitoring /\ (q.hit <=> FALSE))
  BY <1>1, <1>2, SiteAppend
<1>5. w.hits = a /\ w.misses = b
  BY <1>1 DEF WindowOK
<1>6. CASE q.backend \in EMonitoring
  <2>1. c = a /\ d = b
    BY <1>3, <1>4, <1>6 DEF One
  <2> QED BY <1>2, <1>5, <1>6, <2>1 DEF WindowOK, WindowAfter
<1>7. CASE q.backend \notin EMonitoring
  <2>1. c = a + One(q.hit) /\ d = b + One(~q.hit)
    BY <1>3, <1>4, <1>7 DEF One
  <2>2. PICK x : x = Tallied(w, q, failed)
    OBVIOUS
  <2>3. x.hits = w.hits + One(q.hit)
    BY <2>2 DEF Tallied
  <2>4. x.misses = w.misses + One(~q.hit)
    BY <2>2 DEF Tallied
  <2> QED BY <1>2, <1>5, <1>7, <2>1, <2>2, <2>3, <2>4 DEF WindowOK, WindowAfter
<1> QED BY <1>6, <1>7

\* A channel's counters and rings.
IsChannel(c) ==
    /\ c = [tally |-> c.tally, hit |-> c.hit, miss |-> c.miss, full |-> c.full, resumed |-> c.resumed]
    /\ c.tally.requests \in Nat

\* The channels.
ChannelsOK(ch) ==
    /\ ch = [c \in EChannels |-> ch[c]]
    /\ \A c \in EChannels : IsChannel(ch[c])

\* The requests of all channels.
ChannelRequests(ch) == SumFunction([c \in EChannels |-> ch[c].tally.requests])

\* There are finitely many channels.
LEMMA ChannelsFinite == IsFiniteSet(EChannels)
<1>1. IsFiniteSet({"external", "internal"})
  <2>1. IsFiniteSet({}) 
    BY FS_EmptySet
  <2>2. IsFiniteSet({} \cup {"external"})
    BY <2>1, FS_AddElement
  <2>3. IsFiniteSet(({} \cup {"external"}) \cup {"internal"})
    BY <2>2, FS_AddElement
  <2>4. ({} \cup {"external"}) \cup {"internal"} = {"external", "internal"}
    OBVIOUS
  <2> QED BY <2>3, <2>4
<1> QED BY <1>1, StatsAssumption, FS_Product DEF EChannels

\* One channel written with d requests more makes d more of all.
LEMMA ChannelWritten ==
  ASSUME NEW ch, ChannelsOK(ch), NEW x \in EChannels, NEW v, IsChannel(v), NEW d \in Nat,
         v.tally.requests = ch[x].tally.requests + d
  PROVE  /\ ChannelsOK([ch EXCEPT ![x] = v])
         /\ ChannelRequests(ch) \in Nat
         /\ ChannelRequests([ch EXCEPT ![x] = v]) = ChannelRequests(ch) + d
<1>1. PICK new : new = [ch EXCEPT ![x] = v]
  OBVIOUS
<1>2. new = [c \in EChannels |-> new[c]] /\ \A c \in EChannels : new[c] = IF c = x THEN v ELSE ch[c]
  BY <1>1 DEF ChannelsOK
<1>3. ChannelsOK(new)
  BY <1>2 DEF ChannelsOK
<1>4. PICK e, f : /\ e = [c \in EChannels |-> ch[c].tally.requests]
                  /\ f = [c \in EChannels |-> new[c].tally.requests]
  OBVIOUS
<1>5. DOMAIN e = EChannels /\ DOMAIN f = EChannels
  BY <1>4
<1>6. ChannelRequests(ch) = SumFunctionOnSet(e, EChannels) /\ ChannelRequests(new) = SumFunctionOnSet(f, EChannels)
  BY <1>4, <1>5 DEF ChannelRequests, SumFunction
<1>7. (\A c \in EChannels : e[c] \in Nat /\ f[c] \in Nat) /\ f[x] = e[x] + d /\ \A c \in EChannels \ {x} : f[c] = e[c]
  <2>1. \A c \in EChannels : e[c] = ch[c].tally.requests /\ f[c] = new[c].tally.requests
    BY <1>4
  <2>2. \A c \in EChannels : ch[c].tally.requests \in Nat /\ new[c].tally.requests \in Nat
    BY <1>3 DEF ChannelsOK, IsChannel
  <2> QED BY <1>2, <2>1, <2>2
<1>8. IsFiniteSet(EChannels \ {x})
  BY ChannelsFinite, FS_RemoveElement
<1>9. PICK rest \in Nat : rest = SumFunctionOnSet(e, EChannels \ {x}) /\ rest = SumFunctionOnSet(f, EChannels \ {x})
  <2>1. SumFunctionOnSet(e, EChannels \ {x}) \in Nat
    BY <1>7, <1>8, SumNat
  <2>2. SumFunctionOnSet(f, EChannels \ {x}) = SumFunctionOnSet(e, EChannels \ {x})
    BY <1>7, <1>8, SumSame
  <2> QED BY <2>1, <2>2
<1>10. SumFunctionOnSet(e, EChannels) = e[x] + rest /\ SumFunctionOnSet(f, EChannels) = f[x] + rest
  <2>1. (\A c \in EChannels : e[c] \in Nat) /\ \A c \in EChannels : f[c] \in Nat
    BY <1>7
  <2>2. SumFunctionOnSet(e, EChannels) = e[x] + SumFunctionOnSet(e, EChannels \ {x})
    BY <2>1, ChannelsFinite, SumRemove
  <2>3. SumFunctionOnSet(f, EChannels) = f[x] + SumFunctionOnSet(f, EChannels \ {x})
    BY <2>1, ChannelsFinite, SumRemove
  <2> QED BY <1>9, <2>2, <2>3
<1>11. e[x] \in Nat /\ f[x] = e[x] + d
  BY <1>7
<1> QED BY <1>1, <1>3, <1>6, <1>9, <1>10, <1>11

\* The totals.
TotalsOK(total, ch) ==
    /\ ChannelsOK(ch)
    /\ total.requests = ChannelRequests(ch)
    /\ total.hits \in Nat /\ total.misses \in Nat
    /\ total.requests = total.hits + total.misses

\* A request of the site is one more, a hit or a miss, on its channel.
LEMMA TotalsRecord ==
  ASSUME NEW total, NEW ch, TotalsOK(total, ch), NEW q, q.hit \in BOOLEAN, q.channel \in EChannels, NEW failed
  PROVE  TotalsOK(Tallied(total, q, failed), [ch EXCEPT ![q.channel] = OnChannel(ch[q.channel], q, failed)])
<1>1. PICK x \in EChannels : x = q.channel
  OBVIOUS
<1>2. PICK c : c = ch[x] /\ IsChannel(c)
  BY DEF TotalsOK, ChannelsOK
<1>3. PICK v : v = OnChannel(c, q, failed)
  OBVIOUS
<1>4. /\ v = [tally |-> v.tally, hit |-> v.hit, miss |-> v.miss, full |-> v.full, resumed |-> v.resumed]
      /\ v.tally = Tallied(c.tally, q, failed)
  BY <1>2, <1>3 DEF OnChannel, IsChannel
<1>5. v.tally.requests = c.tally.requests + 1
  BY <1>4 DEF Tallied
<1>6. IsChannel(v)
  BY <1>2, <1>4, <1>5 DEF IsChannel
<1>7. PICK new : new = [ch EXCEPT ![x] = v] /\ ChannelsOK(new) /\ ChannelRequests(ch) \in Nat /\ ChannelRequests(new) = ChannelRequests(ch) + 1
  <2>1. ChannelsOK(ch) /\ 1 \in Nat /\ v.tally.requests = ch[x].tally.requests + 1
    BY <1>2, <1>5 DEF TotalsOK
  <2>2. PICK new : new = [ch EXCEPT ![x] = v]
    OBVIOUS
  <2>3. ChannelsOK([ch EXCEPT ![x] = v]) /\ ChannelRequests(ch) \in Nat
    BY <1>6, <2>1, ChannelWritten
  <2>4. ChannelRequests([ch EXCEPT ![x] = v]) = ChannelRequests(ch) + 1
    BY <1>6, <2>1, ChannelWritten
  <2> QED BY <2>2, <2>3, <2>4
<1>8. PICK t : t = Tallied(total, q, failed)
  OBVIOUS
<1>9. t.requests = total.requests + 1 /\ t.hits = total.hits + One(q.hit) /\ t.misses = total.misses + One(~q.hit)
  BY <1>8 DEF Tallied
<1>10. /\ total.requests \in Nat /\ total.hits \in Nat /\ total.misses \in Nat
       /\ total.requests = total.hits + total.misses /\ total.requests = ChannelRequests(ch)
  BY <1>7 DEF TotalsOK
<1>11. t.hits \in Nat /\ t.misses \in Nat /\ t.requests = t.hits + t.misses
  BY <1>9, <1>10 DEF One
<1>12. TotalsOK(t, new)
  BY <1>7, <1>9, <1>10, <1>11 DEF TotalsOK
<1> QED BY <1>1, <1>2, <1>3, <1>7, <1>8, <1>12

\* A handshake is none.
LEMMA TotalsHandshake ==
  ASSUME NEW total, NEW ch, TotalsOK(total, ch), NEW h, h.channel \in EChannels
  PROVE  TotalsOK(total, [ch EXCEPT ![h.channel] = Shaken(ch[h.channel], h)])
<1>1. PICK x \in EChannels : x = h.channel
  OBVIOUS
<1>2. PICK c : c = ch[x] /\ IsChannel(c)
  BY DEF TotalsOK, ChannelsOK
<1>3. PICK v : v = Shaken(c, h)
  OBVIOUS
<1>4. /\ v = [tally |-> v.tally, hit |-> v.hit, miss |-> v.miss, full |-> v.full, resumed |-> v.resumed]
      /\ v.tally = c.tally
  BY <1>2, <1>3 DEF Shaken, IsChannel
<1>5. IsChannel(v) /\ v.tally.requests = c.tally.requests + 0
  BY <1>2, <1>4 DEF IsChannel
<1>7. PICK new : new = [ch EXCEPT ![x] = v] /\ ChannelsOK(new) /\ ChannelRequests(ch) \in Nat /\ ChannelRequests(new) = ChannelRequests(ch) + 0
  <2>1. ChannelsOK(ch) /\ 0 \in Nat /\ v.tally.requests = ch[x].tally.requests + 0
    BY <1>2, <1>5 DEF TotalsOK
  <2>2. PICK new : new = [ch EXCEPT ![x] = v]
    OBVIOUS
  <2>3. ChannelsOK([ch EXCEPT ![x] = v]) /\ ChannelRequests(ch) \in Nat
    BY <1>5, <2>1, ChannelWritten
  <2>4. ChannelRequests([ch EXCEPT ![x] = v]) = ChannelRequests(ch) + 0
    BY <1>5, <2>1, ChannelWritten
  <2> QED BY <2>2, <2>3, <2>4
<1>8. ChannelRequests(new) = ChannelRequests(ch)
  BY <1>7
<1>9. TotalsOK(total, new)
  BY <1>7, <1>8 DEF TotalsOK
<1> QED BY <1>1, <1>2, <1>3, <1>7, <1>9

\* The counters of the edge, as the record they are.
IsStats(s) ==
    s = [total |-> s.total, window |-> s.window, monitor |-> s.monitor, windowMonitor |-> s.windowMonitor,
         byName |-> s.byName, status |-> s.status, hit |-> s.hit, miss |-> s.miss, polls |-> s.polls,
         channels |-> s.channels, lastEmit |-> s.lastEmit]

\* They are exact for the history h, the first to requests of which are in a line.
StatsOK(s, h, to) ==
    /\ IsStats(s)
    /\ RingOK(s.hit, h, to, TRUE)
    /\ RingOK(s.miss, h, to, FALSE)
    /\ WindowOK(s.window, h, to)
    /\ TotalsOK(s.total, s.channels)

\* What is recorded: requests and scrapes.
EEvents == ERequests \cup {[ns |-> q.ns, hit |-> FALSE, backend |-> "perf"] : q \in EScrapes}

\* A scrape as it is recorded.
LEMMA PollIs ==
  ASSUME NEW q \in EScrapes, NEW r, r = [ns |-> q.ns, hit |-> FALSE, backend |-> "perf"]
  PROVE  r \in EEvents /\ r.ns \in Nat /\ r.hit \in BOOLEAN /\ r.backend \in EMonitoring
<1>1. r \in EEvents
  BY DEF EEvents
<1>2. r.ns = q.ns /\ r.backend = "perf"
  OBVIOUS
<1>3. r.hit \in BOOLEAN
  BY Zenon
<1>4. q.ns \in Nat
  BY SamplesAssumption
<1> QED BY <1>1, <1>2, <1>3, <1>4 DEF EMonitoring

\* Latencies are naturals and every event is a hit or not.
LEMMA EventTypes == \A r \in EEvents : r.ns \in Nat /\ r.hit \in BOOLEAN
<1>1. ASSUME NEW r \in ERequests PROVE r.ns \in Nat /\ r.hit \in BOOLEAN
  BY SamplesAssumption
<1>2. ASSUME NEW r \in {[ns |-> q.ns, hit |-> FALSE, backend |-> "perf"] : q \in EScrapes}
      PROVE  r.ns \in Nat /\ r.hit \in BOOLEAN
  <2>1. PICK q \in EScrapes : r = [ns |-> q.ns, hit |-> FALSE, backend |-> "perf"]
    OBVIOUS
  <2> QED BY <2>1, PollIs
<1> QED BY <1>1, <1>2 DEF EEvents

\* A poll of a monitor counts for nothing of the site's.
LEMMA StatsPolled ==
  ASSUME NEW h \in Seq(EEvents), NEW r \in EEvents, r.backend \in EMonitoring, NEW to \in Nat, to <= Len(h),
         NEW s, StatsOK(s, h, to)
  PROVE  StatsOK(Polled(s, r), Append(h, r), to)
<1>0. (\A x \in EEvents : x.ns \in Nat) /\ r.hit \in BOOLEAN
  BY EventTypes
<1>1. PICK n : n = Polled(s, r)
  OBVIOUS
<1>2. /\ IsStats(n) /\ n.hit = s.hit /\ n.miss = s.miss /\ n.window = s.window
      /\ n.total = s.total /\ n.channels = s.channels
  BY <1>1 DEF StatsOK, IsStats, Polled
<1>3. RingOK(n.hit, Append(h, r), to, TRUE)
  <2>1. RingOK(RingAfter(s.hit, r, TRUE), Append(h, r), to, TRUE)
    BY <1>0, RingRecord DEF StatsOK
  <2> QED BY <1>2, <2>1 DEF RingAfter
<1>4. RingOK(n.miss, Append(h, r), to, FALSE)
  <2>1. RingOK(RingAfter(s.miss, r, FALSE), Append(h, r), to, FALSE)
    BY <1>0, RingRecord DEF StatsOK
  <2> QED BY <1>2, <2>1 DEF RingAfter
<1>5. WindowOK(n.window, Append(h, r), to)
  <2>1. WindowOK(WindowAfter(s.window, r, FALSE), Append(h, r), to)
    BY <1>0, WindowRecord DEF StatsOK
  <2> QED BY <1>2, <2>1 DEF WindowAfter
<1>6. TotalsOK(n.total, n.channels)
  BY <1>2 DEF StatsOK
<1> QED BY <1>1, <1>2, <1>3, <1>4, <1>5, <1>6 DEF StatsOK

\* A request of the site is counted wherever it belongs.
LEMMA StatsServed ==
  ASSUME NEW h \in Seq(EEvents), NEW r \in ERequests, r.backend \notin EMonitoring, NEW to \in Nat, to <= Len(h),
         NEW s, StatsOK(s, h, to)
  PROVE  StatsOK(Served(s, r), Append(h, r), to)
<1>0. (\A x \in EEvents : x.ns \in Nat) /\ r \in EEvents /\ r.hit \in BOOLEAN /\ r.channel \in EChannels
  BY EventTypes, SamplesAssumption DEF EEvents
<1>1. PICK n, failed : n = Served(s, r) /\ failed = (r.status >= 500 /\ r.backend \notin SelfGenerated)
  OBVIOUS
<1>2. /\ IsStats(n)
      /\ n.hit = (IF r.hit THEN Push(s.hit, RESERVOIR, r.ns) ELSE s.hit)
      /\ n.miss = (IF r.hit THEN s.miss ELSE Push(s.miss, RESERVOIR, r.ns))
  BY <1>1 DEF StatsOK, IsStats, Served
<1>21. n.window = Tallied(s.window, r, failed)
  BY <1>1 DEF StatsOK, IsStats, Served
<1>22. n.total = Tallied(s.total, r, failed)
  BY <1>1 DEF StatsOK, IsStats, Served
<1>23. n.channels = [s.channels EXCEPT ![r.channel] = OnChannel(s.channels[r.channel], r, failed)]
  BY <1>1 DEF StatsOK, IsStats, Served
<1>3. RingOK(n.hit, Append(h, r), to, TRUE)
  <2>1. RingOK(RingAfter(s.hit, r, TRUE), Append(h, r), to, TRUE)
    BY <1>0, RingRecord DEF StatsOK
  <2>2. RingAfter(s.hit, r, TRUE) = n.hit
    BY <1>0, <1>2 DEF RingAfter
  <2> QED BY <2>1, <2>2
<1>4. RingOK(n.miss, Append(h, r), to, FALSE)
  <2>1. RingOK(RingAfter(s.miss, r, FALSE), Append(h, r), to, FALSE)
    BY <1>0, RingRecord DEF StatsOK
  <2>2. RingAfter(s.miss, r, FALSE) = n.miss
    BY <1>0, <1>2 DEF RingAfter
  <2> QED BY <2>1, <2>2
<1>5. WindowOK(n.window, Append(h, r), to)
  <2>1. WindowOK(WindowAfter(s.window, r, failed), Append(h, r), to)
    BY <1>0, WindowRecord DEF StatsOK
  <2> QED BY <1>21, <2>1 DEF WindowAfter
<1>6. TotalsOK(n.total, n.channels)
  BY <1>0, <1>22, <1>23, TotalsRecord DEF StatsOK
<1> QED BY <1>1, <1>2, <1>3, <1>4, <1>5, <1>6 DEF StatsOK

\* A handshake leaves all of it alone.
LEMMA StatsShaken ==
  ASSUME NEW s, NEW h, NEW to, StatsOK(s, h, to), NEW x, x.channel \in EChannels
  PROVE  StatsOK([s EXCEPT !.channels[x.channel] = Shaken(s.channels[x.channel], x)], h, to)
<1>1. PICK n : n = [s EXCEPT !.channels[x.channel] = Shaken(s.channels[x.channel], x)]
  OBVIOUS
<1>2. /\ IsStats(n) /\ n.hit = s.hit /\ n.miss = s.miss /\ n.window = s.window /\ n.total = s.total
      /\ n.channels = [s.channels EXCEPT ![x.channel] = Shaken(s.channels[x.channel], x)]
  BY <1>1 DEF StatsOK, IsStats
<1>3. TotalsOK(n.total, n.channels)
  BY <1>2, TotalsHandshake DEF StatsOK
<1> QED BY <1>1, <1>2, <1>3 DEF StatsOK

\* A line starts a new window and takes nothing from the rings.
LEMMA StatsEmitted ==
  ASSUME NEW h \in Seq(EEvents), NEW to \in Nat, NEW s, StatsOK(s, h, to)
  PROVE  StatsOK(Emitted(s), h, Len(h))
<1>0. \A x \in EEvents : x.ns \in Nat
  BY EventTypes
<1>1. PICK n : n = Emitted(s)
  OBVIOUS
<1>2. /\ IsStats(n) /\ n.window = NoTally /\ n.total = s.total /\ n.channels = s.channels
      /\ n.hit = [s.hit EXCEPT !.added = 0] /\ n.miss = [s.miss EXCEPT !.added = 0]
  BY <1>1 DEF StatsOK, IsStats, Emitted
<1>3. RingOK(n.hit, h, Len(h), TRUE)
  <2>1. Samples(h, TRUE) \in Seq(Nat) /\ RingOK(s.hit, h, to, TRUE)
    BY <1>0, SamplesSeq DEF StatsOK
  <2>2. PICK r : r = s.hit
    OBVIOUS
  <2>3. RingOK(r, h, to, TRUE)
    BY <2>1, <2>2
  <2>4. RingOK([r EXCEPT !.added = 0], h, Len(h), TRUE)
    BY <1>0, <2>1, <2>3, RingEmit
  <2> QED BY <1>2, <2>2, <2>4
<1>4. RingOK(n.miss, h, Len(h), FALSE)
  <2>1. Samples(h, FALSE) \in Seq(Nat) /\ RingOK(s.miss, h, to, FALSE)
    BY <1>0, SamplesSeq DEF StatsOK
  <2>2. PICK r : r = s.miss
    OBVIOUS
  <2>3. RingOK(r, h, to, FALSE)
    BY <2>1, <2>2
  <2>4. RingOK([r EXCEPT !.added = 0], h, Len(h), FALSE)
    BY <1>0, <2>1, <2>3, RingEmit
  <2> QED BY <1>2, <2>2, <2>4
<1>5. WindowOK(n.window, h, Len(h))
  <2>1. Len(h) \in Nat
    BY LenProperties
  <2>2. n.window.hits = 0 /\ n.window.misses = 0
    BY <1>2 DEF NoTally
  <2> QED BY <2>1, <2>2, SiteNone DEF WindowOK
<1>6. TotalsOK(n.total, n.channels)
  BY <1>2 DEF StatsOK
<1> QED BY <1>1, <1>2, <1>3, <1>4, <1>5, <1>6 DEF StatsOK

\* What was recorded since is events.
LEMMA SinceSeq ==
  ASSUME NEW h \in Seq(EEvents), NEW to \in Nat
  PROVE  Since(h, to) \in Seq(EEvents)
<1>1. PICK n \in Nat : n = Len(h)
  BY LenProperties
<1>2. \A i \in (to + 1)..n : i \in 1..n
  OBVIOUS
<1>3. to + 1 \in Int /\ n \in Int /\ \A i \in (to + 1)..n : h[i] \in EEvents
  BY <1>1, <1>2, ElementOfSeq
<1>4. PICK u : u = SubSeq(h, to + 1, n) /\ IsSpan(u, h, to + 1, n, EEvents)
  BY <1>3, SpanIs
<1> QED BY <1>1, <1>4 DEF Since, IsSpan

\* What a line says is true of its span.
LineExact(l, h) ==
    LET span == SubSeq(h, l.from + 1, l.to)
    IN  /\ l.line.tally.hits = Cardinality(SiteRequests(h, l.from, l.to, TRUE))
        /\ l.line.tally.misses = Cardinality(SiteRequests(h, l.from, l.to, FALSE))
        /\ l.line.hit = Percentiles(LastOf(Samples(span, TRUE), RESERVOIR))
        /\ l.line.miss = Percentiles(LastOf(Samples(span, FALSE), RESERVOIR))

\* What /perf said was true of the history then.
PerfExact(p, h) ==
    p.snap # <<>> =>
        LET past == SubSeq(h, 1, p.at)
        IN  /\ p.snap[1].hit = Percentiles(LastOf(Samples(past, TRUE), RESERVOIR))
            /\ p.snap[1].miss = Percentiles(LastOf(Samples(past, FALSE), RESERVOIR))

\* A line is about a part of the history that was complete.
Spans(l, h) == l.from \in Nat /\ l.to \in Nat /\ l.from <= l.to /\ l.to <= Len(h)

\* What a line says stays true as the history grows ...
LEMMA LineKept ==
  ASSUME NEW h \in Seq(EEvents), NEW q \in EEvents, NEW l, Spans(l, h), LineExact(l, h)
  PROVE  Spans(l, Append(h, q)) /\ LineExact(l, Append(h, q))
<1>1. PICK a \in Nat, b \in Nat : a = l.from /\ b = l.to /\ a <= b /\ b <= Len(h)
  BY DEF Spans
<1>2. Len(h) \in Nat /\ Len(Append(h, q)) = Len(h) + 1
  BY LenProperties, AppendProperties
<1>3. Spans(l, Append(h, q))
  BY <1>1, <1>2 DEF Spans
<1>4. SubSeq(Append(h, q), a + 1, b) = SubSeq(h, a + 1, b)
  <2>1. a + 1 \in Nat \ {0}
    OBVIOUS
  <2>2. PICK c \in Nat \ {0} : c = a + 1
    BY <2>1
  <2>3. SubSeq(Append(h, q), c, b) = SubSeq(h, c, b)
    BY <1>1, SpanKept
  <2> QED BY <2>2, <2>3
<1>5. /\ SiteRequests(Append(h, q), a, b, TRUE) = SiteRequests(h, a, b, TRUE)
      /\ SiteRequests(Append(h, q), a, b, FALSE) = SiteRequests(h, a, b, FALSE)
  <2>1. a \in Nat /\ b \in Nat /\ b <= Len(h)
    BY <1>1
  <2>2. SiteRequests(Append(h, q), a, b, TRUE) = SiteRequests(h, a, b, TRUE)
    <3>1. PICK y : y = TRUE
      OBVIOUS
    <3>2. SiteRequests(Append(h, q), a, b, y) = SiteRequests(h, a, b, y)
      BY <2>1, SiteKept
    <3> QED BY <3>1, <3>2, Zenon
  <2>3. SiteRequests(Append(h, q), a, b, FALSE) = SiteRequests(h, a, b, FALSE)
    <3>1. PICK y : y = FALSE
      OBVIOUS
    <3>2. SiteRequests(Append(h, q), a, b, y) = SiteRequests(h, a, b, y)
      BY <2>1, SiteKept
    <3> QED BY <3>1, <3>2, Zenon
  <2> QED BY <2>2, <2>3
<1> QED BY <1>1, <1>3, <1>4, <1>5 DEF LineExact

\* ... and what /perf said.
LEMMA PerfKept ==
  ASSUME NEW h \in Seq(EEvents), NEW q \in EEvents, NEW p, p.at \in Nat, p.at <= Len(h), PerfExact(p, h)
  PROVE  p.at <= Len(Append(h, q)) /\ PerfExact(p, Append(h, q))
<1>1. PICK b \in Nat : b = p.at /\ b <= Len(h)
  OBVIOUS
<1>2. Len(h) \in Nat /\ Len(Append(h, q)) = Len(h) + 1
  BY LenProperties, AppendProperties
<1>3. SubSeq(Append(h, q), 1, b) = SubSeq(h, 1, b)
  <2>1. 1 \in Nat \ {0}
    OBVIOUS
  <2> QED BY <1>1, <2>1, SpanKept
<1>4. p.at <= Len(Append(h, q))
  BY <1>1, <1>2
<1> QED BY <1>1, <1>3, <1>4 DEF PerfExact

\* A new line is true.
LEMMA LineNew ==
  ASSUME NEW h \in Seq(EEvents), NEW to \in Nat, to <= Len(h), NEW s, StatsOK(s, h, to),
         NEW l, l = [line |-> Window(s), from |-> to, to |-> Len(h)]
  PROVE  Spans(l, h) /\ LineExact(l, h)
<1>0. \A x \in EEvents : x.ns \in Nat
  BY EventTypes
<1>1. PICK w : w = Window(s)
  OBVIOUS
<1>2. l.line = w /\ l.from = to /\ l.to = Len(h)
  BY <1>1
<1>3. /\ w.tally = s.window
      /\ w.hit = Percentiles(Newest(s.hit, RESERVOIR, s.hit.added))
      /\ w.miss = Percentiles(Newest(s.miss, RESERVOIR, s.miss.added))
  BY <1>1 DEF Window
<1>4. Since(h, to) \in Seq(EEvents)
  BY SinceSeq
<1>5. Newest(s.hit, RESERVOIR, s.hit.added) = LastOf(Samples(Since(h, to), TRUE), RESERVOIR)
  <2>1. Samples(h, TRUE) \in Seq(Nat) /\ Samples(Since(h, to), TRUE) \in Seq(Nat) /\ RingOK(s.hit, h, to, TRUE)
    BY <1>0, <1>4, SamplesSeq DEF StatsOK
  <2>2. PICK r : r = s.hit
    OBVIOUS
  <2>3. RingOK(r, h, to, TRUE)
    BY <2>1, <2>2
  <2>4. /\ Newest(r, RESERVOIR, r.added) = LastOf(Samples(Since(h, to), TRUE), RESERVOIR)
        /\ Newest(r, RESERVOIR, RESERVOIR) = LastOf(Samples(h, TRUE), RESERVOIR)
    BY <1>0, <2>1, <2>3, RingRead
  <2> QED BY <2>2, <2>4
<1>6. Newest(s.miss, RESERVOIR, s.miss.added) = LastOf(Samples(Since(h, to), FALSE), RESERVOIR)
  <2>1. Samples(h, FALSE) \in Seq(Nat) /\ Samples(Since(h, to), FALSE) \in Seq(Nat) /\ RingOK(s.miss, h, to, FALSE)
    BY <1>0, <1>4, SamplesSeq DEF StatsOK
  <2>2. PICK r : r = s.miss
    OBVIOUS
  <2>3. RingOK(r, h, to, FALSE)
    BY <2>1, <2>2
  <2>4. /\ Newest(r, RESERVOIR, r.added) = LastOf(Samples(Since(h, to), FALSE), RESERVOIR)
        /\ Newest(r, RESERVOIR, RESERVOIR) = LastOf(Samples(h, FALSE), RESERVOIR)
    BY <1>0, <2>1, <2>3, RingRead
  <2> QED BY <2>2, <2>4
<1>7. /\ s.window.hits = Cardinality(SiteRequests(h, to, Len(h), TRUE))
      /\ s.window.misses = Cardinality(SiteRequests(h, to, Len(h), FALSE))
  BY DEF StatsOK, WindowOK
<1>8. SubSeq(h, l.from + 1, l.to) = Since(h, to)
  BY <1>2 DEF Since
<1>9. Spans(l, h)
  <2>1. Len(h) \in Nat /\ Len(h) <= Len(h)
    BY LenProperties
  <2> QED BY <1>2, <2>1 DEF Spans
<1> QED BY <1>2, <1>3, <1>5, <1>6, <1>7, <1>8, <1>9 DEF LineExact

\* A new answer of /perf is true.
LEMMA PerfNew ==
  ASSUME NEW h \in Seq(EEvents), NEW to \in Nat, to <= Len(h), NEW s, StatsOK(s, h, to),
         NEW p, NEW gate, p = [gate |-> gate, snap |-> <<Snapshot(s)>>, at |-> Len(h)]
  PROVE  p.at \in Nat /\ p.at <= Len(h) /\ PerfExact(p, h)
<1>0. (\A x \in EEvents : x.ns \in Nat) /\ Len(h) \in Nat
  BY EventTypes, LenProperties
<1>1. PICK w : w = Snapshot(s)
  OBVIOUS
<1>2. p.snap[1] = w /\ p.at = Len(h)
  BY <1>1
<1>3. /\ w.hit = Percentiles(Newest(s.hit, RESERVOIR, RESERVOIR))
      /\ w.miss = Percentiles(Newest(s.miss, RESERVOIR, RESERVOIR))
  BY <1>1 DEF Snapshot
<1>4. Since(h, to) \in Seq(EEvents)
  BY SinceSeq
<1>5. Newest(s.hit, RESERVOIR, RESERVOIR) = LastOf(Samples(h, TRUE), RESERVOIR)
  <2>1. Samples(h, TRUE) \in Seq(Nat) /\ Samples(Since(h, to), TRUE) \in Seq(Nat) /\ RingOK(s.hit, h, to, TRUE)
    BY <1>0, <1>4, SamplesSeq DEF StatsOK
  <2>2. PICK r : r = s.hit
    OBVIOUS
  <2>3. RingOK(r, h, to, TRUE)
    BY <2>1, <2>2
  <2>4. /\ Newest(r, RESERVOIR, r.added) = LastOf(Samples(Since(h, to), TRUE), RESERVOIR)
        /\ Newest(r, RESERVOIR, RESERVOIR) = LastOf(Samples(h, TRUE), RESERVOIR)
    BY <1>0, <2>1, <2>3, RingRead
  <2> QED BY <2>2, <2>4
<1>6. Newest(s.miss, RESERVOIR, RESERVOIR) = LastOf(Samples(h, FALSE), RESERVOIR)
  <2>1. Samples(h, FALSE) \in Seq(Nat) /\ Samples(Since(h, to), FALSE) \in Seq(Nat) /\ RingOK(s.miss, h, to, FALSE)
    BY <1>0, <1>4, SamplesSeq DEF StatsOK
  <2>2. PICK r : r = s.miss
    OBVIOUS
  <2>3. RingOK(r, h, to, FALSE)
    BY <2>1, <2>2
  <2>4. /\ Newest(r, RESERVOIR, r.added) = LastOf(Samples(Since(h, to), FALSE), RESERVOIR)
        /\ Newest(r, RESERVOIR, RESERVOIR) = LastOf(Samples(h, FALSE), RESERVOIR)
    BY <1>0, <2>1, <2>3, RingRead
  <2> QED BY <2>2, <2>4
<1>7. SubSeq(h, 1, Len(h)) = h
  BY SubSeqFull
<1>8. PerfExact(p, h)
  BY <1>2, <1>3, <1>5, <1>6, <1>7 DEF PerfExact
<1> QED BY <1>0, <1>2, <1>8

\* Nothing sums to nothing.
LEMMA SumZero ==
  ASSUME NEW S, IsFiniteSet(S), NEW f, \A x \in S : f[x] = 0
  PROVE  SumFunctionOnSet(f, S) = 0
<1> DEFINE U == {T \in SUBSET S : SumFunctionOnSet(f, T) = 0}
<1>1. {} \in U
  BY SumEmpty
<1>2. ASSUME NEW T \in SUBSET S, T # {}, \A x \in T : T \ {x} \in U PROVE T \in U
  <2>1. Pick(T) \in T /\ IsFiniteSet(T)
    BY <1>2, PickIn, FS_Subset
  <2>2. SumFunctionOnSet(f, T) = f[Pick(T)] + SumFunctionOnSet(f, T \ {Pick(T)})
    BY <1>2, <2>1, SumPicked
  <2>3. SumFunctionOnSet(f, T \ {Pick(T)}) = 0 /\ f[Pick(T)] = 0
    BY <1>2, <2>1
  <2> QED BY <2>2, <2>3
<1> HIDE DEF U
<1>3. \A T \in SUBSET S : T \in U
  BY <1>1, <1>2, SubsetInduction
<1> QED BY <1>3 DEF U

\* An empty ring is exact before the first request.
LEMMA RingEmpty == \A hit : RingOK(EmptyRing(RESERVOIR), <<>>, 0, hit)
<1> TAKE hit
<1>0. RESERVOIR \in Nat \ {0}
  BY StatsAssumption
<1>1. PICK buf \in [0..(RESERVOIR - 1) -> Int] : buf = [i \in 0..(RESERVOIR - 1) |-> 0]
  <2>1. [i \in 0..(RESERVOIR - 1) |-> 0] \in [0..(RESERVOIR - 1) -> Int]
    OBVIOUS
  <2> QED BY <2>1
<1>2. PICK idx \in 0..(RESERVOIR - 1), count \in 0..RESERVOIR, added \in Nat : idx = 0 /\ count = 0 /\ added = 0
  BY <1>0
<1>3. PICK r : r = EmptyRing(RESERVOIR)
  OBVIOUS
<1>4. r = [buf |-> buf, idx |-> idx, count |-> count, added |-> added]
  BY <1>1, <1>2, <1>3 DEF EmptyRing
<1>5. IsRing(r, RESERVOIR)
  BY <1>4 DEF IsRing
<1>6. r.count = 0 /\ r.added = 0
  BY <1>2, <1>4
<1>7. Samples(<<>>, hit) = <<>> /\ Len(<<>>) = 0 /\ <<>> \in Seq(Nat)
  BY SamplesEmpty, EmptySeq
<1>8. Holds(r, RESERVOIR, <<>>)
  <2>1. 0 <= RESERVOIR /\ 1..0 = {}
    BY <1>0
  <2> QED BY <1>6, <1>7, <2>1 DEF Holds
<1>9. Since(<<>>, 0) = <<>>
  BY <1>7, SinceEmpty
<1>10. EndOf(<<>>, <<>>)
  <2>1. 0 <= 0 /\ 1..0 = {}
    OBVIOUS
  <2> QED BY <1>7, <2>1 DEF EndOf
<1> QED BY <1>3, <1>5, <1>6, <1>7, <1>8, <1>9, <1>10 DEF RingOK

\* The counters are exact before the first request.
LEMMA StatsNew == StatsOK(NewStats, <<>>, 0)
<1>1. PICK s : s = NewStats
  OBVIOUS
<1>2. /\ IsStats(s) /\ s.total = NoTally /\ s.window = NoTally
      /\ s.hit = EmptyRing(RESERVOIR) /\ s.miss = EmptyRing(RESERVOIR)
      /\ s.channels = [c \in EChannels |-> EmptyChannel]
  BY <1>1 DEF NewStats, IsStats
<1>3. RingOK(s.hit, <<>>, 0, TRUE) /\ RingOK(s.miss, <<>>, 0, FALSE)
  BY <1>2, RingEmpty
<1>4. NoTally.requests = 0 /\ NoTally.hits = 0 /\ NoTally.misses = 0
  BY DEF NoTally
<1>5. WindowOK(s.window, <<>>, 0)
  <2>1. Len(<<>>) = 0 /\ 0 \in Nat
    BY EmptySeq
  <2> QED BY <1>2, <1>4, <2>1, SiteNone DEF WindowOK
<1>6. IsChannel(EmptyChannel) /\ EmptyChannel.tally.requests = 0
  <2>1. EmptyChannel.tally = NoTally
    BY DEF EmptyChannel
  <2>2. EmptyChannel.tally.requests = 0
    BY <1>4, <2>1
  <2>3. EmptyChannel = [tally |-> EmptyChannel.tally, hit |-> EmptyChannel.hit, miss |-> EmptyChannel.miss,
                        full |-> EmptyChannel.full, resumed |-> EmptyChannel.resumed]
    BY DEF EmptyChannel
  <2> QED BY <2>2, <2>3 DEF IsChannel
<1>7. ChannelsOK(s.channels) /\ \A c \in EChannels : s.channels[c].tally.requests = 0
  BY <1>2, <1>6 DEF ChannelsOK
<1>8. ChannelRequests(s.channels) = 0
  <2>1. PICK e : e = [c \in EChannels |-> s.channels[c].tally.requests]
    OBVIOUS
  <2>2. DOMAIN e = EChannels /\ \A c \in EChannels : e[c] = 0
    BY <1>7, <2>1
  <2>3. SumFunctionOnSet(e, EChannels) = 0
    BY <2>2, ChannelsFinite, SumZero
  <2> QED BY <2>1, <2>2, <2>3 DEF ChannelRequests, SumFunction
<1>9. TotalsOK(s.total, s.channels)
  BY <1>2, <1>4, <1>7, <1>8 DEF TotalsOK
<1> QED BY <1>1, <1>2, <1>3, <1>5, <1>9 DEF StatsOK

\* The invariant: the counters are exact for what was recorded since the last
\* line, and what the line and /perf said last still is.
EInv ==
    /\ ehist \in Seq(EEvents)
    /\ Spans(eline, ehist) /\ LineExact(eline, ehist)
    /\ eperf.at \in Nat /\ eperf.at <= Len(ehist) /\ PerfExact(eperf, ehist)
    /\ StatsOK(estats, ehist, eline.to)

\* It holds at the start ...
LEMMA EInitInv == EInit => EInv
<1> SUFFICES ASSUME EInit PROVE EInv
  OBVIOUS
<1>1. PICK h : h = ehist /\ h = <<>> /\ h \in Seq(EEvents) /\ Len(h) = 0
  BY EmptySeq DEF EInit
<1>2. PICK s : s = estats /\ s = NewStats /\ StatsOK(s, h, 0)
  BY <1>1, StatsNew DEF EInit
<1>3. PICK l : l = eline /\ l = [line |-> Window(s), from |-> 0, to |-> Len(h)]
  BY <1>1, <1>2 DEF EInit
<1>4. Spans(l, h) /\ LineExact(l, h) /\ l.to = 0
  <2>1. 0 \in Nat /\ 0 <= Len(h)
    BY <1>1
  <2>2. Spans(l, h) /\ LineExact(l, h)
    BY <1>1, <1>2, <1>3, <2>1, LineNew
  <2> QED BY <1>1, <1>3, <2>2
<1>5. PICK p : p = eperf /\ p = [gate |-> "none", snap |-> <<>>, at |-> 0]
  BY DEF EInit
<1>6. p.at = 0 /\ p.snap = <<>>
  BY <1>5
<1>7. p.at \in Nat /\ p.at <= Len(h) /\ PerfExact(p, h)
  BY <1>1, <1>6 DEF PerfExact
<1> QED BY <1>1, <1>2, <1>3, <1>4, <1>5, <1>7 DEF EInv

\* ... a request keeps it ...
LEMMA ERecordInv ==
  ASSUME EInv, ERecord PROVE EInv'
<1>1. PICK r \in ERequests : estats' = Recorded(estats, r) /\ ehist' = Append(ehist, r)
  BY DEF ERecord
<1>2. eline' = eline /\ eperf' = eperf
  BY DEF ERecord
<1>3. PICK h, s, l, p : h = ehist /\ s = estats /\ l = eline /\ p = eperf
  OBVIOUS
<1>4. /\ h \in Seq(EEvents) /\ Spans(l, h) /\ LineExact(l, h)
      /\ p.at \in Nat /\ p.at <= Len(h) /\ PerfExact(p, h) /\ StatsOK(s, h, l.to)
  BY <1>3 DEF EInv
<1>5. r \in EEvents
  BY DEF EEvents
<1>6. PICK to \in Nat : to = l.to /\ to <= Len(h)
  BY <1>4 DEF Spans
<1>7. StatsOK(Recorded(s, r), Append(h, r), to)
  <2>1. CASE r.backend \in EMonitoring
    <3>1. Recorded(s, r) = Polled(s, r)
      BY <2>1 DEF Recorded
    <3> QED BY <1>4, <1>5, <1>6, <2>1, <3>1, StatsPolled
  <2>2. CASE r.backend \notin EMonitoring
    <3>1. Recorded(s, r) = Served(s, r)
      BY <2>2 DEF Recorded
    <3> QED BY <1>4, <1>6, <2>2, <3>1, StatsServed
  <2> QED BY <2>1, <2>2
<1>8. Spans(l, Append(h, r)) /\ LineExact(l, Append(h, r))
  BY <1>4, <1>5, LineKept
<1>9. p.at <= Len(Append(h, r)) /\ PerfExact(p, Append(h, r))
  BY <1>4, <1>5, PerfKept
<1>10. Append(h, r) \in Seq(EEvents)
  BY <1>4, <1>5, AppendProperties
<1>11. PICK n, k : n = Recorded(s, r) /\ k = Append(h, r)
  OBVIOUS
<1>12. estats' = n /\ ehist' = k /\ eline' = l /\ eperf' = p
  BY <1>1, <1>2, <1>3, <1>11
<1>13. /\ k \in Seq(EEvents) /\ Spans(l, k) /\ LineExact(l, k)
       /\ p.at \in Nat /\ p.at <= Len(k) /\ PerfExact(p, k) /\ StatsOK(n, k, l.to)
  BY <1>4, <1>6, <1>7, <1>8, <1>9, <1>10, <1>11
<1> QED BY <1>12, <1>13 DEF EInv

\* ... a handshake does ...
LEMMA EHandshakeInv ==
  ASSUME EInv, RecordHandshake PROVE EInv'
<1>1. PICK x \in EHandshakes : estats' = [estats EXCEPT !.channels[x.channel] = Shaken(estats.channels[x.channel], x)]
  BY DEF RecordHandshake
<1>2. eline' = eline /\ eperf' = eperf /\ ehist' = ehist
  BY DEF RecordHandshake
<1>3. PICK h, s, l, p : h = ehist /\ s = estats /\ l = eline /\ p = eperf
  OBVIOUS
<1>4. /\ h \in Seq(EEvents) /\ Spans(l, h) /\ LineExact(l, h)
      /\ p.at \in Nat /\ p.at <= Len(h) /\ PerfExact(p, h) /\ StatsOK(s, h, l.to)
  BY <1>3 DEF EInv
<1>5. PICK n : n = [s EXCEPT !.channels[x.channel] = Shaken(s.channels[x.channel], x)]
  OBVIOUS
<1>6. StatsOK(n, h, l.to)
  <2>1. x.channel \in EChannels
    BY SamplesAssumption
  <2> QED BY <1>4, <1>5, <2>1, StatsShaken
<1>7. estats' = n /\ ehist' = h /\ eline' = l /\ eperf' = p
  BY <1>1, <1>2, <1>3, <1>5
<1> QED BY <1>4, <1>6, <1>7 DEF EInv

\* ... a line does ...
LEMMA EEmitInv ==
  ASSUME EInv, MaybeEmit PROVE EInv'
<1>1. /\ eline' = [line |-> Window(estats), from |-> eline.to, to |-> Len(ehist)]
      /\ estats' = Emitted(estats) /\ eperf' = eperf /\ ehist' = ehist
  BY DEF MaybeEmit
<1>3. PICK h, s, l, p : h = ehist /\ s = estats /\ l = eline /\ p = eperf
  OBVIOUS
<1>4. /\ h \in Seq(EEvents) /\ Spans(l, h) /\ LineExact(l, h)
      /\ p.at \in Nat /\ p.at <= Len(h) /\ PerfExact(p, h) /\ StatsOK(s, h, l.to)
  BY <1>3 DEF EInv
<1>5. PICK to \in Nat : to = l.to /\ to <= Len(h)
  BY <1>4 DEF Spans
<1>6. PICK m : m = [line |-> Window(s), from |-> to, to |-> Len(h)]
  OBVIOUS
<1>7. Spans(m, h) /\ LineExact(m, h) /\ m.to = Len(h)
  <2>1. Spans(m, h) /\ LineExact(m, h)
    BY <1>4, <1>5, <1>6, LineNew
  <2> QED BY <1>6, <2>1
<1>8. PICK n : n = Emitted(s)
  OBVIOUS
<1>9. StatsOK(n, h, Len(h))
  BY <1>4, <1>5, <1>8, StatsEmitted
<1>10. estats' = n /\ ehist' = h /\ eline' = m /\ eperf' = p
  BY <1>1, <1>3, <1>5, <1>6, <1>8
<1> QED BY <1>4, <1>7, <1>9, <1>10 DEF EInv

\* ... and so does a scrape, whether it is answered or refused.
LEMMA EScrapeInv ==
  ASSUME EInv, ScrapePerf PROVE EInv'
<1>0. PICK q \in EScrapes :
        LET gate == EMetricsGate(econf, q)
            poll == [ns |-> q.ns, hit |-> FALSE, backend |-> "perf"]
        IN  /\ eperf' = IF gate = "ok"
                        THEN [gate |-> gate, snap |-> <<Snapshot(estats)>>, at |-> Len(ehist)]
                        ELSE [gate |-> gate, snap |-> <<>>, at |-> Len(ehist)]
            /\ estats' = Polled(estats, poll)
            /\ ehist' = Append(ehist, poll)
  BY DEF ScrapePerf
<1>1. PICK gate, r :
        /\ r = [ns |-> q.ns, hit |-> FALSE, backend |-> "perf"]
        /\ \/ eperf' = [gate |-> gate, snap |-> <<Snapshot(estats)>>, at |-> Len(ehist)]
           \/ eperf' = [gate |-> gate, snap |-> <<>>, at |-> Len(ehist)]
        /\ estats' = Polled(estats, r) /\ ehist' = Append(ehist, r)
  BY <1>0
<1>2. eline' = eline
  BY DEF ScrapePerf
<1>3. PICK h, s, l : h = ehist /\ s = estats /\ l = eline
  OBVIOUS
<1>4. h \in Seq(EEvents) /\ Spans(l, h) /\ LineExact(l, h) /\ StatsOK(s, h, l.to)
  BY <1>3 DEF EInv
<1>5. r \in EEvents /\ r.backend \in EMonitoring
  BY <1>1, PollIs
<1>6. PICK to \in Nat : to = l.to /\ to <= Len(h)
  BY <1>4 DEF Spans
<1>7. PICK n, k, p : n = Polled(s, r) /\ k = Append(h, r) /\ p = eperf'
  OBVIOUS
<1>8. StatsOK(n, k, l.to)
  BY <1>4, <1>5, <1>6, <1>7, StatsPolled
<1>9. Spans(l, k) /\ LineExact(l, k) /\ k \in Seq(EEvents)
  BY <1>4, <1>5, <1>7, LineKept, AppendProperties
<1>10. p.at \in Nat /\ p.at <= Len(h) /\ PerfExact(p, h)
  <2>1. CASE p = [gate |-> gate, snap |-> <<Snapshot(s)>>, at |-> Len(h)]
    BY <1>4, <1>6, <2>1, PerfNew
  <2>2. CASE p = [gate |-> gate, snap |-> <<>>, at |-> Len(h)]
    <3>1. p.at = Len(h) /\ p.snap = <<>> /\ Len(h) \in Nat
      BY <1>4, <2>2, LenProperties
    <3> QED BY <3>1 DEF PerfExact
  <2> QED BY <1>1, <1>3, <1>7, <2>1, <2>2
<1>11. p.at <= Len(k) /\ PerfExact(p, k)
  BY <1>4, <1>5, <1>7, <1>10, PerfKept
<1>12. estats' = n /\ ehist' = k /\ eline' = l /\ eperf' = p
  BY <1>1, <1>2, <1>3, <1>7
<1> QED BY <1>8, <1>9, <1>10, <1>11, <1>12 DEF EInv

\* Whatever was recorded, however often the rings wrapped and whoever scraped
\* in between: the periodic line is about its own window, /perf about the
\* newest samples, and every request of the site is counted once (stats.rs).
THEOREM ReportsAreExact == ESpec => []EReportsAreExact
<1>1. EInit => EInv
  BY EInitInv
<1>2. EInv /\ [ENext]_evars => EInv'
  <2> SUFFICES ASSUME EInv, [ENext]_evars PROVE EInv'
    OBVIOUS
  <2>1. CASE ERecord
    BY <2>1, ERecordInv
  <2>2. CASE RecordHandshake
    BY <2>2, EHandshakeInv
  <2>3. CASE MaybeEmit
    BY <2>3, EEmitInv
  <2>4. CASE ScrapePerf
    BY <2>4, EScrapeInv
  <2>5. CASE ETick \/ UNCHANGED evars
    <3>1. estats' = estats /\ eline' = eline /\ eperf' = eperf /\ ehist' = ehist
      BY <2>5 DEF ETick, evars
    <3> QED BY <3>1 DEF EInv
  <2> QED BY <2>1, <2>2, <2>3, <2>4, <2>5 DEF ENext
<1>3. EInv => EReportsAreExact
  <2> SUFFICES ASSUME EInv PROVE EReportsAreExact
    OBVIOUS
  <2>1. ELineIsExact
    BY DEF EInv, LineExact, ELineIsExact
  <2>2. EPerfIsExact
    BY DEF EInv, PerfExact, EPerfIsExact
  <2>3. ETotalsAgree
    BY DEF EInv, StatsOK, TotalsOK, ChannelRequests, ETotalsAgree
  <2> QED BY <2>1, <2>2, <2>3 DEF EReportsAreExact
<1> QED BY <1>1, <1>2, <1>3, PTL DEF ESpec

-----------------------------------------------------------------------------
(* The inbound HTTP/2 connection: H2Contract (Http2Server).                *)

\* What FoldLeft(FlushStream, c, o) chooses.
Flushing(g, c, o) ==
    g = [t \in SUBSET DOMAIN o |-> IF t = {} THEN c ELSE FlushStream(g[t \ {Max(t)}], o[Max(t)])]

\* What FoldLeft(TakeAnswer, cs, o) chooses.
Taking(g, cs, o) ==
    g = [t \in SUBSET DOMAIN o |-> IF t = {} THEN cs ELSE TakeAnswer(g[t \ {Max(t)}], o[Max(t)])]

\* The flush of one order is what that function gives for all of it.
LEMMA FlushUnfold == \A c, o : FoldLeft(FlushStream, c, o) = (CHOOSE g : Flushing(g, c, o))[DOMAIN o]
BY DEF FoldLeft, MapThenFoldSet, Flushing

\* And so are the answers of one order.
LEMMA TakeUnfold == \A cs, o : FoldLeft(TakeAnswer, cs, o) = (CHOOSE g : Taking(g, cs, o))[DOMAIN o]
BY DEF FoldLeft, MapThenFoldSet, Taking

\* There is such a function for every order of the streams.
LEMMA FlushingExists ==
  ASSUME NEW n \in Nat, NEW c, NEW o, DOMAIN o = 1..n
  PROVE  \E g : Flushing(g, c, o)
<1> DEFINE Part(g, k) == g = [t \in Few(n, k) |-> IF t = {} THEN c
                                                  ELSE FlushStream(g[t \ {Max(t)}], o[Max(t)])]
           N == {k \in Nat : \E g : Part(g, k)}
<1>3. 0 \in N
  <2>2. Part([t \in Few(n, 0) |-> c], 0)
    BY FewSteps
  <2> QED BY <2>2
<1>4. ASSUME NEW k \in N PROVE k + 1 \in N
  <2>1. k \in Nat
    OBVIOUS
  <2>2. PICK g : Part(g, k)
    OBVIOUS
  <2> DEFINE h == [t \in Few(n, k + 1) |-> IF t = {} THEN c ELSE FlushStream(g[t \ {Max(t)}], o[Max(t)])]
  <2>3. ASSUME NEW t \in Few(n, k + 1), t # {} PROVE t \ {Max(t)} \in Few(n, k) /\ t \ {Max(t)} \in Few(n, k + 1)
    BY <2>1, <2>3, FewSteps
  <2>4. \A t \in Few(n, k) : t \in Few(n, k + 1)
    BY <2>1, FewSteps
  <2>5. \A t \in Few(n, k) : h[t] = g[t]
    BY <2>2, <2>4
  <2>6. Part(h, k + 1)
    BY <2>3, <2>5
  <2> HIDE DEF h
  <2>7. \E f : Part(f, k + 1)
    BY <2>6
  <2> HIDE DEF Part
  <2> QED BY <2>1, <2>7
<1>5. N = Nat
  <2> HIDE DEF N
  <2> QED BY <1>3, <1>4, NatSetInduction DEF N
<1>6. PICK g : Part(g, n)
  BY <1>5
<1>7. Few(n, n) = SUBSET DOMAIN o
  BY FewSteps
<1> QED BY <1>6, <1>7 DEF Flushing

\* flush_pending_streams as the loop it is: F[i] is the connection after the first i streams.
FlushLoop(F, n, c, o) ==
    /\ F[0] = c
    /\ \A i \in 1..n : F[i] = FlushStream(F[i - 1], o[i])
    /\ FoldLeft(FlushStream, c, o) = F[n]

\* Such a run exists for every order of the streams.
LEMMA FlushRun ==
  ASSUME NEW n \in Nat, NEW c, NEW o, DOMAIN o = 1..n
  PROVE  \E F : FlushLoop(F, n, c, o)
<1>1. PICK g : Flushing(g, c, o) /\ FoldLeft(FlushStream, c, o) = g[1..n]
  BY FlushingExists, FlushUnfold
<1>2. PICK F : F = [i \in 0..n |-> g[1..i]]
  OBVIOUS
<1>3. F[0] = c
  <2>1. 1..0 = {} /\ {} \in SUBSET DOMAIN o
    OBVIOUS
  <2>2. g[{}] = c
    BY <1>1, <2>1 DEF Flushing
  <2> QED BY <1>2, <2>1, <2>2
<1>4. ASSUME NEW i \in 1..n PROVE F[i] = FlushStream(F[i - 1], o[i])
  <2>1. 1..i \in SUBSET (1..n) /\ 1..i # {} /\ Max(1..i) = i /\ (1..i) \ {Max(1..i)} = 1..(i - 1)
    BY PrefixRun
  <2>2. g[1..i] = FlushStream(g[1..(i - 1)], o[i])
    BY <1>1, <2>1 DEF Flushing
  <2> QED BY <1>2, <2>2
<1>5. FoldLeft(FlushStream, c, o) = F[n]
  BY <1>1, <1>2
<1> QED BY <1>3, <1>4, <1>5 DEF FlushLoop

\* The same of the answers.
LEMMA TakingExists ==
  ASSUME NEW n \in Nat, NEW cs, NEW o, DOMAIN o = 1..n
  PROVE  \E g : Taking(g, cs, o)
<1> DEFINE Part(g, k) == g = [t \in Few(n, k) |-> IF t = {} THEN cs
                                                  ELSE TakeAnswer(g[t \ {Max(t)}], o[Max(t)])]
           N == {k \in Nat : \E g : Part(g, k)}
<1>3. 0 \in N
  <2>2. Part([t \in Few(n, 0) |-> cs], 0)
    BY FewSteps
  <2> QED BY <2>2
<1>4. ASSUME NEW k \in N PROVE k + 1 \in N
  <2>1. k \in Nat
    OBVIOUS
  <2>2. PICK g : Part(g, k)
    OBVIOUS
  <2> DEFINE h == [t \in Few(n, k + 1) |-> IF t = {} THEN cs ELSE TakeAnswer(g[t \ {Max(t)}], o[Max(t)])]
  <2>3. ASSUME NEW t \in Few(n, k + 1), t # {} PROVE t \ {Max(t)} \in Few(n, k) /\ t \ {Max(t)} \in Few(n, k + 1)
    BY <2>1, <2>3, FewSteps
  <2>4. \A t \in Few(n, k) : t \in Few(n, k + 1)
    BY <2>1, FewSteps
  <2>5. \A t \in Few(n, k) : h[t] = g[t]
    BY <2>2, <2>4
  <2>6. Part(h, k + 1)
    BY <2>3, <2>5
  <2> HIDE DEF h
  <2>7. \E f : Part(f, k + 1)
    BY <2>6
  <2> HIDE DEF Part
  <2> QED BY <2>1, <2>7
<1>5. N = Nat
  <2> HIDE DEF N
  <2> QED BY <1>3, <1>4, NatSetInduction DEF N
<1>6. PICK g : Part(g, n)
  BY <1>5
<1>7. Few(n, n) = SUBSET DOMAIN o
  BY FewSteps
<1> QED BY <1>6, <1>7 DEF Taking

\* poll_pending_url as a loop: F[i] is what the connection may be after the first i answers.
TakeLoop(F, n, cs, o) ==
    /\ F[0] = cs
    /\ \A i \in 1..n : F[i] = TakeAnswer(F[i - 1], o[i])
    /\ FoldLeft(TakeAnswer, cs, o) = F[n]

\* Such a run exists for every order of the answers.
LEMMA TakeRun ==
  ASSUME NEW n \in Nat, NEW cs, NEW o, DOMAIN o = 1..n
  PROVE  \E F : TakeLoop(F, n, cs, o)
<1>1. PICK g : Taking(g, cs, o) /\ FoldLeft(TakeAnswer, cs, o) = g[1..n]
  BY TakingExists, TakeUnfold
<1>2. PICK F : F = [i \in 0..n |-> g[1..i]]
  OBVIOUS
<1>3. F[0] = cs
  <2>1. 1..0 = {} /\ {} \in SUBSET DOMAIN o
    OBVIOUS
  <2>2. g[{}] = cs
    BY <1>1, <2>1 DEF Taking
  <2> QED BY <1>2, <2>1, <2>2
<1>4. ASSUME NEW i \in 1..n PROVE F[i] = TakeAnswer(F[i - 1], o[i])
  <2>1. 1..i \in SUBSET (1..n) /\ 1..i # {} /\ Max(1..i) = i /\ (1..i) \ {Max(1..i)} = 1..(i - 1)
    BY PrefixRun
  <2>2. g[1..i] = TakeAnswer(g[1..(i - 1)], o[i])
    BY <1>1, <2>1 DEF Taking
  <2> QED BY <1>2, <2>2
<1>5. FoldLeft(TakeAnswer, cs, o) = F[n]
  BY <1>1, <1>2
<1> QED BY <1>3, <1>4, <1>5 DEF TakeLoop

\* An order of a finite set names each of its elements once.
LEMMA OrderLists ==
  ASSUME NEW S, IsFiniteSet(S), NEW o \in Orders(S)
  PROVE  \E n \in Nat : /\ o \in [1..n -> S]
                        /\ \A x \in S : \E i \in 1..n : o[i] = x
                        /\ \A i, j \in 1..n : i # j => o[i] # o[j]
<1>1. PICK n \in Nat : n = Cardinality(S)
  BY FS_CardinalityType
<1>2. o \in [1..n -> S] /\ \A i, j \in 1..n : i # j => o[i] # o[j]
  BY <1>1 DEF Orders, SetToSeqs
<1>3. o \in Injection(1..n, S)
  BY <1>2 DEF Injection, IsInjective
<1>4. Cardinality(1..n) = Cardinality(S)
  BY <1>1, FS_Interval
<1>5. o \in Surjection(1..n, S)
  BY <1>3, <1>4, FS_Injection
<1> QED BY <1>2, <1>5 DEF Surjection

\* A connection has the fields of Http2Conn.
IsConn(c) ==
    c = [phase |-> c.phase, streams |-> c.streams, last_stream_id |-> c.last_stream_id,
         recently_reset |-> c.recently_reset, refused_streak |-> c.refused_streak,
         closed_windows |-> c.closed_windows, peer_goaway |-> c.peer_goaway, goaway |-> c.goaway,
         continuation |-> c.continuation, block |-> c.block, block_req |-> c.block_req,
         peer_initial_window |-> c.peer_initial_window, conn_recv_window |-> c.conn_recv_window,
         conn_send_window |-> c.conn_send_window, overrun |-> c.overrun,
         dispatched |-> c.dispatched, answered |-> c.answered, given_up |-> c.given_up,
         conn_granted |-> c.conn_granted, conn_sent |-> c.conn_sent]

\* A stream those of H2Stream, with a receive window that takes another frame.
H2StreamOK(s) ==
    /\ s = [state |-> s.state, req |-> s.req, body |-> s.body, headers_done |-> s.headers_done,
            send_window |-> s.send_window, recv_window |-> s.recv_window,
            resp_body |-> s.resp_body, resp_sent |-> s.resp_sent, pending |-> s.pending]
    /\ s.send_window \in Int
    /\ s.recv_window \in MAX_FRAME_SIZE..H2_WINDOW
    /\ s.resp_body \in Int
    /\ s.resp_sent \in Nat

StreamsOK(t) ==
    /\ DOMAIN t \in SUBSET H2Ids
    /\ IsFiniteSet(DOMAIN t)
    /\ \A i \in DOMAIN t : H2StreamOK(t[i])

\* The connection's windows: o overrun, r to receive, w to send, g granted, n sent.
FlowOK(o, r, w, g, n) ==
    /\ o = FALSE
    /\ r \in MAX_FRAME_SIZE..H2_WINDOW
    /\ w \in Nat /\ g \in Int /\ n \in Int /\ w = g - n

\* An open stream, dispatched d times and answered a times, is before its
\* request, waits for its answer, or has it.
Bound(s, d, a) ==
    \/ s.pending = "no" /\ s.resp_body = NoBody /\ d = 0 /\ a = 0
    \/ s.pending \in {"waiting", "ready"} /\ s.resp_body = NoBody /\ d = 1 /\ a = 0
    \/ s.pending = "no" /\ s.resp_body # NoBody /\ d = 1 /\ a = 1

\* One that is closed has its answer, unless it was given up (u) or never asked.
Gone(i, l, d, a, u) ==
    \/ d = 0 /\ a = 0
    \/ d = 1 /\ a = 0 /\ i \in u /\ i <= l
    \/ d = 1 /\ a = 1 /\ i <= l

IdOK(i, t, l, d, a, u) ==
    IF i \in DOMAIN t THEN i <= l /\ Bound(t[i], d[i], a[i]) ELSE Gone(i, l, d[i], a[i], u)

\* Streams t, last id l, dispatched d, answered a and given up u fit together.
Accounts(t, l, d, a, u) ==
    /\ DOMAIN d = H2Ids /\ DOMAIN a = H2Ids
    /\ \A i \in H2Ids : IdOK(i, t, l, d, a, u)

\* What every handler keeps of the connection.
H2ConnOK(c) ==
    /\ IsConn(c)
    /\ c.last_stream_id \in Nat
    /\ c.peer_initial_window \in Int
    /\ StreamsOK(c.streams)
    /\ FlowOK(c.overrun, c.conn_recv_window, c.conn_send_window, c.conn_granted, c.conn_sent)
    /\ Accounts(c.streams, c.last_stream_id, c.dispatched, c.answered, c.given_up)

\* n is c but for its streams, its given-up streams and what is not accounted for.
SameButStreams(c, n) ==
    /\ IsConn(n)
    /\ n.last_stream_id = c.last_stream_id
    /\ n.peer_initial_window = c.peer_initial_window
    /\ n.overrun = c.overrun
    /\ n.conn_recv_window = c.conn_recv_window
    /\ n.conn_send_window = c.conn_send_window
    /\ n.conn_granted = c.conn_granted
    /\ n.conn_sent = c.conn_sent
    /\ n.dispatched = c.dispatched
    /\ n.answered = c.answered

\* n is c but for what is not accounted for.
Alike(c, n) == SameButStreams(c, n) /\ n.streams = c.streams /\ n.given_up = c.given_up

\* The stream s put under id, and id taken away.
H2Put(t, id, s) == [i \in DOMAIN t \cup {id} |-> IF i = id THEN s ELSE t[i]]
Drop(t, id) == [i \in DOMAIN t \ {id} |-> t[i]]

\* Nothing that is accounted for changes.
LEMMA AlikeOK ==
  ASSUME NEW c, NEW n, H2ConnOK(c), Alike(c, n)
  PROVE  H2ConnOK(n)
BY DEF H2ConnOK, Alike, SameButStreams

\* Streams change, and the accounts fit them.
LEMMA StreamsChange ==
  ASSUME NEW c, NEW n, H2ConnOK(c), SameButStreams(c, n), StreamsOK(n.streams),
         Accounts(n.streams, c.last_stream_id, c.dispatched, c.answered, n.given_up)
  PROVE  H2ConnOK(n)
BY DEF H2ConnOK, SameButStreams

\* Being alike carries over.
LEMMA AlikeTwice ==
  ASSUME NEW c, NEW d, NEW e, Alike(c, d), Alike(d, e)
  PROVE  Alike(c, e)
BY DEF Alike, SameButStreams

\* A stream put in, whatever was there, with its own accounts d and a.
LEMMA AccountsPut ==
  ASSUME NEW t, NEW l, NEW d, NEW a, NEW u, Accounts(t, l, d, a, u),
         NEW id \in H2Ids, id <= l, NEW s, NEW e, NEW b,
         DOMAIN e = H2Ids, DOMAIN b = H2Ids,
         \A i \in H2Ids : i # id => e[i] = d[i] /\ b[i] = a[i],
         Bound(s, e[id], b[id])
  PROVE  Accounts(H2Put(t, id, s), l, e, b, u)
<1>1. PICK p : p = H2Put(t, id, s)
  OBVIOUS
<1>2. DOMAIN p = DOMAIN t \cup {id} /\ p[id] = s /\ \A i \in DOMAIN t : i # id => p[i] = t[i]
  BY <1>1 DEF H2Put
<1>3. ASSUME NEW i \in H2Ids PROVE IdOK(i, p, l, e, b, u)
  <2>1. IdOK(i, t, l, d, a, u)
    BY DEF Accounts
  <2>2. CASE i = id
    BY <1>2, <2>2 DEF IdOK
  <2>3. CASE i # id /\ i \in DOMAIN t
    BY <1>2, <2>1, <2>3 DEF IdOK
  <2>4. CASE i # id /\ i \notin DOMAIN t
    BY <1>2, <2>1, <2>4 DEF IdOK
  <2> QED BY <2>2, <2>3, <2>4
<1> QED BY <1>1, <1>3 DEF Accounts

\* A stream taken away that was answered, or is given up.
LEMMA AccountsDrop ==
  ASSUME NEW t, NEW l, NEW d, NEW a, NEW u, Accounts(t, l, d, a, u), NEW id, NEW v, u \subseteq v,
         id \in v \/ (id \in DOMAIN t => t[id].resp_body # NoBody)
  PROVE  Accounts(Drop(t, id), l, d, a, v)
<1>1. PICK p : p = Drop(t, id)
  OBVIOUS
<1>2. DOMAIN p = DOMAIN t \ {id} /\ \A i \in DOMAIN t : i # id => p[i] = t[i]
  BY <1>1 DEF Drop
<1>3. ASSUME NEW i \in H2Ids PROVE IdOK(i, p, l, d, a, v)
  <2>1. IdOK(i, t, l, d, a, u)
    BY DEF Accounts
  <2>2. CASE i = id /\ i \in DOMAIN t
    BY <1>2, <2>1, <2>2 DEF IdOK, Bound, Gone
  <2>3. CASE i # id /\ i \in DOMAIN t
    BY <1>2, <2>1, <2>3 DEF IdOK
  <2>4. CASE i \notin DOMAIN t
    BY <1>2, <2>1, <2>4 DEF IdOK, Gone
  <2> QED BY <2>2, <2>3, <2>4
<1> QED BY <1>1, <1>3 DEF Accounts

\* Only the fields that are not accounted for change in the streams.
LEMMA AccountsSame ==
  ASSUME NEW t, NEW l, NEW d, NEW a, NEW u, Accounts(t, l, d, a, u), NEW p, DOMAIN p = DOMAIN t,
         \A i \in DOMAIN t : p[i].pending = t[i].pending /\ p[i].resp_body = t[i].resp_body
  PROVE  Accounts(p, l, d, a, u)
<1>1. ASSUME NEW i \in H2Ids PROVE IdOK(i, p, l, d, a, u)
  <2>1. IdOK(i, t, l, d, a, u)
    BY DEF Accounts
  <2>2. CASE i \in DOMAIN t
    BY <2>1, <2>2 DEF IdOK, Bound
  <2>3. CASE i \notin DOMAIN t
    BY <2>1, <2>3 DEF IdOK
  <2> QED BY <2>2, <2>3
<1> QED BY <1>1 DEF Accounts

\* Later ids are seen, more streams given up.
LEMMA AccountsGrow ==
  ASSUME NEW t, NEW l \in Nat, NEW d, NEW a, NEW u, Accounts(t, l, d, a, u),
         NEW m \in Nat, l <= m, NEW v, u \subseteq v
  PROVE  Accounts(t, m, d, a, v)
<1>1. ASSUME NEW i \in H2Ids PROVE IdOK(i, t, m, d, a, v)
  <2>1. IdOK(i, t, l, d, a, u) /\ i \in Nat
    BY H2ServerAssumption DEF Accounts
  <2>2. CASE i \in DOMAIN t
    BY <2>1, <2>2 DEF IdOK
  <2>3. CASE i \notin DOMAIN t
    BY <2>1, <2>3 DEF IdOK, Gone
  <2> QED BY <2>2, <2>3
<1> QED BY <1>1 DEF Accounts

\* A sound stream put in, or one taken away, leaves sound streams.
LEMMA StreamsPut ==
  ASSUME NEW t, StreamsOK(t), NEW id \in H2Ids, NEW s, H2StreamOK(s)
  PROVE  StreamsOK(H2Put(t, id, s))
<1>1. PICK p : p = H2Put(t, id, s)
  OBVIOUS
<1>2. DOMAIN p = DOMAIN t \cup {id} /\ p[id] = s /\ \A i \in DOMAIN t : i # id => p[i] = t[i]
  BY <1>1 DEF H2Put
<1>3. IsFiniteSet(DOMAIN t \cup {id})
  BY FS_AddElement DEF StreamsOK
<1> QED BY <1>1, <1>2, <1>3 DEF StreamsOK

\* The streams without one of them.
LEMMA StreamsDrop ==
  ASSUME NEW t, StreamsOK(t), NEW id
  PROVE  StreamsOK(Drop(t, id))
<1>1. PICK p : p = Drop(t, id)
  OBVIOUS
<1>2. DOMAIN p = DOMAIN t \ {id} /\ \A i \in DOMAIN t : i # id => p[i] = t[i]
  BY <1>1 DEF Drop
<1>3. IsFiniteSet(DOMAIN t \ {id})
  BY FS_Subset DEF StreamsOK
<1> QED BY <1>1, <1>2, <1>3 DEF StreamsOK

\* The records the small operators build.
LEMMA WithIs ==
  ASSUME NEW c, IsConn(c), NEW id, NEW s
  PROVE  \E n : n = With(c, id, s) /\ SameButStreams(c, n) /\ n.streams = H2Put(c.streams, id, s)
                /\ n.given_up = c.given_up /\ n.phase = c.phase
<1>1. PICK n : n = With(c, id, s)
  OBVIOUS
<1>2. PICK t : t = [i \in DOMAIN c.streams \cup {id} |-> IF i = id THEN s ELSE c.streams[i]]
  OBVIOUS
<1>3. n = [c EXCEPT !.streams = t]
  BY <1>1, <1>2 DEF With, H2Open
<1>4. SameButStreams(c, n) /\ n.streams = t /\ n.given_up = c.given_up /\ n.phase = c.phase
  BY <1>3 DEF IsConn, SameButStreams
<1> QED BY <1>1, <1>2, <1>4 DEF H2Put

\* Removing a stream changes nothing else.
LEMMA WithoutIs ==
  ASSUME NEW c, IsConn(c), NEW id
  PROVE  \E n : n = H2Without(c, id) /\ SameButStreams(c, n) /\ n.streams = Drop(c.streams, id)
                /\ n.given_up = c.given_up
<1>1. PICK n : n = H2Without(c, id)
  OBVIOUS
<1>2. PICK t : t = [i \in DOMAIN c.streams \ {id} |-> c.streams[i]]
  OBVIOUS
<1>3. n = [c EXCEPT !.streams = t]
  BY <1>1, <1>2 DEF H2Without, H2Open
<1>4. SameButStreams(c, n) /\ n.streams = t /\ n.given_up = c.given_up
  BY <1>3 DEF IsConn, SameButStreams
<1> QED BY <1>1, <1>2, <1>4 DEF Drop

\* Remembering a reset, saying GOAWAY and ending concern no stream.
LEMMA NoteResetAlike ==
  ASSUME NEW c, IsConn(c), NEW id
  PROVE  Alike(c, NoteReset(c, id))
<1>1. PICK r : r = Remembered(c.recently_reset, [id |-> id, hot |-> TRUE])
  OBVIOUS
<1>2. PICK n : n = NoteReset(c, id)
  OBVIOUS
<1>3. n = [c EXCEPT !.recently_reset = r]
  BY <1>1, <1>2 DEF NoteReset
<1>4. Alike(c, n)
  BY <1>3 DEF IsConn, Alike, SameButStreams
<1> QED BY <1>2, <1>4

\* send_goaway leaves the streams and the windows alone.
LEMMA GoAwayAlike ==
  ASSUME NEW c, IsConn(c), NEW code
  PROVE  Alike(c, H2GoAway(c, code)) /\ Alike(c, GoAwayAnd(c, code))
<1>1. PICK g : g = Append(c.goaway, code)
  OBVIOUS
<1>2. PICK n, m : n = H2GoAway(c, code) /\ m = GoAwayAnd(c, code)
  OBVIOUS
<1>3. n = [c EXCEPT !.goaway = g]
  BY <1>1, <1>2 DEF H2GoAway
<1>4. Alike(c, n)
  BY <1>3 DEF IsConn, Alike, SameButStreams
<1>5. m = [n EXCEPT !.phase = "GoingAway"]
  BY <1>2 DEF GoAwayAnd
<1>6. Alike(n, m)
  BY <1>4, <1>5 DEF IsConn, Alike, SameButStreams
<1> QED BY <1>2, <1>4, <1>6, AlikeTwice

\* So does a change of phase.
LEMMA PhaseAlike ==
  ASSUME NEW c, IsConn(c), NEW ph
  PROVE  Alike(c, [c EXCEPT !.phase = ph])
<1>1. PICK n : n = [c EXCEPT !.phase = ph]
  OBVIOUS
<1>2. Alike(c, n)
  BY <1>1 DEF IsConn, Alike, SameButStreams
<1> QED BY <1>1, <1>2

\* And so does a handler's error.
LEMMA FatalAlike ==
  ASSUME NEW c, IsConn(c)
  PROVE  Alike(c, H2Fatal(c))
<1>1. PICK d : d = IF c.goaway = <<>> THEN H2GoAway(c, "PROTOCOL_ERROR") ELSE c
  OBVIOUS
<1>2. Alike(c, c)
  BY DEF IsConn, Alike, SameButStreams
<1>3. Alike(c, d)
  BY <1>1, <1>2, GoAwayAlike
<1>4. IsConn(d)
  BY <1>3 DEF Alike, SameButStreams
<1>5. H2Fatal(c) = [d EXCEPT !.phase = "Done"]
  BY <1>1 DEF H2Fatal
<1>6. Alike(d, H2Fatal(c))
  BY <1>4, <1>5, PhaseAlike
<1> QED BY <1>3, <1>6, AlikeTwice

\* All of these keep a connection sound.
LEMMA SmallStepsOK ==
  ASSUME NEW c, H2ConnOK(c)
  PROVE  /\ H2ConnOK(H2Fatal(c))
         /\ \A id : H2ConnOK(NoteReset(c, id))
         /\ \A code : H2ConnOK(H2GoAway(c, code)) /\ H2ConnOK(GoAwayAnd(c, code))
         /\ \A ph : H2ConnOK([c EXCEPT !.phase = ph])
<1>0. IsConn(c)
  BY DEF H2ConnOK
<1>1. H2ConnOK(H2Fatal(c))
  BY <1>0, FatalAlike, AlikeOK
<1>2. ASSUME NEW id PROVE H2ConnOK(NoteReset(c, id))
  BY <1>0, NoteResetAlike, AlikeOK
<1>3. ASSUME NEW code PROVE H2ConnOK(H2GoAway(c, code)) /\ H2ConnOK(GoAwayAnd(c, code))
  BY <1>0, GoAwayAlike, AlikeOK
<1>4. ASSUME NEW ph PROVE H2ConnOK([c EXCEPT !.phase = ph])
  <2>1. PICK n : n = [c EXCEPT !.phase = ph]
    OBVIOUS
  <2>2. Alike(c, n)
    BY <1>0, <2>1, PhaseAlike
  <2> QED BY <2>1, <2>2, AlikeOK
<1> QED BY <1>1, <1>2, <1>3, <1>4

\* Giving a stream up, and closing it.
LEMMA RstOK ==
  ASSUME NEW c, H2ConnOK(c), NEW id
  PROVE  H2ConnOK(H2RstStream(c, id)) /\ H2ConnOK(Reset(c, id))
<1>1. PICK v : v = c.given_up \cup {id}
  OBVIOUS
<1>2. PICK n : n = H2RstStream(c, id)
  OBVIOUS
<1>3. n = [c EXCEPT !.given_up = v]
  BY <1>1, <1>2 DEF H2RstStream
<1>4. SameButStreams(c, n) /\ n.streams = c.streams /\ n.given_up = v
  BY <1>3 DEF H2ConnOK, IsConn, SameButStreams
<1>5. Accounts(c.streams, c.last_stream_id, c.dispatched, c.answered, v)
  <2>1. c.last_stream_id \in Nat /\ Accounts(c.streams, c.last_stream_id, c.dispatched, c.answered, c.given_up)
    BY DEF H2ConnOK
  <2>2. c.last_stream_id <= c.last_stream_id /\ c.given_up \subseteq v
    BY <1>1, <2>1
  <2> QED BY <2>1, <2>2, AccountsGrow
<1>6. H2ConnOK(n)
  <2>1. StreamsOK(n.streams)
    BY <1>4 DEF H2ConnOK
  <2> QED BY <1>4, <1>5, <2>1, StreamsChange
<1>7. PICK m : m = H2Without(n, id) /\ SameButStreams(n, m) /\ m.streams = Drop(n.streams, id) /\ m.given_up = n.given_up
  BY <1>6, WithoutIs DEF H2ConnOK
<1>8. Accounts(m.streams, n.last_stream_id, n.dispatched, n.answered, m.given_up)
  <2>1. id \in m.given_up /\ n.given_up \subseteq m.given_up
    BY <1>1, <1>4, <1>7
  <2>2. Accounts(n.streams, n.last_stream_id, n.dispatched, n.answered, n.given_up)
    BY <1>6 DEF H2ConnOK
  <2> QED BY <1>7, <2>1, <2>2, AccountsDrop
<1>9. StreamsOK(m.streams)
  BY <1>6, <1>7, StreamsDrop DEF H2ConnOK
<1>10. H2ConnOK(m)
  BY <1>6, <1>7, <1>8, <1>9, StreamsChange
<1>11. m = Reset(c, id)
  BY <1>2, <1>7 DEF Reset
<1> QED BY <1>2, <1>6, <1>10, <1>11

\* A stream whose answer is as it was is put back.
LEMMA PutBackOK ==
  ASSUME NEW c, H2ConnOK(c), NEW id \in DOMAIN c.streams, NEW s, H2StreamOK(s),
         s.pending = c.streams[id].pending, s.resp_body = c.streams[id].resp_body
  PROVE  \E n : n = With(c, id, s) /\ H2ConnOK(n) /\ SameButStreams(c, n)
                /\ n.streams = H2Put(c.streams, id, s) /\ n.given_up = c.given_up /\ n.phase = c.phase
<1>1. PICK n : n = With(c, id, s) /\ SameButStreams(c, n) /\ n.streams = H2Put(c.streams, id, s)
               /\ n.given_up = c.given_up /\ n.phase = c.phase
  BY WithIs DEF H2ConnOK
<1>2. id \in H2Ids
  BY DEF H2ConnOK, StreamsOK
<1>3. StreamsOK(n.streams)
  BY <1>1, <1>2, StreamsPut DEF H2ConnOK
<1>4. PICK p : p = H2Put(c.streams, id, s)
  OBVIOUS
<1>5. DOMAIN p = DOMAIN c.streams
      /\ \A i \in DOMAIN c.streams : p[i].pending = c.streams[i].pending /\ p[i].resp_body = c.streams[i].resp_body
  BY <1>4 DEF H2Put
<1>6. Accounts(p, c.last_stream_id, c.dispatched, c.answered, c.given_up)
  BY <1>5, AccountsSame DEF H2ConnOK
<1>7. H2ConnOK(n)
  BY <1>1, <1>3, <1>4, <1>6, StreamsChange
<1> QED BY <1>1, <1>7

\* An answered stream is closed and its window remembered.
LEMMA CloseOK ==
  ASSUME NEW c, H2ConnOK(c), NEW id \in DOMAIN c.streams, c.streams[id].resp_body # NoBody
  PROVE  \E n : n = CloseRememberingWindow(c, id) /\ H2ConnOK(n) /\ n.streams = Drop(c.streams, id)
                /\ n.conn_send_window = c.conn_send_window
<1>1. PICK q : q = Remembered(c.closed_windows, [id |-> id, window |-> c.streams[id].send_window])
  OBVIOUS
<1>2. PICK d : d = [c EXCEPT !.closed_windows = q]
  OBVIOUS
<1>3. Alike(c, d)
  BY <1>2 DEF H2ConnOK, IsConn, Alike, SameButStreams
<1>4. H2ConnOK(d) /\ d.streams = c.streams /\ d.conn_send_window = c.conn_send_window
  BY <1>3, AlikeOK DEF Alike, SameButStreams
<1>5. PICK n : n = H2Without(d, id) /\ SameButStreams(d, n) /\ n.streams = Drop(d.streams, id) /\ n.given_up = d.given_up
  BY <1>4, WithoutIs DEF H2ConnOK
<1>6. Accounts(n.streams, d.last_stream_id, d.dispatched, d.answered, n.given_up)
  <2>1. n.given_up \subseteq n.given_up /\ (id \in DOMAIN d.streams => d.streams[id].resp_body # NoBody)
    BY <1>4
  <2>2. Accounts(d.streams, d.last_stream_id, d.dispatched, d.answered, n.given_up)
    BY <1>4, <1>5 DEF H2ConnOK
  <2> QED BY <1>5, <2>1, <2>2, AccountsDrop
<1>7. StreamsOK(n.streams)
  BY <1>4, <1>5, StreamsDrop DEF H2ConnOK
<1>8. H2ConnOK(n)
  BY <1>4, <1>5, <1>6, <1>7, StreamsChange
<1>9. n = CloseRememberingWindow(c, id)
  BY <1>1, <1>2, <1>5 DEF CloseRememberingWindow
<1> QED BY <1>4, <1>5, <1>8, <1>9 DEF SameButStreams

\* Octets sent are charged to the connection.
LEMMA ChargeOK ==
  ASSUME NEW c, H2ConnOK(c), NEW n \in Nat, n <= c.conn_send_window
  PROVE  \E m : /\ m = [c EXCEPT !.conn_send_window = @ - n, !.conn_sent = @ + n]
                /\ H2ConnOK(m) /\ m.streams = c.streams /\ m.conn_send_window = c.conn_send_window - n
<1>1. PICK w, k : w = c.conn_send_window - n /\ k = c.conn_sent + n
  OBVIOUS
<1>2. PICK m : m = [c EXCEPT !.conn_send_window = w, !.conn_sent = k]
  OBVIOUS
<1>3. IsConn(m) /\ m.conn_send_window = w /\ m.conn_sent = k
  BY <1>2 DEF H2ConnOK, IsConn
<1>4. m.streams = c.streams /\ m.last_stream_id = c.last_stream_id
      /\ m.peer_initial_window = c.peer_initial_window /\ m.overrun = c.overrun
      /\ m.conn_recv_window = c.conn_recv_window /\ m.conn_granted = c.conn_granted
      /\ m.dispatched = c.dispatched /\ m.answered = c.answered /\ m.given_up = c.given_up
  BY <1>2 DEF H2ConnOK, IsConn
<1>5. FlowOK(c.overrun, c.conn_recv_window, c.conn_send_window, c.conn_granted, c.conn_sent)
  BY DEF H2ConnOK
<1>6. FlowOK(m.overrun, m.conn_recv_window, m.conn_send_window, m.conn_granted, m.conn_sent)
  BY <1>1, <1>3, <1>4, <1>5 DEF FlowOK
<1>7. H2ConnOK(m)
  BY <1>3, <1>4, <1>6 DEF H2ConnOK
<1> QED BY <1>1, <1>2, <1>3, <1>4, <1>7

\* A response that waits although both windows are open.
Stalled(s, w) == s.resp_body > s.resp_sent /\ w > 0 /\ s.send_window > 0

\* What flushing stream id does to the connection c: no other stream changes, one
\* without a response stays, and id waits for nothing but a window.
Flushed(c, n, id) ==
    /\ DOMAIN n.streams \subseteq DOMAIN c.streams
    /\ n.conn_send_window <= c.conn_send_window
    /\ \A j \in DOMAIN n.streams : j # id => n.streams[j] = c.streams[j]
    /\ \A j \in DOMAIN c.streams :
          c.streams[j].resp_body = NoBody => j \in DOMAIN n.streams /\ n.streams[j] = c.streams[j]
    /\ id \in DOMAIN n.streams => ~Stalled(n.streams[id], n.conn_send_window)

\* A stream that is closed, with an answer, is flushed.
LEMMA FlushedByClosing ==
  ASSUME NEW c, NEW n, NEW id \in DOMAIN c.streams, c.streams[id].resp_body # NoBody,
         n.streams = Drop(c.streams, id), n.conn_send_window <= c.conn_send_window
  PROVE  Flushed(c, n, id)
<1>1. PICK p : p = Drop(c.streams, id)
  OBVIOUS
<1>2. DOMAIN p = DOMAIN c.streams \ {id} /\ \A i \in DOMAIN p : p[i] = c.streams[i]
  BY <1>1 DEF Drop
<1> QED BY <1>1, <1>2 DEF Flushed

\* So is one that is kept and does not stall.
LEMMA FlushedByWaiting ==
  ASSUME NEW c, NEW n, NEW id \in DOMAIN c.streams, c.streams[id].resp_body # NoBody, NEW s,
         n.streams = H2Put(c.streams, id, s), n.conn_send_window <= c.conn_send_window,
         ~Stalled(s, n.conn_send_window)
  PROVE  Flushed(c, n, id)
<1>1. PICK p : p = H2Put(c.streams, id, s)
  OBVIOUS
<1>2. DOMAIN p = DOMAIN c.streams /\ p[id] = s /\ \A i \in DOMAIN p : i # id => p[i] = c.streams[i]
  BY <1>1 DEF H2Put
<1> QED BY <1>1, <1>2 DEF Flushed

\* What was put can be replaced or dropped.
LEMMA PutAgain == \A t, id, s, r : H2Put(H2Put(t, id, s), id, r) = H2Put(t, id, r)
BY DEF H2Put

\* A stream that is put and taken away leaves the others.
LEMMA PutDropped == \A t, id, s : Drop(H2Put(t, id, s), id) = Drop(t, id)
BY DEF H2Put, Drop

\* One stream's flush.
LEMMA FlushStreamOK ==
  ASSUME NEW c, H2ConnOK(c), NEW id
  PROVE  H2ConnOK(FlushStream(c, id)) /\ Flushed(c, FlushStream(c, id), id)
<1>0. c.conn_send_window \in Nat
  BY DEF H2ConnOK, FlowOK
<1>1. CASE id \notin DOMAIN c.streams
  <2>1. FlushStream(c, id) = c
    BY <1>1 DEF FlushStream, H2Open
  <2>2. Flushed(c, c, id)
    BY <1>0, <1>1 DEF Flushed
  <2> QED BY <2>1, <2>2
<1>2. CASE id \in DOMAIN c.streams /\ c.streams[id].resp_body = NoBody
  <2>1. FlushStream(c, id) = c
    BY <1>2 DEF FlushStream
  <2>2. H2StreamOK(c.streams[id])
    BY <1>2 DEF H2ConnOK, StreamsOK
  <2>3. ~(c.streams[id].resp_body > c.streams[id].resp_sent)
    BY <1>2, <2>2 DEF H2StreamOK, NoBody
  <2>4. Flushed(c, c, id)
    BY <1>0, <2>3 DEF Flushed, Stalled
  <2> QED BY <2>1, <2>4
<1>3. CASE id \in DOMAIN c.streams /\ c.streams[id].resp_body # NoBody
  <2>1. PICK s : s = c.streams[id]
    OBVIOUS
  <2>2. H2StreamOK(s)
    BY <1>3, <2>1 DEF H2ConnOK, StreamsOK
  <2>3. PICK left \in Int : left = s.resp_body - s.resp_sent
    BY <2>2 DEF H2StreamOK
  <2>4. PICK n \in Int : Min({left, c.conn_send_window, s.send_window}) = n
                         /\ n <= left /\ n <= c.conn_send_window /\ n <= s.send_window
                         /\ (n = left \/ n = c.conn_send_window \/ n = s.send_window)
    <3>1. s.send_window \in Int /\ c.conn_send_window \in Int
      BY <1>0, <2>2 DEF H2StreamOK
    <3>2. PICK n : n = Min({left, c.conn_send_window, s.send_window})
      OBVIOUS
    <3>3. n \in {left, c.conn_send_window, s.send_window}
          /\ n <= left /\ n <= c.conn_send_window /\ n <= s.send_window
      BY <3>1, <3>2, MinOfThree
    <3>4. n \in Int
      BY <3>1, <3>3
    <3> QED BY <3>2, <3>3, <3>4
  <2>5. PICK t : t = [s EXCEPT !.send_window = @ - n, !.resp_sent = @ + n]
    OBVIOUS
  <2>6. PICK d : d = [With(c, id, t) EXCEPT !.conn_send_window = @ - n, !.conn_sent = @ + n]
    OBVIOUS
  <2>7. FlushStream(c, id) =
          IF left = 0 THEN CloseRememberingWindow(c, id)
          ELSE IF n <= 0 THEN c
          ELSE IF n < left THEN d
          ELSE IF s.state = "HalfClosedRemote" THEN CloseRememberingWindow(d, id)
          ELSE With(d, id, [t EXCEPT !.state = "HalfClosedLocal"])
    BY <1>3, <2>1, <2>3, <2>4, <2>5, <2>6 DEF FlushStream, H2Open
  <2>8. CASE left = 0
    <3>1. PICK m : m = CloseRememberingWindow(c, id) /\ H2ConnOK(m) /\ m.streams = Drop(c.streams, id)
                   /\ m.conn_send_window = c.conn_send_window
      BY <1>3, CloseOK
    <3>2. m.conn_send_window <= c.conn_send_window
      BY <1>0, <3>1
    <3>3. Flushed(c, m, id)
      BY <1>3, <3>1, <3>2, FlushedByClosing
    <3> QED BY <2>7, <2>8, <3>1, <3>3
  <2>9. CASE left # 0 /\ n <= 0
    <3>1. ~Stalled(s, c.conn_send_window)
      BY <1>0, <2>2, <2>3, <2>4, <2>9 DEF Stalled, H2StreamOK
    <3>2. Flushed(c, c, id)
      BY <1>0, <1>3, <2>1, <3>1 DEF Flushed
    <3> QED BY <2>7, <2>9, <3>2
  <2>10. CASE left # 0 /\ n > 0
    <3>1. t.send_window = s.send_window - n /\ t.resp_sent = s.resp_sent + n
      BY <2>2, <2>5 DEF H2StreamOK
    <3>2. t.resp_body = s.resp_body /\ t.pending = s.pending /\ t.recv_window = s.recv_window
      BY <2>2, <2>5 DEF H2StreamOK
    <3>3. H2StreamOK(t)
      <4>1. t = [state |-> t.state, req |-> t.req, body |-> t.body, headers_done |-> t.headers_done,
                 send_window |-> t.send_window, recv_window |-> t.recv_window,
                 resp_body |-> t.resp_body, resp_sent |-> t.resp_sent, pending |-> t.pending]
        BY <2>2, <2>5 DEF H2StreamOK
      <4>2. t.send_window \in Int /\ t.resp_sent \in Nat
        BY <2>2, <2>4, <2>10, <3>1 DEF H2StreamOK
      <4>3. t.recv_window \in MAX_FRAME_SIZE..H2_WINDOW /\ t.resp_body \in Int
        BY <2>2, <3>2 DEF H2StreamOK
      <4> QED BY <4>1, <4>2, <4>3 DEF H2StreamOK
    <3>4. PICK x : x = With(c, id, t) /\ H2ConnOK(x) /\ SameButStreams(c, x)
                   /\ x.streams = H2Put(c.streams, id, t) /\ x.given_up = c.given_up /\ x.phase = c.phase
      BY <1>3, <2>1, <3>2, <3>3, PutBackOK
    <3>5. n \in Nat /\ n <= x.conn_send_window /\ x.conn_send_window = c.conn_send_window
      BY <2>4, <2>10, <3>4 DEF SameButStreams
    <3>6. PICK m : m = [x EXCEPT !.conn_send_window = @ - n, !.conn_sent = @ + n]
                   /\ H2ConnOK(m) /\ m.streams = x.streams /\ m.conn_send_window = x.conn_send_window - n
      BY <3>4, <3>5, ChargeOK
    <3>7. m = d
      BY <2>6, <3>4, <3>6
    <3>a. d.streams = H2Put(c.streams, id, t) /\ H2ConnOK(d)
      BY <3>4, <3>6, <3>7
    <3>8. d.conn_send_window = c.conn_send_window - n /\ d.conn_send_window <= c.conn_send_window
      <4>1. m.conn_send_window = x.conn_send_window - n
        BY <3>6
      <4>2. x.conn_send_window = c.conn_send_window /\ n \in Nat
        BY <3>5
      <4> QED BY <1>0, <4>1, <4>2, <3>7
    <3>9. id \in DOMAIN d.streams /\ d.streams[id] = t
      <4>1. PICK p, t0 : p = H2Put(t0, id, t) /\ t0 = c.streams
        OBVIOUS
      <4>2. DOMAIN p = DOMAIN t0 \cup {id} /\ p[id] = t
        BY <4>1 DEF H2Put
      <4> QED BY <3>a, <4>1, <4>2
    <3>10. CASE n < left
      <4>1. ~Stalled(t, d.conn_send_window)
        <5>1. d.conn_send_window = 0 \/ t.send_window = 0
          BY <1>0, <2>2, <2>4, <3>1, <3>8, <3>10 DEF H2StreamOK
        <5> QED BY <5>1 DEF Stalled
      <4>2. Flushed(c, d, id)
        BY <1>3, <3>8, <3>a, <4>1, FlushedByWaiting
      <4> QED BY <2>7, <2>10, <3>a, <3>10, <4>2
    <3>11. CASE ~(n < left) /\ s.state = "HalfClosedRemote"
      <4>1. d.streams[id].resp_body # NoBody
        BY <1>3, <2>1, <3>2, <3>9
      <4>2. PICK y : y = CloseRememberingWindow(d, id) /\ H2ConnOK(y) /\ y.streams = Drop(d.streams, id)
                     /\ y.conn_send_window = d.conn_send_window
        BY <3>a, <3>9, <4>1, CloseOK
      <4>3. y.streams = Drop(c.streams, id) /\ y.conn_send_window <= c.conn_send_window
        BY <3>8, <3>a, <4>2, PutDropped
      <4>4. Flushed(c, y, id)
        BY <1>3, <4>3, FlushedByClosing
      <4> QED BY <2>7, <2>10, <3>11, <4>2, <4>4
    <3>12. CASE ~(n < left) /\ s.state # "HalfClosedRemote"
      <4>1. PICK z : z = [t EXCEPT !.state = "HalfClosedLocal"]
        OBVIOUS
      <4>2. H2StreamOK(z) /\ z.pending = t.pending /\ z.resp_body = t.resp_body /\ z.resp_sent = t.resp_sent
        BY <3>3, <4>1 DEF H2StreamOK
      <4>3. PICK y : y = With(d, id, z) /\ H2ConnOK(y) /\ SameButStreams(d, y)
                     /\ y.streams = H2Put(d.streams, id, z) /\ y.given_up = d.given_up /\ y.phase = d.phase
        BY <3>a, <3>9, <4>2, PutBackOK
      <4>4. y.streams = H2Put(c.streams, id, z) /\ y.conn_send_window <= c.conn_send_window
        BY <3>8, <3>a, <4>3, PutAgain DEF SameButStreams
      <4>5. ~Stalled(z, y.conn_send_window)
        <5>1. n = left
          BY <2>4, <3>12
        <5>2. z.resp_sent = z.resp_body
          BY <2>2, <2>3, <3>1, <3>2, <4>2, <5>1 DEF H2StreamOK
        <5>3. z.resp_body \in Int
          BY <4>2 DEF H2StreamOK
        <5> QED BY <5>2, <5>3 DEF Stalled
      <4>6. Flushed(c, y, id)
        BY <1>3, <4>4, <4>5, FlushedByWaiting
      <4> QED BY <2>7, <2>10, <3>12, <4>1, <4>3, <4>6
    <3> QED BY <3>10, <3>11, <3>12
  <2> QED BY <2>4, <2>8, <2>9, <2>10
<1> QED BY <1>1, <1>2, <1>3

\* No stream is opened, and one without a response stays as it is.
H2Drained(c, n) ==
    /\ DOMAIN n.streams \subseteq DOMAIN c.streams
    /\ \A j \in DOMAIN c.streams :
          c.streams[j].resp_body = NoBody => j \in DOMAIN n.streams /\ n.streams[j] = c.streams[j]

\* c flushed as far as the i-th stream of the order o.
FlushedTo(c, n, o, i) ==
    /\ H2ConnOK(n)
    /\ H2Drained(c, n)
    /\ \A k \in 1..i : o[k] \in DOMAIN n.streams => ~Stalled(n.streams[o[k]], n.conn_send_window)

\* One stream further.
LEMMA FlushedFurther ==
  ASSUME NEW c, NEW d, NEW o, NEW i \in Nat, FlushedTo(c, d, o, i), NEW n, n = FlushStream(d, o[i + 1])
  PROVE  FlushedTo(c, n, o, i + 1)
<1>1. PICK id : id = o[i + 1]
  OBVIOUS
<1>2. H2ConnOK(d) /\ H2ConnOK(n) /\ Flushed(d, n, id)
  BY <1>1, FlushStreamOK DEF FlushedTo
<1>3. H2Drained(c, d) /\ H2Drained(d, n)
  BY <1>2 DEF FlushedTo, Flushed, H2Drained
<1>4. H2Drained(c, n)
  BY <1>3 DEF H2Drained
<1>5. PICK v, w : v = d.conn_send_window /\ w = n.conn_send_window
  OBVIOUS
<1>6. v \in Nat /\ w \in Nat /\ w <= v
  BY <1>2, <1>5 DEF Flushed, H2ConnOK, FlowOK
<1>7. ASSUME NEW k \in 1..(i + 1), o[k] \in DOMAIN n.streams PROVE ~Stalled(n.streams[o[k]], w)
  <2>1. CASE o[k] = id
    BY <1>2, <1>5, <1>7, <2>1 DEF Flushed
  <2>2. CASE o[k] # id
    <3>1. k \in 1..i
      BY <1>1, <2>2
    <3>2. o[k] \in DOMAIN d.streams /\ n.streams[o[k]] = d.streams[o[k]]
      BY <1>2, <1>7, <2>2 DEF Flushed
    <3>3. ~Stalled(d.streams[o[k]], v)
      BY <1>5, <3>1, <3>2 DEF FlushedTo
    <3> QED BY <1>6, <3>2, <3>3 DEF Stalled
  <2> QED BY <2>1, <2>2
<1> QED BY <1>2, <1>4, <1>5, <1>7 DEF FlushedTo

\* flush_pending_streams, in whatever order: nothing is left that could be sent.
LEMMA FlushPendingOK ==
  ASSUME NEW c, H2ConnOK(c), NEW e \in FlushPending(c)
  PROVE  H2ConnOK(e) /\ H2Drained(c, e) /\ \A j \in DOMAIN e.streams : ~Stalled(e.streams[j], e.conn_send_window)
<1>1. PICK o \in Orders(DOMAIN c.streams) : e = FoldLeft(FlushStream, c, o)
  BY DEF FlushPending, H2Open
<1>2. IsFiniteSet(DOMAIN c.streams)
  BY DEF H2ConnOK, StreamsOK
<1>3. PICK n \in Nat : o \in [1..n -> DOMAIN c.streams] /\ \A x \in DOMAIN c.streams : \E i \in 1..n : o[i] = x
  BY <1>1, <1>2, OrderLists
<1>4. DOMAIN o = 1..n
  BY <1>3
<1>a. PICK F : FlushLoop(F, n, c, o)
  BY <1>4, FlushRun
<1>5. F[0] = c /\ (\A i \in 1..n : F[i] = FlushStream(F[i - 1], o[i])) /\ e = F[n]
  BY <1>1, <1>a DEF FlushLoop
<1> DEFINE T == {i \in 0..n : FlushedTo(c, F[i], o, i)}
<1>6. 0 \in T
  <2>1. H2Drained(c, c)
    BY DEF H2Drained
  <2>2. FlushedTo(c, c, o, 0)
    BY <2>1 DEF FlushedTo
  <2> QED BY <1>5, <2>2
<1>7. ASSUME NEW i \in 1..n, i - 1 \in T PROVE i \in T
  <2>1. PICK k \in Nat : k = i - 1 /\ i = k + 1
    OBVIOUS
  <2>2. FlushedTo(c, F[k], o, k)
    BY <1>7, <2>1
  <2>3. F[i] = FlushStream(F[k], o[k + 1])
    BY <1>5, <2>1
  <2>4. FlushedTo(c, F[i], o, k + 1)
    BY <2>2, <2>3, FlushedFurther
  <2> QED BY <2>1, <2>4
<1>8. n \in T
  <2> HIDE DEF T
  <2>1. \A i \in 0..n : i \in T
    BY <1>6, <1>7, IndexInduction
  <2> QED BY <2>1
<1>9. FlushedTo(c, e, o, n)
  BY <1>5, <1>8
<1>10. ASSUME NEW j \in DOMAIN e.streams PROVE ~Stalled(e.streams[j], e.conn_send_window)
  <2>1. j \in DOMAIN c.streams
    BY <1>9 DEF FlushedTo, H2Drained
  <2>2. PICK i \in 1..n : o[i] = j
    BY <1>3, <2>1
  <2> QED BY <1>9, <2>2 DEF FlushedTo
<1> QED BY <1>9, <1>10 DEF FlushedTo

\* b, once the request of its stream id has been dispatched and is not answered.
AskedOf(b, c, id) ==
    /\ IsConn(c)
    /\ c.streams = b.streams /\ c.last_stream_id = b.last_stream_id
    /\ c.peer_initial_window = b.peer_initial_window /\ c.overrun = b.overrun
    /\ c.conn_recv_window = b.conn_recv_window /\ c.conn_send_window = b.conn_send_window
    /\ c.conn_granted = b.conn_granted /\ c.conn_sent = b.conn_sent
    /\ c.answered = b.answered /\ c.given_up = b.given_up
    /\ DOMAIN c.dispatched = H2Ids
    /\ \A i \in H2Ids : i # id => c.dispatched[i] = b.dispatched[i]
    /\ c.dispatched[id] = 1 /\ c.answered[id] = 0
    /\ id \in DOMAIN c.streams

\* The other streams that have no response are as they were.
OthersWait(b, e, id) ==
    \A j \in DOMAIN b.streams :
        j # id /\ b.streams[j].resp_body = NoBody => j \in DOMAIN e.streams /\ e.streams[j] = b.streams[j]

\* A response is queued and flushed.
LEMMA RespondOK ==
  ASSUME NEW b, H2ConnOK(b), NEW c, NEW id, AskedOf(b, c, id), NEW len \in Nat, NEW e \in Respond(c, id, len)
  PROVE  H2ConnOK(e) /\ OthersWait(b, e, id)
<1>0. id \in H2Ids /\ id \in DOMAIN b.streams /\ H2StreamOK(b.streams[id]) /\ c.streams = b.streams
  BY DEF AskedOf, H2ConnOK, StreamsOK
<1>1. PICK r : r = [c.streams[id] EXCEPT !.resp_body = len, !.resp_sent = 0, !.pending = "no"]
  OBVIOUS
<1>2. H2StreamOK(r) /\ r.pending = "no" /\ r.resp_body = len
  <2>1. PICK s : s = c.streams[id]
    OBVIOUS
  <2>2. H2StreamOK(s) /\ r = [s EXCEPT !.resp_body = len, !.resp_sent = 0, !.pending = "no"]
    BY <1>0, <1>1, <2>1
  <2>3. r.pending = "no" /\ r.resp_body = len /\ r.resp_sent = 0
    BY <2>2 DEF H2StreamOK
  <2>4. r.send_window = s.send_window /\ r.recv_window = s.recv_window
    BY <2>2 DEF H2StreamOK
  <2>5. r = [state |-> r.state, req |-> r.req, body |-> r.body, headers_done |-> r.headers_done,
             send_window |-> r.send_window, recv_window |-> r.recv_window,
             resp_body |-> r.resp_body, resp_sent |-> r.resp_sent, pending |-> r.pending]
    BY <2>2 DEF H2StreamOK
  <2> QED BY <2>2, <2>3, <2>4, <2>5 DEF H2StreamOK
<1>3. IsConn(c)
  BY DEF AskedOf
<1>4. PICK x : x = With(c, id, r) /\ SameButStreams(c, x) /\ x.streams = H2Put(c.streams, id, r)
               /\ x.given_up = c.given_up /\ x.phase = c.phase
  BY <1>3, WithIs
<1>5. PICK a : a = [x.answered EXCEPT ![id] = @ + 1]
  OBVIOUS
<1>6. PICK n : n = [x EXCEPT !.answered = a]
  OBVIOUS
<1>7. e \in FlushPending(n)
  <2>1. n = [x EXCEPT !.answered[id] = @ + 1]
    BY <1>5, <1>6
  <2> QED BY <1>1, <1>4, <2>1 DEF Respond
<1>8. IsConn(x)
  BY <1>4 DEF SameButStreams
<1>9. IsConn(n) /\ n.answered = a /\ n.streams = x.streams /\ n.given_up = x.given_up
  BY <1>6, <1>8 DEF IsConn
<1>10. n.last_stream_id = x.last_stream_id /\ n.peer_initial_window = x.peer_initial_window
       /\ n.overrun = x.overrun /\ n.conn_recv_window = x.conn_recv_window
       /\ n.conn_send_window = x.conn_send_window /\ n.conn_granted = x.conn_granted
       /\ n.conn_sent = x.conn_sent /\ n.dispatched = x.dispatched
  BY <1>6, <1>8 DEF IsConn
<1>11. n.last_stream_id = b.last_stream_id /\ n.peer_initial_window = b.peer_initial_window
       /\ n.overrun = b.overrun /\ n.conn_recv_window = b.conn_recv_window
       /\ n.conn_send_window = b.conn_send_window /\ n.conn_granted = b.conn_granted
       /\ n.conn_sent = b.conn_sent /\ n.dispatched = c.dispatched
       /\ n.streams = H2Put(b.streams, id, r) /\ n.given_up = b.given_up /\ x.answered = b.answered
  BY <1>4, <1>9, <1>10 DEF SameButStreams, AskedOf
<1>12. Accounts(H2Put(b.streams, id, r), b.last_stream_id, c.dispatched, a, b.given_up)
  <2>1. Accounts(b.streams, b.last_stream_id, b.dispatched, b.answered, b.given_up)
    BY DEF H2ConnOK
  <2>2. DOMAIN b.answered = H2Ids /\ id <= b.last_stream_id
    BY <1>0, <2>1 DEF Accounts, IdOK
  <2>3. DOMAIN a = H2Ids /\ a[id] = 1 /\ \A i \in H2Ids : i # id => a[i] = b.answered[i]
    BY <1>0, <1>5, <1>11, <2>2 DEF AskedOf
  <2>4. DOMAIN c.dispatched = H2Ids /\ c.dispatched[id] = 1
        /\ \A i \in H2Ids : i # id => c.dispatched[i] = b.dispatched[i]
    BY DEF AskedOf
  <2>5. Bound(r, c.dispatched[id], a[id])
    BY <1>2, <2>3, <2>4 DEF Bound, NoBody
  <2>6. \A i \in H2Ids : i # id => c.dispatched[i] = b.dispatched[i] /\ a[i] = b.answered[i]
    BY <2>3, <2>4
  <2> QED BY <1>0, <2>1, <2>2, <2>3, <2>4, <2>5, <2>6, AccountsPut
<1>13. StreamsOK(H2Put(b.streams, id, r))
  BY <1>0, <1>2, StreamsPut DEF H2ConnOK
<1>14. H2ConnOK(n)
  <2>1. FlowOK(n.overrun, n.conn_recv_window, n.conn_send_window, n.conn_granted, n.conn_sent)
    BY <1>11 DEF H2ConnOK
  <2>2. Accounts(n.streams, n.last_stream_id, n.dispatched, n.answered, n.given_up)
    BY <1>9, <1>11, <1>12
  <2>3. n.last_stream_id \in Nat /\ n.peer_initial_window \in Int /\ StreamsOK(n.streams)
    BY <1>11, <1>13 DEF H2ConnOK
  <2> QED BY <1>9, <2>1, <2>2, <2>3 DEF H2ConnOK
<1>15. H2ConnOK(e) /\ H2Drained(n, e)
  BY <1>7, <1>14, FlushPendingOK
<1>16. OthersWait(b, e, id)
  <2>1. PICK p : p = H2Put(b.streams, id, r)
    OBVIOUS
  <2>2. \A j \in DOMAIN b.streams : j # id => j \in DOMAIN p /\ p[j] = b.streams[j]
    BY <2>1 DEF H2Put
  <2> QED BY <1>11, <1>15, <2>1, <2>2 DEF H2Drained, OthersWait
<1> QED BY <1>15, <1>16

\* What the handler may make of it.
LEMMA DispatchedIs ==
  ASSUME NEW c, NEW id, NEW e \in Dispatched(c, id)
  PROVE  (\E n \in H2Responses : e \in Respond(c, id, n))
         \/ e = With(c, id, [c.streams[id] EXCEPT !.pending = "waiting"])
BY DEF Dispatched

\* A request goes to the handler: it is answered at once, or waited for.
LEMMA MaybeDispatchOK ==
  ASSUME NEW c, H2ConnOK(c), NEW id, NEW e \in MaybeDispatch(c, id)
  PROVE  H2ConnOK(e)
<1>1. CASE id \notin DOMAIN c.streams \/ ~DispatchReady(c.streams[id])
  <2>1. e = c
    BY <1>1 DEF MaybeDispatch, H2Open
  <2> QED BY <2>1
<1>2. CASE id \in DOMAIN c.streams /\ DispatchReady(c.streams[id]) /\ Malformed(c.streams[id])
  <2>1. e = Reset(c, id)
    BY <1>2 DEF MaybeDispatch, H2Open
  <2> QED BY <2>1, RstOK
<1>3. CASE id \in DOMAIN c.streams /\ DispatchReady(c.streams[id]) /\ ~Malformed(c.streams[id])
  <2>1. PICK s : s = c.streams[id]
    OBVIOUS
  <2>2. H2StreamOK(s) /\ s.pending = "no" /\ s.resp_body = NoBody /\ id \in H2Ids
    BY <1>3, <2>1 DEF H2ConnOK, StreamsOK, DispatchReady
  <2>3. Accounts(c.streams, c.last_stream_id, c.dispatched, c.answered, c.given_up)
    BY DEF H2ConnOK
  <2>4. id <= c.last_stream_id /\ c.dispatched[id] = 0 /\ c.answered[id] = 0
        /\ DOMAIN c.dispatched = H2Ids /\ DOMAIN c.answered = H2Ids
    <3>1. IdOK(id, c.streams, c.last_stream_id, c.dispatched, c.answered, c.given_up)
      BY <2>2, <2>3 DEF Accounts
    <3>2. id <= c.last_stream_id /\ Bound(s, c.dispatched[id], c.answered[id])
      BY <1>3, <2>1, <3>1 DEF IdOK
    <3> QED BY <2>2, <2>3, <3>2 DEF Bound, Accounts
  <2>5. PICK k : k = [c.dispatched EXCEPT ![id] = @ + 1]
    OBVIOUS
  <2>6. DOMAIN k = H2Ids /\ k[id] = 1 /\ \A i \in H2Ids : i # id => k[i] = c.dispatched[i]
    BY <2>2, <2>4, <2>5
  <2>7. PICK d : d = [c EXCEPT !.dispatched = k]
    OBVIOUS
  <2>8. d = [c EXCEPT !.dispatched[id] = @ + 1]
    BY <2>5, <2>7
  <2>9. IsConn(d) /\ d.dispatched = k
    BY <2>7 DEF H2ConnOK, IsConn
  <2>10. /\ d.streams = c.streams /\ d.last_stream_id = c.last_stream_id
         /\ d.peer_initial_window = c.peer_initial_window /\ d.overrun = c.overrun
         /\ d.conn_recv_window = c.conn_recv_window /\ d.conn_send_window = c.conn_send_window
         /\ d.conn_granted = c.conn_granted /\ d.conn_sent = c.conn_sent
         /\ d.answered = c.answered /\ d.given_up = c.given_up
    BY <2>7 DEF H2ConnOK, IsConn
  <2>11. (\E n \in H2Responses : e \in Respond(d, id, n))
         \/ e = With(d, id, [d.streams[id] EXCEPT !.pending = "waiting"])
    <3>1. e \in Dispatched(d, id)
      BY <1>3, <2>8 DEF MaybeDispatch, H2Open
    <3> QED BY <3>1, DispatchedIs
  <2>12. CASE \E n \in H2Responses : e \in Respond(d, id, n)
    <3>1. PICK n \in H2Responses : e \in Respond(d, id, n)
      BY <2>12
    <3>2. n \in Nat
      BY H2ServerAssumption
    <3>3. AskedOf(c, d, id)
      BY <1>3, <2>4, <2>6, <2>9, <2>10 DEF AskedOf
    <3> QED BY <3>1, <3>2, <3>3, RespondOK
  <2>13. CASE e = With(d, id, [d.streams[id] EXCEPT !.pending = "waiting"])
    <3>1. PICK r : r = [s EXCEPT !.pending = "waiting"]
      OBVIOUS
    <3>2. H2StreamOK(r) /\ r.pending = "waiting" /\ r.resp_body = NoBody
      BY <2>2, <3>1 DEF H2StreamOK
    <3>3. e = With(d, id, r)
      BY <2>1, <2>10, <2>13, <3>1
    <3>4. PICK n : n = With(d, id, r) /\ SameButStreams(d, n) /\ n.streams = H2Put(d.streams, id, r)
                   /\ n.given_up = d.given_up /\ n.phase = d.phase
      BY <2>9, WithIs
    <3>5. Bound(r, k[id], c.answered[id])
      BY <2>4, <2>6, <3>2 DEF Bound
    <3>6. Accounts(H2Put(c.streams, id, r), c.last_stream_id, k, c.answered, c.given_up)
      <4>1. \A i \in H2Ids : i # id => k[i] = c.dispatched[i] /\ c.answered[i] = c.answered[i]
        BY <2>6
      <4> QED BY <2>2, <2>3, <2>4, <2>6, <3>5, <4>1, AccountsPut
    <3>7. StreamsOK(H2Put(c.streams, id, r))
      BY <2>2, <3>2, StreamsPut DEF H2ConnOK
    <3>8. /\ n.last_stream_id = c.last_stream_id /\ n.peer_initial_window = c.peer_initial_window
          /\ n.overrun = c.overrun /\ n.conn_recv_window = c.conn_recv_window
          /\ n.conn_send_window = c.conn_send_window /\ n.conn_granted = c.conn_granted
          /\ n.conn_sent = c.conn_sent /\ n.dispatched = k /\ n.answered = c.answered
          /\ n.given_up = c.given_up /\ n.streams = H2Put(c.streams, id, r) /\ IsConn(n)
      BY <2>9, <2>10, <3>4 DEF SameButStreams
    <3>9. H2ConnOK(n)
      BY <3>6, <3>7, <3>8 DEF H2ConnOK
    <3> QED BY <3>3, <3>4, <3>9
  <2> QED BY <2>11, <2>12, <2>13
<1> QED BY <1>1, <1>2, <1>3

\* A stream whose backend has answered waits for that.
LEMMA ReadyIsAsked ==
  ASSUME NEW c, H2ConnOK(c), NEW id \in DOMAIN c.streams, c.streams[id].pending = "ready"
  PROVE  AskedOf(c, c, id) /\ c.streams[id].resp_body = NoBody
<1>1. id \in H2Ids /\ Accounts(c.streams, c.last_stream_id, c.dispatched, c.answered, c.given_up) /\ IsConn(c)
  BY DEF H2ConnOK, StreamsOK
<1>2. Bound(c.streams[id], c.dispatched[id], c.answered[id]) /\ DOMAIN c.dispatched = H2Ids
  BY <1>1 DEF Accounts, IdOK
<1>3. c.dispatched[id] = 1 /\ c.answered[id] = 0 /\ c.streams[id].resp_body = NoBody
  BY <1>2 DEF Bound
<1> QED BY <1>1, <1>2, <1>3 DEF AskedOf

\* d has the answers of o from the i-th on still to take.
ToTake(d, o, n, i) ==
    /\ H2ConnOK(d)
    /\ \A k \in (i + 1)..n : o[k] \in DOMAIN d.streams /\ d.streams[o[k]].pending = "ready"

\* One answer is taken.
LEMMA TakeAnswerOK ==
  ASSUME NEW n \in Nat, NEW o, \A j, k \in 1..n : j # k => o[j] # o[k],
         NEW i \in Nat, i + 1 <= n, NEW cs, \A d \in cs : ToTake(d, o, n, i),
         NEW e \in TakeAnswer(cs, o[i + 1])
  PROVE  ToTake(e, o, n, i + 1)
<1>1. PICK id : id = o[i + 1]
  OBVIOUS
<1>2. PICK d \in cs : \E m \in H2Responses : e \in Respond(d, id, m)
  BY <1>1 DEF TakeAnswer
<1>3. PICK m \in H2Responses : e \in Respond(d, id, m)
  BY <1>2
<1>4. m \in Nat
  BY H2ServerAssumption
<1>5. H2ConnOK(d) /\ \A k \in (i + 1)..n : o[k] \in DOMAIN d.streams /\ d.streams[o[k]].pending = "ready"
  BY DEF ToTake
<1>6. id \in DOMAIN d.streams /\ d.streams[id].pending = "ready"
  <2>1. i + 1 \in (i + 1)..n
    OBVIOUS
  <2> QED BY <1>1, <1>5, <2>1
<1>7. H2ConnOK(e) /\ OthersWait(d, e, id)
  BY <1>3, <1>4, <1>5, <1>6, ReadyIsAsked, RespondOK
<1>8. ASSUME NEW k \in (i + 1 + 1)..n PROVE o[k] \in DOMAIN e.streams /\ e.streams[o[k]].pending = "ready"
  <2>1. k \in (i + 1)..n /\ k \in 1..n /\ i + 1 \in 1..n /\ k # i + 1
    OBVIOUS
  <2>2. o[k] # id /\ o[k] \in DOMAIN d.streams /\ d.streams[o[k]].pending = "ready"
    BY <1>1, <1>5, <2>1
  <2>3. d.streams[o[k]].resp_body = NoBody
    BY <1>5, <2>2, ReadyIsAsked
  <2> QED BY <1>7, <2>2, <2>3 DEF OthersWait
<1> QED BY <1>7, <1>8 DEF ToTake

\* poll_pending_url keeps a connection sound.
LEMMA PollPendingOK ==
  ASSUME NEW c, H2ConnOK(c), NEW e \in PollPending(c)
  PROVE  H2ConnOK(e)
<1>1. PICK o \in Orders(H2Answered(c)) : e \in FoldLeft(TakeAnswer, {c}, o)
  BY DEF PollPending
<1>2. IsFiniteSet(H2Answered(c)) /\ \A i \in H2Answered(c) : i \in DOMAIN c.streams /\ c.streams[i].pending = "ready"
  <2>1. IsFiniteSet(DOMAIN c.streams)
    BY DEF H2ConnOK, StreamsOK
  <2>2. H2Answered(c) \in SUBSET DOMAIN c.streams
    BY DEF H2Answered, H2Open
  <2>3. IsFiniteSet(H2Answered(c))
    BY <2>1, <2>2, FS_Subset
  <2> QED BY <2>3 DEF H2Answered, H2Open
<1>3. PICK n \in Nat : o \in [1..n -> H2Answered(c)] /\ \A i, j \in 1..n : i # j => o[i] # o[j]
  BY <1>1, <1>2, OrderLists
<1>4. DOMAIN o = 1..n
  BY <1>3
<1>a. PICK F : TakeLoop(F, n, {c}, o)
  BY <1>4, TakeRun
<1>5. F[0] = {c} /\ (\A i \in 1..n : F[i] = TakeAnswer(F[i - 1], o[i])) /\ e \in F[n]
  BY <1>1, <1>a DEF TakeLoop
<1> DEFINE T == {i \in 0..n : \A d \in F[i] : ToTake(d, o, n, i)}
<1>6. 0 \in T
  <2>1. \A k \in 1..n : o[k] \in DOMAIN c.streams /\ c.streams[o[k]].pending = "ready"
    BY <1>2, <1>3
  <2>2. ToTake(c, o, n, 0)
    BY <2>1 DEF ToTake
  <2> QED BY <1>5, <2>2
<1>7. ASSUME NEW i \in 1..n, i - 1 \in T PROVE i \in T
  <2>1. PICK k \in Nat : k = i - 1 /\ i = k + 1 /\ k + 1 <= n
    OBVIOUS
  <2>2. \A d \in F[k] : ToTake(d, o, n, k)
    BY <1>7, <2>1
  <2>3. F[i] = TakeAnswer(F[k], o[k + 1])
    BY <1>5, <2>1
  <2>4. ASSUME NEW d \in F[i] PROVE ToTake(d, o, n, k + 1)
    BY <1>3, <2>1, <2>2, <2>3, TakeAnswerOK
  <2> QED BY <2>1, <2>4
<1>8. n \in T
  <2> HIDE DEF T
  <2>1. \A i \in 0..n : i \in T
    BY <1>6, <1>7, IndexInduction
  <2> QED BY <2>1
<1> QED BY <1>5, <1>8 DEF ToTake

\* n is c with later ids seen, more streams given up, and what is not accounted for.
GrownFrom(c, n) ==
    /\ IsConn(n)
    /\ n.streams = c.streams
    /\ n.last_stream_id \in Nat /\ c.last_stream_id <= n.last_stream_id
    /\ n.peer_initial_window = c.peer_initial_window
    /\ n.overrun = c.overrun
    /\ n.conn_recv_window = c.conn_recv_window
    /\ n.conn_send_window = c.conn_send_window
    /\ n.conn_granted = c.conn_granted
    /\ n.conn_sent = c.conn_sent
    /\ n.dispatched = c.dispatched
    /\ n.answered = c.answered
    /\ c.given_up \subseteq n.given_up

\* A connection that only saw later ids or gave streams up keeps the invariant.
LEMMA GrownOK ==
  ASSUME NEW c, H2ConnOK(c), NEW n, GrownFrom(c, n)
  PROVE  H2ConnOK(n)
<1>1. Accounts(c.streams, n.last_stream_id, c.dispatched, c.answered, n.given_up)
  BY AccountsGrow DEF H2ConnOK, GrownFrom
<1> QED BY <1>1 DEF H2ConnOK, GrownFrom

\* The windows of some streams move; what they owe does not.
LEMMA WindowsMove ==
  ASSUME NEW c, H2ConnOK(c), NEW n, IsConn(n), n.peer_initial_window \in Int,
         n.last_stream_id = c.last_stream_id, n.overrun = c.overrun,
         n.conn_recv_window = c.conn_recv_window, n.conn_send_window = c.conn_send_window,
         n.conn_granted = c.conn_granted, n.conn_sent = c.conn_sent,
         n.dispatched = c.dispatched, n.answered = c.answered, n.given_up = c.given_up,
         DOMAIN n.streams = DOMAIN c.streams,
         \A i \in DOMAIN c.streams : /\ H2StreamOK(n.streams[i])
                                     /\ n.streams[i].pending = c.streams[i].pending
                                     /\ n.streams[i].resp_body = c.streams[i].resp_body
  PROVE  H2ConnOK(n)
<1>1. StreamsOK(n.streams)
  BY DEF H2ConnOK, StreamsOK
<1>2. Accounts(n.streams, c.last_stream_id, c.dispatched, c.answered, c.given_up)
  BY AccountsSame DEF H2ConnOK
<1> QED BY <1>1, <1>2 DEF H2ConnOK

\* A stream's send window moves by any number.
LEMMA ResizedOK ==
  ASSUME NEW s, H2StreamOK(s), NEW by \in Int
  PROVE  /\ H2StreamOK(Resized(s, by))
         /\ Resized(s, by).pending = s.pending /\ Resized(s, by).resp_body = s.resp_body
<1>1. PICK w \in Int : w = s.send_window + by
  BY DEF H2StreamOK
<1>2. PICK r : r = [s EXCEPT !.send_window = w]
  OBVIOUS
<1>3. r = Resized(s, by)
  BY <1>1, <1>2 DEF Resized
<1>4. r.send_window = w /\ r.pending = s.pending /\ r.resp_body = s.resp_body /\ r.recv_window = s.recv_window
      /\ r.resp_sent = s.resp_sent
  BY <1>2 DEF H2StreamOK
<1>5. H2StreamOK(r)
  BY <1>1, <1>2, <1>4 DEF H2StreamOK
<1> QED BY <1>3, <1>4, <1>5

\* handle_settings.
LEMMA SettingsOK ==
  ASSUME NEW c, H2ConnOK(c), NEW f, f.window \in Int, NEW e \in HandleSettings(c, f)
  PROVE  H2ConnOK(e)
<1>1. CASE f.ack
  BY <1>1 DEF HandleSettings
<1>2. CASE ~f.ack /\ f.flaw = "value"
  <2>1. e = H2Fatal(c)
    BY <1>2 DEF HandleSettings
  <2> QED BY <2>1, SmallStepsOK
<1>3. CASE ~f.ack /\ f.flaw # "value" /\ WindowOverflows(c, f.window - c.peer_initial_window)
  <2>1. e = [c EXCEPT !.phase = "Done"]
    BY <1>3 DEF HandleSettings
  <2> QED BY <2>1, SmallStepsOK
<1>4. CASE ~f.ack /\ f.flaw # "value" /\ ~WindowOverflows(c, f.window - c.peer_initial_window)
  <2>1. PICK by \in Int : by = f.window - c.peer_initial_window
    BY DEF H2ConnOK
  <2>2. PICK t : t = [i \in DOMAIN c.streams |-> Resized(c.streams[i], by)]
    OBVIOUS
  <2>3. e = [c EXCEPT !.peer_initial_window = f.window, !.streams = t]
    BY <1>4, <2>1, <2>2 DEF HandleSettings, H2Open
  <2>4. IsConn(e) /\ e.streams = t /\ e.peer_initial_window = f.window
    BY <2>3 DEF H2ConnOK, IsConn
  <2>5. /\ e.last_stream_id = c.last_stream_id /\ e.overrun = c.overrun
        /\ e.conn_recv_window = c.conn_recv_window /\ e.conn_send_window = c.conn_send_window
        /\ e.conn_granted = c.conn_granted /\ e.conn_sent = c.conn_sent
        /\ e.dispatched = c.dispatched /\ e.answered = c.answered /\ e.given_up = c.given_up
    BY <2>3 DEF H2ConnOK, IsConn
  <2>6. ASSUME NEW i \in DOMAIN c.streams
        PROVE  H2StreamOK(t[i]) /\ t[i].pending = c.streams[i].pending /\ t[i].resp_body = c.streams[i].resp_body
    <3>1. H2StreamOK(c.streams[i])
      BY DEF H2ConnOK, StreamsOK
    <3> QED BY <2>2, <3>1, ResizedOK
  <2>7. DOMAIN t = DOMAIN c.streams
    BY <2>2
  <2> QED BY <2>4, <2>5, <2>6, <2>7, WindowsMove
<1> QED BY <1>1, <1>2, <1>3, <1>4

\* handle_window_update, for a stream that is gone.
LEMMA UpdateClosedOK ==
  ASSUME NEW c, H2ConnOK(c), NEW f, NEW e \in UpdateClosed(c, f)
  PROVE  H2ConnOK(e)
<1>1. CASE ~\E k \in DOMAIN c.closed_windows : c.closed_windows[k].id = f.id
  <2>1. e \in FlushPending(c)
    BY <1>1 DEF UpdateClosed
  <2> QED BY <2>1, FlushPendingOK
<1>2. CASE \E k \in DOMAIN c.closed_windows : c.closed_windows[k].id = f.id
  <2>1. PICK k : k = CHOOSE j \in DOMAIN c.closed_windows : c.closed_windows[j].id = f.id
    OBVIOUS
  <2>2. PICK w : w = c.closed_windows[k].window + f.inc
    OBVIOUS
  <2>3. PICK p, q : p = RemoveAt(c.closed_windows, k) /\ q = [c.closed_windows EXCEPT ![k].window = w]
    OBVIOUS
  <2>4. PICK x, y : x = [c EXCEPT !.closed_windows = p] /\ y = [c EXCEPT !.closed_windows = q]
    OBVIOUS
  <2>5. H2ConnOK(x) /\ H2ConnOK(y)
    <3>1. Alike(c, x)
      BY <2>4 DEF H2ConnOK, IsConn, Alike, SameButStreams
    <3>2. Alike(c, y)
      BY <2>4 DEF H2ConnOK, IsConn, Alike, SameButStreams
    <3> QED BY <3>1, <3>2, AlikeOK
  <2>6. e = NoteReset(H2RstStream(x, f.id), f.id) \/ e \in FlushPending(y)
    BY <1>2, <2>1, <2>2, <2>3, <2>4 DEF UpdateClosed
  <2>7. H2ConnOK(NoteReset(H2RstStream(x, f.id), f.id))
    BY <2>5, RstOK, SmallStepsOK
  <2> QED BY <2>5, <2>6, <2>7, FlushPendingOK
<1> QED BY <1>1, <1>2

\* handle_window_update.
LEMMA WindowUpdateOK ==
  ASSUME NEW c, H2ConnOK(c), NEW f, f.inc \in Nat, NEW e \in HandleWindowUpdate(c, f)
  PROVE  H2ConnOK(e)
<1>1. CASE f.inc = 0
  <2>1. e = H2Fatal(c)
    BY <1>1 DEF HandleWindowUpdate
  <2> QED BY <2>1, SmallStepsOK
<1>2. CASE f.inc # 0 /\ f.id = 0 /\ c.conn_send_window + f.inc > H2_MAX_WINDOW
  <2>1. e = H2Fatal(GoAwayAnd(c, "FLOW_CONTROL"))
    BY <1>2 DEF HandleWindowUpdate
  <2> QED BY <2>1, SmallStepsOK
<1>3. CASE f.inc # 0 /\ f.id = 0 /\ ~(c.conn_send_window + f.inc > H2_MAX_WINDOW)
  <2>1. PICK w, g : w = c.conn_send_window + f.inc /\ g = c.conn_granted + f.inc
    OBVIOUS
  <2>2. PICK n : n = [c EXCEPT !.conn_send_window = w, !.conn_granted = g]
    OBVIOUS
  <2>3. e \in FlushPending(n)
    BY <1>3, <2>1, <2>2 DEF HandleWindowUpdate
  <2>4. IsConn(n) /\ n.conn_send_window = w /\ n.conn_granted = g
    BY <2>2 DEF H2ConnOK, IsConn
  <2>5. /\ n.streams = c.streams /\ n.last_stream_id = c.last_stream_id
        /\ n.peer_initial_window = c.peer_initial_window /\ n.overrun = c.overrun
        /\ n.conn_recv_window = c.conn_recv_window /\ n.conn_sent = c.conn_sent
        /\ n.dispatched = c.dispatched /\ n.answered = c.answered /\ n.given_up = c.given_up
    BY <2>2 DEF H2ConnOK, IsConn
  <2>6. FlowOK(c.overrun, c.conn_recv_window, c.conn_send_window, c.conn_granted, c.conn_sent)
    BY DEF H2ConnOK
  <2>7. FlowOK(n.overrun, n.conn_recv_window, n.conn_send_window, n.conn_granted, n.conn_sent)
    BY <2>1, <2>4, <2>5, <2>6 DEF FlowOK
  <2>8. H2ConnOK(n)
    BY <2>4, <2>5, <2>7 DEF H2ConnOK
  <2> QED BY <2>3, <2>8, FlushPendingOK
<1>4. CASE f.inc # 0 /\ f.id # 0 /\ f.id \notin DOMAIN c.streams
  <2>1. e \in UpdateClosed(c, f)
    BY <1>4 DEF HandleWindowUpdate, H2Open
  <2> QED BY <2>1, UpdateClosedOK
<1>5. CASE /\ f.inc # 0 /\ f.id # 0 /\ f.id \in DOMAIN c.streams
           /\ c.streams[f.id].send_window + f.inc > H2_MAX_WINDOW
  <2>1. e = NoteReset(Reset(c, f.id), f.id)
    BY <1>5 DEF HandleWindowUpdate, H2Open
  <2> QED BY <2>1, RstOK, SmallStepsOK
<1>6. CASE /\ f.inc # 0 /\ f.id # 0 /\ f.id \in DOMAIN c.streams
           /\ ~(c.streams[f.id].send_window + f.inc > H2_MAX_WINDOW)
  <2>1. PICK t, r : t = [c.streams EXCEPT ![f.id] = r] /\ r = [c.streams[f.id] EXCEPT !.send_window = @ + f.inc]
    OBVIOUS
  <2>2. PICK n : n = [c EXCEPT !.streams = t]
    OBVIOUS
  <2>3. e \in FlushPending(n)
    <3>1. n = [c EXCEPT !.streams[f.id].send_window = @ + f.inc]
      BY <2>1, <2>2
    <3> QED BY <1>6, <3>1 DEF HandleWindowUpdate, H2Open
  <2>4. IsConn(n) /\ n.streams = t
    BY <2>2 DEF H2ConnOK, IsConn
  <2>5. /\ n.last_stream_id = c.last_stream_id /\ n.overrun = c.overrun
        /\ n.peer_initial_window = c.peer_initial_window
        /\ n.conn_recv_window = c.conn_recv_window /\ n.conn_send_window = c.conn_send_window
        /\ n.conn_granted = c.conn_granted /\ n.conn_sent = c.conn_sent
        /\ n.dispatched = c.dispatched /\ n.answered = c.answered /\ n.given_up = c.given_up
    BY <2>2 DEF H2ConnOK, IsConn
  <2>6. DOMAIN t = DOMAIN c.streams /\ t[f.id] = r /\ \A i \in DOMAIN t : i # f.id => t[i] = c.streams[i]
    BY <1>6, <2>1
  <2>7. \A i \in DOMAIN c.streams : H2StreamOK(c.streams[i])
    BY DEF H2ConnOK, StreamsOK
  <2>8. H2StreamOK(r) /\ r.pending = c.streams[f.id].pending /\ r.resp_body = c.streams[f.id].resp_body
    <3>1. r = Resized(c.streams[f.id], f.inc)
      BY <2>1 DEF Resized
    <3>2. f.inc \in Int
      OBVIOUS
    <3> QED BY <1>6, <2>7, <3>1, <3>2, ResizedOK
  <2>9. \A i \in DOMAIN c.streams :
           H2StreamOK(t[i]) /\ t[i].pending = c.streams[i].pending /\ t[i].resp_body = c.streams[i].resp_body
    BY <2>6, <2>7, <2>8
  <2>10. n.peer_initial_window \in Int
    BY <2>5 DEF H2ConnOK
  <2>11. H2ConnOK(n)
    BY <2>4, <2>5, <2>6, <2>9, <2>10, WindowsMove
  <2> QED BY <2>3, <2>11, FlushPendingOK
<1> QED BY <1>1, <1>2, <1>3, <1>4, <1>5, <1>6

\* A header block that is complete.
LEMMA HeadersDoneOK ==
  ASSUME NEW c, H2ConnOK(c), NEW id \in DOMAIN c.streams, NEW req
  PROVE  H2ConnOK(H2HeadersDone(c, id, req))
<1>1. PICK s : s = c.streams[id]
  OBVIOUS
<1>2. PICK m : m = IF s.req = "none" THEN (IF req = "trailers" THEN "bad_post" ELSE req)
                   ELSE IF req = "trailers" THEN s.req ELSE "bad_post"
  OBVIOUS
<1>3. PICK r : r = [s EXCEPT !.req = m, !.headers_done = TRUE]
  OBVIOUS
<1>4. H2HeadersDone(c, id, req) = With(c, id, r)
  BY <1>1, <1>2, <1>3 DEF H2HeadersDone
<1>5. H2StreamOK(s)
  BY <1>1 DEF H2ConnOK, StreamsOK
<1>6. H2StreamOK(r) /\ r.pending = s.pending /\ r.resp_body = s.resp_body
  BY <1>3, <1>5 DEF H2StreamOK
<1> QED BY <1>1, <1>4, <1>6, PutBackOK

\* HEADERS that are refused.
LEMMA RefuseHeadersOK ==
  ASSUME NEW c, H2ConnOK(c), NEW f, f.id \in Nat, NEW n \in RefuseHeaders(c, f)
  PROVE  H2ConnOK(n)
<1>1. PICK x : x = H2RstStream(c, f.id)
  OBVIOUS
<1>2. H2ConnOK(x)
  BY <1>1, RstOK
<1>3. PICK m \in Nat : m = Max({x.last_stream_id, f.id}) /\ x.last_stream_id <= m
  <2>1. x.last_stream_id \in Nat
    BY <1>2 DEF H2ConnOK
  <2> QED BY <2>1, MaxOfTwo
<1>4. PICK d : d = [x EXCEPT !.last_stream_id = m]
  OBVIOUS
<1>5. H2ConnOK(d)
  <2>1. GrownFrom(x, d)
    BY <1>2, <1>3, <1>4 DEF GrownFrom, H2ConnOK, IsConn
  <2> QED BY <1>2, <2>1, GrownOK
<1>6. PICK y : y = NoteReset(d, f.id)
  OBVIOUS
<1>7. PICK k : k = y.refused_streak + 1
  OBVIOUS
<1>8. PICK e : e = [y EXCEPT !.refused_streak = k]
  OBVIOUS
<1>9. H2ConnOK(e)
  <2>1. H2ConnOK(y)
    BY <1>5, <1>6, SmallStepsOK
  <2>2. Alike(y, e)
    BY <1>8, <2>1 DEF H2ConnOK, IsConn, Alike, SameButStreams
  <2> QED BY <2>1, <2>2, AlikeOK
<1>10. n \in {H2Fatal(c), GoAwayAnd(c, "PROTOCOL_ERROR"), d, H2Fatal(GoAwayAnd(e, "ENHANCE_YOUR_CALM")), e}
  BY <1>1, <1>3, <1>4, <1>6, <1>7, <1>8 DEF RefuseHeaders
<1> QED BY <1>5, <1>9, <1>10, SmallStepsOK

\* Bad padding or priority fields.
LEMMA BadHeadersOK ==
  ASSUME NEW c, H2ConnOK(c), NEW f, f.flaw \in {"padding", "priority", "self"}, NEW n \in BadHeaders(c, f)
  PROVE  H2ConnOK(n)
<1>1. n \in {H2Fatal(c), H2Fatal(H2RstStream(c, f.id)), H2RstStream(c, f.id)}
  BY DEF BadHeaders
<1> QED BY <1>1, RstOK, SmallStepsOK

\* The stream HEADERS are for, opened if it is new.
LEMMA H2EntryOK ==
  ASSUME NEW c, H2ConnOK(c), NEW id \in H2Ids, id <= c.last_stream_id,
         id \notin DOMAIN c.streams => c.dispatched[id] = 0 /\ c.answered[id] = 0,
         NEW s, s = IF id \in H2Open(c) THEN c.streams[id] ELSE NewH2Stream(c.peer_initial_window),
         NEW r, r = s \/ r = [s EXCEPT !.state = "HalfClosedRemote"]
  PROVE  H2ConnOK(With(c, id, r)) /\ id \in DOMAIN With(c, id, r).streams
<1>1. H2StreamOK(s)
  <2>1. CASE id \in DOMAIN c.streams
    BY <2>1 DEF H2ConnOK, StreamsOK, H2Open
  <2>2. CASE id \notin DOMAIN c.streams
    <3>1. PICK w \in Int : w = c.peer_initial_window
      BY DEF H2ConnOK
    <3>2. s = NewH2Stream(w)
      BY <2>2, <3>1 DEF H2Open
    <3>3. H2_WINDOW \in MAX_FRAME_SIZE..H2_WINDOW
      BY H2ServerAssumption
    <3>4. s.send_window = w /\ s.recv_window = H2_WINDOW /\ s.resp_body = NoBody /\ s.resp_sent = 0
      BY <3>2 DEF NewH2Stream
    <3>5. s = [state |-> s.state, req |-> s.req, body |-> s.body, headers_done |-> s.headers_done,
               send_window |-> s.send_window, recv_window |-> s.recv_window,
               resp_body |-> s.resp_body, resp_sent |-> s.resp_sent, pending |-> s.pending]
      BY <3>2 DEF NewH2Stream
    <3>6. NoBody \in Int
      BY DEF NoBody
    <3> QED BY <3>1, <3>3, <3>4, <3>5, <3>6 DEF H2StreamOK
  <2> QED BY <2>1, <2>2
<1>2. H2StreamOK(r) /\ r.pending = s.pending /\ r.resp_body = s.resp_body
  BY <1>1 DEF H2StreamOK
<1>3. Bound(r, c.dispatched[id], c.answered[id])
  <2>1. CASE id \in DOMAIN c.streams
    <3>1. Bound(s, c.dispatched[id], c.answered[id])
      BY <2>1 DEF H2ConnOK, Accounts, IdOK, H2Open
    <3> QED BY <1>2, <3>1 DEF Bound
  <2>2. CASE id \notin DOMAIN c.streams
    <3>1. s = NewH2Stream(c.peer_initial_window)
      BY <2>2 DEF H2Open
    <3>2. s.pending = "no" /\ s.resp_body = NoBody
      BY <3>1 DEF NewH2Stream
    <3> QED BY <1>2, <2>2, <3>2 DEF Bound
  <2> QED BY <2>1, <2>2
<1>4. Accounts(c.streams, c.last_stream_id, c.dispatched, c.answered, c.given_up)
      /\ DOMAIN c.dispatched = H2Ids /\ DOMAIN c.answered = H2Ids
  BY DEF H2ConnOK, Accounts
<1>5. Accounts(H2Put(c.streams, id, r), c.last_stream_id, c.dispatched, c.answered, c.given_up)
  BY <1>3, <1>4, AccountsPut
<1>6. StreamsOK(H2Put(c.streams, id, r))
  BY <1>2, StreamsPut DEF H2ConnOK
<1>7. PICK n : n = With(c, id, r) /\ SameButStreams(c, n) /\ n.streams = H2Put(c.streams, id, r)
               /\ n.given_up = c.given_up /\ n.phase = c.phase
  BY WithIs DEF H2ConnOK
<1>8. H2ConnOK(n)
  BY <1>5, <1>6, <1>7, StreamsChange
<1>9. id \in DOMAIN n.streams
  <2>1. PICK p, t : p = H2Put(t, id, r) /\ t = c.streams
    OBVIOUS
  <2>2. DOMAIN p = DOMAIN t \cup {id}
    BY <2>1 DEF H2Put
  <2> QED BY <1>7, <2>1, <2>2
<1> QED BY <1>7, <1>8, <1>9

\* handle_headers, from the stream's entry on.
LEMMA OpenHeadersOK ==
  ASSUME NEW c, H2ConnOK(c), NEW f, f.id \in H2Ids, f.id <= c.last_stream_id,
         f.id \notin DOMAIN c.streams => c.dispatched[f.id] = 0 /\ c.answered[f.id] = 0,
         NEW e \in OpenHeaders(c, f)
  PROVE  H2ConnOK(e)
<1>1. PICK id \in H2Ids : id = f.id
  OBVIOUS
<1>2. PICK s : s = IF id \in H2Open(c) THEN c.streams[id] ELSE NewH2Stream(c.peer_initial_window)
  OBVIOUS
<1>3. PICK r : r = IF f.end_stream THEN [s EXCEPT !.state = "HalfClosedRemote"] ELSE s
  OBVIOUS
<1>4. PICK d : d = With(c, id, r)
  OBVIOUS
<1>5. H2ConnOK(d) /\ id \in DOMAIN d.streams
  <2>1. r = s \/ r = [s EXCEPT !.state = "HalfClosedRemote"]
    BY <1>3
  <2> QED BY <1>1, <1>2, <1>4, <2>1, H2EntryOK
<1>6. PICK x : x = [d EXCEPT !.block = 1, !.continuation = f.id, !.block_req = f.req]
  OBVIOUS
<1>7. H2ConnOK(x)
  <2>1. Alike(d, x)
    BY <1>5, <1>6 DEF H2ConnOK, IsConn, Alike, SameButStreams
  <2> QED BY <1>5, <2>1, AlikeOK
<1>8. H2ConnOK(H2HeadersDone(d, id, f.req))
  BY <1>5, HeadersDoneOK
<1>9. H2ConnOK(H2Fatal(GoAwayAnd(d, "COMPRESSION"))) /\ H2ConnOK(Reset(d, id))
  BY <1>5, RstOK, SmallStepsOK
<1>10. \/ e = H2Fatal(GoAwayAnd(d, "COMPRESSION")) \/ e = Reset(d, id)
       \/ e \in MaybeDispatch(H2HeadersDone(d, id, f.req), id) \/ e \in MaybeDispatch(x, id)
  BY <1>1, <1>2, <1>3, <1>4, <1>6 DEF OpenHeaders
<1> QED BY <1>7, <1>8, <1>9, <1>10, MaybeDispatchOK

\* handle_headers.
LEMMA HeadersOK ==
  ASSUME NEW c, H2ConnOK(c), NEW f, f.id \in H2Ids, NEW e \in HandleHeaders(c, f)
  PROVE  H2ConnOK(e)
<1>0. f.id \in Nat /\ c.last_stream_id \in Nat
  BY H2ServerAssumption DEF H2ConnOK
<1>1. PICK m \in Nat : Max({c.last_stream_id, f.id}) = m /\ c.last_stream_id <= m /\ f.id <= m
  BY <1>0, MaxOfTwo
<1>2. PICK d : d = [c EXCEPT !.refused_streak = 0, !.last_stream_id = m]
  OBVIOUS
<1>3. GrownFrom(c, d) /\ d.last_stream_id = m
  BY <1>1, <1>2 DEF GrownFrom, H2ConnOK, IsConn
<1>4. H2ConnOK(d)
  BY <1>3, GrownOK
<1>5. CASE RefusesHeaders(c, f)
  <2>1. e \in RefuseHeaders(c, f)
    BY <1>5 DEF HandleHeaders
  <2> QED BY <1>0, <2>1, RefuseHeadersOK
<1>6. CASE ~RefusesHeaders(c, f) /\ f.flaw \in {"padding", "priority", "self"}
  <2>1. e \in BadHeaders(d, f)
    BY <1>1, <1>2, <1>6 DEF HandleHeaders
  <2> QED BY <1>4, <1>6, <2>1, BadHeadersOK
<1>7. CASE ~RefusesHeaders(c, f) /\ f.flaw \notin {"padding", "priority", "self"}
  <2>1. e \in OpenHeaders(d, f)
    BY <1>1, <1>2, <1>7 DEF HandleHeaders
  <2>2. ASSUME f.id \notin DOMAIN d.streams PROVE d.dispatched[f.id] = 0 /\ d.answered[f.id] = 0
    <3>1. f.id \notin DOMAIN c.streams
      BY <1>3, <2>2 DEF GrownFrom
    <3>2. ~(f.id <= c.last_stream_id)
      BY <1>7, <3>1 DEF RefusesHeaders, H2Open
    <3>3. Gone(f.id, c.last_stream_id, c.dispatched[f.id], c.answered[f.id], c.given_up)
      BY <3>1 DEF H2ConnOK, Accounts, IdOK
    <3>4. c.dispatched[f.id] = 0 /\ c.answered[f.id] = 0
      BY <3>2, <3>3 DEF Gone
    <3> QED BY <1>3, <3>4 DEF GrownFrom
  <2> QED BY <1>1, <1>3, <1>4, <2>1, <2>2, OpenHeadersOK
<1> QED BY <1>5, <1>6, <1>7

\* handle_continuation.
LEMMA ContinuationOK ==
  ASSUME NEW c, H2ConnOK(c), NEW f, NEW e \in HandleContinuation(c, f)
  PROVE  H2ConnOK(e)
<1>1. PICK k : k = c.block + 1
  OBVIOUS
<1>2. PICK x : x = [c EXCEPT !.block = k]
  OBVIOUS
<1>3. PICK d : d = [c EXCEPT !.block = 0, !.continuation = 0, !.block_req = "none"]
  OBVIOUS
<1>4. Alike(c, x) /\ Alike(c, d)
  <2>1. Alike(c, x)
    BY <1>2 DEF H2ConnOK, IsConn, Alike, SameButStreams
  <2>2. Alike(c, d)
    BY <1>3 DEF H2ConnOK, IsConn, Alike, SameButStreams
  <2> QED BY <2>1, <2>2
<1>5. H2ConnOK(x) /\ H2ConnOK(d) /\ d.streams = c.streams
  BY <1>4, AlikeOK DEF Alike
<1>6. \/ e = H2Fatal(GoAwayAnd(c, "ENHANCE_YOUR_CALM")) \/ e = x
      \/ e = H2Fatal(GoAwayAnd(d, "COMPRESSION")) \/ e = d
      \/ f.id \in DOMAIN c.streams /\ e \in MaybeDispatch(H2HeadersDone(d, f.id, c.block_req), f.id)
  BY <1>1, <1>2, <1>3 DEF HandleContinuation, H2Open
<1>7. CASE f.id \in DOMAIN c.streams /\ e \in MaybeDispatch(H2HeadersDone(d, f.id, c.block_req), f.id)
  <2>1. H2ConnOK(H2HeadersDone(d, f.id, c.block_req))
    BY <1>5, <1>7, HeadersDoneOK
  <2> QED BY <1>7, <2>1, MaybeDispatchOK
<1> QED BY <1>5, <1>6, <1>7, SmallStepsOK

\* A window that is announced again in time takes another frame.
LEMMA ReplenishedOK ==
  ASSUME NEW w \in MAX_FRAME_SIZE..H2_WINDOW, NEW n \in 0..MAX_FRAME_SIZE
  PROVE  ~(w < n) /\ Replenished(w - n) \in MAX_FRAME_SIZE..H2_WINDOW
<1>1. MAX_FRAME_SIZE \in Nat /\ H2_WINDOW \in Nat /\ 2 * MAX_FRAME_SIZE <= H2_WINDOW
  BY H2ServerAssumption
<1>2. H2_WINDOW \div 2 \in Nat /\ MAX_FRAME_SIZE <= H2_WINDOW \div 2
  BY <1>1
<1>3. ~(w < n)
  BY <1>1
<1>4. CASE w - n < H2_WINDOW \div 2
  BY <1>1, <1>4 DEF Replenished
<1>5. CASE ~(w - n < H2_WINDOW \div 2)
  BY <1>1, <1>2, <1>5 DEF Replenished
<1> QED BY <1>3, <1>4, <1>5

\* The stream's part of handle_data.
LEMMA StreamDataOK ==
  ASSUME NEW c, H2ConnOK(c), NEW f, f.id \in DOMAIN c.streams, f.charged \in 0..MAX_FRAME_SIZE,
         NEW e \in StreamData(c, f)
  PROVE  H2ConnOK(e)
<1>1. PICK s, id : s = c.streams[id] /\ id = f.id
  OBVIOUS
<1>2. H2StreamOK(s)
  BY <1>1 DEF H2ConnOK, StreamsOK
<1>3. ~(s.recv_window < f.charged) /\ Replenished(s.recv_window - f.charged) \in MAX_FRAME_SIZE..H2_WINDOW
  BY <1>2, ReplenishedOK DEF H2StreamOK
<1>4. PICK w, b, st : w = Replenished(s.recv_window - f.charged) /\ b = s.body + f.len
                      /\ st = IF f.end_stream THEN "HalfClosedRemote" ELSE s.state
  OBVIOUS
<1>5. PICK t : t = [s EXCEPT !.recv_window = w, !.body = b, !.state = st]
  OBVIOUS
<1>6. t.pending = s.pending /\ t.resp_body = s.resp_body /\ t.recv_window = w
      /\ t.send_window = s.send_window /\ t.resp_sent = s.resp_sent
  BY <1>2, <1>5 DEF H2StreamOK
<1>7. H2StreamOK(t)
  BY <1>2, <1>3, <1>4, <1>5, <1>6 DEF H2StreamOK
<1>8. H2ConnOK(With(c, id, t)) /\ H2ConnOK(Reset(c, id))
  BY <1>1, <1>6, <1>7, PutBackOK, RstOK
<1>9. e = Reset(c, id) \/ e \in MaybeDispatch(With(c, id, t), id) \/ e = With(c, id, t)
  BY <1>1, <1>3, <1>4, <1>5 DEF StreamData
<1> QED BY <1>8, <1>9, MaybeDispatchOK

\* handle_data.
LEMMA DataOK ==
  ASSUME NEW c, H2ConnOK(c), NEW f, f.charged \in 0..MAX_FRAME_SIZE, NEW e \in HandleData(c, f)
  PROVE  H2ConnOK(e)
<1>1. FlowOK(c.overrun, c.conn_recv_window, c.conn_send_window, c.conn_granted, c.conn_sent)
  BY DEF H2ConnOK
<1>2. ~(c.conn_recv_window < f.charged)
      /\ Replenished(c.conn_recv_window - f.charged) \in MAX_FRAME_SIZE..H2_WINDOW
  BY <1>1, ReplenishedOK DEF FlowOK
<1>3. PICK w : w = Replenished(c.conn_recv_window - f.charged)
  OBVIOUS
<1>4. PICK d : d = [c EXCEPT !.conn_recv_window = w]
  OBVIOUS
<1>5. IsConn(d) /\ d.conn_recv_window = w
  BY <1>4 DEF H2ConnOK, IsConn
<1>6. /\ d.streams = c.streams /\ d.last_stream_id = c.last_stream_id
      /\ d.peer_initial_window = c.peer_initial_window /\ d.overrun = c.overrun
      /\ d.conn_send_window = c.conn_send_window /\ d.conn_granted = c.conn_granted
      /\ d.conn_sent = c.conn_sent
      /\ d.dispatched = c.dispatched /\ d.answered = c.answered /\ d.given_up = c.given_up
  BY <1>4 DEF H2ConnOK, IsConn
<1>7. FlowOK(d.overrun, d.conn_recv_window, d.conn_send_window, d.conn_granted, d.conn_sent)
  BY <1>1, <1>2, <1>3, <1>5, <1>6 DEF FlowOK
<1>8. H2ConnOK(d)
  BY <1>5, <1>6, <1>7 DEF H2ConnOK
<1>9. e = H2Fatal(c) \/ e = d \/ (f.id \in DOMAIN d.streams /\ e \in StreamData(d, f))
  BY <1>2, <1>3, <1>4, <1>6 DEF HandleData, H2Open
<1> QED BY <1>8, <1>9, SmallStepsOK, StreamDataOK

\* handle_rst_stream.
LEMMA HandleRstOK ==
  ASSUME NEW c, H2ConnOK(c), NEW f, f.id \in Nat, NEW e \in HandleRst(c, f)
  PROVE  H2ConnOK(e)
<1>1. PICK x : x = H2Without(c, f.id) /\ SameButStreams(c, x) /\ x.streams = Drop(c.streams, f.id)
               /\ x.given_up = c.given_up
  BY WithoutIs DEF H2ConnOK
<1>2. c.last_stream_id \in Nat /\ x.last_stream_id = c.last_stream_id /\ IsConn(x)
  BY <1>1 DEF H2ConnOK, SameButStreams
<1>3. PICK m \in Nat : Max({x.last_stream_id, f.id}) = m /\ c.last_stream_id <= m
  BY <1>2, MaxOfTwo
<1>4. PICK v : v = x.given_up \cup {f.id}
  OBVIOUS
<1>5. PICK n : n = [x EXCEPT !.last_stream_id = m, !.given_up = v]
  OBVIOUS
<1>6. e = NoteReset(n, f.id)
  BY <1>1, <1>3, <1>4, <1>5 DEF HandleRst
<1>7. IsConn(n) /\ n.last_stream_id = m /\ n.given_up = v /\ n.streams = x.streams
  BY <1>2, <1>5 DEF IsConn
<1>8. /\ n.peer_initial_window = x.peer_initial_window /\ n.overrun = x.overrun
      /\ n.conn_recv_window = x.conn_recv_window /\ n.conn_send_window = x.conn_send_window
      /\ n.conn_granted = x.conn_granted /\ n.conn_sent = x.conn_sent
      /\ n.dispatched = x.dispatched /\ n.answered = x.answered
  BY <1>2, <1>5 DEF IsConn
<1>9. /\ n.peer_initial_window = c.peer_initial_window /\ n.overrun = c.overrun
      /\ n.conn_recv_window = c.conn_recv_window /\ n.conn_send_window = c.conn_send_window
      /\ n.conn_granted = c.conn_granted /\ n.conn_sent = c.conn_sent
      /\ n.dispatched = c.dispatched /\ n.answered = c.answered
  BY <1>1, <1>8 DEF SameButStreams
<1>10. Accounts(Drop(c.streams, f.id), c.last_stream_id, c.dispatched, c.answered, v)
  <2>1. c.given_up \subseteq v /\ f.id \in v
    BY <1>1, <1>4
  <2> QED BY <2>1, AccountsDrop DEF H2ConnOK
<1>11. Accounts(n.streams, n.last_stream_id, n.dispatched, n.answered, n.given_up)
  <2>1. v \subseteq v
    OBVIOUS
  <2>2. Accounts(Drop(c.streams, f.id), m, c.dispatched, c.answered, v)
    BY <1>2, <1>3, <1>10, <2>1, AccountsGrow
  <2> QED BY <1>1, <1>7, <1>9, <2>2
<1>12. StreamsOK(n.streams)
  BY <1>1, <1>7, StreamsDrop DEF H2ConnOK
<1>13. H2ConnOK(n)
  BY <1>7, <1>9, <1>11, <1>12 DEF H2ConnOK
<1> QED BY <1>6, <1>13, SmallStepsOK

\* What the handlers take for granted of a frame of its type.
FrameFits(f) ==
    /\ f.type \in {"DATA", "HEADERS", "PRIORITY", "RST_STREAM", "SETTINGS", "PUSH_PROMISE", "PING",
                   "GOAWAY", "WINDOW_UPDATE", "CONTINUATION"}
    /\ f.type = "DATA" /\ f.flaw # "oversize" => f.charged \in 0..MAX_FRAME_SIZE
    /\ f.type = "HEADERS" => f.id \in H2Ids
    /\ f.type = "RST_STREAM" => f.id \in Nat
    /\ f.type = "WINDOW_UPDATE" => f.inc \in Nat
    /\ f.type = "SETTINGS" => f.window \in Int

\* The peer's frames are such.
LEMMA FramesFit == \A f \in H2Frames : FrameFits(f)
<1>1. ASSUME NEW f \in HeadersFrames PROVE FrameFits(f)
  <2>1. f.type = "HEADERS" /\ f.id \in H2Ids
    BY DEF HeadersFrames, HeadersFrame
  <2> QED BY <2>1 DEF FrameFits
<1>2. ASSUME NEW f \in DataFrames PROVE FrameFits(f)
  <2>1. PICK len \in {0, MAX_FRAME_SIZE} : f.type = "DATA" /\ f.charged = Min({len + 1, MAX_FRAME_SIZE})
    BY DEF DataFrames, DataFrame
  <2>2. MAX_FRAME_SIZE \in Nat /\ len \in Nat
    BY <2>1, H2ServerAssumption
  <2>3. f.charged \in 0..MAX_FRAME_SIZE
    BY <2>1, <2>2, MinOfTwo
  <2> QED BY <2>1, <2>3 DEF FrameFits
<1>3. ASSUME NEW f \in StreamFrames PROVE FrameFits(f)
  <2>1. (f.type = "RST_STREAM" /\ f.id \in H2Ids) \/ f.type \in {"PRIORITY", "CONTINUATION"}
    BY DEF StreamFrames, PlainFrame, ContinuationFrame
  <2> QED BY <2>1, H2ServerAssumption DEF FrameFits
<1>4. ASSUME NEW f \in UpdateFrames PROVE FrameFits(f)
  <2>1. f.type = "WINDOW_UPDATE" /\ f.inc \in H2Increments
    BY DEF UpdateFrames, UpdateFrame
  <2>2. H2Increments \in SUBSET (0..H2_MAX_WINDOW) /\ H2_MAX_WINDOW \in Nat
    BY H2ServerAssumption
  <2>3. PICK n \in H2Increments : n = f.inc
    BY <2>1
  <2>4. n \in 0..H2_MAX_WINDOW
    BY <2>2
  <2>5. f.inc \in Nat
    BY <2>2, <2>3, <2>4
  <2> QED BY <2>1, <2>5 DEF FrameFits
<1>5. ASSUME NEW f \in SettingsFrames PROVE FrameFits(f)
  <2>1. f.type = "SETTINGS" /\ f.window \in H2Windows \cup {0}
    BY DEF SettingsFrames, SettingsFrame
  <2>2. H2Windows \in SUBSET (0..H2_MAX_WINDOW) /\ H2_MAX_WINDOW \in Nat
    BY H2ServerAssumption
  <2>3. PICK n \in H2Windows \cup {0} : n = f.window
    BY <2>1
  <2>4. n \in 0..H2_MAX_WINDOW
    BY <2>2
  <2>5. f.window \in Int
    BY <2>2, <2>3, <2>4
  <2> QED BY <2>1, <2>5 DEF FrameFits
<1>6. ASSUME NEW f \in ControlFrames PROVE FrameFits(f)
  <2>1. f.type \in {"PING", "GOAWAY", "PUSH_PROMISE"} \/ (f.type = "DATA" /\ f.flaw = "oversize")
    BY DEF ControlFrames, PlainFrame
  <2> QED BY <2>1 DEF FrameFits
<1> QED BY <1>1, <1>2, <1>3, <1>4, <1>5, <1>6 DEF H2Frames

\* Whatever frame is processed, the connection stays sound.
LEMMA HandleOK ==
  ASSUME NEW c, H2ConnOK(c), NEW f, FrameFits(f), f.flaw # "oversize", NEW e \in Handle(c, f)
  PROVE  H2ConnOK(e)
<1>1. CASE f.type = "DATA"
  <2>1. e \in HandleData(c, f)
    BY <1>1 DEF Handle
  <2> QED BY <1>1, <2>1, DataOK DEF FrameFits
<1>2. CASE f.type = "HEADERS"
  <2>1. e \in HandleHeaders(c, f)
    BY <1>2 DEF Handle
  <2> QED BY <1>2, <2>1, HeadersOK DEF FrameFits
<1>3. CASE f.type = "PRIORITY"
  <2>1. e = NoteReset(Reset(c, f.id), f.id) \/ e = c
    BY <1>3 DEF Handle, HandlePriority
  <2> QED BY <2>1, RstOK, SmallStepsOK
<1>4. CASE f.type = "RST_STREAM"
  <2>1. e \in HandleRst(c, f)
    BY <1>4 DEF Handle
  <2> QED BY <1>4, <2>1, HandleRstOK DEF FrameFits
<1>5. CASE f.type = "SETTINGS"
  <2>1. e \in HandleSettings(c, f)
    BY <1>5 DEF Handle
  <2> QED BY <1>5, <2>1, SettingsOK DEF FrameFits
<1>6. CASE f.type = "PUSH_PROMISE"
  <2>1. e = H2Fatal(c)
    BY <1>6 DEF Handle
  <2> QED BY <2>1, SmallStepsOK
<1>7. CASE f.type = "PING"
  BY <1>7 DEF Handle
<1>8. CASE f.type = "GOAWAY"
  <2>1. e = [c EXCEPT !.peer_goaway = TRUE]
    BY <1>8 DEF Handle
  <2>2. Alike(c, e)
    BY <2>1 DEF H2ConnOK, IsConn, Alike, SameButStreams
  <2> QED BY <2>2, AlikeOK
<1>9. CASE f.type = "WINDOW_UPDATE"
  <2>1. e \in HandleWindowUpdate(c, f)
    BY <1>9 DEF Handle
  <2> QED BY <1>9, <2>1, WindowUpdateOK DEF FrameFits
<1>10. CASE f.type = "CONTINUATION"
  <2>1. e \in HandleContinuation(c, f)
    BY <1>10 DEF Handle
  <2> QED BY <2>1, ContinuationOK
<1> QED BY <1>1, <1>2, <1>3, <1>4, <1>5, <1>6, <1>7, <1>8, <1>9, <1>10 DEF FrameFits

\* process_frame keeps the invariant for every frame.
LEMMA ProcessFrameOK ==
  ASSUME NEW c, H2ConnOK(c), NEW f, FrameFits(f), NEW e \in ProcessFrame(c, f)
  PROVE  H2ConnOK(e)
<1>1. \/ e = H2Fatal(GoAwayAnd(c, "FRAME_SIZE"))
      \/ e = H2Fatal(c)
      \/ \E code : e = GoAwayAnd(c, code)
      \/ e = NoteReset(Reset(c, f.id), f.id)
      \/ e = Reset(c, f.id)
      \/ f.flaw # "oversize" /\ e \in Handle(c, f)
  BY DEF ProcessFrame
<1>2. H2ConnOK(H2Fatal(GoAwayAnd(c, "FRAME_SIZE"))) /\ H2ConnOK(H2Fatal(c)) /\ \A code : H2ConnOK(GoAwayAnd(c, code))
  BY SmallStepsOK
<1>3. H2ConnOK(NoteReset(Reset(c, f.id), f.id)) /\ H2ConnOK(Reset(c, f.id))
  BY RstOK, SmallStepsOK
<1> QED BY <1>1, <1>2, <1>3, HandleOK

\* Between drives nothing waits that could be sent.
NothingWaits(c) == \A j \in DOMAIN c.streams : ~Stalled(c.streams[j], c.conn_send_window)

H2Inv == H2ConnOK(h2) /\ (h2pc = "idle" /\ h2.phase # "Done" => NothingWaits(h2))

\* The invariant has what the contract says.
LEMMA H2InvImplies == H2Inv => H2Contract
<1> SUFFICES ASSUME H2Inv PROVE H2Contract
  OBVIOUS
<1>1. PICK c : c = h2
  OBVIOUS
<1>2. H2ConnOK(c)
  BY <1>1 DEF H2Inv
<1>3. H2FlowControl
  <2>1. FlowOK(c.overrun, c.conn_recv_window, c.conn_send_window, c.conn_granted, c.conn_sent)
    BY <1>2 DEF H2ConnOK
  <2>2. ~c.overrun /\ c.conn_recv_window \in MAX_FRAME_SIZE..H2_WINDOW
        /\ c.conn_sent <= c.conn_granted /\ c.conn_send_window = c.conn_granted - c.conn_sent
    BY <2>1 DEF FlowOK
  <2>3. \A i \in DOMAIN c.streams : c.streams[i].recv_window \in MAX_FRAME_SIZE..H2_WINDOW
    BY <1>2 DEF H2ConnOK, StreamsOK, H2StreamOK
  <2> QED BY <1>1, <2>2, <2>3 DEF H2FlowControl, H2Open
<1>4. H2NothingStalls
  <2>1. ASSUME h2pc = "idle", c.phase # "Done", NEW i \in DOMAIN c.streams,
               c.streams[i].resp_body > c.streams[i].resp_sent
        PROVE  c.conn_send_window <= 0 \/ c.streams[i].send_window <= 0
    <3>1. ~Stalled(c.streams[i], c.conn_send_window)
      BY <1>1, <2>1 DEF H2Inv, NothingWaits
    <3>2. c.conn_send_window \in Int
      BY <1>2 DEF H2ConnOK, FlowOK
    <3>3. c.streams[i].send_window \in Int
      BY <1>2 DEF H2ConnOK, StreamsOK, H2StreamOK
    <3> QED BY <2>1, <3>1, <3>2, <3>3 DEF Stalled
  <2> QED BY <1>1, <2>1 DEF H2NothingStalls, H2Open
<1>5. H2AnswersAreKept
  <2>1. ASSUME NEW i \in H2Ids
        PROVE  /\ c.dispatched[i] <= 1 /\ c.answered[i] <= c.dispatched[i]
               /\ c.dispatched[i] = 1 /\ c.answered[i] = 0 /\ i \notin c.given_up
                    => i \in DOMAIN c.streams /\ c.streams[i].pending # "no"
    <3>1. IdOK(i, c.streams, c.last_stream_id, c.dispatched, c.answered, c.given_up)
      BY <1>2 DEF H2ConnOK, Accounts
    <3>2. CASE i \in DOMAIN c.streams
      <4>1. Bound(c.streams[i], c.dispatched[i], c.answered[i])
        BY <3>1, <3>2 DEF IdOK
      <4> QED BY <3>2, <4>1 DEF Bound
    <3>3. CASE i \notin DOMAIN c.streams
      <4>1. Gone(i, c.last_stream_id, c.dispatched[i], c.answered[i], c.given_up)
        BY <3>1, <3>3 DEF IdOK
      <4> QED BY <4>1 DEF Gone
    <3> QED BY <3>2, <3>3
  <2> QED BY <1>1, <2>1 DEF H2AnswersAreKept, H2Open
<1> QED BY <1>3, <1>4, <1>5 DEF H2Contract

\* A new connection is sound.
LEMMA H2InitOK == H2Init => H2Inv
<1> SUFFICES ASSUME H2Init PROVE H2Inv
  OBVIOUS
<1>1. PICK c : c = h2
  OBVIOUS
<1>2. c = NewConn
  BY <1>1 DEF H2Init
<1>3. /\ c.streams = <<>> /\ c.last_stream_id = 0 /\ c.peer_initial_window = H2_WINDOW
      /\ c.conn_recv_window = H2_WINDOW /\ c.conn_send_window = H2_WINDOW /\ c.overrun = FALSE
      /\ c.conn_granted = H2_WINDOW /\ c.conn_sent = 0 /\ c.given_up = {}
      /\ c.dispatched = [i \in H2Ids |-> 0] /\ c.answered = [i \in H2Ids |-> 0]
  BY <1>2 DEF NewConn
<1>4. IsConn(c)
  BY <1>2 DEF IsConn, NewConn
<1>5. DOMAIN c.streams = {}
  <2>1. DOMAIN <<>> = {}
    OBVIOUS
  <2> QED BY <1>3, <2>1
<1>6. StreamsOK(c.streams)
  BY <1>5, FS_EmptySet DEF StreamsOK
<1>7. FlowOK(c.overrun, c.conn_recv_window, c.conn_send_window, c.conn_granted, c.conn_sent)
  <2>1. H2_WINDOW \in Nat /\ H2_WINDOW \in MAX_FRAME_SIZE..H2_WINDOW
    BY H2ServerAssumption
  <2> QED BY <1>3, <2>1 DEF FlowOK
<1>8. Accounts(c.streams, c.last_stream_id, c.dispatched, c.answered, c.given_up)
  <2>1. \A i \in H2Ids : c.dispatched[i] = 0 /\ c.answered[i] = 0
    BY <1>3
  <2>2. DOMAIN c.dispatched = H2Ids /\ DOMAIN c.answered = H2Ids
    BY <1>3
  <2> QED BY <1>5, <2>1, <2>2 DEF Accounts, IdOK, Gone
<1>9. c.last_stream_id \in Nat /\ c.peer_initial_window \in Int
  BY <1>3, H2ServerAssumption
<1>10. H2ConnOK(c)
  BY <1>4, <1>6, <1>7, <1>8, <1>9 DEF H2ConnOK
<1> QED BY <1>1, <1>5, <1>10 DEF H2Inv, NothingWaits

\* drive reads the socket, after the answers that have come.
LEMMA DriveStartOK == H2Inv /\ DriveStart => H2Inv'
<1> SUFFICES ASSUME H2Inv, DriveStart PROVE H2Inv'
  OBVIOUS
<1>1. PICK c, n : c = h2 /\ n = h2'
  OBVIOUS
<1>2. H2ConnOK(c) /\ \E d \in PollPending(c) : \E r \in FillRecv(d) : n = r.c /\ h2pc' = r.next
  BY <1>1 DEF H2Inv, DriveStart
<1>3. PICK d \in PollPending(c) : \E r \in FillRecv(d) : n = r.c /\ h2pc' = r.next
  BY <1>2
<1>4. H2ConnOK(d)
  BY <1>2, PollPendingOK
<1>5. PICK x : x = [d EXCEPT !.phase = "Done"]
  OBVIOUS
<1>6. H2ConnOK(x)
  BY <1>4, <1>5, SmallStepsOK
<1>7. x.phase = "Done"
  BY <1>4, <1>5 DEF H2ConnOK, IsConn
<1>8. \A r \in FillRecv(d) : (r.next = "frames" /\ r.c = d) \/ r.c = x
  BY <1>5 DEF FillRecv
<1>9. (h2pc' = "frames" /\ n = d) \/ n = x
  BY <1>3, <1>8
<1> QED BY <1>1, <1>4, <1>6, <1>7, <1>9 DEF H2Inv

\* Or finds that nothing came for too long.
LEMMA DriveIdleOK == H2Inv /\ DriveIdle => H2Inv'
<1> SUFFICES ASSUME H2Inv, DriveIdle PROVE H2Inv'
  OBVIOUS
<1>1. PICK c, n : c = h2 /\ n = h2'
  OBVIOUS
<1>2. H2ConnOK(c) /\ \E d \in PollPending(c) : n = [H2GoAway(d, "NO_ERROR") EXCEPT !.phase = "Done"]
  BY <1>1 DEF H2Inv, DriveIdle
<1>3. PICK d \in PollPending(c) : n = [H2GoAway(d, "NO_ERROR") EXCEPT !.phase = "Done"]
  BY <1>2
<1>4. PICK x : x = H2GoAway(d, "NO_ERROR")
  OBVIOUS
<1>5. H2ConnOK(x)
  BY <1>2, <1>4, PollPendingOK, SmallStepsOK
<1>6. n = [x EXCEPT !.phase = "Done"]
  BY <1>3, <1>4
<1>7. H2ConnOK(n)
  BY <1>5, <1>6, SmallStepsOK
<1>8. n.phase = "Done"
  BY <1>5, <1>6 DEF H2ConnOK, IsConn
<1> QED BY <1>1, <1>7, <1>8 DEF H2Inv

\* The preface, and each frame.
LEMMA DrivePrefaceOK == H2Inv /\ DrivePreface => H2Inv'
<1> SUFFICES ASSUME H2Inv, DrivePreface PROVE H2Inv'
  OBVIOUS
<1>1. PICK c, n : c = h2 /\ n = h2'
  OBVIOUS
<1>2. H2ConnOK(c) /\ h2pc' = "frames" /\ (n = [c EXCEPT !.phase = "Active"] \/ n = H2Fatal(c))
  BY <1>1 DEF H2Inv, DrivePreface
<1>3. H2ConnOK(n)
  BY <1>2, SmallStepsOK
<1> QED BY <1>1, <1>2, <1>3 DEF H2Inv

\* A frame handled in drive keeps the invariant.
LEMMA DriveFrameOK == \A f \in H2Frames : H2Inv /\ DriveFrame(f) => H2Inv'
<1> SUFFICES ASSUME NEW f \in H2Frames, H2Inv, DriveFrame(f) PROVE H2Inv'
  OBVIOUS
<1>1. PICK c, n : c = h2 /\ n = h2'
  OBVIOUS
<1>2. H2ConnOK(c) /\ h2pc' = "frames" /\ n \in ProcessFrame(c, f)
  BY <1>1 DEF H2Inv, DriveFrame
<1>3. H2ConnOK(n)
  BY <1>2, FramesFit, ProcessFrameOK
<1> QED BY <1>1, <1>2, <1>3 DEF H2Inv

\* The end of a drive: the flush leaves nothing that could be sent.
LEMMA DriveEndOK == H2Inv /\ DriveEnd => H2Inv'
<1> SUFFICES ASSUME H2Inv, DriveEnd PROVE H2Inv'
  OBVIOUS
<1>1. PICK c, n : c = h2 /\ n = h2'
  OBVIOUS
<1>2. H2ConnOK(c) /\ \E d \in FlushPending(c) : \E x \in FlushIo(d) :
          n = IF x.phase = "GoingAway" /\ H2Open(x) = {} THEN [x EXCEPT !.phase = "Done"] ELSE x
  BY <1>1 DEF H2Inv, DriveEnd
<1>3. PICK d \in FlushPending(c) : \E x \in FlushIo(d) :
          n = IF x.phase = "GoingAway" /\ H2Open(x) = {} THEN [x EXCEPT !.phase = "Done"] ELSE x
  BY <1>2
<1>4. PICK x \in FlushIo(d) :
          n = IF x.phase = "GoingAway" /\ H2Open(x) = {} THEN [x EXCEPT !.phase = "Done"] ELSE x
  BY <1>3
<1>5. H2ConnOK(d) /\ NothingWaits(d)
  BY <1>2, FlushPendingOK DEF NothingWaits
<1>6. Alike(d, x)
  <2>1. IsConn(d)
    BY <1>5 DEF H2ConnOK
  <2>2. Alike(d, d) /\ Alike(d, [d EXCEPT !.phase = "Done"])
    BY <2>1, PhaseAlike DEF Alike, SameButStreams
  <2>3. x = d \/ x = [d EXCEPT !.phase = "Done"]
    BY DEF FlushIo
  <2> QED BY <2>2, <2>3
<1>7. Alike(x, n)
  <2>1. IsConn(x)
    BY <1>6 DEF Alike, SameButStreams
  <2>2. Alike(x, x) /\ Alike(x, [x EXCEPT !.phase = "Done"])
    BY <2>1, PhaseAlike DEF Alike, SameButStreams
  <2>3. n = x \/ n = [x EXCEPT !.phase = "Done"]
    BY <1>4
  <2> QED BY <2>2, <2>3
<1>8. Alike(d, n)
  BY <1>6, <1>7, AlikeTwice
<1>9. H2ConnOK(n) /\ NothingWaits(n)
  BY <1>5, <1>8, AlikeOK DEF Alike, SameButStreams, NothingWaits
<1> QED BY <1>1, <1>9 DEF H2Inv

\* A backend's answer reaches the channel.
LEMMA BackendAnswersOK == \A id \in H2Ids : H2Inv /\ BackendAnswers(id) => H2Inv'
<1> SUFFICES ASSUME NEW id \in H2Ids, H2Inv, BackendAnswers(id) PROVE H2Inv'
  OBVIOUS
<1>1. PICK c, n : c = h2 /\ n = h2'
  OBVIOUS
<1>2. H2ConnOK(c) /\ id \in DOMAIN c.streams /\ c.streams[id].pending = "waiting"
      /\ n = [c EXCEPT !.streams[id].pending = "ready"] /\ h2pc' = h2pc
  BY <1>1 DEF H2Inv, BackendAnswers, H2Open
<1>3. PICK s, r, t : s = c.streams[id] /\ r = [s EXCEPT !.pending = "ready"] /\ t = [c.streams EXCEPT ![id] = r]
  OBVIOUS
<1>4. n = [c EXCEPT !.streams = t]
  BY <1>2, <1>3
<1>5. SameButStreams(c, n) /\ n.streams = t /\ n.given_up = c.given_up /\ n.phase = c.phase
  BY <1>2, <1>4 DEF H2ConnOK, IsConn, SameButStreams
<1>6. H2StreamOK(s) /\ s.pending = "waiting"
  BY <1>2, <1>3 DEF H2ConnOK, StreamsOK
<1>7. H2StreamOK(r) /\ r.pending = "ready"
  BY <1>3, <1>6 DEF H2StreamOK
<1>8. r.resp_body = s.resp_body /\ r.resp_sent = s.resp_sent /\ r.send_window = s.send_window
  BY <1>3, <1>6 DEF H2StreamOK
<1>9. DOMAIN t = DOMAIN c.streams /\ t[id] = r /\ \A i \in DOMAIN t : i # id => t[i] = c.streams[i]
  BY <1>2, <1>3
<1>10. t = H2Put(c.streams, id, r)
  <2>1. DOMAIN c.streams \cup {id} = DOMAIN c.streams
    BY <1>2
  <2> QED BY <1>3, <2>1 DEF H2Put
<1>11. Accounts(c.streams, c.last_stream_id, c.dispatched, c.answered, c.given_up)
  BY <1>2 DEF H2ConnOK
<1>12. /\ id <= c.last_stream_id /\ Bound(r, c.dispatched[id], c.answered[id])
       /\ DOMAIN c.dispatched = H2Ids /\ DOMAIN c.answered = H2Ids
  <2>1. IdOK(id, c.streams, c.last_stream_id, c.dispatched, c.answered, c.given_up)
    BY <1>11 DEF Accounts
  <2>2. id <= c.last_stream_id /\ Bound(s, c.dispatched[id], c.answered[id])
    BY <1>2, <1>3, <2>1 DEF IdOK
  <2>3. Bound(r, c.dispatched[id], c.answered[id])
    BY <1>6, <1>7, <1>8, <2>2 DEF Bound
  <2> QED BY <1>11, <2>2, <2>3 DEF Accounts
<1>13. Accounts(t, c.last_stream_id, c.dispatched, c.answered, c.given_up)
  BY <1>10, <1>11, <1>12, AccountsPut
<1>14. StreamsOK(t)
  BY <1>2, <1>7, <1>10, StreamsPut DEF H2ConnOK
<1>15. H2ConnOK(n)
  BY <1>2, <1>5, <1>13, <1>14, StreamsChange
<1>16. NothingWaits(c) => NothingWaits(n)
  BY <1>3, <1>5, <1>8, <1>9 DEF NothingWaits, Stalled, SameButStreams
<1> QED BY <1>1, <1>2, <1>5, <1>15, <1>16 DEF H2Inv

\* Resets grow old.
LEMMA ResetDecaysOK == \A k : H2Inv /\ ResetDecays(k) => H2Inv'
<1> SUFFICES ASSUME NEW k, H2Inv, ResetDecays(k) PROVE H2Inv'
  OBVIOUS
<1>1. PICK c, n : c = h2 /\ n = h2'
  OBVIOUS
<1>2. PICK q : q = [j \in DOMAIN c.recently_reset |->
                      IF j <= k THEN [c.recently_reset[j] EXCEPT !.hot = FALSE] ELSE c.recently_reset[j]]
  OBVIOUS
<1>3. H2ConnOK(c) /\ n = [c EXCEPT !.recently_reset = q] /\ h2pc' = h2pc
  BY <1>1, <1>2 DEF H2Inv, ResetDecays
<1>4. Alike(c, n) /\ n.phase = c.phase
  BY <1>3 DEF H2ConnOK, IsConn, Alike, SameButStreams
<1>5. H2ConnOK(n) /\ (NothingWaits(c) => NothingWaits(n))
  BY <1>3, <1>4, AlikeOK DEF Alike, SameButStreams, NothingWaits
<1> QED BY <1>1, <1>3, <1>4, <1>5 DEF H2Inv

\* For any windows, limits, streams and frames in any order, the connection never
\* sends what was not granted nor refuses what it granted, leaves no response
\* waiting that could be sent, and answers a dispatched request once or gives its
\* stream up (Http2Conn::drive).
THEOREM Http2AnswersAreKept == H2Spec => []H2Contract
<1>1. H2Inv /\ [H2Next]_h2vars => H2Inv'
  <2> SUFFICES ASSUME H2Inv, [H2Next]_h2vars PROVE H2Inv'
    OBVIOUS
  <2>1. CASE DriveStart
    BY <2>1, DriveStartOK
  <2>2. CASE DriveIdle
    BY <2>2, DriveIdleOK
  <2>3. CASE DrivePreface
    BY <2>3, DrivePrefaceOK
  <2>4. CASE DriveEnd
    BY <2>4, DriveEndOK
  <2>5. CASE \E f \in H2Frames : DriveFrame(f)
    BY <2>5, DriveFrameOK
  <2>6. CASE \E id \in H2Ids : BackendAnswers(id)
    BY <2>6, BackendAnswersOK
  <2>7. CASE \E k \in 1..RESET_MEMORY : ResetDecays(k)
    BY <2>7, ResetDecaysOK
  <2>8. CASE UNCHANGED h2vars
    BY <2>8 DEF H2Inv, h2vars
  <2> QED BY <2>1, <2>2, <2>3, <2>4, <2>5, <2>6, <2>7, <2>8 DEF H2Next
<1> QED BY <1>1, H2InitOK, H2InvImplies, PTL DEF H2Spec
=============================================================================
