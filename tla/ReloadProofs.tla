---------------------------- MODULE ReloadProofs ----------------------------
(***************************************************************************)
(* Proofs about the reload of configuration, for every value of the          *)
(* constants.                                                                *)
(*                                                                           *)
(* Of ConfigReloader: the type invariant, that no change is lost, that a     *)
(* pending change is scheduled and neither held nor backed off too long, and *)
(* that reports are spaced.  Of the two programs that run it, ServiceReload  *)
(* and EdgeReload: that their loops are loops of ConfigReloader, so that its *)
(* theorems are about them; that a service, once nothing is owed, serves     *)
(* what is on disk; that at the edge a touched system config serves the      *)
(* certificate that was on disk, and once nothing is owed the keys the       *)
(* system config owns are the ones on disk.  Of PageValidators: that a       *)
(* client is told its copy is current only in truth, whatever was edited     *)
(* before, during or after the reload that dated the page.                   *)
(***************************************************************************)
EXTENDS ServiceReload, EdgeReload, PageValidators, SequenceTheorems, FiniteSetTheorems, TLAPS

\* The strengthening NoLostChange needs: fingerprints are fresh numbers, one file
\* has one fingerprint, and only a file that is there is owed a report.
Stamps ==
    /\ \A f \in Files : fp[f] < 3 + writes /\ seen[f] < 3 + writes
    /\ sameFile => fp["site"] = fp["process"]
    /\ \A f \in Files : dirty[f] # None => fp[f] # Absent

\* The strengthening ReportsAreSpaced needs: a report is only ever due a window
\* after the last one.
Spaced ==
    /\ lastReport <= now
    /\ due # None /\ lastReport # None => due >= lastReport + RELOAD_DEBOUNCE

IInv ==
    /\ TypeOK
    /\ Stamps
    /\ Spaced
    /\ NoLostChange
    /\ PendingIsScheduled
    /\ HeldAtMostAPoll
    /\ RetriedWithinCap

USE DebounceAssumption, PollAssumption, CapAssumption, WaitAssumption, BoundAssumption

\* What Compared leaves, whatever files an event forces: the reloader is well
\* typed, a marked file is pending, and the report is due within the bounds.
LEMMA ComparedOK ==
    ASSUME IInv, NEW forced \in SUBSET Files
    PROVE  LET c == Compared(forced) IN
           /\ c.seen \in [Files -> Nat]
           /\ c.pending \in SUBSET Files
           /\ c.due \in Nat \cup {None}
           /\ c.failures \in Nat
           /\ c.retrying \in BOOLEAN
           /\ \A f \in Files : c.seen[f] < 3 + writes
           /\ pending \cup Marked(forced) \subseteq c.pending
           /\ \A f \in Files : c.seen[f] # fp[f] => f \notin Hits(forced) /\ seen[f] # fp[f]
           /\ c.pending # {} <=> c.due # None
           /\ c.retrying => c.due # None
           /\ c.due # None /\ ~c.retrying =>
                 c.due <= now \/ (lastReport # None /\ c.due <= lastReport + RELOAD_POLL)
           /\ c.due # None => c.due <= now + RETRY_CAP
           /\ c.due # None /\ lastReport # None => c.due >= lastReport + RELOAD_DEBOUNCE
<1> USE DEF IInv, TypeOK, Stamps, Spaced, PendingIsScheduled, HeldAtMostAPoll,
            RetriedWithinCap, Files, None, Absent
<1>1. CASE Hits(forced) = {}
  BY <1>1 DEF Compared, Marked, Hits
<1>2. CASE Hits(forced) # {}
  <2>1. Hits(forced) \in SUBSET Files /\ Marked(forced) \in SUBSET Files /\ Marked(forced) # {}
    BY <1>2 DEF Hits, Marked
  <2>2. /\ DueAt \in Nat
        /\ DueAt <= now \/ (lastReport # None /\ DueAt <= lastReport + RELOAD_POLL)
        /\ DueAt <= now + RETRY_CAP
        /\ lastReport # None => DueAt >= lastReport + RELOAD_DEBOUNCE
    BY DEF DueAt, Min2, Max2
  <2>3. Hits(forced) \subseteq Marked(forced)
    BY DEF Hits, Marked
  <2> DEFINE s == [f \in Files |-> IF f \in Hits(forced) THEN fp[f] ELSE seen[f]]
  <2>4. Compared(forced) = [seen |-> s, pending |-> pending \cup Marked(forced),
                            due |-> DueAt, failures |-> 0, retrying |-> FALSE]
    BY <1>2 DEF Compared
  <2>5. /\ s \in [Files -> Nat]
        /\ \A f \in Files : s[f] < 3 + writes
        /\ \A f \in Files : s[f] # fp[f] => f \notin Hits(forced) /\ seen[f] # fp[f]
    OBVIOUS
  <2> HIDE DEF s
  <2>6. pending \cup Marked(forced) \in SUBSET Files /\ pending \cup Marked(forced) # {}
    BY <2>1
  <2> QED BY <2>2, <2>4, <2>5, <2>6
<1> QED BY <1>1, <1>2

\* RetryDelay is between RELOAD_POLL and RETRY_CAP.
LEMMA RetryDelayOK ==
    ASSUME TypeOK
    PROVE  RetryDelay \in Nat /\ RELOAD_POLL <= RetryDelay /\ RetryDelay <= RETRY_CAP
<1> DEFINE k == Min2(failures, 6) + 1
<1>1. k \in 1..7
  BY DEF TypeOK, k, Min2
<1>2. Doubling[k] \in Nat /\ Doubling[k] >= 1
  BY <1>1 DEF Doubling
<1>3. RELOAD_POLL * Doubling[k] \in Nat /\ RELOAD_POLL * Doubling[k] >= RELOAD_POLL
  <2> DEFINE d == Doubling[k]
  <2> HIDE DEF d
  <2>1. \A a \in Nat, b \in Nat \ {0} : a * b \in Nat /\ a * b >= a
    OBVIOUS
  <2>2. d \in Nat \ {0}
    BY <1>2 DEF d
  <2>3. RELOAD_POLL * d \in Nat /\ RELOAD_POLL * d >= RELOAD_POLL
    BY <2>1, <2>2
  <2> QED BY <2>3 DEF d
<1> QED BY <1>3 DEF RetryDelay, Min2

\* The initial states satisfy the inductive invariant.
LEMMA InitInv == Init => IInv
<1> SUFFICES ASSUME Init PROVE IInv
  OBVIOUS
<1> USE DEF Init, New
<1>1. writes \in Nat
  <2>1. IsFiniteSet({}) /\ IsFiniteSet({} \cup {"site"})
    BY FS_EmptySet, FS_AddElement
  <2>2. IsFiniteSet(({} \cup {"site"}) \cup {"process"})
    BY <2>1, FS_AddElement
  <2>3. Files = ({} \cup {"site"}) \cup {"process"}
    BY DEF Files
  <2>4. IsFiniteSet({f \in Files : fp[f] # seen[f]})
    BY <2>2, <2>3, FS_Subset
  <2> QED BY <2>4, FS_CardinalityType
<1>2. TypeOK
  <2>1. fp \in [Files -> Nat] /\ seen \in [Files -> Nat]
    BY DEF Absent
  <2>2. dirty \in [Files -> Nat \cup {None}]
    OBVIOUS
  <2> QED BY <1>1, <2>1, <2>2 DEF TypeOK, None
<1>3. Stamps
  BY <1>1 DEF Stamps, Files, None, Absent
<1>4. NoLostChange
  BY DEF NoLostChange, Files, None
<1>5. Spaced /\ PendingIsScheduled /\ HeldAtMostAPoll /\ RetriedWithinCap
  BY DEF Spaced, PendingIsScheduled, HeldAtMostAPoll, RetriedWithinCap, None
<1> QED BY <1>2, <1>3, <1>4, <1>5 DEF IInv

\* Every step preserves it.
LEMMA NextInv == IInv /\ [Next]_vars => IInv'
<1> SUFFICES ASSUME IInv, [Next]_vars PROVE IInv'
  OBVIOUS
<1> USE DEF IInv, Files, None, Absent
<1>1. ASSUME NEW f \in Files, NEW how \in Changes, Write(f, how) PROVE IInv'
  <2> USE <1>1 DEF Write, Touched, loop, reloader
  <2>1. TypeOK'
    BY DEF TypeOK
  <2>2. Stamps'
    BY DEF TypeOK, Stamps
  <2>3. NoLostChange'
    BY DEF TypeOK, Stamps, NoLostChange, Changes
  <2>4. Spaced' /\ PendingIsScheduled' /\ HeldAtMostAPoll' /\ RetriedWithinCap'
    BY DEF Spaced, PendingIsScheduled, HeldAtMostAPoll, RetriedWithinCap
  <2> QED BY <2>1, <2>2, <2>3, <2>4
<1>2. ASSUME NEW f \in Files, Remove(f) PROVE IInv'
  <2> USE <1>2 DEF Remove, Touched, loop, reloader
  <2>1. TypeOK'
    BY DEF TypeOK
  <2>2. Stamps'
    BY DEF TypeOK, Stamps
  <2>3. NoLostChange'
    BY DEF TypeOK, Stamps, NoLostChange
  <2>4. Spaced' /\ PendingIsScheduled' /\ HeldAtMostAPoll' /\ RetriedWithinCap'
    BY DEF Spaced, PendingIsScheduled, HeldAtMostAPoll, RetriedWithinCap
  <2> QED BY <2>1, <2>2, <2>3, <2>4
<1>3. CASE LoseWatch
  BY <1>3 DEF LoseWatch, loop, reloader, history, TypeOK, Stamps, Spaced, NoLostChange,
     Touched, PendingIsScheduled, HeldAtMostAPoll, RetriedWithinCap
<1>4. CASE PollReturn
  <2> USE <1>4 DEF PollReturn, history
  <2>1. CASE queue = {}
    BY <2>1 DEF reloader, TypeOK, Stamps, Spaced, NoLostChange, Touched,
       PendingIsScheduled, HeldAtMostAPoll, RetriedWithinCap
  <2>2. CASE queue # {}
    <3> DEFINE c == Compared(queue)
    <3>1. /\ queue' = {} /\ seen' = c.seen /\ pending' = c.pending /\ due' = c.due
          /\ failures' = c.failures /\ retrying' = c.retrying
          /\ lastReport' = lastReport /\ nextPoll' = nextPoll
      BY <2>2 DEF OnReadable
    <3>2. queue \in SUBSET Files
      BY DEF TypeOK
    <3>3. /\ c.seen \in [Files -> Nat]
          /\ c.pending \in SUBSET Files
          /\ c.due \in Nat \cup {None}
          /\ c.failures \in Nat
          /\ c.retrying \in BOOLEAN
          /\ \A f \in Files : c.seen[f] < 3 + writes
          /\ pending \cup Marked(queue) \subseteq c.pending
          /\ \A f \in Files : c.seen[f] # fp[f] => f \notin Hits(queue) /\ seen[f] # fp[f]
          /\ c.pending # {} <=> c.due # None
          /\ c.retrying => c.due # None
          /\ c.due # None /\ ~c.retrying =>
                 c.due <= now \/ (lastReport # None /\ c.due <= lastReport + RELOAD_POLL)
          /\ c.due # None => c.due <= now + RETRY_CAP
          /\ c.due # None /\ lastReport # None => c.due >= lastReport + RELOAD_DEBOUNCE
      BY <3>2, ComparedOK
    <3> HIDE DEF c
    <3>4. TypeOK'
      BY <3>1, <3>3 DEF TypeOK
    <3>5. Stamps'
      BY <3>1, <3>3 DEF Stamps
    <3>6. NoLostChange'
      <4> SUFFICES ASSUME NEW f \in Files, dirty[f] # None PROVE f \in pending'
        BY DEF NoLostChange
      <4>1. fp[f] # Absent /\ (sameFile => fp["site"] = fp["process"])
        BY DEF Stamps
      <4>2. f \in pending \/ f \in Marked(queue)
        BY <2>2, <3>2, <4>1 DEF NoLostChange, Touched, Marked, Hits
      <4> QED BY <3>1, <3>3, <4>2
    <3>7. Spaced' /\ PendingIsScheduled' /\ HeldAtMostAPoll' /\ RetriedWithinCap'
      BY <3>1, <3>3 DEF Spaced, PendingIsScheduled, HeldAtMostAPoll, RetriedWithinCap
    <3> QED BY <3>4, <3>5, <3>6, <3>7
  <2> QED BY <2>1, <2>2
<1>5. CASE Tick
  <2> USE <1>5 DEF Tick, env
  <2> DEFINE c == Polled
  <2>3. /\ c.seen \in [Files -> Nat]
        /\ c.pending \in SUBSET Files
        /\ c.due \in Nat \cup {None}
        /\ c.failures \in Nat
        /\ c.retrying \in BOOLEAN
        /\ \A f \in Files : c.seen[f] < 3 + writes
        /\ pending \subseteq c.pending
        /\ \A f \in Files : fp[f] # seen[f] => f \in c.pending \/ c.seen[f] # fp[f]
        /\ c.pending # {} <=> c.due # None
        /\ c.retrying => c.due # None
        /\ c.due # None /\ ~c.retrying =>
               c.due <= now \/ (lastReport # None /\ c.due <= lastReport + RELOAD_POLL)
        /\ c.due # None => c.due <= now + RETRY_CAP
        /\ c.due # None /\ lastReport # None => c.due >= lastReport + RELOAD_DEBOUNCE
    <3>1. CASE now >= nextPoll
      <4>1. \A f \in Files : fp[f] # seen[f] => f \in Marked({})
        BY DEF Marked, Hits
      <4>2. c = Compared({})
        BY <3>1 DEF Polled
      <4> HIDE DEF c
      <4> QED BY <4>1, <4>2, ComparedOK
    <3>2. CASE ~(now >= nextPoll)
      BY <3>2 DEF Polled, TypeOK, Stamps, Spaced, PendingIsScheduled, HeldAtMostAPoll,
         RetriedWithinCap
    <3> QED BY <3>1, <3>2
  <2>4. /\ seen' = c.seen /\ failures' = c.failures
        /\ nextPoll' = IF now >= nextPoll THEN now + RELOAD_POLL ELSE nextPoll
    BY DEF TickReloader
  <2>5. CASE Reports
    <3>1. /\ due' = None /\ retrying' = FALSE /\ lastReport' = now /\ pending' = {}
          /\ pc' = "reload" /\ report' = c.pending /\ deadline' = now + MAX_RELOAD
          /\ dirty' = [f \in Files |-> IF f \in c.pending THEN None ELSE dirty[f]]
          /\ reports' = reports + 1
      BY <2>5 DEF TickReloader
    <3> HIDE DEF c
    <3>2. TypeOK'
      <4>1. dirty' \in [Files -> Nat \cup {None}]
        BY <3>1 DEF TypeOK
      <4>2. retrying' \in BOOLEAN /\ watching' \in BOOLEAN /\ sameFile' \in BOOLEAN
        BY <3>1 DEF TypeOK
      <4>3. /\ now' \in Nat /\ deadline' \in Nat /\ nextPoll' \in Nat
            /\ lastReport' \in Nat \cup {None} /\ due' \in Nat \cup {None}
            /\ reports' \in Nat /\ retries' \in Nat
        BY <2>4, <3>1 DEF TypeOK
      <4>4. /\ fp' \in [Files -> Nat] /\ seen' \in [Files -> Nat] /\ failures' \in Nat
            /\ report' \in SUBSET Files /\ pending' \in SUBSET Files /\ writes' \in Nat
            /\ queue' \in SUBSET Files /\ pc' \in {"wait", "tick", "reload"}
        BY <2>3, <2>4, <3>1 DEF TypeOK
      <4> QED BY <4>1, <4>2, <4>3, <4>4 DEF TypeOK
    <3>3. Stamps'
      BY <2>3, <2>4, <3>1 DEF Stamps
    <3>4. NoLostChange'
      BY <2>3, <2>4, <3>1 DEF NoLostChange, Touched, TypeOK
    <3>5. Spaced' /\ PendingIsScheduled' /\ HeldAtMostAPoll' /\ RetriedWithinCap'
      BY <3>1 DEF Spaced, PendingIsScheduled, HeldAtMostAPoll, RetriedWithinCap, TypeOK
    <3> QED BY <3>2, <3>3, <3>4, <3>5
  <2>6. CASE ~Reports
    <3>1. /\ due' = c.due /\ retrying' = c.retrying /\ lastReport' = lastReport
          /\ pending' = c.pending /\ pc' = "wait" /\ deadline' = now + Timeout(due')
          /\ UNCHANGED <<report, dirty, reports>>
      BY <2>6 DEF TickReloader
    <3> HIDE DEF c
    <3>2. TypeOK'
      BY <2>3, <2>4, <3>1 DEF TypeOK, Timeout, Min2, Max2
    <3>3. Stamps'
      BY <2>3, <2>4, <3>1 DEF Stamps
    <3>4. NoLostChange'
      BY <2>3, <2>4, <3>1 DEF NoLostChange, Touched, TypeOK
    <3>5. Spaced' /\ PendingIsScheduled' /\ HeldAtMostAPoll' /\ RetriedWithinCap'
      BY <2>3, <3>1 DEF Spaced, PendingIsScheduled, HeldAtMostAPoll, RetriedWithinCap, TypeOK
    <3> QED BY <3>2, <3>3, <3>4, <3>5
  <2> QED BY <2>5, <2>6
<1>6. CASE ReloadEnd
  <2> USE <1>6 DEF ReloadDone, env
  <2>1. CASE NoRetry /\ ReloadDone
    BY <2>1 DEF NoRetry, reloader, TypeOK, Stamps, Spaced, NoLostChange, Touched, Timeout,
       PendingIsScheduled, HeldAtMostAPoll, RetriedWithinCap, Min2, Max2
  <2>2. ASSUME NEW changed \in SUBSET Files, changed # {}, AskRetry(changed), ReloadDone
        PROVE  IInv'
    <3> USE <2>2 DEF AskRetry, Retry
    <3>1. RetryDelay \in Nat /\ RELOAD_POLL <= RetryDelay /\ RetryDelay <= RETRY_CAP
      BY RetryDelayOK
    <3>2. TypeOK'
      BY <3>1 DEF TypeOK, Timeout, Min2, Max2
    <3>3. Stamps' /\ NoLostChange'
      BY DEF Stamps, NoLostChange, Touched
    <3>4. Spaced' /\ PendingIsScheduled' /\ HeldAtMostAPoll' /\ RetriedWithinCap'
      BY <3>1 DEF Spaced, PendingIsScheduled, HeldAtMostAPoll, RetriedWithinCap, TypeOK
    <3> QED BY <3>2, <3>3, <3>4
  <2> QED BY <2>1, <2>2 DEF ReloadEnd
<1>7. CASE Advance
  BY <1>7 DEF Advance, env, loop, reloader, history, TypeOK, Stamps, Spaced, NoLostChange,
     Touched, PendingIsScheduled, HeldAtMostAPoll, RetriedWithinCap
<1>8. CASE UNCHANGED vars
  BY <1>8 DEF vars, env, loop, reloader, history, TypeOK, Stamps, Spaced, NoLostChange,
     Touched, PendingIsScheduled, HeldAtMostAPoll, RetriedWithinCap
<1> QED BY <1>1, <1>2, <1>3, <1>4, <1>5, <1>6, <1>7, <1>8 DEF Next, Environment

\* The inductive invariant holds throughout.
THEOREM Invariance == Spec => []IInv
BY InitInv, NextInv, PTL DEF Spec

\* Every variable keeps its type.
THEOREM TypeCorrect == Spec => []TypeOK
BY Invariance, PTL DEF IInv

\* compare, tick and retry: no interleaving of writes, events, polls, reports,
\* reloads and retries loses a change, and a pending one is always scheduled, held
\* at most RELOAD_POLL after the last report unless it is a retry, and a retry at
\* most RETRY_CAP from now.
THEOREM ChangesAreNotLost == Spec => []ReloaderContract
<1>1. IInv => ReloaderContract
  BY DEF IInv, ReloaderContract, ScheduledInTime
<1> QED BY <1>1, Invariance, PTL

\* Two reports are at least RELOAD_DEBOUNCE apart.
THEOREM ReportsSpaced == Spec => ReportsAreSpaced
<1>1. IInv /\ [Next]_vars
        => (pc = "tick" /\ pc' = "reload"
            => lastReport = None \/ now >= lastReport + RELOAD_DEBOUNCE)
  <2> SUFFICES ASSUME IInv, [Next]_vars, pc = "tick", pc' = "reload", lastReport # None
               PROVE  now >= lastReport + RELOAD_DEBOUNCE
    OBVIOUS
  <2>1. Tick
    BY DEF Next, Environment, Write, Remove, LoseWatch, PollReturn, ReloadEnd, ReloadDone,
       Advance, vars, loop
  <2>2. Reports
    BY <2>1 DEF Tick
  <2>3. Polled.due # None => Polled.due >= lastReport + RELOAD_DEBOUNCE
    <3>1. CASE now >= nextPoll
      BY <3>1, ComparedOK DEF Polled
    <3>2. CASE ~(now >= nextPoll)
      BY <3>2 DEF Polled, IInv, Spaced
    <3> QED BY <3>1, <3>2
  <2>4. Polled.due \in Nat \cup {None}
    <3>1. CASE now >= nextPoll
      BY <3>1, ComparedOK DEF Polled
    <3>2. CASE ~(now >= nextPoll)
      BY <3>2 DEF Polled, IInv, TypeOK
    <3> QED BY <3>1, <3>2
  <2> QED BY <2>2, <2>3, <2>4 DEF Reports, IInv, TypeOK, None
<1> QED BY <1>1, Invariance, PTL DEF Spec, ReportsAreSpaced
-----------------------------------------------------------------------------
(* How long a change may wait.                                               *)

\* A written file whose change compare() has still to find: what is pending of it, if
\* anything, is the retry of an older version.
Unfound(f) == dirty[f] # None /\ (retrying \/ f \notin pending)

\* The loop is never late: not for its own deadline, nor for a poll by more than a
\* reload and a sleep, nor for a report by more than a sleep.
LoopInTime ==
    /\ now <= deadline
    /\ pc = "tick" => deadline = now
    /\ pc = "reload" => deadline <= now + MAX_RELOAD /\ deadline <= nextPoll + MAX_RELOAD
    /\ deadline <= nextPoll + MAX_RELOAD + MAX_WAIT
    /\ pc = "wait" /\ due # None => deadline <= due + MAX_WAIT
    /\ nextPoll <= now + RELOAD_POLL

\* A report takes everything that is pending, and a change that still waits when poll(2)
\* is called again is held by an earlier report.
HeldByAReport ==
    /\ pc = "reload" => pending = {}
    /\ pc = "wait" /\ due # None /\ ~retrying => lastReport # None /\ due <= lastReport + RELOAD_POLL

\* No report that left f out came more than RELOAD_POLL after f was written.
ReportsNear ==
    \A f \in Files : dirty[f] # None => dirty[f] <= now /\ lastReport <= dirty[f] + RELOAD_POLL

\* A change is found by the next poll, which was due within RELOAD_POLL when it was made,
\* or by an event, which is read when the reload it may have come in is over.
FoundSoon(f) ==
    \/ fp[f] # seen[f] /\ nextPoll <= dirty[f] + RELOAD_POLL
    \/ /\ \E g \in queue : f \in Touched(g)
       /\ pc = "reload" => deadline <= dirty[f] + MAX_RELOAD
       /\ pc = "wait" => now <= dirty[f] + MAX_RELOAD
       /\ pc = "tick" => now = dirty[f]

UnfoundIsNear == \A f \in Files : Unfound(f) => FoundSoon(f)

TimeInv ==
    /\ LoopInTime
    /\ HeldByAReport
    /\ ReportsNear
    /\ UnfoundIsNear
    /\ ReportedInTime

\* timeout_ms never sleeps longer than MAX_WAIT.
LEMMA TimeoutOK ==
    ASSUME TypeOK, NEW d \in Nat \cup {None}
    PROVE  Timeout(d) \in Nat /\ Timeout(d) <= MAX_WAIT
BY DEF TypeOK, Timeout, Min2, Max2, None

\* When compare() runs with every event read, or with every fingerprint that moved, what
\* it looked for is pending and no longer behind a retry.
LEMMA ComparedFinds ==
    ASSUME IInv, NEW forced \in SUBSET Files, NEW f \in Files, fp[f] # Absent,
           f \in Hits(forced) \/ \E g \in forced : f \in Touched(g)
    PROVE  f \in Compared(forced).pending /\ Compared(forced).retrying = FALSE
<1>1. Hits(forced) # {}
  BY DEF Hits
<1>2. f \in Marked(forced)
  BY DEF Marked, Hits, Touched, IInv, Stamps, Files
<1> QED BY <1>1, <1>2 DEF Compared

\* A change made before the loop first waits is found by the first poll.
LEMMA InitTime == Init => TimeInv
<1> SUFFICES ASSUME Init PROVE TimeInv
  OBVIOUS
<1> USE DEF Init, New, Files, None
<1>1. LoopInTime /\ HeldByAReport /\ ReportsNear
  BY DEF LoopInTime, HeldByAReport, ReportsNear
<1>2. UnfoundIsNear
  BY DEF UnfoundIsNear, FoundSoon, Unfound
<1>3. ReportedInTime
  BY DEF ReportedInTime, ReportBound, Max2
<1> QED BY <1>1, <1>2, <1>3 DEF TimeInv

\* Every step preserves it.
LEMMA NextTime == IInv /\ TimeInv /\ [Next]_vars => TimeInv'
<1> SUFFICES ASSUME IInv, TimeInv, [Next]_vars PROVE TimeInv'
  OBVIOUS
<1> USE DEF TimeInv
<1>t. TypeOK /\ Stamps /\ TypeOK'
  BY NextInv DEF IInv
<1>1. ASSUME NEW f \in Files, NEW how \in Changes, Write(f, how) PROVE TimeInv'
  <2> USE <1>1, <1>t DEF Write, loop, reloader
  <2>1. LoopInTime' /\ HeldByAReport'
    BY DEF LoopInTime, HeldByAReport
  <2>2. \A g \in Files : dirty'[g] = (IF g \in Touched(f) /\ dirty[g] = None THEN now ELSE dirty[g])
    OBVIOUS
  <2>3. ReportsNear'
    BY <2>2 DEF ReportsNear, TypeOK, IInv, Spaced, None
  <2>4. ReportedInTime'
    BY <2>2 DEF ReportedInTime, ReportBound, Max2, TypeOK, None
  <2>5. UnfoundIsNear'
    <3> SUFFICES ASSUME NEW g \in Files, Unfound(g)'
                 PROVE  FoundSoon(g)'
      BY DEF UnfoundIsNear
    <3>1. CASE dirty[g] = None
      <4>1. g \in Touched(f) /\ dirty'[g] = now
        BY <2>2, <3>1 DEF Unfound, None
      <4>2. CASE how = "coarse" /\ fp[f] # Absent
        <5>1. f \in queue'
          BY <4>2
        <5>2. \E h \in queue' : g \in Touched(h)'
          BY <4>1, <5>1 DEF Touched
        <5>3. pc = "reload" => deadline <= now + MAX_RELOAD
          BY DEF LoopInTime
        <5>4. now <= now + MAX_RELOAD
          BY DEF TypeOK
        <5> QED BY <4>1, <5>2, <5>3, <5>4 DEF FoundSoon
      <4>3. CASE ~(how = "coarse" /\ fp[f] # Absent)
        BY <4>1, <4>3 DEF FoundSoon, LoopInTime, TypeOK, Stamps
      <4> QED BY <4>2, <4>3
    <3>2. CASE dirty[g] # None
      <4>1. dirty'[g] = dirty[g] /\ Unfound(g)
        BY <2>2, <3>2 DEF Unfound
      <4>2. fp[g] # seen[g] => fp'[g] # seen'[g]
        BY DEF TypeOK, Stamps
      <4>3. queue \subseteq queue'
        OBVIOUS
      <4> QED BY <4>1, <4>2, <4>3 DEF UnfoundIsNear, FoundSoon, Touched
    <3> QED BY <3>1, <3>2
  <2> QED BY <2>1, <2>3, <2>4, <2>5
<1>2. ASSUME NEW f \in Files, Remove(f) PROVE TimeInv'
  <2> USE <1>2, <1>t DEF Remove, loop, reloader
  <2>1. LoopInTime' /\ HeldByAReport'
    BY DEF LoopInTime, HeldByAReport
  <2>2. \A g \in Files : dirty'[g] # None => dirty'[g] = dirty[g] /\ fp'[g] = fp[g]
    BY DEF None, TypeOK
  <2>3. ReportsNear' /\ ReportedInTime'
    BY <2>2 DEF ReportsNear, ReportedInTime
  <2>4. UnfoundIsNear'
    BY <2>2 DEF UnfoundIsNear, FoundSoon, Unfound, Touched
  <2> QED BY <2>1, <2>3, <2>4
<1>3. CASE LoseWatch
  BY <1>3 DEF LoseWatch, loop, reloader, history, LoopInTime, HeldByAReport, ReportsNear, UnfoundIsNear, FoundSoon,
     Unfound, Touched, ReportedInTime
<1>4. CASE PollReturn
  <2> USE <1>4, <1>t DEF PollReturn, history
  <2>1. LoopInTime'
    <3>1. nextPoll' = nextPoll
      BY DEF OnReadable, reloader
    <3> QED BY <3>1 DEF LoopInTime, TypeOK
  <2>2. HeldByAReport'
    BY DEF HeldByAReport
  <2>3. lastReport' = lastReport
    BY DEF OnReadable, reloader
  <2>4. ReportsNear' /\ ReportedInTime'
    BY <2>3 DEF ReportsNear, ReportedInTime
  <2>5. UnfoundIsNear'
    <3> SUFFICES ASSUME NEW f \in Files, Unfound(f)'
                 PROVE  fp'[f] # seen'[f] /\ nextPoll' <= dirty'[f] + RELOAD_POLL
      BY DEF UnfoundIsNear, FoundSoon
    <3>1. CASE queue = {}
      BY <3>1 DEF reloader, UnfoundIsNear, FoundSoon, Unfound
    <3>2. CASE queue # {}
      <4>1. pending' = Compared(queue).pending /\ retrying' = Compared(queue).retrying
        BY <3>2 DEF OnReadable
      <4>2. dirty[f] # None /\ fp[f] # Absent
        BY DEF Unfound, Stamps
      <4>3. \E h \in queue : h \in Hits(queue)
        BY <3>2 DEF Hits
      <4>4. CASE Unfound(f)
        <5>1. f \in Hits(queue) \/ \E g \in queue : f \in Touched(g)
          BY <4>4 DEF UnfoundIsNear, FoundSoon, Hits
        <5> QED BY <4>1, <4>2, <5>1, ComparedFinds DEF Unfound, TypeOK
      <4>5. CASE ~Unfound(f)
        <5>1. f \in pending /\ ~retrying
          BY <4>2, <4>5 DEF Unfound
        <5> QED BY <4>1, <4>3, <5>1 DEF Unfound, Compared
      <4> QED BY <4>4, <4>5
    <3> QED BY <3>1, <3>2
  <2> QED BY <2>1, <2>2, <2>4, <2>5
<1>5. CASE Tick
  <2> USE <1>5, <1>t DEF Tick, env
  <2> DEFINE c == Polled
  <2>1. /\ nextPoll' \in Nat /\ now < nextPoll' /\ nextPoll' <= now + RELOAD_POLL
        /\ now < nextPoll => nextPoll' = nextPoll
    BY DEF TickReloader, LoopInTime, TypeOK
  <2>2. seen' = c.seen
    BY DEF TickReloader
  <2>3. ASSUME NEW f \in Files, Unfound(f), f \notin c.pending \/ c.retrying
        PROVE  \/ now < nextPoll /\ fp[f] # seen[f] /\ c.seen = seen /\ nextPoll <= dirty[f] + RELOAD_POLL
               \/ (\E g \in queue : f \in Touched(g)) /\ now = dirty[f]
    <3>1. fp[f] # Absent
      BY <2>3 DEF Stamps, Unfound
    <3>2. CASE now >= nextPoll
      <4>1. f \notin Hits({})
        BY <2>3, <3>1, <3>2, ComparedFinds DEF Polled
      <4> QED BY <2>3, <4>1 DEF Hits, UnfoundIsNear, FoundSoon
    <3>3. CASE ~(now >= nextPoll)
      BY <2>3, <3>3 DEF Polled, UnfoundIsNear, FoundSoon, TypeOK
    <3> QED BY <3>2, <3>3
  <2>4. pending \subseteq c.pending /\ (c.retrying => retrying /\ c.pending = pending)
    BY DEF Polled, Compared
  <2>5. CASE Reports
    <3>1. /\ due' = None /\ retrying' = FALSE /\ lastReport' = now /\ pending' = {}
          /\ pc' = "reload" /\ deadline' = now + MAX_RELOAD
          /\ dirty' = [f \in Files |-> IF f \in c.pending THEN None ELSE dirty[f]]
      BY <2>5 DEF TickReloader
    <3>2. LoopInTime'
      <4>1. now \in Nat /\ now' = now
        BY DEF TypeOK
      <4>2. MAX_RELOAD \in Nat /\ MAX_WAIT \in Nat
        BY WaitAssumption
      <4>a. \A p \in Nat : now < p =>
                /\ now <= now + MAX_RELOAD
                /\ now + MAX_RELOAD <= p + MAX_RELOAD
                /\ now + MAX_RELOAD <= p + MAX_RELOAD + MAX_WAIT
        BY <4>1, <4>2
      <4>b. deadline' = now' + MAX_RELOAD /\ now' = now
        BY <3>1, <4>1
      <4>3. /\ now' <= deadline' /\ deadline' <= now' + MAX_RELOAD
            /\ deadline' <= nextPoll' + MAX_RELOAD /\ deadline' <= nextPoll' + MAX_RELOAD + MAX_WAIT
        <5>1. nextPoll' \in Nat /\ now < nextPoll' /\ now + MAX_RELOAD <= now + MAX_RELOAD
          BY <2>1, <4>1, <4>2
        <5> QED BY <4>a, <4>b, <5>1
      <4>4. nextPoll' <= now' + RELOAD_POLL
        BY <2>1, <4>1
      <4> QED BY <3>1, <4>3, <4>4 DEF LoopInTime
    <3>h. HeldByAReport'
      BY <3>1 DEF HeldByAReport
    <3>3. \A f \in Files : dirty'[f] # None =>
              dirty'[f] = dirty[f] /\ dirty[f] # None /\ f \notin c.pending /\ Unfound(f)
      BY <2>4, <3>1 DEF Unfound, None
    <3> HIDE DEF c
    <3>4. ReportsNear' /\ ReportedInTime'
      BY <2>3, <3>1, <3>3 DEF ReportsNear, ReportedInTime, TypeOK
    <3>5. UnfoundIsNear'
      <4> SUFFICES ASSUME NEW f \in Files, dirty'[f] # None PROVE FoundSoon(f)'
        BY DEF UnfoundIsNear, Unfound
      <4>1. dirty'[f] = dirty[f] /\ f \notin c.pending /\ Unfound(f)
        BY <3>3
      <4>2. CASE now < nextPoll /\ fp[f] # seen[f] /\ c.seen = seen /\ nextPoll <= dirty[f] + RELOAD_POLL
        BY <2>1, <2>2, <4>1, <4>2 DEF FoundSoon
      <4>3. CASE (\E g \in queue : f \in Touched(g)) /\ now = dirty[f]
        BY <3>1, <4>1, <4>3 DEF FoundSoon, Touched, TypeOK
      <4> QED BY <2>3, <4>1, <4>2, <4>3
    <3> QED BY <3>2, <3>h, <3>4, <3>5
  <2>6. CASE ~Reports
    <3>1. /\ due' = c.due /\ retrying' = c.retrying /\ lastReport' = lastReport
          /\ pending' = c.pending /\ pc' = "wait" /\ deadline' = now + Timeout(due')
          /\ UNCHANGED <<dirty, queue, now, fp, sameFile>>
      BY <2>6 DEF TickReloader
    <3>2. Timeout(due') \in Nat /\ Timeout(due') <= MAX_WAIT
      <4>1. due' \in Nat \cup {None}
        BY DEF TypeOK
      <4> QED BY <4>1, TimeoutOK
    <3>3. due' # None => due' > now
      BY <2>6, <3>1 DEF Reports, TypeOK, None
    <3>4. due' # None /\ ~retrying' => lastReport' # None /\ due' <= lastReport' + RELOAD_POLL
      <4>1. HeldAtMostAPoll'
        BY NextInv DEF IInv
      <4> QED BY <3>1, <3>3, <4>1 DEF HeldAtMostAPoll, TypeOK, None
    <3>5. LoopInTime'
      BY <2>1, <3>1, <3>2, <3>3 DEF LoopInTime, TypeOK, None
    <3>6. HeldByAReport'
      BY <3>1, <3>4 DEF HeldByAReport
    <3>7. ReportsNear' /\ ReportedInTime'
      BY <3>1 DEF ReportsNear, ReportedInTime
    <3>8. UnfoundIsNear'
      <4> SUFFICES ASSUME NEW f \in Files, Unfound(f)' PROVE FoundSoon(f)'
        BY DEF UnfoundIsNear
      <4>1. Unfound(f) /\ (f \notin c.pending \/ c.retrying)
        BY <2>4, <3>1 DEF Unfound
      <4> HIDE DEF c
      <4>2. CASE now < nextPoll /\ fp[f] # seen[f] /\ c.seen = seen /\ nextPoll <= dirty[f] + RELOAD_POLL
        BY <2>1, <2>2, <3>1, <4>2 DEF FoundSoon
      <4>3. CASE (\E g \in queue : f \in Touched(g)) /\ now = dirty[f]
        BY <3>1, <4>3 DEF FoundSoon, Touched, TypeOK
      <4> QED BY <2>3, <4>1, <4>2, <4>3
    <3> QED BY <3>5, <3>6, <3>7, <3>8
  <2> QED BY <2>5, <2>6
<1>6. CASE ReloadEnd
  <2> USE <1>6, <1>t DEF ReloadEnd, ReloadDone, env
  <2>1. Timeout(due') \in Nat /\ Timeout(due') <= MAX_WAIT
    <3>1. due' \in Nat \cup {None}
      BY DEF TypeOK
    <3> QED BY <3>1, TimeoutOK
  <2>2. /\ lastReport' = lastReport /\ nextPoll' = nextPoll /\ seen' = seen
        /\ due' # None => due' >= now /\ retrying'
    <3>1. CASE NoRetry
      BY <3>1 DEF NoRetry, reloader, HeldByAReport, IInv, PendingIsScheduled
    <3>2. ASSUME NEW changed \in SUBSET Files, AskRetry(changed)
          PROVE  /\ lastReport' = lastReport /\ nextPoll' = nextPoll /\ seen' = seen
                 /\ due' >= now /\ retrying'
      BY <3>2, RetryDelayOK DEF AskRetry, Retry, TypeOK
    <3> QED BY <3>1, <3>2
  <2>3. LoopInTime'
    BY <2>1, <2>2 DEF LoopInTime, TypeOK, None
  <2>4. HeldByAReport'
    BY <2>2 DEF HeldByAReport
  <2>5. ReportsNear' /\ ReportedInTime'
    BY <2>2 DEF ReportsNear, ReportedInTime
  <2>6. UnfoundIsNear'
    <3> SUFFICES ASSUME NEW f \in Files, dirty[f] # None PROVE FoundSoon(f)'
      BY DEF UnfoundIsNear, Unfound
    <3>1. Unfound(f)
      BY DEF Unfound, HeldByAReport
    <3> QED BY <2>2, <3>1 DEF UnfoundIsNear, FoundSoon, Touched, LoopInTime, TypeOK
  <2> QED BY <2>3, <2>4, <2>5, <2>6
<1>7. CASE Advance
  <2> USE <1>7, <1>t DEF Advance, env, loop, reloader, history
  <2>1. LoopInTime' /\ HeldByAReport' /\ ReportsNear'
    BY DEF LoopInTime, HeldByAReport, ReportsNear, TypeOK, None
  <2>2. UnfoundIsNear'
    BY DEF UnfoundIsNear, FoundSoon, Unfound, Touched, LoopInTime, TypeOK
  <2>3. ReportedInTime'
    <3> SUFFICES ASSUME NEW f \in Files, dirty[f] # None PROVE now' <= dirty[f] + ReportBound
      BY DEF ReportedInTime
    <3>1. now' <= deadline /\ dirty[f] \in Nat
      BY DEF TypeOK, None
    <3>2. CASE Unfound(f)
      BY <3>1, <3>2 DEF UnfoundIsNear, FoundSoon, LoopInTime, TypeOK, ReportBound, Max2
    <3>3. CASE ~Unfound(f)
      <4>1. due # None /\ ~retrying /\ pc = "wait"
        BY <3>3 DEF Unfound, IInv, PendingIsScheduled, HeldByAReport, LoopInTime, TypeOK
      <4>2. deadline <= due + MAX_WAIT /\ due <= lastReport + RELOAD_POLL
            /\ lastReport <= dirty[f] + RELOAD_POLL
        BY <4>1 DEF LoopInTime, HeldByAReport, ReportsNear
      <4>3. due \in Nat /\ lastReport \in Nat \cup {None} /\ deadline \in Nat /\ now' \in Nat
        BY <4>1 DEF TypeOK
      <4> QED BY <3>1, <4>2, <4>3 DEF ReportBound, Max2, None
    <3> QED BY <3>2, <3>3
  <2> QED BY <2>1, <2>2, <2>3
<1>8. CASE UNCHANGED vars
  BY <1>8 DEF vars, env, loop, reloader, history, LoopInTime, HeldByAReport, ReportsNear, UnfoundIsNear, FoundSoon,
     Unfound, Touched, ReportedInTime
<1> QED BY <1>1, <1>2, <1>3, <1>4, <1>5, <1>6, <1>7, <1>8 DEF Next, Environment

\* on_readable, tick and the loop: every write is reported within ReportBound of its
\* being made, with or without a watch, whatever is written, reported, reloaded and
\* retried in between.
THEOREM ReportsAreInTime == Spec => []ReportedInTime
<1>1. IInv /\ TimeInv /\ [Next]_vars => (IInv /\ TimeInv)'
  BY NextInv, NextTime
<1>2. Init => IInv /\ TimeInv
  BY InitInv, InitTime
<1>3. TimeInv => ReportedInTime
  BY DEF TimeInv
<1> QED BY <1>1, <1>2, <1>3, PTL DEF Spec

-----------------------------------------------------------------------------
(* ServiceReload: a service.                                                 *)

\* What QuietMeansCurrent needs of the loop: a reload is always of some file, so
\* that the retry it may ask for is of something.
ReloadHasReport == pc = "reload" => report # {}

SInv ==
    /\ IInv
    /\ STypeOK
    /\ ReloadHasReport
    /\ QuietMeansCurrent

-----------------------------------------------------------------------------
(* The refinement of ConfigReloader.                                         *)

\* Every initial state of the service is one of ConfigReloader.
LEMMA SInitRefines == SInit => Init
BY DEF SInit

\* Every step is a step of ConfigReloader, or leaves the reloader and its loop alone:
\* ReloadCheck and ReloadLoad are between them the ReloadEnd that it left open.
LEMMA SNextRefines == STypeOK /\ ReloadHasReport /\ TypeOK /\ [SNext]_svars => [Next]_vars
<1> SUFFICES ASSUME STypeOK, ReloadHasReport, TypeOK, [SNext]_svars PROVE [Next]_vars
  OBVIOUS
<1>1. ASSUME NEW f \in Files, NEW how \in Changes, NEW kind \in Kinds, SWrite(f, how, kind)
      PROVE  Next
  BY <1>1 DEF SWrite, Next, Environment
<1>2. ASSUME NEW f \in Files, SRemove(f) PROVE Next
  BY <1>2 DEF SRemove, Next, Environment
<1>3. CASE LoseWatch /\ Service
  BY <1>3 DEF Next, Environment
<1>4. CASE PollReturn /\ Service
  BY <1>4 DEF Next
<1>5. CASE Tick /\ Service
  BY <1>5 DEF Next
<1>6. CASE ReloadCheck
  BY <1>6 DEF ReloadCheck, ReloadEnd, Next
<1>7. CASE ReloadLoad
  <2>1. report \in SUBSET Files /\ report # {}
    BY <1>7 DEF ReloadLoad, ReloadHasReport, TypeOK
  <2> QED BY <1>7, <2>1 DEF ReloadLoad, ReloadEnd, Next
<1>8. CASE Advance /\ Service
  BY <1>8 DEF Next
<1>9. CASE UNCHANGED svars
  BY <1>9 DEF svars
<1>10. ASSUME NEW builds \in BOOLEAN, EditPages(builds) PROVE UNCHANGED vars
  BY <1>10 DEF EditPages
<1> QED BY <1>1, <1>2, <1>3, <1>4, <1>5, <1>6, <1>7, <1>8, <1>9, <1>10 DEF SNext

-----------------------------------------------------------------------------
(* The inductive invariant.                                                  *)

\* A service starts with the files it fingerprinted, or owes a report.
LEMMA SInitInv == SInit => SInv
<1> SUFFICES ASSUME SInit PROVE SInv
  OBVIOUS
<1>1. IInv
  BY SInitRefines, InitInv
<1>2. STypeOK
  BY DEF SInit, STypeOK, Text, Kinds, Files, Pages
<1>3. ReloadHasReport
  BY DEF SInit, Init, ReloadHasReport
<1>4. QuietMeansCurrent
  BY DEF SInit, Init, QuietMeansCurrent, Quiet, Files, None
<1> QED BY <1>1, <1>2, <1>3, <1>4 DEF SInv

\* A report is of something: what tick reports is not empty.
LEMMA TickReportsSomething == IInv /\ Tick => ReloadHasReport'
<1> SUFFICES ASSUME IInv, Tick, Reports PROVE Polled.pending # {}
  BY DEF Tick, ReloadHasReport
<1>1. Polled.pending # {} <=> Polled.due # None
  <2>1. CASE now >= nextPoll
    BY <2>1, ComparedOK DEF Polled
  <2>2. CASE ~(now >= nextPoll)
    BY <2>2 DEF Polled, IInv, PendingIsScheduled
  <2> QED BY <2>1, <2>2
<1> QED BY <1>1 DEF Reports

\* on_readable and tick only ever add to what is pending, until it is reported.
LEMMA PendingGrows ==
    /\ IInv /\ PollReturn => pending \subseteq pending'
    /\ IInv /\ Tick /\ ~Reports => pending \subseteq pending'
<1>1. ASSUME IInv, PollReturn PROVE pending \subseteq pending'
  BY <1>1 DEF PollReturn, OnReadable, Compared, reloader
<1>2. ASSUME IInv, Tick, ~Reports PROVE pending \subseteq pending'
  BY <1>2 DEF Tick, TickReloader, Polled, Compared
<1> QED BY <1>1, <1>2

\* Every step preserves it.
LEMMA SNextInv == SInv /\ [SNext]_svars => SInv'
<1> SUFFICES ASSUME SInv, [SNext]_svars PROVE SInv'
  OBVIOUS
<1> USE DEF SInv
<1>0. IInv'
  BY SNextRefines, NextInv DEF IInv
<1>1. ASSUME NEW f \in Files, NEW how \in Changes, NEW kind \in Kinds, SWrite(f, how, kind)
      PROVE  SInv'
  <2> USE <1>1 DEF SWrite, Write, loop, reloader
  <2>0. pages' \in Pages
    BY DEF STypeOK, Pages
  <2>1. STypeOK'
    BY <2>0 DEF STypeOK, SetText, Text, Kinds, IInv, TypeOK
  <2>2. ReloadHasReport'
    BY DEF ReloadHasReport
  <2>3. dirty'[f] # None
    BY DEF IInv, TypeOK, Touched, None
  <2> QED BY <1>0, <2>1, <2>2, <2>3 DEF QuietMeansCurrent, Quiet
<1>2. ASSUME NEW f \in Files, SRemove(f) PROVE SInv'
  <2> USE <1>2 DEF SRemove, Remove, loop, reloader
  <2>1. STypeOK'
    BY DEF STypeOK, SetText, Text, Kinds, Pages, IInv, TypeOK
  <2>2. ReloadHasReport'
    BY DEF ReloadHasReport
  <2>3. text'[f].kind # "good"
    BY DEF SetText, Touched
  <2> QED BY <1>0, <2>1, <2>2, <2>3 DEF QuietMeansCurrent
<1>3. CASE LoseWatch /\ Service
  BY <1>0, <1>3 DEF LoseWatch, Service, loop, reloader, history, STypeOK, ReloadHasReport,
     QuietMeansCurrent, Quiet
<1>4. CASE PollReturn /\ Service
  <2>1. pending \subseteq pending'
    BY <1>4, PendingGrows
  <2> QED BY <1>0, <1>4, <2>1 DEF PollReturn, Service, history, STypeOK, ReloadHasReport,
             QuietMeansCurrent, Quiet
<1>5. CASE Tick /\ Service
  <2>1. ReloadHasReport'
    BY <1>5, TickReportsSomething
  <2>2. STypeOK'
    BY <1>5 DEF STypeOK, Service
  <2>3. CASE Reports
    BY <1>0, <1>5, <2>1, <2>2, <2>3 DEF Tick, QuietMeansCurrent, Quiet
  <2>4. CASE ~Reports
    <3>1. pending \subseteq pending'
      BY <1>5, <2>4, PendingGrows
    <3> QED BY <1>0, <1>5, <2>1, <2>2, <2>4, <3>1 DEF Tick, Service, QuietMeansCurrent, Quiet
  <2> QED BY <2>3, <2>4
<1>6. CASE ReloadCheck
  <2>1. STypeOK' /\ ReloadHasReport'
    BY <1>6 DEF ReloadCheck, STypeOK, ReloadHasReport, ReloadDone, vars, loop
  <2>2. CASE Skips
    <3>1. \E f \in Files : text'[f].kind # "good"
      BY <1>6, <2>2 DEF ReloadCheck, Skips, IInv, TypeOK
    <3> QED BY <1>0, <2>1, <3>1 DEF QuietMeansCurrent
  <2>3. CASE ~Skips
    BY <1>0, <1>6, <2>1, <2>3 DEF ReloadCheck, QuietMeansCurrent, Quiet, vars, loop
  <2> QED BY <2>2, <2>3
<1>7. CASE ReloadLoad
  <2> USE <1>7 DEF ReloadLoad
  <2>1. STypeOK' /\ ReloadHasReport'
    <3>1. ReloadHasReport' /\ stage' = "check" /\ text' = text
      BY DEF ReloadHasReport, ReloadDone
    <3>2. \E r \in BOOLEAN, v \in BOOLEAN : pages' = [pages EXCEPT !.served = v, !.refused = r]
      <4>1. pages.served \in BOOLEAN /\ pages = [pages EXCEPT !.served = pages.served] /\ Loads \in BOOLEAN
        BY DEF STypeOK, Pages, Loads
      <4> QED BY <4>1 DEF Install
    <3>3. pages' \in Pages
      BY <3>2 DEF STypeOK, Pages
    <3>4. running' \in [Files -> Nat]
      BY DEF STypeOK, Text, Install
    <3> QED BY <3>1, <3>3, <3>4 DEF STypeOK
  <2>2. CASE ~Loads
    <3>1. \E f \in Files : text'[f].kind # "good"
      BY <2>2 DEF Loads, Files
    <3> QED BY <1>0, <2>1, <3>1 DEF QuietMeansCurrent
  <2>5. CASE Loads /\ ~Builds
    <3>1. pages'.refused /\ ~pages'.builds
      BY <2>5 DEF STypeOK, Pages, Builds
    <3> QED BY <1>0, <2>1, <3>1 DEF QuietMeansCurrent
  <2>3. CASE Loads /\ AskRetry(report)
    <3>1. pending' # {}
      BY <2>3 DEF AskRetry, Retry, ReloadHasReport
    <3> QED BY <1>0, <2>1, <3>1 DEF QuietMeansCurrent, Quiet
  <2>4. CASE Install
    <3>1. pages'.served /\ ~pages'.refused
      BY <2>4 DEF Install, STypeOK, Pages
    <3> QED BY <1>0, <2>1, <2>4, <3>1 DEF Install, QuietMeansCurrent
  <2> QED BY <2>2, <2>3, <2>4, <2>5
<1>8. CASE Advance /\ Service
  BY <1>0, <1>8 DEF Advance, Service, env, loop, reloader, history, STypeOK, ReloadHasReport,
     QuietMeansCurrent, Quiet
<1>9. CASE UNCHANGED svars
  BY <1>0, <1>9 DEF svars, vars, loop, reloader, history, STypeOK, ReloadHasReport,
     QuietMeansCurrent, Quiet
<1>10. ASSUME NEW builds \in BOOLEAN, EditPages(builds) PROVE SInv'
  <2>1. /\ pages' \in Pages /\ ~pages'.settled /\ pages'.refused = pages.refused
        /\ UNCHANGED <<text, running, stage, pending, pc, report, dirty>>
    BY <1>10 DEF EditPages, STypeOK, Pages, vars, loop, reloader, history
  <2>2. STypeOK' /\ ReloadHasReport'
    BY <2>1 DEF STypeOK, ReloadHasReport
  <2> QED BY <1>0, <2>1, <2>2 DEF QuietMeansCurrent, Quiet
<1> QED BY <1>1, <1>2, <1>3, <1>4, <1>5, <1>6, <1>7, <1>8, <1>9, <1>10 DEF SNext

-----------------------------------------------------------------------------
(* The theorems.                                                             *)

\* The inductive invariant holds throughout.
THEOREM SInvariance == SSpec => []SInv
BY SInitInv, SNextInv, PTL DEF SSpec

\* run_inner's loop: once every write has been reported, no report is due and no reload
\* is under way, a service whose two files are good serves the versions on disk,
\* whatever was refused, skipped, failed or written during a reload before that,
\* unless the templates or params files refused the last one; and those it serves
\* too when they build and a config was written after them.
THEOREM ServiceIsCurrent == SSpec => []ServiceContract
<1>1. SInv => ServiceContract
  BY DEF SInv, ServiceContract
<1> QED BY <1>1, SInvariance, PTL

\* The instance Reloader has the same variables, so its formulas are ConfigReloader's.
LEMMA SameReloader == 
    /\ Reloader!Init <=> Init
    /\ Reloader!Next <=> Next
    /\ Reloader!vars = vars
<1> USE DEF Reloader!Files, Files, Reloader!None, None, Reloader!Absent, Absent, Reloader!Changes,
            Changes, Reloader!Touched, Touched, Reloader!env, env, Reloader!reloader, reloader,
            Reloader!loop, loop, Reloader!history, history, Reloader!Min2, Min2, Reloader!Max2, Max2
<1>0. ASSUME NEW S PROVE Reloader!Cardinality(S) = Cardinality(S)
  BY DEF Reloader!Cardinality, Cardinality
<1>1. Reloader!Init <=> Init
  BY <1>0 DEF Reloader!Init, Init, Reloader!New, New
<1>2. Reloader!vars = vars
  BY DEF Reloader!vars, vars
<1>3. ASSUME NEW f, NEW how PROVE Reloader!Write(f, how) <=> Write(f, how)
  BY DEF Reloader!Write, Write
<1>4. ASSUME NEW f PROVE Reloader!Remove(f) <=> Remove(f)
  BY DEF Reloader!Remove, Remove
<1>5. Reloader!LoseWatch <=> LoseWatch
  BY DEF Reloader!LoseWatch, LoseWatch
<1>6. ASSUME NEW forced PROVE Reloader!Compared(forced) = Compared(forced)
  BY DEF Reloader!Compared, Compared, Reloader!Hits, Hits, Reloader!Marked, Marked,
     Reloader!DueAt, DueAt
<1>7. Reloader!PollReturn <=> PollReturn
  BY <1>6 DEF Reloader!PollReturn, PollReturn, Reloader!OnReadable, OnReadable
<1>8. Reloader!Polled = Polled
  BY <1>6 DEF Reloader!Polled, Polled
<1>9. Reloader!Tick <=> Tick
  BY <1>8 DEF Reloader!Tick, Tick, Reloader!TickReloader, TickReloader, Reloader!Reports, Reports,
     Reloader!Timeout, Timeout
<1>10. Reloader!ReloadEnd <=> ReloadEnd
  BY DEF Reloader!ReloadEnd, ReloadEnd, Reloader!NoRetry, NoRetry, Reloader!AskRetry, AskRetry,
     Reloader!Retry, Retry, Reloader!RetryDelay, RetryDelay, Reloader!Doubling, Doubling,
     Reloader!ReloadDone, ReloadDone, Reloader!Timeout, Timeout
<1>11. Reloader!Advance <=> Advance
  BY DEF Reloader!Advance, Advance
<1>12. Reloader!Next <=> Next
  BY <1>3, <1>4, <1>5, <1>7, <1>9, <1>10, <1>11
  DEF Reloader!Next, Next, Reloader!Environment, Environment
<1> QED BY <1>1, <1>2, <1>12

\* The same loop is a loop of ConfigReloader: what is proved above of Spec
\* (no change lost, none held too long, reports spaced) holds of every service.
THEOREM ServiceLoopIsAReloader == SSpec => Spec /\ ImplementsConfigReloader
<1>1. SInv /\ [SNext]_svars => [Next]_vars /\ [Reloader!Next]_(Reloader!vars)
  <2> SUFFICES ASSUME SInv, [SNext]_svars PROVE [Next]_vars /\ [Reloader!Next]_(Reloader!vars)
    OBVIOUS
  <2>1. Next \/ UNCHANGED vars
    BY SNextRefines DEF SInv, IInv
  <2>2. Reloader!Next \/ UNCHANGED Reloader!vars
    <3>1. CASE Next
      BY <3>1, SameReloader
    <3>2. CASE UNCHANGED vars
      BY <3>2 DEF Reloader!vars, Reloader!env, Reloader!reloader, Reloader!loop, Reloader!history,
         vars, env, reloader, loop, history
    <3> QED BY <2>1, <3>1, <3>2
  <2> QED BY <2>1, <2>2
<1>2. SInit => Init /\ Reloader!Init
  BY SInitRefines, SameReloader
<1> QED BY <1>1, <1>2, SInvariance, PTL DEF SSpec, Spec, ImplementsConfigReloader, Reloader!Spec

-----------------------------------------------------------------------------
(* EdgeReload: the edge.                                                     *)

\* What EdgeIsCurrent needs: site.toml and the system config are two files, a touch is
\* never of a certificate that is still to be written, and a report does not outlive
\* its reload.
TouchedIsWritten == ~sameFile /\ touched <= cert
ReportIsActedOn == pc # "reload" => report = {}

EdgeInv ==
    /\ IInv
    /\ TouchedIsWritten
    /\ ReportIsActedOn
    /\ EdgeIsCurrent

\* Every step of the edge is a step of ConfigReloader, or one of a certificate
\* renewal, which leaves the reloader and its loop alone.
LEMMA ENextRefines == [ENext]_evars => [Next]_vars
<1> SUFFICES ASSUME [ENext]_evars PROVE [Next]_vars
  OBVIOUS
<1>1. ASSUME NEW f \in Files, NEW how \in Changes, NEW kind \in EKinds, EWrite(f, how, kind)
      PROVE  Next
  BY <1>1 DEF EWrite, Next, Environment
<1>2. ASSUME NEW f \in Files, ERemove(f) PROVE Next
  BY <1>2 DEF ERemove, Next, Environment
<1>3. CASE WriteCert \/ WriteKey \/ UNCHANGED evars
  BY <1>3 DEF WriteCert, WriteKey, evars
<1>4. CASE LoseWatch \/ PollReturn \/ Tick \/ Advance
  BY <1>4 DEF Next, Environment
<1>5. CASE HandleConfigChange
  <2>1. {"process"} \in SUBSET Files /\ {"process"} # {}
    BY DEF Files
  <2> QED BY <1>5, <2>1 DEF HandleConfigChange, ReloadEnd, Next
<1> QED BY <1>1, <1>2, <1>3, <1>4, <1>5 DEF ENext

\* The edge starts with the files it fingerprinted, or owes a report.
LEMMA EInitInv == EInit => EdgeInv
<1> SUFFICES ASSUME EInit PROVE EdgeInv
  OBVIOUS
<1>1. IInv
  BY InitInv DEF EInit
<1>2. ETypeOK /\ TouchedIsWritten /\ ReportIsActedOn
  BY DEF EInit, Init, ETypeOK, TouchedIsWritten, ReportIsActedOn, EKinds
<1>3. RenewalIsServed
  BY DEF EInit, RenewalIsServed
<1>4. QuietMeansProcessCurrent
  BY DEF EInit, Init, QuietMeansProcessCurrent, Quiet, Files, None
<1> QED BY <1>1, <1>2, <1>3, <1>4 DEF EdgeInv, EdgeIsCurrent

\* What on_readable and tick do with a change: it stays pending until it is reported.
LEMMA PendingStays ==
    /\ IInv /\ PollReturn => pending \subseteq pending'
    /\ IInv /\ Tick /\ ~Reports => pending \subseteq pending'
    /\ IInv /\ Tick /\ Reports => pending \subseteq report'
<1>1. ASSUME IInv, PollReturn PROVE pending \subseteq pending'
  BY <1>1 DEF PollReturn, OnReadable, Compared, reloader
<1>2. ASSUME IInv, Tick PROVE IF Reports THEN pending \subseteq report' ELSE pending \subseteq pending'
  BY <1>2 DEF Tick, TickReloader, Polled, Compared
<1> QED BY <1>1, <1>2

\* Every step preserves it.
LEMMA ENextInv == EdgeInv /\ [ENext]_evars => EdgeInv'
<1> SUFFICES ASSUME EdgeInv, [ENext]_evars PROVE EdgeInv'
  OBVIOUS
<1> USE DEF EdgeInv, EdgeIsCurrent
<1>0. IInv'
  BY ENextRefines, NextInv
<1>r. ReportIsActedOn'
  BY DEF ReportIsActedOn, ENext, EWrite, Write, ERemove, Remove, WriteCert, WriteKey, LoseWatch,
     PollReturn, Tick, HandleConfigChange, ReloadDone, Advance, evars, vars, loop
<1>1. ASSUME NEW f \in Files, NEW how \in Changes, NEW kind \in EKinds, EWrite(f, how, kind)
      PROVE  EdgeInv'
  <2> USE <1>1 DEF EWrite, Write, loop, reloader, TouchedIsWritten
  <2>1. ETypeOK' /\ TouchedIsWritten'
    BY DEF ETypeOK, SetEText, IInv, TypeOK
  <2>2. dirty'[f] # None /\ \A g \in Files \ {f} : dirty'[g] = dirty[g]
    BY DEF IInv, TypeOK, Touched, None
  <2>3. QuietMeansProcessCurrent'
    BY <2>2 DEF QuietMeansProcessCurrent, Quiet
  <2>4. CASE f = "process"
    BY <1>0, <1>r, <2>1, <2>2, <2>3, <2>4 DEF RenewalIsServed
  <2>5. CASE f # "process"
    <3>1. fp'["process"] = fp["process"] /\ dirty'["process"] = dirty["process"] /\ touched' = touched
      BY <2>2, <2>5 DEF Touched, Files, IInv, TypeOK
    <3> QED BY <1>0, <1>r, <2>1, <2>3, <3>1 DEF RenewalIsServed
  <2> QED BY <2>4, <2>5
<1>2. ASSUME NEW f \in Files, ERemove(f) PROVE EdgeInv'
  <2> USE <1>2 DEF ERemove, Remove, loop, reloader, tls, TouchedIsWritten
  <2>1. ETypeOK' /\ TouchedIsWritten'
    BY DEF ETypeOK, SetEText, IInv, TypeOK, EKinds
  <2>2. etext'[f].kind # "good"
    BY DEF SetEText, ETypeOK
  <2>3. QuietMeansProcessCurrent'
    BY <2>2 DEF QuietMeansProcessCurrent
  <2>4. RenewalIsServed'
    BY DEF RenewalIsServed, Touched, Files, IInv, TypeOK, Absent
  <2> QED BY <1>0, <1>r, <2>1, <2>3, <2>4
<1>3. CASE WriteCert \/ WriteKey
  <2>1. ETypeOK' /\ TouchedIsWritten'
    <3>1. cert' \in Nat /\ touched' = touched /\ touched <= cert'
      BY <1>3 DEF WriteCert, WriteKey, ETypeOK, TouchedIsWritten
    <3>2. paired' \in BOOLEAN /\ sameFile' = sameFile
      BY <1>3 DEF WriteCert, WriteKey, vars, env
    <3> QED BY <1>3, <3>1, <3>2 DEF WriteCert, WriteKey, ETypeOK, TouchedIsWritten
  <2>2. RenewalIsServed' /\ QuietMeansProcessCurrent'
    BY <1>3 DEF WriteCert, WriteKey, RenewalIsServed, QuietMeansProcessCurrent, Quiet, vars, env,
       loop, reloader, history
  <2> QED BY <1>0, <1>r, <2>1, <2>2
<1>4. CASE LoseWatch /\ Edge
  BY <1>0, <1>r, <1>4 DEF LoseWatch, Edge, tls, loop, reloader, history, ETypeOK, TouchedIsWritten,
     RenewalIsServed, QuietMeansProcessCurrent, Quiet
<1>5. CASE PollReturn /\ Edge
  <2>1. pending \subseteq pending'
    BY <1>5, PendingStays
  <2> QED BY <1>0, <1>r, <1>5, <2>1 DEF PollReturn, Edge, tls, history, ETypeOK, TouchedIsWritten,
             RenewalIsServed, QuietMeansProcessCurrent, Quiet
<1>6. CASE Tick /\ Edge
  <2>1. ETypeOK' /\ TouchedIsWritten'
    BY <1>6 DEF Tick, Edge, tls, env, ETypeOK, TouchedIsWritten
  <2>2. CASE Reports
    <3>1. pending \subseteq report'
      BY <1>6, <2>2, PendingStays
    <3>2. pc' = "reload" /\ dirty' = [f \in Files |-> IF f \in report' THEN None ELSE dirty[f]]
      BY <1>6, <2>2 DEF Tick
    <3> QED BY <1>0, <1>r, <1>6, <2>1, <3>1, <3>2 DEF Tick, Edge, tls, env, RenewalIsServed,
               ReportIsActedOn, QuietMeansProcessCurrent, Quiet, Files
  <2>3. CASE ~Reports
    <3>1. pending \subseteq pending'
      BY <1>6, <2>3, PendingStays
    <3> QED BY <1>0, <1>r, <1>6, <2>1, <2>3, <3>1 DEF Tick, Edge, tls, env, RenewalIsServed,
               QuietMeansProcessCurrent, Quiet
  <2> QED BY <2>2, <2>3
<1>7. CASE HandleConfigChange
  <2> USE <1>7 DEF HandleConfigChange
  <2>1. ETypeOK' /\ TouchedIsWritten'
    <3>1. site' \in Nat /\ process' \in Nat
      BY DEF ETypeOK, Files
    <3>2. served' \in Nat
      BY DEF ETypeOK
    <3> QED BY <3>1, <3>2 DEF ETypeOK, TouchedIsWritten, ReloadDone, env
  <2>2. RenewalIsServed'
    <3>1. CASE TlsReload /\ paired
      BY <3>1 DEF RenewalIsServed, TouchedIsWritten, ETypeOK
    <3>2. CASE TlsFails
      BY <3>2 DEF RenewalIsServed, AskRetry, Retry
    <3>3. CASE ~TlsReload
      BY <3>3 DEF TlsReload, TlsFails, RenewalIsServed, NoRetry, reloader, ReloadDone, env
    <3> QED BY <3>1, <3>2, <3>3 DEF TlsFails
  <2>3. QuietMeansProcessCurrent'
    BY DEF QuietMeansProcessCurrent, Installs, ELoads, Files
  <2> QED BY <1>0, <1>r, <2>1, <2>2, <2>3
<1>8. CASE Advance /\ Edge
  BY <1>0, <1>r, <1>8 DEF Advance, Edge, tls, env, loop, reloader, history, ETypeOK, TouchedIsWritten,
     RenewalIsServed, QuietMeansProcessCurrent, Quiet
<1>9. CASE UNCHANGED evars
  BY <1>0, <1>r, <1>9 DEF evars, vars, env, loop, reloader, history, ETypeOK, TouchedIsWritten,
     RenewalIsServed, QuietMeansProcessCurrent, Quiet
<1> QED BY <1>1, <1>2, <1>3, <1>4, <1>5, <1>6, <1>7, <1>8, <1>9 DEF ENext

-----------------------------------------------------------------------------
(* The theorems.                                                             *)

\* The inductive invariant holds throughout.
THEOREM EInvariance == ESpec => []EdgeInv
BY EInitInv, ENextInv, PTL DEF ESpec

\* handle_config_change and the retry after it: a renewal announced by a touch of the
\* system config is served once nothing of it is owed, however the touch, the two files
\* of the pair and changes to site.toml interleave; and once nothing is owed and both
\* files load, the process-owned keys are those on disk.
THEOREM RenewalsAndEditsAreTaken == ESpec => []EdgeIsCurrent
BY EInvariance, PTL DEF EdgeInv

\* The edge's loop is a loop of ConfigReloader: no change of its files is lost either,
\* none is held too long, and reports are spaced.
THEOREM EdgeLoopIsAReloader == ESpec => Spec
<1>1. EInit => Init
  BY DEF EInit
<1> QED BY <1>1, ENextRefines, PTL DEF ESpec, Spec

-----------------------------------------------------------------------------
(* PageValidators.  An input whose version moved since a page was built, or  *)
(* since a client took it, carries a date no older than the one given then,  *)
(* unless it was dated back.                                                 *)

Versions == [Inputs -> Nat]
Flags == [Inputs -> BOOLEAN]

YTypeOK ==
    /\ yfiles \in [Inputs -> [mtime : Nat, version : Nat, back : BOOLEAN]]
    /\ yhigh \in Nat
    /\ ybuild \in [busy : BOOLEAN, left : Seq(Inputs), lm : Nat, content : Versions, dated : Versions,
                   edited : Versions, back : Flags]
    /\ ystate \in [content : Versions, lm : Nat, dated : Versions, edited : Versions, back : Flags]
    /\ DOMAIN yclient = {"content", "date", "answer", "how"}
    /\ yclient.content \in Versions /\ yclient.date \in Nat

\* No page is dated after the newest date seen, and each by its newest dated input.
DatesArePast ==
    /\ \A f \in Dated : yfiles[f].mtime <= yhigh
    /\ ystate.lm <= yhigh /\ ybuild.lm <= yhigh /\ yclient.date <= Second(yhigh)
    /\ \A f \in Dated : ystate.edited[f] <= ystate.lm /\ ybuild.edited[f] <= ybuild.lm

\* A version only grows: it is dated, then read, then edited again.
VersionsLag ==
    \A f \in Inputs :
        /\ ystate.dated[f] <= ystate.content[f] /\ ystate.content[f] <= yfiles[f].version
        /\ ybuild.dated[f] <= ybuild.content[f] /\ ybuild.content[f] <= yfiles[f].version

\* What moved since a page was dated, built or taken is dated since.
MovedInFile ==
    \A f \in Dated : ~yfiles[f].back =>
        /\ ystate.dated[f] # yfiles[f].version => ystate.lm <= yfiles[f].mtime
        /\ ybuild.busy /\ ybuild.dated[f] # yfiles[f].version => ybuild.lm <= yfiles[f].mtime
        /\ yclient.content[f] # yfiles[f].version => yclient.date <= Second(yfiles[f].mtime)

MovedInBuild ==
    ybuild.busy => \A f \in Dated : ~ybuild.back[f] =>
        /\ ystate.content[f] # ybuild.dated[f] => ystate.lm <= ybuild.edited[f]
        /\ yclient.content[f] # ybuild.dated[f] => yclient.date <= Second(ybuild.edited[f])

MovedInState ==
    \A f \in Dated :
        (~ystate.back[f] /\ ystate.content[f] = ystate.dated[f] /\ yclient.content[f] # ystate.content[f])
            => yclient.date <= Second(ystate.edited[f])

PageInv == YTypeOK /\ DatesArePast /\ VersionsLag /\ MovedInFile /\ MovedInBuild /\ MovedInState

\* The later of two dates.
LEMMA NewestIs ==
  ASSUME NEW a \in Nat, NEW b \in Nat
  PROVE  Newest({a, b}) \in Nat /\ a <= Newest({a, b}) /\ b <= Newest({a, b}) /\ Newest({a, b}) \in {a, b}
  <1>1. \E t \in {a, b} : \A u \in {a, b} : u <= t
    <2>1. CASE a <= b BY <2>1
    <2>2. CASE b <= a BY <2>2
    <2> QED BY <2>1, <2>2
  <1>2. Newest({a, b}) \in {a, b} /\ \A u \in {a, b} : u <= Newest({a, b}) BY <1>1 DEF Newest
  <1> QED BY <1>2

\* Seconds keep the order of the half seconds.
LEMMA SecondIs == ASSUME NEW a \in Nat, NEW b \in Nat, a <= b
                  PROVE  Second(a) \in Nat /\ Second(b) \in Nat /\ Second(a) <= Second(b)
  BY DEF Second

\* The date of the page: the newest of its dated inputs.
LEMMA LastModifiedIs ==
  ASSUME YTypeOK, DatesArePast
  PROVE  /\ LastModified(yfiles) \in Nat /\ LastModified(yfiles) <= yhigh
         /\ \A f \in Dated : yfiles[f].mtime <= LastModified(yfiles)
  <1> DEFINE a == yfiles["template"].mtime
             b == yfiles["params"].mtime
  <1>1. a \in Nat /\ b \in Nat BY DEF YTypeOK, Inputs
  <1>2. a <= yhigh /\ b <= yhigh BY DEF DatesArePast, Dated, Inputs
  <1> HIDE DEF a, b
  <1>3. Newest({a, b}) \in Nat /\ a <= Newest({a, b}) /\ b <= Newest({a, b}) /\ Newest({a, b}) \in {a, b}
    BY <1>1, NewestIs
  <1>4. LastModified(yfiles) = Newest({a, b}) BY DEF LastModified, a, b
  <1>5. yhigh \in Nat BY DEF YTypeOK
  <1> QED BY <1>1, <1>2, <1>3, <1>4, <1>5 DEF Dated, Inputs, a, b

\* An edit leaves what moved dated, unless it dates the file back.
LEMMA EditKeeps ==
  ASSUME PageInv, NEW g \in Inputs, NEW t \in Nat, Edit(g, t) PROVE PageInv'
  <1> DEFINE v == yfiles[g].version
  <1>1. /\ yfiles' = [yfiles EXCEPT ![g] = [mtime |-> t, version |-> v + 1, back |-> t < yhigh]]
        /\ yhigh' = IF g \in Dated /\ yhigh < t THEN t ELSE yhigh
        /\ UNCHANGED <<ybuild, ystate, yclient>>
    BY DEF Edit
  <1>2. v \in Nat /\ v + 1 \in Nat /\ yhigh \in Nat BY DEF PageInv, YTypeOK
  <1>3. \A f \in Inputs : f # g => yfiles'[f] = yfiles[f] BY <1>1 DEF PageInv, YTypeOK
  <1>4. yfiles'[g].mtime = t /\ yfiles'[g].version = v + 1 /\ (~yfiles'[g].back => yhigh <= t)
    <2> DEFINE b == t < yhigh
    <2>1. yfiles'[g] = [mtime |-> t, version |-> v + 1, back |-> b]
      BY <1>1 DEF PageInv, YTypeOK
    <2> HIDE DEF b, v
    <2>2. yfiles'[g].mtime = t /\ yfiles'[g].version = v + 1 /\ yfiles'[g].back = b BY <2>1
    <2>3. ~yfiles'[g].back => ~(t < yhigh) BY <2>2, Zenon DEF b
    <2> QED BY <2>2, <2>3, <1>2
  <1>5. yhigh' \in Nat /\ yhigh <= yhigh' /\ (g \in Dated => t <= yhigh') BY <1>1, <1>2
  <1>6. Second(yhigh) <= Second(yhigh') /\ Second(yhigh) \in Nat /\ Second(yhigh') \in Nat
    BY <1>2, <1>5, SecondIs
  <1>7. YTypeOK'
    <2>1. yfiles' \in [Inputs -> [mtime : Nat, version : Nat, back : BOOLEAN]]
      BY <1>1, <1>2 DEF PageInv, YTypeOK
    <2> QED BY <2>1, <1>1, <1>5 DEF PageInv, YTypeOK
  <1>8. DatesArePast'
    <2>1. \A f \in Dated : yfiles'[f].mtime <= yhigh'
      <3> TAKE f \in Dated
      <3>1. f \in Inputs BY DEF Dated
      <3>2. yfiles[f].mtime \in Nat /\ yfiles[f].mtime <= yhigh BY <3>1 DEF PageInv, YTypeOK, DatesArePast
      <3>3. CASE f = g BY <3>3, <1>4, <1>5
      <3>4. CASE f # g BY <3>1, <3>2, <3>4, <1>2, <1>3, <1>5
      <3> QED BY <3>3, <3>4
    <2>2. ystate.lm \in Nat /\ ybuild.lm \in Nat /\ yclient.date \in Nat BY DEF PageInv, YTypeOK
    <2>3. ystate.lm <= yhigh' /\ ybuild.lm <= yhigh' /\ yclient.date <= Second(yhigh')
      BY <2>2, <1>2, <1>5, <1>6 DEF PageInv, DatesArePast
    <2> QED BY <2>1, <2>3, <1>1 DEF PageInv, DatesArePast
  <1>9. VersionsLag'
    <2> SUFFICES ASSUME NEW f \in Inputs
                 PROVE  /\ ystate.dated[f] <= ystate.content[f] /\ ystate.content[f] <= yfiles'[f].version
                        /\ ybuild.dated[f] <= ybuild.content[f] /\ ybuild.content[f] <= yfiles'[f].version
      BY <1>1 DEF VersionsLag
    <2>1. ystate.content[f] \in Nat /\ ybuild.content[f] \in Nat /\ yfiles[f].version \in Nat
      BY DEF PageInv, YTypeOK, Versions
    <2>2. /\ ystate.dated[f] <= ystate.content[f] /\ ystate.content[f] <= yfiles[f].version
          /\ ybuild.dated[f] <= ybuild.content[f] /\ ybuild.content[f] <= yfiles[f].version
      BY DEF PageInv, VersionsLag
    <2>3. CASE f # g BY <2>2, <2>3, <1>3
    <2>4. CASE f = g BY <2>1, <2>2, <2>4, <1>4
    <2> QED BY <2>3, <2>4
  <1>10. MovedInFile'
    <2> SUFFICES ASSUME NEW f \in Dated, ~yfiles'[f].back
                 PROVE  /\ ystate.dated[f] # yfiles'[f].version => ystate.lm <= yfiles'[f].mtime
                        /\ ybuild.busy /\ ybuild.dated[f] # yfiles'[f].version => ybuild.lm <= yfiles'[f].mtime
                        /\ yclient.content[f] # yfiles'[f].version => yclient.date <= Second(yfiles'[f].mtime)
      BY <1>1 DEF MovedInFile
    <2>1. f \in Inputs BY DEF Dated
    <2>2. CASE f # g BY <2>1, <2>2, <1>3 DEF PageInv, MovedInFile
    <2>3. CASE f = g
      <3>1. yhigh <= t /\ yfiles'[f].mtime = t BY <2>3, <1>4
      <3>2. Second(yhigh) <= Second(t) /\ Second(t) \in Nat BY <3>1, <1>2, SecondIs
      <3>3. ystate.lm \in Nat /\ ybuild.lm \in Nat /\ yclient.date \in Nat BY DEF PageInv, YTypeOK
      <3>4. ystate.lm <= t /\ ybuild.lm <= t /\ yclient.date <= Second(t)
        BY <3>1, <3>2, <3>3, <1>2, <1>6 DEF PageInv, DatesArePast
      <3> QED BY <3>1, <3>4
    <2> QED BY <2>2, <2>3
  <1>11. MovedInBuild' /\ MovedInState' BY <1>1 DEF PageInv, MovedInBuild, MovedInState
  <1> QED BY <1>7, <1>8, <1>9, <1>10, <1>11 DEF PageInv

\* A state whose content moved was dated before it moved.
LEMMA MovedSinceDated ==
  ASSUME PageInv, NEW f \in Dated, ~yfiles[f].back, ystate.content[f] # yfiles[f].version
  PROVE  ystate.lm <= yfiles[f].mtime
  <1>1. f \in Inputs BY DEF Dated
  <1>2. ystate.dated[f] \in Nat /\ ystate.content[f] \in Nat /\ yfiles[f].version \in Nat
    BY <1>1 DEF PageInv, YTypeOK, Versions
  <1>3. ystate.dated[f] # yfiles[f].version BY <1>1, <1>2 DEF PageInv, VersionsLag
  <1> QED BY <1>3 DEF PageInv, MovedInFile

\* The files are dated.
LEMMA StatKeeps ==
  ASSUME PageInv, StatInputs PROVE PageInv'
  <1> DEFINE l == LastModified(yfiles)
             vs == [f \in Inputs |-> yfiles[f].version]
             ms == [f \in Inputs |-> yfiles[f].mtime]
             bs == [f \in Inputs |-> yfiles[f].back]
  <1>1. /\ l \in Nat /\ l <= yhigh
        /\ \A f \in Dated : yfiles[f].mtime <= l
    BY LastModifiedIs DEF PageInv
  <1> HIDE DEF l
  <1>2. ybuild' = [busy |-> TRUE, left |-> <<"template", "globals", "params">>, lm |-> l, content |-> vs,
                   dated |-> vs, edited |-> ms, back |-> bs]
        /\ UNCHANGED <<yfiles, yhigh, ystate, yclient>>
    BY DEF StatInputs, l
  <1>3. vs \in Versions /\ ms \in Versions /\ bs \in Flags BY DEF PageInv, YTypeOK, Versions, Flags
  <1>4. \A f \in Inputs : vs[f] = yfiles[f].version /\ ms[f] = yfiles[f].mtime /\ bs[f] = yfiles[f].back
    OBVIOUS
  <1> HIDE DEF vs, ms, bs
  <1>5. <<"template", "globals", "params">> \in Seq(Inputs) BY DEF Inputs
  <1>6. /\ ybuild'.busy = TRUE /\ ybuild'.lm = l /\ ybuild'.content = vs /\ ybuild'.dated = vs
        /\ ybuild'.edited = ms /\ ybuild'.back = bs
    BY <1>2
  <1>7. YTypeOK'
    <2>1. ybuild' \in [busy : BOOLEAN, left : Seq(Inputs), lm : Nat, content : Versions, dated : Versions,
                       edited : Versions, back : Flags]
      BY <1>1, <1>2, <1>3, <1>5
    <2> QED BY <2>1, <1>2 DEF PageInv, YTypeOK
  <1>8. Dated \subseteq Inputs BY DEF Dated
  <1>9. DatesArePast' BY <1>1, <1>2, <1>4, <1>6, <1>8 DEF PageInv, DatesArePast
  <1>10. VersionsLag'
    <2>1. \A f \in Inputs : vs[f] \in Nat BY <1>3 DEF Versions
    <2> QED BY <2>1, <1>2, <1>4, <1>6 DEF PageInv, VersionsLag
  <1>11. MovedInFile' BY <1>2, <1>4, <1>6, <1>8 DEF PageInv, MovedInFile
  <1>12. MovedInBuild'
    <2> SUFFICES ASSUME NEW f \in Dated, ~bs[f]
                 PROVE  /\ ystate.content[f] # vs[f] => ystate.lm <= ms[f]
                        /\ yclient.content[f] # vs[f] => yclient.date <= Second(ms[f])
      BY <1>2, <1>6 DEF MovedInBuild
    <2>1. f \in Inputs /\ ~yfiles[f].back BY <1>4, <1>8
    <2>2. ystate.content[f] # vs[f] => ystate.lm <= ms[f] BY <2>1, <1>4, MovedSinceDated
    <2> QED BY <2>1, <2>2, <1>4 DEF PageInv, MovedInFile
  <1>13. MovedInState' BY <1>2 DEF PageInv, MovedInState
  <1> QED BY <1>7, <1>9, <1>10, <1>11, <1>12, <1>13 DEF PageInv

\* A file is read.
LEMMA ReadKeeps ==
  ASSUME PageInv, ReadInput PROVE PageInv'
  <1> DEFINE g == Head(ybuild.left)
             c == [ybuild.content EXCEPT ![g] = yfiles[g].version]
  <1>1. g \in Inputs /\ Tail(ybuild.left) \in Seq(Inputs)
    BY HeadTailProperties DEF ReadInput, PageInv, YTypeOK
  <1>2. ybuild' = [ybuild EXCEPT !.left = Tail(ybuild.left), !.content = c]
        /\ UNCHANGED <<yfiles, yhigh, ystate, yclient>>
    BY DEF ReadInput
  <1> HIDE DEF g
  <1>3. /\ ybuild.content \in Versions /\ yfiles[g].version \in Nat
        /\ ybuild.dated \in Versions
    BY <1>1 DEF PageInv, YTypeOK
  <1>4. c \in Versions /\ \A f \in Inputs : c[f] = IF f = g THEN yfiles[g].version ELSE ybuild.content[f]
    BY <1>3 DEF Versions
  <1> HIDE DEF c
  <1>5. /\ ybuild'.busy = ybuild.busy /\ ybuild'.lm = ybuild.lm /\ ybuild'.content = c
        /\ ybuild'.dated = ybuild.dated /\ ybuild'.edited = ybuild.edited /\ ybuild'.back = ybuild.back
    BY <1>2 DEF PageInv, YTypeOK
  <1>6. YTypeOK'
    <2>1. ybuild' \in [busy : BOOLEAN, left : Seq(Inputs), lm : Nat, content : Versions, dated : Versions,
                       edited : Versions, back : Flags]
      BY <1>1, <1>2, <1>4 DEF PageInv, YTypeOK
    <2> QED BY <2>1, <1>2 DEF PageInv, YTypeOK
  <1>7. VersionsLag'
    <2> SUFFICES ASSUME NEW f \in Inputs
                 PROVE  /\ ystate.dated[f] <= ystate.content[f] /\ ystate.content[f] <= yfiles[f].version
                        /\ ybuild.dated[f] <= c[f] /\ c[f] <= yfiles[f].version
      BY <1>2, <1>5 DEF VersionsLag
    <2>1. /\ ystate.dated[f] <= ystate.content[f] /\ ystate.content[f] <= yfiles[f].version
          /\ ybuild.dated[f] <= ybuild.content[f] /\ ybuild.content[f] <= yfiles[f].version
      BY DEF PageInv, VersionsLag
    <2>2. ybuild.dated[f] \in Nat /\ ybuild.content[f] \in Nat BY <1>3 DEF Versions
    <2>3. CASE f = g BY <2>1, <2>2, <2>3, <1>3, <1>4
    <2>4. CASE f # g BY <2>1, <2>4, <1>4
    <2> QED BY <2>3, <2>4
  <1>8. DatesArePast' /\ MovedInFile' /\ MovedInState'
    BY <1>2, <1>5 DEF PageInv, DatesArePast, MovedInFile, MovedInState
  <1>9. MovedInBuild' BY <1>2, <1>5 DEF PageInv, MovedInBuild
  <1> QED BY <1>6, <1>7, <1>8, <1>9 DEF PageInv

\* No build is under way.
LEMMA NoBuildIs ==
  /\ NoBuild \in [busy : BOOLEAN, left : Seq(Inputs), lm : Nat, content : Versions, dated : Versions,
                  edited : Versions, back : Flags]
  /\ NoBuild.busy = FALSE /\ NoBuild.lm = 0
  /\ \A f \in Inputs : NoBuild.edited[f] = 0 /\ NoBuild.dated[f] = 0 /\ NoBuild.content[f] = 0
  <1>1. AllOf(0) \in Versions /\ AllOf(FALSE) \in Flags /\ \A f \in Inputs : AllOf(0)[f] = 0
    BY DEF AllOf, Versions, Flags
  <1>2. <<>> \in Seq(Inputs) OBVIOUS
  <1> QED BY <1>1, <1>2 DEF NoBuild

\* The build is given up.
LEMMA RefuseKeeps ==
  ASSUME PageInv, RefuseBuild PROVE PageInv'
  <1>1. ybuild' = NoBuild /\ UNCHANGED <<yfiles, yhigh, ystate, yclient>> BY DEF RefuseBuild
  <1>2. Dated \subseteq Inputs BY DEF Dated
  <1>3. YTypeOK' BY <1>1, NoBuildIs DEF PageInv, YTypeOK
  <1>4. \A f \in Inputs : yfiles[f].version \in Nat BY DEF PageInv, YTypeOK
  <1>5. yhigh \in Nat BY DEF PageInv, YTypeOK
  <1>6. DatesArePast' BY <1>1, <1>2, <1>5, NoBuildIs DEF PageInv, DatesArePast
  <1>7. VersionsLag' BY <1>1, <1>4, NoBuildIs DEF PageInv, VersionsLag
  <1>8. MovedInFile' /\ MovedInBuild' /\ MovedInState'
    BY <1>1, NoBuildIs DEF PageInv, MovedInFile, MovedInBuild, MovedInState
  <1> QED BY <1>3, <1>6, <1>7, <1>8 DEF PageInv

\* The build is installed.
LEMMA InstallKeeps ==
  ASSUME PageInv, InstallBuild PROVE PageInv'
  <1>1. /\ ystate' = [content |-> ybuild.content, lm |-> ybuild.lm, dated |-> ybuild.dated,
                      edited |-> ybuild.edited, back |-> ybuild.back]
        /\ ybuild' = NoBuild /\ ybuild.busy /\ UNCHANGED <<yfiles, yhigh>>
    BY DEF InstallBuild
  <1>2. /\ DOMAIN yclient' = {"content", "date", "answer", "how"}
        /\ yclient'.content = yclient.content /\ yclient'.date = yclient.date
    BY DEF InstallBuild, PageInv, YTypeOK
  <1>3. /\ ystate'.content = ybuild.content /\ ystate'.lm = ybuild.lm /\ ystate'.dated = ybuild.dated
        /\ ystate'.edited = ybuild.edited /\ ystate'.back = ybuild.back
    BY <1>1
  <1>4. Dated \subseteq Inputs BY DEF Dated
  <1>5. YTypeOK'
    <2>1. ystate' \in [content : Versions, lm : Nat, dated : Versions, edited : Versions, back : Flags]
      BY <1>1 DEF PageInv, YTypeOK
    <2> QED BY <2>1, <1>1, <1>2, NoBuildIs DEF PageInv, YTypeOK
  <1>6. \A f \in Inputs : yfiles[f].version \in Nat BY DEF PageInv, YTypeOK
  <1>7. yhigh \in Nat BY DEF PageInv, YTypeOK
  <1>8. DatesArePast' BY <1>1, <1>2, <1>3, <1>4, <1>7, NoBuildIs DEF PageInv, DatesArePast
  <1>9. VersionsLag' BY <1>1, <1>3, <1>6, NoBuildIs DEF PageInv, VersionsLag
  <1>10. MovedInFile' BY <1>1, <1>2, <1>3, NoBuildIs DEF PageInv, MovedInFile
  <1>11. MovedInBuild' BY <1>1, NoBuildIs DEF MovedInBuild
  <1>12. MovedInState' BY <1>1, <1>2, <1>3 DEF PageInv, MovedInBuild, MovedInState
  <1> QED BY <1>5, <1>8, <1>9, <1>10, <1>11, <1>12 DEF PageInv

\* The client takes the page as it is served.
LEMMA TakesPage ==
  ASSUME PageInv, UNCHANGED <<yfiles, yhigh, ybuild, ystate>>, NEW h, TakePage(h)
  PROVE  PageInv'
  <1>1. /\ DOMAIN yclient' = {"content", "date", "answer", "how"}
        /\ yclient'.content = ystate.content /\ yclient'.date = Second(ystate.lm)
    BY DEF TakePage, HttpDate
  <1>2. /\ ystate.content \in Versions /\ ystate.lm \in Nat /\ yhigh \in Nat
        /\ \A f \in Inputs : yfiles[f].mtime \in Nat /\ ybuild.edited[f] \in Nat
    BY DEF PageInv, YTypeOK, Versions
  <1>3. Second(ystate.lm) \in Nat /\ Second(ystate.lm) <= Second(yhigh)
    BY <1>2, SecondIs DEF PageInv, DatesArePast
  <1>4. YTypeOK' BY <1>1, <1>2, <1>3 DEF PageInv, YTypeOK
  <1>5. DatesArePast' /\ VersionsLag' BY <1>1, <1>3 DEF PageInv, DatesArePast, VersionsLag
  <1>6. MovedInFile'
    <2>1. \A f \in Dated : ~yfiles[f].back /\ ystate.content[f] # yfiles[f].version
                             => Second(ystate.lm) <= Second(yfiles[f].mtime)
      <3> TAKE f \in Dated
      <3> HAVE ~yfiles[f].back /\ ystate.content[f] # yfiles[f].version
      <3>1. ystate.lm <= yfiles[f].mtime /\ f \in Inputs BY MovedSinceDated DEF Dated
      <3> QED BY <3>1, <1>2, SecondIs
    <2> QED BY <2>1, <1>1 DEF PageInv, MovedInFile
  <1>7. MovedInBuild'
    <2>1. \A f \in Dated : ybuild.busy /\ ~ybuild.back[f] /\ ystate.content[f] # ybuild.dated[f]
                             => Second(ystate.lm) <= Second(ybuild.edited[f])
      <3> TAKE f \in Dated
      <3> HAVE ybuild.busy /\ ~ybuild.back[f] /\ ystate.content[f] # ybuild.dated[f]
      <3>1. ystate.lm <= ybuild.edited[f] /\ f \in Inputs BY DEF PageInv, MovedInBuild, Dated
      <3> QED BY <3>1, <1>2, SecondIs
    <2> QED BY <2>1, <1>1 DEF PageInv, MovedInBuild
  <1>8. MovedInState' BY <1>1 DEF MovedInState
  <1> QED BY <1>4, <1>5, <1>6, <1>7, <1>8 DEF PageInv

\* The client keeps its copy and remembers the answer.
LEMMA KeepsPage ==
  ASSUME PageInv, UNCHANGED <<yfiles, yhigh, ybuild, ystate>>, NEW a, NEW h,
         yclient' = [yclient EXCEPT !.answer = a, !.how = h]
  PROVE  PageInv'
  <1>1. /\ DOMAIN yclient' = {"content", "date", "answer", "how"}
        /\ yclient'.content = yclient.content /\ yclient'.date = yclient.date
    BY DEF PageInv, YTypeOK
  <1>2. YTypeOK' /\ DatesArePast' /\ VersionsLag' BY <1>1 DEF PageInv, YTypeOK, DatesArePast, VersionsLag
  <1>3. MovedInFile' /\ MovedInBuild' /\ MovedInState'
    BY <1>1 DEF PageInv, MovedInFile, MovedInBuild, MovedInState
  <1> QED BY <1>2, <1>3 DEF PageInv

\* What Revalidate does with each answer.
LEMMA RevalidateIs ==
  ASSUME NEW how, Revalidate(how)
  PROVE  LET r == Precondition(ETagOf(ystate), HttpDate(ystate.lm), Asked(how), "GET")
         IN /\ UNCHANGED <<yfiles, yhigh, ybuild, ystate>>
            /\ \/ r = "not_modified" /\ yclient' = [yclient EXCEPT !.answer = "304", !.how = how]
               \/ r = "failed" /\ yclient' = [yclient EXCEPT !.answer = "412", !.how = how]
               \/ r = "proceed" /\ TakePage(how)
  BY DEF Revalidate

\* An edit, a build, a request: what moved stays dated.
LEMMA PageStep ==
  ASSUME PageInv, [YNext]_yvars PROVE PageInv'
  <1>1. ASSUME NEW g \in Inputs, NEW t \in 0..YTime, Edit(g, t) PROVE PageInv'
    BY <1>1, EditKeeps
  <1>2. CASE StatInputs BY <1>2, StatKeeps
  <1>3. CASE ReadInput BY <1>3, ReadKeeps
  <1>4. CASE RefuseBuild BY <1>4, RefuseKeeps
  <1>5. CASE InstallBuild BY <1>5, InstallKeeps
  <1>6. CASE FetchPage BY <1>6, TakesPage DEF FetchPage
  <1>7. ASSUME NEW how, Revalidate(how) PROVE PageInv'
    <2>1. UNCHANGED <<yfiles, yhigh, ybuild, ystate>> BY <1>7, RevalidateIs
    <2>2. \/ \E a : yclient' = [yclient EXCEPT !.answer = a, !.how = how]
          \/ TakePage(how)
      BY <1>7, RevalidateIs
    <2> QED BY <2>1, <2>2, TakesPage, KeepsPage
  <1>8. CASE UNCHANGED yvars
    BY <1>8 DEF yvars, PageInv, YTypeOK, DatesArePast, VersionsLag, MovedInFile, MovedInBuild, MovedInState
  <1> QED BY <1>1, <1>2, <1>3, <1>4, <1>5, <1>6, <1>7, <1>8 DEF YNext

\* One step's answer is honest.
HonestStep ==
    LET how == yclient'.how
        told == yclient'.answer = IF how \in {"match", "since"} THEN "200" ELSE "304"
        same(f) == yclient.content[f] = ystate.content[f]
        escapes(f) == \/ Second(ystate.edited[f]) = yclient.date
                      \/ ystate.content[f] # ystate.dated[f]
                      \/ ystate.back[f]
    IN yclient' # yclient /\ yclient'.answer # "none" =>
          /\ told /\ how \in ByTag => \A f \in Inputs : same(f)
          /\ told /\ how \in ByDate => \A f \in Dated : same(f) \/ escapes(f)
          /\ ~told /\ how = "match" => \E f \in Inputs : ~same(f)

\* What a revalidation compares: the tag it sends is of the page it was given, and a page's
\* own tag is strong.
LEMMA TagsCompare ==
  ASSUME PageInv, NEW how, NEW strong \in BOOLEAN, how = "weak" => ~strong
  PROVE  ListContains(Asked(how).tags, ETagOf(ystate), strong) <=> (yclient.content = ystate.content)
  <1> DEFINE t == [value |-> yclient.content, weak |-> how = "weak"]
  <1>1. Asked(how).tags = {t} BY DEF Asked
  <1>2. t.value = yclient.content /\ (t.weak <=> how = "weak") OBVIOUS
  <1>3. ETagOf(ystate).value = ystate.content /\ ~ETagOf(ystate).weak BY DEF ETagOf
  <1> HIDE DEF t
  <1>4. StrongEq(t, ETagOf(ystate)) <=> (how # "weak" /\ yclient.content = ystate.content)
    BY <1>2, <1>3, Zenon DEF StrongEq
  <1>5. WeakEq(t, ETagOf(ystate)) <=> (yclient.content = ystate.content)
    BY <1>2, <1>3, Zenon DEF WeakEq
  <1>6. CASE strong = TRUE BY <1>1, <1>4, <1>6 DEF ListContains
  <1>7. CASE strong = FALSE BY <1>1, <1>5, <1>7 DEF ListContains
  <1> QED BY <1>6, <1>7

\* A page whose date is no newer than the client's: what moved escapes the date.
LEMMA DatesCompare ==
  ASSUME PageInv, Second(ystate.lm) <= yclient.date, NEW f \in Dated,
         yclient.content[f] # ystate.content[f], ystate.content[f] = ystate.dated[f], ~ystate.back[f]
  PROVE  Second(ystate.edited[f]) = yclient.date
  <1>1. f \in Inputs BY DEF Dated
  <1>2. yclient.date <= Second(ystate.edited[f]) BY DEF PageInv, MovedInState
  <1>3. ystate.edited[f] <= ystate.lm BY DEF PageInv, DatesArePast
  <1>4. ystate.edited[f] \in Nat /\ ystate.lm \in Nat /\ yclient.date \in Nat
    BY <1>1 DEF PageInv, YTypeOK, Versions
  <1>5. Second(ystate.edited[f]) <= Second(ystate.lm) /\ Second(ystate.edited[f]) \in Nat /\ Second(ystate.lm) \in Nat
    BY <1>3, <1>4, SecondIs
  <1> QED BY <1>2, <1>4, <1>5

\* Every answer is honest, whatever was edited before it.
LEMMA AnswerIsHonest ==
  ASSUME PageInv, YNext PROVE HonestStep
  <1>0. (\A f \in Inputs : yclient.content[f] = ystate.content[f]) <=> yclient.content = ystate.content
    BY DEF PageInv, YTypeOK, Versions
  <1>1. CASE StatInputs \/ ReadInput \/ RefuseBuild \/ (\E f \in Inputs, t \in 0..YTime : Edit(f, t))
    BY <1>1 DEF StatInputs, ReadInput, RefuseBuild, Edit, HonestStep
  <1>2. CASE InstallBuild
    <2>1. yclient'.answer = "none" BY <1>2 DEF InstallBuild, PageInv, YTypeOK
    <2> QED BY <2>1 DEF HonestStep
  <1>3. CASE FetchPage
    <2>1. yclient'.how = "get" /\ "get" \notin ByTag /\ "get" \notin ByDate
      BY <1>3 DEF FetchPage, TakePage, ByTag, ByDate
    <2> QED BY <2>1 DEF HonestStep
  <1>4. ASSUME NEW how \in ByTag \cup ByDate, Revalidate(how) PROVE HonestStep
    <2> DEFINE r == Precondition(ETagOf(ystate), HttpDate(ystate.lm), Asked(how), "GET")
               eq == yclient.content = ystate.content
    <2>1. \/ r = "not_modified" /\ yclient' = [yclient EXCEPT !.answer = "304", !.how = how]
          \/ r = "failed" /\ yclient' = [yclient EXCEPT !.answer = "412", !.how = how]
          \/ r = "proceed" /\ TakePage(how)
      BY <1>4, RevalidateIs
    <2>2. Asked(how).star = FALSE /\ Asked(how).date = yclient.date BY DEF Asked
    <2>6. /\ r = "not_modified" => yclient'.how = how /\ yclient'.answer = "304"
          /\ r = "failed" => yclient'.how = how /\ yclient'.answer = "412"
          /\ r = "proceed" => yclient'.how = how /\ yclient'.answer = "200"
          /\ r \in {"not_modified", "failed", "proceed"}
      <3> HIDE DEF r
      <3>1. CASE r = "not_modified" /\ yclient' = [yclient EXCEPT !.answer = "304", !.how = how]
        BY <3>1 DEF PageInv, YTypeOK
      <3>2. CASE r = "failed" /\ yclient' = [yclient EXCEPT !.answer = "412", !.how = how]
        BY <3>2 DEF PageInv, YTypeOK
      <3>3. CASE r = "proceed" /\ TakePage(how) BY <3>3 DEF TakePage
      <3> QED BY <2>1, <3>1, <3>2, <3>3
    <2>3. CASE how \in {"tag", "weak", "both"}
      <3>1. "inm" \in Asked(how).given /\ "im" \notin Asked(how).given /\ "ius" \notin Asked(how).given
        BY <2>3 DEF Asked
      <3>2. ListContains(Asked(how).tags, ETagOf(ystate), FALSE) <=> eq BY TagsCompare
      <3>3. r = IF eq THEN "not_modified" ELSE "proceed" BY <2>2, <3>1, <3>2 DEF Precondition
      <3> HIDE DEF r, eq
      <3>4. yclient'.how = how /\ (yclient'.answer = "304" => eq) BY <2>6, <3>3
      <3>5. how \notin ByDate /\ how \notin {"match", "since"} BY <2>3 DEF ByDate
      <3> QED BY <3>4, <3>5, <1>0 DEF HonestStep, eq
    <2>4. CASE how = "match"
      <3>1. "inm" \notin Asked(how).given /\ "im" \in Asked(how).given /\ "ims" \notin Asked(how).given
        BY <2>4 DEF Asked
      <3>2. ListContains(Asked(how).tags, ETagOf(ystate), TRUE) <=> eq BY <2>4, TagsCompare
      <3>3. r = IF eq THEN "proceed" ELSE "failed" BY <2>2, <3>1, <3>2 DEF Precondition
      <3> HIDE DEF r, eq
      <3>4. yclient'.how = how /\ (yclient'.answer = "200" <=> eq) BY <2>6, <3>3
      <3>5. how \notin ByDate BY <2>4 DEF ByDate
      <3> QED BY <2>4, <3>4, <3>5, <1>0 DEF HonestStep, eq
    <2>5. CASE how \in {"date", "since"}
      <3> DEFINE old == Second(ystate.lm) <= yclient.date
      <3>1. how \notin ByTag /\ how # "match" BY <2>5 DEF ByTag
      <3>2. (how = "date" /\ r = "not_modified") => old
        <4>1. how = "date" => Asked(how).given = {"ims"} BY DEF Asked
        <4> QED BY <2>2, <4>1 DEF Precondition, HttpDate
      <3>3. (how = "since" /\ r = "proceed") => old
        <4>1. how = "since" => Asked(how).given = {"ius"} BY DEF Asked
        <4>2. ystate.lm \in Nat /\ yclient.date \in Nat BY DEF PageInv, YTypeOK
        <4>3. Second(ystate.lm) \in Nat BY <4>2, SecondIs
        <4>4. (how = "since" /\ r = "proceed") => ~(Second(ystate.lm) > yclient.date)
          BY <2>2, <4>1, Zenon DEF Precondition, HttpDate
        <4> HIDE DEF r
        <4> QED BY <4>2, <4>3, <4>4
      <3> HIDE DEF r
      <3>4. yclient'.how = how BY <2>6
      <3>5. yclient'.answer = (IF how = "since" THEN "200" ELSE "304") => old
        BY <2>5, <2>6, <3>2, <3>3
      <3>6. old => \A f \in Dated : \/ yclient.content[f] = ystate.content[f]
                                    \/ Second(ystate.edited[f]) = yclient.date
                                    \/ ystate.content[f] # ystate.dated[f]
                                    \/ ystate.back[f]
        BY DatesCompare
      <3> HIDE DEF old
      <3> QED BY <2>5, <3>1, <3>4, <3>5, <3>6 DEF HonestStep
    <2> QED BY <2>3, <2>4, <2>5 DEF ByTag, ByDate
  <1> QED BY <1>1, <1>2, <1>3, <1>4 DEF YNext

\* A client is told that its copy is the page only in truth, for any number of edits of any
\* input with any dates, in the middle of a build too; by date, up to the named exceptions.
THEOREM NotModifiedIsHonest == YSpec => YNotModifiedIsHonest
  <1>1. YInit => PageInv
    <2> SUFFICES ASSUME YInit PROVE PageInv OBVIOUS
    <2>1. /\ AllOf(0) \in Versions /\ AllOf(FALSE) \in Flags
          /\ \A f \in Inputs : AllOf(0)[f] = 0
      BY DEF AllOf, Versions, Flags
    <2>2. \A f \in Inputs : yfiles[f].mtime = 0 /\ yfiles[f].version = 0 BY DEF YInit, AllOf
    <2>3. yfiles \in [Inputs -> [mtime : Nat, version : Nat, back : BOOLEAN]] BY DEF YInit, AllOf
    <2>4. /\ ystate \in [content : Versions, lm : Nat, dated : Versions, edited : Versions, back : Flags]
          /\ ystate.content = AllOf(0) /\ ystate.lm = 0 /\ ystate.dated = AllOf(0) /\ ystate.edited = AllOf(0)
      BY <2>1 DEF YInit
    <2>5. /\ DOMAIN yclient = {"content", "date", "answer", "how"}
          /\ yclient.content = AllOf(0) /\ yclient.date = 0
      BY DEF YInit
    <2>6. Second(0) = 0 /\ Dated \subseteq Inputs BY DEF Second, Dated
    <2>7. ybuild = NoBuild /\ yhigh = 0 BY DEF YInit
    <2>8. YTypeOK BY <2>1, <2>3, <2>4, <2>5, <2>7, NoBuildIs DEF YTypeOK
    <2>9. DatesArePast BY <2>1, <2>2, <2>4, <2>5, <2>6, <2>7, NoBuildIs DEF DatesArePast
    <2>10. VersionsLag BY <2>1, <2>2, <2>4, <2>7, NoBuildIs DEF VersionsLag
    <2>11. MovedInFile /\ MovedInBuild /\ MovedInState
      BY <2>1, <2>2, <2>4, <2>5, <2>6, <2>7, NoBuildIs DEF MovedInFile, MovedInBuild, MovedInState
    <2> QED BY <2>8, <2>9, <2>10, <2>11 DEF PageInv
  <1>2. PageInv /\ [YNext]_yvars => [HonestStep]_yvars BY AnswerIsHonest
  <1>3. YNotModifiedIsHonest <=> [][HonestStep]_yvars BY DEF YNotModifiedIsHonest, HonestStep
  <1> QED BY <1>1, <1>2, <1>3, PageStep, PTL DEF YSpec
=============================================================================
