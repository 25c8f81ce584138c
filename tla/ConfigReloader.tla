--------------------------- MODULE ConfigReloader ---------------------------
(***************************************************************************)
(* m6-core's ConfigReloader (m6-core/src/watcher.rs): the object every m6   *)
(* process uses to learn that site.toml or its own config changed.  A      *)
(* watcher (inotify, kqueue) wakes the loop; `stat` fingerprints, compared  *)
(* on an event and once every RELOAD_POLL, decide what changed; a report is *)
(* made at once after quiet and held for RELOAD_DEBOUNCE after a report.    *)
(*                                                                         *)
(* The module also has the two things the reloader is used between: the    *)
(* files on disk, which anyone may write at any moment, and the loop that   *)
(* calls on_readable and tick with one `now` per iteration and reloads on   *)
(* a report.  What a reload does is left open (ReloadEnd): ServiceReload    *)
(* and EdgeReload say it for the services and for m6-http.                  *)
(***************************************************************************)
EXTENDS Integers, FiniteSets

CONSTANTS
    RELOAD_DEBOUNCE,   \* the settle window after a report
    RELOAD_POLL,       \* period of the fingerprint poll, longest hold
    RETRY_CAP,         \* longest delay before a failed reload is retried
    MAX_WAIT,          \* the loop's poll(2) timeout (100 ms, 10 ms at the edge)
    DueWakes,          \* the loop shortens that timeout to a report that is due
    MAX_RELOAD,        \* longest time a reload takes
    MaxTime,           \* bound: the clock stops here
    MaxWrites          \* bound: number of writes to the two files

ASSUME DebounceAssumption == RELOAD_DEBOUNCE \in Nat \ {0}
ASSUME PollAssumption     == RELOAD_POLL \in Nat /\ RELOAD_DEBOUNCE <= RELOAD_POLL
ASSUME CapAssumption      == RETRY_CAP \in Nat /\ RELOAD_POLL <= RETRY_CAP
ASSUME WaitAssumption     == MAX_WAIT \in Nat \ {0} /\ MAX_RELOAD \in Nat
                             /\ DueWakes \in BOOLEAN
ASSUME BoundAssumption    == MaxTime \in Nat /\ MaxWrites \in Nat

Files == {"site", "process"}
None  == -1            \* Option::None, of an Instant
Absent == 0            \* the fingerprint of a file `stat` cannot read

VARIABLES
    now,        \* the clock
    \* the file system
    fp,         \* fp[f]: what stat says of f, a fresh number per change
    sameFile,   \* site.toml and the process config are one file
    watching,   \* the watcher exists and still delivers events
    queue,      \* files named by an event not read yet
    writes,     \* number of writes so far
    \* ConfigReloader
    seen, pending, due, lastReport, nextPoll, failures, retrying,
    \* the loop
    pc,         \* "wait" in poll(2), "tick" after it, "reload" on a report
    deadline,   \* the clock cannot pass it before the loop's next step
    report,     \* what the last tick returned, while it is being acted on
    \* history
    dirty,      \* dirty[f]: when the file at f was first written since f was last
                \* reported, None if it was not or is gone
    reports,    \* number of reports so far
    retries     \* number of retries asked for so far

env      == <<fp, sameFile, watching, queue, writes>>
reloader == <<seen, pending, due, lastReport, nextPoll, failures, retrying>>
loop     == <<pc, deadline, report>>
history  == <<dirty, reports, retries>>
vars     == <<now, env, reloader, loop, history>>

Min2(a, b) == IF a < b THEN a ELSE b
Max2(a, b) == IF a < b THEN b ELSE a

-----------------------------------------------------------------------------
(* The reloader's operations, on the loop's `now`.                          *)

\* ConfigReloader::new.  The caller fingerprinted the files (Seen::read) before
\* it first read them, so a write since then is still to be found.
New ==
    /\ seen \in {s \in [Files -> {Absent, 1}] : s["process"] = 1}
    /\ pending = {}
    /\ due = None
    /\ lastReport = None
    /\ nextPoll = RELOAD_POLL
    /\ failures = 0
    /\ retrying = FALSE

\* Mutant of Hits: an event is only a hint, the fingerprint decides.
HitsByFingerprint(forced) == {f \in Files : fp[f] # seen[f]}

\* The files compare() marks: an event named them, or their fingerprint moved.
Hits(forced) == forced \cup {f \in Files : fp[f] # seen[f]}

\* ... and when one file serves as both, a change to it is a change to both.
Marked(forced) ==
    IF Hits(forced) # {} /\ sameFile /\ fp["site"] # Absent
    THEN Files ELSE Hits(forced)

\* Mutants of DueAt: the window slides with every change; there is no window.
DueSliding == IF lastReport # None THEN now + RELOAD_DEBOUNCE ELSE now
DueAtOnce == now

\* When compare() wants a change found now to be reported.
DueAt ==
    LET held == due # None /\ ~retrying
    IN  IF lastReport # None /\ (now < lastReport + RELOAD_DEBOUNCE \/ held)
        THEN Max2(now, Min2(now + RELOAD_DEBOUNCE, lastReport + RELOAD_POLL))
        ELSE now

\* The reloader after compare(now, forced), as a record.
Compared(forced) ==
    IF Hits(forced) = {}
    THEN [seen |-> seen, pending |-> pending, due |-> due,
          failures |-> failures, retrying |-> retrying]
    ELSE [seen |-> [f \in Files |-> IF f \in Hits(forced) THEN fp[f] ELSE seen[f]],
          pending |-> pending \cup Marked(forced),
          due |-> DueAt,
          failures |-> 0,
          retrying |-> FALSE]

\* on_readable: the queued events are read and named files are forced.
OnReadable ==
    LET c == Compared(queue)
    IN  /\ queue' = {}
        /\ seen' = c.seen
        /\ pending' = c.pending
        /\ due' = c.due
        /\ failures' = c.failures
        /\ retrying' = c.retrying
        /\ UNCHANGED <<lastReport, nextPoll>>

\* Mutant of Polled: the watcher is trusted, and nothing is polled.
NeverPolled ==
    [seen |-> seen, pending |-> pending, due |-> due,
     failures |-> failures, retrying |-> retrying]

\* The first half of tick: the poll, when its time has come.
Polled ==
    IF now >= nextPoll THEN Compared({})
    ELSE [seen |-> seen, pending |-> pending, due |-> due,
          failures |-> failures, retrying |-> retrying]

\* tick reports when, after the poll, the due time has come.
Reports == Polled.due # None /\ now >= Polled.due

TickReloader ==
    /\ seen' = Polled.seen
    /\ failures' = Polled.failures
    /\ nextPoll' = IF now >= nextPoll THEN now + RELOAD_POLL ELSE nextPoll
    /\ IF Reports
       THEN /\ due' = None
            /\ retrying' = FALSE
            /\ lastReport' = now
            /\ pending' = {}
       ELSE /\ due' = Polled.due
            /\ retrying' = Polled.retrying
            /\ pending' = Polled.pending
            /\ UNCHANGED lastReport

\* 1u32 << n for n in 0..6, then capped: one second doubling to RETRY_CAP.
Doubling == <<1, 2, 4, 8, 16, 32, 64>>

RetryDelay == Min2(RELOAD_POLL * Doubling[Min2(failures, 6) + 1], RETRY_CAP)

\* Mutant of Retry: the delay is taken off.
RetryInThePast(changed) ==
    /\ failures' = failures + 1
    /\ pending' = pending \cup changed
    /\ due' = now - RetryDelay - 1
    /\ retrying' = TRUE
    /\ UNCHANGED <<seen, lastReport, nextPoll>>

Retry(changed) ==
    /\ failures' = failures + 1
    /\ pending' = pending \cup changed
    /\ due' = now + RetryDelay
    /\ retrying' = TRUE
    /\ UNCHANGED <<seen, lastReport, nextPoll>>

\* timeout_ms: how long poll(2) may sleep.  m6-http does not call it: its loop
\* wakes on the 10 ms timeout of its own poller.
Timeout(d) ==
    IF DueWakes /\ d # None THEN Min2(MAX_WAIT, Max2(0, d - now)) ELSE MAX_WAIT

-----------------------------------------------------------------------------
(* The file system: external.                                               *)

\* The paths a change to f is a change to.
Touched(f) == IF sameFile THEN Files ELSE {f}

\* f is written, touched or replaced: its fingerprint moves and, if the watch is
\* live, an event names it ("full").  With coarse timestamps the fingerprint may
\* not move ("coarse"); a file truncated and still open moves it with no event,
\* as the inotify mask has no IN_MODIFY ("truncated").
Changes == {"full", "coarse", "truncated"}

Write(f, how) ==
    /\ writes < MaxWrites
    /\ how = "coarse" => watching
    /\ writes' = writes + 1
    /\ fp' = IF how = "coarse" /\ fp[f] # Absent THEN fp
             ELSE [g \in Files |-> IF g \in Touched(f) THEN 3 + writes ELSE fp[g]]
    /\ queue' = IF watching /\ how # "truncated" THEN queue \cup {f} ELSE queue
    /\ dirty' = [g \in Files |-> IF g \in Touched(f) /\ dirty[g] = None THEN now ELSE dirty[g]]
    /\ UNCHANGED <<now, sameFile, watching, reloader, loop, reports, retries>>

\* f is unlinked.  The inotify mask has no IN_DELETE: no event.  Nothing is left
\* to load, so nothing is owed a report until f is written again.
Remove(f) ==
    /\ writes < MaxWrites
    /\ fp[f] # Absent
    /\ writes' = writes + 1
    /\ fp' = [g \in Files |-> IF g \in Touched(f) THEN Absent ELSE fp[g]]
    /\ dirty' = [g \in Files |-> IF g \in Touched(f) THEN None ELSE dirty[g]]
    /\ UNCHANGED <<now, sameFile, watching, queue, reloader, loop, reports, retries>>

\* The watch stops delivering: a replaced directory, a failed add_watch.
LoseWatch ==
    /\ watching
    /\ watching' = FALSE
    /\ UNCHANGED <<now, fp, sameFile, queue, writes, reloader, loop, history>>

-----------------------------------------------------------------------------
(* The loop.                                                                *)

\* poll(2) returns: an event is readable, the timeout passed, or a client
\* connected, which may be at any time.  on_readable runs if an event is there.
PollReturn ==
    /\ pc = "wait"
    /\ IF queue # {} THEN OnReadable ELSE UNCHANGED <<queue, reloader>>
    /\ pc' = "tick"
    /\ deadline' = now
    /\ UNCHANGED <<now, fp, sameFile, watching, writes, report, history>>

\* tick(now) with the same now; a report is acted on before the next wait.
Tick ==
    /\ pc = "tick"
    /\ TickReloader
    /\ IF Reports
       THEN /\ pc' = "reload"
            /\ report' = Polled.pending
            /\ deadline' = now + MAX_RELOAD
            /\ dirty' = [f \in Files |-> IF f \in Polled.pending THEN None ELSE dirty[f]]
            /\ reports' = reports + 1
       ELSE /\ pc' = "wait"
            /\ deadline' = now + Timeout(due')
            /\ UNCHANGED <<report, dirty, reports>>
    /\ UNCHANGED <<now, env, retries>>

\* The reload is over: it may have asked for a retry of part of the report.
ReloadDone ==
    /\ pc = "reload"
    /\ pc' = "wait"
    /\ report' = {}
    /\ deadline' = now + Timeout(due')
    /\ UNCHANGED <<now, env, dirty, reports>>

NoRetry == UNCHANGED <<reloader, retries>>
AskRetry(changed) == Retry(changed) /\ retries' = retries + 1

ReloadEnd ==
    /\ \/ NoRetry
       \/ \E changed \in SUBSET Files : changed # {} /\ AskRetry(changed)
    /\ ReloadDone

\* Time passes while the loop sleeps or reloads, never past the moment poll(2)
\* returns: its timeout, or a readable event.
Advance ==
    /\ now < MaxTime
    /\ now < deadline
    /\ pc = "wait" => queue = {}
    /\ now' = now + 1
    /\ UNCHANGED <<env, reloader, loop, history>>

\* The process starts: a change since Seen::read counts as a write.
Init ==
    /\ now = 0
    /\ New
    /\ sameFile \in BOOLEAN
    /\ sameFile => seen["site"] = seen["process"]
    /\ fp \in [Files -> {Absent, 1, 2}]
    /\ \A f \in Files : fp[f] = Absent => seen[f] = Absent
    /\ sameFile => fp["site"] = fp["process"]
    /\ watching \in BOOLEAN
    /\ queue = {}
    /\ writes = Cardinality({f \in Files : fp[f] # seen[f]})
    /\ pc = "wait"
    /\ deadline = MAX_WAIT
    /\ report = {}
    /\ dirty = [f \in Files |-> IF fp[f] # seen[f] THEN 0 ELSE None]
    /\ reports = 0
    /\ retries = 0

Environment ==
    \/ \E f \in Files, how \in Changes : Write(f, how)
    \/ \E f \in Files : Remove(f)
    \/ LoseWatch

Next ==
    \/ Environment
    \/ PollReturn
    \/ Tick
    \/ ReloadEnd
    \/ Advance

Spec == Init /\ [][Next]_vars

-----------------------------------------------------------------------------
(* Properties.                                                              *)

TypeOK ==
    /\ now \in Nat
    /\ fp \in [Files -> Nat]
    /\ sameFile \in BOOLEAN
    /\ watching \in BOOLEAN
    /\ queue \in SUBSET Files
    /\ writes \in Nat
    /\ seen \in [Files -> Nat]
    /\ pending \in SUBSET Files
    /\ due \in Nat \cup {None}
    /\ lastReport \in Nat \cup {None}
    /\ nextPoll \in Nat
    /\ failures \in Nat
    /\ retrying \in BOOLEAN
    /\ pc \in {"wait", "tick", "reload"}
    /\ deadline \in Nat
    /\ report \in SUBSET Files
    /\ dirty \in [Files -> Nat \cup {None}]
    /\ reports \in Nat
    /\ retries \in Nat

\* Nothing is owed: every file was reported since its last write, no report is
\* due and no reload is under way.
Quiet == pending = {} /\ pc # "reload" /\ \A f \in Files : dirty[f] = None

\* A change is never lost (compare, tick): a file written since its last report
\* is marked pending, or is named by an event the loop has still to read, or has
\* a fingerprint the next poll will find moved.
NoLostChange ==
    \A f \in Files :
        dirty[f] # None =>
            \/ f \in pending
            \/ \E g \in queue : f \in Touched(g)
            \/ fp[f] # seen[f]

\* A pending change always has a time at which it will be reported, and there is
\* never a report of nothing (pending, due and retrying move together).
PendingIsScheduled ==
    /\ pending # {} <=> due # None
    /\ retrying => due # None

\* compare's comment: a held change is reported "never later than a second after
\* that report", however long the burst lasts and whatever backoff a failed
\* reload had reached when the change was found.
HeldAtMostAPoll ==
    due # None /\ ~retrying =>
        due <= now \/ (lastReport # None /\ due <= lastReport + RELOAD_POLL)

\* retry's promise: a failed reload is reported again no later than RETRY_CAP
\* from now.
RetriedWithinCap == due # None => due <= now + RETRY_CAP

\* What compare, tick and retry leave behind between them, in whatever order they
\* run: every pending change has a time, and it is near enough.
ScheduledInTime == PendingIsScheduled /\ HeldAtMostAPoll /\ RetriedWithinCap

\* Whatever happens to the watch, and whatever else is written meanwhile, every
\* write is reported within ReportBound.  A poll finds it within RELOAD_POLL, later
\* by the reload and the sleep the loop may be in; or the last report came just
\* before that poll, and other changes hold it for RELOAD_POLL more.
ReportBound == RELOAD_POLL + Max2(RELOAD_POLL, MAX_RELOAD) + MAX_WAIT
ReportedInTime ==
    \A f \in Files : dirty[f] # None => now <= dirty[f] + ReportBound

\* RELOAD_DEBOUNCE's comment: after a report there is a window of quiet.  Two
\* reports are never closer than the window, so a burst cannot make a process
\* reload in a loop.
ReportsAreSpaced ==
    [][ pc = "tick" /\ pc' = "reload"
        => lastReport = None \/ now >= lastReport + RELOAD_DEBOUNCE ]_vars

\* compare, tick and retry together: no change is lost, and every one that is
\* known of has a time at which it will be reported.
ReloaderContract == TypeOK /\ NoLostChange /\ ScheduledInTime
=============================================================================
