----------------------------- MODULE EdgeStats -----------------------------
(***************************************************************************)
(* The edge's own numbers: the counters and sample rings of m6-http        *)
(* stats.rs, the ten-second "periodic stats" line, and what /health and    *)
(* /perf answer from them (health.rs, m6-core monitoring.rs).              *)
(*                                                                         *)
(* One ring serves two readers: the line reports the samples added since   *)
(* the last line, /perf all the ring holds.  Every request, scrapes        *)
(* included, passes through ERecord when it is answered.                    *)
(***************************************************************************)
EXTENDS Integers, Sequences, FiniteSets, FiniteSetsExt, SequencesExt, TLC

CONSTANTS
    ERequests,         \* requests: [ns, hit, status, channel, backend]
    EHandshakes,       \* handshakes: [ns, channel, resumed]
    EScrapes,          \* callers of /perf: [ns, listed, internal, token, key, claim]
    EConfigs,          \* [peers, require, token]: the [health] section
    EVersions,         \* protocol versions in use
    RESERVOIR,
    CHANNEL_RESERVOIR,
    EMIT_INTERVAL,
    EMaxRecords,       \* bound: requests and scrapes
    EMaxHandshakes,    \* bound: handshakes on a channel
    EMaxTime           \* bound: the clock

ASSUME StatsAssumption ==
    /\ RESERVOIR \in Nat \ {0} /\ CHANNEL_RESERVOIR \in Nat \ {0}
    /\ EMIT_INTERVAL \in Nat /\ IsFiniteSet(EVersions)
    /\ EMaxRecords \in Nat /\ EMaxHandshakes \in Nat /\ EMaxTime \in Nat

VARIABLES
    estats,    \* struct Stats
    eline,     \* the last periodic line and the span of history it is about
    eperf,     \* the last /perf answer and the length of history it was made at
    econf,     \* the [health] section
    enow,      \* the clock
    ehist      \* history: what was recorded, in order

evars == <<estats, eline, eperf, econf, enow, ehist>>

\* Channel: a protocol version on the public or on an internal listener.
EChannels == EVersions \X {"external", "internal"}

ASSUME SamplesAssumption ==
    /\ \A r \in ERequests : r.ns \in Nat /\ r.hit \in BOOLEAN /\ r.channel \in EChannels
    /\ \A h \in EHandshakes : h.channel \in EChannels
    /\ \A q \in EScrapes : q.ns \in Nat

EMonitoring == {"health", "perf"}
SelfGenerated == {"cache", "method-check", "health", "perf", "error", "error-local"}

-----------------------------------------------------------------------------
(* Rings and percentiles                                                   *)

EmptyRing(cap) == [buf |-> [i \in 0..(cap - 1) |-> 0], idx |-> 0, count |-> 0, added |-> 0]

\* A sample of 0 ns is "not measured" and is not kept.
Push(r, cap, ns) ==
    IF ns = 0 THEN r
    ELSE [buf   |-> [r.buf EXCEPT ![r.idx] = ns],
          idx   |-> (r.idx + 1) % cap,
          count |-> Min({r.count + 1, cap}),
          added |-> r.added + 1]

\* Mutant: the window is read from the front of the buffer.
OldestFirst(r, cap, take) ==
    [k \in 1..Min({take, r.count, cap}) |-> r.buf[k - 1]]

\* percentiles_ring: the take newest, back from where the next write goes.
Newest(r, cap, take) ==
    [k \in 1..Min({take, r.count, cap}) |-> r.buf[(r.idx + cap - k) % cap]]

Percentiles(s) ==
    LET t == SortSeq(s, <)
        n == Len(s)
    IN  IF n = 0 THEN <<0, 0, 0, 0>>
        ELSE <<t[1], t[((n - 1) * 50) \div 100 + 1], t[((n - 1) * 99) \div 100 + 1], t[n]>>

EmptyDuration == [ring |-> EmptyRing(CHANNEL_RESERVOIR), total |-> 0, sum |-> 0, min |-> 0, max |-> 0]

\* DurationStats::record; min starts above every sample and is 0 with none.
Timed(d, ns) ==
    IF ns = 0 THEN d
    ELSE [ring  |-> Push(d.ring, CHANNEL_RESERVOIR, ns),
          total |-> d.total + 1,
          sum   |-> d.sum + ns,
          min   |-> IF d.total = 0 THEN ns ELSE Min({d.min, ns}),
          max   |-> Max({d.max, ns})]

-----------------------------------------------------------------------------
(* Stats::record                                                           *)

NoTally == [requests |-> 0, hits |-> 0, misses |-> 0, errors |-> 0]

EmptyChannel == [tally |-> NoTally,
                 hit |-> EmptyRing(CHANNEL_RESERVOIR), miss |-> EmptyRing(CHANNEL_RESERVOIR),
                 full |-> EmptyDuration, resumed |-> EmptyDuration]

NewStats ==
    [total |-> NoTally, window |-> NoTally, monitor |-> 0, windowMonitor |-> 0,
     byName |-> [b \in {r.backend : r \in ERequests} |-> 0],
     status |-> [s \in {r.status : r \in ERequests} |-> 0],
     hit |-> EmptyRing(RESERVOIR), miss |-> EmptyRing(RESERVOIR), polls |-> EmptyRing(RESERVOIR),
     channels |-> [c \in EChannels |-> EmptyChannel],
     lastEmit |-> 0]

One(b) == IF b THEN 1 ELSE 0

Tallied(t, r, failed) ==
    [requests |-> t.requests + 1, hits |-> t.hits + One(r.hit),
     misses |-> t.misses + One(~r.hit), errors |-> t.errors + One(failed)]

\* ChannelStats::record
OnChannel(c, r, failed) ==
    [c EXCEPT !.tally = Tallied(@, r, failed),
              !.hit      = IF r.hit THEN Push(@, CHANNEL_RESERVOIR, r.ns) ELSE @,
              !.miss     = IF r.hit THEN @ ELSE Push(@, CHANNEL_RESERVOIR, r.ns)]

\* /health and /perf are counted apart and touch no traffic counter.
Polled(s, r) ==
    [s EXCEPT !.monitor = @ + 1, !.windowMonitor = @ + 1, !.polls = Push(@, RESERVOIR, r.ns)]

Served(s, r) ==
    LET failed == r.status >= 500 /\ r.backend \notin SelfGenerated
    IN  [s EXCEPT !.total = Tallied(@, r, failed),
                  !.window = Tallied(@, r, failed),
                  !.byName[r.backend] = @ + One(failed),
                  !.status[r.status] = @ + 1,
                  !.hit  = IF r.hit THEN Push(@, RESERVOIR, r.ns) ELSE @,
                  !.miss = IF r.hit THEN @ ELSE Push(@, RESERVOIR, r.ns),
                  !.channels[r.channel] = OnChannel(@, r, failed)]

Recorded(s, r) == IF r.backend \in EMonitoring THEN Polled(s, r) ELSE Served(s, r)

ERecord ==
    /\ Len(ehist) < EMaxRecords
    /\ \E r \in ERequests :
           /\ estats' = Recorded(estats, r)
           /\ ehist' = Append(ehist, r)
    /\ UNCHANGED <<eline, eperf, econf, enow>>

\* Stats::record_handshake
Shaken(c, h) == [c EXCEPT !.resumed = IF h.resumed THEN Timed(@, h.ns) ELSE @,
                          !.full    = IF h.resumed THEN @ ELSE Timed(@, h.ns)]

RecordHandshake ==
    /\ \E h \in EHandshakes :
        /\ estats.channels[h.channel].full.total + estats.channels[h.channel].resumed.total
              < EMaxHandshakes
        /\ estats' = [estats EXCEPT !.channels[h.channel] = Shaken(@, h)]
    /\ UNCHANGED <<eline, eperf, econf, enow, ehist>>

-----------------------------------------------------------------------------
(* The periodic line                                                       *)

Window(s) == [tally |-> s.window, monitor |-> s.windowMonitor,
              hit  |-> Percentiles(Newest(s.hit, RESERVOIR, s.hit.added)),
              miss |-> Percentiles(Newest(s.miss, RESERVOIR, s.miss.added)),
              polls |-> Percentiles(Newest(s.polls, RESERVOIR, s.polls.added)),
              hitSamples |-> s.hit.added, missSamples |-> s.miss.added]

\* The window starts again; the rings are never cleared.
Emitted(s) ==
    [s EXCEPT !.window = NoTally, !.windowMonitor = 0, !.lastEmit = enow,
              !.hit.added = 0, !.miss.added = 0, !.polls.added = 0]

MaybeEmit ==
    /\ enow - estats.lastEmit >= EMIT_INTERVAL
    /\ eline' = [line |-> Window(estats), from |-> eline.to, to |-> Len(ehist)]
    /\ estats' = Emitted(estats)
    /\ UNCHANGED <<eperf, econf, enow, ehist>>

-----------------------------------------------------------------------------
(* /perf                                                                   *)

\* PerfAccess::refusal: no token configured hides the endpoint.
Refusal(token, presented) ==
    IF token = "none" THEN "disabled" ELSE IF presented = token THEN "ok" ELSE "unauthorised"

\* metrics_gate: the peer list first, then a role or the shared token.
EMetricsGate(c, q) ==
    IF c.peers /\ (q.internal \/ ~q.listed) THEN "disabled"
    ELSE IF c.require
         THEN IF ~q.key \/ q.claim = "none" THEN "unauthorised"
              ELSE IF q.claim = "ok" THEN "ok" ELSE "forbidden"
         ELSE Refusal(c.token, q.token)

\* A channel appears once it saw a request or a handshake.
Snapshot(s) ==
    [tally |-> s.total, monitor |-> s.monitor, byName |-> s.byName, status |-> s.status,
     hit  |-> Percentiles(Newest(s.hit, RESERVOIR, RESERVOIR)),
     miss |-> Percentiles(Newest(s.miss, RESERVOIR, RESERVOIR)),
     channels |-> {c \in EChannels : \/ s.channels[c].tally.requests > 0
                                     \/ s.channels[c].full.total > 0
                                     \/ s.channels[c].resumed.total > 0}]

\* The snapshot reads and resets nothing; the scrape itself is then recorded.
ScrapePerf ==
    /\ Len(ehist) < EMaxRecords
    /\ \E q \in EScrapes :
           LET gate == EMetricsGate(econf, q)
               poll == [ns |-> q.ns, hit |-> FALSE, backend |-> "perf"]
           IN  /\ eperf' = IF gate = "ok"
                           THEN [gate |-> gate, snap |-> <<Snapshot(estats)>>, at |-> Len(ehist)]
                           ELSE [gate |-> gate, snap |-> <<>>, at |-> Len(ehist)]
               /\ estats' = Polled(estats, poll)
               /\ ehist' = Append(ehist, poll)
    /\ UNCHANGED <<eline, econf, enow>>

ETick == enow < EMaxTime /\ enow' = enow + 1 /\ UNCHANGED <<estats, eline, eperf, econf, ehist>>

-----------------------------------------------------------------------------
EInit ==
    /\ estats = NewStats
    /\ eline = [line |-> Window(NewStats), from |-> 0, to |-> 0]
    /\ eperf = [gate |-> "none", snap |-> <<>>, at |-> 0]
    /\ econf \in EConfigs
    /\ enow = 0
    /\ ehist = <<>>

ENext == ERecord \/ RecordHandshake \/ MaybeEmit \/ ScrapePerf \/ ETick

ESpec == EInit /\ [][ENext]_evars

-----------------------------------------------------------------------------
(* Properties                                                              *)

\* The measured samples of a span of history, oldest first ...
Measured(r, hit) == r.ns > 0 /\ r.backend \notin EMonitoring /\ (r.hit <=> hit)
Sampled(hit, s, r) == IF Measured(r, hit) THEN Append(s, r.ns) ELSE s
Samples(h, hit) == FoldLeft(LAMBDA s, r : Sampled(hit, s, r), <<>>, h)

\* ... and the last n of them, newest first.
LastOf(s, n) == [k \in 1..Min({n, Len(s)}) |-> s[Len(s) + 1 - k]]

\* The requests of the site between two points of history.
SiteRequests(h, from, to, hit) ==
    {i \in (from + 1)..to : h[i].backend \notin EMonitoring /\ (h[i].hit <=> hit)}

\* The periodic line is about its own ten seconds and /perf about the newest
\* samples however old, from one ring: the line's percentiles are those of the
\* requests answered between it and the line before, whatever was scraped in
\* between and however often the ring wrapped, and /perf's are those of the
\* last RESERVOIR samples, however many lines were written since.
ELineIsExact ==
    LET span == SubSeq(ehist, eline.from + 1, eline.to)
    IN  /\ eline.line.tally.hits = Cardinality(SiteRequests(ehist, eline.from, eline.to, TRUE))
        /\ eline.line.tally.misses = Cardinality(SiteRequests(ehist, eline.from, eline.to, FALSE))
        /\ eline.line.hit = Percentiles(LastOf(Samples(span, TRUE), RESERVOIR))
        /\ eline.line.miss = Percentiles(LastOf(Samples(span, FALSE), RESERVOIR))

EPerfIsExact ==
    eperf.snap # <<>> =>
        LET past == SubSeq(ehist, 1, eperf.at)
        IN  /\ eperf.snap[1].hit = Percentiles(LastOf(Samples(past, TRUE), RESERVOIR))
            /\ eperf.snap[1].miss = Percentiles(LastOf(Samples(past, FALSE), RESERVOIR))

\* Every request of the site is counted once, as a hit or a miss and on one channel.
ETotalsAgree ==
    /\ estats.total.requests = SumFunction([c \in EChannels |-> estats.channels[c].tally.requests])
    /\ estats.total.requests = estats.total.hits + estats.total.misses

EReportsAreExact == ELineIsExact /\ EPerfIsExact /\ ETotalsAgree
=============================================================================
