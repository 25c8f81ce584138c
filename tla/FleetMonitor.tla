---------------------------- MODULE FleetMonitor ----------------------------
(***************************************************************************)
(* m6-monitor without its history: the poller thread that reads the fleet, *)
(* one thread per node and then one per tunnel (poll.rs, tunnel.rs), builds *)
(* the digest (digest.rs) and publishes it as the snapshot every route     *)
(* answers from (main.rs, check.rs).                                       *)
(*                                                                         *)
(* What a node answers is free, within Perfs; figures are reduced to what  *)
(* the digest's thresholds tell apart.  Each request costs up to the       *)
(* timeout, so a poll has a duration.  A tunnel's last handshake moves     *)
(* when a probe gets through and the session is Rekey old; a privileged    *)
(* timer copies it to the handshakes file the monitor reads.               *)
(***************************************************************************)
EXTENDS Integers, FiniteSets, FiniteSetsExt

CONSTANTS
    FNodes,         \* the nodes of [monitor]
    Tunnelled,      \* those with a tunnel
    Keyless,        \* those whose tunnel has no public_key
    Unpeered,       \* those whose public_key is no peer of the monitor's host
    Tokenless,      \* those whose perf token cannot be read
    Perfs,          \* the /perf reports a node may give
    Observed(_),    \* bound: the readings an instance lets happen
    Files,          \* the config files an operator may write
    HeaderChecks,   \* how many [[header_check]] apply to every node
    Timeout,
    Rekey,          \* WireGuard's, 120 s
    Margin,         \* MIN_HANDSHAKE_MARGIN_S
    FTime           \* bound on the clock

ASSUME FleetAssumption ==
    /\ Tunnelled \subseteq FNodes /\ Tokenless \subseteq FNodes
    /\ Keyless \subseteq Tunnelled /\ Unpeered \subseteq Tunnelled
    /\ FNodes # {} /\ IsFiniteSet(FNodes)
    /\ {HeaderChecks, Timeout, Rekey, Margin, FTime} \subseteq Nat
    /\ \A f \in Files : {f.parses, f.wg} \subseteq BOOLEAN /\ f.interval \in Nat \ {0} /\ f.maxAge \in Nat

\* A /perf report: its figures as the digest's thresholds tell them apart, a
\* certificate by the days it has left (0 expired, 1 inside the warning).
ASSUME PerfAssumption ==
    \A p \in Perfs :
        /\ p.certs \in SUBSET Nat
        /\ {p.unreadable, p.https, p.errors} \subseteq BOOLEAN
        /\ p.pools \in {"live", "dead"} /\ p.host \in {"fine", "strained"}
        /\ p.reopen \in {"fine", "late", "failed"}

VARIABLES
    ffile,      \* the config file now
    finterval,  \* poll_interval_s as read at start
    fpoll,      \* the poll in progress
    fsnap,      \* MonitorState.latest
    fshake,     \* when each tunnel last shook hands, -1 never
    fwg,        \* the handshakes file: [at, shake]
    fnow,
    fhist       \* history variables of the properties

fvars == <<ffile, finterval, fpoll, fsnap, fshake, fwg, fnow, fhist>>

NoSnap == [at |-> -1, level |-> 0]
Idle == [pc |-> "sleep"]
NoTunnel == [probe |-> "none", handshake |-> "none"]
NoPerf == [node |-> "unread"]
NoExpiry == -1
LevelOk == 0
LevelWarn == 1
LevelFault == 2

----------------------------------------------------------------------------
(* Fleet::from_config: a handshake limit the poll cycle cannot meet is      *)
(* refused, and with it the whole poll.  The interval is the file's own.    *)
LimitNoMargin(f) == Tunnelled = {} \/ f.maxAge >= f.interval + Timeout
LimitAccepted(f) == Tunnelled = {} \/ f.maxAge >= f.interval + Timeout + Margin
FromConfig(f) == f.parses /\ LimitAccepted(f)

----------------------------------------------------------------------------
(* poll::node.  A failed /health ends the reading; a body that does not     *)
(* parse makes the node unreachable and the rest is read all the same.      *)
(* Without a token only /health is read.                                    *)

Unreachable(r) == r.health \in {"error", "garbage", "panic"}

Reading(h, p, t, hc, s) ==
    [health |-> h, perf |-> p, traffic |-> t, headers |-> hc, spent |-> s, tunnel |-> NoTunnel]

Tokens(n) == IF n \in Tokenless THEN {} ELSE {"token"}
DeadReadings == {Reading(h, NoPerf, "none", "none", Timeout) : h \in {"error", "panic"}}
HealthOnly == {Reading(h, NoPerf, "none", "none", s) : h \in {"garbage", "ok"}, s \in {0, Timeout}}
\* /health, /perf, /traffic and the header checks each have their own timeout,
\* which the slowest answer, good or bad, comes within.
FullReadings ==
    {Reading(h, p, t, hc, s) : h \in {"garbage", "ok", "degraded"}, p \in {NoPerf} \cup Perfs,
        t \in {"fine", "quiet", "none"}, hc \in {"pass", "fault"},
        s \in {0, (3 + HeaderChecks) * Timeout}}
ReadingsOf(n) ==
    {r \in DeadReadings \cup (IF Tokens(n) = {} THEN HealthOnly ELSE FullReadings) : Observed(r)}

----------------------------------------------------------------------------
(* tunnel.rs: the probe's outcome, and what handshake_for makes of the      *)
(* handshakes file.  load reads the file and judges its age first: the file *)
(* may not be configured, not be there or not parse.                        *)
Answers(out) == out \in {"connected", "refused"}
ProbeOutcomes == {"connected", "refused", "no_answer", "failed"}

Sources(f) == IF f.wg THEN {"read", "file missing", "file error"} ELSE {"no file set"}
FileProblems == {"no file set", "file missing", "file error", "file stale"}
PeerProblems == {"no public key", "peer absent", "never", "old"}

PeerHandshake(n, limit) ==
    CASE n \in Keyless -> "no public key"
      [] n \in Unpeered \ Keyless -> "peer absent"
      [] n \notin Keyless \cup Unpeered /\ fwg.shake[n] < 0 -> "never"
      [] n \notin Keyless \cup Unpeered /\ fwg.shake[n] >= 0 /\ fnow - fwg.shake[n] > limit -> "old"
      [] OTHER -> "ok"

HandshakeFor(n, src, limit) ==
    CASE src # "read" -> src
      [] src = "read" /\ fnow - fwg.at > limit -> "file stale"
      [] OTHER -> PeerHandshake(n, limit)

\* A probe thread that panics has probed nothing and read nothing.
TunnelReadingOf(n, out, src, limit) ==
    IF out = "panicked" THEN [probe |-> "failed", handshake |-> "unknown"]
    ELSE [probe |-> out, handshake |-> HandshakeFor(n, src, limit)]

----------------------------------------------------------------------------
(* digest::build: the findings of one set of readings. *)

Find(level, n, what) == {[level |-> level, node |-> n, what |-> what]}

TunnelFindings(n, t) ==
    (IF t.probe \in {"no_answer", "failed"} THEN Find(LevelFault, n, "tunnel did not answer") ELSE {})
    \cup (IF t.handshake \in PeerProblems THEN Find(LevelFault, n, "handshake") ELSE {})

\* A fault of the file itself is one finding for the fleet.
FileFindings(rs) ==
    IF \E n \in FNodes : rs[n].tunnel.handshake \in FileProblems
    THEN Find(LevelFault, "monitor", "handshakes file") ELSE {}

LogReopenFindings(n, p) ==
    (IF p.reopen = "late" THEN Find(LevelFault, n, "log not reopened") ELSE {})
    \cup (IF p.reopen = "failed" THEN Find(LevelFault, n, "log reopen failed") ELSE {})

PoolFindings(n, p) ==
    (IF p.pools = "dead" THEN Find(LevelFault, n, "pool has no live member") ELSE {})
    \cup (IF p.errors THEN Find(LevelWarn, n, "backend errors") ELSE {})

HostFindings(n, p) ==
    IF p.host = "strained" THEN Find(LevelWarn, n, "load, memory, disk or heat") ELSE {}

\* The soonest expiry of the certificates a node serves; none when one is unreadable.
CertExpiry(p) == IF p.unreadable \/ p.certs = {} THEN NoExpiry ELSE Min(p.certs)
ExpectsTls(p) == p.https \/ p.certs # {} \/ p.unreadable

CertFindingsNoReport(n, p) ==
    IF CertExpiry(p) = 0 THEN Find(LevelFault, n, "certificate expired") ELSE {}
CertFindings(n, p) ==
    CASE ExpectsTls(p) /\ CertExpiry(p) = NoExpiry -> Find(LevelWarn, n, "no certificate expiry")
      [] ExpectsTls(p) /\ CertExpiry(p) = 0 -> Find(LevelFault, n, "certificate expired")
      [] ExpectsTls(p) /\ CertExpiry(p) = 1 -> Find(LevelWarn, n, "certificate expires soon")
      [] OTHER -> {}

NameFindings(n, p) ==
    IF p.node = "another" THEN Find(LevelWarn, n, "node calls itself") ELSE {}

QuietLogFindings(n, r) ==
    IF r.traffic = "quiet" THEN Find(LevelFault, n, "main log silent") ELSE {}

NodeFindings(n, r) ==
    TunnelFindings(n, r.tunnel) \cup
    IF Unreachable(r) THEN Find(LevelFault, n, "unreachable")
    ELSE (IF r.health = "degraded" THEN Find(LevelFault, n, "degraded") ELSE {})
         \cup (IF r.perf = NoPerf THEN Find(LevelWarn, n, "no /perf")
               ELSE LogReopenFindings(n, r.perf) \cup PoolFindings(n, r.perf)
                    \cup HostFindings(n, r.perf) \cup CertFindings(n, r.perf)
                    \cup NameFindings(n, r.perf))
         \cup QuietLogFindings(n, r)

\* The nodes whose /perf is known are compared with each other.
Reporting(rs) == {n \in FNodes : ~Unreachable(rs[n]) /\ rs[n].perf # NoPerf}

DriftFindings(rs) ==
    LET versions == {rs[n].perf.version : n \in Reporting(rs)}
        hashes == {rs[n].perf.hash : n \in Reporting(rs)}
    IN  CASE Cardinality(versions) > 1 -> Find(LevelWarn, "fleet", "version drift")
          [] Cardinality(versions) = 1 /\ Cardinality(hashes) > 1 ->
                Find(LevelWarn, "fleet", "build drift")
          [] OTHER -> {}

Certified(rs) == {n \in Reporting(rs) : CertExpiry(rs[n].perf) # NoExpiry}
Sharing(rs, at) == {n \in Certified(rs) : CertExpiry(rs[n].perf) = at}
Expiries(rs) == {CertExpiry(rs[n].perf) : n \in Certified(rs)}

\* Two expiries, one of them shared: the nodes off the newest are behind.
BehindMajority(rs) ==
    LET largest == Max({Cardinality(Sharing(rs, at)) : at \in Expiries(rs) \cup {NoExpiry}})
    IN  {n \in Certified(rs) :
            Cardinality(Sharing(rs, CertExpiry(rs[n].perf))) < largest}
Behind(rs) ==
    IF Cardinality(Expiries(rs)) > 1 /\ \E at \in Expiries(rs) : Cardinality(Sharing(rs, at)) > 1
    THEN {n \in Certified(rs) : CertExpiry(rs[n].perf) < Max(Expiries(rs))} ELSE {}

LevelOf(found) == Max({f.level : f \in found} \cup {LevelOk})

DigestBuild(rs) ==
    (UNION {NodeFindings(n, rs[n]) : n \in FNodes})
    \cup DriftFindings(rs)
    \cup (IF Behind(rs) # {} THEN Find(LevelWarn, "fleet", "certificate behind") ELSE {})
    \cup FileFindings(rs)

\* check::render's verdict.
HeaderFaults(rs) == {n \in FNodes : rs[n].headers = "fault"}
SaysAllClear(rs, found) == found = {} /\ HeaderFaults(rs) = {}

----------------------------------------------------------------------------
(* The poller: read the config, poll the nodes, probe the tunnels, build,   *)
(* publish, sleep the interval it started with.                             *)

Sleep ==
    /\ fpoll.pc = "sleep" /\ fnow < fhist.wake /\ fnow < FTime
    /\ fnow' = fnow + 1
    /\ UNCHANGED <<ffile, finterval, fpoll, fsnap, fshake, fwg, fhist>>

\* A config that does not load is logged and the poll skipped.
SkipPoll ==
    /\ fpoll.pc = "sleep" /\ fnow = fhist.wake /\ ~FromConfig(ffile)
    /\ fhist' = [fhist EXCEPT !.wake = fnow + finterval, !.skipped = TRUE]
    /\ UNCHANGED <<ffile, finterval, fpoll, fsnap, fshake, fwg, fnow>>

\* The node threads run side by side: the slowest is what the poll waits for.
PollFleet ==
    /\ fpoll.pc = "sleep" /\ fnow = fhist.wake /\ FromConfig(ffile)
    /\ \E rs \in [FNodes -> UNION {ReadingsOf(n) : n \in FNodes}] :
          /\ \A n \in FNodes : rs[n] \in ReadingsOf(n)
          /\ LET spent == Max({rs[n].spent : n \in FNodes})
             IN  /\ fpoll' = [pc |-> "tunnels", readings |-> rs, file |-> ffile, spent |-> spent]
                 /\ fnow' = fnow + spent
    /\ UNCHANGED <<ffile, finterval, fsnap, fshake, fwg, fhist>>

\* tunnel::fleet reads the handshakes file and then probes; a probe that gets
\* through makes the two ends shake hands when the session is Rekey old.
ProbeTunnels ==
    /\ fpoll.pc = "tunnels"
    /\ \E out \in [Tunnelled -> ProbeOutcomes \cup {"panicked"}], src \in Sources(fpoll.file) :
         LET found(n) == TunnelReadingOf(n, out[n], src, fpoll.file.maxAge)
             spent == IF \E n \in Tunnelled : out[n] = "no_answer" THEN Timeout ELSE 0
         IN  /\ fpoll' = [fpoll EXCEPT
                    !.pc = "publish", !.spent = @ + spent,
                    !.readings = [n \in FNodes |->
                        IF n \in Tunnelled
                        THEN [fpoll.readings[n] EXCEPT !.tunnel = found(n)]
                        ELSE fpoll.readings[n]]]
             /\ fnow' = fnow + spent
             /\ fshake' = [n \in Tunnelled |->
                    IF Answers(out[n]) /\ (fshake[n] < 0 \/ fnow - fshake[n] >= Rekey)
                    THEN fnow ELSE fshake[n]]
             /\ fhist' = [fhist EXCEPT
                    !.quiet = @ \cup {n \in Tunnelled : ~Answers(out[n])},
                    !.late = @ \/ fnow - fwg.at >= finterval \/ fpoll.spent > Margin - Rekey]
    /\ UNCHANGED <<ffile, finterval, fsnap, fwg>>

SnapshotAtStart(ended, spent) == ended - spent
SnapshotAt(ended, spent) == ended

\* collect_from: the history's own finding, when it has one, is added.
Collected(rs, h) == Max({LevelOf(DigestBuild(rs)), h})

Publish ==
    /\ fpoll.pc = "publish"
    /\ \E h \in {LevelOk, LevelWarn} :
         fsnap' = [at |-> SnapshotAt(fnow, fpoll.spent),
                   level |-> Collected(fpoll.readings, h)]
    /\ fhist' = [fhist EXCEPT !.wake = fnow + finterval]
    /\ fpoll' = Idle
    /\ UNCHANGED <<ffile, finterval, fshake, fwg, fnow>>

----------------------------------------------------------------------------
(* The operator and the privileged timer. *)
EditFile ==
    /\ fpoll.pc = "sleep" /\ ffile' \in Files \ {ffile}
    /\ UNCHANGED <<finterval, fpoll, fsnap, fshake, fwg, fnow, fhist>>

Collect ==
    /\ fpoll.pc = "sleep" /\ fwg' = [at |-> fnow, shake |-> fshake] /\ fwg' # fwg
    /\ UNCHANGED <<ffile, finterval, fpoll, fsnap, fshake, fnow, fhist>>

----------------------------------------------------------------------------
(* The routes answer from the snapshot; MonitorState.age decides "stale".   *)

\* Mutant of Stale: one interval is enough.
StaleAtInterval(age) == age > finterval
Stale(age) == age > 3 * finterval

\* check_text, and digest_json with it.
CheckText == CASE fsnap = NoSnap -> [code |-> 503, stale |-> FALSE]
               [] OTHER -> [code |-> 200, stale |-> Stale(fnow - fsnap.at)]

FInit ==
    /\ ffile \in {f \in Files : FromConfig(f)} /\ finterval = ffile.interval
    /\ fpoll = Idle /\ fsnap = NoSnap
    /\ fshake = [n \in Tunnelled |-> 0] /\ fwg = [at |-> 0, shake |-> fshake]
    /\ fnow = 0 /\ fhist = [wake |-> 0, skipped |-> FALSE, quiet |-> {}, late |-> FALSE]

FNext == Sleep \/ SkipPoll \/ PollFleet \/ ProbeTunnels \/ Publish \/ EditFile \/ Collect
FSpec == FInit /\ [][FNext]_fvars

----------------------------------------------------------------------------
(* An all-clear means every node answered /health and /perf, nothing        *)
(* reported crossed a limit, its certificate expiry is known or it serves   *)
(* none, its tunnel answered and shook hands in time, and no two nodes      *)
(* disagree on what they run or serve (digest.rs build, check.rs render).   *)
(* A node's log is alive wherever /traffic was read; a node whose /traffic  *)
(* could not be read is let pass.                                           *)
FAllClearIsEarned ==
    (fpoll.pc = "publish" /\ SaysAllClear(fpoll.readings, DigestBuild(fpoll.readings))) =>
        LET rs == fpoll.readings IN
        \A n \in FNodes :
            /\ rs[n].health = "ok" /\ rs[n].perf # NoPerf
            /\ rs[n].traffic \in {"fine", "none"} /\ rs[n].headers # "fault"
            /\ rs[n].perf.pools = "live" /\ ~rs[n].perf.errors /\ rs[n].perf.host = "fine"
            /\ rs[n].perf.reopen = "fine"
            /\ ~rs[n].perf.unreadable /\ (rs[n].perf.https => rs[n].perf.certs # {})
            /\ \A c \in rs[n].perf.certs : c > 1
            /\ rs[n].tunnel.probe \in {"none", "connected", "refused"}
            /\ rs[n].tunnel.handshake \in {"none", "ok"}
            /\ \A m \in FNodes : /\ rs[m].perf.version = rs[n].perf.version
                                 /\ rs[m].perf.hash = rs[n].perf.hash

(* A node with the fleet's newest certificate is never reported as left    *)
(* behind by a renewal, and when an expiry is shared every node that has an *)
(* older one is, however many of them agree (digest.rs, by_expiry).        *)
FNewestCertificateIsRight ==
    fpoll.pc = "publish" =>
        LET rs == fpoll.readings
            expiry(n) == CertExpiry(rs[n].perf)
            newest == {n \in Certified(rs) : \A m \in Certified(rs) : expiry(m) <= expiry(n)}
        IN  /\ Behind(rs) \cap newest = {}
            /\ (\E n, m \in Certified(rs) : n # m /\ expiry(n) = expiry(m))
                  => Behind(rs) = Certified(rs) \ newest

(* While every poll runs, the snapshot replaced is never older than one    *)
(* sleep and one poll: /health, /perf, /traffic, the header checks and one  *)
(* probe, each within the timeout (main.rs, the poller thread).            *)
FReadingIsRecent ==
    (fpoll.pc = "publish" /\ fsnap # NoSnap /\ ~fhist.skipped) =>
        fnow - fsnap.at <= finterval + (4 + HeaderChecks) * Timeout

(* "The poller is failing" is said only when it is: while every poll runs  *)
(* and one takes no more than two intervals, no reading is called stale,   *)
(* whenever the routes are asked (main.rs, MonitorState::age, check_text). *)
FStaleMeansFailing ==
    (~fhist.skipped /\ (4 + HeaderChecks) * Timeout <= 2 * finterval) => ~CheckText.stale

(* A tunnel that answered every probe is never faulted for its handshake,  *)
(* across any number of polls, while the poll fits the minute of slack and *)
(* the timer wrote the file less than an interval ago, that is since the   *)
(* probe before: this is what the limit from_config enforces is for        *)
(* (fleet.rs, MIN_HANDSHAKE_MARGIN_S).                                      *)
FHealthyTunnelIsQuiet ==
    (fpoll.pc = "publish" /\ ~fhist.late /\ ~fhist.skipped /\ fpoll.file.interval = finterval) =>
        \A n \in Tunnelled \ fhist.quiet :
            fpoll.readings[n].tunnel.handshake \notin {"old", "never"}

(* Neither a false all-clear nor a false alarm.                            *)
FContract == FAllClearIsEarned /\ FNewestCertificateIsRight /\ FReadingIsRecent
             /\ FStaleMeansFailing /\ FHealthyTunnelIsQuiet
=============================================================================
