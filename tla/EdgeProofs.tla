----------------------------- MODULE EdgeProofs -----------------------------
(***************************************************************************)
(* What the parts of the edge promise, for every value of the constants:   *)
(* nothing due waits longer than the event loop's cap (EventLoop), what    *)
(* runs is what the files on disk asked for (EdgeConfig), an HTTP/1.1      *)
(* request is answered at most once (Http11Conn), an HTTP/3 answer is      *)
(* whole (Http3Conn), what is private stays so and the rate limit holds    *)
(* (RequestPipeline), and a call to a URL backend is settled once, its     *)
(* credit kept and its answer delivered (H2Client), and over TLS no answer *)
(* that came fails (H2TlsClient).  The parts share no variable.            *)
(***************************************************************************)
EXTENDS EventLoop, EdgeConfig, Http11Conn, Http3Conn, RequestPipeline, H2Client,
        H2TlsClient, SequenceTheorems, FiniteSetTheorems, TLAPS

-----------------------------------------------------------------------------
(* EventLoop.                                                                *)

LoopTypeOK ==
    /\ oloop \in [pc : {"boot", "bind", "register", "wait", "handle", "drive", "exit"},
                  since : Nat, until : Nat,
                  batch : SUBSET (Listening \cup Clients \cup {"pool", "wake"})]
    /\ oready \subseteq Listening \cup Clients \cup {"pool", "wake"}
    /\ ofetch \in [Clients -> [stage : {"idle", "out", "arrived", "posted"}, at : Nat]]
    /\ odue \in [quic : Nat \cup {NoTimer}, rescan : Nat]
    /\ osig \in [up : BOOLEAN, flag : BOOLEAN, at : Nat]
    /\ onow \in Nat

\* The wait in hand is as long as WaitFor made it and no longer: QUIC's timer and TICK
\* both end it.
WaitIsBounded ==
    oloop.pc = "wait" =>
        /\ oloop.since <= onow /\ onow <= oloop.until /\ oloop.until <= oloop.since + TICK
        /\ odue.quic # NoTimer => oloop.until <= LMax(odue.quic, oloop.since)

\* What is posted while the loop waits was posted since the last drive, which took all
\* there was; and before the first wait nobody has asked for anything.
PostedSinceDrive ==
    \A c \in Clients :
        /\ oloop.pc = "wait" /\ ofetch[c].stage = "posted" => ofetch[c].at >= oloop.since
        /\ oloop.pc \in {"boot", "bind", "register"} => ofetch[c].stage = "idle"

LoopInv ==
    /\ LoopTypeOK
    /\ WaitIsBounded
    /\ PostedSinceDrive

\* The wait is a time, at most TICK, and does not pass QUIC's timer.
LEMMA WaitForOK ==
    ASSUME NEW n \in Nat, NEW quic \in Nat \cup {NoTimer}
    PROVE  /\ n + WaitFor(n, quic) \in Nat
           /\ n <= n + WaitFor(n, quic) /\ n + WaitFor(n, quic) <= n + TICK
           /\ quic # NoTimer => n + WaitFor(n, quic) <= LMax(quic, n)
BY LoopAssumption DEF WaitFor, LMin, LMax, NoTimer

\* The process starts outside the loop, with nobody connected.
LEMMA LoopInitInv == LoopInit => LoopInv
BY DEF LoopInit, LoopInv, LoopTypeOK, WaitIsBounded, PostedSinceDrive, NoTimer

\* Every step preserves it.
LEMMA LoopNextInv == LoopInv /\ [LoopNext]_loopvars => LoopInv'
<1> SUFFICES ASSUME LoopInv, [LoopNext]_loopvars PROVE LoopInv'
  OBVIOUS
<1> USE DEF LoopInv
<1>1. ASSUME NEW ok \in BOOLEAN, LInstall(ok) \/ LBind(ok) PROVE LoopInv'
  BY <1>1 DEF LInstall, LBind, LoopTypeOK, WaitIsBounded, PostedSinceDrive
<1>2. ASSUME NEW ok \in BOOLEAN, LRegister(ok) PROVE LoopInv'
  <2> USE <1>2 DEF LRegister
  <2>1. /\ onow + WaitFor(onow, odue.quic) \in Nat
        /\ onow <= onow + WaitFor(onow, odue.quic) /\ onow + WaitFor(onow, odue.quic) <= onow + TICK
        /\ odue.quic # NoTimer => onow + WaitFor(onow, odue.quic) <= LMax(odue.quic, onow)
    <3>1. onow \in Nat /\ odue.quic \in Nat \cup {NoTimer}
      BY DEF LoopTypeOK
    <3> QED BY <3>1, WaitForOK
  <2>2. LoopTypeOK'
    BY <2>1 DEF LoopTypeOK
  <2>3. WaitIsBounded'
    BY <2>1 DEF LoopTypeOK, WaitIsBounded
  <2>4. PostedSinceDrive'
    BY DEF LoopTypeOK, PostedSinceDrive
  <2> QED BY <2>2, <2>3, <2>4
<1>3. CASE PollReturns
  <2>1. PICK batch \in SUBSET oready :
            oloop' = [oloop EXCEPT !.pc = IF osig.flag THEN "exit" ELSE "handle", !.batch = batch]
    BY <1>3 DEF PollReturns, Batches
  <2>2. LoopTypeOK'
    BY <1>3, <2>1 DEF PollReturns, LoopTypeOK
  <2> QED BY <1>3, <2>1, <2>2 DEF PollReturns, LoopTypeOK, WaitIsBounded, PostedSinceDrive
<1>4. CASE HandleEvents
  <2>q. onow + 1 \in Nat /\ odue.quic \in Nat \cup {NoTimer}
    BY DEF LoopTypeOK
  <2>1. PICK quic \in Nat \cup {NoTimer} : odue' = [odue EXCEPT !.quic = quic]
    BY <1>4, <2>q DEF HandleEvents
  <2>2. oready' \subseteq oready
    BY <1>4 DEF HandleEvents
  <2>3. LoopTypeOK'
    BY <1>4, <2>1, <2>2 DEF HandleEvents, LoopTypeOK
  <2> QED BY <1>4, <2>3 DEF HandleEvents, LoopTypeOK, WaitIsBounded, PostedSinceDrive
<1>5. CASE DriveAll
  <2> DEFINE Timers == IF odue.quic \in 0..onow THEN {NoTimer, onow + 1} ELSE {odue.quic}
  <2>t. Timers \subseteq Nat \cup {NoTimer}
    BY DEF LoopTypeOK
  <2>1. PICK to \in [Clients -> {"idle", "out", "arrived", "posted"}],
             unread \in SUBSET {c \in Clients : ofetch[c].stage = "out"},
             quic \in Timers :
            /\ \A c \in Clients : to[c] \in Driven(c)
            /\ ofetch' = [c \in Clients |-> [stage |-> Resolved(to[c]),
                             at |-> IF to[c] = "arrived" THEN onow ELSE ofetch[c].at]]
            /\ oready' = oready \ ({"pool"} \cup (Clients \ unread))
            /\ odue' = [quic |-> quic, rescan |-> NextRescan]
            /\ oloop' = [oloop EXCEPT !.pc = "wait", !.since = onow,
                                      !.until = onow + WaitFor(onow, quic)]
    BY <1>5 DEF DriveAll
  <2> HIDE DEF Timers
  <2>q. quic \in Nat \cup {NoTimer}
    BY <2>1, <2>t
  <2>2. /\ onow + WaitFor(onow, quic) \in Nat
        /\ onow <= onow + WaitFor(onow, quic) /\ onow + WaitFor(onow, quic) <= onow + TICK
        /\ quic # NoTimer => onow + WaitFor(onow, quic) <= LMax(quic, onow)
    BY <2>q, WaitForOK DEF LoopTypeOK
  <2>3. UNCHANGED <<osig, onow>> /\ NextRescan \in Nat
    BY <1>5, LoopAssumption DEF DriveAll, NextRescan, LoopTypeOK
  <2>4. LoopTypeOK'
    <3>1. oloop' \in [pc : {"boot", "bind", "register", "wait", "handle", "drive", "exit"},
                      since : Nat, until : Nat,
                      batch : SUBSET (Listening \cup Clients \cup {"pool", "wake"})]
      BY <2>1, <2>2 DEF LoopTypeOK
    <3>2. ofetch' \in [Clients -> [stage : {"idle", "out", "arrived", "posted"}, at : Nat]]
      BY <2>1 DEF Resolved, LoopTypeOK
    <3> QED BY <2>1, <2>q, <2>3, <3>1, <3>2 DEF LoopTypeOK
  <2>5. WaitIsBounded'
    BY <2>1, <2>q, <2>2, <2>3 DEF LoopTypeOK, WaitIsBounded
  <2>6. PostedSinceDrive'
    <3> SUFFICES ASSUME NEW c \in Clients, ofetch'[c].stage = "posted"
                 PROVE  ofetch'[c].at >= onow
      BY <2>1 DEF PostedSinceDrive, LoopTypeOK
    <3>1. to[c] = "arrived"
      BY <2>1 DEF Resolved, Driven, LoopTypeOK
    <3> QED BY <2>1, <3>1 DEF LoopTypeOK
  <2> QED BY <2>4, <2>5, <2>6
<1>6. ASSUME NEW fd \in Listening \cup Clients, BecomesReady(fd) PROVE LoopInv'
  BY <1>6 DEF BecomesReady, Elsewhere, LoopTypeOK, WaitIsBounded, PostedSinceDrive
<1>7. ASSUME NEW c \in Clients, ThreadReplies(c) \/ PoolReplies(c) PROVE LoopInv'
  <2>1. PICK stage \in {"arrived", "posted"} : ofetch' = [ofetch EXCEPT ![c] = [stage |-> stage, at |-> onow]]
    BY <1>7 DEF ThreadReplies, PoolReplies
  <2>2. LoopTypeOK'
    BY <1>7, <2>1 DEF ThreadReplies, PoolReplies, Elsewhere, LoopTypeOK
  <2>3. WaitIsBounded'
    BY <1>7 DEF ThreadReplies, PoolReplies, Elsewhere, WaitIsBounded
  <2>4. PostedSinceDrive'
    <3>1. oloop' = oloop /\ ofetch[c].stage = "out"
      BY <1>7 DEF ThreadReplies, PoolReplies, Elsewhere
    <3> QED BY <2>1, <3>1 DEF PostedSinceDrive, WaitIsBounded, LoopTypeOK
  <2> QED BY <2>2, <2>3, <2>4
<1>8. CASE SetsFlag \/ WritesByte
  BY <1>8 DEF SetsFlag, WritesByte, Elsewhere, LoopTypeOK, WaitIsBounded, PostedSinceDrive
<1>9. CASE LoopTick
  BY <1>9 DEF LoopTick, LoopTypeOK, WaitIsBounded, PostedSinceDrive
<1>10. CASE UNCHANGED loopvars
  BY <1>10 DEF loopvars, LoopTypeOK, WaitIsBounded, PostedSinceDrive
<1> QED BY <1>1, <1>2, <1>3, <1>4, <1>5, <1>6, <1>7, <1>8, <1>9, <1>10 DEF LoopNext

\* event_loop: a loop that waits has left nothing that was due for longer than TICK, not
\* the reply of a thread that makes no descriptor ready, nor one the pool resolved after
\* its client was driven, a rescan, or a shutdown between its flag and its byte; and it
\* never sleeps past QUIC's timer.
THEOREM LoopIsNeverLate == LoopSpec => []LoopContract
<1>1. LoopInv => LoopContract
  <2> SUFFICES ASSUME LoopInv, oloop.pc = "wait" PROVE LoopContract
    BY DEF LoopContract
  <2>1. /\ oloop.since \in Nat /\ oloop.until \in Nat /\ onow \in Nat
        /\ oloop.since <= onow /\ onow <= oloop.until /\ oloop.until <= oloop.since + TICK
        /\ odue.quic # NoTimer => oloop.until <= LMax(odue.quic, oloop.since)
    BY DEF LoopInv, WaitIsBounded, LoopTypeOK
  <2>2. \A at \in Nat : onow - LMax(at, oloop.since) <= TICK
    BY <2>1, LoopAssumption DEF LMax
  <2>3. /\ osig.at \in Nat /\ odue.rescan \in Nat /\ odue.quic \in Nat \cup {NoTimer}
        /\ \A c \in Clients : ofetch[c].at \in Nat
    BY DEF LoopInv, LoopTypeOK
  <2>4. odue.quic # NoTimer => onow - LMax(odue.quic, oloop.since) <= 0
    BY <2>1, <2>3 DEF LMax
  <2>5. \A c \in Clients : ofetch[c].stage = "posted" => ofetch[c].at >= oloop.since
    BY DEF LoopInv, PostedSinceDrive
  <2> QED BY <2>2, <2>3, <2>4, <2>5 DEF LoopContract
<1>2. LoopSpec => []LoopInv
  BY LoopInitInv, LoopNextInv, PTL DEF LoopSpec
<1> QED BY <1>1, <1>2, PTL

-----------------------------------------------------------------------------
(* EdgeConfig.  The process's config and what was built from it agree, field  *)
(* by field: what a reload takes it also builds, and what it does not build   *)
(* again it carries over.                                                     *)

ConfigFields == {"node", "server", "auth", "metrics", "backends", "routes", "errors", "alog"}
RunFields == {"cfg", "routes", "pools", "errmode", "key", "listeners", "alog"}

ConfigInv ==
    kup = "up" =>
        /\ DOMAIN krun = RunFields
        /\ DOMAIN krun.cfg = ConfigFields
        /\ KConfigIsWhatRuns

\* What a file says has every field of a config.
LEMMA LoadedFields == ASSUME NEW d PROVE DOMAIN Load(d) = ConfigFields
BY DEF Load, ConfigFields

\* The certificate is not one of the listeners' keys.
LEMMA CertIsNotOpened ==
    ASSUME NEW server, NEW cert
    PROVE  [[server EXCEPT !.cert = cert] EXCEPT !.cert = "present"]
             = [server EXCEPT !.cert = "present"]
OBVIOUS

\* A reload of one file or of both leaves a config whose listeners and log are those
\* that are open, and whose other fields are the taken ones.
LEMMA CarriedOver ==
    ASSUME NEW running, NEW new, DOMAIN running = ConfigFields, DOMAIN new = ConfigFields
    PROVE  LET c == CarryRestartOnly(running, new)
           IN  /\ DOMAIN c = ConfigFields
               /\ [c.server EXCEPT !.cert = "present"] = [running.server EXCEPT !.cert = "present"]
               /\ c.alog = running.alog
               /\ c.routes = new.routes /\ c.backends = new.backends /\ c.errors = new.errors
<1> DEFINE c == CarryRestartOnly(running, new)
<1>1. /\ DOMAIN c = ConfigFields
      /\ c.server = [running.server EXCEPT !.cert = new.server.cert]
      /\ c.alog = running.alog
      /\ c.routes = new.routes /\ c.backends = new.backends /\ c.errors = new.errors
  BY DEF CarryRestartOnly, ConfigFields
<1> HIDE DEF c
<1> QED BY <1>1, CertIsNotOpened DEF c

\* What a reload of the system config takes leaves the site's fields.
LEMMA SiteFieldsStay ==
    ASSUME NEW running, NEW loaded, DOMAIN running = ConfigFields
    PROVE  LET c == TakeProcessOwned(running, loaded)
           IN  /\ DOMAIN c = ConfigFields
               /\ c.routes = running.routes /\ c.backends = running.backends
               /\ c.errors = running.errors
BY DEF TakeProcessOwned, ConfigFields

\* Starts, edits and reloads preserve it.
LEMMA ConfigNextInv == ConfigInv /\ [KNext]_kvars => ConfigInv'
<1> SUFFICES ASSUME ConfigInv, [KNext]_kvars PROVE ConfigInv'
  OBVIOUS
<1>1. CASE KStartUp
  <2>1. kup' = "up" => \E key : krun' = Built(Load(kdisk), key)
    BY <1>1 DEF KStartUp
  <2>2. ASSUME NEW key, krun' = Built(Load(kdisk), key) PROVE ConfigInv'
    BY <2>2, LoadedFields DEF Built, ConfigInv, KConfigIsWhatRuns, RunFields
  <2> QED BY <2>1, <2>2 DEF ConfigInv
<1>2. ASSUME NEW changed \in SUBSET {"site", "process"}, KReload(changed) PROVE ConfigInv'
  <2> DEFINE loaded == Load(kdisk)
             taken == IF "site" \in changed THEN loaded ELSE TakeProcessOwned(krun.cfg, loaded)
             new == CarryRestartOnly(krun.cfg, taken)
             key == ReloadPublicKey(new, kdisk.key)
  <2>1. /\ kup = "up" /\ kup' = "up"
        /\ \/ krun' = krun
           \/ /\ "site" \in changed
              /\ krun' = [krun EXCEPT !.cfg = new, !.routes = new.routes, !.pools = new.backends,
                                      !.errmode = new.errors, !.key = key]
           \/ /\ "site" \notin changed
              /\ krun' = [krun EXCEPT !.cfg = new, !.key = key]
    BY <1>2 DEF KReload
  <2>2. DOMAIN krun = RunFields /\ DOMAIN krun.cfg = ConfigFields /\ KConfigIsWhatRuns
    BY <2>1 DEF ConfigInv
  <2>3. DOMAIN taken = ConfigFields
    BY <2>2, LoadedFields, SiteFieldsStay
  <2>4. "site" \notin changed => /\ taken.routes = krun.cfg.routes
                                /\ taken.backends = krun.cfg.backends
                                /\ taken.errors = krun.cfg.errors
    BY <2>2, SiteFieldsStay
  <2> HIDE DEF taken
  <2>5. /\ DOMAIN new = ConfigFields
        /\ [new.server EXCEPT !.cert = "present"] = [krun.cfg.server EXCEPT !.cert = "present"]
        /\ new.alog = krun.cfg.alog
        /\ new.routes = taken.routes /\ new.backends = taken.backends /\ new.errors = taken.errors
    BY <2>2, <2>3, CarriedOver
  <2> HIDE DEF new, key
  <2>6. CASE krun' = krun
    BY <2>1, <2>2, <2>6 DEF ConfigInv, KConfigIsWhatRuns
  <2>7. CASE /\ "site" \in changed
             /\ krun' = [krun EXCEPT !.cfg = new, !.routes = new.routes, !.pools = new.backends,
                                     !.errmode = new.errors, !.key = key]
    <3>1. /\ DOMAIN krun' = RunFields /\ krun'.cfg = new /\ krun'.routes = new.routes
          /\ krun'.pools = new.backends /\ krun'.errmode = new.errors
          /\ krun'.listeners = krun.listeners /\ krun'.alog = krun.alog
      BY <2>2, <2>7 DEF RunFields
    <3> QED BY <2>1, <2>2, <2>5, <3>1 DEF ConfigInv, KConfigIsWhatRuns
  <2>8. CASE "site" \notin changed /\ krun' = [krun EXCEPT !.cfg = new, !.key = key]
    <3>1. /\ DOMAIN krun' = RunFields /\ krun'.cfg = new /\ krun'.routes = krun.routes
          /\ krun'.pools = krun.pools /\ krun'.errmode = krun.errmode
          /\ krun'.listeners = krun.listeners /\ krun'.alog = krun.alog
      BY <2>2, <2>8 DEF RunFields
    <3> QED BY <2>1, <2>2, <2>4, <2>5, <2>8, <3>1 DEF ConfigInv, KConfigIsWhatRuns
  <2> QED BY <2>1, <2>6, <2>7, <2>8
<1>3. CASE \/ \E s \in KSites : WriteSite(s)
           \/ \E s \in KSystems : WriteSystem(s)
           \/ \E k \in KeyFiles : WriteKey(k)
           \/ UNCHANGED kvars
  <2>1. UNCHANGED <<krun, kup>>
    BY <1>3 DEF WriteSite, WriteSystem, WriteKey, kvars
  <2> QED BY <2>1 DEF ConfigInv, KConfigIsWhatRuns
<1> QED BY <1>1, <1>2, <1>3 DEF KNext

\* handle_config_change: for any files an operator may write, the config a process holds
\* is the one it runs, after any sequence of edits, refusals and reloads of one file.
THEOREM ConfigIsWhatRuns == KSpec => []KConfigIsWhatRuns
<1>1. KInit => ConfigInv
  BY DEF KInit, ConfigInv
<1>2. ConfigInv => KConfigIsWhatRuns
  BY DEF ConfigInv, KConfigIsWhatRuns
<1> QED BY <1>1, <1>2, ConfigNextInv, PTL DEF KSpec

-----------------------------------------------------------------------------
(* Http11Conn.  Nothing was answered while a request is read or fetched, and   *)
(* an expectation only when expect_handled says so.                           *)

H1Fields == {"tls", "kind", "state", "buf", "keep_alive", "served", "expect_handled", "expired",
             "turn", "announced", "interims", "replies"}

OneAnswer(c) ==
    /\ DOMAIN c = H1Fields
    /\ c.interims \in {0, 1} /\ c.replies \in {0, 1}
    /\ c.state \in {"Reading", "WaitingBackend"} => c.replies = 0
    /\ c.state = "Reading" /\ ~c.expect_handled => c.interims = 0

H1Inv == OneAnswer(h1)

\* A connection that ends has answered no more than before.
LEMMA DoneKeeps == ASSUME NEW c, OneAnswer(c) PROVE OneAnswer(H1Done(c))
<1> DEFINE d == H1Done(c)
<1>1. /\ DOMAIN d = H1Fields /\ d.state = "Done"
      /\ d.interims = c.interims /\ d.replies = c.replies
  BY DEF H1Done, OneAnswer, H1Fields
<1> HIDE DEF d
<1>2. OneAnswer(d)
  BY <1>1 DEF OneAnswer
<1> QED BY <1>2 DEF d

\* A response that is written out makes room for the next request's.
LEMMA WritingKeeps == ASSUME NEW c, OneAnswer(c), NEW e \in DriveWriting(c) PROVE OneAnswer(e)
<1> DEFINE d == [c EXCEPT !.served = @ + 1]
           r == [d EXCEPT !.state = "Reading", !.buf = <<>>, !.expect_handled = FALSE,
                          !.expired = FALSE, !.turn = 1 - @, !.interims = 0, !.replies = 0]
<1>1. /\ DOMAIN d = H1Fields /\ d.state = c.state /\ d.expect_handled = c.expect_handled
      /\ d.interims = c.interims /\ d.replies = c.replies
  BY DEF OneAnswer, H1Fields
<1> HIDE DEF d
<1>2. OneAnswer(d)
  BY <1>1 DEF OneAnswer
<1>3. DOMAIN r = H1Fields /\ r.interims = 0 /\ r.replies = 0
  BY <1>1 DEF H1Fields
<1> HIDE DEF r
<1>4. OneAnswer(r)
  BY <1>3 DEF OneAnswer
<1>5. FinishResponse(c) \in {r, H1Done(d)}
  BY DEF FinishResponse, d, r
<1> QED BY <1>2, <1>4, <1>5, DoneKeeps DEF DriveWriting

\* The answer of a request that has none is its only one.
LEMMA StartKeeps ==
    ASSUME NEW c, OneAnswer(c), c.replies = 0, NEW a, NEW e \in StartWriting(c, a)
    PROVE  OneAnswer(e)
<1> DEFINE d == [c EXCEPT !.state = "Writing", !.buf = <<>>, !.announced = a, !.replies = @ + 1]
<1>1. DOMAIN d = H1Fields /\ d.state = "Writing" /\ d.interims = c.interims /\ d.replies = 1
  BY DEF OneAnswer, H1Fields
<1>2. e \in DriveWriting(d)
  BY DEF StartWriting
<1> HIDE DEF d
<1>3. OneAnswer(d)
  BY <1>1 DEF OneAnswer
<1> QED BY <1>2, <1>3, WritingKeeps

\* Whatever it announces.
LEMMA AnswerKeeps ==
    ASSUME NEW c, OneAnswer(c), c.replies = 0, NEW e \in WritesAnswer(c)
    PROVE  OneAnswer(e)
<1>1. PICK a \in Announced(c) : e \in StartWriting(c, a)
  BY DEF WritesAnswer
<1> QED BY <1>1, StartKeeps

\* on_request answers once, or later.
LEMMA CompleteKeeps ==
    ASSUME NEW c, OneAnswer(c), c.state = "Reading", NEW e \in Complete(c)
    PROVE  OneAnswer(e)
<1> DEFINE d == [c EXCEPT !.keep_alive = WantsKeepAlive(c)]
           w == [d EXCEPT !.state = "WaitingBackend", !.buf = <<>>]
<1>1. /\ DOMAIN d = H1Fields /\ d.state = c.state /\ d.expect_handled = c.expect_handled
      /\ d.interims = c.interims /\ d.replies = c.replies
  BY DEF OneAnswer, H1Fields
<1>2. e \in WritesAnswer(d) \cup {w}
  BY DEF Complete
<1> HIDE DEF d
<1>3. OneAnswer(d) /\ d.replies = 0
  BY <1>1 DEF OneAnswer
<1>4. /\ DOMAIN w = H1Fields /\ w.state = "WaitingBackend"
      /\ w.interims = d.interims /\ w.replies = d.replies
  BY <1>1 DEF H1Fields
<1> HIDE DEF w
<1>5. OneAnswer(w)
  BY <1>3, <1>4 DEF OneAnswer
<1> QED BY <1>2, <1>3, <1>5, AnswerKeeps

\* The expectation is answered at the first read that sees it.
LEMMA IncompleteKeeps ==
    ASSUME NEW c, OneAnswer(c), c.state = "Reading", NEW e \in Incomplete(c)
    PROVE  OneAnswer(e)
<1> DEFINE d == [c EXCEPT !.expect_handled = TRUE]
           i == [d EXCEPT !.interims = @ + 1]
<1>1. CASE c.expect_handled
  BY <1>1 DEF Incomplete
<1>2. CASE ~c.expect_handled
  <2>1. /\ DOMAIN d = H1Fields /\ d.state = c.state /\ d.expect_handled
        /\ d.interims = 0 /\ d.replies = 0
    BY <1>2 DEF OneAnswer, H1Fields
  <2>2. e \in {i, d} \/ e \in StartWriting(d, "close")
    BY <1>2 DEF Incomplete
  <2> HIDE DEF d
  <2>3. OneAnswer(d)
    BY <2>1 DEF OneAnswer
  <2>4. /\ DOMAIN i = H1Fields /\ i.state = d.state /\ i.expect_handled = d.expect_handled
        /\ i.interims = d.interims + 1 /\ i.replies = d.replies
    BY <2>1 DEF H1Fields
  <2> HIDE DEF i
  <2>5. OneAnswer(i)
    BY <2>1, <2>4 DEF OneAnswer
  <2> QED BY <2>1, <2>2, <2>3, <2>5, StartKeeps
<1> QED BY <1>1, <1>2

\* drive_h1: however much is read.
LEMMA ReadKeeps ==
    ASSUME NEW c, OneAnswer(c), c.state = "Reading", NEW n, NEW e \in DriveRead(c, n)
    PROVE  OneAnswer(e)
<1> DEFINE d == [c EXCEPT !.buf = @ \o SubSeq(wire, 1, n)]
<1>1. PICK b : d = [c EXCEPT !.buf = b]
  OBVIOUS
<1>2. e \in StartWriting(d, "close") \/ e \in Incomplete(d) \/ e \in Complete(d)
  BY DEF DriveRead
<1> HIDE DEF d
<1>3. /\ DOMAIN d = H1Fields /\ d.state = c.state /\ d.expect_handled = c.expect_handled
      /\ d.interims = c.interims /\ d.replies = c.replies
  BY <1>1 DEF OneAnswer, H1Fields
<1>4. OneAnswer(d) /\ d.state = "Reading" /\ d.replies = 0
  BY <1>3 DEF OneAnswer
<1> QED BY <1>2, <1>4, StartKeeps, IncompleteKeeps, CompleteKeeps

\* Every step of the edge and of the client preserves it.
LEMMA H1NextInv == H1Inv /\ [H1Next]_h1vars => H1Inv'
<1> SUFFICES ASSUME OneAnswer(h1), [H1Next]_h1vars PROVE OneAnswer(h1')
  BY DEF H1Inv
<1>1. CASE DriveTimeout \/ TlsFails
  BY <1>1, DoneKeeps DEF DriveTimeout, TlsFails
<1>2. CASE DriveReading
  BY <1>2, ReadKeeps DEF DriveReading
<1>3. CASE DriveReadsNothing
  BY <1>3, DoneKeeps DEF DriveReadsNothing, DriveNothing
<1>4. CASE DriveWaiting
  <2>1. h1.replies = 0
    BY <1>4 DEF DriveWaiting, OneAnswer
  <2> QED BY <1>4, <2>1, DoneKeeps, AnswerKeeps DEF DriveWaiting
<1>5. CASE DriveWrites
  BY <1>5, WritingKeeps DEF DriveWrites
<1>6. CASE HandshakeEnds \/ TimePasses
  <2>1. /\ DOMAIN h1' = H1Fields /\ h1'.state = h1.state /\ h1'.expect_handled = h1.expect_handled
        /\ h1'.interims = h1.interims /\ h1'.replies = h1.replies
    BY <1>6 DEF HandshakeEnds, TimePasses, OneAnswer, H1Fields
  <2> QED BY <2>1 DEF OneAnswer
<1>7. CASE (\E p \in Pieces : ClientSends(p)) \/ ClientCloses \/ UNCHANGED h1vars
  BY <1>7 DEF ClientSends, ClientCloses, h1vars
<1> QED BY <1>1, <1>2, <1>3, <1>4, <1>5, <1>6, <1>7 DEF H1Next, H1Drive

\* drive_h1: a request is answered at most once and its expectation at most once, for every
\* limit and however the client's bytes arrive.
THEOREM AnsweredOnce == H1Spec => []H1AnsweredOnce
<1>1. H1Init => H1Inv
  BY DEF H1Init, H1New, H1Inv, OneAnswer, H1Fields
<1>2. H1Inv => H1AnsweredOnce
  BY DEF H1Inv, OneAnswer, H1AnsweredOnce
<1> QED BY <1>1, <1>2, H1NextInv, PTL DEF H1Spec

-----------------------------------------------------------------------------
(* Http3Conn.  A stream is in one of four stages of its answer: not begun,   *)
(* waiting for a backend, partly sent, or over; and only an established      *)
(* connection takes it from the first to the second.                        *)

QFields == {"pend", "body", "url", "out", "left", "got", "hdrs", "sent", "size", "fin", "shut", "lost"}

\* Nothing of the answer has been sent.
NotBegun(t) == t.hdrs = 0 /\ t.sent = 0 /\ t.out = "none" /\ ~t.fin

StreamTypes(t) ==
    /\ DOMAIN t = QFields
    /\ t.left \in Nat /\ t.sent \in Nat /\ t.size \in Nat
    /\ t.out \in {"none", "headers", "body"}
    /\ t.got \in {"idle", "open", "finished", "reset"}

StreamOK(t) ==
    /\ StreamTypes(t)
    /\ t.got = "idle" \/ t.pend # "none" => NotBegun(t) /\ t.size = 0 /\ ~t.url
    /\ t.got = "open" => ~t.url /\ t.out = "none"
    /\ t.url => NotBegun(t)
    /\ t.out = "headers" => t.hdrs = 0 /\ t.sent = 0 /\ t.left = t.size /\ ~t.fin
    /\ t.out = "body" => t.hdrs = 1 /\ t.sent + t.left = t.size /\ ~t.fin
    /\ t.fin => t.sent = t.size /\ t.hdrs = 1
    /\ t.hdrs \in {0, 1}

\* Something is being done, or was, about a request that was read.
TakenCareOf(t) == t.fin \/ t.shut \/ t.lost \/ t.url \/ t.out # "none"

Owed(t) == /\ t.got = "open" /\ t.pend = "none" => t.fin \/ t.lost
           /\ t.got = "finished" => TakenCareOf(t)

ConnOK ==
    /\ qconn \in [state : {"none", "handshake", "early", "established", "closed"},
                  h3 : BOOLEAN, recorded : BOOLEAN]
    /\ qconn.h3 => qconn.state \notin {"none", "closed"}
    /\ qconn.state = "none" => \A s \in H3Streams : qs[s].got = "idle"

H3Inv ==
    /\ ConnOK
    /\ DOMAIN qs = H3Streams /\ qs = [s \in H3Streams |-> qs[s]]
    /\ \A s \in H3Streams : StreamOK(qs[s])
    /\ qconn.state # "closed" => \A s \in H3Streams : Owed(qs[s])
    /\ qhist = [early |-> FALSE]

\* What sending makes of a stream whose request has been read.
SendsOn(t, u) == /\ StreamOK(u) /\ u.got = t.got /\ u.pend = "none"
                 /\ u.fin \/ u.lost \/ u.out # "none"

\* send_body, from wherever the body has got to.
LEMMA SendBodyStep ==
  ASSUME NEW t, StreamTypes(t), NEW u \in SendBody(t), t.hdrs = 1, t.sent + t.left = t.size, ~t.fin,
         ~t.url, t.pend = "none", t.got \notin {"idle", "open"}
  PROVE  SendsOn(t, u)
  <1>1. CASE u = [t EXCEPT !.out = "none", !.lost = TRUE]
    <2>1. /\ DOMAIN u = QFields
          /\ u.pend = t.pend /\ u.url = t.url /\ u.out = "none" /\ u.left = t.left
          /\ u.got = t.got /\ u.hdrs = t.hdrs /\ u.sent = t.sent /\ u.size = t.size
          /\ u.fin = t.fin /\ u.shut = t.shut /\ u.lost = TRUE
      BY <1>1 DEF StreamTypes, QFields
    <2> QED BY <2>1 DEF SendsOn, StreamOK, StreamTypes, NotBegun
  <1>2. CASE \E w \in 0..t.left : u = TookBody(t, w)
    <2>1. PICK w \in 0..t.left : u = TookBody(t, w) BY <1>2
    <2>2. t.left \in Nat /\ t.sent \in Nat /\ t.size \in Nat BY DEF StreamTypes
    <2>3. w \in Nat /\ t.left - w \in Nat /\ t.sent + w \in Nat BY <2>2
    <2>4. CASE w = t.left
      <3>1. u = [t EXCEPT !.sent = t.sent + w, !.left = 0, !.out = "none", !.fin = TRUE]
        BY <2>1, <2>4 DEF TookBody
      <3>2. t.sent + w = t.size BY <2>4
      <3>3. /\ DOMAIN u = QFields
            /\ u.pend = t.pend /\ u.url = t.url /\ u.out = "none" /\ u.left = 0
            /\ u.got = t.got /\ u.hdrs = t.hdrs /\ u.sent = t.sent + w /\ u.size = t.size
            /\ u.fin = TRUE /\ u.shut = t.shut /\ u.lost = t.lost
        BY <3>1 DEF StreamTypes, QFields
      <3> QED BY <3>2, <3>3, <2>2, <2>3 DEF SendsOn, StreamOK, StreamTypes, NotBegun
    <2>5. CASE w # t.left
      <3>1. u = [t EXCEPT !.sent = t.sent + w, !.left = t.left - w, !.out = "body"]
        BY <2>1, <2>5 DEF TookBody
      <3>2. (t.sent + w) + (t.left - w) = t.size BY <2>2, <2>3
      <3>3. /\ DOMAIN u = QFields
            /\ u.pend = t.pend /\ u.url = t.url /\ u.out = "body" /\ u.left = t.left - w
            /\ u.got = t.got /\ u.hdrs = t.hdrs /\ u.sent = t.sent + w /\ u.size = t.size
            /\ u.fin = t.fin /\ u.shut = t.shut /\ u.lost = t.lost
        BY <3>1 DEF StreamTypes, QFields
      <3> QED BY <3>2, <3>3, <2>2, <2>3 DEF SendsOn, StreamOK, StreamTypes, NotBegun
    <2> QED BY <2>4, <2>5
  <1> QED BY <1>1, <1>2 DEF SendBody

\* send_response, blocked or not.
LEMMA SendResponseStep ==
  ASSUME NEW t, StreamTypes(t), NEW u \in SendResponse(t), NotBegun(t) \/ t.out = "headers",
         t.hdrs = 0, t.sent = 0, t.left = t.size, ~t.fin, ~t.url, t.pend = "none", t.got \notin {"idle", "open"}
  PROVE  SendsOn(t, u)
  <1> DEFINE v == [t EXCEPT !.out = "none", !.hdrs = @ + 1]
  <1>0. t.left \in Nat /\ t.size \in Nat /\ t.hdrs + 1 = 1 BY DEF StreamTypes
  <1>1. CASE u = [t EXCEPT !.out = "headers"]
    <2>1. /\ DOMAIN u = QFields
          /\ u.pend = t.pend /\ u.url = t.url /\ u.out = "headers" /\ u.left = t.left
          /\ u.got = t.got /\ u.hdrs = t.hdrs /\ u.sent = t.sent /\ u.size = t.size
          /\ u.fin = t.fin /\ u.shut = t.shut /\ u.lost = t.lost
      BY <1>1 DEF StreamTypes, QFields
    <2> QED BY <2>1 DEF SendsOn, StreamOK, StreamTypes, NotBegun
  <1>2. CASE u = [t EXCEPT !.out = "none", !.lost = TRUE]
    <2>1. /\ DOMAIN u = QFields
          /\ u.pend = t.pend /\ u.url = t.url /\ u.out = "none" /\ u.left = t.left
          /\ u.got = t.got /\ u.hdrs = t.hdrs /\ u.sent = t.sent /\ u.size = t.size
          /\ u.fin = t.fin /\ u.shut = t.shut /\ u.lost = TRUE
      BY <1>2 DEF StreamTypes, QFields
    <2> QED BY <2>1 DEF SendsOn, StreamOK, StreamTypes, NotBegun
  <1>3. /\ DOMAIN v = QFields
        /\ v.pend = t.pend /\ v.url = t.url /\ v.out = "none" /\ v.left = t.left
        /\ v.got = t.got /\ v.hdrs = 1 /\ v.sent = t.sent /\ v.size = t.size
        /\ v.fin = t.fin /\ v.shut = t.shut /\ v.lost = t.lost
    BY <1>0 DEF StreamTypes, QFields
  <1>4. u = [t EXCEPT !.out = "headers"] \/ u = [t EXCEPT !.out = "none", !.lost = TRUE]
        \/ (t.left = 0 /\ u = [v EXCEPT !.fin = TRUE]) \/ (t.left # 0 /\ u \in SendBody(v))
    <2> DEFINE a == [t EXCEPT !.out = "headers"]
               b == [t EXCEPT !.out = "none", !.lost = TRUE]
               c == [v EXCEPT !.fin = TRUE]
    <2>1. SendResponse(t) = {a, b} \cup IF t.left = 0 THEN {c} ELSE SendBody(v)
      BY Zenon DEF SendResponse
    <2>2. u \in SendResponse(t) OBVIOUS
    <2> HIDE DEF a, b, c, v
    <2>3. u = a \/ u = b \/ (t.left = 0 /\ u = c) \/ (t.left # 0 /\ u \in SendBody(v)) BY <2>1, <2>2
    <2> QED BY <2>3 DEF a, b, c
  <1> HIDE DEF v
  <1>5. CASE t.left = 0 /\ u = [v EXCEPT !.fin = TRUE]
    <2>1. /\ DOMAIN u = QFields
          /\ u.pend = v.pend /\ u.url = v.url /\ u.out = v.out /\ u.left = v.left
          /\ u.got = v.got /\ u.hdrs = v.hdrs /\ u.sent = v.sent /\ u.size = v.size
          /\ u.fin = TRUE /\ u.shut = v.shut /\ u.lost = v.lost
      BY <1>3, <1>5 DEF QFields
    <2> QED BY <2>1, <1>0, <1>3, <1>5 DEF SendsOn, StreamOK, StreamTypes, NotBegun
  <1>6. CASE t.left # 0 /\ u \in SendBody(v)
    <2>1. StreamTypes(v) BY <1>3 DEF StreamTypes
    <2>2. v.sent + v.left = v.size BY <1>3, <1>0
    <2>3. SendsOn(v, u) BY <1>3, <1>6, <2>1, <2>2, SendBodyStep
    <2> QED BY <1>3, <2>3 DEF SendsOn
  <1> QED BY <1>1, <1>2, <1>4, <1>5, <1>6

\* send_h3_response for a request that was read and not answered.
LEMMA SendH3ResponseStep ==
  ASSUME NEW t, StreamTypes(t), NEW n \in Nat, NEW u \in SendH3Response(t, n),
         NotBegun(t), ~t.url, t.pend = "none", t.got \notin {"idle", "open"}
  PROVE  SendsOn(t, u)
  <1> DEFINE v == [t EXCEPT !.size = n, !.left = n]
  <1>1. /\ DOMAIN v = QFields
        /\ v.pend = t.pend /\ v.url = t.url /\ v.out = t.out /\ v.left = n
        /\ v.got = t.got /\ v.hdrs = t.hdrs /\ v.sent = t.sent /\ v.size = n
        /\ v.fin = t.fin /\ v.shut = t.shut /\ v.lost = t.lost
    BY DEF StreamTypes, QFields
  <1>2. u \in SendResponse(v) BY DEF SendH3Response
  <1> HIDE DEF v
  <1>3. StreamTypes(v) /\ NotBegun(v) BY <1>1 DEF StreamTypes, NotBegun
  <1>4. v.hdrs = 0 /\ v.sent = 0 /\ ~v.fin BY <1>3 DEF NotBegun
  <1>5. SendsOn(v, u) BY <1>1, <1>2, <1>3, <1>4, SendResponseStep
  <1> QED BY <1>1, <1>5 DEF SendsOn

\* A request that may be handled: one nothing was sent for, or one whose trailers end it.
HandledStreamFits(t) ==
    \/ t.pend = "bad" /\ StreamOK([t EXCEPT !.pend = "none", !.body = 0])
    \/ NotBegun(t) /\ ~t.url /\ t.size = 0

\* handle_h3_request: the stream is taken care of, and early data asks nobody.
LEMMA HandleStep ==
  ASSUME NEW t, StreamTypes(t), t.got = "finished", t.pend # "none",
         NEW lookup \in LookupResults(t.pend), NEW o \in HandleH3Request(t, t.pend, lookup),
         HandledStreamFits(t)
  PROVE  /\ StreamOK(o.stream) /\ o.stream.got = "finished" /\ o.stream.pend = "none"
         /\ TakenCareOf(o.stream)
         /\ qconn.state # "established" => ~o.fetch /\ ~o.refresh
  <1> DEFINE u == [t EXCEPT !.pend = "none", !.body = 0]
             quiet(ts) == {H3Outcome(x, FALSE, FALSE) : x \in ts}
  <1>0. /\ DOMAIN u = QFields
        /\ u.pend = "none" /\ u.url = t.url /\ u.out = t.out /\ u.left = t.left
        /\ u.got = t.got /\ u.hdrs = t.hdrs /\ u.sent = t.sent /\ u.size = t.size
        /\ u.fin = t.fin /\ u.shut = t.shut /\ u.lost = t.lost
    BY DEF StreamTypes, QFields
  <1>1. CASE t.pend = "bad"
    <2> DEFINE x == [u EXCEPT !.shut = TRUE]
    <2>1. o \in quiet({x}) BY <1>1 DEF HandleH3Request
    <2>2. o = H3Outcome(x, FALSE, FALSE) BY <2>1
    <2>3. StreamOK(u)
      <3> HIDE DEF u
      <3>1. CASE NotBegun(t) /\ ~t.url /\ t.size = 0 BY <1>0, <3>1 DEF StreamOK, StreamTypes, NotBegun
      <3>2. CASE StreamOK([t EXCEPT !.pend = "none", !.body = 0]) BY <3>2 DEF u
      <3> QED BY <3>1, <3>2 DEF HandledStreamFits
    <2> HIDE DEF u
    <2>4. /\ DOMAIN x = QFields
          /\ x.pend = u.pend /\ x.url = u.url /\ x.out = u.out /\ x.left = u.left
          /\ x.got = u.got /\ x.hdrs = u.hdrs /\ x.sent = u.sent /\ x.size = u.size
          /\ x.fin = u.fin /\ x.shut = TRUE /\ x.lost = u.lost
      BY <1>0 DEF QFields
    <2> HIDE DEF x
    <2>5. o.stream = x /\ ~o.fetch /\ ~o.refresh BY <2>2 DEF H3Outcome
    <2>6. StreamOK(x) /\ TakenCareOf(x) BY <2>3, <2>4 DEF StreamOK, StreamTypes, NotBegun, TakenCareOf
    <2> QED BY <2>4, <2>5, <2>6, <1>0
  <1>2. CASE t.pend # "bad"
    <2>1. StreamTypes(u) /\ NotBegun(u) /\ ~u.url /\ u.pend = "none" /\ u.got = "finished" /\ u.size = 0
      <3> HIDE DEF u
      <3> QED BY <1>0, <1>2 DEF StreamTypes, NotBegun, HandledStreamFits
    <2>2. ASSUME NEW n \in Nat, NEW x \in SendH3Response(u, n)
          PROVE  StreamOK(x) /\ x.got = "finished" /\ x.pend = "none" /\ TakenCareOf(x)
      <3> HIDE DEF u
      <3>1. SendsOn(u, x) BY <2>1, <2>2, SendH3ResponseStep
      <3> QED BY <3>1, <2>1 DEF SendsOn, TakenCareOf
    <2>3. StreamOK([u EXCEPT !.url = TRUE]) /\ [u EXCEPT !.url = TRUE].url
          /\ [u EXCEPT !.url = TRUE].got = "finished" /\ [u EXCEPT !.url = TRUE].pend = "none"
      <3> DEFINE x == [u EXCEPT !.url = TRUE]
      <3> HIDE DEF u
      <3>1. /\ DOMAIN x = QFields
            /\ x.pend = u.pend /\ x.url = TRUE /\ x.out = u.out /\ x.left = u.left
            /\ x.got = u.got /\ x.hdrs = u.hdrs /\ x.sent = u.sent /\ x.size = u.size
            /\ x.fin = u.fin /\ x.shut = u.shut /\ x.lost = u.lost
        BY <2>1 DEF StreamTypes, QFields
      <3> HIDE DEF x
      <3>2. StreamOK(x) BY <2>1, <3>1 DEF StreamOK, StreamTypes, NotBegun
      <3> QED BY <2>1, <3>1, <3>2 DEF x
    <2>4. \/ \E x \in SendH3Response(u, 0) : o = H3Outcome(x, FALSE, FALSE)
          \/ /\ ~(qconn.state # "established" /\ EarlyRefused(t.pend, lookup))
             /\ lookup # "Miss"
             /\ \E n \in 0..MaxResponse : \E x \in SendH3Response(u, n) :
                   o = H3Outcome(x, FALSE, lookup = "Stale")
          \/ /\ ~(qconn.state # "established" /\ EarlyRefused(t.pend, lookup))
             /\ lookup = "Miss"
             /\ \/ \E n \in 0..MaxResponse : \E x \in SendH3Response(u, n) : o = H3Outcome(x, TRUE, FALSE)
                \/ o = H3Outcome([u EXCEPT !.url = TRUE], TRUE, FALSE)
      <3> HIDE DEF u
      <3> DEFINE all == UNION {SendH3Response(u, n) : n \in 0..MaxResponse}
      <3>1. o \in quiet(SendH3Response(u, 0)) \/
            /\ ~(qconn.state # "established" /\ EarlyRefused(t.pend, lookup))
            /\ \/ lookup # "Miss" /\ o \in {H3Outcome(x, FALSE, lookup = "Stale") : x \in all}
               \/ lookup = "Miss" /\ o \in {H3Outcome(x, TRUE, FALSE) : x \in Handled(u)}
        BY <1>2, Zenon DEF HandleH3Request, u
      <3>2. \A x \in Handled(u) : x \in all \/ x = [u EXCEPT !.url = TRUE] BY DEF Handled
      <3>3. \A x \in all : \E n \in 0..MaxResponse : x \in SendH3Response(u, n) OBVIOUS
      <3> HIDE DEF all
      <3> QED BY <3>1, <3>2, <3>3, Zenon
    <2>5. CASE \E x \in SendH3Response(u, 0) : o = H3Outcome(x, FALSE, FALSE)
      <3>1. PICK x \in SendH3Response(u, 0) : o = H3Outcome(x, FALSE, FALSE) BY <2>5
      <3>2. o.stream = x /\ ~o.fetch /\ ~o.refresh BY <3>1 DEF H3Outcome
      <3> HIDE DEF u
      <3> QED BY <3>1, <3>2, <2>2, 0 \in Nat
    <2>6. CASE /\ ~(qconn.state # "established" /\ EarlyRefused(t.pend, lookup))
               /\ lookup # "Miss"
               /\ \E n \in 0..MaxResponse : \E x \in SendH3Response(u, n) :
                    o = H3Outcome(x, FALSE, lookup = "Stale")
      <3>1. PICK n \in 0..MaxResponse : \E x \in SendH3Response(u, n) : o = H3Outcome(x, FALSE, lookup = "Stale")
        BY <2>6
      <3>2. PICK x \in SendH3Response(u, n) : o = H3Outcome(x, FALSE, lookup = "Stale") BY <3>1
      <3>3. o.stream = x /\ ~o.fetch /\ (o.refresh <=> lookup = "Stale") BY <3>2 DEF H3Outcome
      <3>4. n \in Nat BY H3Assumption
      <3>5. qconn.state # "established" => lookup # "Stale" BY <2>6 DEF EarlyRefused
      <3> HIDE DEF u
      <3> QED BY <3>2, <3>3, <3>4, <3>5, <2>2
    <2>7. CASE /\ ~(qconn.state # "established" /\ EarlyRefused(t.pend, lookup))
               /\ lookup = "Miss"
               /\ \/ \E n \in 0..MaxResponse : \E x \in SendH3Response(u, n) : o = H3Outcome(x, TRUE, FALSE)
                  \/ o = H3Outcome([u EXCEPT !.url = TRUE], TRUE, FALSE)
      <3>1. qconn.state = "established" BY <2>7 DEF EarlyRefused
      <3>2. CASE o = H3Outcome([u EXCEPT !.url = TRUE], TRUE, FALSE)
        <4>1. o.stream = [u EXCEPT !.url = TRUE] BY <3>2 DEF H3Outcome
        <4> HIDE DEF u
        <4> QED BY <4>1, <3>1, <2>3 DEF TakenCareOf
      <3>3. CASE \E n \in 0..MaxResponse : \E x \in SendH3Response(u, n) : o = H3Outcome(x, TRUE, FALSE)
        <4>1. PICK n \in 0..MaxResponse : \E x \in SendH3Response(u, n) : o = H3Outcome(x, TRUE, FALSE) BY <3>3
        <4>2. PICK x \in SendH3Response(u, n) : o = H3Outcome(x, TRUE, FALSE) BY <4>1
        <4>3. o.stream = x BY <4>2 DEF H3Outcome
        <4>4. n \in Nat BY H3Assumption
        <4> HIDE DEF u
        <4> QED BY <4>2, <4>3, <4>4, <3>1, <2>2
      <3> QED BY <2>7, <3>2, <3>3
    <2> QED BY <2>4, <2>5, <2>6, <2>7
  <1> QED BY <1>1, <1>2

\* A step that changes one stream of a connection that stays as it is.
LEMMA OneStream ==
  ASSUME H3Inv, NEW s \in H3Streams, NEW u, qs' = [qs EXCEPT ![s] = u],
         UNCHANGED <<qconn, qhist>>, qconn.state # "none", StreamOK(u),
         qconn.state # "closed" => Owed(u)
  PROVE  H3Inv'
  <1> USE DEF H3Inv
  <1>1. \A r \in H3Streams : qs'[r] = IF r = s THEN u ELSE qs[r] OBVIOUS
  <1>2. DOMAIN qs' = H3Streams /\ qs' = [r \in H3Streams |-> qs'[r]] OBVIOUS
  <1>3. \A r \in H3Streams : StreamOK(qs[r])' BY <1>1 DEF StreamOK, StreamTypes, NotBegun
  <1>4. qconn'.state # "closed" => \A r \in H3Streams : Owed(qs[r])' BY <1>1 DEF Owed, TakenCareOf
  <1>5. ConnOK' BY DEF ConnOK
  <1> QED BY <1>2, <1>3, <1>4, <1>5

\* The same when a request is handled.
LEMMA HandledStream ==
  ASSUME H3Inv, NEW s \in H3Streams, NEW t, StreamTypes(t), t.got = "finished", t.pend # "none",
         H3Handle(s, t), qconn.h3, UNCHANGED <<qconn, qmap>>,
         HandledStreamFits(t)
  PROVE  H3Inv'
  <1>1. PICK lookup \in LookupResults(t.pend) : \E o \in HandleH3Request(t, t.pend, lookup) :
        /\ qs' = [qs EXCEPT ![s] = o.stream]
        /\ qhist' = [qhist EXCEPT !.early = @ \/ (qconn.state # "established" /\ (o.fetch \/ o.refresh))]
    BY DEF H3Handle
  <1>2. PICK o \in HandleH3Request(t, t.pend, lookup) :
        /\ qs' = [qs EXCEPT ![s] = o.stream]
        /\ qhist' = [qhist EXCEPT !.early = @ \/ (qconn.state # "established" /\ (o.fetch \/ o.refresh))]
    BY <1>1
  <1>3. /\ StreamOK(o.stream) /\ o.stream.got = "finished" /\ TakenCareOf(o.stream)
        /\ qconn.state # "established" => ~o.fetch /\ ~o.refresh
    BY HandleStep
  <1>4. qhist' = qhist
    <2>1. qhist = [early |-> FALSE] BY DEF H3Inv
    <2>2. qhist' = [early |-> FALSE \/ (qconn.state # "established" /\ (o.fetch \/ o.refresh))]
      BY <1>2, <2>1
    <2>3. (FALSE \/ (qconn.state # "established" /\ (o.fetch \/ o.refresh))) = FALSE BY <1>3
    <2> QED BY <2>1, <2>2, <2>3
  <1>5. Owed(o.stream) BY <1>3 DEF Owed
  <1>6. qconn.state # "none" BY DEF H3Inv, ConnOK
  <1> QED BY <1>2, <1>3, <1>4, <1>5, <1>6, OneStream

\* One event of the client, the backend or the socket.
LEMMA H3Step ==
  ASSUME H3Inv, [H3Next]_h3vars PROVE H3Inv'
  <1> USE DEF H3Inv
  <1>0. ASSUME NEW s \in H3Streams PROVE StreamOK(qs[s]) /\ StreamTypes(qs[s]) BY <1>0 DEF StreamOK
  <1>1. CASE RecvInitial
    <2>1. UNCHANGED <<qs, qhist>> /\ qconn.state = "none" BY <1>1 DEF RecvInitial
    <2>2. PICK st \in {"handshake", "early"} : qconn' = [NoConn EXCEPT !.state = st, !.h3 = st = "early"]
      BY <1>1 DEF RecvInitial
    <2>3. /\ qconn' \in [state : {"none", "handshake", "early", "established", "closed"},
                         h3 : BOOLEAN, recorded : BOOLEAN]
          /\ qconn'.state = st
      BY <2>2 DEF NoConn
    <2>4. ConnOK' BY <2>3 DEF ConnOK
    <2> QED BY <2>1, <2>4
  <1>2. CASE RecvEstablished
    <2>1. UNCHANGED <<qs, qhist>> /\ qconn.state # "none" /\ qconn.state # "closed" BY <1>2 DEF RecvEstablished
    <2>2. /\ qconn' \in [state : {"none", "handshake", "early", "established", "closed"},
                         h3 : BOOLEAN, recorded : BOOLEAN]
          /\ qconn'.state = "established"
      BY <1>2 DEF RecvEstablished, Established, ConnOK
    <2>3. ConnOK' BY <2>2 DEF ConnOK
    <2> QED BY <2>1, <2>3
  <1>3. CASE H3Close
    <2>1. /\ qconn' = [NoConn EXCEPT !.state = "closed"] /\ UNCHANGED qhist
          /\ qs' = [s \in H3Streams |-> [qs[s] EXCEPT !.pend = "none", !.url = FALSE, !.out = "none", !.body = 0]]
      BY <1>3 DEF H3Close
    <2>2. ConnOK' /\ qconn'.state = "closed" BY <2>1 DEF ConnOK, NoConn
    <2>3. \A s \in H3Streams : StreamOK(qs[s])'
      <3> TAKE s \in H3Streams
      <3> DEFINE t == qs[s]
      <3>1. qs'[s] = [t EXCEPT !.pend = "none", !.url = FALSE, !.out = "none", !.body = 0] BY <2>1
      <3>2. StreamOK(t) OBVIOUS
      <3> DEFINE u == qs'[s]
      <3> HIDE DEF t
      <3>3. /\ DOMAIN u = QFields
            /\ u.pend = "none" /\ u.url = FALSE /\ u.out = "none" /\ u.left = t.left
            /\ u.got = t.got /\ u.hdrs = t.hdrs /\ u.sent = t.sent /\ u.size = t.size
            /\ u.fin = t.fin /\ u.shut = t.shut /\ u.lost = t.lost
        BY <3>1, <3>2 DEF StreamOK, StreamTypes, QFields
      <3> HIDE DEF u
      <3>4. StreamOK(u) BY <3>2, <3>3 DEF StreamOK, StreamTypes, NotBegun
      <3> QED BY <3>4 DEF u, StreamOK, StreamTypes, NotBegun
    <2> QED BY <2>1, <2>2, <2>3
  <1>4. ASSUME NEW s \in H3Streams, NEW what \in {"get", "post", "bad"}, RecvHeaders(s, what) PROVE H3Inv'
    <2> DEFINE u == [qs[s] EXCEPT !.pend = what, !.got = "open"]
    <2>1. qs' = [qs EXCEPT ![s] = u] /\ UNCHANGED <<qconn, qhist>> /\ qs[s].got = "idle" /\ qconn.h3
      BY <1>4 DEF RecvHeaders, Polling
    <2>2. /\ DOMAIN u = QFields
          /\ u.pend = what /\ u.url = qs[s].url /\ u.out = qs[s].out
          /\ u.left = qs[s].left /\ u.got = "open" /\ u.hdrs = qs[s].hdrs
          /\ u.sent = qs[s].sent /\ u.size = qs[s].size /\ u.fin = qs[s].fin
          /\ u.shut = qs[s].shut /\ u.lost = qs[s].lost
      BY <1>0 DEF StreamTypes, QFields
    <2> HIDE DEF u
    <2>3. StreamOK(u) /\ Owed(u) BY <1>0, <2>1, <2>2 DEF StreamOK, StreamTypes, NotBegun, Owed
    <2>4. qconn.state # "none" BY <2>1 DEF ConnOK
    <2> HIDE DEF H3Inv
    <2> QED BY <2>1, <2>3, <2>4, OneStream
  <1>5. ASSUME NEW s \in H3Streams, NEW what \in {"get", "post", "bad"}, RecvRequest(s, what) PROVE H3Inv'
    <2> DEFINE t == [qs[s] EXCEPT !.pend = what, !.got = "finished"]
    <2>1. H3Handle(s, t) /\ UNCHANGED <<qconn, qmap>> /\ qs[s].got = "idle" /\ qconn.h3
      BY <1>5 DEF RecvRequest, Polling
    <2>2. /\ DOMAIN t = QFields
          /\ t.pend = what /\ t.url = qs[s].url /\ t.out = qs[s].out
          /\ t.left = qs[s].left /\ t.got = "finished" /\ t.hdrs = qs[s].hdrs
          /\ t.sent = qs[s].sent /\ t.size = qs[s].size /\ t.fin = qs[s].fin
          /\ t.shut = qs[s].shut /\ t.lost = qs[s].lost
      BY <1>0 DEF StreamTypes, QFields
    <2> HIDE DEF t
    <2>3. StreamTypes(t) /\ t.pend # "none" /\ NotBegun(t) /\ ~t.url /\ t.size = 0
      BY <1>0, <2>1, <2>2 DEF StreamOK, StreamTypes, NotBegun
    <2>4. HandledStreamFits(t) BY <2>3 DEF HandledStreamFits
    <2> HIDE DEF H3Inv
    <2> QED BY <2>1, <2>2, <2>3, <2>4, HandledStream
  <1>6. ASSUME NEW s \in H3Streams, RecvTrailers(s) PROVE H3Inv'
    <2> DEFINE t == [qs[s] EXCEPT !.pend = "bad", !.got = "finished"]
    <2>1. H3Handle(s, t) /\ UNCHANGED <<qconn, qmap>> /\ qs[s].got = "open" /\ qconn.h3
      BY <1>6 DEF RecvTrailers, Polling
    <2> DEFINE x == [t EXCEPT !.pend = "none", !.body = 0]
    <2>2. /\ DOMAIN t = QFields
          /\ t.pend = "bad" /\ t.url = qs[s].url /\ t.out = qs[s].out
          /\ t.left = qs[s].left /\ t.got = "finished" /\ t.hdrs = qs[s].hdrs
          /\ t.sent = qs[s].sent /\ t.size = qs[s].size /\ t.fin = qs[s].fin
          /\ t.shut = qs[s].shut /\ t.lost = qs[s].lost
      BY <1>0 DEF StreamTypes, QFields
    <2> HIDE DEF t
    <2>3. /\ DOMAIN x = QFields
          /\ x.pend = "none" /\ x.url = t.url /\ x.out = t.out /\ x.left = t.left
          /\ x.got = t.got /\ x.hdrs = t.hdrs /\ x.sent = t.sent /\ x.size = t.size
          /\ x.fin = t.fin /\ x.shut = t.shut /\ x.lost = t.lost
      BY <2>2 DEF QFields
    <2> HIDE DEF x
    <2>4. StreamTypes(t) /\ StreamOK(x) BY <1>0, <2>1, <2>2, <2>3 DEF StreamOK, StreamTypes, NotBegun
    <2>5. StreamOK([t EXCEPT !.pend = "none", !.body = 0]) BY <2>4 DEF x
    <2> HIDE DEF H3Inv
    <2>6. t.got = "finished" /\ t.pend = "bad" /\ t.pend # "none" BY <2>2
    <2>7. HandledStreamFits(t) BY <2>5, <2>6 DEF HandledStreamFits
    <2> QED BY <2>1, <2>4, <2>6, <2>7, HandledStream
  <1>7. ASSUME NEW s \in H3Streams, RecvData(s) PROVE H3Inv'
    <2>1. UNCHANGED <<qconn, qhist>> /\ qs[s].got = "open" /\ qs[s].pend # "none" /\ qconn.h3
      BY <1>7 DEF RecvData, Polling
    <2>2. CASE qs[s].body + 1 > MAX_H3_BODY
      <3>1. PICK t \in {[qs[s] EXCEPT !.hdrs = @ + 1, !.fin = TRUE], [qs[s] EXCEPT !.lost = TRUE]} :
              qs' = [qs EXCEPT ![s] = [t EXCEPT !.pend = "none", !.body = 0]]
        BY <1>7, <2>2 DEF RecvData
      <3> DEFINE u == [t EXCEPT !.pend = "none", !.body = 0]
      <3>2. StreamOK(u) /\ Owed(u)
        <4>0. qs[s].hdrs = 0 BY <1>0, <2>1 DEF StreamOK, StreamTypes, NotBegun
        <4>1. CASE t = [qs[s] EXCEPT !.hdrs = @ + 1, !.fin = TRUE]
          <5>1. /\ DOMAIN t = QFields
                /\ t.pend = qs[s].pend /\ t.url = qs[s].url /\ t.out = qs[s].out
                /\ t.left = qs[s].left /\ t.got = qs[s].got /\ t.hdrs = 1
                /\ t.sent = qs[s].sent /\ t.size = qs[s].size /\ t.fin = TRUE
                /\ t.shut = qs[s].shut /\ t.lost = qs[s].lost
            BY <4>0, <4>1, <1>0 DEF StreamTypes, QFields
          <5>2. /\ DOMAIN u = QFields
                /\ u.pend = "none" /\ u.url = t.url /\ u.out = t.out /\ u.left = t.left
                /\ u.got = t.got /\ u.hdrs = t.hdrs /\ u.sent = t.sent /\ u.size = t.size
                /\ u.fin = t.fin /\ u.shut = t.shut /\ u.lost = t.lost
            BY <5>1 DEF QFields
          <5> HIDE DEF u
          <5> QED BY <5>1, <5>2, <1>0, <2>1 DEF StreamOK, StreamTypes, NotBegun, Owed
        <4>2. CASE t = [qs[s] EXCEPT !.lost = TRUE]
          <5>1. /\ DOMAIN t = QFields
                /\ t.pend = qs[s].pend /\ t.url = qs[s].url /\ t.out = qs[s].out
                /\ t.left = qs[s].left /\ t.got = qs[s].got /\ t.hdrs = qs[s].hdrs
                /\ t.sent = qs[s].sent /\ t.size = qs[s].size /\ t.fin = qs[s].fin
                /\ t.shut = qs[s].shut /\ t.lost = TRUE
            BY <4>2, <1>0 DEF StreamTypes, QFields
          <5>2. /\ DOMAIN u = QFields
                /\ u.pend = "none" /\ u.url = t.url /\ u.out = t.out /\ u.left = t.left
                /\ u.got = t.got /\ u.hdrs = t.hdrs /\ u.sent = t.sent /\ u.size = t.size
                /\ u.fin = t.fin /\ u.shut = t.shut /\ u.lost = t.lost
            BY <5>1 DEF QFields
          <5> HIDE DEF u
          <5> QED BY <5>1, <5>2, <1>0, <2>1 DEF StreamOK, StreamTypes, NotBegun, Owed
        <4> QED BY <4>1, <4>2
      <3> HIDE DEF u, H3Inv
      <3>3. qs' = [qs EXCEPT ![s] = u] BY <3>1 DEF u
      <3>4. qconn.state # "none" BY <2>1 DEF H3Inv, ConnOK
      <3> QED BY <3>2, <3>3, <3>4, <2>1, OneStream
    <2>3. CASE ~(qs[s].body + 1 > MAX_H3_BODY)
      <3> DEFINE u == [qs[s] EXCEPT !.body = qs[s].body + 1]
      <3>1. qs' = [qs EXCEPT ![s] = u] BY <1>7, <2>3 DEF RecvData
      <3>2. /\ DOMAIN u = QFields
            /\ u.pend = qs[s].pend /\ u.url = qs[s].url /\ u.out = qs[s].out
            /\ u.left = qs[s].left /\ u.got = qs[s].got /\ u.hdrs = qs[s].hdrs
            /\ u.sent = qs[s].sent /\ u.size = qs[s].size /\ u.fin = qs[s].fin
            /\ u.shut = qs[s].shut /\ u.lost = qs[s].lost
        BY <1>0 DEF StreamTypes, QFields
      <3> HIDE DEF u
      <3>3. StreamOK(u) /\ Owed(u) BY <1>0, <2>1, <3>2 DEF StreamOK, StreamTypes, NotBegun, Owed
      <3>4. qconn.state # "none" BY <2>1 DEF H3Inv, ConnOK
      <3> HIDE DEF u, H3Inv
      <3> QED BY <3>1, <3>3, <3>4, <2>1, OneStream
    <2> QED BY <2>2, <2>3
  <1>8. ASSUME NEW s \in H3Streams, RecvFinished(s) PROVE H3Inv'
    <2> DEFINE t == [qs[s] EXCEPT !.got = "finished"]
    <2>1. UNCHANGED <<qconn, qmap>> /\ qs[s].got = "open" /\ qconn.h3 BY <1>8 DEF RecvFinished, Polling
    <2>2. /\ DOMAIN t = QFields
          /\ t.pend = qs[s].pend /\ t.url = qs[s].url /\ t.out = qs[s].out
          /\ t.left = qs[s].left /\ t.got = "finished" /\ t.hdrs = qs[s].hdrs
          /\ t.sent = qs[s].sent /\ t.size = qs[s].size /\ t.fin = qs[s].fin
          /\ t.shut = qs[s].shut /\ t.lost = qs[s].lost
      BY <1>0 DEF StreamTypes, QFields
    <2>3. CASE t.pend # "none"
      <3>1. H3Handle(s, t) BY <1>8, <2>3 DEF RecvFinished
      <3> HIDE DEF t
      <3>2. StreamTypes(t) /\ NotBegun(t) /\ ~t.url /\ t.size = 0 BY <1>0, <2>2, <2>3 DEF StreamOK, StreamTypes, NotBegun
      <3>3. HandledStreamFits(t) BY <3>2 DEF HandledStreamFits
      <3> HIDE DEF H3Inv
      <3> QED BY <2>1, <2>2, <2>3, <3>1, <3>2, <3>3, HandledStream
    <2>4. CASE t.pend = "none"
      <3>1. qs' = [qs EXCEPT ![s] = t] /\ UNCHANGED qhist BY <1>8, <2>4 DEF RecvFinished
      <3>2. qconn.state # "none" /\ qconn.state # "closed" BY <2>1 DEF ConnOK
      <3>4. Owed(qs[s]) BY <3>2
      <3> HIDE DEF t
      <3>3. StreamOK(t) BY <1>0, <2>1, <2>2, <2>4 DEF StreamOK, StreamTypes, NotBegun
      <3>5. Owed(t) BY <3>4, <2>1, <2>2, <2>4 DEF Owed, TakenCareOf
      <3> HIDE DEF H3Inv
      <3> QED BY <3>1, <3>2, <3>3, <3>5, <2>1, OneStream
    <2> QED BY <2>3, <2>4
  <1>9. ASSUME NEW s \in H3Streams, RecvReset(s) PROVE H3Inv'
    <2> DEFINE u == [qs[s] EXCEPT !.got = "reset"]
    <2>1. qs' = [qs EXCEPT ![s] = u] /\ UNCHANGED <<qconn, qhist>> /\ qs[s].got = "open" /\ qconn.h3
      BY <1>9 DEF RecvReset, Polling
    <2>2. /\ DOMAIN u = QFields
          /\ u.pend = qs[s].pend /\ u.url = qs[s].url /\ u.out = qs[s].out
          /\ u.left = qs[s].left /\ u.got = "reset" /\ u.hdrs = qs[s].hdrs
          /\ u.sent = qs[s].sent /\ u.size = qs[s].size /\ u.fin = qs[s].fin
          /\ u.shut = qs[s].shut /\ u.lost = qs[s].lost
      BY <1>0 DEF StreamTypes, QFields
    <2> HIDE DEF u
    <2>3. StreamOK(u) /\ Owed(u) BY <1>0, <2>1, <2>2 DEF StreamOK, StreamTypes, NotBegun, Owed
    <2>4. qconn.state # "none" BY <2>1 DEF ConnOK
    <2> HIDE DEF H3Inv
    <2> QED BY <2>1, <2>3, <2>4, OneStream
  <1>10. ASSUME NEW s \in H3Streams, PollPendingUrl(s) PROVE H3Inv'
    <2> DEFINE t == [qs[s] EXCEPT !.url = FALSE]
    <2>1. qs[s].url /\ qconn.state # "closed" /\ UNCHANGED <<qconn, qhist>> BY <1>10 DEF PollPendingUrl
    <2>2. PICK n \in 0..MaxResponse : \E u \in SendH3Response(t, n) : qs' = [qs EXCEPT ![s] = u]
      BY <1>10 DEF PollPendingUrl
    <2>3. PICK u \in SendH3Response(t, n) : qs' = [qs EXCEPT ![s] = u] BY <2>2
    <2>4. /\ StreamTypes(t) /\ NotBegun(t) /\ ~t.url /\ t.pend = "none" /\ t.got \notin {"idle", "open"}
          /\ t.got = qs[s].got
      <3>1. /\ DOMAIN t = QFields
            /\ t.pend = qs[s].pend /\ t.url = FALSE /\ t.out = qs[s].out
            /\ t.left = qs[s].left /\ t.got = qs[s].got /\ t.hdrs = qs[s].hdrs
            /\ t.sent = qs[s].sent /\ t.size = qs[s].size /\ t.fin = qs[s].fin
            /\ t.shut = qs[s].shut /\ t.lost = qs[s].lost
        BY <1>0 DEF StreamTypes, QFields
      <3> HIDE DEF t
      <3> QED BY <1>0, <2>1, <3>1 DEF StreamOK, StreamTypes, NotBegun
    <2>5. n \in Nat BY H3Assumption
    <2> HIDE DEF t
    <2>6. SendsOn(t, u) BY <2>3, <2>4, <2>5, SendH3ResponseStep
    <2>7. qconn.state # "none" BY <2>4 DEF ConnOK
    <2>8. StreamOK(u) BY <2>6 DEF SendsOn
    <2>9. Owed(u)
      <3>1. Owed(qs[s]) BY <2>1
      <3> QED BY <2>6, <2>4 DEF SendsOn, Owed, TakenCareOf
    <2> HIDE DEF H3Inv
    <2> QED BY <2>1, <2>3, <2>7, <2>8, <2>9, OneStream
  <1>11. ASSUME NEW s \in H3Streams, DrainWritable(s) PROVE H3Inv'
    <2> DEFINE t == qs[s]
    <2>1. qconn.h3 /\ qconn.state # "closed" /\ t.out # "none" /\ UNCHANGED <<qconn, qhist>>
      BY <1>11 DEF DrainWritable
    <2>2. PICK u \in IF t.out = "headers" THEN SendResponse(t) ELSE DrainBody(t) :
            qs' = [qs EXCEPT ![s] = u]
      BY <1>11 DEF DrainWritable
    <2>3. StreamOK(t) /\ Owed(t) BY <2>1
    <2> HIDE DEF t
    <2>4. StreamTypes(t) /\ t.pend = "none" /\ t.got \notin {"idle", "open"} /\ ~t.url BY <2>1, <2>3 DEF StreamOK, NotBegun
    <2>5. SendsOn(t, u)
      <3>1. CASE t.out = "headers"
        <4>1. u \in SendResponse(t) BY <2>2, <3>1
        <4>2. t.hdrs = 0 /\ t.sent = 0 /\ t.left = t.size /\ ~t.fin BY <2>3, <3>1 DEF StreamOK
        <4> QED BY <4>1, <4>2, <2>4, <3>1, SendResponseStep
      <3>2. CASE t.out # "headers"
        <4>1. u \in SendBody(t) /\ t.out = "body" BY <2>1, <2>2, <2>4, <3>2 DEF DrainBody, StreamTypes
        <4>2. t.hdrs = 1 /\ t.sent + t.left = t.size /\ ~t.fin BY <2>3, <4>1 DEF StreamOK
        <4> QED BY <4>1, <4>2, <2>4, SendBodyStep
      <3> QED BY <3>1, <3>2
    <2>6. StreamOK(u) BY <2>5 DEF SendsOn
    <2>7. Owed(u) BY <2>4, <2>5 DEF SendsOn, Owed, TakenCareOf
    <2>8. qconn.state # "none" BY <2>1 DEF ConnOK
    <2> HIDE DEF H3Inv
    <2> QED BY <2>1, <2>2, <2>6, <2>7, <2>8, OneStream
  <1>12. CASE UNCHANGED h3vars
    BY <1>12 DEF h3vars, ConnOK, StreamOK, StreamTypes, NotBegun, Owed, TakenCareOf
  <1> QED BY <1>1, <1>2, <1>3, <1>4, <1>5, <1>6, <1>7, <1>8, <1>9, <1>10, <1>11, <1>12 DEF H3Next

\* A connection's answers are whole and sent once, none is forgotten, and early data asks no
\* backend, for any number of streams, any body limit and any response sizes.
THEOREM AnswersAreWhole == H3Spec => []H3Contract
  <1>1. H3Init => H3Inv
    <2> SUFFICES ASSUME H3Init PROVE H3Inv OBVIOUS
    <2>1. qconn = NoConn /\ qs = [s \in H3Streams |-> H3NewStream] /\ qhist = [early |-> FALSE]
      BY DEF H3Init
    <2>2. StreamOK(H3NewStream) /\ Owed(H3NewStream) /\ H3NewStream.got = "idle"
      BY DEF H3NewStream, StreamOK, StreamTypes, QFields, NotBegun, Owed
    <2>3. \A s \in H3Streams : qs[s] = H3NewStream BY <2>1
    <2>4. ConnOK BY <2>1, <2>2, <2>3 DEF ConnOK, NoConn
    <2> QED BY <2>1, <2>2, <2>3, <2>4 DEF H3Inv
  <1>2. H3Inv => H3Contract
    <2> SUFFICES ASSUME H3Inv PROVE H3Contract OBVIOUS
    <2>1. H3EarlyDataIsHarmless BY DEF H3Inv, H3EarlyDataIsHarmless
    <2>2. ASSUME NEW s \in H3Streams
          PROVE  /\ qs[s].hdrs <= 1
                 /\ qs[s].fin => qs[s].sent = qs[s].size /\ qs[s].out = "none"
                 /\ qs[s].out = "body" => qs[s].sent + qs[s].left = qs[s].size
                 /\ qconn.state \notin {"none", "closed"} /\ qs[s].got = "finished" => TakenCareOf(qs[s])
      BY DEF H3Inv, StreamOK, StreamTypes, Owed
    <2> QED BY <2>1, <2>2 DEF H3Contract, H3EachAnsweredWhole, TakenCareOf
  <1> QED BY <1>1, <1>2, H3Step, PTL DEF H3Spec


-----------------------------------------------------------------------------
(* RequestPipeline.  Privacy rests on what a fetch under way was begun with, *)
(* the rate limit on what an address was let through in its window and in    *)
(* the one before.                                                           *)

\* A fetch that carries claims, or whose path was protected, was asked for with a good
\* token; what may be stored carries none; an error page is fetched for a 404.
FetchOK(ctx) ==
    /\ ctx.claims => ctx.req.token = "good"
    /\ ctx.guarded /\ ctx.error = 0 => ctx.req.token = "good"
    /\ ctx.cacheable => ~ctx.claims
    /\ ctx.error \in {0, 404}

PrivacyInv ==
    /\ DOMAIN pcache = PPaths
    /\ \A p \in PPaths : DOMAIN pcache[p] = {"state", "claims"} /\ ~pcache[p].claims
    /\ \A ctx \in ppending : FetchOK(ctx)
    /\ PPrivateStaysPrivate
    /\ PErrorStatusSurvives

\* An answer that respects privacy and the status of what failed.
AnswerOK(token, status, content, guarded) ==
    /\ content.claims => token = "good"
    /\ guarded /\ content.kind = "backend" => token = "good"
    /\ content.kind = "page" => status >= 400

\* What handling a request may come to.
OutcomeOK(r, o) ==
    /\ o.ready => /\ AnswerOK(r.token, o.status, o.content, RequiresAuth(r.path) /\ pcfg.key)
                  /\ o.store => ~o.claims
    /\ ~o.ready => FetchOK(o.ctx)

\* The fields of an answer that is ready at once.
LEMMA ReadyFields ==
  ASSUME NEW status, NEW content
  PROVE  /\ Ready(status, content).ready /\ Ready(status, content).status = status
         /\ Ready(status, content).content = content /\ ~Ready(status, content).store
         /\ DOMAIN Ready(status, content) = {"ready", "status", "content", "store", "claims"}
  BY DEF Ready

\* What each kind of content is, and that only a backend's page can show claims.
LEMMA ContentFields ==
  /\ Own.kind = "own" /\ ~Own.claims
  /\ Page.kind = "page" /\ ~Page.claims
  /\ \A c \in BOOLEAN : Backend(c).kind = "backend" /\ (Backend(c).claims <=> c)
  BY DEF Own, Page, Backend

\* An answer of the edge's own shows nothing of a backend.
LEMMA OwnIsFine ==
  ASSUME NEW r, NEW status PROVE OutcomeOK(r, Ready(status, Own))
  BY ReadyFields, ContentFields DEF OutcomeOK, AnswerOK

\* An error page shows nothing either, and has an error status.
LEMMA PageIsFine ==
  ASSUME NEW r, NEW status \in Int, status >= 400 PROVE OutcomeOK(r, Ready(status, Page))
  BY ReadyFields, ContentFields DEF OutcomeOK, AnswerOK

\* apply_error_mode answers with one of those two.
LEMMA ErrorsAreFine ==
  ASSUME NEW r, NEW status \in Int, status >= 400, NEW o \in ApplyErrorMode(status, r)
  PROVE  OutcomeOK(r, o) /\ o.ready /\ (o = Ready(status, Own) \/ o = Ready(status, Page))
  <1>1. o = Ready(status, Own) \/ o = Ready(status, Page) BY DEF ApplyErrorMode
  <1> QED BY <1>1, OwnIsFine, PageIsFine, ReadyFields

\* What a pending fetch remembers of its request.
LEMMA CtxFields ==
  ASSUME NEW r, NEW cacheable \in BOOLEAN, NEW claims \in BOOLEAN, NEW error, NEW prefetch,
         NEW x, x = Ctx(r, cacheable, claims, error, prefetch)
  PROVE  /\ x.req = r /\ x.cacheable = cacheable /\ x.claims = claims /\ x.error = error
         /\ x.guarded = (RequiresAuth(r.path) /\ pcfg.key)
         /\ ~Pending(x).ready /\ Pending(x).ctx = x
  BY DEF Ctx, Pending

\* dispatch_custom_error_async answers with the page or leaves a fetch without claims.
LEMMA AsyncIsFine ==
  ASSUME NEW r, NEW o \in DispatchCustomErrorAsync(404, r) PROVE OutcomeOK(r, o)
  <1>1. o = Ready(404, Page) \/ o = Pending(Ctx(r, FALSE, FALSE, 404, FALSE))
    BY DEF DispatchCustomErrorAsync
  <1>2. CASE o = Ready(404, Page) BY <1>2, PageIsFine
  <1>3. CASE o = Pending(Ctx(r, FALSE, FALSE, 404, FALSE))
    <2> DEFINE x == Ctx(r, FALSE, FALSE, 404, FALSE)
    <2>1. /\ x.cacheable = FALSE /\ x.claims = FALSE /\ x.error = 404
          /\ ~Pending(x).ready /\ Pending(x).ctx = x
      BY DEF Ctx, Pending
    <2>2. o = Pending(x) BY <1>3
    <2> HIDE DEF x
    <2>3. FetchOK(x) BY <2>1 DEF FetchOK
    <2> QED BY <2>1, <2>2, <2>3 DEF OutcomeOK
  <1> QED BY <1>1, <1>2, <1>3

\* Past the gate, a request for a protected path has a good token.
LEMMA PastTheGate ==
  ASSUME NEW r, r.token \in Tokens, Routed(r.path),
         ~(RequiresAuth(r.path) /\ pcfg.key /\ Authorise(r.token) # "Ok")
  PROVE  (RouteAt(r.path).require /\ pcfg.key) => r.token = "good"
  BY DEF Authorise, Tokens, RequiresAuth

\* What is forwarded behind the gate had a good token.
LEMMA ForwardIsFine ==
  ASSUME NEW r, NEW prefetch, NEW o \in Forward(r, prefetch), Routed(r.path),
         (RouteAt(r.path).require /\ pcfg.key) => r.token = "good"
  PROVE  OutcomeOK(r, o)
  <1> DEFINE claims == RouteAt(r.path).require /\ pcfg.key
  <1>0. /\ claims \in BOOLEAN /\ Cacheable(r) \in BOOLEAN
        /\ RequiresAuth(r.path) <=> RouteAt(r.path).require
    BY DEF Cacheable, RequiresAuth
  <1>1. ASSUME o \in UrlForward(r, claims, prefetch) PROVE OutcomeOK(r, o)
    <2>1. CASE o = Pending(Ctx(r, Cacheable(r), claims, 0, prefetch))
      <3> DEFINE x == Ctx(r, Cacheable(r), claims, 0, prefetch)
      <3> HIDE DEF claims
      <3>1. /\ x.req = r /\ x.cacheable = Cacheable(r) /\ x.claims = claims /\ x.error = 0
            /\ x.guarded = (RequiresAuth(r.path) /\ pcfg.key)
            /\ ~Pending(x).ready /\ Pending(x).ctx = x
        BY <1>0, CtxFields
      <3> USE DEF claims
      <3>2. ~o.ready /\ o.ctx = x BY <2>1, <3>1
      <3> HIDE DEF x
      <3>3. FetchOK(x)
        <4>1. x.error \in {0, 404} BY <3>1
        <4>2. x.claims => x.req.token = "good" BY <3>1
        <4>3. x.guarded /\ x.error = 0 => x.req.token = "good" BY <3>1, <1>0
        <4>4. x.cacheable => ~x.claims BY <3>1 DEF Cacheable
        <4> QED BY <4>1, <4>2, <4>3, <4>4, Zenon DEF FetchOK
      <3> QED BY <3>2, <3>3 DEF OutcomeOK
    <2>2. CASE o \in ApplyErrorMode(502, r) BY <2>2, ErrorsAreFine
    <2> QED BY <1>1, <2>1, <2>2 DEF UrlForward
  <1>2. ASSUME o \in SocketForward(r, claims) PROVE OutcomeOK(r, o)
    <2>0. CASE o \in ApplyErrorMode(502, r) BY <2>0, ErrorsAreFine
    <2> SUFFICES ASSUME o \notin ApplyErrorMode(502, r) PROVE OutcomeOK(r, o) BY <2>0
    <2>a. PICK reply \in Replies :
            o \in {[q EXCEPT !.store = Cacheable(r) /\ r.permits /\ reply.storable, !.claims = claims] :
                     q \in IF reply.status >= 400 THEN ApplyErrorMode(reply.status, r)
                           ELSE {Ready(reply.status, Backend(claims))}}
      BY <1>2, ZenonT(40) DEF SocketForward
    <2>b. PICK q \in IF reply.status >= 400 THEN ApplyErrorMode(reply.status, r)
                     ELSE {Ready(reply.status, Backend(claims))} :
            o = [q EXCEPT !.store = Cacheable(r) /\ r.permits /\ reply.storable, !.claims = claims]
      BY <2>a
    <2>1. reply.status \in Int BY DEF Replies
    <2>2. q = Ready(reply.status, Own) \/ (reply.status >= 400 /\ q = Ready(reply.status, Page))
            \/ q = Ready(reply.status, Backend(claims))
      BY <2>1, <2>b, ErrorsAreFine
    <2>3. /\ DOMAIN q = {"ready", "status", "content", "store", "claims"} /\ q.ready
          /\ q.status = reply.status
      BY <2>2, ReadyFields
    <2>4. /\ o.ready /\ o.status = reply.status /\ o.content = q.content
          /\ o.store <=> (Cacheable(r) /\ r.permits /\ reply.storable)
          /\ o.claims <=> claims
      BY <2>b, <2>3, ZenonT(40)
    <2>5. o.store => ~o.claims BY <2>4 DEF Cacheable
    <2>6. q.content = Own \/ (reply.status >= 400 /\ q.content = Page) \/ q.content = Backend(claims)
      BY <2>2, ReadyFields
    <2>7. AnswerOK(r.token, reply.status, q.content, RequiresAuth(r.path) /\ pcfg.key)
      <3>1. CASE q.content = Own BY <3>1, ContentFields DEF AnswerOK
      <3>2. CASE reply.status >= 400 /\ q.content = Page BY <3>2, ContentFields DEF AnswerOK
      <3>3. CASE q.content = Backend(claims)
        <4>1. q.content.kind = "backend" /\ (q.content.claims <=> claims) BY <1>0, <3>3, ContentFields, ZenonT(40)
        <4> QED BY <4>1, <1>0 DEF AnswerOK
      <3> QED BY <2>6, <3>1, <3>2, <3>3
    <2> QED BY <2>4, <2>5, <2>7 DEF OutcomeOK
  <1>3. ASSUME o \in ApplyErrorMode(502, r) PROVE OutcomeOK(r, o) BY <1>3, ErrorsAreFine
  <1> QED BY <1>1, <1>2, <1>3 DEF Forward

\* Whatever handle_request_inner returns may be shown to whoever asked.
LEMMA OutcomesAreFine ==
  ASSUME NEW r, r.token \in Tokens, NEW prefetch, NEW o \in HandleRequestInner(r, prefetch)
  PROVE  OutcomeOK(r, o)
  <1>1. CASE \E s : o = Ready(s, Own) BY <1>1, OwnIsFine
  <1>2. CASE \E s \in {401, 403, 404} : o \in ApplyErrorMode(s, r) BY <1>2, ErrorsAreFine
  <1>3. CASE o \in DispatchCustomErrorAsync(404, r) BY <1>3, AsyncIsFine
  <1>4. CASE o \in Forward(r, prefetch) /\ Routed(r.path)
               /\ ~(RequiresAuth(r.path) /\ pcfg.key /\ Authorise(r.token) # "Ok")
    BY <1>4, PastTheGate, ForwardIsFine
  <1>5. CASE o \in Monitoring(r) /\ r.path \in {"/health", "/perf"} BY <1>5, <1>1 DEF Monitoring
  <1>6. CASE o \in RouteMiss(r) BY <1>6, <1>1, <1>2, <1>3 DEF RouteMiss
  <1>7. CASE o \in Refuse(r) BY <1>7, <1>1, <1>2 DEF Refuse
  <1> QED BY <1>1, <1>2, <1>4, <1>5, <1>6, <1>7 DEF HandleRequestInner

\* What an answer leaves in the cache.
LEMMA StoringIsFine ==
  ASSUME PrivacyInv, NEW r, NEW claims,
         \/ pcache' = pcache
         \/ \E out : pcache' = Evicted(out)
         \/ ~claims /\ pcache' = [pcache EXCEPT ![r.path] = [state |-> "fresh", claims |-> claims]]
  PROVE  /\ DOMAIN pcache' = PPaths
         /\ \A p \in PPaths : DOMAIN pcache'[p] = {"state", "claims"} /\ ~pcache'[p].claims
  <1> DEFINE e == [state |-> "fresh", claims |-> claims]
  <1>1. DOMAIN e = {"state", "claims"} /\ (~claims => ~e.claims) OBVIOUS
  <1>2. DOMAIN NoEntry = {"state", "claims"} /\ ~NoEntry.claims BY DEF NoEntry
  <1>3. \/ pcache' = pcache
        \/ \E out : pcache' = [p \in PPaths |-> IF p \in out THEN NoEntry ELSE pcache[p]]
        \/ ~claims /\ pcache' = [pcache EXCEPT ![r.path] = e]
    BY DEF Evicted
  <1> HIDE DEF e
  <1> QED BY <1>1, <1>2, <1>3 DEF PrivacyInv

\* Whatever an answer stores or takes out, no entry has claims.
LEMMA CacheAfterIsFine ==
  ASSUME PrivacyInv, NEW r, NEW status, NEW store, NEW claims, pcache' \in CacheAfter(r, status, store, claims),
         store => ~claims
  PROVE  /\ DOMAIN pcache' = PPaths
         /\ \A p \in PPaths : DOMAIN pcache'[p] = {"state", "claims"} /\ ~pcache'[p].claims
  <1> DEFINE unsafe == r.method \notin {"GET", "HEAD"} /\ status < 400
  <1>1. \/ pcache' = pcache
        \/ \E out : pcache' = Evicted(out)
        \/ ~claims /\ pcache' = [pcache EXCEPT ![r.path] = [state |-> "fresh", claims |-> claims]]
    <2>1. CASE unsafe
      <3>1. pcache' \in {Evicted({r.path} \cup named) : named \in {S \in SUBSET PPaths : Cardinality(S) <= 2}}
        BY <2>1, Zenon DEF CacheAfter
      <3> QED BY <3>1
    <2>2. CASE ~unsafe /\ store
      <3>1. pcache' \in {[pcache EXCEPT ![r.path] = [state |-> "fresh", claims |-> claims]]}
        BY <2>2, Zenon DEF CacheAfter
      <3> QED BY <2>2, <3>1, Zenon
    <2>3. CASE ~unsafe /\ ~store
      <3>1. pcache' \in {pcache}
        BY <2>3, Zenon DEF CacheAfter
      <3> QED BY <3>1
    <2> QED BY <2>1, <2>2, <2>3
  <1> QED BY <1>1, StoringIsFine

\* An answer that is fine keeps what the history promises.
LEMMA AnsweringIsFine ==
  ASSUME NEW r, NEW status, NEW content, NEW guarded, PAnswer(r, status, content, guarded),
         AnswerOK(r.token, status, content, guarded)
  PROVE  /\ (plast'.content.claims \/ (plast'.guarded /\ plast'.content.kind = "backend")) => plast'.token = "good"
         /\ plast'.content.kind = "page" => plast'.status >= 400
  <1>1. plast'.token = r.token /\ plast'.status = status /\ plast'.content = content /\ plast'.guarded = guarded
    BY DEF PAnswer
  <1> QED BY <1>1 DEF AnswerOK

\* The parts of PrivacyInv a step establishes.
LEMMA PrivacyParts ==
  ASSUME DOMAIN pcache' = PPaths,
         \A p \in PPaths : DOMAIN pcache'[p] = {"state", "claims"} /\ ~pcache'[p].claims,
         \A ctx \in ppending' : FetchOK(ctx),
         (plast'.content.claims \/ (plast'.guarded /\ plast'.content.kind = "backend")) => plast'.token = "good",
         plast'.content.kind = "page" => plast'.status >= 400
  PROVE  PrivacyInv'
  BY DEF PrivacyInv, PPrivateStaysPrivate, PErrorStatusSurvives

\* A request that is handled keeps the invariant: what is stored has no claims.
LEMMA HandlingIsFine ==
  ASSUME PrivacyInv, NEW r, r.token \in Tokens, NEW prefetch \in BOOLEAN, HandleRequest(r, prefetch)
  PROVE  PrivacyInv'
  <1>1. PICK o \in HandleRequestInner(r, prefetch) :
          \/ /\ o.ready
             /\ pcache' \in CacheAfter(r, o.status, o.store, o.claims)
             /\ IF prefetch THEN UNCHANGED plast ELSE AnswerNow(r, o.status, o.content)
             /\ UNCHANGED ppending
          \/ /\ ~o.ready
             /\ Cardinality(ppending) < MaxPending
             /\ ppending' = ppending \cup {o.ctx}
             /\ UNCHANGED <<pcache, plast>>
    BY DEF HandleRequest
  <1>2. OutcomeOK(r, o) BY <1>1, OutcomesAreFine
  <1>3. CASE o.ready
    <2>1. pcache' \in CacheAfter(r, o.status, o.store, o.claims) BY <1>1, <1>3
    <2>2. o.store => ~o.claims BY <1>2, <1>3 DEF OutcomeOK
    <2>3. /\ DOMAIN pcache' = PPaths
          /\ \A p \in PPaths : DOMAIN pcache'[p] = {"state", "claims"} /\ ~pcache'[p].claims
      BY <2>1, <2>2, CacheAfterIsFine
    <2>4. /\ (plast'.content.claims \/ (plast'.guarded /\ plast'.content.kind = "backend")) => plast'.token = "good"
          /\ plast'.content.kind = "page" => plast'.status >= 400
      <3>1. CASE prefetch BY <1>1, <1>3, <3>1 DEF PrivacyInv, PPrivateStaysPrivate, PErrorStatusSurvives
      <3>2. CASE ~prefetch BY <1>1, <1>2, <1>3, <3>2, AnsweringIsFine DEF AnswerNow, OutcomeOK
      <3> QED BY <3>1, <3>2
    <2>5. \A ctx \in ppending' : FetchOK(ctx) BY <1>1, <1>3 DEF PrivacyInv
    <2> QED BY <2>3, <2>4, <2>5, PrivacyParts
  <1>4. CASE ~o.ready
    <2>1. \A ctx \in ppending' : FetchOK(ctx) BY <1>1, <1>2, <1>4 DEF PrivacyInv, OutcomeOK
    <2>2. UNCHANGED <<pcache, plast>> BY <1>1, <1>4
    <2> QED BY <2>1, <2>2 DEF PrivacyInv, PPrivateStaysPrivate, PErrorStatusSurvives
  <1> QED BY <1>3, <1>4

\* So does the answer to a fetch, whatever the configuration is by then.
LEMMA FinalizingIsFine ==
  ASSUME PrivacyInv, NEW ctx \in ppending, FinalizeUrlResponse(ctx) PROVE PrivacyInv'
  <1>0. ppending' = ppending \ {ctx} /\ FetchOK(ctx) BY DEF FinalizeUrlResponse, PrivacyInv
  <1>1. \A x \in ppending' : FetchOK(x) BY <1>0 DEF PrivacyInv
  <1>2. ASSUME NEW reply \in Replies, FinalizeOk(ctx, reply) PROVE PrivacyInv'
    <2> DEFINE status == FinalStatus(ctx, reply)
               store == ctx.error = 0 /\ ctx.cacheable /\ ctx.req.permits /\ reply.storable
               claims == ctx.claims = TRUE
               content == IF ctx.error # 0 THEN Page ELSE Backend(ctx.claims)
    <2>1. store \in BOOLEAN /\ (store => ~ctx.claims) BY <1>0 DEF FetchOK
    <2>2. pcache' \in CacheAfter(ctx.req, status, store, ctx.claims) BY <1>2 DEF FinalizeOk
    <2>3. AnswerOK(ctx.req.token, status, content, ctx.guarded)
      <3>1. CASE ctx.error # 0
        <4>1. status = 404 /\ content = Page BY <1>0, <3>1 DEF FinalStatus, FetchOK
        <4> QED BY <4>1, ContentFields DEF AnswerOK
      <3>2. CASE ctx.error = 0
        <4>1. content.kind = "backend" /\ content.claims = ctx.claims BY <3>2 DEF Backend
        <4> HIDE DEF content
        <4> QED BY <4>1, <3>2, <1>0 DEF AnswerOK, FetchOK
      <3> QED BY <3>1, <3>2
    <2>4. IF ctx.prefetch THEN UNCHANGED plast ELSE PAnswer(ctx.req, status, content, ctx.guarded)
      BY <1>2 DEF FinalizeOk
    <2> HIDE DEF store, status, content
    <2>5. /\ DOMAIN pcache' = PPaths
          /\ \A p \in PPaths : DOMAIN pcache'[p] = {"state", "claims"} /\ ~pcache'[p].claims
      BY <2>1, <2>2, CacheAfterIsFine
    <2>6. /\ (plast'.content.claims \/ (plast'.guarded /\ plast'.content.kind = "backend")) => plast'.token = "good"
          /\ plast'.content.kind = "page" => plast'.status >= 400
      <3>1. CASE ctx.prefetch BY <2>4, <3>1 DEF PrivacyInv, PPrivateStaysPrivate, PErrorStatusSurvives
      <3>2. CASE ~ctx.prefetch BY <2>3, <2>4, <3>2, AnsweringIsFine
      <3> QED BY <3>1, <3>2
    <2> QED BY <1>1, <2>5, <2>6, PrivacyParts
  <1>3. ASSUME FinalizeErr(ctx) PROVE PrivacyInv'
    <2>1. PICK o \in IF ctx.error # 0 THEN {Ready(ctx.error, Own)} ELSE ApplyErrorMode(502, ctx.req) :
            IF ctx.prefetch THEN UNCHANGED plast
            ELSE PAnswer(ctx.req, o.status, o.content, ctx.guarded)
      BY <1>3 DEF FinalizeErr
    <2>2. o.content = Own \/ (o.content = Page /\ o.status = 502)
      <3>1. CASE ctx.error # 0 BY <2>1, <3>1, ReadyFields
      <3>2. CASE ctx.error = 0
        <4>1. o = Ready(502, Own) \/ o = Ready(502, Page) BY <2>1, <3>2, ErrorsAreFine
        <4> QED BY <4>1, ReadyFields
      <3> QED BY <3>1, <3>2
    <2>3. AnswerOK(ctx.req.token, o.status, o.content, ctx.guarded) BY <2>2, ContentFields DEF AnswerOK
    <2>4. UNCHANGED pcache BY <1>3 DEF FinalizeErr
    <2>5. /\ (plast'.content.claims \/ (plast'.guarded /\ plast'.content.kind = "backend")) => plast'.token = "good"
          /\ plast'.content.kind = "page" => plast'.status >= 400
      <3>1. CASE ctx.prefetch BY <2>1, <3>1 DEF PrivacyInv, PPrivateStaysPrivate, PErrorStatusSurvives
      <3>2. CASE ~ctx.prefetch BY <2>1, <2>3, <3>2, AnsweringIsFine
      <3> QED BY <3>1, <3>2
    <2> QED BY <1>1, <2>4, <2>5, PrivacyParts DEF PrivacyInv
  <1> QED BY <1>2, <1>3 DEF FinalizeUrlResponse

\* Every step of the pipeline keeps the privacy invariant.
LEMMA PrivacyNext ==
  ASSUME PrivacyInv, [PNext]_pvars PROVE PrivacyInv'
  <1>0. ASSUME NEW r, NEW status, AnswerNow(r, status, Own), UNCHANGED <<pcache, ppending>> PROVE PrivacyInv'
    <2>1. AnswerOK(r.token, status, Own, RequiresAuth(r.path) /\ pcfg.key) BY ContentFields DEF AnswerOK
    <2>2. /\ (plast'.content.claims \/ (plast'.guarded /\ plast'.content.kind = "backend")) => plast'.token = "good"
          /\ plast'.content.kind = "page" => plast'.status >= 400
      BY <1>0, <2>1, AnsweringIsFine DEF AnswerNow
    <2> QED BY <1>0, <2>2, PrivacyParts DEF PrivacyInv
  <1>1. ASSUME NEW r \in PReqs, PArrive(r) PROVE PrivacyInv'
    <2>0. r.token \in Tokens /\ r.path \in PPaths /\ r.precond \in {"none", "failed", "notModified"} BY PipelineAssumption DEF PPaths
    <2>1. CASE RateLimited(r) BY <2>1, <1>0 DEF RateLimited
    <2>2. CASE WwwRedirect(r) BY <2>2, <1>0 DEF WwwRedirect
    <2>3. CASE OnlyIfCached(r) BY <2>3, <1>0 DEF OnlyIfCached
    <2>4. CASE FromCache(r)
      <3>1. ~RequiresAuth(r.path) BY <2>4 DEF FromCache, PLookup
      <3>2. UNCHANGED <<pcache, ppending>> BY <2>4 DEF FromCache
      <3>3. CASE \E status : AnswerNow(r, status, Own) BY <3>2, <3>3, <1>0
      <3>4. CASE AnswerNow(r, 200, Backend(pcache[r.path].claims))
        <4> DEFINE content == Backend(pcache[r.path].claims)
        <4>1. content.kind = "backend" /\ ~content.claims BY <2>0 DEF Backend, PrivacyInv
        <4> HIDE DEF content
        <4>2. AnswerOK(r.token, 200, content, RequiresAuth(r.path) /\ pcfg.key) BY <3>1, <4>1 DEF AnswerOK
        <4>3. PAnswer(r, 200, content, RequiresAuth(r.path) /\ pcfg.key) BY <3>4 DEF AnswerNow, content
        <4>4. /\ (plast'.content.claims \/ (plast'.guarded /\ plast'.content.kind = "backend")) => plast'.token = "good"
              /\ plast'.content.kind = "page" => plast'.status >= 400
          BY <4>2, <4>3, AnsweringIsFine
        <4> QED BY <3>2, <4>4, PrivacyParts DEF PrivacyInv
      <3>5. CASE ~(\E status : AnswerNow(r, status, Own)) /\ ~AnswerNow(r, 200, Backend(pcache[r.path].claims))
        BY <2>0, <2>4, <3>5, ZenonT(40) DEF FromCache
      <3> QED BY <3>3, <3>4, <3>5
    <2>5. CASE Uncached(r) BY <2>0, <2>5, HandlingIsFine DEF Uncached
    <2> QED BY <1>1, <2>1, <2>2, <2>3, <2>4, <2>5 DEF PArrive
  <1>2. ASSUME NEW p \in PPaths, Background(p) PROVE PrivacyInv'
    <2>1. Synth(p).token \in Tokens BY DEF Synth, Tokens
    <2>2. CASE UNCHANGED <<pcache, ppending, plast>>
      BY <2>2 DEF PrivacyInv, PPrivateStaysPrivate, PErrorStatusSurvives
    <2> QED BY <1>2, <2>1, <2>2, HandlingIsFine DEF Background
  <1>3. ASSUME NEW p \in PPaths, PExpire(p) PROVE PrivacyInv'
    <2>1. DOMAIN NoEntry = {"state", "claims"} /\ ~NoEntry.claims BY DEF NoEntry
    <2>2. UNCHANGED <<ppending, plast>> BY <1>3 DEF PExpire
    <2> DEFINE e == [pcache[p] EXCEPT !.state = "stale"]
    <2>3. DOMAIN e = {"state", "claims"} /\ ~e.claims BY DEF PrivacyInv
    <2>4. pcache' = [pcache EXCEPT ![p] = NoEntry] \/ pcache' = [pcache EXCEPT ![p] = e]
      BY <1>3 DEF PExpire
    <2> HIDE DEF e
    <2>5. /\ DOMAIN pcache' = PPaths
          /\ \A q \in PPaths : DOMAIN pcache'[q] = {"state", "claims"} /\ ~pcache'[q].claims
      BY <2>1, <2>3, <2>4 DEF PrivacyInv
    <2> QED BY <2>2, <2>5 DEF PrivacyInv, PPrivateStaysPrivate, PErrorStatusSurvives
  <1>4. ASSUME NEW ctx \in ppending, FinalizeUrlResponse(ctx) PROVE PrivacyInv' BY <1>4, FinalizingIsFine
  <1>5. ASSUME NEW c \in PConfigs, PReload(c) PROVE PrivacyInv'
    <2>1. DOMAIN NoEntry = {"state", "claims"} /\ ~NoEntry.claims BY DEF NoEntry
    <2> QED BY <1>5, <2>1 DEF PReload, PrivacyInv, PPrivateStaysPrivate, PErrorStatusSurvives
  <1>6. CASE PTick BY <1>6 DEF PTick, PrivacyInv, PPrivateStaysPrivate, PErrorStatusSurvives
  <1>7. CASE UNCHANGED pvars BY <1>7 DEF pvars, PrivacyInv, PPrivateStaysPrivate, PErrorStatusSurvives
  <1> QED BY <1>1, <1>2, <1>3, <1>4, <1>5, <1>6, <1>7 DEF PNext

\* An address's admissions a: since s, in the window's length before s, and from t on.
Since(a, s) == {i \in DOMAIN a : a[i] >= s}
Before(a, s) == {i \in DOMAIN a : s - RATE_WINDOW < a[i] /\ a[i] < s}
From(a, t) == {i \in DOMAIN a : t <= a[i] /\ a[i] < t + RATE_WINDOW}

\* Some configuration allows a set of admissions in one window, or in two.
Allowed(S) == \E c \in PConfigs : Cardinality(S) <= c.limit
TwiceAllowed(S) == \E c \in PConfigs : Cardinality(S) <= 2 * c.limit

\* The entry e of an address counts its window, and the window before was kept too.
EntryOK(a, e, now) ==
    /\ DOMAIN e = {"count", "since"} /\ e.count \in Nat /\ e.since \in Nat /\ e.since <= now
    /\ \A i \in DOMAIN a : a[i] < e.since + RATE_WINDOW
    /\ Cardinality(Since(a, e.since)) <= e.count
    /\ Allowed(Since(a, e.since)) /\ Allowed(Before(a, e.since))

\* An address without an entry was let through before now, in no more than a window.
NoEntryOK(a, now) == (\A i \in DOMAIN a : a[i] < now) /\ Allowed(Before(a, now))

AddressOK(a, l, ip, now) ==
    /\ ip \in DOMAIN l => EntryOK(a, l[ip], now)
    /\ ip \notin DOMAIN l => NoEntryOK(a, now)

RateInv ==
    /\ pcfg \in PConfigs /\ pnow \in Nat
    /\ padmitted \in [PIps -> Seq(Nat)]
    /\ \A ip \in PIps :
          /\ \A i \in DOMAIN padmitted[ip] : padmitted[ip][i] <= pnow
          /\ AddressOK(padmitted[ip], plim, ip, pnow)
          /\ \A t \in Nat : TwiceAllowed(From(padmitted[ip], t))


\* A set of admissions is finite.
LEMMA AdmissionsFinite ==
  ASSUME NEW a \in Seq(Nat), NEW S, S \subseteq DOMAIN a
  PROVE  IsFiniteSet(S) /\ Cardinality(S) \in Nat
  <1>1. DOMAIN a = 1..Len(a) /\ Len(a) \in Nat OBVIOUS
  <1>2. IsFiniteSet(1..Len(a)) BY <1>1, FS_Interval
  <1> QED BY <1>1, <1>2, FS_Subset, FS_CardinalityType

\* Fewer admissions than allowed are allowed.
LEMMA AllowedSubset ==
  ASSUME NEW a \in Seq(Nat), NEW T, T \subseteq DOMAIN a, NEW S, S \subseteq T, Allowed(T)
  PROVE  Allowed(S)
  <1>1. IsFiniteSet(T) /\ Cardinality(T) \in Nat BY AdmissionsFinite
  <1>2. Cardinality(S) <= Cardinality(T) BY <1>1, FS_Subset
  <1>3. Cardinality(S) \in Nat BY AdmissionsFinite
  <1>4. PICK c \in PConfigs : Cardinality(T) <= c.limit BY DEF Allowed
  <1>5. c.limit \in Nat BY PipelineAssumption
  <1>6. Cardinality(S) <= c.limit BY <1>1, <1>2, <1>3, <1>4, <1>5
  <1> QED BY <1>6 DEF Allowed

\* What ended is dropped; what is kept is as it was.
LEMMA SweepIsFine ==
  ASSUME NEW a \in Seq(Nat), NEW l, NEW ip, pnow \in Nat, AddressOK(a, l, ip, pnow)
  PROVE  AddressOK(a, Swept(l), ip, pnow)
  <1> DEFINE K == {j \in DOMAIN l : pnow - l[j].since < RATE_WINDOW}
  <1>0. RATE_WINDOW \in Nat BY PipelineAssumption
  <1>1. CASE Swept(l) = l BY <1>1
  <1>2. CASE Swept(l) = [i \in K |-> l[i]]
    <2>1. CASE ip \in K BY <1>2, <2>1 DEF AddressOK
    <2>2. CASE ip \notin DOMAIN l BY <1>2, <2>2 DEF AddressOK
    <2>3. CASE ip \in DOMAIN l /\ ip \notin K
      <3> DEFINE s == l[ip].since
      <3>1. EntryOK(a, l[ip], pnow) /\ s \in Nat /\ pnow >= s + RATE_WINDOW
        BY <1>0, <2>3 DEF AddressOK, EntryOK
      <3> HIDE DEF s
      <3>2. \A i \in DOMAIN a : a[i] \in Nat OBVIOUS
      <3>3. \A i \in DOMAIN a : a[i] < s + RATE_WINDOW BY <3>1 DEF EntryOK, s
      <3>4. \A i \in DOMAIN a : a[i] < pnow BY <1>0, <3>1, <3>2, <3>3
      <3>5. Before(a, pnow) \subseteq Since(a, s) BY <1>0, <3>1, <3>2 DEF Before, Since
      <3>6. Since(a, s) \subseteq DOMAIN a BY DEF Since
      <3>7. Allowed(Since(a, s)) BY <3>1 DEF EntryOK, s
      <3>8. Allowed(Before(a, pnow)) BY <3>5, <3>6, <3>7, AllowedSubset
      <3>9. ip \notin DOMAIN Swept(l) BY <1>2, <2>3
      <3> QED BY <3>4, <3>8, <3>9 DEF AddressOK, NoEntryOK
    <2> QED BY <2>1, <2>2, <2>3
  <1> QED BY <1>1, <1>2 DEF Swept

\* The entry of an address once a request of it is counted, before it is let through.
LEMMA CountIsFine ==
  ASSUME NEW a \in Seq(Nat), NEW l, NEW ip, pnow \in Nat, AddressOK(a, l, ip, pnow),
         \A i \in DOMAIN a : a[i] <= pnow
  PROVE  LET e == CountOf(l, ip)
         IN  /\ EntryOK(a, e, pnow) /\ pnow < e.since + RATE_WINDOW
             /\ Cardinality(Since(a, e.since)) + 1 <= e.count
  <1>0. RATE_WINDOW \in Nat /\ RATE_WINDOW > 0 BY PipelineAssumption
  <1>1. CASE ip \in DOMAIN l /\ pnow - l[ip].since < RATE_WINDOW
    <2> DEFINE e == [l[ip] EXCEPT !.count = @ + 1]
    <2>1. CountOf(l, ip) = e BY <1>1 DEF CountOf
    <2>2. EntryOK(a, l[ip], pnow) BY <1>1 DEF AddressOK
    <2>3. l[ip].count \in Nat /\ l[ip].since \in Nat BY <2>2 DEF EntryOK
    <2>4. DOMAIN e = {"count", "since"} /\ e.count = l[ip].count + 1 /\ e.since = l[ip].since
      BY <2>2 DEF EntryOK
    <2> HIDE DEF e
    <2>5. Cardinality(Since(a, e.since)) \in Nat BY AdmissionsFinite DEF Since
    <2>6. Cardinality(Since(a, e.since)) <= l[ip].count BY <2>2, <2>4 DEF EntryOK
    <2>7. /\ e.count \in Nat /\ e.since \in Nat /\ pnow < e.since + RATE_WINDOW
          /\ Cardinality(Since(a, e.since)) + 1 <= e.count /\ Cardinality(Since(a, e.since)) <= e.count
      BY <1>0, <1>1, <2>3, <2>4, <2>5, <2>6
    <2>8. /\ e.since <= pnow /\ \A i \in DOMAIN a : a[i] < e.since + RATE_WINDOW
          /\ Allowed(Since(a, e.since)) /\ Allowed(Before(a, e.since))
      BY <2>2, <2>4 DEF EntryOK
    <2>9. EntryOK(a, e, pnow) BY <2>4, <2>7, <2>8 DEF EntryOK
    <2> QED BY <2>1, <2>7, <2>9
  <1>2. CASE ~(ip \in DOMAIN l /\ pnow - l[ip].since < RATE_WINDOW)
    <2> DEFINE e == [count |-> 1, since |-> pnow]
    <2>1. CountOf(l, ip) = e /\ e.count = 1 /\ e.since = pnow /\ DOMAIN e = {"count", "since"}
      BY <1>2 DEF CountOf
    <2> HIDE DEF e
    <2>2. (\A i \in DOMAIN a : a[i] < pnow) /\ Allowed(Before(a, pnow))
      <3>1. CASE ip \notin DOMAIN l BY <3>1 DEF AddressOK, NoEntryOK
      <3>2. CASE ip \in DOMAIN l
        <4> DEFINE s == l[ip].since
        <4>1. EntryOK(a, l[ip], pnow) /\ s \in Nat /\ pnow >= s + RATE_WINDOW
          BY <1>0, <1>2, <3>2 DEF AddressOK, EntryOK
        <4> HIDE DEF s
        <4>2. \A i \in DOMAIN a : a[i] \in Nat OBVIOUS
        <4>3. \A i \in DOMAIN a : a[i] < s + RATE_WINDOW BY <4>1 DEF EntryOK, s
        <4>4. \A i \in DOMAIN a : a[i] < pnow BY <1>0, <4>1, <4>2, <4>3
        <4>5. Before(a, pnow) \subseteq Since(a, s) BY <1>0, <4>1, <4>2 DEF Before, Since
        <4>6. Since(a, s) \subseteq DOMAIN a BY DEF Since
        <4>7. Allowed(Since(a, s)) BY <4>1 DEF EntryOK, s
        <4>8. Allowed(Before(a, pnow)) BY <4>5, <4>6, <4>7, AllowedSubset
        <4> QED BY <4>4, <4>8
      <3> QED BY <3>1, <3>2
    <2>3. \A i \in DOMAIN a : a[i] \in Nat OBVIOUS
    <2>4. Since(a, pnow) = {} BY <2>2, <2>3 DEF Since
    <2>5. Cardinality(Since(a, pnow)) = 0 BY <2>4, FS_EmptySet
    <2>6. Allowed(Since(a, pnow))
      <3>1. Since(a, pnow) \subseteq Before(a, pnow) /\ Before(a, pnow) \subseteq DOMAIN a BY <2>4 DEF Before
      <3> QED BY <3>1, <2>2, AllowedSubset
    <2>7. \A i \in DOMAIN a : a[i] < pnow + RATE_WINDOW BY <1>0, <2>2, <2>3
    <2>8. EntryOK(a, e, pnow) BY <2>1, <2>2, <2>5, <2>6, <2>7 DEF EntryOK
    <2>9. pnow < e.since + RATE_WINDOW BY <1>0, <2>1
    <2>10. Cardinality(Since(a, e.since)) + 1 <= e.count BY <2>1, <2>5
    <2> QED BY <2>1, <2>8, <2>9, <2>10
  <1> QED BY <1>1, <1>2

\* A request of a counted address that is let through.
LEMMA LetThrough ==
  ASSUME NEW a \in Seq(Nat), NEW e, NEW c \in PConfigs, pnow \in Nat,
         EntryOK(a, e, pnow), pnow < e.since + RATE_WINDOW, Cardinality(Since(a, e.since)) + 1 <= e.count,
         e.count <= c.limit, \A i \in DOMAIN a : a[i] <= pnow, \A t \in Nat : TwiceAllowed(From(a, t))
  PROVE  LET b == Append(a, pnow)
         IN  /\ b \in Seq(Nat) /\ EntryOK(b, e, pnow) /\ \A i \in DOMAIN b : b[i] <= pnow
             /\ \A t \in Nat : TwiceAllowed(From(b, t))
  <1> DEFINE b == Append(a, pnow)
             n == Len(a) + 1
             s == e.since
  <1>0. RATE_WINDOW \in Nat /\ RATE_WINDOW > 0 /\ \A d \in PConfigs : d.limit \in Nat BY PipelineAssumption
  <1>1. /\ b \in Seq(Nat) /\ DOMAIN b = (DOMAIN a) \cup {n} /\ b[n] = pnow /\ n \notin DOMAIN a
        /\ \A i \in DOMAIN a : b[i] = a[i] /\ a[i] \in Nat
    OBVIOUS
  <1>2. s \in Nat /\ s <= pnow /\ e.count \in Nat /\ pnow < s + RATE_WINDOW BY DEF EntryOK
  <1>3. /\ DOMAIN e = {"count", "since"} /\ (\A i \in DOMAIN a : a[i] < s + RATE_WINDOW)
        /\ Allowed(Before(a, s)) /\ Cardinality(Since(a, s)) + 1 <= e.count
    BY DEF EntryOK
  <1> HIDE DEF b, n
  <1>4. Since(b, s) = Since(a, s) \cup {n} /\ n \notin Since(a, s) BY <1>1, <1>2 DEF Since
  <1>5. Before(b, s) = Before(a, s) BY <1>1, <1>2 DEF Before
  <1>6. /\ IsFiniteSet(Since(a, s)) /\ Cardinality(Since(a, s)) \in Nat
        /\ IsFiniteSet(Before(a, s)) /\ Cardinality(Before(a, s)) \in Nat
    BY AdmissionsFinite DEF Since, Before
  <1>7. /\ IsFiniteSet(Since(b, s)) /\ Cardinality(Since(b, s)) \in Nat
        /\ Cardinality(Since(b, s)) = Cardinality(Since(a, s)) + 1
    BY <1>4, <1>6, FS_AddElement
  <1>8. Cardinality(Since(b, s)) <= e.count /\ Cardinality(Since(b, s)) <= c.limit
    BY <1>0, <1>2, <1>3, <1>7
  <1>9. \A i \in DOMAIN b : b[i] <= pnow /\ b[i] < s + RATE_WINDOW
    <2>1. ASSUME NEW i \in DOMAIN b PROVE b[i] <= pnow /\ b[i] < s + RATE_WINDOW
      <3>1. CASE i = n BY <1>1, <1>2, <3>1
      <3>2. CASE i \in DOMAIN a BY <1>1, <1>3, <3>2
      <3> QED BY <1>1, <3>1, <3>2
    <2> QED BY <2>1
  <1>10. EntryOK(b, e, pnow)
    <2>1. Allowed(Since(b, s)) BY <1>8 DEF Allowed
    <2>2. Allowed(Before(b, s)) BY <1>3, <1>5
    <2> QED BY <1>2, <1>3, <1>8, <1>9, <2>1, <2>2 DEF EntryOK
  <1>11. ASSUME NEW t \in Nat PROVE TwiceAllowed(From(b, t))
    <2>1. CASE pnow >= t + RATE_WINDOW \/ pnow < t
      <3>1. From(b, t) = From(a, t) BY <1>1, <1>0, <2>1 DEF From
      <3> QED BY <3>1
    <2>2. CASE pnow < t + RATE_WINDOW
      <3>1. s - RATE_WINDOW < t BY <1>0, <1>2, <2>2
      <3>2. From(b, t) \subseteq Before(a, s) \cup Since(b, s)
        <4>1. ASSUME NEW i \in From(b, t) PROVE i \in Before(a, s) \cup Since(b, s)
          <5>1. i \in DOMAIN b /\ t <= b[i] BY DEF From
          <5>2. CASE i = n BY <1>1, <1>4, <5>2
          <5>3. CASE i \in DOMAIN a
            <6>1. a[i] \in Nat /\ t <= a[i] BY <1>1, <5>1, <5>3
            <6>2. CASE a[i] >= s BY <5>3, <6>2, <1>4 DEF Since
            <6>3. CASE a[i] < s BY <5>3, <6>1, <6>3, <3>1, <1>0, <1>2 DEF Before
            <6> QED BY <6>1, <6>2, <6>3, <1>2
          <5> QED BY <1>1, <5>1, <5>2, <5>3
        <4> QED BY <4>1
      <3> DEFINE U == Before(a, s) \cup Since(b, s)
      <3>3. /\ IsFiniteSet(U) /\ Cardinality(U) \in Nat
            /\ Cardinality(U) <= Cardinality(Before(a, s)) + Cardinality(Since(b, s))
        <4>1. /\ IsFiniteSet(U)
              /\ Cardinality(U) = Cardinality(Before(a, s)) + Cardinality(Since(b, s))
                                   - Cardinality(Before(a, s) \cap Since(b, s))
          BY <1>6, <1>7, FS_Union
        <4>2. Cardinality(Before(a, s) \cap Since(b, s)) \in Nat
          BY <1>6, FS_Intersection, FS_CardinalityType
        <4> HIDE DEF U
        <4> QED BY <4>1, <4>2, <1>6, <1>7, FS_CardinalityType
      <3> HIDE DEF U
      <3>4. Cardinality(From(b, t)) <= Cardinality(U) /\ Cardinality(From(b, t)) \in Nat
        BY <3>2, <3>3, FS_Subset, FS_CardinalityType DEF U
      <3>5. PICK d \in PConfigs : Cardinality(Before(a, s)) <= d.limit BY <1>3 DEF Allowed
      <3>6. c.limit \in Nat /\ d.limit \in Nat BY <1>0
      <3>7. Cardinality(From(b, t)) <= c.limit + d.limit
        BY <1>6, <1>7, <1>8, <3>3, <3>4, <3>5, <3>6
      <3>8. CASE c.limit <= d.limit
        <4>1. Cardinality(From(b, t)) <= 2 * d.limit BY <3>4, <3>6, <3>7, <3>8
        <4> QED BY <4>1 DEF TwiceAllowed
      <3>9. CASE d.limit <= c.limit
        <4>1. Cardinality(From(b, t)) <= 2 * c.limit BY <3>4, <3>6, <3>7, <3>9
        <4> QED BY <4>1 DEF TwiceAllowed
      <3> QED BY <3>6, <3>8, <3>9
    <2> QED BY <2>1, <2>2, <1>0
  <1> QED BY <1>1, <1>9, <1>10, <1>11 DEF b

\* Time passes for an address.
LEMMA LaterIsFine ==
  ASSUME NEW a \in Seq(Nat), NEW l, NEW ip, NEW now \in Nat, AddressOK(a, l, ip, now)
  PROVE  AddressOK(a, l, ip, now + 1)
  <1>0. RATE_WINDOW \in Nat /\ \A i \in DOMAIN a : a[i] \in Nat BY PipelineAssumption
  <1>1. CASE ip \in DOMAIN l
    <2>1. EntryOK(a, l[ip], now) BY <1>1 DEF AddressOK
    <2>2. EntryOK(a, l[ip], now + 1) BY <2>1 DEF EntryOK
    <2> QED BY <1>1, <2>2 DEF AddressOK
  <1>2. CASE ip \notin DOMAIN l
    <2>1. (\A i \in DOMAIN a : a[i] < now) /\ Allowed(Before(a, now)) BY <1>2 DEF AddressOK, NoEntryOK
    <2>2. Before(a, now + 1) \subseteq Before(a, now) BY <1>0, <2>1 DEF Before
    <2>3. Before(a, now) \subseteq DOMAIN a BY DEF Before
    <2>4. Allowed(Before(a, now + 1)) BY <2>1, <2>2, <2>3, AllowedSubset
    <2>5. \A i \in DOMAIN a : a[i] < now + 1 BY <1>0, <2>1
    <2> QED BY <1>2, <2>4, <2>5 DEF AddressOK, NoEntryOK
  <1> QED BY <1>1, <1>2

\* Nothing the limiter looks at moves but the configuration.
LEMMA RateStays ==
  ASSUME RateInv, pcfg' \in PConfigs, UNCHANGED <<plim, pnow, padmitted>> PROVE RateInv'
  BY DEF RateInv

\* A request is counted, and let through or not.
LEMMA RateCounted ==
  ASSUME RateInv, NEW r \in PReqs, Counted(r), UNCHANGED <<pcfg, pnow>>,
         (Blocked(r) /\ UNCHANGED padmitted) \/ Admitted(r)
  PROVE  RateInv'
  <1>0. /\ r.ip \in PIps /\ pcfg \in PConfigs /\ pcfg.limit \in Nat /\ pnow \in Nat
        /\ padmitted \in [PIps -> Seq(Nat)]
    BY PipelineAssumption DEF PIps, RateInv
  <1>1. CASE ~(pcfg.limit > 0)
    <2>1. UNCHANGED <<plim, padmitted>> BY <1>1 DEF Counted, Admitted, Blocked
    <2> QED BY <1>0, <2>1, RateStays
  <1>2. CASE pcfg.limit > 0
    <2> DEFINE l == Swept(plim)
               e == CountOf(l, r.ip)
    <2>1. plim' = [i \in (DOMAIN l) \cup {r.ip} |-> IF i = r.ip THEN e ELSE l[i]]
      BY <1>2 DEF Counted, CheckAndIncrement
    <2>2. \A ip \in PIps :
            /\ padmitted[ip] \in Seq(Nat) /\ AddressOK(padmitted[ip], plim, ip, pnow)
            /\ \A i \in DOMAIN padmitted[ip] : padmitted[ip][i] <= pnow
            /\ \A t \in Nat : TwiceAllowed(From(padmitted[ip], t))
      BY <1>0 DEF RateInv
    <2>3. \A ip \in PIps : AddressOK(padmitted[ip], l, ip, pnow) BY <1>0, <2>2, SweepIsFine
    <2> DEFINE a == padmitted[r.ip]
    <2>4. /\ EntryOK(a, e, pnow) /\ pnow < e.since + RATE_WINDOW
          /\ Cardinality(Since(a, e.since)) + 1 <= e.count
      BY <1>0, <2>2, <2>3, CountIsFine
    <2>5. Blocked(r) <=> e.count > pcfg.limit BY <1>2 DEF Blocked
    <2>6. e.count \in Nat BY <2>4 DEF EntryOK
    <2>7. Admitted(r) => ~Blocked(r) /\ padmitted' = [padmitted EXCEPT ![r.ip] = Append(@, pnow)]
      BY <1>2 DEF Admitted
    <2> HIDE DEF l, e
    <2>8. \A ip \in PIps \ {r.ip} : AddressOK(padmitted[ip], plim', ip, pnow)
      <3>1. ASSUME NEW ip \in PIps \ {r.ip} PROVE AddressOK(padmitted[ip], plim', ip, pnow)
        <4>1. ip \in DOMAIN plim' <=> ip \in DOMAIN l BY <2>1
        <4>2. ip \in DOMAIN l => plim'[ip] = l[ip] BY <2>1
        <4>3. AddressOK(padmitted[ip], l, ip, pnow) BY <2>3
        <4> QED BY <4>1, <4>2, <4>3 DEF AddressOK
      <3> QED BY <3>1
    <2>9. r.ip \in DOMAIN plim' /\ plim'[r.ip] = e BY <2>1
    <2>10. CASE Blocked(r) /\ UNCHANGED padmitted
      <3>1. AddressOK(a, plim', r.ip, pnow) BY <2>4, <2>9 DEF AddressOK
      <3>2. \A ip \in PIps : AddressOK(padmitted[ip], plim', ip, pnow) BY <2>8, <3>1
      <3> QED BY <1>0, <2>2, <2>10, <3>2 DEF RateInv
    <2>11. CASE Admitted(r)
      <3> DEFINE b == Append(a, pnow)
      <3>1. e.count <= pcfg.limit BY <1>0, <2>5, <2>6, <2>7, <2>11
      <3>2. /\ b \in Seq(Nat) /\ EntryOK(b, e, pnow) /\ \A i \in DOMAIN b : b[i] <= pnow
            /\ \A t \in Nat : TwiceAllowed(From(b, t))
        <4>1. a \in Seq(Nat) /\ (\A i \in DOMAIN a : a[i] <= pnow) /\ \A t \in Nat : TwiceAllowed(From(a, t))
          BY <1>0, <2>2
        <4> HIDE DEF a
        <4> QED BY <1>0, <2>4, <3>1, <4>1, LetThrough
      <3>3. padmitted' \in [PIps -> Seq(Nat)] /\ padmitted'[r.ip] = b
              /\ \A ip \in PIps \ {r.ip} : padmitted'[ip] = padmitted[ip]
        BY <1>0, <2>7, <2>11, <3>2
      <3> HIDE DEF a, b
      <3>4. AddressOK(b, plim', r.ip, pnow) BY <2>9, <3>2 DEF AddressOK
      <3>5. ASSUME NEW ip \in PIps
            PROVE  /\ AddressOK(padmitted'[ip], plim', ip, pnow)
                   /\ \A i \in DOMAIN padmitted'[ip] : padmitted'[ip][i] <= pnow
                   /\ \A t \in Nat : TwiceAllowed(From(padmitted'[ip], t))
        <4>1. CASE ip = r.ip BY <3>2, <3>3, <3>4, <4>1
        <4>2. CASE ip # r.ip BY <2>2, <2>8, <3>3, <4>2
        <4> QED BY <4>1, <4>2
      <3> QED BY <1>0, <3>3, <3>5 DEF RateInv
    <2> QED BY <2>10, <2>11
  <1> QED BY <1>1, <1>2, <1>0

\* Every step of the pipeline keeps the counts of the rate limit.
LEMMA RateNext ==
  ASSUME RateInv, [PNext]_pvars PROVE RateInv'
  <1>1. ASSUME NEW r \in PReqs, PArrive(r) PROVE RateInv'
    <2>1. CASE RateLimited(r) BY <2>1, RateCounted DEF RateLimited
    <2>2. CASE WwwRedirect(r) \/ OnlyIfCached(r) \/ FromCache(r) \/ Uncached(r)
      <3>1. Admitted(r) /\ UNCHANGED <<pcfg, pnow>>
        BY <2>2 DEF WwwRedirect, OnlyIfCached, FromCache, Uncached
      <3>2. Counted(r) BY <3>1 DEF Admitted
      <3> QED BY <3>1, <3>2, RateCounted
    <2> QED BY <1>1, <2>1, <2>2 DEF PArrive
  <1>2. ASSUME NEW p \in PPaths, Background(p) \/ PExpire(p) PROVE RateInv'
    BY <1>2, RateStays DEF Background, PExpire, RateInv
  <1>3. ASSUME NEW ctx \in ppending, FinalizeUrlResponse(ctx) PROVE RateInv'
    BY <1>3, RateStays DEF FinalizeUrlResponse, RateInv
  <1>4. ASSUME NEW c \in PConfigs, PReload(c) PROVE RateInv' BY <1>4, RateStays DEF PReload
  <1>5. CASE PTick
    <2>1. pnow' = pnow + 1 /\ UNCHANGED <<pcfg, plim, padmitted>> /\ pnow \in Nat /\ pnow' \in Nat
      BY <1>5 DEF PTick, RateInv
    <2>2. ASSUME NEW ip \in PIps
          PROVE  /\ AddressOK(padmitted[ip], plim, ip, pnow + 1)
                 /\ \A i \in DOMAIN padmitted[ip] : padmitted[ip][i] <= pnow + 1
      <3>1. padmitted[ip] \in Seq(Nat) /\ AddressOK(padmitted[ip], plim, ip, pnow)
            /\ \A i \in DOMAIN padmitted[ip] : padmitted[ip][i] <= pnow
        BY DEF RateInv
      <3>2. AddressOK(padmitted[ip], plim, ip, pnow + 1) BY <2>1, <3>1, LaterIsFine
      <3>3. \A i \in DOMAIN padmitted[ip] : padmitted[ip][i] \in Nat BY <3>1
      <3> QED BY <2>1, <3>1, <3>2, <3>3
    <2> QED BY <2>1, <2>2 DEF RateInv
  <1>6. CASE UNCHANGED pvars BY <1>6, RateStays DEF pvars, RateInv
  <1> QED BY <1>1, <1>2, <1>3, <1>4, <1>5, <1>6 DEF PNext

\* Nobody has been admitted at the start.
LEMMA RateInit == ASSUME PInit PROVE RateInv
  <1>1. /\ pcfg \in PConfigs /\ pnow = 0 /\ plim = <<>> /\ padmitted = [i \in PIps |-> <<>>] BY DEF PInit
  <1>2. DOMAIN plim = {} BY <1>1
  <1>3. \A d \in PConfigs : d.limit \in Nat BY PipelineAssumption
  <1>4. ASSUME NEW ip \in PIps
        PROVE  /\ \A i \in DOMAIN padmitted[ip] : padmitted[ip][i] <= pnow
               /\ AddressOK(padmitted[ip], plim, ip, pnow)
               /\ \A t \in Nat : TwiceAllowed(From(padmitted[ip], t))
    <2>1. DOMAIN padmitted[ip] = {} BY <1>1
    <2>2. Before(padmitted[ip], pnow) = {} /\ \A t \in Nat : From(padmitted[ip], t) = {} BY <2>1 DEF Before, From
    <2>3. Cardinality({}) = 0 BY FS_EmptySet
    <2>4. Allowed({}) /\ TwiceAllowed({}) BY <1>1, <1>3, <2>3 DEF Allowed, TwiceAllowed
    <2>5. NoEntryOK(padmitted[ip], pnow) BY <2>1, <2>2, <2>4 DEF NoEntryOK
    <2> QED BY <1>2, <2>1, <2>2, <2>4, <2>5 DEF AddressOK
  <1> QED BY <1>1, <1>4 DEF RateInv

\* The rate the windows were counted for holds of the admissions the property counts.
LEMMA RateHolds == ASSUME RateInv PROVE PRateLimitHolds
  <1>1. ASSUME NEW ip \in PIps, NEW t \in 0..PTime PROVE TwiceAllowed(AdmittedFrom(ip, t))
    <2>1. t \in Nat BY PipelineAssumption
    <2>2. AdmittedFrom(ip, t) = From(padmitted[ip], t) BY DEF AdmittedFrom, From
    <2> QED BY <2>1, <2>2 DEF RateInv
  <1> QED BY <1>1 DEF TwiceAllowed, PRateLimitHolds

\* Whatever is reloaded, fetched, stored and expired, and however requests fall: what was
\* fetched with claims reaches only who showed a good token, an error page keeps the status
\* of what failed, and no address is let through more than twice a limit in a window.
THEOREM PrivateAndWithinLimits == PSpec => []PContract
  <1>1. PInit => PrivacyInv
    <2> SUFFICES ASSUME PInit PROVE PrivacyInv OBVIOUS
    <2>1. pcache = [p \in PPaths |-> NoEntry] /\ ppending = {} /\ plast = PNoAnswer BY DEF PInit
    <2>2. DOMAIN NoEntry = {"state", "claims"} /\ ~NoEntry.claims BY DEF NoEntry
    <2>3. PNoAnswer.content = Own /\ ~PNoAnswer.guarded BY DEF PNoAnswer
    <2> QED BY <2>1, <2>2, <2>3, ContentFields DEF PrivacyInv, PPrivateStaysPrivate, PErrorStatusSurvives
  <1>2. PrivacyInv /\ RateInv => PContract BY RateHolds DEF PrivacyInv, PContract
  <1> QED BY <1>1, <1>2, RateInit, PrivacyNext, RateNext, PTL DEF PSpec


-----------------------------------------------------------------------------
(* H2Client.  A request that waits has one stream, and only a live           *)
(* connection has streams.                                                   *)

StreamFields == {"req", "headers_done", "left", "send_window", "granted", "capped"}

\* Between the channels and the streams.
StreamsAndChannels ==
    /\ next_stream_id \in Nat
    /\ result \in [Requests -> {"new", "waiting", "ok", "error", "dropped"}]
    /\ \A i \in Open : /\ i \in Nat /\ i < next_stream_id /\ DOMAIN streams[i] = StreamFields
                       /\ streams[i].req \in Requests /\ result[streams[i].req] = "waiting"
    /\ \A i, j \in Open : streams[i].req = streams[j].req => i = j
    /\ \A r \in Requests : result[r] = "waiting" => \E i \in Open : streams[i].req = r
    /\ is_dead => Open = {}

\* What a channel's content is of a promise.
Shown(x) ==
    CASE x = "new" -> "none"
      [] x = "waiting" -> "pending"
      [] x = "ok" -> "answered"
      [] OTHER -> "failed"

\* Under the invariant the refinement mapping is the state of the channel.
LEMMA PromiseIsShown ==
  StreamsAndChannels => ClientPromise = [r \in Requests |-> Shown(result[r])]
  <1> SUFFICES ASSUME StreamsAndChannels PROVE ClientPromise = [r \in Requests |-> Shown(result[r])] OBVIOUS
  <1> SUFFICES ASSUME NEW r \in Requests PROVE ClientPromise[r] = Shown(result[r]) BY DEF ClientPromise
  <1> DEFINE own == {i \in Open : streams[i].req = r}
  <1>1. ClientPromise[r] = CASE result[r] = "new" -> "none"
              [] result[r] = "waiting" /\ Cardinality(own) = 1 /\ ~is_dead -> "pending"
              [] result[r] = "ok" /\ own = {} -> "answered"
              [] result[r] \in {"error", "dropped"} /\ own = {} -> "failed"
              [] OTHER -> "lost"
    BY DEF ClientPromise
  <1>2. result[r] \in {"new", "waiting", "ok", "error", "dropped"} BY DEF StreamsAndChannels
  <1>3. CASE result[r] = "waiting"
    <2>1. PICK i \in Open : streams[i].req = r BY <1>3 DEF StreamsAndChannels
    <2>2. own = {i} BY <2>1 DEF StreamsAndChannels
    <2>3. Cardinality(own) = 1 BY <2>2, FS_Singleton
    <2>4. ~is_dead BY <2>1 DEF StreamsAndChannels
    <2> HIDE DEF own
    <2> QED BY <1>1, <1>3, <2>3, <2>4 DEF Shown
  <1>4. CASE result[r] # "waiting"
    <2>1. own = {} BY <1>4 DEF StreamsAndChannels
    <2> HIDE DEF own
    <2> QED BY <1>1, <1>2, <1>4, <2>1 DEF Shown
  <1> QED BY <1>3, <1>4

\* The streams keep their requests and nothing is settled.
LEMMA StreamsStay ==
  ASSUME StreamsAndChannels, UNCHANGED <<result, next_stream_id>>, is_dead' = is_dead, DOMAIN streams' = Open,
         \A i \in Open : streams'[i].req = streams[i].req /\ DOMAIN streams'[i] = StreamFields
  PROVE  StreamsAndChannels'
  BY DEF StreamsAndChannels, Open

\* Some streams end and their requests are settled.
LEMMA StreamsEnd ==
  ASSUME StreamsAndChannels, NEW ids, NEW how \in {"ok", "error", "dropped"}, Outcome(ids, how),
         UNCHANGED next_stream_id, is_dead' => is_dead \/ Open \subseteq ids, DOMAIN streams' = Open \ ids,
         \A i \in Open \ ids : streams'[i].req = streams[i].req /\ DOMAIN streams'[i] = StreamFields
  PROVE  /\ StreamsAndChannels'
         /\ \A r \in Requests : result'[r] # result[r] =>
               /\ result[r] = "waiting" /\ result'[r] = how
               /\ \E i \in ids \cap Open : streams[i].req = r
         /\ result' \in [Requests -> {"new", "waiting", "ok", "error", "dropped"}]
  <1>1. result' = [r \in Requests |-> IF \E i \in ids \cap Open : streams[i].req = r THEN how ELSE result[r]]
    BY DEF Outcome
  <1>2. \A r \in Requests : result'[r] # result[r] =>
               /\ result[r] = "waiting" /\ result'[r] = how
               /\ \E i \in ids \cap Open : streams[i].req = r
    BY <1>1 DEF StreamsAndChannels
  <1>3. \A i \in Open \ ids : result'[streams[i].req] = "waiting"
    <2>1. ASSUME NEW i \in Open \ ids PROVE result'[streams[i].req] = "waiting"
      <3>1. streams[i].req \in Requests /\ result[streams[i].req] = "waiting" BY DEF StreamsAndChannels
      <3>2. ~\E j \in ids \cap Open : streams[j].req = streams[i].req BY DEF StreamsAndChannels
      <3> QED BY <1>1, <3>1, <3>2
    <2> QED BY <2>1
  <1>4. ASSUME NEW r \in Requests, result'[r] = "waiting" PROVE \E i \in Open \ ids : streams'[i].req = r
    <2>1. result[r] = "waiting" /\ ~\E i \in ids \cap Open : streams[i].req = r BY <1>1, <1>4
    <2>2. PICK i \in Open : streams[i].req = r BY <2>1 DEF StreamsAndChannels
    <2> QED BY <2>1, <2>2
  <1>5. result' \in [Requests -> {"new", "waiting", "ok", "error", "dropped"}] BY <1>1 DEF StreamsAndChannels
  <1>6. is_dead' => Open \ ids = {} BY DEF StreamsAndChannels
  <1>7. Open' = Open \ ids BY DEF Open
  <1>8. \A i \in Open \ ids : /\ i \in Nat /\ i < next_stream_id /\ streams'[i].req = streams[i].req
                              /\ streams[i].req \in Requests /\ DOMAIN streams'[i] = StreamFields
    BY DEF StreamsAndChannels
  <1>9. \A i, j \in Open \ ids : streams'[i].req = streams'[j].req => i = j BY <1>8 DEF StreamsAndChannels
  <1>10. next_stream_id' \in Nat /\ next_stream_id' = next_stream_id BY DEF StreamsAndChannels
  <1>11. StreamsAndChannels' BY <1>3, <1>4, <1>5, <1>6, <1>7, <1>8, <1>9, <1>10 DEF StreamsAndChannels
  <1> QED BY <1>2, <1>5, <1>11

\* A call is given its stream.
LEMMA StreamOpens ==
  ASSUME StreamsAndChannels, NEW r \in Requests, result[r] = "new", NEW id \in Nat, id \notin Open,
         \A i \in Open : i < id, DOMAIN streams' = Open \cup {id}, streams'[id].req = r,
         DOMAIN streams'[id] = StreamFields, \A i \in Open : streams'[i] = streams[i],
         next_stream_id' = id + 2, is_dead' = FALSE, result' = [result EXCEPT ![r] = "waiting"]
  PROVE  StreamsAndChannels'
  <1>1. /\ result' \in [Requests -> {"new", "waiting", "ok", "error", "dropped"}] /\ result'[r] = "waiting"
        /\ \A q \in Requests : q # r => result'[q] = result[q]
    BY DEF StreamsAndChannels
  <1>2. \A i \in Open : streams[i].req # r BY DEF StreamsAndChannels
  <1>3. Open' = Open \cup {id} BY DEF Open
  <1>4. next_stream_id' \in Nat /\ \A i \in Open' : i \in Nat /\ i < next_stream_id'
    BY <1>3 DEF StreamsAndChannels
  <1>5. \A i \in Open' : /\ DOMAIN streams'[i] = StreamFields /\ streams'[i].req \in Requests
                         /\ result'[streams'[i].req] = "waiting"
    BY <1>1, <1>2, <1>3 DEF StreamsAndChannels
  <1>6. \A i, j \in Open' : streams'[i].req = streams'[j].req => i = j
    BY <1>2, <1>3 DEF StreamsAndChannels
  <1>7. \A q \in Requests : result'[q] = "waiting" => \E i \in Open' : streams'[i].req = q
    BY <1>1, <1>3 DEF StreamsAndChannels
  <1> QED BY <1>1, <1>4, <1>5, <1>6, <1>7 DEF StreamsAndChannels

\* A stream after n bytes of its body were sent.
LEMMA DrainedFields ==
  ASSUME NEW s, DOMAIN s = StreamFields, NEW n
  PROVE  /\ DOMAIN Drained(s, n) = StreamFields /\ Drained(s, n).req = s.req
         /\ Drained(s, n).left = s.left - n /\ Drained(s, n).send_window = s.send_window - n
         /\ Drained(s, n).granted = s.granted /\ Drained(s, n).capped = s.capped
         /\ Drained(s, n).headers_done = s.headers_done
  BY DEF Drained, StreamFields

\* A stream after its peer granted n bytes.
LEMMA GrantedFields ==
  ASSUME NEW s, DOMAIN s = StreamFields, NEW n
  PROVE  /\ DOMAIN Granted(s, n) = StreamFields /\ Granted(s, n).req = s.req
         /\ Granted(s, n).left = s.left /\ Granted(s, n).send_window = s.send_window + n
         /\ Granted(s, n).granted = s.granted + n /\ Granted(s, n).capped = s.capped
         /\ Granted(s, n).headers_done = s.headers_done
  BY DEF Granted, StreamFields

\* A stream as dispatch makes it.
NewStream(r, initial) ==
    [req |-> r, headers_done |-> FALSE, left |-> Body[r],
     send_window |-> initial, granted |-> 0, capped |-> FALSE]

\* A stream as dispatch makes it, field by field.
LEMMA NewStreamFields ==
  ASSUME NEW r, NEW initial
  PROVE  /\ DOMAIN NewStream(r, initial) = StreamFields /\ NewStream(r, initial).req = r
         /\ NewStream(r, initial).left = Body[r] /\ NewStream(r, initial).send_window = initial
         /\ NewStream(r, initial).granted = 0 /\ ~NewStream(r, initial).capped
         /\ ~NewStream(r, initial).headers_done
  BY DEF NewStream, StreamFields

\* What dispatch makes of the streams.
LEMMA OpenStreamIs ==
  ASSUME NEW r, NEW id, NEW window, NEW initial, OpenStream(r, id, window, initial), id \notin Open
  PROVE  LET s == NewStream(r, initial)
             n == Pumped(s, window)
         IN  /\ DOMAIN streams' = Open \cup {id} /\ streams'[id] = Drained(s, n)
             /\ \A i \in Open : streams'[i] = streams[i]
             /\ conn_send_window' = window - n
             /\ result' = [result EXCEPT ![r] = "waiting"] /\ unsent' = TRUE
  BY DEF OpenStream, NewStream

\* mark_dead fails every open stream and leaves the rest alone.
LEMMA MarkDeadIs ==
  ASSUME MarkDead
  PROVE  /\ is_dead' = TRUE /\ DOMAIN streams' = {} /\ Outcome(Open, "error") /\ pc' = "idle" /\ inbox' = <<>>
         /\ UNCHANGED <<next_stream_id, continuation_stream, conn_send_window, peer_initial_window, unsent,
                        to_pump, kind, socket, peer, frames, answered, conn_granted, conn_sent>>
  BY DEF MarkDead

\* What a step may do to the channels.
ChannelsStep ==
    \/ result' = result
    \/ \E r \in Requests : result[r] = "new" /\ \E x \in {"waiting", "error"} : result' = [result EXCEPT ![r] = x]
    \/ \E how \in {"ok", "error", "dropped"} :
          /\ result' \in [Requests -> {"new", "waiting", "ok", "error", "dropped"}]
          /\ \A r \in Requests : result'[r] # result[r] => result[r] = "waiting" /\ result'[r] = how
          /\ how = "ok" => \A q, r \in Requests : result'[q] # result[q] /\ result'[r] # result[r] => q = r

\* Streams that end settle their channels, and no others.
LEMMA Settling ==
  ASSUME StreamsAndChannels, NEW ids, NEW how \in {"ok", "error", "dropped"}, Outcome(ids, how),
         UNCHANGED next_stream_id, is_dead' => is_dead \/ Open \subseteq ids, DOMAIN streams' = Open \ ids,
         \A i \in Open \ ids : streams'[i] = streams[i], how = "ok" => \E id : ids = {id}
  PROVE  StreamsAndChannels' /\ ChannelsStep
  <1>1. \A i \in Open \ ids : streams'[i].req = streams[i].req /\ DOMAIN streams'[i] = StreamFields
    BY DEF StreamsAndChannels
  <1>2. /\ StreamsAndChannels'
        /\ \A r \in Requests : result'[r] # result[r] =>
              /\ result[r] = "waiting" /\ result'[r] = how
              /\ \E i \in ids \cap Open : streams[i].req = r
        /\ result' \in [Requests -> {"new", "waiting", "ok", "error", "dropped"}]
    BY <1>1, StreamsEnd
  <1>3. how = "ok" => \A q, r \in Requests : result'[q] # result[q] /\ result'[r] # result[r] => q = r
    BY <1>2
  <1> QED BY <1>2, <1>3 DEF ChannelsStep

\* mark_dead settles all of them.
LEMMA Dying ==
  ASSUME StreamsAndChannels, MarkDead PROVE StreamsAndChannels' /\ ChannelsStep
  <1>1. /\ is_dead' = TRUE /\ DOMAIN streams' = {} /\ Outcome(Open, "error") /\ UNCHANGED next_stream_id
    BY MarkDeadIs
  <1> QED BY <1>1, Settling

\* One stream ends.
LEMMA Ending ==
  ASSUME StreamsAndChannels, NEW id, NEW how \in {"ok", "error", "dropped"}, Outcome({id}, how),
         streams' = Only(streams, Open \ {id}), UNCHANGED <<next_stream_id, is_dead>>
  PROVE  StreamsAndChannels' /\ ChannelsStep
  <1>1. DOMAIN streams' = Open \ {id} /\ \A i \in Open \ {id} : streams'[i] = streams[i] BY DEF Only
  <1> QED BY <1>1, Settling

\* Every step keeps streams and channels matched, and settles a channel at most once.
LEMMA StreamsNext ==
  ASSUME StreamsAndChannels, [ClientNext]_clientvars PROVE StreamsAndChannels' /\ ChannelsStep
  <1>1. ASSUME NEW r \in Requests, Dispatch(r) PROVE StreamsAndChannels' /\ ChannelsStep
    <2> DEFINE s == NewStream(r, peer_initial_window)
               n == Pumped(s, conn_send_window)
    <2>1. /\ result[r] = "new" /\ is_dead' = FALSE /\ next_stream_id' = next_stream_id + 2
          /\ OpenStream(r, next_stream_id, conn_send_window, peer_initial_window)
      BY <1>1 DEF Dispatch
    <2>2. next_stream_id \in Nat /\ next_stream_id \notin Open /\ \A i \in Open : i < next_stream_id
      BY DEF StreamsAndChannels
    <2>3. /\ DOMAIN streams' = Open \cup {next_stream_id} /\ streams'[next_stream_id] = Drained(s, n)
          /\ \A i \in Open : streams'[i] = streams[i] /\ result' = [result EXCEPT ![r] = "waiting"]
      BY <2>1, <2>2, OpenStreamIs
    <2>4. DOMAIN s = StreamFields /\ s.req = r BY NewStreamFields
    <2> HIDE DEF s, n
    <2>5. DOMAIN Drained(s, n) = StreamFields /\ Drained(s, n).req = r BY <2>4, DrainedFields
    <2>6. result' = [result EXCEPT ![r] = "waiting"] BY <2>1 DEF OpenStream
    <2>7. StreamsAndChannels' BY <2>1, <2>2, <2>3, <2>5, <2>6, StreamOpens
    <2> QED BY <2>1, <2>6, <2>7 DEF ChannelsStep
  <1>2. ASSUME NEW r \in Requests, DispatchConnects(r) PROVE StreamsAndChannels' /\ ChannelsStep
    <2> DEFINE s == NewStream(r, DEFAULT_WINDOW)
               n == Pumped(s, DEFAULT_WINDOW)
    <2>1. /\ result[r] = "new" /\ is_dead /\ is_dead' = FALSE /\ next_stream_id' = 1 + 2
          /\ OpenStream(r, 1, DEFAULT_WINDOW, DEFAULT_WINDOW)
      BY <1>2 DEF DispatchConnects, Connected
    <2>2. Open = {} /\ 1 \notin Open BY <2>1 DEF StreamsAndChannels
    <2>3. DOMAIN streams' = Open \cup {1} /\ streams'[1] = Drained(s, n) 
      BY <2>1 DEF OpenStream, NewStream
    <2>4. DOMAIN s = StreamFields /\ s.req = r BY NewStreamFields
    <2> HIDE DEF s, n
    <2>5. DOMAIN Drained(s, n) = StreamFields /\ Drained(s, n).req = r BY <2>4, DrainedFields
    <2>6. result' = [result EXCEPT ![r] = "waiting"] BY <2>1 DEF OpenStream
    <2>7. StreamsAndChannels' BY <2>1, <2>2, <2>3, <2>5, <2>6, StreamOpens
    <2> QED BY <2>1, <2>6, <2>7 DEF ChannelsStep
  <1>3. ASSUME NEW r \in Requests, ConnectFails(r) PROVE StreamsAndChannels' /\ ChannelsStep
    <2>1. /\ result[r] = "new" /\ result' = [result EXCEPT ![r] = "error"]
          /\ UNCHANGED <<streams, is_dead, next_stream_id>> /\ Open' = Open
      BY <1>3 DEF ConnectFails, conn, Open
    <2>2. \A i \in Open : streams[i].req # r BY <2>1 DEF StreamsAndChannels
    <2>3. StreamsAndChannels' BY <2>1, <2>2 DEF StreamsAndChannels
    <2> QED BY <2>1, <2>3 DEF ChannelsStep
  <1>4. CASE MarkDead BY <1>4, Dying
  \* The streams that stay as they are.
  <1>5. ASSUME UNCHANGED <<result, streams, is_dead, next_stream_id>> PROVE StreamsAndChannels' /\ ChannelsStep
    BY <1>5 DEF StreamsAndChannels, ChannelsStep, Open
  <1>6. ASSUME UNCHANGED <<result, is_dead, next_stream_id>>, DOMAIN streams' = Open,
               \A i \in Open : streams'[i].req = streams[i].req /\ DOMAIN streams'[i] = StreamFields
        PROVE  StreamsAndChannels' /\ ChannelsStep
    BY <1>6, StreamsStay DEF ChannelsStep
  <1>7. \A i \in Open : DOMAIN streams[i] = StreamFields BY DEF StreamsAndChannels
  <1>8. CASE Flush \/ Peer BY <1>8, <1>5 DEF Flush, Peer, conn, Close, SendHeaders, SendContinuation, SendData,
                 SendRst, SendSettings, SendUpdate, SendGoAway, Sends
  <1>9. CASE FlushFails \/ ExpectedContinuation \/ GoAway BY <1>9, <1>4 DEF FlushFails, ExpectedContinuation, GoAway
  <1>10. CASE DriveEnds BY <1>10, <1>4, <1>5 DEF DriveEnds, conn
  <1>11. CASE Settings
    <2>1. UNCHANGED <<result, is_dead, next_stream_id>> /\ DOMAIN streams' = Open BY <1>11 DEF Settings
    <2>2. ASSUME NEW i \in Open PROVE streams'[i].req = streams[i].req /\ DOMAIN streams'[i] = StreamFields
      BY <1>7, <1>11 DEF Settings, StreamFields
    <2> QED BY <2>1, <2>2, <1>6
  <1>12. CASE PumpAll
    <2>1. UNCHANGED <<result, is_dead, next_stream_id>> BY <1>12 DEF PumpAll
    <2>2. CASE UNCHANGED streams BY <2>1, <2>2, <1>5
    <2>3. ASSUME NEW i \in to_pump, NEW n, streams' = [streams EXCEPT ![i] = Drained(@, n)]
          PROVE  StreamsAndChannels' /\ ChannelsStep
      <3>1. DOMAIN streams' = Open BY <2>3 DEF Open
      <3>2. \A j \in Open : streams'[j].req = streams[j].req /\ DOMAIN streams'[j] = StreamFields
        BY <1>7, <2>3, DrainedFields DEF Open
      <3> QED BY <2>1, <3>1, <3>2, <1>6
    <2> QED BY <1>12, <2>2, <2>3 DEF PumpAll
  <1>13. ASSUME NEW id, NEW done, CompleteStream(id, done), UNCHANGED <<is_dead, next_stream_id>>
         PROVE  StreamsAndChannels' /\ ChannelsStep
    <2>1. PICK how \in {"ok", "error", "dropped"} : Outcome({id}, how) BY <1>13 DEF CompleteStream
    <2> QED BY <1>13, <2>1, Ending DEF CompleteStream
  <1>14. CASE Headers
    <2>1. UNCHANGED <<is_dead, next_stream_id>> BY <1>14 DEF Headers
    <2>2. CASE Frame.end_stream
      <3>1. CompleteStream(Frame.id, Frame.end_headers \/ HeadersDone(Frame.id)) BY <1>14, <2>2 DEF Headers
      <3> QED BY <2>1, <3>1, <1>13
    <2>3. CASE ~Frame.end_stream
      <3>1. UNCHANGED result /\ DOMAIN streams' = Open BY <1>14, <2>3 DEF Headers
      <3>2. ASSUME NEW i \in Open PROVE streams'[i].req = streams[i].req /\ DOMAIN streams'[i] = StreamFields
        BY <1>7, <1>14, <2>3 DEF Headers, StreamFields
      <3> QED BY <2>1, <3>1, <3>2, <1>6
    <2> QED BY <2>2, <2>3
  <1>15. CASE Continuation
    <2>1. UNCHANGED <<result, is_dead, next_stream_id>> /\ DOMAIN streams' = Open BY <1>15 DEF Continuation
    <2>2. ASSUME NEW i \in Open PROVE streams'[i].req = streams[i].req /\ DOMAIN streams'[i] = StreamFields
      BY <1>7, <1>15 DEF Continuation, StreamFields
    <2> QED BY <2>1, <2>2, <1>6
  <1>16. CASE Data
    <2>1. UNCHANGED <<is_dead, next_stream_id>> BY <1>16 DEF Data
    <2>2. CASE Frame.end_stream BY <1>13, <1>16, <2>1, <2>2 DEF Data
    <2>3. CASE ~Frame.end_stream BY <1>5, <1>16, <2>1, <2>3 DEF Data
    <2> QED BY <2>2, <2>3
  <1>17. CASE RstStream BY <1>17, Ending DEF RstStream
  <1>18. CASE WindowUpdateConn BY <1>4, <1>5, <1>18 DEF WindowUpdateConn
  <1>19. CASE WindowUpdateStream
    <2>1. UNCHANGED <<is_dead, next_stream_id>> BY <1>19 DEF WindowUpdateStream
    <2>2. CASE BadStreamUpdate(Frame.n) BY <1>19, <2>1, <2>2, Ending DEF WindowUpdateStream
    <2>3. CASE ~BadStreamUpdate(Frame.n) /\ Frame.id \in Open
      <3> DEFINE s == Granted(streams[Frame.id], Frame.n)
                 n == Pumped(s, conn_send_window)
      <3>1. streams' = [streams EXCEPT ![Frame.id] = Drained(s, n)] /\ UNCHANGED result
        BY <1>19, <2>3 DEF WindowUpdateStream
      <3>2. DOMAIN s = StreamFields /\ s.req = streams[Frame.id].req BY <1>7, <2>3, GrantedFields
      <3> HIDE DEF s, n
      <3>3. DOMAIN Drained(s, n) = StreamFields /\ Drained(s, n).req = streams[Frame.id].req
        BY <3>2, DrainedFields
      <3>4. /\ DOMAIN streams' = Open
            /\ \A j \in Open : streams'[j].req = streams[j].req /\ DOMAIN streams'[j] = StreamFields
        BY <1>7, <3>1, <3>3 DEF Open
      <3> QED BY <2>1, <3>1, <3>4, <1>6
    <2>4. CASE ~BadStreamUpdate(Frame.n) /\ Frame.id \notin Open
      BY <1>5, <1>19, <2>1, <2>4 DEF WindowUpdateStream
    <2> QED BY <2>2, <2>3, <2>4
  <1>20. CASE UNCHANGED clientvars BY <1>5, <1>20 DEF clientvars, conn
  <1> QED BY <1>1, <1>2, <1>3, <1>8, <1>9, <1>10, <1>11, <1>12, <1>14, <1>15, <1>16, <1>17, <1>18, <1>19, <1>20
         DEF ClientNext, Drive

\* What the channels do is what a promise may do.
LEMMA ChannelsKeepPromises ==
  ASSUME StreamsAndChannels, StreamsAndChannels', ChannelsStep PROVE [Caller!PromiseNext]_ClientPromise
  <1> DEFINE p == [r \in Requests |-> Shown(result[r])]
             q == [r \in Requests |-> Shown(result'[r])]
  <1>1. ClientPromise = p BY PromiseIsShown
  <1>2. (StreamsAndChannels => ClientPromise = [r \in Requests |-> Shown(result[r])])' BY PromiseIsShown, PTL
  <1>3. ClientPromise' = q BY <1>2
  <1>4. \A r \in Requests : p[r] = Shown(result[r]) /\ q[r] = Shown(result'[r]) OBVIOUS
  <1>5. result \in [Requests -> {"new", "waiting", "ok", "error", "dropped"}] BY DEF StreamsAndChannels
  <1>6. CASE result' = result
    <2>1. p = q BY <1>6
    <2> QED BY <1>1, <1>3, <2>1
  <1>7. ASSUME NEW r \in Requests, result[r] = "new", result' = [result EXCEPT ![r] = "waiting"]
        PROVE  [Caller!PromiseNext]_ClientPromise
    <2>1. p[r] = "none" /\ q = [p EXCEPT ![r] = "pending"] BY <1>5, <1>7 DEF Shown
    <2>2. Caller!Make(r) BY <1>1, <1>3, <2>1 DEF Caller!Make
    <2> QED BY <2>2 DEF Caller!PromiseNext
  <1>8. ASSUME NEW r \in Requests, result[r] = "new", result' = [result EXCEPT ![r] = "error"]
        PROVE  [Caller!PromiseNext]_ClientPromise
    <2>1. p[r] = "none" /\ q = [p EXCEPT ![r] = "failed"] BY <1>5, <1>8 DEF Shown
    <2>2. Caller!Refuse(r) BY <1>1, <1>3, <2>1 DEF Caller!Refuse
    <2> QED BY <2>2 DEF Caller!PromiseNext
  <1>9. ASSUME NEW how \in {"ok", "error", "dropped"},
               result' \in [Requests -> {"new", "waiting", "ok", "error", "dropped"}],
               \A r \in Requests : result'[r] # result[r] => result[r] = "waiting" /\ result'[r] = how,
               how = "ok" => \A x, r \in Requests : result'[x] # result[x] /\ result'[r] # result[r] => x = r
        PROVE  [Caller!PromiseNext]_ClientPromise
    <2> DEFINE S == {r \in Requests : result'[r] # result[r]}
    <2>0. \A r \in S : p[r] = "pending" /\ q[r] = Shown(how) BY <1>4, <1>9 DEF Shown
    <2>1. \A r \in Requests \ S : q[r] = p[r] BY <1>4
    <2>2. CASE S = {}
      <3>1. result' = result BY <2>2, <1>5, <1>9
      <3> QED BY <1>6, <3>1
    <2>3. CASE S # {} /\ how = "ok"
      <3>1. PICK r \in S : TRUE BY <2>3
      <3>2. S = {r} BY <1>9, <2>3, <3>1
      <3>3. Shown(how) = "answered" BY <2>3 DEF Shown
      <3>4. p[r] = "pending" /\ q = [p EXCEPT ![r] = "answered"] BY <2>0, <2>1, <3>1, <3>2, <3>3
      <3>5. Caller!Answer(r) BY <1>1, <1>3, <3>4 DEF Caller!Answer
      <3> QED BY <3>5 DEF Caller!PromiseNext
    <2>4. CASE S # {} /\ how # "ok"
      <3>1. Shown(how) = "failed" BY <1>9, <2>4 DEF Shown
      <3>2. q = [r \in Requests |-> IF r \in S THEN "failed" ELSE p[r]] BY <2>0, <2>1, <3>1
      <3>3. \A r \in S : p[r] = "pending" BY <2>0
      <3> HIDE DEF p, q, S
      <3>4. Caller!Fail(S) BY <1>1, <1>3, <3>2, <3>3 DEF Caller!Fail
      <3>5. S \in (SUBSET Requests) \ {{}} BY <2>4 DEF S
      <3> QED BY <3>4, <3>5 DEF Caller!PromiseNext
    <2> QED BY <2>2, <2>3, <2>4
  <1> QED BY <1>6, <1>7, <1>8, <1>9 DEF ChannelsStep

\* The channels and streams of a connection implement Promise: every call of dispatch is
\* settled at most once, and until then exactly one open stream of a live connection works on it.
THEOREM EveryCallIsSettledOnce == ClientSpec => ClientKeepsPromises
  <1>1. ClientInit => StreamsAndChannels BY DEF ClientInit, StreamsAndChannels, Open
  <1>2. ClientInit => Caller!PromiseInit
    <2> SUFFICES ASSUME ClientInit PROVE ClientPromise = [r \in Requests |-> "none"] BY DEF Caller!PromiseInit
    <2>1. ClientPromise = [r \in Requests |-> Shown(result[r])] BY <1>1, PromiseIsShown
    <2>2. \A r \in Requests : Shown(result[r]) = "none" BY DEF ClientInit, Shown
    <2> QED BY <2>1, <2>2
  <1>3. StreamsAndChannels /\ [ClientNext]_clientvars => StreamsAndChannels' /\ ChannelsStep BY StreamsNext
  <1>4. StreamsAndChannels /\ StreamsAndChannels' /\ ChannelsStep => [Caller!PromiseNext]_ClientPromise
    BY ChannelsKeepPromises
  <1> QED BY <1>1, <1>2, <1>3, <1>4, PTL DEF ClientSpec, ClientKeepsPromises, Caller!PromiseSpec


\* A frame of the peer as it lies in the receive buffer.
WireFrame == [type : {"HEADERS", "CONTINUATION", "DATA", "RST_STREAM", "SETTINGS", "WINDOW_UPDATE", "GOAWAY"},
              id : Nat, n : 0..MAX_WINDOW, end_headers : BOOLEAN, end_stream : BOOLEAN]

\* A stream's window is what the peer granted it, by init at first, less what was sent.
StreamCredit(s, init) ==
    /\ DOMAIN s = StreamFields /\ s.req \in Requests
    /\ s.left \in Nat /\ s.send_window \in Int /\ s.granted \in Nat
    /\ LET owed == init + s.granted - (Body[s.req] - s.left)
       IN  s.send_window = owed \/ (s.capped /\ s.send_window < owed)

\* A stream that owes bytes has one of its windows closed.
Waits(s, window) == s.left > 0 => window <= 0 \/ s.send_window <= 0

CreditInv ==
    /\ inbox \in Seq(WireFrame) /\ DOMAIN peer \subseteq Nat
    /\ peer_initial_window \in 0..MAX_WINDOW
    /\ conn_granted \in Nat /\ conn_sent \in Nat
    /\ conn_send_window = DEFAULT_WINDOW + conn_granted - conn_sent
    /\ conn_send_window \in 0..MAX_WINDOW
    /\ \A i \in Open : StreamCredit(streams[i], peer_initial_window)
    /\ \A i \in Open : pc # "pump" \/ i \notin to_pump => Waits(streams[i], conn_send_window)
    /\ pc = "pump" => to_pump \subseteq Open

\* A pump sends what both windows allow, and stops only at one of them.
LEMMA PumpedIs ==
  ASSUME NEW s, s.left \in Nat, s.send_window \in Int, NEW window \in Nat
  PROVE  LET n == Pumped(s, window)
         IN  /\ n \in Nat /\ n <= s.left /\ n <= window
             /\ s.left - n > 0 => window - n <= 0 \/ s.send_window - n <= 0
  BY DEF Pumped, Min2

\* A stream that was pumped has its credit right and waits only at a closed window.
LEMMA DrainKeeps ==
  ASSUME NEW s, NEW init \in Nat, StreamCredit(s, init), NEW window \in Nat, NEW n, n = Pumped(s, window)
  PROVE  /\ StreamCredit(Drained(s, n), init) /\ Waits(Drained(s, n), window - n)
         /\ n \in Nat /\ n <= window
  <1> DEFINE d == Drained(s, n)
  <1>1. DOMAIN s = StreamFields /\ s.left \in Nat /\ s.send_window \in Int /\ s.granted \in Nat /\ s.req \in Requests
    BY DEF StreamCredit
  <1>2. /\ n \in Nat /\ n <= s.left /\ n <= window
        /\ s.left - n > 0 => window - n <= 0 \/ s.send_window - n <= 0
    BY <1>1, PumpedIs
  <1>3. /\ DOMAIN d = StreamFields /\ d.req = s.req /\ d.left = s.left - n /\ d.send_window = s.send_window - n
        /\ d.granted = s.granted /\ d.capped = s.capped
    BY <1>1, DrainedFields
  <1> HIDE DEF d
  <1>4. Body[s.req] \in Nat BY <1>1, BodyAssumption
  <1>5. d.left \in Nat /\ d.send_window \in Int BY <1>1, <1>2, <1>3
  <1>6. LET owed == init + d.granted - (Body[d.req] - d.left)
        IN  d.send_window = owed \/ (d.capped /\ d.send_window < owed)
    <2> DEFINE o == init + s.granted - (Body[s.req] - s.left)
    <2>1. o \in Int /\ init + d.granted - (Body[d.req] - d.left) = o - n BY <1>1, <1>2, <1>3, <1>4
    <2>2. s.send_window = o \/ (s.capped /\ s.send_window < o) BY DEF StreamCredit
    <2> HIDE DEF o
    <2> QED BY <1>1, <1>2, <1>3, <2>1, <2>2
  <1>7. StreamCredit(d, init) BY <1>1, <1>3, <1>5, <1>6 DEF StreamCredit
  <1>8. Waits(d, window - n) BY <1>2, <1>3 DEF Waits
  <1> QED BY <1>2, <1>7, <1>8 DEF d

\* A grant keeps the stream's account.
LEMMA GrantKeeps ==
  ASSUME NEW s, NEW init \in Nat, StreamCredit(s, init), NEW n \in Nat
  PROVE  StreamCredit(Granted(s, n), init)
  <1> DEFINE d == Granted(s, n)
  <1>1. DOMAIN s = StreamFields /\ s.left \in Nat /\ s.send_window \in Int /\ s.granted \in Nat /\ s.req \in Requests
    BY DEF StreamCredit
  <1>3. /\ DOMAIN d = StreamFields /\ d.req = s.req /\ d.left = s.left /\ d.send_window = s.send_window + n
        /\ d.granted = s.granted + n /\ d.capped = s.capped
    BY <1>1, GrantedFields
  <1> HIDE DEF d
  <1>4. Body[s.req] \in Nat BY <1>1, BodyAssumption
  <1>5. d.left \in Nat /\ d.send_window \in Int /\ d.granted \in Nat BY <1>1, <1>3
  <1>6. LET owed == init + d.granted - (Body[d.req] - d.left)
        IN  d.send_window = owed \/ (d.capped /\ d.send_window < owed)
    <2> DEFINE o == init + s.granted - (Body[s.req] - s.left)
    <2>1. o \in Int /\ init + d.granted - (Body[d.req] - d.left) = o + n BY <1>1, <1>3, <1>4
    <2>2. s.send_window = o \/ (s.capped /\ s.send_window < o) BY DEF StreamCredit
    <2> HIDE DEF o
    <2> QED BY <1>1, <1>3, <2>1, <2>2
  <1>7. StreamCredit(d, init) BY <1>1, <1>3, <1>5, <1>6 DEF StreamCredit
  <1> QED BY <1>7 DEF d

\* A stream whose credit is the same.
LEMMA SameCredit ==
  ASSUME NEW s, NEW d, NEW init, StreamCredit(s, init), DOMAIN d = StreamFields, d.req = s.req, d.left = s.left,
         d.send_window = s.send_window, d.granted = s.granted, d.capped = s.capped
  PROVE  StreamCredit(d, init) /\ \A window : Waits(s, window) => Waits(d, window)
  BY DEF StreamCredit, Waits

\* A new stream's account is right.
LEMMA NewCredit ==
  ASSUME NEW r \in Requests, NEW init \in Nat PROVE StreamCredit(NewStream(r, init), init)
  <1> DEFINE s == NewStream(r, init)
  <1>1. /\ DOMAIN s = StreamFields /\ s.req = r /\ s.left = Body[r] /\ s.send_window = init /\ s.granted = 0
    BY NewStreamFields
  <1>2. Body[r] \in Nat BY BodyAssumption
  <1> HIDE DEF s
  <1>3. s.send_window = init + s.granted - (Body[s.req] - s.left) BY <1>1, <1>2
  <1> QED BY <1>1, <1>2, <1>3 DEF StreamCredit, s

\* SETTINGS moves a stream's window by the change.
LEMMA SettingsKeep ==
  ASSUME NEW s, NEW init \in Nat, NEW n \in Nat, StreamCredit(s, init), NEW d,
         d = [s EXCEPT !.send_window = Min2(MAX_WINDOW, @ + (n - init)),
                       !.capped = @ \/ s.send_window + (n - init) > MAX_WINDOW]
  PROVE  StreamCredit(d, n)
  <1>1. DOMAIN s = StreamFields /\ s.left \in Nat /\ s.send_window \in Int /\ s.granted \in Nat /\ s.req \in Requests
    BY DEF StreamCredit
  <1>2. MAX_WINDOW \in Nat BY WindowAssumption
  <1>3. /\ DOMAIN d = StreamFields /\ d.req = s.req /\ d.left = s.left /\ d.granted = s.granted
        /\ d.send_window = Min2(MAX_WINDOW, s.send_window + (n - init))
        /\ d.capped <=> (s.capped \/ s.send_window + (n - init) > MAX_WINDOW)
    BY <1>1 DEF StreamFields
  <1>4. Body[s.req] \in Nat BY <1>1, BodyAssumption
  <1> DEFINE o == init + s.granted - (Body[s.req] - s.left)
  <1>5. o \in Int /\ n + d.granted - (Body[d.req] - d.left) = o + (n - init) BY <1>1, <1>3, <1>4
  <1>6. s.send_window = o \/ (s.capped /\ s.send_window < o) BY DEF StreamCredit
  <1> HIDE DEF o
  <1>7. d.send_window \in Int BY <1>1, <1>2, <1>3 DEF Min2
  <1>8. d.send_window = o + (n - init) \/ (d.capped /\ d.send_window < o + (n - init))
    <2>1. CASE s.send_window + (n - init) > MAX_WINDOW
      <3>1. d.send_window = MAX_WINDOW /\ d.capped BY <1>1, <1>2, <1>3, <2>1 DEF Min2
      <3>2. s.send_window <= o BY <1>1, <1>5, <1>6
      <3>3. MAX_WINDOW < o + (n - init) BY <1>1, <1>2, <1>5, <2>1, <3>2
      <3> QED BY <3>1, <3>3
    <2>2. CASE ~(s.send_window + (n - init) > MAX_WINDOW)
      <3>1. d.send_window = s.send_window + (n - init) BY <1>1, <1>2, <1>3, <2>2 DEF Min2
      <3>2. s.capped => d.capped BY <1>3
      <3> QED BY <1>1, <1>5, <1>6, <3>1, <3>2
    <2> QED BY <2>1, <2>2
  <1> QED BY <1>1, <1>3, <1>5, <1>7, <1>8 DEF StreamCredit

\* The frame at hand is one the wire can carry.
LEMMA FrameIs ==
  ASSUME CreditInv, inbox # <<>>
  PROVE  /\ Frame \in WireFrame /\ Tail(inbox) \in Seq(WireFrame)
         /\ Frame.n \in 0..MAX_WINDOW /\ Frame.id \in Nat
  <1>1. inbox \in Seq(WireFrame) BY DEF CreditInv
  <1>2. Frame \in WireFrame /\ Tail(inbox) \in Seq(WireFrame) BY <1>1 DEF Frame
  <1> QED BY <1>2 DEF WireFrame

\* A frame of the peer is one.
LEMMA SentIsFrame ==
  ASSUME CreditInv, NEW type \in {"HEADERS", "CONTINUATION", "DATA", "RST_STREAM", "SETTINGS", "WINDOW_UPDATE", "GOAWAY"},
         NEW id \in Nat, NEW n \in 0..MAX_WINDOW, NEW eh \in BOOLEAN, NEW es \in BOOLEAN,
         Sends(type, id, n, eh, es)
  PROVE  /\ inbox' \in Seq(WireFrame) /\ pc # "pump" /\ pc' # "pump"
         /\ UNCHANGED <<streams, conn_send_window, peer_initial_window, conn_granted, conn_sent>>
  <1> DEFINE f == [type |-> type, id |-> id, n |-> n, end_headers |-> eh, end_stream |-> es]
  <1>1. f \in WireFrame BY DEF WireFrame
  <1>2. inbox \in Seq(WireFrame) BY DEF CreditInv
  <1>3. inbox' = Append(inbox, f) BY DEF Sends
  <1> HIDE DEF f
  <1>4. inbox' \in Seq(WireFrame) BY <1>1, <1>2, <1>3
  <1> QED BY <1>4 DEF Sends, Speaks, conn

\* No credit moves; a stream may end or note its headers.
LEMMA CreditStays ==
  ASSUME CreditInv, pc # "pump", pc' # "pump", inbox' \in Seq(WireFrame), DOMAIN peer' \subseteq Nat,
         UNCHANGED <<conn_send_window, peer_initial_window, conn_granted, conn_sent>>, DOMAIN streams' \subseteq Open,
         \A i \in DOMAIN streams' :
             \/ streams'[i] = streams[i]
             \/ /\ DOMAIN streams'[i] = StreamFields /\ streams'[i].req = streams[i].req
                /\ streams'[i].left = streams[i].left /\ streams'[i].send_window = streams[i].send_window
                /\ streams'[i].granted = streams[i].granted /\ streams'[i].capped = streams[i].capped
  PROVE  CreditInv'
  <1>1. Open' = DOMAIN streams' BY DEF Open
  <1>2. ASSUME NEW i \in DOMAIN streams'
        PROVE  StreamCredit(streams'[i], peer_initial_window) /\ Waits(streams'[i], conn_send_window)
    <2>1. StreamCredit(streams[i], peer_initial_window) /\ Waits(streams[i], conn_send_window)
      BY DEF CreditInv
    <2>2. CASE streams'[i] = streams[i] BY <2>1, <2>2
    <2>3. CASE streams'[i] # streams[i] BY <2>1, <2>3, SameCredit
    <2> QED BY <2>2, <2>3
  <1> QED BY <1>1, <1>2 DEF CreditInv

\* A dead connection has no account to keep.
LEMMA CreditDies ==
  ASSUME CreditInv, MarkDead PROVE CreditInv'
  <1>1. /\ DOMAIN streams' = {} /\ pc' = "idle" /\ inbox' = <<>>
        /\ UNCHANGED <<conn_send_window, peer_initial_window, peer, conn_granted, conn_sent>>
    BY MarkDeadIs
  <1>2. Open' = {} BY <1>1 DEF Open
  <1>3. inbox' \in Seq(WireFrame) BY <1>1
  <1> QED BY <1>1, <1>2, <1>3 DEF CreditInv

\* A stream is pumped, others wait as before.
LEMMA CreditPumped ==
  ASSUME CreditInv, NEW i \in Open, NEW s, StreamCredit(s, peer_initial_window), NEW n,
         n = Pumped(s, conn_send_window), streams' = [streams EXCEPT ![i] = Drained(s, n)],
         conn_send_window' = conn_send_window - n, conn_sent' = conn_sent + n,
         UNCHANGED <<peer_initial_window, conn_granted, peer>>, inbox' \in Seq(WireFrame), pc' = pc,
         to_pump' = to_pump \/ to_pump' = to_pump \ {i}
  PROVE  CreditInv'
  <1>1. conn_send_window \in Nat /\ peer_initial_window \in Nat /\ conn_sent \in Nat /\ conn_granted \in Nat
    BY DEF CreditInv
  <1>2. /\ StreamCredit(Drained(s, n), peer_initial_window) /\ Waits(Drained(s, n), conn_send_window - n)
        /\ n \in Nat /\ n <= conn_send_window
    BY <1>1, DrainKeeps
  <1>3. Open' = Open /\ streams'[i] = Drained(s, n) /\ \A j \in Open : j # i => streams'[j] = streams[j]
    BY DEF Open
  <1>4. ASSUME NEW j \in Open, pc # "pump" \/ j \notin to_pump', j # i
        PROVE Waits(streams'[j], conn_send_window')
    <2>1. Waits(streams[j], conn_send_window) BY <1>4 DEF CreditInv
    <2> QED BY <1>1, <1>2, <1>3, <1>4, <2>1 DEF Waits
  <1>5. /\ conn_send_window' = DEFAULT_WINDOW + conn_granted - conn_sent' /\ conn_sent' \in Nat
        /\ conn_send_window' \in 0..MAX_WINDOW
    <2>1. /\ conn_send_window = DEFAULT_WINDOW + conn_granted - conn_sent /\ conn_send_window <= MAX_WINDOW
          /\ DEFAULT_WINDOW \in Nat /\ MAX_WINDOW \in Nat
      BY WindowAssumption DEF CreditInv
    <2>2. conn_sent' \in Nat BY <1>1, <1>2
    <2> QED BY <1>1, <1>2, <2>1, <2>2
  <1>6. \A j \in Open : StreamCredit(streams'[j], peer_initial_window) BY <1>2, <1>3 DEF CreditInv
  <1>7. \A j \in Open : pc # "pump" \/ j \notin to_pump' => Waits(streams'[j], conn_send_window')
    BY <1>2, <1>3, <1>4
  <1> QED BY <1>3, <1>5, <1>6, <1>7 DEF CreditInv

\* All the streams that owe bytes are to be pumped.
LEMMA CreditToPump ==
  ASSUME CreditInv, NEW w, w = DOMAIN streams', w = Open, pc' = "pump",
         inbox' \in Seq(WireFrame), DOMAIN peer' \subseteq Nat, peer_initial_window' \in 0..MAX_WINDOW,
         conn_granted' \in Nat, UNCHANGED conn_sent, conn_send_window' = DEFAULT_WINDOW + conn_granted' - conn_sent,
         conn_send_window' \in 0..MAX_WINDOW,
         \A i \in Open : StreamCredit(streams'[i], peer_initial_window') /\ streams'[i].left = streams[i].left,
         to_pump' = {i \in Open : streams[i].left > 0}
  PROVE  CreditInv'
  <1>1. Open' = Open BY DEF Open
  <1>2. \A i \in Open : pc' # "pump" \/ i \notin to_pump' => Waits(streams'[i], conn_send_window') BY DEF Waits
  <1> QED BY <1>1, <1>2 DEF CreditInv

\* A new stream has its window of credit, and is pumped.
LEMMA StreamIsOpened ==
  ASSUME NEW r \in Requests, NEW id, id \notin Open, NEW init \in Nat, NEW window \in Nat,
         OpenStream(r, id, window, init)
  PROVE  \E n \in Nat :
            /\ n <= window /\ Body[r] - streams'[id].left = n /\ conn_send_window' = window - n
            /\ DOMAIN streams' = Open \cup {id} /\ \A i \in Open : streams'[i] = streams[i]
            /\ StreamCredit(streams'[id], init) /\ Waits(streams'[id], window - n)
  <1> DEFINE s == NewStream(r, init)
             n == Pumped(s, window)
  <1>1. /\ DOMAIN streams' = Open \cup {id} /\ streams'[id] = Drained(s, n)
        /\ \A i \in Open : streams'[i] = streams[i]
        /\ conn_send_window' = window - n
    BY OpenStreamIs
  <1>2. StreamCredit(s, init) BY NewCredit
  <1>3. DOMAIN s = StreamFields /\ s.left = Body[r] BY NewStreamFields
  <1> HIDE DEF s
  <1>4. StreamCredit(Drained(s, n), init) /\ Waits(Drained(s, n), window - n) /\ n \in Nat /\ n <= window
    BY <1>2, DrainKeeps
  <1>5. Drained(s, n).left = Body[r] - n BY <1>3, DrainedFields
  <1> HIDE DEF n
  <1>6. Body[r] - streams'[id].left = n BY <1>1, <1>4, <1>5, BodyAssumption
  <1> QED BY <1>1, <1>4, <1>6

\* What an opening leaves of the connection's window.
LEMMA OpeningSums ==
  ASSUME NEW w \in Nat, NEW n \in Nat, NEW sent \in Nat, NEW d \in Nat, NEW g \in Nat, NEW m \in Nat,
         w <= m, n <= w, w = d + g - sent
  PROVE  w - n = d + g - (sent + n) /\ w - n \in 0..m /\ sent + n \in Nat
  OBVIOUS

\* A body that waits goes on waiting when the connection's window shrinks.
LEMMA WaitsLonger ==
  ASSUME NEW s, NEW w \in Nat, NEW n \in Nat, Waits(s, w) PROVE Waits(s, w - n)
  BY DEF Waits

\* Opening a stream and pumping it keeps every account.
LEMMA CreditOpens ==
  ASSUME CreditInv, NEW id, NEW init, NEW w, NEW n \in Nat,
         init \in 0..MAX_WINDOW, w \in Nat,
         conn_send_window' = w - n, DOMAIN streams' = Open \cup {id},
         \A i \in Open : streams'[i] = streams[i],
         StreamCredit(streams'[id], init), Waits(streams'[id], w - n),
         pc' # "pump", pc # "pump", inbox' \in Seq(WireFrame), DOMAIN peer' \subseteq Nat,
         conn_granted' \in Nat, conn_sent' \in Nat,
         conn_send_window' = DEFAULT_WINDOW + conn_granted' - conn_sent', conn_send_window' \in 0..MAX_WINDOW,
         peer_initial_window' = init, Open = {} \/ (init = peer_initial_window /\ w = conn_send_window)
  PROVE  CreditInv'
  <1>3. Open' = Open \cup {id} BY DEF Open
  <1>4. ASSUME NEW i \in Open PROVE StreamCredit(streams'[i], init) /\ Waits(streams'[i], w - n)
    <2>1. init = peer_initial_window /\ w = conn_send_window OBVIOUS
    <2>2. StreamCredit(streams[i], init) /\ Waits(streams[i], w) BY <2>1 DEF CreditInv
    <2>3. Waits(streams[i], w - n) BY <2>2, WaitsLonger
    <2> QED BY <2>2, <2>3
  <1>5. \A i \in Open' : StreamCredit(streams'[i], peer_initial_window') /\ Waits(streams'[i], conn_send_window')
    BY <1>3, <1>4
  <1>6. peer_initial_window' \in 0..MAX_WINDOW OBVIOUS
  <1> QED BY <1>5, <1>6 DEF CreditInv

\* Every step keeps the accounts of the windows.
LEMMA CreditNext ==
  ASSUME CreditInv, StreamsAndChannels, [ClientNext]_clientvars PROVE CreditInv'
  <1>0. /\ DEFAULT_WINDOW \in Nat /\ MAX_WINDOW \in Nat /\ DEFAULT_WINDOW \in 0..MAX_WINDOW
        /\ Windows \subseteq 0..MAX_WINDOW /\ Increments \subseteq 0..MAX_WINDOW
    BY WindowAssumption
  <1>00. /\ inbox \in Seq(WireFrame) /\ DOMAIN peer \subseteq Nat /\ peer_initial_window \in 0..MAX_WINDOW
         /\ conn_send_window \in 0..MAX_WINDOW /\ conn_sent \in Nat /\ conn_granted \in Nat
         /\ conn_send_window = DEFAULT_WINDOW + conn_granted - conn_sent
    BY DEF CreditInv
  <1>1. ASSUME NEW r \in Requests, Dispatch(r) PROVE CreditInv'
    <2>1. next_stream_id \in Nat /\ next_stream_id \notin Open BY DEF StreamsAndChannels
    <2>2. /\ OpenStream(r, next_stream_id, conn_send_window, peer_initial_window) /\ pc # "pump" /\ pc' # "pump"
          /\ conn_sent' = conn_sent + (Body[r] - streams'[next_stream_id].left)
          /\ UNCHANGED <<inbox, conn_granted, peer_initial_window>>
          /\ DOMAIN peer' = (DOMAIN peer) \cup {next_stream_id}
      BY <1>1 DEF Dispatch
    <2>3. DOMAIN peer' \subseteq Nat BY <1>00, <2>1, <2>2
    <2>4. conn_send_window \in Nat /\ peer_initial_window \in Nat BY <1>0, <1>00
    <2>5. PICK n \in Nat :
            /\ n <= conn_send_window /\ Body[r] - streams'[next_stream_id].left = n
            /\ conn_send_window' = conn_send_window - n
            /\ DOMAIN streams' = Open \cup {next_stream_id} /\ \A i \in Open : streams'[i] = streams[i]
            /\ StreamCredit(streams'[next_stream_id], peer_initial_window)
            /\ Waits(streams'[next_stream_id], conn_send_window - n)
      BY <2>1, <2>2, <2>4, StreamIsOpened
    <2>6. conn_sent' = conn_sent + n BY <2>2, <2>5
    <2>7. /\ conn_send_window - n = DEFAULT_WINDOW + conn_granted - (conn_sent + n)
          /\ conn_send_window - n \in 0..MAX_WINDOW /\ conn_sent + n \in Nat
      <3>1. conn_send_window <= MAX_WINDOW BY <1>0, <1>00
      <3> QED BY <1>0, <1>00, <2>4, <2>5, <3>1, OpeningSums, SMTT(30)
    <2>8. /\ conn_send_window' = DEFAULT_WINDOW + conn_granted' - conn_sent'
          /\ conn_send_window' \in 0..MAX_WINDOW /\ conn_sent' \in Nat /\ conn_granted' \in Nat
          /\ inbox' \in Seq(WireFrame)
      BY <1>00, <2>2, <2>5, <2>6, <2>7
    <2> QED BY <1>00, <2>2, <2>3, <2>4, <2>5, <2>8, CreditOpens
  <1>2. ASSUME NEW r \in Requests, DispatchConnects(r) PROVE CreditInv'
    <2>1. /\ OpenStream(r, 1, DEFAULT_WINDOW, DEFAULT_WINDOW) /\ pc # "pump" /\ pc' # "pump" /\ is_dead
          /\ conn_sent' = Body[r] - streams'[1].left /\ conn_granted' = 0 /\ inbox' = <<>>
          /\ peer_initial_window' = DEFAULT_WINDOW /\ DOMAIN peer' = {1}
      BY <1>2 DEF DispatchConnects, Connected
    <2>2. Open = {} /\ 1 \notin Open BY <2>1 DEF StreamsAndChannels
    <2>3. inbox' \in Seq(WireFrame) /\ DOMAIN peer' \subseteq Nat BY <2>1
    <2>4. PICK n \in Nat :
            /\ n <= DEFAULT_WINDOW /\ Body[r] - streams'[1].left = n /\ conn_send_window' = DEFAULT_WINDOW - n
            /\ DOMAIN streams' = Open \cup {1} /\ \A i \in Open : streams'[i] = streams[i]
            /\ StreamCredit(streams'[1], DEFAULT_WINDOW) /\ Waits(streams'[1], DEFAULT_WINDOW - n)
      BY <1>0, <2>1, <2>2, StreamIsOpened
    <2>5. conn_sent' = 0 + n BY <2>1, <2>4
    <2>6. DEFAULT_WINDOW = DEFAULT_WINDOW + conn_granted' - 0 /\ conn_granted' \in Nat BY <1>0, <2>1
    <2>7. /\ DEFAULT_WINDOW - n = DEFAULT_WINDOW + 0 - (0 + n)
          /\ DEFAULT_WINDOW - n \in 0..MAX_WINDOW /\ 0 + n \in Nat
      BY <1>0, <2>4
    <2>8. /\ conn_send_window' = DEFAULT_WINDOW + conn_granted' - conn_sent'
          /\ conn_send_window' \in 0..MAX_WINDOW /\ conn_sent' \in Nat
      BY <2>1, <2>4, <2>5, <2>7
    <2> QED BY <1>0, <2>1, <2>2, <2>3, <2>4, <2>6, <2>8, CreditOpens
  <1>3. ASSUME NEW r \in Requests, ConnectFails(r) PROVE CreditInv'
    BY <1>3 DEF ConnectFails, conn, remote, CreditInv, Open
  <1>4. CASE MarkDead BY <1>4, CreditDies
  <1>5. ASSUME UNCHANGED <<streams, conn_send_window, peer_initial_window, conn_granted, conn_sent, inbox, peer>>,
               pc # "pump", pc' # "pump"
        PROVE  CreditInv'
    BY <1>00, <1>5, CreditStays DEF Open
  <1>6. CASE Flush
    <2>1. /\ UNCHANGED <<streams, conn_send_window, peer_initial_window, conn_granted, conn_sent, inbox>>
          /\ pc # "pump" /\ pc' # "pump" /\ DOMAIN peer' = DOMAIN peer
      BY <1>6 DEF Flush
    <2> QED BY <1>00, <2>1, CreditStays DEF Open
  <1>7. CASE FlushFails \/ ExpectedContinuation \/ GoAway BY <1>7, <1>4 DEF FlushFails, ExpectedContinuation, GoAway
  <1>8. CASE DriveEnds BY <1>8, <1>4, <1>5 DEF DriveEnds, conn, remote
  <1>9. ASSUME NEW type, Handles(type), Taken
        PROVE  Tail(inbox) \in Seq(WireFrame) /\ inbox' = Tail(inbox) /\ UNCHANGED peer /\ pc = "parse"
               /\ Frame.n \in 0..MAX_WINDOW
    BY <1>9, FrameIs DEF Handles, Taken
  <1>10. CASE Settings
    <2>1. /\ Tail(inbox) \in Seq(WireFrame) /\ inbox' = Tail(inbox) /\ UNCHANGED peer /\ pc = "parse"
          /\ Frame.n \in 0..MAX_WINDOW
      BY <1>9, <1>10 DEF Settings
    <2>2. /\ pc' = "pump" /\ to_pump' = {i \in Open : streams[i].left > 0} /\ peer_initial_window' = Frame.n
          /\ UNCHANGED <<conn_send_window, conn_granted, conn_sent>> /\ DOMAIN streams' = Open
      BY <1>10 DEF Settings
    <2>3. ASSUME NEW i \in Open
          PROVE  StreamCredit(streams'[i], Frame.n) /\ streams'[i].left = streams[i].left
      <3>1. StreamCredit(streams[i], peer_initial_window) BY DEF CreditInv
      <3>2. streams'[i] = [streams[i] EXCEPT !.send_window = Min2(MAX_WINDOW, @ + (Frame.n - peer_initial_window)),
                             !.capped = @ \/ streams[i].send_window + (Frame.n - peer_initial_window) > MAX_WINDOW]
        BY <1>10 DEF Settings
      <3>3. Frame.n \in Nat /\ peer_initial_window \in Nat BY <1>0, <1>00, <2>1
      <3>4. StreamCredit(streams'[i], Frame.n) BY <3>1, <3>2, <3>3, SettingsKeep
      <3>5. streams'[i].left = streams[i].left BY <3>1, <3>2 DEF StreamCredit, StreamFields
      <3> QED BY <3>4, <3>5
    <2> QED BY <1>00, <2>1, <2>2, <2>3, CreditToPump
  <1>11. CASE PumpAll
    <2>1. UNCHANGED <<peer_initial_window, conn_granted, peer, inbox>> /\ pc = "pump" BY <1>11 DEF PumpAll, remote
    <2>2. CASE to_pump = {}
      <3>1. pc' = "parse" /\ UNCHANGED <<streams, conn_send_window, conn_sent, to_pump>> /\ Open' = Open
        BY <1>11, <2>2 DEF PumpAll, Open
      <3> QED BY <2>1, <2>2, <3>1 DEF CreditInv
    <2>3. CASE to_pump # {}
      <3>1. PICK i \in to_pump :
              LET n == Pumped(streams[i], conn_send_window)
              IN  /\ streams' = [streams EXCEPT ![i] = Drained(@, n)]
                  /\ conn_send_window' = conn_send_window - n
                  /\ conn_sent' = conn_sent + n
                  /\ to_pump' = to_pump \ {i}
                  /\ UNCHANGED pc
        BY <1>11, <2>3 DEF PumpAll
      <3> DEFINE n == Pumped(streams[i], conn_send_window)
      <3>2. CASE i \in Open
        <4>1. StreamCredit(streams[i], peer_initial_window) BY <3>2 DEF CreditInv
        <4>2. streams' = [streams EXCEPT ![i] = Drained(streams[i], n)] BY <3>1
        <4> QED BY <1>00, <2>1, <3>1, <3>2, <4>1, <4>2, CreditPumped
      <3> QED BY <2>1, <3>2 DEF CreditInv
    <2> QED BY <2>2, <2>3
  <1>12. ASSUME NEW type, Handles(type), Taken, NEW id, streams' = Only(streams, Open \ {id}),
                UNCHANGED <<conn_send_window, peer_initial_window, pc, conn_granted, conn_sent>>
         PROVE  CreditInv'
    <2>1. DOMAIN streams' \subseteq Open /\ \A i \in DOMAIN streams' : streams'[i] = streams[i] BY <1>12 DEF Only
    <2>2. Tail(inbox) \in Seq(WireFrame) /\ inbox' = Tail(inbox) /\ UNCHANGED peer /\ pc = "parse" BY <1>9, <1>12
    <2> QED BY <1>00, <1>12, <2>1, <2>2, CreditStays
  <1>13. CASE Headers
    <2>1. /\ Handles("HEADERS") /\ Taken
          /\ UNCHANGED <<conn_send_window, peer_initial_window, pc, conn_granted, conn_sent>>
      BY <1>13 DEF Headers
    <2>2. CASE Frame.end_stream BY <1>12, <1>13, <2>1, <2>2 DEF Headers, CompleteStream
    <2>3. CASE ~Frame.end_stream
      <3>1. DOMAIN streams' = Open BY <1>13, <2>3 DEF Headers
      <3>2. ASSUME NEW i \in Open
            PROVE  \/ streams'[i] = streams[i]
                   \/ /\ DOMAIN streams'[i] = StreamFields /\ streams'[i].req = streams[i].req
                      /\ streams'[i].left = streams[i].left /\ streams'[i].send_window = streams[i].send_window
                      /\ streams'[i].granted = streams[i].granted /\ streams'[i].capped = streams[i].capped
        <4>1. DOMAIN streams[i] = StreamFields BY DEF StreamsAndChannels
        <4> QED BY <1>13, <2>3, <4>1 DEF Headers, StreamFields
      <3>3. Tail(inbox) \in Seq(WireFrame) /\ inbox' = Tail(inbox) /\ UNCHANGED peer /\ pc = "parse" BY <1>9, <2>1
      <3> QED BY <1>00, <2>1, <3>1, <3>2, <3>3, CreditStays
    <2> QED BY <2>2, <2>3
  <1>14. CASE Continuation
    <2>1. /\ Handles("CONTINUATION") /\ Taken
          /\ UNCHANGED <<conn_send_window, peer_initial_window, pc, conn_granted, conn_sent>>
      BY <1>14 DEF Continuation
    <2>2. DOMAIN streams' = Open BY <1>14 DEF Continuation
    <2>3. ASSUME NEW i \in Open
          PROVE  \/ streams'[i] = streams[i]
                 \/ /\ DOMAIN streams'[i] = StreamFields /\ streams'[i].req = streams[i].req
                    /\ streams'[i].left = streams[i].left /\ streams'[i].send_window = streams[i].send_window
                    /\ streams'[i].granted = streams[i].granted /\ streams'[i].capped = streams[i].capped
      <3>1. DOMAIN streams[i] = StreamFields BY DEF StreamsAndChannels
      <3> QED BY <1>14, <3>1 DEF Continuation, StreamFields
    <2>4. Tail(inbox) \in Seq(WireFrame) /\ inbox' = Tail(inbox) /\ UNCHANGED peer /\ pc = "parse" BY <1>9, <2>1
    <2> QED BY <1>00, <2>1, <2>2, <2>3, <2>4, CreditStays
  <1>15. CASE Data
    <2>1. /\ Handles("DATA") /\ Taken
          /\ UNCHANGED <<conn_send_window, peer_initial_window, pc, conn_granted, conn_sent>>
      BY <1>15 DEF Data
    <2>2. CASE Frame.end_stream BY <1>12, <1>15, <2>1, <2>2 DEF Data, CompleteStream
    <2>3. CASE ~Frame.end_stream
      <3>1. UNCHANGED streams BY <1>15, <2>3 DEF Data
      <3>2. Tail(inbox) \in Seq(WireFrame) /\ inbox' = Tail(inbox) /\ UNCHANGED peer /\ pc = "parse" BY <1>9, <2>1
      <3> QED BY <1>00, <2>1, <3>1, <3>2, CreditStays DEF Open
    <2> QED BY <2>2, <2>3
  <1>16. CASE RstStream BY <1>12, <1>16 DEF RstStream
  <1>17. CASE WindowUpdateConn
    <2>1. CASE BadConnUpdate(Frame.n) BY <1>4, <1>17, <2>1 DEF WindowUpdateConn
    <2>2. CASE ~BadConnUpdate(Frame.n)
      <3>1. /\ Handles("WINDOW_UPDATE") /\ Taken /\ conn_send_window' = conn_send_window + Frame.n
            /\ conn_granted' = conn_granted + Frame.n /\ pc' = "pump"
            /\ to_pump' = {i \in Open : streams[i].left > 0} /\ UNCHANGED <<streams, peer_initial_window, conn_sent>>
        BY <1>17, <2>2 DEF WindowUpdateConn
      <3>2. Tail(inbox) \in Seq(WireFrame) /\ inbox' = Tail(inbox) /\ UNCHANGED peer /\ Frame.n \in 0..MAX_WINDOW
        BY <1>9, <3>1
      <3>3. conn_granted' \in Nat BY <1>0, <1>00, <3>1, <3>2
      <3>4. conn_send_window' = DEFAULT_WINDOW + conn_granted' - conn_sent /\ conn_send_window' \in 0..MAX_WINDOW
        BY <1>0, <1>00, <2>2, <3>1, <3>2, SMTT(30) DEF BadConnUpdate
      <3>5. \A i \in Open : StreamCredit(streams'[i], peer_initial_window') /\ streams'[i].left = streams[i].left
        BY <3>1 DEF CreditInv
      <3> QED BY <1>00, <3>1, <3>2, <3>3, <3>4, <3>5, CreditToPump DEF Open
    <2> QED BY <2>1, <2>2
  <1>18. CASE WindowUpdateStream
    <2>1. Handles("WINDOW_UPDATE") /\ Taken /\ UNCHANGED <<peer_initial_window, pc, to_pump, conn_granted>>
      BY <1>18 DEF WindowUpdateStream
    <2>2. /\ Tail(inbox) \in Seq(WireFrame) /\ inbox' = Tail(inbox) /\ UNCHANGED peer /\ pc = "parse"
          /\ Frame.n \in 0..MAX_WINDOW
      BY <1>9, <2>1
    <2>3. CASE BadStreamUpdate(Frame.n) BY <1>12, <1>18, <2>1, <2>3 DEF WindowUpdateStream
    <2>4. CASE ~BadStreamUpdate(Frame.n) /\ Frame.id \in Open
      <3> DEFINE s == Granted(streams[Frame.id], Frame.n)
                 n == Pumped(s, conn_send_window)
      <3>1. /\ streams' = [streams EXCEPT ![Frame.id] = Drained(s, n)]
            /\ conn_send_window' = conn_send_window - n /\ conn_sent' = conn_sent + n
        BY <1>18, <2>4 DEF WindowUpdateStream
      <3>2. StreamCredit(streams[Frame.id], peer_initial_window) /\ peer_initial_window \in Nat /\ Frame.n \in Nat
        BY <1>0, <1>00, <2>2, <2>4 DEF CreditInv
      <3>3. StreamCredit(s, peer_initial_window) BY <3>2, GrantKeeps
      <3> HIDE DEF s
      <3> QED BY <2>1, <2>2, <2>4, <3>1, <3>3, CreditPumped
    <2>5. CASE ~BadStreamUpdate(Frame.n) /\ Frame.id \notin Open
      <3>1. UNCHANGED <<streams, conn_send_window, conn_sent>> BY <1>18, <2>5 DEF WindowUpdateStream
      <3> QED BY <1>00, <2>1, <2>2, <3>1, CreditStays DEF Open
    <2> QED BY <2>3, <2>4, <2>5
  <1>19. CASE Peer
    <2>1. ASSUME NEW type \in {"HEADERS", "CONTINUATION", "DATA", "RST_STREAM", "SETTINGS", "WINDOW_UPDATE", "GOAWAY"},
                 NEW id \in Nat, NEW n \in 0..MAX_WINDOW, NEW eh \in BOOLEAN, NEW es \in BOOLEAN,
                 Sends(type, id, n, eh, es), DOMAIN peer' = DOMAIN peer
          PROVE  CreditInv'
      BY <1>00, <2>1, SentIsFrame, CreditStays DEF Open
    <2>2. 0 \in 0..MAX_WINDOW BY <1>0
    <2>3. ASSUME NEW id \in DOMAIN peer, NEW eh \in BOOLEAN, NEW es \in BOOLEAN, SendHeaders(id, eh, es) PROVE CreditInv'
      BY <1>00, <2>1, <2>2, <2>3 DEF SendHeaders, Responds
    <2>4. ASSUME NEW id \in DOMAIN peer, SendContinuation(id) PROVE CreditInv'
      BY <1>00, <2>1, <2>2, <2>4 DEF SendContinuation, Responds
    <2>5. ASSUME NEW id \in DOMAIN peer, SendRst(id) PROVE CreditInv'
      BY <1>00, <2>1, <2>2, <2>5 DEF SendRst
    <2>6. ASSUME NEW id \in DOMAIN peer, NEW es \in BOOLEAN, SendData(id, es) PROVE CreditInv'
      BY <1>00, <2>1, <2>2, <2>6 DEF SendData, Responds
    <2>7. ASSUME NEW n \in Windows, SendSettings(n) PROVE CreditInv' BY <1>0, <2>1, <2>7 DEF SendSettings
    <2>8. ASSUME NEW id \in DOMAIN peer \cup {0}, NEW n \in Increments, SendUpdate(id, n) PROVE CreditInv'
      BY <1>0, <1>00, <2>1, <2>8 DEF SendUpdate
    <2>9. CASE SendGoAway BY <2>1, <2>2, <2>9 DEF SendGoAway
    <2>10. ASSUME NEW how, Close(how) PROVE CreditInv' BY <1>5, <2>10 DEF Close, conn
    <2> QED BY <1>19, <2>3, <2>4, <2>5, <2>6, <2>7, <2>8, <2>9, <2>10 DEF Peer
  <1>20. CASE UNCHANGED clientvars BY <1>20 DEF clientvars, conn, remote, CreditInv, Open
  <1> QED BY <1>1, <1>2, <1>3, <1>6, <1>7, <1>8, <1>10, <1>11, <1>13, <1>14, <1>15, <1>16, <1>17, <1>18, <1>19, <1>20
         DEF ClientNext, Drive


-----------------------------------------------------------------------------
(* H2Client.  A response that is reported has arrived.                       *)

\* What the peer keeps of a stream.
PeerFields == {"req", "stage", "last"}

\* A frame that bears on a stream was sent for it; the frame that ends a response came
\* last of it, and the header block in front of it has not been seen.
Belongs(f) ==
    f.type \in {"HEADERS", "CONTINUATION", "DATA", "RST_STREAM"} =>
        /\ f.id \in DOMAIN peer /\ peer[f.id].stage \notin {"unsent", "none"}
        /\ f.type = "RST_STREAM" => peer[f.id].stage = "over"
        /\ f.end_stream /\ (f.type = "DATA" \/ f.end_headers) => peer[f.id].req \in answered
        /\ f.type = "HEADERS" /\ f.id \in Open => ~streams[f.id].headers_done

\* A response has one HEADERS, and its CONTINUATION comes after.
HeadersFirst ==
    \A k, l \in 1..Len(inbox) :
        k < l /\ inbox[l].type = "HEADERS" /\ inbox[k].id = inbox[l].id =>
            inbox[k].type \notin {"HEADERS", "CONTINUATION"}

PeersKnow ==
    /\ \A i \in DOMAIN peer : /\ i \in Nat /\ i < next_stream_id
                              /\ DOMAIN peer[i] = PeerFields /\ peer[i].req \in Requests
    /\ \A i \in Open : /\ i \in DOMAIN peer /\ peer[i].req = streams[i].req
                       /\ peer[i].stage \in {"unsent", "none"} => ~streams[i].headers_done

AnswerInv ==
    /\ PeersKnow
    /\ \A k \in 1..Len(inbox) : Belongs(inbox[k])
    /\ HeadersFirst
    /\ OkMeansAnswered

\* The frames behind the first one.
LEMMA TailIs ==
  ASSUME NEW S, NEW s \in Seq(S), s # <<>>
  PROVE  /\ Len(s) \in Nat /\ Len(s) >= 1 /\ Len(Tail(s)) = Len(s) - 1 /\ Head(s) = s[1]
         /\ \A k \in 1..Len(Tail(s)) : k + 1 \in 1..Len(s) /\ Tail(s)[k] = s[k + 1]
  OBVIOUS

\* The frames when one more has arrived.
LEMMA AppendIs ==
  ASSUME NEW S, NEW s \in Seq(S), NEW f \in S
  PROVE  /\ Len(s) \in Nat /\ Len(Append(s, f)) = Len(s) + 1 /\ Append(s, f)[Len(s) + 1] = f
         /\ \A k \in 1..Len(s) : Append(s, f)[k] = s[k]
         /\ \A k \in 1..Len(Append(s, f)) : k = Len(s) + 1 \/ k \in 1..Len(s)
  OBVIOUS

\* A frame is taken; of the streams some end, and some learn that their headers are done.
LEMMA AnswerTaken ==
  ASSUME AnswerInv, CreditInv, StreamsAndChannels, inbox # <<>>, Taken, UNCHANGED next_stream_id,
         DOMAIN streams' \subseteq Open,
         \A i \in DOMAIN streams' :
            /\ streams'[i].req = streams[i].req
            /\ streams'[i].headers_done =>
                 streams[i].headers_done \/ (i = Frame.id /\ Frame.type \in {"HEADERS", "CONTINUATION"}),
         \A r \in Requests : result'[r] = "ok" =>
            \/ result[r] = "ok"
            \/ /\ Frame.type = "DATA" \/ (Frame.type = "HEADERS" /\ Frame.end_headers)
               /\ Frame.end_stream /\ Frame.id \in Open /\ streams[Frame.id].req = r
  PROVE  AnswerInv'
  <1>1. inbox \in Seq(WireFrame) BY DEF CreditInv
  <1>2. inbox' = Tail(inbox) /\ UNCHANGED <<peer, answered>> BY DEF Taken
  <1>3. /\ Len(inbox) \in Nat /\ Len(inbox) >= 1 /\ Len(inbox') = Len(inbox) - 1 /\ Frame = inbox[1]
        /\ \A k \in 1..Len(inbox') : k + 1 \in 1..Len(inbox) /\ inbox'[k] = inbox[k + 1]
    BY <1>1, <1>2, TailIs DEF Frame
  <1>4. Open' = DOMAIN streams' BY DEF Open
  <1>5. 1 \in 1..Len(inbox) /\ Belongs(Frame) BY <1>3 DEF AnswerInv
  <1>6. PeersKnow'
    <2>1. ASSUME NEW i \in Open', peer[i].stage \in {"unsent", "none"} PROVE ~streams'[i].headers_done
      <3>1. ~streams[i].headers_done BY <1>4, <2>1 DEF AnswerInv, PeersKnow
      <3>2. ~(i = Frame.id /\ Frame.type \in {"HEADERS", "CONTINUATION"}) BY <1>5, <2>1 DEF Belongs
      <3> QED BY <1>4, <3>1, <3>2
    <2> QED BY <1>2, <1>4, <2>1 DEF AnswerInv, PeersKnow
  <1>7. ASSUME NEW k \in 1..Len(inbox') PROVE Belongs(inbox[k])'
    <2> DEFINE f == inbox[k + 1]
    <2>1. Belongs(f) /\ k + 1 \in 1..Len(inbox) BY <1>3 DEF AnswerInv
    <2>2. inbox'[k] = f BY <1>3
    <2>3. ASSUME f.type = "HEADERS", f.id \in Open' PROVE ~streams'[f.id].headers_done
      <3>1. ~streams[f.id].headers_done BY <1>4, <2>1, <2>3 DEF Belongs
      <3>2. 1 < k + 1 BY <1>3
      <3>3. Frame.id = f.id => Frame.type \notin {"HEADERS", "CONTINUATION"}
        BY <1>3, <1>5, <2>1, <2>3, <3>2 DEF AnswerInv, HeadersFirst
      <3> QED BY <1>4, <2>3, <3>1, <3>3
    <2> HIDE DEF f
    <2> QED BY <1>2, <2>1, <2>2, <2>3 DEF Belongs
  <1>8. HeadersFirst'
    <2> SUFFICES ASSUME NEW k \in 1..Len(inbox'), NEW l \in 1..Len(inbox'), k < l, inbox'[l].type = "HEADERS",
                        inbox'[k].id = inbox'[l].id
                 PROVE  inbox'[k].type \notin {"HEADERS", "CONTINUATION"}
      BY DEF HeadersFirst
    <2>1. k + 1 < l + 1 /\ k + 1 \in 1..Len(inbox) /\ l + 1 \in 1..Len(inbox) BY <1>3
    <2>2. inbox'[k] = inbox[k + 1] /\ inbox'[l] = inbox[l + 1] BY <1>3
    <2> QED BY <2>1, <2>2 DEF AnswerInv, HeadersFirst
  <1>9. OkMeansAnswered'
    <2> SUFFICES ASSUME NEW r \in Requests, result'[r] = "ok" PROVE r \in answered' BY DEF OkMeansAnswered
    <2>1. CASE result[r] = "ok" BY <1>2, <2>1 DEF AnswerInv, OkMeansAnswered
    <2>2. CASE result[r] # "ok"
      <3>1. /\ Frame.type = "DATA" \/ (Frame.type = "HEADERS" /\ Frame.end_headers)
            /\ Frame.end_stream /\ Frame.id \in Open /\ streams[Frame.id].req = r
        BY <2>2
      <3>2. peer[Frame.id].req = r BY <3>1 DEF AnswerInv, PeersKnow
      <3> QED BY <1>2, <1>5, <3>1, <3>2 DEF Belongs
    <2> QED BY <2>1, <2>2
  <1> QED BY <1>6, <1>7, <1>8, <1>9 DEF AnswerInv

\* Nothing of the exchange moves: the streams at most change their windows, and a request
\* may reach the peer.
LEMMA AnswerStays ==
  ASSUME AnswerInv, UNCHANGED <<inbox, answered>>, next_stream_id' = next_stream_id,
         DOMAIN streams' \subseteq Open,
         \A i \in DOMAIN streams' :
            streams'[i].req = streams[i].req /\ (streams'[i].headers_done => streams[i].headers_done),
         DOMAIN peer' = DOMAIN peer,
         \A i \in DOMAIN peer :
            \/ peer'[i] = peer[i]
            \/ /\ peer[i].stage = "unsent" /\ DOMAIN peer'[i] = PeerFields /\ peer'[i].req = peer[i].req
               /\ peer'[i].stage = "none",
         \A r \in Requests : result'[r] = "ok" => result[r] = "ok"
  PROVE  AnswerInv'
  <1>1. Open' = DOMAIN streams' BY DEF Open
  <1>2. PeersKnow' BY <1>1 DEF AnswerInv, PeersKnow
  <1>3. ASSUME NEW k \in 1..Len(inbox') PROVE Belongs(inbox[k])'
    <2>1. Belongs(inbox[k]) BY DEF AnswerInv
    <2> QED BY <1>1, <2>1 DEF Belongs
  <1>4. HeadersFirst' BY DEF AnswerInv, HeadersFirst
  <1>5. OkMeansAnswered' BY DEF AnswerInv, OkMeansAnswered
  <1> QED BY <1>2, <1>3, <1>4, <1>5 DEF AnswerInv

\* The connection dies: nothing is left to answer.
LEMMA AnswerDies ==
  ASSUME AnswerInv, StreamsAndChannels, MarkDead PROVE AnswerInv'
  <1>1. /\ DOMAIN streams' = {} /\ Outcome(Open, "error") /\ inbox' = <<>>
        /\ UNCHANGED <<next_stream_id, peer, answered>>
    BY MarkDeadIs
  <1>2. Open' = {} /\ Len(inbox') = 0 BY <1>1 DEF Open
  <1>3. \A r \in Requests : result'[r] = "ok" => result[r] = "ok" BY <1>1 DEF Outcome
  <1>4. PeersKnow' BY <1>1, <1>2 DEF AnswerInv, PeersKnow
  <1>5. HeadersFirst' /\ \A k \in 1..Len(inbox') : Belongs(inbox[k])' BY <1>2 DEF HeadersFirst
  <1>6. OkMeansAnswered' BY <1>1, <1>3 DEF AnswerInv, OkMeansAnswered
  <1> QED BY <1>4, <1>5, <1>6 DEF AnswerInv

\* The peer sends a frame, and its response to id moves on.
LEMMA AnswerSent ==
  ASSUME AnswerInv, CreditInv, NEW f \in WireFrame, inbox' = Append(inbox, f),
         UNCHANGED <<streams, next_stream_id, result>>, answered \subseteq answered',
         DOMAIN peer' = DOMAIN peer,
         \A i \in DOMAIN peer : i # f.id => peer'[i] = peer[i],
         f.id \in DOMAIN peer =>
            /\ DOMAIN peer'[f.id] = PeerFields /\ peer'[f.id].req = peer[f.id].req
            /\ \/ peer'[f.id] = peer[f.id]
               \/ /\ peer[f.id].stage # "over" /\ peer'[f.id].stage \notin {"unsent", "none"},
         Belongs(f)',
         f.type = "HEADERS" => f.id \in DOMAIN peer /\ peer[f.id].stage = "none"
  PROVE  AnswerInv'
  <1>1. inbox \in Seq(WireFrame) BY DEF CreditInv
  <1>2. /\ Len(inbox) \in Nat /\ Len(inbox') = Len(inbox) + 1 /\ inbox'[Len(inbox) + 1] = f
        /\ \A k \in 1..Len(inbox) : inbox'[k] = inbox[k]
        /\ \A k \in 1..Len(inbox') : k = Len(inbox) + 1 \/ k \in 1..Len(inbox)
    BY <1>1, AppendIs
  <1>3. Open' = Open BY DEF Open
  <1>4. PeersKnow' BY <1>3 DEF AnswerInv, PeersKnow
  <1>5. ASSUME NEW k \in 1..Len(inbox') PROVE Belongs(inbox[k])'
    <2>1. CASE k \in 1..Len(inbox)
      <3>1. Belongs(inbox[k]) /\ inbox'[k] = inbox[k] BY <1>2, <2>1 DEF AnswerInv
      <3> QED BY <1>3, <3>1 DEF Belongs
    <2>2. CASE k = Len(inbox) + 1 BY <1>2, <2>2 DEF Belongs
    <2> QED BY <1>2, <2>1, <2>2
  <1>6. HeadersFirst'
    <2> SUFFICES ASSUME NEW k \in 1..Len(inbox'), NEW l \in 1..Len(inbox'), k < l, inbox'[l].type = "HEADERS",
                        inbox'[k].id = inbox'[l].id
                 PROVE  inbox'[k].type \notin {"HEADERS", "CONTINUATION"}
      BY DEF HeadersFirst
    <2>1. k \in 1..Len(inbox) BY <1>2
    <2>2. CASE l \in 1..Len(inbox) BY <1>2, <2>1, <2>2 DEF AnswerInv, HeadersFirst
    <2>3. CASE l = Len(inbox) + 1
      <3>1. Belongs(inbox[k]) /\ inbox'[k] = inbox[k] /\ inbox'[l] = f BY <1>2, <2>1, <2>3 DEF AnswerInv
      <3> QED BY <3>1 DEF Belongs
    <2> QED BY <1>2, <2>2, <2>3
  <1>7. OkMeansAnswered' BY DEF AnswerInv, OkMeansAnswered
  <1> QED BY <1>4, <1>5, <1>6, <1>7 DEF AnswerInv

\* A stream opens, and the peer has not heard of it.
LEMMA AnswerOpens ==
  ASSUME AnswerInv, StreamsAndChannels, NEW r \in Requests, NEW id \in Nat, id \notin Open, id \notin DOMAIN peer,
         DOMAIN streams' = Open \cup {id}, \A i \in Open : streams'[i] = streams[i],
         streams'[id].req = r, ~streams'[id].headers_done,
         DOMAIN peer' = (DOMAIN peer) \cup {id}, \A i \in DOMAIN peer : peer'[i] = peer[i],
         peer'[id] = [req |-> r, stage |-> "unsent", last |-> FALSE],
         next_stream_id \in Nat, id <= next_stream_id, next_stream_id' = next_stream_id + 2,
         UNCHANGED <<inbox, answered>>, result' = [result EXCEPT ![r] = "waiting"]
  PROVE  AnswerInv'
  <1>1. Open' = Open \cup {id} BY DEF Open
  <1>2. DOMAIN peer'[id] = PeerFields /\ peer'[id].req = r /\ peer'[id].stage = "unsent" BY DEF PeerFields
  <1>3. PeersKnow'
    <2>1. \A i \in DOMAIN peer' : i \in Nat /\ i < next_stream_id' /\ DOMAIN peer'[i] = PeerFields /\ peer'[i].req \in Requests
      <3>1. ASSUME NEW i \in DOMAIN peer PROVE i \in Nat /\ i < next_stream_id' BY DEF AnswerInv, PeersKnow
      <3>2. id < next_stream_id' OBVIOUS
      <3>3. ASSUME NEW i \in DOMAIN peer PROVE DOMAIN peer'[i] = PeerFields /\ peer'[i].req \in Requests
        BY DEF AnswerInv, PeersKnow
      <3> QED BY <1>2, <3>1, <3>2, <3>3
    <2> QED BY <1>1, <1>2, <2>1 DEF AnswerInv, PeersKnow
  <1>4. ASSUME NEW k \in 1..Len(inbox') PROVE Belongs(inbox[k])'
    <2>1. Belongs(inbox[k]) BY DEF AnswerInv
    <2> QED BY <1>1, <2>1 DEF Belongs
  <1>5. HeadersFirst' BY DEF AnswerInv, HeadersFirst
  <1>6. OkMeansAnswered' BY DEF AnswerInv, OkMeansAnswered, StreamsAndChannels
  <1> QED BY <1>3, <1>4, <1>5, <1>6 DEF AnswerInv

\* What the peer's response moving on is.
LEMMA RespondsIs ==
  ASSUME AnswerInv, NEW id \in DOMAIN peer, NEW stage, NEW last, Responds(id, stage, last)
  PROVE  /\ DOMAIN peer' = DOMAIN peer /\ \A i \in DOMAIN peer : i # id => peer'[i] = peer[i]
         /\ DOMAIN peer'[id] = PeerFields /\ peer'[id].req = peer[id].req /\ peer'[id].stage = stage
         /\ peer'[id].last = last /\ answered \subseteq answered'
         /\ stage = "done" => answered' = answered \cup {peer[id].req}
         /\ stage # "done" => answered' = answered
         /\ socket' = socket
  <1>1. DOMAIN peer[id] = PeerFields BY DEF AnswerInv, PeersKnow
  <1>2. peer' = [peer EXCEPT ![id].stage = stage, ![id].last = last] BY DEF Responds
  <1>3. /\ DOMAIN peer'[id] = PeerFields /\ peer'[id].req = peer[id].req /\ peer'[id].stage = stage
        /\ peer'[id].last = last
    BY <1>1, <1>2 DEF PeerFields
  <1>4. DOMAIN peer' = DOMAIN peer /\ \A i \in DOMAIN peer : i # id => peer'[i] = peer[i] BY <1>2
  <1>5. /\ answered \subseteq answered' /\ socket' = socket /\ (stage # "done" => answered' = answered)
        /\ stage = "done" => answered' = answered \cup {peer[id].req}
    BY DEF Responds
  <1> QED BY <1>3, <1>4, <1>5

\* A frame as the peer makes it.
Sent(type, id, n, eh, es) ==
    [type |-> type, id |-> id, n |-> n, end_headers |-> eh, end_stream |-> es]

\* The peer's send puts one frame in the buffer.
LEMMA SendsIs ==
  ASSUME NEW type, NEW id, NEW n, NEW eh, NEW es, Sends(type, id, n, eh, es)
  PROVE  /\ inbox' = Append(inbox, Sent(type, id, n, eh, es)) /\ Speaks /\ frames' = frames + 1
         /\ UNCHANGED <<kind, streams, next_stream_id, result, is_dead, continuation_stream, conn_send_window,
                        conn_granted, conn_sent>>
  BY DEF Sends, conn, Sent

\* The peer sends.
LEMMA AnswerPeer ==
  ASSUME AnswerInv, CreditInv, StreamsAndChannels, Peer PROVE AnswerInv'
  <1>0. /\ DOMAIN peer \subseteq Nat /\ Windows \subseteq 0..MAX_WINDOW /\ Increments \subseteq 0..MAX_WINDOW
        /\ 0 \in 0..MAX_WINDOW
    BY WindowAssumption DEF CreditInv
  <1>1. ASSUME NEW id \in DOMAIN peer, NEW eh \in BOOLEAN, NEW es \in BOOLEAN, SendHeaders(id, eh, es) PROVE AnswerInv'
    <2> DEFINE stage == IF ~eh THEN "block" ELSE IF es THEN "done" ELSE "body"
    <2>1. Sends("HEADERS", id, 0, eh, es) /\ Responds(id, stage, es) /\ peer[id].stage = "none"
      BY <1>1 DEF SendHeaders
    <2> DEFINE f == Sent("HEADERS", id, 0, eh, es)
    <2>9. f \in WireFrame BY <1>0 DEF WireFrame, Sent
    <2>2. f.type = "HEADERS" /\ f.id = id /\ (f.end_headers <=> eh) /\ (f.end_stream <=> es)
      BY DEF Sent
    <2>10. inbox' = Append(inbox, f) /\ UNCHANGED <<streams, next_stream_id, result>>
      BY <2>1, SendsIs
    <2> HIDE DEF f
    <2>3. stage \in {"block", "done", "body"} /\ (eh /\ es => stage = "done") OBVIOUS
    <2>4. /\ DOMAIN peer' = DOMAIN peer /\ \A i \in DOMAIN peer : i # id => peer'[i] = peer[i]
          /\ DOMAIN peer'[id] = PeerFields /\ peer'[id].req = peer[id].req /\ peer'[id].stage = stage
          /\ answered \subseteq answered' /\ (stage = "done" => answered' = answered \cup {peer[id].req})
      BY <2>1, RespondsIs
    <2> HIDE DEF stage
    <2>5. Open' = Open /\ (id \in Open => ~streams[id].headers_done)
      BY <2>1, <2>10 DEF Open, AnswerInv, PeersKnow
    <2>6. Belongs(f)' BY <2>2, <2>3, <2>4, <2>5, <2>10 DEF Belongs
    <2> QED BY <2>1, <2>2, <2>3, <2>4, <2>6, <2>9, <2>10, AnswerSent
  <1>2. ASSUME NEW id \in DOMAIN peer, NEW es \in BOOLEAN, SendData(id, es) PROVE AnswerInv'
    <2> DEFINE stage == IF es THEN "done" ELSE "body"
    <2>1. Sends("DATA", id, 0, FALSE, es) /\ Responds(id, stage, es) /\ peer[id].stage = "body"
      BY <1>2 DEF SendData
    <2> DEFINE f == Sent("DATA", id, 0, FALSE, es)
    <2>9. f \in WireFrame BY <1>0 DEF WireFrame, Sent
    <2>2. f.type = "DATA" /\ f.id = id /\ (f.end_stream <=> es)
      BY DEF Sent
    <2>10. inbox' = Append(inbox, f) /\ UNCHANGED <<streams, next_stream_id, result>>
      BY <2>1, SendsIs
    <2> HIDE DEF f
    <2>3. stage \in {"done", "body"} /\ (es => stage = "done") OBVIOUS
    <2>4. /\ DOMAIN peer' = DOMAIN peer /\ \A i \in DOMAIN peer : i # id => peer'[i] = peer[i]
          /\ DOMAIN peer'[id] = PeerFields /\ peer'[id].req = peer[id].req /\ peer'[id].stage = stage
          /\ answered \subseteq answered' /\ (stage = "done" => answered' = answered \cup {peer[id].req})
      BY <2>1, RespondsIs
    <2> HIDE DEF stage
    <2>6. Belongs(f)' BY <2>2, <2>3, <2>4 DEF Belongs
    <2> QED BY <2>1, <2>2, <2>3, <2>4, <2>6, <2>9, <2>10, AnswerSent
  <1>3. ASSUME NEW id \in DOMAIN peer, SendContinuation(id) PROVE AnswerInv'
    <2> DEFINE stage == IF peer[id].last THEN "done" ELSE "body"
    <2>1. Sends("CONTINUATION", id, 0, TRUE, FALSE) /\ Responds(id, stage, peer[id].last) /\ peer[id].stage = "block"
      BY <1>3 DEF SendContinuation
    <2> DEFINE f == Sent("CONTINUATION", id, 0, TRUE, FALSE)
    <2>9. f \in WireFrame BY <1>0 DEF WireFrame, Sent
    <2>2. f.type = "CONTINUATION" /\ f.id = id /\ ~f.end_stream
      BY DEF Sent
    <2>10. inbox' = Append(inbox, f) /\ UNCHANGED <<streams, next_stream_id, result>>
      BY <2>1, SendsIs
    <2> HIDE DEF f
    <2>3. stage \in {"done", "body"} OBVIOUS
    <2>4. /\ DOMAIN peer' = DOMAIN peer /\ \A i \in DOMAIN peer : i # id => peer'[i] = peer[i]
          /\ DOMAIN peer'[id] = PeerFields /\ peer'[id].req = peer[id].req /\ peer'[id].stage = stage
          /\ answered \subseteq answered'
      BY <2>1, RespondsIs
    <2> HIDE DEF stage
    <2>6. Belongs(f)' BY <2>2, <2>3, <2>4 DEF Belongs
    <2> QED BY <2>1, <2>2, <2>3, <2>4, <2>6, <2>9, <2>10, AnswerSent
  <1>4. ASSUME NEW id \in DOMAIN peer, SendRst(id) PROVE AnswerInv'
    <2>1. /\ Sends("RST_STREAM", id, 0, FALSE, FALSE) /\ peer' = [peer EXCEPT ![id].stage = "over"]
          /\ peer[id].stage \in {"none", "body"} /\ UNCHANGED answered
      BY <1>4 DEF SendRst
    <2> DEFINE f == Sent("RST_STREAM", id, 0, FALSE, FALSE)
    <2>9. f \in WireFrame BY <1>0 DEF WireFrame, Sent
    <2>2. f.type = "RST_STREAM" /\ f.id = id /\ ~f.end_stream
      BY DEF Sent
    <2>10. inbox' = Append(inbox, f) /\ UNCHANGED <<streams, next_stream_id, result>>
      BY <2>1, SendsIs
    <2> HIDE DEF f
    <2>3. DOMAIN peer[id] = PeerFields BY DEF AnswerInv, PeersKnow
    <2>4. /\ DOMAIN peer' = DOMAIN peer /\ \A i \in DOMAIN peer : i # id => peer'[i] = peer[i]
          /\ DOMAIN peer'[id] = PeerFields /\ peer'[id].req = peer[id].req /\ peer'[id].stage = "over"
      BY <2>1, <2>3 DEF PeerFields
    <2>6. Belongs(f)' BY <2>2, <2>4 DEF Belongs
    <2> QED BY <2>1, <2>2, <2>4, <2>6, <2>9, <2>10, AnswerSent
  <1>5. ASSUME NEW type \in {"SETTINGS", "WINDOW_UPDATE", "GOAWAY"}, NEW id \in Nat, NEW n \in 0..MAX_WINDOW,
               Sends(type, id, n, FALSE, FALSE), UNCHANGED <<peer, answered>>
        PROVE  AnswerInv'
    <2> DEFINE f == Sent(type, id, n, FALSE, FALSE)
    <2>9. f \in WireFrame BY <1>0 DEF WireFrame, Sent
    <2>2. f.type = type /\ f.id = id
      BY DEF Sent
    <2>10. inbox' = Append(inbox, f) /\ UNCHANGED <<streams, next_stream_id, result>>
      BY <1>5, SendsIs
    <2> HIDE DEF f
    <2>3. Belongs(f)' BY <2>2 DEF Belongs
    <2>4. \A i \in DOMAIN peer : DOMAIN peer[i] = PeerFields BY DEF AnswerInv, PeersKnow
    <2> QED BY <1>5, <2>2, <2>3, <2>4, <2>9, <2>10, AnswerSent
  <1>6. ASSUME NEW n \in Windows, SendSettings(n) PROVE AnswerInv' BY <1>0, <1>5, <1>6 DEF SendSettings
  <1>7. ASSUME NEW id \in DOMAIN peer \cup {0}, NEW n \in Increments, SendUpdate(id, n) PROVE AnswerInv'
    BY <1>0, <1>5, <1>7 DEF SendUpdate
  <1>8. CASE SendGoAway BY <1>0, <1>5, <1>8 DEF SendGoAway
  <1>9. ASSUME NEW how, Close(how) PROVE AnswerInv'
    BY <1>9, AnswerStays DEF Close, conn, Open
  <1> QED BY <1>1, <1>2, <1>3, <1>4, <1>6, <1>7, <1>8, <1>9 DEF Peer

\* What a frame taken makes of the streams.
LEMMA AnswerNext ==
  ASSUME AnswerInv, CreditInv, StreamsAndChannels, [ClientNext]_clientvars PROVE AnswerInv'
  <1>0. \A i \in Open : DOMAIN streams[i] = StreamFields BY DEF StreamsAndChannels
  <1>1. ASSUME NEW r \in Requests, Dispatch(r) PROVE AnswerInv'
    <2> DEFINE s == NewStream(r, peer_initial_window)
               n == Pumped(s, conn_send_window)
    <2>1. /\ OpenStream(r, next_stream_id, conn_send_window, peer_initial_window)
          /\ next_stream_id' = next_stream_id + 2 /\ UNCHANGED <<inbox, answered>>
          /\ peer' = [i \in DOMAIN peer \cup {next_stream_id} |->
                        IF i = next_stream_id THEN [req |-> r, stage |-> "unsent", last |-> FALSE] ELSE peer[i]]
      BY <1>1 DEF Dispatch
    <2>2. next_stream_id \in Nat /\ next_stream_id \notin Open /\ next_stream_id <= next_stream_id
      BY DEF StreamsAndChannels
    <2>3. next_stream_id \notin DOMAIN peer BY <2>2 DEF AnswerInv, PeersKnow
    <2>4. /\ DOMAIN peer' = (DOMAIN peer) \cup {next_stream_id} /\ \A i \in DOMAIN peer : peer'[i] = peer[i]
          /\ peer'[next_stream_id] = [req |-> r, stage |-> "unsent", last |-> FALSE]
      BY <2>1, <2>3
    <2>5. /\ DOMAIN streams' = Open \cup {next_stream_id} /\ streams'[next_stream_id] = Drained(s, n)
          /\ \A i \in Open : streams'[i] = streams[i]
          /\ result' = [result EXCEPT ![r] = "waiting"]
      BY <2>1, <2>2, OpenStreamIs
    <2>6. DOMAIN s = StreamFields /\ s.req = r /\ ~s.headers_done BY NewStreamFields
    <2> HIDE DEF s, n
    <2>7. Drained(s, n).req = r /\ ~Drained(s, n).headers_done BY <2>6, DrainedFields
    <2> QED BY <2>1, <2>2, <2>3, <2>4, <2>5, <2>7, AnswerOpens
  <1>2. ASSUME NEW r \in Requests, DispatchConnects(r) PROVE AnswerInv'
    <2> DEFINE s == NewStream(r, DEFAULT_WINDOW)
               n == Pumped(s, DEFAULT_WINDOW)
    <2>1. /\ OpenStream(r, 1, DEFAULT_WINDOW, DEFAULT_WINDOW) /\ next_stream_id' = 1 + 2
          /\ inbox' = <<>> /\ UNCHANGED answered /\ is_dead
          /\ peer' = [i \in {1} |-> [req |-> r, stage |-> "unsent", last |-> FALSE]]
      BY <1>2 DEF DispatchConnects, Connected
    <2>2. Open = {} /\ 1 \notin Open BY <2>1 DEF StreamsAndChannels
    <2>3. /\ DOMAIN streams' = Open \cup {1} /\ streams'[1] = Drained(s, n)
          /\ result' = [result EXCEPT ![r] = "waiting"]
      BY <2>1, <2>2, OpenStreamIs
    <2>4. DOMAIN s = StreamFields /\ s.req = r /\ ~s.headers_done BY NewStreamFields
    <2> HIDE DEF s, n
    <2>5. Drained(s, n).req = r /\ ~Drained(s, n).headers_done BY <2>4, DrainedFields
    <2>6. /\ DOMAIN peer' = {1} /\ peer'[1].req = r /\ peer'[1].stage = "unsent" /\ DOMAIN peer'[1] = PeerFields
      BY <2>1 DEF PeerFields
    <2>7. Open' = {1} /\ Len(inbox') = 0 BY <2>1, <2>2, <2>3 DEF Open
    <2>8. 1 \in Nat /\ 1 < next_stream_id' BY <2>1
    <2>9. PeersKnow' BY <2>3, <2>5, <2>6, <2>7, <2>8 DEF PeersKnow
    <2>10. HeadersFirst' /\ \A k \in 1..Len(inbox') : Belongs(inbox[k])' BY <2>7 DEF HeadersFirst
    <2>11. OkMeansAnswered' BY <2>1, <2>3 DEF AnswerInv, OkMeansAnswered, StreamsAndChannels
    <2> QED BY <2>9, <2>10, <2>11 DEF AnswerInv
  <1>3. ASSUME UNCHANGED <<inbox, answered, next_stream_id, peer>>, DOMAIN streams' \subseteq Open,
               \A i \in DOMAIN streams' : streams'[i] = streams[i],
               \A r \in Requests : result'[r] = "ok" => result[r] = "ok"
        PROVE  AnswerInv'
    BY <1>3, AnswerStays
  <1>4. ASSUME NEW r \in Requests, ConnectFails(r) PROVE AnswerInv'
    <2>1. UNCHANGED <<inbox, answered, next_stream_id, peer, streams>> /\ result' = [result EXCEPT ![r] = "error"]
      BY <1>4 DEF ConnectFails, conn, remote
    <2> QED BY <1>3, <2>1 DEF Open, StreamsAndChannels
  <1>5. CASE MarkDead BY <1>5, AnswerDies
  <1>6. CASE Flush
    <2>1. /\ UNCHANGED <<streams, next_stream_id, inbox, answered, result>> /\ DOMAIN peer' = DOMAIN peer
          /\ peer' = [i \in DOMAIN peer |-> IF peer[i].stage = "unsent" /\ ~unsent'
                                            THEN [peer[i] EXCEPT !.stage = "none"] ELSE peer[i]]
      BY <1>6 DEF Flush
    <2>2. ASSUME NEW i \in DOMAIN peer, peer'[i] # peer[i]
          PROVE  /\ peer[i].stage = "unsent" /\ DOMAIN peer'[i] = PeerFields /\ peer'[i].req = peer[i].req
                 /\ peer'[i].stage = "none"
      <3>1. peer[i].stage = "unsent" /\ peer'[i] = [peer[i] EXCEPT !.stage = "none"] BY <2>1, <2>2
      <3>2. DOMAIN peer[i] = PeerFields BY DEF AnswerInv, PeersKnow
      <3> QED BY <3>1, <3>2 DEF PeerFields
    <2> QED BY <2>1, <2>2, AnswerStays DEF Open
  <1>7. CASE FlushFails \/ ExpectedContinuation \/ GoAway BY <1>7, <1>5 DEF FlushFails, ExpectedContinuation, GoAway
  <1>8. CASE DriveEnds BY <1>8, <1>5, <1>3 DEF DriveEnds, conn, remote, Open
  <1>9. CASE PumpAll
    <2>1. UNCHANGED <<next_stream_id, peer, inbox, answered, result>> BY <1>9 DEF PumpAll, remote
    <2>2. CASE UNCHANGED streams BY <2>1, <2>2, <1>3 DEF Open
    <2>3. ASSUME NEW i \in to_pump, NEW n, streams' = [streams EXCEPT ![i] = Drained(@, n)] PROVE AnswerInv'
      <3>1. DOMAIN streams' = Open BY <2>3 DEF Open
      <3>2. \A j \in Open : streams'[j].req = streams[j].req /\ (streams'[j].headers_done => streams[j].headers_done)
        BY <1>0, <2>3, DrainedFields DEF Open
      <3> QED BY <2>1, <3>1, <3>2, AnswerStays
    <2> QED BY <1>9, <2>2, <2>3 DEF PumpAll
  <1>10. ASSUME inbox # <<>>, Taken, UNCHANGED <<next_stream_id, result>>, DOMAIN streams' = Open,
                \A i \in Open : /\ streams'[i].req = streams[i].req
                                /\ streams'[i].headers_done => streams[i].headers_done
         PROVE  AnswerInv'
    BY <1>10, AnswerTaken
  <1>11. CASE Settings
    <2>1. inbox # <<>> /\ Taken /\ UNCHANGED <<next_stream_id, result>> /\ DOMAIN streams' = Open
      BY <1>11 DEF Settings, Handles
    <2>2. ASSUME NEW i \in Open
          PROVE  streams'[i].req = streams[i].req /\ (streams'[i].headers_done => streams[i].headers_done)
      BY <1>0, <1>11 DEF Settings, StreamFields
    <2> QED BY <1>10, <2>1, <2>2
  \* A stream ends.
  <1>12. ASSUME inbox # <<>>, Taken, UNCHANGED next_stream_id, NEW id, streams' = Only(streams, Open \ {id}),
                NEW how, Outcome({id}, how),
                how = "ok" => /\ Frame.type = "DATA" \/ (Frame.type = "HEADERS" /\ Frame.end_headers)
                              /\ Frame.end_stream /\ id = Frame.id
         PROVE  AnswerInv'
    <2>1. DOMAIN streams' = Open \ {id} /\ \A i \in Open \ {id} : streams'[i] = streams[i] BY <1>12 DEF Only
    <2>2. ASSUME NEW r \in Requests, result'[r] = "ok", result[r] # "ok"
          PROVE  how = "ok" /\ id \in Open /\ streams[id].req = r
      BY <1>12, <2>2 DEF Outcome
    <2> QED BY <1>12, <2>1, <2>2, AnswerTaken
  <1>13. CASE Headers
    <2>1. inbox # <<>> /\ Taken /\ UNCHANGED next_stream_id /\ Frame.type = "HEADERS" BY <1>13 DEF Headers, Handles
    <2>2. CASE Frame.end_stream
      <3>1. CompleteStream(Frame.id, Frame.end_headers \/ HeadersDone(Frame.id)) BY <1>13, <2>2 DEF Headers
      <3>2. inbox \in Seq(WireFrame) BY DEF CreditInv
      <3>3. 1 \in 1..Len(inbox) /\ Frame = inbox[1] BY <2>1, <3>2, TailIs DEF Frame
      <3>4. Belongs(Frame) BY <3>3 DEF AnswerInv
      <3>5. ~HeadersDone(Frame.id) BY <2>1, <3>4 DEF Belongs, HeadersDone
      <3>6. CASE Frame.end_headers
        <4>1. Outcome({Frame.id}, "ok") /\ streams' = Only(streams, Open \ {Frame.id})
          BY <3>1, <3>6 DEF CompleteStream
        <4> QED BY <1>12, <2>1, <2>2, <3>6, <4>1
      <3>7. CASE ~Frame.end_headers
        <4>1. Outcome({Frame.id}, "error") /\ streams' = Only(streams, Open \ {Frame.id})
          BY <3>1, <3>5, <3>7 DEF CompleteStream
        <4> QED BY <1>12, <2>1, <4>1
      <3> QED BY <3>6, <3>7
    <2>3. CASE ~Frame.end_stream
      <3>1. UNCHANGED result /\ DOMAIN streams' = Open BY <1>13, <2>3 DEF Headers
      <3>2. ASSUME NEW i \in Open
            PROVE  streams'[i].req = streams[i].req /\ (i # Frame.id => streams'[i] = streams[i])
        BY <1>0, <1>13, <2>3 DEF Headers, StreamFields
      <3> QED BY <2>1, <3>1, <3>2, AnswerTaken
    <2> QED BY <2>2, <2>3
  <1>14. CASE Continuation
    <2>1. /\ inbox # <<>> /\ Taken /\ UNCHANGED <<next_stream_id, result>> /\ Frame.type = "CONTINUATION"
          /\ DOMAIN streams' = Open
      BY <1>14 DEF Continuation, Handles
    <2>2. ASSUME NEW i \in Open
          PROVE  streams'[i].req = streams[i].req /\ (i # Frame.id => streams'[i] = streams[i])
      BY <1>0, <1>14 DEF Continuation, StreamFields
    <2> QED BY <2>1, <2>2, AnswerTaken
  <1>15. CASE Data
    <2>1. inbox # <<>> /\ Taken /\ UNCHANGED next_stream_id /\ Frame.type = "DATA" BY <1>15 DEF Data, Handles
    <2>2. CASE Frame.end_stream
      <3>1. /\ Outcome({Frame.id}, IF HeadersDone(Frame.id) THEN "ok" ELSE "error")
            /\ streams' = Only(streams, Open \ {Frame.id})
        BY <1>15, <2>2 DEF Data, CompleteStream
      <3> QED BY <1>12, <2>1, <2>2, <3>1
    <2>3. CASE ~Frame.end_stream
      <3>1. UNCHANGED <<result, streams>> BY <1>15, <2>3 DEF Data
      <3> QED BY <1>10, <2>1, <3>1 DEF Open
    <2> QED BY <2>2, <2>3
  <1>16. CASE RstStream
    <2>1. /\ inbox # <<>> /\ Taken /\ UNCHANGED next_stream_id /\ Outcome({Frame.id}, "error")
          /\ streams' = Only(streams, Open \ {Frame.id})
      BY <1>16 DEF RstStream, Handles
    <2> QED BY <1>12, <2>1
  <1>17. CASE WindowUpdateConn
    <2>1. inbox # <<>> BY <1>17 DEF WindowUpdateConn, Handles
    <2>2. CASE MarkDead BY <1>5, <2>2
    <2>3. CASE Taken /\ UNCHANGED <<streams, next_stream_id, result>> BY <1>10, <2>1, <2>3 DEF Open
    <2> QED BY <1>17, <2>2, <2>3 DEF WindowUpdateConn
  <1>18. CASE WindowUpdateStream
    <2>1. inbox # <<>> /\ Taken /\ UNCHANGED next_stream_id BY <1>18 DEF WindowUpdateStream, Handles
    <2>2. CASE BadStreamUpdate(Frame.n)
      <3>1. Outcome({Frame.id}, "dropped") /\ streams' = Only(streams, Open \ {Frame.id})
        BY <1>18, <2>2 DEF WindowUpdateStream
      <3> QED BY <1>12, <2>1, <3>1
    <2>3. CASE ~BadStreamUpdate(Frame.n) /\ Frame.id \in Open
      <3> DEFINE s == Granted(streams[Frame.id], Frame.n)
                 n == Pumped(s, conn_send_window)
      <3>1. streams' = [streams EXCEPT ![Frame.id] = Drained(s, n)] /\ UNCHANGED result
        BY <1>18, <2>3 DEF WindowUpdateStream
      <3>2. /\ DOMAIN s = StreamFields /\ s.req = streams[Frame.id].req
            /\ s.headers_done => streams[Frame.id].headers_done
        BY <1>0, <2>3, GrantedFields
      <3> HIDE DEF s, n
      <3>3. /\ Drained(s, n).req = streams[Frame.id].req
            /\ Drained(s, n).headers_done => streams[Frame.id].headers_done
        BY <3>2, DrainedFields
      <3>4. /\ DOMAIN streams' = Open
            /\ \A j \in Open : /\ streams'[j].req = streams[j].req
                               /\ streams'[j].headers_done => streams[j].headers_done
        BY <3>1, <3>3 DEF Open
      <3> QED BY <1>10, <2>1, <3>1, <3>4
    <2>4. CASE ~BadStreamUpdate(Frame.n) /\ Frame.id \notin Open
      <3>1. UNCHANGED <<result, streams>> BY <1>18, <2>4 DEF WindowUpdateStream
      <3> QED BY <1>10, <2>1, <3>1 DEF Open
    <2> QED BY <2>2, <2>3, <2>4
  <1>19. CASE Peer BY <1>19, AnswerPeer
  <1>20. CASE UNCHANGED clientvars BY <1>3, <1>20 DEF clientvars, conn, remote, Open
  <1> QED BY <1>1, <1>2, <1>4, <1>6, <1>7, <1>8, <1>9, <1>11, <1>13, <1>14, <1>15, <1>16, <1>17, <1>18, <1>19, <1>20
         DEF ClientNext, Drive


-----------------------------------------------------------------------------
(* H2Client.  What an orderly peer has answered is delivered.                *)

\* The frame that ends the response to i, and the one that ends its header block.
Ends(f, i) == f.id = i /\ f.end_stream /\ (f.type = "DATA" \/ (f.type = "HEADERS" /\ f.end_headers))
Heads(f, i) == f.id = i /\ (f.type = "CONTINUATION" \/ (f.type = "HEADERS" /\ f.end_headers))

\* A header block that its CONTINUATION will end.
Begins(f) == f.type = "HEADERS" /\ ~f.end_headers

\* A frame the peer says nothing after.
Fatal(f) == f.type = "GOAWAY" \/ (f.type = "WINDOW_UPDATE" /\ f.id = 0 /\ (f.n = 0 \/ f.n = MAX_WINDOW))

\* The increment that an orderly peer's ordinary ones do not pass.
Most == CHOOSE most \in 0..MAX_WINDOW :
            /\ DEFAULT_WINDOW + most * MaxFrames["orderly"] <= MAX_WINDOW
            /\ \A n \in Increments : n <= most \/ n = MAX_WINDOW

\* No call that was answered has failed, and the peer may still answer only those that
\* have not failed.
CallsInv ==
    /\ \A r \in answered : r \in Requests /\ result[r] \notin {"new", "error"}
    /\ \A i \in DOMAIN peer :
          /\ result[peer[i].req] # "new"
          /\ peer[i].req \in answered => peer[i].stage = "done"
          /\ ~is_dead /\ result[peer[i].req] = "error" => peer[i].stage = "over"
          /\ peer[i].stage = "block" => ~peer[i].last
    /\ \A i, j \in DOMAIN peer : peer[i].req = peer[j].req => i = j

\* The end of a response that its stream still waits for is in the buffer, and no body
\* comes before its header block.
EndsInv ==
    /\ \A i \in Open : peer[i].stage = "done" => \E k \in 1..Len(inbox) : Ends(inbox[k], i)
    /\ \A k \in 1..Len(inbox) : inbox[k].type = "DATA" /\ inbox[k].id \in Open =>
          \/ streams[inbox[k].id].headers_done
          \/ \E l \in 1..Len(inbox) : l < k /\ Heads(inbox[l], inbox[k].id)
    /\ \A i \in Open : peer[i].stage = "body" =>
          streams[i].headers_done \/ \E l \in 1..Len(inbox) : Heads(inbox[l], i)
    /\ \A k \in 1..Len(inbox) : inbox[k].type = "HEADERS" /\ inbox[k].end_stream => inbox[k].end_headers

\* A header block that is begun is continued by the next frame.
BlocksInv ==
    ~is_dead =>
    /\ \A k \in 1..Len(inbox) : Begins(inbox[k]) =>
          \/ k = Len(inbox) /\ peer[inbox[k].id].stage = "block"
          \/ k + 1 \in 1..Len(inbox) /\ inbox[k + 1].type = "CONTINUATION" /\ inbox[k + 1].id = inbox[k].id
    /\ continuation_stream # None =>
          IF inbox = <<>> THEN continuation_stream \in DOMAIN peer /\ peer[continuation_stream].stage = "block"
          ELSE inbox[1].type = "CONTINUATION" /\ inbox[1].id = continuation_stream
    /\ \A i \in DOMAIN peer : peer[i].stage = "block" =>
          IF inbox = <<>> THEN continuation_stream = i
          ELSE Begins(inbox[Len(inbox)]) /\ inbox[Len(inbox)].id = i

\* The connection is not killed by a frame that others follow.
UpdatesInv ==
    /\ frames \in Nat /\ frames <= MaxFrames[kind] /\ Len(inbox) <= frames
    /\ socket # "reset"
    /\ \A k \in 1..Len(inbox) :
          /\ Fatal(inbox[k]) => k = Len(inbox) /\ socket # "open"
          /\ inbox[k].type = "WINDOW_UPDATE" => inbox[k].n = MAX_WINDOW \/ inbox[k].n <= Most
    /\ conn_granted <= Most * (frames - Len(inbox)) \/ (inbox = <<>> /\ socket # "open")

OrderlyInv ==
    /\ kind \in Peers
    /\ kind = "orderly" => CallsInv /\ EndsInv /\ BlocksInv /\ (~is_dead => UpdatesInv)
    /\ kind = "orderly" => frames \in Nat /\ frames <= MaxFrames[kind]

\* What an orderly peer may grant with each frame, and the room it leaves.
LEMMA MostIs ==
  ASSUME "orderly" \in Peers
  PROVE  /\ Most \in Nat /\ DEFAULT_WINDOW + Most * MaxFrames["orderly"] <= MAX_WINDOW
         /\ \A n \in Increments : n <= Most \/ n = MAX_WINDOW
  <1> DEFINE P(m) == /\ DEFAULT_WINDOW + m * MaxFrames["orderly"] <= MAX_WINDOW
                     /\ \A n \in Increments : n <= m \/ n = MAX_WINDOW
  <1>1. \E m \in 0..MAX_WINDOW : P(m) BY OrderlyAssumption
  <1>2. Most = CHOOSE m \in 0..MAX_WINDOW : P(m) BY DEF Most
  <1> HIDE DEF P
  <1>3. Most \in 0..MAX_WINDOW /\ P(Most) BY <1>1, <1>2
  <1>4. Most \in Nat BY <1>3, WindowAssumption
  <1> QED BY <1>3, <1>4 DEF P

\* One frame more is one grant more.
LEMMA Stepwise ==
  ASSUME NEW m \in Nat, NEW a \in Nat PROVE m * a \in Nat /\ m * (a + 1) = m * a + m
  OBVIOUS

\* What has been handled of the frames is a natural number.
LEMMA NoneTaken ==
  ASSUME NEW a \in Nat, NEW b \in Nat, b <= a PROVE a - b \in Nat
  OBVIOUS

\* Grants are bounded by the frames handled.
LEMMA GrantsGrow ==
  ASSUME NEW m \in Nat, NEW a \in Nat, NEW b \in Nat, a <= b PROVE m * a <= m * b
  OBVIOUS

\* The frame at hand is dealt with: at most its own stream ends, and fails only if the
\* peer gave it up.
FrameIsTaken ==
    /\ Taken /\ UNCHANGED <<next_stream_id, is_dead>>
    /\ continuation_stream' = IF Begins(Frame) THEN Frame.id ELSE None
    /\ DOMAIN streams' \subseteq Open
    /\ \A i \in DOMAIN streams' :
          /\ ~Ends(Frame, i)
          /\ streams[i].headers_done \/ Heads(Frame, i) => streams'[i].headers_done
    /\ \A r \in Requests : result'[r] # result[r] =>
          /\ result'[r] # "new"
          /\ result'[r] = "error" => \E i \in Open : streams[i].req = r /\ peer[i].stage = "over"
    /\ \/ conn_granted' = conn_granted
       \/ Frame.type = "WINDOW_UPDATE" /\ Frame.id = 0 /\ conn_granted' = conn_granted + Frame.n

\* Taking a frame of an orderly peer loses no answer.
LEMMA OrderlyTaken ==
  ASSUME OrderlyInv, AnswerInv, CreditInv, StreamsAndChannels, inbox # <<>>, ~is_dead, FrameIsTaken
  PROVE  OrderlyInv'
  <1>1. inbox \in Seq(WireFrame) BY DEF CreditInv
  <1>2. inbox' = Tail(inbox) /\ UNCHANGED <<kind, socket, peer, frames, answered>> /\ UNCHANGED is_dead
    BY DEF FrameIsTaken, Taken
  <1>3. /\ Len(inbox) \in Nat /\ Len(inbox) >= 1 /\ Len(inbox') = Len(inbox) - 1 /\ Frame = inbox[1]
        /\ \A k \in 1..Len(inbox') : k + 1 \in 1..Len(inbox) /\ inbox'[k] = inbox[k + 1]
    BY <1>1, <1>2, TailIs DEF Frame
  <1>4. \A k \in 1..Len(inbox) : k # 1 => k - 1 \in 1..Len(inbox') /\ inbox'[k - 1] = inbox[k] BY <1>3
  <1>5. Open' = DOMAIN streams' /\ Open' \subseteq Open BY DEF FrameIsTaken, Open
  <1>6. Frame \in WireFrame /\ inbox' \in Seq(WireFrame) BY <1>2, FrameIs
  <1>7. inbox' = <<>> <=> Len(inbox') = 0 BY <1>6
  <1> SUFFICES ASSUME kind = "orderly" PROVE CallsInv' /\ EndsInv' /\ BlocksInv' /\ UpdatesInv'
    BY <1>2 DEF OrderlyInv
  <1>8. CallsInv /\ EndsInv /\ BlocksInv /\ UpdatesInv BY DEF OrderlyInv
  <1>9. CallsInv'
    <2>1. ASSUME NEW r \in Requests, result'[r] = "error", result[r] # "error"
          PROVE  \E i \in DOMAIN peer : peer[i].req = r /\ peer[i].stage = "over" /\ r \notin answered
      <3>1. PICK i \in Open : streams[i].req = r /\ peer[i].stage = "over" BY <2>1 DEF FrameIsTaken
      <3>2. i \in DOMAIN peer /\ peer[i].req = r BY <3>1 DEF AnswerInv, PeersKnow
      <3> QED BY <1>8, <3>1, <3>2 DEF CallsInv
    <2>2. \A r \in Requests : result'[r] = "new" => result[r] = "new" BY DEF FrameIsTaken
    <2>3. \A i \in DOMAIN peer : peer[i].req \in Requests BY DEF AnswerInv, PeersKnow
    <2> QED BY <1>2, <1>8, <2>1, <2>2, <2>3 DEF CallsInv
  <1>10. EndsInv'
    <2>1. ASSUME NEW i \in Open', peer[i].stage = "done" PROVE \E k \in 1..Len(inbox') : Ends(inbox'[k], i)
      <3>1. PICK k \in 1..Len(inbox) : Ends(inbox[k], i) BY <1>5, <1>8, <2>1 DEF EndsInv
      <3>2. k # 1 BY <1>3, <1>5, <3>1 DEF FrameIsTaken
      <3> QED BY <1>4, <3>1, <3>2
    <2>2. ASSUME NEW i \in Open', NEW l \in 1..Len(inbox), Heads(inbox[l], i)
          PROVE  streams'[i].headers_done \/ (l # 1 /\ Heads(inbox'[l - 1], i))
      BY <1>3, <1>4, <1>5, <2>2 DEF FrameIsTaken
    <2>3. \A i \in Open' : streams[i].headers_done => streams'[i].headers_done BY <1>5 DEF FrameIsTaken
    <2>4. ASSUME NEW k \in 1..Len(inbox'), inbox'[k].type = "DATA", inbox'[k].id \in Open'
          PROVE  \/ streams'[inbox'[k].id].headers_done
                 \/ \E l \in 1..Len(inbox') : l < k /\ Heads(inbox'[l], inbox'[k].id)
      <3> DEFINE i == inbox'[k].id
      <3>1. k + 1 \in 1..Len(inbox) /\ inbox[k + 1].type = "DATA" /\ inbox[k + 1].id = i BY <1>3, <2>4
      <3>2. \/ streams[i].headers_done
            \/ \E l \in 1..Len(inbox) : l < k + 1 /\ Heads(inbox[l], i)
        BY <1>5, <1>8, <2>4, <3>1 DEF EndsInv
      <3>3. CASE streams[i].headers_done BY <2>3, <2>4, <3>3
      <3>4. CASE \E l \in 1..Len(inbox) : l < k + 1 /\ Heads(inbox[l], i)
        <4>1. PICK l \in 1..Len(inbox) : l < k + 1 /\ Heads(inbox[l], i) BY <3>4
        <4>2. streams'[i].headers_done \/ (l # 1 /\ Heads(inbox'[l - 1], i)) BY <2>2, <2>4, <4>1
        <4>3. l # 1 => l - 1 \in 1..Len(inbox') /\ l - 1 < k BY <1>3, <1>4, <4>1
        <4> QED BY <4>2, <4>3
      <3> QED BY <3>2, <3>3, <3>4
    <2>5. ASSUME NEW i \in Open', peer[i].stage = "body"
          PROVE  streams'[i].headers_done \/ \E l \in 1..Len(inbox') : Heads(inbox'[l], i)
      <3>1. streams[i].headers_done \/ \E l \in 1..Len(inbox) : Heads(inbox[l], i) BY <1>5, <1>8, <2>5 DEF EndsInv
      <3> QED BY <1>4, <2>2, <2>3, <3>1
    <2>6. \A k \in 1..Len(inbox') : inbox'[k].type = "HEADERS" /\ inbox'[k].end_stream => inbox'[k].end_headers
      BY <1>3, <1>8 DEF EndsInv
    <2> QED BY <1>2, <2>1, <2>4, <2>5, <2>6 DEF EndsInv, Ends, Heads
  <1>11. BlocksInv'
    <2>1. ASSUME NEW k \in 1..Len(inbox'), Begins(inbox'[k])
          PROVE  \/ k = Len(inbox') /\ peer[inbox'[k].id].stage = "block"
                 \/ k + 1 \in 1..Len(inbox') /\ inbox'[k + 1].type = "CONTINUATION" /\ inbox'[k + 1].id = inbox'[k].id
      <3>1. k + 1 \in 1..Len(inbox) /\ inbox'[k] = inbox[k + 1] BY <1>3
      <3>2. \/ k + 1 = Len(inbox) /\ peer[inbox[k + 1].id].stage = "block"
            \/ /\ (k + 1) + 1 \in 1..Len(inbox) /\ inbox[(k + 1) + 1].type = "CONTINUATION"
               /\ inbox[(k + 1) + 1].id = inbox[k + 1].id
        BY <1>8, <2>1, <3>1 DEF BlocksInv
      <3>3. (k + 1) + 1 \in 1..Len(inbox) => k + 1 \in 1..Len(inbox') /\ inbox'[k + 1] = inbox[(k + 1) + 1] BY <1>3
      <3> QED BY <1>3, <3>1, <3>2, <3>3
    <2>2. ASSUME continuation_stream' # None
          PROVE  IF inbox' = <<>>
                 THEN continuation_stream' \in DOMAIN peer /\ peer[continuation_stream'].stage = "block"
                 ELSE inbox'[1].type = "CONTINUATION" /\ inbox'[1].id = continuation_stream'
      <3>1. Begins(Frame) /\ continuation_stream' = Frame.id BY <2>2 DEF FrameIsTaken
      <3>2. 1 \in 1..Len(inbox) BY <1>3
      <3>3. \/ 1 = Len(inbox) /\ peer[Frame.id].stage = "block"
            \/ 1 + 1 \in 1..Len(inbox) /\ inbox[1 + 1].type = "CONTINUATION" /\ inbox[1 + 1].id = Frame.id
        BY <1>3, <1>8, <3>1, <3>2 DEF BlocksInv
      <3>4. Frame.id \in DOMAIN peer BY <1>3, <3>1, <3>2 DEF AnswerInv, Belongs, Begins
      <3>5. 1 = Len(inbox) => inbox' = <<>> BY <1>3, <1>7, SMTT(30)
      <3>6. 1 + 1 \in 1..Len(inbox) => inbox' # <<>> /\ inbox'[1] = inbox[1 + 1] BY <1>3, <1>7
      <3> QED BY <3>1, <3>3, <3>4, <3>5, <3>6
    <2>3. ASSUME NEW i \in DOMAIN peer, peer[i].stage = "block"
          PROVE  IF inbox' = <<>> THEN continuation_stream' = i
                 ELSE Begins(inbox'[Len(inbox')]) /\ inbox'[Len(inbox')].id = i
      <3>1. Begins(inbox[Len(inbox)]) /\ inbox[Len(inbox)].id = i BY <1>8, <2>3 DEF BlocksInv
      <3>2. CASE Len(inbox) = 1
        <4>1. inbox' = <<>> BY <1>3, <1>7, <3>2
        <4> QED BY <1>3, <3>1, <3>2, <4>1 DEF FrameIsTaken
      <3>3. CASE Len(inbox) # 1
        <4>1. inbox' # <<>> /\ inbox'[Len(inbox')] = inbox[Len(inbox)] BY <1>3, <1>7, <3>3
        <4> QED BY <3>1, <4>1
      <3> QED BY <3>2, <3>3
    <2> QED BY <1>2, <2>1, <2>2, <2>3 DEF BlocksInv, Begins
  <1>12. UpdatesInv'
    <2>1. Most \in Nat /\ frames \in Nat /\ conn_granted \in Nat /\ Len(inbox) <= frames
      BY <1>8, MostIs DEF UpdatesInv, CreditInv, OrderlyInv
    <2>2. ASSUME NEW k \in 1..Len(inbox')
          PROVE  /\ Fatal(inbox'[k]) => k = Len(inbox') /\ socket # "open"
                 /\ inbox'[k].type = "WINDOW_UPDATE" => inbox'[k].n = MAX_WINDOW \/ inbox'[k].n <= Most
      BY <1>3, <1>8 DEF UpdatesInv
    <2>3. conn_granted <= Most * (frames - Len(inbox)) BY <1>8 DEF UpdatesInv
    <2>4. frames - Len(inbox) \in Nat /\ frames - Len(inbox') = (frames - Len(inbox)) + 1 /\ Len(inbox') <= frames
      BY <1>3, <2>1
    <2>5. /\ Most * (frames - Len(inbox)) \in Nat
          /\ Most * (frames - Len(inbox')) = Most * (frames - Len(inbox)) + Most
      BY <2>1, <2>4, Stepwise
    <2>6. conn_granted' <= Most * (frames - Len(inbox')) \/ (inbox' = <<>> /\ socket # "open")
      <3>1. CASE conn_granted' = conn_granted BY <2>1, <2>3, <2>5, <3>1
      <3>2. CASE conn_granted' # conn_granted
        <4>1. Frame.type = "WINDOW_UPDATE" /\ Frame.id = 0 /\ conn_granted' = conn_granted + Frame.n
          BY <3>2 DEF FrameIsTaken
        <4>2. 1 \in 1..Len(inbox) /\ inbox[1] = Frame BY <1>3
        <4>3. CASE Frame.n = MAX_WINDOW
          <5>1. Fatal(Frame) BY <4>1, <4>3 DEF Fatal
          <5>2. 1 = Len(inbox) /\ socket # "open" BY <1>8, <4>2, <5>1 DEF UpdatesInv
          <5>3. Len(inbox') = Len(inbox) - 1 /\ Len(inbox) = 1 BY <1>3, <5>2
          <5>4. Len(inbox') = 0 BY <5>3
          <5> QED BY <1>7, <5>2, <5>4
        <4>4. CASE Frame.n # MAX_WINDOW
          <5>1. Frame.n <= Most BY <1>8, <4>1, <4>2, <4>4 DEF UpdatesInv
          <5>2. Frame.n \in Nat BY FrameIs, WindowAssumption
          <5> QED BY <2>1, <2>3, <2>5, <4>1, <5>1, <5>2
        <4> QED BY <4>3, <4>4
      <3> QED BY <3>1, <3>2
    <2> QED BY <1>2, <1>8, <2>2, <2>4, <2>6 DEF UpdatesInv, Fatal
  <1> QED BY <1>9, <1>10, <1>11, <1>12

\* Nothing is sent or handled; at most requests reach the peer, bodies are pumped and the
\* peer closes.
LEMMA OrderlyStays ==
  ASSUME OrderlyInv, AnswerInv, StreamsAndChannels,
         UNCHANGED <<kind, inbox, answered, result, is_dead, continuation_stream, conn_granted, frames>>,
         DOMAIN streams' = Open, \A i \in Open : streams[i].headers_done => streams'[i].headers_done,
         socket' = socket \/ (socket' # "open" /\ (kind = "orderly" => socket' # "reset")),
         DOMAIN peer' = DOMAIN peer,
         \A i \in DOMAIN peer :
            \/ peer'[i] = peer[i]
            \/ peer[i].stage = "unsent" /\ peer'[i].req = peer[i].req /\ peer'[i].stage = "none"
  PROVE  OrderlyInv'
  <1> SUFFICES ASSUME kind = "orderly" PROVE CallsInv' /\ EndsInv' /\ BlocksInv' /\ (~is_dead => UpdatesInv')
    BY DEF OrderlyInv
  <1>0. Open' = Open BY DEF Open
  <1>1. CallsInv /\ EndsInv /\ BlocksInv /\ (~is_dead => UpdatesInv) BY DEF OrderlyInv
  <1>2. \A i \in DOMAIN peer : peer'[i].stage = peer[i].stage \/ (peer[i].stage = "unsent" /\ peer'[i].stage = "none")
    OBVIOUS
  <1>3. CallsInv' BY <1>1 DEF CallsInv
  <1>4. \A i \in Open : i \in DOMAIN peer BY DEF AnswerInv, PeersKnow
  <1>5. EndsInv' BY <1>0, <1>1, <1>2, <1>4 DEF EndsInv, Ends, Heads
  <1>6. BlocksInv'
    <2>1. \A i \in DOMAIN peer : peer'[i].stage = "block" <=> peer[i].stage = "block" BY <1>2
    <2>2. \A k \in 1..Len(inbox) : Begins(inbox[k]) => inbox[k].id \in DOMAIN peer
      BY DEF AnswerInv, Belongs, Begins
    <2> QED BY <1>1, <2>1, <2>2 DEF BlocksInv, Begins
  <1>7. ~is_dead => UpdatesInv' BY <1>1 DEF UpdatesInv, Fatal
  <1> QED BY <1>3, <1>5, <1>6, <1>7

\* The connection dies when no stream waits for an answer that has come.
LEMMA OrderlyDies ==
  ASSUME OrderlyInv, AnswerInv, StreamsAndChannels, MarkDead,
         kind = "orderly" => \A i \in Open : peer[i].stage # "done"
  PROVE  OrderlyInv'
  <1>1. /\ is_dead' /\ DOMAIN streams' = {} /\ Outcome(Open, "error") /\ inbox' = <<>>
        /\ UNCHANGED <<kind, peer, answered, frames>>
    BY MarkDeadIs
  <1> SUFFICES ASSUME kind = "orderly" PROVE CallsInv' /\ EndsInv' /\ BlocksInv' BY <1>1 DEF OrderlyInv
  <1>2. CallsInv BY DEF OrderlyInv
  <1>3. Open' = {} /\ Len(inbox') = 0 BY <1>1 DEF Open
  <1>4. EndsInv' BY <1>3 DEF EndsInv
  <1>5. BlocksInv' BY <1>1 DEF BlocksInv
  <1>6. \A r \in Requests : result'[r] # result[r] =>
            result'[r] = "error" /\ \E i \in Open : streams[i].req = r
    BY <1>1 DEF Outcome
  <1>7. ASSUME NEW r \in answered PROVE r \in Requests /\ result'[r] \notin {"new", "error"}
    <2>1. r \in Requests /\ result[r] \notin {"new", "error"} BY <1>2 DEF CallsInv
    <2>2. ASSUME NEW i \in Open, streams[i].req = r PROVE FALSE
      <3>1. i \in DOMAIN peer /\ peer[i].req = r BY <2>2 DEF AnswerInv, PeersKnow
      <3> QED BY <1>2, <3>1 DEF CallsInv
    <2> QED BY <1>6, <2>1, <2>2
  <1>8. \A i \in DOMAIN peer : peer[i].req \in Requests BY DEF AnswerInv, PeersKnow
  <1>9. \A r \in Requests : result'[r] = "new" => result[r] = "new" BY <1>6
  <1>10. CallsInv' BY <1>1, <1>2, <1>7, <1>8, <1>9 DEF CallsInv
  <1> QED BY <1>4, <1>5, <1>10

\* The peer, in no block but its own, sends a frame about id.
LEMMA OrderlySent ==
  ASSUME OrderlyInv, AnswerInv, CreditInv, StreamsAndChannels, Speaks, NEW f \in WireFrame,
         inbox' = Append(inbox, f), frames' = frames + 1,
         UNCHANGED <<kind, streams, result, is_dead, continuation_stream, conn_granted>>,
         socket' = socket \/ socket' = "mute", Fatal(f) => socket' = "mute",
         f.type = "WINDOW_UPDATE" => f.n \in Increments,
         DOMAIN peer' = DOMAIN peer,
         NEW id,
         \A i \in DOMAIN peer : i # id => peer'[i] = peer[i],
         peer'[id].req = peer[id].req,
         \/ peer' = peer /\ answered' = answered /\ f.type \notin {"HEADERS", "CONTINUATION", "DATA"}
         \/ /\ id \in DOMAIN peer /\ f.id = id /\ peer[id].stage \notin {"done", "over"}
            /\ peer'[id].stage = "done" => answered' = answered \cup {peer[id].req}
            /\ peer'[id].stage # "done" => answered' = answered,
         kind = "orderly" =>
            /\ \A i \in DOMAIN peer : peer[i].stage = "block" => i = id /\ f.type = "CONTINUATION" /\ f.id = i
            /\ f.type = "CONTINUATION" => peer[id].stage = "block" /\ peer'[id].stage # "block"
            /\ peer'[id].stage = "done" => peer' = peer \/ Ends(f, id)
            /\ peer'[id].stage = "body" => peer' = peer \/ peer[id].stage = "body" \/ Heads(f, id)
            /\ f.type = "DATA" => peer[id].stage = "body"
            /\ f.type = "HEADERS" /\ f.end_stream => f.end_headers
            /\ peer'[id].stage = "block" => peer' = peer \/ (Begins(f) /\ ~peer'[id].last)
            /\ Begins(f) => peer'[id].stage = "block"
  PROVE  OrderlyInv'
  <1>1. inbox \in Seq(WireFrame) /\ ~is_dead /\ socket = "open" /\ frames < MaxFrames[kind]
    BY DEF CreditInv, Speaks
  <1>2. /\ Len(inbox) \in Nat /\ Len(inbox') = Len(inbox) + 1 /\ inbox'[Len(inbox) + 1] = f
        /\ \A k \in 1..Len(inbox) : inbox'[k] = inbox[k]
        /\ \A k \in 1..Len(inbox') : k = Len(inbox) + 1 \/ k \in 1..Len(inbox)
    BY <1>1, AppendIs
  <1>3. /\ inbox' # <<>> /\ Len(inbox') \in 1..Len(inbox') /\ (inbox = <<>> <=> Len(inbox) = 0)
        /\ \A k \in 1..Len(inbox) : k \in 1..Len(inbox') /\ k < Len(inbox')
    <2>1. inbox' \in Seq(WireFrame) BY <1>1
    <2> QED BY <1>1, <1>2, <2>1
  <1>4. Open' = Open /\ \A i \in Open : i \in DOMAIN peer BY DEF Open, AnswerInv, PeersKnow
  <1>5. kind \in Peers /\ (kind = "orderly" => frames \in Nat) BY DEF OrderlyInv
  <1>6. kind = "orderly" => frames' \in Nat /\ frames' <= MaxFrames[kind]
    BY <1>1, <1>5, PeerAssumption
  <1> SUFFICES ASSUME kind = "orderly" PROVE CallsInv' /\ EndsInv' /\ BlocksInv' /\ UpdatesInv'
    BY <1>5, <1>6 DEF OrderlyInv
  <1>7. CallsInv /\ EndsInv /\ BlocksInv /\ UpdatesInv BY <1>1 DEF OrderlyInv
  <1>8. CallsInv'
    <2>1. peer' # peer => result[peer[id].req] \notin {"new", "error"} BY <1>1, <1>7 DEF CallsInv
    <2>2. \A i \in DOMAIN peer : peer[i].req \in Requests BY DEF AnswerInv, PeersKnow
    <2>3. CASE peer' = peer /\ answered' = answered BY <1>7, <2>3 DEF CallsInv
    <2>4. CASE peer' # peer
      <3>1. peer[id].req \notin answered BY <1>7, <2>4 DEF CallsInv
      <3>2. \A r \in answered' : r \in Requests /\ result[r] \notin {"new", "error"}
        BY <1>7, <2>1, <2>2, <2>4 DEF CallsInv
      <3>3. ASSUME NEW i \in DOMAIN peer
            PROVE  /\ result[peer'[i].req] # "new"
                   /\ peer'[i].req \in answered' => peer'[i].stage = "done"
                   /\ ~is_dead /\ result[peer'[i].req] = "error" => peer'[i].stage = "over"
                   /\ peer'[i].stage = "block" => ~peer'[i].last
        <4>1. CASE i = id BY <1>7, <2>1, <2>4, <3>1, <4>1 DEF CallsInv
        <4>2. CASE i # id BY <1>7, <2>4, <4>2 DEF CallsInv
        <4> QED BY <4>1, <4>2
      <3>4. \A i, j \in DOMAIN peer : peer'[i].req = peer'[j].req => i = j BY <1>7 DEF CallsInv
      <3> QED BY <3>2, <3>3, <3>4 DEF CallsInv
    <2>5. CASE peer' = peer /\ answered' # answered BY <1>7, <2>5
    <2> QED BY <2>3, <2>4, <2>5
  <1>9. EndsInv'
    <2>1. ASSUME NEW i \in Open, peer'[i].stage = "done" PROVE \E k \in 1..Len(inbox') : Ends(inbox'[k], i)
      <3>1. CASE peer'[i] = peer[i]
        <4>1. PICK k \in 1..Len(inbox) : Ends(inbox[k], i) BY <1>7, <2>1, <3>1 DEF EndsInv
        <4> QED BY <1>2, <1>3, <4>1
      <3>2. CASE peer'[i] # peer[i]
        <4>1. i = id /\ Ends(f, i) BY <1>4, <2>1, <3>2
        <4> QED BY <1>2, <1>3, <4>1
      <3> QED BY <3>1, <3>2
    <2>2. ASSUME NEW i \in Open, peer[i].stage = "body"
          PROVE  streams[i].headers_done \/ \E l \in 1..Len(inbox) : Heads(inbox[l], i) /\ Heads(inbox'[l], i)
      BY <1>2, <1>7, <2>2 DEF EndsInv
    <2>3. ASSUME NEW k \in 1..Len(inbox'), inbox'[k].type = "DATA", inbox'[k].id \in Open
          PROVE  \/ streams[inbox'[k].id].headers_done
                 \/ \E l \in 1..Len(inbox') : l < k /\ Heads(inbox'[l], inbox'[k].id)
      <3>1. CASE k \in 1..Len(inbox)
        <4>1. \/ streams[inbox[k].id].headers_done
              \/ \E l \in 1..Len(inbox) : l < k /\ Heads(inbox[l], inbox[k].id)
          BY <1>2, <1>7, <2>3, <3>1 DEF EndsInv
        <4> QED BY <1>2, <1>3, <3>1, <4>1
      <3>2. CASE k = Len(inbox) + 1
        <4>1. f.type = "DATA" /\ f.id = id /\ id \in Open /\ peer[id].stage = "body" BY <1>2, <2>3, <3>2
        <4> QED BY <1>2, <1>3, <2>2, <3>2, <4>1
      <3> QED BY <1>2, <3>1, <3>2
    <2>4. ASSUME NEW i \in Open, peer'[i].stage = "body"
          PROVE  streams[i].headers_done \/ \E l \in 1..Len(inbox') : Heads(inbox'[l], i)
      <3>1. CASE peer[i].stage = "body" BY <1>3, <2>2, <3>1
      <3>2. CASE peer[i].stage # "body"
        <4>1. i = id /\ Heads(f, id) BY <1>4, <2>4, <3>2
        <4> QED BY <1>2, <1>3, <4>1
      <3> QED BY <3>1, <3>2
    <2>5. \A k \in 1..Len(inbox') : inbox'[k].type = "HEADERS" /\ inbox'[k].end_stream => inbox'[k].end_headers
      BY <1>2, <1>7 DEF EndsInv
    <2> QED BY <1>4, <2>1, <2>3, <2>4, <2>5 DEF EndsInv, Ends, Heads
  <1>10. BlocksInv'
    <2>0. Len(inbox') = Len(inbox) + 1 /\ inbox'[Len(inbox')] = f BY <1>2
    <2>1. ASSUME NEW k \in 1..Len(inbox'), Begins(inbox'[k])
          PROVE  \/ k = Len(inbox') /\ peer'[inbox'[k].id].stage = "block"
                 \/ k + 1 \in 1..Len(inbox') /\ inbox'[k + 1].type = "CONTINUATION" /\ inbox'[k + 1].id = inbox'[k].id
      <3>1. CASE k \in 1..Len(inbox)
        <4>0. inbox'[k] = inbox[k] /\ inbox[k].id \in DOMAIN peer /\ k + 1 \in 1..Len(inbox')
          BY <1>2, <2>1, <3>1 DEF AnswerInv, Belongs, Begins
        <4>1. CASE k = Len(inbox) /\ peer[inbox[k].id].stage = "block"
          <5>1. f.type = "CONTINUATION" /\ f.id = inbox[k].id BY <4>0, <4>1
          <5> QED BY <1>2, <4>0, <4>1, <5>1
        <4>2. CASE k + 1 \in 1..Len(inbox) /\ inbox[k + 1].type = "CONTINUATION" /\ inbox[k + 1].id = inbox[k].id
          BY <1>2, <4>0, <4>2
        <4> QED BY <1>1, <1>7, <2>1, <3>1, <4>0, <4>1, <4>2 DEF BlocksInv
      <3>2. CASE k = Len(inbox) + 1
        <4>1. Begins(f) /\ f.type = "HEADERS" BY <1>2, <2>1, <3>2 DEF Begins
        <4>2. f.id = id /\ peer'[id].stage = "block" BY <4>1
        <4> QED BY <1>2, <3>2, <4>2
      <3> QED BY <1>2, <3>1, <3>2
    <2>2. ASSUME continuation_stream # None
          PROVE  inbox'[1].type = "CONTINUATION" /\ inbox'[1].id = continuation_stream
      <3>1. CASE inbox = <<>>
        <4>1. continuation_stream \in DOMAIN peer /\ peer[continuation_stream].stage = "block"
          BY <1>1, <1>7, <2>2, <3>1 DEF BlocksInv
        <4>2. f.type = "CONTINUATION" /\ f.id = continuation_stream BY <4>1
        <4> QED BY <1>2, <1>3, <3>1, <4>2
      <3>2. CASE inbox # <<>>
        <4>1. inbox[1].type = "CONTINUATION" /\ inbox[1].id = continuation_stream
          BY <1>1, <1>7, <2>2, <3>2 DEF BlocksInv
        <4>2. 1 \in 1..Len(inbox) BY <1>2, <1>3, <3>2
        <4> QED BY <1>2, <4>1, <4>2
      <3> QED BY <3>1, <3>2
    <2>3. ASSUME NEW i \in DOMAIN peer, peer'[i].stage = "block" PROVE Begins(f) /\ f.id = i
      <3>1. CASE peer' # peer /\ i = id
        <4>1. f.id = id BY <3>1
        <4>2. Begins(f) BY <2>3, <3>1
        <4> QED BY <3>1, <4>1, <4>2
      <3>2. CASE peer'[i] = peer[i]
        <4>1. i = id /\ f.type = "CONTINUATION" /\ f.id = i BY <2>3, <3>2
        <4> QED BY <2>3, <4>1
      <3> QED BY <3>1, <3>2
    <2> QED BY <1>3, <2>0, <2>1, <2>2, <2>3 DEF BlocksInv, Begins
  <1>11. UpdatesInv'
    <2>1. /\ Most \in Nat /\ frames \in Nat /\ conn_granted \in Nat /\ Len(inbox) <= frames
          /\ \A n \in Increments : n <= Most \/ n = MAX_WINDOW
      BY <1>5, <1>7, MostIs DEF UpdatesInv, CreditInv
    <2>2. ASSUME NEW k \in 1..Len(inbox')
          PROVE  /\ Fatal(inbox'[k]) => k = Len(inbox') /\ socket' # "open"
                 /\ inbox'[k].type = "WINDOW_UPDATE" => inbox'[k].n = MAX_WINDOW \/ inbox'[k].n <= Most
      <3>1. CASE k \in 1..Len(inbox) BY <1>1, <1>2, <1>7, <3>1 DEF UpdatesInv
      <3>2. CASE k = Len(inbox) + 1 BY <1>2, <2>1, <3>2
      <3> QED BY <1>2, <3>1, <3>2
    <2>3. frames' - Len(inbox') = frames - Len(inbox) /\ Len(inbox') <= frames' BY <1>2, <2>1
    <2>4. conn_granted' <= Most * (frames' - Len(inbox')) BY <1>1, <1>7, <2>3 DEF UpdatesInv
    <2> QED BY <1>1, <1>6, <2>2, <2>3, <2>4 DEF UpdatesInv, Fatal
  <1> QED BY <1>8, <1>9, <1>10, <1>11

\* What an orderly peer sends keeps its frames in order.
LEMMA OrderlyPeer ==
  ASSUME OrderlyInv, AnswerInv, CreditInv, StreamsAndChannels, Peer PROVE OrderlyInv'
  <1>0. /\ DOMAIN peer \subseteq Nat /\ Windows \subseteq 0..MAX_WINDOW /\ Increments \subseteq 0..MAX_WINDOW
        /\ 0 \in 0..MAX_WINDOW
    BY WindowAssumption DEF CreditInv
  <1>00. ASSUME kind = "orderly", ~InBlock PROVE \A i \in DOMAIN peer : peer[i].stage # "block"
    BY <1>00 DEF InBlock, Faulty
  <1>1. ASSUME NEW id \in DOMAIN peer, NEW eh \in BOOLEAN, NEW es \in BOOLEAN, SendHeaders(id, eh, es) PROVE OrderlyInv'
    <2> DEFINE stage == IF ~eh THEN "block" ELSE IF es THEN "done" ELSE "body"
               f == Sent("HEADERS", id, 0, eh, es)
    <2>1. /\ Sends("HEADERS", id, 0, eh, es) /\ Responds(id, stage, es) /\ peer[id].stage = "none" /\ ~InBlock
          /\ ~eh => es \in SplitsHeaders
      BY <1>1 DEF SendHeaders
    <2>2. f \in WireFrame BY <1>0 DEF WireFrame, Sent
    <2>3. f.type = "HEADERS" /\ f.id = id /\ (f.end_headers <=> eh) /\ (f.end_stream <=> es)
      BY DEF Sent
    <2>4. /\ inbox' = Append(inbox, f) /\ Speaks /\ frames' = frames + 1
          /\ UNCHANGED <<kind, streams, result, is_dead, continuation_stream, conn_granted>>
      BY <2>1, SendsIs
    <2> HIDE DEF f
    <2>5. stage \in {"block", "done", "body"} /\ (stage = "block" <=> ~eh) /\ (stage = "done" <=> eh /\ es)
      BY DEF stage
    <2>6. /\ DOMAIN peer' = DOMAIN peer /\ \A i \in DOMAIN peer : i # id => peer'[i] = peer[i]
          /\ peer'[id].req = peer[id].req /\ peer'[id].stage = stage /\ peer'[id].last = es
          /\ stage = "done" => answered' = answered \cup {peer[id].req}
          /\ stage # "done" => answered' = answered
          /\ socket' = socket
      BY <2>1, RespondsIs
    <2> HIDE DEF stage
    <2>7. kind = "orderly" /\ ~eh => ~es BY <2>1 DEF SplitsHeaders
    <2>8. ~Fatal(f) /\ (Begins(f) <=> ~eh) /\ (Ends(f, id) <=> eh /\ es) /\ (Heads(f, id) <=> eh)
      BY <2>3 DEF Fatal, Begins, Ends, Heads
    <2>9. kind = "orderly" =>
            /\ \A i \in DOMAIN peer : peer[i].stage = "block" => i = id /\ f.type = "CONTINUATION" /\ f.id = i
            /\ f.type = "CONTINUATION" => peer[id].stage = "block" /\ peer'[id].stage # "block"
            /\ peer'[id].stage = "done" => peer' = peer \/ Ends(f, id)
            /\ peer'[id].stage = "body" => peer' = peer \/ peer[id].stage = "body" \/ Heads(f, id)
            /\ f.type = "DATA" => peer[id].stage = "body"
            /\ f.type = "HEADERS" /\ f.end_stream => f.end_headers
            /\ peer'[id].stage = "block" => peer' = peer \/ (Begins(f) /\ ~peer'[id].last)
            /\ Begins(f) => peer'[id].stage = "block"
      BY <1>00, <2>1, <2>3, <2>5, <2>6, <2>7, <2>8
    <2> QED BY <2>1, <2>2, <2>3, <2>4, <2>6, <2>8, <2>9, OrderlySent
  <1>2. ASSUME NEW id \in DOMAIN peer, NEW es \in BOOLEAN, SendData(id, es) PROVE OrderlyInv'
    <2> DEFINE stage == IF es THEN "done" ELSE "body"
               f == Sent("DATA", id, 0, FALSE, es)
    <2>1. Sends("DATA", id, 0, FALSE, es) /\ Responds(id, stage, es) /\ peer[id].stage = "body" /\ ~InBlock
      BY <1>2 DEF SendData
    <2>2. f \in WireFrame BY <1>0 DEF WireFrame, Sent
    <2>3. f.type = "DATA" /\ f.id = id /\ (f.end_stream <=> es) BY DEF Sent
    <2>4. /\ inbox' = Append(inbox, f) /\ Speaks /\ frames' = frames + 1
          /\ UNCHANGED <<kind, streams, result, is_dead, continuation_stream, conn_granted>>
      BY <2>1, SendsIs
    <2> HIDE DEF f
    <2>5. stage \in {"done", "body"} /\ (stage = "done" <=> es) BY DEF stage
    <2>6. /\ DOMAIN peer' = DOMAIN peer /\ \A i \in DOMAIN peer : i # id => peer'[i] = peer[i]
          /\ peer'[id].req = peer[id].req /\ peer'[id].stage = stage
          /\ stage = "done" => answered' = answered \cup {peer[id].req}
          /\ stage # "done" => answered' = answered
          /\ socket' = socket
      BY <2>1, RespondsIs
    <2> HIDE DEF stage
    <2>8. ~Fatal(f) /\ ~Begins(f) /\ (Ends(f, id) <=> es) BY <2>3 DEF Fatal, Begins, Ends
    <2>9. kind = "orderly" =>
            /\ \A i \in DOMAIN peer : peer[i].stage = "block" => i = id /\ f.type = "CONTINUATION" /\ f.id = i
            /\ peer'[id].stage = "done" => Ends(f, id)
            /\ peer'[id].stage # "block"
      BY <1>00, <2>1, <2>5, <2>6, <2>8
    <2> QED BY <2>1, <2>2, <2>3, <2>4, <2>6, <2>8, <2>9, OrderlySent
  <1>3. ASSUME NEW id \in DOMAIN peer, SendContinuation(id) PROVE OrderlyInv'
    <2> DEFINE stage == IF peer[id].last THEN "done" ELSE "body"
               f == Sent("CONTINUATION", id, 0, TRUE, FALSE)
    <2>1. /\ Sends("CONTINUATION", id, 0, TRUE, FALSE) /\ Responds(id, stage, peer[id].last)
          /\ peer[id].stage = "block"
      BY <1>3 DEF SendContinuation
    <2>2. f \in WireFrame BY <1>0 DEF WireFrame, Sent
    <2>3. f.type = "CONTINUATION" /\ f.id = id BY DEF Sent
    <2>4. /\ inbox' = Append(inbox, f) /\ Speaks /\ frames' = frames + 1
          /\ UNCHANGED <<kind, streams, result, is_dead, continuation_stream, conn_granted>>
      BY <2>1, SendsIs
    <2> HIDE DEF f
    <2>5. stage \in {"done", "body"} /\ (kind = "orderly" => stage = "body")
      BY <2>1 DEF stage, OrderlyInv, CallsInv
    <2>6. /\ DOMAIN peer' = DOMAIN peer /\ \A i \in DOMAIN peer : i # id => peer'[i] = peer[i]
          /\ peer'[id].req = peer[id].req /\ peer'[id].stage = stage
          /\ stage = "done" => answered' = answered \cup {peer[id].req}
          /\ stage # "done" => answered' = answered
          /\ socket' = socket
      BY <2>1, RespondsIs
    <2> HIDE DEF stage
    <2>8. ~Fatal(f) /\ ~Begins(f) /\ Heads(f, id) BY <2>3 DEF Fatal, Begins, Heads
    <2>9. ASSUME kind = "orderly" PROVE \A i \in DOMAIN peer : peer[i].stage = "block" => i = id
      <3>1. ~is_dead BY <2>4 DEF Speaks
      <3> QED BY <2>1, <2>9, <3>1 DEF OrderlyInv, BlocksInv
    <2>10. kind = "orderly" => peer'[id].stage = "body" BY <2>5, <2>6
    <2> QED BY <2>1, <2>2, <2>3, <2>4, <2>6, <2>8, <2>9, <2>10, OrderlySent
  <1>4. ASSUME NEW id \in DOMAIN peer, SendRst(id) PROVE OrderlyInv'
    <2> DEFINE f == Sent("RST_STREAM", id, 0, FALSE, FALSE)
    <2>1. /\ Sends("RST_STREAM", id, 0, FALSE, FALSE) /\ peer' = [peer EXCEPT ![id].stage = "over"]
          /\ peer[id].stage \in {"none", "body"} /\ UNCHANGED <<answered, socket>> /\ ~InBlock
      BY <1>4 DEF SendRst
    <2>2. f \in WireFrame BY <1>0 DEF WireFrame, Sent
    <2>3. f.type = "RST_STREAM" /\ f.id = id BY DEF Sent
    <2>4. /\ inbox' = Append(inbox, f) /\ Speaks /\ frames' = frames + 1
          /\ UNCHANGED <<kind, streams, result, is_dead, continuation_stream, conn_granted>>
      BY <2>1, SendsIs
    <2> HIDE DEF f
    <2>5. DOMAIN peer[id] = PeerFields BY DEF AnswerInv, PeersKnow
    <2>6. /\ DOMAIN peer' = DOMAIN peer /\ \A i \in DOMAIN peer : i # id => peer'[i] = peer[i]
          /\ peer'[id].req = peer[id].req /\ peer'[id].stage = "over"
      BY <2>1, <2>5 DEF PeerFields
    <2>8. ~Fatal(f) /\ ~Begins(f) BY <2>3 DEF Fatal, Begins
    <2>9. kind = "orderly" => \A i \in DOMAIN peer : peer[i].stage # "block" BY <1>00, <2>1
    <2> QED BY <2>1, <2>2, <2>3, <2>4, <2>6, <2>8, <2>9, OrderlySent
  <1>5. ASSUME NEW type \in {"SETTINGS", "WINDOW_UPDATE", "GOAWAY"}, NEW id \in Nat, NEW n \in 0..MAX_WINDOW,
               Sends(type, id, n, FALSE, FALSE), UNCHANGED <<peer, answered>>, ~InBlock,
               type = "WINDOW_UPDATE" => n \in Increments, socket' = socket \/ socket' = "mute",
               type = "GOAWAY" \/ (type = "WINDOW_UPDATE" /\ (n = 0 \/ n = MAX_WINDOW)) => socket' = "mute"
        PROVE  OrderlyInv'
    <2> DEFINE f == Sent(type, id, n, FALSE, FALSE)
    <2>2. f \in WireFrame BY <1>0 DEF WireFrame, Sent
    <2>3. f.type = type /\ f.id = id /\ f.n = n BY DEF Sent
    <2>4. /\ inbox' = Append(inbox, f) /\ Speaks /\ frames' = frames + 1
          /\ UNCHANGED <<kind, streams, result, is_dead, continuation_stream, conn_granted>>
      BY <1>5, SendsIs
    <2> HIDE DEF f
    <2>8. (Fatal(f) => socket' = "mute") /\ ~Begins(f) BY <1>5, <2>3 DEF Fatal, Begins
    <2>9. kind = "orderly" => \A i \in DOMAIN peer : peer[i].stage # "block" BY <1>00, <1>5
    <2> QED BY <1>5, <2>2, <2>3, <2>4, <2>8, <2>9, OrderlySent
  <1>6. ASSUME NEW n \in Windows, SendSettings(n) PROVE OrderlyInv' BY <1>0, <1>5, <1>6 DEF SendSettings
  <1>7. ASSUME NEW id \in DOMAIN peer \cup {0}, NEW n \in Increments, SendUpdate(id, n) PROVE OrderlyInv'
    BY <1>0, <1>5, <1>7 DEF SendUpdate
  <1>8. CASE SendGoAway BY <1>0, <1>5, <1>8 DEF SendGoAway
  <1>9. ASSUME NEW how \in {"closed", "reset"}, Close(how) PROVE OrderlyInv'
    <2>1. /\ UNCHANGED <<kind, inbox, answered, result, is_dead, continuation_stream, conn_granted, frames, peer, streams>>
          /\ socket' = how /\ (how = "reset" => kind = "faulty")
      BY <1>9 DEF Close, conn, Faulty
    <2> QED BY <2>1, OrderlyStays DEF Open
  <1> QED BY <1>1, <1>2, <1>3, <1>4, <1>6, <1>7, <1>8, <1>9 DEF Peer

\* A call is given a stream the peer has not heard of.
LEMMA OrderlyOpens ==
  ASSUME OrderlyInv, AnswerInv, StreamsAndChannels, ~is_dead, NEW r \in Requests, result[r] = "new",
         NEW id, id \notin Open, id \notin DOMAIN peer,
         DOMAIN streams' = Open \cup {id}, \A i \in Open : streams'[i] = streams[i],
         DOMAIN peer' = (DOMAIN peer) \cup {id}, \A i \in DOMAIN peer : peer'[i] = peer[i],
         peer'[id].req = r, peer'[id].stage = "unsent",
         UNCHANGED <<kind, inbox, answered, is_dead, continuation_stream, conn_granted, frames, socket>>,
         result' = [result EXCEPT ![r] = "waiting"]
  PROVE  OrderlyInv'
  <1> SUFFICES ASSUME kind = "orderly" PROVE CallsInv' /\ EndsInv' /\ BlocksInv' /\ UpdatesInv' BY DEF OrderlyInv
  <1>1. CallsInv /\ EndsInv /\ BlocksInv /\ UpdatesInv BY DEF OrderlyInv
  <1>2. Open' = Open \cup {id} BY DEF Open
  <1>3. \A q \in Requests : (q # r => result'[q] = result[q]) /\ result'[r] = "waiting" BY DEF StreamsAndChannels
  <1>4. \A i \in DOMAIN peer : peer[i].req \in Requests /\ peer[i].req # r
    BY <1>1 DEF AnswerInv, PeersKnow, CallsInv
  <1>5. r \notin answered BY <1>1 DEF CallsInv
  <1>6. CallsInv'
    <2>1. \A q \in answered' : q \in Requests /\ result'[q] \notin {"new", "error"} BY <1>1, <1>3, <1>5 DEF CallsInv
    <2>2. ASSUME NEW i \in DOMAIN peer'
          PROVE  /\ result'[peer'[i].req] # "new"
                 /\ peer'[i].req \in answered' => peer'[i].stage = "done"
                 /\ ~is_dead' /\ result'[peer'[i].req] = "error" => peer'[i].stage = "over"
                 /\ peer'[i].stage = "block" => ~peer'[i].last
      <3>1. CASE i = id BY <1>3, <1>5, <3>1
      <3>2. CASE i \in DOMAIN peer BY <1>1, <1>3, <1>4, <3>2 DEF CallsInv
      <3> QED BY <3>1, <3>2
    <2>3. \A i, j \in DOMAIN peer' : peer'[i].req = peer'[j].req => i = j BY <1>1, <1>4 DEF CallsInv
    <2> QED BY <2>1, <2>2, <2>3 DEF CallsInv
  <1>7. \A k \in 1..Len(inbox) : inbox[k].type \in {"HEADERS", "DATA"} => inbox[k].id \in DOMAIN peer
    BY DEF AnswerInv, Belongs
  <1>8. \A i \in Open : i \in DOMAIN peer BY DEF AnswerInv, PeersKnow
  <1>9. EndsInv'
    <2>1. ASSUME NEW i \in Open', peer'[i].stage \in {"done", "body"} PROVE i \in Open /\ peer'[i] = peer[i]
      BY <1>2, <1>8, <2>1
    <2>2. \A k \in 1..Len(inbox) : inbox[k].type = "DATA" /\ inbox[k].id \in Open' => inbox[k].id \in Open
      BY <1>2, <1>7
    <2> QED BY <1>1, <2>1, <2>2 DEF EndsInv, Ends, Heads
  <1>10. BlocksInv'
    <2>1. \A i \in DOMAIN peer' : peer'[i].stage = "block" => i \in DOMAIN peer /\ peer[i].stage = "block" OBVIOUS
    <2>2. \A k \in 1..Len(inbox) : Begins(inbox[k]) => inbox[k].id \in DOMAIN peer BY <1>7 DEF Begins
    <2> QED BY <1>1, <2>1, <2>2 DEF BlocksInv, Begins
  <1>11. UpdatesInv' BY <1>1 DEF UpdatesInv, Fatal
  <1> QED BY <1>6, <1>9, <1>10, <1>11

\* The peer is of one kind for good, and only a live connection is driven.
DrivenAlive == is_dead => pc = "idle"

\* A connection that is being driven is alive after every step.
LEMMA DrivenNext ==
  ASSUME DrivenAlive, [ClientNext]_clientvars PROVE DrivenAlive' /\ kind' = kind
  <1>1. CASE MarkDead BY <1>1, MarkDeadIs DEF DrivenAlive
  <1>2. ASSUME UNCHANGED kind, is_dead' => is_dead /\ pc' = pc PROVE DrivenAlive' /\ kind' = kind
    BY <1>2 DEF DrivenAlive
  <1>3. ASSUME UNCHANGED <<kind, is_dead>>, pc # "idle" PROVE DrivenAlive' /\ kind' = kind
    BY <1>3 DEF DrivenAlive
  <1>4. ASSUME NEW r, Dispatch(r) PROVE DrivenAlive' /\ kind' = kind BY <1>2, <1>4 DEF Dispatch
  <1>5. ASSUME NEW r, DispatchConnects(r) PROVE DrivenAlive' /\ kind' = kind
    BY <1>2, <1>5 DEF DispatchConnects, Connected
  <1>6. ASSUME NEW r, ConnectFails(r) PROVE DrivenAlive' /\ kind' = kind BY <1>2, <1>6 DEF ConnectFails, conn
  <1>7. CASE Flush
    <2>1. ~is_dead /\ UNCHANGED <<is_dead, kind>> BY <1>7 DEF Flush
    <2> QED BY <1>2, <2>1
  <1>8. CASE FlushFails \/ ExpectedContinuation \/ GoAway BY <1>1, <1>8 DEF FlushFails, ExpectedContinuation, GoAway
  <1>9. CASE DriveEnds
    <2>1. CASE MarkDead BY <1>1, <2>1
    <2>2. CASE UNCHANGED <<conn, kind>> BY <1>3, <1>9, <2>2 DEF DriveEnds, conn
    <2> QED BY <1>9, <2>1, <2>2 DEF DriveEnds
  <1>10. CASE Settings BY <1>3, <1>10 DEF Settings, Handles, Taken
  <1>11. CASE PumpAll BY <1>3, <1>11 DEF PumpAll
  <1>12. CASE Headers BY <1>3, <1>12 DEF Headers, Handles, Taken
  <1>13. CASE Continuation BY <1>3, <1>13 DEF Continuation, Handles, Taken
  <1>14. CASE Data BY <1>3, <1>14 DEF Data, Handles, Taken
  <1>15. CASE RstStream BY <1>3, <1>15 DEF RstStream, Handles, Taken
  <1>16. CASE WindowUpdateConn BY <1>1, <1>3, <1>16 DEF WindowUpdateConn, Handles, Taken
  <1>17. CASE WindowUpdateStream BY <1>3, <1>17 DEF WindowUpdateStream, Handles, Taken
  <1>18. CASE Peer
    BY <1>2, <1>18 DEF Peer, SendHeaders, SendContinuation, SendData, SendRst, SendSettings, SendUpdate, SendGoAway,
                       Sends, Close, conn
  <1>19. CASE UNCHANGED clientvars BY <1>2, <1>19 DEF clientvars, conn
  <1> QED BY <1>4, <1>5, <1>6, <1>7, <1>8, <1>9, <1>10, <1>11, <1>12, <1>13, <1>14, <1>15, <1>16, <1>17, <1>18, <1>19
         DEF ClientNext, Drive

\* When nothing is left to handle, or a frame the peer says nothing after, no stream
\* waits for an answer that has come.
LEMMA NoneWaits ==
  ASSUME OrderlyInv, AnswerInv, CreditInv, ~is_dead, kind = "orderly", inbox = <<>> \/ Fatal(Frame)
  PROVE  \A i \in Open : peer[i].stage # "done"
  <1>1. EndsInv /\ UpdatesInv BY DEF OrderlyInv
  <1>2. inbox \in Seq(WireFrame) BY DEF CreditInv
  <1>3. CASE inbox = <<>>
    <2>1. Len(inbox) = 0 BY <1>3
    <2> QED BY <1>1, <2>1 DEF EndsInv
  <1>4. CASE inbox # <<>>
    <2>1. 1 \in 1..Len(inbox) /\ Frame = inbox[1] BY <1>2, <1>4, TailIs DEF Frame
    <2>2. Fatal(inbox[1]) BY <1>4, <2>1
    <2>3. 1 = Len(inbox) BY <1>1, <2>1, <2>2 DEF UpdatesInv
    <2>4. \A k \in 1..Len(inbox) : k = 1 BY <2>3
    <2>5. \A i : ~Ends(inbox[1], i) BY <2>2 DEF Fatal, Ends
    <2> QED BY <1>1, <2>4, <2>5 DEF EndsInv
  <1> QED BY <1>3, <1>4

\* An orderly peer's credit is never too much.
LEMMA UpdateIsGood ==
  ASSUME OrderlyInv, CreditInv, ~is_dead, kind = "orderly", inbox # <<>>, Frame.type = "WINDOW_UPDATE",
         Frame.id = 0, ~Fatal(Frame)
  PROVE  ~BadConnUpdate(Frame.n)
  <1>1. UpdatesInv /\ kind \in Peers BY DEF OrderlyInv
  <1>2. inbox \in Seq(WireFrame) BY DEF CreditInv
  <1>3. 1 \in 1..Len(inbox) /\ Frame = inbox[1] /\ Len(inbox) \in Nat /\ Len(inbox) >= 1 BY <1>2, TailIs DEF Frame
  <1>4. Frame.n # 0 /\ Frame.n # MAX_WINDOW BY DEF Fatal
  <1>5. Frame.n <= Most BY <1>1, <1>3, <1>4 DEF UpdatesInv
  <1>6. /\ Most \in Nat /\ MaxFrames["orderly"] \in Nat /\ DEFAULT_WINDOW + Most * MaxFrames["orderly"] <= MAX_WINDOW
    BY <1>1, MostIs, PeerAssumption
  <1>7. frames \in Nat /\ frames <= MaxFrames["orderly"] /\ Len(inbox) <= frames BY <1>1 DEF UpdatesInv
  <1>8. conn_granted <= Most * (frames - Len(inbox)) BY <1>1 DEF UpdatesInv
  <1> DEFINE a == frames - Len(inbox)
  <1>9. a \in Nat /\ a + 1 \in Nat /\ a + 1 <= MaxFrames["orderly"] BY <1>3, <1>6, <1>7
  <1>10. conn_granted <= Most * a BY <1>8
  <1> HIDE DEF a
  <1>11. Most * a \in Nat /\ Most * (a + 1) = Most * a + Most BY <1>6, <1>9, Stepwise
  <1>12. Most * (a + 1) <= Most * MaxFrames["orderly"] BY <1>6, <1>9, GrantsGrow
  <1>13. Most * MaxFrames["orderly"] \in Nat BY <1>6, Stepwise
  <1>14. /\ conn_send_window = DEFAULT_WINDOW + conn_granted - conn_sent /\ conn_granted \in Nat /\ conn_sent \in Nat
         /\ DEFAULT_WINDOW \in Nat /\ MAX_WINDOW \in Nat
    BY WindowAssumption DEF CreditInv
  <1>15. Frame.n \in Nat BY <1>14, FrameIs
  <1> HIDE DEF Frame
  <1> DEFINE x == Most * a
             y == Most * MaxFrames["orderly"]
  <1>16. x \in Nat /\ y \in Nat /\ x + Most <= y /\ conn_granted <= x /\ DEFAULT_WINDOW + y <= MAX_WINDOW
    BY <1>6, <1>10, <1>11, <1>12, <1>13
  <1> HIDE DEF x, y
  <1>17. conn_send_window + Frame.n <= MAX_WINDOW BY <1>5, <1>6, <1>14, <1>15, <1>16
  <1> QED BY <1>4, <1>14, <1>15, <1>17 DEF BadConnUpdate

\* Every step keeps what is promised to an orderly peer.
LEMMA OrderlyNext ==
  ASSUME OrderlyInv, DrivenAlive, AnswerInv, CreditInv, StreamsAndChannels, [ClientNext]_clientvars
  PROVE  OrderlyInv'
  <1>0. kind' = kind /\ kind \in Peers BY DrivenNext DEF OrderlyInv
  <1> SUFFICES ASSUME kind = "orderly" PROVE OrderlyInv' BY <1>0 DEF OrderlyInv
  <1>00. CallsInv /\ EndsInv /\ BlocksInv /\ (~is_dead => UpdatesInv) BY DEF OrderlyInv
  <1>01. \A i \in Open : DOMAIN streams[i] = StreamFields BY DEF StreamsAndChannels
  <1>02. inbox \in Seq(WireFrame) BY DEF CreditInv
  <1>03. ASSUME inbox # <<>> PROVE 1 \in 1..Len(inbox) /\ Frame = inbox[1] /\ Belongs(Frame)
    BY <1>02, <1>03, TailIs DEF Frame, AnswerInv
  <1>1. ASSUME NEW r \in Requests, Dispatch(r) PROVE OrderlyInv'
    <2>1. /\ OpenStream(r, next_stream_id, conn_send_window, peer_initial_window) /\ ~is_dead /\ result[r] = "new"
          /\ UNCHANGED <<kind, inbox, answered, is_dead, continuation_stream, conn_granted, frames, socket>>
          /\ peer' = [i \in DOMAIN peer \cup {next_stream_id} |->
                        IF i = next_stream_id THEN [req |-> r, stage |-> "unsent", last |-> FALSE] ELSE peer[i]]
      BY <1>1 DEF Dispatch
    <2>2. next_stream_id \in Nat /\ next_stream_id \notin Open BY DEF StreamsAndChannels
    <2>3. next_stream_id \notin DOMAIN peer BY <2>2 DEF AnswerInv, PeersKnow
    <2>4. /\ DOMAIN peer' = (DOMAIN peer) \cup {next_stream_id} /\ \A i \in DOMAIN peer : peer'[i] = peer[i]
          /\ peer'[next_stream_id].req = r /\ peer'[next_stream_id].stage = "unsent"
      BY <2>1, <2>3
    <2>5. /\ DOMAIN streams' = Open \cup {next_stream_id} /\ \A i \in Open : streams'[i] = streams[i]
          /\ result' = [result EXCEPT ![r] = "waiting"]
      BY <2>1, <2>2, OpenStreamIs
    <2> QED BY <2>1, <2>2, <2>3, <2>4, <2>5, OrderlyOpens
  <1>2. ASSUME NEW r \in Requests, DispatchConnects(r) PROVE OrderlyInv'
    <2>1. /\ OpenStream(r, 1, DEFAULT_WINDOW, DEFAULT_WINDOW) /\ result[r] = "new" /\ is_dead /\ ~is_dead'
          /\ inbox' = <<>> /\ socket' = "open" /\ continuation_stream' = None /\ conn_granted' = 0
          /\ UNCHANGED <<answered, frames, kind>>
          /\ peer' = [i \in {1} |-> [req |-> r, stage |-> "unsent", last |-> FALSE]]
      BY <1>2 DEF DispatchConnects, Connected
    <2>2. Open = {} /\ 1 \notin Open BY <2>1 DEF StreamsAndChannels
    <2>3. DOMAIN streams' = Open \cup {1} /\ result' = [result EXCEPT ![r] = "waiting"] BY <2>1, <2>2, OpenStreamIs
    <2>4. DOMAIN peer' = {1} /\ peer'[1].req = r /\ peer'[1].stage = "unsent" BY <2>1
    <2>5. Open' = {1} /\ Len(inbox') = 0 BY <2>1, <2>2, <2>3 DEF Open
    <2>6. r \notin answered /\ \A q \in answered : q \in Requests /\ result[q] \notin {"new", "error"}
      BY <1>00, <2>1 DEF CallsInv
    <2>7. \A q \in Requests : (q # r => result'[q] = result[q]) /\ result'[r] = "waiting"
      BY <2>3 DEF StreamsAndChannels
    <2>8. CallsInv' BY <2>1, <2>4, <2>6, <2>7 DEF CallsInv
    <2>9. EndsInv' BY <2>4, <2>5 DEF EndsInv
    <2>10. BlocksInv' BY <2>1, <2>4, <2>5 DEF BlocksInv
    <2>11. UpdatesInv'
      <3>1. frames' \in Nat /\ frames' <= MaxFrames[kind'] /\ Most \in Nat BY <1>0, <2>1, MostIs DEF OrderlyInv
      <3>2. conn_granted' <= Most * (frames' - Len(inbox'))
        <4>0. frames' \in Nat /\ Len(inbox') \in Nat /\ Len(inbox') <= frames' BY <2>5, <3>1
        <4>1. frames' - Len(inbox') \in Nat BY ONLY <4>0, NoneTaken
        <4>2. Most * (frames' - Len(inbox')) \in Nat BY <3>1, <4>1, Stepwise
        <4> QED BY <2>1, <4>2
      <3>3. Len(inbox') <= frames' BY <2>5, <3>1
      <3> QED BY <2>1, <2>5, <3>1, <3>2, <3>3 DEF UpdatesInv
    <2> QED BY <1>0, <2>1, <2>8, <2>9, <2>10, <2>11 DEF OrderlyInv
  <1>3. ASSUME NEW r \in Requests, ConnectFails(r) PROVE OrderlyInv'
    <2>1. /\ result[r] = "new" /\ is_dead /\ result' = [result EXCEPT ![r] = "error"]
          /\ UNCHANGED <<kind, is_dead, streams, inbox, peer, answered, frames, continuation_stream>>
      BY <1>3 DEF ConnectFails, conn, remote
    <2>2. \A q \in Requests : (q # r => result'[q] = result[q]) BY <2>1 DEF StreamsAndChannels
    <2>3. r \notin answered /\ \A i \in DOMAIN peer : peer[i].req # r /\ peer[i].req \in Requests
      BY <1>00, <2>1 DEF CallsInv, AnswerInv, PeersKnow
    <2>4. CallsInv' BY <1>00, <2>1, <2>2, <2>3 DEF CallsInv
    <2>5. EndsInv' /\ BlocksInv' BY <1>00, <2>1 DEF EndsInv, BlocksInv, Open, Ends, Heads
    <2> QED BY <1>0, <2>1, <2>4, <2>5 DEF OrderlyInv
  <1>4. CASE Flush
    <2>1. /\ UNCHANGED <<kind, inbox, answered, result, is_dead, continuation_stream, conn_granted, frames, streams, socket>>
          /\ peer' = [i \in DOMAIN peer |-> IF peer[i].stage = "unsent" /\ ~unsent'
                                            THEN [peer[i] EXCEPT !.stage = "none"] ELSE peer[i]]
      BY <1>4 DEF Flush
    <2>2. ASSUME NEW i \in DOMAIN peer, peer'[i] # peer[i]
          PROVE  peer[i].stage = "unsent" /\ peer'[i].req = peer[i].req /\ peer'[i].stage = "none"
      <3>1. peer[i].stage = "unsent" /\ peer'[i] = [peer[i] EXCEPT !.stage = "none"] BY <2>1, <2>2
      <3>2. DOMAIN peer[i] = PeerFields BY DEF AnswerInv, PeersKnow
      <3> QED BY <3>1, <3>2 DEF PeerFields
    <2>3. DOMAIN peer' = DOMAIN peer BY <2>1
    <2> QED BY <2>1, <2>2, <2>3, OrderlyStays DEF Open
  <1>5. ASSUME MarkDead, ~is_dead, inbox = <<>> \/ Fatal(Frame) PROVE OrderlyInv'
    BY <1>5, NoneWaits, OrderlyDies
  <1>6. CASE FlushFails BY <1>00, <1>6 DEF FlushFails, UpdatesInv
  <1>7. CASE ExpectedContinuation
    <2>1. ~is_dead /\ inbox # <<>> /\ continuation_stream # None
      BY <1>7 DEF ExpectedContinuation, DrivenAlive
    <2>2. Frame.type = "CONTINUATION" /\ Frame.id = continuation_stream BY <1>00, <1>03, <2>1 DEF BlocksInv
    <2> QED BY <1>7, <2>2 DEF ExpectedContinuation
  <1>8. CASE GoAway
    <2>1. ~is_dead /\ MarkDead /\ Fatal(Frame) BY <1>8 DEF GoAway, Handles, DrivenAlive, Fatal
    <2> QED BY <1>5, <2>1
  <1>9. ASSUME UNCHANGED <<kind, inbox, answered, result, is_dead, continuation_stream, conn_granted, frames, socket, peer>>,
               DOMAIN streams' = Open, \A i \in Open : streams[i].headers_done => streams'[i].headers_done
        PROVE  OrderlyInv'
    BY <1>9, OrderlyStays
  <1>10. CASE DriveEnds
    <2>1. ~is_dead /\ inbox = <<>> BY <1>10 DEF DriveEnds, DrivenAlive
    <2>2. CASE MarkDead BY <1>5, <2>1, <2>2
    <2>3. CASE UNCHANGED <<conn, kind, remote, result, conn_granted>> BY <1>9, <2>3 DEF conn, remote, Open
    <2> QED BY <1>10, <2>2, <2>3 DEF DriveEnds
  <1>11. CASE PumpAll
    <2>1. UNCHANGED <<kind, inbox, answered, result, is_dead, continuation_stream, conn_granted, frames, socket, peer>>
      BY <1>11 DEF PumpAll, remote
    <2>2. CASE UNCHANGED streams BY <1>9, <2>1, <2>2 DEF Open
    <2>3. ASSUME NEW i \in to_pump, NEW n, streams' = [streams EXCEPT ![i] = Drained(@, n)] PROVE OrderlyInv'
      <3>1. DOMAIN streams' = Open BY <2>3 DEF Open
      <3>2. \A j \in Open : streams[j].headers_done => streams'[j].headers_done
        BY <1>01, <2>3, DrainedFields DEF Open
      <3> QED BY <1>9, <2>1, <3>1, <3>2
    <2> QED BY <1>11, <2>2, <2>3 DEF PumpAll
  \* Frames.
  <1>12. ASSUME NEW type, Handles(type)
         PROVE  /\ inbox # <<>> /\ Frame.type = type /\ ~is_dead
                /\ type # "CONTINUATION" => continuation_stream = None
    BY <1>12 DEF Handles, DrivenAlive
  <1>13. ASSUME NEW type, Handles(type), type \notin {"HEADERS", "CONTINUATION", "DATA"}, Taken,
                UNCHANGED <<is_dead, next_stream_id, continuation_stream, result>>,
                DOMAIN streams' = Open, \A i \in Open : streams[i].headers_done => streams'[i].headers_done,
                \/ UNCHANGED conn_granted
                \/ Frame.type = "WINDOW_UPDATE" /\ Frame.id = 0 /\ conn_granted' = conn_granted + Frame.n
         PROVE  OrderlyInv'
    <2>1. /\ inbox # <<>> /\ Frame.type = type /\ ~is_dead /\ continuation_stream = None BY <1>12, <1>13
    <2>2. ~Begins(Frame) /\ \A i : ~Ends(Frame, i) /\ ~Heads(Frame, i) BY <1>13, <2>1 DEF Begins, Ends, Heads
    <2>3. FrameIsTaken BY <1>13, <2>1, <2>2 DEF FrameIsTaken
    <2> QED BY <2>1, <2>3, OrderlyTaken
  <1>14. CASE Settings
    <2>1. /\ Handles("SETTINGS") /\ Taken /\ DOMAIN streams' = Open
          /\ UNCHANGED <<is_dead, next_stream_id, continuation_stream, result, conn_granted>>
      BY <1>14 DEF Settings
    <2>2. ASSUME NEW i \in Open PROVE streams[i].headers_done => streams'[i].headers_done
      BY <1>01, <1>14 DEF Settings, StreamFields
    <2> QED BY <1>13, <2>1, <2>2
  \* A stream ends with the frame at hand.
  <1>15. ASSUME NEW type, Handles(type), type # "CONTINUATION", ~Begins(Frame), Taken,
                UNCHANGED <<is_dead, next_stream_id, conn_granted>>, continuation_stream' = None,
                streams' = Only(streams, Open \ {Frame.id}), NEW how, how # "new", Outcome({Frame.id}, how),
                how = "error" /\ Frame.id \in Open => peer[Frame.id].stage = "over"
         PROVE  OrderlyInv'
    <2>1. inbox # <<>> /\ Frame.type = type /\ ~is_dead BY <1>12, <1>15
    <2>2. DOMAIN streams' = Open \ {Frame.id} /\ \A i \in Open \ {Frame.id} : streams'[i] = streams[i]
      BY <1>15 DEF Only
    <2>3. \A i : Ends(Frame, i) \/ Heads(Frame, i) => i = Frame.id BY DEF Ends, Heads
    <2>4. \A r \in Requests : result'[r] # result[r] =>
             result'[r] = how /\ Frame.id \in Open /\ streams[Frame.id].req = r
      BY <1>15 DEF Outcome
    <2>5. FrameIsTaken BY <1>15, <2>1, <2>2, <2>3, <2>4 DEF FrameIsTaken
    <2> QED BY <2>1, <2>5, OrderlyTaken
  <1>16. CASE Headers
    <2>1. /\ Handles("HEADERS") /\ Taken /\ UNCHANGED <<is_dead, next_stream_id, conn_granted>>
          /\ continuation_stream' = IF Frame.end_headers THEN None ELSE Frame.id
      BY <1>16 DEF Headers
    <2>2. inbox # <<>> /\ Frame.type = "HEADERS" /\ ~is_dead BY <1>12, <2>1
    <2>3. CASE Frame.end_stream
      <3>1. Frame.end_headers BY <1>00, <1>03, <2>2, <2>3 DEF EndsInv
      <3>2. Outcome({Frame.id}, "ok") /\ streams' = Only(streams, Open \ {Frame.id})
        BY <1>16, <2>3, <3>1 DEF Headers, CompleteStream
      <3>3. ~Begins(Frame) /\ continuation_stream' = None BY <2>1, <3>1 DEF Begins
      <3> QED BY <1>15, <2>1, <3>2, <3>3
    <2>4. CASE ~Frame.end_stream
      <3>1. UNCHANGED result /\ DOMAIN streams' = Open BY <1>16, <2>4 DEF Headers
      <3>2. ASSUME NEW i \in Open PROVE streams[i].headers_done \/ Heads(Frame, i) => streams'[i].headers_done
        <4>1. CASE i = Frame.id
          <5>1. streams'[i] = [streams[i] EXCEPT !.headers_done = (Frame.end_headers \/ HeadersDone(Frame.id))]
            BY <1>16, <2>4, <4>1 DEF Headers
          <5>2. streams'[i].headers_done <=> (Frame.end_headers \/ HeadersDone(Frame.id))
            BY <1>01, <5>1 DEF StreamFields
          <5>3. HeadersDone(Frame.id) <=> streams[i].headers_done BY <4>1 DEF HeadersDone
          <5> QED BY <2>2, <5>2, <5>3 DEF Heads
        <4>2. CASE i # Frame.id
          <5>1. streams'[i] = streams[i] BY <1>16, <2>4, <4>2 DEF Headers
          <5> QED BY <4>2, <5>1 DEF Heads
        <4> QED BY <4>1, <4>2
      <3>3. (Begins(Frame) <=> ~Frame.end_headers) /\ \A i : ~Ends(Frame, i) BY <2>2, <2>4 DEF Begins, Ends
      <3>4. FrameIsTaken BY <2>1, <3>1, <3>2, <3>3 DEF FrameIsTaken
      <3> QED BY <2>2, <3>4, OrderlyTaken
    <2> QED BY <2>3, <2>4
  <1>17. CASE Continuation
    <2>1. /\ Handles("CONTINUATION") /\ Taken /\ UNCHANGED <<is_dead, next_stream_id, conn_granted, result>>
          /\ continuation_stream' = None /\ DOMAIN streams' = Open
      BY <1>17 DEF Continuation
    <2>2. inbox # <<>> /\ Frame.type = "CONTINUATION" /\ ~is_dead BY <1>12, <2>1
    <2>3. ASSUME NEW i \in Open PROVE streams[i].headers_done \/ Heads(Frame, i) => streams'[i].headers_done
      <3>1. CASE i = Frame.id
        <4>1. streams'[i] = [streams[i] EXCEPT !.headers_done = TRUE] BY <1>17, <3>1 DEF Continuation
        <4> QED BY <1>01, <4>1 DEF StreamFields
      <3>2. CASE i # Frame.id
        <4>1. streams'[i] = streams[i] BY <1>17, <3>2 DEF Continuation
        <4> QED BY <3>2, <4>1 DEF Heads
      <3> QED BY <3>1, <3>2
    <2>4. ~Begins(Frame) /\ \A i : ~Ends(Frame, i) BY <2>2 DEF Begins, Ends
    <2>5. FrameIsTaken BY <2>1, <2>3, <2>4 DEF FrameIsTaken
    <2> QED BY <2>2, <2>5, OrderlyTaken
  <1>18. CASE Data
    <2>1. /\ Handles("DATA") /\ Taken /\ UNCHANGED <<is_dead, next_stream_id, conn_granted, continuation_stream>>
      BY <1>18 DEF Data
    <2>2. inbox # <<>> /\ Frame.type = "DATA" /\ ~is_dead /\ continuation_stream = None BY <1>12, <2>1
    <2>3. ~Begins(Frame) /\ \A i : ~Heads(Frame, i) BY <2>2 DEF Begins, Heads
    <2>4. CASE Frame.end_stream
      <3>1. /\ Outcome({Frame.id}, IF HeadersDone(Frame.id) THEN "ok" ELSE "error")
            /\ streams' = Only(streams, Open \ {Frame.id})
        BY <1>18, <2>4 DEF Data, CompleteStream
      <3>2. ASSUME Frame.id \in Open PROVE HeadersDone(Frame.id)
        <4>1. \/ streams[Frame.id].headers_done
              \/ \E l \in 1..Len(inbox) : l < 1 /\ Heads(inbox[l], Frame.id)
          BY <1>00, <1>03, <2>2, <3>2 DEF EndsInv
        <4> QED BY <3>2, <4>1 DEF HeadersDone
      <3>3. CASE HeadersDone(Frame.id)
        <4>1. Outcome({Frame.id}, "ok") BY <3>1, <3>3
        <4> QED BY <1>15, <2>1, <2>2, <2>3, <3>1, <4>1
      <3>4. CASE ~HeadersDone(Frame.id)
        <4>1. Outcome({Frame.id}, "error") /\ Frame.id \notin Open BY <3>1, <3>2, <3>4
        <4> QED BY <1>15, <2>1, <2>2, <2>3, <3>1, <4>1
      <3> QED BY <3>3, <3>4
    <2>5. CASE ~Frame.end_stream
      <3>1. UNCHANGED <<result, streams>> BY <1>18, <2>5 DEF Data
      <3>2. \A i : ~Ends(Frame, i) BY <2>5 DEF Ends
      <3>3. FrameIsTaken BY <2>1, <2>2, <2>3, <3>1, <3>2 DEF FrameIsTaken, Open
      <3> QED BY <2>2, <3>3, OrderlyTaken
    <2> QED BY <2>4, <2>5
  <1>19. CASE RstStream
    <2>1. /\ Handles("RST_STREAM") /\ Taken /\ UNCHANGED <<is_dead, next_stream_id, conn_granted, continuation_stream>>
          /\ Outcome({Frame.id}, "error") /\ streams' = Only(streams, Open \ {Frame.id})
      BY <1>19 DEF RstStream
    <2>2. inbox # <<>> /\ Frame.type = "RST_STREAM" /\ continuation_stream = None BY <1>12, <2>1
    <2>3. peer[Frame.id].stage = "over" BY <1>03, <2>2 DEF Belongs
    <2>4. ~Begins(Frame) BY <2>2 DEF Begins
    <2> QED BY <1>15, <2>1, <2>2, <2>3, <2>4
  <1>20. CASE WindowUpdateConn
    <2>1. Handles("WINDOW_UPDATE") /\ Frame.id = 0 BY <1>20 DEF WindowUpdateConn
    <2>2. inbox # <<>> /\ Frame.type = "WINDOW_UPDATE" /\ ~is_dead BY <1>12, <2>1
    <2>3. CASE BadConnUpdate(Frame.n)
      <3>1. Fatal(Frame) BY <2>1, <2>2, <2>3, UpdateIsGood
      <3>2. MarkDead BY <1>20, <2>3 DEF WindowUpdateConn
      <3> QED BY <1>5, <2>2, <3>1, <3>2
    <2>4. CASE ~BadConnUpdate(Frame.n)
      <3>1. /\ Taken /\ UNCHANGED <<is_dead, next_stream_id, continuation_stream, result, streams>>
            /\ conn_granted' = conn_granted + Frame.n
        BY <1>20, <2>4 DEF WindowUpdateConn
      <3> QED BY <1>13, <2>1, <2>2, <3>1 DEF Open
    <2> QED BY <2>3, <2>4
  <1>21. CASE WindowUpdateStream
    <2>1. /\ Handles("WINDOW_UPDATE") /\ Taken
          /\ UNCHANGED <<is_dead, next_stream_id, continuation_stream, conn_granted>>
      BY <1>21 DEF WindowUpdateStream
    <2>2. Frame.type = "WINDOW_UPDATE" /\ continuation_stream = None BY <1>12, <2>1
    <2>3. CASE BadStreamUpdate(Frame.n)
      <3>1. Outcome({Frame.id}, "dropped") /\ streams' = Only(streams, Open \ {Frame.id})
        BY <1>21, <2>3 DEF WindowUpdateStream
      <3>2. ~Begins(Frame) BY <2>2 DEF Begins
      <3> QED BY <1>15, <2>1, <2>2, <3>1, <3>2
    <2>4. CASE ~BadStreamUpdate(Frame.n) /\ Frame.id \in Open
      <3> DEFINE s == Granted(streams[Frame.id], Frame.n)
                 n == Pumped(s, conn_send_window)
      <3>1. streams' = [streams EXCEPT ![Frame.id] = Drained(s, n)] /\ UNCHANGED result
        BY <1>21, <2>4 DEF WindowUpdateStream
      <3>2. DOMAIN s = StreamFields /\ (streams[Frame.id].headers_done => s.headers_done)
        BY <1>01, <2>4, GrantedFields
      <3> HIDE DEF s, n
      <3>3. streams[Frame.id].headers_done => Drained(s, n).headers_done BY <3>2, DrainedFields
      <3>4. DOMAIN streams' = Open /\ \A j \in Open : streams[j].headers_done => streams'[j].headers_done
        BY <3>1, <3>3 DEF Open
      <3> QED BY <1>13, <2>1, <3>1, <3>4
    <2>5. CASE ~BadStreamUpdate(Frame.n) /\ Frame.id \notin Open
      <3>1. UNCHANGED <<result, streams>> BY <1>21, <2>5 DEF WindowUpdateStream
      <3> QED BY <1>13, <2>1, <3>1 DEF Open
    <2> QED BY <2>3, <2>4, <2>5
  <1>22. CASE Peer BY <1>22, OrderlyPeer
  <1>23. CASE UNCHANGED clientvars BY <1>9, <1>23 DEF clientvars, conn, remote, Open
  <1> QED BY <1>1, <1>2, <1>3, <1>4, <1>6, <1>7, <1>8, <1>10, <1>11, <1>14, <1>16, <1>17, <1>18, <1>19, <1>20, <1>21,
             <1>22, <1>23
         DEF ClientNext, Drive

\* Of every state of the outbound connection: bodies wait only for credit and none is made
\* or lost, an answer is reported only when it has come, and one that came from an orderly
\* peer is delivered, whatever closes or updates follow it (h2c_client.rs, drive), for any
\* requests, bodies, windows and numbers of frames.
THEOREM AnswersAreDelivered == ClientSpec => []ClientContract
<1>1. ClientInit => CreditInv /\ StreamsAndChannels
  <2> SUFFICES ASSUME ClientInit PROVE CreditInv /\ StreamsAndChannels OBVIOUS
  <2>1. Open = {} /\ DOMAIN peer = {} BY DEF ClientInit, Open
  <2>2. inbox \in Seq(WireFrame) BY DEF ClientInit
  <2>3. /\ DEFAULT_WINDOW \in Nat /\ MAX_WINDOW \in Nat /\ DEFAULT_WINDOW \in 0..MAX_WINDOW
        /\ DEFAULT_WINDOW = DEFAULT_WINDOW + 0 - 0
    BY WindowAssumption
  <2>4. CreditInv BY <2>1, <2>2, <2>3 DEF ClientInit, CreditInv
  <2>5. StreamsAndChannels BY DEF ClientInit, StreamsAndChannels, Open
  <2> QED BY <2>4, <2>5
<1>2. ClientInit => AnswerInv /\ OrderlyInv /\ DrivenAlive
  <2> SUFFICES ASSUME ClientInit PROVE AnswerInv /\ OrderlyInv /\ DrivenAlive OBVIOUS
  <2>1. Open = {} /\ DOMAIN peer = {} /\ Len(inbox) = 0 BY DEF ClientInit, Open
  <2>2. PeersKnow /\ HeadersFirst /\ \A k \in 1..Len(inbox) : Belongs(inbox[k])
    BY <2>1 DEF PeersKnow, HeadersFirst
  <2>3. OkMeansAnswered BY DEF OkMeansAnswered, ClientInit
  <2>4. CallsInv /\ EndsInv /\ BlocksInv /\ is_dead BY <2>1 DEF ClientInit, CallsInv, EndsInv, BlocksInv
  <2>5. frames = 0 /\ kind \in Peers /\ MaxFrames[kind] \in Nat BY PeerAssumption DEF ClientInit
  <2>6. frames \in Nat /\ frames <= MaxFrames[kind] BY <2>5
  <2> QED BY <2>2, <2>3, <2>4, <2>5, <2>6 DEF AnswerInv, OrderlyInv, DrivenAlive, ClientInit
<1>3. CreditInv => NoStalledBody /\ CreditIsConserved
  BY DEF CreditInv, NoStalledBody, CreditIsConserved, StreamCredit, Waits
<1>4. AnswerInv /\ OrderlyInv => OkMeansAnswered /\ AnswerIsDelivered
  BY DEF AnswerInv, OrderlyInv, CallsInv, AnswerIsDelivered
<1>5. CreditInv /\ AnswerInv /\ OrderlyInv => ClientContract BY <1>3, <1>4 DEF ClientContract
<1> QED BY <1>1, <1>2, <1>5, StreamsNext, CreditNext, AnswerNext, OrderlyNext, DrivenNext, PTL DEF ClientSpec

-----------------------------------------------------------------------------
(* H2TlsClient.                                                              *)

GKinds == {"HEADERS", "CONTINUATION", "DATA", "RST_STREAM", "SETTINGS", "WINDOW_UPDATE", "GOAWAY"}
GFrameSet == [type : GKinds, id : Nat, n : Nat, last : BOOLEAN]
GStreamSet == [req : GRequests, done : BOOLEAN, left : Nat, window : Int]
GStages == {"asked", "block", "lastblock", "body", "done", "over", "reset"}
GTables == UNION {[S -> GStreamSet] : S \in SUBSET (Nat \ {0})}
GConnSet == [up : {"none", "open", "dead"}, next : Nat, cont : Nat, window : Int, initial : Int, streams : GTables]

\* The largest increment of a peer that keeps to the protocol.
GMost == CHOOSE most \in 0..GMaxWindow :
            /\ \A w \in GWindows \cup {GWindow} : w + most * (GMaxFrames + 1) <= GMaxWindow
            /\ \A n \in GIncrements : n <= most \/ n = GMaxWindow

GTypeOK ==
    /\ gconn \in GConnSet
    /\ gsend \in Seq(Nat) /\ gtls \in Seq(Nat) /\ Len(gtls) <= GTlsLimit
    /\ ginbox \in Seq(GFrameSet)
    /\ gpieces \in [net : Nat, plain : Nat, recv : Nat]
    /\ gpeer \in UNION {[S -> GStages] : S \in SUBSET (Nat \ {0})}
    /\ gframes \in 0..GMaxFrames
    /\ gresult \in [GRequests -> {"new", "waiting", "ok", "error", "dropped", "refused"}]
    /\ gwhole \subseteq GRequests

\* Ids are not reused on a connection, and the peer knows only those it was sent.
GIdsInv ==
    /\ \A i \in GOpen(gconn) \cup DOMAIN gpeer : i < gconn.next
    /\ \A k \in 1..Len(gsend) : gsend[k] < gconn.next
    /\ \A k \in 1..Len(gtls) : gtls[k] < gconn.next
    /\ gconn.next > 0

\* Every piece of a frame is in one of the three buffers.
GPiecesInv ==
    /\ gpieces.net + gpieces.plain + gpieces.recv = 2 * Len(ginbox) - (IF gcut THEN 1 ELSE 0)
    /\ gcut => ginbox # <<>>
    /\ gpc \in {"read", "parse", "pump"} => gpieces.plain = 0
    /\ gpc \in {"parse", "pump"} => gpieces.net = 0

\* drive runs on a live connection only, and notes the end of a stream that has ended.
GDriveInv ==
    /\ gpc \in {"idle", "flush", "drain", "read", "parse", "pump"}
    /\ gpc # "idle" => gconn.up = "open"
    /\ geof => gpc \in {"parse", "pump"} /\ gsock # "open"
    /\ gsock # "reset"
    /\ gconn.up # "open" => GOpen(gconn) = {}

GCallsInv ==
    /\ \A i \in GOpen(gconn) : gresult[gconn.streams[i].req] = "waiting"
    /\ \A i, j \in GOpen(gconn) : gconn.streams[i].req = gconn.streams[j].req => i = j
    /\ \A r \in gwhole : gresult[r] \in {"waiting", "ok"}

\* The peer's frames.
GLegal(f) ==
    /\ f.type = "SETTINGS" => f.n \in GWindows
    /\ f.type = "WINDOW_UPDATE" => f.n # 0 /\ f.n <= GMost
    /\ f.type \in {"HEADERS", "CONTINUATION", "DATA", "RST_STREAM"} => f.id \in DOMAIN gpeer
    /\ f.type = "RST_STREAM" => gpeer[f.id] = "reset"
    /\ f.type = "HEADERS" /\ f.n # 1 /\ f.last => gpeer[f.id] \in {"lastblock", "over"}

GFramesInv == \A k \in 1..Len(ginbox) : GLegal(ginbox[k])

\* Windows grow by no more than GMost with a frame.
GHandled == gframes + 1 - Len(ginbox)
GCreditInv ==
    /\ Len(ginbox) <= gframes + 1
    /\ gconn.initial \in GWindows \cup {GWindow}
    /\ gconn.window <= GWindow + GMost * GHandled
    /\ \A i \in GOpen(gconn) : gconn.streams[i].window <= gconn.initial + GMost * GHandled

GBegins(f) == f.type = "HEADERS" /\ f.n # 1
GContinues(f, i) == f.type = "CONTINUATION" /\ f.id = i

\* A header block that is begun is continued by the next frame.
GBlocksInv ==
    /\ \A k \in 1..Len(ginbox) : GBegins(ginbox[k]) =>
          \/ k = Len(ginbox) /\ gpeer[ginbox[k].id] \in GBlocks
          \/ k + 1 \in 1..Len(ginbox) /\ GContinues(ginbox[k + 1], ginbox[k].id)
    /\ gconn.cont # 0 =>
          \/ ginbox = <<>> /\ gconn.cont \in DOMAIN gpeer /\ gpeer[gconn.cont] \in GBlocks
          \/ ginbox # <<>> /\ GContinues(ginbox[1], gconn.cont)
    /\ \A i, j \in DOMAIN gpeer : gpeer[i] \in GBlocks /\ gpeer[j] \in GBlocks => i = j

GHeads(f, i) == f.id = i /\ (f.type = "CONTINUATION" \/ (f.type = "HEADERS" /\ f.n = 1))
GEnds(f, i) == f.id = i /\ f.last /\ (f.type = "DATA" \/ (f.type = "HEADERS" /\ f.n = 1))

\* The end of a response that its stream still waits for is in the buffers, and a header
\* block comes no later.
GEndsInv ==
    /\ \A i \in GOpen(gconn) \cap DOMAIN gpeer :
          gpeer[i] = "done" => \E k \in 1..Len(ginbox) : GEnds(ginbox[k], i)
    /\ \A i \in GOpen(gconn), k \in 1..Len(ginbox) : GEnds(ginbox[k], i) =>
          gconn.streams[i].done \/ \E j \in 1..k : GHeads(ginbox[j], i)
    /\ \A i \in GOpen(gconn) \cap DOMAIN gpeer : gpeer[i] = "body" =>
          gconn.streams[i].done \/ \E j \in 1..Len(ginbox) : GHeads(ginbox[j], i)

\* A response that counts as whole is, and no GOAWAY comes before its end.
GWholeInv ==
    \A i \in GOpen(gconn) : gconn.streams[i].req \in gwhole =>
        /\ i \in DOMAIN gpeer /\ gpeer[i] = "done"
        /\ \A k \in 1..Len(ginbox) : GEnds(ginbox[k], i) =>
              /\ k < Len(ginbox) \/ ~gcut
              /\ \A j \in 1..k : ginbox[j].type # "GOAWAY"

GDeadInv == gconn.up = "dead" => gsock # "open" \/ GToldToGo

GGood == /\ GTypeOK /\ GIdsInv /\ GPiecesInv /\ GDriveInv /\ GCallsInv /\ GFramesInv /\ GCreditInv
         /\ GBlocksInv /\ GEndsInv /\ GWholeInv /\ GDeadInv
GInv == ~gfault => GGood

\* What each frame may grant, and the room the largest window leaves.
LEMMA GMostIs ==
  /\ GMost \in Nat
  /\ \A w \in GWindows \cup {GWindow} : w \in Nat /\ w + GMost * (GMaxFrames + 1) <= GMaxWindow
  /\ \A n \in GIncrements : n <= GMost \/ n = GMaxWindow
  <1> DEFINE P(m) == /\ \A w \in GWindows \cup {GWindow} : w + m * (GMaxFrames + 1) <= GMaxWindow
                     /\ \A n \in GIncrements : n <= m \/ n = GMaxWindow
  <1>1. \E m \in 0..GMaxWindow : P(m) BY ModestAssumption
  <1>2. GMost = CHOOSE m \in 0..GMaxWindow : P(m) BY DEF GMost
  <1> HIDE DEF P
  <1>3. GMost \in 0..GMaxWindow /\ P(GMost) BY <1>1, <1>2
  <1>4. GMost \in Nat BY <1>3, TlsClientAssumption
  <1>5. \A w \in GWindows \cup {GWindow} : w \in Nat BY TlsClientAssumption
  <1> QED BY <1>3, <1>4, <1>5 DEF P

\* What is known of a connection's fields.
LEMMA GConnIs ==
  ASSUME NEW c \in GConnSet
  PROVE  /\ c.up \in {"none", "open", "dead"} /\ c.next \in Nat /\ c.cont \in Nat
         /\ c.window \in Int /\ c.initial \in Int
         /\ GOpen(c) \subseteq Nat \ {0}
         /\ c.streams \in [GOpen(c) -> GStreamSet]
         /\ \A i \in GOpen(c) : /\ c.streams[i] \in GStreamSet /\ c.streams[i].req \in GRequests
                                /\ c.streams[i].done \in BOOLEAN
                                /\ c.streams[i].left \in Nat /\ c.streams[i].window \in Int
  <1>1. PICK S \in SUBSET (Nat \ {0}) : c.streams \in [S -> GStreamSet]
    BY DEF GConnSet, GTables
  <1>2. GOpen(c) = S BY <1>1 DEF GOpen
  <1>3. \A i \in S : c.streams[i] \in GStreamSet BY <1>1
  <1>4. \A s \in GStreamSet : s.req \in GRequests /\ s.done \in BOOLEAN /\ s.left \in Nat /\ s.window \in Int
    BY DEF GStreamSet
  <1> QED BY <1>1, <1>2, <1>3, <1>4 DEF GConnSet

\* A connection with other streams.
LEMMA GTableIs ==
  ASSUME NEW S \in SUBSET (Nat \ {0}), NEW t \in [S -> GStreamSet]
  PROVE  t \in GTables
  BY DEF GTables

\* What a body sent leaves alone.
GLike(c, d) ==
    /\ d.up = c.up /\ d.next = c.next /\ d.cont = c.cont /\ d.initial = c.initial
    /\ d.window <= c.window
    /\ GOpen(d) = GOpen(c)
    /\ \A i \in GOpen(c) : /\ d.streams[i].req = c.streams[i].req
                           /\ d.streams[i].done <=> c.streams[i].done
                           /\ d.streams[i].window <= c.streams[i].window

\* What a stream may send is at most what is left of its body.
LEMMA GCreditIs ==
  ASSUME NEW c \in GConnSet, NEW id
  PROVE  /\ GCredit(c, id) \in Nat
         /\ GCredit(c, id) # 0 => id \in GOpen(c) /\ GCredit(c, id) <= c.streams[id].left
  BY GConnIs DEF GCredit, GLess

\* A pump only moves bytes of a body to the connection's windows.
LEMMA GPumpedIs ==
  ASSUME NEW c \in GConnSet, NEW id
  PROVE  GPumped(c, id) \in GConnSet /\ GLike(c, GPumped(c, id))
  <1>0. PICK n : n = GCredit(c, id) OBVIOUS
  <1>1. n \in Nat BY <1>0, GCreditIs
  <1>2. CASE n = 0
    BY <1>0, <1>2, GConnIs DEF GPumped, GLike
  <1>3. CASE n # 0
    <2>1. id \in GOpen(c) /\ n <= c.streams[id].left BY <1>0, <1>3, GCreditIs
    <2>2. PICK s : s = c.streams[id] OBVIOUS
    <2>3. PICK u : u = GDrained(s, n) OBVIOUS
    <2>4. s \in GStreamSet /\ s.left \in Nat /\ s.window \in Int BY <2>1, <2>2, GConnIs
    <2>5. u \in GStreamSet /\ u.req = s.req /\ (u.done <=> s.done) /\ u.window = s.window - n
      <3>1. s.left - n \in Nat /\ s.window - n \in Int BY <1>1, <2>1, <2>2, <2>4
      <3>2. s.req \in GRequests /\ s.done \in BOOLEAN BY <2>1, <2>2, GConnIs
      <3>3. u = [req |-> s.req, done |-> s.done, left |-> s.left - n, window |-> s.window - n]
        BY <2>3, <2>4 DEF GDrained, GStreamSet
      <3>4. u \in GStreamSet BY <3>1, <3>2, <3>3 DEF GStreamSet
      <3> QED BY <3>3, <3>4
    <2>6. PICK t : t = [c.streams EXCEPT ![id] = u] OBVIOUS
    <2>7. t \in [GOpen(c) -> GStreamSet] /\ t[id] = u /\ \A i \in GOpen(c) \ {id} : t[i] = c.streams[i]
      BY <2>1, <2>5, <2>6, GConnIs
    <2>8. t \in GTables BY <2>7, GConnIs, GTableIs
    <2>9. PICK d : d = [c EXCEPT !.window = c.window - n, !.streams = t] OBVIOUS
    <2>10. GPumped(c, id) = d BY <1>0, <1>3, <2>2, <2>3, <2>6, <2>9 DEF GPumped
    <2>11. d \in GConnSet
      <3>1. c.window - n \in Int BY <1>1, GConnIs
      <3> QED BY <2>8, <2>9, <3>1 DEF GConnSet
    <2>12. /\ d.up = c.up /\ d.next = c.next /\ d.cont = c.cont /\ d.initial = c.initial
           /\ d.window = c.window - n /\ d.streams = t
      BY <2>9 DEF GConnSet
    <2>13. GOpen(d) = GOpen(c) BY <2>7, <2>12 DEF GOpen
    <2>14. ASSUME NEW i \in GOpen(c)
           PROVE  /\ d.streams[i].req = c.streams[i].req
                  /\ d.streams[i].done <=> c.streams[i].done
                  /\ d.streams[i].window <= c.streams[i].window
      <3>1. CASE i = id BY <1>1, <2>2, <2>4, <2>5, <2>7, <2>12, <3>1
      <3>2. CASE i # id BY <2>7, <2>12, <3>2, GConnIs
      <3> QED BY <3>1, <3>2
    <2>15. d.window <= c.window BY <1>1, <2>12, GConnIs
    <2> QED BY <2>10, <2>11, <2>12, <2>13, <2>14, <2>15 DEF GLike
  <1> QED BY <1>1, <1>2, <1>3

\* The DATA frames a pump queues acknowledge nothing.
LEMMA GDataFramesAre ==
  ASSUME NEW c, NEW d
  PROVE  GDataFrames(c, d) \in Seq(Nat) /\ \A k \in 1..Len(GDataFrames(c, d)) : GDataFrames(c, d)[k] = 0
  BY DEF GDataFrames

\* The bodies that are sent, and what moves between the buffers, change nothing else.
LEMMA GLikeKeeps ==
  ASSUME GGood, gconn' \in GConnSet, GLike(gconn, gconn'),
         UNCHANGED <<ginbox, gcut, gpeer, gframes, gresult, gwhole, gsock>>
  PROVE  GCallsInv' /\ GFramesInv' /\ GCreditInv' /\ GBlocksInv' /\ GEndsInv' /\ GWholeInv' /\ GDeadInv'
  <1> USE DEF GGood
  <1>0. gconn \in GConnSet BY DEF GTypeOK
  <1>1. /\ GOpen(gconn') = GOpen(gconn) /\ gconn'.cont = gconn.cont /\ gconn'.up = gconn.up
        /\ gconn'.initial = gconn.initial /\ gconn'.window <= gconn.window
        /\ \A i \in GOpen(gconn) : /\ gconn'.streams[i].req = gconn.streams[i].req
                                   /\ gconn'.streams[i].done <=> gconn.streams[i].done
                                   /\ gconn'.streams[i].window <= gconn.streams[i].window
    BY DEF GLike
  <1>2. GCallsInv' BY <1>1 DEF GCallsInv
  <1>3. GFramesInv' BY DEF GFramesInv, GLegal
  <1>4. GCreditInv'
    <2>0. GHandled' = GHandled BY DEF GHandled
    <2>1. GMost * GHandled \in Int
      BY GMostIs DEF GHandled, GTypeOK
    <2>2. gconn.initial \in Int /\ GWindow \in Int BY <1>0, GConnIs, TlsClientAssumption
    <2>3. gconn'.window <= GWindow + GMost * GHandled
      BY <1>0, <1>1, <2>1, <2>2, GConnIs DEF GCreditInv
    <2>4. \A i \in GOpen(gconn) : gconn'.streams[i].window <= gconn.initial + GMost * GHandled
      <3> SUFFICES ASSUME NEW i \in GOpen(gconn) PROVE gconn'.streams[i].window <= gconn.initial + GMost * GHandled
        OBVIOUS
      <3>1. gconn.streams[i].window \in Int /\ gconn'.streams[i].window \in Int BY <1>0, <1>1, GConnIs
      <3>2. gconn.streams[i].window <= gconn.initial + GMost * GHandled BY DEF GCreditInv
      <3> QED BY <1>1, <2>1, <2>2, <3>1, <3>2
    <2>5. Len(ginbox') <= gframes' + 1 /\ gconn'.initial \in GWindows \cup {GWindow} BY <1>1 DEF GCreditInv
    <2> QED BY <1>1, <2>0, <2>3, <2>4, <2>5 DEF GCreditInv
  <1>5. GBlocksInv' BY <1>1 DEF GBlocksInv
  <1>6. GEndsInv' BY <1>1 DEF GEndsInv
  <1>7. GWholeInv' BY <1>1 DEF GWholeInv
  <1>8. GDeadInv' BY <1>1 DEF GDeadInv, GToldToGo
  <1> QED BY <1>2, <1>3, <1>4, <1>5, <1>6, <1>7, <1>8

\* mark_dead, when no response that is whole is still to be handled.
LEMMA GDies ==
  ASSUME GGood, GMarkDead, \A i \in GOpen(gconn) : gconn.streams[i].req \notin gwhole,
         gsock # "open" \/ GToldToGo
  PROVE  GGood'
  <1> USE DEF GGood
  <1>0. gconn \in GConnSet BY DEF GTypeOK
  <1>1. GNoStreams \in GTables /\ DOMAIN GNoStreams = {}
    <2>1. GNoStreams \in [{} -> GStreamSet] BY DEF GNoStreams
    <2> QED BY <2>1, GTableIs
  <1>2. /\ gconn' \in GConnSet /\ gconn'.up = "dead" /\ gconn'.next = gconn.next /\ gconn'.cont = gconn.cont
        /\ gconn'.window = gconn.window /\ gconn'.initial = gconn.initial /\ gconn'.streams = GNoStreams
    BY <1>0, <1>1 DEF GMarkDead, GConnSet
  <1>3. GOpen(gconn') = {} BY <1>1, <1>2 DEF GOpen
  <1>4. /\ gresult' = [r \in GRequests |-> IF \E i \in GOpen(gconn) : gconn.streams[i].req = r THEN "error"
                                            ELSE gresult[r]]
        /\ gpc' = "idle" /\ ~geof'
        /\ gsend' = gsend /\ gtls' = gtls /\ ginbox' = ginbox /\ gcut' = gcut /\ gpieces' = gpieces
        /\ gpeer' = gpeer /\ gsock' = gsock /\ gframes' = gframes /\ gwhole' = gwhole
    BY DEF GMarkDead, gbuffers, gremote
  <1>5. GTypeOK' BY <1>2, <1>4 DEF GTypeOK
  <1>6. GIdsInv' BY <1>2, <1>3, <1>4 DEF GIdsInv
  <1>7. GPiecesInv' BY <1>4 DEF GPiecesInv
  <1>8. GDriveInv' BY <1>2, <1>3, <1>4 DEF GDriveInv
  <1>9. GCallsInv' BY <1>3, <1>4 DEF GCallsInv, GTypeOK
  <1>10. GFramesInv' BY <1>4 DEF GFramesInv, GLegal
  <1>11. GCreditInv' BY <1>2, <1>3, <1>4 DEF GCreditInv, GHandled
  <1>12. GBlocksInv' BY <1>2, <1>4 DEF GBlocksInv
  <1>13. GEndsInv' /\ GWholeInv' BY <1>3 DEF GEndsInv, GWholeInv
  <1>14. GDeadInv' BY <1>2, <1>4 DEF GDeadInv, GToldToGo
  <1> QED BY <1>5, <1>6, <1>7, <1>8, <1>9, <1>10, <1>11, <1>12, <1>13, <1>14

\* The connection after a frame, and the answers given with it: a stream may end, and if
\* its response counts as whole then with that response.
GAfter(c) ==
    /\ c \in GConnSet /\ c.up = gconn.up /\ c.next = gconn.next
    /\ c.cont # 0 => GBegins(GFrame) /\ c.cont = GFrame.id
    /\ c.initial \in GWindows \cup {GWindow}
    /\ c.window <= gconn.window + GMost
    /\ GOpen(c) \subseteq GOpen(gconn)
    /\ \A i \in GOpen(c) :
          /\ c.streams[i].req = gconn.streams[i].req
          /\ gconn.streams[i].done \/ GHeads(GFrame, i) => c.streams[i].done
          /\ ~GEnds(GFrame, i)
          /\ c.streams[i].window - c.initial <= gconn.streams[i].window - gconn.initial + GMost

GSettled(c) ==
    /\ gresult' \in [GRequests -> {"new", "waiting", "ok", "error", "dropped", "refused"}]
    /\ \A r \in GRequests :
          \/ gresult'[r] = gresult[r]
          \/ /\ \E i \in GOpen(gconn) \ GOpen(c) : gconn.streams[i].req = r
             /\ r \in gwhole => gresult'[r] = "ok"

\* The frame at hand is dealt with.
GFrameIsTaken ==
    /\ ginbox' = Tail(ginbox)
    /\ gpieces' = [gpieces EXCEPT !.recv = gpieces.recv - 2]
    /\ UNCHANGED <<gtls, gcut, geof, gremote>>
    /\ gpc' \in {"parse", "pump"}
    /\ gsend' \in Seq(Nat) /\ \A k \in 1..Len(gsend') : gsend'[k] < gconn.next
    /\ GAfter(gconn') /\ GSettled(gconn')

\* A whole frame in recv_buf is the first the peer sent that is not handled.
LEMMA GFrameIsAtHand ==
  ASSUME GGood, gpc = "parse", GWholeFrame
  PROVE  /\ ginbox # <<>> /\ GFrame = ginbox[1] /\ GFrame \in GFrameSet /\ GLegal(GFrame)
         /\ Len(ginbox) \in Nat /\ Len(ginbox) >= 1 /\ (gcut => Len(ginbox) >= 2)
         /\ Len(Tail(ginbox)) = Len(ginbox) - 1 /\ Tail(ginbox) \in Seq(GFrameSet)
         /\ \A k \in 1..Len(Tail(ginbox)) : k + 1 \in 1..Len(ginbox) /\ Tail(ginbox)[k] = ginbox[k + 1]
         /\ gconn.up = "open"
  <1>1. gpieces.recv = 2 * Len(ginbox) - (IF gcut THEN 1 ELSE 0) /\ Len(ginbox) \in Nat
    BY DEF GGood, GTypeOK, GPiecesInv
  <1>2. Len(ginbox) >= 1 /\ (gcut => Len(ginbox) >= 2) BY <1>1 DEF GWholeFrame
  <1>3. ginbox # <<>> /\ ginbox \in Seq(GFrameSet) BY <1>2 DEF GGood, GTypeOK
  <1>4. GFrame = ginbox[1] /\ ginbox[1] \in GFrameSet BY <1>2, <1>3 DEF GFrame
  <1>5. GLegal(GFrame) BY <1>2, <1>4 DEF GGood, GFramesInv
  <1>6. gconn.up = "open" BY DEF GGood, GDriveInv
  <1> QED BY <1>1, <1>2, <1>3, <1>4, <1>5, <1>6, TailIs

\* Taking a frame keeps the invariant when its effect on the connection does.
LEMMA GTakenKeeps ==
  ASSUME GGood, gpc = "parse", GWholeFrame, GFrameIsTaken
  PROVE  GGood'
  <1> USE DEF GGood
  <1>0. /\ ginbox # <<>> /\ GFrame = ginbox[1] /\ GLegal(GFrame)
        /\ Len(ginbox) \in Nat /\ Len(ginbox) >= 1 /\ (gcut => Len(ginbox) >= 2)
        /\ Len(ginbox') = Len(ginbox) - 1 /\ ginbox' \in Seq(GFrameSet)
        /\ \A k \in 1..Len(ginbox') : k + 1 \in 1..Len(ginbox) /\ ginbox'[k] = ginbox[k + 1]
        /\ gconn.up = "open"
    BY GFrameIsAtHand DEF GFrameIsTaken, GAfter, GSettled
  <1>1. /\ gpeer' = gpeer /\ gsock' = gsock /\ gframes' = gframes /\ gwhole' = gwhole
        /\ gtls' = gtls /\ gcut' = gcut /\ geof' = geof
    BY DEF GFrameIsTaken, GAfter, GSettled, gremote
  <1>2. gconn \in GConnSet /\ gconn' \in GConnSet /\ GOpen(gconn') \subseteq GOpen(gconn)
    BY DEF GTypeOK, GFrameIsTaken, GAfter, GSettled
  <1>3. \A i \in GOpen(gconn') : /\ gconn'.streams[i].req = gconn.streams[i].req
                                 /\ gconn.streams[i].done \/ GHeads(GFrame, i) => gconn'.streams[i].done
                                 /\ ~GEnds(GFrame, i)
    BY DEF GFrameIsTaken, GAfter, GSettled
  <1>4. gpieces' \in [net : Nat, plain : Nat, recv : Nat] /\ gpieces'.net = gpieces.net
        /\ gpieces'.plain = gpieces.plain /\ gpieces'.recv = gpieces.recv - 2
    <2>1. gpieces.recv - 2 \in Nat BY DEF GWholeFrame, GTypeOK
    <2> QED BY <2>1 DEF GFrameIsTaken, GAfter, GSettled, GTypeOK
  <1>5. GTypeOK'
    BY <1>0, <1>1, <1>2, <1>4 DEF GTypeOK, GFrameIsTaken, GAfter, GSettled
  <1>6. GIdsInv'
    BY <1>1, <1>2 DEF GIdsInv, GFrameIsTaken, GAfter, GSettled
  <1>7. GPiecesInv'
    <2>1. gpieces.net + gpieces.plain + gpieces.recv = 2 * Len(ginbox) - (IF gcut THEN 1 ELSE 0)
          /\ gpieces.plain = 0 /\ gpieces.net = 0 /\ gpieces.recv \in Nat
      BY DEF GPiecesInv, GTypeOK
    <2>2. gpieces'.net + gpieces'.plain + gpieces'.recv = 2 * Len(ginbox') - (IF gcut' THEN 1 ELSE 0)
      BY <1>0, <1>1, <1>4, <2>1
    <2>3. gcut' => ginbox' # <<>> BY <1>0, <1>1
    <2> QED BY <1>4, <2>1, <2>2, <2>3 DEF GPiecesInv
  <1>8. GDriveInv'
    BY <1>0, <1>1 DEF GDriveInv, GFrameIsTaken, GAfter, GSettled
  <1>9. GCallsInv'
    <2>1. ASSUME NEW i \in GOpen(gconn') PROVE gresult'[gconn'.streams[i].req] = "waiting"
      <3>1. gconn.streams[i].req \in GRequests /\ gresult[gconn.streams[i].req] = "waiting"
        BY <1>2, GConnIs DEF GCallsInv
      <3>2. ~\E j \in GOpen(gconn) \ GOpen(gconn') : gconn.streams[j].req = gconn.streams[i].req
        BY <1>2 DEF GCallsInv
      <3> QED BY <1>3, <3>1, <3>2 DEF GFrameIsTaken, GAfter, GSettled
    <2>2. \A i, j \in GOpen(gconn') : gconn'.streams[i].req = gconn'.streams[j].req => i = j
      BY <1>2, <1>3 DEF GCallsInv
    <2>3. \A r \in gwhole' : gresult'[r] \in {"waiting", "ok"}
      BY <1>1 DEF GCallsInv, GFrameIsTaken, GAfter, GSettled, GTypeOK
    <2> QED BY <2>1, <2>2, <2>3 DEF GCallsInv
  <1>10. GFramesInv'
    BY <1>0, <1>1 DEF GFramesInv, GLegal
  <1>11. GCreditInv'
    <2>1. PICK h : h = GHandled OBVIOUS
    <2>2. h \in Nat /\ GHandled' = h + 1
      BY <1>0, <1>1, <2>1 DEF GHandled, GCreditInv, GTypeOK
    <2>3. GMost * h \in Nat /\ GMost * (h + 1) = GMost * h + GMost BY <2>2, Stepwise, GMostIs
    <2>4. Len(ginbox') <= gframes' + 1 /\ gconn'.initial \in GWindows \cup {GWindow}
      BY <1>0, <1>1 DEF GCreditInv, GFrameIsTaken, GAfter, GSettled, GTypeOK
    <2>5. gconn'.window <= GWindow + GMost * (h + 1)
      <3>1. gconn.window <= GWindow + GMost * h BY <2>1 DEF GCreditInv
      <3>2. gconn'.window <= gconn.window + GMost BY DEF GFrameIsTaken, GAfter, GSettled
      <3>3. gconn.window \in Int /\ gconn'.window \in Int /\ GWindow \in Int BY <1>2, GConnIs, TlsClientAssumption
      <3> QED BY <2>3, <3>1, <3>2, <3>3, GMostIs
    <2>6. ASSUME NEW i \in GOpen(gconn') PROVE gconn'.streams[i].window <= gconn'.initial + GMost * (h + 1)
      <3>1. gconn.streams[i].window <= gconn.initial + GMost * h BY <1>2, <2>1 DEF GCreditInv
      <3>2. gconn'.streams[i].window - gconn'.initial <= gconn.streams[i].window - gconn.initial + GMost
        BY DEF GFrameIsTaken, GAfter, GSettled
      <3>3. gconn.streams[i].window \in Int /\ gconn'.streams[i].window \in Int /\ gconn.initial \in Int /\ gconn'.initial \in Int
        BY <1>2, GConnIs
      <3> QED BY <2>3, <3>1, <3>2, <3>3, GMostIs
    <2> QED BY <2>2, <2>4, <2>5, <2>6 DEF GCreditInv
  <1>12. GBlocksInv'
    <2>1. ASSUME NEW k \in 1..Len(ginbox'), GBegins(ginbox'[k])
          PROVE  \/ k = Len(ginbox') /\ gpeer'[ginbox'[k].id] \in GBlocks
                 \/ k + 1 \in 1..Len(ginbox') /\ GContinues(ginbox'[k + 1], ginbox'[k].id)
      <3>1. k + 1 \in 1..Len(ginbox) /\ ginbox'[k] = ginbox[k + 1] BY <1>0
      <3>2. \/ k + 1 = Len(ginbox) /\ gpeer[ginbox[k + 1].id] \in GBlocks
            \/ k + 1 + 1 \in 1..Len(ginbox) /\ GContinues(ginbox[k + 1 + 1], ginbox[k + 1].id)
        BY <2>1, <3>1 DEF GBlocksInv
      <3>3. k + 1 + 1 \in 1..Len(ginbox) => k + 1 \in 1..Len(ginbox') /\ ginbox'[k + 1] = ginbox[k + 1 + 1]
        BY <1>0
      <3> QED BY <1>0, <1>1, <3>1, <3>2, <3>3
    <2>2. ASSUME gconn'.cont # 0
          PROVE  \/ ginbox' = <<>> /\ gconn'.cont \in DOMAIN gpeer' /\ gpeer'[gconn'.cont] \in GBlocks
                 \/ ginbox' # <<>> /\ GContinues(ginbox'[1], gconn'.cont)
      <3>1. GBegins(GFrame) /\ gconn'.cont = GFrame.id BY <2>2 DEF GFrameIsTaken, GAfter, GSettled
      <3>2. GFrame.id \in DOMAIN gpeer BY <1>0, <3>1 DEF GLegal, GBegins
      <3>3. \/ 1 = Len(ginbox) /\ gpeer[GFrame.id] \in GBlocks
            \/ 1 + 1 \in 1..Len(ginbox) /\ GContinues(ginbox[1 + 1], GFrame.id)
        BY <1>0, <3>1 DEF GBlocksInv
      <3>4. ASSUME 1 = Len(ginbox) PROVE ginbox' = <<>>
        <4>0. ginbox' \in Seq(GFrameSet) /\ Len(ginbox') = Len(ginbox) - 1 BY <1>0
        <4>1. Len(ginbox') = 0 BY <3>4, <4>0
        <4> QED BY <4>0, <4>1
      <3>5. 1 + 1 \in 1..Len(ginbox) => 1 \in 1..Len(ginbox') /\ ginbox'[1] = ginbox[1 + 1] /\ ginbox' # <<>>
        BY <1>0
      <3> QED BY <1>1, <3>1, <3>2, <3>3, <3>4, <3>5
    <2> QED BY <1>1, <2>1, <2>2 DEF GBlocksInv
  <1>13. GEndsInv'
    <2>1. ASSUME NEW i \in GOpen(gconn') \cap DOMAIN gpeer', gpeer'[i] = "done"
          PROVE  \E k \in 1..Len(ginbox') : GEnds(ginbox'[k], i)
      <3>1. PICK k \in 1..Len(ginbox) : GEnds(ginbox[k], i) BY <1>1, <1>2, <2>1 DEF GEndsInv
      <3>2. k # 1 BY <1>0, <1>3, <3>1
      <3>3. k - 1 \in 1..Len(ginbox') /\ ginbox'[k - 1] = ginbox[k] BY <1>0, <3>2
      <3> QED BY <3>1, <3>3
    <2>2. ASSUME NEW i \in GOpen(gconn'), NEW n \in 1..Len(ginbox),
                 \E j \in 1..n : GHeads(ginbox[j], i)
          PROVE  gconn'.streams[i].done \/ \E j \in 1..(n - 1) : GHeads(ginbox'[j], i)
      <3>1. PICK j \in 1..n : GHeads(ginbox[j], i) BY <2>2
      <3>2. CASE j = 1 BY <1>0, <1>3, <3>1, <3>2
      <3>3. CASE j # 1
        <4>1. j - 1 \in 1..(n - 1) /\ j - 1 \in 1..Len(ginbox') /\ ginbox'[j - 1] = ginbox[j] BY <1>0, <3>3
        <4> QED BY <3>1, <4>1
      <3> QED BY <3>2, <3>3
    <2>3. ASSUME NEW i \in GOpen(gconn'), NEW k \in 1..Len(ginbox'), GEnds(ginbox'[k], i)
          PROVE  gconn'.streams[i].done \/ \E j \in 1..k : GHeads(ginbox'[j], i)
      <3>1. k + 1 \in 1..Len(ginbox) /\ GEnds(ginbox[k + 1], i) /\ (k + 1) - 1 = k BY <1>0, <2>3
      <3>2. gconn.streams[i].done \/ \E j \in 1..(k + 1) : GHeads(ginbox[j], i) BY <1>2, <3>1 DEF GEndsInv
      <3>3. CASE gconn.streams[i].done BY <1>3, <3>3
      <3>4. CASE \E j \in 1..(k + 1) : GHeads(ginbox[j], i) BY <2>2, <3>1, <3>4
      <3> QED BY <3>2, <3>3, <3>4
    <2>4. ASSUME NEW i \in GOpen(gconn') \cap DOMAIN gpeer', gpeer'[i] = "body"
          PROVE  gconn'.streams[i].done \/ \E j \in 1..Len(ginbox') : GHeads(ginbox'[j], i)
      <3>1. gconn.streams[i].done \/ \E j \in 1..Len(ginbox) : GHeads(ginbox[j], i)
        BY <1>1, <1>2, <2>4 DEF GEndsInv
      <3>2. CASE gconn.streams[i].done BY <1>3, <3>2
      <3>3. CASE \E j \in 1..Len(ginbox) : GHeads(ginbox[j], i) BY <1>0, <2>2, <3>3
      <3> QED BY <3>1, <3>2, <3>3
    <2> QED BY <2>1, <2>3, <2>4 DEF GEndsInv
  <1>14. GWholeInv'
    <2> SUFFICES ASSUME NEW i \in GOpen(gconn'), gconn'.streams[i].req \in gwhole'
                 PROVE  /\ i \in DOMAIN gpeer' /\ gpeer'[i] = "done"
                        /\ \A k \in 1..Len(ginbox') : GEnds(ginbox'[k], i) =>
                              /\ k < Len(ginbox') \/ ~gcut'
                              /\ \A j \in 1..k : ginbox'[j].type # "GOAWAY"
      BY DEF GWholeInv
    <2>1. /\ i \in DOMAIN gpeer /\ gpeer[i] = "done"
          /\ \A k \in 1..Len(ginbox) : GEnds(ginbox[k], i) =>
                /\ k < Len(ginbox) \/ ~gcut
                /\ \A j \in 1..k : ginbox[j].type # "GOAWAY"
      BY <1>1, <1>2, <1>3 DEF GWholeInv
    <2>2. ASSUME NEW k \in 1..Len(ginbox'), GEnds(ginbox'[k], i)
          PROVE  (k < Len(ginbox') \/ ~gcut') /\ \A j \in 1..k : ginbox'[j].type # "GOAWAY"
      <3>1. k + 1 \in 1..Len(ginbox) /\ GEnds(ginbox[k + 1], i) BY <1>0, <2>2
      <3>2. (k + 1 < Len(ginbox) \/ ~gcut) /\ \A j \in 1..(k + 1) : ginbox[j].type # "GOAWAY" BY <2>1, <3>1
      <3>3. \A j \in 1..k : j + 1 \in 1..(k + 1) /\ ginbox'[j] = ginbox[j + 1] BY <1>0
      <3> QED BY <1>0, <1>1, <3>2, <3>3
    <2> QED BY <1>1, <2>1, <2>2
  <1>15. GDeadInv' BY <1>0 DEF GDeadInv, GFrameIsTaken, GAfter, GSettled
  <1> QED BY <1>5, <1>6, <1>7, <1>8, <1>9, <1>10, <1>11, <1>12, <1>13, <1>14, <1>15

\* A connection after a frame that ends no stream, and adds no credit.
GMild(c) ==
    /\ c \in GConnSet /\ c.up = gconn.up /\ c.next = gconn.next
    /\ c.cont # 0 => GBegins(GFrame) /\ c.cont = GFrame.id
    /\ c.initial = gconn.initial /\ c.window = gconn.window
    /\ GOpen(c) = GOpen(gconn)
    /\ \A i \in GOpen(c) :
          /\ c.streams[i].req = gconn.streams[i].req
          /\ gconn.streams[i].done \/ GHeads(GFrame, i) => c.streams[i].done
          /\ c.streams[i].window = gconn.streams[i].window

\* A frame that ends no open stream leaves the answers still waited for behind it.
LEMMA GMildAfter ==
  ASSUME GGood, NEW c, GMild(c), \A i \in GOpen(c) : ~GEnds(GFrame, i)
  PROVE  GAfter(c)
  <1>1. gconn \in GConnSet /\ c \in GConnSet /\ GMost \in Nat BY GMostIs DEF GGood, GTypeOK, GMild
  <1>2. gconn.initial \in GWindows \cup {GWindow} BY DEF GGood, GCreditInv
  <1>3. gconn.window \in Int /\ gconn.initial \in Int /\ \A i \in GOpen(gconn) : gconn.streams[i].window \in Int
    BY <1>1, GConnIs
  <1>4. c.window <= gconn.window + GMost BY <1>1, <1>3 DEF GMild
  <1>5. \A i \in GOpen(c) : c.streams[i].window - c.initial <= gconn.streams[i].window - gconn.initial + GMost
    <2> SUFFICES ASSUME NEW i \in GOpen(c)
                 PROVE  c.streams[i].window - c.initial <= gconn.streams[i].window - gconn.initial + GMost
      OBVIOUS
    <2>1. c.streams[i].window = gconn.streams[i].window /\ c.initial = gconn.initial /\ i \in GOpen(gconn) BY DEF GMild
    <2> QED BY <1>1, <1>3, <2>1
  <1> QED BY <1>2, <1>4, <1>5 DEF GMild, GAfter

\* Without a stream.
LEMMA GWithoutIs ==
  ASSUME NEW c \in GConnSet, NEW id
  PROVE  /\ GWithout(c, id) \in GConnSet /\ GOpen(GWithout(c, id)) = GOpen(c) \ {id}
         /\ GWithout(c, id).up = c.up /\ GWithout(c, id).next = c.next /\ GWithout(c, id).cont = c.cont
         /\ GWithout(c, id).window = c.window /\ GWithout(c, id).initial = c.initial
         /\ \A i \in GOpen(c) \ {id} : GWithout(c, id).streams[i] = c.streams[i]
  <1>1. PICK t : t = [i \in GOpen(c) \ {id} |-> c.streams[i]] OBVIOUS
  <1>2. t \in [GOpen(c) \ {id} -> GStreamSet] /\ DOMAIN t = GOpen(c) \ {id} BY <1>1, GConnIs
  <1>3. t \in GTables
    <2>1. GOpen(c) \ {id} \in SUBSET (Nat \ {0}) BY GConnIs
    <2> QED BY <1>2, <2>1, GTableIs
  <1>4. PICK d : d = [c EXCEPT !.streams = t] OBVIOUS
  <1>5. GWithout(c, id) = d BY <1>1, <1>4 DEF GWithout
  <1>6. d \in GConnSet /\ d.streams = t /\ d.up = c.up /\ d.next = c.next /\ d.cont = c.cont
        /\ d.window = c.window /\ d.initial = c.initial
    BY <1>3, <1>4 DEF GConnSet
  <1>7. GOpen(d) = GOpen(c) \ {id} BY <1>2, <1>6 DEF GOpen
  <1> QED BY <1>1, <1>5, <1>6, <1>7

\* The stream of the frame at hand ends.
LEMMA GStreamEnds ==
  ASSUME GGood, NEW c, GMild(c)
  PROVE  GAfter(GWithout(c, GFrame.id)) /\ GOpen(GWithout(c, GFrame.id)) = GOpen(gconn) \ {GFrame.id}
  <1>0. PICK d : d = GWithout(c, GFrame.id) OBVIOUS
  <1>1. gconn \in GConnSet /\ c \in GConnSet /\ GMost \in Nat BY GMostIs DEF GGood, GTypeOK, GMild
  <1>2. gconn.initial \in GWindows \cup {GWindow} BY DEF GGood, GCreditInv
  <1>3. gconn.window \in Int /\ gconn.initial \in Int /\ \A i \in GOpen(gconn) : gconn.streams[i].window \in Int
    BY <1>1, GConnIs
  <1>4. /\ d \in GConnSet /\ GOpen(d) = GOpen(c) \ {GFrame.id}
        /\ d.up = c.up /\ d.next = c.next /\ d.cont = c.cont /\ d.window = c.window /\ d.initial = c.initial
        /\ \A i \in GOpen(c) \ {GFrame.id} : d.streams[i] = c.streams[i]
    BY <1>0, <1>1, GWithoutIs
  <1>5. d.window <= gconn.window + GMost BY <1>1, <1>3, <1>4 DEF GMild
  <1>6. ASSUME NEW i \in GOpen(d)
        PROVE  /\ d.streams[i].req = gconn.streams[i].req
               /\ gconn.streams[i].done \/ GHeads(GFrame, i) => d.streams[i].done
               /\ ~GEnds(GFrame, i)
               /\ d.streams[i].window - d.initial <= gconn.streams[i].window - gconn.initial + GMost
    <2>1. /\ d.streams[i] = c.streams[i] /\ i \in GOpen(gconn) /\ i # GFrame.id /\ i \in GOpen(c)
          /\ d.initial = gconn.initial
      BY <1>4 DEF GMild
    <2>2. ~GEnds(GFrame, i) BY <2>1 DEF GEnds
    <2>3. c.streams[i].window = gconn.streams[i].window BY <2>1 DEF GMild
    <2>4. d.streams[i].window - d.initial <= gconn.streams[i].window - gconn.initial + GMost
      BY <1>1, <1>3, <2>1, <2>3
    <2> QED BY <2>1, <2>2, <2>4 DEF GMild
  <1>7. GOpen(d) \subseteq GOpen(gconn) /\ GOpen(d) = GOpen(gconn) \ {GFrame.id} BY <1>4 DEF GMild
  <1>8. d.up = gconn.up /\ d.next = gconn.next /\ d.initial = gconn.initial
        /\ (d.cont # 0 => GBegins(GFrame) /\ d.cont = GFrame.id)
    BY <1>4 DEF GMild
  <1> QED BY <1>0, <1>2, <1>4, <1>5, <1>6, <1>7, <1>8 DEF GAfter

\* A body sent on after the frame.
LEMMA GLikeAfter ==
  ASSUME GGood, NEW c, GAfter(c), NEW d \in GConnSet, GLike(c, d)
  PROVE  GAfter(d)
  <1>1. gconn \in GConnSet /\ c \in GConnSet /\ GMost \in Nat BY GMostIs DEF GGood, GTypeOK, GAfter
  <1>2. /\ d.up = c.up /\ d.next = c.next /\ d.cont = c.cont /\ d.initial = c.initial
        /\ d.window <= c.window /\ GOpen(d) = GOpen(c)
    BY DEF GLike
  <1>3. gconn.window \in Int /\ gconn.initial \in Int /\ c.window \in Int /\ d.window \in Int /\ c.initial \in Int
    BY <1>1, GConnIs
  <1>4. d.window <= gconn.window + GMost BY <1>1, <1>2, <1>3 DEF GAfter
  <1>5. ASSUME NEW i \in GOpen(d)
        PROVE  /\ d.streams[i].req = gconn.streams[i].req
               /\ gconn.streams[i].done \/ GHeads(GFrame, i) => d.streams[i].done
               /\ ~GEnds(GFrame, i)
               /\ d.streams[i].window - d.initial <= gconn.streams[i].window - gconn.initial + GMost
    <2>1. i \in GOpen(c) /\ i \in GOpen(gconn) BY <1>2 DEF GAfter
    <2>2. /\ d.streams[i].req = c.streams[i].req /\ (d.streams[i].done <=> c.streams[i].done)
          /\ d.streams[i].window <= c.streams[i].window
      BY <2>1 DEF GLike
    <2>3. /\ c.streams[i].req = gconn.streams[i].req
          /\ gconn.streams[i].done \/ GHeads(GFrame, i) => c.streams[i].done
          /\ ~GEnds(GFrame, i)
          /\ c.streams[i].window - c.initial <= gconn.streams[i].window - gconn.initial + GMost
      BY <2>1 DEF GAfter
    <2>4. d.streams[i].window \in Int /\ c.streams[i].window \in Int /\ gconn.streams[i].window \in Int
      BY <1>1, <1>2, <2>1, GConnIs
    <2>5. d.streams[i].window - d.initial <= gconn.streams[i].window - gconn.initial + GMost
      BY <1>1, <1>2, <1>3, <2>2, <2>3, <2>4
    <2> QED BY <2>2, <2>3, <2>5
  <1>6. /\ d.up = gconn.up /\ d.next = gconn.next /\ (d.cont # 0 => GBegins(GFrame) /\ d.cont = GFrame.id)
        /\ d.initial \in GWindows \cup {GWindow} /\ GOpen(d) \subseteq GOpen(gconn)
    BY <1>2 DEF GAfter
  <1> QED BY <1>4, <1>5, <1>6 DEF GAfter

\* Acknowledgements, resets and DATA frames are no HEADERS.
LEMMA GSendsMore ==
  ASSUME GGood, NEW out \in Seq(Nat), \A k \in 1..Len(out) : out[k] = 0
  PROVE  gsend \o out \in Seq(Nat) /\ \A k \in 1..Len(gsend \o out) : (gsend \o out)[k] < gconn.next
  <1>1. gsend \in Seq(Nat) /\ gconn.next \in Nat /\ gconn.next > 0 /\ \A k \in 1..Len(gsend) : gsend[k] < gconn.next
    BY GConnIs DEF GGood, GTypeOK, GIdsInv
  <1> SUFFICES ASSUME NEW k \in 1..Len(gsend \o out) PROVE (gsend \o out)[k] < gconn.next
    BY <1>1
  <1>2. CASE k \in 1..Len(gsend) BY <1>1, <1>2
  <1>3. CASE k \notin 1..Len(gsend)
    <2>1. k - Len(gsend) \in 1..Len(out) /\ (gsend \o out)[k] = out[k - Len(gsend)] BY <1>1, <1>3
    <2> QED BY <1>1, <2>1
  <1> QED BY <1>2, <1>3

\* The same with what was written and what was settled.
LEMMA GTakenIs ==
  ASSUME GGood, gpc = "parse", GWholeFrame, NEW c, NEW out \in Seq(Nat), \A k \in 1..Len(out) : out[k] = 0,
         GTakesOnly(c, out) \/ GTakesAndPumps(c, out), GAfter(c), GSettled(c)
  PROVE  GGood'
  <1>1. GTakes(c, out) /\ gpc' \in {"parse", "pump"} BY DEF GTakesOnly, GTakesAndPumps
  <1>2. gconn' = c /\ gsend' = gsend \o out /\ ginbox' = Tail(ginbox) /\ UNCHANGED <<gtls, gcut, geof, gremote>>
        /\ gpieces' = [gpieces EXCEPT !.recv = gpieces.recv - 2]
    BY <1>1 DEF GTakes
  <1>3. gsend' \in Seq(Nat) /\ \A k \in 1..Len(gsend') : gsend'[k] < gconn.next BY <1>2, GSendsMore
  <1>4. GFrameIsTaken BY <1>1, <1>2, <1>3 DEF GFrameIsTaken
  <1> QED BY <1>4, GTakenKeeps

\* A legal peer's credit fits.
LEMMA GRoomIs ==
  ASSUME GGood, gpc = "parse", GWholeFrame, GFrame.n <= GMost
  PROVE  /\ gconn.window + GFrame.n <= GMaxWindow
         /\ \A i \in GOpen(gconn) : gconn.streams[i].window + GFrame.n <= GMaxWindow
  <1>0. gconn \in GConnSet /\ GMost \in Nat BY GMostIs DEF GGood, GTypeOK
  <1>1. PICK h : h = GHandled OBVIOUS
  <1>2. h \in Nat /\ h + 1 <= GMaxFrames + 1 /\ GMaxFrames \in Nat
    BY <1>1, GFrameIsAtHand, TlsClientAssumption DEF GGood, GTypeOK, GCreditInv, GHandled
  <1>3. GMost * (h + 1) = GMost * h + GMost /\ GMost * h \in Nat BY <1>0, <1>2, Stepwise
  <1>4. GMost * (h + 1) <= GMost * (GMaxFrames + 1) BY <1>0, <1>2, GrantsGrow
  <1>5. GMost * (GMaxFrames + 1) \in Nat BY <1>0, <1>2
  <1>6. PICK a \in Nat, b \in Nat : a = GMost * h /\ b = GMost * (GMaxFrames + 1) BY <1>3, <1>5
  <1>7. a + GMost <= b BY <1>3, <1>4, <1>6
  <1>8. /\ GWindow \in Nat /\ GWindow + b <= GMaxWindow
        /\ gconn.initial \in Nat /\ gconn.initial + b <= GMaxWindow /\ GMaxWindow \in Nat
    BY <1>6, GMostIs, TlsClientAssumption DEF GGood, GCreditInv
  <1>9. GFrame.n \in Nat BY GFrameIsAtHand DEF GFrameSet
  <1>10. gconn.window + GFrame.n <= GMaxWindow
    <2>1. gconn.window <= GWindow + a /\ gconn.window \in Int BY <1>0, <1>1, <1>6, GConnIs DEF GGood, GCreditInv
    <2> QED BY <1>0, <1>7, <1>8, <1>9, <2>1
  <1>11. ASSUME NEW i \in GOpen(gconn) PROVE gconn.streams[i].window + GFrame.n <= GMaxWindow
    <2>1. gconn.streams[i].window <= gconn.initial + a /\ gconn.streams[i].window \in Int
      BY <1>0, <1>1, <1>6, GConnIs DEF GGood, GCreditInv
    <2> QED BY <1>0, <1>7, <1>8, <1>9, <2>1
  <1> QED BY <1>10, <1>11

\* The connection as it is, when the frame has no header block.
LEMMA GMildSelf ==
  ASSUME GGood, GHandles(GFrame.type), GFrame.type \notin {"CONTINUATION", "HEADERS"}
  PROVE  GMild(gconn)
  <1>1. gconn \in GConnSet BY DEF GGood, GTypeOK
  <1>2. gconn.cont = 0 BY DEF GHandles
  <1>3. \A i : ~GHeads(GFrame, i) BY DEF GHeads
  <1> QED BY <1>1, <1>2, <1>3 DEF GMild

\* A step that settles nobody settles only whom it may.
LEMMA GSettledSame ==
  ASSUME GGood, NEW c, UNCHANGED gresult
  PROVE  GSettled(c)
  BY DEF GGood, GTypeOK, GSettled

\* A stream ends with an answer, or its response does not count as whole.
LEMMA GSettledOne ==
  ASSUME GGood, NEW c, NEW id \in GOpen(gconn) \ GOpen(c), NEW how \in {"ok", "error"},
         gresult' = [gresult EXCEPT ![gconn.streams[id].req] = how],
         how = "error" => gconn.streams[id].req \notin gwhole
  PROVE  GSettled(c)
  <1>1. gconn.streams[id].req \in GRequests BY GConnIs DEF GGood, GTypeOK
  <1>2. gresult \in [GRequests -> {"new", "waiting", "ok", "error", "dropped", "refused"}] BY DEF GGood, GTypeOK
  <1>3. \A r \in GRequests : gresult'[r] = IF r = gconn.streams[id].req THEN how ELSE gresult[r]
    BY <1>1, <1>2
  <1> QED BY <1>1, <1>2, <1>3 DEF GSettled

\* handle_settings keeps the invariant.
LEMMA GSettingsKeep ==
  ASSUME GGood, GSettings
  PROVE  GGood'
  <1>0. gpc = "parse" /\ GWholeFrame /\ GFrame.type = "SETTINGS" /\ gconn.cont = 0 /\ UNCHANGED gresult
    BY DEF GSettings, GHandles
  <1>1. gconn \in GConnSet /\ GMost \in Nat BY GMostIs DEF GGood, GTypeOK
  <1>2. GFrame.n \in GWindows /\ GFrame.n \in Nat BY <1>0, GFrameIsAtHand DEF GLegal, GFrameSet
  <1>3. PICK delta : delta = GFrame.n - gconn.initial OBVIOUS
  <1>4. delta \in Int /\ gconn.initial \in Int /\ GMaxWindow \in Int BY <1>1, <1>2, <1>3, GConnIs, TlsClientAssumption
  <1>5. PICK t : t = [i \in GOpen(gconn) |->
                         [gconn.streams[i] EXCEPT !.window = GLess(GMaxWindow, gconn.streams[i].window + delta)]]
    OBVIOUS
  <1>6. ASSUME NEW i \in GOpen(gconn)
        PROVE  /\ t[i] \in GStreamSet /\ t[i].req = gconn.streams[i].req
               /\ gconn.streams[i].done => t[i].done
               /\ t[i].window \in Int /\ t[i].window <= gconn.streams[i].window + delta
    <2>1. PICK s : s = gconn.streams[i] OBVIOUS
    <2>2. s \in GStreamSet /\ s.req \in GRequests /\ s.done \in BOOLEAN /\ s.left \in Nat /\ s.window \in Int
      BY <1>1, <2>1, GConnIs
    <2>3. PICK w : w = GLess(GMaxWindow, s.window + delta) OBVIOUS
    <2>4. w \in Int /\ w <= s.window + delta BY <1>4, <2>2, <2>3 DEF GLess
    <2>5. t[i] = [s EXCEPT !.window = w] BY <1>5, <2>1, <2>3
    <2>6. t[i] = [req |-> s.req, done |-> s.done, left |-> s.left, window |-> w]
      BY <2>2, <2>5 DEF GStreamSet
    <2>7. t[i] \in GStreamSet BY <2>2, <2>4, <2>6 DEF GStreamSet
    <2> QED BY <2>1, <2>4, <2>6, <2>7
  <1>7. t \in GTables /\ DOMAIN t = GOpen(gconn)
    <2>1. t \in [GOpen(gconn) -> GStreamSet] BY <1>5, <1>6
    <2>2. GOpen(gconn) \in SUBSET (Nat \ {0}) BY <1>1, GConnIs
    <2> QED BY <2>1, <2>2, GTableIs
  <1>8. PICK c : c = [gconn EXCEPT !.initial = GFrame.n, !.streams = t] OBVIOUS
  <1>9. /\ c \in GConnSet /\ c.up = gconn.up /\ c.next = gconn.next /\ c.cont = 0 /\ c.initial = GFrame.n
        /\ c.window = gconn.window /\ c.streams = t
    <2>1. GFrame.n \in Int BY <1>2
    <2>2. PICK n \in Int : n = GFrame.n BY <2>1
    <2>3. c = [gconn EXCEPT !.initial = n, !.streams = t] BY <1>8, <2>2
    <2>4. c \in GConnSet BY <1>1, <1>7, <2>3 DEF GConnSet
    <2>5. /\ c.up = gconn.up /\ c.next = gconn.next /\ c.cont = gconn.cont /\ c.initial = n
          /\ c.window = gconn.window /\ c.streams = t
      BY <1>1, <2>3 DEF GConnSet
    <2> QED BY <1>0, <2>2, <2>4, <2>5
  <1>10. GOpen(c) = GOpen(gconn) BY <1>7, <1>9 DEF GOpen
  <1>11. GTakesAndPumps(c, <<0>>)
    <2>1. c = [gconn EXCEPT !.initial = GFrame.n,
                   !.streams = [i \in GOpen(gconn) |->
                       [gconn.streams[i] EXCEPT !.window = GLess(GMaxWindow, @ + delta)]]]
      BY <1>5, <1>8
    <2> QED BY <1>3, <2>1 DEF GSettings
  <1>12. GAfter(c)
    <2>1. c.window <= gconn.window + GMost BY <1>1, <1>9, GConnIs
    <2>2. ASSUME NEW i \in GOpen(c)
          PROVE  /\ c.streams[i].req = gconn.streams[i].req
                 /\ gconn.streams[i].done \/ GHeads(GFrame, i) => c.streams[i].done
                 /\ ~GEnds(GFrame, i)
                 /\ c.streams[i].window - c.initial <= gconn.streams[i].window - gconn.initial + GMost
      <3>1. ~GHeads(GFrame, i) /\ ~GEnds(GFrame, i) BY <1>0 DEF GHeads, GEnds
      <3>2. /\ c.streams[i].req = gconn.streams[i].req /\ (gconn.streams[i].done => c.streams[i].done)
            /\ c.streams[i].window \in Int /\ c.streams[i].window <= gconn.streams[i].window + delta
        BY <1>6, <1>9, <1>10
      <3>3. gconn.streams[i].window \in Int BY <1>1, <1>10, GConnIs
      <3>4. c.streams[i].window - c.initial <= gconn.streams[i].window - gconn.initial + GMost
        BY <1>1, <1>2, <1>3, <1>4, <1>9, <3>2, <3>3
      <3> QED BY <3>1, <3>2, <3>4
    <2> QED BY <1>2, <1>9, <1>10, <2>1, <2>2 DEF GAfter
  <1>13. <<0>> \in Seq(Nat) /\ \A k \in 1..Len(<<0>>) : <<0>>[k] = 0 OBVIOUS
  <1> QED BY <1>0, <1>11, <1>12, <1>13, GTakenIs, GSettledSame

\* A frame that is answered with nothing.
LEMMA NoneIsSent == <<>> \in Seq(Nat) /\ \A k \in 1..Len(<<>>) : <<>>[k] = 0
  OBVIOUS

\* A frame that is answered with one acknowledgement.
LEMMA OneIsSent == <<0>> \in Seq(Nat) /\ \A k \in 1..Len(<<0>>) : <<0>>[k] = 0
  OBVIOUS

\* complete_stream: a response that counts as whole has its header block.
LEMMA GCompleteKeeps ==
  ASSUME GGood, gpc = "parse", GWholeFrame, GFrame.type \in {"HEADERS", "DATA"}, GFrame.last,
         NEW c, GMild(c), GComplete(c, GFrame.id)
  PROVE  GGood'
  <1>0. PICK id : id = GFrame.id OBVIOUS
  <1>1. GOpen(c) = GOpen(gconn) BY DEF GMild
  <1>2. CASE id \notin GOpen(c)
    <2>1. GTakesOnly(c, <<>>) /\ UNCHANGED gresult BY <1>0, <1>2 DEF GComplete
    <2>2. GAfter(c) BY <1>0, <1>2, GMildAfter DEF GEnds
    <2> QED BY <2>1, <2>2, GTakenIs, GSettledSame, NoneIsSent
  <1>3. CASE id \in GOpen(c)
    <2>0. PICK d : d = GWithout(c, id) OBVIOUS
    <2>1. PICK out : out = IF c.streams[id].left > 0 THEN <<0>> ELSE <<>> OBVIOUS
    <2>2. GTakesOnly(d, out) BY <1>0, <1>3, <2>0, <2>1 DEF GComplete
    <2>3. out \in Seq(Nat) /\ \A k \in 1..Len(out) : out[k] = 0
      <3>1. out = <<0>> \/ out = <<>> BY <2>1
      <3> QED BY <3>1, NoneIsSent, OneIsSent
    <2>4. GAfter(d) /\ GOpen(d) = GOpen(gconn) \ {id} BY <1>0, <2>0, GStreamEnds
    <2>5. PICK how : how = IF c.streams[id].done THEN "ok" ELSE "error" OBVIOUS
    <2>6. gresult' = [gresult EXCEPT ![gconn.streams[id].req] = how]
      <3>1. c.streams[id].req = gconn.streams[id].req BY <1>3 DEF GMild
      <3> QED BY <1>0, <1>3, <2>5, <3>1 DEF GComplete
    <2>7. ASSUME gconn.streams[id].req \in gwhole PROVE c.streams[id].done
      <3>1. id \in DOMAIN gpeer /\ gpeer[id] = "done" BY <1>1, <1>3, <2>7 DEF GGood, GWholeInv
      <3>2. GFrame = ginbox[1] /\ 1 \in 1..Len(ginbox) /\ GLegal(GFrame) BY GFrameIsAtHand
      <3>3. GEnds(GFrame, id) BY <1>0, <3>1, <3>2 DEF GLegal, GEnds
      <3>4. gconn.streams[id].done \/ \E j \in 1..1 : GHeads(ginbox[j], id)
        BY <1>1, <1>3, <3>2, <3>3 DEF GGood, GEndsInv
      <3>5. gconn.streams[id].done \/ GHeads(GFrame, id) BY <3>2, <3>4
      <3> QED BY <1>3, <3>5 DEF GMild
    <2>8. how \in {"ok", "error"} /\ (how = "error" => gconn.streams[id].req \notin gwhole) BY <2>5, <2>7
    <2>9. GSettled(d) BY <1>1, <1>3, <2>4, <2>6, <2>8, GSettledOne
    <2> QED BY <2>2, <2>3, <2>4, <2>9, GTakenIs
  <1> QED BY <1>2, <1>3

\* A header block is complete.
LEMMA GGotHeadersIs ==
  ASSUME NEW c \in GConnSet, NEW id
  PROVE  /\ GGotHeaders(c, id) \in GConnSet /\ GOpen(GGotHeaders(c, id)) = GOpen(c)
         /\ GGotHeaders(c, id).up = c.up /\ GGotHeaders(c, id).next = c.next /\ GGotHeaders(c, id).cont = c.cont
         /\ GGotHeaders(c, id).window = c.window /\ GGotHeaders(c, id).initial = c.initial
         /\ \A i \in GOpen(c) : /\ GGotHeaders(c, id).streams[i].req = c.streams[i].req
                                /\ c.streams[i].done \/ i = id => GGotHeaders(c, id).streams[i].done
                                /\ GGotHeaders(c, id).streams[i].window = c.streams[i].window
  <1>1. CASE id \notin GOpen(c) BY <1>1 DEF GGotHeaders
  <1>2. CASE id \in GOpen(c)
    <2>1. PICK s : s = c.streams[id] OBVIOUS
    <2>2. s \in GStreamSet /\ s.req \in GRequests /\ s.left \in Nat /\ s.window \in Int BY <1>2, <2>1, GConnIs
    <2>3. PICK yes \in BOOLEAN : yes = TRUE OBVIOUS
    <2>4. PICK u : u = [s EXCEPT !.done = TRUE] OBVIOUS
    <2>5. u \in GStreamSet /\ u.req = s.req /\ u.done /\ u.window = s.window
      <3>1. u = [s EXCEPT !.done = yes] BY <2>3, <2>4
      <3>2. u \in GStreamSet BY <2>2, <2>4 DEF GStreamSet
      <3>3. u.req = s.req /\ u.window = s.window /\ u.done = yes BY <2>2, <3>1 DEF GStreamSet
      <3>4. u.done BY <2>3, <3>3
      <3> QED BY <3>2, <3>3, <3>4
    <2>6. PICK t : t = [c.streams EXCEPT ![id] = u] OBVIOUS
    <2>7. t \in [GOpen(c) -> GStreamSet] /\ t[id] = u /\ \A i \in GOpen(c) \ {id} : t[i] = c.streams[i]
      BY <1>2, <2>5, <2>6, GConnIs
    <2>8. t \in GTables BY <2>7, GConnIs, GTableIs
    <2>9. PICK d : d = [c EXCEPT !.streams = t] OBVIOUS
    <2>10. GGotHeaders(c, id) = d BY <1>2, <2>1, <2>4, <2>6, <2>9 DEF GGotHeaders
    <2>11. /\ d \in GConnSet /\ d.up = c.up /\ d.next = c.next /\ d.cont = c.cont /\ d.window = c.window
           /\ d.initial = c.initial /\ d.streams = t
      BY <2>8, <2>9 DEF GConnSet
    <2>12. GOpen(d) = GOpen(c) BY <2>7, <2>11 DEF GOpen
    <2>13. ASSUME NEW i \in GOpen(c)
           PROVE  /\ d.streams[i].req = c.streams[i].req /\ (c.streams[i].done \/ i = id => d.streams[i].done)
                  /\ d.streams[i].window = c.streams[i].window
      <3>1. CASE i = id BY <2>1, <2>5, <2>7, <2>11, <3>1
      <3>2. CASE i # id BY <2>7, <2>11, <3>2
      <3> QED BY <3>1, <3>2
    <2> QED BY <2>10, <2>11, <2>12, <2>13
  <1> QED BY <1>1, <1>2

\* HEADERS keep the invariant.
LEMMA GHeadersKeep ==
  ASSUME GGood, GHeaders
  PROVE  GGood'
  <1>0. gpc = "parse" /\ GWholeFrame /\ GFrame.type = "HEADERS" /\ gconn.cont = 0
    BY DEF GHeaders, GHandles
  <1>1. gconn \in GConnSet /\ GFrame.id \in Nat BY <1>0, GFrameIsAtHand DEF GGood, GTypeOK, GFrameSet
  <1>2. PICK c : c = IF GFrame.n = 1 THEN GGotHeaders(gconn, GFrame.id) ELSE [gconn EXCEPT !.cont = GFrame.id]
    OBVIOUS
  <1>3. GMild(c)
    <2>1. CASE GFrame.n = 1
      <3>1. c = GGotHeaders(gconn, GFrame.id) BY <1>2, <2>1
      <3>2. \A i : GHeads(GFrame, i) => i = GFrame.id BY DEF GHeads
      <3> QED BY <1>0, <1>1, <3>1, <3>2, GGotHeadersIs DEF GMild
    <2>2. CASE GFrame.n # 1
      <3>1. PICK id \in Nat : id = GFrame.id BY <1>1
      <3>2. c = [gconn EXCEPT !.cont = id] BY <1>2, <2>2, <3>1
      <3>3. c \in GConnSet BY <1>1, <3>2 DEF GConnSet
      <3>4. c.up = gconn.up /\ c.next = gconn.next /\ c.cont = id /\ c.initial = gconn.initial
            /\ c.window = gconn.window /\ c.streams = gconn.streams
        BY <1>1, <3>2 DEF GConnSet
      <3>5. GOpen(c) = GOpen(gconn) BY <3>4 DEF GOpen
      <3>6. GBegins(GFrame) /\ \A i : ~GHeads(GFrame, i) BY <1>0, <2>2 DEF GBegins, GHeads
      <3> QED BY <3>1, <3>3, <3>4, <3>5, <3>6 DEF GMild
    <2> QED BY <2>1, <2>2
  <1>4. CASE GFrame.last
    <2>1. GComplete(c, GFrame.id) BY <1>2, <1>4 DEF GHeaders
    <2> QED BY <1>0, <1>3, <1>4, <2>1, GCompleteKeeps
  <1>5. CASE ~GFrame.last
    <2>1. GTakesOnly(c, <<>>) /\ UNCHANGED gresult BY <1>2, <1>5 DEF GHeaders
    <2>2. GAfter(c) BY <1>3, <1>5, GMildAfter DEF GEnds
    <2> QED BY <1>0, <2>1, <2>2, GTakenIs, GSettledSame, NoneIsSent
  <1> QED BY <1>4, <1>5

\* CONTINUATION keeps the invariant.
LEMMA GContinuationKeeps ==
  ASSUME GGood, GContinuation
  PROVE  GGood'
  <1>0. gpc = "parse" /\ GWholeFrame /\ GFrame.type = "CONTINUATION" /\ UNCHANGED gresult
    BY DEF GContinuation, GHandles
  <1>1. gconn \in GConnSet BY DEF GGood, GTypeOK
  <1>2. PICK b : b = GGotHeaders(gconn, GFrame.id) OBVIOUS
  <1>3. PICK c : c = [b EXCEPT !.cont = 0] OBVIOUS
  <1>4. /\ b \in GConnSet /\ GOpen(b) = GOpen(gconn)
        /\ b.up = gconn.up /\ b.next = gconn.next /\ b.window = gconn.window /\ b.initial = gconn.initial
        /\ \A i \in GOpen(gconn) : /\ b.streams[i].req = gconn.streams[i].req
                                   /\ gconn.streams[i].done \/ i = GFrame.id => b.streams[i].done
                                   /\ b.streams[i].window = gconn.streams[i].window
    BY <1>1, <1>2, GGotHeadersIs
  <1>5. c \in GConnSet /\ c.up = b.up /\ c.next = b.next /\ c.cont = 0 /\ c.initial = b.initial
        /\ c.window = b.window /\ c.streams = b.streams
    BY <1>3, <1>4 DEF GConnSet
  <1>6. GOpen(c) = GOpen(gconn) BY <1>4, <1>5 DEF GOpen
  <1>7. \A i : (GHeads(GFrame, i) => i = GFrame.id) /\ ~GEnds(GFrame, i) BY <1>0 DEF GHeads, GEnds
  <1>8. GMild(c) BY <1>4, <1>5, <1>6, <1>7 DEF GMild
  <1>9. GAfter(c) BY <1>7, <1>8, GMildAfter
  <1>10. GTakesOnly(c, <<>>) BY <1>2, <1>3 DEF GContinuation
  <1> QED BY <1>0, <1>9, <1>10, GTakenIs, GSettledSame, NoneIsSent

\* DATA keeps the invariant.
LEMMA GDataKeeps ==
  ASSUME GGood, GData
  PROVE  GGood'
  <1>0. gpc = "parse" /\ GWholeFrame /\ GFrame.type = "DATA" /\ GHandles(GFrame.type)
    BY DEF GData, GHandles
  <1>1. GMild(gconn) BY <1>0, GMildSelf
  <1>2. CASE GFrame.last
    <2>1. GComplete(gconn, GFrame.id) BY <1>2 DEF GData
    <2> QED BY <1>0, <1>1, <1>2, <2>1, GCompleteKeeps
  <1>3. CASE ~GFrame.last
    <2>1. GTakesOnly(gconn, <<0>>) /\ UNCHANGED gresult BY <1>3 DEF GData
    <2>2. GAfter(gconn) BY <1>1, <1>3, GMildAfter DEF GEnds
    <2> QED BY <1>0, <2>1, <2>2, GTakenIs, GSettledSame, OneIsSent
  <1> QED BY <1>2, <1>3

\* RST_STREAM keeps the invariant.
LEMMA GRstStreamKeeps ==
  ASSUME GGood, GRstStream
  PROVE  GGood'
  <1>0. gpc = "parse" /\ GWholeFrame /\ GFrame.type = "RST_STREAM" /\ GHandles(GFrame.type)
    BY DEF GRstStream, GHandles
  <1>1. PICK c : c = GWithout(gconn, GFrame.id) OBVIOUS
  <1>2. GAfter(c) /\ GOpen(c) = GOpen(gconn) \ {GFrame.id} BY <1>0, <1>1, GMildSelf, GStreamEnds
  <1>3. GTakesOnly(c, <<>>) BY <1>1 DEF GRstStream
  <1>4. GSettled(c)
    <2>1. CASE GFrame.id \notin GOpen(gconn)
      BY <2>1, GSettledSame DEF GRstStream
    <2>2. CASE GFrame.id \in GOpen(gconn)
      <3>1. gpeer[GFrame.id] = "reset" BY <1>0, GFrameIsAtHand DEF GLegal
      <3>2. gconn.streams[GFrame.id].req \notin gwhole BY <2>2, <3>1 DEF GGood, GWholeInv
      <3>3. gresult' = [gresult EXCEPT ![gconn.streams[GFrame.id].req] = "error"] BY <2>2 DEF GRstStream
      <3>4. GFrame.id \in GOpen(gconn) \ GOpen(c) BY <1>2, <2>2
      <3> QED BY <3>2, <3>3, <3>4, GSettledOne
    <2> QED BY <2>1, <2>2
  <1> QED BY <1>0, <1>2, <1>3, <1>4, GTakenIs, NoneIsSent

\* GOAWAY ends the connection, and no answer behind one counts as whole.
LEMMA GGoAwayKeeps ==
  ASSUME GGood, GGoAway
  PROVE  GGood'
  <1>0. gpc = "parse" /\ GWholeFrame /\ GFrame.type = "GOAWAY" /\ GMarkDead
    BY DEF GGoAway, GHandles
  <1>1. 1 \in 1..Len(ginbox) /\ ginbox[1].type = "GOAWAY" BY <1>0, GFrameIsAtHand
  <1>2. GToldToGo BY <1>1 DEF GToldToGo
  <1>3. ASSUME NEW i \in GOpen(gconn), gconn.streams[i].req \in gwhole PROVE FALSE
    <2>1. i \in DOMAIN gpeer /\ gpeer[i] = "done" BY <1>3 DEF GGood, GWholeInv
    <2>2. PICK k \in 1..Len(ginbox) : GEnds(ginbox[k], i) BY <2>1 DEF GGood, GEndsInv
    <2>3. \A j \in 1..k : ginbox[j].type # "GOAWAY" BY <1>3, <2>2 DEF GGood, GWholeInv
    <2> QED BY <1>1, <2>3
  <1> QED BY <1>0, <1>2, <1>3, GDies

\* WINDOW_UPDATE of the connection keeps the invariant.
LEMMA GConnUpdateKeeps ==
  ASSUME GGood, GConnUpdate
  PROVE  GGood'
  <1>0. gpc = "parse" /\ GWholeFrame /\ GFrame.type = "WINDOW_UPDATE" /\ GHandles(GFrame.type)
    BY DEF GConnUpdate, GHandles
  <1>1. gconn \in GConnSet /\ GMost \in Nat BY GMostIs DEF GGood, GTypeOK
  <1>2. PICK n \in Nat : n = GFrame.n BY <1>0, GFrameIsAtHand DEF GFrameSet
  <1>3. n # 0 /\ n <= GMost BY <1>0, <1>2, GFrameIsAtHand DEF GLegal
  <1>4. gconn.window + n <= GMaxWindow BY <1>0, <1>2, <1>3, GRoomIs
  <1>5. gconn.window \in Int /\ GMaxWindow \in Int BY <1>1, GConnIs, TlsClientAssumption
  <1>6. ~(n = 0 \/ gconn.window + n > GMaxWindow) BY <1>3, <1>4, <1>5
  <1>7. PICK w \in Int : w = gconn.window + n BY <1>5
  <1>8. PICK c : c = [gconn EXCEPT !.window = w] OBVIOUS
  <1>9. GTakesAndPumps(c, <<>>) /\ UNCHANGED gresult
    <2>1. c = [gconn EXCEPT !.window = @ + GFrame.n] BY <1>2, <1>7, <1>8
    <2> QED BY <1>2, <1>6, <2>1 DEF GConnUpdate
  <1>10. /\ c \in GConnSet /\ c.up = gconn.up /\ c.next = gconn.next /\ c.cont = gconn.cont
         /\ c.initial = gconn.initial /\ c.window = w /\ c.streams = gconn.streams
    BY <1>1, <1>8 DEF GConnSet
  <1>11. GOpen(c) = GOpen(gconn) BY <1>10 DEF GOpen
  <1>12. GAfter(c)
    <2>1. GAfter(gconn) BY <1>0, GMildSelf, GMildAfter DEF GEnds
    <2>2. c.window <= gconn.window + GMost BY <1>1, <1>3, <1>5, <1>7, <1>10
    <2> QED BY <1>10, <1>11, <2>1, <2>2 DEF GAfter
  <1> QED BY <1>0, <1>9, <1>12, GTakenIs, GSettledSame, NoneIsSent

\* WINDOW_UPDATE of a stream keeps the invariant.
LEMMA GStreamUpdateKeeps ==
  ASSUME GGood, GStreamUpdate
  PROVE  GGood'
  <1>0. gpc = "parse" /\ GWholeFrame /\ GFrame.type = "WINDOW_UPDATE" /\ GHandles(GFrame.type)
    BY DEF GStreamUpdate, GHandles
  <1>1. gconn \in GConnSet /\ GMost \in Nat BY GMostIs DEF GGood, GTypeOK
  <1>2. PICK n \in Nat : n = GFrame.n BY <1>0, GFrameIsAtHand DEF GFrameSet
  <1>3. n # 0 /\ n <= GMost BY <1>0, <1>2, GFrameIsAtHand DEF GLegal
  <1>4. PICK id : id = GFrame.id OBVIOUS
  <1>5. GAfter(gconn) BY <1>0, GMildSelf, GMildAfter DEF GEnds
  <1>6. CASE id \notin GOpen(gconn)
    <2>1. GTakesOnly(gconn, <<>>) /\ UNCHANGED gresult BY <1>2, <1>3, <1>4, <1>6 DEF GStreamUpdate
    <2> QED BY <1>0, <1>5, <2>1, GTakenIs, GSettledSame, NoneIsSent
  <1>7. CASE id \in GOpen(gconn)
    <2>1. PICK s : s = gconn.streams[id] OBVIOUS
    <2>2. s \in GStreamSet /\ s.req \in GRequests /\ s.done \in BOOLEAN /\ s.left \in Nat /\ s.window \in Int
      BY <1>1, <1>7, <2>1, GConnIs
    <2>3. s.window + n <= GMaxWindow /\ GMaxWindow \in Int BY <1>0, <1>2, <1>3, <1>7, <2>1, GRoomIs, TlsClientAssumption
    <2>4. ~(s.window + n > GMaxWindow) BY <2>2, <2>3
    <2>5. PICK w \in Int : w = s.window + n BY <2>2
    <2>6. PICK u : u = [s EXCEPT !.window = w] OBVIOUS
    <2>7. u \in GStreamSet /\ u.req = s.req /\ (u.done <=> s.done) /\ u.window = w
      <3>1. u = [req |-> s.req, done |-> s.done, left |-> s.left, window |-> w] BY <2>2, <2>6 DEF GStreamSet
      <3>2. u \in GStreamSet BY <2>2, <3>1 DEF GStreamSet
      <3> QED BY <3>1, <3>2
    <2>8. PICK t : t = [gconn.streams EXCEPT ![id] = u] OBVIOUS
    <2>9. t \in [GOpen(gconn) -> GStreamSet] /\ t[id] = u /\ \A i \in GOpen(gconn) \ {id} : t[i] = gconn.streams[i]
      BY <1>1, <1>7, <2>7, <2>8, GConnIs
    <2>10. t \in GTables BY <1>1, <2>9, GConnIs, GTableIs
    <2>11. PICK c : c = [gconn EXCEPT !.streams = t] OBVIOUS
    <2>12. /\ c \in GConnSet /\ c.up = gconn.up /\ c.next = gconn.next /\ c.cont = gconn.cont
           /\ c.initial = gconn.initial /\ c.window = gconn.window /\ c.streams = t
      BY <1>1, <2>10, <2>11 DEF GConnSet
    <2>13. GOpen(c) = GOpen(gconn) BY <2>9, <2>12 DEF GOpen
    <2>14. GAfter(c)
      <3>1. ASSUME NEW i \in GOpen(c)
            PROVE  /\ c.streams[i].req = gconn.streams[i].req
                   /\ gconn.streams[i].done \/ GHeads(GFrame, i) => c.streams[i].done
                   /\ ~GEnds(GFrame, i)
                   /\ c.streams[i].window - c.initial <= gconn.streams[i].window - gconn.initial + GMost
        <4>1. CASE i = id
          <5>1. c.streams[i] = u /\ gconn.streams[i] = s BY <2>1, <2>9, <2>12, <4>1
          <5>2. ~GHeads(GFrame, i) /\ ~GEnds(GFrame, i) BY <1>0 DEF GHeads, GEnds
          <5>3. gconn.initial \in Int BY <1>1, GConnIs
          <5>4. c.streams[i].window - c.initial <= gconn.streams[i].window - gconn.initial + GMost
            BY <1>1, <1>3, <2>2, <2>5, <2>7, <2>12, <5>1, <5>3
          <5> QED BY <2>7, <5>1, <5>2, <5>4
        <4>2. CASE i # id
          BY <1>5, <2>9, <2>12, <2>13, <4>2 DEF GAfter
        <4> QED BY <4>1, <4>2
      <3> QED BY <1>5, <2>12, <2>13, <3>1 DEF GAfter
    <2>15. c = [gconn EXCEPT !.streams = [gconn.streams EXCEPT ![id].window = @ + GFrame.n]]
      BY <1>2, <2>1, <2>5, <2>6, <2>8, <2>11
    <2>16. GTakesOnly(GPumped(c, id), GDataFrames(c, GPumped(c, id))) /\ UNCHANGED gresult
      BY <1>2, <1>3, <1>4, <1>7, <2>1, <2>4, <2>15 DEF GStreamUpdate
    <2>17. PICK d : d = GPumped(c, id) OBVIOUS
    <2>18. GAfter(d) BY <2>12, <2>14, <2>17, GPumpedIs, GLikeAfter
    <2> QED BY <1>0, <2>16, <2>17, <2>18, GTakenIs, GSettledSame, GDataFramesAre
  <1> QED BY <1>6, <1>7

\* The frame after the beginning of a header block is its continuation.
LEMMA GContinuationComes ==
  ASSUME GGood
  PROVE  ~GExpectedContinuation
  <1> SUFFICES ASSUME GExpectedContinuation PROVE FALSE OBVIOUS
  <1>1. gpc = "parse" /\ GWholeFrame /\ gconn.cont # 0 /\ (GFrame.type # "CONTINUATION" \/ GFrame.id # gconn.cont)
    BY DEF GExpectedContinuation
  <1>2. ginbox # <<>> /\ GFrame = ginbox[1] BY <1>1, GFrameIsAtHand
  <1>3. GContinues(ginbox[1], gconn.cont) BY <1>1, <1>2 DEF GGood, GBlocksInv
  <1> QED BY <1>1, <1>2, <1>3 DEF GContinues

\* A connection is like itself.
LEMMA GLikeSelf ==
  ASSUME NEW c \in GConnSet
  PROVE  GLike(c, c)
  BY GConnIs DEF GLike

\* What moves between the buffers, and the bodies that are sent.
LEMMA GQuiet ==
  ASSUME GGood, gconn' \in GConnSet, GLike(gconn, gconn'),
         UNCHANGED <<ginbox, gcut, gpeer, gframes, gresult, gwhole, gsock>>,
         gsend' \in Seq(Nat), \A k \in 1..Len(gsend') : gsend'[k] < gconn.next,
         gtls' \in Seq(Nat), \A k \in 1..Len(gtls') : gtls'[k] < gconn.next, Len(gtls') <= GTlsLimit,
         gpieces' \in [net : Nat, plain : Nat, recv : Nat],
         GPiecesInv', gpc' \in {"idle", "flush", "drain", "read", "parse", "pump"},
         gpc' # "idle" => gconn.up = "open",
         geof' => gpc' \in {"parse", "pump"} /\ gsock # "open"
  PROVE  GGood'
  <1>1. GCallsInv' /\ GFramesInv' /\ GCreditInv' /\ GBlocksInv' /\ GEndsInv' /\ GWholeInv' /\ GDeadInv'
    BY GLikeKeeps
  <1>2. GOpen(gconn') = GOpen(gconn) /\ gconn'.up = gconn.up /\ gconn'.next = gconn.next BY DEF GLike
  <1>3. GTypeOK' BY DEF GGood, GTypeOK
  <1>4. GIdsInv' BY <1>2 DEF GGood, GIdsInv
  <1>5. GDriveInv' BY <1>2 DEF GGood, GDriveInv
  <1> QED BY <1>1, <1>3, <1>4, <1>5 DEF GGood

\* Pumping every stream keeps the invariant.
LEMMA GPumpAllKeeps ==
  ASSUME GGood, GPumpAll
  PROVE  GGood'
  <1>0. /\ gpc = "pump" /\ gtls' = gtls /\ ginbox' = ginbox /\ gcut' = gcut /\ gpieces' = gpieces /\ geof' = geof
        /\ gpeer' = gpeer /\ gsock' = gsock /\ gframes' = gframes /\ gwhole' = gwhole /\ gresult' = gresult
    BY DEF GPumpAll, gbuffers, gremote
  <1>1. gconn \in GConnSet BY DEF GGood, GTypeOK
  <1>2. gpc' \in {"parse", "pump"} BY <1>0 DEF GPumpAll
  <1>3. /\ gconn' \in GConnSet /\ GLike(gconn, gconn')
        /\ gsend' \in Seq(Nat) /\ \A k \in 1..Len(gsend') : gsend'[k] < gconn.next
    <2>1. CASE gtodo = {}
      <3>1. gconn' = gconn /\ gsend' = gsend BY <2>1 DEF GPumpAll
      <3> QED BY <1>1, <3>1, GLikeSelf DEF GGood, GTypeOK, GIdsInv
    <2>2. CASE gtodo # {}
      <3>1. PICK id : gconn' = GPumped(gconn, id) /\ gsend' = gsend \o GDataFrames(gconn, GPumped(gconn, id))
        BY <2>2 DEF GPumpAll
      <3>2. PICK out : out = GDataFrames(gconn, GPumped(gconn, id)) OBVIOUS
      <3>3. out \in Seq(Nat) /\ \A k \in 1..Len(out) : out[k] = 0 BY <3>2, GDataFramesAre
      <3>4. gconn' \in GConnSet /\ GLike(gconn, gconn') BY <1>1, <3>1, GPumpedIs
      <3>5. gsend' = gsend \o out BY <3>1, <3>2
      <3> QED BY <3>3, <3>4, <3>5, GSendsMore
    <2> QED BY <2>1, <2>2
  <1>4. GPiecesInv' BY <1>0, <1>2 DEF GGood, GPiecesInv
  <1>5. gconn.up = "open" /\ (geof' => gsock # "open") BY <1>0 DEF GGood, GDriveInv
  <1>6. gtls' \in Seq(Nat) /\ Len(gtls') <= GTlsLimit /\ gpieces' \in [net : Nat, plain : Nat, recv : Nat]
        /\ \A k \in 1..Len(gtls') : gtls'[k] < gconn.next
    BY <1>0 DEF GGood, GTypeOK, GIdsInv
  <1> QED BY <1>0, <1>2, <1>3, <1>4, <1>5, <1>6, GQuiet

\* Writer::write takes a part of send_buf, and no error comes of it.
LEMMA GWriteFramesKeep ==
  ASSUME GGood, GWriteFrames
  PROVE  GGood'
  <1>0. gpc = "idle" /\ gconn.up = "open" BY DEF GWriteFrames
  <1>1. gconn \in GConnSet /\ gsend \in Seq(Nat) /\ gtls \in Seq(Nat) /\ Len(gtls) <= GTlsLimit /\ gconn.next \in Nat
    BY GConnIs DEF GGood, GTypeOK
  <1>2. PICK a : a = GAccepted OBVIOUS
  <1>3. a \in Nat /\ a <= Len(gsend) /\ Len(gtls) + a <= GTlsLimit
    BY <1>1, <1>2, TlsClientAssumption DEF GAccepted, GLess
  <1>4. /\ gtls' = gtls \o SubSeq(gsend, 1, a) /\ gsend' = SubSeq(gsend, a + 1, Len(gsend)) /\ gpc' = "flush"
        /\ UNCHANGED <<gconn, gbuffers, geof, gremote, gresult>>
    BY <1>2, <1>3 DEF GWriteFrames
  <1>5. /\ gconn' = gconn /\ ginbox' = ginbox /\ gcut' = gcut /\ gpieces' = gpieces /\ geof' = geof
        /\ gpeer' = gpeer /\ gsock' = gsock /\ gframes' = gframes /\ gwhole' = gwhole /\ gresult' = gresult
    BY <1>4 DEF gbuffers, gremote
  <1>6. PICK p : p = SubSeq(gsend, 1, a) OBVIOUS
  <1>7. p \in Seq(Nat) /\ Len(p) = a /\ \A k \in 1..a : p[k] < gconn.next
    BY <1>1, <1>3, <1>6 DEF GGood, GIdsInv
  <1>8. gsend' \in Seq(Nat) /\ \A k \in 1..Len(gsend') : gsend'[k] < gconn.next
    <2>1. gsend' \in Seq(Nat) /\ Len(gsend') = Len(gsend) - a
      BY <1>1, <1>3, <1>4
    <2>2. ASSUME NEW k \in 1..Len(gsend') PROVE gsend'[k] < gconn.next
      <3>1. a + k \in 1..Len(gsend) /\ gsend'[k] = gsend[a + k] BY <1>1, <1>3, <1>4, <2>1
      <3> QED BY <3>1 DEF GGood, GIdsInv
    <2> QED BY <2>1, <2>2
  <1>9. gtls' \in Seq(Nat) /\ Len(gtls') <= GTlsLimit /\ \A k \in 1..Len(gtls') : gtls'[k] < gconn.next
    <2>1. gtls' = gtls \o p /\ gtls' \in Seq(Nat) /\ Len(gtls') = Len(gtls) + a BY <1>1, <1>4, <1>6, <1>7
    <2>2. ASSUME NEW k \in 1..Len(gtls') PROVE gtls'[k] < gconn.next
      <3>1. CASE k \in 1..Len(gtls)
        <4>1. gtls'[k] = gtls[k] BY <1>1, <1>7, <2>1, <3>1
        <4> QED BY <3>1, <4>1 DEF GGood, GIdsInv
      <3>2. CASE k \notin 1..Len(gtls)
        <4>1. k - Len(gtls) \in 1..a /\ gtls'[k] = p[k - Len(gtls)] BY <1>1, <1>3, <1>7, <2>1, <3>2
        <4> QED BY <1>7, <4>1
      <3> QED BY <3>1, <3>2
    <2> QED BY <1>3, <2>1, <2>2
  <1>10. GPiecesInv' /\ ~geof' /\ gpieces' \in [net : Nat, plain : Nat, recv : Nat]
    BY <1>0, <1>4, <1>5 DEF GGood, GPiecesInv, GDriveInv, GTypeOK
  <1> QED BY <1>0, <1>1, <1>4, <1>5, <1>8, <1>9, <1>10, GLikeSelf, GQuiet

\* Moving rustls' plaintext to recv_buf keeps the invariant.
LEMMA GDrainPlainKeeps ==
  ASSUME GGood, GDrainPlain
  PROVE  GGood'
  <1>0. /\ gpc = "drain" /\ gpc' = "read" /\ gconn' = gconn /\ ginbox' = ginbox /\ gcut' = gcut /\ geof' = geof
        /\ gsend' = gsend /\ gtls' = gtls
        /\ gpeer' = gpeer /\ gsock' = gsock /\ gframes' = gframes /\ gwhole' = gwhole /\ gresult' = gresult
    BY DEF GDrainPlain, gremote
  <1>1. gconn \in GConnSet /\ gpieces \in [net : Nat, plain : Nat, recv : Nat] BY DEF GGood, GTypeOK
  <1>2. gpieces' = [gpieces EXCEPT !.recv = gpieces.recv + gpieces.plain, !.plain = 0] BY DEF GDrainPlain
  <1>3. gpieces' \in [net : Nat, plain : Nat, recv : Nat] /\ gpieces'.net = gpieces.net /\ gpieces'.plain = 0
        /\ gpieces'.recv = gpieces.recv + gpieces.plain
    <2>1. PICK n \in Nat : n = gpieces.recv + gpieces.plain BY <1>1
    <2>2. gpieces' = [gpieces EXCEPT !.recv = n, !.plain = 0] BY <1>2, <2>1
    <2> QED BY <1>1, <2>1, <2>2
  <1>4. GPiecesInv' BY <1>0, <1>1, <1>3 DEF GGood, GPiecesInv
  <1>5. gconn.up = "open" /\ ~geof BY <1>0 DEF GGood, GDriveInv
  <1>6. /\ gsend' \in Seq(Nat) /\ gtls' \in Seq(Nat) /\ Len(gtls') <= GTlsLimit
        /\ \A k \in 1..Len(gsend') : gsend'[k] < gconn.next
        /\ \A k \in 1..Len(gtls') : gtls'[k] < gconn.next
    BY <1>0 DEF GGood, GTypeOK, GIdsInv
  <1> QED BY <1>0, <1>1, <1>3, <1>4, <1>5, <1>6, GLikeSelf, GQuiet

\* Reading the socket keeps the invariant.
LEMMA GReadTlsKeeps ==
  ASSUME GGood, GReadTls
  PROVE  GGood'
  <1>0. /\ gpc = "read" /\ gpc' = "parse" /\ gconn' = gconn /\ ginbox' = ginbox /\ gcut' = gcut
        /\ geof' = (gsock # "open") /\ gsend' = gsend /\ gtls' = gtls
        /\ gpeer' = gpeer /\ gsock' = gsock /\ gframes' = gframes /\ gwhole' = gwhole /\ gresult' = gresult
    BY DEF GReadTls, gremote
  <1>1. gconn \in GConnSet /\ gpieces \in [net : Nat, plain : Nat, recv : Nat] BY DEF GGood, GTypeOK
  <1>2. gpieces' = [gpieces EXCEPT !.recv = gpieces.recv + gpieces.net, !.net = 0] BY DEF GReadTls
  <1>3. gpieces' \in [net : Nat, plain : Nat, recv : Nat] /\ gpieces'.plain = gpieces.plain /\ gpieces'.net = 0
        /\ gpieces'.recv = gpieces.recv + gpieces.net
    <2>1. PICK n \in Nat : n = gpieces.recv + gpieces.net BY <1>1
    <2>2. gpieces' = [gpieces EXCEPT !.recv = n, !.net = 0] BY <1>2, <2>1
    <2> QED BY <1>1, <2>1, <2>2
  <1>4. GPiecesInv' BY <1>0, <1>1, <1>3 DEF GGood, GPiecesInv
  <1>5. gconn.up = "open" BY <1>0 DEF GGood, GDriveInv
  <1>6. /\ gsend' \in Seq(Nat) /\ gtls' \in Seq(Nat) /\ Len(gtls') <= GTlsLimit
        /\ \A k \in 1..Len(gsend') : gsend'[k] < gconn.next
        /\ \A k \in 1..Len(gtls') : gtls'[k] < gconn.next
    BY <1>0 DEF GGood, GTypeOK, GIdsInv
  <1>7. geof' => gsock # "open" BY <1>0
  <1> QED BY <1>0, <1>1, <1>3, <1>4, <1>5, <1>6, <1>7, GLikeSelf, GQuiet

\* The end of the stream counts when no whole frame is left.
LEMMA GDriveEndsKeeps ==
  ASSUME GGood, GDriveEnds
  PROVE  GGood'
  <1>0. gpc = "parse" /\ ~GWholeFrame BY DEF GDriveEnds
  <1>1. gconn \in GConnSet /\ gpieces \in [net : Nat, plain : Nat, recv : Nat] /\ Len(ginbox) \in Nat
    BY DEF GGood, GTypeOK
  <1>2. CASE geof
    <2>1. GMarkDead /\ gsock # "open" BY <1>2 DEF GDriveEnds, GGood, GDriveInv
    <2>2. gpieces.recv = 2 * Len(ginbox) - (IF gcut THEN 1 ELSE 0) BY <1>0, <1>1 DEF GGood, GPiecesInv
    <2>3. Len(ginbox) = 0 \/ (Len(ginbox) = 1 /\ gcut)
      <3>1. gpieces.recv \in Nat /\ gpieces.recv < 2 BY <1>0, <1>1 DEF GWholeFrame
      <3>2. CASE gcut
        <4>1. gpieces.recv = 2 * Len(ginbox) - 1 BY <2>2, <3>2
        <4>2. PICK m \in Nat, c \in Nat : m = Len(ginbox) /\ c = gpieces.recv BY <1>1, <3>1
        <4>3. c = 2 * m - 1 /\ c < 2 BY <3>1, <4>1, <4>2
        <4>4. m = 1 BY <4>3
        <4> QED BY <3>2, <4>2, <4>4
      <3>3. CASE ~gcut
        <4>1. gpieces.recv = 2 * Len(ginbox) BY <2>2, <3>3, <1>1
        <4> QED BY <1>1, <3>1, <4>1
      <3> QED BY <3>2, <3>3
    <2>4. ASSUME NEW i \in GOpen(gconn), gconn.streams[i].req \in gwhole PROVE FALSE
      <3>1. i \in DOMAIN gpeer /\ gpeer[i] = "done" BY <2>4 DEF GGood, GWholeInv
      <3>2. PICK k \in 1..Len(ginbox) : GEnds(ginbox[k], i) BY <3>1 DEF GGood, GEndsInv
      <3>3. k < Len(ginbox) \/ ~gcut BY <2>4, <3>2 DEF GGood, GWholeInv
      <3>4. Len(ginbox) # 0 BY <3>2
      <3>5. Len(ginbox) = 1 /\ gcut BY <2>3, <3>4
      <3>6. k < Len(ginbox) BY <3>3, <3>5
      <3> QED BY <3>2, <3>5, <3>6
    <2> QED BY <2>1, <2>4, GDies
  <1>3. CASE ~geof
    <2>1. gpc' = "idle" /\ UNCHANGED <<gconn, gsend, gtls, gbuffers, geof, gremote, gresult>>
      BY <1>3 DEF GDriveEnds
    <2>2. /\ gconn' = gconn /\ ginbox' = ginbox /\ gcut' = gcut /\ gpieces' = gpieces /\ geof' = geof
          /\ gsend' = gsend /\ gtls' = gtls
          /\ gpeer' = gpeer /\ gsock' = gsock /\ gframes' = gframes /\ gwhole' = gwhole /\ gresult' = gresult
      BY <2>1 DEF gbuffers, gremote
    <2>3. GPiecesInv' BY <2>1, <2>2 DEF GGood, GPiecesInv
    <2>4. /\ gsend' \in Seq(Nat) /\ gtls' \in Seq(Nat) /\ Len(gtls') <= GTlsLimit
          /\ \A k \in 1..Len(gsend') : gsend'[k] < gconn.next
          /\ \A k \in 1..Len(gtls') : gtls'[k] < gconn.next
      BY <2>2 DEF GGood, GTypeOK, GIdsInv
    <2> QED BY <1>1, <1>3, <2>1, <2>2, <2>3, <2>4, GLikeSelf, GQuiet
  <1> QED BY <1>2, <1>3

\* The peer learns of streams it has not said anything about.
LEMMA GWriteTlsKeeps ==
  ASSUME GGood, NEW n, GWriteTls(n)
  PROVE  GGood'
  <1>0. /\ gpc = "flush" /\ gpc' = "drain" /\ gconn' = gconn /\ ginbox' = ginbox /\ gcut' = gcut /\ geof' = geof
        /\ gsend' = gsend /\ gpieces' = gpieces
        /\ gsock' = gsock /\ gframes' = gframes /\ gwhole' = gwhole /\ gresult' = gresult
        /\ n \in 0..Len(gtls) /\ gtls' = SubSeq(gtls, n + 1, Len(gtls))
    BY DEF GWriteTls, gbuffers
  <1>1. gconn \in GConnSet /\ gtls \in Seq(Nat) /\ Len(gtls) <= GTlsLimit /\ gconn.next \in Nat /\ Len(gtls) \in Nat
        /\ GTlsLimit \in Nat
    BY GConnIs, TlsClientAssumption DEF GGood, GTypeOK
  <1>2. PICK D : D = (DOMAIN gpeer \cup {gtls[j] : j \in 1..n}) \ {0} OBVIOUS
  <1>3. gpeer' = [i \in D |-> IF i \in DOMAIN gpeer THEN gpeer[i] ELSE "asked"] BY <1>2 DEF GWriteTls
  <1>4. DOMAIN gpeer \subseteq Nat \ {0} /\ gpeer \in [DOMAIN gpeer -> GStages] BY DEF GGood, GTypeOK
  <1>5. D \subseteq Nat \ {0} /\ DOMAIN gpeer \subseteq D /\ \A i \in D : i < gconn.next
    <2>1. \A j \in 1..n : gtls[j] \in Nat /\ gtls[j] < gconn.next BY <1>0, <1>1 DEF GGood, GIdsInv
    <2>2. \A i \in DOMAIN gpeer : i < gconn.next BY DEF GGood, GIdsInv
    <2> QED BY <1>2, <1>4, <2>1, <2>2
  <1>6. /\ DOMAIN gpeer' = D
        /\ \A i \in DOMAIN gpeer : gpeer'[i] = gpeer[i]
        /\ \A i \in D \ DOMAIN gpeer : gpeer'[i] = "asked"
    BY <1>3, <1>5
  <1>7. gtls' \in Seq(Nat) /\ Len(gtls') = Len(gtls) - n /\ \A k \in 1..Len(gtls') : gtls'[k] < gconn.next
    <2>1. gtls' \in Seq(Nat) /\ Len(gtls') = Len(gtls) - n BY <1>0, <1>1
    <2>2. ASSUME NEW k \in 1..Len(gtls') PROVE gtls'[k] < gconn.next
      <3>1. n + k \in 1..Len(gtls) /\ gtls'[k] = gtls[n + k] BY <1>0, <1>1, <2>1
      <3> QED BY <3>1 DEF GGood, GIdsInv
    <2> QED BY <2>1, <2>2
  <1>8. GTypeOK'
    <2>1. gpeer' \in [D -> GStages]
      <3>1. "asked" \in GStages BY DEF GStages
      <3> QED BY <1>3, <1>4, <3>1
    <2>2. gpeer' \in UNION {[S -> GStages] : S \in SUBSET (Nat \ {0})} BY <1>5, <2>1
    <2>3. Len(gtls') <= GTlsLimit BY <1>0, <1>1, <1>7
    <2> QED BY <1>0, <1>7, <2>2, <2>3 DEF GGood, GTypeOK
  <1>9. GIdsInv' BY <1>0, <1>5, <1>6, <1>7 DEF GGood, GIdsInv
  <1>10. GPiecesInv' /\ GDriveInv' BY <1>0 DEF GGood, GPiecesInv, GDriveInv
  <1>11. GCallsInv' BY <1>0 DEF GGood, GCallsInv
  <1>12. GFramesInv'
    <2>1. \A k \in 1..Len(ginbox) : GLegal(ginbox[k]) BY DEF GGood, GFramesInv
    <2> QED BY <1>0, <1>5, <1>6, <2>1 DEF GFramesInv, GLegal
  <1>13. GCreditInv' BY <1>0 DEF GGood, GCreditInv, GHandled
  <1>14. GBlocksInv'
    <2>1. \A k \in 1..Len(ginbox) : GBegins(ginbox[k]) => ginbox[k].id \in DOMAIN gpeer
      BY DEF GGood, GFramesInv, GLegal, GBegins
    <2>2. "asked" \notin GBlocks BY DEF GBlocks
    <2>3. \A i \in DOMAIN gpeer' : gpeer'[i] \in GBlocks => i \in DOMAIN gpeer /\ gpeer[i] \in GBlocks
      BY <1>6, <2>2
    <2>4. \A k \in 1..Len(ginbox') : GBegins(ginbox'[k]) =>
             \/ k = Len(ginbox') /\ gpeer'[ginbox'[k].id] \in GBlocks
             \/ k + 1 \in 1..Len(ginbox') /\ GContinues(ginbox'[k + 1], ginbox'[k].id)
      BY <1>0, <1>6, <2>1 DEF GGood, GBlocksInv
    <2>5. gconn'.cont # 0 =>
             \/ ginbox' = <<>> /\ gconn'.cont \in DOMAIN gpeer' /\ gpeer'[gconn'.cont] \in GBlocks
             \/ ginbox' # <<>> /\ GContinues(ginbox'[1], gconn'.cont)
      BY <1>0, <1>5, <1>6 DEF GGood, GBlocksInv
    <2>6. \A i, j \in DOMAIN gpeer' : gpeer'[i] \in GBlocks /\ gpeer'[j] \in GBlocks => i = j
      BY <2>3 DEF GGood, GBlocksInv
    <2> QED BY <2>4, <2>5, <2>6 DEF GBlocksInv
  <1>15. GEndsInv'
    <2>1. \A i \in DOMAIN gpeer' : gpeer'[i] \in {"done", "body"} => i \in DOMAIN gpeer /\ gpeer[i] = gpeer'[i]
      BY <1>6
    <2> QED BY <1>0, <2>1 DEF GGood, GEndsInv
  <1>16. GWholeInv' BY <1>0, <1>5, <1>6 DEF GGood, GWholeInv
  <1>17. GDeadInv' BY <1>0 DEF GGood, GDeadInv, GToldToGo
  <1> QED BY <1>8, <1>9, <1>10, <1>11, <1>12, <1>13, <1>14, <1>15, <1>16, <1>17 DEF GGood

\* A stream is opened, and its body begun.
LEMMA GOpenedIs ==
  ASSUME NEW b \in GConnSet, b.next > 0, b.next \notin GOpen(b), NEW r \in GRequests, NEW d,
         d = GPumped(GNewStream(b, r), b.next)
  PROVE  /\ d \in GConnSet /\ d.up = b.up /\ d.next = b.next + 2 /\ d.cont = b.cont /\ d.initial = b.initial
         /\ d.window <= b.window /\ GOpen(d) = GOpen(b) \cup {b.next}
         /\ d.streams[b.next].req = r /\ d.streams[b.next].window <= b.initial
         /\ \A i \in GOpen(b) : /\ d.streams[i].req = b.streams[i].req
                                /\ d.streams[i].done <=> b.streams[i].done
                                /\ d.streams[i].window <= b.streams[i].window
  <1>0. PICK c : c = GNewStream(b, r) OBVIOUS
  <1>1. PICK s : s = [req |-> r, done |-> FALSE, left |-> GBody[r], window |-> b.initial] OBVIOUS
  <1>2. s \in GStreamSet /\ s.req = r /\ s.window = b.initial
    <2>1. GBody[r] \in Nat /\ b.initial \in Int BY GConnIs, TlsClientAssumption
    <2> QED BY <1>1, <2>1 DEF GStreamSet
  <1>3. PICK t : t = [i \in GOpen(b) \cup {b.next} |-> IF i = b.next THEN s ELSE b.streams[i]] OBVIOUS
  <1>4. /\ t \in [GOpen(b) \cup {b.next} -> GStreamSet] /\ DOMAIN t = GOpen(b) \cup {b.next} /\ t[b.next] = s
        /\ \A i \in GOpen(b) : t[i] = b.streams[i]
    BY <1>2, <1>3, GConnIs
  <1>5. t \in GTables
    <2>1. GOpen(b) \cup {b.next} \in SUBSET (Nat \ {0}) BY GConnIs
    <2> QED BY <1>4, <2>1, GTableIs
  <1>6. PICK n \in Nat : n = b.next + 2 BY GConnIs
  <1>7. c = [b EXCEPT !.next = n, !.streams = t] BY <1>0, <1>1, <1>3, <1>6 DEF GNewStream
  <1>8. c \in GConnSet /\ c.up = b.up /\ c.next = n /\ c.cont = b.cont /\ c.initial = b.initial
        /\ c.window = b.window /\ c.streams = t
    BY <1>5, <1>7 DEF GConnSet
  <1>9. GOpen(c) = GOpen(b) \cup {b.next} BY <1>4, <1>8 DEF GOpen
  <1>10. d \in GConnSet /\ GLike(c, d) BY <1>0, <1>8, GPumpedIs
  <1>11. /\ d.up = c.up /\ d.next = c.next /\ d.cont = c.cont /\ d.initial = c.initial
         /\ d.window <= c.window /\ GOpen(d) = GOpen(c)
         /\ \A i \in GOpen(c) : /\ d.streams[i].req = c.streams[i].req
                                /\ d.streams[i].done <=> c.streams[i].done
                                /\ d.streams[i].window <= c.streams[i].window
    BY <1>10 DEF GLike
  <1>12. d.streams[b.next].req = r /\ d.streams[b.next].window <= b.initial BY <1>2, <1>4, <1>8, <1>9, <1>11
  <1>13. \A i \in GOpen(b) : /\ d.streams[i].req = b.streams[i].req
                             /\ d.streams[i].done <=> b.streams[i].done
                             /\ d.streams[i].window <= b.streams[i].window
    BY <1>4, <1>8, <1>9, <1>11
  <1> QED BY <1>6, <1>8, <1>9, <1>10, <1>11, <1>12, <1>13

\* A request that is given an answer, or begins to wait for one, was not answered before.
LEMMA GNewIsNotWhole ==
  ASSUME GGood, NEW r \in GRequests, gresult[r] = "new", NEW how \in {"waiting", "refused"},
         gresult' = [gresult EXCEPT ![r] = how]
  PROVE  /\ r \notin gwhole /\ \A i \in GOpen(gconn) : gconn.streams[i].req # r
         /\ gresult' \in [GRequests -> {"new", "waiting", "ok", "error", "dropped", "refused"}]
         /\ gresult'[r] = how /\ \A q \in GRequests \ {r} : gresult'[q] = gresult[q]
  BY DEF GGood, GTypeOK, GCallsInv

\* A dispatched request keeps the invariant.
LEMMA GDispatchKeeps ==
  ASSUME GGood, NEW r \in GRequests, GDispatch(r)
  PROVE  GGood'
  <1>0. /\ gpc = "idle" /\ gresult[r] = "new" /\ gconn.up = "open"
        /\ gresult' = [gresult EXCEPT ![r] = "waiting"]
        /\ gtls' = gtls /\ ginbox' = ginbox /\ gcut' = gcut /\ gpieces' = gpieces /\ gpc' = gpc /\ geof' = geof
        /\ gpeer' = gpeer /\ gsock' = gsock /\ gframes' = gframes /\ gwhole' = gwhole
    BY DEF GDispatch, gbuffers, gremote, gdrive
  <1>1. PICK id : id = gconn.next OBVIOUS
  <1>2. gconn \in GConnSet /\ id \in Nat /\ id > 0 /\ id \notin GOpen(gconn) /\ id \notin DOMAIN gpeer
    <2>1. gconn \in GConnSet /\ gconn.next \in Nat BY GConnIs DEF GGood, GTypeOK
    <2>2. gconn.next > 0 /\ \A i \in GOpen(gconn) \cup DOMAIN gpeer : i < gconn.next BY DEF GGood, GIdsInv
    <2> QED BY <1>1, <2>1, <2>2
  <1>3. PICK out : out = GDataFrames(GNewStream(gconn, r), GPumped(GNewStream(gconn, r), gconn.next)) OBVIOUS
  <1>4. gconn' = GPumped(GNewStream(gconn, r), gconn.next) /\ gsend' = Append(gsend, gconn.next) \o out
    BY <1>3 DEF GDispatch
  <1>5. /\ gconn' \in GConnSet /\ gconn'.up = gconn.up /\ gconn'.next = id + 2 /\ gconn'.cont = gconn.cont
        /\ gconn'.initial = gconn.initial /\ gconn'.window <= gconn.window
        /\ GOpen(gconn') = GOpen(gconn) \cup {id}
        /\ gconn'.streams[id].req = r /\ gconn'.streams[id].window <= gconn.initial
        /\ \A i \in GOpen(gconn) : /\ gconn'.streams[i].req = gconn.streams[i].req
                                   /\ gconn'.streams[i].done <=> gconn.streams[i].done
                                   /\ gconn'.streams[i].window <= gconn.streams[i].window
    BY <1>1, <1>2, <1>4, GOpenedIs
  <1>6. /\ r \notin gwhole /\ \A i \in GOpen(gconn) : gconn.streams[i].req # r
        /\ gresult' \in [GRequests -> {"new", "waiting", "ok", "error", "dropped", "refused"}]
        /\ gresult'[r] = "waiting" /\ \A q \in GRequests \ {r} : gresult'[q] = gresult[q]
    BY <1>0, GNewIsNotWhole
  <1>7. out \in Seq(Nat) /\ \A k \in 1..Len(out) : out[k] = 0 BY <1>3, GDataFramesAre
  <1>8. gsend' \in Seq(Nat) /\ \A k \in 1..Len(gsend') : gsend'[k] < id + 2
    <2>1. gsend \in Seq(Nat) /\ \A k \in 1..Len(gsend) : gsend[k] < id BY <1>1 DEF GGood, GTypeOK, GIdsInv
    <2>2. PICK m : m = Append(gsend, id) OBVIOUS
    <2>3. m \in Seq(Nat) /\ Len(m) = Len(gsend) + 1 /\ m[Len(gsend) + 1] = id
          /\ \A k \in 1..Len(gsend) : m[k] = gsend[k]
      BY <1>2, <2>1, <2>2
    <2>4. ASSUME NEW k \in 1..Len(m) PROVE m[k] < id + 2
      <3>1. CASE k = Len(gsend) + 1 BY <1>2, <2>3, <3>1
      <3>2. CASE k # Len(gsend) + 1
        <4>1. k \in 1..Len(gsend) BY <2>1, <2>3, <3>2
        <4>2. gsend[k] \in Nat /\ gsend[k] < id BY <2>1, <4>1
        <4> QED BY <1>2, <2>3, <4>1, <4>2
      <3> QED BY <3>1, <3>2
    <2>5. gsend' = m \o out /\ gsend' \in Seq(Nat) BY <1>1, <1>4, <1>7, <2>2, <2>3
    <2>6. ASSUME NEW k \in 1..Len(gsend') PROVE gsend'[k] < id + 2
      <3>1. CASE k \in 1..Len(m)
        <4>1. gsend'[k] = m[k] BY <1>7, <2>3, <2>5, <3>1
        <4> QED BY <2>4, <3>1, <4>1
      <3>2. CASE k \notin 1..Len(m)
        <4>1. k - Len(m) \in 1..Len(out) /\ gsend'[k] = out[k - Len(m)] BY <1>7, <2>3, <2>5, <3>2
        <4>2. gsend'[k] = 0 BY <1>7, <4>1
        <4> QED BY <1>2, <4>2
      <3> QED BY <3>1, <3>2
    <2> QED BY <2>5, <2>6
  <1>9. GTypeOK' BY <1>0, <1>5, <1>6, <1>8 DEF GGood, GTypeOK
  <1>10. GIdsInv'
    <2>1. \A i \in GOpen(gconn) \cup DOMAIN gpeer : i \in Nat /\ i < id
      BY <1>1, <1>2, GConnIs DEF GGood, GIdsInv, GTypeOK
    <2>2. \A k \in 1..Len(gtls) : gtls[k] \in Nat /\ gtls[k] < id BY <1>1 DEF GGood, GIdsInv, GTypeOK
    <2>3. \A i \in GOpen(gconn') \cup DOMAIN gpeer' : i < id + 2 BY <1>0, <1>2, <1>5, <2>1
    <2>4. \A k \in 1..Len(gtls') : gtls'[k] < id + 2 BY <1>0, <1>2, <2>2
    <2> QED BY <1>2, <1>5, <1>8, <2>3, <2>4 DEF GIdsInv
  <1>11. GPiecesInv' BY <1>0 DEF GGood, GPiecesInv
  <1>12. GDriveInv' BY <1>0, <1>5 DEF GGood, GDriveInv
  <1>13. GCallsInv'
    <2>1. \A i \in GOpen(gconn) : gconn.streams[i].req \in GRequests BY <1>2, GConnIs
    <2>2. \A i \in GOpen(gconn') : gresult'[gconn'.streams[i].req] = "waiting"
      BY <1>5, <1>6, <2>1 DEF GGood, GCallsInv
    <2>3. \A i, j \in GOpen(gconn') : gconn'.streams[i].req = gconn'.streams[j].req => i = j
      BY <1>5, <1>6 DEF GGood, GCallsInv
    <2>4. \A q \in gwhole' : gresult'[q] \in {"waiting", "ok"}
      BY <1>0, <1>6 DEF GGood, GCallsInv, GTypeOK
    <2> QED BY <2>2, <2>3, <2>4 DEF GCallsInv
  <1>14. GFramesInv' BY <1>0 DEF GGood, GFramesInv, GLegal
  <1>15. GCreditInv'
    <2>1. PICK h : h = GHandled OBVIOUS
    <2>2. h \in Nat /\ GHandled' = h BY <1>0, <2>1 DEF GHandled, GGood, GCreditInv, GTypeOK
    <2>3. GMost * h \in Nat BY <2>2, Stepwise, GMostIs
    <2>4. gconn.window \in Int /\ gconn'.window \in Int /\ GWindow \in Int /\ gconn.initial \in Int
      BY <1>2, <1>5, GConnIs, TlsClientAssumption
    <2>5. gconn'.window <= GWindow + GMost * h
      <3>1. gconn.window <= GWindow + GMost * h BY <2>1 DEF GGood, GCreditInv
      <3> QED BY <1>5, <2>3, <2>4, <3>1
    <2>6. ASSUME NEW i \in GOpen(gconn') PROVE gconn'.streams[i].window <= gconn.initial + GMost * h
      <3>0. gconn'.streams[i].window \in Int BY <1>5, GConnIs
      <3>1. CASE i = id BY <1>5, <2>3, <2>4, <3>0, <3>1
      <3>2. CASE i # id
        <4>1. i \in GOpen(gconn) /\ gconn.streams[i].window \in Int BY <1>2, <1>5, <3>2, GConnIs
        <4>2. gconn.streams[i].window <= gconn.initial + GMost * h BY <2>1, <4>1 DEF GGood, GCreditInv
        <4> QED BY <1>5, <2>3, <2>4, <3>0, <4>1, <4>2
      <3> QED BY <3>1, <3>2
    <2>7. Len(ginbox') <= gframes' + 1 /\ gconn'.initial \in GWindows \cup {GWindow}
      BY <1>0, <1>5 DEF GGood, GCreditInv
    <2> QED BY <1>5, <2>2, <2>5, <2>6, <2>7 DEF GCreditInv
  <1>16. GBlocksInv' BY <1>0, <1>5 DEF GGood, GBlocksInv
  <1>17. \A k \in 1..Len(ginbox) : ~GEnds(ginbox[k], id)
    BY <1>2 DEF GGood, GFramesInv, GLegal, GEnds
  <1>18. GEndsInv' BY <1>0, <1>2, <1>5, <1>17 DEF GGood, GEndsInv
  <1>19. GWholeInv' BY <1>0, <1>5, <1>6 DEF GGood, GWholeInv
  <1>20. GDeadInv' BY <1>0, <1>5 DEF GDeadInv
  <1> QED BY <1>9, <1>10, <1>11, <1>12, <1>13, <1>14, <1>15, <1>16, <1>18, <1>19, <1>20 DEF GGood

\* A connection that cannot be made fails its caller and keeps the invariant.
LEMMA GConnectFailsKeeps ==
  ASSUME GGood, NEW r \in GRequests, GConnectFails(r)
  PROVE  GGood'
  <1>0. /\ gresult[r] = "new" /\ gresult' = [gresult EXCEPT ![r] = "refused"]
        /\ gconn' = gconn /\ gsend' = gsend
        /\ gtls' = gtls /\ ginbox' = ginbox /\ gcut' = gcut /\ gpieces' = gpieces /\ gpc' = gpc /\ geof' = geof
        /\ gpeer' = gpeer /\ gsock' = gsock /\ gframes' = gframes /\ gwhole' = gwhole
    BY DEF GConnectFails, gbuffers, gremote, gdrive
  <1>1. /\ r \notin gwhole /\ \A i \in GOpen(gconn) : gconn.streams[i].req # r
        /\ gresult' \in [GRequests -> {"new", "waiting", "ok", "error", "dropped", "refused"}]
        /\ \A q \in GRequests \ {r} : gresult'[q] = gresult[q]
    BY <1>0, GNewIsNotWhole
  <1>2. GTypeOK' BY <1>0, <1>1 DEF GGood, GTypeOK
  <1>3. GIdsInv' /\ GPiecesInv' /\ GDriveInv' BY <1>0 DEF GGood, GIdsInv, GPiecesInv, GDriveInv
  <1>4. GCallsInv'
    <2>1. gconn \in GConnSet BY DEF GGood, GTypeOK
    <2>2. \A i \in GOpen(gconn) : gconn.streams[i].req \in GRequests \ {r} BY <1>1, <2>1, GConnIs
    <2>3. \A q \in gwhole : q \in GRequests \ {r} BY <1>1 DEF GGood, GTypeOK
    <2> QED BY <1>0, <1>1, <2>2, <2>3 DEF GGood, GCallsInv
  <1>5. GFramesInv' BY <1>0 DEF GGood, GFramesInv, GLegal
  <1>6. GCreditInv' BY <1>0 DEF GGood, GCreditInv, GHandled
  <1>7. GBlocksInv' BY <1>0 DEF GGood, GBlocksInv
  <1>8. GEndsInv' BY <1>0 DEF GGood, GEndsInv
  <1>9. GWholeInv' BY <1>0 DEF GGood, GWholeInv
  <1>10. GDeadInv' BY <1>0 DEF GGood, GDeadInv, GToldToGo
  <1> QED BY <1>2, <1>3, <1>4, <1>5, <1>6, <1>7, <1>8, <1>9, <1>10 DEF GGood

\* A connection as it is made.
LEMMA GConnUpIs ==
  /\ GConnUp \in GConnSet /\ GConnUp.up = "open" /\ GConnUp.next = 1 /\ GConnUp.cont = 0
  /\ GConnUp.window = GWindow /\ GConnUp.initial = GWindow /\ GOpen(GConnUp) = {}
  /\ GConnUp.streams = GNoStreams /\ GNoStreams \in GTables
  <1>1. GNoStreams \in [{} -> GStreamSet] BY DEF GNoStreams
  <1>2. GNoStreams \in GTables BY <1>1, GTableIs
  <1>3. GConnUp.streams = GNoStreams BY DEF GConnUp
  <1>4. GOpen(GConnUp) = {} BY <1>1, <1>3 DEF GOpen
  <1>5. GWindow \in Int BY TlsClientAssumption
  <1>6. GConnUp \in GConnSet BY <1>2, <1>5 DEF GConnUp, GConnSet
  <1> QED BY <1>2, <1>3, <1>4, <1>6 DEF GConnUp

\* A new connection knows nothing of the last one.
LEMMA GConnectKeeps ==
  ASSUME GGood, NEW r \in GRequests, NEW settings \in Seq(GFrameSet), GConnect(r, settings),
         Len(settings) <= 1, \A k \in 1..Len(settings) : settings[k].type = "SETTINGS" /\ settings[k].n \in GWindows
  PROVE  GGood'
  <1>0. /\ gpc = "idle" /\ gresult[r] = "new"
        /\ gresult' = [gresult EXCEPT ![r] = "waiting"]
        /\ gtls' = <<>> /\ ginbox' = settings /\ ~gcut' /\ gsock' = "open" /\ gpeer' = GNoStreams
        /\ gpieces' = [GNoPieces EXCEPT !.plain = 2 * Len(settings)]
        /\ gpc' = gpc /\ geof' = geof /\ gframes' = gframes /\ gwhole' = gwhole
    BY DEF GConnect, gdrive
  <1>1. PICK out : out = GDataFrames(GNewStream(GConnUp, r), GPumped(GNewStream(GConnUp, r), 1)) OBVIOUS
  <1>2. gconn' = GPumped(GNewStream(GConnUp, r), 1) /\ gsend' = <<1>> \o out
    BY <1>1 DEF GConnect
  <1>3. /\ gconn' \in GConnSet /\ gconn'.up = "open" /\ gconn'.next = 3 /\ gconn'.cont = 0
        /\ gconn'.initial = GWindow /\ gconn'.window <= GWindow
        /\ GOpen(gconn') = {1}
        /\ gconn'.streams[1].req = r /\ gconn'.streams[1].window <= GWindow
    <2>1. PICK b \in GConnSet : b = GConnUp BY GConnUpIs
    <2>2. /\ b.up = "open" /\ b.next = 1 /\ b.cont = 0 /\ b.window = GWindow /\ b.initial = GWindow /\ GOpen(b) = {}
      BY <2>1, GConnUpIs
    <2>3. b.next > 0 /\ b.next \notin GOpen(b) BY <2>2
    <2>4. PICK d : d = GPumped(GNewStream(b, r), b.next) OBVIOUS
    <2>5. /\ d \in GConnSet /\ d.up = b.up /\ d.next = b.next + 2 /\ d.cont = b.cont
          /\ d.initial = b.initial /\ d.window <= b.window /\ GOpen(d) = GOpen(b) \cup {b.next}
          /\ d.streams[b.next].req = r /\ d.streams[b.next].window <= b.initial
      BY <2>3, <2>4, GOpenedIs
    <2>6. gconn' = d BY <1>2, <2>1, <2>2, <2>4
    <2> QED BY <2>2, <2>5, <2>6
  <1>4. /\ r \notin gwhole
        /\ gresult' \in [GRequests -> {"new", "waiting", "ok", "error", "dropped", "refused"}]
        /\ gresult'[r] = "waiting" /\ \A q \in GRequests \ {r} : gresult'[q] = gresult[q]
    BY <1>0, GNewIsNotWhole
  <1>5. out \in Seq(Nat) /\ \A k \in 1..Len(out) : out[k] = 0 BY <1>1, GDataFramesAre
  <1>6. gsend' \in Seq(Nat) /\ \A k \in 1..Len(gsend') : gsend'[k] < 3
    <2>1. <<1>> \in Seq(Nat) /\ Len(<<1>>) = 1 /\ <<1>>[1] = 1 OBVIOUS
    <2>2. gsend' \in Seq(Nat) /\ Len(gsend') = 1 + Len(out) BY <1>2, <1>5, <2>1
    <2>3. ASSUME NEW k \in 1..Len(gsend') PROVE gsend'[k] < 3
      <3>1. CASE k = 1
        <4>1. gsend'[k] = 1 BY <1>2, <1>5, <2>1, <3>1
        <4> QED BY <4>1
      <3>2. CASE k # 1
        <4>1. k - 1 \in 1..Len(out) /\ gsend'[k] = out[k - 1] BY <1>2, <1>5, <2>1, <2>2, <3>2
        <4> QED BY <1>5, <4>1
      <3> QED BY <3>1, <3>2
    <2> QED BY <2>2, <2>3
  <1>7. DOMAIN gpeer' = {} /\ gpeer' \in UNION {[S -> GStages] : S \in SUBSET (Nat \ {0})}
    <2>1. gpeer' \in [{} -> GStages] BY <1>0 DEF GNoStreams
    <2> QED BY <2>1
  <1>8. gpieces' \in [net : Nat, plain : Nat, recv : Nat] /\ gpieces'.net = 0 /\ gpieces'.recv = 0
        /\ gpieces'.plain = 2 * Len(settings)
    <2>1. PICK n \in Nat : n = 2 * Len(settings) OBVIOUS
    <2> QED BY <1>0, <2>1 DEF GNoPieces
  <1>9. GTypeOK'
    <2>1. <<>> \in Seq(Nat) /\ Len(<<>>) <= GTlsLimit BY TlsClientAssumption
    <2> QED BY <1>0, <1>3, <1>4, <1>6, <1>7, <1>8, <2>1 DEF GGood, GTypeOK
  <1>10. GIdsInv' BY <1>0, <1>3, <1>6, <1>7 DEF GIdsInv
  <1>11. GPiecesInv' BY <1>0, <1>8 DEF GPiecesInv
  <1>12. GDriveInv' BY <1>0, <1>3 DEF GGood, GDriveInv
  <1>13. GCallsInv' BY <1>0, <1>3, <1>4 DEF GGood, GCallsInv, GTypeOK
  <1>14. GFramesInv' BY <1>0 DEF GFramesInv, GLegal
  <1>15. GCreditInv'
    <2>1. gframes \in Nat BY TlsClientAssumption DEF GGood, GTypeOK
    <2>2. PICK h \in Nat : h = gframes + 1 - Len(settings)
      <3>1. Len(settings) \in Nat OBVIOUS
      <3> QED BY <2>1, <3>1
    <2>3. GHandled' = h BY <1>0, <2>2 DEF GHandled
    <2>4. GMost * h \in Nat BY Stepwise, GMostIs
    <2>5. gconn'.window \in Int /\ gconn'.streams[1].window \in Int /\ GWindow \in Int BY <1>3, GConnIs, TlsClientAssumption
    <2>6. gconn'.window <= GWindow + GMost * h /\ gconn'.streams[1].window <= GWindow + GMost * h
      BY <1>3, <2>4, <2>5
    <2>7. Len(ginbox') <= gframes' + 1 BY <1>0, <2>1
    <2> QED BY <1>3, <2>3, <2>6, <2>7 DEF GCreditInv
  <1>16. GBlocksInv'
    <2>1. \A k \in 1..Len(ginbox') : ~GBegins(ginbox'[k]) BY <1>0 DEF GBegins
    <2> QED BY <1>3, <1>7, <2>1 DEF GBlocksInv
  <1>17. GEndsInv'
    <2>2. \A i : \A k \in 1..Len(ginbox') : ~GEnds(ginbox'[k], i) BY <1>0 DEF GEnds
    <2> QED BY <1>7, <2>2 DEF GEndsInv
  <1>18. GWholeInv' BY <1>0, <1>3, <1>4 DEF GWholeInv
  <1>19. GDeadInv' BY <1>3 DEF GDeadInv
  <1> QED BY <1>9, <1>10, <1>11, <1>12, <1>13, <1>14, <1>15, <1>16, <1>17, <1>18, <1>19 DEF GGood

\* The peer puts a frame on the wire.
GSends(f) ==
    /\ GSpeaks /\ ~gcut /\ gframes < GMaxFrames
    /\ gframes' = gframes + 1
    /\ ginbox' = Append(ginbox, f)
    /\ gpieces' = [gpieces EXCEPT !.net = gpieces.net + (IF gcut' THEN 1 ELSE 2)]
    /\ UNCHANGED <<gconn, gsend, gtls, gdrive, gsock, gresult>>

\* The peer's frames when it has sent one more.
LEMMA GInboxIs ==
  ASSUME GGood, NEW f \in GFrameSet, GSends(f)
  PROVE  /\ Len(ginbox) \in Nat /\ Len(ginbox') = Len(ginbox) + 1 /\ ginbox' \in Seq(GFrameSet)
         /\ ginbox'[Len(ginbox) + 1] = f
         /\ \A k \in 1..Len(ginbox) : k \in 1..Len(ginbox') /\ ginbox'[k] = ginbox[k]
         /\ \A k \in 1..Len(ginbox') : k \in 1..Len(ginbox) \/ k = Len(ginbox) + 1
  <1>1. ginbox \in Seq(GFrameSet) /\ ginbox' = Append(ginbox, f) BY DEF GGood, GTypeOK, GSends
  <1> QED BY <1>1, AppendIs

\* What the peer sends keeps the parts that do not speak of its frames.
LEMMA GSendsKeeps ==
  ASSUME GGood, NEW f \in GFrameSet, GSends(f), DOMAIN gpeer' = DOMAIN gpeer,
         gpeer' \in [DOMAIN gpeer -> GStages], gwhole' \subseteq GRequests
  PROVE  GTypeOK' /\ GIdsInv' /\ GPiecesInv' /\ GDriveInv' /\ GCreditInv' /\ GDeadInv'
  <1>0. /\ gpc = "idle" /\ gconn.up = "open" /\ gconn' = gconn /\ gsend' = gsend /\ gtls' = gtls /\ gpc' = gpc
        /\ geof' = geof /\ gsock' = gsock /\ gresult' = gresult /\ gframes' = gframes + 1 /\ gframes < GMaxFrames
    BY DEF GSends, GSpeaks, gdrive
  <1>1. Len(ginbox) \in Nat /\ Len(ginbox') = Len(ginbox) + 1 /\ ginbox' \in Seq(GFrameSet) BY GInboxIs
  <1>2. gpieces' \in [net : Nat, plain : Nat, recv : Nat] /\ gpieces'.plain = gpieces.plain
        /\ gpieces'.recv = gpieces.recv /\ gpieces'.net = gpieces.net + (IF gcut' THEN 1 ELSE 2)
    <2>1. gpieces \in [net : Nat, plain : Nat, recv : Nat] BY DEF GGood, GTypeOK
    <2>2. PICK m \in Nat : m = gpieces.net + (IF gcut' THEN 1 ELSE 2) BY <2>1
    <2>3. gpieces' = [gpieces EXCEPT !.net = m] BY <2>2 DEF GSends
    <2> QED BY <2>1, <2>2, <2>3
  <1>3. GTypeOK'
    <2>1. gframes + 1 \in 0..GMaxFrames BY <1>0, TlsClientAssumption DEF GGood, GTypeOK
    <2>2. DOMAIN gpeer \in SUBSET (Nat \ {0}) BY DEF GGood, GTypeOK
    <2>3. gpeer' \in UNION {[S -> GStages] : S \in SUBSET (Nat \ {0})} BY <2>2
    <2> QED BY <1>0, <1>1, <1>2, <2>1, <2>3 DEF GGood, GTypeOK
  <1>4. GIdsInv' BY <1>0 DEF GGood, GIdsInv
  <1>5. GPiecesInv'
    <2>1. gpieces \in [net : Nat, plain : Nat, recv : Nat] BY DEF GGood, GTypeOK
    <2>2. gpieces.net + gpieces.plain + gpieces.recv = 2 * Len(ginbox) BY <1>1, <2>1 DEF GGood, GPiecesInv, GSends
    <2>3. PICK a \in Nat, b \in Nat, c \in Nat, m \in Nat :
             a = gpieces.net /\ b = gpieces.plain /\ c = gpieces.recv /\ m = Len(ginbox)
      BY <1>1, <2>1
    <2>4. a + b + c = 2 * m BY <2>2, <2>3
    <2>5. gpieces'.net + gpieces'.plain + gpieces'.recv = 2 * Len(ginbox') - (IF gcut' THEN 1 ELSE 0)
      <3>1. CASE gcut'
        <4>1. gpieces'.net = a + 1 /\ gpieces'.plain = b /\ gpieces'.recv = c /\ Len(ginbox') = m + 1
          BY <1>1, <1>2, <2>3, <3>1
        <4>2. a + 1 + b + c = 2 * (m + 1) - 1 BY <2>4
        <4> QED BY <3>1, <4>1, <4>2
      <3>2. CASE ~gcut'
        <4>1. gpieces'.net = a + 2 /\ gpieces'.plain = b /\ gpieces'.recv = c /\ Len(ginbox') = m + 1
          BY <1>1, <1>2, <2>3, <3>2
        <4>2. a + 2 + b + c = 2 * (m + 1) - 0 BY <2>4
        <4> QED BY <3>2, <4>1, <4>2
      <3> QED BY <3>1, <3>2
    <2>6. ginbox' # <<>> BY <1>1
    <2> QED BY <1>0, <2>5, <2>6 DEF GPiecesInv
  <1>6. GDriveInv' BY <1>0 DEF GGood, GDriveInv
  <1>7. GCreditInv'
    <2>1. GHandled' = GHandled BY <1>0, <1>1, TlsClientAssumption DEF GHandled, GGood, GTypeOK
    <2>2. Len(ginbox') <= gframes' + 1 BY <1>0, <1>1, TlsClientAssumption DEF GGood, GCreditInv, GTypeOK
    <2> QED BY <1>0, <2>1, <2>2 DEF GGood, GCreditInv
  <1>8. GDeadInv' BY <1>0 DEF GDeadInv
  <1> QED BY <1>3, <1>4, <1>5, <1>6, <1>7, <1>8

\* The peer's part of a response: the stage it leaves, the frame, and the stage it comes to.
GStageStep(s, f, z) ==
    \/ s = "asked" /\ f.type = "HEADERS" /\ f.n = 1 /\ f.last /\ z = "done"
    \/ s = "asked" /\ f.type = "HEADERS" /\ f.n = 1 /\ ~f.last /\ z = "body"
    \/ s = "asked" /\ f.type = "HEADERS" /\ f.n = 0 /\ ~f.last /\ z = "block"
    \/ s = "asked" /\ f.type = "HEADERS" /\ f.n = 0 /\ f.last /\ z = "lastblock"
    \/ s = "block" /\ f.type = "CONTINUATION" /\ z = "body"
    \/ s = "lastblock" /\ f.type = "CONTINUATION" /\ z = "over"
    \/ s = "body" /\ f.type = "DATA" /\ ~f.last /\ z = "body"
    \/ s = "body" /\ f.type = "DATA" /\ f.last /\ z = "done"
    \/ s \in {"asked", "body"} /\ f.type = "RST_STREAM" /\ z = "reset"

\* Every put of the peer is one of a frame.
LEMMA GPutsLast ==
  ASSUME NEW type \in GKinds, NEW id \in Nat, NEW n \in Nat, GPut(type, id, n, TRUE)
  PROVE  \E f \in GFrameSet : f.type = type /\ f.id = id /\ f.n = n /\ f.last /\ GSends(f) /\ ~gfault
  <1>1. PICK f : f = [type |-> type, id |-> id, n |-> n, last |-> TRUE] OBVIOUS
  <1>2. f \in GFrameSet /\ f.type = type /\ f.id = id /\ f.n = n /\ f.last BY <1>1 DEF GFrameSet
  <1>3. GSends(f) /\ ~gfault BY <1>1 DEF GPut, GSends
  <1> QED BY <1>2, <1>3

\* A frame the peer puts on the wire is one of the frames it may send.
LEMMA GPutsMore ==
  ASSUME NEW type \in GKinds, NEW id \in Nat, NEW n \in Nat, GPut(type, id, n, FALSE)
  PROVE  \E f \in GFrameSet : f.type = type /\ f.id = id /\ f.n = n /\ ~f.last /\ GSends(f) /\ ~gfault
  <1>1. PICK f : f = [type |-> type, id |-> id, n |-> n, last |-> FALSE] OBVIOUS
  <1>2. f \in GFrameSet /\ f.type = type /\ f.id = id /\ f.n = n /\ ~f.last BY <1>1 DEF GFrameSet
  <1>3. GSends(f) /\ ~gfault BY <1>1 DEF GPut, GSends
  <1> QED BY <1>2, <1>3

\* What GPeerAnswers does.
GAnswers(id, f, z) ==
    /\ f \in GFrameSet /\ f.id = id /\ GSends(f) /\ ~gfault
    /\ GStageStep(gpeer[id], f, z)
    /\ gpeer[id] \in GBlocks \/ ~GInBlock
    /\ gpeer' = [gpeer EXCEPT ![id] = z]
    /\ gwhole' = IF z = "done" /\ ~gcut' /\ ~GToldToGo /\ id \in GOpen(gconn)
                 THEN gwhole \cup {gconn.streams[id].req} ELSE gwhole

\* What GPeerAnswers does, in one shape for every stage.
LEMMA GAnswerIs ==
  ASSUME NEW id \in DOMAIN gpeer, id \in Nat, GPeerAnswers(id)
  PROVE  \E f, z : GAnswers(id, f, z)
  <1>0. ASSUME NEW f \in GFrameSet, NEW z, f.id = id, GSends(f), ~gfault, GCompletes(id, z),
               gpeer[id] \in GBlocks \/ ~GInBlock, GStageStep(gpeer[id], f, z)
        PROVE  \E g, y : GAnswers(id, g, y)
    <2>1. gpeer' = [gpeer EXCEPT ![id] = z] /\ gpeer'[id] = z BY <1>0 DEF GCompletes
    <2>2. gwhole' = IF z = "done" /\ ~gcut' /\ ~GToldToGo /\ id \in GOpen(gconn)
                    THEN gwhole \cup {gconn.streams[id].req} ELSE gwhole
      BY <2>1 DEF GPeerAnswers
    <2>3. GAnswers(id, f, z) BY <1>0, <2>1, <2>2 DEF GAnswers
    <2> QED BY <2>3
  <1>1. CASE ~GInBlock /\ gpeer[id] = "asked" /\ GPut("HEADERS", id, 1, TRUE) /\ GCompletes(id, "done")
    <2>1. PICK f \in GFrameSet : f.type = "HEADERS" /\ f.id = id /\ f.n = 1 /\ f.last /\ GSends(f) /\ ~gfault
      BY <1>1, GPutsLast DEF GKinds
    <2>2. GStageStep(gpeer[id], f, "done") BY <1>1, <2>1 DEF GStageStep
    <2> QED BY <1>0, <1>1, <2>1, <2>2
  <1>2. CASE ~GInBlock /\ gpeer[id] = "asked" /\ GPut("HEADERS", id, 1, FALSE) /\ GCompletes(id, "body")
    <2>1. PICK f \in GFrameSet : f.type = "HEADERS" /\ f.id = id /\ f.n = 1 /\ ~f.last /\ GSends(f) /\ ~gfault
      BY <1>2, GPutsMore DEF GKinds
    <2>2. GStageStep(gpeer[id], f, "body") BY <1>2, <2>1 DEF GStageStep
    <2> QED BY <1>0, <1>2, <2>1, <2>2
  <1>3. CASE ~GInBlock /\ gpeer[id] = "asked" /\ GPut("HEADERS", id, 0, FALSE) /\ GCompletes(id, "block")
    <2>1. PICK f \in GFrameSet : f.type = "HEADERS" /\ f.id = id /\ f.n = 0 /\ ~f.last /\ GSends(f) /\ ~gfault
      BY <1>3, GPutsMore DEF GKinds
    <2>2. GStageStep(gpeer[id], f, "block") BY <1>3, <2>1 DEF GStageStep
    <2> QED BY <1>0, <1>3, <2>1, <2>2
  <1>4. CASE ~GInBlock /\ gpeer[id] = "asked" /\ GPut("HEADERS", id, 0, TRUE) /\ GCompletes(id, "lastblock")
    <2>1. PICK f \in GFrameSet : f.type = "HEADERS" /\ f.id = id /\ f.n = 0 /\ f.last /\ GSends(f) /\ ~gfault
      BY <1>4, GPutsLast DEF GKinds
    <2>2. GStageStep(gpeer[id], f, "lastblock") BY <1>4, <2>1 DEF GStageStep
    <2> QED BY <1>0, <1>4, <2>1, <2>2
  <1>5. CASE gpeer[id] = "block" /\ GPut("CONTINUATION", id, 1, FALSE) /\ GCompletes(id, "body")
    <2>1. PICK f \in GFrameSet : f.type = "CONTINUATION" /\ f.id = id /\ f.n = 1 /\ ~f.last /\ GSends(f) /\ ~gfault
      BY <1>5, GPutsMore DEF GKinds
    <2>2. GStageStep(gpeer[id], f, "body") BY <1>5, <2>1 DEF GStageStep
    <2>3. gpeer[id] \in GBlocks BY <1>5 DEF GBlocks
    <2> QED BY <1>0, <1>5, <2>1, <2>2, <2>3
  <1>6. CASE gpeer[id] = "lastblock" /\ GPut("CONTINUATION", id, 1, FALSE) /\ GCompletes(id, "over")
    <2>1. PICK f \in GFrameSet : f.type = "CONTINUATION" /\ f.id = id /\ f.n = 1 /\ ~f.last /\ GSends(f) /\ ~gfault
      BY <1>6, GPutsMore DEF GKinds
    <2>2. GStageStep(gpeer[id], f, "over") BY <1>6, <2>1 DEF GStageStep
    <2>3. gpeer[id] \in GBlocks BY <1>6 DEF GBlocks
    <2> QED BY <1>0, <1>6, <2>1, <2>2, <2>3
  <1>7. CASE ~GInBlock /\ gpeer[id] = "body" /\ GPut("DATA", id, 1, FALSE) /\ GCompletes(id, "body")
    <2>1. PICK f \in GFrameSet : f.type = "DATA" /\ f.id = id /\ f.n = 1 /\ ~f.last /\ GSends(f) /\ ~gfault
      BY <1>7, GPutsMore DEF GKinds
    <2>2. GStageStep(gpeer[id], f, "body") BY <1>7, <2>1 DEF GStageStep
    <2> QED BY <1>0, <1>7, <2>1, <2>2
  <1>8. CASE ~GInBlock /\ gpeer[id] = "body" /\ GPut("DATA", id, 1, TRUE) /\ GCompletes(id, "done")
    <2>1. PICK f \in GFrameSet : f.type = "DATA" /\ f.id = id /\ f.n = 1 /\ f.last /\ GSends(f) /\ ~gfault
      BY <1>8, GPutsLast DEF GKinds
    <2>2. GStageStep(gpeer[id], f, "done") BY <1>8, <2>1 DEF GStageStep
    <2> QED BY <1>0, <1>8, <2>1, <2>2
  <1>9. CASE ~GInBlock /\ gpeer[id] \in {"asked", "body"} /\ GPut("RST_STREAM", id, 0, FALSE) /\ GCompletes(id, "reset")
    <2>1. PICK f \in GFrameSet : f.type = "RST_STREAM" /\ f.id = id /\ f.n = 0 /\ ~f.last /\ GSends(f) /\ ~gfault
      BY <1>9, GPutsMore DEF GKinds
    <2>2. GStageStep(gpeer[id], f, "reset") BY <1>9, <2>1 DEF GStageStep
    <2> QED BY <1>0, <1>9, <2>1, <2>2
  <1> QED BY <1>1, <1>2, <1>3, <1>4, <1>5, <1>6, <1>7, <1>8, <1>9 DEF GPeerAnswers

\* The next part of an answer keeps the invariant.
LEMMA GPeerAnswersKeeps ==
  ASSUME GGood, NEW id \in DOMAIN gpeer, NEW f, NEW z, GAnswers(id, f, z)
  PROVE  GGood'
  <1>0. /\ f \in GFrameSet /\ f.id = id /\ GSends(f) /\ GStageStep(gpeer[id], f, z)
        /\ gpeer[id] \in GBlocks \/ ~GInBlock
        /\ gpeer' = [gpeer EXCEPT ![id] = z]
        /\ gwhole' = IF z = "done" /\ ~gcut' /\ ~GToldToGo /\ id \in GOpen(gconn)
                     THEN gwhole \cup {gconn.streams[id].req} ELSE gwhole
    BY DEF GAnswers
  <1>1. /\ Len(ginbox) \in Nat /\ Len(ginbox') = Len(ginbox) + 1
        /\ ginbox'[Len(ginbox) + 1] = f
        /\ \A k \in 1..Len(ginbox) : k \in 1..Len(ginbox') /\ ginbox'[k] = ginbox[k]
        /\ \A k \in 1..Len(ginbox') : k \in 1..Len(ginbox) \/ k = Len(ginbox) + 1
    BY <1>0, GInboxIs
  <1>2. gconn' = gconn /\ gresult' = gresult /\ gconn \in GConnSet BY <1>0 DEF GSends, GGood, GTypeOK
  <1>3. PICK s : s = gpeer[id] OBVIOUS
  <1>4. /\ DOMAIN gpeer' = DOMAIN gpeer /\ gpeer'[id] = z
        /\ \A i \in DOMAIN gpeer \ {id} : gpeer'[i] = gpeer[i]
    BY <1>0 DEF GGood, GTypeOK
  <1>5. z \in GStages /\ s \in {"asked", "block", "lastblock", "body"} /\ GStageStep(s, f, z)
    BY <1>0, <1>3 DEF GStageStep, GStages
  <1>6. gpeer' \in [DOMAIN gpeer -> GStages] BY <1>0, <1>5 DEF GGood, GTypeOK
  <1>7. gwhole' \subseteq GRequests BY <1>0, <1>2, GConnIs DEF GGood, GTypeOK
  <1>8. GTypeOK' /\ GIdsInv' /\ GPiecesInv' /\ GDriveInv' /\ GCreditInv' /\ GDeadInv'
    BY <1>0, <1>4, <1>6, <1>7, GSendsKeeps
  <1>9. GCallsInv'
    <2>1. \A r \in gwhole' : gresult[r] \in {"waiting", "ok"} BY <1>0, <1>2 DEF GGood, GCallsInv
    <2> QED BY <1>2, <2>1 DEF GGood, GCallsInv
  <1>10. GFramesInv'
    <2>1. ASSUME NEW k \in 1..Len(ginbox) PROVE GLegal(ginbox[k])'
      <3>0. PICK g : g = ginbox[k] OBVIOUS
      <3>1. GLegal(g) /\ ginbox'[k] = g BY <1>1, <3>0 DEF GGood, GFramesInv
      <3>2. g.type = "RST_STREAM" => g.id # id BY <1>3, <1>5, <3>1 DEF GLegal
      <3>3. g.type = "HEADERS" /\ g.n # 1 /\ g.last /\ g.id = id => z = "over"
        <4>1. g.type = "HEADERS" /\ g.n # 1 /\ g.last /\ g.id = id => s = "lastblock"
          BY <1>3, <1>5, <3>1 DEF GLegal
        <4>2. s = "lastblock" => z = "over" BY <1>5 DEF GStageStep
        <4> QED BY <4>1, <4>2
      <3>4. /\ g.type = "SETTINGS" => g.n \in GWindows
            /\ g.type = "WINDOW_UPDATE" => g.n # 0 /\ g.n <= GMost
            /\ g.type \in {"HEADERS", "CONTINUATION", "DATA", "RST_STREAM"} => g.id \in DOMAIN gpeer'
            /\ g.type = "RST_STREAM" => gpeer'[g.id] = "reset"
            /\ g.type = "HEADERS" /\ g.n # 1 /\ g.last => gpeer'[g.id] \in {"lastblock", "over"}
        BY <1>4, <3>1, <3>2, <3>3 DEF GLegal
      <3> QED BY <3>1, <3>4 DEF GLegal
    <2>2. /\ f.type = "SETTINGS" => f.n \in GWindows
          /\ f.type = "WINDOW_UPDATE" => f.n # 0 /\ f.n <= GMost
          /\ f.type \in {"HEADERS", "CONTINUATION", "DATA", "RST_STREAM"} => f.id \in DOMAIN gpeer'
          /\ f.type = "RST_STREAM" => gpeer'[f.id] = "reset"
          /\ f.type = "HEADERS" /\ f.n # 1 /\ f.last => gpeer'[f.id] \in {"lastblock", "over"}
      BY <1>0, <1>4, <1>5 DEF GStageStep
    <2>3. ASSUME NEW k \in 1..Len(ginbox') PROVE GLegal(ginbox[k])'
      <3>1. CASE k \in 1..Len(ginbox) BY <2>1, <3>1
      <3>2. CASE k = Len(ginbox) + 1
        <4>1. ginbox'[k] = f BY <1>1, <3>2
        <4> QED BY <2>2, <4>1 DEF GLegal
      <3> QED BY <1>1, <3>1, <3>2
    <2> QED BY <2>3 DEF GFramesInv
  <1>11. GBlocksInv'
    <2>0. \A i \in DOMAIN gpeer : gpeer[i] \in GBlocks => i = id
      BY <1>0 DEF GInBlock, GGood, GBlocksInv
    <2>1. s \in GBlocks => f.type = "CONTINUATION" /\ z \notin GBlocks BY <1>5 DEF GStageStep, GBlocks
    <2>2. s \notin GBlocks => \A i \in DOMAIN gpeer : gpeer[i] \notin GBlocks BY <1>3, <2>0
    <2>3. ASSUME NEW k \in 1..Len(ginbox'), GBegins(ginbox'[k])
          PROVE  \/ k = Len(ginbox') /\ gpeer'[ginbox'[k].id] \in GBlocks
                 \/ k + 1 \in 1..Len(ginbox') /\ GContinues(ginbox'[k + 1], ginbox'[k].id)
      <3>1. CASE k = Len(ginbox) + 1
        <4>1. GBegins(f) /\ ginbox'[k] = f BY <1>1, <2>3, <3>1
        <4>2. z \in GBlocks BY <1>5, <4>1 DEF GStageStep, GBegins, GBlocks
        <4> QED BY <1>0, <1>1, <1>4, <3>1, <4>1, <4>2
      <3>2. CASE k \in 1..Len(ginbox)
        <4>1. GBegins(ginbox[k]) /\ ginbox'[k] = ginbox[k] /\ ginbox[k].id \in DOMAIN gpeer
          BY <1>1, <2>3, <3>2 DEF GGood, GFramesInv, GLegal, GBegins
        <4>2. CASE k = Len(ginbox) /\ gpeer[ginbox[k].id] \in GBlocks
          <5>1. ginbox[k].id = id /\ f.type = "CONTINUATION" BY <1>3, <2>0, <2>1, <4>1, <4>2
          <5>2. k + 1 \in 1..Len(ginbox') /\ ginbox'[k + 1] = f BY <1>1, <4>2
          <5> QED BY <1>0, <4>1, <5>1, <5>2 DEF GContinues
        <4>3. CASE k + 1 \in 1..Len(ginbox) /\ GContinues(ginbox[k + 1], ginbox[k].id)
          BY <1>1, <4>1, <4>3
        <4> QED BY <3>2, <4>1, <4>2, <4>3 DEF GGood, GBlocksInv
      <3> QED BY <1>1, <3>1, <3>2
    <2>4. ASSUME gconn'.cont # 0
          PROVE  \/ ginbox' = <<>> /\ gconn'.cont \in DOMAIN gpeer' /\ gpeer'[gconn'.cont] \in GBlocks
                 \/ ginbox' # <<>> /\ GContinues(ginbox'[1], gconn'.cont)
      <3>0. ginbox' # <<>> BY <1>1
      <3>1. CASE ginbox = <<>> /\ gconn.cont \in DOMAIN gpeer /\ gpeer[gconn.cont] \in GBlocks
        <4>1. gconn.cont = id /\ f.type = "CONTINUATION" BY <1>3, <2>0, <2>1, <3>1
        <4>2. ginbox'[1] = f BY <1>1, <3>1
        <4> QED BY <1>0, <1>2, <3>0, <4>1, <4>2 DEF GContinues
      <3>2. CASE ginbox # <<>> /\ GContinues(ginbox[1], gconn.cont)
        <4>1. 1 \in 1..Len(ginbox) BY <3>2 DEF GGood, GTypeOK
        <4> QED BY <1>1, <1>2, <3>0, <3>2, <4>1
      <3> QED BY <1>2, <2>4, <3>1, <3>2 DEF GGood, GBlocksInv
    <2>5. \A i, j \in DOMAIN gpeer' : gpeer'[i] \in GBlocks /\ gpeer'[j] \in GBlocks => i = j
      BY <1>4, <2>0
    <2> QED BY <2>3, <2>4, <2>5 DEF GBlocksInv
  <1>12. GEndsInv'
    <2>1. ASSUME NEW i \in GOpen(gconn') \cap DOMAIN gpeer', gpeer'[i] = "done"
          PROVE  \E k \in 1..Len(ginbox') : GEnds(ginbox'[k], i)
      <3>1. CASE i = id
        <4>1. z = "done" BY <1>4, <2>1, <3>1
        <4>2. GEnds(f, i) BY <1>0, <1>5, <3>1, <4>1 DEF GStageStep, GEnds
        <4> QED BY <1>1, <4>2
      <3>2. CASE i # id
        <4>1. PICK k \in 1..Len(ginbox) : GEnds(ginbox[k], i) BY <1>2, <1>4, <2>1, <3>2 DEF GGood, GEndsInv
        <4> QED BY <1>1, <4>1
      <3> QED BY <3>1, <3>2
    <2>2. ASSUME NEW i \in GOpen(gconn'), NEW k \in 1..Len(ginbox'), GEnds(ginbox'[k], i)
          PROVE  gconn'.streams[i].done \/ \E j \in 1..k : GHeads(ginbox'[j], i)
      <3>1. CASE k \in 1..Len(ginbox)
        <4>1. GEnds(ginbox[k], i) BY <1>1, <2>2, <3>1
        <4>2. gconn.streams[i].done \/ \E j \in 1..k : GHeads(ginbox[j], i)
          BY <1>2, <3>1, <4>1 DEF GGood, GEndsInv
        <4>3. \A j \in 1..k : j \in 1..Len(ginbox) BY <1>1, <3>1
        <4> QED BY <1>1, <1>2, <4>2, <4>3
      <3>2. CASE k = Len(ginbox) + 1
        <4>1. GEnds(f, i) BY <1>1, <2>2, <3>2
        <4>2. i = id /\ (s = "body" \/ GHeads(f, i)) BY <1>0, <1>5, <4>1 DEF GStageStep, GEnds, GHeads
        <4>3. CASE GHeads(f, i)
          <5>1. k \in 1..k BY <1>1, <3>2
          <5> QED BY <1>1, <3>2, <4>3, <5>1
        <4>4. CASE s = "body"
          <5>1. gconn.streams[i].done \/ \E j \in 1..Len(ginbox) : GHeads(ginbox[j], i)
            BY <1>2, <1>3, <4>2, <4>4 DEF GGood, GEndsInv
          <5>2. \A j \in 1..Len(ginbox) : j \in 1..k BY <1>1, <3>2
          <5> QED BY <1>1, <1>2, <5>1, <5>2
        <4> QED BY <4>2, <4>3, <4>4
      <3> QED BY <1>1, <3>1, <3>2
    <2>3. ASSUME NEW i \in GOpen(gconn') \cap DOMAIN gpeer', gpeer'[i] = "body"
          PROVE  gconn'.streams[i].done \/ \E j \in 1..Len(ginbox') : GHeads(ginbox'[j], i)
      <3>1. CASE i = id
        <4>1. s = "body" \/ GHeads(f, i) BY <1>0, <1>4, <1>5, <2>3, <3>1 DEF GStageStep, GHeads
        <4>2. CASE GHeads(f, i) BY <1>1, <4>2
        <4>3. CASE s = "body"
          <5>1. gconn.streams[i].done \/ \E j \in 1..Len(ginbox) : GHeads(ginbox[j], i)
            BY <1>2, <1>3, <3>1, <4>3 DEF GGood, GEndsInv
          <5> QED BY <1>1, <1>2, <5>1
        <4> QED BY <4>1, <4>2, <4>3
      <3>2. CASE i # id
        <4>1. gconn.streams[i].done \/ \E j \in 1..Len(ginbox) : GHeads(ginbox[j], i)
          BY <1>2, <1>4, <2>3, <3>2 DEF GGood, GEndsInv
        <4> QED BY <1>1, <1>2, <4>1
      <3> QED BY <3>1, <3>2
    <2> QED BY <2>1, <2>2, <2>3 DEF GEndsInv
  <1>13. GWholeInv'
    <2> SUFFICES ASSUME NEW i \in GOpen(gconn'), gconn'.streams[i].req \in gwhole'
                 PROVE  /\ i \in DOMAIN gpeer' /\ gpeer'[i] = "done"
                        /\ \A k \in 1..Len(ginbox') : GEnds(ginbox'[k], i) =>
                              /\ k < Len(ginbox') \/ ~gcut'
                              /\ \A j \in 1..k : ginbox'[j].type # "GOAWAY"
      BY DEF GWholeInv
    <2>0. i \in GOpen(gconn) BY <1>2
    <2>1. CASE gconn.streams[i].req \in gwhole
      <3>1. /\ i \in DOMAIN gpeer /\ gpeer[i] = "done"
            /\ \A k \in 1..Len(ginbox) : GEnds(ginbox[k], i) => \A j \in 1..k : ginbox[j].type # "GOAWAY"
        BY <2>0, <2>1 DEF GGood, GWholeInv
      <3>2. i # id BY <1>3, <1>5, <3>1
      <3>3. gpeer'[i] = "done" BY <1>4, <3>1, <3>2
      <3>4. ASSUME NEW k \in 1..Len(ginbox'), GEnds(ginbox'[k], i)
            PROVE  k < Len(ginbox') /\ \A j \in 1..k : ginbox'[j].type # "GOAWAY"
        <4>1. k # Len(ginbox) + 1 BY <1>0, <1>1, <3>2, <3>4 DEF GEnds
        <4>2. k \in 1..Len(ginbox) /\ k < Len(ginbox') BY <1>1, <4>1
        <4>3. \A j \in 1..k : j \in 1..Len(ginbox) BY <1>1, <4>2
        <4> QED BY <1>1, <3>1, <3>4, <4>2, <4>3
      <3> QED BY <1>4, <3>1, <3>3, <3>4
    <2>2. CASE gconn.streams[i].req \notin gwhole
      <3>1. z = "done" /\ ~gcut' /\ ~GToldToGo /\ id \in GOpen(gconn) /\ gconn.streams[i].req = gconn.streams[id].req
        BY <1>0, <1>2, <2>2
      <3>2. i = id BY <2>0, <3>1 DEF GGood, GCallsInv
      <3>3. \A k \in 1..Len(ginbox) : ginbox[k].type # "GOAWAY" BY <3>1 DEF GToldToGo
      <3>4. f.type # "GOAWAY" BY <1>5 DEF GStageStep
      <3>5. \A k \in 1..Len(ginbox') : ginbox'[k].type # "GOAWAY" BY <1>1, <3>3, <3>4
      <3>6. \A k \in 1..Len(ginbox') : \A j \in 1..k : j \in 1..Len(ginbox') BY <1>1
      <3> QED BY <1>4, <3>1, <3>2, <3>5, <3>6
    <2> QED BY <2>1, <2>2
  <1> QED BY <1>8, <1>9, <1>10, <1>11, <1>12, <1>13 DEF GGood

\* SETTINGS, WINDOW_UPDATE and GOAWAY of a peer that keeps to the protocol.
LEMMA GPeerManagesKeeps ==
  ASSUME GGood, NEW f \in GFrameSet, GSends(f), gpeer' = gpeer, gwhole' = gwhole, ~GInBlock,
         \/ f.type = "SETTINGS" /\ f.n \in GWindows
         \/ f.type = "WINDOW_UPDATE" /\ f.n # 0 /\ f.n <= GMost
         \/ f.type = "GOAWAY"
  PROVE  GGood'
  <1>1. /\ Len(ginbox) \in Nat /\ Len(ginbox') = Len(ginbox) + 1
        /\ ginbox'[Len(ginbox) + 1] = f
        /\ \A k \in 1..Len(ginbox) : k \in 1..Len(ginbox') /\ ginbox'[k] = ginbox[k]
        /\ \A k \in 1..Len(ginbox') : k \in 1..Len(ginbox) \/ k = Len(ginbox) + 1
    BY GInboxIs
  <1>2. gconn' = gconn /\ gresult' = gresult BY DEF GSends
  <1>3. gpeer' \in [DOMAIN gpeer -> GStages] /\ gwhole' \subseteq GRequests BY DEF GGood, GTypeOK
  <1>4. GTypeOK' /\ GIdsInv' /\ GPiecesInv' /\ GDriveInv' /\ GCreditInv' /\ GDeadInv' BY <1>3, GSendsKeeps
  <1>5. GCallsInv' BY <1>2 DEF GGood, GCallsInv
  <1>6. ~GBegins(f) /\ \A i : ~GHeads(f, i) /\ ~GEnds(f, i) BY DEF GBegins, GHeads, GEnds
  <1>7. GFramesInv'
    <2>1. ASSUME NEW k \in 1..Len(ginbox') PROVE GLegal(ginbox[k])'
      <3>1. CASE k \in 1..Len(ginbox)
        <4>1. GLegal(ginbox[k]) /\ ginbox'[k] = ginbox[k] BY <1>1, <3>1 DEF GGood, GFramesInv
        <4> QED BY <4>1 DEF GLegal
      <3>2. CASE k = Len(ginbox) + 1
        <4>1. ginbox'[k] = f BY <1>1, <3>2
        <4> QED BY <4>1 DEF GLegal
      <3> QED BY <1>1, <3>1, <3>2
    <2> QED BY <2>1 DEF GFramesInv
  <1>8. GBlocksInv'
    <2>0. \A i \in DOMAIN gpeer : gpeer[i] \notin GBlocks BY DEF GInBlock
    <2>1. ASSUME NEW k \in 1..Len(ginbox'), GBegins(ginbox'[k])
          PROVE  k + 1 \in 1..Len(ginbox') /\ GContinues(ginbox'[k + 1], ginbox'[k].id)
      <3>1. k \in 1..Len(ginbox) BY <1>1, <1>6, <2>1
      <3>2. GBegins(ginbox[k]) /\ ginbox'[k] = ginbox[k] /\ ginbox[k].id \in DOMAIN gpeer
        BY <1>1, <2>1, <3>1 DEF GGood, GFramesInv, GLegal, GBegins
      <3>3. k + 1 \in 1..Len(ginbox) /\ GContinues(ginbox[k + 1], ginbox[k].id)
        BY <2>0, <3>1, <3>2 DEF GGood, GBlocksInv
      <3> QED BY <1>1, <3>2, <3>3
    <2>2. ASSUME gconn'.cont # 0 PROVE ginbox' # <<>> /\ GContinues(ginbox'[1], gconn'.cont)
      <3>1. ginbox # <<>> /\ GContinues(ginbox[1], gconn.cont) BY <1>2, <2>0, <2>2 DEF GGood, GBlocksInv
      <3>2. 1 \in 1..Len(ginbox) BY <3>1 DEF GGood, GTypeOK
      <3>3. ginbox' # <<>> BY <1>1
      <3> QED BY <1>1, <1>2, <3>1, <3>2, <3>3
    <2> QED BY <2>0, <2>1, <2>2 DEF GBlocksInv
  <1>9. GEndsInv'
    <2>1. ASSUME NEW i \in GOpen(gconn) \cap DOMAIN gpeer, gpeer[i] = "done"
          PROVE  \E k \in 1..Len(ginbox') : GEnds(ginbox'[k], i)
      <3>1. PICK k \in 1..Len(ginbox) : GEnds(ginbox[k], i) BY <2>1 DEF GGood, GEndsInv
      <3> QED BY <1>1, <3>1
    <2>2. ASSUME NEW i \in GOpen(gconn), NEW k \in 1..Len(ginbox'), GEnds(ginbox'[k], i)
          PROVE  gconn.streams[i].done \/ \E j \in 1..k : GHeads(ginbox'[j], i)
      <3>1. k \in 1..Len(ginbox) /\ GEnds(ginbox[k], i) BY <1>1, <1>6, <2>2
      <3>2. gconn.streams[i].done \/ \E j \in 1..k : GHeads(ginbox[j], i) BY <3>1 DEF GGood, GEndsInv
      <3>3. \A j \in 1..k : j \in 1..Len(ginbox) BY <1>1, <3>1
      <3> QED BY <1>1, <3>2, <3>3
    <2>3. ASSUME NEW i \in GOpen(gconn) \cap DOMAIN gpeer, gpeer[i] = "body"
          PROVE  gconn.streams[i].done \/ \E j \in 1..Len(ginbox') : GHeads(ginbox'[j], i)
      <3>1. gconn.streams[i].done \/ \E j \in 1..Len(ginbox) : GHeads(ginbox[j], i) BY <2>3 DEF GGood, GEndsInv
      <3> QED BY <1>1, <3>1
    <2> QED BY <1>2, <2>1, <2>2, <2>3 DEF GEndsInv
  <1>10. GWholeInv'
    <2> SUFFICES ASSUME NEW i \in GOpen(gconn'), gconn'.streams[i].req \in gwhole'
                 PROVE  /\ i \in DOMAIN gpeer' /\ gpeer'[i] = "done"
                        /\ \A k \in 1..Len(ginbox') : GEnds(ginbox'[k], i) =>
                              /\ k < Len(ginbox') \/ ~gcut'
                              /\ \A j \in 1..k : ginbox'[j].type # "GOAWAY"
      BY DEF GWholeInv
    <2>1. /\ i \in DOMAIN gpeer /\ gpeer[i] = "done"
          /\ \A k \in 1..Len(ginbox) : GEnds(ginbox[k], i) => \A j \in 1..k : ginbox[j].type # "GOAWAY"
      BY <1>2 DEF GGood, GWholeInv
    <2>2. ASSUME NEW k \in 1..Len(ginbox'), GEnds(ginbox'[k], i)
          PROVE  k < Len(ginbox') /\ \A j \in 1..k : ginbox'[j].type # "GOAWAY"
      <3>1. k \in 1..Len(ginbox) /\ GEnds(ginbox[k], i) /\ k < Len(ginbox') BY <1>1, <1>6, <2>2
      <3>2. \A j \in 1..k : j \in 1..Len(ginbox) BY <1>1, <3>1
      <3> QED BY <1>1, <2>1, <3>1, <3>2
    <2> QED BY <2>1, <2>2
  <1> QED BY <1>4, <1>5, <1>7, <1>8, <1>9, <1>10 DEF GGood

\* The second half of a frame: what was sent by then is whole.
LEMMA GPeerResumesKeeps ==
  ASSUME GGood, GPeerResumes
  PROVE  GGood'
  <1>0. /\ gpc = "idle" /\ gconn.up = "open" /\ gcut /\ ~gcut' /\ gconn' = gconn /\ gsend' = gsend /\ gtls' = gtls
        /\ ginbox' = ginbox /\ gpc' = gpc /\ geof' = geof /\ gpeer' = gpeer /\ gsock' = gsock
        /\ gframes' = gframes /\ gresult' = gresult
        /\ gpieces' = [gpieces EXCEPT !.net = gpieces.net + 1]
        /\ gwhole' = gwhole \cup {gconn.streams[i].req : i \in
                        {j \in GOpen(gconn) \cap DOMAIN gpeer : gpeer[j] = "done" /\ ~GToldToGo}}
    BY DEF GPeerResumes, GSpeaks, gdrive
  <1>1. gconn \in GConnSet BY DEF GGood, GTypeOK
  <1>2. \A r \in gwhole' : r \in gwhole \/ \E j \in GOpen(gconn) \cap DOMAIN gpeer :
            gconn.streams[j].req = r /\ gpeer[j] = "done" /\ ~GToldToGo
    BY <1>0
  <1>3. /\ gpieces' \in [net : Nat, plain : Nat, recv : Nat] /\ gpieces'.net = gpieces.net + 1
        /\ gpieces'.plain = gpieces.plain /\ gpieces'.recv = gpieces.recv
    <2>1. gpieces \in [net : Nat, plain : Nat, recv : Nat] BY DEF GGood, GTypeOK
    <2>2. PICK m \in Nat : m = gpieces.net + 1 BY <2>1
    <2>3. gpieces' = [gpieces EXCEPT !.net = m] BY <1>0, <2>2
    <2> QED BY <2>1, <2>2, <2>3
  <1>4. GTypeOK'
    <2>0. gwhole \subseteq GRequests /\ \A j \in GOpen(gconn) : gconn.streams[j].req \in GRequests
      BY <1>1, GConnIs DEF GGood, GTypeOK
    <2>1. gwhole' \subseteq GRequests BY <1>2, <2>0
    <2> QED BY <1>0, <1>3, <2>1 DEF GGood, GTypeOK
  <1>5. GPiecesInv'
    <2>1. gpieces \in [net : Nat, plain : Nat, recv : Nat] /\ Len(ginbox) \in Nat BY DEF GGood, GTypeOK
    <2>2. gpieces.net + gpieces.plain + gpieces.recv = 2 * Len(ginbox) - 1 BY <1>0 DEF GGood, GPiecesInv
    <2>3. gpieces'.net + gpieces'.plain + gpieces'.recv = 2 * Len(ginbox') - 0
      <3>1. PICK a \in Nat, b \in Nat, c \in Nat, m \in Nat :
               a = gpieces.net /\ b = gpieces.plain /\ c = gpieces.recv /\ m = Len(ginbox)
        BY <2>1
      <3>2. a + b + c = 2 * m - 1 BY <2>2, <3>1
      <3>3. a + 1 + b + c = 2 * m - 0 BY <3>2
      <3> QED BY <1>0, <1>3, <3>1, <3>3
    <2>4. gpieces'.net + gpieces'.plain + gpieces'.recv = 2 * Len(ginbox') - (IF gcut' THEN 1 ELSE 0)
      BY <1>0, <2>3
    <2> QED BY <1>0, <2>4 DEF GPiecesInv
  <1>6. GIdsInv' /\ GDriveInv' BY <1>0 DEF GGood, GIdsInv, GDriveInv
  <1>7. GCallsInv'
    <2>1. \A r \in gwhole' : gresult[r] \in {"waiting", "ok"} BY <1>2 DEF GGood, GCallsInv
    <2> QED BY <1>0, <2>1 DEF GGood, GCallsInv
  <1>8. GFramesInv' BY <1>0 DEF GGood, GFramesInv, GLegal
  <1>9. GCreditInv' BY <1>0 DEF GGood, GCreditInv, GHandled
  <1>10. GBlocksInv' BY <1>0 DEF GGood, GBlocksInv
  <1>11. GEndsInv' BY <1>0 DEF GGood, GEndsInv
  <1>12. GWholeInv'
    <2> SUFFICES ASSUME NEW i \in GOpen(gconn), gconn.streams[i].req \in gwhole'
                 PROVE  /\ i \in DOMAIN gpeer /\ gpeer[i] = "done"
                        /\ \A k \in 1..Len(ginbox) : GEnds(ginbox[k], i) =>
                              \A j \in 1..k : ginbox[j].type # "GOAWAY"
      BY <1>0 DEF GWholeInv
    <2>1. CASE gconn.streams[i].req \in gwhole BY <2>1 DEF GGood, GWholeInv
    <2>2. CASE gconn.streams[i].req \notin gwhole
      <3>1. PICK j \in GOpen(gconn) \cap DOMAIN gpeer :
               gconn.streams[j].req = gconn.streams[i].req /\ gpeer[j] = "done" /\ ~GToldToGo
        BY <1>2, <2>2
      <3>2. i = j BY <3>1 DEF GGood, GCallsInv
      <3>3. \A k \in 1..Len(ginbox) : ginbox[k].type # "GOAWAY" BY <3>1 DEF GToldToGo
      <3>4. \A k \in 1..Len(ginbox) : \A n \in 1..k : n \in 1..Len(ginbox)
        <4>1. Len(ginbox) \in Nat BY DEF GGood, GTypeOK
        <4> QED BY <4>1
      <3> QED BY <3>1, <3>2, <3>3, <3>4
    <2> QED BY <2>1, <2>2
  <1>13. GDeadInv' BY <1>0 DEF GDeadInv
  <1> QED BY <1>4, <1>5, <1>6, <1>7, <1>8, <1>9, <1>10, <1>11, <1>12, <1>13 DEF GGood

\* A peer that closes in order keeps the invariant.
LEMMA GPeerEndsKeeps ==
  ASSUME GGood, GPeerEnds, ~gfault'
  PROVE  GGood'
  <1>0. /\ gpc = "idle" /\ gconn.up = "open" /\ gsock' = "closed" /\ gconn' = gconn /\ gsend' = gsend /\ gtls' = gtls
        /\ ginbox' = ginbox /\ gcut' = gcut /\ gpieces' = gpieces /\ gpc' = gpc /\ geof' = geof /\ gpeer' = gpeer
        /\ gframes' = gframes /\ gresult' = gresult /\ gwhole' = gwhole
    BY DEF GPeerEnds, GSpeaks, gdrive, gbuffers
  <1>1. GTypeOK' BY <1>0 DEF GGood, GTypeOK
  <1>2. GIdsInv' /\ GPiecesInv' /\ GDriveInv' BY <1>0 DEF GGood, GIdsInv, GPiecesInv, GDriveInv
  <1>3. GCallsInv' BY <1>0 DEF GGood, GCallsInv
  <1>4. GFramesInv' BY <1>0 DEF GGood, GFramesInv, GLegal
  <1>5. GCreditInv' BY <1>0 DEF GGood, GCreditInv, GHandled
  <1>6. GBlocksInv' BY <1>0 DEF GGood, GBlocksInv
  <1>7. GEndsInv' BY <1>0 DEF GGood, GEndsInv
  <1>8. GWholeInv' BY <1>0 DEF GGood, GWholeInv
  <1>9. GDeadInv' BY <1>0 DEF GDeadInv
  <1> QED BY <1>1, <1>2, <1>3, <1>4, <1>5, <1>6, <1>7, <1>8, <1>9 DEF GGood

\* The peer's SETTINGS, GOAWAY and WINDOW_UPDATE keep the invariant.
LEMMA GManagedIs ==
  ASSUME GGood, GPeerManages, ~gfault'
  PROVE  GGood'
  <1>0. gpeer' = gpeer /\ gwhole' = gwhole BY DEF GPeerManages
  <1>1. CASE \E w \in GWindows : GPut("SETTINGS", 0, w, FALSE) /\ gfault' = (gfault \/ GInBlock)
    <2>1. PICK w \in GWindows : GPut("SETTINGS", 0, w, FALSE) BY <1>1
    <2>2. ~GInBlock BY <1>1
    <2>3. w \in Nat BY TlsClientAssumption
    <2>4. PICK f \in GFrameSet : f.type = "SETTINGS" /\ f.id = 0 /\ f.n = w /\ ~f.last /\ GSends(f) /\ ~gfault
      <3>1. "SETTINGS" \in GKinds /\ 0 \in Nat BY DEF GKinds
      <3> QED BY <2>1, <2>3, <3>1, GPutsMore
    <2> QED BY <1>0, <2>2, <2>4, GPeerManagesKeeps
  <1>2. CASE ~GInBlock /\ GPut("GOAWAY", 0, 0, FALSE)
    <2>1. PICK f \in GFrameSet : f.type = "GOAWAY" /\ GSends(f) BY <1>2, GPutsMore DEF GKinds
    <2> QED BY <1>0, <1>2, <2>1, GPeerManagesKeeps
  <1>3. CASE \E n \in GIncrements, id \in {0} \cup DOMAIN gpeer :
                /\ ~GInBlock /\ GPut("WINDOW_UPDATE", id, n, FALSE)
                /\ gfault' = (gfault \/ n \in {0, GMaxWindow})
    <2>1. PICK n \in GIncrements, id \in {0} \cup DOMAIN gpeer :
             /\ ~GInBlock /\ GPut("WINDOW_UPDATE", id, n, FALSE)
             /\ gfault' = (gfault \/ n \in {0, GMaxWindow})
      BY <1>3
    <2>2. n \in Nat /\ n # 0 /\ n # GMaxWindow BY <2>1, TlsClientAssumption
    <2>3. n <= GMost BY <2>2, GMostIs
    <2>4. id \in Nat BY DEF GGood, GTypeOK
    <2>5. PICK f \in GFrameSet : f.type = "WINDOW_UPDATE" /\ f.id = id /\ f.n = n /\ ~f.last /\ GSends(f) /\ ~gfault
      <3>1. "WINDOW_UPDATE" \in GKinds BY DEF GKinds
      <3>2. GPut("WINDOW_UPDATE", id, n, FALSE) BY <2>1
      <3>3. n \in Nat BY <2>2
      <3> QED BY <2>4, <3>1, <3>2, <3>3, GPutsMore
    <2> QED BY <1>0, <2>1, <2>2, <2>3, <2>5, GPeerManagesKeeps
  <1> QED BY <1>1, <1>2, <1>3 DEF GPeerManages

\* The invariant holds at the start.
LEMMA GInitGood == GInit => GGood
  <1> SUFFICES ASSUME GInit PROVE GGood OBVIOUS
  <1>0. /\ gconn = [GConnUp EXCEPT !.up = "none"] /\ gsend = <<>> /\ gtls = <<>> /\ ginbox = <<>> /\ ~gcut
        /\ gpieces = GNoPieces /\ gpc = "idle" /\ ~geof /\ gpeer = GNoStreams /\ gsock = "open" /\ gframes = 0
        /\ gresult = [r \in GRequests |-> "new"] /\ gwhole = {}
    BY DEF GInit
  <1>1. /\ gconn \in GConnSet /\ gconn.up = "none" /\ gconn.next = 1 /\ gconn.cont = 0
        /\ gconn.window = GWindow /\ gconn.initial = GWindow /\ gconn.streams = GNoStreams
    BY <1>0, GConnUpIs DEF GConnSet
  <1>2. GNoStreams \in [{} -> GStages] /\ DOMAIN GNoStreams = {} BY DEF GNoStreams
  <1>3. GOpen(gconn) = {} BY <1>1, <1>2 DEF GOpen
  <1>4. DOMAIN gpeer = {} /\ gpeer \in UNION {[S -> GStages] : S \in SUBSET (Nat \ {0})} BY <1>0, <1>2
  <1>5. <<>> \in Seq(Nat) /\ Len(<<>>) = 0 /\ <<>> \in Seq(GFrameSet) OBVIOUS
  <1>6. GTypeOK
    <2>1. gpieces \in [net : Nat, plain : Nat, recv : Nat] BY <1>0 DEF GNoPieces
    <2>2. 0 <= GTlsLimit /\ 0 \in 0..GMaxFrames BY TlsClientAssumption
    <2> QED BY <1>0, <1>1, <1>4, <1>5, <2>1, <2>2 DEF GTypeOK
  <1>7. GIdsInv BY <1>0, <1>1, <1>3, <1>4, <1>5 DEF GIdsInv
  <1>8. GPiecesInv BY <1>0, <1>5 DEF GPiecesInv, GNoPieces
  <1>9. GDriveInv BY <1>0, <1>1, <1>3 DEF GDriveInv
  <1>10. GCallsInv BY <1>0, <1>3 DEF GCallsInv
  <1>11. GFramesInv /\ GBlocksInv BY <1>0, <1>1, <1>4, <1>5 DEF GFramesInv, GBlocksInv
  <1>12. GCreditInv
    <2>1. GHandled = 1 /\ GMost * 1 = GMost BY <1>0, <1>5, GMostIs DEF GHandled
    <2>2. GWindow <= GWindow + GMost BY GMostIs, TlsClientAssumption
    <2> QED BY <1>0, <1>1, <1>3, <1>5, <2>1, <2>2 DEF GCreditInv
  <1>13. GEndsInv /\ GWholeInv BY <1>3 DEF GEndsInv, GWholeInv
  <1>14. GDeadInv BY <1>1 DEF GDeadInv
  <1> QED BY <1>6, <1>7, <1>8, <1>9, <1>10, <1>11, <1>12, <1>13, <1>14 DEF GGood

\* Every step of drive keeps the invariant.
LEMMA GDriveKeeps ==
  ASSUME GGood, GDrive
  PROVE  GGood'
  <1>1. CASE \E n \in 0..GTlsLimit : GWriteTls(n) BY <1>1, GWriteTlsKeeps
  <1>2. CASE GWriteTlsFails BY <1>2 DEF GWriteTlsFails, GGood, GDriveInv
  <1>3. CASE GExpectedContinuation BY <1>3, GContinuationComes
  <1> QED BY <1>1, <1>2, <1>3, GWriteFramesKeep, GDrainPlainKeeps, GReadTlsKeeps, GDriveEndsKeeps, GSettingsKeep,
             GPumpAllKeeps, GHeadersKeep, GContinuationKeeps, GDataKeeps, GRstStreamKeeps, GGoAwayKeeps,
             GConnUpdateKeeps, GStreamUpdateKeeps DEF GDrive

\* A peer that has broken the protocol has.
LEMMA GFaultStays ==
  ASSUME [GNext]_gvars, gfault
  PROVE  gfault'
  <1>1. CASE UNCHANGED gvars BY <1>1 DEF gvars, gremote
  <1>2. CASE \E r \in GRequests : GDispatch(r) \/ GConnectFails(r) BY <1>2 DEF GDispatch, GConnectFails, gremote
  <1>3. CASE \E r \in GRequests, s \in Seq(GFrameSet) : GConnect(r, s) BY <1>3 DEF GConnect
  <1>4. CASE GDrive
    <2>1. \A c, out : (GTakesOnly(c, out) \/ GTakesAndPumps(c, out)) => gfault' = gfault
      BY DEF GTakesOnly, GTakesAndPumps, GTakes, gremote
    <2>2. GMarkDead => gfault' = gfault BY DEF GMarkDead, gremote
    <2>3. \A c, id : GComplete(c, id) => gfault' = gfault BY <2>1 DEF GComplete
    <2>4. GWriteFrames \/ GWriteTlsFails \/ GDriveEnds \/ GExpectedContinuation \/ GGoAway => gfault' = gfault
      BY <2>2 DEF GWriteFrames, GWriteTlsFails, GDriveEnds, GExpectedContinuation, GGoAway, gremote
    <2>5. (\E n \in 0..GTlsLimit : GWriteTls(n)) \/ GDrainPlain \/ GReadTls \/ GPumpAll => gfault' = gfault
      BY DEF GWriteTls, GDrainPlain, GReadTls, GPumpAll, gremote
    <2>6. GSettings \/ GContinuation \/ GRstStream => gfault' = gfault
      BY <2>1 DEF GSettings, GContinuation, GRstStream
    <2>7. GHeaders => gfault' = gfault BY <2>1, <2>3 DEF GHeaders
    <2>8. GData => gfault' = gfault BY <2>1, <2>3 DEF GData
    <2>9. GConnUpdate => gfault' = gfault BY <2>1, <2>2 DEF GConnUpdate
    <2>10. GStreamUpdate => gfault' = gfault BY <2>1 DEF GStreamUpdate
    <2>11. gfault' = gfault BY <1>4, <2>4, <2>5, <2>6, <2>7, <2>8, <2>9, <2>10 DEF GDrive
    <2> QED BY <2>11
  <1>5. CASE \E id \in DOMAIN gpeer : GPeerAnswers(id) BY <1>5 DEF GPeerAnswers, GPut
  <1>6. CASE GPeerManages BY <1>6 DEF GPeerManages, GPut
  <1>7. CASE GPeerResumes \/ GPeerEnds BY <1>7 DEF GPeerResumes, GPeerEnds
  <1>8. ASSUME NEW r \in GRequests, NEW w \in GWindows,
               GConnect(r, <<[type |-> "SETTINGS", id |-> 0, n |-> w, last |-> FALSE]>>)
        PROVE  gfault'
    BY <1>8 DEF GConnect
  <1>9. ASSUME NEW r \in GRequests, GConnect(r, <<>>) PROVE gfault' BY <1>9 DEF GConnect
  <1> QED BY <1>1, <1>2, <1>4, <1>5, <1>6, <1>7, <1>8, <1>9 DEF GNext

\* Every step keeps the invariant as long as the peer keeps to the protocol.
LEMMA GStepKeeps ==
  ASSUME GInv, [GNext]_gvars
  PROVE  GInv'
  <1> SUFFICES ASSUME ~gfault' PROVE GGood' BY DEF GInv
  <1>0. GGood BY GFaultStays DEF GInv
  <1>1. CASE UNCHANGED gvars
    <2>1. /\ gconn' = gconn /\ gsend' = gsend /\ gtls' = gtls /\ ginbox' = ginbox /\ gcut' = gcut
          /\ gpieces' = gpieces /\ gpc' = gpc /\ geof' = geof /\ gpeer' = gpeer /\ gsock' = gsock
          /\ gframes' = gframes /\ gwhole' = gwhole /\ gresult' = gresult
      BY <1>1 DEF gvars, gbuffers, gremote, gdrive
    <2>2. gconn \in GConnSet BY <1>0 DEF GGood, GTypeOK
    <2>3. /\ gsend' \in Seq(Nat) /\ gtls' \in Seq(Nat) /\ Len(gtls') <= GTlsLimit
          /\ \A k \in 1..Len(gsend') : gsend'[k] < gconn.next
          /\ \A k \in 1..Len(gtls') : gtls'[k] < gconn.next
          /\ gpieces' \in [net : Nat, plain : Nat, recv : Nat]
      BY <1>0, <2>1 DEF GGood, GTypeOK, GIdsInv
    <2>4. GPiecesInv' BY <1>0, <2>1 DEF GGood, GPiecesInv
    <2>5. /\ gpc \in {"idle", "flush", "drain", "read", "parse", "pump"}
          /\ gpc # "idle" => gconn.up = "open"
          /\ geof => gpc \in {"parse", "pump"} /\ gsock # "open"
      BY <1>0 DEF GGood, GDriveInv
    <2> QED BY <1>0, <2>1, <2>2, <2>3, <2>4, <2>5, GLikeSelf, GQuiet
  <1>2. ASSUME NEW r \in GRequests, GDispatch(r) \/ GConnectFails(r) PROVE GGood'
    BY <1>0, <1>2, GDispatchKeeps, GConnectFailsKeeps
  <1>3. ASSUME NEW r \in GRequests, GConnect(r, <<>>) PROVE GGood'
    <2>0. PICK s : s = <<>> OBVIOUS
    <2>1. s \in Seq(GFrameSet) /\ Len(s) = 0 BY <2>0
    <2>2. GConnect(r, s) BY <1>3, <2>0
    <2>3. Len(s) <= 1 /\ \A k \in 1..Len(s) : s[k].type = "SETTINGS" /\ s[k].n \in GWindows BY <2>1
    <2> QED BY <1>0, <2>1, <2>2, <2>3, GConnectKeeps
  <1>4. ASSUME NEW r \in GRequests, NEW w \in GWindows,
               GConnect(r, <<[type |-> "SETTINGS", id |-> 0, n |-> w, last |-> FALSE]>>)
        PROVE  GGood'
    <2>1. PICK f : f = [type |-> "SETTINGS", id |-> 0, n |-> w, last |-> FALSE] OBVIOUS
    <2>2. w \in Nat BY TlsClientAssumption
    <2>3. f \in GFrameSet /\ f.type = "SETTINGS" /\ f.n = w BY <2>1, <2>2 DEF GFrameSet, GKinds
    <2>4. PICK s : s = <<f>> OBVIOUS
    <2>5. s \in Seq(GFrameSet) /\ Len(s) = 1 /\ s[1] = f BY <2>3, <2>4
    <2>6. GConnect(r, s) BY <1>4, <2>1, <2>4
    <2>7. \A k \in 1..Len(s) : s[k].type = "SETTINGS" /\ s[k].n \in GWindows BY <2>3, <2>5
    <2>8. Len(s) <= 1 BY <2>5
    <2> QED BY <1>0, <2>5, <2>6, <2>7, <2>8, GConnectKeeps
  <1>5. CASE GDrive BY <1>0, <1>5, GDriveKeeps
  <1>6. ASSUME NEW id \in DOMAIN gpeer, GPeerAnswers(id) PROVE GGood'
    <2>1. id \in Nat BY <1>0 DEF GGood, GTypeOK
    <2>2. PICK f, z : GAnswers(id, f, z) BY <1>6, <2>1, GAnswerIs
    <2> QED BY <1>0, <2>2, GPeerAnswersKeeps
  <1>7. CASE GPeerManages BY <1>0, <1>7, GManagedIs
  <1>8. CASE GPeerResumes BY <1>0, <1>8, GPeerResumesKeeps
  <1>9. CASE GPeerEnds BY <1>0, <1>9, GPeerEndsKeeps
  <1> QED BY <1>1, <1>2, <1>3, <1>4, <1>5, <1>6, <1>7, <1>8, <1>9 DEF GNext

\* Over TLS too a failure is the peer's doing: while it keeps to the protocol, a request
\* whose whole response it sent never fails, and the connection dies only when the peer
\* closed it or said GOAWAY (drive, handle_frame and mark_dead of h2s_client.rs).
THEOREM TlsFailureIsThePeers == GSpec => []GFailureIsThePeers
  <1>1. GInit => GInv BY GInitGood DEF GInv
  <1>2. GInv /\ [GNext]_gvars => GInv' BY GStepKeeps
  <1>3. GInv => GFailureIsThePeers
    <2> SUFFICES ASSUME GGood PROVE /\ \A r \in gwhole : gresult[r] \notin {"error", "dropped"}
                                    /\ gconn.up = "dead" => gsock # "open" \/ GToldToGo
      BY DEF GInv, GFailureIsThePeers
    <2> QED BY DEF GGood, GCallsInv, GDeadInv
  <1> QED BY <1>1, <1>2, <1>3, PTL DEF GSpec
=============================================================================
