----------------------------- MODULE MCPlatform -----------------------------
(***************************************************************************)
(* What stands beside the site: accounts, the monitor, the access log.     *)
(* The components share no state here, so each behaviour is of one of them, *)
(* `focus`, and the others stay as they begin.                             *)
(***************************************************************************)
EXTENDS Auth, FleetMonitor, MonitorHistory, AnalyticsLog, TrafficReport, TLC

VARIABLE focus

allvars == <<focus, avars, fvars, hvars, lvars, tvars>>

(* Auth *)

CONSTANTS w1, w2, u1, u2

MCAuthSymmetry == Permutations({w1, w2}) \cup Permutations({u1, u2})

\* The key files, the rows beside the users, and the throttle are explored one at a time.
MCKeysMove == afiles.priv # "k1" \/ afiles.pub # "k1" \/ akeys.pub # "k1" \/ areload # NoKey
MCRows == \/ amember # {} \/ aapi # {} \/ ahist.born \cap GroupIds # {}
          \/ \E c \in AClis : acli[c].pc \in {"groupadd", "roles", "memberadd", "memberdel", "token"}
          \/ \E u \in UserIds : auser[u] # NoRow /\ auser[u].roles # {}
MCFails == ahist.fails # <<>>
MCBusy == {w \in AWorkers : aworker[w] # AIdle}
MCAuthScope ==
    /\ ~(MCKeysMove /\ MCRows) /\ ~(MCRows /\ MCFails) /\ ~(MCKeysMove /\ MCFails)
    /\ MCKeysMove \/ MCRows => anow = 0 /\ Cardinality(akept) <= 1 /\ Cardinality(MCBusy) <= 1
    /\ MCKeysMove => Cardinality(ahist.born) <= 1
    /\ MCFails => ahist.born = {} \/ akept = {}
    /\ anow > 0 => Cardinality(akept) <= 2

(* FleetMonitor *)

FinePerf == [node |-> "self", version |-> "v1", hash |-> "h1", certs |-> {2}, unreadable |-> FALSE,
             https |-> TRUE, pools |-> "live", errors |-> FALSE, host |-> "fine", reopen |-> "fine"]
MCPerfs == {FinePerf, [FinePerf EXCEPT !.certs = {3}],
            [FinePerf EXCEPT !.unreadable = TRUE]}
MCSlow == (3 + HeaderChecks) * Timeout
MCObserved(r) ==
  \/ r.health = "error"
  \/ r.health = "ok" /\ r.perf # NoPerf /\ r.traffic = "fine" /\ r.headers = "pass" /\ r.spent = 0
  \/ r.health = "ok" /\ r.perf = NoPerf /\ r.traffic = "none" /\ r.headers = "pass" /\ r.spent = MCSlow
  \/ r.health = "ok" /\ r.perf = FinePerf /\ r.traffic = "none" /\ r.headers = "fault" /\ r.spent = MCSlow
MCFile(interval, maxAge, wg) == [parses |-> TRUE, interval |-> interval, maxAge |-> maxAge, wg |-> wg]
MCFiles == {MCFile(2, 6, TRUE), MCFile(2, 3, TRUE), MCFile(1, 5, FALSE)}

(* TrafficReport *)

MCRec(ip, ua, p, st) == [request |-> TRUE, ip |-> ip, ua |-> ua, path |-> p, status |-> st]
MCTRecords == {MCRec("a", "bot", "page", 200), MCRec("b", "bot", "page", 200),
               MCRec("b", "bot", "env", 404), MCRec("b", "bot2", "git", 404),
               MCRec("a", "mozilla", "sql", 200), MCRec("a", "bot2", "page", 404),
               [MCRec("a", "bot", "health", 200) EXCEPT !.request = FALSE]}

(* One component at a time. *)

MCInit ==
    /\ focus \in {"auth", "fleet", "history", "log", "traffic"}
    /\ AInit
    /\ focus # "auth" => afiles.priv = CHOOSE k \in Keys : TRUE
    /\ FInit
    /\ focus # "fleet" => ffile = CHOOSE f \in Files : FromConfig(f)
    /\ HInit
    /\ LInit
    /\ TInit

(* The component in focus takes a step, every other one rests. *)
MCNext ==
    /\ UNCHANGED focus
    /\ IF focus = "auth" THEN ANext ELSE UNCHANGED avars
    /\ IF focus = "fleet" THEN FNext ELSE UNCHANGED fvars
    /\ IF focus = "history" THEN HNext ELSE UNCHANGED hvars
    /\ IF focus = "log" THEN LNext ELSE UNCHANGED lvars
    /\ IF focus = "traffic" THEN TNext ELSE UNCHANGED tvars

MCSpec == MCInit /\ [][MCNext]_allvars
=============================================================================
