--------------------------- MODULE TrafficReport ---------------------------
(***************************************************************************)
(* What a node says of its own traffic (m6-core telemetry.rs and           *)
(* monitoring.rs): the analytics records of the window, counted per        *)
(* address and per user agent, judged, and reported at /traffic.           *)
(*                                                                         *)
(* A user agent is a name, in TBots when it claims to be a crawler; a path *)
(* is a name, in TProbes or TInjections when a marker matches it.          *)
(***************************************************************************)
EXTENDS Integers, Sequences, FiniteSets, FiniteSetsExt, SequencesExt

CONSTANTS
    TRecords,                       \* records: [request, ip, ua, path, status]
    TBots,                          \* claims_to_be_bot
    TProbes, TInjections,           \* looks_like_probe, looks_like_injection
    UA_ROTATION_THRESHOLD, UA_ROTATION_MIN_REQUESTS,
    PROBE_PATHS_FOR_CONCERN, REFUSED_REQUESTS_FOR_CONCERN,
    USER_AGENTS_KEPT,
    TMaxRecords                     \* bound: records in the log

ASSUME TrafficAssumption ==
    /\ PROBE_PATHS_FOR_CONCERN \in Nat \ {0}
    /\ USER_AGENTS_KEPT \in Nat /\ TMaxRecords \in Nat

VARIABLES
    tlog,      \* the analytics records, oldest first
    tsince,    \* where the window starts: records before it are not read
    treport    \* the last report, and the records it was built from

tvars == <<tlog, tsince, treport>>

-----------------------------------------------------------------------------
(* TrafficSummary::from_records                                            *)

\* parse_analytics and is_request: monitoring polls are not traffic.  A request
\* keeps its place in the window, which is all its order is used for.
RequestsOf(records) == Restrict(records, {i \in DOMAIN records : records[i].request})

AddrsIn(reqs) == {reqs[i].ip : i \in DOMAIN reqs}

\* The accumulator of one address.
PerIp(reqs, ip) ==
    LET mine == {i \in DOMAIN reqs : reqs[i].ip = ip}
    IN  [n      |-> Cardinality(mine),
         uas    |-> {reqs[i].ua : i \in mine},
         paths  |-> {reqs[i].path : i \in mine},
         errors |-> Cardinality({i \in mine : reqs[i].status >= 400}),
         first  |-> Min(mine),
         last   |-> Max(mine)]

Rotating(a) == Cardinality(a.uas) >= UA_ROTATION_THRESHOLD /\ a.n >= UA_ROTATION_MIN_REQUESTS

\* An address that rotates agents or asks for probe paths is not the crawler
\* it says it is.
Forgers(reqs) ==
    {ip \in AddrsIn(reqs) :
        LET a == PerIp(reqs, ip)
        IN  Rotating(a) \/ a.paths \cap (TProbes \cup TInjections) # {}}

\* Mutant: the agent's requests are counted whole.
SightingOfAll(reqs, ua, forgers) ==
    [ua |-> ua,
     requests |-> Cardinality({i \in DOMAIN reqs : reqs[i].ua = ua}),
     ips |-> {reqs[i].ip : i \in {j \in DOMAIN reqs : reqs[j].ua = ua}} \ forgers,
     paths |-> {reqs[i].path : i \in {j \in DOMAIN reqs : reqs[j].ua = ua}}]

\* One agent's sighting: its requests and addresses without the forgers', its
\* paths with them.
Sighting(reqs, ua, forgers) ==
    LET all == {i \in DOMAIN reqs : reqs[i].ua = ua}
        genuine == {i \in all : reqs[i].ip \notin forgers}
    IN  [ua |-> ua, requests |-> Cardinality(genuine),
         ips |-> {reqs[i].ip : i \in genuine},
         paths |-> {reqs[i].path : i \in all}]

\* A crawler whose every address disqualified itself is not a sighting.
Crawlers(reqs, forgers) ==
    {c \in {Sighting(reqs, ua, forgers) : ua \in TBots} : c.requests > 0}

ForgedRequests(reqs, forgers) ==
    Cardinality({i \in DOMAIN reqs : reqs[i].ua \in TBots /\ reqs[i].ip \in forgers})

\* sample_user_agents: at most USER_AGENTS_KEPT of them.
AgentsShown(a) ==
    IF Cardinality(a.uas) <= USER_AGENTS_KEPT THEN a.uas
    ELSE CHOOSE s \in kSubset(USER_AGENTS_KEPT, a.uas) : TRUE

\* ClientSummary::is_notable: neither volume nor a single refused probe counts.
IsNotable(a) ==
    \/ a.paths \cap TInjections # {}
    \/ Rotating(a)
    \/ Cardinality(a.paths \cap TProbes) >= PROBE_PATHS_FOR_CONCERN
    \/ a.n >= REFUSED_REQUESTS_FOR_CONCERN /\ 2 * a.errors >= a.n

-----------------------------------------------------------------------------
(* TrafficReport::build                                                    *)

Report(records) ==
    LET reqs == RequestsOf(records)
        addrs == AddrsIn(reqs)
        forgers == Forgers(reqs)
        notable == {ip \in addrs : IsNotable(PerIp(reqs, ip))}
    IN  [total    |-> Cardinality(DOMAIN reqs),
         notable  |-> notable,
         agents   |-> [ip \in notable |-> AgentsShown(PerIp(reqs, ip))],
         noise    |-> {ip \in addrs \ notable : PerIp(reqs, ip).paths \cap TProbes # {}},
         crawlers |-> Crawlers(reqs, forgers),
         forged   |-> ForgedRequests(reqs, forgers),
         forgers  |-> forgers]

NoReport == [of |-> <<>>, report |-> Report(<<>>)]

\* analytics: a line per answered request, or per monitoring poll.
LogRecord ==
    /\ Len(tlog) < TMaxRecords
    /\ \E r \in TRecords : tlog' = Append(tlog, r)
    /\ UNCHANGED <<tsince, treport>>

\* The window is the last hour: old records fall out of it.
WindowMoves ==
    /\ tsince < Len(tlog)
    /\ tsince' = tsince + 1
    /\ UNCHANGED <<tlog, treport>>

BuildTraffic ==
    /\ LET records == SubSeq(tlog, tsince + 1, Len(tlog))
       IN  treport' = [of |-> records, report |-> Report(records)]
    /\ UNCHANGED <<tlog, tsince>>

TInit == tlog = <<>> /\ tsince = 0 /\ treport = NoReport

TNext == LogRecord \/ WindowMoves \/ BuildTraffic

TSpec == TInit /\ [][TNext]_tvars

-----------------------------------------------------------------------------
(* Properties                                                              *)

\* Every claim to be a crawler is judged once: the requests a report credits
\* to crawlers and the ones it calls forged add up to the requests that made
\* the claim, whichever addresses shared an agent and whichever agents shared
\* an address; no forger is listed among a crawler's addresses; and an address
\* whose claim was set aside is named elsewhere in the same report, as notable
\* or as noise, so that setting it aside hides nothing.
TClaimsAreAccountedFor ==
    LET reqs == RequestsOf(treport.of)
        r == treport.report
    IN  /\ SumFunction([c \in r.crawlers |-> c.requests]) + r.forged
              = Cardinality({i \in DOMAIN reqs : reqs[i].ua \in TBots})
        /\ \A c \in r.crawlers : c.ips # {} /\ c.ips \cap r.forgers = {}
        /\ r.forgers \subseteq r.notable \cup r.noise
=============================================================================
