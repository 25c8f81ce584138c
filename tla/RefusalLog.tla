----------------------------- MODULE RefusalLog -----------------------------
(***************************************************************************)
(* The h2c listener's admission of peers and its log of the refused ones      *)
(* (m6-http/src/http11.rs: admit, H2cListener::accept_up_to, RefusalLog).     *)
(* A refused peer gets a line, then at most one per interval; a full table    *)
(* and a window's line limit send refusals to a summary instead.              *)
(***************************************************************************)
EXTENDS Integers, FiniteSets, FiniteSetsExt

CONSTANTS
    Strangers,         \* addresses that are not internal peers
    REFUSAL_INTERVAL, REFUSAL_MAX_PEERS, REFUSAL_MAX_LINES, REFUSAL_MAX_OTHERS,
    MaxRefusals, RTime \* bounds: refusals recorded, time

ASSUME RefusalAssumption ==
    /\ REFUSAL_INTERVAL \in Nat \ {0} /\ REFUSAL_MAX_PEERS \in Nat
    /\ REFUSAL_MAX_LINES \in Nat /\ REFUSAL_MAX_OTHERS \in Nat
    /\ MaxRefusals \in Nat /\ RTime \in Nat

Never == -1     \* no line yet, or no window

VARIABLES
    rlog,       \* RefusalLog
    rnow,       \* the clock
    rhist       \* history: refusals, own lines, counts carried by lines, summarised

rvars == <<rlog, rnow, rhist>>

NoSummary == [other |-> 0, addresses |-> 0, over |-> 0]
RNew == [peers |-> <<>>, window |-> Never, lines |-> 0, summary |-> NoSummary, others |-> {}]

\* A window that has ended gives up its summary; the new one starts empty.
Rolled(l, now) ==
    IF l.window # Never /\ now - l.window < REFUSAL_INTERVAL THEN l
    ELSE [l EXCEPT !.summary = IF l.window # Never THEN NoSummary ELSE @,
                   !.window = now, !.lines = 0, !.others = {}]

TrackedIn(l, p, last, owed) ==
    [l EXCEPT !.peers = [q \in DOMAIN @ \cup {p} |->
        IF q = p THEN [last |-> last, owed |-> owed] ELSE @[q]]]

\* A tracked peer: silent inside its interval, counted past the line limit, or a line.
RecordTracked(l, p, now) ==
    LET e == l.peers[p]
    IN  IF e.last # Never /\ now - e.last < REFUSAL_INTERVAL
          THEN [log |-> TrackedIn(l, p, e.last, e.owed + 1), line |-> 0, carried |-> 0]
        ELSE IF l.lines >= REFUSAL_MAX_LINES
          THEN [log |-> [TrackedIn(l, p, e.last, e.owed + 1) EXCEPT !.summary.over = @ + 1],
                line |-> 0, carried |-> 0]
        ELSE [log |-> [TrackedIn(l, p, now, 0) EXCEPT !.lines = @ + 1], line |-> 1, carried |-> e.owed]

\* Mutant of Stale: what a peer is still owed is not looked at.
StaleOwing(l, now) ==
    {p \in DOMAIN l.peers : l.peers[p].last # Never /\ now - l.peers[p].last >= REFUSAL_INTERVAL}

\* The peers evict_stale may drop: silent for an interval, and nothing owed.
Stale(l, now) ==
    {p \in DOMAIN l.peers : /\ l.peers[p].last # Never
                            /\ now - l.peers[p].last >= REFUSAL_INTERVAL
                            /\ l.peers[p].owed = 0}

\* The stalest of them makes room.
Evicted(l, now) ==
    LET oldest == {p \in Stale(l, now) : \A q \in Stale(l, now) : l.peers[p].last <= l.peers[q].last}
    IN  {[l EXCEPT !.peers = [q \in DOMAIN @ \ {p} |-> @[q]]] : p \in oldest}

\* A new peer once there is room: a line, or its first line is withheld.
RecordNew(l, p, now) ==
    IF l.lines >= REFUSAL_MAX_LINES
      THEN [log |-> [TrackedIn(l, p, Never, 1) EXCEPT !.summary.over = @ + 1], line |-> 0, carried |-> 0]
    ELSE [log |-> [TrackedIn(l, p, now, 0) EXCEPT !.lines = @ + 1], line |-> 1, carried |-> 0]

\* No room: the refusal goes to the summary.
RecordOther(l, p) ==
    LET new == p \notin l.others /\ Cardinality(l.others) < REFUSAL_MAX_OTHERS
    IN  [log |-> [l EXCEPT !.summary.other = @ + 1,
                           !.summary.addresses = @ + (IF new THEN 1 ELSE 0),
                           !.others = IF new THEN @ \cup {p} ELSE @],
         line |-> 0, carried |-> 0]

\* RefusalLog::record.
Record(l, p, now) ==
    LET w == Rolled(l, now)
    IN  IF p \in DOMAIN w.peers THEN {RecordTracked(w, p, now)}
        ELSE IF Cardinality(DOMAIN w.peers) < REFUSAL_MAX_PEERS THEN {RecordNew(w, p, now)}
        ELSE IF Stale(w, now) = {} THEN {RecordOther(w, p)}
        ELSE {RecordNew(e, p, now) : e \in Evicted(w, now)}

\* accept_up_to meets a connection admit refuses.
Refuse(p) ==
    /\ rhist.refused < MaxRefusals
    /\ \E r \in Record(rlog, p, rnow) :
          /\ rlog' = r.log
          /\ rhist' = [refused |-> rhist.refused + 1, lines |-> rhist.lines + r.line,
                       carried |-> rhist.carried + r.carried,
                       summarised |-> rhist.summarised
                           + (IF r.log.window # rlog.window THEN rlog.summary.other ELSE 0),
                       at |-> [rhist.at EXCEPT ![p] = IF r.line = 1 THEN @ \cup {rnow} ELSE @]]
    /\ UNCHANGED rnow

RTick == rnow < RTime /\ rnow' = rnow + 1 /\ UNCHANGED <<rlog, rhist>>

RInit ==
    /\ rlog = RNew /\ rnow = 0
    /\ rhist = [refused |-> 0, lines |-> 0, carried |-> 0, summarised |-> 0,
                at |-> [p \in Strangers |-> {}]]
RNext == RTick \/ \E p \in Strangers : Refuse(p)
RSpec == RInit /\ [][RNext]_rvars

-----------------------------------------------------------------------------
Owed == SumFunction([p \in DOMAIN rlog.peers |-> rlog.peers[p].owed])

\* Every refused connection is in the log exactly once: as a line, in the count
\* a line carries or will carry, or in a summary written or to be written, with
\* the table full or not, peers evicted or not, and across windows
\* (RefusalLog::record, evict_stale).  And the limits hold: one line per peer
\* and interval, and REFUSAL_MAX_PEERS addresses remembered.
RefusalsAreAccountedFor ==
    /\ rhist.refused = rhist.lines + rhist.carried + Owed
                         + rhist.summarised + rlog.summary.other
    /\ Cardinality(DOMAIN rlog.peers) <= REFUSAL_MAX_PEERS
    /\ \A p \in Strangers : \A a, b \in rhist.at[p] : a < b => b - a >= REFUSAL_INTERVAL
=============================================================================
