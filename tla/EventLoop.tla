----------------------------- MODULE EventLoop -----------------------------
(***************************************************************************)
(* The edge's event loop (m6-http main.rs, event_loop; poller.rs) and its    *)
(* start.  One thread waits on the poller, handles at most a batch of        *)
(* events, then drives every connection and every timer whether or not an    *)
(* event named it.  Fetches that run on threads of their own report through  *)
(* a channel that wakes nobody; the timers other than QUIC's do not shorten  *)
(* the wait either: only the cap on the wait brings the loop back to them.   *)
(*                                                                         *)
(* What each drive does to its connection is modelled in Http11Conn,         *)
(* Http2Server, Http3Conn and H2Client.  The poller is level-triggered: a     *)
(* descriptor that was not drained is reported again.  Which of the ready     *)
(* descriptors a full batch leaves out is the kernel's choice.               *)
(***************************************************************************)
EXTENDS Integers, FiniteSets

CONSTANTS
    Clients,          \* client connections, each with a descriptor
    ByThread,         \* clients whose fetches run on a thread; the others' use the pool
    Listening,        \* which of "udp", "tcp", "h2c" and "file" (both watches) become ready
    BATCH,            \* 64: events one wait returns
    TICK,             \* 10 ms: the longest wait
    RESCAN,           \* 2 s: between two rescans of the socket directories
    LTime             \* bound: the clock

ASSUME LoopAssumption ==
    /\ ByThread \subseteq Clients
    /\ Listening \subseteq {"udp", "tcp", "h2c", "file"}
    /\ {BATCH, TICK, RESCAN} \subseteq Nat \ {0}

VARIABLES
    oloop,     \* the loop: pc, the wait's start and end, the events in hand
    oready,    \* the ready descriptors
    ofetch,    \* each client's fetch: its stage, and since when it is there
    odue,      \* when QUIC's next timer and the next rescan are due
    osig,      \* the signal thread
    onow

loopvars == <<oloop, oready, ofetch, odue, osig, onow>>

NoTimer == -1
LMin(a, b) == IF a < b THEN a ELSE b
LMax(a, b) == IF a > b THEN a ELSE b

-----------------------------------------------------------------------------
(* run: QUIC's socket is bound, and the pipe the signal thread pokes exists  *)
(* before the thread; then the listeners are bound and registered.  A failure *)
(* of any of these is an exit.                                               *)

LInstall(ok) ==
    /\ oloop.pc = "boot"
    /\ oloop' = [oloop EXCEPT !.pc = IF ok THEN "bind" ELSE "exit"]
    /\ osig' = [osig EXCEPT !.up = ok]
    /\ UNCHANGED <<oready, ofetch, odue, onow>>

LBind(ok) ==
    /\ oloop.pc = "bind"
    /\ oloop' = [oloop EXCEPT !.pc = IF ok THEN "register" ELSE "exit"]
    /\ UNCHANGED <<oready, ofetch, odue, osig, onow>>

\* Mutant of WaitFor: QUIC's timer alone decides.
WaitForTimer(now, quic) == IF quic = NoTimer THEN 10 * TICK ELSE LMax(quic - now, 0)

\* Mutant of WaitFor: always the cap.
WaitForCap(now, quic) == TICK

\* The wait: to QUIC's next timer, and never longer than TICK.
WaitFor(now, quic) ==
    IF quic = NoTimer THEN TICK ELSE LMin(LMax(quic - now, 0), TICK)

LRegister(ok) ==
    /\ oloop.pc = "register"
    /\ oloop' = [oloop EXCEPT !.pc = IF ok THEN "wait" ELSE "exit", !.since = onow,
                              !.until = onow + WaitFor(onow, odue.quic)]
    /\ UNCHANGED <<oready, ofetch, odue, osig, onow>>

-----------------------------------------------------------------------------
(* One turn.                                                                 *)

\* Poller::wait, on any of the three platforms.
Batches(ready) ==
    {batch \in SUBSET ready : Cardinality(batch) = LMin(BATCH, Cardinality(ready))}

\* It returns, and the shutdown flag is looked at.
PollReturns ==
    /\ oloop.pc = "wait"
    /\ oready # {} \/ onow >= oloop.until
    /\ \E batch \in Batches(oready) :
         /\ oloop' = [oloop EXCEPT !.pc = IF osig.flag THEN "exit" ELSE "handle",
                                   !.batch = batch]
    /\ UNCHANGED <<oready, ofetch, odue, osig, onow>>

\* The h2c listener takes a bounded number for each event and may be ready still.
StillQueued(batch) == SUBSET (batch \cap {"h2c"})

\* The events: QUIC's socket, the file watches and the pipe are drained, and the TLS
\* listener's queue too (its connections share its token).
HandleEvents ==
    /\ oloop.pc = "handle"
    /\ \E more \in StillQueued(oloop.batch),
          quic \in IF "udp" \in oloop.batch THEN {NoTimer, onow + 1} ELSE {odue.quic} :
         /\ oready' = oready \ ((oloop.batch \ (Clients \cup {"pool"} \cup more))
                                \cup IF oloop.batch \cap Clients # {} THEN {"tcp"} ELSE {})
         /\ odue' = [odue EXCEPT !.quic = quic]
    /\ oloop' = [oloop EXCEPT !.pc = "drive", !.batch = {}]
    /\ UNCHANGED <<ofetch, osig, onow>>

\* A client is driven: a reply that is there is taken; an idle one that is readable
\* is read, and its request is answered at once or fetched.
Driven(c) ==
    CASE ofetch[c].stage = "posted" -> {"idle"}
      [] ofetch[c].stage = "idle" /\ c \in oready -> {"idle", "out"}
      [] OTHER -> {ofetch[c].stage}

\* Then the pool: what came in on its connection is posted to the callers, who
\* were driven before it and look again on the next turn.
Resolved(stage) == IF stage = "arrived" THEN "posted" ELSE stage

\* Mutant of DriveAll: only the connections an event named are driven.
DriveNamed ==
    /\ oloop.pc = "drive"
    /\ \E to \in [Clients -> {"idle", "out", "arrived", "posted"}] :
         /\ \A c \in Clients : to[c] \in (IF c \in oready THEN Driven(c) ELSE {ofetch[c].stage})
         /\ ofetch' = [c \in Clients |-> [stage |-> Resolved(to[c]),
                          at |-> IF to[c] = "arrived" THEN onow ELSE ofetch[c].at]]
    /\ oready' = oready \ ({"pool"} \cup Clients)
    /\ oloop' = [oloop EXCEPT !.pc = "wait", !.since = onow,
                              !.until = onow + WaitFor(onow, odue.quic)]
    /\ UNCHANGED <<odue, osig, onow>>

NextRescan == IF onow >= odue.rescan THEN onow + RESCAN ELSE odue.rescan

\* Everything is driven, whatever the events were; the timers that are due run.
DriveAll ==
    /\ oloop.pc = "drive"
    /\ \E to \in [Clients -> {"idle", "out", "arrived", "posted"}],
          unread \in SUBSET {c \in Clients : ofetch[c].stage = "out"},
          quic \in IF odue.quic \in 0..onow THEN {NoTimer, onow + 1} ELSE {odue.quic} :
         /\ \A c \in Clients : to[c] \in Driven(c)
         /\ ofetch' = [c \in Clients |-> [stage |-> Resolved(to[c]),
                          at |-> IF to[c] = "arrived" THEN onow ELSE ofetch[c].at]]
         /\ oready' = oready \ ({"pool"} \cup (Clients \ unread))
         /\ odue' = [quic |-> quic, rescan |-> NextRescan]
         /\ oloop' = [oloop EXCEPT !.pc = "wait", !.since = onow,
                                   !.until = onow + WaitFor(onow, quic)]
    /\ UNCHANGED <<osig, onow>>

-----------------------------------------------------------------------------
(* The others: clients, backends, the file system, the signal thread, time.  *)

Elsewhere == oloop.pc # "exit" /\ UNCHANGED <<oloop, odue>>

\* A datagram, a connection, a change of a watched file, or bytes from a client.
BecomesReady(fd) ==
    /\ Elsewhere
    /\ fd \notin oready
    /\ oready' = oready \cup {fd}
    /\ UNCHANGED <<ofetch, osig, onow>>

\* dispatch_url_request's thread sends its result: nothing becomes ready.
ThreadReplies(c) ==
    /\ Elsewhere
    /\ c \in ByThread /\ ofetch[c].stage = "out"
    /\ ofetch' = [ofetch EXCEPT ![c] = [stage |-> "posted", at |-> onow]]
    /\ UNCHANGED <<oready, osig, onow>>

PoolReplies(c) ==
    /\ Elsewhere
    /\ c \notin ByThread /\ ofetch[c].stage = "out"
    /\ ofetch' = [ofetch EXCEPT ![c] = [stage |-> "arrived", at |-> onow]]
    /\ oready' = oready \cup {"pool"}
    /\ UNCHANGED <<osig, onow>>

\* The first signal: the flag, then the byte.
SetsFlag ==
    /\ Elsewhere
    /\ osig.up /\ ~osig.flag
    /\ osig' = [osig EXCEPT !.flag = TRUE, !.at = onow]
    /\ UNCHANGED <<oready, ofetch, onow>>

WritesByte ==
    /\ Elsewhere
    /\ osig.flag /\ osig.up
    /\ osig' = [osig EXCEPT !.up = FALSE]
    /\ oready' = oready \cup {"wake"}
    /\ UNCHANGED <<ofetch, onow>>

\* Time passes in a wait only while the wait goes on, and in a turn as long as a
\* blocking call to a backend takes.
LoopTick ==
    /\ onow < LTime
    /\ oloop.pc \in {"wait", "drive"}
    /\ oloop.pc = "wait" => oready = {} /\ onow < oloop.until
    /\ onow' = onow + 1
    /\ UNCHANGED <<oloop, oready, ofetch, odue, osig>>

LoopInit ==
    /\ oloop = [pc |-> "boot", since |-> 0, until |-> 0, batch |-> {}]
    /\ oready = {}
    /\ ofetch = [c \in Clients |-> [stage |-> "idle", at |-> 0]]
    /\ odue = [quic |-> NoTimer, rescan |-> 0]
    /\ osig = [up |-> FALSE, flag |-> FALSE, at |-> 0]
    /\ onow = 0

LoopNext ==
    \/ PollReturns \/ HandleEvents \/ DriveAll \/ SetsFlag \/ WritesByte \/ LoopTick
    \/ \E ok \in BOOLEAN : LInstall(ok) \/ LBind(ok) \/ LRegister(ok)
    \/ \E fd \in Listening \cup Clients : BecomesReady(fd)
    \/ \E c \in Clients : ThreadReplies(c) \/ PoolReplies(c)

LoopSpec == LoopInit /\ [][LoopNext]_loopvars

-----------------------------------------------------------------------------
(* Properties.                                                               *)

\* A loop that waits has left nothing due for longer than TICK, counted from when
\* it was due or from when the loop was last busy: neither a reply posted by a
\* thread, a reply the pool resolved after its client was driven, a rescan, nor a
\* shutdown whose byte is not written yet; and QUIC's own timer not at all
\* (event_loop's comment on the flat cap).  A reply posted before the last drive
\* has been taken by it, whatever the events were.
LoopContract ==
    oloop.pc = "wait" =>
        LET waited(at) == onow - LMax(at, oloop.since)
        IN  /\ \A c \in Clients : ofetch[c].stage = "posted" =>
                   ofetch[c].at >= oloop.since /\ waited(ofetch[c].at) <= TICK
            /\ osig.flag => waited(osig.at) <= TICK
            /\ waited(odue.rescan) <= TICK
            /\ odue.quic # NoTimer => waited(odue.quic) <= 0
=============================================================================
