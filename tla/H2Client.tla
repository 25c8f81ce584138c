------------------------------ MODULE H2Client ------------------------------
(***************************************************************************)
(* The edge's outbound HTTP/2 connection to one URL backend                  *)
(* (m6-http/src/h2c_client.rs; h2s_client.rs is the same machine over TLS).   *)
(* Requests become streams, each with a channel its response is sent on;     *)
(* bodies wait for flow-control credit; the event loop calls drive(), which   *)
(* flushes, reads what has arrived, and handles it frame by frame.            *)
(*                                                                         *)
(* The peer is external: it sends the frames of an HTTP/2 server, bad ones    *)
(* included where the constants allow it, and may close or reset.             *)
(* Frames that change no state here (PING, ACKs, unknown types) are left out, *)
(* and so are padding and HPACK.                                             *)
(***************************************************************************)
EXTENDS Integers, Sequences, FiniteSets

CONSTANTS
    Requests,         \* requests, each dispatched once
    Body,             \* Body[r]: bytes in r's body
    DEFAULT_WINDOW,   \* initial flow-control window
    MAX_WINDOW,       \* 2^31 - 1, the largest window
    Windows,          \* values of SETTINGS_INITIAL_WINDOW_SIZE
    Increments,       \* increments of a WINDOW_UPDATE
    Peers,            \* kinds of peer: "orderly", "splitting", "faulty"
    MaxFrames         \* bound: MaxFrames[p]: frames a peer of kind p sends

ASSUME BodyAssumption == Body \in [Requests -> Nat]
ASSUME WindowAssumption ==
    /\ DEFAULT_WINDOW \in Nat /\ MAX_WINDOW \in Nat /\ DEFAULT_WINDOW <= MAX_WINDOW
    /\ Windows \subseteq 0..MAX_WINDOW
    /\ Increments \subseteq 0..MAX_WINDOW
ASSUME PeerAssumption ==
    Peers \subseteq {"orderly", "splitting", "faulty"} /\ MaxFrames \in [Peers -> Nat]
\* Save for the largest, which errs on purpose, an orderly peer's increments do not add up
\* past the largest window: a server may not grant that much (RFC 9113 6.9.1).
ASSUME OrderlyAssumption ==
    "orderly" \in Peers =>
        \E most \in 0..MAX_WINDOW :
            /\ DEFAULT_WINDOW + most * MaxFrames["orderly"] <= MAX_WINDOW
            /\ \A n \in Increments : n <= most \/ n = MAX_WINDOW

None == 0             \* no stream: ids are odd

VARIABLES
    \* H2cClientConn
    is_dead,          \* there is no usable connection
    streams,          \* the open streams, by id; granted and capped are history
    next_stream_id,
    continuation_stream,
    conn_send_window,
    peer_initial_window,
    unsent,           \* send_buf holds frames not yet written
    \* the event loop
    pc,               \* "idle", "parse" inside drive, "pump" inside pump_all
    to_pump,          \* streams pump_all has still to pump
    \* the connection and the peer at its other end
    kind,             \* the kind of peer
    socket,           \* "open", "mute" (says no more), "closed", "reset"
    inbox,            \* frames that have arrived and are not handled
    peer,             \* peer[id]: how far the peer is with its response to id
    frames,           \* frames the peer has sent
    \* history
    result,           \* what r's channel holds
    answered,         \* requests whose whole response has arrived
    conn_granted, conn_sent

conn    == <<is_dead, streams, next_stream_id, continuation_stream,
             conn_send_window, peer_initial_window, unsent>>
remote  == <<socket, inbox, peer, frames, answered>>
clientvars    == <<kind, conn, pc, to_pump, remote, result, conn_granted, conn_sent>>

Min2(a, b) == IF a < b THEN a ELSE b
Open == DOMAIN streams
Only(f, S) == [x \in S |-> f[x]]

-----------------------------------------------------------------------------
(* Sending a body.                                                           *)

\* How much of a stream's body pump_stream sends: all that both windows allow.
Pumped(s, window) ==
    LET credit == Min2(window, s.send_window)
    IN  IF credit <= 0 THEN 0 ELSE Min2(s.left, credit)

Drained(s, n) == [s EXCEPT !.left = @ - n, !.send_window = @ - n]

-----------------------------------------------------------------------------
(* dispatch, of the pool and of the connection.                              *)

\* The state of a connection just made (connect).
Connected(id) ==
    /\ is_dead' = FALSE
    /\ continuation_stream' = None
    /\ peer_initial_window' = DEFAULT_WINDOW
    /\ socket' = "open"
    /\ inbox' = <<>>
    /\ next_stream_id' = id + 2

\* The new stream, its HEADERS pushed and its body pumped.
OpenStream(r, id, window, initial) ==
    LET s == [req |-> r, headers_done |-> FALSE, left |-> Body[r],
              send_window |-> initial, granted |-> 0, capped |-> FALSE]
        n == Pumped(s, window)
    IN  /\ streams' = [i \in Open \cup {id} |-> IF i = id THEN Drained(s, n) ELSE streams[i]]
        /\ conn_send_window' = window - n
        /\ unsent' = TRUE
        /\ result' = [result EXCEPT ![r] = "waiting"]

Dispatch(r) ==
    /\ pc = "idle"
    /\ result[r] = "new"
    /\ ~is_dead
    /\ OpenStream(r, next_stream_id, conn_send_window, peer_initial_window)
    /\ conn_sent' = conn_sent + (Body[r] - streams'[next_stream_id].left)
    /\ next_stream_id' = next_stream_id + 2
    /\ peer' = [i \in DOMAIN peer \cup {next_stream_id} |->
                   IF i = next_stream_id THEN [req |-> r, stage |-> "unsent", last |-> FALSE]
                   ELSE peer[i]]
    /\ UNCHANGED <<is_dead, continuation_stream, peer_initial_window, pc, to_pump,
                   kind, socket, inbox, frames, answered, conn_granted>>

\* No connection, or a dead one: the pool makes a new one first.
DispatchConnects(r) ==
    /\ pc = "idle"
    /\ result[r] = "new"
    /\ is_dead
    /\ Connected(1)
    /\ OpenStream(r, 1, DEFAULT_WINDOW, DEFAULT_WINDOW)
    /\ conn_sent' = Body[r] - streams'[1].left
    /\ conn_granted' = 0
    /\ peer' = [i \in {1} |-> [req |-> r, stage |-> "unsent", last |-> FALSE]]
    /\ UNCHANGED <<pc, to_pump, kind, frames, answered>>

ConnectFails(r) ==
    /\ pc = "idle"
    /\ result[r] = "new"
    /\ is_dead
    /\ result' = [result EXCEPT ![r] = "error"]
    /\ UNCHANGED <<conn, pc, to_pump, kind, remote, conn_granted, conn_sent>>

-----------------------------------------------------------------------------
(* drive.                                                                    *)

Outcome(ids, how) ==
    result' = [r \in Requests |->
                  IF \E i \in ids \cap Open : streams[i].req = r THEN how ELSE result[r]]

\* Mutants of MarkDead: the channels are dropped with nothing sent, and nobody is
\* told; every request ever sent on the connection fails.
MarkDeadSilently ==
    /\ is_dead' = TRUE
    /\ streams' = <<>>
    /\ pc' = "idle"
    /\ inbox' = <<>>
    /\ UNCHANGED <<next_stream_id, continuation_stream, conn_send_window,
                   peer_initial_window, unsent, to_pump, kind, socket, peer, frames,
                   answered, result, conn_granted, conn_sent>>

MarkDeadFailsAll ==
    /\ is_dead' = TRUE
    /\ streams' = <<>>
    /\ result' = [r \in Requests |->
                     IF \E i \in DOMAIN peer : peer[i].req = r THEN "error" ELSE result[r]]
    /\ pc' = "idle"
    /\ inbox' = <<>>
    /\ UNCHANGED <<next_stream_id, continuation_stream, conn_send_window,
                   peer_initial_window, unsent, to_pump, kind, socket, peer, frames,
                   answered, conn_granted, conn_sent>>

\* mark_dead: every open stream's channel gets an error.
MarkDead ==
    /\ is_dead' = TRUE
    /\ streams' = <<>>
    /\ Outcome(Open, "error")
    /\ pc' = "idle"
    /\ inbox' = <<>>
    /\ UNCHANGED <<next_stream_id, continuation_stream, conn_send_window,
                   peer_initial_window, unsent, to_pump, kind, socket, peer, frames,
                   answered, conn_granted, conn_sent>>

\* Mutant of Flush: an end of file is acted on before what arrived is handled.
FlushSeesEof ==
    /\ pc = "idle"
    /\ ~is_dead
    /\ ~(unsent /\ socket = "reset")
    /\ IF socket = "closed" THEN MarkDead
       ELSE /\ pc' = "parse"
            /\ unsent' \in {FALSE, unsent}
            /\ peer' = [i \in DOMAIN peer |->
                           IF peer[i].stage = "unsent" /\ ~unsent'
                           THEN [peer[i] EXCEPT !.stage = "none"] ELSE peer[i]]
            /\ UNCHANGED <<is_dead, streams, next_stream_id, continuation_stream,
                           conn_send_window, peer_initial_window, to_pump, kind, socket,
                           inbox, frames, answered, result, conn_granted, conn_sent>>

\* The flush: all, or what the socket takes; a write to a reset connection fails.
\* The peer has a request once it was flushed.
Flush ==
    /\ pc = "idle"
    /\ ~is_dead
    /\ ~(unsent /\ socket = "reset")
    /\ pc' = "parse"
    /\ unsent' \in {FALSE, unsent}
    /\ peer' = [i \in DOMAIN peer |->
                   IF peer[i].stage = "unsent" /\ ~unsent'
                   THEN [peer[i] EXCEPT !.stage = "none"] ELSE peer[i]]
    /\ UNCHANGED <<is_dead, streams, next_stream_id, continuation_stream,
                   conn_send_window, peer_initial_window, to_pump, kind, socket, inbox,
                   frames, answered, result, conn_granted, conn_sent>>

FlushFails ==
    /\ pc = "idle"
    /\ ~is_dead
    /\ unsent /\ socket = "reset"
    /\ MarkDead

\* Everything read is handled; an end of file is acted on only now.
DriveEnds ==
    /\ pc = "parse"
    /\ inbox = <<>>
    /\ IF socket \in {"closed", "reset"} THEN MarkDead
       ELSE /\ pc' = "idle"
            /\ UNCHANGED <<conn, to_pump, kind, remote, result, conn_granted, conn_sent>>

Frame == Head(inbox)

\* A frame is at hand, and it is the one a header block in progress waits for.
Handles(type) ==
    /\ pc = "parse"
    /\ inbox # <<>>
    /\ Frame.type = type
    /\ continuation_stream # None =>
           type = "CONTINUATION" /\ Frame.id = continuation_stream

Taken ==
    /\ inbox' = Tail(inbox)
    /\ UNCHANGED <<kind, socket, peer, frames, answered>>

ExpectedContinuation ==
    /\ pc = "parse"
    /\ inbox # <<>>
    /\ continuation_stream # None
    /\ Frame.type # "CONTINUATION" \/ Frame.id # continuation_stream
    /\ MarkDead

\* Mutants of Settings: the bodies that wait are not resumed; only streams opened
\* later see the new window.
SettingsWithoutPump ==
    LET delta == Frame.n - peer_initial_window
    IN  /\ Handles("SETTINGS")
        /\ peer_initial_window' = Frame.n
        /\ streams' = [i \in Open |->
               [streams[i] EXCEPT !.send_window = Min2(MAX_WINDOW, @ + delta),
                                  !.capped = @ \/ streams[i].send_window + delta > MAX_WINDOW]]
        /\ unsent' = TRUE
        /\ Taken
        /\ UNCHANGED <<is_dead, next_stream_id, continuation_stream, conn_send_window,
                       pc, to_pump, result, conn_granted, conn_sent>>

SettingsForNewStreams ==
    /\ Handles("SETTINGS")
    /\ peer_initial_window' = Frame.n
    /\ unsent' = TRUE
    /\ pc' = "pump"
    /\ to_pump' = {i \in Open : streams[i].left > 0}
    /\ Taken
    /\ UNCHANGED <<is_dead, streams, next_stream_id, continuation_stream, conn_send_window,
                   result, conn_granted, conn_sent>>

\* SETTINGS_INITIAL_WINDOW_SIZE moves every open stream's window by the change.
Settings ==
    LET delta == Frame.n - peer_initial_window
    IN  /\ Handles("SETTINGS")
        /\ peer_initial_window' = Frame.n
        /\ streams' = [i \in Open |->
               [streams[i] EXCEPT !.send_window = Min2(MAX_WINDOW, @ + delta),
                                  !.capped = @ \/ streams[i].send_window + delta > MAX_WINDOW]]
        /\ unsent' = TRUE
        /\ pc' = "pump"
        /\ to_pump' = {i \in Open : streams[i].left > 0}
        /\ Taken
        /\ UNCHANGED <<is_dead, next_stream_id, continuation_stream, conn_send_window,
                       result, conn_granted, conn_sent>>

\* pump_all goes over the streams in the order of a hash map: any order.
PumpAll ==
    /\ pc = "pump"
    /\ IF to_pump = {}
       THEN /\ pc' = "parse"
            /\ UNCHANGED <<streams, conn_send_window, conn_sent, unsent, to_pump>>
       ELSE \E i \in to_pump :
            LET n == Pumped(streams[i], conn_send_window)
            IN  /\ streams' = [streams EXCEPT ![i] = Drained(@, n)]
                /\ conn_send_window' = conn_send_window - n
                /\ conn_sent' = conn_sent + n
                /\ unsent' = (unsent \/ n > 0)
                /\ to_pump' = to_pump \ {i}
                /\ UNCHANGED pc
    /\ UNCHANGED <<is_dead, next_stream_id, continuation_stream, peer_initial_window,
                   kind, remote, result, conn_granted>>

\* complete_stream: the response, or an error when no header block was complete.
\* `done` says whether one is, with the frame at hand.
CompleteStream(id, done) ==
    /\ Outcome({id}, IF done THEN "ok" ELSE "error")
    /\ streams' = Only(streams, Open \ {id})
    /\ unsent' = (unsent \/ (id \in Open /\ streams[id].left > 0))

HeadersDone(id) == id \in Open /\ streams[id].headers_done

\* END_STREAM on a HEADERS frame completes the stream at that frame.
Headers ==
    LET done == Frame.end_headers \/ HeadersDone(Frame.id)
    IN  /\ Handles("HEADERS")
        /\ continuation_stream' = IF Frame.end_headers THEN None ELSE Frame.id
        /\ IF Frame.end_stream THEN CompleteStream(Frame.id, done)
           ELSE /\ streams' = [i \in Open |->
                       IF i = Frame.id THEN [streams[i] EXCEPT !.headers_done = done]
                       ELSE streams[i]]
                /\ UNCHANGED <<result, unsent>>
        /\ Taken
        /\ UNCHANGED <<is_dead, next_stream_id, conn_send_window, peer_initial_window,
                       pc, to_pump, conn_granted, conn_sent>>

\* The peer ends a block with its first CONTINUATION.
Continuation ==
    /\ Handles("CONTINUATION")
    /\ continuation_stream' = None
    /\ streams' = [i \in Open |->
           IF i = Frame.id THEN [streams[i] EXCEPT !.headers_done = TRUE] ELSE streams[i]]
    /\ Taken
    /\ UNCHANGED <<is_dead, next_stream_id, conn_send_window, peer_initial_window,
                   unsent, pc, to_pump, result, conn_granted, conn_sent>>

\* Mutant of Data: the first DATA completes the stream.
DataCompletes ==
    /\ Handles("DATA")
    /\ CompleteStream(Frame.id, HeadersDone(Frame.id))
    /\ Taken
    /\ UNCHANGED <<is_dead, next_stream_id, continuation_stream, conn_send_window,
                   peer_initial_window, pc, to_pump, conn_granted, conn_sent>>

Data ==
    /\ Handles("DATA")
    /\ IF Frame.end_stream THEN CompleteStream(Frame.id, HeadersDone(Frame.id))
       ELSE unsent' = TRUE /\ UNCHANGED <<streams, result>>
    /\ Taken
    /\ UNCHANGED <<is_dead, next_stream_id, continuation_stream, conn_send_window,
                   peer_initial_window, pc, to_pump, conn_granted, conn_sent>>

RstStream ==
    /\ Handles("RST_STREAM")
    /\ Outcome({Frame.id}, "error")
    /\ streams' = Only(streams, Open \ {Frame.id})
    /\ Taken
    /\ UNCHANGED <<is_dead, next_stream_id, continuation_stream, conn_send_window,
                   peer_initial_window, unsent, pc, to_pump, conn_granted, conn_sent>>

GoAway == Handles("GOAWAY") /\ MarkDead

\* Mutant of BadConnUpdate: the sum is not checked.
BadConnUpdateZero(n) == n = 0

\* Credit for the connection: zero, or more than a window may hold, is an error.
BadConnUpdate(n) == n = 0 \/ conn_send_window + n > MAX_WINDOW

WindowUpdateConn ==
    /\ Handles("WINDOW_UPDATE")
    /\ Frame.id = 0
    /\ IF BadConnUpdate(Frame.n) THEN MarkDead
       ELSE /\ conn_send_window' = conn_send_window + Frame.n
            /\ conn_granted' = conn_granted + Frame.n
            /\ pc' = "pump"
            /\ to_pump' = {i \in Open : streams[i].left > 0}
            /\ Taken
            /\ UNCHANGED <<is_dead, streams, next_stream_id, continuation_stream,
                           peer_initial_window, unsent, result, conn_sent>>

\* Credit for a stream: an error resets it, and its channel is dropped unsent.
BadStreamUpdate(n) ==
    n = 0 \/ (Frame.id \in Open /\ streams[Frame.id].send_window + n > MAX_WINDOW)

Granted(s, n) == [s EXCEPT !.send_window = @ + n, !.granted = @ + n]

WindowUpdateStream ==
    /\ Handles("WINDOW_UPDATE")
    /\ Frame.id # 0
    /\ Taken
    /\ IF BadStreamUpdate(Frame.n)
       THEN /\ Outcome({Frame.id}, "dropped")
            /\ streams' = Only(streams, Open \ {Frame.id})
            /\ unsent' = TRUE
            /\ UNCHANGED <<conn_send_window, conn_sent>>
       ELSE IF Frame.id \in Open
       THEN LET s == Granted(streams[Frame.id], Frame.n)
                n == Pumped(s, conn_send_window)
            IN  /\ streams' = [streams EXCEPT ![Frame.id] = Drained(s, n)]
                /\ conn_send_window' = conn_send_window - n
                /\ conn_sent' = conn_sent + n
                /\ unsent' = (unsent \/ n > 0)
                /\ UNCHANGED result
       ELSE UNCHANGED <<streams, conn_send_window, conn_sent, unsent, result>>
    /\ UNCHANGED <<is_dead, next_stream_id, continuation_stream, peer_initial_window,
                   pc, to_pump, conn_granted>>

Drive ==
    \/ Flush \/ FlushFails \/ DriveEnds \/ ExpectedContinuation
    \/ Settings \/ PumpAll \/ Headers \/ Continuation \/ Data \/ RstStream
    \/ GoAway \/ WindowUpdateConn \/ WindowUpdateStream

-----------------------------------------------------------------------------
(* The peer: external.                                                       *)

\* Header blocks the peer may split with CONTINUATION: those of a response with a
\* body (FALSE) and, unless it is orderly, without one (TRUE).  A faulty one may
\* also send other frames inside a block, and reset the TCP connection.
SplitsHeaders == IF kind = "orderly" THEN {FALSE} ELSE BOOLEAN
Faulty        == kind = "faulty"

Speaks == pc = "idle" /\ ~is_dead /\ socket = "open" /\ frames < MaxFrames[kind]

\* Inside a header block a legal server sends nothing but its CONTINUATION.
InBlock == ~Faulty /\ \E i \in DOMAIN peer : peer[i].stage = "block"

Sends(type, id, n, end_headers, end_stream) ==
    /\ Speaks
    /\ inbox' = Append(inbox, [type |-> type, id |-> id, n |-> n,
                               end_headers |-> end_headers, end_stream |-> end_stream])
    /\ frames' = frames + 1
    /\ UNCHANGED <<kind, conn, pc, to_pump, result, conn_granted, conn_sent>>

\* The response to id goes on to `stage`; at "done" the whole of it has arrived.
Responds(id, stage, last) ==
    /\ peer' = [peer EXCEPT ![id].stage = stage, ![id].last = last]
    /\ answered' = IF stage = "done" THEN answered \cup {peer[id].req} ELSE answered
    /\ UNCHANGED socket

SendHeaders(id, end_headers, end_stream) ==
    /\ ~InBlock
    /\ peer[id].stage = "none"
    /\ ~end_headers => end_stream \in SplitsHeaders
    /\ Sends("HEADERS", id, 0, end_headers, end_stream)
    /\ Responds(id, IF ~end_headers THEN "block" ELSE IF end_stream THEN "done" ELSE "body",
                end_stream)

SendContinuation(id) ==
    /\ peer[id].stage = "block"
    /\ Sends("CONTINUATION", id, 0, TRUE, FALSE)
    /\ Responds(id, IF peer[id].last THEN "done" ELSE "body", peer[id].last)

SendData(id, end_stream) ==
    /\ ~InBlock
    /\ peer[id].stage = "body"
    /\ Sends("DATA", id, 0, FALSE, end_stream)
    /\ Responds(id, IF end_stream THEN "done" ELSE "body", end_stream)

SendRst(id) ==
    /\ ~InBlock
    /\ peer[id].stage \in {"none", "body"}
    /\ Sends("RST_STREAM", id, 0, FALSE, FALSE)
    /\ peer' = [peer EXCEPT ![id].stage = "over"]
    /\ UNCHANGED <<socket, answered>>

SendSettings(n) ==
    /\ ~InBlock
    /\ Sends("SETTINGS", 0, n, FALSE, FALSE)
    /\ UNCHANGED <<socket, peer, answered>>

SendUpdate(id, n) ==
    /\ ~InBlock
    /\ id # 0 => peer[id].stage # "unsent"
    /\ Sends("WINDOW_UPDATE", id, n, FALSE, FALSE)
    /\ socket' = IF n = 0 \/ n = MAX_WINDOW THEN "mute" ELSE socket
    /\ UNCHANGED <<peer, answered>>

SendGoAway ==
    /\ ~InBlock
    /\ Sends("GOAWAY", 0, 0, FALSE, FALSE)
    /\ socket' = "mute"
    /\ UNCHANGED <<peer, answered>>

Close(how) ==
    /\ pc = "idle"
    /\ ~is_dead
    /\ socket \in {"open", "mute"}
    /\ how = "reset" => Faulty
    /\ socket' = how
    /\ UNCHANGED <<kind, conn, pc, to_pump, inbox, peer, frames, answered, result,
                   conn_granted, conn_sent>>

Peer ==
    \/ \E id \in DOMAIN peer, end_headers, end_stream \in BOOLEAN :
           SendHeaders(id, end_headers, end_stream)
    \/ \E id \in DOMAIN peer : SendContinuation(id) \/ SendRst(id)
    \/ \E id \in DOMAIN peer, end_stream \in BOOLEAN : SendData(id, end_stream)
    \/ \E n \in Windows : SendSettings(n)
    \/ \E id \in DOMAIN peer \cup {0}, n \in Increments : SendUpdate(id, n)
    \/ SendGoAway
    \/ \E how \in {"closed", "reset"} : Close(how)

-----------------------------------------------------------------------------

ClientInit ==
    /\ kind \in Peers
    /\ is_dead = TRUE
    /\ streams = <<>>
    /\ next_stream_id = 1
    /\ continuation_stream = None
    /\ conn_send_window = DEFAULT_WINDOW
    /\ peer_initial_window = DEFAULT_WINDOW
    /\ unsent = FALSE
    /\ pc = "idle"
    /\ to_pump = {}
    /\ socket = "closed"
    /\ inbox = <<>>
    /\ peer = <<>>
    /\ frames = 0
    /\ result = [r \in Requests |-> "new"]
    /\ answered = {}
    /\ conn_granted = 0
    /\ conn_sent = 0

ClientNext ==
    \/ \E r \in Requests : Dispatch(r) \/ DispatchConnects(r) \/ ConnectFails(r)
    \/ Drive
    \/ Peer

ClientSpec == ClientInit /\ [][ClientNext]_clientvars

-----------------------------------------------------------------------------
(* Properties.                                                               *)

\* A body waits only for credit: outside pump_all, no stream owes bytes while
\* both of its windows are open (pump_stream's callers).  A missed call would
\* leave the body unsent until some other credit came.
NoStalledBody ==
    pc # "pump" =>
        \A i \in Open : streams[i].left > 0 =>
            conn_send_window <= 0 \/ streams[i].send_window <= 0

\* The windows are what the peer granted less what was sent, a change of the
\* initial window applied to streams already open included (RFC 9113 6.9.2): no
\* credit is made or lost, on the connection and on each stream, and the
\* connection's is never overdrawn nor past MAX_WINDOW.  Only a change that took a
\* stream's window past MAX_WINDOW, which a peer may not make, leaves less than
\* was granted.
CreditIsConserved ==
    /\ conn_send_window = DEFAULT_WINDOW + conn_granted - conn_sent
    /\ conn_send_window \in 0..MAX_WINDOW
    /\ \A i \in Open :
           LET s    == streams[i]
               sent == Body[s.req] - s.left
               owed == peer_initial_window + s.granted - sent
           IN  s.send_window = owed \/ (s.capped /\ s.send_window < owed)

\* A response is reported as received only when the whole of it has arrived.
OkMeansAnswered == \A r \in Requests : result[r] = "ok" => r \in answered

\* drive's comment on answer-then-close: "Parse what already arrived first; the
\* connection is still dead afterwards."  A response that has arrived in full from
\* an orderly peer is delivered, whatever closes, resets or updates follow it.
AnswerIsDelivered == kind = "orderly" => \A r \in answered : result[r] # "error"

\* Of every state of the connection: bodies wait only for credit, no credit is
\* made or lost, and the answers given are the ones that came.
ClientContract == NoStalledBody /\ CreditIsConserved /\ OkMeansAnswered /\ AnswerIsDelivered

\* How the channels and the streams together keep Promise: a call is pending while
\* exactly one open stream of a live connection is for it.  One that waits with no
\* stream, or that has an answer and still a stream, would be "lost".
ClientPromise ==
    [r \in Requests |->
        LET own == {i \in Open : streams[i].req = r}
        IN  CASE result[r] = "new" -> "none"
              [] result[r] = "waiting" /\ Cardinality(own) = 1 /\ ~is_dead -> "pending"
              [] result[r] = "ok" /\ own = {} -> "answered"
              [] result[r] \in {"error", "dropped"} /\ own = {} -> "failed"
              [] OTHER -> "lost"]

\* Every call of dispatch is settled once and never orphaned, whatever the peer
\* resets, refuses, closes or reuses (complete_stream, mark_dead, drive).
Caller == INSTANCE Promise WITH Calls <- Requests, promise <- ClientPromise
ClientKeepsPromises == Caller!PromiseSpec
=============================================================================
