----------------------------- MODULE Http11Conn -----------------------------
(***************************************************************************)
(* One inbound connection of the edge's HTTP/1.1 listener, plaintext or TLS   *)
(* (m6-http/src/http11.rs: accept_pending, drive_conn, drive_h1).             *)
(* drive_conn runs on the event loop, for every connection in each            *)
(* iteration, and is one step here: the loop reads, parses, calls the request *)
(* handler and writes, until it would block.                                 *)
(*                                                                         *)
(* Bytes are abstracted to pieces: "full" is a whole request that wants the   *)
(* connection kept, "close" one that does not, "head" a request whose body is *)
(* still to come, "expect" and "unsup" the same with Expect: 100-continue     *)
(* and with an expectation that is not supported, "rest" the end of the body  *)
(* (anything before it is body too), and "bad" what cannot be parsed.  An HTTP/2 connection leaves for Http2Server.       *)
(***************************************************************************)
EXTENDS Integers, Sequences, FiniteSets

CONSTANTS
    MAX_REQUESTS_PER_CONN,
    MAX_REQUEST_PIECES,   \* MAX_REQUEST_BYTES, in pieces
    Pieces,               \* the pieces a client sends
    MaxUnread             \* bound: pieces sent and not yet read

ASSUME Http11Assumption ==
    /\ MAX_REQUESTS_PER_CONN \in Nat \ {0} /\ MAX_REQUEST_PIECES \in Nat /\ MaxUnread \in Nat
    /\ Pieces \subseteq {"full", "close", "head", "rest", "expect", "unsup", "bad"}

VARIABLES
    h1,         \* Conn with its H1Conn
    wire,       \* what the client has sent and the edge has not read
    client      \* "open" or "closed": the client has shut down its sending side

h1vars == <<h1, wire, client>>

\* H1Conn as accept_pending or the end of a handshake makes it.  expired stands
\* for created: READ_TIMEOUT_SECS have passed since; turn tells one request of the
\* connection from the next.  interims and replies are history: interim and final
\* responses to the current request.
H1New(tls, kind) ==
    [tls |-> tls, kind |-> kind, state |-> "Reading", buf |-> <<>>,
     keep_alive |-> FALSE, served |-> 0, expect_handled |-> FALSE,
     expired |-> FALSE, turn |-> 0, announced |-> "none", interims |-> 0, replies |-> 0]

H1Done(c) == [c EXCEPT !.state = "Done", !.kind = "h1"]

-----------------------------------------------------------------------------
(* Writing a response.                                                       *)

\* Mutant of FinishResponse: what was served is not counted.
FinishResponseUncounted(c) ==
    IF c.keep_alive
      THEN [c EXCEPT !.state = "Reading", !.buf = <<>>, !.expect_handled = FALSE,
                     !.expired = FALSE, !.turn = 1 - @, !.interims = 0, !.replies = 0]
    ELSE H1Done(c)

\* finish_response: back to reading with an empty buffer, or done.
FinishResponse(c) ==
    LET d == [c EXCEPT !.served = @ + 1]
    IN  IF c.keep_alive /\ d.served < MAX_REQUESTS_PER_CONN
          THEN [d EXCEPT !.state = "Reading", !.buf = <<>>, !.expect_handled = FALSE,
                         !.expired = FALSE, !.turn = 1 - @, !.interims = 0, !.replies = 0]
        ELSE H1Done(d)

\* The Writing arm: all of it is written, some of it, nothing, or the socket fails.
DriveWriting(c) == {FinishResponse(c), c, H1Done(c)}

\* build_response, or a canned answer, becomes what is written.
StartWriting(c, announced) ==
    DriveWriting([c EXCEPT !.state = "Writing", !.buf = <<>>, !.announced = announced, !.replies = @ + 1])

\* A 204 or a 304 has no framing and says close whatever was decided.
Announced(c) == IF c.keep_alive THEN {"keep-alive", "close"} ELSE {"close"}

WritesAnswer(c) == UNION {StartWriting(c, a) : a \in Announced(c)}

-----------------------------------------------------------------------------
(* Reading a request.                                                        *)

\* parse_request on the pieces in the buffer.
ParseRequest(buf) ==
    CASE buf = <<>>                            -> "Incomplete"
      [] buf # <<>> /\ buf[1] \in {"full", "close"} -> "Complete"
      [] buf # <<>> /\ buf[1] \in {"bad", "rest"}   -> "Error"
      [] buf # <<>> /\ buf[1] \in {"head", "expect", "unsup"} ->
             IF \E i \in 2..Len(buf) : buf[i] = "rest" THEN "Complete" ELSE "Incomplete"

\* wants_keep_alive, and the cap on requests.
WantsKeepAlive(c) == c.buf[1] # "close" /\ c.served + 1 < MAX_REQUESTS_PER_CONN

\* on_request answers at once or hands the request to a URL backend.
Complete(c) ==
    LET d == [c EXCEPT !.keep_alive = WantsKeepAlive(c)]
    IN  WritesAnswer(d) \cup {[d EXCEPT !.state = "WaitingBackend", !.buf = <<>>]}

\* Mutant of Incomplete: the expectation is answered at every read.
IncompleteAgain(c) ==
    IF c.buf[1] = "expect" THEN {[c EXCEPT !.interims = @ + 1]}
    ELSE IF c.buf[1] = "unsup" THEN StartWriting(c, "close")
    ELSE {c}

\* The Expect field is dealt with once per request.
Incomplete(c) ==
    IF c.expect_handled THEN {c}
    ELSE LET d == [c EXCEPT !.expect_handled = TRUE]
         IN  IF c.buf[1] = "expect" THEN {[d EXCEPT !.interims = @ + 1]}
             ELSE IF c.buf[1] = "unsup" THEN StartWriting(d, "close")
             ELSE {d}

\* n pieces are read into the buffer, and the buffer is parsed.
DriveRead(c, n) ==
    LET d == [c EXCEPT !.buf = @ \o SubSeq(wire, 1, n)]
    IN  IF Len(d.buf) > MAX_REQUEST_PIECES THEN StartWriting(d, "close")
        ELSE CASE ParseRequest(d.buf) = "Incomplete" -> Incomplete(d)
               [] ParseRequest(d.buf) = "Error"      -> StartWriting(d, "close")
               [] OTHER                              -> Complete(d)

\* Nothing to read: the socket would block, is at its end, or fails.
DriveNothing(c) ==
    {H1Done(c)} \cup (IF client = "closed" /\ ~c.tls /\ c.buf = <<>> THEN {} ELSE {c})

-----------------------------------------------------------------------------
(* drive_conn.                                                               *)

H1Ready == h1.state # "Done" /\ h1.kind = "h1" /\ ~h1.expired

\* Over TLS the socket's end or a bad record ends the connection in any state.
TlsFails ==
    /\ h1.tls /\ h1.kind # "h2" /\ h1.state # "Done"
    /\ h1' = H1Done(h1)
    /\ UNCHANGED <<wire, client>>

\* The handshake is over: ALPN decides between HTTP/2 and HTTP/1.1.
HandshakeEnds ==
    /\ h1.kind = "handshake"
    /\ h1' \in {[h1 EXCEPT !.kind = "h2"], [h1 EXCEPT !.kind = "h1"]}
    /\ UNCHANGED <<wire, client>>

DriveTimeout ==
    /\ h1.kind = "h1" /\ h1.state # "Done"
    /\ h1.expired
    /\ h1' = H1Done(h1)
    /\ UNCHANGED <<wire, client>>

DriveReading ==
    /\ H1Ready /\ h1.state = "Reading" /\ wire # <<>>
    /\ \E n \in 1..Len(wire) :
          /\ h1' \in DriveRead(h1, n)
          /\ wire' = SubSeq(wire, n + 1, Len(wire))
    /\ UNCHANGED client

DriveReadsNothing ==
    /\ H1Ready /\ h1.state = "Reading" /\ wire = <<>>
    /\ h1' \in DriveNothing(h1)
    /\ UNCHANGED <<wire, client>>

\* The backend's answer, or its thread's death, is turned into a response.
DriveWaiting ==
    /\ H1Ready /\ h1.state = "WaitingBackend"
    /\ h1' \in {h1, H1Done(h1)} \cup WritesAnswer(h1)
    /\ UNCHANGED <<wire, client>>

DriveWrites ==
    /\ H1Ready /\ h1.state = "Writing"
    /\ h1' \in DriveWriting(h1)
    /\ UNCHANGED <<wire, client>>

-----------------------------------------------------------------------------
(* The client and the clock.                                                 *)

ClientSends(p) ==
    /\ client = "open" /\ h1.state # "Done" /\ h1.kind # "h2"
    /\ Len(wire) < MaxUnread
    /\ wire' = Append(wire, p)
    /\ UNCHANGED <<h1, client>>

ClientCloses ==
    /\ client = "open"
    /\ client' = "closed"
    /\ UNCHANGED <<h1, wire>>

TimePasses ==
    /\ ~h1.expired
    /\ h1.kind = "h1" /\ h1.state # "Done"
    /\ h1' = [h1 EXCEPT !.expired = TRUE]
    /\ UNCHANGED <<wire, client>>

H1Init ==
    /\ h1 \in {H1New(TRUE, "handshake"), H1New(FALSE, "h1")}
    /\ wire = <<>> /\ client = "open"

H1Drive == DriveTimeout \/ DriveReading \/ DriveReadsNothing \/ DriveWaiting \/ DriveWrites

H1Next ==
    \/ H1Drive \/ TlsFails \/ HandshakeEnds
    \/ \E p \in Pieces : ClientSends(p)
    \/ ClientCloses \/ TimePasses

\* The loop drives every connection in every iteration, and a request that is
\* never finished runs out of time.
H1Fairness ==
    /\ WF_h1vars(H1Drive)
    /\ \A k \in {0, 1} : WF_h1vars(TimePasses /\ h1.turn = k)
H1Spec == H1Init /\ [][H1Next]_h1vars /\ H1Fairness

-----------------------------------------------------------------------------
(* Properties.                                                               *)

\* However a request is split over reads, refused or answered late, it is
\* answered at most once, and its expectation at most once: a second interim
\* response would be taken for the answer (expect_handled, drive_h1).
H1AnsweredOnce == h1.interims <= 1 /\ h1.replies <= 1

\* Every HTTP/1.1 connection ends, whatever its client, the backend and the
\* socket do, a client that never stops asking included: the idle clock covers
\* every state and the cap covers the clock's restarts (drive_h1,
\* finish_response).
H1ConnectionsEnd == (h1.kind = "h1") ~> (h1.state = "Done")
=============================================================================
