----------------------------- MODULE Http3Conn -----------------------------
(***************************************************************************)
(* One QUIC connection of the edge and the HTTP/3 requests on it              *)
(* (m6-http/src/main.rs: drain_udp, process_h3, handle_h3_request,            *)
(* send_h3_response, drain_writable, flush_all, and the poll of pending_url). *)
(* quiche, the QUIC library, is external: it reports events and takes as many *)
(* bytes of a body as flow control allows, which is any number here.          *)
(*                                                                         *)
(* What the request pipeline does with a request is in RequestPipeline; here  *)
(* it has a lookup result and an outcome.  A connection opened by 0-RTT data  *)
(* handles requests before the handshake has completed: anyone can send       *)
(* those again.                                                              *)
(***************************************************************************)
EXTENDS Integers, FiniteSets

CONSTANTS
    H3Streams,        \* stream ids
    MAX_H3_BODY,      \* in pieces
    MaxResponse       \* bound: pieces of a response's body

ASSUME H3Assumption == MAX_H3_BODY \in Nat /\ MaxResponse \in Nat

VARIABLES
    qconn,     \* QuicConn: "none", "handshake", "early", "established" or "closed"; h3_conn; handshake_recorded
    qmap,      \* conn_id_map has the client's id
    qs,        \* per stream: PendingRequest, pending_url, partial_responses
    qhist      \* history: early: a backend was asked, or a refresh queued, for early data

h3vars == <<qconn, qmap, qs, qhist>>

\* pend: the request being read, by what its headers are; "none" when there is none.
\* out: PendingH3Response.  sent, hdrs, fin and shut are what the client was sent.
H3NewStream ==
    [pend |-> "none", body |-> 0, url |-> FALSE, out |-> "none", left |-> 0,
     got |-> "idle", hdrs |-> 0, sent |-> 0, size |-> 0, fin |-> FALSE, shut |-> FALSE, lost |-> FALSE]

NoConn == [state |-> "none", h3 |-> FALSE, recorded |-> FALSE]

-----------------------------------------------------------------------------
(* Sending.                                                                  *)

\* send_body took w of what is left.  The fin goes with the last piece.
TookBody(t, w) ==
    IF w = t.left THEN [t EXCEPT !.sent = @ + w, !.left = 0, !.out = "none", !.fin = TRUE]
    ELSE [t EXCEPT !.sent = @ + w, !.left = @ - w, !.out = "body"]

\* Any part of it, or an error that drops the rest.
SendBody(t) ==
    {TookBody(t, w) : w \in 0..t.left} \cup {[t EXCEPT !.out = "none", !.lost = TRUE]}

\* send_response: blocked (kept whole), an error (dropped), or sent and then the body.
SendResponse(t) ==
    {[t EXCEPT !.out = "headers"], [t EXCEPT !.out = "none", !.lost = TRUE]} \cup
    LET sent == [t EXCEPT !.out = "none", !.hdrs = @ + 1]
    IN  IF t.left = 0 THEN {[sent EXCEPT !.fin = TRUE]} ELSE SendBody(sent)

\* send_h3_response: a HEAD, a 304 and the refusals have no body.
SendH3Response(t, size) == SendResponse([t EXCEPT !.size = size, !.left = size])

\* Mutant of DrainBody: the offset of what was written before is not kept.
DrainBodyAgain(t) == SendBody([t EXCEPT !.left = t.size])

\* drain_writable, for a stream that became writable.
DrainBody(t) == SendBody(t)

DrainWritable(s) ==
    /\ qconn.h3 /\ qconn.state # "closed"
    /\ qs[s].out # "none"
    /\ \E t \in IF qs[s].out = "headers" THEN SendResponse(qs[s]) ELSE DrainBody(qs[s]) :
          qs' = [qs EXCEPT ![s] = t]
    /\ UNCHANGED <<qconn, qmap, qhist>>

-----------------------------------------------------------------------------
(* A whole request: handle_h3_request.                                       *)

\* The pipeline answers at once, or a fetch starts.
Handled(t) ==
    (UNION {SendH3Response(t, n) : n \in 0..MaxResponse}) \cup {[t EXCEPT !.url = TRUE]}

\* What becomes of the stream; fetch and refresh tell whether a backend was asked.
H3Outcome(t, fetch, refresh) == [stream |-> t, fetch |-> fetch, refresh |-> refresh]

\* Mutant of EarlyRefused: a stale entry is good enough for early data.
EarlyRefusedMiss(kind, lookup) == kind = "post" \/ lookup = "Miss"

\* 425: a method that may change something, or anything a fresh entry does not answer.
EarlyRefused(kind, lookup) == kind = "post" \/ lookup # "Fresh"

HandleH3Request(t, kind, lookup) ==
    LET u == [t EXCEPT !.pend = "none", !.body = 0]
        quiet(ts) == {H3Outcome(x, FALSE, FALSE) : x \in ts}
    IN  IF kind = "bad" THEN quiet({[u EXCEPT !.shut = TRUE]})
        ELSE quiet(SendH3Response(u, 0)) \cup     \* rate limited, redirected or only-if-cached
             IF qconn.state # "established" /\ EarlyRefused(kind, lookup)
               THEN quiet(SendH3Response(u, 0))
             ELSE IF lookup # "Miss"
               THEN {H3Outcome(x, FALSE, lookup = "Stale") :
                        x \in UNION {SendH3Response(u, n) : n \in 0..MaxResponse}}
             ELSE {H3Outcome(x, TRUE, FALSE) : x \in Handled(u)}

\* Only a read may be answered from the cache.
LookupResults(kind) == IF kind = "get" THEN {"Fresh", "Stale", "Miss"} ELSE {"Miss"}

\* The request t.pend of stream s is handled.
H3Handle(s, t) ==
    \E lookup \in LookupResults(t.pend) : \E o \in HandleH3Request(t, t.pend, lookup) :
        /\ qs' = [qs EXCEPT ![s] = o.stream]
        /\ qhist' = [qhist EXCEPT !.early = @ \/ (qconn.state # "established" /\ (o.fetch \/ o.refresh))]

-----------------------------------------------------------------------------
(* drain_udp: a datagram arrives.                                            *)

\* An Initial of an unknown id makes a connection; if the id is mapped to one that has
\* gone, the datagram is dropped.
RecvInitial ==
    /\ qconn.state = "none" /\ ~qmap
    /\ \E st \in {"handshake", "early"} : qconn' = [NoConn EXCEPT !.state = st, !.h3 = st = "early"]
    /\ qmap' = TRUE
    /\ UNCHANGED <<qs, qhist>>

\* The handshake completes: counted once, and HTTP/3 starts unless it already has.
Established(c) == [c EXCEPT !.state = "established", !.h3 = TRUE, !.recorded = TRUE]

RecvEstablished ==
    /\ qconn.state \in {"handshake", "early", "established"} /\ ~qconn.recorded
    /\ qconn' = Established(qconn)
    /\ UNCHANGED <<qmap, qs, qhist>>

Polling(s) == qconn.h3 /\ qconn.state # "closed" /\ ~qs[s].shut /\ qs[s].got # "reset"

\* Event::Headers, with more frames to come.
RecvHeaders(s, kind) ==
    /\ Polling(s) /\ qs[s].got = "idle"
    /\ qs' = [qs EXCEPT ![s].pend = kind, ![s].got = "open"]
    /\ UNCHANGED <<qconn, qmap, qhist>>

\* Event::Headers that end the request.
RecvRequest(s, kind) ==
    /\ Polling(s) /\ qs[s].got = "idle"
    /\ H3Handle(s, [qs[s] EXCEPT !.pend = kind, !.got = "finished"])
    /\ UNCHANGED <<qconn, qmap>>

\* Event::Headers again, the trailers: they take the place of the headers, and have no
\* pseudo-header fields.
RecvTrailers(s) ==
    /\ Polling(s) /\ qs[s].got = "open"
    /\ H3Handle(s, [qs[s] EXCEPT !.pend = "bad", !.got = "finished"])
    /\ UNCHANGED <<qconn, qmap>>

\* Event::Data: kept, or past the limit answered with 413 and forgotten.
RecvData(s) ==
    /\ Polling(s) /\ qs[s].got = "open"
    /\ qs[s].pend # "none"
    /\ IF qs[s].body + 1 > MAX_H3_BODY
         THEN \E t \in {[qs[s] EXCEPT !.hdrs = @ + 1, !.fin = TRUE], [qs[s] EXCEPT !.lost = TRUE]} :
                qs' = [qs EXCEPT ![s] = [t EXCEPT !.pend = "none", !.body = 0]]
       ELSE qs' = [qs EXCEPT ![s].body = @ + 1]
    /\ UNCHANGED <<qconn, qmap, qhist>>

\* Event::Finished: handled unless it already was.
RecvFinished(s) ==
    /\ Polling(s) /\ qs[s].got = "open"
    /\ LET t == [qs[s] EXCEPT !.got = "finished"]
       IN  IF t.pend # "none" THEN H3Handle(s, t)
           ELSE qs' = [qs EXCEPT ![s] = t] /\ UNCHANGED qhist
    /\ UNCHANGED <<qconn, qmap>>

\* Event::Reset: what was read of the request stays.
RecvReset(s) ==
    /\ Polling(s) /\ qs[s].got = "open"
    /\ qs' = [qs EXCEPT ![s].got = "reset"]
    /\ UNCHANGED <<qconn, qmap, qhist>>

-----------------------------------------------------------------------------
(* The rest of the loop.                                                     *)

\* A URL backend's answer, or its failure, for a stream of this connection.
PollPendingUrl(s) ==
    /\ qs[s].url /\ qconn.state # "closed"
    /\ \E n \in 0..MaxResponse : \E t \in SendH3Response([qs[s] EXCEPT !.url = FALSE], n) :
          qs' = [qs EXCEPT ![s] = t]
    /\ UNCHANGED <<qconn, qmap, qhist>>

\* Closed by the peer, a timeout or an error: removed, with everything it held; its
\* entry in conn_id_map stays.
H3Close ==
    /\ qconn.state \notin {"none", "closed"}
    /\ qconn' = [NoConn EXCEPT !.state = "closed"]
    /\ qs' = [s \in H3Streams |-> [qs[s] EXCEPT !.pend = "none", !.url = FALSE, !.out = "none", !.body = 0]]
    /\ UNCHANGED <<qmap, qhist>>

H3Init ==
    /\ qconn = NoConn /\ qmap = FALSE
    /\ qs = [s \in H3Streams |-> H3NewStream]
    /\ qhist = [early |-> FALSE]

H3Next ==
    \/ RecvInitial \/ RecvEstablished \/ H3Close
    \/ \E s \in H3Streams :
         \/ \E kind \in {"get", "post", "bad"} : RecvHeaders(s, kind) \/ RecvRequest(s, kind)
         \/ RecvTrailers(s) \/ RecvData(s) \/ RecvFinished(s) \/ RecvReset(s)
         \/ PollPendingUrl(s) \/ DrainWritable(s)

H3Spec == H3Init /\ [][H3Next]_h3vars

-----------------------------------------------------------------------------
(* Properties.                                                               *)

\* A stream is answered once: headers once, then exactly the body, whatever parts flow
\* control took it in and whichever of the four places sent the first part.  And none is
\* forgotten: a request read to its end is answered, being answered, waiting for a
\* backend, or was refused or given up after an error of its stream.
H3EachAnsweredWhole ==
    \A s \in H3Streams : LET t == qs[s] IN
        /\ t.hdrs <= 1
        /\ t.fin => t.sent = t.size /\ t.out = "none"
        /\ t.out = "body" => t.sent + t.left = t.size
        /\ qconn.state \notin {"none", "closed"} /\ t.got = "finished" =>
               t.fin \/ t.shut \/ t.lost \/ t.url \/ t.out # "none"

\* Early data has no effect that its replay would repeat: no backend is asked for it, not
\* even to refresh a stale entry.
H3EarlyDataIsHarmless == ~qhist.early

\* What the edge owes an HTTP/3 connection.
H3Contract == H3EachAnsweredWhole /\ H3EarlyDataIsHarmless
=============================================================================
