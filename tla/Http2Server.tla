---------------------------- MODULE Http2Server ----------------------------
(***************************************************************************)
(* The edge's inbound HTTP/2 connection (m6-http/src/http2.rs).              *)
(* The event loop calls drive(), which takes the answers of URL backends,     *)
(* reads what has arrived, processes it frame by frame and flushes bodies     *)
(* as far as the peer's windows allow.                                       *)
(*                                                                         *)
(* The connection is one record, h2, and each handler an operator from it     *)
(* to the set of its successors: a set, because the streams are iterated in   *)
(* hash order and the request handler's outcome is not the connection's.      *)
(* The peer is external and sends any frame.  A header block is abstracted    *)
(* to the request it carries; the clock to which resets are older than        *)
(* RESET_DECAY.                                                              *)
(***************************************************************************)
EXTENDS Integers, Sequences, FiniteSets, SequencesExt

CONSTANTS
    H2_WINDOW, H2_MAX_WINDOW,   \* initial and largest window
    MAX_FRAME_SIZE,               \* largest DATA payload accepted
    MAX_CONCURRENT, RESET_MEMORY, MAX_REFUSED_STREAK,
    MAX_H2_BODY, MAX_HEADER_BLOCK,
    H2Ids,                        \* stream ids the peer uses
    H2Windows, H2Increments,      \* SETTINGS_INITIAL_WINDOW_SIZE, WINDOW_UPDATE
    H2Responses,                  \* lengths of response bodies
    MaxH2Frames                   \* bound: frames the peer sends

ASSUME H2ServerAssumption ==
    /\ H2_WINDOW \in Nat /\ H2_MAX_WINDOW \in Nat /\ H2_WINDOW <= H2_MAX_WINDOW
    /\ MAX_FRAME_SIZE \in Nat /\ 2 * MAX_FRAME_SIZE <= H2_WINDOW
    /\ MAX_CONCURRENT \in Nat /\ RESET_MEMORY \in Nat /\ MAX_REFUSED_STREAK \in Nat
    /\ MAX_H2_BODY \in Nat /\ MAX_HEADER_BLOCK \in Nat
    /\ H2Ids \subseteq Nat \ {0}
    /\ H2Windows \subseteq 0..H2_MAX_WINDOW /\ H2Increments \subseteq 0..H2_MAX_WINDOW
    /\ H2Responses \subseteq Nat /\ MaxH2Frames \in Nat

VARIABLES
    h2,        \* Http2Conn
    h2pc,      \* "idle", or "frames" while drive processes frames
    h2frames   \* frames the peer has sent

h2vars == <<h2, h2pc, h2frames>>

NoBody == -1   \* resp_body is None

\* Http2Conn::new.  dispatched, answered, given_up and sent are history.
NewConn ==
    [phase |-> "Preface", streams |-> <<>>, last_stream_id |-> 0,
     recently_reset |-> <<>>, refused_streak |-> 0, closed_windows |-> <<>>,
     peer_goaway |-> FALSE, goaway |-> <<>>,
     continuation |-> 0, block |-> 0, block_req |-> "none",
     peer_initial_window |-> H2_WINDOW,
     conn_recv_window |-> H2_WINDOW, conn_send_window |-> H2_WINDOW,
     overrun |-> FALSE,
     dispatched |-> [i \in H2Ids |-> 0], answered |-> [i \in H2Ids |-> 0],
     given_up |-> {}, conn_granted |-> H2_WINDOW, conn_sent |-> 0]

\* H2Stream::new.
NewH2Stream(window) ==
    [state |-> "Open", req |-> "none", body |-> 0, headers_done |-> FALSE,
     send_window |-> window, recv_window |-> H2_WINDOW,
     resp_body |-> NoBody, resp_sent |-> 0, pending |-> "no"]

-----------------------------------------------------------------------------
(* Streams and what is remembered of the closed ones.                        *)

H2Open(c) == DOMAIN c.streams
With(c, id, s) == [c EXCEPT !.streams = [i \in H2Open(c) \cup {id} |-> IF i = id THEN s ELSE @[i]]]
H2Without(c, id) == [c EXCEPT !.streams = [i \in H2Open(c) \ {id} |-> @[i]]]

Remembered(q, e) == Append(IF Len(q) >= RESET_MEMORY THEN Tail(q) ELSE q, e)
NoteReset(c, id) == [c EXCEPT !.recently_reset = Remembered(@, [id |-> id, hot |-> TRUE])]
WasReset(c, id) == \E k \in DOMAIN c.recently_reset : c.recently_reset[k].id = id
CloseRememberingWindow(c, id) ==
    H2Without([c EXCEPT !.closed_windows = Remembered(@, [id |-> id, window |-> c.streams[id].send_window])], id)

ActiveStreams(c) ==
    Cardinality(H2Open(c))
      + Cardinality({k \in DOMAIN c.recently_reset :
                        c.recently_reset[k].hot /\ c.recently_reset[k].id % 2 = 1})

H2GoAway(c, code) == [c EXCEPT !.goaway = Append(@, code)]
GoAwayAnd(c, code) == [H2GoAway(c, code) EXCEPT !.phase = "GoingAway"]

\* RST_STREAM is sent; what the stream still owed will not be sent.
H2RstStream(c, id) == [c EXCEPT !.given_up = @ \cup {id}]
Reset(c, id) == H2Without(H2RstStream(c, id), id)

\* A handler's Err: drive answers it with a GOAWAY unless one was sent, and stops.
H2Fatal(c) == [IF c.goaway = <<>> THEN H2GoAway(c, "PROTOCOL_ERROR") ELSE c EXCEPT !.phase = "Done"]

-----------------------------------------------------------------------------
(* Sending.                                                                  *)

\* Mutant of FlushStream: the connection's window is not charged.
FlushStreamFree(c, id) ==
    IF id \notin H2Open(c) \/ c.streams[id].resp_body = NoBody THEN c
    ELSE LET s == c.streams[id]
             n == Min({s.resp_body - s.resp_sent, s.send_window})
         IN  IF n <= 0 THEN c
             ELSE [With(c, id, [s EXCEPT !.send_window = @ - n, !.resp_sent = @ + n])
                      EXCEPT !.conn_sent = @ + n]

\* flush_pending_streams, for one stream: as many DATA frames as both windows
\* allow, the last one with END_STREAM.
FlushStream(c, id) ==
    IF id \notin H2Open(c) \/ c.streams[id].resp_body = NoBody THEN c
    ELSE LET s == c.streams[id]
             remaining == s.resp_body - s.resp_sent
             n == Min({remaining, c.conn_send_window, s.send_window})
             t == [s EXCEPT !.send_window = @ - n, !.resp_sent = @ + n]
             d == [With(c, id, t) EXCEPT !.conn_send_window = @ - n, !.conn_sent = @ + n]
         IN  IF remaining = 0 THEN CloseRememberingWindow(c, id)
             ELSE IF n <= 0 THEN c
             ELSE IF n < remaining THEN d
             ELSE IF s.state = "HalfClosedRemote" THEN CloseRememberingWindow(d, id)
             ELSE With(d, id, [t EXCEPT !.state = "HalfClosedLocal"])

Orders(S) == SetToSeqs(S)
FlushPending(c) == {FoldLeft(FlushStream, c, o) : o \in Orders(H2Open(c))}

\* The response's HEADERS, its body queued and flushed (HEAD: no body).
Respond(c, id, len) ==
    FlushPending([With(c, id, [c.streams[id] EXCEPT !.resp_body = len, !.resp_sent = 0, !.pending = "no"])
                     EXCEPT !.answered[id] = @ + 1])

-----------------------------------------------------------------------------
(* Dispatching a request.                                                    *)

\* get_declared has Content-Length: 1; bad is a GET with malformed fields.
IsHeadersOnly(req) == req \in {"get", "get_declared", "bad"}

\* Mutant of DispatchReady: a request under way is not excluded.
DispatchReadyAgain(s) ==
    s.headers_done /\ (s.state = "HalfClosedRemote" \/ IsHeadersOnly(s.req)) /\ s.resp_body = NoBody

DispatchReady(s) ==
    /\ s.headers_done
    /\ s.state = "HalfClosedRemote" \/ IsHeadersOnly(s.req)
    /\ s.resp_body = NoBody
    /\ s.pending = "no"

\* Content-Length disagrees with the DATA received, or the fields are malformed.
Malformed(s) == s.req \in {"bad", "bad_post"} \/ (s.req = "get_declared" /\ s.body # 1)

\* The handler answers at once, or leaves it to a URL backend's thread.
Dispatched(c, id) ==
    (UNION {Respond(c, id, n) : n \in H2Responses})
      \cup {With(c, id, [c.streams[id] EXCEPT !.pending = "waiting"])}

MaybeDispatch(c, id) ==
    IF id \notin H2Open(c) \/ ~DispatchReady(c.streams[id]) THEN {c}
    ELSE IF Malformed(c.streams[id]) THEN {Reset(c, id)}
    ELSE Dispatched([c EXCEPT !.dispatched[id] = @ + 1], id)

\* A URL backend's answer is in the channel, or its thread died.
H2Answered(c) == {i \in H2Open(c) : c.streams[i].pending = "ready"}

\* poll_pending_url: every answer that has arrived is sent, in hash order.
TakeAnswer(cs, id) == UNION {UNION {Respond(d, id, n) : n \in H2Responses} : d \in cs}
PollPending(c) == UNION {FoldLeft(TakeAnswer, {c}, o) : o \in Orders(H2Answered(c))}

-----------------------------------------------------------------------------
(* Verdicts.                                                                 *)

StreamState(c, id) ==
    IF id \in H2Open(c) THEN c.streams[id].state
    ELSE IF id > c.last_stream_id THEN "Idle" ELSE "Closed"

NeedsStream == {"DATA", "HEADERS", "PRIORITY", "RST_STREAM", "PUSH_PROMISE", "CONTINUATION"}
NeedsConnection == {"SETTINGS", "PING", "GOAWAY"}

\* frame_shape_verdict: "none", or what is wrong and how far it reaches.
ShapeVerdict(f) ==
    IF (f.type \in NeedsStream /\ f.id = 0) \/ (f.type \in NeedsConnection /\ f.id # 0)
      THEN [level |-> "connection", code |-> "PROTOCOL_ERROR"]
    ELSE IF f.flaw # "length" THEN [level |-> "none"]
    ELSE [level |-> IF f.type = "PRIORITY" THEN "stream" ELSE "connection", code |-> "FRAME_SIZE"]

\* frame_verdict: which frames a stream's state allows.
FrameVerdict(c, f) ==
    LET state == StreamState(c, f.id)
        late  == f.type \in {"WINDOW_UPDATE", "RST_STREAM"}
    IN  IF f.id = 0 \/ f.type = "PRIORITY" THEN [level |-> "none"]
        ELSE IF state = "Idle" /\ f.type # "HEADERS"
               THEN [level |-> "connection", code |-> "PROTOCOL_ERROR"]
        ELSE IF state = "HalfClosedRemote" /\ ~late
               THEN [level |-> "stream", code |-> "STREAM_CLOSED"]
        ELSE IF state = "Closed" /\ ~late
               THEN [level |-> IF WasReset(c, f.id) THEN "stream" ELSE "connection",
                     code |-> "STREAM_CLOSED"]
        ELSE [level |-> "none"]

-----------------------------------------------------------------------------
(* The handlers.                                                             *)

\* A stream whose window SETTINGS moved.
Resized(s, by) == [s EXCEPT !.send_window = @ + by]

\* The addition overflows an i32, and the release build aborts: nothing more is done.
WindowOverflows(c, by) == \E i \in H2Open(c) : c.streams[i].send_window + by > H2_MAX_WINDOW

HandleSettings(c, f) ==
    IF f.ack THEN {c}
    ELSE IF f.flaw = "value" THEN {H2Fatal(c)}
    ELSE IF WindowOverflows(c, f.window - c.peer_initial_window) THEN {[c EXCEPT !.phase = "Done"]}
    ELSE {[c EXCEPT !.peer_initial_window = f.window,
                    !.streams = [i \in H2Open(c) |->
                        Resized(@[i], f.window - c.peer_initial_window)]]}

\* WINDOW_UPDATE for a stream that is gone, its window remembered or not.
UpdateClosed(c, f) ==
    IF ~\E k \in DOMAIN c.closed_windows : c.closed_windows[k].id = f.id
      THEN FlushPending(c)
    ELSE LET k == CHOOSE j \in DOMAIN c.closed_windows : c.closed_windows[j].id = f.id
             w == c.closed_windows[k].window + f.inc
         IN  IF w > H2_MAX_WINDOW
               THEN {NoteReset(H2RstStream([c EXCEPT !.closed_windows = RemoveAt(@, k)], f.id), f.id)}
             ELSE FlushPending([c EXCEPT !.closed_windows[k].window = w])

HandleWindowUpdate(c, f) ==
    IF f.inc = 0 THEN {H2Fatal(c)}
    ELSE IF f.id = 0
      THEN IF c.conn_send_window + f.inc > H2_MAX_WINDOW
             THEN {H2Fatal(GoAwayAnd(c, "FLOW_CONTROL"))}
           ELSE FlushPending([c EXCEPT !.conn_send_window = @ + f.inc, !.conn_granted = @ + f.inc])
    ELSE IF f.id \notin H2Open(c) THEN UpdateClosed(c, f)
    ELSE IF c.streams[f.id].send_window + f.inc > H2_MAX_WINDOW
      THEN {NoteReset(Reset(c, f.id), f.id)}
    ELSE FlushPending([c EXCEPT !.streams[f.id].send_window = @ + f.inc])

\* A header block is complete: it is decoded and opens the request or ends it.
\* headers.extend: a first block without pseudo-headers, or a later one with
\* them, is found out by validate_request_headers.
H2HeadersDone(c, id, req) ==
    LET s == c.streams[id]
        merged == IF s.req = "none" THEN (IF req = "trailers" THEN "bad_post" ELSE req)
                  ELSE IF req = "trailers" THEN s.req ELSE "bad_post"
    IN  With(c, id, [s EXCEPT !.req = merged, !.headers_done = TRUE])

\* Refusals before a stream is opened (a repeated id, a peer that is leaving,
\* the concurrency cap).
RefusesHeaders(c, f) ==
    \/ f.id % 2 = 0
    \/ f.id \notin H2Open(c) /\ (f.id <= c.last_stream_id \/ c.peer_goaway)
    \/ ActiveStreams(c) >= MAX_CONCURRENT

RefuseHeaders(c, f) ==
    LET d == [H2RstStream(c, f.id) EXCEPT !.last_stream_id = Max({@, f.id})]
        e == [NoteReset(d, f.id) EXCEPT !.refused_streak = @ + 1]
    IN  IF f.id % 2 = 0 THEN {H2Fatal(c)}
        ELSE IF f.id <= c.last_stream_id /\ f.id \notin H2Open(c)
               THEN {GoAwayAnd(c, "PROTOCOL_ERROR")}
        ELSE IF c.peer_goaway /\ f.id \notin H2Open(c) THEN {d}
        ELSE IF e.refused_streak >= MAX_REFUSED_STREAK
               THEN {H2Fatal(GoAwayAnd(e, "ENHANCE_YOUR_CALM"))}
        ELSE {e}

\* Padding and priority fields.
BadHeaders(c, f) ==
    CASE f.flaw = "padding"  -> {H2Fatal(c)}
      [] f.flaw = "priority" -> {H2Fatal(H2RstStream(c, f.id))}
      [] f.flaw = "self"     -> {H2RstStream(c, f.id)}

\* A second block on a stream must end it and hold no pseudo-header.
BadTrailers(c, f) ==
    c.streams[f.id].headers_done /\ (~f.end_stream \/ f.req # "trailers")

\* handle_headers, from the stream's entry on.
OpenHeaders(c, f) ==
    LET s == IF f.id \in H2Open(c) THEN c.streams[f.id] ELSE NewH2Stream(c.peer_initial_window)
        d == With(c, f.id, IF f.end_stream THEN [s EXCEPT !.state = "HalfClosedRemote"] ELSE s)
    IN  IF f.end_headers
          THEN IF f.flaw = "hpack"
                 THEN {H2Fatal(GoAwayAnd(d, "COMPRESSION"))}
               ELSE IF BadTrailers(d, f) THEN {Reset(d, f.id)}
               ELSE MaybeDispatch(H2HeadersDone(d, f.id, f.req), f.id)
        ELSE MaybeDispatch([d EXCEPT !.block = 1, !.continuation = f.id, !.block_req = f.req], f.id)

HandleHeaders(c, f) ==
    LET d == [c EXCEPT !.refused_streak = 0, !.last_stream_id = Max({@, f.id})]
    IN  IF RefusesHeaders(c, f) THEN RefuseHeaders(c, f)
        ELSE IF f.flaw \in {"padding", "priority", "self"} THEN BadHeaders(d, f)
        ELSE OpenHeaders(d, f)

HandleContinuation(c, f) ==
    IF c.block + 1 > MAX_HEADER_BLOCK
      THEN {H2Fatal(GoAwayAnd(c, "ENHANCE_YOUR_CALM"))}
    ELSE IF ~f.end_headers THEN {[c EXCEPT !.block = @ + 1]}
    ELSE LET d == [c EXCEPT !.block = 0, !.continuation = 0, !.block_req = "none"]
         IN  IF f.flaw = "hpack" THEN {H2Fatal(GoAwayAnd(d, "COMPRESSION"))}
             ELSE IF f.id \notin H2Open(c) THEN {d}
             ELSE MaybeDispatch(H2HeadersDone(d, f.id, c.block_req), f.id)

\* A receive window below half is announced whole again.
Replenished(window) == IF window < H2_WINDOW \div 2 THEN H2_WINDOW ELSE window

\* The stream's part of handle_data.
StreamData(c, f) ==
    LET s == c.streams[f.id]
        t == [s EXCEPT !.recv_window = Replenished(@ - f.charged), !.body = @ + f.len,
                       !.state = IF f.end_stream THEN "HalfClosedRemote" ELSE @]
    IN  IF s.recv_window < f.charged THEN {[H2Fatal(c) EXCEPT !.overrun = TRUE]}
        ELSE IF s.body + f.len > MAX_H2_BODY THEN {Reset(c, f.id)}
        ELSE IF f.end_stream /\ s.headers_done THEN MaybeDispatch(With(c, f.id, t), f.id)
        ELSE {With(c, f.id, t)}

HandleData(c, f) ==
    LET d == [c EXCEPT !.conn_recv_window = Replenished(@ - f.charged)]
    IN  IF f.flaw = "padding" THEN {H2Fatal(c)}
        ELSE IF c.conn_recv_window < f.charged THEN {[H2Fatal(c) EXCEPT !.overrun = TRUE]}
        ELSE IF f.id \notin H2Open(c) THEN {d}
        ELSE StreamData(d, f)

HandleRst(c, f) ==
    {NoteReset([H2Without(c, f.id) EXCEPT !.last_stream_id = Max({@, f.id}),
                                         !.given_up = @ \cup {f.id}], f.id)}

HandlePriority(c, f) ==
    {IF f.flaw = "self" THEN NoteReset(Reset(c, f.id), f.id) ELSE c}

Handle(c, f) ==
    CASE f.type = "DATA"          -> HandleData(c, f)
      [] f.type = "HEADERS"       -> HandleHeaders(c, f)
      [] f.type = "PRIORITY"      -> HandlePriority(c, f)
      [] f.type = "RST_STREAM"    -> HandleRst(c, f)
      [] f.type = "SETTINGS"      -> HandleSettings(c, f)
      [] f.type = "PUSH_PROMISE"  -> {H2Fatal(c)}
      [] f.type = "PING"          -> {c}
      [] f.type = "GOAWAY"        -> {[c EXCEPT !.peer_goaway = TRUE]}
      [] f.type = "WINDOW_UPDATE" -> HandleWindowUpdate(c, f)
      [] f.type = "CONTINUATION"  -> HandleContinuation(c, f)

\* process_frame, for a frame that is complete in the buffer.
ProcessFrame(c, f) ==
    LET shape   == ShapeVerdict(f)
        verdict == IF c.continuation # 0 THEN [level |-> "none"] ELSE FrameVerdict(c, f)
    IN  IF f.flaw = "oversize" THEN {H2Fatal(GoAwayAnd(c, "FRAME_SIZE"))}
        ELSE IF (f.type = "CONTINUATION" /\ f.id # c.continuation)
                \/ (f.type # "CONTINUATION" /\ c.continuation # 0) THEN {H2Fatal(c)}
        ELSE IF f.type = "CONTINUATION" /\ c.continuation = 0 THEN {H2Fatal(c)}
        ELSE IF shape.level = "connection" THEN {GoAwayAnd(c, shape.code)}
        ELSE IF shape.level = "stream" THEN {NoteReset(Reset(c, f.id), f.id)}
        ELSE IF verdict.level = "connection" THEN {GoAwayAnd(c, verdict.code)}
        ELSE IF verdict.level = "stream" THEN {Reset(c, f.id)}
        ELSE Handle(c, f)

-----------------------------------------------------------------------------
(* The peer's frames.                                                        *)

HeadersFrame(id, req, end_stream, end_headers, flaw) ==
    [type |-> "HEADERS", id |-> id, req |-> req, end_stream |-> end_stream,
     end_headers |-> end_headers, flaw |-> flaw]
DataFrame(id, len, end_stream) ==
    [type |-> "DATA", id |-> id, len |-> len, charged |-> Min({len + 1, MAX_FRAME_SIZE}),
     end_stream |-> end_stream, flaw |-> "none"]
UpdateFrame(id, inc) == [type |-> "WINDOW_UPDATE", id |-> id, inc |-> inc, flaw |-> "none"]
SettingsFrame(ack, window, flaw) ==
    [type |-> "SETTINGS", id |-> 0, ack |-> ack, window |-> window, flaw |-> flaw]
ContinuationFrame(id, end_headers, flaw) ==
    [type |-> "CONTINUATION", id |-> id, end_headers |-> end_headers, flaw |-> flaw]
PlainFrame(type, id, flaw) == [type |-> type, id |-> id, flaw |-> flaw]

HeadersFrames ==
    {HeadersFrame(i, r, e, TRUE, "none") : i \in H2Ids, r \in {"get", "post", "trailers"}, e \in BOOLEAN}
      \cup {HeadersFrame(i, r, TRUE, FALSE, "none") : i \in H2Ids, r \in {"get", "trailers"}}
      \cup {HeadersFrame(i, r, FALSE, TRUE, "none") : i \in H2Ids, r \in {"bad", "get_declared"}}
      \cup {HeadersFrame(i, "get", TRUE, TRUE, w) : i \in H2Ids, w \in {"padding", "priority", "self", "hpack"}}
DataFrames == {DataFrame(i, n, e) : i \in H2Ids, n \in {0, MAX_FRAME_SIZE}, e \in BOOLEAN}
StreamFrames ==
    {PlainFrame("RST_STREAM", i, "none") : i \in H2Ids}
      \cup {PlainFrame("PRIORITY", i, w) : i \in H2Ids, w \in {"none", "self", "length"}}
      \cup {ContinuationFrame(i, e, w) : i \in H2Ids, e \in BOOLEAN, w \in {"none", "hpack"}}
UpdateFrames == {UpdateFrame(i, n) : i \in H2Ids \cup {0}, n \in H2Increments}
SettingsFrames ==
    {SettingsFrame(FALSE, w, "none") : w \in H2Windows}
      \cup {SettingsFrame(FALSE, 0, "value"), SettingsFrame(TRUE, 0, "none")}
ControlFrames ==
    {PlainFrame("PING", 0, "none"), PlainFrame("PING", 1, "none"), PlainFrame("PING", 0, "length"),
     PlainFrame("GOAWAY", 0, "none"), PlainFrame("PUSH_PROMISE", 1, "none"), PlainFrame("DATA", 1, "oversize")}
H2Frames == HeadersFrames \cup DataFrames \cup StreamFrames \cup UpdateFrames \cup SettingsFrames \cup ControlFrames

-----------------------------------------------------------------------------
(* drive.                                                                    *)

\* fill_recv takes what there is, or fails: end of file, a TLS or a socket error.
FillRecv(c) == {[next |-> "frames", c |-> c], [next |-> "idle", c |-> [c EXCEPT !.phase = "Done"]]}

\* flush_io writes as much of the send buffer as the socket takes, or fails.
FlushIo(c) == {c, [c EXCEPT !.phase = "Done"]}

\* The answers that arrived are sent, then the socket is read.
DriveStart ==
    /\ h2pc = "idle"
    /\ h2.phase # "Done"
    /\ \E c \in PollPending(h2) : \E r \in FillRecv(c) : h2' = r.c /\ h2pc' = r.next
    /\ UNCHANGED h2frames

\* Nothing was read for H2_IDLE_TIMEOUT_SECS: GOAWAY(NO_ERROR).
DriveIdle ==
    /\ h2pc = "idle"
    /\ h2.phase # "Done"
    /\ \E c \in PollPending(h2) : h2' = [H2GoAway(c, "NO_ERROR") EXCEPT !.phase = "Done"]
    /\ UNCHANGED <<h2pc, h2frames>>

\* The preface: Active, with the server's SETTINGS sent; or not HTTP/2 at all.
DrivePreface ==
    /\ h2pc = "frames"
    /\ h2.phase = "Preface"
    /\ h2' \in {[h2 EXCEPT !.phase = "Active"], H2Fatal(h2)}
    /\ UNCHANGED <<h2pc, h2frames>>

DriveFrame(f) ==
    /\ h2pc = "frames"
    /\ h2.phase \in {"Active", "GoingAway"}
    /\ h2frames < MaxH2Frames
    /\ h2' \in ProcessFrame(h2, f)
    /\ h2frames' = h2frames + 1
    /\ UNCHANGED h2pc

\* Mutant of DriveEnd: the handlers are trusted to have flushed the bodies.
DriveEndSendsOnly ==
    /\ h2pc = "frames"
    /\ h2pc' = "idle"
    /\ UNCHANGED <<h2, h2frames>>

\* Bodies and the send buffer are flushed; a connection that is going away and
\* has no streams left is done, and so is one whose socket fails.
DriveEnd ==
    /\ h2pc = "frames"
    /\ \E d \in FlushPending(h2) : \E c \in FlushIo(d) :
          h2' = IF c.phase = "GoingAway" /\ H2Open(c) = {}
                  THEN [c EXCEPT !.phase = "Done"] ELSE c
    /\ h2pc' = "idle"
    /\ UNCHANGED h2frames

\* A URL backend answers, or its thread dies.
BackendAnswers(id) ==
    /\ id \in H2Open(h2)
    /\ h2.streams[id].pending = "waiting"
    /\ h2' = [h2 EXCEPT !.streams[id].pending = "ready"]
    /\ UNCHANGED <<h2pc, h2frames>>

\* RESET_DECAY passes for the k oldest resets.
ResetDecays(k) ==
    /\ h2pc = "idle"
    /\ k \in DOMAIN h2.recently_reset
    /\ h2.recently_reset[k].hot
    /\ h2' = [h2 EXCEPT !.recently_reset =
                 [j \in DOMAIN @ |-> IF j <= k THEN [@[j] EXCEPT !.hot = FALSE] ELSE @[j]]]
    /\ UNCHANGED <<h2pc, h2frames>>

H2Init == h2 = NewConn /\ h2pc = "idle" /\ h2frames = 0

H2Next ==
    \/ DriveStart \/ DriveIdle \/ DrivePreface \/ DriveEnd
    \/ \E f \in H2Frames : DriveFrame(f)
    \/ \E id \in H2Ids : BackendAnswers(id)
    \/ \E k \in 1..RESET_MEMORY : ResetDecays(k)

H2Spec == H2Init /\ [][H2Next]_h2vars

-----------------------------------------------------------------------------
(* Properties.                                                               *)

\* Flow control, both ways.  No peer that keeps to MAX_FRAME_SIZE ever meets
\* "flow control exceeded": a window is announced whole again before it can run
\* out (handle_data).  And the connection never sends a byte the peer has not
\* granted, over all its streams together (flush_pending_streams).
H2FlowControl ==
    /\ ~h2.overrun
    /\ h2.conn_recv_window \in MAX_FRAME_SIZE..H2_WINDOW
    /\ \A i \in H2Open(h2) : h2.streams[i].recv_window \in MAX_FRAME_SIZE..H2_WINDOW
    /\ h2.conn_sent <= h2.conn_granted
    /\ h2.conn_send_window = h2.conn_granted - h2.conn_sent

\* Between two drives no response waits that could be sent: whichever of the
\* connection's window, the stream's and SETTINGS moved last (drive,
\* handle_window_update and handle_settings share one flush).
H2NothingStalls ==
    h2pc = "idle" /\ h2.phase # "Done" =>
        \A i \in H2Open(h2) :
            LET s == h2.streams[i]
            IN  s.resp_body > s.resp_sent => h2.conn_send_window <= 0 \/ s.send_window <= 0

\* A request goes to the handler at most once, whatever HEADERS, trailers,
\* CONTINUATION and DATA follow it, and once dispatched it is answered, or
\* still waited for on an open stream, or its stream was reset, or the
\* connection is over (maybe_dispatch, poll_pending_url).
H2AnswersAreKept ==
    \A i \in H2Ids :
        /\ h2.dispatched[i] <= 1
        /\ h2.answered[i] <= h2.dispatched[i]
        /\ h2.dispatched[i] = 1 /\ h2.answered[i] = 0 /\ h2.phase # "Done" /\ i \notin h2.given_up
             => i \in H2Open(h2) /\ h2.streams[i].pending # "no"

\* What the edge owes an HTTP/2 connection.
H2Contract == H2FlowControl /\ H2NothingStalls /\ H2AnswersAreKept
=============================================================================
