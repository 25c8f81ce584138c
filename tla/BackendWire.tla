---------------------------- MODULE BackendWire ----------------------------
(***************************************************************************)
(* HTTP/1.1 between the edge and a backend, seen from the backend: the     *)
(* shared request parser and response writer (m6-core h1.rs), the          *)
(* streaming wrapper that calls the parser on a growing buffer (parse.rs), *)
(* the connection loop (server.rs serve_connection) and the App handler    *)
(* around it (app.rs handle_connection).                                   *)
(*                                                                         *)
(* Bytes are abstracted to the tokens the parser tells apart: a request    *)
(* line of each version, the framing and Expect headers, the blank line,   *)
(* chunk-size lines, one unit of body, and a bare CRLF; lengths and caps   *)
(* are counted in tokens.                                                  *)
(***************************************************************************)
EXTENDS Integers, Sequences, FiniteSets

CONSTANTS
    HeadTokens,        \* header lines a peer may send, and "end"
    MaxTokens,         \* bound: tokens of one stream
    MAX_CHUNKED_BODY,  \* units
    MAX_HEADER_BYTES,  \* tokens
    MAX_BODY_BYTES,    \* tokens
    READ_CHUNK,        \* tokens one read returns at most
    WMaxRequests,      \* MAX_REQUESTS_PER_CONN
    MaxBody            \* bound: units of a response body

ASSUME WireAssumption ==
    /\ MaxTokens \in Nat /\ MAX_CHUNKED_BODY \in Nat /\ MaxBody \in Nat
    /\ MAX_HEADER_BYTES \in Nat /\ MAX_BODY_BYTES \in Nat
    /\ READ_CHUNK \in Nat \ {0, 1}
    /\ WMaxRequests \in Nat \ {0}

VARIABLES
    wbuf,    \* what the peer has sent of the current request
    wread,   \* the reader: how much of it had been read when it last looked,
             \* expect_answered, and how many times it wrote 100 Continue
    wfirst,  \* the first verdict that was not "incomplete"
    wconn    \* the connection: open, requests served, answers written

wvars == <<wbuf, wread, wfirst, wconn>>

Incomplete == [k |-> "incomplete", body |-> 0]
Bad == [k |-> "error", body |-> 0]
Complete(n) == [k |-> "complete", body |-> n]
RequestTooLarge == [k |-> "toolarge", body |-> 0]
ExpectationFailed == [k |-> "expectation", body |-> 0]

-----------------------------------------------------------------------------
(* decode_chunked                                                          *)

SizeLines == {"s0", "s1", "s2"}
SizeOf(t) == CASE t = "s0" -> 0 [] t = "s1" -> 1 [] t = "s2" -> 2

\* find_crlf: the first token at or after i that ends a line.
EndsLine == SizeLines \cup {"nl"}
LineEnds(b, i) == {j \in i..Len(b) : b[j] \in EndsLine}
FirstOf(S) == CHOOSE j \in S : \A l \in S : j <= l

\* After the last chunk: trailer lines until an empty one.
TrailersDone(b, i) ==
    \E j \in i..Len(b) :
        /\ b[j] = "nl"
        /\ j = i \/ b[j - 1] \in EndsLine

\* Mutant: the CRLF after the data is looked for as soon as the data is here.
ChunkNeedsData(size) == size

\* A chunk is decoded once its data and the CRLF after it have arrived.
ChunkNeeds(size) == size + 1

\* One round of the loop: the chunk whose size line is at i, `out` units decoded
\* before it.  D has the verdicts of the rounds after this one.
DecodeChunk(b, D, i, out) ==
    IF LineEnds(b, i) = {} THEN Incomplete
    ELSE IF FirstOf(LineEnds(b, i)) # i \/ b[i] \notin SizeLines THEN Bad
    ELSE IF b[i] = "s0"
         THEN IF TrailersDone(b, i + 1) THEN Complete(out) ELSE Incomplete
    ELSE IF out + SizeOf(b[i]) > MAX_CHUNKED_BODY THEN Bad
    ELSE IF Len(b) < i + ChunkNeeds(SizeOf(b[i])) THEN Incomplete
    ELSE LET at == i + SizeOf(b[i]) + 1
         IN IF at > Len(b) \/ b[at] # "nl" THEN Bad
            ELSE D[at + 1][out + SizeOf(b[i])]

DecodeChunked(b, start) ==
    LET D[i \in 1..(Len(b) + 1)] ==
            [out \in 0..MAX_CHUNKED_BODY |-> DecodeChunk(b, D, i, out)]
    IN D[start][0]

-----------------------------------------------------------------------------
(* parse_request                                                           *)

HeadEnds(b) == {j \in 1..Len(b) : b[j] = "end"}
HeadOf(b) == SubSeq(b, 1, FirstOf(HeadEnds(b)))
Times(h, t) == Cardinality({j \in 1..Len(h) : h[j] = t})
Has(h, t) == Times(h, t) > 0

Lengths(h) == {n \in 0..2 : Has(h, <<"cl0", "cl1", "cl2">>[n + 1])}
ContentLength(h) == IF Lengths(h) = {} THEN 0 ELSE CHOOSE n \in Lengths(h) : TRUE

\* A head whose framing is refused whatever body follows.
BadHead(h) ==
    \/ Has(h, "lf")                        \* a bare LF
    \/ Has(h, "tebad")                     \* any coding but chunked alone
    \/ Has(h, "clbad")
    \/ Cardinality(Lengths(h)) > 1         \* two lengths that disagree
    \/ Times(h, "host") > 1
    \/ h[1] = "line11" /\ ~Has(h, "host")
    \/ Has(h, "te") /\ h[1] # "line11"
    \/ Has(h, "te") /\ Lengths(h) # {}

ParseRequest(b) ==
    IF HeadEnds(b) = {} THEN Incomplete
    ELSE LET h == HeadOf(b)
             n == ContentLength(h)
         IN IF BadHead(h) THEN Bad
            ELSE IF Has(h, "te") THEN DecodeChunked(b, Len(h) + 1)
            ELSE IF Len(b) - Len(h) < n THEN Incomplete
            ELSE Complete(n)

BodyTokens == SizeLines \cup {"nl", "x"}

-----------------------------------------------------------------------------
(* parse.rs: the reader around the parser                                  *)

\* h1::expectation of a head that has arrived; 1.0 peers have none.
Expectation(h) ==
    IF h[1] # "line11" THEN "none"
    ELSE IF Has(h, "expectbad") THEN "unsupported"
    ELSE IF Has(h, "expect100") THEN "continue" ELSE "none"

\* The cap on a message the parser still calls incomplete.
CapOn(b) == IF HeadEnds(b) = {} THEN MAX_HEADER_BYTES
            ELSE MAX_HEADER_BYTES + MAX_BODY_BYTES

\* Mutant: one cap, the head's, whatever has arrived.
VerdictOneCap(b, answered) ==
    IF ParseRequest(b) # Incomplete THEN ParseRequest(b)
    ELSE IF Len(b) > MAX_HEADER_BYTES THEN RequestTooLarge
    ELSE IF HeadEnds(b) # {} /\ ~answered /\ Expectation(HeadOf(b)) = "unsupported"
    THEN ExpectationFailed
    ELSE Incomplete

\* One round of the loop on everything read so far: the parser, and only while
\* it wants more, the cap and then the expectation.
Verdict(b, answered) ==
    IF ParseRequest(b) # Incomplete THEN ParseRequest(b)
    ELSE IF Len(b) > CapOn(b) THEN RequestTooLarge
    ELSE IF HeadEnds(b) # {} /\ ~answered /\ Expectation(HeadOf(b)) = "unsupported"
    THEN ExpectationFailed
    ELSE Incomplete

\* Mutant: every read of the body is preceded by another 100 Continue.
LookAgain(b, r) ==
    [r EXCEPT !.cut = Len(b),
              !.told = IF /\ Verdict(b, r.answered) = Incomplete /\ HeadEnds(b) # {}
                          /\ Expectation(HeadOf(b)) = "continue"
                       THEN @ + 1 ELSE @]

\* What the round leaves behind when it ends in another read: an expectation is
\* answered once, as soon as the head is there.
Look(b, r) ==
    LET asks == Verdict(b, r.answered) = Incomplete /\ HeadEnds(b) # {} /\ ~r.answered
    IN [cut |-> Len(b),
        answered |-> r.answered \/ asks,
        told |-> IF asks /\ Expectation(HeadOf(b)) = "continue" THEN r.told + 1
                 ELSE r.told]

\* The peer's next token arrives, in a read that ends with it or goes on.  The
\* loop looks at the end of a read; after a verdict it looks no more.
Receive(t, ends) ==
    /\ wconn.phase = "parse"
    /\ Len(wbuf) < MaxTokens
    /\ t \in IF HeadEnds(wbuf) = {} THEN HeadTokens ELSE BodyTokens
    /\ ends \/ Len(wbuf) + 1 - wread.cut < READ_CHUNK \/ wfirst # Incomplete
    /\ wbuf' = Append(wbuf, t)
    /\ IF ends /\ wfirst = Incomplete
       THEN /\ wfirst' = Verdict(Append(wbuf, t), wread.answered)
            /\ wread' = Look(Append(wbuf, t), wread)
       ELSE UNCHANGED <<wfirst, wread>>
    /\ UNCHANGED wconn

-----------------------------------------------------------------------------
(* The connection loop and the response writer.                            *)

WNoAnswer == [head |-> FALSE, status |-> 0, promised |-> 0, written |-> 0,
             short |-> FALSE]

\* h1::keep_alive: 1.1 unless "close", 1.0 only with "keep-alive".
KeepAlive(version, connection) ==
    IF version = "1.1" THEN connection # "close" ELSE connection = "keep-alive"

\* write_head's verdict: these carry no body whatever their length says.
Bodyless(head, status) == head \/ status \in {204, 304}

\* Mutant: everything the reader yields is copied.
StreamedAll(len, avail) == avail

\* send_stream: the reader is capped at the promise and must reach it.
Streamed(len, avail) == IF avail < len THEN avail ELSE len

\* One request and its response.  `body` is what the handler holds: bytes in
\* memory, or a file whose length was taken before it is read.  The error of
\* a short stream is dropped by handle_request and never reaches the loop.
Serve(head, version, connection, status, body) ==
    LET keep == KeepAlive(version, connection) /\ wconn.served + 1 < WMaxRequests
        none == Bodyless(head, status)
        sent == IF none THEN 0
                ELSE IF body.kind = "bytes" THEN body.len
                ELSE Streamed(body.len, body.avail)
    IN /\ wconn.phase = "serve"
       /\ wconn' = [wconn EXCEPT
              !.served = @ + 1,
              !.open = keep,
              !.phase = IF keep THEN "serve" ELSE "done",
              !.last = [head |-> head, status |-> status,
                        promised |-> body.len, written |-> sent,
                        short |-> ~none /\ sent < body.len]]
       /\ UNCHANGED <<wbuf, wread, wfirst>>

Bodies == [kind : {"bytes", "stream"}, len : 0..MaxBody, avail : 0..MaxBody]

\* A request that does not parse, times out half way, or is too large is
\* answered with an error and the connection closed; a peer that goes away
\* or stays silent between requests just ends it.
ReadError ==
    /\ wconn.phase = "serve"
    /\ \E replied \in BOOLEAN :
         wconn' = [wconn EXCEPT !.open = FALSE, !.phase = "done",
             !.last = IF replied
                      THEN [head |-> FALSE, status |-> 400, promised |-> 1,
                            written |-> 1, short |-> FALSE]
                      ELSE @]
    /\ UNCHANGED <<wbuf, wread, wfirst>>

-----------------------------------------------------------------------------
WInit ==
    /\ wbuf \in {<<"line11">>, <<"line10">>}
    /\ wread = [cut |-> 0, answered |-> FALSE, told |-> 0]
    /\ wfirst = Incomplete
    /\ wconn \in [phase : {"parse", "serve"}, open : {TRUE}, served : {0},
                  last : {WNoAnswer}]

WNext ==
    \/ \E t \in HeadTokens \cup BodyTokens, ends \in BOOLEAN : Receive(t, ends)
    \/ ReadError
    \/ \E head \in BOOLEAN, version \in {"1.0", "1.1"},
          connection \in {"none", "close", "keep-alive"},
          status \in {200, 204, 304, 404}, body \in Bodies :
          Serve(head, version, connection, status, body)

WSpec == WInit /\ [][WNext]_wvars

-----------------------------------------------------------------------------
\* The parser's verdict on a request does not depend on how its bytes were
\* split over reads: once the growing buffer has been called complete or wrong,
\* every longer buffer with the same beginning gets the same verdict, and the
\* same body length when complete.  The two verdicts that do depend on the
\* split, too large and expectation failed, fall only on a request whose own
\* bytes exceed a cap, or whose head carries an expectation that is not
\* 100-continue: any other request is read the same however it was cut.
WVerdictIsStable ==
    /\ wfirst.k \in {"complete", "error"} => ParseRequest(wbuf) = wfirst
    /\ wfirst.k = "toolarge" =>
           \/ Len(wbuf) > MAX_HEADER_BYTES + MAX_BODY_BYTES
           \/ Len(wbuf) > MAX_HEADER_BYTES /\ HeadEnds(wbuf) = {}
           \/ HeadEnds(wbuf) # {} /\ Len(HeadOf(wbuf)) > MAX_HEADER_BYTES
    /\ wfirst.k = "expectation" =>
           HeadEnds(wbuf) # {} /\ Expectation(HeadOf(wbuf)) = "unsupported"

\* A peer that holds its body back until it is told to go on is told, once and
\* nobody else is: when the reader goes back to wait for more of a request that
\* carries Expect: 100-continue, it has written exactly one 100 Continue, and
\* what is buffered before a verdict never exceeds the caps by more than a read.
WNobodyWaits ==
    /\ wread.told <= 1
    /\ wread.told = 1 => HeadEnds(wbuf) # {} /\ Expectation(HeadOf(wbuf)) = "continue"
    /\ (wfirst = Incomplete /\ wread.cut = Len(wbuf) /\ HeadEnds(wbuf) # {}
        /\ Expectation(HeadOf(wbuf)) = "continue") => wread.told = 1
    /\ wread.cut <= MAX_HEADER_BYTES + MAX_BODY_BYTES + READ_CHUNK

\* A response on a connection that stays open carries exactly the body its
\* peer will read: none for HEAD, 204 and 304, and otherwise no more than the
\* Content-Length already sent, whatever the file did since its length was
\* taken; it is shorter only when the file was.
WPromiseKept ==
    LET r == wconn.last
    IN /\ r.written <= r.promised
       /\ Bodyless(r.head, r.status) => r.written = 0
       /\ (r.written < r.promised) => (Bodyless(r.head, r.status) \/ r.short)

\* Both directions of a backend connection.
WContract == WVerdictIsStable /\ WNobodyWaits /\ WPromiseKept
=============================================================================
