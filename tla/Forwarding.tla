----------------------------- MODULE Forwarding -----------------------------
(***************************************************************************)
(* One exchange of the edge with an HTTP/1.1 backend (m6-http forward.rs): *)
(* the request is checked and rewritten for the backend leg, written, and  *)
(* the response is read back off a stream the backend may close or leave   *)
(* silent at any byte.  A socket backend is called on the event loop, an   *)
(* http:// or https:// one on a thread of its own that answers over a      *)
(* channel.                                                                *)
(*                                                                         *)
(* A header is its name.  A response body on the wire is a sequence of     *)
(* units, chunk-size digits, line ends and trailer fields.                 *)
(***************************************************************************)
EXTENDS Integers, Sequences, FiniteSets

CONSTANTS
    XNames,             \* header names a client sends, beside Connection
    XRequests,          \* the requests of this instance
    XMessages,          \* responses a backend means to send
    MAX_BACKEND_BODY    \* units

VARIABLES
    xreq,     \* the request, and the client's address as the edge knows it
    xleg,     \* the exchange: its transport and how far it is
    xout,     \* the request as it is written
    xmsg,     \* the response the backend means to send
    xin,      \* the part of it that has arrived, and whether it has ended
    xresult   \* what the caller is given

xvars == <<xreq, xleg, xout, xmsg, xin, xresult>>

XLegs == {"socket", "http", "https", "h2c", "h2s"}

\* Body tokens: a size line's digits are the size itself.
Unit == -1
NL == -2
Trailer == -3
BadTrailer == -4

-----------------------------------------------------------------------------
(* The request                                                             *)

HOP_BY_HOP == {"connection", "upgrade", "keep-alive", "transfer-encoding",
               "te", "trailer", "proxy-authorization", "proxy-connection"}

UNTRUSTED_INBOUND == {"x-auth-claims", "x-forwarded-for", "x-forwarded-proto",
                      "x-forwarded-host", "x-real-ip"}

ProxyOwned == {"content-length", "x-forwarded-for", "x-forwarded-proto",
               "x-forwarded-host", "x-real-ip"}

SkipWhenForwarding == HOP_BY_HOP \cup ProxyOwned

\* The forwarded address is taken only from the backbone and only when it is
\* one address.
AttributedClientIp(forwarded, trust) ==
    IF trust = "backbone" /\ forwarded = "sole" THEN "forwarded" ELSE "peer"

\* A request the listeners hand over: untrusted names are stripped at
\* ingress, a claims header may have been added by the edge itself.
AnyRequest ==
    [names     : SUBSET (XNames \ (UNTRUSTED_INBOUND \ {"x-auth-claims"})),
     nominated : SUBSET (XNames \ {"via"}),
     forwarded : {"none", "sole", "list"},
     trust     : {"never", "backbone"},
     method    : {"GET", "HEAD"},
     safe      : BOOLEAN,
     body      : 0..1]

ASSUME ForwardAssumption ==
    MAX_BACKEND_BODY \in Nat /\ XRequests \subseteq AnyRequest

\* check_forwardable: CR, LF, NUL or a space where it would end a line.
CheckForwardable(r) == r.safe

\* Mutant: the headers Connection names are passed on.
KeptAll(r) == r.names \ (SkipWhenForwarding \cup {"via"})

\* The client's headers that are copied to the backend leg.
Kept(r) == r.names \ (SkipWhenForwarding \cup r.nominated \cup {"via"})

\* via_value: our hop after the one that is there.
Via(r) == IF "via" \in r.names THEN 2 ELSE 1

\* write_host_if_absent; origin_host falls back to the site's domain, so it is
\* never empty here.
HostIfAbsent(r) == IF "host" \in r.names THEN 0 ELSE 1

\* The request line and headers, as what a backend counts.
WriteSocket(r) ==
    [names |-> Kept(r) \ {"host"},
     hosts |-> Cardinality(Kept(r) \cap {"host"}) + HostIfAbsent(r),
     via   |-> Via(r),
     ip    |-> AttributedClientIp(r.forwarded, r.trust),
     len   |-> r.body]

\* build_forwarded_request_bytes: the URL's host is written first.
WriteUrl(r) ==
    [WriteSocket(r) EXCEPT !.hosts = 1 + HostIfAbsent(r)]

-----------------------------------------------------------------------------
(* The response                                                            *)

XBodyless(m, method) == method = "HEAD" \/ m.status \in {"204", "304", "1xx"}

\* The Content-Length values, lines and list members alike, must be numbers
\* and agree; Transfer-Encoding must end in chunked and stand alone.
FramingRefused(m) ==
    \/ -1 \in m.lengths
    \/ Cardinality(m.lengths) > 1
    \/ m.te # "none" /\ m.lengths # {}
    \/ m.te = "other"

XFailed == [k |-> "error", body |-> 0]
XMore == [k |-> "more", body |-> 0]
XOk(n) == [k |-> "ok", body |-> n]

\* Mutant: the body ends with its last chunk.
TrailersEndAnywhere(t, p) == TRUE

\* Trailer fields until the empty line that ends the message.
TrailersEnd(t, p) ==
    \E q \in p..Len(t) :
        /\ t[q] = NL
        /\ (q - p) % 2 = 0
        /\ \A i \in p..(q - 1) : t[i] = (IF (i - p) % 2 = 0 THEN Trailer ELSE NL)

\* read_chunked_body, once everything up to the end of the stream is here: the
\* chunk whose size line is at p.  dec has what the chunks after it gave.
ReadChunk(t, dec, p) ==
    IF p + 1 > Len(t) \/ t[p + 1] # NL \/ t[p] < 0 THEN XFailed
    ELSE IF t[p] = 0
         THEN IF TrailersEnd(t, p + 2) THEN XOk(0) ELSE XFailed
    ELSE LET nl == p + 2 + t[p]
         IN  IF nl > Len(t) \/ t[nl] # NL \/ dec[nl + 1].k # "ok" THEN XFailed
             ELSE XOk(dec[nl + 1].body + t[p])

ReadChunked(t) ==
    LET dec[p \in 1..(Len(t) + 1)] == ReadChunk(t, dec, p)
    IN  dec[1]

\* read_response_for on what has arrived.  An ended stream is one the backend
\* closed; a read that times out is an error wherever it happens.
ReadResponse(m, t, ended, method) ==
    IF FramingRefused(m) THEN XFailed
    ELSE IF XBodyless(m, method) THEN XOk(0)
    ELSE IF m.te = "chunked"
         THEN IF Len(t) > MAX_BACKEND_BODY THEN XFailed
              ELSE IF ended THEN ReadChunked(t) ELSE XMore
    ELSE IF m.lengths # {}
         THEN LET len == CHOOSE n \in m.lengths : TRUE
              IN  IF len > MAX_BACKEND_BODY THEN XFailed
                  ELSE IF Len(t) >= len THEN XOk(len)
                  ELSE IF ended THEN XFailed ELSE XMore
    ELSE IF Len(t) > MAX_BACKEND_BODY THEN XFailed
    ELSE IF ended THEN XOk(Len(t)) ELSE XMore

\* What a backend means to send.  A chunked body is a list of chunks that start
\* at S, each of as many units as its size says; the last has size 0 and ends
\* with the trailer section, whose only empty line is the end of the message.
ChunkStarts(w, S) ==
    /\ 1 \in S
    /\ \A p \in S :
          /\ p + 1 <= Len(w) /\ w[p] >= 0 /\ w[p + 1] = NL
          /\ IF w[p] = 0
             THEN \A i \in (p + 2)..Len(w) :
                     /\ w[i] # Unit
                     /\ (w[i] = NL /\ (i - (p + 2)) % 2 = 0) => i = Len(w)
             ELSE LET nl == p + 2 + w[p]
                  IN  /\ nl + 1 \in S /\ w[nl] = NL
                      /\ \A i \in (p + 2)..(nl - 1) : w[i] = Unit

\* Its payload is what its units or its length say; a length may be more than
\* what is ever sent.
WellFramed(m) ==
    /\ m.wire \in Seq(Int) /\ m.lengths \subseteq Int /\ m.te \in {"none", "chunked", "other"}
    /\ m.te = "chunked" =>
          /\ m.payload = Cardinality({i \in 1..Len(m.wire) : m.wire[i] = Unit})
          /\ \E S \in SUBSET (1..Len(m.wire)) : ChunkStarts(m.wire, S)
    /\ (m.te = "none" /\ ~FramingRefused(m) /\ ~XBodyless(m, "GET")) =>
          \A n \in m.lengths : n = m.payload /\ Len(m.wire) <= n

ASSUME MessagesAssumption == \A m \in XMessages : WellFramed(m)

-----------------------------------------------------------------------------
(* The exchange                                                            *)

\* A URL backend's authority: parse_url_scheme_authority and split_host_port.
\* A port that is no number leaves the text whole, a name nothing resolves.
Authorities == {"host", "host:port", "[v6]", "host:text", "no scheme"}
Dialable(leg) == leg.kind = "socket" \/ leg.url \in {"host", "host:port", "[v6]"}

NoMessage == [status |-> "none", lengths |-> {}, te |-> "none",
              wire |-> <<>>, payload |-> 0]
NothingIn == [head |-> FALSE, toks |-> 0, ended |-> FALSE]

XInit ==
    /\ xreq \in XRequests
    /\ xleg \in [kind : XLegs, url : Authorities, at : {"new"}]
    /\ xout = {}
    /\ xmsg = NoMessage
    /\ xin = NothingIn
    /\ xresult = XMore

XAt(s) == xleg.at = s
XGoTo(s) == xleg' = [xleg EXCEPT !.at = s]

XFinish(r) == XGoTo("done") /\ xresult' = r

\* check_forwardable refuses before a connection is opened.
RefuseUnsafe ==
    /\ XAt("new")
    /\ ~CheckForwardable(xreq)
    /\ XFinish(XFailed)
    /\ UNCHANGED <<xreq, xout, xmsg, xin>>

\* connect(2), or the TLS session, fails; an HTTP/2 scheme is not for this path.
XConnectFails ==
    /\ XAt("new")
    /\ CheckForwardable(xreq)
    /\ XFinish(XFailed)
    /\ UNCHANGED <<xreq, xout, xmsg, xin>>

\* The whole request is built and written.  A write error ends it, except that
\* on a socket a pipe the backend closed is followed by reading its answer.
SendRequest ==
    /\ XAt("new")
    /\ CheckForwardable(xreq)
    /\ xleg.kind \notin {"h2c", "h2s"}
    /\ Dialable(xleg)
    /\ xout' = IF xleg.kind = "socket" THEN {WriteSocket(xreq)} ELSE {WriteUrl(xreq)}
    /\ \/ XGoTo("reading") /\ UNCHANGED xresult
       \/ xleg.kind = "socket" /\ XGoTo("salvage") /\ UNCHANGED xresult
       \/ XFinish(XFailed)
    /\ UNCHANGED <<xreq, xmsg, xin>>

XReading == XAt("reading") \/ XAt("salvage")

\* The backend answers: its head, then its body in pieces of any size.
BackendHead(m) ==
    /\ XReading
    /\ ~xin.head /\ ~xin.ended
    /\ xmsg' = m
    /\ xin' = [xin EXCEPT !.head = TRUE]
    /\ UNCHANGED <<xreq, xleg, xout, xresult>>

BackendBytes ==
    /\ XReading
    /\ xin.head /\ ~xin.ended
    /\ \E n \in (xin.toks + 1)..Len(xmsg.wire) : xin' = [xin EXCEPT !.toks = n]
    /\ UNCHANGED <<xreq, xleg, xout, xmsg, xresult>>

\* It closes: after its whole message, or because it died.
BackendEnds ==
    /\ XReading
    /\ ~xin.ended
    /\ xin' = [xin EXCEPT !.ended = TRUE]
    /\ UNCHANGED <<xreq, xleg, xout, xmsg, xresult>>

\* The reader: no head is an error; with the head the body decides.
ReadAnswer ==
    /\ XReading
    /\ xin.head \/ xin.ended
    /\ LET r == IF xin.head
                THEN ReadResponse(xmsg, SubSeq(xmsg.wire, 1, xin.toks),
                                  xin.ended, xreq.method)
                ELSE XFailed
       IN  r # XMore /\ XFinish(r)
    /\ UNCHANGED <<xreq, xout, xmsg, xin>>

\* A read timeout, a reset, a head past 8192 bytes or one that is not a
\* response head.
XReadFails ==
    /\ XReading
    /\ XFinish(XFailed)
    /\ UNCHANGED <<xreq, xout, xmsg, xin>>

XNext ==
    \/ RefuseUnsafe \/ XConnectFails \/ SendRequest
    \/ \E m \in XMessages : BackendHead(m)
    \/ BackendBytes \/ BackendEnds \/ ReadAnswer \/ XReadFails

XSpec == XInit /\ [][XNext]_xvars

-----------------------------------------------------------------------------
(* Properties                                                              *)

\* A response is handed on as good only when all of it arrived and with the
\* body the backend meant: a backend that dies at any byte of a framed body,
\* a chunked one's trailer section included, yields an error, so no cut-off
\* page is served or stored.  A body delimited by the close alone is the one
\* case HTTP/1.1 cannot tell.
XOkMeansWhole ==
    xresult.k = "ok" =>
        \/ XBodyless(xmsg, xreq.method)
        \/ /\ xmsg.te = "none" /\ xmsg.lengths = {}
           /\ xin.ended /\ xresult.body = xin.toks
        \/ xin.toks = Len(xmsg.wire) /\ xresult.body = xmsg.payload

\* What reaches the backend is the client's end-to-end headers and the
\* edge's own account of the client: no hop-by-hop header and none the
\* client's Connection names.
XHopHeadersStay ==
    \A w \in xout :
        /\ w.names \cap (SkipWhenForwarding \cup xreq.nominated) = {}
        /\ w.ip = "forwarded" => xreq.trust = "backbone"

\* Both legs of a forwarded exchange.
XContract == XOkMeansWhole /\ XHopHeadersStay
=============================================================================
