---------------------------- MODULE H2TlsClient ----------------------------
(***************************************************************************)
(* The edge's outbound HTTP/2 connection over TLS (m6-http/src/             *)
(* h2s_client.rs).  The streams are those of H2Client; what this file adds  *)
(* is the record layer between them and the socket.  Frames wait in         *)
(* send_buf, then in the TLS buffer, which takes only so many, then in the  *)
(* socket.  What arrives is a piece of a frame at a time, and is decrypted  *)
(* by rustls before it can be read; the peer's SETTINGS may be decrypted    *)
(* during the handshake.                                                    *)
(*                                                                         *)
(* The peer is external.  It speaks between two calls of drive(): what      *)
(* arrives while drive reads has arrived before it or is read by the next.  *)
(* PING, SETTINGS_MAX_FRAME_SIZE, padding and HPACK are left out.           *)
(*                                                                         *)
(* gconn    the connection's fields and its streams                        *)
(* gsend    send_buf, gtls the TLS buffer: the id of a HEADERS frame, or 0 *)
(* ginbox   frames sent by the peer and not handled, gcut: the last of     *)
(*          them has arrived by half                                       *)
(* gpieces  where the halves of frames are: socket, TLS buffer, recv_buf   *)
(* gpc      where drive() is; geof, it has met the end of the stream;      *)
(*          gtodo, the streams pump_all has still to pump                  *)
(* gpeer    how far the peer is with each stream it knows                  *)
(* gsock    the TCP connection; gfault, the peer broke the protocol        *)
(* gresult  what each request's channel holds                              *)
(* gwhole   requests whose whole response the peer has sent, not having     *)
(*          said GOAWAY before it                                          *)
(***************************************************************************)
EXTENDS Integers, Sequences

CONSTANTS GRequests,     \* requests, each dispatched once
          GBody,         \* GBody[r]: bytes in r's body
          GWindow,       \* the default window
          GMaxWindow,    \* the largest window
          GWindows,      \* values of SETTINGS_INITIAL_WINDOW_SIZE
          GIncrements,   \* increments of a WINDOW_UPDATE
          GTlsLimit,     \* frames the TLS buffer takes
          GMaxFrames     \* frames the peer sends

ASSUME TlsClientAssumption ==
    /\ GBody \in [GRequests -> Nat]
    /\ GTlsLimit \in Nat \ {0}
    /\ GMaxFrames \in Nat
    /\ GWindow \in Nat /\ GMaxWindow \in Nat
    /\ GWindows \subseteq Nat /\ GIncrements \subseteq Nat

\* Save for the largest, which errs on purpose, the peer's increments do not add up past
\* the largest window: a server may not grant that much (RFC 9113 6.9.1).
ASSUME ModestAssumption ==
    \E most \in 0..GMaxWindow :
        /\ \A w \in GWindows \cup {GWindow} : w + most * (GMaxFrames + 1) <= GMaxWindow
        /\ \A n \in GIncrements : n <= most \/ n = GMaxWindow

VARIABLES gconn, gsend, gtls, ginbox, gcut, gpieces, gpc, geof, gtodo,
          gpeer, gsock, gframes, gfault, gresult, gwhole

gbuffers == <<ginbox, gcut, gpieces>>
gremote  == <<gpeer, gsock, gframes, gfault, gwhole>>
gdrive   == <<gpc, geof, gtodo>>
gvars    == <<gconn, gsend, gtls, gbuffers, gdrive, gremote, gresult>>

GNoStreams == [i \in {} |-> 0]
GNoPieces  == [net |-> 0, plain |-> 0, recv |-> 0]
GConnUp    == [up |-> "open", next |-> 1, cont |-> 0, window |-> GWindow,
               initial |-> GWindow, streams |-> GNoStreams]

GInit ==
    /\ gconn = [GConnUp EXCEPT !.up = "none"]
    /\ gsend = <<>> /\ gtls = <<>>
    /\ ginbox = <<>> /\ gcut = FALSE /\ gpieces = GNoPieces
    /\ gpc = "idle" /\ geof = FALSE /\ gtodo = {}
    /\ gpeer = GNoStreams /\ gsock = "open" /\ gframes = 0 /\ gfault = FALSE
    /\ gresult = [r \in GRequests |-> "new"]
    /\ gwhole = {}

GLess(a, b) == IF a < b THEN a ELSE b

-----------------------------------------------------------------------------
(* Streams.                                                                 *)

GOpen(c) == DOMAIN c.streams

GWithout(c, id) == [c EXCEPT !.streams = [i \in GOpen(c) \ {id} |-> c.streams[i]]]

\* pump_stream: as much of the body as both windows allow.
GCredit(c, id) ==
    IF id \notin GOpen(c) \/ GLess(c.window, c.streams[id].window) <= 0 THEN 0
    ELSE GLess(c.streams[id].left, GLess(c.window, c.streams[id].window))

GDrained(t, n) == [t EXCEPT !.left = @ - n, !.window = @ - n]

GPumped(c, id) ==
    LET n == GCredit(c, id)
    IN  IF n = 0 THEN c
        ELSE [c EXCEPT !.window = @ - n,
                       !.streams = [c.streams EXCEPT ![id] = GDrained(@, n)]]

\* The DATA that went out, as one frame.
GDataFrames(c, d) ==
    [i \in 1..(IF c.window = d.window THEN 0 ELSE 1) |-> 0]

\* mark_dead: every stream's channel gets an error.
GMarkDead ==
    /\ gresult' = [r \in GRequests |->
                      IF \E i \in GOpen(gconn) : gconn.streams[i].req = r THEN "error"
                      ELSE gresult[r]]
    /\ gconn' = [gconn EXCEPT !.up = "dead", !.streams = GNoStreams]
    /\ gpc' = "idle"
    /\ geof' = FALSE
    /\ UNCHANGED <<gsend, gtls, gbuffers, gtodo, gremote>>

-----------------------------------------------------------------------------
(* The pool and connect().                                                  *)

GNewStream(c, r) ==
    [c EXCEPT !.next = @ + 2,
              !.streams = [i \in GOpen(c) \cup {c.next} |->
                  IF i = c.next
                  THEN [req |-> r, done |-> FALSE, left |-> GBody[r], window |-> c.initial]
                  ELSE c.streams[i]]]

\* dispatch on a live connection: HEADERS, then what may go of the body.
GDispatch(r) ==
    LET c == GNewStream(gconn, r)
        d == GPumped(c, gconn.next)
    IN  /\ gpc = "idle"
        /\ gresult[r] = "new"
        /\ gconn.up = "open"
        /\ gconn' = d
        /\ gsend' = Append(gsend, gconn.next) \o GDataFrames(c, d)
        /\ gresult' = [gresult EXCEPT ![r] = "waiting"]
        /\ UNCHANGED <<gtls, gbuffers, gdrive, gremote>>

\* None, or a dead one with no streams left: the TLS handshake runs to its end
\* here, and may bring the peer's SETTINGS along.
GConnect(r, settings) ==
    LET c == GNewStream(GConnUp, r)
        d == GPumped(c, 1)
    IN  /\ gpc = "idle"
        /\ gresult[r] = "new"
        /\ gconn.up # "open"
        /\ gconn' = d
        /\ gsend' = <<1>> \o GDataFrames(c, d)
        /\ gtls' = <<>>
        /\ ginbox' = settings
        /\ gcut' = FALSE
        /\ gpieces' = [GNoPieces EXCEPT !.plain = 2 * Len(settings)]
        /\ gsock' = "open"
        /\ gpeer' = GNoStreams
        /\ gresult' = [gresult EXCEPT ![r] = "waiting"]
        /\ UNCHANGED <<gdrive, gframes, gfault, gwhole>>

\* The handshake fails, or the peer does not negotiate h2.
GConnectFails(r) ==
    /\ gpc = "idle"
    /\ gresult[r] = "new"
    /\ gconn.up # "open"
    /\ gresult' = [gresult EXCEPT ![r] = "refused"]
    /\ UNCHANGED <<gconn, gsend, gtls, gbuffers, gdrive, gremote>>

-----------------------------------------------------------------------------
(* drive: out.                                                              *)

\* Mutant of GAccepted: a write the TLS buffer cannot take whole is an error.
GAcceptedWhole == IF Len(gsend) + Len(gtls) > GTlsLimit THEN -1 ELSE Len(gsend)

\* Writer::write: what the TLS buffer has room for.
GAccepted == GLess(Len(gsend), GTlsLimit - Len(gtls))

GWriteFrames ==
    /\ gpc = "idle"
    /\ gconn.up = "open"
    /\ IF GAccepted < 0 THEN GMarkDead
       ELSE /\ gtls' = gtls \o SubSeq(gsend, 1, GAccepted)
            /\ gsend' = SubSeq(gsend, GAccepted + 1, Len(gsend))
            /\ gpc' = "flush"
            /\ UNCHANGED <<gconn, gbuffers, geof, gtodo, gremote, gresult>>

\* write_tls, until the socket takes no more; the peer learns of the streams
\* whose HEADERS it gets.
GWriteTls(n) ==
    /\ gpc = "flush"
    /\ gtls # <<>> => gsock # "reset"
    /\ n \in 0..Len(gtls)
    /\ gtls' = SubSeq(gtls, n + 1, Len(gtls))
    /\ gpeer' = [i \in (DOMAIN gpeer \cup {gtls[j] : j \in 1..n}) \ {0} |->
                    IF i \in DOMAIN gpeer THEN gpeer[i] ELSE "asked"]
    /\ gpc' = "drain"
    /\ UNCHANGED <<gconn, gsend, gbuffers, geof, gtodo, gsock, gframes, gfault, gresult, gwhole>>

GWriteTlsFails ==
    /\ gpc = "flush"
    /\ gtls # <<>>
    /\ gsock = "reset"
    /\ GMarkDead

-----------------------------------------------------------------------------
(* drive: in.                                                               *)

\* The plaintext rustls holds already.
GDrainPlain ==
    /\ gpc = "drain"
    /\ gpieces' = [gpieces EXCEPT !.recv = @ + gpieces.plain, !.plain = 0]
    /\ gpc' = "read"
    /\ UNCHANGED <<gconn, gsend, gtls, ginbox, gcut, geof, gtodo, gremote, gresult>>

\* Mutant of GReadTls: the end of the stream is acted on where it is met.
GReadTlsActs ==
    /\ gpc = "read"
    /\ IF gsock # "open" THEN GMarkDead
       ELSE /\ gpieces' = [gpieces EXCEPT !.recv = @ + gpieces.net, !.net = 0]
            /\ gpc' = "parse"
            /\ UNCHANGED <<gconn, gsend, gtls, ginbox, gcut, geof, gtodo, gremote, gresult>>

\* read_tls and process_new_packets, until the socket has no more; the end of the
\* stream is noted.
GReadTls ==
    /\ gpc = "read"
    /\ gpieces' = [gpieces EXCEPT !.recv = @ + gpieces.net, !.net = 0]
    /\ geof' = (gsock # "open")
    /\ gpc' = "parse"
    /\ UNCHANGED <<gconn, gsend, gtls, ginbox, gcut, gtodo, gremote, gresult>>

GFrame == Head(ginbox)

GWholeFrame == gpieces.recv >= 2

\* No whole frame is left in recv_buf: now the end of the stream counts.
GDriveEnds ==
    /\ gpc = "parse"
    /\ ~GWholeFrame
    /\ IF geof THEN GMarkDead
       ELSE /\ gpc' = "idle"
            /\ UNCHANGED <<gconn, gsend, gtls, gbuffers, geof, gtodo, gremote, gresult>>

GHandles(type) ==
    /\ gpc = "parse"
    /\ GWholeFrame
    /\ GFrame.type = type
    /\ gconn.cont # 0 => type = "CONTINUATION" /\ GFrame.id = gconn.cont

\* The frame is taken off recv_buf, and `out` is pushed on send_buf.
GTakes(c, out) ==
    /\ gconn' = c
    /\ gsend' = gsend \o out
    /\ ginbox' = Tail(ginbox)
    /\ gpieces' = [gpieces EXCEPT !.recv = @ - 2]
    /\ UNCHANGED <<gtls, gcut, geof, gremote>>

GTakesOnly(c, out) == GTakes(c, out) /\ UNCHANGED <<gpc, gtodo>>

\* pump_all comes next: the streams that still owe a body.
GTakesAndPumps(c, out) ==
    /\ GTakes(c, out)
    /\ gpc' = "pump"
    /\ gtodo' = {i \in GOpen(c) : c.streams[i].left > 0}

\* pump_all goes over them in the order of a hash map: any order.
GPumpAll ==
    /\ gpc = "pump"
    /\ IF gtodo = {} THEN gpc' = "parse" /\ UNCHANGED <<gconn, gsend, gtodo>>
       ELSE \E id \in gtodo :
            /\ gconn' = GPumped(gconn, id)
            /\ gsend' = gsend \o GDataFrames(gconn, GPumped(gconn, id))
            /\ gtodo' = gtodo \ {id}
            /\ UNCHANGED gpc
    /\ UNCHANGED <<gtls, gbuffers, geof, gremote, gresult>>

GExpectedContinuation ==
    /\ gpc = "parse"
    /\ GWholeFrame
    /\ gconn.cont # 0
    /\ GFrame.type # "CONTINUATION" \/ GFrame.id # gconn.cont
    /\ GMarkDead

GSettings ==
    /\ GHandles("SETTINGS")
    /\ LET delta == GFrame.n - gconn.initial
           c == [gconn EXCEPT !.initial = GFrame.n,
                   !.streams = [i \in GOpen(gconn) |->
                       [gconn.streams[i] EXCEPT !.window = GLess(GMaxWindow, @ + delta)]]]
       IN  GTakesAndPumps(c, <<0>>)
    /\ UNCHANGED gresult

\* complete_stream: the response, or an error when no header block was complete;
\* the rest of the body is cancelled.
GComplete(c, id) ==
    IF id \notin GOpen(c) THEN GTakesOnly(c, <<>>) /\ UNCHANGED gresult
    ELSE /\ GTakesOnly(GWithout(c, id), IF c.streams[id].left > 0 THEN <<0>> ELSE <<>>)
         /\ gresult' = [gresult EXCEPT ![c.streams[id].req] =
                           IF c.streams[id].done THEN "ok" ELSE "error"]

GGotHeaders(c, id) ==
    IF id \in GOpen(c) THEN [c EXCEPT !.streams = [c.streams EXCEPT ![id].done = TRUE]]
    ELSE c

GHeaders ==
    /\ GHandles("HEADERS")
    /\ LET c == IF GFrame.n = 1 THEN GGotHeaders(gconn, GFrame.id)
                ELSE [gconn EXCEPT !.cont = GFrame.id]
       IN  IF GFrame.last THEN GComplete(c, GFrame.id)
           ELSE GTakesOnly(c, <<>>) /\ UNCHANGED gresult

GContinuation ==
    /\ GHandles("CONTINUATION")
    /\ GTakesOnly([GGotHeaders(gconn, GFrame.id) EXCEPT !.cont = 0], <<>>)
    /\ UNCHANGED gresult

\* The data is credited back on the connection and on the stream.
GData ==
    /\ GHandles("DATA")
    /\ IF GFrame.last THEN GComplete(gconn, GFrame.id)
       ELSE GTakesOnly(gconn, <<0>>) /\ UNCHANGED gresult

GRstStream ==
    /\ GHandles("RST_STREAM")
    /\ GTakesOnly(GWithout(gconn, GFrame.id), <<>>)
    /\ gresult' = IF GFrame.id \notin GOpen(gconn) THEN gresult
                  ELSE [gresult EXCEPT ![gconn.streams[GFrame.id].req] = "error"]

GGoAway == GHandles("GOAWAY") /\ GMarkDead

GConnUpdate ==
    /\ GHandles("WINDOW_UPDATE")
    /\ GFrame.id = 0
    /\ IF GFrame.n = 0 \/ gconn.window + GFrame.n > GMaxWindow THEN GMarkDead
       ELSE /\ GTakesAndPumps([gconn EXCEPT !.window = @ + GFrame.n], <<>>)
            /\ UNCHANGED gresult

\* An increment of 0 or one too many resets the stream, and drops its channel.
GStreamUpdate ==
    /\ GHandles("WINDOW_UPDATE")
    /\ GFrame.id # 0
    /\ LET id   == GFrame.id
           open == id \in GOpen(gconn)
           c    == [gconn EXCEPT !.streams =
                       [gconn.streams EXCEPT ![id].window = @ + GFrame.n]]
       IN  IF GFrame.n = 0 \/ (open /\ gconn.streams[id].window + GFrame.n > GMaxWindow)
           THEN /\ GTakesOnly(GWithout(gconn, id), <<0>>)
                /\ gresult' = IF open THEN [gresult EXCEPT ![gconn.streams[id].req] = "dropped"]
                              ELSE gresult
           ELSE /\ IF open THEN GTakesOnly(GPumped(c, id), GDataFrames(c, GPumped(c, id)))
                   ELSE GTakesOnly(gconn, <<>>)
                /\ UNCHANGED gresult

GDrive ==
    \/ GWriteFrames \/ (\E n \in 0..GTlsLimit : GWriteTls(n)) \/ GWriteTlsFails
    \/ GDrainPlain \/ GReadTls \/ GDriveEnds \/ GExpectedContinuation
    \/ GSettings \/ GPumpAll \/ GHeaders \/ GContinuation \/ GData \/ GRstStream \/ GGoAway
    \/ GConnUpdate \/ GStreamUpdate

-----------------------------------------------------------------------------
(* The peer (external).                                                     *)

GSpeaks == gpc = "idle" /\ gconn.up = "open" /\ gsock = "open"

\* A frame is sent, whole or only its first half for now.  A peer that broke the
\* protocol says no more.
GPut(type, id, n, last) ==
    /\ GSpeaks
    /\ ~gfault
    /\ ~gcut
    /\ gframes < GMaxFrames
    /\ gframes' = gframes + 1
    /\ ginbox' = Append(ginbox, [type |-> type, id |-> id, n |-> n, last |-> last])
    /\ gcut' \in BOOLEAN
    /\ gpieces' = [gpieces EXCEPT !.net = @ + (IF gcut' THEN 1 ELSE 2)]
    /\ UNCHANGED <<gconn, gsend, gtls, gdrive, gsock, gresult>>

\* The peer has said GOAWAY.  What it answers after that is lost with the connection.
GToldToGo == \E i \in 1..Len(ginbox) : ginbox[i].type = "GOAWAY"

GCompletes(id, stage) ==
    /\ gpeer' = [gpeer EXCEPT ![id] = stage]
    /\ UNCHANGED gfault

\* A response is HEADERS, a block perhaps cut in two, then DATA.  It is whole when
\* all of its last frame was sent.  (One that ends with the first half of a cut
\* block is not counted: the code fails it, see H2Client.)
GBlocks == {"block", "lastblock"}
GInBlock == \E i \in DOMAIN gpeer : gpeer[i] \in GBlocks

GPeerAnswers(id) ==
    /\ \/ ~GInBlock /\ gpeer[id] = "asked" /\ GPut("HEADERS", id, 1, TRUE) /\ GCompletes(id, "done")
       \/ ~GInBlock /\ gpeer[id] = "asked" /\ GPut("HEADERS", id, 1, FALSE) /\ GCompletes(id, "body")
       \/ ~GInBlock /\ gpeer[id] = "asked" /\ GPut("HEADERS", id, 0, FALSE) /\ GCompletes(id, "block")
       \/ ~GInBlock /\ gpeer[id] = "asked" /\ GPut("HEADERS", id, 0, TRUE) /\ GCompletes(id, "lastblock")
       \/ gpeer[id] = "block" /\ GPut("CONTINUATION", id, 1, FALSE) /\ GCompletes(id, "body")
       \/ gpeer[id] = "lastblock" /\ GPut("CONTINUATION", id, 1, FALSE) /\ GCompletes(id, "over")
       \/ ~GInBlock /\ gpeer[id] = "body" /\ GPut("DATA", id, 1, FALSE) /\ GCompletes(id, "body")
       \/ ~GInBlock /\ gpeer[id] = "body" /\ GPut("DATA", id, 1, TRUE) /\ GCompletes(id, "done")
       \/ ~GInBlock /\ gpeer[id] \in {"asked", "body"} /\ GPut("RST_STREAM", id, 0, FALSE)
              /\ GCompletes(id, "reset")
    /\ gwhole' = IF gpeer'[id] = "done" /\ ~gcut' /\ ~GToldToGo /\ id \in GOpen(gconn)
                 THEN gwhole \cup {gconn.streams[id].req} ELSE gwhole

\* SETTINGS within a header block breaks the protocol, as an increment of 0 or one
\* too large does.
GPeerManages ==
    /\ \/ /\ \E w \in GWindows : GPut("SETTINGS", 0, w, FALSE)
          /\ gfault' = (gfault \/ GInBlock)
       \/ /\ ~GInBlock
          /\ GPut("GOAWAY", 0, 0, FALSE)
          /\ UNCHANGED gfault
       \/ \E n \in GIncrements, id \in {0} \cup DOMAIN gpeer :
              /\ ~GInBlock
              /\ GPut("WINDOW_UPDATE", id, n, FALSE)
              /\ gfault' = (gfault \/ n \in {0, GMaxWindow})
    /\ UNCHANGED <<gpeer, gwhole>>

\* The rest of a frame sent by half.
GPeerResumes ==
    /\ GSpeaks
    /\ gcut
    /\ gcut' = FALSE
    /\ gpieces' = [gpieces EXCEPT !.net = @ + 1]
    /\ gwhole' = gwhole \cup {gconn.streams[i].req : i \in
                                 {j \in GOpen(gconn) \cap DOMAIN gpeer : gpeer[j] = "done" /\ ~GToldToGo}}
    /\ UNCHANGED <<gconn, gsend, gtls, ginbox, gdrive, gpeer, gsock, gframes, gfault, gresult>>

\* The peer closes, or the connection is reset and what was not read is lost.
GPeerEnds ==
    /\ GSpeaks
    /\ \/ gsock' = "closed" /\ UNCHANGED gfault
       \/ gsock' = "reset" /\ gfault' = TRUE
    /\ UNCHANGED <<gconn, gsend, gtls, gbuffers, gdrive, gpeer, gframes, gresult, gwhole>>

GNext ==
    \/ \E r \in GRequests : GDispatch(r) \/ GConnectFails(r)
    \/ \E r \in GRequests : GConnect(r, <<>>)
    \/ \E r \in GRequests, w \in GWindows :
           GConnect(r, <<[type |-> "SETTINGS", id |-> 0, n |-> w, last |-> FALSE]>>)
    \/ GDrive
    \/ \E id \in DOMAIN gpeer : GPeerAnswers(id)
    \/ GPeerManages \/ GPeerResumes \/ GPeerEnds

GSpec == GInit /\ [][GNext]_gvars

-----------------------------------------------------------------------------
\* A failure is the peer's doing.  While the peer keeps to the protocol, a request
\* whose whole response it sent never fails, although it closed right after it
\* ("A backend that answers and then closes is ordinary"), and the connection
\* does not die unless it was closed or told to go away, however far the frames
\* exceed what TLS takes at once ("A SHORT write here is normal, not an error").
GFailureIsThePeers ==
    ~gfault =>
        /\ \A r \in gwhole : gresult[r] \notin {"error", "dropped"}
        /\ gconn.up = "dead" => gsock # "open" \/ GToldToGo
=============================================================================
