--------------------------- MODULE MCConnections ----------------------------
(***************************************************************************)
(* The edge's connections on both sides, and their peers.                   *)
(* The components share no state here, so each behaviour is of one of them, *)
(* `focus`, and the others stay as they begin.                             *)
(***************************************************************************)
EXTENDS Http2Server, Http3Conn, RefusalLog, H2Client, H2TlsClient, Forwarding

VARIABLE focus

allvars == <<focus, h2vars, h3vars, rvars, clientvars, gvars, xvars>>

(* Http2Server: two client streams and one even id, windows of 4 bytes and frames of 2:    *)
(* bodies of 3 and 5 run out of both windows, and the cap of one stream binds.*)

(* H2Client: two requests with bodies of two bytes and one, windows of 1 to 4: bodies   *)
(* run out of credit on the stream and on the connection.                     *)

CONSTANTS ra, rb
MCBody == [r \in Requests |-> IF r = ra THEN 2 ELSE 1]
MCMaxFrames == [p \in Peers |-> IF p = "faulty" THEN 2 ELSE 3]

(* H2TlsClient *)

CONSTANTS ga, gb
MCGBody == [r \in GRequests |-> IF r = ga THEN 2 ELSE 0]

(* Forwarding *)

MCXNames == {"host", "app", "te", "via"}

\* Requests that differ from a plain GET in one respect.
Plainly(r) == r.forwarded = "none" /\ r.trust = "never" /\ r.method = "GET" /\ r.safe /\ r.body = 0
MCXRequests ==
    {r \in AnyRequest :
        \/ /\ Plainly(r) /\ "host" \in r.names
           /\ r.nominated \in {{}, {"app"}, {"host"}}
        \/ Plainly(r) /\ r.names = {"app"} /\ r.nominated = {}
        \/ /\ r.names = {"host"} /\ r.nominated = {}
           /\ \/ Plainly([r EXCEPT !.method = "GET"])
              \/ Plainly([r EXCEPT !.safe = TRUE, !.body = 0])
              \/ Plainly([r EXCEPT !.forwarded = "none", !.trust = "never"])}

Chunk(n) == <<n, NL>> \o [i \in 1..n |-> Unit] \o <<NL>>
Last0(tr) == <<0, NL>> \o (IF tr THEN <<Trailer, NL>> ELSE <<>>) \o <<NL>>
Plain(n) == [i \in 1..n |-> Unit]

Message(st, ls, te, w, p) == [status |-> st, lengths |-> ls, te |-> te, wire |-> w, payload |-> p]

MCXMessages ==
    {Message("200", {n}, "none", Plain(n), n) : n \in 0..3}
    \cup {Message("200", {}, "none", Plain(n), n) : n \in {0, 2}}
    \cup {Message("200", {}, "chunked", Chunk(a) \o Chunk(b) \o Last0(tr), a + b) :
             a \in 1..2, b \in {1}, tr \in BOOLEAN}
    \cup {Message("200", {}, "chunked", Last0(FALSE), 0)}
    \cup {Message("200", {}, "chunked", Chunk(1) \o <<0, NL, BadTrailer, NL, NL>>, 1)}
    \cup {Message("204", {2}, "none", <<>>, 0), Message("200", {1, 2}, "none", Plain(2), 2),
          Message("200", {-1}, "none", Plain(1), 1), Message("200", {1}, "chunked", Chunk(1) \o Last0(FALSE), 1),
          Message("200", {}, "other", Plain(2), 2), Message("200", {40}, "none", Plain(2), 40)}

(* One component at a time. *)

MCInit ==
    /\ focus \in {"h2", "h3", "refusals", "h2c", "h2s", "forward"}
    /\ H2Init
    /\ H3Init
    /\ RInit
    /\ ClientInit
    /\ focus # "h2c" => kind = CHOOSE p \in Peers : TRUE
    /\ GInit
    /\ XInit
    /\ focus # "forward" =>
           /\ xreq = CHOOSE r \in XRequests : TRUE
           /\ xleg.kind = CHOOSE k \in XLegs : TRUE
           /\ xleg.url = CHOOSE u \in Authorities : TRUE

(* The component in focus takes a step, every other one rests. *)
MCNext ==
    /\ UNCHANGED focus
    /\ IF focus = "h2" THEN H2Next ELSE UNCHANGED h2vars
    /\ IF focus = "h3" THEN H3Next ELSE UNCHANGED h3vars
    /\ IF focus = "refusals" THEN RNext ELSE UNCHANGED rvars
    /\ IF focus = "h2c" THEN ClientNext ELSE UNCHANGED clientvars
    /\ IF focus = "h2s" THEN GNext ELSE UNCHANGED gvars
    /\ IF focus = "forward" THEN XNext ELSE UNCHANGED xvars

MCSpec == MCInit /\ [][MCNext]_allvars
=============================================================================
