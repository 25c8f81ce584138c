----------------------------- MODULE FileServer -----------------------------
(***************************************************************************)
(* m6-file: the static file handler (serve) and the log tail it offers on  *)
(* a route with `tail = true` (serve_tail), with the processes that change *)
(* the files under it: a deploy that replaces an asset and a program that  *)
(* appends to a log.                                                       *)
(*                                                                         *)
(* iasset   the file behind the asset route (a version, its length)        *)
(* iserve   the request being served: what stat said, what was decided     *)
(* isent    the last complete asset response                               *)
(* ilog     the log: the numbers of its bytes' lines, oldest first         *)
(* itail    the poll in progress, and the client's next offset             *)
(* igot     what the client has been given so far                          *)
(***************************************************************************)
EXTENDS Naturals, Sequences, FiniteSets, SequenceTheorems, TLAPS

CONSTANTS IVersions,        \* versions of the asset: [id, there, mtime, len]
          IAccepts,         \* Accept-Encoding, as qualities per coding
          ILevels,          \* the configured compression: codings switched on
          ILines,           \* the lines a program appends, as their lengths
          ICounts,          \* values of ?n= the client starts with
          TAIL_LOOKBACK,    \* bytes searched for the last lines
          MAX_TAIL_BYTES    \* bytes returned per incremental poll

ASSUME FileAssumption ==
    /\ TAIL_LOOKBACK \in Nat \ {0}
    /\ MAX_TAIL_BYTES \in Nat \ {0}
    /\ ILines \in Seq(Nat \ {0})
    /\ ICounts \subseteq Nat
    /\ \A v \in IVersions : v.len \in Nat

VARIABLES iasset, iserve, isent, ilog, itail, igot

ivars == <<iasset, iserve, isent, ilog, itail, igot>>
assetVars == <<iasset, iserve, isent>>
tailVars  == <<ilog, itail, igot>>

-----------------------------------------------------------------------------
(* Content negotiation.                                                    *)

(* coding_quality: an explicit entry beats the wildcard; a coding nobody   *)
(* names is not accepted, and nor is one with quality 0.                   *)
Quality(acc, coding) == IF coding \in DOMAIN acc THEN acc[coding]
                        ELSE IF "*" \in DOMAIN acc THEN acc["*"] ELSE 0

(* choose_encoding: brotli first, gzip only when strictly preferred.       *)
ChooseEncoding(acc, levels) ==
    LET br == IF "br" \in levels THEN Quality(acc, "br") ELSE 0
        gz == IF "gzip" \in levels THEN Quality(acc, "gzip") ELSE 0
    IN  IF br > 0 /\ br >= gz THEN "br" ELSE IF gz > 0 THEN "gzip" ELSE "identity"

(* The strong validator: modification time, length and coding.             *)
Tag(v, coding) == <<v.mtime, v.len, coding>>

-----------------------------------------------------------------------------
(* serve: stat, negotiation and preconditions, then open or read.          *)

NotServing == [at |-> "idle", method |-> "GET", acc |-> <<>>, v |-> 0, coding |-> "identity"]

NoAnswer == [status |-> 0, tag |-> <<>>, label |-> "identity", length |-> 0, body |-> <<>>]

AskFile(method, acc) ==
    /\ iserve.at = "idle"
    /\ iserve' = [NotServing EXCEPT !.at = "stat", !.method = method, !.acc = acc]
    /\ UNCHANGED <<iasset, isent>> /\ UNCHANGED tailVars

(* metadata(), the coding and the tag; a validator that matches ends it.   *)
StatFile ==
    LET coding == ChooseEncoding(iserve.acc, ILevels)
    IN  /\ iserve.at = "stat"
        /\ iasset.there
        /\ iserve' = [iserve EXCEPT !.at = "open", !.v = iasset, !.coding = coding]
        /\ UNCHANGED <<iasset, isent>> /\ UNCHANGED tailVars

NotModified ==
    /\ iserve.at = "open"
    /\ isent.tag = Tag(iserve.v, iserve.coding)
    /\ iserve' = NotServing
    /\ UNCHANGED <<iasset, isent>> /\ UNCHANGED tailVars

(* No such file, at the stat or by the time it is opened: 404.             *)
FileMissing ==
    /\ iserve.at \in {"stat", "open"}
    /\ ~iasset.there
    /\ isent' = [NoAnswer EXCEPT !.status = 404]
    /\ iserve' = NotServing
    /\ UNCHANGED iasset /\ UNCHANGED tailVars

(* The file is the representation: a HEAD reads nothing, a GET streams     *)
(* metadata.len() bytes of whatever is opened now.  Fewer bytes than that  *)
(* break the connection and more are not sent.                             *)
StreamFile ==
    /\ iserve.at = "open"
    /\ iserve.coding = "identity"
    /\ \/ /\ iserve.method = "HEAD"
          /\ isent' = [status |-> 200, tag |-> Tag(iserve.v, "identity"), label |-> "identity",
                       length |-> iserve.v.len, body |-> <<>>]
       \/ /\ iserve.method = "GET"
          /\ iasset.there /\ iasset.len >= iserve.v.len
          /\ isent' = [status |-> 200, tag |-> Tag(iserve.v, "identity"), label |-> "identity",
                       length |-> iserve.v.len, body |-> <<iasset.id, "identity">>]
       \/ /\ iserve.method = "GET"
          /\ iasset.there /\ iasset.len < iserve.v.len
          /\ UNCHANGED isent
    /\ iserve' = NotServing
    /\ UNCHANGED iasset /\ UNCHANGED tailVars

(* Compressed: the file is read and encoded, and the tag and the label     *)
(* follow the bytes: when the encoder fails, both fall back to identity.   *)
EncodedAsLabelled(v, coding, ok) == [tag |-> Tag(v, coding), label |-> coding]

Encoded(v, coding, ok) ==
    IF ok THEN [tag |-> Tag(v, coding), label |-> coding]
    ELSE [tag |-> Tag(v, "identity"), label |-> "identity"]

CompressFile ==
    /\ iserve.at = "open"
    /\ iserve.coding # "identity"
    /\ iasset.there
    /\ \E ok \in BOOLEAN :
         LET e == Encoded(iserve.v, iserve.coding, ok)
         IN  isent' = [status |-> 200, tag |-> e.tag, label |-> e.label, length |-> 0,
                       body |-> IF iserve.method = "HEAD" THEN <<>>
                                ELSE <<iasset.id, IF ok THEN iserve.coding ELSE "identity">>]
    /\ iserve' = NotServing
    /\ UNCHANGED iasset /\ UNCHANGED tailVars

(* A deploy replaces or removes the file.                                  *)
ReplaceFile(v) ==
    /\ v.id = iasset.id + 1
    /\ iasset' = v
    /\ UNCHANGED <<iserve, isent>> /\ UNCHANGED tailVars

-----------------------------------------------------------------------------
(* serve_tail: the log as a sequence of bytes, each the number of its      *)
(* line; the last byte of a line is its newline.                           *)

Line(k) == [i \in 1..ILines[k] |-> [line |-> k, nl |-> i = ILines[k]]]

LinesWritten == IF ilog = <<>> THEN 0 ELSE ilog[Len(ilog)].line

AppendLine ==
    /\ LinesWritten < Len(ILines)
    /\ ilog' = ilog \o Line(LinesWritten + 1)
    /\ UNCHANGED <<itail, igot>> /\ UNCHANGED assetVars

NoPoll == [at |-> "idle", offset |-> 0, n |-> 0, size |-> 0]

(* The client asks: first for the last n lines, then from X-Log-End on.    *)
Poll(n) ==
    /\ itail.at = "idle"
    /\ itail' = [itail EXCEPT !.at = "size", !.n = n]
    /\ UNCHANGED <<ilog, igot>> /\ UNCHANGED assetVars

(* The file is opened and its size taken by seeking to the end.            *)
SeekEnd ==
    /\ itail.at = "size"
    /\ itail' = [itail EXCEPT !.at = "read", !.size = Len(ilog)]
    /\ UNCHANGED <<ilog, igot>> /\ UNCHANGED assetVars

(* The last n lines of the bytes looked at: the newline that ends the      *)
(* last line is not a boundary.                                            *)
CutAt(buf, n) ==
    LET end    == IF buf # <<>> /\ buf[Len(buf)].nl THEN Len(buf) - 1 ELSE Len(buf)
        breaks == {i \in 1..end : buf[i].nl}
        nth    == {i \in breaks : Cardinality({j \in breaks : j >= i}) = n}
    IN  IF nth = {} THEN 0 ELSE CHOOSE i \in nth : TRUE

(* The last-lines mode reads no byte past the size it took, although the   *)
(* program may have appended since; X-Log-End is that size.                *)
LastLinesOpen ==
    LET back == IF TAIL_LOOKBACK < itail.size THEN TAIL_LOOKBACK ELSE itail.size
        buf  == SubSeq(ilog, itail.size - back + 1, Len(ilog))
    IN  [body |-> SubSeq(buf, CutAt(buf, itail.n) + 1, Len(buf)), end |-> itail.size]

LastLines ==
    LET back == IF TAIL_LOOKBACK < itail.size THEN TAIL_LOOKBACK ELSE itail.size
        buf  == SubSeq(ilog, itail.size - back + 1, itail.size)
    IN  [body |-> SubSeq(buf, CutAt(buf, itail.n) + 1, Len(buf)), end |-> itail.size]

(* The incremental mode reads on from the offset, appended bytes included, *)
(* and X-Log-End is where the bytes it returns end.                        *)
NextChunk ==
    LET from == IF itail.offset < itail.size THEN itail.offset ELSE itail.size
        last == IF from + MAX_TAIL_BYTES < Len(ilog) THEN from + MAX_TAIL_BYTES ELSE Len(ilog)
    IN  [body |-> SubSeq(ilog, from + 1, last), end |-> last]

ReadTail ==
    LET r == IF itail.offset = 0 /\ itail.n > 0 THEN LastLines ELSE NextChunk
    IN  /\ itail.at = "read"
        /\ igot' = IF itail.offset = 0 THEN r.body ELSE igot \o r.body
        /\ itail' = [NoPoll EXCEPT !.offset = r.end]
        /\ UNCHANGED ilog /\ UNCHANGED assetVars

-----------------------------------------------------------------------------
IInit ==
    /\ \E v \in IVersions : v.id = 1 /\ iasset = v
    /\ iserve = NotServing
    /\ isent = NoAnswer
    /\ ilog = <<>>
    /\ itail = NoPoll
    /\ igot = <<>>

INext ==
    \/ \E m \in {"GET", "HEAD"}, a \in IAccepts : AskFile(m, a)
    \/ StatFile \/ NotModified \/ FileMissing \/ StreamFile \/ CompressFile
    \/ \E v \in IVersions : ReplaceFile(v)
    \/ AppendLine
    \/ \E n \in ICounts : Poll(n)
    \/ SeekEnd \/ ReadTail

ISpec == IInit /\ [][INext]_ivars

(* A client that follows a log - the last lines first, then from X-Log-End *)
(* on - is given every byte from where it began to X-Log-End, each once    *)
(* and in order, however the program's appends fall between the seek and   *)
(* the read and however long the backlog is.                               *)
ITailIsExact ==
    itail.offset > 0 => igot = SubSeq(ilog, itail.offset - Len(igot) + 1, itail.offset)

(* The strong tag and the Content-Encoding of a response describe the      *)
(* coding of the bytes under it, also when the encoder failed.             *)
ILabelIsTrue ==
    isent.body # <<>> => /\ isent.label = isent.body[2]
                         /\ isent.tag[3] = isent.body[2]

(* What m6-file sends is labelled and cut where it says.                   *)
IContract == ITailIsExact /\ ILabelIsTrue

-----------------------------------------------------------------------------
(* The proof.  A poll's offset never passes the size it took, nor the size *)
(* the log, which only grows: so what a poll returns begins where the last *)
(* one ended, whatever was appended in between.                            *)

Byte == [line : Nat, nl : BOOLEAN]

TailTypes ==
    /\ ilog \in Seq(Byte)
    /\ igot \in Seq(Byte)
    /\ itail \in [at : {"idle", "size", "read"}, offset : Nat, n : Nat, size : Nat]
    /\ itail.offset <= Len(ilog)
    /\ itail.at = "read" => itail.offset <= itail.size /\ itail.size <= Len(ilog)
    /\ itail.offset > 0 => Len(igot) <= itail.offset

FileInv == TailTypes /\ IContract

\* A part of a sequence, byte by byte.
LEMMA PartIs ==
  ASSUME NEW S, NEW s \in Seq(S), NEW a \in Nat, NEW b \in Nat, a <= b, b <= Len(s)
  PROVE  /\ SubSeq(s, a + 1, b) \in Seq(S)
         /\ Len(SubSeq(s, a + 1, b)) = b - a
         /\ \A i \in 1..(b - a) : SubSeq(s, a + 1, b)[i] = s[a + i]
  <1>1. \A i \in (a + 1)..b : s[i] \in S BY SMT
  <1>2. Len(SubSeq(s, a + 1, b)) = b - a BY SMT
  <1>3. \A i \in 1..(b - a) : SubSeq(s, a + 1, b)[i] = s[a + i] BY SMT
  <1> QED BY <1>1, <1>2, <1>3

\* Two parts that meet are one.
LEMMA PartsMeet ==
  ASSUME NEW S, NEW s \in Seq(S), NEW a \in Nat, NEW b \in Nat, NEW c \in Nat,
         a <= b, b <= c, c <= Len(s)
  PROVE  SubSeq(s, a + 1, b) \o SubSeq(s, b + 1, c) = SubSeq(s, a + 1, c)
  <1> DEFINE p == SubSeq(s, a + 1, b)
             q == SubSeq(s, b + 1, c)
             r == SubSeq(s, a + 1, c)
  <1>1. /\ p \in Seq(S) /\ Len(p) = b - a /\ \A i \in 1..(b - a) : p[i] = s[a + i]
        /\ q \in Seq(S) /\ Len(q) = c - b /\ \A i \in 1..(c - b) : q[i] = s[b + i]
    BY PartIs
  <1>2. r \in Seq(S) /\ Len(r) = c - a /\ \A i \in 1..(c - a) : r[i] = s[a + i]
    BY PartIs
  <1> HIDE DEF p, q, r
  <1>3. p \o q \in Seq(S) /\ Len(p \o q) = c - a
    <2>1. p \o q \in Seq(S) /\ Len(p \o q) = Len(p) + Len(q) BY <1>1, ConcatProperties
    <2> QED BY <2>1, <1>1
  <1>4. \A i \in 1..(c - a) : (p \o q)[i] = s[a + i]
    <2> SUFFICES ASSUME NEW i \in 1..(c - a) PROVE (p \o q)[i] = s[a + i] OBVIOUS
    <2>1. CASE i <= b - a
      <3>1. (p \o q)[i] = p[i] BY <1>1, <2>1
      <3> QED BY <3>1, <1>1, <2>1
    <2>2. CASE i > b - a
      <3>1. (p \o q)[i] = q[i - (b - a)] BY <1>1, <2>2
      <3>2. i - (b - a) \in 1..(c - b) BY <2>2
      <3>3. q[i - (b - a)] = s[b + (i - (b - a))] BY <1>1, <3>2
      <3>4. b + (i - (b - a)) = a + i OBVIOUS
      <3> QED BY <3>1, <3>3, <3>4
    <2>3. i <= b - a \/ i > b - a BY SMT
    <2> QED BY <2>1, <2>2, <2>3
  <1> QED BY <1>2, <1>3, <1>4, SeqEqual DEF p, q, r

\* What is appended leaves every part before it.
LEMMA PartStays ==
  ASSUME NEW S, NEW s \in Seq(S), NEW t \in Seq(S), NEW a \in Nat, NEW b \in Nat, a <= b, b <= Len(s)
  PROVE  SubSeq(s \o t, a + 1, b) = SubSeq(s, a + 1, b)
  <1>1. s \o t \in Seq(S) /\ b <= Len(s \o t) /\ \A i \in 1..Len(s) : (s \o t)[i] = s[i] OBVIOUS
  <1> DEFINE p == SubSeq(s, a + 1, b)
             q == SubSeq(s \o t, a + 1, b)
  <1>2. p \in Seq(S) /\ Len(p) = b - a /\ \A i \in 1..(b - a) : p[i] = s[a + i] BY PartIs
  <1>3. q \in Seq(S) /\ Len(q) = b - a /\ \A i \in 1..(b - a) : q[i] = (s \o t)[a + i]
    BY <1>1, PartIs
  <1>4. \A i \in 1..(b - a) : a + i \in 1..Len(s) OBVIOUS
  <1> HIDE DEF p, q
  <1>5. \A i \in 1..(b - a) : q[i] = p[i] BY <1>1, <1>2, <1>3, <1>4
  <1> QED BY <1>2, <1>3, <1>5, SeqEqual DEF p, q

\* A part of a part.
LEMMA PartOfPart ==
  ASSUME NEW S, NEW s \in Seq(S), NEW a \in Nat, NEW b \in Nat, NEW c \in Nat,
         a <= b, b <= Len(s), c <= b - a
  PROVE  SubSeq(SubSeq(s, a + 1, b), c + 1, b - a) = SubSeq(s, (a + c) + 1, b)
  <1> DEFINE p == SubSeq(s, a + 1, b)
             q == SubSeq(p, c + 1, b - a)
             r == SubSeq(s, (a + c) + 1, b)
  <1>1. p \in Seq(S) /\ Len(p) = b - a /\ \A i \in 1..(b - a) : p[i] = s[a + i] BY PartIs
  <1> HIDE DEF p
  <1>2. /\ q \in Seq(S) /\ Len(q) = (b - a) - c
        /\ \A i \in 1..((b - a) - c) : q[i] = p[c + i]
    <2>1. b - a \in Nat /\ b - a <= Len(p) BY <1>1
    <2> QED BY <1>1, <2>1, PartIs
  <1>3. r \in Seq(S) /\ Len(r) = b - (a + c) /\ \A i \in 1..(b - (a + c)) : r[i] = s[(a + c) + i]
    <2>1. a + c \in Nat /\ a + c <= b OBVIOUS
    <2> QED BY <2>1, PartIs
  <1> HIDE DEF q, r
  <1>4. \A i \in 1..((b - a) - c) : q[i] = r[i]
    <2> SUFFICES ASSUME NEW i \in 1..((b - a) - c) PROVE q[i] = r[i] OBVIOUS
    <2>1. c + i \in 1..(b - a) /\ i \in 1..(b - (a + c)) /\ a + (c + i) = (a + c) + i OBVIOUS
    <2> QED BY <2>1, <1>1, <1>2, <1>3
  <1>5. (b - a) - c = b - (a + c) OBVIOUS
  <1> QED BY <1>2, <1>3, <1>4, <1>5, SeqEqual DEF p, q, r

\* An appended line is made of bytes.
LEMMA LineIs == ASSUME NEW k \in 1..Len(ILines) PROVE Line(k) \in Seq(Byte)
  <1>1. ILines[k] \in Nat /\ k \in Nat BY FileAssumption
  <1>2. \A i \in 1..ILines[k] : [line |-> k, nl |-> i = ILines[k]] \in Byte BY <1>1 DEF Byte
  <1> QED BY <1>1, <1>2 DEF Line

\* The cut lies within the bytes looked at.
LEMMA CutIsInside == ASSUME NEW buf \in Seq(Byte), NEW n \in Nat
                     PROVE  CutAt(buf, n) \in 0..Len(buf)
  <1> DEFINE end    == IF buf # <<>> /\ buf[Len(buf)].nl THEN Len(buf) - 1 ELSE Len(buf)
             breaks == {i \in 1..end : buf[i].nl}
             nth    == {i \in breaks : Cardinality({j \in breaks : j >= i}) = n}
  <1>1. nth \subseteq 1..Len(buf) OBVIOUS
  <1>2. CutAt(buf, n) = IF nth = {} THEN 0 ELSE CHOOSE i \in nth : TRUE BY DEF CutAt
  <1> HIDE DEF nth
  <1>3. nth # {} => (CHOOSE i \in nth : TRUE) \in nth OBVIOUS
  <1>4. Len(buf) \in Nat BY LenProperties
  <1>5. CASE nth = {}
    <2>1. CutAt(buf, n) = 0 BY <1>2, <1>5
    <2> QED BY <2>1, <1>4
  <1>6. CASE nth # {}
    <2>1. CutAt(buf, n) \in nth BY <1>2, <1>3, <1>6
    <2>2. CutAt(buf, n) \in 1..Len(buf) BY <2>1, <1>1
    <2> QED BY <2>2, <1>4
  <1> QED BY <1>5, <1>6

\* What the tail was given ends where the client goes on from.
LEMMA ReadTailStep ==
  ASSUME FileInv, ReadTail PROVE TailTypes' /\ ITailIsExact'
  <1> USE DEF FileInv
  <1> DEFINE o == itail.offset
             r == IF o = 0 /\ itail.n > 0 THEN LastLines ELSE NextChunk
  <1>1. /\ itail.at = "read" /\ ilog' = ilog
        /\ igot' = IF o = 0 THEN r.body ELSE igot \o r.body
        /\ itail' = [NoPoll EXCEPT !.offset = r.end]
    BY DEF ReadTail
  <1>2. /\ ilog \in Seq(Byte) /\ igot \in Seq(Byte) /\ o \in Nat /\ itail.size \in Nat /\ itail.n \in Nat
        /\ o <= itail.size /\ itail.size <= Len(ilog) /\ Len(ilog) \in Nat
    BY <1>1 DEF TailTypes
  <1>3. \E a \in Nat, b \in Nat : /\ a <= b /\ b <= Len(ilog) /\ (o > 0 => a = o)
                                 /\ r.body = SubSeq(ilog, a + 1, b) /\ r.end = b
    <2>1. CASE o = 0 /\ itail.n > 0
      <3> DEFINE back == IF TAIL_LOOKBACK < itail.size THEN TAIL_LOOKBACK ELSE itail.size
                 from == itail.size - back
                 buf  == SubSeq(ilog, from + 1, itail.size)
                 cut  == CutAt(buf, itail.n)
      <3>1. back \in Nat /\ from \in Nat /\ from <= itail.size /\ itail.size - from = back
        BY <1>2, FileAssumption
      <3>2. buf \in Seq(Byte) /\ Len(buf) = itail.size - from
        <4> HIDE DEF from
        <4> QED BY <3>1, <1>2, PartIs
      <3>3. r.body = SubSeq(buf, cut + 1, Len(buf)) /\ r.end = itail.size
        BY <2>1 DEF LastLines
      <3> HIDE DEF buf, from, back
      <3>4. cut \in 0..Len(buf) BY <3>2, <1>2, CutIsInside
      <3> HIDE DEF cut
      <3>5. cut \in Nat /\ cut <= itail.size - from BY <3>1, <3>2, <3>4
      <3>6. SubSeq(buf, cut + 1, itail.size - from) = SubSeq(ilog, (from + cut) + 1, itail.size)
        <4> DEFINE z == itail.size
        <4>1. ilog \in Seq(Byte) /\ from \in Nat /\ z \in Nat /\ cut \in Nat /\ from <= z
              /\ z <= Len(ilog) /\ cut <= z - from BY <3>1, <3>5, <1>2
        <4> HIDE DEF z
        <4>2. SubSeq(SubSeq(ilog, from + 1, z), cut + 1, z - from) = SubSeq(ilog, (from + cut) + 1, z)
          BY <4>1, PartOfPart
        <4> QED BY <4>2 DEF buf, z
      <3>7. from + cut \in Nat /\ from + cut <= itail.size BY <3>1, <3>5, <1>2
      <3> HIDE DEF r
      <3>8. r.body = SubSeq(ilog, (from + cut) + 1, itail.size) BY <3>2, <3>3, <3>6
      <3>9. ~(o > 0) BY <2>1
      <3> USE <3>7, <1>2
      <3> WITNESS from + cut \in Nat, itail.size \in Nat
      <3> QED BY <3>3, <3>7, <3>8, <3>9, <1>2
    <2>2. CASE ~(o = 0 /\ itail.n > 0)
      <3> DEFINE last == IF o + MAX_TAIL_BYTES < Len(ilog) THEN o + MAX_TAIL_BYTES ELSE Len(ilog)
      <3>1. r.body = SubSeq(ilog, o + 1, last) /\ r.end = last
        <4>1. (IF o < itail.size THEN o ELSE itail.size) = o BY <1>2
        <4> QED BY <2>2, <4>1 DEF NextChunk
      <3>2. last \in Nat /\ o <= last /\ last <= Len(ilog) BY <1>2, FileAssumption
      <3> HIDE DEF r, last
      <3> QED BY <3>1, <3>2, <1>2
    <2> QED BY <2>1, <2>2
  <1> HIDE DEF r
  <1>4. PICK a \in Nat, b \in Nat : /\ a <= b /\ b <= Len(ilog) /\ (o > 0 => a = o)
                                  /\ r.body = SubSeq(ilog, a + 1, b) /\ r.end = b
    BY <1>3
  <1>5. r.body \in Seq(Byte) /\ Len(r.body) = b - a BY <1>2, <1>4, PartIs
  <1>6. itail' \in [at : {"idle", "size", "read"}, offset : Nat, n : Nat, size : Nat]
        /\ itail'.at = "idle" /\ itail'.offset = b
    BY <1>1, <1>4 DEF NoPoll
  <1>7. igot' \in Seq(Byte) /\ Len(igot') <= b /\ igot' = SubSeq(ilog, (b - Len(igot')) + 1, b)
    <2>1. CASE o = 0
      <3>1. igot' = r.body BY <1>1, <2>1
      <3>2. b - Len(igot') = a BY <3>1, <1>4, <1>5
      <3> QED BY <3>1, <3>2, <1>4, <1>5
    <2>2. CASE o > 0
      <3> DEFINE s == o - Len(igot)
      <3>0. o # 0 BY <2>2, <1>2
      <3>1. igot' = igot \o r.body /\ a = o BY <1>1, <1>4, <2>2, <3>0
      <3>2. s \in Nat /\ s <= o /\ igot = SubSeq(ilog, s + 1, o)
        BY <1>2, <2>2 DEF TailTypes, ITailIsExact, IContract
      <3>3. /\ igot' \in Seq(Byte) /\ Len(igot') = Len(igot) + (b - o)
        BY <3>1, <1>2, <1>5, ConcatProperties
      <3>4. b - Len(igot') = s BY <3>3, <1>2, <1>4
      <3> HIDE DEF s
      <3>5. igot' = SubSeq(ilog, s + 1, b)
        <4>1. igot' = SubSeq(ilog, s + 1, o) \o SubSeq(ilog, o + 1, b) BY <3>1, <3>2, <1>4
        <4>2. o <= b /\ b <= Len(ilog) BY <3>1, <1>4
        <4> HIDE DEF o
        <4>3. SubSeq(ilog, s + 1, o) \o SubSeq(ilog, o + 1, b) = SubSeq(ilog, s + 1, b)
          BY <3>2, <1>2, <4>2, PartsMeet
        <4> QED BY <4>1, <4>3
      <3>6. Len(igot') <= b BY <3>2, <3>3, <3>4, <1>2, <1>4
      <3> QED BY <3>3, <3>4, <3>5, <3>6
    <2> QED BY <2>1, <2>2, <1>2
  <1>8. TailTypes' BY <1>1, <1>2, <1>4, <1>6, <1>7 DEF TailTypes
  <1>9. ITailIsExact' BY <1>1, <1>6, <1>7 DEF ITailIsExact
  <1> QED BY <1>8, <1>9

\* The log grows by whole lines behind what was read.
LEMMA AppendLineStep ==
  ASSUME FileInv, AppendLine PROVE TailTypes' /\ ITailIsExact'
  <1> USE DEF FileInv
  <1> DEFINE t == Line(LinesWritten + 1)
  <1>1. UNCHANGED <<itail, igot>> /\ ilog' = ilog \o t BY DEF AppendLine
  <1>2. ilog \in Seq(Byte) /\ Len(ilog) \in Nat BY DEF TailTypes
  <1>3. t \in Seq(Byte)
    <2>1. LinesWritten \in Nat
      <3>1. CASE ilog = <<>> BY <3>1 DEF LinesWritten
      <3>2. CASE ilog # <<>>
        <4>1. ilog[Len(ilog)] \in Byte BY <3>2, <1>2
        <4> QED BY <4>1, <3>2 DEF LinesWritten, Byte
      <3> QED BY <3>1, <3>2
    <2>2. LinesWritten + 1 \in 1..Len(ILines) BY <2>1, FileAssumption DEF AppendLine
    <2> QED BY <2>2, LineIs
  <1> HIDE DEF t
  <1>4. ilog' \in Seq(Byte) /\ Len(ilog) <= Len(ilog') BY <1>1, <1>2, <1>3
  <1>5. TailTypes' BY <1>1, <1>2, <1>4 DEF TailTypes
  <1>6. ITailIsExact'
    <2> SUFFICES ASSUME itail.offset > 0
                 PROVE  igot = SubSeq(ilog', itail.offset - Len(igot) + 1, itail.offset)
      BY <1>1 DEF ITailIsExact
    <2> DEFINE a == itail.offset - Len(igot)
    <2>1. /\ itail.offset \in Nat /\ a \in Nat /\ a <= itail.offset /\ itail.offset <= Len(ilog)
          /\ igot = SubSeq(ilog, a + 1, itail.offset)
      BY DEF TailTypes, ITailIsExact, IContract
    <2> HIDE DEF a
    <2>2. SubSeq(ilog \o t, a + 1, itail.offset) = SubSeq(ilog, a + 1, itail.offset)
      BY <2>1, <1>2, <1>3, PartStays
    <2> QED BY <2>1, <2>2, <1>1 DEF a
  <1> QED BY <1>5, <1>6

\* No step of the server, of a deploy or of a program that logs breaks the promise.
LEMMA FileNext ==
  ASSUME FileInv, [INext]_ivars PROVE FileInv'
  <1> USE DEF FileInv
  <1>1. CASE ReadTail BY <1>1, ReadTailStep DEF ReadTail, assetVars, IContract, ILabelIsTrue
  <1>2. CASE AppendLine BY <1>2, AppendLineStep DEF AppendLine, assetVars, IContract, ILabelIsTrue
  <1>3. CASE (\E n \in ICounts : Poll(n)) \/ SeekEnd
    <2>1. UNCHANGED <<ilog, igot, isent>> /\ itail'.offset = itail.offset
      BY <1>3 DEF Poll, SeekEnd, assetVars, TailTypes
    <2>2. TailTypes'
      <3>1. CASE SeekEnd
        <4>1. Len(ilog) \in Nat BY LenProperties DEF TailTypes
        <4>2. itail' = [itail EXCEPT !.at = "read", !.size = Len(ilog)] BY <3>1 DEF SeekEnd
        <4>3. /\ itail' \in [at : {"idle", "size", "read"}, offset : Nat, n : Nat, size : Nat]
              /\ itail'.size = Len(ilog)
          BY <4>1, <4>2 DEF TailTypes
        <4> QED BY <2>1, <4>1, <4>3 DEF TailTypes
      <3>2. ASSUME NEW n \in ICounts, Poll(n) PROVE TailTypes'
        BY <3>2, <2>1, FileAssumption DEF Poll, TailTypes
      <3> QED BY <1>3, <3>1, <3>2
    <2> QED BY <2>1, <2>2 DEF IContract, ITailIsExact, ILabelIsTrue
  <1>4. CASE UNCHANGED tailVars /\ ILabelIsTrue'
    BY <1>4 DEF tailVars, TailTypes, IContract, ITailIsExact
  <1>5. CASE \/ \E m \in {"GET", "HEAD"}, a \in IAccepts : AskFile(m, a)
             \/ StatFile \/ NotModified \/ \E v \in IVersions : ReplaceFile(v)
             \/ UNCHANGED ivars
    <2>1. UNCHANGED tailVars /\ UNCHANGED isent
      BY <1>5 DEF AskFile, StatFile, NotModified, ReplaceFile, ivars, tailVars
    <2> QED BY <2>1, <1>4 DEF IContract, ILabelIsTrue
  <1>6. CASE FileMissing BY <1>6, <1>4 DEF FileMissing, NoAnswer, ILabelIsTrue
  <1>7. CASE StreamFile BY <1>7, <1>4 DEF StreamFile, ILabelIsTrue, Tag, IContract
  <1>8. CASE CompressFile
    <2>1. PICK ok \in BOOLEAN :
         LET e == Encoded(iserve.v, iserve.coding, ok)
         IN  isent' = [status |-> 200, tag |-> e.tag, label |-> e.label, length |-> 0,
                       body |-> IF iserve.method = "HEAD" THEN <<>>
                                ELSE <<iasset.id, IF ok THEN iserve.coding ELSE "identity">>]
      BY <1>8 DEF CompressFile
    <2>2. ILabelIsTrue' BY <2>1 DEF Encoded, Tag, ILabelIsTrue
    <2> QED BY <2>2, <1>4, <1>8 DEF CompressFile
  <1> QED BY <1>1, <1>2, <1>3, <1>5, <1>6, <1>7, <1>8 DEF INext

\* m6-file's answers are labelled for what they carry, and a client that follows a log is
\* given each byte once, whatever the lookback, the chunk and the lines.
THEOREM FilesAreLabelledAndCut == ISpec => []IContract
  <1>1. IInit => FileInv
    BY DEF IInit, FileInv, TailTypes, NoPoll, NoAnswer, IContract, ITailIsExact, ILabelIsTrue
  <1>2. FileInv => IContract BY DEF FileInv
  <1> QED BY <1>1, <1>2, FileNext, PTL DEF ISpec
=============================================================================
