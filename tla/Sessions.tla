------------------------------ MODULE Sessions ------------------------------
(***************************************************************************)
(* Analytics sessions (m6-http analytics.rs) across the two hops of a      *)
(* site: a cache node in front of an origin, both m6-http, each logging    *)
(* every request against the visitor's _m6sid and each ready to mint one.  *)
(*                                                                         *)
(* The cache node answers a page from its cache, a missing path from the   *)
(* error page it holds, and anything else by asking the origin.  A cookie  *)
(* is the number of the session it names; 0 is none.                       *)
(***************************************************************************)
EXTENDS Integers, Sequences, FiniteSets, FiniteSetTheorems, TLAPS

CONSTANTS
    Visitors,
    NMaxRequests,    \* bound: requests
    NMissing         \* whether visitors ask for paths the cache node has no route for

ASSUME SessionsAssumption == NMaxRequests \in Nat /\ NMissing \in BOOLEAN

VARIABLES
    njar,      \* njar[v]: the session cookie v's browser holds
    ncache,    \* the cached page is present (stored without Set-Cookie)
    nheld,     \* the held error page: whether there is one, its Set-Cookies
    nwait,     \* requests at the origin: [visitor, kind, cookie, at, set, sid]
    nnext,     \* the next session id: 128 random bits, so never one twice
    non,       \* non[node]: analytics.enabled
    nasked,    \* requests so far
    nanswers   \* history: [visitor, html, kind, set, origin, edge] per answer

nvars == <<njar, ncache, nheld, nwait, nnext, non, nasked, nanswers>>

Kinds == {"page", "asset"} \cup (IF NMissing THEN {"missing"} ELSE {})
Html(kind) == kind # "asset"

-----------------------------------------------------------------------------
(* analytics.rs.  Each gives [log, set, next]: the session logged (0 when   *)
(* analytics is off), the Set-Cookies of the response, the id counter.     *)

\* record and finish_response: the request's cookie, or a new session, which
\* only an HTML response carries back.
FinishResponse(on, set, cookie, html, next) ==
    IF ~on THEN [log |-> 0, set |-> set, next |-> next]
    ELSE IF cookie # 0 THEN [log |-> cookie, set |-> set, next |-> next]
    ELSE [log |-> next, set |-> IF html THEN set \cup {next} ELSE set, next |-> next + 1]

\* Mutant: the proxied response is finished like a local one.
FinishAsLocal(on, set, cookie, html, next) == FinishResponse(on, set, cookie, html, next)

\* finish_proxied_response: a session the backend minted is this node's too.
FinishProxied(on, set, cookie, html, next) ==
    IF on /\ set # {}
    THEN [log |-> CHOOSE s \in set : TRUE, set |-> set, next |-> next]
    ELSE FinishResponse(on, set, cookie, html, next)

-----------------------------------------------------------------------------
Answered(v, kind, f, originLog) ==
    /\ njar' = IF f.set = {} THEN njar ELSE [njar EXCEPT ![v] = CHOOSE s \in f.set : TRUE]
    /\ nanswers' = nanswers \cup {[visitor |-> v, kind |-> kind, set |-> f.set,
                                   origin |-> originLog, edge |-> f.log, cookie |-> njar[v],
                                   n |-> nasked]}

\* The cache node: a cached page and a held error page are answered at once,
\* everything else waits for the origin.  The error page is fetched with no
\* header of the client's but Host.
Ask(v, kind) ==
    /\ nasked < NMaxRequests
    /\ nasked' = nasked + 1
    /\ \/ /\ kind = "page" /\ ncache
          /\ LET f == FinishResponse(non["edge"], {}, njar[v], TRUE, nnext)
             IN  Answered(v, kind, f, f.log) /\ nnext' = f.next
          /\ UNCHANGED nwait
       \/ /\ kind = "missing" /\ nheld.have
          /\ LET f == FinishResponse(non["edge"], nheld.set, njar[v], TRUE, nnext)
             IN  Answered(v, kind, f, f.log) /\ nnext' = f.next
          /\ UNCHANGED nwait
       \/ /\ ~(kind = "page" /\ ncache) /\ ~(kind = "missing" /\ nheld.have)
          /\ nwait' = nwait \cup {[visitor |-> v, kind |-> kind, cookie |-> njar[v],
                                   sent |-> IF kind = "missing" THEN 0 ELSE njar[v],
                                   at |-> "sent", set |-> {}, log |-> 0, n |-> nasked]}
          /\ UNCHANGED <<njar, nanswers, nnext>>
    /\ UNCHANGED <<ncache, nheld, non>>

\* The origin's m6-http renders it from a socket backend, which sets no
\* session cookie.
OriginAnswers(w) ==
    /\ w.at = "sent"
    /\ LET f == FinishResponse(non["origin"], {}, w.sent, Html(w.kind), nnext)
       IN  /\ nwait' = (nwait \ {w}) \cup {[w EXCEPT !.at = "back", !.set = f.set, !.log = f.log]}
           /\ nnext' = f.next
    /\ UNCHANGED <<njar, ncache, nheld, non, nasked, nanswers>>

\* finalize_url_response: the page goes to the cache without its Set-Cookies;
\* the error page is held with the headers it came with; then analytics.
EdgeFinishes(w) ==
    /\ w.at = "back"
    /\ nwait' = nwait \ {w}
    /\ ncache' = (ncache \/ w.kind = "page")
    /\ nheld' = IF w.kind = "missing" THEN [have |-> TRUE, set |-> w.set] ELSE nheld
    /\ LET f == FinishProxied(non["edge"], w.set, w.cookie, Html(w.kind), nnext)
       IN  /\ njar' = IF f.set = {} THEN njar
                      ELSE [njar EXCEPT ![w.visitor] = CHOOSE s \in f.set : TRUE]
           /\ nanswers' = nanswers \cup {[visitor |-> w.visitor, kind |-> w.kind, set |-> f.set,
                                          origin |-> w.log, edge |-> f.log, cookie |-> w.cookie,
                                          n |-> w.n]}
           /\ nnext' = f.next
    /\ UNCHANGED <<non, nasked>>

\* The cached page lapses, the held error page outlives ERROR_PAGE_TTL.
Lapse ==
    /\ \/ ncache /\ ncache' = FALSE /\ UNCHANGED nheld
       \/ nheld.have /\ nheld' = [have |-> FALSE, set |-> {}] /\ UNCHANGED ncache
    /\ UNCHANGED <<njar, nwait, nnext, non, nasked, nanswers>>

NInit ==
    /\ njar = [v \in Visitors |-> 0]
    /\ ncache = FALSE
    /\ nheld = [have |-> FALSE, set |-> {}]
    /\ nwait = {}
    /\ nnext = 1
    /\ non \in [{"edge", "origin"} -> BOOLEAN]
    /\ nasked = 0
    /\ nanswers = {}

NNext ==
    \/ \E v \in Visitors, kind \in Kinds : Ask(v, kind)
    \/ \E w \in nwait : OriginAnswers(w) \/ EdgeFinishes(w)
    \/ Lapse

NSpec == NInit /\ [][NNext]_nvars

-----------------------------------------------------------------------------
(* Properties                                                              *)

\* A visit is one session: an answer to a page or an asset sets at most one
\* session cookie, and when both nodes saw the request and the answer is a
\* page, they logged it against the same session, which is the one the visitor
\* now holds.
NOneSessionPerAnswer ==
    \A a \in nanswers :
        a.kind # "missing" =>
            /\ Cardinality(a.set) <= 1
            /\ a.kind = "page" /\ a.origin # 0 /\ a.edge # 0 =>
                   a.origin = a.edge /\ (a.set = {} \/ a.set = {a.edge})

\* The held error page "must be the document, not this exchange", so that two
\* visitors who ask for missing paths are not handed one session.
NSessionsAreNotShared ==
    \A a, b \in nanswers : a.visitor # b.visitor => a.set \cap b.set = {}

-----------------------------------------------------------------------------
(* Proof.  The origin minted the session of a page exactly when the request  *)
(* came to it without one, and then its answer carries that session alone;   *)
(* so the cache node has a cookie to log, or one to take over, and mints its *)
(* own only where the origin logged nothing.                                *)

\* What the origin's answer to a request for a page or an asset says.
OriginAgrees(w) ==
    /\ w.sent = w.cookie
    /\ w.kind = "asset" => w.set = {}
    /\ w.kind = "page" =>
          \/ w.log = 0 /\ w.set = {}
          \/ w.log # 0 /\ w.log = w.cookie /\ w.set = {}
          \/ w.log # 0 /\ w.cookie = 0 /\ w.set = {w.log}

WaitOK(w) ==
    /\ DOMAIN w = {"visitor", "kind", "cookie", "sent", "at", "set", "log", "n"}
    /\ w.kind \in {"page", "asset", "missing"}
    /\ w.visitor \in Visitors /\ w.cookie \in Nat /\ w.sent \in Nat
    /\ w.set \subseteq Nat
    /\ w.at = "sent" => w.set = {} /\ w.log = 0
    /\ w.kind # "missing" => OriginAgrees(w)

SessionsInv ==
    /\ njar \in [Visitors -> Nat]
    /\ nnext \in Nat \ {0}
    /\ nheld.set \subseteq Nat
    /\ \A w \in nwait : WaitOK(w)
    /\ NOneSessionPerAnswer

\* An answer that sets no session, or one, counts as at most one.
LEMMA OneAtMost == ASSUME NEW S, S = {} \/ \E s : S = {s} PROVE Cardinality(S) <= 1
  <1>1. CASE S = {} BY <1>1, FS_EmptySet
  <1>2. ASSUME NEW s, S = {s} PROVE Cardinality(S) <= 1
    <2>1. Cardinality({s}) = 1 BY FS_Singleton
    <2> QED BY <1>2, <2>1
  <1> QED BY <1>1, <1>2

\* One more answer that keeps to the promise.
LEMMA OneMoreAnswer ==
  ASSUME NOneSessionPerAnswer, NEW a, nanswers' = nanswers \cup {a},
         a.kind # "missing" =>
            /\ a.set = {} \/ \E s : a.set = {s}
            /\ a.kind = "page" /\ a.origin # 0 /\ a.edge # 0 =>
                   a.origin = a.edge /\ (a.set = {} \/ a.set = {a.edge})
  PROVE  NOneSessionPerAnswer'
  BY OneAtMost DEF NOneSessionPerAnswer

\* What a local answer says: the visitor's session and no cookie, or a new one in both.
Finished(f, set, cookie, html) ==
    /\ f.next \in Nat \ {0}
    /\ set \subseteq Nat => f.set \subseteq Nat
    /\ \/ f.log = 0 /\ f.set = set
       \/ f.log # 0 /\ f.log = cookie /\ f.set = set
       \/ f.log # 0 /\ cookie = 0 /\ f.set = IF html THEN set \cup {f.log} ELSE set

\* record and finish_response say so.
LEMMA FinishIs ==
  ASSUME NEW on, NEW set, NEW cookie \in Nat, NEW html, NEW next \in Nat \ {0}
  PROVE  Finished(FinishResponse(on, set, cookie, html, next), set, cookie, html)
  BY DEF FinishResponse, Finished

\* A visitor takes the session an answer sets.
LEMMA JarTakes ==
  ASSUME NEW v \in Visitors, NEW S \in SUBSET Nat, njar \in [Visitors -> Nat]
  PROVE  (IF S = {} THEN njar ELSE [njar EXCEPT ![v] = CHOOSE s \in S : TRUE]) \in [Visitors -> Nat]
  OBVIOUS

\* The cache node answers by itself, with a stored response that carries these cookies.
LocalAnswer(v, kind, set) ==
    LET f == FinishResponse(non["edge"], set, njar[v], TRUE, nnext)
    IN  Answered(v, kind, f, f.log) /\ nnext' = f.next

\* An answer from the cache is the node's own, and a request that waits has nothing yet.
LEMMA AskStep ==
  ASSUME SessionsInv, NEW v \in Visitors, NEW kind \in Kinds, Ask(v, kind)
  PROVE  SessionsInv'
  <1> USE DEF SessionsInv
  <1>0. njar[v] \in Nat /\ kind \in {"page", "asset", "missing"} /\ nheld' = nheld
    BY DEF Kinds, Ask
  <1>1. ASSUME NEW set \in SUBSET Nat, kind \in {"page", "missing"}, kind = "page" => set = {},
               nwait' = nwait, LocalAnswer(v, kind, set)
        PROVE  SessionsInv'
    <2> DEFINE f == FinishResponse(non["edge"], set, njar[v], TRUE, nnext)
               a == [visitor |-> v, kind |-> kind, set |-> f.set, origin |-> f.log,
                     edge |-> f.log, cookie |-> njar[v], n |-> nasked]
    <2>1. /\ f.next \in Nat \ {0} /\ f.set \subseteq Nat
          /\ \/ f.log = 0 /\ f.set = set
             \/ f.log # 0 /\ f.log = njar[v] /\ f.set = set
             \/ f.log # 0 /\ njar[v] = 0 /\ f.set = set \cup {f.log}
      <3>1. Finished(f, set, njar[v], TRUE) BY <1>0, FinishIs
      <3> HIDE DEF f
      <3> QED BY <3>1 DEF Finished
    <2>2. /\ nnext' = f.next /\ nanswers' = nanswers \cup {a}
          /\ njar' = IF f.set = {} THEN njar ELSE [njar EXCEPT ![v] = CHOOSE s \in f.set : TRUE]
      BY <1>1 DEF Answered, LocalAnswer
    <2> HIDE DEF f
    <2>3. njar' \in [Visitors -> Nat] BY <2>1, <2>2, JarTakes
    <2>4. NOneSessionPerAnswer'
      <3>1. /\ a.kind = kind /\ a.set = f.set /\ a.origin = f.log /\ a.edge = f.log
        OBVIOUS
      <3>2. a.kind # "missing" =>
               /\ a.set = {} \/ \E s : a.set = {s}
               /\ a.kind = "page" /\ a.origin # 0 /\ a.edge # 0 =>
                      a.origin = a.edge /\ (a.set = {} \/ a.set = {a.edge})
        BY <3>1, <2>1, <1>1
      <3> HIDE DEF a
      <3> QED BY <3>2, <2>2, OneMoreAnswer
    <2> QED BY <2>1, <2>2, <2>3, <2>4, <1>0, <1>1
  <1>2. CASE kind = "page" /\ ncache 
    <2>1. LocalAnswer(v, kind, {}) /\ nwait' = nwait BY <1>2 DEF Ask, LocalAnswer
    <2> QED BY <2>1, <1>1, <1>2
  <1>3. CASE kind = "missing" /\ nheld.have 
    <2>1. LocalAnswer(v, kind, nheld.set) /\ nwait' = nwait BY <1>3 DEF Ask, LocalAnswer
    <2> QED BY <2>1, <1>1, <1>3
  <1>4. CASE ~(kind = "page" /\ ncache) /\ ~(kind = "missing" /\ nheld.have)
    <2> DEFINE w == [visitor |-> v, kind |-> kind, cookie |-> njar[v],
                     sent |-> IF kind = "missing" THEN 0 ELSE njar[v],
                     at |-> "sent", set |-> {}, log |-> 0, n |-> nasked]
    <2>1. nwait' = nwait \cup {w} /\ UNCHANGED <<njar, nanswers, nnext>> BY <1>4 DEF Ask
    <2>2. WaitOK(w) BY <1>0 DEF WaitOK, OriginAgrees
    <2> HIDE DEF w
    <2> QED BY <2>1, <2>2, <1>0 DEF NOneSessionPerAnswer
  <1> QED BY <1>2, <1>3, <1>4

\* The origin mints where the request brought no session, and says so in its answer.
LEMMA OriginStep ==
  ASSUME SessionsInv, NEW w \in nwait, OriginAnswers(w) PROVE SessionsInv'
  <1> USE DEF SessionsInv
  <1> DEFINE f == FinishResponse(non["origin"], {}, w.sent, Html(w.kind), nnext)
             u == [w EXCEPT !.at = "back", !.set = f.set, !.log = f.log]
  <1>1. WaitOK(w) OBVIOUS
  <1>2. /\ f.next \in Nat \ {0} /\ f.set \subseteq Nat
        /\ \/ f.log = 0 /\ f.set = {}
           \/ f.log # 0 /\ f.log = w.sent /\ f.set = {}
           \/ f.log # 0 /\ w.sent = 0 /\ f.set = IF Html(w.kind) THEN {f.log} ELSE {}
    <2>1. Finished(f, {}, w.sent, Html(w.kind)) BY <1>1, FinishIs DEF WaitOK
    <2> HIDE DEF f
    <2> QED BY <2>1 DEF Finished
  <1>3. /\ nwait' = (nwait \ {w}) \cup {u} /\ nnext' = f.next
        /\ UNCHANGED <<njar, nheld, nanswers>>
    BY DEF OriginAnswers
  <1> HIDE DEF f
  <1>4. WaitOK(u)
    <2>1. /\ DOMAIN u = DOMAIN w /\ u.at = "back" /\ u.set = f.set /\ u.log = f.log
          /\ u.visitor = w.visitor /\ u.kind = w.kind /\ u.cookie = w.cookie /\ u.sent = w.sent
      BY <1>1 DEF WaitOK
    <2> HIDE DEF u
    <2> QED BY <2>1, <1>1, <1>2 DEF WaitOK, OriginAgrees, Html
  <1> HIDE DEF u
  <1> QED BY <1>2, <1>3, <1>4 DEF NOneSessionPerAnswer

\* The cache node takes over the session in the answer, or logs the one the request brought.
LEMMA EdgeStep ==
  ASSUME SessionsInv, NEW w \in nwait, EdgeFinishes(w) PROVE SessionsInv'
  <1> USE DEF SessionsInv
  <1> DEFINE f == FinishProxied(non["edge"], w.set, w.cookie, Html(w.kind), nnext)
             a == [visitor |-> w.visitor, kind |-> w.kind, set |-> f.set, origin |-> w.log,
                   edge |-> f.log, cookie |-> w.cookie, n |-> w.n]
  <1>1. WaitOK(w) OBVIOUS
  <1>2. /\ f.next \in Nat \ {0} /\ f.set \subseteq Nat
        /\ \/ w.set # {} /\ f.set = w.set /\ f.log \in w.set
           \/ f.log = 0 /\ f.set = w.set
           \/ w.set = {} /\ f.log # 0 /\ f.log = w.cookie /\ f.set = {}
           \/ w.set = {} /\ f.log # 0 /\ w.cookie = 0
              /\ f.set = IF Html(w.kind) THEN {f.log} ELSE {}
    <2>1. CASE non["edge"] /\ w.set # {} BY <2>1, <1>1 DEF FinishProxied, WaitOK
    <2>2. CASE ~non["edge"] BY <2>2, <1>1 DEF FinishProxied, FinishResponse, WaitOK
    <2>3. CASE w.set = {}
      <3>1. f = FinishResponse(non["edge"], {}, w.cookie, Html(w.kind), nnext)
        BY <2>3 DEF FinishProxied
      <3>2. Finished(f, {}, w.cookie, Html(w.kind)) BY <3>1, <1>1, FinishIs DEF WaitOK
      <3> HIDE DEF f
      <3> QED BY <3>2, <2>3 DEF Finished
    <2> QED BY <2>1, <2>2, <2>3
  <1>3. /\ nwait' = nwait \ {w} /\ nnext' = f.next /\ nanswers' = nanswers \cup {a}
        /\ njar' = IF f.set = {} THEN njar
                   ELSE [njar EXCEPT ![w.visitor] = CHOOSE s \in f.set : TRUE]
        /\ nheld' = IF w.kind = "missing" THEN [have |-> TRUE, set |-> w.set] ELSE nheld
    BY DEF EdgeFinishes
  <1> HIDE DEF f
  <1>4. njar' \in [Visitors -> Nat] BY <1>1, <1>2, <1>3, JarTakes DEF WaitOK
  <1>5. nheld'.set \subseteq Nat BY <1>1, <1>3 DEF WaitOK
  <1>6. NOneSessionPerAnswer'
    <2>1. a.kind = w.kind /\ a.set = f.set /\ a.origin = w.log /\ a.edge = f.log OBVIOUS
    <2>2. CASE w.kind = "asset" BY <2>1, <2>2, <1>1, <1>2, <1>3, OneMoreAnswer DEF WaitOK, OriginAgrees, Html
    <2>3. CASE w.kind = "page"
      <3> HIDE DEF a
      <3>1. a.set = {} \/ \E s : a.set = {s}
        BY <2>1, <2>3, <1>1, <1>2 DEF WaitOK, OriginAgrees, Html
      <3>2. a.origin # 0 /\ a.edge # 0 => a.origin = a.edge /\ (a.set = {} \/ a.set = {a.edge})
        BY <2>1, <2>3, <1>1, <1>2 DEF WaitOK, OriginAgrees, Html
      <3> QED BY <3>1, <3>2, <1>3, OneMoreAnswer
    <2>4. CASE w.kind = "missing"
      <3> HIDE DEF a
      <3> QED BY <2>1, <2>4, <1>3, OneMoreAnswer
    <2> QED BY <2>2, <2>3, <2>4, <1>1 DEF WaitOK
  <1> QED BY <1>2, <1>3, <1>4, <1>5, <1>6

\* A visit is one session across the two hops, for any number of visitors and requests and
\* in every interleaving of the two nodes.
THEOREM OneSessionPerAnswer == NSpec => []NOneSessionPerAnswer
  <1>1. NInit => SessionsInv BY DEF NInit, SessionsInv, NOneSessionPerAnswer
  <1>2. SessionsInv /\ [NNext]_nvars => SessionsInv'
    <2> SUFFICES ASSUME SessionsInv, [NNext]_nvars PROVE SessionsInv' OBVIOUS
    <2>1. ASSUME NEW v \in Visitors, NEW kind \in Kinds, Ask(v, kind) PROVE SessionsInv'
      BY <2>1, AskStep
    <2>2. ASSUME NEW w \in nwait, OriginAnswers(w) \/ EdgeFinishes(w) PROVE SessionsInv'
      BY <2>2, OriginStep, EdgeStep
    <2>3. CASE Lapse BY <2>3 DEF Lapse, SessionsInv, NOneSessionPerAnswer
    <2>4. CASE UNCHANGED nvars BY <2>4 DEF nvars, SessionsInv, NOneSessionPerAnswer
    <2> QED BY <2>1, <2>2, <2>3, <2>4 DEF NNext
  <1>3. SessionsInv => NOneSessionPerAnswer BY DEF SessionsInv
  <1> QED BY <1>1, <1>2, <1>3, PTL DEF NSpec
=============================================================================
