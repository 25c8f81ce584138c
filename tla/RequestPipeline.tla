-------------------------- MODULE RequestPipeline --------------------------
(***************************************************************************)
(* What the edge does with one request, whichever protocol brought it        *)
(* (m6-http/src/main.rs: the request closures of the event loop,             *)
(* handle_request, finalize_url_response; router.rs, auth.rs, error.rs,       *)
(* rate_limit.rs, health.rs).  Rate limit, www redirect, cache, method,       *)
(* monitoring endpoints, route, authorisation, backend, error page, in that   *)
(* order.  A socket backend answers inside the step; a URL backend answers    *)
(* later, after other requests, reloads and evictions.                        *)
(*                                                                         *)
(* A path stands for a cache key.  A route is the backend that serves it and  *)
(* whether it has a `require`; a token is what verification says of it.       *)
(***************************************************************************)
EXTENDS Integers, Sequences, FiniteSets

CONSTANTS
    PReqs,             \* requests: see PRequest
    PConfigs,          \* site configurations a reload may bring: see PConfig
    Slashed,           \* pairs of paths that differ in their trailing slash
    RATE_WINDOW, MAX_TRACKED_IPS, ERROR_PAGE_TTL,
    PTime, MaxPending, MaxCount      \* bounds: time, fetches in flight, a client's count

PPaths == {r.path : r \in PReqs} \cup UNION {DOMAIN c.routes : c \in PConfigs}
PIps == {r.ip : r \in PReqs}
Methods == {"GET", "HEAD", "POST", "PUT", "BREW"}
Tokens == {"none", "bad", "weak", "good"}

ASSUME PipelineAssumption ==
    /\ {RATE_WINDOW, MAX_TRACKED_IPS, ERROR_PAGE_TTL, PTime, MaxPending, MaxCount} \subseteq Nat
    /\ \A r \in PReqs : /\ r.method \in Methods /\ r.token \in Tokens
                        /\ r.precond \in {"none", "failed", "notModified"}
    /\ RATE_WINDOW > 0 /\ \A c \in PConfigs : c.limit \in Nat

VARIABLES
    pcfg,       \* the configuration in force: routes, error mode, key, limits
    pcache,     \* pcache[p]: the stored response of path p
    ppages,     \* error_pages: the page held for status 404, or NoPage
    plim,       \* RateLimiter: per address, the count and the start of its window
    ppending,   \* fetches from URL backends that are under way
    pqueue,     \* prefetch_queue: stale paths to refresh
    pnow,       \* the clock
    plast,      \* history: the last answer, with what was true when it was asked for
    padmitted   \* history: per address, the times it was let through

pvars == <<pcfg, pcache, ppages, plim, ppending, pqueue, pnow, plast, padmitted>>

NoPage == -1
NoEntry == [state |-> "none", claims |-> FALSE]

-----------------------------------------------------------------------------
(* The rate limiter.                                                         *)

\* Mutant of Swept: the sweep keeps the windows that ended and drops the others.
SweptLive(l) ==
    IF Cardinality(DOMAIN l) > MAX_TRACKED_IPS
      THEN [i \in {j \in DOMAIN l : pnow - l[j].since >= RATE_WINDOW} |-> l[i]]
    ELSE l

\* Once the table is too large, addresses whose window has ended are dropped.
Swept(l) ==
    IF Cardinality(DOMAIN l) > MAX_TRACKED_IPS
      THEN [i \in {j \in DOMAIN l : pnow - l[j].since < RATE_WINDOW} |-> l[i]]
    ELSE l

\* The entry after check_and_increment: a new window, or one more in this one.
CountOf(l, ip) ==
    IF ip \in DOMAIN l /\ pnow - l[ip].since < RATE_WINDOW
      THEN [l[ip] EXCEPT !.count = @ + 1]
    ELSE [count |-> 1, since |-> pnow]

CheckAndIncrement(l, ip) ==
    [i \in DOMAIN Swept(l) \cup {ip} |-> IF i = ip THEN CountOf(Swept(l), ip) ELSE Swept(l)[i]]

-----------------------------------------------------------------------------
(* Routes and authorisation.                                                 *)

\* RouteTable::from_config: explicit routes, then what the groups' globs found,
\* except where a route already matches.
Routed(p) == p \in DOMAIN pcfg.routes \/ p \in DOMAIN pcfg.groups
RouteAt(p) == IF p \in DOMAIN pcfg.routes THEN pcfg.routes[p] ELSE pcfg.groups[p]

RequiresAuth(p) == Routed(p) /\ RouteAt(p).require

\* The path with or without its slash is a route.
TrailingSlashRedirect(p) == \E q \in PPaths : <<p, q>> \in Slashed /\ Routed(q)

\* authorise: extract_token, verify, check_require.
Authorise(token) ==
    CASE token = "none" -> "NoToken"
      [] token = "bad"  -> "Invalid"
      [] token = "weak" -> "Insufficient"
      [] token = "good" -> "Ok"

\* metrics_gate: the address rule first, then the token; without a key, refused.
MetricsGate(r) ==
    IF pcfg.peers # {} /\ (r.internal \/ r.ip \notin pcfg.peers) THEN 404
    ELSE IF ~pcfg.key THEN 401
    ELSE CASE Authorise(r.token) = "Ok"           -> 200
           [] Authorise(r.token) = "Insufficient" -> 403
           [] OTHER                               -> 401

-----------------------------------------------------------------------------
(* Outcomes: a response that is ready, or a fetch that is under way.          *)

Own == [kind |-> "own", claims |-> FALSE]            \* made by the edge
Page == [kind |-> "page", claims |-> FALSE]          \* the custom error page
Backend(claims) == [kind |-> "backend", claims |-> claims]

Ready(status, content) ==
    [ready |-> TRUE, status |-> status, content |-> content, store |-> FALSE, claims |-> FALSE]

\* PendingUrlContext.  error is error_status_override, 0 for none.
Ctx(r, cacheable, claims, error, prefetch) ==
    [req |-> r, cacheable |-> cacheable, claims |-> claims, error |-> error,
     prefetch |-> prefetch, guarded |-> RequiresAuth(r.path) /\ pcfg.key]
Pending(ctx) == [ready |-> FALSE, ctx |-> ctx]

\* A socket pool answers, or it is empty or fails.  What a backend may say.
Replies == [status : {200, 404}, storable : BOOLEAN]

\* apply_error_mode: the page has the original status, whatever became of it.  Only
\* a socket pool can be asked for it here.
ApplyErrorMode(status, r) ==
    {Ready(status, Own)} \cup
    (IF pcfg.error # "none" /\ r.path # pcfg.error /\ Routed(pcfg.error)
            /\ RouteAt(pcfg.error).backend = "socket"
       THEN {Ready(status, Page)} ELSE {})

\* dispatch_custom_error_async: the held page while it is young, else a fetch.  The
\* empty set is None.
DispatchCustomErrorAsync(status, r) ==
    IF pcfg.error = "none" \/ r.path = pcfg.error THEN {}
    ELSE IF ppages # NoPage /\ pnow - ppages < ERROR_PAGE_TTL THEN {Ready(status, Page)}
    ELSE IF Routed(pcfg.error) /\ RouteAt(pcfg.error).backend = "url"
      THEN {Pending(Ctx(r, FALSE, FALSE, status, FALSE))}
    ELSE {}

\* The dispatch of an h2 backend may fail at once.
RouteMiss(r) ==
    IF TrailingSlashRedirect(r.path) THEN {Ready(301, Own)}
    ELSE LET async == DispatchCustomErrorAsync(404, r)
         IN  IF \E o \in async : o.ready THEN async ELSE async \cup ApplyErrorMode(404, r)

\* The auth gate refuses: a browser is sent to log in.
Refuse(r) ==
    CASE Authorise(r.token) = "NoToken" /\ r.browser -> {Ready(302, Own)}
      [] Authorise(r.token) = "Insufficient"         -> ApplyErrorMode(403, r)
      [] OTHER                                       -> ApplyErrorMode(401, r)

MayReadCache(r) == r.method \in {"GET", "HEAD"}
MayWriteCache(r) == r.method = "GET"

Cacheable(r) == ~RouteAt(r.path).require /\ MayWriteCache(r)

\* The socket backend's own error is stored like any answer, and shown as an error page.
SocketForward(r, claims) ==
    ApplyErrorMode(502, r) \cup
    UNION {{[o EXCEPT !.store = Cacheable(r) /\ r.permits /\ reply.storable, !.claims = claims] :
               o \in IF reply.status >= 400 THEN ApplyErrorMode(reply.status, r)
                     ELSE {Ready(reply.status, Backend(claims))}} : reply \in Replies}

\* A URL backend: the fetch starts, or its dispatch fails.
UrlForward(r, claims, prefetch) ==
    {Pending(Ctx(r, Cacheable(r), claims, 0, prefetch))} \cup ApplyErrorMode(502, r)

Forward(r, prefetch) ==
    LET claims == RouteAt(r.path).require /\ pcfg.key
    IN  CASE RouteAt(r.path).backend = "url"    -> UrlForward(r, claims, prefetch)
          [] RouteAt(r.path).backend = "socket" -> SocketForward(r, claims)
          [] OTHER                              -> ApplyErrorMode(502, r)

RefusesCustomErrorPath(r) == pcfg.error # "none" /\ r.path = pcfg.error /\ ~r.internal

\* The edge's own endpoints: health for anyone, the metrics behind their gate.
Monitoring(r) ==
    CASE r.path = "/health" -> {Ready(200, Own), Ready(503, Own)}
      [] r.path = "/perf"   -> {Ready(MetricsGate(r), Own)}

\* handle_request_inner.
HandleRequestInner(r, prefetch) ==
    IF r.method \notin pcfg.methods THEN {Ready(IF r.method = "BREW" THEN 501 ELSE 405, Own)}
    ELSE IF pcfg.health /\ r.path \in {"/health", "/perf"} THEN Monitoring(r)
    ELSE IF RefusesCustomErrorPath(r) THEN ApplyErrorMode(404, r)
    ELSE IF ~Routed(r.path) THEN RouteMiss(r)
    ELSE IF RequiresAuth(r.path) /\ pcfg.key /\ Authorise(r.token) # "Ok" THEN Refuse(r)
    ELSE Forward(r, prefetch)

Evicted(out) == [p \in PPaths |-> IF p \in out THEN NoEntry ELSE pcache[p]]

\* What is stored, then what an unsafe method that succeeded takes out: its path, and
\* those its Location and Content-Location name on this origin.
CacheAfter(r, status, store, claims) ==
    IF r.method \notin {"GET", "HEAD"} /\ status < 400
      THEN {Evicted({r.path} \cup named) : named \in {S \in SUBSET PPaths : Cardinality(S) <= 2}}
    ELSE IF store THEN {[pcache EXCEPT ![r.path] = [state |-> "fresh", claims |-> claims]]}
    ELSE {pcache}

PAnswer(r, status, content, guarded) ==
    plast' = [token |-> r.token, status |-> status, content |-> content, guarded |-> guarded]

AnswerNow(r, status, content) == PAnswer(r, status, content, RequiresAuth(r.path) /\ pcfg.key)

\* handle_request: the outcome takes effect.
HandleRequest(r, prefetch) ==
    \E o \in HandleRequestInner(r, prefetch) :
        \/ /\ o.ready
           /\ pcache' \in CacheAfter(r, o.status, o.store, o.claims)
           /\ IF prefetch THEN UNCHANGED plast ELSE AnswerNow(r, o.status, o.content)
           /\ UNCHANGED ppending
        \/ /\ ~o.ready
           /\ Cardinality(ppending) < MaxPending
           /\ ppending' = ppending \cup {o.ctx}
           /\ UNCHANGED <<pcache, plast>>

-----------------------------------------------------------------------------
(* A request arrives.                                                        *)

\* The rate limiter has counted it; it is refused or let through.
Counted(r) ==
    /\ r.ip \in DOMAIN plim => plim[r.ip].count < MaxCount
    /\ plim' = IF pcfg.limit > 0 THEN CheckAndIncrement(plim, r.ip) ELSE plim

Blocked(r) == pcfg.limit > 0 /\ CountOf(Swept(plim), r.ip).count > pcfg.limit

RateLimited(r) ==
    /\ Counted(r) /\ Blocked(r)
    /\ AnswerNow(r, 429, Own)
    /\ UNCHANGED <<pcfg, pcache, ppages, ppending, pqueue, pnow, padmitted>>

Admitted(r) ==
    /\ Counted(r) /\ ~Blocked(r)
    /\ padmitted' = IF pcfg.limit > 0 THEN [padmitted EXCEPT ![r.ip] = Append(@, pnow)] ELSE padmitted

WwwRedirect(r) ==
    /\ Admitted(r) /\ r.www /\ pcfg.www
    /\ AnswerNow(r, 301, Own)
    /\ UNCHANGED <<pcfg, pcache, ppages, ppending, pqueue, pnow>>

\* Mutant of PLookup: a protected path is looked up like any other.
PLookupAny(r) == IF MayReadCache(r) THEN pcache[r.path].state ELSE "none"

PLookup(r) == IF ~RequiresAuth(r.path) /\ MayReadCache(r) THEN pcache[r.path].state ELSE "none"

\* only-if-cached, and nothing stored.
OnlyIfCached(r) ==
    /\ Admitted(r) /\ ~(r.www /\ pcfg.www) /\ r.only /\ PLookup(r) = "none"
    /\ AnswerNow(r, 504, Own)
    /\ UNCHANGED <<pcfg, pcache, ppages, ppending, pqueue, pnow>>

\* From the cache: a precondition may make it a 412 or a 304; stale queues a refresh.
FromCache(r) ==
    /\ Admitted(r) /\ ~(r.www /\ pcfg.www) /\ PLookup(r) # "none"
    /\ pqueue' = IF PLookup(r) = "stale" THEN pqueue \cup {r.path} ELSE pqueue
    /\ CASE r.precond = "failed"      -> AnswerNow(r, 412, Own)
         [] r.precond = "notModified" -> AnswerNow(r, 304, Own)
         [] r.precond = "none"        -> AnswerNow(r, 200, Backend(pcache[r.path].claims))
    /\ UNCHANGED <<pcfg, pcache, ppages, ppending, pnow>>

Uncached(r) ==
    /\ Admitted(r) /\ ~(r.www /\ pcfg.www) /\ PLookup(r) = "none" /\ ~r.only
    /\ HandleRequest(r, FALSE)
    /\ UNCHANGED <<pcfg, ppages, pqueue, pnow>>

-----------------------------------------------------------------------------
(* The rest of the loop.                                                     *)

Synth(p) == [ip |-> "127.0.0.1", path |-> p, method |-> "GET", token |-> "none", browser |-> FALSE,
             only |-> FALSE, www |-> FALSE, internal |-> FALSE, precond |-> "none", permits |-> TRUE]

\* One queued refresh is fetched, as a request of the edge's own.
Background(p) ==
    /\ p \in pqueue
    /\ pqueue' = pqueue \ {p}
    /\ IF pcache[p].state = "fresh" THEN UNCHANGED <<pcache, ppending, plast>>
       ELSE HandleRequest(Synth(p), TRUE)
    /\ UNCHANGED <<pcfg, ppages, plim, pnow, padmitted>>

\* Mutant of FinalStatus: the error page's own status reaches the client.
FinalStatusOfPage(ctx, reply) == reply.status

\* A fetched error page keeps the status it was fetched for.
FinalStatus(ctx, reply) == IF ctx.error # 0 THEN ctx.error ELSE reply.status

\* finalize_url_response for an answer: the error page is held, or the response stored.
FinalizeOk(ctx, reply) ==
    LET status == FinalStatus(ctx, reply)
        store == ctx.error = 0 /\ ctx.cacheable /\ ctx.req.permits /\ reply.storable
        content == IF ctx.error # 0 THEN Page ELSE Backend(ctx.claims)
    IN  /\ ppages' = IF ctx.error # 0 THEN pnow ELSE ppages
        /\ pcache' \in CacheAfter(ctx.req, status, store, ctx.claims)
        /\ IF ctx.prefetch THEN UNCHANGED plast
           ELSE PAnswer(ctx.req, status, content, ctx.guarded)

\* finalize_url_response for a failure.
FinalizeErr(ctx) ==
    /\ \E o \in IF ctx.error # 0 THEN {Ready(ctx.error, Own)} ELSE ApplyErrorMode(502, ctx.req) :
          IF ctx.prefetch THEN UNCHANGED plast
          ELSE PAnswer(ctx.req, o.status, o.content, ctx.guarded)
    /\ UNCHANGED <<pcache, ppages>>

FinalizeUrlResponse(ctx) ==
    /\ ctx \in ppending
    /\ ppending' = ppending \ {ctx}
    /\ (\E reply \in Replies : FinalizeOk(ctx, reply)) \/ FinalizeErr(ctx)
    /\ UNCHANGED <<pcfg, plim, pqueue, pnow, padmitted>>

\* A site change is installed and the cache cleared; pages and fetches stay.
PReload(c) ==
    /\ c # pcfg
    /\ pcfg' = c
    /\ pcache' = [p \in PPaths |-> NoEntry]
    /\ UNCHANGED <<ppages, plim, ppending, pqueue, pnow, plast, padmitted>>

\* A stored response leaves its freshness, then its stale window.
PExpire(p) ==
    /\ pcache[p].state # "none"
    /\ pcache' = [pcache EXCEPT ![p] = IF @.state = "fresh" THEN [@ EXCEPT !.state = "stale"] ELSE NoEntry]
    /\ UNCHANGED <<pcfg, ppages, plim, ppending, pqueue, pnow, plast, padmitted>>

PTick ==
    /\ pnow < PTime
    /\ pnow' = pnow + 1
    /\ UNCHANGED <<pcfg, pcache, ppages, plim, ppending, pqueue, plast, padmitted>>

PNoAnswer == [token |-> "none", status |-> 0, content |-> Own, guarded |-> FALSE]

PInit ==
    /\ pcfg \in PConfigs
    /\ pcache = [p \in PPaths |-> NoEntry]
    /\ ppages = NoPage /\ plim = <<>> /\ ppending = {} /\ pqueue = {} /\ pnow = 0
    /\ plast = PNoAnswer
    /\ padmitted = [i \in PIps |-> <<>>]

PArrive(r) == RateLimited(r) \/ WwwRedirect(r) \/ OnlyIfCached(r) \/ FromCache(r) \/ Uncached(r)

PNext ==
    \/ \E r \in PReqs : PArrive(r)
    \/ \E p \in PPaths : Background(p) \/ PExpire(p)
    \/ \E ctx \in ppending : FinalizeUrlResponse(ctx)
    \/ \E c \in PConfigs : PReload(c)
    \/ PTick

PSpec == PInit /\ [][PNext]_pvars

-----------------------------------------------------------------------------
(* Properties.                                                               *)

\* What was fetched with someone's claims is never stored, and is only ever answered
\* to a request whose token was good; and a request for a path that was protected when
\* it came gets no backend's answer without such a token: not from the cache, not from
\* a fetch that a reload overtook in either direction.
PPrivateStaysPrivate ==
    /\ \A p \in PPaths : ~pcache[p].claims
    /\ (plast.content.claims \/ (plast.guarded /\ plast.content.kind = "backend")) => plast.token = "good"

\* The custom error page is never served as a success: its fetch answers later, with a
\* status of its own, and the client is owed the status of what failed.
PErrorStatusSurvives == plast.content.kind = "page" => plast.status >= 400

\* The times an address was let through in the window's length from t on.
AdmittedFrom(ip, t) ==
    {i \in DOMAIN padmitted[ip] : t <= padmitted[ip][i] /\ padmitted[ip][i] < t + RATE_WINDOW}

\* However its requests fall, and whatever the sweep of the table drops, an address is let
\* through at most twice a configured limit in any window's length: fixed windows allow
\* that much.
PRateLimitHolds ==
    \A ip \in PIps, t \in 0..PTime :
        \E c \in PConfigs : Cardinality(AdmittedFrom(ip, t)) <= 2 * c.limit

\* What every answer of the pipeline respects.
PContract == PPrivateStaysPrivate /\ PErrorStatusSurvives /\ PRateLimitHolds
=============================================================================
