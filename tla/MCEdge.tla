------------------------------- MODULE MCEdge -------------------------------
(***************************************************************************)
(* What the edge does with a request between its sockets, its config and its counts. *)
(* The components share no state here, so each behaviour is of one of them, *)
(* `focus`, and the others stay as they begin.                             *)
(***************************************************************************)
EXTENDS ResponseCache, CacheRefresh, BackendPool, RequestPipeline, Sessions, EdgeConfig, EdgeStats

VARIABLE focus

allvars == <<focus, cachevars, refreshvars, poolvars, pvars, nvars, kvars, evars>>

(* ResponseCache: three keys on two paths, a bound of 8 bytes, two clock ticks a second.    *)

MCKeys == {<<"p", "br">>, <<"p", "gzip">>, <<"q", "br">>}

CacheResp(l, s, n, a, f) ==
    [lifetime |-> l, swr |-> s, no_cache |-> n, upstream_age |-> a, footprint |-> f]

\* A page already old when it comes, one that may be served stale, the same with no-cache, one with
\* no lifetime, and one larger than the whole cache.
MCCacheResponses ==
    {CacheResp(4, 0, FALSE, 3, 3), CacheResp(2, 3, FALSE, 0, 4), CacheResp(4, 2, TRUE, 0, 2),
     CacheResp(None, 0, FALSE, 0, 8), CacheResp(3, 1, FALSE, 0, 9)}

Unasking ==
    [d \in {"no_cache", "max_age", "min_fresh", "max_stale"} |-> IF d = "no_cache" THEN FALSE ELSE None]

MCCacheRequests ==
    {Unasking, [Unasking EXCEPT !.no_cache = TRUE], [Unasking EXCEPT !.max_age = 0, !.max_stale = AnyAge],
     [Unasking EXCEPT !.min_fresh = 1], [Unasking EXCEPT !.min_fresh = 0, !.max_stale = 0]}

(* CacheRefresh has two or three keys and queues of two, so that the queue and *)
(* the replies waited for both overflow.  BackendPool needs nothing of its own. *)

(* RequestPipeline: a site with a public page, a protected one, an error page and a path that   *)
(* no route serves; a reload swaps the first two.                              *)

Req(ip, path, method, token) ==
    [ip |-> ip, path |-> path, method |-> method, token |-> token, browser |-> FALSE, only |-> FALSE,
     www |-> FALSE, internal |-> FALSE, precond |-> "none", permits |-> TRUE]

MCPReqs ==
    {Req("a", "/p", "GET", "none"), Req("a", "/p", "GET", "good"), Req("a", "/q", "GET", "none"),
     Req("a", "/q/", "GET", "weak"), Req("a", "/none", "GET", "none"), Req("b", "/other", "HEAD", "none"),
     Req("b", "/p", "POST", "good"), Req("b", "/q", "PUT", "bad"), Req("b", "/p", "BREW", "none"),
     Req("b", "/perf", "GET", "good"), Req("b", "/health", "GET", "none"),
     [Req("a", "/p", "GET", "none") EXCEPT !.browser = TRUE],
     [Req("a", "/p", "GET", "none") EXCEPT !.only = TRUE],
     [Req("b", "/p", "GET", "none") EXCEPT !.www = TRUE],
     [Req("b", "/err", "GET", "none") EXCEPT !.internal = TRUE, !.permits = FALSE], Req("b", "/err", "GET", "none"),
     [Req("b", "/q", "GET", "none") EXCEPT !.precond = "failed"],
     [Req("b", "/q", "GET", "none") EXCEPT !.precond = "notModified"],
     [Req("b", "/p", "GET", "none") EXCEPT !.permits = FALSE]}

Route(backend, require) == [backend |-> backend, require |-> require]

MCSite ==
    [routes |-> [p \in {"/p", "/q", "/err"} |->
                    CASE p = "/p" -> Route("url", TRUE) [] p = "/q" -> Route("socket", FALSE)
                      [] p = "/err" -> Route("url", FALSE)],
     groups |-> [p \in {"/p", "/group"} |-> Route("socket", FALSE)],
     error |-> "/err", key |-> TRUE, limit |-> 0, www |-> TRUE, health |-> TRUE, peers |-> {"b"},
     methods |-> {"GET", "HEAD", "POST"}]

MCSwapped ==
    [routes |-> [p \in {"/p", "/q", "/err"} |->
                    CASE p = "/p" -> Route("url", FALSE) [] p = "/q" -> Route("unknown", TRUE)
                      [] p = "/err" -> Route("socket", FALSE)],
     groups |-> <<>>,
     error |-> "/err", key |-> TRUE, limit |-> 0, www |-> FALSE, health |-> TRUE, peers |-> {},
     methods |-> {"GET", "HEAD", "POST", "PUT"}]

\* A site of which only the rate limit is of interest ...
MCLimited == [MCSite EXCEPT !.routes = <<>>, !.groups = <<>>, !.error = "none", !.limit = 1]
MCPConfigs == {MCSite, MCSwapped, MCLimited}

MCSlashed == {<<"/q/", "/q">>}

\* ... explored for longer, and by itself.
MCPScope ==
    IF pcfg = MCLimited THEN ppending = {} /\ pqueue = {} /\ ppages = NoPage
    ELSE plim = <<>> /\ pnow <= 1

(* EdgeConfig *)

KRoute(p, b, req, c) ==
    [path |-> p, backend |-> b, require |-> req, conflicts |-> c, group |-> FALSE]
KGroup(p, b, req, c) == [KRoute(p, b, req, c) EXCEPT !.group = TRUE]

Site0 ==
    [parses |-> TRUE, keys |-> {"name", "domain"}, backends |-> {"b1"},
     routes |-> {KRoute("/", "b1", FALSE, FALSE)}, auth |-> Unset, metrics |-> Unset,
     mpeers |-> Unset, errors |-> "internal", alog |-> 1, bind |-> Unset, cert |-> Unset,
     h2c |-> Unset, binds |-> Unset, peers |-> Unset, redirect |-> Unset, warm |-> Unset]

MCKSites ==
    {Site0,
     [Site0 EXCEPT !.parses = FALSE],
     [Site0 EXCEPT !.alog = 2, !.errors = "custom"],
     [Site0 EXCEPT !.backends = {"b1", "b2"}, !.routes = {KRoute("/", "b2", FALSE, FALSE)}],
     [Site0 EXCEPT !.routes = {KRoute("/", "b2", FALSE, FALSE)}],
     [Site0 EXCEPT !.routes = {KRoute("/", "b1", TRUE, FALSE)}],
     [Site0 EXCEPT !.routes = {KRoute("/", "b1", FALSE, TRUE)}],
     [Site0 EXCEPT !.auth = [backend |-> Unset], !.bind = "loc4", !.warm = TRUE],
     [Site0 EXCEPT !.routes = @ \cup {KGroup("/", "b1", FALSE, TRUE)}, !.mpeers = {"loc4"}],
     [Site0 EXCEPT !.routes = @ \cup {KGroup("/g", "b2", FALSE, FALSE)}],
     [Site0 EXCEPT !.metrics = "role:name"]}

Sys0 ==
    [parses |-> TRUE, same |-> FALSE, node |-> Unset, auth |-> Unset, metrics |-> Unset, mpeers |-> Unset,
     bind |-> "pub", cert |-> "present", h2c |-> Unset, binds |-> Unset,
     peers |-> Unset, redirect |-> Unset, warm |-> Unset]

MCKSystems ==
    {Sys0,
     [Sys0 EXCEPT !.auth = [backend |-> Unset]],
     [Sys0 EXCEPT !.mpeers = {"pub"}],
     [Sys0 EXCEPT !.auth = [backend |-> "b2"], !.metrics = "role:name"],
     [Sys0 EXCEPT !.same = TRUE, !.auth = [backend |-> Unset]],
     [Sys0 EXCEPT !.h2c = "loc4", !.binds = {"loc4"}, !.peers = {"loc4b"}],
     [Sys0 EXCEPT !.h2c = "loc4", !.binds = {"loc4"}, !.peers = {"loc6"}],
     [Sys0 EXCEPT !.redirect = "pub", !.node = "n1"]}

(* EdgeStats *)

SampleHit == [ns |-> 1, hit |-> TRUE, status |-> 200, channel |-> <<"h1", "external">>, backend |-> "cache"]
MCERequests ==
    {SampleHit, [SampleHit EXCEPT !.ns = 2, !.channel = <<"h3", "external">>],
     [SampleHit EXCEPT !.ns = 3, !.hit = FALSE, !.status = 502, !.backend = "b"],
     [SampleHit EXCEPT !.ns = 0, !.hit = FALSE, !.channel = <<"h1", "internal">>, !.backend = "b"],
     [SampleHit EXCEPT !.hit = FALSE, !.status = 503, !.channel = <<"h3", "external">>, !.backend = "health"]}
MCEHandshakes == {[ns |-> 2, channel |-> <<"h2", "external">>, resumed |-> FALSE]}
MCEScrapes == {[ns |-> 1, listed |-> TRUE, internal |-> FALSE, token |-> "t", key |-> TRUE, claim |-> "ok"],
               [ns |-> 0, listed |-> FALSE, internal |-> FALSE, token |-> "bad", key |-> TRUE, claim |-> "none"]}
MCEConfigs == {[peers |-> FALSE, require |-> FALSE, token |-> "t"], [peers |-> TRUE, require |-> TRUE, token |-> "none"]}

(* One component at a time. *)

MCInit ==
    /\ focus \in {"cache", "refresh", "pool", "pipeline", "session", "config", "stats"}
    /\ CacheInit
    /\ RefreshInit
    /\ focus # "refresh" => queue = <<>>
    /\ PoolInit
    /\ focus # "pool" =>
           /\ present = {}
           /\ alive = {}
    /\ PInit
    /\ focus # "pipeline" => pcfg = CHOOSE c \in PConfigs : TRUE
    /\ NInit
    /\ focus # "session" => non = [h \in {"edge", "origin"} |-> TRUE]
    /\ KInit
    /\ focus # "config" =>
           /\ kdisk.site = CHOOSE s \in KSites : TRUE
           /\ kdisk.system = CHOOSE s \in KSystems : TRUE
           /\ kdisk.key = CHOOSE k \in KeyFiles : TRUE
    /\ EInit
    /\ focus # "stats" => econf = CHOOSE c \in EConfigs : TRUE

(* The component in focus takes a step, every other one rests. *)
MCNext ==
    /\ UNCHANGED focus
    /\ IF focus = "cache" THEN CacheNext ELSE UNCHANGED cachevars
    /\ IF focus = "refresh" THEN RefreshNext ELSE UNCHANGED refreshvars
    /\ IF focus = "pool" THEN PoolNext ELSE UNCHANGED poolvars
    /\ IF focus = "pipeline" THEN PNext ELSE UNCHANGED pvars
    /\ IF focus = "session" THEN NNext ELSE UNCHANGED nvars
    /\ IF focus = "config" THEN KNext ELSE UNCHANGED kvars
    /\ IF focus = "stats" THEN ENext ELSE UNCHANGED evars

MCSpec == MCInit /\ [][MCNext]_allvars
=============================================================================
