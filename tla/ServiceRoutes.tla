--------------------------- MODULE ServiceRoutes ---------------------------
(***************************************************************************)
(* Which route of a service answers a request: route patterns compiled     *)
(* once per reload, scored, matched segment by segment, code routes listed *)
(* before config routes, and the handler or template the chosen route      *)
(* leads to (m6-core app.rs).                                              *)
(***************************************************************************)
EXTENDS Integers, Sequences, FiniteSets, SequencesExt

CONSTANTS
    Patterns,      \* route patterns, each a sequence of segment spellings
    Paths,         \* request paths, each a sequence of segments
    NamedHandlers, \* names the binary registered
    MaxConfigRoutes  \* bound: routes in the config

\* A pattern is a sequence of segments.
ASSUME PatternsAssumption == Patterns \subseteq Seq(STRING)

VARIABLES
    zroutes,  \* what the service was given: code routes, config routes
    zreq      \* the request: path and method

zvars == <<zroutes, zreq>>

Params == {"{x}", "{y}"}
Wildcards == {"{*x}"}
NotGiven == "none"

\* {*name} spans segments only in the last place; elsewhere it is narrowed to
\* an ordinary parameter.
CompilePattern(p) ==
    [i \in 1..Len(p) |->
        IF p[i] \in Wildcards
        THEN [k |-> IF i = Len(p) THEN "wildcard" ELSE "param", lit |-> NotGiven]
        ELSE IF p[i] \in Params THEN [k |-> "param", lit |-> NotGiven]
        ELSE [k |-> "literal", lit |-> p[i]]]

CountKind(segs, k) == Cardinality({i \in 1..Len(segs) : segs[i].k = k})

\* Mutant of RouteSpecificity: a wildcard counts as any other parameter.
RouteSpecificityFlat(segs) == 2 * Len(segs) + CountKind(segs, "literal")

RouteSpecificity(segs) ==
    2 * Len(segs) + CountKind(segs, "literal") - CountKind(segs, "wildcard")

MethodMatches(m, method) ==
    CASE m = "ANY" -> TRUE
      [] m = "GET" -> method \in {"GET", "HEAD"}
      [] OTHER -> m = method

MatchRoute(path, segs) ==
    /\ IF segs # <<>> /\ segs[Len(segs)].k = "wildcard"
       THEN Len(path) >= Len(segs)
       ELSE Len(path) = Len(segs)
    /\ \A i \in 1..Len(segs) : segs[i].k = "literal" => path[i] = segs[i].lit

Compiled(pattern, method, from, template, handler, cache) ==
    LET segs == CompilePattern(pattern)
    IN [pattern |-> pattern, method |-> method, from |-> from, segments |-> segs,
        template |-> template, handler |-> handler, cache |-> cache,
        specificity |-> RouteSpecificity(segs)]

\* A config route's methods: one known name binds it, anything else is Any.
ConfigMethod(methods) ==
    IF Len(methods) = 1 /\ methods[1] \in {"GET", "POST"} THEN methods[1]
    ELSE "ANY"

\* The cache policy a code route inherits: that of the first config route
\* with the same path, whatever its methods.
InheritedCache(pattern, config) ==
    LET same == SelectSeq(config, LAMBDA c : c.path = pattern)
    IN IF same = <<>> THEN "no-store" ELSE same[1].cache

\* FrameworkState::build, as far as routes go.
BuildRoutes(code, config) ==
    [i \in 1..Len(code) |->
        Compiled(code[i].path, code[i].method, "code", NotGiven, NotGiven,
                 InheritedCache(code[i].path, config))]
    \o
    [i \in 1..Len(config) |->
        Compiled(config[i].path, ConfigMethod(config[i].methods), "config",
                 config[i].template, config[i].handler, config[i].cache)]

NoRoute == [specificity |-> -1, from |-> NotGiven]

\* Mutant of Better: the first declared of the routes that match is kept.
BetterDeclaredFirst(r, best) == best.specificity < 0

\* The loop's test: strictly more specific replaces.
Better(r, best) == r.specificity > best.specificity

\* One round of the loop: a route that matches and is more specific is kept.
Prefer(path, method, best, r) ==
    IF /\ MethodMatches(r.method, method)
       /\ MatchRoute(path, r.segments)
       /\ Better(r, best)
    THEN r ELSE best

FindRoute(path, method, routes) ==
    FoldLeft(LAMBDA best, r : Prefer(path, method, best, r), NoRoute, routes)

\* Routes no handler, template or code route can serve: a start-up refuses
\* them, and so does a reload.
UnknownHandlers(routes, code) ==
    {i \in 1..Len(routes) :
        LET r == routes[i] IN
        IF r.handler # NotGiven THEN r.handler \notin NamedHandlers
        ELSE /\ r.template = NotGiven
             /\ \A j \in 1..Len(code) : code[j].path # r.pattern}

\* What answers: a named handler, the code handler of this pattern and
\* method, the template, or 404.
Dispatch(r, code) ==
    IF r = NoRoute THEN "404"
    ELSE IF r.handler # NotGiven
         THEN IF r.handler \in NamedHandlers THEN "handler" ELSE "500"
    ELSE IF r.template # NotGiven THEN "template"
    ELSE IF \E j \in 1..Len(code) : /\ code[j].path = r.pattern
                                    /\ code[j].method = r.method
         THEN "code" ELSE "404"

-----------------------------------------------------------------------------
CodeRoutes == [path : Patterns, method : {"ANY", "GET", "POST"}]
ConfigRoutes == [path : Patterns, methods : {<<>>, <<"GET">>, <<"POST">>},
                 template : {NotGiven, "t"}, handler : {NotGiven}, cache : {"public"}]
                \cup [path : Patterns, methods : {<<>>}, template : {NotGiven},
                      handler : NamedHandlers \cup {"typo"}, cache : {"public"}]

Methods == {"GET", "HEAD", "POST"}
NoRequest == [path |-> <<>>, method |-> "none"]
ZInit ==
    /\ zroutes \in [code : {<<>>} \cup {<<c>> : c \in CodeRoutes},
                    config : {<<>>}]
    /\ zreq = NoRequest

\* A config edit adds a route and is taken up only when it passes the check; the
\* table is replaced between requests.
AddConfigRoute(c) ==
    LET new == Append(zroutes.config, c)
    IN /\ zreq = NoRequest
       /\ Len(zroutes.config) < MaxConfigRoutes
       /\ UnknownHandlers(BuildRoutes(zroutes.code, new), zroutes.code) = {}
       /\ zroutes' = [zroutes EXCEPT !.config = new]
       /\ UNCHANGED zreq

Ask(path, method) ==
    /\ zreq = NoRequest
    /\ zreq' = [path |-> path, method |-> method]
    /\ UNCHANGED zroutes

Answered ==
    /\ zreq # NoRequest
    /\ zreq' = NoRequest
    /\ UNCHANGED zroutes

ZNext ==
    \/ \E c \in ConfigRoutes : AddConfigRoute(c)
    \/ \E path \in Paths, method \in Methods : Ask(path, method)
    \/ Answered

ZSpec == ZInit /\ [][ZNext]_zvars

-----------------------------------------------------------------------------
Candidates(routes) ==
    {i \in 1..Len(routes) : /\ MethodMatches(routes[i].method, zreq.method)
                            /\ MatchRoute(zreq.path, routes[i].segments)}

\* Segment a accepts no more than segment b does.
WithinSegment(a, b) ==
    \/ a = b
    \/ b.k = "param" /\ a.k = "literal"
    \/ b.k = "wildcard" /\ a.k # "wildcard"

\* Pattern a matches fewer paths than pattern b, read off the segments and not off
\* their score: place by place it asks for no less, and where b ends in a wildcard
\* it may go on.
Narrower(a, b) ==
    /\ a # b
    /\ \/ Len(a) = Len(b) /\ \A i \in 1..Len(a) : WithinSegment(a[i], b[i])
       \/ /\ Len(a) > Len(b) /\ b # <<>> /\ b[Len(b)].k = "wildcard"
          /\ \A i \in 1..(Len(b) - 1) : WithinSegment(a[i], b[i])

\* The orders in which a file may have its n [[route]] blocks.
BlockOrders(n) == {f \in [1..n -> 1..n] : \A k \in 1..n : \E i \in 1..n : f[i] = k}
Reordered(config, f) == [i \in 1..Len(config) |-> config[f[i]]]

\* app.rs: "The more specific one wins ... so the answer does not depend on the order
\* of [[route]] blocks".  A route answers exactly when one matches, and never one
\* whose pattern is wider than that of another that matches too; a route registered in
\* code is not displaced by a config route that is only as specific; any order of
\* the config's blocks gives the same answer, unless another route that matches has
\* the same score; and an accepted configuration never leads a request to a handler
\* that does not exist.
ZMostSpecificWins ==
    LET routes == BuildRoutes(zroutes.code, zroutes.config)
        found  == FindRoute(zreq.path, zreq.method, routes)
        cs     == Candidates(routes)
    IN /\ found = NoRoute <=> cs = {}
       /\ cs # {} =>
            \E i \in cs :
               /\ found = routes[i]
               /\ \A j \in cs :
                    /\ ~Narrower(routes[j].segments, routes[i].segments)
                    /\ routes[j].from = "code" /\ routes[i].from = "config"
                         => routes[j].specificity # routes[i].specificity
               /\ (\A j \in cs : j # i => routes[j].specificity # routes[i].specificity)
                    => \A f \in BlockOrders(Len(zroutes.config)) :
                         LET other == FindRoute(zreq.path, zreq.method,
                                        BuildRoutes(zroutes.code, Reordered(zroutes.config, f)))
                         IN  /\ other.pattern = found.pattern /\ other.method = found.method
                             /\ other.from = found.from
                             /\ other.template = found.template /\ other.handler = found.handler
       /\ Dispatch(found, zroutes.code) # "500"
=============================================================================
