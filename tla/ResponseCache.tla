---------------------------- MODULE ResponseCache ----------------------------
(***************************************************************************)
(* m6-http's response cache (m6-http/src/cache.rs): one map from a key       *)
(* (path, query and encoding) to an entry with its deadlines, bounded in     *)
(* bytes and evicted in read order.  Deadlines are fixed at insert and       *)
(* judged on read; nothing sweeps.  The client's own Cache-Control is        *)
(* applied on top of the origin's (lookup_with).                             *)
(*                                                                         *)
(* Only the edge's event loop holds the cache, so the operations are whole   *)
(* steps; but lookup_with reads the clock two or three times, and time may   *)
(* pass between the readings.                                                *)
(***************************************************************************)
EXTENDS Integers, FiniteSets, FiniteSetsExt

CONSTANTS
    Keys,                   \* pairs: the path, and the query and encoding
    MAX_BYTES,              \* the byte bound
    SECOND,                 \* clock ticks in a second
    HEURISTIC_MAX_LIFETIME, \* lifetime when the response gives none
    Responses,              \* the responses a backend sends, as the header
                            \* parsers (directives, expires_lifetime) read them
    Requests,               \* the client's directives, as RequestDirectives
    MaxTime,                \* bound: the clock stops here
    MaxTicks                \* bound: number of inserts and reads

None == -1                  \* Option::None, of a number
AnyAge  == -2                  \* max-stale with no value

ASSUME SizeAssumption == MAX_BYTES \in Nat /\ SECOND \in Nat \ {0}
ASSUME KeyAssumption  == \A k \in Keys : k = <<k[1], k[2]>>
ASSUME LifetimeAssumption == HEURISTIC_MAX_LIFETIME \in Nat
ASSUME ResponseAssumption ==
    Responses \subseteq [lifetime : Nat \cup {None}, swr : Nat, no_cache : BOOLEAN,
                         upstream_age : Nat, footprint : Nat \ {0}]
ASSUME RequestAssumption ==
    Requests \subseteq [no_cache : BOOLEAN, max_age : Nat \cup {None},
                        min_fresh : Nat \cup {None}, max_stale : Nat \cup {None, AnyAge}]
ASSUME BoundAssumption == MaxTime \in Nat /\ MaxTicks \in Nat

VARIABLES
    now,       \* the clock
    map,       \* the entries, a function on the keys stored
    bytes,     \* the running total the bound is checked against
    tick,      \* READ_TICK
    answer     \* history: what the last lookup answered

cachevars == <<now, map, bytes, tick, answer>>

NoAnswer == [kind |-> "none"]
Stored   == DOMAIN map

Footprint(m, ks) == SumFunction([k \in ks |-> m[k].footprint])
Saturating(a, b) == IF a < b THEN 0 ELSE a - b
AsSecs(d)        == d \div SECOND

-----------------------------------------------------------------------------
(* insert, and the eviction it ends in.                                      *)

REFRESH_MARGIN == SECOND

\* directives: no-cache is a lifetime of zero; s-maxage, max-age, Expires have
\* been merged into `lifetime`.
Lifetime(r) == IF r.no_cache THEN 0 ELSE r.lifetime

ExpiresAt(r) ==
    IF Lifetime(r) = None THEN now + HEURISTIC_MAX_LIFETIME
    ELSE now + Saturating(Lifetime(r), REFRESH_MARGIN)

\* Mutants of Entry: the tick is read after it was taken; no-cache only makes the
\* lifetime zero and leaves the stale window open.
EntryReadLate(r) ==
    [response |-> r, stored_at |-> now, expires_at |-> ExpiresAt(r),
     serve_stale_until |-> ExpiresAt(r) + (IF r.no_cache THEN 0 ELSE r.swr),
     footprint |-> r.footprint, last_read |-> tick + 1]

EntryStaleAnyway(r) ==
    [response |-> r, stored_at |-> now, expires_at |-> ExpiresAt(r),
     serve_stale_until |-> ExpiresAt(r) + r.swr,
     footprint |-> r.footprint, last_read |-> tick]

Entry(r) ==
    [response |-> r, stored_at |-> now, expires_at |-> ExpiresAt(r),
     serve_stale_until |-> ExpiresAt(r) + (IF r.no_cache THEN 0 ELSE r.swr),
     footprint |-> r.footprint, last_read |-> tick]

\* evict_until_under drops entries in read order while more than 7/8 of the
\* bound is held: k stays if, with all that were read before it gone, no more
\* than that is left.
Target == MAX_BYTES - MAX_BYTES \div 8

\* Mutants of Survivors: what was read last is never dropped; the oldest stored
\* goes first.
SurvivorsAndNewest(m, held) ==
    {k \in DOMAIN m :
        LET older == {j \in DOMAIN m : m[j].last_read < m[k].last_read}
        IN  \/ Saturating(held, Footprint(m, older)) <= Target
            \/ older = DOMAIN m \ {k}}

SurvivorsByAge(m, held) ==
    {k \in DOMAIN m :
        LET older == {j \in DOMAIN m : m[j].stored_at < m[k].stored_at}
        IN  Saturating(held, Footprint(m, older)) <= Target}

Survivors(m, held) ==
    {k \in DOMAIN m :
        LET older == {j \in DOMAIN m : m[j].last_read < m[k].last_read}
        IN  Saturating(held, Footprint(m, older)) <= Target}

\* The map and the counter after an insert that left them at m and held.
EvictUntilUnder(m, held) ==
    LET kept == Survivors(m, held)
    IN  /\ map' = [k \in kept |-> m[k]]
        /\ bytes' = Saturating(held, Footprint(m, DOMAIN m \ kept))

\* Mutant of Freed: the entry that is replaced is not counted off.
FreedNothing(k) == 0

Freed(k) == IF k \in Stored THEN map[k].footprint ELSE 0

Insert(k, r) ==
    /\ tick < MaxTicks
    /\ LET m    == [j \in Stored \cup {k} |-> IF j = k THEN Entry(r) ELSE map[j]]
           held == Saturating(bytes, Freed(k)) + r.footprint
       IN  IF held > MAX_BYTES THEN EvictUntilUnder(m, held)
           ELSE map' = m /\ bytes' = held
    /\ tick' = tick + 1
    /\ answer' = NoAnswer
    /\ UNCHANGED now

-----------------------------------------------------------------------------
(* lookup_with.                                                              *)

Miss == [kind |-> "Miss"]

\* lookup: what the origin permits now.
Lookup(k) ==
    IF k \notin Stored THEN Miss
    ELSE LET e    == map[k]
             kind == IF now < e.expires_at THEN "Fresh"
                     ELSE IF now < e.serve_stale_until THEN "Stale" ELSE "Miss"
         IN  IF kind = "Miss" THEN Miss
             ELSE [kind |-> kind, age |-> e.response.upstream_age + (now - e.stored_at)]

\* ... cut down to what the client accepts.  `later` is the clock of the second
\* reading, for min-fresh and max-stale.
RemainingFreshness(k, later) == Saturating(map[k].expires_at, later)
Staleness(k, later) == Saturating(later, map[k].expires_at)

\* Mutant of Accepts: max-age is off by one second.
AcceptsOlder(base, k, req, later) ==
    /\ base.kind # "Miss"
    /\ req.max_age # None => AsSecs(base.age) <= req.max_age + 1
    /\ req.min_fresh # None => AsSecs(RemainingFreshness(k, later)) >= req.min_fresh
    /\ base.kind = "Stale" /\ req.max_stale \notin {None, AnyAge}
           => AsSecs(Staleness(k, later)) <= req.max_stale

Accepts(base, k, req, later) ==
    /\ base.kind # "Miss"
    /\ req.max_age # None => AsSecs(base.age) <= req.max_age
    /\ req.min_fresh # None => AsSecs(RemainingFreshness(k, later)) >= req.min_fresh
    /\ base.kind = "Stale" /\ req.max_stale \notin {None, AnyAge}
           => AsSecs(Staleness(k, later)) <= req.max_stale

\* A read takes a tick whatever it answers, as long as the key is stored and the
\* client did not say no-cache.
Reads(k, req) == ~req.no_cache /\ k \in Stored

\* Mutant of LookupWith: a read marks the entry with the tick and does not take it.
LookupSharesTick(k, req, pause) ==
    /\ tick < MaxTicks /\ now + pause <= MaxTime
    /\ now' = now + pause
    /\ map' = IF Reads(k, req) THEN [map EXCEPT ![k].last_read = tick - 1] ELSE map
    /\ answer' = IF Reads(k, req) /\ Accepts(Lookup(k), k, req, now')
                 THEN [kind |-> Lookup(k).kind, age |-> Lookup(k).age,
                       at |-> now, req |-> req, entry |-> map[k]]
                 ELSE Miss
    /\ UNCHANGED <<tick, bytes>>

LookupWith(k, req, pause) ==
    /\ tick < MaxTicks /\ now + pause <= MaxTime
    /\ now' = now + pause
    /\ IF Reads(k, req)
       THEN /\ tick' = tick + 1
            /\ map' = [map EXCEPT ![k].last_read = tick]
       ELSE UNCHANGED <<tick, map>>
    /\ answer' = IF Reads(k, req) /\ Accepts(Lookup(k), k, req, now')
                 THEN [kind |-> Lookup(k).kind, age |-> Lookup(k).age,
                       at |-> now, req |-> req, entry |-> map[k]]
                 ELSE Miss
    /\ UNCHANGED bytes

-----------------------------------------------------------------------------
(* Invalidation.                                                             *)

OfPath(p) == {k \in Stored : k[1] = p}

EvictPath(p) ==
    /\ OfPath(p) # {}
    /\ map' = [k \in Stored \ OfPath(p) |-> map[k]]
    /\ bytes' = bytes - Footprint(map, OfPath(p))
    /\ answer' = NoAnswer
    /\ UNCHANGED <<now, tick>>

Clear ==
    /\ map' = <<>>
    /\ bytes' = 0
    /\ answer' = NoAnswer
    /\ UNCHANGED <<now, tick>>

CacheClock ==
    /\ now < MaxTime
    /\ now' = now + 1
    /\ answer' = NoAnswer
    /\ UNCHANGED <<map, bytes, tick>>

CacheInit ==
    /\ now = 0
    /\ map = <<>>
    /\ bytes = 0
    /\ tick = 0
    /\ answer = NoAnswer

CacheNext ==
    \/ \E k \in Keys, r \in Responses : Insert(k, r)
    \/ \E k \in Keys, req \in Requests, pause \in {0, 1} : LookupWith(k, req, pause)
    \/ \E k \in Keys : EvictPath(k[1])
    \/ Clear
    \/ CacheClock

CacheSpec == CacheInit /\ [][CacheNext]_cachevars

-----------------------------------------------------------------------------
(* Properties.                                                               *)

CacheTypeOK ==
    /\ now \in Nat /\ bytes \in Nat /\ tick \in Nat
    /\ Stored \subseteq Keys
    /\ \A k \in Stored :
           /\ map[k].response \in Responses
           /\ map[k].stored_at \in 0..now
           /\ map[k].expires_at \in Nat
           /\ map[k].serve_stale_until \in Nat
           /\ map[k].last_read \in 0..tick - 1
    /\ answer.kind \in {"none", "Miss", "Fresh", "Stale"}

\* footprint_sum's comment: "The invariant bytes_held() == footprint_sum() must
\* hold after every operation", replacement and the saturating subtractions
\* included; a drift would end in an eviction on every insert.
BytesAreExact == bytes = Footprint(map, Stored)

\* The bound holds after every operation, an entry larger than the whole cache
\* included (DEFAULT_MAX_BYTES: "the safety net that holds for any key-space
\* explosion").
WithinBound == bytes <= MAX_BYTES

\* evict_until_under's comment: "Ticks are unique ... no two entries share one".
\* The cutoff of the retain pass depends on it.
TicksAreUnique ==
    \A j, k \in Stored : map[j].last_read = map[k].last_read => j = k

\* Eviction prefers what nobody reads: an entry dropped by an insert was read
\* before every entry that stays, the inserted one apart, and something is only
\* dropped when the bound was passed.
LeastRecentlyReadGoesFirst ==
    [][ LET dropped == Stored \ DOMAIN map'
        IN  tick' > tick =>
              /\ \A j \in dropped, k \in DOMAIN map' :
                     map[j].last_read < map'[k].last_read
              /\ dropped # {} => bytes' <= Target ]_cachevars

\* What a lookup serves, judged by the response's own headers and not by the
\* stored deadlines: fresh means a lifetime less the margin has not passed since
\* it was stored, stale means it is inside the origin's stale-while-revalidate
\* window, and a no-cache response is never served at all.
ServedWithinWindow ==
    answer.kind \in {"Fresh", "Stale"} =>
        LET e    == answer.entry
            life == IF e.response.lifetime = None THEN HEURISTIC_MAX_LIFETIME
                    ELSE Saturating(e.response.lifetime, SECOND)
            held == answer.at - e.stored_at
        IN  /\ ~e.response.no_cache
            /\ answer.kind = "Fresh" => held < life
            /\ answer.kind = "Stale" => held >= life /\ held < life + e.response.swr

\* What the client asked for is honoured to the second (lookup_with): no-cache
\* is never answered, max-age and max-stale are exceeded by less than a second,
\* and a min-fresh answer is that fresh at the moment it is handed back.
ClientIsObeyed ==
    answer.kind \in {"Fresh", "Stale"} =>
        LET req == answer.req
            e   == answer.entry
        IN  /\ ~req.no_cache
            /\ req.max_age # None => answer.age < (req.max_age + 1) * SECOND
            /\ req.min_fresh # None =>
                   now + req.min_fresh * SECOND <= Max({e.expires_at, now})
            /\ req.max_stale \notin {None, AnyAge} /\ answer.kind = "Stale" =>
                   now < e.expires_at + (req.max_stale + 1) * SECOND

\* What a cache of bounded size promises, of every state: its total is exact and
\* within the bound, ticks order the entries, and what it serves is inside the
\* origin's window and what the client asked for.
CacheContract ==
    /\ CacheTypeOK
    /\ BytesAreExact /\ WithinBound /\ TicksAreUnique
    /\ ServedWithinWindow /\ ClientIsObeyed
=============================================================================
