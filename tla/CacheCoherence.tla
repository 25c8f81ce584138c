--------------------------- MODULE CacheCoherence ---------------------------
(***************************************************************************)
(* The edge's response cache and the content behind it, across a content    *)
(* change.  A change is announced by touching site.toml: m6-http clears its  *)
(* cache when its own reloader reports it and twice more later               *)
(* (CACHE_LATER_CLEARS, m6-http/src/main.rs), because the backend, with a    *)
(* reloader of its own, may go on answering with the old page for a while.   *)
(* A change made through the edge (POST, PUT, DELETE) evicts the page when   *)
(* its response arrives.                                                     *)
(*                                                                         *)
(* Each reloader is used by its contract, ConfigReloader!ReportedInTime: a   *)
(* process has reloaded a lag after the first touch it had not reported.     *)
(* The backend's is EVENT_LAG when its watcher tells it of the touch and      *)
(* POLL_LAG when only its own comparison does: RELOAD_POLL, then the 100 ms   *)
(* its loop may sleep (m6-render/src/app.rs), then the reload.  One page      *)
(* stands for all: pages do not share entries.                               *)
(***************************************************************************)
EXTENDS Integers, FiniteSets, TLAPS

CONSTANTS
    RELOAD_DEBOUNCE, RELOAD_POLL,    \* m6-core's
    CACHE_RELOAD_MARGIN,             \* added to each for the backend's reload
    EDGE_LAG,                        \* longest time from a touch to the edge's reload
    EVENT_LAG, POLL_LAG,             \* and to the backend's, as it found the touch
    FETCH_LAG,                       \* longest time a fetch is in flight
    EDGE_WAIT,                       \* longest time between two edge iterations
    Backends,                        \* kinds of backend: "socket", "url"
    Editing,                         \* those whose pages are changed through the edge
    MaxTime,                         \* bound: the clock stops here
    MaxVersions                      \* bound: number of content changes

ASSUME DelayAssumption ==
    /\ RELOAD_DEBOUNCE \in Nat /\ RELOAD_POLL \in Nat /\ CACHE_RELOAD_MARGIN \in Nat
    /\ EDGE_LAG \in Nat /\ EVENT_LAG \in Nat /\ POLL_LAG \in Nat
    /\ FETCH_LAG \in Nat /\ EDGE_WAIT \in Nat
ASSUME KindAssumption == Backends \subseteq {"socket", "url"} /\ Editing \subseteq Backends
ASSUME BoundAssumption == MaxTime \in Nat /\ MaxVersions \in Nat

None == -1

VARIABLES
    kind,       \* the kind of backend the page comes from
    now,
    page,       \* the content's version
    backend,    \* the version the backend answers with
    backendBy,  \* the backend owes a reload by this time, or None
    edgeBy,     \* the edge owes a reload by this time, or None
    clearAt,    \* the later clears: when the first and the second are to run
    cache,      \* the version stored for the page, or None
    fetching,   \* responses on their way: their version and when they arrive by
    late,       \* history: since the last quiet edge reload an old answer may
                \* have been due after the last clear
    missed      \* history: since the edge's reload the last clear ran, or was not
                \* armed, before the last old answer was in

vars == <<kind, now, page, backend, backendBy, edgeBy, clearAt, cache, fetching,
          late, missed>>

Slots == {1, 2}

\* Mutant of LaterClears: no margin for the backend's reload.
LaterClearsTight == <<RELOAD_DEBOUNCE, RELOAD_POLL>>

LaterClears == <<RELOAD_DEBOUNCE + CACHE_RELOAD_MARGIN, RELOAD_POLL + CACHE_RELOAD_MARGIN>>

\* How the backend comes to know of a touch, and how long it takes then.
Found == {"event", "poll"}
BackendLag(found) == IF found = "event" THEN EVENT_LAG ELSE POLL_LAG

\* A response with an older page may still be stored.
OldToCome == backend # page \/ \E r \in fetching : r.v # page

\* The content changes and site.toml is touched.
Touch(found) ==
    /\ page < MaxVersions
    /\ page' = page + 1
    /\ backendBy' = IF backendBy = None THEN now + BackendLag(found) ELSE backendBy
    /\ edgeBy' = IF edgeBy = None THEN now + EDGE_LAG ELSE edgeBy
    /\ late' = (late \/ BackendLag(found) + FETCH_LAG >= RELOAD_POLL + CACHE_RELOAD_MARGIN)
    /\ UNCHANGED <<kind, now, backend, clearAt, cache, fetching, missed>>

\* The backend's reload ends: it answers with what is on disk.
BackendReload ==
    /\ backendBy # None
    /\ backend' = page
    /\ backendBy' = None
    /\ UNCHANGED <<kind, now, page, edgeBy, clearAt, cache, fetching, late, missed>>

\* Mutant of EdgeReload: the later clears of an earlier reload are left as they are.
EdgeReloadKeepsArmed ==
    /\ edgeBy # None
    /\ edgeBy' = None
    /\ cache' = None
    /\ clearAt' = [i \in Slots |-> IF clearAt[i] = None THEN now + LaterClears[i]
                                   ELSE clearAt[i]]
    /\ late' = (late /\ OldToCome)
    /\ missed' = FALSE
    /\ UNCHANGED <<kind, now, page, backend, backendBy, fetching>>

\* The edge's reload ends: handle_config_change cleared the cache, and the event
\* loop arms both later clears from here, over any still armed.
EdgeReload ==
    /\ edgeBy # None
    /\ edgeBy' = None
    /\ cache' = None
    /\ clearAt' = [i \in Slots |-> now + LaterClears[i]]
    /\ late' = (late /\ OldToCome)
    /\ missed' = FALSE
    /\ UNCHANGED <<kind, now, page, backend, backendBy, fetching>>

\* The event loop, every iteration: a later clear whose time has come.
LaterClear(i) ==
    /\ clearAt[i] # None
    /\ now >= clearAt[i]
    /\ cache' = None
    /\ clearAt' = [clearAt EXCEPT ![i] = None]
    /\ missed' = (missed \/ (i = 2 /\ edgeBy = None /\ OldToCome))
    /\ UNCHANGED <<kind, now, page, backend, backendBy, edgeBy, fetching, late>>

\* A miss on a socket backend: forwarded and stored before the loop goes on.
Miss ==
    /\ kind = "socket"
    /\ cache = None
    /\ cache' = backend
    /\ UNCHANGED <<kind, now, page, backend, backendBy, edgeBy, clearAt, fetching,
                   late, missed>>

\* A miss, a stale hit's refresh or a prefetch on a URL backend: the request is
\* sent and the loop goes on; the response is stored when it arrives
\* (finalize_url_response), whatever happened to the cache in between.
StartFetch ==
    /\ kind = "url"
    /\ fetching' = fetching \cup {[v |-> backend, by |-> now + FETCH_LAG]}
    /\ UNCHANGED <<kind, now, page, backend, backendBy, edgeBy, clearAt, cache,
                   late, missed>>

FinishFetch(r) ==
    /\ r \in fetching
    /\ fetching' = fetching \ {r}
    /\ cache' = r.v
    /\ UNCHANGED <<kind, now, page, backend, backendBy, edgeBy, clearAt, late, missed>>

\* Mutant of UnsafeMethod: the entry is left where it is.
UnsafeMethodKeeps ==
    /\ kind \in Editing
    /\ page < MaxVersions
    /\ backend = page
    /\ page' = page + 1
    /\ backend' = page + 1
    /\ late' = (late \/ fetching # {})
    /\ missed' = (missed \/ (edgeBy = None /\ clearAt[2] = None /\ fetching # {}))
    /\ UNCHANGED <<kind, now, backendBy, edgeBy, clearAt, cache, fetching>>

\* A POST, PUT or DELETE through the edge changes the page where the backend
\* keeps it, and its response evicts the entry (invalidate_after_unsafe_method);
\* it arms no clear for the responses under way.
UnsafeMethod ==
    /\ kind \in Editing
    /\ page < MaxVersions
    /\ backend = page
    /\ page' = page + 1
    /\ backend' = page + 1
    /\ cache' = None
    /\ late' = (late \/ fetching # {})
    /\ missed' = (missed \/ (edgeBy = None /\ clearAt[2] = None /\ fetching # {}))
    /\ UNCHANGED <<kind, now, backendBy, edgeBy, clearAt, fetching>>

\* The entry expires or is evicted for room.
Expire ==
    /\ cache # None
    /\ cache' = None
    /\ UNCHANGED <<kind, now, page, backend, backendBy, edgeBy, clearAt, fetching,
                   late, missed>>

\* Time passes, never past something that is owed.
Advance ==
    /\ now < MaxTime
    /\ backendBy # None => now < backendBy
    /\ edgeBy # None => now < edgeBy
    /\ \A r \in fetching : now < r.by
    /\ \A i \in Slots : clearAt[i] # None => now < clearAt[i] + EDGE_WAIT
    /\ now' = now + 1
    /\ UNCHANGED <<kind, page, backend, backendBy, edgeBy, clearAt, cache, fetching,
                   late, missed>>

Init ==
    /\ kind \in Backends
    /\ now = 0
    /\ page = 0
    /\ backend = 0
    /\ backendBy = None
    /\ edgeBy = None
    /\ clearAt = [i \in Slots |-> None]
    /\ cache = None
    /\ fetching = {}
    /\ late = FALSE
    /\ missed = FALSE

Next ==
    \/ \E found \in Found : Touch(found)
    \/ BackendReload
    \/ EdgeReload
    \/ \E i \in Slots : LaterClear(i)
    \/ Miss
    \/ StartFetch
    \/ \E r \in fetching : FinishFetch(r)
    \/ UnsafeMethod
    \/ Expire
    \/ Advance

Spec == Init /\ [][Next]_vars

-----------------------------------------------------------------------------
(* Properties.                                                              *)

TypeOK ==
    /\ kind \in Backends
    /\ now \in Nat
    /\ page \in Nat
    /\ backend \in 0 .. page
    /\ backendBy \in Nat \cup {None}
    /\ edgeBy \in Nat \cup {None}
    /\ clearAt \in [Slots -> Nat \cup {None}]
    /\ cache \in (0 .. page) \cup {None}
    /\ fetching \in SUBSET [v : 0 .. page, by : Nat]
    /\ late \in BOOLEAN
    /\ missed \in BOOLEAN

\* docs/m6-http.md, Hot Reload: the later clears "cover a backend that reloads
\* after m6-http".  invalidate_after_unsafe_method: a successful POST, PUT or
\* DELETE must not leave "the edge ... serving the previous" page.  When both have
\* reloaded and the last clear has run, no older page is left in the cache, unless
\* that clear was missed by an old answer.
SettledCacheIsCurrent ==
    backendBy = None /\ edgeBy = None /\ (\A i \in Slots : clearAt[i] = None)
        => cache \in {None, page} \/ missed

\* Two things only make an old answer miss the last clear: a touch whose reload and
\* a fetch begun before it may together outlast RELOAD_POLL and the margin (a backend
\* that finds it by its own poll does), and an edit through the edge answered
\* while another response is on its way.
MissesAreLate == missed => late

\* As long as an older page may still reach the cache, from a backend that has
\* not reloaded or in a response under way, a clear after it is still to come.
ClearOutlastsBackend ==
    edgeBy = None =>
        /\ backendBy # None => clearAt[2] # None /\ clearAt[2] > backendBy + FETCH_LAG
        /\ \A r \in fetching : r.v # page => clearAt[2] # None /\ clearAt[2] > r.by

\* The clears that follow a reload keep the cache coherent with the backend, but
\* for the two that are late.
CoherenceContract ==
    /\ TypeOK
    /\ SettledCacheIsCurrent
    /\ MissesAreLate
    /\ ~late => ClearOutlastsBackend

-----------------------------------------------------------------------------
(* The contract holds for every delay.                                       *)

\* What is owed is owed in the future, and what is not late by no more than fits
\* into the last clear.
Deadlines ==
    /\ backendBy # None => now <= backendBy
    /\ \A r \in fetching : now <= r.by /\ r.by <= now + FETCH_LAG
    /\ kind = "socket" => fetching = {}
    /\ backendBy # None /\ ~late =>
           backendBy + FETCH_LAG < now + RELOAD_POLL + CACHE_RELOAD_MARGIN
    /\ backend # page <=> backendBy # None

\* In a fetch that is not late an old answer arrives before the last clear armed now.
OldFetches ==
    ~late => \A r \in fetching : r.v # page => r.by < now + RELOAD_POLL + CACHE_RELOAD_MARGIN

\* An older page in the cache, or one still to come, will be cleared or was missed.
OldPages ==
    edgeBy = None /\ clearAt[2] = None =>
        /\ OldToCome => missed
        /\ cache \notin {None, page} => missed

IInv ==
    /\ TypeOK
    /\ Deadlines
    /\ OldFetches
    /\ OldPages
    /\ MissesAreLate
    /\ ~late => ClearOutlastsBackend

USE DelayAssumption, KindAssumption, BoundAssumption

\* The last of the later clears, the one that counts.
LEMMA LastClear == LaterClears[2] = RELOAD_POLL + CACHE_RELOAD_MARGIN /\ 2 \in Slots
BY DEF LaterClears, Slots

\* The initial states satisfy the inductive invariant.
LEMMA InitInv == Init => IInv
<1> SUFFICES ASSUME Init PROVE IInv
  OBVIOUS
<1>0. clearAt \in [Slots -> Nat \cup {None}] /\ late \in BOOLEAN /\ missed \in BOOLEAN
  BY DEF Init
<1>1. TypeOK
  BY <1>0 DEF Init, TypeOK, None
<1>2. Deadlines /\ OldFetches
  BY DEF Init, Deadlines, OldFetches, None
<1>3. OldPages /\ MissesAreLate /\ ClearOutlastsBackend
  BY DEF Init, OldPages, OldToCome, MissesAreLate, ClearOutlastsBackend, None
<1> QED BY <1>1, <1>2, <1>3 DEF IInv

\* Every step preserves it.
LEMMA NextInv == IInv /\ [Next]_vars => IInv'
<1> SUFFICES ASSUME IInv, [Next]_vars PROVE IInv'
  OBVIOUS
<1> USE DEF IInv, None, MissesAreLate
<1>0. CASE UNCHANGED vars
  BY <1>0 DEF vars, TypeOK, Deadlines, OldFetches, OldPages, OldToCome, ClearOutlastsBackend
<1> SUFFICES ASSUME Next PROVE IInv'
  BY <1>0
<1>1. ASSUME NEW found \in Found, Touch(found) PROVE IInv'
  <2>1. PICK lag \in Nat : lag = BackendLag(found)
    BY DEF BackendLag
  <2>2. TypeOK'
    BY <1>1, <2>1 DEF Touch, TypeOK
  <2>3. edgeBy' # None
    BY <1>1 DEF Touch, TypeOK
  <2>4. OldPages' /\ MissesAreLate' /\ (~late => ClearOutlastsBackend)'
    BY <1>1, <2>3 DEF Touch, OldPages, ClearOutlastsBackend, TypeOK
  <2>0. ~late' => ~late /\ ~(BackendLag(found) + FETCH_LAG >= RELOAD_POLL + CACHE_RELOAD_MARGIN)
    BY <1>1, Zenon DEF Touch
  <2>5. ~late' => ~late /\ lag + FETCH_LAG < RELOAD_POLL + CACHE_RELOAD_MARGIN
    BY <2>0, <2>1
  <2>6. OldFetches'
    BY <1>1, <2>5 DEF Touch, TypeOK, Deadlines, OldFetches
  <2>7. Deadlines'
    BY <1>1, <2>1, <2>5 DEF Touch, TypeOK, Deadlines
  <2> QED BY <2>2, <2>4, <2>6, <2>7
<1>2. CASE BackendReload
  BY <1>2 DEF BackendReload, TypeOK, Deadlines, OldFetches, OldPages, OldToCome, ClearOutlastsBackend
<1>3. CASE EdgeReload
  <2>1. LaterClears \in [Slots -> Nat]
    BY DEF LaterClears, Slots
  <2>2. clearAt' \in [Slots -> Nat] /\ clearAt'[2] = now + RELOAD_POLL + CACHE_RELOAD_MARGIN
    BY <1>3, <2>1, LastClear DEF EdgeReload, TypeOK
  <2>3. TypeOK'
    BY <1>3, <2>2 DEF EdgeReload, TypeOK
  <2>4. Deadlines' /\ OldFetches' /\ OldPages' /\ MissesAreLate'
    BY <1>3, <2>2 DEF EdgeReload, TypeOK, Deadlines, OldFetches, OldPages, OldToCome
  <2>5. (~late => ClearOutlastsBackend)'
    <3> SUFFICES ASSUME ~late'
                 PROVE  ClearOutlastsBackend'
      OBVIOUS
    <3>1. backendBy # None => clearAt'[2] > backendBy + FETCH_LAG
      BY <1>3, <2>2 DEF EdgeReload, TypeOK, Deadlines, OldToCome
    <3>2. \A r \in fetching : r.v # page => clearAt'[2] > r.by
      BY <1>3, <2>2 DEF EdgeReload, TypeOK, OldFetches, OldToCome
    <3> QED BY <1>3, <2>2, <3>1, <3>2 DEF EdgeReload, ClearOutlastsBackend, TypeOK
  <2> QED BY <2>3, <2>4, <2>5
<1>4. ASSUME NEW i \in Slots, LaterClear(i) PROVE IInv'
  <2>1. TypeOK' /\ Deadlines' /\ OldFetches'
    BY <1>4 DEF LaterClear, TypeOK, Deadlines, OldFetches
  <2>2. OldPages'
    BY <1>4 DEF LaterClear, TypeOK, OldPages, OldToCome, Slots
  <2>3. MissesAreLate' /\ (~late => ClearOutlastsBackend)'
    <3>1. CASE i = 1
      BY <1>4, <3>1 DEF LaterClear, ClearOutlastsBackend, TypeOK, Slots
    <3>2. CASE i = 2
      <4> SUFFICES ASSUME edgeBy = None, ~late
                   PROVE  backendBy = None /\ \A r \in fetching : r.v = page
        BY <1>4, <3>2 DEF LaterClear, ClearOutlastsBackend, TypeOK, OldToCome, Deadlines
      <4>1. clearAt[2] \in Nat /\ now >= clearAt[2] /\ now \in Nat
        BY <1>4, <3>2 DEF LaterClear, TypeOK
      <4>2. backendBy = None
        BY <4>1 DEF ClearOutlastsBackend, TypeOK, Deadlines
      <4>3. \A r \in fetching : r.v = page
        BY <4>1 DEF ClearOutlastsBackend, TypeOK, Deadlines
      <4> QED BY <4>2, <4>3
    <3> QED BY <3>1, <3>2 DEF Slots
  <2> QED BY <2>1, <2>2, <2>3
<1>5. CASE Miss
  BY <1>5 DEF Miss, TypeOK, Deadlines, OldFetches, OldPages, OldToCome, ClearOutlastsBackend
<1>6. CASE StartFetch
  <2> DEFINE r == [v |-> backend, by |-> now + FETCH_LAG]
  <2>1. r \in [v : 0 .. page, by : Nat]
    BY DEF TypeOK
  <2>2. TypeOK' /\ Deadlines' /\ MissesAreLate'
    BY <1>6, <2>1 DEF StartFetch, TypeOK, Deadlines
  <2>3. ~late /\ r.v # page =>
          /\ r.by < now + RELOAD_POLL + CACHE_RELOAD_MARGIN
          /\ edgeBy = None => clearAt[2] # None /\ clearAt[2] > r.by
    <3> SUFFICES ASSUME ~late, backend # page
                 PROVE  /\ now + FETCH_LAG < now + RELOAD_POLL + CACHE_RELOAD_MARGIN
                        /\ edgeBy = None => clearAt[2] # None /\ clearAt[2] > now + FETCH_LAG
      OBVIOUS
    <3>1. backendBy \in Nat /\ now <= backendBy
          /\ backendBy + FETCH_LAG < now + RELOAD_POLL + CACHE_RELOAD_MARGIN
      BY DEF TypeOK, Deadlines
    <3>2. edgeBy = None => clearAt[2] \in Nat /\ clearAt[2] > backendBy + FETCH_LAG
      BY <3>1, LastClear DEF TypeOK, ClearOutlastsBackend
    <3>3. now \in Nat
      BY DEF TypeOK
    <3> QED BY <3>1, <3>2, <3>3
  <2>0. r.v = backend
    OBVIOUS
  <2> HIDE DEF r
  <2>4. fetching' = fetching \cup {r}
        /\ UNCHANGED <<now, page, backend, backendBy, edgeBy, clearAt, cache, late, missed>>
    BY <1>6 DEF StartFetch, r
  <2>5. OldFetches' /\ (~late => ClearOutlastsBackend)'
    BY <2>3, <2>4 DEF OldFetches, ClearOutlastsBackend
  <2>6. OldPages'
    BY <2>0, <2>4 DEF OldPages, OldToCome
  <2> QED BY <2>2, <2>5, <2>6
<1>7. ASSUME NEW r \in fetching, FinishFetch(r) PROVE IInv'
  <2>1. r.v \in 0 .. page /\ fetching' \in SUBSET [v : 0 .. page, by : Nat]
    BY <1>7 DEF FinishFetch, TypeOK
  <2>2. TypeOK' /\ Deadlines' /\ OldFetches' /\ MissesAreLate'
    BY <1>7, <2>1 DEF FinishFetch, TypeOK, Deadlines, OldFetches
  <2>3. OldPages' /\ (~late => ClearOutlastsBackend)'
    BY <1>7, <2>1 DEF FinishFetch, TypeOK, OldPages, OldToCome, ClearOutlastsBackend
  <2> QED BY <2>2, <2>3
<1>8. CASE UnsafeMethod
  <2>0. TypeOK' /\ Deadlines' /\ MissesAreLate'
    BY <1>8 DEF UnsafeMethod, TypeOK, Deadlines
  <2>1. OldFetches'
    BY <1>8 DEF UnsafeMethod, TypeOK, OldFetches
  <2>2. OldPages' /\ (~late => ClearOutlastsBackend)'
    BY <1>8 DEF UnsafeMethod, TypeOK, Deadlines, OldPages, OldToCome, ClearOutlastsBackend
  <2> QED BY <2>0, <2>1, <2>2
<1>9. CASE Expire
  BY <1>9 DEF Expire, TypeOK, Deadlines, OldFetches, OldPages, OldToCome, ClearOutlastsBackend
<1>10. CASE Advance
  BY <1>10 DEF Advance, TypeOK, Deadlines, OldFetches, OldPages, OldToCome, ClearOutlastsBackend
<1> QED
  BY <1>1, <1>2, <1>3, <1>4, <1>5, <1>6, <1>7, <1>8, <1>9, <1>10 DEF Next

\* For every delay: once the edge and the backend have settled no older page is left
\* in the cache and until then a clear is always still to come, but for an answer
\* that misses the last clear; and none misses it unless the backend's reload and
\* a fetch together outlast it, or an edit passes a response under way.
THEOREM LaterClearsSuffice == Spec => []CoherenceContract
<1>1. IInv => CoherenceContract
  <2>1. IInv => SettledCacheIsCurrent
    BY DEF IInv, OldPages, SettledCacheIsCurrent, Slots
  <2> QED BY <2>1 DEF IInv, CoherenceContract
<1>2. IInv /\ [Next]_vars => IInv'
  BY NextInv
<1> QED BY <1>1, <1>2, InitInv, PTL DEF Spec
=============================================================================
