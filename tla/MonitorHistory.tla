--------------------------- MODULE MonitorHistory ---------------------------
(***************************************************************************)
(* The poll history of m6-monitor (history.rs): the poller hands each poll *)
(* to a writer thread through a bounded queue; the writer stores it in one *)
(* SQLite transaction, then prunes the oldest polls past the cap in        *)
(* transactions of their own; readers page through the rows with a cursor  *)
(* while both go on.  Writes fail, the process dies and the clock moves    *)
(* back.  A poll is its time and, per node, the crawlers its window saw.   *)
(* Sizes are counted in polls.                                             *)
(***************************************************************************)
EXTENDS Integers, Sequences, FiniteSets, FiniteSetsExt, SequencesExt

CONSTANTS
    HNodes,         \* the nodes, by their place in the configuration
    Agents,
    Sightings,      \* the sets of agents a window may see
    Windows,        \* window_minutes a node may report, in clock units
    QUEUE_POLLS, PRUNE_BATCH,
    CapPolls,       \* history_max_mb, in polls
    PageRows,       \* PageLimits
    MaxRecorded,    \* bound: polls recorded
    HTime           \* bound on the clock

ASSUME HistoryAssumption ==
    /\ {QUEUE_POLLS, PRUNE_BATCH, CapPolls, PageRows, MaxRecorded, HTime} \subseteq Nat
    /\ PageRows > 0 /\ PRUNE_BATCH > 0
    /\ IsFiniteSet(HNodes) /\ HNodes = 1..Cardinality(HNodes)
    /\ IsFiniteSet(Agents) /\ Sightings \subseteq SUBSET Agents /\ Windows \subseteq Nat

VARIABLES
    hq,         \* the queue of batches
    hdb,        \* the file: poll rows, windows, health rows, agents
    hstore,     \* the writer's Store, open or not
    hwriter,    \* the batch in hand and how far it is
    hstat,      \* Shared: the status the digest reads
    hread,      \* one client following Link: rel="next"
    hnow, hrecorded

hvars == <<hq, hdb, hstore, hwriter, hstat, hread, hnow, hrecorded>>

Absent == -1
Never == -100
NoBatch == [at |-> Absent]
Unread == [pc |-> "idle", cursor |-> <<Never, 0>>, got |-> {}, twice |-> {}, base |-> {}]
CleanStatus == [opened |-> TRUE, failing |-> FALSE, prune |-> FALSE, over |-> FALSE,
                dropped |-> 0, acked |-> 0, stopped |-> FALSE]

Target == (19 * CapPolls) \div 20
PollIds == {p.id : p \in hdb.polls}

----------------------------------------------------------------------------
(* Store::open: the connection, the schema, and the last window of every    *)
(* node as the file has it.  The interner caches start empty.               *)
Stored(db, n) == {w \in db.windows : w.node = n}
LastWindow(db, n) == Max({w.at : w \in Stored(db, n)} \cup {Never})

OpenFresh(db) == [open |-> TRUE, last |-> [n \in HNodes |-> Never], cache |-> [a \in Agents |-> Absent]]
OpenStore(db) ==
    [open |-> TRUE, last |-> [n \in HNodes |-> LastWindow(db, n)], cache |-> [a \in Agents |-> Absent]]
ClosedStore == [open |-> FALSE, last |-> [n \in HNodes |-> Never], cache |-> [a \in Agents |-> Absent]]

----------------------------------------------------------------------------
(* Recorder::record, after the poll: never waits. *)
Batches == {[at |-> hnow, crawl |-> c] :
               c \in [HNodes -> {[len |-> Absent, seen |-> {}]}
                                \cup [len : Windows, seen : Sightings]]}

Record ==
    /\ hrecorded < MaxRecorded /\ hrecorded' = hrecorded + 1
    /\ \E b \in Batches :
          CASE hstat.stopped -> UNCHANGED <<hq, hstat>>
            [] ~hstat.stopped /\ Len(hq) < QUEUE_POLLS -> hq' = Append(hq, b) /\ UNCHANGED hstat
            [] OTHER -> hstat' = [hstat EXCEPT !.dropped = @ + 1] /\ UNCHANGED hq
    /\ UNCHANGED <<hdb, hstore, hwriter, hread, hnow>>

----------------------------------------------------------------------------
(* Interner::id: the cached id, else the row's, else a new row.  The agent  *)
(* table's ids are SQLite row ids: one above the largest in use.            *)
NextAgent(agents) == Max({a.id : a \in agents} \cup {0}) + 1
RowOf(agents, name) == {a.id : a \in {x \in agents : x.name = name}}

Intern(st, name) ==
    IF st.cache[name] # Absent THEN st
    ELSE LET id == IF RowOf(st.agents, name) # {} THEN Max(RowOf(st.agents, name))
                   ELSE NextAgent(st.agents)
         IN  [cache |-> [st.cache EXCEPT ![name] = id],
              agents |-> st.agents \cup {[id |-> id, name |-> name]}]

InternAll(st, names) == FoldLeft(Intern, st, SetToSeq(names))

(* Store::insert: one poll row, one health row per node, and a crawl window *)
(* for each node whose last one is at least a window ago; all or nothing.   *)
Due(n, b) ==
    /\ b.crawl[n].len # Absent
    /\ hstore.last[n] = Never \/ b.at - hstore.last[n] >= b.crawl[n].len

InsertWindows(b, id) ==
    LET due == {n \in HNodes : Due(n, b)}
        st == InternAll([cache |-> hstore.cache, agents |-> hdb.agents],
                        UNION {b.crawl[n].seen : n \in due})
    IN  [agents |-> st.agents, cache |-> st.cache,
         windows |-> {[poll |-> id, node |-> n, at |-> b.at, len |-> b.crawl[n].len,
                       seen |-> b.crawl[n].seen, ids |-> {st.cache[a] : a \in b.crawl[n].seen}] :
                         n \in due}]

\* The health rows are inserted node by node; `row` is the table's next id, never given again.
HealthRows(b, id, row) ==
    {[poll |-> id, node |-> n, key |-> <<b.at, row + n - 1>>] : n \in HNodes}

CacheKept(cache) == cache
CacheAfterCommit(cache) == [a \in Agents |-> Absent]

Insert ==
    /\ hwriter.pc = "insert"
    /\ LET b == hwriter.batch
           w == InsertWindows(b, hdb.next)
       IN  /\ hdb' = [polls |-> hdb.polls \cup {[id |-> hdb.next, at |-> b.at]},
                      rows |-> hdb.rows \cup HealthRows(b, hdb.next, hdb.row),
                      windows |-> hdb.windows \cup w.windows,
                      agents |-> w.agents, next |-> hdb.next + 1,
                      row |-> hdb.row + Cardinality(HNodes)]
           /\ hstore' = [hstore EXCEPT
                !.cache = CacheAfterCommit(w.cache),
                !.last = [n \in HNodes |-> IF Due(n, b) THEN b.at ELSE hstore.last[n]]]
           /\ hwriter' = [hwriter EXCEPT !.pc = "prune", !.keep = hdb.next]
    /\ UNCHANGED <<hq, hstat, hread, hnow, hrecorded>>

\* Any statement of it may fail, or the commit: the connection is dropped.
InsertFails ==
    /\ hwriter.pc = "insert"
    /\ hstore' = ClosedStore
    /\ hwriter' = [hwriter EXCEPT !.pc = "idle", !.batch = NoBatch]
    /\ hstat' = [hstat EXCEPT !.failing = TRUE]
    /\ UNCHANGED <<hq, hdb, hread, hnow, hrecorded>>

(* Store::prune: past the cap, the oldest batch of polls before this one,   *)
(* their children, and the agents no sighting names; again until under.     *)
Oldest(ids, k) == {i \in ids : Cardinality({j \in ids : j < i}) < k}
Prunable == Oldest({i \in PollIds : i < hwriter.keep}, PRUNE_BATCH)
PrunedDb(gone) ==
    LET windows == {w \in hdb.windows : w.poll \notin gone}
    IN  [hdb EXCEPT !.polls = {p \in @ : p.id \notin gone},
                    !.rows = {r \in @ : r.poll \notin gone},
                    !.windows = windows,
                    !.agents = {a \in @ : \E w \in windows : a.id \in w.ids}]

OverCap == Cardinality(hdb.polls) > (IF hwriter.pruning THEN Target ELSE CapPolls)

Prune ==
    /\ hwriter.pc = "prune" /\ OverCap /\ Prunable # {}
    /\ hdb' = PrunedDb(Prunable)
    /\ hwriter' = [hwriter EXCEPT !.pruning = TRUE]
    /\ UNCHANGED <<hq, hstore, hstat, hread, hnow, hrecorded>>

\* Writer::handle's end: under the target, nothing left to delete, or the
\* prune failed, which does not lose the poll.
Finish(failed) ==
    /\ hwriter.pc = "prune"
    /\ failed \/ ~OverCap \/ Prunable = {}
    /\ hstat' = [hstat EXCEPT !.failing = FALSE, !.prune = failed,
                              !.over = ~failed /\ OverCap, !.acked = hstat.dropped]
    /\ hwriter' = [pc |-> "idle", batch |-> NoBatch, keep |-> 0, pruning |-> FALSE]
    /\ UNCHANGED <<hq, hdb, hstore, hread, hnow, hrecorded>>

\* The writer takes the next batch, opening the store when it has none.
Take ==
    /\ hwriter.pc = "idle" /\ hq # <<>> /\ ~hstat.stopped
    /\ hq' = Tail(hq)
    /\ \/ /\ hstore' = IF hstore.open THEN hstore ELSE OpenStore(hdb)
          /\ hstat' = [hstat EXCEPT !.opened = TRUE]
          /\ hwriter' = [pc |-> "insert", batch |-> Head(hq), keep |-> 0, pruning |-> FALSE]
       \/ /\ ~hstore.open
          /\ hstat' = [hstat EXCEPT !.opened = FALSE]
          /\ UNCHANGED <<hstore, hwriter>>
    /\ UNCHANGED <<hdb, hread, hnow, hrecorded>>

----------------------------------------------------------------------------
(* paged, fill_page: a page is one read transaction over the rows at or     *)
(* after the cursor, by (at, id); it holds at least one row and at most the *)
(* page's; the cursor is the first row that did not fit.                    *)
KeyLeq(a, b) == a[1] < b[1] \/ (a[1] = b[1] /\ a[2] <= b[2])
RowsFromExclusive(keys, cursor) == {k \in keys : KeyLeq(cursor, k) /\ k # cursor}
RowsFrom(keys, cursor) == {k \in keys : KeyLeq(cursor, k)}
HKeys == {r.key : r \in hdb.rows}

\* The rows of a page that ends where `next` did not fit, and what the client has with them.
Before(rows, next) == {k \in rows : KeyLeq(k, next) /\ k # next}
Read(c, page) == [c EXCEPT !.got = @ \cup page, !.twice = @ \cup (c.got \cap page)]

\* Page::push takes the first row whatever its size, then fills up.
PageSizes == 1..PageRows

StartScan ==
    /\ hread.pc = "idle"
    /\ hread' = [pc |-> "scan", cursor |-> <<Never, 0>>, got |-> {}, twice |-> {}, base |-> HKeys]
    /\ UNCHANGED <<hq, hdb, hstore, hwriter, hstat, hnow, hrecorded>>

FillPage ==
    /\ hread.pc = "scan"
    /\ LET rows == RowsFrom(HKeys, hread.cursor)
       IN  \/ Cardinality(rows) <= PageRows /\ hread' = [Read(hread, rows) EXCEPT !.pc = "done"]
           \/ \E next \in rows :
                 /\ Cardinality(Before(rows, next)) \in PageSizes
                 /\ hread' = [Read(hread, Before(rows, next)) EXCEPT !.cursor = next]
    /\ UNCHANGED <<hq, hdb, hstore, hwriter, hstat, hnow, hrecorded>>

----------------------------------------------------------------------------
(* The clock, which may be set back; a crash, which loses the queue and the *)
(* batch in hand; and a panic of the writer thread (StopGuard).             *)
SetClock ==
    /\ hnow' \in {t \in 0..HTime : t = hnow + 1 \/ t = 0} /\ hnow' # hnow
    /\ UNCHANGED <<hq, hdb, hstore, hwriter, hstat, hread, hrecorded>>

Restart ==
    /\ hq' = <<>> /\ hwriter' = [pc |-> "idle", batch |-> NoBatch, keep |-> 0, pruning |-> FALSE]
    /\ hstat' = CleanStatus /\ hstore' = OpenStore(hdb)
    /\ UNCHANGED <<hdb, hread, hnow, hrecorded>>

WriterPanics ==
    /\ hwriter.pc = "insert"
    /\ hstat' = [hstat EXCEPT !.stopped = TRUE]
    /\ hwriter' = [pc |-> "idle", batch |-> NoBatch, keep |-> 0, pruning |-> FALSE]
    /\ hstore' = ClosedStore /\ hq' = <<>>
    /\ UNCHANGED <<hdb, hread, hnow, hrecorded>>

HInit ==
    /\ hq = <<>> /\ hstat = CleanStatus /\ hread = Unread
    /\ hdb = [polls |-> {}, rows |-> {}, windows |-> {}, agents |-> {}, next |-> 1, row |-> 1]
    /\ hstore = OpenStore(hdb)
    /\ hwriter = [pc |-> "idle", batch |-> NoBatch, keep |-> 0, pruning |-> FALSE]
    /\ hnow = 0 /\ hrecorded = 0

HNext ==
    \/ Record \/ Take \/ Insert \/ InsertFails \/ Prune
    \/ \E failed \in BOOLEAN : Finish(failed)
    \/ StartScan \/ FillPage \/ SetClock \/ Restart \/ WriterPanics
HSpec == HInit /\ [][HNext]_hvars

----------------------------------------------------------------------------
(* The stored crawl windows of a node never overlap, so a reader may add   *)
(* them up: across failed writes, a dropped and reopened connection, a     *)
(* restart, a clock set back and a window length that changes              *)
(* (history.rs, "Crawler cadence").                                        *)
HWindowsTile ==
    \A v, w \in hdb.windows :
        (v.node = w.node /\ v.poll < w.poll) => v.at <= w.at - w.len

(* A sighting names the user agent that was seen, although pruning deletes *)
(* agents and SQLite gives their ids to others (history.rs, Interner).     *)
HSightingsNameTheirAgent ==
    \A w \in hdb.windows :
        {a.name : a \in {x \in hdb.agents : x.id \in w.ids}} = w.seen

(* A client that follows the next links to the end gets every row that was *)
(* there all along, and no row twice, whatever was written or pruned       *)
(* between its pages: a key is one row's, for as long as the file lives    *)
(* (history.rs, fill_page).                                                *)
HPagesAreExact ==
    /\ \A r, q \in hdb.rows : r.key = q.key => r = q
    /\ hread.twice = {}
    /\ hread.pc = "done" => hread.base \cap HKeys \subseteq hread.got

(* What a reader of the history may rely on.                               *)
HContract == HWindowsTile /\ HSightingsNameTheirAgent /\ HPagesAreExact
=============================================================================
