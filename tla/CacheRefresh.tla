---------------------------- MODULE CacheRefresh ----------------------------
(***************************************************************************)
(* Stale-while-revalidate at the edge (m6-http/src/main.rs): a stale entry   *)
(* is served at once and its refresh queued (queue_refresh); the event loop  *)
(* takes one refresh off the queue per iteration and fetches it.  A socket   *)
(* backend answers inside that step; a URL backend answers later, and the    *)
(* reply waits in background_pending for the loop to collect it.            *)
(*                                                                         *)
(* An entry is abstracted to what a lookup says of it.  ResponseCache has    *)
(* the deadlines.                                                            *)
(***************************************************************************)
EXTENDS Integers, Sequences, FiniteSets, SequencesExt

CONSTANTS
    Pages,                \* cache keys
    UrlKeys,             \* those whose route goes to a URL backend
    Outcomes,            \* what a fetch may end in: "stored", "failed"
    MAX_REFRESH_QUEUE    \* bound of the queue, and of the replies waited for

ASSUME PageAssumption == UrlKeys \subseteq Pages
ASSUME CapAssumption == MAX_REFRESH_QUEUE \in Nat
ASSUME OutcomeAssumption == Outcomes \subseteq {"stored", "failed"}

VARIABLES
    entry,     \* entry[k]: "absent", "fresh" or "stale"
    queue,     \* prefetch_queue
    pending,   \* background_pending: the key fetched, and the reply if it came
    pc,        \* where the loop is: "serve", "complete" or "drain"
    owed       \* history: keys served stale since they expired, whose refresh
               \* has neither been fetched to an end nor knowingly dropped

refreshvars == <<entry, queue, pending, pc, owed>>

-----------------------------------------------------------------------------
(* The cache: a visitor's own fetch, deadlines and invalidation.             *)

\* A visitor's miss was answered with a storable response.
Store(k) ==
    /\ pc = "serve"
    /\ entry' = [entry EXCEPT ![k] = "fresh"]
    /\ owed' = owed \ {k}
    /\ UNCHANGED <<queue, pending, pc>>

Expire(k) ==
    /\ entry[k] = "fresh"
    /\ entry' = [entry EXCEPT ![k] = "stale"]
    /\ UNCHANGED <<queue, pending, pc, owed>>

\* The stale window ends, or the entry is evicted or cleared.
Evict(k) ==
    /\ entry[k] # "absent"
    /\ entry' = [entry EXCEPT ![k] = "absent"]
    /\ owed' = owed \ {k}
    /\ UNCHANGED <<queue, pending, pc>>

-----------------------------------------------------------------------------
(* The event loop: requests, then replies, then one refresh.                 *)

QueueFull == Len(queue) >= MAX_REFRESH_QUEUE
Queued(k) == \E i \in 1..Len(queue) : queue[i] = k

\* Mutant of QueueRefresh: no dedup.
QueueRefreshAgain(k) == queue' = IF QueueFull THEN queue ELSE Append(queue, k)

QueueRefresh(k) == queue' = IF QueueFull \/ Queued(k) THEN queue ELSE Append(queue, k)

\* A stale entry is served, on any of the three protocols, and its refresh queued.
ServeStale(k) ==
    /\ pc = "serve"
    /\ entry[k] = "stale"
    /\ QueueRefresh(k)
    /\ owed' = IF QueueFull /\ ~Queued(k) THEN owed ELSE owed \cup {k}
    /\ UNCHANGED <<entry, pending, pc>>

EndServe ==
    /\ pc = "serve"
    /\ pc' = "complete"
    /\ UNCHANGED <<entry, queue, pending, owed>>

\* A URL backend's reply is in the channel: a storable response, or an error or
\* a response that may not be stored.
Answer(i, reply) ==
    /\ i \in 1..Len(pending)
    /\ pending[i].reply = "none"
    /\ pending' = [pending EXCEPT ![i].reply = reply]
    /\ UNCHANGED <<entry, queue, pc, owed>>

\* Every reply that has come is finalized: a storable one is inserted.
KeepUnanswered(kept, p) == IF p.reply = "none" THEN Append(kept, p) ELSE kept
Came(reply) == {p.key : p \in {q \in ToSet(pending) : q.reply = reply}}
CompleteRefreshes ==
    /\ pc = "complete"
    /\ pc' = "drain"
    /\ pending' = FoldLeft(KeepUnanswered, <<>>, pending)
    /\ entry' = [k \in Pages |-> IF k \in Came("stored") THEN "fresh" ELSE entry[k]]
    /\ owed' = owed \ (Came("stored") \cup Came("failed"))
    /\ UNCHANGED queue

\* Mutant of FetchInline: a failure is stored.
FetchInlineStores(k, reply) ==
    /\ entry' = [entry EXCEPT ![k] = IF reply = "stored" THEN "fresh" ELSE reply]
    /\ owed' = owed \ {k}
    /\ UNCHANGED pending

\* The fetch of k, which is not fresh: inline, ended by `reply`.
FetchInline(k, reply) ==
    /\ entry' = IF reply = "stored" THEN [entry EXCEPT ![k] = "fresh"] ELSE entry
    /\ owed' = owed \ {k}
    /\ UNCHANGED pending

\* Mutant of FetchDispatched: the receiver is dropped.
FetchForgotten(k) == UNCHANGED <<entry, pending, owed>>

\* ... or dispatched; the receiver is dropped when too many are waited for.
FetchDispatched(k) ==
    /\ IF Len(pending) < MAX_REFRESH_QUEUE
       THEN pending' = Append(pending, [key |-> k, reply |-> "none"]) /\ UNCHANGED owed
       ELSE owed' = owed \ {k} /\ UNCHANGED pending
    /\ UNCHANGED entry

Drain ==
    /\ pc = "drain"
    /\ pc' = "serve"
    /\ IF queue = <<>> THEN UNCHANGED <<entry, queue, pending, owed>>
       ELSE /\ queue' = Tail(queue)
            /\ LET k == Head(queue)
               IN  IF entry[k] = "fresh" THEN UNCHANGED <<entry, pending, owed>>
                   ELSE IF k \in UrlKeys
                   THEN \/ FetchDispatched(k)
                        \/ "failed" \in Outcomes /\ FetchInline(k, "failed")
                   ELSE \E reply \in Outcomes : FetchInline(k, reply)

\* seed_cache_warm queues the warmable routes before the loop starts.
RefreshInit ==
    /\ entry = [k \in Pages |-> "absent"]
    /\ queue \in {s \in SeqOf(Pages, MAX_REFRESH_QUEUE) : IsInjective(s)}
    /\ pending = <<>>
    /\ pc = "serve"
    /\ owed = {}

Loop == EndServe \/ CompleteRefreshes \/ Drain

RefreshNext ==
    \/ \E k \in Pages : Store(k) \/ Expire(k) \/ Evict(k) \/ ServeStale(k)
    \/ \E i \in 1..MAX_REFRESH_QUEUE, reply \in Outcomes : Answer(i, reply)
    \/ Loop

RefreshSpec == RefreshInit /\ [][RefreshNext]_refreshvars

-----------------------------------------------------------------------------
(* Properties.                                                               *)

RefreshTypeOK ==
    /\ entry \in [Pages -> {"absent", "fresh", "stale"}]
    /\ queue \in Seq(Pages)
    /\ pending \in Seq([key : UrlKeys, reply : {"none"} \cup Outcomes])
    /\ pc \in {"serve", "complete", "drain"}
    /\ owed \subseteq Pages

\* Both queues stay inside MAX_REFRESH_QUEUE, and a key is queued once however
\* many visitors were served its stale entry (queue_refresh).
QueuesAreBounded ==
    /\ Len(queue) <= MAX_REFRESH_QUEUE
    /\ Len(pending) <= MAX_REFRESH_QUEUE
    /\ \A i, j \in 1..Len(queue) : queue[i] = queue[j] => i = j

\* A stale serve is always followed up: its refresh is queued, or in flight with
\* its reply still to be collected, until it ends or is knowingly dropped.  (The
\* receiver used to be dropped on the URL path: background_pending's comment.)
StaleServeIsFollowedUp ==
    \A k \in owed :
        Queued(k) \/ \E i \in 1..Len(pending) : pending[i].key = k

\* queue_refresh and the loop that drains it together: bounded queues that lose nothing.
RefreshContract == RefreshTypeOK /\ QueuesAreBounded /\ StaleServeIsFollowedUp
=============================================================================
