----------------------------- MODULE BackendPool -----------------------------
(***************************************************************************)
(* One socket pool of m6-http (m6-http/src/pool.rs) and its only user,       *)
(* forward_to_backend (m6-http/src/main.rs), which picks a member, forwards   *)
(* the request and releases or fails the member before the event loop goes   *)
(* on.  Members come from rescanning the socket glob and from directory      *)
(* events; a failed member sits out a backoff.                               *)
(*                                                                         *)
(* Time is relative: a member's retry is what is left of its backoff.        *)
(***************************************************************************)
EXTENDS Integers, Sequences, SequencesExt, FiniteSets

CONSTANTS
    Sockets,        \* paths that match the glob, as numbers in glob order
    MAX_BACKOFF,    \* the longest backoff, 30 s
    WIDTH,          \* bits of the u64 the backoff is shifted in, 64
    RESCAN,         \* seconds between two rescans, 2
    MaxEvents,      \* events the watch holds; one more is lost
    MaxFailures     \* bound: no request fails on a member after this many

ASSUME PoolAssumption ==
    /\ Sockets \subseteq Nat /\ IsFiniteSet(Sockets)
    /\ MAX_BACKOFF \in Nat \ {0} /\ WIDTH \in Nat \ {0} /\ RESCAN \in Nat \ {0}
    /\ MaxEvents \in Nat /\ MaxFailures \in Nat

VARIABLES
    present,   \* sockets in the directory
    alive,     \* sockets whose process answers
    events,    \* directory events not handled yet: the path, and which kind
    lost,      \* history: sockets whose last change no event still to come tells of,
               \* and no rescan has seen
    members,   \* the pool: a sequence of members
    rescanIn,  \* seconds to the next rescan
    aborted    \* an overflow check failed and the process is gone

poolvars == <<present, alive, events, lost, members, rescanIn, aborted>>
outside == <<present, alive, events>>

Member(p) == [path |-> p, connections |-> 0, retry |-> 0, failures |-> 0]
SocketPaths == {members[i].path : i \in DOMAIN members}
FsEvent(p, there) == [path |-> p, kind |-> IF there THEN "SocketCreated" ELSE "SocketDeleted"]
Announced(p) == \E i \in DOMAIN events : events[i].path = p

\* backoff_duration, after failure_count was incremented: 1u64 << (n - 1), which
\* the release build's overflow check aborts on at n - 1 = WIDTH.
Overflows(n) == n - 1 >= WIDTH

\* Mutant of Backoff: the doubling is not capped.
BackoffUncapped(n) == 2 ^ (n - 1)

Backoff(n) ==      \* min(2^(n-1), MAX_BACKOFF); 2^k > k keeps the power small
    IF n - 1 < MAX_BACKOFF /\ 2 ^ (n - 1) < MAX_BACKOFF THEN 2 ^ (n - 1) ELSE MAX_BACKOFF

\* pick_member: of the members not backing off, the first of those with fewest
\* connections.
Available == {i \in DOMAIN members : members[i].retry = 0}
Picks(i) ==
    /\ i \in Available
    /\ \A j \in Available : \/ members[i].connections < members[j].connections
                            \/ members[i].connections = members[j].connections /\ i <= j

\* Mutant of Failed: the connection is not given back.
FailedKeepsConnection(m) ==
    [m EXCEPT !.failures = @ + 1, !.retry = Backoff(m.failures + 1)]

\* PoolMember::mark_failed and BackendPool::mark_failed.
Failed(m) ==
    [m EXCEPT !.connections = IF @ > 0 THEN @ - 1 ELSE 0,
              !.failures = @ + 1,
              !.retry = Backoff(m.failures + 1)]

\* BackendPool::release.
Released(m) == [m EXCEPT !.connections = IF @ > 0 THEN @ - 1 ELSE 0]

\* pick_socket took the connection that the outcome gives back.
Taken(i) == [members[i] EXCEPT !.connections = @ + 1]

ForwardOk ==
    \E i \in DOMAIN members :
        LET p == members[i].path
        IN  /\ ~aborted
            /\ Picks(i)
            /\ p \in alive \cap present
            /\ members' = [members EXCEPT ![i] = Released(Taken(i))]
            /\ UNCHANGED <<outside, lost, rescanIn, aborted>>

ForwardFails ==
    \E i \in DOMAIN members :
        LET p == members[i].path
        IN  /\ ~aborted
            /\ Picks(i)
            /\ p \notin alive \cap present
            /\ members[i].failures < MaxFailures
            /\ IF Overflows(members[i].failures + 1)
               THEN aborted' = TRUE /\ UNCHANGED members
               ELSE members' = [members EXCEPT ![i] = Failed(Taken(i))] /\ UNCHANGED aborted
            /\ UNCHANGED <<outside, lost, rescanIn>>

\* Vec::retain: the members whose path is in S, in their order.
KeepIn(S, kept, m) == IF m.path \in S THEN Append(kept, m) ELSE kept
Retain(S) == FoldLeft(LAMBDA kept, m : KeepIn(S, kept, m), <<>>, members)

\* glob: the paths of S in alphabetical order, each the path of a new member.
Glob(S) == CHOOSE s \in [1..Cardinality(S) -> S] : \A i, j \in DOMAIN s : i < j => s[i] < s[j]
NewMembers(S) == LET found == Glob(S) IN [i \in 1..Cardinality(S) |-> Member(found[i])]

\* socket_appeared and socket_disappeared: add_socket unless the path is a member's,
\* and remove_socket, by path.
Without(p) == Retain(SocketPaths \ {p})
Appeared(p) == IF p \in SocketPaths THEN members ELSE Append(members, Member(p))

\* Mutant of HandleFsEvent: a socket that appears is added, member or not.
HandleFsEventAdds ==
    /\ ~aborted
    /\ events # <<>>
    /\ LET e == Head(events)
       IN  members' = IF e.kind = "SocketCreated" THEN Append(members, Member(e.path)) ELSE Without(e.path)
    /\ events' = Tail(events)
    /\ UNCHANGED <<present, alive, lost, rescanIn, aborted>>

\* handle_fs_event acts on the kind of the event, whatever is in the directory by
\* now; the kernel keeps events in order.
HandleFsEvent ==
    /\ ~aborted
    /\ events # <<>>
    /\ LET e == Head(events)
       IN  members' = IF e.kind = "SocketCreated" THEN Appeared(e.path) ELSE Without(e.path)
    /\ events' = Tail(events)
    /\ UNCHANGED <<present, alive, lost, rescanIn, aborted>>

\* Mutants of Rescan: it only adds; it starts every member afresh.
RescanOnlyAdds ==
    /\ ~aborted
    /\ rescanIn = 0
    /\ rescanIn' = RESCAN
    /\ members' = members \o NewMembers(present \ SocketPaths)
    /\ lost' = {p \in lost : Announced(p)}
    /\ UNCHANGED <<outside, aborted>>

RescanAfresh ==
    /\ ~aborted
    /\ rescanIn = 0
    /\ rescanIn' = RESCAN
    /\ members' = NewMembers(present)
    /\ lost' = {p \in lost : Announced(p)}
    /\ UNCHANGED <<outside, aborted>>

\* rescan: members no longer in the directory go, new ones come in glob order.
Rescan ==
    /\ ~aborted
    /\ rescanIn = 0
    /\ rescanIn' = RESCAN
    /\ members' = Retain(present) \o NewMembers(present \ SocketPaths)
    /\ lost' = {p \in lost : Announced(p)}
    /\ UNCHANGED <<outside, aborted>>

\* handle_config_change on a site.toml change: the pools are built anew.
Rebuild ==
    /\ ~aborted
    /\ members' = NewMembers(present)
    /\ lost' = {p \in lost : Announced(p)}
    /\ UNCHANGED <<outside, rescanIn, aborted>>

\* The backends, outside m6-http: a socket is bound or unlinked, a process stops
\* answering on one or answers again.  The directory event may be lost.
SocketChanges(p) ==
    /\ present' = IF p \in present THEN present \ {p} ELSE present \cup {p}
    /\ \/ /\ Len(events) < MaxEvents
          /\ events' = Append(events, FsEvent(p, p \notin present))
          /\ lost' = lost \ {p}
       \/ /\ UNCHANGED events
          /\ lost' = lost \cup {p}
    /\ UNCHANGED <<alive, members, rescanIn, aborted>>

ProcessChanges(p) ==
    /\ alive' = IF p \in alive THEN alive \ {p} ELSE alive \cup {p}
    /\ UNCHANGED <<present, events, lost, members, rescanIn, aborted>>

\* A second passes.  The rescan runs when its time has come.
PoolClock ==
    /\ rescanIn > 0
    /\ rescanIn' = rescanIn - 1
    /\ members' = [i \in DOMAIN members |->
                      [members[i] EXCEPT !.retry = IF @ > 0 THEN @ - 1 ELSE 0]]
    /\ UNCHANGED <<outside, lost, aborted>>

PoolInit ==
    /\ present \in SUBSET Sockets
    /\ alive \in SUBSET Sockets
    /\ events = <<>>
    /\ lost = {}
    /\ members = NewMembers(present)
    /\ rescanIn = RESCAN
    /\ aborted = FALSE

PoolNext ==
    \/ ForwardOk
    \/ ForwardFails
    \/ HandleFsEvent
    \/ \E p \in Sockets : SocketChanges(p) \/ ProcessChanges(p)
    \/ Rescan
    \/ Rebuild
    \/ PoolClock

PoolSpec == PoolInit /\ [][PoolNext]_poolvars

-----------------------------------------------------------------------------
(* Properties.                                                              *)

\* A rescan leaves the pool with the sockets that are there, whatever events were
\* late or lost: each has one member, and no other socket has any.
RescanRepairs ==
    [][ rescanIn = 0 /\ rescanIn' = RESCAN
        => /\ {members'[i].path : i \in DOMAIN members'} = present
           /\ Len(members') = Cardinality(present) ]_poolvars

\* In between, events that are late act on what was, so that a socket that is there
\* may have no member and one that is gone may have one; but once the events about a
\* socket are handled, and its last change was not lost, the pool has it as the
\* directory has, even where a rescan or a rebuild came before an older event.
EventsConverge ==
    \A p \in Sockets \ lost : ~Announced(p) => (p \in SocketPaths <=> p \in present)

\* The event being handled says that p is gone.
HandlesDeleted(p) ==
    /\ events # <<>>
    /\ Head(events) = FsEvent(p, FALSE)
    /\ events' = Tail(events)

\* A rescan or an event about another socket never forgets a member's backoff: only
\* rebuilding the pool, finding the socket gone, or an event that says it went, lets
\* a failing member off.  The last does even when the socket is bound again by then.
BackoffSurvives ==
    [][ \A p \in Sockets : \A i \in DOMAIN members :
          members[i].path = p /\ members[i].retry > 0 /\ p \in present
          => \/ Rebuild
             \/ HandlesDeleted(p)
             \/ \E j \in DOMAIN members' :
                  members'[j].path = p /\ members'[j].retry >= members[i].retry - 1 ]_poolvars

\* Between requests every connection is given back, whichever way the request
\* ended, so that least-connections compares like with like; and no member waits
\* longer than the longest backoff for its next chance.
MembersComeBack ==
    [][ \A i \in DOMAIN members' :
          members'[i].connections = 0 /\ members'[i].retry <= MAX_BACKOFF ]_poolvars

\* The pool follows the directory, remembers who failed, and gives everyone back.
PoolContract == RescanRepairs /\ []EventsConverge /\ BackoffSurvives /\ MembersComeBack

\* backoff_duration: "1->1s, 2->2s, 3->4s, ... max 30s", with no last failure.
BackoffNeverAborts == ~aborted
=============================================================================
