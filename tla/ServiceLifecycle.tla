-------------------------- MODULE ServiceLifecycle --------------------------
(***************************************************************************)
(* The life of one service process built on App: start-up, the accept      *)
(* loop, the thread pool, one connection per worker, hot reload behind the *)
(* RwLock, and shutdown by signal (m6-core app.rs, server.rs, signal.rs).  *)
(*                                                                         *)
(* Five kinds of thread interleave: the main loop (vmain), the workers     *)
(* (vworker), the signal thread (vsig), and outside the process the peers  *)
(* (vconn) and whoever edits the configuration.  What a handler computes   *)
(* is left out.  A panic is that of the release profile, which aborts.     *)
(***************************************************************************)
EXTENDS Integers, Sequences, FiniteSets

CONSTANTS
    Conns,        \* connections peers may open
    Workers,      \* thread_pool.size
    QueueSize,    \* thread_pool.queue_size
    VMAX_REQUESTS_PER_CONN,
    MaxGen        \* bound: reloads that succeed

ASSUME ServiceAssumption ==
    /\ QueueSize \in Nat \ {0}
    /\ VMAX_REQUESTS_PER_CONN \in Nat \ {0}
    /\ MaxGen \in Nat
    /\ IsFiniteSet(Workers)

VARIABLES
    vmain,     \* the main thread: pc, what poll reported, exit code
    vsig,      \* the signal thread: signals counted, flag published
    vsock,     \* the socket file: "stale", "none" or "bound"
    vbacklog,  \* connections the kernel holds for accept
    vconn,     \* the state of each connection; "stalled" is one being served
               \* whose peer neither sends, reads nor closes any more
    vtimeout,  \* whether read_timeout_s is on
    vqueue,    \* the pool's bounded channel
    vworker,   \* each worker: pc, its connection, requests served on it
    vinflight, \* in_flight
    vgen       \* the framework state installed behind the RwLock

vvars == <<vmain, vsig, vsock, vbacklog, vconn, vtimeout, vqueue, vworker,
           vinflight, vgen>>

\* The connection the signal thread makes to its own socket.
Wake == "wake"
AllConns == Conns \cup {Wake}
NoConn == "none"

IdleWorker == [pc |-> "recv", conn |-> NoConn, served |-> 0, keep |-> FALSE]

VInit ==
    /\ vmain = [pc |-> "boot", ready |-> FALSE, code |-> 0, destroyed |-> FALSE]
    /\ vsig = [count |-> 0, flag |-> FALSE, woken |-> FALSE]
    /\ vsock \in {"none", "stale"}
    /\ vbacklog = <<>>
    /\ vconn = [c \in AllConns |-> "new"]
    /\ vtimeout \in BOOLEAN
    /\ vqueue = <<>>
    /\ vworker = [w \in Workers |-> IdleWorker]
    /\ vinflight = 0
    /\ vgen = 0

Running == vmain.pc \notin {"boot", "gone"}

-----------------------------------------------------------------------------
(* Start-up: everything that can refuse does so before the socket exists.  *)

StartupFails ==
    /\ vmain.pc = "boot"
    /\ vmain' = [vmain EXCEPT !.pc = "gone", !.code = 2]
    /\ UNCHANGED <<vsig, vsock, vbacklog, vconn, vqueue, vworker, vinflight,
                   vgen, vtimeout>>

Bind ==
    /\ vmain.pc = "boot"
    /\ vsock' = "bound"
    /\ vmain' = [vmain EXCEPT !.pc = "loop"]
    /\ UNCHANGED <<vsig, vbacklog, vconn, vqueue, vworker, vinflight, vgen,
                   vtimeout>>

-----------------------------------------------------------------------------
(* The main loop.                                                          *)

\* One wait that ends with neither descriptor ready.
PollIdle ==
    /\ vmain.pc = "loop"
    /\ vbacklog = <<>>
    /\ vsig.flag
    /\ vmain' = [vmain EXCEPT !.pc = "drain"]
    /\ UNCHANGED <<vsig, vsock, vbacklog, vconn, vqueue, vworker, vinflight,
                   vgen, vtimeout>>

PollListener ==
    /\ vmain.pc = "loop"
    /\ vbacklog # <<>>
    /\ vmain' = [vmain EXCEPT !.pc = "accept"]
    /\ UNCHANGED <<vsig, vsock, vbacklog, vconn, vqueue, vworker, vinflight,
                   vgen, vtimeout>>

\* The reloader reports a change and the new state was built, checked and
\* accepted by the hook: what is left is to take the write lock.  A report
\* that is refused leaves everything as it was and is no step here.
ReloadBuilt ==
    /\ vmain.pc = "loop"
    /\ vgen < MaxGen
    /\ \/ vbacklog # <<>>
       \/ ~vsig.flag
    /\ vmain' = [vmain EXCEPT !.pc = "swap", !.ready = vbacklog # <<>>]
    /\ UNCHANGED <<vsig, vsock, vbacklog, vconn, vqueue, vworker, vinflight,
                   vgen, vtimeout>>

\* Mutant: the guard of the first read is still held when the second is asked
\* for.
ReadersOfBoth ==
    {w \in Workers : vworker[w].pc \in {"routed", "handler", "writelocked"}}

\* Workers that hold the read lock.
Readers == {w \in Workers : vworker[w].pc \in {"handler", "writelocked"}}

Swap ==
    /\ vmain.pc = "swap"
    /\ Readers = {}
    /\ vgen' = vgen + 1
    /\ vmain' = [vmain EXCEPT !.pc = IF vmain.ready THEN "accept" ELSE "loop",
                              !.ready = FALSE]
    /\ UNCHANGED <<vsig, vsock, vbacklog, vconn, vqueue, vworker, vinflight,
                   vtimeout>>

AfterAccept == IF vsig.flag THEN "drain" ELSE "loop"

TrySubmit(c) ==
    IF Len(vqueue) < QueueSize
    THEN /\ vqueue' = Append(vqueue, c)
         /\ vconn' = [vconn EXCEPT ![c] = "queued"]
    ELSE /\ vconn' = [vconn EXCEPT ![c] = "refused"]
         /\ UNCHANGED vqueue

Accept ==
    /\ vmain.pc = "accept"
    /\ TrySubmit(Head(vbacklog))
    /\ vbacklog' = Tail(vbacklog)
    /\ vmain' = [vmain EXCEPT !.pc = AfterAccept]
    /\ UNCHANGED <<vsig, vsock, vworker, vinflight, vgen, vtimeout>>

\* finish: the socket file is removed, by a clean stop and by a forced one.
Finished == "none"

\* accept fails, as it does when descriptors run out: the connection stays
\* where it was, and a process that is to stop leaves the loop at once, with
\* no drain and no on_shutdown.
AcceptFails ==
    /\ vmain.pc = "accept"
    /\ IF vsig.flag
       THEN /\ vmain' = [vmain EXCEPT !.pc = "returned"]
            /\ vsock' = Finished
       ELSE /\ vmain' = [vmain EXCEPT !.pc = "loop"]
            /\ UNCHANGED vsock
    /\ UNCHANGED <<vsig, vbacklog, vconn, vqueue, vworker, vinflight, vgen,
                   vtimeout>>

\* drain returns once nothing is counted; then on_shutdown.  The closure's
\* Arc::try_unwrap succeeds only when it holds the last reference, and the
\* caller's own `arc_g`, every handler closure, the thread initialiser and
\* the reload hook still hold theirs.
GlobalHolders == {"arc_g", "handlers"}
StatefulHolders == GlobalHolders \cup {"tls_init"}

VDrain ==
    /\ vmain.pc = "drain"
    /\ vinflight = 0
    /\ vmain' = [vmain EXCEPT !.pc = "returned",
                              !.destroyed = \/ GlobalHolders = {}
                                             \/ StatefulHolders = {}]
    /\ vsock' = Finished
    /\ UNCHANGED <<vsig, vbacklog, vconn, vqueue, vworker, vinflight, vgen,
                   vtimeout>>

\* What the end of the process does to a connection: one that was accepted
\* is cut, one the kernel still held is reset.
EndOf(st) == CASE st \in {"queued", "serving", "stalled"} -> "cut"
               [] st = "backlog" -> "reset"
               [] OTHER -> st
CutAll == [c \in AllConns |-> EndOf(vconn[c])]

\* main returns and the process ends under whatever its threads were doing.
ProcessEnds ==
    /\ vmain.pc = "returned"
    /\ vmain' = [vmain EXCEPT !.pc = "gone"]
    /\ vconn' = CutAll
    /\ UNCHANGED <<vsig, vsock, vbacklog, vqueue, vworker, vinflight, vgen,
                   vtimeout>>

-----------------------------------------------------------------------------
(* The signal thread.                                                      *)

\* SIGUSR1 reopens the log file and is no step here.
FirstSignal ==
    /\ Running
    /\ vsig.count = 0
    /\ vsig' = [vsig EXCEPT !.count = 1, !.flag = TRUE]
    /\ UNCHANGED <<vmain, vsock, vbacklog, vconn, vqueue, vworker, vinflight,
                   vgen, vtimeout>>

\* wake: the loop may have seen the flag by then; that the connection fails is
\* passed over.
WakeLoop ==
    /\ Running
    /\ vsig.count = 1
    /\ ~vsig.woken
    /\ vsig' = [vsig EXCEPT !.woken = TRUE]
    /\ \/ /\ vsock = "bound"
          /\ vbacklog' = Append(vbacklog, Wake)
          /\ vconn' = [vconn EXCEPT ![Wake] = "backlog"]
       \/ UNCHANGED <<vbacklog, vconn>>
    /\ UNCHANGED <<vmain, vsock, vqueue, vworker, vinflight, vgen, vtimeout>>

SecondSignal ==
    /\ Running
    /\ vsig.count = 1
    /\ vsig.woken
    /\ vsig' = [vsig EXCEPT !.count = 2]
    /\ vsock' = Finished
    /\ vmain' = [vmain EXCEPT !.pc = "gone"]
    /\ vconn' = CutAll
    /\ UNCHANGED <<vbacklog, vqueue, vworker, vinflight, vgen, vtimeout>>

-----------------------------------------------------------------------------
(* The workers.                                                            *)

Recv(w) ==
    /\ Running
    /\ vworker[w].pc = "recv"
    /\ vqueue # <<>>
    /\ vworker' = [vworker EXCEPT ![w].pc = "taken", ![w].conn = Head(vqueue)]
    /\ vqueue' = Tail(vqueue)
    /\ UNCHANGED <<vmain, vsig, vsock, vbacklog, vconn, vinflight, vgen,
                   vtimeout>>

Count(w) ==
    /\ Running
    /\ vworker[w].pc = "taken"
    /\ vinflight' = vinflight + 1
    /\ vworker' = [vworker EXCEPT ![w].pc = "read", ![w].served = 0]
    /\ vconn' = [vconn EXCEPT ![vworker[w].conn] = "serving"]
    /\ UNCHANGED <<vmain, vsig, vsock, vbacklog, vqueue, vgen, vtimeout>>

\* f() returned: the count goes down and the worker asks for more.
WorkDone(w) ==
    /\ vinflight' = vinflight - 1
    /\ vworker' = [vworker EXCEPT ![w] = IdleWorker]

\* The peer of w's connection still takes part.
Speaks(w) == vconn[vworker[w].conn] # "stalled"

\* Mutant: a connection that ends without a request keeps its count.
ReadFailsUncounted(w) ==
    /\ Running
    /\ vworker[w].pc = "read"
    /\ vconn' = [vconn EXCEPT ![vworker[w].conn] = "closed"]
    /\ vworker' = [vworker EXCEPT ![w] = IdleWorker]
    /\ UNCHANGED <<vmain, vsig, vsock, vbacklog, vqueue, vinflight, vgen,
                   vtimeout>>

\* Mutant: the accepted socket never gets its read timeout.
ReadFailsByPeer(w) ==
    /\ Running
    /\ vworker[w].pc = "read"
    /\ Speaks(w)
    /\ vconn' = [vconn EXCEPT ![vworker[w].conn] = "closed"]
    /\ WorkDone(w)
    /\ UNCHANGED <<vmain, vsig, vsock, vbacklog, vqueue, vgen, vtimeout>>

\* The peer closed, or the read failed or timed out: the answer to the
\* second is an error and the connection ends either way.
ReadFails(w) ==
    /\ Running
    /\ vworker[w].pc = "read"
    /\ Speaks(w) \/ vtimeout
    /\ vconn' = [vconn EXCEPT ![vworker[w].conn] = "closed"]
    /\ WorkDone(w)
    /\ UNCHANGED <<vmain, vsig, vsock, vbacklog, vqueue, vgen, vtimeout>>

\* A read lock is given only while no writer waits for one.
NoWriter == vmain.pc # "swap"

\* A request arrives and handle_request takes routes, site_dir and config
\* out of the lock, which it then releases; one no route matches is answered
\* without it.
Snapshot(w) ==
    /\ Running
    /\ vworker[w].pc = "read"
    /\ vworker[w].conn # Wake
    /\ Speaks(w)
    /\ NoWriter
    /\ \E keep \in BOOLEAN, route \in {"routed", "write"} :
         vworker' = [vworker EXCEPT
             ![w].pc = route,
             ![w].served = @ + 1,
             ![w].keep = keep /\ vworker[w].served + 1 < VMAX_REQUESTS_PER_CONN]
    /\ UNCHANGED <<vmain, vsig, vsock, vbacklog, vconn, vqueue, vinflight,
                   vgen, vtimeout>>

\* A matched route takes the lock a second time, and keeps it while the
\* dictionary is built and the handler and the template run.
EnterHandler(w) ==
    /\ Running
    /\ vworker[w].pc = "routed"
    /\ NoWriter
    /\ vworker' = [vworker EXCEPT ![w].pc = "handler"]
    /\ UNCHANGED <<vmain, vsig, vsock, vbacklog, vconn, vqueue, vinflight,
                   vgen, vtimeout>>

\* The handler and the template are done and the lock is released, or the
\* dictionary could not be built and the error is written under the lock.
HandlerReturns(w) ==
    /\ Running
    /\ vworker[w].pc = "handler"
    /\ \E next \in {"write", "writelocked"} :
         vworker' = [vworker EXCEPT ![w].pc = next]
    /\ UNCHANGED <<vmain, vsig, vsock, vbacklog, vconn, vqueue, vinflight, vgen,
                   vtimeout>>

\* write_response: it returns once the kernel has taken the bytes, which a
\* peer that does not read may never allow; no deadline is set.
WriteAnswer(w) ==
    /\ Running
    /\ vworker[w].pc \in {"write", "writelocked"}
    /\ vconn' = [vconn EXCEPT ![vworker[w].conn] =
                     IF vworker[w].keep THEN @ ELSE "closed"]
    /\ IF vworker[w].keep
       THEN /\ vworker' = [vworker EXCEPT ![w].pc = "read"]
            /\ UNCHANGED vinflight
       ELSE WorkDone(w)
    /\ UNCHANGED <<vmain, vsig, vsock, vbacklog, vqueue, vgen, vtimeout>>

\* panic = "abort": the process is gone with its socket file in place.
HandlerPanics(w) ==
    /\ Running
    /\ vworker[w].pc = "handler"
    /\ vmain' = [vmain EXCEPT !.pc = "gone"]
    /\ vconn' = CutAll
    /\ UNCHANGED <<vsig, vsock, vbacklog, vqueue, vworker, vinflight, vgen, vtimeout>>

\* The pool was dropped: an idle worker's recv fails and it runs the exit
\* callback, unless the process ends first.
WorkerExits(w) ==
    /\ vmain.pc = "returned"
    /\ vworker[w].pc = "recv"
    /\ vqueue = <<>>
    /\ vworker' = [vworker EXCEPT ![w].pc = "exited"]
    /\ UNCHANGED <<vmain, vsig, vsock, vbacklog, vconn, vqueue, vinflight,
                   vgen, vtimeout>>

-----------------------------------------------------------------------------
(* The peers.                                                              *)

Connect(c) ==
    /\ Running
    /\ vsock = "bound"
    /\ vconn[c] = "new"
    /\ vbacklog' = Append(vbacklog, c)
    /\ vconn' = [vconn EXCEPT ![c] = "backlog"]
    /\ UNCHANGED <<vmain, vsig, vsock, vqueue, vworker, vinflight, vgen,
                   vtimeout>>

\* A peer goes quiet with its connection open: it sends nothing more, reads
\* nothing more and does not close.
PeerStops(c) ==
    /\ Running
    /\ vconn[c] = "serving"
    /\ vconn' = [vconn EXCEPT ![c] = "stalled"]
    /\ UNCHANGED <<vmain, vsig, vsock, vbacklog, vqueue, vworker, vinflight,
                   vgen, vtimeout>>

-----------------------------------------------------------------------------
MainStep == StartupFails \/ Bind \/ PollIdle \/ PollListener \/ Swap \/ Accept
            \/ VDrain \/ ProcessEnds

\* What a worker can always do next, whoever its peer is.
WorkerStep(w) == Recv(w) \/ Count(w) \/ Snapshot(w) \/ ReadFails(w)
                 \/ EnterHandler(w) \/ HandlerReturns(w)
                 \/ (WriteAnswer(w) /\ Speaks(w))

VNext ==
    \/ MainStep
    \/ AcceptFails
    \/ ReloadBuilt
    \/ FirstSignal \/ WakeLoop \/ SecondSignal
    \/ \E w \in Workers : \/ WorkerStep(w) \/ WriteAnswer(w)
                          \/ HandlerPanics(w) \/ WorkerExits(w)
    \/ \E c \in Conns : Connect(c) \/ PeerStops(c)

\* Threads are scheduled and handlers return; a read ends when the peer speaks
\* or closes, or at the timeout if there is one, a write when the peer reads;
\* accept does not fail for ever.  Nothing says that a signal, a reload or a
\* panic ever happens, or that a peer goes on.
VFairness ==
    /\ WF_vvars(MainStep)
    /\ SF_vvars(Accept)
    /\ \A w \in Workers : WF_vvars(WorkerStep(w))

VSpec == VInit /\ [][VNext]_vvars /\ VFairness

-----------------------------------------------------------------------------
\* A peer that went quiet holds its worker for good: while an answer is being
\* written to it, or while it is read from with no timeout set.
Held ==
    \E w \in Workers :
        /\ \/ vworker[w].pc \in {"write", "writelocked"}
           \/ vworker[w].pc = "read" /\ ~vtimeout
        /\ ~Speaks(w)

\* A connection the kernel holds is served, refused or closed, whatever
\* reloads happen meanwhile and however many silent peers there are, until the
\* process is asked to stop or a handler panics: the accept loop, the pool and
\* the RwLock never wait for each other in a circle, although a worker takes
\* the lock twice per request and the accept loop waits for it in the middle
\* of an iteration.  The one thing that may stand in the way is a peer that
\* went quiet while it is written to, or while read_timeout_s is off.
VAcceptedIsServed ==
    \A c \in Conns :
        vconn[c] = "backlog" ~>
            (vconn[c] \in {"closed", "refused"} \/ vsig.flag
             \/ vmain.pc = "gone" \/ Held)

\* After the first signal the process ends by itself, with no second signal,
\* whatever connections are queued, open, silent or kept alive: drain waits for
\* every count to be given back, and only such a held worker keeps its own.
VShutdownEnds == vsig.flag ~> (vmain.pc = "gone" \/ Held)

\* The service's threads let each other go on, and let each other end.
VContract == VAcceptedIsServed /\ VShutdownEnds
=============================================================================
