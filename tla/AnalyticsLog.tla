---------------------------- MODULE AnalyticsLog ----------------------------
(***************************************************************************)
(* The analytics file (m6-core log.rs): request lines go through a queue   *)
(* to a writer thread, a rotation tool renames the file and signals the    *)
(* process, the signal thread reopens the path under the writer's lock,    *)
(* the tool waits for the path to reappear and compresses the renamed      *)
(* file, and /traffic reads the recent end across the rotation (m6-http    *)
(* health.rs).                                                             *)
(*                                                                         *)
(* A line is a number; a file is an inode, so a handle keeps the file it   *)
(* opened whatever its name becomes.  The rotation tool is the one the     *)
(* user guide configures.                                                  *)
(***************************************************************************)
EXTENDS Integers, Sequences, FiniteSets, SequencesExt

CONSTANTS
    LMaxLines,     \* bound: lines emitted
    LQueue,        \* the non-blocking writer's queue; a line past it is dropped
    LMaxRot,       \* bound: rotations
    TailLines      \* max_bytes, in lines

ASSUME LogAssumption ==
    LMaxLines \in Nat /\ LQueue \in Nat /\ LMaxRot \in Nat /\ TailLines \in Nat \ {0}

VARIABLES
    lqueue,    \* lines not yet written
    lnext,     \* number of the next line
    linode,    \* linode[i]: the lines of inode i
    llive,     \* the inode at the live path, 0 when there is none
    lhandle,   \* the inode the writer holds
    lreopen,   \* the signal thread: "idle", "signalled", "locked", "opened"
    lfresh,    \* the inode it opened, 0 when it holds none
    ltool,     \* the rotation tool: its phase
    lrot,      \* rotated files by stamp: plain inode (0 gone), gzip content
    lread,     \* a /traffic read in progress and its result
    lwritten   \* history: lines the writer wrote

lvars == <<lqueue, lnext, linode, llive, lhandle, lreopen, lfresh, ltool, lrot, lread, lwritten>>
lfiles == <<linode, llive, lhandle, lfresh, lrot>>

NoGz == [state |-> "none", lines |-> <<>>]
NoRead == [at |-> "idle", tail |-> <<>>, pick |-> 0, form |-> "none", result |-> <<>>]

-----------------------------------------------------------------------------
(* The process                                                             *)

\* tracing to the analytics target; the queue drops what does not fit.
EmitLine ==
    /\ lnext <= LMaxLines
    /\ lnext' = lnext + 1
    /\ lqueue' = IF Len(lqueue) < LQueue THEN Append(lqueue, lnext) ELSE lqueue
    /\ UNCHANGED <<lfiles, lreopen, ltool, lread, lwritten>>

\* Mutant: reopen opens the path before it takes the lock.
LockFreeUntilSwap == lreopen # "locked"

\* The writer locks the file for each line; the signal thread holds the lock
\* from before it opens the path until the new handle is in place.
LockIsFree == lreopen \notin {"locked", "opened"}

\* FileWriter::write_all
WriteLine ==
    /\ lqueue # <<>>
    /\ LockIsFree
    /\ linode' = [linode EXCEPT ![lhandle] = Append(@, Head(lqueue))]
    /\ lwritten' = lwritten \cup {Head(lqueue)}
    /\ lqueue' = Tail(lqueue)
    /\ UNCHANGED <<lnext, llive, lhandle, lreopen, lfresh, ltool, lrot, lread>>

\* ReopenableFile::reopen: lock; open, which creates the path when it is gone;
\* replace the handle and unlock.
ReopenLock ==
    /\ lreopen = "signalled"
    /\ lreopen' = "locked"
    /\ UNCHANGED <<lqueue, lnext, lfiles, ltool, lread, lwritten>>

ReopenOpen ==
    /\ lreopen = "locked"
    /\ IF llive = 0
       THEN linode' = Append(linode, <<>>) /\ llive' = Len(linode) + 1
       ELSE UNCHANGED <<linode, llive>>
    /\ lfresh' = llive'
    /\ lreopen' = "opened"
    /\ UNCHANGED <<lqueue, lnext, lhandle, ltool, lrot, lread, lwritten>>

ReopenSwap ==
    /\ lreopen = "opened"
    /\ lhandle' = lfresh
    /\ lfresh' = 0
    /\ lreopen' = "idle"
    /\ UNCHANGED <<lqueue, lnext, linode, llive, ltool, lrot, lread, lwritten>>

\* The open fails: the old handle stays and the failure is counted.
ReopenFails ==
    /\ lreopen = "locked"
    /\ lreopen' = "idle"
    /\ UNCHANGED <<lqueue, lnext, lfiles, ltool, lread, lwritten>>

-----------------------------------------------------------------------------
(* The rotation tool                                                       *)

RotateFile ==
    /\ ltool = "idle" /\ Len(lrot) < LMaxRot /\ llive # 0
    /\ lrot' = Append(lrot, [plain |-> llive, gz |-> NoGz])
    /\ llive' = 0
    /\ ltool' = "renamed"
    /\ UNCHANGED <<lqueue, lnext, linode, lhandle, lreopen, lfresh, lread, lwritten>>

\* SIGUSR1; one that arrives while a reopen is under way is taken after it.
SignalProcess ==
    /\ ltool = "renamed" /\ lreopen = "idle"
    /\ lreopen' = "signalled"
    /\ ltool' = "waiting"
    /\ UNCHANGED <<lqueue, lnext, lfiles, lread, lwritten>>

\* postrotate waits for the live path, or times out and leaves the file plain.
WaitEnds ==
    /\ ltool = "waiting"
    /\ \/ llive # 0 /\ ltool' = "compressing"
       \/ lreopen = "idle" /\ llive = 0 /\ ltool' = "failed"
    /\ UNCHANGED <<lqueue, lnext, lfiles, lreopen, lread, lwritten>>

\* The next run signals again.
RotateAgain ==
    /\ ltool = "failed"
    /\ ltool' = "renamed"
    /\ UNCHANGED <<lqueue, lnext, lfiles, lreopen, lread, lwritten>>

\* gzip: the compressed copy grows, is whole, and then the plain file goes.
GzStart ==
    /\ ltool = "compressing" /\ Last(lrot).gz.state = "none"
    /\ LET c == linode[Last(lrot).plain]
       IN  \E n \in {0, Len(c)} :
               lrot' = [lrot EXCEPT ![Len(lrot)].gz =
                           [state |-> IF n = Len(c) THEN "whole" ELSE "part",
                            lines |-> SubSeq(c, 1, n)]]
    /\ UNCHANGED <<lqueue, lnext, linode, llive, lhandle, lreopen, lfresh, ltool, lread, lwritten>>

GzGrows ==
    /\ ltool = "compressing" /\ Last(lrot).gz.state = "part"
    /\ lrot' = [lrot EXCEPT ![Len(lrot)].gz =
                   [state |-> "whole", lines |-> linode[Last(lrot).plain]]]
    /\ UNCHANGED <<lqueue, lnext, linode, llive, lhandle, lreopen, lfresh, ltool, lread, lwritten>>

GzEnds ==
    /\ ltool = "compressing" /\ Last(lrot).gz.state = "whole"
    /\ lrot' = [lrot EXCEPT ![Len(lrot)].plain = 0]
    /\ ltool' = "idle"
    /\ UNCHANGED <<lqueue, lnext, linode, llive, lhandle, lreopen, lfresh, lread, lwritten>>

-----------------------------------------------------------------------------
(* read_recent, for /traffic                                               *)

LastLines(s) == SubSeq(s, IF Len(s) > TailLines THEN Len(s) - TailLines + 1 ELSE 1, Len(s))

\* The live tail comes first; a path that is gone is an error, a 503.
ReadLive ==
    /\ lread.at = "idle"
    /\ lread' = IF llive = 0
                THEN [NoRead EXCEPT !.at = "failed"]
                ELSE [NoRead EXCEPT !.at = IF Len(linode[llive]) >= TailLines
                                           THEN "done" ELSE "listing",
                                    !.tail = LastLines(linode[llive]),
                                    !.result = LastLines(linode[llive])]
    /\ UNCHANGED <<lqueue, lnext, lfiles, lreopen, ltool, lwritten>>

\* newest_rotated: the highest stamp, plain rather than gzip; left alone when
\* it was last written before the window.
ReadList ==
    /\ lread.at = "listing"
    /\ \/ lread' = [lread EXCEPT !.at = "done"]
       \/ /\ lrot # <<>>
          /\ lread' = [lread EXCEPT !.at = "opening", !.pick = Len(lrot),
                         !.form = IF Last(lrot).plain # 0 THEN "plain" ELSE "gz"]
    /\ UNCHANGED <<lqueue, lnext, lfiles, lreopen, ltool, lwritten>>

\* append_rotated: a file that is gone, or too large to decode, adds nothing;
\* a gzip cut short adds what decodes.
Rotated(r, form) ==
    IF form = "plain"
    THEN IF r.plain = 0 THEN <<>> ELSE LastLines(linode[r.plain])
    ELSE IF Len(r.gz.lines) > TailLines THEN <<>> ELSE r.gz.lines

ReadRotated ==
    /\ lread.at = "opening"
    /\ lread' = [lread EXCEPT !.at = "done",
                    !.result = Rotated(lrot[lread.pick], lread.form) \o lread.tail]
    /\ UNCHANGED <<lqueue, lnext, lfiles, lreopen, ltool, lwritten>>

\* traffic_authorised: the report is kept for a while, then built again.
ReportExpires ==
    /\ lread.at \in {"done", "failed"}
    /\ lread' = NoRead
    /\ UNCHANGED <<lqueue, lnext, lfiles, lreopen, ltool, lwritten>>

-----------------------------------------------------------------------------
LInit ==
    /\ lqueue = <<>> /\ lnext = 1
    /\ linode = <<<<>>>> /\ llive = 1 /\ lhandle = 1
    /\ lreopen = "idle" /\ lfresh = 0 /\ ltool = "idle"
    /\ lrot = <<>>
    /\ lread = NoRead
    /\ lwritten = {}

LNext ==
    \/ EmitLine \/ WriteLine
    \/ ReopenLock \/ ReopenOpen \/ ReopenSwap \/ ReopenFails
    \/ RotateFile \/ SignalProcess \/ WaitEnds \/ RotateAgain \/ GzStart \/ GzGrows \/ GzEnds
    \/ ReadLive \/ ReadList \/ ReadRotated \/ ReportExpires

LSpec == LInit /\ [][LNext]_lvars

-----------------------------------------------------------------------------
(* Properties                                                              *)

KeptLines ==
    (IF llive = 0 THEN {} ELSE ToSet(linode[llive]))
    \cup UNION {(IF lrot[i].plain = 0 THEN {} ELSE ToSet(linode[lrot[i].plain]))
                \cup ToSet(lrot[i].gz.lines) : i \in DOMAIN lrot}

\* Rotation loses no line: whatever the writer wrote is in the live file, in a
\* renamed file or in the gzip that replaced it, in every interleaving of the
\* writer, the reopen, a reopen that failed and was signalled again, and the
\* compression that starts when the live path reappears.  A line written to a
\* renamed file after it was compressed would be gone with it.
LNoLineLost == lwritten \subseteq KeptLines
=============================================================================
