------------------------------- MODULE Storage -------------------------------
(***************************************************************************)
(* One SQLite file and the processes that open it (m6-core sqlite.rs):     *)
(* open with the house settings, bring the schema to this code's version,  *)
(* guard the append-only tables, insert, and prune to a size.  Processes   *)
(* may be of different builds, and any of them may die in a transaction.   *)
(*                                                                         *)
(* SQLite itself (one writer at a time, atomic commit) is the library's.   *)
(***************************************************************************)
EXTENDS Integers, Sequences, FiniteSets, FiniteSetsExt

CONSTANTS
    Procs,
    CodeVersion,     \* CodeVersion[p]: the length of p's migration list
    SMaxRows,        \* bound: rows inserted
    SMaxCrashes,     \* bound: processes that die
    Batch, Cap       \* prune_oldest: rows per transaction, target in rows

ASSUME StorageAssumption ==
    /\ "none" \notin Procs
    /\ CodeVersion \in [Procs -> Nat]
    /\ SMaxRows \in Nat /\ SMaxCrashes \in Nat /\ Batch \in Nat \ {0} /\ Cap \in Nat

VARIABLES
    sdb,       \* the file: version, the migrations that ran, dangling rows, rows
    slock,     \* the process that holds the write lock, "none"
    sproc,     \* sproc[p]: its connection and where migrate is
    sdied      \* processes that died

svars == <<sdb, slock, sproc, sdied>>

Closed == [at |-> "closed", cur |-> 0, m |-> 0, fk |-> FALSE]

-----------------------------------------------------------------------------
(* OpenOptions::open                                                       *)

\* A file that is read-only, or a setting that did not take, is an error.
OpenDb(p) ==
    /\ sproc[p].at = "closed"
    /\ \E ok \in BOOLEAN :
           sproc' = [sproc EXCEPT ![p] = IF ok THEN [Closed EXCEPT !.at = "open", !.fk = TRUE]
                                               ELSE Closed]
    /\ UNCHANGED <<sdb, slock, sdied>>

-----------------------------------------------------------------------------
(* migrate                                                                 *)

\* Fails with foreign keys back as they were; an open transaction rolls back.
MigrateFails(p) ==
    /\ sproc' = [sproc EXCEPT ![p] = [@ EXCEPT !.at = "refused", !.fk = TRUE]]
    /\ slock' = IF slock = p THEN "none" ELSE slock

MigrateStart(p) ==
    /\ sproc[p].at = "open"
    /\ IF sdb.version > CodeVersion[p]
       THEN MigrateFails(p)
       ELSE /\ sproc' = [sproc EXCEPT ![p] = [@ EXCEPT !.at = "next", !.cur = sdb.version,
                                                       !.m = sdb.version + 1]]
            /\ UNCHANGED slock
    /\ UNCHANGED <<sdb, sdied>>

\* Foreign keys off, then BEGIN IMMEDIATE: it waits for the lock, and gives up
\* after the busy timeout.
BeginImmediate(p) ==
    /\ sproc[p].at = "next" /\ sproc[p].m <= CodeVersion[p]
    /\ \/ /\ slock = "none"
          /\ slock' = p
          /\ sproc' = [sproc EXCEPT ![p] = [@ EXCEPT !.at = "locked", !.fk = FALSE]]
       \/ slock # "none" /\ MigrateFails(p)
    /\ UNCHANGED <<sdb, sdied>>

\* Mutant: the version is not read again under the lock.
StillNeededByList(p) == TRUE

\* The version again, inside the transaction: another process may have run it.
StillNeeded(p) == sdb.version < sproc[p].m

UnderLock(p) ==
    /\ sproc[p].at = "locked"
    /\ IF sdb.version > CodeVersion[p] THEN MigrateFails(p)
       ELSE IF StillNeeded(p)
            THEN sproc' = [sproc EXCEPT ![p].at = "run"] /\ UNCHANGED slock
            ELSE /\ sproc' = [sproc EXCEPT ![p] = [@ EXCEPT !.at = "next", !.m = sproc[p].m + 1]]
                 /\ slock' = "none"
    /\ UNCHANGED <<sdb, sdied>>

\* The SQL fails, or leaves more dangling references than before, or neither.
RunSql(p) ==
    /\ sproc[p].at = "run"
    /\ \/ MigrateFails(p)
       \/ \E grew \in BOOLEAN :
              IF grew THEN MigrateFails(p)
              ELSE sproc' = [sproc EXCEPT ![p].at = "commit"] /\ UNCHANGED slock
    /\ UNCHANGED <<sdb, sdied>>

CommitMigration(p) ==
    /\ sproc[p].at = "commit"
    /\ sdb' = [sdb EXCEPT !.version = sproc[p].m, !.ran = Append(@, sproc[p].m)]
    /\ sproc' = [sproc EXCEPT ![p] = [@ EXCEPT !.at = "next", !.m = sproc[p].m + 1]]
    /\ slock' = "none"
    /\ UNCHANGED sdied

\* Foreign keys back, and the version once more.
MigrateDone(p) ==
    /\ sproc[p].at = "next" /\ sproc[p].m > CodeVersion[p]
    /\ IF sdb.version > CodeVersion[p] THEN MigrateFails(p)
       ELSE /\ sproc' = [sproc EXCEPT ![p] = [@ EXCEPT !.at = "ready", !.fk = TRUE]]
            /\ UNCHANGED slock
    /\ UNCHANGED <<sdb, sdied>>

-----------------------------------------------------------------------------
(* Use                                                                     *)

InsertRow(p) ==
    /\ sproc[p].at = "ready" /\ slock = "none" /\ sdb.next <= SMaxRows
    /\ sdb' = [sdb EXCEPT !.rows = Append(@, sdb.next), !.next = @ + 1]
    /\ UNCHANGED <<slock, sproc, sdied>>

\* prune_oldest: the oldest Batch rows, one short transaction each time round.
Pruned(rows) == SubSeq(rows, Min({Batch, Len(rows)}) + 1, Len(rows))

PruneBatch(p) ==
    /\ sproc[p].at = "ready" /\ slock = "none" /\ Len(sdb.rows) > Cap
    /\ sdb' = [sdb EXCEPT !.rows = Pruned(@)]
    /\ UNCHANGED <<slock, sproc, sdied>>

\* A process ends or dies: an open transaction rolls back.
Dies(p) ==
    /\ sproc[p].at # "closed" /\ sdied < SMaxCrashes
    /\ sdied' = sdied + 1
    /\ sproc' = [sproc EXCEPT ![p] = Closed]
    /\ slock' = IF slock = p THEN "none" ELSE slock
    /\ UNCHANGED sdb

SInit ==
    /\ sdb = [version |-> 0, ran |-> <<>>, rows |-> <<>>, next |-> 1]
    /\ slock = "none"
    /\ sproc = [p \in Procs |-> Closed]
    /\ sdied = 0

SNext ==
    \E p \in Procs :
        \/ OpenDb(p) \/ MigrateStart(p) \/ BeginImmediate(p) \/ UnderLock(p)
        \/ RunSql(p) \/ CommitMigration(p) \/ MigrateDone(p)
        \/ InsertRow(p) \/ PruneBatch(p) \/ Dies(p)

SSpec == SInit /\ [][SNext]_svars

-----------------------------------------------------------------------------
(* Properties                                                              *)

\* Processes that open one file at once apply each migration exactly once, in
\* order, whatever builds they are, whoever dies between two migrations or
\* inside one, and whoever gave up waiting for the lock; and a connection that
\* leaves migrate, refused or not, enforces foreign keys again.
SMigrationsRunOnce ==
    /\ sdb.ran = [i \in 1..sdb.version |-> i]
    /\ \A p \in Procs : sproc[p].at \in {"ready", "refused"} => sproc[p].fk
=============================================================================
