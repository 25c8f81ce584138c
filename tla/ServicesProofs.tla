--------------------------- MODULE ServicesProofs ---------------------------
(***************************************************************************)
(* What the parts of a service and the programs beside it promise, for     *)
(* every value of the constants: migrations run once (Storage), a page's   *)
(* own form is accepted (ServiceVisitor), a quiet converter is current     *)
(* (MarkdownWatch), a start misses no edit (ServiceStart), no line of the  *)
(* access log is lost (AnalyticsLog), accounts, keys, tokens and throttle  *)
(* agree (Auth), a file that is only replaced is whole (ServiceData),      *)
(* the monitor's verdicts are earned (FleetMonitor) and its history is     *)
(* truthful (MonitorHistory), the most specific route answers              *)
(* (ServiceRoutes) and a request is read the same however it is cut        *)
(* (BackendWire).  The parts share no variable.                            *)
(***************************************************************************)
EXTENDS Storage, ServiceVisitor, MarkdownWatch, ServiceStart, AnalyticsLog, Auth,
        ServiceData, FleetMonitor, MonitorHistory, ServiceRoutes, BackendWire,
        FoldLemmas, FiniteSetTheorems, SequenceTheorems, TLAPS

-----------------------------------------------------------------------------
(* Storage.  A migration runs once because its process holds the lock from   *)
(* the moment it reads the version again to the commit, and is never more    *)
(* than one migration ahead of the file.                                    *)

Connection == [at : {"closed", "open", "next", "locked", "run", "commit", "ready", "refused"},
               cur : Nat, m : Nat, fk : BOOLEAN]

STypeOK ==
    /\ sdb \in [version : Nat, ran : Seq(Nat), rows : Seq(Nat), next : Nat]
    /\ slock \in Procs \cup {"none"}
    /\ sproc \in [Procs -> Connection]
    /\ sdied \in Nat

\* A process between BEGIN IMMEDIATE and its commit holds the lock.
LockIsHeld ==
    \A p \in Procs : sproc[p].at \in {"locked", "run", "commit"} => slock = p

\* No process skips a migration, and one that runs is still needed.
NextInOrder ==
    \A p \in Procs :
        /\ sproc[p].at \in {"next", "locked", "run", "commit"} => sproc[p].m <= sdb.version + 1
        /\ sproc[p].at \in {"run", "commit"} => sdb.version < sproc[p].m

RanInOrder == sdb.ran = [i \in 1..sdb.version |-> i]

LeavesEnforcing == \A p \in Procs : sproc[p].at \in {"ready", "refused"} => sproc[p].fk

StorageInv == STypeOK /\ LockIsHeld /\ NextInOrder /\ LeavesEnforcing /\ RanInOrder

\* The list of the first n migrations, and one more.
LEMMA OneMore ==
    ASSUME NEW n \in Nat
    PROVE  Append([i \in 1..n |-> i], n + 1) = [i \in 1..(n + 1) |-> i]
<1> DEFINE s == [i \in 1..n |-> i]
<1>1. s \in Seq(Nat) /\ Len(s) = n
  OBVIOUS
<1>2. Append(s, n + 1) = [i \in 1..(Len(s) + 1) |-> IF i = Len(s) + 1 THEN n + 1 ELSE s[i]]
  BY <1>1
<1> QED BY <1>1, <1>2

\* Pruning leaves a list of rows.
LEMMA PrunedIsRows ==
    ASSUME NEW s \in Seq(Nat), Len(s) > Cap
    PROVE  Pruned(s) \in Seq(Nat)
<1>1. Min({Batch, Len(s)}) \in Nat
  <2>1. \E x \in {Batch, Len(s)} : \A y \in {Batch, Len(s)} : x <= y
    BY StorageAssumption
  <2> QED BY <2>1, StorageAssumption DEF Min
<1> DEFINE k == Min({Batch, Len(s)})
<1>2. k \in 0..Len(s)
  <2>1. \E x \in {Batch, Len(s)} : \A y \in {Batch, Len(s)} : x <= y
    BY StorageAssumption
  <2> QED BY <1>1, <2>1, StorageAssumption DEF Min
<1> HIDE DEF k
<1>3. SubSeq(s, k + 1, Len(s)) \in Seq(Nat)
  BY <1>2, SubSeqProperties
<1> QED BY <1>3 DEF Pruned, k

\* A new file has run nothing.
LEMMA StorageInitInv == SInit => StorageInv
BY DEF SInit, StorageInv, STypeOK, LockIsHeld, NextInOrder, RanInOrder, LeavesEnforcing, Closed,
       Connection

\* What is to be shown of a step of p that leaves the file alone: its own connection is
\* as it should be, and the lock of another is not taken away.
LEMMA QuietStep ==
    ASSUME StorageInv, NEW p \in Procs, NEW c \in Connection,
           sproc' = [sproc EXCEPT ![p] = c], sdb' = sdb, sdied' \in Nat,
           slock' \in {slock, "none", p}, slock \in {slock', "none", p},
           c.at \in {"locked", "run", "commit"} => slock' = p,
           c.at \in {"next", "locked", "run", "commit"} => c.m <= sdb.version + 1,
           c.at \in {"run", "commit"} => sdb.version < c.m,
           c.at \in {"ready", "refused"} => c.fk
    PROVE  StorageInv'
<1>1. sproc' \in [Procs -> Connection] /\ \A q \in Procs : sproc'[q] = IF q = p THEN c ELSE sproc[q]
  BY DEF StorageInv, STypeOK
<1>2. STypeOK'
  BY <1>1 DEF StorageInv, STypeOK
<1>3. LockIsHeld'
  BY <1>1, StorageAssumption DEF StorageInv, STypeOK, LockIsHeld
<1>4. NextInOrder'
  BY <1>1 DEF StorageInv, NextInOrder
<1>5. LeavesEnforcing'
  BY <1>1 DEF StorageInv, LeavesEnforcing
<1> QED BY <1>2, <1>3, <1>4, <1>5 DEF StorageInv, RanInOrder

\* A step that leaves the connections alone.
LEMMA UseStep ==
    ASSUME StorageInv, NEW rows \in Seq(Nat), NEW next \in Nat,
           sdb' = [sdb EXCEPT !.rows = rows, !.next = next], UNCHANGED <<slock, sproc, sdied>>
    PROVE  StorageInv'
<1>1. /\ sdb' \in [version : Nat, ran : Seq(Nat), rows : Seq(Nat), next : Nat]
      /\ sdb'.version = sdb.version /\ sdb'.ran = sdb.ran
  BY DEF StorageInv, STypeOK
<1> QED BY <1>1 DEF StorageInv, STypeOK, LockIsHeld, NextInOrder, LeavesEnforcing, RanInOrder

\* Every step of every process preserves it.
LEMMA StorageNextInv == StorageInv /\ [SNext]_svars => StorageInv'
<1> SUFFICES ASSUME StorageInv, [SNext]_svars PROVE StorageInv'
  OBVIOUS
<1>0. CASE UNCHANGED svars
  BY <1>0 DEF StorageInv, svars, STypeOK, LockIsHeld, NextInOrder, RanInOrder, LeavesEnforcing
<1> SUFFICES ASSUME NEW p \in Procs,
                    \/ OpenDb(p) \/ MigrateStart(p) \/ BeginImmediate(p) \/ UnderLock(p)
                    \/ RunSql(p) \/ CommitMigration(p) \/ MigrateDone(p)
                    \/ InsertRow(p) \/ PruneBatch(p) \/ Dies(p)
             PROVE  StorageInv'
  BY <1>0 DEF SNext
<1> DEFINE c == sproc[p]
<1>c. /\ c \in Connection /\ c.cur \in Nat /\ c.m \in Nat /\ c.fk \in BOOLEAN
      /\ sdb.version \in Nat /\ sdied \in Nat /\ c.m + 1 \in Nat /\ sdb.version + 1 \in Nat
      /\ slock \in Procs \cup {"none"}
      /\ Closed \in Connection /\ Closed.at = "closed"
  BY DEF StorageInv, STypeOK, Connection, Closed
<1>d. /\ c.at \in {"locked", "run", "commit"} => slock = p
      /\ c.at \in {"next", "locked", "run", "commit"} => c.m <= sdb.version + 1
      /\ c.at \in {"run", "commit"} => sdb.version < c.m
  BY DEF StorageInv, LockIsHeld, NextInOrder
<1>f. ASSUME MigrateFails(p), UNCHANGED <<sdb, sdied>> PROVE StorageInv'
  <2> DEFINE d == [c EXCEPT !.at = "refused", !.fk = TRUE]
  <2>1. d \in Connection /\ d.at = "refused" /\ d.fk
    BY <1>c DEF Connection
  <2>2. sproc' = [sproc EXCEPT ![p] = d]
    BY <1>f, <2>1 DEF MigrateFails
  <2> QED BY <1>f, <1>c, <2>1, <2>2, QuietStep DEF MigrateFails
<1>1. CASE OpenDb(p)
  <2> DEFINE d == [Closed EXCEPT !.at = "open", !.fk = TRUE]
  <2>1. d \in Connection /\ d.at = "open"
    BY <1>c DEF Connection
  <2>2. PICK e \in {d, Closed} : sproc' = [sproc EXCEPT ![p] = e]
    BY <1>1, <2>1 DEF OpenDb
  <2>3. e \in Connection /\ e.at \in {"open", "closed"}
    BY <2>1, <1>c
  <2> QED BY <1>1, <1>c, <2>2, <2>3, QuietStep DEF OpenDb
<1>2. CASE MigrateStart(p)
  <2> DEFINE d == [c EXCEPT !.at = "next", !.cur = sdb.version, !.m = sdb.version + 1]
  <2>1. d \in Connection /\ d.at = "next" /\ d.m = sdb.version + 1
    BY <1>c DEF Connection
  <2>2. CASE sdb.version > CodeVersion[p]
    BY <1>2, <1>f, <2>2 DEF MigrateStart
  <2>3. CASE ~(sdb.version > CodeVersion[p])
    <3>1. sproc' = [sproc EXCEPT ![p] = d] /\ UNCHANGED <<sdb, slock, sdied>>
      BY <1>2, <2>3 DEF MigrateStart
    <3>2. d.m <= sdb.version + 1
      BY <1>c, <2>1
    <3> HIDE DEF d
    <3> QED BY <1>c, <2>1, <3>1, <3>2, QuietStep
  <2> QED BY <2>2, <2>3
<1>3. CASE BeginImmediate(p)
  <2> DEFINE d == [c EXCEPT !.at = "locked", !.fk = FALSE]
  <2>1. d \in Connection /\ d.at = "locked" /\ d.m = c.m
    BY <1>c DEF Connection
  <2>2. CASE slock # "none"
    BY <1>3, <1>f, <2>2 DEF BeginImmediate
  <2>3. CASE slock = "none"
    <3>1. slock' = p /\ sproc' = [sproc EXCEPT ![p] = d] /\ UNCHANGED <<sdb, sdied>>
      BY <1>3, <2>1, <2>3 DEF BeginImmediate
    <3>2. d.m <= sdb.version + 1
      BY <1>3, <1>d DEF BeginImmediate
    <3> QED BY <1>c, <2>1, <2>3, <3>1, <3>2, QuietStep
  <2> QED BY <2>2, <2>3
<1>4. CASE UnderLock(p)
  <2>1. CASE sdb.version > CodeVersion[p]
    BY <1>4, <1>f, <2>1 DEF UnderLock
  <2>2. CASE ~(sdb.version > CodeVersion[p]) /\ StillNeeded(p)
    <3> DEFINE d == [c EXCEPT !.at = "run"]
    <3>1. d \in Connection /\ d.at = "run" /\ d.m = c.m
      BY <1>c DEF Connection
    <3>2. sproc' = [sproc EXCEPT ![p] = d] /\ UNCHANGED <<sdb, slock, sdied>>
      BY <1>4, <2>2, <3>1 DEF UnderLock
    <3>3. slock = p /\ d.m <= sdb.version + 1 /\ sdb.version < d.m
      BY <1>4, <1>d, <2>2 DEF UnderLock, StillNeeded
    <3> QED BY <1>c, <3>1, <3>2, <3>3, QuietStep
  <2>3. CASE ~(sdb.version > CodeVersion[p]) /\ ~StillNeeded(p)
    <3> DEFINE d == [c EXCEPT !.at = "next", !.m = c.m + 1]
    <3>1. d \in Connection /\ d.at = "next" /\ d.m = c.m + 1
      BY <1>c DEF Connection
    <3>2. sproc' = [sproc EXCEPT ![p] = d] /\ slock' = "none" /\ UNCHANGED <<sdb, sdied>>
      BY <1>4, <2>3 DEF UnderLock
    <3>3. slock = p /\ d.m <= sdb.version + 1
      BY <1>4, <1>c, <1>d, <2>3 DEF UnderLock, StillNeeded
    <3> QED BY <1>c, <3>1, <3>2, <3>3, QuietStep
  <2> QED BY <2>1, <2>2, <2>3
<1>5. CASE RunSql(p)
  <2> DEFINE d == [c EXCEPT !.at = "commit"]
  <2>1. d \in Connection /\ d.at = "commit" /\ d.m = c.m
    BY <1>c DEF Connection
  <2>2. \/ MigrateFails(p) /\ UNCHANGED <<sdb, sdied>>
        \/ sproc' = [sproc EXCEPT ![p] = d] /\ UNCHANGED <<sdb, slock, sdied>>
    BY <1>5, <2>1 DEF RunSql
  <2>3. slock = p /\ d.m <= sdb.version + 1 /\ sdb.version < d.m
    BY <1>5, <1>d DEF RunSql
  <2> QED BY <1>c, <1>f, <2>1, <2>2, <2>3, QuietStep
<1>6. CASE CommitMigration(p)
  <2> DEFINE d == [c EXCEPT !.at = "next", !.m = c.m + 1]
  <2>1. d \in Connection /\ d.at = "next" /\ d.m = c.m + 1
    BY <1>c DEF Connection
  <2>2. slock = p /\ c.m = sdb.version + 1
    BY <1>6, <1>c, <1>d DEF CommitMigration
  <2>3. /\ sdb' \in [version : Nat, ran : Seq(Nat), rows : Seq(Nat), next : Nat]
        /\ sdb'.version = sdb.version + 1 /\ sdb'.ran = Append(sdb.ran, sdb.version + 1)
    <3>1. sdb.version + 1 \in Nat /\ Append(sdb.ran, sdb.version + 1) \in Seq(Nat)
      BY <1>c DEF StorageInv, STypeOK
    <3>2. sdb' = [sdb EXCEPT !.version = sdb.version + 1, !.ran = Append(sdb.ran, sdb.version + 1)]
      BY <1>6, <2>2 DEF CommitMigration
    <3> QED BY <3>1, <3>2 DEF StorageInv, STypeOK
  <2>4. /\ sproc' \in [Procs -> Connection]
        /\ \A q \in Procs : sproc'[q] = IF q = p THEN d ELSE sproc[q]
    <3>1. sproc' = [sproc EXCEPT ![p] = d]
      BY <1>6 DEF CommitMigration
    <3> HIDE DEF d
    <3> QED BY <2>1, <3>1 DEF StorageInv, STypeOK
  <2> HIDE DEF d
  <2>5. STypeOK'
    BY <1>6, <2>3, <2>4 DEF CommitMigration, StorageInv, STypeOK
  <2>6. \A q \in Procs \ {p} : sproc[q].at \notin {"locked", "run", "commit"}
    BY <2>2 DEF StorageInv, LockIsHeld
  <2>7. LockIsHeld'
    BY <2>1, <2>4, <2>6 DEF LockIsHeld
  <2>8. NextInOrder'
    <3>1. \A q \in Procs : sproc[q].m \in Nat
      BY DEF StorageInv, STypeOK, Connection
    <3>2. d.m = sdb.version + 2 /\ d.at = "next"
      BY <2>1, <2>2, <1>c
    <3>3. \A q \in Procs \ {p} : sproc[q].at = "next" => sproc[q].m <= sdb.version + 2
      BY <1>c, <3>1 DEF StorageInv, NextInOrder
    <3>4. sdb'.version + 1 = sdb.version + 2
      BY <1>c, <2>3
    <3>5. \A q \in Procs : sproc'[q].at \notin {"locked", "run", "commit"}
      BY <2>1, <2>4, <2>6
    <3>6. \A q \in Procs : sproc'[q].at = "next" => sproc'[q].m <= sdb.version + 2
      BY <1>c, <2>4, <3>2, <3>3
    <3> QED BY <3>4, <3>5, <3>6 DEF NextInOrder
  <2>9. LeavesEnforcing'
    BY <2>1, <2>4 DEF StorageInv, LeavesEnforcing
  <2>10. RanInOrder'
    BY <1>c, <2>3, OneMore DEF StorageInv, RanInOrder
  <2> QED BY <2>5, <2>7, <2>8, <2>9, <2>10 DEF StorageInv
<1>7. CASE MigrateDone(p)
  <2> DEFINE d == [c EXCEPT !.at = "ready", !.fk = TRUE]
  <2>1. d \in Connection /\ d.at = "ready" /\ d.fk
    BY <1>c DEF Connection
  <2>2. CASE sdb.version > CodeVersion[p]
    BY <1>7, <1>f, <2>2 DEF MigrateDone
  <2>3. CASE ~(sdb.version > CodeVersion[p])
    <3>1. sproc' = [sproc EXCEPT ![p] = d] /\ UNCHANGED <<sdb, slock, sdied>>
      BY <1>7, <2>1, <2>3 DEF MigrateDone
    <3> HIDE DEF d
    <3> QED BY <1>c, <2>1, <3>1, QuietStep
  <2> QED BY <2>2, <2>3
<1>8. CASE InsertRow(p)
  <2>1. Append(sdb.rows, sdb.next) \in Seq(Nat) /\ sdb.next + 1 \in Nat
    BY DEF StorageInv, STypeOK
  <2> QED BY <1>8, <2>1, UseStep DEF InsertRow
<1>9. CASE PruneBatch(p)
  <2>1. Pruned(sdb.rows) \in Seq(Nat) /\ sdb.next \in Nat
    BY <1>9, PrunedIsRows DEF PruneBatch, StorageInv, STypeOK
  <2>2. sdb' = [sdb EXCEPT !.rows = Pruned(sdb.rows), !.next = sdb.next]
    BY <1>9 DEF PruneBatch, StorageInv, STypeOK
  <2> QED BY <1>9, <2>1, <2>2, UseStep DEF PruneBatch
<1>10. CASE Dies(p)
  <2>1. sdied' \in Nat /\ sdb' = sdb /\ sproc' = [sproc EXCEPT ![p] = Closed]
    BY <1>10, <1>c DEF Dies
  <2> QED BY <1>10, <1>c, <2>1, QuietStep DEF Dies
<1> QED BY <1>1, <1>2, <1>3, <1>4, <1>5, <1>6, <1>7, <1>8, <1>9, <1>10

\* migrate: however many processes of whatever builds open one file, and whichever of
\* them die or give up, every migration is applied once and in order, and a connection
\* that leaves migrate enforces foreign keys.
THEOREM MigrationsRunOnce == SSpec => []SMigrationsRunOnce
<1>1. StorageInv => SMigrationsRunOnce
  BY DEF StorageInv, SMigrationsRunOnce, RanInOrder, LeavesEnforcing
<1> QED BY <1>1, StorageInitInv, StorageNextInv, PTL DEF SSpec

-----------------------------------------------------------------------------
(* ServiceVisitor.  A page that was loaded beside no request without a cookie *)
(* has the jar's token in its form, and no such request is left to change it. *)

Kinds == {"none", "page", "post", "miss"}
Statuses == {0, 200, 302, 400, 403, 404}
TabLoads == [at : {"none", "asked", "answered"}, kind : Kinds, csrf : Nat, field : Nat,
             status : Statuses, cookie : Nat, form : Nat, crossed : BOOLEAN]

QTypeOK ==
    /\ qjar \in Nat
    /\ qload \in [QTabs -> TabLoads]
    /\ qpage \in [QTabs -> [form : Nat, crossed : BOOLEAN]]
    /\ qnext \in Nat \ {0}

\* What comes back brings a cookie only when none was sent, and a form only with the
\* token that the visitor has then.
AnswerAgrees(k) ==
    /\ k.at = "asked" => k.kind # "none" /\ k.cookie = 0 /\ k.form = 0 /\ (k.kind = "page" => k.field = 0)
    /\ k.cookie # 0 => k.csrf = 0
    /\ k.form # 0 => k.form = (IF k.csrf # 0 THEN k.csrf ELSE k.cookie)

\* Nobody else's cookie is coming.
NoneElse(t) == \A u \in QTabs \ {t} : ~First(qload[u])

LoadAgrees(t, k) ==
    /\ AnswerAgrees(k)
    /\ k.at # "none" /\ ~k.crossed => k.csrf = qjar /\ NoneElse(t)
    /\ k.csrf # 0 => qjar # 0
    /\ k.at # "none" /\ k.kind = "post" => k.field # 0 /\ (~qpage[t].crossed => k.csrf = k.field)

LoadsAgree == \A t \in QTabs : LoadAgrees(t, qload[t])

PageAgrees(p) == p.form # 0 /\ ~p.crossed => p.form = qjar /\ \A u \in QTabs : ~First(qload[u])

PagesAgree == \A t \in QTabs : PageAgrees(qpage[t])

VisitorInv == QTypeOK /\ LoadsAgree /\ PagesAgree /\ QOwnFormsAreAccepted

\* Nothing is under way in a tab at rest.
LEMMA IdleAgrees ==
  /\ QIdle \in TabLoads /\ QIdle.at = "none" /\ ~First(QIdle)
  /\ AnswerAgrees(QIdle) /\ \A t : LoadAgrees(t, QIdle)
BY DEF QIdle, TabLoads, Kinds, Statuses, AnswerAgrees, LoadAgrees, First

\* A browser that has not been here has nothing.
LEMMA VisitorInitInv == QInit => VisitorInv
BY IdleAgrees DEF QInit, VisitorInv, QTypeOK, LoadsAgree, PagesAgree, PageAgrees, QOwnFormsAreAccepted

\* A step of one tab that leaves the jar alone and begins no request.
LEMMA TabStep ==
  ASSUME QTypeOK, LoadsAgree, PagesAgree, NEW t \in QTabs, NEW k \in TabLoads, NEW p \in [form : Nat, crossed : BOOLEAN],
         qload' = [qload EXCEPT ![t] = k], qpage' = [qpage EXCEPT ![t] = p], qjar' \in Nat, qnext' \in Nat \ {0},
         First(k) => First(qload[t]),
         qjar' = qjar \/ (First(qload[t]) /\ ~First(k) /\ qjar' # 0),
         LoadAgrees(t, k)', PageAgrees(p)'
  PROVE  QTypeOK' /\ LoadsAgree' /\ PagesAgree'
<1>1. /\ qload'[t] = k /\ \A u \in QTabs \ {t} : qload'[u] = qload[u]
      /\ qpage'[t] = p /\ \A u \in QTabs \ {t} : qpage'[u] = qpage[u]
  BY DEF QTypeOK
<1>2. QTypeOK'
  BY DEF QTypeOK
<1>3. \A u \in QTabs : First(qload'[u]) => First(qload[u])
  BY <1>1
<1>4. ASSUME NEW u \in QTabs \ {t}, qload[u].at # "none", ~qload[u].crossed PROVE qjar' = qjar /\ qload[u].csrf = qjar
  <2>1. LoadAgrees(u, qload[u])
    BY DEF LoadsAgree
  <2>2. qload[u].csrf = qjar /\ ~First(qload[t])
    BY <1>4, <2>1 DEF LoadAgrees, NoneElse
  <2> QED BY <2>2
<1>5. ASSUME NEW u \in QTabs PROVE LoadAgrees(u, qload[u])'
  <2>1. CASE u = t
    BY <1>1, <2>1 DEF LoadAgrees, NoneElse, AnswerAgrees
  <2>2. CASE u # t
    <3>1. qload'[u] = qload[u] /\ qpage'[u] = qpage[u] /\ LoadAgrees(u, qload[u])
      BY <1>1, <2>2 DEF LoadsAgree
    <3>2. AnswerAgrees(qload[u])
      BY <3>1 DEF LoadAgrees
    <3>3. qload[u].at # "none" /\ ~qload[u].crossed => qload[u].csrf = qjar' /\ NoneElse(u)'
      <4> SUFFICES ASSUME qload[u].at # "none", ~qload[u].crossed PROVE qload[u].csrf = qjar' /\ NoneElse(u)'
        OBVIOUS
      <4>1. qload[u].csrf = qjar' 
        BY <1>4, <2>2
      <4>2. NoneElse(u)
        BY <3>1 DEF LoadAgrees
      <4>3. ASSUME NEW v \in QTabs \ {u} PROVE ~First(qload'[v])
        BY <1>3, <4>2 DEF NoneElse
      <4> QED BY <4>1, <4>3 DEF NoneElse, First
    <3>4. qload[u].csrf # 0 => qjar' # 0
      BY <3>1 DEF LoadAgrees
    <3>5. qload[u].at # "none" /\ qload[u].kind = "post" =>
              qload[u].field # 0 /\ (~qpage[u].crossed => qload[u].csrf = qload[u].field)
      BY <3>1 DEF LoadAgrees
    <3> QED BY <3>1, <3>2, <3>3, <3>4, <3>5 DEF LoadAgrees, AnswerAgrees
  <2> QED BY <2>1, <2>2
<1>6. ASSUME NEW u \in QTabs PROVE PageAgrees(qpage[u])'
  <2>1. CASE u = t
    BY <1>1, <2>1 DEF PageAgrees, First
  <2>2. CASE u # t
    <3>1. qpage'[u] = qpage[u] /\ PageAgrees(qpage[u])
      BY <1>1, <2>2 DEF PagesAgree
    <3>2. ASSUME qpage[u].form # 0, ~qpage[u].crossed
          PROVE  qpage[u].form = qjar' /\ \A v \in QTabs : ~First(qload'[v])
      BY <1>3, <3>1, <3>2 DEF PageAgrees
    <3> QED BY <3>1, <3>2 DEF PageAgrees, First
  <2> QED BY <2>1, <2>2
<1> QED BY <1>2, <1>5, <1>6 DEF LoadsAgree, PagesAgree

\* The page of a tab is left alone.
LEMMA PageKept ==
  ASSUME QTypeOK, NEW t \in QTabs, qpage' = qpage
  PROVE  qpage' = [qpage EXCEPT ![t] = qpage[t]] /\ qpage[t] \in [form : Nat, crossed : BOOLEAN]
BY DEF QTypeOK

\* An answer is made of a request that is under way.
LEMMA ServeStep ==
  ASSUME VisitorInv, NEW t \in QTabs, QServe(t) PROVE VisitorInv'
<1>0. QTypeOK /\ LoadsAgree /\ PagesAgree /\ ~qtold
  BY DEF VisitorInv, QOwnFormsAreAccepted
<1>1. PICK r : r = qload[t]
  OBVIOUS
<1>2. /\ r \in TabLoads /\ r.at = "asked" /\ LoadAgrees(t, r) /\ AnswerAgrees(r) /\ PageAgrees(qpage[t])
      /\ qpage[t].crossed \in BOOLEAN
  BY <1>0, <1>1 DEF QServe, QTypeOK, LoadsAgree, LoadAgrees, PagesAgree
<1>3. PICK c, f, s : c = CsrfCookie(r) /\ f = (IF r.kind = "page" THEN PageToken(r) ELSE 0) /\ s = Status(r)
  OBVIOUS
<1>4. r.csrf \in Nat /\ r.field \in Nat /\ qnext \in Nat \ {0} /\ r.kind \in {"page", "post", "miss"} /\ qjar \in Nat
  BY <1>0, <1>2 DEF QTypeOK, TabLoads, Kinds, AnswerAgrees
<1>5. /\ c \in Nat /\ f \in Nat /\ (c # 0 => r.csrf = 0)
      /\ (f # 0 => f = (IF r.csrf # 0 THEN r.csrf ELSE c))
  BY <1>2, <1>3, <1>4 DEF CsrfCookie, PageToken, AnswerAgrees
<1>6. s \in {200, 302, 403, 404}
  BY <1>3, <1>4 DEF Status
<1>7. s = 403 => qpage[t].crossed
  <2> SUFFICES ASSUME s = 403, ~qpage[t].crossed PROVE FALSE
    BY <1>2
  <2>1. r.kind = "post" /\ ~VerifyCsrf(r)
    BY <1>3, <1>4 DEF Status
  <2>2. r.field # 0 /\ r.csrf = r.field
    BY <1>2, <2>1 DEF LoadAgrees
  <2> QED BY <2>1, <2>2 DEF VerifyCsrf, PageToken
<1>8. PICK k : k = [r EXCEPT !.at = "answered", !.status = s, !.cookie = c, !.form = f]
  OBVIOUS
<1>9. /\ k \in TabLoads /\ k.at = "answered" /\ k.kind = r.kind /\ k.csrf = r.csrf /\ k.field = r.field
      /\ k.cookie = c /\ k.form = f /\ k.crossed = r.crossed
  <2>1. s \in Statuses /\ "answered" \in {"none", "asked", "answered"}
    BY <1>6 DEF Statuses
  <2>2. k \in TabLoads
    BY <1>2, <1>5, <1>8, <2>1 DEF TabLoads
  <2> QED BY <1>2, <1>8, <2>2 DEF TabLoads
<1>10. qload' = [qload EXCEPT ![t] = k] /\ qpage' = qpage /\ qjar' = qjar
  <2>1. qload' = [qload EXCEPT ![t] = [qload[t] EXCEPT !.at = "answered", !.status = Status(qload[t]),
                                       !.cookie = CsrfCookie(qload[t]),
                                       !.form = IF qload[t].kind = "page" THEN PageToken(qload[t]) ELSE 0]]
    BY Zenon DEF QServe
  <2> QED BY <1>1, <1>3, <1>8, <2>1 DEF QServe
<1>11. qnext' \in Nat \ {0}
  BY <1>4 DEF QServe
<1>12. First(k) <=> First(qload[t])
  BY <1>1, <1>2, <1>9 DEF First
<1>13. \A u \in QTabs : First(qload'[u]) <=> First(qload[u])
  BY <1>0, <1>10, <1>12 DEF QTypeOK
<1>14. LoadAgrees(t, k)'
  <2>1. AnswerAgrees(k)
    BY <1>5, <1>9 DEF AnswerAgrees
  <2>2. k.at # "none" /\ ~k.crossed => k.csrf = qjar' /\ NoneElse(t)'
    <3> SUFFICES ASSUME ~k.crossed PROVE k.csrf = qjar' /\ NoneElse(t)'
      OBVIOUS
    <3>1. r.csrf = qjar /\ NoneElse(t)
      BY <1>2, <1>9 DEF LoadAgrees
    <3>2. \A u \in QTabs \ {t} : ~First(qload'[u])
      BY <1>13, <3>1 DEF NoneElse
    <3> QED BY <1>9, <1>10, <3>1, <3>2 DEF NoneElse, First
  <2>3. (k.csrf # 0 => qjar' # 0) /\ (k.kind = "post" => k.field # 0 /\ (~qpage'[t].crossed => k.csrf = k.field))
    BY <1>2, <1>9, <1>10 DEF LoadAgrees
  <2> QED BY <2>1, <2>2, <2>3 DEF LoadAgrees, AnswerAgrees
<1>15. PageAgrees(qpage[t])'
  BY <1>2, <1>10, <1>13 DEF PageAgrees, First
<1>16. QTypeOK' /\ LoadsAgree' /\ PagesAgree'
  <2>0. PICK p : p = qpage[t]
    OBVIOUS
  <2>1. qpage' = [qpage EXCEPT ![t] = p] /\ p \in [form : Nat, crossed : BOOLEAN] /\ qjar' \in Nat
    BY <1>0, <1>4, <1>10, <2>0, PageKept
  <2>2. PageAgrees(p)'
    BY <1>10, <1>15, <2>0 DEF PageAgrees, First
  <2> QED BY <1>0, <1>9, <1>10, <1>11, <1>12, <1>14, <2>1, <2>2, TabStep
<1>17. QOwnFormsAreAccepted'
  <2>1. qtold' = (qtold \/ (Status(qload[t]) = 403 /\ ~qpage[t].crossed))
    BY DEF QServe
  <2>2. ~(Status(qload[t]) = 403 /\ ~qpage[t].crossed)
    BY <1>1, <1>3, <1>7
  <2> QED BY <1>0, <2>1, <2>2, Zenon DEF QOwnFormsAreAccepted
<1> QED BY <1>16, <1>17 DEF VisitorInv

\* An error is written before the cookie.
LEMMA RefusedStep ==
  ASSUME VisitorInv, NEW t \in QTabs, QServeRefused(t) PROVE VisitorInv'
<1>0. QTypeOK /\ LoadsAgree /\ PagesAgree /\ QOwnFormsAreAccepted
  BY DEF VisitorInv
<1>1. PICK r, p : r = qload[t] /\ p = qpage[t]
  OBVIOUS
<1>2. r \in TabLoads /\ r.at = "asked" /\ LoadAgrees(t, r) /\ AnswerAgrees(r) /\ PageAgrees(p)
  BY <1>0, <1>1 DEF QServeRefused, QTypeOK, LoadsAgree, LoadAgrees, PagesAgree
<1>3. PICK k : k = [r EXCEPT !.at = "answered", !.status = 400]
  OBVIOUS
<1>4. /\ k \in TabLoads /\ k.at = "answered" /\ k.kind = r.kind /\ k.csrf = r.csrf /\ k.field = r.field
      /\ k.cookie = r.cookie /\ k.form = r.form /\ k.crossed = r.crossed
  <2>0. PICK s : s = 400
    OBVIOUS
  <2>1. s \in Statuses /\ "answered" \in {"none", "asked", "answered"}
    BY <2>0 DEF Statuses
  <2>2. k \in TabLoads
    <3>1. k = [r EXCEPT !.at = "answered", !.status = s]
      BY <1>3, <2>0
    <3> QED BY <1>2, <2>1, <3>1 DEF TabLoads
  <2> QED BY <1>2, <1>3, <2>2 DEF TabLoads
<1>5. qload' = [qload EXCEPT ![t] = k] /\ qpage' = qpage /\ qjar' = qjar /\ qnext' = qnext /\ qtold' = qtold
  BY <1>1, <1>3 DEF QServeRefused
<1>6. First(k) <=> First(qload[t])
  BY <1>1, <1>2, <1>4 DEF First
<1>7. \A u \in QTabs : First(qload'[u]) <=> First(qload[u])
  BY <1>0, <1>5, <1>6 DEF QTypeOK
<1>8. LoadAgrees(t, k)'
  <2>1. AnswerAgrees(k)
    BY <1>2, <1>4 DEF AnswerAgrees
  <2>2. ~k.crossed => k.csrf = qjar' /\ NoneElse(t)'
    <3> SUFFICES ASSUME ~k.crossed PROVE k.csrf = qjar' /\ NoneElse(t)'
      OBVIOUS
    <3>1. r.csrf = qjar /\ NoneElse(t)
      BY <1>2, <1>4 DEF LoadAgrees
    <3>2. \A u \in QTabs \ {t} : ~First(qload'[u])
      BY <1>7, <3>1 DEF NoneElse
    <3> QED BY <1>4, <1>5, <3>1, <3>2 DEF NoneElse, First
  <2>3. (k.csrf # 0 => qjar' # 0) /\ (k.kind = "post" => k.field # 0 /\ (~qpage'[t].crossed => k.csrf = k.field))
    BY <1>1, <1>2, <1>4, <1>5 DEF LoadAgrees
  <2> QED BY <2>1, <2>2, <2>3 DEF LoadAgrees, AnswerAgrees
<1>9. PageAgrees(p)'
  BY <1>2, <1>5, <1>7 DEF PageAgrees, First
<1>10. qpage' = [qpage EXCEPT ![t] = p] /\ p \in [form : Nat, crossed : BOOLEAN] /\ qjar' \in Nat /\ qnext' \in Nat \ {0}
  <2>1. qjar \in Nat /\ qnext \in Nat \ {0}
    BY <1>0 DEF QTypeOK
  <2> QED BY <1>0, <1>1, <1>5, <2>1, PageKept
<1>11. QTypeOK' /\ LoadsAgree' /\ PagesAgree'
  BY <1>0, <1>4, <1>5, <1>6, <1>8, <1>9, <1>10, TabStep
<1> QED BY <1>0, <1>5, <1>11 DEF VisitorInv, QOwnFormsAreAccepted

\* A tab is at rest again, with its page or a new one.
LEMMA EndStep ==
  ASSUME VisitorInv, NEW t \in QTabs, QReceive(t) \/ QLoseReply(t) PROVE VisitorInv'
<1>0. QTypeOK /\ LoadsAgree /\ PagesAgree /\ QOwnFormsAreAccepted
  BY DEF VisitorInv
<1>1. PICK r : r = qload[t]
  OBVIOUS
<1>2. r \in TabLoads /\ r.at = "answered" /\ LoadAgrees(t, r) /\ AnswerAgrees(r)
  BY <1>0, <1>1 DEF QReceive, QLoseReply, QTypeOK, LoadsAgree, LoadAgrees
<1>3. qload' = [qload EXCEPT ![t] = QIdle] /\ qnext' = qnext /\ qtold' = qtold
  BY DEF QReceive, QLoseReply
<1>4. \A u \in QTabs : First(qload'[u]) => First(qload[u]) /\ u # t
  BY <1>0, <1>3, IdleAgrees DEF QTypeOK
<1>5. LoadAgrees(t, QIdle)' /\ QIdle \in TabLoads /\ ~First(QIdle)
  BY IdleAgrees DEF LoadAgrees, AnswerAgrees, QIdle
<1>6. qjar \in Nat /\ qnext' \in Nat \ {0} /\ r.cookie \in Nat /\ r.form \in Nat /\ r.csrf \in Nat /\ r.crossed \in BOOLEAN
  BY <1>0, <1>2, <1>3 DEF QTypeOK, TabLoads
<1>7. CASE QLoseReply(t)
  <2>0. PICK p : p = qpage[t]
    OBVIOUS
  <2>1. qpage' = qpage /\ qjar' = qjar
    BY <1>7 DEF QLoseReply
  <2>2. PageAgrees(p)'
    <3>1. PageAgrees(p)
      BY <1>0, <2>0 DEF PagesAgree
    <3> QED BY <1>4, <2>1, <3>1 DEF PageAgrees, First
  <2>3. qpage' = [qpage EXCEPT ![t] = p] /\ p \in [form : Nat, crossed : BOOLEAN] /\ qjar' \in Nat
    BY <1>0, <1>6, <2>0, <2>1, PageKept
  <2>4. QTypeOK' /\ LoadsAgree' /\ PagesAgree'
    BY <1>0, <1>3, <1>5, <1>6, <2>1, <2>2, <2>3, TabStep
  <2> QED BY <1>0, <1>3, <2>4 DEF VisitorInv, QOwnFormsAreAccepted
<1>8. CASE QReceive(t)
  <2>0. PICK p : p = [form |-> r.form, crossed |-> r.crossed]
    OBVIOUS
  <2>1. /\ qpage' = [qpage EXCEPT ![t] = p] /\ p \in [form : Nat, crossed : BOOLEAN]
        /\ p.form = r.form /\ p.crossed = r.crossed
        /\ qjar' = IF r.cookie # 0 THEN r.cookie ELSE qjar
    BY <1>1, <1>6, <1>8, <2>0 DEF QReceive
  <2>2. qjar' \in Nat /\ (qjar' = qjar \/ (First(qload[t]) /\ qjar' # 0))
    BY <1>1, <1>2, <1>6, <2>1 DEF First, AnswerAgrees
  <2>3. PageAgrees(p)'
    <3> SUFFICES ASSUME r.form # 0, ~r.crossed PROVE r.form = qjar' /\ \A u \in QTabs : ~First(qload'[u])
      BY <2>1 DEF PageAgrees, First
    <3>1. r.csrf = qjar /\ NoneElse(t)
      BY <1>2 DEF LoadAgrees
    <3>2. r.form = qjar'
      BY <1>2, <1>6, <2>1, <3>1 DEF AnswerAgrees
    <3> QED BY <1>4, <3>1, <3>2 DEF NoneElse
  <2>4. QTypeOK' /\ LoadsAgree' /\ PagesAgree'
    BY <1>0, <1>3, <1>5, <1>6, <2>1, <2>2, <2>3, TabStep
  <2> QED BY <1>0, <1>3, <2>4 DEF VisitorInv, QOwnFormsAreAccepted
<1> QED BY <1>7, <1>8

\* A request begins with the jar's cookie, and with the form's token when it is a post.
LEMMA SendStep ==
  ASSUME VisitorInv, NEW t \in QTabs, QOpen(t) \/ QSubmit(t) PROVE VisitorInv'
<1>0. QTypeOK /\ LoadsAgree /\ PagesAgree /\ QOwnFormsAreAccepted
  BY DEF VisitorInv
<1>1. PICK kind \in {"page", "post", "miss"}, field \in Nat :
         /\ QSend(kind, t, field)
         /\ kind = "post" => field # 0 /\ field = qpage[t].form
         /\ kind # "post" => field = 0
  BY <1>0 DEF QOpen, QSubmit, QTypeOK
<1>2. PICK x : x = \E v \in QTabs \ {t} : First(qload[v])
  OBVIOUS
<1>3. PICK k : k = [QIdle EXCEPT !.at = "asked", !.kind = kind, !.csrf = qjar, !.field = field, !.crossed = x]
  OBVIOUS
<1>4. /\ k \in TabLoads /\ k.at = "asked" /\ k.kind = kind /\ k.csrf = qjar /\ k.field = field
      /\ k.cookie = 0 /\ k.form = 0 /\ k.crossed = x
  <2>1. x \in BOOLEAN /\ qjar \in Nat
    BY <1>0, <1>2 DEF QTypeOK
  <2>2. kind \in Kinds /\ "asked" \in {"none", "asked", "answered"} /\ field \in Nat
    BY DEF Kinds
  <2>3. k = [at |-> "asked", kind |-> kind, csrf |-> qjar, field |-> field,
             status |-> 0, cookie |-> 0, form |-> 0, crossed |-> x]
    BY <1>3 DEF QIdle
  <2>4. k \in TabLoads
    BY <2>1, <2>2, <2>3 DEF TabLoads, Statuses
  <2> QED BY <2>3, <2>4
<1>5. /\ qload[t].at = "none" /\ qjar' = qjar /\ qpage' = qpage /\ qnext' = qnext /\ qtold' = qtold
      /\ qload' = [u \in QTabs |-> IF u = t THEN k ELSE [qload[u] EXCEPT !.crossed = @ \/ (qload[u].at # "none" /\ qjar = 0)]]
  BY <1>1, <1>2, <1>3 DEF QSend
<1>6. ASSUME NEW u \in QTabs \ {t}
      PROVE  /\ qload'[u] \in TabLoads /\ qload'[u].at = qload[u].at /\ qload'[u].kind = qload[u].kind
             /\ qload'[u].csrf = qload[u].csrf /\ qload'[u].field = qload[u].field
             /\ qload'[u].status = qload[u].status
             /\ qload'[u].cookie = qload[u].cookie /\ qload'[u].form = qload[u].form
             /\ qload'[u].crossed = (qload[u].crossed \/ (qload[u].at # "none" /\ qjar = 0))
  <2>1. qload[u] \in TabLoads /\ qload'[u] = [qload[u] EXCEPT !.crossed = @ \/ (qload[u].at # "none" /\ qjar = 0)]
    BY <1>0, <1>5 DEF QTypeOK
  <2> QED BY <2>1 DEF TabLoads
<1>7. qload'[t] = k
  BY <1>5
<1>8. QTypeOK'
  <2>1. \A u \in QTabs : qload'[u] \in TabLoads
    BY <1>4, <1>6, <1>7
  <2> QED BY <1>0, <1>5, <2>1 DEF QTypeOK
<1>9. \A u \in QTabs \ {t} : First(qload'[u]) <=> First(qload[u])
  BY <1>6 DEF First
<1>10. First(k) <=> qjar = 0
  BY <1>4 DEF First
<1>11. ASSUME NEW u \in QTabs PROVE LoadAgrees(u, qload[u])'
  <2>1. CASE u = t
    <3>1. AnswerAgrees(k)
      BY <1>1, <1>4 DEF AnswerAgrees
    <3>2. ~k.crossed => k.csrf = qjar' /\ NoneElse(t)'
      BY <1>2, <1>4, <1>5, <1>9 DEF NoneElse, First
    <3>3. kind = "post" /\ ~qpage[t].crossed => field = qjar
      BY <1>0, <1>1 DEF PagesAgree, PageAgrees
    <3>4. (k.csrf # 0 => qjar' # 0) /\ (k.kind = "post" => k.field # 0 /\ (~qpage'[t].crossed => k.csrf = k.field))
      BY <1>1, <1>4, <1>5, <3>3
    <3> QED BY <1>7, <2>1, <3>1, <3>2, <3>4 DEF LoadAgrees, AnswerAgrees
  <2>2. CASE u # t
    <3>0. PICK l, m : l = qload[u] /\ m = qload'[u]
      OBVIOUS
    <3>1. LoadAgrees(u, l) /\ l \in TabLoads /\ m \in TabLoads
      BY <1>0, <1>8, <3>0 DEF LoadsAgree, QTypeOK
    <3>2. /\ m.at = l.at /\ m.kind = l.kind /\ m.csrf = l.csrf /\ m.field = l.field /\ m.status = l.status
          /\ m.cookie = l.cookie /\ m.form = l.form /\ m.crossed = (l.crossed \/ (l.at # "none" /\ qjar = 0))
      BY <1>6, <2>2, <3>0
    <3>3. AnswerAgrees(m)
      BY <3>1, <3>2 DEF LoadAgrees, AnswerAgrees
    <3>4. m.at # "none" /\ ~m.crossed => m.csrf = qjar' /\ NoneElse(u)'
      <4> SUFFICES ASSUME m.at # "none", ~m.crossed PROVE m.csrf = qjar' /\ NoneElse(u)'
        OBVIOUS
      <4>1. ~l.crossed /\ qjar # 0
        BY <3>2
      <4>2. l.csrf = qjar /\ NoneElse(u)
        BY <3>1, <3>2, <4>1 DEF LoadAgrees
      <4>3. \A v \in QTabs \ {u} : ~First(qload'[v])
        BY <1>7, <1>9, <1>10, <4>1, <4>2 DEF NoneElse
      <4> QED BY <1>5, <3>2, <4>2, <4>3 DEF NoneElse, First
    <3>5. (m.csrf # 0 => qjar' # 0)
          /\ (m.at # "none" /\ m.kind = "post" => m.field # 0 /\ (~qpage'[u].crossed => m.csrf = m.field))
      BY <1>5, <3>1, <3>2 DEF LoadAgrees
    <3> QED BY <3>0, <3>3, <3>4, <3>5 DEF LoadAgrees, AnswerAgrees
  <2> QED BY <2>1, <2>2
<1>12. ASSUME NEW u \in QTabs PROVE PageAgrees(qpage[u])'
  <2> SUFFICES ASSUME qpage[u].form # 0, ~qpage[u].crossed
               PROVE  qpage[u].form = qjar /\ \A v \in QTabs : ~First(qload'[v])
    BY <1>5 DEF PageAgrees, First
  <2>1. qpage[u].form = qjar /\ \A v \in QTabs : ~First(qload[v])
    BY <1>0 DEF PagesAgree, PageAgrees
  <2> QED BY <1>7, <1>9, <1>10, <2>1
<1> QED BY <1>0, <1>5, <1>8, <1>11, <1>12 DEF VisitorInv, QOwnFormsAreAccepted, LoadsAgree, PagesAgree

\* The requests, the answers, the refusals and the losses preserve it.
LEMMA VisitorNextInv == VisitorInv /\ [QNext]_qvars => VisitorInv'
<1> SUFFICES ASSUME VisitorInv, [QNext]_qvars PROVE VisitorInv'
  OBVIOUS
<1>1. CASE QNext
  BY <1>1, ServeStep, RefusedStep, EndStep, SendStep DEF QNext
<1>2. CASE UNCHANGED qvars
  BY <1>2 DEF qvars, VisitorInv, QTypeOK, LoadsAgree, LoadAgrees, AnswerAgrees, NoneElse, First, PagesAgree,
              PageAgrees, QOwnFormsAreAccepted
<1> QED BY <1>1, <1>2

\* verify_csrf and the cookie handle_request sets: no form of a page on screen is refused
\* that was loaded beside no request without a cookie, however the requests of any number
\* of tabs at the same time, refusals and lost answers come.
THEOREM OwnFormsAreAccepted == QSpec => []QOwnFormsAreAccepted
<1>1. VisitorInv => QOwnFormsAreAccepted
  BY DEF VisitorInv
<1> QED BY <1>1, VisitorInitInv, VisitorNextInv, PTL DEF QSpec

-----------------------------------------------------------------------------
(* MarkdownWatch.  As long as no event about a Markdown file is queued and    *)
(* none was missed, what was last tried, what was listed, what was read and,  *)
(* unless the attempt failed, what was written are each what the directory    *)
(* says now.                                                                  *)

Places == {"process", "reading", "watch", "wait", "burst", "ended"}

JTypeOK ==
    /\ jdocs \in [JDocs -> Nat] /\ jout \in [JDocs -> Nat]
    /\ jbad \subseteq JDocs
    /\ jchan \in Seq({"md", "other"})
    /\ jloop \in [pc : Places, left : SUBSET JDocs, read : [JDocs -> Nat]]
    /\ jedits \in Nat

NoMdEvent == \A i \in 1..Len(jchan) : jchan[i] # "md"

\* No document changed since the last listing, as far as the loop can know.
Unchanged == NoMdEvent /\ ~jmissed

ReadIsCurrent ==
    jloop.pc = "reading" /\ Unchanged =>
        \A d \in JDocs : IF d \in jloop.left THEN jdocs[d] # 0 ELSE jloop.read[d] = jdocs[d]

TriedIsCurrent ==
    jloop.pc \in {"reading", "watch", "wait"} /\ Unchanged => jtried = jdocs

WrittenIsCurrent ==
    jloop.pc \in {"watch", "wait"} /\ Unchanged /\ jfailed = FALSE => jout = jdocs

MarkdownInv == JTypeOK /\ TriedIsCurrent /\ ReadIsCurrent /\ WrittenIsCurrent

\* At the start nothing has been listed.
LEMMA MarkdownInitInv == JInit => MarkdownInv
<1> SUFFICES ASSUME JInit PROVE MarkdownInv
  OBVIOUS
<1>1. /\ jloop \in [pc : Places, left : SUBSET JDocs, read : [JDocs -> Nat]]
      /\ jloop.pc = "process"
  BY DEF JInit, At, NoDocs, Places
<1>2. jdocs \in [JDocs -> Nat] /\ jout \in [JDocs -> Nat]
  BY DEF JInit, NoDocs
<1>3. JTypeOK
  BY <1>1, <1>2 DEF JInit, JTypeOK
<1> QED BY <1>1, <1>3 DEF MarkdownInv, TriedIsCurrent, ReadIsCurrent, WrittenIsCurrent

\* A change that the editor made is seen in the queue or counted as missed.
LEMMA ChangeIsNoticed ==
    ASSUME JTypeOK, Event("md"), jmissed' = (jmissed \/ ~jwatch)
    PROVE  jchan' \in Seq({"md", "other"}) /\ ~Unchanged'
<1>1. CASE jwatch
  <2>1. jchan' = Append(jchan, "md")
    BY <1>1 DEF Event
  <2>2. /\ jchan' \in Seq({"md", "other"}) /\ Len(jchan') = Len(jchan) + 1
        /\ jchan'[Len(jchan) + 1] = "md" /\ Len(jchan) \in Nat
    BY <2>1 DEF JTypeOK
  <2>3. ~NoMdEvent'
    BY <2>2 DEF NoMdEvent
  <2> QED BY <2>2, <2>3 DEF Unchanged
<1>2. CASE ~jwatch
  <2>1. jmissed'
    BY <1>2, Zenon
  <2> QED BY <1>2, <2>1 DEF Event, JTypeOK, Unchanged
<1> QED BY <1>1, <1>2

\* The editor and the program preserve it.
LEMMA MarkdownNextInv == MarkdownInv /\ [JNext]_jvars => MarkdownInv'
<1> SUFFICES ASSUME MarkdownInv, [JNext]_jvars PROVE MarkdownInv'
  OBVIOUS
<1> USE DEF MarkdownInv
<1>a. \A pc \in Places : /\ At(pc) \in [pc : Places, left : SUBSET JDocs, read : [JDocs -> Nat]]
                         /\ At(pc).pc = pc
  BY DEF At, NoDocs
<1>b. {"process", "reading", "watch", "wait", "burst", "ended"} \subseteq Places
  BY DEF Places
<1>1. ASSUME NEW d \in JDocs, RemoveDoc(d) \/ \E good \in BOOLEAN : SaveDoc(d, good)
      PROVE  MarkdownInv'
  <2>1. /\ Event("md") /\ jmissed' = (jmissed \/ ~jwatch) /\ jedits' = jedits + 1
        /\ UNCHANGED <<jout, jwatch, jloop, jtried, jfailed>>
        /\ \E n \in Nat : jdocs' = [jdocs EXCEPT ![d] = n]
        /\ jbad' \subseteq JDocs
    BY <1>1 DEF RemoveDoc, SaveDoc, MayEdit, JTypeOK
  <2>2. jchan' \in Seq({"md", "other"}) /\ ~Unchanged'
    BY <2>1, ChangeIsNoticed
  <2>3. JTypeOK'
    BY <2>1, <2>2 DEF JTypeOK
  <2> QED BY <2>2, <2>3 DEF TriedIsCurrent, ReadIsCurrent, WrittenIsCurrent
<1>2. CASE SaveOther
  <2>1. /\ jchan' \in Seq({"md", "other"})
        /\ NoMdEvent' => NoMdEvent
    BY <1>2, AppendProperties DEF SaveOther, Event, JTypeOK, NoMdEvent
  <2> QED BY <1>2, <2>1
      DEF SaveOther, MayEdit, JTypeOK, Unchanged, TriedIsCurrent, ReadIsCurrent, WrittenIsCurrent
<1>3. CASE ListDocs
  <2>1. JTypeOK'
    BY <1>3, <1>b DEF ListDocs, JTypeOK, NoDocs
  <2> QED BY <1>3, <2>1
      DEF ListDocs, Attempt, JTypeOK, NoDocs, TriedIsCurrent, ReadIsCurrent, WrittenIsCurrent
<1>f. ASSUME Fails, UNCHANGED <<jdocs, jbad, jout, jchan, jwatch, jedits>>
      PROVE  JTypeOK' /\ jloop'.pc \in {"wait", "ended"} /\ jfailed' = TRUE
  <2>1. PICK pc \in {"wait", "ended"} : jloop' = At(pc)
    BY <1>f DEF Fails
  <2>2. jloop' \in [pc : Places, left : SUBSET JDocs, read : [JDocs -> Nat]] /\ jloop'.pc = pc
    BY <1>a, <1>b, <2>1
  <2> QED BY <1>f, <2>2 DEF Fails, JTypeOK
<1>4. ASSUME NEW d \in JDocs, ReadDoc(d) PROVE MarkdownInv'
  <2>u. Unchanged' <=> Unchanged
    BY <1>4 DEF ReadDoc, Unchanged, NoMdEvent
  <2>1. CASE jdocs[d] = 0 \/ d \in jbad
    <3>1. Fails /\ UNCHANGED <<jdocs, jbad, jout, jchan, jwatch, jedits, jtried>>
      BY <1>4, <2>1 DEF ReadDoc
    <3>2. JTypeOK' /\ jloop'.pc \in {"wait", "ended"} /\ jfailed' = TRUE
      BY <1>f, <3>1
    <3>3. jloop.pc = "reading"
      BY <1>4 DEF ReadDoc
    <3> QED BY <2>u, <3>1, <3>2, <3>3 DEF TriedIsCurrent, ReadIsCurrent, WrittenIsCurrent
  <2>2. CASE ~(jdocs[d] = 0 \/ d \in jbad)
    <3>1. jloop' = [jloop EXCEPT !.left = @ \ {d}, !.read = [jloop.read EXCEPT ![d] = jdocs[d]]]
      BY <1>4, <2>2 DEF ReadDoc
    <3>2. [jloop.read EXCEPT ![d] = jdocs[d]] \in [JDocs -> Nat]
      BY DEF JTypeOK
    <3>3. /\ jloop' \in [pc : Places, left : SUBSET JDocs, read : [JDocs -> Nat]]
          /\ jloop'.pc = jloop.pc /\ jloop'.left = jloop.left \ {d}
          /\ jloop'.read = [jloop.read EXCEPT ![d] = jdocs[d]]
      BY <3>1, <3>2 DEF JTypeOK
    <3>4. JTypeOK'
      BY <1>4, <3>3 DEF ReadDoc, JTypeOK
    <3>5. ReadIsCurrent'
      BY <1>4, <2>u, <3>3 DEF ReadDoc, ReadIsCurrent, JTypeOK
    <3>6. TriedIsCurrent'
      BY <1>4, <2>u, <3>3 DEF ReadDoc, TriedIsCurrent
    <3> QED BY <1>4, <3>3, <3>4, <3>5, <3>6 DEF ReadDoc, WrittenIsCurrent
  <2> QED BY <2>1, <2>2
<1>5. CASE WriteOut
  <2>1. PICK pc \in {"wait", "watch"} : jloop' = At(pc)
    BY <1>5 DEF WriteOut
  <2>2. JTypeOK' /\ jloop'.pc = pc
    BY <1>5, <1>a, <1>b, <2>1 DEF WriteOut, JTypeOK
  <2>3. Unchanged => jloop.read = jdocs
    BY <1>5 DEF WriteOut, ReadIsCurrent, JTypeOK
  <2> QED BY <1>5, <2>2, <2>3
      DEF WriteOut, Unchanged, NoMdEvent, TriedIsCurrent, ReadIsCurrent, WrittenIsCurrent
<1>11. CASE ProcessFails
  <2>1. Fails /\ UNCHANGED <<jdocs, jbad, jout, jchan, jwatch, jedits>> /\ jtried' = jdocs
    BY <1>11 DEF ProcessFails, Attempt
  <2>2. JTypeOK' /\ jloop'.pc \in {"wait", "ended"} /\ jfailed' = TRUE
    BY <1>f, <2>1
  <2> QED BY <2>1, <2>2 DEF TriedIsCurrent, ReadIsCurrent, WrittenIsCurrent
<1>12. CASE WriteFails
  <2>1. /\ Fails /\ UNCHANGED <<jdocs, jbad, jout, jchan, jwatch, jedits>>
        /\ UNCHANGED <<jmissed, jtried>> /\ jloop.pc = "reading"
    BY <1>12 DEF WriteFails
  <2>2. JTypeOK' /\ jloop'.pc \in {"wait", "ended"} /\ jfailed' = TRUE
    BY <1>f, <2>1
  <2>3. Unchanged' <=> Unchanged
    BY <2>1 DEF Unchanged, NoMdEvent
  <2> QED BY <2>1, <2>2, <2>3 DEF TriedIsCurrent, ReadIsCurrent, WrittenIsCurrent
<1>6. CASE StartWatch
  <2>1. PICK pc \in {"wait", "ended"} : jloop' = At(pc)
    BY <1>6 DEF StartWatch
  <2>2. JTypeOK' /\ jloop'.pc = pc
    BY <1>6, <1>a, <1>b, <2>1 DEF StartWatch, JTypeOK
  <2> QED BY <1>6, <2>2
      DEF StartWatch, Unchanged, NoMdEvent, TriedIsCurrent, ReadIsCurrent, WrittenIsCurrent
<1>7. CASE TakeEvent
  <2>1. Tail(jchan) \in Seq({"md", "other"})
    BY <1>7, HeadTailProperties DEF TakeEvent, JTypeOK
  <2>2. JTypeOK' /\ jloop'.pc = "burst"
    BY <1>7, <1>a, <1>b, <2>1 DEF TakeEvent, JTypeOK
  <2> QED BY <2>2 DEF TriedIsCurrent, ReadIsCurrent, WrittenIsCurrent
<1>8. CASE DropEvents
  <2>1. JTypeOK'
    BY <1>8 DEF DropEvents, JTypeOK
  <2>2. Unchanged' => Unchanged
    <3>1. ~jmissed' => ~jmissed /\ ~\E i \in DOMAIN jchan : jchan[i] = "md"
      BY <1>8, Zenon DEF DropEvents
    <3>2. DOMAIN jchan = 1..Len(jchan)
      BY DEF JTypeOK
    <3> QED BY <3>1, <3>2 DEF Unchanged, NoMdEvent
  <2> QED BY <1>8, <2>1, <2>2 DEF DropEvents, TriedIsCurrent, ReadIsCurrent, WrittenIsCurrent
<1>9. CASE EndBurst \/ StopWatching
  <2>1. JTypeOK' /\ jloop'.pc \in {"process", "ended"}
    <3>1. PICK pc \in {"process", "ended"} : jloop' = At(pc)
      BY <1>9 DEF EndBurst, StopWatching
    <3>2. jchan' \in {jchan, <<>>} /\ UNCHANGED <<jdocs, jbad, jout, jwatch, jedits, jmissed>>
      BY <1>9 DEF EndBurst, StopWatching
    <3>3. jchan' \in Seq({"md", "other"})
      <4>1. <<>> \in Seq({"md", "other"}) /\ jchan \in Seq({"md", "other"})
        BY DEF JTypeOK
      <4> QED BY <3>2, <4>1, Zenon
    <3> QED BY <1>a, <1>b, <3>1, <3>2, <3>3 DEF JTypeOK
  <2> QED BY <2>1 DEF TriedIsCurrent, ReadIsCurrent, WrittenIsCurrent
<1>10. CASE UNCHANGED jvars
  BY <1>10 DEF jvars, JTypeOK, Unchanged, NoMdEvent, TriedIsCurrent, ReadIsCurrent, WrittenIsCurrent
<1> QED BY <1>1, <1>2, <1>3, <1>4, <1>5, <1>6, <1>7, <1>8, <1>9, <1>10, <1>11, <1>12 DEF JNext, Editor, Program

\* run and process of m6-md: a loop that waits with nothing queued has tried what the
\* directory says and, unless that failed, written it, for any number of documents, changes
\* and failures.
THEOREM WaitingMeansCurrent == JSpec => []JWaitingMeansCurrent
<1>1. MarkdownInv => JWaitingMeansCurrent
  BY DEF MarkdownInv, TriedIsCurrent, WrittenIsCurrent, Unchanged, NoMdEvent, JWaitingMeansCurrent
<1> QED BY <1>1, MarkdownInitInv, MarkdownNextInv, PTL DEF JSpec

-----------------------------------------------------------------------------

-----------------------------------------------------------------------------
(* ServiceStart.  Each file's fingerprint is no younger than what was read    *)
(* of it, so an equal fingerprint means that the disk is what was read; and   *)
(* what a --dump-config refused is refused where the process checks it.  The  *)
(* state of the init functions is as old as the fingerprint or in the gap.    *)

Phases == {"down", "first", "fingerprint", "load", "site", "check", "build", "bind",
           "serving", "exited"}

\* Past the load of the config, past the check of site.toml, and past the build.
Loaded  == {"site", "check", "build", "bind", "serving"}
Checked == {"build", "bind", "serving"}
Built   == {"bind", "serving"}

Reasons == {"", "config", "site", "init_global", "compress", "build", "handler",
            "flash_secret", "bind"}

Processes == [phase : Phases, exit : {0, 2}, why : Reasons, c : UConfigs \cup {NoConfig},
              cfg : Nat, site : Nat, fp : Nat, sfp : Nat, global : Nat, thread : Nat,
              gap : BOOLEAN, renewed : BOOLEAN]

UTypeOK ==
    /\ udisk \in [c : UConfigs, cid : Nat, s : USites, sid : Nat]
    /\ uproc \in Processes
    /\ udump \in [code : {0, 2}, cid : Nat, sid : Nat]

VersionsInOrder ==
    /\ udump.cid <= udisk.cid /\ udump.sid <= udisk.sid
    /\ uproc.fp <= udisk.cid /\ uproc.sfp <= udisk.sid
    /\ uproc.cfg <= udisk.cid /\ uproc.site <= udisk.sid
    /\ uproc.phase \in Loaded \ {"serving"} => uproc.fp <= uproc.cfg
    /\ uproc.phase \in {"build", "bind"} => uproc.sfp <= uproc.site

ChecksHold ==
    /\ uproc.phase \in Loaded => LoadOk(uproc.c)
    /\ uproc.phase \in Loaded /\ uproc.cfg = udisk.cid => uproc.c = udisk.c
    /\ uproc.phase \in Checked /\ uproc.site = udisk.sid => SiteOk(uproc.c, udisk.s)
    /\ uproc.phase \in Built => \A r \in uproc.c.routes : Servable(r)

DumpPasses(c, s) == LoadOk(c) /\ SiteOk(c, s) /\ \A r \in c.routes : Servable(r)

DumpIsBorneOut ==
    udump.code = 2 =>
        /\ udump.cid = udisk.cid /\ udump.sid = udisk.sid => ~DumpPasses(udisk.c, udisk.s)
        /\ uproc.phase \in {"site", "check"} /\ udump.cid = uproc.cfg /\ udump.sid = udisk.sid
             => ~DumpPasses(uproc.c, udisk.s)
        /\ uproc.phase = "build" /\ udump.cid = uproc.cfg /\ udump.sid = uproc.site
             => \E r \in uproc.c.routes : ~Servable(r)
        /\ uproc.phase \in Built => ~(udump.cid = uproc.cfg /\ udump.sid = uproc.site)

NothingMissed ==
    uproc.phase = "serving" /\ ~Reported =>
        \/ uproc.cfg = udisk.cid /\ uproc.site = udisk.sid /\ StateIsCurrent
        \/ udisk.c.empty \/ (udisk.s.there /\ udisk.s.empty)
        \/ ~Reloads(udisk.c, udisk.s)

\* Before a process serves, the state of its init functions is of the config it
\* fingerprinted, unless that was edited in between.
Starting == {"load", "site", "check", "build", "bind"}

GapOf(p) ==
    /\ p.phase \notin {"serving", "exited"} => p.renewed = FALSE
    /\ (p.phase \in Starting /\ ~p.gap) =>
           (Stateful => p.global = p.fp) /\ (Threads => p.thread = p.fp)

GapIsKnown == GapOf(uproc)

StartInv == UTypeOK /\ VersionsInOrder /\ ChecksHold /\ DumpIsBorneOut /\ NothingMissed /\ GapIsKnown

\* A process that is past none of the starting phases, or keeps what was known.
LEMMA GapKept ==
  ASSUME NEW p \in Processes, NEW q \in Processes, GapOf(p), q.renewed = p.renewed, q.gap = p.gap,
         q.global = p.global, q.thread = p.thread, q.fp = p.fp,
         p.phase \in Starting, q.phase \in Starting \cup {"serving", "exited"}
  PROVE  GapOf(q)
BY DEF GapOf, Starting

\* A process that is not running is one.
LEMMA StoppedOK == NotRunning \in Processes /\ NotRunning.phase = "down"
<1>1. "down" \in Phases /\ "" \in Reasons /\ NoConfig \in UConfigs \cup {NoConfig}
  BY DEF Phases, Reasons
<1> QED BY <1>1, Zenon DEF NotRunning, Processes

\* It has nothing to know.
LEMMA StoppedGap == GapOf(NotRunning) /\ NotRunning.renewed = FALSE
BY DEF GapOf, NotRunning, Starting

\* Before the first launch.
LEMMA StartInitInv == UInit => StartInv
<1> SUFFICES ASSUME UInit PROVE StartInv
  OBVIOUS
<1>1. NotRunning \in Processes /\ NotRunning.phase = "down"
  BY StoppedOK
<1>2. NotRunning.cfg = 0 /\ NotRunning.site = 0 /\ NotRunning.fp = 0 /\ NotRunning.sfp = 0
  BY DEF NotRunning
<1>3. PICK c \in UConfigs, s \in USites : udisk = [c |-> c, cid |-> 1, s |-> s, sid |-> 1]
  BY DEF UInit
<1>4. UTypeOK
  BY <1>1, <1>3 DEF UInit, UTypeOK
<1>5. VersionsInOrder
  BY <1>1, <1>2, <1>3 DEF UInit, VersionsInOrder, Loaded
<1>6. ChecksHold /\ NothingMissed
  BY <1>1 DEF UInit, ChecksHold, NothingMissed, Loaded, Checked, Built
<1>7. DumpIsBorneOut
  BY DEF UInit, DumpIsBorneOut
<1>8. GapIsKnown
  BY <1>1, StoppedGap DEF UInit, GapIsKnown
<1> QED BY <1>4, <1>5, <1>6, <1>7, <1>8 DEF StartInv

\* A step of the process leaves what the next one knows.
LEMMA GapGoes == ASSUME NEW p, Goes(p), GapOf(p) PROVE GapIsKnown'
<1>1. uproc' = p /\ ubin' = ubin
  BY DEF Goes
<1> QED BY <1>1 DEF GapIsKnown, GapOf, Stateful, Threads

\* A step of anything else leaves it as it is.
LEMMA GapRests == ASSUME GapIsKnown, UNCHANGED <<uproc, ubin>> PROVE GapIsKnown'
BY DEF GapIsKnown, GapOf, Stateful, Threads

LEMMA MissedRests == ASSUME NothingMissed, UNCHANGED <<udisk, uproc, ubin>> PROVE NothingMissed'
BY DEF NothingMissed, StateIsCurrent, Stateful, Threads, Reported, Reloads

\* A step of a process that is not past its load.
LEMMA EarlyStep ==
    ASSUME StartInv, NEW p \in Processes, Goes(p), p.phase \notin Loaded,
           p.fp \in {0, uproc.fp, udisk.cid}, p.sfp \in {0, uproc.sfp, udisk.sid},
           p.cfg \in {0, uproc.cfg}, p.site \in {0, uproc.site}, GapOf(p)
    PROVE  StartInv'
<1>1. p.phase \notin Checked /\ p.phase \notin Built /\ p.phase \notin {"site", "check", "build", "bind", "serving"}
  BY DEF Loaded, Checked, Built
<1>2. UTypeOK'
  BY DEF StartInv, UTypeOK, Goes
<1>3. VersionsInOrder'
  BY <1>1 DEF StartInv, UTypeOK, VersionsInOrder, Goes, Loaded
<1>4. ChecksHold' /\ NothingMissed'
  BY <1>1 DEF Goes, ChecksHold, NothingMissed
<1>5. DumpIsBorneOut'
  BY <1>1 DEF StartInv, Goes, DumpIsBorneOut
<1>6. GapIsKnown'
  BY GapGoes
<1> QED BY <1>2, <1>3, <1>4, <1>5, <1>6 DEF StartInv

\* A refusal, at whatever point of the start.
LEMMA ExitStep ==
    ASSUME StartInv, NEW why \in Reasons, Exits(why)
    PROVE  StartInv'
<1> DEFINE p == [uproc EXCEPT !.phase = "exited", !.exit = 2, !.why = why]
<1>1. p \in Processes /\ p.phase = "exited"
  BY DEF StartInv, UTypeOK, Processes, Phases
<1>2. p.fp = uproc.fp /\ p.sfp = uproc.sfp /\ p.cfg = uproc.cfg /\ p.site = uproc.site
  BY DEF StartInv, UTypeOK, Processes
<1>3. Goes(p)
  BY DEF Exits
<1> HIDE DEF p
<1>4. GapOf(p)
  BY <1>1 DEF GapOf, Starting
<1> QED BY <1>1, <1>2, <1>3, <1>4, EarlyStep DEF Loaded

\* The edits, the dumps and every step of the process preserve it.
LEMMA StartNextInv == StartInv /\ [UNext]_uvars => StartInv'
<1> SUFFICES ASSUME StartInv, [UNext]_uvars PROVE StartInv'
  OBVIOUS
<1>t. /\ udisk.cid \in Nat /\ udisk.sid \in Nat /\ udisk.c \in UConfigs /\ udisk.s \in USites
      /\ uproc \in Processes /\ uproc.phase \in Phases
      /\ uproc.fp \in Nat /\ uproc.sfp \in Nat /\ uproc.cfg \in Nat /\ uproc.site \in Nat
      /\ udump.cid \in Nat /\ udump.sid \in Nat /\ udump.code \in {0, 2}
      /\ udisk.cid + 1 \in Nat /\ udisk.sid + 1 \in Nat
  BY DEF StartInv, UTypeOK, Processes
<1>1. ASSUME NEW c \in UConfigs, UEditConfig(c) PROVE StartInv'
  <2>1. /\ udisk' \in [c : UConfigs, cid : Nat, s : USites, sid : Nat]
        /\ udisk'.cid = udisk.cid + 1 /\ udisk'.s = udisk.s /\ udisk'.sid = udisk.sid
        /\ UNCHANGED <<uproc, udump>>
    BY <1>1, <1>t DEF UEditConfig, StartInv, UTypeOK
  <2>7. GapIsKnown'
    BY <1>1, GapRests DEF UEditConfig, StartInv
  <2>2. uproc.cfg # udisk'.cid /\ uproc.fp # udisk'.cid /\ udump.cid # udisk'.cid
    BY <1>t, <2>1 DEF StartInv, VersionsInOrder
  <2>3. UTypeOK' /\ VersionsInOrder'
    BY <1>t, <2>1 DEF StartInv, UTypeOK, VersionsInOrder
  <2>4. ChecksHold'
    BY <2>1, <2>2 DEF StartInv, ChecksHold
  <2>5. DumpIsBorneOut'
    BY <2>1, <2>2 DEF StartInv, DumpIsBorneOut
  <2>6. NothingMissed'
    BY <2>1, <2>2 DEF NothingMissed, Reported
  <2> QED BY <2>3, <2>4, <2>5, <2>6, <2>7 DEF StartInv
<1>2. ASSUME NEW s \in USites, UEditSite(s) PROVE StartInv'
  <2>1. /\ udisk' \in [c : UConfigs, cid : Nat, s : USites, sid : Nat]
        /\ udisk'.sid = udisk.sid + 1 /\ udisk'.c = udisk.c /\ udisk'.cid = udisk.cid
        /\ UNCHANGED <<uproc, udump>>
    BY <1>2, <1>t DEF UEditSite, StartInv, UTypeOK
  <2>7. GapIsKnown'
    BY <1>2, GapRests DEF UEditSite, StartInv
  <2>2. uproc.site # udisk'.sid /\ uproc.sfp # udisk'.sid /\ udump.sid # udisk'.sid
    BY <1>t, <2>1 DEF StartInv, VersionsInOrder
  <2>3. UTypeOK' /\ VersionsInOrder'
    BY <1>t, <2>1 DEF StartInv, UTypeOK, VersionsInOrder
  <2>4. ChecksHold'
    BY <2>1, <2>2 DEF StartInv, ChecksHold
  <2>5. DumpIsBorneOut'
    BY <2>1, <2>2 DEF StartInv, DumpIsBorneOut
  <2>6. NothingMissed'
    BY <2>1, <2>2 DEF NothingMissed, Reported
  <2> QED BY <2>3, <2>4, <2>5, <2>6, <2>7 DEF StartInv
<1>3. CASE ULaunch
  <2>1. PICK phase \in {"fingerprint", "first"} :
            uproc' = [NotRunning EXCEPT !.phase = phase] /\ UNCHANGED <<udisk, ubin, udump, uedits>>
    BY <1>3 DEF ULaunch
  <2> DEFINE p == [NotRunning EXCEPT !.phase = phase]
  <2>2. p \in Processes /\ p.phase = phase
    BY StoppedOK DEF Processes, Phases
  <2>3. p.fp = 0 /\ p.sfp = 0 /\ p.cfg = 0 /\ p.site = 0 /\ p.renewed = FALSE
    BY StoppedOK DEF Processes, NotRunning
  <2>4. phase \notin Loaded /\ phase \notin Checked /\ phase \notin Built /\ phase # "serving"
        /\ phase \notin {"site", "check"} /\ phase # "build" /\ phase \notin {"build", "bind"}
    BY DEF Loaded, Checked, Built
  <2> HIDE DEF p
  <2>5. uproc' = p /\ UNCHANGED <<udisk, udump>>
    BY <2>1 DEF p
  <2>6. UTypeOK' /\ VersionsInOrder'
    BY <1>t, <2>2, <2>3, <2>4, <2>5 DEF StartInv, UTypeOK, VersionsInOrder
  <2>7. ChecksHold' /\ NothingMissed'
    BY <2>2, <2>4, <2>5 DEF ChecksHold, NothingMissed
  <2>8. DumpIsBorneOut'
    BY <2>2, <2>4, <2>5 DEF StartInv, DumpIsBorneOut
  <2>9. GapIsKnown'
    <3>1. GapOf(p)
      BY <2>2, <2>3 DEF GapOf, Starting
    <3> QED BY <2>1, <2>5, <3>1 DEF GapIsKnown, GapOf, Stateful, Threads
  <2> QED BY <2>6, <2>7, <2>8, <2>9 DEF StartInv
<1>4. CASE UDumpConfig
  <2>1. /\ udump' \in [code : {0, 2}, cid : Nat, sid : Nat]
        /\ udump'.cid = udisk.cid /\ udump'.sid = udisk.sid
        /\ udump'.code = 2 => ~DumpPasses(udisk.c, udisk.s)
        /\ UNCHANGED <<udisk, uproc>>
    BY <1>4, <1>t DEF UDumpConfig, DumpPasses
  <2>2. UTypeOK' /\ VersionsInOrder' /\ ChecksHold'
    BY <1>t, <2>1 DEF StartInv, UTypeOK, VersionsInOrder, ChecksHold
  <2>3. NothingMissed'
    <3>1. UNCHANGED <<udisk, uproc, ubin>>
      BY <1>4 DEF UDumpConfig
    <3> QED BY <3>1, MissedRests DEF StartInv
  <2>4. DumpIsBorneOut'
    BY <2>1 DEF StartInv, ChecksHold, DumpIsBorneOut, DumpPasses, Loaded, Checked, Built
  <2>5. GapIsKnown'
    BY <1>4, GapRests DEF UDumpConfig, StartInv
  <2> QED BY <2>2, <2>3, <2>4, <2>5 DEF StartInv
<1>5. ASSUME NEW p \in Processes, UInitGlobal(p), uproc.phase = "first",
             p.fp = uproc.fp, p.sfp = uproc.sfp, p.cfg = uproc.cfg, p.site = uproc.site,
             p.renewed = uproc.renewed
      PROVE  StartInv'
  <2> DEFINE q == [p EXCEPT !.phase = "fingerprint", !.global = udisk.cid]
  <2>1. q \in Processes /\ q.phase = "fingerprint"
    BY <1>t DEF Processes, Phases
  <2>2. q.fp = p.fp /\ q.sfp = p.sfp /\ q.cfg = p.cfg /\ q.site = p.site
    BY DEF Processes
  <2>3. Exits("site") \/ Exits("init_global") \/ Goes(q)
    BY <1>5 DEF UInitGlobal
  <2>4. q.renewed = FALSE
    BY <1>5 DEF Processes, StartInv, GapIsKnown, GapOf
  <2> HIDE DEF q
  <2>5. GapOf(q)
    BY <2>1, <2>4 DEF GapOf, Starting
  <2> QED BY <1>5, <2>1, <2>2, <2>3, <2>5, EarlyStep, ExitStep DEF Loaded, Reasons
<1>6. CASE UFirstLoadGlobal
  BY <1>t, <1>5, <1>6, ExitStep DEF UFirstLoadGlobal, UFirst, Reasons
<1>7. CASE UFirstLoadThread \/ UFirstLoadState
  <2> DEFINE q == [uproc EXCEPT !.thread = udisk.cid]
             r == [uproc EXCEPT !.phase = "fingerprint", !.thread = udisk.cid]
  <2>1. q \in Processes /\ r \in Processes /\ r.phase = "fingerprint"
    BY <1>t DEF Processes, Phases
  <2>2. /\ q.fp = uproc.fp /\ q.sfp = uproc.sfp /\ q.cfg = uproc.cfg /\ q.site = uproc.site
        /\ r.fp = uproc.fp /\ r.sfp = uproc.sfp /\ r.cfg = uproc.cfg /\ r.site = uproc.site
    BY <1>t DEF Processes
  <2>3. uproc.phase = "first" /\ (Exits("config") \/ UInitGlobal(q) \/ Goes(r))
    BY <1>7 DEF UFirstLoadThread, UFirstLoadState, UFirst
  <2>4. q.renewed = uproc.renewed /\ r.renewed = FALSE
    BY <1>t, <2>3 DEF Processes, StartInv, GapIsKnown, GapOf
  <2> HIDE DEF q, r
  <2>5. GapOf(r)
    BY <2>1, <2>4 DEF GapOf, Starting
  <2> QED BY <1>5, <2>1, <2>2, <2>3, <2>4, <2>5, EarlyStep, ExitStep DEF Loaded, Reasons
<1>8. CASE UFingerprint
  <2>0. PICK g \in BOOLEAN : g = ((Stateful /\ uproc.global # udisk.cid)
                                 \/ (Threads /\ uproc.thread # udisk.cid))
    OBVIOUS
  <2> DEFINE q == [uproc EXCEPT !.phase = "load", !.fp = udisk.cid, !.gap = g]
  <2>1. q \in Processes /\ q.phase = "load"
    BY <1>t DEF Processes, Phases
  <2>2. q.fp = udisk.cid /\ q.sfp = uproc.sfp /\ q.cfg = uproc.cfg /\ q.site = uproc.site
    BY <1>t DEF Processes
  <2>3. Goes(q) /\ uproc.phase = "fingerprint"
    BY <1>8, <2>0 DEF UFingerprint
  <2>4. q.gap = g /\ q.global = uproc.global /\ q.thread = uproc.thread /\ q.renewed = FALSE
    BY <1>t, <2>3 DEF Processes, StartInv, GapIsKnown, GapOf
  <2> HIDE DEF q
  <2>5. GapOf(q)
    BY <2>0, <2>1, <2>2, <2>4 DEF GapOf
  <2> QED BY <2>1, <2>2, <2>3, <2>5, EarlyStep DEF Loaded
<1>9. CASE ULoad
  <2> DEFINE q == [uproc EXCEPT !.phase = "site", !.c = udisk.c, !.cfg = udisk.cid]
  <2>1. q \in Processes /\ q.phase = "site" /\ q.c = udisk.c /\ q.cfg = udisk.cid
    BY <1>t DEF Processes, Phases
  <2>2. q.fp = uproc.fp /\ q.sfp = uproc.sfp /\ q.site = uproc.site
    BY <1>t DEF Processes
  <2>3. uproc.phase = "load" /\ (Exits("config") \/ (LoadOk(udisk.c) /\ Goes(q)))
    BY <1>9 DEF ULoad
  <2> HIDE DEF q
  <2>4. ASSUME LoadOk(udisk.c), Goes(q) PROVE StartInv'
    <3>1. uproc' = q /\ UNCHANGED <<udisk, udump>>
      BY <2>4 DEF Goes
    <3>2. UTypeOK'
      BY <2>1, <3>1 DEF StartInv, UTypeOK
    <3>3. VersionsInOrder'
      BY <1>t, <2>1, <2>2, <3>1 DEF StartInv, VersionsInOrder
    <3>4. ChecksHold' /\ NothingMissed'
      BY <2>1, <2>4, <3>1 DEF ChecksHold, NothingMissed, Checked, Built
    <3>5. DumpIsBorneOut'
      BY <2>1, <3>1 DEF StartInv, DumpIsBorneOut, Built
    <3>6. q.renewed = uproc.renewed /\ q.gap = uproc.gap /\ q.global = uproc.global
          /\ q.thread = uproc.thread /\ q.fp = uproc.fp
      BY <1>t DEF q, Processes
    <3>7. GapIsKnown'
      BY <1>t, <2>3, <2>1, <2>4, <3>6, GapKept, GapGoes DEF StartInv, GapIsKnown, Starting
    <3> QED BY <3>2, <3>3, <3>4, <3>5, <3>7 DEF StartInv
  <2> QED BY <2>3, <2>4, ExitStep DEF Reasons
<1>10. CASE USiteFingerprint
  <2> DEFINE q == [uproc EXCEPT !.phase = "check", !.sfp = udisk.sid]
  <2>1. q \in Processes /\ q.phase = "check" /\ q.sfp = udisk.sid
    BY <1>t DEF Processes, Phases
  <2>2. q.fp = uproc.fp /\ q.cfg = uproc.cfg /\ q.site = uproc.site /\ q.c = uproc.c
    BY <1>t DEF Processes
  <2>3. uproc' = q /\ uproc.phase = "site" /\ UNCHANGED <<udisk, udump>>
    BY <1>10 DEF USiteFingerprint, Goes
  <2> HIDE DEF q
  <2>4. UTypeOK'
    BY <2>1, <2>3 DEF StartInv, UTypeOK
  <2>5. VersionsInOrder'
    BY <1>t, <2>1, <2>2, <2>3 DEF StartInv, VersionsInOrder, Loaded
  <2>6. ChecksHold' /\ NothingMissed'
    BY <2>1, <2>2, <2>3 DEF StartInv, ChecksHold, NothingMissed, Loaded, Checked, Built
  <2>7. DumpIsBorneOut'
    BY <2>1, <2>2, <2>3 DEF StartInv, DumpIsBorneOut, Built
  <2>8. Goes(q) /\ q.renewed = uproc.renewed /\ q.gap = uproc.gap /\ q.global = uproc.global
        /\ q.thread = uproc.thread
    BY <1>10, <1>t DEF q, Processes, USiteFingerprint
  <2>9. GapIsKnown'
    BY <1>t, <2>1, <2>2, <2>3, <2>8, GapKept, GapGoes DEF StartInv, GapIsKnown, Starting
  <2> QED BY <2>4, <2>5, <2>6, <2>7, <2>9 DEF StartInv
<1>11. CASE UCheck
  <2> DEFINE q == [uproc EXCEPT !.phase = "build", !.site = udisk.sid]
  <2>1. q \in Processes /\ q.phase = "build" /\ q.site = udisk.sid
    BY <1>t DEF Processes, Phases
  <2>2. q.fp = uproc.fp /\ q.sfp = uproc.sfp /\ q.cfg = uproc.cfg /\ q.c = uproc.c
    BY <1>t DEF Processes
  <2>3. /\ uproc.phase = "check"
        /\ Exits("site") \/ Exits("compress") \/ (SiteOk(uproc.c, udisk.s) /\ Goes(q))
    BY <1>11 DEF UCheck
  <2> HIDE DEF q
  <2>4. ASSUME SiteOk(uproc.c, udisk.s), Goes(q) PROVE StartInv'
    <3>1. uproc' = q /\ UNCHANGED <<udisk, udump>>
      BY <2>4 DEF Goes
    <3>2. UTypeOK'
      BY <2>1, <3>1 DEF StartInv, UTypeOK
    <3>3. VersionsInOrder'
      BY <1>t, <2>1, <2>2, <2>3, <3>1 DEF StartInv, VersionsInOrder, Loaded
    <3>4. ChecksHold' /\ NothingMissed'
      BY <2>1, <2>2, <2>3, <2>4, <3>1 DEF StartInv, ChecksHold, NothingMissed, Loaded, Built
    <3>5. DumpIsBorneOut'
      BY <2>1, <2>2, <2>3, <2>4, <3>1
      DEF StartInv, ChecksHold, DumpIsBorneOut, DumpPasses, Loaded, Built
    <3>6. q.renewed = uproc.renewed /\ q.gap = uproc.gap /\ q.global = uproc.global
          /\ q.thread = uproc.thread /\ q.fp = uproc.fp
      BY <1>t DEF q, Processes
    <3>7. GapIsKnown'
      BY <1>t, <2>3, <2>1, <2>4, <3>6, GapKept, GapGoes DEF StartInv, GapIsKnown, Starting
    <3> QED BY <3>2, <3>3, <3>4, <3>5, <3>7 DEF StartInv
  <2> QED BY <2>3, <2>4, ExitStep DEF Reasons
<1>12. CASE UBuild
  <2> DEFINE q == [uproc EXCEPT !.phase = "bind"]
  <2>1. q \in Processes /\ q.phase = "bind"
    BY <1>t DEF Processes, Phases
  <2>2. /\ q.fp = uproc.fp /\ q.sfp = uproc.sfp /\ q.cfg = uproc.cfg /\ q.c = uproc.c
        /\ q.site = uproc.site
    BY <1>t DEF Processes
  <2>3. /\ uproc.phase = "build"
        /\ \/ Exits("build") \/ Exits("handler") \/ Exits("flash_secret")
           \/ (\A r \in uproc.c.routes : Servable(r)) /\ Goes(q)
    BY <1>12 DEF UBuild
  <2> HIDE DEF q
  <2>4. ASSUME \A r \in uproc.c.routes : Servable(r), Goes(q) PROVE StartInv'
    <3>1. uproc' = q /\ UNCHANGED <<udisk, udump>>
      BY <2>4 DEF Goes
    <3>2. UTypeOK'
      BY <2>1, <3>1 DEF StartInv, UTypeOK
    <3>3. VersionsInOrder'
      BY <1>t, <2>1, <2>2, <2>3, <3>1 DEF StartInv, VersionsInOrder, Loaded
    <3>4. ChecksHold' /\ NothingMissed'
      BY <2>1, <2>2, <2>3, <2>4, <3>1 DEF StartInv, ChecksHold, NothingMissed, Loaded, Checked
    <3>5. DumpIsBorneOut'
      BY <2>1, <2>2, <2>3, <2>4, <3>1 DEF StartInv, DumpIsBorneOut
    <3>6. q.renewed = uproc.renewed /\ q.gap = uproc.gap /\ q.global = uproc.global
          /\ q.thread = uproc.thread /\ q.fp = uproc.fp
      BY <1>t DEF q, Processes
    <3>7. GapIsKnown'
      BY <1>t, <2>3, <2>1, <2>4, <3>6, GapKept, GapGoes DEF StartInv, GapIsKnown, Starting
    <3> QED BY <3>2, <3>3, <3>4, <3>5, <3>7 DEF StartInv
  <2> QED BY <2>3, <2>4, ExitStep DEF Reasons
<1>13. CASE UBind
  <2> DEFINE q == [uproc EXCEPT !.phase = "serving", !.fp = uproc.fp, !.sfp = uproc.sfp]
  <2>1. q \in Processes /\ q.phase = "serving" /\ q.fp = uproc.fp /\ q.sfp = uproc.sfp
    BY <1>t DEF Processes, Phases
  <2>2. q.cfg = uproc.cfg /\ q.c = uproc.c /\ q.site = uproc.site
    BY <1>t DEF Processes
  <2>3. uproc.phase = "bind" /\ (Exits("bind") \/ Goes(q))
    BY <1>13 DEF UBind, SeenRead
  <2> HIDE DEF q
  <2>4. ASSUME Goes(q) PROVE StartInv'
    <3>1. uproc' = q /\ UNCHANGED <<udisk, udump>>
      BY <2>4 DEF Goes
    <3>2. UTypeOK'
      BY <2>1, <3>1 DEF StartInv, UTypeOK
    <3>3. VersionsInOrder'
      BY <1>t, <2>1, <2>2, <2>3, <3>1 DEF StartInv, VersionsInOrder
    <3>4. ChecksHold' /\ DumpIsBorneOut'
      BY <2>1, <2>2, <2>3, <3>1 DEF StartInv, ChecksHold, DumpIsBorneOut, Loaded, Checked, Built
    <3>6. q.renewed = uproc.renewed /\ q.gap = uproc.gap /\ q.global = uproc.global
          /\ q.thread = uproc.thread /\ q.fp = uproc.fp
      BY <1>t DEF q, Processes
    <3>7. GapIsKnown'
      BY <1>t, <2>1, <2>3, <2>4, <3>6, GapKept, GapGoes DEF StartInv, GapIsKnown, Starting
    <3>5. NothingMissed'
      <4>1. uproc.fp = udisk.cid /\ uproc.sfp = udisk.sid
              => uproc.cfg = udisk.cid /\ uproc.site = udisk.sid
        BY <1>t, <2>3 DEF StartInv, VersionsInOrder, Loaded
      <4>2. uproc.renewed = FALSE /\ (~uproc.gap => (Stateful => uproc.global = uproc.fp) /\ (Threads => uproc.thread = uproc.fp))
        BY <2>3 DEF StartInv, GapIsKnown, GapOf, Starting
      <4>3. ubin' = ubin
        BY <2>4 DEF Goes
      <4>4. uproc.fp = udisk.cid /\ uproc.sfp = udisk.sid => StateIsCurrent'
        BY <2>1, <2>2, <3>1, <3>6, <4>1, <4>2, <4>3 DEF StateIsCurrent, Stateful, Threads
      <4> QED BY <2>1, <2>2, <3>1, <4>1, <4>4 DEF NothingMissed, Reported
    <3> QED BY <3>2, <3>3, <3>4, <3>5, <3>7 DEF StartInv
  <2> QED BY <2>3, <2>4, ExitStep DEF Reasons
<1>14. CASE UReload
  <2> DEFINE q == SeenAgain
  <2>0. PICK g \in Nat : g = IF Stateful /\ ubin.hook THEN udisk.cid ELSE uproc.global
    BY <1>t DEF Processes
  <2> DEFINE r == [uproc EXCEPT !.fp = udisk.cid, !.sfp = udisk.sid, !.c = udisk.c, !.cfg = udisk.cid,
                            !.site = udisk.sid, !.renewed = TRUE, !.global = g]
  <2>1. /\ q \in Processes /\ q.phase = "serving" /\ q.fp = udisk.cid /\ q.sfp = udisk.sid
        /\ q.cfg = uproc.cfg /\ q.c = uproc.c /\ q.site = uproc.site /\ uproc.phase = "serving"
    BY <1>t, <1>14 DEF UReload, SeenAgain, Processes
  <2>6. Renewed = r
    BY <1>t, <2>0 DEF Renewed, Installed, SeenAgain, Processes
  <2>2. \/ ~Reloads(udisk.c, udisk.s) /\ Goes(q)
        \/ UNCHANGED uvars
        \/ Reloads(udisk.c, udisk.s) /\ Goes(r)
    BY <1>14, <2>6 DEF UReload
  <2> HIDE DEF q
  <2>3. ASSUME ~Reloads(udisk.c, udisk.s), Goes(q) PROVE StartInv'
    <3>1. uproc' = q /\ UNCHANGED <<udisk, udump>>
      BY <2>3 DEF Goes
    <3>2. UTypeOK'
      BY <2>1, <3>1 DEF StartInv, UTypeOK
    <3>3. VersionsInOrder'
      BY <1>t, <2>1, <3>1 DEF StartInv, VersionsInOrder
    <3>4. ChecksHold' /\ DumpIsBorneOut'
      BY <2>1, <3>1 DEF StartInv, ChecksHold, DumpIsBorneOut
    <3>5. NothingMissed'
      BY <2>3, <3>1 DEF NothingMissed, Reloads
    <3>6. GapOf(q)
      BY <2>1 DEF GapOf, Starting
    <3> QED BY <2>3, <3>2, <3>3, <3>4, <3>5, <3>6, GapGoes DEF StartInv
  <2>4. ASSUME Reloads(udisk.c, udisk.s), Goes(r) PROVE StartInv'
    <3>1. r \in Processes /\ r.phase = "serving" /\ r.renewed = TRUE /\ r.global = g
      BY <1>t, <2>1 DEF Processes
    <3>2. /\ r.fp = udisk.cid /\ r.sfp = udisk.sid
          /\ r.cfg = udisk.cid /\ r.site = udisk.sid /\ r.c = udisk.c
      BY <1>t, <2>1 DEF Processes
    <3> HIDE DEF r
    <3>3. uproc' = r /\ UNCHANGED <<udisk, udump, ubin>>
      BY <2>4 DEF Goes
    <3>4. UTypeOK'
      BY <3>1, <3>3 DEF StartInv, UTypeOK
    <3>5. VersionsInOrder'
      BY <1>t, <3>1, <3>2, <3>3 DEF StartInv, VersionsInOrder
    <3>8. StateIsCurrent'
      BY <2>0, <3>1, <3>2, <3>3 DEF StateIsCurrent, Stateful, Threads
    <3>6. ChecksHold' /\ NothingMissed'
      BY <2>4, <3>1, <3>2, <3>3, <3>8 DEF ChecksHold, NothingMissed, Reloads
    <3>7. DumpIsBorneOut'
      BY <2>4, <3>1, <3>2, <3>3 DEF StartInv, DumpIsBorneOut, DumpPasses, Reloads
    <3>9. GapOf(r)
      BY <3>1 DEF GapOf, Starting
    <3> QED BY <2>4, <3>4, <3>5, <3>6, <3>7, <3>9, GapGoes DEF StartInv
  <2>5. CASE UNCHANGED uvars
    <3>1. UNCHANGED <<udisk, uproc, ubin, udump>>
      BY <2>5 DEF uvars
    <3>2. UTypeOK' /\ VersionsInOrder' /\ ChecksHold' /\ DumpIsBorneOut'
      BY <3>1 DEF StartInv, UTypeOK, VersionsInOrder, ChecksHold, DumpIsBorneOut
    <3> QED BY <3>1, <3>2, MissedRests, GapRests DEF StartInv
  <2> QED BY <2>2, <2>3, <2>4, <2>5
<1>15. CASE UEnd
  <2>1. NotRunning.fp = 0 /\ NotRunning.sfp = 0 /\ NotRunning.cfg = 0 /\ NotRunning.site = 0
    BY DEF NotRunning
  <2> QED BY <1>15, <2>1, StoppedOK, StoppedGap, EarlyStep DEF UEnd, Loaded
<1>16. CASE UNCHANGED uvars
  <2>1. UNCHANGED <<udisk, uproc, ubin, udump>>
    BY <1>16 DEF uvars
  <2>2. UTypeOK' /\ VersionsInOrder' /\ ChecksHold' /\ DumpIsBorneOut'
    BY <2>1 DEF StartInv, UTypeOK, VersionsInOrder, ChecksHold, DumpIsBorneOut
  <2> QED BY <2>1, <2>2, MissedRests, GapRests DEF StartInv
<1> QED BY <1>1, <1>2, <1>3, <1>4, <1>6, <1>7, <1>8, <1>9, <1>10, <1>11, <1>12, <1>13, <1>14,
          <1>15, <1>16 DEF UNext

\* run_app_with_shutdown: whatever is edited between the reads of a start, and whatever
\* reload then refuses, a process that is owed no report runs what is on disk or what is
\* there is refused; what its init functions built is of that config too, unless it was
\* edited between their read and the fingerprint or no hook brings it along; and no process
\* runs files that a --dump-config refused.
THEOREM StartMissesOnlyTheGap == USpec => []UMissesOnlyTheGap
<1>1. StartInv => UMissesOnlyTheGap
  BY DEF StartInv, NothingMissed, DumpIsBorneOut, UMissesOnlyTheGap, Built
<1> QED BY <1>1, StartInitInv, StartNextInv, PTL DEF USpec

-----------------------------------------------------------------------------
(* AnalyticsLog.  No line is lost because the file the writer holds, or is   *)
(* about to hold once the lock is released, is the live one or the newest    *)
(* renamed one before its compression begins.                               *)

RotatedFile(n) == [plain : 0..n,
                   gz : [state : {"none", "part", "whole"}, lines : Seq(Nat)]]

LTypeOK ==
    /\ lqueue \in Seq(Nat) /\ lnext \in Nat
    /\ linode \in Seq(Seq(Nat))
    /\ llive \in 0..Len(linode)
    /\ lhandle \in 1..Len(linode)
    /\ lreopen \in {"idle", "signalled", "locked", "opened"}
    /\ lfresh \in 0..Len(linode) /\ (lreopen = "opened" => lfresh # 0)
    /\ ltool \in {"idle", "renamed", "waiting", "compressing", "failed"}
    /\ lrot \in Seq(RotatedFile(Len(linode)))

\* Where the writer's next line goes.
HeldInode == IF lreopen = "opened" THEN lfresh ELSE lhandle

\* While the live path is gone, the newest renamed file is the one held, and nothing
\* has been compressed of it.
HeldIsKept ==
    IF llive # 0 THEN HeldInode = llive
    ELSE /\ lrot # <<>>
         /\ Last(lrot).plain = HeldInode
         /\ Last(lrot).gz = NoGz
         /\ ltool \in {"renamed", "waiting", "failed"}

\* A reopen that has not opened the path finds it gone, and only a reopen brings it back.
ReopenFindsItGone ==
    /\ lreopen \in {"signalled", "locked"} => llive = 0 /\ ltool = "waiting"
    /\ ltool \in {"renamed", "failed"} => llive = 0

\* The live file is none of the renamed ones.
LiveIsNotRotated == \A i \in DOMAIN lrot : llive # 0 => lrot[i].plain # llive

\* The file under compression is still there, and a whole gzip holds all of it.
CompressionIsWhole ==
    /\ ltool = "waiting" => lrot # <<>> /\ Last(lrot).plain # 0 /\ Last(lrot).gz = NoGz
    /\ ltool = "compressing" =>
          /\ lrot # <<>> /\ llive # 0 /\ Last(lrot).plain # 0
          /\ ToSet(Last(lrot).gz.lines) \subseteq ToSet(linode[Last(lrot).plain])
          /\ Last(lrot).gz.state = "whole" => Last(lrot).gz.lines = linode[Last(lrot).plain]

LogInv ==
    /\ LTypeOK /\ HeldIsKept /\ ReopenFindsItGone /\ LiveIsNotRotated
    /\ CompressionIsWhole /\ LNoLineLost

\* The renamed files have their types.
LEMMA RotatedIs ==
  ASSUME LTypeOK
  PROVE  /\ DOMAIN lrot = 1..Len(lrot) /\ Len(lrot) \in Nat /\ Len(linode) \in Nat
         /\ \A i \in DOMAIN lrot :
               /\ lrot[i] \in RotatedFile(Len(linode))
               /\ lrot[i].plain \in 0..Len(linode)
               /\ lrot[i].gz \in [state : {"none", "part", "whole"}, lines : Seq(Nat)]
  <1>1. lrot \in Seq(RotatedFile(Len(linode))) /\ linode \in Seq(Seq(Nat)) BY DEF LTypeOK
  <1>2. DOMAIN lrot = 1..Len(lrot) /\ Len(lrot) \in Nat /\ Len(linode) \in Nat BY <1>1, LenProperties
  <1>3. \A i \in DOMAIN lrot : lrot[i] \in RotatedFile(Len(linode)) BY <1>1, <1>2, ElementOfSeq
  <1> QED BY <1>2, <1>3 DEF RotatedFile

\* A line added to a file is in it, and so is what was there.
LEMMA LineAdded ==
  ASSUME NEW S, NEW s \in Seq(S), NEW e \in S
  PROVE  ToSet(s) \subseteq ToSet(Append(s, e)) /\ e \in ToSet(Append(s, e))
  <1>1. /\ DOMAIN s = 1..Len(s) /\ Len(s) \in Nat
        /\ DOMAIN Append(s, e) = 1..(Len(s) + 1)
        /\ \A i \in 1..Len(s) : Append(s, e)[i] = s[i]
        /\ Append(s, e)[Len(s) + 1] = e
    BY AppendProperties, LenProperties
  <1>2. Len(s) + 1 \in DOMAIN Append(s, e) /\ DOMAIN s \subseteq DOMAIN Append(s, e) BY <1>1
  <1> QED BY <1>1, <1>2 DEF ToSet

\* Where a kept line is.
IsKept(x) ==
    \/ llive # 0 /\ x \in ToSet(linode[llive])
    \/ \E i \in DOMAIN lrot :
          \/ lrot[i].plain # 0 /\ x \in ToSet(linode[lrot[i].plain])
          \/ x \in ToSet(lrot[i].gz.lines)

\* A line is kept when one of the files has it.
LEMMA KeptIs == \A x : x \in KeptLines <=> IsKept(x)
  BY DEF KeptLines, IsKept

\* A gzip that changes without losing what it had, or a file that only grows, keeps every
\* line.
LEMMA NothingLeaves ==
  ASSUME LNoLineLost, lwritten' = lwritten, \A x : IsKept(x) => IsKept(x)'
  PROVE  LNoLineLost'
  <1>1. \A x : x \in KeptLines' <=> IsKept(x)' BY KeptIs DEF KeptLines, IsKept
  <1> QED BY <1>1, KeptIs DEF LNoLineLost

\* Steps of the queue, of a read and of the phases leave every file where it is.
LEMMA FilesStay ==
  ASSUME LogInv, UNCHANGED <<lfiles, lwritten>>
  PROVE  LNoLineLost' /\ LiveIsNotRotated'
  BY DEF LogInv, LNoLineLost, KeptLines, LiveIsNotRotated, lfiles

\* A line that is queued, or dropped, is in no file yet.
LEMMA EmitLineStep ==
  ASSUME LogInv, EmitLine PROVE LogInv'
  <1> USE DEF LogInv
  <1>1. UNCHANGED <<lfiles, lwritten, lreopen, ltool>> BY DEF EmitLine
  <1>2. LTypeOK'
    <2>1. lnext' \in Nat BY DEF EmitLine, LTypeOK
    <2>2. lqueue' \in Seq(Nat) BY DEF EmitLine, LTypeOK
    <2> QED BY <1>1, <2>1, <2>2 DEF LTypeOK, lfiles
  <1> QED BY <1>1, <1>2, FilesStay
        DEF HeldIsKept, HeldInode, ReopenFindsItGone, CompressionIsWhole, lfiles

\* The writer adds its line to the file it holds, which is kept.
LEMMA WriteLineStep ==
  ASSUME LogInv, WriteLine PROVE LogInv'
  <1> USE DEF LogInv
  <1>0. /\ UNCHANGED <<llive, lhandle, lreopen, lfresh, ltool, lrot, lnext>>
        /\ lqueue # <<>> /\ lreopen \notin {"locked", "opened"}
        /\ linode' = [linode EXCEPT ![lhandle] = Append(linode[lhandle], Head(lqueue))]
        /\ lwritten' = lwritten \cup {Head(lqueue)}
    BY DEF WriteLine, LockIsFree
  <1>1. /\ Len(linode') = Len(linode) /\ linode' \in Seq(Seq(Nat))
        /\ Head(lqueue) \in Nat /\ Tail(lqueue) \in Seq(Nat)
    BY <1>0 DEF LTypeOK
  <1>2. LTypeOK' BY <1>0, <1>1 DEF LTypeOK, WriteLine
  <1>3. HeldIsKept' /\ ReopenFindsItGone' /\ LiveIsNotRotated'
    BY <1>0 DEF HeldIsKept, HeldInode, ReopenFindsItGone, LiveIsNotRotated
  <1>4. CompressionIsWhole'
    <2>1. ltool = "compressing" => Last(lrot).plain # lhandle
      BY <1>0 DEF CompressionIsWhole, LiveIsNotRotated, HeldIsKept, HeldInode, Last, LTypeOK
    <2>2. ltool = "compressing" => linode'[Last(lrot).plain] = linode[Last(lrot).plain]
      BY <2>1, <1>0 DEF LTypeOK
    <2> QED BY <2>2, <1>0 DEF CompressionIsWhole
  <1>5. \A i \in 1..Len(linode) : ToSet(linode[i]) \subseteq ToSet(linode'[i])
    <2> SUFFICES ASSUME NEW i \in 1..Len(linode)
                 PROVE  ToSet(linode[i]) \subseteq ToSet(linode'[i])
      OBVIOUS
    <2>1. CASE i = lhandle
      <3>1. linode'[i] = Append(linode[i], Head(lqueue)) /\ linode[i] \in Seq(Nat)
        BY <1>0, <2>1 DEF LTypeOK
      <3> QED BY <3>1, <1>1, LineAdded
    <2>2. CASE i # lhandle
      <3>1. linode'[i] = linode[i] BY <2>2, <1>0 DEF LTypeOK
      <3> QED BY <3>1
    <2> QED BY <2>1, <2>2
  <1>6. \A x : IsKept(x) => IsKept(x)'
    <2>1. \A i \in DOMAIN lrot : lrot[i].plain \in 0..Len(linode) BY RotatedIs
    <2>2. llive \in 0..Len(linode) /\ Len(linode) \in Nat BY DEF LTypeOK
    <2> SUFFICES ASSUME NEW x, IsKept(x) PROVE IsKept(x)' OBVIOUS
    <2>3. CASE llive # 0 /\ x \in ToSet(linode[llive])
      <3>1. llive \in 1..Len(linode) BY <2>2, <2>3
      <3> QED BY <3>1, <2>3, <1>0, <1>5 DEF IsKept
    <2>4. ASSUME NEW i \in DOMAIN lrot, lrot[i].plain # 0, x \in ToSet(linode[lrot[i].plain])
          PROVE  IsKept(x)'
      <3>1. lrot[i].plain \in 1..Len(linode) BY <2>1, <2>2, <2>4
      <3>2. x \in ToSet(linode'[lrot'[i].plain]) /\ i \in DOMAIN lrot' BY <3>1, <2>4, <1>0, <1>5
      <3> QED BY <3>2, <2>4, <1>0 DEF IsKept
    <2>5. ASSUME NEW i \in DOMAIN lrot, x \in ToSet(lrot[i].gz.lines) PROVE IsKept(x)'
      BY <2>5, <1>0 DEF IsKept
    <2> QED BY <2>3, <2>4, <2>5 DEF IsKept
  <1>7. PICK line : line = Head(lqueue) OBVIOUS
  <1>8. line \in ToSet(linode'[lhandle])
    <2>1. linode'[lhandle] = Append(linode[lhandle], Head(lqueue)) /\ linode[lhandle] \in Seq(Nat)
      BY <1>0 DEF LTypeOK
    <2> QED BY <2>1, <1>1, <1>7, LineAdded
  <1>9. IsKept(line)'
    <2>1. CASE llive # 0 BY <2>1, <1>0, <1>8 DEF IsKept, HeldIsKept, HeldInode
    <2>2. CASE llive = 0
      <3>1. Len(lrot) \in DOMAIN lrot /\ lrot[Len(lrot)].plain = lhandle
        BY <2>2, <1>0 DEF HeldIsKept, HeldInode, Last, LTypeOK
      <3>2. lhandle # 0 BY DEF LTypeOK
      <3> QED BY <3>1, <3>2, <1>0, <1>8 DEF IsKept
    <2> QED BY <2>1, <2>2
  <1>10. \A x : x \in KeptLines' <=> IsKept(x)' BY KeptIs DEF KeptLines, IsKept
  <1>11. LNoLineLost'
    BY <1>0, <1>6, <1>7, <1>9, <1>10, KeptIs DEF LNoLineLost
  <1> QED BY <1>2, <1>3, <1>4, <1>11

\* Taking the lock, releasing it with the new handle and giving up move no file.
LEMMA ReopenStep ==
  ASSUME LogInv, ReopenLock \/ ReopenSwap \/ ReopenFails PROVE LogInv'
  <1> USE DEF LogInv
  <1>0. UNCHANGED <<linode, llive, lrot, lwritten, ltool, lqueue, lnext>>
    BY DEF ReopenLock, ReopenSwap, ReopenFails, lfiles
  <1>1. LNoLineLost' /\ LiveIsNotRotated'
    BY <1>0 DEF LNoLineLost, KeptLines, LiveIsNotRotated
  <1>2. LTypeOK' BY <1>0 DEF LTypeOK, ReopenLock, ReopenSwap, ReopenFails, lfiles
  <1>3. HeldIsKept' /\ ReopenFindsItGone'
    BY <1>0 DEF LTypeOK, HeldIsKept, HeldInode, ReopenFindsItGone, ReopenLock, ReopenSwap,
                ReopenFails, lfiles
  <1> QED BY <1>0, <1>1, <1>2, <1>3 DEF CompressionIsWhole

\* The path that is created is a file of its own, held from the moment it is opened.
LEMMA ReopenOpenStep ==
  ASSUME LogInv, ReopenOpen PROVE LogInv'
  <1> USE DEF LogInv
  <1>0. /\ llive = 0 /\ lreopen = "locked" /\ lreopen' = "opened"
        /\ linode' = Append(linode, <<>>) /\ llive' = Len(linode) + 1 /\ lfresh' = llive'
        /\ UNCHANGED <<lqueue, lnext, lhandle, ltool, lrot, lwritten>>
    BY DEF ReopenOpen, ReopenFindsItGone
  <1>1. linode \in Seq(Seq(Nat)) /\ <<>> \in Seq(Nat) BY DEF LTypeOK
  <1>2. /\ Len(linode') = Len(linode) + 1 /\ linode' \in Seq(Seq(Nat))
        /\ \A i \in 1..Len(linode) : linode'[i] = linode[i]
    BY <1>0, <1>1
  <1>3. Len(linode) \in Nat BY <1>1
  <1>4. \A i \in DOMAIN lrot : lrot[i].plain \in 0..Len(linode) BY RotatedIs
  <1>5. RotatedFile(Len(linode)) \subseteq RotatedFile(Len(linode'))
    BY <1>2, <1>3 DEF RotatedFile
  <1>6. LTypeOK'
    <2>1. lrot' \in Seq(RotatedFile(Len(linode')))
      <3>1. \A S, T : S \subseteq T => Seq(S) \subseteq Seq(T) OBVIOUS
      <3> QED BY <3>1, <1>0, <1>5 DEF LTypeOK
    <2> QED BY <2>1, <1>0, <1>2, <1>3 DEF LTypeOK
  <1>7. LiveIsNotRotated'
    BY <1>0, <1>3, <1>4 DEF LiveIsNotRotated
  <1>8. HeldIsKept' /\ ReopenFindsItGone'
    BY <1>0, <1>3 DEF HeldIsKept, HeldInode, ReopenFindsItGone
  <1>9. CompressionIsWhole' BY <1>0 DEF CompressionIsWhole
  <1>10. \A x : IsKept(x) => IsKept(x)'
    <2>1. \A i \in DOMAIN lrot : lrot[i].plain # 0 => linode'[lrot[i].plain] = linode[lrot[i].plain]
      BY <1>2, <1>3, <1>4
    <2> QED BY <1>0, <2>1 DEF IsKept
  <1> QED BY <1>0, <1>6, <1>7, <1>8, <1>9, <1>10, NothingLeaves

\* A renamed file is as kept as it was while it was live.
LEMMA RotateFileStep ==
  ASSUME LogInv, RotateFile PROVE LogInv'
  <1> USE DEF LogInv
  <1> DEFINE r == [plain |-> llive, gz |-> NoGz]
  <1>0. /\ ltool = "idle" /\ llive # 0 /\ llive' = 0 /\ ltool' = "renamed"
        /\ lrot' = Append(lrot, r)
        /\ UNCHANGED <<lqueue, lnext, linode, lhandle, lreopen, lfresh, lwritten>>
    BY DEF RotateFile
  <1>1. r \in RotatedFile(Len(linode)) BY DEF LTypeOK, RotatedFile, NoGz
  <1>2. /\ lrot' \in Seq(RotatedFile(Len(linode)))
        /\ Len(lrot') = Len(lrot) + 1 /\ lrot'[Len(lrot) + 1] = r
        /\ \A i \in DOMAIN lrot : i \in DOMAIN lrot' /\ lrot'[i] = lrot[i]
        /\ Len(lrot) + 1 \in DOMAIN lrot' /\ lrot' # <<>>
    <2>1. lrot \in Seq(RotatedFile(Len(linode))) BY DEF LTypeOK
    <2>2. \A S, e : lrot \in Seq(S) /\ e \in S =>
             /\ Append(lrot, e) \in Seq(S) /\ Append(lrot, e) # <<>>
             /\ Len(Append(lrot, e)) = Len(lrot) + 1 /\ Append(lrot, e)[Len(lrot) + 1] = e
             /\ DOMAIN Append(lrot, e) = 1..(Len(lrot) + 1)
             /\ \A i \in 1..Len(lrot) : Append(lrot, e)[i] = lrot[i]
      BY AppendProperties
    <2>3. DOMAIN lrot = 1..Len(lrot) /\ Len(lrot) \in Nat BY <2>1, LenProperties
    <2> HIDE DEF r
    <2> QED BY <2>1, <2>2, <2>3, <1>0, <1>1
  <1>3. LTypeOK' BY <1>0, <1>2 DEF LTypeOK
  <1>4. Last(lrot') = r BY <1>2 DEF Last
  <1>5. lreopen \notin {"signalled", "locked"} BY <1>0 DEF ReopenFindsItGone
  <1>6. HeldIsKept' BY <1>0, <1>2, <1>4, <1>5 DEF HeldIsKept, HeldInode
  <1>7. LiveIsNotRotated' /\ CompressionIsWhole' /\ ReopenFindsItGone'
    BY <1>0 DEF LiveIsNotRotated, CompressionIsWhole, ReopenFindsItGone
  <1>8. \A x : IsKept(x) => IsKept(x)'
    <2> SUFFICES ASSUME NEW x, IsKept(x) PROVE IsKept(x)' OBVIOUS
    <2>1. CASE x \in ToSet(linode[llive])
      BY <2>1, <1>0, <1>2 DEF IsKept
    <2>2. CASE \E i \in DOMAIN lrot :
                  \/ lrot[i].plain # 0 /\ x \in ToSet(linode[lrot[i].plain])
                  \/ x \in ToSet(lrot[i].gz.lines)
      BY <2>2, <1>0, <1>2 DEF IsKept
    <2> QED BY <2>1, <2>2 DEF IsKept
  <1> QED BY <1>0, <1>3, <1>6, <1>7, <1>8, NothingLeaves

\* The signal and the wait move no file; compression begins when the path is back.
LEMMA ToolStep ==
  ASSUME LogInv, SignalProcess \/ WaitEnds \/ RotateAgain PROVE LogInv'
  <1> USE DEF LogInv
  <1>0. UNCHANGED <<lfiles, lwritten, lqueue, lnext>> BY DEF SignalProcess, WaitEnds, RotateAgain
  <1>1. LTypeOK'
    BY <1>0 DEF LTypeOK, SignalProcess, WaitEnds, RotateAgain, lfiles
  <1>2. HeldIsKept'
    BY <1>0 DEF HeldIsKept, HeldInode, ReopenFindsItGone, SignalProcess, WaitEnds, RotateAgain,
                lfiles
  <1>3. ReopenFindsItGone'
    BY <1>0 DEF ReopenFindsItGone, SignalProcess, WaitEnds, RotateAgain, lfiles
  <1>4. CompressionIsWhole'
    <2>1. CASE SignalProcess \/ RotateAgain
      <3>1. llive = 0 /\ HeldInode # 0
        BY <2>1 DEF SignalProcess, RotateAgain, ReopenFindsItGone, HeldInode, LTypeOK
      <3> QED BY <2>1, <3>1, <1>0 DEF SignalProcess, RotateAgain, CompressionIsWhole, HeldIsKept,
                lfiles
    <2>2. CASE WaitEnds
      <3>1. NoGz.state # "whole" /\ ToSet(NoGz.lines) = {} BY DEF NoGz, ToSet
      <3> QED BY <2>2, <3>1, <1>0 DEF WaitEnds, CompressionIsWhole, lfiles
    <2> QED BY <2>1, <2>2
  <1> QED BY <1>0, <1>1, <1>2, <1>3, <1>4, FilesStay

\* Part of a file has none but its lines, and all of it has all.
LEMMA PartOf ==
  ASSUME NEW s \in Seq(Nat), NEW n \in {0, Len(s)}
  PROVE  /\ SubSeq(s, 1, n) \in Seq(Nat)
         /\ ToSet(SubSeq(s, 1, n)) \subseteq ToSet(s)
         /\ n = Len(s) => SubSeq(s, 1, n) = s
  <1>1. n \in Nat /\ n <= Len(s) OBVIOUS
  <1>2. /\ SubSeq(s, 1, n) \in Seq(Nat) /\ DOMAIN SubSeq(s, 1, n) = 1..n
        /\ Len(SubSeq(s, 1, n)) = n
        /\ \A i \in 1..n : SubSeq(s, 1, n)[i] = s[i]
    BY <1>1, SMT
  <1>3. ToSet(SubSeq(s, 1, n)) \subseteq ToSet(s)
    <2>1. 1..n \subseteq DOMAIN s BY <1>1
    <2> QED BY <1>2, <2>1 DEF ToSet
  <1>4. n = Len(s) => SubSeq(s, 1, n) = s
    BY <1>2, SeqEqual
  <1> QED BY <1>2, <1>3, <1>4

\* What one step of the compression does to entry k, whose file has the lines c.
GzTouches(e, k, c) ==
    /\ lrot' = [lrot EXCEPT ![k] = e]
    /\ \/ /\ ltool' = "compressing" /\ e.plain = lrot[k].plain
          /\ ToSet(e.gz.lines) \subseteq ToSet(c)
          /\ e.gz.state = "whole" => e.gz.lines = c
       \/ ltool' = "idle" /\ e.plain = 0 /\ e.gz.lines = c

\* Compression: the newest renamed file is the only one touched, and it goes when its gzip
\* holds the whole of it.
LEMMA GzStep ==
  ASSUME LogInv, GzStart \/ GzGrows \/ GzEnds PROVE LogInv'
  <1> USE DEF LogInv
  <1> DEFINE k == Len(lrot)
             c == linode[Last(lrot).plain]
  <1>0. /\ ltool = "compressing" /\ llive # 0 /\ Last(lrot) = lrot[k]
        /\ lrot # <<>> /\ lrot[k].plain # 0
        /\ UNCHANGED <<lqueue, lnext, linode, llive, lhandle, lreopen, lfresh, lwritten>>
    BY DEF GzStart, GzGrows, GzEnds, CompressionIsWhole, Last
  <1>1. /\ DOMAIN lrot = 1..k /\ k \in DOMAIN lrot
        /\ lrot[k] \in RotatedFile(Len(linode))
        /\ lrot[k].plain \in 1..Len(linode)
        /\ lrot[k].gz \in [state : {"none", "part", "whole"}, lines : Seq(Nat)]
        /\ c \in Seq(Nat)
    <2>1. lrot \in Seq(RotatedFile(Len(linode))) BY DEF LTypeOK
    <2>2. k \in DOMAIN lrot BY <2>1, <1>0, RotatedIs, EmptySeq
    <2>3. lrot[k].plain \in 1..Len(linode) BY <2>2, <1>0, RotatedIs
    <2> QED BY <2>2, <2>3, <1>0, RotatedIs, SMTT(30) DEF LTypeOK
  <1>2. \E e \in RotatedFile(Len(linode)) : GzTouches(e, k, c)
    <2>1. CASE GzStart
      <3>1. PICK n \in {0, Len(c)} :
               lrot' = [lrot EXCEPT ![k] = [lrot[k] EXCEPT !.gz =
                           [state |-> IF n = Len(c) THEN "whole" ELSE "part",
                            lines |-> SubSeq(c, 1, n)]]]
        BY <2>1 DEF GzStart
      <3> DEFINE e == [lrot[k] EXCEPT !.gz = [state |-> IF n = Len(c) THEN "whole" ELSE "part",
                                              lines |-> SubSeq(c, 1, n)]]
      <3>2. e \in RotatedFile(Len(linode)) BY <1>1, PartOf DEF RotatedFile
      <3>3. /\ e.plain = lrot[k].plain /\ e.gz.lines = SubSeq(c, 1, n)
            /\ e.gz.state = "whole" => n = Len(c)
        BY <1>1 DEF RotatedFile
      <3>4. ltool' = "compressing" BY <2>1 DEF GzStart
      <3> HIDE DEF e
      <3>5. GzTouches(e, k, c) BY <3>1, <3>3, <3>4, <1>1, PartOf DEF GzTouches, e
      <3> QED BY <3>2, <3>5
    <2>2. CASE GzGrows
      <3> DEFINE e == [lrot[k] EXCEPT !.gz = [state |-> "whole", lines |-> c]]
      <3>1. lrot' = [lrot EXCEPT ![k] = e] /\ ltool' = "compressing" BY <2>2 DEF GzGrows
      <3>2. e \in RotatedFile(Len(linode)) BY <1>1 DEF RotatedFile
      <3>3. e.plain = lrot[k].plain /\ e.gz.lines = c BY <1>1 DEF RotatedFile
      <3> HIDE DEF e
      <3> QED BY <3>1, <3>2, <3>3 DEF GzTouches
    <2>3. CASE GzEnds
      <3> DEFINE e == [lrot[k] EXCEPT !.plain = 0]
      <3>1. lrot' = [lrot EXCEPT ![k] = e] /\ ltool' = "idle" BY <2>3 DEF GzEnds
      <3>2. e \in RotatedFile(Len(linode)) /\ e.plain = 0 /\ e.gz = lrot[k].gz
        <4>1. 0 \in 0..Len(linode) BY RotatedIs
        <4> QED BY <1>1, <4>1 DEF RotatedFile
      <3>3. lrot[k].gz.lines = c BY <2>3, <1>0 DEF GzEnds, CompressionIsWhole
      <3> HIDE DEF e
      <3> QED BY <3>1, <3>2, <3>3 DEF GzTouches
    <2> QED BY <2>1, <2>2, <2>3
  <1>3. PICK e \in RotatedFile(Len(linode)) : GzTouches(e, k, c) BY <1>2
  <1>4. /\ DOMAIN lrot' = DOMAIN lrot /\ Len(lrot') = k /\ lrot' # <<>>
        /\ lrot' \in Seq(RotatedFile(Len(linode)))
        /\ lrot'[k] = e /\ Last(lrot') = e
        /\ \A i \in DOMAIN lrot : i # k => lrot'[i] = lrot[i]
    <2>1. lrot \in Seq(RotatedFile(Len(linode))) BY DEF LTypeOK
    <2>2. lrot' = [lrot EXCEPT ![k] = e] BY <1>3 DEF GzTouches
    <2>3. lrot' \in Seq(RotatedFile(Len(linode))) /\ Len(lrot') = k
      BY <2>1, <2>2, <1>1, ExceptSeq
    <2>4. /\ DOMAIN lrot' = DOMAIN lrot /\ lrot'[k] = e
          /\ \A i \in DOMAIN lrot : i # k => lrot'[i] = lrot[i]
      BY <2>2, <1>1
    <2>5. lrot' # <<>> BY <2>3, <1>1, RotatedIs
    <2> QED BY <2>3, <2>4, <2>5 DEF Last
  <1>5. LTypeOK' BY <1>0, <1>3, <1>4 DEF LTypeOK, GzTouches
  <1>6. HeldIsKept' BY <1>0 DEF HeldIsKept, HeldInode
  <1>7. ReopenFindsItGone'
    BY <1>0, <1>3 DEF ReopenFindsItGone, GzTouches
  <1>8. LiveIsNotRotated'
    BY <1>0, <1>1, <1>3, <1>4 DEF LiveIsNotRotated, GzTouches
  <1>9. CompressionIsWhole'
    BY <1>0, <1>3, <1>4 DEF CompressionIsWhole, GzTouches
  <1>10. \A x : IsKept(x) => IsKept(x)'
    <2> SUFFICES ASSUME NEW x, IsKept(x) PROVE IsKept(x)' OBVIOUS
    <2>1. CASE llive # 0 /\ x \in ToSet(linode[llive]) BY <2>1, <1>0 DEF IsKept
    <2>2. ASSUME NEW i \in DOMAIN lrot, i # k,
                 \/ lrot[i].plain # 0 /\ x \in ToSet(linode[lrot[i].plain])
                 \/ x \in ToSet(lrot[i].gz.lines)
          PROVE  IsKept(x)'
      BY <2>2, <1>0, <1>4 DEF IsKept
    <2>3. ASSUME x \in ToSet(c) PROVE IsKept(x)'
      <3>1. \/ e.plain # 0 /\ x \in ToSet(linode'[e.plain])
            \/ x \in ToSet(e.gz.lines)
        BY <2>3, <1>0, <1>3 DEF GzTouches
      <3> QED BY <3>1, <1>1, <1>4 DEF IsKept
    <2>4. x \in ToSet(lrot[k].gz.lines) => x \in ToSet(c)
      BY <1>0 DEF CompressionIsWhole
    <2> QED BY <2>1, <2>2, <2>3, <2>4, <1>0 DEF IsKept
  <1> QED BY <1>0, <1>5, <1>6, <1>7, <1>8, <1>9, <1>10, NothingLeaves

\* A read touches no file.
LEMMA ReadStep ==
  ASSUME LogInv, UNCHANGED <<lqueue, lnext, lfiles, lreopen, ltool, lwritten>> PROVE LogInv'
  BY FilesStay DEF LogInv, LTypeOK, HeldIsKept, HeldInode, ReopenFindsItGone, CompressionIsWhole,
                   lfiles

\* No step of the process, of the rotation or of a read loses a line.
LEMMA LogNextInv ==
  ASSUME LogInv, [LNext]_lvars PROVE LogInv'
  <1>1. CASE EmitLine BY <1>1, EmitLineStep
  <1>2. CASE WriteLine BY <1>2, WriteLineStep
  <1>3. CASE ReopenLock \/ ReopenSwap \/ ReopenFails BY <1>3, ReopenStep
  <1>4. CASE ReopenOpen BY <1>4, ReopenOpenStep
  <1>5. CASE RotateFile BY <1>5, RotateFileStep
  <1>6. CASE SignalProcess \/ WaitEnds \/ RotateAgain BY <1>6, ToolStep
  <1>7. CASE GzStart \/ GzGrows \/ GzEnds BY <1>7, GzStep
  <1>8. CASE ReadLive \/ ReadList \/ ReadRotated \/ ReportExpires
    <2>1. UNCHANGED <<lqueue, lnext, lfiles, lreopen, ltool, lwritten>>
      BY <1>8 DEF ReadLive, ReadList, ReadRotated, ReportExpires
    <2> QED BY <2>1, ReadStep
  <1>9. CASE UNCHANGED lvars
    <2>1. UNCHANGED <<lqueue, lnext, lfiles, lreopen, ltool, lwritten>>
      BY <1>9 DEF lvars, lfiles
    <2> QED BY <2>1, ReadStep
  <1> QED BY <1>1, <1>2, <1>3, <1>4, <1>5, <1>6, <1>7, <1>8, <1>9 DEF LNext

\* Rotation loses no line, whatever the queue, the number of rotations and the number of
\* lines: a line the writer wrote is in the live file, in a renamed one or in its gzip.
THEOREM NoLineIsLost == LSpec => []LNoLineLost
  <1>1. LInit => LogInv
    <2> SUFFICES ASSUME LInit PROVE LogInv OBVIOUS
    <2>1. linode = <<<<>>>> /\ Len(linode) = 1 /\ linode \in Seq(Seq(Nat)) BY DEF LInit
    <2>2. lrot = <<>> /\ lrot \in Seq(RotatedFile(Len(linode))) /\ DOMAIN lrot = {} BY DEF LInit
    <2>3. LTypeOK BY <2>1, <2>2 DEF LInit, LTypeOK
    <2> QED BY <2>2, <2>3 DEF LInit, LogInv, HeldIsKept, HeldInode, ReopenFindsItGone,
              LiveIsNotRotated, CompressionIsWhole, LNoLineLost
  <1>2. LogInv => LNoLineLost BY DEF LogInv
  <1> QED BY <1>1, <1>2, LogNextInv, PTL DEF LSpec

-----------------------------------------------------------------------------
(* Auth.  A refresh is safe from a revocation because the server's own        *)
(* revocations need the lock it holds, and a command line's deletion leaves   *)
(* it no user to sign for; rows keep their owners because an id is never      *)
(* handed out twice.                                                         *)

UserRow == [name : Names, pw : Passwords, roles : SUBSET Roles]

\* What a command-line process carries from its read to its write.
CliOK(k) ==
    /\ k.pc \in {"idle", "useradd", "groupadd", "roles", "memberadd", "memberdel", "token"}
    /\ k.pc = "useradd" => k.name \in Names /\ k.pw \in Passwords /\ k.roles \subseteq Roles
    /\ k.pc = "groupadd" => k.name \in GroupNames
    /\ k.pc = "roles" => k.roles \subseteq Roles
    /\ k.pc \in {"memberadd", "memberdel"} => k.pair \in UserIds \X GroupIds
    /\ k.pc = "token" => k.uid \in UserIds

\* A worker past a verified password or a verified refresh token holds the database lock;
\* the token of a refresh was good when the lock was taken, and has since been revoked only
\* by the deletion of its user, whose id nobody else will ever have.
WorkerOK(w) ==
    LET k == aworker[w]
    IN  /\ "pc" \in DOMAIN k
        /\ k.pc \in {"idle", "verify", "issue", "rverify", "rsign"}
        /\ k.pc = "issue" => k.uid \in UserIds /\ adb = w
        /\ k.pc = "rsign" =>
              /\ adb = w
              /\ k.tok.sub \in UserIds /\ k.tok.sub \in ahist.born
              /\ k.tok \in ahist.revoked => auser[k.tok.sub] = NoRow

\* A stored refresh token is its user's and is not revoked.
RefreshOK(r) ==
    /\ r.uid \in UserIds /\ r.tok.sub = r.uid
    /\ r.tok \notin ahist.revoked

ATypeOK ==
    /\ auser \in [UserIds -> UserRow \cup {NoRow}]
    /\ agroup \in [GroupIds -> GroupNames \cup {"none"}]
    /\ amember \subseteq UserIds \X GroupIds
    /\ \A a \in aapi : a.uid \in UserIds
    /\ DOMAIN aworker = AWorkers /\ aworker = [w \in AWorkers |-> aworker[w]]
    /\ DOMAIN acli = AClis /\ acli = [c \in AClis |-> acli[c]]
    /\ DOMAIN ahist = {"fails", "revoked", "ended", "born", "leaked"}
    /\ ahist.leaked \in BOOLEAN

\* An id in use has been handed out, and is not handed out again.
IdsAreSpent ==
    /\ \A u \in UserIds : auser[u] # NoRow => u \in ahist.born
    /\ \A g \in GroupIds : agroup[g] # "none" => g \in ahist.born

AccountsInv ==
    /\ ATypeOK /\ IdsAreSpent /\ AKeysAreAPair /\ ARowsHaveOwners /\ ARevokedNeverRefreshes
    /\ \A r \in arefresh : RefreshOK(r)
    /\ \A w \in AWorkers : WorkerOK(w)
    /\ \A c \in AClis : CliOK(acli[c])

\* A row is not the absence of one.
LEMMA RowIsThere == \A r \in UserRow : r # NoRow
  <1>1. \A r \in UserRow : "pw" \in DOMAIN r BY DEF UserRow
  <1>2. "pw" \notin DOMAIN NoRow BY DEF NoRow
  <1> QED BY <1>1, <1>2

\* What a worker does to its own state leaves the others', when the lock stays with
\* whoever holds it.
LEMMA WorkerMoves ==
  ASSUME AccountsInv, NEW w \in AWorkers,
         \E k : aworker' = [aworker EXCEPT ![w] = k],
         adb' = adb \/ adb = "free" \/ adb = w,
         UNCHANGED auser, ahist'.born = ahist.born,
         ahist'.revoked \subseteq ahist.revoked \/ adb \in {"free", w},
         WorkerOK(w)'
  PROVE  /\ DOMAIN aworker' = AWorkers /\ aworker' = [v \in AWorkers |-> aworker'[v]]
         /\ \A v \in AWorkers : WorkerOK(v)'
  <1>1. DOMAIN aworker' = AWorkers /\ aworker' = [v \in AWorkers |-> aworker'[v]]
    BY DEF AccountsInv, ATypeOK
  <1>2. \A v \in AWorkers \ {w} : aworker'[v] = aworker[v]
    BY DEF AccountsInv, ATypeOK
  <1>3. ASSUME NEW v \in AWorkers, v # w PROVE WorkerOK(v)'
    <2>1. WorkerOK(v) /\ aworker'[v] = aworker[v] BY <1>2, <1>3 DEF AccountsInv
    <2> QED BY <2>1, <1>3, AuthAssumption DEF WorkerOK
  <1> QED BY <1>1, <1>3

\* Steps that change no row and no token's standing.
RowsStay ==
    /\ UNCHANGED <<auser, agroup, amember, arefresh, aapi>>
    /\ DOMAIN ahist' = DOMAIN ahist /\ ahist'.revoked = ahist.revoked
    /\ ahist'.born = ahist.born /\ ahist'.leaked = ahist.leaked

\* A worker that moves on while every row stays.
LEMMA QuietWorker ==
  ASSUME AccountsInv, RowsStay, UNCHANGED <<akeys, acli>>, NEW w \in AWorkers,
         \E k : aworker' = [aworker EXCEPT ![w] = k],
         adb' = adb \/ adb = "free" \/ adb = w,
         WorkerOK(w)'
  PROVE  AccountsInv'
  <1>1. /\ DOMAIN aworker' = AWorkers /\ aworker' = [v \in AWorkers |-> aworker'[v]]
        /\ \A v \in AWorkers : WorkerOK(v)'
    BY WorkerMoves DEF RowsStay
  <1>2. /\ ATypeOK' /\ IdsAreSpent' /\ AKeysAreAPair' /\ ARowsHaveOwners'
        /\ ARevokedNeverRefreshes'
    BY <1>1 DEF RowsStay, AccountsInv, ATypeOK, IdsAreSpent, AKeysAreAPair, ARowsHaveOwners,
                ARevokedNeverRefreshes
  <1> QED BY <1>1, <1>2 DEF AccountsInv, RowsStay, RefreshOK

\* A login that is only asked for, or whose body does not parse.
LEMMA LoginSteps ==
  ASSUME AccountsInv, NEW w \in AWorkers, LoginCheck(w) \/ LoginBadBody(w)
  PROVE  AccountsInv'
  <1>1. RowsStay /\ UNCHANGED <<akeys, acli, adb>> BY DEF LoginCheck, LoginBadBody, RowsStay, dbvars
  <1>2. \E k : aworker' = [aworker EXCEPT ![w] = k] BY DEF LoginCheck, LoginBadBody
  <1>3. aworker'[w] \in {[pc |-> "verify"], AIdle}
    BY DEF LoginCheck, LoginBadBody, AccountsInv, ATypeOK
  <1>4. WorkerOK(w)' BY <1>3 DEF WorkerOK, AIdle
  <1> QED BY <1>1, <1>2, <1>4, QuietWorker

\* A password that verifies takes the lock; one that does not is counted.
LEMMA LoginVerifyStep ==
  ASSUME AccountsInv, NEW w \in AWorkers, LoginVerify(w)
  PROVE  AccountsInv'
  <1>1. PICK n \in Names, p \in Passwords :
          LET right == UserVerifyPassword(n, p) IN
          IF right = {}
          THEN /\ ahist' = [ahist EXCEPT !.fails = Append(@, anow)]
               /\ aworker' = [aworker EXCEPT ![w] = AIdle]
               /\ UNCHANGED adb
          ELSE /\ \E u \in right :
                     aworker' = [aworker EXCEPT ![w] =
                                   [pc |-> "issue", uid |-> u, row |-> auser[u]]]
               /\ adb' = w
               /\ UNCHANGED ahist
    BY DEF LoginVerify
  <1>2. adb = "free" /\ UNCHANGED <<auser, agroup, amember, arefresh, aapi, akeys, acli>>
    BY DEF LoginVerify, dbvars
  <1>3. CASE UserVerifyPassword(n, p) = {}
    <2>1. /\ DOMAIN ahist' = DOMAIN ahist /\ ahist'.revoked = ahist.revoked
          /\ ahist'.born = ahist.born /\ ahist'.leaked = ahist.leaked /\ adb' = adb
      BY <1>1, <1>3 DEF AccountsInv, ATypeOK
    <2>2. aworker'[w] = AIdle /\ \E k : aworker' = [aworker EXCEPT ![w] = k]
      BY <1>1, <1>3 DEF AccountsInv, ATypeOK
    <2>3. WorkerOK(w)' BY <2>2 DEF WorkerOK, AIdle
    <2>4. RowsStay BY <2>1, <1>2 DEF RowsStay
    <2> QED BY <2>1, <2>2, <2>3, <2>4, <1>2, QuietWorker
  <1>4. CASE UserVerifyPassword(n, p) # {}
    <2>1. PICK u \in UserVerifyPassword(n, p) :
             aworker' = [aworker EXCEPT ![w] = [pc |-> "issue", uid |-> u, row |-> auser[u]]]
      BY <1>1, <1>4
    <2>2. u \in UserIds BY DEF UserVerifyPassword, UserNamed
    <2>3. aworker'[w] = [pc |-> "issue", uid |-> u, row |-> auser[u]]
      BY <2>1 DEF AccountsInv, ATypeOK
    <2>4. adb' = w /\ ahist' = ahist BY <1>1, <1>4
    <2>5. WorkerOK(w)' BY <2>2, <2>3, <2>4 DEF WorkerOK
    <2>6. RowsStay BY <2>4, <1>2 DEF RowsStay
    <2>7. \E k : aworker' = [aworker EXCEPT ![w] = k] BY <2>1
    <2> QED BY <2>5, <2>6, <2>7, <1>2, QuietWorker
  <1> QED BY <1>3, <1>4

\* A login stores its token only under a user who is still there.
LEMMA LoginIssueStep ==
  ASSUME AccountsInv, NEW w \in AWorkers, LoginIssue(w)
  PROVE  AccountsInv'
  <1> DEFINE u == aworker[w].uid
  <1>1. /\ u \in UserIds /\ adb = w /\ adb' = "free"
        /\ aworker' = [aworker EXCEPT ![w] = AIdle]
        /\ UNCHANGED <<auser, agroup, amember, aapi, akeys, acli>>
    BY DEF LoginIssue, AccountsInv, WorkerOK
  <1>2. /\ DOMAIN ahist' = DOMAIN ahist /\ ahist'.revoked \subseteq ahist.revoked
        /\ ahist'.born = ahist.born /\ ahist'.leaked = ahist.leaked
    <2>1. \/ \E rt : ahist' = [ahist EXCEPT !.fails = <<>>, !.revoked = ahist.revoked \ {rt},
                                            !.ended = ahist.ended \ {rt}]
          \/ ahist' = [ahist EXCEPT !.fails = <<>>]
      BY DEF LoginIssue
    <2>2. DOMAIN ahist = {"fails", "revoked", "ended", "born", "leaked"} BY DEF AccountsInv, ATypeOK
    <2>3. CASE ahist' = [ahist EXCEPT !.fails = <<>>] BY <2>2, <2>3
    <2>4. ASSUME NEW rt, ahist' = [ahist EXCEPT !.fails = <<>>, !.revoked = ahist.revoked \ {rt},
                                               !.ended = ahist.ended \ {rt}]
          PROVE  /\ DOMAIN ahist' = DOMAIN ahist /\ ahist'.revoked \subseteq ahist.revoked
                 /\ ahist'.born = ahist.born /\ ahist'.leaked = ahist.leaked
      BY <2>2, <2>4
    <2> QED BY <2>1, <2>3, <2>4
  <1>3. \A r \in arefresh' : RefreshOK(r)' /\ auser'[r.uid] # NoRow
    <2>1. PICK n \in Nonces :
             LET rt == IssueTokens(u, aworker[w].row, n).refresh
             IN  IF auser[u] # NoRow
                 THEN /\ arefresh' = {r \in arefresh : r.tok # rt}
                                      \cup {[tok |-> rt, uid |-> u, exp |-> anow + RefreshTtl]}
                      /\ ahist' = [ahist EXCEPT !.fails = <<>>, !.revoked = @ \ {rt},
                                                !.ended = @ \ {rt}]
                 ELSE UNCHANGED arefresh
      BY DEF LoginIssue
    <2> DEFINE rt == IssueTokens(u, aworker[w].row, n).refresh
               new == [tok |-> rt, uid |-> u, exp |-> anow + RefreshTtl]
    <2>2. CASE auser[u] = NoRow
      BY <2>1, <2>2, <1>1, <1>2 DEF AccountsInv, RefreshOK, ARowsHaveOwners
    <2>3. CASE auser[u] # NoRow
      <3>1. rt.sub = u BY DEF IssueTokens, RefreshToken
      <3>2. arefresh' = {r \in arefresh : r.tok # rt} \cup {new} BY <2>1, <2>3
      <3>3. ahist'.revoked = ahist.revoked \ {rt} BY <2>1, <2>3 DEF AccountsInv, ATypeOK
      <3>4. new.tok = rt /\ new.uid = u OBVIOUS
      <3> HIDE DEF rt, new, u
      <3> QED BY <3>1, <3>2, <3>3, <3>4, <2>3, <1>1 DEF AccountsInv, RefreshOK, ARowsHaveOwners
    <2> QED BY <2>2, <2>3
  <1>4. aworker'[w] = AIdle /\ \E k : aworker' = [aworker EXCEPT ![w] = k]
    BY <1>1 DEF AccountsInv, ATypeOK
  <1>5. WorkerOK(w)' BY <1>4 DEF WorkerOK, AIdle
  <1>6. /\ DOMAIN aworker' = AWorkers /\ aworker' = [v \in AWorkers |-> aworker'[v]]
        /\ \A v \in AWorkers : WorkerOK(v)'
    BY <1>1, <1>2, <1>4, <1>5, WorkerMoves
  <1>7. ATypeOK' BY <1>1, <1>2, <1>6 DEF AccountsInv, ATypeOK
  <1>8. IdsAreSpent' /\ AKeysAreAPair' /\ ARowsHaveOwners' /\ ARevokedNeverRefreshes'
    BY <1>1, <1>2, <1>3 DEF AccountsInv, IdsAreSpent, AKeysAreAPair, ARowsHaveOwners,
                            ARevokedNeverRefreshes
  <1> QED BY <1>1, <1>3, <1>6, <1>7, <1>8 DEF AccountsInv

\* A refresh token that decodes has proved nothing yet.
LEMMA RefreshDecodeStep ==
  ASSUME AccountsInv, NEW w \in AWorkers, RefreshDecode(w)
  PROVE  AccountsInv'
  <1>1. RowsStay /\ UNCHANGED <<akeys, acli, adb>> BY DEF RefreshDecode, RowsStay, dbvars
  <1>2. PICK t \in akept : aworker' = [aworker EXCEPT ![w] =
                          [pc |-> "rverify", tok |-> t, dead |-> t \in ahist.revoked]]
    BY DEF RefreshDecode
  <1>3. aworker'[w] = [pc |-> "rverify", tok |-> t, dead |-> t \in ahist.revoked]
    BY <1>2 DEF AccountsInv, ATypeOK
  <1>4. WorkerOK(w)' BY <1>3 DEF WorkerOK
  <1>5. \E k : aworker' = [aworker EXCEPT ![w] = k] BY <1>2
  <1> QED BY <1>1, <1>4, <1>5, QuietWorker

\* A refresh token goes on only with its row, and so unrevoked.
LEMMA RefreshVerifyStep ==
  ASSUME AccountsInv, NEW w \in AWorkers, RefreshVerify(w)
  PROVE  AccountsInv'
  <1>1. RowsStay /\ UNCHANGED <<akeys, acli>> /\ adb = "free"
    BY DEF RefreshVerify, RowsStay, dbvars
  <1>2. CASE RefreshRow(aworker[w].tok)
    <2> DEFINE t == aworker[w].tok
               k == [aworker[w] EXCEPT !.pc = "rsign"]
    <2>1. aworker' = [aworker EXCEPT ![w] = k] /\ adb' = w BY <1>2 DEF RefreshVerify
    <2>2. k.pc = "rsign" /\ k.tok = t /\ "pc" \in DOMAIN k BY DEF AccountsInv, WorkerOK
    <2>3. PICK r \in arefresh : r.tok = t /\ r.uid = t.sub BY <1>2 DEF RefreshRow
    <2>4. t \notin ahist.revoked /\ t.sub \in UserIds /\ t.sub \in ahist.born
      BY <2>3 DEF AccountsInv, RefreshOK, ARowsHaveOwners, IdsAreSpent
    <2>5. aworker'[w] = k BY <2>1 DEF AccountsInv, ATypeOK
    <2>6. WorkerOK(w)'
      <3> HIDE DEF k
      <3> QED BY <2>1, <2>2, <2>4, <2>5, <1>1 DEF WorkerOK, RowsStay
    <2>7. \E x : aworker' = [aworker EXCEPT ![w] = x] BY <2>1
    <2> QED BY <2>6, <2>7, <1>1, QuietWorker
  <1>3. CASE ~RefreshRow(aworker[w].tok)
    <2>1. aworker' = [aworker EXCEPT ![w] = AIdle] /\ adb' = adb BY <1>3 DEF RefreshVerify
    <2>2. aworker'[w] = AIdle BY <2>1 DEF AccountsInv, ATypeOK
    <2>3. WorkerOK(w)' BY <2>2 DEF WorkerOK, AIdle
    <2>4. \E k : aworker' = [aworker EXCEPT ![w] = k] BY <2>1
    <2> QED BY <2>1, <2>3, <2>4, <1>1, QuietWorker
  <1> QED BY <1>2, <1>3

\* What is revoked by the time of the signature has no user to sign for.
LEMMA RefreshSignStep ==
  ASSUME AccountsInv, NEW w \in AWorkers, RefreshSign(w)
  PROVE  AccountsInv'
  <1> DEFINE t == aworker[w].tok
  <1>1. /\ adb = w /\ adb' = "free" /\ (t \in ahist.revoked => auser[t.sub] = NoRow)
        /\ aworker' = [aworker EXCEPT ![w] = AIdle]
        /\ UNCHANGED <<auser, agroup, amember, arefresh, aapi, akeys, acli>>
    BY DEF RefreshSign, AccountsInv, WorkerOK, dbvars
  <1>2. /\ DOMAIN ahist' = DOMAIN ahist /\ ahist'.revoked = ahist.revoked
        /\ ahist'.born = ahist.born /\ ahist'.leaked = ahist.leaked
    <2>1. CASE auser[t.sub] = NoRow BY <2>1 DEF RefreshSign
    <2>2. CASE auser[t.sub] # NoRow
      <3>1. ahist' = [ahist EXCEPT !.leaked = ahist.leaked \/ (aworker[w].dead /\ t \in ahist.revoked)]
        BY <2>2 DEF RefreshSign
      <3>2. ~(t \in ahist.revoked) /\ ahist.leaked = FALSE
        BY <2>2, <1>1 DEF AccountsInv, ATypeOK, ARevokedNeverRefreshes
      <3>3. (ahist.leaked \/ (aworker[w].dead /\ t \in ahist.revoked)) = FALSE BY <3>2
      <3> QED BY <3>1, <3>2, <3>3 DEF AccountsInv, ATypeOK
    <2> QED BY <2>1, <2>2
  <1>3. aworker'[w] = AIdle /\ \E k : aworker' = [aworker EXCEPT ![w] = k]
    BY <1>1 DEF AccountsInv, ATypeOK
  <1>4. WorkerOK(w)' BY <1>3 DEF WorkerOK, AIdle
  <1>5. RowsStay BY <1>1, <1>2 DEF RowsStay
  <1> QED BY <1>1, <1>3, <1>4, <1>5, QuietWorker

\* A token that leaves the store for good leaves all its rows, which are one user's.
LEMMA LogoutStep ==
  ASSUME AccountsInv, NEW w \in AWorkers, LogoutBrowser(w) \/ LogoutApi(w)
  PROVE  AccountsInv'
  <1>1. /\ adb = "free" /\ UNCHANGED <<auser, agroup, amember, aapi, akeys, adb, aworker, acli>>
    BY DEF LogoutBrowser, LogoutApi
  <1>2. /\ DOMAIN ahist' = DOMAIN ahist /\ ahist'.born = ahist.born
        /\ ahist'.leaked = ahist.leaked
        /\ arefresh' \subseteq arefresh
        /\ \A r \in arefresh' : r.tok \notin ahist'.revoked
    <2>1. CASE LogoutBrowser(w)
      <3> DEFINE rows == IF CookieSent(LogoutPath)
                         THEN {r \in arefresh : r.tok = aweb.refresh} ELSE {}
      <3>1. /\ arefresh' = arefresh \ rows
            /\ ahist' = [ahist EXCEPT !.revoked = ahist.revoked \cup Revoked(rows),
                                      !.ended = ahist.ended \cup {aweb.refresh}]
        BY <2>1 DEF LogoutBrowser
      <3>2. \A r \in rows, q \in arefresh : q.tok = r.tok => q \in rows OBVIOUS
      <3> HIDE DEF rows
      <3>3. /\ DOMAIN ahist' = DOMAIN ahist /\ ahist'.born = ahist.born
            /\ ahist'.leaked = ahist.leaked
            /\ ahist'.revoked = ahist.revoked \cup Revoked(rows)
        BY <3>1 DEF AccountsInv, ATypeOK
      <3> QED BY <3>1, <3>2, <3>3 DEF Revoked, AccountsInv, RefreshOK
    <2>2. CASE LogoutApi(w)
      <3> DEFINE rows == {r \in arefresh : r.uid = aweb.access.sub}
      <3>1. /\ arefresh' = arefresh \ rows
            /\ ahist' = [ahist EXCEPT !.revoked = ahist.revoked \cup Revoked(rows)]
        BY <2>2 DEF LogoutApi
      <3>2. \A r \in rows, q \in arefresh : q.tok = r.tok => q \in rows
        BY DEF AccountsInv, RefreshOK
      <3> HIDE DEF rows
      <3>3. /\ DOMAIN ahist' = DOMAIN ahist /\ ahist'.born = ahist.born
            /\ ahist'.leaked = ahist.leaked
            /\ ahist'.revoked = ahist.revoked \cup Revoked(rows)
        BY <3>1 DEF AccountsInv, ATypeOK
      <3> QED BY <3>1, <3>2, <3>3 DEF Revoked, AccountsInv, RefreshOK
    <2> QED BY <2>1, <2>2
  <1>3. \A v \in AWorkers : WorkerOK(v)'
    BY <1>1, <1>2, AuthAssumption DEF AccountsInv, WorkerOK
  <1>4. ATypeOK' BY <1>1, <1>2 DEF AccountsInv, ATypeOK
  <1>5. IdsAreSpent' /\ AKeysAreAPair' /\ ARowsHaveOwners' /\ ARevokedNeverRefreshes'
    BY <1>1, <1>2 DEF AccountsInv, IdsAreSpent, AKeysAreAPair, ARowsHaveOwners,
                      ARevokedNeverRefreshes
  <1>6. \A r \in arefresh' : RefreshOK(r)' BY <1>2 DEF AccountsInv, RefreshOK
  <1> QED BY <1>1, <1>3, <1>4, <1>5, <1>6 DEF AccountsInv

\* Key files move, keys are read and checked, time passes: no row is touched.
LEMMA KeySteps ==
  ASSUME AccountsInv,
         (\E f \in {"priv", "pub"} : WriteKeyFile(f)) \/ ReloadPrivate \/ ReloadPublic \/ ATick
  PROVE  AccountsInv'
  <1>1. UNCHANGED <<auser, agroup, amember, arefresh, aapi, adb, aworker, acli, ahist>>
    BY DEF WriteKeyFile, ReloadPrivate, ReloadPublic, ATick, dbvars
  <1>2. AKeysAreAPair'
    BY DEF WriteKeyFile, ReloadPrivate, ReloadPublic, ATick, CheckPair, AKeysAreAPair, AccountsInv
  <1>3. ATypeOK' /\ IdsAreSpent' /\ ARowsHaveOwners' /\ ARevokedNeverRefreshes'
    BY <1>1 DEF AccountsInv, ATypeOK, IdsAreSpent, ARowsHaveOwners, ARevokedNeverRefreshes
  <1>4. \A r \in arefresh' : RefreshOK(r)' BY <1>1 DEF AccountsInv, RefreshOK
  <1>5. \A w \in AWorkers : WorkerOK(w)' BY <1>1 DEF AccountsInv, WorkerOK
  <1> QED BY <1>1, <1>2, <1>3, <1>4, <1>5 DEF AccountsInv

\* A restart keeps the database and forgets what the workers were doing.
LEMMA RestartStep ==
  ASSUME AccountsInv, ServerRestart
  PROVE  AccountsInv'
  <1>1. /\ UNCHANGED <<auser, agroup, amember, arefresh, aapi, acli>>
        /\ aworker' = [w \in AWorkers |-> AIdle]
        /\ ahist' = [ahist EXCEPT !.fails = <<>>]
    BY DEF ServerRestart, dbvars
  <1>2. /\ DOMAIN ahist' = DOMAIN ahist /\ ahist'.revoked = ahist.revoked
        /\ ahist'.born = ahist.born /\ ahist'.leaked = ahist.leaked
    BY <1>1 DEF AccountsInv, ATypeOK
  <1>3. \A w \in AWorkers : WorkerOK(w)' BY <1>1 DEF WorkerOK, AIdle
  <1>4. ATypeOK' BY <1>1, <1>2 DEF AccountsInv, ATypeOK
  <1>5. IdsAreSpent' /\ ARowsHaveOwners' /\ ARevokedNeverRefreshes'
    BY <1>1, <1>2 DEF AccountsInv, IdsAreSpent, ARowsHaveOwners, ARevokedNeverRefreshes
  <1>6. AKeysAreAPair' BY DEF ServerRestart, CheckPair, AKeysAreAPair
  <1>7. \A r \in arefresh' : RefreshOK(r)' BY <1>1, <1>2 DEF AccountsInv, RefreshOK
  <1> QED BY <1>1, <1>3, <1>4, <1>5, <1>6, <1>7 DEF AccountsInv

\* What a command-line process does to its own state leaves the others'.
LEMMA CliMoves ==
  ASSUME AccountsInv, NEW c \in AClis,
         \E k : acli' = [acli EXCEPT ![c] = k] /\ CliOK(k)
  PROVE  /\ DOMAIN acli' = AClis /\ acli' = [d \in AClis |-> acli'[d]]
         /\ \A d \in AClis : CliOK(acli'[d])
  <1>1. PICK k : acli' = [acli EXCEPT ![c] = k] /\ CliOK(k) OBVIOUS
  <1>2. DOMAIN acli' = AClis /\ acli' = [d \in AClis |-> acli'[d]]
    BY <1>1 DEF AccountsInv, ATypeOK
  <1>3. \A d \in AClis : acli'[d] = IF d = c THEN k ELSE acli[d]
    BY <1>1 DEF AccountsInv, ATypeOK
  <1> QED BY <1>1, <1>2, <1>3 DEF AccountsInv

\* A command line's first statement reads: what it carries away is well formed.
LEMMA CliReads ==
  ASSUME AccountsInv, NEW c \in AClis,
         \/ UserAddRead(c) \/ GroupAddRead(c) \/ RolesRead(c) \/ MemberRead(c) \/ TokenRead(c)
  PROVE  AccountsInv'
  <1>1. UNCHANGED <<auser, agroup, amember, arefresh, aapi, akeys, adb, aworker, ahist>>
    BY DEF UserAddRead, GroupAddRead, RolesRead, MemberRead, TokenRead, CliStep, dbvars
  <1>2. \E k : acli' = [acli EXCEPT ![c] = k] /\ CliOK(k)
    <2>1. CASE UserAddRead(c)
      <3>1. PICK n \in Names, p \in Passwords, rs \in SUBSET Roles :
               acli' = [acli EXCEPT ![c] = [pc |-> "useradd", name |-> n, pw |-> p, roles |-> rs]]
        BY <2>1 DEF UserAddRead
      <3>2. CliOK([pc |-> "useradd", name |-> n, pw |-> p, roles |-> rs]) BY DEF CliOK
      <3> QED BY <3>1, <3>2
    <2>2. CASE GroupAddRead(c)
      <3>1. PICK n \in GroupNames : acli' = [acli EXCEPT ![c] = [pc |-> "groupadd", name |-> n]]
        BY <2>2 DEF GroupAddRead
      <3>2. CliOK([pc |-> "groupadd", name |-> n]) BY DEF CliOK
      <3> QED BY <3>1, <3>2
    <2>3. CASE RolesRead(c)
      <3>0. PICK n \in Names, set \in SUBSET Roles, unset \in SUBSET Roles :
               \E u \in UserNamed(n) :
                  acli' = [acli EXCEPT ![c] = [pc |-> "roles", name |-> n,
                                               roles |-> (auser[u].roles \cup set) \ unset]]
        BY <2>3 DEF RolesRead
      <3>1. PICK u \in UserNamed(n) :
               acli' = [acli EXCEPT ![c] = [pc |-> "roles", name |-> n,
                                            roles |-> (auser[u].roles \cup set) \ unset]]
        BY <3>0
      <3>2. auser[u] \in UserRow BY DEF UserNamed, AccountsInv, ATypeOK
      <3>3. (auser[u].roles \cup set) \ unset \subseteq Roles BY <3>2 DEF UserRow
      <3>4. CliOK([pc |-> "roles", name |-> n, roles |-> (auser[u].roles \cup set) \ unset])
        BY <3>3 DEF CliOK
      <3> QED BY <3>1, <3>4
    <2>4. CASE MemberRead(c)
      <3>1. PICK how \in {"memberadd", "memberdel"}, u \in UserIds, g \in GroupIds :
               acli' = [acli EXCEPT ![c] = [pc |-> how, pair |-> <<u, g>>]]
        BY <2>4 DEF MemberRead, UserNamed, GroupNamed
      <3>2. CliOK([pc |-> how, pair |-> <<u, g>>]) BY DEF CliOK
      <3> QED BY <3>1, <3>2
    <2>5. CASE TokenRead(c)
      <3>0. PICK n \in Names, k \in Nonces : \E u \in UserNamed(n) :
               acli' = [acli EXCEPT ![c] = [pc |-> "token", uid |-> u,
                  tok |-> AccessToken(u, auser[u], GroupsOf(u), afiles.priv, CliIssuer, AccessTtl, k)]]
        BY <2>5 DEF TokenRead
      <3>1. PICK u \in UserNamed(n) :
               acli' = [acli EXCEPT ![c] = [pc |-> "token", uid |-> u,
                  tok |-> AccessToken(u, auser[u], GroupsOf(u), afiles.priv, CliIssuer, AccessTtl, k)]]
        BY <3>0
      <3>2. u \in UserIds BY DEF UserNamed
      <3>3. \A t : CliOK([pc |-> "token", uid |-> u, tok |-> t]) BY <3>2 DEF CliOK
      <3> QED BY <3>1, <3>3
    <2> QED BY <2>1, <2>2, <2>3, <2>4, <2>5
  <1>3. /\ DOMAIN acli' = AClis /\ acli' = [d \in AClis |-> acli'[d]]
        /\ \A d \in AClis : CliOK(acli'[d])
    BY <1>2, CliMoves
  <1>4. /\ ATypeOK' /\ IdsAreSpent' /\ ARowsHaveOwners' /\ ARevokedNeverRefreshes'
        /\ AKeysAreAPair'
    BY <1>1, <1>3 DEF AccountsInv, ATypeOK, IdsAreSpent, ARowsHaveOwners, ARevokedNeverRefreshes,
                      AKeysAreAPair
  <1>5. \A r \in arefresh' : RefreshOK(r)' BY <1>1 DEF AccountsInv, RefreshOK
  <1>6. \A w \in AWorkers : WorkerOK(w)' BY <1>1 DEF AccountsInv, WorkerOK
  <1> QED BY <1>1, <1>3, <1>4, <1>5, <1>6 DEF AccountsInv

\* The users' table: rows come only under ids never used, change without going, or go.
LEMMA UsersChange ==
  ASSUME AccountsInv, NEW c \in AClis,
         acli' = [acli EXCEPT ![c] = AIdle] \/ acli' = acli,
         auser' \in [UserIds -> UserRow \cup {NoRow}],
         \A u \in UserIds : u \in ahist.born /\ auser[u] = NoRow => auser'[u] = NoRow,
         \A u \in UserIds : auser[u] # NoRow => auser'[u] # NoRow,
         \A u \in UserIds : auser'[u] # NoRow => u \in ahist'.born,
         UNCHANGED <<agroup, amember, arefresh, aapi, akeys, adb, aworker>>,
         DOMAIN ahist' = DOMAIN ahist, ahist'.revoked = ahist.revoked,
         ahist.born \subseteq ahist'.born, ahist'.leaked = ahist.leaked
  PROVE  AccountsInv'
  <1>1. /\ DOMAIN acli' = AClis /\ acli' = [d \in AClis |-> acli'[d]]
        /\ \A d \in AClis : CliOK(acli'[d])
    <2>1. CliOK(AIdle) BY DEF CliOK, AIdle
    <2>2. CASE acli' = acli BY <2>2 DEF AccountsInv, ATypeOK
    <2> QED BY <2>1, <2>2, CliMoves
  <1>2. ATypeOK' /\ IdsAreSpent' BY <1>1 DEF AccountsInv, ATypeOK, IdsAreSpent
  <1>3. ARowsHaveOwners' /\ ARevokedNeverRefreshes' /\ AKeysAreAPair'
    <2>1. \A m \in amember : m[1] \in UserIds BY DEF AccountsInv, ATypeOK
    <2> QED BY <2>1 DEF AccountsInv, ARowsHaveOwners, ARevokedNeverRefreshes, AKeysAreAPair,
                        RefreshOK, ATypeOK
  <1>4. \A r \in arefresh' : RefreshOK(r)' BY DEF AccountsInv, RefreshOK
  <1>5. \A w \in AWorkers : WorkerOK(w)' BY DEF AccountsInv, WorkerOK
  <1> QED BY <1>1, <1>2, <1>3, <1>4, <1>5 DEF AccountsInv

\* Adding a user, setting roles and setting a password.
LEMMA UserWrites ==
  ASSUME AccountsInv, NEW c \in AClis, UserAddWrite(c) \/ RolesWrite(c) \/ CliPasswd(c)
  PROVE  AccountsInv'
  <1>0. auser \in [UserIds -> UserRow \cup {NoRow}] /\ CliOK(acli[c]) /\ IdsAreSpent
    BY DEF AccountsInv, ATypeOK
  <1>1. CASE UserAddWrite(c)
    <2>1. /\ acli' = [acli EXCEPT ![c] = AIdle]
          /\ UNCHANGED <<agroup, amember, arefresh, aapi, akeys, adb, aworker>>
      BY <1>1 DEF UserAddWrite, CliDone, CliStep
    <2>2. CASE UserNamed(acli[c].name) = {}
      <3> DEFINE row == [name |-> acli[c].name, pw |-> acli[c].pw, roles |-> acli[c].roles]
      <3>1. PICK u \in UserIds \ ahist.born :
              /\ auser' = [auser EXCEPT ![u] = row]
              /\ ahist' = [ahist EXCEPT !.born = ahist.born \cup {u}]
        BY <1>1, <2>2 DEF UserAddWrite
      <3>2. row \in UserRow /\ row # NoRow
        BY <1>0, <1>1, RowIsThere DEF UserAddWrite, CliOK, UserRow
      <3> HIDE DEF row
      <3>3. /\ auser' \in [UserIds -> UserRow \cup {NoRow}]
            /\ \A v \in UserIds : v \in ahist.born => auser'[v] = auser[v]
            /\ \A v \in UserIds : auser[v] # NoRow => auser'[v] # NoRow
            /\ \A v \in UserIds : auser'[v] # NoRow => v = u \/ auser[v] # NoRow
        BY <3>1, <3>2, <1>0
      <3>4. /\ DOMAIN ahist' = DOMAIN ahist /\ ahist'.revoked = ahist.revoked
            /\ ahist'.born = ahist.born \cup {u} /\ ahist'.leaked = ahist.leaked
        BY <3>1 DEF AccountsInv, ATypeOK
      <3>5. \A v \in UserIds : auser'[v] # NoRow => v \in ahist'.born
        BY <3>3, <3>4, <1>0 DEF IdsAreSpent
      <3> QED BY <3>3, <3>4, <3>5, <2>1, UsersChange
    <2>3. CASE UserNamed(acli[c].name) # {}
      <3>1. UNCHANGED <<auser, ahist>> BY <1>1, <2>3 DEF UserAddWrite
      <3> QED BY <3>1, <2>1, <1>0, UsersChange DEF IdsAreSpent
    <2> QED BY <2>2, <2>3
  <1>2. CASE RolesWrite(c)
    <2>1. /\ acli' = [acli EXCEPT ![c] = AIdle]
          /\ UNCHANGED <<agroup, amember, arefresh, aapi, akeys, adb, aworker, ahist>>
          /\ acli[c].roles \subseteq Roles
      BY <1>0, <1>2 DEF RolesWrite, CliDone, CliStep, CliOK
    <2>2. auser' = [u \in UserIds |-> IF u \in UserNamed(acli[c].name)
                                      THEN [auser[u] EXCEPT !.roles = acli[c].roles] ELSE auser[u]]
      BY <1>2 DEF RolesWrite
    <2>3. ASSUME NEW u \in UserIds
          PROVE  IF auser[u] = NoRow THEN auser'[u] = NoRow ELSE auser'[u] \in UserRow
      <3>1. CASE u \in UserNamed(acli[c].name)
        <4>1. auser[u] \in UserRow BY <3>1, <1>0 DEF UserNamed
        <4>2. [auser[u] EXCEPT !.roles = acli[c].roles] \in UserRow BY <4>1, <2>1 DEF UserRow
        <4> QED BY <4>1, <4>2, <3>1, <2>2, RowIsThere
      <3>2. CASE u \notin UserNamed(acli[c].name) BY <3>2, <2>2, <1>0
      <3> QED BY <3>1, <3>2
    <2>4. auser' \in [UserIds -> UserRow \cup {NoRow}] BY <2>2, <2>3
    <2>5. \A u \in UserIds : auser'[u] = NoRow <=> auser[u] = NoRow BY <2>3, RowIsThere
    <2> QED BY <2>1, <2>4, <2>5, <1>0, UsersChange DEF IdsAreSpent
  <1>3. CASE CliPasswd(c)
    <2>1. UNCHANGED <<acli, agroup, amember, arefresh, aapi, akeys, adb, aworker, ahist>>
      BY <1>3 DEF CliPasswd, CliStep
    <2>2. PICK p \in Passwords, u \in UserIds :
             auser[u] # NoRow /\ auser' = [auser EXCEPT ![u] = [auser[u] EXCEPT !.pw = p]]
      BY <1>3 DEF CliPasswd, UserNamed
    <2>3. [auser[u] EXCEPT !.pw = p] \in UserRow
      <3>1. auser[u] \in UserRow BY <2>2, <1>0
      <3> QED BY <3>1 DEF UserRow
    <2>4. auser' \in [UserIds -> UserRow \cup {NoRow}] BY <2>2, <2>3, <1>0
    <2>5. \A v \in UserIds : auser'[v] = NoRow <=> auser[v] = NoRow
      BY <2>2, <2>3, <1>0, RowIsThere
    <2> QED BY <2>1, <2>4, <2>5, <1>0, UsersChange DEF IdsAreSpent
  <1> QED BY <1>1, <1>2, <1>3

\* The writes beside the users: the foreign keys are looked at when the row is written.
LEMMA OtherWrites ==
  ASSUME AccountsInv, NEW c \in AClis,
         GroupAddWrite(c) \/ MemberWrite(c) \/ TokenWrite(c) \/ CliGroupDel(c) \/ CliTokenRevoke(c)
  PROVE  AccountsInv'
  <1>0. CliOK(acli[c]) /\ IdsAreSpent /\ ATypeOK /\ ARowsHaveOwners BY DEF AccountsInv
  <1>1. /\ UNCHANGED <<auser, arefresh, akeys, adb, aworker>>
        /\ acli' = [acli EXCEPT ![c] = AIdle] \/ acli' = acli
    BY DEF GroupAddWrite, MemberWrite, TokenWrite, CliGroupDel, CliTokenRevoke, CliDone, CliStep
  <1>2. /\ DOMAIN acli' = AClis /\ acli' = [d \in AClis |-> acli'[d]]
        /\ \A d \in AClis : CliOK(acli'[d])
    <2>1. CliOK(AIdle) BY DEF CliOK, AIdle
    <2>2. CASE acli' = acli BY <2>2 DEF AccountsInv, ATypeOK
    <2> QED BY <2>1, <2>2, <1>1, CliMoves
  <1>3. /\ DOMAIN ahist' = DOMAIN ahist /\ ahist'.revoked = ahist.revoked
        /\ ahist.born \subseteq ahist'.born /\ ahist'.leaked = ahist.leaked
    BY <1>0 DEF GroupAddWrite, MemberWrite, TokenWrite, CliGroupDel, CliTokenRevoke, ATypeOK
  <1>4. /\ agroup' \in [GroupIds -> GroupNames \cup {"none"}]
        /\ amember' \subseteq UserIds \X GroupIds
        /\ \A g \in GroupIds : agroup'[g] # "none" => g \in ahist'.born
        /\ \A m \in amember' : auser[m[1]] # NoRow /\ agroup'[m[2]] # "none"
    <2>1. CASE GroupAddWrite(c)
      <3>1. CASE UNCHANGED <<agroup, ahist>>
        BY <2>1, <3>1, <1>0 DEF GroupAddWrite, ATypeOK, IdsAreSpent, ARowsHaveOwners
      <3>2. ASSUME NEW g \in GroupIds \ ahist.born, agroup' = [agroup EXCEPT ![g] = acli[c].name],
                   ahist' = [ahist EXCEPT !.born = ahist.born \cup {g}]
            PROVE  /\ agroup' \in [GroupIds -> GroupNames \cup {"none"}]
                   /\ amember' \subseteq UserIds \X GroupIds
                   /\ \A h \in GroupIds : agroup'[h] # "none" => h \in ahist'.born
                   /\ \A m \in amember' : auser[m[1]] # NoRow /\ agroup'[m[2]] # "none"
        <4>1. acli[c].name \in GroupNames /\ amember' = amember
          BY <2>1, <1>0 DEF GroupAddWrite, CliOK
        <4>2. ahist'.born = ahist.born \cup {g} BY <3>2, <1>0 DEF ATypeOK
        <4>3. \A h \in GroupIds : h # g => agroup'[h] = agroup[h] BY <3>2, <1>0 DEF ATypeOK
        <4>4. \A m \in amember : m[2] \in GroupIds /\ m[2] # g
          BY <1>0 DEF ATypeOK, ARowsHaveOwners, IdsAreSpent
        <4> QED BY <3>2, <4>1, <4>2, <4>3, <4>4, <1>0 DEF ATypeOK, ARowsHaveOwners, IdsAreSpent
      <3> QED BY <2>1, <3>1, <3>2 DEF GroupAddWrite
    <2>2. CASE MemberWrite(c)
      <3>1. UNCHANGED <<agroup, ahist>> BY <2>2 DEF MemberWrite
      <3>2. acli[c].pair \in UserIds \X GroupIds BY <2>2, <1>0 DEF MemberWrite, CliOK
      <3>3. \A m \in amember' : \/ m \in amember
                               \/ /\ m = acli[c].pair
                                  /\ auser[m[1]] # NoRow /\ agroup[m[2]] # "none"
        BY <2>2 DEF MemberWrite
      <3> QED BY <3>1, <3>2, <3>3, <1>0 DEF ATypeOK, IdsAreSpent, ARowsHaveOwners
    <2>3. CASE TokenWrite(c)
      BY <2>3, <1>0 DEF TokenWrite, ATypeOK, IdsAreSpent, ARowsHaveOwners
    <2>4. CASE CliGroupDel(c)
      <3>1. PICK n \in GroupNames :
             /\ agroup' = [g \in GroupIds |-> IF g \in GroupNamed(n) THEN "none" ELSE agroup[g]]
             /\ amember' = {m \in amember : m[2] \notin GroupNamed(n)}
        BY <2>4 DEF CliGroupDel
      <3>2. ahist' = ahist BY <2>4 DEF CliGroupDel
      <3> QED BY <3>1, <3>2, <1>0 DEF ATypeOK, IdsAreSpent, ARowsHaveOwners
    <2>5. CASE CliTokenRevoke(c)
      BY <2>5, <1>0 DEF CliTokenRevoke, ATypeOK, IdsAreSpent, ARowsHaveOwners
    <2> QED BY <2>1, <2>2, <2>3, <2>4, <2>5
  <1>5. \A a \in aapi' : a.uid \in UserIds /\ auser[a.uid] # NoRow
    <2>1. CASE TokenWrite(c)
      <3>1. acli[c].uid \in UserIds BY <2>1, <1>0 DEF TokenWrite, CliOK
      <3> DEFINE new == [tok |-> acli[c].tok, uid |-> acli[c].uid]
      <3>2. \A a \in aapi' : a \in aapi \/ (a = new /\ auser[acli[c].uid] # NoRow)
        BY <2>1 DEF TokenWrite
      <3>3. new.uid = acli[c].uid OBVIOUS
      <3> HIDE DEF new
      <3> QED BY <3>1, <3>2, <3>3, <1>0 DEF ATypeOK, ARowsHaveOwners
    <2>2. CASE ~TokenWrite(c)
      <3>1. aapi' \subseteq aapi
        BY <2>2 DEF GroupAddWrite, MemberWrite, CliGroupDel, CliTokenRevoke
      <3> QED BY <3>1, <1>0 DEF ATypeOK, ARowsHaveOwners
    <2> QED BY <2>1, <2>2
  <1>6. ATypeOK' BY <1>0, <1>1, <1>2, <1>3, <1>4, <1>5 DEF ATypeOK
  <1>7. IdsAreSpent' BY <1>0, <1>1, <1>3, <1>4 DEF IdsAreSpent
  <1>8. ARowsHaveOwners' BY <1>0, <1>1, <1>4, <1>5 DEF ARowsHaveOwners
  <1>9. ARevokedNeverRefreshes' /\ AKeysAreAPair'
    BY <1>1, <1>3 DEF AccountsInv, ARevokedNeverRefreshes, AKeysAreAPair
  <1>10. \A r \in arefresh' : RefreshOK(r)' BY <1>1, <1>3 DEF AccountsInv, RefreshOK
  <1>11. \A w \in AWorkers : WorkerOK(w)' BY <1>1, <1>3 DEF AccountsInv, WorkerOK
  <1> QED BY <1>1, <1>2, <1>6, <1>7, <1>8, <1>9, <1>10, <1>11 DEF AccountsInv

\* A user who goes takes along the memberships and tokens; a refresh that holds the lock
\* finds no user when it comes to sign.
LEMMA UserDelStep ==
  ASSUME AccountsInv, NEW c \in AClis, CliUserDel(c)
  PROVE  AccountsInv'
  <1>1. UNCHANGED <<agroup, akeys, adb, aworker, acli>> BY DEF CliUserDel, CliStep, DropUser
  <1>2. PICK us \in SUBSET UserIds : DropUser(us) BY DEF CliUserDel, UserNamed
  <1> DEFINE rows == {r \in arefresh : r.uid \in us}
  <1>3. /\ auser' = [u \in UserIds |-> IF u \in us THEN NoRow ELSE auser[u]]
        /\ amember' = {m \in amember : m[1] \notin us}
        /\ arefresh' = arefresh \ rows
        /\ aapi' = {a \in aapi : a.uid \notin us}
        /\ ahist' = [ahist EXCEPT !.revoked = ahist.revoked \cup Revoked(rows)]
    BY <1>2 DEF DropUser
  <1>4. /\ DOMAIN ahist' = DOMAIN ahist /\ ahist'.born = ahist.born
        /\ ahist'.leaked = ahist.leaked
        /\ ahist'.revoked = ahist.revoked \cup Revoked(rows)
    BY <1>3 DEF AccountsInv, ATypeOK
  <1>5. ATypeOK'
    <2>1. auser' \in [UserIds -> UserRow \cup {NoRow}] BY <1>3 DEF AccountsInv, ATypeOK
    <2> QED BY <2>1, <1>1, <1>3, <1>4 DEF AccountsInv, ATypeOK
  <1>6. IdsAreSpent' BY <1>1, <1>3, <1>4 DEF AccountsInv, IdsAreSpent
  <1>7. ARowsHaveOwners'
    <2>1. \A m \in amember' : auser'[m[1]] # NoRow /\ agroup'[m[2]] # "none"
      BY <1>1, <1>3 DEF AccountsInv, ATypeOK, ARowsHaveOwners
    <2>2. \A r \in arefresh' \cup aapi' : auser'[r.uid] # NoRow
      BY <1>3 DEF AccountsInv, ATypeOK, ARowsHaveOwners, RefreshOK
    <2> QED BY <2>1, <2>2 DEF ARowsHaveOwners
  <1>8. ARevokedNeverRefreshes' /\ AKeysAreAPair'
    BY <1>1, <1>4 DEF AccountsInv, ARevokedNeverRefreshes, AKeysAreAPair
  <1>9. \A r \in arefresh' : RefreshOK(r)'
    BY <1>3, <1>4 DEF AccountsInv, RefreshOK, Revoked
  <1>10. \A w \in AWorkers : WorkerOK(w)'
    <2>1. \A t \in Revoked(rows) : t.sub \in us BY DEF Revoked, AccountsInv, RefreshOK
    <2> HIDE DEF rows
    <2> QED BY <2>1, <1>1, <1>3, <1>4 DEF AccountsInv, WorkerOK
  <1> QED BY <1>1, <1>5, <1>6, <1>7, <1>8, <1>9, <1>10 DEF AccountsInv

\* No step of the server or of a command line breaks what holds of accounts.
LEMMA AccountsNext ==
  ASSUME AccountsInv, [ANext]_avars PROVE AccountsInv'
  <1>1. ASSUME NEW w \in AWorkers,
               \/ LoginCheck(w) \/ LoginBadBody(w) \/ LoginVerify(w) \/ LoginIssue(w)
               \/ RefreshDecode(w) \/ RefreshVerify(w) \/ RefreshSign(w)
               \/ LogoutBrowser(w) \/ LogoutApi(w)
        PROVE  AccountsInv'
    BY <1>1, LoginSteps, LoginVerifyStep, LoginIssueStep, RefreshDecodeStep, RefreshVerifyStep,
       RefreshSignStep, LogoutStep
  <1>2. ASSUME NEW c \in AClis,
               \/ UserAddRead(c) \/ UserAddWrite(c) \/ GroupAddRead(c) \/ GroupAddWrite(c)
               \/ RolesRead(c) \/ RolesWrite(c) \/ MemberRead(c) \/ MemberWrite(c)
               \/ TokenRead(c) \/ TokenWrite(c) \/ CliUserDel(c) \/ CliPasswd(c)
               \/ CliGroupDel(c) \/ CliTokenRevoke(c)
        PROVE  AccountsInv'
    BY <1>2, CliReads, UserWrites, OtherWrites, UserDelStep
  <1>3. CASE (\E f \in {"priv", "pub"} : WriteKeyFile(f)) \/ ReloadPrivate \/ ReloadPublic \/ ATick
    BY <1>3, KeySteps
  <1>4. CASE ServerRestart BY <1>4, RestartStep
  <1>5. CASE UNCHANGED avars
    BY <1>5 DEF avars, AccountsInv, ATypeOK, IdsAreSpent, AKeysAreAPair, ARowsHaveOwners,
                ARevokedNeverRefreshes, RefreshOK, WorkerOK
  <1> QED BY <1>1, <1>2, <1>3, <1>4, <1>5 DEF ANext

\* The throttle.  Until a window has elapsed, the count and the workers that asked before it
\* reached the allowance stay together within it, plus one for each other worker.
Verifying == {w \in AWorkers : aworker[w].pc = "verify"}
InWindow ==
    {i \in DOMAIN ahist.fails : ahist.fails[i] \in alimit.start..(alimit.start + WindowSecs - 1)}

ThrottleTypes ==
    /\ anow \in Nat
    /\ DOMAIN aworker = AWorkers
    /\ DOMAIN ahist = {"fails", "revoked", "ended", "born", "leaked"}
    /\ ahist.fails \in Seq(Nat)
    /\ alimit = NoEntry \/ alimit \in [count : Nat, start : Nat]

CountIsBounded ==
    \/ alimit = NoEntry
    \/ alimit.start + WindowSecs <= anow
    \/ alimit.count < Allowance
    \/ alimit.count + Cardinality(Verifying) <= Allowance + Cardinality(AWorkers) - 1

ThrottleInv ==
    /\ ThrottleTypes
    /\ CountIsBounded
    /\ alimit = NoEntry => ahist.fails = <<>>
    /\ alimit # NoEntry =>
          /\ alimit.start <= anow
          /\ \A i \in DOMAIN ahist.fails : ahist.fails[i] < alimit.start + WindowSecs \/ WindowSecs = 0
          /\ Cardinality(InWindow) <= alimit.count
          /\ Cardinality(InWindow) <= Allowance + Cardinality(AWorkers) - 1

\* Verifying is a set of workers, and InWindow of attempts: both are finite.
LEMMA BothFinite ==
  ASSUME ThrottleTypes
  PROVE  /\ IsFiniteSet(Verifying) /\ Cardinality(Verifying) \in Nat
         /\ Cardinality(Verifying) <= Cardinality(AWorkers)
         /\ Cardinality(AWorkers) \in Nat
         /\ IsFiniteSet(InWindow) /\ Cardinality(InWindow) \in Nat
  <1>1. IsFiniteSet(AWorkers) BY AuthAssumption
  <1>2. Verifying \subseteq AWorkers BY DEF Verifying
  <1>3. IsFiniteSet(DOMAIN ahist.fails)
    <2>1. DOMAIN ahist.fails = 1..Len(ahist.fails) /\ Len(ahist.fails) \in Nat BY DEF ThrottleTypes
    <2> QED BY <2>1, FS_Interval
  <1>4. InWindow \subseteq DOMAIN ahist.fails BY DEF InWindow
  <1> QED BY <1>1, <1>2, <1>3, <1>4, FS_Subset, FS_CardinalityType

\* Whatever neither asks the throttle nor tells it anything.
LEMMA ThrottleStays ==
  ASSUME ThrottleInv, UNCHANGED alimit, ahist'.fails = ahist.fails, DOMAIN ahist' = DOMAIN ahist,
         anow' \in Nat, anow <= anow', DOMAIN aworker' = AWorkers, Verifying' \subseteq Verifying
  PROVE  ThrottleInv'
  <1>1. ThrottleTypes' BY DEF ThrottleInv, ThrottleTypes
  <1>2. InWindow' = InWindow BY DEF InWindow
  <1>3. Cardinality(Verifying') <= Cardinality(Verifying)
    BY BothFinite, FS_Subset DEF ThrottleInv
  <1>4. CountIsBounded'
    <2>1. alimit # NoEntry => alimit.start \in Nat /\ alimit.count \in Nat
      BY DEF ThrottleInv, ThrottleTypes
    <2>2. anow \in Nat /\ WindowSecs \in Nat /\ Allowance \in Nat
      BY AuthAssumption DEF ThrottleInv, ThrottleTypes, Allowance
    <2>3. Cardinality(Verifying') \in Nat /\ Cardinality(Verifying) \in Nat /\ Cardinality(AWorkers) \in Nat
      BY <1>1, BothFinite, FS_Subset, FS_CardinalityType DEF ThrottleInv
    <2> QED BY <1>3, <2>1, <2>2, <2>3, SMTT(30) DEF ThrottleInv, CountIsBounded
  <1>5. alimit # NoEntry => alimit.start <= anow'
    BY DEF ThrottleInv, ThrottleTypes
  <1> QED BY <1>1, <1>2, <1>4, <1>5 DEF ThrottleInv

\* An address is let through while the count is below the allowance.
LEMMA ThrottleAsked ==
  ASSUME ThrottleInv, NEW w \in AWorkers, LoginCheck(w)
  PROVE  ThrottleInv'
  <1>1. /\ UNCHANGED <<alimit, ahist, anow>> /\ ~IsBlocked
        /\ aworker' = [aworker EXCEPT ![w] = [pc |-> "verify"]]
    BY DEF LoginCheck
  <1>2. ThrottleTypes' BY <1>1 DEF ThrottleInv, ThrottleTypes
  <1>3. CountIsBounded'
    BY <1>1, AuthAssumption DEF IsBlocked, Elapsed, CountIsBounded, Allowance, ThrottleInv,
                                ThrottleTypes
  <1>4. InWindow' = InWindow BY <1>1 DEF InWindow
  <1> QED BY <1>1, <1>2, <1>3, <1>4 DEF ThrottleInv

\* A login that succeeds, and a restart, begin the count again.
LEMMA ThrottleReset ==
  ASSUME ThrottleTypes', alimit' = NoEntry, ahist'.fails = <<>>
  PROVE  ThrottleInv'
  BY DEF ThrottleInv, CountIsBounded

\* A wrong password is counted by a worker that no longer verifies.
LEMMA ThrottleTold ==
  ASSUME ThrottleInv, NEW w \in AWorkers, aworker[w].pc = "verify", RecordFailure,
         ahist' = [ahist EXCEPT !.fails = Append(ahist.fails, anow)],
         aworker' = [aworker EXCEPT ![w] = AIdle], UNCHANGED anow
  PROVE  ThrottleInv'
  <1> DEFINE n == Len(ahist.fails) + 1
  <1>1. /\ ahist.fails \in Seq(Nat) /\ anow \in Nat /\ WindowSecs \in Nat
        /\ Allowance \in Nat /\ Allowance >= 1
    BY AuthAssumption DEF ThrottleInv, ThrottleTypes, Allowance
  <1>2. /\ ahist'.fails = Append(ahist.fails, anow) /\ DOMAIN ahist' = DOMAIN ahist
        /\ ahist'.fails \in Seq(Nat)
        /\ DOMAIN ahist'.fails = DOMAIN ahist.fails \cup {n} /\ n \notin DOMAIN ahist.fails
        /\ ahist'.fails[n] = anow /\ \A i \in DOMAIN ahist.fails : ahist'.fails[i] = ahist.fails[i]
    <2>1. ahist'.fails = Append(ahist.fails, anow) /\ DOMAIN ahist' = DOMAIN ahist
      BY DEF ThrottleInv, ThrottleTypes
    <2> QED BY <2>1, <1>1
  <1>3. /\ alimit' \in [count : Nat, start : Nat] /\ alimit' # NoEntry
    <2>1. CASE alimit = NoEntry \/ Elapsed(alimit)
      BY <2>1, <1>1 DEF RecordFailure, NoEntry
    <2>2. CASE ~(alimit = NoEntry \/ Elapsed(alimit))
      <3>1. alimit' = [alimit EXCEPT !.count = alimit.count + 1] BY <2>2 DEF RecordFailure
      <3>2. alimit \in [count : Nat, start : Nat] /\ alimit.count + 1 \in Nat
        BY <2>2 DEF ThrottleInv, ThrottleTypes
      <3> QED BY <3>1, <3>2 DEF NoEntry
    <2> QED BY <2>1, <2>2
  <1>4. ThrottleTypes' BY <1>1, <1>2, <1>3 DEF ThrottleInv, ThrottleTypes
  <1>5. /\ Cardinality(Verifying') \in Nat /\ Cardinality(AWorkers) \in Nat
        /\ Cardinality(Verifying') = Cardinality(Verifying) - 1
        /\ Cardinality(Verifying') <= Cardinality(AWorkers) - 1
        /\ Cardinality(Verifying) \in Nat
    <2>1. Verifying' = Verifying \ {w} /\ w \in Verifying
      BY DEF Verifying, AIdle, ThrottleInv, ThrottleTypes
    <2>2. IsFiniteSet(Verifying) /\ Cardinality(Verifying) \in Nat BY BothFinite DEF ThrottleInv
    <2>3. Cardinality(Verifying') = Cardinality(Verifying) - 1 /\ Cardinality(Verifying') \in Nat
      BY <2>1, <2>2, FS_RemoveElement, FS_CardinalityType
    <2> QED BY <2>2, <2>3, BothFinite DEF ThrottleInv
  <1>6. CASE alimit = NoEntry \/ Elapsed(alimit)
    <2>1. alimit' = [count |-> 1, start |-> anow] BY <1>6 DEF RecordFailure
    <2>2. alimit'.count = 1 /\ alimit'.start = anow BY <2>1
    <2>3. \A i \in DOMAIN ahist.fails : ahist.fails[i] < anow \/ WindowSecs = 0
      BY <1>1, <1>6 DEF ThrottleInv, ThrottleTypes, Elapsed
    <2>4. InWindow' \subseteq {n}
      <3>1. CASE WindowSecs = 0 BY <3>1, <2>2, <1>1 DEF InWindow
      <3>2. CASE WindowSecs # 0 BY <3>2, <2>2, <2>3, <1>1, <1>2 DEF InWindow
      <3> QED BY <3>1, <3>2
    <2>5. Cardinality(InWindow') <= 1 /\ Cardinality(InWindow') \in Nat
      <3>1. IsFiniteSet({n}) /\ Cardinality({n}) = 1 BY FS_Singleton
      <3> QED BY <3>1, <2>4, FS_Subset, FS_CardinalityType
    <2>6. \A i \in DOMAIN ahist'.fails : ahist'.fails[i] < anow + WindowSecs \/ WindowSecs = 0
      BY <2>3, <1>1, <1>2
    <2>7. CountIsBounded' BY <2>2, <1>5, <1>1 DEF CountIsBounded
    <2> QED BY <2>2, <2>5, <2>6, <2>7, <1>1, <1>3, <1>4, <1>5, SMTT(30) DEF ThrottleInv
  <1>7. CASE ~(alimit = NoEntry \/ Elapsed(alimit))
    <2>1. alimit' = [alimit EXCEPT !.count = alimit.count + 1] BY <1>7 DEF RecordFailure
    <2>2. /\ alimit \in [count : Nat, start : Nat]
          /\ alimit.start <= anow /\ anow < alimit.start + WindowSecs
      BY <1>1, <1>7 DEF ThrottleInv, ThrottleTypes, Elapsed
    <2>3. alimit'.count = alimit.count + 1 /\ alimit'.start = alimit.start BY <2>1, <2>2
    <2>4. InWindow' = InWindow \cup {n} /\ n \notin InWindow
      <3>1. n \notin InWindow BY <1>2 DEF InWindow
      <3>2. anow \in alimit.start..(alimit.start + WindowSecs - 1) BY <2>2, <1>1
      <3> HIDE DEF n
      <3> QED BY <3>1, <3>2, <2>3, <1>2 DEF InWindow
    <2>5. Cardinality(InWindow') = Cardinality(InWindow) + 1 /\ Cardinality(InWindow) \in Nat
      BY <2>4, BothFinite, FS_AddElement DEF ThrottleInv
    <2>6. CountIsBounded' /\ alimit'.count <= Allowance + Cardinality(AWorkers) - 1
      <3>1. \/ alimit.count < Allowance
            \/ alimit.count + Cardinality(Verifying) <= Allowance + Cardinality(AWorkers) - 1
        BY <1>7 DEF ThrottleInv, CountIsBounded, Elapsed
      <3>2. /\ alimit.count \in Nat
            /\ alimit'.count + Cardinality(Verifying') <= Allowance + Cardinality(AWorkers) - 1
        BY <3>1, <2>2, <2>3, <1>1, <1>5, SMTT(30)
      <3>3. CountIsBounded' BY <3>2 DEF CountIsBounded
      <3> QED BY <3>2, <3>3, <2>3, <1>1, <1>5, SMTT(30)
    <2>7. Cardinality(InWindow') <= alimit'.count
      BY <2>2, <2>3, <2>5, <1>7 DEF ThrottleInv
    <2>8. \A i \in DOMAIN ahist'.fails : ahist'.fails[i] < alimit.start + WindowSecs \/ WindowSecs = 0
      BY <2>2, <1>2, <1>7 DEF ThrottleInv
    <2>9. Cardinality(InWindow') <= Allowance + Cardinality(AWorkers) - 1
      BY <2>2, <2>3, <2>5, <2>6, <2>7, <1>1, <1>5
    <2> QED BY <2>2, <2>3, <2>6, <2>7, <2>8, <2>9, <1>3, <1>4 DEF ThrottleInv
  <1> QED BY <1>6, <1>7

\* The throttle under every step.
LEMMA ThrottleNext ==
  ASSUME ThrottleInv, AccountsInv, [ANext]_avars PROVE ThrottleInv'
  <1>0. /\ anow \in Nat /\ DOMAIN aworker = AWorkers
        /\ DOMAIN ahist = {"fails", "revoked", "ended", "born", "leaked"}
    BY DEF ThrottleInv, ThrottleTypes
  <1>1. ASSUME NEW w \in AWorkers, LoginVerify(w) PROVE ThrottleInv'
    <2>1. CASE aworker' = [aworker EXCEPT ![w] = AIdle] /\ RecordFailure
                /\ ahist' = [ahist EXCEPT !.fails = Append(ahist.fails, anow)]
      BY <1>1, <2>1, ThrottleTold DEF LoginVerify
    <2>2. ASSUME NEW u, aworker' = [aworker EXCEPT ![w] = [pc |-> "issue", uid |-> u, row |-> auser[u]]],
                 UNCHANGED <<alimit, ahist>>
          PROVE  ThrottleInv'
      <3>1. DOMAIN aworker' = AWorkers /\ Verifying' \subseteq Verifying
        BY <2>2, <1>0 DEF Verifying
      <3>2. anow' = anow BY <1>1 DEF LoginVerify
      <3> QED BY <3>1, <3>2, <2>2, <1>0, ThrottleStays
    <2> QED BY <1>1, <2>1, <2>2 DEF LoginVerify
  <1>2. ASSUME NEW w \in AWorkers, LoginIssue(w) PROVE ThrottleInv'
    <2>1. /\ alimit' = NoEntry /\ anow' = anow
          /\ aworker' = [aworker EXCEPT ![w] = AIdle]
      BY <1>2 DEF LoginIssue
    <2>2. ahist'.fails = <<>> /\ DOMAIN ahist' = DOMAIN ahist
      <3>1. \/ \E rt : ahist' = [ahist EXCEPT !.fails = <<>>, !.revoked = ahist.revoked \ {rt},
                                              !.ended = ahist.ended \ {rt}]
            \/ ahist' = [ahist EXCEPT !.fails = <<>>]
        BY <1>2 DEF LoginIssue
      <3>2. CASE ahist' = [ahist EXCEPT !.fails = <<>>] BY <3>2, <1>0
      <3>3. ASSUME NEW rt, ahist' = [ahist EXCEPT !.fails = <<>>, !.revoked = ahist.revoked \ {rt},
                                                 !.ended = ahist.ended \ {rt}]
            PROVE  ahist'.fails = <<>> /\ DOMAIN ahist' = DOMAIN ahist
        BY <3>3, <1>0
      <3> QED BY <3>1, <3>2, <3>3
    <2>3. ThrottleTypes' BY <2>1, <2>2, <1>0 DEF ThrottleTypes
    <2> QED BY <2>1, <2>2, <2>3, ThrottleReset
  <1>3. CASE ServerRestart
    <2>1. /\ alimit' = NoEntry /\ anow' = anow /\ aworker' = [w \in AWorkers |-> AIdle]
          /\ ahist' = [ahist EXCEPT !.fails = <<>>]
      BY <1>3 DEF ServerRestart
    <2>2. ahist'.fails = <<>> /\ DOMAIN ahist' = DOMAIN ahist BY <2>1, <1>0
    <2>3. ThrottleTypes' BY <2>1, <2>2, <1>0 DEF ThrottleTypes
    <2> QED BY <2>1, <2>2, <2>3, ThrottleReset
  <1>4. ASSUME NEW w \in AWorkers,
               LoginBadBody(w) \/ RefreshDecode(w) \/ RefreshVerify(w) \/ RefreshSign(w)
        PROVE  ThrottleInv'
    <2>1. /\ UNCHANGED <<alimit, anow>> /\ ahist'.fails = ahist.fails /\ DOMAIN ahist' = DOMAIN ahist
      <3>1. UNCHANGED <<alimit, anow>> /\ (UNCHANGED ahist \/ \E b : ahist' = [ahist EXCEPT !.leaked = b])
        BY <1>4 DEF LoginBadBody, RefreshDecode, RefreshVerify, RefreshSign
      <3> QED BY <3>1, <1>0
    <2>2. DOMAIN aworker' = AWorkers /\ \A v \in AWorkers \ {w} : aworker'[v] = aworker[v]
      BY <1>4, <1>0 DEF LoginBadBody, RefreshDecode, RefreshVerify, RefreshSign
    <2>3. aworker'[w].pc # "verify"
      <3>1. CASE LoginBadBody(w) BY <3>1, <1>0 DEF LoginBadBody, AIdle
      <3>2. CASE RefreshDecode(w) BY <3>2, <1>0 DEF RefreshDecode
      <3>3. CASE RefreshVerify(w) BY <3>3, <1>0 DEF RefreshVerify, AIdle, AccountsInv, WorkerOK
      <3>4. CASE RefreshSign(w) BY <3>4, <1>0 DEF RefreshSign, AIdle
      <3> QED BY <1>4, <3>1, <3>2, <3>3, <3>4
    <2>4. Verifying' \subseteq Verifying BY <2>2, <2>3 DEF Verifying
    <2> QED BY <2>1, <2>2, <2>4, <1>0, ThrottleStays
  <1>5. CASE /\ UNCHANGED <<aworker, alimit>> /\ anow' \in Nat /\ anow <= anow'
             /\ ahist'.fails = ahist.fails /\ DOMAIN ahist' = DOMAIN ahist
    <2>1. Verifying' = Verifying BY <1>5 DEF Verifying
    <2> QED BY <1>5, <2>1, <1>0, ThrottleStays
  <1>6. CASE (\E w \in AWorkers : LogoutBrowser(w) \/ LogoutApi(w))
    <2>1. /\ UNCHANGED <<aworker, alimit, anow>>
          /\ \/ \E r : ahist' = [ahist EXCEPT !.revoked = r]
             \/ \E r, e : ahist' = [ahist EXCEPT !.revoked = r, !.ended = e]
      BY <1>6 DEF LogoutBrowser, LogoutApi
    <2>2. ahist'.fails = ahist.fails /\ DOMAIN ahist' = DOMAIN ahist
      <3>1. ASSUME NEW r, NEW e, ahist' = [ahist EXCEPT !.revoked = r, !.ended = e]
            PROVE  ahist'.fails = ahist.fails /\ DOMAIN ahist' = DOMAIN ahist
        BY <3>1, <1>0
      <3>2. ASSUME NEW r, ahist' = [ahist EXCEPT !.revoked = r]
            PROVE  ahist'.fails = ahist.fails /\ DOMAIN ahist' = DOMAIN ahist
        BY <3>2, <1>0
      <3> QED BY <2>1, <3>1, <3>2
    <2>3. UNCHANGED <<aworker, alimit, anow>> BY <2>1
    <2> QED BY <2>2, <2>3, <1>0, <1>5
  <1>7. CASE \/ \E f \in {"priv", "pub"} : WriteKeyFile(f)
             \/ ReloadPrivate \/ ReloadPublic \/ ATick \/ UNCHANGED avars
    <2>1. UNCHANGED <<aworker, alimit, ahist>> /\ (anow' = anow \/ anow' = anow + 1)
      BY <1>7 DEF WriteKeyFile, ReloadPrivate, ReloadPublic, ATick, avars
    <2> QED BY <2>1, <1>0, <1>5
  <1>8. ASSUME NEW c \in AClis,
               \/ UserAddRead(c) \/ UserAddWrite(c) \/ GroupAddRead(c) \/ GroupAddWrite(c)
               \/ RolesRead(c) \/ RolesWrite(c) \/ MemberRead(c) \/ MemberWrite(c)
               \/ TokenRead(c) \/ TokenWrite(c) \/ CliUserDel(c) \/ CliPasswd(c)
               \/ CliGroupDel(c) \/ CliTokenRevoke(c)
        PROVE  ThrottleInv'
    <2>1. /\ UNCHANGED <<aworker, alimit, anow>>
          /\ \/ UNCHANGED ahist
             \/ \E b : ahist' = [ahist EXCEPT !.born = b]
             \/ \E r : ahist' = [ahist EXCEPT !.revoked = r]
      BY <1>8 DEF UserAddRead, UserAddWrite, GroupAddRead, GroupAddWrite, RolesRead, RolesWrite,
         MemberRead, MemberWrite, TokenRead, TokenWrite, CliUserDel, CliPasswd, CliGroupDel,
         CliTokenRevoke, CliStep, CliDone, DropUser
    <2>2. ahist'.fails = ahist.fails /\ DOMAIN ahist' = DOMAIN ahist BY <2>1, <1>0
    <2> QED BY <2>1, <2>2, <1>0, <1>5
  <1>9. ASSUME NEW w \in AWorkers, LoginCheck(w) PROVE ThrottleInv' BY <1>9, ThrottleAsked
  <1> QED BY <1>1, <1>2, <1>3, <1>4, <1>6, <1>7, <1>8, <1>9 DEF ANext

\* Accounts, tokens, keys and the throttle, for any number of users, groups, workers and
\* command-line processes, whatever the allowance and the window.
THEOREM AccountsAreSound == ASpec => []AContract
  <1>1. AInit => AccountsInv
    <2> SUFFICES ASSUME AInit PROVE AccountsInv OBVIOUS
    <2>1. ATypeOK BY DEF AInit, ATypeOK
    <2>2. CliOK(AIdle) BY DEF CliOK, AIdle
    <2> QED BY <2>1, <2>2 DEF AInit, AccountsInv, IdsAreSpent, AKeysAreAPair, ARowsHaveOwners,
              ARevokedNeverRefreshes, WorkerOK, AIdle
  <1>2. AInit => ThrottleInv
    <2> SUFFICES ASSUME AInit PROVE ThrottleInv OBVIOUS
    <2>1. ThrottleTypes BY DEF AInit, ThrottleTypes
    <2> QED BY <2>1 DEF AInit, ThrottleInv, CountIsBounded
  <1>3. AccountsInv /\ ThrottleInv => AContract
    BY DEF AccountsInv, ThrottleInv, AContract, AGuessesAreBounded, InWindow
  <1> QED BY <1>1, <1>2, <1>3, AccountsNext, ThrottleNext, PTL DEF ASpec

-----------------------------------------------------------------------------
(* ServiceData.  A file that is only replaced is whole because a temporary   *)
(* file that one call is at is renamed when it is written and synced, because *)
(* one that two calls were at is marked, and because an inode that was ever   *)
(* under such a name is never truncated again.                                *)

\* The names whose file may be written in place.
Loose == DNames \ AtomicPaths

Nodes == [data : Seq(Nat), synced : BOOLEAN, shared : BOOLEAN]
Ats == {"idle", "create", "open", "write", "sync", "rename", "stamp", "make",
        "lookup", "slurp", "listdir", "next"}
FileWork == [op : {"none", "atomic", "plain", "read", "list", "touch"}, path : DPaths \cup {""},
         at : Ats, val : Nat, node : Nat, off : Nat, got : Seq(Nat), left : SUBSET DPaths]

\* The first n blocks of v, and nothing else.
Holds(d, n, v) == d \in Seq(Nat) /\ Len(d) = n /\ \A j \in 1..n : d[j] = v

\* Inode i has a whole value that reached the disk, unless two calls were at it, and no
\* one will open it for writing again.
PlainWrite(k) == k.op = "plain" /\ k.at = "write"
Kept(i) ==
    /\ i \in 1..Len(dnode)
    /\ ~dnode[i].shared => (\E v \in DValues : Holds(dnode[i].data, 2, v)) /\ dnode[i].synced
    /\ \A n \in Loose : dname[n] # i
    /\ \A w \in DWorkers : PlainWrite(dwork[w]) => dwork[w].node # i

DTypeOK ==
    /\ dnode \in Seq(Nodes)
    /\ dname \in [DNames -> 0..Len(dnode)] /\ dold \in [DNames -> 0..Len(dnode)]
    /\ dwork \in [DWorkers -> FileWork]

\* Which step belongs to which operation.
StepsAgree(w, k) ==
    /\ k.at # "idle" => k.path \in DPaths
    /\ k.op \in {"atomic", "plain", "touch"} => <<w, k.op, k.path>> \in DCalls
    /\ k.at \in {"create", "sync", "rename"} => k.op = "atomic"
    /\ k.at = "open" => k.op = "plain"
    /\ k.at = "make" => k.op = "touch"
    /\ k.at = "write" => k.op \in {"atomic", "plain"}
    /\ k.at \in {"listdir", "next"} => k.op = "list"
    /\ k.at \in {"lookup", "slurp"} => k.op \in {"read", "list"}
    /\ k.at \in {"create", "open"} => k.off = 0
    /\ k.at \in {"create", "open", "write"} => k.val \in DValues

\* The temporary file of a write under way holds what has been written, if the call is
\* alone at it; otherwise what has its name now is marked.
TmpHolds(k) ==
    Busy(k) =>
        /\ k.node \in 1..Len(dnode)
        /\ dnode[k.node].shared => dname[DTmpOf[k.path]] = 0 \/ dnode[dname[DTmpOf[k.path]]].shared
        /\ ~dnode[k.node].shared =>
              /\ dname[DTmpOf[k.path]] = k.node /\ k.val \in DValues
              /\ k.at = "write" => k.off \in {0, 1} /\ Holds(dnode[k.node].data, k.off, k.val)
              /\ k.at \in {"sync", "rename"} => Holds(dnode[k.node].data, 2, k.val)
              /\ k.at = "rename" => dnode[k.node].synced

\* A plain write is of no temporary file.
PlainIsApart(k) ==
    PlainWrite(k) => /\ k.node \in 1..Len(dnode)
                /\ \A p \in DPaths : dname[DTmpOf[p]] # k.node

\* A reader has the first blocks of a whole value.
ReaderHolds(k) ==
    k.at = "slurp" =>
        /\ k.node \in 1..Len(dnode)
        /\ k.path \in AtomicPaths =>
              /\ Kept(k.node)
              /\ ~dnode[k.node].shared => /\ k.off <= 2 /\ Len(k.got) = k.off
                                          /\ \A j \in 1..k.off : k.got[j] = dnode[k.node].data[j]

WorkersAgree ==
    \A w \in DWorkers : /\ StepsAgree(w, dwork[w]) /\ TmpHolds(dwork[w])
                        /\ PlainIsApart(dwork[w]) /\ ReaderHolds(dwork[w])

\* An inode that two calls are writing is marked.
BusyApart ==
    \A u, w \in DWorkers :
        u # w /\ Busy(dwork[u]) /\ Busy(dwork[w]) /\ dwork[u].node = dwork[w].node => dnode[dwork[u].node].shared

\* An inode that may be written has one name, and a rename that is undone does not
\* give it a second.
NamesApart ==
    /\ \A n \in Loose, m \in DNames : n # m /\ dname[n] # 0 => dname[m] # dname[n]
    /\ \A q \in DPaths \ AtomicPaths, m \in DNames : q # m /\ dold[q] # 0 => dname[m] # dold[q]

NamesKept ==
    \A p \in AtomicPaths : (dname[p] # 0 => Kept(dname[p])) /\ (dold[p] # 0 => Kept(dold[p]))

SeenIsWhole ==
    dseen # <<>> /\ dseen[1] \in AtomicPaths /\ ~dseen[3] => \E v \in DValues : Holds(dseen[2], 2, v)

DataInv == DTypeOK /\ WorkersAgree /\ BusyApart /\ NamesApart /\ NamesKept /\ SeenIsWhole

\* Two blocks of one value are the whole value.
LEMMA HoldsIsWhole == ASSUME NEW d, NEW v, Holds(d, 2, v) PROVE d = <<v, v>>
  <1>1. <<v, v>> = [j \in 1..2 |-> v] OBVIOUS
  <1>2. d = [j \in 1..2 |-> d[j]] BY DEF Holds
  <1> QED BY <1>1, <1>2 DEF Holds

\* The invariant says what readers see is whole.
LEMMA InvIsWhole == ASSUME DataInv PROVE DFilesAreWhole
  <1>1. ASSUME NEW p \in AtomicPaths, dname[p] # 0, ~dnode[dname[p]].shared PROVE Whole(dnode[dname[p]].data)
    BY <1>1, HoldsIsWhole DEF DataInv, NamesKept, Kept, Whole
  <1>2. ASSUME dseen # <<>>, dseen[1] \in AtomicPaths, ~dseen[3] PROVE Whole(dseen[2])
    BY <1>2, HoldsIsWhole DEF DataInv, SeenIsWhole, Whole
  <1> QED BY <1>1, <1>2 DEF DFilesAreWhole

\* A worker at rest.
LEMMA AtRestIs ==
  /\ AtRest \in FileWork /\ AtRest.op = "none" /\ AtRest.at = "idle"
  <1>1. <<>> \in Seq(Nat) OBVIOUS
  <1> QED BY <1>1 DEF AtRest, FileWork, Ats

\* No temporary name is a data file's.
LEMMA NamesAre ==
         /\ AtomicPaths \subseteq DPaths /\ DPaths \subseteq DNames
         /\ \A p \in DPaths : DTmpOf[p] \in Loose /\ DTmpOf[p] # p /\ DTmpOf[p] \notin DPaths
  BY DataAssumption DEF AtomicPaths, DNames, Loose

\* A worker at rest promises nothing.
LEMMA RestAgrees ==
  ASSUME NEW w PROVE StepsAgree(w, AtRest) /\ TmpHolds(AtRest) /\ PlainIsApart(AtRest) /\ ReaderHolds(AtRest)
  BY AtRestIs DEF StepsAgree, TmpHolds, Busy, PlainIsApart, PlainWrite, ReaderHolds

\* The invariant holds of an empty directory.
LEMMA DataInit == ASSUME DInit PROVE DataInv
  <1>1. dnode \in Seq(Nodes) /\ Len(dnode) = 0 BY DEF DInit
  <1>2. DTypeOK BY <1>1, AtRestIs DEF DInit, DTypeOK
  <1>3. WorkersAgree BY RestAgrees DEF DInit, WorkersAgree
  <1>5. BusyApart BY AtRestIs DEF DInit, BusyApart, Busy
  <1>4. NamesApart /\ NamesKept BY DEF DInit, NamesApart, NamesKept, Loose, AtomicPaths, DNames
  <1> QED BY <1>2, <1>3, <1>4, <1>5 DEF DataInv, SeenIsWhole, DInit
\* Inode i is as it was, or two calls were at it before and are now.
InodeStays(i) == dnode'[i].shared = dnode[i].shared /\ (~dnode[i].shared => dnode'[i] = dnode[i])

\* What is kept stays so while its inode is left alone and nobody gets hold of it.
LEMMA KeptStays ==
  ASSUME NEW i, Kept(i), Len(dnode) \in Nat, Len(dnode') \in Nat, Len(dnode) <= Len(dnode'), InodeStays(i),
         \A n \in Loose : dname'[n] # i,
         \A u \in DWorkers : PlainWrite(dwork'[u]) => dwork'[u].node # i
  PROVE  Kept(i)'
  BY DEF Kept, InodeStays

\* A worker's step that touches no file: it calls, looks, reads or returns.
LEMMA FileQuietStep ==
  ASSUME DataInv, NEW w \in DWorkers, NEW k \in FileWork, UNCHANGED <<dnode, dname, dold>>,
         dwork' = [dwork EXCEPT ![w] = k],
         StepsAgree(w, k), k.at \notin {"write", "sync", "rename"}, ReaderHolds(k), SeenIsWhole'
  PROVE  DataInv'
  <1>0. /\ dwork'[w] = k /\ \A u \in DWorkers \ {w} : dwork'[u] = dwork[u]
        /\ Len(dnode) \in Nat /\ \A n \in DNames : dname[n] \in Nat /\ dold[n] \in Nat
    BY DEF DataInv, DTypeOK
  <1>1. DTypeOK' BY DEF DataInv, DTypeOK
  <1>2. ASSUME NEW i, Kept(i) PROVE Kept(i)'
    <2>1. ASSUME NEW u \in DWorkers, PlainWrite(dwork'[u]) PROVE dwork'[u].node # i
      BY <1>0, <1>2, <2>1 DEF PlainWrite, Kept
    <2>2. InodeStays(i) /\ Len(dnode') = Len(dnode) /\ \A n \in Loose : dname'[n] # i BY <1>2 DEF InodeStays, Kept
    <2> QED BY <1>0, <1>2, <2>1, <2>2, KeptStays
  <1>3. ASSUME NEW u \in DWorkers
        PROVE  StepsAgree(u, dwork'[u]) /\ (TmpHolds(dwork[u]) /\ PlainIsApart(dwork[u]) /\ ReaderHolds(dwork[u]))'
    <2>1. CASE u = w
      <3>1. (k.at = "slurp" /\ k.path \in AtomicPaths => Kept(k.node)')
        BY <1>2 DEF ReaderHolds
      <3>2. ReaderHolds(dwork[w])' BY <1>0, <3>1 DEF ReaderHolds
      <3> QED BY <1>0, <2>1, <3>2 DEF TmpHolds, Busy, PlainIsApart, PlainWrite
    <2>2. CASE u # w
      <3>1. dwork'[u] = dwork[u] /\ StepsAgree(u, dwork[u]) /\ TmpHolds(dwork[u]) /\ PlainIsApart(dwork[u])
              /\ ReaderHolds(dwork[u])
        BY <1>0, <2>2 DEF DataInv, WorkersAgree
      <3>2. (dwork[u].at = "slurp" /\ dwork[u].path \in AtomicPaths => Kept(dwork[u].node)')
        BY <1>2, <3>1 DEF ReaderHolds
      <3>3. ReaderHolds(dwork[u])' BY <3>1, <3>2 DEF ReaderHolds
      <3> QED BY <3>1, <3>3 DEF TmpHolds, PlainIsApart, PlainWrite
    <2> QED BY <2>1, <2>2
  <1>4. WorkersAgree' BY <1>3 DEF WorkersAgree, StepsAgree
  <1>5. NamesApart' /\ NamesKept'
    BY <1>2 DEF DataInv, NamesApart, NamesKept, Loose
  <1>6. BusyApart'
    <2> SUFFICES ASSUME NEW u \in DWorkers, NEW v \in DWorkers, u # v, Busy(dwork'[u]), Busy(dwork'[v]),
                        dwork'[u].node = dwork'[v].node
                 PROVE  dnode'[dwork'[u].node].shared
      BY DEF BusyApart, Busy
    <2>1. u # w /\ v # w BY <1>0 DEF Busy
    <2>2. dwork'[u] = dwork[u] /\ dwork'[v] = dwork[v] BY <1>0, <2>1
    <2> QED BY <2>2 DEF DataInv, BusyApart
  <1> QED BY <1>1, <1>4, <1>5, <1>6 DEF DataInv

\* Where a worker is after a step.
LEMMA WentIs ==
  ASSUME NEW k \in FileWork, NEW at \in Ats
  PROVE  /\ Went(k, at) \in FileWork /\ Went(k, at).at = at
         /\ at = "idle" => Went(k, at) = AtRest
         /\ at # "idle" => Went(k, at) = [k EXCEPT !.at = at]
  BY AtRestIs DEF Went, FileWork, Ats

\* A call begins without touching a file.
LEMMA CallStep ==
  ASSUME DataInv, NEW w \in DWorkers, NEW c \in DCalls, NEW v \in DValues \cup {0}, c[1] = w,
         (v = 0) <=> (c[2] \notin {"atomic", "plain"}), Call(w, c[2], c[3], v)
  PROVE  DataInv'
  <1> DEFINE k == [AtRest EXCEPT !.op = c[2], !.path = c[3], !.at = FirstStep(c[2], c[3]), !.val = v]
  <1>1. /\ c[2] \in {"atomic", "plain", "read", "list", "touch"} /\ c[3] \in DPaths /\ c = <<w, c[2], c[3]>>
        /\ v \in Nat
    BY DataAssumption
  <1>2. /\ FirstStep(c[2], c[3]) \in {"create", "open", "stamp", "make", "lookup", "listdir"}
        /\ FirstStep(c[2], c[3]) = "create" => c[2] = "atomic"
        /\ FirstStep(c[2], c[3]) = "open" => c[2] = "plain"
        /\ FirstStep(c[2], c[3]) = "make" => c[2] = "touch"
        /\ FirstStep(c[2], c[3]) = "listdir" => c[2] = "list"
        /\ FirstStep(c[2], c[3]) = "lookup" => c[2] = "read"
    BY <1>1 DEF FirstStep
  <1>3. k \in FileWork /\ k.op = c[2] /\ k.path = c[3] /\ k.at = FirstStep(c[2], c[3]) /\ k.val = v /\ k.off = 0
    <2>1. <<>> \in Seq(Nat) OBVIOUS
    <2> QED BY <1>1, <1>2, <2>1 DEF AtRest, FileWork, Ats
  <1>4. dwork' = [dwork EXCEPT ![w] = k] /\ UNCHANGED <<dnode, dname, dold, dseen>> BY DEF Call
  <1> HIDE DEF k
  <1>5. StepsAgree(w, k) BY <1>1, <1>2, <1>3 DEF StepsAgree
  <1>6. ReaderHolds(k) BY <1>2, <1>3 DEF ReaderHolds
  <1>7. SeenIsWhole' BY <1>4 DEF DataInv, SeenIsWhole
  <1> QED BY <1>2, <1>3, <1>4, <1>5, <1>6, <1>7, FileQuietStep

\* What the invariant says of one worker.
LEMMA WorkerIs ==
  ASSUME DataInv, NEW w \in DWorkers
  PROVE  /\ dwork[w] \in FileWork /\ StepsAgree(w, dwork[w]) /\ TmpHolds(dwork[w])
         /\ PlainIsApart(dwork[w]) /\ ReaderHolds(dwork[w])
  BY DEF DataInv, DTypeOK, WorkersAgree

\* Looking, opening for reading and listing change no file.
LEMMA LookStep ==
  ASSUME DataInv, NEW w \in DWorkers, StampFile(w) \/ OpenForRead(w) \/ ListDir(w) \/ ListNext(w)
  PROVE  DataInv'
  <1> DEFINE k == dwork[w]
  <1>1. k \in FileWork /\ StepsAgree(w, k) BY WorkerIs
  <1>2. SeenIsWhole' BY DEF DataInv, SeenIsWhole, StampFile, OpenForRead, ListDir, ListNext
  <1>3. ASSUME dwork' = [dwork EXCEPT ![w] = AtRest], UNCHANGED <<dnode, dname, dold>> PROVE DataInv'
    BY <1>2, <1>3, AtRestIs, RestAgrees, FileQuietStep
  <1>4. CASE StampFile(w)
    BY <1>3, <1>4, <1>1 DEF StampFile, Goto, Went
  <1>5. CASE OpenForRead(w)
    <2>1. CASE dname[k.path] = 0 BY <1>3, <1>5, <2>1 DEF OpenForRead
    <2>2. CASE dname[k.path] # 0
      <3> DEFINE l == [k EXCEPT !.at = "slurp", !.node = dname[k.path], !.off = 0, !.got = <<>>]
      <3>1. k.at = "lookup" /\ dwork' = [dwork EXCEPT ![w] = l] /\ UNCHANGED <<dnode, dname, dold>>
        BY <1>5, <2>2 DEF OpenForRead
      <3>2. k.path \in DPaths /\ dname[k.path] \in 1..Len(dnode)
        BY <1>1, <2>2, <3>1 DEF StepsAgree, DataInv, DTypeOK, DNames
      <3>3. /\ l \in FileWork /\ l.at = "slurp" /\ l.op = k.op /\ l.path = k.path /\ l.node = dname[k.path]
            /\ l.off = 0 /\ l.got = <<>>
        <4>1. <<>> \in Seq(Nat) /\ dname[k.path] \in Nat BY <3>2
        <4> QED BY <1>1, <4>1 DEF FileWork, Ats
      <3> HIDE DEF l
      <3>4. StepsAgree(w, l) BY <1>1, <3>1, <3>2, <3>3 DEF StepsAgree
      <3>5. ReaderHolds(l) BY <2>2, <3>2, <3>3 DEF ReaderHolds, DataInv, NamesKept
      <3> QED BY <1>2, <3>1, <3>3, <3>4, <3>5, FileQuietStep
    <2> QED BY <2>1, <2>2
  <1>6. CASE ListDir(w)
    <2> DEFINE l == [k EXCEPT !.at = "next", !.left = {p \in DPaths : dname[p] # 0}]
    <2>1. k.at = "listdir" /\ dwork' = [dwork EXCEPT ![w] = l] /\ UNCHANGED <<dnode, dname, dold>>
      BY <1>1, <1>6 DEF ListDir, DataInv, DTypeOK
    <2>2. l \in FileWork /\ l.at = "next" /\ l.op = k.op /\ l.path = k.path BY <1>1 DEF FileWork, Ats
    <2> HIDE DEF l
    <2>3. StepsAgree(w, l) /\ ReaderHolds(l) BY <1>1, <2>1, <2>2 DEF StepsAgree, ReaderHolds
    <2> QED BY <1>2, <2>1, <2>2, <2>3, FileQuietStep
  <1>7. CASE ListNext(w)
    <2>1. CASE k.left = {} BY <1>3, <1>7, <2>1 DEF ListNext
    <2>2. CASE k.left # {}
      <3>1. PICK p \in k.left : dwork' = [dwork EXCEPT ![w].at = "lookup", ![w].path = p, ![w].left = @ \ {p}]
        BY <1>7, <2>2 DEF ListNext
      <3> DEFINE l == [k EXCEPT !.at = "lookup", !.path = p, !.left = @ \ {p}]
      <3>2. k.at = "next" /\ dwork' = [dwork EXCEPT ![w] = l] /\ UNCHANGED <<dnode, dname, dold>>
        BY <1>1, <1>7, <3>1 DEF ListNext, DataInv, DTypeOK
      <3>3. p \in DPaths BY <1>1 DEF FileWork
      <3>4. l \in FileWork /\ l.at = "lookup" /\ l.op = k.op /\ l.path = p BY <1>1, <3>3 DEF FileWork, Ats
      <3> HIDE DEF l
      <3>5. k.op \notin {"atomic", "plain", "touch"} BY <1>1, <3>2 DEF StepsAgree
      <3>6. StepsAgree(w, l) /\ ReaderHolds(l) BY <1>1, <3>2, <3>3, <3>4, <3>5 DEF StepsAgree, ReaderHolds
      <3> QED BY <1>2, <3>2, <3>4, <3>6, FileQuietStep
    <2> QED BY <2>1, <2>2
  <1> QED BY <1>4, <1>5, <1>6, <1>7
\* A block more of what is read, or the end of it.
LEMMA ReadBlockStep ==
  ASSUME DataInv, NEW w \in DWorkers, ReadBlock(w) PROVE DataInv'
  <1> DEFINE k == dwork[w]
             d == dnode[k.node].data
  <1>1. k \in FileWork /\ StepsAgree(w, k) /\ ReaderHolds(k) BY WorkerIs
  <1>2. k.at = "slurp" /\ k.node \in 1..Len(dnode) /\ UNCHANGED <<dnode, dname, dold>>
    BY <1>1 DEF ReadBlock, ReaderHolds
  <1>3. d \in Seq(Nat)
    <2>1. dnode[k.node] \in Nodes BY <1>2 DEF DataInv, DTypeOK
    <2> QED BY <2>1 DEF Nodes
  <1>0. d = dnode[k.node].data OBVIOUS
  <1>4. CASE k.off < Len(d)
    <2> DEFINE l == [k EXCEPT !.got = Append(@, d[k.off + 1]), !.off = @ + 1]
    <2>1. dwork' = [dwork EXCEPT ![w] = l] /\ dseen' = dseen BY <1>1, <1>4 DEF ReadBlock, DataInv, DTypeOK
    <2>2. k.off \in Nat /\ k.got \in Seq(Nat) /\ d[k.off + 1] \in Nat
      <3>1. k.off \in Nat /\ k.got \in Seq(Nat) BY <1>1 DEF FileWork
      <3> HIDE DEF d
      <3>2. k.off + 1 \in 1..Len(d) BY <1>3, <1>4, <3>1
      <3> QED BY <1>3, <3>1, <3>2
    <2>3. /\ l \in FileWork /\ l.at = "slurp" /\ l.op = k.op /\ l.path = k.path /\ l.node = k.node
          /\ l.off = k.off + 1 /\ l.got = Append(k.got, d[k.off + 1])
      <3>1. Append(k.got, d[k.off + 1]) \in Seq(Nat) /\ k.off + 1 \in Nat BY <2>2
      <3> QED BY <1>1, <1>2, <3>1 DEF FileWork
    <2> HIDE DEF l
    <2>4. StepsAgree(w, l) BY <1>1, <1>2, <2>3 DEF StepsAgree
    <2>5. ASSUME k.path \in AtomicPaths, ~dnode[k.node].shared
          PROVE  /\ l.off <= 2 /\ Len(l.got) = l.off
                 /\ \A j \in 1..l.off : l.got[j] = d[j]
      <3>1. /\ Len(d) = 2 /\ Len(k.got) = k.off /\ \A j \in 1..k.off : k.got[j] = d[j]
        BY <1>1, <1>2, <2>5 DEF ReaderHolds, Kept, Holds
      <3> HIDE DEF d
      <3>2. k.off + 1 <= 2 /\ Len(l.got) = k.off + 1 BY <1>4, <2>2, <2>3, <3>1
      <3>3. ASSUME NEW j \in 1..(k.off + 1) PROVE l.got[j] = d[j]
        BY <2>2, <2>3, <3>1
      <3> QED BY <2>3, <3>2, <3>3
    <2>6. ReaderHolds(l)
      <3>1. l.node = k.node /\ l.path = k.path BY <2>3
      <3> QED BY <1>1, <1>2, <2>5, <3>1 DEF ReaderHolds
    <2>7. SeenIsWhole' BY <2>1 DEF DataInv, SeenIsWhole
    <2> QED BY <1>2, <2>1, <2>3, <2>4, <2>6, <2>7, FileQuietStep
  <1>5. CASE ~(k.off < Len(d))
    <2> DEFINE b == [k EXCEPT !.node = 0, !.got = <<>>]
               at == IF k.op = "list" THEN "next" ELSE "idle"
               l == Went(b, at)
    <2>1. dwork' = [dwork EXCEPT ![w] = l] /\ dseen' = <<k.path, k.got, dnode[k.node].shared>> BY <1>5 DEF ReadBlock
    <2>2. b \in FileWork /\ b.op = k.op /\ b.path = k.path
      <3>1. <<>> \in Seq(Nat) OBVIOUS
      <3> QED BY <1>1, <3>1 DEF FileWork
    <2>3. at \in Ats BY DEF Ats
    <2> HIDE DEF b
    <2>4. l \in FileWork /\ l.at = at /\ (l = AtRest \/ (at = "next" /\ l = [b EXCEPT !.at = at])) BY <2>2, <2>3, WentIs
    <2>5. StepsAgree(w, l) /\ ReaderHolds(l) /\ l.at \notin {"write", "sync", "rename"}
      <3>1. CASE l = AtRest BY <3>1, RestAgrees, AtRestIs
      <3>2. CASE at = "next" /\ l = [b EXCEPT !.at = at]
        <4>1. l.op = k.op /\ l.path = k.path /\ l.at = "next" /\ k.op = "list"
          BY <2>2, <3>2 DEF FileWork
        <4> HIDE DEF l
        <4> QED BY <1>1, <1>2, <4>1 DEF StepsAgree, ReaderHolds
      <3> QED BY <2>4, <3>1, <3>2
    <2>6. SeenIsWhole'
      <3>1. ASSUME k.path \in AtomicPaths, ~dnode[k.node].shared PROVE \E v \in DValues : Holds(k.got, 2, v)
        <4>1. PICK v \in DValues : Holds(d, 2, v) BY <1>1, <1>2, <3>1 DEF ReaderHolds, Kept
        <4>2. /\ k.off <= 2 /\ Len(k.got) = k.off /\ \A j \in 1..k.off : k.got[j] = d[j]
              /\ k.off \in Nat /\ k.got \in Seq(Nat)
          BY <1>1, <1>2, <3>1 DEF ReaderHolds, FileWork
        <4>3. k.off = 2 BY <1>5, <4>1, <4>2 DEF Holds
        <4> QED BY <4>1, <4>2, <4>3 DEF Holds
      <3>2. dseen'[1] = k.path /\ dseen'[2] = k.got /\ dseen'[3] = dnode[k.node].shared BY <2>1
      <3> QED BY <3>1, <3>2 DEF SeenIsWhole
    <2> HIDE DEF l
    <2> QED BY <1>2, <2>1, <2>4, <2>5, <2>6, FileQuietStep
  <1> QED BY <1>4, <1>5

\* A worker's temporary file is as it was, or what has its name is marked.
TmpStays(k) ==
    Busy(k) =>
        /\ dnode'[k.node].shared => dname'[DTmpOf[k.path]] = 0 \/ dnode'[dname'[DTmpOf[k.path]]].shared
        /\ ~dnode'[k.node].shared =>
              /\ ~dnode[k.node].shared /\ dnode'[k.node] = dnode[k.node]
              /\ dname'[DTmpOf[k.path]] = dname[DTmpOf[k.path]]

\* The worker's own part of a step that touches files; the others' parts follow when their
\* inodes and names are left alone.
LEMMA OthersStay ==
  ASSUME DataInv, DTypeOK', NEW w \in DWorkers, NEW u \in DWorkers \ {w}, dwork'[u] = dwork[u],
         \A i : Kept(i) => Kept(i)', TmpStays(dwork[u]),
         PlainWrite(dwork[u]) => \A p \in DPaths : dname'[DTmpOf[p]] # dwork[u].node,
         Len(dnode) <= Len(dnode'),
         \A i : Kept(i) => InodeStays(i)
  PROVE  StepsAgree(u, dwork'[u]) /\ (TmpHolds(dwork[u]) /\ PlainIsApart(dwork[u]) /\ ReaderHolds(dwork[u]))'
  <1>1. /\ StepsAgree(u, dwork[u]) /\ TmpHolds(dwork[u]) /\ PlainIsApart(dwork[u]) /\ ReaderHolds(dwork[u])
        /\ Len(dnode) \in Nat /\ Len(dnode') \in Nat
    BY WorkerIs DEF DataInv, DTypeOK
  <1>2. StepsAgree(u, dwork'[u]) BY <1>1
  <1>3. TmpHolds(dwork[u])' BY <1>1 DEF TmpHolds, TmpStays, Busy
  <1>4. PlainIsApart(dwork[u])' BY <1>1 DEF PlainIsApart, PlainWrite
  <1>5. ReaderHolds(dwork[u])' BY <1>1 DEF ReaderHolds, InodeStays
  <1> QED BY <1>2, <1>3, <1>4, <1>5
\* A file created or truncated under n gets, or keeps, an inode that nothing kept is in.
Creates(w, n, next, i) ==
    /\ i \in 1..Len(dnode') /\ dnode' \in Seq(Nodes) /\ Len(dnode) <= Len(dnode')
    /\ dnode'[i].data = <<>> /\ dnode'[i].shared = InUse(w, n)
    /\ \A j \in 1..Len(dnode) : j # i => dnode'[j] = dnode[j]
    /\ dname' \in [DNames -> 0..Len(dnode')] /\ dold' \in [DNames -> 0..Len(dnode')]
    /\ dname'[n] = i /\ dold'[n] \in {0, dold[n]}
    /\ \A m \in DNames : m # n => dname'[m] = dname[m] /\ dold'[m] = dold[m]
    /\ dname[n] = i \/ (dname[n] = 0 /\ Len(dnode) + 1 = i)
    /\ dwork' = [dwork EXCEPT ![w] = Went([@ EXCEPT !.node = i], next)]
    /\ dseen' = dseen

\* Creating a file truncates the one of that name or makes an inode.
LEMMA CreateFileIs ==
  ASSUME DataInv, NEW w \in DWorkers, NEW n \in Loose, NEW next, CreateFile(w, n, next)
  PROVE  \E i \in Nat : Creates(w, n, next, i)
  <1>1. /\ dnode \in Seq(Nodes) /\ Len(dnode) \in Nat /\ n \in DNames
        /\ dname \in [DNames -> 0..Len(dnode)] /\ dold \in [DNames -> 0..Len(dnode)]
    BY DEF DataInv, DTypeOK, Loose
  <1>0. InUse(w, n) \in BOOLEAN BY DEF InUse
  <1>20. PICK e : e = EmptyNode(InUse(w, n)) OBVIOUS
  <1>2. e \in Nodes /\ e.data = <<>> /\ e.shared = InUse(w, n)
    <2>1. <<>> \in Seq(Nat) OBVIOUS
    <2> QED BY <1>0, <1>20, <2>1 DEF EmptyNode, Nodes
  <1>3. CASE dname[n] # 0
    <2>0. PICK i : i = dname[n] OBVIOUS
    <2>1. i \in 1..Len(dnode) /\ i \in Nat BY <1>1, <1>3, <2>0
    <2>2. /\ dnode' = [dnode EXCEPT ![i] = e] /\ UNCHANGED <<dname, dold, dseen>>
          /\ dwork' = [dwork EXCEPT ![w] = Went([@ EXCEPT !.node = i], next)]
      BY <1>20, <1>3, <2>0 DEF CreateFile
    <2>3. dnode' \in Seq(Nodes) /\ Len(dnode') = Len(dnode) BY <1>1, <1>2, <2>1, <2>2
    <2>4. dnode'[i] = e /\ \A j \in 1..Len(dnode) : j # i => dnode'[j] = dnode[j] BY <1>1, <2>1, <2>2
    <2>5. /\ Len(dnode) <= Len(dnode') /\ i \in 1..Len(dnode') /\ dnode'[i].data = <<>> /\ dnode'[i].shared = InUse(w, n)
      BY <1>1, <1>2, <2>1, <2>3, <2>4
    <2>6. dname' \in [DNames -> 0..Len(dnode')] /\ dold' \in [DNames -> 0..Len(dnode')] BY <1>1, <2>2, <2>3
    <2>7. dname'[n] = i /\ dold'[n] = dold[n] /\ \A m \in DNames : dname'[m] = dname[m] /\ dold'[m] = dold[m]
      BY <2>0, <2>2
    <2>8. dseen' = dseen BY <2>2
    <2>9. dwork' = [dwork EXCEPT ![w] = Went([@ EXCEPT !.node = i], next)] BY <2>2
    <2> QED BY <2>0, <2>1, <2>3, <2>4, <2>5, <2>6, <2>7, <2>8, <2>9 DEF Creates
  <1>4. CASE dname[n] = 0
    <2> DEFINE i == Len(dnode) + 1
    <2>1. /\ dnode' = Append(dnode, e) /\ dseen' = dseen
          /\ dname' = [dname EXCEPT ![n] = i] /\ dold' = [dold EXCEPT ![n] = 0]
          /\ dwork' = [dwork EXCEPT ![w] = Went([@ EXCEPT !.node = i], next)]
      BY <1>20, <1>4 DEF CreateFile
    <2>2. /\ dnode' \in Seq(Nodes) /\ Len(dnode') = i /\ dnode'[i] = e
          /\ \A j \in 1..Len(dnode) : j # i => dnode'[j] = dnode[j]
      BY <1>1, <1>2, <2>1
    <2>3. i \in Nat /\ i \in 1..i /\ Len(dnode) <= i BY <1>1
    <2>4. /\ dname' \in [DNames -> 0..i] /\ dold' \in [DNames -> 0..i]
          /\ dname'[n] = i /\ dold'[n] = 0
          /\ \A m \in DNames : m # n => dname'[m] = dname[m] /\ dold'[m] = dold[m]
      BY <1>1, <2>1, <2>3
    <2>5. dname[n] = 0 /\ Len(dnode) + 1 = i BY <1>4
    <2> HIDE DEF i
    <2> QED BY <1>2, <2>1, <2>2, <2>3, <2>4, <2>5 DEF Creates
  <1> QED BY <1>3, <1>4

\* Creating a file under n keeps what is kept, and leaves the other workers alone.
LEMMA CreateStep ==
  ASSUME DataInv, NEW w \in DWorkers, NEW n \in Loose, NEW next, NEW i \in Nat,
         Creates(w, n, next, i), NEW l \in FileWork, dwork' = [dwork EXCEPT ![w] = l],
         PlainWrite(l) \/ Busy(l) => l.node = i,
         StepsAgree(w, l), l.at # "slurp", TmpHolds(l)', PlainIsApart(l)'
  PROVE  DataInv'
  <1>0. /\ n \in DNames /\ \A p \in DPaths : DTmpOf[p] \in DNames /\ DTmpOf[p] \in Loose
        /\ AtomicPaths \subseteq DNames /\ DPaths \subseteq DNames /\ n \notin AtomicPaths
    BY NamesAre DEF Loose
  <1>1. /\ dwork'[w] = l /\ \A u \in DWorkers \ {w} : dwork'[u] = dwork[u]
        /\ dwork' \in [DWorkers -> FileWork]
        /\ Len(dnode) \in Nat /\ \A m \in DNames : dname[m] \in 0..Len(dnode) /\ dold[m] \in 0..Len(dnode)
    BY DEF DataInv, DTypeOK
  <1>2. DTypeOK' /\ Len(dnode') \in Nat BY <1>1 DEF Creates, DTypeOK
  <1>3. \A j : Kept(j) => j # i /\ j \in 1..Len(dnode) /\ dnode'[j] = dnode[j]
    BY <1>1 DEF Creates, Kept
  <1>4. ASSUME NEW j, Kept(j) PROVE Kept(j)'
    <2>1. \A m \in Loose : dname'[m] # j BY <1>0, <1>3, <1>4, SMTT(30) DEF Creates, Kept, Loose
    <2>2. ASSUME NEW u \in DWorkers, PlainWrite(dwork'[u]) PROVE dwork'[u].node # j
      BY <1>1, <1>3, <1>4, <2>2 DEF Kept
    <2>3. Len(dnode) <= Len(dnode') BY DEF Creates
    <2>4. InodeStays(j) BY <1>3, <1>4 DEF InodeStays
    <2> QED BY <1>1, <1>2, <1>4, <2>1, <2>2, <2>3, <2>4, KeptStays
  <1>5. \A m \in DNames : m # n /\ dname[m] # 0 => dname[m] # i
    BY <1>0, <1>1 DEF Creates, DataInv, NamesApart
  <1>6. ASSUME NEW u \in DWorkers \ {w}
        PROVE  StepsAgree(u, dwork'[u]) /\ (TmpHolds(dwork[u]) /\ PlainIsApart(dwork[u]) /\ ReaderHolds(dwork[u]))'
    <2>0. u \in DWorkers /\ dwork'[u] = dwork[u] BY <1>1
    <2>1. StepsAgree(u, dwork[u]) /\ TmpHolds(dwork[u]) /\ PlainIsApart(dwork[u]) BY <2>0, WorkerIs
    <2>2. TmpStays(dwork[u])
      <3> SUFFICES ASSUME Busy(dwork[u]) PROVE TmpStays(dwork[u]) BY DEF TmpStays
      <3>0. PICK t : t = DTmpOf[dwork[u].path] OBVIOUS
      <3>1. dwork[u].path \in DPaths BY <2>1 DEF StepsAgree, Busy
      <3>2. t \in DNames /\ t \in Loose /\ dname[t] \in 0..Len(dnode) BY <1>0, <1>1, <3>0, <3>1
      <3>3. PICK g : g = dwork[u].node OBVIOUS
      <3>4. /\ g \in 1..Len(dnode) /\ (dnode[g].shared => dname[t] = 0 \/ dnode[dname[t]].shared)
            /\ (~dnode[g].shared => dname[t] = g)
        BY <2>1, <3>0, <3>3 DEF TmpHolds
      <3>5. /\ dname'[n] = i /\ dnode'[i].shared = InUse(w, n)
            /\ \A m \in DNames : m # n => dname'[m] = dname[m]
            /\ \A j \in 1..Len(dnode) : j # i => dnode'[j] = dnode[j]
            /\ dname[n] = i \/ (dname[n] = 0 /\ Len(dnode) + 1 = i)
        BY DEF Creates
      <3>6. t = n => InUse(w, n) BY <2>0, <3>0 DEF InUse
      <3>7. g = i => InUse(w, n)
        <4>1. g = i => dname[n] # 0 /\ dname[n] = g BY <1>1, <3>4, <3>5
        <4> QED BY <2>0, <3>3, <4>1 DEF InUse
      <3>8. CASE t = n
        <4>1. dname'[t] = i /\ dnode'[i].shared BY <3>5, <3>6, <3>8
        <4>2. dnode'[g].shared
          <5>1. CASE g = i BY <4>1, <5>1
          <5>2. CASE g # i
            <6>1. dnode[g].shared BY <1>1, <3>4, <3>5, <3>8, <5>2
            <6> QED BY <3>4, <3>5, <5>2, <6>1
          <5> QED BY <5>1, <5>2
        <4> QED BY <3>0, <3>3, <4>1, <4>2 DEF TmpStays
      <3>9. CASE t # n
        <4>1. dname'[t] = dname[t] BY <3>2, <3>5, <3>9
        <4>2. dname[t] # 0 => dname[t] # i BY <1>5, <3>2, <3>9
        <4>3. dname[t] # 0 => dnode'[dname[t]] = dnode[dname[t]] BY <1>1, <3>2, <3>5, <4>2
        <4>4. CASE g = i
          <5>1. dnode'[g].shared BY <3>5, <3>7, <4>4
          <5>2. dnode[g].shared BY <1>1, <3>4, <4>2, <4>4
          <5> QED BY <3>0, <3>3, <3>4, <4>1, <4>3, <5>1, <5>2 DEF TmpStays
        <4>5. CASE g # i
          <5>1. dnode'[g] = dnode[g] BY <3>4, <3>5, <4>5
          <5> QED BY <3>0, <3>3, <3>4, <4>1, <4>3, <5>1 DEF TmpStays
        <4> QED BY <4>4, <4>5
      <3> QED BY <3>8, <3>9
    <2>3. ASSUME PlainWrite(dwork[u]), NEW p \in DPaths PROVE dname'[DTmpOf[p]] # dwork[u].node
      <3>1. dwork[u].node \in 1..Len(dnode) /\ dname[DTmpOf[p]] # dwork[u].node
        BY <2>1, <2>3 DEF PlainIsApart
      <3> QED BY <1>0, <1>1, <3>1 DEF Creates
    <2>4. Len(dnode) <= Len(dnode') BY DEF Creates
    <2>5. \A j : Kept(j) => InodeStays(j) BY <1>3 DEF InodeStays
    <2> QED BY <1>2, <1>4, <2>0, <2>2, <2>3, <2>4, <2>5, OthersStay
  <1>7. ReaderHolds(l)' BY DEF ReaderHolds
  <1>8. WorkersAgree'
    <2> SUFFICES ASSUME NEW u \in DWorkers
                 PROVE  (/\ StepsAgree(u, dwork[u]) /\ TmpHolds(dwork[u])
                         /\ PlainIsApart(dwork[u]) /\ ReaderHolds(dwork[u]))'
      BY DEF WorkersAgree
    <2>1. CASE u = w
      <3>1. TmpHolds(dwork[w])' /\ PlainIsApart(dwork[w])' /\ ReaderHolds(dwork[w])'
        BY <1>1, <1>7 DEF TmpHolds, PlainIsApart, PlainWrite, ReaderHolds
      <3>2. StepsAgree(w, dwork[w])' BY <1>1 DEF StepsAgree
      <3> QED BY <2>1, <3>1, <3>2
    <2>2. CASE u # w BY <1>6, <2>2 DEF StepsAgree
    <2> QED BY <2>1, <2>2
  <1>9. NamesApart'
    <2>1. ASSUME NEW a \in Loose, NEW m \in DNames, a # m, dname'[a] # 0 PROVE dname'[m] # dname'[a]
      <3>1. CASE a = n BY <1>1, <1>5, <2>1, <3>1 DEF Creates
      <3>2. CASE m = n
        <4>1. a \in DNames /\ a # n BY <2>1, <3>2 DEF Loose
        <4>2. dname'[a] = dname[a] /\ dname'[n] = i BY <4>1 DEF Creates
        <4> QED BY <1>5, <2>1, <3>2, <4>1, <4>2
      <3>3. CASE a # n /\ m # n
        <4>1. a \in DNames BY DEF Loose
        <4>2. dname'[a] = dname[a] /\ dname'[m] = dname[m] BY <3>3, <4>1 DEF Creates
        <4> QED BY <2>1, <4>2 DEF DataInv, NamesApart
      <3> QED BY <3>1, <3>2, <3>3
    <2>2. ASSUME NEW q \in DPaths \ AtomicPaths, NEW m \in DNames, q # m, dold'[q] # 0 PROVE dname'[m] # dold'[q]
      <3>1. q \in DNames /\ dold'[q] = dold[q] /\ dold[q] # 0 /\ dold[q] \in 1..Len(dnode)
        BY <1>0, <1>1, <2>2 DEF Creates
      <3>2. dname[m] # dold[q] BY <2>2, <3>1 DEF DataInv, NamesApart
      <3> QED BY <1>1, <3>1, <3>2 DEF Creates
    <2> QED BY <2>1, <2>2 DEF NamesApart, Loose
  <1>10. NamesKept' BY <1>0, <1>4 DEF Creates, DataInv, NamesKept
  <1>11. SeenIsWhole' BY DEF Creates, DataInv, SeenIsWhole
  <1>12. BusyApart'
    <2> SUFFICES ASSUME NEW u \in DWorkers, NEW v \in DWorkers, u # v, Busy(dwork'[u]), Busy(dwork'[v]),
                        dwork'[u].node = dwork'[v].node
                 PROVE  dnode'[dwork'[u].node].shared
      BY DEF BusyApart, Busy
    <2>0. ASSUME NEW a \in DWorkers \ {w}, Busy(dwork[a]) PROVE dwork[a].node \in 1..Len(dnode)
      BY <2>0, WorkerIs DEF TmpHolds
    <2>1. ASSUME NEW a \in DWorkers \ {w}, Busy(dwork[a]), dwork[a].node = i PROVE dnode'[i].shared
      <3>1. dname[n] # 0 /\ dname[n] = i BY <1>1, <2>0, <2>1 DEF Creates
      <3>2. InUse(w, n) BY <2>1, <3>1 DEF InUse
      <3> QED BY <3>2 DEF Creates
    <2>2. CASE u = w BY <1>1, <2>1, <2>2
    <2>3. CASE v = w BY <1>1, <2>1, <2>3
    <2>4. CASE u # w /\ v # w
      <3>1. u \in DWorkers \ {w} /\ dwork'[u] = dwork[u] /\ dwork'[v] = dwork[v] BY <1>1, <2>4
      <3>2. CASE dwork[u].node = i BY <2>1, <3>1, <3>2
      <3>3. CASE dwork[u].node # i
        <4>1. dwork[u].node \in 1..Len(dnode) BY <2>0, <3>1
        <4>2. dnode'[dwork[u].node] = dnode[dwork[u].node] BY <3>3, <4>1 DEF Creates
        <4>3. dnode[dwork[u].node].shared BY <3>1 DEF DataInv, BusyApart
        <4> QED BY <3>1, <4>2, <4>3
      <3> QED BY <3>2, <3>3
    <2> QED BY <2>2, <2>3, <2>4
  <1> QED BY <1>2, <1>8, <1>9, <1>10, <1>11, <1>12 DEF DataInv
\* A file is created only under a name that nobody relies on.
LEMMA CreatingStep ==
  ASSUME DataInv, NEW w \in DWorkers, CreateTmp(w) \/ OpenPlain(w) \/ MakeFile(w)
  PROVE  DataInv'
  <1> DEFINE k == dwork[w]
  <1>1. k \in FileWork /\ StepsAgree(w, k) BY WorkerIs
  <1>3. ASSUME CreateTmp(w) PROVE DataInv'
    <2>0. PICK n : n = DTmpOf[k.path] OBVIOUS
    <2>1. k.at = "create" /\ k.op = "atomic" /\ k.path \in DPaths /\ <<w, "atomic", k.path>> \in DCalls
            /\ k.val \in DValues /\ k.off = 0
      BY <1>1, <1>3 DEF CreateTmp, StepsAgree
    <2>2. n \in Loose BY <2>0, <2>1, NamesAre
    <2>3. CreateFile(w, n, "write") BY <1>3, <2>0 DEF CreateTmp
    <2>4. PICK i \in Nat : Creates(w, n, "write", i) BY <2>2, <2>3, CreateFileIs
    <2>50. PICK l : l = [[k EXCEPT !.node = i] EXCEPT !.at = "write"] OBVIOUS
    <2>5. /\ l \in FileWork /\ l.op = "atomic" /\ l.path = k.path /\ l.at = "write" /\ l.val = k.val
          /\ l.node = i /\ l.off = 0
      BY <1>1, <2>1, <2>50 DEF FileWork, Ats
    <2>6. dwork' = [dwork EXCEPT ![w] = l] BY <2>4, <2>50 DEF Creates, Went
    <2>7. ~PlainWrite(l) /\ PlainIsApart(l)' BY <2>5 DEF PlainWrite, PlainIsApart
    <2>8. StepsAgree(w, l) BY <2>1, <2>5 DEF StepsAgree
    <2>9. TmpHolds(l)'
      <3>1. i \in 1..Len(dnode') /\ dname'[n] = i /\ dnode'[i].data = <<>> BY <2>4 DEF Creates
      <3>2. Holds(dnode'[i].data, 0, k.val) BY <3>1 DEF Holds
      <3>3. DTmpOf[l.path] = n /\ l.val \in DValues /\ l.val = k.val BY <2>0, <2>1, <2>5
      <3> QED BY <2>5, <3>1, <3>2, <3>3 DEF TmpHolds
    <2> QED BY <2>2, <2>4, <2>5, <2>6, <2>7, <2>8, <2>9, CreateStep
  <1>4. ASSUME NEW n \in DPaths, k.op \in {"plain", "touch"}, k.path = n
        PROVE  /\ n \in Loose
               /\ \A p \in DPaths : DTmpOf[p] # n /\ DTmpOf[p] \in DNames
    <2> DEFINE c == <<w, k.op, n>>
    <2>1. c \in DCalls BY <1>1, <1>4 DEF StepsAgree
    <2>2. c[2] = k.op /\ c[3] = n OBVIOUS
    <2> HIDE DEF c
    <2>3. n \notin AtomicPaths BY <1>4, <2>1, <2>2 DEF AtomicPaths
    <2>4. n \in Loose BY <2>3 DEF Loose, DNames
    <2> QED BY <2>4, NamesAre DEF Loose
  <1>5. ASSUME OpenPlain(w) PROVE DataInv'
    <2>0. PICK n : n = k.path OBVIOUS
    <2>1. k.at = "open" /\ k.op = "plain" /\ n \in DPaths /\ <<w, "plain", n>> \in DCalls /\ k.val \in DValues
      BY <1>1, <1>5, <2>0 DEF OpenPlain, StepsAgree
    <2>2. CreateFile(w, n, "write") BY <1>5, <2>0 DEF OpenPlain
    <2>3. PICK i \in Nat : Creates(w, n, "write", i) BY <1>4, <2>0, <2>1, <2>2, CreateFileIs
    <2>50. PICK l : l = [[k EXCEPT !.node = i] EXCEPT !.at = "write"] OBVIOUS
    <2>5. /\ l \in FileWork /\ l.op = "plain" /\ l.path = n /\ l.at = "write" /\ l.val = k.val
          /\ l.node = i
      BY <1>1, <2>0, <2>1, <2>50 DEF FileWork, Ats
    <2>6. dwork' = [dwork EXCEPT ![w] = l] BY <2>3, <2>50 DEF Creates, Went
    <2>7. StepsAgree(w, l) /\ TmpHolds(l)' BY <2>1, <2>5 DEF StepsAgree, TmpHolds, Busy
    <2>8. ASSUME NEW p \in DPaths PROVE dname'[DTmpOf[p]] # i
      <3>1. DTmpOf[p] # n /\ DTmpOf[p] \in DNames /\ n \in Loose /\ i # 0 BY <1>4, <2>0, <2>1, <2>3 DEF Creates
      <3>2. dname'[DTmpOf[p]] = dname[DTmpOf[p]] BY <2>3, <3>1 DEF Creates
      <3>3. dname[DTmpOf[p]] \in 0..Len(dnode) /\ Len(dnode) \in Nat BY <3>1 DEF DataInv, DTypeOK
      <3>4. dname[n] = i => dname[DTmpOf[p]] # i BY <3>1 DEF DataInv, NamesApart
      <3> QED BY <2>3, <3>2, <3>3, <3>4 DEF Creates
    <2>9. PlainIsApart(l)'
      <3>1. i \in 1..Len(dnode') BY <2>3 DEF Creates
      <3> QED BY <2>5, <2>8, <3>1 DEF PlainIsApart
    <2>10. n \in Loose BY <1>4, <2>0, <2>1
    <2>12. l.at # "slurp" BY <2>5
    <2>13. l \in FileWork /\ (PlainWrite(l) \/ Busy(l) => l.node = i) /\ StepsAgree(w, l) /\ TmpHolds(l)' BY <2>5, <2>7
    <2> HIDE DEF k
    <2> QED BY <2>3, <2>6, <2>9, <2>12, <2>10, <2>13, CreateStep
  <1>6. ASSUME MakeFile(w) PROVE DataInv'
    <2>0. PICK n : n = k.path OBVIOUS
    <2>1. k.at = "make" /\ k.op = "touch" /\ n \in DPaths BY <1>1, <1>6, <2>0 DEF MakeFile, StepsAgree
    <2>2. CreateFile(w, n, "idle") BY <1>6, <2>0 DEF MakeFile
    <2>3. PICK i \in Nat : Creates(w, n, "idle", i) BY <1>4, <2>0, <2>1, <2>2, CreateFileIs
    <2>4. dwork' = [dwork EXCEPT ![w] = AtRest] BY <2>3 DEF Creates, Went
    <2>5. ~PlainWrite(AtRest) /\ ~Busy(AtRest) /\ TmpHolds(AtRest)' /\ PlainIsApart(AtRest)' /\ AtRest.at # "slurp"
      BY AtRestIs DEF PlainWrite, TmpHolds, Busy, PlainIsApart
    <2> QED BY <1>4, <2>0, <2>1, <2>3, <2>4, <2>5, AtRestIs, RestAgrees, CreateStep, ZenonT(40)
  <1> QED BY <1>3, <1>5, <1>6

\* One block more.
LEMMA PutAtIs ==
  ASSUME NEW d \in Seq(Nat), NEW i \in Nat \ {0}, NEW v \in Nat
  PROVE  /\ PutAt(d, i, v) \in Seq(Nat)
         /\ i = Len(d) + 1 => \A x : Holds(d, Len(d), x) /\ x = v => Holds(PutAt(d, i, v), i, v)
  <1> DEFINE n == IF i > Len(d) THEN i ELSE Len(d)
             f == [j \in 1..n |-> IF j = i THEN v ELSE IF j <= Len(d) THEN d[j] ELSE 0]
  <1>1. n \in Nat /\ Len(d) \in Nat OBVIOUS
  <1>2. \A j \in 1..n : f[j] \in Nat BY <1>1
  <1>3. f \in Seq(Nat) /\ Len(f) = n BY <1>1, <1>2
  <1>4. PutAt(d, i, v) = f BY DEF PutAt
  <1>5. ASSUME i = Len(d) + 1, Holds(d, Len(d), v) PROVE Holds(f, i, v)
    <2>1. n = i BY <1>1, <1>5
    <2>2. \A j \in 1..i : f[j] = v BY <1>1, <1>5, <2>1 DEF Holds
    <2> QED BY <1>3, <2>1, <2>2 DEF Holds
  <1> QED BY <1>3, <1>4, <1>5
\* Inode i is the worker's alone, or two calls are at it.
OwnInode(w, i) ==
    /\ i \in 1..Len(dnode) /\ (Kept(i) => dnode[i].shared)
    /\ \A u \in DWorkers \ {w} : Busy(dwork[u]) /\ dwork[u].node = i => dnode[i].shared

\* A write or a sync of such an inode.
LEMMA NodeStep ==
  ASSUME DataInv, NEW w \in DWorkers, NEW i \in 1..Len(dnode), NEW x \in Nodes,
         dnode' = [dnode EXCEPT ![i] = x], UNCHANGED <<dname, dold, dseen>>,
         NEW l \in FileWork, dwork' = [dwork EXCEPT ![w] = l],
         x.shared = dnode[i].shared, OwnInode(w, i), PlainWrite(l) \/ Busy(l) => l.node = i,
         PlainWrite(l) => PlainWrite(dwork[w]) /\ dwork[w].node = i, Busy(l) => Busy(dwork[w]) /\ dwork[w].node = i,
         StepsAgree(w, l), l.at # "slurp", TmpHolds(l)', PlainIsApart(l)'
  PROVE  DataInv'
  <1>0. /\ \A p \in DPaths : DTmpOf[p] \in DNames
        /\ AtomicPaths \subseteq DNames
    BY NamesAre DEF Loose
  <1>1. /\ dwork'[w] = l /\ \A u \in DWorkers \ {w} : dwork'[u] = dwork[u]
        /\ dwork' \in [DWorkers -> FileWork]
        /\ dnode \in Seq(Nodes) /\ Len(dnode) \in Nat /\ \A m \in DNames : dname[m] \in 0..Len(dnode)
    BY DEF DataInv, DTypeOK
  <1>2. /\ dnode' \in Seq(Nodes) /\ Len(dnode') = Len(dnode)
        /\ dnode'[i] = x /\ \A j \in 1..Len(dnode) : j # i => dnode'[j] = dnode[j]
    BY <1>1
  <1>20. \A j \in 1..Len(dnode) : dnode'[j].shared = dnode[j].shared BY <1>2
  <1>3. DTypeOK' BY <1>1, <1>2 DEF DTypeOK, DataInv
  <1>4. ASSUME NEW j, Kept(j) PROVE InodeStays(j)
    <2>1. j \in 1..Len(dnode) BY <1>4 DEF Kept
    <2>2. ~dnode[j].shared => j # i BY <1>4 DEF OwnInode
    <2> QED BY <1>2, <1>20, <2>1, <2>2 DEF InodeStays
  <1>5. ASSUME NEW j, Kept(j) PROVE Kept(j)'
    <2>1. \A m \in Loose : dname'[m] # j BY <1>5 DEF Kept
    <2>2. ASSUME NEW u \in DWorkers, PlainWrite(dwork'[u]) PROVE dwork'[u].node # j
      <3>1. CASE u = w
        <4>1. dwork'[u].node = i /\ i = dwork[w].node /\ PlainWrite(dwork[w]) BY <1>1, <2>2, <3>1
        <4> QED BY <1>5, <4>1 DEF Kept
      <3>2. CASE u # w BY <1>1, <1>5, <2>2, <3>2 DEF Kept
      <3> QED BY <3>1, <3>2
    <2>3. InodeStays(j) BY <1>4, <1>5
    <2> QED BY <1>1, <1>2, <1>5, <2>1, <2>2, <2>3, KeptStays
  <1>6. ASSUME NEW u \in DWorkers \ {w}
        PROVE  StepsAgree(u, dwork'[u]) /\ (TmpHolds(dwork[u]) /\ PlainIsApart(dwork[u]) /\ ReaderHolds(dwork[u]))'
    <2>0. u \in DWorkers /\ dwork'[u] = dwork[u] BY <1>1
    <2>1. StepsAgree(u, dwork[u]) /\ TmpHolds(dwork[u]) /\ PlainIsApart(dwork[u]) BY <2>0, WorkerIs
    <2>2. TmpStays(dwork[u])
      <3> SUFFICES ASSUME Busy(dwork[u]) PROVE TmpStays(dwork[u]) BY DEF TmpStays
      <3>0. PICK t : t = DTmpOf[dwork[u].path] OBVIOUS
      <3>1. dwork[u].path \in DPaths BY <2>1 DEF StepsAgree, Busy
      <3>2. t \in DNames /\ dname[t] \in 0..Len(dnode) /\ dname'[t] = dname[t] BY <1>0, <1>1, <3>0, <3>1
      <3>3. PICK g : g = dwork[u].node OBVIOUS
      <3>4. g \in 1..Len(dnode) /\ (dnode[g].shared => dname[t] = 0 \/ dnode[dname[t]].shared)
        BY <2>1, <3>0, <3>3 DEF TmpHolds
      <3>5. ~dnode[g].shared => g # i BY <3>3 DEF OwnInode
      <3>6. dname[t] # 0 => dnode'[dname[t]].shared = dnode[dname[t]].shared BY <1>1, <1>20, <3>2
      <3>7. dnode'[g].shared = dnode[g].shared /\ (~dnode[g].shared => dnode'[g] = dnode[g]) BY <1>2, <1>20, <3>4, <3>5
      <3> QED BY <3>0, <3>2, <3>3, <3>4, <3>6, <3>7 DEF TmpStays
    <2>3. ASSUME PlainWrite(dwork[u]), NEW p \in DPaths PROVE dname'[DTmpOf[p]] # dwork[u].node
      BY <2>1, <2>3 DEF PlainIsApart
    <2> QED BY <1>1, <1>2, <1>3, <1>4, <1>5, <2>0, <2>2, <2>3, OthersStay
  <1>7. ReaderHolds(l)' BY DEF ReaderHolds
  <1>8. WorkersAgree'
    <2> SUFFICES ASSUME NEW u \in DWorkers
                 PROVE  (/\ StepsAgree(u, dwork[u]) /\ TmpHolds(dwork[u])
                         /\ PlainIsApart(dwork[u]) /\ ReaderHolds(dwork[u]))'
      BY DEF WorkersAgree
    <2>1. CASE u = w
      <3>1. TmpHolds(dwork[w])' /\ PlainIsApart(dwork[w])' /\ ReaderHolds(dwork[w])'
        BY <1>1, <1>7 DEF TmpHolds, PlainIsApart, PlainWrite, ReaderHolds
      <3>2. StepsAgree(w, dwork[w])' BY <1>1 DEF StepsAgree
      <3> QED BY <2>1, <3>1, <3>2
    <2>2. CASE u # w BY <1>6, <2>2 DEF StepsAgree
    <2> QED BY <2>1, <2>2
  <1>9. NamesApart' /\ NamesKept' BY <1>5 DEF DataInv, NamesApart, NamesKept
  <1>10. SeenIsWhole' BY DEF DataInv, SeenIsWhole
  <1>11. BusyApart'
    <2> SUFFICES ASSUME NEW u \in DWorkers, NEW v \in DWorkers, u # v, Busy(dwork'[u]), Busy(dwork'[v]),
                        dwork'[u].node = dwork'[v].node
                 PROVE  dnode'[dwork'[u].node].shared
      BY DEF BusyApart, Busy
    <2>1. ASSUME NEW a \in DWorkers, Busy(dwork'[a]) PROVE Busy(dwork[a]) /\ dwork[a].node = dwork'[a].node
      BY <1>1, <2>1
    <2>2. Busy(dwork[u]) /\ Busy(dwork[v]) /\ dwork[u].node = dwork[v].node BY <2>1
    <2>3. dnode[dwork[u].node].shared BY <2>2 DEF DataInv, BusyApart
    <2>4. dwork[u].node \in 1..Len(dnode) BY <2>2, WorkerIs DEF TmpHolds
    <2> QED BY <1>20, <2>1, <2>3, <2>4
  <1> QED BY <1>3, <1>8, <1>9, <1>10, <1>11 DEF DataInv

\* Whom a worker's inode is apart from.
LEMMA InodeIsOwn ==
  ASSUME DataInv, NEW w \in DWorkers, PlainWrite(dwork[w]) \/ Busy(dwork[w])
  PROVE  OwnInode(w, dwork[w].node)
  <1>0. PICK g : g = dwork[w].node OBVIOUS
  <1>1. StepsAgree(w, dwork[w]) /\ TmpHolds(dwork[w]) /\ PlainIsApart(dwork[w]) BY WorkerIs
  <1>2. ASSUME NEW u \in DWorkers, Busy(dwork[u]), ~dnode[dwork[u].node].shared
        PROVE  dname[DTmpOf[dwork[u].path]] = dwork[u].node /\ dwork[u].path \in DPaths
                 /\ DTmpOf[dwork[u].path] \in Loose
    <2>1. StepsAgree(u, dwork[u]) /\ TmpHolds(dwork[u]) BY WorkerIs
    <2>2. dwork[u].path \in DPaths BY <1>2, <2>1 DEF StepsAgree, Busy
    <2> QED BY <1>2, <2>1, <2>2, NamesAre DEF TmpHolds
  <1>3. CASE PlainWrite(dwork[w])
    <2>1. g \in 1..Len(dnode) /\ \A p \in DPaths : dname[DTmpOf[p]] # g BY <1>0, <1>1, <1>3 DEF PlainIsApart
    <2>2. ~Kept(g) BY <1>0, <1>3 DEF Kept
    <2>3. ASSUME NEW u \in DWorkers \ {w}, Busy(dwork[u]), dwork[u].node = g PROVE dnode[g].shared
      BY <1>2, <2>1, <2>3
    <2> QED BY <1>0, <2>1, <2>2, <2>3 DEF OwnInode
  <1>4. CASE Busy(dwork[w])
    <2>1. g \in 1..Len(dnode) BY <1>0, <1>1, <1>4 DEF TmpHolds
    <2>2. Kept(g) => dnode[g].shared BY <1>0, <1>2, <1>4 DEF Kept
    <2>3. ASSUME NEW u \in DWorkers \ {w}, Busy(dwork[u]), dwork[u].node = g PROVE dnode[g].shared
      BY <1>0, <1>4, <2>3 DEF DataInv, BusyApart
    <2> QED BY <1>0, <2>1, <2>2, <2>3 DEF OwnInode
  <1> QED BY <1>3, <1>4

\* A block is written only to an inode that no replaced name has.
LEMMA WriteStep ==
  ASSUME DataInv, NEW w \in DWorkers, WriteBlock(w) PROVE DataInv'
  <1>01. PICK k : k = dwork[w] OBVIOUS
  <1>02. PICK i : i = k.node OBVIOUS
  <1>03. PICK x : x = [data |-> PutAt(dnode[i].data, k.off + 1, k.val), synced |-> FALSE, shared |-> dnode[i].shared] OBVIOUS
  <1>04. PICK b : b = [k EXCEPT !.off = @ + 1] OBVIOUS
  <1>05. PICK at : at = IF k.off = 0 THEN "write" ELSE IF k.op = "atomic" THEN "sync" ELSE "idle" OBVIOUS
  <1>06. PICK l : l = Went(b, at) OBVIOUS
  <1>1. k \in FileWork /\ StepsAgree(w, k) /\ TmpHolds(k) /\ PlainIsApart(k) BY <1>01, WorkerIs
  <1>2. k.at = "write" /\ k.op \in {"atomic", "plain"} /\ k.val \in DValues /\ k.val \in Nat /\ k.path \in DPaths
    BY <1>01, <1>1, DataAssumption DEF WriteBlock, StepsAgree
  <1>3. OwnInode(w, i) /\ i \in 1..Len(dnode)
    BY <1>01, <1>02, <1>2, InodeIsOwn DEF PlainWrite, Busy, OwnInode
  <1>4. /\ dnode' = [dnode EXCEPT ![i] = x] /\ UNCHANGED <<dname, dold, dseen>>
        /\ dwork' = [dwork EXCEPT ![w] = l]
    <2>1. dnode \in Seq(Nodes) /\ dwork \in [DWorkers -> FileWork] BY DEF DataInv, DTypeOK
    <2>2. dnode' = [dnode EXCEPT ![i] = x]
      BY <1>01, <1>02, <1>03, <1>3, <2>1 DEF WriteBlock
    <2>3. dwork' = [dwork EXCEPT ![w] = l]
      <3>1. dwork' = [dwork EXCEPT ![w] = Went([dwork[w] EXCEPT !.off = @ + 1],
                             IF dwork[w].off = 0 THEN "write" ELSE IF dwork[w].op = "atomic" THEN "sync" ELSE "idle")]
        BY Zenon DEF WriteBlock
      <3>2. l = Went([dwork[w] EXCEPT !.off = @ + 1],
                     IF dwork[w].off = 0 THEN "write" ELSE IF dwork[w].op = "atomic" THEN "sync" ELSE "idle")
        BY <1>01, <1>04, <1>05, <1>06, Zenon
      <3> QED BY <3>1, <3>2, Zenon
    <2> QED BY <2>2, <2>3 DEF WriteBlock
  <1>5. dnode[i].data \in Seq(Nat) /\ k.off \in Nat
    <2>1. dnode[i] \in Nodes BY <1>3 DEF DataInv, DTypeOK
    <2> QED BY <1>1, <2>1 DEF Nodes, FileWork
  <1>6. PutAt(dnode[i].data, k.off + 1, k.val) \in Seq(Nat)
    <2>1. k.off + 1 \in Nat \ {0} BY <1>5
    <2> QED BY <1>2, <1>5, <2>1, PutAtIs
  <1>7. x \in Nodes /\ x.data = PutAt(dnode[i].data, k.off + 1, k.val) /\ x.shared = dnode[i].shared
    <2>1. dnode[i] \in Nodes BY <1>3 DEF DataInv, DTypeOK
    <2> QED BY <1>03, <1>6, <2>1 DEF Nodes
  <1>8. /\ b \in FileWork /\ b.op = k.op /\ b.path = k.path /\ b.val = k.val /\ b.node = i /\ b.off = k.off + 1
    <2>1. k.off + 1 \in Nat BY <1>5
    <2> QED BY <1>02, <1>04, <1>1, <2>1 DEF FileWork
  <1>9. at \in Ats BY <1>05 DEF Ats
  <1>10. /\ l \in FileWork /\ l.at = at
         /\ (at = "idle" /\ l = AtRest) \/ (at # "idle" /\ l = [b EXCEPT !.at = at])
    BY <1>06, <1>8, <1>9, WentIs
  <1>11. at # "idle" => /\ l.op = k.op /\ l.path = k.path /\ l.val = k.val /\ l.node = i /\ l.off = k.off + 1
    BY <1>8, <1>10 DEF FileWork
  <1>12. dnode'[i] = x BY <1>3, <1>4 DEF DataInv, DTypeOK
  <1>13. CASE at = "idle"
    <2>1. l = AtRest BY <1>10, <1>13
    <2>2. ~PlainWrite(l) /\ ~Busy(l) /\ TmpHolds(l)' /\ PlainIsApart(l)' /\ l.at # "slurp" /\ StepsAgree(w, l)
      BY <2>1, AtRestIs, RestAgrees DEF PlainWrite, Busy, TmpHolds, PlainIsApart
    <2> QED BY <1>3, <1>4, <1>7, <1>10, <2>2, NodeStep
  <1>14. CASE at # "idle"
    <2>1. StepsAgree(w, l) /\ l.at # "slurp" /\ (PlainWrite(l) => l.node = i /\ k.op = "plain")
      BY <1>05, <1>1, <1>2, <1>10, <1>11, <1>14 DEF StepsAgree, PlainWrite
    <2>2. PlainIsApart(l)'
      <3>0. dnode \in Seq(Nodes) BY DEF DataInv, DTypeOK
      <3>1. Len(dnode') = Len(dnode) BY <1>3, <1>4, <1>7, <3>0
      <3>2. k.op = "plain" => \A p \in DPaths : dname[DTmpOf[p]] # i BY <1>02, <1>1, <1>2 DEF PlainIsApart, PlainWrite
      <3> QED BY <1>3, <1>4, <2>1, <3>1, <3>2 DEF PlainIsApart
    <2>30. /\ (PlainWrite(l) \/ Busy(l) => l.node = i)
           /\ (PlainWrite(l) => PlainWrite(dwork[w]) /\ dwork[w].node = i)
           /\ (Busy(l) => Busy(dwork[w]) /\ dwork[w].node = i)
      BY <1>01, <1>02, <1>2, <1>11, <1>14, <2>1 DEF PlainWrite, Busy
    <2>31. DTmpOf[k.path] \in DNames /\ dname[DTmpOf[k.path]] \in 0..Len(dnode)
      <3>1. DTmpOf[k.path] \in DNames BY <1>2 DEF DNames
      <3> QED BY <3>1 DEF DataInv, DTypeOK
    <2>32. /\ Len(dnode') = Len(dnode) /\ \A j \in 1..Len(dnode) : dnode'[j].shared = dnode[j].shared
      <3>0. dnode \in Seq(Nodes) BY DEF DataInv, DTypeOK
      <3> QED BY <1>3, <1>4, <1>7, <1>12, <3>0
    <2>33. ASSUME k.op = "atomic", dnode[i].shared PROVE TmpHolds(l)'
      <3>0. Busy(k) BY <1>2, <2>33 DEF Busy
      <3>1. dname[DTmpOf[k.path]] = 0 \/ dnode[dname[DTmpOf[k.path]]].shared
        BY <1>02, <1>1, <2>33, <3>0 DEF TmpHolds
      <3>2. l.node = i /\ l.path = k.path BY <1>11, <1>14
      <3>3. dnode'[i].shared /\ i \in 1..Len(dnode') BY <1>3, <2>32, <2>33
      <3>4. dname'[DTmpOf[k.path]] = 0 \/ dnode'[dname'[DTmpOf[k.path]]].shared
        BY <1>4, <2>31, <2>32, <3>1
      <3> QED BY <3>2, <3>3, <3>4 DEF TmpHolds
    <2>3. ASSUME k.op = "atomic", ~dnode[i].shared PROVE TmpHolds(l)'
      <3>1. /\ i # 0 /\ dname[DTmpOf[k.path]] = i /\ k.off \in {0, 1}
            /\ Holds(dnode[i].data, k.off, k.val)
        BY <1>02, <1>1, <1>2, <1>3, <2>3 DEF TmpHolds, Busy
      <3>2. Len(dnode[i].data) = k.off /\ k.off + 1 \in Nat \ {0} BY <1>5, <3>1 DEF Holds
      <3>3. Holds(x.data, k.off + 1, k.val) BY <1>2, <1>5, <1>7, <3>1, <3>2, PutAtIs
      <3>4. (at = "write" /\ k.off + 1 = 1) \/ (at = "sync" /\ k.off + 1 = 2) BY <1>05, <2>3, <3>1
      <3>5. l.node = i /\ l.path = k.path /\ l.val = k.val /\ l.at = at /\ l.off = k.off + 1 BY <1>10, <1>11, <1>14
      <3>6. Holds(dnode'[l.node].data, l.off, l.val) BY <1>12, <3>3, <3>5
      <3>7. dname'[DTmpOf[l.path]] = l.node /\ l.node \in 1..Len(dnode') /\ l.val \in DValues /\ ~dnode'[l.node].shared
        BY <1>2, <1>3, <1>4, <2>3, <2>32, <3>1, <3>5
      <3> QED BY <3>4, <3>5, <3>6, <3>7 DEF TmpHolds
    <2>4. TmpHolds(l)'
      <3>1. CASE k.op # "atomic" BY <1>11, <1>14, <3>1 DEF TmpHolds, Busy
      <3> QED BY <2>3, <2>33, <3>1
    <2> QED BY <1>3, <1>4, <1>7, <1>10, <2>1, <2>2, <2>30, <2>4, NodeStep
  <1> QED BY <1>13, <1>14

\* What a sync makes of an inode.
LEMMA SyncedIs ==
  ASSUME NEW n \in Nodes
  PROVE  /\ [n EXCEPT !.synced = TRUE] \in Nodes /\ [n EXCEPT !.synced = TRUE].data = n.data
         /\ [n EXCEPT !.synced = TRUE].synced /\ [n EXCEPT !.synced = TRUE].shared = n.shared
  BY DEF Nodes

\* A sync makes what was written last a power loss.
LEMMA SyncStep ==
  ASSUME DataInv, NEW w \in DWorkers, SyncTmp(w) PROVE DataInv'
  <1>01. PICK k : k = dwork[w] OBVIOUS
  <1>02. PICK i : i = k.node OBVIOUS
  <1>03. PICK x : x = [dnode[i] EXCEPT !.synced = TRUE] OBVIOUS
  <1>04. PICK l : l = [k EXCEPT !.at = "rename"] OBVIOUS
  <1>1. k \in FileWork /\ StepsAgree(w, k) /\ TmpHolds(k) BY <1>01, WorkerIs
  <1>2. k.at = "sync" /\ k.op = "atomic" /\ k.path \in DPaths BY <1>01, <1>1 DEF SyncTmp, StepsAgree
  <1>3. OwnInode(w, i) /\ i \in 1..Len(dnode)
    BY <1>01, <1>02, <1>2, InodeIsOwn DEF Busy, OwnInode
  <1>4. dnode[i] \in Nodes /\ dnode \in Seq(Nodes) BY <1>3 DEF DataInv, DTypeOK
  <1>5. x \in Nodes /\ x.data = dnode[i].data /\ x.synced /\ x.shared = dnode[i].shared BY <1>03, <1>4, SyncedIs
  <1>6. dnode' = [dnode EXCEPT ![i] = x] /\ dnode'[i] = x /\ UNCHANGED <<dname, dold, dseen>>
    <2>0. dnode' = [dnode EXCEPT ![dwork[w].node].synced = TRUE] BY DEF SyncTmp
    <2>01. dnode' = [dnode EXCEPT ![i].synced = TRUE] BY <1>01, <1>02, <2>0
    <2>1. dnode' = [dnode EXCEPT ![i] = x] BY <1>03, <2>01, SMTT(20)
    <2>2. dnode'[i] = x BY <1>3, <1>4, <2>1
    <2> QED BY <2>1, <2>2 DEF SyncTmp
  <1>7. dwork' = [dwork EXCEPT ![w] = l] BY <1>01, <1>04 DEF SyncTmp, Goto, Went
  <1>8. /\ l \in FileWork /\ l.op = "atomic" /\ l.path = k.path /\ l.at = "rename" /\ l.val = k.val /\ l.node = i
    BY <1>02, <1>04, <1>1, <1>2 DEF FileWork, Ats
  <1>9. StepsAgree(w, l) /\ ~PlainWrite(l) /\ PlainIsApart(l)' /\ Busy(k)
    BY <1>1, <1>2, <1>8 DEF StepsAgree, PlainWrite, PlainIsApart, Busy
  <1>91. Len(dnode') = Len(dnode) /\ \A j \in 1..Len(dnode) : dnode'[j].shared = dnode[j].shared
    BY <1>3, <1>4, <1>5, <1>6
  <1>10. TmpHolds(l)'
    <2>0. DTmpOf[k.path] \in DNames /\ dname[DTmpOf[k.path]] \in 0..Len(dnode) /\ Len(dnode) \in Nat
      <3>1. DTmpOf[k.path] \in DNames BY <1>2 DEF DNames
      <3> QED BY <3>1 DEF DataInv, DTypeOK
    <2>1. CASE ~dnode[i].shared
      <3>1. dname[DTmpOf[k.path]] = i /\ k.val \in DValues /\ Holds(dnode[i].data, 2, k.val)
        BY <1>02, <1>1, <1>2, <1>9, <2>1 DEF TmpHolds
      <3>2. ~dnode'[i].shared /\ i \in 1..Len(dnode') BY <1>3, <1>91, <2>1
      <3> QED BY <1>5, <1>6, <1>8, <3>1, <3>2 DEF TmpHolds
    <2>2. CASE dnode[i].shared
      <3>1. dname[DTmpOf[k.path]] = 0 \/ dnode[dname[DTmpOf[k.path]]].shared
        BY <1>02, <1>1, <1>9, <2>2 DEF TmpHolds
      <3>2. dnode'[i].shared /\ i \in 1..Len(dnode') BY <1>3, <1>91, <2>2
      <3>3. dname'[DTmpOf[k.path]] = 0 \/ dnode'[dname'[DTmpOf[k.path]]].shared BY <1>6, <1>91, <2>0, <3>1
      <3> QED BY <1>8, <3>2, <3>3 DEF TmpHolds
    <2> QED BY <2>1, <2>2
  <1>11. l.at # "slurp" /\ (PlainWrite(l) \/ Busy(l) => l.node = i)
           /\ (PlainWrite(l) => PlainWrite(dwork[w]) /\ dwork[w].node = i)
           /\ (Busy(l) => Busy(dwork[w]) /\ dwork[w].node = i)
    BY <1>01, <1>02, <1>8, <1>9
  <1>12. UNCHANGED <<dname, dold, dseen>> /\ dnode' = [dnode EXCEPT ![i] = x] BY <1>6
  <1>13. i \in 1..Len(dnode) /\ OwnInode(w, i) /\ x \in Nodes /\ x.shared = dnode[i].shared BY <1>3, <1>5
  <1> QED BY <1>13, <1>12, <1>7, <1>8, <1>9, <1>10, <1>11, NodeStep

\* A rename puts a whole, synced inode, or one two calls were at, in the place of another.
LEMMA RenameMoves ==
  ASSUME DataInv, NEW w \in DWorkers, RenameTmp(w), dname[DTmpOf[dwork[w].path]] # 0 PROVE DataInv'
  <1>01. PICK k : k = dwork[w] OBVIOUS
  <1>02. PICK p : p = k.path OBVIOUS
  <1>03. PICK t : t = DTmpOf[p] OBVIOUS
  <1>04. PICK i : i = dname[t] OBVIOUS
  <1>1. k \in FileWork /\ StepsAgree(w, k) /\ TmpHolds(k) BY <1>01, WorkerIs
  <1>2. k.at = "rename" /\ k.op = "atomic" /\ p \in DPaths /\ <<w, "atomic", p>> \in DCalls
    BY <1>01, <1>02, <1>1 DEF RenameTmp, StepsAgree
  <1>3. i # 0 /\ (~dnode[i].shared => (\E v \in DValues : Holds(dnode[i].data, 2, v)) /\ dnode[i].synced)
    <2>1. Busy(k) /\ i # 0 BY <1>01, <1>02, <1>03, <1>04, <1>2 DEF Busy
    <2>2. CASE dnode[k.node].shared BY <1>02, <1>03, <1>04, <1>1, <2>1, <2>2 DEF TmpHolds
    <2>3. CASE ~dnode[k.node].shared BY <1>02, <1>03, <1>04, <1>1, <1>2, <2>1, <2>3 DEF TmpHolds
    <2> QED BY <2>1, <2>2, <2>3
  <1>4. /\ t \in Loose /\ t \in DNames /\ t \notin DPaths /\ t # p /\ p \in DNames
        /\ AtomicPaths \subseteq DPaths /\ DPaths \subseteq DNames
        /\ \A q \in DPaths : DTmpOf[q] \in DNames /\ DTmpOf[q] \notin DPaths
    BY <1>03, <1>2, NamesAre DEF Loose
  <1>5. /\ dwork \in [DWorkers -> FileWork] /\ dnode \in Seq(Nodes) /\ Len(dnode) \in Nat
        /\ dname \in [DNames -> 0..Len(dnode)] /\ dold \in [DNames -> 0..Len(dnode)]
    BY DEF DataInv, DTypeOK
  <1>6. /\ dname' = [dname EXCEPT ![p] = i, ![t] = 0]
        /\ dold' = [dold EXCEPT ![p] = dname[p], ![t] = i]
        /\ dwork' = [dwork EXCEPT ![w] = AtRest] /\ UNCHANGED <<dnode, dseen>>
    BY <1>01, <1>02, <1>03, <1>04, <1>3 DEF RenameTmp, Goto, Went
  <1>7. /\ dname'[p] = i /\ dname'[t] = 0 /\ dold'[p] = dname[p]
        /\ \A m \in DNames : m # p /\ m # t => dname'[m] = dname[m] /\ dold'[m] = dold[m]
        /\ i = dname[t] /\ i \in 1..Len(dnode)
        /\ dwork'[w] = AtRest /\ \A u \in DWorkers \ {w} : dwork'[u] = dwork[u]
    <2>1. i = dname[t] /\ dname[t] \in 0..Len(dnode) BY <1>04, <1>4, <1>5
    <2> QED BY <1>3, <1>4, <1>5, <1>6, <2>1
  <1>8. DTypeOK'
    <2>1. dname' \in [DNames -> 0..Len(dnode)] /\ dold' \in [DNames -> 0..Len(dnode)]
      <3>1. dname[p] \in 0..Len(dnode) /\ i \in 0..Len(dnode) /\ 0 \in 0..Len(dnode) BY <1>4, <1>5, <1>7
      <3> QED BY <1>4, <1>5, <1>6, <3>1
    <2> QED BY <1>5, <1>6, <2>1, AtRestIs DEF DTypeOK
  <1>9. \A u \in DWorkers : PlainWrite(dwork'[u]) => u # w /\ dwork'[u] = dwork[u] /\ PlainWrite(dwork[u])
    BY <1>7, AtRestIs DEF PlainWrite
  <1>10. ASSUME NEW j, Kept(j) PROVE Kept(j)'
    <2>1. j # 0 /\ dname[t] # j BY <1>4, <1>10 DEF Kept
    <2>2. \A m \in Loose : dname'[m] # j BY <1>7, <1>10, <2>1 DEF Kept, Loose
    <2>3. \A u \in DWorkers : PlainWrite(dwork'[u]) => dwork'[u].node # j BY <1>9, <1>10 DEF Kept
    <2>4. InodeStays(j) /\ Len(dnode') = Len(dnode) /\ Len(dnode) <= Len(dnode') BY <1>5, <1>6 DEF InodeStays
    <2> QED BY <1>5, <1>10, <2>2, <2>3, <2>4, KeptStays
  <1>11. ASSUME p \in AtomicPaths PROVE Kept(i)'
    <2>1. \A m \in Loose : dname'[m] # i
      <3> SUFFICES ASSUME NEW m \in Loose PROVE dname'[m] # i OBVIOUS
      <3>1. m # p /\ m \in DNames BY <1>11 DEF Loose
      <3> QED BY <1>3, <1>4, <1>7, <3>1 DEF DataInv, NamesApart
    <2>2. ASSUME NEW u \in DWorkers, PlainWrite(dwork'[u]) PROVE dwork'[u].node # i
      <3>1. PlainIsApart(dwork[u]) BY WorkerIs
      <3> QED BY <1>03, <1>2, <1>7, <1>9, <2>2, <3>1 DEF PlainIsApart
    <2> QED BY <1>3, <1>6, <1>7, <2>1, <2>2 DEF Kept
  <1>12. ASSUME NEW u \in DWorkers \ {w}
         PROVE  StepsAgree(u, dwork'[u]) /\ (TmpHolds(dwork[u]) /\ PlainIsApart(dwork[u]) /\ ReaderHolds(dwork[u]))'
    <2>0. u \in DWorkers /\ dwork'[u] = dwork[u] BY <1>7
    <2>1. StepsAgree(u, dwork[u]) /\ PlainIsApart(dwork[u]) BY <2>0, WorkerIs
    <2>2. TmpStays(dwork[u])
      <3> SUFFICES ASSUME Busy(dwork[u]) PROVE TmpStays(dwork[u]) BY DEF TmpStays
      <3>0. PICK h, g : h = DTmpOf[dwork[u].path] /\ g = dwork[u].node OBVIOUS
      <3>1. dwork[u].path \in DPaths /\ TmpHolds(dwork[u]) /\ Busy(dwork[w]) /\ TmpHolds(dwork[w])
        BY <1>01, <1>1, <1>2, <2>0, <2>1, WorkerIs DEF StepsAgree, Busy
      <3>2. /\ g \in 1..Len(dnode) /\ (dnode[g].shared => dname[h] = 0 \/ dnode[dname[h]].shared)
            /\ (~dnode[g].shared => dname[h] = g)
        BY <3>0, <3>1 DEF TmpHolds
      <3>3. CASE h = t
        <4>1. dnode[g].shared
          <5> SUFFICES ASSUME ~dnode[g].shared PROVE FALSE OBVIOUS
          <5>1. dname[t] = g /\ g = i BY <1>7, <3>2, <3>3
          <5>2. dname[t] # 0 /\ ~dnode[dname[t]].shared BY <1>3, <1>7, <5>1
          <5>3. ~dnode[k.node].shared BY <1>01, <1>02, <1>03, <3>1, <5>2 DEF TmpHolds
          <5>4. dname[t] = k.node BY <1>01, <1>02, <1>03, <3>1, <5>3 DEF TmpHolds
          <5>5. dwork[u].node = dwork[w].node BY <1>01, <3>0, <5>1, <5>4
          <5> QED BY <2>0, <3>0, <3>1, <5>5 DEF DataInv, BusyApart
        <4> QED BY <1>6, <1>7, <3>0, <3>3, <4>1 DEF TmpStays
      <3>4. CASE h # t
        <4>1. dname'[h] = dname[h] BY <1>2, <1>4, <1>7, <3>0, <3>1, <3>4
        <4> QED BY <1>6, <3>0, <3>2, <4>1 DEF TmpStays
      <3> QED BY <3>3, <3>4
    <2>3. ASSUME PlainWrite(dwork[u]), NEW q \in DPaths PROVE dname'[DTmpOf[q]] # dwork[u].node
      <3>1. dwork[u].node # 0 /\ dname[DTmpOf[q]] # dwork[u].node BY <2>1, <2>3 DEF PlainIsApart
      <3> QED BY <1>2, <1>4, <1>7, <3>1
    <2>4. \A j : Kept(j) => InodeStays(j) BY <1>6 DEF InodeStays
    <2>5. Len(dnode) <= Len(dnode') BY <1>5, <1>6
    <2> QED BY <1>6, <1>8, <1>10, <2>0, <2>2, <2>3, <2>4, <2>5, OthersStay
  <1>13. WorkersAgree'
    <2> SUFFICES ASSUME NEW u \in DWorkers
                 PROVE  (/\ StepsAgree(u, dwork[u]) /\ TmpHolds(dwork[u])
                         /\ PlainIsApart(dwork[u]) /\ ReaderHolds(dwork[u]))'
      BY DEF WorkersAgree
    <2>1. CASE u = w
      <3>1. TmpHolds(dwork[w])' /\ PlainIsApart(dwork[w])' /\ ReaderHolds(dwork[w])' /\ StepsAgree(w, dwork[w])'
        BY <1>7, AtRestIs DEF TmpHolds, Busy, PlainIsApart, PlainWrite, ReaderHolds, StepsAgree
      <3> QED BY <2>1, <3>1
    <2>2. CASE u # w BY <1>12, <2>2 DEF StepsAgree
    <2> QED BY <2>1, <2>2
  <1>14. NamesApart'
    <2>0. \A m \in DNames : m # t => dname[m] # i BY <1>3, <1>4, <1>7 DEF DataInv, NamesApart
    <2>1. ASSUME NEW a \in Loose, NEW m \in DNames, a # m, dname'[a] # 0 PROVE dname'[m] # dname'[a]
      <3>0. a \in DNames /\ a # t BY <1>7, <2>1 DEF Loose
      <3>1. CASE m = t BY <1>7, <2>1, <3>1
      <3>2. CASE m # t /\ a = p BY <1>7, <2>0, <2>1, <3>2
      <3>3. CASE m # t /\ a # p
        <4>1. dname'[a] = dname[a] BY <1>7, <3>0, <3>3
        <4>2. CASE m = p BY <1>7, <2>0, <3>0, <4>1, <4>2
        <4>3. CASE m # p BY <1>7, <2>1, <3>3, <4>1, <4>3 DEF DataInv, NamesApart
        <4> QED BY <4>2, <4>3
      <3> QED BY <3>1, <3>2, <3>3
    <2>2. ASSUME NEW q \in DPaths \ AtomicPaths, NEW m \in DNames, q # m, dold'[q] # 0 PROVE dname'[m] # dold'[q]
      <3>0. q \in DNames /\ q # t BY <1>4
      <3>1. CASE m = t BY <1>7, <2>2, <3>1
      <3>2. CASE m # t /\ q = p
        <4>1. p \in Loose /\ m # p BY <1>4, <2>2, <3>2 DEF Loose
        <4>2. dold'[q] = dname[p] /\ dname'[m] = dname[m] BY <1>7, <3>2, <4>1
        <4> QED BY <2>2, <4>1, <4>2 DEF DataInv, NamesApart
      <3>3. CASE m # t /\ q # p
        <4>1. dold'[q] = dold[q] BY <1>7, <3>0, <3>3
        <4>2. dname[t] # dold[q] /\ dname[m] # dold[q] BY <1>4, <2>2, <3>0, <4>1 DEF DataInv, NamesApart
        <4> QED BY <1>7, <3>3, <4>1, <4>2
      <3> QED BY <3>1, <3>2, <3>3
    <2> QED BY <2>1, <2>2 DEF NamesApart, Loose
  <1>15. NamesKept'
    <2> SUFFICES ASSUME NEW q \in AtomicPaths
                 PROVE  (dname'[q] # 0 => Kept(dname[q])') /\ (dold'[q] # 0 => Kept(dold[q])')
      BY DEF NamesKept
    <2>0. q \in DNames /\ q # t BY <1>4
    <2>1. (dname[q] # 0 => Kept(dname[q])) /\ (dold[q] # 0 => Kept(dold[q])) BY DEF DataInv, NamesKept
    <2>2. ASSUME NEW j, NEW h, h = j, Kept(j)' PROVE Kept(h)' BY <2>2
    <2>3. CASE q = p
      <3>1. dname'[q] = i /\ Kept(i)' BY <1>7, <1>11, <2>3
      <3>2. dold'[q] = dname[q] BY <1>7, <2>3
      <3>3. dold'[q] # 0 => Kept(dold[q])'
        <4> SUFFICES ASSUME dold'[q] # 0 PROVE Kept(dold[q])' OBVIOUS
        <4>0. PICK j : j = dname[q] OBVIOUS
        <4>1. Kept(j) BY <2>1, <3>2, <4>0
        <4>2. dold'[q] = j BY <3>2, <4>0
        <4>3. Kept(j)' BY <1>10, <4>1
        <4> QED BY <4>2, <4>3 DEF Kept
      <3> QED BY <3>1, <3>3 DEF Kept
    <2>4. CASE q # p
      <3>1. dname'[q] = dname[q] /\ dold'[q] = dold[q] BY <1>7, <2>0, <2>4
      <3>2. ASSUME NEW j, Kept(j) PROVE (dname'[q] = j => Kept(dname[q])') /\ (dold'[q] = j => Kept(dold[q])')
        BY <1>10, <3>2 DEF Kept
      <3> QED BY <2>1, <3>1, <3>2
    <2> QED BY <2>3, <2>4
  <1>16. SeenIsWhole' BY <1>6 DEF DataInv, SeenIsWhole
  <1>17. BusyApart'
    <2>1. \A u \in DWorkers : Busy(dwork'[u]) => dwork'[u] = dwork[u] BY <1>7, AtRestIs DEF Busy
    <2> QED BY <1>6, <2>1 DEF DataInv, BusyApart, Busy
  <1> QED BY <1>8, <1>13, <1>14, <1>15, <1>16, <1>17 DEF DataInv

\* A rename finds the temporary file, or another call has moved it away.
LEMMA RenameStep ==
  ASSUME DataInv, NEW w \in DWorkers, RenameTmp(w) PROVE DataInv'
  <1>1. CASE dname[DTmpOf[dwork[w].path]] # 0 BY <1>1, RenameMoves
  <1>2. CASE dname[DTmpOf[dwork[w].path]] = 0
    <2>1. dwork' = [dwork EXCEPT ![w] = AtRest] /\ UNCHANGED <<dnode, dname, dold, dseen>>
      BY <1>2 DEF RenameTmp, Goto, Went
    <2>2. SeenIsWhole' BY <2>1 DEF DataInv, SeenIsWhole
    <2> QED BY <2>1, <2>2, AtRestIs, RestAgrees, FileQuietStep
  <1> QED BY <1>1, <1>2

\* After a power loss a name has its old inode or its new one, and either is whole.
LEMMA PowerStep ==
  ASSUME DataInv, PowerLoss PROVE DataInv'
  <1>0. /\ AtomicPaths \subseteq DPaths /\ DPaths \subseteq DNames
    BY NamesAre
  <1>1. /\ dnode \in Seq(Nodes) /\ Len(dnode) \in Nat /\ DOMAIN dnode = 1..Len(dnode)
        /\ dname \in [DNames -> 0..Len(dnode)] /\ dold \in [DNames -> 0..Len(dnode)]
    BY DEF DataInv, DTypeOK
  <1>2. PICK keep : /\ \A i \in 1..Len(dnode) : IF dnode[i].synced THEN keep[i] = dnode[i].data
                                                ELSE keep[i] \in DPrefixes(dnode[i].data)
                    /\ dnode' = [i \in 1..Len(dnode) |-> [dnode[i] EXCEPT !.data = keep[i], !.synced = TRUE]]
    BY <1>1 DEF PowerLoss
  <1>3. ASSUME NEW i \in 1..Len(dnode) PROVE keep[i] \in Seq(Nat)
    <2>1. dnode[i].data \in Seq(Nat)
      <3>1. dnode[i] \in Nodes BY <1>1
      <3> QED BY <3>1 DEF Nodes
    <2>2. ASSUME NEW n \in 0..Len(dnode[i].data) PROVE SubSeq(dnode[i].data, 1, n) \in Seq(Nat) BY <2>1
    <2> QED BY <1>2, <2>1, <2>2 DEF DPrefixes
  <1>4. dnode' \in Seq(Nodes) /\ Len(dnode') = Len(dnode)
    <2>1. \A i \in 1..Len(dnode) : [dnode[i] EXCEPT !.data = keep[i], !.synced = TRUE] \in Nodes
      <3> SUFFICES ASSUME NEW i \in 1..Len(dnode) PROVE [dnode[i] EXCEPT !.data = keep[i], !.synced = TRUE] \in Nodes
        OBVIOUS
      <3>1. dnode[i] \in Nodes /\ keep[i] \in Seq(Nat) BY <1>1, <1>3
      <3> QED BY <3>1 DEF Nodes
    <2> DEFINE nw(i) == [dnode[i] EXCEPT !.data = keep[i], !.synced = TRUE]
    <2>2. dnode' = [i \in 1..Len(dnode) |-> nw(i)] /\ \A i \in 1..Len(dnode) : nw(i) \in Nodes BY <1>2, <2>1
    <2> HIDE DEF nw
    <2> QED BY <1>1, <2>2
  <1>5. ASSUME NEW i \in 1..Len(dnode)
        PROVE  dnode'[i].data = keep[i] /\ dnode'[i].synced /\ dnode'[i].shared = dnode[i].shared
    <2>1. dnode[i] \in Nodes BY <1>1
    <2> QED BY <1>2, <2>1 DEF Nodes
  <1>6. /\ dwork' = [w \in DWorkers |-> AtRest] /\ dold' = [n \in DNames |-> 0] /\ dseen' = dseen
    BY DEF PowerLoss
  <1>8. /\ dname' \in [DNames -> 0..Len(dnode)]
        /\ \/ dname' = dname
           \/ \E h \in DPaths : /\ dold[h] # 0 /\ dname'[h] = dold[h]
                                /\ \A m \in DNames : m # h => dname'[m] = dname[m]
    BY <1>0, <1>1 DEF PowerLoss
  <1>9. DTypeOK'
    <2>1. dold' \in [DNames -> 0..Len(dnode')] BY <1>1, <1>4, <1>6
    <2> QED BY <1>4, <1>6, <1>8, <2>1, AtRestIs DEF DTypeOK
  <1>10. WorkersAgree' /\ BusyApart'
    BY <1>6, AtRestIs DEF WorkersAgree, BusyApart, StepsAgree, TmpHolds, Busy, PlainIsApart, PlainWrite, ReaderHolds
  <1>11. ASSUME NEW j, Kept(j), \A n \in Loose : dname'[n] # j PROVE Kept(j)'
    <2>1. /\ j \in 1..Len(dnode) /\ dnode'[j].shared = dnode[j].shared
          /\ ~dnode[j].shared => dnode'[j].data = dnode[j].data /\ dnode'[j].synced
      BY <1>2, <1>5, <1>11 DEF Kept
    <2>2. \A u \in DWorkers : ~PlainWrite(dwork'[u]) BY <1>6, AtRestIs DEF PlainWrite
    <2> QED BY <1>4, <1>11, <2>1, <2>2 DEF Kept
  <1>12. \A n \in Loose : n \in DNames /\ n \notin AtomicPaths BY DEF Loose
  <1>13. ASSUME NEW p \in AtomicPaths, dname'[p] # 0
         PROVE  Kept(dname'[p]) /\ \A n \in Loose : dname'[n] # dname'[p]
    <2>0. p \in DNames /\ p \in DPaths BY <1>0
    <2>1. Kept(dname'[p])
      <3>1. dname'[p] = dname[p] \/ (dold[p] # 0 /\ dname'[p] = dold[p]) BY <1>8, <2>0
      <3> QED BY <1>13, <3>1 DEF DataInv, NamesKept
    <2>2. ASSUME NEW n \in Loose PROVE dname'[n] # dname'[p]
      <3>1. n \in DNames /\ n # p /\ n \notin AtomicPaths BY <1>12
      <3>2. CASE dname'[n] = dname[n] BY <2>1, <3>2 DEF Kept
      <3>3. CASE dname'[n] # dname[n]
        <4>1. n \in DPaths /\ dold[n] # 0 /\ dname'[n] = dold[n] /\ dname'[p] = dname[p]
          BY <1>8, <2>0, <3>1, <3>3
        <4>2. n \in DPaths \ AtomicPaths BY <3>1, <4>1
        <4> QED BY <2>0, <3>1, <4>1, <4>2 DEF DataInv, NamesApart
      <3> QED BY <3>2, <3>3
    <2> QED BY <2>1, <2>2
  <1>14. NamesKept'
    <2> SUFFICES ASSUME NEW p \in AtomicPaths
                 PROVE  (dname'[p] # 0 => Kept(dname[p])') /\ (dold'[p] # 0 => Kept(dold[p])')
      BY DEF NamesKept
    <2>1. dold'[p] = 0 BY <1>0, <1>6
    <2>2. ASSUME dname'[p] # 0 PROVE Kept(dname[p])'
      <3>1. PICK j : j = dname'[p] OBVIOUS
      <3>2. Kept(j) /\ \A n \in Loose : dname'[n] # j BY <1>13, <2>2, <3>1
      <3>3. Kept(j)' BY <1>11, <3>2
      <3> QED BY <3>1, <3>3 DEF Kept
    <2> QED BY <2>1, <2>2
  <1>15. NamesApart'
    <2>1. ASSUME NEW a \in Loose, NEW m \in DNames, a # m, dname'[a] # 0 PROVE dname'[m] # dname'[a]
      <3>1. CASE dname'[a] = dname[a] /\ dname'[m] = dname[m]
        BY <2>1, <3>1 DEF DataInv, NamesApart
      <3>2. CASE dname'[a] # dname[a]
        <4>1. a \in DPaths \ AtomicPaths /\ dold[a] # 0 /\ dname'[a] = dold[a] /\ dname'[m] = dname[m]
          BY <1>8, <1>12, <2>1, <3>2
        <4> QED BY <2>1, <4>1 DEF DataInv, NamesApart
      <3>3. CASE dname'[m] # dname[m]
        <4>0. a \in DNames BY <1>12
        <4>1. m \in DPaths /\ dold[m] # 0 /\ dname'[m] = dold[m] /\ dname'[a] = dname[a]
          BY <1>8, <2>1, <3>3, <4>0
        <4>2. CASE m \in AtomicPaths BY <4>1, <4>2 DEF DataInv, NamesKept, Kept
        <4>3. CASE m \notin AtomicPaths BY <2>1, <4>0, <4>1, <4>3 DEF DataInv, NamesApart
        <4> QED BY <4>2, <4>3
      <3> QED BY <3>1, <3>2, <3>3
    <2>2. \A q \in DPaths : dold'[q] = 0 BY <1>0, <1>6
    <2> QED BY <2>1, <2>2 DEF NamesApart, Loose
  <1>16. SeenIsWhole' BY <1>6 DEF DataInv, SeenIsWhole
  <1> QED BY <1>9, <1>10, <1>14, <1>15, <1>16 DEF DataInv

\* Every step keeps the invariant.
LEMMA DataNext ==
  ASSUME DataInv, [DNext]_dvars PROVE DataInv'
  <1>1. CASE PowerLoss BY <1>1, PowerStep
  <1>2. ASSUME NEW w \in DWorkers, DStep(w) PROVE DataInv'
    BY <1>2, CallStep, CreatingStep, WriteStep, SyncStep, RenameStep, LookStep, ReadBlockStep DEF DStep
  <1>3. CASE UNCHANGED dvars
    BY <1>3 DEF dvars, DataInv, DTypeOK, WorkersAgree, BusyApart, StepsAgree, TmpHolds, Busy, PlainIsApart, PlainWrite, ReaderHolds,
                NamesApart, NamesKept, Kept, SeenIsWhole
  <1> QED BY <1>1, <1>2, <1>3 DEF DNext

\* A file that handlers only replace is absent or whole, in the directory and to every
\* reader and after a power loss at any step, unless it was made as a temporary file that
\* two calls were at: write_json_atomic and write_bytes of m6-core/src/request.rs, for any
\* workers, files and calls.
THEOREM FilesAreWhole == DSpec => []DFilesAreWhole
<1>1. DataInv => DFilesAreWhole BY InvIsWhole
<1>2. DInit => DataInv BY DataInit
<1>3. DataInv /\ [DNext]_dvars => DataInv' BY DataNext
<1> QED BY <1>1, <1>2, <1>3, PTL DEF DSpec
-----------------------------------------------------------------------------
(* FleetMonitor.  The verdicts are read off the readings of one poll, and a  *)
(* poll takes bounded time, so a reading, a handshake and a snapshot are as  *)
(* old as the interval and the timeouts allow.                               *)

\* What a poll may have read of a node.
HandshakeStates == {"none", "unknown", "ok"} \cup FileProblems \cup PeerProblems

\* A handshake is unknown only where the probe failed.
TunnelReading ==
    {u \in [probe : {"none"} \cup ProbeOutcomes, handshake : HandshakeStates] :
        u.handshake = "unknown" => u.probe = "failed"}

NodeReading ==
    [health : {"error", "panic", "garbage", "ok", "degraded"}, perf : Perfs \cup {NoPerf},
     traffic : {"none", "fine", "quiet"}, headers : {"none", "pass", "fault"}, spent : Nat,
     tunnel : TunnelReading]

\* A finite fleet has finitely many of whatever its nodes have one of.
LEMMA FiniteImage ==
  ASSUME NEW f
  PROVE  IsFiniteSet({f[n] : n \in FNodes})
<1>1. IsFiniteSet(FNodes)
  BY FleetAssumption
<1>2. PICK Y : Y = {f[n] : n \in FNodes}
  OBVIOUS
<1>3. PICK g : g = [n \in FNodes |-> f[n]]
  OBVIOUS
<1>4. g \in Surjection(FNodes, Y)
  BY <1>2, <1>3 DEF Surjection
<1>5. IsFiniteSet(Y) /\ Cardinality(Y) <= Cardinality(FNodes)
  BY <1>1, <1>4, FS_Surjection
<1> QED BY <1>2, <1>5

\* A finite set with two members has more than one.
LEMMA TwoMembers ==
  ASSUME NEW S, IsFiniteSet(S), NEW a \in S, NEW b \in S, a # b
  PROVE  Cardinality(S) > 1
<1>1. Cardinality({a, b}) = 2 /\ {a, b} \subseteq S
  <2>1. IsFiniteSet({a}) /\ Cardinality({a}) = 1
    BY FS_Singleton
  <2>2. Cardinality({a} \cup {b}) = Cardinality({a}) + 1
    BY <2>1, FS_AddElement
  <2>3. {a} \cup {b} = {a, b}
    OBVIOUS
  <2> QED BY <2>1, <2>2, <2>3
<1>2. Cardinality({a, b}) <= Cardinality(S) /\ Cardinality(S) \in Nat
  BY <1>1, FS_Subset, FS_CardinalityType
<1> QED BY <1>1, <1>2

\* A set with more than one member has two.
LEMMA TwoOf ==
  ASSUME NEW S, IsFiniteSet(S), Cardinality(S) > 1
  PROVE  \E a, b \in S : a # b
<1>1. S # {}
  BY FS_EmptySet
<1>2. PICK a \in S : TRUE
  BY <1>1
<1>3. CASE S = {a}
  <2>1. Cardinality({a}) = 1
    BY FS_Singleton
  <2> QED BY <1>3, <2>1
<1>4. CASE S # {a}
  BY <1>2, <1>4
<1> QED BY <1>3, <1>4

\* The least of some naturals is one of them.
LEMMA MinOfNats ==
  ASSUME NEW S \in SUBSET Nat, S # {}
  PROVE  Min(S) \in S /\ \A x \in S : Min(S) <= x
<1>1. \E m \in S : \A x \in S : m <= x
  BY NatLeast
<1> QED BY <1>1 DEF Min

\* A finding is not nothing.
LEMMA FindIsSome == \A l, n, w : Find(l, n, w) # {}
BY DEF Find

\* The expiry of a node: none, or the least of its certificates.
LEMMA ExpiryIs ==
  ASSUME NEW p \in Perfs
  PROVE  /\ CertExpiry(p) \in Int
         /\ CertExpiry(p) = NoExpiry <=> p.unreadable \/ p.certs = {}
         /\ CertExpiry(p) # NoExpiry => \A c \in p.certs : CertExpiry(p) <= c /\ c \in Nat
<1>1. p.certs \in SUBSET Nat
  BY PerfAssumption
<1>2. CASE p.unreadable \/ p.certs = {}
  BY <1>2 DEF CertExpiry, NoExpiry
<1>3. CASE ~(p.unreadable \/ p.certs = {})
  <2>1. PICK m : m = Min(p.certs)
    OBVIOUS
  <2>2. m \in p.certs /\ \A c \in p.certs : m <= c
    BY <1>1, <1>3, <2>1, MinOfNats
  <2>3. CertExpiry(p) = m
    BY <1>3, <2>1 DEF CertExpiry
  <2>4. m # NoExpiry /\ m \in Nat
    BY <1>1, <2>2 DEF NoExpiry
  <2> QED BY <1>1, <1>3, <2>2, <2>3, <2>4
<1> QED BY <1>2, <1>3

\* digest::build finding nothing, for one node.
LEMMA ClearNode ==
  ASSUME NEW n, NEW r \in NodeReading, NodeFindings(n, r) = {}
  PROVE  /\ r.health = "ok" /\ r.perf # NoPerf /\ r.traffic \in {"fine", "none"}
         /\ r.tunnel.probe \in {"none", "connected", "refused"}
         /\ r.tunnel.handshake \in {"none", "ok"} \cup FileProblems
         /\ PoolFindings(n, r.perf) = {} /\ LogReopenFindings(n, r.perf) = {}
         /\ HostFindings(n, r.perf) = {} /\ CertFindings(n, r.perf) = {}
<1>1. TunnelFindings(n, r.tunnel) = {} /\ ~Unreachable(r)
  BY FindIsSome DEF NodeFindings
<1>2. r.health # "degraded"
  BY <1>1, FindIsSome DEF NodeFindings
<1>3. r.perf # NoPerf
  BY <1>1, FindIsSome DEF NodeFindings
<1>4. /\ PoolFindings(n, r.perf) = {} /\ LogReopenFindings(n, r.perf) = {}
      /\ HostFindings(n, r.perf) = {} /\ CertFindings(n, r.perf) = {} /\ QuietLogFindings(n, r) = {}
  BY <1>1, <1>3 DEF NodeFindings
<1>5. r.health = "ok"
  BY <1>1, <1>2 DEF Unreachable, NodeReading
<1>6. r.traffic \in {"fine", "none"}
  <2>1. r.traffic # "quiet"
    BY <1>4, FindIsSome DEF QuietLogFindings
  <2> QED BY <2>1 DEF NodeReading
<1>7. r.tunnel.probe \in {"none", "connected", "refused"}
  <2>1. ~(r.tunnel.probe \in {"no_answer", "failed"})
    BY <1>1, FindIsSome DEF TunnelFindings
  <2>2. r.tunnel.probe \in {"none"} \cup ProbeOutcomes
    BY DEF NodeReading, TunnelReading
  <2> QED BY <2>1, <2>2 DEF ProbeOutcomes
<1>8. r.tunnel.handshake \in {"none", "ok"} \cup FileProblems
  <2>1. ~(r.tunnel.handshake \in PeerProblems)
    BY <1>1, FindIsSome DEF TunnelFindings
  <2>2. r.tunnel.handshake \in HandshakeStates /\ (r.tunnel.handshake = "unknown" => r.tunnel.probe = "failed")
    BY DEF NodeReading, TunnelReading
  <2>3. r.tunnel.handshake # "unknown"
    BY <1>7, <2>2
  <2> QED BY <2>1, <2>2, <2>3 DEF HandshakeStates
<1> QED BY <1>3, <1>4, <1>5, <1>6, <1>7, <1>8

\* ... and for its report.
LEMMA ClearReport ==
  ASSUME NEW n, NEW p \in Perfs, PoolFindings(n, p) = {}, LogReopenFindings(n, p) = {},
         HostFindings(n, p) = {}, CertFindings(n, p) = {}
  PROVE  /\ p.pools = "live" /\ ~p.errors /\ p.host = "fine" /\ p.reopen = "fine"
         /\ ~p.unreadable /\ (p.https => p.certs # {}) /\ \A c \in p.certs : c > 1
<1>1. p.pools = "live" /\ ~p.errors
  <2>1. p.pools \in {"live", "dead"}
    BY PerfAssumption
  <2>2. p.pools # "dead"
    BY FindIsSome DEF PoolFindings
  <2>3. ~p.errors
    BY FindIsSome DEF PoolFindings
  <2> QED BY <2>1, <2>2, <2>3
<1>2. p.host = "fine"
  BY PerfAssumption, FindIsSome DEF HostFindings
<1>3. p.reopen = "fine"
  <2>1. p.reopen \in {"fine", "late", "failed"}
    BY PerfAssumption
  <2>2. p.reopen # "late"
    BY FindIsSome DEF LogReopenFindings
  <2>3. p.reopen # "failed"
    BY FindIsSome DEF LogReopenFindings
  <2> QED BY <2>1, <2>2, <2>3
<1>4. PICK x : x = CertExpiry(p)
  OBVIOUS
<1>5. /\ x \in Int /\ (x = NoExpiry <=> p.unreadable \/ p.certs = {})
      /\ x # NoExpiry => \A c \in p.certs : x <= c /\ c \in Nat
  BY <1>4, ExpiryIs
<1>6. ExpectsTls(p) => x # NoExpiry /\ x # 0 /\ x # 1
  <2>1. ASSUME ExpectsTls(p), x = NoExpiry PROVE FALSE
    BY <1>4, <2>1, FindIsSome DEF CertFindings
  <2>2. ASSUME ExpectsTls(p), x = 0 PROVE FALSE
    BY <1>4, <2>2, FindIsSome DEF CertFindings, NoExpiry
  <2>3. ASSUME ExpectsTls(p), x = 1 PROVE FALSE
    BY <1>4, <2>3, FindIsSome DEF CertFindings, NoExpiry
  <2> QED BY <2>1, <2>2, <2>3
<1>7. ~p.unreadable
  BY <1>5, <1>6 DEF ExpectsTls
<1>8. p.https => p.certs # {}
  BY <1>5, <1>6 DEF ExpectsTls
<1>9. ASSUME NEW c \in p.certs PROVE c > 1
  <2>1. x # NoExpiry /\ x # 0 /\ x # 1
    BY <1>6 DEF ExpectsTls
  <2>2. x <= c /\ c \in Nat /\ x \in p.certs
    <3>1. x = Min(p.certs) /\ p.certs \in SUBSET Nat
      BY <1>4, <2>1, PerfAssumption DEF CertExpiry
    <3>2. x \in p.certs
      BY <3>1, MinOfNats
    <3> QED BY <1>5, <2>1, <3>2
  <2>3. x \in Nat
    BY <2>2, PerfAssumption
  <2> QED BY <2>1, <2>2, <2>3
<1> QED BY <1>1, <1>2, <1>3, <1>7, <1>8, <1>9

\* What an all-clear means of the readings.
Earned(rs) ==
    \A n \in FNodes :
        /\ rs[n].health = "ok" /\ rs[n].perf # NoPerf
        /\ rs[n].traffic \in {"fine", "none"} /\ rs[n].headers # "fault"
        /\ rs[n].perf.pools = "live" /\ ~rs[n].perf.errors /\ rs[n].perf.host = "fine"
        /\ rs[n].perf.reopen = "fine"
        /\ ~rs[n].perf.unreadable /\ (rs[n].perf.https => rs[n].perf.certs # {})
        /\ \A c \in rs[n].perf.certs : c > 1
        /\ rs[n].tunnel.probe \in {"none", "connected", "refused"}
        /\ rs[n].tunnel.handshake \in {"none", "ok"}
        /\ \A m \in FNodes : /\ rs[m].perf.version = rs[n].perf.version
                             /\ rs[m].perf.hash = rs[n].perf.hash

\* No drift among the nodes that report: they all run the same.
LEMMA NoDrift ==
  ASSUME NEW rs, Reporting(rs) = FNodes, DriftFindings(rs) = {}
  PROVE  \A n, m \in FNodes : rs[m].perf.version = rs[n].perf.version /\ rs[m].perf.hash = rs[n].perf.hash
<1>1. PICK V, H : V = {rs[n].perf.version : n \in FNodes} /\ H = {rs[n].perf.hash : n \in FNodes}
  OBVIOUS
<1>2. IsFiniteSet(V)
  <2>1. PICK f : f = [n \in FNodes |-> rs[n].perf.version]
    OBVIOUS
  <2>2. V = {f[n] : n \in FNodes}
    BY <1>1, <2>1
  <2> QED BY <2>2, FiniteImage
<1>3. IsFiniteSet(H)
  <2>1. PICK f : f = [n \in FNodes |-> rs[n].perf.hash]
    OBVIOUS
  <2>2. H = {f[n] : n \in FNodes}
    BY <1>1, <2>1
  <2> QED BY <2>2, FiniteImage
<1>4. ~(Cardinality(V) > 1) /\ ~(Cardinality(V) = 1 /\ Cardinality(H) > 1)
  BY <1>1, FindIsSome DEF DriftFindings
<1>5. Cardinality(V) = 1
  <2>1. V # {}
    BY <1>1, FleetAssumption
  <2>2. Cardinality(V) \in Nat /\ Cardinality(V) # 0
    BY <1>2, <2>1, FS_CardinalityType, FS_EmptySet
  <2> QED BY <1>4, <2>2
<1>6. \A a, b \in V : a = b
  BY <1>2, <1>4, TwoMembers
<1>7. \A a, b \in H : a = b
  BY <1>3, <1>4, <1>5, TwoMembers
<1> QED BY <1>1, <1>6, <1>7

\* An all-clear is earned.
LEMMA ClearIsEarned ==
  ASSUME NEW rs \in [FNodes -> NodeReading], SaysAllClear(rs, DigestBuild(rs))
  PROVE  Earned(rs)
<1>1. DigestBuild(rs) = {} /\ HeaderFaults(rs) = {}
  BY DEF SaysAllClear
<1>2. DriftFindings(rs) = {}
  BY <1>1 DEF DigestBuild
<1>3. ASSUME NEW n \in FNodes PROVE NodeFindings(n, rs[n]) = {}
  BY <1>1 DEF DigestBuild
<1>7. \A n \in FNodes : rs[n].tunnel.handshake \notin FileProblems
  <2>1. FileFindings(rs) = {}
    BY <1>1 DEF DigestBuild
  <2> QED BY <2>1, FindIsSome DEF FileFindings
<1>4. ASSUME NEW n \in FNodes
      PROVE  /\ rs[n].health = "ok" /\ rs[n].perf # NoPerf /\ rs[n].traffic \in {"fine", "none"}
             /\ rs[n].tunnel.handshake \in {"none", "ok"}
             /\ rs[n].tunnel.probe \in {"none", "connected", "refused"} /\ rs[n].headers # "fault"
             /\ rs[n].perf.pools = "live" /\ ~rs[n].perf.errors /\ rs[n].perf.host = "fine"
             /\ rs[n].perf.reopen = "fine"
             /\ ~rs[n].perf.unreadable /\ (rs[n].perf.https => rs[n].perf.certs # {})
             /\ \A c \in rs[n].perf.certs : c > 1
  <2>1. PICK r \in NodeReading : r = rs[n]
    OBVIOUS
  <2>2. NodeFindings(n, r) = {}
    BY <1>3, <2>1
  <2>3. /\ r.health = "ok" /\ r.perf # NoPerf /\ r.traffic \in {"fine", "none"}
        /\ r.tunnel.probe \in {"none", "connected", "refused"}
        /\ r.tunnel.handshake \in {"none", "ok"} \cup FileProblems
        /\ PoolFindings(n, r.perf) = {} /\ LogReopenFindings(n, r.perf) = {}
        /\ HostFindings(n, r.perf) = {} /\ CertFindings(n, r.perf) = {}
    BY <2>2, ClearNode
  <2>4. PICK p : p = r.perf
    OBVIOUS
  <2>5. p \in Perfs
    BY <2>3, <2>4 DEF NodeReading
  <2>6. /\ p.pools = "live" /\ ~p.errors /\ p.host = "fine" /\ p.reopen = "fine"
        /\ ~p.unreadable /\ (p.https => p.certs # {}) /\ \A c \in p.certs : c > 1
    BY <2>3, <2>4, <2>5, ClearReport
  <2>7. r.headers # "fault"
    BY <1>1, <2>1 DEF HeaderFaults
  <2>8. r.tunnel.handshake \notin FileProblems
    BY <1>7, <2>1
  <2>9. r.tunnel.handshake \in {"none", "ok"}
    BY <2>3, <2>8
  <2> QED BY <2>1, <2>3, <2>4, <2>6, <2>7, <2>9
<1>5. Reporting(rs) = FNodes
  BY <1>4 DEF Reporting, Unreachable
<1>6. \A n, m \in FNodes : rs[m].perf.version = rs[n].perf.version /\ rs[m].perf.hash = rs[n].perf.hash
  BY <1>2, <1>5, NoDrift
<1> QED BY <1>4, <1>6 DEF Earned

\* The nodes whose certificate lasts longest.
LongestLasting(rs) ==
    {n \in Certified(rs) : \A m \in Certified(rs) : CertExpiry(rs[m].perf) <= CertExpiry(rs[n].perf)}

NewestCert(rs) ==
    /\ Behind(rs) \cap LongestLasting(rs) = {}
    /\ (\E n, m \in Certified(rs) : n # m /\ CertExpiry(rs[n].perf) = CertExpiry(rs[m].perf))
          => Behind(rs) = Certified(rs) \ LongestLasting(rs)

\* Being behind is having less than the newest.
LEMMA NewestIsRight ==
  ASSUME NEW rs \in [FNodes -> NodeReading]
  PROVE  NewestCert(rs)
<1>1. PICK C, x : C = Certified(rs) /\ x = [n \in FNodes |-> CertExpiry(rs[n].perf)]
  OBVIOUS
<1>2. C \subseteq FNodes /\ \A n \in C : x[n] = CertExpiry(rs[n].perf)
  BY <1>1 DEF Certified, Reporting
<1>3. ASSUME NEW n \in C PROVE x[n] \in Int
  <2>1. PICK p : p = rs[n].perf
    OBVIOUS
  <2>2. n \in FNodes /\ p # NoPerf
    BY <1>1, <2>1 DEF Certified, Reporting
  <2>3. p \in Perfs
    BY <2>1, <2>2 DEF NodeReading
  <2>4. CertExpiry(p) \in Int
    BY <2>3, ExpiryIs
  <2> QED BY <1>2, <2>1, <2>4
<1>4. PICK E : E = Expiries(rs)
  OBVIOUS
<1>5. E = {x[n] : n \in C}
  BY <1>1, <1>2, <1>4 DEF Expiries
<1>6. E \in SUBSET Int
  BY <1>3, <1>5
<1>7. IsFiniteSet(E)
  <2>1. E \subseteq {x[n] : n \in FNodes}
    BY <1>2, <1>5
  <2>2. IsFiniteSet({x[n] : n \in FNodes})
    BY FiniteImage
  <2> QED BY <2>1, <2>2, FS_Subset
<1>8. LongestLasting(rs) = {n \in C : \A m \in C : x[m] <= x[n]}
  BY <1>1, <1>2 DEF LongestLasting
<1>9. CASE Cardinality(E) > 1 /\ \E at \in E : Cardinality(Sharing(rs, at)) > 1
  <2>1. Behind(rs) = {n \in C : x[n] < Max(E)}
    BY <1>1, <1>2, <1>4, <1>9 DEF Behind
  <2>2. E # {}
    BY <1>9
  <2>3. PICK m : m = Max(E)
    OBVIOUS
  <2>4. m \in E /\ \A e \in E : e <= m
    BY <1>6, <1>7, <2>2, <2>3, MaxIn
  <2>5. \A n \in C : x[n] \in E
    BY <1>5
  <2>6. PICK top \in C : x[top] = m
    BY <1>5, <2>4
  <2>7. ASSUME NEW n \in C PROVE (x[n] < m) <=> ~(\A k \in C : x[k] <= x[n])
    <3>1. x[n] \in Int /\ m \in Int /\ x[n] <= m /\ \A k \in C : x[k] <= m /\ x[k] \in Int
      BY <1>3, <1>6, <2>4, <2>5
    <3>2. CASE x[n] < m
      BY <2>6, <3>1, <3>2
    <3>3. CASE ~(x[n] < m)
      <4>1. x[n] = m
        BY <3>1, <3>3
      <4> QED BY <3>1, <3>3, <4>1
    <3> QED BY <3>2, <3>3
  <2>8. Behind(rs) = C \ LongestLasting(rs)
    BY <1>8, <2>1, <2>3, <2>7
  <2> QED BY <1>1, <2>8 DEF NewestCert
<1>10. CASE ~(Cardinality(E) > 1 /\ \E at \in E : Cardinality(Sharing(rs, at)) > 1)
  <2>1. Behind(rs) = {}
    BY <1>4, <1>10 DEF Behind
  <2>2. ASSUME NEW n \in C, NEW m \in C, n # m, x[n] = x[m] PROVE LongestLasting(rs) = C
    <3>1. PICK S : S = Sharing(rs, x[n])
      OBVIOUS
    <3>2. n \in S /\ m \in S /\ S \subseteq FNodes
      BY <1>1, <1>2, <2>2, <3>1 DEF Sharing
    <3>3. IsFiniteSet(S)
      BY <3>2, FS_Subset, FleetAssumption
    <3>4. Cardinality(S) > 1
      BY <2>2, <3>2, <3>3, TwoMembers
    <3>5. x[n] \in E
      BY <1>5
    <3>6. ~(Cardinality(E) > 1)
      BY <1>10, <3>1, <3>4, <3>5
    <3>7. \A a, b \in E : a = b
      BY <1>7, <3>6, TwoMembers
    <3>8. \A a, b \in C : x[a] = x[b] /\ x[a] \in Int
      BY <1>3, <1>5, <3>7
    <3>9. \A a, b \in C : x[a] <= x[b]
      BY <3>8
    <3> QED BY <1>8, <3>9
  <2>3. (\E n, m \in C : n # m /\ x[n] = x[m]) => LongestLasting(rs) = C
    BY <2>2
  <2>4. (\E n, m \in Certified(rs) : n # m /\ CertExpiry(rs[n].perf) = CertExpiry(rs[m].perf)) => LongestLasting(rs) = C
    BY <1>1, <1>2, <2>3
  <2> QED BY <1>1, <2>1, <2>4 DEF NewestCert
<1> QED BY <1>9, <1>10

-----------------------------------------------------------------------------
\* How long a poll of the nodes may take.
NodeTime == (3 + HeaderChecks) * Timeout

History == [wake : Nat, skipped : BOOLEAN, quiet : SUBSET Tunnelled, late : BOOLEAN]
Shakes == [Tunnelled -> Nat]

\* The clock, the files and what is known of the tunnels.
FTypes ==
    /\ finterval \in Nat /\ fnow \in Nat /\ ffile \in Files
    /\ fhist \in History
    /\ fshake \in Shakes /\ fwg \in [at : Nat, shake : Shakes] /\ fwg.at <= fnow

\* A poll under way: what it has read, and how long it has taken.
Polling(poll, limit) ==
    /\ poll = [pc |-> poll.pc, readings |-> poll.readings, file |-> poll.file, spent |-> poll.spent]
    /\ poll.readings \in [FNodes -> NodeReading] /\ poll.file \in Files /\ FromConfig(poll.file)
    /\ poll.spent \in Nat /\ poll.spent <= limit
    /\ fnow = fhist.wake + poll.spent

PollOK ==
    \/ fpoll.pc = "sleep" /\ fnow <= fhist.wake
    \/ fpoll.pc = "tunnels" /\ Polling(fpoll, NodeTime)
    \/ fpoll.pc = "publish" /\ Polling(fpoll, NodeTime + Timeout)

\* While every poll runs, the poller wakes an interval after its last snapshot.
SnapOK == (fsnap # NoSnap /\ ~fhist.skipped) => fsnap.at \in Nat /\ fhist.wake = fsnap.at + finterval

\* A tunnel that answers: its last handshake is about as old as its last probe, and a file
\* written since that probe has it.
TunnelsOK ==
    \A n \in Tunnelled \ fhist.quiet : ~fhist.skipped =>
        /\ fpoll.pc \in {"sleep", "tunnels"} =>
              /\ fhist.wake <= fshake[n] + Rekey + Timeout + finterval
              /\ fwg.at > fhist.wake - finterval => fwg.shake[n] = fshake[n]
        /\ fpoll.pc = "publish" => fnow <= fshake[n] + Rekey + Timeout

FleetInv == FTypes /\ PollOK /\ SnapOK /\ TunnelsOK /\ FHealthyTunnelIsQuiet

\* The constants as naturals.
LEMMA FleetBounds ==
  /\ HeaderChecks \in Nat /\ Timeout \in Nat /\ Rekey \in Nat /\ Margin \in Nat
  /\ NodeTime \in Nat /\ Timeout <= NodeTime
  /\ (4 + HeaderChecks) * Timeout = NodeTime + Timeout
<1>1. HeaderChecks \in Nat /\ Timeout \in Nat /\ Rekey \in Nat /\ Margin \in Nat
  BY FleetAssumption
<1>2. PICK k : k = HeaderChecks * Timeout
  OBVIOUS
<1>3. k \in Nat
  BY <1>1, <1>2
<1>4. (3 + HeaderChecks) * Timeout = 3 * Timeout + k /\ (4 + HeaderChecks) * Timeout = 4 * Timeout + k
  BY <1>1, <1>2
<1> QED BY <1>1, <1>3, <1>4 DEF NodeTime

\* A reading from its parts.
LEMMA ReadingMade ==
  ASSUME NEW h \in {"error", "panic", "garbage", "ok", "degraded"}, NEW p \in Perfs \cup {NoPerf},
         NEW t \in {"none", "fine", "quiet"}, NEW hc \in {"none", "pass", "fault"}, NEW s \in Nat
  PROVE  Reading(h, p, t, hc, s) \in NodeReading /\ Reading(h, p, t, hc, s).spent = s
<1>1. PICK u : u = NoTunnel
  OBVIOUS
<1>2. u \in TunnelReading
  BY <1>1 DEF NoTunnel, TunnelReading, HandshakeStates
<1> QED BY <1>1, <1>2 DEF Reading, NodeReading

\* A reading is one, and takes no longer than its requests may.
LEMMA ReadingsTyped ==
  ASSUME NEW n, NEW r \in ReadingsOf(n)
  PROVE  r \in NodeReading /\ r.spent <= NodeTime
<1>1. r \in DeadReadings \cup HealthOnly \cup FullReadings
  BY DEF ReadingsOf
<1>3. NodeTime \in Nat /\ Timeout \in Nat /\ Timeout <= NodeTime
  BY FleetBounds
<1>4. CASE r \in DeadReadings
  <2>1. PICK h \in {"error", "panic"} : r = Reading(h, NoPerf, "none", "none", Timeout)
    BY <1>4 DEF DeadReadings
  <2> QED BY <1>3, <2>1, ReadingMade
<1>5. CASE r \in HealthOnly
  <2>1. PICK h \in {"garbage", "ok"}, s \in {0, Timeout} : r = Reading(h, NoPerf, "none", "none", s)
    BY <1>5 DEF HealthOnly
  <2>2. h \in {"error", "panic", "garbage", "ok", "degraded"} /\ s \in Nat /\ s <= NodeTime
    BY <1>3, <2>1
  <2>3. PICK p \in Perfs \cup {NoPerf} : p = NoPerf
    OBVIOUS
  <2>4. Reading(h, p, "none", "none", s) \in NodeReading /\ Reading(h, p, "none", "none", s).spent = s
    BY <2>2, ReadingMade
  <2> QED BY <2>1, <2>2, <2>3, <2>4
<1>6. CASE r \in FullReadings
  <2>1. PICK h \in {"garbage", "ok", "degraded"}, p \in {NoPerf} \cup Perfs, t \in {"fine", "quiet", "none"},
             hc \in {"pass", "fault"}, s \in {0, NodeTime} : r = Reading(h, p, t, hc, s)
    BY <1>6 DEF FullReadings, NodeTime
  <2>2. PICK p2 \in Perfs \cup {NoPerf} : p2 = p
    OBVIOUS
  <2>3. PICK t2 \in {"none", "fine", "quiet"} : t2 = t
    OBVIOUS
  <2>4. PICK c2 \in {"none", "pass", "fault"} : c2 = hc
    OBVIOUS
  <2>5. PICK h2 \in {"error", "panic", "garbage", "ok", "degraded"} : h2 = h
    OBVIOUS
  <2>6. PICK s2 \in Nat : s2 = s /\ s2 <= NodeTime
    BY <1>3, <2>1
  <2>7. Reading(h2, p2, t2, c2, s2) \in NodeReading /\ Reading(h2, p2, t2, c2, s2).spent = s2
    <3>1. PICK u : u = NoTunnel
      OBVIOUS
    <3>2. u \in TunnelReading
      BY <3>1 DEF NoTunnel, TunnelReading, HandshakeStates
    <3> QED BY <3>1, <3>2 DEF Reading, NodeReading
  <2>8. r = Reading(h2, p2, t2, c2, s2)
    BY <2>1, <2>2, <2>3, <2>4, <2>5, <2>6
  <2> QED BY <2>6, <2>7, <2>8
<1> QED BY <1>1, <1>4, <1>5, <1>6

\* The slowest node's time is some node's.
LEMMA SlowestNode ==
  ASSUME NEW rs \in [FNodes -> NodeReading], \A n \in FNodes : rs[n].spent <= NodeTime
  PROVE  Max({rs[n].spent : n \in FNodes}) \in Nat /\ Max({rs[n].spent : n \in FNodes}) <= NodeTime
<1>1. PICK f, S : f = [n \in FNodes |-> rs[n].spent] /\ S = {rs[n].spent : n \in FNodes}
  OBVIOUS
<1>2. S = {f[n] : n \in FNodes}
  BY <1>1
<1>3. IsFiniteSet(S)
  BY <1>2, FiniteImage
<1>4. \A n \in FNodes : rs[n].spent \in Nat
  BY DEF NodeReading
<1>5. S \in SUBSET Int /\ S # {} /\ \A e \in S : e \in Nat /\ e <= NodeTime
  BY <1>1, <1>4, FleetAssumption
<1>6. Max(S) \in S
  BY <1>3, <1>5, MaxIn
<1> QED BY <1>1, <1>5, <1>6

\* A monitor starts asleep, with nothing read.
LEMMA FleetInitOK == FInit => FleetInv
<1> SUFFICES ASSUME FInit PROVE FleetInv
  OBVIOUS
<1>1. /\ ffile \in Files /\ finterval = ffile.interval /\ fpoll.pc = "sleep" /\ fsnap = NoSnap /\ fnow = 0
      /\ fhist = [wake |-> 0, skipped |-> FALSE, quiet |-> {}, late |-> FALSE]
      /\ fshake = [n \in Tunnelled |-> 0] /\ fwg = [at |-> 0, shake |-> fshake]
  BY DEF FInit, Idle
<1>2. finterval \in Nat
  BY <1>1, FleetAssumption
<1>3. FTypes
  <2>1. fhist \in History
    BY <1>1 DEF History
  <2>2. fshake \in Shakes
    BY <1>1 DEF Shakes
  <2>3. fwg \in [at : Nat, shake : Shakes] /\ fwg.at = 0
    BY <1>1, <2>2
  <2> QED BY <1>1, <1>2, <2>1, <2>2, <2>3 DEF FTypes
<1>4. PollOK
  BY <1>1 DEF PollOK
<1>5. SnapOK
  BY <1>1 DEF SnapOK
<1>6. TunnelsOK
  <2>1. ASSUME NEW n \in Tunnelled PROVE fshake[n] = 0 /\ fwg.shake[n] = fshake[n]
    BY <1>1
  <2> QED BY <1>1, <1>2, <2>1, FleetBounds DEF TunnelsOK
<1> QED BY <1>1, <1>3, <1>4, <1>5, <1>6 DEF FleetInv, FHealthyTunnelIsQuiet

\* Time passes only up to the next wake-up.
LEMMA FleetSleepOK == ASSUME FleetInv, Sleep PROVE FleetInv'
<1>1. /\ fnow' = fnow + 1 /\ fpoll' = fpoll /\ fhist' = fhist /\ fsnap' = fsnap /\ fshake' = fshake /\ fwg' = fwg
      /\ ffile' = ffile /\ finterval' = finterval /\ fpoll.pc = "sleep" /\ fnow < fhist.wake
  BY DEF Sleep
<1>2. fnow \in Nat /\ fhist.wake \in Nat /\ fwg.at \in Nat /\ fwg.at <= fnow
  BY DEF FleetInv, FTypes, History
<1>3. FTypes'
  BY <1>1, <1>2 DEF FleetInv, FTypes
<1>4. PollOK'
  BY <1>1, <1>2 DEF PollOK
<1>5. SnapOK'
  BY <1>1 DEF FleetInv, SnapOK
<1>6. TunnelsOK'
  BY <1>1 DEF FleetInv, TunnelsOK
<1> QED BY <1>1, <1>3, <1>4, <1>5, <1>6 DEF FleetInv, FHealthyTunnelIsQuiet

\* A file that does not load skips the poll, and the skip is remembered.
LEMMA FleetSkipOK == ASSUME FleetInv, SkipPoll PROVE FleetInv'
<1>1. /\ fhist' = [fhist EXCEPT !.wake = fnow + finterval, !.skipped = TRUE] /\ fpoll' = fpoll /\ fnow' = fnow
      /\ fsnap' = fsnap /\ fshake' = fshake /\ fwg' = fwg /\ ffile' = ffile /\ finterval' = finterval
      /\ fpoll.pc = "sleep"
  BY DEF SkipPoll
<1>2. fnow \in Nat /\ finterval \in Nat /\ fhist \in History
  BY DEF FleetInv, FTypes
<1>3. fhist' \in History /\ fhist'.wake = fnow + finterval /\ fhist'.skipped
  <2>1. fhist.quiet \in SUBSET Tunnelled /\ fhist.late \in BOOLEAN
    BY <1>2 DEF History
  <2>2. fhist' = [wake |-> fnow + finterval, skipped |-> TRUE, quiet |-> fhist.quiet, late |-> fhist.late]
    BY <1>1, <1>2 DEF History
  <2>3. fnow + finterval \in Nat
    BY <1>2
  <2> QED BY <2>1, <2>2, <2>3 DEF History
<1>4. FTypes'
  BY <1>1, <1>3 DEF FleetInv, FTypes
<1>5. PollOK'
  BY <1>1, <1>2, <1>3 DEF PollOK
<1>6. SnapOK' /\ TunnelsOK'
  BY <1>3 DEF SnapOK, TunnelsOK
<1> QED BY <1>1, <1>4, <1>5, <1>6 DEF FleetInv, FHealthyTunnelIsQuiet

\* Polling the nodes takes as long as its slowest node.
LEMMA FleetPollOK == ASSUME FleetInv, PollFleet PROVE FleetInv'
<1>1. PICK rs \in [FNodes -> UNION {ReadingsOf(n) : n \in FNodes}] :
          /\ \A n \in FNodes : rs[n] \in ReadingsOf(n)
          /\ fpoll' = [pc |-> "tunnels", readings |-> rs, file |-> ffile, spent |-> Max({rs[n].spent : n \in FNodes})]
          /\ fnow' = fnow + Max({rs[n].spent : n \in FNodes})
  BY DEF PollFleet
<1>2. /\ fpoll.pc = "sleep" /\ fnow = fhist.wake /\ FromConfig(ffile)
      /\ ffile' = ffile /\ finterval' = finterval /\ fsnap' = fsnap /\ fshake' = fshake /\ fwg' = fwg /\ fhist' = fhist
  BY DEF PollFleet
<1>3. \A n \in FNodes : rs[n] \in NodeReading /\ rs[n].spent <= NodeTime
  BY <1>1, ReadingsTyped
<1>4. rs \in [FNodes -> NodeReading]
  BY <1>3
<1>5. PICK k : k = Max({rs[n].spent : n \in FNodes})
  OBVIOUS
<1>6. k \in Nat /\ k <= NodeTime
  BY <1>3, <1>4, <1>5, SlowestNode
<1>7. /\ fnow \in Nat /\ finterval \in Nat /\ ffile \in Files /\ fwg.at \in Nat /\ fwg.at <= fnow /\ fhist.wake \in Nat
  BY DEF FleetInv, FTypes, History
<1>8. FTypes'
  BY <1>1, <1>2, <1>5, <1>6, <1>7 DEF FleetInv, FTypes
<1>9. PollOK'
  <2>1. PICK q : q = fpoll'
    OBVIOUS
  <2>2. q = [pc |-> "tunnels", readings |-> rs, file |-> ffile, spent |-> k]
    BY <1>1, <1>5, <2>1
  <2>3. q.pc = "tunnels" /\ q.readings = rs /\ q.file = ffile /\ q.spent = k
    BY <2>2
  <2>4. Polling(q, NodeTime)'
    BY <1>1, <1>2, <1>4, <1>5, <1>6, <1>7, <2>2, <2>3 DEF Polling, FromConfig, LimitAccepted
  <2> QED BY <2>1, <2>3, <2>4 DEF PollOK
<1>10. SnapOK'
  BY <1>2 DEF FleetInv, SnapOK
<1>11. fpoll'.pc = "tunnels"
  BY <1>1
<1>12. TunnelsOK'
  BY <1>2, <1>11 DEF FleetInv, TunnelsOK
<1> QED BY <1>8, <1>9, <1>10, <1>11, <1>12 DEF FleetInv, FHealthyTunnelIsQuiet

\* A snapshot fixes the next wake-up, an interval from now.
LEMMA FleetPublishOK == ASSUME FleetInv, Publish PROVE FleetInv'
<1>1. /\ fhist' = [fhist EXCEPT !.wake = fnow + finterval] /\ fpoll' = Idle /\ fnow' = fnow
      /\ fshake' = fshake /\ fwg' = fwg /\ ffile' = ffile /\ finterval' = finterval /\ fpoll.pc = "publish"
  BY DEF Publish
<1>2. fsnap'.at = fnow
  BY DEF Publish, SnapshotAt
<1>3. fnow \in Nat /\ finterval \in Nat /\ fhist \in History /\ fwg.at \in Nat /\ fwg.at <= fnow /\ fpoll'.pc = "sleep"
  BY <1>1 DEF FleetInv, FTypes, Idle
<1>4. /\ fhist' \in History /\ fhist'.wake = fnow + finterval /\ fhist'.quiet = fhist.quiet
      /\ fhist'.skipped = fhist.skipped
  BY <1>1, <1>3 DEF History
<1>5. FTypes'
  BY <1>1, <1>4 DEF FleetInv, FTypes
<1>6. PollOK'
  BY <1>1, <1>3, <1>4 DEF PollOK
<1>7. SnapOK'
  BY <1>1, <1>2, <1>3, <1>4 DEF SnapOK
<1>8. TunnelsOK'
  <2>1. SUFFICES ASSUME NEW n \in Tunnelled \ fhist.quiet, ~fhist.skipped
                 PROVE  /\ fnow + finterval <= fshake[n] + Rekey + Timeout + finterval
                        /\ ~(fwg.at > fnow)
    BY <1>1, <1>3, <1>4 DEF TunnelsOK
  <2>2. fnow <= fshake[n] + Rekey + Timeout
    BY <1>1, <2>1 DEF FleetInv, TunnelsOK
  <2>3. fshake[n] \in Nat
    BY DEF FleetInv, FTypes, Shakes
  <2> QED BY <1>3, <2>2, <2>3, FleetBounds
<1> QED BY <1>3, <1>5, <1>6, <1>7, <1>8 DEF FleetInv, FHealthyTunnelIsQuiet

\* An edited file is read by the next poll, not by this one.
LEMMA FleetEditOK == ASSUME FleetInv, EditFile PROVE FleetInv'
BY DEF FleetInv, EditFile, FTypes, PollOK, SnapOK, TunnelsOK, FHealthyTunnelIsQuiet

\* A collected handshake file has the handshakes of now.
LEMMA FleetCollectOK == ASSUME FleetInv, Collect PROVE FleetInv'
<1>1. /\ fwg' = [at |-> fnow, shake |-> fshake] /\ fpoll' = fpoll /\ fhist' = fhist /\ fsnap' = fsnap
      /\ fshake' = fshake /\ fnow' = fnow /\ ffile' = ffile /\ finterval' = finterval /\ fpoll.pc = "sleep"
  BY DEF Collect
<1>2. fnow \in Nat /\ fshake \in Shakes
  BY DEF FleetInv, FTypes
<1>3. FTypes'
  BY <1>1, <1>2 DEF FleetInv, FTypes
<1>4. PollOK' /\ SnapOK'
  BY <1>1 DEF FleetInv, PollOK, SnapOK
<1>5. TunnelsOK'
  BY <1>1 DEF FleetInv, TunnelsOK
<1> QED BY <1>1, <1>3, <1>4, <1>5 DEF FleetInv, FHealthyTunnelIsQuiet

\* A reading from its parts, and with its tunnel's part written.
ReadingOf(a, b, c, d, e, f) ==
    [health |-> a, perf |-> b, traffic |-> c, headers |-> d, spent |-> e, tunnel |-> f]
WithTunnel(r, u) == [r EXCEPT !.tunnel = u]

\* Writing the tunnel's part of a reading keeps the rest.
LEMMA TunnelWritten ==
  ASSUME NEW a, NEW b, NEW c, NEW d, NEW e, NEW f, NEW u
  PROVE  /\ WithTunnel(ReadingOf(a, b, c, d, e, f), u) = ReadingOf(a, b, c, d, e, u)
         /\ ReadingOf(a, b, c, d, e, u).tunnel = u
BY DEF ReadingOf, WithTunnel

\* ... and leaves a reading.
LEMMA WithTunnelTyped ==
  ASSUME NEW r \in NodeReading, NEW u \in TunnelReading
  PROVE  WithTunnel(r, u) \in NodeReading /\ WithTunnel(r, u).tunnel = u
<1>1. PICK a, b, c, d, e, f : /\ a = r.health /\ b = r.perf /\ c = r.traffic /\ d = r.headers
                             /\ e = r.spent /\ f = r.tunnel
  OBVIOUS
<1>2. r = ReadingOf(a, b, c, d, e, f)
  BY <1>1 DEF NodeReading, ReadingOf
<1>3. WithTunnel(r, u) = ReadingOf(a, b, c, d, e, u)
  BY <1>2, TunnelWritten
<1>4. ReadingOf(a, b, c, d, e, u) \in NodeReading
  BY <1>1 DEF NodeReading, ReadingOf
<1>5. ReadingOf(a, b, c, d, e, u).tunnel = u
  BY TunnelWritten
<1> QED BY <1>3, <1>4, <1>5

\* The probe's answers, added to the readings.
Probed(qs, rs, t) ==
    /\ DOMAIN qs = FNodes /\ qs = [n \in FNodes |-> qs[n]]
    /\ \A n \in FNodes : qs[n] = IF n \in Tunnelled THEN WithTunnel(rs[n], t[n]) ELSE rs[n]

\* Probed readings are readings.
LEMMA ProbedReadings ==
  ASSUME NEW rs \in [FNodes -> NodeReading], NEW t \in [Tunnelled -> TunnelReading], NEW qs, Probed(qs, rs, t)
  PROVE  qs \in [FNodes -> NodeReading] /\ \A n \in Tunnelled : qs[n].tunnel = t[n]
<1>1. Tunnelled \subseteq FNodes
  BY FleetAssumption
<1>2. ASSUME NEW n \in Tunnelled PROVE qs[n] \in NodeReading /\ qs[n].tunnel = t[n]
  <2>1. rs[n] \in NodeReading /\ t[n] \in TunnelReading /\ qs[n] = WithTunnel(rs[n], t[n])
    BY <1>1 DEF Probed
  <2> QED BY <2>1, WithTunnelTyped
<1>3. \A n \in FNodes : qs[n] \in NodeReading
  BY <1>2 DEF Probed
<1>4. qs \in [FNodes -> NodeReading]
  BY <1>3 DEF Probed
<1> QED BY <1>2, <1>4

\* A handshake, as a constant: what handshake_for says of it, and what is told of a tunnel.
JudgedPeer(n, now, shake, limit) ==
    CASE n \in Keyless -> "no public key"
      [] n \in Unpeered \ Keyless -> "peer absent"
      [] n \notin Keyless \cup Unpeered /\ shake < 0 -> "never"
      [] n \notin Keyless \cup Unpeered /\ shake >= 0 /\ now - shake > limit -> "old"
      [] OTHER -> "ok"

Judged(n, src, now, at, shake, limit) ==
    CASE src # "read" -> src
      [] src = "read" /\ now - at > limit -> "file stale"
      [] OTHER -> JudgedPeer(n, now, shake, limit)

ToldOf(o, j) == IF o = "panicked" THEN [probe |-> "failed", handshake |-> "unknown"]
              ELSE [probe |-> o, handshake |-> j]

\* A handshake younger than the limit is not called old, nor missing.
LEMMA JudgedTyped ==
  ASSUME NEW n, NEW src \in {"read"} \cup FileProblems, NEW now \in Nat, NEW at \in Nat, NEW shake \in Nat,
         NEW limit \in Nat
  PROVE  /\ Judged(n, src, now, at, shake, limit) \in {"ok"} \cup FileProblems \cup PeerProblems
         /\ now - shake <= limit => Judged(n, src, now, at, shake, limit) \notin {"old", "never"}
<1>1. PICK j : j = JudgedPeer(n, now, shake, limit)
  OBVIOUS
<1>2. j \in {"ok", "no public key", "peer absent", "never", "old"}
      /\ (now - shake <= limit => j \notin {"old", "never"})
  <2>1. CASE n \in Keyless
    BY <1>1, <2>1 DEF JudgedPeer
  <2>2. CASE n \in Unpeered \ Keyless
    BY <1>1, <2>2 DEF JudgedPeer
  <2>3. CASE n \notin Keyless \cup Unpeered
    <3>1. n \notin Keyless /\ n \notin Unpeered \ Keyless
      BY <2>3
    <3>2. ~(shake < 0) /\ shake >= 0
      OBVIOUS
    <3>3. CASE now - shake > limit
      <4>1. j = "old"
        BY <1>1, <2>3, <3>1, <3>2, <3>3, Zenon DEF JudgedPeer
      <4> QED BY <3>3, <4>1
    <3>4. CASE ~(now - shake > limit)
      <4>1. j = "ok"
        BY <1>1, <2>3, <3>1, <3>2, <3>4, Zenon DEF JudgedPeer
      <4> QED BY <4>1
    <3> QED BY <3>3, <3>4
  <2> QED BY <2>1, <2>2, <2>3
<1>3. PICK v : v = Judged(n, src, now, at, shake, limit)
  OBVIOUS
<1>4. v \in FileProblems \/ v = j
  <2>1. CASE src # "read"
    BY <1>3, <2>1 DEF Judged
  <2>2. CASE src = "read" /\ now - at > limit
    BY <1>3, <2>2 DEF Judged, FileProblems
  <2>3. CASE src = "read" /\ ~(now - at > limit)
    BY <1>1, <1>3, <2>3 DEF Judged
  <2> QED BY <2>1, <2>2, <2>3
<1> QED BY <1>2, <1>3, <1>4 DEF FileProblems, PeerProblems

\* What is told of a tunnel is a reading of it, with that handshake unless it is unknown.
LEMMA ToldTyped ==
  ASSUME NEW o \in ProbeOutcomes \cup {"panicked"}, NEW j \in {"ok"} \cup FileProblems \cup PeerProblems
  PROVE  ToldOf(o, j) \in TunnelReading /\ ToldOf(o, j).handshake \in {j, "unknown"}
<1>1. CASE o = "panicked"
  <2>1. "failed" \in {"none"} \cup ProbeOutcomes /\ "unknown" \in HandshakeStates
    BY DEF ProbeOutcomes, HandshakeStates
  <2>2. ToldOf(o, j) = [probe |-> "failed", handshake |-> "unknown"]
    BY <1>1 DEF ToldOf
  <2> QED BY <2>1, <2>2 DEF TunnelReading
<1>2. CASE o # "panicked"
  <2>1. o \in {"none"} \cup ProbeOutcomes /\ j \in HandshakeStates
    BY <1>2 DEF HandshakeStates
  <2>2. j # "unknown"
    BY DEF FileProblems, PeerProblems
  <2>3. ToldOf(o, j) = [probe |-> o, handshake |-> j]
    BY <1>2 DEF ToldOf
  <2> QED BY <2>1, <2>2, <2>3 DEF TunnelReading
<1> QED BY <1>1, <1>2

\* The probe: a tunnel that answers has shaken hands within a rekey period, and the file read
\* has that handshake unless it is late.
LEMMA FleetProbeOK == ASSUME FleetInv, ProbeTunnels PROVE FleetInv'
<1>1. PICK out \in [Tunnelled -> ProbeOutcomes \cup {"panicked"}], src \in Sources(fpoll.file) :
         LET found(n) == TunnelReadingOf(n, out[n], src, fpoll.file.maxAge)
             spent == IF \E n \in Tunnelled : out[n] = "no_answer" THEN Timeout ELSE 0
         IN  /\ fpoll' = [fpoll EXCEPT
                    !.pc = "publish", !.spent = @ + spent,
                    !.readings = [n \in FNodes |->
                        IF n \in Tunnelled
                        THEN [fpoll.readings[n] EXCEPT !.tunnel = found(n)]
                        ELSE fpoll.readings[n]]]
             /\ fnow' = fnow + spent
             /\ fshake' = [n \in Tunnelled |->
                    IF Answers(out[n]) /\ (fshake[n] < 0 \/ fnow - fshake[n] >= Rekey)
                    THEN fnow ELSE fshake[n]]
             /\ fhist' = [fhist EXCEPT
                    !.quiet = @ \cup {n \in Tunnelled : ~Answers(out[n])},
                    !.late = @ \/ fnow - fwg.at >= finterval \/ fpoll.spent > Margin - Rekey]
  BY DEF ProbeTunnels
<1>2. /\ fpoll.pc = "tunnels" /\ ffile' = ffile /\ finterval' = finterval /\ fsnap' = fsnap /\ fwg' = fwg
  BY DEF ProbeTunnels
<1>3. PICK sp : sp = IF \E n \in Tunnelled : out[n] = "no_answer" THEN Timeout ELSE 0
  OBVIOUS
<1>4. sp \in Nat /\ sp <= Timeout /\ NodeTime \in Nat /\ Timeout \in Nat /\ Rekey \in Nat /\ Margin \in Nat
  BY <1>3, FleetBounds
<1>5. PICK now, at, copy, shake, interval, file, rs, k, limit, h :
         /\ now = fnow /\ at = fwg.at /\ copy = fwg.shake /\ shake = fshake /\ interval = finterval
         /\ file = fpoll.file /\ rs = fpoll.readings /\ k = fpoll.spent /\ limit = fpoll.file.maxAge
         /\ h = fhist
  OBVIOUS
<1>6. now \in Nat /\ at \in Nat /\ at <= now /\ interval \in Nat /\ copy \in Shakes /\ shake \in Shakes /\ h \in History
  BY <1>5 DEF FleetInv, FTypes
<1>7. Polling(fpoll, NodeTime)
  BY <1>2 DEF FleetInv, PollOK
<1>8. /\ rs \in [FNodes -> NodeReading] /\ file \in Files /\ FromConfig(file) /\ k \in Nat /\ k <= NodeTime
      /\ now = h.wake + k /\ h.wake \in Nat
  BY <1>5, <1>6, <1>7 DEF Polling, History
<1>9. fpoll = [pc |-> "tunnels", readings |-> rs, file |-> file, spent |-> k]
  BY <1>2, <1>5, <1>7 DEF Polling
<1>10. limit \in Nat /\ limit = file.maxAge
  BY <1>5, <1>8, FleetAssumption
<1>11. PICK js, t : /\ js = [n \in Tunnelled |-> Judged(n, src, now, at, copy[n], limit)]
                    /\ t = [n \in Tunnelled |-> ToldOf(out[n], js[n])]
  OBVIOUS
<1>12. \A n \in Tunnelled : TunnelReadingOf(n, out[n], src, fpoll.file.maxAge) = t[n]
  <2>1. \A n \in Tunnelled : HandshakeFor(n, src, fpoll.file.maxAge) = js[n]
    <3>1. ASSUME NEW n \in Tunnelled PROVE PeerHandshake(n, fpoll.file.maxAge) = JudgedPeer(n, now, copy[n], limit)
      BY <1>5, Zenon DEF PeerHandshake, JudgedPeer
    <3> QED BY <1>5, <1>11, <3>1, Zenon DEF HandshakeFor, Judged
  <2> QED BY <1>11, <2>1 DEF TunnelReadingOf, ToldOf
<1>13. \A n \in Tunnelled : copy[n] \in Nat /\ shake[n] \in Nat
  BY <1>6 DEF Shakes
<1>s. src \in {"read"} \cup FileProblems
  BY DEF Sources, FileProblems
<1>14. ASSUME NEW n \in Tunnelled
       PROVE  t[n] \in TunnelReading /\ t[n].handshake \in {Judged(n, src, now, at, copy[n], limit), "unknown"}
  <2>1. js[n] \in {"ok"} \cup FileProblems \cup PeerProblems
    BY <1>6, <1>10, <1>11, <1>13, <1>s, JudgedTyped
  <2>2. ToldOf(out[n], js[n]) \in TunnelReading /\ ToldOf(out[n], js[n]).handshake \in {js[n], "unknown"}
    BY <2>1, ToldTyped
  <2> QED BY <1>11, <2>2
<1>15. PICK qs : qs = [n \in FNodes |-> IF n \in Tunnelled THEN WithTunnel(rs[n], t[n]) ELSE rs[n]]
  OBVIOUS
<1>16. qs \in [FNodes -> NodeReading] /\ \A n \in Tunnelled : qs[n].tunnel = t[n]
  <2>1. Probed(qs, rs, t)
    BY <1>15 DEF Probed
  <2>2. t \in [Tunnelled -> TunnelReading]
    BY <1>11, <1>14
  <2> QED BY <1>8, <2>1, <2>2, ProbedReadings
<1>17. qs = [n \in FNodes |->
                IF n \in Tunnelled
                THEN [fpoll.readings[n] EXCEPT !.tunnel = TunnelReadingOf(n, out[n], src, fpoll.file.maxAge)]
                ELSE fpoll.readings[n]]
  BY <1>5, <1>12, <1>15 DEF WithTunnel
<1>18. fpoll' = [fpoll EXCEPT !.pc = "publish", !.spent = @ + sp, !.readings = qs]
  BY <1>1, <1>3, <1>17
<1>19. fpoll' = [pc |-> "publish", readings |-> qs, file |-> file, spent |-> k + sp]
  BY <1>9, <1>18
<1>20. /\ fpoll'.pc = "publish" /\ fpoll'.readings = qs /\ fpoll'.file = file /\ fpoll'.spent = k + sp
  BY <1>19
<1>21. fnow' = now + sp
  BY <1>1, <1>3, <1>5
<1>22. PICK late, quiet : /\ late = (h.late \/ now - at >= interval \/ k > Margin - Rekey)
                          /\ quiet = h.quiet \cup {n \in Tunnelled : ~Answers(out[n])}
  OBVIOUS
<1>23. fhist' = [wake |-> h.wake, skipped |-> h.skipped, quiet |-> quiet, late |-> late]
  <2>1. fhist' = [h EXCEPT !.quiet = quiet, !.late = late]
    BY <1>1, <1>5, <1>22
  <2> QED BY <1>6, <2>1 DEF History
<1>24. fhist' \in History
  <2>1. quiet \in SUBSET Tunnelled /\ late \in BOOLEAN
    BY <1>6, <1>22 DEF History
  <2> QED BY <1>6, <1>23, <2>1 DEF History
<1>25. /\ fhist'.wake = h.wake /\ fhist'.skipped = h.skipped /\ fhist'.quiet = quiet /\ fhist'.late = late
  BY <1>23
<1>26. PICK shake2 : shake2 = [n \in Tunnelled |-> IF Answers(out[n]) /\ (shake[n] < 0 \/ now - shake[n] >= Rekey)
                                                  THEN now ELSE shake[n]]
  OBVIOUS
<1>27. fshake' = shake2
  BY <1>1, <1>5, <1>26
<1>28. ASSUME NEW n \in Tunnelled
       PROVE  shake2[n] \in Nat /\ (Answers(out[n]) => now <= shake2[n] + Rekey)
  BY <1>4, <1>6, <1>13, <1>26
<1>29. FTypes'
  <2>1. fshake' \in Shakes
    BY <1>26, <1>27, <1>28 DEF Shakes
  <2>2. now + sp \in Nat /\ at <= now + sp
    BY <1>4, <1>6
  <2> QED BY <1>2, <1>5, <1>21, <1>24, <2>1, <2>2 DEF FleetInv, FTypes
<1>30. PollOK'
  <2>1. k + sp \in Nat /\ k + sp <= NodeTime + Timeout /\ now + sp = h.wake + (k + sp)
    BY <1>4, <1>6, <1>8
  <2>2. Polling(fpoll, NodeTime + Timeout)'
    BY <1>8, <1>16, <1>19, <1>20, <1>21, <1>25, <2>1 DEF Polling
  <2> QED BY <1>20, <2>2 DEF PollOK
<1>31. SnapOK'
  BY <1>2, <1>5, <1>25 DEF FleetInv, SnapOK
<1>32. TunnelsOK'
  <2>1. ASSUME NEW n \in Tunnelled \ quiet, ~h.skipped PROVE now + sp <= shake2[n] + Rekey + Timeout
    <3>1. Answers(out[n])
      BY <1>22
    <3> QED BY <1>4, <1>6, <1>28, <3>1
  <2> QED BY <1>20, <1>21, <1>25, <1>27, <2>1 DEF TunnelsOK
<1>33. FHealthyTunnelIsQuiet'
  <2>1. ASSUME NEW n \in Tunnelled \ quiet, ~late, ~h.skipped, file.interval = interval
        PROVE  qs[n].tunnel.handshake \notin {"old", "never"}
    <3>1. n \notin h.quiet /\ ~(now - at >= interval) /\ ~(k > Margin - Rekey)
      BY <1>22, <2>1
    <3>2. h.wake <= shake[n] + Rekey + Timeout + interval /\ (at > h.wake - interval => copy[n] = shake[n])
      BY <1>2, <1>5, <2>1, <3>1 DEF FleetInv, TunnelsOK
    <3>3. now - copy[n] <= interval + Timeout + Margin
      <4>1. PICK w, a, b : w = h.wake /\ a = shake[n] /\ b = copy[n]
        OBVIOUS
      <4>2. w \in Nat /\ a \in Nat /\ b \in Nat /\ now = w + k /\ w <= a + Rekey + Timeout + interval
            /\ (at > w - interval => b = a)
        BY <1>8, <1>13, <3>2, <4>1
      <4>3. at > w - interval
        BY <1>6, <1>8, <3>1, <4>2
      <4>4. now - b <= interval + Timeout + Margin
        BY <1>4, <1>6, <1>8, <3>1, <4>2, <4>3
      <4> QED BY <4>1, <4>4
    <3>4. interval + Timeout + Margin <= limit
      <4>1. file.maxAge >= file.interval + Timeout + Margin
        BY <1>8 DEF FromConfig, LimitAccepted
      <4> QED BY <1>4, <1>6, <1>10, <2>1, <4>1
    <3>5. now - copy[n] <= limit /\ copy[n] \in Nat
      BY <1>4, <1>6, <1>10, <1>13, <3>3, <3>4
    <3>6. Judged(n, src, now, at, copy[n], limit) \notin {"old", "never"}
      BY <1>6, <1>10, <1>s, <3>5, JudgedTyped
    <3> QED BY <1>14, <1>16, <3>6
  <2> QED BY <1>2, <1>5, <1>20, <1>25, <2>1 DEF FHealthyTunnelIsQuiet
<1> QED BY <1>29, <1>30, <1>31, <1>32, <1>33 DEF FleetInv

\* Every step of the monitor, its files and its tunnels preserves the invariant.
LEMMA FleetNextOK == FleetInv /\ [FNext]_fvars => FleetInv'
<1> SUFFICES ASSUME FleetInv, [FNext]_fvars PROVE FleetInv'
  OBVIOUS
<1>1. CASE Sleep
  BY <1>1, FleetSleepOK
<1>2. CASE SkipPoll
  BY <1>2, FleetSkipOK
<1>3. CASE PollFleet
  BY <1>3, FleetPollOK
<1>4. CASE ProbeTunnels
  BY <1>4, FleetProbeOK
<1>5. CASE Publish
  BY <1>5, FleetPublishOK
<1>6. CASE EditFile
  BY <1>6, FleetEditOK
<1>7. CASE Collect
  BY <1>7, FleetCollectOK
<1>8. CASE UNCHANGED fvars
  BY <1>8 DEF fvars, FleetInv, FTypes, PollOK, Polling, SnapOK, TunnelsOK, FHealthyTunnelIsQuiet
<1> QED BY <1>1, <1>2, <1>3, <1>4, <1>5, <1>6, <1>7, <1>8 DEF FNext

\* The invariant gives each promise of the contract.
LEMMA FleetInvImplies == FleetInv => FContract
<1> SUFFICES ASSUME FleetInv PROVE FContract
  OBVIOUS
<1>1. fnow \in Nat /\ finterval \in Nat /\ fhist.wake \in Nat
  BY DEF FleetInv, FTypes, History
<1>2. NodeTime \in Nat /\ Timeout \in Nat /\ (4 + HeaderChecks) * Timeout = NodeTime + Timeout
  BY FleetBounds
<1>3. fpoll.pc = "publish" => fpoll.readings \in [FNodes -> NodeReading]
  BY DEF FleetInv, PollOK, Polling
<1>4. fnow <= fhist.wake + NodeTime + Timeout
  <2>1. CASE fpoll.pc = "sleep" /\ fnow <= fhist.wake
    BY <1>1, <1>2, <2>1
  <2>2. CASE Polling(fpoll, NodeTime)
    BY <1>1, <1>2, <2>2 DEF Polling
  <2>3. CASE Polling(fpoll, NodeTime + Timeout)
    BY <1>1, <1>2, <2>3 DEF Polling
  <2> QED BY <2>1, <2>2, <2>3 DEF FleetInv, PollOK
<1>5. FAllClearIsEarned
  <2>1. ASSUME fpoll.pc = "publish", SaysAllClear(fpoll.readings, DigestBuild(fpoll.readings))
        PROVE  Earned(fpoll.readings)
    BY <1>3, <2>1, ClearIsEarned
  <2> QED BY <2>1 DEF FAllClearIsEarned, Earned
<1>6. FNewestCertificateIsRight
  <2>1. fpoll.pc = "publish" => NewestCert(fpoll.readings)
    BY <1>3, NewestIsRight
  <2> QED BY <2>1 DEF FNewestCertificateIsRight, NewestCert, LongestLasting
<1>7. FReadingIsRecent
  <2>1. ASSUME fsnap # NoSnap, ~fhist.skipped PROVE fnow - fsnap.at <= finterval + (4 + HeaderChecks) * Timeout
    <3>1. fsnap.at \in Nat /\ fhist.wake = fsnap.at + finterval
      BY <2>1 DEF FleetInv, SnapOK
    <3> QED BY <1>1, <1>2, <1>4, <3>1
  <2> QED BY <2>1 DEF FReadingIsRecent
<1>8. FStaleMeansFailing
  <2>1. CASE fsnap = NoSnap
    BY <2>1 DEF FStaleMeansFailing, CheckText
  <2>2. CASE fsnap # NoSnap
    <3>1. ASSUME ~fhist.skipped, (4 + HeaderChecks) * Timeout <= 2 * finterval PROVE ~Stale(fnow - fsnap.at)
      <4>1. fsnap.at \in Nat /\ fhist.wake = fsnap.at + finterval
        BY <2>2, <3>1 DEF FleetInv, SnapOK
      <4>2. fnow - fsnap.at <= 3 * finterval
        BY <1>1, <1>2, <1>4, <3>1, <4>1
      <4> QED BY <1>1, <4>1, <4>2 DEF Stale
    <3>2. CheckText.stale = Stale(fnow - fsnap.at)
      BY <2>2 DEF CheckText
    <3> QED BY <3>1, <3>2 DEF FStaleMeansFailing
  <2> QED BY <2>1, <2>2
<1> QED BY <1>5, <1>6, <1>7, <1>8 DEF FContract, FleetInv

\* FContract, for every fleet, interval and limit: an all-clear is said only of readings with no
\* fault in them, the node behind on its certificate is the one with less than the newest, a
\* reading is at most an interval and a poll old while polls run, a stale snapshot means polls
\* that do not happen, and a tunnel that answers is never reported as old when its file is fresh
\* and the limit passed the check in the file (m6-monitor main.rs, digest.rs, config.rs).
THEOREM MonitorVerdictsAreEarned == FSpec => []FContract
<1>1. FInit => FleetInv
  BY FleetInitOK
<1>2. FleetInv /\ [FNext]_fvars => FleetInv'
  BY FleetNextOK
<1>3. FleetInv => FContract
  BY FleetInvImplies
<1> QED BY <1>1, <1>2, <1>3, PTL DEF FSpec

-----------------------------------------------------------------------------

-----------------------------------------------------------------------------
(* MonitorHistory.  A window is stored only when its whole length has passed *)
(* since the last one the store remembers, which is the last one stored; an  *)
(* id outlives no sighting of its agent; a cursor has what was read on one   *)
(* side and what was not on the other.                                       *)

\* The agent table.
Agent == [id : Nat \ {0}, name : Agents]

\* An id is one agent's.
AgentsOK(agents) ==
    /\ agents \in SUBSET Agent /\ IsFiniteSet(agents)
    /\ \A a, c \in agents : a.id = c.id => a = c

\* What is cached is in the table.
CachedOK(cache, agents) ==
    /\ cache \in [Agents -> Int]
    /\ \A x \in Agents : cache[x] # Absent => [id |-> cache[x], name |-> x] \in agents

InternOK(st) == AgentsOK(st.agents) /\ CachedOK(st.cache, st.agents)

Interners == {st \in [cache : [Agents -> Int], agents : SUBSET Agent] : InternOK(st)}

\* A new id is above every id in use.
LEMMA NextAgentIsNew ==
  ASSUME NEW agents, AgentsOK(agents)
  PROVE  NextAgent(agents) \in Nat \ {0} /\ \A a \in agents : a.id < NextAgent(agents)
<1>1. PICK f : f = [a \in agents |-> a.id]
  OBVIOUS
<1>2. PICK S : S = {a.id : a \in agents} \cup {0}
  OBVIOUS
<1>3. {f[a] : a \in agents} = {a.id : a \in agents}
  BY <1>1
<1>4. IsFiniteSet(S)
  <2>1. PICK Y : Y = {f[a] : a \in agents}
    OBVIOUS
  <2>2. IsFiniteSet(agents)
    BY DEF AgentsOK
  <2>3. IsFiniteSet({f[a] : a \in agents})
    BY <2>2, ImageIsFinite
  <2>4. IsFiniteSet(Y \cup {0})
    BY <2>1, <2>3, FS_AddElement
  <2> QED BY <1>2, <1>3, <2>1, <2>4
<1>5. S \in SUBSET Nat /\ S # {}
  BY <1>2 DEF AgentsOK, Agent
<1>6. PICK m \in S : m = Max(S) /\ \A x \in S : x <= m
  <2>1. S \in SUBSET Int
    BY <1>5
  <2>2. Max(S) \in S /\ \A x \in S : x <= Max(S)
    BY <1>4, <1>5, <2>1, MaxIn
  <2> QED BY <2>2
<1>7. NextAgent(agents) = m + 1
  BY <1>2, <1>6 DEF NextAgent
<1>8. \A a \in agents : a.id \in S
  BY <1>2
<1>9. m \in Nat /\ m + 1 \in Nat \ {0}
  BY <1>5
<1>10. ASSUME NEW a \in agents PROVE a.id < m + 1
  <2>1. a.id \in Nat /\ a.id <= m
    BY <1>5, <1>6, <1>8
  <2> QED BY <2>1, <1>9
<1> QED BY <1>7, <1>9, <1>10

\* The id a row gives a name is that row's.
LEMMA AgentRowIsThere ==
  ASSUME NEW agents, AgentsOK(agents), NEW name, RowOf(agents, name) # {}
  PROVE  [id |-> Max(RowOf(agents, name)), name |-> name] \in agents
<1>1. PICK X : X = {x \in agents : x.name = name}
  OBVIOUS
<1>2. PICK f : f = [a \in X |-> a.id]
  OBVIOUS
<1>3. {f[a] : a \in X} = RowOf(agents, name)
  BY <1>1, <1>2 DEF RowOf
<1>4. IsFiniteSet(X)
  BY <1>1, FS_Subset DEF AgentsOK
<1>5. IsFiniteSet(RowOf(agents, name))
  BY <1>3, <1>4, ImageIsFinite
<1>6. RowOf(agents, name) \in SUBSET Nat
  BY DEF RowOf, AgentsOK, Agent
<1>7. Max(RowOf(agents, name)) \in RowOf(agents, name)
  BY <1>5, <1>6, MaxIn
<1>8. PICK a \in agents : a.name = name /\ a.id = Max(RowOf(agents, name))
  BY <1>7 DEF RowOf
<1>9. a = [id |-> a.id, name |-> a.name]
  BY DEF AgentsOK, Agent
<1> QED BY <1>8, <1>9

\* Interning one name keeps the table and the cache sound, and gives the name an id.
LEMMA InternStep ==
  ASSUME NEW st \in Interners, NEW name \in Agents
  PROVE  /\ Intern(st, name) \in Interners
         /\ st.agents \subseteq Intern(st, name).agents
         /\ \A x \in Agents : (x = name \/ st.cache[x] # Absent) => Intern(st, name).cache[x] # Absent
<1>1. CASE st.cache[name] # Absent
  BY <1>1 DEF Intern
<1>2. CASE st.cache[name] = Absent
  <2>1. PICK cache, agents : st = [cache |-> cache, agents |-> agents]
    BY DEF Interners
  <2>2. st.cache = cache /\ st.agents = agents /\ AgentsOK(agents) /\ CachedOK(cache, agents)
    BY <2>1 DEF Interners, InternOK
  <2>3. PICK id : id = IF RowOf(agents, name) # {} THEN Max(RowOf(agents, name)) ELSE NextAgent(agents)
    OBVIOUS
  <2>4. PICK row : row = [id |-> id, name |-> name]
    OBVIOUS
  <2>5. row.id = id /\ row.name = name
    BY <2>4
  <2>6. row \in Agent /\ (row \in agents \/ \A a \in agents : a.id < id)
    <3>1. CASE RowOf(agents, name) # {}
      BY <2>2, <2>3, <2>4, <3>1, AgentRowIsThere DEF AgentsOK
    <3>2. CASE RowOf(agents, name) = {}
      BY <2>2, <2>3, <2>4, <3>2, NextAgentIsNew DEF Agent
    <3> QED BY <3>1, <3>2
  <2>7. id \in Nat \ {0} /\ id # Absent /\ id \in Int
    BY <2>6, <2>5 DEF Agent, Absent
  <2>8. PICK ags : ags = agents \cup {row}
    OBVIOUS
  <2>9. AgentsOK(ags)
    <3>1. IsFiniteSet(ags)
      BY <2>2, <2>8, FS_AddElement DEF AgentsOK
    <3>2. ags \in SUBSET Agent
      BY <2>2, <2>6, <2>8 DEF AgentsOK
    <3>3. \A a \in ags : a.id \in Nat
      BY <3>2 DEF Agent
    <3>4. \A a, c \in ags : a.id = c.id => a = c
      BY <2>2, <2>5, <2>6, <2>7, <2>8, <3>3 DEF AgentsOK
    <3> QED BY <3>1, <3>2, <3>4 DEF AgentsOK
  <2>10. PICK ca : ca = [cache EXCEPT ![name] = id]
    OBVIOUS
  <2>11. ca \in [Agents -> Int] /\ ca[name] = id /\ \A x \in Agents : x # name => ca[x] = cache[x]
    BY <2>2, <2>7, <2>10 DEF CachedOK
  <2>12. CachedOK(ca, ags)
    BY <2>2, <2>4, <2>8, <2>11 DEF CachedOK
  <2>13. PICK new : new = [cache |-> ca, agents |-> ags]
    OBVIOUS
  <2>14. Intern(st, name) = new
    BY <1>2, <2>2, <2>3, <2>4, <2>8, <2>10, <2>13 DEF Intern
  <2>15. new.cache = ca /\ new.agents = ags /\ new \in [cache : [Agents -> Int], agents : SUBSET Agent]
    BY <2>9, <2>11, <2>13 DEF AgentsOK
  <2>16. new \in Interners
    BY <2>9, <2>12, <2>15 DEF Interners, InternOK
  <2> QED BY <2>2, <2>7, <2>8, <2>11, <2>14, <2>15, <2>16
<1> QED BY <1>1, <1>2

\* What the loop of InternAll chooses, for names in the order s.
Interning(g, st, s) ==
    g = [t \in SUBSET DOMAIN s |->
            IF t = {} THEN st ELSE Intern(g[t \ {Max(t)}], s[Max(t)])]

\* InternAll is what that function gives for all the names.
LEMMA InternUnfold ==
  \A st, names : InternAll(st, names)
     = (CHOOSE g : Interning(g, st, SetToSeq(names)))[DOMAIN SetToSeq(names)]
BY DEF InternAll, FoldLeft, MapThenFoldSet, Interning

\* A name is known once its place in the list is behind the loop.
KnownUpTo(st, s, i) == \A j \in 1..i : st.cache[s[j]] # Absent

\* Interning a set of names: sound as before, nothing lost, every name known.
LEMMA InternAllOK ==
  ASSUME NEW st \in Interners, NEW names \in SUBSET Agents
  PROVE  /\ InternAll(st, names) \in Interners
         /\ st.agents \subseteq InternAll(st, names).agents
         /\ \A x \in names : InternAll(st, names).cache[x] # Absent
<1>1. IsFiniteSet(names)
  BY HistoryAssumption, FS_Subset
<1>2. PICK n \in Nat : \E s \in [1..n -> names] : SetToSeq(names) = s /\ \A x \in names : \E i \in 1..n : s[i] = x
  BY <1>1, SetToSeqLists
<1>3. PICK s \in [1..n -> names] : SetToSeq(names) = s /\ \A x \in names : \E i \in 1..n : s[i] = x
  BY <1>2
<1>4. PICK A : A = Interners
  OBVIOUS
<1>5. st \in A /\ \A a \in A : \A x \in names : Intern(a, x) \in A
  BY <1>4, InternStep
<1> DEFINE G == [i \in 1..n |-> [a \in A |-> Intern(a, s[i])]]
<1>6. G \in [1..n -> [A -> A]]
  BY <1>5
<1>7. PICK h \in [SUBSET (1..n) -> A] : Folding(h, n, st, G)
  <2> HIDE DEF G
  <2> QED BY <1>5, <1>6, FoldExists
<1>8. ASSUME NEW t \in SUBSET (1..n), t # {}
      PROVE  G[Max(t)][h[t \ {Max(t)}]] = Intern(h[t \ {Max(t)}], s[Max(t)])
  BY <1>8, <1>7, MaxOfIndices
<1>9. PICK g : Interning(g, st, s) /\ InternAll(st, names) = g[1..n]
  <2>1. Interning(h, st, s)
    <3> HIDE DEF G
    <3> QED BY <1>7, <1>8 DEF Interning, Folding
  <2> QED BY <1>3, <2>1, InternUnfold
<1>10. g[1..0] = st
  <2>1. 1..0 = {} /\ {} \in SUBSET (1..n)
    OBVIOUS
  <2> QED BY <2>1, <1>9 DEF Interning
<1>11. ASSUME NEW i \in 1..n PROVE g[1..i] = Intern(g[1..(i - 1)], s[i])
  <2>1. 1..i \in SUBSET (1..n) /\ 1..i # {} /\ Max(1..i) = i /\ (1..i) \ {Max(1..i)} = 1..(i - 1)
    BY PrefixRun
  <2> QED BY <2>1, <1>9 DEF Interning
<1> DEFINE T == {i \in 0..n : /\ g[1..i] \in Interners
                              /\ st.agents \subseteq g[1..i].agents
                              /\ KnownUpTo(g[1..i], s, i)}
<1>12. 0 \in T
  BY <1>10 DEF KnownUpTo
<1>13. ASSUME NEW i \in 1..n, i - 1 \in T PROVE i \in T
  <2>1. PICK o : o = g[1..(i - 1)]
    OBVIOUS
  <2>2. PICK x \in Agents : x = s[i]
    OBVIOUS
  <2>3. PICK p : p = Intern(o, x) /\ p = g[1..i]
    BY <1>11, <2>1, <2>2
  <2>4. o \in Interners /\ st.agents \subseteq o.agents /\ KnownUpTo(o, s, i - 1)
    BY <1>13, <2>1
  <2>5. /\ p \in Interners /\ o.agents \subseteq p.agents
        /\ \A y \in Agents : (y = x \/ o.cache[y] # Absent) => p.cache[y] # Absent
    <3>1. /\ Intern(o, x) \in Interners
          /\ o.agents \subseteq Intern(o, x).agents
          /\ \A y \in Agents : (y = x \/ o.cache[y] # Absent) => Intern(o, x).cache[y] # Absent
      BY <2>4, InternStep
    <3> QED BY <2>3, <3>1
  <2>6. KnownUpTo(p, s, i)
    <3>1. \A j \in 1..i : s[j] \in Agents /\ (j = i \/ j \in 1..(i - 1))
      OBVIOUS
    <3> QED BY <2>2, <2>4, <2>5, <3>1 DEF KnownUpTo
  <2> QED BY <2>3, <2>4, <2>5, <2>6
<1> HIDE DEF T
<1>14. \A i \in 0..n : i \in T
  BY <1>12, <1>13, IndexInduction
<1>15. n \in T
  BY <1>14
<1>16. g[1..n] \in Interners /\ st.agents \subseteq g[1..n].agents /\ KnownUpTo(g[1..n], s, n)
  BY <1>15 DEF T
<1> QED BY <1>3, <1>9, <1>16 DEF KnownUpTo

HBatches == [at : Nat, crawl : [HNodes -> {[len |-> Absent, seen |-> {}]} \cup [len : Windows, seen : Sightings]]]

WindowsOK(windows, next) ==
    /\ IsFiniteSet(windows) /\ next \in Nat
    /\ \A w \in windows : w.poll \in Nat /\ w.poll < next /\ w.node \in HNodes /\ w.at \in Nat /\ w.len \in Nat

Tiled(windows) ==
    \A v, w \in windows : (v.node = w.node /\ v.poll < w.poll) => v.at <= w.at - w.len

\* An open store remembers no earlier window than the last one stored.
LastOK(windows, last) ==
    /\ last \in [HNodes -> Int]
    /\ \A n \in HNodes : last[n] = Never \/ last[n] \in Nat
    /\ \A w \in windows : w.at <= last[w.node]

Named(windows, agents) ==
    \A w \in windows :
        /\ w.ids \subseteq {a.id : a \in agents}
        /\ {a.name : a \in {x \in agents : x.id \in w.ids}} = w.seen

\* A health id is given once.
RowsOK(rows, row) ==
    /\ row \in Nat
    /\ \A r \in rows : r.key \in Nat \X Nat /\ r.key[2] < row
    /\ \A r, q \in rows : r.key[2] = q.key[2] => r = q

KeysOf(rows) == {r.key : r \in rows}

\* The client has what lies before its cursor, and the rest lies at or after it.
ReadOK(keys, row, rd) ==
    /\ rd = [pc |-> rd.pc, cursor |-> rd.cursor, got |-> rd.got, twice |-> rd.twice, base |-> rd.base]
    /\ rd.cursor \in Int \X Nat /\ rd.got \in SUBSET (Nat \X Nat) /\ rd.base \in SUBSET (Nat \X Nat)
    /\ rd.twice = {}
    /\ \A k \in rd.base : k[2] < row
    /\ rd.pc = "scan" => /\ \A k \in rd.got : KeyLeq(k, rd.cursor) /\ k # rd.cursor
                         /\ \A k \in rd.base \cap keys : k \in rd.got \/ KeyLeq(rd.cursor, k)
    /\ rd.pc = "done" => rd.base \cap keys \subseteq rd.got

HInv ==
    /\ hdb = [polls |-> hdb.polls, rows |-> hdb.rows, windows |-> hdb.windows,
              agents |-> hdb.agents, next |-> hdb.next, row |-> hdb.row]
    /\ WindowsOK(hdb.windows, hdb.next) /\ Tiled(hdb.windows)
    /\ AgentsOK(hdb.agents) /\ Named(hdb.windows, hdb.agents)
    /\ RowsOK(hdb.rows, hdb.row) /\ ReadOK(KeysOf(hdb.rows), hdb.row, hread)
    /\ hstore = [open |-> hstore.open, last |-> hstore.last, cache |-> hstore.cache]
    /\ hstore.cache = [a \in Agents |-> Absent]
    /\ hstore.open => LastOK(hdb.windows, hstore.last)
    /\ hwriter = [pc |-> hwriter.pc, batch |-> hwriter.batch, keep |-> hwriter.keep,
                  pruning |-> hwriter.pruning]
    /\ hwriter.pc = "insert" => hwriter.batch \in HBatches /\ hstore.open
    /\ hq \in Seq(HBatches) /\ hnow \in Nat

\* The invariant has the three promises in it.
LEMMA HistoryInvImplies == HInv => HContract
<1> SUFFICES ASSUME HInv PROVE HContract
  OBVIOUS
<1>1. HWindowsTile
  BY DEF HInv, Tiled, HWindowsTile
<1>2. HSightingsNameTheirAgent
  BY DEF HInv, Named, HSightingsNameTheirAgent
<1>3. HPagesAreExact
  <2>1. \A r, q \in hdb.rows : r.key = q.key => r = q
    BY DEF HInv, RowsOK
  <2>2. hread.twice = {} /\ (hread.pc = "done" => hread.base \cap KeysOf(hdb.rows) \subseteq hread.got)
    BY DEF HInv, ReadOK
  <2>3. HKeys = KeysOf(hdb.rows)
    BY DEF HKeys, KeysOf
  <2> QED BY <2>1, <2>2, <2>3 DEF HPagesAreExact
<1> QED BY <1>1, <1>2, <1>3 DEF HContract

\* The last window of each node, as a file has it.
LEMMA LastWindowOK ==
  ASSUME NEW db, NEW next, WindowsOK(db.windows, next)
  PROVE  LastOK(db.windows, [n \in HNodes |-> LastWindow(db, n)])
<1>1. PICK last : last = [n \in HNodes |-> LastWindow(db, n)]
  OBVIOUS
<1>2. ASSUME NEW n \in HNodes
      PROVE  /\ last[n] = Never \/ last[n] \in Nat
             /\ \A w \in db.windows : w.node = n => w.at <= last[n]
  <2>1. PICK W : W = Stored(db, n)
    OBVIOUS
  <2>2. W \in SUBSET db.windows /\ \A w \in db.windows : w.node = n => w \in W
    BY <2>1 DEF Stored
  <2>3. IsFiniteSet(W)
    BY <2>2, FS_Subset DEF WindowsOK
  <2>4. PICK f : f = [w \in W |-> w.at]
    OBVIOUS
  <2>5. PICK S : S = {f[w] : w \in W} \cup {Never}
    OBVIOUS
  <2>6. IsFiniteSet(S)
    <3>1. IsFiniteSet({f[w] : w \in W})
      BY <2>3, ImageIsFinite
    <3>2. PICK Y : Y = {f[w] : w \in W}
      OBVIOUS
    <3> QED BY <2>5, <3>1, <3>2, FS_AddElement
  <2>7. \A w \in W : f[w] = w.at /\ w.at \in Nat /\ w.at \in S
    BY <2>2, <2>4, <2>5 DEF WindowsOK
  <2>8. S \in SUBSET Int /\ S # {} /\ \A x \in S : x = Never \/ x \in Nat
    BY <2>5, <2>7 DEF Never
  <2>9. Max(S) \in S /\ \A x \in S : x <= Max(S)
    BY <2>6, <2>8, MaxIn
  <2>10. {f[w] : w \in W} = {w.at : w \in W}
    BY <2>4
  <2>11. last[n] = Max(S)
    BY <1>1, <2>1, <2>5, <2>10 DEF LastWindow
  <2>12. \A w \in db.windows : w.node = n => w.at \in S
    BY <2>2, <2>7
  <2> QED BY <2>8, <2>9, <2>11, <2>12
<1>3. last \in [HNodes -> Int]
  BY <1>1, <1>2 DEF Never
<1>4. \A w \in db.windows : w.node \in HNodes
  BY DEF WindowsOK
<1>5. LastOK(db.windows, last)
  BY <1>2, <1>3, <1>4 DEF LastOK
<1> QED BY <1>1, <1>5

\* A store just opened is sound.
LEMMA OpenStoreOK ==
  ASSUME NEW db, NEW next, WindowsOK(db.windows, next)
  PROVE  /\ OpenStore(db).open = TRUE /\ OpenStore(db).cache = [a \in Agents |-> Absent]
         /\ LastOK(db.windows, OpenStore(db).last)
         /\ OpenStore(db) = [open |-> OpenStore(db).open, last |-> OpenStore(db).last, cache |-> OpenStore(db).cache]
<1>1. PICK la, ca : la = [n \in HNodes |-> LastWindow(db, n)] /\ ca = [a \in Agents |-> Absent]
  OBVIOUS
<1>2. PICK st : st = [open |-> TRUE, last |-> la, cache |-> ca]
  OBVIOUS
<1>3. OpenStore(db) = st
  BY <1>1, <1>2 DEF OpenStore
<1>4. LastOK(db.windows, la)
  BY <1>1, LastWindowOK
<1> QED BY <1>1, <1>2, <1>3, <1>4

\* The nodes whose window is stored, D: each is a whole window after the last one of its node.
DueOK(D, crawl, at, last) ==
    /\ D \in SUBSET HNodes
    /\ \A n \in D : /\ crawl[n].len \in Nat /\ crawl[n].seen \in SUBSET Agents
                    /\ last[n] = Never \/ at - last[n] >= crawl[n].len

NewWindow(n, crawl, at, next, cache) ==
    [poll |-> next, node |-> n, at |-> at, len |-> crawl[n].len, seen |-> crawl[n].seen,
     ids |-> {cache[a] : a \in crawl[n].seen}]

\* What is read off a new window.
LEMMA NewWindowIs ==
  \A n, crawl, at, next, cache :
    LET w == NewWindow(n, crawl, at, next, cache)
    IN  /\ w.poll = next /\ w.node = n /\ w.at = at /\ w.len = crawl[n].len /\ w.seen = crawl[n].seen
        /\ w.ids = {cache[a] : a \in crawl[n].seen}
BY DEF NewWindow

\* The windows with the new ones among them, and what the store remembers then.
Added(all, f, windows, D, crawl, at, next, cache) ==
    /\ f = [n \in D |-> NewWindow(n, crawl, at, next, cache)]
    /\ all = windows \cup {f[n] : n \in D}
Moved(la, last, D, at) == la = [n \in HNodes |-> IF n \in D THEN at ELSE last[n]]
Cached(D, crawl, cache) == \A n \in D : \A x \in crawl[n].seen : cache[x] # Absent

\* A new window follows the windows of its node.
LEMMA NewWindowsTile ==
  ASSUME NEW windows, NEW next, WindowsOK(windows, next), Tiled(windows),
         NEW last, LastOK(windows, last), NEW at \in Nat, NEW D, NEW crawl, DueOK(D, crawl, at, last),
         NEW cache, NEW f, NEW all, Added(all, f, windows, D, crawl, at, next, cache),
         NEW la, Moved(la, last, D, at)
  PROVE  WindowsOK(all, next + 1) /\ Tiled(all) /\ LastOK(all, la)
<1>0. /\ f = [n \in D |-> NewWindow(n, crawl, at, next, cache)] /\ all = windows \cup {f[n] : n \in D}
      /\ la = [n \in HNodes |-> IF n \in D THEN at ELSE last[n]]
  BY DEF Added, Moved
<1>1. next \in Nat /\ IsFiniteSet(windows)
  BY DEF WindowsOK
<1>2. \A w \in windows : w.poll \in Nat /\ w.poll < next /\ w.node \in HNodes /\ w.at \in Nat /\ w.len \in Nat
  BY DEF WindowsOK
<1>3. PICK new : new = {f[n] : n \in D} /\ all = windows \cup new
  BY <1>0
<1>4. ASSUME NEW w \in new
      PROVE  \E n \in D : w.poll = next /\ w.node = n /\ w.at = at /\ w.len = crawl[n].len
  <2>1. PICK n \in D : w = NewWindow(n, crawl, at, next, cache)
    BY <1>0, <1>3, <1>4
  <2> QED BY <2>1, NewWindowIs
<1>5. \A w \in new : /\ w.poll = next /\ w.node \in D /\ w.node \in HNodes /\ w.at = at /\ w.len \in Nat
                     /\ last[w.node] = Never \/ at - last[w.node] >= w.len
  BY <1>4 DEF DueOK
<1>6. IsFiniteSet(new)
  <2>1. IsFiniteSet(D)
    BY HistoryAssumption, FS_Subset DEF DueOK
  <2> QED BY <1>3, <2>1, ImageIsFinite
<1>7. IsFiniteSet(all)
  BY <1>1, <1>3, <1>6, FS_Union
<1>8. \A w \in all : w \in windows \/ w \in new
  BY <1>3
<1>9. WindowsOK(all, next + 1)
  <2>1. next + 1 \in Nat /\ \A w \in windows : w.poll < next + 1
    BY <1>1, <1>2
  <2>2. \A w \in new : w.poll \in Nat /\ w.poll < next + 1
    BY <1>1, <1>5
  <2>3. \A w \in all : w.poll \in Nat /\ w.poll < next + 1
    BY <1>2, <1>8, <2>1, <2>2
  <2>4. \A w \in all : w.node \in HNodes /\ w.at \in Nat /\ w.len \in Nat
    BY <1>2, <1>5, <1>8
  <2> QED BY <1>7, <2>1, <2>3, <2>4 DEF WindowsOK
<1>10. \A n \in HNodes : last[n] \in Int /\ (last[n] = Never \/ last[n] \in Nat)
  BY DEF LastOK
<1>11. \A w \in windows : w.at <= last[w.node]
  BY DEF LastOK
<1>12. Tiled(all)
  <2> SUFFICES ASSUME NEW v \in all, NEW w \in all, v.node = w.node, v.poll < w.poll
               PROVE  v.at <= w.at - w.len
    BY DEF Tiled
  <2>1. CASE v \in windows /\ w \in windows
    BY <2>1 DEF Tiled
  <2>2. CASE v \in windows /\ w \in new
    <3>1. PICK l \in Int : l = last[w.node] /\ (l = Never \/ l \in Nat)
      BY <1>5, <1>10, <2>2
    <3>2. v.at \in Nat /\ v.at <= l
      BY <1>2, <1>11, <2>2, <3>1
    <3>3. l \in Nat
      BY <3>1, <3>2 DEF Never
    <3>4. w.at = at /\ w.len \in Nat /\ (l = Never \/ at - l >= w.len)
      BY <1>5, <2>2, <3>1
    <3>5. at - l >= w.len
      BY <3>3, <3>4 DEF Never
    <3> QED BY <3>2, <3>3, <3>4, <3>5
  <2>3. CASE v \in new
    <3>1. v.poll = next /\ w.poll <= next
      BY <1>1, <1>2, <1>5, <1>8, <2>3
    <3>2. w.poll \in Nat
      BY <1>1, <1>2, <1>5, <1>8
    <3> QED BY <1>1, <3>1, <3>2
  <2> QED BY <1>8, <2>1, <2>2, <2>3
<1>13. LastOK(all, la)
  <2>1. la \in [HNodes -> Int] /\ \A n \in HNodes : la[n] = IF n \in D THEN at ELSE last[n]
    BY <1>0, <1>10
  <2>2. \A n \in HNodes : la[n] = Never \/ la[n] \in Nat
    BY <2>1, <1>10
  <2>3. ASSUME NEW w \in windows PROVE w.at <= la[w.node]
    <3>1. PICK l \in Int : l = last[w.node] /\ w.at <= l /\ w.at \in Nat /\ w.node \in HNodes
      BY <1>2, <1>10, <1>11
    <3>2. l \in Nat
      BY <1>10, <3>1 DEF Never
    <3>3. CASE w.node \in D
      <4>1. crawl[w.node].len \in Nat /\ at - l >= crawl[w.node].len
        BY <3>1, <3>2, <3>3 DEF DueOK, Never
      <4> QED BY <2>1, <3>1, <3>2, <3>3, <4>1
    <3>4. CASE w.node \notin D
      BY <2>1, <3>1, <3>4
    <3> QED BY <3>3, <3>4
  <2>4. ASSUME NEW w \in new PROVE w.at <= la[w.node]
    <3>1. la[w.node] = at /\ w.at = at
      BY <1>5, <2>1
    <3> QED BY <3>1
  <2>5. \A w \in all : w.at <= la[w.node]
    BY <1>8, <2>3, <2>4
  <2> QED BY <2>1, <2>2, <2>5 DEF LastOK
<1> QED BY <1>9, <1>12, <1>13

\* Its sightings name the agents it saw, and the older ones still do.
LEMMA NewWindowsAreNamed ==
  ASSUME NEW windows, NEW agents, AgentsOK(agents), Named(windows, agents),
         NEW D, NEW crawl, NEW at, NEW last, DueOK(D, crawl, at, last), NEW next,
         NEW ags, AgentsOK(ags), agents \subseteq ags, NEW cache, CachedOK(cache, ags),
         Cached(D, crawl, cache),
         NEW f, NEW all, Added(all, f, windows, D, crawl, at, next, cache)
  PROVE  Named(all, ags)
<1>0. f = [n \in D |-> NewWindow(n, crawl, at, next, cache)] /\ all = windows \cup {f[n] : n \in D}
  BY DEF Added
<1> SUFFICES ASSUME NEW w \in all
             PROVE  /\ w.ids \subseteq {a.id : a \in ags}
                    /\ {a.name : a \in {x \in ags : x.id \in w.ids}} = w.seen
  BY DEF Named
<1>1. \A a, c \in ags : a.id = c.id => a = c
  BY DEF AgentsOK
<1>2. CASE w \in windows
  <2>1. w.ids \subseteq {a.id : a \in agents} /\ {a.name : a \in {x \in agents : x.id \in w.ids}} = w.seen
    BY <1>2 DEF Named
  <2>2. {x \in agents : x.id \in w.ids} = {x \in ags : x.id \in w.ids}
    BY <1>1, <2>1
  <2> QED BY <2>1, <2>2
<1>3. CASE w \notin windows
  <2>1. PICK n \in D : w = NewWindow(n, crawl, at, next, cache)
    BY <1>0, <1>3
  <2>2. w.seen = crawl[n].seen /\ w.ids = {cache[x] : x \in w.seen}
    BY <2>1, NewWindowIs
  <2>3. w.seen \subseteq Agents /\ \A x \in w.seen : cache[x] # Absent
    BY <2>2 DEF DueOK, Cached
  <2>4. \A x \in w.seen : [id |-> cache[x], name |-> x] \in ags
    BY <2>3 DEF CachedOK
  <2>5. ASSUME NEW x \in w.seen PROVE \E a \in ags : a.id = cache[x] /\ a.name = x
    <3>1. PICK a : a = [id |-> cache[x], name |-> x]
      OBVIOUS
    <3> QED BY <2>4, <3>1
  <2>6. w.ids \subseteq {a.id : a \in ags}
    BY <2>2, <2>5
  <2>7. ASSUME NEW a \in ags, a.id \in w.ids PROVE a.name \in w.seen
    BY <1>1, <2>2, <2>5, <2>7
  <2>8. ASSUME NEW x \in w.seen PROVE \E a \in ags : a.id \in w.ids /\ a.name = x
    BY <2>2, <2>5
  <2> QED BY <2>6, <2>7, <2>8
<1> QED BY <1>2, <1>3

\* A client is not disturbed by rows that go, nor by rows it could not have seen when it began.
LEMMA ReadKept ==
  ASSUME NEW keys, NEW row \in Nat, NEW rd, ReadOK(keys, row, rd), NEW new, NEW next \in Nat,
         row <= next, rd.base \cap new \subseteq keys
  PROVE  ReadOK(new, next, rd)
<1>1. \A k \in rd.base : k[2] \in Nat /\ k[2] < row
  BY DEF ReadOK
<1>2. \A k \in rd.base : k[2] < next
  BY <1>1
<1>3. rd.base \cap new \subseteq rd.base \cap keys
  OBVIOUS
<1>4. rd.pc = "scan" => /\ \A k \in rd.got : KeyLeq(k, rd.cursor) /\ k # rd.cursor
                        /\ \A k \in rd.base \cap new : k \in rd.got \/ KeyLeq(rd.cursor, k)
  BY <1>3 DEF ReadOK
<1>5. rd.pc = "done" => rd.base \cap new \subseteq rd.got
  BY <1>3 DEF ReadOK
<1> QED BY <1>2, <1>4, <1>5 DEF ReadOK

\* The health rows of a poll take the ids after the last one given.
LEMMA NewRowsOK ==
  ASSUME NEW rows, NEW row, RowsOK(rows, row), NEW b, b.at \in Nat, NEW id,
         NEW rd, ReadOK(KeysOf(rows), row, rd),
         NEW all, all = rows \cup HealthRows(b, id, row)
  PROVE  /\ RowsOK(all, row + Cardinality(HNodes))
         /\ ReadOK(KeysOf(all), row + Cardinality(HNodes), rd)
<1>1. PICK c \in Nat : c = Cardinality(HNodes) /\ HNodes = 1..c
  BY HistoryAssumption, FS_CardinalityType
<1>2. PICK next \in Nat : next = row + c /\ row <= next /\ row \in Nat
  BY <1>1 DEF RowsOK
<1>3. PICK at \in Nat : at = b.at
  OBVIOUS
<1>4. ASSUME NEW r \in all
      PROVE  r \in rows \/ \E n \in 1..c : r = [poll |-> id, node |-> n, key |-> <<at, row + n - 1>>]
  BY <1>1, <1>3 DEF HealthRows
<1>5. ASSUME NEW r \in all
      PROVE  \/ r \in rows /\ r.key \in Nat \X Nat /\ r.key[2] < row
             \/ \E n \in 1..c : /\ r = [poll |-> id, node |-> n, key |-> <<at, row + n - 1>>]
                                /\ r.key[2] = row + n - 1 /\ r.key \in Nat \X Nat
  <2>1. CASE r \in rows
    BY <2>1 DEF RowsOK
  <2>2. CASE r \notin rows
    <3>1. PICK n \in 1..c : r = [poll |-> id, node |-> n, key |-> <<at, row + n - 1>>]
      BY <1>4, <2>2
    <3>2. r.key = <<at, row + n - 1>>
      BY <3>1
    <3>3. row + n - 1 \in Nat
      BY <1>2
    <3> QED BY <3>1, <3>2, <3>3
  <2> QED BY <2>1, <2>2
<1>6. \A r \in all : r.key \in Nat \X Nat /\ r.key[2] \in Nat /\ r.key[2] < next
  BY <1>2, <1>5
<1>7. ASSUME NEW r \in all, NEW q \in all, r.key[2] = q.key[2] PROVE r = q
  <2>1. CASE r \in rows /\ q \in rows
    BY <1>7, <2>1 DEF RowsOK
  <2>2. CASE r \in rows /\ q \notin rows
    BY <1>2, <1>5, <1>6, <1>7, <2>2 DEF RowsOK
  <2>3. CASE r \notin rows /\ q \in rows
    BY <1>2, <1>5, <1>6, <1>7, <2>3 DEF RowsOK
  <2>4. CASE r \notin rows /\ q \notin rows
    <3>1. PICK n \in 1..c : /\ r = [poll |-> id, node |-> n, key |-> <<at, row + n - 1>>]
                            /\ r.key[2] = row + n - 1
      BY <1>5, <2>4
    <3>2. PICK m \in 1..c : /\ q = [poll |-> id, node |-> m, key |-> <<at, row + m - 1>>]
                            /\ q.key[2] = row + m - 1
      BY <1>5, <2>4
    <3>3. n = m
      BY <1>2, <1>7, <3>1, <3>2
    <3> QED BY <3>1, <3>2, <3>3
  <2> QED BY <2>1, <2>2, <2>3, <2>4
<1>8. RowsOK(all, next)
  BY <1>6, <1>7 DEF RowsOK
<1>9. rd.base \cap KeysOf(all) \subseteq KeysOf(rows)
  <2> SUFFICES ASSUME NEW r \in all, r.key \in rd.base PROVE r \in rows
    BY DEF KeysOf
  <2>1. r.key[2] < row
    BY DEF ReadOK
  <2>2. ~ \E n \in 1..c : r.key[2] = row + n - 1
    BY <1>2, <2>1
  <2> QED BY <1>5, <2>2
<1>10. ReadOK(KeysOf(all), next, rd)
  BY <1>2, <1>9, ReadKept
<1> QED BY <1>1, <1>2, <1>8, <1>10

\* The order of the pages is total.
LEMMA KeyOrder ==
  /\ \A k, l \in Int \X Nat : KeyLeq(k, l) \/ (KeyLeq(l, k) /\ l # k)
  /\ \A k, l, m \in Int \X Nat : (KeyLeq(k, l) /\ KeyLeq(l, m)) => KeyLeq(k, m)
  /\ \A k, l \in Int \X Nat : (KeyLeq(k, l) /\ KeyLeq(l, k)) => k = l
<1>1. \A k \in Int \X Nat : k = <<k[1], k[2]>> /\ k[1] \in Int /\ k[2] \in Nat
  OBVIOUS
<1>2. ASSUME NEW k \in Int \X Nat, NEW l \in Int \X Nat PROVE KeyLeq(k, l) \/ (KeyLeq(l, k) /\ l # k)
  BY <1>1 DEF KeyLeq
<1>3. ASSUME NEW k \in Int \X Nat, NEW l \in Int \X Nat, NEW m \in Int \X Nat, KeyLeq(k, l), KeyLeq(l, m)
      PROVE  KeyLeq(k, m)
  BY <1>1, <1>3 DEF KeyLeq
<1>4. ASSUME NEW k \in Int \X Nat, NEW l \in Int \X Nat, KeyLeq(k, l), KeyLeq(l, k) PROVE k = l
  BY <1>1, <1>4 DEF KeyLeq
<1> QED BY <1>2, <1>3, <1>4

\* One page: nothing again, and nothing that is behind the new cursor is missing.
LEMMA PageOK ==
  ASSUME NEW keys \in SUBSET (Nat \X Nat), NEW row, NEW rd, ReadOK(keys, row, rd), rd.pc = "scan",
         NEW rows, rows = RowsFrom(keys, rd.cursor), NEW page, NEW new,
         \/ /\ page = rows
            /\ new = [pc |-> "done", cursor |-> rd.cursor, got |-> rd.got \cup page,
                      twice |-> rd.twice \cup (rd.got \cap page), base |-> rd.base]
         \/ \E next \in rows :
              /\ page = Before(rows, next)
              /\ new = [pc |-> "scan", cursor |-> next, got |-> rd.got \cup page,
                        twice |-> rd.twice \cup (rd.got \cap page), base |-> rd.base]
  PROVE  ReadOK(keys, row, new)
<1>1. PICK cur, got, base : rd.cursor = cur /\ rd.got = got /\ rd.base = base /\ rd.twice = {}
  BY DEF ReadOK
<1>2. cur \in Int \X Nat /\ got \in SUBSET (Nat \X Nat) /\ base \in SUBSET (Nat \X Nat) /\ \A k \in base : k[2] < row
  BY <1>1 DEF ReadOK
<1>3. \A k \in got : KeyLeq(k, cur) /\ k # cur
  BY <1>1 DEF ReadOK
<1>4. \A k \in base \cap keys : k \in got \/ KeyLeq(cur, k)
  BY <1>1 DEF ReadOK
<1>5. rows = {k \in keys : KeyLeq(cur, k)}
  BY <1>1 DEF RowsFrom
<1>6. Nat \X Nat \subseteq Int \X Nat
  OBVIOUS
<1>7. keys \subseteq Int \X Nat /\ got \subseteq Int \X Nat /\ rows \subseteq Int \X Nat
  BY <1>2, <1>5, <1>6
<1>8. got \cap rows = {}
  BY <1>2, <1>3, <1>5, <1>7, KeyOrder
<1>9. CASE /\ page = rows
           /\ new = [pc |-> "done", cursor |-> rd.cursor, got |-> rd.got \cup page,
                     twice |-> rd.twice \cup (rd.got \cap page), base |-> rd.base]
  <2>1. PICK g : g = got \cup rows
    OBVIOUS
  <2>2. new = [pc |-> "done", cursor |-> cur, got |-> g, twice |-> {}, base |-> base]
    BY <1>1, <1>8, <1>9, <2>1
  <2>3. new.pc = "done" /\ new.cursor = cur /\ new.got = g /\ new.twice = {} /\ new.base = base
    BY <2>2
  <2>4. g \in SUBSET (Nat \X Nat)
    BY <1>2, <1>5, <2>1
  <2>5. base \cap keys \subseteq g
    BY <1>4, <1>5, <2>1
  <2> QED BY <1>2, <2>2, <2>3, <2>4, <2>5 DEF ReadOK
<1>10. CASE \E next \in rows :
              /\ page = Before(rows, next)
              /\ new = [pc |-> "scan", cursor |-> next, got |-> rd.got \cup page,
                        twice |-> rd.twice \cup (rd.got \cap page), base |-> rd.base]
  <2>1. PICK next \in rows :
              /\ page = Before(rows, next)
              /\ new = [pc |-> "scan", cursor |-> next, got |-> rd.got \cup page,
                        twice |-> rd.twice \cup (rd.got \cap page), base |-> rd.base]
    BY <1>10
  <2>2. page = {k \in rows : KeyLeq(k, next) /\ k # next}
    BY <2>1 DEF Before
  <2>3. PICK g : g = got \cup page
    OBVIOUS
  <2>4. got \cap page = {}
    BY <1>8, <2>2
  <2>5. new = [pc |-> "scan", cursor |-> next, got |-> g, twice |-> {}, base |-> base]
    BY <1>1, <2>1, <2>3, <2>4
  <2>6. new.pc = "scan" /\ new.cursor = next /\ new.got = g /\ new.twice = {} /\ new.base = base
    BY <2>5
  <2>7. g \in SUBSET (Nat \X Nat) /\ next \in Int \X Nat /\ KeyLeq(cur, next)
    BY <1>2, <1>5, <1>7, <2>2, <2>3
  <2>8. \A k \in g : KeyLeq(k, next) /\ k # next
    <3>1. ASSUME NEW k \in got PROVE KeyLeq(k, next) /\ k # next
      <4>1. k \in Int \X Nat /\ KeyLeq(k, cur) /\ k # cur
        BY <1>3, <1>7
      <4>2. KeyLeq(k, next)
        BY <1>2, <2>7, <4>1, KeyOrder
      <4>3. k # next
        BY <1>2, <2>7, <4>1, KeyOrder
      <4> QED BY <4>2, <4>3
    <3> QED BY <2>2, <2>3, <3>1
  <2>9. \A k \in base \cap keys : k \in g \/ KeyLeq(next, k)
    <3> SUFFICES ASSUME NEW k \in base \cap keys, k \notin got PROVE k \in page \/ KeyLeq(next, k)
      BY <2>3
    <3>1. k \in rows /\ k \in Int \X Nat
      BY <1>4, <1>5, <1>7
    <3>2. KeyLeq(next, k) \/ (KeyLeq(k, next) /\ k # next)
      BY <2>7, <3>1, KeyOrder
    <3> QED BY <2>2, <3>1, <3>2
  <2> QED BY <1>2, <2>5, <2>6, <2>7, <2>8, <2>9 DEF ReadOK
<1> QED BY <1>9, <1>10

\* The first cursor is before every row.
LEMMA FirstCursor == <<Never, 0>> \in Int \X Nat
<1>1. Never \in Int
  BY DEF Never
<1> QED BY <1>1

\* A monitor starts with an empty file, or a new one.
LEMMA HistoryInitOK == HInit => HInv
<1> SUFFICES ASSUME HInit PROVE HInv
  OBVIOUS
<1>1. PICK db : db = hdb /\ db = [polls |-> {}, rows |-> {}, windows |-> {}, agents |-> {}, next |-> 1, row |-> 1]
  BY DEF HInit
<1>2. db.rows = {} /\ db.windows = {} /\ db.agents = {} /\ db.next = 1 /\ db.row = 1 /\ db.polls = {}
  BY <1>1
<1>3. WindowsOK(db.windows, db.next) /\ Tiled(db.windows)
  BY <1>2, FS_EmptySet DEF WindowsOK, Tiled
<1>4. AgentsOK(db.agents) /\ Named(db.windows, db.agents)
  BY <1>2, FS_EmptySet DEF AgentsOK, Named
<1>5. RowsOK(db.rows, db.row)
  BY <1>2 DEF RowsOK
<1>6. ReadOK(KeysOf(db.rows), db.row, hread)
  <2>1. PICK cur : cur = <<Never, 0>> /\ cur \in Int \X Nat
    BY FirstCursor
  <2>2. hread = [pc |-> "idle", cursor |-> cur, got |-> {}, twice |-> {}, base |-> {}]
    BY <2>1 DEF HInit, Unread
  <2>3. hread.pc = "idle" /\ hread.cursor = cur /\ hread.got = {} /\ hread.twice = {} /\ hread.base = {}
    BY <2>2
  <2> QED BY <2>1, <2>2, <2>3 DEF ReadOK
<1>7. hstore = OpenStore(db)
  BY <1>1 DEF HInit
<1>8. /\ hstore = [open |-> hstore.open, last |-> hstore.last, cache |-> hstore.cache]
      /\ hstore.cache = [a \in Agents |-> Absent]
      /\ LastOK(db.windows, hstore.last)
  BY <1>3, <1>7, OpenStoreOK
<1>9. hwriter = [pc |-> "idle", batch |-> NoBatch, keep |-> 0, pruning |-> FALSE]
  BY DEF HInit
<1>10. /\ hwriter = [pc |-> hwriter.pc, batch |-> hwriter.batch, keep |-> hwriter.keep,
                     pruning |-> hwriter.pruning]
       /\ hwriter.pc # "insert"
  BY <1>9
<1>11. hdb = [polls |-> hdb.polls, rows |-> hdb.rows, windows |-> hdb.windows,
              agents |-> hdb.agents, next |-> hdb.next, row |-> hdb.row]
  BY <1>1, <1>2
<1>12. hq \in Seq(HBatches) /\ hnow \in Nat
  BY DEF HInit
<1> QED BY <1>1, <1>3, <1>4, <1>5, <1>6, <1>8, <1>10, <1>11, <1>12 DEF HInv

\* What a recorded batch holds.
LEMMA BatchTyped == ASSUME HInv, NEW b \in Batches PROVE b \in HBatches
BY DEF HInv, Batches, HBatches

\* The poller hands a batch over, or drops it.
LEMMA HistoryRecordOK == ASSUME HInv, Record PROVE HInv'
<1>1. UNCHANGED <<hdb, hstore, hwriter, hread, hnow>>
  BY DEF Record
<1>2. PICK b \in Batches : hq' = hq \/ hq' = Append(hq, b)
  BY DEF Record
<1>3. hq' \in Seq(HBatches)
  <2>1. PICK H : H = HBatches
    OBVIOUS
  <2>2. b \in H /\ hq \in Seq(H)
    BY <2>1, BatchTyped DEF HInv
  <2>3. Append(hq, b) \in Seq(H)
    BY <2>2
  <2> QED BY <1>2, <2>1, <2>2, <2>3
<1> QED BY <1>1, <1>3 DEF HInv

\* A writer that holds no batch.
IdleWriter(wr) ==
    /\ wr = [pc |-> wr.pc, batch |-> wr.batch, keep |-> wr.keep, pruning |-> wr.pruning]
    /\ wr.pc # "insert"

\* Such is the writer after a batch, and a store that was dropped remembers nothing.
LEMMA IdleIs ==
  /\ IdleWriter([pc |-> "idle", batch |-> NoBatch, keep |-> 0, pruning |-> FALSE])
  /\ ClosedStore = [open |-> ClosedStore.open, last |-> ClosedStore.last, cache |-> ClosedStore.cache]
  /\ ~ClosedStore.open /\ ClosedStore.cache = [a \in Agents |-> Absent]
<1>1. IdleWriter([pc |-> "idle", batch |-> NoBatch, keep |-> 0, pruning |-> FALSE])
  <2>1. PICK wr : wr = [pc |-> "idle", batch |-> NoBatch, keep |-> 0, pruning |-> FALSE]
    OBVIOUS
  <2>2. IdleWriter(wr)
    BY <2>1 DEF IdleWriter
  <2> QED BY <2>1, <2>2
<1>2. PICK la, ca : ClosedStore = [open |-> FALSE, last |-> la, cache |-> ca] /\ ca = [a \in Agents |-> Absent]
  BY DEF ClosedStore
<1> QED BY <1>1, <1>2

\* The writer takes a batch, with a store or without one.
LEMMA HistoryTakeOK == ASSUME HInv, Take PROVE HInv'
<1>1. UNCHANGED <<hdb, hread, hnow>> /\ hq # <<>> /\ hq \in Seq(HBatches) /\ hq' = Tail(hq)
  BY DEF Take, HInv
<1>2. Head(hq) \in HBatches /\ hq' \in Seq(HBatches)
  BY <1>1, HeadTailProperties
<1>3. CASE UNCHANGED <<hstore, hwriter>>
  BY <1>1, <1>2, <1>3 DEF HInv
<1>4. CASE /\ hstore' = IF hstore.open THEN hstore ELSE OpenStore(hdb)
           /\ hwriter' = [pc |-> "insert", batch |-> Head(hq), keep |-> 0, pruning |-> FALSE]
  <2>1. PICK b : b = Head(hq)
    OBVIOUS
  <2>2. PICK wr : wr = hwriter' /\ wr = [pc |-> "insert", batch |-> b, keep |-> 0, pruning |-> FALSE]
    BY <1>4, <2>1
  <2>3. wr = [pc |-> wr.pc, batch |-> wr.batch, keep |-> wr.keep, pruning |-> wr.pruning] /\ wr.batch = b
    BY <2>2
  <2>4. WindowsOK(hdb.windows, hdb.next)
    BY DEF HInv
  <2>5. PICK st : st = hstore'
    OBVIOUS
  <2>6. /\ st = [open |-> st.open, last |-> st.last, cache |-> st.cache]
        /\ st.cache = [a \in Agents |-> Absent]
        /\ st.open /\ LastOK(hdb.windows, st.last)
    <3>1. CASE hstore.open
      <4>1. st = hstore
        BY <1>4, <2>5, <3>1
      <4> QED BY <3>1, <4>1 DEF HInv
    <3>2. CASE ~hstore.open
      <4>1. st = OpenStore(hdb)
        BY <1>4, <2>5, <3>2
      <4> QED BY <2>4, <4>1, OpenStoreOK
    <3> QED BY <3>1, <3>2
  <2> QED BY <1>1, <1>2, <2>1, <2>2, <2>3, <2>5, <2>6 DEF HInv
<1> QED BY <1>3, <1>4 DEF Take

\* A failed write, a panic and a restart leave the file as it was.
LEMMA HistoryFailOK == ASSUME HInv, InsertFails PROVE HInv'
<1>1. UNCHANGED <<hq, hdb, hread, hnow>> /\ hstore' = ClosedStore
  BY DEF InsertFails
<1>2. IdleWriter(hwriter')
  <2>1. PICK pc, ba, ke, pr : hwriter = [pc |-> pc, batch |-> ba, keep |-> ke, pruning |-> pr]
    BY DEF HInv
  <2>2. hwriter' = [pc |-> "idle", batch |-> NoBatch, keep |-> ke, pruning |-> pr]
    BY <2>1 DEF InsertFails
  <2> QED BY <2>2 DEF IdleWriter
<1> QED BY <1>1, <1>2, IdleIs DEF HInv, IdleWriter

\* ... as does a panic of the writer ...
LEMMA HistoryPanicOK == ASSUME HInv, WriterPanics PROVE HInv'
<1>1. UNCHANGED <<hdb, hread, hnow>> /\ hstore' = ClosedStore /\ hq' = <<>>
  BY DEF WriterPanics
<1>2. IdleWriter(hwriter')
  BY IdleIs DEF WriterPanics
<1>3. hq' \in Seq(HBatches)
  BY <1>1
<1> QED BY <1>1, <1>2, <1>3, IdleIs DEF HInv, IdleWriter

\* ... and a restart, which opens the store again.
LEMMA HistoryRestartOK == ASSUME HInv, Restart PROVE HInv'
<1>1. UNCHANGED <<hdb, hread, hnow>> /\ hstore' = OpenStore(hdb) /\ hq' = <<>>
  BY DEF Restart
<1>2. IdleWriter(hwriter')
  BY IdleIs DEF Restart
<1>3. hq' \in Seq(HBatches)
  BY <1>1
<1>4. WindowsOK(hdb.windows, hdb.next)
  BY DEF HInv
<1>5. PICK st : st = hstore'
  OBVIOUS
<1>6. /\ st = [open |-> st.open, last |-> st.last, cache |-> st.cache]
      /\ st.cache = [a \in Agents |-> Absent] /\ LastOK(hdb.windows, st.last)
  BY <1>1, <1>4, <1>5, OpenStoreOK
<1> QED BY <1>1, <1>2, <1>3, <1>5, <1>6 DEF HInv, IdleWriter

\* The end of a batch touches neither the file nor the store.
LEMMA HistoryFinishOK == ASSUME HInv, NEW failed \in BOOLEAN, Finish(failed) PROVE HInv'
<1>1. UNCHANGED <<hq, hdb, hstore, hread, hnow>>
  BY DEF Finish
<1>2. IdleWriter(hwriter')
  BY IdleIs DEF Finish
<1> QED BY <1>1, <1>2 DEF HInv, IdleWriter

\* The clock is set.
LEMMA HistoryClockOK == ASSUME HInv, SetClock PROVE HInv'
<1>1. UNCHANGED <<hq, hdb, hstore, hwriter, hread>>
  BY DEF SetClock
<1>2. hnow' \in Nat
  BY HistoryAssumption DEF SetClock
<1> QED BY <1>1, <1>2 DEF HInv

\* A client starts.
LEMMA HistoryScanOK == ASSUME HInv, StartScan PROVE HInv'
<1>1. UNCHANGED <<hq, hdb, hstore, hwriter, hnow>>
  BY DEF StartScan
<1>2. PICK keys, row : keys = KeysOf(hdb.rows) /\ row = hdb.row
  OBVIOUS
<1>3. keys \in SUBSET (Nat \X Nat) /\ \A k \in keys : k[2] < row
  BY <1>2 DEF HInv, RowsOK, KeysOf
<1>4. PICK cur : cur = <<Never, 0>> /\ cur \in Int \X Nat
  BY FirstCursor
<1>5. PICK rd : rd = hread' /\ rd = [pc |-> "scan", cursor |-> cur, got |-> {}, twice |-> {}, base |-> keys]
  BY <1>2, <1>4 DEF StartScan, HKeys, KeysOf
<1>6. rd.pc = "scan" /\ rd.cursor = cur /\ rd.got = {} /\ rd.twice = {} /\ rd.base = keys
  BY <1>5
<1>7. \A k \in keys : KeyLeq(cur, k)
  <2> SUFFICES ASSUME NEW k \in keys PROVE KeyLeq(cur, k)
    OBVIOUS
  <2>1. k[1] \in Nat /\ cur[1] = -100
    BY <1>3, <1>4 DEF Never
  <2> QED BY <2>1 DEF KeyLeq
<1>8. ReadOK(keys, row, rd)
  BY <1>3, <1>4, <1>5, <1>6, <1>7 DEF ReadOK
<1> QED BY <1>1, <1>2, <1>5, <1>8 DEF HInv

\* A page is read.
LEMMA HistoryPageOK == ASSUME HInv, FillPage PROVE HInv'
<1>1. UNCHANGED <<hq, hdb, hstore, hwriter, hnow>> /\ hread.pc = "scan"
  BY DEF FillPage
<1>2. PICK keys, row : keys = KeysOf(hdb.rows) /\ row = hdb.row
  OBVIOUS
<1>3. keys \in SUBSET (Nat \X Nat)
  BY <1>2 DEF HInv, RowsOK, KeysOf
<1>4. ReadOK(keys, row, hread)
  BY <1>2 DEF HInv
<1>5. PICK cur, got, twi, base : hread = [pc |-> "scan", cursor |-> cur, got |-> got, twice |-> twi, base |-> base]
  BY <1>1, <1>4 DEF ReadOK
<1>6. PICK rd : rd = hread
  OBVIOUS
<1>7. rd.cursor = cur /\ rd.got = got /\ rd.twice = twi /\ rd.base = base /\ rd.pc = "scan"
  BY <1>5, <1>6
<1>8. PICK rows : rows = RowsFrom(keys, cur)
  OBVIOUS
<1>9. ASSUME NEW page
      PROVE  /\ [Read(hread, page) EXCEPT !.pc = "done"]
                  = [pc |-> "done", cursor |-> cur, got |-> got \cup page, twice |-> twi \cup (got \cap page), base |-> base]
             /\ \A next : [Read(hread, page) EXCEPT !.cursor = next]
                  = [pc |-> "scan", cursor |-> next, got |-> got \cup page, twice |-> twi \cup (got \cap page), base |-> base]
  <2>1. PICK g, t : g = got \cup page /\ t = twi \cup (got \cap page)
    OBVIOUS
  <2>2. Read(hread, page) = [hread EXCEPT !.got = g, !.twice = t]
    BY <1>6, <1>7, <2>1 DEF Read
  <2>3. Read(hread, page) = [pc |-> "scan", cursor |-> cur, got |-> g, twice |-> t, base |-> base]
    BY <1>5, <2>2
  <2>4. PICK r : r = Read(hread, page) /\ r = [pc |-> "scan", cursor |-> cur, got |-> g, twice |-> t, base |-> base]
    BY <2>3
  <2>5. [r EXCEPT !.pc = "done"] = [pc |-> "done", cursor |-> cur, got |-> g, twice |-> t, base |-> base]
    BY <2>4
  <2>6. ASSUME NEW next
        PROVE  [r EXCEPT !.cursor = next] = [pc |-> "scan", cursor |-> next, got |-> g, twice |-> t, base |-> base]
    BY <2>4
  <2> QED BY <2>1, <2>4, <2>5, <2>6
<1>10. HKeys = keys
  BY <1>2 DEF HKeys, KeysOf
<1>11. \/ hread' = [Read(hread, rows) EXCEPT !.pc = "done"]
       \/ \E next \in rows : hread' = [Read(hread, Before(rows, next)) EXCEPT !.cursor = next]
  <2>1. rows = RowsFrom(HKeys, hread.cursor)
    BY <1>6, <1>7, <1>8, <1>10
  <2> QED BY <2>1 DEF FillPage
<1>12. PICK new : new = hread'
  OBVIOUS
<1>13. CASE hread' = [Read(hread, rows) EXCEPT !.pc = "done"]
  <2>1. new = [pc |-> "done", cursor |-> rd.cursor, got |-> rd.got \cup rows,
               twice |-> rd.twice \cup (rd.got \cap rows), base |-> rd.base]
    BY <1>7, <1>9, <1>12, <1>13
  <2>2. ReadOK(keys, row, new)
    BY <1>3, <1>4, <1>6, <1>7, <1>8, <2>1, PageOK
  <2> QED BY <1>1, <1>2, <1>12, <2>2 DEF HInv
<1>14. CASE \E next \in rows : hread' = [Read(hread, Before(rows, next)) EXCEPT !.cursor = next]
  <2>1. PICK next \in rows : hread' = [Read(hread, Before(rows, next)) EXCEPT !.cursor = next]
    BY <1>14
  <2>2. PICK page : page = Before(rows, next)
    OBVIOUS
  <2>3. new = [pc |-> "scan", cursor |-> next, got |-> rd.got \cup page,
               twice |-> rd.twice \cup (rd.got \cap page), base |-> rd.base]
    <3>1. [Read(hread, page) EXCEPT !.cursor = next]
            = [pc |-> "scan", cursor |-> next, got |-> got \cup page, twice |-> twi \cup (got \cap page), base |-> base]
      BY <1>9
    <3>2. new = [Read(hread, page) EXCEPT !.cursor = next]
      BY <1>12, <2>1, <2>2
    <3> QED BY <1>7, <3>1, <3>2
  <2>4. ReadOK(keys, row, new)
    BY <1>3, <1>4, <1>6, <1>7, <1>8, <2>2, <2>3, PageOK
  <2> QED BY <1>1, <1>2, <1>12, <2>4 DEF HInv
<1> QED BY <1>11, <1>13, <1>14

\* Pruning keeps what the windows that stay name.
LEMMA HistoryPruneOK == ASSUME HInv, Prune PROVE HInv'
<1>1. UNCHANGED <<hq, hstore, hread, hnow>> /\ hwriter.pc = "prune"
  BY DEF Prune
<1>2. PICK po, ro, wi, ag, ne, rw :
         hdb = [polls |-> po, rows |-> ro, windows |-> wi, agents |-> ag, next |-> ne, row |-> rw]
  BY DEF HInv
<1>3. hdb.rows = ro /\ hdb.windows = wi /\ hdb.agents = ag /\ hdb.next = ne /\ hdb.row = rw
  BY <1>2
<1>4. PICK gone : gone = Prunable
  OBVIOUS
<1>5. PICK ps, rs, ws, as :
         /\ ps = {p \in po : p.id \notin gone} /\ rs = {r \in ro : r.poll \notin gone}
         /\ ws = {w \in wi : w.poll \notin gone}
         /\ as = {a \in ag : \E w \in ws : a.id \in w.ids}
  OBVIOUS
<1>6. PICK db : db = hdb' /\ db = [polls |-> ps, rows |-> rs, windows |-> ws, agents |-> as, next |-> ne, row |-> rw]
  BY <1>2, <1>4, <1>5 DEF Prune, PrunedDb
<1>7. db.polls = ps /\ db.rows = rs /\ db.windows = ws /\ db.agents = as /\ db.next = ne /\ db.row = rw
  BY <1>6
<1>8. ws \in SUBSET wi /\ rs \in SUBSET ro /\ as \in SUBSET ag
  BY <1>5
<1>9. WindowsOK(ws, ne) /\ Tiled(ws)
  <2>1. IsFiniteSet(ws)
    BY <1>3, <1>8, FS_Subset DEF HInv, WindowsOK
  <2> QED BY <1>3, <1>8, <2>1 DEF HInv, WindowsOK, Tiled
<1>10. AgentsOK(as)
  <2>1. IsFiniteSet(as)
    BY <1>3, <1>8, FS_Subset DEF HInv, AgentsOK
  <2> QED BY <1>3, <1>8, <2>1 DEF HInv, AgentsOK
<1>11. Named(ws, as)
  <2> SUFFICES ASSUME NEW w \in ws
               PROVE  /\ w.ids \subseteq {a.id : a \in as}
                      /\ {a.name : a \in {x \in as : x.id \in w.ids}} = w.seen
    BY DEF Named
  <2>1. w.ids \subseteq {a.id : a \in ag} /\ {a.name : a \in {x \in ag : x.id \in w.ids}} = w.seen
    BY <1>3, <1>8 DEF HInv, Named
  <2>2. {x \in as : x.id \in w.ids} = {x \in ag : x.id \in w.ids}
    BY <1>5
  <2>3. w.ids \subseteq {a.id : a \in as}
    BY <1>5, <2>1
  <2> QED BY <2>1, <2>2, <2>3
<1>12. RowsOK(rs, rw) /\ rw \in Nat
  BY <1>3, <1>8 DEF HInv, RowsOK
<1>13. ReadOK(KeysOf(rs), rw, hread)
  <2>1. ReadOK(KeysOf(ro), rw, hread)
    BY <1>3 DEF HInv
  <2>2. PICK old, new : old = KeysOf(ro) /\ new = KeysOf(rs) /\ new \subseteq old
    BY <1>8 DEF KeysOf
  <2>3. rw <= rw
    BY <1>12
  <2> QED BY <1>12, <2>1, <2>2, <2>3, ReadKept
<1>14. hstore.open => LastOK(ws, hstore.last)
  BY <1>3, <1>8 DEF HInv, LastOK
<1>15. IdleWriter(hwriter')
  <2>1. PICK ba, ke, pr : hwriter = [pc |-> "prune", batch |-> ba, keep |-> ke, pruning |-> pr]
    BY <1>1 DEF HInv
  <2>2. hwriter' = [pc |-> "prune", batch |-> ba, keep |-> ke, pruning |-> TRUE]
    BY <2>1 DEF Prune
  <2>3. PICK t : t = TRUE
    OBVIOUS
  <2>4. hwriter' = [pc |-> "prune", batch |-> ba, keep |-> ke, pruning |-> t]
    BY <2>2, <2>3
  <2> QED BY <2>4 DEF IdleWriter
<1>16. hdb' = [polls |-> hdb'.polls, rows |-> hdb'.rows, windows |-> hdb'.windows,
               agents |-> hdb'.agents, next |-> hdb'.next, row |-> hdb'.row]
  BY <1>6, <1>7
<1> QED BY <1>1, <1>6, <1>7, <1>9, <1>10, <1>11, <1>12, <1>13, <1>14, <1>15, <1>16 DEF HInv, IdleWriter

\* The nodes whose window is due.
LEMMA DueNodes ==
  ASSUME HInv, NEW b \in HBatches, NEW D, D = {n \in HNodes : Due(n, b)}
  PROVE  DueOK(D, b.crawl, b.at, hstore.last)
<1>1. PICK crawl : crawl = b.crawl /\ crawl \in [HNodes -> {[len |-> Absent, seen |-> {}]} \cup [len : Windows, seen : Sightings]]
  BY DEF HBatches
<1>2. ASSUME NEW n \in D PROVE crawl[n].len \in Nat /\ crawl[n].seen \in SUBSET Agents
  <2>1. n \in HNodes /\ crawl[n].len # Absent
    BY <1>1, <1>2 DEF Due
  <2>2. PICK c : c = crawl[n] /\ c \in {[len |-> Absent, seen |-> {}]} \cup [len : Windows, seen : Sightings]
    BY <1>1, <2>1
  <2>3. c \in [len : Windows, seen : Sightings]
    BY <2>1, <2>2
  <2> QED BY <2>2, <2>3, HistoryAssumption
<1>3. ASSUME NEW n \in D PROVE hstore.last[n] = Never \/ b.at - hstore.last[n] >= crawl[n].len
  BY <1>1, <1>3 DEF Due
<1> QED BY <1>1, <1>2, <1>3 DEF DueOK

\* A poll is stored.
LEMMA HistoryInsertOK == ASSUME HInv, Insert PROVE HInv'
<1>1. UNCHANGED <<hq, hread, hnow>> /\ hwriter.pc = "insert" /\ hstore.open
  BY DEF Insert, HInv
<1>2. PICK b \in HBatches : b = hwriter.batch
  BY <1>1 DEF HInv
<1>3. PICK po, ro, wi, ag, ne, rw :
         hdb = [polls |-> po, rows |-> ro, windows |-> wi, agents |-> ag, next |-> ne, row |-> rw]
  BY DEF HInv
<1>4. hdb.polls = po /\ hdb.rows = ro /\ hdb.windows = wi /\ hdb.agents = ag /\ hdb.next = ne /\ hdb.row = rw
  BY <1>3
<1>5. PICK at, crawl : at = b.at /\ crawl = b.crawl /\ at \in Nat
  BY DEF HBatches
<1>6. PICK last, cache : last = hstore.last /\ cache = hstore.cache /\ cache = [a \in Agents |-> Absent]
  BY DEF HInv
<1>7. PICK D : D = {n \in HNodes : Due(n, b)}
  OBVIOUS
<1>8. DueOK(D, crawl, at, last)
  BY <1>5, <1>6, <1>7, DueNodes
<1>9. PICK st : st = [cache |-> cache, agents |-> ag]
  OBVIOUS
<1>10. st.cache = cache /\ st.agents = ag /\ st \in Interners
  <2>1. st.cache = cache /\ st.agents = ag
    BY <1>9
  <2>2. AgentsOK(ag)
    BY <1>4 DEF HInv
  <2>3. cache \in [Agents -> Int] /\ \A x \in Agents : cache[x] = Absent
    BY <1>6 DEF Absent
  <2>4. InternOK(st)
    BY <2>1, <2>2, <2>3 DEF InternOK, CachedOK
  <2>5. st \in [cache : [Agents -> Int], agents : SUBSET Agent]
    BY <1>9, <2>2, <2>3 DEF AgentsOK
  <2> QED BY <2>1, <2>4, <2>5 DEF Interners
<1>11. PICK names : names = UNION {crawl[n].seen : n \in D} /\ names \in SUBSET Agents
  <2>1. \A n \in D : crawl[n].seen \subseteq Agents
    BY <1>8 DEF DueOK
  <2>2. PICK names : names = UNION {crawl[n].seen : n \in D}
    OBVIOUS
  <2>3. names \subseteq Agents
    BY <2>1, <2>2
  <2> QED BY <2>2, <2>3
<1>12. PICK en : en = InternAll(st, names)
  OBVIOUS
<1>13. en \in Interners /\ ag \subseteq en.agents /\ \A x \in names : en.cache[x] # Absent
  BY <1>10, <1>11, <1>12, InternAllOK
<1>14. PICK ags, ca : ags = en.agents /\ ca = en.cache /\ AgentsOK(ags) /\ CachedOK(ca, ags)
  BY <1>13 DEF Interners, InternOK
<1>15. PICK f : f = [n \in D |-> NewWindow(n, crawl, at, ne, ca)]
  OBVIOUS
<1>16. PICK all : all = wi \cup {f[n] : n \in D}
  OBVIOUS
<1>17. PICK la : la = [n \in HNodes |-> IF n \in D THEN at ELSE last[n]]
  OBVIOUS
<1>18. WindowsOK(all, ne + 1) /\ Tiled(all) /\ LastOK(all, la)
  <2>1. WindowsOK(wi, ne) /\ Tiled(wi) /\ LastOK(wi, last)
    BY <1>1, <1>4, <1>6 DEF HInv
  <2>2. Added(all, f, wi, D, crawl, at, ne, ca) /\ Moved(la, last, D, at) /\ at \in Nat
    BY <1>5, <1>15, <1>16, <1>17 DEF Added, Moved
  <2> QED BY <1>8, <2>1, <2>2, NewWindowsTile
<1>19. Named(all, ags)
  <2>1. AgentsOK(ag) /\ Named(wi, ag)
    BY <1>4 DEF HInv
  <2>2. \A n \in D : \A x \in crawl[n].seen : ca[x] # Absent
    BY <1>11, <1>13, <1>14
  <2>3. ag \subseteq ags
    BY <1>13, <1>14
  <2>4. Added(all, f, wi, D, crawl, at, ne, ca) /\ Cached(D, crawl, ca)
    BY <1>15, <1>16, <2>2 DEF Added, Cached
  <2> QED BY <1>8, <1>14, <2>1, <2>3, <2>4, NewWindowsAreNamed
<1>20. PICK rs, rn : rs = ro \cup HealthRows(b, ne, rw) /\ rn = rw + Cardinality(HNodes)
  OBVIOUS
<1>21. RowsOK(rs, rn) /\ ReadOK(KeysOf(rs), rn, hread)
  <2>1. RowsOK(ro, rw) /\ ReadOK(KeysOf(ro), rw, hread)
    BY <1>4 DEF HInv
  <2> QED BY <1>5, <1>20, <2>1, NewRowsOK
<1>22. PICK w : w = InsertWindows(b, ne)
  OBVIOUS
<1>23. w.agents = ags /\ wi \cup w.windows = all
  <2>1. InternAll([cache |-> hstore.cache, agents |-> hdb.agents], UNION {b.crawl[n].seen : n \in D}) = en
    BY <1>4, <1>5, <1>6, <1>9, <1>11, <1>12
  <2>2. PICK new : new = {NewWindow(n, b.crawl, b.at, ne, en.cache) : n \in D}
    OBVIOUS
  <2>3. w = [agents |-> en.agents, cache |-> en.cache, windows |-> new]
    <3> DEFINE E == {n \in HNodes : Due(n, b)}
               ev == InternAll([cache |-> hstore.cache, agents |-> hdb.agents], UNION {b.crawl[n].seen : n \in E})
               nw == {NewWindow(n, b.crawl, b.at, ne, ev.cache) : n \in E}
    <3>1. InsertWindows(b, ne) = [agents |-> ev.agents, cache |-> ev.cache, windows |-> nw]
      BY Zenon DEF InsertWindows, NewWindow
    <3>2. E = D
      BY <1>7
    <3>3. ev = en
      BY <2>1, <3>2
    <3>4. nw = new
      BY <2>2, <3>2, <3>3
    <3> HIDE DEF E, ev, nw
    <3> QED BY <1>22, <3>1, <3>3, <3>4
  <2>4. new = {f[n] : n \in D}
    BY <1>5, <1>14, <1>15, <2>2
  <2> QED BY <1>14, <1>16, <2>3, <2>4
<1>24. PICK ps, nn : ps = po \cup {[id |-> ne, at |-> at]} /\ nn = ne + 1
  OBVIOUS
<1>25. PICK db : /\ db = hdb'
                 /\ db = [polls |-> ps, rows |-> rs, windows |-> all, agents |-> ags, next |-> nn, row |-> rn]
  <2>1. hdb' = [polls |-> po \cup {[id |-> ne, at |-> at]}, rows |-> ro \cup HealthRows(b, ne, rw),
                windows |-> wi \cup w.windows, agents |-> w.agents, next |-> ne + 1,
                row |-> rw + Cardinality(HNodes)]
    BY <1>2, <1>4, <1>5, <1>22 DEF Insert
  <2> QED BY <1>20, <1>23, <1>24, <2>1
<1>26. db.polls = ps /\ db.rows = rs /\ db.windows = all /\ db.agents = ags /\ db.next = nn /\ db.row = rn
  BY <1>25
<1>27. PICK op : hstore = [open |-> op, last |-> last, cache |-> cache] /\ op = hstore.open
  BY <1>6 DEF HInv
<1>28. PICK sn : sn = hstore' /\ sn = [open |-> op, last |-> la, cache |-> cache]
  <2>1. CacheAfterCommit(InsertWindows(b, hdb.next).cache) = cache
    BY <1>6 DEF CacheAfterCommit
  <2>2. [n \in HNodes |-> IF Due(n, b) THEN b.at ELSE hstore.last[n]] = la
    BY <1>5, <1>6, <1>7, <1>17
  <2>3. hstore' = [hstore EXCEPT !.cache = cache, !.last = la]
    BY <1>2, <2>1, <2>2 DEF Insert
  <2> QED BY <1>27, <2>3
<1>29. sn.open = op /\ sn.last = la /\ sn.cache = cache
  BY <1>28
<1>30. IdleWriter(hwriter')
  <2>1. PICK pc, ba, ke, pr : hwriter = [pc |-> pc, batch |-> ba, keep |-> ke, pruning |-> pr]
    BY DEF HInv
  <2>2. hwriter' = [hwriter EXCEPT !.pc = "prune", !.keep = hdb.next]
    BY DEF Insert
  <2>3. hwriter' = [pc |-> "prune", batch |-> ba, keep |-> hdb.next, pruning |-> pr]
    BY <2>1, <2>2
  <2> QED BY <2>3 DEF IdleWriter
<1>31. hdb' = [polls |-> hdb'.polls, rows |-> hdb'.rows, windows |-> hdb'.windows,
               agents |-> hdb'.agents, next |-> hdb'.next, row |-> hdb'.row]
  BY <1>25, <1>26
<1>32. hstore' = [open |-> hstore'.open, last |-> hstore'.last, cache |-> hstore'.cache]
  BY <1>28, <1>29
<1> QED BY <1>1, <1>6, <1>14, <1>18, <1>19, <1>21, <1>24, <1>25, <1>26, <1>28, <1>29, <1>30, <1>31, <1>32
        DEF HInv, IdleWriter

\* Every step of the poller, the writer, a client, the clock and the process preserves the invariant.
LEMMA HistoryNextOK == HInv /\ [HNext]_hvars => HInv'
<1> SUFFICES ASSUME HInv, [HNext]_hvars PROVE HInv'
  OBVIOUS
<1>1. CASE UNCHANGED hvars
  BY <1>1 DEF hvars, HInv
<1>2. ASSUME NEW failed \in BOOLEAN, Finish(failed) PROVE HInv'
  BY <1>2, HistoryFinishOK
<1> QED BY <1>1, <1>2, HistoryRecordOK, HistoryTakeOK, HistoryInsertOK, HistoryFailOK, HistoryPruneOK,
           HistoryScanOK, HistoryPageOK, HistoryClockOK, HistoryRestartOK, HistoryPanicOK
        DEF HNext

\* HContract, for every number of nodes, cap, page and queue: the stored windows of a node do not
\* overlap, a sighting names the agent that was seen although ids are given again, and a client
\* that follows the pages gets every row that stayed and none twice, across failed writes, panics,
\* restarts, prunes and a clock set back (m6-monitor history.rs).
THEOREM HistoryIsTruthful == HSpec => []HContract
<1>1. HInit => HInv
  BY HistoryInitOK
<1>2. HInv /\ [HNext]_hvars => HInv'
  BY HistoryNextOK
<1>3. HInv => HContract
  BY HistoryInvImplies
<1> QED BY <1>1, <1>2, <1>3, PTL DEF HSpec

-----------------------------------------------------------------------------
(* ServiceRoutes.  A request goes to the first of the best scored routes     *)
(* that match, because the search replaces its choice only by a better one;  *)
(* a narrower pattern has a better score; and the order of the blocks moves  *)
(* the routes of the table, not their scores.                                *)

\* What the loop of FindRoute chooses.
Preferring(g, path, method, s) ==
    g = [t \in SUBSET DOMAIN s |->
            IF t = {} THEN NoRoute ELSE Prefer(path, method, g[t \ {Max(t)}], s[Max(t)])]

\* FindRoute is what that function gives for the whole table.
LEMMA FindUnfold ==
  \A path, method, s : FindRoute(path, method, s) = (CHOOSE g : Preferring(g, path, method, s))[DOMAIN s]
BY DEF FindRoute, FoldLeft, MapThenFoldSet, Preferring

\* F is a run of FindRoute's loop over s.
LoopRun(F, path, method, s) ==
    /\ F[0] = NoRoute
    /\ \A i \in 1..Len(s) : F[i] = Prefer(path, method, F[i - 1], s[i])
    /\ FindRoute(path, method, s) = F[Len(s)]

\* FindRoute as the loop it is: F[i] is the best of the first i routes.
LEMMA FindRun ==
  ASSUME NEW R, NEW s \in Seq(R), NEW path, NEW method
  PROVE  \E F : LoopRun(F, path, method, s)
<1>0. PICK n \in Nat : n = Len(s) /\ DOMAIN s = 1..n /\ \A i \in 1..n : s[i] \in R
  BY LenProperties, ElementOfSeq
<1>1. PICK A : A = R \cup {NoRoute}
  OBVIOUS
<1>2. PICK b : b = NoRoute /\ b \in A
  BY <1>1
<1>3. \A a \in A : \A r \in R : Prefer(path, method, a, r) \in A
  BY <1>1 DEF Prefer
<1> DEFINE G == [i \in 1..n |-> [a \in A |-> Prefer(path, method, a, s[i])]]
<1>4. G \in [1..n -> [A -> A]]
  BY <1>0, <1>3
<1>5. PICK h \in [SUBSET (1..n) -> A] : Folding(h, n, b, G)
  <2> HIDE DEF G
  <2> QED BY <1>2, <1>4, FoldExists
<1>6. ASSUME NEW t \in SUBSET (1..n), t # {}
      PROVE  G[Max(t)][h[t \ {Max(t)}]] = Prefer(path, method, h[t \ {Max(t)}], s[Max(t)])
  BY <1>6, <1>5, MaxOfIndices
<1>7. PICK g : Preferring(g, path, method, s) /\ FindRoute(path, method, s) = g[1..n]
  <2>1. Preferring(h, path, method, s)
    <3> HIDE DEF G
    <3> QED BY <1>0, <1>2, <1>5, <1>6 DEF Preferring, Folding
  <2> QED BY <1>0, <2>1, FindUnfold
<1> DEFINE F == [i \in 0..n |-> g[1..i]]
<1>8. F[0] = NoRoute /\ F[n] = g[1..n]
  <2>1. 1..0 = {} /\ {} \in SUBSET (1..n)
    OBVIOUS
  <2> QED BY <2>1, <1>0, <1>7 DEF Preferring
<1>9. ASSUME NEW i \in 1..n PROVE F[i] = Prefer(path, method, F[i - 1], s[i])
  <2>1. F[i] = g[1..i] /\ F[i - 1] = g[1..(i - 1)]
    OBVIOUS
  <2>2. 1..i \in SUBSET (1..n) /\ 1..i # {} /\ Max(1..i) = i /\ (1..i) \ {Max(1..i)} = 1..(i - 1)
    BY PrefixRun
  <2>3. g[1..i] = Prefer(path, method, g[1..(i - 1)], s[i])
    BY <2>2, <1>0, <1>7 DEF Preferring
  <2> QED BY <2>1, <2>3
<1> HIDE DEF F
<1> QED BY <1>0, <1>7, <1>8, <1>9 DEF LoopRun

\* A table as BuildRoutes makes it, as far as scores go.
Scored(s) == \A i \in 1..Len(s) : s[i].specificity \in Nat

\* The routes of s that match the request.
Matching(path, method, s) ==
    {i \in 1..Len(s) : MethodMatches(s[i].method, method) /\ MatchRoute(path, s[i].segments)}

\* b is the first of the most specific of the routes C of s, and NoRoute if there is none.
FirstBest(b, s, C) ==
    /\ b = NoRoute <=> C = {}
    /\ C # {} => \E i \in C : /\ b = s[i]
                              /\ \A j \in C : s[j].specificity <= s[i].specificity
                              /\ \A j \in C : j < i => s[j].specificity < s[i].specificity

\* One more route.
LEMMA FirstBestStep ==
  ASSUME NEW s, Scored(s), NEW path, NEW method, NEW k \in 1..Len(s), Len(s) \in Nat, NEW b,
         FirstBest(b, s, Matching(path, method, s) \cap (1..(k - 1)))
  PROVE  FirstBest(Prefer(path, method, b, s[k]), s, Matching(path, method, s) \cap (1..k))
<1>1. PICK C, D : C = Matching(path, method, s) \cap (1..(k - 1)) /\ D = Matching(path, method, s) \cap (1..k)
  OBVIOUS
<1>2. PICK c : c = Prefer(path, method, b, s[k])
  OBVIOUS
<1>3. PICK x : x = [i \in 1..Len(s) |-> s[i].specificity]
  OBVIOUS
<1>4. /\ \A i \in 1..Len(s) : x[i] \in Nat /\ s[i].specificity = x[i] /\ s[i] # NoRoute
      /\ NoRoute.specificity = -1
  BY <1>3 DEF Scored, NoRoute
<1>5. C \subseteq 1..(k - 1) /\ C \subseteq 1..Len(s) /\ k \notin C
  BY <1>1
<1>6. CASE k \notin Matching(path, method, s)
  <2>1. D = C
    BY <1>1, <1>6
  <2>2. c = b
    BY <1>2, <1>6 DEF Prefer, Matching
  <2> QED BY <1>1, <1>2, <2>1, <2>2
<1>7. CASE k \in Matching(path, method, s)
  <2>1. D = C \cup {k}
    BY <1>1, <1>7
  <2>2. c = IF x[k] > b.specificity THEN s[k] ELSE b
    BY <1>2, <1>3, <1>7 DEF Prefer, Matching, Better
  <2>3. CASE C = {}
    <3>1. b = NoRoute
      BY <1>1, <2>3 DEF FirstBest
    <3>2. c = s[k]
      BY <1>4, <2>2, <3>1
    <3>3. D = {k} /\ c # NoRoute /\ s[k].specificity \in Nat
      BY <1>4, <2>1, <2>3, <3>2
    <3>4. s[k].specificity <= s[k].specificity /\ ~(k < k)
      BY <3>3
    <3>5. FirstBest(c, s, D)
      BY <3>2, <3>3, <3>4 DEF FirstBest
    <3> QED BY <1>1, <1>2, <3>5
  <2>4. CASE C # {}
    <3>1. PICK i \in C : /\ b = s[i]
                         /\ \A j \in C : s[j].specificity <= s[i].specificity
                         /\ \A j \in C : j < i => s[j].specificity < s[i].specificity
      BY <1>1, <2>4 DEF FirstBest
    <3>2. i \in 1..Len(s) /\ i < k /\ b.specificity = x[i]
      BY <1>4, <1>5, <3>1
    <3>3. \A j \in C : x[j] <= x[i] /\ (j < i => x[j] < x[i]) /\ x[j] \in Nat
      BY <1>4, <1>5, <3>1
    <3>4. CASE x[k] > x[i]
      <4>1. c = s[k] /\ c # NoRoute
        BY <1>4, <2>2, <3>2, <3>4
      <4>2. \A j \in D : x[j] <= x[k] /\ (j < k => x[j] < x[k])
        BY <1>4, <1>5, <2>1, <3>2, <3>3, <3>4
      <4>3. \A j \in D : s[j].specificity <= s[k].specificity /\ (j < k => s[j].specificity < s[k].specificity)
        BY <1>1, <1>4, <4>2
      <4>4. k \in D
        BY <2>1
      <4>5. FirstBest(c, s, D)
        BY <4>1, <4>3, <4>4 DEF FirstBest
      <4> QED BY <1>1, <1>2, <4>5
    <3>5. CASE ~(x[k] > x[i])
      <4>1. c = s[i] /\ c # NoRoute
        BY <1>4, <2>2, <3>1, <3>2, <3>5
      <4>2. \A j \in D : x[j] <= x[i] /\ (j < i => x[j] < x[i])
        BY <1>4, <1>5, <2>1, <3>2, <3>3, <3>5
      <4>3. \A j \in D : s[j].specificity <= s[i].specificity /\ (j < i => s[j].specificity < s[i].specificity)
        BY <1>1, <1>4, <3>2, <4>2
      <4>4. i \in D
        BY <2>1
      <4>5. FirstBest(c, s, D)
        BY <4>1, <4>3, <4>4 DEF FirstBest
      <4> QED BY <1>1, <1>2, <4>5
    <3> QED BY <3>4, <3>5
  <2> QED BY <2>3, <2>4
<1> QED BY <1>6, <1>7

\* The loop returns what a reader of the table would.
LEMMA FindIsFirstBest ==
  ASSUME NEW R, NEW s \in Seq(R), Scored(s), NEW path, NEW method
  PROVE  FirstBest(FindRoute(path, method, s), s, Matching(path, method, s))
<1>1. PICK F : LoopRun(F, path, method, s)
  BY FindRun
<1>2. PICK n \in Nat : n = Len(s)
  BY LenProperties
<1> DEFINE T == {i \in 0..n : FirstBest(F[i], s, Matching(path, method, s) \cap (1..i))}
<1>3. 0 \in T
  BY <1>1 DEF LoopRun, FirstBest
<1>4. ASSUME NEW i \in 1..n, i - 1 \in T PROVE i \in T
  <2>1. PICK b : b = F[i - 1]
    OBVIOUS
  <2>2. F[i] = Prefer(path, method, b, s[i])
    BY <1>1, <1>2, <2>1 DEF LoopRun
  <2>3. FirstBest(b, s, Matching(path, method, s) \cap (1..(i - 1)))
    BY <1>4, <2>1
  <2>4. FirstBest(Prefer(path, method, b, s[i]), s, Matching(path, method, s) \cap (1..i))
    BY <1>2, <2>3, FirstBestStep
  <2> QED BY <2>2, <2>4
<1>5. \A i \in 0..n : i \in T
  <2> HIDE DEF T
  <2> QED BY <1>3, <1>4, IndexInduction
<1>6. FirstBest(F[n], s, Matching(path, method, s) \cap (1..n))
  <2>1. n \in 0..n
    OBVIOUS
  <2>2. n \in T
    BY <1>5, <2>1
  <2> QED BY <2>2
<1>7. Matching(path, method, s) \cap (1..n) = Matching(path, method, s)
  BY <1>2 DEF Matching
<1> QED BY <1>1, <1>2, <1>6, <1>7 DEF LoopRun

\* A pattern's score is not negative: it has no more wildcards than segments.
LEMMA SpecificityIsNat ==
  ASSUME NEW p \in Patterns
  PROVE  RouteSpecificity(CompilePattern(p)) \in Nat
<1>1. PICK n \in Nat : n = Len(p)
  BY PatternsAssumption, LenProperties
<1>2. PICK segs : segs = CompilePattern(p)
  OBVIOUS
<1>3. Len(segs) = n
  <2>1. segs = [i \in 1..n |-> segs[i]]
    BY <1>1, <1>2 DEF CompilePattern
  <2>2. PICK S : S = {segs[i] : i \in 1..n}
    OBVIOUS
  <2>3. segs \in [1..n -> S]
    BY <2>1, <2>2
  <2>4. segs \in Seq(S) /\ DOMAIN segs = 1..n
    BY <2>3, SeqDef
  <2> QED BY <1>1, <2>4, LenProperties
<1>4. IsFiniteSet(1..n) /\ Cardinality(1..n) = n
  BY FS_Interval
<1>5. ASSUME NEW k PROVE CountKind(segs, k) \in Nat /\ CountKind(segs, k) <= n
  <2>1. PICK K : K = {i \in 1..n : segs[i].k = k}
    OBVIOUS
  <2>2. K \subseteq 1..n
    BY <2>1
  <2>3. IsFiniteSet(K) /\ Cardinality(K) <= n
    BY <1>4, <2>2, FS_Subset
  <2>4. CountKind(segs, k) = Cardinality(K)
    BY <1>3, <2>1 DEF CountKind
  <2> QED BY <2>3, <2>4, FS_CardinalityType
<1>6. PICK a \in Nat, b \in Nat : a = CountKind(segs, "literal") /\ b = CountKind(segs, "wildcard") /\ b <= n
  BY <1>5
<1>7. RouteSpecificity(segs) = 2 * n + a - b
  BY <1>3, <1>6 DEF RouteSpecificity
<1> QED BY <1>2, <1>6, <1>7

\* What a table is made of.
LEMMA TableOf ==
  ASSUME NEW code \in Seq(CodeRoutes), NEW config \in Seq(ConfigRoutes)
  PROVE  /\ \E R : BuildRoutes(code, config) \in Seq(R)
         /\ Scored(BuildRoutes(code, config))
         /\ Len(BuildRoutes(code, config)) = Len(code) + Len(config)
         /\ \A i \in 1..Len(code) : BuildRoutes(code, config)[i] =
               Compiled(code[i].path, code[i].method, "code", NotGiven, NotGiven, InheritedCache(code[i].path, config))
         /\ \A i \in 1..Len(config) : BuildRoutes(code, config)[Len(code) + i] =
               Compiled(config[i].path, ConfigMethod(config[i].methods), "config",
                        config[i].template, config[i].handler, config[i].cache)
<1>1. PICK n \in Nat, m \in Nat : n = Len(code) /\ m = Len(config)
  BY LenProperties
<1>2. \A i \in 1..n : code[i] \in CodeRoutes /\ code[i].path \in Patterns
  <2>1. \A i \in 1..n : code[i] \in CodeRoutes
    BY <1>1, ElementOfSeq
  <2>2. \A c \in CodeRoutes : c.path \in Patterns
    BY DEF CodeRoutes
  <2> QED BY <2>1, <2>2
<1>3. \A i \in 1..m : config[i] \in ConfigRoutes /\ config[i].path \in Patterns
  <2>1. \A i \in 1..m : config[i] \in ConfigRoutes
    BY <1>1, ElementOfSeq
  <2>2. \A c \in ConfigRoutes : c.path \in Patterns
    BY DEF ConfigRoutes
  <2> QED BY <2>1, <2>2
<1>4. PICK f, g :
        /\ f = [i \in 1..n |-> Compiled(code[i].path, code[i].method, "code", NotGiven, NotGiven,
                                        InheritedCache(code[i].path, config))]
        /\ g = [i \in 1..m |-> Compiled(config[i].path, ConfigMethod(config[i].methods), "config",
                                        config[i].template, config[i].handler, config[i].cache)]
  OBVIOUS
<1>5. PICK R : R = {f[i] : i \in 1..n} \cup {g[i] : i \in 1..m}
  OBVIOUS
<1>6. f \in Seq(R) /\ Len(f) = n
  <2>1. f \in [1..n -> R] /\ DOMAIN f = 1..n
    BY <1>4, <1>5
  <2>2. f \in Seq(R)
    BY <2>1, SeqDef
  <2> QED BY <2>1, <2>2, LenProperties
<1>7. g \in Seq(R) /\ Len(g) = m
  <2>1. g \in [1..m -> R] /\ DOMAIN g = 1..m
    BY <1>4, <1>5
  <2>2. g \in Seq(R)
    BY <2>1, SeqDef
  <2> QED BY <2>1, <2>2, LenProperties
<1>8. PICK s : s = f \o g
  OBVIOUS
<1>9. BuildRoutes(code, config) = s
  BY <1>1, <1>4, <1>8 DEF BuildRoutes
<1>10. /\ s \in Seq(R) /\ Len(s) = n + m /\ (\A i \in 1..n : s[i] = f[i])
       /\ \A i \in (n + 1)..(n + m) : s[i] = g[i - n]
  <2>1. s \in Seq(R)
    BY <1>6, <1>7, <1>8, ConcatProperties
  <2>2. Len(s) = n + m
    BY <1>6, <1>7, <1>8, ConcatProperties
  <2>3. \A i \in 1..(n + m) : s[i] = IF i <= n THEN f[i] ELSE g[i - n]
    BY <1>6, <1>7, <1>8, ConcatProperties
  <2> QED BY <2>1, <2>2, <2>3
<1>11. ASSUME NEW p \in Patterns, NEW a, NEW b, NEW c, NEW d, NEW e
       PROVE  Compiled(p, a, b, c, d, e).specificity \in Nat
  BY SpecificityIsNat DEF Compiled
<1>12. \A i \in 1..n : f[i].specificity \in Nat
  BY <1>2, <1>4, <1>11
<1>13. \A i \in 1..m : g[i].specificity \in Nat
  BY <1>3, <1>4, <1>11
<1>14. Scored(s)
  <2>1. ASSUME NEW i \in 1..(n + m) PROVE s[i].specificity \in Nat
    <3>1. CASE i <= n
      BY <1>10, <1>12, <3>1
    <3>2. CASE i > n
      <4>1. i - n \in 1..m /\ s[i] = g[i - n]
        BY <1>10, <3>2
      <4> QED BY <1>13, <4>1
    <3> QED BY <3>1, <3>2
  <2> QED BY <1>10, <2>1 DEF Scored
<1>15. \A i \in 1..Len(code) : s[i] =
               Compiled(code[i].path, code[i].method, "code", NotGiven, NotGiven, InheritedCache(code[i].path, config))
  BY <1>1, <1>4, <1>10
<1>16. ASSUME NEW i \in 1..m
       PROVE  s[n + i] = Compiled(config[i].path, ConfigMethod(config[i].methods), "config",
                                  config[i].template, config[i].handler, config[i].cache)
  <2>1. n + i \in (n + 1)..(n + m) /\ (n + i) - n = i
    OBVIOUS
  <2>2. s[n + i] = g[i]
    BY <1>10, <2>1
  <2> QED BY <1>4, <2>2
<1> QED BY <1>1, <1>9, <1>10, <1>14, <1>15, <1>16

\* A pattern's segments: as many as it has, and a wildcard only in the last place.
LEMMA SegmentsAre ==
  ASSUME NEW p \in Patterns
  PROVE  \E n \in Nat : /\ Len(CompilePattern(p)) = n /\ DOMAIN CompilePattern(p) = 1..n
                        /\ \A i \in 1..n : CompilePattern(p)[i].k = "wildcard" => i = n
<1>1. PICK n \in Nat : n = Len(p)
  BY PatternsAssumption, LenProperties
<1>2. PICK segs : segs = CompilePattern(p)
  OBVIOUS
<1>3. segs = [i \in 1..n |-> segs[i]] /\ DOMAIN segs = 1..n
  BY <1>1, <1>2 DEF CompilePattern
<1>4. PICK S : S = {segs[i] : i \in 1..n}
  OBVIOUS
<1>5. segs \in [1..n -> S]
  BY <1>3, <1>4
<1>6. segs \in Seq(S)
  BY <1>5, SeqDef
<1>7. Len(segs) = n
  BY <1>1, <1>3, <1>6, LenProperties
<1>8. \A i \in 1..n : segs[i].k = "wildcard" => i = n
  BY <1>1, <1>2 DEF CompilePattern
<1> QED BY <1>2, <1>3, <1>7, <1>8

\* The places of a kind among n segments.
RowPlaces(a, n, k) == {i \in 1..n : a[i].k = k}

\* How many there are.
LEMMA PlacesCount ==
  ASSUME NEW a, NEW n \in Nat, Len(a) = n, NEW k
  PROVE  /\ IsFiniteSet(RowPlaces(a, n, k)) /\ Cardinality(RowPlaces(a, n, k)) \in Nat
         /\ CountKind(a, k) = Cardinality(RowPlaces(a, n, k))
<1>1. IsFiniteSet(1..n)
  BY FS_Interval
<1>2. RowPlaces(a, n, k) \in SUBSET (1..n)
  BY DEF RowPlaces
<1>3. IsFiniteSet(RowPlaces(a, n, k))
  BY <1>1, <1>2, FS_Subset
<1> QED BY <1>3, FS_CardinalityType DEF CountKind, RowPlaces

\* A narrower pattern has a better score.
LEMMA NarrowerScoresMore ==
  ASSUME NEW p \in Patterns, NEW q \in Patterns, Narrower(CompilePattern(p), CompilePattern(q))
  PROVE  RouteSpecificity(CompilePattern(p)) > RouteSpecificity(CompilePattern(q))
<1>1. PICK a, b : a = CompilePattern(p) /\ b = CompilePattern(q)
  OBVIOUS
<1>2. PICK n \in Nat : Len(a) = n /\ DOMAIN a = 1..n /\ \A i \in 1..n : a[i].k = "wildcard" => i = n
  BY <1>1, SegmentsAre
<1>3. PICK m \in Nat : Len(b) = m /\ DOMAIN b = 1..m /\ \A i \in 1..m : b[i].k = "wildcard" => i = m
  BY <1>1, SegmentsAre
<1>4. PICK LA, WA, LB, WB : /\ LA = RowPlaces(a, n, "literal") /\ WA = RowPlaces(a, n, "wildcard")
                            /\ LB = RowPlaces(b, m, "literal") /\ WB = RowPlaces(b, m, "wildcard")
  OBVIOUS
<1>5. PICK la \in Nat, wa \in Nat, lb \in Nat, wb \in Nat :
        /\ la = Cardinality(LA) /\ wa = Cardinality(WA) /\ lb = Cardinality(LB) /\ wb = Cardinality(WB)
        /\ IsFiniteSet(LA) /\ IsFiniteSet(WA) /\ IsFiniteSet(LB) /\ IsFiniteSet(WB)
        /\ CountKind(a, "literal") = la /\ CountKind(a, "wildcard") = wa
        /\ CountKind(b, "literal") = lb /\ CountKind(b, "wildcard") = wb
  BY <1>2, <1>3, <1>4, PlacesCount
<1>6. RouteSpecificity(a) = 2 * n + la - wa /\ RouteSpecificity(b) = 2 * m + lb - wb
  BY <1>2, <1>3, <1>5 DEF RouteSpecificity
<1>7. CASE n = m /\ \A i \in 1..n : WithinSegment(a[i], b[i])
  <2>1. LB \in SUBSET LA
    BY <1>4, <1>7 DEF RowPlaces, WithinSegment
  <2>2. WA \in SUBSET WB
    BY <1>4, <1>7 DEF RowPlaces, WithinSegment
  <2>3. lb <= la /\ (lb = la => LB = LA) /\ wa <= wb /\ (wa = wb => WA = WB)
    BY <1>5, <2>1, <2>2, FS_Subset
  <2>4. PICK i \in 1..n : a[i] # b[i]
    <3>1. a # b
      BY <1>1 DEF Narrower
    <3>2. a = [i \in 1..n |-> a[i]] /\ b = [i \in 1..n |-> b[i]]
      <4>1. a = [i \in 1..Len(p) |-> a[i]]
        BY <1>1 DEF CompilePattern
      <4>2. b = [i \in 1..Len(q) |-> b[i]]
        BY <1>1 DEF CompilePattern
      <4> QED BY <1>2, <1>3, <1>7, <4>1, <4>2
    <3> QED BY <3>1, <3>2
  <2>5. LB # LA \/ WA # WB
    BY <1>4, <1>7, <2>4 DEF RowPlaces, WithinSegment
  <2>6. la > lb \/ wb > wa
    BY <2>3, <2>5
  <2> QED BY <1>1, <1>6, <1>7, <2>3, <2>6
<1>8. CASE n > m /\ b # <<>> /\ b[m].k = "wildcard" /\ \A i \in 1..(m - 1) : WithinSegment(a[i], b[i])
  <2>1. m \in 1..m
    <3>1. m # 0
      <4> SUFFICES ASSUME m = 0 PROVE FALSE
        OBVIOUS
      <4>1. b = [i \in 1..Len(q) |-> b[i]] /\ q \in Seq(STRING)
        BY <1>1, PatternsAssumption DEF CompilePattern
      <4>2. DOMAIN b = {}
        BY <1>3
      <4>3. Len(q) = 0
        <5>1. DOMAIN b = 1..Len(q) /\ Len(q) \in Nat
          BY <4>1, LenProperties
        <5> QED BY <4>2, <5>1
      <4>4. b = <<>>
        BY <4>1, <4>3
      <4> QED BY <1>8, <4>4
    <3> QED BY <3>1
  <2>2. LB \in SUBSET LA
    <3> SUFFICES ASSUME NEW i \in LB PROVE i \in LA
      OBVIOUS
    <3>1. i \in 1..m /\ b[i].k = "literal"
      BY <1>4 DEF RowPlaces
    <3>2. i # m
      BY <1>8, <3>1
    <3>3. i \in 1..(m - 1) /\ i \in 1..n
      BY <1>8, <3>1, <3>2
    <3>4. a[i].k = "literal"
      BY <1>8, <3>1, <3>3 DEF WithinSegment
    <3> QED BY <1>4, <3>3, <3>4 DEF RowPlaces
  <2>3. lb <= la
    BY <1>5, <2>2, FS_Subset
  <2>4. wa <= 1
    <3>1. WA \in SUBSET {n}
      BY <1>2, <1>4 DEF RowPlaces
    <3>2. IsFiniteSet({n}) /\ Cardinality({n}) = 1
      BY FS_Singleton
    <3> QED BY <1>5, <3>1, <3>2, FS_Subset
  <2>5. wb >= 1
    <3>1. {m} \in SUBSET WB
      BY <1>4, <1>8, <2>1 DEF RowPlaces
    <3>2. Cardinality({m}) = 1
      BY FS_Singleton
    <3> QED BY <1>5, <3>1, <3>2, FS_Subset
  <2> QED BY <1>1, <1>6, <1>8, <2>3, <2>4, <2>5
<1> QED BY <1>1, <1>2, <1>3, <1>7, <1>8 DEF Narrower

\* What a route of a table is, however it was declared.
RowSeen(x) ==
    /\ x.pattern \in Patterns
    /\ x.segments = CompilePattern(x.pattern)
    /\ x.specificity = RouteSpecificity(x.segments)

\* Two routes that answer alike: all but the cache policy, which is inherited.
EqualRank(x, y) ==
    /\ x.pattern = y.pattern /\ x.method = y.method /\ x.from = y.from
    /\ x.template = y.template /\ x.handler = y.handler
    /\ x.segments = y.segments /\ x.specificity = y.specificity

\* Every row of a table, with the code's before the config's.
LEMMA RowsOf ==
  ASSUME NEW code \in Seq(CodeRoutes), NEW config \in Seq(ConfigRoutes), NEW s, s = BuildRoutes(code, config)
  PROVE  /\ \A i \in 1..Len(s) : RowSeen(s[i])
         /\ \A i \in 1..Len(s) : s[i].from = (IF i <= Len(code) THEN "code" ELSE "config")
<1>1. PICK n \in Nat, m \in Nat : n = Len(code) /\ m = Len(config)
  BY LenProperties
<1>2. /\ Len(s) = n + m
      /\ \A i \in 1..n : s[i] =
           Compiled(code[i].path, code[i].method, "code", NotGiven, NotGiven, InheritedCache(code[i].path, config))
      /\ \A i \in 1..m : s[n + i] = Compiled(config[i].path, ConfigMethod(config[i].methods), "config",
                                              config[i].template, config[i].handler, config[i].cache)
  BY <1>1, TableOf
<1>3. \A i \in 1..n : code[i].path \in Patterns
  <2>1. \A i \in 1..n : code[i] \in CodeRoutes
    BY <1>1, ElementOfSeq
  <2>2. \A c \in CodeRoutes : c.path \in Patterns
    BY DEF CodeRoutes
  <2> QED BY <2>1, <2>2
<1>4. \A i \in 1..m : config[i].path \in Patterns
  <2>1. \A i \in 1..m : config[i] \in ConfigRoutes
    BY <1>1, ElementOfSeq
  <2>2. \A c \in ConfigRoutes : c.path \in Patterns
    BY DEF ConfigRoutes
  <2> QED BY <2>1, <2>2
<1>5. ASSUME NEW x \in Patterns, NEW a, NEW b, NEW c, NEW d, NEW e
      PROVE  RowSeen(Compiled(x, a, b, c, d, e)) /\ Compiled(x, a, b, c, d, e).from = b
  BY DEF RowSeen, Compiled
<1>6. ASSUME NEW i \in 1..(n + m)
      PROVE  RowSeen(s[i]) /\ s[i].from = (IF i <= n THEN "code" ELSE "config")
  <2>1. CASE i <= n
    <3>1. i \in 1..n
      BY <2>1
    <3> QED BY <1>2, <1>3, <1>5, <2>1, <3>1
  <2>2. CASE ~(i <= n)
    <3>1. PICK k : k = i - n
      OBVIOUS
    <3>2. k \in 1..m /\ n + k = i
      BY <2>2, <3>1
    <3>3. config[k].path \in Patterns
      BY <1>4, <3>2
    <3>4. PICK x, a, b, c, d : /\ x = config[k].path /\ a = ConfigMethod(config[k].methods)
                              /\ b = config[k].template /\ c = config[k].handler /\ d = config[k].cache
      OBVIOUS
    <3>5. s[i] = Compiled(x, a, "config", b, c, d)
      BY <1>2, <3>2, <3>4
    <3>6. x \in Patterns
      BY <3>3, <3>4
    <3>7. RowSeen(Compiled(x, a, "config", b, c, d)) /\ Compiled(x, a, "config", b, c, d).from = "config"
      BY <1>5, <3>6
    <3> QED BY <2>2, <3>5, <3>7
  <2> QED BY <2>1, <2>2
<1> QED BY <1>1, <1>2, <1>6

\* Another order of the blocks has the same rows in other places.
LEMMA ReorderedRows ==
  ASSUME NEW code \in Seq(CodeRoutes), NEW config \in Seq(ConfigRoutes), NEW f \in BlockOrders(Len(config)),
         NEW s, s = BuildRoutes(code, config), NEW t, t = BuildRoutes(code, Reordered(config, f))
  PROVE  /\ Reordered(config, f) \in Seq(ConfigRoutes)
         /\ \A i \in 1..Len(t) : \E k \in 1..Len(s) : EqualRank(t[i], s[k])
         /\ \A k \in 1..Len(s) : \E i \in 1..Len(t) : EqualRank(t[i], s[k])
<1>1. PICK n \in Nat, m \in Nat : n = Len(code) /\ m = Len(config)
  BY LenProperties
<1>2. PICK g : g = Reordered(config, f)
  OBVIOUS
<1>3. f \in [1..m -> 1..m] /\ \A k \in 1..m : \E i \in 1..m : f[i] = k
  BY <1>1 DEF BlockOrders
<1>4. g = [i \in 1..m |-> config[f[i]]]
  BY <1>1, <1>2 DEF Reordered
<1>5. \A i \in 1..m : config[i] \in ConfigRoutes
  BY <1>1, ElementOfSeq
<1>6. g \in [1..m -> ConfigRoutes]
  BY <1>3, <1>4, <1>5
<1>7. g \in Seq(ConfigRoutes) /\ Len(g) = m
  <2>1. g \in Seq(ConfigRoutes) /\ DOMAIN g = 1..m
    BY <1>6, SeqDef
  <2> QED BY <2>1, LenProperties
<1>8. /\ Len(s) = n + m
      /\ \A i \in 1..n : s[i] =
           Compiled(code[i].path, code[i].method, "code", NotGiven, NotGiven, InheritedCache(code[i].path, config))
      /\ \A i \in 1..m : s[n + i] = Compiled(config[i].path, ConfigMethod(config[i].methods), "config",
                                              config[i].template, config[i].handler, config[i].cache)
  BY <1>1, TableOf
<1>9. /\ Len(t) = n + m
      /\ \A i \in 1..n : t[i] =
           Compiled(code[i].path, code[i].method, "code", NotGiven, NotGiven, InheritedCache(code[i].path, g))
      /\ \A i \in 1..m : t[n + i] = Compiled(g[i].path, ConfigMethod(g[i].methods), "config",
                                              g[i].template, g[i].handler, g[i].cache)
  BY <1>1, <1>2, <1>7, TableOf
<1>10. ASSUME NEW x, NEW a, NEW b, NEW c, NEW d, NEW e, NEW h, NEW u, NEW v,
              u = Compiled(x, a, b, c, d, e), v = Compiled(x, a, b, c, d, h)
       PROVE  EqualRank(u, v)
  BY <1>10 DEF EqualRank, Compiled
<1>11. ASSUME NEW i \in 1..n PROVE EqualRank(t[i], s[i])
  <2>1. t[i] = Compiled(code[i].path, code[i].method, "code", NotGiven, NotGiven, InheritedCache(code[i].path, g))
    BY <1>9
  <2>2. s[i] = Compiled(code[i].path, code[i].method, "code", NotGiven, NotGiven, InheritedCache(code[i].path, config))
    BY <1>8
  <2> QED BY <1>10, <2>1, <2>2
<1>12. ASSUME NEW i \in 1..m PROVE f[i] \in 1..m /\ EqualRank(t[n + i], s[n + f[i]])
  <2>1. f[i] \in 1..m /\ g[i] = config[f[i]]
    BY <1>3, <1>4
  <2>2. PICK c : c = g[i] /\ c = config[f[i]]
    BY <2>1
  <2>3. t[n + i] = Compiled(c.path, ConfigMethod(c.methods), "config", c.template, c.handler, c.cache)
    BY <1>9, <2>2
  <2>4. s[n + f[i]] = Compiled(c.path, ConfigMethod(c.methods), "config", c.template, c.handler, c.cache)
    BY <1>8, <2>1, <2>2
  <2> QED BY <1>10, <2>1, <2>3, <2>4
<1>13. ASSUME NEW i \in 1..(n + m) PROVE \E k \in 1..(n + m) : EqualRank(t[i], s[k])
  <2>1. CASE i <= n
    <3>1. i \in 1..n
      BY <2>1
    <3> QED BY <1>11, <3>1
  <2>2. CASE ~(i <= n)
    <3>1. i - n \in 1..m /\ n + (i - n) = i
      BY <2>2
    <3>2. PICK k \in 1..m : k = f[i - n] /\ EqualRank(t[i], s[n + k])
      BY <1>12, <3>1
    <3>3. n + k \in 1..(n + m)
      OBVIOUS
    <3> QED BY <3>2, <3>3
  <2> QED BY <2>1, <2>2
<1>14. ASSUME NEW k \in 1..(n + m) PROVE \E i \in 1..(n + m) : EqualRank(t[i], s[k])
  <2>1. CASE k <= n
    <3>1. k \in 1..n
      BY <2>1
    <3> QED BY <1>11, <3>1
  <2>2. CASE ~(k <= n)
    <3>1. k - n \in 1..m /\ n + (k - n) = k
      BY <2>2
    <3>2. PICK i \in 1..m : f[i] = k - n
      BY <1>3, <3>1
    <3>3. n + i \in 1..(n + m) /\ EqualRank(t[n + i], s[k])
      BY <1>12, <3>1, <3>2
    <3> QED BY <3>3
  <2> QED BY <2>1, <2>2
<1> QED BY <1>2, <1>7, <1>8, <1>9, <1>13, <1>14

\* The tables a service runs with: built from its code and a config that passed the check.
ZInv ==
    /\ zroutes \in [code : Seq(CodeRoutes), config : Seq(ConfigRoutes)]
    /\ UnknownHandlers(BuildRoutes(zroutes.code, zroutes.config), zroutes.code) = {}

\* A table of code routes alone leads nowhere else.
LEMMA RoutesInitOK == ZInit => ZInv
<1> SUFFICES ASSUME ZInit PROVE ZInv
  OBVIOUS
<1>1. PICK code : /\ zroutes = [code |-> code, config |-> <<>>]
                  /\ code = <<>> \/ \E c \in CodeRoutes : code = <<c>>
  BY DEF ZInit
<1>2. code \in Seq(CodeRoutes) /\ <<>> \in Seq(ConfigRoutes) /\ Len(<<>>) = 0
  <2>1. PICK E : E = CodeRoutes
    OBVIOUS
  <2>2. \A c \in E : <<c>> \in Seq(E)
    OBVIOUS
  <2>3. code \in Seq(E)
    <3>1. CASE code = <<>>
      BY <3>1
    <3>2. CASE \E c \in E : code = <<c>>
      BY <2>2, <3>2
    <3> QED BY <1>1, <2>1, <3>1, <3>2
  <2> QED BY <2>1, <2>3
<1>3. zroutes.code = code /\ zroutes.config = <<>>
  BY <1>1
<1>4. PICK empty : empty = <<>> /\ empty \in Seq(ConfigRoutes)
  BY <1>2
<1>5. PICK s : s = BuildRoutes(code, empty)
  OBVIOUS
<1>6. /\ Len(s) = Len(code)
      /\ \A i \in 1..Len(code) : s[i] =
               Compiled(code[i].path, code[i].method, "code", NotGiven, NotGiven, InheritedCache(code[i].path, empty))
  <2>1. Len(code) \in Nat /\ Len(empty) = 0
    BY <1>2, <1>4, LenProperties
  <2>2. Len(s) = Len(code) + Len(empty)
    BY <1>2, <1>4, <1>5, TableOf
  <2>3. \A i \in 1..Len(code) : s[i] =
               Compiled(code[i].path, code[i].method, "code", NotGiven, NotGiven, InheritedCache(code[i].path, empty))
    BY <1>2, <1>4, <1>5, TableOf
  <2> QED BY <2>1, <2>2, <2>3
<1>7. \A i \in 1..Len(s) : s[i].handler = NotGiven /\ s[i].pattern = code[i].path /\ i \in 1..Len(code)
  <2>1. \A p, a, b, c, d, e : /\ Compiled(p, a, b, c, d, e).handler = d
                              /\ Compiled(p, a, b, c, d, e).pattern = p
    BY DEF Compiled
  <2> QED BY <1>6, <2>1
<1>8. UnknownHandlers(s, code) = {}
  BY <1>7 DEF UnknownHandlers
<1> QED BY <1>1, <1>2, <1>3, <1>4, <1>5, <1>8 DEF ZInv

\* A table is replaced only by one that passed the check.
LEMMA RoutesNextOK == ZInv /\ [ZNext]_zvars => ZInv'
<1> SUFFICES ASSUME ZInv, [ZNext]_zvars PROVE ZInv'
  OBVIOUS
<1>1. ASSUME NEW c \in ConfigRoutes, AddConfigRoute(c) PROVE ZInv'
  <2>1. PICK new : new = Append(zroutes.config, c)
    OBVIOUS
  <2>2. zroutes' = [zroutes EXCEPT !.config = new] /\ UnknownHandlers(BuildRoutes(zroutes.code, new), zroutes.code) = {}
    BY <1>1, <2>1 DEF AddConfigRoute
  <2>3. zroutes.config \in Seq(ConfigRoutes) /\ zroutes.code \in Seq(CodeRoutes)
    BY DEF ZInv
  <2>4. new \in Seq(ConfigRoutes)
    BY <2>1, <2>3, AppendProperties
  <2>5. zroutes' = [code |-> zroutes.code, config |-> new]
    BY <2>2 DEF ZInv
  <2> QED BY <2>2, <2>3, <2>4, <2>5 DEF ZInv
<1>2. ASSUME zroutes' = zroutes PROVE ZInv'
  BY <1>2 DEF ZInv
<1>3. (\E c \in ConfigRoutes : AddConfigRoute(c)) \/ zroutes' = zroutes
  BY DEF ZNext, zvars, Ask, Answered
<1> QED BY <1>1, <1>2, <1>3

\* The only best of a table is the best in every order of the blocks.
LEMMA OnlyBestStays ==
  ASSUME NEW code \in Seq(CodeRoutes), NEW config \in Seq(ConfigRoutes), NEW f \in BlockOrders(Len(config)),
         NEW s, s = BuildRoutes(code, config), NEW path, NEW method,
         NEW C, C = Matching(path, method, s), NEW i \in C,
         \A j \in C : s[j].specificity <= s[i].specificity,
         \A j \in C : j # i => s[j].specificity # s[i].specificity
  PROVE  EqualRank(FindRoute(path, method, BuildRoutes(code, Reordered(config, f))), s[i])
<1>1. PICK t : t = BuildRoutes(code, Reordered(config, f))
  OBVIOUS
<1>2. /\ Reordered(config, f) \in Seq(ConfigRoutes)
      /\ \A k \in 1..Len(t) : \E j \in 1..Len(s) : EqualRank(t[k], s[j])
      /\ \A j \in 1..Len(s) : \E k \in 1..Len(t) : EqualRank(t[k], s[j])
  BY <1>1, ReorderedRows
<1>3. Scored(s) /\ Scored(t) /\ \E R : t \in Seq(R)
  BY <1>1, <1>2, TableOf
<1>4. PICK R : t \in Seq(R)
  BY <1>3
<1>5. PICK b, D : b = FindRoute(path, method, t) /\ D = Matching(path, method, t)
  OBVIOUS
<1>6. FirstBest(b, t, D)
  BY <1>3, <1>4, <1>5, FindIsFirstBest
<1>7. C \in SUBSET (1..Len(s)) /\ D \in SUBSET (1..Len(t))
  BY <1>5 DEF Matching
<1>8. PICK k \in 1..Len(t) : EqualRank(t[k], s[i])
  BY <1>2, <1>7
<1>9. k \in D
  BY <1>5, <1>8 DEF Matching, EqualRank
<1>10. PICK j \in D : b = t[j] /\ \A l \in D : t[l].specificity <= t[j].specificity
  BY <1>6, <1>9 DEF FirstBest
<1>11. PICK l \in 1..Len(s) : EqualRank(t[j], s[l])
  BY <1>2, <1>7, <1>10
<1>12. l \in C
  BY <1>5, <1>10, <1>11 DEF Matching, EqualRank
<1>13. s[l].specificity = t[j].specificity /\ t[k].specificity = s[i].specificity
  BY <1>8, <1>11 DEF EqualRank
<1>14. t[k].specificity <= t[j].specificity /\ s[l].specificity <= s[i].specificity
  BY <1>9, <1>10, <1>12
<1>15. s[l].specificity \in Nat /\ s[i].specificity \in Nat
  BY <1>3, <1>7, <1>12 DEF Scored
<1>16. s[l].specificity = s[i].specificity
  BY <1>13, <1>14, <1>15
<1>17. l = i
  BY <1>12, <1>16
<1> QED BY <1>1, <1>5, <1>10, <1>11, <1>17

\* Such a table answers as its reader expects.
LEMMA RoutesInvImplies == ZInv => ZMostSpecificWins
<1> SUFFICES ASSUME ZInv PROVE ZMostSpecificWins
  OBVIOUS
<1>1. PICK code \in Seq(CodeRoutes), config \in Seq(ConfigRoutes) : code = zroutes.code /\ config = zroutes.config
  BY DEF ZInv
<1>2. PICK s, path, method : s = BuildRoutes(code, config) /\ path = zreq.path /\ method = zreq.method
  OBVIOUS
<1>3. PICK R : s \in Seq(R)
  BY <1>2, TableOf
<1>4. Scored(s)
  BY <1>2, TableOf
<1>5. PICK b, C : b = FindRoute(path, method, s) /\ C = Matching(path, method, s)
  OBVIOUS
<1>6. FirstBest(b, s, C)
  BY <1>3, <1>4, <1>5, FindIsFirstBest
<1>7. C = Candidates(s)
  BY <1>2, <1>5 DEF Matching, Candidates
<1>8. Dispatch(b, code) # "500"
  <2>1. CASE b = NoRoute
    BY <2>1 DEF Dispatch
  <2>2. CASE b # NoRoute
    <3>1. PICK i \in C : b = s[i]
      BY <1>6, <2>2 DEF FirstBest
    <3>2. i \in 1..Len(s) /\ i \notin UnknownHandlers(s, code)
      BY <1>1, <1>2, <1>5, <3>1 DEF ZInv, Matching
    <3>3. b.handler # NotGiven => b.handler \in NamedHandlers
      BY <3>1, <3>2 DEF UnknownHandlers
    <3> QED BY <2>2, <3>3 DEF Dispatch
  <2> QED BY <2>1, <2>2
<1>9. ASSUME C # {}
      PROVE  \E i \in C :
               /\ b = s[i]
               /\ \A j \in C :
                    /\ ~Narrower(s[j].segments, s[i].segments)
                    /\ s[j].from = "code" /\ s[i].from = "config" => s[j].specificity # s[i].specificity
               /\ (\A j \in C : j # i => s[j].specificity # s[i].specificity)
                    => \A f \in BlockOrders(Len(config)) :
                         EqualRank(FindRoute(path, method, BuildRoutes(code, Reordered(config, f))), b)
  <2>1. PICK i \in C : /\ b = s[i]
                       /\ \A j \in C : s[j].specificity <= s[i].specificity
                       /\ \A j \in C : j < i => s[j].specificity < s[i].specificity
    BY <1>6, <1>9 DEF FirstBest
  <2>2. C \in SUBSET (1..Len(s)) /\ \A j \in C : s[j].specificity \in Nat
    BY <1>4, <1>5 DEF Matching, Scored
  <2>3. ASSUME NEW j \in C PROVE ~Narrower(s[j].segments, s[i].segments)
    <3>1. RowSeen(s[i]) /\ RowSeen(s[j])
      BY <1>2, <2>2, RowsOf
    <3>2. PICK p \in Patterns, q \in Patterns :
            /\ s[j].segments = CompilePattern(p) /\ s[i].segments = CompilePattern(q)
            /\ s[j].specificity = RouteSpecificity(CompilePattern(p))
            /\ s[i].specificity = RouteSpecificity(CompilePattern(q))
      BY <3>1 DEF RowSeen
    <3>3. ~(s[j].specificity > s[i].specificity)
      BY <2>1, <2>2
    <3> QED BY <3>2, <3>3, NarrowerScoresMore
  <2>4. ASSUME NEW j \in C, s[j].from = "code", s[i].from = "config"
        PROVE  s[j].specificity # s[i].specificity
    <3>1. PICK n \in Nat : n = Len(code)
      BY LenProperties
    <3>2. PICK x \in Nat, y \in Nat : x = i /\ y = j
      BY <2>2
    <3>3. s[i].from = (IF i <= n THEN "code" ELSE "config") /\ s[j].from = (IF j <= n THEN "code" ELSE "config")
      BY <1>2, <2>2, <3>1, RowsOf
    <3>4. y <= n /\ ~(x <= n)
      BY <2>4, <3>2, <3>3
    <3>5. j < i
      BY <3>2, <3>4
    <3> QED BY <2>1, <2>2, <3>5
  <2>5. ASSUME \A j \in C : j # i => s[j].specificity # s[i].specificity, NEW f \in BlockOrders(Len(config))
        PROVE  EqualRank(FindRoute(path, method, BuildRoutes(code, Reordered(config, f))), b)
    BY <1>2, <1>5, <2>1, <2>5, OnlyBestStays
  <2> QED BY <2>1, <2>3, <2>4, <2>5
<1>10. b = NoRoute <=> C = {}
  BY <1>6 DEF FirstBest
<1>11. /\ s = BuildRoutes(zroutes.code, zroutes.config) /\ C = Candidates(BuildRoutes(zroutes.code, zroutes.config))
       /\ b = FindRoute(zreq.path, zreq.method, BuildRoutes(zroutes.code, zroutes.config))
  BY <1>1, <1>2, <1>5, <1>7
<1> QED BY <1>1, <1>2, <1>8, <1>9, <1>10, <1>11 DEF ZMostSpecificWins, EqualRank

\* ZMostSpecificWins, for every set of routes in code and in the file: find_route gives nothing
\* exactly when no route matches, never a route with a wider pattern than another that matches,
\* and the same route in every order of the file's blocks unless two of the best tie; an accepted
\* configuration never dispatches to a handler that does not exist (m6-core app.rs).
THEOREM MostSpecificRouteWins == ZSpec => []ZMostSpecificWins
<1>1. ZInit => ZInv
  BY RoutesInitOK
<1>2. ZInv /\ [ZNext]_zvars => ZInv'
  BY RoutesNextOK
<1>3. ZInv => ZMostSpecificWins
  BY RoutesInvImplies
<1> QED BY <1>1, <1>2, <1>3, PTL DEF ZSpec

-----------------------------------------------------------------------------
(* BackendWire.  A verdict on a buffer is final: octets that arrive later    *)
(* turn neither a refusal nor a request into something else.                 *)

\* The chunk sizes a size line can name.
LEMMA SizeIsNat == \A t \in SizeLines : SizeOf(t) \in 0..2
BY DEF SizeLines, SizeOf

\* What the recursion of DecodeChunked asks of g.
Decoding(g, b) ==
    g = [i \in 1..(Len(b) + 1) |-> [out \in 0..MAX_CHUNKED_BODY |-> DecodeChunk(b, g, i, out)]]

\* DecodeChunked is what that function gives from the first octet.
LEMMA DecodeUnfold ==
  \A b, start : DecodeChunked(b, start) = (CHOOSE g : Decoding(g, b))[start][0]
BY DEF DecodeChunked, Decoding

\* A round looks only at rounds further on.
LEMMA DecodeLooksAhead ==
  ASSUME NEW b, Len(b) \in Nat, NEW g, NEW h, NEW i \in 1..(Len(b) + 1), NEW out,
         \A j \in (i + 1)..(Len(b) + 1) : g[j] = h[j]
  PROVE  DecodeChunk(b, g, i, out) = DecodeChunk(b, h, i, out)
<1>1. CASE LineEnds(b, i) = {} \/ FirstOf(LineEnds(b, i)) # i \/ b[i] \notin SizeLines
  BY <1>1 DEF DecodeChunk
<1>2. CASE b[i] \in SizeLines
  <2>1. PICK n \in Nat, k \in 0..2 : n = Len(b) /\ k = SizeOf(b[i])
    BY <1>2, SizeIsNat
  <2>2. CASE i + k + 1 > n
    BY <2>1, <2>2 DEF DecodeChunk
  <2>3. CASE ~(i + k + 1 > n)
    <3>1. i + k + 1 + 1 \in (i + 1)..(n + 1)
      BY <2>1, <2>3
    <3>2. g[i + k + 1 + 1] = h[i + k + 1 + 1]
      BY <2>1, <3>1
    <3> QED BY <2>1, <3>2 DEF DecodeChunk
  <2> QED BY <2>2, <2>3
<1> QED BY <1>1, <1>2

\* The recursion has a solution: it is built from the end of the buffer.
LEMMA DecodingExists ==
  ASSUME NEW b, Len(b) \in Nat
  PROVE  \E g : Decoding(g, b)
<1>1. PICK n \in Nat : n = Len(b)
  OBVIOUS
<1> DEFINE Late(k) == {i \in 1..(n + 1) : i + k > n + 1}
           Part(g, k) == g = [i \in Late(k) |-> [out \in 0..MAX_CHUNKED_BODY |-> DecodeChunk(b, g, i, out)]]
           N == {k \in Nat : \E g : Part(g, k)}
<1>2. 0 \in N
  <2>1. Late(0) = {}
    OBVIOUS
  <2>2. Part([i \in Late(0) |-> 0], 0)
    BY <2>1
  <2> QED BY <2>2
<1>3. ASSUME NEW k \in N PROVE k + 1 \in N
  <2>1. k \in Nat
    OBVIOUS
  <2>2. PICK g : Part(g, k)
    OBVIOUS
  <2> DEFINE h == [i \in Late(k + 1) |-> [out \in 0..MAX_CHUNKED_BODY |-> DecodeChunk(b, g, i, out)]]
  <2>3. ASSUME NEW i \in Late(k) PROVE i \in Late(k + 1) /\ h[i] = g[i]
    <3>1. i \in Late(k + 1)
      BY <2>1
    <3>2. h[i] = [out \in 0..MAX_CHUNKED_BODY |-> DecodeChunk(b, g, i, out)]
      BY <3>1
    <3>3. g[i] = [out \in 0..MAX_CHUNKED_BODY |-> DecodeChunk(b, g, i, out)]
      BY <2>2
    <3> QED BY <3>1, <3>2, <3>3
  <2>4. ASSUME NEW i \in Late(k + 1), NEW out \in 0..MAX_CHUNKED_BODY
        PROVE  DecodeChunk(b, g, i, out) = DecodeChunk(b, h, i, out)
    <3>1. \A j \in (i + 1)..(n + 1) : j \in Late(k)
      BY <2>1
    <3>2. \A j \in (i + 1)..(n + 1) : g[j] = h[j]
      BY <2>3, <3>1
    <3>3. i \in 1..(n + 1)
      OBVIOUS
    <3> HIDE DEF h
    <3> QED BY <1>1, <3>2, <3>3, DecodeLooksAhead
  <2>5. Part(h, k + 1)
    BY <2>4
  <2> HIDE DEF h
  <2>6. \E f : Part(f, k + 1)
    BY <2>5
  <2> HIDE DEF Part
  <2> QED BY <2>1, <2>6
<1>4. N = Nat
  <2> HIDE DEF N
  <2> QED BY <1>2, <1>3, NatSetInduction DEF N
<1>5. PICK g : Part(g, n + 1)
  <2>1. n + 1 \in N
    <3> HIDE DEF N
    <3> QED BY <1>4
  <2> HIDE DEF Part
  <2> QED BY <2>1
<1>6. Late(n + 1) = 1..(n + 1)
  OBVIOUS
<1> QED BY <1>1, <1>5, <1>6 DEF Decoding

\* So a verdict is the value of such a function.
LEMMA DecodeIs ==
  ASSUME NEW b, Len(b) \in Nat
  PROVE  \E g : Decoding(g, b) /\ \A start : DecodeChunked(b, start) = g[start][0]
<1>1. Decoding(CHOOSE g : Decoding(g, b), b)
  BY DecodingExists
<1> QED BY <1>1, DecodeUnfold

\* c is b and more after it.
Longer(b, c) ==
    /\ Len(b) \in Nat /\ Len(c) \in Nat /\ Len(b) <= Len(c)
    /\ \A i \in 1..Len(b) : c[i] = b[i]

\* The first of a set of indices that is not empty.
LEMMA FirstIs ==
  ASSUME NEW S \in SUBSET Nat, S # {}
  PROVE  FirstOf(S) \in S /\ \A l \in S : FirstOf(S) <= l
<1>1. \E j \in S : \A l \in S : j <= l
  BY NatLeast
<1> QED BY <1>1 DEF FirstOf

\* More of the buffer does not change which line ends first, ...
LEMMA FirstStays ==
  ASSUME NEW S \in SUBSET Nat, NEW T \in SUBSET Nat, NEW n \in Nat, S # {}, S \subseteq T,
         \A j \in S : j <= n, \A j \in T \ S : j > n
  PROVE  FirstOf(T) = FirstOf(S)
<1>1. PICK x, y : x = FirstOf(S) /\ y = FirstOf(T)
  OBVIOUS
<1>2. x \in S /\ \A l \in S : x <= l
  BY <1>1, FirstIs
<1>3. y \in T /\ \A l \in T : y <= l
  BY <1>1, FirstIs
<1>4. x \in Nat /\ y \in Nat /\ y <= x /\ x <= n
  BY <1>2, <1>3
<1>5. y \in S
  BY <1>3, <1>4
<1>6. x <= y
  BY <1>2, <1>5
<1> QED BY <1>1, <1>4, <1>6

\* ... nor a verdict on the chunk at i, once there is one ...
LEMMA RoundIsStable ==
  ASSUME NEW b, NEW c, Longer(b, c), NEW i \in 1..(Len(b) + 1), NEW out, NEW g, NEW h,
         DecodeChunk(b, g, i, out) # Incomplete,
         \A j \in (i + 1)..(Len(b) + 1) : \A o : o \in 0..MAX_CHUNKED_BODY =>
             (g[j][o] # Incomplete => h[j][o] = g[j][o]),
         out \in 0..MAX_CHUNKED_BODY
  PROVE  DecodeChunk(c, h, i, out) = DecodeChunk(b, g, i, out)
<1>1. PICK n \in Nat, m \in Nat : n = Len(b) /\ m = Len(c) /\ n <= m /\ \A j \in 1..n : c[j] = b[j]
  BY DEF Longer
<1>2. PICK S, T : S = LineEnds(b, i) /\ T = LineEnds(c, i)
  OBVIOUS
<1>3. S # {}
  BY <1>2 DEF DecodeChunk
<1>4. S \in SUBSET Nat /\ T \in SUBSET Nat /\ S \subseteq T /\ (\A j \in S : j <= n) /\ \A j \in T \ S : j > n
  BY <1>1, <1>2 DEF LineEnds
<1>5. FirstOf(T) = FirstOf(S) /\ T # {}
  BY <1>3, <1>4, FirstStays
<1>6. i \in 1..n /\ c[i] = b[i]
  <2>1. PICK j \in S : TRUE
    BY <1>3
  <2>2. i <= j /\ j <= n
    BY <1>1, <1>2, <2>1 DEF LineEnds
  <2>3. i \in Nat /\ i >= 1 /\ j \in Nat
    BY <1>1, <1>4, <2>1
  <2>4. i \in 1..n
    BY <2>2, <2>3
  <2> QED BY <1>1, <2>4
<1>7. CASE FirstOf(S) # i \/ b[i] \notin SizeLines
  BY <1>2, <1>3, <1>5, <1>6, <1>7 DEF DecodeChunk
<1>8. CASE FirstOf(S) = i /\ b[i] = "s0"
  <2>1. TrailersDone(b, i + 1)
    BY <1>2, <1>3, <1>8 DEF DecodeChunk, SizeLines
  <2>2. TrailersDone(c, i + 1)
    <3>1. PICK j \in (i + 1)..n : b[j] = "nl" /\ (j = i + 1 \/ b[j - 1] \in EndsLine)
      BY <1>1, <2>1 DEF TrailersDone
    <3>2. j \in 1..n /\ (j = i + 1 \/ j - 1 \in 1..n) /\ j \in (i + 1)..m
      BY <1>1, <1>6, <3>1
    <3>3. c[j] = "nl" /\ (j = i + 1 \/ c[j - 1] \in EndsLine)
      BY <1>1, <3>1, <3>2
    <3> QED BY <1>1, <3>2, <3>3 DEF TrailersDone
  <2> QED BY <1>2, <1>3, <1>5, <1>6, <1>8, <2>1, <2>2 DEF DecodeChunk, SizeLines
<1>9. CASE FirstOf(S) = i /\ b[i] \in SizeLines /\ b[i] # "s0"
  <2>1. PICK k \in 0..2 : k = SizeOf(b[i])
    BY <1>9, SizeIsNat
  <2>2. DecodeChunk(b, g, i, out) =
          IF out + k > MAX_CHUNKED_BODY THEN Bad
          ELSE IF n < i + ChunkNeeds(k) THEN Incomplete
          ELSE IF i + k + 1 > n \/ b[i + k + 1] # "nl" THEN Bad ELSE g[i + k + 1 + 1][out + k]
    BY <1>1, <1>2, <1>3, <1>9, <2>1 DEF DecodeChunk
  <2>3. DecodeChunk(c, h, i, out) =
          IF out + k > MAX_CHUNKED_BODY THEN Bad
          ELSE IF m < i + ChunkNeeds(k) THEN Incomplete
          ELSE IF i + k + 1 > m \/ c[i + k + 1] # "nl" THEN Bad ELSE h[i + k + 1 + 1][out + k]
    BY <1>1, <1>2, <1>5, <1>6, <1>9, <2>1 DEF DecodeChunk
  <2>4. CASE out + k > MAX_CHUNKED_BODY
    BY <2>2, <2>3, <2>4
  <2>5. CASE ~(out + k > MAX_CHUNKED_BODY)
    <3>1. ~(n < i + (k + 1))
      BY <2>2, <2>5 DEF ChunkNeeds
    <3>2. i + k + 1 \in 1..n /\ ~(m < i + (k + 1)) /\ ~(i + k + 1 > n) /\ ~(i + k + 1 > m)
      BY <1>1, <1>6, <2>1, <3>1
    <3>3. c[i + k + 1] = b[i + k + 1]
      BY <1>1, <3>2
    <3>4. CASE b[i + k + 1] # "nl"
      BY <2>2, <2>3, <2>5, <3>2, <3>3, <3>4 DEF ChunkNeeds
    <3>5. CASE b[i + k + 1] = "nl"
      <4>1. DecodeChunk(b, g, i, out) = g[i + k + 1 + 1][out + k]
        BY <2>2, <2>5, <3>1, <3>2, <3>5 DEF ChunkNeeds
      <4>2. DecodeChunk(c, h, i, out) = h[i + k + 1 + 1][out + k]
        BY <2>3, <2>5, <3>2, <3>3, <3>5 DEF ChunkNeeds
      <4>3. i + k + 1 + 1 \in (i + 1)..(n + 1) /\ out + k \in 0..MAX_CHUNKED_BODY
        <5>1. i + k + 1 + 1 \in (i + 1)..(n + 1)
          BY <1>1, <1>6, <3>2
        <5>2. PICK limit \in Nat : limit = MAX_CHUNKED_BODY
          BY WireAssumption
        <5>3. out + k \in 0..limit
          BY <2>5, <5>2
        <5> QED BY <5>1, <5>2, <5>3
      <4>4. h[i + k + 1 + 1][out + k] = g[i + k + 1 + 1][out + k]
        BY <1>1, <4>1, <4>3
      <4> QED BY <4>1, <4>2, <4>4
    <3> QED BY <3>4, <3>5
  <2> QED BY <2>4, <2>5
<1> QED BY <1>7, <1>8, <1>9

\* ... nor the verdict on the whole body.
LEMMA DecodeIsStable ==
  ASSUME NEW b, NEW c, Longer(b, c), NEW start \in 1..(Len(b) + 1), DecodeChunked(b, start) # Incomplete
  PROVE  DecodeChunked(c, start) = DecodeChunked(b, start)
<1>1. PICK n \in Nat, m \in Nat : n = Len(b) /\ m = Len(c) /\ n <= m
  BY DEF Longer
<1>2. PICK g : Decoding(g, b) /\ \A s : DecodeChunked(b, s) = g[s][0]
  BY <1>1, DecodeIs
<1>3. PICK h : Decoding(h, c) /\ \A s : DecodeChunked(c, s) = h[s][0]
  BY <1>1, DecodeIs
<1>4. \A i \in 1..(n + 1) : \A o \in 0..MAX_CHUNKED_BODY :
         g[i][o] = DecodeChunk(b, g, i, o) /\ h[i][o] = DecodeChunk(c, h, i, o)
  <2>1. \A i \in 1..(n + 1) : \A o \in 0..MAX_CHUNKED_BODY : g[i][o] = DecodeChunk(b, g, i, o)
    <3>1. ASSUME NEW i \in 1..(n + 1)
          PROVE  g[i] = [out \in 0..MAX_CHUNKED_BODY |-> DecodeChunk(b, g, i, out)]
      BY <1>1, <1>2 DEF Decoding
    <3> QED BY <3>1
  <2>2. \A i \in 1..(m + 1) : \A o \in 0..MAX_CHUNKED_BODY : h[i][o] = DecodeChunk(c, h, i, o)
    <3>1. ASSUME NEW i \in 1..(m + 1)
          PROVE  h[i] = [out \in 0..MAX_CHUNKED_BODY |-> DecodeChunk(c, h, i, out)]
      BY <1>1, <1>3 DEF Decoding
    <3> QED BY <3>1
  <2>3. \A i \in 1..(n + 1) : i \in 1..(m + 1)
    BY <1>1
  <2> QED BY <2>1, <2>2, <2>3
<1> DEFINE Same(i) == \A o \in 0..MAX_CHUNKED_BODY : g[i][o] # Incomplete => h[i][o] = g[i][o]
           N == {k \in Nat : \A i \in 1..(n + 1) : i + k > n + 1 => Same(i)}
<1>5. 0 \in N
  OBVIOUS
<1>6. ASSUME NEW k \in N PROVE k + 1 \in N
  <2>1. k \in Nat
    OBVIOUS
  <2>2. SUFFICES ASSUME NEW i \in 1..(n + 1), i + (k + 1) > n + 1 PROVE Same(i)
    BY <2>1
  <2>3. \A j \in (i + 1)..(n + 1) : Same(j)
    BY <2>1, <2>2
  <2>4. SUFFICES ASSUME NEW o \in 0..MAX_CHUNKED_BODY, g[i][o] # Incomplete PROVE h[i][o] = g[i][o]
    OBVIOUS
  <2>5. DecodeChunk(b, g, i, o) # Incomplete
    BY <1>4, <2>4
  <2>6. DecodeChunk(c, h, i, o) = DecodeChunk(b, g, i, o)
    <3>1. \A j \in (i + 1)..(n + 1) : \A p : p \in 0..MAX_CHUNKED_BODY =>
             (g[j][p] # Incomplete => h[j][p] = g[j][p])
      BY <2>3
    <3> QED BY <1>1, <2>5, <3>1, RoundIsStable
  <2> QED BY <1>4, <2>6
<1>7. N = Nat
  <2> HIDE DEF N
  <2> QED BY <1>5, <1>6, NatSetInduction DEF N
<1>8. n + 1 \in N /\ start + (n + 1) > n + 1 /\ start \in 1..(n + 1)
  <2>1. n + 1 \in N
    <3> HIDE DEF N
    <3> QED BY <1>7
  <2> HIDE DEF N
  <2> QED BY <1>1, <2>1
<1>9. Same(start)
  BY <1>8
<1>10. 0 \in 0..MAX_CHUNKED_BODY
  BY WireAssumption
<1> QED BY <1>2, <1>3, <1>9, <1>10

\* Nor the verdict on the request.
LEMMA ParseIsStable ==
  ASSUME NEW R, NEW b \in Seq(R), NEW t \in R, ParseRequest(b) # Incomplete
  PROVE  ParseRequest(Append(b, t)) = ParseRequest(b)
<1>1. PICK c : c = Append(b, t)
  OBVIOUS
<1>2. PICK n \in Nat : n = Len(b)
  BY LenProperties
<1>3. c \in Seq(R) /\ Len(c) = n + 1 /\ \A i \in 1..n : c[i] = b[i]
  BY <1>1, <1>2, AppendProperties
<1>4. Longer(b, c)
  BY <1>2, <1>3 DEF Longer
<1>5. HeadEnds(b) # {}
  BY DEF ParseRequest
<1>6. FirstOf(HeadEnds(c)) = FirstOf(HeadEnds(b)) /\ HeadEnds(c) # {}
  <2>1. PICK S, T : S = HeadEnds(b) /\ T = HeadEnds(c)
    OBVIOUS
  <2>2. S \in SUBSET Nat /\ T \in SUBSET Nat /\ S \subseteq T /\ (\A j \in S : j <= n) /\ \A j \in T \ S : j > n
    BY <1>2, <1>3, <2>1 DEF HeadEnds
  <2> QED BY <1>5, <2>1, <2>2, FirstStays
<1>7. PICK k \in 1..n : k = FirstOf(HeadEnds(b))
  <2>1. HeadEnds(b) \in SUBSET Nat /\ HeadEnds(b) \subseteq 1..n
    BY <1>2 DEF HeadEnds
  <2> QED BY <1>5, <2>1, FirstIs
<1>8. PICK h : h = HeadOf(b)
  OBVIOUS
<1>9. h = HeadOf(c) /\ Len(h) = k
  <2>1. SubSeq(b, 1, k) = [i \in 1..k |-> b[i]] /\ SubSeq(c, 1, k) = [i \in 1..k |-> c[i]]
    BY <1>2, <1>3, <1>7
  <2>2. SubSeq(b, 1, k) = SubSeq(c, 1, k)
    BY <1>3, <1>7, <2>1
  <2>3. Len(SubSeq(b, 1, k)) = k
    BY <1>2, <1>7
  <2> QED BY <1>6, <1>7, <1>8, <2>2, <2>3 DEF HeadOf
<1>10. PICK l : l = ContentLength(h)
  OBVIOUS
<1>11. l \in Nat
  BY <1>10 DEF ContentLength, Lengths
<1>12. ParseRequest(b) = IF BadHead(h) THEN Bad
                         ELSE IF Has(h, "te") THEN DecodeChunked(b, k + 1)
                         ELSE IF n - k < l THEN Incomplete ELSE Complete(l)
  BY <1>2, <1>5, <1>8, <1>9, <1>10 DEF ParseRequest
<1>13. ParseRequest(c) = IF BadHead(h) THEN Bad
                         ELSE IF Has(h, "te") THEN DecodeChunked(c, k + 1)
                         ELSE IF (n + 1) - k < l THEN Incomplete ELSE Complete(l)
  BY <1>3, <1>6, <1>8, <1>9, <1>10 DEF ParseRequest
<1>14. CASE BadHead(h)
  BY <1>1, <1>12, <1>13, <1>14
<1>15. CASE ~BadHead(h) /\ Has(h, "te")
  <2>1. DecodeChunked(b, k + 1) # Incomplete /\ k + 1 \in 1..(Len(b) + 1)
    BY <1>2, <1>12, <1>15
  <2>2. DecodeChunked(c, k + 1) = DecodeChunked(b, k + 1)
    BY <1>4, <2>1, DecodeIsStable
  <2> QED BY <1>1, <1>12, <1>13, <1>15, <2>2
<1>16. CASE ~BadHead(h) /\ ~Has(h, "te")
  <2>1. ~(n - k < l)
    BY <1>12, <1>16
  <2>2. ~((n + 1) - k < l)
    BY <1>11, <2>1
  <2> QED BY <1>1, <1>12, <1>13, <1>16, <2>1, <2>2
<1> QED BY <1>14, <1>15, <1>16


\* A head that is there stays the head.
LEMMA HeadStays ==
  ASSUME NEW R, NEW b \in Seq(R), NEW t \in R, HeadEnds(b) # {}
  PROVE  HeadEnds(Append(b, t)) # {} /\ HeadOf(Append(b, t)) = HeadOf(b)
<1>1. PICK c : c = Append(b, t)
  OBVIOUS
<1>2. PICK n \in Nat : n = Len(b)
  BY LenProperties
<1>3. c \in Seq(R) /\ Len(c) = n + 1 /\ \A i \in 1..n : c[i] = b[i]
  BY <1>1, <1>2, AppendProperties
<1>6. FirstOf(HeadEnds(c)) = FirstOf(HeadEnds(b)) /\ HeadEnds(c) # {}
  <2>1. PICK S, T : S = HeadEnds(b) /\ T = HeadEnds(c)
    OBVIOUS
  <2>2. S \in SUBSET Nat /\ T \in SUBSET Nat /\ S \subseteq T /\ (\A j \in S : j <= n) /\ \A j \in T \ S : j > n
    BY <1>2, <1>3, <2>1 DEF HeadEnds
  <2> QED BY <2>1, <2>2, FirstStays
<1>7. PICK k \in 1..n : k = FirstOf(HeadEnds(b))
  <2>1. HeadEnds(b) \in SUBSET Nat /\ HeadEnds(b) \subseteq 1..n
    BY <1>2 DEF HeadEnds
  <2> QED BY <2>1, FirstIs
<1>8. SubSeq(b, 1, k) = [i \in 1..k |-> b[i]] /\ SubSeq(c, 1, k) = [i \in 1..k |-> c[i]]
  BY <1>2, <1>3, <1>7
<1>9. SubSeq(b, 1, k) = SubSeq(c, 1, k)
  BY <1>3, <1>7, <1>8
<1> QED BY <1>1, <1>6, <1>7, <1>9 DEF HeadOf

\* A head that ends with the token just read is everything read.
LEMMA HeadArrives ==
  ASSUME NEW R, NEW b \in Seq(R), NEW t \in R, HeadEnds(b) = {}, HeadEnds(Append(b, t)) # {}
  PROVE  Len(HeadOf(Append(b, t))) = Len(b) + 1
<1>1. PICK c : c = Append(b, t)
  OBVIOUS
<1>2. PICK n \in Nat : n = Len(b)
  BY LenProperties
<1>3. c \in Seq(R) /\ Len(c) = n + 1 /\ \A i \in 1..n : c[i] = b[i]
  BY <1>1, <1>2, AppendProperties
<1>4. HeadEnds(c) \in SUBSET Nat /\ \A j \in HeadEnds(c) : j = n + 1
  BY <1>2, <1>3 DEF HeadEnds
<1>5. FirstOf(HeadEnds(c)) \in HeadEnds(c)
  BY <1>1, <1>4, FirstIs
<1>6. FirstOf(HeadEnds(c)) = n + 1
  BY <1>4, <1>5
<1>7. Len(SubSeq(c, 1, n + 1)) = n + 1
  BY <1>2, <1>3
<1> QED BY <1>1, <1>2, <1>6, <1>7 DEF HeadOf

\* What the parser may say.
ParserSays(v) == v.k \in {"incomplete", "complete", "error"}

LEMMA ParserWords == ParserSays(Incomplete) /\ ParserSays(Bad) /\ \A n : ParserSays(Complete(n))
BY DEF ParserSays, Incomplete, Bad, Complete

\* One round says it if the rounds after it do.
LEMMA RoundKinds ==
  ASSUME NEW b, Len(b) \in Nat, NEW i \in 1..(Len(b) + 1), NEW out \in 0..MAX_CHUNKED_BODY, NEW g,
         \A j \in (i + 1)..(Len(b) + 1) : \A p \in 0..MAX_CHUNKED_BODY : ParserSays(g[j][p])
  PROVE  ParserSays(DecodeChunk(b, g, i, out))
<1>1. PICK n \in Nat : n = Len(b)
  OBVIOUS
<1>2. CASE LineEnds(b, i) = {} \/ FirstOf(LineEnds(b, i)) # i \/ b[i] \notin SizeLines
  BY <1>2, ParserWords DEF DecodeChunk
<1>3. CASE ~(LineEnds(b, i) = {} \/ FirstOf(LineEnds(b, i)) # i \/ b[i] \notin SizeLines)
  <2>1. PICK k \in 0..2 : k = SizeOf(b[i])
    BY <1>3, SizeIsNat
  <2>2. CASE b[i] = "s0" \/ out + k > MAX_CHUNKED_BODY \/ n < i + ChunkNeeds(k)
    BY <1>1, <1>3, <2>1, <2>2, ParserWords DEF DecodeChunk
  <2>3. CASE ~(b[i] = "s0" \/ out + k > MAX_CHUNKED_BODY \/ n < i + ChunkNeeds(k))
    <3>1. CASE i + k + 1 > n \/ b[i + k + 1] # "nl"
      BY <1>1, <1>3, <2>1, <2>3, <3>1, ParserWords DEF DecodeChunk
    <3>2. CASE ~(i + k + 1 > n \/ b[i + k + 1] # "nl")
      <4>1. DecodeChunk(b, g, i, out) = g[i + k + 1 + 1][out + k]
        BY <1>1, <1>3, <2>1, <2>3, <3>2 DEF DecodeChunk
      <4>2. i + k + 1 + 1 \in (i + 1)..(n + 1) /\ out + k \in 0..MAX_CHUNKED_BODY
        BY <1>1, <2>1, <2>3, <3>2, WireAssumption
      <4> QED BY <1>1, <4>1, <4>2
    <3> QED BY <3>1, <3>2
  <2> QED BY <2>2, <2>3
<1> QED BY <1>2, <1>3

\* So the decoder does.
LEMMA DecodeKinds ==
  ASSUME NEW b, Len(b) \in Nat, NEW start \in 1..(Len(b) + 1)
  PROVE  ParserSays(DecodeChunked(b, start))
<1>1. PICK n \in Nat : n = Len(b)
  OBVIOUS
<1>2. PICK g : Decoding(g, b) /\ \A s : DecodeChunked(b, s) = g[s][0]
  BY DecodeIs
<1>4. \A i \in 1..(n + 1) : \A o \in 0..MAX_CHUNKED_BODY : g[i][o] = DecodeChunk(b, g, i, o)
  <2>1. ASSUME NEW i \in 1..(n + 1)
        PROVE  g[i] = [out \in 0..MAX_CHUNKED_BODY |-> DecodeChunk(b, g, i, out)]
    BY <1>1, <1>2 DEF Decoding
  <2> QED BY <2>1
<1> DEFINE Fine(i) == \A o \in 0..MAX_CHUNKED_BODY : ParserSays(g[i][o])
           N == {k \in Nat : \A i \in 1..(n + 1) : i + k > n + 1 => Fine(i)}
<1>5. 0 \in N
  OBVIOUS
<1>6. ASSUME NEW k \in N PROVE k + 1 \in N
  <2>1. k \in Nat
    OBVIOUS
  <2>2. SUFFICES ASSUME NEW i \in 1..(n + 1), i + (k + 1) > n + 1 PROVE Fine(i)
    BY <2>1
  <2>3. \A j \in (i + 1)..(n + 1) : Fine(j)
    BY <2>1, <2>2
  <2>4. SUFFICES ASSUME NEW o \in 0..MAX_CHUNKED_BODY PROVE ParserSays(g[i][o])
    OBVIOUS
  <2>5. ParserSays(DecodeChunk(b, g, i, o))
    BY <1>1, <2>3, RoundKinds
  <2> QED BY <1>4, <2>5
<1>7. N = Nat
  <2> HIDE DEF N
  <2> QED BY <1>5, <1>6, NatSetInduction DEF N
<1>8. n + 1 \in N /\ start + (n + 1) > n + 1 /\ start \in 1..(n + 1)
  <2>1. n + 1 \in N
    <3> HIDE DEF N
    <3> QED BY <1>7
  <2> HIDE DEF N
  <2> QED BY <1>1, <2>1
<1>9. Fine(start)
  BY <1>8
<1>10. 0 \in 0..MAX_CHUNKED_BODY
  BY WireAssumption
<1> QED BY <1>2, <1>9, <1>10

\* And the parser.
LEMMA ParseKinds == ASSUME NEW R, NEW b \in Seq(R) PROVE ParserSays(ParseRequest(b))
<1>1. PICK n \in Nat : n = Len(b)
  BY LenProperties
<1>2. CASE HeadEnds(b) = {}
  BY <1>2, ParserWords DEF ParseRequest
<1>3. CASE HeadEnds(b) # {}
  <2>1. PICK k \in 1..n : k = FirstOf(HeadEnds(b))
    <3>1. HeadEnds(b) \in SUBSET Nat /\ HeadEnds(b) \subseteq 1..n
      BY <1>1 DEF HeadEnds
    <3> QED BY <1>3, <3>1, FirstIs
  <2>2. PICK h : h = HeadOf(b)
    OBVIOUS
  <2>3. Len(h) = k
    BY <1>1, <2>1, <2>2 DEF HeadOf
  <2>4. ParserSays(DecodeChunked(b, k + 1))
    <3>1. k + 1 \in 1..(Len(b) + 1) /\ Len(b) \in Nat
      BY <1>1, <2>1
    <3> QED BY <3>1, DecodeKinds
  <2>5. ParseRequest(b) \in {Bad, DecodeChunked(b, k + 1), Incomplete, Complete(ContentLength(h))}
    BY <1>3, <2>2, <2>3 DEF ParseRequest
  <2> QED BY <2>4, <2>5, ParserWords
<1> QED BY <1>2, <1>3

-----------------------------------------------------------------------------
WTokens == {"line11", "line10"} \cup HeadTokens \cup BodyTokens
WireReplies == [head : BOOLEAN, status : Nat, promised : Nat, written : Nat, short : BOOLEAN]

Connections == [phase : {"parse", "serve", "done"}, open : BOOLEAN, served : Nat, last : WireReplies]

\* The head of b is there and asks for x.
HeadAsks(b, x) == HeadEnds(b) # {} /\ Expectation(HeadOf(b)) = x

\* Some of b exceeds a cap.
Exceeds(b) ==
    \/ Len(b) > MAX_HEADER_BYTES + MAX_BODY_BYTES
    \/ Len(b) > MAX_HEADER_BYTES /\ HeadEnds(b) = {}
    \/ HeadEnds(b) # {} /\ Len(HeadOf(b)) > MAX_HEADER_BYTES

\* A verdict v is one b accounts for.
Explained(b, v) ==
    /\ v.k \in {"complete", "error"} => ParseRequest(b) = v
    /\ v.k = "toolarge" => Exceeds(b)
    /\ v.k = "expectation" => HeadAsks(b, "unsupported")

\* The 100 Continues written go with the requests that ask for one.
Told(b, r) ==
    /\ r.answered => HeadEnds(b) # {}
    /\ r.told = IF r.answered /\ HeadAsks(b, "continue") THEN 1 ELSE 0

\* The reader has not fallen behind by more than a read.
ReaderBehind(b, r) ==
    /\ Len(b) - r.cut < READ_CHUNK
    /\ r.cut <= MAX_HEADER_BYTES + MAX_BODY_BYTES
    /\ (r.cut = Len(b) /\ HeadEnds(b) # {}) => r.answered

Readers == [cut : Nat, answered : BOOLEAN, told : Nat]
Verdicts == [k : {"incomplete", "complete", "error", "toolarge", "expectation"}, body : Nat]

ReaderOK(b, r, v) ==
    /\ r \in Readers
    /\ r.cut <= Len(b)
    /\ r.cut <= MAX_HEADER_BYTES + MAX_BODY_BYTES + READ_CHUNK
    /\ Explained(b, v)
    /\ Told(b, r)
    /\ v = Incomplete => ReaderBehind(b, r)

\* The buffer, the reader, the connection, and what the contract says of them.
WInv ==
    /\ wbuf \in Seq(WTokens)
    /\ wconn \in Connections
    /\ ReaderOK(wbuf, wread, wfirst)
    /\ WPromiseKept

\* The invariant gives the contract.
LEMMA WireInvGives == WInv => WContract
<1> SUFFICES ASSUME WInv PROVE WContract
  OBVIOUS
<1>1. PICK b, r, v : b = wbuf /\ r = wread /\ v = wfirst
  OBVIOUS
<1>2. ReaderOK(b, r, v)
  BY <1>1 DEF WInv
<1>3. WVerdictIsStable
  BY <1>1, <1>2 DEF ReaderOK, Explained, Exceeds, HeadAsks, WVerdictIsStable
<1>4. WNobodyWaits
  BY <1>1, <1>2 DEF ReaderOK, Told, HeadAsks, ReaderBehind, WNobodyWaits
<1> QED BY <1>3, <1>4 DEF WInv, WContract

\* A connection starts with nothing received.
LEMMA WireInitOK == WInit => WInv
<1> SUFFICES ASSUME WInit PROVE WInv
  OBVIOUS
<1>1. wbuf \in Seq(WTokens)
  <2>1. PICK T : T = WTokens
    OBVIOUS
  <2>2. "line11" \in T /\ "line10" \in T
    BY <2>1 DEF WTokens
  <2>3. <<"line11">> \in Seq(T) /\ <<"line10">> \in Seq(T)
    BY <2>2
  <2> QED BY <2>1, <2>3 DEF WInit
<1>2. wconn \in Connections /\ wconn.last = WNoAnswer
  <2>1. WNoAnswer \in WireReplies
    BY DEF WNoAnswer, WireReplies
  <2>2. PICK r : r = WNoAnswer
    OBVIOUS
  <2>3. wconn \in [phase : {"parse", "serve"}, open : {TRUE}, served : {0}, last : {r}]
    BY <2>2 DEF WInit
  <2>4. PICK ph \in {"parse", "serve"} : wconn = [phase |-> ph, open |-> TRUE, served |-> 0, last |-> r]
    BY <2>3
  <2>5. wconn.last = r /\ wconn \in [phase : {"parse", "serve", "done"}, open : BOOLEAN, served : Nat, last : {r}]
    BY <2>4
  <2> QED BY <2>1, <2>2, <2>5 DEF Connections
<1>3. ReaderOK(wbuf, wread, wfirst)
  <2>1. PICK b, r, v : b = wbuf /\ r = wread /\ v = wfirst
    OBVIOUS
  <2>2. b \in {<<"line11">>, <<"line10">>} /\ r = [cut |-> 0, answered |-> FALSE, told |-> 0] /\ v = Incomplete
    BY <2>1 DEF WInit
  <2>3. Len(b) = 1 /\ HeadEnds(b) = {}
    BY <2>2 DEF HeadEnds
  <2>4. r \in Readers /\ r.cut = 0 /\ r.told = 0 /\ r.answered = FALSE
    BY <2>2 DEF Readers
  <2>5. Explained(b, v)
    BY <2>2 DEF Explained, Incomplete
  <2>6. Told(b, r)
    BY <2>4 DEF Told
  <2>7. ReaderBehind(b, r)
    BY <2>3, <2>4, WireAssumption DEF ReaderBehind
  <2> QED BY <2>1, <2>3, <2>4, <2>5, <2>6, <2>7, WireAssumption DEF ReaderOK
<1>4. WPromiseKept
  BY <1>2 DEF WPromiseKept, WNoAnswer, Bodyless
<1> QED BY <1>1, <1>2, <1>3, <1>4 DEF WInv

\* What the buffer accounts for, a longer one does.
LEMMA ExplainedStays ==
  ASSUME NEW R, NEW b \in Seq(R), NEW t \in R, NEW v, Explained(b, v)
  PROVE  Explained(Append(b, t), v)
<1>1. PICK c : c = Append(b, t)
  OBVIOUS
<1>2. PICK n \in Nat : n = Len(b)
  BY LenProperties
<1>3. Len(c) = n + 1
  BY <1>1, <1>2, AppendProperties
<1>4. v.k \in {"complete", "error"} => ParseRequest(c) = v
  <2> SUFFICES ASSUME v.k \in {"complete", "error"} PROVE ParseRequest(c) = v
    OBVIOUS
  <2>1. ParseRequest(b) = v /\ v # Incomplete
    BY DEF Explained, Incomplete
  <2> QED BY <1>1, <2>1, ParseIsStable
<1>5. v.k = "expectation" => HeadAsks(c, "unsupported")
  BY <1>1, HeadStays DEF Explained, HeadAsks
<1>6. ASSUME Exceeds(b) PROVE Exceeds(c)
  <2>1. CASE n > MAX_HEADER_BYTES + MAX_BODY_BYTES
    BY <1>2, <1>3, <2>1, WireAssumption DEF Exceeds
  <2>2. CASE n > MAX_HEADER_BYTES /\ HeadEnds(b) = {} /\ HeadEnds(c) = {}
    BY <1>2, <1>3, <2>2, WireAssumption DEF Exceeds
  <2>3. CASE n > MAX_HEADER_BYTES /\ HeadEnds(b) = {} /\ HeadEnds(c) # {}
    <3>1. Len(HeadOf(c)) = n + 1
      BY <1>1, <1>2, <2>3, HeadArrives
    <3> QED BY <1>2, <2>3, <3>1, WireAssumption DEF Exceeds
  <2>4. CASE HeadEnds(b) # {} /\ Len(HeadOf(b)) > MAX_HEADER_BYTES
    BY <1>1, <2>4, HeadStays DEF Exceeds
  <2> QED BY <1>2, <1>6, <2>1, <2>2, <2>3, <2>4 DEF Exceeds
<1> QED BY <1>1, <1>4, <1>5, <1>6 DEF Explained

\* A round of the loop leaves a verdict the buffer accounts for.
LEMMA VerdictExplained ==
  ASSUME NEW R, NEW b \in Seq(R), NEW a \in BOOLEAN, NEW v, v = Verdict(b, a)
  PROVE  /\ Explained(b, v)
         /\ v = Incomplete => Len(b) <= CapOn(b) /\ (a \/ ~HeadAsks(b, "unsupported"))
<1>1. PICK p : p = ParseRequest(b)
  OBVIOUS
<1>2. PICK n \in Nat : n = Len(b)
  BY LenProperties
<1>3. CapOn(b) \in Nat
  BY WireAssumption DEF CapOn
<1>4. CASE p # Incomplete
  <2>1. v = p
    BY <1>1, <1>4 DEF Verdict
  <2>2. v.k # "toolarge" /\ v.k # "expectation"
    BY <1>1, <2>1, ParseKinds DEF ParserSays
  <2> QED BY <1>1, <1>4, <2>1, <2>2 DEF Explained
<1>5. CASE p = Incomplete /\ n > CapOn(b)
  <2>1. v = RequestTooLarge
    BY <1>1, <1>2, <1>5 DEF Verdict
  <2>2. Exceeds(b)
    BY <1>2, <1>5, WireAssumption DEF CapOn, Exceeds
  <2> QED BY <2>1, <2>2 DEF Explained, RequestTooLarge, Incomplete
<1>6. CASE p = Incomplete /\ ~(n > CapOn(b)) /\ HeadAsks(b, "unsupported") /\ ~a
  <2>1. v = ExpectationFailed
    BY <1>1, <1>2, <1>6 DEF Verdict, HeadAsks
  <2> QED BY <1>6, <2>1 DEF Explained, ExpectationFailed, Incomplete
<1>7. CASE p = Incomplete /\ ~(n > CapOn(b)) /\ (a \/ ~HeadAsks(b, "unsupported"))
  <2>1. v = Incomplete
    BY <1>1, <1>2, <1>7 DEF Verdict, HeadAsks
  <2>2. v.k = "incomplete"
    BY <2>1 DEF Incomplete
  <2> QED BY <1>2, <1>3, <1>7, <2>2 DEF Explained
<1> QED BY <1>4, <1>5, <1>6, <1>7

\* What a look leaves behind.
Looked(c, q, v) ==
    /\ q \in Readers
    /\ q.cut = Len(c)
    /\ q.cut <= MAX_HEADER_BYTES + MAX_BODY_BYTES + READ_CHUNK
    /\ Told(c, q)
    /\ v = Incomplete => ReaderBehind(c, q)

\* And of what the reader remembers.
LEMMA LookOK ==
  ASSUME NEW R, NEW b \in Seq(R), NEW t \in R, NEW r \in Readers, Told(b, r), ReaderBehind(b, r), r.cut <= Len(b),
         NEW c, c = Append(b, t), NEW v, v = Verdict(c, r.answered), NEW q, q = Look(c, r)
  PROVE  Looked(c, q, v)
<1>1. PICK n \in Nat : n = Len(b)
  BY LenProperties
<1>2. Len(c) = n + 1 /\ c \in Seq(R)
  BY <1>1, AppendProperties
<1>3. PICK k, a, d : r = [cut |-> k, answered |-> a, told |-> d] /\ k \in Nat /\ a \in BOOLEAN /\ d \in Nat
  BY DEF Readers
<1>4. PICK asks : asks = (v = Incomplete /\ HeadEnds(c) # {} /\ ~a)
  OBVIOUS
<1>45. asks = (Verdict(c, r.answered) = Incomplete /\ HeadEnds(c) # {} /\ ~r.answered)
  BY <1>3, <1>4
<1>5. r.cut = k /\ r.answered = a /\ r.told = d /\ asks \in BOOLEAN
  BY <1>3, <1>4
<1>6. PICK e : e = IF asks /\ Expectation(HeadOf(c)) = "continue" THEN d + 1 ELSE d
  OBVIOUS
<1>7. q = [cut |-> n + 1, answered |-> a \/ asks, told |-> e] /\ e \in Nat
  <2>1. q = [cut |-> Len(c), answered |-> r.answered \/ asks,
             told |-> IF asks /\ Expectation(HeadOf(c)) = "continue" THEN r.told + 1 ELSE r.told]
    BY <1>45, Zenon DEF Look
  <2> QED BY <1>2, <1>3, <1>5, <1>6, <2>1
<1>8. q \in Readers /\ q.cut = n + 1 /\ q.answered = (a \/ asks) /\ q.told = e
  BY <1>3, <1>5, <1>7 DEF Readers
<1>9. n - k < READ_CHUNK /\ k <= MAX_HEADER_BYTES + MAX_BODY_BYTES
  BY <1>1, <1>5 DEF ReaderBehind
<1>10. n + 1 <= MAX_HEADER_BYTES + MAX_BODY_BYTES + READ_CHUNK
  BY <1>3, <1>9, WireAssumption
<1>11. Told(c, q)
  <2>1. CASE a
    <3>1. HeadEnds(b) # {} /\ d = IF HeadAsks(b, "continue") THEN 1 ELSE 0
      BY <1>5, <2>1 DEF Told
    <3>2. HeadEnds(c) # {} /\ HeadOf(c) = HeadOf(b)
      BY <3>1, HeadStays
    <3>3. HeadAsks(c, "continue") = HeadAsks(b, "continue")
      BY <3>1, <3>2 DEF HeadAsks
    <3>4. e = d /\ q.answered = TRUE
      BY <1>4, <1>6, <1>8, <2>1
    <3> QED BY <1>8, <3>1, <3>2, <3>3, <3>4 DEF Told
  <2>2. CASE ~a /\ asks
    <3>1. d = 0
      BY <1>5, <2>2 DEF Told
    <3>2. HeadEnds(c) # {} /\ q.answered = TRUE
      BY <1>4, <1>8, <2>2
    <3>3. e = IF HeadAsks(c, "continue") THEN 1 ELSE 0
      BY <1>6, <2>2, <3>1, <3>2 DEF HeadAsks
    <3> QED BY <1>8, <3>2, <3>3 DEF Told
  <2>3. CASE ~a /\ ~asks
    <3>1. d = 0
      BY <1>5, <2>3 DEF Told
    <3>2. q.answered = FALSE /\ e = 0
      BY <1>6, <1>8, <2>3, <3>1
    <3> QED BY <1>8, <3>2 DEF Told
  <2> QED BY <1>3, <1>5, <2>1, <2>2, <2>3
<1>12. ASSUME v = Incomplete PROVE ReaderBehind(c, q)
  <2>1. Len(c) <= CapOn(c)
    BY <1>2, <1>3, <1>5, <1>12, VerdictExplained
  <2>2. n + 1 <= MAX_HEADER_BYTES + MAX_BODY_BYTES
    BY <1>2, <2>1, WireAssumption DEF CapOn
  <2>3. HeadEnds(c) # {} => q.answered
    BY <1>3, <1>4, <1>8, <1>12
  <2>4. Len(c) - q.cut < READ_CHUNK
    BY <1>2, <1>8, WireAssumption
  <2> QED BY <1>8, <2>2, <2>3, <2>4 DEF ReaderBehind
<1> QED BY <1>2, <1>8, <1>10, <1>11, <1>12 DEF Looked

\* What the reader remembers between two looks.
LEMMA WaitOK ==
  ASSUME NEW R, NEW b \in Seq(R), NEW t \in R, NEW r \in Readers, Told(b, r), NEW c, c = Append(b, t)
  PROVE  /\ Told(c, r)
         /\ (ReaderBehind(b, r) /\ r.cut <= Len(b) /\ Len(b) + 1 - r.cut < READ_CHUNK) => ReaderBehind(c, r)
<1>1. PICK n \in Nat : n = Len(b)
  BY LenProperties
<1>2. Len(c) = n + 1 /\ c \in Seq(R)
  BY <1>1, AppendProperties
<1>3. PICK k \in Nat : k = r.cut
  BY DEF Readers
<1>4. Told(c, r)
  <2>1. CASE r.answered
    <3>1. HeadEnds(b) # {}
      BY <2>1 DEF Told
    <3>2. HeadEnds(c) # {} /\ HeadOf(c) = HeadOf(b)
      BY <3>1, HeadStays
    <3>3. HeadAsks(c, "continue") = HeadAsks(b, "continue")
      BY <3>1, <3>2 DEF HeadAsks
    <3> QED BY <2>1, <3>2, <3>3 DEF Told
  <2>2. CASE ~r.answered
    BY <2>2 DEF Told
  <2> QED BY <2>1, <2>2
<1>5. ASSUME ReaderBehind(b, r), k <= n, n + 1 - k < READ_CHUNK PROVE ReaderBehind(c, r)
  <2>1. k # n + 1
    BY <1>5
  <2> QED BY <1>2, <1>3, <1>5, <2>1 DEF ReaderBehind
<1> QED BY <1>1, <1>3, <1>4, <1>5

\* A token read: a verdict that is there stays.
LEMMA WireReceiveOK ==
  ASSUME WInv, NEW t \in HeadTokens \cup BodyTokens, NEW ends \in BOOLEAN, Receive(t, ends)
  PROVE  WInv'
<1>1. PICK T, b, r, v : T = WTokens /\ b = wbuf /\ r = wread /\ v = wfirst
  OBVIOUS
<1>2. b \in Seq(T) /\ t \in T
  BY <1>1 DEF WInv, WTokens
<1>3. PICK c : c = Append(b, t)
  OBVIOUS
<1>4. wbuf' = c /\ wconn' = wconn
  BY <1>1, <1>3 DEF Receive
<1>5. c \in Seq(T)
  BY <1>2, <1>3, AppendProperties
<1>6. ReaderOK(b, r, v)
  BY <1>1 DEF WInv
<1>7. r \in Readers /\ r.cut <= Len(b) /\ r.cut <= MAX_HEADER_BYTES + MAX_BODY_BYTES + READ_CHUNK
      /\ Explained(b, v) /\ Told(b, r) /\ (v = Incomplete => ReaderBehind(b, r))
  BY <1>6 DEF ReaderOK
<1>8. Len(c) = Len(b) + 1 /\ Len(b) \in Nat /\ r.cut \in Nat
  BY <1>2, <1>3, <1>7, AppendProperties, LenProperties DEF Readers
<1>9. ReaderOK(c, wread', wfirst')
  <2>1. CASE ends /\ v = Incomplete
    <3>1. PICK w, q : w = Verdict(c, r.answered) /\ q = Look(c, r)
      OBVIOUS
    <3>2. wfirst' = w /\ wread' = q
      BY <1>1, <1>3, <2>1, <3>1 DEF Receive
    <3>3. r.answered \in BOOLEAN
      BY <1>7 DEF Readers
    <3>4. Explained(c, w)
      BY <1>5, <3>1, <3>3, VerdictExplained
    <3>5. Looked(c, q, w)
      <4>1. ReaderBehind(b, r)
        BY <1>7, <2>1
      <4>2. r \in Readers /\ Told(b, r) /\ r.cut <= Len(b)
        BY <1>7
      <4> QED BY <1>2, <1>3, <3>1, <4>1, <4>2, LookOK, Zenon
    <3> QED BY <1>8, <3>2, <3>4, <3>5 DEF ReaderOK, Looked
  <2>2. CASE ~(ends /\ v = Incomplete)
    <3>1. wfirst' = v /\ wread' = r
      BY <1>1, <2>2 DEF Receive
    <3>2. Explained(c, v)
      BY <1>2, <1>3, <1>7, ExplainedStays
    <3>3. Told(c, r)
      BY <1>2, <1>3, <1>7, WaitOK
    <3>4. v = Incomplete => Len(b) + 1 - r.cut < READ_CHUNK
      BY <1>1, <2>2 DEF Receive
    <3>5. v = Incomplete => ReaderBehind(c, r)
      BY <1>2, <1>3, <1>7, <3>4, WaitOK
    <3> QED BY <1>7, <1>8, <3>1, <3>2, <3>3, <3>5 DEF ReaderOK
  <2> QED BY <2>1, <2>2
<1>10. WPromiseKept'
  BY <1>4 DEF WInv, WPromiseKept
<1>11. wconn' \in Connections
  BY <1>4 DEF WInv
<1> QED BY <1>1, <1>4, <1>5, <1>9, <1>10, <1>11 DEF WInv

\* A reply that keeps its promise.
PromiseKept(r) ==
    /\ r.written <= r.promised
    /\ Bodyless(r.head, r.status) => r.written = 0
    /\ (r.written < r.promised) => (Bodyless(r.head, r.status) \/ r.short)

\* A step of the connection that leaves the buffer alone.
LEMMA WireAnswerOK ==
  ASSUME WInv, wbuf' = wbuf, wread' = wread, wfirst' = wfirst,
         wconn' \in Connections, PromiseKept(wconn'.last)
  PROVE  WInv'
BY DEF WInv, WPromiseKept, PromiseKept

\* Serving the request at the head of the buffer removes exactly that request.
LEMMA WireServeOK ==
  ASSUME WInv, NEW head \in BOOLEAN, NEW version, NEW connection, NEW status \in Nat, NEW body \in Bodies,
         Serve(head, version, connection, status, body)
  PROVE  WInv'
<1>1. PICK keep, none, sent :
        /\ keep = (KeepAlive(version, connection) /\ wconn.served + 1 < WMaxRequests)
        /\ none = Bodyless(head, status)
        /\ sent = IF none THEN 0 ELSE IF body.kind = "bytes" THEN body.len ELSE Streamed(body.len, body.avail)
  OBVIOUS
<1>2. PICK len \in Nat, avail \in Nat : len = body.len /\ avail = body.avail
  BY WireAssumption DEF Bodies
<1>3. none \in BOOLEAN /\ sent \in Nat /\ sent <= len /\ (none => sent = 0)
  BY <1>1, <1>2 DEF Bodyless, Streamed
<1>4. PICK r : r = [head |-> head, status |-> status, promised |-> len, written |-> sent,
                    short |-> ~none /\ sent < len]
  OBVIOUS
<1>5. r \in WireReplies
  BY <1>2, <1>3, <1>4 DEF WireReplies
<1>6. PromiseKept(r)
  BY <1>1, <1>2, <1>3, <1>4 DEF PromiseKept
<1>7. wconn' = [wconn EXCEPT !.served = @ + 1, !.open = keep,
                  !.phase = IF keep THEN "serve" ELSE "done", !.last = r]
  BY <1>1, <1>2, <1>4 DEF Serve
<1>8. keep \in BOOLEAN
  BY <1>1
<1>9. wconn' \in Connections /\ wconn'.last = r
  <2>1. PICK ph, op, sv, la : wconn = [phase |-> ph, open |-> op, served |-> sv, last |-> la] /\ sv \in Nat
    BY DEF WInv, Connections
  <2>2. PICK nx \in {"serve", "done"} : nx = IF keep THEN "serve" ELSE "done"
    OBVIOUS
  <2>3. wconn' = [phase |-> nx, open |-> keep, served |-> sv + 1, last |-> r]
    BY <1>7, <2>1, <2>2
  <2>4. nx \in {"parse", "serve", "done"} /\ sv + 1 \in Nat
    BY <2>1, <2>2
  <2> QED BY <1>5, <1>8, <2>3, <2>4 DEF Connections
<1>10. wbuf' = wbuf /\ wread' = wread /\ wfirst' = wfirst
  BY DEF Serve
<1> QED BY <1>6, <1>9, <1>10, WireAnswerOK

\* A refused request is answered once and the connection closes.
LEMMA WireErrorOK == ASSUME WInv, ReadError PROVE WInv'
<1>1. PICK replied \in BOOLEAN :
        wconn' = [wconn EXCEPT !.open = FALSE, !.phase = "done",
             !.last = IF replied THEN [head |-> FALSE, status |-> 400, promised |-> 1, written |-> 1, short |-> FALSE] ELSE @]
  BY DEF ReadError
<1>2. PICK old : old = wconn.last
  OBVIOUS
<1>3. PICK r : r = IF replied THEN [head |-> FALSE, status |-> 400, promised |-> 1, written |-> 1, short |-> FALSE]
                   ELSE old
  OBVIOUS
<1>4. old \in WireReplies /\ PromiseKept(old)
  BY <1>2 DEF WInv, WPromiseKept, PromiseKept, Connections
<1>5. r \in WireReplies
  BY <1>3, <1>4 DEF WireReplies
<1>6. PromiseKept(r)
  <2>1. CASE replied
    BY <1>3, <2>1 DEF PromiseKept, Bodyless
  <2>2. CASE ~replied
    BY <1>3, <1>4, <2>2
  <2> QED BY <2>1, <2>2
<1>7. wconn' = [wconn EXCEPT !.open = FALSE, !.phase = "done", !.last = r]
  BY <1>1, <1>2, <1>3
<1>8. wconn' \in Connections /\ wconn'.last = r
  <2>1. PICK ph, op, sv, la : wconn = [phase |-> ph, open |-> op, served |-> sv, last |-> la] /\ sv \in Nat
    BY DEF WInv, Connections
  <2>2. wconn' = [phase |-> "done", open |-> FALSE, served |-> sv, last |-> r]
    BY <1>7, <2>1
  <2> QED BY <1>5, <2>1, <2>2 DEF Connections
<1>9. wbuf' = wbuf /\ wread' = wread /\ wfirst' = wfirst
  BY DEF ReadError
<1> QED BY <1>6, <1>8, <1>9, WireAnswerOK

\* Every octet received and every answer preserves the invariant.
LEMMA WireNextOK == WInv /\ [WNext]_wvars => WInv'
<1> SUFFICES ASSUME WInv, [WNext]_wvars PROVE WInv'
  OBVIOUS
<1>1. ASSUME NEW t \in HeadTokens \cup BodyTokens, NEW ends \in BOOLEAN, Receive(t, ends) PROVE WInv'
  BY <1>1, WireReceiveOK
<1>2. CASE ReadError
  BY <1>2, WireErrorOK
<1>3. ASSUME NEW head \in BOOLEAN, NEW version \in {"1.0", "1.1"}, NEW connection \in {"none", "close", "keep-alive"},
             NEW status \in {200, 204, 304, 404}, NEW body \in Bodies,
             Serve(head, version, connection, status, body)
      PROVE  WInv'
  <2>1. status \in Nat
    OBVIOUS
  <2> QED BY <1>3, <2>1, WireServeOK
<1>4. CASE UNCHANGED wvars
  BY <1>4 DEF wvars, WInv, WPromiseKept
<1> QED BY <1>1, <1>2, <1>3, <1>4 DEF WNext

\* WContract, for every sequence of tokens, every split of it over reads and every size of the caps: a
\* verdict of the parser stands whatever arrives after it, the reader refuses on its own account only
\* what exceeds a cap or asks for an expectation it does not know, a peer that waits for 100 Continue
\* gets it, once, and an answer writes what it promised, less only when the file was shorter
\* (m6-core h1.rs, parse.rs, server.rs).
THEOREM WireVerdictsAreStable == WSpec => []WContract
<1>1. WInit => WInv
  BY WireInitOK
<1>2. WInv /\ [WNext]_wvars => WInv'
  BY WireNextOK
<1>3. WInv => WContract
  BY WireInvGives
<1> QED BY <1>1, <1>2, <1>3, PTL DEF WSpec
=============================================================================
