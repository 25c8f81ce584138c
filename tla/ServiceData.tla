---------------------------- MODULE ServiceData ----------------------------
(***************************************************************************)
(* The files a service's handlers keep beside the site: Request::read_json,*)
(* write_json, write_json_atomic, write_bytes, list_json and touch of      *)
(* m6-core/src/request.rs, as system calls on inodes, run by the workers   *)
(* of one process.  A value is written as two blocks, since write_all is   *)
(* a loop of write(2) and a reader is a loop of read(2).                   *)
(*                                                                         *)
(* dnode    what each inode holds, whether it has been synced, and whether *)
(*          two calls were at the temporary file it was made as            *)
(* dname    the directory: file name to inode (0: no such name)            *)
(* dold     what each name was bound to before a rename that a power loss  *)
(*          may undo                                                       *)
(* dwork    what each worker is doing                                      *)
(* dseen    the file read last, what the read returned, and whether it     *)
(*          came from such an inode                                        *)
(* dcrash   how often the machine has lost power                           *)
(***************************************************************************)
EXTENDS Naturals, Sequences

CONSTANTS DWorkers,     \* the worker threads that run handlers
          DPaths,       \* the files handlers write
          DTmpOf,       \* path.with_extension("tmp"), per path
          DCalls,       \* <<worker, operation, path>>: what the handlers do
          DValues,      \* what they write
          DInodes,      \* how many inodes the file system hands out
          DMaxCrashes   \* how often power is lost

ASSUME DataAssumption ==
    /\ DValues \subseteq Nat \ {0}
    /\ DInodes \in Nat
    /\ DMaxCrashes \in Nat
    /\ DCalls \subseteq DWorkers \X {"atomic", "plain", "read", "list", "touch"} \X DPaths
    /\ \A p \in DPaths : DTmpOf[p] \notin DPaths    \* no handler's own file is a .tmp

VARIABLES dnode, dname, dold, dwork, dseen, dcrash

dvars == <<dnode, dname, dold, dwork, dseen, dcrash>>

DNames == DPaths \cup {DTmpOf[p] : p \in DPaths}

(* An inode: the blocks it holds, and whether they are on the disk.        *)
EmptyNode(s) == [data |-> <<>>, synced |-> FALSE, shared |-> s]

AtRest == [op |-> "none", path |-> "", at |-> "idle", val |-> 0,
           node |-> 0, off |-> 0, got |-> <<>>, left |-> {}]

Whole(d) == \E v \in DValues : d = <<v, v>>

DInit ==
    /\ dnode = <<>>
    /\ dname = [n \in DNames |-> 0]
    /\ dold = [n \in DNames |-> 0]
    /\ dwork = [w \in DWorkers |-> AtRest]
    /\ dseen = <<>>
    /\ dcrash = 0

(* A handler calls one of the operations.  validated_path has refused a    *)
(* parent component, and the parent directories exist.  touch looks at     *)
(* the name now and acts on what it saw in a later step.                   *)
FirstStep(op, p) ==
    CASE op = "atomic" -> "create"
      [] op = "plain"  -> "open"
      [] op = "touch"  -> IF dname[p] # 0 THEN "stamp" ELSE "make"
      [] op = "read"   -> "lookup"
      [] op = "list"   -> "listdir"

Call(w, op, p, v) ==
    /\ <<w, op, p>> \in DCalls
    /\ dwork[w].at = "idle"
    /\ dwork' = [dwork EXCEPT ![w] = [AtRest EXCEPT !.op = op, !.path = p,
                                                    !.at = FirstStep(op, p),
                                                    !.val = v]]
    /\ UNCHANGED <<dnode, dname, dold, dseen, dcrash>>

(* Where a worker goes next, and what it forgets when its call returns.    *)
Went(k, at) == IF at = "idle" THEN AtRest ELSE [k EXCEPT !.at = at]

Goto(w, at) == dwork' = [dwork EXCEPT ![w] = Went(@, at)]

(* Another worker is between its File::create of that temporary name and   *)
(* its rename - the name depends on the path alone, less its extension -   *)
(* or has the file of that name open still.                                *)
Busy(k) == k.op = "atomic" /\ k.at \in {"write", "sync", "rename"}

InUse(w, n) ==
    \E u \in DWorkers \ {w} :
        /\ Busy(dwork[u])
        /\ DTmpOf[dwork[u].path] = n \/ (dname[n] # 0 /\ dwork[u].node = dname[n])

(* File::create: an existing file is truncated in place, a missing one is  *)
(* a new inode.  "n" is the temporary file of an atomic write, and the     *)
(* file itself for std::fs::write and for touch's create.                  *)
CreateFile(w, n, next) ==
    /\ \/ /\ dname[n] # 0
          /\ dnode' = [dnode EXCEPT ![dname[n]] = EmptyNode(InUse(w, n))]
          /\ dwork' = [dwork EXCEPT ![w] = Went([@ EXCEPT !.node = dname[n]], next)]
          /\ UNCHANGED <<dname, dold>>
       \/ /\ dname[n] = 0
          /\ Len(dnode) < DInodes
          /\ dnode' = Append(dnode, EmptyNode(InUse(w, n)))
          /\ dname' = [dname EXCEPT ![n] = Len(dnode) + 1]
          /\ dold' = [dold EXCEPT ![n] = 0]
          /\ dwork' = [dwork EXCEPT ![w] = Went([@ EXCEPT !.node = Len(dnode) + 1], next)]
    /\ UNCHANGED <<dseen, dcrash>>

CreateTmp(w) == dwork[w].at = "create" /\ CreateFile(w, DTmpOf[dwork[w].path], "write")

OpenPlain(w) == dwork[w].at = "open" /\ CreateFile(w, dwork[w].path, "write")

(* One write(2) at the file handle's own offset; a hole is zeroes.         *)
PutAt(d, i, v) == [j \in 1..(IF i > Len(d) THEN i ELSE Len(d)) |->
                     IF j = i THEN v ELSE IF j <= Len(d) THEN d[j] ELSE 0]

WriteBlock(w) ==
    LET k == dwork[w]
    IN  /\ k.at = "write"
        /\ dnode' = [dnode EXCEPT ![k.node] =
                        [data |-> PutAt(@.data, k.off + 1, k.val), synced |-> FALSE,
                         shared |-> @.shared]]
        /\ dwork' = [dwork EXCEPT ![w] =
                        Went([k EXCEPT !.off = @ + 1],
                             IF k.off = 0 THEN "write"
                             ELSE IF k.op = "atomic" THEN "sync" ELSE "idle")]
        /\ UNCHANGED <<dname, dold, dseen, dcrash>>

(* sync_all on the temporary file.                                         *)
SyncTmpSkipped(w) ==
    /\ dwork[w].at = "sync"
    /\ Goto(w, "rename")
    /\ UNCHANGED <<dnode, dname, dold, dseen, dcrash>>

SyncTmp(w) ==
    /\ dwork[w].at = "sync"
    /\ dnode' = [dnode EXCEPT ![dwork[w].node].synced = TRUE]
    /\ Goto(w, "rename")
    /\ UNCHANGED <<dname, dold, dseen, dcrash>>

(* rename(tmp, path): whatever has that name now, though another worker    *)
(* may have made it; it fails when another has already moved it away.      *)
RenameTmp(w) ==
    LET p == dwork[w].path
        t == DTmpOf[p]
    IN  /\ dwork[w].at = "rename"
        /\ IF dname[t] = 0
           THEN UNCHANGED <<dname, dold>>
           ELSE /\ dname' = [dname EXCEPT ![p] = dname[t], ![t] = 0]
                /\ dold' = [dold EXCEPT ![p] = dname[p], ![t] = dname[t]]
        /\ Goto(w, "idle")
        /\ UNCHANGED <<dnode, dseen, dcrash>>

(* touch: set_file_times and an open for writing that truncates nothing,   *)
(* or File::create when the file was not there.                            *)
StampFile(w) ==
    /\ dwork[w].at = "stamp"
    /\ Goto(w, "idle")
    /\ UNCHANGED <<dnode, dname, dold, dseen, dcrash>>

MakeFile(w) == dwork[w].at = "make" /\ CreateFile(w, dwork[w].path, "idle")

(* std::fs::read: open, then read block by block to the end.               *)
OpenForRead(w) ==
    LET k == dwork[w]
    IN  /\ k.at = "lookup"
        /\ dwork' = [dwork EXCEPT ![w] =
                       IF dname[k.path] = 0 THEN AtRest
                       ELSE [@ EXCEPT !.at = "slurp", !.node = dname[k.path],
                                      !.off = 0, !.got = <<>>]]
        /\ UNCHANGED <<dnode, dname, dold, dseen, dcrash>>

ReadBlock(w) ==
    LET k == dwork[w]
        d == dnode[k.node].data
    IN  /\ k.at = "slurp"
        /\ IF k.off < Len(d)
           THEN /\ dwork' = [dwork EXCEPT ![w].got = Append(@, d[k.off + 1]),
                                          ![w].off = @ + 1]
                /\ UNCHANGED dseen
           ELSE /\ dseen' = <<k.path, k.got, dnode[k.node].shared>>
                /\ dwork' = [dwork EXCEPT ![w] =
                                Went([@ EXCEPT !.node = 0, !.got = <<>>],
                                     IF k.op = "list" THEN "next" ELSE "idle")]
        /\ UNCHANGED <<dnode, dname, dold, dcrash>>

(* list_json: the names are read first and each file is opened after that. *)
(* A name with another extension - the temporary file - is not one of      *)
(* them.  The first file that cannot be read ends the call with an error.  *)
ListDir(w) ==
    /\ dwork[w].at = "listdir"
    /\ dwork' = [dwork EXCEPT ![w].at = "next", ![w].left = {p \in DPaths : dname[p] # 0}]
    /\ UNCHANGED <<dnode, dname, dold, dseen, dcrash>>

ListNext(w) ==
    LET k == dwork[w]
    IN  /\ k.at = "next"
        /\ IF k.left = {}
           THEN dwork' = [dwork EXCEPT ![w] = AtRest]
           ELSE \E p \in k.left :
                  dwork' = [dwork EXCEPT ![w].at = "lookup", ![w].path = p,
                                         ![w].left = @ \ {p}]
        /\ UNCHANGED <<dnode, dname, dold, dseen, dcrash>>

(* Power is lost: every worker stops, an inode that was never synced keeps *)
(* any prefix of its blocks, and a rename that had not reached the disk    *)
(* may be undone.                                                          *)
DPrefixes(d) == {SubSeq(d, 1, i) : i \in 0..Len(d)}

PowerLoss ==
    /\ dcrash < DMaxCrashes
    /\ dcrash' = dcrash + 1
    /\ dwork' = [w \in DWorkers |-> AtRest]
    /\ \E keep \in {f \in [DOMAIN dnode -> UNION {DPrefixes(dnode[i].data) : i \in DOMAIN dnode}] :
                       \A i \in DOMAIN dnode :
                           IF dnode[i].synced THEN f[i] = dnode[i].data
                           ELSE f[i] \in DPrefixes(dnode[i].data)} :
          dnode' = [i \in DOMAIN dnode |-> [dnode[i] EXCEPT !.data = keep[i], !.synced = TRUE]]
    /\ \/ dname' = dname
       \/ \E p \in DPaths :
            /\ dold[p] # 0
            /\ dname' = [dname EXCEPT ![p] = dold[p]]
    /\ dold' = [n \in DNames |-> 0]
    /\ UNCHANGED dseen

DStep(w) ==
    \/ \E c \in DCalls, v \in DValues \cup {0} :
          /\ c[1] = w
          /\ (v = 0) <=> (c[2] \notin {"atomic", "plain"})
          /\ Call(w, c[2], c[3], v)
    \/ CreateTmp(w) \/ OpenPlain(w) \/ WriteBlock(w) \/ SyncTmp(w) \/ RenameTmp(w)
    \/ StampFile(w) \/ MakeFile(w)
    \/ OpenForRead(w) \/ ReadBlock(w) \/ ListDir(w) \/ ListNext(w)

DNext == PowerLoss \/ \E w \in DWorkers : DStep(w)

DSpec == DInit /\ [][DNext]_dvars

AtomicPaths == {p \in DPaths : \A c \in DCalls : c[3] = p => c[2] \notin {"plain", "touch"}}

(* A file that handlers write with write_json_atomic or write_bytes is     *)
(* absent or holds one value entirely ("Write a JSON value atomically"):   *)
(* in the directory, in what any read_json or list_json returned, and      *)
(* after the machine loses power between two of the writer's steps.  It    *)
(* may be torn only if it came from a temporary file that two calls were   *)
(* at, which nothing in write_json_atomic prevents; and the next write     *)
(* that is alone makes it whole again.                                     *)
DFilesAreWhole ==
    /\ \A p \in AtomicPaths :
          dname[p] # 0 /\ ~dnode[dname[p]].shared => Whole(dnode[dname[p]].data)
    /\ dseen # <<>> /\ dseen[1] \in AtomicPaths /\ ~dseen[3] => Whole(dseen[2])
=============================================================================
