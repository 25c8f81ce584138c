--------------------------- MODULE MarkdownWatch ---------------------------
(***************************************************************************)
(* m6-md --watch: a directory of Markdown becomes one JSON file, again     *)
(* whenever the directory changes (run, process, process_file in           *)
(* m6-md/src/main.rs).  The directory is changed by an editor, and the     *)
(* watcher thread puts an event in a channel for each change.              *)
(*                                                                         *)
(* jdocs    the directory: each document's version, 0 when there is none   *)
(* jbad     the documents whose frontmatter does not parse                 *)
(* jout     the output file: what it says of each document                 *)
(* jchan    the events the watcher has sent and the loop has not taken     *)
(* jwatch   whether the watcher is running                                 *)
(* jloop    where the program is, with the documents still to read and     *)
(*          those read so far                                              *)
(* jedits   how many changes were made                                     *)
(* jmissed  whether a change since the last attempt has no event left      *)
(* jtried   the directory as it was when the last attempt began            *)
(* jfailed  whether the last attempt failed                                *)
(***************************************************************************)
EXTENDS Naturals, Sequences

CONSTANTS JDocs,       \* the names of the Markdown files
          JMaxEdits    \* how many changes are made in the directory

ASSUME MarkdownAssumption == JMaxEdits \in Nat

VARIABLES jdocs, jbad, jout, jchan, jwatch, jloop, jedits, jmissed, jtried, jfailed

jvars == <<jdocs, jbad, jout, jchan, jwatch, jloop, jedits, jmissed, jtried, jfailed>>

NoDocs == [d \in JDocs |-> 0]

At(pc) == [pc |-> pc, left |-> {}, read |-> NoDocs]

JInit ==
    /\ jdocs \in [JDocs -> {0, 1}]
    /\ jbad = {}
    /\ jout = NoDocs
    /\ jchan = <<>>
    /\ jwatch = FALSE
    /\ jloop = At("process")
    /\ jedits = 0
    /\ jmissed = FALSE
    /\ jtried = NoDocs
    /\ jfailed = FALSE

-----------------------------------------------------------------------------
(* process: the directory is listed, each file is read and parsed in turn, *)
(* and the output is written beside its place and renamed into it.         *)

(* A loop that has started goes back to waiting after an attempt; the      *)
(* first one starts the watch when it succeeds and ends the program when   *)
(* it does not.                                                            *)
Attempt == jtried' = jdocs /\ jmissed' = FALSE

Fails == jfailed' = TRUE /\ jloop' = At(IF jwatch THEN "wait" ELSE "ended")

ListDocs ==
    /\ jloop.pc = "process"
    /\ jloop' = [pc |-> "reading", left |-> {d \in JDocs : jdocs[d] # 0}, read |-> NoDocs]
    /\ Attempt
    /\ UNCHANGED <<jdocs, jbad, jout, jchan, jwatch, jedits, jfailed>>

(* The input is no directory or cannot be listed, or there is no directory *)
(* to write the output in.                                                 *)
ProcessFails ==
    /\ jloop.pc = "process"
    /\ Fails
    /\ Attempt
    /\ UNCHANGED <<jdocs, jbad, jout, jchan, jwatch, jedits>>

(* A document that is gone or does not parse ends the run, and the output  *)
(* stays as it was.                                                        *)
ReadDoc(d) ==
    /\ jloop.pc = "reading"
    /\ d \in jloop.left
    /\ IF jdocs[d] = 0 \/ d \in jbad
       THEN Fails
       ELSE /\ jloop' = [jloop EXCEPT !.left = @ \ {d}, !.read[d] = jdocs[d]]
            /\ UNCHANGED jfailed
    /\ UNCHANGED <<jdocs, jbad, jout, jchan, jwatch, jedits, jmissed, jtried>>

(* The events of a burst are dropped before the files are read, never      *)
(* after: what arrives while they are read waits for the next turn.        *)
WriteOutDrains ==
    /\ jloop.pc = "reading"
    /\ jloop.left = {}
    /\ jout' = jloop.read
    /\ jchan' = <<>>
    /\ jfailed' = FALSE
    /\ jloop' = At(IF jwatch THEN "wait" ELSE "watch")
    /\ UNCHANGED <<jdocs, jbad, jwatch, jedits, jmissed, jtried>>

WriteOut ==
    /\ jloop.pc = "reading"
    /\ jloop.left = {}
    /\ jout' = jloop.read
    /\ jfailed' = FALSE
    /\ jloop' = At(IF jwatch THEN "wait" ELSE "watch")
    /\ UNCHANGED <<jdocs, jbad, jchan, jwatch, jedits, jmissed, jtried>>

(* The temporary file cannot be written or renamed: the output stays as it *)
(* was.                                                                    *)
WriteFails ==
    /\ jloop.pc = "reading"
    /\ jloop.left = {}
    /\ Fails
    /\ UNCHANGED <<jdocs, jbad, jout, jchan, jwatch, jedits, jmissed, jtried>>

-----------------------------------------------------------------------------
(* run: the watch starts after the first output is written, and a watch    *)
(* that does not start ends the program.                                   *)
StartWatch ==
    /\ jloop.pc = "watch"
    /\ \E ok \in BOOLEAN : jwatch' = ok /\ jloop' = At(IF ok THEN "wait" ELSE "ended")
    /\ UNCHANGED <<jdocs, jbad, jout, jchan, jedits, jmissed, jtried, jfailed>>

(* The first event of a burst is about a Markdown file: wait for the rest. *)
TakeEvent ==
    /\ jloop.pc = "wait"
    /\ jchan # <<>>
    /\ Head(jchan) = "md"
    /\ jchan' = Tail(jchan)
    /\ jloop' = At("burst")
    /\ UNCHANGED <<jdocs, jbad, jout, jwatch, jedits, jmissed, jtried, jfailed>>

(* It is about another file: it is dropped, and everything behind it.      *)
DropEvents ==
    /\ jloop.pc = "wait"
    /\ jchan # <<>>
    /\ Head(jchan) # "md"
    /\ jchan' = <<>>
    /\ jmissed' = (jmissed \/ \E i \in DOMAIN jchan : jchan[i] = "md")
    /\ UNCHANGED <<jdocs, jbad, jout, jwatch, jloop, jedits, jtried, jfailed>>

(* 50 ms later what came since is dropped and the files are read.          *)
EndBurst ==
    /\ jloop.pc = "burst"
    /\ jchan' = <<>>
    /\ jloop' = At("process")
    /\ UNCHANGED <<jdocs, jbad, jout, jwatch, jedits, jmissed, jtried, jfailed>>

(* A shutdown signal, seen between two turns.                              *)
StopWatching ==
    /\ jloop.pc \in {"wait", "burst"}
    /\ jloop' = At("ended")
    /\ UNCHANGED <<jdocs, jbad, jout, jchan, jwatch, jedits, jmissed, jtried, jfailed>>

-----------------------------------------------------------------------------
(* The editor (external): a document is saved, broken or removed, or some  *)
(* other file - a swap file, a draft in another format - is.               *)
Event(e) == jchan' = IF jwatch THEN Append(jchan, e) ELSE jchan

MayEdit == jedits < JMaxEdits /\ jedits' = jedits + 1

SaveDoc(d, good) ==
    /\ MayEdit
    /\ jdocs' = [jdocs EXCEPT ![d] = jedits + 2]
    /\ jbad' = IF good THEN jbad \ {d} ELSE jbad \cup {d}
    /\ Event("md")
    /\ jmissed' = (jmissed \/ ~jwatch)
    /\ UNCHANGED <<jout, jwatch, jloop, jtried, jfailed>>

RemoveDoc(d) ==
    /\ MayEdit
    /\ jdocs[d] # 0
    /\ jdocs' = [jdocs EXCEPT ![d] = 0]
    /\ jbad' = jbad \ {d}
    /\ Event("md")
    /\ jmissed' = (jmissed \/ ~jwatch)
    /\ UNCHANGED <<jout, jwatch, jloop, jtried, jfailed>>

SaveOther ==
    /\ MayEdit
    /\ Event("other")
    /\ UNCHANGED <<jdocs, jbad, jout, jwatch, jloop, jmissed, jtried, jfailed>>

Editor ==
    \/ \E d \in JDocs : RemoveDoc(d) \/ \E good \in BOOLEAN : SaveDoc(d, good)
    \/ SaveOther

Program ==
    \/ ListDocs \/ ProcessFails \/ WriteOut \/ WriteFails
    \/ StartWatch \/ TakeEvent \/ DropEvents \/ EndBurst \/ StopWatching
    \/ \E d \in JDocs : ReadDoc(d)

JNext == Editor \/ Program

JSpec == JInit /\ [][JNext]_jvars

-----------------------------------------------------------------------------
(* A loop with nothing to do - it waits and no event is queued - has tried *)
(* since the directory last changed, whatever changed while it slept,      *)
(* listed or read, and unless that attempt failed it has written what the  *)
(* directory says now; only a change whose event it never had or dropped   *)
(* with another file's escapes it ("will retry on next change").           *)
JWaitingMeansCurrent ==
    (jloop.pc = "wait" /\ jchan = <<>> /\ ~jmissed) =>
        jtried = jdocs /\ (jfailed \/ jout = jdocs)
=============================================================================
