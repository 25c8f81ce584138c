---------------------------- MODULE ServiceReload ----------------------------
(***************************************************************************)
(* A service's reload (m6-core/src/app.rs, the `reload` closure and the     *)
(* loop of App::run): what a report of ConfigReloader does to the state the *)
(* service serves from.  A reload reads both files whichever was reported,  *)
(* keeps the old state on any refusal, and asks for a retry only when the   *)
(* service's own on_reload hook failed.  The state is built from templates   *)
(* and params files too, which nobody watches: whoever deploys them touches  *)
(* a config afterwards.                                                      *)
(***************************************************************************)
EXTENDS ConfigReloader

VARIABLES
    text,     \* text[f]: the version on disk and whether it would load
    running,  \* running[f]: the version of f the served state was built from
    stage,    \* inside a reload: "check" for empty files, then "load"
    pages     \* the templates and params files

svars == <<vars, text, running, stage, pages>>

\* A file on disk: readable and loading, present but of length 0 (a writer that
\* truncated it and has not written yet), refused by a check, or gone.
Kinds == {"good", "empty", "bad"}
Text  == [id : Nat, kind : Kinds \cup {"absent"}]

\* The templates and params files: whether FrameworkState::build takes them, and
\* whether the served state was built from them as they are.  History: no config
\* was written since they were last edited ("settled" when one was), and the
\* last load was refused because of them.
Pages == [builds : BOOLEAN, served : BOOLEAN, settled : BOOLEAN, refused : BOOLEAN]

Service == UNCHANGED <<text, running, stage, pages>>

\* The file system's actions, with the text they leave.
SetText(f, kind) ==
    text' = [g \in Files |-> IF g \in Touched(f) THEN [id |-> writes + 1, kind |-> kind]
                             ELSE text[g]]

SWrite(f, how, kind) ==
    /\ Write(f, how)
    /\ how = "truncated" => kind = "empty"
    /\ SetText(f, kind)
    /\ pages' = [pages EXCEPT !.settled = TRUE]
    /\ UNCHANGED <<running, stage>>

SRemove(f) ==
    /\ Remove(f)
    /\ SetText(f, "absent")
    /\ UNCHANGED <<running, stage, pages>>

\* Templates or params files are edited.  Nothing is watching.
EditPages(builds) ==
    /\ pages' = [pages EXCEPT !.builds = builds, !.served = FALSE, !.settled = FALSE]
    /\ UNCHANGED <<vars, text, running, stage>>

\* The first lines of `reload`: a reported file of length 0 is not loaded.  Only
\* the files of the report are looked at.
Skips == \E f \in report : text[f].kind = "empty"

\* Mutant of ReloadCheck: a skip takes the fingerprints again, as if loaded.
ReloadCheckSeesAgain ==
    /\ pc = "reload"
    /\ stage = "check"
    /\ IF Skips
       THEN /\ seen' = fp
            /\ UNCHANGED <<pending, due, lastReport, nextPoll, failures, retrying, retries>>
            /\ ReloadDone
            /\ UNCHANGED stage
       ELSE /\ stage' = "load"
            /\ UNCHANGED vars
    /\ UNCHANGED <<text, running, pages>>

ReloadCheck ==
    /\ pc = "reload"
    /\ stage = "check"
    /\ IF Skips
       THEN /\ NoRetry
            /\ ReloadDone
            /\ UNCHANGED stage
       ELSE /\ stage' = "load"
            /\ UNCHANGED vars
    /\ UNCHANGED <<text, running, pages>>

\* config::load, check_site_toml and unknown_handlers: an empty file parses, and a
\* site.toml the config does not name may be absent.
Loads ==
    /\ text["process"].kind \in {"good", "empty"}
    /\ text["site"].kind \in {"good", "empty", "absent"}

\* FrameworkState::build: a template with a syntax error, or a params file that is
\* not JSON, refuses the reload.
Builds == pages.builds

\* The new state is served.
Install ==
    /\ running' = [f \in Files |-> text[f].id]
    /\ pages' = [pages EXCEPT !.served = TRUE, !.refused = FALSE]

\* Mutants of ReloadLoad: what the hook refused is not retried; only the reported
\* files are installed.
ReloadLoadOnce ==
    /\ pc = "reload"
    /\ stage = "load"
    /\ NoRetry
    /\ \/ UNCHANGED <<running, pages>>
       \/ Loads /\ Builds /\ Install
    /\ ReloadDone
    /\ stage' = "check"
    /\ UNCHANGED text

ReloadLoadReported ==
    /\ pc = "reload"
    /\ stage = "load"
    /\ \/ /\ ~(Loads /\ Builds)
          /\ NoRetry
          /\ pages' = [pages EXCEPT !.refused = Loads]
          /\ UNCHANGED running
       \/ /\ Loads
          /\ Builds
          /\ NoRetry
          /\ running' = [f \in Files |-> IF f \in report THEN text[f].id ELSE running[f]]
          /\ pages' = [pages EXCEPT !.served = TRUE, !.refused = FALSE]
    /\ ReloadDone
    /\ stage' = "check"
    /\ UNCHANGED text

\* The rest of `reload`: refused for a config or for the pages, neither of which is
\* asked for again; refused by the hook, which is; or installed.
ReloadLoad ==
    /\ pc = "reload"
    /\ stage = "load"
    /\ \/ /\ ~(Loads /\ Builds)
          /\ NoRetry
          /\ pages' = [pages EXCEPT !.refused = Loads]
          /\ UNCHANGED running
       \/ /\ Loads
          /\ Builds
          /\ AskRetry(report)
          /\ pages' = [pages EXCEPT !.refused = FALSE]
          /\ UNCHANGED running
       \/ /\ Loads
          /\ Builds
          /\ NoRetry
          /\ Install
    /\ ReloadDone
    /\ stage' = "check"
    /\ UNCHANGED text

\* The version of a file is the number of the write that made it; the service
\* started from the versions it fingerprinted.
SInit ==
    /\ Init
    /\ text = [f \in Files |-> [id |-> IF fp[f] # seen[f] THEN 1 ELSE 0,
                                kind |-> IF fp[f] = Absent THEN "absent" ELSE "good"]]
    /\ running = [f \in Files |-> 0]
    /\ stage = "check"
    /\ pages = [builds |-> TRUE, served |-> TRUE, settled |-> TRUE, refused |-> FALSE]

SNext ==
    \/ \E f \in Files, how \in Changes, kind \in Kinds : SWrite(f, how, kind)
    \/ \E f \in Files : SRemove(f)
    \/ \E builds \in BOOLEAN : EditPages(builds)
    \/ LoseWatch /\ Service
    \/ PollReturn /\ Service
    \/ Tick /\ Service
    \/ ReloadCheck
    \/ ReloadLoad
    \/ Advance /\ Service

SSpec == SInit /\ [][SNext]_svars

-----------------------------------------------------------------------------
(* Properties.                                                              *)

STypeOK ==
    /\ text \in [Files -> Text]
    /\ running \in [Files -> Nat]
    /\ stage \in {"check", "load"}
    /\ pages \in Pages

\* Once nothing is owed and both files are good, the service serves what is on
\* disk: no refused, skipped or failed reload, and no write during one, leaves it on
\* an older version ("The write that fills the file is a change of its own and
\* reloads", "a bad edit of either file is recoverable"), unless the last load was
\* refused for its pages, which nobody asks for again.  Pages that build, deployed
\* before the last write of a config, are served too.
QuietMeansCurrent ==
    Quiet /\ (\A f \in Files : text[f].kind = "good") =>
        /\ pages.refused \/ \A f \in Files : running[f] = text[f].id
        /\ pages.settled /\ pages.builds => pages.served /\ ~pages.refused

\* The reload of run_inner: what it keeps, and what it has taken once all is quiet.
ServiceContract == STypeOK /\ QuietMeansCurrent

\* The service's loop is a loop of ConfigReloader: what is proved of its Spec
\* holds here.
Reloader == INSTANCE ConfigReloader
ImplementsConfigReloader == Reloader!Spec
=============================================================================
