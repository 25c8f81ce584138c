---------------------------- MODULE ServiceStart ----------------------------
(***************************************************************************)
(* How a core service starts, and what `--dump-config` says of it           *)
(* (m6-core/src/app.rs: parse_invocation, dump_config, run_app and its      *)
(* three stateful siblings, run_app_with_shutdown; m6-core/src/config.rs:   *)
(* load, parse_config).  The config file and site.toml are edited while the *)
(* process walks through its reads, and each refusal ends it with an exit   *)
(* code.  Once it serves, the ConfigReloader is taken by its contract: a    *)
(* file that differs from the fingerprint the reloader was given is         *)
(* reported, and the `reload` closure runs.                                 *)
(*                                                                         *)
(* udisk   the two files, with the number of the edit that made each       *)
(* ubin    the binary: the flavour of App it is, its `flash` feature, and  *)
(*         whether it registers an on_reload hook                          *)
(* uproc   the process: where it is, and the version each part of it was   *)
(*         built from; history: the config was edited between the read of  *)
(*         the init functions and its fingerprint (gap), a reload was       *)
(*         installed (renewed)                                             *)
(* udump   the exit code of the last --dump-config                         *)
(***************************************************************************)
EXTENDS Naturals

CONSTANTS UConfigs,     \* configs an operator may write
          USites,       \* site.toml files an operator may write
          UBinaries,    \* [flavour, flash, hook] of the services
          URegistered,  \* handlers the binary registers by name
          UCode,        \* patterns it registers in code
          UNeeds,       \* keys its init_global insists on
          UMaxEdits,    \* edits of the two files
          UMaxLaunches  \* times it is launched

ASSUME UBounds == UMaxEdits \in Nat /\ UMaxLaunches \in Nat

VARIABLES udisk, ubin, uproc, udump, uedits, ulaunches

uvars == <<udisk, ubin, uproc, udump, uedits, ulaunches>>

NoConfig ==
    [parses |-> FALSE, empty |-> TRUE, own |-> {}, secret |-> {}, there |-> FALSE,
     namesSite |-> FALSE, compresses |-> FALSE, builds |-> FALSE, routes |-> {}]

NotRunning ==
    [phase |-> "down", exit |-> 0, why |-> "", c |-> NoConfig, cfg |-> 0, site |-> 0,
     fp |-> 0, sfp |-> 0, global |-> 0, thread |-> 0, gap |-> FALSE, renewed |-> FALSE]

UInit ==
    /\ \E c \in UConfigs, s \in USites : udisk = [c |-> c, cid |-> 1, s |-> s, sid |-> 1]
    /\ ubin \in UBinaries
    /\ uproc = NotRunning
    /\ udump = [code |-> 0, cid |-> 0, sid |-> 0]
    /\ uedits = 0
    /\ ulaunches = 0

-----------------------------------------------------------------------------
(* What the loaded files amount to.                                         *)

\* The keys the framework takes for itself, of the ones the files here set; they
\* are not in user_config.
FRAMEWORK_KEYS == {"flash_secret", "site_toml", "route", "compression"}

\* config::load: the file parses, and no key is set in both it and its secrets
\* file.  A secrets file that is named and not there is passed over.
LoadOk(c) == c.parses /\ (c.there => c.own \cap c.secret = {})

\* merge_toml, then what parse_config hands on as user_config.
UserConfig(c) == (c.own \cup (IF c.there THEN c.secret ELSE {})) \ FRAMEWORK_KEYS

\* check_site_toml: only a config that names its site.toml insists on it.
SiteOk(c, s) == c.namesSite => s.there /\ s.parses

\* check_compress_declared.
CompressOk(c, s) ==
    (s.there /\ s.parses /\ s.declares # "nothing") => (s.declares = "yes") = c.compresses

\* unknown_handlers, and the `how` of dump_config.
Servable(r) ==
    \/ r.how \in URegistered
    \/ r.how = "template"
    \/ r.how = "nothing" /\ r.path \in UCode

\* FrameworkState::build reads flash_secret from user_config.
HasFlashSecret(c) == "flash_secret" \in UserConfig(c)

-----------------------------------------------------------------------------
(* The operator.                                                            *)

UEditConfig(c) ==
    /\ uedits < UMaxEdits
    /\ uedits' = uedits + 1
    /\ udisk' = [udisk EXCEPT !.c = c, !.cid = @ + 1]
    /\ UNCHANGED <<ubin, uproc, udump, ulaunches>>

UEditSite(s) ==
    /\ uedits < UMaxEdits
    /\ uedits' = uedits + 1
    /\ udisk' = [udisk EXCEPT !.s = s, !.sid = @ + 1]
    /\ UNCHANGED <<ubin, uproc, udump, ulaunches>>

Stateful == ubin.flavour \in {"global", "state"}
Threads == ubin.flavour \in {"thread", "state"}

\* signal::block and parse_invocation; --version and a wrong argument count only
\* end the process.
ULaunch ==
    /\ uproc.phase = "down"
    /\ ulaunches < UMaxLaunches
    /\ ulaunches' = ulaunches + 1
    /\ uproc' = [NotRunning EXCEPT
          !.phase = IF ubin.flavour = "plain" THEN "fingerprint" ELSE "first"]
    /\ UNCHANGED <<udisk, ubin, udump, uedits>>

\* A process of its own, whatever the service is doing.
UDumpConfig ==
    /\ udump' = [code |-> IF /\ LoadOk(udisk.c)
                             /\ SiteOk(udisk.c, udisk.s)
                             /\ \A r \in udisk.c.routes : Servable(r)
                          THEN 0 ELSE 2,
                 cid |-> udisk.cid, sid |-> udisk.sid]
    /\ UNCHANGED <<udisk, ubin, uproc, uedits, ulaunches>>

-----------------------------------------------------------------------------
(* Starting.                                                                *)

Goes(p) == uproc' = p /\ UNCHANGED <<udisk, ubin, udump, uedits, ulaunches>>

Exits(why) == Goes([uproc EXCEPT !.phase = "exited", !.exit = 2, !.why = why])

UFirst(flavour) ==
    /\ uproc.phase = "first"
    /\ ubin.flavour = flavour

\* site_toml_or_exit, then the app's own init_global.
UInitGlobal(p) ==
    IF ~SiteOk(udisk.c, udisk.s) THEN Exits("site")
    ELSE IF ~(UNeeds \subseteq UserConfig(udisk.c)) THEN Exits("init_global")
    ELSE Goes([p EXCEPT !.phase = "fingerprint", !.global = udisk.cid])

\* run_app_global: the config is loaded to build the state given to the handlers.
UFirstLoadGlobal ==
    /\ UFirst("global")
    /\ IF LoadOk(udisk.c) THEN UInitGlobal(uproc) ELSE Exits("config")

\* run_app_thread_state: it is loaded to be kept for the threads' init_thread.
UFirstLoadThread ==
    /\ UFirst("thread")
    /\ IF ~LoadOk(udisk.c) THEN Exits("config")
       ELSE Goes([uproc EXCEPT !.phase = "fingerprint", !.thread = udisk.cid])

\* run_app_state: both.
UFirstLoadState ==
    /\ UFirst("state")
    /\ IF LoadOk(udisk.c) THEN UInitGlobal([uproc EXCEPT !.thread = udisk.cid])
       ELSE Exits("config")

\* run_app_with_shutdown: the process config is fingerprinted, then read.
UFingerprint ==
    /\ uproc.phase = "fingerprint"
    /\ Goes([uproc EXCEPT !.phase = "load", !.fp = udisk.cid,
                !.gap = \/ Stateful /\ uproc.global # udisk.cid
                        \/ Threads /\ uproc.thread # udisk.cid])

ULoad ==
    /\ uproc.phase = "load"
    /\ IF LoadOk(udisk.c)
       THEN Goes([uproc EXCEPT !.phase = "site", !.c = udisk.c, !.cfg = udisk.cid])
       ELSE Exits("config")

USiteFingerprint ==
    /\ uproc.phase = "site"
    /\ Goes([uproc EXCEPT !.phase = "check", !.sfp = udisk.sid])

\* site_toml_or_exit and check_compress_declared: what site.toml says now, for
\* the config loaded before.
UCheck ==
    /\ uproc.phase = "check"
    /\ IF ~SiteOk(uproc.c, udisk.s) THEN Exits("site")
       ELSE IF ~CompressOk(uproc.c, udisk.s) THEN Exits("compress")
       ELSE Goes([uproc EXCEPT !.phase = "build", !.site = udisk.sid])

\* FrameworkState::build, unknown_handlers, and the flash secret.
UBuild ==
    /\ uproc.phase = "build"
    /\ IF ~uproc.c.builds THEN Exits("build")
       ELSE IF \E r \in uproc.c.routes : ~Servable(r) THEN Exits("handler")
       ELSE IF ubin.flash /\ ~HasFlashSecret(uproc.c) THEN Exits("flash_secret")
       ELSE Goes([uproc EXCEPT !.phase = "bind"])

\* What ConfigReloader::new is told was read: the fingerprints taken before each
\* file's first read, or (mutant) the files as they are now.
SeenNow  == [fp |-> udisk.cid, sfp |-> udisk.sid]
SeenRead == [fp |-> uproc.fp, sfp |-> uproc.sfp]

UBind ==
    /\ uproc.phase = "bind"
    /\ \/ Exits("bind")
       \/ Goes([uproc EXCEPT !.phase = "serving",
                  !.fp = SeenRead.fp, !.sfp = SeenRead.sfp])

-----------------------------------------------------------------------------
(* Serving.                                                                 *)

Reported == uproc.fp # udisk.cid \/ uproc.sfp # udisk.sid

\* `reload`, up to the hook: a reported file of length 0 is skipped, and what
\* start-up checks is checked again, the flash secret excepted.
Reloads(c, s) ==
    /\ ~(uproc.fp # udisk.cid /\ c.empty)
    /\ ~(uproc.sfp # udisk.sid /\ s.there /\ s.empty)
    /\ LoadOk(c)
    /\ SiteOk(c, s)
    /\ CompressOk(c, s)
    /\ s.there => s.parses
    /\ c.builds
    /\ \A r \in c.routes : Servable(r)

SeenAgain == [uproc EXCEPT !.fp = udisk.cid, !.sfp = udisk.sid]

Installed == [SeenAgain EXCEPT !.c = udisk.c, !.cfg = udisk.cid, !.site = udisk.sid, !.renewed = TRUE]

\* Mutant: the hook is not called.
RenewedAlone == Installed

\* The hook brings the global state along, where there is one.  The threads keep
\* the config they were started with.
Renewed ==
    [Installed EXCEPT !.global = IF Stateful /\ ubin.hook THEN udisk.cid ELSE uproc.global]

\* Refused; or the on_reload hook failed and the report is asked for again; or
\* installed.
UReload ==
    /\ uproc.phase = "serving"
    /\ Reported
    /\ \/ ~Reloads(udisk.c, udisk.s) /\ Goes(SeenAgain)
       \/ Reloads(udisk.c, udisk.s) /\ ubin.hook /\ UNCHANGED uvars
       \/ Reloads(udisk.c, udisk.s) /\ Goes(Renewed)

\* A clean shutdown, or the supervisor after a refused start.
UEnd ==
    /\ uproc.phase \in {"serving", "exited"}
    /\ Goes(NotRunning)

UNext ==
    \/ \E c \in UConfigs : UEditConfig(c)
    \/ \E s \in USites : UEditSite(s)
    \/ ULaunch \/ UDumpConfig
    \/ UFirstLoadGlobal \/ UFirstLoadThread \/ UFirstLoadState
    \/ UFingerprint \/ ULoad \/ USiteFingerprint
    \/ UCheck \/ UBuild \/ UBind
    \/ UReload \/ UEnd

USpec == UInit /\ [][UNext]_uvars

-----------------------------------------------------------------------------
(* Properties.                                                              *)

\* What the init functions built is of the config that runs, except when the
\* config was edited between their read and the fingerprint, until a reload
\* brings the global state along; and except for what no hook brings along.
StateIsCurrent ==
    /\ Stateful => \/ uproc.global = uproc.cfg
                   \/ uproc.gap /\ ~uproc.renewed
                   \/ uproc.renewed /\ ~ubin.hook
    /\ Threads => uproc.thread = uproc.cfg \/ uproc.gap \/ uproc.renewed

\* A service the reloader owes no report to runs what is on disk, unless what is
\* on disk would be refused: no edit made between the reads of start-up is lost
\* to the framework state ("so a change between that read and the reloader's
\* creation is reported, not lost", run_app_with_shutdown).  To the state a
\* service's own init functions built, from a read before the fingerprint, the
\* one edit that is lost is the one that falls between the two.  With it, a
\* --dump-config that refused these very files is borne out: the process that
\* runs them is one it passed.
UMissesOnlyTheGap ==
    (uproc.phase = "serving" /\ ~Reported) =>
        /\ \/ uproc.cfg = udisk.cid /\ uproc.site = udisk.sid /\ StateIsCurrent
           \/ udisk.c.empty \/ (udisk.s.there /\ udisk.s.empty)
           \/ ~Reloads(udisk.c, udisk.s)
        /\ ~(udump.code = 2 /\ udump.cid = uproc.cfg /\ udump.sid = uproc.site)
=============================================================================
