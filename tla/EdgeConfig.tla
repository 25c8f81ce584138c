----------------------------- MODULE EdgeConfig -----------------------------
(***************************************************************************)
(* The edge's configuration (m6-http config.rs, and main.rs run and        *)
(* handle_config_change): site.toml and the node's system config are       *)
(* merged and validated, the result is what the routes, the pools, the     *)
(* verify key and the listeners are built from, and a reload replaces the  *)
(* parts the changed file owns.                                            *)
(*                                                                         *)
(* EdgeReload models when a reload happens; this module models what one    *)
(* takes from which file, what is refused, and what keeps running.  A key  *)
(* that is not set is Unset.                                               *)
(***************************************************************************)
EXTENDS Integers, FiniteSets

CONSTANTS
    KSites,        \* site.toml texts an operator writes
    KSystems,      \* system config texts
    KeyFiles,      \* states of the verify key's file: "good", "garbled", "absent"
    Unset

VARIABLES
    kdisk,    \* what is on disk
    kdirty,   \* the files changed since the last reload
    krun,     \* the running process: its config and what was built from it
    kup       \* "starting", "up", "redirecting" (a loop of its own) or "exited"

kvars == <<kdisk, kdirty, krun, kup>>

-----------------------------------------------------------------------------
(* Addresses                                                               *)

\* "pub" and "name:" stand for a public address and one that is not an
\* address; the others are in a local range.
IsAddr(a) == a \in {"pub", "loc4", "loc4b", "loc6"}
IsPrivate(a) == a \in {"loc4", "loc4b", "loc6"}
Family(a) == IF a = "loc6" THEN 6 ELSE 4

\* The system config's value, or else site.toml's.
Or(a, b) == IF a = Unset THEN b ELSE a

\* parse_local_peers
LocalPeers(peers) == peers # {} /\ \A p \in peers : IsPrivate(p)

\* validate_internal_binds: declared whenever h2c_bind is, and naming only it.
InternalBindsOk(binds, bind, h2c) ==
    /\ h2c # Unset => binds # Unset
    /\ binds # Unset =>
           \A e \in binds :
               /\ IsAddr(e)
               /\ ~(e = bind /\ h2c # e)
               /\ IsPrivate(e)
               /\ h2c = e

\* validate_internal_peers: required by an internal listener, refused without
\* one, and one of them in its address family.
InternalPeersOk(peers, binds) ==
    IF binds = Unset \/ binds = {}
    THEN peers = Unset
    ELSE /\ peers # Unset
         /\ LocalPeers(peers)
         /\ \E p \in peers, b \in binds : Family(p) = Family(b)

-----------------------------------------------------------------------------
(* config::load                                                            *)

SiteKeys == {"name", "domain"}

\* Each [server] key, from the file that wins.
Server(site, sys) ==
    [bind     |-> Or(Or(sys.bind, site.bind), Or(sys.redirect, site.redirect)),
     cert     |-> Or(sys.cert, site.cert),
     h2c      |-> Or(sys.h2c, site.h2c),
     binds    |-> Or(sys.binds, site.binds),
     peers    |-> Or(sys.peers, site.peers),
     redirect |-> Or(sys.redirect, site.redirect),
     warm     |-> Or(Or(sys.warm, site.warm), FALSE)]

\* A redirect node needs no certificate and has no internal listener.
ServerOk(s) ==
    /\ s.bind # Unset
    /\ s.redirect = Unset =>
           /\ s.cert = "present"
           /\ InternalBindsOk(s.binds, s.bind, s.h2c)
           /\ InternalPeersOk(s.peers, s.binds)

\* One file for both: the system half's [auth] and [health] are the site's.
SystemPart(site, sys) ==
    IF sys.same THEN [sys EXCEPT !.auth = Unset, !.metrics = Unset, !.mpeers = Unset]
    ELSE sys

\* Routes and route groups name declared backends; only routes are looked at
\* for a path given twice.
RouteBackendsOk(site) == \A r \in site.routes : r.backend \in site.backends
NoDuplicatePath(site) ==
    \A r, q \in {x \in site.routes : ~x.group} : r.path = q.path => r = q

AuthOf(site, sys) == Or(sys.auth, site.auth)
AuthOk(site, sys, key) ==
    /\ ~(site.auth # Unset /\ sys.auth # Unset)
    /\ AuthOf(site, sys) # Unset =>
           /\ key # "absent"
           /\ AuthOf(site, sys).backend \in site.backends \cup {Unset}

\* validate_metrics_peers: a list of local addresses, once there is one.
MetricsPeersOk(site, sys) ==
    Or(sys.mpeers, site.mpeers) # Unset => LocalPeers(Or(sys.mpeers, site.mpeers))

\* `require` on a route, a group or the monitoring endpoints needs [auth].
RequireOk(site, sys) ==
    /\ (\E r \in site.routes : r.require) => AuthOf(site, sys) # Unset
    /\ Or(sys.metrics, site.metrics) # Unset =>
           /\ AuthOf(site, sys) # Unset
           /\ Or(sys.metrics, site.metrics) = "role:name"

Loads(d) ==
    LET site == d.site
        sys == SystemPart(d.site, d.system)
    IN  /\ site.parses /\ sys.parses
        /\ ServerOk(Server(site, sys))
        /\ SiteKeys \subseteq site.keys
        /\ MetricsPeersOk(site, sys)
        /\ RouteBackendsOk(site)
        /\ NoDuplicatePath(site)
        /\ AuthOk(site, sys, d.key)
        /\ RequireOk(site, sys)
        /\ site.errors # "custom without path"

Load(d) ==
    LET sys == SystemPart(d.site, d.system)
    IN  [node     |-> Or(sys.node, "site name"),
         server   |-> Server(d.site, sys),
         auth     |-> AuthOf(d.site, sys),
         metrics  |-> Or(sys.metrics, d.site.metrics),
         backends |-> d.site.backends,
         routes   |-> d.site.routes,
         errors   |-> d.site.errors,
         alog     |-> d.site.alog]

\* RouteTable::from_config: a route whose pattern conflicts is refused, a
\* group's only warned of.
RouteTableOk(cfg) == \A r \in cfg.routes : r.conflicts => r.group

-----------------------------------------------------------------------------
(* What a reload keeps                                                     *)

\* carry_restart_only: the listeners and the analytics log are opened once.
CarryRestartOnly(running, new) ==
    [new EXCEPT !.server = [running.server EXCEPT !.cert = new.server.cert],
                !.alog = running.alog]

\* Mutant: a touch of the system config takes everything on disk.
TakeAll(running, loaded) == loaded

\* take_process_owned: the site's keys stay those that are running.
TakeProcessOwned(running, loaded) ==
    [running EXCEPT !.node = loaded.node,
                    !.auth = loaded.auth,
                    !.server = loaded.server,
                    !.metrics = loaded.metrics]

\* reload_public_key: a key that cannot be read keeps the one in use.
ReloadPublicKey(new, key) ==
    IF new.auth = Unset THEN "none"
    ELSE IF key = "good" THEN "loaded" ELSE krun.key

\* What is built from a config at start, or by a reload of the site.
Built(cfg, key) ==
    [cfg |-> cfg, routes |-> cfg.routes, pools |-> cfg.backends,
     errmode |-> cfg.errors, key |-> key,
     listeners |-> [cfg.server EXCEPT !.cert = "present"], alog |-> cfg.alog]

NotRunning == [cfg |-> Unset]

-----------------------------------------------------------------------------
KInit ==
    /\ kdisk \in [site : KSites, system : KSystems, key : KeyFiles]
    /\ kdirty = {}
    /\ krun = NotRunning
    /\ kup = "starting"

\* run: every error before the event loop ends the process; a redirect node
\* never loads the rest.
KStartUp ==
    /\ kup = "starting"
    /\ LET cfg == Load(kdisk)
       IN  IF ~Loads(kdisk)
           THEN kup' = "exited" /\ UNCHANGED krun
           ELSE IF cfg.server.redirect # Unset
           THEN kup' = "redirecting" /\ UNCHANGED krun
           ELSE IF (cfg.auth # Unset /\ kdisk.key # "good") \/ ~RouteTableOk(cfg)
           THEN kup' = "exited" /\ UNCHANGED krun
           ELSE /\ kup' = "up"
                /\ krun' = Built(cfg, IF cfg.auth = Unset THEN "none" ELSE "loaded")
    /\ UNCHANGED <<kdisk, kdirty>>

\* An operator writes a file.
WriteSite(s) ==
    /\ kup = "up"
    /\ kdisk' = [kdisk EXCEPT !.site = s]
    /\ kdirty' = kdirty \cup {"site"}
    /\ UNCHANGED <<krun, kup>>

WriteSystem(s) ==
    /\ kup = "up"
    /\ kdisk' = [kdisk EXCEPT !.system = s]
    /\ kdirty' = kdirty \cup {"process"}
    /\ UNCHANGED <<krun, kup>>

WriteKey(k) ==
    /\ kup = "up"
    /\ kdisk' = [kdisk EXCEPT !.key = k]
    /\ UNCHANGED <<kdirty, krun, kup>>

\* handle_config_change for the files the reloader reports; it reads both.
KReload(changed) ==
    /\ kup = "up"
    /\ changed # {} /\ changed \subseteq kdirty
    /\ kdirty' = kdirty \ changed
    /\ LET loaded == Load(kdisk)
           taken == IF "site" \in changed THEN loaded
                    ELSE TakeProcessOwned(krun.cfg, loaded)
           new == CarryRestartOnly(krun.cfg, taken)
       IN  IF ~Loads(kdisk) \/ ("site" \in changed /\ ~RouteTableOk(new))
           THEN UNCHANGED krun
           ELSE krun' =
                  IF "site" \in changed
                  THEN [krun EXCEPT !.cfg = new, !.routes = new.routes,
                                    !.pools = new.backends, !.errmode = new.errors,
                                    !.key = ReloadPublicKey(new, kdisk.key)]
                  ELSE [krun EXCEPT !.cfg = new,
                                    !.key = ReloadPublicKey(new, kdisk.key)]
    /\ UNCHANGED <<kdisk, kup>>

KNext ==
    \/ KStartUp
    \/ \E s \in KSites : WriteSite(s)
    \/ \E s \in KSystems : WriteSystem(s)
    \/ \E k \in KeyFiles : WriteKey(k)
    \/ \E c \in SUBSET {"site", "process"} : KReload(c)

KSpec == KInit /\ [][KNext]_kvars

-----------------------------------------------------------------------------
(* Properties                                                              *)

\* The config the process holds is the one it runs: after any sequence of
\* edits, refused reloads and reloads of one file alone, its routes, pools and
\* error mode are those being served and its listener and log keys are those
\* that were opened (what /perf and --dump-config report).
KConfigIsWhatRuns ==
    kup = "up" =>
        /\ krun.cfg.routes = krun.routes
        /\ krun.cfg.backends = krun.pools
        /\ krun.cfg.errors = krun.errmode
        /\ [krun.cfg.server EXCEPT !.cert = "present"] = krun.listeners
        /\ krun.cfg.alog = krun.alog
=============================================================================
