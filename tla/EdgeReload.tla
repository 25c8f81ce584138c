----------------------------- MODULE EdgeReload -----------------------------
(***************************************************************************)
(* m6-http's reload (m6-http/src/main.rs, handle_config_change and          *)
(* handle_tls_reload).  Unlike a service, the edge applies only what was    *)
(* reported: a site.toml change rebuilds the site and empties the cache, a   *)
(* system config change takes the keys that file owns and re-reads the TLS   *)
(* material, and only a failed TLS reload is retried.                        *)
(***************************************************************************)
EXTENDS ConfigReloader

CONSTANT MaxCerts     \* bound: number of certificate renewals

ASSUME CertsAssumption == MaxCerts \in Nat

VARIABLES
    etext,    \* etext[f]: the version on disk and whether it would load
    site,     \* the version of site.toml the routes, pools and errors are of
    process,  \* the version of the system config the process-owned keys are of
    cert,     \* the newest certificate written, or being written
    paired,   \* the key on disk belongs to that certificate
    served,   \* the certificate every listener serves
    touched   \* history: cert when the system config was last written

evars == <<vars, etext, site, process, cert, paired, served, touched>>
tls   == <<cert, paired, served, touched>>
Edge  == UNCHANGED <<etext, site, process, tls>>

\* A file on disk: loading; refused by config::load (empty, mid-edit, absent); or,
\* for site.toml, loading but refused by RouteTable::from_config.
EKinds == {"good", "bad", "badroutes"}

SetEText(f, kind) ==
    etext' = [etext EXCEPT ![f] = [id |-> writes + 1, kind |-> kind]]

EWrite(f, how, kind) ==
    /\ Write(f, how)
    /\ how = "truncated" => kind = "bad"
    /\ kind = "badroutes" => f = "site"
    /\ SetEText(f, kind)
    /\ touched' = IF f = "process" THEN cert ELSE touched
    /\ UNCHANGED <<site, process, cert, paired, served>>

ERemove(f) ==
    /\ Remove(f)
    /\ SetEText(f, "bad")
    /\ UNCHANGED <<site, process, tls>>

\* A renewal writes the certificate, then the key; neither file is watched.
WriteCert ==
    /\ cert < MaxCerts
    /\ paired
    /\ cert' = cert + 1
    /\ paired' = FALSE
    /\ UNCHANGED <<vars, etext, site, process, served, touched>>

WriteKey ==
    /\ ~paired
    /\ paired' = TRUE
    /\ UNCHANGED <<vars, etext, site, process, cert, served, touched>>

\* config::load merges both files and fails if either does.
ELoads == \A f \in Files : etext[f].kind # "bad"

\* What the change may install: nothing when the load fails, or when site.toml
\* changed and its routes are refused.
Installs == ELoads /\ ("site" \in report => etext["site"].kind # "badroutes")

\* handle_tls_reload: the pair is loaded and checked before either listener's
\* config is replaced.
TlsReload == "process" \in report
TlsFails  == TlsReload /\ ~paired

\* Mutants of HandleConfigChange: the old pair is dropped before the new one is
\* checked; a failed TLS reload is not retried; a report of site.toml leaves the
\* process-owned keys alone.
HandleChangeDropsPair ==
    /\ pc = "reload"
    /\ site' = IF Installs /\ "site" \in report THEN etext["site"].id ELSE site
    /\ process' = IF Installs THEN etext["process"].id ELSE process
    /\ served' = IF ~TlsReload THEN served ELSE IF paired THEN cert ELSE None
    /\ IF TlsFails THEN AskRetry({"process"}) ELSE NoRetry
    /\ ReloadDone
    /\ UNCHANGED <<etext, cert, paired, touched>>

HandleChangeOnce ==
    /\ pc = "reload"
    /\ site' = IF Installs /\ "site" \in report THEN etext["site"].id ELSE site
    /\ process' = IF Installs THEN etext["process"].id ELSE process
    /\ served' = IF TlsReload /\ paired THEN cert ELSE served
    /\ NoRetry
    /\ ReloadDone
    /\ UNCHANGED <<etext, cert, paired, touched>>

HandleChangeReported ==
    /\ pc = "reload"
    /\ site' = IF Installs /\ "site" \in report THEN etext["site"].id ELSE site
    /\ process' = IF Installs /\ "process" \in report THEN etext["process"].id ELSE process
    /\ served' = IF TlsReload /\ paired THEN cert ELSE served
    /\ IF TlsFails THEN AskRetry({"process"}) ELSE NoRetry
    /\ ReloadDone
    /\ UNCHANGED <<etext, cert, paired, touched>>

\* handle_config_change, and the retry the event loop asks for after it.
HandleConfigChange ==
    /\ pc = "reload"
    /\ site' = IF Installs /\ "site" \in report THEN etext["site"].id ELSE site
    /\ process' = IF Installs THEN etext["process"].id ELSE process
    /\ served' = IF TlsReload /\ paired THEN cert ELSE served
    /\ IF TlsFails THEN AskRetry({"process"}) ELSE NoRetry
    /\ ReloadDone
    /\ UNCHANGED <<etext, cert, paired, touched>>

EInit ==
    /\ Init
    /\ ~sameFile
    /\ seen["site"] = 1
    /\ etext = [f \in Files |-> [id |-> IF fp[f] # seen[f] THEN 1 ELSE 0, kind |-> "good"]]
    /\ site = 0
    /\ process = 0
    /\ cert = 0
    /\ paired = TRUE
    /\ served = 0
    /\ touched = 0

ENext ==
    \/ \E f \in Files, how \in Changes, kind \in EKinds : EWrite(f, how, kind)
    \/ \E f \in Files : ERemove(f)
    \/ WriteCert
    \/ WriteKey
    \/ LoseWatch /\ Edge
    \/ PollReturn /\ Edge
    \/ Tick /\ Edge
    \/ HandleConfigChange
    \/ Advance /\ Edge

ESpec == EInit /\ [][ENext]_evars

-----------------------------------------------------------------------------
(* Properties.                                                              *)

ETypeOK ==
    /\ etext \in [Files -> [id : Nat, kind : EKinds]]
    /\ site \in Nat
    /\ process \in Nat
    /\ cert \in Nat /\ served \in Nat /\ touched \in Nat
    /\ paired \in BOOLEAN

\* docs/m6-http.md, Renewing a certificate: a touch of the system config serves
\* the certificate that was written, or being written, when it was touched.  If
\* the touch came first the reload is tried again until the pair matches, and
\* nothing that happens to site.toml in between stops that.
RenewalIsServed ==
    fp["process"] # Absent /\ dirty["process"] = None /\ "process" \notin pending \cup report
        => served >= touched

\* Once nothing is owed and both files load, the keys the system config owns are
\* the ones on disk, whichever file was broken when it was written.
QuietMeansProcessCurrent ==
    Quiet /\ (\A f \in Files : etext[f].kind = "good") => process = etext["process"].id

\* Neither a renewal nor an edit of the system config is lost.
EdgeIsCurrent == ETypeOK /\ RenewalIsServed /\ QuietMeansProcessCurrent
=============================================================================
