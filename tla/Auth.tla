-------------------------------- MODULE Auth --------------------------------
(***************************************************************************)
(* m6-auth (the SQLite store and the JWT engine), m6-auth-server (login,   *)
(* refresh, logout, key reload, login throttle) and m6-auth-cli, as they   *)
(* run against one database file.                                          *)
(*                                                                         *)
(* The server's workers share one database connection behind a mutex       *)
(* (adb), the throttle behind another and the keys behind an RwLock; each  *)
(* is taken and released where the handlers do it.  A command-line process *)
(* has its own connection, so one of its SQL statements may fall between   *)
(* any two statements of a handler.  A token is the record of its claims   *)
(* and of the key that signed it; the hash the store keeps is the token.   *)
(***************************************************************************)
EXTENDS Integers, FiniteSets, Sequences

CONSTANTS
    UserIds, Names, Passwords, Roles, GroupIds, GroupNames,
    AWorkers,           \* the server's worker threads
    AClis,              \* concurrent m6-auth-cli processes
    Keys,               \* key pairs an operator may install
    Nonces,             \* {0}: RS256, deterministic; more: ES256
    TokensIssuer,       \* [tokens] issuer of the configuration, or "none"
    SiteDomain,         \* [site] domain of site.toml, or "none"
    AccessTtl, RefreshTtl, Leeway,
    MaxAttempts, WindowSecs,
    ATime,              \* bound on the clock
    MaxFails            \* bound on the wrong passwords tried

ASSUME AuthAssumption ==
    /\ \A c \in {AccessTtl, RefreshTtl, Leeway, MaxAttempts, WindowSecs,
                 ATime, MaxFails} : c \in Nat
    /\ IsFiniteSet(AWorkers) /\ "free" \notin AWorkers
    /\ Keys # {} /\ Nonces # {}

VARIABLES
    auser,      \* users: [UserIds -> row or NoRow]
    agroup,     \* groups: [GroupIds -> name or NoRow]
    amember,    \* memberships
    arefresh,   \* refresh_tokens: set of [tok, uid, exp]
    aapi,       \* api_tokens: set of [tok, uid]
    afiles,     \* the two PEM files: [priv, pub]
    akeys,      \* AppState.keys: [priv, pub]
    areload,    \* the reload in progress: the private key read, or NoKey
    alimit,     \* RateLimiter.map for one address: [count, start] or NoEntry
    adb,        \* the worker holding the database mutex, or "free"
    aworker,    \* what each worker is doing
    acli,       \* what each command-line process is doing
    aweb,       \* one client's cookies: [access, refresh]
    akept,      \* every refresh token ever delivered
    anow,
    ahist       \* history: fails, revoked, ended, born (the ids
                \* used: a UUID does not recur), leaked

avars == <<auser, agroup, amember, arefresh, aapi, afiles, akeys, areload,
           alimit, adb, aworker, acli, aweb, akept, anow, ahist>>
dbvars == <<auser, agroup, amember, arefresh, aapi>>

\* AuthConfig::load falls back on the site's domain, the command line does not.
ServerIssuer == CASE TokensIssuer # "none" -> TokensIssuer
                  [] TokensIssuer = "none" /\ SiteDomain # "none" -> SiteDomain
                  [] OTHER -> "localhost"
CliIssuer == IF TokensIssuer # "none" THEN TokensIssuer ELSE "localhost"

NoRow == [name |-> "none"]
NoKey == "no key"
NoEntry == [count |-> 0, start |-> -1]
NoToken == [kind |-> "none"]
AIdle == [pc |-> "idle"]

UserNamed(n) == {u \in UserIds : auser[u] # NoRow /\ auser[u].name = n}
GroupNamed(n) == {g \in GroupIds : agroup[g] = n}
GroupsOf(u) == {agroup[m[2]] : m \in {x \in amember : x[1] = u}}

----------------------------------------------------------------------------
(* jwt.rs: a token verifies under a public key when the pair signed it, the *)
(* issuer is the server's and it expired no longer than the leeway ago.     *)

AccessToken(u, row, groups, key, iss, ttl, n) ==
    [kind |-> "access", iss |-> iss, sub |-> u, exp |-> anow + ttl,
     groups |-> groups, roles |-> row.roles, key |-> key, nonce |-> n]
RefreshToken(u, key, n) ==
    [kind |-> "refresh", iss |-> ServerIssuer, sub |-> u, exp |-> anow + RefreshTtl,
     key |-> key, nonce |-> n]
Decodes(tok, kind) ==
    /\ tok.kind = kind /\ tok.key = akeys.pub /\ tok.iss = ServerIssuer
    /\ tok.exp + Leeway >= anow

----------------------------------------------------------------------------
(* rate_limit.rs *)

Elapsed(e) == e.start + WindowSecs <= anow
IsBlockedLate == alimit # NoEntry /\ ~Elapsed(alimit) /\ alimit.count > MaxAttempts
IsBlocked == alimit # NoEntry /\ ~Elapsed(alimit) /\ alimit.count >= MaxAttempts
RecordFailure ==
    alimit' = IF alimit = NoEntry \/ Elapsed(alimit)
              THEN [count |-> 1, start |-> anow]
              ELSE [alimit EXCEPT !.count = @ + 1]

----------------------------------------------------------------------------
(* handle_login.  The throttle is asked and released before the database   *)
(* lock is taken; the lock is then held to the end of the handler.         *)

LoginCheck(w) ==
    /\ aworker[w] = AIdle /\ ~IsBlocked
    /\ aworker' = [aworker EXCEPT ![w] = [pc |-> "verify"]]
    /\ UNCHANGED <<dbvars, afiles, akeys, areload, alimit, adb, acli, aweb, akept, anow, ahist>>

\* handle_login_json: a body that does not parse is answered 400, uncounted.
LoginBadBody(w) ==
    /\ aworker[w].pc = "verify"
    /\ aworker' = [aworker EXCEPT ![w] = AIdle]
    /\ UNCHANGED <<dbvars, afiles, akeys, areload, alimit, adb, acli, aweb, akept, anow, ahist>>

\* user_verify_password reads the row; bcrypt decides.
UserVerifyPassword(n, p) == {u \in UserNamed(n) : auser[u].pw = p}

LoginVerify(w) ==
    /\ aworker[w].pc = "verify" /\ adb = "free"
    /\ \E n \in Names, p \in Passwords :
          LET right == UserVerifyPassword(n, p) IN
          IF right = {}
          THEN /\ Len(ahist.fails) < MaxFails
               /\ RecordFailure
               /\ ahist' = [ahist EXCEPT !.fails = Append(@, anow)]
               /\ aworker' = [aworker EXCEPT ![w] = AIdle]
               /\ UNCHANGED adb
          ELSE /\ \E u \in right :
                     aworker' = [aworker EXCEPT ![w] =
                                   [pc |-> "issue", uid |-> u, row |-> auser[u]]]
               /\ adb' = w
               /\ UNCHANGED <<alimit, ahist>>
    /\ UNCHANGED <<dbvars, afiles, akeys, areload, acli, aweb, akept, anow>>

IssueTokens(u, row, n) ==
    [access |-> AccessToken(u, row, GroupsOf(u), akeys.priv, ServerIssuer, AccessTtl, n),
     refresh |-> RefreshToken(u, akeys.priv, n)]

\* The groups are read, the throttle cleared, both tokens signed and the hash
\* stored; the foreign key refuses the row of a user deleted meanwhile (500).
LoginIssue(w) ==
    /\ aworker[w].pc = "issue"
    /\ LET u == aworker[w].uid IN
       \E n \in Nonces :
         LET pair == IssueTokens(u, aworker[w].row, n)
             rt == pair.refresh
         IN  /\ alimit' = NoEntry
             /\ IF auser[u] # NoRow
                THEN /\ arefresh' = {r \in arefresh : r.tok # rt}
                                      \cup {[tok |-> rt, uid |-> u, exp |-> anow + RefreshTtl]}
                     /\ aweb' = pair
                     /\ akept' = akept \cup {rt}
                     /\ ahist' = [ahist EXCEPT !.fails = <<>>, !.revoked = @ \ {rt},
                                               !.ended = @ \ {rt}]
                ELSE /\ ahist' = [ahist EXCEPT !.fails = <<>>]
                     /\ UNCHANGED <<arefresh, aweb, akept>>
    /\ adb' = "free"
    /\ aworker' = [aworker EXCEPT ![w] = AIdle]
    /\ UNCHANGED <<auser, agroup, amember, aapi, afiles, akeys, areload, acli, anow>>

----------------------------------------------------------------------------
(* do_refresh: keys, then database, then keys again. *)

RefreshDecode(w) ==
    /\ aworker[w] = AIdle
    /\ \E t \in akept :
         /\ Decodes(t, "refresh")
         /\ aworker' = [aworker EXCEPT ![w] =
                          [pc |-> "rverify", tok |-> t, dead |-> t \in ahist.revoked]]
    /\ UNCHANGED <<dbvars, afiles, akeys, areload, alimit, adb, acli, aweb, akept, anow, ahist>>

RefreshRowExpiryOnly(t) == t.exp > anow
RefreshRow(t) == \E r \in arefresh : r.tok = t /\ r.exp > anow /\ r.uid = t.sub

RefreshVerify(w) ==
    /\ aworker[w].pc = "rverify" /\ adb = "free"
    /\ IF RefreshRow(aworker[w].tok)
       THEN /\ aworker' = [aworker EXCEPT ![w].pc = "rsign"]
            /\ adb' = w
       ELSE /\ aworker' = [aworker EXCEPT ![w] = AIdle]
            /\ UNCHANGED adb
    /\ UNCHANGED <<dbvars, afiles, akeys, areload, alimit, acli, aweb, akept, anow, ahist>>

RefreshSign(w) ==
    /\ aworker[w].pc = "rsign"
    /\ LET t == aworker[w].tok IN
       IF auser[t.sub] # NoRow
       THEN \E n \in Nonces :
              /\ aweb' = [aweb EXCEPT !.access =
                            AccessToken(t.sub, auser[t.sub], GroupsOf(t.sub), akeys.priv,
                                        ServerIssuer, AccessTtl, n)]
              /\ ahist' = [ahist EXCEPT !.leaked = @ \/ (aworker[w].dead /\ t \in ahist.revoked)]
       ELSE UNCHANGED <<aweb, ahist>>
    /\ adb' = "free"
    /\ aworker' = [aworker EXCEPT ![w] = AIdle]
    /\ UNCHANGED <<dbvars, afiles, akeys, areload, alimit, acli, akept, anow>>

----------------------------------------------------------------------------
(* handle_logout.  A user agent sends a cookie with a request whose path   *)
(* its Path attribute is a prefix of.                                      *)

RefreshCookiePath == <<"auth", "refresh">>
LogoutPath == <<"auth", "logout">>
CookieSent(path) == SubSeq(path, 1, Len(RefreshCookiePath)) = RefreshCookiePath

Revoked(rows) == {r.tok : r \in rows}

LogoutBrowser(w) ==
    /\ aworker[w] = AIdle /\ adb = "free" /\ aweb.refresh # NoToken
    /\ LET rows == IF CookieSent(LogoutPath)
                   THEN {r \in arefresh : r.tok = aweb.refresh} ELSE {} IN
       /\ arefresh' = arefresh \ rows
       /\ ahist' = [ahist EXCEPT !.revoked = @ \cup Revoked(rows),
                                 !.ended = @ \cup {aweb.refresh}]
    /\ aweb' = [access |-> NoToken, refresh |-> NoToken]
    /\ UNCHANGED <<auser, agroup, amember, aapi, afiles, akeys, areload, alimit, adb,
                   aworker, acli, akept, anow>>

LogoutApi(w) ==
    /\ aworker[w] = AIdle /\ adb = "free"
    /\ aweb.access # NoToken /\ Decodes(aweb.access, "access")
    /\ LET rows == {r \in arefresh : r.uid = aweb.access.sub} IN
       /\ arefresh' = arefresh \ rows
       /\ ahist' = [ahist EXCEPT !.revoked = @ \cup Revoked(rows)]
    /\ UNCHANGED <<auser, agroup, amember, aapi, afiles, akeys, areload, alimit, adb,
                   aworker, acli, aweb, akept, anow>>

----------------------------------------------------------------------------
(* Keys: an operator replaces two files, one after the other; reload_state *)
(* reads one and then the other and refuses what is not a pair.            *)

WriteKeyFile(f) ==
    /\ \E k \in Keys \ {afiles[f]} : afiles' = [afiles EXCEPT ![f] = k]
    /\ UNCHANGED <<dbvars, akeys, areload, alimit, adb, aworker, acli, aweb, akept, anow, ahist>>

ReloadPrivate ==
    /\ areload = NoKey
    /\ areload' = afiles.priv
    /\ UNCHANGED <<dbvars, afiles, akeys, alimit, adb, aworker, acli, aweb, akept, anow, ahist>>

CheckPairSkipped(priv, pub) == TRUE
CheckPair(priv, pub) == priv = pub

ReloadPublic ==
    /\ areload # NoKey
    /\ akeys' = IF CheckPair(areload, afiles.pub)
                THEN [priv |-> areload, pub |-> afiles.pub] ELSE akeys
    /\ areload' = NoKey
    /\ UNCHANGED <<dbvars, afiles, alimit, adb, aworker, acli, aweb, akept, anow, ahist>>

\* The server stops and starts: build_state reads keys that are a pair, and
\* the throttle, which lives in memory, is empty again.
ServerRestart ==
    /\ CheckPair(afiles.priv, afiles.pub)
    /\ akeys' = afiles
    /\ areload' = NoKey /\ alimit' = NoEntry /\ adb' = "free"
    /\ aworker' = [w \in AWorkers |-> AIdle]
    /\ ahist' = [ahist EXCEPT !.fails = <<>>]
    /\ UNCHANGED <<dbvars, afiles, acli, aweb, akept, anow>>

----------------------------------------------------------------------------
(* m6-auth-cli.  user add, group add, group member and token create read   *)
(* in one statement and write in a later one.                              *)

CliStep ==
    UNCHANGED <<afiles, akeys, areload, alimit, adb, aworker, aweb, akept, anow>>
CliDone(c) == acli' = [acli EXCEPT ![c] = AIdle] /\ CliStep

UserAddRead(c) ==
    /\ acli[c] = AIdle
    /\ \E n \in Names, p \in Passwords, rs \in SUBSET Roles :
         /\ UserNamed(n) = {}
         /\ acli' = [acli EXCEPT ![c] = [pc |-> "useradd", name |-> n, pw |-> p, roles |-> rs]]
    /\ CliStep /\ UNCHANGED <<dbvars, ahist>>
UserAddWrite(c) ==
    /\ acli[c].pc = "useradd"
    /\ IF UserNamed(acli[c].name) = {}
       THEN \E u \in UserIds \ ahist.born :
              /\ auser' = [auser EXCEPT ![u] = [name |-> acli[c].name, pw |-> acli[c].pw,
                                               roles |-> acli[c].roles]]
              /\ ahist' = [ahist EXCEPT !.born = @ \cup {u}]
       ELSE UNCHANGED <<auser, ahist>>       \* UNIQUE(username)
    /\ CliDone(c) /\ UNCHANGED <<agroup, amember, arefresh, aapi>>

GroupAddRead(c) ==
    /\ acli[c] = AIdle
    /\ \E n \in GroupNames :
         /\ GroupNamed(n) = {}
         /\ acli' = [acli EXCEPT ![c] = [pc |-> "groupadd", name |-> n]]
    /\ CliStep /\ UNCHANGED <<dbvars, ahist>>
GroupAddWrite(c) ==
    /\ acli[c].pc = "groupadd"
    /\ IF GroupNamed(acli[c].name) = {}
       THEN \E g \in GroupIds \ ahist.born :
              /\ agroup' = [agroup EXCEPT ![g] = acli[c].name]
              /\ ahist' = [ahist EXCEPT !.born = @ \cup {g}]
       ELSE UNCHANGED <<agroup, ahist>>      \* UNIQUE(name)
    /\ CliDone(c) /\ UNCHANGED <<auser, amember, arefresh, aapi>>

\* Read, modify, write in two statements: the roles written are computed from
\* the roles read, whatever another process has set meanwhile.
RolesRead(c) ==
    /\ acli[c] = AIdle
    /\ \E n \in Names, set \in SUBSET Roles, unset \in SUBSET Roles :
         /\ set \cup unset # {}
         /\ \E u \in UserNamed(n) :
              acli' = [acli EXCEPT ![c] = [pc |-> "roles", name |-> n,
                                           roles |-> (auser[u].roles \cup set) \ unset]]
    /\ CliStep /\ UNCHANGED <<dbvars, ahist>>
RolesWrite(c) ==
    /\ acli[c].pc = "roles"
    /\ auser' = [u \in UserIds |-> IF u \in UserNamed(acli[c].name)
                                   THEN [auser[u] EXCEPT !.roles = acli[c].roles] ELSE auser[u]]
    /\ CliDone(c) /\ UNCHANGED <<agroup, amember, arefresh, aapi, ahist>>

MemberRead(c) ==
    /\ acli[c] = AIdle
    /\ \E n \in Names, gn \in GroupNames, how \in {"memberadd", "memberdel"} :
         \E u \in UserNamed(n), g \in GroupNamed(gn) :
            acli' = [acli EXCEPT ![c] = [pc |-> how, pair |-> <<u, g>>]]
    /\ CliStep /\ UNCHANGED <<dbvars, ahist>>
MemberWrite(c) ==
    /\ \/ /\ acli[c].pc = "memberadd"         \* the foreign keys refuse a gone id
          /\ LET p == acli[c].pair IN
             amember' = IF auser[p[1]] # NoRow /\ agroup[p[2]] # "none"
                        THEN amember \cup {p} ELSE amember
       \/ /\ acli[c].pc = "memberdel"
          /\ amember' = amember \ {acli[c].pair}
    /\ CliDone(c) /\ UNCHANGED <<auser, agroup, arefresh, aapi, ahist>>

TokenRead(c) ==
    /\ acli[c] = AIdle
    /\ \E n \in Names, k \in Nonces : \E u \in UserNamed(n) :
         acli' = [acli EXCEPT ![c] =
            [pc |-> "token", uid |-> u,
             tok |-> AccessToken(u, auser[u], GroupsOf(u), afiles.priv, CliIssuer, AccessTtl, k)]]
    /\ CliStep /\ UNCHANGED <<dbvars, ahist>>
TokenWrite(c) ==
    /\ acli[c].pc = "token"
    /\ aapi' = IF auser[acli[c].uid] # NoRow /\ ~(\E a \in aapi : a.tok = acli[c].tok)
               THEN aapi \cup {[tok |-> acli[c].tok, uid |-> acli[c].uid]} ELSE aapi
    /\ CliDone(c) /\ UNCHANGED <<auser, agroup, amember, arefresh, ahist>>

\* PRAGMA foreign_keys=ON: deleting a user or a group takes its rows along.
DropUserAlone(us) ==
    /\ auser' = [u \in UserIds |-> IF u \in us THEN NoRow ELSE auser[u]]
    /\ UNCHANGED <<agroup, amember, arefresh, aapi, ahist>>
DropUser(us) ==
    LET rows == {r \in arefresh : r.uid \in us} IN
    /\ auser' = [u \in UserIds |-> IF u \in us THEN NoRow ELSE auser[u]]
    /\ amember' = {m \in amember : m[1] \notin us}
    /\ arefresh' = arefresh \ rows
    /\ aapi' = {a \in aapi : a.uid \notin us}
    /\ ahist' = [ahist EXCEPT !.revoked = @ \cup Revoked(rows)]
    /\ UNCHANGED agroup

CliUserDel(c) ==
    /\ acli[c] = AIdle
    /\ \E n \in Names : UserNamed(n) # {} /\ DropUser(UserNamed(n))
    /\ CliStep /\ UNCHANGED acli
CliPasswd(c) ==
    /\ acli[c] = AIdle
    /\ \E n \in Names, p \in Passwords : \E u \in UserNamed(n) :
         auser' = [auser EXCEPT ![u].pw = p]
    /\ CliStep /\ UNCHANGED <<agroup, amember, arefresh, aapi, acli, ahist>>
CliGroupDel(c) ==
    /\ acli[c] = AIdle
    /\ \E n \in GroupNames :
         /\ GroupNamed(n) # {}
         /\ agroup' = [g \in GroupIds |-> IF g \in GroupNamed(n) THEN "none" ELSE agroup[g]]
         /\ amember' = {m \in amember : m[2] \notin GroupNamed(n)}
    /\ CliStep /\ UNCHANGED <<auser, arefresh, aapi, acli, ahist>>
CliTokenRevoke(c) ==
    /\ acli[c] = AIdle
    /\ \E a \in aapi : aapi' = aapi \ {a}
    /\ CliStep /\ UNCHANGED <<auser, agroup, amember, arefresh, acli, ahist>>

ATick ==
    /\ anow < ATime /\ anow' = anow + 1
    /\ UNCHANGED <<dbvars, afiles, akeys, areload, alimit, adb, aworker, acli, aweb, akept, ahist>>

----------------------------------------------------------------------------
AInit ==
    /\ \E k \in Keys : afiles = [priv |-> k, pub |-> k] /\ akeys = afiles
    /\ auser = [u \in UserIds |-> NoRow] /\ agroup = [g \in GroupIds |-> "none"]
    /\ amember = {} /\ arefresh = {} /\ aapi = {}
    /\ areload = NoKey /\ alimit = NoEntry /\ adb = "free"
    /\ aworker = [w \in AWorkers |-> AIdle] /\ acli = [c \in AClis |-> AIdle]
    /\ aweb = [access |-> NoToken, refresh |-> NoToken] /\ akept = {}
    /\ anow = 0
    /\ ahist = [fails |-> <<>>, revoked |-> {}, ended |-> {}, born |-> {}, leaked |-> FALSE]

ANext ==
    \/ \E w \in AWorkers :
         LoginCheck(w) \/ LoginBadBody(w) \/ LoginVerify(w) \/ LoginIssue(w)
         \/ RefreshDecode(w) \/ RefreshVerify(w) \/ RefreshSign(w)
         \/ LogoutBrowser(w) \/ LogoutApi(w)
    \/ \E f \in {"priv", "pub"} : WriteKeyFile(f)
    \/ ReloadPrivate \/ ReloadPublic \/ ServerRestart
    \/ \E c \in AClis : UserAddRead(c) \/ UserAddWrite(c) \/ GroupAddRead(c) \/ GroupAddWrite(c)
                        \/ RolesRead(c) \/ RolesWrite(c) \/ MemberRead(c) \/ MemberWrite(c)
                        \/ TokenRead(c) \/ TokenWrite(c) \/ CliUserDel(c) \/ CliPasswd(c)
                        \/ CliGroupDel(c) \/ CliTokenRevoke(c)
    \/ ATick

ASpec == AInit /\ [][ANext]_avars

----------------------------------------------------------------------------
(* The keys in memory always are a pair, however the two files are replaced *)
(* around a reload: what the server signs, the key it publishes verifies.   *)
AKeysAreAPair == akeys.priv = akeys.pub

(* No membership, refresh token or API token outlives its user or group:   *)
(* the cascades and the foreign keys hold against a command-line process   *)
(* that looked the row up before it was deleted (lib.rs SCHEMA).           *)
ARowsHaveOwners ==
    /\ \A m \in amember : auser[m[1]] # NoRow /\ agroup[m[2]] # "none"
    /\ \A r \in arefresh \cup aapi : auser[r.uid] # NoRow

(* A refresh that began after its token was revoked (logout, or deletion   *)
(* of the user) yields no access token unless the token was issued again.  *)
ARevokedNeverRefreshes == ~ahist.leaked

(* The wrong passwords that block an address: an allowance of zero is one, *)
(* since an address without an entry is never blocked.                     *)
Allowance == IF MaxAttempts = 0 THEN 1 ELSE MaxAttempts

(* The throttle: it is asked before the password is checked and told      *)
(* after, so workers that asked together may all go on; the wrong          *)
(* passwords of a window since the last successful login still stay within *)
(* the allowance plus one for each other worker.                           *)
AGuessesAreBounded ==
    alimit # NoEntry =>
        Cardinality({i \in DOMAIN ahist.fails : ahist.fails[i] \in
                        alimit.start..(alimit.start + WindowSecs - 1)})
            <= Allowance + Cardinality(AWorkers) - 1

(* docs/m6-auth.md on POST /auth/logout: "Revokes the refresh token."  The *)
(* refresh cookie's Path keeps it from being sent there.                   *)
ALogoutRevokes == \A r \in arefresh : r.tok \notin ahist.ended

(* What holds of accounts, tokens and keys in every state.                 *)
AContract == AKeysAreAPair /\ ARowsHaveOwners /\ ARevokedNeverRefreshes /\ AGuessesAreBounded
=============================================================================
