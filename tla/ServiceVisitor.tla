--------------------------- MODULE ServiceVisitor ---------------------------
(***************************************************************************)
(* What a visitor and a service remember of each other between requests:   *)
(* the double-submit form token, kept in a cookie and in the pages         *)
(* (build_dict and handle_request in m6-core/src/app.rs,                   *)
(* Request::verify_csrf).  The browser is external: one jar, several tabs  *)
(* that load at the same time, on any of the service's workers.  The       *)
(* one-shot flash message is not here: no service with that feature starts *)
(* (ServiceStart).                                                         *)
(*                                                                         *)
(* qjar   the token in the browser's cookie jar (0: none)                  *)
(* qload  what each tab is loading: the cookie and the field it sent, the  *)
(*        status, cookie and form that come back, and whether a request    *)
(*        without a cookie was under way in another tab meanwhile          *)
(* qpage  the page of each tab: the token in its form (0: no form), and    *)
(*        whether it was loaded beside such a request                      *)
(* qnext  the next fresh token                                             *)
(* qtold  whether the form of a page that was loaded beside none was       *)
(*        refused                                                          *)
(***************************************************************************)
EXTENDS Naturals

CONSTANTS QTabs,      \* tabs of the browser
          QMaxTokens  \* tokens the service generates

ASSUME VisitorAssumption == QMaxTokens \in Nat \ {0}

VARIABLES qjar, qload, qpage, qnext, qtold

qvars == <<qjar, qload, qpage, qnext, qtold>>

QIdle == [at |-> "none", kind |-> "none", csrf |-> 0, field |-> 0,
          status |-> 0, cookie |-> 0, form |-> 0, crossed |-> FALSE]

QInit ==
    /\ qjar = 0
    /\ qload = [t \in QTabs |-> QIdle]
    /\ qpage = [t \in QTabs |-> [form |-> 0, crossed |-> FALSE]]
    /\ qnext = 1
    /\ qtold = FALSE

-----------------------------------------------------------------------------
\* The request dictionary's last step.  The page's token is what the request
\* submitted, else the cookie's, else a fresh one.
PageToken(r) == IF r.field # 0 THEN r.field
                ELSE IF r.csrf # 0 THEN r.csrf ELSE qnext

\* A token is drawn for a page that has none, and for an unmatched path, which
\* has no dictionary, when the visitor has no cookie.
Draws(r) == r.csrf = 0 /\ (r.kind = "miss" \/ r.field = 0)

\* verify_csrf: the cookie and the submitted field are both there and the same.
VerifyCsrf(r) == r.csrf # 0 /\ PageToken(r) = r.csrf

\* The cookie handle_request adds for a visitor who has none: the page's own
\* token.  Mutant: one drawn for the cookie.
CsrfCookieFresh(r) == IF r.csrf # 0 THEN 0 ELSE qnext + 1
CsrfCookie(r) ==
    IF r.csrf # 0 THEN 0
    ELSE IF r.kind = "miss" THEN qnext ELSE PageToken(r)

\* A template route's page has the form; a handler that checks the form
\* redirects; or no route matches.
Status(r) ==
    CASE r.kind = "page" -> 200
      [] r.kind = "post" -> IF VerifyCsrf(r) THEN 302 ELSE 403
      [] r.kind = "miss" -> 404

QServe(t) ==
    LET r == qload[t]
    IN  /\ r.at = "asked"
        /\ qnext < QMaxTokens
        /\ qload' = [qload EXCEPT ![t] =
                        [r EXCEPT !.at = "answered", !.status = Status(r), !.cookie = CsrfCookie(r),
                                  !.form = IF r.kind = "page" THEN PageToken(r) ELSE 0]]
        /\ qnext' = IF Draws(r) THEN qnext + 1 ELSE qnext
        /\ qtold' = (qtold \/ (Status(r) = 403 /\ ~qpage[t].crossed))
        /\ UNCHANGED <<qjar, qpage>>

\* build_dict refuses a path parameter or cannot read a params file: the error is
\* written at once, before the cookie is.
QServeRefused(t) ==
    /\ qload[t].at = "asked"
    /\ qload[t].kind \in {"page", "post"}
    /\ qload' = [qload EXCEPT ![t] = [@ EXCEPT !.at = "answered", !.status = 400]]
    /\ UNCHANGED <<qjar, qpage, qnext, qtold>>

-----------------------------------------------------------------------------
(* The browser (external).                                                  *)

\* A request without a cookie is under way in the tab.
First(k) == k.at # "none" /\ k.csrf = 0

QSend(kind, t, field) ==
    /\ qload[t].at = "none"
    /\ qload' = [u \in QTabs |->
                    IF u = t
                    THEN [QIdle EXCEPT !.at = "asked", !.kind = kind, !.csrf = qjar, !.field = field,
                                       !.crossed = \E v \in QTabs \ {t} : First(qload[v])]
                    ELSE [qload[u] EXCEPT !.crossed = @ \/ (qload[u].at # "none" /\ qjar = 0)]]
    /\ UNCHANGED <<qjar, qpage, qnext, qtold>>

QOpen(t) == \E k \in {"page", "miss"} : QSend(k, t, 0)

QSubmit(t) == qpage[t].form # 0 /\ QSend("post", t, qpage[t].form)

QReceive(t) ==
    LET r == qload[t]
    IN  /\ r.at = "answered"
        /\ qjar' = IF r.cookie # 0 THEN r.cookie ELSE qjar
        /\ qpage' = [qpage EXCEPT ![t] = [form |-> r.form, crossed |-> r.crossed]]
        /\ qload' = [qload EXCEPT ![t] = QIdle]
        /\ UNCHANGED <<qnext, qtold>>

\* The connection is lost before the answer arrives; the page stays.
QLoseReply(t) ==
    /\ qload[t].at = "answered"
    /\ qload' = [qload EXCEPT ![t] = QIdle]
    /\ UNCHANGED <<qjar, qpage, qnext, qtold>>

QNext ==
    \E t \in QTabs : \/ QServe(t) \/ QServeRefused(t)
                     \/ QOpen(t) \/ QSubmit(t)
                     \/ QReceive(t) \/ QLoseReply(t)

QSpec == QInit /\ [][QNext]_qvars

-----------------------------------------------------------------------------
\* The form of any page on screen is accepted when the visitor submits it,
\* whatever requests, refusals and lost answers of any tab came between ("Reuse
\* the exact token build_dict already put in dict"), unless a request without a
\* cookie was under way in another tab while the page was loaded: such requests
\* are each given a token of their own, and the cookie that arrives last wins.
QOwnFormsAreAccepted == ~qtold
=============================================================================
