--------------------------- MODULE PageValidators ---------------------------
(***************************************************************************)
(* The validators of a rendered page and what a revalidation with them     *)
(* answers: Last-Modified, computed once per reload from template and      *)
(* params files (m6-core app.rs FrameworkState::build), the ETag, a hash   *)
(* of the body (response.rs send), and the preconditions evaluated against *)
(* them (conditional.rs), from the day a file is edited to the day a       *)
(* client that kept a copy asks again.                                     *)
(*                                                                         *)
(* Time counts half seconds: a file's mtime has both halves, an HTTP date  *)
(* only the whole second.  An edit may carry any date: a clock is set      *)
(* back, a copy keeps the date of its original.                            *)
(***************************************************************************)
EXTENDS Integers, Sequences, FiniteSets

CONSTANTS
    YTime,    \* bound: half seconds
    MaxEdits  \* bound: edits of one file

ASSUME YAssumption == YTime \in Nat /\ MaxEdits \in Nat

VARIABLES
    yfiles,   \* each input file: its mtime, the version of its content, and
              \* whether that mtime is older than one a page may have borne
    yhigh,    \* the newest date a dated input ever had
    ybuild,   \* the framework state being built, with the inputs yet to read
    ystate,   \* the framework state pages are rendered from
    yclient   \* the copy a client keeps, its validators, and the last answer

yvars == <<yfiles, yhigh, ybuild, ystate, yclient>>

\* Inputs of one page: a shared template, the route's own params file, and a
\* global params file, which does not date it.
Inputs == {"template", "params", "globals"}
Dated == Inputs \ {"globals"}

Second(t) == t \div 2
Newest(S) == CHOOSE t \in S : \A u \in S : u <= t

\* Mutant: the newest template alone dates the page.
LastModifiedOfTemplate(files) == files["template"].mtime

\* The newest template and this route's static params files.
LastModified(files) == Newest({files["template"].mtime, files["params"].mtime})

-----------------------------------------------------------------------------
(* evaluate_preconditions                                                  *)

\* A request's conditional headers: which are given, the tag list of
\* If-Match or If-None-Match (or "*"), and the date of the other two.
WeakEq(a, b) == a.value = b.value
StrongEq(a, b) == ~a.weak /\ ~b.weak /\ a.value = b.value
ListContains(list, tag, strong) ==
    \E c \in list : IF strong THEN StrongEq(c, tag) ELSE WeakEq(c, tag)

Precondition(etag, lm, h, method) ==
    LET safe == method \in {"GET", "HEAD"}
        ifMatchFails ==
            "im" \in h.given /\ ~h.star /\ ~ListContains(h.tags, etag, TRUE)
        changedSince ==
            "im" \notin h.given /\ "ius" \in h.given /\ lm > h.date
        matched == h.star \/ ListContains(h.tags, etag, FALSE)
    IN IF ifMatchFails \/ changedSince THEN "failed"
       ELSE IF "inm" \in h.given
            THEN IF ~matched THEN "proceed"
                 ELSE IF safe THEN "not_modified" ELSE "failed"
       ELSE IF safe /\ "ims" \in h.given /\ lm <= h.date THEN "not_modified"
       ELSE "proceed"

\* The page is a function of the versions of its inputs, and so is its tag.
ETagOf(state) == [value |-> state.content, weak |-> FALSE]
HttpDate(t) == Second(t)

-----------------------------------------------------------------------------
AllOf(v) == [f \in Inputs |-> v]

\* No build is under way: nothing is left to read and nothing was dated.
NoBuild == [busy |-> FALSE, left |-> <<>>, lm |-> 0, content |-> AllOf(0), dated |-> AllOf(0),
            edited |-> AllOf(0), back |-> AllOf(FALSE)]

YInit ==
    /\ yfiles = AllOf([mtime |-> 0, version |-> 0, back |-> FALSE])
    /\ yhigh = 0
    /\ ybuild = NoBuild
    /\ ystate = [content |-> AllOf(0), lm |-> 0, dated |-> AllOf(0), edited |-> AllOf(0),
                 back |-> AllOf(FALSE)]
    /\ yclient = [content |-> AllOf(0), date |-> 0, answer |-> "200", how |-> "get"]

(* The editor (external).                                                  *)
Edit(f, t) ==
    /\ yfiles[f].version < MaxEdits
    /\ yfiles' = [yfiles EXCEPT ![f] = [mtime |-> t, version |-> yfiles[f].version + 1,
                                        back |-> t < yhigh]]
    /\ yhigh' = IF f \in Dated /\ yhigh < t THEN t ELSE yhigh
    /\ UNCHANGED <<ybuild, ystate, yclient>>

-----------------------------------------------------------------------------
(* FrameworkState::build: the files are dated first and read later, one    *)
(* after the other; the state is installed at the end, or not at all when  *)
(* an input does not parse.  Until it is read, an input is known by the    *)
(* version that was dated.                                                 *)
StatInputs ==
    /\ ~ybuild.busy
    /\ ybuild' = [busy |-> TRUE, left |-> <<"template", "globals", "params">>,
                  lm |-> LastModified(yfiles),
                  content |-> [f \in Inputs |-> yfiles[f].version],
                  dated |-> [f \in Inputs |-> yfiles[f].version],
                  edited |-> [f \in Inputs |-> yfiles[f].mtime],
                  back |-> [f \in Inputs |-> yfiles[f].back]]
    /\ UNCHANGED <<yfiles, yhigh, ystate, yclient>>

ReadInput ==
    /\ ybuild.left # <<>>
    /\ LET f == Head(ybuild.left)
       IN ybuild' = [ybuild EXCEPT !.left = Tail(ybuild.left), !.content[f] = yfiles[f].version]
    /\ UNCHANGED <<yfiles, yhigh, ystate, yclient>>

\* An input does not parse or a later check refuses: the state stays.
RefuseBuild ==
    /\ ybuild.busy
    /\ ybuild' = NoBuild
    /\ UNCHANGED <<yfiles, yhigh, ystate, yclient>>

\* The client has asked the new state nothing yet.
InstallBuild ==
    /\ ybuild.busy
    /\ ybuild.left = <<>>
    /\ ystate' = [content |-> ybuild.content, lm |-> ybuild.lm, dated |-> ybuild.dated,
                  edited |-> ybuild.edited, back |-> ybuild.back]
    /\ ybuild' = NoBuild
    /\ yclient' = [yclient EXCEPT !.answer = "none", !.how = "get"]
    /\ UNCHANGED <<yfiles, yhigh>>

-----------------------------------------------------------------------------
\* The client takes the page as it is served, with its date and its tag.
TakePage(how) ==
    yclient' = [content |-> ystate.content, date |-> HttpDate(ystate.lm),
                answer |-> "200", how |-> how]

FetchPage ==
    /\ TakePage("get")
    /\ UNCHANGED <<yfiles, yhigh, ybuild, ystate>>

ByTag == {"tag", "weak", "both", "match"}
ByDate == {"date", "since"}

\* The headers of a client (external) that asks again by the tag, by a tag a
\* middlebox weakened, by the date, or by both; or asks for the page only if it
\* still has that tag, or is unmodified since that date.
Asked(how) ==
    [given |-> CASE how \in {"tag", "weak"} -> {"inm"}
                 [] how = "both" -> {"inm", "ims"}
                 [] how = "date" -> {"ims"}
                 [] how = "match" -> {"im"}
                 [] how = "since" -> {"ius"},
     star |-> FALSE, date |-> yclient.date,
     tags |-> {[value |-> yclient.content, weak |-> how = "weak"]}]

\* 304, 412 or the page.
Revalidate(how) ==
    LET r == Precondition(ETagOf(ystate), HttpDate(ystate.lm), Asked(how), "GET")
    IN /\ \/ r = "not_modified" /\ yclient' = [yclient EXCEPT !.answer = "304", !.how = how]
          \/ r = "failed" /\ yclient' = [yclient EXCEPT !.answer = "412", !.how = how]
          \/ r = "proceed" /\ TakePage(how)
       /\ UNCHANGED <<yfiles, yhigh, ybuild, ystate>>

YNext ==
    \/ StatInputs \/ ReadInput \/ RefuseBuild \/ InstallBuild \/ FetchPage
    \/ \E f \in Inputs, t \in 0..YTime : Edit(f, t)
    \/ \E how \in ByTag \cup ByDate : Revalidate(how)

YSpec == YInit /\ [][YNext]_yvars

-----------------------------------------------------------------------------
\* A client is told that its copy is the page (304, or no 412 where it asked
\* for that) only when it is.  By tag that holds always.  By date it holds for
\* each input the date is computed from, unless that input was edited within
\* the second the date names, between being dated and being read by the build,
\* or with a date older than one the page had borne.
YNotModifiedIsHonest ==
    [][ LET how == yclient'.how
            told == yclient'.answer = IF how \in {"match", "since"} THEN "200" ELSE "304"
            same(f) == yclient.content[f] = ystate.content[f]
            escapes(f) == \/ Second(ystate.edited[f]) = yclient.date
                          \/ ystate.content[f] # ystate.dated[f]
                          \/ ystate.back[f]
        IN yclient' # yclient /\ yclient'.answer # "none" =>
              /\ told /\ how \in ByTag => \A f \in Inputs : same(f)
              /\ told /\ how \in ByDate => \A f \in Dated : same(f) \/ escapes(f)
              /\ ~told /\ how = "match" => \E f \in Inputs : ~same(f) ]_yvars
=============================================================================
