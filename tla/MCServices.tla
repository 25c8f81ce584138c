----------------------------- MODULE MCServices -----------------------------
(***************************************************************************)
(* A service of the site.                                                  *)
(* The components share no state here, so each behaviour is of one of them, *)
(* `focus`, and the others stay as they begin.                             *)
(***************************************************************************)
EXTENDS ServiceStart, ServiceRoutes, PageValidators, ServiceData, ServiceVisitor, FileServer, MarkdownWatch, Storage, BackendWire

VARIABLE focus

allvars == <<focus, uvars, zvars, yvars, dvars, qvars, ivars, jvars, svars, wvars>>

(* ServiceStart *)

GoodConfig == [parses |-> TRUE, empty |-> FALSE, own |-> {"db"}, secret |-> {"flash_secret"},
         there |-> TRUE, namesSite |-> TRUE, compresses |-> TRUE, builds |-> TRUE,
         routes |-> {[path |-> "/a", how |-> "h1"], [path |-> "/c", how |-> "nothing"]}]

MCUConfigs ==
    {GoodConfig,
     [GoodConfig EXCEPT !.routes = {[path |-> "/a", how |-> "template"]}],
     [GoodConfig EXCEPT !.routes = {[path |-> "/a", how |-> "h2"]}],
     [GoodConfig EXCEPT !.routes = {[path |-> "/b", how |-> "nothing"]}, !.namesSite = FALSE],
     [GoodConfig EXCEPT !.own = @ \cup {"flash_secret"}],
     [GoodConfig EXCEPT !.there = FALSE, !.own = {}, !.compresses = FALSE],
     [GoodConfig EXCEPT !.builds = FALSE],
     [GoodConfig EXCEPT !.parses = FALSE],
     [GoodConfig EXCEPT !.own = {}, !.secret = {}, !.empty = TRUE, !.routes = {},
                  !.namesSite = FALSE]}

MCUSites ==
    {[there |-> TRUE, parses |-> TRUE, empty |-> FALSE, declares |-> "yes"],
     [there |-> TRUE, parses |-> TRUE, empty |-> FALSE, declares |-> "no"],
     [there |-> TRUE, parses |-> FALSE, empty |-> FALSE, declares |-> "nothing"],
     [there |-> TRUE, parses |-> TRUE, empty |-> TRUE, declares |-> "nothing"],
     [there |-> FALSE, parses |-> FALSE, empty |-> FALSE, declares |-> "nothing"]}

MCUBinaries ==
    {b \in [flavour : {"plain", "global", "thread", "state"}, flash : BOOLEAN, hook : BOOLEAN] :
        b.hook => b.flavour \in {"global", "state"}}

(* ServiceRoutes *)

MCPatterns == {<<"a">>, <<"{x}">>, <<"{*x}">>, <<"a", "{x}">>, <<"{x}", "b">>, <<"a", "{*x}">>, <<"{*x}", "b">>}
MCPaths == {<<>>, <<"a">>, <<"c">>, <<"a", "b">>, <<"c", "b">>, <<"a", "c", "b">>}

(* ServiceData *)

MCTmp == [p \in DPaths |-> IF p = "a.json" THEN "a.tmp" ELSE "b.tmp"]
MCCalls == {<<"w1", "atomic", "a.json">>, <<"w2", "atomic", "a.json">>, <<"w2", "touch", "b.json">>,
            <<"w2", "plain", "b.json">>, <<"w2", "read", "a.json">>, <<"w2", "list", "a.json">>}

(* FileServer *)

MCVersions == {[id |-> 1, there |-> TRUE, mtime |-> 1, len |-> 2], [id |-> 2, there |-> TRUE, mtime |-> 2, len |-> 3],
               [id |-> 3, there |-> TRUE, mtime |-> 3, len |-> 1],
               [id |-> 4, there |-> FALSE, mtime |-> 0, len |-> 0]}
MCAccepts == {[br |-> 2], [gzip |-> 1, br |-> 0], [identity |-> 2], [i \in {"*", "br"} |-> IF i = "*" THEN 2 ELSE 1]}
MCLevels == {"br", "gzip"}
MCLines == <<2, 1, 3, 2>>

(* Storage *)

MCCode == [p \in Procs |-> IF p = "old" THEN 2 ELSE 3]

(* One component at a time. *)

MCInit ==
    /\ focus \in {"start", "routes", "page", "data", "visitor", "files", "markdown", "store", "wire"}
    /\ UInit
    /\ focus # "start" =>
           /\ udisk.c = CHOOSE c \in UConfigs : TRUE
           /\ udisk.s = CHOOSE s \in USites : TRUE
           /\ ubin = CHOOSE b \in UBinaries : TRUE
    /\ ZInit
    /\ focus # "routes" => zroutes.code = <<>>
    /\ YInit
    /\ DInit
    /\ QInit
    /\ IInit
    /\ JInit
    /\ focus # "markdown" => jdocs = [d \in JDocs |-> 0]
    /\ SInit
    /\ WInit
    /\ focus # "wire" =>
           /\ wbuf = <<"line11">>
           /\ wconn.phase = "parse"

(* The component in focus takes a step, every other one rests. *)
MCNext ==
    /\ UNCHANGED focus
    /\ IF focus = "start" THEN UNext ELSE UNCHANGED uvars
    /\ IF focus = "routes" THEN ZNext ELSE UNCHANGED zvars
    /\ IF focus = "page" THEN YNext ELSE UNCHANGED yvars
    /\ IF focus = "data" THEN DNext ELSE UNCHANGED dvars
    /\ IF focus = "visitor" THEN QNext ELSE UNCHANGED qvars
    /\ IF focus = "files" THEN INext ELSE UNCHANGED ivars
    /\ IF focus = "markdown" THEN JNext ELSE UNCHANGED jvars
    /\ IF focus = "store" THEN SNext ELSE UNCHANGED svars
    /\ IF focus = "wire" THEN WNext ELSE UNCHANGED wvars

MCSpec == MCInit /\ [][MCNext]_allvars
=============================================================================
