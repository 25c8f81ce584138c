-------------------------- MODULE MCCacheCoherence --------------------------
(***************************************************************************)
(* The cache across a content change, and the loop that has to come back    *)
(* for its later clears.  In CacheCoherence one unit of time is 20 ms, the  *)
(* debounce window; its EDGE_WAIT is what LoopContract bounds in EventLoop.  *)
(* The two share no state, so each behaviour is of one of them, `focus`,    *)
(* and the other stays as it begins.                                        *)
(***************************************************************************)
EXTENDS CacheCoherence, EventLoop

CONSTANTS lc1, lc2

VARIABLE focus

allvars == <<focus, vars, loopvars>>

MCInit ==
    /\ focus \in {"cache", "loop"}
    /\ Init
    /\ focus # "cache" => kind = CHOOSE k \in Backends : TRUE
    /\ LoopInit

(* The component in focus takes a step, every other one rests. *)
MCNext ==
    /\ UNCHANGED focus
    /\ IF focus = "cache" THEN Next ELSE UNCHANGED vars
    /\ IF focus = "loop" THEN LoopNext ELSE UNCHANGED loopvars

MCSpec == MCInit /\ [][MCNext]_allvars
=============================================================================
