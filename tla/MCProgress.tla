----------------------------- MODULE MCProgress -----------------------------
(***************************************************************************)
(* The loops that must get somewhere: the edge's and a service's.          *)
(* The components share no state here, so each behaviour is of one of them, *)
(* `focus`, and the others stay as they begin.                             *)
(***************************************************************************)
EXTENDS Http11Conn, ServiceLifecycle

VARIABLE focus

allvars == <<focus, h1vars, vvars>>



(* One component at a time. *)

MCInit ==
    /\ focus \in {"h1", "life"}
    /\ H1Init
    /\ focus # "h1" => h1.tls
    /\ VInit
    /\ focus # "life" => vsock = "none" /\ vtimeout

(* The component in focus takes a step, every other one rests. *)
MCNext ==
    /\ UNCHANGED focus
    /\ IF focus = "h1" THEN H1Next ELSE UNCHANGED h1vars
    /\ IF focus = "life" THEN VNext ELSE UNCHANGED vvars

MCSpec ==
    /\ MCInit
    /\ [][MCNext]_allvars
    /\ WF_h1vars(focus = "h1" /\ H1Drive)
    /\ \A k \in {0, 1} : WF_h1vars(focus = "h1" /\ TimePasses /\ h1.turn = k)
    /\ WF_vvars(focus = "life" /\ MainStep)
    /\ SF_vvars(focus = "life" /\ Accept)
    /\ \A w \in Workers : WF_vvars(focus = "life" /\ WorkerStep(w))
=============================================================================
