------------------------------- MODULE Promise -------------------------------
(***************************************************************************)
(* What a caller of an HTTP/2 client is promised (h2c_client.rs, dispatch:   *)
(* "the caller gets an mpsc::Receiver that resolves when the stream          *)
(* completes").  A call is made once, is settled at most once, and while it  *)
(* is not settled something is still at work on it.  A connection that dies  *)
(* fails all of its calls at once.                                         *)
(***************************************************************************)
CONSTANT Calls

VARIABLE promise   \* promise[c]: "none", "pending", "answered" or "failed"

PromiseInit == promise = [c \in Calls |-> "none"]

Make(c) ==
    /\ promise[c] = "none"
    /\ promise' = [promise EXCEPT ![c] = "pending"]

\* No connection could be made for the call.
Refuse(c) ==
    /\ promise[c] = "none"
    /\ promise' = [promise EXCEPT ![c] = "failed"]

Answer(c) ==
    /\ promise[c] = "pending"
    /\ promise' = [promise EXCEPT ![c] = "answered"]

Fail(S) ==
    /\ \A c \in S : promise[c] = "pending"
    /\ promise' = [c \in Calls |-> IF c \in S THEN "failed" ELSE promise[c]]

PromiseNext ==
    \/ \E c \in Calls : Make(c) \/ Refuse(c) \/ Answer(c)
    \/ \E S \in (SUBSET Calls) \ {{}} : Fail(S)

PromiseSpec == PromiseInit /\ [][PromiseNext]_promise
=============================================================================
