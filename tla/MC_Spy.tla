------------------------------- MODULE MC_Spy -------------------------------
EXTENDS Spy, TLC

CONSTANTS c1, c2, c3, d1, d2

(* Three threads on a Spy: two register_call, one                        *)
(* register_call_return_next; two default functions.                     *)
Sync_Callers == {c1, c2, c3}
Sync_Method ==
    (c1 :> "register_call") @@ (c2 :> "register_call")
        @@ (c3 :> "register_call_return_next")

(* Two tasks on an AsyncSpy. *)
Async_Callers == {c1, c2}
Async_Method == (c1 :> "register_call") @@ (c2 :> "register_call")

MC_DefaultFns == {d1, d2}
=============================================================================
