--------------------------- MODULE SerialCycles ---------------------------
(***************************************************************************)
(* What a process promises about its cycles: one at a time, and none under *)
(* way or yet to come once its refresh loop has returned, when the caller  *)
(* tears down the HTTP server and exits.                                   *)
(***************************************************************************)
VARIABLES running,  \* a cycle is under way
          over      \* the loop has returned

vars == <<running, over>>

Init == running = FALSE /\ over = FALSE

Begin == ~running /\ ~over /\ running' = TRUE /\ UNCHANGED over
End   == running /\ running' = FALSE /\ UNCHANGED over
Stop  == ~running /\ ~over /\ over' = TRUE /\ UNCHANGED running

Next == Begin \/ End \/ Stop

Spec == Init /\ [][Next]_vars
=============================================================================
