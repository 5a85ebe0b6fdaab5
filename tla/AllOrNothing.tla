--------------------------- MODULE AllOrNothing ---------------------------
(***************************************************************************)
(* What applyFRRConfigOpts promises: a cycle replaces the live frr.conf    *)
(* and what FRR runs by one new, valid configuration, together, or it      *)
(* leaves both as they were.                                               *)
(***************************************************************************)
CONSTANTS Valid,    \* the configurations vtysh -C accepts
          Initial   \* the one the host starts with

VARIABLES file,     \* frr.conf
          running,  \* the configuration FRR runs
          busy      \* a cycle is under way

vars == <<file, running, busy>>

Init == file = Initial /\ running = Initial /\ busy = FALSE

Begin == ~busy /\ busy' = TRUE /\ UNCHANGED <<file, running>>

Commit ==
  /\ busy /\ busy' = FALSE
  /\ file' \in Valid
  /\ running' = file'

Abort == busy /\ busy' = FALSE /\ UNCHANGED <<file, running>>

Next == Begin \/ Commit \/ Abort

Spec == Init /\ [][Next]_vars
=============================================================================
