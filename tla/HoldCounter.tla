---------------------------- MODULE HoldCounter ----------------------------
(***************************************************************************)
(* What a counted switch promises: the switch is on exactly while at least *)
(* one hold is outstanding.  The INHIBIT module (src/src/modules/inhibit.c)*)
(* and the suspend half of PM (src/src/modules/pm.c) both have to          *)
(* implement it, each with its own static counter and a flag in "state".   *)
(***************************************************************************)
EXTENDS Naturals

VARIABLES
  n,    \* the number of holds outstanding
  on    \* the switch

TypeOK == n \in Nat /\ on \in BOOLEAN

Init == n = 0 /\ on = FALSE

Grab == n' = n + 1 /\ on' = TRUE

\* Only a hold that exists can be released.
Release == n > 0 /\ n' = n - 1 /\ on' = (n' > 0)

\* A forced release drops every hold at once.
Clear == n' = 0 /\ on' = FALSE

Next == Grab \/ Release \/ Clear

Spec == Init /\ [][Next]_<<n, on>>
=============================================================================
