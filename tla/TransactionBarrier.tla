------------------------- MODULE TransactionBarrier -------------------------
(***************************************************************************)
(* What phase3_design.md promises of physical actions, without goals,      *)
(* clocks or observations: one action is outstanding at a time, an action  *)
(* either gets its confirmation or leaves its outcome in doubt, nothing is *)
(* sent while in doubt, and after a doubt only in a later epoch.           *)
(***************************************************************************)
EXTENDS Naturals

VARIABLES
    phase,  \* "idle", "outstanding" or "doubtful"
    floor   \* the earliest epoch in which the next action may be sent

vars == <<phase, floor>>

Init == phase = "idle" /\ floor = 0

Send ==
    /\ phase = "idle" /\ phase' = "outstanding"
    /\ floor' \in Nat /\ floor' >= floor

Confirm == phase = "outstanding" /\ phase' = "idle" /\ floor' = floor

Abandon == phase = "outstanding" /\ phase' = "doubtful" /\ floor' = floor + 1

Trust == phase = "doubtful" /\ phase' = "idle" /\ floor' = floor

Next == Send \/ Confirm \/ Abandon \/ Trust

Spec == Init /\ [][Next]_vars
=============================================================================
