----------------------------- MODULE MCBathing -----------------------------
(* A small instance of BathingSession: either range, a high target below   *)
(* and at the minimum, and each mode.  A transient mode ends at any time,  *)
(* so what is found in it is found at rest, too.                           *)
EXTENDS BathingSession

Setting(high, hi, mode) == [high |-> high, hi |-> hi, lo |-> 1, mode |-> mode, hold |-> FALSE]
EitherRange == {Setting(TRUE, 2, Rest), Setting(FALSE, 2, Ready), Setting(FALSE, 3, Transient)}
=============================================================================
