--------------------------- MODULE EnergyAccount ---------------------------
(***************************************************************************)
(* The estimated energy of the spa: src/balboa_rs485/energy.py             *)
(* (EnergyCounter) and the controller around it,                           *)
(* src/custom_components/balboa_rs485/energy.py.  Everything here is an    *)
(* operator on the attributes of the controller; module Coordinator has    *)
(* the steps that call them.                                               *)
(*                                                                         *)
(* Times are ages: a sample is as old as the status it rests on.  An epoch *)
(* and a status sequence number are only ever compared for equality, so a  *)
(* record of one becomes stale (None, FALSE) when the number changes.      *)
(***************************************************************************)
EXTENDS Integers, FiniteSetsExt

CONSTANTS
    None,
    MaxGap       \* the longest interval that is counted (8 s)

ASSUME MaxGapIsPositive == MaxGap \in Nat \ {0}

Unreached == 2 * MaxGap + 1     \* no age beyond it makes a difference

Totals == [kwh |-> 0, known |-> 0, unknown |-> 0]

(* A controller as it is constructed.                                      *)
NewAccount(enabled) ==
    [ totals |-> Totals, previous |-> None, committed |-> None, record |-> Totals,
      error |-> FALSE, loadFailed |-> FALSE, readyEpoch |-> FALSE,
      lastSample |-> None, configured |-> FALSE, enabled |-> enabled ]

(* EnergyCounter.sample of "watts", "age" units ago.                       *)
Counts(p, seconds, watts) ==
    seconds <= MaxGap /\ p.watts # None /\ watts # None /\ p.same

Sampled(a, age, watts) ==
    LET p == a.previous
        seconds == p.age - age
        total == a.totals
    IN  IF p # None /\ seconds <= 0 THEN a
        ELSE [a EXCEPT
            !.previous = [age |-> age, watts |-> watts, same |-> TRUE],
            !.totals =
                IF p = None THEN total
                ELSE IF Counts(p, seconds, watts)
                     THEN [total EXCEPT !.kwh = total.kwh + p.watts * seconds,
                                        !.known = total.known + seconds]
                     ELSE [total EXCEPT !.unknown = total.unknown + seconds]]

Broken(a) == [a EXCEPT !.previous = None]

(* configure, when the profile, the circulation or the switch changes.     *)
Configured(a, enabled) ==
    [Broken(a) EXCEPT !.enabled = enabled, !.lastSample = None, !.configured = TRUE]

(* async_load: a record, no file at all, or an error that it catches.      *)
Loaded(a, record) ==
    IF record = None THEN a
    ELSE [a EXCEPT !.totals = record, !.committed = record.kwh, !.record = record]
LoadCaught(a) == [a EXCEPT !.loadFailed = TRUE, !.error = TRUE]

(* observe.  A snapshot s is [available, refresh, stale, age], where       *)
(* refresh says that metadata are being read again while slots keep coming.*)
Healthy(a, s) == (s.available \/ (s.refresh /\ a.readyEpoch)) /\ ~s.stale

ReadyNoted(a, s) == IF s.available THEN [a EXCEPT !.readyEpoch = TRUE] ELSE a

SampledOnce(a, s, watts) ==
    LET healthy == Healthy(a, s)
    IN  IF ~a.enabled \/ a.loadFailed \/ a.lastSample = <<healthy>> \/ a.configured THEN a
        ELSE Sampled([a EXCEPT !.lastSample = <<healthy>>],
                     IF healthy THEN s.age ELSE 0, IF healthy THEN watts ELSE None)

Observed(a, s, watts) == SampledOnce(ReadyNoted(a, s), s, watts)

(* A new status is a new key, a new epoch also ends the interval.          *)
StatusCame(a) == [a EXCEPT !.lastSample = None, !.configured = FALSE]
EpochEnded(a) ==
    LET p == a.previous
    IN  [StatusCame(a) EXCEPT !.readyEpoch = FALSE,
            !.previous = IF p = None THEN None ELSE [p EXCEPT !.same = FALSE]]

Aged(a) ==
    LET p == a.previous
    IN  [a EXCEPT !.previous = IF p = None THEN None
                               ELSE [p EXCEPT !.age = Min({p.age + 1, Unreached})]]

(* async_checkpoint: whether there is something to save, and its outcome.  *)
Saves(a) ==
    /\ ~a.loadFailed
    /\ a.enabled \/ a.committed # None \/ a.totals.known > 0 \/ a.totals.unknown > 0
    /\ ~(a.committed # None /\ a.totals = a.record /\ ~a.error)
SaveVerified(a, record) ==
    [a EXCEPT !.error = FALSE, !.committed = record.kwh, !.record = record]
SaveFailed(a) == [a EXCEPT !.error = TRUE]
=============================================================================
