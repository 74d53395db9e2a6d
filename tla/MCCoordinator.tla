--------------------------- MODULE MCCoordinator ---------------------------
(* A small instance of Coordinator.                                        *)
EXTENDS Coordinator

Nothing == [ commands |-> 0, cancels |-> 0, options |-> 0, ratings |-> 0, faults |-> 0,
             closes |-> 0, statuses |-> 0, ticks |-> 0, lessons |-> 0, restarts |-> 0,
             rating |-> 0 ]

(* Callers that share, replace and drop goals; overlapping closes with     *)
(* both records to save; the estimate over gaps, changes and crashes.      *)
Calling == [Nothing EXCEPT !.commands = 3, !.cancels = 2, !.options = 1, !.statuses = 1,
                           !.closes = 1]
Closing == [Nothing EXCEPT !.faults = 1, !.closes = 2, !.statuses = 1, !.lessons = 2, !.rating = 1]
Crashing == [Nothing EXCEPT !.faults = 1, !.statuses = 3, !.ticks = 2, !.restarts = 1,
                            !.rating = 1]
Repricing == [Nothing EXCEPT !.faults = 1, !.statuses = 2, !.ticks = 3, !.ratings = 1,
                             !.rating = 1]

Goals == {<<"pump1", 0>>, <<"pump1", 1>>, <<"light1", TRUE>>}

EveryPlan == {Calling, Closing, Crashing, Repricing}
=============================================================================
