-------------------------- MODULE MCCommandEngine --------------------------
(* Small instances of CommandEngine: what the spa can report in each run.  *)
EXTENDS CommandEngine

MCCapabilities ==
    [ pumps |-> <<2, 0, 0, 0, 0, 0>>, light1 |-> TRUE, light2 |-> FALSE, blower |-> 0,
      mister |-> FALSE, aux1 |-> FALSE, aux2 |-> FALSE, circulation |-> "none" ]
MCSetupLimits == [ low |-> <<50, 52>>, high |-> <<80, 82>> ]

Quiet ==
    [ mode |-> "normal", notice |-> "clear", alarmed |-> FALSE, locked |-> FALSE,
      pumps |-> <<0, 0, 0, 0, 0, 0>>, lights |-> <<0, 0>>, blower |-> 0, mister |-> FALSE,
      aux |-> <<FALSE, FALSE>>, heatMode |-> "ready", highRange |-> TRUE, target |-> 80,
      unit |-> "fahrenheit", minute |-> None, clock24h |-> TRUE,
      heating |-> FALSE, filtering |-> FALSE, belowTarget |-> FALSE ]

PumpAt(raw) == [Quiet EXCEPT !.pumps[1] = raw]
PumpStatuses == {PumpAt(0), PumpAt(1), PumpAt(2)}
HighGoal == {<<"pump1", "high">>}
OffHighStatuses == {PumpAt(0), PumpAt(2)}
PumpGoals == {<<"pump1", "off">>, <<"pump1", "high">>}

Showing(notice) == [Quiet EXCEPT !.notice = notice]
PairStatuses == {Showing("clean_filter"), [Showing("clear") EXCEPT !.lights[1] = 3]}
PairGoals == {<<"ack_reminder", TRUE>>, <<"light1", TRUE>>}
=============================================================================
