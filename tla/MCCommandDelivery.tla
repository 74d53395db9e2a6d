------------------------- MODULE MCCommandDelivery -------------------------
(* Small instances of CommandDelivery: one pump, its goals, one status.    *)
EXTENDS CommandDelivery

MCCapabilities ==
    [ pumps |-> <<2, 0, 0, 0, 0, 0>>, light1 |-> FALSE, light2 |-> FALSE, blower |-> 0,
      mister |-> FALSE, aux1 |-> FALSE, aux2 |-> FALSE, circulation |-> "none" ]
MCSetupLimits == [ low |-> <<50, 52>>, high |-> <<80, 82>> ]

MCStatuses ==
    {[ mode |-> "normal", notice |-> "clear", alarmed |-> FALSE, locked |-> FALSE,
       pumps |-> <<0, 0, 0, 0, 0, 0>>, lights |-> <<0, 0>>, blower |-> 0, mister |-> FALSE,
       aux |-> <<FALSE, FALSE>>, heatMode |-> "ready", highRange |-> TRUE, target |-> 80,
       unit |-> "fahrenheit", minute |-> None, clock24h |-> TRUE,
       heating |-> FALSE, filtering |-> FALSE, belowTarget |-> FALSE ]}

OffHighGoals == {<<"pump1", "off">>, <<"pump1", "high">>}
=============================================================================
