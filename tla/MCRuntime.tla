----------------------------- MODULE MCRuntime -----------------------------
(* A small instance of Runtime: filters, and a control that two may want.  *)
EXTENDS Runtime

MCCapabilities ==
    [ pumps |-> <<0, 0, 0, 0, 0, 0>>, light1 |-> TRUE, light2 |-> FALSE, blower |-> 0,
      mister |-> FALSE, aux1 |-> FALSE, aux2 |-> FALSE, circulation |-> "none" ]
MCSetupLimits == [ low |-> <<50, 52>>, high |-> <<80, 82>> ]

LightAt(raw) ==
    [ mode |-> "normal", notice |-> "clear", alarmed |-> FALSE, locked |-> FALSE,
      pumps |-> <<0, 0, 0, 0, 0, 0>>, lights |-> <<raw, 0>>, blower |-> 0, mister |-> FALSE,
      aux |-> <<FALSE, FALSE>>, heatMode |-> "ready", highRange |-> TRUE, target |-> 80,
      unit |-> "fahrenheit", minute |-> None, clock24h |-> TRUE,
      heating |-> FALSE, filtering |-> FALSE, belowTarget |-> FALSE ]

DarkStatuses == {LightAt(0)}
FirstChange == {<<1, "b">>}
SameRecords == {<<"a", "a">>}
LightGoals == {<<"light1", TRUE>>}
(* Exploration starts when the metadata of the first epoch is complete,    *)
(* ends when nothing requested is pursued any more, and looks at a filter  *)
(* change, with one disturbance, and at other requests separately.         *)
ControlOf(id) == engine.intents[id].control
Disturbances ==
    (snapshot.epoch - 1) + (revision - 1) + Cardinality({e \in {FALSE} : ~enabled})
        + Cardinality({t \in {touched} : t > 0})
Relevant ==
    LET ids == DOMAIN engine.intents
        made == \E id \in ids : ControlOf(id) = "filters" \/ id = MaxRequests
        pursued == engine.inflight # 0 \/ (\E id \in ids : Open(engine, id))
    IN  /\ made => pursued
        /\ \A id \in ids : ControlOf(id) # "filters" =>
              call = Idle /\ commands.version < snapshot.epoch + revision
        /\ snapshot.sequence <= snapshot.epoch
        /\ Disturbances <= (IF call = Idle THEN 2 ELSE 1)
        /\ call # Idle => now > 1
        /\ call = Idle => now < MaxTime
        /\ touched > 0 \/ revision > 1 => call # Idle
        /\ ~enabled => call # Idle \/ pursued
        /\ \A i \in DOMAIN line : line[i].query # "filters" => line[i].at = now
        /\ commands.index < 4 /\ commands.next = 1 + MetadataRefreshInterval
              => call = Idle /\ ids = {} /\ now = 1
=============================================================================
