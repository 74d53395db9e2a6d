---------------------------- MODULE SimulatedSpa ----------------------------
(***************************************************************************)
(* The spa the integration is tried against, tools/simulator/server.py     *)
(* with its control and channel laboratories, and clients that plan their  *)
(* commands from the last status they were sent (modules Wire, SpaModel).  *)
(*                                                                         *)
(* All connections share one physical spa.  Each is served in cycles: a    *)
(* status, a clear-to-send, then whatever the client sends until the next  *)
(* cycle; a clear-to-send is good for one command or query.  Pump commands *)
(* may be dropped, or applied later and independently of the socket.       *)
(***************************************************************************)
EXTENDS Wire, FiniteSetsExt

CONSTANTS
    Worlds,          \* how the simulator is set up, how many clients come, and a
                     \* bound on their commands (see SimInit)
    LateCycle,       \* the cycle after which a scenario changes (4)
    Wishes(_, _),    \* goals clients may have, of a state and a control
    Rating(_)        \* the watts of a load, 0 where no rating was given

VARIABLES
    world,
    spa,             \* the shared physical state
    dropping,        \* drop_pump_commands
    delayed,         \* _delayed_commands: how many per pump
    commands,        \* physical_commands
    muted,           \* _drop_status_connection
    links,           \* the connections: phase, cycle, granted
    seen,            \* what each client knows: its last status and filter record
    told,            \* the last command: whose, for which control, to what end
    closing

simVars == <<world, spa, dropping, delayed, commands, muted, links, seen, told, closing>>

Scenario == world.scenario
Lab == world.lab

-----------------------------------------------------------------------------
(* The frames the spa sends.                                               *)

Initially(reminders, heatMode) ==
    [ pumps |-> <<0, 0, 0, 0, 0, 0>>, targets |-> [x \in BOOLEAN |-> IF x THEN 76 ELSE 54],
      lights |-> <<FALSE, FALSE>>, aux |-> <<FALSE, FALSE>>, mister |-> FALSE, blower |-> 0,
      heatMode |-> heatMode, highRange |-> TRUE, filters |-> <<8, 0, 2, 0, 148, 0, 2, 0>>,
      fahrenheit |-> FALSE, minutes |-> 720, clock24h |-> FALSE, hold |-> FALSE,
      reminders |-> reminders ]      \* reminder_code and reminder_queue

StatusPayload(p) ==
    LET reminded == p.reminders # <<>>
    IN  << Flag(p.hold, 5), Flag(reminded, 3), IF p.fahrenheit THEN 81 ELSE 54,
           p.minutes \div 60, p.minutes % 60, p.heatMode,
           IF reminded THEN Head(p.reminders) ELSE 0, 0, 0,
           Flag(~p.fahrenheit, 1) + Flag(p.clock24h, 2),
           16 + Flag(p.highRange, 4),
           p.pumps[1] + 4 * p.pumps[2] + 16 * p.pumps[3] + 64 * p.pumps[4],
           p.pumps[5] + 4 * p.pumps[6],
           2 + 4 * p.blower,
           Flag(p.lights[1], 3) + Flag(p.lights[2], 12),
           Flag(p.mister, 1) + Flag(p.aux[1], 8) + Flag(p.aux[2], 16),
           0, 0, Flag(reminded, 1), 0, p.targets[p.highRange], 0, 0, 0 >>
StatusFrame(p) == Frame(255, 175, 19, StatusPayload(p))

Address(k) == IF Lab THEN 17 + k ELSE ClientAddress
ReadyOf(k) == IF Lab THEN 17 + k ELSE ReadyAddress
ReadyFrame(k) == Frame(ReadyOf(k), Spa, 6, <<>>)

Information(changed) ==
    <<100, 220, 1, 2>> \o <<66, 80, 32, 83, 73, 77, IF changed THEN 50 ELSE 32, 32>>
    \o <<1, 18, 52, 86, 120, 1, 10, 0, 1>>
CapabilityPayload ==
    [ x \in {w.scenario : w \in Worlds} |->
        << IF x = "single-speed-pump" THEN 9 ELSE 10, 0, IF x = "accessories" THEN 69 ELSE 1, 130,
           Flag(x = "accessories", 19), 0 >> ]
SetupPayload == <<0, 0, 50, 99, 80, 104, 0, 2, 0>>

(* configuration_fixture and what the loop replaces in it.                 *)
Response(k, query) ==
    CASE query = "information" ->
            Frame(Address(k), Spa, 36,
                  Information(Scenario = "configuration-change" /\ links[k].cycle > LateCycle))
      [] query = "setup" -> Frame(Address(k), Spa, 37, SetupPayload)
      [] query = "filters" -> Frame(Address(k), Spa, 35, spa.filters)
      [] query = "fault" -> Frame(Address(k), Spa, 40, [i \in 1..10 |-> 0])
      [] query = "capabilities" -> Frame(Address(k), Spa, 46, CapabilityPayload[Scenario])

Answers(query) ==
    /\ Scenario # "missing-configuration"
    /\ ~(Scenario = "missing-metadata" /\ query \in {"setup", "filters", "fault"})

-----------------------------------------------------------------------------
(* What a command does to the spa; None where the simulator knows none.    *)

RoundHalfEven(n, d) ==
    LET q == n \div d
        twice == 2 * (n % d)
    IN  IF twice > d \/ (twice = d /\ q % 2 = 1) THEN q + 1 ELSE q

Converted(p, fahrenheit) ==
    IF fahrenheit = p.fahrenheit THEN p
    ELSE [p EXCEPT !.fahrenheit = fahrenheit,
                   !.targets = [x \in BOOLEAN |->
                        IF fahrenheit THEN RoundHalfEven(9 * @[x] + 320, 10)
                        ELSE RoundHalfEven(10 * (@[x] - 32), 9)]]

Stepped(p, i) ==
    [p EXCEPT !.pumps[i] =
        IF Scenario = "single-speed-pump" /\ i = 1 THEN (IF @ = 0 THEN 2 ELSE 0) ELSE (@ + 1) % 3]

Toggled(p, item) ==
    CASE item = 17 -> [p EXCEPT !.lights[1] = ~@]
      [] item = 12 -> [p EXCEPT !.blower = (@ + 1) % 3]
      [] item = 60 -> [p EXCEPT !.hold = ~@]
      [] item = 3 -> [p EXCEPT !.reminders = IF @ = <<>> THEN @ ELSE Tail(@)]
      [] item = 1 -> [p EXCEPT !.hold = FALSE]
      [] item = 29 -> [p EXCEPT !.pumps = <<0, 0, 0, 0, 0, 0>>]
      [] item = 80 -> [p EXCEPT !.highRange = ~@]
      [] item = 81 -> [p EXCEPT !.heatMode = IF @ \in {0, 2} THEN 1 ELSE 0]
      [] item = 18 /\ Scenario = "accessories" -> [p EXCEPT !.lights[2] = ~@]
      [] item = 14 /\ Scenario = "accessories" -> [p EXCEPT !.mister = ~@]
      [] item \in {22, 23} /\ Scenario = "accessories" -> [p EXCEPT !.aux[item - 21] = ~@]
      [] OTHER -> None

Effect(p, frame) ==
    LET data == frame.payload
    IN  CASE frame.type = 32 /\ data[1] \in Envelope(IF p.fahrenheit THEN "fahrenheit" ELSE "celsius") ->
                [p EXCEPT !.targets[p.highRange] = data[1]]
          [] frame.type = 33 -> [p EXCEPT !.clock24h = data[1] >= 128,
                                          !.minutes = 60 * (data[1] % 128) + data[2]]
          [] frame.type = 39 /\ data[1] = 1 -> Converted(p, data[2] = 0)
          [] frame.type = 39 /\ data[1] = 2 -> [p EXCEPT !.clock24h = data[2] = 1]
          [] frame.type = 35 -> [p EXCEPT !.filters = data]
          [] frame.type = 17 -> Toggled(p, data[1])
          [] OTHER -> None

PumpOf(frame) == IF frame.type = 17 /\ frame.payload[1] \in {4, 5} THEN frame.payload[1] - 3 ELSE 0

-----------------------------------------------------------------------------
(* Scenarios without a proper clear-to-send.                               *)
Mistaken == {"missing-ready", "unknown-protocol", "channel-protocol"}

(* The clients.                                                            *)

Client(capabilities) ==
    INSTANCE SpaModel WITH Capabilities <- capabilities, SetupLimits <- LimitsOf(SetupPayload),
                           FilterMaxAge <- 1
FittedIn == [x \in DOMAIN CapabilityPayload |-> CapabilitiesOf(CapabilityPayload[x])]
Fitted == FittedIn[Scenario]

State(status, filters) ==
    [available |-> TRUE, setup |-> TRUE, at |-> 1, filtersAt |-> 1, status |-> status,
     filters |-> filters]
Known(k) == State(seen[k].status, seen[k].filters)
Truth(p) == State(StatusOf(StatusPayload(p)), ScheduleOf(p.filters))

-----------------------------------------------------------------------------
(* The nameplate power of what a state shows to run (energy.py): None if a *)
(* load is unknown or has no rating.  A load is <<actuator, level>>.       *)
CirculationPresent(setting) ==
    CASE setting # "auto" -> setting = "present"
      [] Fitted.circulation = "unknown" -> None
      [] OTHER -> Fitted.circulation = "fitted"

Only(condition, load) == IF condition THEN {load} ELSE {}
Lamps == <<"light1", "light2">>
Accessories == {"blower", "mister", "aux1", "aux2"} \cup {Lamps[1], Lamps[2]}

Estimate(s, setting) ==
    LET value == [c \in Client(Fitted)!Pumps \cup Accessories |-> Client(Fitted)!Value(s, c)]
        pumps == {Client(Fitted)!PumpName[i] : i \in {j \in 1..6 : Fitted.pumps[j] # 0}}
        mapped == {c \in Accessories : Client(Fitted)!Options(s, c) # <<>>}
        circulation == CirculationPresent(setting)
        loads ==
            {<<p, IF value[p] = "low" THEN "low" ELSE "high">> :
                p \in {q \in pumps : value[q] # "off"}}
            \cup {<<c, "on">> :
                c \in {x \in mapped : value[x] # IF x = "blower" THEN 0 ELSE FALSE}}
            \cup Only(s.status.heating, <<"heater", "on">>)
            \cup Only(circulation = TRUE /\ s.status.circulating, <<"circulation", "on">>)
    IN  IF \/ ~s.status.heatKnown \/ circulation = None
           \/ \E c \in pumps \cup mapped : value[c] = None
           \/ \E i \in 1..2 : Lamps[i] \notin mapped /\ s.status.lights[i] # 0
           \/ \E load \in loads : Rating(load) = 0
        THEN None
        ELSE Rating(<<"electronics", "on">>) + MapThenSumSet(Rating, loads)

-----------------------------------------------------------------------------
SimInit ==
    /\ world \in Worlds
    /\ spa = Initially(world.reminders, world.heatMode)
    /\ dropping = world.dropping /\ delayed = <<0, 0>>
    /\ commands = 0 /\ muted = 0 /\ links = <<>> /\ told = None /\ closing = FALSE
    /\ seen = [k \in 1..world.clients |-> [status |-> None, filters |-> None]]

Serving(k) == k \in DOMAIN links /\ links[k].phase = "serving"
Granted(k) == Serving(k) /\ links[k].granted
Enter(k, phase) == links' = [links EXCEPT ![k].phase = phase, ![k].granted = FALSE]
worldVars == <<world, dropping>>
bodyVars == <<spa, delayed, commands, muted, told, closing>>

(* _accept; a closing server hangs up at once.                             *)
Accept ==
    /\ ~closing /\ Len(links) < world.clients
    /\ links' = Append(links, [phase |-> IF Lab THEN "offering" ELSE "serving", cycle |-> 0,
                               granted |-> FALSE])
    /\ UNCHANGED <<worldVars, bodyVars, seen>>

(* _assign_channel: the offers come with the status of the fixture,        *)
(* whatever the spa does; an address that is not acknowledged in time ends *)
(* the connection.                                                         *)
Offer(k) ==
    /\ k \in DOMAIN links /\ links[k].phase = "offering"
    /\ seen' = [seen EXCEPT ![k].status = StatusOf(StatusPayload(Initially(<<>>, 0)))]
    /\ UNCHANGED <<worldVars, bodyVars, links>>

Request(k) ==
    /\ k \in DOMAIN links /\ links[k].phase = "offering"
    /\ Enter(k, "offered")
    /\ UNCHANGED <<worldVars, bodyVars, seen>>

Acknowledge(k) ==
    /\ k \in DOMAIN links /\ links[k].phase = "offered"
    /\ Enter(k, "serving")
    /\ UNCHANGED <<worldVars, bodyVars, seen>>

(* A cycle of _serve_bus: the scenario ends it, or it sends a status (the  *)
(* muted connection misses it) and a clear-to-send.                        *)
Ends(k, cycle) ==
    k = 1 /\ cycle > LateCycle /\ Scenario \in {"connection-reset", "elfin-reboot",
                                               "silent-zombie-socket"}
Cycles(k) ==
    LET cycle == IF links[k].cycle > LateCycle THEN links[k].cycle ELSE links[k].cycle + 1
    IN  /\ Serving(k)
        /\ IF Ends(k, cycle)
           THEN Enter(k, IF Scenario = "silent-zombie-socket" THEN "silent" ELSE "closed")
                /\ UNCHANGED seen
           ELSE /\ links' = [links EXCEPT ![k].cycle = cycle,
                                          ![k].granted = Scenario \notin Mistaken]
                /\ seen' = IF k = muted \/ Scenario = "unknown-protocol" THEN seen
                           ELSE [seen EXCEPT ![k].status = StatusOf(StatusPayload(spa))]
        /\ UNCHANGED <<worldVars, bodyVars>>

(* A pump command; the others take effect at once.                         *)
Pumped(i) ==
    IF dropping > 0 THEN /\ dropping' = dropping - 1
                         /\ UNCHANGED <<spa, delayed>>
    ELSE IF world.delaying THEN /\ delayed' = [delayed EXCEPT ![i] = @ + 1]
                          /\ UNCHANGED <<spa, dropping>>
    ELSE /\ spa' = Stepped(spa, i)
         /\ UNCHANGED <<dropping, delayed>>

Told(k, c, desired) ==
    [ by |-> k, control |-> c, expected |-> Client(Fitted)!Expected(Known(k), c, desired),
      fresh |-> seen[k].status = Truth(spa).status,
      now |-> c \notin {"pump1", "pump2"} \/ (dropping = 0 /\ ~world.delaying) ]

Send(k, c, desired) ==
    LET frame == Command(Known(k), c, desired)
        pump == PumpOf(frame)
    IN  /\ Granted(k) /\ seen[k].status # None /\ commands < world.commands
        /\ Client(Fitted)!Valid(Known(k), c, desired)
        /\ IF pump # 0 THEN Pumped(pump)
           ELSE /\ Effect(spa, frame) # None /\ spa' = Effect(spa, frame)
                /\ UNCHANGED <<dropping, delayed>>
        /\ commands' = commands + 1
        /\ told' = Told(k, c, desired)
        /\ Enter(k, IF Scenario = "reset-after-command" /\ commands = 0 THEN "closed"
                    ELSE "serving")
        /\ muted' = IF Scenario = "lost-status-after-command" /\ commands = 0 THEN k ELSE muted
        /\ UNCHANGED <<world, seen, closing>>

(* A query is answered at once, or takes its slot without an answer.       *)
Ask(k, query) ==
    /\ Granted(k) /\ Enter(k, "serving")
    /\ seen' = IF query = "filters" /\ Answers(query)
               THEN [seen EXCEPT ![k].filters =
                        DecodeMessage(Response(k, query), Address(k), ReadyOf(k)).value]
               ELSE seen
    /\ UNCHANGED <<worldVars, bodyVars>>

Idle(k) ==
    /\ Lab /\ Granted(k) /\ Enter(k, "serving")
    /\ UNCHANGED <<worldVars, bodyVars, seen>>

(* _delayed_pump: an accepted command outlives its connection.             *)
Land(i) ==
    /\ delayed[i] > 0
    /\ delayed' = [delayed EXCEPT ![i] = @ - 1]
    /\ spa' = Stepped(spa, i)
    /\ UNCHANGED <<worldVars, commands, muted, links, seen, told, closing>>

Leave(k) ==
    /\ k \in DOMAIN links /\ links[k].phase # "closed"
    /\ Enter(k, "closed")
    /\ UNCHANGED <<worldVars, bodyVars, seen>>

(* __aexit__: every task is cancelled, those of delayed commands too.      *)
Shutdown ==
    /\ ~closing /\ closing' = TRUE
    /\ links' = [k \in DOMAIN links |-> [links[k] EXCEPT !.phase = "closed", !.granted = FALSE]]
    /\ delayed' = <<0, 0>>
    /\ UNCHANGED <<worldVars, spa, commands, muted, seen, told>>

SimNext ==
    \/ Accept \/ Shutdown
    \/ \E k \in DOMAIN links : \/ Offer(k) \/ Request(k) \/ Acknowledge(k) \/ Cycles(k)
                              \/ Idle(k) \/ Leave(k)
                              \/ \E query \in DOMAIN Queries : Ask(k, query)
                              \/ \E c \in world.controls : \E desired \in Wishes(Known(k), c) :
                                    Send(k, c, desired)
    \/ \E i \in 1..2 : Land(i)

SimSpec == SimInit /\ [][SimNext]_simVars

-----------------------------------------------------------------------------
(* What a client makes of the spa as it is.                                *)
Shows(truth, c) == Client(Fitted)!Value(truth, c)

(* The controls that a command for c may move; a clock is set in the format*)
(* the client has seen last.                                               *)
Moved(c, fresh) ==
    CASE c \in {"hold", "normal_operation"} -> {"hold", "normal_operation"}
      [] c \in {"temperature_unit", "high_range"} -> {c, "target"}
      [] c \in Client(Fitted)!Pumps -> {c, "soak"}
      [] c = "soak" -> {c} \cup Client(Fitted)!Pumps
      [] c = "clock_time" /\ ~fresh -> {c, "clock_format"}
      [] OTHER -> {c}

(* CommandsDoWhatIsPlanned: plan, encoder, spa and decoder agree: a command*)
(* planned from a true status leads to the value the plan expects, unless  *)
(* it is dropped or delayed or another reminder waits; and no command, not *)
(* even one planned from an old status, moves an unrelated control.        *)
Fulfils(command, before, after) ==
    /\ command.fresh /\ command.now
          => \/ Shows(after, command.control) = command.expected
             \/ command.control = "ack_reminder" /\ spa'.reminders # <<>>
    /\ \A c \in Client(Fitted)!Control \ Moved(command.control, command.fresh) : Shows(after, c) = Shows(before, c)
CommandsDoWhatIsPlanned ==
    [][commands' > commands =>
        \A before \in {Truth(spa)}, after \in {Truth(spa')} : Fulfils(told', before, after)]_simVars

(* NothingRaises: whatever the spa sends decodes as what it is, and what   *)
(* the client's state admits the encoders accept: an exception of either   *)
(* would end the task of the connection.                                   *)
NothingRaises ==
    /\ DecodeMessage(StatusFrame(spa), ClientAddress, ReadyAddress).kind = "status"
    /\ \A k \in DOMAIN links :
        /\ DecodeMessage(ReadyFrame(k), Address(k), ReadyOf(k)).kind = "ready"
        /\ \A query \in DOMAIN Queries :
                DecodeMessage(Response(k, query), Address(k), ReadyOf(k)).kind = query
        /\ Granted(k) /\ seen[k].status # None =>
            \A c \in world.controls : \A desired \in Wishes(Known(k), c) :
                Client(Fitted)!Valid(Known(k), c, desired) => Encodable(Known(k), c, desired)

(* NobodyElsesAnswer: no client takes another's answer for its own.        *)
NobodyElsesAnswer ==
    Lab => \A j, k \in DOMAIN links : j # k =>
        \A query \in DOMAIN Queries :
            DecodeMessage(Response(j, query), Address(k), ReadyOf(k)).kind = "unknown"

(* MeterIsTrue: the estimate of a true status is the power of what really  *)
(* runs, or is refused; it never leaves out a load it has not been told of.*)
Runs(p) ==
    {<<Client(Fitted)!PumpName[i], IF p.pumps[i] = 1 THEN "low" ELSE "high">> :
        i \in {j \in 1..6 : p.pumps[j] # 0}}
    \cup {<<Lamps[i], "on">> : i \in {j \in 1..2 : p.lights[j]}}
    \cup {<<IF i = 1 THEN "aux1" ELSE "aux2", "on">> : i \in {j \in 1..2 : p.aux[j]}}
    \cup Only(p.mister, <<"mister", "on">>)
    \cup Only(p.blower # 0, <<"blower", "on">>)
    \cup {<<"electronics", "on">>, <<"heater", "on">>, <<"circulation", "on">>}
MeterIsTrue ==
    Estimate(Truth(spa), "auto") =
        IF \E load \in Runs(spa) : Rating(load) = 0 THEN None ELSE MapThenSumSet(Rating, Runs(spa))

SimulatorInv == NothingRaises /\ NobodyElsesAnswer /\ MeterIsTrue
=============================================================================
