-------------------------- MODULE CommandDelivery --------------------------
(***************************************************************************)
(* The command engine and the spa it commands.  Pump commands are toggles  *)
(* without acknowledgement: the line to the controller applies each within *)
(* LineDelay or loses it, also after the connection that carried it is     *)
(* gone.  Statuses report the pump as it is.  The physical pump is that of *)
(* tools/simulator/server.py.                                              *)
(***************************************************************************)
EXTENDS CommandEngine

CONSTANT LineDelay  \* a command takes effect at most this long after it was sent

(* phase3_design.md: the settling interval outlasts a delayed command.     *)
ASSUME LineAssumption == LineDelay \in Nat /\ LineDelay < ResyncSettle

(* The one control is the pump of three speeds that is modelled below.     *)
ASSUME PumpAssumption == Controls = {"pump1"} /\ Capabilities.pumps[1] = 2

VARIABLES
    forcedLow,  \* the controller keeps pump 1 circulating: off becomes low
    pump,       \* raw speed of pump 1: 0 off, 1 low, 2 high
    line        \* transactions whose command is still under way

deliveryVars == <<now, snapshot, engine, forcedLow, pump, line>>

Speed == <<"off", "low", "high">>[pump + 1]
Reported == [NoState.status EXCEPT !.pumps[1] = pump]

Toggled(raw) ==
    LET next == (raw + 1) % 3
    IN  IF forcedLow /\ next = 0 THEN 1 ELSE next

(* A circulating pump may already run its jets when the engine starts.     *)
DeliveryInit ==
    /\ Init
    /\ forcedLow \in BOOLEAN
    /\ pump \in (IF forcedLow THEN {1, 2} ELSE {0}) /\ line = {}

-----------------------------------------------------------------------------
(* The spa and its line.                                                   *)

(* _delayed_pump is deliberately independent of the socket's lifetime.     *)
Apply(i) == line' = line \ {i} /\ pump' = Toggled(pump) /\ UNCHANGED <<vars, forcedLow>>

(* drop_pump_commands: lost on the way, while statuses keep flowing.       *)
Drop(i) == line' = line \ {i} /\ UNCHANGED <<vars, forcedLow, pump>>

Wait ==
    /\ \A i \in line : now < engine.history[i].sentAt + LineDelay
    /\ Elapse
    /\ UNCHANGED <<forcedLow, pump, line>>

Command ==
    /\ Transmit(now)
    /\ line' = line \cup {Len(engine'.history)}
    /\ UNCHANGED <<forcedLow, pump>>

Report(available) == ReceiveStatus(Reported, available) /\ UNCHANGED <<forcedLow, pump, line>>

(* Everything the engine does without the spa.                             *)
Internal ==
    /\ \/ \E goal \in Goals, offset \in Deadlines, defer \in Defers, replace \in BOOLEAN :
             Request(goal[1], goal[2], offset, defer, replace)
       \/ Tick
       \/ \E c \in Controls : Cancel(c)
       \/ \E available \in Availability : ReceiveNothing(available)
       \/ LoseConfiguration
       \/ Reconnect
       \/ Prepare
    /\ UNCHANGED <<forcedLow, pump, line>>

DeliveryNext ==
    \/ Wait
    \/ Command
    \/ \E available \in Availability : Report(available)
    \/ Internal
    \/ \E i \in line : Apply(i) \/ Drop(i)

DeliverySpec == DeliveryInit /\ [][DeliveryNext]_deliveryVars

-----------------------------------------------------------------------------
(* PlanStillHolds: a command under way finds the pump as its plan assumed, *)
(* so no toggle is ever applied to a speed it was not meant for, whatever  *)
(* was lost, delayed or replaced (the settling interval of                 *)
(* phase3_design.md is sufficient for delays shorter than it).             *)
PlanStillHolds == \A i \in line : engine.history[i].starting = Speed

(* SuccessIsReal: when a pump goal is reported as verified, the pump runs  *)
(* at the desired speed and no command is left that could still change it. *)
SuccessIsReal ==
    [][\A id \in 1..engine.counter :
         /\ engine.intents[id].stage # "VERIFIED"
         /\ engine'.intents[id].stage = "VERIFIED"
         => line = {} /\ engine.intents[id].desired = Speed]_deliveryVars

(* JetsStayStopped: once an off goal has stopped the jets, it never turns  *)
(* them on again, although the controller kept the pump at low speed       *)
(* (engine.py: never "cycle LOW -> HIGH again").                           *)
JetsStayStopped ==
    \A i, j \in DOMAIN engine.history :
        /\ i < j /\ engine.history[i].intent = engine.history[j].intent
        /\ engine.history[i].desired = "off" /\ engine.history[i].starting = "high"
        => Ambiguous(engine.history[i])
=============================================================================
