------------------------------ MODULE SpaModel ------------------------------
(***************************************************************************)
(* What the software knows of the spa: src/balboa_rs485/state/model.py     *)
(* (SpaState) and the one-step planner of command/planning.py.  Everything *)
(* here is a pure function of one observation.                             *)
(*                                                                         *)
(* An observation is a record                                              *)
(*   [epoch, sequence, at, available, setup, filters, filtersAt, status]   *)
(* whose status abstracts the 24-byte status payload to the fields that    *)
(* admission, planning and verification read.                              *)
(***************************************************************************)
EXTENDS Naturals, Sequences, Functions

CONSTANTS
    None,          \* Python's None: an unknown value
    Capabilities,  \* the capabilities message: pumps, lights, blower, ...
    SetupLimits,   \* the setup message: temperature limits in Fahrenheit
    FilterMaxAge   \* age of the filter record a write may rest on (3 s)

ASSUME NoneIsNoValue ==
    None \notin BOOLEAN /\ None \notin Nat /\ None \notin {"off", "low", "high", "on", "ready", "rest"}

ASSUME CapabilitiesDecoded == Capabilities.blower \in Nat

PumpName == [i \in 1..6 |-> <<"pump1", "pump2", "pump3",
                              "pump4", "pump5", "pump6">>[i]]
Pumps == {PumpName[i] : i \in 1..6}
PumpIndex(c) == CHOOSE i \in 1..6 : PumpName[i] = c

Control == Pumps \cup
    { "target", "light1", "light2", "blower", "mister", "aux1", "aux2",
      "heat_mode", "high_range", "filters", "clock_time", "clock_format",
      "temperature_unit", "hold", "normal_operation", "soak", "ack_reminder" }

(***************************************************************************)
(* A notice is what payload bytes 1 and 6 say together: nothing, a known   *)
(* maintenance reminder (named by its code), code zero, another code of the*)
(* maintenance range, one of the fault range, or any other notification.   *)
(* "alarmed" is payload byte 18: flags that may announce a fault.          *)
(***************************************************************************)
RoutineReminders == {"change_filter", "clean_filter", "check_sanitizer", "check_ph"}
Notices == RoutineReminders \cup {"clear", "zero", "unrecognized", "fault", "priming"}

Modes == {"normal", "hold", "other"}          \* payload[0] = 0, 5, anything else

(* The fields of a decoded status: two bits for each pump, light and the   *)
(* blower; a temperature or time outside its range is unknown.             *)
StatusOK(st) ==
    st \in [ mode : Modes, notice : Notices, alarmed : BOOLEAN, locked : BOOLEAN,
             pumps : [1..6 -> 0..3], lights : [1..2 -> 0..3], blower : 0..3, mister : BOOLEAN,
             aux : [1..2 -> BOOLEAN], heatMode : {"ready", "rest", "ready_in_rest", "unknown"},
             highRange : BOOLEAN, target : Nat \cup {None}, unit : {"celsius", "fahrenheit"},
             minute : 0..1439 \cup {None}, clock24h : BOOLEAN,
             heating : BOOLEAN, filtering : BOOLEAN, belowTarget : BOOLEAN ]

RoutineReminder(st) == st.notice \in RoutineReminders /\ ~st.alarmed
Ignored(st) == st.notice \in {"zero", "unrecognized"} /\ ~st.alarmed
NormalOrReminder(st) == st.notice = "clear" \/ RoutineReminder(st) \/ Ignored(st)
ReminderIsNone(st) == st.notice \in {"clear", "zero", "priming"} \/ Ignored(st)
ReminderIsUnknown(st) == ~ReminderIsNone(st) /\ st.notice \notin RoutineReminders

-----------------------------------------------------------------------------
(* Admission.  Unknown modes, priming, faults and locks inhibit controls.  *)

ControlsSafe(s) ==
    /\ s.available
    /\ s.status.mode = "normal"
    /\ NormalOrReminder(s.status)
    /\ ~s.status.locked

SafeFor(s, c) ==
    \/ ControlsSafe(s)
    \/ /\ c = "ack_reminder"
       /\ s.available
       /\ s.status.mode = "normal"
       /\ RoutineReminder(s.status)
       /\ ~s.status.locked
    \/ /\ c \in {"hold", "normal_operation"}
       /\ s.available
       /\ s.status.mode = "hold"
       /\ NormalOrReminder(s.status)
       /\ ~s.status.locked

-----------------------------------------------------------------------------
(* The options of a control, in the order a toggle walks through them.     *)

Switch == <<FALSE, TRUE>>
When(condition, options) == IF condition THEN options ELSE <<>>

PumpOptions(count) ==
    CASE count = 1 -> <<"off", "on">>
      [] count = 2 -> <<"off", "low", "high">>
      [] OTHER -> <<>>

(* Degrees as the wire carries them: whole Fahrenheit, half Celsius.       *)
CeilDiv(a, b) == (a + b - 1) \div b
TargetBounds(st) ==
    LET limits == IF st.highRange THEN SetupLimits.high ELSE SetupLimits.low
        low == IF limits[1] < 50 THEN 50 ELSE limits[1]
        high == IF limits[2] > 104 THEN 104 ELSE limits[2]
    IN  IF st.unit = "celsius"
        THEN <<CeilDiv(10 * (low - 32), 9), (10 * (high - 32)) \div 9>>
        ELSE <<low, high>>
TargetOptions(st) ==
    LET bounds == TargetBounds(st)
        count == IF bounds[1] > bounds[2] THEN 0 ELSE 1 + bounds[2] - bounds[1]
    IN  [i \in 1..count |-> bounds[1] + i - 1]

Options(s, c) ==
    LET st == s.status
    IN  CASE c = "ack_reminder" -> When(~ReminderIsUnknown(st), <<TRUE>>)
          [] c = "hold" -> When(st.mode # "other", Switch)
          [] c = "normal_operation" -> When(st.mode # "other", <<TRUE>>)
          [] c = "soak" -> When(/\ \E i \in 1..6 : Capabilities.pumps[i] # 0
                                /\ \A i \in 1..6 : Capabilities.pumps[i] \in 0..2,
                                <<TRUE>>)
          [] c = "clock_time" -> When(st.minute # None, <<st.minute>>)
          [] c = "clock_format" -> When(st.minute # None, Switch)
          [] c = "temperature_unit" -> <<"celsius", "fahrenheit">>
          [] c = "filters" -> When(s.filters # None, <<s.filters>>)
          [] c = "target" -> IF s.setup THEN TargetOptions(st) ELSE <<>>
          [] c = "heat_mode" -> <<"ready", "rest">>
          [] c = "high_range" -> Switch
          [] c = "light1" -> When(Capabilities.light1, Switch)
          [] c = "light2" -> When(Capabilities.light2, Switch)
          [] c = "blower" -> When(Capabilities.blower > 0,
                                  [i \in 1..(Capabilities.blower + 1) |-> i - 1])
          [] c = "aux1" -> When(Capabilities.aux1, Switch)
          [] c = "aux2" -> When(Capabilities.aux2, Switch)
          [] c = "mister" -> When(Capabilities.mister, Switch)
          [] c \in Pumps -> PumpOptions(Capabilities.pumps[PumpIndex(c)])

-----------------------------------------------------------------------------
(* The observed value of a control; None when the raw bits are ambiguous.  *)

PumpValue(s, c) ==
    LET options == PumpOptions(Capabilities.pumps[PumpIndex(c)])
        raw == s.status.pumps[PumpIndex(c)]
    IN  CASE options = <<>> -> None
          [] Len(options) = 2 /\ raw \in {1, 2} -> "on"
          [] raw < Len(options) -> options[raw + 1]
          [] OTHER -> None

LightValue(raw) == CASE raw = 0 -> FALSE [] raw \in {2, 3} -> TRUE [] OTHER -> None

AllPumpsOff(s) ==
    LET fitted == {PumpName[i] : i \in {j \in 1..6 : Capabilities.pumps[j] # 0}}
        values == {PumpValue(s, p) : p \in fitted}
    IN  IF None \in values THEN None ELSE values \subseteq {"off"}

(* Controls without a value unless the spa offers them.                    *)
Optional == { "ack_reminder", "soak", "light1", "light2", "blower",
              "mister", "aux1", "aux2" }

Value(s, c) ==
    LET st == s.status
    IN  IF c \in Optional /\ Options(s, c) = <<>> THEN None ELSE
        CASE c = "ack_reminder" -> ReminderIsNone(st)
          [] c = "soak" -> AllPumpsOff(s)
          [] c = "light1" -> LightValue(st.lights[1])
          [] c = "light2" -> LightValue(st.lights[2])
          [] c = "blower" -> IF st.blower <= Capabilities.blower THEN st.blower ELSE None
          [] c = "mister" -> st.mister
          [] c = "aux1" -> st.aux[1]
          [] c = "aux2" -> st.aux[2]
          [] c = "hold" -> IF st.mode = "other" THEN None ELSE st.mode = "hold"
          [] c = "normal_operation" -> IF st.mode = "other" THEN None ELSE st.mode = "normal"
          [] c = "clock_time" -> st.minute
          [] c = "clock_format" -> st.clock24h
          [] c = "temperature_unit" -> st.unit
          [] c = "filters" -> s.filters
          [] c = "target" -> st.target
          [] c = "heat_mode" -> IF st.heatMode = "unknown" THEN None ELSE st.heatMode
          [] c = "high_range" -> st.highRange
          [] c \in Pumps -> PumpValue(s, c)

-----------------------------------------------------------------------------
(* Pump 1 as the circulation pump of a spa without a dedicated one.        *)

Pump1IsCirculation ==
    /\ Capabilities.circulation = "none"
    /\ PumpOptions(Capabilities.pumps[1]) = <<"off", "low", "high">>

Pump1CirculationRequired(s) ==
    /\ Pump1IsCirculation
    /\ PumpValue(s, "pump1") \in {"low", "high"}
    /\ \/ \E i \in 2..6 : PumpValue(s, PumpName[i]) \in {"on", "low", "high"}
       \/ Capabilities.blower > 0 /\ s.status.blower \in 1..Capabilities.blower
       \/ s.status.heating
       \/ s.status.heatMode = "ready_in_rest" /\ s.status.belowTarget
       \/ s.status.filtering

(* SpaState.validate raises unless the desired value may be pursued now.   *)
Valid(s, c, desired) ==
    /\ SafeFor(s, c)
    /\ CASE c = "clock_time" -> desired \in 0..1439 /\ s.status.minute # None
         [] c = "filters" -> /\ s.filters # None
                             /\ s.filtersAt # 0
                             /\ s.at <= s.filtersAt + FilterMaxAge
         [] OTHER -> /\ desired \in Range(Options(s, c))
                     /\ Value(s, c) # None
                     /\ ~(c = "pump1" /\ desired = "off" /\ Pump1CirculationRequired(s))

(* Absolute commands carry the goal itself; every other control only has a *)
(* toggle, so one action can only be expected to reach the next option.    *)
Absolute == { "normal_operation", "soak", "ack_reminder", "temperature_unit",
              "clock_format", "clock_time", "filters", "target" }

Expected(s, c, desired) ==
    LET options == Options(s, c)
        value == Value(s, c)
        index == CHOOSE i \in 1..Len(options) : options[i] = value
    IN  CASE c \in Absolute -> desired
          [] c = "heat_mode" /\ value = "ready_in_rest" -> "rest"
          [] OTHER -> options[(index % Len(options)) + 1]
=============================================================================
