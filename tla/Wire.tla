-------------------------------- MODULE Wire --------------------------------
(***************************************************************************)
(* The octets of the messages: src/balboa_rs485/protocol (messages.py,     *)
(* commands.py, configuration.py, settings.py), the capability bits that   *)
(* state/model.py reads, and the frame plan() chooses for a step.          *)
(*                                                                         *)
(* A frame is [address, family, type, payload]; its envelope is module     *)
(* FrameStream.  A payload is a sequence of octets, and At(data, i) is the *)
(* code's data[i].                                                         *)
(***************************************************************************)
EXTENDS Integers, Sequences

CONSTANT None      \* Python's None: an unknown value

Frame(address, family, type, payload) ==
    [address |-> address, family |-> family, type |-> type, payload |-> payload]
ClientAddress == 10
ReadyAddress == 16
Spa == 191      \* 0xBF, the family of everything addressed

At(data, i) == data[i + 1]
Bit(octet, n) == (octet \div 2^n) % 2 = 1
Pair(octet, n) == (octet \div 4^n) % 4        \* (octet >> 2n) & 3
Flag(condition, octet) == IF condition THEN octet ELSE 0

-----------------------------------------------------------------------------
(* What is received.                                                       *)

Notice(kind, code) ==
    CASE kind = 0 -> "clear"
      [] kind = 3 /\ code = 3 -> "change_filter"
      [] kind = 3 /\ code = 4 -> "clean_filter"
      [] kind = 3 /\ code = 9 -> "check_sanitizer"
      [] kind = 3 /\ code = 10 -> "check_ph"
      [] kind = 3 /\ code = 0 -> "zero"
      [] kind = 3 /\ code \in (1..14) \ {3, 4, 9, 10} -> "unrecognized"
      [] kind = 3 /\ code >= 15 -> "fault"
      [] OTHER -> "priming"

(* The layouts of the two filter bits on which the sources agree.          *)
Filtering(flags) == Bit(flags, 3) /\ (Bit(flags, 2) \/ Bit(flags, 4))

Temperature(octet) == IF octet = 255 THEN None ELSE octet
Clock(hour, minute) == IF hour > 23 \/ minute > 59 THEN None ELSE 60 * hour + minute

StatusOf(data) ==
    [ mode |-> CASE At(data, 0) = 0 -> "normal" [] At(data, 0) = 5 -> "hold" [] OTHER -> "other",
      notice |-> Notice(At(data, 1), At(data, 6)),
      alarmed |-> At(data, 18) # 1,
      locked |-> At(data, 9) >= 16 \/ Bit(At(data, 21), 3),
      pumps |-> [i \in 1..6 |-> Pair(At(data, 11 + (i - 1) \div 4), (i - 1) % 4)],
      lights |-> <<Pair(At(data, 14), 0), Pair(At(data, 14), 1)>>,
      blower |-> Pair(At(data, 13), 1),
      mister |-> Bit(At(data, 15), 0),
      aux |-> <<Bit(At(data, 15), 3), Bit(At(data, 15), 4)>>,
      heatMode |-> <<"ready", "rest", "ready_in_rest", "unknown">>[Pair(At(data, 5), 0) + 1],
      highRange |-> Bit(At(data, 10), 2),
      target |-> Temperature(At(data, 20)),
      unit |-> IF Bit(At(data, 9), 0) THEN "celsius" ELSE "fahrenheit",
      minute |-> Clock(At(data, 3), At(data, 4)),
      clock24h |-> Bit(At(data, 9), 1),
      heating |-> Pair(At(data, 10), 2) = 1,
      heatKnown |-> Pair(At(data, 10), 2) # 3,
      circulating |-> Bit(At(data, 13), 1),
      filtering |-> Filtering(At(data, 9)),
      belowTarget |-> 255 \notin {At(data, 2), At(data, 20)} /\ At(data, 2) < At(data, 20) ]

CapabilitiesOf(data) ==
    [ pumps |-> <<Pair(At(data, 0), 0), Pair(At(data, 0), 1), Pair(At(data, 0), 2),
                  Pair(At(data, 0), 3), Pair(At(data, 1), 0), Pair(At(data, 1), 3)>>,
      light1 |-> Pair(At(data, 2), 0) = 1,
      light2 |-> Pair(At(data, 2), 1) = 1 /\ Pair(At(data, 2), 3) = 1,
      blower |-> Pair(At(data, 3), 0),
      mister |-> Pair(At(data, 4), 2) = 1,
      aux1 |-> Bit(At(data, 4), 0),
      aux2 |-> Bit(At(data, 4), 1),
      circulation |-> <<"none", "unknown", "fitted", "unknown">>[Pair(At(data, 3), 3) + 1] ]

LimitsOf(data) == [low |-> <<At(data, 2), At(data, 3)>>, high |-> <<At(data, 4), At(data, 5)>>]
LimitsValid(data) ==
    /\ Len(data) \in {9, 10}
    /\ \A i \in {2, 4} : 0 < At(data, i) /\ At(data, i) <= At(data, i + 1) /\ At(data, i + 1) < 255

(* A filter cycle: minute of its start, its minutes, and whether it runs.  *)
Cycle(start, duration, enabled) == [start |-> start, duration |-> duration, enabled |-> enabled]
ScheduleOf(data) ==
    << Cycle(60 * At(data, 0) + At(data, 1), 60 * At(data, 2) + At(data, 3), TRUE),
       Cycle(60 * (At(data, 4) % 128) + At(data, 5), 60 * At(data, 6) + At(data, 7),
             Bit(At(data, 4), 7)) >>
ScheduleValid(data) ==
    /\ Len(data) = 8
    /\ At(data, 0) <= 23 /\ At(data, 4) % 128 <= 23
    /\ \A i \in {1, 3, 5, 7} : At(data, i) <= 59
    /\ \A i \in {2, 6} : 60 * At(data, i) + At(data, i + 1) <= 1440

(* decode_message: the exact signatures only; a known signature with       *)
(* another shape is an error, everything else is unknown.                  *)
Message(kind, value) == [kind |-> kind, value |-> value]
Shaped(valid, message) == IF valid THEN message ELSE Message("error", None)

DecodeAnyones(frame, response, ready) ==   \* mutant: filters for any address
    LET data == frame.payload
        header == <<frame.address, frame.family, frame.type>>
    IN  CASE header[2] = Spa /\ header[3] = 35 ->
                Shaped(ScheduleValid(data), Message("filters", ScheduleOf(data)))
          [] header = <<response, Spa, 37>> ->
                Shaped(LimitsValid(data), Message("setup", LimitsOf(data)))
          [] header = <<response, Spa, 40>> -> Shaped(Len(data) = 10, Message("fault", data))
          [] header = <<response, Spa, 36>> ->
                Shaped(Len(data) = 21, Message("information", data))
          [] header = <<response, Spa, 46>> ->
                Shaped(Len(data) = 6, Message("capabilities", CapabilitiesOf(data)))
          [] header = <<ready, Spa, 6>> -> Shaped(data = <<>>, Message("ready", None))
          [] header = <<255, 175, 19>> ->
                Shaped(Len(data) \in 23..32, Message("status", StatusOf(data)))
          [] OTHER -> Message("unknown", frame)

DecodeMessage(frame, response, ready) ==
    LET data == frame.payload
        header == <<frame.address, frame.family, frame.type>>
    IN  CASE header = <<response, Spa, 37>> ->
                Shaped(LimitsValid(data), Message("setup", LimitsOf(data)))
          [] header = <<response, Spa, 35>> ->
                Shaped(ScheduleValid(data), Message("filters", ScheduleOf(data)))
          [] header = <<response, Spa, 40>> -> Shaped(Len(data) = 10, Message("fault", data))
          [] header = <<response, Spa, 36>> ->
                Shaped(Len(data) = 21, Message("information", data))
          [] header = <<response, Spa, 46>> ->
                Shaped(Len(data) = 6, Message("capabilities", CapabilitiesOf(data)))
          [] header = <<ready, Spa, 6>> -> Shaped(data = <<>>, Message("ready", None))
          [] header = <<255, 175, 19>> ->
                Shaped(Len(data) \in 23..32, Message("status", StatusOf(data)))
          [] OTHER -> Message("unknown", frame)

-----------------------------------------------------------------------------
(* What is sent.                                                           *)

Queries ==
    [ information |-> <<2, 0, 0>>, capabilities |-> <<0, 0, 1>>, setup |-> <<4, 0, 0>>,
      filters |-> <<1, 0, 0>>, fault |-> <<32, 255, 0>> ]
EncodeQuery(query) == Frame(ClientAddress, Spa, 34, Queries[query])

ToggleItem ==
    [ normal_operation |-> 1, ack_reminder |-> 3, pump1 |-> 4, pump2 |-> 5, pump3 |-> 6,
      pump4 |-> 7, pump5 |-> 8, pump6 |-> 9, blower |-> 12, mister |-> 14, light1 |-> 17,
      light2 |-> 18, aux1 |-> 22, aux2 |-> 23, soak |-> 29, hold |-> 60, high_range |-> 80,
      heat_mode |-> 81 ]
Toggle(control) == Frame(ClientAddress, Spa, 17, <<ToggleItem[control], 0>>)

(* Temperatures are in units of the wire, half degrees or degrees.         *)
Envelope(unit) == IF unit = "celsius" THEN 20..80 ELSE 50..104
SetTemperature(value) == Frame(ClientAddress, Spa, 32, <<value>>)
SetClock(minute, clock24h) ==
    Frame(ClientAddress, Spa, 33, <<minute \div 60 + Flag(clock24h, 128), minute % 60>>)
SetTemperatureUnit(unit) ==
    Frame(ClientAddress, Spa, 39, <<1, Flag(unit = "celsius", 1)>>)
SetClockFormat(clock24h) == Frame(ClientAddress, Spa, 39, <<2, Flag(clock24h, 1)>>)

Scheduled(schedule) ==
    LET first == schedule[1]
        second == schedule[2]
    IN  Frame(ClientAddress, Spa, 35,
              << first.start \div 60, first.start % 60,
                 first.duration \div 60, first.duration % 60,
                 second.start \div 60 + Flag(second.enabled, 128), second.start % 60,
                 second.duration \div 60, second.duration % 60 >>)

(* What the encoders and FilterSchedule refuse raises inside next_action,  *)
(* that is in the task of the connection.                                  *)
Encodable(s, c, desired) ==
    CASE c = "target" -> desired \in Envelope(s.status.unit)
      [] c = "clock_time" -> desired \in 0..1439
      [] c = "filters" -> /\ desired[1].enabled
                          /\ \A i \in 1..2 : /\ desired[i].start \in 0..1439
                                             /\ desired[i].duration \in 0..1440
      [] OTHER -> c \in DOMAIN ToggleItem \cup {"temperature_unit", "clock_format"}

CommandReformatting(s, c, desired) ==   \* mutant: the clock is set in a format of its own
    CASE c = "temperature_unit" -> SetTemperatureUnit(desired)
      [] c = "clock_format" -> SetClockFormat(desired)
      [] c = "clock_time" -> SetClock(desired, TRUE)
      [] c = "filters" -> Scheduled(desired)
      [] c = "target" -> SetTemperature(desired)
      [] OTHER -> Toggle(c)

Command(s, c, desired) ==
    CASE c = "temperature_unit" -> SetTemperatureUnit(desired)
      [] c = "clock_format" -> SetClockFormat(desired)
      [] c = "clock_time" -> SetClock(desired, s.status.clock24h)
      [] c = "filters" -> Scheduled(desired)
      [] c = "target" -> SetTemperature(desired)
      [] OTHER -> Toggle(c)

(* FilterSchedule.update of one cycle; None where it raises.               *)
Rescheduled(schedule, index, start, end, enabled) ==
    LET cycle == schedule[index]
        begin == IF start = None THEN cycle.start ELSE start
        minutes == IF end = None THEN cycle.duration ELSE (end - begin) % 1440
        changed == Cycle(begin, minutes, IF enabled = None THEN cycle.enabled ELSE enabled)
    IN  IF \/ end # None /\ minutes = 0
           \/ enabled # None /\ index = 1
           \/ minutes \in {0, 1440} /\ changed # cycle
        THEN None ELSE [schedule EXCEPT ![index] = changed]
=============================================================================
