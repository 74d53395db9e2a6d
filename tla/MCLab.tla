------------------------------- MODULE MCLab -------------------------------
(***************************************************************************)
(* The machines around the engine that share no state with it or with one  *)
(* another: the byte stream, the simulated spa with its clients, and the   *)
(* learner.  A behaviour runs one of them; the others stay as they are.    *)
(***************************************************************************)
EXTENDS SimulatedSpa, FrameStream, HeatingLearner

VARIABLE part      \* the machine that runs
labVars == <<part, simVars, streamVars, learnerVars>>

MCBodies == {<<6>>, <<3, 1>>, <<4, 6, 3>>}
MCJunk == {<<6>>, <<6, 3>>, <<6, 4, 0>>, <<1>>, <<0, 6, 5>>}

MCWishes(s, c) ==
    IF s.status = None THEN {} ELSE
    CASE c = "clock_time" -> {61, 1439}
      [] c = "filters" ->
            IF s.filters = None THEN {}
            ELSE {Rescheduled(s.filters, 1, 60, None, None),
                  Rescheduled(s.filters, 2, None, 1350, FALSE)} \ {None}
      [] c = "target" -> LET b == Client(Fitted)!TargetBounds(s.status) IN {b[1], b[2]}
      [] OTHER -> Range(Client(Fitted)!Options(s, c))

MCRating(load) ==
    CASE load[2] = "low" -> 350 [] load[2] = "high" -> 1300
      [] load[1] = "heater" -> 3000 [] load[1] = "circulation" -> 250
      [] load[1] = "electronics" -> 20 [] load[1] \in {"light1", "light2", "blower"} -> 10
      [] OTHER -> 0

World(name, n, most) ==
    [scenario |-> name, clients |-> n, commands |-> most, controls |-> Client(None)!Control,
     lab |-> FALSE, dropping |-> 0, delaying |-> FALSE, reminders |-> <<>>, heatMode |-> 0]
MCWorlds ==
    { World("normal", 1, 2),
      [World("normal", 1, 2) EXCEPT !.reminders = <<4, 3>>, !.heatMode = 2],
      World("accessories", 1, 2),
      [World("accessories", 2, 1) EXCEPT !.lab = TRUE],
      [World("single-speed-pump", 1, 3) EXCEPT !.dropping = 1, !.delaying = TRUE,
                                               !.controls = {"pump1", "pump2", "soak"}],
      [World("reset-after-command", 2, 2) EXCEPT
            !.controls = {"clock_time", "clock_format", "filters", "light1"}],
      [World("lost-status-after-command", 1, 2) EXCEPT
            !.controls = {"target", "high_range", "temperature_unit", "blower"}],
      World("missing-metadata", 1, 1),
      World("silent-zombie-socket", 2, 1) }

LabInit ==
    /\ part \in {"stream", "spa", "learner"}
    /\ IF part = "stream" THEN StreamInit
       ELSE wires = <<>> /\ fed = 0 /\ buffer = <<>> /\ frames = <<>> /\ discarded = 0
    /\ IF part = "spa" THEN SimInit
       ELSE /\ world = None /\ spa = None /\ dropping = 0 /\ delayed = <<>> /\ commands = 0
            /\ muted = 0 /\ links = <<>> /\ seen = <<>> /\ told = None /\ closing = FALSE
    /\ IF part = "learner" THEN LearnerInit
       ELSE /\ passed = 0 /\ wall = 0 /\ upsets = 0 /\ link = Nothing /\ watched = Nothing
            /\ air = "absent" /\ collector = Nothing /\ model = Nothing
            /\ finished = Nothing /\ broken = FALSE

LabNext ==
    \/ part = "stream" /\ StreamNext /\ UNCHANGED <<part, simVars, learnerVars>>
    \/ part = "spa" /\ SimNext /\ UNCHANGED <<part, streamVars, learnerVars>>
    \/ part = "learner" /\ LearnerNext /\ UNCHANGED <<part, simVars, streamVars>>

LabSpec == LabInit /\ [][LabNext]_labVars

(* LabInv: however the stream is cut its frames are found, and nothing the *)
(* simulated spa sends or its clients plan raises or is another's answer.  *)
LabInv == (part = "stream" => StreamInv) /\ (part = "spa" => SimulatorInv)
=============================================================================
