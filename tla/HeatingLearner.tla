--------------------------- MODULE HeatingLearner ---------------------------
(***************************************************************************)
(* What is learned about heating: the segment collector and the training   *)
(* of src/balboa_rs485/prediction.py, fed by observe and configure in      *)
(* src/custom_components/balboa_rs485/prediction.py with what the snapshot *)
(* of the connection shows at the moment it is looked at.                  *)
(*                                                                         *)
(* Times are whole units, water is in half degrees.  The collector's sums  *)
(* are kept as the samples they sum; the regression over the segments is   *)
(* left out, and how the model is saved is in module Coordinator.          *)
(***************************************************************************)
EXTENDS Integers, SequencesExt

CONSTANTS
    Nothing,                   \* Python's None
    SampleTime,                \* 30 s
    Gap,                       \* 90 s
    Shortest, Hour, Longest,   \* 1800 s, 3600 s, 5400 s
    FastRise,                  \* 225 s: a faster half degree is no clean rise
    Steepest,                  \* half degrees in an Hour (16)
    Hottest,                   \* half degrees (90)
    StaleAfter,                \* age at which a status is stale
    Waters,                    \* temperatures the spa can show
    Horizon, Upsets            \* bounds: the time that passes, what disturbs it

ASSUME LearnerParameters ==
    /\ {SampleTime, Gap, Shortest, Hour, Longest, FastRise, StaleAfter} \subseteq Nat \ {0}
    /\ SampleTime <= Gap /\ Shortest <= Hour /\ Hour <= Longest
    /\ {Steepest, Hottest, Horizon, Upsets} \subseteq Nat /\ Waters \subseteq Nat

VARIABLES
    passed,     \* time that has passed
    wall,       \* the wall clock
    upsets,     \* disturbances so far
    link,       \* the snapshot: [state, missing, status, age]
    watched,    \* against what observe remembers of it: [fresh, moved, ready]
    air,        \* the outdoor sensor: "absent" from the options, "known", "unknown"
    collector,  \* SegmentCollector: [outdoor, seen, samples]
    model,      \* HeatingModel: [outdoor, samples, last]
    finished,   \* the last segment the collector made
    broken      \* whether the connection was lost since the first sample

learnerVars ==
    <<passed, wall, upsets, link, watched, air, collector, model, finished, broken>>
clockVars == <<passed, wall, upsets>>
learned == <<collector, model, finished>>

-----------------------------------------------------------------------------
(* SegmentCollector.                                                       *)

NewCollector(outdoor) == [outdoor |-> outdoor, seen |-> 0, samples |-> <<>>]
Clear(c) == NewCollector(c.outdoor)

Sum(f) == FoldLeft(LAMBDA total, x : total + x, 0, f)
Start(c) == Head(c.samples).at
Hours(c) == [i \in DOMAIN c.samples |-> c.samples[i].at - Start(c)]
Water(c) == [i \in DOMAIN c.samples |-> c.samples[i].water]
Times(f, g) == [i \in DOMAIN f |-> f[i] * g[i]]

(* The sums of _finish, rise / run being the rate in half degrees an hour. *)
Segment(c) ==
    LET t == Hours(c)
        y == Water(c)
        n == Len(c.samples)
    IN  [ start |-> Start(c), end |-> Last(c.samples).at, first |-> Head(y), last |-> Last(y),
          n |-> n, total |-> Sum(y), rise |-> Hour * (n * Sum(Times(t, y)) - Sum(t) * Sum(y)),
          run |-> n * Sum(Times(t, t)) - Sum(t) * Sum(t) ]

Enough(s) == s.end - s.start >= Shortest /\ s.last - s.first >= 2
Plausible(s) ==
    /\ 0 < s.rise /\ s.rise <= Steepest * s.run
    /\ s.n * s.first <= s.total /\ s.total <= s.n * s.last

(* Without a variance the division raises: such a segment is not refused.  *)
Finish(c) ==
    IF c.samples # <<>> /\ Enough(Segment(c)) /\ (Segment(c).run = 0 \/ Plausible(Segment(c)))
    THEN Segment(c) ELSE Nothing

(* HeatingSegment.__post_init__ raises for anything else.                  *)
Constructible(s) ==
    /\ s.start >= 0 /\ s.end - s.start \in Shortest..Longest
    /\ 0 <= s.first /\ s.first < s.last /\ s.last <= Hottest
    /\ s.run > 0 /\ Plausible(s)

(* observe: the collector afterwards, and the segment it returns.          *)
Step(c, segment) == [collector |-> c, segment |-> segment]

Interrupted(c, at) == c.samples # <<>> /\ (at < c.seen \/ at - c.seen > Gap)

Clean(c, at, water) ==
    LET before == Last(c.samples)
        rise == water - before.water
    IN  rise >= -1 /\ (rise <= 2 \/ rise * FastRise <= at - before.at)

Sampled(c, at, water) ==
    LET more == [c EXCEPT !.seen = at, !.samples = Append(@, [at |-> at, water |-> water])]
        hours == at - Start(more)
        segment == IF hours >= Hour THEN Finish(more) ELSE Nothing
    IN  IF hours > Longest THEN Step(Clear(c), Nothing)
        ELSE Step(IF segment # Nothing \/ hours >= Longest THEN Clear(c) ELSE more, segment)

Heated(c, at, water) ==
    IF c.samples # <<>> /\ at - Last(c.samples).at < SampleTime
    THEN Step([c EXCEPT !.seen = at], Nothing)
    ELSE IF c.samples # <<>> /\ ~Clean(c, at, water) THEN Step(Clear(c), Nothing)
    ELSE Sampled(c, at, water)

Collected(collected, at, water, heating) ==
    LET c == IF Interrupted(collected, at) THEN Clear(collected) ELSE collected
    IN  IF at < 0 \/ water = Nothing \/ water \notin 0..Hottest THEN Step(Clear(c), Nothing)
        ELSE IF heating THEN Heated(c, at, water)
        ELSE Step(Clear(c), Finish(c))

(* HeatingModel.update, and where it raises.                               *)
NewModel(outdoor) == [outdoor |-> outdoor, samples |-> 0, last |-> Nothing]
Admits(m, outdoor, segment) ==
    m.outdoor = outdoor /\ (m.last = Nothing \/ segment.start >= m.last)
Trained(m, segment) == [m EXCEPT !.samples = @ + 1, !.last = segment.end]

-----------------------------------------------------------------------------
(* The connection, the clocks, the sensor and the options.                 *)

Unlinked == [state |-> "down", missing |-> FALSE, status |-> Nothing, age |-> 0]
Upset == upsets < Upsets /\ upsets' = upsets + 1

LearnerInit ==
    /\ passed = 0 /\ wall = 0 /\ upsets = 0
    /\ link = Unlinked /\ watched = [fresh |-> TRUE, moved |-> FALSE, ready |-> FALSE]
    /\ air \in {"absent", "known"}
    /\ collector = NewCollector(air # "absent") /\ model = NewModel(air # "absent")
    /\ finished = Nothing /\ broken = FALSE

Elapse ==
    /\ passed < Horizon
    /\ passed' = passed + 1 /\ wall' = wall + 1 /\ link' = [link EXCEPT !.age = @ + 1]
    /\ UNCHANGED <<upsets, watched, air, learned, broken>>

(* Somebody sets the wall clock back.                                      *)
SetBack(n) ==
    /\ Upset /\ wall' = wall - n
    /\ UNCHANGED <<passed, link, watched, air, learned, broken>>

Hear(water, heating) ==
    /\ link.state # "down"
    /\ link' = [link EXCEPT !.status = [water |-> water, heating |-> heating], !.age = 0]
    /\ watched' = [watched EXCEPT !.fresh = TRUE]
    /\ UNCHANGED <<clockVars, air, learned, broken>>

(* Synchronization, at first and again in the middle of an epoch.          *)
Synchronize(state) ==
    /\ link.state = (IF state = "ready" THEN "syncing" ELSE "ready")
    /\ link' = [link EXCEPT !.state = state, !.missing = FALSE]
    /\ UNCHANGED <<clockVars, watched, air, learned, broken>>

(* The clear-to-send stays away.                                           *)
Quiet ==
    /\ link.state = "syncing" /\ ~link.missing /\ Upset
    /\ link' = [link EXCEPT !.missing = TRUE]
    /\ UNCHANGED <<passed, wall, watched, air, learned, broken>>

(* The connection is lost; the next one is a new epoch.  Both may happen   *)
(* before the observer looks again.                                        *)
Lose ==
    /\ link.state # "down" /\ Upset
    /\ link' = Unlinked /\ broken' = TRUE
    /\ UNCHANGED <<passed, wall, watched, air, learned>>

Open ==
    /\ link.state = "down"
    /\ link' = [Unlinked EXCEPT !.state = "syncing"]
    /\ watched' = [fresh |-> TRUE, moved |-> TRUE, ready |-> FALSE]
    /\ UNCHANGED <<clockVars, air, learned, broken>>

Sense(state) ==
    /\ air # "absent" /\ state # air /\ Upset /\ air' = state
    /\ UNCHANGED <<passed, wall, link, watched, learned, broken>>

(* configure: another outdoor entity, or none, starts a model of its own.  *)
Configure(outdoor) ==
    /\ outdoor # collector.outdoor /\ Upset
    /\ air' = IF outdoor THEN "known" ELSE "absent"
    /\ collector' = NewCollector(outdoor) /\ model' = NewModel(outdoor)
    /\ UNCHANGED <<passed, wall, link, watched, finished, broken>>

-----------------------------------------------------------------------------
(* PredictionController.observe.                                           *)

Observed == IF link.state = "down" \/ link.age >= StaleAfter THEN Nothing ELSE link.status
Ready == link.state = "ready" \/ watched.ready      \* _ready_epoch is this epoch

Healthy ==
    /\ link.state = "ready" \/ (link.state = "syncing" /\ watched.ready /\ ~link.missing)
    /\ Observed # Nothing /\ air # "unknown"

OutcomeUnmoved ==   \* mutant: a new epoch goes on with the old samples
    IF ~Healthy THEN Step(Clear(collector), Nothing)
    ELSE IF ~watched.fresh THEN Step(collector, Nothing)
    ELSE Collected(collector, wall - link.age, Observed.water, Observed.heating)

Outcome ==
    IF ~Healthy THEN Step(Clear(collector), Nothing)
    ELSE IF ~watched.fresh THEN Step(collector, Nothing)
    ELSE Collected(IF watched.moved THEN Clear(collector) ELSE collector,
                   wall - link.age, Observed.water, Observed.heating)

Observe ==
    \E step \in {Outcome} :
        LET segment == step.segment
            learns == segment # Nothing /\ Admits(model, step.collector.outdoor, segment)
        IN  /\ collector' = IF segment # Nothing /\ ~learns THEN Clear(step.collector)
                            ELSE step.collector
            /\ model' = IF learns THEN Trained(model, segment) ELSE model
            /\ finished' = IF segment # Nothing THEN segment ELSE finished
            /\ broken' = (broken /\ Len(step.collector.samples) > 1)
            /\ watched' = [fresh |-> FALSE, moved |-> FALSE, ready |-> Ready]
            /\ UNCHANGED <<clockVars, link, air>>

LearnerNext ==
    \/ Elapse
    \/ \E n \in {1, Hour} : SetBack(n)
    \/ \E water \in Waters, heating \in BOOLEAN : Hear(water, heating)
    \/ \E state \in {"ready", "syncing"} : Synchronize(state)
    \/ Quiet \/ Lose \/ Open
    \/ \E state \in {"known", "unknown"} : Sense(state)
    \/ \E outdoor \in BOOLEAN : Configure(outdoor)
    \/ Observe

-----------------------------------------------------------------------------
(* LearnsFromWholeSegments: a segment never spans a lost connection, even  *)
(* one that was replaced before the observer looked; and whatever the      *)
(* statuses and the clock do, the segment can be built: observe does not   *)
(* catch what its constructor, or a division, would raise.                 *)
LearnsFromWholeSegments ==
    [][finished' # finished => ~broken /\ Constructible(finished')]_learnerVars
=============================================================================
