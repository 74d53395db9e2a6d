--------------------------- MODULE BathingSession ---------------------------
(***************************************************************************)
(* Heating and bathing sessions: src/balboa_rs485/session.py and           *)
(* range_session.py (the intents), session_runner.py (persistence first,   *)
(* then goals from fresh observations) and Home Assistant's storage around *)
(* them, custom_components/balboa_rs485/sessions.py.                       *)
(*                                                                         *)
(* A bathing session borrows the high range, its target and the heat mode  *)
(* in stages and gives back what it changed; a plain session sets one      *)
(* target and then another.  The command engine below (CommandEngine) is   *)
(* reduced to one request of the session, one of the user and one message  *)
(* in flight; the panel, the link, the disk and the clock interfere.       *)
(***************************************************************************)
EXTENDS Integers, FiniteSetsExt

CONSTANTS
    None,
    LowTargets, HighTargets,     \* what each range lets a target be
    Minimum,                     \* minimum bathing temperature
    MaxTime,                     \* the clock's bound
    Longest,                     \* bound on the length of a new session
    Kinds,                       \* "plain", "range"
    Disturbances,                \* bound on the things that go wrong
    Requests,                    \* bound on what users ask for
    Found                        \* the spas that are started with

ASSUME Targets ==
    /\ LowTargets \subseteq Int /\ HighTargets \subseteq Int /\ Minimum \in HighTargets
    /\ MaxTime \in Nat /\ Longest \in Nat /\ Disturbances \in Nat /\ Requests \in Nat
    /\ Kinds \subseteq {"plain", "range"}

Times == 0..MaxTime
Ready == "ready"
Rest == "rest"
Transient == "ready_in_rest"   \* at rest, and heating for a while because of the jets

Spa == [high : BOOLEAN, hi : HighTargets, lo : LowTargets, mode : {Ready, Rest, Transient},
        hold : BOOLEAN]
Goals == {"target"} \X (LowTargets \cup HighTargets) \cup {"high_range", "hold"} \X BOOLEAN
            \cup {"heat_mode"} \X {Ready, Rest}
Session == [start : Times, end : Times, minimum : LowTargets \cup HighTargets,
            maintenance : LowTargets \cup HighTargets, range : BOOLEAN, mode : {Ready, Rest},
            high : HighTargets \cup {None},
            step : {"plain", "activate_high", "set_target", "set_mode", "active",
                    "restore_high", "restore_range", "restore_mode"},
            phase : {"preheating", "target_reached", "holding", "restoring"},
            ownsTarget : BOOLEAN, ownsMode : BOOLEAN]
Saving == [new : Session \cup {None}, written : BOOLEAN,
           then : {"tick", "start", "cancel", "adjust", "abandon", "manual"}]
Intent == [session : Session, current : BOOLEAN, late : BOOLEAN,
           stage : {"queued", "sent", "verified", "failed", "cancelled"}]
Manual == [goal : Goals, stage : {"saving", "queued", "sent", "verified", "failed", "cancelled"}]
Flight == [by : {"session", "manual"}, goal : Goals, step : Goals,
           fate : {"underway", "landed", "lost"}]

ASSUME FoundSpas == Found \subseteq Spa

ASSUME NoneIsNoRecord ==
    /\ None \notin HighTargets /\ None \notin Session /\ None \notin Saving
    /\ None \notin Intent /\ None \notin Manual /\ None \notin Flight

VARIABLES
    spa,            \* the spa itself
    obs,            \* engine.state: what was last observed of it
    up,             \* connection.snapshot.available
    now,            \* the wall clock
    enabled,        \* controls are enabled
    session,        \* runner.session
    durable,        \* the session in the stored record
    saving,         \* an await of the save: [new, then], or None
    lock,           \* runner._lock: "free", "saving", "applying"
    intent,         \* the goal last requested: [session, current, late, stage]
    attempt,        \* runner._attempt: the session it was made for
    manual,         \* the goal that "apply" waits for, [goal, stage]
    flight,         \* the message sent and not yet settled: its goal, what it is to do
    resync,         \* engine.resync_epoch is not None
    expired,        \* runner._expired
    storageFailed,  \* runner.storage_failed
    closed,         \* runner._closed
    left,           \* disturbances left
    requests,       \* requests left
    orig,           \* the spa as the session found it
    touched,        \* whether somebody else changed it since
    sawEnd          \* whether this process has seen the session's end pass

spaVars == <<spa, obs, up, now, enabled>>
runnerVars == <<session, saving, lock, intent, attempt, manual, expired, storageFailed, closed>>
engineVars == <<flight, resync>>
ghostVars == <<left, requests, orig, touched, sawEnd>>
bathingVars == <<spaVars, runnerVars, engineVars, durable, ghostVars>>

-----------------------------------------------------------------------------
(* The spa, and what admission and observation make of it.                 *)

Target(s) == IF s.high THEN s.hi ELSE s.lo
Limits(s) == IF s.high THEN HighTargets ELSE LowTargets

Value(s, control) ==
    CASE control = "high_range" -> s.high
      [] control = "target" -> Target(s)
      [] control = "heat_mode" -> s.mode
      [] control = "hold" -> s.hold

Meets(s, goal) == Value(s, goal[1]) = goal[2]

(* The mode that a transient one returns to, and what of a spa's state     *)
(* lasts.                                                                  *)
Policy(mode) == IF mode = Ready THEN Ready ELSE Rest
Lasting(s) == [s EXCEPT !.mode = Policy(@)]

Validates(s, goal) ==
    /\ goal[1] = "hold" \/ ~s.hold
    /\ goal[1] = "target" => goal[2] \in Limits(s)

(* plan: no toggle leads from the transient mode to ready, only to rest.   *)
Step(s, goal) ==
    IF goal[1] = "heat_mode" /\ s.mode = Transient THEN <<"heat_mode", Rest>> ELSE goal

(* Range and heat mode are toggles on the wire, a target is a number.      *)
Apply(s, goal) ==
    CASE goal[1] = "high_range" -> [s EXCEPT !.high = ~@]
      [] goal[1] = "target" ->
            IF goal[2] \notin Limits(s) THEN s
            ELSE IF s.high THEN [s EXCEPT !.hi = goal[2]] ELSE [s EXCEPT !.lo = goal[2]]
      [] goal[1] = "heat_mode" -> [s EXCEPT !.mode = IF @ = Rest THEN Ready ELSE Rest]
      [] goal[1] = "hold" -> [s EXCEPT !.hold = ~@]

-----------------------------------------------------------------------------
(* The intents.  A plain session has step "plain" and its target in        *)
(* "minimum".                                                              *)

Restorations == {"restore_high", "restore_range", "restore_mode"}
Working == {"set_target", "set_mode", "active"}

BathingTarget(r) == IF r.high = None THEN r.minimum ELSE Max({r.minimum, r.high})

(* RangeSession.__post_init__: a checkpoint that breaks this is refused.   *)
Consistent(r) ==
    /\ 0 <= r.start /\ r.start <= r.end
    /\ r.step # "plain" =>
        /\ r.phase = "restoring" <=> r.step \in Restorations
        /\ (r.step \in Working \cup {"restore_high"} \/ r.range) => r.high # None
        /\ r.ownsTarget => (r.high # None /\ r.high < r.minimum)
        /\ r.ownsMode => r.mode = Rest
        /\ r.step = "restore_mode" => r.ownsMode
        /\ r.step \in {"activate_high", "set_target", "set_mode"} => r.phase = "preheating"
        /\ r.step \in Working => (r.ownsTarget <=> r.high < r.minimum)
        /\ r.step \in {"activate_high", "set_target"} => ~r.ownsMode
        /\ r.step \in {"set_mode", "active"} => (r.ownsMode <=> r.mode = Rest)

StartPlain(t, end, target, maintenance) ==
    [ start |-> t, end |-> end, minimum |-> target, maintenance |-> maintenance,
      range |-> FALSE, mode |-> Rest, high |-> None, step |-> "plain",
      phase |-> "preheating", ownsTarget |-> FALSE, ownsMode |-> FALSE ]

(* What a session notes as the heat mode to give back.                     *)
OriginalIfNotRest(s) == IF s.mode = Rest THEN Rest ELSE Ready     \* mutant: jets count as ready
OriginalMode(s) == Policy(s.mode)

StartBathing(t, end, s) ==
    [ start |-> t, end |-> end, minimum |-> Minimum, maintenance |-> Target(s),
      range |-> s.high, mode |-> OriginalMode(s), high |-> IF s.high THEN s.hi ELSE None,
      step |-> IF s.high THEN "set_target" ELSE "activate_high",
      phase |-> "preheating", ownsTarget |-> s.high /\ s.hi < Minimum, ownsMode |-> FALSE ]

Cancel(r) ==
    IF r.step = "plain" THEN [r EXCEPT !.phase = "restoring"]
    ELSE IF r.phase = "restoring" THEN r
    ELSE [r EXCEPT !.phase = "restoring",
                   !.step = IF r.ownsTarget THEN "restore_high" ELSE "restore_range"]

Adjustable(r, t) == r.phase # "restoring" /\ t < r.end

Adjust(r, t, seconds) ==
    LET end == Max({r.start, r.end + seconds})
        updated == [r EXCEPT !.end = end]
    IN  IF end <= t THEN Cancel(updated) ELSE updated

ReleaseTargetInPlace(r) ==     \* mutant: the step stays
    [r EXCEPT !.ownsTarget = FALSE, !.phase = "restoring"]
ReleaseTargetByCancel(r) == Cancel(r)     \* mutant: an edit ends the session like a cancellation
ReleaseTarget(r) ==
    [r EXCEPT !.ownsTarget = FALSE, !.phase = "restoring", !.step = "restore_range"]

Goal(r) ==
    CASE r.step = "plain" ->
            <<"target", IF r.phase = "restoring" THEN r.maintenance ELSE r.minimum>>
      [] r.step = "activate_high" -> <<"high_range", TRUE>>
      [] r.step \in {"set_target", "active"} -> <<"target", BathingTarget(r)>>
      [] r.step = "restore_high" -> <<"target", r.high>>
      [] r.step = "set_mode" -> <<"heat_mode", Ready>>
      [] r.step = "restore_range" -> <<"high_range", r.range>>
      [] r.step = "restore_mode" -> <<"heat_mode", r.mode>>

(* Changes made outside the session that a step must not overwrite.        *)
Conflict(r, s) ==
    \/ /\ r.step \in {"set_target", "active", "restore_high"}
       /\ ~s.high \/ Target(s) \notin {r.high, BathingTarget(r)}
    \/ r.step = "active" /\ s.mode # Ready
    \/ r.step = "set_mode" /\ (~s.high \/ Target(s) # BathingTarget(r))
    \/ r.step = "restore_mode" /\ s.high # r.range

Pursuable(r, s) == ~Conflict(r, s) /\ Validates(s, Goal(r))

Heated(r) ==
    [r EXCEPT !.phase = IF @ = "preheating" THEN "target_reached" ELSE "holding"]

(* The next checkpoint once the goal of this one is observed.              *)
Advance(r, s, hot) ==
    CASE r.step = "plain" ->
            IF r.phase = "restoring" THEN None
            ELSE IF r.phase # "holding" /\ hot THEN Heated(r) ELSE r
      [] r.step = "activate_high" ->
            [r EXCEPT !.high = s.hi, !.ownsTarget = s.hi < r.minimum, !.step = "set_target"]
      [] r.step = "set_target" -> [r EXCEPT !.ownsMode = r.mode # Ready, !.step = "set_mode"]
      [] r.step = "set_mode" -> [r EXCEPT !.step = "active"]
      [] r.step = "restore_high" -> [r EXCEPT !.step = "restore_range"]
      [] r.step = "restore_range" -> IF r.ownsMode THEN [r EXCEPT !.step = "restore_mode"] ELSE None
      [] r.step = "restore_mode" -> None
      [] r.step = "active" -> IF hot THEN Heated(r) ELSE r

(* reconcile; "known" says that there is an observation to rely on.        *)
Reconciled(r, t, s, known, hot) ==
    LET current == IF t >= r.end THEN Cancel(r) ELSE r
    IN  IF known /\ Pursuable(current, s) /\ Meets(s, Goal(current))
        THEN Advance(current, s, hot)
        ELSE current

-----------------------------------------------------------------------------
(* SessionRunner.  Its lock is held over the save and over "apply"; what   *)
(* follows the last await of an operation is in the step that ends it.     *)

Writable == ~closed /\ ~storageFailed
Permitted == enabled /\ ~closed              \* _opened is cleared before close
Settled == flight = None /\ ~resync

(* Only an observation made after the last message says what it did.       *)
Known == up /\ Settled

BathingInit ==
    /\ spa \in Found
    /\ obs = spa
    /\ up = TRUE /\ now = 0 /\ enabled = TRUE
    /\ session = None /\ durable = None /\ saving = None /\ lock = "free"
    /\ intent = None /\ attempt = None /\ manual = None /\ flight = None /\ resync = FALSE
    /\ expired = FALSE /\ storageFailed = FALSE /\ closed = FALSE
    /\ left = Disturbances /\ requests = Requests
    /\ orig = [spa |-> spa, edited |-> FALSE] /\ touched = FALSE /\ sawEnd = FALSE

Pause == intent' = None /\ attempt' = None

(* _replace, up to its await of the save.                                  *)
Replace(new, then) ==
    /\ Pause
    /\ saving' = [new |-> new, then |-> then, written |-> FALSE]
    /\ lock' = "saving"

(* What async_tick does with a session that it has reconciled.             *)
Pursue(r) ==
    IF ~Permitted \/ ~up THEN Pause
    ELSE IF ~Settled THEN UNCHANGED <<intent, attempt>>
    ELSE IF ~Pursuable(r, obs) THEN Pause
    ELSE /\ attempt' = r
         /\ IF Meets(obs, Goal(r)) \/ attempt = r
            THEN UNCHANGED intent
            ELSE intent' = [session |-> r, current |-> TRUE, late |-> FALSE, stage |-> "queued"]

Tick ==
    /\ lock = "free" /\ Writable /\ session # None
    /\ \E hot \in BOOLEAN :
        LET t == IF expired THEN Max({now, session.end}) ELSE now
            updated == Reconciled(session, t, obs, Known, hot)
        IN  IF updated # session
            THEN Replace(updated, "tick")
            ELSE Pursue(session) /\ UNCHANGED <<saving, lock>>
    /\ sawEnd' = (sawEnd \/ now >= session.end)
    /\ UNCHANGED <<spaVars, session, manual, expired, storageFailed, closed, engineVars,
                   durable, left, requests, orig, touched>>

Asked ==
    /\ lock = "free" /\ Writable /\ requests > 0
    /\ requests' = requests - 1
    /\ UNCHANGED <<spaVars, session, expired, storageFailed, closed, engineVars,
                   durable, left, sawEnd>>

Start(end, r) ==
    /\ Asked /\ Permitted /\ session = None
    /\ now < end /\ end <= now + Longest /\ up
    /\ Replace(r, "start")
    /\ orig' = [spa |-> spa, edited |-> FALSE]
    /\ touched' = (Lasting(spa) # Lasting(obs) \/ flight # None)
    /\ UNCHANGED manual

AsyncStart ==
    \E end \in Times : \E target, maintenance \in {t \in LowTargets \cup HighTargets : t <= Minimum} :
        /\ "plain" \in Kinds
        /\ Validates(obs, <<"target", target>>) /\ Validates(obs, <<"target", maintenance>>)
        /\ Start(end, StartPlain(now, end, target, maintenance))

AsyncStartBathing ==
    \E end \in Times :
        /\ "range" \in Kinds
        /\ Validates(obs, <<"target", Target(obs)>>)
        /\ Start(end, StartBathing(now, end, obs))

AsyncCancel ==
    /\ Asked /\ session # None
    /\ Replace(Cancel(session), "cancel")
    /\ UNCHANGED <<manual, orig, touched>>

AsyncAdjust ==
    /\ Asked /\ session # None /\ ~expired
    /\ Adjustable(session, now)
    /\ \E seconds \in {-1, 1} :
        /\ session.end + seconds <= MaxTime
        /\ Replace(Adjust(session, now, seconds), "adjust")
    /\ UNCHANGED <<manual, orig, touched>>

AsyncAbandon ==
    /\ Asked /\ session # None
    /\ Replace(None, "abandon")
    /\ UNCHANGED <<manual, orig, touched>>

AsyncManualChange ==
    \E goal \in ({"target"} \X (LowTargets \cup HighTargets))
                    \cup {<<"high_range", ~obs.high>>, <<"hold", FALSE>>} :
        /\ Asked /\ Permitted /\ up /\ Validates(obs, goal)
        /\ \/ /\ session = None \/ (obs.hold /\ goal = <<"hold", FALSE>>)
              /\ manual' = [goal |-> goal, stage |-> "queued"]
              /\ lock' = "applying"
              /\ UNCHANGED <<saving, intent, attempt>>
           \/ /\ session # None /\ goal[1] = "target"
              /\ session.step # "plain" => obs.high
              /\ manual' = [goal |-> goal, stage |-> "saving"]
              /\ Replace(IF session.step = "plain" THEN None ELSE ReleaseTarget(session), "manual")
        /\ UNCHANGED <<orig, touched>>

(* Store.async_save; only a record that is read back counts as written.    *)
Write ==
    /\ saving # None /\ ~saving.written
    /\ saving' = [saving EXCEPT !.written = TRUE]
    /\ durable' = saving.new
    /\ orig' = [orig EXCEPT !.edited = @ \/ saving.then = "manual"]
    /\ UNCHANGED <<spaVars, session, lock, intent, attempt, manual, expired, storageFailed,
                   closed, engineVars, left, requests, touched, sawEnd>>

Saved ==
    /\ saving # None /\ saving.written
    /\ saving' = None
    /\ session' = saving.new
    /\ expired' = (expired /\ saving.new # None)
    /\ sawEnd' = (sawEnd /\ saving.new # None)
    /\ IF saving.then = "tick" /\ saving.new # None
       THEN Pursue(saving.new)
       ELSE UNCHANGED <<intent, attempt>>
    /\ IF saving.then = "manual" /\ Permitted /\ up /\ Validates(obs, manual.goal)
       THEN manual' = [manual EXCEPT !.stage = "queued"] /\ lock' = "applying"
       ELSE manual' = None /\ lock' = "free"
    /\ UNCHANGED <<spaVars, storageFailed, closed, engineVars, durable, left, requests,
                   orig, touched>>

ApplyEnds ==       \* async_command returns, or raises at its deadline
    /\ lock = "applying"
    /\ manual' = None /\ lock' = "free"
    /\ UNCHANGED <<spaVars, session, saving, intent, attempt, expired, storageFailed, closed,
                   engineVars, durable, ghostVars>>

-----------------------------------------------------------------------------
(* The engine and the link.                                                *)

CanSend == up /\ Settled

(* What _guard.valid tells the runner once it finds the end passed.        *)
TellRunner(own, late) == expired' = (expired \/ (own /\ late))

(* _guard.valid, asked before every send; it remembers that the end has    *)
(* passed.                                                                 *)
SendIntent ==
    /\ CanSend /\ intent # None /\ intent.stage = "queued"
    /\ LET late == intent.late \/ now >= intent.session.end
           own == session = intent.session
           valid == /\ Writable /\ enabled /\ own /\ intent.current
                    /\ intent.session.phase = "restoring" \/ ~late
           goal == Goal(intent.session)
       IN  /\ TellRunner(own, late)
           /\ sawEnd' = (sawEnd \/ (own /\ late))
           /\ \/ ~valid /\ intent' = [intent EXCEPT !.stage = "cancelled", !.late = late]
                 /\ UNCHANGED flight
              \/ /\ valid /\ Meets(obs, goal)
                 /\ intent' = [intent EXCEPT !.stage = "verified", !.late = late]
                 /\ UNCHANGED flight
              \/ /\ valid /\ ~Meets(obs, goal) /\ Validates(obs, goal)
                 /\ intent' = [intent EXCEPT !.stage = "sent", !.late = late]
                 /\ flight' = [by |-> "session", goal |-> goal, step |-> Step(obs, goal),
                              fate |-> "underway"]
              \/ /\ valid /\ ~Meets(obs, goal) /\ ~obs.hold /\ ~Validates(obs, goal)
                 /\ intent' = [intent EXCEPT !.stage = "failed", !.late = late]
                 /\ UNCHANGED flight
    /\ UNCHANGED <<spaVars, session, saving, lock, attempt, manual, storageFailed, closed,
                   resync, durable, left, requests, orig, touched>>

SendManual ==
    /\ CanSend /\ manual # None /\ manual.stage = "queued"
    /\ manual.goal[1] # "hold" => ~obs.hold
    /\ IF Meets(obs, manual.goal)
       THEN manual' = [manual EXCEPT !.stage = "verified"] /\ UNCHANGED flight
       ELSE IF ~Validates(obs, manual.goal)
       THEN manual' = [manual EXCEPT !.stage = "failed"] /\ UNCHANGED flight
       ELSE /\ manual' = [manual EXCEPT !.stage = "sent"]
            /\ flight' = [by |-> "manual", goal |-> manual.goal,
                         step |-> Step(obs, manual.goal), fate |-> "underway"]
    /\ UNCHANGED <<spaVars, session, saving, lock, intent, attempt, expired, storageFailed, closed,
                   resync, durable, ghostVars>>

(* A user's own edit is from now on what there is to give back, in the     *)
(* range that it lands in.                                                 *)
Arrives(does) ==
    /\ spa' = IF does THEN Apply(spa, flight.goal) ELSE spa
    /\ orig' = IF does /\ flight.by = "manual" /\ orig.edited /\ flight.goal[1] = "target"
               THEN IF spa.high THEN [orig EXCEPT !.spa.hi = spa'.hi] ELSE [orig EXCEPT !.spa.lo = spa'.lo]
               ELSE orig

Land ==
    /\ flight # None /\ flight.fate = "underway"
    /\ flight' = [flight EXCEPT !.fate = "landed"]
    /\ Arrives(TRUE)
    /\ UNCHANGED <<obs, up, now, enabled, runnerVars, resync, durable, left, requests,
                   touched, sawEnd>>

Ended(item, by, stage) ==
    IF flight # None /\ item # None /\ flight.by = by /\ item.stage = "sent"
    THEN [item EXCEPT !.stage = stage] ELSE item

(* A status; it settles the message that it shows the step or the goal of. *)
(* A goal that is not reached yet is planned anew.                         *)
Shown == Meets(spa, flight.step) \/ Meets(spa, flight.goal)
Outcome == IF Meets(spa, flight.goal) THEN "verified" ELSE "queued"

Report ==
    /\ up /\ obs' = spa
    /\ IF flight # None /\ flight.fate # "underway" /\ Shown
       THEN /\ flight' = None
            /\ intent' = Ended(intent, "session", Outcome)
            /\ manual' = Ended(manual, "manual", Outcome)
       ELSE obs # spa /\ UNCHANGED <<flight, intent, manual>>
    /\ UNCHANGED <<spa, up, now, enabled, session, saving, lock, attempt, expired, storageFailed,
                   closed, resync, durable, ghostVars>>

(* The link is left: what was under way has landed or is lost, and the     *)
(* engine trusts nothing before the next synchronization.                  *)
LinkLeft ==
    /\ up' = FALSE
    /\ flight' = None /\ resync' = (resync \/ flight # None)
    /\ \E arrives \in BOOLEAN :
        /\ arrives => (flight # None /\ flight.fate = "underway")
        /\ Arrives(arrives)

AttemptOutlives == UNCHANGED attempt     \* mutant: an attempt of the last connection counts
AttemptIsOfEpoch == attempt' = None

Lost ==
    /\ LinkLeft
    /\ AttemptIsOfEpoch
    /\ intent' = IF intent = None THEN None
                 ELSE [intent EXCEPT !.current = FALSE, !.stage = IF @ = "sent" THEN "queued" ELSE @]
    /\ manual' = Ended(manual, "manual", "queued")
    /\ UNCHANGED <<obs, now, enabled, session, saving, lock, expired, storageFailed, closed,
                   durable, requests, touched, sawEnd>>

Disturbed == left > 0 /\ left' = left - 1

LoseLink == up /\ Disturbed /\ Lost

Timeout ==         \* a message that nothing confirms; the connection starts anew
    /\ flight # None /\ flight.fate # "underway" /\ ~Shown
    /\ Lost /\ UNCHANGED left

LoseMessage ==
    /\ Disturbed /\ flight # None /\ flight.fate = "underway"
    /\ flight' = [flight EXCEPT !.fate = "lost"]
    /\ UNCHANGED <<spaVars, runnerVars, resync, durable, requests, orig, touched, sawEnd>>

Reconnect ==
    /\ ~up
    /\ up' = TRUE /\ obs' = spa /\ resync' = FALSE
    /\ UNCHANGED <<spa, now, enabled, runnerVars, flight, durable, ghostVars>>

(* The engine gives a goal up: its budget of actions is spent, or there is *)
(* no plan for it, for a reason that is left out here.                     *)
GivenUp ==
    /\ Disturbed /\ intent # None /\ intent.stage = "queued"
    /\ intent' = [intent EXCEPT !.stage = "failed"]
    /\ UNCHANGED <<spaVars, session, saving, lock, attempt, manual, expired, storageFailed, closed,
                   engineVars, durable, requests, orig, touched, sawEnd>>

-----------------------------------------------------------------------------
(* The panel, the clock, the options, the disk and the process.            *)

Panel ==
    /\ Disturbed
    /\ \/ \E hi \in HighTargets \ {spa.hi} : spa.high /\ spa' = [spa EXCEPT !.hi = hi]
       \/ spa' = [spa EXCEPT !.high = ~@]
       \/ spa' = [spa EXCEPT !.mode = IF @ = Rest THEN Ready ELSE Rest]
       \/ ~spa.hold /\ spa' = [spa EXCEPT !.hold = TRUE]
    /\ touched' = (touched \/ spa'.hold = spa.hold)
    /\ UNCHANGED <<obs, up, now, enabled, runnerVars, engineVars, durable, requests, orig, sawEnd>>

(* The jets make a spa at rest ready for a while: no setting changes, and  *)
(* nothing takes notice but the next status.                               *)
ModeOnly == UNCHANGED <<obs, up, now, enabled, runnerVars, engineVars, durable, requests, orig,
                        touched, sawEnd>>

Jets ==
    /\ spa.mode = Rest /\ Disturbed
    /\ spa' = [spa EXCEPT !.mode = Transient]
    /\ ModeOnly

TransientEnds ==
    /\ spa.mode = Transient
    /\ spa' = [spa EXCEPT !.mode = Rest]
    /\ UNCHANGED left /\ ModeOnly

Clock ==           \* without a session only differences of time matter: none passes
    /\ session # None \/ saving # None
    /\ \/ now < MaxTime /\ now' = now + 1 /\ UNCHANGED left
       \/ Disturbed /\ now' \in 0..(now - 1)
    /\ UNCHANGED <<spa, obs, up, enabled, runnerVars, engineVars, durable, requests, orig, touched, sawEnd>>

(* async_options_updated: pending commands of users and sessions end.      *)
Disable ==
    /\ enabled /\ Disturbed /\ enabled' = FALSE
    /\ Pause
    /\ manual' = IF manual = None \/ manual.stage = "saving" THEN manual
                 ELSE [manual EXCEPT !.stage = "cancelled"]
    /\ UNCHANGED <<spa, obs, up, now, session, saving, lock, expired, storageFailed, closed,
                   engineVars, durable, requests, orig, touched, sawEnd>>

Enable ==
    /\ ~enabled /\ enabled' = TRUE
    /\ UNCHANGED <<spa, obs, up, now, runnerVars, engineVars, durable, ghostVars>>

SaveFails ==       \* before or after the write; nothing is decided any more
    /\ Disturbed /\ saving # None
    /\ saving' = None /\ lock' = "free" /\ manual' = None
    /\ storageFailed' = TRUE
    /\ UNCHANGED <<spaVars, session, intent, attempt, expired, closed, engineVars, durable,
                   requests, orig, touched, sawEnd>>

Close ==
    /\ ~closed /\ Disturbed /\ closed' = TRUE
    /\ Pause
    /\ manual' = IF manual = None \/ manual.stage = "saving" THEN manual
                 ELSE [manual EXCEPT !.stage = "cancelled"]
    /\ UNCHANGED <<spaVars, session, saving, lock, expired, storageFailed, engineVars, durable,
                   requests, orig, touched, sawEnd>>

(* Home Assistant stops or dies and is started again.                      *)
Restart ==
    /\ IF closed THEN UNCHANGED left ELSE Disturbed
    /\ LinkLeft
    /\ saving' = None /\ lock' = "free" /\ manual' = None /\ Pause
    /\ expired' = FALSE /\ closed' = FALSE /\ sawEnd' = FALSE
    /\ \/ session' = durable /\ storageFailed' = FALSE
       \/ session' = None /\ storageFailed' = TRUE      \* async_load: an invalid record
    /\ UNCHANGED <<obs, now, enabled, durable, requests, touched>>

RunnerStep == Tick \/ Write \/ Saved \/ ApplyEnds
EngineStep == SendIntent \/ SendManual \/ Land \/ Report \/ Timeout \/ Reconnect

BathingNext ==
    \/ RunnerStep \/ EngineStep
    \/ AsyncStart \/ AsyncStartBathing \/ AsyncCancel \/ AsyncAdjust \/ AsyncAbandon
    \/ AsyncManualChange
    \/ LoseLink \/ LoseMessage \/ GivenUp
    \/ Panel \/ Jets \/ TransientEnds \/ Clock \/ Disable \/ Enable \/ SaveFails \/ Close \/ Restart

BathingSpec == BathingInit /\ [][BathingNext]_bathingVars

(* The loop ticks, a save and a command end, the engine runs, time passes, *)
(* and a transient mode is one.                                            *)
FairBathingSpec ==
    /\ BathingSpec
    /\ WF_bathingVars(Tick) /\ WF_bathingVars(Write) /\ WF_bathingVars(Saved)
    /\ WF_bathingVars(ApplyEnds)
    /\ WF_bathingVars(SendIntent) /\ WF_bathingVars(Land) /\ WF_bathingVars(Report)
    /\ WF_bathingVars(Timeout) /\ WF_bathingVars(Reconnect)
    /\ WF_bathingVars(Clock) /\ WF_bathingVars(TransientEnds)

-----------------------------------------------------------------------------
(* The values stay of their types.                                         *)
BathingTypeOK ==
    /\ {spa, obs} \subseteq Spa /\ {up, enabled, resync, expired} \subseteq BOOLEAN
    /\ {storageFailed, closed, touched, sawEnd} \subseteq BOOLEAN
    /\ now \in Times /\ orig \in [spa : Spa, edited : BOOLEAN]
    /\ {session, durable, attempt} \subseteq Session \cup {None}
    /\ saving \in Saving \cup {None} /\ intent \in Intent \cup {None}
    /\ manual \in Manual \cup {None} /\ flight \in Flight \cup {None}
    /\ lock \in {"free", "saving", "applying"}
    /\ saving # None <=> lock = "saving"

(* Whatever an operation makes of a checkpoint can be constructed and read *)
(* back: a refused one would end every later tick and lose the session at  *)
(* the next restart (RangeSession.__post_init__).                          *)
CheckpointsAreConsistent ==
    \A r \in {session, durable} \ {None} : Consistent(r)

(* A goal that is sent is the goal of the record on disk: after a crash    *)
(* the restarted session still knows what it has borrowed (_replace saves  *)
(* before it assigns).                                                     *)
Sends == flight = None /\ flight' # None /\ flight'.by = "session"
SentIsDurable == [][Sends => durable = intent.session]_bathingVars

(* A session that ends by its own restoration has given everything back:   *)
(* range, high target (as found, or as the user has edited it since), low  *)
(* target and heat mode, and nothing is left under way, whatever was lost  *)
(* and however often the process restarted; a plain one leaves its         *)
(* maintenance target.  Somebody else's changes are theirs.  The mode      *)
(* given back is the one that lasts: a transient mode that the session     *)
(* found or that came up meanwhile stands for rest (phase4b_design.md:     *)
(* "use its underlying Rest policy, never replay jets").                   *)
GivenBack(r) ==
    /\ flight = None
    /\ IF r.step = "plain" THEN Target(spa) = r.maintenance
       ELSE /\ spa.high = orig.spa.high /\ spa.lo = orig.spa.lo
            /\ Policy(spa.mode) = Policy(orig.spa.mode)
            /\ orig.edited \/ spa.hi = orig.spa.hi
EndsRestored ==
    [][durable # None /\ durable' = None /\ saving.then = "tick" /\ ~touched
        => GivenBack(durable)]_bathingVars

(* Once the user has edited the high target the session keeps off it: no   *)
(* target of its own is sent any more, also after a restart                *)
(* (release_target; the release is saved before the edit is sent).         *)
EditStands == [][Sends /\ session.step # "plain" /\ orig.edited => flight'.goal[1] # "target"]_bathingVars

(* Once this process has seen the end of a session pass, it asks for no    *)
(* more heating, even if the wall clock is set back (_guard, _expired).    *)
EndIsFinal == [][Sends /\ sawEnd => intent.session.phase = "restoring"]_bathingVars

(* A session ends: its time runs out or somebody cancels it, and it gives  *)
(* back and forgets, unless controls are off, the record cannot be saved,  *)
(* the spa is on hold or was changed by somebody else, or a goal of its    *)
(* own has failed, which only a new connection makes it try again.         *)
Excused ==
    \/ touched \/ ~enabled \/ closed \/ storageFailed \/ obs.hold
    \/ intent # None /\ intent.stage = "failed"
Finishes == session # None ~> (session = None \/ Excused)

(* BathingInv: what is kept in memory and on disk are consistent sessions. *)
BathingInv == BathingTypeOK /\ CheckpointsAreConsistent

(* SendsAreOwed: a goal that is sent is on disk, is not one the user took  *)
(* over, and asks for no heating once the end has passed.                  *)
SendsAreOwed == SentIsDurable /\ EditStands /\ EndIsFinal
=============================================================================
