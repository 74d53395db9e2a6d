--------------------------- MODULE BathingProofs ---------------------------
(***************************************************************************)
(* Sessions, for any targets, times, kinds and numbers of disturbances and *)
(* requests: what is kept can be read back, what is sent is on disk, an    *)
(* edit and an end stand, and a session that ends has given everything     *)
(* back.                                                                   *)
(*                                                                         *)
(* The invariant has three parts: the records (Kept, Mirrored), the goals  *)
(* and users beside them (IntentOK, ManualOK, EditsOK, EndOK), and DebtOK, *)
(* which says what still differs from the spa as the session found it.     *)
(***************************************************************************)
EXTENDS BathingSession, TLAPS

-----------------------------------------------------------------------------
(* What a session may be, and where one is.                                *)

Checkpoint == {r \in Session : Consistent(r)}

(* The session to come while it is being saved; None when nothing is.      *)
Coming == IF saving = None THEN None ELSE saving.new

(* The checkpoints that a tick, a save or a restart may yet act upon.      *)
Live == {durable, Coming} \ {None}

-----------------------------------------------------------------------------
(* Records: what is kept can be constructed; the session is the one on     *)
(* disk unless a save is under way or has failed.                          *)

Kept == {session, durable, Coming} \subseteq Checkpoint \cup {None}

Mirrored ==
    /\ saving = None /\ ~storageFailed => durable = session
    /\ saving # None => /\ ~storageFailed
                        /\ durable = IF saving.written THEN saving.new ELSE session

(* Goals: only a session at rest has one, and it is that session's; a user *)
(* waits under the lock, and beside a session only to edit its target or   *)
(* to end a hold.                                                          *)
IntentOK ==
    intent # None => /\ saving = None /\ ~storageFailed
                     /\ session # None /\ intent.session = session

ManualOK ==
    /\ manual # None => \/ lock = "applying" /\ saving = None
                        \/ saving # None /\ saving.then = "manual" /\ manual.stage = "saving"
    /\ saving # None /\ saving.then = "manual" => manual # None /\ manual.goal[1] = "target"
    /\ lock = "applying" => manual # None
    /\ lock = "applying" /\ Live # {} =>
            manual.goal[1] = "hold" \/ (manual.goal[1] = "target" /\ orig.edited)

-----------------------------------------------------------------------------
(* Edits: a session whose target the user has edited has only its range    *)
(* and mode to give back.                                                  *)

Released(r) == r # None => r.step \in {"restore_range", "restore_mode"}

EditsOK ==
    /\ orig.edited => Released(durable) /\ Released(Coming)
    /\ saving # None /\ saving.then = "manual" =>
            Released(saving.new) /\ (saving.written => orig.edited)

-----------------------------------------------------------------------------
(* The end: once seen it is being saved, or it has been, or the runner     *)
(* remembers it and lets none of the session's goals pass.                 *)

Over(r) == r # None => r.phase = "restoring"

EndOK ==
    ~storageFailed =>
        /\ session = None => ~expired /\ ~sawEnd
        /\ expired => sawEnd
        /\ sawEnd => \/ saving = None /\ (expired \/ Over(session))
                     \/ saving # None /\ Over(saving.new)
        /\ expired /\ ~Over(session) /\ intent # None => intent.late

-----------------------------------------------------------------------------
(* What is to be given back.                                               *)

Carries(f, control) == f # None /\ f.fate = "underway" /\ f.goal[1] = control

SameBut(s, t) ==
    /\ \A v \in {"high", "hi", "lo"} : s[v] = t[v]
    /\ Policy(s.mode) = Policy(t.mode)
Seen == flight = None /\ ~resync => SameBut(obs, spa)

(* The target is the session's to give back only while it owns it.         *)
OwnsTarget(r) ==
    r.ownsTarget /\ r.step \notin {"activate_high", "restore_range", "restore_mode"}

Owing(r, edited, s, o, f) ==
    r.step # "plain" =>
        /\ r.range = o.high /\ r.mode = Policy(o.mode) /\ s.lo = o.lo
        /\ edited \/ r.high \in {None, o.hi}
        /\ r.ownsMode \/ (Policy(s.mode) = Policy(o.mode) /\ ~Carries(f, "heat_mode"))
        /\ edited \/ OwnsTarget(r) \/ (s.hi = o.hi /\ ~Carries(f, "target"))
        /\ r.step = "restore_mode" => s.high = r.range /\ ~Carries(f, "high_range")
        /\ Carries(f, "target") /\ f.by = "session" => s.high

Owed(r, edited) == Owing(r, edited, spa, orig.spa, flight)

(* A session's goal for the target is only pursued in the high range.      *)
FitsOK ==
    intent # None /\ intent.current /\ ~touched
        /\ intent.session.step \in {"set_target", "active", "restore_high"}
    => spa.high /\ ~Carries(flight, "high_range")

Ends == saving # None /\ ~saving.written /\ saving.then = "tick" /\ saving.new = None

(* A user's goal under way beside a session is an edit or ends a hold.     *)
ManualFlight ==
    flight # None /\ flight.by = "manual" =>
        flight.goal[1] = "hold" \/ (flight.goal[1] = "target" /\ orig.edited)

DebtOK ==
    ~touched /\ Live # {} =>
        /\ Seen
        /\ ManualFlight
        /\ durable # None => Owed(durable, orig.edited)
        /\ Coming # None => Owed(Coming, orig.edited \/ saving.then = "manual")
        /\ Ends => GivenBack(durable)

-----------------------------------------------------------------------------
(* The spa and the operators on sessions.                                  *)

(* The greater of two integers.                                            *)
LEMMA MaxOfTwo ==
    ASSUME NEW a \in Int, NEW b \in Int
    PROVE  Max({a, b}) \in {a, b} /\ Max({a, b}) >= a /\ Max({a, b}) >= b
<1>1. \E x \in {a, b} : \A y \in {a, b} : x >= y
  <2>1. CASE a >= b
    BY <2>1
  <2>2. CASE b >= a
    BY <2>2
  <2>3. QED
    BY <2>1, <2>2
<1>2. Max({a, b}) \in {a, b} /\ \A y \in {a, b} : Max({a, b}) >= y
  BY <1>1 DEF Max
<1>3. QED
  BY <1>2

(* The target of a spa is the one of its range.                            *)
LEMMA TargetTyped ==
    ASSUME NEW s \in Spa
    PROVE  /\ Target(s) \in LowTargets \cup HighTargets
           /\ Target(s) = IF s.high THEN s.hi ELSE s.lo
  BY DEF Target, Spa

(* What a mode returns to is ready exactly when the mode is ready itself.  *)
LEMMA PolicyOK ==
    ASSUME NEW mode \in {Ready, Rest, Transient}
    PROVE  /\ Policy(mode) \in {Ready, Rest}
           /\ Policy(mode) = Ready <=> mode = Ready
           /\ mode = Rest => Policy(mode) = Rest
  BY DEF Policy, Ready, Rest, Transient

(* Spas whose lasting states are equal differ in a transient mode at most. *)
LEMMA LastingOK ==
    ASSUME NEW s \in Spa, NEW t \in Spa, Lasting(s) = Lasting(t)
    PROVE  SameBut(s, t)
<1>1. ASSUME NEW u \in Spa
      PROVE  /\ Lasting(u).high = u.high /\ Lasting(u).hi = u.hi /\ Lasting(u).lo = u.lo
             /\ Lasting(u).mode = Policy(u.mode)
  BY DEF Lasting, Spa
<1>2. QED
  BY <1>1 DEF SameBut

(* The toggle that is sent for a goal is to do something that is a goal.   *)
LEMMA StepTyped ==
    ASSUME NEW s \in Spa, NEW g \in Goals
    PROVE  Step(s, g) \in Goals
  BY DEF Step, Goals

(* A target goal changes the target of the range that is selected, every   *)
(* other goal its own control.                                             *)
LEMMA ApplyOK ==
    ASSUME NEW s \in Spa, NEW g \in Goals
    PROVE  /\ Apply(s, g) \in Spa
           /\ g[1] # "high_range" => Apply(s, g).high = s.high
           /\ g[1] # "heat_mode" => Apply(s, g).mode = s.mode
           /\ g[1] # "target" => Apply(s, g).hi = s.hi /\ Apply(s, g).lo = s.lo
           /\ s.high => Apply(s, g).lo = s.lo
<1> DEFINE t == Apply(s, g)
<1>0. s = [high |-> s.high, hi |-> s.hi, lo |-> s.lo, mode |-> s.mode, hold |-> s.hold]
  BY DEF Spa
<1>1. CASE g[1] = "high_range"
  <2>1. t = [s EXCEPT !.high = ~s.high]
    BY <1>1 DEF Apply
  <2> HIDE DEF t
  <2>2. t \in Spa /\ t.mode = s.mode /\ t.hi = s.hi /\ t.lo = s.lo
    BY <2>1 DEF Spa
  <2>3. QED
    BY <1>1, <2>2 DEF t
<1>2. CASE g[1] = "target"
  <2>1. t = s \/ (g[2] \in Limits(s) /\ t = IF s.high THEN [s EXCEPT !.hi = g[2]]
                                             ELSE [s EXCEPT !.lo = g[2]])
    BY <1>2 DEF Apply
  <2> HIDE DEF t
  <2>2. t \in Spa /\ t.high = s.high /\ t.mode = s.mode /\ (s.high => t.lo = s.lo)
    BY <2>1 DEF Spa, Limits
  <2>3. QED
    BY <1>2, <2>2 DEF t
<1>3. CASE g[1] = "heat_mode"
  <2>1. t = [s EXCEPT !.mode = IF s.mode = Rest THEN Ready ELSE Rest]
    BY <1>3 DEF Apply
  <2> HIDE DEF t
  <2>2. t \in Spa /\ t.high = s.high /\ t.hi = s.hi /\ t.lo = s.lo
    BY <2>1 DEF Spa
  <2>3. QED
    BY <1>3, <2>2 DEF t
<1>4. CASE g[1] = "hold"
  <2>1. t = [s EXCEPT !.hold = ~s.hold]
    BY <1>4 DEF Apply
  <2> HIDE DEF t
  <2>2. t \in Spa /\ t.high = s.high /\ t.mode = s.mode /\ t.hi = s.hi /\ t.lo = s.lo
    BY <2>1 DEF Spa
  <2>3. QED
    BY <1>4, <2>2 DEF t
<1>5. g[1] \in {"high_range", "target", "heat_mode", "hold"}
  BY DEF Goals
<1>6. QED
  BY <1>1, <1>2, <1>3, <1>4, <1>5

(* Targets and times are numbers, and the bounds are among them.           *)
LEMMA NumbersOK ==
    /\ LowTargets \cup HighTargets \subseteq Int /\ Minimum \in HighTargets
    /\ Times \subseteq Int /\ MaxTime \in Times /\ 0 \in Times
  BY Targets DEF Times

(* A session heats to its own high target, if it has one, else to its      *)
(* minimum.                                                                *)
LEMMA BathingTargetOK ==
    ASSUME NEW r \in Session
    PROVE  /\ r.high = None => BathingTarget(r) = r.minimum
           /\ r.high # None => /\ BathingTarget(r) \in {r.minimum, r.high}
                               /\ r.high >= r.minimum => BathingTarget(r) = r.high
           /\ BathingTarget(r) \in LowTargets \cup HighTargets
<1>1. CASE r.high = None
  BY <1>1 DEF BathingTarget, Session
<1>2. CASE r.high # None
  <2>1. r.high \in Int /\ r.minimum \in Int /\ r.high \in HighTargets
        /\ r.minimum \in LowTargets \cup HighTargets
    BY <1>2, NumbersOK DEF Session
  <2>2. BathingTarget(r) = Max({r.minimum, r.high})
    BY <1>2 DEF BathingTarget
  <2>3. BathingTarget(r) \in {r.minimum, r.high} /\ BathingTarget(r) >= r.minimum
        /\ BathingTarget(r) >= r.high
    BY <2>1, <2>2, MaxOfTwo
  <2>4. QED
    BY <1>2, <2>1, <2>3
<1>3. QED
  BY <1>1, <1>2

(* What a checkpoint asks for is a goal.                                   *)
LEMMA GoalTyped ==
    ASSUME NEW r \in Checkpoint
    PROVE  Goal(r) \in Goals
<1>1. r \in Session /\ Consistent(r) /\ BathingTarget(r) \in LowTargets \cup HighTargets
  BY BathingTargetOK DEF Checkpoint
<1>2. r.step = "restore_high" => r.high \in HighTargets
  BY <1>1 DEF Session, Consistent
<1>3. QED
  BY <1>1, <1>2 DEF Session, Goal, Goals

SameStay(c, r) == /\ c.start = r.start /\ c.end = r.end /\ c.minimum = r.minimum
                  /\ c.range = r.range /\ c.mode = r.mode /\ c.high = r.high

(* Giving back: a session that is cancelled restores, and owns what it did.*)
LEMMA CancelOK ==
    ASSUME NEW r \in Checkpoint
    PROVE  /\ Cancel(r) \in Checkpoint /\ Cancel(r).phase = "restoring"
           /\ Released(r) => Cancel(r) = r
           /\ \A e \in BOOLEAN : Owed(r, e) => Owed(Cancel(r), e)
<1> DEFINE c == Cancel(r)
<1>1. r \in Session /\ Consistent(r)
  BY DEF Checkpoint
<1>2. CASE r.step = "plain"
  <2>1. c = [r EXCEPT !.phase = "restoring"]
    BY <1>2 DEF Cancel
  <2> HIDE DEF c
  <2>2. c \in Session /\ c.phase = "restoring" /\ c.step = "plain" /\ c.start = r.start /\ c.end = r.end
    BY <1>1, <1>2, <2>1 DEF Session
  <2>3. Consistent(c)
    BY <1>1, <2>2 DEF Consistent
  <2>4. r # None => ~(r.step \in {"restore_range", "restore_mode"})
    BY <1>2
  <2>5. r # None
    BY <1>1, NoneIsNoRecord
  <2>6. QED
    BY <2>2, <2>3, <2>4, <2>5 DEF c, Checkpoint, Released, Owed, Owing
<1>3. CASE r.step # "plain" /\ r.phase = "restoring"
  BY <1>3 DEF Cancel
<1>4. CASE r.step # "plain" /\ r.phase # "restoring"
  <2>1. c = [r EXCEPT !.phase = "restoring",
                      !.step = IF r.ownsTarget THEN "restore_high" ELSE "restore_range"]
    BY <1>4 DEF Cancel
  <2> HIDE DEF c
  <2>2. /\ c \in Session /\ c.phase = "restoring" /\ SameStay(c, r)
        /\ c.step = (IF r.ownsTarget THEN "restore_high" ELSE "restore_range")
        /\ c.ownsTarget = r.ownsTarget /\ c.ownsMode = r.ownsMode
    BY <1>1, <2>1 DEF Session, SameStay
  <2>3. Consistent(c)
    BY <1>1, <1>4, <2>2 DEF Consistent, Restorations, Working, SameStay
  <2>4. ~Released(r)
    BY <1>1, <1>4, NoneIsNoRecord DEF Released, Consistent, Restorations
  <2>5. ASSUME NEW e \in BOOLEAN, Owed(r, e)
        PROVE  Owed(c, e)
    <3>1. OwnsTarget(r) => OwnsTarget(c)
      BY <2>2 DEF OwnsTarget
    <3>2. r.step # "plain" /\ c.step # "restore_mode"
      BY <1>4, <2>2
    <3>3. QED
      BY <2>2, <2>5, <3>1, <3>2 DEF Owed, Owing, SameStay
  <2>6. QED
    BY <2>2, <2>3, <2>4, <2>5 DEF c, Checkpoint
<1>5. QED
  BY <1>2, <1>3, <1>4

(* A moved end keeps a checkpoint, what it owes and its phase.             *)
LEMMA AdjustOK ==
    ASSUME NEW r \in Checkpoint, NEW t \in Times, NEW seconds \in Int,
           r.end + seconds <= MaxTime
    PROVE  /\ Adjust(r, t, seconds) \in Checkpoint
           /\ r.phase # "restoring" => ~Released(r)
           /\ \A e \in BOOLEAN : Owed(r, e) => Owed(Adjust(r, t, seconds), e)
<1> DEFINE end == Max({r.start, r.end + seconds})
           u == [r EXCEPT !.end = end]
<1>1. r \in Session /\ Consistent(r) /\ r.start \in Int /\ r.end \in Int
  BY NumbersOK DEF Checkpoint, Session
<1>0. r.end + seconds \in Int
  BY <1>1
<1>2. end \in {r.start, r.end + seconds} /\ end >= r.start
  BY <1>0, <1>1, MaxOfTwo
<1>3. end \in Times /\ r.start <= end /\ 0 <= r.start
  BY <1>1, <1>2, Targets DEF Times, Session
<1>4. Adjust(r, t, seconds) = IF end <= t THEN Cancel(u) ELSE u
  BY DEF Adjust
<1> HIDE DEF end
<1>5. /\ u \in Session /\ u.start = r.start /\ u.end = end /\ u.minimum = r.minimum
      /\ u.range = r.range /\ u.mode = r.mode /\ u.high = r.high /\ u.step = r.step
      /\ u.phase = r.phase /\ u.ownsTarget = r.ownsTarget /\ u.ownsMode = r.ownsMode
  BY <1>1, <1>3 DEF Session
<1> HIDE DEF u
<1>6. Consistent(u)
  BY <1>1, <1>3, <1>5 DEF Consistent
<1>7. ASSUME NEW e \in BOOLEAN, Owed(r, e)
      PROVE  Owed(u, e)
  BY <1>5, <1>7 DEF Owed, Owing, OwnsTarget
<1>8. r.phase # "restoring" => ~Released(r)
  BY <1>1, NoneIsNoRecord DEF Released, Consistent, Restorations
<1>9. u \in Checkpoint
  BY <1>5, <1>6 DEF Checkpoint
<1>10. QED
  BY <1>4, <1>7, <1>8, <1>9, CancelOK

(* Giving a target back starts the restoring, and owes no less.            *)
LEMMA ReleaseTargetOK ==
    ASSUME NEW r \in Checkpoint, r.step # "plain"
    PROVE  /\ ReleaseTarget(r) \in Checkpoint /\ ReleaseTarget(r).phase = "restoring"
           /\ Released(ReleaseTarget(r))
           /\ \A e \in BOOLEAN : Owed(r, e) => Owed(ReleaseTarget(r), TRUE)
<1> DEFINE c == ReleaseTarget(r)
<1>1. r \in Session /\ Consistent(r)
  BY DEF Checkpoint
<1>2. c = [r EXCEPT !.ownsTarget = FALSE, !.phase = "restoring", !.step = "restore_range"]
  BY DEF ReleaseTarget
<1> HIDE DEF c
<1>3. /\ c \in Session /\ c.phase = "restoring" /\ SameStay(c, r) /\ c.step = "restore_range"
      /\ c.ownsTarget = FALSE /\ c.ownsMode = r.ownsMode
  BY <1>1, <1>2 DEF Session, SameStay
<1>4. Consistent(c)
  BY <1>1, <1>3 DEF Consistent, Restorations, Working, SameStay
<1>5. ASSUME NEW e \in BOOLEAN, Owed(r, e)
      PROVE  Owed(c, TRUE)
  BY <1>3, <1>5 DEF Owed, Owing, SameStay
<1>6. QED
  BY <1>3, <1>4, <1>5 DEF c, Checkpoint, Released

(* A plain session is a checkpoint.                                        *)
LEMMA StartPlainOK ==
    ASSUME NEW t \in Times, NEW end \in Times, t <= end,
           NEW target \in LowTargets \cup HighTargets,
           NEW maintenance \in LowTargets \cup HighTargets
    PROVE  /\ StartPlain(t, end, target, maintenance) \in Checkpoint
           /\ StartPlain(t, end, target, maintenance).step = "plain"
<1> DEFINE c == StartPlain(t, end, target, maintenance)
<1>1. c \in Session /\ c.step = "plain" /\ c.start = t /\ c.end = end
  BY DEF StartPlain, Session
<1> HIDE DEF c
<1>2. 0 <= t /\ t <= end
  BY Targets DEF Times
<1>3. QED
  BY <1>1, <1>2 DEF Checkpoint, Consistent, c

(* A bathing session that is started knows the spa as it is.               *)
LEMMA StartBathingOK ==
    ASSUME NEW t \in Times, NEW end \in Times, t <= end, NEW s \in Spa
    PROVE  /\ StartBathing(t, end, s) \in Checkpoint
           /\ StartBathing(t, end, s).range = s.high /\ StartBathing(t, end, s).mode = Policy(s.mode)
           /\ StartBathing(t, end, s).high \in {None, s.hi}
           /\ StartBathing(t, end, s).step # "restore_mode"
<1> DEFINE c == StartBathing(t, end, s)
           high == IF s.high THEN s.hi ELSE None
           owns == s.high /\ s.hi < Minimum
<1>0. s.hi \in HighTargets /\ s.high \in BOOLEAN /\ Policy(s.mode) \in {Ready, Rest}
     /\ s.hi \in Int /\ Minimum \in Int
  BY NumbersOK, PolicyOK DEF Spa
<1>1. /\ c \in Session
      /\ c.start = t /\ c.end = end /\ c.minimum = Minimum /\ c.range = s.high
      /\ c.mode = Policy(s.mode)
      /\ c.high = high /\ c.phase = "preheating" /\ c.ownsTarget = owns /\ c.ownsMode = FALSE
      /\ c.step = (IF s.high THEN "set_target" ELSE "activate_high")
  BY <1>0, TargetTyped, NumbersOK DEF StartBathing, OriginalMode, Session
<1> HIDE DEF c
<1>2. 0 <= t /\ t <= end
  BY Targets DEF Times
<1>3. Consistent(c)
  <2>1. CASE s.high
    <3>1. c.high = s.hi /\ c.high # None /\ c.step = "set_target" /\ (c.ownsTarget <=> c.high < c.minimum)
      BY <1>0, <1>1, <2>1, NoneIsNoRecord
    <3>2. QED
      BY <1>1, <1>2, <3>1 DEF Consistent, Restorations, Working
  <2>2. CASE ~s.high
    <3>1. c.step = "activate_high" /\ c.range = FALSE /\ c.ownsTarget = FALSE
      BY <1>0, <1>1, <2>2
    <3>2. QED
      BY <1>1, <1>2, <3>1 DEF Consistent, Restorations, Working
  <2>3. QED
    BY <1>0, <2>1, <2>2
<1>4. QED
  BY <1>0, <1>1, <1>3 DEF Checkpoint, c

(* The target reached is a change of phase alone.                          *)
LEMMA HeatedOK ==
    ASSUME NEW r \in Checkpoint, r.step \in {"plain", "active"}, r.phase # "restoring"
    PROVE  /\ Heated(r) \in Checkpoint
           /\ \A e \in BOOLEAN : Owed(r, e) => Owed(Heated(r), e)
<1> DEFINE c == Heated(r)
<1>1. r \in Session /\ Consistent(r)
  BY DEF Checkpoint
<1>2. c = [r EXCEPT !.phase = IF r.phase = "preheating" THEN "target_reached" ELSE "holding"]
  BY DEF Heated
<1> HIDE DEF c
<1>3. /\ c \in Session /\ SameStay(c, r) /\ c.step = r.step /\ c.phase # "restoring"
      /\ c.ownsTarget = r.ownsTarget /\ c.ownsMode = r.ownsMode
  BY <1>1, <1>2 DEF Session, SameStay
<1>4. Consistent(c)
  BY <1>1, <1>3 DEF Consistent, Restorations, Working, SameStay
<1>5. ASSUME NEW e \in BOOLEAN, Owed(r, e)
      PROVE  Owed(c, e)
  BY <1>3, <1>5 DEF Owed, Owing, SameStay, OwnsTarget
<1>6. QED
  BY <1>3, <1>4, <1>5 DEF c, Checkpoint

-----------------------------------------------------------------------------
(* The next checkpoint.                                                    *)

Arrived(r) == Pursuable(r, obs) /\ Meets(obs, Goal(r))

(* What is observed once nothing of the session is under way is the spa,   *)
(* as far as a session changes it.                                         *)
Clear == flight = None /\ ~resync /\ Seen

(* The high range is there: the session has its target left to set.        *)
LEMMA AdvanceActivated ==
    ASSUME obs \in Spa, NEW r \in Checkpoint, r.step = "activate_high", NEW hot, Arrived(r)
    PROVE  /\ Advance(r, obs, hot) \in Checkpoint
           /\ \A e \in BOOLEAN : Clear /\ Owed(r, e) => Owed(Advance(r, obs, hot), e)
<1> DEFINE c == Advance(r, obs, hot)
           owns == obs.hi < r.minimum
<1>1. r \in Session /\ Consistent(r) /\ obs.hi \in HighTargets /\ r.phase = "preheating" /\ ~r.ownsMode
  BY DEF Checkpoint, Spa, Consistent
<1>2. c = [r EXCEPT !.high = obs.hi, !.ownsTarget = owns, !.step = "set_target"]
  BY DEF Advance
<1> HIDE DEF c
<1>3. owns \in BOOLEAN
  BY DEF owns
<1>4. /\ c \in Session /\ c.start = r.start /\ c.end = r.end /\ c.minimum = r.minimum
      /\ c.range = r.range /\ c.mode = r.mode /\ c.high = obs.hi /\ c.step = "set_target"
      /\ c.phase = r.phase /\ c.ownsTarget = owns /\ c.ownsMode = r.ownsMode
  BY <1>1, <1>2, <1>3 DEF Session
<1>5. Consistent(c)
  BY <1>1, <1>4, NoneIsNoRecord DEF Consistent, Restorations, Working
<1>6. ASSUME NEW e \in BOOLEAN, Clear, Owed(r, e)
      PROVE  Owed(c, e)
  <2>1. e \/ (spa.hi = orig.spa.hi /\ obs.hi = spa.hi)
    <3>1. ~OwnsTarget(r)
      BY <1>1, NoneIsNoRecord DEF OwnsTarget, Consistent, Session
    <3>2. QED
      BY <1>6, <3>1 DEF Owed, Owing, Clear, Seen, SameBut
  <2>2. e \/ OwnsTarget(c) \/ (spa.hi = orig.spa.hi /\ ~Carries(flight, "target"))
    BY <1>6, <2>1 DEF Clear, Carries
  <2>3. QED
    BY <1>4, <1>6, <2>1, <2>2 DEF Owed, Owing
<1>7. QED
  BY <1>4, <1>5, <1>6 DEF c, Checkpoint

(* The target is there: the session has its mode left to set.              *)
LEMMA AdvanceTarget ==
    ASSUME obs \in Spa, NEW r \in Checkpoint, r.step = "set_target", NEW hot, Arrived(r)
    PROVE  /\ Advance(r, obs, hot) \in Checkpoint
           /\ \A e \in BOOLEAN : Clear /\ Owed(r, e) => Owed(Advance(r, obs, hot), e)
<1> DEFINE c == Advance(r, obs, hot)
           owns == r.mode # Ready
<1>1. r \in Session /\ Consistent(r) /\ r.phase = "preheating" /\ ~r.ownsMode
  BY DEF Checkpoint, Consistent
<1>2. c = [r EXCEPT !.ownsMode = owns, !.step = "set_mode"]
  BY DEF Advance
<1> HIDE DEF c
<1>3. owns \in BOOLEAN /\ (owns <=> r.mode = Rest)
  BY <1>1 DEF owns, Session, Ready, Rest
<1> HIDE DEF owns
<1>4. /\ c \in Session /\ SameStay(c, r) /\ c.step = "set_mode"
      /\ c.phase = r.phase /\ c.ownsTarget = r.ownsTarget /\ c.ownsMode = owns
  BY <1>1, <1>2, <1>3 DEF Session, SameStay
<1>5. Consistent(c)
  BY <1>1, <1>3, <1>4 DEF Consistent, Restorations, Working, SameStay
<1>6. ASSUME NEW e \in BOOLEAN, Clear, Owed(r, e)
      PROVE  Owed(c, e)
  BY <1>1, <1>4, <1>6 DEF Owed, Owing, SameStay, OwnsTarget
<1>7. QED
  BY <1>4, <1>5, <1>6 DEF c, Checkpoint

(* The mode is there: the session is active.                               *)
LEMMA AdvanceMode ==
    ASSUME NEW r \in Checkpoint, r.step = "set_mode", NEW hot
    PROVE  /\ Advance(r, obs, hot) \in Checkpoint
           /\ \A e \in BOOLEAN : Owed(r, e) => Owed(Advance(r, obs, hot), e)
<1> DEFINE c == Advance(r, obs, hot)
<1>1. r \in Session /\ Consistent(r) /\ r.phase = "preheating"
  BY DEF Checkpoint, Consistent
<1>2. c = [r EXCEPT !.step = "active"]
  BY DEF Advance
<1> HIDE DEF c
<1>4. /\ c \in Session /\ SameStay(c, r) /\ c.step = "active"
      /\ c.phase = r.phase /\ c.ownsTarget = r.ownsTarget /\ c.ownsMode = r.ownsMode
  BY <1>1, <1>2 DEF Session, SameStay
<1>5. Consistent(c)
  BY <1>1, <1>4 DEF Consistent, Restorations, Working, SameStay
<1>6. ASSUME NEW e \in BOOLEAN, Owed(r, e)
      PROVE  Owed(c, e)
  BY <1>1, <1>4, <1>6 DEF Owed, Owing, SameStay, OwnsTarget
<1>7. QED
  BY <1>4, <1>5, <1>6 DEF c, Checkpoint

(* The high target is as found when its restoration is observed.           *)
LEMMA AdvanceHigh ==
    ASSUME obs \in Spa, NEW r \in Checkpoint, r.step = "restore_high", NEW hot, Arrived(r)
    PROVE  /\ Advance(r, obs, hot) \in Checkpoint
           /\ \A e \in BOOLEAN : Clear /\ Owed(r, e) => Owed(Advance(r, obs, hot), e)
<1> DEFINE c == Advance(r, obs, hot)
<1>1. r \in Session /\ Consistent(r) /\ r.phase = "restoring" /\ r.high # None
  BY DEF Checkpoint, Consistent, Restorations
<1>2. c = [r EXCEPT !.step = "restore_range"]
  BY DEF Advance
<1> HIDE DEF c
<1>4. /\ c \in Session /\ SameStay(c, r) /\ c.step = "restore_range"
      /\ c.phase = r.phase /\ c.ownsTarget = r.ownsTarget /\ c.ownsMode = r.ownsMode
  BY <1>1, <1>2 DEF Session, SameStay
<1>5. Consistent(c)
  BY <1>1, <1>4 DEF Consistent, Restorations, Working, SameStay
<1>6. obs.hi = r.high
  <2>1. obs.high /\ Target(obs) = obs.hi
    BY TargetTyped DEF Arrived, Pursuable, Conflict
  <2>2. Target(obs) = r.high
    BY DEF Arrived, Meets, Goal, Value
  <2>3. QED
    BY <2>1, <2>2
<1>7. ASSUME NEW e \in BOOLEAN, Clear, Owed(r, e)
      PROVE  Owed(c, e)
  <2>1. e \/ (spa.hi = orig.spa.hi /\ ~Carries(flight, "target"))
    BY <1>1, <1>6, <1>7 DEF Owed, Owing, Clear, Seen, SameBut, Carries
  <2>2. QED
    BY <1>1, <1>4, <1>7, <2>1 DEF Owed, Owing, SameStay, OwnsTarget
<1>8. QED
  BY <1>4, <1>5, <1>7 DEF c, Checkpoint

(* The range is back: the mode is owed next, or nothing.                   *)
LEMMA AdvanceRange ==
    ASSUME obs \in Spa, NEW r \in Checkpoint, r.step = "restore_range", NEW hot, Arrived(r)
    PROVE  /\ Advance(r, obs, hot) \in Checkpoint \cup {None}
           /\ Released(Advance(r, obs, hot))
           /\ r.ownsMode => Advance(r, obs, hot) # None
           /\ Advance(r, obs, hot) # None => /\ Advance(r, obs, hot).phase = "restoring"
              /\ \A e \in BOOLEAN : Clear /\ Owed(r, e) => Owed(Advance(r, obs, hot), e)
           /\ Advance(r, obs, hot) = None => (Clear /\ Owed(r, orig.edited) => GivenBack(r))
<1> DEFINE c == Advance(r, obs, hot)
<1>1. r \in Session /\ Consistent(r) /\ r.phase = "restoring"
  BY DEF Checkpoint, Consistent, Restorations
<1>2. c = IF r.ownsMode THEN [r EXCEPT !.step = "restore_mode"] ELSE None
  BY DEF Advance
<1>3. obs.high = r.range
  BY DEF Arrived, Meets, Goal, Value
<1> HIDE DEF c
<1>4. CASE r.ownsMode
  <2>1. /\ c \in Session /\ SameStay(c, r) /\ c.step = "restore_mode"
        /\ c.phase = r.phase /\ c.ownsTarget = r.ownsTarget /\ c.ownsMode = r.ownsMode
    BY <1>1, <1>2, <1>4 DEF Session, SameStay
  <2>2. Consistent(c)
    BY <1>1, <1>4, <2>1 DEF Consistent, Restorations, Working, SameStay
  <2>3. ASSUME NEW e \in BOOLEAN, Clear, Owed(r, e)
        PROVE  Owed(c, e)
    <3>1. spa.high = c.range /\ ~Carries(flight, "high_range")
      BY <1>3, <2>1, <2>3 DEF Clear, Seen, SameBut, Carries, SameStay
    <3>2. QED
      BY <1>1, <2>1, <2>3, <3>1 DEF Owed, Owing, SameStay, OwnsTarget
  <2>4. c # None
    BY <2>1, NoneIsNoRecord
  <2>5. QED
    BY <1>1, <2>1, <2>2, <2>3, <2>4 DEF c, Checkpoint, Released
<1>5. CASE ~r.ownsMode
  <2>1. c = None
    BY <1>2, <1>5
  <2>2. ASSUME Clear, Owed(r, orig.edited)
        PROVE  GivenBack(r)
    BY <1>3, <1>5, <2>2 DEF Owed, Owing, Clear, Seen, SameBut, GivenBack, OwnsTarget
  <2>3. QED
    BY <1>5, <2>1, <2>2 DEF c, Released
<1>6. QED
  BY <1>1, <1>4, <1>5 DEF Session

(* The mode is back: everything is.                                        *)
LEMMA AdvanceRestored ==
    ASSUME obs \in Spa, NEW r \in Checkpoint, r.step = "restore_mode", Arrived(r),
           Clear, Owed(r, orig.edited)
    PROVE  GivenBack(r)
<1>1. obs.mode = r.mode /\ r.mode \in {Ready, Rest}
  BY DEF Arrived, Meets, Goal, Value, Checkpoint, Session
<1>2. Policy(obs.mode) = r.mode
  BY <1>1, PolicyOK
<1>3. QED
  BY <1>2 DEF Owed, Owing, Clear, Seen, SameBut, GivenBack, OwnsTarget

(* A step that arrived leads to the next one owed, or to the end with      *)
(* nothing owed.                                                           *)
LEMMA AdvanceOK ==
    ASSUME obs \in Spa, NEW r \in Checkpoint, NEW hot \in BOOLEAN, Arrived(r)
    PROVE  /\ Advance(r, obs, hot) \in Checkpoint \cup {None}
           /\ Released(r) => Released(Advance(r, obs, hot))
           /\ Over(r) => Over(Advance(r, obs, hot))
           /\ Advance(r, obs, hot) # None =>
                 \A e \in BOOLEAN : Clear /\ Owed(r, e) => Owed(Advance(r, obs, hot), e)
           /\ Advance(r, obs, hot) = None => (Clear /\ Owed(r, orig.edited) => GivenBack(r))
<1> DEFINE c == Advance(r, obs, hot)
<1>1. r \in Session /\ Consistent(r) /\ r # None
  BY NoneIsNoRecord DEF Checkpoint
<1>2. None \notin Checkpoint
  BY NoneIsNoRecord DEF Checkpoint
<1>3. CASE r.step \in {"activate_high", "set_target", "set_mode"}
  <2>1. r.phase = "preheating" /\ ~Released(r) /\ ~Over(r)
    BY <1>1, <1>3 DEF Consistent, Released, Over
  <2>2. QED
    BY <1>2, <1>3, <2>1, AdvanceActivated, AdvanceTarget, AdvanceMode
<1>4. CASE r.step = "restore_high"
  <2>1. c.phase = "restoring" /\ ~Released(r)
    <3>1. c = [r EXCEPT !.step = "restore_range"] /\ r.phase = "restoring"
      BY <1>1, <1>4 DEF Advance, Consistent, Restorations
    <3>2. QED
      BY <1>1, <1>4, <3>1 DEF Session, Released
  <2>2. QED
    BY <1>2, <1>4, <2>1, AdvanceHigh DEF Over
<1>5. CASE r.step = "restore_range"
  BY <1>2, <1>5, AdvanceRange DEF Over
<1>6. CASE r.step = "restore_mode"
  <2>1. c = None
    BY <1>6 DEF Advance
  <2>2. QED
    BY <1>6, <2>1, AdvanceRestored DEF Over, Released
<1>7. CASE r.step = "active"
  <2>1. c \in {r, Heated(r)} /\ r.phase # "restoring"
    BY <1>1, <1>7 DEF Advance, Consistent, Restorations
  <2>2. QED
    BY <1>1, <1>2, <1>7, <2>1, HeatedOK DEF Over, Released
<1>8. CASE r.step = "plain"
  <2>1. \/ c \in {r, Heated(r)} /\ r.phase # "restoring"
        \/ c = None /\ r.phase = "restoring"
    BY <1>1, <1>8 DEF Advance
  <2>2. ASSUME Clear, c = None
        PROVE  GivenBack(r)
    <3>0. Goal(r) = <<"target", r.maintenance>>
      BY <1>1, <1>2, <1>8, <2>1, <2>2, HeatedOK DEF Goal
    <3>1. Target(obs) = r.maintenance
      BY <3>0 DEF Arrived, Meets, Value
    <3>2. Target(spa) = Target(obs)
      BY <2>2 DEF Target, Clear, Seen, SameBut
    <3>3. QED
      BY <1>8, <2>2, <3>1, <3>2 DEF GivenBack, Clear
  <2>3. QED
    BY <1>1, <1>2, <1>8, <2>1, <2>2, HeatedOK DEF Over, Released
<1>9. QED
  BY <1>1, <1>3, <1>4, <1>5, <1>6, <1>7, <1>8 DEF Session

(* reconcile never drops a debt that the spa was not seen to have been     *)
(* paid.                                                                   *)
LEMMA ReconciledOK ==
    ASSUME obs \in Spa, NEW r \in Checkpoint, NEW t, NEW known \in BOOLEAN, NEW hot \in BOOLEAN
    PROVE  /\ Reconciled(r, t, obs, known, hot) \in Checkpoint \cup {None}
           /\ Released(r) => Released(Reconciled(r, t, obs, known, hot))
           /\ Over(r) \/ t >= r.end => Over(Reconciled(r, t, obs, known, hot))
           /\ (known => Clear) =>
                 /\ Reconciled(r, t, obs, known, hot) # None =>
                       \A e \in BOOLEAN : Owed(r, e) => Owed(Reconciled(r, t, obs, known, hot), e)
                 /\ Reconciled(r, t, obs, known, hot) = None =>
                       (Owed(r, orig.edited) /\ orig.edited \in BOOLEAN => GivenBack(r))
<1> DEFINE current == IF t >= r.end THEN Cancel(r) ELSE r
           c == Reconciled(r, t, obs, known, hot)
<1>1. /\ current \in Checkpoint /\ (Released(r) => Released(current))
      /\ Over(r) \/ t >= r.end => Over(current)
      /\ \A e \in BOOLEAN : Owed(r, e) => Owed(current, e)
  BY CancelOK DEF Over
<1>2. GivenBack(current) => GivenBack(r)
  <2>1. Cancel(r).maintenance = r.maintenance /\ (Cancel(r).step = "plain" <=> r.step = "plain")
    BY DEF Cancel, Checkpoint, Session
  <2>2. QED
    BY <2>1 DEF GivenBack
<1>3. c = IF known /\ Arrived(current) THEN Advance(current, obs, hot) ELSE current
  BY DEF Reconciled, Arrived
<1> HIDE DEF current, c
<1>4. CASE known /\ Arrived(current)
  BY <1>1, <1>2, <1>3, <1>4, AdvanceOK DEF c
<1>5. CASE ~(known /\ Arrived(current))
  <2>1. c = current /\ c # None
    BY <1>1, <1>3, <1>5, NoneIsNoRecord DEF Checkpoint
  <2>2. QED
    BY <1>1, <2>1 DEF c
<1>6. QED
  BY <1>4, <1>5

-----------------------------------------------------------------------------
(* The invariant, and where each part of it looks.                         *)

Invariant ==
    /\ BathingTypeOK /\ Kept /\ Mirrored /\ IntentOK /\ ManualOK /\ EditsOK /\ EndOK
    /\ FitsOK /\ DebtOK

Thens == {"tick", "start", "cancel", "adjust", "abandon", "manual"}

(* While nobody holds the lock, what is stored is what is pursued.         *)
LEMMA AtRest ==
    ASSUME Invariant, lock = "free"
    PROVE  /\ saving = None /\ manual = None /\ Coming = None
           /\ ~storageFailed => durable = session
  BY DEF Invariant, BathingTypeOK, ManualOK, Coming, Mirrored

(* A replaced checkpoint is saved before anything follows from it.         *)
LEMMA PausedTyped ==
    ASSUME BathingTypeOK, NEW new \in Checkpoint \cup {None}, NEW then \in Thens,
           Replace(new, then)
    PROVE  /\ saving' \in Saving \cup {None} /\ intent' \in Intent \cup {None}
           /\ attempt' \in Session \cup {None}
           /\ lock' = "saving" /\ saving' # None
           /\ saving'.then = then /\ saving'.new = new /\ saving'.written = FALSE
<1>1. saving' = [new |-> new, then |-> then, written |-> FALSE] /\ new \in Session \cup {None}
  BY DEF Replace, Checkpoint
<1>2. saving' \in Saving
  BY <1>1 DEF Saving, Thens
<1>3. saving' # None
  BY <1>2, NoneIsNoRecord
<1>4. saving'.then = then /\ saving'.new = new /\ saving'.written = FALSE
  BY <1>1
<1>5. intent' = None /\ attempt' = None /\ lock' = "saving"
  BY DEF Replace, Pause
<1>6. QED
  BY <1>2, <1>3, <1>4, <1>5

(* An operation that replaces the session pauses it and saves under the    *)
(* lock; whoever is to be told waits in "manual".                          *)
LEMMA ReplaceKeeps ==
    ASSUME Invariant, lock = "free", ~storageFailed,
           NEW new \in Checkpoint \cup {None}, NEW then \in Thens, Replace(new, then),
           UNCHANGED <<spaVars, session, durable, expired, storageFailed, closed, engineVars>>,
           IF then = "manual"
           THEN manual' \in Manual /\ manual'.goal[1] = "target" /\ manual'.stage = "saving"
                /\ Released(new)
           ELSE manual' = manual,
           orig' \in [spa : Spa, edited : BOOLEAN], touched' \in BOOLEAN, sawEnd' \in BOOLEAN,
           orig'.edited => orig.edited /\ Released(new),
           sawEnd => sawEnd', sawEnd' => session # None /\ Over(new),
           DebtOK'
    PROVE  Invariant'
<1>1. BathingTypeOK /\ saving = None /\ manual = None /\ durable = session
  BY AtRest DEF Invariant
<1>2. /\ saving' \in Saving \cup {None} /\ intent' \in Intent \cup {None}
      /\ attempt' \in Session \cup {None}
      /\ lock' = "saving" /\ saving' # None
      /\ saving'.then = then /\ saving'.new = new /\ saving'.written = FALSE
  BY <1>1, PausedTyped
<1>3. BathingTypeOK'
  BY <1>1, <1>2 DEF BathingTypeOK, spaVars, engineVars
<1>4. Kept' /\ Mirrored'
  BY <1>1, <1>2 DEF Kept, Mirrored, Coming, Invariant
<1>5. IntentOK' /\ ManualOK'
  BY <1>1, <1>2, NoneIsNoRecord DEF IntentOK, ManualOK, Replace, Pause
<1>6. EditsOK'
  BY <1>1, <1>2 DEF EditsOK, Coming, Invariant
<1>7. EndOK'
  BY <1>1, <1>2 DEF EndOK, Invariant, Replace, Pause
<1>8. FitsOK'
  BY DEF FitsOK, Replace, Pause
<1>9. QED
  BY <1>3, <1>4, <1>5, <1>6, <1>7, <1>8 DEF Invariant

(* A replacement owes what its predecessor did.                            *)
LEMMA ReplaceDebt ==
    ASSUME Invariant, lock = "free", ~storageFailed, session # None,
           NEW new \in Checkpoint \cup {None}, NEW then \in Thens, Replace(new, then),
           UNCHANGED <<spaVars, durable, engineVars, orig, touched>>,
           ~touched /\ Seen /\ Owed(session, orig.edited) =>
              /\ new # None => Owed(new, orig.edited \/ then = "manual")
              /\ new = None /\ then = "tick" => GivenBack(session)
    PROVE  DebtOK'
<1>1. BathingTypeOK /\ saving = None /\ durable = session /\ Coming = None
  BY AtRest DEF Invariant
<1>2. saving' # None /\ saving'.then = then /\ saving'.new = new /\ saving'.written = FALSE
  BY <1>1, PausedTyped
<1>3. CASE touched
  BY <1>3 DEF DebtOK, ManualFlight
<1>4. CASE ~touched
  <2>1. /\ Seen /\ Owed(session, orig.edited)
        /\ ManualFlight
    BY <1>1, <1>4 DEF Invariant, DebtOK, ManualFlight, Live
  <2>2. Coming' = new /\ (Ends' <=> then = "tick" /\ new = None)
    BY <1>2 DEF Coming, Ends
  <2>3. Seen' /\ Owed(durable, orig.edited)'
    <3>1. /\ spa' = spa /\ obs' = obs /\ orig' = orig /\ flight' = flight /\ resync' = resync
          /\ durable' = durable
      BY DEF spaVars, engineVars
    <3>2. Seen'
      BY <2>1, <3>1 DEF Seen, SameBut
    <3>3. Owed(durable, orig.edited)'
      BY <1>1, <2>1, <3>1 DEF Owed
    <3>4. QED
      BY <3>2, <3>3
  <2>4. new # None => Owed(new, orig.edited \/ then = "manual")
    BY <1>4, <2>1
  <2>5. new # None => Owed(Coming, orig.edited \/ saving.then = "manual")'
    BY <1>2, <2>2, <2>4 DEF Owed, spaVars, engineVars
  <2>6. Ends' => GivenBack(durable)'
    BY <1>1, <1>4, <2>1, <2>2 DEF GivenBack, spaVars, engineVars, Target
  <2>7. QED
    BY <2>1, <2>2, <2>3, <2>5, <2>6 DEF DebtOK, ManualFlight, engineVars
<1>5. QED
  BY <1>3, <1>4

-----------------------------------------------------------------------------
(* The runner's tick.                                                      *)

(* What is pursued is what the checkpoint of the moment asks for.          *)
LEMMA PursueOK ==
    ASSUME BathingTypeOK, NEW r \in Session, Pursue(r)
    PROVE  /\ intent' \in Intent \cup {None} /\ attempt' \in Session \cup {None}
           /\ \/ intent' \in {None, intent}
              \/ /\ intent'.session = r /\ flight = None /\ ~resync
                 /\ r.step \in {"set_target", "active", "restore_high"} => obs.high
<1> DEFINE fresh == [session |-> r, current |-> TRUE, late |-> FALSE, stage |-> "queued"]
<1>1. fresh \in Intent /\ fresh.session = r
  BY DEF Intent
<1>2. intent' \in {None, intent, fresh} /\ attempt' \in {None, attempt, r}
  BY DEF Pursue, Pause
<1>3. intent' \notin {None, intent} => Settled /\ Pursuable(r, obs) /\ intent' = fresh
  BY DEF Pursue, Pause
<1> HIDE DEF fresh
<1>4. intent' \notin {None, intent} =>
        /\ intent'.session = r /\ flight = None /\ ~resync
        /\ r.step \in {"set_target", "active", "restore_high"} => obs.high
  BY <1>1, <1>3 DEF Settled, Pursuable, Conflict
<1>5. QED
  BY <1>1, <1>2, <1>4 DEF BathingTypeOK

(* So it fits the spa, which is as observed unless somebody touched it.    *)
LEMMA PursueFits ==
    ASSUME FitsOK, DebtOK, NEW r \in Session, Live # {}, UNCHANGED <<spa, flight, touched>>,
           \/ intent' \in {None, intent}
           \/ /\ intent'.session = r /\ flight = None /\ ~resync
              /\ r.step \in {"set_target", "active", "restore_high"} => obs.high
    PROVE  FitsOK'
<1>1. CASE intent' \in {None, intent} \/ touched
  BY <1>1 DEF FitsOK, Carries
<1>2. CASE intent'.session = r /\ flight = None /\ ~resync /\ ~touched
           /\ (r.step \in {"set_target", "active", "restore_high"} => obs.high)
  BY <1>2 DEF FitsOK, DebtOK, Seen, SameBut, Carries
<1>3. QED
  BY <1>1, <1>2

(* Nothing of the session or the spa has moved, and no edit.               *)
LEMMA DebtStays ==
    ASSUME DebtOK, UNCHANGED <<spa, obs, flight, resync, durable, saving, orig, touched>>
    PROVE  DebtOK'
<1>1. Coming' = Coming /\ (Ends' <=> Ends) /\ Live' = Live
  BY DEF Coming, Ends, Live
<1>2. CASE touched \/ Live = {}
  BY <1>1, <1>2 DEF DebtOK, ManualFlight
<1>3. CASE ~touched /\ Live # {}
  <2>1. /\ Seen
        /\ ManualFlight
        /\ durable # None => Owed(durable, orig.edited)
        /\ Coming # None => Owed(Coming, orig.edited \/ saving.then = "manual")
        /\ Ends => GivenBack(durable)
    BY <1>3 DEF DebtOK, ManualFlight
  <2>2. Seen'
    BY <2>1 DEF Seen, SameBut
  <2>3. durable # None => Owed(durable, orig.edited)'
    BY <2>1 DEF Owed
  <2>4. Coming # None => Owed(Coming, orig.edited \/ saving.then = "manual")'
    BY <1>1, <2>1 DEF Owed
  <2>5. Ends => GivenBack(durable)'
    BY <2>1 DEF GivenBack, Target
  <2>6. QED
    BY <1>1, <2>1, <2>2, <2>3, <2>4, <2>5 DEF DebtOK, ManualFlight
<1>4. QED
  BY <1>2, <1>3

(* A tick keeps the invariant.                                             *)
LEMMA TickKeeps ==
    ASSUME Invariant, Tick
    PROVE  Invariant'
<1>1. /\ BathingTypeOK /\ lock = "free" /\ Writable /\ session # None /\ session \in Checkpoint
      /\ saving = None /\ durable = session /\ manual = None /\ ~storageFailed
  BY AtRest DEF Tick, Invariant, Kept, Writable
<1>2. session.end \in Int /\ now \in Int /\ obs \in Spa
  BY <1>1, NumbersOK DEF BathingTypeOK, Checkpoint, Session
<1>3. PICK hot \in BOOLEAN :
        LET t == IF expired THEN Max({now, session.end}) ELSE now
            updated == Reconciled(session, t, obs, Known, hot)
        IN  IF updated # session
            THEN Replace(updated, "tick")
            ELSE Pursue(session) /\ UNCHANGED <<saving, lock>>
  BY DEF Tick
<1> DEFINE t == IF expired THEN Max({now, session.end}) ELSE now
           updated == Reconciled(session, t, obs, Known, hot)
           known == Known
<1>4. expired \/ now >= session.end => t >= session.end
  BY <1>2, MaxOfTwo
<1>5. known \in BOOLEAN /\ (known => flight = None /\ ~resync) /\ updated = Reconciled(session, t, obs, known, hot)
  BY <1>1 DEF Known, Settled, BathingTypeOK
<1>6. /\ sawEnd' = (sawEnd \/ now >= session.end)
      /\ UNCHANGED <<spaVars, session, manual, expired, storageFailed, closed, engineVars,
                     durable, left, requests, orig, touched>>
      /\ IF updated # session THEN Replace(updated, "tick")
         ELSE Pursue(session) /\ UNCHANGED <<saving, lock>>
  BY <1>3 DEF Tick
<1> HIDE DEF t, known
<1>7. /\ updated \in Checkpoint \cup {None}
      /\ Released(session) => Released(updated)
      /\ Over(session) \/ t >= session.end => Over(updated)
      /\ (known => Clear) =>
            /\ updated # None => \A e \in BOOLEAN : Owed(session, e) => Owed(updated, e)
            /\ updated = None =>
                  (Owed(session, orig.edited) /\ orig.edited \in BOOLEAN => GivenBack(session))
  BY <1>1, <1>2, <1>5, ReconciledOK
<1> HIDE DEF updated
<1>8. sawEnd => expired \/ Over(session)
  BY <1>1 DEF Invariant, EndOK
<1>9. sawEnd' => Over(updated)
  BY <1>1, <1>4, <1>6, <1>7, <1>8
<1>10. orig.edited \in BOOLEAN /\ orig \in [spa : Spa, edited : BOOLEAN] /\ touched \in BOOLEAN /\ sawEnd' \in BOOLEAN
       /\ (orig.edited => Released(session))
  BY <1>1, <1>6 DEF BathingTypeOK, Invariant, EditsOK
<1>11. CASE updated # session
  <2>1. Replace(updated, "tick") /\ "tick" \in Thens
    BY <1>6, <1>11 DEF Thens
  <2>2. ~touched /\ Seen /\ Owed(session, orig.edited) =>
              /\ updated # None => Owed(updated, orig.edited \/ "tick" = "manual")
              /\ updated = None /\ "tick" = "tick" => GivenBack(session)
    BY <1>5, <1>7, <1>10 DEF Clear
  <2>3. DebtOK'
    BY <1>1, <1>6, <1>7, <2>1, <2>2, ReplaceDebt
  <2>4. QED
    BY <1>1, <1>6, <1>7, <1>9, <1>10, <2>1, <2>3, ReplaceKeeps
<1>12. CASE updated = session
  <2>1. Pursue(session) /\ saving' = None /\ lock' = lock
    BY <1>1, <1>6, <1>12
  <2>2. /\ intent' \in Intent \cup {None} /\ attempt' \in Session \cup {None}
        /\ \/ intent' \in {None, intent}
           \/ /\ intent'.session = session /\ flight = None /\ ~resync
              /\ session.step \in {"set_target", "active", "restore_high"} => obs.high
    BY <1>1, <2>1, PursueOK DEF Checkpoint
  <2>3. BathingTypeOK'
    BY <1>1, <1>6, <1>10, <2>1, <2>2 DEF BathingTypeOK, spaVars, engineVars
  <2>4. Kept' /\ Mirrored' /\ EditsOK'
    BY <1>1, <1>6, <2>1 DEF Invariant, Kept, Mirrored, EditsOK, Coming
  <2>5. IntentOK' /\ ManualOK'
    BY <1>1, <1>6, <2>1, <2>2 DEF Invariant, IntentOK, ManualOK
  <2>6. EndOK'
    BY <1>1, <1>4, <1>6, <1>7, <1>9, <1>12, <2>1 DEF Invariant, EndOK
  <2>7. DebtOK'
    BY <1>1, <1>6, <2>1, DebtStays DEF Invariant, spaVars, engineVars
  <2>8. FitsOK'
    <3>1. Live # {} /\ session \in Session /\ FitsOK /\ DebtOK
      BY <1>1 DEF Live, Checkpoint, Invariant
    <3>2. UNCHANGED <<spa, flight, touched>>
      BY <1>6 DEF spaVars, engineVars
    <3>3. QED
      BY <2>2, <3>1, <3>2, PursueFits
  <2>9. QED
    BY <2>3, <2>4, <2>5, <2>6, <2>7, <2>8 DEF Invariant
<1>13. QED
  BY <1>11, <1>12

-----------------------------------------------------------------------------
(* What users ask for.                                                     *)

(* What a caller who got the lock finds.                                   *)
LEMMA AskedOK ==
    ASSUME Invariant, Asked
    PROVE  /\ BathingTypeOK /\ lock = "free" /\ saving = None /\ manual = None /\ ~storageFailed
           /\ durable = session /\ Coming = None /\ session \in Checkpoint \cup {None}
           /\ session = None => ~sawEnd
           /\ session # None /\ ~expired => (sawEnd => Over(session))
           /\ orig.edited \in BOOLEAN /\ (orig.edited => Released(session))
           /\ UNCHANGED <<spaVars, session, expired, storageFailed, closed, engineVars,
                          durable, left, sawEnd>>
<1>1. lock = "free" /\ ~storageFailed
      /\ UNCHANGED <<spaVars, session, expired, storageFailed, closed, engineVars,
                     durable, left, sawEnd>>
  BY DEF Asked, Writable
<1>2. BathingTypeOK /\ saving = None /\ manual = None /\ durable = session /\ Coming = None
  BY <1>1, AtRest DEF Invariant
<1>3. QED
  BY <1>1, <1>2 DEF Invariant, Kept, EndOK, EditsOK, BathingTypeOK

(* An operation on the session there is.                                   *)
LEMMA AskedReplaceKeeps ==
    ASSUME Invariant, Asked, session # None,
           NEW new \in Checkpoint \cup {None}, NEW then \in Thens, Replace(new, then),
           UNCHANGED <<orig, touched>>,
           IF then = "manual"
           THEN manual' \in Manual /\ manual'.goal[1] = "target" /\ manual'.stage = "saving"
                /\ Released(new)
           ELSE manual' = manual,
           Released(session) => Released(new), sawEnd => Over(new),
           Owed(session, orig.edited) =>
              (new # None => Owed(new, orig.edited \/ then = "manual")),
           then # "tick"
    PROVE  Invariant'
<1>1. DebtOK'
  BY AskedOK, ReplaceDebt
<1>2. orig' = orig /\ touched' = touched /\ sawEnd' = sawEnd /\ orig' \in [spa : Spa, edited : BOOLEAN]
      /\ touched' \in BOOLEAN /\ sawEnd' \in BOOLEAN
  BY AskedOK DEF BathingTypeOK
<1>3. QED
  BY <1>1, <1>2, AskedOK, ReplaceKeeps

(* A cancelled session keeps the invariant.                                *)
LEMMA CancelKeeps ==
    ASSUME Invariant, AsyncCancel
    PROVE  Invariant'
<1>1. Asked /\ session # None /\ Replace(Cancel(session), "cancel")
      /\ UNCHANGED <<manual, orig, touched>> /\ session \in Checkpoint /\ orig.edited \in BOOLEAN
  BY AskedOK DEF AsyncCancel
<1>2. Cancel(session) \in Checkpoint /\ Over(Cancel(session))
      /\ (Released(session) => Released(Cancel(session)))
      /\ (Owed(session, orig.edited) => Owed(Cancel(session), orig.edited \/ "cancel" = "manual"))
  BY <1>1, CancelOK DEF Over
<1>3. QED
  BY <1>1, <1>2, AskedReplaceKeeps DEF Thens

(* A moved end keeps the invariant.                                        *)
LEMMA AdjustKeeps ==
    ASSUME Invariant, AsyncAdjust
    PROVE  Invariant'
<1>1. /\ Asked /\ session # None /\ ~expired /\ Adjustable(session, now)
      /\ UNCHANGED <<manual, orig, touched>> /\ session \in Checkpoint /\ orig.edited \in BOOLEAN
      /\ now \in Times /\ (sawEnd => Over(session))
  BY AskedOK DEF AsyncAdjust, BathingTypeOK
<1>2. PICK seconds \in {-1, 1} :
        session.end + seconds <= MaxTime /\ Replace(Adjust(session, now, seconds), "adjust")
  BY DEF AsyncAdjust
<1> DEFINE new == Adjust(session, now, seconds)
<1>3. session.phase # "restoring" /\ ~sawEnd
  BY <1>1 DEF Adjustable, Over
<1>4. new \in Checkpoint /\ ~Released(session)
      /\ (Owed(session, orig.edited) => Owed(new, orig.edited \/ "adjust" = "manual"))
  BY <1>1, <1>2, <1>3, AdjustOK
<1> HIDE DEF new
<1>5. Replace(new, "adjust")
  BY <1>2 DEF new
<1>6. QED
  BY <1>1, <1>3, <1>4, <1>5, AskedReplaceKeeps DEF Thens

(* An abandoned session keeps the invariant.                               *)
LEMMA AbandonKeeps ==
    ASSUME Invariant, AsyncAbandon
    PROVE  Invariant'
<1>1. Asked /\ session # None /\ Replace(None, "abandon") /\ UNCHANGED <<manual, orig, touched>>
  BY DEF AsyncAbandon
<1>2. QED
  BY <1>1, AskedReplaceKeeps DEF Thens, Released, Over

(* A manual change of the target keeps the invariant.                      *)
LEMMA ManualChangeKeeps ==
    ASSUME Invariant, AsyncManualChange
    PROVE  Invariant'
<1>1. PICK goal \in ({"target"} \X (LowTargets \cup HighTargets))
                        \cup {<<"high_range", ~obs.high>>, <<"hold", FALSE>>} :
        /\ Asked /\ Permitted /\ up /\ Validates(obs, goal)
        /\ \/ /\ session = None \/ (obs.hold /\ goal = <<"hold", FALSE>>)
              /\ manual' = [goal |-> goal, stage |-> "queued"]
              /\ lock' = "applying"
              /\ UNCHANGED <<saving, intent, attempt>>
           \/ /\ session # None /\ goal[1] = "target"
              /\ session.step # "plain" => obs.high
              /\ manual' = [goal |-> goal, stage |-> "saving"]
              /\ Replace(IF session.step = "plain" THEN None ELSE ReleaseTarget(session), "manual")
        /\ UNCHANGED <<orig, touched>>
  BY DEF AsyncManualChange
<1>2. goal \in Goals
  <2>1. obs.high \in BOOLEAN
    BY DEF Invariant, BathingTypeOK, Spa
  <2>2. (~obs.high) \in BOOLEAN /\ FALSE \in BOOLEAN
    BY <2>1
  <2>3. <<"high_range", ~obs.high>> \in {"high_range", "hold"} \X BOOLEAN
    BY <2>2
  <2>4. <<"hold", FALSE>> \in {"high_range", "hold"} \X BOOLEAN
    BY <2>2
  <2>5. QED
    BY <2>3, <2>4 DEF Goals
<1>3. [goal |-> goal, stage |-> "queued"] \in Manual /\ [goal |-> goal, stage |-> "saving"] \in Manual
  BY <1>2 DEF Manual
<1>4. CASE /\ session = None \/ (obs.hold /\ goal = <<"hold", FALSE>>)
           /\ manual' = [goal |-> goal, stage |-> "queued"]
           /\ lock' = "applying"
           /\ UNCHANGED <<saving, intent, attempt>>
  <2>1. manual' # None /\ manual'.goal = goal /\ manual' \in Manual
    BY <1>3, <1>4, NoneIsNoRecord
  <2>2. BathingTypeOK'
    BY AskedOK, <1>1, <1>4, <2>1 DEF BathingTypeOK, spaVars, engineVars
  <2>3. Kept' /\ Mirrored' /\ EditsOK' /\ IntentOK' /\ EndOK'
    BY AskedOK, <1>1, <1>4
       DEF Invariant, Kept, Mirrored, EditsOK, IntentOK, EndOK, Coming
  <2>4. session # None => goal[1] = "hold"
    <3>1. <<"hold", FALSE>>[1] = "hold"
      OBVIOUS
    <3>2. QED
      BY <1>4, <3>1, Zenon
  <2>5. ManualOK'
    BY AskedOK, <1>1, <1>4, <2>1, <2>4 DEF ManualOK, Live, Coming
  <2>6. DebtOK'
    BY AskedOK, <1>1, <1>4, DebtStays DEF Invariant, spaVars, engineVars
  <2>7. FitsOK'
    BY AskedOK, <1>1, <1>4 DEF Invariant, FitsOK, Carries, spaVars, engineVars
  <2>8. QED
    BY <2>2, <2>3, <2>5, <2>6, <2>7 DEF Invariant
<1>5. CASE /\ session # None /\ goal[1] = "target"
           /\ session.step # "plain" => obs.high
           /\ manual' = [goal |-> goal, stage |-> "saving"]
           /\ Replace(IF session.step = "plain" THEN None ELSE ReleaseTarget(session), "manual")
  <2> DEFINE new == IF session.step = "plain" THEN None ELSE ReleaseTarget(session)
  <2>1. /\ new \in Checkpoint \cup {None} /\ Released(new) /\ Over(new)
        /\ (Owed(session, orig.edited) => (new # None => Owed(new, orig.edited \/ "manual" = "manual")))
    BY AskedOK, <1>1, <1>5, ReleaseTargetOK DEF Released, Over
  <2> HIDE DEF new
  <2>2. Replace(new, "manual")
    BY <1>5 DEF new
  <2>3. manual' \in Manual /\ manual'.goal[1] = "target" /\ manual'.stage = "saving"
    BY <1>3, <1>5
  <2>4. QED
    BY <1>1, <1>5, <2>1, <2>2, <2>3, AskedReplaceKeeps DEF Thens
<1>6. QED
  BY <1>1, <1>4, <1>5

(* A session that starts finds the spa as it is observed, or is touched.   *)
LEMMA StartKeeps ==
    ASSUME Invariant, NEW end \in Times, NEW r \in Checkpoint, Start(end, r), UNCHANGED <<obs, spa>>,
           r.step # "plain" => /\ r.range = obs.high /\ r.mode = Policy(obs.mode)
                               /\ r.high \in {None, obs.hi} /\ r.step # "restore_mode"
    PROVE  Invariant'
<1>1. /\ Asked /\ session = None /\ Replace(r, "start") /\ manual' = manual
      /\ orig' = [spa |-> spa, edited |-> FALSE]
      /\ touched' = (Lasting(spa) # Lasting(obs) \/ flight # None)
      /\ spa \in Spa /\ obs \in Spa
  BY DEF Start, Invariant, BathingTypeOK
<1>2. /\ saving' # None /\ saving'.then = "start" /\ saving'.new = r /\ saving'.written = FALSE
  BY <1>1, AskedOK, PausedTyped DEF Thens
<1>3. DebtOK'
  <2>1. CASE touched'
    BY <2>1 DEF DebtOK, ManualFlight
  <2>2. CASE ~touched'
    <3>0. SameBut(spa, obs)
      BY <1>1, <2>2, LastingOK
    <3>1. /\ flight' = None /\ spa' = spa /\ obs' = obs /\ orig'.spa = spa
          /\ durable' = None /\ Coming' = r /\ ~Ends'
      BY AskedOK, <1>1, <1>2, <2>2 DEF engineVars, spaVars, Coming, Ends
    <3>2. Seen'
      BY <3>0, <3>1 DEF Seen, SameBut
    <3>3. Owed(Coming, orig.edited \/ saving.then = "manual")'
      BY <3>0, <3>1, <1>1, <2>2 DEF Owed, Owing, Carries, SameBut
    <3>4. QED
      BY <3>1, <3>2, <3>3 DEF DebtOK, ManualFlight
  <2>3. QED
    BY <2>1, <2>2
<1>4. orig'.edited = FALSE /\ orig' \in [spa : Spa, edited : BOOLEAN] /\ touched' \in BOOLEAN
  BY AskedOK, <1>1 DEF BathingTypeOK
<1>5. sawEnd' = FALSE /\ sawEnd = FALSE
  BY AskedOK, <1>1 DEF BathingTypeOK
<1>6. QED
  BY <1>1, <1>3, <1>4, <1>5, AskedOK, ReplaceKeeps DEF Thens

(* A new session keeps the invariant.                                      *)
LEMMA StartsKeep ==
    ASSUME Invariant, AsyncStart \/ AsyncStartBathing
    PROVE  Invariant'
<1>1. now \in Times /\ obs \in Spa /\ obs' = obs /\ spa' = spa
  BY AskedOK DEF AsyncStart, AsyncStartBathing, Start, BathingTypeOK, spaVars, Invariant
<1>2. CASE AsyncStart
  <2>1. PICK end \in Times, target \in LowTargets \cup HighTargets,
             maintenance \in LowTargets \cup HighTargets :
          Start(end, StartPlain(now, end, target, maintenance))
    BY <1>2 DEF AsyncStart
  <2>2. now <= end
    BY <1>1, <2>1, NumbersOK DEF Start
  <2>3. QED
    BY <1>1, <2>1, <2>2, StartPlainOK, StartKeeps
<1>3. CASE AsyncStartBathing
  <2>1. PICK end \in Times : Start(end, StartBathing(now, end, obs))
    BY <1>3 DEF AsyncStartBathing
  <2>2. now <= end
    BY <1>1, <2>1, NumbersOK DEF Start
  <2>3. QED
    BY <1>1, <2>1, <2>2, StartBathingOK, StartKeeps
<1>4. QED
  BY <1>2, <1>3

-----------------------------------------------------------------------------
(* The save, and what ends without one.                                    *)

(* A record on disk that is not verified yet keeps the invariant.          *)
LEMMA WriteKeeps ==
    ASSUME Invariant, Write
    PROVE  Invariant'
<1>1. /\ saving # None /\ ~saving.written /\ saving \in Saving /\ durable = session /\ lock = "saving"
      /\ durable' = saving.new /\ saving.new \in Checkpoint \cup {None}
      /\ Coming = saving.new /\ ~storageFailed /\ intent = None
  BY DEF Write, Invariant, BathingTypeOK, Mirrored, Kept, Coming, IntentOK
<1>2. saving' = [saving EXCEPT !.written = TRUE] /\ orig' = [orig EXCEPT !.edited = orig.edited \/ saving.then = "manual"]
  BY DEF Write
<1>3. saving' \in Saving /\ saving' # None /\ saving'.new = saving.new /\ saving'.then = saving.then
      /\ saving'.written = TRUE
  BY <1>1, <1>2, NoneIsNoRecord DEF Saving
<1>4. UNCHANGED <<spaVars, session, lock, intent, attempt, manual, expired, storageFailed,
                  closed, engineVars, left, requests, touched, sawEnd>>
  BY DEF Write
<1>5. orig' \in [spa : Spa, edited : BOOLEAN] /\ orig'.spa = orig.spa
      /\ orig'.edited = (orig.edited \/ saving.then = "manual")
  BY <1>2 DEF Invariant, BathingTypeOK
<1>6. BathingTypeOK'
  BY <1>1, <1>3, <1>4, <1>5 DEF Invariant, BathingTypeOK, spaVars, engineVars, Checkpoint
<1>7. Coming' = saving.new /\ ~Ends'
  BY <1>3 DEF Coming, Ends
<1>8. Kept' /\ Mirrored' /\ IntentOK'
  BY <1>1, <1>3, <1>4, <1>7 DEF Invariant, Kept, Mirrored, IntentOK
<1>9. ManualOK' /\ EditsOK' /\ EndOK'
  BY <1>1, <1>3, <1>4, <1>5, <1>7 DEF Invariant, ManualOK, EditsOK, EndOK, Coming
<1>10. DebtOK'
  <2>1. CASE touched \/ saving.new = None
    BY <1>1, <1>4, <1>7, <2>1 DEF DebtOK, ManualFlight, Live
  <2>2. CASE ~touched /\ saving.new # None
    <3>1. /\ Seen
          /\ ManualFlight
          /\ Owed(saving.new, orig.edited \/ saving.then = "manual")
      BY <1>1, <2>2 DEF Invariant, DebtOK, ManualFlight, Live
    <3>2. spa' = spa /\ obs' = obs /\ flight' = flight /\ resync' = resync
      BY <1>4 DEF spaVars, engineVars
    <3>3. Seen'
      BY <3>1, <3>2 DEF Seen, SameBut
    <3>4. Owed(durable, orig.edited)'
      BY <1>1, <1>5, <3>1, <3>2 DEF Owed
    <3>5. (orig.edited \/ saving.then = "manual")' = orig'.edited
      BY <1>3, <1>5
    <3>6. Owed(Coming, orig.edited \/ saving.then = "manual")'
      BY <1>1, <1>7, <3>4, <3>5 DEF Owed
    <3>7. QED
      BY <1>5, <1>7, <3>1, <3>2, <3>3, <3>4, <3>6 DEF DebtOK, ManualFlight
  <2>3. QED
    BY <2>1, <2>2
<1>11. FitsOK'
  BY <1>1, <1>4 DEF FitsOK
<1>12. QED
  BY <1>6, <1>8, <1>9, <1>10, <1>11 DEF Invariant

(* A verified record, and what follows from it, keep the invariant.        *)
LEMMA SavedKeeps ==
    ASSUME Invariant, Saved
    PROVE  Invariant'
<1>1. /\ saving # None /\ saving.written /\ saving \in Saving /\ durable = saving.new
      /\ lock = "saving" /\ saving.new \in Checkpoint \cup {None} /\ Coming = saving.new
      /\ ~storageFailed /\ intent = None /\ BathingTypeOK
  BY DEF Saved, Invariant, BathingTypeOK, Mirrored, Kept, Coming, IntentOK
<1>2. /\ saving' = None /\ session' = saving.new
      /\ expired' = (expired /\ saving.new # None) /\ sawEnd' = (sawEnd /\ saving.new # None)
      /\ UNCHANGED <<spaVars, storageFailed, closed, engineVars, durable, left, requests, orig, touched>>
  BY DEF Saved
<1>3. /\ intent' \in Intent \cup {None} /\ attempt' \in Session \cup {None}
      /\ intent' # None =>
            /\ saving.new # None /\ intent'.session = saving.new
            /\ flight = None /\ ~resync
            /\ saving.new.step \in {"set_target", "active", "restore_high"} => obs.high
  <2>1. CASE saving.then = "tick" /\ saving.new # None
    <3>1. Pursue(saving.new) /\ saving.new \in Session
      BY <1>1, <2>1 DEF Saved, Checkpoint
    <3>2. QED
      BY <1>1, <2>1, <3>1, PursueOK
  <2>2. CASE ~(saving.then = "tick" /\ saving.new # None)
    BY <1>1, <2>2 DEF Saved, BathingTypeOK
  <2>3. QED
    BY <2>1, <2>2
<1>4. \/ manual' = None /\ lock' = "free"
      \/ /\ lock' = "applying" /\ saving.then = "manual" /\ manual' = [manual EXCEPT !.stage = "queued"]
  BY DEF Saved
<1>5. /\ manual' \in Manual \cup {None}
      /\ lock' = "applying" => manual' # None /\ manual'.goal = manual.goal /\ manual.goal[1] = "target"
  <2>1. CASE manual' = None /\ lock' = "free"
    BY <2>1
  <2>2. CASE lock' = "applying" /\ saving.then = "manual" /\ manual' = [manual EXCEPT !.stage = "queued"]
    <3>1. manual \in Manual /\ manual.goal[1] = "target"
      BY <1>1, <2>2 DEF Invariant, ManualOK, BathingTypeOK
    <3>2. manual' \in Manual /\ manual'.goal = manual.goal
      BY <2>2, <3>1 DEF Manual
    <3>3. QED
      BY <3>1, <3>2, NoneIsNoRecord
  <2>3. QED
    BY <1>4, <2>1, <2>2
<1>6. BathingTypeOK'
  <2>1. saving' # None <=> lock' = "saving"
    BY <1>2, <1>4
  <2>2. expired' \in BOOLEAN /\ sawEnd' \in BOOLEAN /\ session' \in Session \cup {None}
    BY <1>1, <1>2 DEF BathingTypeOK, Checkpoint
  <2>3. lock' \in {"free", "applying"}
    BY <1>4
  <2>4. QED
    BY <1>1, <1>2, <1>3, <1>5, <2>1, <2>2, <2>3 DEF BathingTypeOK, spaVars, engineVars
<1>7. Coming' = None /\ Kept' /\ Mirrored' /\ IntentOK'
  BY <1>1, <1>2, <1>3 DEF Invariant, Kept, Mirrored, IntentOK, Coming
<1>8. Live' # {} => durable # None
  BY <1>2, <1>7 DEF Live
<1>9. saving.then = "manual" => Released(saving.new)
  BY <1>1 DEF Invariant, EditsOK
<1>10. EditsOK' /\ EndOK'
  BY <1>1, <1>2, <1>3, <1>7 DEF Invariant, EditsOK, EndOK, Released, Over
<1>11. ASSUME lock' = "applying", durable # None
       PROVE  orig.edited
  BY <1>1, <1>4, <1>11 DEF Invariant, EditsOK
<1>12. ManualOK'
  BY <1>2, <1>4, <1>5, <1>8, <1>11 DEF ManualOK
<1>13. DebtOK'
  <2>1. CASE touched \/ durable = None
    BY <1>2, <1>7, <2>1 DEF DebtOK, ManualFlight, Live
  <2>2. CASE ~touched /\ durable # None
    <3>1. /\ Seen /\ Owed(durable, orig.edited)
          /\ ManualFlight
      BY <2>2 DEF Invariant, DebtOK, ManualFlight, Live
    <3>2. spa' = spa /\ obs' = obs /\ flight' = flight /\ resync' = resync
      BY <1>2 DEF spaVars, engineVars
    <3>3. Seen' /\ Owed(durable, orig.edited)'
      BY <1>2, <3>1, <3>2 DEF Seen, SameBut, Owed
    <3>4. ~Ends'
      BY <1>2 DEF Ends
    <3>5. QED
      BY <1>2, <1>7, <3>1, <3>2, <3>3, <3>4 DEF DebtOK, ManualFlight
  <2>3. QED
    BY <2>1, <2>2
<1>14. FitsOK'
  <2>1. CASE intent' = None
    BY <2>1 DEF FitsOK
  <2>2. CASE intent' # None
    <3>1. Live # {} /\ saving.new \in Session /\ FitsOK /\ DebtOK
      BY <1>1, <1>3, <2>2 DEF Live, Checkpoint, Invariant
    <3>2. UNCHANGED <<spa, flight, touched>>
      BY <1>2 DEF spaVars, engineVars
    <3>3. QED
      BY <1>3, <2>2, <3>1, <3>2, PursueFits
  <2>3. QED
    BY <2>1, <2>2
<1>15. QED
  BY <1>6, <1>7, <1>10, <1>12, <1>13, <1>14 DEF Invariant

(* A failed save keeps the invariant: nothing follows from it.             *)
LEMMA SaveFailsKeeps ==
    ASSUME Invariant, SaveFails
    PROVE  Invariant'
<1>1. /\ saving # None /\ saving' = None /\ lock' = "free" /\ manual' = None /\ storageFailed' = TRUE
      /\ UNCHANGED <<spaVars, session, intent, attempt, expired, closed, engineVars, durable,
                     requests, orig, touched, sawEnd>>
  BY DEF SaveFails
<1>2. intent = None /\ Coming' = None /\ ~Ends'
  BY <1>1 DEF Invariant, IntentOK, Coming, Ends
<1>3. BathingTypeOK'
  BY <1>1 DEF Invariant, BathingTypeOK, spaVars, engineVars
<1>4. Kept' /\ Mirrored' /\ IntentOK' /\ ManualOK' /\ EditsOK' /\ EndOK'
  BY <1>1, <1>2 DEF Invariant, Kept, Mirrored, IntentOK, ManualOK, EditsOK, EndOK, Released
<1>5. DebtOK'
  <2>1. CASE touched \/ durable = None
    BY <1>1, <1>2, <2>1 DEF DebtOK, ManualFlight, Live
  <2>2. CASE ~touched /\ durable # None
    <3>1. /\ Seen /\ Owed(durable, orig.edited)
          /\ ManualFlight
      BY <2>2 DEF Invariant, DebtOK, ManualFlight, Live
    <3>2. spa' = spa /\ obs' = obs /\ flight' = flight /\ resync' = resync
      BY <1>1 DEF spaVars, engineVars
    <3>3. Seen' /\ Owed(durable, orig.edited)'
      BY <1>1, <3>1, <3>2 DEF Seen, SameBut, Owed
    <3>4. QED
      BY <1>1, <1>2, <3>1, <3>2, <3>3 DEF DebtOK, ManualFlight
  <2>3. QED
    BY <2>1, <2>2
<1>6. FitsOK'
  BY <1>1, <1>2 DEF FitsOK
<1>7. QED
  BY <1>3, <1>4, <1>5, <1>6 DEF Invariant

-----------------------------------------------------------------------------
(* What lands, and what is lost.                                           *)

(* What arrives at the spa changes what its owner had only by a manual     *)
(* target.                                                                 *)
LEMMA ArrivesTyped ==
    ASSUME BathingTypeOK, NEW does \in BOOLEAN, Arrives(does), does => flight # None
    PROVE  /\ spa' \in Spa /\ orig' \in [spa : Spa, edited : BOOLEAN]
           /\ orig'.edited = orig.edited
           /\ orig'.spa.high = orig.spa.high /\ orig'.spa.mode = orig.spa.mode
           /\ ~does => spa' = spa /\ orig' = orig
           /\ does => spa' = Apply(spa, flight.goal)
           /\ orig' # orig => flight.by = "manual" /\ flight.goal[1] = "target"
           /\ does /\ flight.by = "manual" /\ orig.edited /\ flight.goal[1] = "target" =>
                 IF spa.high THEN orig'.spa.lo = orig.spa.lo ELSE orig'.spa.lo = spa'.lo
<1>1. /\ spa' = IF does THEN Apply(spa, flight.goal) ELSE spa
      /\ spa \in Spa /\ orig \in [spa : Spa, edited : BOOLEAN]
      /\ does => flight.goal \in Goals
  BY DEF Arrives, BathingTypeOK, Flight
<1>2. spa' \in Spa
  BY <1>1, ApplyOK
<1>3. CASE does /\ flight.by = "manual" /\ orig.edited /\ flight.goal[1] = "target"
  <2>1. orig' = IF spa.high THEN [orig EXCEPT !.spa.hi = spa'.hi] ELSE [orig EXCEPT !.spa.lo = spa'.lo]
    BY <1>3 DEF Arrives
  <2>2. orig.spa \in Spa /\ spa'.hi \in HighTargets /\ spa'.lo \in LowTargets
    BY <1>1, <1>2 DEF Spa
  <2>3. /\ [orig.spa EXCEPT !.hi = spa'.hi] \in Spa
        /\ [orig.spa EXCEPT !.lo = spa'.lo] \in Spa
        /\ [orig.spa EXCEPT !.hi = spa'.hi].lo = orig.spa.lo
        /\ [orig.spa EXCEPT !.lo = spa'.lo].lo = spa'.lo
        /\ [orig.spa EXCEPT !.hi = spa'.hi].high = orig.spa.high
        /\ [orig.spa EXCEPT !.lo = spa'.lo].high = orig.spa.high
        /\ [orig.spa EXCEPT !.hi = spa'.hi].mode = orig.spa.mode
        /\ [orig.spa EXCEPT !.lo = spa'.lo].mode = orig.spa.mode
    BY <2>2 DEF Spa
  <2>4. orig'.spa = IF spa.high THEN [orig.spa EXCEPT !.hi = spa'.hi] ELSE [orig.spa EXCEPT !.lo = spa'.lo]
    BY <1>1, <2>1
  <2>5. orig' \in [spa : Spa, edited : BOOLEAN] /\ orig'.edited = orig.edited
    BY <1>1, <2>1, <2>3
  <2>6. QED
    BY <1>1, <1>2, <1>3, <2>3, <2>4, <2>5
<1>4. CASE ~(does /\ flight.by = "manual" /\ orig.edited /\ flight.goal[1] = "target")
  <2>1. orig' = orig
    BY <1>4 DEF Arrives
  <2>2. QED
    BY <1>1, <1>2, <1>4, <2>1
<1>5. QED
  BY <1>3, <1>4

(* What is owed is still owed when the goal under way has landed.          *)
LEMMA ArrivesOwing ==
    ASSUME BathingTypeOK, NEW does \in BOOLEAN, Arrives(does),
           does => flight # None /\ flight.fate = "underway",
           NEW r, NEW e \in BOOLEAN, Owed(r, e), orig.edited => e, ManualFlight,
           NEW f, \A control : ~Carries(f, control)
    PROVE  Owing(r, e, spa', orig'.spa, f)
<1>1. CASE ~does
  <2>1. spa' = spa /\ orig' = orig
    BY <1>1, ArrivesTyped
  <2>2. QED
    BY <2>1 DEF Owed, Owing
<1>2. CASE does
  <2> DEFINE g == flight.goal
  <2>1. /\ flight # None /\ flight.fate = "underway" /\ g \in Goals /\ flight.by \in {"session", "manual"}
        /\ spa \in Spa /\ spa' = Apply(spa, g)
        /\ orig'.spa.high = orig.spa.high /\ orig'.spa.mode = orig.spa.mode
    BY <1>2, ArrivesTyped DEF BathingTypeOK, Flight
  <2>2. /\ g[1] # "high_range" => spa'.high = spa.high
        /\ g[1] # "heat_mode" => spa'.mode = spa.mode
        /\ g[1] # "target" => spa'.hi = spa.hi /\ spa'.lo = spa.lo
        /\ spa.high => spa'.lo = spa.lo
    BY <2>1, ApplyOK
  <2>3. \A control : Carries(flight, control) <=> g[1] = control
    BY <2>1 DEF Carries
  <2> HIDE DEF g
  <2>4. CASE g[1] # "target"
    <3>1. orig' = orig
      BY <1>2, <2>4, ArrivesTyped DEF g
    <3>2. QED
      BY <2>2, <2>3, <2>4, <3>1 DEF Owed, Owing
  <2>5. CASE g[1] = "target" /\ flight.by = "session"
    <3>1. orig' = orig
      BY <1>2, <2>5, ArrivesTyped
    <3>2. QED
      BY <2>2, <2>3, <2>5, <3>1 DEF Owed, Owing
  <2>6. CASE g[1] = "target" /\ flight.by = "manual"
    <3>1. orig.edited /\ e
      BY <2>1, <2>6 DEF ManualFlight, g
    <3>2. IF spa.high THEN orig'.spa.lo = orig.spa.lo ELSE orig'.spa.lo = spa'.lo
      BY <1>2, <2>1, <2>6, <3>1, ArrivesTyped DEF g
    <3>3. QED
      BY <2>1, <2>2, <2>3, <2>6, <3>1, <3>2 DEF Owed, Owing
  <2>7. QED
    BY <2>1, <2>4, <2>5, <2>6
<1>3. QED
  BY <1>1, <1>2

(* Land, or leaving the link: nothing is under way any more.               *)
LEMMA LandDebt ==
    ASSUME Invariant, NEW does \in BOOLEAN, Arrives(does),
           does => flight # None /\ flight.fate = "underway",
           obs' = obs, durable' = durable, touched' = touched, saving' \in {saving, None},
           \A control : ~Carries(flight', control),
           \/ flight' = None
           \/ flight # None /\ flight' # None /\ flight'.by = flight.by /\ flight'.goal = flight.goal,
           flight' = None /\ ~resync' => flight = None /\ ~resync
    PROVE  DebtOK'
<1>1. BathingTypeOK
  BY DEF Invariant
<1>2. Coming' \in {Coming, None} /\ (Coming' # None => saving' = saving) /\ (Ends' => Ends /\ saving' = saving)
  BY DEF Coming, Ends
<1>3. CASE touched \/ Live = {}
  BY <1>2, <1>3 DEF DebtOK, Live
<1>4. CASE ~touched /\ Live # {}
  <2>1. /\ Seen /\ ManualFlight
        /\ durable # None => Owed(durable, orig.edited)
        /\ Coming # None => Owed(Coming, orig.edited \/ saving.then = "manual")
        /\ Ends => GivenBack(durable)
    BY <1>4 DEF Invariant, DebtOK
  <2>2. /\ orig' \in [spa : Spa, edited : BOOLEAN] /\ orig'.edited = orig.edited /\ orig.edited \in BOOLEAN
        /\ ~does => spa' = spa /\ orig' = orig
    BY <1>1, ArrivesTyped DEF BathingTypeOK
  <2>3. Seen'
    BY <2>1, <2>2 DEF Seen, SameBut
  <2>4. ManualFlight'
    BY <2>1, <2>2 DEF ManualFlight
  <2>5. durable # None => Owed(durable, orig.edited)'
    <3>1. ASSUME durable # None
          PROVE  Owing(durable, orig.edited, spa', orig'.spa, flight')
      BY <1>1, <2>1, <2>2, <3>1, ArrivesOwing
    <3>2. QED
      BY <2>2, <3>1 DEF Owed
  <2>6. Coming' # None => Owed(Coming, orig.edited \/ saving.then = "manual")'
    <3> DEFINE e == orig.edited \/ saving.then = "manual"
    <3>1. e \in BOOLEAN /\ (orig.edited => e)
      BY <2>2
    <3>2. ASSUME Coming' # None
          PROVE  Owing(Coming, e, spa', orig'.spa, flight')
      <4>1. Owed(Coming, e)
        BY <1>2, <2>1, <3>2
      <4> HIDE DEF e
      <4>2. QED
        BY <1>1, <2>1, <3>1, <4>1, ArrivesOwing
    <3>3. Coming' # None => Coming' = Coming /\ (orig'.edited \/ saving'.then = "manual") = e
      BY <1>2, <2>2
    <3> HIDE DEF e
    <3>4. QED
      BY <3>2, <3>3 DEF Owed
  <2>7. Ends' => GivenBack(durable)'
    BY <1>2, <2>1, <2>2 DEF GivenBack, Target
  <2>8. QED
    BY <1>2, <2>3, <2>4, <2>5, <2>6, <2>7 DEF DebtOK
<1>5. QED
  BY <1>3, <1>4

(* A message that arrives, or does not, keeps the invariant.               *)
LEMMA LandKeeps ==
    ASSUME Invariant, Land
    PROVE  Invariant'
<1>1. /\ flight # None /\ flight.fate = "underway" /\ flight \in Flight /\ Arrives(TRUE)
      /\ flight' = [flight EXCEPT !.fate = "landed"]
      /\ UNCHANGED <<obs, up, now, enabled, runnerVars, resync, durable, left, requests, touched, sawEnd>>
  BY DEF Land, Invariant, BathingTypeOK
<1>2. flight' \in Flight /\ flight' # None /\ flight'.fate = "landed" /\ flight'.by = flight.by
      /\ flight'.goal = flight.goal
  BY <1>1, NoneIsNoRecord DEF Flight
<1>3. /\ spa' \in Spa /\ orig' \in [spa : Spa, edited : BOOLEAN] /\ orig'.edited = orig.edited
  BY <1>1, ArrivesTyped DEF Invariant
<1>4. BathingTypeOK'
  BY <1>1, <1>2, <1>3 DEF Invariant, BathingTypeOK, runnerVars
<1>5. Kept' /\ Mirrored' /\ IntentOK' /\ ManualOK' /\ EditsOK' /\ EndOK'
  BY <1>1, <1>3 DEF Invariant, Kept, Mirrored, IntentOK, ManualOK, EditsOK, EndOK, Coming, Live, runnerVars
<1>6. DebtOK'
  BY <1>1, <1>2, LandDebt DEF Carries, runnerVars
<1>7. FitsOK'
  <2>1. flight.goal \in Goals /\ spa \in Spa /\ spa' = Apply(spa, flight.goal)
    BY <1>1, ArrivesTyped DEF Flight, Invariant, BathingTypeOK
  <2>2. ~Carries(flight, "high_range") => spa'.high = spa.high
    BY <1>1, <2>1, ApplyOK DEF Carries
  <2>3. QED
    BY <1>1, <1>2, <2>2 DEF Invariant, FitsOK, Carries, runnerVars
<1>8. QED
  BY <1>4, <1>5, <1>6, <1>7 DEF Invariant

(* A link that is left behind owes what it did.                            *)
LEMMA LeftOK ==
    ASSUME Invariant, LinkLeft
    PROVE  /\ up' = FALSE /\ flight' = None /\ resync' \in BOOLEAN
           /\ spa' \in Spa /\ orig' \in [spa : Spa, edited : BOOLEAN] /\ orig'.edited = orig.edited
           /\ obs' = obs /\ durable' = durable /\ touched' = touched /\ saving' \in {saving, None} => DebtOK'
<1>1. PICK arrives \in BOOLEAN : (arrives => (flight # None /\ flight.fate = "underway")) /\ Arrives(arrives)
  BY DEF LinkLeft
<1>2. flight' = None /\ up' = FALSE /\ resync' = (resync \/ flight # None) /\ resync \in BOOLEAN
  BY DEF LinkLeft, Invariant, BathingTypeOK
<1>3. obs' = obs /\ durable' = durable /\ touched' = touched /\ saving' \in {saving, None} => DebtOK'
  BY <1>1, <1>2, LandDebt DEF Carries
<1>4. QED
  BY <1>1, <1>2, <1>3, ArrivesTyped DEF Invariant

(* A request that ends is still the request it was.                        *)
LEMMA EndedOK ==
    ASSUME NEW by, NEW stage, NEW item,
           stage \in {"queued", "sent", "verified", "failed", "cancelled"}
    PROVE  /\ item \in Intent \cup {None} =>
                /\ Ended(item, by, stage) \in Intent \cup {None}
                /\ Ended(item, by, stage) # None =>
                     /\ item # None /\ Ended(item, by, stage).session = item.session
                     /\ Ended(item, by, stage).late = item.late
                     /\ Ended(item, by, stage).current = item.current
           /\ item \in Manual \cup {None} =>
                /\ Ended(item, by, stage) \in Manual \cup {None}
                /\ (item # None) <=> (Ended(item, by, stage) # None)
                /\ item # None =>
                     /\ Ended(item, by, stage).goal = item.goal
                     /\ item.stage = "saving" => Ended(item, by, stage).stage = "saving"
<1> DEFINE x == Ended(item, by, stage)
<1>1. x = item \/ (item # None /\ item.stage = "sent" /\ x = [item EXCEPT !.stage = stage])
  BY DEF Ended
<1> HIDE DEF x
<1>2. ASSUME item \in Intent
      PROVE  x \in Intent /\ x.session = item.session /\ x.late = item.late /\ x.current = item.current
  BY <1>1, <1>2 DEF Intent
<1>3. ASSUME item \in Manual
      PROVE  x \in Manual /\ x.goal = item.goal /\ (item.stage = "saving" => x.stage = "saving")
  BY <1>1, <1>3 DEF Manual
<1>4. item = None => x = None
  BY <1>1
<1>5. QED
  BY <1>2, <1>3, <1>4, NoneIsNoRecord DEF x

(* A lost link keeps the invariant.                                        *)
LEMMA LostKeeps ==
    ASSUME Invariant, Lost
    PROVE  Invariant'
<1>1. /\ LinkLeft /\ attempt' = None /\ manual' = Ended(manual, "manual", "queued")
      /\ intent' = IF intent = None THEN None
                   ELSE [intent EXCEPT !.current = FALSE,
                                       !.stage = IF intent.stage = "sent" THEN "queued" ELSE intent.stage]
      /\ UNCHANGED <<obs, now, enabled, session, saving, lock, expired, storageFailed, closed,
                     durable, requests, touched, sawEnd>>
  BY DEF Lost, AttemptIsOfEpoch
<1>2. /\ intent' \in Intent \cup {None}
      /\ intent' # None => /\ intent # None /\ intent'.session = intent.session
                           /\ intent'.late = intent.late /\ ~intent'.current
  <2>1. CASE intent = None
    BY <1>1, <2>1
  <2>2. CASE intent # None
    <3>1. intent \in Intent
      BY <2>2 DEF Invariant, BathingTypeOK
    <3>2. intent' = [intent EXCEPT !.current = FALSE,
                                   !.stage = IF intent.stage = "sent" THEN "queued" ELSE intent.stage]
      BY <1>1, <2>2
    <3>3. intent' \in Intent /\ intent'.session = intent.session /\ intent'.late = intent.late
          /\ ~intent'.current
      BY <3>1, <3>2 DEF Intent
    <3>4. QED
      BY <2>2, <3>3
  <2>3. QED
    BY <2>1, <2>2
<1>3. /\ manual' \in Manual \cup {None} /\ (manual # None <=> manual' # None)
      /\ manual # None => manual'.goal = manual.goal /\ (manual.stage = "saving" => manual'.stage = "saving")
  BY <1>1, EndedOK DEF Invariant, BathingTypeOK
<1>4. BathingTypeOK'
  BY <1>1, <1>2, <1>3, LeftOK DEF Invariant, BathingTypeOK
<1>5. Kept' /\ Mirrored' /\ IntentOK' /\ EndOK' /\ EditsOK'
  BY <1>1, <1>2, LeftOK DEF Invariant, Kept, Mirrored, IntentOK, EditsOK, EndOK, Coming
<1>6. ManualOK'
  BY <1>1, <1>3, LeftOK DEF Invariant, ManualOK, Coming, Live
<1>7. DebtOK'
  BY <1>1, LeftOK
<1>8. FitsOK'
  BY <1>2 DEF FitsOK
<1>9. QED
  BY <1>4, <1>5, <1>6, <1>7, <1>8 DEF Invariant

(* A restart knows the session from its record alone, and keeps the        *)
(* invariant.                                                              *)
LEMMA RestartKeeps ==
    ASSUME Invariant, Restart
    PROVE  Invariant'
<1>1. /\ LinkLeft /\ saving' = None /\ lock' = "free" /\ manual' = None /\ intent' = None /\ attempt' = None
      /\ expired' = FALSE /\ closed' = FALSE /\ sawEnd' = FALSE
      /\ \/ session' = durable /\ storageFailed' = FALSE
         \/ session' = None /\ storageFailed' = TRUE
      /\ UNCHANGED <<obs, now, enabled, durable, requests, touched>>
  BY DEF Restart, Pause
<1>2. Coming' = None
  BY <1>1 DEF Coming
<1>3. BathingTypeOK'
  BY <1>1, LeftOK DEF Invariant, BathingTypeOK
<1>4. Kept' /\ Mirrored' /\ IntentOK' /\ ManualOK' /\ EndOK'
  BY <1>1, <1>2 DEF Invariant, Kept, Mirrored, IntentOK, ManualOK, EndOK
<1>5. EditsOK'
  BY <1>1, <1>2, LeftOK DEF Invariant, EditsOK, Released
<1>6. DebtOK'
  BY <1>1, LeftOK
<1>7. FitsOK'
  BY <1>1 DEF FitsOK
<1>8. QED
  BY <1>3, <1>4, <1>5, <1>6, <1>7 DEF Invariant

-----------------------------------------------------------------------------
(* The engine, the panel, the clock and the options.                       *)

(* Nothing lands; what was observed is what there is, or nothing changed   *)
(* that a session changes.                                                 *)
LEMMA DebtWeakens ==
    ASSUME DebtOK, UNCHANGED <<durable, saving, orig, touched>>, SameBut(spa', spa),
           flight' \in {flight, None},
           ~touched /\ Seen => Seen'
    PROVE  DebtOK'
<1>1. Coming' = Coming /\ (Ends' <=> Ends) /\ Live' = Live
  BY DEF Coming, Ends, Live
<1>2. CASE touched \/ Live = {}
  BY <1>1, <1>2 DEF DebtOK
<1>3. CASE ~touched /\ Live # {}
  <2>1. /\ Seen /\ ManualFlight
        /\ durable # None => Owed(durable, orig.edited)
        /\ Coming # None => Owed(Coming, orig.edited \/ saving.then = "manual")
        /\ Ends => GivenBack(durable)
    BY <1>3 DEF DebtOK
  <2>2. spa'.high = spa.high /\ spa'.hi = spa.hi /\ spa'.lo = spa.lo
        /\ Policy(spa'.mode) = Policy(spa.mode)
    BY DEF SameBut
  <2>3. \A r, e : Owing(r, e, spa, orig.spa, flight) => Owing(r, e, spa', orig.spa, flight')
    BY <2>2 DEF Owing, Carries
  <2>4. durable # None => Owed(durable, orig.edited)'
    BY <2>1, <2>3 DEF Owed
  <2>5. Coming # None => Owed(Coming, orig.edited \/ saving.then = "manual")'
    BY <1>1, <2>1, <2>3 DEF Owed
  <2>6. Ends => GivenBack(durable)'
    BY <2>1, <2>2 DEF GivenBack, Target
  <2>7. Seen' /\ ManualFlight'
    BY <1>3, <2>1 DEF ManualFlight
  <2>8. QED
    BY <1>1, <2>4, <2>5, <2>6, <2>7 DEF DebtOK
<1>4. QED
  BY <1>2, <1>3

(* Records, users' goals, edits and the end are where they were.           *)
LEMMA RecordsStay ==
    ASSUME Invariant, UNCHANGED <<session, durable, saving, lock, storageFailed, orig, expired, sawEnd>>,
           intent' = None \/ (intent # None /\ intent'.session = intent.session /\ intent'.late = intent.late),
           IF manual' = None THEN lock # "applying" /\ manual = None
           ELSE manual # None /\ manual'.goal = manual.goal
                /\ (manual.stage = "saving" => manual'.stage = "saving")
    PROVE  Kept' /\ Mirrored' /\ IntentOK' /\ ManualOK' /\ EditsOK' /\ EndOK'
<1>1. Coming' = Coming /\ Live' = Live
  BY DEF Coming, Live
<1>2. Kept' /\ Mirrored' /\ IntentOK' /\ EditsOK' /\ EndOK'
  BY <1>1 DEF Invariant, Kept, Mirrored, IntentOK, EditsOK, EndOK
<1>3. ManualOK'
  BY <1>1 DEF Invariant, ManualOK
<1>4. QED
  BY <1>2, <1>3

(* A request that fits its session goes on fitting while neither changes.  *)
LEMMA FitsStay ==
    ASSUME FitsOK, touched => touched', ~touched' => spa'.high = spa.high,
           intent' = None \/ (intent # None /\ intent'.session = intent.session
                              /\ (intent'.current => intent.current)),
           \A control : Carries(flight', control) => Carries(flight, control)
    PROVE  FitsOK'
  BY DEF FitsOK

(* A report of the spa keeps the invariant.                                *)
LEMMA ReportKeeps ==
    ASSUME Invariant, Report
    PROVE  Invariant'
<1>1. /\ obs' = spa /\ spa' = spa /\ flight' \in {flight, None} /\ orig' = orig
      /\ \/ intent' = intent \/ intent' = Ended(intent, "session", Outcome)
      /\ \/ manual' = manual \/ manual' = Ended(manual, "manual", Outcome)
      /\ UNCHANGED <<up, now, enabled, session, saving, lock, attempt, expired, storageFailed,
                     closed, resync, durable, left, requests, touched, sawEnd>>
  BY DEF Report, ghostVars
<1>2. /\ BathingTypeOK /\ intent \in Intent \cup {None} /\ manual \in Manual \cup {None}
      /\ Outcome \in {"queued", "verified"}
  BY DEF Invariant, BathingTypeOK, Outcome
<1>3. /\ intent' \in Intent \cup {None}
      /\ intent' # None => /\ intent # None /\ intent'.session = intent.session
                           /\ intent'.late = intent.late
      /\ intent' # None => (intent'.current => intent.current)
  <2>1. CASE intent' = intent
    BY <1>2, <2>1
  <2>2. CASE intent' = Ended(intent, "session", Outcome)
    BY <1>2, <2>2, EndedOK
  <2>3. QED
    BY <1>1, <2>1, <2>2
<1>4. /\ manual' \in Manual \cup {None} /\ (manual # None <=> manual' # None)
      /\ manual # None => manual'.goal = manual.goal /\ (manual.stage = "saving" => manual'.stage = "saving")
  BY <1>1, <1>2, EndedOK
<1>5. BathingTypeOK'
  BY <1>1, <1>2, <1>3, <1>4 DEF BathingTypeOK
<1>6. Kept' /\ Mirrored' /\ IntentOK' /\ ManualOK' /\ EditsOK' /\ EndOK'
  <2>1. lock = "applying" => manual # None
    BY DEF Invariant, ManualOK
  <2>2. QED
    BY <1>1, <1>3, <1>4, <2>1, RecordsStay
<1>7. FitsOK'
  BY <1>1, <1>3, FitsStay DEF Invariant, Carries
<1>8. DebtOK'
  BY <1>1, DebtWeakens DEF Invariant, SameBut, Seen
<1>9. QED
  BY <1>5, <1>6, <1>7, <1>8 DEF Invariant

(* A goal is only sent for what the session is to change: what it does not *)
(* own shows the goal already.                                             *)
LEMMA SentOwing ==
    ASSUME Invariant, ~touched, flight = None, ~resync,
           intent # None, intent.current, ~Meets(obs, Goal(session)),
           NEW f, f.goal = Goal(session), f.by = "session"
    PROVE  Owing(session, orig.edited, spa, orig.spa, f)
<1> DEFINE r == session
           g == Goal(session)
<1>1. /\ BathingTypeOK /\ r \in Checkpoint /\ r # None /\ durable = r /\ intent.session = r
      /\ obs \in Spa /\ spa \in Spa /\ r \in Session /\ Consistent(r)
  BY DEF Invariant, IntentOK, Mirrored, Kept, Checkpoint, BathingTypeOK
<1>2. Owed(r, orig.edited) /\ Seen
  BY <1>1 DEF Invariant, DebtOK, Live
<1>3. obs.high = spa.high /\ obs.hi = spa.hi /\ obs.lo = spa.lo
      /\ Policy(obs.mode) = Policy(spa.mode)
  BY <1>2 DEF Seen, SameBut
<1>4. \A control : Carries(f, control) => g[1] = control
  BY DEF Carries
<1>5. ~Carries(flight, "target") /\ ~Carries(flight, "heat_mode")
  BY DEF Carries
<1> HIDE DEF r
<1>6. CASE r.step \in {"plain", "activate_high", "restore_range"}
  <2>1. r.step = "plain" \/ g[1] = "high_range"
    BY <1>6 DEF Goal, r
  <2>2. QED
    BY <1>2, <1>4, <1>6, <2>1 DEF Owed, Owing, r
<1>7. CASE r.step \in {"set_mode", "restore_mode"}
  <2>1. g = <<"heat_mode", IF r.step = "set_mode" THEN Ready ELSE r.mode>>
    BY <1>7 DEF Goal, r
  <2>2. g[1] = "heat_mode" /\ g[2] = IF r.step = "set_mode" THEN Ready ELSE r.mode
    BY <2>1
  <2>3. obs.mode # g[2]
    BY <2>2 DEF Meets, Value
  <2>4. r.ownsMode
    <3>1. CASE r.step = "restore_mode"
      BY <1>1, <3>1 DEF Consistent
    <3>2. CASE r.step = "set_mode" /\ ~r.ownsMode
      <4>1. r.mode = Ready
        BY <1>1, <3>2 DEF Consistent, Session
      <4>2. Policy(obs.mode) = Ready
        BY <1>2, <1>3, <3>2, <4>1 DEF Owed, Owing, r
      <4>3. obs.mode = Ready
        BY <1>1, <4>2, PolicyOK DEF Spa
      <4>4. QED
        BY <2>2, <2>3, <3>2, <4>3
    <3>3. QED
      BY <1>1, <1>7, <3>1, <3>2 DEF Session
  <2> HIDE DEF g
  <2>5. QED
    BY <1>2, <1>4, <1>7, <2>2, <2>4 DEF Owed, Owing, r
<1>8. CASE r.step \in {"set_target", "active", "restore_high"}
  <2>1. spa.high
    BY <1>1, <1>8 DEF Invariant, FitsOK
  <2>2. g = <<"target", IF r.step = "restore_high" THEN r.high ELSE BathingTarget(r)>>
    BY <1>8 DEF Goal, r
  <2>3. g[1] = "target" /\ g[2] = IF r.step = "restore_high" THEN r.high ELSE BathingTarget(r)
    BY <2>2
  <2>4. obs.hi # g[2]
    <3>1. Target(obs) = obs.hi
      BY <1>1, <1>3, <2>1, TargetTyped
    <3>2. Target(obs) # g[2]
      BY <2>3 DEF Meets, Value
    <3>3. QED
      BY <3>1, <3>2
  <2>5. orig.edited \/ OwnsTarget(r)
    <3>1. CASE ~orig.edited /\ ~OwnsTarget(r)
      <4>1. ~r.ownsTarget /\ spa.hi = orig.spa.hi /\ r.high # None /\ r.high = orig.spa.hi
        BY <1>1, <1>2, <1>8, <3>1 DEF OwnsTarget, Owed, Owing, Consistent, Working
      <4>2. r.step # "restore_high" => ~(r.high < r.minimum)
        BY <1>1, <1>8, <4>1 DEF Consistent, Working
      <4>3. r.high \in Int /\ r.minimum \in Int
        BY <1>1, <4>1, NumbersOK DEF Session
      <4>4. r.step # "restore_high" => BathingTarget(r) = r.high
        BY <1>1, <4>1, <4>2, <4>3, BathingTargetOK
      <4>5. QED
        BY <1>3, <2>3, <2>4, <4>1, <4>4
    <3>2. QED
      BY <3>1
  <2> HIDE DEF g
  <2>6. QED
    BY <1>2, <1>4, <1>5, <1>8, <2>1, <2>3, <2>5 DEF Owed, Owing, r
<1>9. QED
  BY <1>1, <1>6, <1>7, <1>8 DEF Session, r

(* What is sent for the session keeps the invariant.                       *)
LEMMA SendIntentKeeps ==
    ASSUME Invariant, SendIntent
    PROVE  Invariant'
<1> DEFINE late == intent.late \/ now >= intent.session.end
           own == session = intent.session
           goal == Goal(intent.session)
           valid == /\ Writable /\ enabled /\ own /\ intent.current
                    /\ intent.session.phase = "restoring" \/ ~late
           message == [by |-> "session", goal |-> goal, step |-> Step(obs, goal), fate |-> "underway"]
<1>1. /\ BathingTypeOK /\ intent \in Intent /\ intent # None /\ intent.session = session /\ saving = None
      /\ session \in Checkpoint /\ session # None /\ durable = session /\ ~storageFailed
      /\ flight = None /\ ~resync /\ up /\ own
  BY DEF SendIntent, CanSend, Settled, Invariant, BathingTypeOK, IntentOK, Kept, Mirrored
<1>2. /\ expired' = (expired \/ late) /\ sawEnd' = (sawEnd \/ late)
      /\ \E stage \in {"cancelled", "verified", "sent", "failed"} :
            intent' = [intent EXCEPT !.stage = stage, !.late = late]
      /\ \/ flight' = flight
         \/ valid /\ ~Meets(obs, goal) /\ flight' = message
      /\ UNCHANGED <<spaVars, session, saving, lock, attempt, manual, storageFailed, closed,
                     resync, durable, left, requests, orig, touched>>
  BY <1>1 DEF SendIntent, TellRunner
<1>3. late \in BOOLEAN /\ (intent.late => late)
  BY <1>1 DEF Intent
<1> HIDE DEF late
<1>4. PICK stage \in {"cancelled", "verified", "sent", "failed"} :
            intent' = [intent EXCEPT !.stage = stage, !.late = late]
  BY <1>2
<1>5. /\ intent' \in Intent /\ intent'.session = session /\ intent'.late = late
      /\ intent'.current = intent.current /\ intent' # None
  <2>1. intent' \in Intent /\ intent'.session = intent.session /\ intent'.late = late
        /\ intent'.current = intent.current
    BY <1>1, <1>3, <1>4 DEF Intent
  <2>2. QED
    BY <1>1, <2>1, NoneIsNoRecord
<1>6. goal = Goal(session) /\ goal \in Goals
  BY <1>1, GoalTyped
<1> HIDE DEF goal
<1>7. flight' = None \/ (/\ intent.current /\ ~Meets(obs, goal) /\ flight' \in Flight /\ flight' # None
                         /\ flight'.goal = goal /\ flight'.by = "session")
  <2>1. obs \in Spa
    BY <1>1 DEF BathingTypeOK
  <2>2. message \in Flight /\ message.goal = goal /\ message.by = "session"
    BY <1>6, <2>1, StepTyped DEF Flight
  <2> HIDE DEF message
  <2>3. QED
    BY <1>1, <1>2, <2>2, NoneIsNoRecord
<1>8. BathingTypeOK'
  BY <1>1, <1>2, <1>3, <1>5, <1>7 DEF BathingTypeOK, spaVars
<1>9. Coming' = None /\ Coming = None /\ Live' = Live
  BY <1>1, <1>2 DEF Coming, Live
<1>10. Kept' /\ Mirrored' /\ IntentOK' /\ ManualOK' /\ EditsOK'
  BY <1>1, <1>2, <1>5, <1>9 DEF Invariant, Kept, Mirrored, IntentOK, ManualOK, EditsOK
<1>11. EndOK'
  <2>1. expired => sawEnd
    BY <1>1 DEF Invariant, EndOK
  <2>2. expired /\ ~Over(session) => late
    BY <1>1, <1>3 DEF Invariant, EndOK
  <2>3. sawEnd => expired \/ Over(session)
    BY <1>1 DEF Invariant, EndOK
  <2>4. QED
    BY <1>1, <1>2, <1>5, <2>1, <2>2, <2>3 DEF EndOK
<1>12. FitsOK'
  <2>1. ~Carries(flight', "high_range") \/ session.step \notin {"set_target", "active", "restore_high"}
    <3>1. session.step \in {"set_target", "active", "restore_high"} => goal[1] = "target"
      BY <1>6 DEF Goal
    <3>2. QED
      BY <1>7, <3>1 DEF Carries
  <2>2. QED
    BY <1>1, <1>2, <1>5, <2>1 DEF Invariant, FitsOK, spaVars
<1>13. DebtOK'
  <2>1. CASE touched
    BY <1>2, <2>1 DEF DebtOK
  <2>2. CASE ~touched /\ flight' = None
    BY <1>1, <1>2, <2>2, DebtStays DEF Invariant, spaVars
  <2>3. CASE ~touched /\ flight' # None
    <3>1. Owing(session, orig.edited, spa, orig.spa, flight')
      BY <1>1, <1>6, <1>7, <2>3, SentOwing
    <3>2. Owed(durable, orig.edited)'
      BY <1>1, <1>2, <3>1 DEF Owed, spaVars
    <3>3. Seen' /\ ManualFlight' /\ ~Ends'
      BY <1>1, <1>2, <1>7, <2>3 DEF Seen, ManualFlight, Ends
    <3>4. QED
      BY <1>9, <3>2, <3>3 DEF DebtOK
  <2>4. QED
    BY <2>1, <2>2, <2>3
<1>14. QED
  BY <1>8, <1>10, <1>11, <1>12, <1>13 DEF Invariant

(* What is sent for a manual change keeps the invariant.                   *)
LEMMA SendManualKeeps ==
    ASSUME Invariant, SendManual
    PROVE  Invariant'
<1> DEFINE message == [by |-> "manual", goal |-> manual.goal,
                       step |-> Step(obs, manual.goal), fate |-> "underway"]
<1>1. /\ BathingTypeOK /\ flight = None /\ ~resync /\ manual \in Manual /\ manual # None /\ manual.stage = "queued"
      /\ lock = "applying" /\ saving = None
  BY DEF SendManual, CanSend, Settled, Invariant, BathingTypeOK, ManualOK
<1>2. /\ \E stage \in {"verified", "failed", "sent"} : manual' = [manual EXCEPT !.stage = stage]
      /\ \/ flight' = None
         \/ flight' = message
      /\ UNCHANGED <<spaVars, session, saving, lock, intent, attempt, expired, storageFailed, closed,
                     resync, durable, ghostVars>>
  BY <1>1 DEF SendManual
<1>3. manual' \in Manual /\ manual' # None /\ manual'.goal = manual.goal
  <2>1. manual' \in Manual /\ manual'.goal = manual.goal
    BY <1>1, <1>2 DEF Manual
  <2>2. QED
    BY <2>1, NoneIsNoRecord
<1>4. flight' = None \/ (flight' \in Flight /\ flight' # None /\ flight'.by = "manual"
                         /\ flight'.goal = manual.goal)
  <2>1. obs \in Spa /\ manual.goal \in Goals
    BY <1>1 DEF BathingTypeOK, Manual
  <2>2. message \in Flight /\ message.goal = manual.goal /\ message.by = "manual"
    BY <2>1, StepTyped DEF Flight
  <2> HIDE DEF message
  <2>3. QED
    BY <1>2, <2>2, NoneIsNoRecord
<1>5. BathingTypeOK'
  BY <1>1, <1>2, <1>3, <1>4 DEF BathingTypeOK, spaVars, ghostVars
<1>6. Kept' /\ Mirrored' /\ IntentOK' /\ ManualOK' /\ EditsOK' /\ EndOK'
  <2>1. intent' = None \/ (intent # None /\ intent'.session = intent.session /\ intent'.late = intent.late)
    BY <1>2
  <2>2. manual.stage # "saving"
    BY <1>1
  <2>3. QED
    BY <1>1, <1>2, <1>3, <2>1, <2>2, RecordsStay DEF ghostVars
<1>7. Live # {} => manual.goal[1] = "hold" \/ (manual.goal[1] = "target" /\ orig.edited)
  BY <1>1 DEF Invariant, ManualOK
<1>8. intent # None => Live # {}
  BY DEF Invariant, IntentOK, Mirrored, Live
<1>9. FitsOK'
  BY <1>1, <1>2, <1>4, <1>7, <1>8 DEF Invariant, FitsOK, Carries, spaVars, ghostVars
<1>10. DebtOK'
  <2>1. Coming = None /\ Coming' = None /\ Live' = Live /\ ~Ends'
    BY <1>1, <1>2 DEF Coming, Live, Ends
  <2>2. CASE touched \/ durable = None
    BY <1>2, <2>1, <2>2 DEF DebtOK, Live, ghostVars
  <2>3. CASE flight' = None
    BY <1>1, <1>2, <2>3, DebtStays DEF Invariant, spaVars, ghostVars
  <2>4. CASE ~touched /\ durable # None /\ flight' # None
    <3>1. Seen /\ Owed(durable, orig.edited) /\ Live # {}
      BY <2>4 DEF Invariant, DebtOK, Live
    <3>2. flight'.goal[1] = "hold" \/ (flight'.goal[1] = "target" /\ orig.edited)
      BY <1>4, <1>7, <2>4, <3>1
    <3>3. /\ ~Carries(flight', "heat_mode") /\ ~Carries(flight', "high_range")
          /\ Carries(flight', "target") => orig.edited
      BY <3>2 DEF Carries
    <3>4. Owing(durable, orig.edited, spa, orig.spa, flight')
      BY <1>4, <2>4, <3>1, <3>3 DEF Owed, Owing
    <3>5. Owed(durable, orig.edited)'
      BY <1>2, <3>4 DEF Owed, spaVars, ghostVars
    <3>6. Seen' /\ ManualFlight'
      BY <1>2, <2>4, <3>2 DEF Seen, ManualFlight, ghostVars
    <3>7. QED
      BY <2>1, <3>5, <3>6 DEF DebtOK
  <2>5. QED
    BY <2>2, <2>3, <2>4
<1>11. QED
  BY <1>5, <1>6, <1>9, <1>10 DEF Invariant

(* Steps that neither the spa nor a record sees.                           *)
LEMMA AsideKeeps ==
    ASSUME Invariant, BathingTypeOK',
           UNCHANGED <<spa, obs, flight, resync, session, durable, saving, lock, storageFailed,
                       orig, touched, expired, sawEnd>>,
           intent' = None \/ (intent # None /\ intent'.session = intent.session
                              /\ intent'.late = intent.late /\ intent'.current = intent.current),
           \/ manual' = manual
           \/ manual # None /\ manual' # None /\ manual'.goal = manual.goal /\ manual.stage # "saving"
    PROVE  Invariant'
<1>1. Kept' /\ Mirrored' /\ IntentOK' /\ ManualOK' /\ EditsOK' /\ EndOK'
  <2>1. manual' = None => lock # "applying" /\ manual = None
    BY DEF Invariant, ManualOK
  <2>2. intent' = None \/ (intent # None /\ intent'.session = intent.session /\ intent'.late = intent.late)
    OBVIOUS
  <2>3. QED
    BY <2>1, <2>2, RecordsStay
<1>2. FitsOK'
  BY FitsStay DEF Invariant
<1>3. DebtOK'
  BY DebtStays DEF Invariant
<1>4. QED
  BY <1>1, <1>2, <1>3 DEF Invariant

(* Options, the clock and a request that is given up keep the invariant.   *)
LEMMA OptionsKeep ==
    ASSUME Invariant, Disable \/ Close \/ Enable \/ Clock \/ GivenUp
    PROVE  Invariant'
<1>1. BathingTypeOK
  BY DEF Invariant
<1>2. CASE Disable \/ Close
  <2>1. /\ intent' = None /\ attempt' = None
        /\ manual' = IF manual = None \/ manual.stage = "saving" THEN manual
                     ELSE [manual EXCEPT !.stage = "cancelled"]
        /\ enabled' \in BOOLEAN /\ closed' \in BOOLEAN
        /\ UNCHANGED <<spa, obs, up, now, session, saving, lock, expired, storageFailed,
                       engineVars, durable, requests, orig, touched, sawEnd>>
    BY <1>1, <1>2 DEF Disable, Close, Pause, BathingTypeOK, spaVars
  <2>2. /\ manual' \in Manual \cup {None}
        /\ \/ manual' = manual
           \/ manual # None /\ manual' # None /\ manual'.goal = manual.goal /\ manual.stage # "saving"
    <3>1. CASE manual = None \/ manual.stage = "saving"
      BY <1>1, <2>1, <3>1 DEF BathingTypeOK
    <3>2. CASE ~(manual = None \/ manual.stage = "saving")
      <4>1. manual \in Manual /\ manual' = [manual EXCEPT !.stage = "cancelled"]
        BY <1>1, <2>1, <3>2 DEF BathingTypeOK
      <4>2. manual' \in Manual /\ manual'.goal = manual.goal
        BY <4>1 DEF Manual
      <4>3. QED
        BY <3>2, <4>2, NoneIsNoRecord
    <3>3. QED
      BY <3>1, <3>2
  <2>3. BathingTypeOK'
    BY <1>1, <2>1, <2>2 DEF BathingTypeOK, engineVars
  <2>4. QED
    BY <2>1, <2>2, <2>3, AsideKeeps DEF engineVars
<1>3. CASE Enable \/ Clock
  <2>1. /\ now' \in Times /\ enabled' \in BOOLEAN
        /\ UNCHANGED <<spa, obs, up, runnerVars, engineVars, durable, requests, orig, touched, sawEnd>>
    <3>1. CASE Enable
      BY <1>1, <3>1 DEF Enable, BathingTypeOK, ghostVars
    <3>2. CASE Clock
      <4>1. now' \in Times
        BY <1>1, <3>2, Targets DEF Clock, BathingTypeOK, Times
      <4>2. QED
        BY <1>1, <3>2, <4>1 DEF Clock, BathingTypeOK
    <3>3. QED
      BY <1>3, <3>1, <3>2
  <2>2. BathingTypeOK'
    BY <1>1, <2>1 DEF BathingTypeOK, runnerVars, engineVars
  <2>3. QED
    BY <2>1, <2>2, AsideKeeps DEF runnerVars, engineVars
<1>4. CASE GivenUp
  <2>1. /\ intent # None /\ intent \in Intent /\ intent' = [intent EXCEPT !.stage = "failed"]
        /\ UNCHANGED <<spaVars, session, saving, lock, attempt, manual, expired, storageFailed, closed,
                       engineVars, durable, requests, orig, touched, sawEnd>>
    BY <1>1, <1>4 DEF GivenUp, BathingTypeOK
  <2>2. intent' \in Intent /\ intent'.session = intent.session /\ intent'.late = intent.late
        /\ intent'.current = intent.current
    BY <2>1 DEF Intent
  <2>3. BathingTypeOK'
    BY <1>1, <2>1, <2>2 DEF BathingTypeOK, spaVars, engineVars
  <2>4. QED
    BY <2>1, <2>2, <2>3, AsideKeeps DEF spaVars, engineVars
<1>5. QED
  BY <1>2, <1>3, <1>4

(* The end of a manual change keeps the invariant.                         *)
LEMMA ApplyEndsKeeps ==
    ASSUME Invariant, ApplyEnds
    PROVE  Invariant'
<1>1. /\ lock = "applying" /\ lock' = "free" /\ manual' = None /\ saving = None
      /\ UNCHANGED <<spaVars, session, saving, intent, attempt, expired, storageFailed, closed,
                     engineVars, durable, ghostVars>>
  BY DEF ApplyEnds, Invariant, BathingTypeOK
<1>2. BathingTypeOK'
  BY <1>1 DEF Invariant, BathingTypeOK, spaVars, engineVars, ghostVars
<1>3. Kept' /\ Mirrored' /\ IntentOK' /\ ManualOK' /\ EditsOK' /\ EndOK'
  BY <1>1 DEF Invariant, Kept, Mirrored, IntentOK, ManualOK, EditsOK, EndOK, Coming, ghostVars
<1>4. FitsOK'
  BY <1>1 DEF Invariant, FitsOK, Carries, spaVars, engineVars, ghostVars
<1>5. DebtOK'
  BY <1>1, DebtStays DEF Invariant, spaVars, engineVars, ghostVars
<1>6. QED
  BY <1>2, <1>3, <1>4, <1>5 DEF Invariant

(* A new link keeps the invariant.                                         *)
LEMMA ReconnectKeeps ==
    ASSUME Invariant, Reconnect
    PROVE  Invariant'
<1>1. /\ up' = TRUE /\ obs' = spa /\ resync' = FALSE /\ spa' = spa
      /\ UNCHANGED <<now, enabled, runnerVars, flight, durable, ghostVars>>
  BY DEF Reconnect
<1>2. BathingTypeOK'
  BY <1>1 DEF Invariant, BathingTypeOK, runnerVars, ghostVars
<1>3. Kept' /\ Mirrored' /\ IntentOK' /\ ManualOK' /\ EditsOK' /\ EndOK'
  BY <1>1 DEF Invariant, Kept, Mirrored, IntentOK, ManualOK, EditsOK, EndOK, Coming, Live,
              runnerVars, ghostVars
<1>4. FitsOK'
  BY <1>1 DEF Invariant, FitsOK, Carries, runnerVars, ghostVars
<1>5. DebtOK'
  BY <1>1, DebtWeakens DEF Invariant, Seen, SameBut, runnerVars, ghostVars
<1>6. QED
  BY <1>2, <1>3, <1>4, <1>5 DEF Invariant

(* A lost message keeps the invariant.                                     *)
LEMMA LoseMessageKeeps ==
    ASSUME Invariant, LoseMessage
    PROVE  Invariant'
<1>1. /\ flight # None /\ flight \in Flight /\ flight' = [flight EXCEPT !.fate = "lost"]
      /\ UNCHANGED <<spaVars, runnerVars, resync, durable, requests, orig, touched, sawEnd>>
  BY DEF LoseMessage, Invariant, BathingTypeOK
<1>2. flight' \in Flight /\ flight' # None /\ flight'.by = flight.by /\ flight'.goal = flight.goal
      /\ flight'.fate = "lost"
  BY <1>1, NoneIsNoRecord DEF Flight
<1>3. BathingTypeOK'
  BY <1>1, <1>2 DEF Invariant, BathingTypeOK, spaVars, runnerVars
<1>4. Kept' /\ Mirrored' /\ IntentOK' /\ ManualOK' /\ EditsOK' /\ EndOK'
  BY <1>1 DEF Invariant, Kept, Mirrored, IntentOK, ManualOK, EditsOK, EndOK, Coming, Live, runnerVars
<1>5. FitsOK'
  BY <1>1, <1>2 DEF Invariant, FitsOK, Carries, spaVars, runnerVars
<1>6. DebtOK'
  <2>1. Arrives(FALSE)
    BY <1>1 DEF Arrives, spaVars
  <2>2. QED
    BY <1>1, <1>2, <2>1, LandDebt DEF Carries, spaVars, runnerVars
<1>7. QED
  BY <1>3, <1>4, <1>5, <1>6 DEF Invariant

(* Somebody at the panel: either it counts, or it is only the hold.        *)
LEMMA PanelKeeps ==
    ASSUME Invariant, Panel
    PROVE  Invariant'
<1>1. /\ BathingTypeOK /\ spa \in Spa
      /\ UNCHANGED <<obs, up, now, enabled, runnerVars, engineVars, durable, requests, orig, sawEnd>>
      /\ touched' = (touched \/ spa'.hold = spa.hold)
  BY DEF Panel, Invariant, BathingTypeOK
<1>2. spa' \in Spa /\ (touched' \/ SameBut(spa', spa))
  <2>1. CASE \E hi \in HighTargets \ {spa.hi} : spa.high /\ spa' = [spa EXCEPT !.hi = hi]
    BY <1>1, <2>1 DEF Spa
  <2>2. CASE spa' = [spa EXCEPT !.high = ~spa.high]
    BY <1>1, <2>2 DEF Spa
  <2>3. CASE spa' = [spa EXCEPT !.mode = IF spa.mode = Rest THEN Ready ELSE Rest]
    BY <1>1, <2>3 DEF Spa
  <2>4. CASE spa' = [spa EXCEPT !.hold = TRUE]
    BY <1>1, <2>4 DEF Spa, SameBut
  <2>5. QED
    BY <2>1, <2>2, <2>3, <2>4 DEF Panel
<1>3. touched \in BOOLEAN /\ touched' \in BOOLEAN
  BY <1>1 DEF BathingTypeOK
<1>4. BathingTypeOK'
  BY <1>1, <1>2, <1>3 DEF BathingTypeOK, runnerVars, engineVars
<1>5. Kept' /\ Mirrored' /\ IntentOK' /\ ManualOK' /\ EditsOK' /\ EndOK'
  BY <1>1 DEF Invariant, Kept, Mirrored, IntentOK, ManualOK, EditsOK, EndOK, Coming, Live, runnerVars
<1>6. CASE touched'
  BY <1>4, <1>5, <1>6 DEF Invariant, FitsOK, DebtOK
<1>7. CASE ~touched'
  <2>1. SameBut(spa', spa) /\ touched = touched'
    BY <1>1, <1>2, <1>3, <1>7
  <2>2. FitsOK'
    BY <1>1, <2>1 DEF Invariant, FitsOK, Carries, SameBut, runnerVars, engineVars
  <2>3. DebtOK'
    BY <1>1, <2>1, DebtWeakens DEF Invariant, Seen, SameBut, runnerVars, engineVars
  <2>4. QED
    BY <1>4, <1>5, <2>2, <2>3 DEF Invariant
<1>8. QED
  BY <1>6, <1>7

(* A transient mode that begins or ends leaves as much to be given back.   *)
LEMMA JetsKeep ==
    ASSUME Invariant, Jets \/ TransientEnds
    PROVE  Invariant'
<1>1. /\ BathingTypeOK /\ spa \in Spa
      /\ UNCHANGED <<obs, up, now, enabled, runnerVars, engineVars, durable, requests, orig,
                     touched, sawEnd>>
  BY DEF Jets, TransientEnds, ModeOnly, Invariant, BathingTypeOK
<1>2. spa' \in Spa /\ SameBut(spa', spa)
  <2>1. PICK mode \in {Rest, Transient} : spa' = [spa EXCEPT !.mode = mode] /\ Policy(spa.mode) = Rest
    BY DEF Jets, TransientEnds, Policy, Ready, Rest, Transient
  <2>2. Policy(mode) = Rest
    BY DEF Policy, Ready, Rest, Transient
  <2>3. QED
    BY <1>1, <2>1, <2>2 DEF Spa, SameBut
<1>3. BathingTypeOK'
  BY <1>1, <1>2 DEF BathingTypeOK, runnerVars, engineVars
<1>4. Kept' /\ Mirrored' /\ IntentOK' /\ ManualOK' /\ EditsOK' /\ EndOK'
  BY <1>1 DEF Invariant, Kept, Mirrored, IntentOK, ManualOK, EditsOK, EndOK, Coming, Live, runnerVars
<1>5. FitsOK'
  BY <1>1, <1>2 DEF Invariant, FitsOK, Carries, SameBut, runnerVars, engineVars
<1>6. DebtOK'
  BY <1>1, <1>2, DebtWeakens DEF Invariant, Seen, SameBut, runnerVars, engineVars
<1>7. QED
  BY <1>3, <1>4, <1>5, <1>6 DEF Invariant

-----------------------------------------------------------------------------
(* The invariant of the specification.                                     *)

(* The invariant holds before any session.                                 *)
LEMMA InvariantBegins ==
    ASSUME BathingInit
    PROVE  Invariant
<1>1. spa \in Spa /\ obs = spa
  BY FoundSpas DEF BathingInit
<1>2. orig = [spa |-> spa, edited |-> FALSE] /\ orig \in [spa : Spa, edited : BOOLEAN]
  BY <1>1 DEF BathingInit
<1>3. BathingTypeOK
  BY <1>1, <1>2, NumbersOK DEF BathingInit, BathingTypeOK
<1>4. Coming = None /\ Live = {}
  BY DEF BathingInit, Coming, Live
<1>5. Kept /\ Mirrored /\ IntentOK /\ ManualOK
  BY <1>4 DEF BathingInit, Kept, Mirrored, IntentOK, ManualOK
<1>6. EditsOK /\ EndOK
  BY <1>2, <1>4 DEF BathingInit, EditsOK, EndOK
<1>7. FitsOK /\ DebtOK
  BY <1>4 DEF BathingInit, FitsOK, DebtOK
<1>8. QED
  BY <1>3, <1>5, <1>6, <1>7 DEF Invariant

(* What changes nothing keeps the invariant.                               *)
LEMMA InvariantStutters ==
    ASSUME Invariant, UNCHANGED bathingVars
    PROVE  Invariant'
<1>1. UNCHANGED <<spa, obs, up, now, enabled, session, saving, lock, intent, attempt, manual,
                  expired, storageFailed, closed, flight, resync, durable, left, requests,
                  orig, touched, sawEnd>>
  BY DEF bathingVars, spaVars, runnerVars, engineVars, ghostVars
<1>2. BathingTypeOK'
  BY <1>1 DEF Invariant, BathingTypeOK
<1>3. intent' = None \/ (intent # None /\ intent'.session = intent.session
                         /\ intent'.late = intent.late /\ intent'.current = intent.current)
  BY <1>1
<1>4. QED
  BY <1>1, <1>2, <1>3, AsideKeeps

(* Every step keeps the invariant.                                         *)
LEMMA InvariantSteps ==
    ASSUME Invariant, [BathingNext]_bathingVars
    PROVE  Invariant'
<1>1. CASE RunnerStep
  BY <1>1, TickKeeps, WriteKeeps, SavedKeeps, ApplyEndsKeeps DEF RunnerStep
<1>2. CASE EngineStep
  BY <1>2, SendIntentKeeps, SendManualKeeps, LandKeeps, ReportKeeps, LostKeeps, ReconnectKeeps
     DEF EngineStep, Timeout
<1>3. CASE AsyncStart \/ AsyncStartBathing
  BY <1>3, StartsKeep
<1>4. CASE AsyncCancel
  BY <1>4, CancelKeeps
<1>5. CASE AsyncAdjust
  BY <1>5, AdjustKeeps
<1>6. CASE AsyncAbandon
  BY <1>6, AbandonKeeps
<1>7. CASE AsyncManualChange
  BY <1>7, ManualChangeKeeps
<1>8. CASE LoseLink
  BY <1>8, LostKeeps DEF LoseLink
<1>9. CASE LoseMessage
  BY <1>9, LoseMessageKeeps
<1>10. CASE Panel
  BY <1>10, PanelKeeps
<1>11. CASE Disable \/ Close \/ Enable \/ Clock \/ GivenUp
  BY <1>11, OptionsKeep
<1>12. CASE SaveFails
  BY <1>12, SaveFailsKeeps
<1>13. CASE Restart
  BY <1>13, RestartKeeps
<1>14. CASE UNCHANGED bathingVars
  BY <1>14, InvariantStutters
<1>15. CASE Jets \/ TransientEnds
  BY <1>15, JetsKeep
<1>16. QED
  BY <1>1, <1>2, <1>3, <1>4, <1>5, <1>6, <1>7, <1>8, <1>9, <1>10, <1>11, <1>12, <1>13, <1>14,
     <1>15 DEF BathingNext

(* BathingInvariance: the records, the goals beside them and what is to be *)
(* given back agree in every reachable state (Invariant).                  *)
THEOREM BathingInvariance == FairBathingSpec => []Invariant
<1>1. BathingInit => Invariant
  BY InvariantBegins
<1>2. Invariant /\ [BathingNext]_bathingVars => Invariant'
  BY InvariantSteps
<1>3. QED
  BY <1>1, <1>2, PTL DEF FairBathingSpec, BathingSpec

(* SessionsCanBeReadBack: whatever the targets, times and disturbances,    *)
(* the session in memory and the one on disk could be constructed again    *)
(* (RangeSession.__post_init__): no operation makes one that a restart     *)
(* would refuse.                                                           *)
THEOREM SessionsCanBeReadBack == FairBathingSpec => []BathingInv
<1>1. Invariant => BathingInv
  BY DEF Invariant, BathingInv, Kept, Checkpoint, CheckpointsAreConsistent
<1>2. QED
  BY <1>1, BathingInvariance, PTL

-----------------------------------------------------------------------------
(* What is sent.                                                           *)

(* Only a goal that is queued is sent for a session, and it passes what    *)
(* _guard asks.                                                            *)
LEMMA OnlyTheGuardSends ==
    ASSUME Invariant, BathingNext, Sends
    PROVE  /\ intent # None /\ session = intent.session /\ Writable
           /\ session.phase = "restoring" \/ ~intent.late
           /\ flight'.goal = Goal(session)
<1>1. flight = None /\ flight' # None /\ flight'.by = "session" /\ flight # flight'
  BY DEF Sends
<1>2. ~UNCHANGED engineVars
  BY <1>1 DEF engineVars
<1>3. ~(Tick \/ Write \/ Saved \/ ApplyEnds)
  BY <1>2 DEF Tick, Write, Saved, ApplyEnds
<1>4. ~Asked /\ ~(AsyncStart \/ AsyncStartBathing \/ AsyncCancel \/ AsyncAdjust \/ AsyncAbandon
                  \/ AsyncManualChange)
  <2>1. ~Asked
    BY <1>2 DEF Asked
  <2>2. QED
    BY <2>1 DEF AsyncStart, AsyncStartBathing, Start, AsyncCancel, AsyncAdjust, AsyncAbandon,
                AsyncManualChange
<1>5. ~(Panel \/ Jets \/ TransientEnds \/ Clock \/ Disable \/ Enable \/ SaveFails \/ Close
        \/ GivenUp)
  BY <1>2 DEF Panel, Jets, TransientEnds, ModeOnly, Clock, Disable, Enable, SaveFails, Close, GivenUp
<1>6. ~(Land \/ Timeout \/ LoseMessage \/ LoseLink \/ Restart \/ Report \/ Reconnect)
  BY <1>1 DEF Land, Timeout, LoseMessage, LoseLink, Lost, LinkLeft, Restart, Report, Reconnect
<1>7. ~SendManual
  <2>1. SUFFICES ASSUME SendManual
                 PROVE  FALSE
    OBVIOUS
  <2>2. flight' = [by |-> "manual", goal |-> manual.goal, step |-> Step(obs, manual.goal),
                   fate |-> "underway"]
    BY <1>1, <2>1 DEF SendManual
  <2>3. flight'.by = "manual"
    BY <2>2
  <2>4. QED
    BY <1>1, <2>3
<1>8. SendIntent
  BY <1>3, <1>4, <1>5, <1>6, <1>7 DEF BathingNext, RunnerStep, EngineStep
<1>9. flight' = [by |-> "session", goal |-> Goal(intent.session),
                 step |-> Step(obs, Goal(intent.session)), fate |-> "underway"]
      /\ Writable /\ session = intent.session /\ intent # None
      /\ (intent.session.phase = "restoring" \/ ~(intent.late \/ now >= intent.session.end))
  BY <1>1, <1>8 DEF SendIntent
<1>10. QED
  BY <1>9

(* OnlyWhatIsOwedIsSent: for all constants, a goal of a session is sent    *)
(* only when that session is the one on disk; never a target once the user *)
(* has edited it; and no heating once the end was seen, even if the clock  *)
(* is set back (_replace saves first; release_target; _guard.valid).       *)
THEOREM OnlyWhatIsOwedIsSent == FairBathingSpec => SendsAreOwed
<1> USE DEF Writable
<1>1. ASSUME Invariant, BathingNext, Sends
      PROVE  durable = intent.session
  BY <1>1, OnlyTheGuardSends DEF Invariant, IntentOK, Mirrored
<1>2. ASSUME Invariant, BathingNext, Sends, session.step # "plain", orig.edited
      PROVE  flight'.goal[1] # "target"
  <2>1. session.step \in {"restore_range", "restore_mode"}
    BY <1>1, <1>2, OnlyTheGuardSends DEF Invariant, EditsOK, IntentOK, Released
  <2>2. Goal(session) = IF session.step = "restore_range" THEN <<"high_range", session.range>>
                        ELSE <<"heat_mode", session.mode>>
    BY <2>1 DEF Goal
  <2>3. Goal(session)[1] \in {"high_range", "heat_mode"}
    BY <2>2
  <2>4. QED
    BY <1>2, <2>3, OnlyTheGuardSends
<1>3. ASSUME Invariant, BathingNext, Sends, sawEnd
      PROVE  intent.session.phase = "restoring"
  BY <1>3, OnlyTheGuardSends DEF Invariant, EndOK, Over, IntentOK
<1>4. Invariant /\ [BathingNext]_bathingVars => [Sends => durable = intent.session]_bathingVars
  BY <1>1
<1>5. Invariant /\ [BathingNext]_bathingVars =>
        [Sends /\ session.step # "plain" /\ orig.edited => flight'.goal[1] # "target"]_bathingVars
  BY <1>2
<1>6. Invariant /\ [BathingNext]_bathingVars =>
        [Sends /\ sawEnd => intent.session.phase = "restoring"]_bathingVars
  BY <1>3
<1>7. QED
  BY <1>4, <1>5, <1>6, BathingInvariance, PTL
     DEF FairBathingSpec, BathingSpec, SendsAreOwed, SentIsDurable, EditStands, EndIsFinal

-----------------------------------------------------------------------------
(* What is given back.                                                     *)

(* EverythingIsGivenBack: for all constants, a session that ends by its    *)
(* own restoration leaves the spa as it found it, whatever was lost and    *)
(* however often the process restarted (DebtOK: what has not been given    *)
(* back yet is still in the record); of the heat mode it is what lasts, so *)
(* Ready-in-Rest counts as Rest, whenever it begins or ends.               *)
THEOREM EverythingIsGivenBack == FairBathingSpec => EndsRestored
<1>1. ASSUME Invariant, BathingNext, durable # None, durable' = None, saving.then = "tick", ~touched
      PROVE  GivenBack(durable)
  <2>1. durable' # durable
    BY <1>1
  <2>2. ~(Tick \/ Saved \/ ApplyEnds \/ EngineStep)
    BY <2>1 DEF Tick, Saved, ApplyEnds, EngineStep, SendIntent, SendManual, Land, Report,
                Timeout, Lost, Reconnect
  <2>3. ~Asked
    BY <2>1 DEF Asked
  <2>4. ~(AsyncStart \/ AsyncStartBathing \/ AsyncCancel \/ AsyncAdjust \/ AsyncAbandon
          \/ AsyncManualChange)
    BY <2>3 DEF AsyncStart, AsyncStartBathing, Start, AsyncCancel, AsyncAdjust, AsyncAbandon,
                AsyncManualChange
  <2>5. ~(LoseLink \/ LoseMessage \/ GivenUp \/ Panel \/ Jets \/ TransientEnds \/ Clock
          \/ Disable \/ Enable \/ SaveFails \/ Close \/ Restart)
    BY <2>1 DEF LoseLink, Lost, LoseMessage, GivenUp, Panel, Jets, TransientEnds, ModeOnly, Clock,
                Disable, Enable, SaveFails, Close, Restart
  <2>6. Write
    BY <1>1, <2>2, <2>4, <2>5 DEF BathingNext, RunnerStep
  <2>7. Ends
    BY <1>1, <2>6 DEF Write, Ends
  <2>8. QED
    BY <1>1, <2>7 DEF Invariant, DebtOK, Live
<1>2. Invariant /\ [BathingNext]_bathingVars =>
        [durable # None /\ durable' = None /\ saving.then = "tick" /\ ~touched
            => GivenBack(durable)]_bathingVars
  BY <1>1
<1>3. QED
  BY <1>2, BathingInvariance, PTL DEF FairBathingSpec, BathingSpec, EndsRestored
=============================================================================
