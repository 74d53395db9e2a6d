--------------------------- MODULE DeliveryProofs ---------------------------
(***************************************************************************)
(* What CommandDelivery promises of the physical pump, for every delay of  *)
(* the line that is shorter than the settling interval and every loss,     *)
(* timeout, replacement and reconnection: a toggle finds the pump as its   *)
(* plan assumed, a success is real, and jets that were stopped stay so.    *)
(*                                                                         *)
(* The invariant relates the speed, the last status received and the last  *)
(* transaction: the status shows the speed, unless the last transaction is *)
(* still undecided and took effect since.  The engine knows nothing of the *)
(* line; that it only trusts a status once nothing can be under way is     *)
(* where its resynchronization and the settling interval come in.          *)
(***************************************************************************)
EXTENDS CommandDelivery, EngineHistoryProofs

Shown(sn) == PumpValue(sn, "pump1")

Undecided(action) == action.result = "WAITING_FOR_STATE" \/ Ambiguous(action)

(* Pump 1 has one admission, that of the status it is reported with.       *)
Admits1(st) == st.mode = "normal" /\ NormalOrReminder(st) /\ ~st.locked
Alike(st) ==
    LET base == NoState.status
    IN  /\ st.mode = base.mode /\ st.notice = base.notice
        /\ st.alarmed = base.alarmed /\ st.locked = base.locked

-----------------------------------------------------------------------------
(* Pump 1 and its reports.                                                 *)

(* The pump has three speeds, and its two bits show one of them.           *)
LEMMA PumpReads ==
    ASSUME NEW s, StatusOK(s.status)
    PROVE  /\ Options(s, "pump1") = <<"off", "low", "high">>
           /\ Value(s, "pump1") = Shown(s)
           /\ s.status.pumps[1] = 0 => Shown(s) = "off"
           /\ s.status.pumps[1] = 1 => Shown(s) = "low"
           /\ s.status.pumps[1] = 2 => Shown(s) = "high"
           /\ Shown(s) \in {"off", "low", "high", None}
<1>1. "pump1" \in Pumps /\ PumpIndex("pump1") = 1
  <2>1. "pump1" \in Pumps /\ PumpIndex("pump1") \in 1..6 /\ PumpName[PumpIndex("pump1")] = "pump1"
    BY PumpsNamed
  <2>2. /\ PumpName[2] # "pump1" /\ PumpName[3] # "pump1" /\ PumpName[4] # "pump1"
        /\ PumpName[5] # "pump1" /\ PumpName[6] # "pump1"
    BY DEF PumpName
  <2>3. QED
    BY <2>1, <2>2
<1>2. PumpOptions(Capabilities.pumps[1]) = <<"off", "low", "high">>
  BY PumpAssumption DEF PumpOptions
<1> DEFINE raw == s.status.pumps[1]
           options == <<"off", "low", "high">>
<1>3. PumpValue(s, "pump1") = CASE options = <<>> -> None
                                [] Len(options) = 2 /\ raw \in {1, 2} -> "on"
                                [] raw < Len(options) -> options[raw + 1]
                                [] OTHER -> None
  BY <1>1, <1>2 DEF PumpValue
<1>4. /\ options # <<>> /\ Len(options) = 3
      /\ options[1] = "off" /\ options[2] = "low" /\ options[3] = "high"
  OBVIOUS
<1>5. raw \in 0..3
  BY DEF StatusOK
<1> HIDE DEF raw, options
<1>6. /\ raw = 0 => PumpValue(s, "pump1") = "off"
      /\ raw = 1 => PumpValue(s, "pump1") = "low"
      /\ raw = 2 => PumpValue(s, "pump1") = "high"
      /\ raw = 3 => PumpValue(s, "pump1") = None
  BY <1>3, <1>4, <1>5
<1>7. raw \in {0, 1, 2, 3}
  BY <1>5
<1>8. Options(s, "pump1") = <<"off", "low", "high">>
  BY <1>1, <1>2, TogglesOffer
<1>9. Value(s, "pump1") = PumpValue(s, "pump1")
  BY <1>1, TogglesShow
<1>10. QED
  BY <1>6, <1>7, <1>8, <1>9 DEF Shown, raw

(* The next speed is another one, and after high comes off.                *)
LEMMA PumpExpects ==
    ASSUME NEW s, StatusOK(s.status), NEW desired, Valid(s, "pump1", desired)
    PROVE  /\ Expected(s, "pump1", desired) # Shown(s)
           /\ Shown(s) = "high" => Expected(s, "pump1", desired) = "off"
<1> DEFINE options == Options(s, "pump1")
           value == Value(s, "pump1")
           index == CHOOSE i \in 1..Len(options) : options[i] = value
<1>1. /\ options = <<"off", "low", "high">> /\ value = Shown(s)
      /\ Shown(s) \in {"off", "low", "high", None}
  BY PumpReads
<1>2. value # None
  BY DEF Valid
<1>3. Expected(s, "pump1", desired) = options[(index % Len(options)) + 1]
  BY DEF Expected, Absolute
<1>4. /\ Len(options) = 3 /\ options[1] = "off" /\ options[2] = "low" /\ options[3] = "high"
  BY <1>1
<1> HIDE DEF options, value
<1>5. index \in 1..3 /\ options[index] = value
  <2>1. \E i \in 1..Len(options) : options[i] = value
    BY <1>1, <1>2, <1>4
  <2>2. index \in 1..Len(options) /\ options[index] = value
    BY <2>1
  <2>3. QED
    BY <1>4, <2>2
<1> HIDE DEF index
<1>6. index \in {1, 2, 3}
  BY <1>5
<1>7. 1 % 3 = 1 /\ 2 % 3 = 2 /\ 3 % 3 = 0
  OBVIOUS
<1>8. CASE index = 1
  BY <1>1, <1>3, <1>4, <1>5, <1>7, <1>8
<1>9. CASE index = 2
  BY <1>1, <1>3, <1>4, <1>5, <1>7, <1>9
<1>10. CASE index = 3
  BY <1>1, <1>3, <1>4, <1>5, <1>7, <1>10
<1>11. QED
  BY <1>6, <1>8, <1>9, <1>10

(* A report shows the speed, and admits what every report admits.          *)
LEMMA ReportShows ==
    ASSUME pump \in 0..2, NEW sn, sn.status = Reported
    PROVE  StatusOK(Reported) /\ Shown(sn) = Speed /\ Alike(Reported)
<1> DEFINE base == NoState.status
<1>1. StatusOK(base)
  BY EngineInputs DEF NoState
<1> HIDE DEF base
<1>2. Reported = [base EXCEPT !.pumps[1] = pump]
  BY DEF Reported, base
<1>3. /\ Reported.pumps = [base.pumps EXCEPT ![1] = pump] /\ StatusOK(Reported)
      /\ Reported.mode = base.mode /\ Reported.notice = base.notice
      /\ Reported.alarmed = base.alarmed /\ Reported.locked = base.locked
  BY <1>1, <1>2 DEF StatusOK
<1>4. Reported.pumps[1] = pump
  BY <1>1, <1>3 DEF StatusOK
<1>5. pump \in {0, 1, 2}
  OBVIOUS
<1>6. /\ pump = 0 => Speed = "off"
      /\ pump = 1 => Speed = "low"
      /\ pump = 2 => Speed = "high"
  BY DEF Speed
<1>7. Shown(sn) = Speed
  BY <1>3, <1>4, <1>5, <1>6, PumpReads
<1>8. QED
  BY <1>3, <1>7 DEF Alike, base

-----------------------------------------------------------------------------
(* What was planned for pump 1.                                            *)

(* A toggle leaves the speed it starts at, an off goal leaves the jets     *)
(* alone once they were seen to stop.                                      *)
PlanOK(e, action) ==
    /\ action.starting \notin {action.expected, action.desired}
    /\ action.starting = "high" => action.expected = "off"
    /\ action.desired = e.intents[action.intent].desired
    /\ action.desired = "off" /\ action.starting = "high" /\ ~Undecided(action)
           => e.intents[action.intent].stage \in Terminal

PlansOK(e) == \A i \in DOMAIN e.history : PlanOK(e, e.history[i])

JetsOK(e) ==
    \A i, j \in DOMAIN e.history :
        /\ i < j /\ e.history[i].intent = e.history[j].intent
        /\ e.history[i].desired = "off" /\ e.history[i].starting = "high"
        => Ambiguous(e.history[i])

(* The connection reports the pump, whose admission the first transaction  *)
(* has found.                                                              *)
AnySent(e) == DOMAIN e.history # {}
SeenOK(e, sn) ==
    /\ Alike(sn.status)
    /\ sn.synced \/ AnySent(e) => sn.sequence # 0
    /\ AnySent(e) => Admits1(NoState.status)

(* The goals keep what they are for, and a decision on a stop ends one.    *)
Carries(e, x) ==
    /\ SameActions(e, x) /\ GoalsFinal(e, x)
    /\ \A id \in 1..e.counter : x.intents[id].desired = e.intents[id].desired
    /\ \A i \in DOMAIN e.history :
          Undecided(e.history[i]) /\ ~Undecided(x.history[i])
              => \/ e.history[i].desired # "off" \/ e.history[i].starting # "high"
                 \/ x.intents[e.history[i].intent].stage \in Terminal

(* What is shown decides on no action that starts at it.                   *)
Undecides(e, x, shown) ==
    \A i \in DOMAIN e.history :
        Undecided(e.history[i]) /\ e.history[i].starting = shown => Undecided(x.history[i])

(* The one control is the pump.                                            *)
LEMMA OnlyThePump ==
    ASSUME NEW e, EngineOK(e)
    PROVE  \A i \in DOMAIN e.history : /\ e.history[i].control = "pump1"
                                       /\ e.history[i].intent \in 1..e.counter
<1>1. \A i \in DOMAIN e.history : TransactionOK(e, e.history[i])
  BY DEF EngineOK, HistoryOK
<1>2. \A id \in 1..e.counter : e.intents[id].control = "pump1"
  BY PumpAssumption DEF EngineOK, GoalsOK, IntentOK
<1>3. QED
  BY <1>1, <1>2 DEF TransactionOK

(* Plans and stops stay as they were.                                      *)
LEMMA PlansCarry ==
    ASSUME NEW e, EngineOK(e), NEW x, EngineOK(x), Carries(e, x), PlansOK(e), JetsOK(e)
    PROVE  PlansOK(x) /\ JetsOK(x)
<1>1. \A i \in DOMAIN e.history :
         /\ e.history[i].intent \in 1..e.counter
         /\ SameAction(e.history[i], x.history[i])
         /\ i # e.inflight => x.history[i] = e.history[i]
  BY OnlyThePump DEF Carries, SameActions
<1>2. DOMAIN x.history = DOMAIN e.history
  BY DEF Carries, SameActions
<1>3. PlansOK(x)
  <2>1. SUFFICES ASSUME NEW i \in DOMAIN e.history
                 PROVE  PlanOK(x, x.history[i])
    BY <1>2 DEF PlansOK
  <2> DEFINE p == e.history[i]
             q == x.history[i]
  <2>2. PlanOK(e, p) /\ SameAction(p, q) /\ p.intent \in 1..e.counter
    BY <1>1 DEF PlansOK
  <2>3. x.intents[p.intent].desired = e.intents[p.intent].desired
    BY <2>2 DEF Carries
  <2>4. e.intents[p.intent].stage \in Terminal => x.intents[p.intent].stage \in Terminal
    BY <2>2 DEF Carries, GoalsFinal
  <2>5. Undecided(p) /\ ~Undecided(q)
            => \/ p.desired # "off" \/ p.starting # "high"
               \/ x.intents[p.intent].stage \in Terminal
    BY DEF Carries
  <2> HIDE DEF p, q
  <2>6. PlanOK(x, q)
    BY <2>2, <2>3, <2>4, <2>5 DEF PlanOK, SameAction
  <2>7. QED
    BY <2>6 DEF q
<1>4. JetsOK(x)
  <2>1. SUFFICES ASSUME NEW i \in DOMAIN e.history, NEW j \in DOMAIN e.history, i < j,
                        x.history[i].intent = x.history[j].intent,
                        x.history[i].desired = "off", x.history[i].starting = "high"
                 PROVE  Ambiguous(x.history[i])
    BY <1>2 DEF JetsOK
  <2>2. i # e.inflight
    BY <2>1, HistoryNumbers
  <2>3. /\ x.history[i] = e.history[i] /\ e.history[i].intent = e.history[j].intent
        /\ e.history[i].desired = "off" /\ e.history[i].starting = "high"
    BY <1>1, <2>1, <2>2 DEF SameAction
  <2>4. QED
    BY <2>1, <2>3 DEF JetsOK
<1>5. QED
  BY <1>3, <1>4

(* Without an observation nothing is decided.                              *)
LEMMA SubduedCarries ==
    ASSUME NEW e, NEW x, EngineOK(e), EngineOK(x), Subdued(e, x)
    PROVE  Carries(e, x) /\ \A shown : Undecides(e, x, shown)
<1>1. SameActions(e, x) /\ GoalsFinal(e, x) /\ SameRequests(e, x) /\ Unjudged(e, x)
  BY DEF Subdued, Continues
<1>2. \A i \in DOMAIN e.history : Undecided(e.history[i]) => Undecided(x.history[i])
  BY <1>1 DEF Unjudged, Undecided
<1>3. QED
  BY <1>1, <1>2 DEF Carries, Undecides, SameRequests

(* A decision comes before or after.                                       *)
LEMMA CarriesOn ==
    ASSUME NEW e, NEW a, NEW x, EngineOK(e), EngineOK(a), EngineOK(x),
           Carries(e, a), Carries(a, x), SameActions(e, x)
    PROVE  Carries(e, x)
<1>1. GoalsFinal(e, x)
  BY GoalsFinalTransitive DEF Carries, EngineOK, GoalsOK
<1>2. e.counter \in Nat /\ a.counter \in Nat /\ e.counter <= a.counter
  BY DEF Carries, GoalsFinal, EngineOK, GoalsOK
<1>3. \A id \in 1..e.counter : id \in 1..a.counter
  BY <1>2
<1>4. ASSUME NEW i \in DOMAIN e.history, Undecided(e.history[i]), ~Undecided(x.history[i]),
             e.history[i].desired = "off", e.history[i].starting = "high"
      PROVE  x.intents[e.history[i].intent].stage \in Terminal
  <2>1. /\ e.history[i].intent \in 1..a.counter /\ SameAction(e.history[i], a.history[i])
        /\ i \in DOMAIN a.history
    BY <1>3, OnlyThePump DEF Carries, SameActions
  <2>2. CASE Undecided(a.history[i])
    BY <1>4, <2>1, <2>2 DEF Carries, SameAction
  <2>3. CASE ~Undecided(a.history[i])
    <3>1. a.intents[e.history[i].intent].stage \in Terminal
      BY <1>4, <2>3 DEF Carries
    <3>2. QED
      BY <2>1, <3>1 DEF Carries, GoalsFinal
  <2>4. QED
    BY <2>2, <2>3
<1>5. QED
  BY <1>1, <1>3, <1>4 DEF Carries

(* An observation decides on an action by showing another speed than the   *)
(* one it starts at, and ends the goal of the stop that it shows.          *)
LEMMA ConcludedCarries ==
    ASSUME NEW a, NEW x, EngineOK(a), EngineOK(x), Continues(a, x), PlansOK(a),
           NEW s, StatusOK(s.status), Concluded(a, x, s),
           AnySent(a) /\ s.available => ControlsSafe(s)
    PROVE  Carries(a, x) /\ Undecides(a, x, Shown(s))
<1>1. SameActions(a, x) /\ GoalsFinal(a, x) /\ SameRequests(a, x)
  BY DEF Continues
<1>2. ASSUME NEW i \in DOMAIN a.history, Undecided(a.history[i]), ~Undecided(x.history[i])
      PROVE  /\ a.history[i].starting # Shown(s)
             /\ \/ a.history[i].desired # "off" \/ a.history[i].starting # "high"
                \/ x.intents[a.history[i].intent].stage \in Terminal
  <2> DEFINE p == a.history[i]
  <2>1. /\ Confirms(p, s) /\ p.control = "pump1" /\ p.intent \in 1..a.counter
        /\ RetainedLow(p, s) => x.intents[p.intent].stage \in Terminal
        /\ GoalEnds(a, x, s, p.intent)
    BY <1>2, OnlyThePump DEF Concluded
  <2>2. /\ p.starting \notin {p.expected, p.desired}
        /\ p.starting = "high" => p.expected = "off"
        /\ p.desired = a.intents[p.intent].desired
    BY DEF PlansOK, PlanOK
  <2>3. Value(s, "pump1") = Shown(s)
    BY PumpReads
  <2>4. AnySent(a)
    BY DEF AnySent
  <2>5. ControlsSafe(s)
    BY <2>1, <2>4 DEF Confirms
  <2>6. a.intents[p.intent].control = "pump1"
    BY <2>1, PumpAssumption DEF EngineOK, GoalsOK, IntentOK
  <2> HIDE DEF p
  <2>7. CASE RetainedLow(p, s)
    <3>1. p.starting = "high" /\ Shown(s) = "low"
      BY <2>3, <2>7 DEF RetainedLow
    <3>2. QED
      BY <2>1, <2>7, <3>1 DEF p
  <2>8. CASE ~RetainedLow(p, s)
    <3>1. Shown(s) \in {p.expected, p.desired}
      BY <2>1, <2>3, <2>8 DEF Confirms
    <3>2. p.starting # Shown(s)
      BY <2>2, <3>1
    <3>3. CASE p.desired = "off" /\ p.starting = "high"
      <4>1. Value(s, "pump1") = "off"
        BY <2>2, <2>3, <3>1, <3>3
      <4>2. x.intents[p.intent].stage \in Terminal
        BY <2>1, <2>2, <2>5, <2>6, <3>3, <4>1 DEF GoalEnds, SafeFor
      <4>3. QED
        BY <3>2, <4>2 DEF p
    <3>4. QED
      BY <3>2, <3>3 DEF p
  <2>9. QED
    BY <2>7, <2>8
<1>3. QED
  BY <1>1, <1>2 DEF Carries, Undecides, SameRequests

(* A new goal decides on nothing.                                          *)
LEMMA RequestCarries ==
    ASSUME NEW e, NEW x, EngineOK(e), now \in Nat, Requests(e, x)
    PROVE  EngineOK(x) /\ Carries(e, x) /\ \A shown : Undecides(e, x, shown)
<1>1. PICK a : /\ EngineOK(a) /\ Subdued(e, a)
               /\ \E goal \in Goals, deadline \in Nat, defer \in Nat, replace \in BOOLEAN :
                     x = Admitted(a, goal[1], goal[2], deadline, defer, replace)
  BY DEF Requests
<1>2. PICK goal \in Goals, deadline \in Nat, defer \in Nat, replace \in BOOLEAN :
         x = Admitted(a, goal[1], goal[2], deadline, defer, replace)
  BY <1>1
<1>3. EngineOK(x) /\ Admits(a, x, goal[1])
  BY <1>1, <1>2, AdmittedOK, EngineInputs
<1>4. Carries(e, a) /\ \A shown : Undecides(e, a, shown)
  BY <1>1, SubduedCarries
<1>5. /\ x.history = a.history /\ GoalsFinal(a, x)
      /\ \A id \in 1..a.counter : x.intents[id].desired = a.intents[id].desired
  BY <1>3 DEF Admits, Kept
<1>6. Carries(a, x) /\ SameActions(e, x)
  BY <1>4, <1>5 DEF Carries, SameActions, SameAction
<1>7. Carries(e, x)
  BY <1>1, <1>3, <1>4, <1>6, CarriesOn
<1>8. QED
  BY <1>3, <1>4, <1>5, <1>7 DEF Undecides

(* Whatever happens short of a transmission, plans and stops stay as they  *)
(* were, and only news of another speed decides on an action.              *)
LEMMA EffectCarries ==
    ASSUME KInv, Effect, PlansOK(engine), JetsOK(engine),
           SeenOK(engine, snapshot), Alike(snapshot'.status)
    PROVE  /\ EngineOK(engine') /\ Carries(engine, engine')
           /\ Undecides(engine, engine', Shown(snapshot'))
<1>1. EngineOK(engine) /\ now \in Nat /\ StatusOK(snapshot.status)
  BY DEF KInv, HInv, IInv, Known
<1>2. CASE Quiet(engine, engine')
  BY <1>1, <1>2, SubduedCarries DEF Quiet
<1>3. CASE Requests(engine, engine')
  BY <1>1, <1>3, RequestCarries
<1>4. CASE /\ Watches(engine, engine', snapshot, snapshot', now)
           /\ StatusOK(snapshot.status) => StatusOK(snapshot'.status)
  <2>1. PICK available \in BOOLEAN :
           EngineOK(engine') /\ Observes(engine, engine', StateOf(snapshot', available), now)
    BY <1>4 DEF Watches
  <2> DEFINE s == StateOf(snapshot', available)
  <2>2. /\ s.status = snapshot'.status /\ s.available = available /\ StatusOK(s.status)
        /\ Shown(s) = Shown(snapshot')
    BY <1>1, <1>4 DEF StateOf, Shown, PumpValue
  <2> HIDE DEF s
  <2>3. PICK a : /\ EngineOK(a) /\ Subdued(engine, a) /\ Continues(a, engine')
                 /\ Concluded(a, engine', s)
    BY <2>1 DEF Observes, s
  <2>4. Carries(engine, a) /\ Undecides(engine, a, Shown(s))
    BY <1>1, <2>3, SubduedCarries
  <2>5. DOMAIN a.history = DOMAIN engine.history
    BY <2>4 DEF Carries, SameActions
  <2>6. ASSUME AnySent(a), s.available
        PROVE  ControlsSafe(s)
    <3>1. AnySent(engine)
      BY <2>5, <2>6 DEF AnySent
    <3>2. Admits1(NoState.status)
      BY <3>1 DEF SeenOK
    <3>3. QED
      BY <2>2, <2>6, <3>2 DEF Admits1, Alike, ControlsSafe, NormalOrReminder, RoutineReminder,
                              Ignored
  <2>7. PlansOK(a)
    BY <1>1, <2>3, <2>4, PlansCarry
  <2>8. Carries(a, engine') /\ Undecides(a, engine', Shown(s))
    BY <2>1, <2>2, <2>3, <2>6, <2>7, ConcludedCarries
  <2>9. SameActions(engine, engine')
    BY <1>1, <2>1, <2>3, ContinuesTransitive DEF Subdued, Continues
  <2>10. Carries(engine, engine')
    BY <1>1, <2>1, <2>3, <2>4, <2>8, <2>9, CarriesOn
  <2>11. Undecides(engine, engine', Shown(s))
    <3>1. \A i \in DOMAIN engine.history : a.history[i].starting = engine.history[i].starting
      BY <2>4 DEF Carries, SameActions, SameAction
    <3>2. QED
      BY <2>4, <2>5, <2>8, <3>1 DEF Undecides
  <2>12. QED
    BY <2>1, <2>2, <2>10, <2>11
<1>5. QED
  BY <1>2, <1>3, <1>4 DEF Effect

(* A transmission is planned for the speed that was shown last; nothing    *)
(* was in flight or in doubt when it was planned.                          *)
Planned(e, x, sn, at) ==
    LET n == Len(e.history) + 1
    IN  /\ e.inflight = 0 /\ e.resync = 0 /\ e.state.available
        /\ Len(e.history) \in Nat /\ Len(x.history) = n /\ n \in DOMAIN x.history
        /\ x.history[n].starting = Shown(sn) /\ x.history[n].sentAt = at
        /\ Undecided(x.history[n])

(* The receipt's own write: the new plan is sound, and no goal whose jets  *)
(* were seen to stop is pursued any more.                                  *)
LEMMA RecordPlans ==
    ASSUME NEW p, EngineOK(p), p.inflight = 0, PlansOK(p), JetsOK(p),
           NEW y, EngineOK(y), GoalsFinal(p, y), NEW action, NEW at, Records(p, y, action, at),
           action.starting \notin {action.expected, action.desired},
           action.starting = "high" => action.expected = "off",
           action.desired = p.intents[action.intent].desired
    PROVE  PlansOK(y) /\ JetsOK(y)
<1> DEFINE n == Len(p.history) + 1
<1>1. /\ n \in Nat /\ DOMAIN p.history = 1..Len(p.history) /\ DOMAIN y.history = 1..n
      /\ y.history[n] = Pending(action, at)
      /\ \A i \in DOMAIN p.history : y.history[i] = p.history[i]
      /\ action.intent \in 1..p.counter /\ p.intents[action.intent].stage = "WAITING_FOR_BUS"
      /\ \A id \in 1..p.counter : y.intents[id].desired = p.intents[id].desired
  BY DEF Records
<1>2. Len(p.history) \in Nat
  BY HistoryDomain DEF EngineOK, HistoryOK
<1> HIDE DEF n
<1>3. \A i \in DOMAIN y.history : i = n \/ i \in DOMAIN p.history
  BY <1>1, <1>2 DEF n
<1>4. /\ y.history[n].intent = action.intent /\ y.history[n].starting = action.starting
      /\ y.history[n].expected = action.expected /\ y.history[n].desired = action.desired
      /\ y.history[n].result = "WAITING_FOR_STATE"
  BY <1>1 DEF Pending
<1>5. PlanOK(y, y.history[n])
  BY <1>1, <1>4 DEF PlanOK, Undecided
<1>6. ASSUME NEW i \in DOMAIN p.history
      PROVE  PlanOK(y, y.history[i])
  <2> DEFINE q == p.history[i]
  <2>1. PlanOK(p, q) /\ y.history[i] = q /\ q.intent \in 1..p.counter
    BY <1>1, OnlyThePump DEF PlansOK
  <2> HIDE DEF q
  <2>2. p.intents[q.intent].stage \in Terminal => y.intents[q.intent].stage \in Terminal
    BY <2>1 DEF GoalsFinal
  <2>3. QED
    BY <1>1, <2>1, <2>2 DEF PlanOK
<1>7. PlansOK(y)
  BY <1>3, <1>5, <1>6 DEF PlansOK
<1>8. ASSUME NEW i \in DOMAIN p.history, p.history[i].intent = action.intent,
             p.history[i].desired = "off", p.history[i].starting = "high"
      PROVE  Ambiguous(p.history[i])
  <2>1. i # 0 /\ p.history[i].result # "WAITING_FOR_STATE"
    BY <1>1 DEF EngineOK, HistoryOK
  <2>2. p.intents[action.intent].stage \notin Terminal
    BY <1>1 DEF Terminal
  <2>3. Undecided(p.history[i])
    BY <1>8, <2>2 DEF PlansOK, PlanOK
  <2>4. QED
    BY <2>1, <2>3 DEF Undecided
<1>9. JetsOK(y)
  <2>1. SUFFICES ASSUME NEW i \in DOMAIN y.history, NEW j \in DOMAIN y.history, i < j,
                        y.history[i].intent = y.history[j].intent,
                        y.history[i].desired = "off", y.history[i].starting = "high"
                 PROVE  Ambiguous(y.history[i])
    BY DEF JetsOK
  <2>2. i \in DOMAIN p.history
    BY <1>1, <1>2, <2>1 DEF n
  <2>3. CASE j = n
    BY <1>1, <1>4, <1>8, <2>1, <2>2, <2>3
  <2>4. CASE j \in DOMAIN p.history
    BY <1>1, <2>1, <2>2, <2>4 DEF JetsOK
  <2>5. QED
    BY <1>3, <2>3, <2>4
<1>10. QED
  BY <1>7, <1>9

(* The transmission as a whole.                                            *)
LEMMA SentPlans ==
    ASSUME KInv, NEW at, Transmission(engine, engine', at), PlansOK(engine), JetsOK(engine),
           SeenOK(engine, snapshot)
    PROVE  /\ PlansOK(engine') /\ JetsOK(engine') /\ SeenOK(engine', snapshot)
           /\ Planned(engine, engine', snapshot, at)
<1> DEFINE p == Prepared(engine)
           action == Offer(engine)
           y == Recorded(p, action, at)
           s == engine.state
<1>1. /\ EngineOK(engine) /\ now \in Nat /\ s.status = snapshot.status /\ StatusOK(s.status)
      /\ s.available \in BOOLEAN /\ (s.available => snapshot.synced)
  BY DEF KInv, HInv, IInv, Known, FreshOK, Current, EngineOK, IsState
<1>2. /\ Offers(engine) /\ EngineOK(p) /\ Subdued(engine, p) /\ p.inflight = 0 /\ p.resync = 0
      /\ engine.inflight = 0 /\ EngineOK(y) /\ GoalsFinal(p, y) /\ Records(p, y, action, at)
      /\ EngineOK(engine') /\ Subdued(y, engine') /\ engine'.history = y.history
  BY DEF Transmission, Quiet
<1>3. /\ action.control = "pump1" /\ action.desired = p.intents[action.intent].desired
      /\ action.starting = Value(s, "pump1")
      /\ action.expected = Expected(s, "pump1", action.desired)
      /\ SafeFor(s, "pump1") /\ Value(s, "pump1") # action.desired
      /\ Valid(s, "pump1", action.desired)
  BY <1>1, <1>2, OfferPlans, PumpAssumption
<1> HIDE DEF p, y, action
<1>4. /\ action.starting = Shown(s) /\ action.expected # Shown(s)
      /\ Shown(s) = "high" => action.expected = "off"
  <2>1. Value(s, "pump1") = Shown(s)
    BY <1>1, PumpReads
  <2>2. /\ Expected(s, "pump1", action.desired) # Shown(s)
        /\ Shown(s) = "high" => Expected(s, "pump1", action.desired) = "off"
    BY <1>1, <1>3, PumpExpects
  <2>3. QED
    BY <1>3, <2>1, <2>2
<1>5. Shown(s) = Shown(snapshot)
  BY <1>1 DEF Shown, PumpValue
<1>6. ControlsSafe(s)
  BY <1>3 DEF SafeFor
<1>7. engine.resync = 0
  BY <1>2 DEF Subdued, Calm
<1> HIDE DEF s
<1>8. Carries(engine, p) /\ PlansOK(p) /\ JetsOK(p)
  BY <1>1, <1>2, SubduedCarries, PlansCarry
<1>9. PlansOK(y) /\ JetsOK(y)
  BY <1>2, <1>3, <1>4, <1>8, RecordPlans
<1>10. PlansOK(engine') /\ JetsOK(engine')
  BY <1>2, <1>9, SubduedCarries, PlansCarry
<1>11. Planned(engine, engine', snapshot, at)
  <2> DEFINE n == Len(p.history) + 1
  <2>1. /\ Len(y.history) = n /\ DOMAIN y.history = 1..n /\ n \in Nat
        /\ y.history[n] = Pending(action, at) /\ DOMAIN p.history = 1..Len(p.history)
    BY <1>2 DEF Records
  <2>2. Len(p.history) = Len(engine.history) /\ Len(engine.history) \in Nat
    <3>1. /\ DOMAIN p.history = DOMAIN engine.history
          /\ Len(p.history) \in Nat /\ Len(engine.history) \in Nat
          /\ DOMAIN engine.history = 1..Len(engine.history)
      BY <1>1, <1>2, <1>8, HistoryDomain DEF Carries, SameActions, EngineOK, HistoryOK
    <3>2. 1..Len(p.history) = 1..Len(engine.history)
      BY <2>1, <3>1
    <3>3. QED
      BY <3>1, <3>2
  <2>3. /\ y.history[n].starting = Shown(snapshot) /\ y.history[n].sentAt = at
        /\ Undecided(y.history[n])
    BY <1>4, <1>5, <2>1 DEF Pending, Undecided
  <2>4. n \in 1..n /\ n = Len(engine.history) + 1
    BY <2>1, <2>2
  <2>5. engine.state.available
    BY <1>6 DEF ControlsSafe, s
  <2> HIDE DEF n
  <2>6. QED
    BY <1>2, <1>7, <2>1, <2>2, <2>3, <2>4, <2>5 DEF Planned
<1>12. SeenOK(engine', snapshot)
  <2>1. snapshot.synced /\ Admits1(s.status)
    BY <1>1, <1>6 DEF ControlsSafe, Admits1, s
  <2>2. Admits1(NoState.status)
    BY <1>1, <2>1 DEF SeenOK, Alike, Admits1, NormalOrReminder, RoutineReminder, Ignored, s
  <2>3. QED
    BY <2>1, <2>2 DEF SeenOK
<1>13. QED
  BY <1>10, <1>11, <1>12

-----------------------------------------------------------------------------
(* The spa, its line and what the engine has heard.                        *)

Last(e) == e.history[Len(e.history)]

(* Only the last transaction can be under way: it is undecided, and finds  *)
(* the speed that was shown.                                               *)
LineOK(e, sn, ln, sp, t) ==
    /\ ln \subseteq {Len(e.history)}
    /\ ln # {} => /\ AnySent(e) /\ Undecided(Last(e)) /\ t <= Last(e).sentAt + LineDelay
                  /\ Last(e).starting = sp /\ Shown(sn) = sp

(* A change that was not reported is that of the last transaction, which   *)
(* took effect after the report and is undecided.                          *)
NewsOK(e, sn, ln, sp) ==
    sn.sequence # 0 =>
        \/ Shown(sn) = sp
        \/ /\ ln = {} /\ AnySent(e) /\ Undecided(Last(e))
           /\ Last(e).starting = Shown(sn) /\ sn.at <= Last(e).sentAt + LineDelay

DInv ==
    /\ KInv /\ pump \in 0..2
    /\ PlansOK(engine) /\ JetsOK(engine) /\ SeenOK(engine, snapshot)
    /\ LineOK(engine, snapshot, line, Speed, now) /\ NewsOK(engine, snapshot, line, Speed)

(* The last transaction is one of those that were sent.                    *)
LEMMA LastSent ==
    ASSUME NEW e, EngineOK(e), AnySent(e)
    PROVE  Len(e.history) \in DOMAIN e.history /\ Last(e).sentAt \in Nat
<1>1. DOMAIN e.history = 1..Len(e.history) /\ Len(e.history) \in Nat
  BY HistoryDomain DEF EngineOK, HistoryOK
<1>2. Len(e.history) \in DOMAIN e.history
  BY <1>1 DEF AnySent
<1>3. QED
  BY <1>2, HistoryNumbers DEF Last

(* Once nothing is in flight or in doubt, nothing is under way and the last*)
(* status shows the pump: a doubt ended by a status that came a settling   *)
(* interval after the transmission, which is later than the line delays.   *)
LEMMA NothingUnderWay ==
    ASSUME NEW e, EngineOK(e), NEW sn, NEW t \in Nat, sn.at \in Nat, FreshOK(e, sn, t),
           NEW ln, NEW sp, LineOK(e, sn, ln, sp, t), NewsOK(e, sn, ln, sp),
           e.inflight = 0, e.resync = 0, sn.sequence # 0
    PROVE  ln = {} /\ Shown(sn) = sp
<1>1. ASSUME AnySent(e), Undecided(Last(e))
      PROVE  sn.at > Last(e).sentAt + LineDelay
  <2>1. Len(e.history) \in DOMAIN e.history /\ Last(e).sentAt \in Nat
    BY <1>1, LastSent
  <2>2. Last(e).result # "WAITING_FOR_STATE"
    BY <2>1, HistoryNumbers DEF Last, EngineOK, HistoryOK
  <2>3. Ambiguous(e.history[Len(e.history)])
    BY <1>1, <2>2 DEF Undecided, Last
  <2>4. sn.at >= e.history[Len(e.history)].sentAt + ResyncSettle
    BY <2>1, <2>3 DEF FreshOK, TrustOK
  <2>5. sn.at >= Last(e).sentAt + ResyncSettle
    BY <2>4 DEF Last
  <2>6. QED
    BY <2>1, <2>5, LineAssumption, EngineParameters
<1>2. sn.at <= t
  BY DEF FreshOK, Current
<1>3. ln = {}
  <2>1. SUFFICES ASSUME ln # {} PROVE FALSE
    OBVIOUS
  <2>2. AnySent(e) /\ Undecided(Last(e)) /\ t <= Last(e).sentAt + LineDelay
    BY <2>1 DEF LineOK
  <2>3. Last(e).sentAt \in Nat /\ LineDelay \in Nat /\ sn.at > Last(e).sentAt + LineDelay
    BY <1>1, <2>2, LastSent, LineAssumption
  <2>4. QED
    BY <1>2, <2>2, <2>3
<1>4. Shown(sn) = sp
  <2>1. SUFFICES ASSUME Shown(sn) # sp PROVE FALSE
    OBVIOUS
  <2>2. /\ AnySent(e) /\ Undecided(Last(e)) /\ sn.at <= Last(e).sentAt + LineDelay
    BY <2>1 DEF NewsOK
  <2>3. Last(e).sentAt \in Nat /\ LineDelay \in Nat /\ sn.at > Last(e).sentAt + LineDelay
    BY <1>1, <2>2, LastSent, LineAssumption
  <2>4. QED
    BY <2>2, <2>3
<1>5. QED
  BY <1>3, <1>4

(* The last transaction stays the last one.                                *)
LEMMA LastStays ==
    ASSUME NEW e, EngineOK(e), NEW x, EngineOK(x), Carries(e, x), NEW shown, Undecides(e, x, shown)
    PROVE  /\ Len(x.history) = Len(e.history) /\ (AnySent(x) <=> AnySent(e))
           /\ AnySent(e) => /\ Last(x).starting = Last(e).starting
                            /\ Last(x).sentAt = Last(e).sentAt
                            /\ Undecided(Last(e)) /\ Last(e).starting = shown => Undecided(Last(x))
<1>1. /\ DOMAIN x.history = DOMAIN e.history
      /\ DOMAIN e.history = 1..Len(e.history) /\ DOMAIN x.history = 1..Len(x.history)
      /\ Len(e.history) \in Nat /\ Len(x.history) \in Nat
  BY HistoryDomain DEF Carries, SameActions, EngineOK, HistoryOK
<1>2. Len(x.history) = Len(e.history)
  BY <1>1
<1>3. AnySent(x) <=> AnySent(e)
  BY <1>1 DEF AnySent
<1>4. ASSUME AnySent(e)
      PROVE  /\ Last(x).starting = Last(e).starting /\ Last(x).sentAt = Last(e).sentAt
             /\ Undecided(Last(e)) /\ Last(e).starting = shown => Undecided(Last(x))
  <2>1. Len(e.history) \in DOMAIN e.history
    BY <1>4, LastSent
  <2>2. SameAction(Last(e), Last(x))
    BY <1>2, <2>1 DEF Carries, SameActions, Last
  <2>3. Undecided(Last(e)) /\ Last(e).starting = shown => Undecided(Last(x))
    BY <1>2, <2>1 DEF Undecides, Last
  <2>4. QED
    BY <2>2, <2>3 DEF SameAction
<1>5. QED
  BY <1>2, <1>3, <1>4

-----------------------------------------------------------------------------
(* The steps.                                                              *)

(* A silent step is one of the engine.                                     *)
LEMMA SilentIsStep == SilentStep => AnyStep
  BY DEF SilentStep, AnyStep, Next

(* What the engine does without the spa reports nothing new.               *)
LEMMA InternalShows ==
    ASSUME SnapshotOK(snapshot), Internal
    PROVE  /\ SilentStep /\ SameReport(snapshot, snapshot') /\ now' = now
           /\ snapshot'.synced => snapshot.synced
           /\ pump' = pump /\ line' = line
<1> DEFINE Shows1 == SameReport(snapshot, snapshot') /\ (snapshot'.synced => snapshot.synced)
<1>1. ASSUME snapshot' = snapshot
      PROVE  Shows1
  BY <1>1 DEF SameReport
<1>2. CASE \E goal \in Goals, offset \in Deadlines, defer \in Defers, replace \in BOOLEAN :
              Request(goal[1], goal[2], offset, defer, replace)
  BY <1>1, <1>2 DEF Request, SilentStep, Internal
<1>3. CASE Tick \/ Prepare \/ \E c \in Controls : Cancel(c)
  BY <1>1, <1>3 DEF Tick, Prepare, Cancel, SilentStep, Internal
<1>4. CASE \E available \in Availability : ReceiveNothing(available)
  BY <1>1, <1>4 DEF ReceiveNothing, Observe, SilentStep, Internal
<1>5. CASE LoseConfiguration
  <2>1. Shows1
    BY <1>5, SyncLost DEF LoseConfiguration, SameReport, SnapshotOK, HasSnapshotFields
  <2>2. QED
    BY <1>5, <2>1 DEF LoseConfiguration, SilentStep, Internal
<1>6. CASE Reconnect
  <2>1. Shows1
    BY <1>6, SyncLost DEF Reconnect, SameReport, SnapshotOK, HasSnapshotFields
  <2>2. QED
    BY <1>6, <2>1 DEF Reconnect, SilentStep, Internal
<1>7. QED
  BY <1>2, <1>3, <1>4, <1>5, <1>6 DEF Internal

(* A step without a transmission leaves the plans, and reports either what *)
(* was reported or the speed.                                              *)
LEMMA SilentDelivery ==
    ASSUME DInv, SilentStep, pump' = pump, line' = line,
           \/ SameReport(snapshot, snapshot') /\ (snapshot'.synced => snapshot.synced)
           \/ Shown(snapshot') = Speed /\ Alike(snapshot'.status) /\ snapshot'.sequence # 0,
           \A i \in line : now' <= engine.history[i].sentAt + LineDelay
    PROVE  DInv'
<1> DEFINE sn == snapshot
           y == snapshot'
           e == engine
           x == engine'
<1>1. /\ KInv /\ EngineOK(e) /\ PlansOK(e) /\ JetsOK(e) /\ SeenOK(e, sn)
      /\ LineOK(e, sn, line, Speed, now) /\ NewsOK(e, sn, line, Speed)
  BY DEF DInv, KInv, HInv, IInv
<1>2. Speed' = Speed /\ pump' \in 0..2
  BY DEF Speed, DInv
<1>3. KInv'
  BY <1>1, KnownStep, SilentIsStep
<1>4. Alike(y.status)
  BY <1>1 DEF SameReport, SeenOK, Alike
<1>5. EngineOK(x) /\ Carries(e, x) /\ Undecides(e, x, Shown(y))
  BY <1>1, <1>4, SilentEffect, EffectCarries DEF KInv
<1>6. PlansOK(x) /\ JetsOK(x)
  BY <1>1, <1>5, PlansCarry
<1>7. /\ Len(x.history) = Len(e.history) /\ (AnySent(x) <=> AnySent(e))
      /\ AnySent(e) => /\ Last(x).starting = Last(e).starting
                       /\ Last(x).sentAt = Last(e).sentAt
                       /\ Undecided(Last(e)) /\ Last(e).starting = Shown(y) => Undecided(Last(x))
  BY <1>1, <1>5, LastStays
<1>8. SameReport(sn, y) => Shown(y) = Shown(sn)
  BY DEF SameReport, Shown, PumpValue
<1>9. SeenOK(x, y)
  BY <1>1, <1>4, <1>7 DEF SeenOK, SameReport
<1>10. LineOK(x, y, line, Speed, now')
  <2>1. line \subseteq {Len(x.history)}
    BY <1>1, <1>7 DEF LineOK
  <2>2. ASSUME line # {}
        PROVE  /\ AnySent(x) /\ Undecided(Last(x)) /\ now' <= Last(x).sentAt + LineDelay
               /\ Last(x).starting = Speed /\ Shown(y) = Speed
    <3>1. /\ AnySent(e) /\ Undecided(Last(e)) /\ Last(e).starting = Speed /\ Shown(sn) = Speed
      BY <1>1, <2>2 DEF LineOK
    <3>2. Shown(y) = Speed
      BY <1>8, <3>1
    <3>3. now' <= Last(e).sentAt + LineDelay
      BY <1>1, <2>2 DEF LineOK, Last
    <3>4. QED
      BY <1>7, <3>1, <3>2, <3>3
  <2>3. QED
    BY <2>1, <2>2 DEF LineOK
<1>11. NewsOK(x, y, line, Speed)
  <2>1. SUFFICES ASSUME y.sequence # 0, Shown(y) # Speed
                 PROVE  /\ line = {} /\ AnySent(x) /\ Undecided(Last(x))
                        /\ Last(x).starting = Shown(y) /\ y.at <= Last(x).sentAt + LineDelay
    BY DEF NewsOK
  <2>2. SameReport(sn, y) /\ sn.sequence # 0 /\ Shown(sn) # Speed /\ y.at = sn.at
    BY <1>8, <2>1 DEF SameReport
  <2>3. /\ line = {} /\ AnySent(e) /\ Undecided(Last(e))
        /\ Last(e).starting = Shown(y) /\ y.at <= Last(e).sentAt + LineDelay
    BY <1>1, <1>8, <2>2 DEF NewsOK
  <2>4. QED
    BY <1>7, <2>3
<1> HIDE DEF sn, y, e, x
<1>12. QED
  BY <1>2, <1>3, <1>6, <1>9, <1>10, <1>11 DEF DInv, y, x

(* A command is written while nothing is under way, and starts at the speed.*)
LEMMA CommandDelivered ==
    ASSUME DInv, Command
    PROVE  DInv'
<1> DEFINE n == Len(engine.history) + 1
<1>1. /\ KInv /\ HInv /\ EngineOK(engine) /\ PlansOK(engine) /\ JetsOK(engine)
      /\ SeenOK(engine, snapshot) /\ now \in Nat /\ SnapshotOK(snapshot)
      /\ FreshOK(engine, snapshot, now)
      /\ LineOK(engine, snapshot, line, Speed, now) /\ NewsOK(engine, snapshot, line, Speed)
  BY DEF DInv, KInv, HInv, IInv
<1>2. Transmit(now) /\ line' = line \cup {Len(engine'.history)} /\ pump' = pump
  BY DEF Command
<1>3. now \in now..(now + ReceiptLag)
  BY <1>1, EngineInputs
<1>4. Transmission(engine, engine', now) /\ now' = now /\ snapshot' = snapshot
  BY <1>1, <1>2, <1>3, SentEffect
<1>5. KInv'
  BY <1>1, <1>2, <1>3, KnownStep DEF AnyStep, Next
<1>6. /\ PlansOK(engine') /\ JetsOK(engine') /\ SeenOK(engine', snapshot)
      /\ Planned(engine, engine', snapshot, now)
  BY <1>1, <1>4, SentPlans
<1>7. /\ engine.inflight = 0 /\ engine.resync = 0 /\ engine.state.available
      /\ Len(engine'.history) = n /\ n \in DOMAIN engine'.history
      /\ Last(engine').starting = Shown(snapshot) /\ Last(engine').sentAt = now
      /\ Undecided(Last(engine'))
  BY <1>6 DEF Planned, Last
<1>8. snapshot.sequence # 0 /\ snapshot.at \in Nat
  BY <1>1, <1>7 DEF FreshOK, Current, SeenOK, SnapshotOK
<1>9. line = {} /\ Shown(snapshot) = Speed
  BY <1>1, <1>7, <1>8, NothingUnderWay
<1>10. Speed' = Speed /\ pump' \in 0..2
  BY <1>2 DEF Speed, DInv
<1>11. LineOK(engine', snapshot, line', Speed, now)
  <2>1. now <= now + LineDelay
    BY <1>1, LineAssumption
  <2>2. AnySent(engine')
    BY <1>7 DEF AnySent
  <2>3. QED
    BY <1>2, <1>7, <1>9, <2>1, <2>2 DEF LineOK
<1>12. NewsOK(engine', snapshot, line', Speed)
  BY <1>9 DEF NewsOK
<1>13. QED
  BY <1>4, <1>5, <1>6, <1>10, <1>11, <1>12 DEF DInv

(* The command under way is applied or lost.                               *)
LEMMA LineDelivered ==
    ASSUME DInv, NEW i \in line, Apply(i) \/ Drop(i)
    PROVE  DInv'
<1>1. /\ KInv /\ EngineOK(engine) /\ PlansOK(engine) /\ JetsOK(engine)
      /\ SeenOK(engine, snapshot) /\ now \in Nat /\ FreshOK(engine, snapshot, now)
      /\ LineOK(engine, snapshot, line, Speed, now) /\ pump \in 0..2 /\ SnapshotOK(snapshot)
  BY DEF DInv, KInv, HInv, IInv
<1>2. /\ line' = line \ {i} /\ engine' = engine /\ snapshot' = snapshot /\ now' = now
      /\ pump' = pump \/ pump' = Toggled(pump)
  BY DEF Apply, Drop, vars
<1>3. /\ line \subseteq {Len(engine.history)} /\ AnySent(engine) /\ Undecided(Last(engine))
      /\ now <= Last(engine).sentAt + LineDelay /\ Last(engine).starting = Speed
      /\ Shown(snapshot) = Speed
  BY <1>1 DEF LineOK
<1>4. line' = {}
  BY <1>2, <1>3
<1>5. pump' \in 0..2
  <2>1. pump \in {0, 1, 2}
    BY <1>1
  <2>2. Toggled(pump) \in 0..2
    BY <2>1 DEF Toggled
  <2>3. QED
    BY <1>1, <1>2, <2>2
<1>6. KInv'
  BY <1>1, <1>2, KnownStep DEF AnyStep, vars
<1>7. LineOK(engine, snapshot, line', Speed', now)
  BY <1>4 DEF LineOK
<1>8. NewsOK(engine, snapshot, line', Speed')
  <2>1. snapshot.at <= Last(engine).sentAt + LineDelay
    <3>1. /\ snapshot.at \in Nat /\ snapshot.at <= now /\ Last(engine).sentAt \in Nat
          /\ LineDelay \in Nat
      BY <1>1, <1>3, LastSent, LineAssumption DEF FreshOK, Current, SnapshotOK
    <3>2. QED
      BY <1>1, <1>3, <3>1
  <2>2. QED
    BY <1>3, <1>4, <2>1 DEF NewsOK
<1>9. QED
  BY <1>1, <1>2, <1>5, <1>6, <1>7, <1>8 DEF DInv

(* A report shows the speed that the pump has.                             *)
LEMMA ReportDelivered ==
    ASSUME DInv, NEW available \in Availability, Report(available)
    PROVE  DInv'
<1>1. /\ SnapshotOK(snapshot) /\ HInv /\ pump \in 0..2 /\ now \in Nat
      /\ LineOK(engine, snapshot, line, Speed, now) /\ available \in BOOLEAN
  BY EngineInputs DEF DInv, KInv, HInv, IInv
<1>2. ReceiveStatus(Reported, available) /\ pump' = pump /\ line' = line
  BY DEF Report
<1>3. /\ now' = now
      /\ snapshot' = [snapshot EXCEPT !.status = Reported, !.at = now, !.synced = TRUE,
                                      !.sequence = @ + 1]
  BY <1>2 DEF ReceiveStatus, Observe
<1>4. snapshot'.status = Reported /\ snapshot'.sequence = snapshot.sequence + 1
  BY <1>1, <1>3 DEF SnapshotOK, HasSnapshotFields
<1>5. snapshot'.sequence # 0
  BY <1>1, <1>4 DEF SnapshotOK
<1>6. StatusOK(Reported) /\ Shown(snapshot') = Speed /\ Alike(snapshot'.status)
  BY <1>1, <1>4, ReportShows
<1>7. SilentStep
  BY <1>1, <1>2, <1>6 DEF SilentStep
<1>8. \A i \in line : now' <= engine.history[i].sentAt + LineDelay
  BY <1>1, <1>3 DEF LineOK, Last
<1>9. QED
  BY <1>2, <1>5, <1>6, <1>7, <1>8, SilentDelivery

(* Time does not pass the moment at which a command takes effect.          *)
LEMMA WaitDelivered ==
    ASSUME DInv, Wait
    PROVE  DInv'
<1>1. /\ now \in Nat /\ EngineOK(engine) /\ LineOK(engine, snapshot, line, Speed, now)
  BY DEF DInv, KInv, HInv, IInv
<1>2. /\ now' = now + 1 /\ snapshot' = snapshot /\ SilentStep /\ pump' = pump /\ line' = line
      /\ \A i \in line : now < engine.history[i].sentAt + LineDelay
  BY DEF Wait, Elapse, SilentStep
<1>3. ASSUME NEW i \in line
      PROVE  now' <= engine.history[i].sentAt + LineDelay
  <2>1. i = Len(engine.history) /\ AnySent(engine)
    BY <1>1 DEF LineOK
  <2>2. engine.history[i].sentAt \in Nat /\ LineDelay \in Nat
    BY <1>1, <2>1, LastSent, LineAssumption DEF Last
  <2>3. QED
    BY <1>1, <1>2, <2>2
<1>4. QED
  BY <1>2, <1>3, SilentDelivery DEF SameReport

(* Nothing is under way from the start.                                    *)
LEMMA DeliveryBegins == DeliveryInit => DInv
<1> SUFFICES ASSUME DeliveryInit PROVE DInv
  OBVIOUS
<1>1. KInv /\ Init
  BY KnownInit DEF DeliveryInit
<1>2. /\ engine.history = <<>> /\ snapshot.synced = FALSE /\ snapshot.sequence = 0
      /\ snapshot.status = NoState.status /\ line = {} /\ pump \in 0..2
  BY DEF Init, DeliveryInit
<1>3. DOMAIN engine.history = {}
  BY <1>2
<1>4. PlansOK(engine) /\ JetsOK(engine) /\ SeenOK(engine, snapshot)
  BY <1>2, <1>3 DEF PlansOK, JetsOK, SeenOK, AnySent, Alike
<1>5. LineOK(engine, snapshot, line, Speed, now) /\ NewsOK(engine, snapshot, line, Speed)
  BY <1>2 DEF LineOK, NewsOK
<1>6. QED
  BY <1>1, <1>2, <1>4, <1>5 DEF DInv

(* What the engine does by itself leaves the invariant.                    *)
LEMMA InternalDelivered ==
    ASSUME DInv, Internal
    PROVE  DInv'
<1>1. SnapshotOK(snapshot) /\ LineOK(engine, snapshot, line, Speed, now)
  BY DEF DInv, KInv, HInv, IInv
<1>2. /\ SilentStep /\ SameReport(snapshot, snapshot') /\ now' = now
      /\ snapshot'.synced => snapshot.synced
      /\ pump' = pump /\ line' = line
  BY <1>1, InternalShows
<1>3. \A i \in line : now' <= engine.history[i].sentAt + LineDelay
  BY <1>1, <1>2 DEF LineOK, Last
<1>4. QED
  BY <1>2, <1>3, SilentDelivery

(* Every step of the engine, the spa and the line.                         *)
LEMMA DeliveryStep == DInv /\ [DeliveryNext]_deliveryVars => DInv'
<1> SUFFICES ASSUME DInv, [DeliveryNext]_deliveryVars PROVE DInv'
  OBVIOUS
<1>1. CASE UNCHANGED deliveryVars
  <2>1. /\ SilentStep /\ snapshot' = snapshot /\ now' = now /\ pump' = pump /\ line' = line
    BY <1>1 DEF deliveryVars, SilentStep, vars
  <2>2. \A i \in line : now' <= engine.history[i].sentAt + LineDelay
    BY <2>1 DEF DInv, LineOK, Last
  <2>3. QED
    BY <2>1, <2>2, SilentDelivery DEF SameReport
<1>2. QED
  BY <1>1, WaitDelivered, CommandDelivered, ReportDelivered, InternalDelivered, LineDelivered
     DEF DeliveryNext

(* A goal that becomes a success without a transmission was observed.      *)
LEMMA EffectSucceeds ==
    ASSUME KInv, Effect
    PROVE  Succeeded(engine, engine')
<1>1. EngineOK(engine) /\ now \in Nat
  BY DEF KInv, HInv, IInv
<1>2. CASE Quiet(engine, engine')
  BY <1>2 DEF Quiet
<1>3. CASE Requests(engine, engine')
  <2>1. PICK a : /\ EngineOK(a) /\ Subdued(engine, a) /\ NoSuccess(engine, a)
                 /\ \E goal \in Goals, deadline \in Nat, defer \in Nat, replace \in BOOLEAN :
                       engine' = Admitted(a, goal[1], goal[2], deadline, defer, replace)
    BY <1>3 DEF Requests
  <2>2. PICK goal \in Goals, deadline \in Nat, defer \in Nat, replace \in BOOLEAN :
           engine' = Admitted(a, goal[1], goal[2], deadline, defer, replace)
    BY <2>1
  <2>3. Admits(a, engine', goal[1])
    BY <1>1, <2>1, <2>2, AdmittedOK, EngineInputs
  <2>4. a.counter = engine.counter
    BY <2>1 DEF Subdued, Continues, SameRequests
  <2>5. NoSuccess(engine, engine')
    BY <2>1, <2>3, <2>4 DEF NoSuccess, Admits
  <2>6. QED
    BY <1>1, <2>5, NoneSucceeds
<1>4. CASE Watches(engine, engine', snapshot, snapshot', now)
  <2>1. PICK a : Subdued(engine, a) /\ NoSuccess(engine, a) /\ Succeeded(a, engine')
    BY <1>4 DEF Watches, Observes
  <2>2. QED
    BY <1>1, <2>1, SucceedsLater DEF Subdued, Continues
<1>5. QED
  BY <1>2, <1>3, <1>4 DEF Effect

(* Once nothing is in flight or in doubt, what the engine observes is real.*)
LEMMA ObservedIsReal ==
    ASSUME NEW e, EngineOK(e), NEW sn, NEW t \in Nat, SnapshotOK(sn), FreshOK(e, sn, t),
           SeenOK(e, sn), Known(e, sn),
           NEW ln, NEW sp, LineOK(e, sn, ln, sp, t), NewsOK(e, sn, ln, sp),
           e.inflight = 0, e.resync = 0, SafeFor(e.state, "pump1")
    PROVE  ln = {} /\ Value(e.state, "pump1") = sp
<1>1. e.state.available
  BY DEF SafeFor, ControlsSafe
<1>2. sn.sequence # 0 /\ sn.at \in Nat
  BY <1>1 DEF FreshOK, Current, SeenOK, SnapshotOK
<1>3. ln = {} /\ Shown(sn) = sp
  BY <1>2, NothingUnderWay
<1>4. e.state.status = sn.status /\ StatusOK(e.state.status)
  BY DEF Known
<1>5. Value(e.state, "pump1") = Shown(e.state)
  BY <1>4, PumpReads
<1>6. Shown(e.state) = Shown(sn)
  BY <1>4 DEF Shown, PumpValue
<1>7. QED
  BY <1>3, <1>5, <1>6

(* The goal of a success is what the pump does.                            *)
LEMMA SuccessStep ==
    ASSUME DInv, [DeliveryNext]_deliveryVars, NEW id \in 1..engine.counter,
           engine.intents[id].stage # "VERIFIED", engine'.intents[id].stage = "VERIFIED"
    PROVE  line = {} /\ engine.intents[id].desired = Speed
<1>1. /\ KInv /\ HInv /\ EngineOK(engine) /\ now \in Nat /\ SnapshotOK(snapshot)
      /\ FreshOK(engine, snapshot, now) /\ SeenOK(engine, snapshot) /\ Known(engine, snapshot)
      /\ LineOK(engine, snapshot, line, Speed, now) /\ NewsOK(engine, snapshot, line, Speed)
  BY DEF DInv, KInv, HInv, IInv
<1>2. DInv'
  BY DeliveryStep
<1>3. /\ EngineOK(engine') /\ now' \in Nat /\ SnapshotOK(snapshot')
      /\ FreshOK(engine', snapshot', now') /\ SeenOK(engine', snapshot')
      /\ Known(engine', snapshot') /\ LineOK(engine', snapshot', line', Speed', now')
      /\ NewsOK(engine', snapshot', line', Speed')
  BY <1>2 DEF DInv, KInv, HInv, IInv
<1>4. engine.intents[id].control = "pump1"
  BY <1>1, PumpAssumption DEF EngineOK, GoalsOK, IntentOK
<1>5. CASE engine' = engine
  BY <1>5
<1>6. CASE SilentStep /\ pump' = pump /\ line' = line
  <2>1. Succeeded(engine, engine')
    BY <1>1, <1>6, SilentEffect, EffectSucceeds DEF KInv
  <2>2. /\ engine'.inflight = 0 /\ engine'.resync = 0 /\ SafeFor(engine'.state, "pump1")
        /\ Value(engine'.state, "pump1") = engine.intents[id].desired
    BY <1>4, <2>1 DEF Succeeded
  <2>3. line' = {} /\ Value(engine'.state, "pump1") = Speed'
    BY <1>3, <2>2, ObservedIsReal
  <2>4. Speed' = Speed
    BY <1>6 DEF Speed
  <2>5. QED
    BY <1>6, <2>2, <2>3, <2>4
<1>7. CASE Command
  <2> DEFINE p == Prepared(engine)
             y == Recorded(p, Offer(engine), now)
  <2>1. Transmit(now) /\ now \in now..(now + ReceiptLag)
    BY <1>1, <1>7, EngineInputs DEF Command
  <2>2. Transmission(engine, engine', now)
    BY <1>1, <2>1, SentEffect
  <2>3. /\ Quiet(engine, p) /\ p.state = engine.state /\ p.resync = 0 /\ engine.inflight = 0
        /\ EngineOK(p) /\ EngineOK(y) /\ Records(p, y, Offer(engine), now)
        /\ NoSuccess(y, engine')
    BY <2>2 DEF Transmission, Quiet
  <2> HIDE DEF p, y
  <2>4. p.counter = engine.counter /\ y.counter = p.counter
    BY <2>3 DEF Quiet, Subdued, Continues, SameRequests, Records
  <2>5. y.intents[id].stage = "VERIFIED"
    BY <2>3, <2>4 DEF NoSuccess
  <2>6. p.intents[id].stage = "VERIFIED"
    BY <2>3, <2>4, <2>5 DEF Records
  <2>7. SafeFor(engine.state, "pump1") /\ Value(engine.state, "pump1") = engine.intents[id].desired
    BY <1>4, <2>3, <2>6 DEF Quiet, Succeeded
  <2>8. engine.resync = 0
    BY <2>3 DEF Quiet, Subdued, Calm
  <2>9. QED
    BY <1>1, <2>3, <2>7, <2>8, ObservedIsReal
<1>8. CASE \E available \in Availability : Report(available)
  <2>1. /\ pump \in 0..2 /\ pump' = pump /\ line' = line
        /\ \E available \in BOOLEAN : ReceiveStatus(Reported, available)
    BY <1>8, EngineInputs DEF Report, DInv
  <2>2. StatusOK(Reported)
    <3>1. [snapshot EXCEPT !.status = Reported].status = Reported
      BY <1>1 DEF SnapshotOK, HasSnapshotFields
    <3>2. QED
      BY <2>1, <3>1, ReportShows
  <2>3. QED
    BY <1>6, <2>1, <2>2 DEF SilentStep
<1>9. CASE Internal
  BY <1>1, <1>6, <1>9, InternalShows
<1>10. QED
  BY <1>5, <1>7, <1>8, <1>9 DEF DeliveryNext, Wait, Elapse, Apply, Drop, deliveryVars, vars

-----------------------------------------------------------------------------
(* The theorems.                                                           *)

(* DeliveryInvariance: the status shows the speed, unless the last         *)
(* transaction took effect since and is still undecided.                   *)
THEOREM DeliveryInvariance == DeliverySpec => []DInv
  BY DeliveryBegins, DeliveryStep, PTL DEF DeliverySpec

(* EveryToggleFindsItsSpeed: a command under way finds the pump as its plan*)
(* assumed, for every delay shorter than the settling interval and every   *)
(* order of losses, timeouts, replacements and reconnections.              *)
THEOREM EveryToggleFindsItsSpeed == DeliverySpec => []PlanStillHolds
<1>1. DInv => PlanStillHolds
  BY DEF DInv, LineOK, Last, PlanStillHolds
<1>2. QED
  BY <1>1, DeliveryInvariance, PTL

(* NoJetsAgain: once an off goal has stopped the jets, it never turns them *)
(* on again.                                                               *)
THEOREM NoJetsAgain == DeliverySpec => []JetsStayStopped
<1>1. DInv => JetsStayStopped
  BY DEF DInv, JetsOK, JetsStayStopped
<1>2. QED
  BY <1>1, DeliveryInvariance, PTL

(* EverySuccessIsReal: a pump goal only succeeds while the pump runs at the*)
(* desired speed and no command is under way that could still change it.   *)
THEOREM EverySuccessIsReal == DeliverySpec => SuccessIsReal
<1>1. DInv /\ [DeliveryNext]_deliveryVars =>
        [\A id \in 1..engine.counter :
            /\ engine.intents[id].stage # "VERIFIED"
            /\ engine'.intents[id].stage = "VERIFIED"
            => line = {} /\ engine.intents[id].desired = Speed]_deliveryVars
  BY SuccessStep
<1>2. QED
  BY <1>1, DeliveryInvariance, PTL DEF DeliverySpec, SuccessIsReal
=============================================================================
