------------------------ MODULE EngineHistoryProofs ------------------------
(***************************************************************************)
(* What CommandEngine may send, again and again, for every value of its    *)
(* constants: the budget of an intent, the single acknowledgement, the     *)
(* time a goal leaves for its confirmation, and the news and the delay     *)
(* that separate an action from an ambiguous one before it.                *)
(*                                                                         *)
(* Every method but request and sent continues the engine: it writes       *)
(* verdicts and stages and leaves alone what was asked for and what was    *)
(* sent.  The invariants are carried over those methods by one lemma, and  *)
(* over request and sent by one lemma each.                                *)
(***************************************************************************)
EXTENDS CommandEngineProofs

SameAction(p, q) ==
    /\ q.intent = p.intent /\ q.control = p.control /\ q.epoch = p.epoch
    /\ q.sequence = p.sequence /\ q.sentAt = p.sentAt
    /\ q.desired = p.desired /\ q.starting = p.starting /\ q.expected = p.expected

SameActions(e, x) ==
    /\ DOMAIN x.history = DOMAIN e.history
    /\ \A i \in DOMAIN e.history :
          /\ SameAction(e.history[i], x.history[i])
          /\ i # e.inflight => x.history[i] = e.history[i]

SameRequests(e, x) ==
    /\ x.counter = e.counter /\ x.latest = e.latest /\ x.actions = e.actions
    /\ \A id \in 1..e.counter : /\ x.intents[id].control = e.intents[id].control
                                /\ x.intents[id].desired = e.intents[id].desired
                                /\ x.intents[id].deadline = e.intents[id].deadline

Acknowledging(e) == e.inflight # 0 /\ e.history[e.inflight].control = "ack_reminder"

(* An acknowledgement that leaves the slot takes its goal along.           *)
GoalEndsToo(e, x) ==
    x.inflight = 0 /\ Acknowledging(e)
        => x.intents[e.history[e.inflight].intent].stage \in Terminal

Continues(e, x) ==
    /\ GoalsFinal(e, x) /\ SameActions(e, x) /\ SameRequests(e, x)
    /\ x.inflight \in {0, e.inflight} /\ GoalEndsToo(e, x)

(* Without an observation: a doubt is new only behind a raised barrier,    *)
(* whose settling has not begun.                                           *)
NoNewDoubt(e, x) ==
    \A i \in DOMAIN e.history : Ambiguous(x.history[i]) => Ambiguous(e.history[i])

SameSight(e, x) ==
    /\ x.state.epoch = e.state.epoch /\ x.state.sequence = e.state.sequence
    /\ x.state.at = e.state.at /\ x.state.status = e.state.status
    /\ x.state.available => e.state.available

Calm(e, x) ==
    \/ NoNewDoubt(e, x) /\ x.resync = e.resync /\ x.settling = e.settling
    \/ x.resync # 0 /\ x.settling = None

(* No goal is reported as a success.                                       *)
NoSuccess(e, x) ==
    \A id \in 1..e.counter :
        x.intents[id].stage = "VERIFIED" => e.intents[id].stage = "VERIFIED"

(* No transaction ends but in doubt.                                       *)
Unjudged(e, x) ==
    \A i \in DOMAIN e.history : x.history[i] = e.history[i] \/ Ambiguous(x.history[i])

Subdued(e, x) == Continues(e, x) /\ Calm(e, x) /\ SameSight(e, x) /\ Unjudged(e, x)

-----------------------------------------------------------------------------
(* The relations compose over the calls of one method.                     *)

(* An engine continues itself.                                             *)
LEMMA ContinuesReflexive ==
    ASSUME NEW e, EngineOK(e)
    PROVE  Subdued(e, e) /\ NoSuccess(e, e) /\ NoNewDoubt(e, e)
  BY DEF Subdued, Continues, GoalsFinal, SameActions, SameAction, SameRequests, GoalEndsToo,
         Acknowledging, NoSuccess, NoNewDoubt, SameSight, Calm, Unjudged, EngineOK, GoalsOK

(* Continuing twice is continuing.                                         *)
LEMMA ContinuesTransitive ==
    ASSUME NEW e, NEW x, NEW y, EngineOK(e), EngineOK(x), EngineOK(y),
           Continues(e, x), Continues(x, y)
    PROVE  Continues(e, y)
<1>1. GoalsFinal(e, y)
  BY GoalsFinalTransitive DEF EngineOK, GoalsOK, Continues
<1>2. SameActions(e, y)
  <2>1. \A i \in DOMAIN e.history : i # e.inflight => i # x.inflight
    BY HistoryDomain DEF Continues, EngineOK, HistoryOK
  <2>2. QED
    BY <2>1 DEF Continues, SameActions, SameAction
<1>3. SameRequests(e, y)
  BY DEF Continues, SameRequests
<1>4. y.inflight \in {0, e.inflight}
  BY DEF Continues
<1>5. ASSUME y.inflight = 0, Acknowledging(e)
      PROVE  y.intents[e.history[e.inflight].intent].stage \in Terminal
  <2> DEFINE id == e.history[e.inflight].intent
  <2>1. e.inflight \in DOMAIN e.history
    BY <1>5, HistoryDomain DEF Acknowledging, EngineOK, HistoryOK
  <2>2. id \in 1..e.counter /\ x.counter = e.counter
    BY <2>1 DEF EngineOK, HistoryOK, TransactionOK, Continues, SameRequests
  <2>3. CASE x.inflight = 0
    <3>1. x.intents[id].stage \in Terminal
      BY <1>5, <2>3 DEF Continues, GoalEndsToo
    <3>2. y.intents[id] = x.intents[id]
      BY <2>2, <3>1 DEF Continues, GoalsFinal
    <3>3. QED
      BY <3>1, <3>2
  <2>4. CASE x.inflight # 0
    <3>1. x.inflight = e.inflight /\ SameAction(e.history[e.inflight], x.history[e.inflight])
      BY <2>1, <2>4 DEF Continues, SameActions
    <3>2. Acknowledging(x) /\ x.history[x.inflight].intent = id
      BY <1>5, <2>4, <3>1 DEF Acknowledging, SameAction
    <3>3. QED
      BY <1>5, <3>2 DEF Continues, GoalEndsToo
  <2>5. QED
    BY <2>3, <2>4
<1>6. QED
  BY <1>1, <1>2, <1>3, <1>4, <1>5 DEF Continues, GoalEndsToo

(* So are the steps that observe nothing.                                  *)
LEMMA SubduedTransitive ==
    ASSUME NEW e, NEW x, NEW y, EngineOK(e), EngineOK(x), EngineOK(y),
           Subdued(e, x), Subdued(x, y)
    PROVE  Subdued(e, y)
<1>1. Continues(e, y)
  BY ContinuesTransitive DEF Subdued
<1>2. DOMAIN x.history = DOMAIN e.history
  BY DEF Subdued, Continues, SameActions
<1>3. Calm(e, y)
  BY <1>2 DEF Subdued, Calm, NoNewDoubt
<1>4. SameSight(e, y)
  BY DEF Subdued, SameSight
<1>5. Unjudged(e, y)
  BY <1>2 DEF Subdued, Unjudged
<1>6. QED
  BY <1>1, <1>3, <1>4, <1>5 DEF Subdued

-----------------------------------------------------------------------------
(* The methods that continue the engine.                                   *)

(* Moving open goals between stages continues the engine.                  *)
LEMMA RestagedContinues ==
    ASSUME NEW e, NEW x, EngineOK(e), Restaged(e, x)
    PROVE  Subdued(e, x) /\ NoNewDoubt(e, x)
<1>1. GoalsFinal(e, x) /\ Kept(e, x)
  BY RestagedIsFinal
<1>2. SameActions(e, x) /\ SameRequests(e, x)
  BY DEF Restaged, SameActions, SameAction, SameRequests
<1>3. GoalEndsToo(e, x) /\ x.inflight = e.inflight
  BY DEF Restaged, GoalEndsToo, Acknowledging
<1>4. Calm(e, x) /\ SameSight(e, x) /\ NoNewDoubt(e, x) /\ Unjudged(e, x)
  BY DEF Restaged, Calm, SameSight, NoNewDoubt, Unjudged
<1>5. QED
  BY <1>1, <1>2, <1>3, <1>4 DEF Subdued, Continues

(* A verdict leaves the record of what was sent.                           *)
LEMMA ClosedContinues ==
    ASSUME NEW e, NEW x, EngineOK(e), e.inflight # 0, NEW result, NEW value,
           Closed(e, x, result, value)
    PROVE  SameActions(e, x)
<1>1. DOMAIN x.history = DOMAIN e.history /\ e.inflight \in DOMAIN e.history
  BY HistoryDomain DEF Closed, EngineOK, HistoryOK
<1>2. SameAction(e.history[e.inflight], x.history[e.inflight])
  BY <1>1 DEF Closed, EngineOK, HistoryOK, IsTransaction, SameAction
<1>3. \A i \in DOMAIN e.history : i # e.inflight => SameAction(e.history[i], x.history[i])
  BY DEF Closed, SameAction
<1>4. QED
  BY <1>1, <1>2, <1>3 DEF Closed, SameActions

(* What a transaction of a well-formed engine names was requested.         *)
LEMMA PendingRequested ==
    ASSUME NEW e, EngineOK(e), e.inflight # 0
    PROVE  LET pending == e.history[e.inflight]
           IN  /\ e.inflight \in DOMAIN e.history
               /\ pending.intent \in 1..e.counter /\ pending.intent # 0
               /\ e.intents[pending.intent].stage \in Stages
               /\ ~Open(e, pending.intent) => e.intents[pending.intent].stage \in Terminal
<1>1. e.inflight \in DOMAIN e.history
  BY HistoryDomain DEF EngineOK, HistoryOK
<1>2. e.history[e.inflight].intent \in 1..e.counter /\ e.counter \in Nat
  BY <1>1 DEF EngineOK, HistoryOK, TransactionOK, GoalsOK
<1>3. QED
  BY <1>1, <1>2 DEF EngineOK, GoalsOK, IntentOK, Open

(* Giving a transaction up requeues its goal, but ends the one of an       *)
(* acknowledgement; it reports no success.                                 *)
LEMMA AbandonContinues ==
    ASSUME NEW e, EngineOK(e), e.inflight # 0, NEW result \in {"FAILED", "CANCELLED"}
    PROVE  LET x == Abandon(e, result)
           IN  EngineOK(x) /\ Subdued(e, x) /\ NoSuccess(e, x)
<1> DEFINE x == Abandon(e, result)
           pending == e.history[e.inflight]
           done == Complete(e, result, None)
           closed == [done EXCEPT !.resync = pending.epoch, !.settling = None]
           stage == IF pending.control = "ack_reminder" THEN "FAILED" ELSE "QUEUED"
<1>1. /\ EngineOK(x) /\ Doubted(e, x) /\ GoalsFinal(e, x)
      /\ x.state = e.state /\ x.counter = e.counter /\ x.latest = e.latest
      /\ x.actions = e.actions /\ x.settling = None
  BY AbandonOK
<1>2. /\ pending.intent \in 1..e.counter
      /\ ~Open(e, pending.intent) => e.intents[pending.intent].stage \in Terminal
  BY PendingRequested
<1>3. IsEngine(done) /\ Closed(e, done, result, None) /\ done.intents = e.intents
  BY CompleteCloses
<1>4. SameActions(e, done)
  BY <1>3, ClosedContinues
<1>5. IsEngine(closed) /\ closed.history = done.history /\ closed.intents = e.intents
  <2>1. closed = WithBarrier(done, pending.epoch, None)
    BY DEF WithBarrier
  <2> HIDE DEF done, closed, pending
  <2>2. QED
    BY <1>3, <2>1, BarrierAssigned
<1>6. \/ x = closed /\ ~Open(e, pending.intent)
      \/ x = Update(closed, pending.intent, stage)
  BY DEF Abandon
<1> HIDE DEF x, closed, done, stage, pending
<1>7. /\ x.history = done.history
      /\ \/ x.intents = e.intents /\ ~Open(e, pending.intent)
         \/ x.intents = [e.intents EXCEPT ![pending.intent].stage = stage]
  BY <1>5, <1>6 DEF IsEngine, Update
<1>8. ASSUME NEW id \in 1..e.counter
      PROVE  /\ x.intents[id].control = e.intents[id].control
             /\ x.intents[id].desired = e.intents[id].desired
             /\ x.intents[id].deadline = e.intents[id].deadline
             /\ x.intents[id].stage \in {e.intents[id].stage, stage}
             /\ id = pending.intent => x.intents[id].stage \in Terminal \cup {stage}
  <2>1. IsItem(e.intents[id]) /\ id \in DOMAIN e.intents
    BY DEF EngineOK, GoalsOK
  <2>2. CASE x.intents = e.intents /\ ~Open(e, pending.intent)
    BY <1>2, <2>2
  <2>3. CASE x.intents = [e.intents EXCEPT ![pending.intent].stage = stage]
    BY <2>1, <2>3 DEF IsItem
  <2>4. QED
    BY <1>7, <2>2, <2>3
<1>9. SameActions(e, x) /\ SameRequests(e, x)
  BY <1>1, <1>4, <1>7, <1>8 DEF SameActions, SameRequests
<1>10. GoalEndsToo(e, x)
  BY <1>2, <1>8 DEF GoalEndsToo, Acknowledging, Terminal, stage, pending
<1>11. NoSuccess(e, x)
  BY <1>8 DEF NoSuccess, stage
<1>12. Calm(e, x) /\ SameSight(e, x)
  <2>1. x.resync # 0
    BY <1>1, PendingRequested DEF Doubted, EngineOK, BarrierOK
  <2>2. QED
    BY <1>1, <2>1 DEF Calm, SameSight
<1>13. Unjudged(e, x)
  <2>1. \A i \in DOMAIN e.history : i # e.inflight => x.history[i] = e.history[i]
    BY <1>9 DEF SameActions
  <2>2. QED
    BY <1>1, <2>1 DEF Unjudged, Doubted
<1>14. QED
  BY <1>1, <1>9, <1>10, <1>11, <1>12, <1>13 DEF Subdued, Continues, Doubted, x

(* No success, and none is possible for a goal past its deadline.          *)
OutOfTime(e, x, t) ==
    \A id \in 1..e.counter :
        Overdue(e.intents[id], t) => x.intents[id].stage \in Terminal

(* tick fails the goals past their deadlines before anything else.         *)
LEMMA TickedContinues ==
    ASSUME NEW e, EngineOK(e), NEW t
    PROVE  LET x == Ticked(e, t)
           IN  EngineOK(x) /\ Subdued(e, x) /\ NoSuccess(e, x) /\ OutOfTime(e, x, t)
<1> DEFINE due == Expired(e, t)
           x == Ticked(e, t)
<1>1. EngineOK(due) /\ Restaged(e, due) /\ due.inflight = e.inflight
  BY ExpiredOK, ExpiredRestages DEF Kept
<1>2. Subdued(e, due)
  BY <1>1, RestagedContinues
<1>3. ASSUME NEW id \in 1..e.counter
      PROVE  /\ due.intents[id].stage = "VERIFIED" => e.intents[id].stage = "VERIFIED"
             /\ Overdue(e.intents[id], t) => due.intents[id].stage \in Terminal
  <2>1. due.intents[id] = IF Open(e, id) /\ Overdue(e.intents[id], t)
                          THEN [e.intents[id] EXCEPT !.stage = "FAILED"]
                          ELSE e.intents[id]
    BY DEF Expired, EngineOK, IsEngine
  <2>2. IsItem(e.intents[id]) /\ id # 0
    BY DEF EngineOK, GoalsOK
  <2>3. CASE Open(e, id) /\ Overdue(e.intents[id], t)
    <3>1. due.intents[id].stage = "FAILED"
      BY <2>1, <2>2, <2>3 DEF IsItem
    <3>2. QED
      BY <3>1 DEF Terminal
  <2>4. CASE ~(Open(e, id) /\ Overdue(e.intents[id], t))
    BY <2>1, <2>2, <2>4 DEF Open
  <2>5. QED
    BY <2>3, <2>4
<1>4. x = due \/ (due.inflight # 0 /\ x = Abandon(due, "FAILED"))
  <2> HIDE DEF due
  <2>1. QED
    BY <1>1 DEF Ticked, due
<1> HIDE DEF due, x
<1>5. CASE x = due
  BY <1>1, <1>2, <1>3, <1>5 DEF x, NoSuccess, OutOfTime
<1>6. CASE due.inflight # 0 /\ x = Abandon(due, "FAILED")
  <2>1. EngineOK(x) /\ Subdued(due, x) /\ NoSuccess(due, x)
    BY <1>1, <1>6, AbandonContinues
  <2>2. Subdued(e, x)
    BY <1>1, <1>2, <2>1, SubduedTransitive
  <2>3. due.counter = e.counter
    BY <1>1 DEF Restaged
  <2>4. NoSuccess(e, x)
    BY <1>3, <2>1, <2>3 DEF NoSuccess
  <2>5. OutOfTime(e, x, t)
    BY <1>3, <2>1, <2>3 DEF OutOfTime, Subdued, Continues, GoalsFinal
  <2>6. QED
    BY <2>1, <2>2, <2>4, <2>5 DEF x
<1>7. QED
  BY <1>4, <1>5, <1>6

(* suspend, too, reports no success.                                       *)
LEMMA SuspendedContinues ==
    ASSUME NEW e, EngineOK(e)
    PROVE  LET x == Suspended(e)
           IN  /\ EngineOK(x) /\ Subdued(e, x) /\ NoSuccess(e, x)
               /\ x.state.available = FALSE
<1> DEFINE s == [e.state EXCEPT !.available = FALSE]
           blind == WithState(e, s)
           x == Suspended(e)
<1>1. /\ s.epoch = e.state.epoch /\ s.sequence = e.state.sequence /\ s.at = e.state.at
      /\ s.available = FALSE /\ s.status = e.state.status /\ HasStateFields(e.state)
  <2>1. HasStateFields(e.state)
    BY DEF EngineOK, IsState
  <2> DEFINE old == e.state
  <2>2. HasStateFields(old)
    BY <2>1
  <2> HIDE DEF old
  <2> DEFINE new == [old EXCEPT !.available = FALSE]
  <2>3. /\ new.epoch = old.epoch /\ new.sequence = old.sequence /\ new.at = old.at
        /\ new.available = FALSE /\ new.status = old.status
    BY <2>2 DEF HasStateFields
  <2>4. QED
    BY <2>1, <2>3 DEF old
<1>2. IsState(s) /\ e.state.epoch <= s.epoch
  <2>1. IsState(e.state) /\ HasStateFields(s)
    BY <1>1, AvailabilityAssigned DEF EngineOK
  <2> HIDE DEF s
  <2>2. s.available \in BOOLEAN /\ ~s.available
    BY <1>1
  <2>3. s.epoch \in Nat /\ s.sequence \in Nat /\ s.at \in Nat /\ e.state.epoch <= s.epoch
    BY <1>1, <2>1 DEF IsState
  <2>4. QED
    BY <2>1, <2>2, <2>3 DEF IsState
<1>3. x = (IF e.inflight = 0 THEN blind ELSE Abandon(blind, "CANCELLED"))
  BY DEF Suspended, WithState
<1> HIDE DEF s
<1>4. /\ EngineOK(blind) /\ Kept(e, blind) /\ SameGoals(e, blind) /\ GoalsFinal(e, blind)
      /\ blind.state = s /\ blind.settling = e.settling
  BY <1>2, StateOK, StateAssigned DEF EngineOK
<1> HIDE DEF blind, x
<1>5. Subdued(e, blind) /\ NoSuccess(e, blind)
  <2>1. SameActions(e, blind) /\ SameRequests(e, blind) /\ GoalEndsToo(e, blind)
    BY <1>4 DEF Kept, SameGoals, SameActions, SameAction, SameRequests, GoalEndsToo,
                Acknowledging
  <2>2. Calm(e, blind) /\ SameSight(e, blind)
    BY <1>1, <1>4 DEF Kept, Calm, NoNewDoubt, SameSight
  <2>3. Unjudged(e, blind)
    BY <1>4 DEF Kept, Unjudged
  <2>4. NoSuccess(e, blind) /\ blind.inflight = e.inflight
    BY <1>4 DEF NoSuccess, SameGoals, Kept
  <2>5. QED
    BY <1>4, <2>1, <2>2, <2>3, <2>4 DEF Subdued, Continues
<1>6. CASE e.inflight = 0
  BY <1>1, <1>3, <1>4, <1>5, <1>6 DEF x
<1>7. CASE e.inflight # 0
  <2>1. blind.inflight # 0 /\ x = Abandon(blind, "CANCELLED")
    BY <1>3, <1>4, <1>7 DEF Kept
  <2>2. EngineOK(x) /\ Subdued(blind, x) /\ NoSuccess(blind, x) /\ x.state = blind.state
    BY <1>4, <2>1, AbandonContinues, AbandonOK
  <2>3. Subdued(e, x)
    BY <1>4, <1>5, <2>2, SubduedTransitive
  <2>4. NoSuccess(e, x)
    BY <1>4, <1>5, <2>2 DEF NoSuccess, SameGoals
  <2>5. QED
    BY <1>1, <1>4, <2>2, <2>3, <2>4 DEF x
<1>8. QED
  BY <1>6, <1>7

(* next_action continues the engine and begins with a tick.                *)
LEMMA PreparedContinues ==
    ASSUME NEW e, EngineOK(e)
    PROVE  LET x == Prepared(e)
           IN  EngineOK(x) /\ Subdued(e, x)
<1> DEFINE due == Ticked(e, now)
           x == Prepared(e)
<1>1. EngineOK(due) /\ Subdued(e, due)
  BY TickedContinues
<1>2. x = (IF Ready(due) THEN Walk(due) ELSE due)
  BY DEF Prepared
<1> HIDE DEF due, x
<1>3. CASE ~Ready(due)
  BY <1>1, <1>2, <1>3 DEF x
<1>4. CASE Ready(due)
  <2>1. EngineOK(x) /\ Restaged(due, x)
    BY <1>1, <1>2, <1>4, WalkOK
  <2>2. QED
    BY <1>1, <2>1, RestagedContinues, SubduedTransitive DEF x
<1>5. QED
  BY <1>3, <1>4

-----------------------------------------------------------------------------
(* observe.                                                                *)

Unobserved(e, x) == x.state = e.state /\ x.resync = e.resync /\ x.settling = e.settling

(* A confirmation puts nothing in doubt, and ends the goal of an           *)
(* acknowledgement.                                                        *)
LEMMA ConfirmedContinues ==
    ASSUME NEW e, EngineOK(e), NEW s
    PROVE  LET x == Confirmed(e, s)
           IN  EngineOK(x) /\ Continues(e, x) /\ NoNewDoubt(e, x) /\ Unobserved(e, x)
<1> DEFINE x == Confirmed(e, s)
           action == e.history[e.inflight]
           verdict == IF RetainedLow(action, s) THEN "FAILED" ELSE "VERIFIED"
           value == Value(s, action.control)
           done == Complete(e, verdict, value)
<1>1. EngineOK(x) /\ GoalsFinal(e, x) /\ x.state = e.state /\ (Kept(e, x) \/ Resolved(e, x))
  BY ConfirmedOK
<1>2. CASE e.inflight = 0 \/ ~Confirms(action, s)
  <2>1. x = e
    BY <1>2 DEF Confirmed
  <2> HIDE DEF x
  <2>2. QED
    BY <2>1, ContinuesReflexive DEF Subdued, Unobserved, x
<1>3. CASE e.inflight # 0 /\ Confirms(action, s)
  <2>1. /\ action.intent \in 1..e.counter /\ e.inflight \in DOMAIN e.history
        /\ ~Open(e, action.intent) => e.intents[action.intent].stage \in Terminal
    BY <1>3, PendingRequested
  <2>2. \/ x = done /\ ~(Acknowledging(e) /\ Open(e, action.intent))
        \/ Open(e, action.intent) /\ x = Update(done, action.intent, verdict)
    BY <1>3 DEF Confirmed, Acknowledging
  <2>3. verdict \in Terminal
    BY DEF Terminal
  <2> HIDE DEF verdict, value, x
  <2>4. /\ IsEngine(done) /\ Closed(e, done, verdict, value)
        /\ done.counter = e.counter /\ done.latest = e.latest /\ done.actions = e.actions
        /\ done.intents = e.intents /\ done.resync = e.resync /\ done.settling = e.settling
    BY <1>3, CompleteCloses
  <2> HIDE DEF done
  <2>5. SameActions(e, done)
    BY <1>3, <2>4, ClosedContinues
  <2>6. /\ x.history = done.history /\ x.inflight = 0 /\ Unobserved(e, x)
        /\ x.counter = e.counter /\ x.latest = e.latest /\ x.actions = e.actions
        /\ \/ x.intents = e.intents /\ ~(Acknowledging(e) /\ Open(e, action.intent))
           \/ x.intents = [e.intents EXCEPT ![action.intent].stage = verdict]
    BY <1>1, <2>2, <2>4 DEF IsEngine, Update, Closed, Unobserved
  <2> HIDE DEF action
  <2>7. ASSUME NEW id \in 1..e.counter
        PROVE  /\ x.intents[id].control = e.intents[id].control
               /\ x.intents[id].desired = e.intents[id].desired
               /\ x.intents[id].deadline = e.intents[id].deadline
               /\ id = action.intent /\ Acknowledging(e) => x.intents[id].stage \in Terminal
    <3>1. IsItem(e.intents[id]) /\ id \in DOMAIN e.intents
      BY DEF EngineOK, GoalsOK
    <3>2. CASE x.intents = e.intents /\ ~(Acknowledging(e) /\ Open(e, action.intent))
      BY <2>1, <3>2
    <3>3. CASE x.intents = [e.intents EXCEPT ![action.intent].stage = verdict]
      BY <2>3, <3>1, <3>3 DEF IsItem
    <3>4. QED
      BY <2>6, <3>2, <3>3
  <2>8. SameRequests(e, x) /\ SameActions(e, x)
    BY <2>5, <2>6, <2>7 DEF SameRequests, SameActions
  <2>9. GoalEndsToo(e, x)
    BY <2>1, <2>7 DEF GoalEndsToo, action
  <2>10. NoNewDoubt(e, x)
    <3>1. Resolved(e, x)
      BY <1>1, <1>3, <2>6 DEF Kept
    <3>2. QED
      BY <2>5, <2>6, <3>1 DEF NoNewDoubt, Resolved, SameActions
  <2>11. QED
    BY <1>1, <2>6, <2>8, <2>9, <2>10 DEF Continues, x
<1>4. QED
  BY <1>2, <1>3

(* So does confirmation followed by verification.                          *)
LEMMA JudgedContinues ==
    ASSUME NEW e, EngineOK(e), NEW s
    PROVE  LET x == Verified(Confirmed(e, s), s)
           IN  EngineOK(x) /\ Continues(e, x) /\ NoNewDoubt(e, x) /\ Unobserved(e, x)
<1> DEFINE y == Confirmed(e, s)
           x == Verified(y, s)
<1>1. EngineOK(y) /\ Continues(e, y) /\ NoNewDoubt(e, y) /\ Unobserved(e, y)
  BY ConfirmedContinues
<1> HIDE DEF y
<1>2. EngineOK(x) /\ Restaged(y, x)
  BY <1>1, VerifiedOK
<1> HIDE DEF x
<1>3. Continues(y, x) /\ NoNewDoubt(y, x) /\ Unobserved(y, x)
  BY <1>1, <1>2, RestagedContinues DEF Subdued, Restaged, Unobserved
<1>4. Continues(e, x)
  BY <1>1, <1>2, <1>3, ContinuesTransitive
<1>5. DOMAIN y.history = DOMAIN e.history
  BY <1>1 DEF Continues, SameActions
<1>6. NoNewDoubt(e, x) /\ Unobserved(e, x)
  BY <1>1, <1>3, <1>5 DEF NoNewDoubt, Unobserved
<1>7. QED
  BY <1>2, <1>4, <1>6 DEF x, y

(* What a success and a verdict rest on: a goal succeeds by an observed    *)
(* value while nothing is in flight or in doubt, and a transaction by what *)
(* confirms it, which ends the goal that it reached.                       *)
Succeeded(e, x) ==
    \A id \in 1..e.counter :
        e.intents[id].stage # "VERIFIED" /\ x.intents[id].stage = "VERIFIED"
            => /\ x.inflight = 0 /\ x.resync = 0
               /\ LET item == e.intents[id]
                  IN  \/ item.control = "ack_reminder"
                      \/ SafeFor(x.state, item.control) /\ Value(x.state, item.control) = item.desired

GoalEnds(e, x, s, id) ==
    LET item == e.intents[id]
    IN  SafeFor(s, item.control) /\ Value(s, item.control) = item.desired
            => x.intents[id].stage \in Terminal

Concluded(e, x, s) ==
    \A i \in DOMAIN e.history :
        LET action == e.history[i]
        IN  \/ x.history[i] = action
            \/ /\ i = e.inflight /\ x.inflight = 0 /\ Confirms(action, s)
               /\ x.history[i].resulting = Value(s, action.control)
               /\ x.history[i].result = IF RetainedLow(action, s) THEN "FAILED" ELSE "VERIFIED"
               /\ RetainedLow(action, s) => x.intents[action.intent].stage \in Terminal
               /\ GoalEnds(e, x, s, action.intent)

(* The same of confirmation alone, which ends only the goals of an         *)
(* acknowledgement and of a pump that retained low speed.                  *)
LEMMA ConfirmedConcludes ==
    ASSUME NEW e, EngineOK(e), NEW s
    PROVE  LET x == Confirmed(e, s)
           IN  /\ \A id \in 1..e.counter :
                     \/ x.intents[id] = e.intents[id]
                     \/ x.inflight = 0 /\ x.intents[id].stage = "FAILED"
                     \/ x.inflight = 0 /\ e.intents[id].control = "ack_reminder"
               /\ \/ x = e
                  \/ LET i == e.inflight
                         action == e.history[i]
                     IN  /\ i # 0 /\ x.inflight = 0 /\ Confirms(action, s)
                         /\ SameActions(e, x)
                         /\ x.history[i].resulting = Value(s, action.control)
                         /\ x.history[i].result = IF RetainedLow(action, s) THEN "FAILED" ELSE "VERIFIED"
                         /\ RetainedLow(action, s) => x.intents[action.intent].stage \in Terminal
<1> DEFINE x == Confirmed(e, s)
           action == e.history[e.inflight]
           verdict == IF RetainedLow(action, s) THEN "FAILED" ELSE "VERIFIED"
           value == Value(s, action.control)
           done == Complete(e, verdict, value)
<1>1. CASE e.inflight = 0 \/ ~Confirms(action, s)
  <2>1. x = e
    BY <1>1 DEF Confirmed
  <2> HIDE DEF x
  <2>2. QED
    BY <2>1 DEF x
<1>2. CASE e.inflight # 0 /\ Confirms(action, s)
  <2>1. /\ action.intent \in 1..e.counter /\ e.inflight \in DOMAIN e.history
        /\ ~Open(e, action.intent) => e.intents[action.intent].stage \in Terminal
    BY <1>2, PendingRequested
  <2>2. \/ x = done /\ ~(RetainedLow(action, s) /\ Open(e, action.intent))
        \/ /\ RetainedLow(action, s) \/ action.control = "ack_reminder"
           /\ Open(e, action.intent) /\ x = Update(done, action.intent, verdict)
    BY <1>2 DEF Confirmed
  <2>3. verdict \in {"VERIFIED", "FAILED", "CANCELLED"} /\ verdict \in Terminal
        /\ (RetainedLow(action, s) => verdict = "FAILED")
        /\ (verdict = IF RetainedLow(action, s) THEN "FAILED" ELSE "VERIFIED")
    BY DEF Terminal
  <2>c. action.control = e.intents[action.intent].control
    BY <2>1 DEF EngineOK, HistoryOK, TransactionOK
  <2> HIDE DEF verdict, value, x
  <2>4. /\ IsEngine(done) /\ Closed(e, done, verdict, value) /\ done.intents = e.intents
        /\ done.counter = e.counter
    BY <1>2, CompleteCloses
  <2> HIDE DEF done
  <2>5. /\ SameActions(e, done) /\ done.inflight = 0
        /\ done.history[e.inflight].result = verdict
        /\ done.history[e.inflight].resulting = value
    <3>1. SameActions(e, done)
      BY <1>2, <2>4, ClosedContinues
    <3>2. done.inflight = 0
      BY <2>4 DEF Closed
    <3>3. done.history[e.inflight].result = verdict /\ done.history[e.inflight].resulting = value
      <4>1. verdict \in {"VERIFIED", "FAILED", "CANCELLED"}
        BY <2>3
      <4>2. QED
        BY <1>2, <2>4, <4>1, ClosedHistoryOK
    <3>4. QED
      BY <3>1, <3>2, <3>3
  <2>6. /\ x.history = done.history /\ x.inflight = 0
        /\ \/ x.intents = e.intents /\ ~(RetainedLow(action, s) /\ Open(e, action.intent))
           \/ /\ RetainedLow(action, s) \/ action.control = "ack_reminder"
              /\ x.intents = [e.intents EXCEPT ![action.intent].stage = verdict]
    BY <2>2, <2>4, <2>5 DEF IsEngine, Update
  <2>7. SameActions(e, x)
    BY <2>5, <2>6 DEF SameActions
  <2>8. ASSUME NEW id \in 1..e.counter
        PROVE  /\ \/ x.intents[id] = e.intents[id]
                  \/ x.intents[id].stage = "FAILED"
                  \/ e.intents[id].control = "ack_reminder"
               /\ RetainedLow(action, s) /\ id = action.intent => x.intents[id].stage \in Terminal
    <3> HIDE DEF action
    <3>1. IsItem(e.intents[id]) /\ id \in DOMAIN e.intents
      BY DEF EngineOK, GoalsOK
    <3>2. CASE x.intents = e.intents /\ ~(RetainedLow(action, s) /\ Open(e, action.intent))
      BY <2>1, <3>2 DEF action
    <3>3. CASE /\ RetainedLow(action, s) \/ action.control = "ack_reminder"
               /\ x.intents = [e.intents EXCEPT ![action.intent].stage = verdict]
      <4>1. CASE id # action.intent
        BY <3>1, <3>3, <4>1
      <4>2. CASE id = action.intent
        <5>1. x.intents[id] = [e.intents[id] EXCEPT !.stage = verdict]
          BY <3>1, <3>3, <4>2
        <5>2. x.intents[id].stage = verdict
          BY <3>1, <5>1 DEF IsItem
        <5>3. QED
          BY <2>3, <2>c, <3>3, <4>2, <5>2 DEF action
      <4>3. QED
        BY <4>1, <4>2
    <3>4. QED
      BY <2>6, <3>2, <3>3
  <2>9. QED
    BY <1>2, <2>1, <2>3, <2>5, <2>6, <2>7, <2>8 DEF x, value
<1>3. QED
  BY <1>1, <1>2

(* Verification makes exactly the goals it finds reached a success.        *)
LEMMA VerifiedReaches ==
    ASSUME NEW e, EngineOK(e), NEW s, NEW id \in 1..e.counter
    PROVE  LET x == Verified(e, s)
               item == e.intents[id]
           IN  /\ \/ x.intents[id] = item
                  \/ /\ e.inflight = 0 /\ SafeFor(s, item.control)
                     /\ Value(s, item.control) = item.desired
               /\ e.inflight = 0 => GoalEnds(e, x, s, id)
<1> DEFINE x == Verified(e, s)
<1>1. CASE e.inflight # 0
  BY <1>1 DEF Verified
<1>2. CASE e.inflight = 0
  <2>1. x.intents[id] = IF Reached(e, s, id) THEN [e.intents[id] EXCEPT !.stage = "VERIFIED"]
                        ELSE e.intents[id]
    BY <1>2 DEF Verified, EngineOK, IsEngine
  <2> HIDE DEF x
  <2>2. /\ IsItem(e.intents[id]) /\ e.intents[id].stage \in Stages /\ id # 0
        /\ Open(e, id) => e.latest[e.intents[id].control] = id
    BY DEF EngineOK, GoalsOK, IntentOK
  <2>3. CASE Reached(e, s, id)
    <3>1. x.intents[id].stage = "VERIFIED"
      BY <2>1, <2>2, <2>3 DEF IsItem
    <3>2. QED
      BY <1>2, <2>3, <3>1 DEF Reached, GoalEnds, Terminal, x
  <2>4. CASE ~Reached(e, s, id)
    <3>1. x.intents[id] = e.intents[id]
      BY <2>1, <2>4
    <3>2. GoalEnds(e, x, s, id)
      BY <2>2, <2>4, <3>1 DEF Reached, GoalEnds, Open
    <3>3. QED
      BY <3>1, <3>2 DEF x
  <2>5. QED
    BY <2>3, <2>4
<1>3. QED
  BY <1>1, <1>2

(* Judging an observation, out of doubt.                                   *)
LEMMA JudgedConcludes ==
    ASSUME NEW e, EngineOK(e), NEW s, e.resync = 0, e.state = s
    PROVE  LET x == Verified(Confirmed(e, s), s)
           IN  Succeeded(e, x) /\ Concluded(e, x, s)
<1> DEFINE y == Confirmed(e, s)
           x == Verified(y, s)
           pending == e.history[e.inflight]
<1>1. EngineOK(y) /\ Continues(e, y) /\ Unobserved(e, y)
  BY ConfirmedContinues
<1>2. /\ \A id \in 1..e.counter :
            \/ y.intents[id] = e.intents[id]
            \/ y.inflight = 0 /\ y.intents[id].stage = "FAILED"
            \/ y.inflight = 0 /\ e.intents[id].control = "ack_reminder"
      /\ \/ y = e
         \/ /\ e.inflight # 0 /\ y.inflight = 0 /\ Confirms(pending, s)
            /\ SameActions(e, y)
            /\ y.history[e.inflight].resulting = Value(s, pending.control)
            /\ y.history[e.inflight].result = IF RetainedLow(pending, s) THEN "FAILED" ELSE "VERIFIED"
            /\ RetainedLow(pending, s) => y.intents[pending.intent].stage \in Terminal
  BY ConfirmedConcludes
<1> HIDE DEF y
<1>3. EngineOK(x) /\ Restaged(y, x)
  BY <1>1, VerifiedOK
<1>4. ASSUME NEW id \in 1..e.counter
      PROVE  /\ id \in 1..y.counter
             /\ \/ x.intents[id] = y.intents[id]
                \/ /\ y.inflight = 0 /\ SafeFor(s, e.intents[id].control)
                   /\ Value(s, e.intents[id].control) = e.intents[id].desired
             /\ y.inflight = 0 => GoalEnds(e, x, s, id)
  <2>1. /\ id \in 1..y.counter /\ y.intents[id].control = e.intents[id].control
        /\ y.intents[id].desired = e.intents[id].desired
    BY <1>1 DEF Continues, SameRequests
  <2>2. /\ \/ x.intents[id] = y.intents[id]
           \/ /\ y.inflight = 0 /\ SafeFor(s, y.intents[id].control)
              /\ Value(s, y.intents[id].control) = y.intents[id].desired
        /\ y.inflight = 0 => GoalEnds(y, x, s, id)
    BY <1>1, <2>1, VerifiedReaches
  <2> HIDE DEF x
  <2>3. QED
    BY <2>1, <2>2 DEF GoalEnds
<1> HIDE DEF x, pending
<1>5. x.inflight = y.inflight /\ x.resync = 0 /\ x.state = s /\ x.history = y.history
  BY <1>1, <1>3 DEF Restaged, Unobserved
<1>6. Succeeded(e, x)
  <2>1. SUFFICES ASSUME NEW id \in 1..e.counter, e.intents[id].stage # "VERIFIED",
                        x.intents[id].stage = "VERIFIED"
                 PROVE  /\ x.inflight = 0
                        /\ \/ e.intents[id].control = "ack_reminder"
                           \/ /\ SafeFor(s, e.intents[id].control)
                              /\ Value(s, e.intents[id].control) = e.intents[id].desired
    BY <1>5 DEF Succeeded
  <2>2. CASE x.intents[id] = y.intents[id]
    BY <1>2, <1>5, <2>1, <2>2
  <2>3. CASE x.intents[id] # y.intents[id]
    BY <1>4, <1>5, <2>3
  <2>4. QED
    BY <2>2, <2>3
<1>7. Concluded(e, x, s)
  <2>1. CASE y = e
    BY <1>5, <2>1 DEF Concluded
  <2>2. CASE y # e
    <3>1. pending.intent \in 1..e.counter
      BY <1>2, <2>2, PendingRequested DEF pending
    <3>2. GoalEnds(e, x, s, pending.intent)
      BY <1>2, <1>4, <2>2, <3>1
    <3>3. RetainedLow(pending, s) => x.intents[pending.intent].stage \in Terminal
      BY <1>2, <1>3, <1>4, <2>2, <3>1 DEF Restaged
    <3>4. \A i \in DOMAIN e.history : i # e.inflight => x.history[i] = e.history[i]
      BY <1>2, <1>5, <2>2 DEF SameActions
    <3>5. QED
      BY <1>2, <1>5, <2>2, <3>2, <3>3, <3>4 DEF Concluded, pending
  <2>3. QED
    BY <2>1, <2>2
<1>8. QED
  BY <1>6, <1>7 DEF x, y

(* What an observation may do to the barrier: nothing; begin to settle     *)
(* with this observation, of a later epoch; or lower it after a later and  *)
(* newer one than that settling began with.                                *)
Settles(a, x, s) ==
    \/ x.resync = a.resync /\ x.settling = a.settling
    \/ /\ x.resync = a.resync /\ a.resync < s.epoch /\ s.available
       /\ x.settling.sequence = s.sequence /\ x.settling.at = s.at
    \/ /\ a.settling # None /\ x.resync = 0 /\ x.settling = None
       /\ s.sequence > a.settling.sequence /\ s.at >= a.settling.at + ResyncSettle

Observes(e, x, s, t) ==
    \E a : /\ EngineOK(a) /\ Subdued(e, a) /\ NoSuccess(e, a) /\ OutOfTime(e, a, t)
           /\ Continues(a, x) /\ NoNewDoubt(a, x) /\ x.state = s /\ Settles(a, x, s)
           /\ Succeeded(a, x) /\ Concluded(a, x, s)

(* An observation that is not outdated first gives up what it must, then   *)
(* judges what it saw.                                                     *)
LEMMA ObservedContinues ==
    ASSUME NEW e, EngineOK(e), NEW s, IsState(s), NEW t, ~Outdated(e, s)
    PROVE  EngineOK(Observed(e, s, t)) /\ Observes(e, Observed(e, s, t), s, t)
<1> DEFINE x == Observed(e, s, t)
           known == IF e.state.epoch # 0 /\ e.state.epoch # s.epoch THEN Suspended(e) ELSE e
           a == Ticked(known, t)
           seen == WithState(a, s)
           trusted == WithBarrier(seen, 0, None)
<1>1. \/ seen.resync = 0 /\ x = Verified(Confirmed(seen, s), s)
      \/ x = seen
      \/ Comparable(seen, s) /\ x = Restart(seen, s)
      \/ Settled(seen, s) /\ Comparable(seen, s) /\ x = Verified(Confirmed(trusted, s), s)
  BY DEF Observed, WithState, WithBarrier
<1>2. EngineOK(x)
  BY ObservedOK
<1>3. EngineOK(known) /\ Subdued(e, known) /\ NoSuccess(e, known)
  BY ContinuesReflexive, SuspendedContinues
<1> HIDE DEF x, known
<1>4. EngineOK(a) /\ Subdued(known, a) /\ NoSuccess(known, a) /\ OutOfTime(known, a, t)
  BY <1>3, TickedContinues
<1> HIDE DEF a
<1>5. EngineOK(a) /\ Subdued(e, a) /\ NoSuccess(e, a) /\ OutOfTime(e, a, t)
  <2>1. Subdued(e, a)
    BY <1>3, <1>4, SubduedTransitive
  <2>2. SameRequests(e, known)
    BY <1>3 DEF Subdued, Continues
  <2>3. NoSuccess(e, a)
    BY <1>3, <1>4, <2>2 DEF NoSuccess, SameRequests
  <2>4. OutOfTime(e, a, t)
    BY <1>4, <2>2 DEF OutOfTime, SameRequests, Overdue
  <2>5. QED
    BY <1>4, <2>1, <2>3, <2>4
<1>6. /\ EngineOK(seen) /\ seen.state = s /\ Kept(a, seen) /\ SameGoals(a, seen)
      /\ seen.settling = a.settling /\ GoalsFinal(a, seen)
  <2>1. a.state.epoch <= s.epoch
    BY <1>5 DEF Outdated, EngineOK, IsState, Subdued, SameSight
  <2>2. QED
    BY <1>5, <2>1, StateOK, StateAssigned DEF EngineOK
<1> HIDE DEF seen
<1>7. ASSUME NEW y, EngineOK(y), SameGoals(a, y), GoalsFinal(a, y),
             y.history = a.history, y.inflight = a.inflight
      PROVE  Continues(a, y) /\ NoNewDoubt(a, y)
  BY <1>7 DEF Continues, NoNewDoubt, SameGoals, SameActions, SameAction, SameRequests,
              GoalEndsToo, Acknowledging
<1>8. Continues(a, seen) /\ NoNewDoubt(a, seen)
  BY <1>6, <1>7 DEF Kept
<1>9. ASSUME NEW y, EngineOK(y), Continues(a, y), NoNewDoubt(a, y), y.state = s,
             x = Verified(Confirmed(y, s), s)
      PROVE  /\ Continues(a, x) /\ NoNewDoubt(a, x) /\ x.state = s
             /\ x.resync = y.resync /\ x.settling = y.settling
  <2>1. Continues(y, x) /\ NoNewDoubt(y, x) /\ Unobserved(y, x)
    BY <1>9, JudgedContinues
  <2>2. Continues(a, x)
    BY <1>2, <1>5, <1>9, <2>1, ContinuesTransitive
  <2>3. DOMAIN y.history = DOMAIN a.history
    BY <1>9 DEF Continues, SameActions
  <2>4. NoNewDoubt(a, x)
    BY <1>9, <2>1, <2>3 DEF NoNewDoubt
  <2>5. QED
    BY <1>9, <2>1, <2>2, <2>4 DEF Unobserved
<1>f. ASSUME NEW y, SameGoals(a, y), y.history = a.history, y.inflight = a.inflight
      PROVE  /\ x = y => Succeeded(a, x) /\ Concluded(a, x, s)
             /\ Succeeded(y, x) /\ Concluded(y, x, s) => Succeeded(a, x) /\ Concluded(a, x, s)
  BY <1>f DEF SameGoals, Succeeded, Concluded, GoalEnds
<1>g. ASSUME NEW y, EngineOK(y), SameGoals(a, y), y.history = a.history,
             y.inflight = a.inflight, y.resync = 0, y.state = s,
             x = Verified(Confirmed(y, s), s)
      PROVE  Succeeded(a, x) /\ Concluded(a, x, s)
  BY <1>f, <1>g, JudgedConcludes
<1>10. /\ Continues(a, x) /\ NoNewDoubt(a, x) /\ x.state = s /\ Settles(a, x, s)
       /\ Succeeded(a, x) /\ Concluded(a, x, s)
  <2>1. CASE seen.resync = 0 /\ x = Verified(Confirmed(seen, s), s)
    <3>1. Succeeded(a, x) /\ Concluded(a, x, s)
      BY <1>6, <1>g, <2>1 DEF Kept
    <3>2. QED
      BY <1>6, <1>8, <1>9, <2>1, <3>1 DEF Kept, Settles
  <2>2. CASE x = seen
    <3>1. Succeeded(a, x) /\ Concluded(a, x, s)
      BY <1>6, <1>f, <2>2 DEF Kept
    <3>2. QED
      BY <1>6, <1>8, <2>2, <3>1 DEF Kept, Settles
  <2>3. CASE Comparable(seen, s) /\ x = Restart(seen, s)
    <3> DEFINE q == [readings |-> Readings(seen, s), at |-> s.at,
                     sequence |-> s.sequence, epoch |-> s.epoch]
    <3>1. x = WithSettling(seen, q)
      BY <2>3 DEF Restart, WithSettling
    <3>2. q.at = s.at /\ q.sequence = s.sequence
      OBVIOUS
    <3> HIDE DEF q
    <3>3. /\ x.settling = q /\ SameGoals(seen, x) /\ Kept(seen, x) /\ x.state = s
      BY <1>6, <3>1, SettlingAssigned DEF EngineOK, SameGoals, Kept
    <3>4. GoalsFinal(seen, x)
      BY <1>6, <3>3, SameGoalsOK
    <3>5. SameGoals(a, x) /\ Kept(a, x)
      BY <1>6, <3>3 DEF SameGoals, Kept
    <3>6. GoalsFinal(a, x)
      BY <1>5, <3>5, SameGoalsOK
    <3>7. Settles(a, x, s)
      <4>1. a.resync < s.epoch /\ s.available
        BY <1>6, <2>3 DEF Comparable, Kept, EngineOK, BarrierOK, IsState
      <4>2. QED
        BY <3>2, <3>3, <3>5, <4>1 DEF Settles, Kept
    <3>8. Succeeded(a, x) /\ Concluded(a, x, s)
      BY <1>f, <3>5 DEF Kept
    <3>9. QED
      BY <1>2, <1>7, <3>3, <3>5, <3>6, <3>7, <3>8 DEF Kept
  <2>4. CASE Settled(seen, s) /\ Comparable(seen, s) /\ x = Verified(Confirmed(trusted, s), s)
    <3>1. /\ IsEngine(trusted) /\ trusted.state = s /\ SameGoals(seen, trusted)
          /\ trusted.history = seen.history /\ trusted.inflight = seen.inflight
          /\ trusted.resync = 0 /\ trusted.settling = None
      BY <1>6, BarrierAssigned DEF EngineOK, SameGoals
    <3> HIDE DEF trusted
    <3>2. EngineOK(trusted)
      <4>1. GoalsOK(trusted)
        BY <1>6, <3>1, SameGoalsOK
      <4>2. HistoryOK(trusted)
        BY <1>6, <3>1 DEF EngineOK, HistoryOK, TransactionOK, SameGoals
      <4>3. seen.resync < s.epoch
        BY <1>6, <2>4 DEF Comparable, EngineOK, BarrierOK, IsState
      <4>4. BarrierOK(trusted)
        BY <1>6, <3>1, <4>3 DEF EngineOK, BarrierOK, IsState
      <4>5. QED
        BY <1>6, <3>1, <4>1, <4>2, <4>4 DEF EngineOK
    <3>3. SameGoals(a, trusted) /\ trusted.history = a.history /\ trusted.inflight = a.inflight
      BY <1>6, <3>1 DEF SameGoals, Kept
    <3>4. GoalsFinal(a, trusted)
      BY <1>5, <3>3, SameGoalsOK
    <3>5. Continues(a, trusted) /\ NoNewDoubt(a, trusted)
      BY <1>7, <3>2, <3>3, <3>4
    <3>6. /\ Continues(a, x) /\ NoNewDoubt(a, x) /\ x.state = s
          /\ x.resync = 0 /\ x.settling = None
      BY <1>9, <2>4, <3>1, <3>2, <3>5
    <3>7. /\ a.settling # None /\ s.sequence > a.settling.sequence
          /\ s.at >= a.settling.at + ResyncSettle
      BY <1>6, <2>4 DEF Settled, Steady
    <3>8. Succeeded(a, x) /\ Concluded(a, x, s)
      BY <1>g, <2>4, <3>1, <3>2, <3>3
    <3>9. QED
      BY <3>6, <3>7, <3>8 DEF Settles
  <2>5. QED
    BY <1>1, <2>1, <2>2, <2>3, <2>4
<1>11. QED
  BY <1>2, <1>5, <1>10 DEF Observes, x

-----------------------------------------------------------------------------
(* What a planned action expects is a value the spa can show.              *)

(* The pumps by their names.                                               *)
LEMMA PumpsNamed ==
    /\ Pumps = {"pump1", "pump2", "pump3", "pump4", "pump5", "pump6"}
    /\ \A c \in Pumps : PumpIndex(c) \in 1..6 /\ PumpName[PumpIndex(c)] = c
<1>1. /\ PumpName[1] = "pump1" /\ PumpName[2] = "pump2" /\ PumpName[3] = "pump3"
      /\ PumpName[4] = "pump4" /\ PumpName[5] = "pump5" /\ PumpName[6] = "pump6"
  BY DEF PumpName
<1>2. 1..6 = {1, 2, 3, 4, 5, 6}
  OBVIOUS
<1>3. Pumps = {"pump1", "pump2", "pump3", "pump4", "pump5", "pump6"}
  BY <1>1, <1>2 DEF Pumps
<1>4. ASSUME NEW c \in Pumps
      PROVE  PumpIndex(c) \in 1..6 /\ PumpName[PumpIndex(c)] = c
  <2>1. \E i \in 1..6 : PumpName[i] = c
    BY DEF Pumps
  <2>2. QED
    BY <2>1 DEF PumpIndex
<1>5. QED
  BY <1>3, <1>4

(* A pump shows one of its options or nothing.                             *)
LEMMA PumpShows ==
    ASSUME NEW s, StatusOK(s.status), NEW c \in Pumps
    PROVE  LET options == PumpOptions(Capabilities.pumps[PumpIndex(c)])
           IN  /\ options \in {<<>>, <<"off", "on">>, <<"off", "low", "high">>}
               /\ PumpValue(s, c) \in Range(options) \cup {None}
<1> DEFINE count == Capabilities.pumps[PumpIndex(c)]
           options == PumpOptions(count)
           raw == s.status.pumps[PumpIndex(c)]
<1>1. options \in {<<>>, <<"off", "on">>, <<"off", "low", "high">>}
  BY DEF PumpOptions
<1>2. raw \in {0, 1, 2, 3}
  BY PumpsNamed DEF StatusOK
<1>3. PumpValue(s, c) =
        CASE options = <<>> -> None
          [] Len(options) = 2 /\ raw \in {1, 2} -> "on"
          [] raw < Len(options) -> options[raw + 1]
          [] OTHER -> None
  BY DEF PumpValue
<1> HIDE DEF options, raw
<1>4. CASE options = <<>>
  <2>1. Len(options) = 0 /\ ~(raw < Len(options)) /\ Len(options) # 2
    BY <1>2, <1>4
  <2>2. PumpValue(s, c) = None
    BY <1>3, <1>4, <2>1
  <2>3. QED
    BY <1>1, <2>2 DEF options
<1>5. CASE options = <<"off", "on">>
  <2>1. /\ Len(options) = 2 /\ options # <<>> /\ Range(options) = {"off", "on"}
        /\ options[1] = "off" /\ options[2] = "on"
    BY <1>5 DEF Range
  <2>2. PumpValue(s, c) \in {"off", "on", None}
    BY <1>2, <1>3, <2>1
  <2>3. QED
    BY <1>1, <2>1, <2>2 DEF options
<1>6. CASE options = <<"off", "low", "high">>
  <2>1. /\ Len(options) = 3 /\ options # <<>> /\ Range(options) = {"off", "low", "high"}
        /\ options[1] = "off" /\ options[2] = "low" /\ options[3] = "high"
    BY <1>6 DEF Range
  <2>2. PumpValue(s, c) \in {"off", "low", "high", None}
    BY <1>2, <1>3, <2>1
  <2>3. QED
    BY <1>1, <2>1, <2>2 DEF options
<1>7. QED
  BY <1>1, <1>4, <1>5, <1>6 DEF options

(* The option after an option is an option.                                *)
LEMMA NextOption ==
    ASSUME NEW S, NEW options \in Seq(S), NEW value \in Range(options)
    PROVE  LET index == CHOOSE i \in 1..Len(options) : options[i] = value
           IN  options[(index % Len(options)) + 1] \in Range(options)
<1> DEFINE index == CHOOSE i \in 1..Len(options) : options[i] = value
           n == Len(options)
<1>1. n \in Nat /\ DOMAIN options = 1..n
  BY LenProperties
<1>2. \E i \in 1..n : options[i] = value
  BY <1>1 DEF Range
<1>3. index \in 1..n
  BY <1>2
<1> HIDE DEF index, n
<1>4. index \in Nat /\ n \in Nat \ {0}
  BY <1>1, <1>3
<1>5. (index % n) + 1 \in 1..n
  BY <1>4
<1>6. QED
  BY <1>1, <1>5 DEF Range, index, n

(* What a control without an absolute command offers and shows.            *)
LEMMA TogglesOffer ==
    ASSUME NEW s, NEW c
    PROVE  LET st == s.status
           IN  /\ c \in {"light1", "light2", "aux1", "aux2", "mister"} => Options(s, c) \in {<<>>, Switch}
               /\ c = "hold" => Options(s, c) = When(st.mode # "other", Switch)
               /\ c = "high_range" => Options(s, c) = Switch
               /\ c = "heat_mode" => Options(s, c) = <<"ready", "rest">>
               /\ c = "blower" => Options(s, c) = When(Capabilities.blower > 0,
                                                 [i \in 1..(Capabilities.blower + 1) |-> i - 1])
               /\ c \in Pumps => Options(s, c) = PumpOptions(Capabilities.pumps[PumpIndex(c)])
<1>1. c \in {"light1", "light2", "aux1", "aux2", "mister"} => Options(s, c) \in {<<>>, Switch}
  BY PumpsNamed DEF Options, When
<1>2. c = "hold" => Options(s, c) = When(s.status.mode # "other", Switch)
  BY PumpsNamed DEF Options
<1>3. c = "high_range" => Options(s, c) = Switch
  BY PumpsNamed DEF Options
<1>4. c = "heat_mode" => Options(s, c) = <<"ready", "rest">>
  BY PumpsNamed DEF Options
<1>5. c = "blower" => Options(s, c) = When(Capabilities.blower > 0,
                                        [i \in 1..(Capabilities.blower + 1) |-> i - 1])
  BY PumpsNamed DEF Options
<1>6. c \in Pumps => Options(s, c) = PumpOptions(Capabilities.pumps[PumpIndex(c)])
  BY PumpsNamed DEF Options
<1>7. QED
  BY <1>1, <1>2, <1>3, <1>4, <1>5, <1>6

(* The values of the same controls.                                        *)
LEMMA TogglesShow ==
    ASSUME NEW s, NEW c
    PROVE  LET st == s.status
               offered == Options(s, c) # <<>>
           IN  /\ c = "light1" /\ offered => Value(s, c) = LightValue(st.lights[1])
               /\ c = "light2" /\ offered => Value(s, c) = LightValue(st.lights[2])
               /\ c = "aux1" /\ offered => Value(s, c) = st.aux[1]
               /\ c = "aux2" /\ offered => Value(s, c) = st.aux[2]
               /\ c = "mister" /\ offered => Value(s, c) = st.mister
               /\ c \in Optional /\ ~offered => Value(s, c) = None
               /\ c = "hold" => Value(s, c) = IF st.mode = "other" THEN None ELSE st.mode = "hold"
               /\ c = "high_range" => Value(s, c) = st.highRange
               /\ c = "heat_mode" => Value(s, c) = IF st.heatMode = "unknown" THEN None ELSE st.heatMode
               /\ c = "blower" /\ offered =>
                     Value(s, c) = IF st.blower <= Capabilities.blower THEN st.blower ELSE None
               /\ c \in Pumps => Value(s, c) = PumpValue(s, c)
<1> DEFINE st == s.status
           offered == Options(s, c) # <<>>
<1>1. c \in Optional /\ ~offered => Value(s, c) = None
  BY DEF Value
<1>2. c = "light1" /\ offered => Value(s, c) = LightValue(st.lights[1])
  BY PumpsNamed DEF Value, Optional
<1>3. c = "light2" /\ offered => Value(s, c) = LightValue(st.lights[2])
  BY PumpsNamed DEF Value, Optional
<1>4. c = "aux1" /\ offered => Value(s, c) = st.aux[1]
  BY PumpsNamed DEF Value, Optional
<1>5. c = "aux2" /\ offered => Value(s, c) = st.aux[2]
  BY PumpsNamed DEF Value, Optional
<1>6. c = "mister" /\ offered => Value(s, c) = st.mister
  BY PumpsNamed DEF Value, Optional
<1>7. c = "hold" => Value(s, c) = IF st.mode = "other" THEN None ELSE st.mode = "hold"
  BY PumpsNamed DEF Value, Optional
<1>8. c = "high_range" => Value(s, c) = st.highRange
  BY PumpsNamed DEF Value, Optional
<1>9. c = "heat_mode" => Value(s, c) = IF st.heatMode = "unknown" THEN None ELSE st.heatMode
  BY PumpsNamed DEF Value, Optional
<1>10. c = "blower" /\ offered =>
          Value(s, c) = IF st.blower <= Capabilities.blower THEN st.blower ELSE None
  BY PumpsNamed DEF Value, Optional
<1>11. c \in Pumps => Value(s, c) = PumpValue(s, c)
  BY PumpsNamed DEF Value, Optional
<1> HIDE DEF st, offered
<1>12. QED
  BY <1>1, <1>2, <1>3, <1>4, <1>5, <1>6, <1>7, <1>8, <1>9, <1>10, <1>11 DEF st, offered

(* Every such control shows one of its options, which are known values.    *)
LEMMA ToggleShows ==
    ASSUME NEW s, StatusOK(s.status), NEW c \in Control \ Absolute, Value(s, c) # None
    PROVE  /\ \E S : Options(s, c) \in Seq(S)
           /\ None \notin Range(Options(s, c))
           /\ \/ Value(s, c) \in Range(Options(s, c))
              \/ c = "heat_mode" /\ Value(s, c) = "ready_in_rest"
<1> DEFINE o == Options(s, c)
           v == Value(s, c)
           st == s.status
<1>1. Switch \in Seq(BOOLEAN) /\ Range(Switch) = BOOLEAN /\ Switch # <<>>
  <2>1. FALSE \in BOOLEAN /\ TRUE \in BOOLEAN
    OBVIOUS
  <2>2. Switch \in Seq(BOOLEAN) /\ Switch # <<>>
    BY <2>1 DEF Switch
  <2>3. DOMAIN Switch = {1, 2} /\ Switch[1] = FALSE /\ Switch[2] = TRUE
    BY DEF Switch
  <2>4. Range(Switch) = {Switch[1], Switch[2]}
    BY <2>3 DEF Range
  <2>5. Range(Switch) = BOOLEAN
    BY <2>3, <2>4
  <2>6. QED
    BY <2>2, <2>5
<1>2. None \notin BOOLEAN
  BY NoneIsNoValue
<1>3. /\ st.mister \in BOOLEAN /\ st.aux[1] \in BOOLEAN /\ st.aux[2] \in BOOLEAN
      /\ st.highRange \in BOOLEAN
  BY DEF StatusOK
<1>4. st.blower \in Nat /\ st.heatMode \in {"ready", "rest", "ready_in_rest", "unknown"}
  BY DEF StatusOK
<1> HIDE DEF o, v, st
<1>5. ASSUME o = Switch, v \in BOOLEAN
      PROVE  (\E S : o \in Seq(S)) /\ None \notin Range(o) /\ v \in Range(o)
  BY <1>1, <1>2, <1>5
<1>6. CASE c \in {"hold", "high_range"}
  <2>1. c = "high_range" => o = Switch /\ v = st.highRange
    BY TogglesOffer, TogglesShow DEF o, v, st
  <2>2. c = "hold" => o = When(st.mode # "other", Switch)
                      /\ v = IF st.mode = "other" THEN None ELSE st.mode = "hold"
    BY TogglesOffer, TogglesShow DEF o, v, st
  <2>3. c = "hold" => o = Switch /\ v \in BOOLEAN
    <3>1. c = "hold" => st.mode # "other"
      BY <2>2 DEF v
    <3>2. c = "hold" => o = Switch
      BY <2>2, <3>1 DEF When
    <3>3. c = "hold" => v = (st.mode = "hold")
      BY <2>2, <3>1
    <3>4. QED
      BY <3>2, <3>3
  <2>4. o = Switch /\ v \in BOOLEAN
    BY <1>3, <1>6, <2>1, <2>3
  <2>5. QED
    BY <1>5, <2>4 DEF o, v
<1>7. CASE c \in {"light1", "light2", "aux1", "aux2", "mister"}
  <2>1. o \in {<<>>, Switch}
    BY <1>7, TogglesOffer DEF o
  <2>2. o # <<>>
    BY <1>7, TogglesShow DEF o, Optional
  <2>3. o = Switch
    BY <2>1, <2>2
  <2>4. CASE c \in {"light1", "light2"}
    <3>1. \A raw : LightValue(raw) \in BOOLEAN \cup {None}
      BY DEF LightValue
    <3>2. v \in {LightValue(st.lights[1]), LightValue(st.lights[2])}
      BY <2>2, <2>4, TogglesShow DEF o, v, st
    <3>3. v # None
      BY DEF v
    <3>4. v \in BOOLEAN
      BY <3>1, <3>2, <3>3
    <3>5. QED
      BY <1>5, <2>3, <3>4 DEF o, v
  <2>5. CASE c \in {"aux1", "aux2", "mister"}
    <3>1. c = "aux1" => v = st.aux[1]
      BY <2>2, TogglesShow DEF o, v, st
    <3>2. c = "aux2" => v = st.aux[2]
      BY <2>2, TogglesShow DEF o, v, st
    <3>3. c = "mister" => v = st.mister
      BY <2>2, TogglesShow DEF o, v, st
    <3>4. v \in BOOLEAN
      BY <1>3, <2>5, <3>1, <3>2, <3>3
    <3>5. QED
      BY <1>5, <2>3, <3>4 DEF o, v
  <2>6. QED
    BY <1>7, <2>4, <2>5
<1>8. CASE c = "heat_mode"
  <2>1. o = <<"ready", "rest">> /\ v = IF st.heatMode = "unknown" THEN None ELSE st.heatMode
    BY <1>8, TogglesOffer, TogglesShow DEF o, v, st
  <2>2. v \in {"ready", "rest", "ready_in_rest"}
    BY <1>4, <2>1 DEF v
  <2>3. Range(o) = {"ready", "rest"} /\ o \in Seq({"ready", "rest"})
    BY <2>1 DEF Range
  <2>4. QED
    BY <1>8, <2>2, <2>3, NoneIsNoValue DEF o, v
<1>9. CASE c = "blower"
  <2> DEFINE n == Capabilities.blower
             steps == [i \in 1..(n + 1) |-> i - 1]
  <2>1. n \in Nat
    BY CapabilitiesDecoded
  <2>2. o = When(n > 0, steps)
    BY <1>9, TogglesOffer DEF o
  <2>3. o # <<>>
    BY <1>9, TogglesShow DEF o, Optional
  <2>4. v = IF st.blower <= n THEN st.blower ELSE None
    BY <1>9, <2>3, TogglesShow DEF o, v, st
  <2> HIDE DEF n
  <2>5. o = steps /\ steps \in Seq(Nat) /\ Range(steps) = 0..n
    <3>1. o = steps
      BY <2>2, <2>3 DEF When
    <3>2. steps \in [1..(n + 1) -> Nat]
      BY <2>1
    <3>3. steps \in Seq(Nat)
      BY <2>1, <3>2, SeqDef
    <3>4. \A k \in 0..n : k + 1 \in 1..(n + 1) /\ steps[k + 1] = k
      BY <2>1
    <3>5. Range(steps) = 0..n
      BY <2>1, <3>4 DEF Range
    <3>6. QED
      BY <3>1, <3>3, <3>5
  <2>6. v \in 0..n
    BY <1>4, <2>1, <2>4 DEF v
  <2> HIDE DEF steps
  <2>7. QED
    BY <2>1, <2>5, <2>6, NoneIsNoValue DEF o, v
<1>10. CASE c \in Pumps
  <2>1. o = PumpOptions(Capabilities.pumps[PumpIndex(c)]) /\ v = PumpValue(s, c)
    BY <1>10, TogglesOffer, TogglesShow DEF o, v
  <2>2. o \in {<<>>, <<"off", "on">>, <<"off", "low", "high">>} /\ v \in Range(o) \cup {None}
    BY <1>10, <2>1, PumpShows
  <2>3. o \in Seq({"off", "on", "low", "high"}) /\ Range(o) \subseteq {"off", "on", "low", "high"}
    <3>1. CASE o = <<>>
      BY <3>1 DEF Range
    <3>2. CASE o = <<"off", "on">>
      BY <3>2 DEF Range
    <3>3. CASE o = <<"off", "low", "high">>
      BY <3>3 DEF Range
    <3>4. QED
      BY <2>2, <3>1, <3>2, <3>3
  <2>4. v # None
    BY DEF v
  <2>5. QED
    BY <2>2, <2>3, <2>4, NoneIsNoValue DEF o, v
<1>11. QED
  <2>1. c \in Pumps \cup {"hold", "high_range", "light1", "light2", "aux1", "aux2", "mister",
                          "heat_mode", "blower"}
    BY DEF Control, Absolute
  <2>2. QED
    BY <1>6, <1>7, <1>8, <1>9, <1>10, <2>1

(* So a valid goal's next step leads to a known value.                     *)
LEMMA ExpectedKnown ==
    ASSUME NEW s, StatusOK(s.status), NEW c \in Control, NEW desired, desired # None,
           Valid(s, c, desired)
    PROVE  Expected(s, c, desired) # None
<1>1. CASE c \in Absolute
  <2>1. c # "heat_mode"
    BY <1>1 DEF Absolute
  <2>2. Expected(s, c, desired) = desired
    BY <1>1, <2>1 DEF Expected
  <2>3. QED
    BY <2>2
<1>2. CASE c \notin Absolute
  <2>1. Value(s, c) # None
    BY <1>2 DEF Valid, Absolute
  <2>2. /\ \E S : Options(s, c) \in Seq(S)
        /\ None \notin Range(Options(s, c))
        /\ \/ Value(s, c) \in Range(Options(s, c))
           \/ c = "heat_mode" /\ Value(s, c) = "ready_in_rest"
    BY <1>2, <2>1, ToggleShows
  <2> DEFINE o == Options(s, c)
             v == Value(s, c)
             index == CHOOSE i \in 1..Len(o) : o[i] = v
  <2>3. Expected(s, c, desired) = IF c = "heat_mode" /\ v = "ready_in_rest" THEN "rest"
                                  ELSE o[(index % Len(o)) + 1]
    BY <1>2 DEF Expected
  <2>4. v \in Range(o) => o[(index % Len(o)) + 1] \in Range(o)
    <3>1. PICK S : o \in Seq(S)
      BY <2>2
    <3> HIDE DEF o, v
    <3>2. QED
      BY <3>1, NextOption
  <2> HIDE DEF o, v, index
  <2>5. QED
    BY <2>2, <2>3, <2>4, NoneIsNoValue DEF o, v
<1>3. QED
  BY <1>1, <1>2

-----------------------------------------------------------------------------
(* What has been sent: the budget, the acknowledgements, the deadlines.    *)

(* The newest goal of a control is charged for at least what it sent.      *)
BudgetOK(e) ==
    \A id \in 1..e.counter :
        LET c == e.intents[id].control
            sends == Cardinality(SendsOf(e, id))
        IN  /\ sends <= MaxActions
            /\ e.latest[c] = id => sends <= e.actions[c]

(* A goal whose acknowledgement was sent is either waiting for its outcome *)
(* or over.                                                                *)
AckOK(e) ==
    \A i \in DOMAIN e.history : e.history[i].control = "ack_reminder" =>
        /\ i = e.inflight \/ e.intents[e.history[i].intent].stage \in Terminal
        /\ \A j \in DOMAIN e.history : e.history[j].intent = e.history[i].intent => i = j

WindowOK(e) ==
    \A i \in DOMAIN e.history :
        LET deadline == e.intents[e.history[i].intent].deadline
        IN  deadline # 0 => e.history[i].sentAt + ConfirmationTimeout <= deadline + ReceiptLag

SentWell(e) == BudgetOK(e) /\ AckOK(e) /\ WindowOK(e)

(* The transmissions of an intent are finitely many.                       *)
LEMMA SendsFinite ==
    ASSUME NEW e, EngineOK(e), NEW id
    PROVE  IsFiniteSet(SendsOf(e, id)) /\ Cardinality(SendsOf(e, id)) \in Nat
<1>1. DOMAIN e.history = 1..Len(e.history) /\ Len(e.history) \in Nat
  BY HistoryDomain DEF EngineOK, HistoryOK
<1>2. SendsOf(e, id) \subseteq 1..Len(e.history)
  BY <1>1 DEF SendsOf
<1>3. IsFiniteSet(1..Len(e.history))
  BY <1>1, FS_Interval
<1>4. IsFiniteSet(SendsOf(e, id))
  BY <1>2, <1>3, FS_Subset
<1>5. QED
  BY <1>4, FS_CardinalityType

(* Continuing the engine spends nothing, reopens no acknowledged goal and  *)
(* moves no deadline.                                                      *)
LEMMA SentWellContinues ==
    ASSUME NEW e, NEW x, EngineOK(e), EngineOK(x), Continues(e, x), SentWell(e)
    PROVE  SentWell(x)
<1>1. /\ DOMAIN x.history = DOMAIN e.history
      /\ \A i \in DOMAIN e.history : SameAction(e.history[i], x.history[i])
      /\ x.counter = e.counter /\ x.latest = e.latest /\ x.actions = e.actions
      /\ \A id \in 1..e.counter : /\ x.intents[id].control = e.intents[id].control
                                  /\ x.intents[id].deadline = e.intents[id].deadline
  BY DEF Continues, SameActions, SameRequests
<1>2. BudgetOK(x)
  <2>1. \A id : SendsOf(x, id) = SendsOf(e, id)
    BY <1>1 DEF SendsOf, SameAction
  <2>2. QED
    BY <1>1, <2>1 DEF SentWell, BudgetOK
<1>3. AckOK(x)
  <2>1. ASSUME NEW i \in DOMAIN x.history, x.history[i].control = "ack_reminder"
        PROVE  i = x.inflight \/ x.intents[x.history[i].intent].stage \in Terminal
    <3> DEFINE id == e.history[i].intent
    <3>1. /\ e.history[i].control = "ack_reminder" /\ x.history[i].intent = id
          /\ id \in 1..e.counter /\ i \in DOMAIN e.history
      BY <1>1, <2>1 DEF SameAction, EngineOK, HistoryOK, TransactionOK
    <3>2. i = e.inflight \/ e.intents[id].stage \in Terminal
      BY <3>1 DEF SentWell, AckOK
    <3>3. CASE e.intents[id].stage \in Terminal
      BY <3>1, <3>3 DEF Continues, GoalsFinal
    <3>4. CASE i = e.inflight /\ x.inflight = 0
      <4>1. Acknowledging(e)
        BY <3>1, <3>4, HistoryDomain DEF Acknowledging, EngineOK, HistoryOK
      <4>2. QED
        BY <3>1, <3>4, <4>1 DEF Continues, GoalEndsToo
    <3>5. QED
      BY <3>2, <3>3, <3>4 DEF Continues
  <2>2. ASSUME NEW i \in DOMAIN x.history, x.history[i].control = "ack_reminder",
               NEW j \in DOMAIN x.history, x.history[j].intent = x.history[i].intent
        PROVE  i = j
    BY <1>1, <2>2 DEF SentWell, AckOK, SameAction
  <2>3. QED
    BY <2>1, <2>2 DEF AckOK
<1>4. WindowOK(x)
  <2>1. \A i \in DOMAIN e.history : e.history[i].intent \in 1..e.counter
    BY DEF EngineOK, HistoryOK, TransactionOK
  <2>2. QED
    BY <1>1, <2>1 DEF SentWell, WindowOK, SameAction
<1>5. QED
  BY <1>2, <1>3, <1>4 DEF SentWell

(* A new goal has sent nothing, and takes nothing from the others.         *)
LEMMA SentWellAdmitted ==
    ASSUME NEW e, EngineOK(e), NEW c \in Controls, NEW desired, NEW deadline \in Nat,
           NEW defer \in Nat, NEW replace, now \in Nat, SentWell(e)
    PROVE  SentWell(Admitted(e, c, desired, deadline, defer, replace))
<1> DEFINE x == Admitted(e, c, desired, deadline, defer, replace)
           n == e.counter + 1
<1>1. /\ EngineOK(x) /\ Kept(e, x) /\ GoalsFinal(e, x) /\ x.counter = n
      /\ x.latest = [e.latest EXCEPT ![c] = n]
      /\ \A d \in Controls : d # c => x.actions[d] = e.actions[d]
      /\ \A id \in 1..e.counter : /\ x.intents[id].control = e.intents[id].control
                                  /\ x.intents[id].deadline = e.intents[id].deadline
  <2>1. EngineOK(x) /\ Admits(e, x, c)
    BY AdmittedOK
  <2> HIDE DEF x
  <2>2. QED
    BY <2>1 DEF Admits
<1> HIDE DEF x
<1>2. x.history = e.history /\ x.inflight = e.inflight
  BY <1>1 DEF Kept
<1>3. \A i \in DOMAIN e.history : e.history[i].intent \in 1..e.counter
  BY DEF EngineOK, HistoryOK, TransactionOK
<1>4. /\ e.counter \in Nat /\ n \notin 1..e.counter
      /\ \A id \in 1..n : id = n \/ id \in 1..e.counter
  <2>1. \A m \in Nat : m + 1 \notin 1..m /\ \A k \in 1..(m + 1) : k = m + 1 \/ k \in 1..m
    OBVIOUS
  <2>2. e.counter \in Nat
    BY DEF EngineOK, GoalsOK
  <2>3. QED
    BY <2>1, <2>2
<1>5. BudgetOK(x)
  <2>1. \A id : SendsOf(x, id) = SendsOf(e, id)
    BY <1>2 DEF SendsOf
  <2>2. Cardinality(SendsOf(x, n)) = 0
    <3>1. SendsOf(x, n) = {}
      <4> HIDE DEF n
      <4> QED BY <1>3, <1>4, <2>1 DEF SendsOf
    <3>2. QED
      BY <3>1, FS_EmptySet
  <2>3. MaxActions \in Nat /\ x.actions \in [Controls -> 0..MaxActions]
        /\ \A id \in 1..n : x.intents[id].control \in Controls
    BY <1>1, EngineParameters DEF EngineOK, GoalsOK, IntentOK
  <2>4. ASSUME NEW id \in 1..n
        PROVE  /\ Cardinality(SendsOf(x, id)) <= MaxActions
               /\ x.latest[x.intents[id].control] = id
                    => Cardinality(SendsOf(x, id)) <= x.actions[x.intents[id].control]
    <3>1. CASE id = n
      <4> DEFINE a == x.actions[x.intents[id].control]
      <4>1. a \in 0..MaxActions
        BY <2>3
      <4>2. QED
        BY <2>2, <2>3, <3>1, <4>1
    <3>2. CASE id \in 1..e.counter
      <4> DEFINE d == e.intents[id].control
      <4>1. /\ d \in Controls /\ x.intents[id].control = d
            /\ Cardinality(SendsOf(e, id)) <= MaxActions
            /\ e.latest[d] = id => Cardinality(SendsOf(e, id)) <= e.actions[d]
        BY <1>1, <3>2 DEF SentWell, BudgetOK, EngineOK, GoalsOK, IntentOK
      <4>2. x.latest[d] = id => d # c /\ e.latest[d] = id
        <5>1. x.latest[d] = IF d = c THEN n ELSE e.latest[d]
          BY <1>1, <4>1 DEF EngineOK, GoalsOK
        <5>2. QED
          BY <1>4, <3>2, <5>1
      <4>3. QED
        BY <1>1, <2>1, <4>1, <4>2
    <3>3. QED
      BY <1>4, <3>1, <3>2
  <2>5. QED
    BY <1>1, <2>4 DEF BudgetOK
<1>6. AckOK(x)
  BY <1>1, <1>2, <1>3 DEF SentWell, AckOK, GoalsFinal
<1>7. WindowOK(x)
  BY <1>1, <1>2, <1>3 DEF SentWell, WindowOK
<1>8. QED
  BY <1>5, <1>6, <1>7 DEF SentWell, x

(* A transmission is charged to its goal, which was open: an acknowledged  *)
(* goal would be over.                                                     *)
LEMMA SentWellRecorded ==
    ASSUME NEW e, EngineOK(e), e.inflight = 0, NEW y, EngineOK(y), GoalsFinal(e, y),
           NEW action, action.control \in Controls, e.latest[action.control] = action.intent,
           NEW at \in Nat, Records(e, y, action, at),
           e.actions[action.control] < MaxActions,
           e.intents[action.intent].deadline # 0 =>
              at + ConfirmationTimeout <= e.intents[action.intent].deadline + ReceiptLag,
           SentWell(e)
    PROVE  SentWell(y)
<1> DEFINE c == action.control
           n == Len(e.history) + 1
           p == Pending(action, at)
<1>1. /\ n \in Nat /\ DOMAIN e.history = 1..Len(e.history)
      /\ DOMAIN y.history = 1..n /\ y.inflight = n /\ y.history[n] = p
      /\ \A i \in DOMAIN e.history : y.history[i] = e.history[i]
      /\ y.counter = e.counter /\ y.latest = e.latest
      /\ y.actions = [e.actions EXCEPT ![c] = e.actions[c] + 1]
      /\ action.intent \in 1..e.counter /\ e.intents[action.intent].control = c
      /\ e.intents[action.intent].stage = "WAITING_FOR_BUS"
      /\ \A id \in 1..e.counter : /\ y.intents[id].control = e.intents[id].control
                                  /\ y.intents[id].deadline = e.intents[id].deadline
  BY DEF Records
<1>2. p.intent = action.intent /\ p.control = c /\ p.sentAt = at
  BY DEF Pending
<1> HIDE DEF p
<1>3. Len(e.history) \in Nat /\ \A i \in 1..n : i = n \/ i \in DOMAIN e.history
  BY <1>1, HistoryDomain DEF EngineOK, HistoryOK
<1>4. n \notin DOMAIN e.history /\ DOMAIN y.history = DOMAIN e.history \cup {n}
  BY <1>1, <1>3
<1>5. \A i \in DOMAIN e.history : e.history[i].intent \in 1..e.counter
  BY DEF EngineOK, HistoryOK, TransactionOK
<1> HIDE DEF n
<1>6. BudgetOK(y)
  <2>1. ASSUME NEW id, id # action.intent
        PROVE  SendsOf(y, id) = SendsOf(e, id)
    <3>1. \A i \in DOMAIN y.history : y.history[i].intent = id
            <=> i \in DOMAIN e.history /\ e.history[i].intent = id
      BY <1>1, <1>2, <1>4, <2>1
    <3>2. QED
      BY <1>4, <3>1 DEF SendsOf
  <2>2. SendsOf(y, action.intent) = SendsOf(e, action.intent) \cup {n}
    <3>1. \A i \in DOMAIN e.history : y.history[i].intent = e.history[i].intent
      BY <1>1
    <3>2. y.history[n].intent = action.intent
      BY <1>1, <1>2
    <3>3. QED
      BY <1>4, <3>1, <3>2 DEF SendsOf
  <2>3. Cardinality(SendsOf(y, action.intent)) = Cardinality(SendsOf(e, action.intent)) + 1
    <3>1. n \notin SendsOf(e, action.intent)
      BY <1>4 DEF SendsOf
    <3>2. QED
      BY <2>2, <3>1, SendsFinite, FS_AddElement
  <2>4. Cardinality(SendsOf(e, action.intent)) <= e.actions[c]
    BY <1>1 DEF SentWell, BudgetOK
  <2>5. e.actions[c] \in Nat /\ MaxActions \in Nat /\ c \in DOMAIN e.actions
    BY EngineParameters DEF EngineOK, GoalsOK
  <2>6. ASSUME NEW id \in 1..y.counter
        PROVE  /\ Cardinality(SendsOf(y, id)) <= MaxActions
               /\ y.latest[y.intents[id].control] = id
                    => Cardinality(SendsOf(y, id)) <= y.actions[y.intents[id].control]
    <3>1. CASE id = action.intent
      <4>1. y.intents[id].control = c /\ y.actions[c] = e.actions[c] + 1
        BY <1>1, <2>5, <3>1
      <4>2. Cardinality(SendsOf(e, action.intent)) \in Nat
        BY SendsFinite
      <4>3. QED
        BY <2>3, <2>4, <2>5, <3>1, <4>1, <4>2
    <3>2. CASE id # action.intent
      <4> DEFINE d == e.intents[id].control
      <4>1. /\ id \in 1..e.counter /\ d \in Controls /\ y.intents[id].control = d
            /\ SendsOf(y, id) = SendsOf(e, id)
        BY <1>1, <2>1, <3>2 DEF EngineOK, GoalsOK, IntentOK
      <4>2. e.latest[d] = id => d # c /\ y.actions[d] = e.actions[d]
        BY <1>1, <3>2, <4>1 DEF EngineOK, GoalsOK
      <4>3. QED
        BY <1>1, <4>1, <4>2 DEF SentWell, BudgetOK
    <3>3. QED
      BY <3>1, <3>2
  <2>7. QED
    BY <2>6 DEF BudgetOK
<1>7. AckOK(y)
  <2>1. ASSUME NEW i \in DOMAIN e.history, e.history[i].control = "ack_reminder"
        PROVE  /\ e.history[i].intent # action.intent
               /\ y.intents[e.history[i].intent].stage \in Terminal
    <3>1. i # e.inflight
      BY <1>1, <1>3
    <3>2. e.intents[e.history[i].intent].stage \in Terminal
      BY <2>1, <3>1 DEF SentWell, AckOK
    <3>3. QED
      BY <1>1, <1>5, <3>2 DEF GoalsFinal, Terminal
  <2>2. ASSUME NEW i \in DOMAIN e.history, e.history[i].intent = action.intent
        PROVE  e.history[i].control = c
    BY <1>1, <2>2 DEF EngineOK, HistoryOK, TransactionOK
  <2>3. ASSUME NEW i \in DOMAIN y.history, y.history[i].control = "ack_reminder"
        PROVE  /\ i = y.inflight \/ y.intents[y.history[i].intent].stage \in Terminal
               /\ \A j \in DOMAIN y.history : y.history[j].intent = y.history[i].intent => i = j
    <3>1. CASE i = n
      BY <1>1, <1>2, <1>3, <2>1, <2>2, <2>3, <3>1
    <3>2. CASE i # n
      BY <1>1, <1>2, <1>3, <2>1, <2>3, <3>2 DEF SentWell, AckOK
    <3>3. QED
      BY <3>1, <3>2
  <2>4. QED
    BY <2>3 DEF AckOK
<1>8. WindowOK(y)
  <2>1. ASSUME NEW i \in DOMAIN y.history
        PROVE  y.intents[y.history[i].intent].deadline # 0 =>
                  y.history[i].sentAt + ConfirmationTimeout
                     <= y.intents[y.history[i].intent].deadline + ReceiptLag
    <3>1. CASE i = n
      BY <1>1, <1>2, <3>1
    <3>2. CASE i # n
      <4> DEFINE id == e.history[i].intent
      <4>1. i \in DOMAIN e.history /\ y.history[i] = e.history[i]
        BY <1>1, <1>3, <3>2
      <4>2. id \in 1..e.counter /\ y.intents[id].deadline = e.intents[id].deadline
        BY <1>1, <1>5, <4>1
      <4>3. QED
        BY <4>1, <4>2 DEF SentWell, WindowOK
    <3>3. QED
      BY <3>1, <3>2
  <2>2. QED
    BY <2>1 DEF WindowOK
<1>9. QED
  BY <1>6, <1>7, <1>8 DEF SentWell

-----------------------------------------------------------------------------
(* What is known of an ambiguous action when the next one is sent.         *)

(* The engine holds the latest status; its state is only available in the  *)
(* epoch that the connection is in, with the configuration known.          *)
Current(e, sn, t) ==
    /\ e.state.available => sn.synced /\ e.state.epoch = sn.epoch
    /\ e.state.epoch <= sn.epoch
    /\ e.state.sequence = sn.sequence /\ e.state.at = sn.at /\ sn.at <= t

(* What was sent in a past epoch was sent before any status of this one.   *)
Dated(e, sn, t) ==
    \A i \in DOMAIN e.history :
        /\ e.history[i].sequence <= sn.sequence /\ e.history[i].sentAt <= t
        /\ e.history[i].epoch < sn.epoch /\ sn.synced
             => e.history[i].sequence < sn.sequence /\ e.history[i].sentAt <= sn.at

(* Settling begins with a status newer than every ambiguous action ...     *)
SettlingOK(e) ==
    e.settling # None =>
        /\ e.settling.sequence \in Nat /\ e.settling.at \in Nat
        /\ \A i \in DOMAIN e.history : Ambiguous(e.history[i]) =>
              /\ e.settling.sequence > e.history[i].sequence
              /\ e.settling.at >= e.history[i].sentAt

(* ... and ends with a later one; from then on sends are allowed again.    *)
TrustOK(e, sn) ==
    e.resync = 0 =>
        \A i \in DOMAIN e.history : Ambiguous(e.history[i]) =>
            /\ sn.sequence >= e.history[i].sequence + 2
            /\ sn.at >= e.history[i].sentAt + ResyncSettle

SettledOK(e) ==
    \A i, j \in DOMAIN e.history :
        i < j /\ Ambiguous(e.history[i])
            => /\ e.history[j].sequence >= e.history[i].sequence + 2
               /\ e.history[j].sentAt >= e.history[i].sentAt + ResyncSettle

FreshOK(e, sn, t) ==
    /\ Current(e, sn, t) /\ Dated(e, sn, t)
    /\ SettlingOK(e) /\ TrustOK(e, sn) /\ SettledOK(e)

(* What was sent carries a sequence and a time.                            *)
LEMMA HistoryNumbers ==
    ASSUME NEW e, EngineOK(e)
    PROVE  /\ \A i \in DOMAIN e.history :
                 /\ e.history[i].sequence \in Nat /\ e.history[i].sentAt \in Nat
                 /\ e.history[i].epoch \in Nat /\ i \in Nat /\ i # 0
           /\ e.inflight # 0 => \A i \in DOMAIN e.history : i <= e.inflight
           /\ ResyncSettle \in Nat
<1>1. /\ DOMAIN e.history = 1..Len(e.history) /\ Len(e.history) \in Nat
      /\ e.inflight \in {0, Len(e.history)}
  BY HistoryDomain DEF EngineOK, HistoryOK
<1>2. \A i \in DOMAIN e.history : TransactionOK(e, e.history[i])
  BY DEF EngineOK, HistoryOK
<1>3. QED
  BY <1>1, <1>2, EngineParameters DEF TransactionOK

(* No new doubt leaves the ambiguous actions, and so what is known of them.*)
LEMMA SettledContinues ==
    ASSUME NEW e, NEW x, EngineOK(e), EngineOK(x), SameActions(e, x), SettledOK(e)
    PROVE  SettledOK(x)
<1>1. SUFFICES ASSUME NEW i \in DOMAIN x.history, NEW j \in DOMAIN x.history,
                      i < j, Ambiguous(x.history[i])
               PROVE  /\ x.history[j].sequence >= x.history[i].sequence + 2
                      /\ x.history[j].sentAt >= x.history[i].sentAt + ResyncSettle
  BY DEF SettledOK
<1>2. i \in DOMAIN e.history /\ j \in DOMAIN e.history
  BY DEF SameActions
<1>3. i # e.inflight
  BY <1>1, <1>2, HistoryNumbers
<1>4. Ambiguous(e.history[i])
  BY <1>1, <1>2, <1>3 DEF SameActions
<1>5. QED
  BY <1>1, <1>2, <1>4 DEF SettledOK, SameActions, SameAction

(* Without an observation nothing becomes more trustworthy than it was.    *)
LEMMA FreshSubdued ==
    ASSUME NEW e, NEW x, EngineOK(e), EngineOK(x), Subdued(e, x),
           NEW sn, NEW t, FreshOK(e, sn, t)
    PROVE  FreshOK(x, sn, t)
<1>1. SameActions(e, x) /\ SameSight(e, x)
  BY DEF Subdued, Continues
<1>2. Current(x, sn, t)
  BY <1>1 DEF FreshOK, Current, SameSight
<1>3. Dated(x, sn, t)
  BY <1>1 DEF FreshOK, Dated, SameActions, SameAction
<1>4. SettledOK(x)
  BY <1>1, SettledContinues DEF FreshOK
<1>5. CASE NoNewDoubt(e, x) /\ x.resync = e.resync /\ x.settling = e.settling
  <2>1. ASSUME NEW i \in DOMAIN x.history, Ambiguous(x.history[i])
        PROVE  i \in DOMAIN e.history /\ Ambiguous(e.history[i])
               /\ SameAction(e.history[i], x.history[i])
    BY <1>1, <1>5, <2>1 DEF NoNewDoubt, SameActions
  <2>2. SettlingOK(x)
    BY <1>5, <2>1 DEF FreshOK, SettlingOK, SameAction
  <2>3. TrustOK(x, sn)
    BY <1>5, <2>1 DEF FreshOK, TrustOK, SameAction
  <2>4. QED
    BY <1>2, <1>3, <1>4, <2>2, <2>3 DEF FreshOK
<1>6. CASE x.resync # 0 /\ x.settling = None
  BY <1>2, <1>3, <1>4, <1>6 DEF FreshOK, SettlingOK, TrustOK
<1>7. QED
  BY <1>5, <1>6 DEF Subdued, Calm

(* Time passes.                                                            *)
LEMMA FreshLater ==
    ASSUME NEW e, EngineOK(e), NEW sn, sn.at \in Nat, NEW t \in Nat, NEW u \in Nat, t <= u,
           FreshOK(e, sn, t)
    PROVE  FreshOK(e, sn, u)
<1>1. Current(e, sn, u)
  BY DEF FreshOK, Current
<1>2. Dated(e, sn, u)
  <2>1. ASSUME NEW i \in DOMAIN e.history
        PROVE  e.history[i].sentAt <= u
    BY HistoryNumbers DEF FreshOK, Dated
  <2>2. QED
    BY <2>1 DEF FreshOK, Dated
<1>3. QED
  BY <1>1, <1>2 DEF FreshOK

(* The connection that loses its configuration or its socket makes nothing *)
(* available.                                                              *)
LEMMA FreshUnsynced ==
    ASSUME NEW e, EngineOK(e), NEW sn, NEW t, FreshOK(e, sn, t), e.state.available = FALSE,
           NEW lost, ~lost.synced, sn.epoch <= lost.epoch,
           sn.epoch \in Nat, lost.epoch \in Nat,
           lost.sequence = sn.sequence, lost.at = sn.at
    PROVE  FreshOK(e, lost, t)
<1>1. Current(e, lost, t)
  <2>1. e.state.epoch \in Nat /\ e.state.epoch <= sn.epoch
    BY DEF EngineOK, IsState, FreshOK, Current
  <2>2. e.state.epoch <= lost.epoch
    BY <2>1
  <2>3. QED
    BY <2>2 DEF FreshOK, Current
<1>2. Dated(e, lost, t)
  BY DEF FreshOK, Dated
<1>3. TrustOK(e, lost)
  BY DEF FreshOK, TrustOK
<1>4. QED
  BY <1>1, <1>2, <1>3 DEF FreshOK

(* What the connection shows next is the status it has or the next one.    *)
Shows(sn, received, t) ==
    /\ SnapshotOK(received) /\ received.synced /\ received.epoch = sn.epoch
    /\ \/ sn.synced /\ received.sequence = sn.sequence /\ received.at = sn.at
       \/ received.sequence = sn.sequence + 1 /\ received.at = t

(* An observation that ends the doubt is newer by two and later by the     *)
(* settling time than every ambiguous action.                              *)
LEMMA FreshObserved ==
    ASSUME NEW e, NEW x, EngineOK(e), EngineOK(x), NEW sn, SnapshotOK(sn),
           NEW t \in Nat, FreshOK(e, sn, t),
           NEW received, Shows(sn, received, t), NEW available \in BOOLEAN,
           Observes(e, x, StateOf(received, available), t)
    PROVE  FreshOK(x, received, t)
<1> DEFINE s == StateOf(received, available)
<1>1. /\ s.epoch = received.epoch /\ s.sequence = received.sequence /\ s.at = received.at
      /\ s.available = available
  BY DEF StateOf
<1> HIDE DEF s
<1>2. PICK a : /\ EngineOK(a) /\ Subdued(e, a)
               /\ Continues(a, x) /\ NoNewDoubt(a, x) /\ x.state = s /\ Settles(a, x, s)
  BY DEF Observes, s
<1>3. FreshOK(a, sn, t)
  BY <1>2, FreshSubdued
<1>4. /\ received.sequence \in Nat /\ received.at \in Nat /\ received.epoch \in Nat
      /\ sn.sequence \in Nat /\ sn.at \in Nat /\ sn.epoch = received.epoch
      /\ received.synced /\ sn.at <= t
      /\ \/ sn.synced /\ received.sequence = sn.sequence /\ received.at = sn.at
         \/ received.sequence = sn.sequence + 1 /\ received.at = t
  BY <1>3 DEF Shows, SnapshotOK, FreshOK, Current
<1>5. received.sequence >= sn.sequence /\ received.at >= sn.at /\ received.at <= t
  BY <1>4
<1>6. SameActions(a, x)
  BY <1>2 DEF Continues
<1>7. Current(x, received, t)
  <2>1. x.state.available = available
    BY <1>1, <1>2
  <2>2. QED
    BY <1>1, <1>2, <1>4, <1>5 DEF Current
<1>8. ASSUME NEW i \in DOMAIN a.history
      PROVE  /\ a.history[i].sequence <= received.sequence /\ a.history[i].sentAt <= t
             /\ a.history[i].epoch < received.epoch
                  => a.history[i].sequence < received.sequence /\ a.history[i].sentAt <= received.at
  <2>1. /\ a.history[i].sequence \in Nat /\ a.history[i].sentAt \in Nat
        /\ a.history[i].sequence <= sn.sequence /\ a.history[i].sentAt <= t
        /\ a.history[i].epoch < sn.epoch /\ sn.synced
             => a.history[i].sequence < sn.sequence /\ a.history[i].sentAt <= sn.at
    BY <1>2, <1>3, HistoryNumbers DEF FreshOK, Dated
  <2>2. QED
    BY <1>4, <2>1
<1>9. Dated(x, received, t)
  BY <1>6, <1>8 DEF Dated, SameActions, SameAction
<1>10. SettledOK(x)
  BY <1>2, <1>3, <1>6, SettledContinues DEF FreshOK
<1>11. ASSUME NEW i \in DOMAIN x.history, Ambiguous(x.history[i])
       PROVE  /\ i \in DOMAIN a.history /\ Ambiguous(a.history[i])
              /\ x.history[i].sequence = a.history[i].sequence
              /\ x.history[i].sentAt = a.history[i].sentAt
              /\ x.history[i].epoch = a.history[i].epoch
              /\ a.history[i].sequence \in Nat /\ a.history[i].sentAt \in Nat
  BY <1>2, <1>6, <1>11, HistoryNumbers DEF NoNewDoubt, SameActions, SameAction
<1>12. ResyncSettle \in Nat
  BY EngineParameters
<1>13. SettlingOK(x) /\ TrustOK(x, received)
  <2>1. CASE x.resync = a.resync /\ x.settling = a.settling
    <3>1. SettlingOK(x)
      BY <1>3, <1>11, <2>1 DEF FreshOK, SettlingOK
    <3>2. TrustOK(x, received)
      <4>1. SUFFICES ASSUME x.resync = 0, NEW i \in DOMAIN x.history, Ambiguous(x.history[i])
                     PROVE  /\ received.sequence >= x.history[i].sequence + 2
                            /\ received.at >= x.history[i].sentAt + ResyncSettle
        BY DEF TrustOK
      <4>2. /\ sn.sequence >= a.history[i].sequence + 2
            /\ sn.at >= a.history[i].sentAt + ResyncSettle
        BY <1>3, <1>11, <2>1, <4>1 DEF FreshOK, TrustOK
      <4>3. QED
        BY <1>4, <1>5, <1>11, <1>12, <4>1, <4>2
    <3>3. QED
      BY <3>1, <3>2
  <2>2. CASE /\ x.resync = a.resync /\ a.resync < s.epoch /\ s.available
             /\ x.settling.sequence = s.sequence /\ x.settling.at = s.at
    <3>1. ASSUME NEW i \in DOMAIN x.history, Ambiguous(x.history[i])
          PROVE  s.sequence > x.history[i].sequence /\ s.at >= x.history[i].sentAt
      <4>1. x.history[i].epoch < received.epoch
        <5>1. /\ x.history[i].epoch < x.state.epoch \/ x.history[i].epoch = x.resync
          BY <3>1 DEF EngineOK, BarrierOK
        <5>2. QED
          BY <1>1, <1>2, <2>2, <5>1
      <4>2. QED
        BY <1>1, <1>4, <1>8, <1>11, <3>1, <4>1
    <3>2. SettlingOK(x)
      BY <1>1, <1>4, <2>2, <3>1 DEF SettlingOK
    <3>3. TrustOK(x, received)
      <4>1. SUFFICES ASSUME x.resync = 0, NEW i \in DOMAIN x.history, Ambiguous(x.history[i])
                     PROVE  /\ received.sequence >= x.history[i].sequence + 2
                            /\ received.at >= x.history[i].sentAt + ResyncSettle
        BY DEF TrustOK
      <4>2. /\ sn.sequence >= a.history[i].sequence + 2
            /\ sn.at >= a.history[i].sentAt + ResyncSettle
        BY <1>3, <1>11, <2>2, <4>1 DEF FreshOK, TrustOK
      <4>3. QED
        BY <1>4, <1>5, <1>11, <1>12, <4>1, <4>2
    <3>4. QED
      BY <3>2, <3>3
  <2>3. CASE /\ a.settling # None /\ x.resync = 0 /\ x.settling = None
             /\ s.sequence > a.settling.sequence /\ s.at >= a.settling.at + ResyncSettle
    <3>1. SettlingOK(x)
      BY <2>3 DEF SettlingOK
    <3>2. TrustOK(x, received)
      <4>1. SUFFICES ASSUME NEW i \in DOMAIN x.history, Ambiguous(x.history[i])
                     PROVE  /\ received.sequence >= x.history[i].sequence + 2
                            /\ received.at >= x.history[i].sentAt + ResyncSettle
        BY DEF TrustOK
      <4>2. /\ a.settling.sequence > a.history[i].sequence
            /\ a.settling.at >= a.history[i].sentAt
            /\ a.settling.sequence \in Nat /\ a.settling.at \in Nat
        BY <1>3, <1>11, <2>3, <4>1 DEF FreshOK, SettlingOK
      <4>3. QED
        BY <1>1, <1>4, <1>11, <1>12, <2>3, <4>1, <4>2
    <3>3. QED
      BY <3>1, <3>2
  <2>4. QED
    BY <1>2, <2>1, <2>2, <2>3 DEF Settles
<1>14. QED
  BY <1>7, <1>9, <1>10, <1>13 DEF FreshOK

(* A new goal changes nothing of what is known.                            *)
LEMMA FreshAdmitted ==
    ASSUME NEW e, EngineOK(e), NEW c \in Controls, NEW desired, NEW deadline \in Nat,
           NEW defer \in Nat, NEW replace, now \in Nat, NEW sn, NEW t, FreshOK(e, sn, t)
    PROVE  LET x == Admitted(e, c, desired, deadline, defer, replace)
           IN  FreshOK(x, sn, t) /\ GoalsFinal(e, x)
<1> DEFINE x == Admitted(e, c, desired, deadline, defer, replace)
<1>1. Admits(e, x, c)
  BY AdmittedOK
<1> HIDE DEF x
<1>2. FreshOK(x, sn, t)
  BY <1>1 DEF Admits, Kept, FreshOK, Current, Dated, SettlingOK, TrustOK, SettledOK
<1>3. QED
  BY <1>1, <1>2 DEF Admits, x

(* A transmission rests on the latest status of the epoch, which nothing   *)
(* in doubt is close to.                                                   *)
LEMMA FreshRecorded ==
    ASSUME NEW e, EngineOK(e), e.resync = 0, e.state.available,
           NEW sn, sn.at \in Nat, sn.sequence \in Nat, NEW t \in Nat, FreshOK(e, sn, t),
           NEW action, action.epoch = e.state.epoch, action.sequence = e.state.sequence,
           NEW at \in Nat, t <= at, NEW y, Records(e, y, action, at)
    PROVE  FreshOK(y, sn, at)
<1> DEFINE n == Len(e.history) + 1
           p == Pending(action, at)
<1>1. /\ n \in Nat /\ DOMAIN e.history = 1..Len(e.history)
      /\ DOMAIN y.history = 1..n /\ y.history[n] = p
      /\ \A i \in DOMAIN e.history : y.history[i] = e.history[i]
      /\ y.state = e.state /\ y.resync = 0 /\ y.settling = e.settling
  BY DEF Records
<1>2. /\ p.epoch = e.state.epoch /\ p.sequence = e.state.sequence /\ p.sentAt = at
      /\ ~Ambiguous(p)
  BY DEF Pending, Ambiguous
<1> HIDE DEF p
<1>3. Len(e.history) \in Nat /\ \A i \in 1..n : i = n \/ i \in DOMAIN e.history
  BY <1>1, HistoryDomain DEF EngineOK, HistoryOK
<1>4. \A i \in DOMAIN e.history : i \in Nat /\ i < n
  BY <1>1, <1>3
<1> HIDE DEF n
<1>5. /\ sn.sequence = e.state.sequence /\ sn.epoch = e.state.epoch /\ sn.synced
      /\ sn.at <= t
  BY DEF FreshOK, Current
<1>6. ASSUME NEW i \in DOMAIN y.history, Ambiguous(y.history[i])
      PROVE  /\ i \in DOMAIN e.history /\ Ambiguous(e.history[i])
             /\ y.history[i] = e.history[i]
  BY <1>1, <1>2, <1>3, <1>6
<1>7. Current(y, sn, at)
  BY <1>1, <1>5 DEF FreshOK, Current
<1>8. FreshOK(e, sn, at)
  BY FreshLater
<1>9. Dated(y, sn, at)
  <2>1. ASSUME NEW i \in DOMAIN y.history
        PROVE  /\ y.history[i].sequence <= sn.sequence /\ y.history[i].sentAt <= at
               /\ y.history[i].epoch < sn.epoch /\ sn.synced
                    => y.history[i].sequence < sn.sequence /\ y.history[i].sentAt <= sn.at
    <3>1. CASE i = n
      <4>1. e.state.epoch \in Nat
        BY DEF EngineOK, IsState
      <4>2. QED
        BY <1>1, <1>2, <1>5, <3>1, <4>1
    <3>2. CASE i \in DOMAIN e.history
      BY <1>1, <1>8, <3>2 DEF FreshOK, Dated
    <3>3. QED
      BY <1>1, <1>3, <3>1, <3>2
  <2>2. QED
    BY <2>1 DEF Dated
<1>10. SettlingOK(y) /\ TrustOK(y, sn)
  BY <1>1, <1>6 DEF FreshOK, SettlingOK, TrustOK
<1>11. SettledOK(y)
  <2>1. SUFFICES ASSUME NEW i \in DOMAIN y.history, NEW j \in DOMAIN y.history,
                        i < j, Ambiguous(y.history[i])
                 PROVE  /\ y.history[j].sequence >= y.history[i].sequence + 2
                        /\ y.history[j].sentAt >= y.history[i].sentAt + ResyncSettle
    BY DEF SettledOK
  <2>2. /\ i \in DOMAIN e.history /\ Ambiguous(e.history[i]) /\ y.history[i] = e.history[i]
        /\ e.history[i].sequence \in Nat /\ e.history[i].sentAt \in Nat /\ ResyncSettle \in Nat
    BY <1>6, <2>1, HistoryNumbers
  <2>3. CASE j \in DOMAIN e.history
    BY <1>1, <2>1, <2>2, <2>3 DEF FreshOK, SettledOK
  <2>4. CASE j = n
    <3>1. /\ sn.sequence >= e.history[i].sequence + 2
          /\ sn.at >= e.history[i].sentAt + ResyncSettle
      BY <2>2 DEF FreshOK, TrustOK
    <3>2. y.history[j].sequence = sn.sequence /\ y.history[j].sentAt = at
      BY <1>1, <1>2, <1>5, <2>4
    <3>3. QED
      BY <1>5, <2>2, <3>1, <3>2
  <2>5. QED
    BY <1>1, <1>3, <2>3, <2>4
<1>12. QED
  BY <1>7, <1>9, <1>10, <1>11 DEF FreshOK

-----------------------------------------------------------------------------
(* next_action and sent together.                                          *)

(* Timely: a goal without a deadline, or one that leaves a confirmation    *)
(* its whole window.                                                       *)
Timely(item, t) == item.deadline # 0 => t + ConfirmationTimeout <= item.deadline

(* What next_action offers, sent accepts: the goal waits for the bus, is   *)
(* the newest of its control, and leaves enough time.                      *)
LEMMA OfferAccepted ==
    ASSUME NEW e, EngineOK(e), Offers(e), now \in Nat
    PROVE  LET p == Prepared(e)
               action == Offer(e)
           IN  /\ ReceiptValid(p, action)
               /\ Timely(p.intents[action.intent], now)
<1> DEFINE due == Ticked(e, now)
           p == Prepared(e)
           action == Offer(e)
<1>1. EngineOK(due) /\ due.state = e.state
  BY TickedOK
<1>2. Ready(due) /\ Transmittable(due) # {}
  BY DEF Offers
<1>3. p = Walk(due)
  BY <1>2 DEF Prepared
<1>4. /\ action.control = due.order[Chosen(due)]
      /\ action.intent = due.latest[action.control]
      /\ action.epoch = due.state.epoch /\ action.sequence = due.state.sequence
  BY DEF Offer
<1> DEFINE c == action.control
           id == action.intent
<1> HIDE DEF due, action, p
<1>5. due.order \in Seq(Controls) /\ Transmittable(due) \subseteq 1..Len(due.order)
  <2>1. due.order \in Seq(Controls)
    BY <1>1 DEF EngineOK, GoalsOK
  <2>2. DOMAIN due.order = 1..Len(due.order)
    BY <2>1, LenProperties
  <2>3. QED
    BY <2>1, <2>2 DEF Transmittable
<1>6. /\ Chosen(due) \in Transmittable(due)
      /\ \A j \in Transmittable(due) : Chosen(due) <= j
  BY <1>2, <1>5, LeastOfFinite, LenProperties DEF Chosen
<1>7. Verdict(due, c) = "WAITING_FOR_BUS" /\ Chosen(due) \in DOMAIN due.order
  BY <1>4, <1>6 DEF Transmittable
<1>8. c \in Walked(due)
  BY <1>4, <1>6, <1>7 DEF Walked
<1>9. c \in Controls
  BY <1>4, <1>5, <1>7, ElementOfSeq, LenProperties
<1>10. /\ id = due.latest[c] /\ Open(due, id)
       /\ SafeFor(due.state, c) /\ ~TooLate(due.intents[id])
  BY <1>4, <1>7 DEF Verdict
<1>11. id \in 1..due.counter /\ due.intents[id].control = c
  BY <1>1, <1>9, <1>10 DEF Open, EngineOK, GoalsOK
<1>12. EngineOK(p) /\ Restaged(due, p)
  BY <1>1, <1>3, WalkOK
<1>13. p.intents[id].stage = "WAITING_FOR_BUS"
  <2>1. p.intents[id] = [due.intents[id] EXCEPT !.stage = Verdict(due, c)]
    <3>1. p.intents = [i \in 1..due.counter |->
             LET d == due.intents[i].control
             IN  IF i = due.latest[d] /\ d \in Walked(due) /\ Verdict(due, d) # "pass"
                 THEN [due.intents[i] EXCEPT !.stage = Verdict(due, d)]
                 ELSE due.intents[i]]
      BY <1>1, <1>3 DEF Walk, EngineOK, IsEngine
    <3>2. QED
      BY <1>7, <1>8, <1>10, <1>11, <3>1
  <2>2. IsItem(due.intents[id])
    BY <1>1, <1>11 DEF EngineOK, GoalsOK
  <2>3. QED
    BY <1>7, <2>1, <2>2 DEF IsItem
<1>14. ReceiptValid(p, action)
  <2>1. p.inflight = 0 /\ p.state = due.state /\ p.latest = due.latest
    BY <1>2, <1>12 DEF Ready, Restaged
  <2>2. QED
    BY <1>4, <1>10, <1>13, <2>1 DEF ReceiptValid
<1>15. Timely(p.intents[id], now)
  <2>1. p.intents[id].deadline = due.intents[id].deadline /\ due.intents[id].deadline \in Nat
    BY <1>1, <1>11, <1>12 DEF Restaged, EngineOK, GoalsOK, IntentOK
  <2>2. ConfirmationTimeout \in Nat
    BY EngineParameters
  <2>3. due.intents[id].deadline # 0 => ~(due.intents[id].deadline < now + ConfirmationTimeout)
    BY <1>10 DEF TooLate
  <2>4. QED
    BY <2>1, <2>2, <2>3 DEF Timely
<1>16. QED
  BY <1>14, <1>15 DEF p, action

-----------------------------------------------------------------------------
(* No success after a deadline.                                            *)

InTime(e, x, t) ==
    \A id \in 1..e.counter :
        x.intents[id].stage = "VERIFIED"
            => e.intents[id].stage = "VERIFIED" \/ ~Overdue(e.intents[id], t)

(* A method that begins with a tick ends the goals past their deadline;    *)
(* nothing that follows makes them a success.                              *)
LEMMA TickedIsInTime ==
    ASSUME NEW e, NEW a, NEW x, NEW t, SameRequests(e, a), GoalsFinal(a, x),
           NoSuccess(e, a), OutOfTime(e, a, t)
    PROVE  InTime(e, x, t)
  BY DEF InTime, SameRequests, GoalsFinal, NoSuccess, OutOfTime

(* Cancelling reports no success.                                          *)
LEMMA CancelledSubdued ==
    ASSUME NEW e, EngineOK(e), NEW c \in Controls
    PROVE  LET x == Cancelled(e, c)
           IN  EngineOK(x) /\ Subdued(e, x) /\ NoSuccess(e, x)
<1> DEFINE x == Cancelled(e, c)
<1>1. EngineOK(x) /\ Subdued(e, x)
  BY CancelledOK, RestagedContinues
<1>2. NoSuccess(e, x)
  <2>1. CASE ~Open(e, e.latest[c])
    BY <2>1 DEF Cancelled, NoSuccess
  <2>2. CASE Open(e, e.latest[c])
    <3>1. x.intents = [e.intents EXCEPT ![e.latest[c]].stage = "CANCELLED"]
      BY <2>2 DEF Cancelled, Update, EngineOK, IsEngine
    <3> HIDE DEF x
    <3>2. \A id \in 1..e.counter : IsItem(e.intents[id]) /\ id \in DOMAIN e.intents
      BY DEF EngineOK, GoalsOK
    <3>3. ASSUME NEW id \in 1..e.counter, x.intents[id].stage = "VERIFIED"
          PROVE  e.intents[id].stage = "VERIFIED"
      <4>1. CASE id = e.latest[c]
        <5>1. x.intents[id] = [e.intents[id] EXCEPT !.stage = "CANCELLED"]
          BY <3>1, <3>2, <4>1
        <5>2. x.intents[id].stage = "CANCELLED"
          BY <3>2, <5>1 DEF IsItem
        <5>3. QED
          BY <3>3, <5>2
      <4>2. CASE id # e.latest[c]
        BY <3>1, <3>2, <3>3, <4>2
      <4>3. QED
        BY <4>1, <4>2
    <3>4. QED
      BY <3>3 DEF NoSuccess
  <2>3. QED
    BY <2>1, <2>2
<1>3. QED
  BY <1>1, <1>2

-----------------------------------------------------------------------------
(* The steps of the event loop.                                            *)

HInv == IInv /\ SentWell(engine) /\ FreshOK(engine, snapshot, now)

(* What each step is shown to do.                                          *)
Upheld == SentWell(engine') /\ FreshOK(engine', snapshot', now') /\ InTime(engine, engine', now)

(* Nothing was sent by a newly constructed engine.                         *)
LEMMA HistoryInit == Init => HInv
<1> SUFFICES ASSUME Init PROVE HInv
  OBVIOUS
<1>1. IInv
  BY InitOK
<1>2. /\ engine.history = <<>> /\ engine.counter = 0 /\ engine.settling = None
      /\ engine.state = NoState
  BY DEF Init
<1>3. DOMAIN engine.history = {} /\ 1..engine.counter = {}
  BY <1>2
<1>4. SentWell(engine)
  BY <1>3 DEF SentWell, BudgetOK, AckOK, WindowOK
<1>5. Current(engine, snapshot, now)
  BY <1>2 DEF Init, NoState, Current
<1>6. FreshOK(engine, snapshot, now)
  BY <1>2, <1>3, <1>5 DEF FreshOK, Dated, SettlingOK, TrustOK, SettledOK
<1>7. QED
  BY <1>1, <1>4, <1>6 DEF HInv

(* A step that observes nothing leaves what was sent as it was.            *)
LEMMA HistorySubdued ==
    ASSUME HInv, EngineOK(engine'), Subdued(engine, engine'), InTime(engine, engine', now),
           snapshot' = snapshot, now' = now
    PROVE  Upheld
<1>1. SentWell(engine')
  BY SentWellContinues DEF HInv, IInv, Subdued
<1>2. FreshOK(engine', snapshot', now')
  BY FreshSubdued DEF HInv, IInv
<1>3. QED
  BY <1>1, <1>2 DEF Upheld

(* A request ticks, then admits a goal.                                    *)
LEMMA HistoryRequest ==
    ASSUME HInv, NEW goal \in Goals, NEW offset \in Deadlines, NEW defer \in Defers,
           NEW replace \in BOOLEAN, Request(goal[1], goal[2], offset, defer, replace)
    PROVE  Upheld
<1> DEFINE due == Ticked(engine, now)
           deadline == IF offset = 0 THEN 0 ELSE now + offset
<1>1. goal[1] \in Controls /\ offset \in Nat /\ defer \in Nat
  BY EngineInputs
<1>2. deadline \in Nat /\ now \in Nat /\ EngineOK(engine)
  BY <1>1 DEF HInv, IInv
<1>3. /\ EngineOK(due) /\ Subdued(engine, due) /\ NoSuccess(engine, due)
      /\ OutOfTime(engine, due, now)
  BY <1>2, TickedContinues
<1>4. engine' = Admitted(due, goal[1], goal[2], deadline, defer, replace)
      /\ now' = now /\ snapshot' = snapshot
  BY DEF Request
<1> HIDE DEF due, deadline
<1>5. SentWell(due) /\ FreshOK(due, snapshot, now)
  BY <1>2, <1>3, SentWellContinues, FreshSubdued DEF HInv, Subdued
<1>6. SentWell(engine')
  BY <1>1, <1>2, <1>3, <1>4, <1>5, SentWellAdmitted
<1>7. FreshOK(engine', snapshot', now') /\ GoalsFinal(due, engine')
  BY <1>1, <1>2, <1>3, <1>4, <1>5, FreshAdmitted
<1>8. InTime(engine, engine', now)
  BY <1>3, <1>7, TickedIsInTime DEF Subdued, Continues
<1>9. QED
  BY <1>6, <1>7, <1>8 DEF Upheld

(* What the connection shows is never older than what the engine observed. *)
LEMMA ObservationTaken ==
    ASSUME HInv, NEW received, Shows(snapshot, received, now), NEW available \in BOOLEAN,
           Observe(received, available)
    PROVE  EngineOK(engine') /\ Observes(engine, engine', StateOf(received, available), now)
<1> DEFINE s == StateOf(received, available)
<1>1. /\ s.epoch = received.epoch /\ s.sequence = received.sequence /\ s.at = received.at
      /\ IsState(s)
  BY StateOfSnapshot DEF StateOf, Shows
<1>2. /\ engine' = Observed(engine, s, now) /\ snapshot' = received /\ now' = now
      /\ EngineOK(engine) /\ now \in Nat /\ SnapshotOK(snapshot)
      /\ FreshOK(engine, snapshot, now) /\ SentWell(engine)
  BY DEF Observe, HInv, IInv
<1> HIDE DEF s
<1>3. ~Outdated(engine, s)
  <2>1. /\ engine.state.epoch <= snapshot.epoch /\ engine.state.sequence = snapshot.sequence
        /\ engine.state.at = snapshot.at /\ snapshot.at <= now
        /\ snapshot.epoch \in Nat /\ snapshot.sequence \in Nat /\ snapshot.at \in Nat
    BY <1>2 DEF FreshOK, Current, SnapshotOK
  <2>2. /\ received.epoch = snapshot.epoch
        /\ \/ received.sequence = snapshot.sequence /\ received.at = snapshot.at
           \/ received.sequence = snapshot.sequence + 1 /\ received.at = now
    BY DEF Shows
  <2>3. engine.state.epoch \in Nat
    BY <1>2 DEF EngineOK, IsState
  <2>4. QED
    BY <1>1, <1>2, <2>1, <2>2, <2>3 DEF Outdated
<1>4. QED
  BY <1>1, <1>2, <1>3, ObservedContinues DEF s

(* So every observation is judged.                                         *)
LEMMA HistoryObserve ==
    ASSUME HInv, NEW received, Shows(snapshot, received, now), NEW available \in BOOLEAN,
           Observe(received, available)
    PROVE  Upheld
<1> DEFINE s == StateOf(received, available)
<1>1. /\ s.epoch = received.epoch /\ s.sequence = received.sequence /\ s.at = received.at
      /\ IsState(s)
  BY StateOfSnapshot DEF StateOf, Shows
<1>2. /\ engine' = Observed(engine, s, now) /\ snapshot' = received /\ now' = now
      /\ EngineOK(engine) /\ now \in Nat /\ SnapshotOK(snapshot)
      /\ FreshOK(engine, snapshot, now) /\ SentWell(engine)
  BY DEF Observe, HInv, IInv
<1>4. EngineOK(engine') /\ Observes(engine, engine', s, now)
  BY ObservationTaken
<1> HIDE DEF s
<1>5. FreshOK(engine', snapshot', now')
  BY <1>2, <1>4, FreshObserved DEF s
<1>6. PICK a : /\ EngineOK(a) /\ Subdued(engine, a) /\ NoSuccess(engine, a)
               /\ OutOfTime(engine, a, now) /\ Continues(a, engine')
  BY <1>4 DEF Observes
<1>7. SentWell(engine')
  <2>1. SentWell(a)
    BY <1>2, <1>6, SentWellContinues DEF Subdued
  <2>2. QED
    BY <1>4, <1>6, <2>1, SentWellContinues
<1>8. InTime(engine, engine', now)
  BY <1>6, TickedIsInTime DEF Subdued, Continues
<1>9. QED
  BY <1>5, <1>7, <1>8 DEF Upheld

(* The attributes that observations and losses write.                      *)
LEMMA StatusShown ==
    ASSUME NEW sn, SnapshotOK(sn), NEW st, NEW t \in Nat
    PROVE  Shows(sn, [sn EXCEPT !.status = st, !.at = t, !.synced = TRUE, !.sequence = @ + 1], t)
<1> DEFINE x == [sn EXCEPT !.status = st, !.at = t, !.synced = TRUE, !.sequence = @ + 1]
<1>1. SnapshotOK(x)
  BY StatusReceived
<1>2. x.synced = TRUE /\ x.epoch = sn.epoch /\ x.sequence = sn.sequence + 1 /\ x.at = t
  BY DEF SnapshotOK, HasSnapshotFields
<1> HIDE DEF x
<1>3. x.synced
  BY <1>2
<1>4. Shows(sn, x, t)
  BY <1>1, <1>2, <1>3 DEF Shows
<1>5. QED
  BY <1>4 DEF x

(* A snapshot without a new status shows none.                             *)
LEMMA SameStatusShown ==
    ASSUME NEW sn, SnapshotOK(sn), sn.synced, NEW schedule, NEW time, NEW t
    PROVE  /\ Shows(sn, sn, t)
           /\ Shows(sn, [sn EXCEPT !.setup = TRUE], t)
           /\ Shows(sn, [sn EXCEPT !.filters = schedule, !.filtersAt = time], t)
<1> DEFINE a == [sn EXCEPT !.setup = TRUE]
           b == [sn EXCEPT !.filters = schedule, !.filtersAt = time]
<1>1. SnapshotOK(a) /\ SnapshotOK(b)
  BY SetupReceived, FiltersReceived
<1>2. /\ a.epoch = sn.epoch /\ a.synced = sn.synced /\ a.sequence = sn.sequence /\ a.at = sn.at
      /\ b.epoch = sn.epoch /\ b.synced = sn.synced /\ b.sequence = sn.sequence /\ b.at = sn.at
  BY DEF SnapshotOK, HasSnapshotFields
<1> HIDE DEF a, b
<1>3. Shows(sn, sn, t) /\ Shows(sn, a, t) /\ Shows(sn, b, t)
  BY <1>1, <1>2 DEF Shows
<1>4. QED
  BY <1>3 DEF a, b

(* A lost synchronization leaves the status that was received.             *)
LEMMA SyncLost ==
    ASSUME NEW sn, SnapshotOK(sn)
    PROVE  LET a == [sn EXCEPT !.synced = FALSE]
               b == [sn EXCEPT !.epoch = @ + 1, !.synced = FALSE, !.setup = FALSE,
                               !.filters = None, !.filtersAt = 0]
           IN  /\ a.synced = FALSE /\ a.epoch = sn.epoch
               /\ a.sequence = sn.sequence /\ a.at = sn.at
               /\ b.synced = FALSE /\ b.epoch = sn.epoch + 1
               /\ b.sequence = sn.sequence /\ b.at = sn.at
  BY DEF SnapshotOK, HasSnapshotFields

(* Losing the configuration or the socket ends what was available.         *)
LEMMA HistorySuspended ==
    ASSUME HInv, NEW e, EngineOK(e), Subdued(engine, e), NoSuccess(engine, e),
           engine' = Suspended(e), now' = now,
           ~snapshot'.synced, snapshot'.epoch \in Nat, snapshot.epoch <= snapshot'.epoch,
           snapshot'.sequence = snapshot.sequence, snapshot'.at = snapshot.at
    PROVE  Upheld
<1>1. /\ EngineOK(engine) /\ SentWell(engine) /\ FreshOK(engine, snapshot, now)
      /\ snapshot.epoch \in Nat
  BY DEF HInv, IInv, SnapshotOK
<1>2. /\ EngineOK(engine') /\ Subdued(e, engine') /\ NoSuccess(e, engine')
      /\ engine'.state.available = FALSE
  BY SuspendedContinues
<1>3. Subdued(engine, engine')
  BY <1>1, <1>2, SubduedTransitive
<1>4. SentWell(engine')
  BY <1>1, <1>2, <1>3, SentWellContinues DEF Subdued
<1>5. FreshOK(engine', snapshot, now)
  BY <1>1, <1>2, <1>3, FreshSubdued
<1>6. FreshOK(engine', snapshot', now')
  BY <1>1, <1>2, <1>5, FreshUnsynced
<1>7. InTime(engine, engine', now)
  BY <1>2 DEF InTime, NoSuccess, Subdued, Continues, SameRequests
<1>8. QED
  BY <1>4, <1>6, <1>7 DEF Upheld

(* A transmission is prepared, written and acknowledged by its receipt.    *)
LEMMA HistoryTransmit ==
    ASSUME HInv, NEW at \in now..(now + ReceiptLag), Transmit(at)
    PROVE  Upheld
<1> DEFINE due == Ticked(engine, now)
           p == Prepared(engine)
           action == Offer(engine)
           y == Recorded(p, action, at)
<1>1. /\ Offers(engine) /\ engine' = Sent(p, action, at) /\ now' = at /\ snapshot' = snapshot
  BY DEF Transmit
<1>2. /\ EngineOK(engine) /\ SentWell(engine) /\ FreshOK(engine, snapshot, now)
      /\ now \in Nat /\ SnapshotOK(snapshot)
  BY DEF HInv, IInv
<1>3. at \in Nat /\ now <= at /\ at <= now + ReceiptLag /\ ReceiptLag \in Nat
  BY <1>2, EngineInputs
<1>4. /\ EngineOK(due) /\ Subdued(engine, due) /\ NoSuccess(engine, due)
      /\ OutOfTime(engine, due, now) /\ due.state = engine.state
  BY <1>2, TickedContinues, TickedOK
<1>5. EngineOK(p) /\ Restaged(due, p)
  BY <1>1, <1>4, WalkOK DEF Prepared, Offers
<1>6. Subdued(engine, p) /\ p.inflight = 0 /\ p.resync = 0 /\ p.state = engine.state
  BY <1>1, <1>2, <1>4, <1>5, PreparedContinues, PreparedOK DEF Offers
<1>7. /\ ReceiptValid(p, action) /\ Timely(p.intents[action.intent], now)
  BY <1>1, <1>2, OfferAccepted
<1>8. /\ action.control \in Controls /\ action.intent # 0
      /\ action.epoch = engine.state.epoch /\ action.sequence = engine.state.sequence
      /\ engine.state.epoch # 0 /\ p.actions[action.control] < MaxActions
  BY <1>1, <1>2, OfferOK
<1>9. p.state.available
  BY <1>1, <1>4, <1>6 DEF Offers, Ready
<1> HIDE DEF due, p, action
<1>10. EngineOK(y) /\ GoalsFinal(p, y) /\ Records(p, y, action, at)
  BY <1>3, <1>5, <1>6, <1>7, <1>8, RecordedOK
<1>11. EngineOK(engine') /\ GoalsFinal(p, engine') /\ engine' = Expired(y, at)
  BY <1>1, <1>3, <1>5, <1>6, <1>7, <1>8, SentOK
<1> HIDE DEF y
<1>12. Subdued(y, engine')
  BY <1>10, <1>11, ExpiredRestages, RestagedContinues
<1>13. SentWell(p) /\ FreshOK(p, snapshot, now)
  BY <1>2, <1>5, <1>6, SentWellContinues, FreshSubdued DEF Subdued
<1>14. SentWell(engine')
  <2>1. p.intents[action.intent].deadline # 0 =>
           at + ConfirmationTimeout <= p.intents[action.intent].deadline + ReceiptLag
    <3> DEFINE d == p.intents[action.intent].deadline
    <3>1. action.intent \in 1..p.counter
      BY <1>10 DEF Records
    <3>2. d \in Nat /\ ConfirmationTimeout \in Nat
      BY <1>5, <3>1, EngineParameters DEF EngineOK, GoalsOK, IntentOK
    <3>3. d # 0 => now + ConfirmationTimeout <= d
      BY <1>7 DEF Timely
    <3> HIDE DEF d
    <3>4. d # 0 => at + ConfirmationTimeout <= d + ReceiptLag
      BY <1>2, <1>3, <3>2, <3>3
    <3>5. QED
      BY <3>4 DEF d
  <2>2. p.latest[action.control] = action.intent
    BY <1>7 DEF ReceiptValid
  <2>3. SentWell(y)
    BY <1>3, <1>5, <1>6, <1>8, <1>10, <1>13, <2>1, <2>2, SentWellRecorded
  <2>4. QED
    BY <1>10, <1>11, <1>12, <2>3, SentWellContinues DEF Subdued
<1>15. FreshOK(engine', snapshot', now')
  <2>1. FreshOK(y, snapshot, at)
    BY <1>2, <1>3, <1>5, <1>6, <1>8, <1>9, <1>10, <1>13, FreshRecorded DEF SnapshotOK
  <2>2. QED
    BY <1>1, <1>10, <1>11, <1>12, <2>1, FreshSubdued
<1>16. InTime(engine, engine', now)
  <2>1. GoalsFinal(due, engine')
    BY <1>4, <1>5, <1>11, RestagedIsFinal, GoalsFinalTransitive DEF EngineOK, GoalsOK
  <2>2. QED
    BY <1>4, <2>1, TickedIsInTime DEF Subdued, Continues
<1>17. QED
  BY <1>14, <1>15, <1>16 DEF Upheld

(* Every step upholds the invariant, and no step is a late success.        *)
LEMMA HistoryStep ==
    ASSUME HInv, AnyStep
    PROVE  HInv' /\ InTime(engine, engine', now)
<1> SUFFICES Upheld
  BY StepOK DEF HInv, Upheld
<1>a. /\ EngineOK(engine) /\ SentWell(engine) /\ FreshOK(engine, snapshot, now)
      /\ now \in Nat /\ SnapshotOK(snapshot)
  BY DEF HInv, IInv
<1>b. Subdued(engine, engine) /\ NoSuccess(engine, engine)
  BY <1>a, ContinuesReflexive
<1>c. InTime(engine, engine, now)
  BY DEF InTime
<1>1. CASE Elapse
  <2>1. engine' = engine /\ snapshot' = snapshot /\ now' = now + 1
    BY <1>1 DEF Elapse
  <2>2. now' \in Nat /\ now <= now'
    BY <1>a, <2>1
  <2>3. FreshOK(engine, snapshot, now')
    BY <1>a, <2>2, FreshLater DEF SnapshotOK
  <2>4. QED
    BY <1>a, <1>c, <2>1, <2>3 DEF Upheld
<1>2. ASSUME NEW goal \in Goals, NEW offset \in Deadlines, NEW defer \in Defers,
             NEW replace \in BOOLEAN, Request(goal[1], goal[2], offset, defer, replace)
      PROVE  Upheld
  BY <1>2, HistoryRequest
<1>3. CASE Tick
  <2>1. engine' = Ticked(engine, now) /\ now' = now /\ snapshot' = snapshot
    BY <1>3 DEF Tick
  <2>2. EngineOK(engine') /\ Subdued(engine, engine') /\ NoSuccess(engine, engine')
    BY <1>a, <2>1, TickedContinues
  <2>3. QED
    BY <2>1, <2>2, HistorySubdued DEF InTime, NoSuccess
<1>4. ASSUME NEW c \in Controls, Cancel(c)
      PROVE  Upheld
  <2>1. engine' = Cancelled(engine, c) /\ now' = now /\ snapshot' = snapshot
    BY <1>4 DEF Cancel
  <2>2. EngineOK(engine') /\ Subdued(engine, engine') /\ NoSuccess(engine, engine')
    BY <1>a, <2>1, CancelledSubdued
  <2>3. QED
    BY <2>1, <2>2, HistorySubdued DEF InTime, NoSuccess
<1>5. ASSUME NEW st, NEW available \in BOOLEAN, ReceiveStatus(st, available)
      PROVE  Upheld
  <2>1. Shows(snapshot, [snapshot EXCEPT !.status = st, !.at = now, !.synced = TRUE,
                                         !.sequence = @ + 1], now)
    BY <1>a, StatusShown
  <2>2. QED
    BY <1>5, <2>1, HistoryObserve DEF ReceiveStatus
<1>6. CASE ReceiveSetup
  <2>1. snapshot.synced /\ Observe([snapshot EXCEPT !.setup = TRUE], TRUE)
    BY <1>6 DEF ReceiveSetup
  <2>2. Shows(snapshot, [snapshot EXCEPT !.setup = TRUE], now)
    BY <1>a, <2>1, SameStatusShown
  <2>3. QED
    BY <2>1, <2>2, HistoryObserve
<1>7. ASSUME NEW schedule \in Schedules, NEW queried \in BOOLEAN,
             ReceiveFilters(schedule, queried)
      PROVE  Upheld
  <2> DEFINE time == IF queried THEN now ELSE 0
             received == [snapshot EXCEPT !.filters = schedule, !.filtersAt = time]
  <2>1. snapshot.synced /\ Observe(received, TRUE)
    BY <1>7 DEF ReceiveFilters
  <2>2. Shows(snapshot, received, now)
    <3> HIDE DEF time
    <3> QED BY <1>a, <2>1, SameStatusShown
  <2> HIDE DEF received
  <2>3. QED
    BY <2>1, <2>2, HistoryObserve
<1>8. ASSUME NEW available \in Availability, ReceiveNothing(available)
      PROVE  Upheld
  <2>1. snapshot.synced /\ Observe(snapshot, available) /\ available \in BOOLEAN
    BY <1>8, EngineInputs DEF ReceiveNothing
  <2>2. Shows(snapshot, snapshot, now)
    BY <1>a, <2>1, SameStatusShown
  <2>3. QED
    BY <2>1, <2>2, HistoryObserve
<1>9. CASE LoseConfiguration
  <2> DEFINE due == Ticked(engine, now)
  <2>1. EngineOK(due) /\ Subdued(engine, due) /\ NoSuccess(engine, due)
    BY <1>a, TickedContinues
  <2>2. /\ engine' = Suspended(due) /\ now' = now
        /\ snapshot' = [snapshot EXCEPT !.synced = FALSE]
    BY <1>9 DEF LoseConfiguration
  <2> HIDE DEF due
  <2>3. /\ ~snapshot'.synced /\ snapshot'.epoch = snapshot.epoch
        /\ snapshot'.sequence = snapshot.sequence /\ snapshot'.at = snapshot.at
        /\ snapshot.epoch \in Nat
    BY <1>a, <2>2, SyncLost DEF SnapshotOK
  <2>4. QED
    BY <2>1, <2>2, <2>3, HistorySuspended
<1>10. CASE Reconnect
  <2>1. /\ engine' = Suspended(engine) /\ now' = now
        /\ snapshot' = [snapshot EXCEPT !.epoch = @ + 1, !.synced = FALSE, !.setup = FALSE,
                                        !.filters = None, !.filtersAt = 0]
    BY <1>10 DEF Reconnect
  <2>2. /\ ~snapshot'.synced /\ snapshot'.epoch = snapshot.epoch + 1
        /\ snapshot'.sequence = snapshot.sequence /\ snapshot'.at = snapshot.at
        /\ snapshot.epoch \in Nat
    BY <1>a, <2>1, SyncLost DEF SnapshotOK
  <2>3. snapshot'.epoch \in Nat /\ snapshot.epoch <= snapshot'.epoch
    BY <2>2
  <2>4. QED
    BY <1>a, <1>b, <2>1, <2>2, <2>3, HistorySuspended
<1>11. CASE Prepare
  <2> DEFINE due == Ticked(engine, now)
  <2>1. engine' = Prepared(engine) /\ now' = now /\ snapshot' = snapshot
    BY <1>11 DEF Prepare
  <2>2. EngineOK(engine') /\ Subdued(engine, engine')
    BY <1>a, <2>1, PreparedContinues
  <2>3. /\ EngineOK(due) /\ Subdued(engine, due) /\ NoSuccess(engine, due)
        /\ OutOfTime(engine, due, now)
    BY <1>a, TickedContinues
  <2>4. GoalsFinal(due, engine')
    <3>1. CASE Ready(due)
      BY <2>1, <2>3, <3>1, WalkOK DEF Prepared
    <3>2. CASE ~Ready(due)
      BY <2>1, <2>3, <3>2, ContinuesReflexive DEF Prepared, Subdued, Continues
    <3>3. QED
      BY <3>1, <3>2
  <2> HIDE DEF due
  <2>5. InTime(engine, engine', now)
    BY <2>3, <2>4, TickedIsInTime DEF Subdued, Continues
  <2>6. QED
    BY <2>1, <2>2, <2>5, HistorySubdued
<1>12. ASSUME NEW at \in now..(now + ReceiptLag), Transmit(at)
       PROVE  Upheld
  BY <1>12, HistoryTransmit
<1>13. CASE UNCHANGED vars
  BY <1>13, <1>a, <1>c DEF vars, Upheld
<1>14. Availability \subseteq BOOLEAN
  BY EngineInputs
<1>15. QED
  BY <1>1, <1>2, <1>3, <1>4, <1>5, <1>6, <1>7, <1>8, <1>9, <1>10, <1>11, <1>12, <1>13, <1>14
     DEF Next, AnyStep

-----------------------------------------------------------------------------
(* The steps by what they do to the engine.                                *)

(* The last status received stays the last one.                            *)
SameReport(sn, y) == y.status = sn.status /\ y.sequence = sn.sequence /\ y.at = sn.at

(* Nothing new is asked for, observed or sent.                             *)
Quiet(e, x) == EngineOK(x) /\ Subdued(e, x) /\ Succeeded(e, x)

(* A goal is admitted after a tick.                                        *)
Requests(e, x) ==
    \E a : /\ EngineOK(a) /\ Subdued(e, a) /\ NoSuccess(e, a)
           /\ \E goal \in Goals, deadline \in Nat, defer \in Nat, replace \in BOOLEAN :
                 x = Admitted(a, goal[1], goal[2], deadline, defer, replace)

(* The connection shows what it has to the engine.                         *)
Watches(e, x, sn, y, t) ==
    \E available \in BOOLEAN :
        Shows(sn, y, t) /\ EngineOK(x) /\ Observes(e, x, StateOf(y, available), t)

Effect ==
    \/ Quiet(engine, engine') /\ SameReport(snapshot, snapshot')
    \/ Requests(engine, engine') /\ SameReport(snapshot, snapshot')
    \/ /\ Watches(engine, engine', snapshot, snapshot', now)
       /\ StatusOK(snapshot.status) => StatusOK(snapshot'.status)

(* Without a success there is nothing to justify.                          *)
LEMMA NoneSucceeds ==
    ASSUME NEW e, NEW x, EngineOK(e), NoSuccess(e, x)
    PROVE  Succeeded(e, x)
  BY DEF NoSuccess, Succeeded

(* A success after a step without one is a success of the later step.      *)
LEMMA SucceedsLater ==
    ASSUME NEW e, NEW a, NEW x, EngineOK(e), SameRequests(e, a), NoSuccess(e, a), Succeeded(a, x)
    PROVE  Succeeded(e, x)
<1>1. \A id \in 1..e.counter :
         /\ id \in 1..a.counter /\ a.intents[id].control = e.intents[id].control
         /\ a.intents[id].desired = e.intents[id].desired
         /\ e.intents[id].stage # "VERIFIED" => a.intents[id].stage # "VERIFIED"
  BY DEF SameRequests, NoSuccess
<1>2. QED
  BY <1>1 DEF Succeeded

(* next_action reports the goals that are reached already, and only while  *)
(* nothing is in flight or in doubt.                                       *)
LEMMA PreparedSucceeds ==
    ASSUME NEW e, EngineOK(e)
    PROVE  Quiet(e, Prepared(e))
<1> DEFINE due == Ticked(e, now)
           x == Prepared(e)
<1>1. EngineOK(x) /\ Subdued(e, x)
  BY PreparedContinues
<1>2. EngineOK(due) /\ Subdued(e, due) /\ NoSuccess(e, due)
  BY TickedContinues
<1>3. x = IF Ready(due) THEN Walk(due) ELSE due
  BY DEF Prepared
<1> HIDE DEF due, x
<1>4. CASE ~Ready(due)
  BY <1>1, <1>2, <1>3, <1>4, NoneSucceeds DEF Quiet, x
<1>5. CASE Ready(due)
  <2>1. x = Walk(due)
    BY <1>3, <1>5
  <2>2. Restaged(due, x) /\ due.inflight = 0 /\ due.resync = 0
    BY <1>2, <1>5, <2>1, WalkOK DEF Ready
  <2>3. ASSUME NEW id \in 1..due.counter, due.intents[id].stage # "VERIFIED",
               x.intents[id].stage = "VERIFIED"
        PROVE  LET item == due.intents[id]
               IN  SafeFor(due.state, item.control) /\ Value(due.state, item.control) = item.desired
    <3> DEFINE c == due.intents[id].control
    <3>1. x.intents[id] = IF id = due.latest[c] /\ c \in Walked(due) /\ Verdict(due, c) # "pass"
                          THEN [due.intents[id] EXCEPT !.stage = Verdict(due, c)]
                          ELSE due.intents[id]
      BY <1>2, <2>1 DEF Walk, EngineOK, IsEngine
    <3>2. IsItem(due.intents[id])
      BY <1>2 DEF EngineOK, GoalsOK
    <3> HIDE DEF c
    <3>3. id = due.latest[c] /\ x.intents[id] = [due.intents[id] EXCEPT !.stage = Verdict(due, c)]
      BY <2>3, <3>1
    <3>4. Verdict(due, c) = "VERIFIED"
      BY <2>3, <3>2, <3>3 DEF IsItem
    <3>5. SafeFor(due.state, c) /\ Value(due.state, c) = due.intents[due.latest[c]].desired
      BY <3>4 DEF Verdict
    <3>6. QED
      BY <3>3, <3>5 DEF c
  <2>4. x.state = due.state /\ x.inflight = 0 /\ x.resync = 0
    BY <2>2 DEF Restaged
  <2>5. Succeeded(due, x)
    BY <2>3, <2>4 DEF Succeeded
  <2>6. Succeeded(e, x)
    BY <1>2, <2>5, SucceedsLater DEF Subdued, Continues
  <2>7. QED
    BY <1>1, <2>6 DEF Quiet, x
<1>6. QED
  BY <1>4, <1>5

(* A step that reports no success is quiet.                                *)
LEMMA QuietWithout ==
    ASSUME HInv, EngineOK(engine'), Subdued(engine, engine'), NoSuccess(engine, engine'),
           SameReport(snapshot, snapshot')
    PROVE  Effect
  BY NoneSucceeds DEF HInv, IInv, Effect, Quiet

(* What a request does.                                                    *)
LEMMA RequestEffect ==
    ASSUME HInv, NEW goal \in Goals, NEW offset \in Deadlines, NEW defer \in Defers,
           NEW replace \in BOOLEAN, Request(goal[1], goal[2], offset, defer, replace)
    PROVE  Effect
<1> DEFINE due == Ticked(engine, now)
           deadline == IF offset = 0 THEN 0 ELSE now + offset
<1>1. offset \in Nat /\ defer \in Nat
  BY EngineInputs
<1>2. deadline \in Nat /\ EngineOK(engine)
  BY <1>1 DEF HInv, IInv
<1>3. EngineOK(due) /\ Subdued(engine, due) /\ NoSuccess(engine, due)
  BY <1>2, TickedContinues
<1>4. engine' = Admitted(due, goal[1], goal[2], deadline, defer, replace) /\ snapshot' = snapshot
  BY DEF Request
<1> HIDE DEF due, deadline
<1>5. Requests(engine, engine')
  <2>1. \E g \in Goals, d \in Nat, f \in Nat, r \in BOOLEAN :
           engine' = Admitted(due, g[1], g[2], d, f, r)
    BY <1>1, <1>2, <1>4
  <2>2. QED
    BY <1>3, <2>1 DEF Requests
<1>6. QED
  BY <1>4, <1>5 DEF Effect, SameReport

(* What an observation does.                                               *)
LEMMA ObserveEffect ==
    ASSUME HInv, NEW received, Shows(snapshot, received, now), NEW available \in BOOLEAN,
           Observe(received, available), StatusOK(snapshot.status) => StatusOK(received.status)
    PROVE  Effect
<1>1. EngineOK(engine') /\ Observes(engine, engine', StateOf(received, available), now)
  BY ObservationTaken
<1>2. snapshot' = received
  BY DEF Observe
<1>3. QED
  BY <1>1, <1>2 DEF Effect, Watches

(* What a lost configuration or socket does.                               *)
LEMMA SuspendedEffect ==
    ASSUME HInv, NEW e, EngineOK(e), Subdued(engine, e), NoSuccess(engine, e),
           engine' = Suspended(e), SameReport(snapshot, snapshot')
    PROVE  Effect
<1>1. EngineOK(engine) /\ EngineOK(engine') /\ Subdued(e, engine') /\ NoSuccess(e, engine')
  BY SuspendedContinues DEF HInv, IInv
<1>2. Subdued(engine, engine')
  BY <1>1, SubduedTransitive
<1>3. NoSuccess(engine, engine')
  BY <1>1 DEF NoSuccess, Subdued, Continues, SameRequests
<1>4. QED
  BY <1>1, <1>2, <1>3, QuietWithout

(* Every step but a transmission.                                          *)
SilentStep ==
    \/ UNCHANGED vars \/ Elapse
    \/ \E goal \in Goals, offset \in Deadlines, defer \in Defers, replace \in BOOLEAN :
          Request(goal[1], goal[2], offset, defer, replace)
    \/ Tick
    \/ \E c \in Controls : Cancel(c)
    \/ \E st, available : /\ StatusOK(st) /\ available \in BOOLEAN
                         /\ ReceiveStatus(st, available)
    \/ ReceiveSetup
    \/ \E schedule \in Schedules, queried \in BOOLEAN : ReceiveFilters(schedule, queried)
    \/ \E available \in Availability : ReceiveNothing(available)
    \/ LoseConfiguration
    \/ Reconnect
    \/ Prepare

(* A step is silent or a transmission.                                     *)
LEMMA SilentOrSent ==
    ASSUME AnyStep
    PROVE  SilentStep \/ \E at \in now..(now + ReceiptLag) : Transmit(at)
<1>1. \A st \in Statuses, available \in Availability : StatusOK(st) /\ available \in BOOLEAN
  BY EngineInputs
<1>2. CASE Next
  BY <1>1, <1>2 DEF Next, SilentStep
<1>3. CASE UNCHANGED vars
  BY <1>3 DEF SilentStep
<1>4. CASE \E st, available : /\ StatusOK(st) /\ available \in BOOLEAN
                              /\ ReceiveStatus(st, available)
  BY <1>4 DEF SilentStep
<1>5. QED
  BY <1>2, <1>3, <1>4 DEF AnyStep

(* What every step but a transmission does.                                *)
LEMMA SilentEffect ==
    ASSUME HInv, SilentStep
    PROVE  Effect
<1>a. EngineOK(engine) /\ now \in Nat /\ SnapshotOK(snapshot)
  BY DEF HInv, IInv
<1>b. Subdued(engine, engine) /\ NoSuccess(engine, engine)
  BY <1>a, ContinuesReflexive
<1>1. ASSUME engine' = engine, SameReport(snapshot, snapshot')
      PROVE  Effect
  BY <1>1, <1>a, <1>b, QuietWithout
<1>2. CASE UNCHANGED vars
  BY <1>1, <1>2 DEF vars, SameReport
<1>3. CASE Elapse
  BY <1>1, <1>3 DEF Elapse, SameReport
<1>4. ASSUME NEW goal \in Goals, NEW offset \in Deadlines, NEW defer \in Defers,
             NEW replace \in BOOLEAN, Request(goal[1], goal[2], offset, defer, replace)
      PROVE  Effect
  BY <1>4, RequestEffect
<1>5. CASE Tick
  <2>1. engine' = Ticked(engine, now) /\ snapshot' = snapshot
    BY <1>5 DEF Tick
  <2>2. EngineOK(engine') /\ Subdued(engine, engine') /\ NoSuccess(engine, engine')
    BY <1>a, <2>1, TickedContinues
  <2>3. QED
    BY <2>1, <2>2, QuietWithout DEF SameReport
<1>6. ASSUME NEW c \in Controls, Cancel(c)
      PROVE  Effect
  <2>1. engine' = Cancelled(engine, c) /\ snapshot' = snapshot
    BY <1>6 DEF Cancel
  <2>2. EngineOK(engine') /\ Subdued(engine, engine') /\ NoSuccess(engine, engine')
    BY <1>a, <2>1, CancelledSubdued
  <2>3. QED
    BY <2>1, <2>2, QuietWithout DEF SameReport
<1>7. ASSUME NEW st, StatusOK(st), NEW available \in BOOLEAN, ReceiveStatus(st, available)
      PROVE  Effect
  <2> DEFINE y == [snapshot EXCEPT !.status = st, !.at = now, !.synced = TRUE, !.sequence = @ + 1]
  <2>1. Observe(y, available)
    BY <1>7 DEF ReceiveStatus
  <2>2. Shows(snapshot, y, now)
    BY <1>a, StatusShown
  <2>3. y.status = st
    BY <1>a DEF SnapshotOK, HasSnapshotFields
  <2> HIDE DEF y
  <2>4. QED
    BY <1>7, <2>1, <2>2, <2>3, ObserveEffect
<1>8. CASE ReceiveSetup
  <2> DEFINE y == [snapshot EXCEPT !.setup = TRUE]
  <2>1. snapshot.synced /\ Observe(y, TRUE)
    BY <1>8 DEF ReceiveSetup
  <2>2. Shows(snapshot, y, now)
    BY <1>a, <2>1, SameStatusShown
  <2>3. y.status = snapshot.status
    BY <1>a DEF SnapshotOK, HasSnapshotFields
  <2> HIDE DEF y
  <2>4. QED
    BY <2>1, <2>2, <2>3, ObserveEffect
<1>9. ASSUME NEW schedule \in Schedules, NEW queried \in BOOLEAN,
             ReceiveFilters(schedule, queried)
      PROVE  Effect
  <2> DEFINE time == IF queried THEN now ELSE 0
             y == [snapshot EXCEPT !.filters = schedule, !.filtersAt = time]
  <2>1. snapshot.synced /\ Observe(y, TRUE)
    BY <1>9 DEF ReceiveFilters
  <2> HIDE DEF time
  <2>2. Shows(snapshot, y, now)
    BY <1>a, <2>1, SameStatusShown
  <2>3. y.status = snapshot.status
    BY <1>a DEF SnapshotOK, HasSnapshotFields
  <2> HIDE DEF y
  <2>4. QED
    BY <2>1, <2>2, <2>3, ObserveEffect
<1>10. ASSUME NEW available \in Availability, ReceiveNothing(available)
       PROVE  Effect
  <2>1. snapshot.synced /\ Observe(snapshot, available) /\ available \in BOOLEAN
    BY <1>10, EngineInputs DEF ReceiveNothing
  <2>2. Shows(snapshot, snapshot, now)
    BY <1>a, <2>1, SameStatusShown
  <2>3. QED
    BY <2>1, <2>2, ObserveEffect
<1>11. CASE LoseConfiguration
  <2> DEFINE due == Ticked(engine, now)
  <2>1. EngineOK(due) /\ Subdued(engine, due) /\ NoSuccess(engine, due)
    BY <1>a, TickedContinues
  <2>2. engine' = Suspended(due) /\ snapshot' = [snapshot EXCEPT !.synced = FALSE]
    BY <1>11 DEF LoseConfiguration
  <2> HIDE DEF due
  <2>3. SameReport(snapshot, snapshot')
    BY <1>a, <2>2 DEF SnapshotOK, HasSnapshotFields, SameReport
  <2>4. QED
    BY <2>1, <2>2, <2>3, SuspendedEffect
<1>12. CASE Reconnect
  <2>1. engine' = Suspended(engine)
        /\ snapshot' = [snapshot EXCEPT !.epoch = @ + 1, !.synced = FALSE, !.setup = FALSE,
                                        !.filters = None, !.filtersAt = 0]
    BY <1>12 DEF Reconnect
  <2>2. SameReport(snapshot, snapshot')
    BY <1>a, <2>1 DEF SnapshotOK, HasSnapshotFields, SameReport
  <2>3. QED
    BY <1>a, <1>b, <2>1, <2>2, SuspendedEffect
<1>13. CASE Prepare
  <2>1. engine' = Prepared(engine) /\ snapshot' = snapshot
    BY <1>13 DEF Prepare
  <2>2. Quiet(engine, engine')
    BY <1>a, <2>1, PreparedSucceeds
  <2>3. QED
    BY <2>1, <2>2 DEF Effect, SameReport
<1>14. QED
  BY <1>2, <1>3, <1>4, <1>5, <1>6, <1>7, <1>8, <1>9, <1>10, <1>11, <1>12, <1>13
     DEF SilentStep

(* What a transmission does: next_action, then the receipt of its offer.   *)
Transmission(e, x, at) ==
    LET p == Prepared(e)
        y == Recorded(p, Offer(e), at)
    IN  /\ Offers(e) /\ Quiet(e, p) /\ p.inflight = 0 /\ p.resync = 0
        /\ p.state = e.state /\ e.inflight = 0
        /\ EngineOK(y) /\ GoalsFinal(p, y) /\ Records(p, y, Offer(e), at)
        /\ EngineOK(x) /\ Subdued(y, x) /\ NoSuccess(y, x) /\ x.history = y.history

(* The receipt adds one transaction to those that were sent.               *)
LEMMA SentEffect ==
    ASSUME HInv, NEW at \in now..(now + ReceiptLag), Transmit(at)
    PROVE  Transmission(engine, engine', at) /\ now' = at /\ snapshot' = snapshot
<1> DEFINE p == Prepared(engine)
           action == Offer(engine)
           y == Recorded(p, action, at)
<1>1. /\ Offers(engine) /\ engine' = Sent(p, action, at) /\ now' = at /\ snapshot' = snapshot
      /\ ReceiptValid(p, action)
  BY DEF Transmit
<1>2. EngineOK(engine) /\ now \in Nat
  BY DEF HInv, IInv
<1>3. at \in Nat
  BY <1>2, EngineInputs
<1>4. /\ Quiet(engine, p) /\ EngineOK(p) /\ Kept(engine, p) /\ p.inflight = 0 /\ p.resync = 0
      /\ p.state = engine.state
  BY <1>1, <1>2, PreparedSucceeds, PreparedOK DEF Offers, Quiet
<1>5. /\ action.control \in Controls /\ action.intent # 0
      /\ engine.state.epoch # 0 /\ p.actions[action.control] < MaxActions
  BY <1>1, <1>2, OfferOK
<1> HIDE DEF p, action
<1>6. EngineOK(y) /\ GoalsFinal(p, y) /\ Records(p, y, action, at)
  BY <1>1, <1>3, <1>4, <1>5, RecordedOK
<1>7. EngineOK(engine') /\ engine' = Expired(y, at)
  BY <1>1, <1>3, <1>4, <1>5, SentOK
<1>8. engine' = Ticked(y, at)
  BY <1>1 DEF Sent, Recorded
<1> HIDE DEF y
<1>9. engine'.history = y.history
  BY <1>6, <1>7, ExpiredRestages DEF Restaged
<1>10. Subdued(y, engine') /\ NoSuccess(y, engine')
  BY <1>6, <1>8, TickedContinues
<1>11. engine.inflight = 0
  BY <1>4 DEF Kept
<1>12. QED
  BY <1>1, <1>4, <1>6, <1>7, <1>9, <1>10, <1>11 DEF Transmission, p, action, y

(* An offer is a plan for the state it was made of: the control is safe to *)
(* use, its goal is valid and not reached, and the plan starts at what is  *)
(* observed.                                                               *)
LEMMA OfferPlans ==
    ASSUME NEW e, EngineOK(e), Offers(e)
    PROVE  LET action == Offer(e)
           IN  /\ action.control \in Controls /\ action.intent \in 1..Prepared(e).counter
               /\ action.desired = Prepared(e).intents[action.intent].desired
               /\ action.starting = Value(e.state, action.control)
               /\ action.expected = Expected(e.state, action.control, action.desired)
               /\ SafeFor(e.state, action.control) /\ Valid(e.state, action.control, action.desired)
               /\ action.starting # action.desired
<1> DEFINE due == Ticked(e, now)
           p == Prepared(e)
           action == Offer(e)
           c == action.control
<1>1. EngineOK(due) /\ due.state.status = e.state.status /\ due.state = e.state
  BY TickedOK
<1>2. Ready(due) /\ Transmittable(due) # {}
  BY DEF Offers
<1>3. p = Walk(due)
  BY <1>2 DEF Prepared
<1>4. /\ c = due.order[Chosen(due)] /\ action.intent = due.latest[c]
      /\ action.desired = due.intents[action.intent].desired
      /\ action.starting = Value(due.state, c)
      /\ action.expected = Expected(due.state, c, action.desired)
  BY DEF Offer
<1> HIDE DEF due, p, action
<1>5. due.order \in Seq(Controls) /\ Transmittable(due) \subseteq 1..Len(due.order)
  <2>1. due.order \in Seq(Controls)
    BY <1>1 DEF EngineOK, GoalsOK
  <2>2. DOMAIN due.order = 1..Len(due.order)
    BY <2>1, LenProperties
  <2>3. QED
    BY <2>1, <2>2 DEF Transmittable
<1>6. Chosen(due) \in Transmittable(due)
  BY <1>2, <1>5, LeastOfFinite, LenProperties DEF Chosen
<1>7. Verdict(due, c) = "WAITING_FOR_BUS" /\ c \in Controls
  BY <1>4, <1>5, <1>6, ElementOfSeq DEF Transmittable
<1>8. /\ SafeFor(due.state, c) /\ Value(due.state, c) # action.desired
      /\ Valid(due.state, c, action.desired) /\ Open(due, action.intent)
  BY <1>4, <1>7 DEF Verdict
<1>9. Restaged(due, p)
  BY <1>1, <1>3, WalkOK
<1>10. action.intent \in 1..due.counter
  <2>1. due.latest \in [Controls -> 0..due.counter] /\ due.counter \in Nat
    BY <1>1 DEF EngineOK, GoalsOK
  <2>2. action.intent \in 0..due.counter /\ action.intent # 0
    BY <1>4, <1>7, <1>8, <2>1 DEF Open
  <2>3. QED
    BY <2>1, <2>2
<1>11. action.intent \in 1..p.counter /\ p.intents[action.intent].desired = action.desired
  BY <1>4, <1>9, <1>10 DEF Restaged
<1>12. QED
  BY <1>1, <1>4, <1>7, <1>8, <1>11 DEF p, action

-----------------------------------------------------------------------------
(* What is asked for and expected is a value the spa can show.             *)

GoalsKnown(e) == \A id \in 1..e.counter : e.intents[id].desired # None

ActionsKnown(e) ==
    \A i \in DOMAIN e.history : e.history[i].desired # None /\ e.history[i].expected # None

Known(e, sn) ==
    /\ StatusOK(sn.status) /\ e.state.status = sn.status
    /\ GoalsKnown(e) /\ ActionsKnown(e)

(* What continues an engine has its goals and its actions.                 *)
LEMMA KnownContinues ==
    ASSUME NEW e, NEW x, Continues(e, x), GoalsKnown(e), ActionsKnown(e)
    PROVE  GoalsKnown(x) /\ ActionsKnown(x)
  BY DEF Continues, SameRequests, SameActions, SameAction, GoalsKnown, ActionsKnown

(* A request adds a goal that is a value.                                  *)
LEMMA KnownRequested ==
    ASSUME NEW e, NEW x, EngineOK(e), now \in Nat, Requests(e, x), GoalsKnown(e), ActionsKnown(e)
    PROVE  GoalsKnown(x) /\ ActionsKnown(x) /\ x.state.status = e.state.status
<1>1. PICK a : /\ EngineOK(a) /\ Subdued(e, a)
               /\ \E goal \in Goals, deadline \in Nat, defer \in Nat, replace \in BOOLEAN :
                     x = Admitted(a, goal[1], goal[2], deadline, defer, replace)
  BY DEF Requests
<1>2. PICK goal \in Goals, deadline \in Nat, defer \in Nat, replace \in BOOLEAN :
         x = Admitted(a, goal[1], goal[2], deadline, defer, replace)
  BY <1>1
<1>3. goal[1] \in Controls /\ goal[2] # None
  BY EngineInputs
<1>4. GoalsKnown(a) /\ ActionsKnown(a) /\ a.state.status = e.state.status /\ a.counter \in Nat
  BY <1>1, KnownContinues DEF Subdued, SameSight, EngineOK, GoalsOK
<1>5. Admits(a, x, goal[1]) /\ x.intents[x.counter].desired = goal[2]
  BY <1>1, <1>2, <1>3, AdmittedOK
<1>6. /\ x.counter = a.counter + 1 /\ x.history = a.history /\ x.state = a.state
      /\ \A id \in 1..a.counter : x.intents[id].desired = a.intents[id].desired
  BY <1>5 DEF Admits, Kept
<1>7. \A id \in 1..x.counter : id \in 1..a.counter \/ id = x.counter
  BY <1>4, <1>6
<1>8. QED
  BY <1>3, <1>4, <1>5, <1>6, <1>7 DEF GoalsKnown, ActionsKnown

(* A transmission adds an action towards a value that the spa can show.    *)
LEMMA KnownSent ==
    ASSUME NEW e, NEW x, NEW at, EngineOK(e), Transmission(e, x, at), StatusOK(e.state.status),
           GoalsKnown(e), ActionsKnown(e)
    PROVE  GoalsKnown(x) /\ ActionsKnown(x) /\ x.state.status = e.state.status
<1> DEFINE p == Prepared(e)
           action == Offer(e)
           y == Recorded(p, action, at)
           n == Len(p.history) + 1
<1>1. /\ Offers(e) /\ Subdued(e, p) /\ p.state = e.state
      /\ Records(p, y, action, at) /\ Subdued(y, x)
  BY DEF Transmission, Quiet
<1>2. /\ action.control \in Controls /\ action.intent \in 1..p.counter
      /\ action.desired = p.intents[action.intent].desired
      /\ action.expected = Expected(e.state, action.control, action.desired)
      /\ Valid(e.state, action.control, action.desired)
  BY <1>1, OfferPlans
<1> HIDE DEF p, action, y
<1>3. GoalsKnown(p) /\ ActionsKnown(p)
  BY <1>1, KnownContinues DEF Subdued
<1>4. action.desired # None /\ action.expected # None
  BY <1>2, <1>3, ExpectedKnown, EngineParameters DEF GoalsKnown
<1>5. /\ n \in Nat /\ DOMAIN p.history = 1..Len(p.history)
      /\ DOMAIN y.history = 1..n /\ y.history[n] = Pending(action, at)
      /\ \A i \in DOMAIN p.history : y.history[i] = p.history[i]
      /\ y.state = p.state /\ y.counter = p.counter
      /\ \A id \in 1..p.counter : y.intents[id].desired = p.intents[id].desired
  BY <1>1 DEF Records
<1>6. y.history[n].desired # None /\ y.history[n].expected # None
  BY <1>4, <1>5 DEF Pending
<1>7. \A i \in 1..n : i = n \/ i \in 1..Len(p.history)
  BY <1>5
<1> HIDE DEF n
<1>8. GoalsKnown(y) /\ ActionsKnown(y)
  BY <1>3, <1>5, <1>6, <1>7 DEF GoalsKnown, ActionsKnown
<1>9. QED
  BY <1>1, <1>5, <1>8, KnownContinues DEF Subdued, SameSight

KInv == HInv /\ Known(engine, snapshot)

(* Every step keeps what is known.                                         *)
LEMMA KnownStep ==
    ASSUME KInv, AnyStep
    PROVE  KInv'
<1>1. /\ EngineOK(engine) /\ now \in Nat /\ HInv /\ StatusOK(snapshot.status)
      /\ engine.state.status = snapshot.status /\ GoalsKnown(engine) /\ ActionsKnown(engine)
  BY DEF KInv, HInv, IInv, Known
<1>2. HInv'
  BY <1>1, HistoryStep
<1>3. SUFFICES Known(engine', snapshot')
  BY <1>2 DEF KInv, Known, GoalsKnown, ActionsKnown
<1>4. ASSUME NEW at \in now..(now + ReceiptLag), Transmit(at)
      PROVE  Known(engine', snapshot')
  BY <1>1, <1>4, SentEffect, KnownSent DEF Known
<1>5. CASE Quiet(engine, engine') /\ SameReport(snapshot, snapshot')
  BY <1>1, <1>5, KnownContinues DEF Quiet, Subdued, SameReport, SameSight, Known
<1>6. CASE Requests(engine, engine') /\ SameReport(snapshot, snapshot')
  BY <1>1, <1>6, KnownRequested DEF SameReport, Known
<1>7. CASE /\ Watches(engine, engine', snapshot, snapshot', now)
           /\ StatusOK(snapshot.status) => StatusOK(snapshot'.status)
  <2>1. PICK available \in BOOLEAN :
           Observes(engine, engine', StateOf(snapshot', available), now)
    BY <1>7 DEF Watches
  <2>2. PICK a : /\ Subdued(engine, a) /\ Continues(a, engine')
                 /\ engine'.state = StateOf(snapshot', available)
    BY <2>1 DEF Observes
  <2>3. GoalsKnown(engine') /\ ActionsKnown(engine')
    BY <1>1, <2>2, KnownContinues DEF Subdued
  <2>4. engine'.state.status = snapshot'.status
    BY <2>2 DEF StateOf
  <2>5. QED
    BY <1>1, <1>7, <2>3, <2>4 DEF Known
<1>8. QED
  BY <1>1, <1>4, <1>5, <1>6, <1>7, SilentOrSent, SilentEffect DEF Effect

(* A new engine has asked for nothing, and shows some status.              *)
LEMMA KnownInit == Init => KInv
<1> SUFFICES ASSUME Init PROVE KInv
  OBVIOUS
<1>1. NoState.status \in Statuses /\ StatusOK(NoState.status)
  BY EngineInputs DEF NoState
<1>2. /\ snapshot.status = NoState.status /\ engine.state = NoState
      /\ 1..engine.counter = {} /\ DOMAIN engine.history = {}
  BY DEF Init
<1>3. QED
  BY <1>1, <1>2, HistoryInit DEF KInv, Known, GoalsKnown, ActionsKnown

(* What confirms an action is a known value.                               *)
LEMMA ConfirmedValue ==
    ASSUME NEW action, NEW s, Confirms(action, s), action.expected # None, action.desired # None
    PROVE  Value(s, action.control) # None
<1>1. CASE RetainedLow(action, s)
  BY <1>1, NoneIsNoValue DEF RetainedLow
<1>2. CASE ~RetainedLow(action, s) /\ action.control = "ack_reminder"
  <2>1. ~ReminderIsUnknown(s.status)
    BY <1>2 DEF Confirms, Acknowledged, ReminderIsUnknown, RoutineReminder
  <2>2. Options(s, "ack_reminder") = <<TRUE>>
    BY <2>1, PumpsNamed DEF Options, When
  <2>3. <<TRUE>> # <<>>
    OBVIOUS
  <2>4. Value(s, "ack_reminder") = ReminderIsNone(s.status)
    BY <2>2, <2>3, PumpsNamed DEF Value
  <2>5. ReminderIsNone(s.status) \in BOOLEAN
    BY DEF ReminderIsNone
  <2>6. QED
    BY <1>2, <2>4, <2>5, NoneIsNoValue
<1>3. CASE ~RetainedLow(action, s) /\ action.control # "ack_reminder"
  BY <1>3 DEF Confirms
<1>4. QED
  BY <1>1, <1>2, <1>3

(* An action that left the slot without a doubt was observed.              *)
LEMMA ResolvedIsObserved ==
    ASSUME KInv, AnyStep, Resolved(engine, engine')
    PROVE  engine'.history[engine.inflight].resulting # None
<1> DEFINE i == engine.inflight
<1>1. /\ EngineOK(engine) /\ now \in Nat /\ HInv /\ GoalsKnown(engine) /\ ActionsKnown(engine)
  BY DEF KInv, HInv, IInv, Known
<1>2. EngineOK(engine')
  BY <1>1, StepOK DEF HInv, IInv
<1>3. i # 0 /\ engine'.inflight = 0 /\ ~Ambiguous(engine'.history[i])
  BY DEF Resolved
<1>4. i \in DOMAIN engine.history /\ i \in DOMAIN engine'.history
  BY <1>1, <1>3, HistoryDomain DEF EngineOK, HistoryOK, Resolved
<1>5. engine'.history[i].result # "WAITING_FOR_STATE"
  BY <1>2, <1>3, <1>4 DEF EngineOK, HistoryOK
<1>6. engine.history[i].result = "WAITING_FOR_STATE"
  BY <1>1, <1>4 DEF EngineOK, HistoryOK
<1> HIDE DEF i
<1>7. ASSUME NEW at \in now..(now + ReceiptLag), Transmit(at)
      PROVE  FALSE
  BY <1>1, <1>3, <1>7, SentEffect DEF Transmission, i
<1>8. CASE Quiet(engine, engine')
  BY <1>3, <1>4, <1>5, <1>6, <1>8 DEF Quiet, Subdued, Unjudged
<1>9. CASE Requests(engine, engine')
  <2>1. PICK a : /\ EngineOK(a) /\ Subdued(engine, a)
                 /\ \E goal \in Goals, deadline \in Nat, defer \in Nat, replace \in BOOLEAN :
                       engine' = Admitted(a, goal[1], goal[2], deadline, defer, replace)
    BY <1>9 DEF Requests
  <2>2. PICK goal \in Goals, deadline \in Nat, defer \in Nat, replace \in BOOLEAN :
           engine' = Admitted(a, goal[1], goal[2], deadline, defer, replace)
    BY <2>1
  <2>3. Admits(a, engine', goal[1])
    BY <1>1, <2>1, <2>2, AdmittedOK, EngineInputs
  <2>4. engine'.history = a.history
    BY <2>3 DEF Admits, Kept
  <2>5. QED
    BY <1>3, <1>4, <1>5, <1>6, <2>1, <2>4 DEF Subdued, Unjudged
<1>10. CASE Watches(engine, engine', snapshot, snapshot', now)
  <2>1. PICK s, a : Subdued(engine, a) /\ Concluded(a, engine', s)
    BY <1>10 DEF Watches, Observes
  <2>2. DOMAIN a.history = DOMAIN engine.history /\ ActionsKnown(a)
    BY <1>1, <2>1, KnownContinues DEF Subdued, Continues, SameActions
  <2>3. a.history[i] = engine.history[i] \/ Ambiguous(a.history[i])
    BY <1>4, <2>1 DEF Subdued, Unjudged
  <2>4. engine'.history[i] # a.history[i]
    BY <1>3, <1>5, <1>6, <2>3
  <2>5. /\ Confirms(a.history[i], s)
        /\ engine'.history[i].resulting = Value(s, a.history[i].control)
    BY <1>4, <2>1, <2>2, <2>4 DEF Concluded
  <2>6. QED
    BY <1>4, <2>2, <2>5, ConfirmedValue DEF ActionsKnown, i
<1>11. QED
  BY <1>1, <1>7, <1>8, <1>9, <1>10, SilentOrSent, SilentEffect DEF Effect, i

-----------------------------------------------------------------------------
(* The theorems.                                                           *)

(* HistoryInvariance: the strengthened invariant holds in every reachable  *)
(* state of the engine.                                                    *)
THEOREM HistoryInvariance == Spec => []HInv
<1>1. HInv /\ [Next]_vars => HInv'
  BY HistoryStep DEF AnyStep
<1>2. QED
  BY HistoryInit, <1>1, PTL DEF Spec

(* BudgetOfAnIntent: one intent never costs more than MaxActions physical  *)
(* actions, whatever is lost, retried, inherited or superseded.            *)
THEOREM BudgetOfAnIntent == Spec => []BudgetRespected
<1>1. HInv => BudgetRespected
  BY DEF HInv, SentWell, BudgetOK, BudgetRespected
<1>2. QED
  BY <1>1, HistoryInvariance, PTL

(* OneAcknowledgement: a reminder acknowledgement is sent at most once.    *)
THEOREM OneAcknowledgement == Spec => []AcknowledgedOnce
<1>1. HInv => AcknowledgedOnce
  BY DEF HInv, SentWell, AckOK, AcknowledgedOnce
<1>2. QED
  BY <1>1, HistoryInvariance, PTL

(* NewsBeforeRetry: an action sent after an ambiguous one rests on at least*)
(* two newer statuses and comes at least the settling time later.          *)
THEOREM NewsBeforeRetry == Spec => []SettledBeforeRetry
<1>1. HInv => SettledBeforeRetry
  BY DEF HInv, FreshOK, SettledOK, SettledBeforeRetry
<1>2. QED
  BY <1>1, HistoryInvariance, PTL

(* EveryActionIsOwed: an action belongs to the newest goal of its control, *)
(* leaves time to confirm it, and its receipt is never refused.            *)
THEOREM EveryActionIsOwed == Spec => []ActionsAreOwed
<1>1. HInv => OneGoalPerControl
  BY DEF HInv, IInv, EngineOK, GoalsOK, OneGoalPerControl
<1>2. HInv => WindowBeforeDeadline
  BY DEF HInv, SentWell, WindowOK, WindowBeforeDeadline
<1>3. HInv => ReceiptAccepted
  BY OfferAccepted DEF HInv, IInv, ReceiptAccepted
<1>4. HInv => ActionsAreOwed
  BY <1>1, <1>2, <1>3 DEF ActionsAreOwed
<1>5. QED
  BY <1>4, HistoryInvariance, PTL

(* EveryOutcomeStands: no goal becomes a success after its deadline, and no*)
(* transaction leaves the slot without an observed value or the barrier of *)
(* its epoch.                                                              *)
THEOREM EveryOutcomeStands == Spec => OutcomesStand
<1>1. KInv /\ [Next]_vars => KInv'
  BY KnownStep DEF AnyStep
<1>2. Spec => []KInv
  BY KnownInit, <1>1, PTL DEF Spec
<1>3. ASSUME KInv, [Next]_vars
      PROVE  \A id \in 1..engine.counter :
                /\ engine.intents[id].stage # "VERIFIED"
                /\ engine'.intents[id].stage = "VERIFIED"
                => ~Overdue(engine.intents[id], now)
  BY <1>3, HistoryStep DEF AnyStep, KInv, InTime
<1>4. ASSUME KInv, [Next]_vars, engine.inflight # 0, engine'.inflight = 0
      PROVE  /\ engine'.history[engine.inflight].result # "WAITING_FOR_STATE"
             /\ \/ engine'.history[engine.inflight].resulting # None
                \/ engine'.resync = engine.history[engine.inflight].epoch
  <2>1. IInv /\ EngineOK(engine) /\ AnyStep
    BY <1>4 DEF KInv, HInv, IInv, AnyStep
  <2>2. EngineOK(engine') /\ Outcome(engine, engine')
    BY <2>1, StepOK DEF IInv
  <2>3. CASE Doubted(engine, engine')
    BY <2>3 DEF Doubted, Ambiguous
  <2>4. CASE Resolved(engine, engine')
    <3>1. engine.inflight \in DOMAIN engine'.history
      BY <1>4, <2>1, <2>4, HistoryDomain DEF EngineOK, HistoryOK, Resolved
    <3>2. engine'.history[engine.inflight].result # "WAITING_FOR_STATE"
      BY <1>4, <2>2, <3>1 DEF EngineOK, HistoryOK
    <3>3. QED
      BY <1>4, <2>1, <2>4, <3>2, ResolvedIsObserved
  <2>5. QED
    BY <1>4, <2>2, <2>3, <2>4 DEF Outcome, Kept, Trusted, Started
<1>5. KInv /\ [Next]_vars =>
        /\ [\A id \in 1..engine.counter :
               /\ engine.intents[id].stage # "VERIFIED"
               /\ engine'.intents[id].stage = "VERIFIED"
               => ~Overdue(engine.intents[id], now)]_vars
        /\ [engine.inflight # 0 /\ engine'.inflight = 0
               => /\ engine'.history[engine.inflight].result # "WAITING_FOR_STATE"
                  /\ \/ engine'.history[engine.inflight].resulting # None
                     \/ engine'.resync = engine.history[engine.inflight].epoch]_vars
  BY <1>3, <1>4
<1>6. QED
  BY <1>2, <1>5, PTL DEF Spec, OutcomesStand, NoLateSuccess, OutcomeNeverForgotten
=============================================================================
