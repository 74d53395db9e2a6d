------------------------ MODULE CommandEngineProofs ------------------------
(***************************************************************************)
(* Type correctness and the transaction safety of CommandEngine, for every *)
(* value of its constants.  The inductive invariant says of the engine     *)
(* that it is well-formed and that every ambiguous action is either of a   *)
(* past epoch or the reason of the present resynchronization.              *)
(*                                                                         *)
(* There is one lemma per method of the engine: what it does to any        *)
(* well-formed engine record.  They are combined over the steps of the     *)
(* event loop at the end.                                                  *)
(***************************************************************************)
EXTENDS CommandEngine, FiniteSetTheorems, SequenceTheorems, WellFoundedInduction, TLAPS

(* A nonempty finite set of naturals has a least element; CHOOSE finds it. *)
LEMMA LeastOfFinite ==
    ASSUME NEW n \in Nat, NEW S, S \subseteq 1..n, S # {}
    PROVE  \E i \in S : \A j \in S : i <= j
<1> DEFINE T == {1..i : i \in S}
           R == StrictSubsetOrdering(Nat)
<1>1. T \subseteq FiniteSubsetsOf(Nat)
  BY FS_Interval DEF FiniteSubsetsOf
<1>2. IsWellFoundedOn(R, FiniteSubsetsOf(Nat))
  BY FS_StrictSubsetOrderingWellFounded
<1> HIDE DEF R
<1>3. PICK x \in T : \A y \in T : <<y, x>> \notin R
  <2>1. T # {}
    OBVIOUS
  <2> HIDE DEF T
  <2>2. QED
    BY <1>1, <1>2, <2>1, WFMin
<1>4. PICK i \in S : x = 1..i
  OBVIOUS
<1>5. ASSUME NEW j \in S, j < i
      PROVE  FALSE
  <2>1. 1..j \in SUBSET Nat /\ 1..i \in SUBSET Nat /\ 1..j \subseteq 1..i /\ 1..j # 1..i
    BY <1>5
  <2>2. <<1..j, 1..i>> \in R
    BY <2>1 DEF R, StrictSubsetOrdering
  <2>3. QED
    BY <1>3, <1>4, <2>2
<1>6. \A j \in S : i <= j
  BY <1>5
<1>7. QED
  BY <1>6

(* Records with exactly their fields.                                      *)
IsItem(x) ==
    x = [ control |-> x.control, desired |-> x.desired, stage |-> x.stage, code |-> x.code,
          deadline |-> x.deadline, notBefore |-> x.notBefore ]

IsTransaction(x) ==
    x = [ intent |-> x.intent, control |-> x.control, desired |-> x.desired, code |-> x.code,
          epoch |-> x.epoch, sequence |-> x.sequence, starting |-> x.starting,
          expected |-> x.expected, sentAt |-> x.sentAt, result |-> x.result,
          resulting |-> x.resulting ]

HasStateFields(s) ==
    s = [ epoch |-> s.epoch, sequence |-> s.sequence, at |-> s.at, available |-> s.available,
          setup |-> s.setup, filters |-> s.filters, filtersAt |-> s.filtersAt,
          status |-> s.status ]

IsState(s) ==
    /\ HasStateFields(s)
    /\ s.epoch \in Nat /\ s.sequence \in Nat /\ s.at \in Nat /\ s.available \in BOOLEAN
    /\ s.available => s.epoch # 0

IsEngine(e) ==
    e = [ state |-> e.state, counter |-> e.counter, intents |-> e.intents,
          latest |-> e.latest, order |-> e.order, actions |-> e.actions,
          history |-> e.history, inflight |-> e.inflight, resync |-> e.resync,
          settling |-> e.settling ]

(* The goals: well-formed, and at most the newest of each control is open. *)
GoalsOK(e) ==
    /\ e.counter \in Nat
    /\ e.intents \in [1..e.counter -> Range(e.intents)]
    /\ \A id \in 1..e.counter : IsItem(e.intents[id]) /\ IntentOK(e.intents[id])
    /\ e.latest \in [Controls -> 0..e.counter]
    /\ \A c \in Controls : e.latest[c] # 0 => e.intents[e.latest[c]].control = c
    /\ \A id \in 1..e.counter : Open(e, id) => e.latest[e.intents[id].control] = id
    /\ e.order \in Seq(Controls)
    /\ Range(e.order) = {c \in Controls : e.latest[c] # 0}
    /\ e.actions \in [Controls -> 0..MaxActions]

(* The transactions: only the last may lack a verdict, no epoch is ahead   *)
(* of the observed one, and an ambiguous one is either of a past epoch or  *)
(* the reason of the present resynchronization.                            *)
IsHistory(h) == \E S : h \in Seq(S)

HistoryOK(e) ==
    /\ IsHistory(e.history)
    /\ \A i \in DOMAIN e.history : IsTransaction(e.history[i]) /\ TransactionOK(e, e.history[i])
    /\ e.inflight \in {0, Len(e.history)}
    /\ \A i \in DOMAIN e.history : e.history[i].result = "WAITING_FOR_STATE" <=> i = e.inflight

BarrierOK(e) ==
    /\ e.resync \in Nat
    /\ e.resync # 0 => e.inflight = 0
    /\ e.resync <= e.state.epoch
    /\ \A i \in DOMAIN e.history :
          /\ e.history[i].epoch \in 1..e.state.epoch
          /\ Ambiguous(e.history[i])
                => e.history[i].epoch < e.state.epoch \/ e.history[i].epoch = e.resync
    /\ \A i, j \in DOMAIN e.history :
          i < j /\ Ambiguous(e.history[i]) => e.history[i].epoch < e.history[j].epoch

EngineOK(e) ==
    IsEngine(e) /\ IsState(e.state) /\ GoalsOK(e) /\ HistoryOK(e) /\ BarrierOK(e)

-----------------------------------------------------------------------------
(* A method that only moves goals between stages.                          *)

Restaged(e, x) ==
    /\ IsEngine(x)
    /\ x.state = e.state /\ x.counter = e.counter /\ x.latest = e.latest
    /\ x.order = e.order /\ x.actions = e.actions /\ x.history = e.history
    /\ x.inflight = e.inflight /\ x.resync = e.resync /\ x.settling = e.settling
    /\ x.intents \in [1..e.counter -> Range(x.intents)]
    /\ \A id \in 1..e.counter :
          /\ IsItem(x.intents[id])
          /\ x.intents[id].control = e.intents[id].control
          /\ x.intents[id].desired = e.intents[id].desired
          /\ x.intents[id].deadline = e.intents[id].deadline
          /\ x.intents[id].notBefore = e.intents[id].notBefore
          /\ x.intents[id].stage \in Stages
          /\ e.intents[id].stage \in Terminal => x.intents[id] = e.intents[id]

(* Assigning an attribute leaves a record with the same attributes.        *)
LEMMA Assigned ==
    ASSUME NEW e, IsEngine(e), NEW v
    PROVE  /\ IsEngine([e EXCEPT !.state = v]) /\ IsEngine([e EXCEPT !.counter = v])
           /\ IsEngine([e EXCEPT !.intents = v]) /\ IsEngine([e EXCEPT !.latest = v])
           /\ IsEngine([e EXCEPT !.order = v]) /\ IsEngine([e EXCEPT !.actions = v])
           /\ IsEngine([e EXCEPT !.history = v]) /\ IsEngine([e EXCEPT !.inflight = v])
           /\ IsEngine([e EXCEPT !.resync = v]) /\ IsEngine([e EXCEPT !.settling = v])
<1>1. IsEngine([e EXCEPT !.state = v])
  BY SMTT(30) DEF IsEngine
<1>2. IsEngine([e EXCEPT !.counter = v])
  BY SMTT(30) DEF IsEngine
<1>3. IsEngine([e EXCEPT !.intents = v])
  BY SMTT(30) DEF IsEngine
<1>4. IsEngine([e EXCEPT !.latest = v])
  BY SMTT(30) DEF IsEngine
<1>5. IsEngine([e EXCEPT !.order = v])
  BY SMTT(30) DEF IsEngine
<1>6. IsEngine([e EXCEPT !.actions = v])
  BY SMTT(30) DEF IsEngine
<1>7. IsEngine([e EXCEPT !.history = v])
  BY SMTT(30) DEF IsEngine
<1>8. IsEngine([e EXCEPT !.inflight = v])
  BY SMTT(30) DEF IsEngine
<1>9. IsEngine([e EXCEPT !.resync = v])
  BY SMTT(30) DEF IsEngine
<1>10. IsEngine([e EXCEPT !.settling = v])
  BY SMTT(30) DEF IsEngine
<1>11. QED
  BY <1>1, <1>2, <1>3, <1>4, <1>5, <1>6, <1>7, <1>8, <1>9, <1>10

(* Assignments to the attributes the methods assign together.              *)
WithIntents(e, v) == [e EXCEPT !.intents = v]
WithHistory(e, h, i) == [e EXCEPT !.history = h, !.inflight = i]
WithBarrier(e, r, q) == [e EXCEPT !.resync = r, !.settling = q]
WithSettling(e, q) == [e EXCEPT !.settling = q]
WithState(e, s) == [e EXCEPT !.state = s]

WithGoals(e, n, v, l, o, a) ==
    [e EXCEPT !.counter = n, !.intents = v, !.latest = l, !.order = o, !.actions = a]

(* Assigning the attributes of the goals together leaves the others alone. *)
LEMMA GoalsAssigned ==
    ASSUME NEW e, IsEngine(e), NEW n, NEW v, NEW l, NEW o, NEW a
    PROVE  LET x == WithGoals(e, n, v, l, o, a)
           IN  /\ IsEngine(x) /\ x.counter = n /\ x.intents = v /\ x.latest = l
               /\ x.order = o /\ x.actions = a
               /\ x.state = e.state /\ x.history = e.history /\ x.inflight = e.inflight
               /\ x.resync = e.resync /\ x.settling = e.settling
<1> DEFINE x == WithGoals(e, n, v, l, o, a)
           x1 == [e EXCEPT !.counter = n]
           x2 == [x1 EXCEPT !.intents = v]
           x3 == [x2 EXCEPT !.latest = l]
           x4 == [x3 EXCEPT !.order = o]
<1>1. x = [x4 EXCEPT !.actions = a]
  BY SMTT(30) DEF IsEngine, WithGoals
<1>2. IsEngine(x1)
  BY Assigned
<1>3. IsEngine(x2)
  <2> HIDE DEF x1
  <2> QED BY <1>2, Assigned
<1>4. IsEngine(x3)
  <2> HIDE DEF x2
  <2> QED BY <1>3, Assigned
<1>5. IsEngine(x4)
  <2> HIDE DEF x3
  <2> QED BY <1>4, Assigned
<1>6. IsEngine(x)
  <2> HIDE DEF x4, x
  <2> QED BY <1>1, <1>5, Assigned
<1>7. /\ x.counter = n /\ x.intents = v /\ x.latest = l
      /\ x.order = o /\ x.actions = a
      /\ x.state = e.state /\ x.history = e.history /\ x.inflight = e.inflight
      /\ x.resync = e.resync /\ x.settling = e.settling
  BY DEF IsEngine, WithGoals
<1>8. QED
  BY <1>6, <1>7

(* Assigning the settling mark leaves the other attributes alone.          *)
LEMMA SettlingAssigned ==
    ASSUME NEW e, IsEngine(e), NEW q
    PROVE  LET x == WithSettling(e, q)
           IN  /\ IsEngine(x) /\ x.settling = q
               /\ x.state = e.state /\ x.counter = e.counter /\ x.latest = e.latest
               /\ x.order = e.order /\ x.actions = e.actions /\ x.intents = e.intents
               /\ x.history = e.history /\ x.inflight = e.inflight /\ x.resync = e.resync
  BY SMTT(30) DEF IsEngine, WithSettling

(* Assigning the intents leaves the other attributes alone.                *)
LEMMA IntentsAssigned ==
    ASSUME NEW e, IsEngine(e), NEW v
    PROVE  LET x == WithIntents(e, v)
           IN  /\ IsEngine(x) /\ x.intents = v
               /\ x.state = e.state /\ x.counter = e.counter /\ x.latest = e.latest
               /\ x.order = e.order /\ x.actions = e.actions /\ x.history = e.history
               /\ x.inflight = e.inflight /\ x.resync = e.resync /\ x.settling = e.settling
  BY DEF IsEngine, WithIntents

(* Assigning the history and its in-flight slot leaves the others alone.   *)
LEMMA HistoryAssigned ==
    ASSUME NEW e, IsEngine(e), NEW h, NEW i
    PROVE  LET x == WithHistory(e, h, i)
           IN  /\ IsEngine(x) /\ x.history = h /\ x.inflight = i
               /\ x.state = e.state /\ x.counter = e.counter /\ x.latest = e.latest
               /\ x.order = e.order /\ x.actions = e.actions /\ x.intents = e.intents
               /\ x.resync = e.resync /\ x.settling = e.settling
<1> DEFINE x == WithHistory(e, h, i)
<1>1. x = [[e EXCEPT !.history = h] EXCEPT !.inflight = i]
  BY DEF IsEngine, WithHistory
<1>2. IsEngine(x)
  <2> DEFINE y == [e EXCEPT !.history = h]
  <2>1. IsEngine(y)
    BY Assigned
  <2>2. x = [y EXCEPT !.inflight = i]
    BY <1>1
  <2> HIDE DEF x, y
  <2>3. QED
    BY <2>1, <2>2, Assigned
<1>3. /\ x.history = h /\ x.inflight = i
      /\ x.state = e.state /\ x.counter = e.counter /\ x.latest = e.latest
      /\ x.order = e.order /\ x.actions = e.actions /\ x.intents = e.intents
      /\ x.resync = e.resync /\ x.settling = e.settling
  BY DEF IsEngine, WithHistory
<1>4. QED
  BY <1>2, <1>3

(* Raising or lowering the resynchronization mark leaves the others alone. *)
LEMMA BarrierAssigned ==
    ASSUME NEW e, IsEngine(e), NEW r, NEW q
    PROVE  LET x == WithBarrier(e, r, q)
           IN  /\ IsEngine(x) /\ x.resync = r /\ x.settling = q
               /\ x.state = e.state /\ x.counter = e.counter /\ x.latest = e.latest
               /\ x.order = e.order /\ x.actions = e.actions /\ x.intents = e.intents
               /\ x.history = e.history /\ x.inflight = e.inflight
<1> DEFINE x == WithBarrier(e, r, q)
<1>1. x = [[e EXCEPT !.resync = r] EXCEPT !.settling = q]
  BY DEF IsEngine, WithBarrier
<1>2. IsEngine(x)
  <2> DEFINE y == [e EXCEPT !.resync = r]
  <2>1. IsEngine(y)
    BY Assigned
  <2>2. x = [y EXCEPT !.settling = q]
    BY <1>1
  <2> HIDE DEF x, y
  <2>3. QED
    BY <2>1, <2>2, Assigned
<1>3. /\ x.resync = r /\ x.settling = q
      /\ x.state = e.state /\ x.counter = e.counter /\ x.latest = e.latest
      /\ x.order = e.order /\ x.actions = e.actions /\ x.intents = e.intents
      /\ x.history = e.history /\ x.inflight = e.inflight
  BY DEF IsEngine, WithBarrier
<1>4. QED
  BY <1>2, <1>3

WithSend(e, h, i, a) == [e EXCEPT !.history = h, !.inflight = i, !.actions = a]

(* Recording a transmission leaves the other attributes alone.             *)
LEMMA SendAssigned ==
    ASSUME NEW e, IsEngine(e), NEW h, NEW i, NEW a
    PROVE  LET x == WithSend(e, h, i, a)
           IN  /\ IsEngine(x) /\ x.history = h /\ x.inflight = i /\ x.actions = a
               /\ x.state = e.state /\ x.counter = e.counter /\ x.latest = e.latest
               /\ x.order = e.order /\ x.intents = e.intents
               /\ x.resync = e.resync /\ x.settling = e.settling
<1> DEFINE x == WithSend(e, h, i, a)
           y == WithHistory(e, h, i)
<1>1. IsEngine(y)
  BY HistoryAssigned
<1>2. x = [y EXCEPT !.actions = a]
  BY SMTT(30) DEF IsEngine, WithSend, WithHistory
<1>3. IsEngine(x)
  <2> HIDE DEF x, y
  <2> QED BY <1>1, <1>2, Assigned
<1>4. /\ x.history = h /\ x.inflight = i /\ x.actions = a
      /\ x.state = e.state /\ x.counter = e.counter /\ x.latest = e.latest
      /\ x.order = e.order /\ x.intents = e.intents
      /\ x.resync = e.resync /\ x.settling = e.settling
  BY DEF IsEngine, WithSend
<1>5. QED
  BY <1>3, <1>4

(* Storing an observation leaves the other attributes alone.               *)
LEMMA StateAssigned ==
    ASSUME NEW e, IsEngine(e), NEW s
    PROVE  LET x == WithState(e, s)
           IN  /\ IsEngine(x) /\ x.state = s
               /\ x.resync = e.resync /\ x.settling = e.settling
               /\ x.counter = e.counter /\ x.latest = e.latest
               /\ x.order = e.order /\ x.actions = e.actions /\ x.intents = e.intents
               /\ x.history = e.history /\ x.inflight = e.inflight
<1>1. IsEngine(WithState(e, s))
  BY DEF IsEngine, WithState
<1>2. QED
  BY <1>1 DEF IsEngine, WithState

(* A function given by its values is a function into its own range.        *)
LEMMA FunctionOnItsRange ==
    ASSUME NEW f, NEW S, f = [y \in S |-> f[y]]
    PROVE  f \in [S -> Range(f)]
  BY DEF Range

(* Moving goals between stages disturbs neither goals nor transactions.    *)
LEMMA RestagedOK ==
    ASSUME NEW e, NEW x, EngineOK(e), Restaged(e, x)
    PROVE  EngineOK(x)
<1>1. GoalsOK(x)
  <2>1. \A id \in 1..x.counter : IsItem(x.intents[id]) /\ IntentOK(x.intents[id])
    BY DEF EngineOK, GoalsOK, Restaged, IntentOK
  <2>2. ASSUME NEW c \in Controls, x.latest[c] # 0
        PROVE  x.intents[x.latest[c]].control = c
    <3>1. e.latest[c] \in 1..e.counter /\ e.intents[e.latest[c]].control = c
      BY <2>2 DEF EngineOK, GoalsOK, Restaged
    <3>2. QED
      BY <3>1 DEF Restaged
  <2>3. \A id \in 1..x.counter : Open(x, id) => x.latest[x.intents[id].control] = id
    BY DEF EngineOK, GoalsOK, Restaged, Open
  <2>4. QED
    BY <2>1, <2>2, <2>3 DEF EngineOK, GoalsOK, Restaged
<1>2. HistoryOK(x)
  <2>1. \A i \in DOMAIN x.history : TransactionOK(x, x.history[i])
    <3>1. SUFFICES ASSUME NEW i \in DOMAIN e.history
                   PROVE  TransactionOK(x, e.history[i])
      BY DEF Restaged
    <3>2. TransactionOK(e, e.history[i])
      BY DEF EngineOK, HistoryOK
    <3>3. e.counter \in Nat
      BY DEF EngineOK, GoalsOK
    <3>4. QED
      BY <3>2, <3>3 DEF Restaged, TransactionOK
  <2>2. QED
    BY <2>1 DEF EngineOK, HistoryOK, Restaged
<1>3. BarrierOK(x)
  BY DEF EngineOK, BarrierOK, Restaged
<1>4. QED
  BY <1>1, <1>2, <1>3 DEF EngineOK, Restaged

(* Moving no goal is restaging.                                            *)
LEMMA NothingRestaged ==
    ASSUME NEW e, EngineOK(e)
    PROVE  Restaged(e, e)
  BY DEF Restaged, EngineOK, GoalsOK, IntentOK

(* Moving one goal to a stage is restaging when the goal was still open.   *)
LEMMA UpdateRestages ==
    ASSUME NEW e, EngineOK(e), NEW id \in 1..e.counter, Open(e, id), NEW stage \in Stages
    PROVE  Restaged(e, Update(e, id, stage))
<1> DEFINE x == Update(e, id, stage)
<1>1. /\ IsEngine(x) /\ x.intents = [e.intents EXCEPT ![id].stage = stage]
      /\ x.state = e.state /\ x.counter = e.counter /\ x.latest = e.latest
      /\ x.order = e.order /\ x.actions = e.actions /\ x.history = e.history
      /\ x.inflight = e.inflight /\ x.resync = e.resync /\ x.settling = e.settling
  BY DEF EngineOK, IsEngine, Update
<1>2. x.intents[id] = [e.intents[id] EXCEPT !.stage = stage]
  BY <1>1 DEF EngineOK, GoalsOK
<1>3. \A k \in 1..e.counter : k # id => x.intents[k] = e.intents[k]
  BY <1>1 DEF EngineOK, GoalsOK
<1>4. IsItem(x.intents[id]) /\ x.intents[id].stage = stage
      /\ x.intents[id].control = e.intents[id].control
      /\ x.intents[id].desired = e.intents[id].desired
      /\ x.intents[id].deadline = e.intents[id].deadline
      /\ x.intents[id].notBefore = e.intents[id].notBefore
  BY <1>2 DEF EngineOK, GoalsOK, IsItem
<1>5. x.intents \in [1..e.counter -> Range(x.intents)]
  BY <1>1 DEF EngineOK, GoalsOK, Range
<1>6. QED
  BY <1>1, <1>3, <1>4, <1>5 DEF Restaged, EngineOK, GoalsOK, IntentOK, Open

(* Moving several open goals to stages at once is restaging.               *)
LEMMA StagesAssigned ==
    ASSUME NEW e, EngineOK(e), NEW v,
           v = [id \in 1..e.counter |-> v[id]],
           \A id \in 1..e.counter :
              \/ v[id] = e.intents[id]
              \/ /\ Open(e, id)
                 /\ \E stage \in Stages : v[id] = [e.intents[id] EXCEPT !.stage = stage]
    PROVE  Restaged(e, WithIntents(e, v))
<1> DEFINE x == WithIntents(e, v)
<1>1. /\ IsEngine(x) /\ x.intents = v
      /\ x.state = e.state /\ x.counter = e.counter /\ x.latest = e.latest
      /\ x.order = e.order /\ x.actions = e.actions /\ x.history = e.history
      /\ x.inflight = e.inflight /\ x.resync = e.resync /\ x.settling = e.settling
  BY IntentsAssigned DEF EngineOK
<1> HIDE DEF x
<1>2. ASSUME NEW id \in 1..e.counter
      PROVE  /\ IsItem(v[id])
             /\ v[id].control = e.intents[id].control
             /\ v[id].desired = e.intents[id].desired
             /\ v[id].deadline = e.intents[id].deadline
             /\ v[id].notBefore = e.intents[id].notBefore
             /\ v[id].stage \in Stages
             /\ e.intents[id].stage \in Terminal => v[id] = e.intents[id]
  <2>1. IsItem(e.intents[id]) /\ e.intents[id].stage \in Stages
    BY DEF EngineOK, GoalsOK, IntentOK
  <2>2. CASE v[id] = e.intents[id]
    BY <2>1, <2>2
  <2>3. CASE Open(e, id) /\ \E stage \in Stages : v[id] = [e.intents[id] EXCEPT !.stage = stage]
    <3>1. PICK stage \in Stages : v[id] = [e.intents[id] EXCEPT !.stage = stage]
      BY <2>3
    <3>2. QED
      BY <2>1, <2>3, <3>1 DEF IsItem, Open
  <2>4. QED
    BY <2>2, <2>3
<1>3. v \in [1..e.counter -> Range(v)]
  BY FunctionOnItsRange
<1>4. /\ x.intents \in [1..e.counter -> Range(x.intents)]
      /\ \A id \in 1..e.counter : x.intents[id] = v[id]
  BY <1>1, <1>3
<1>5. Restaged(e, x)
  BY <1>1, <1>2, <1>4 DEF Restaged
<1>6. QED
  BY <1>5 DEF x

(* Deadlines only move open goals.                                         *)
LEMMA ExpiredRestages ==
    ASSUME NEW e, EngineOK(e), NEW t
    PROVE  Restaged(e, Expired(e, t))
<1> DEFINE v == [id \in 1..e.counter |->
                   IF Open(e, id) /\ Overdue(e.intents[id], t)
                   THEN [e.intents[id] EXCEPT !.stage = "FAILED"] ELSE e.intents[id]]
<1>1. \A id \in 1..e.counter :
         \/ v[id] = e.intents[id]
         \/ Open(e, id) /\ v[id] = [e.intents[id] EXCEPT !.stage = "FAILED"]
  OBVIOUS
<1>2. v = [id \in 1..e.counter |-> v[id]]
  OBVIOUS
<1>3. Expired(e, t) = WithIntents(e, v)
  BY DEF Expired, WithIntents
<1> HIDE DEF v
<1>4. Restaged(e, WithIntents(e, v))
  BY <1>1, <1>2, StagesAssigned DEF Stages
<1>5. QED
  BY <1>3, <1>4

-----------------------------------------------------------------------------
(* Giving the pending transaction its verdict.                             *)

Closed(e, x, result, value) ==
    /\ IsHistory(x.history) /\ Len(x.history) = Len(e.history)
    /\ \A i \in DOMAIN e.history : i # e.inflight => x.history[i] = e.history[i]
    /\ x.history[e.inflight] =
          [e.history[e.inflight] EXCEPT !.result = result, !.resulting = value]
    /\ x.inflight = 0

(* Changing one transaction keeps the length and the other transactions.   *)
LEMMA HistoryExcept ==
    ASSUME NEW h, IsHistory(h), NEW i \in DOMAIN h, NEW v
    PROVE  LET x == [h EXCEPT ![i] = v]
           IN  /\ IsHistory(x) /\ Len(x) = Len(h) /\ DOMAIN x = DOMAIN h
               /\ x[i] = v /\ \A j \in DOMAIN h : j # i => x[j] = h[j]
<1>1. PICK S : h \in Seq(S)
  BY DEF IsHistory
<1>2. h \in Seq(S \cup {v})
  BY <1>1, SeqMonotonic
<1>3. DOMAIN h = 1..Len(h) /\ Len(h) \in Nat
  BY <1>1, LenProperties
<1>4. [h EXCEPT ![i] = v] \in Seq(S \cup {v})
  BY <1>2, <1>3, ExceptSeq
<1>5. QED
  BY <1>1, <1>3, <1>4, LenProperties DEF IsHistory

(* A history is indexed from 1 to its length.                              *)
LEMMA HistoryDomain ==
    ASSUME NEW h, IsHistory(h)
    PROVE  DOMAIN h = 1..Len(h) /\ Len(h) \in Nat
  BY LenProperties DEF IsHistory

(* Complete writes the verdict of the in-flight transaction, empties the   *)
(* slot and changes nothing else.                                          *)
LEMMA CompleteCloses ==
    ASSUME NEW e, EngineOK(e), e.inflight # 0, NEW result, NEW value
    PROVE  LET x == Complete(e, result, value)
           IN  /\ IsEngine(x) /\ Closed(e, x, result, value)
               /\ x.state = e.state /\ x.counter = e.counter /\ x.latest = e.latest
               /\ x.order = e.order /\ x.actions = e.actions /\ x.intents = e.intents
               /\ x.resync = e.resync /\ x.settling = e.settling
<1> DEFINE x == Complete(e, result, value)
           p == [e.history[e.inflight] EXCEPT !.result = result, !.resulting = value]
<1>1. /\ IsEngine(x) /\ x.history = [e.history EXCEPT ![e.inflight] = p] /\ x.inflight = 0
      /\ x.state = e.state /\ x.counter = e.counter /\ x.latest = e.latest
      /\ x.order = e.order /\ x.actions = e.actions /\ x.intents = e.intents
      /\ x.resync = e.resync /\ x.settling = e.settling
  <2> DEFINE h == [e.history EXCEPT ![e.inflight] = p]
  <2>1. x = WithHistory(e, h, 0)
    BY DEF Complete, WithHistory
  <2> HIDE DEF x, h
  <2>2. /\ IsEngine(x) /\ x.history = h /\ x.inflight = 0
        /\ x.state = e.state /\ x.counter = e.counter /\ x.latest = e.latest
        /\ x.order = e.order /\ x.actions = e.actions /\ x.intents = e.intents
        /\ x.resync = e.resync /\ x.settling = e.settling
    BY <2>1, HistoryAssigned DEF EngineOK
  <2>3. QED
    BY <2>2 DEF h
<1>2. IsHistory(e.history) /\ e.inflight \in DOMAIN e.history
  BY HistoryDomain DEF EngineOK, HistoryOK
<1>3. /\ IsHistory(x.history) /\ Len(x.history) = Len(e.history)
      /\ x.history[e.inflight] = p
      /\ \A j \in DOMAIN e.history : j # e.inflight => x.history[j] = e.history[j]
  <2> DEFINE h == e.history
             i == e.inflight
             g == [h EXCEPT ![i] = p]
  <2> HIDE DEF p, x, h, i
  <2>1. IsHistory(h) /\ i \in DOMAIN h
    BY <1>2 DEF h, i
  <2>2. /\ IsHistory(g) /\ Len(g) = Len(h) /\ g[i] = p
        /\ \A j \in DOMAIN h : j # i => g[j] = h[j]
    BY <2>1, HistoryExcept
  <2>3. x.history = g
    BY <1>1 DEF h, i
  <2>4. QED
    BY <2>2, <2>3 DEF h, i
<1>4. Closed(e, x, result, value)
  BY <1>1, <1>3 DEF Closed
<1>5. QED
  BY <1>1, <1>4

(* A transaction with a verdict keeps the record of what was sent.         *)
LEMMA ClosedHistoryOK ==
    ASSUME NEW e, EngineOK(e), e.inflight # 0, NEW x, NEW value,
           NEW result \in {"VERIFIED", "FAILED", "CANCELLED"},
           Closed(e, x, result, value), x.counter = e.counter, x.intents = e.intents
    PROVE  /\ HistoryOK(x)
           /\ DOMAIN x.history = DOMAIN e.history
           /\ \A i \in DOMAIN e.history : x.history[i].epoch = e.history[i].epoch
           /\ x.history[e.inflight].result = result
           /\ x.history[e.inflight].resulting = value
<1>1. DOMAIN x.history = DOMAIN e.history /\ e.inflight \in DOMAIN e.history
  BY HistoryDomain DEF Closed, EngineOK, HistoryOK
<1>2. /\ IsTransaction(x.history[e.inflight])
      /\ x.history[e.inflight].intent = e.history[e.inflight].intent
      /\ x.history[e.inflight].control = e.history[e.inflight].control
      /\ x.history[e.inflight].epoch = e.history[e.inflight].epoch
      /\ x.history[e.inflight].sequence = e.history[e.inflight].sequence
      /\ x.history[e.inflight].sentAt = e.history[e.inflight].sentAt
      /\ x.history[e.inflight].result = result
      /\ x.history[e.inflight].resulting = value
  BY <1>1 DEF Closed, EngineOK, HistoryOK, IsTransaction
<1>3. ASSUME NEW i \in DOMAIN x.history
      PROVE  /\ IsTransaction(x.history[i]) /\ TransactionOK(x, x.history[i])
             /\ x.history[i].result = "WAITING_FOR_STATE" <=> i = x.inflight
  <2>1. IsTransaction(e.history[i]) /\ TransactionOK(e, e.history[i])
    BY <1>1 DEF EngineOK, HistoryOK
  <2>2. i # 0 /\ x.inflight = 0
    BY <1>1, HistoryDomain DEF Closed, EngineOK, HistoryOK
  <2>3. CASE i = e.inflight
    BY <1>2, <2>1, <2>2, <2>3 DEF TransactionOK
  <2>4. CASE i # e.inflight
    <3>1. x.history[i] = e.history[i] /\ e.history[i].result # "WAITING_FOR_STATE"
      BY <1>1, <2>4 DEF Closed, EngineOK, HistoryOK
    <3>2. QED
      BY <2>1, <2>2, <3>1 DEF TransactionOK
  <2>5. QED
    BY <2>3, <2>4
<1>5. HistoryOK(x)
  BY <1>3 DEF HistoryOK, Closed
<1>6. QED
  BY <1>1, <1>2, <1>5 DEF Closed

-----------------------------------------------------------------------------
(* What a method may do to goals and transactions it is not about.         *)

GoalsFinal(e, x) ==
    /\ e.counter <= x.counter
    /\ \A id \in 1..e.counter :
          e.intents[id].stage \in Terminal => x.intents[id] = e.intents[id]

SameGoals(e, x) ==
    /\ x.counter = e.counter /\ x.intents = e.intents /\ x.latest = e.latest
    /\ x.order = e.order /\ x.actions = e.actions

Kept(e, x) == x.history = e.history /\ x.inflight = e.inflight /\ x.resync = e.resync

Doubted(e, x) ==
    /\ e.inflight # 0 /\ x.inflight = 0
    /\ DOMAIN x.history = DOMAIN e.history /\ Len(x.history) = Len(e.history)
    /\ Ambiguous(x.history[e.inflight])
    /\ x.history[e.inflight].epoch = e.history[e.inflight].epoch
    /\ x.resync = e.history[e.inflight].epoch

(* Restaging never touches a goal that already ended.                      *)
LEMMA RestagedIsFinal ==
    ASSUME NEW e, NEW x, EngineOK(e), Restaged(e, x)
    PROVE  GoalsFinal(e, x) /\ Kept(e, x)
  BY DEF GoalsFinal, Kept, Restaged, EngineOK, GoalsOK

(* Finality of ended goals composes over the calls of one step.            *)
LEMMA GoalsFinalTransitive ==
    ASSUME NEW e, NEW x, NEW y, e.counter \in Nat, x.counter \in Nat, y.counter \in Nat,
           GoalsFinal(e, x), GoalsFinal(x, y)
    PROVE  GoalsFinal(e, y)
<1>1. e.counter <= y.counter
  BY DEF GoalsFinal
<1>2. ASSUME NEW id \in 1..e.counter, e.intents[id].stage \in Terminal
      PROVE  y.intents[id] = e.intents[id]
  <2>1. id \in 1..x.counter /\ x.intents[id] = e.intents[id]
    BY <1>2 DEF GoalsFinal
  <2>2. QED
    BY <1>2, <2>1 DEF GoalsFinal
<1>3. QED
  BY <1>1, <1>2 DEF GoalsFinal

(* GoalsOK only depends on the attributes of the goals.                    *)
LEMMA SameGoalsOK ==
    ASSUME NEW e, NEW x, EngineOK(e), SameGoals(e, x)
    PROVE  GoalsOK(x) /\ GoalsFinal(e, x)
  BY DEF EngineOK, GoalsOK, SameGoals, GoalsFinal, Open

(* A transaction given up in doubt raises the barrier of its epoch.        *)
LEMMA AbandonOK ==
    ASSUME NEW e, EngineOK(e), e.inflight # 0, NEW result \in {"FAILED", "CANCELLED"}
    PROVE  LET x == Abandon(e, result)
           IN  /\ EngineOK(x) /\ Doubted(e, x) /\ GoalsFinal(e, x)
               /\ x.state = e.state /\ x.counter = e.counter /\ x.latest = e.latest
               /\ x.order = e.order /\ x.actions = e.actions /\ x.settling = None
<1> DEFINE x == Abandon(e, result)
           pending == e.history[e.inflight]
           done == Complete(e, result, None)
           closed == [done EXCEPT !.resync = pending.epoch, !.settling = None]
<1>1. /\ IsEngine(done) /\ Closed(e, done, result, None)
      /\ done.state = e.state /\ SameGoals(e, done)
      /\ done.resync = e.resync /\ done.settling = e.settling
  BY CompleteCloses DEF SameGoals
<1>2. /\ HistoryOK(done) /\ DOMAIN done.history = DOMAIN e.history
      /\ \A i \in DOMAIN e.history : done.history[i].epoch = e.history[i].epoch
      /\ done.history[e.inflight].result = result
      /\ done.history[e.inflight].resulting = None
  BY <1>1, ClosedHistoryOK DEF SameGoals
<1>3. /\ IsEngine(closed) /\ closed.resync = pending.epoch /\ closed.settling = None
      /\ closed.state = e.state /\ SameGoals(e, closed)
      /\ closed.history = done.history /\ closed.inflight = 0
  <2>1. closed = WithBarrier(done, pending.epoch, None)
    BY DEF WithBarrier
  <2> HIDE DEF done, closed, pending
  <2>2. QED
    BY <1>1, <2>1, BarrierAssigned DEF Closed, SameGoals
<1> HIDE DEF done, closed
<1>4. e.inflight \in DOMAIN e.history /\ e.inflight = Len(e.history)
  BY HistoryDomain DEF EngineOK, HistoryOK
<1>5. BarrierOK(closed)
  <2>1. e.resync = 0
    BY DEF EngineOK, BarrierOK
  <2>2. pending.epoch \in 1..e.state.epoch /\ e.state.epoch \in Nat
    BY <1>4 DEF EngineOK, BarrierOK, IsState
  <2>3. ASSUME NEW i \in DOMAIN closed.history
        PROVE  /\ closed.history[i].epoch \in 1..closed.state.epoch
               /\ Ambiguous(closed.history[i])
                    => \/ closed.history[i].epoch < closed.state.epoch
                       \/ closed.history[i].epoch = closed.resync
    <3>1. i \in DOMAIN e.history /\ closed.history[i].epoch = e.history[i].epoch
      BY <1>2, <1>3
    <3>2. e.history[i].epoch \in 1..e.state.epoch
      BY <3>1 DEF EngineOK, BarrierOK
    <3>3. CASE i = e.inflight
      BY <1>3, <3>1, <3>2, <3>3
    <3>4. CASE i # e.inflight
      <4>1. closed.history[i] = e.history[i]
        BY <1>1, <1>3, <3>1, <3>4 DEF Closed
      <4>2. QED
        BY <1>3, <2>1, <3>1, <3>2, <4>1 DEF EngineOK, BarrierOK
    <3>5. QED
      BY <3>3, <3>4
  <2>4. ASSUME NEW i \in DOMAIN closed.history, NEW j \in DOMAIN closed.history,
               i < j, Ambiguous(closed.history[i])
        PROVE  closed.history[i].epoch < closed.history[j].epoch
    <3>1. i \in DOMAIN e.history /\ j \in DOMAIN e.history
      BY <1>2, <1>3
    <3>2. i # e.inflight
      BY <1>4, <2>4, <3>1, HistoryDomain DEF EngineOK, HistoryOK
    <3>3. closed.history[i] = e.history[i]
      BY <1>1, <1>3, <3>1, <3>2 DEF Closed
    <3>4. closed.history[j].epoch = e.history[j].epoch
      BY <1>2, <1>3, <3>1
    <3>5. QED
      BY <2>4, <3>1, <3>3, <3>4 DEF EngineOK, BarrierOK
  <2>5. QED
    BY <1>3, <2>2, <2>3, <2>4 DEF BarrierOK
<1>6. EngineOK(closed) /\ GoalsFinal(e, closed)
  <2>1. HistoryOK(closed)
    <3>1. /\ closed.counter = done.counter /\ closed.intents = done.intents
          /\ closed.inflight = done.inflight /\ closed.history = done.history
      BY <1>1, <1>3 DEF SameGoals, Closed
    <3>2. QED
      BY <1>2, <3>1 DEF HistoryOK, TransactionOK
  <2>2. QED
    BY <1>3, <1>5, <2>1, SameGoalsOK DEF EngineOK
<1>7. Doubted(e, closed)
  BY <1>1, <1>2, <1>3, <1>4 DEF Doubted, Ambiguous, Closed
<1>8. CASE ~Open(e, pending.intent)
  <2>1. x = closed
    BY <1>8 DEF Abandon, closed, done
  <2>2. QED
    BY <1>3, <1>6, <1>7, <2>1 DEF SameGoals
<1>9. CASE Open(e, pending.intent)
  <2>1. PICK stage \in {"FAILED", "QUEUED"} : x = Update(closed, pending.intent, stage)
    BY <1>9 DEF Abandon, closed, done
  <2>2. pending.intent \in 1..closed.counter /\ Open(closed, pending.intent)
    BY <1>3, <1>4, <1>9 DEF EngineOK, HistoryOK, TransactionOK, SameGoals, Open
  <2>3. Restaged(closed, x)
    BY <1>6, <2>1, <2>2, UpdateRestages DEF Stages
  <2>4. EngineOK(x) /\ GoalsFinal(closed, x)
    BY <1>6, <2>3, RestagedOK, RestagedIsFinal
  <2>5. GoalsFinal(e, x)
    BY <1>6, <2>4, GoalsFinalTransitive DEF EngineOK, GoalsOK
  <2>6. Doubted(e, x)
    BY <1>7, <2>3 DEF Doubted, Restaged
  <2>7. QED
    BY <1>3, <2>3, <2>4, <2>5, <2>6 DEF Restaged, SameGoals
<1>10. QED
  BY <1>8, <1>9

-----------------------------------------------------------------------------
(* tick and suspend.                                                       *)

(* Expiring goals past their deadline keeps a well-formed engine.          *)
LEMMA ExpiredOK ==
    ASSUME NEW e, EngineOK(e), NEW t
    PROVE  LET x == Expired(e, t)
           IN  /\ EngineOK(x) /\ Kept(e, x) /\ GoalsFinal(e, x)
               /\ x.state = e.state /\ x.counter = e.counter /\ x.latest = e.latest
               /\ x.order = e.order /\ x.actions = e.actions /\ x.settling = e.settling
  BY ExpiredRestages, RestagedOK, RestagedIsFinal DEF Restaged

(* tick keeps a well-formed engine and either leaves the transaction alone *)
(* or abandons it behind the barrier.                                      *)
LEMMA TickedOK ==
    ASSUME NEW e, EngineOK(e), NEW t
    PROVE  LET x == Ticked(e, t)
           IN  /\ EngineOK(x) /\ (Kept(e, x) \/ Doubted(e, x)) /\ GoalsFinal(e, x)
               /\ x.state = e.state /\ x.counter = e.counter /\ x.latest = e.latest
               /\ x.order = e.order /\ x.actions = e.actions
               /\ x.settling = e.settling \/ x.settling = None
               /\ Doubted(e, x) => x.settling = None
<1> DEFINE due == Expired(e, t)
           x == Ticked(e, t)
<1>1. /\ EngineOK(due) /\ Kept(e, due) /\ GoalsFinal(e, due)
      /\ due.state = e.state /\ due.counter = e.counter /\ due.latest = e.latest
      /\ due.order = e.order /\ due.actions = e.actions /\ due.settling = e.settling
  BY ExpiredOK
<1>2. x = due \/ (due.inflight # 0 /\ x = Abandon(due, "FAILED"))
  <2>1. due.inflight = e.inflight
    BY <1>1 DEF Kept
  <2> HIDE DEF due
  <2>2. QED
    BY <2>1 DEF Ticked, due
<1> HIDE DEF due, x
<1>3. CASE x = due
  BY <1>1, <1>3 DEF x, Kept, Doubted
<1>4. CASE due.inflight # 0 /\ x = Abandon(due, "FAILED")
  <2>1. /\ EngineOK(x) /\ Doubted(due, x) /\ GoalsFinal(due, x)
        /\ x.state = due.state /\ x.counter = due.counter /\ x.latest = due.latest
        /\ x.order = due.order /\ x.actions = due.actions /\ x.settling = None
    BY <1>1, <1>4, AbandonOK
  <2>2. Doubted(e, x)
    BY <1>1, <2>1 DEF Kept, Doubted
  <2>3. GoalsFinal(e, x)
    BY <1>1, <2>1, GoalsFinalTransitive DEF EngineOK, GoalsOK
  <2>4. QED
    BY <1>1, <2>1, <2>2, <2>3 DEF x
<1>5. QED
  BY <1>2, <1>3, <1>4

(* Replacing the observed state, whose epoch never goes back.              *)
LEMMA StateOK ==
    ASSUME NEW e, EngineOK(e), NEW s, IsState(s), e.state.epoch <= s.epoch
    PROVE  LET x == WithState(e, s)
           IN  EngineOK(x) /\ Kept(e, x) /\ SameGoals(e, x) /\ GoalsFinal(e, x)
<1> DEFINE x == WithState(e, s)
<1>1. /\ IsEngine(x) /\ x.state = s
      /\ x.resync = e.resync /\ x.settling = e.settling
      /\ SameGoals(e, x) /\ Kept(e, x)
  BY StateAssigned DEF EngineOK, SameGoals, Kept
<1> HIDE DEF x
<1>2. GoalsOK(x) /\ GoalsFinal(e, x)
  BY <1>1, SameGoalsOK
<1>3. HistoryOK(x)
  BY <1>1 DEF EngineOK, HistoryOK, TransactionOK, SameGoals, Kept
<1>4. BarrierOK(x)
  BY <1>1 DEF EngineOK, BarrierOK, IsState, Kept
<1>5. QED
  BY <1>1, <1>2, <1>3, <1>4 DEF EngineOK, x

(* Marking the state unavailable keeps it a state of the same epoch.       *)
LEMMA AvailabilityAssigned ==
    ASSUME NEW s, HasStateFields(s), NEW v
    PROVE  HasStateFields([s EXCEPT !.available = v])
  BY SMTT(30) DEF HasStateFields

(* suspend keeps a well-formed engine and turns a transaction in flight    *)
(* into a doubt, never into nothing.                                       *)
LEMMA SuspendedOK ==
    ASSUME NEW e, EngineOK(e)
    PROVE  LET x == Suspended(e)
           IN  /\ EngineOK(x) /\ (Kept(e, x) \/ Doubted(e, x)) /\ GoalsFinal(e, x)
               /\ Doubted(e, x) => x.settling = None
               /\ x.inflight = 0 /\ x.state.epoch = e.state.epoch
               /\ x.counter = e.counter /\ x.latest = e.latest
               /\ x.order = e.order /\ x.actions = e.actions
<1> DEFINE s == [e.state EXCEPT !.available = FALSE]
           blind == WithState(e, s)
           x == Suspended(e)
<1>1. IsState(s) /\ s.epoch = e.state.epoch /\ e.state.epoch \in Nat
  <2> DEFINE old == e.state
  <2>1. IsState(old)
    BY DEF EngineOK
  <2> HIDE DEF old
  <2> DEFINE new == [old EXCEPT !.available = FALSE]
  <2>2. new.epoch = old.epoch /\ new.sequence = old.sequence /\ new.at = old.at
    BY <2>1 DEF IsState, HasStateFields
  <2>3. new.available = FALSE
    BY <2>1 DEF IsState, HasStateFields
  <2>4. HasStateFields(new)
    BY <2>1, AvailabilityAssigned DEF IsState
  <2>5. IsState(new) /\ new.epoch = old.epoch /\ old.epoch \in Nat
    <3> HIDE DEF new
    <3>1. QED
      BY <2>1, <2>2, <2>3, <2>4 DEF IsState
  <2>6. QED
    BY <2>5 DEF old
<1>2. x = (IF e.inflight = 0 THEN blind ELSE Abandon(blind, "CANCELLED"))
  BY DEF Suspended, WithState
<1> HIDE DEF s
<1>3. /\ EngineOK(blind) /\ Kept(e, blind) /\ SameGoals(e, blind) /\ GoalsFinal(e, blind)
      /\ blind.state = s
  BY <1>1, StateOK, StateAssigned DEF EngineOK
<1> HIDE DEF blind, x
<1>4. CASE e.inflight = 0
  BY <1>1, <1>2, <1>3, <1>4 DEF Kept, Doubted, SameGoals, x
<1>5. CASE e.inflight # 0
  <2>1. blind.inflight # 0 /\ x = Abandon(blind, "CANCELLED")
    BY <1>2, <1>3, <1>5 DEF Kept
  <2>2. /\ EngineOK(x) /\ Doubted(blind, x) /\ GoalsFinal(blind, x)
        /\ x.state = blind.state /\ x.counter = blind.counter /\ x.latest = blind.latest
        /\ x.order = blind.order /\ x.actions = blind.actions /\ x.settling = None
    BY <1>3, <2>1, AbandonOK
  <2>3. Doubted(e, x) /\ x.inflight = 0
    BY <1>3, <2>2 DEF Kept, Doubted
  <2>4. GoalsFinal(e, x)
    BY <1>3, <2>2, GoalsFinalTransitive DEF EngineOK, GoalsOK
  <2>5. QED
    BY <1>1, <1>3, <2>2, <2>3, <2>4 DEF SameGoals, x
<1>6. QED
  BY <1>4, <1>5

-----------------------------------------------------------------------------
(* cancel and request.                                                     *)

(* cancel keeps a well-formed engine and leaves the transaction in flight. *)
LEMMA CancelledOK ==
    ASSUME NEW e, EngineOK(e), NEW c \in Controls
    PROVE  LET x == Cancelled(e, c)
           IN  /\ EngineOK(x) /\ Kept(e, x) /\ GoalsFinal(e, x) /\ x.state = e.state
               /\ Restaged(e, x)
<1>1. CASE ~Open(e, e.latest[c])
  <2>1. Cancelled(e, c) = e
    BY <1>1 DEF Cancelled
  <2>2. QED
    BY <2>1, NothingRestaged, RestagedIsFinal
<1>2. CASE Open(e, e.latest[c])
  <2>1. e.latest[c] \in 1..e.counter
    BY <1>2 DEF EngineOK, GoalsOK, Open
  <2>2. Restaged(e, Update(e, e.latest[c], "CANCELLED"))
    BY <1>2, <2>1, UpdateRestages DEF Stages
  <2>3. Cancelled(e, c) = Update(e, e.latest[c], "CANCELLED")
    BY <1>2 DEF Cancelled
  <2>4. QED
    BY <2>2, <2>3, RestagedOK, RestagedIsFinal DEF Restaged
<1>3. QED
  BY <1>1, <1>2

(* Appending a control adds exactly that control to the order.             *)
LEMMA RangeOfAppend ==
    ASSUME NEW S, NEW q \in Seq(S), NEW c \in S
    PROVE  Append(q, c) \in Seq(S) /\ Range(Append(q, c)) = Range(q) \cup {c}
<1>1. /\ Append(q, c) \in Seq(S) /\ DOMAIN Append(q, c) = 1..(Len(q) + 1)
      /\ \A i \in 1..Len(q) : Append(q, c)[i] = q[i]
      /\ Append(q, c)[Len(q) + 1] = c
      /\ DOMAIN q = 1..Len(q) /\ Len(q) \in Nat
  BY AppendProperties, LenProperties
<1>2. DOMAIN Append(q, c) = DOMAIN q \cup {Len(q) + 1}
  BY <1>1
<1>3. QED
  BY <1>1, <1>2 DEF Range

Admits(e, x, c) ==
    /\ Kept(e, x) /\ GoalsFinal(e, x) /\ x.state = e.state
    /\ x.settling = e.settling /\ x.counter = e.counter + 1
    /\ x.latest = [e.latest EXCEPT ![c] = e.counter + 1]
    /\ \A d \in Controls : d # c => x.actions[d] = e.actions[d]
    /\ \A id \in 1..e.counter : /\ x.intents[id].control = e.intents[id].control
                                /\ x.intents[id].desired = e.intents[id].desired
                                /\ x.intents[id].deadline = e.intents[id].deadline
                                /\ x.intents[id].stage = "VERIFIED" => e.intents[id].stage = "VERIFIED"

(* A new request replaces the goal of its control and no other.            *)
LEMMA AdmittedOK ==
    ASSUME NEW e, EngineOK(e), NEW c \in Controls, NEW desired, NEW deadline \in Nat,
           NEW defer \in Nat, NEW replace, now \in Nat
    PROVE  LET x == Admitted(e, c, desired, deadline, defer, replace)
           IN  /\ EngineOK(x) /\ Admits(e, x, c)
               /\ x.intents[x.counter].desired = desired
               /\ x.intents[x.counter].stage = "QUEUED"
<1> DEFINE x == Admitted(e, c, desired, deadline, defer, replace)
           previous == e.latest[c]
           inherits == Replacing(e, c, replace)
           item == [ control |-> c, desired |-> desired, stage |-> "QUEUED",
                     code |-> IF c = "ack_reminder" THEN Code(e.state.status) ELSE None,
                     deadline |-> IF inherits THEN e.intents[previous].deadline ELSE deadline,
                     notBefore |-> now + defer ]
           freed == Superseded(e, c)
           n == e.counter + 1
           v == [id \in 1..n |-> IF id = n THEN item ELSE freed.intents[id]]
           l == [e.latest EXCEPT ![c] = n]
           o == IF previous = 0 THEN Append(e.order, c) ELSE e.order
           a == [e.actions EXCEPT ![c] = IF inherits THEN e.actions[c] ELSE 0]
<1>1. /\ previous \in 0..e.counter /\ e.counter \in Nat
      /\ n \in Nat /\ n = e.counter + 1 /\ 1..e.counter = (1..n) \ {n}
  <2>1. e.counter \in Nat /\ e.latest \in [Controls -> 0..e.counter]
    BY DEF EngineOK, GoalsOK
  <2>2. \A m \in Nat : 1..m = (1..(m + 1)) \ {m + 1}
    OBVIOUS
  <2>3. QED
    BY <2>1, <2>2
<1>2. /\ EngineOK(freed) /\ Kept(e, freed) /\ GoalsFinal(e, freed) /\ freed.state = e.state
      /\ freed.counter = e.counter /\ freed.latest = e.latest /\ freed.order = e.order
      /\ freed.actions = e.actions /\ freed.settling = e.settling
      /\ \A id \in 1..e.counter : /\ freed.intents[id].control = e.intents[id].control
                                  /\ freed.intents[id].desired = e.intents[id].desired
                                  /\ freed.intents[id].deadline = e.intents[id].deadline
                                  /\ freed.intents[id].stage = "VERIFIED" => e.intents[id].stage = "VERIFIED"
      /\ ~Open(freed, previous)
  <2>1. CASE ~Open(e, previous)
    <3>1. freed = e
      BY <2>1 DEF Superseded
    <3> HIDE DEF freed
    <3>2. QED
      BY <2>1, <3>1 DEF Kept, GoalsFinal, EngineOK, GoalsOK
  <2>2. CASE Open(e, previous)
    <3>1. previous \in 1..e.counter
      BY <1>1, <2>2 DEF Open
    <3>2. Restaged(e, Update(e, previous, "SUPERSEDED"))
      BY <2>2, <3>1, UpdateRestages DEF Stages
    <3>3. freed = Update(e, previous, "SUPERSEDED")
      BY <2>2 DEF Superseded
    <3>4. /\ freed.intents[previous].stage = "SUPERSEDED"
          /\ \A id \in 1..e.counter : id # previous => freed.intents[id] = e.intents[id]
      <4>1. freed.intents = [e.intents EXCEPT ![previous].stage = "SUPERSEDED"]
        BY <3>3 DEF Update, EngineOK, IsEngine
      <4>2. e.intents[previous] = [e.intents[previous] EXCEPT !.stage = e.intents[previous].stage]
            /\ IsItem(e.intents[previous]) /\ previous \in DOMAIN e.intents
        BY <3>1 DEF EngineOK, GoalsOK, IsItem
      <4> HIDE DEF freed, previous
      <4>3. QED
        BY <4>1, <4>2 DEF IsItem
    <3> HIDE DEF freed, previous
    <3>5. QED
      BY <3>2, <3>3, <3>4, RestagedOK, RestagedIsFinal DEF Restaged, Open, Terminal
  <2>3. QED
    BY <2>1, <2>2
<1>3. x = WithGoals(freed, n, v, l, o, a)
  <2> HIDE DEF item, inherits
  <2>1. x = [freed EXCEPT !.counter = n, !.intents = v, !.latest[c] = n,
                          !.order = IF previous = 0 THEN Append(@, c) ELSE @,
                          !.actions[c] = IF inherits THEN @ ELSE 0]
    BY DEF Admitted, item, inherits
  <2> HIDE DEF x, v, freed, previous, n
  <2>2. QED
    BY <1>2, <2>1 DEF EngineOK, IsEngine, WithGoals
<1> HIDE DEF freed, x
<1>4. /\ IsEngine(x) /\ x.counter = n /\ x.intents = v /\ x.latest = l
      /\ x.order = o /\ x.actions = a
      /\ x.state = e.state /\ x.history = e.history /\ x.inflight = e.inflight
      /\ x.resync = e.resync /\ x.settling = e.settling
  <2> HIDE DEF n, v, l, o, a
  <2>1. QED
    BY <1>2, <1>3, GoalsAssigned DEF EngineOK, Kept
<1>5. /\ IsItem(item) /\ IntentOK(item) /\ item.control = c
      /\ item.desired = desired /\ item.stage = "QUEUED"
  <2>1. inherits => previous \in 1..e.counter
    BY <1>1 DEF Replacing, Open
  <2>2. inherits => e.intents[previous].deadline \in Nat
    BY <2>1 DEF EngineOK, GoalsOK, IntentOK
  <2> HIDE DEF inherits, previous
  <2>3. QED
    BY <2>2 DEF IsItem, IntentOK, Stages
<1> HIDE DEF item
<1>6. v[n] = item /\ \A id \in 1..e.counter : v[id] = freed.intents[id]
  BY <1>1
<1>7. v = [id \in 1..n |-> v[id]]
  OBVIOUS
<1> HIDE DEF v
<1>8. GoalsOK(x)
  <2>1. v \in [1..n -> Range(v)]
    BY <1>7, FunctionOnItsRange
  <2>2. \A id \in 1..n : IsItem(v[id]) /\ IntentOK(v[id])
    BY <1>1, <1>2, <1>5, <1>6 DEF EngineOK, GoalsOK
  <2>3. l \in [Controls -> 0..n] /\ l[c] = n /\ \A d \in Controls : d # c => l[d] = e.latest[d]
    BY <1>1 DEF EngineOK, GoalsOK
  <2>4. ASSUME NEW d \in Controls, l[d] # 0
        PROVE  v[l[d]].control = d
    <3>1. CASE d = c
      BY <1>5, <1>6, <2>3, <3>1
    <3>2. CASE d # c
      <4>1. e.latest[d] \in 1..e.counter /\ e.intents[e.latest[d]].control = d
        BY <2>3, <2>4, <3>2 DEF EngineOK, GoalsOK
      <4>2. QED
        BY <1>2, <1>6, <2>3, <3>2, <4>1
    <3>3. QED
      BY <3>1, <3>2
  <2>5. ASSUME NEW id \in 1..n, v[id].stage \notin Terminal
        PROVE  l[v[id].control] = id
    <3>1. CASE id = n
      BY <1>5, <1>6, <2>3, <3>1
    <3>2. CASE id # n
      <4>1. id \in 1..e.counter /\ v[id] = freed.intents[id]
        BY <1>1, <1>6, <3>2
      <4>2. Open(freed, id)
        BY <2>5, <4>1 DEF Open
      <4>3. freed.latest[v[id].control] = id /\ v[id].control \in Controls
        BY <1>2, <4>1, <4>2 DEF EngineOK, GoalsOK, IntentOK
      <4>4. v[id].control # c
        BY <1>2, <4>2, <4>3
      <4>5. QED
        BY <1>2, <2>3, <4>3, <4>4
    <3>3. QED
      BY <3>1, <3>2
  <2>6. o \in Seq(Controls) /\ Range(o) = {d \in Controls : l[d] # 0}
    <3>1. e.order \in Seq(Controls) /\ Range(e.order) = {d \in Controls : e.latest[d] # 0}
      BY DEF EngineOK, GoalsOK
    <3>2. {d \in Controls : l[d] # 0} = {d \in Controls : e.latest[d] # 0} \cup {c}
      BY <1>1, <2>3
    <3>3. CASE previous = 0
      BY <3>1, <3>2, <3>3, RangeOfAppend
    <3>4. CASE previous # 0
      BY <3>1, <3>2, <3>4
    <3>5. QED
      BY <3>3, <3>4
  <2>7. a \in [Controls -> 0..MaxActions]
    BY EngineParameters DEF EngineOK, GoalsOK
  <2> HIDE DEF l, o, a, n
  <2>8. QED
    BY <1>1, <1>4, <2>1, <2>2, <2>3, <2>4, <2>5, <2>6, <2>7 DEF GoalsOK, Open
<1>9. HistoryOK(x)
  <2>1. ASSUME NEW i \in DOMAIN e.history
        PROVE  TransactionOK(x, e.history[i])
    <3>1. TransactionOK(e, e.history[i])
      BY DEF EngineOK, HistoryOK
    <3>2. e.history[i].intent \in 1..e.counter /\ e.history[i].intent \in 1..n
      BY <1>1, <3>1 DEF TransactionOK
    <3>3. v[e.history[i].intent].control = e.intents[e.history[i].intent].control
      BY <1>2, <1>6, <3>2
    <3>4. QED
      BY <1>4, <3>1, <3>2, <3>3 DEF TransactionOK
  <2>2. QED
    BY <1>4, <2>1 DEF EngineOK, HistoryOK
<1>10. BarrierOK(x) /\ Kept(e, x)
  BY <1>4 DEF EngineOK, BarrierOK, Kept
<1>11. GoalsFinal(e, x)
  <2>1. e.counter <= x.counter
    BY <1>1, <1>4
  <2>2. ASSUME NEW id \in 1..e.counter, e.intents[id].stage \in Terminal
        PROVE  x.intents[id] = e.intents[id]
    BY <1>2, <1>4, <1>6, <2>2 DEF GoalsFinal
  <2>3. QED
    BY <2>1, <2>2 DEF GoalsFinal
<1>12. \A d \in Controls : d # c => x.actions[d] = e.actions[d]
  BY <1>4 DEF EngineOK, GoalsOK
<1>13. ASSUME NEW id \in 1..e.counter
       PROVE  /\ x.intents[id].control = e.intents[id].control
              /\ x.intents[id].desired = e.intents[id].desired
              /\ x.intents[id].deadline = e.intents[id].deadline
              /\ x.intents[id].stage = "VERIFIED" => e.intents[id].stage = "VERIFIED"
  BY <1>2, <1>4, <1>6
<1>14. x.intents[x.counter] = item
  BY <1>4, <1>6
<1>15. QED
  BY <1>4, <1>5, <1>8, <1>9, <1>10, <1>11, <1>12, <1>13, <1>14 DEF EngineOK, Admits, x

-----------------------------------------------------------------------------
(* observe.                                                                *)

Resolved(e, x) ==
    /\ e.inflight # 0 /\ x.inflight = 0 /\ x.resync = e.resync
    /\ DOMAIN x.history = DOMAIN e.history /\ Len(x.history) = Len(e.history)
    /\ ~Ambiguous(x.history[e.inflight])
    /\ x.history[e.inflight].epoch = e.history[e.inflight].epoch

Trusted(e, x) ==
    /\ e.inflight = 0 /\ e.resync # 0
    /\ x.history = e.history /\ x.inflight = 0 /\ x.resync = 0

(* Verification of goals moves open goals only and waits for the           *)
(* transaction in flight.                                                  *)
LEMMA VerifiedOK ==
    ASSUME NEW e, EngineOK(e), NEW s
    PROVE  LET x == Verified(e, s)
           IN  /\ EngineOK(x) /\ Kept(e, x) /\ GoalsFinal(e, x) /\ x.state = e.state
               /\ Restaged(e, x)
<1> DEFINE v == [id \in 1..e.counter |->
                   IF Reached(e, s, id) THEN [e.intents[id] EXCEPT !.stage = "VERIFIED"]
                   ELSE e.intents[id]]
<1>1. CASE e.inflight # 0
  <2>1. Verified(e, s) = e
    BY <1>1 DEF Verified
  <2>2. QED
    BY <2>1, NothingRestaged, RestagedIsFinal
<1>2. CASE e.inflight = 0
  <2>1. \A id \in 1..e.counter :
           \/ v[id] = e.intents[id]
           \/ Open(e, id) /\ v[id] = [e.intents[id] EXCEPT !.stage = "VERIFIED"]
    BY DEF Reached
  <2>2. v = [id \in 1..e.counter |-> v[id]]
    OBVIOUS
  <2>3. Verified(e, s) = WithIntents(e, v)
    BY <1>2 DEF Verified, WithIntents
  <2> HIDE DEF v
  <2>4. Restaged(e, WithIntents(e, v))
    BY <2>1, <2>2, StagesAssigned DEF Stages
  <2>5. QED
    BY <2>3, <2>4, RestagedOK, RestagedIsFinal DEF Restaged
<1>3. QED
  BY <1>1, <1>2

(* A confirmed transaction has a verdict that is not in doubt: a pump that *)
(* retained low speed fails its goal, but with the speed it was seen at.   *)
LEMMA ConfirmedOK ==
    ASSUME NEW e, EngineOK(e), NEW s
    PROVE  LET x == Confirmed(e, s)
           IN  /\ EngineOK(x) /\ (Kept(e, x) \/ Resolved(e, x)) /\ GoalsFinal(e, x)
               /\ x.state = e.state
<1> DEFINE x == Confirmed(e, s)
           action == e.history[e.inflight]
           verdict == IF RetainedLow(action, s) THEN "FAILED" ELSE "VERIFIED"
           value == Value(s, action.control)
           done == Complete(e, verdict, value)
<1>1. CASE e.inflight = 0 \/ ~Confirms(action, s)
  <2>1. x = e
    BY <1>1 DEF Confirmed
  <2> HIDE DEF x
  <2>2. Kept(e, x) /\ GoalsFinal(e, x)
    BY <2>1 DEF Kept, GoalsFinal, EngineOK, GoalsOK
  <2>3. QED
    BY <2>1, <2>2 DEF x
<1>2. CASE e.inflight # 0 /\ Confirms(action, s)
  <2>1. verdict \in {"VERIFIED", "FAILED", "CANCELLED"}
    OBVIOUS
  <2>2. verdict = "FAILED" => value # None
    BY NoneIsNoValue DEF RetainedLow
  <2>3. \/ x = done
        \/ Open(e, action.intent) /\ x = Update(done, action.intent, verdict)
    BY <1>2 DEF Confirmed
  <2> HIDE DEF verdict, value, x
  <2>4. /\ IsEngine(done) /\ Closed(e, done, verdict, value)
        /\ done.state = e.state /\ SameGoals(e, done)
        /\ done.resync = e.resync /\ done.settling = e.settling
    BY <1>2, CompleteCloses DEF SameGoals
  <2> HIDE DEF done
  <2>5. /\ HistoryOK(done) /\ DOMAIN done.history = DOMAIN e.history
        /\ \A i \in DOMAIN e.history : done.history[i].epoch = e.history[i].epoch
        /\ done.history[e.inflight].result = verdict
        /\ done.history[e.inflight].resulting = value
    BY <1>2, <2>1, <2>4, ClosedHistoryOK DEF SameGoals
  <2>6. ~Ambiguous(done.history[e.inflight])
    BY <2>1, <2>2, <2>5 DEF Ambiguous, verdict
  <2>7. BarrierOK(done)
    <3>1. \A i \in DOMAIN e.history : i # e.inflight => done.history[i] = e.history[i]
      BY <2>4 DEF Closed
    <3>2. \A i \in DOMAIN e.history : Ambiguous(done.history[i]) => done.history[i] = e.history[i]
      BY <2>6, <3>1
    <3>3. done.inflight = 0
      BY <2>4 DEF Closed
    <3>4. QED
      BY <2>4, <2>5, <3>2, <3>3 DEF EngineOK, BarrierOK
  <2>8. EngineOK(done) /\ GoalsFinal(e, done)
    BY <2>4, <2>5, <2>7, SameGoalsOK DEF EngineOK
  <2>9. Resolved(e, done)
    <3>1. e.inflight \in DOMAIN e.history
      BY <1>2, HistoryDomain DEF EngineOK, HistoryOK
    <3>2. QED
      BY <1>2, <2>4, <2>5, <2>6, <3>1 DEF Resolved, Closed
  <2>10. CASE x = done
    BY <2>4, <2>8, <2>9, <2>10 DEF x
  <2>11. CASE Open(e, action.intent) /\ x = Update(done, action.intent, verdict)
    <3>1. action.intent \in 1..done.counter /\ Open(done, action.intent)
      <4>1. e.inflight \in DOMAIN e.history
        BY <1>2, HistoryDomain DEF EngineOK, HistoryOK
      <4>2. QED
        BY <2>4, <2>11, <4>1 DEF EngineOK, HistoryOK, TransactionOK, SameGoals, Open
    <3>2. Restaged(done, x)
      BY <2>1, <2>8, <2>11, <3>1, UpdateRestages DEF Stages
    <3>3. EngineOK(x) /\ GoalsFinal(done, x)
      BY <2>8, <3>2, RestagedOK, RestagedIsFinal
    <3>4. GoalsFinal(e, x)
      BY <2>8, <3>3, GoalsFinalTransitive DEF EngineOK, GoalsOK
    <3>5. Resolved(e, x) /\ x.state = e.state
      BY <2>4, <2>9, <3>2 DEF Resolved, Restaged
    <3>6. QED
      BY <3>3, <3>4, <3>5 DEF x
  <2>12. QED
    BY <2>3, <2>10, <2>11
<1>3. QED
  BY <1>1, <1>2

(* Confirmation followed by verification is one step of the barrier at     *)
(* most.                                                                   *)
LEMMA JudgedOK ==
    ASSUME NEW e, EngineOK(e), NEW s
    PROVE  LET x == Verified(Confirmed(e, s), s)
           IN  /\ EngineOK(x) /\ (Kept(e, x) \/ Resolved(e, x)) /\ GoalsFinal(e, x)
               /\ x.state = e.state
<1> DEFINE y == Confirmed(e, s)
           x == Verified(y, s)
<1>1. /\ EngineOK(y) /\ (Kept(e, y) \/ Resolved(e, y)) /\ GoalsFinal(e, y)
      /\ y.state = e.state
  BY ConfirmedOK
<1> HIDE DEF y
<1>2. EngineOK(x) /\ Kept(y, x) /\ GoalsFinal(y, x) /\ x.state = y.state
  BY <1>1, VerifiedOK
<1> HIDE DEF x
<1>3. GoalsFinal(e, x)
  BY <1>1, <1>2, GoalsFinalTransitive DEF EngineOK, GoalsOK
<1>4. Kept(e, x) \/ Resolved(e, x)
  BY <1>1, <1>2 DEF Kept, Resolved
<1>5. QED
  BY <1>1, <1>2, <1>3, <1>4 DEF x, y

(* An observation resolves, doubts or leaves the transaction, or ends the  *)
(* resynchronization, and it does one of these at a time.                  *)
LEMMA ObservedOK ==
    ASSUME NEW e, EngineOK(e), NEW s, IsState(s), NEW t
    PROVE  LET x == Observed(e, s, t)
           IN  /\ EngineOK(x) /\ GoalsFinal(e, x)
               /\ Kept(e, x) \/ Doubted(e, x) \/ Resolved(e, x) \/ Trusted(e, x)
<1> DEFINE x == Observed(e, s, t)
           known == IF e.state.epoch # 0 /\ e.state.epoch # s.epoch THEN Suspended(e) ELSE e
           aged == Ticked(known, t)
           seen == WithState(aged, s)
           trusted == WithBarrier(seen, 0, None)
<1>1. CASE Outdated(e, s)
  BY <1>1 DEF Observed, Kept, GoalsFinal, EngineOK, GoalsOK
<1>2. CASE ~Outdated(e, s)
  <2>1. /\ seen.resync = 0 => x = Verified(Confirmed(seen, s), s)
        /\ seen.resync # 0 =>
              \/ x = seen \/ x = Restart(seen, s)
              \/ /\ Comparable(seen, s) /\ Steady(seen, s)
                 /\ x = Verified(Confirmed(trusted, s), s)
    BY <1>2 DEF Observed, WithState, WithBarrier
  <2>2. e.state.epoch <= s.epoch /\ e.state.epoch \in Nat /\ s.epoch \in Nat
    BY <1>2 DEF Outdated, EngineOK, IsState
  <2> HIDE DEF x
  <2>3. /\ EngineOK(known) /\ (Kept(e, known) \/ Doubted(e, known)) /\ GoalsFinal(e, known)
        /\ Doubted(e, known) => known.settling = None
        /\ known.state.epoch = e.state.epoch
    <3>1. Kept(e, e) /\ GoalsFinal(e, e) /\ ~Doubted(e, e)
      BY DEF Kept, GoalsFinal, Doubted, EngineOK, GoalsOK
    <3>2. QED
      BY <3>1, SuspendedOK
  <2> HIDE DEF known
  <2>4. /\ EngineOK(aged) /\ (Kept(known, aged) \/ Doubted(known, aged))
        /\ GoalsFinal(known, aged) /\ aged.state = known.state
        /\ aged.settling = known.settling \/ aged.settling = None
        /\ Doubted(known, aged) => aged.settling = None
    BY <2>3, TickedOK
  <2> HIDE DEF aged
  <2>5. /\ EngineOK(seen) /\ Kept(aged, seen) /\ GoalsFinal(aged, seen)
        /\ seen.state = s /\ seen.settling = aged.settling
    BY <2>2, <2>3, <2>4, StateOK, StateAssigned DEF EngineOK
  <2> HIDE DEF seen
  <2>6. GoalsFinal(e, seen)
    <3>1. GoalsFinal(e, aged)
      BY <2>3, <2>4, GoalsFinalTransitive DEF EngineOK, GoalsOK
    <3>2. QED
      BY <2>4, <2>5, <3>1, GoalsFinalTransitive DEF EngineOK, GoalsOK
  <2>7. /\ Kept(e, seen) \/ Doubted(e, seen)
        /\ Doubted(e, seen) => seen.settling = None
    <3>1. /\ Kept(e, aged) \/ Doubted(e, aged)
          /\ Doubted(e, aged) => aged.settling = None
      BY <2>3, <2>4 DEF Kept, Doubted
    <3>2. QED
      BY <2>5, <3>1 DEF Kept, Doubted
  <2>8. Doubted(e, seen) => seen.resync # 0
    <3>1. e.inflight # 0 => e.history[e.inflight].epoch \in 1..e.state.epoch
      BY HistoryDomain DEF EngineOK, HistoryOK, BarrierOK
    <3>2. QED
      BY <2>2, <3>1 DEF Doubted
  <2>9. CASE seen.resync = 0
    <3>1. /\ EngineOK(x) /\ (Kept(seen, x) \/ Resolved(seen, x)) /\ GoalsFinal(seen, x)
      BY <2>1, <2>5, <2>9, JudgedOK
    <3>2. Kept(e, seen)
      BY <2>7, <2>8, <2>9
    <3>3. Kept(e, x) \/ Resolved(e, x)
      BY <3>1, <3>2 DEF Kept, Resolved
    <3>4. GoalsFinal(e, x)
      BY <2>5, <2>6, <3>1, GoalsFinalTransitive DEF EngineOK, GoalsOK
    <3>5. QED
      BY <3>1, <3>3, <3>4 DEF x
  <2>10. CASE x = seen
    BY <2>5, <2>6, <2>7, <2>10 DEF x
  <2>11. CASE x = Restart(seen, s)
    <3>1. PICK q : x = WithSettling(seen, q)
      BY <2>11 DEF Restart, WithSettling
    <3>2. /\ IsEngine(x) /\ x.state = seen.state /\ SameGoals(seen, x) /\ Kept(seen, x)
      BY <2>5, <3>1, SettlingAssigned DEF EngineOK, SameGoals, Kept
    <3>3. GoalsOK(x) /\ GoalsFinal(seen, x)
      BY <2>5, <3>2, SameGoalsOK
    <3>4. HistoryOK(x) /\ BarrierOK(x)
      BY <2>5, <3>2 DEF EngineOK, HistoryOK, TransactionOK, BarrierOK, SameGoals, Kept
    <3>5. EngineOK(x)
      BY <2>5, <3>2, <3>3, <3>4 DEF EngineOK
    <3>6. GoalsFinal(e, x)
      BY <2>5, <2>6, <3>3, <3>5, GoalsFinalTransitive DEF EngineOK, GoalsOK
    <3>7. Kept(e, x) \/ Doubted(e, x)
      BY <2>7, <3>2 DEF Kept, Doubted
    <3>8. QED
      BY <3>5, <3>6, <3>7 DEF x
  <2>12. CASE /\ seen.resync # 0 /\ Comparable(seen, s) /\ Steady(seen, s)
              /\ x = Verified(Confirmed(trusted, s), s)
    <3>1. Kept(e, seen) /\ e.inflight = 0 /\ e.resync # 0
      BY <2>7, <2>12 DEF Steady, Kept, EngineOK, BarrierOK
    <3>2. /\ IsEngine(trusted) /\ trusted.state = s /\ SameGoals(seen, trusted)
          /\ trusted.history = seen.history /\ trusted.inflight = seen.inflight
          /\ trusted.resync = 0
      BY <2>5, BarrierAssigned DEF EngineOK, SameGoals
    <3> HIDE DEF trusted
    <3>3. GoalsOK(trusted) /\ GoalsFinal(seen, trusted)
      BY <2>5, <3>2, SameGoalsOK
    <3>4. HistoryOK(trusted)
      BY <2>5, <3>2 DEF EngineOK, HistoryOK, TransactionOK, SameGoals
    <3>5. BarrierOK(trusted)
      <4>1. seen.resync < s.epoch
        BY <2>2, <2>5, <2>12 DEF Comparable, EngineOK, BarrierOK
      <4>2. QED
        BY <2>2, <2>5, <3>2, <4>1 DEF EngineOK, BarrierOK
    <3>6. EngineOK(trusted)
      BY <2>5, <3>2, <3>3, <3>4, <3>5 DEF EngineOK
    <3>7. /\ EngineOK(x) /\ (Kept(trusted, x) \/ Resolved(trusted, x))
          /\ GoalsFinal(trusted, x)
      BY <2>12, <3>6, JudgedOK
    <3>8. Trusted(e, x)
      BY <3>1, <3>2, <3>7 DEF Kept, Resolved, Trusted
    <3>9. GoalsFinal(seen, x)
      BY <2>5, <3>3, <3>6, <3>7, GoalsFinalTransitive DEF EngineOK, GoalsOK
    <3>10. GoalsFinal(e, x)
      BY <2>5, <2>6, <3>7, <3>9, GoalsFinalTransitive DEF EngineOK, GoalsOK
    <3>11. QED
      BY <3>7, <3>8, <3>10 DEF x
  <2>13. QED
    BY <2>1, <2>9, <2>10, <2>11, <2>12
<1>3. QED
  BY <1>1, <1>2

-----------------------------------------------------------------------------
(* next_action and sent.                                                   *)

(* A goal that the walk moves was open, and one it offers has budget left. *)
LEMMA VerdictOK ==
    ASSUME NEW e, EngineOK(e), NEW c \in Controls
    PROVE  /\ Verdict(e, c) # "pass" => Open(e, e.latest[c]) /\ Verdict(e, c) \in Stages
           /\ Verdict(e, c) = "WAITING_FOR_BUS" => e.actions[c] < MaxActions
<1>1. e.actions[c] \in Nat /\ MaxActions \in Nat
  BY EngineParameters DEF EngineOK, GoalsOK
<1>2. Verdict(e, c) # "pass" => Open(e, e.latest[c])
  BY DEF Verdict
<1>3. Verdict(e, c) \in {"pass", "CANCELLED", "VERIFIED", "FAILED", "WAITING_FOR_BUS"}
  BY DEF Verdict
<1>4. Verdict(e, c) = "WAITING_FOR_BUS" => ~(e.actions[c] >= MaxActions)
  BY DEF Verdict
<1>5. QED
  BY <1>1, <1>2, <1>3, <1>4 DEF Stages

(* The walk of next_action only moves goals between stages.                *)
LEMMA WalkOK ==
    ASSUME NEW e, EngineOK(e)
    PROVE  LET x == Walk(e)
           IN  /\ EngineOK(x) /\ Kept(e, x) /\ GoalsFinal(e, x) /\ x.state = e.state
               /\ Restaged(e, x)
<1> DEFINE moved(id) ==
             /\ id = e.latest[e.intents[id].control]
             /\ e.intents[id].control \in Walked(e)
             /\ Verdict(e, e.intents[id].control) # "pass"
           v == [id \in 1..e.counter |->
                   IF moved(id)
                   THEN [e.intents[id] EXCEPT !.stage = Verdict(e, e.intents[id].control)]
                   ELSE e.intents[id]]
<1>1. ASSUME NEW id \in 1..e.counter
      PROVE  \/ v[id] = e.intents[id]
             \/ /\ Open(e, id)
                /\ \E stage \in Stages : v[id] = [e.intents[id] EXCEPT !.stage = stage]
  <2>1. e.intents[id].control \in Controls
    BY DEF EngineOK, GoalsOK, IntentOK
  <2>2. moved(id) => Open(e, id) /\ Verdict(e, e.intents[id].control) \in Stages
    BY <2>1, VerdictOK
  <2>3. v[id] = IF moved(id)
                THEN [e.intents[id] EXCEPT !.stage = Verdict(e, e.intents[id].control)]
                ELSE e.intents[id]
    OBVIOUS
  <2> HIDE DEF v, moved
  <2>4. QED
    BY <2>2, <2>3
<1>2. v = [id \in 1..e.counter |-> v[id]]
  OBVIOUS
<1>3. Walk(e) = WithIntents(e, v)
  BY DEF Walk, WithIntents
<1> HIDE DEF v
<1>4. Restaged(e, WithIntents(e, v))
  BY <1>1, <1>2, StagesAssigned
<1>5. QED
  BY <1>3, <1>4, RestagedOK, RestagedIsFinal DEF Restaged

(* next_action keeps a well-formed engine; it can abandon a transaction by *)
(* its tick but never starts one.                                          *)
LEMMA PreparedOK ==
    ASSUME NEW e, EngineOK(e)
    PROVE  LET x == Prepared(e)
           IN  /\ EngineOK(x) /\ (Kept(e, x) \/ Doubted(e, x)) /\ GoalsFinal(e, x)
               /\ x.state = e.state
               /\ Ready(Ticked(e, now)) =>
                     Kept(e, x) /\ x.inflight = 0 /\ x.resync = 0
               /\ x.latest = Ticked(e, now).latest /\ x.actions = Ticked(e, now).actions
<1> DEFINE due == Ticked(e, now)
           x == Prepared(e)
<1>1. /\ EngineOK(due) /\ (Kept(e, due) \/ Doubted(e, due)) /\ GoalsFinal(e, due)
      /\ due.state = e.state
  BY TickedOK
<1>2. x = (IF Ready(due) THEN Walk(due) ELSE due)
  BY DEF Prepared
<1>3. Doubted(e, due) => due.resync # 0
  <2>1. e.inflight # 0 => e.history[e.inflight].epoch \in 1..e.state.epoch
    BY HistoryDomain DEF EngineOK, HistoryOK, BarrierOK
  <2>2. QED
    BY <1>1, <2>1 DEF Doubted, EngineOK, IsState
<1> HIDE DEF due, x
<1>4. CASE ~Ready(due)
  BY <1>1, <1>2, <1>4 DEF x, due
<1>5. CASE Ready(due)
  <2>1. /\ EngineOK(x) /\ Kept(due, x) /\ GoalsFinal(due, x) /\ x.state = due.state
        /\ x.latest = due.latest /\ x.actions = due.actions
    BY <1>1, <1>2, <1>5, WalkOK DEF Restaged
  <2>2. Kept(e, x) /\ x.inflight = 0 /\ x.resync = 0
    BY <1>1, <1>3, <1>5, <2>1 DEF Kept, Ready
  <2>3. GoalsFinal(e, x)
    BY <1>1, <2>1, GoalsFinalTransitive DEF EngineOK, GoalsOK
  <2>4. QED
    BY <1>1, <2>1, <2>2, <2>3 DEF x, due
<1>6. QED
  BY <1>4, <1>5

(* The offer is for the newest goal of a control, from the present state.  *)
LEMMA OfferOK ==
    ASSUME NEW e, EngineOK(e), Offers(e)
    PROVE  LET action == Offer(e)
               p == Prepared(e)
           IN  /\ action.control \in Controls
               /\ action.intent = p.latest[action.control]
               /\ action.epoch = e.state.epoch /\ action.sequence = e.state.sequence
               /\ e.state.epoch # 0 /\ action.intent # 0
               /\ p.actions[action.control] < MaxActions
<1> DEFINE due == Ticked(e, now)
           action == Offer(e)
<1>1. EngineOK(due) /\ due.state = e.state
  BY TickedOK
<1>2. /\ Prepared(e).latest = due.latest /\ Prepared(e).actions = due.actions
  BY PreparedOK
<1>3. Ready(due) /\ Transmittable(due) # {}
  BY DEF Offers
<1>4. /\ action.control = due.order[Chosen(due)]
      /\ action.intent = due.latest[action.control]
      /\ action.epoch = due.state.epoch /\ action.sequence = due.state.sequence
  BY DEF Offer
<1> HIDE DEF due, action
<1>5. due.order \in Seq(Controls) /\ Transmittable(due) \subseteq 1..Len(due.order)
  <2>1. due.order \in Seq(Controls)
    BY <1>1 DEF EngineOK, GoalsOK
  <2>2. DOMAIN due.order = 1..Len(due.order)
    BY <2>1, LenProperties
  <2>3. QED
    BY <2>1, <2>2 DEF Transmittable
<1>6. Chosen(due) \in Transmittable(due)
  BY <1>3, <1>5, LeastOfFinite, LenProperties DEF Chosen
<1>7. Chosen(due) \in 1..Len(due.order) /\ Verdict(due, due.order[Chosen(due)]) = "WAITING_FOR_BUS"
  BY <1>5, <1>6 DEF Transmittable
<1>8. action.control \in Controls
  BY <1>4, <1>5, <1>7, ElementOfSeq
<1>9. due.actions[action.control] < MaxActions /\ action.intent # 0
  BY <1>1, <1>4, <1>7, <1>8, VerdictOK DEF Open
<1>10. e.state.epoch # 0
  BY <1>1, <1>3 DEF Ready, EngineOK, IsState
<1>11. QED
  BY <1>1, <1>2, <1>4, <1>8, <1>9, <1>10 DEF action

Started(e, x) ==
    /\ e.inflight = 0 /\ e.resync = 0 /\ x.resync = 0
    /\ Len(x.history) = Len(e.history) + 1 /\ x.inflight = Len(x.history)
    /\ \A i \in DOMAIN e.history : x.history[i] = e.history[i]
    /\ ~Ambiguous(x.history[x.inflight])
    /\ x.history[x.inflight].epoch = e.state.epoch

(* Appending a transaction keeps the earlier ones and their places.        *)
LEMMA HistoryAppend ==
    ASSUME NEW h, IsHistory(h), NEW v
    PROVE  LET x == Append(h, v)
           IN  /\ IsHistory(x) /\ Len(x) = Len(h) + 1 /\ DOMAIN x = 1..(Len(h) + 1)
               /\ x[Len(h) + 1] = v /\ \A j \in DOMAIN h : x[j] = h[j]
<1>1. PICK S : h \in Seq(S)
  BY DEF IsHistory
<1>2. h \in Seq(S \cup {v})
  BY <1>1, SeqMonotonic
<1>3. DOMAIN h = 1..Len(h) /\ Len(h) \in Nat
  BY <1>1, LenProperties
<1>4. /\ Append(h, v) \in Seq(S \cup {v}) /\ Len(Append(h, v)) = Len(h) + 1
      /\ Append(h, v)[Len(h) + 1] = v
      /\ \A j \in 1..Len(h) : Append(h, v)[j] = h[j]
  BY <1>2, AppendProperties
<1>5. DOMAIN Append(h, v) = 1..(Len(h) + 1)
  BY <1>4, LenProperties
<1>6. QED
  BY <1>3, <1>4, <1>5 DEF IsHistory

(* What sent does before it ticks.                                         *)
Recorded(e, action, at) ==
    [Update(e, action.intent, "WAITING_FOR_STATE") EXCEPT
        !.history = Append(@, Pending(action, at)),
        !.inflight = Len(e.history) + 1,
        !.actions[action.control] = @ + 1]

(* The transaction is appended and charged; no other one, no other count   *)
(* and nothing a goal was asked for is written.                            *)
Records(e, y, action, at) ==
    LET n == Len(e.history) + 1
    IN  /\ n \in Nat /\ DOMAIN e.history = 1..Len(e.history)
        /\ DOMAIN y.history = 1..n /\ Len(y.history) = n /\ y.inflight = n
        /\ y.history[n] = Pending(action, at)
        /\ \A i \in DOMAIN e.history : y.history[i] = e.history[i]
        /\ y.state = e.state /\ y.counter = e.counter /\ y.latest = e.latest
        /\ y.actions = [e.actions EXCEPT ![action.control] = e.actions[action.control] + 1]
        /\ y.resync = 0 /\ y.settling = e.settling
        /\ action.intent \in 1..e.counter
        /\ e.intents[action.intent].control = action.control
        /\ e.intents[action.intent].stage = "WAITING_FOR_BUS"
        /\ \A id \in 1..e.counter :
              /\ y.intents[id].control = e.intents[id].control
              /\ y.intents[id].desired = e.intents[id].desired
              /\ y.intents[id].deadline = e.intents[id].deadline
              /\ y.intents[id].stage = "VERIFIED" => e.intents[id].stage = "VERIFIED"

(* The receipt of an action for an open goal of the present epoch.         *)
LEMMA RecordedOK ==
    ASSUME NEW e, EngineOK(e), e.inflight = 0, e.resync = 0, e.state.epoch # 0,
           NEW action, action.control \in Controls, action.intent # 0, ReceiptValid(e, action),
           e.actions[action.control] < MaxActions, NEW at \in Nat
    PROVE  LET y == Recorded(e, action, at)
           IN  EngineOK(y) /\ GoalsFinal(e, y) /\ Records(e, y, action, at)
<1> DEFINE c == action.control
           id == action.intent
           taken == Update(e, id, "WAITING_FOR_STATE")
           p == Pending(action, at)
           n == Len(e.history) + 1
           y == WithSend(taken, Append(taken.history, p), n,
                         [taken.actions EXCEPT ![c] = taken.actions[c] + 1])
           x == Recorded(e, action, at)
<1>1. /\ id \in 1..e.counter /\ Open(e, id) /\ e.intents[id].control = c
      /\ action.epoch = e.state.epoch /\ action.sequence = e.state.sequence
  <2>1. /\ e.latest[c] = id /\ e.intents[id].stage = "WAITING_FOR_BUS"
        /\ action.epoch = e.state.epoch /\ action.sequence = e.state.sequence
    BY DEF ReceiptValid
  <2>2. id \in 0..e.counter
    BY <2>1 DEF EngineOK, GoalsOK
  <2>3. id \in 1..e.counter
    BY <2>2 DEF EngineOK, GoalsOK
  <2>4. QED
    BY <2>1, <2>3 DEF EngineOK, GoalsOK, Open, Terminal
<1>2. Restaged(e, taken)
  BY <1>1, UpdateRestages DEF Stages
<1>3. EngineOK(taken) /\ GoalsFinal(e, taken) /\ taken.intents[id].control = c
      /\ taken.history = e.history /\ taken.inflight = 0 /\ taken.resync = 0
      /\ taken.state = e.state /\ taken.counter = e.counter /\ taken.actions = e.actions
      /\ taken.latest = e.latest /\ taken.settling = e.settling
      /\ \A k \in 1..e.counter : /\ taken.intents[k].control = e.intents[k].control
                                 /\ taken.intents[k].desired = e.intents[k].desired
                                 /\ taken.intents[k].deadline = e.intents[k].deadline
                                 /\ taken.intents[k].stage = "VERIFIED" => e.intents[k].stage = "VERIFIED"
  <2>1. taken.intents = [e.intents EXCEPT ![id].stage = "WAITING_FOR_STATE"]
    BY DEF Update, EngineOK, IsEngine
  <2>2. \A k \in 1..e.counter : IsItem(e.intents[k]) /\ k \in DOMAIN e.intents
    BY DEF EngineOK, GoalsOK
  <2> HIDE DEF taken
  <2>3. ASSUME NEW k \in 1..e.counter, taken.intents[k].stage = "VERIFIED"
        PROVE  e.intents[k].stage = "VERIFIED"
    <3>1. k = id => taken.intents[k].stage = "WAITING_FOR_STATE"
      BY <2>1, <2>2 DEF IsItem
    <3>2. QED
      BY <2>1, <2>2, <2>3, <3>1
  <2>4. QED
    BY <1>1, <1>2, <2>3, RestagedOK, RestagedIsFinal DEF Restaged
<1>4. x = y
  <2> HIDE DEF taken, p, n, c
  <2>1. x = [taken EXCEPT !.history = Append(@, p), !.inflight = n, !.actions[c] = @ + 1]
    BY DEF Recorded, taken, p, n, c
  <2>2. QED
    BY <1>3, <2>1 DEF EngineOK, IsEngine, WithSend
<1> HIDE DEF taken
<1>5. /\ IsTransaction(p) /\ p.intent = id /\ p.control = c
      /\ p.epoch = e.state.epoch /\ p.sequence = e.state.sequence
      /\ p.sentAt = at /\ p.result = "WAITING_FOR_STATE"
  BY <1>1 DEF Pending, IsTransaction
<1> HIDE DEF p, x
<1>6. /\ IsEngine(y) /\ y.history = Append(e.history, p) /\ y.inflight = n
      /\ y.state = e.state /\ y.counter = e.counter /\ y.latest = taken.latest
      /\ y.order = taken.order /\ y.intents = taken.intents /\ y.resync = 0
      /\ y.settling = taken.settling
      /\ y.actions = [e.actions EXCEPT ![c] = e.actions[c] + 1]
  <2> DEFINE h == Append(taken.history, p)
             a == [taken.actions EXCEPT ![c] = taken.actions[c] + 1]
             z == WithSend(taken, h, n, a)
  <2> HIDE DEF h, a, n
  <2>1. /\ IsEngine(z) /\ z.history = h /\ z.inflight = n /\ z.actions = a
        /\ z.state = taken.state /\ z.counter = taken.counter /\ z.latest = taken.latest
        /\ z.order = taken.order /\ z.intents = taken.intents /\ z.resync = taken.resync
        /\ z.settling = taken.settling
    BY <1>3, SendAssigned DEF EngineOK
  <2>2. y = z
    BY DEF h, a, n
  <2> HIDE DEF y, z
  <2>3. QED
    BY <1>3, <2>1, <2>2 DEF h, a
<1> HIDE DEF y
<1>7. /\ IsHistory(y.history) /\ Len(y.history) = n /\ DOMAIN y.history = 1..n
      /\ y.history[n] = p /\ \A j \in DOMAIN e.history : y.history[j] = e.history[j]
      /\ DOMAIN e.history = 1..Len(e.history) /\ Len(e.history) \in Nat
  BY <1>6, HistoryAppend, HistoryDomain DEF EngineOK, HistoryOK
<1>8. n \in Nat /\ n # 0 /\ \A j \in 1..n : j = n \/ j \in DOMAIN e.history
  BY <1>7
<1>9. GoalsOK(y) /\ GoalsFinal(taken, y)
  <2>1. y.actions \in [Controls -> 0..MaxActions]
    BY <1>6, EngineParameters DEF EngineOK, GoalsOK
  <2>2. GoalsOK(taken)
    BY <1>3 DEF EngineOK
  <2>3. GoalsOK(y)
    BY <1>6, <1>3, <2>1, <2>2 DEF GoalsOK, Open
  <2>4. GoalsFinal(taken, y)
    BY <1>6, <1>3, <2>2 DEF GoalsOK, GoalsFinal
  <2>5. QED
    BY <2>3, <2>4
<1>10. HistoryOK(y)
  <2>1. ASSUME NEW j \in DOMAIN y.history
        PROVE  /\ IsTransaction(y.history[j]) /\ TransactionOK(y, y.history[j])
               /\ y.history[j].result = "WAITING_FOR_STATE" <=> j = y.inflight
    <3>1. CASE j = n
      <4>1. p.epoch \in Nat /\ p.sequence \in Nat
        BY <1>5 DEF EngineOK, IsState
      <4>2. y.history[j] = p
        BY <1>7, <3>1
      <4>3. QED
        BY <1>1, <1>3, <1>5, <1>6, <3>1, <4>1, <4>2 DEF TransactionOK
    <3>2. CASE j # n
      <4>1. j \in DOMAIN e.history /\ y.history[j] = e.history[j]
        BY <1>7, <1>8, <3>2
      <4>2. /\ IsTransaction(e.history[j]) /\ TransactionOK(taken, e.history[j])
            /\ e.history[j].result # "WAITING_FOR_STATE"
        BY <1>3, <1>7, <4>1 DEF EngineOK, HistoryOK
      <4>3. TransactionOK(y, e.history[j])
        BY <1>3, <1>6, <4>2 DEF TransactionOK
      <4>4. QED
        BY <1>6, <3>2, <4>1, <4>2, <4>3
    <3>3. QED
      BY <3>1, <3>2
  <2>2. QED
    BY <1>6, <1>7, <2>1 DEF HistoryOK
<1>11. BarrierOK(y)
  <2>1. e.state.epoch \in Nat /\ p.epoch \in 1..e.state.epoch
    BY <1>5 DEF EngineOK, IsState
  <2>2. ~Ambiguous(p)
    BY <1>5 DEF Ambiguous
  <2>3. ASSUME NEW j \in DOMAIN e.history
        PROVE  /\ e.history[j].epoch \in 1..e.state.epoch
               /\ Ambiguous(e.history[j]) => e.history[j].epoch < e.state.epoch
    BY DEF EngineOK, BarrierOK
  <2>4. ASSUME NEW j \in DOMAIN y.history
        PROVE  /\ y.history[j].epoch \in 1..y.state.epoch
               /\ Ambiguous(y.history[j]) => y.history[j].epoch < y.state.epoch
    <3>1. CASE j = n
      BY <1>6, <1>7, <2>1, <2>2, <3>1
    <3>2. CASE j # n
      BY <1>6, <1>7, <1>8, <2>3, <3>2
    <3>3. QED
      BY <3>1, <3>2
  <2>5. ASSUME NEW i \in DOMAIN y.history, NEW j \in DOMAIN y.history,
               i < j, Ambiguous(y.history[i])
        PROVE  y.history[i].epoch < y.history[j].epoch
    <3>1. i # n /\ i \in DOMAIN e.history /\ y.history[i] = e.history[i]
      BY <1>7, <1>8, <2>2, <2>5
    <3>2. CASE j = n
      BY <1>5, <1>7, <2>3, <2>5, <3>1, <3>2
    <3>3. CASE j # n
      BY <1>7, <1>8, <2>5, <3>1, <3>3 DEF EngineOK, BarrierOK
    <3>4. QED
      BY <3>2, <3>3
  <2>6. y.resync \in Nat /\ y.resync <= y.state.epoch
    BY <1>6, <2>1
  <2>7. QED
    BY <1>6, <2>4, <2>5, <2>6 DEF BarrierOK
<1>12. EngineOK(y)
  BY <1>3, <1>6, <1>9, <1>10, <1>11 DEF EngineOK
<1>13. GoalsFinal(e, y)
  BY <1>3, <1>9, <1>12, GoalsFinalTransitive DEF EngineOK, GoalsOK
<1>14. e.intents[id].stage = "WAITING_FOR_BUS"
  BY DEF ReceiptValid
<1>15. Records(e, y, action, at)
  BY <1>1, <1>3, <1>6, <1>7, <1>8, <1>14 DEF Records, p
<1>16. QED
  BY <1>4, <1>12, <1>13, <1>15 DEF x

(* sent keeps a well-formed engine and starts a transaction that no tick   *)
(* of the same moment ends.                                                *)
LEMMA SentOK ==
    ASSUME NEW e, EngineOK(e), e.inflight = 0, e.resync = 0, e.state.epoch # 0,
           NEW action, action.control \in Controls, action.intent # 0, ReceiptValid(e, action),
           e.actions[action.control] < MaxActions, NEW at \in Nat
    PROVE  LET y == Recorded(e, action, at)
               x == Sent(e, action, at)
           IN  /\ EngineOK(x) /\ GoalsFinal(e, x) /\ Started(e, x)
               /\ x = Expired(y, at)
<1> DEFINE y == Recorded(e, action, at)
           p == Pending(action, at)
           n == Len(e.history) + 1
           x == Sent(e, action, at)
<1>1. EngineOK(y) /\ GoalsFinal(e, y) /\ Records(e, y, action, at)
  BY RecordedOK
<1>2. p.sentAt = at /\ p.result = "WAITING_FOR_STATE" /\ p.epoch = e.state.epoch
  BY DEF Pending, ReceiptValid
<1>3. x = Ticked(y, at)
  BY DEF Sent, Recorded
<1>4. Len(e.history) \in Nat
  BY HistoryDomain DEF EngineOK, HistoryOK
<1> HIDE DEF y, x
<1>5. /\ y.inflight = n /\ n # 0 /\ y.history[n] = p /\ y.resync = 0
      /\ Len(y.history) = n /\ DOMAIN e.history = 1..Len(e.history)
      /\ \A i \in DOMAIN e.history : y.history[i] = e.history[i]
  BY <1>1, <1>4 DEF Records
<1> HIDE DEF p
<1>6. x = Expired(y, at)
  <2>1. Expired(y, at).inflight = n /\ Expired(y, at).history = y.history
    BY <1>1, <1>5, ExpiredOK DEF Kept
  <2>2. Window(y.history[n].control) \in Nat \ {0}
    BY EngineParameters DEF Window
  <2>3. ~(at >= y.history[n].sentAt + Window(y.history[n].control))
    BY <1>2, <1>5, <2>2
  <2>4. QED
    BY <1>3, <1>5, <2>1, <2>3 DEF Ticked
<1>7. EngineOK(x) /\ Kept(y, x) /\ GoalsFinal(y, x)
  BY <1>1, <1>6, ExpiredOK
<1>8. GoalsFinal(e, x)
  BY <1>1, <1>7, GoalsFinalTransitive DEF EngineOK, GoalsOK
<1>9. Started(e, x)
  BY <1>2, <1>4, <1>5, <1>7 DEF Started, Kept, Ambiguous
<1>10. QED
  BY <1>6, <1>7, <1>8, <1>9 DEF x, y

-----------------------------------------------------------------------------
(* The event loop.                                                         *)

HasSnapshotFields(sn) ==
    sn = [ epoch |-> sn.epoch, synced |-> sn.synced, sequence |-> sn.sequence, at |-> sn.at,
           setup |-> sn.setup, filters |-> sn.filters, filtersAt |-> sn.filtersAt,
           status |-> sn.status ]

SnapshotOK(sn) ==
    /\ HasSnapshotFields(sn)
    /\ sn.epoch \in Nat \ {0} /\ sn.synced \in BOOLEAN
    /\ sn.sequence \in Nat /\ sn.at \in Nat

IInv == now \in Nat /\ SnapshotOK(snapshot) /\ EngineOK(engine)

Outcome(e, x) ==
    \/ Kept(e, x) \/ Doubted(e, x) \/ Resolved(e, x) \/ Trusted(e, x) \/ Started(e, x)

(* Assigning an attribute of the snapshot leaves a record with the same    *)
(* attributes.                                                             *)
LEMMA FieldAssigned ==
    ASSUME NEW sn, HasSnapshotFields(sn), NEW v
    PROVE  /\ HasSnapshotFields([sn EXCEPT !.epoch = v])
           /\ HasSnapshotFields([sn EXCEPT !.synced = v])
           /\ HasSnapshotFields([sn EXCEPT !.sequence = v])
           /\ HasSnapshotFields([sn EXCEPT !.at = v])
           /\ HasSnapshotFields([sn EXCEPT !.setup = v])
           /\ HasSnapshotFields([sn EXCEPT !.filters = v])
           /\ HasSnapshotFields([sn EXCEPT !.filtersAt = v])
           /\ HasSnapshotFields([sn EXCEPT !.status = v])
<1>1. HasSnapshotFields([sn EXCEPT !.epoch = v])
  BY SMTT(30) DEF HasSnapshotFields
<1>2. HasSnapshotFields([sn EXCEPT !.synced = v])
  BY SMTT(30) DEF HasSnapshotFields
<1>3. HasSnapshotFields([sn EXCEPT !.sequence = v])
  BY SMTT(30) DEF HasSnapshotFields
<1>4. HasSnapshotFields([sn EXCEPT !.at = v])
  BY SMTT(30) DEF HasSnapshotFields
<1>5. HasSnapshotFields([sn EXCEPT !.setup = v])
  BY SMTT(30) DEF HasSnapshotFields
<1>6. HasSnapshotFields([sn EXCEPT !.filters = v])
  BY SMTT(30) DEF HasSnapshotFields
<1>7. HasSnapshotFields([sn EXCEPT !.filtersAt = v])
  BY SMTT(30) DEF HasSnapshotFields
<1>8. HasSnapshotFields([sn EXCEPT !.status = v])
  BY SMTT(30) DEF HasSnapshotFields
<1>9. QED
  BY <1>1, <1>2, <1>3, <1>4, <1>5, <1>6, <1>7, <1>8

(* Receiving a status keeps a well-formed snapshot.                        *)
LEMMA StatusReceived ==
    ASSUME NEW sn, SnapshotOK(sn), NEW st, NEW t \in Nat
    PROVE  SnapshotOK([sn EXCEPT !.status = st, !.at = t, !.synced = TRUE, !.sequence = @ + 1])
<1> DEFINE a == [sn EXCEPT !.status = st]
           b == [a EXCEPT !.at = t]
           c == [b EXCEPT !.synced = TRUE]
           n == sn.sequence + 1
           d == [c EXCEPT !.sequence = n]
<1>1. HasSnapshotFields(a)
  BY FieldAssigned DEF SnapshotOK
<1>2. HasSnapshotFields(b)
  <2> HIDE DEF a
  <2> QED BY <1>1, FieldAssigned
<1>3. HasSnapshotFields(c)
  <2> HIDE DEF b
  <2> QED BY <1>2, FieldAssigned
<1>4. HasSnapshotFields(d)
  <2> HIDE DEF c, n
  <2> QED BY <1>3, FieldAssigned
<1>5. d = [sn EXCEPT !.status = st, !.at = t, !.synced = TRUE, !.sequence = @ + 1]
  BY SMTT(30) DEF SnapshotOK, HasSnapshotFields
<1>6. d.epoch = sn.epoch /\ d.synced = TRUE /\ d.sequence = sn.sequence + 1 /\ d.at = t
  BY DEF SnapshotOK, HasSnapshotFields
<1> HIDE DEF d
<1>7. SnapshotOK(d)
  <2>1. sn.epoch \in Nat \ {0} /\ sn.sequence + 1 \in Nat
    BY DEF SnapshotOK
  <2>2. d.synced \in BOOLEAN
    BY <1>6
  <2>3. d.epoch \in Nat \ {0} /\ d.sequence \in Nat /\ d.at \in Nat
    BY <1>6, <2>1
  <2>4. QED
    BY <1>4, <2>2, <2>3 DEF SnapshotOK
<1>8. QED
  BY <1>5, <1>7

(* Receiving a filter record keeps a well-formed snapshot.                 *)
LEMMA FiltersReceived ==
    ASSUME NEW sn, SnapshotOK(sn), NEW schedule, NEW t
    PROVE  SnapshotOK([sn EXCEPT !.filters = schedule, !.filtersAt = t])
<1> DEFINE a == [sn EXCEPT !.filters = schedule]
           b == [a EXCEPT !.filtersAt = t]
<1>1. HasSnapshotFields(a)
  BY FieldAssigned DEF SnapshotOK
<1>2. HasSnapshotFields(b)
  <2> HIDE DEF a
  <2> QED BY <1>1, FieldAssigned
<1>3. b = [sn EXCEPT !.filters = schedule, !.filtersAt = t]
  BY SMTT(30) DEF SnapshotOK, HasSnapshotFields
<1>4. b.epoch = sn.epoch /\ b.synced = sn.synced /\ b.sequence = sn.sequence /\ b.at = sn.at
  BY DEF SnapshotOK, HasSnapshotFields
<1> HIDE DEF b
<1>5. SnapshotOK(b)
  BY <1>2, <1>4 DEF SnapshotOK
<1>6. QED
  BY <1>3, <1>5

(* A new epoch keeps a well-formed snapshot.                               *)
LEMMA Reconnected ==
    ASSUME NEW sn, SnapshotOK(sn)
    PROVE  SnapshotOK([sn EXCEPT !.epoch = @ + 1, !.synced = FALSE, !.setup = FALSE,
                                 !.filters = None, !.filtersAt = 0])
<1> DEFINE n == sn.epoch + 1
           a == [sn EXCEPT !.epoch = n]
           b == [a EXCEPT !.synced = FALSE]
           c == [b EXCEPT !.setup = FALSE]
           d == [c EXCEPT !.filters = None]
           f == [d EXCEPT !.filtersAt = 0]
<1>1. HasSnapshotFields(a)
  <2> HIDE DEF n
  <2> QED BY FieldAssigned DEF SnapshotOK
<1>2. HasSnapshotFields(b)
  <2> HIDE DEF a
  <2> QED BY <1>1, FieldAssigned
<1>3. HasSnapshotFields(c)
  <2> HIDE DEF b
  <2> QED BY <1>2, FieldAssigned
<1>4. HasSnapshotFields(d)
  <2> HIDE DEF c
  <2> QED BY <1>3, FieldAssigned
<1>5. HasSnapshotFields(f)
  <2> HIDE DEF d
  <2> QED BY <1>4, FieldAssigned
<1>6. f = [sn EXCEPT !.epoch = @ + 1, !.synced = FALSE, !.setup = FALSE,
                     !.filters = None, !.filtersAt = 0]
  BY SMTT(30) DEF SnapshotOK, HasSnapshotFields
<1>7. f.epoch = sn.epoch + 1 /\ f.synced = FALSE /\ f.sequence = sn.sequence /\ f.at = sn.at
  BY DEF SnapshotOK, HasSnapshotFields
<1> HIDE DEF f
<1>8. SnapshotOK(f)
  <2>1. sn.epoch + 1 \in Nat \ {0} /\ sn.sequence \in Nat /\ sn.at \in Nat
    BY DEF SnapshotOK
  <2>2. f.synced \in BOOLEAN
    BY <1>7
  <2>3. f.epoch \in Nat \ {0} /\ f.sequence \in Nat /\ f.at \in Nat
    BY <1>7, <2>1
  <2>4. QED
    BY <1>5, <2>2, <2>3 DEF SnapshotOK
<1>9. QED
  BY <1>6, <1>8

(* Receiving the setup message keeps a well-formed snapshot.               *)
LEMMA SetupReceived ==
    ASSUME NEW sn, SnapshotOK(sn)
    PROVE  /\ SnapshotOK([sn EXCEPT !.setup = TRUE])
           /\ SnapshotOK([sn EXCEPT !.synced = FALSE])
<1> DEFINE a == [sn EXCEPT !.setup = TRUE]
           b == [sn EXCEPT !.synced = FALSE]
<1>1. HasSnapshotFields(a) /\ HasSnapshotFields(b)
  BY FieldAssigned DEF SnapshotOK
<1>2. /\ a.epoch = sn.epoch /\ a.synced = sn.synced /\ a.sequence = sn.sequence /\ a.at = sn.at
      /\ b.epoch = sn.epoch /\ b.synced = FALSE /\ b.sequence = sn.sequence /\ b.at = sn.at
  BY DEF SnapshotOK, HasSnapshotFields
<1>3. QED
  <2> HIDE DEF a, b
  <2>1. SnapshotOK(a) /\ SnapshotOK(b)
    BY <1>1, <1>2 DEF SnapshotOK
  <2>2. QED
    BY <2>1 DEF a, b

(* The state built of a well-formed snapshot is a state of its epoch.      *)
LEMMA StateOfSnapshot ==
    ASSUME NEW sn, SnapshotOK(sn), NEW available \in BOOLEAN
    PROVE  IsState(StateOf(sn, available))
  BY DEF SnapshotOK, StateOf, IsState, HasStateFields

-----------------------------------------------------------------------------
(* The steps of the event loop.                                            *)

(* The inductive invariant holds of a newly constructed engine.            *)
LEMMA InitOK == Init => IInv
<1> SUFFICES ASSUME Init PROVE IInv
  OBVIOUS
<1>1. SnapshotOK(snapshot)
  BY DEF Init, SnapshotOK, HasSnapshotFields
<1>2. IsEngine(engine)
  BY DEF Init, IsEngine
<1>3. IsState(engine.state)
  BY DEF Init, NoState, IsState, HasStateFields
<1>4. GoalsOK(engine)
  <2>1. /\ engine.counter = 0 /\ engine.intents = <<>> /\ engine.order = <<>>
        /\ engine.latest = [c \in Controls |-> 0] /\ engine.actions = [c \in Controls |-> 0]
    BY DEF Init
  <2>2. /\ DOMAIN <<>> = {} /\ <<>> \in Seq(Controls) /\ Range(<<>>) = {}
        /\ <<>> \in [1..0 -> Range(<<>>)]
    BY DEF Range
  <2>3. MaxActions \in Nat
    BY EngineParameters
  <2>4. QED
    BY <2>1, <2>2, <2>3 DEF GoalsOK
<1>5. HistoryOK(engine) /\ BarrierOK(engine)
  <2>1. /\ engine.history = <<>> /\ engine.inflight = 0 /\ engine.resync = 0
        /\ engine.state.epoch = 0
    BY DEF Init, NoState
  <2>2. DOMAIN <<>> = {} /\ Len(<<>>) = 0 /\ IsHistory(<<>>)
    <3>1. <<>> \in Seq({})
      OBVIOUS
    <3>2. QED
      BY <3>1 DEF IsHistory
  <2>3. QED
    BY <2>1, <2>2 DEF HistoryOK, BarrierOK
<1>6. now \in Nat
  BY DEF Init
<1>7. QED
  BY <1>1, <1>2, <1>3, <1>4, <1>5, <1>6 DEF IInv, EngineOK

(* Every observation the connection may make keeps the inductive invariant *)
(* and takes one step of the barrier at most.                              *)
LEMMA ObserveOK ==
    ASSUME IInv, NEW received, SnapshotOK(received), NEW available \in BOOLEAN,
           Observe(received, available)
    PROVE  IInv' /\ GoalsFinal(engine, engine') /\ Outcome(engine, engine')
<1>1. IsState(StateOf(received, available))
  BY StateOfSnapshot
<1>2. /\ EngineOK(engine') /\ GoalsFinal(engine, engine')
      /\ \/ Kept(engine, engine') \/ Doubted(engine, engine')
         \/ Resolved(engine, engine') \/ Trusted(engine, engine')
  BY <1>1, ObservedOK DEF Observe, IInv
<1>3. snapshot' = received /\ now' = now
  BY DEF Observe
<1>4. QED
  BY <1>2, <1>3 DEF IInv, Outcome

(* A step of the engine among surroundings that may report any status.     *)
AnyStep ==
    \/ [Next]_vars
    \/ \E st, available : /\ StatusOK(st) /\ available \in BOOLEAN
                         /\ ReceiveStatus(st, available)

(* Every step keeps the invariant and ends, doubts, resolves or starts at  *)
(* most one transaction, without touching a goal that already ended.       *)
LEMMA StepOK ==
    ASSUME IInv, AnyStep
    PROVE  IInv' /\ GoalsFinal(engine, engine') /\ Outcome(engine, engine')
<1>a. EngineOK(engine) /\ now \in Nat /\ SnapshotOK(snapshot)
  BY DEF IInv
<1>b. Kept(engine, engine) /\ GoalsFinal(engine, engine)
  BY <1>a DEF Kept, GoalsFinal, EngineOK, GoalsOK
<1>1. CASE Elapse
  <2>1. now' \in Nat /\ snapshot' = snapshot /\ engine' = engine
    BY <1>1, <1>a DEF Elapse
  <2>2. QED
    BY <1>a, <1>b, <2>1 DEF IInv, Outcome
<1>2. ASSUME NEW goal \in Goals, NEW offset \in Deadlines, NEW defer \in Defers,
             NEW replace \in BOOLEAN, Request(goal[1], goal[2], offset, defer, replace)
      PROVE  IInv' /\ GoalsFinal(engine, engine') /\ Outcome(engine, engine')
  <2> DEFINE due == Ticked(engine, now)
             deadline == IF offset = 0 THEN 0 ELSE now + offset
  <2>1. goal[1] \in Controls /\ offset \in Nat /\ defer \in Nat
    BY EngineInputs
  <2>2. deadline \in Nat
    BY <1>a, <2>1
  <2>3. /\ EngineOK(due) /\ (Kept(engine, due) \/ Doubted(engine, due))
        /\ GoalsFinal(engine, due)
    BY <1>a, TickedOK
  <2>4. engine' = Admitted(due, goal[1], goal[2], deadline, defer, replace)
        /\ now' = now /\ snapshot' = snapshot
    BY <1>2 DEF Request
  <2> HIDE DEF due, deadline
  <2>5. EngineOK(engine') /\ Kept(due, engine') /\ GoalsFinal(due, engine')
    <3>1. EngineOK(engine') /\ Admits(due, engine', goal[1])
      BY <1>a, <2>1, <2>2, <2>3, <2>4, AdmittedOK
    <3>2. QED
      BY <3>1 DEF Admits
  <2>6. GoalsFinal(engine, engine')
    BY <1>a, <2>3, <2>5, GoalsFinalTransitive DEF EngineOK, GoalsOK
  <2>7. Outcome(engine, engine')
    BY <2>3, <2>5 DEF Kept, Doubted, Outcome
  <2>8. QED
    BY <1>a, <2>4, <2>5, <2>6, <2>7 DEF IInv
<1>3. CASE Tick
  BY <1>3, <1>a, TickedOK DEF Tick, IInv, Outcome
<1>4. ASSUME NEW c \in Controls, Cancel(c)
      PROVE  IInv' /\ GoalsFinal(engine, engine') /\ Outcome(engine, engine')
  BY <1>4, <1>a, CancelledOK DEF Cancel, IInv, Outcome
<1>5. ASSUME NEW st, NEW available \in BOOLEAN, ReceiveStatus(st, available)
      PROVE  IInv' /\ GoalsFinal(engine, engine') /\ Outcome(engine, engine')
  <2>1. SnapshotOK([snapshot EXCEPT !.status = st, !.at = now, !.synced = TRUE,
                                    !.sequence = @ + 1])
    BY <1>a, StatusReceived
  <2>2. QED
    BY <1>5, <2>1, ObserveOK DEF ReceiveStatus
<1>6. CASE ReceiveSetup
  BY <1>6, <1>a, SetupReceived, ObserveOK DEF ReceiveSetup
<1>7. ASSUME NEW schedule \in Schedules, NEW queried \in BOOLEAN,
             ReceiveFilters(schedule, queried)
      PROVE  IInv' /\ GoalsFinal(engine, engine') /\ Outcome(engine, engine')
  <2> DEFINE t == IF queried THEN now ELSE 0
             received == [snapshot EXCEPT !.filters = schedule, !.filtersAt = t]
  <2>1. SnapshotOK(received)
    <3> HIDE DEF t
    <3> QED BY <1>a, FiltersReceived
  <2>2. Observe(received, TRUE)
    BY <1>7 DEF ReceiveFilters
  <2> HIDE DEF received
  <2>3. QED
    BY <1>a, <2>1, <2>2, ObserveOK
<1>8. ASSUME NEW available \in Availability, ReceiveNothing(available)
      PROVE  IInv' /\ GoalsFinal(engine, engine') /\ Outcome(engine, engine')
  BY <1>8, <1>a, EngineInputs, ObserveOK DEF ReceiveNothing
<1>9. CASE LoseConfiguration
  <2> DEFINE due == Ticked(engine, now)
  <2>1. /\ EngineOK(due) /\ (Kept(engine, due) \/ Doubted(engine, due))
        /\ GoalsFinal(engine, due)
    BY <1>a, TickedOK
  <2>2. engine' = Suspended(due) /\ now' = now
        /\ snapshot' = [snapshot EXCEPT !.synced = FALSE]
    BY <1>9 DEF LoseConfiguration
  <2> HIDE DEF due
  <2>3. /\ EngineOK(engine') /\ (Kept(due, engine') \/ Doubted(due, engine'))
        /\ GoalsFinal(due, engine')
    BY <2>1, <2>2, SuspendedOK
  <2>4. GoalsFinal(engine, engine')
    BY <1>a, <2>1, <2>3, GoalsFinalTransitive DEF EngineOK, GoalsOK
  <2>5. Outcome(engine, engine')
    BY <2>1, <2>3 DEF Kept, Doubted, Outcome
  <2>6. SnapshotOK(snapshot')
    BY <1>a, <2>2, SetupReceived
  <2>7. QED
    BY <1>a, <2>2, <2>3, <2>4, <2>5, <2>6 DEF IInv
<1>10. CASE Reconnect
  <2>1. SnapshotOK(snapshot')
    BY <1>10, <1>a, Reconnected DEF Reconnect
  <2>2. QED
    BY <1>10, <1>a, <2>1, SuspendedOK DEF Reconnect, IInv, Outcome
<1>11. CASE Prepare
  BY <1>11, <1>a, PreparedOK DEF Prepare, IInv, Outcome
<1>12. ASSUME NEW at \in now..(now + ReceiptLag), Transmit(at)
       PROVE  IInv' /\ GoalsFinal(engine, engine') /\ Outcome(engine, engine')
  <2> DEFINE p == Prepared(engine)
             action == Offer(engine)
  <2>1. /\ Offers(engine) /\ ReceiptValid(p, action) /\ engine' = Sent(p, action, at)
        /\ now' = at /\ snapshot' = snapshot
    BY <1>12 DEF Transmit
  <2>2. at \in Nat
    BY <1>a, EngineInputs
  <2>3. /\ EngineOK(p) /\ Kept(engine, p) /\ GoalsFinal(engine, p)
        /\ p.state = engine.state /\ p.inflight = 0 /\ p.resync = 0
    BY <1>a, <2>1, PreparedOK DEF Offers
  <2>4. /\ action.control \in Controls /\ action.intent # 0
        /\ engine.state.epoch # 0 /\ p.actions[action.control] < MaxActions
    BY <1>a, <2>1, OfferOK
  <2> HIDE DEF p, action
  <2>5. EngineOK(engine') /\ GoalsFinal(p, engine') /\ Started(p, engine')
    BY <2>1, <2>2, <2>3, <2>4, SentOK
  <2>6. GoalsFinal(engine, engine')
    BY <1>a, <2>3, <2>5, GoalsFinalTransitive DEF EngineOK, GoalsOK
  <2>7. Started(engine, engine')
    BY <2>3, <2>5 DEF Kept, Started
  <2>8. QED
    BY <1>a, <2>1, <2>2, <2>5, <2>6, <2>7 DEF IInv, Outcome
<1>13. CASE UNCHANGED vars
  BY <1>13, <1>a, <1>b DEF vars, IInv, Outcome
<1>14. Availability \subseteq BOOLEAN
  BY EngineInputs
<1>15. QED
  BY <1>1, <1>2, <1>3, <1>4, <1>5, <1>6, <1>7, <1>8, <1>9, <1>10, <1>11, <1>12, <1>13, <1>14
     DEF Next, AnyStep

-----------------------------------------------------------------------------
(* The theorems.                                                           *)

(* Invariance: the inductive invariant holds in every reachable state of   *)
(* the engine, whatever the connection reports and the callers ask.        *)
THEOREM Invariance == Spec => []IInv
<1>1. IInv /\ [Next]_vars => IInv'
  BY StepOK DEF AnyStep
<1>2. QED
  BY InitOK, <1>1, PTL DEF Spec

(* TypeCorrect: every attribute of the engine keeps its shape.             *)
THEOREM TypeCorrect == Spec => []TypeOK
<1>1. IInv => TypeOK
  <2> SUFFICES ASSUME IInv PROVE TypeOK
    OBVIOUS
  <2>1. /\ now \in Nat /\ snapshot.epoch \in Nat /\ snapshot.sequence \in Nat
        /\ snapshot.at \in Nat /\ snapshot.synced \in BOOLEAN
    BY DEF IInv, SnapshotOK
  <2>2. /\ engine.state.epoch \in Nat /\ engine.state.sequence \in Nat
        /\ engine.state.at \in Nat /\ engine.state.available \in BOOLEAN
    BY DEF IInv, EngineOK, IsState
  <2>3. /\ engine.counter \in Nat
        /\ engine.intents \in [1..engine.counter -> Range(engine.intents)]
        /\ \A id \in 1..engine.counter : IntentOK(engine.intents[id])
        /\ engine.latest \in [Controls -> 0..engine.counter]
        /\ engine.actions \in [Controls -> 0..MaxActions]
        /\ Range(engine.order) = {c \in Controls : engine.latest[c] # 0}
    BY DEF IInv, EngineOK, GoalsOK
  <2>4. engine.history \in [1..Len(engine.history) -> Range(engine.history)]
    <3>1. PICK S : engine.history \in Seq(S)
      BY DEF IInv, EngineOK, HistoryOK, IsHistory
    <3>2. engine.history = [i \in 1..Len(engine.history) |-> engine.history[i]]
      BY <3>1
    <3> DEFINE h == engine.history
               n == Len(engine.history)
    <3>3. h = [i \in 1..n |-> h[i]]
      BY <3>2
    <3> HIDE DEF h, n
    <3>4. h \in [1..n -> Range(h)]
      BY <3>3, FunctionOnItsRange
    <3>5. QED
      BY <3>4 DEF h, n
  <2>5. /\ \A i \in DOMAIN engine.history : TransactionOK(engine, engine.history[i])
        /\ engine.inflight \in {0, Len(engine.history)}
        /\ engine.resync \in Nat
    BY DEF IInv, EngineOK, HistoryOK, BarrierOK
  <2>6. QED
    BY <2>1, <2>2, <2>3, <2>4, <2>5 DEF TypeOK
<1>2. QED
  BY <1>1, Invariance, PTL

(* AtMostOneTransaction: no two physical actions are ever outstanding.     *)
THEOREM AtMostOneTransaction == Spec => []OneTransaction
<1>1. IInv => OneTransaction
  BY DEF IInv, EngineOK, HistoryOK, OneTransaction
<1>2. QED
  BY <1>1, Invariance, PTL

(* SilenceAfterAmbiguity: an action of unknown outcome is the last of its  *)
(* epoch.                                                                  *)
THEOREM SilenceAfterAmbiguity == Spec => []NothingAfterAmbiguity
<1>1. IInv => NothingAfterAmbiguity
  BY DEF IInv, EngineOK, BarrierOK, NothingAfterAmbiguity
<1>2. QED
  BY <1>1, Invariance, PTL

(* NewestGoalOnly: only the newest request of a control is pursued.        *)
THEOREM NewestGoalOnly == Spec => []OneGoalPerControl
<1>1. IInv => OneGoalPerControl
  BY DEF IInv, EngineOK, GoalsOK, OneGoalPerControl
<1>2. QED
  BY <1>1, Invariance, PTL

(* OutcomesAreFinal: a goal that ended keeps the outcome its caller saw.   *)
THEOREM OutcomesAreFinal == Spec => TerminalIsFinal
<1> DEFINE Final == \A id \in 1..engine.counter :
                      engine.intents[id].stage \in Terminal
                         => engine'.intents[id] = engine.intents[id]
<1>1. IInv /\ [Next]_vars => [Final]_vars
  BY StepOK DEF GoalsFinal, AnyStep
<1>2. Spec => [][Final]_vars
  BY <1>1, Invariance, PTL DEF Spec
<1>3. QED
  BY <1>2 DEF TerminalIsFinal

(* The barrier each kind of step takes.                                    *)
LEMMA BarrierStep ==
    ASSUME IInv, IInv', Outcome(engine, engine')
    PROVE  [Barrier!Next]_(Barrier!vars)
<1>1. /\ EngineOK(engine) /\ EngineOK(engine')
  BY DEF IInv
<1>2. /\ DOMAIN engine.history = 1..Len(engine.history) /\ Len(engine.history) \in Nat
      /\ DOMAIN engine'.history = 1..Len(engine'.history) /\ Len(engine'.history) \in Nat
  BY <1>1, HistoryDomain DEF EngineOK, HistoryOK
<1>3. /\ engine.history = <<>> <=> Len(engine.history) = 0
      /\ engine'.history = <<>> <=> Len(engine'.history) = 0
  BY <1>1, EmptySeq DEF EngineOK, HistoryOK, IsHistory
<1>4. engine.inflight # 0
        => /\ engine.inflight = Len(engine.history) /\ engine.inflight \in DOMAIN engine.history
           /\ engine.history[engine.inflight].result = "WAITING_FOR_STATE"
           /\ engine.history[engine.inflight].epoch \in Nat \ {0}
           /\ engine.resync = 0
  BY <1>1, <1>2 DEF EngineOK, HistoryOK, BarrierOK
<1>5. CASE Kept(engine, engine')
  BY <1>5 DEF Kept, Barrier!vars, phaseBar, floorBar
<1>6. CASE Doubted(engine, engine')
  <2>1. phaseBar = "outstanding" /\ floorBar = engine.history[engine.inflight].epoch
    BY <1>2, <1>3, <1>4, <1>6 DEF Doubted, phaseBar, floorBar, Ambiguous
  <2>2. phaseBar' = "doubtful" /\ floorBar' = engine.history[engine.inflight].epoch + 1
    BY <1>2, <1>3, <1>4, <1>6 DEF Doubted, phaseBar, floorBar
  <2>3. QED
    BY <2>1, <2>2 DEF Barrier!Next, Barrier!Abandon
<1>7. CASE Resolved(engine, engine')
  <2>1. phaseBar = "outstanding" /\ floorBar = engine.history[engine.inflight].epoch
    BY <1>2, <1>3, <1>4, <1>7 DEF Resolved, phaseBar, floorBar, Ambiguous
  <2>2. phaseBar' = "idle" /\ floorBar' = engine.history[engine.inflight].epoch
    BY <1>2, <1>3, <1>4, <1>7 DEF Resolved, phaseBar, floorBar
  <2>3. QED
    BY <2>1, <2>2 DEF Barrier!Next, Barrier!Confirm
<1>8. CASE Trusted(engine, engine')
  BY <1>8 DEF Trusted, phaseBar, floorBar, Barrier!Next, Barrier!Trust
<1>9. CASE Started(engine, engine')
  <2>1. engine.state.epoch \in Nat
    BY <1>1 DEF EngineOK, IsState
  <2>2. phaseBar = "idle" /\ floorBar \in Nat /\ floorBar <= engine.state.epoch
    <3>1. phaseBar = "idle"
      BY <1>9 DEF Started, phaseBar
    <3>2. CASE engine.history = <<>>
      BY <2>1, <3>1, <3>2 DEF floorBar
    <3>3. CASE engine.history # <<>>
      <4> DEFINE last == engine.history[Len(engine.history)]
      <4>1. Len(engine.history) \in DOMAIN engine.history
        BY <1>2, <1>3, <3>3
      <4>2. /\ last.epoch \in 1..engine.state.epoch
            /\ Ambiguous(last) => last.epoch < engine.state.epoch
        BY <1>1, <1>9, <4>1 DEF EngineOK, BarrierOK, Started
      <4>3. floorBar = IF Ambiguous(last) THEN last.epoch + 1 ELSE last.epoch
        BY <3>3 DEF floorBar
      <4>4. QED
        BY <2>1, <3>1, <4>2, <4>3
    <3>4. QED
      BY <3>2, <3>3
  <2>3. phaseBar' = "outstanding" /\ floorBar' = engine.state.epoch
    BY <1>2, <1>3, <1>9 DEF Started, phaseBar, floorBar
  <2>4. QED
    BY <2>1, <2>2, <2>3 DEF Barrier!Next, Barrier!Send
<1>10. QED
  BY <1>5, <1>6, <1>7, <1>8, <1>9 DEF Outcome

(* ImplementsBarrier: the engine, seen through its in-flight slot, its     *)
(* resynchronization mark and its history, implements TransactionBarrier.  *)
THEOREM ImplementsBarrier == Spec => BarrierSpec
<1>1. Init => Barrier!Init
  BY DEF Init, Barrier!Init, phaseBar, floorBar
<1>2. IInv /\ [Next]_vars => [Barrier!Next]_(Barrier!vars)
  BY StepOK, BarrierStep DEF AnyStep
<1>3. QED
  BY <1>1, <1>2, Invariance, PTL DEF Spec, BarrierSpec, Barrier!Spec
=============================================================================
