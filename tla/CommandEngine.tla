--------------------------- MODULE CommandEngine ---------------------------
(***************************************************************************)
(* src/balboa_rs485/command/engine.py: latest desired values, at most one  *)
(* physical transaction, no optimistic observations.                       *)
(*                                                                         *)
(* The engine is one variable, a record with a field per attribute of      *)
(* CommandEngine; each method is an operator from engine to engine, because*)
(* the methods call one another in sequence within one step of the event   *)
(* loop.  The other variables are what surrounds the engine: the monotonic *)
(* clock and the latest snapshot of the connection.  The surroundings are  *)
(* open: any status, any availability and any reconnection may come next.  *)
(***************************************************************************)
EXTENDS SpaModel, FiniteSets

CONSTANTS
    Controls,                                  \* the controls the spa is asked for
    ConfirmationGuard, ConfirmationTimeout, FilterConfirmationTimeout,
    ResyncSettle, StateMaxAge, MaxActions,     \* CommandEngine's parameters
    Goals,                                     \* <<control, desired value>> pairs
    Deadlines, Defers,                         \* offsets from now; deadline 0 is none
    Statuses, Schedules, Availability,         \* what the connection may report
    ReceiptLag,                                \* clock jump between prepare and receipt
    MaxTime, MaxRequests, MaxSequence, MaxEpoch, MaxSends  \* bounds of exploration

ASSUME EngineParameters ==
    /\ Controls \subseteq Control
    /\ ConfirmationGuard \in Nat \ {0} /\ ConfirmationTimeout \in Nat
    /\ FilterConfirmationTimeout \in Nat
    /\ ResyncSettle \in Nat \ {0} /\ StateMaxAge \in Nat \ {0} /\ MaxActions \in Nat \ {0}
    /\ ConfirmationGuard < ConfirmationTimeout
    /\ ConfirmationGuard < FilterConfirmationTimeout

ASSUME EngineInputs ==
    /\ \A goal \in Goals : goal[1] \in Controls /\ goal[2] # None
    /\ Deadlines \subseteq Nat /\ Defers \subseteq Nat /\ ReceiptLag \in Nat
    /\ Statuses # {} /\ (\A st \in Statuses : StatusOK(st)) /\ Availability \subseteq BOOLEAN
    /\ {MaxTime, MaxRequests, MaxSequence, MaxEpoch, MaxSends} \subseteq Nat

VARIABLES
    now,       \* the monotonic clock; it starts at 1 so that 0 means "never"
    snapshot,  \* what SpaConnection and _Commands last received
    engine     \* CommandEngine's attributes

vars == <<now, snapshot, engine>>

Stages == { "QUEUED", "WAITING_FOR_BUS", "WAITING_FOR_STATE",
            "VERIFIED", "FAILED", "SUPERSEDED", "CANCELLED" }
Terminal == {"VERIFIED", "FAILED", "SUPERSEDED", "CANCELLED"}

Fresh(t) == now < t + StateMaxAge      \* 0 <= now - t < state_max_age

-----------------------------------------------------------------------------
(* Intents are numbered by the counter of the requests made.               *)

Open(e, id) == id # 0 /\ e.intents[id].stage \notin Terminal
Update(e, id, stage) == [e EXCEPT !.intents[id].stage = stage]
Requested(e) == Range(e.order)     \* the keys of _latest, in insertion order

CompleteUnreleased(e, result, value) ==   \* mutant: the slot stays taken
    [e EXCEPT !.history[e.inflight] = [@ EXCEPT !.result = result, !.resulting = value]]

(* A finished or abandoned transaction; _history[-1] is the pending one.   *)
Complete(e, result, value) ==
    [e EXCEPT !.history[e.inflight] = [@ EXCEPT !.result = result, !.resulting = value],
              !.inflight = 0]

AbandonUnbarred(e, result) ==   \* mutant: no resynchronization after a doubt
    LET pending == e.history[e.inflight]
        closed == Complete(e, result, None)
    IN  IF Open(e, pending.intent) THEN Update(closed, pending.intent, "QUEUED") ELSE closed

AbandonRetrying(e, result) ==   \* mutant: an acknowledgement is requeued as well
    LET pending == e.history[e.inflight]
        closed == [Complete(e, result, None) EXCEPT
                     !.resync = pending.epoch, !.settling = None]
    IN  IF Open(e, pending.intent) THEN Update(closed, pending.intent, "QUEUED") ELSE closed

(* Nothing more is sent in this epoch.  A goal is worth another attempt    *)
(* after resynchronization, an acknowledgement never is.                   *)
Abandon(e, result) ==
    LET pending == e.history[e.inflight]
        closed == [Complete(e, result, None) EXCEPT
                     !.resync = pending.epoch, !.settling = None]
    IN  IF Open(e, pending.intent)
        THEN Update(closed, pending.intent,
                    IF pending.control = "ack_reminder" THEN "FAILED" ELSE "QUEUED")
        ELSE closed

SuspendedForgetful(e) ==   \* mutant: a lost connection drops the transaction
    [e EXCEPT !.state.available = FALSE, !.inflight = 0]

Suspended(e) ==
    LET blind == [e EXCEPT !.state.available = FALSE]
    IN  IF e.inflight = 0 THEN blind ELSE Abandon(blind, "CANCELLED")

(* tick: deadlines first, then the confirmation timeout.                   *)
Window(control) ==
    IF control = "filters" THEN FilterConfirmationTimeout ELSE ConfirmationTimeout

Overdue(item, t) == item.deadline # 0 /\ t >= item.deadline

ExpiredNever(e, t) == e   \* mutant
Expired(e, t) ==
    [e EXCEPT !.intents = [id \in 1..e.counter |->
        IF Open(e, id) /\ Overdue(e.intents[id], t)
        THEN [e.intents[id] EXCEPT !.stage = "FAILED"]
        ELSE e.intents[id]]]

TickedUntimed(e, t) == Expired(e, t)   \* mutant: no confirmation timeout
Ticked(e, t) ==
    LET due == Expired(e, t)
        pending == e.history[e.inflight]
    IN  IF e.inflight # 0 /\ t >= pending.sentAt + Window(pending.control)
        THEN Abandon(due, "FAILED")
        ELSE due

-----------------------------------------------------------------------------
(* request: a goal needs a fresh, safe state.  Only a pump goal that is    *)
(* still pursued may be replaced blindly, and its successor inherits both  *)
(* its deadline and the physical actions it has already spent.             *)

Replacing(e, c, replace) ==
    replace /\ c \in Pumps /\ Open(e, e.latest[c])

Admissible(e, c, desired, replace) ==
    /\ e.state.epoch # 0
    /\ Replacing(e, c, replace) \/ (e.state.available /\ Fresh(e.state.at))
    /\ c = "filters" => e.state.filtersAt # 0 /\ Fresh(e.state.filtersAt)
    /\ Valid(IF Replacing(e, c, replace) THEN [e.state EXCEPT !.available = TRUE] ELSE e.state,
             c, desired)

Code(st) == IF st.notice \in {"clear", "priming"} THEN None ELSE st.notice

Superseded(e, c) ==
    IF Open(e, e.latest[c]) THEN Update(e, e.latest[c], "SUPERSEDED") ELSE e

Admitted(e, c, desired, deadline, defer, replace) ==
    LET previous == e.latest[c]
        inherits == Replacing(e, c, replace)
        item == [ control |-> c, desired |-> desired, stage |-> "QUEUED",
                  code |-> IF c = "ack_reminder" THEN Code(e.state.status) ELSE None,
                  deadline |-> IF inherits THEN e.intents[previous].deadline ELSE deadline,
                  notBefore |-> now + defer ]
        freed == Superseded(e, c)
    IN  [freed EXCEPT !.counter = e.counter + 1,
                      !.intents = [id \in 1..(e.counter + 1) |->
                                      IF id = e.counter + 1 THEN item ELSE freed.intents[id]],
                      !.latest[c] = e.counter + 1,
                      !.order = IF previous = 0 THEN Append(@, c) ELSE @,
                      !.actions[c] = IF inherits THEN @ ELSE 0]

CancelledAnyway(e, c) ==   \* mutant: a goal that already ended is cancelled, too
    IF e.latest[c] # 0 THEN Update(e, e.latest[c], "CANCELLED") ELSE e
Cancelled(e, c) ==
    IF Open(e, e.latest[c]) THEN Update(e, e.latest[c], "CANCELLED") ELSE e

-----------------------------------------------------------------------------
(* observe: supersession of older observations, resynchronization,         *)
(* confirmation of the pending transaction, verification of goals.         *)

Outdated(e, s) ==
    \/ s.epoch < e.state.epoch
    \/ s.epoch = e.state.epoch /\ (s.sequence < e.state.sequence \/ s.at < e.state.at)

Readings(e, s) == [c \in Requested(e) |-> Value(s, c)]

ComparableAtOnce(e, s) == s.epoch >= e.resync /\ s.available   \* mutant
Comparable(e, s) == s.epoch > e.resync /\ s.available
Steady(e, s) ==
    /\ e.settling # None
    /\ e.settling.readings = Readings(e, s)
    /\ e.settling.epoch = s.epoch
SettledEarly(e, s) == Steady(e, s) /\ s.sequence > e.settling.sequence   \* mutant
Settled(e, s) ==
    /\ Steady(e, s)
    /\ s.at >= e.settling.at + ResyncSettle
    /\ s.sequence > e.settling.sequence

Restart(e, s) ==
    [e EXCEPT !.settling = [readings |-> Readings(e, s), at |-> s.at,
                            sequence |-> s.sequence, epoch |-> s.epoch]]

RetainedLow(action, s) ==
    /\ action.control = "pump1" /\ action.desired = "off" /\ action.starting = "high"
    /\ ControlsSafe(s) /\ Pump1IsCirculation /\ Value(s, "pump1") = "low"

Acknowledged(action, s) ==
    /\ ControlsSafe(s)
    /\ \/ ReminderIsNone(s.status)
       \/ RoutineReminder(s.status) /\ Code(s.status) # action.code

ReflectionSuffices(action, s) == TRUE   \* mutant
ReadBack(action, s) == action.control = "filters" => s.filtersAt > action.sentAt

Confirms(action, s) ==
    /\ s.available
    /\ s.epoch = action.epoch
    /\ s.sequence > action.sequence
    /\ s.at >= action.sentAt + ConfirmationGuard
    /\ ReadBack(action, s)
    /\ \/ RetainedLow(action, s)
       \/ IF action.control = "ack_reminder"
          THEN Acknowledged(action, s)
          ELSE Value(s, action.control) \in {action.expected, action.desired}

ConfirmedOpen(e, s) ==   \* mutant: a goal the hardware refuses stays open
    LET action == e.history[e.inflight]
    IN  IF e.inflight = 0 \/ ~Confirms(action, s) THEN e
        ELSE Complete(e, "VERIFIED", Value(s, action.control))

Confirmed(e, s) ==
    LET action == e.history[e.inflight]
        verdict == IF RetainedLow(action, s) THEN "FAILED" ELSE "VERIFIED"
        done == Complete(e, verdict, Value(s, action.control))
    IN  IF e.inflight = 0 \/ ~Confirms(action, s) THEN e
        ELSE IF /\ RetainedLow(action, s) \/ action.control = "ack_reminder"
                /\ Open(e, action.intent)
        THEN Update(done, action.intent, verdict)
        ELSE done

Reached(e, s, id) ==
    LET item == e.intents[id]
    IN  /\ id = e.latest[item.control] /\ Open(e, id)
        /\ SafeFor(s, item.control)
        /\ Value(s, item.control) = item.desired

Verified(e, s) ==
    IF e.inflight # 0 THEN e
    ELSE [e EXCEPT !.intents = [id \in 1..e.counter |->
            IF Reached(e, s, id) THEN [e.intents[id] EXCEPT !.stage = "VERIFIED"]
            ELSE e.intents[id]]]

Observed(e, s, t) ==
    LET known == IF e.state.epoch # 0 /\ e.state.epoch # s.epoch THEN Suspended(e) ELSE e
        seen == [Ticked(known, t) EXCEPT !.state = s]
        trusted == [seen EXCEPT !.resync = 0, !.settling = None]
        judged(x) == Verified(Confirmed(x, s), s)
    IN  IF Outdated(e, s) THEN e
        ELSE IF seen.resync = 0 THEN judged(seen)
        ELSE IF ~Comparable(seen, s) THEN seen
        ELSE IF ~Steady(seen, s) THEN Restart(seen, s)
        ELSE IF ~Settled(seen, s) THEN seen
        ELSE judged(trusted)

-----------------------------------------------------------------------------
(* next_action: walk the goals in the order their controls were first      *)
(* requested, dispose of those that need no transmission, and stop at the  *)
(* first one that does.  sent: the receipt of bytes already written.       *)

Ready(e) ==
    e.resync = 0 /\ e.inflight = 0 /\ e.state.available /\ Fresh(e.state.at)

PastOnly(item) == item.deadline # 0 /\ item.deadline < now   \* mutant
TooLate(item) == item.deadline # 0 /\ item.deadline < now + ConfirmationTimeout

Verdict(e, c) ==
    LET item == e.intents[e.latest[c]]
        s == e.state
    IN  IF ~Open(e, e.latest[c]) THEN "pass"
        ELSE IF c = "ack_reminder" /\ Code(s.status) # item.code THEN "CANCELLED"
        ELSE IF ~SafeFor(s, c) THEN "pass"
        ELSE IF Value(s, c) = item.desired THEN "VERIFIED"
        ELSE IF now < item.notBefore THEN "pass"
        ELSE IF TooLate(item) THEN "FAILED"
        ELSE IF e.actions[c] >= MaxActions THEN "FAILED"
        ELSE IF ~Valid(s, c, item.desired) THEN "FAILED"
        ELSE "WAITING_FOR_BUS"

Transmittable(e) == {i \in DOMAIN e.order : Verdict(e, e.order[i]) = "WAITING_FOR_BUS"}
Chosen(e) == CHOOSE i \in Transmittable(e) : \A j \in Transmittable(e) : i <= j

(* The goals the walk looks at: all, unless it stops at a chosen one.      *)
Walked(e) == {e.order[i] : i \in {j \in DOMAIN e.order :
                                    \A k \in Transmittable(e) : j <= k}}

Walk(e) ==
    [e EXCEPT !.intents = [id \in 1..e.counter |->
        LET c == e.intents[id].control
        IN  IF id = e.latest[c] /\ c \in Walked(e) /\ Verdict(e, c) # "pass"
            THEN [e.intents[id] EXCEPT !.stage = Verdict(e, c)]
            ELSE e.intents[id]]]

Prepared(e) == IF Ready(Ticked(e, now)) THEN Walk(Ticked(e, now)) ELSE Ticked(e, now)
Offers(e) == Ready(Ticked(e, now)) /\ Transmittable(Ticked(e, now)) # {}

Offer(e) ==
    LET due == Ticked(e, now)
        c == due.order[Chosen(due)]
        item == due.intents[due.latest[c]]
    IN  [ intent |-> due.latest[c], control |-> c, desired |-> item.desired,
          code |-> item.code, epoch |-> due.state.epoch, sequence |-> due.state.sequence,
          starting |-> Value(due.state, c),
          expected |-> Expected(due.state, c, item.desired) ]

ReceiptValid(e, action) ==
    /\ e.inflight = 0
    /\ SafeFor(e.state, action.control)
    /\ action.epoch = e.state.epoch /\ action.sequence = e.state.sequence
    /\ e.latest[action.control] = action.intent
    /\ e.intents[action.intent].stage = "WAITING_FOR_BUS"

Pending(action, at) ==
    [ intent |-> action.intent, control |-> action.control, desired |-> action.desired,
      code |-> action.code, epoch |-> action.epoch, sequence |-> action.sequence,
      starting |-> action.starting, expected |-> action.expected,
      sentAt |-> at, result |-> "WAITING_FOR_STATE", resulting |-> None ]

SentUncounted(e, action, at) ==   \* mutant: the budget is not charged
    Ticked([Update(e, action.intent, "WAITING_FOR_STATE") EXCEPT
              !.history = Append(@, Pending(action, at)),
              !.inflight = Len(e.history) + 1], at)

SentUnindexed(e, action, at) ==   \* mutant: the slot holds the previous transaction
    Ticked([Update(e, action.intent, "WAITING_FOR_STATE") EXCEPT
              !.history = Append(@, Pending(action, at)),
              !.inflight = Len(e.history),
              !.actions[action.control] = @ + 1], at)

Sent(e, action, at) ==
    Ticked([Update(e, action.intent, "WAITING_FOR_STATE") EXCEPT
              !.history = Append(@, Pending(action, at)),
              !.inflight = Len(e.history) + 1,
              !.actions[action.control] = @ + 1], at)

-----------------------------------------------------------------------------
(* The steps of the event loop.                                            *)

NoState == [ epoch |-> 0, sequence |-> 0, at |-> 0, available |-> FALSE, setup |-> FALSE,
             filters |-> None, filtersAt |-> 0, status |-> CHOOSE st \in Statuses : TRUE ]

Init ==
    /\ now = 1
    /\ snapshot = [ epoch |-> 1, synced |-> FALSE, sequence |-> 0, at |-> 0, setup |-> FALSE,
                    filters |-> None, filtersAt |-> 0, status |-> NoState.status ]
    /\ engine = [ state |-> NoState, counter |-> 0, intents |-> <<>>, 
                  latest |-> [c \in Controls |-> 0], order |-> <<>>, actions |-> [c \in Controls |-> 0],
                  history |-> <<>>, inflight |-> 0, resync |-> 0, settling |-> None ]

StateOf(snap, available) ==
    [ epoch |-> snap.epoch, sequence |-> snap.sequence, at |-> snap.at,
      available |-> available, setup |-> snap.setup, filters |-> snap.filters,
      filtersAt |-> snap.filtersAt, status |-> snap.status ]

Elapse == now < MaxTime /\ now' = now + 1 /\ UNCHANGED <<snapshot, engine>>

Request(c, desired, offset, defer, replace) ==
    LET due == Ticked(engine, now)
        deadline == IF offset = 0 THEN 0 ELSE now + offset
    IN  /\ engine.counter < MaxRequests
        /\ Admissible(due, c, desired, replace)
        /\ engine' = Admitted(due, c, desired, deadline, defer, replace)
        /\ UNCHANGED <<now, snapshot>>

(* A refused request, and a waiter whose patience ends, only tick.         *)
Tick == engine' = Ticked(engine, now) /\ UNCHANGED <<now, snapshot>>

Cancel(c) == engine' = Cancelled(engine, c) /\ UNCHANGED <<now, snapshot>>

(* One iteration of the connection: what it received, then engine.observe. *)
Observe(received, available) ==
    /\ snapshot' = received
    /\ engine' = Observed(engine, StateOf(received, available), now)
    /\ UNCHANGED now

ReceiveStatus(st, available) ==
    /\ snapshot.sequence < MaxSequence
    /\ Observe([snapshot EXCEPT !.status = st, !.at = now, !.synced = TRUE,
                                !.sequence = @ + 1], available)

ReceiveSetup == snapshot.synced /\ Observe([snapshot EXCEPT !.setup = TRUE], TRUE)

(* A reflected write is not a queried readback: it has no read time.       *)
ReceiveFilters(schedule, queried) ==
    /\ snapshot.synced
    /\ Observe([snapshot EXCEPT !.filters = schedule,
                                !.filtersAt = IF queried THEN now ELSE 0], TRUE)

ReceiveNothing(available) == snapshot.synced /\ Observe(snapshot, available)

(* The configuration is not (or no longer) known in this epoch.            *)
LoseConfiguration ==
    /\ snapshot' = [snapshot EXCEPT !.synced = FALSE]
    /\ engine' = Suspended(Ticked(engine, now))
    /\ UNCHANGED now

Reconnect ==
    /\ snapshot.epoch < MaxEpoch
    /\ snapshot' = [snapshot EXCEPT !.epoch = @ + 1, !.synced = FALSE, !.setup = FALSE,
                                    !.filters = None, !.filtersAt = 0]
    /\ engine' = Suspended(engine)
    /\ UNCHANGED now

(* prepare without a bus slot, and prepare, write and receipt with one.    *)
Prepare == engine' = Prepared(engine) /\ UNCHANGED <<now, snapshot>>

Transmit(at) ==
    /\ Len(engine.history) < MaxSends
    /\ Offers(engine)
    /\ ReceiptValid(Prepared(engine), Offer(engine))
    /\ engine' = Sent(Prepared(engine), Offer(engine), at)
    /\ now' = at
    /\ UNCHANGED snapshot

Next ==
    \/ Elapse
    \/ \E goal \in Goals, offset \in Deadlines, defer \in Defers, replace \in BOOLEAN :
          Request(goal[1], goal[2], offset, defer, replace)
    \/ Tick
    \/ \E c \in Controls : Cancel(c)
    \/ \E st \in Statuses, available \in Availability : ReceiveStatus(st, available)
    \/ ReceiveSetup
    \/ \E schedule \in Schedules, queried \in BOOLEAN : ReceiveFilters(schedule, queried)
    \/ \E available \in Availability : ReceiveNothing(available)
    \/ LoseConfiguration
    \/ Reconnect
    \/ Prepare
    \/ \E at \in now..(now + ReceiptLag) : Transmit(at)

Spec == Init /\ [][Next]_vars

-----------------------------------------------------------------------------
(* Types.                                                                  *)

(* TypeOK: every attribute of the engine keeps its shape; in particular    *)
(* identifiers held by _latest, transactions and the in-flight receipt     *)
(* always denote requests and transmissions that were really made.         *)
IntentOK(item) ==
    /\ item.control \in Controls
    /\ item.stage \in Stages
    /\ item.deadline \in Nat /\ item.notBefore \in Nat

TransactionOK(e, action) ==
    /\ action.intent \in 1..e.counter
    /\ action.control = e.intents[action.intent].control
    /\ action.epoch \in Nat /\ action.sequence \in Nat /\ action.sentAt \in Nat
    /\ action.result \in {"WAITING_FOR_STATE", "VERIFIED", "FAILED", "CANCELLED"}

TypeOK ==
    /\ now \in Nat /\ snapshot.epoch \in Nat /\ snapshot.sequence \in Nat
    /\ snapshot.at \in Nat /\ snapshot.synced \in BOOLEAN
    /\ engine.state.epoch \in Nat /\ engine.state.sequence \in Nat
    /\ engine.state.at \in Nat /\ engine.state.available \in BOOLEAN
    /\ engine.counter \in Nat
    /\ engine.intents \in [1..engine.counter -> Range(engine.intents)]
    /\ \A id \in 1..engine.counter : IntentOK(engine.intents[id])
    /\ engine.latest \in [Controls -> 0..engine.counter]
    /\ engine.actions \in [Controls -> 0..MaxActions]
    /\ Range(engine.order) = {c \in Controls : engine.latest[c] # 0}
    /\ engine.history \in [1..Len(engine.history) -> Range(engine.history)]
    /\ \A i \in DOMAIN engine.history : TransactionOK(engine, engine.history[i])
    /\ engine.inflight \in {0, Len(engine.history)}
    /\ engine.resync \in Nat

-----------------------------------------------------------------------------
(* Safety.                                                                 *)

Ambiguous(action) == action.result \in {"FAILED", "CANCELLED"} /\ action.resulting = None

(* OneTransaction: no two physical actions are ever outstanding together,  *)
(* and the only one without a verdict is the one the engine calls in       *)
(* flight (phase3_design.md: one physical transaction in flight).          *)
OneTransaction ==
    \A i \in DOMAIN engine.history :
        engine.history[i].result = "WAITING_FOR_STATE" <=> i = engine.inflight

(* NothingAfterAmbiguity: once the outcome of an action is unknown, no     *)
(* further action is sent in that epoch, whatever was requested, cancelled *)
(* or observed in between (phase3_design.md: "send no further physical     *)
(* action in that epoch").                                                 *)
NothingAfterAmbiguity ==
    \A i, j \in DOMAIN engine.history :
        i < j /\ Ambiguous(engine.history[i])
            => engine.history[i].epoch < engine.history[j].epoch

(* SettledBeforeRetry: an action sent after an ambiguous one rests on at   *)
(* least two newer status sequences and comes at least the settling time   *)
(* later (phase3_design.md: "at least two distinct status sequences").     *)
SettledBeforeRetry ==
    \A i, j \in DOMAIN engine.history :
        i < j /\ Ambiguous(engine.history[i])
            => /\ engine.history[j].sequence >= engine.history[i].sequence + 2
               /\ engine.history[j].sentAt >= engine.history[i].sentAt + ResyncSettle

SendsOf(e, id) == {i \in DOMAIN e.history : e.history[i].intent = id}

(* BudgetRespected: whatever is lost, retried or superseded, one intent    *)
(* never costs more than MaxActions physical actions (phase3_design.md:    *)
(* "At most six physical actions per intent").                             *)
BudgetRespected ==
    \A id \in 1..engine.counter : Cardinality(SendsOf(engine, id)) <= MaxActions

(* AcknowledgedOnce: a reminder acknowledgement is transmitted at most     *)
(* once, even when its outcome stays unknown (reminder_ack_review.md: an   *)
(* ambiguous sent acknowledgement is not retried).                         *)
AcknowledgedOnce ==
    \A i, j \in DOMAIN engine.history :
        /\ engine.history[i].control = "ack_reminder"
        /\ engine.history[i].intent = engine.history[j].intent
        => i = j

(* OneGoalPerControl: only the newest request of a control is pursued.     *)
OneGoalPerControl ==
    \A id \in 1..engine.counter :
        Open(engine, id) => engine.latest[engine.intents[id].control] = id

(* WindowBeforeDeadline: a status-confirmed action is only sent while its  *)
(* whole confirmation window fits before the goal's deadline, up to the    *)
(* clock jump of its receipt (command_lifecycle_review.md: "No further     *)
(* transmission starts without enough remaining time").                    *)
WindowBeforeDeadline ==
    \A i \in DOMAIN engine.history :
        LET action == engine.history[i]
            deadline == engine.intents[action.intent].deadline
        IN  action.control # "filters" /\ deadline # 0
                => action.sentAt + ConfirmationTimeout <= deadline + ReceiptLag

(* ReceiptAccepted: the receipt of an offered action is never refused; a   *)
(* refusal would raise out of the connection task after the bytes left.    *)
ReceiptAccepted == Offers(engine) => ReceiptValid(Prepared(engine), Offer(engine))

(* ActionsAreOwed: an action belongs to the newest goal of its control,    *)
(* leaves time to confirm it, and its receipt is never refused.            *)
ActionsAreOwed == OneGoalPerControl /\ WindowBeforeDeadline /\ ReceiptAccepted

-----------------------------------------------------------------------------
(* What a step may never do.                                               *)

(* TerminalIsFinal: a goal that ended keeps the outcome its caller saw.    *)
TerminalIsFinal ==
    [][\A id \in 1..engine.counter :
         engine.intents[id].stage \in Terminal
            => engine'.intents[id] = engine.intents[id]]_vars

(* NoLateSuccess: a late observation resolves the physical receipt but     *)
(* never turns a goal past its deadline into a success.                    *)
NoLateSuccess ==
    [][\A id \in 1..engine.counter :
         /\ engine.intents[id].stage # "VERIFIED"
         /\ engine'.intents[id].stage = "VERIFIED"
         => ~Overdue(engine.intents[id], now)]_vars

Decided(action) == action.result # "WAITING_FOR_STATE" /\ ~Ambiguous(action)

(* FilterGoalReadBack: a filter write is decided only by a readback that   *)
(* was received after it, never by the record the bus reflects, and the    *)
(* goal it was sent for only succeeds in this epoch when it is decided     *)
(* (runtime.py: "A reflected write is not a queried readback/              *)
(* confirmation").                                                         *)
FilterGoalReadBack ==
    [][\A i \in DOMAIN engine.history :
         LET action == engine.history[i]
             result == engine'.history[i]
         IN  action.control = "filters" =>
               /\ ~Decided(action) /\ Decided(result)
                     => engine'.state.filtersAt > action.sentAt
               /\ /\ engine.intents[action.intent].stage # "VERIFIED"
                  /\ engine'.intents[action.intent].stage = "VERIFIED"
                  /\ engine'.state.epoch = action.epoch
                  => Decided(result)]_vars

(* OutcomeNeverForgotten: a transaction leaves the in-flight slot only     *)
(* with an observed value or by raising the resynchronization barrier, and *)
(* no request, cancellation or supersession does either.                   *)
OutcomeNeverForgotten ==
    [][engine.inflight # 0 /\ engine'.inflight = 0
         => /\ engine'.history[engine.inflight].result # "WAITING_FOR_STATE"
            /\ \/ engine'.history[engine.inflight].resulting # None
               \/ engine'.resync = engine.history[engine.inflight].epoch]_vars

(* OutcomesStand: neither a deadline nor a receipt is talked away: a       *)
(* success is in time, and an action ends observed or in doubt.            *)
OutcomesStand == NoLateSuccess /\ OutcomeNeverForgotten

-----------------------------------------------------------------------------
(* Liveness, under the fairness of the periodic connection iteration (or   *)
(* of a waiter's own timeout, which also ticks) and of the clock.          *)

FairSpec == Spec /\ WF_vars(Elapse) /\ WF_vars(Tick)

(* DeadlinesResolve: every goal with a deadline reaches an outcome: tick   *)
(* runs in each connection iteration, and wait_for_intent ticks by itself  *)
(* when its own timeout ends while the connection is down.                 *)
Pursued(id) ==
    /\ id \in 1..engine.counter
    /\ engine.intents[id].deadline \in 1..MaxTime
    /\ engine.intents[id].stage \notin Terminal
DeadlinesResolve == \A id \in 1..MaxRequests : Pursued(id) ~> ~Pursued(id)

(* ReceiptsResolve: no transaction stays in flight beyond its window.      *)
InFlight(i) ==
    /\ engine.inflight = i
    /\ engine.history[i].sentAt + Window(engine.history[i].control) <= MaxTime
ReceiptsResolve == \A i \in 1..MaxSends : InFlight(i) ~> ~InFlight(i)

(* EverythingResolves: whatever the spa does, every goal with a deadline   *)
(* and every transaction reach an outcome by the clock alone.              *)
EverythingResolves == DeadlinesResolve /\ ReceiptsResolve

-----------------------------------------------------------------------------
(* The engine implements the transaction barrier.                          *)

phaseBar == IF engine.inflight # 0 THEN "outstanding"
            ELSE IF engine.resync # 0 THEN "doubtful" ELSE "idle"

floorBar ==
    IF engine.history = <<>> THEN 0
    ELSE LET last == engine.history[Len(engine.history)]
         IN  IF Ambiguous(last) THEN last.epoch + 1 ELSE last.epoch

Barrier == INSTANCE TransactionBarrier WITH phase <- phaseBar, floor <- floorBar

(* BarrierSpec: every behaviour of the engine, seen through its in-flight  *)
(* slot, its resynchronization mark and its history, is one of the barrier.*)
BarrierSpec == Barrier!Spec
=============================================================================
