# Verification of ha-balboa-rs485

TLA+ models of the Balboa RS-485 integration, checked with TLC and, where they
hold for every size of the system, proved with TLAPS.  The definitions are
translated from `src/balboa_rs485` (the `_core` directory of the Home Assistant
component is a copy of it), from `src/custom_components/balboa_rs485` and from
the simulator in `src/tools`; `PROJECT.json` maps each of them to its lines.

## The system

One spa controller, one TCP gateway (or Wi-Fi module) on its RS-485 bus, one
process.  Everything runs on one asyncio event loop: whatever lies between two
`await`s is atomic, and everything else interleaves.

| part | state it keeps | operations | module |
|---|---|---|---|
| `command/engine.py` CommandEngine | intents, the latest per control, spent actions, transaction history, the transaction in flight, the resynchronization mark and its settling reading, the last state | request, cancel, observe, next_action, sent, tick, suspend | CommandEngine |
| `command/planning.py`, `state/model.py` | none: functions of one observation | plan, validate, options, value, admission | SpaModel |
| `runtime.py` _Commands, SpaRuntime | metadata query cycle, filter record and its read time, guards, refresh version | update, prepare, sent, received, disconnected; request, async_update_filter | Runtime |
| `transport/connection.py` SpaConnection | connection state, epoch, synchronization, pending query, status, health times, back-off | one read/decode/observe/sync/write pass per chunk; recovery | Connection |
| `transport/channel.py`, `transport/policy.py` | channel, nonce, correlation evidence; mode evidence per epoch, the consumed clear-to-send | reply, observe, sent, expire; allows_query | ChannelSession, BusArbitration |
| `session.py`, `range_session.py`, `session_runner.py` | the durable session, the submitted attempt, expiry and storage latches | start, cancel, adjust, manual change, tick | BathingSession |
| `energy.py`, both of them | totals, the previous sample, what was committed | sample, break_interval; load, checkpoint | EnergyAccount |
| `prediction.py`, both of them | the segment being collected, the samples, the dirty mark | add, observe, configure; load, save | HeatingLearner, Coordinator |
| `custom_components/.../coordinator.py`, `__init__.py` | pending goals and waiters, the watcher, the stores | async_command, async_open, async_close, setup, unload | Coordinator |
| `protocol/` | the parser's buffer | feed; encode and decode | FrameStream, Wire |
| `tools/simulator` | the physical spa, delayed commands, its connections | serve, apply | SimulatedSpa, CommandDelivery |

They interact by synchronous calls within one pass of the connection:
`_session` reads a chunk, decodes frames, hands them to `_Commands.received`,
calls `_Commands.update` (which calls `engine.observe`, or `tick` and `suspend`
while the configuration is unknown), raises if the engine asks for
resynchronization, and when READY asks `prepare` for something to send, writes
it and reports the receipt with `sent`.  Requests, cancellations and waiters of
the user interface run between passes, and so do the tasks of the adapter: the
watcher that samples energy and learns, the runner of a session, and any number
of overlapping calls to open and close.

What is hard here: commands are *toggles* without acknowledgement, so a lost, a
delayed and a successful command look alike until a status tells; statuses are
older than they look; goals are replaced, cancelled and expire while their
action is on the wire; the connection is dropped, by the network or on purpose,
to resynchronize; sessions and energy totals survive crashes between a save and
what follows it.  `PROJECT.json` lists the hazards line by line.

## Correctness, per part

* Engine: one action outstanding; silence after an ambiguous one until a later
  epoch has settled; a bounded number of actions per goal; an acknowledgement
  at most once; final outcomes; deadlines that hold; receipts never refused.
* Engine and spa together: a command finds the pump in the state it was planned
  from, jets that an off goal stopped stay stopped, and a goal that succeeded
  is true.
* Participant: a filter write rests on a record read in the same epoch and is
  confirmed by a record read after it; query attempts are bounded; a guard
  cancels the goal it guards before it is sent.
* Connection and channel: READY only on a configuration and a status newer than
  the synchronization; deadlines; a back-off that only lasting health resets; a
  bounded number of assignments per lifetime; never an acknowledgement of
  someone else's assignment; a clear-to-send is used once.
* Sessions: the durable record and the memory agree or nothing is sent; what was
  changed is given back; what the user edits stands; no goal of an ended session
  is sent.
* Adapter: a caller hears the outcome of its own goal; a close gives up the bus
  before it saves, whatever fails; no gap, reconnection or unknown reading is
  priced; a published total never falls.
* Wire: frames survive every fragmentation; what is planned, encoded, applied
  and decoded is what was meant.

## Modules

### SpaModel
`SpaState` and `plan` as functions of an observation.  The 24 status bytes are
abstracted to the fields that admission, planning and verification read: the
operating mode, the notice (bytes 1 and 6) and its alarm flags (byte 18), the
locks, the raw bits of every actuator, temperatures as wire units, and the
clock.  An unknown value is `None`, as in the code.  Capabilities and
temperature limits are constants: a changed configuration is a new epoch or a
new revision to the engine, which then revalidates every goal.

### CommandEngine
The engine is one record with a field per attribute of the class, and every
method an operator from engine to engine, because methods call each other
within one step (`observe` calls `suspend` and `tick`; `next_action`, `request`
and `sent` call `tick`).  The correspondence is by name: `Ticked` is `tick`,
`Suspended` is `suspend`, `Admitted` is the body of `request` after its checks,
`Observed` is `observe`, `Prepared` is `next_action`, `Sent` is `sent`.
`_active` needs no field: `intent(id)` finds an intent wherever it is kept.
Zero stands for "none" in deadlines, epochs, identifiers and times; the clock
therefore starts at one.  SENT and WAITING_FOR_STATE are assigned in one call,
so only the latter is ever visible.

The actions are the calls the event loop makes: `Request`, `Cancel`, `Tick`
(a refused request, or a waiter whose timeout ends), `ReceiveStatus`,
`ReceiveSetup`, `ReceiveFilters`, `ReceiveNothing` (a pass with nothing new),
`LoseConfiguration`, `Reconnect`, `Prepare` (the bus gives no slot) and
`Transmit` (prepare, write and receipt, with a clock jump up to `ReceiptLag`).
The surroundings are open: any status of `Statuses`, any availability, any
reconnection may come next, more than the connection would ever allow, so what
holds here holds of the real one.

Definitions whose comment says *mutant* are deliberately wrong variants of the
definition that follows them; no specification uses them.  They document which
mistake each property would reveal.

### TransactionBarrier
What `docs/phase3_design.md` promises of physical actions, with no goals, times
or observations: idle, outstanding or doubtful, and the earliest epoch in which
the next action may be sent.  CommandEngine implements it under the mapping
`phaseBar`, `floorBar`.

### CommandDelivery
The engine with the spa it commands, instead of an open environment: pump 1 as
`tools/simulator/server.py` simulates it, a line that applies each toggle within
`LineDelay` or loses it (`_delayed_pump`, `drop_pump_commands`), whatever becomes
of the connection, and statuses that report the pump as it is.  In every
behaviour in which `forcedLow` holds the controller keeps the pump circulating
and turns off into low (`pump1_forced_low`); the others are free of that.
Nobody presses the panel, and `LineDelay < ResyncSettle`: `phase3_design.md`
calls the settling interval an explicit policy assumption, and this module
shows what it buys: with a delay as long as the settling interval TLC finds a
goal verified while a toggle is still under way, since nothing tells a lost
toggle from a slow one.

### Runtime
CommandEngine with the participant that feeds it.  `Iterate` is one pass of the
connection's loop with everything it calls, in its order: `received` for the
message read, `update` (a new epoch or configuration starts over, metadata is
refreshed, a query times out, the engine observes), the end of the socket if the
engine asks for it, else `prepare` (guards first, then a query or an action) and
the write.  `async_update_filter` is a record `call` whose phase is the `await`
it is at: settle, read, write, confirm; a step of it and a pass of the loop
interleave freely.  The controller keeps the real filter record, answers
queries late or never, and reflects writes on the bus.  `Untouched` says when the
record is the caller's to keep: nobody uses the panel, and when the record was
asked for, no answer to an earlier filter query and no earlier write was still
under way.  The last condition came out of the proof: a change that gave up
while its write was still in the controller's hands, followed by another change,
may have its record read before that write takes effect.

### ChannelSession
`transport/channel.py` as operators on a session record, one per method:
`Observed`, `Considered`, `Expired`, `Reply`, `Sent`, `Idle`.  `observe` is
stated for all the frames of one read, because `_session` calls it for every
frame before anything else looks at the session.  A frame is a record of a kind,
an address, and for an assignment the nonce it answers.

### BusArbitration
`BusPolicy` and the part of a pass of `_session` that writes.  A pass has
one of three ends: `Retire` (the missed slot is given up, the socket closed),
`Manage` (a reply of the channel session is written) and `Listen` (at most one
query or command, then the return of an unused slot).  `configured` is the
requested mode, which never changes; `connected`, `session` and `policy` are of
one socket; `requested`, the nonces requested with so far,
stands for both `_assignment_requests` and `_assignment_nonces`.  `writes` is
what the last pass wrote.  The receive timing of a read is one of `Timings`: its
last frame is not the end of what arrived, the loop comes to it after
`cts_window`, or neither.  In `Listen` a query or a command and the return of the
slot each ask `Allows`, the second with the policy the first left behind.
`Granted` is what a granted request records: the time of a direct write
(`lastTx`) and that the slot is used (`consumed`).  `consumed` stands for the
comparison of `received_at` with `_consumed_at`: a later read is received later,
so `Noticed` opens the slot again, and within one pass the two are equal.  A
query and a command are one parameter, `wanted`, because a query is sent before
the connection is READY and a command only after it.

The bus is open: every sequence of up to `MaxRead` frames may be read at any
time, from any mixture of offers, other clients, polls and statuses.  Only one
thing is required of the controller, that an assignment which answers a request
answers one that was made; it may be any number of sockets late.  What the model
does not enumerate: other clients' requests (type 1), malformed frames, and type
0x16, which blocks like the other alternative families but is no evidence for
`channel_seen`.  Types 33 and 39 are the kind *setting*: `policy.py:106` takes
them for another sender on the fixed address, `channel.py:144` does not take them
for client traffic on an assigned one.  *NeverOnForeignAddress* goes by what each
mode recognizes, so it says nothing about a client that only sends those two
types on an assigned address; the documents (`protocol_sources.md:165`,
`home_assistant.md:99`) do not make that exception, and the hazard at
`channel.py:144` records it.  A failed attempt to connect replaces the policy without an
epoch and has no other effect, so it is no action.

### Connection
The one task of `connection.py`, in the two modes that other clients' traffic
forbids.  `conn` has a field per attribute that `_session` keeps; a pass is the
chain `Received`, `Synchronized`, `Transitioned`, `Queried`, `Healthy`,
`Observed`, in the code's order, with the early ends (`Recovered`) between them.
Times are ages that stop at the threshold they are compared with, so time is
unbounded and the state space finite.  The network is `wild` until, at a moment
of its choice, it becomes `benign` or `silent` for ever: safety is checked in
every world, recovery in the benign one, the end of silence in the silent one.
What the participant does is reduced to `asking`, whether it is busy.

### BathingSession
The plain and the bathing session, their runner and the store around them.
`session` is what the runner has in memory, `durable` what a restart would find,
`saving` the `await` of a save with what follows it (`then`).  The engine below
is reduced to one goal of the session, one of a user and one message in flight,
because the properties are about records and goals; the panel, the link, the
disk, the clock and the process interfere.  `orig` is a ghost: the spa as the
session found it, into which every edit of the user is taken over in the range
in which it lands, since that is what is to be given back.

The heat mode has its three values.  `Transient` is Ready-in-Rest: the controller
enters it from Rest because of the jets (`Jets`) and leaves it for Rest
(`TransientEnds`) whenever it likes, and nothing is told but by the next status.
A session that finds it notes Rest (`OriginalMode`, `range_session.py:137`), and
needs two toggles to Ready: `plan` expects only Rest of the first one (`Step`,
`planning.py:38`), the engine settles a message that shows its step or its goal
(`Shown`) and plans again as long as the goal is not reached (`Outcome`).  Given
back is therefore the mode's policy (`Policy`), as `docs/phase4b_design.md`
(lines 107-109) demands: a transient mode counts as Rest and is never brought
about again.

### EnergyAccount, Coordinator
`EnergyAccount` has `EnergyCounter` and its controller as operators; a power is
one rating for everything that runs.  `Coordinator` has the callers of commands
with their shared goals, setup, every `await` of every overlapping close, the
watcher, both stores with each step of a save, and crashes.  The runtime below is
reduced to what the adapter sees: goals that end (how is not distinguished), a
task that runs until it is cancelled, snapshots.  The outdoor sensor never
changes here (it does in HeatingLearner), and while Home Assistant stops nothing
is read back.

### Wire, FrameStream, SimulatedSpa, HeatingLearner, MCLab
`Wire` has every decoded message and encoded command on their real octets.
`FrameStream` is the envelope, the checksum and the incremental parser; nothing
in a frame is escaped, so the parser must tell a delimiter from an octet that
looks like one.  `SimulatedSpa` is the simulator with its scenarios and its
laboratories, and clients that plan with SpaModel from the last status that they
decoded with Wire.  `HeatingLearner` is the segment collector with what feeds
it.  They share no state, so `MCLab` runs one machine per behaviour, chosen by
`part`.

### Proof modules
CommandEngineProofs, EngineHistoryProofs, DeliveryProofs, RuntimeProofs, BusProofs,
ConnectionProofs, BathingProofs and CoordinatorProofs; see below.

## Runs

* `engine_retry` (NothingAfterAmbiguity, BudgetRespected, BarrierSpec). One pump goal that costs up to three physical actions while statuses, disconnections, timeouts and resynchronizations interleave: after an action of unknown outcome nothing is sent before the state settled in a later epoch, the budget holds, and the engine implements the transaction barrier.
* `engine_replace` (TypeOK, OneTransaction, ActionsAreOwed, TerminalIsFinal, OutcomesStand, EverythingResolves). Two requests for one pump, with deadlines, blind replacement, cancellation and delayed receipts: at most one goal and one action are outstanding, receipts are never refused, ended goals keep their outcome, late observations never make a success, and, under fair ticking and a fair clock, every deadline and every window ends.
* `engine_pair` (AcknowledgedOnce, SettledBeforeRetry). A reminder acknowledgement and a light share the one transaction slot while the displayed reminder changes by itself: the acknowledgement is transmitted at most once, and ambiguity of one control delays the other until the state settled again.
* `delivery` (PlanStillHolds, JetsStayStopped, SuccessIsReal). A pump behind a line that delays and loses toggles, with disconnections, replaced goals and timeouts, free or kept circulating by the controller: no toggle reaches a speed it was not planned for, an off goal ends as failed once the jets are stopped, and a verified goal is what the pump really does.
* `bus_reads` (AckAnswersRequest, OneWrite, SlotsRespected, FailedIsSilent). Every mode, two sockets, reads of up to two frames: offers answering the present or the previous request, the same or another address, another client using it, a second sender that queries, commands or only sets something, a slot with and without something to send: the query or the command and the return of the slot ask for it one after the other; without an assignment silent from the very read in which addressed traffic is first seen.
* `bus_sockets` (BusTypeOK, AssignmentsBounded, HandshakeResolves). Three sockets and a budget of two requests, slower traffic and an address no client may have: late answers to a retired nonce are not acknowledged, the budget spans the sockets, and under fair passes and a fair clock no request stays pending beyond its window.
* `runtime` (RuntimeInv, ConditionsKept, FreshRecord, FilterConfirmed). The metadata queries, a filter change over its read, write and readback, and guarded requests that replace each other, against a controller whose answers are late or lost, whose writes are late or refused, and whose panel is used; with a reconnection, a changed configuration or a withdrawn condition in between.
* `connection` (ConnectionInv, NothingLingers, ProgressIsEarned, ConnectionLives). The connection task in both shared-bus modes under every mixture of messages, failures of the socket, missed slots and a busy participant: what READY, a shown status and the back-off rest on, the deadlines, and, under a fair event loop, recovery once the network behaves and an end to silence.
* `bathing` (BathingInv, SendsAreOwed, EndsRestored, Finishes). A plain or a bathing session, started in either range and in each heat mode (Ready-in-Rest included), runs to its end while the user cancels, adjusts, abandons or edits in any stage and during any save, and while something goes wrong (a lost link or message, a restart, a failed save, the panel, the clock set back, controls disabled): checkpoints stay constructible, goals follow the record, everything is given back, an edit stands, no heating is asked for after the end, and the session ends.
* `coordinator` (CoordinatorInv, BooksAreHonest, OthersGoalsSurvive, EveryoneReturns). Callers share, replace and drop goals while controls are disabled and the entry closes; overlapping and failing closes give up the bus before anything is saved; what was learned and the estimated energy survive gaps, new ratings, failed saves and crashes without anything lost or invented.
* `coordinator_unreadable` (UnreadableIsKept). When reading the stored energy total fails with an error the code does not catch, the setup fails, and closing it writes a total of zero over the record.
* `lab` (LabInv, CommandsDoWhatIsPlanned, LearnsFromWholeSegments). The machines that share no state with the engine, one per behaviour: frames survive every fragmentation, junk, false delimiters and a reconnection; on the simulator, every planned, encoded, applied and decoded command of one or two clients does what was planned and nothing the clients do raises; and heating segments are learned only from unbroken, plausible windows.

Some properties are conjunctions of named parts that one mistake at a time may
break: `OutcomesStand` of `NoLateSuccess` and `OutcomeNeverForgotten`,
`ActionsAreOwed` of `OneGoalPerControl`, `WindowBeforeDeadline` and
`ReceiptAccepted`, `ConnectionInv`, `NothingLingers`, `ProgressIsEarned`,
`ConnectionLives`, `CoordinatorInv`, `BooksAreHonest` and `LabInv` of the parts
named in their definitions, each with a comment of its own.

Bounds of the engine's runs: `MaxTime`, `MaxRequests`, `MaxSequence`, `MaxEpoch`
and `MaxSends` end the exploration, not the system, which is why the runs do not
check deadlock.  Durations are scaled to the smallest integers in the same
order as the defaults (guard 0.2 s, settling 0.5 s, maximum age 3 s,
confirmation 4 s and 9 s for filters): guard 1, settling 1, age 2, windows 2 and
3.  An ambiguity needs a send, a timeout, a new epoch, two statuses and another
send: three sends, three epochs and five statuses are enough for two in a row.
Two requests are enough for replacement, cancellation of a successor and late
answers, since an intent only ever meets the next one of its control.

`runtime` adds a filter change, two possible configurations, one use of the
panel and a line that delays by one unit.  Its constraint `Relevant` cuts what is
seen elsewhere: exploration starts when the metadata of the first epoch is
complete, ends when nothing requested is pursued any more, and looks at filter
changes, with one disturbance, and at guarded requests, with two, separately.

The bus runs scale the assignment window of 2 s to one tick (`bus_reads`) or two
(`bus_sockets`) and the pace of direct writes to one.  Two addresses and another
that may not be owned are enough for a conflict, a collision and a refused
offer; two sockets for a late answer, three to exhaust a budget of two; reads of
two frames for everything that depends on the order within a read (an offer and
its contradiction, a collision and a slot).  `BusProofs` shows that longer reads
add nothing.

`connection` has no bound on time or on sockets.  Its thresholds keep the
orders that `Timing` enforces (degraded before stale before recovery, the initial
back-off at most the largest), and only those: to keep the ages small, the
deadlines of the connection attempt and of the first frame (12 s each by
default), the refresh interval (60 s) and the healthy reset (30 s) lie below
`RecoverAfter` (12 s), as a caller may configure them, where the defaults lie at
or above it.  Each is compared with an age of its own, and the proofs about the
connection hold for every order (`TimingParameters` demands only the enforced
ones).
The back-off doubles more than once before it is capped.
A read is any set of messages; what is read along with other clients' traffic is
limited to one message more, since such a read ends the same way.

`bathing` has one session of one kind or the other, one request more, and one
disturbance of any kind in any stage.  It starts (`Found`) with a spa in the high
range at rest, in the low range ready, or in the low range in the transient mode,
with a high target below the minimum in two of them; the other combinations
are met when the panel, the jets or a user changes one of them before the session
starts, and all twelve gave the same answers in a longer run (1.9 million states).
The ranges' targets are disjoint there, so that a target tells its range; the
proofs cover any spas to start with, and ranges that overlap.
`coordinator` chooses one of four plans, each a budget for what may happen:
*Calling* (three commands, two callers that go away, a change of options, a
close), *Closing* (two overlapping closes, a fault and two lessons), *Crashing*
(a restart and a fault) and *Repricing* (a new rating and a fault).

`lab` uses octets of three bits and frames of at most five of them, so that
checksums and payloads do take the value of the delimiter; three pieces, read in chunks of up to three, are enough for a frame
between junk and for a frame cut by another.  The nine worlds are the
simulator's scenarios with one or two clients and up to three commands; a
scenario changes after one cycle instead of four.  The learner runs for eight
units, longer than its longest segment, with one disturbance.

Fairness, and why the code justifies it:

* `FairSpec`: the clock advances, and `tick` is called again and again.  The
  connection calls it in each pass, at least every `Timing.tick` = 0.1 s while
  connected; during a back-off (up to 60 s) the waiter of a goal calls it when
  its own timeout ends (`runtime.py:372`).
* `FairBusSpec`: time passes and passes follow each other while a socket is
  open.  The read of `_session` times out after `Timing.tick`, and every write
  is bounded by `cts_window`.
* `FairConnectionSpec`: time passes, the loop comes round once in every unit, a
  delay and an attempt to connect end (`wait_for` bounds both).
* `FairBathingSpec`: the runner ticks, saves and commands end (each is bounded by
  a timeout), the engine reports, the clock advances, and a transient mode ends.
  The last one is about the controller, and is needed: when the mode becomes
  transient after the step `restore_mode` was saved and before the tick that would
  request Rest has returned to Rest, `_attempt` may already hold this goal (it is
  set whenever the observed value equals the goal, `session_runner.py:240`), and
  the runner then requests nothing ("setpoint_changed") until the mode is Rest
  again or a new connection begins.
* `FairCoordinatorSpec`: what was awaited is resumed, deadlines of goals pass,
  and saves end.  Liveness of the callers rests on the engine's, shown in
  `engine_replace`.

Nothing else is assumed of the spa, and nothing of the network, the bus, the disk
or the users.

The run `coordinator_unreadable` shows a disagreement of code and
documentation: `energy.py:88` catches four kinds of errors when it reads the
record, `docs/estimated_energy.md:109` promises that an unreadable record is
never replaced by zero; an error of another kind fails the setup, and the close
that follows writes zero over the record.

## Proofs

The theorems hold for any set of controls, goals, channels, thresholds, targets
and callers, and without bounds other than those of the guards.  Every
property was model-checked before it was proved.  Few of them are inductive alone; what has to be added is the same in kind everywhere: what a
piece of memory (an identifier, a deadline, a record, a mark) still means about
the rest of the state.

### The command engine

`CommandEngineProofs`:

* `Invariance`: The inductive invariant: the engine is well-formed, at most the newest goal of each control is open, and every ambiguous action is of a past epoch or the reason of the present resynchronization.
* `TypeCorrect`: Every identifier the engine keeps denotes a request or transmission that was really made, and no control spends more than its budget, for any number of controls, goals and epochs.
* `AtMostOneTransaction`: At most one physical action is ever outstanding, and it is the one the engine calls in flight.
* `SilenceAfterAmbiguity`: After an action of unknown outcome nothing is sent in its epoch.
* `NewestGoalOnly`: Only the newest request of a control is ever pursued.
* `OutcomesAreFinal`: A goal that ended keeps the outcome its caller saw.
* `ImplementsBarrier`: The engine implements the abstract transaction barrier.

*NothingAfterAmbiguity* needs to
know that every ambiguous action is either of an epoch the engine has left or
the very reason of the present resynchronization, and that no epoch of the
history is ahead of the observed one; *OneGoalPerControl* needs that the latest
intent of a control is an intent of that control.  `IInv` is the conjunction of
these with the well-formedness of the engine (`GoalsOK`, `HistoryOK`,
`BarrierOK`).  There is one lemma per method: from a well-formed
engine it returns a well-formed engine, leaves ended goals alone, and moves the
barrier by one of five steps (`Kept`, `Doubted`, `Resolved`, `Trusted`,
`Started`).  `StepOK` combines them over the actions, and the theorems, the
refinement included, follow from that.

`EngineHistoryProofs` is about what is sent again and again:

* `HistoryInvariance`: What a sent action remembers agrees with its intent and with what has been observed since: budgets, acknowledgements, deadlines, epochs, and the settling of ambiguous actions.
* `BudgetOfAnIntent`: One intent never costs more than MaxActions physical actions, whatever is lost, retried, inherited or superseded.
* `OneAcknowledgement`: A displayed reminder is acknowledged at most once per intent.
* `NewsBeforeRetry`: An action that follows an ambiguous one rests on at least two newer statuses and comes at least the settling time after the first of them.
* `EveryActionIsOwed`: Every action belongs to the newest goal of its control, leaves its deadline time to confirm it, and its receipt is never refused.
* `EveryOutcomeStands`: No goal past its deadline ever becomes a success, and a transaction leaves its slot only with an observed value or by raising the resynchronization barrier.

Every method but `request` and `sent` *continues* the engine (`Continues`): it
writes verdicts and stages, and leaves alone what was asked for and what was
sent; without an observation it is `Subdued` besides, so that a doubt is new only
behind a raised barrier.  These relations compose, so there is one lemma per
method and one that carries the invariants over all of them.  `HInv` adds to
`IInv` what a sent action remembers: `BudgetOK` (the actions of an intent are
spent from the budget of its control, one by one), `AckOK` (a transmitted
acknowledgement ends its intent, or is outstanding), `WindowOK` (a confirmation
window ends before the deadline), and, for what may be sent now, `Current`,
`Dated`, `SettlingOK`, `TrustOK` and `SettledOK`: nothing observed is from the
future, a settling reading is newer than every ambiguous action, and once the
barrier is lifted two newer statuses and the settling time lie between.

*OutcomesStand* needs to know that a value once asked for or expected is one
(`Known`: no goal and no expectation is `None`), and that a goal past its deadline
is disposed of by the `tick` that every method which could verify it begins with
(`Succeeded`, `Concluded`).

The assumptions are the checks the constructor makes (`EngineParameters`), that
the inputs are of their types and no goal asks for nothing (`EngineInputs`: what a
status may hold is `StatusOK`), that the blower's capability was decoded, and that
`None` is no value.

### The engine with the physical pump

`DeliveryProofs`, on top of `EngineHistoryProofs`:

* `DeliveryInvariance`: The inductive invariant of the engine with the physical pump: what every toggle under way, every status and the next plan know about the pump, the epochs and each other.
* `EveryToggleFindsItsSpeed`: Whatever is delayed by less than the settling interval, lost, replaced, retried or reconnected, every toggle under way finds the pump at the speed it was planned from.
* `NoJetsAgain`: An off goal that has stopped the jets sends nothing more, although the controller kept the pump circulating: only an ambiguous toggle is ever followed by another of its goal.
* `EverySuccessIsReal`: When a pump goal is reported as verified, the pump runs at the desired speed and no command is left on the line that could still change it.

The invariant `DInv` relates the speed, the last status received and the last
transaction: the status shows the speed, unless that transaction is undecided
and took effect since (`SeenOK`, `NewsOK`); a toggle is under way only while its
transaction is the last one and in doubt (`LineOK`); and an undecided one has a
barrier that is not lifted before the line must be empty.  The engine sees
nothing of the line.  That a settling interval longer than the delay is enough,
and that two equal statuses so far apart are needed, is exactly what the proof
uses.  The assumptions besides the engine's are those of the run: the delay is
shorter than the settling interval, and pump 1 has two speeds and is the only
control (`PumpAssumption`), as in the simulator's scenario.

### The runtime

`RuntimeProofs`, on top of `EngineHistoryProofs`, for any spa, controls, goals,
budgets and losses:

* `RuntimeInvariance`: The inductive invariant of the participant: every world an iteration passes through has its queries in budget, its guards with the requests and conditions they are of, and an engine that saw no more than was received.
* `BudgetOfAQuestion`: Whatever is lost, late or mismatching, a question costs no more than its attempts, the readback of a filter write no more than that budget, and a guard always is of its request, with that request's condition.
* `ConditionsAreKept`: For any controls and interleaving, a request is transmitted only while its own condition holds, and given up by the connection only because its own condition fails.
* `WritesRestOnReads`: A filter change is computed from a record read after the change was asked for, in the same epoch: the first half of FreshRecord.
* `FilterInvariance`: The inductive invariant of a filter change: what the call, the answers under way, the snapshot, the engine and the controller's memory say of one record agree, unless the panel is used or an earlier question or write was still under way.
* `EveryWriteIsFresh`: A filter write is computed from a record read for it, and when it is transmitted, the cycle the caller did not ask about is as the controller has it at that moment, unless the panel is used or an earlier answer or write was still under way.
* `EveryFilterSuccessIsReal`: A filter write is decided only by a record received after it, and a filter change that was transmitted succeeds only when the controller has it, with the same exceptions.

An iteration is a chain of operators on a *world* of snapshot, attributes and
engine, and there is one lemma per operator: from a world that is `Met` it
returns one that is, and says what it did to the epoch, the conditions and the
engine.  What the engine's methods do is cited: all but `request` and `sent`
continue it (`Continues`) and cancel nothing but an acknowledgement
(`Uncancelled`).  The invariant `RInv` is `Sound` and `SightOK`.  A query that is
to be asked has an attempt left (`QueryOK`), and the reads of a write in flight are
never more than the attempts at its question (`ReadsOK`): that is why a mismatch,
which begins the attempts again, does not begin the budget again.  Every open
request with a condition has the guard of its control (`GuardedAll`): that is why
the guards, which are kept per control, decide for requests.  A read that
succeeded for the call is no older than its question (`ReadOK`), and a READY
connection's engine sees just what was received (`SightOK`): that is why the
record the call computes with is the one it asked for.

The second half of the module is about the content of the record, which is in
five places at once: the controller's memory, the answers on the line, the
snapshot, the engine's observation and the written goal.  `FInv` says how they
agree while nobody disturbs them (`Pristine`): while the call reads, an answer
under way is what the memory has, and while it writes, an answer that shows the
goal does not pretend (`TrueLine`, `Truthful`); no write is under way and no
reflection on the line while the call reads (`Undisturbed`); the record read for
the call is the memory's (`Remembered`); the write under way is the call's and
the memory has its other cycle (`Written`); and once the write is decided, or a
goal that was sent is reported, the memory has the goal (`Achieved`).
`Owns` adds that an open filter goal is the one the call waits for, and `Away`
that what an epoch knew is gone with it.  A goal may also succeed without being
written, when the record already shows it; nothing is promised of the controller
then, beyond what was read.

The assumptions besides the engine's are `RuntimeParameters` (positive budgets,
`filters` among the controls), `NoneIsApart`, and `FilterParameters`: a record is
a pair of cycles, and filter goals come from `async_update_filter` alone, which
is the only caller of `request(Control.FILTERS, ...)` in the code.

### The bus

`BusProofs` proves, for any mode, channels, nonces, budget and traffic, and for
reads of any length:

* `BusInvariance`: The inductive invariant of the bus: the pending address is the only free one offered to this request, and an address that is kept was never heard from another client.
* `BusTypeCorrect`: Sessions, evidence and requests keep their types; a session has an address exactly when it acknowledged one.
* `OneWritePerPass`: Whatever a read contains, of any length, at most one frame answers it: what a query or a command has consumed is not granted to the return of the slot.
* `AckAnswersOwnRequest`: An acknowledged address was offered in answer to the request of this very socket and was the only free one that was.
* `ForeignAddressRespected`: Nothing is written on an address another client was heard on.
* `AssignmentBudgetHolds`: The lifetime budget holds over any number of sockets and every request has a nonce of its own.
* `VetoHolds`: A client without assignment never writes once other addressed traffic was seen.
* `SlotsAreRespected`: Nothing is written on an address somebody else uses or where somebody else manages the addresses: for any mode, traffic and length of reads.
* `FailureIsSilent`: After a collision, a conflict or a missed handshake nothing is written until the next socket.

Its inductive invariant is `BusInv`.  *AckAnswersRequest* needs `PendingOK`
(among the addresses offered to this request, the pending one is the only one no
other client uses) and `NoncesOK` (a nonce stands for one request, so an offer
with the session's nonce answers the session's request, `ReadAnswers`).
*SlotsRespected* and *FailedIsSilent* need `OwnershipOK`: an address that
was acknowledged and not given up was never heard from another client, and a
session that may transmit has not failed.  There is a lemma per method of the
session and one per action.  The assumptions are `ChannelParameters`,
`BusParameters` (there are more nonces than requests, the fixed address is no
channel) and `TrafficAssumption` (an assignment comes from `Assignment`).

### The connection

`ConnectionProofs`, for any thresholds in the order of `TimingParameters`:

* `ConnectionInvariance`: The inductive invariant of the connection task: its ages, attempts and deadlines fit its state, and what it shows and trusts is as recent as the state says.
* `ReadinessIsJustified`: READY, and everything asked of the controller, rests on a complete synchronization of this socket and on slots that are recent enough; a veto silences it.
* `NothingOldIsHeld`: Whatever the thresholds, no status older than StaleAfter is shown as current and no pass leaves a socket open beyond a deadline.
* `ProgressIsEarnedAlways`: A synchronization ends on a status newer than its beginning, and the back-off starts over only after READY has lasted.

A pass is a chain of operators on the attributes, and there is one lemma per
operator: from attributes that are `Sound` (types, a `Dialogue` in which the two
questions follow each other, `AttemptsLeft` while one is pending, `Heard` before
anything is shown) it returns such attributes and says which ages it restarts.
`CInv` adds what links them to the time since the last pass: `ReadyOK`,
`ShownOK`, `InTime` (each deadline, one unit later while the pass is due),
`SyncOK` (a status that counts is younger than the synchronization), `HealthOK`
(the health is no older than READY has lasted, so a back-off that starts over
was earned) and `AskingOK` (the participant only asks when the connection has no
question of its own).

### Sessions

`BathingProofs`, for any targets, times, kinds and numbers of disturbances and
requests:

* `BathingInvariance`: The inductive invariant of a session: memory and disk agree, no goal outlives its record, and whatever still differs from the spa as found is in the record that remains to be worked off.
* `SessionsCanBeReadBack`: No operation, in any order and with any targets and times, makes a checkpoint that a restart would refuse.
* `OnlyWhatIsOwedIsSent`: A session's goal is sent only from the record on disk, never for a target the user has edited, and never for heating once the end was seen.
* `EverythingIsGivenBack`: A session that ends by its own restoration has given back range, target and the heat mode that lasts (for Ready-in-Rest that is Rest), for any number of lost messages, crashes, failed saves and edits, and whenever the jets make the mode a transient one.

The invariant has three parts.  *Records*: everything kept is constructible
(`Kept`), and memory and disk agree unless a save is under way or has failed
(`Mirrored`).  *Goals*: the session's goal follows the record on disk, a user's
edit releases the target (`EditsOK`), and after the end only restoration is left
(`IntentOK`, `ManualOK`, `EndOK`, `FitsOK`).  *The debt* (`DebtOK`): for every
checkpoint that a tick, a save or a restart may yet act upon, whatever differs
from the spa as found, allowing for the one message in flight and for an
observation that is behind, is owed by a step that checkpoint still has to take.
That is why the end of a session, the step that owes nothing, has given
everything back.  There is one lemma per action.

### The adapter

`CoordinatorProofs`, for any controls, callers, closers, plans and ratings:

* `CoordinatorInvariance`: The inductive invariant of the adapter: who waits for which goal, how far each close has come, and where every counted or learned amount is.
* `ClosingIsOrderly`: For any number of callers, controls and faults, nothing is pursued that nobody waits for, and no close saves before the bus is given up or acts after it.
* `NothingIsMadeUp`: Even with unreadable records, the estimate never exceeds what was drawn under observation, and nothing learned is forgotten unrecorded.
* `BooksStayHonest`: Provided every error of reading the energy record is caught where it is read, a published total also never falls; the run coordinator_unreadable shows what happens otherwise.
* `OthersAreLeftAlone`: A caller that goes away ends nobody else's goal.

The invariant is `Books` (who waits, waits for a goal; what is pursued is
pending, is waited for and is the newest of its control), `Life` (how far each
close has come, and that whoever is past the runtime has given up the bus) and
`Ledger` (what is learned or counted is in memory, in a save under way or on
disk, and what is counted was drawn under observation).  That a published total
never falls needs `LoadFaultsAreCaught`: it is exactly what the run
`coordinator_unreadable` refutes otherwise, so the theorem names it as a
hypothesis instead of leaving it out of the model.

### Only model-checked

*Liveness* (EverythingResolves, HandshakeResolves, ConnectionLives, Finishes,
EveryoneReturns) and *ENABLED* are out of the prover's reach.
*LabInv*, *CommandsDoWhatIsPlanned* and
*LearnsFromWholeSegments* are about computations on octets and sums over samples,
which need induction over data.

## Not modelled

The trace of events and the revision counter (read by nobody in the core), the
bounded length of the histories (100 entries; the latest intent of each control
is kept apart, `_active`), wording of reasons, counters and diagnostics.  The
conversion of a session's local end time (`session_time.py`): a calculation over
time zones.  The regression, forecasts and errors of the prediction:
floating-point calculations.  Entities, forms, services and diagnostics of the
adapter, which present what the modelled parts keep; hence no property covers
the percentage of a three-speed blower (`fan.py:46`).  The
smoke client, a command line around the runtime.  Floating-point time is an
integer.  `PROJECT.json` lists every component with its status.

## Plan

1. The engine, its barrier, their proofs: done; the history proofs: done.
2. The bus and its proofs, the connection and its proofs: done.
3. Sessions, the adapter with its stores, and their proofs: done.
4. The runtime and its proofs: done.  The wire, the simulator and the learner:
   modelled and checked.
5. Left to prove: the computations on octets and sums (LabInv,
   LearnsFromWholeSegments), which need induction over data.
