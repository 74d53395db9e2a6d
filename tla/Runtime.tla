------------------------------ MODULE Runtime ------------------------------
(***************************************************************************)
(* src/balboa_rs485/runtime.py: the participant of the connection, which   *)
(* asks for metadata and offers the engine's actions, and SpaRuntime, whose*)
(* filter change reads, modifies, writes and reads back a whole record.    *)
(*                                                                         *)
(* The connection is its loop: a read, what the participant makes of it,   *)
(* and what it writes are one step (Iterate).  The controller keeps the    *)
(* filter record; answers, reflections and writes are under way for up to  *)
(* LineDelay, or are lost, and somebody may use the panel.                 *)
(***************************************************************************)
EXTENDS CommandEngine

CONSTANTS
    QueryTimeout, QueryAttempts, MetadataRefreshInterval,  \* of Timing
    Cycles,         \* settings of one of the two filter cycles
    FirstRecords,   \* the records the controller may start with
    Changes,        \* <<cycle number, setting>> pairs a caller may ask for
    Granted,        \* whether the bus gives a slot
    Lossy,          \* queries whose answers may be lost
    LineDelay,      \* how long an answer or a write may be under way
    Revisions,      \* configurations the spa may report, 1..n
    PanelTimes, MaxVersions  \* bounds on the uses of the panel and on the reads of the record

ASSUME RuntimeParameters ==
    /\ {QueryTimeout, QueryAttempts, MetadataRefreshInterval} \subseteq Nat \ {0}
    /\ FilterConfirmationTimeout >= QueryTimeout * QueryAttempts
    /\ LineDelay < QueryTimeout + 1
    /\ "filters" \in Controls

(* A filter goal comes from async_update_filter alone.                     *)
FilterRecords == Cycles \X Cycles
ASSUME FilterParameters ==
    /\ FirstRecords \subseteq FilterRecords /\ Changes \subseteq {1, 2} \X Cycles
    /\ None \notin FilterRecords
    /\ \A goal \in Goals : goal[1] # "filters"

VARIABLES
    link,        \* "down", or "up" once the socket of the epoch is open
    ready,       \* connection.snapshot.available
    revision,    \* the configuration's signature
    commands,    \* _Commands' attributes; those it received are in snapshot
    enabled,     \* what the callers' conditions look at
    conditions,  \* the condition each request was made with
    call,        \* the one async_update_filter that holds the lock
    record,      \* the controller's filter record
    line,        \* messages to the client under way, in order
    write,       \* a filter write on its way into the record, or None
    touched      \* when the panel last changed the record, or 0

connectionVars == <<link, ready, revision>>
spaVars == <<record, line, write, touched>>
runtimeVars == <<now, snapshot, engine, connectionVars, commands, enabled, conditions, call, spaVars>>

Queries == <<"setup", "filters", "fault">>

(* A query, a pending one and a guard are told apart from their absence.   *)
ASSUME NoneIsApart ==
    None \notin Range(Queries) \cup {"action"} \cup [query : Range(Queries), at : Nat]
              \cup [intent : Nat, condition : [epoch : Nat, caller : BOOLEAN]]

-----------------------------------------------------------------------------
(* _Commands, as operators on the state s of the connection (with what was *)
(* received), the attributes c and the engine e.                           *)

MetadataComplete(c) == c.index > Len(Queries)
MetadataIdle(c) == MetadataComplete(c) /\ c.pending = None /\ ~c.refresh

WritingFilters(e) == e.inflight # 0 /\ e.history[e.inflight].control = "filters"

(* received: an answer is whatever has the type of the pending query.      *)
Matches(c, message) == c.pending # None /\ c.pending.query = message.query

Reread(w, message) ==
    /\ message.query = "filters" /\ w.c.refresh
    /\ WritingFilters(w.e) /\ w.e.history[w.e.inflight].epoch = w.s.epoch
    /\ message.content # w.e.history[w.e.inflight].desired
    /\ w.c.reads < QueryAttempts

Stored(s, c, message) ==
    CASE message.query = "setup" -> [s EXCEPT !.setup = TRUE]
      [] message.query = "filters" ->
            [s EXCEPT !.filters = message.content,
                      !.filtersAt = IF Matches(c, message) THEN now ELSE 0]
      [] message.query = "fault" -> s

Answered(c) ==
    IF c.refresh
    THEN [c EXCEPT !.pending = None, !.attempts = 0, !.refresh = FALSE,
                   !.version = @ + 1, !.success = TRUE]
    ELSE [c EXCEPT !.pending = None, !.attempts = 0, !.index = @ + 1]

RereadUnbounded(c) == [c EXCEPT !.pending = None, !.attempts = 0]   \* mutant
RereadAgain(c) == [c EXCEPT !.pending = None, !.attempts = c.reads]

Received(w, message) ==
    IF w.c.epoch # w.s.epoch THEN w
    ELSE [w EXCEPT !.s = Stored(w.s, w.c, message),
                   !.c = IF ~Matches(w.c, message) THEN w.c
                         ELSE IF Reread(w, message) THEN RereadAgain(w.c) ELSE Answered(w.c)]

(* update: a new epoch or configuration starts over, metadata is refreshed *)
(* at intervals, and a query that is not answered ends.                    *)
Outlived(w) ==
    \/ w.s.epoch # w.c.epoch
    \/ w.s.synced /\ w.revision # w.c.configuration

Renewed(w) ==
    IF ~Outlived(w) THEN w
    ELSE [w EXCEPT !.s = [w.s EXCEPT !.setup = FALSE, !.filters = None, !.filtersAt = 0],
                   !.c = [w.c EXCEPT !.epoch = w.s.epoch,
                                     !.configuration = IF w.s.synced THEN w.revision ELSE 0,
                                     !.refresh = FALSE, !.success = FALSE, !.version = @ + 1,
                                     !.pending = None, !.index = 1, !.attempts = 0, !.reads = 0,
                                     !.next = now + MetadataRefreshInterval]]

Refreshed(w) ==
    IF MetadataIdle(w.c) /\ w.e.inflight = 0 /\ now >= w.c.next
    THEN [w EXCEPT !.c = [w.c EXCEPT !.index = 1, !.attempts = 0,
                                     !.next = now + MetadataRefreshInterval]]
    ELSE w

Exhausted(c) ==
    IF c.refresh THEN [c EXCEPT !.refresh = FALSE, !.success = FALSE, !.version = @ + 1]
    ELSE [c EXCEPT !.index = @ + 1]

TimedOut(c) ==
    IF c.pending = None \/ now < c.pending.at + QueryTimeout THEN c
    ELSE IF c.attempts < QueryAttempts THEN [c EXCEPT !.pending = None]
    ELSE [Exhausted(c) EXCEPT !.pending = None, !.attempts = 0]

ObservedBy(w) ==
    [w EXCEPT !.c = TimedOut(@),
              !.e = IF w.s.synced THEN Observed(@, StateOf(w.s, w.ready), now)
                    ELSE Suspended(Ticked(@, now))]
Updated(w) == ObservedBy(Refreshed(Renewed(w)))

(* prepare: drop the guards of goals that ended, cancel those that may not *)
(* be sent any more, then offer a query or the engine's next action.       *)
Holds(condition, w) ==
    /\ condition.epoch \in {0, w.s.epoch}
    /\ condition.caller => enabled

Guarded(w) == {c \in Controls : w.c.guards[c] # None}
Ended(w, c) == ~Open(w.e, w.c.guards[c].intent)

Doomed(w) == {c \in Guarded(w) : ~Ended(w, c) /\ ~Holds(w.c.guards[c].condition, w)}

Guarding(w) ==
    [w EXCEPT !.e = [w.e EXCEPT !.intents = [id \in 1..w.e.counter |->
                        IF Open(w.e, id) /\ \E c \in Doomed(w) : id = w.e.latest[c]
                        THEN [w.e.intents[id] EXCEPT !.stage = "CANCELLED"]
                        ELSE w.e.intents[id]]],
              !.c = [w.c EXCEPT !.guards = [c \in Controls |->
                        IF c \in Doomed(w) \/ (c \in Guarded(w) /\ Ended(w, c)) THEN None ELSE @[c]]]]

Question(c) ==
    IF ~MetadataComplete(c) THEN Queries[c.index] ELSE IF c.refresh THEN "filters" ELSE None

Asked(w, query) ==
    [w EXCEPT !.out = query,
              !.c = [w.c EXCEPT !.pending = [query |-> query, at |-> now], !.attempts = @ + 1,
                                !.reads = IF query = "filters" /\ WritingFilters(w.e)
                                          THEN @ + 1 ELSE @]]

RefreshFilters(c) == [c EXCEPT !.refresh = TRUE, !.attempts = 0, !.success = FALSE]

Acted(w, action) ==
    [w EXCEPT !.out = "action", !.e = Sent(w.e, action, now),
              !.c = IF action.control = "filters"
                    THEN RefreshFilters([w.c EXCEPT !.reads = 0]) ELSE @]

(* prepare and, given a slot, write and receipt.                           *)
Offering(w, slot) ==
    IF slot /\ Offers(w.e) THEN Acted([w EXCEPT !.e = Prepared(@)], Offer(w.e))
    ELSE [w EXCEPT !.e = Prepared(@)]
PreparedFor(w, query, slot) ==
    CASE w.c.pending # None -> w
      [] w.c.pending = None /\ query # None -> IF slot THEN Asked(w, query) ELSE w
      [] OTHER -> Offering(w, slot)
Prepares(w, slot) == PreparedFor(w, Question(w.c), slot)

-----------------------------------------------------------------------------
(* The steps of the event loop.                                            *)

(* The state of async_update_filter between its awaits.                    *)
Idle == [phase |-> "idle", epoch |-> 0, index |-> 1, cycle |-> None, version |-> 0, at |-> 0,
         intent |-> 0, touched |-> 0, late |-> FALSE]

NewCommands ==
    [ epoch |-> 0, configuration |-> 0, index |-> 1, pending |-> None, attempts |-> 0,
      reads |-> 0, refresh |-> FALSE, next |-> 0, version |-> 0, success |-> FALSE,
      guards |-> [c \in Controls |-> None] ]

RuntimeInit ==
    /\ Init
    /\ link = "up" /\ ready = FALSE /\ revision = 1
    /\ commands = NewCommands
    /\ enabled = TRUE /\ conditions = <<>>
    /\ call = Idle
    /\ record \in FirstRecords /\ line = <<>> /\ write = None /\ touched = 0

World == [s |-> snapshot, c |-> commands, e |-> engine, ready |-> ready, revision |-> revision,
          out |-> None]

(* What the controller makes of a frame: a query is answered, perhaps late,*)
(* with the record of that moment, and a write may be reflected on the bus.*)
Message(query, content, reflected) ==
    [query |-> query, content |-> content, reflected |-> reflected, at |-> now]
WritesRecord(w) == w.out = "action" /\ WritingFilters(w.e)
Desired(w) == w.e.history[w.e.inflight].desired

Carried(w, rest) ==
    CASE w.out \in Range(Queries) -> {Append(rest, Message(w.out, record, FALSE))}
                                      \cup IF w.out \in Lossy THEN {rest} ELSE {}
      [] WritesRecord(w) -> {Append(rest, Message("filters", Desired(w), TRUE)), rest}
      [] OTHER -> {rest}

(* One iteration.  A physical action of unknown outcome ends the session   *)
(* of its epoch; else the participant is asked for something to write.     *)
Aborted(w) ==
    /\ snapshot' = [w.s EXCEPT !.synced = FALSE] /\ link' = "down" /\ ready' = FALSE
    /\ commands' = w.c /\ engine' = Suspended(w.e)
    /\ line' = <<>> /\ UNCHANGED write

Continued(w, rest) ==
    /\ Len(w.e.history) <= MaxSends
    /\ snapshot' = w.s /\ link' = "up" /\ ready' = w.ready
    /\ commands' = w.c /\ engine' = w.e
    /\ line' \in Carried(w, rest)
    /\ write' = IF WritesRecord(w) THEN [content |-> Desired(w), at |-> now] ELSE write

Iterated(w, rest, slot) ==
    IF w.e.resync = w.s.epoch THEN Aborted(w)
    ELSE Continued(IF w.ready THEN Prepares(Guarding(w), slot) ELSE w, rest)

Heard(w, message) == IF message = None THEN w ELSE Received(w, message)

Iterate(read, available, slot) ==
    /\ link = "up"
    /\ Iterated(Updated(Heard([World EXCEPT !.s = read.s, !.ready = available], read.message)),
                read.line, slot)
    /\ UNCHANGED <<now, revision, enabled, conditions, call, record, touched>>

(* Whether the connection is READY is its own business (module Connection);*)
(* it never is without a configuration.                                    *)
Health(synced) == IF synced THEN Availability ELSE {FALSE}

(* Bus order: the slot after a filter write is heard after its reflection. *)
Slots(messages, synced) ==
    IF ~synced \/ (\E i \in DOMAIN messages : messages[i].reflected) THEN {FALSE} ELSE Granted

(* What a read may bring: nothing, a status, or the next message.          *)
Reads ==
    {[message |-> None, s |-> snapshot, line |-> line]}
    \cup {[message |-> None, line |-> line,
           s |-> [snapshot EXCEPT !.status = st, !.at = now, !.sequence = @ + 1, !.synced = TRUE]] :
            st \in IF snapshot.sequence < MaxSequence THEN Statuses ELSE {}}
    \cup IF line = <<>> THEN {}
         ELSE {[message |-> Head(line), s |-> snapshot, line |-> Tail(line)]}

Iteration ==
    \E read \in Reads :
        \E available \in Health(read.s.synced), slot \in Slots(read.line, read.s.synced) :
            Iterate(read, available, slot)

(* The socket closes, and a later one opens.                               *)
Disconnect ==
    /\ link = "up" /\ snapshot.epoch < MaxEpoch
    /\ link' = "down" /\ ready' = FALSE /\ line' = <<>>
    /\ snapshot' = [snapshot EXCEPT !.synced = FALSE]
    /\ engine' = Suspended(engine)
    /\ UNCHANGED <<now, revision, commands, enabled, conditions, call, record, write, touched>>

Connect ==
    /\ link = "down" /\ snapshot.epoch < MaxEpoch
    /\ link' = "up" /\ snapshot' = [snapshot EXCEPT !.epoch = @ + 1]
    /\ UNCHANGED <<now, engine, ready, revision, commands, enabled, conditions, call, spaVars>>

-----------------------------------------------------------------------------
(* The user interface: requests with a condition, and the filter change.   *)

EpochBound == {"clock_time", "soak", "normal_operation", "ack_reminder"}
ConditionOf(c, caller) ==
    [epoch |-> IF c \in EpochBound THEN snapshot.epoch ELSE 0, caller |-> caller]

GuardInherited(old, intent, condition) ==   \* mutant: a replacement keeps the guard
    IF condition.epoch = 0 /\ ~condition.caller
    THEN IF old = None THEN None ELSE [old EXCEPT !.intent = intent]
    ELSE [intent |-> intent, condition |-> condition]
GuardOf(old, intent, condition) ==
    IF condition.epoch = 0 /\ ~condition.caller THEN None
    ELSE [intent |-> intent, condition |-> condition]

Asks(c, desired, condition, replace) ==
    LET due == Ticked(engine, now)
    IN  /\ engine.counter < MaxRequests
        /\ ready \/ Replacing(engine, c, replace)
        /\ Admissible(due, c, desired, replace)
        /\ engine' = Admitted(due, c, desired, 0, 0, replace)
        /\ commands' = [commands EXCEPT !.guards[c] = GuardOf(@, engine.counter + 1, condition)]
        /\ conditions' = Append(conditions, condition)

RequestControl(c, desired, caller, replace) ==
    /\ Asks(c, desired, ConditionOf(c, caller), replace)
    /\ UNCHANGED <<now, snapshot, connectionVars, enabled, call, spaVars>>

(* Controls are switched off, a session ends: its condition holds no more. *)
Withdraw ==
    /\ enabled /\ enabled' = FALSE
    /\ UNCHANGED <<now, snapshot, engine, connectionVars, commands, conditions, call, spaVars>>

CallStep(next) == call' = next /\ UNCHANGED <<now, snapshot, connectionVars, enabled, spaVars>>
CallOnly(next) == CallStep(next) /\ UNCHANGED <<engine, commands, conditions>>

BeginUpdate(index, cycle) ==
    /\ call = Idle /\ ready /\ enabled /\ commands.version < MaxVersions
    /\ CallOnly([Idle EXCEPT !.phase = "settle", !.epoch = snapshot.epoch, !.index = index,
                            !.cycle = cycle])

(* metadata_idle, then a read of its own.                                  *)
AnswerUnderWay == \E i \in DOMAIN line : line[i].query = "filters"

AskRecord ==
    /\ call.phase = "settle"
    /\ \/ /\ snapshot.epoch # call.epoch
          /\ CallOnly(Idle)
       \/ /\ snapshot.epoch = call.epoch /\ MetadataIdle(commands)
          /\ commands' = RefreshFilters(commands)
          /\ CallStep([call EXCEPT !.phase = "read", !.version = commands.version, !.at = now,
                                  !.touched = touched, !.late = AnswerUnderWay \/ write # None])
          /\ UNCHANGED <<engine, conditions>>

ReadUnverified == TRUE   \* mutant
ReadVerified == commands.success

Changed(original, index, cycle) == [original EXCEPT ![index] = cycle]

(* The record that was read, with one cycle changed; request may refuse it.*)
Writable ==
    /\ snapshot.epoch = call.epoch /\ ReadVerified
    /\ engine.state.filters # None /\ enabled /\ ready
Wanted == Changed(engine.state.filters, call.index, call.cycle)

WriteRecord ==
    /\ call.phase = "read"
    /\ snapshot.epoch # call.epoch \/ commands.version # call.version
    /\ \/ /\ Writable
          /\ Asks("filters", Wanted, [epoch |-> call.epoch, caller |-> TRUE], FALSE)
          /\ CallStep([call EXCEPT !.phase = "write", !.intent = engine.counter + 1])
       \/ /\ ~(Writable /\ Admissible(Ticked(engine, now), "filters", Wanted, FALSE))
          /\ engine' = IF Writable THEN Ticked(engine, now) ELSE engine
          /\ CallStep(Idle)
          /\ UNCHANGED <<commands, conditions>>

EndUpdate ==
    /\ call.phase = "write" /\ ~Open(engine, call.intent)
    /\ engine' = IF engine.intents[call.intent].stage = "VERIFIED" THEN engine
                 ELSE Cancelled(engine, "filters")
    /\ CallStep(Idle)
    /\ UNCHANGED <<commands, conditions>>

(* A timeout of one of the waits, or the caller is cancelled.              *)
GiveUp ==
    /\ call.phase # "idle"
    /\ engine' \in IF call.phase # "write" THEN {engine}
                   ELSE {Cancelled(engine, "filters"), Cancelled(Ticked(engine, now), "filters")}
    /\ CallStep(Idle)
    /\ UNCHANGED <<commands, conditions>>

-----------------------------------------------------------------------------
(* The controller and its line.                                            *)

Commit ==
    /\ write # None /\ write' = None
    /\ record' \in {write.content, record}
    /\ UNCHANGED <<now, snapshot, engine, connectionVars, commands, enabled, conditions, call, line, touched>>

Panel ==
    /\ now \in PanelTimes /\ touched < now /\ touched' = now
    /\ record' \in FilterRecords \ {record}
    /\ UNCHANGED <<now, snapshot, engine, connectionVars, commands, enabled, conditions, call, line, write>>

Reconfigure ==
    /\ revision + 1 \in Revisions /\ revision' = revision + 1
    /\ UNCHANGED <<now, snapshot, engine, link, ready, commands, enabled, conditions, call, spaVars>>

Wait ==
    /\ write # None => now < write.at + LineDelay
    /\ \A i \in DOMAIN line : now < line[i].at + LineDelay
    /\ Elapse
    /\ UNCHANGED <<connectionVars, commands, enabled, conditions, call, spaVars>>

RuntimeNext ==
    \/ Wait \/ Iteration
    \/ Disconnect \/ Connect
    \/ \E goal \in Goals, caller \in BOOLEAN, replace \in BOOLEAN :
          RequestControl(goal[1], goal[2], caller, replace)
    \/ Withdraw
    \/ \E change \in Changes : BeginUpdate(change[1], change[2])
    \/ AskRecord \/ WriteRecord \/ EndUpdate \/ GiveUp
    \/ Commit \/ Panel \/ Reconfigure

RuntimeSpec == RuntimeInit /\ [][RuntimeNext]_runtimeVars
-----------------------------------------------------------------------------
(* RuntimeTypeOK: the query cycle stays within its list, every guard is of *)
(* a request that was made for its control, with the condition it was made *)
(* with, and every request has one.                                        *)
RuntimeTypeOK ==
    /\ commands.index \in 1..(Len(Queries) + 1)
    /\ commands.pending # None => /\ commands.pending.query \in Range(Queries)
                                 /\ commands.pending.at \in 1..now
    /\ commands.epoch \in 0..snapshot.epoch
    /\ Len(conditions) = engine.counter
    /\ \A c \in Controls : commands.guards[c] # None =>
          /\ commands.guards[c].intent \in 1..engine.counter
          /\ engine.intents[commands.guards[c].intent].control = c
          /\ commands.guards[c].condition = conditions[commands.guards[c].intent]
    /\ call.phase \in {"idle", "settle", "read", "write"}

(* ReadsBounded: lost, late and mismatching answers together never cost    *)
(* more than the budget of one query: a filter write is read back a finite *)
(* number of times, and no question blocks the commands for ever           *)
(* (runtime.py: "share the same finite read budget").                      *)
ReadsBounded ==
    /\ commands.attempts <= QueryAttempts
    /\ call.phase = "write" /\ engine.inflight # 0
          /\ engine.history[engine.inflight].intent = call.intent
       => commands.reads <= QueryAttempts

Transmits == Len(engine'.history) > Len(engine.history)
Transmitted == engine'.history[Len(engine'.history)]

(* ConditionHonoured: nothing is transmitted for a request whose condition *)
(* does not hold at that very moment: controls switched off, a session     *)
(* that ended, another epoch (runtime.py: "Synchronous admission           *)
(* immediately before TX").                                                *)
ConditionHonoured ==
    [][Transmits => Holds(conditions[Transmitted.intent], World)]_runtimeVars

(* OnlyOwnCondition: the connection cancels a request only because of the  *)
(* condition that request was made with, never because of the one of the   *)
(* request it replaced (the engine itself cancels only an acknowledgement, *)
(* whose reminder is gone).                                                *)
OnlyOwnCondition ==
    [][\A id \in 1..engine.counter :
         /\ call' = call /\ engine.intents[id].control # "ack_reminder"
         /\ engine.intents[id].stage # "CANCELLED" /\ engine'.intents[id].stage = "CANCELLED"
         => ~Holds(conditions[id], World)]_runtimeVars

(* WriteRestsOnRead: a filter change is computed from a record that a query*)
(* returned after the change was asked for, in the same epoch (runtime.py: *)
(* "Fresh read/modify/write/readback").                                    *)
WriteRestsOnRead ==
    [][call.phase = "read" /\ call'.phase = "write"
         => engine.state.filtersAt >= call.at /\ engine.state.epoch = call.epoch]_runtimeVars

(* The panel was not used since the record was asked for, and no answer to *)
(* an earlier question and no earlier write was under way then: an answer  *)
(* has no number, so a late one would be taken for the fresh one, and a    *)
(* write may change the record after it was read.                          *)
Untouched == touched = call.touched /\ ~call.late

(* KeepsOtherCycle: unless somebody uses the panel meanwhile, a written    *)
(* record leaves the cycle the caller did not ask about as the controller  *)
(* has it at that moment.                                                  *)
KeepsOtherCycle ==
    [][Transmits /\ Transmitted.control = "filters" /\ Untouched
         => Transmitted.desired[3 - call.index] = record[3 - call.index]]_runtimeVars

(* FilterSuccessIsReal: a filter change that was transmitted and succeeds  *)
(* is what the controller has, unless the panel changed it meanwhile.      *)
FilterSuccessIsReal ==
    [][/\ call.phase = "write" /\ Untouched
       /\ SendsOf(engine, call.intent) # {}
       /\ engine.intents[call.intent].stage # "VERIFIED"
       /\ engine'.intents[call.intent].stage = "VERIFIED"
       => record = engine.intents[call.intent].desired]_runtimeVars

(* RuntimeInv: the books of the query cycle and of the guards are in       *)
(* order, and what is lost, late or mismatching never exceeds the budget.  *)
RuntimeInv == RuntimeTypeOK /\ ReadsBounded

(* ConditionsKept: a request is transmitted only while its own condition   *)
(* holds, and given up only because its own condition fails.               *)
ConditionsKept == ConditionHonoured /\ OnlyOwnCondition

(* FreshRecord: a filter write rests on a record read for it, and so gives *)
(* the other cycle back as the controller has it.                          *)
FreshRecord == WriteRestsOnRead /\ KeepsOtherCycle

(* FilterConfirmed: a filter change succeeds only by a readback of after   *)
(* its write, and then the controller has it.                              *)
FilterConfirmed == FilterGoalReadBack /\ FilterSuccessIsReal
=============================================================================
