---------------------------- MODULE Coordinator ----------------------------
(***************************************************************************)
(* The Home Assistant adapter around one runtime:                          *)
(* src/custom_components/balboa_rs485/coordinator.py (callers of commands, *)
(* opening and closing), __init__.py (setup, unload, stop) and the two     *)
(* records it keeps: prediction.py (what has been learned) and energy.py   *)
(* (module EnergyAccount).                                                 *)
(*                                                                         *)
(* The runtime below (Runtime, Connection, CommandEngine) is reduced to    *)
(* what the adapter sees of it: goals that end, a task that runs until it  *)
(* is cancelled, and snapshots.                                            *)
(***************************************************************************)
EXTENDS EnergyAccount, FiniteSets, Sequences

CONSTANTS
    Controls,
    Asked,             \* the goals that callers ask for: <<control, value>>
    Pumps,             \* the controls whose equal goals are shared
    StaleAfter,        \* age at which a status is stale
    Ratings,           \* configured powers; 0 switches the estimate off
    LoadFaults,        \* "caught", "uncaught": how reading a record can fail
    Plans              \* bounds: how often each kind of thing happens,
                       \* with the rating at first

ASSUME CoordinatorParameters ==
    /\ Pumps \subseteq Controls /\ \A goal \in Asked : goal[1] \in Controls
    /\ StaleAfter \in Nat /\ Ratings \subseteq Nat
    /\ LoadFaults \subseteq {"caught", "uncaught"}
    /\ \A plan \in Plans : plan.rating \in Nat

VARIABLES
    left,        \* what may still happen
    goals,       \* the engine's goals, oldest first
    pending,     \* _pending: the goal of a control, or None
    callers,     \* calls of async_command, oldest first
    opened,      \* _opened
    enabled,     \* controls_enabled
    opener,      \* where async_setup_entry is
    closers,     \* where each call of async_close is: [pc, opened]
    connection,  \* the task that owns the bus
    watcher,     \* the task that observes
    model,       \* the prediction: [learned, dirty, failed, event, task]
    account,     \* the energy controller, its checkpoint task in "ticking"
    ticking,
    saves,       \* an await of a save of each record: [by, record, stage], or None
    disk,        \* the stored records
    snap,        \* the connection's snapshot: [up, status, available, refresh, age, load]
    rating,      \* the configured power
    most,        \* what the spa can have drawn while it was observed
    published    \* the highest total ever shown

commandVars == <<goals, pending, callers>>
lifeVars == <<opened, opener, closers, connection, watcher>>
recordVars == <<model, account, ticking, saves, disk>>
linkVars == <<snap, rating, most>>
coordinatorVars == <<left, commandVars, lifeVars, enabled, recordVars, linkVars, published>>

Closers == {"setup", "unload", "stop"}
Records == {"model", "energy"}

(* None is no goal's position, no amount, no total and no save.            *)
ASSUME NoneIsNoValue ==
    None \notin Nat \cup [kwh : Nat, known : Nat, unknown : Nat]
                  \cup [by : Closers \cup {"task"}, record : Nat, stage : {"writing", "written"}]

Has(what) == left[what] > 0
Spend(what) == left' = [left EXCEPT ![what] = @ - 1]

NewModel == [learned |-> 0, dirty |-> FALSE, failed |-> FALSE, event |-> FALSE, task |-> "none"]
Unlinked == [up |-> FALSE, status |-> FALSE, available |-> FALSE, refresh |-> FALSE,
             age |-> 0, load |-> None]

CoordinatorInit ==
    /\ left \in Plans
    /\ goals = <<>> /\ pending = [c \in Controls |-> None] /\ callers = <<>>
    /\ opened = FALSE /\ enabled = TRUE /\ opener = "prediction"
    /\ closers = [c \in Closers |-> [pc |-> "idle", opened |-> FALSE]]
    /\ connection = "none" /\ watcher = "none"
    /\ model = NewModel /\ ticking = FALSE
    /\ rating = left.rating /\ account = NewAccount(rating > 0)
    /\ saves = [r \in Records |-> None]
    /\ disk = [model |-> 0, energy |-> None]
    /\ snap = Unlinked /\ most = 0 /\ published = 0

-----------------------------------------------------------------------------
(* Goals, as CommandEngine keeps them.  How one ended makes no difference  *)
(* here: the engine verifies, fails, supersedes or cancels it.             *)

Active(g) == g.active
Over(g) == [g EXCEPT !.active = FALSE, !.due = FALSE]

Latest(gs, control) ==
    LET of == {i \in DOMAIN gs : gs[i].control = control}
    IN  IF of = {} THEN None ELSE Max(of)

Ticked(gs) ==
    [i \in DOMAIN gs |-> IF gs[i].due THEN Over(gs[i]) ELSE gs[i]]

End(gs, i) == [gs EXCEPT ![i] = Over(@)]

(* engine.cancel: whatever goal the control has now.                       *)
Cancel(gs, control) ==
    IF Latest(gs, control) = None THEN gs ELSE End(gs, Latest(gs, control))

(* _cancel_pending                                                         *)
CancelPending(gs) ==
    [i \in DOMAIN gs |-> IF \E c \in Controls : pending[c] # None /\ Active(gs[pending[c]])
                                                /\ i = Latest(gs, c) /\ Active(gs[i])
                         THEN Over(gs[i]) ELSE gs[i]]

Waiters(i) == {k \in DOMAIN callers : callers[k].pc = "waiting" /\ callers[k].goal = i}

-----------------------------------------------------------------------------
(* Callers.  _waiters is the number of callers that wait for a goal, and   *)
(* _deadlines holds what the goal itself says.                             *)

Call(pc, goal) == callers' = Append(callers, [pc |-> pc, goal |-> goal])

Refused(control, desired) ==
    /\ ~opened \/ ~enabled
    /\ Call("returned", None)
    /\ UNCHANGED <<goals, pending>>

Shares(control, desired, i) ==
    /\ control \in Pumps /\ i # None
    /\ Active(goals[i]) /\ goals[i].desired = desired

Join(control, desired) ==
    /\ opened /\ enabled
    /\ Shares(control, desired, pending[control])
    /\ Call("waiting", pending[control])
    /\ UNCHANGED <<goals, pending>>

(* engine.request: a pump's unsent goal is replaced and hands on its       *)
(* deadline; any other goal needs a fresh state.                           *)
Requested(gs, control, desired) ==
    LET i == Latest(gs, control)
        replacing == control \in Pumps /\ i # None /\ Active(gs[i])
    IN  Append(IF i = None THEN gs ELSE End(gs, i),
               [control |-> control, desired |-> desired, active |-> TRUE,
                due |-> replacing /\ gs[i].due])

Admitted(gs, control) ==
    \/ snap.available
    \/ control \in Pumps /\ Latest(gs, control) # None /\ Active(gs[Latest(gs, control)])

Request(control, desired) ==
    /\ opened /\ enabled
    /\ ~Shares(control, desired, pending[control])
    /\ IF Admitted(Ticked(goals), control)
       THEN /\ goals' = Requested(Ticked(goals), control, desired)
            /\ pending' = [pending EXCEPT ![control] = Len(goals')]
            /\ Call("waiting", Len(goals'))
       ELSE /\ Call("returned", None)
            /\ goals' = Ticked(goals)
            /\ UNCHANGED pending

(* Entities exist once the platforms are being set up.                     *)
AsyncCommand(control, desired) ==
    /\ Has("commands") /\ Spend("commands")
    /\ opener \in {"platforms", "running"}
    /\ Refused(control, desired) \/ Join(control, desired) \/ Request(control, desired)
    /\ UNCHANGED <<lifeVars, enabled, recordVars, linkVars, published>>

(* The finally clause: the last waiter takes the goal off the books.       *)
Leave(k, pc) ==
    LET i == callers[k].goal
    IN  /\ callers' = [callers EXCEPT ![k] = [pc |-> pc, goal |-> None]]
        /\ pending' = [c \in Controls |-> IF Waiters(i) = {k} /\ pending[c] = i THEN None
                                          ELSE pending[c]]

Waits(k) == callers[k].pc = "waiting"

Resume(k) ==
    /\ Waits(k)
    /\ ~Active(goals[callers[k].goal])
    /\ Leave(k, "returned")
    /\ UNCHANGED <<left, goals, lifeVars, enabled, recordVars, linkVars, published>>

(* The wait is as long as the goal; it may end a clock tick before it, and *)
(* then the engine has not failed the goal yet.                            *)

TimesOut(k) ==
    LET i == callers[k].goal
    IN  /\ Waits(k)
        /\ Active(goals[i]) /\ goals[i].due
        /\ \/ goals' = Ticked(goals)
           \/ goals' = IF pending[goals[i].control] = i THEN Cancel(goals, goals[i].control)
                       ELSE goals
        /\ Leave(k, "returned")
        /\ UNCHANGED <<left, lifeVars, enabled, recordVars, linkVars, published>>

CancelsShared(k, i) == pending[goals[i].control] = i  \* mutant
CancelsGoal(k, i) == pending[goals[i].control] = i /\ Waiters(i) = {k}

CallerCancelled(k) ==
    LET i == callers[k].goal
    IN  /\ Has("cancels") /\ Spend("cancels")
        /\ Waits(k)
        /\ goals' = IF CancelsGoal(k, i) THEN Cancel(goals, goals[i].control) ELSE goals
        /\ Leave(k, "cancelled")
        /\ UNCHANGED <<lifeVars, enabled, recordVars, linkVars, published>>

(* What the engine does with a goal, and the time it was given.            *)
GoalEnds(i) ==
    /\ connection = "running"
    /\ Active(goals[i])
    /\ goals' = End(Ticked(goals), i)
    /\ UNCHANGED <<left, pending, callers, lifeVars, enabled, recordVars, linkVars, published>>

DeadlinePasses(i) ==
    /\ Active(goals[i]) /\ ~goals[i].due
    /\ goals' = [goals EXCEPT ![i].due = TRUE]
    /\ UNCHANGED <<left, pending, callers, lifeVars, enabled, recordVars, linkVars, published>>

-----------------------------------------------------------------------------
(* async_setup_entry.  The outdoor sensor, with which a model is kept, is  *)
(* fixed; reading the sessions catches every error, like the prediction.   *)

Seen == [ available |-> snap.available, refresh |-> snap.refresh, age |-> snap.age,
          stale |-> ~snap.status \/ snap.age >= StaleAfter ]

Power(r) == IF snap.load = None THEN None ELSE snap.load * r

Fails == closers' = [closers EXCEPT !["setup"].pc = "lock"] /\ opener' = "failed"

OpenPrediction ==
    /\ opener = "prediction"
    /\ opener' = "energy"
    /\ \/ /\ model' = [model EXCEPT !.learned = disk.model, !.dirty = FALSE]
          /\ UNCHANGED left
       \/ /\ Has("faults") /\ Spend("faults")
          /\ model' = [model EXCEPT !.failed = TRUE]
    /\ UNCHANGED <<commandVars, opened, closers, connection, watcher, enabled, account,
                   ticking, saves, disk, linkVars, published>>

Shown(a) ==
    published' = IF a.enabled /\ a.committed # None THEN Max({published, a.committed})
                 ELSE published

(* Reading the energy record, and entering the runtime right after it.     *)
Enters ==
    /\ connection' = "running" /\ opened' = TRUE /\ opener' = "status"
    /\ UNCHANGED closers

OpenEnergy ==
    /\ opener = "energy"
    /\ \/ /\ account' = Loaded(account, disk.energy)
          /\ Enters /\ UNCHANGED left
       \/ /\ Has("faults") /\ Spend("faults")
          /\ "caught" \in LoadFaults
          /\ account' = LoadCaught(account)
          /\ Enters
    /\ Shown(account')
    /\ UNCHANGED <<commandVars, watcher, enabled, model, ticking, saves, disk, linkVars>>

(* Without a status only a channel runtime is kept.                        *)
OpenObserved ==
    /\ opener = "status"
    /\ IF snap.status THEN UNCHANGED left ELSE Has("faults") /\ Spend("faults")
    /\ opener' = "platforms"
    /\ watcher' = "running" /\ ticking' = TRUE
    /\ model' = [model EXCEPT !.task = "waiting"]
    /\ account' = Observed(account, Seen, Power(rating))
    /\ UNCHANGED <<commandVars, opened, closers, connection, enabled, saves, disk, linkVars,
                   published>>

PlatformsAreUp ==
    /\ opener = "platforms"
    /\ opener' = "running"
    /\ UNCHANGED <<left, commandVars, opened, closers, connection, watcher, enabled, recordVars,
                   linkVars, published>>

(* A time-out, a failing platform, a cancellation, an error not caught.    *)
SetupFails ==
    /\ Has("faults") /\ Spend("faults")
    /\ \/ opener \in {"status", "platforms"}
       \/ opener = "energy" /\ "uncaught" \in LoadFaults
    /\ Fails
    /\ UNCHANGED <<commandVars, opened, connection, watcher, enabled, recordVars, linkVars,
                   published>>

-----------------------------------------------------------------------------
(* async_close.  Each step is the "finally" of the one before, so that it  *)
(* is reached whether or not that one raised.                              *)

Holding == {c \in Closers : closers[c].pc \notin {"idle", "lock", "done"}}
LockIsFree == Holding = {}

AfterUnprotected(pc, raised) ==  \* mutant
    IF raised THEN "done"
    ELSE CASE pc = "watcher" -> "runtime"
           [] pc = "runtime" -> "prediction"
           [] pc = "prediction" -> "energy"
           [] pc = "energy" -> "done"

After(pc, raised) ==
    CASE pc = "watcher" -> "runtime"
      [] pc = "runtime" -> "prediction"
      [] pc = "prediction" -> "energy"
      [] pc = "energy" -> "done"

Proceed(c, raised) == closers' = [closers EXCEPT ![c].pc = After(@, raised)]

AsyncClose(c) ==
    /\ Has("closes") /\ Spend("closes")
    /\ opener = "running" /\ c # "setup" /\ closers[c].pc = "idle"
    /\ closers' = [closers EXCEPT ![c].pc = "lock"]
    /\ UNCHANGED <<commandVars, opened, opener, connection, watcher, enabled, recordVars,
                   linkVars, published>>

BeginClose(c) ==
    /\ closers[c].pc = "lock" /\ LockIsFree
    /\ closers' = [closers EXCEPT ![c] = [pc |-> "watcher", opened |-> opened]]
    /\ opened' = FALSE
    /\ goals' = CancelPending(goals)
    /\ UNCHANGED <<left, pending, callers, opener, connection, watcher, enabled, recordVars,
                   linkVars, published>>

(* Whoever awaits may itself be cancelled, or find that the task died.     *)
Raises(raised) == IF raised THEN Has("faults") /\ Spend("faults") ELSE UNCHANGED left

StopWatcherUncancelled(c) ==  \* mutant
    /\ closers[c].pc = "watcher" /\ watcher = "none"
    /\ Proceed(c, FALSE)
    /\ UNCHANGED <<left, commandVars, opened, opener, connection, watcher, enabled, recordVars,
                   linkVars, published>>

StopWatcher(c) ==
    /\ closers[c].pc = "watcher"
    /\ \E raised \in BOOLEAN : Raises(raised) /\ Proceed(c, raised)
    /\ watcher' = "none"
    /\ UNCHANGED <<commandVars, opened, opener, connection, enabled, recordVars, linkVars,
                   published>>

StopRuntime(c) ==
    /\ closers[c].pc = "runtime"
    /\ \E raised \in BOOLEAN :
        /\ Raises(raised) /\ Proceed(c, raised)
        /\ connection' = IF ~closers[c].opened THEN connection
                         ELSE IF raised THEN "stopping" ELSE "stopped"
    /\ snap' = IF closers[c].opened THEN Unlinked ELSE snap
    /\ UNCHANGED <<commandVars, opened, opener, watcher, enabled, recordVars, rating, most,
                   published>>

RuntimeStops ==
    /\ connection = "stopping"
    /\ connection' = "stopped"
    /\ UNCHANGED <<left, commandVars, opened, opener, closers, watcher, enabled, recordVars,
                   linkVars, published>>

(* The background save is cancelled, before or after its file was replaced.*)
Interrupted(r) ==
    /\ \/ UNCHANGED disk
       \/ /\ saves[r] # None /\ saves[r].stage = "writing"
          /\ disk' = [disk EXCEPT ![r] = saves[r].record]

Save(r, by, record) == [by |-> by, record |-> record, stage |-> "writing"]

ClosePrediction(c) ==
    /\ closers[c].pc = "prediction" /\ (saves["model"] # None => saves["model"].by = "task")
    /\ Interrupted("model")
    /\ LET dirty == model.dirty \/ saves["model"] # None
           saving == dirty /\ ~model.failed
       IN  /\ model' = [model EXCEPT !.task = "none", !.dirty = dirty /\ ~saving]
           /\ saves' = [saves EXCEPT !["model"] =
                            IF saving THEN Save("model", c, model.learned) ELSE None]
           /\ IF saving THEN UNCHANGED closers ELSE Proceed(c, FALSE)
    /\ UNCHANGED <<left, commandVars, opened, opener, connection, watcher, enabled, account,
                   ticking, linkVars, published>>

CloseEnergy(c) ==
    /\ closers[c].pc = "energy" /\ (saves["energy"] # None => saves["energy"].by = "task")
    /\ Interrupted("energy")
    /\ ticking' = FALSE
    /\ account' = Broken(account)
    /\ saves' = [saves EXCEPT !["energy"] =
                     IF Saves(account) THEN Save("energy", c, account.totals) ELSE None]
    /\ IF Saves(account) THEN UNCHANGED closers ELSE Proceed(c, FALSE)
    /\ UNCHANGED <<left, commandVars, opened, opener, connection, watcher, enabled, model,
                   linkVars, published>>

-----------------------------------------------------------------------------
(* Saving a record: write it, read it back.                                *)

SaveModel ==
    /\ model.task = "waiting" /\ model.event /\ saves["model"] = None
    /\ LET saving == model.dirty /\ ~model.failed
       IN  /\ model' = [model EXCEPT !.event = FALSE, !.dirty = @ /\ ~saving]
           /\ saves' = [saves EXCEPT !["model"] =
                            IF saving THEN Save("model", "task", model.learned) ELSE None]
    /\ UNCHANGED <<left, commandVars, lifeVars, enabled, account, ticking, disk, linkVars,
                   published>>

Checkpoint ==
    /\ ticking /\ saves["energy"] = None
    /\ Saves(account)
    /\ saves' = [saves EXCEPT !["energy"] = Save("energy", "task", account.totals)]
    /\ UNCHANGED <<left, commandVars, lifeVars, enabled, model, account, ticking, disk, linkVars,
                   published>>

(* Store logs a failed write and returns.                                  *)
WriteRecord(r) ==
    /\ saves[r] # None /\ saves[r].stage = "writing"
    /\ saves' = [saves EXCEPT ![r].stage = "written"]
    /\ \/ /\ disk' = [disk EXCEPT ![r] = saves[r].record]
          /\ UNCHANGED left
       \/ /\ Has("faults") /\ Spend("faults")
          /\ UNCHANGED disk
    /\ UNCHANGED <<commandVars, lifeVars, enabled, model, account, ticking, linkVars, published>>

Finished(r) == IF saves[r].by = "task" THEN UNCHANGED closers ELSE Proceed(saves[r].by, FALSE)

(* While Home Assistant is stopping, nothing is read back.                 *)
Stopping == closers["stop"].pc # "idle"

ModelVerifiedClean ==  \* mutant
    /\ saves["model"] # None /\ saves["model"].stage = "written"
    /\ model' = [model EXCEPT !.dirty = FALSE,
                             !.failed = @ \/ (~Stopping /\ disk.model # saves["model"].record)]
    /\ saves' = [saves EXCEPT !["model"] = None]
    /\ Finished("model")
    /\ UNCHANGED <<left, commandVars, opened, opener, connection, watcher, enabled, account,
                   ticking, disk, linkVars, published>>

ModelVerified ==
    /\ saves["model"] # None /\ saves["model"].stage = "written"
    /\ model' = [model EXCEPT !.failed = @ \/ (~Stopping /\ disk.model # saves["model"].record)]
    /\ saves' = [saves EXCEPT !["model"] = None]
    /\ Finished("model")
    /\ UNCHANGED <<left, commandVars, opened, opener, connection, watcher, enabled, account,
                   ticking, disk, linkVars, published>>

EnergyRead(a, save) ==
    IF Stopping THEN a
    ELSE IF disk.energy = save.record THEN SaveVerified(a, save.record) ELSE SaveFailed(a)

EnergyVerified ==
    /\ saves["energy"] # None /\ saves["energy"].stage = "written"
    /\ account' = EnergyRead(account, saves["energy"])
    /\ Shown(account')
    /\ saves' = [saves EXCEPT !["energy"] = None]
    /\ Finished("energy")
    /\ UNCHANGED <<left, commandVars, opened, opener, connection, watcher, enabled, model,
                   ticking, disk, linkVars>>

-----------------------------------------------------------------------------
(* Observation.                                                            *)

(* _watch: both controllers see the snapshot; a segment may be complete.   *)
Learns(m) == [m EXCEPT !.learned = @ + 1, !.dirty = TRUE, !.event = TRUE]

Watch ==
    /\ watcher = "running"
    /\ account' = Observed(account, Seen, Power(rating))
    /\ \/ UNCHANGED <<model, left>>
       \/ /\ Has("lessons") /\ Spend("lessons")
          /\ Healthy(ReadyNoted(account, Seen), Seen)
          /\ model' = Learns(model)
    /\ UNCHANGED <<commandVars, lifeVars, enabled, ticking, saves, disk, linkVars, published>>

AsyncOptionsUpdated(e, r) ==
    /\ opener = "running"
    /\ e # enabled \/ r # rating
    /\ e # enabled => Has("options")
    /\ r # rating => Has("ratings")
    /\ left' = [left EXCEPT !.options = IF e = enabled THEN @ ELSE @ - 1,
                            !.ratings = IF r = rating THEN @ ELSE @ - 1]
    /\ enabled' = e /\ rating' = r
    /\ account' = Observed(IF r # rating THEN Configured(account, r > 0) ELSE account,
                           Seen, Power(r))
    /\ Shown(account')
    /\ goals' = IF e THEN goals ELSE CancelPending(goals)
    /\ UNCHANGED <<pending, callers, lifeVars, model, ticking, saves, disk, snap, most>>

(* The link: a new epoch, its statuses, metadata read for the first time   *)
(* and again, and its end.                                                 *)
LinkUp ==
    /\ connection = "running" /\ ~snap.up
    /\ snap' = [Unlinked EXCEPT !.up = TRUE]
    /\ account' = EpochEnded(account)

Status(load) ==
    /\ Has("statuses") /\ snap.up
    /\ snap' = [snap EXCEPT !.status = TRUE, !.age = 0, !.load = load]
    /\ account' = StatusCame(account)

Ready ==
    /\ snap.status /\ ~snap.available
    /\ snap' = [snap EXCEPT !.available = TRUE, !.refresh = FALSE]
    /\ UNCHANGED account

Refreshing ==
    /\ snap.available
    /\ snap' = [snap EXCEPT !.available = FALSE, !.refresh = TRUE]
    /\ UNCHANGED account

LinkLost ==
    /\ snap.up
    /\ snap' = Unlinked
    /\ UNCHANGED account

Link ==
    /\ \/ (LinkUp \/ Ready) /\ UNCHANGED left
       \/ (\E load \in {None, 1} : Status(load)) /\ Spend("statuses")
       \/ (Refreshing \/ LinkLost) /\ Has("faults") /\ Spend("faults")
    /\ UNCHANGED <<commandVars, lifeVars, enabled, model, ticking, saves, disk, rating, most,
                   published>>

Second ==
    /\ Has("ticks") /\ Spend("ticks")
    /\ connection = "running"
    /\ snap' = [snap EXCEPT !.age = Min({@ + 1, Unreached})]
    /\ account' = Aged(account)
    /\ most' = IF snap.up THEN most + rating ELSE most
    /\ UNCHANGED <<commandVars, lifeVars, enabled, model, ticking, saves, disk, rating, published>>

(* The process ends, in the middle of anything, and another one starts.    *)
Restart ==
    /\ Has("restarts") /\ Spend("restarts")
    /\ goals' = <<>> /\ pending' = [c \in Controls |-> None] /\ callers' = <<>>
    /\ opened' = FALSE /\ opener' = "prediction"
    /\ closers' = [c \in Closers |-> [pc |-> "idle", opened |-> FALSE]]
    /\ connection' = "none" /\ watcher' = "none"
    /\ model' = NewModel /\ ticking' = FALSE /\ account' = NewAccount(rating > 0)
    /\ saves' = [r \in Records |-> None]
    /\ snap' = Unlinked
    /\ UNCHANGED <<enabled, disk, rating, most, published>>

Close(c) ==
    \/ BeginClose(c) \/ StopWatcher(c) \/ StopRuntime(c)
    \/ ClosePrediction(c) \/ CloseEnergy(c)

Saving == WriteRecord("model") \/ WriteRecord("energy") \/ ModelVerified \/ EnergyVerified

CoordinatorNext ==
    \/ \E goal \in Asked : AsyncCommand(goal[1], goal[2])
    \/ \E k \in DOMAIN callers : Resume(k) \/ TimesOut(k) \/ CallerCancelled(k)
    \/ \E i \in DOMAIN goals : DeadlinePasses(i) \/ GoalEnds(i)
    \/ OpenPrediction \/ OpenEnergy \/ OpenObserved \/ PlatformsAreUp \/ SetupFails
    \/ \E c \in Closers : AsyncClose(c) \/ Close(c)
    \/ RuntimeStops \/ SaveModel \/ Checkpoint \/ Saving
    \/ Watch \/ \E e \in BOOLEAN, r \in Ratings : AsyncOptionsUpdated(e, r)
    \/ Link \/ Second \/ Restart

CoordinatorSpec == CoordinatorInit /\ [][CoordinatorNext]_coordinatorVars

(* Waits end, closers and savers go on: no step of theirs waits for        *)
(* anything but a disk or a task that answers.                             *)
CallerGoesOn == \E k \in DOMAIN callers : Resume(k) \/ TimesOut(k)

CoordinatorFairness ==
    /\ WF_coordinatorVars(CallerGoesOn)
    /\ WF_coordinatorVars(\E i \in DOMAIN goals : DeadlinePasses(i))
    /\ WF_coordinatorVars(\E c \in Closers : Close(c))
    /\ WF_coordinatorVars(WriteRecord("model") \/ ModelVerified)
    /\ WF_coordinatorVars(WriteRecord("energy") \/ EnergyVerified)

FairCoordinatorSpec == CoordinatorSpec /\ CoordinatorFairness

-----------------------------------------------------------------------------
(* Properties.                                                             *)

(* The books hold what the code takes for granted when it indexes them.    *)
CoordinatorTypeOK ==
    /\ \A c \in Controls : pending[c] # None =>
        pending[c] \in DOMAIN goals /\ goals[pending[c]].control = c
    /\ \A k \in DOMAIN callers : Waits(k) => callers[k].goal \in DOMAIN goals
    /\ Cardinality(Holding) <= 1
    /\ account.previous # None => account.previous.age \in 0..Unreached
    /\ account.committed # None => account.committed = account.record.kwh

(* Nothing is pursued that nobody waits for, and a control's books are     *)
(* closed with its last caller.                                            *)
NoOrphanGoal ==
    /\ \A i \in DOMAIN goals : Active(goals[i]) =>
        Waiters(i) # {} /\ pending[goals[i].control] = i
    /\ \A c \in Controls : pending[c] # None => Waiters(pending[c]) # {}

(* A caller that goes away takes nobody else's goal with it, neither the   *)
(* one it shared nor the one that replaced its own.                        *)
OthersGoalsSurvive ==
    [][\A k \in DOMAIN callers :
        (Waits(k) /\ k \in DOMAIN callers' /\ callers'[k].pc = "cancelled") =>
        \A i \in DOMAIN goals :
            Active(goals[i]) /\ Waiters(i) # {k} => goals'[i] = goals[i]]_coordinatorVars

(* Once a close has begun nothing is pursued any more.                     *)
QuietAfterClose ==
    (\E c \in Closers : closers[c].pc \notin {"idle", "lock"}) =>
        \A i \in DOMAIN goals : ~Active(goals[i])

(* However closes overlap, fail or are cancelled, the bus is given up      *)
(* before anything is saved and before any of them is done.                *)
BusRelinquished ==
    \A c \in Closers : closers[c].pc \in {"prediction", "energy", "done"} =>
        connection # "running" /\ ~snap.up

(* The estimate never exceeds what can have been drawn while the spa was   *)
(* observed at the rating of the moment: no gap, restart, reconnection or  *)
(* change of rating is filled in or repriced.                              *)
NothingInvented ==
    /\ account.totals.kwh <= most
    /\ disk.energy # None => disk.energy.kwh <= most

(* A published total never falls, over failed saves, crashes and restarts. *)
PublishedNeverFalls ==
    account.enabled /\ account.committed # None => account.committed >= published

(* What was learned is on disk, on its way there, or will be tried again,  *)
(* unless the storage has failed (while Home Assistant is stopping nothing *)
(* is read back, and a failed write goes unnoticed).                       *)
LearnedIsAccountedFor ==
    (opener \notin {"prediction", "failed"} /\ ~model.failed /\ ~Stopping) =>
        \/ disk.model = model.learned
        \/ model.dirty
        \/ saves["model"] # None /\ saves["model"].record = model.learned

(* Every caller gets an answer (with a bounded number of calls: the time   *)
(* comes when nobody waits any more), and every close is completed.        *)
CallersReturn ==
    (\E k \in DOMAIN callers : Waits(k)) ~> (\A k \in DOMAIN callers : ~Waits(k))

CloseCompletes ==
    (\E c \in Closers : closers[c].pc = "lock")
        ~> (\A c \in Closers : closers[c].pc \in {"done", "idle"})

(* docs/estimated_energy.md: an existing record is not replaced by less.   *)
UnreadableIsKept ==
    [][disk.energy # None => disk'.energy # None /\ disk'.energy.kwh >= disk.energy.kwh]_disk

(* CoordinatorInv: nothing is pursued that nobody waits for, nor after a   *)
(* close has begun, and no close saves or ends before the bus is given up. *)
CoordinatorInv ==
    CoordinatorTypeOK /\ NoOrphanGoal /\ QuietAfterClose /\ BusRelinquished

(* BooksAreHonest: the energy total invents nothing and never falls, and   *)
(* what was learned is not lost silently.                                  *)
BooksAreHonest == NothingInvented /\ PublishedNeverFalls /\ LearnedIsAccountedFor

(* EveryoneReturns: no caller and no close waits for ever, whatever fails. *)
EveryoneReturns == CallersReturn /\ CloseCompletes
=============================================================================
