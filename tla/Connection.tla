----------------------------- MODULE Connection -----------------------------
(***************************************************************************)
(* src/balboa_rs485/transport/connection.py and timing.py: the one task    *)
(* that opens a socket, synchronizes the configuration, watches the        *)
(* traffic and backs off.  The mode is one that other clients' traffic     *)
(* forbids: classic, with clear-to-send slots, or the Wi-Fi module's.  Who *)
(* may write is module BusArbitration, what the participant writes Runtime.*)
(*                                                                         *)
(* Times are kept as ages, which stop at the threshold they are compared   *)
(* with, so time is unbounded.  A unit is one Timing.tick: while a socket  *)
(* is open, every unit has its pass of the loop.                           *)
(***************************************************************************)
EXTENDS Integers, FiniteSets, FiniteSetsExt

CONSTANTS
    None,
    ConnectTimeout, FirstFrame, DegradeAfter, StaleAfter, RecoverAfter,
    SyncTimeout, QueryTimeout, QueryAttempts, RefreshInterval,
    BackoffInitial, BackoffMax, HealthyReset,   \* Timing
    Modes,                                      \* "classic", "bwa"
    Contents                                    \* the sets of messages a read may contain

Messages == {"status", "ready", "information", "capabilities", "addressed", "other"}

ASSUME TimingParameters ==
    /\ {ConnectTimeout, FirstFrame, DegradeAfter, StaleAfter, RecoverAfter, SyncTimeout,
        QueryTimeout, QueryAttempts, RefreshInterval, BackoffInitial, BackoffMax, HealthyReset}
       \subseteq Nat \ {0}
    /\ DegradeAfter < StaleAfter /\ StaleAfter < RecoverAfter
    /\ BackoffInitial <= BackoffMax
ASSUME ContentsAreMessages ==
    Contents \subseteq SUBSET Messages /\ Modes \subseteq {"classic", "bwa"} /\ None \notin Messages

VARIABLES
    mode,       \* as requested
    conn,       \* the attributes of the connection
    base,       \* Backoff._base
    sleep,      \* what is left of the delay before the next attempt
    asking,     \* participant.busy
    passed,     \* whether the loop has run in this unit of time
    world,      \* what the network does: "wild", or from now on "benign" or "silent"
    readyRun    \* units for which the connection has been READY without a break

connVars == <<mode, conn, base, sleep, asking, passed, world, readyRun>>

-----------------------------------------------------------------------------
(* _session: the attributes it starts with.  An age counts from the last   *)
(* such message, or from the opening of the socket.                        *)

Fresh(state) ==
    [ state |-> state, age |-> 0, valid |-> FALSE, validAge |-> 0, statusAge |-> 0,
      readyAge |-> 0, status |-> FALSE, stale |-> TRUE, vetoed |-> FALSE,
      pending |-> None, pendingAge |-> 0, attempts |-> 0, information |-> FALSE,
      capabilities |-> FALSE, configured |-> FALSE, started |-> FALSE, active |-> FALSE,
      committed |-> FALSE, newer |-> FALSE, syncAge |-> 0, refreshIn |-> 0,
      healthy |-> None, resetDone |-> FALSE ]

Closed == {"disconnected", "connecting", "stopped"}
IsOpen(c) == c.state \notin Closed

(* BusPolicy.supported, in these modes.                                    *)
Supported(c) == c.status /\ ~c.vetoed

-----------------------------------------------------------------------------
(* One pass of the loop, as operators on the attributes, in their order.   *)

Framed(c, read) ==
    IF read = {} THEN c
    ELSE [c EXCEPT !.valid = TRUE, !.validAge = 0,
                   !.state = IF @ = "waiting_for_frame" THEN "detecting_protocol" ELSE @]

QueryEnded(c) == c.pending # None /\ c.pendingAge >= QueryTimeout
AttemptsSpent(c) == QueryEnded(c) /\ c.attempts >= QueryAttempts
QueryExpired(c) == IF QueryEnded(c) THEN [c EXCEPT !.pending = None] ELSE c

Answered(c, read) == c.pending # None /\ c.pending \in read
Decoded(c, read) ==
    [c EXCEPT !.status = @ \/ "status" \in read,
              !.statusAge = IF "status" \in read THEN 0 ELSE @,
              !.newer = @ \/ "status" \in read,
              !.readyAge = IF "ready" \in read THEN 0 ELSE @,
              !.information = @ \/ (Answered(c, read) /\ c.pending = "information"),
              !.capabilities = @ \/ (Answered(c, read) /\ c.pending = "capabilities"),
              !.attempts = IF Answered(c, read) THEN 0 ELSE @,
              !.pending = IF Answered(c, read) THEN None ELSE @]

Vetoed(c, read) ==
    IF c.vetoed \/ "addressed" \notin read THEN c
    ELSE [c EXCEPT !.vetoed = TRUE, !.pending = None, !.configured = FALSE,
                   !.information = FALSE, !.capabilities = FALSE,
                   !.active = FALSE, !.committed = FALSE]

Received(c, read) == Vetoed(Decoded(QueryExpired(Framed(c, read)), read), read)

AgesWithoutReady(c) == IF Supported(c) THEN {c.validAge, c.statusAge} ELSE {c.validAge}   \* mutant
Ages(c) ==
    {c.validAge} \cup (IF Supported(c) THEN {c.statusAge} ELSE {})
                 \cup (IF Supported(c) /\ mode = "classic" THEN {c.readyAge} ELSE {})
Degraded(c) == Max(Ages(c)) >= DegradeAfter
Overdue(c) == Max(Ages(c)) >= RecoverAfter

(* _begin_sync: at first, and again now and then unless the participant is *)
(* in the middle of something.                                             *)
RefreshDueAnyway(c, busy) == ~c.active /\ c.refreshIn = 0   \* mutant
RefreshDue(c, busy) == ~c.active /\ c.refreshIn = 0 /\ ~busy

Begun(c) ==
    [c EXCEPT !.started = TRUE, !.active = TRUE, !.committed = FALSE, !.syncAge = 0,
              !.newer = FALSE, !.information = FALSE, !.capabilities = FALSE,
              !.attempts = 0, !.pending = None, !.state = "synchronizing"]
Begins(c, busy) == Supported(c) /\ (~c.started \/ RefreshDue(c, busy))
BegunIfDue(c, busy) == IF Begins(c, busy) THEN Begun(c) ELSE c

Committed(c) ==
    IF Supported(c) /\ ~c.committed /\ c.information /\ c.capabilities
    THEN [c EXCEPT !.configured = TRUE, !.committed = TRUE] ELSE c

ReadyNow(c) == c.committed /\ c.newer
Completed(c) ==
    IF Supported(c) /\ ReadyNow(c) /\ c.active
    THEN [c EXCEPT !.active = FALSE, !.refreshIn = RefreshInterval] ELSE c

Synchronized(c, busy) == Completed(Committed(BegunIfDue(c, busy)))
SyncLate(c) == Supported(c) /\ c.active /\ c.syncAge >= SyncTimeout

Transitioned(c) ==
    [c EXCEPT !.state =
        CASE ~Supported(c) /\ ~c.valid -> @
          [] ~Supported(c) /\ c.valid -> IF Degraded(c) THEN "degraded" ELSE "detecting_protocol"
          [] Supported(c) -> IF Degraded(c) THEN "degraded"
                             ELSE IF ReadyNow(c) THEN "ready" ELSE "synchronizing"]

(* A query on a clear-to-send slot (module BusArbitration).                *)
Queries(c, slot) == Supported(c) /\ slot /\ ~Degraded(c) /\ ~c.committed /\ c.pending = None
QueriedAgain(c, slot) ==   \* mutant: the second question is never asked
    IF ~Queries(c, slot) THEN c
    ELSE [c EXCEPT !.pending = "information", !.pendingAge = 0, !.attempts = @ + 1]
Queried(c, slot) ==
    IF ~Queries(c, slot) THEN c
    ELSE [c EXCEPT !.pending = IF c.information THEN "capabilities" ELSE "information",
                   !.pendingAge = 0, !.attempts = @ + 1]

HealthyKept(c) ==   \* mutant: an interruption does not start the health over
    IF c.state # "ready" THEN c
    ELSE [c EXCEPT !.healthy = IF @ = None THEN 0 ELSE @,
                   !.resetDone = @ \/ (c.healthy # None /\ c.healthy >= HealthyReset)]
Healthy(c) ==
    IF c.state # "ready" THEN [c EXCEPT !.healthy = None, !.resetDone = FALSE]
    ELSE [c EXCEPT !.healthy = IF @ = None THEN 0 ELSE @,
                   !.resetDone = @ \/ (c.healthy # None /\ c.healthy >= HealthyReset)]

Observed(c) == [c EXCEPT !.stale = ~c.status \/ c.statusAge >= StaleAfter]

-----------------------------------------------------------------------------
(* The steps of the task.                                                  *)

ConnectionInit ==
    /\ mode \in Modes
    /\ conn = Fresh("connecting") /\ base = BackoffInitial /\ sleep = 0
    /\ asking = FALSE /\ passed = FALSE /\ world = "wild"
    /\ readyRun = 0

(* Backoff.next_delay: the base, within a fifth, but no more than the      *)
(* maximum; the next base is the double.                                   *)
Delays(b) == {Min({BackoffMax, d}) : d \in {x \in 0..(2 * b) : 4 * b <= 5 * x /\ 5 * x <= 6 * b}}

NextBase(b) == Min({BackoffMax, 2 * b})

(* Any failure: RECOVERING, DISCONNECTED, and the delay.                   *)
Recovered(b) ==
    /\ conn' = Fresh("disconnected")
    /\ sleep' \in Delays(b)
    /\ base' = NextBase(b)
    /\ asking' = FALSE /\ passed' = TRUE
    /\ readyRun' = 0
    /\ UNCHANGED <<mode, world>>

(* After the delay, and when the task starts, a socket is opened.          *)
Retry ==
    /\ conn.state = "disconnected" /\ sleep = 0
    /\ conn' = Fresh("connecting") /\ passed' = TRUE
    /\ UNCHANGED <<mode, base, sleep, asking, world, readyRun>>

Opened ==
    /\ conn.state = "connecting"
    /\ conn' = Fresh("waiting_for_frame") /\ passed' = FALSE
    /\ UNCHANGED <<mode, base, sleep, asking, world, readyRun>>

OpenFails ==
    /\ conn.state = "connecting"
    /\ world # "benign"
    /\ Recovered(base)

(* The pass after the read: the participant is done with what it asked for *)
(* (answered), or wants the state resynchronized (recovers), or gets the   *)
(* slot that the connection itself does not use (wants).                   *)
BaseAfter(c) == IF c.resetDone /\ ~conn.resetDone THEN BackoffInitial ELSE base

Passed(c, slot, busy, recovers, wants) ==
    IF recovers THEN Recovered(BaseAfter(c))
    ELSE /\ conn' = c
         /\ base' = BaseAfter(c)
         /\ asking' = (busy \/ (wants /\ slot /\ c.state = "ready"))
         /\ passed' = TRUE
         /\ readyRun' = IF c.state = "ready" THEN Min({readyRun + 1, HealthyReset + 1}) ELSE 0
         /\ UNCHANGED <<mode, sleep, world>>

Proceeds(c, slot, busy, recovers, wants) ==
    IF SyncLate(c) THEN Recovered(base)
    ELSE Passed(Observed(Healthy(Queried(Transitioned(c), slot))), slot, busy, recovers, wants)

Judged(c, slot, busy, recovers, wants) ==
    IF Overdue(c) THEN Recovered(base)
    ELSE Proceeds(Synchronized(c, busy), slot, busy, recovers, wants)

Pass(read, slot, answered, recovers, wants) ==
    IF (~conn.valid /\ conn.validAge >= FirstFrame) \/ AttemptsSpent(conn) THEN Recovered(base)
    ELSE Judged(Received(conn, read), slot, asking /\ ~answered, recovers, wants)

(* A pass in the world as it is: anything that may be read; status, a slot *)
(* and the answer, without a failure; or nothing at all.                   *)
Good(c) == {"status", "ready"} \cup ({c.pending} \ {None})

Slots(read) ==
    IF mode = "bwa" THEN {TRUE} ELSE IF "ready" \in read THEN BOOLEAN ELSE {FALSE}

Iterate ==
    /\ IsOpen(conn) /\ ~passed
    /\ CASE world = "wild" ->
              \E read \in Contents, answered, wants \in BOOLEAN,
                 recovers \in IF asking THEN BOOLEAN ELSE {FALSE} :
                  \E slot \in Slots(read) :
                      Pass(read, slot, answered, recovers, wants)
         [] world = "benign" ->
              \E wants \in BOOLEAN : Pass(Good(conn), TRUE, TRUE, FALSE, wants)
         [] world = "silent" -> Pass({}, FALSE, FALSE, FALSE, FALSE)

(* End of file, a socket error or a write that is not drained in time.     *)
Fails == IsOpen(conn) /\ ~passed /\ world = "wild" /\ Recovered(base)

Older(age, most) == Min({most, age + 1})
Aged(c) ==
    [c EXCEPT !.age = IF c.state = "connecting" THEN Older(@, ConnectTimeout) ELSE 0,
              !.validAge = IF IsOpen(c) THEN Older(@, RecoverAfter) ELSE 0,
              !.statusAge = IF IsOpen(c) THEN Older(@, RecoverAfter) ELSE 0,
              !.readyAge = IF IsOpen(c) THEN Older(@, RecoverAfter) ELSE 0,
              !.pendingAge = IF c.pending = None THEN 0 ELSE Older(@, QueryTimeout),
              !.syncAge = IF c.active THEN Older(@, SyncTimeout) ELSE 0,
              !.refreshIn = IF c.started THEN Max({0, @ - 1}) ELSE 0,
              !.healthy = IF @ = None THEN None ELSE Older(@, HealthyReset)]

Tick ==
    /\ conn.state # "stopped" /\ (IsOpen(conn) => passed)
    /\ conn.state = "connecting" => conn.age < ConnectTimeout
    /\ conn.state = "disconnected" => sleep > 0
    /\ conn' = (IF conn.state = "disconnected" THEN conn ELSE Aged(conn))
    /\ sleep' = Max({0, sleep - 1})
    /\ passed' = FALSE
    /\ UNCHANGED <<mode, base, asking, world, readyRun>>

(* Unloading cancels the task.                                             *)
Stop ==
    /\ conn.state # "stopped" /\ world = "wild"
    /\ conn' = Fresh("stopped") /\ sleep' = 0 /\ asking' = FALSE /\ passed' = TRUE /\ readyRun' = 0
    /\ UNCHANGED <<mode, base, world>>

Calms ==
    /\ world = "wild" /\ conn.state # "stopped"
    /\ world' \in {"benign", "silent"}
    /\ UNCHANGED <<mode, conn, base, sleep, asking, passed, readyRun>>

ConnectionNext == Retry \/ Opened \/ OpenFails \/ Iterate \/ Fails \/ Tick \/ Stop \/ Calms

(* The event loop runs what is due: time passes, the loop comes round, the *)
(* delay ends, and so does an attempt to connect.                          *)
ComesRound == IsOpen(conn) /\ ~passed /\ passed' = TRUE
FairConnectionSpec ==
    /\ ConnectionInit /\ [][ConnectionNext]_connVars
    /\ WF_connVars(Tick) /\ WF_passed(ComesRound) /\ WF_connVars(Retry)
    /\ WF_connVars(Opened \/ OpenFails)

-----------------------------------------------------------------------------
(* ConnectionTypeOK: states, and ages that stop at their thresholds.       *)
ConnectionTypeOK ==
    /\ conn.state \in Closed \cup {"waiting_for_frame", "detecting_protocol",
                                   "synchronizing", "ready", "degraded"}
    /\ conn.pending \in {None, "information", "capabilities"}
    /\ {conn.validAge, conn.statusAge, conn.readyAge} \subseteq 0..RecoverAfter
    /\ base \in BackoffInitial..BackoffMax /\ sleep \in 0..BackoffMax

(* ReadyIsJustified: READY rests on a configuration whose both parts were  *)
(* answered after the synchronization began, a status newer than that and  *)
(* not too old, and no doubt about who owns the slots.                     *)
ReadyIsJustified ==
    conn.state = "ready" =>
        /\ conn.configured /\ conn.information /\ conn.capabilities /\ conn.newer
        /\ ~conn.active /\ ~conn.vetoed
        /\ conn.statusAge <= DegradeAfter
        /\ mode = "classic" => conn.readyAge <= DegradeAfter

(* NewerThanSync: a synchronization is completed by a status that was read *)
(* in a later pass than the one that began it, however often queries were  *)
(* repeated in between; the status of before the refresh does not count.   *)
NewerThanSync ==
    [][conn.active /\ conn'.committed /\ ~conn'.active => conn'.statusAge < conn.syncAge]_connVars

(* VetoIsKept: after other clients' traffic was seen on a bus of unclear   *)
(* arbitration, this socket neither queries nor becomes READY, nor shows a *)
(* configuration (connection.py: "query transmission disabled for epoch"). *)
VetoIsKept ==
    conn.vetoed => conn.pending = None /\ ~conn.configured /\ conn.state # "ready"

(* ObservedIsCurrent: a status that is shown (observed_status) was read    *)
(* from this very socket, less than StaleAfter ago at the last pass.       *)
Shown == conn.state \in {"detecting_protocol", "synchronizing", "ready", "degraded"} /\ ~conn.stale
ObservedIsCurrent == Shown => conn.status /\ conn.statusAge <= StaleAfter

(* OneConversation: the connection's own query and what the participant    *)
(* asked for are never outstanding together, or one answer could be taken  *)
(* for the other's.                                                        *)
OneConversation == ~(asking /\ conn.pending # None)

(* DeadlinesEnforced: silence, a missing clear-to-send, an unanswered      *)
(* query and an endless synchronization all end the socket in time.        *)
DeadlinesEnforced ==
    IsOpen(conn) /\ passed =>
        /\ conn.attempts <= QueryAttempts
        /\ conn.validAge < RecoverAfter
        /\ Supported(conn) => /\ conn.statusAge < RecoverAfter
                              /\ mode = "classic" => conn.readyAge < RecoverAfter
                              /\ conn.active => conn.syncAge < SyncTimeout

(* BackoffEarned: the delay between attempts only starts over after READY  *)
(* was held for HealthyReset without interruption; a spa that flaps is     *)
(* retried ever more slowly.                                               *)
BackoffEarned == [][base' < base => readyRun >= HealthyReset]_connVars

(* Recovers: once the network behaves, the connection becomes READY from   *)
(* whatever state it is in, unless it may not write in this epoch.         *)
Recovers ==
    world = "benign" ~> conn.state = "ready" \/ conn.vetoed

(* SilenceEnds: a socket on which nothing is heard any more is given up.   *)
SilenceEnds == world = "silent" /\ IsOpen(conn) ~> ~IsOpen(conn)

(* ConnectionLives: the connection comes back when it can, and does not    *)
(* hang on to a socket that is dead.                                       *)
ConnectionLives == Recovers /\ SilenceEnds

(* ConnectionInv: READY is justified, a veto is kept and there is one      *)
(* conversation at a time.                                                 *)
ConnectionInv ==
    ConnectionTypeOK /\ ReadyIsJustified /\ VetoIsKept /\ OneConversation

(* NothingLingers: neither an old status nor a dead socket is held on to.  *)
NothingLingers == ObservedIsCurrent /\ DeadlinesEnforced

(* ProgressIsEarned: a synchronization ends by news, and the back-off      *)
(* starts over by lasting health only.                                     *)
ProgressIsEarned == NewerThanSync /\ BackoffEarned
=============================================================================
