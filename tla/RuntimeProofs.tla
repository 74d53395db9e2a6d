--------------------------- MODULE RuntimeProofs ---------------------------
(***************************************************************************)
(* The participant of the connection, for any spa, controls, goals and     *)
(* budgets: what a question may cost, which requests are transmitted or    *)
(* given up on whose condition, and what a filter write rests on and       *)
(* leaves behind.                                                          *)
(*                                                                         *)
(* An iteration is a chain of operators on a world of snapshot, attributes *)
(* and engine.  There is one lemma per operator, on worlds that are sound; *)
(* what the engine's methods do is cited from the engine's proofs.  The    *)
(* second half follows the record of the filters from the controller over  *)
(* the line into the snapshot and the engine, and back as a write.         *)
(***************************************************************************)
EXTENDS Runtime, EngineHistoryProofs

Asking == {"setup", "filters", "fault"}
Condition == [epoch : Nat, caller : BOOLEAN]

CommandFields == { "epoch", "configuration", "index", "pending", "attempts", "reads",
                   "refresh", "next", "version", "success", "guards" }
WorldFields == {"s", "c", "e", "ready", "revision", "out"}
CallFields == { "phase", "epoch", "index", "cycle", "version", "at", "intent", "touched", "late" }

-----------------------------------------------------------------------------
(* The inductive invariant.                                                *)

(* Every attempt at a query fits its budget, and a refresh of the filters  *)
(* is asked for when the list is complete, and for nothing else.           *)
QueryOK(c, t) ==
    /\ DOMAIN c = CommandFields
    /\ c.index \in 1..4 /\ c.attempts \in 0..QueryAttempts /\ c.reads \in Nat
    /\ c.pending # None => /\ c.pending.query \in Asking /\ c.pending.at \in 1..t
                           /\ c.index <= 3 \/ c.refresh
    /\ c.pending = None => c.attempts < QueryAttempts
    /\ c.refresh => c.index = 4 /\ (c.pending # None => c.pending.query = "filters")

(* A guard is of a request of its control, with the condition of that      *)
(* request; and a request that is still pursued on a condition has a guard.*)
GuardsOK(c, e, conds) ==
    /\ c.guards = [d \in Controls |-> c.guards[d]]
    /\ \A d \in Controls : c.guards[d] # None =>
          /\ c.guards[d].intent \in 1..e.counter
          /\ e.intents[c.guards[d].intent].control = d
          /\ c.guards[d].condition = conds[c.guards[d].intent]

Unconditional(condition) == condition.epoch = 0 /\ ~condition.caller
GuardedAll(c, e, conds) ==
    \A id \in 1..e.counter : Open(e, id) /\ ~Unconditional(conds[id]) =>
        LET guard == c.guards[e.intents[id].control]
        IN  guard # None /\ guard.intent = id

ConditionsOK(e, conds) == conds \in Seq(Condition) /\ Len(conds) = e.counter

(* The reads of the call's own write, while it is in flight.               *)
Owned(e, k) ==
    k.phase = "write" /\ e.inflight # 0 /\ e.history[e.inflight].intent = k.intent
ReadsOK(c, e, k) ==
    Owned(e, k) => /\ c.reads <= QueryAttempts
                   /\ c.index = 1 => c.reads = 0
                   /\ c.index = 2 \/ c.refresh => c.reads <= c.attempts

(* A read that succeeds since the call asked has a time of after the ask.  *)
CallOK(k, e, t) ==
    /\ DOMAIN k = CallFields
    /\ k.phase \in {"idle", "settle", "read", "write"}
    /\ k.epoch \in Nat /\ k.at \in 0..t
    /\ k.phase = "write" => k.intent \in 1..e.counter /\ e.intents[k.intent].control = "filters"
ReadOK(sn, c, k) ==
    k.phase = "read" /\ c.success => sn.filtersAt = 0 \/ sn.filtersAt >= k.at

(* The engine never saw more than the connection received, and sees just   *)
(* that while the connection is READY.                                     *)
SightOK(sn, e, r, t) ==
    /\ sn.filtersAt \in 0..t /\ sn.at <= t
    /\ ~Outdated(e, sn)
    /\ r \in BOOLEAN /\ (r => sn.synced /\ e.state = StateOf(sn, TRUE))

Sound(sn, c, e, k, conds, t) ==
    /\ SnapshotOK(sn) /\ EngineOK(e) /\ t \in Nat \ {0}
    /\ QueryOK(c, t) /\ c.epoch \in 0..sn.epoch
    /\ GuardsOK(c, e, conds) /\ GuardedAll(c, e, conds) /\ ConditionsOK(e, conds)
    /\ ReadsOK(c, e, k) /\ CallOK(k, e, t) /\ ReadOK(sn, c, k)

LineOK(q) == IsHistory(q) /\ \A i \in DOMAIN q : q[i].query \in Asking

RInv ==
    /\ Sound(snapshot, commands, engine, call, conditions, now)
    /\ SightOK(snapshot, engine, ready, now)
    /\ LineOK(line) /\ link \in {"up", "down"} /\ (link = "down" => ~ready)
    /\ enabled \in BOOLEAN

-----------------------------------------------------------------------------
(* The queries.                                                            *)

(* The three queries, by their places and as a set.                        *)
LEMMA QueryList ==
    /\ Len(Queries) = 3 /\ Range(Queries) = Asking
    /\ \A i \in 1..3 : Queries[i] \in Asking
    /\ Queries[1] = "setup" /\ Queries[2] = "filters" /\ Queries[3] = "fault"
<1>1. Len(Queries) = 3 /\ DOMAIN Queries = 1..3
  BY DEF Queries
<1>2. Queries[1] = "setup" /\ Queries[2] = "filters" /\ Queries[3] = "fault"
  BY DEF Queries
<1>3. 1..3 = {1, 2, 3}
  OBVIOUS
<1>4. \A i \in 1..3 : Queries[i] \in Asking
  BY <1>2, <1>3 DEF Asking
<1>5. Range(Queries) = Asking
  BY <1>1, <1>2, <1>3 DEF Asking, Range
<1>6. QED
  BY <1>1, <1>2, <1>4, <1>5

(* What the attributes of a query cycle must keep, for the engine's write. *)
Cycle(c, e) == QueryOK(c, now) /\ ReadsOK(c, e, call)

SameGuards(c, x) == x.guards = c.guards /\ x.epoch = c.epoch

(* The guards stay right while they stay the same.                         *)
LEMMA GuardsCarried ==
    ASSUME NEW c, NEW x, x.guards = c.guards, NEW e, NEW conds,
           GuardsOK(c, e, conds), GuardedAll(c, e, conds)
    PROVE  GuardsOK(x, e, conds) /\ GuardedAll(x, e, conds)
<1> DEFINE g == c.guards
<1>1. x.guards = g
  OBVIOUS
<1>2. GuardsOK(x, e, conds)
  <2>1. g = [d \in Controls |-> g[d]]
    BY DEF GuardsOK
  <2>2. \A d \in Controls : g[d] # None =>
          /\ g[d].intent \in 1..e.counter /\ e.intents[g[d].intent].control = d
          /\ g[d].condition = conds[g[d].intent]
    BY DEF GuardsOK
  <2> HIDE DEF g
  <2>3. QED
    BY <1>1, <2>1, <2>2 DEF GuardsOK
<1>3. GuardedAll(x, e, conds)
  <2>1. \A id \in 1..e.counter : Open(e, id) /\ ~Unconditional(conds[id]) =>
            g[e.intents[id].control] # None /\ g[e.intents[id].control].intent = id
    BY DEF GuardedAll
  <2> HIDE DEF g
  <2>2. QED
    BY <1>1, <2>1 DEF GuardedAll
<1>4. QED
  BY <1>2, <1>3

(* A complete list is one whose place is behind the last query.            *)
LEMMA IdleMeans ==
    ASSUME NEW c, QueryOK(c, now), MetadataIdle(c)
    PROVE  c.index = 4 /\ c.pending = None /\ ~c.refresh
  BY QueryList DEF MetadataIdle, MetadataComplete, QueryOK

(* An answer completes the refresh, or the place in the list.              *)
LEMMA AnsweredOK ==
    ASSUME NEW c, NEW e, Cycle(c, e), c.pending # None, QueryAttempts \in Nat \ {0}
    PROVE  LET x == Answered(c)
           IN  /\ Cycle(x, e) /\ SameGuards(c, x)
               /\ IF c.refresh THEN x.success = TRUE ELSE x.success = c.success
<1> DEFINE x == Answered(c)
<1>1. CASE c.refresh
  <2>1. /\ DOMAIN x = CommandFields /\ x.index = c.index /\ x.attempts = 0 /\ x.reads = c.reads
        /\ x.refresh = FALSE /\ x.pending = None /\ x.success = TRUE /\ SameGuards(c, x)
    BY <1>1 DEF Cycle, QueryOK, CommandFields, Answered, SameGuards
  <2> HIDE DEF x
  <2>2. c.index = 4 /\ c.reads \in Nat
    BY <1>1 DEF Cycle, QueryOK
  <2>3. QueryOK(x, now)
    BY <2>1, <2>2 DEF QueryOK
  <2>4. ReadsOK(x, e, call)
    BY <2>1, <2>2 DEF Cycle, ReadsOK
  <2>5. QED
    BY <1>1, <2>1, <2>3, <2>4 DEF Cycle, x
<1>2. CASE ~c.refresh
  <2>1. /\ DOMAIN x = CommandFields /\ x.index = c.index + 1 /\ x.attempts = 0
        /\ x.reads = c.reads /\ x.refresh = c.refresh /\ x.pending = None
        /\ x.success = c.success /\ SameGuards(c, x)
    BY <1>2 DEF Cycle, QueryOK, CommandFields, Answered, SameGuards
  <2> HIDE DEF x
  <2>2. c.index \in 1..3 /\ c.reads \in Nat
    BY <1>2 DEF Cycle, QueryOK
  <2>3. QueryOK(x, now)
    BY <1>2, <2>1, <2>2 DEF QueryOK
  <2>4. ReadsOK(x, e, call)
    BY <1>2, <2>1, <2>2 DEF Cycle, ReadsOK
  <2>5. QED
    BY <1>2, <2>1, <2>3, <2>4 DEF Cycle, x
<1>3. QED
  BY <1>1, <1>2

(* A mismatch is asked again, and the reads made count as its attempts.    *)
LEMMA RereadOK ==
    ASSUME NEW c, NEW e, Cycle(c, e), c.refresh, c.reads < QueryAttempts,
           QueryAttempts \in Nat \ {0}
    PROVE  LET x == RereadAgain(c)
           IN  Cycle(x, e) /\ SameGuards(c, x) /\ x.success = c.success
<1> DEFINE x == RereadAgain(c)
<1>1. /\ DOMAIN x = CommandFields /\ x.index = c.index /\ x.attempts = c.reads
      /\ x.reads = c.reads /\ x.refresh = c.refresh /\ x.pending = None
      /\ x.success = c.success /\ SameGuards(c, x)
  BY DEF Cycle, QueryOK, CommandFields, RereadAgain, SameGuards
<1> HIDE DEF x
<1>2. QueryOK(x, now)
  BY <1>1 DEF Cycle, QueryOK
<1>3. ReadsOK(x, e, call)
  BY <1>1 DEF Cycle, QueryOK, ReadsOK
<1>4. QED
  BY <1>1, <1>2, <1>3 DEF Cycle, x

(* A new epoch or configuration starts the list over.                      *)
Restarted(c, epoch, known, next) ==
    [c EXCEPT !.epoch = epoch, !.configuration = known, !.refresh = FALSE,
              !.success = FALSE, !.version = @ + 1, !.pending = None,
              !.index = 1, !.attempts = 0, !.reads = 0, !.next = next]

(* A list that starts over asks for everything again, and has read         *)
(* nothing.                                                                *)
LEMMA StartedOver ==
    ASSUME NEW c, NEW e, DOMAIN c = CommandFields, NEW epoch, NEW known, NEW next,
           QueryAttempts \in Nat \ {0}
    PROVE  LET x == Restarted(c, epoch, known, next)
           IN  Cycle(x, e) /\ x.guards = c.guards /\ x.epoch = epoch /\ x.success = FALSE
<1> DEFINE y == [c EXCEPT !.epoch = epoch, !.configuration = known, !.refresh = FALSE,
                          !.success = FALSE, !.version = @ + 1]
           x == [y EXCEPT !.pending = None, !.index = 1, !.attempts = 0, !.reads = 0,
                          !.next = next]
<1>1. /\ DOMAIN y = CommandFields /\ y.refresh = FALSE /\ y.guards = c.guards
      /\ y.epoch = epoch /\ y.success = FALSE
  BY DEF CommandFields
<1>2. /\ DOMAIN x = CommandFields /\ x.refresh = FALSE /\ x.guards = c.guards
      /\ x.epoch = epoch /\ x.success = FALSE /\ x.pending = None /\ x.index = 1
      /\ x.attempts = 0 /\ x.reads = 0
  <2> HIDE DEF y
  <2>1. QED
    BY <1>1 DEF CommandFields
<1>3. Cycle(x, e)
  <2> HIDE DEF x
  <2>1. QED
    BY <1>2 DEF Cycle, QueryOK, ReadsOK
<1>4. Restarted(c, epoch, known, next) = x
  BY DEF Restarted
<1> HIDE DEF x
<1>5. QED
  BY <1>2, <1>3, <1>4

(* The periodic refresh starts the list over, with nothing in flight.      *)
LEMMA ListedAgain ==
    ASSUME NEW c, NEW e, Cycle(c, e), e.inflight = 0, MetadataIdle(c), NEW next,
           QueryAttempts \in Nat \ {0}
    PROVE  LET x == [c EXCEPT !.index = 1, !.attempts = 0, !.next = next]
           IN  Cycle(x, e) /\ SameGuards(c, x) /\ x.success = c.success
<1> DEFINE x == [c EXCEPT !.index = 1, !.attempts = 0, !.next = next]
<1>1. /\ DOMAIN x = CommandFields /\ x.index = 1 /\ x.attempts = 0 /\ x.reads = c.reads
      /\ x.refresh = c.refresh /\ x.pending = c.pending /\ x.success = c.success
      /\ SameGuards(c, x)
  BY DEF Cycle, QueryOK, CommandFields, SameGuards
<1>2. c.pending = None /\ ~c.refresh /\ c.reads \in Nat
  BY IdleMeans DEF Cycle, QueryOK
<1> HIDE DEF x
<1>3. QueryOK(x, now) /\ ReadsOK(x, e, call)
  BY <1>1, <1>2 DEF QueryOK, ReadsOK, Owned
<1>4. QED
  BY <1>1, <1>3 DEF Cycle, x

(* A query without an answer is asked again or, at its budget, passed over.*)
LEMMA TimedOutOK ==
    ASSUME NEW c, NEW e, Cycle(c, e), QueryAttempts \in Nat \ {0}
    PROVE  LET x == TimedOut(c)
           IN  Cycle(x, e) /\ SameGuards(c, x) /\ (x.success => c.success)
<1> DEFINE x == TimedOut(c)
           again == [c EXCEPT !.pending = None]
           past == [[c EXCEPT !.index = @ + 1] EXCEPT !.pending = None, !.attempts = 0]
           over == [[c EXCEPT !.refresh = FALSE, !.success = FALSE, !.version = @ + 1]
                       EXCEPT !.pending = None, !.attempts = 0]
<1>1. \/ x = c
      \/ c.pending # None /\ c.attempts < QueryAttempts /\ x = again
      \/ c.pending # None /\ c.refresh /\ x = over
      \/ c.pending # None /\ ~c.refresh /\ x = past
  BY DEF TimedOut, Exhausted
<1>2. /\ DOMAIN again = CommandFields /\ again.index = c.index /\ again.attempts = c.attempts
      /\ again.reads = c.reads /\ again.refresh = c.refresh /\ again.pending = None
      /\ again.success = c.success /\ SameGuards(c, again)
  BY DEF Cycle, QueryOK, CommandFields, SameGuards
<1>3. /\ DOMAIN past = CommandFields /\ past.index = c.index + 1 /\ past.attempts = 0
      /\ past.reads = c.reads /\ past.refresh = c.refresh /\ past.pending = None
      /\ past.success = c.success /\ SameGuards(c, past)
  BY DEF Cycle, QueryOK, CommandFields, SameGuards
<1>4. /\ DOMAIN over = CommandFields /\ over.index = c.index /\ over.attempts = 0
      /\ over.reads = c.reads /\ over.refresh = FALSE /\ over.pending = None
      /\ over.success = FALSE /\ SameGuards(c, over)
  BY DEF Cycle, QueryOK, CommandFields, SameGuards
<1> HIDE DEF x, again, past, over
<1>5. CASE x = c
  BY <1>5 DEF SameGuards, x
<1>6. CASE c.attempts < QueryAttempts /\ x = again
  <2>1. QueryOK(x, now) /\ ReadsOK(x, e, call)
    BY <1>2, <1>6 DEF Cycle, QueryOK, ReadsOK
  <2>2. QED
    BY <1>2, <1>6, <2>1 DEF Cycle, x
<1>7. CASE c.pending # None /\ c.refresh /\ x = over
  <2>1. c.index = 4
    BY <1>7 DEF Cycle, QueryOK
  <2>2. QueryOK(x, now) /\ ReadsOK(x, e, call)
    BY <1>4, <1>7, <2>1 DEF Cycle, QueryOK, ReadsOK
  <2>3. QED
    BY <1>4, <1>7, <2>2 DEF Cycle, x
<1>8. CASE c.pending # None /\ ~c.refresh /\ x = past
  <2>1. c.index \in 1..3
    BY <1>8 DEF Cycle, QueryOK
  <2>2. QueryOK(x, now) /\ ReadsOK(x, e, call)
    BY <1>3, <1>8, <2>1 DEF Cycle, QueryOK, ReadsOK
  <2>3. QED
    BY <1>3, <1>8, <2>2 DEF Cycle, x
<1>9. QED
  BY <1>1, <1>5, <1>6, <1>7, <1>8

(* A question costs an attempt, one for the filters also a read.           *)
LEMMA AskedOK ==
    ASSUME NEW c, NEW e, Cycle(c, e), c.pending = None, Question(c) # None, NEW reads,
           reads = c.reads \/ (reads = c.reads + 1 /\ Question(c) = "filters"),
           now \in Nat \ {0}, QueryAttempts \in Nat \ {0}
    PROVE  LET x == [c EXCEPT !.pending = [query |-> Question(c), at |-> now],
                              !.attempts = @ + 1, !.reads = reads]
           IN  Cycle(x, e) /\ SameGuards(c, x) /\ x.success = c.success
<1> DEFINE p == [query |-> Question(c), at |-> now]
           x == [c EXCEPT !.pending = p, !.attempts = @ + 1, !.reads = reads]
<1>1. /\ DOMAIN x = CommandFields /\ x.index = c.index /\ x.attempts = c.attempts + 1
      /\ x.reads = reads /\ x.refresh = c.refresh /\ x.pending = p
      /\ x.success = c.success /\ SameGuards(c, x)
  <2> HIDE DEF p
  <2>1. QED
    BY DEF Cycle, QueryOK, CommandFields, SameGuards
<1>2. /\ Question(c) \in Asking /\ (c.refresh => Question(c) = "filters")
      /\ c.index <= 3 \/ c.refresh
      /\ Question(c) = "filters" => c.index = 2 \/ c.refresh
  <2>1. CASE c.index \in 1..3
    <3>1. Question(c) = Queries[c.index] /\ ~c.refresh
      BY <2>1, QueryList DEF Question, MetadataComplete, Cycle, QueryOK
    <3>2. c.index \in {1, 2, 3}
      BY <2>1
    <3>3. QED
      BY <2>1, <3>1, <3>2, QueryList DEF Asking
  <2>2. CASE c.index = 4
    BY <2>2, QueryList DEF Question, MetadataComplete, Asking
  <2>3. QED
    BY <2>1, <2>2 DEF Cycle, QueryOK
<1>3. p \in [query : Asking, at : Nat] /\ p # None /\ p.query = Question(c) /\ p.at = now
  <2>1. p \in [query : Asking, at : Nat]
    BY <1>2
  <2>2. QED
    BY <2>1, QueryList, NoneIsApart
<1> HIDE DEF x, p
<1>4. c.attempts \in 0..QueryAttempts /\ c.attempts < QueryAttempts /\ c.reads \in Nat
  BY DEF Cycle, QueryOK
<1>5. QueryOK(x, now)
  BY <1>1, <1>2, <1>3, <1>4 DEF Cycle, QueryOK
<1>6. ReadsOK(x, e, call)
  <2> SUFFICES ASSUME Owned(e, call)
               PROVE  /\ x.reads <= QueryAttempts
                      /\ x.index = 1 => x.reads = 0
                      /\ x.index = 2 \/ x.refresh => x.reads <= x.attempts
    BY DEF ReadsOK
  <2>1. /\ c.reads <= QueryAttempts
        /\ c.index = 1 => c.reads = 0
        /\ c.index = 2 \/ c.refresh => c.reads <= c.attempts
    BY DEF Cycle, ReadsOK
  <2>2. CASE reads = c.reads
    BY <1>1, <1>4, <2>1, <2>2
  <2>3. CASE reads = c.reads + 1 /\ Question(c) = "filters"
    <3>1. c.index = 2 \/ (c.refresh /\ c.index = 4)
      BY <1>2, <2>3 DEF Cycle, QueryOK
    <3>2. QED
      BY <1>1, <1>4, <2>1, <2>3, <3>1
  <2>4. QED
    BY <2>2, <2>3
<1>7. QED
  BY <1>1, <1>5, <1>6 DEF Cycle, x, p

(* The refresh of the filters begins a budget of its own.                  *)
LEMMA RefreshFiltersOK ==
    ASSUME NEW c, QueryOK(c, now), c.index = 4, c.pending = None, QueryAttempts \in Nat \ {0}
    PROVE  LET x == RefreshFilters(c)
           IN  /\ QueryOK(x, now) /\ SameGuards(c, x) /\ x.success = FALSE
               /\ x.reads = c.reads /\ x.attempts = 0 /\ x.index = 4
<1> DEFINE x == RefreshFilters(c)
<1>1. /\ DOMAIN x = CommandFields /\ x.index = c.index /\ x.attempts = 0
      /\ x.reads = c.reads /\ x.refresh = TRUE /\ x.pending = c.pending
      /\ x.success = FALSE /\ SameGuards(c, x)
  BY DEF QueryOK, CommandFields, SameGuards, RefreshFilters
<1> HIDE DEF x
<1>2. QueryOK(x, now)
  BY <1>1 DEF QueryOK
<1>3. QED
  BY <1>1, <1>2 DEF x

-----------------------------------------------------------------------------
(* The requests.                                                           *)

(* A method that continues the engine keeps what guards, the call and the  *)
(* budget of reads rest on.                                                *)
LEMMA ContinuesKeeps ==
    ASSUME NEW e, NEW x, EngineOK(e), EngineOK(x), Continues(e, x),
           NEW c, NEW k, NEW conds, NEW t
    PROVE  /\ GuardsOK(c, e, conds) => GuardsOK(c, x, conds)
           /\ GuardedAll(c, e, conds) => GuardedAll(c, x, conds)
           /\ ConditionsOK(e, conds) => ConditionsOK(x, conds)
           /\ ReadsOK(c, e, k) => ReadsOK(c, x, k)
           /\ CallOK(k, e, t) => CallOK(k, x, t)
<1>1. /\ x.counter = e.counter
      /\ \A id \in 1..e.counter : x.intents[id].control = e.intents[id].control
  BY DEF Continues, SameRequests
<1>2. \A id \in 1..e.counter : Open(x, id) => Open(e, id)
  BY DEF Continues, GoalsFinal, Open
<1>3. GuardsOK(c, e, conds) => GuardsOK(c, x, conds)
  BY <1>1 DEF GuardsOK
<1>4. GuardedAll(c, e, conds) => GuardedAll(c, x, conds)
  BY <1>1, <1>2 DEF GuardedAll
<1>5. ConditionsOK(e, conds) => ConditionsOK(x, conds)
  BY <1>1 DEF ConditionsOK
<1>6. Owned(x, k) => Owned(e, k)
  <2>1. x.inflight # 0 => x.inflight = e.inflight /\ e.inflight \in DOMAIN e.history
    BY HistoryDomain DEF Continues, EngineOK, HistoryOK
  <2>2. QED
    BY <2>1 DEF Owned, Continues, SameActions, SameAction
<1>7. ReadsOK(c, e, k) => ReadsOK(c, x, k)
  BY <1>6 DEF ReadsOK
<1>8. CallOK(k, e, t) => CallOK(k, x, t)
  BY <1>1 DEF CallOK
<1>9. QED
  BY <1>3, <1>4, <1>5, <1>7, <1>8

(* No request is cancelled, but for an acknowledgement.                    *)
Uncancelled(e, x) ==
    \A id \in 1..e.counter :
        x.intents[id].stage = "CANCELLED"
            => e.intents[id].stage = "CANCELLED" \/ e.intents[id].control = "ack_reminder"

(* Cancelling nothing composes over the calls of one step.                 *)
LEMMA UncancelledTransitive ==
    ASSUME NEW e, NEW x, NEW y, SameRequests(e, x), Uncancelled(e, x), Uncancelled(x, y)
    PROVE  Uncancelled(e, y)
  BY DEF Uncancelled, SameRequests

(* Giving an action up requeues or fails its request.                      *)
LEMMA AbandonUncancelled ==
    ASSUME NEW e, EngineOK(e), e.inflight # 0, NEW result \in {"FAILED", "CANCELLED"}
    PROVE  Uncancelled(e, Abandon(e, result))
<1> DEFINE x == Abandon(e, result)
           pending == e.history[e.inflight]
           done == Complete(e, result, None)
           closed == [done EXCEPT !.resync = pending.epoch, !.settling = None]
           stage == IF pending.control = "ack_reminder" THEN "FAILED" ELSE "QUEUED"
<1>1. IsEngine(done) /\ done.intents = e.intents
  BY CompleteCloses
<1>2. IsEngine(closed) /\ closed.intents = e.intents
  <2>1. closed = WithBarrier(done, pending.epoch, None)
    BY DEF WithBarrier
  <2> HIDE DEF done, closed, pending
  <2>2. QED
    BY <1>1, <2>1, BarrierAssigned
<1>3. x = closed \/ x = Update(closed, pending.intent, stage)
  BY DEF Abandon
<1>4. stage # "CANCELLED"
  OBVIOUS
<1> HIDE DEF x, closed, done, stage, pending
<1>5. \/ x.intents = e.intents
      \/ x.intents = [e.intents EXCEPT ![pending.intent].stage = stage]
  BY <1>2, <1>3 DEF IsEngine, Update
<1>6. ASSUME NEW id \in 1..e.counter
      PROVE  x.intents[id].stage \in {e.intents[id].stage, stage}
  <2>1. IsItem(e.intents[id]) /\ id \in DOMAIN e.intents
    BY DEF EngineOK, GoalsOK
  <2>2. CASE x.intents = e.intents
    BY <2>2
  <2>3. CASE x.intents = [e.intents EXCEPT ![pending.intent].stage = stage]
    BY <2>1, <2>3 DEF IsItem
  <2>4. QED
    BY <1>5, <2>2, <2>3
<1>7. QED
  BY <1>4, <1>6 DEF Uncancelled, x

(* A deadline or a timeout fails what it ends.                             *)
LEMMA TickedUncancelled ==
    ASSUME NEW e, EngineOK(e), NEW t
    PROVE  Uncancelled(e, Expired(e, t)) /\ Uncancelled(e, Ticked(e, t))
<1> DEFINE due == Expired(e, t)
           x == Ticked(e, t)
<1>1. EngineOK(due) /\ Subdued(e, due)
  BY ExpiredOK, ExpiredRestages, RestagedContinues
<1>2. Uncancelled(e, due)
  <2> SUFFICES ASSUME NEW id \in 1..e.counter, due.intents[id].stage = "CANCELLED"
               PROVE  e.intents[id].stage = "CANCELLED"
    BY DEF Uncancelled
  <2>1. due.intents[id] = IF Open(e, id) /\ Overdue(e.intents[id], t)
                          THEN [e.intents[id] EXCEPT !.stage = "FAILED"]
                          ELSE e.intents[id]
    BY DEF Expired, EngineOK, IsEngine
  <2>2. IsItem(e.intents[id])
    BY DEF EngineOK, GoalsOK
  <2>3. QED
    BY <2>1, <2>2 DEF IsItem
<1>3. x = due \/ (due.inflight # 0 /\ x = Abandon(due, "FAILED"))
  <2>1. due.inflight = e.inflight
    BY ExpiredOK DEF Kept
  <2> HIDE DEF due
  <2>2. QED
    BY <2>1 DEF Ticked, due
<1> HIDE DEF due, x
<1>4. CASE due.inflight # 0 /\ x = Abandon(due, "FAILED")
  <2>1. Uncancelled(due, x)
    BY <1>1, <1>4, AbandonUncancelled
  <2>2. Uncancelled(e, x)
    BY <1>1, <1>2, <2>1, UncancelledTransitive DEF Subdued, Continues
  <2>3. QED
    BY <1>2, <2>2 DEF due, x
<1>5. QED
  BY <1>2, <1>3, <1>4 DEF due, x

(* A lost connection requeues or fails what was in flight.                 *)
LEMMA SuspendedUncancelled ==
    ASSUME NEW e, EngineOK(e)
    PROVE  Uncancelled(e, Suspended(e))
<1> DEFINE s == [e.state EXCEPT !.available = FALSE]
           blind == WithState(e, s)
           x == Suspended(e)
<1>1. x = (IF e.inflight = 0 THEN blind ELSE Abandon(blind, "CANCELLED"))
  BY DEF Suspended, WithState
<1>2. EngineOK(blind) /\ blind.intents = e.intents /\ blind.counter = e.counter
      /\ blind.inflight = e.inflight
  <2>1. IsState(s) /\ e.state.epoch <= s.epoch
    <3>1. IsState(e.state) /\ HasStateFields(s)
      BY AvailabilityAssigned DEF EngineOK, IsState
    <3>2. s.epoch = e.state.epoch /\ s.sequence = e.state.sequence /\ s.at = e.state.at
          /\ s.available = FALSE
      <4> DEFINE old == e.state
      <4>1. HasStateFields(old)
        BY <3>1 DEF IsState
      <4> HIDE DEF old
      <4>2. /\ [old EXCEPT !.available = FALSE].epoch = old.epoch
            /\ [old EXCEPT !.available = FALSE].sequence = old.sequence
            /\ [old EXCEPT !.available = FALSE].at = old.at
            /\ [old EXCEPT !.available = FALSE].available = FALSE
        BY <4>1 DEF HasStateFields
      <4>3. QED
        BY <4>2 DEF old
    <3> HIDE DEF s
    <3>3. s.available \in BOOLEAN /\ ~s.available
      BY <3>2
    <3>4. s.epoch \in Nat /\ s.sequence \in Nat /\ s.at \in Nat /\ e.state.epoch <= s.epoch
      BY <3>1, <3>2 DEF IsState
    <3>5. QED
      BY <3>1, <3>3, <3>4 DEF IsState
  <2> HIDE DEF s
  <2>2. QED
    BY <2>1, StateOK DEF SameGoals, Kept
<1> HIDE DEF blind, x
<1>3. CASE e.inflight = 0
  BY <1>1, <1>2, <1>3 DEF Uncancelled, x
<1>4. CASE e.inflight # 0
  <2>1. Uncancelled(blind, x)
    BY <1>1, <1>2, <1>4, AbandonUncancelled
  <2>2. QED
    BY <1>2, <2>1 DEF Uncancelled, x
<1>5. QED
  BY <1>3, <1>4

(* Confirmation and verification end requests as failed or verified.       *)
LEMMA JudgedUncancelled ==
    ASSUME NEW e, IsEngine(e), GoalsOK(e), NEW s
    PROVE  Uncancelled(e, Verified(Confirmed(e, s), s))
<1> DEFINE y == Confirmed(e, s)
           x == Verified(y, s)
           action == e.history[e.inflight]
           verdict == IF RetainedLow(action, s) THEN "FAILED" ELSE "VERIFIED"
           value == Value(s, action.control)
           done == Complete(e, verdict, value)
           h == [e.history EXCEPT ![e.inflight] =
                    [@ EXCEPT !.result = verdict, !.resulting = value]]
<1>1. IsEngine(done) /\ done.intents = e.intents /\ done.counter = e.counter
  <2>1. done = WithHistory(e, h, 0)
    BY DEF Complete, WithHistory
  <2> HIDE DEF done, h
  <2>2. QED
    BY <2>1, HistoryAssigned
<1>2. y = e \/ y = done \/ y = Update(done, action.intent, verdict)
  BY DEF Confirmed
<1>3. verdict \in {"FAILED", "VERIFIED"}
  OBVIOUS
<1> HIDE DEF y, done, verdict, action
<1>4. /\ IsEngine(y) /\ y.counter = e.counter
      /\ \/ y.intents = e.intents
         \/ y.intents = [e.intents EXCEPT ![action.intent].stage = verdict]
  <2>1. CASE y = e \/ y = done
    BY <1>1, <2>1
  <2>2. CASE y = Update(done, action.intent, verdict)
    <3> DEFINE v == [done.intents EXCEPT ![action.intent].stage = verdict]
    <3>1. y = WithIntents(done, v)
      BY <2>2 DEF Update, WithIntents
    <3> HIDE DEF v
    <3>2. IsEngine(y) /\ y.intents = v /\ y.counter = done.counter
      BY <1>1, <3>1, IntentsAssigned
    <3>3. QED
      BY <1>1, <3>2 DEF v
  <2>3. QED
    BY <1>2, <2>1, <2>2
<1>5. ASSUME NEW id \in 1..e.counter
      PROVE  IsItem(y.intents[id]) /\ y.intents[id].stage \in {e.intents[id].stage, verdict}
  <2>1. IsItem(e.intents[id]) /\ id \in DOMAIN e.intents
    BY DEF GoalsOK
  <2>2. CASE y.intents = e.intents
    BY <2>1, <2>2
  <2>3. CASE y.intents = [e.intents EXCEPT ![action.intent].stage = verdict]
    BY <2>1, <2>3 DEF IsItem
  <2>4. QED
    BY <1>4, <2>2, <2>3
<1>6. ASSUME NEW id \in 1..e.counter
      PROVE  x.intents[id].stage \in {y.intents[id].stage, "VERIFIED"}
  <2>1. CASE y.inflight # 0
    BY <2>1 DEF Verified
  <2>2. CASE y.inflight = 0
    <3>1. x.intents[id] = IF Reached(y, s, id) THEN [y.intents[id] EXCEPT !.stage = "VERIFIED"]
                          ELSE y.intents[id]
      BY <1>4, <2>2 DEF Verified, IsEngine
    <3>2. QED
      BY <1>5, <3>1 DEF IsItem
  <2>3. QED
    BY <2>1, <2>2
<1>7. QED
  BY <1>3, <1>5, <1>6 DEF Uncancelled, y

(* So does an observation, whatever it gives up first.                     *)
LEMMA ObservedUncancelled ==
    ASSUME NEW e, EngineOK(e), NEW s, IsState(s), NEW t
    PROVE  Uncancelled(e, Observed(e, s, t))
<1> DEFINE x == Observed(e, s, t)
           known == IF e.state.epoch # 0 /\ e.state.epoch # s.epoch THEN Suspended(e) ELSE e
           a == Ticked(known, t)
           seen == WithState(a, s)
           trusted == WithBarrier(seen, 0, None)
<1>1. CASE Outdated(e, s)
  BY <1>1 DEF Observed, Uncancelled
<1>2. CASE ~Outdated(e, s)
  <2>1. \/ x = Verified(Confirmed(seen, s), s)
        \/ x = seen
        \/ x = Restart(seen, s)
        \/ x = Verified(Confirmed(trusted, s), s)
    BY <1>2 DEF Observed, WithState, WithBarrier
  <2> HIDE DEF x
  <2>2. EngineOK(known) /\ Subdued(e, known) /\ Uncancelled(e, known)
    <3>1. Uncancelled(e, e)
      BY DEF Uncancelled
    <3>2. QED
      BY <3>1, ContinuesReflexive, SuspendedContinues, SuspendedUncancelled
  <2> HIDE DEF known
  <2>3. EngineOK(a) /\ Subdued(known, a) /\ Uncancelled(known, a)
    BY <2>2, TickedContinues, TickedUncancelled
  <2>4. Uncancelled(e, a) /\ SameRequests(e, a)
    <3>1. SameRequests(e, known) /\ SameRequests(known, a)
      BY <2>2, <2>3 DEF Subdued, Continues
    <3> HIDE DEF a
    <3>2. QED
      BY <2>2, <2>3, <3>1, UncancelledTransitive DEF SameRequests
  <2> HIDE DEF a
  <2>5. IsEngine(seen) /\ GoalsOK(seen) /\ seen.intents = a.intents /\ seen.counter = a.counter
    <3>1. IsEngine(seen) /\ SameGoals(a, seen)
      BY <2>3, StateAssigned DEF EngineOK, SameGoals
    <3> HIDE DEF seen
    <3>2. QED
      BY <2>3, <3>1, SameGoalsOK DEF SameGoals
  <2> HIDE DEF seen
  <2>6. /\ IsEngine(trusted) /\ GoalsOK(trusted)
        /\ trusted.intents = a.intents /\ trusted.counter = a.counter
    <3>1. /\ IsEngine(trusted) /\ trusted.intents = seen.intents
          /\ trusted.counter = seen.counter /\ trusted.latest = seen.latest
          /\ trusted.order = seen.order /\ trusted.actions = seen.actions
      BY <2>5, BarrierAssigned
    <3> HIDE DEF trusted
    <3>2. QED
      BY <2>5, <3>1 DEF GoalsOK, Open
  <2> HIDE DEF trusted
  <2>7. x = Restart(seen, s) => x.intents = a.intents
    <3>1. x = Restart(seen, s) => \E q : x = WithSettling(seen, q)
      BY DEF Restart, WithSettling
    <3>2. QED
      BY <2>5, <3>1, SettlingAssigned
  <2>8. Uncancelled(a, x)
    <3>1. CASE x = Verified(Confirmed(seen, s), s)
      BY <2>5, <3>1, JudgedUncancelled DEF Uncancelled
    <3>2. CASE x = seen \/ x = Restart(seen, s)
      BY <2>5, <2>7, <3>2 DEF Uncancelled
    <3>3. CASE x = Verified(Confirmed(trusted, s), s)
      BY <2>6, <3>3, JudgedUncancelled DEF Uncancelled
    <3>4. QED
      BY <2>1, <3>1, <3>2, <3>3
  <2>9. QED
    BY <2>4, <2>8, UncancelledTransitive DEF x
<1>3. QED
  BY <1>1, <1>2

(* The walk cancels only an acknowledgement whose reminder changed.        *)
LEMMA PreparedUncancelled ==
    ASSUME NEW e, EngineOK(e)
    PROVE  Uncancelled(e, Prepared(e))
<1> DEFINE due == Ticked(e, now)
           x == Prepared(e)
<1>1. EngineOK(due) /\ SameRequests(e, due) /\ Uncancelled(e, due)
  BY TickedContinues, TickedUncancelled DEF Subdued, Continues
<1>2. x = due \/ x = Walk(due)
  BY DEF Prepared
<1> HIDE DEF due, x
<1>3. Uncancelled(due, Walk(due))
  <2> SUFFICES ASSUME NEW id \in 1..due.counter, Walk(due).intents[id].stage = "CANCELLED",
                      due.intents[id].stage # "CANCELLED"
               PROVE  due.intents[id].control = "ack_reminder"
    BY DEF Uncancelled
  <2> DEFINE c == due.intents[id].control
  <2>1. Walk(due).intents[id] = due.intents[id]
        \/ Walk(due).intents[id] = [due.intents[id] EXCEPT !.stage = Verdict(due, c)]
    BY <1>1 DEF Walk, EngineOK, IsEngine
  <2>2. IsItem(due.intents[id])
    BY <1>1 DEF EngineOK, GoalsOK
  <2>3. Verdict(due, c) = "CANCELLED"
    <3> HIDE DEF c
    <3>1. QED
      BY <2>1, <2>2 DEF IsItem
  <2>4. QED
    BY <2>3 DEF Verdict
<1>4. Uncancelled(e, x)
  BY <1>1, <1>2, <1>3, UncancelledTransitive
<1>5. QED
  BY <1>4 DEF x

-----------------------------------------------------------------------------
(* What an iteration hears and remembers.                                  *)

(* A world during an iteration: the invariant, of its parts.               *)
Met(w) ==
    /\ DOMAIN w = WorldFields
    /\ Sound(w.s, w.c, w.e, call, conditions, now)
    /\ w.s.filtersAt \in 0..now /\ w.s.at <= now /\ ~Outdated(w.e, w.s)
    /\ w.ready \in BOOLEAN /\ (w.ready => w.s.synced)

SameStatus(sn, y) ==
    /\ y.epoch = sn.epoch /\ y.synced = sn.synced
    /\ y.sequence = sn.sequence /\ y.at = sn.at

SameWorld(w, x) ==
    /\ SameStatus(w.s, x.s) /\ x.ready = w.ready /\ x.revision = w.revision /\ x.out = w.out

(* Whether an observation is outdated depends on its status alone.         *)
LEMMA SameOutdated ==
    ASSUME NEW e, NEW sn, NEW y, SameStatus(sn, y)
    PROVE  Outdated(e, y) <=> Outdated(e, sn)
  BY DEF SameStatus, Outdated

(* A message is stored beside the status; a filter record has a time when  *)
(* it answers the pending query, and none when it was reflected.           *)
LEMMA StoredOK ==
    ASSUME NEW sn, SnapshotOK(sn), NEW c, NEW message, message.query \in Asking
    PROVE  LET y == Stored(sn, c, message)
           IN  /\ SnapshotOK(y) /\ SameStatus(sn, y)
               /\ y.filtersAt = IF message.query # "filters" THEN sn.filtersAt
                                ELSE IF Matches(c, message) THEN now ELSE 0
<1> DEFINE y == Stored(sn, c, message)
           time == IF Matches(c, message) THEN now ELSE 0
<1>1. CASE message.query = "setup"
  <2>1. y = [sn EXCEPT !.setup = TRUE]
    BY <1>1 DEF Stored
  <2>2. SnapshotOK(y)
    BY <2>1, SetupReceived
  <2>3. SameStatus(sn, y) /\ y.filtersAt = sn.filtersAt
    BY <2>1 DEF SnapshotOK, HasSnapshotFields, SameStatus
  <2>4. QED
    BY <1>1, <2>2, <2>3
<1>2. CASE message.query = "filters"
  <2>1. y = [sn EXCEPT !.filters = message.content, !.filtersAt = time]
    BY <1>2 DEF Stored
  <2> HIDE DEF y
  <2>2. SnapshotOK(y)
    <3> HIDE DEF time
    <3>1. QED
      BY <2>1, FiltersReceived
  <2>3. SameStatus(sn, y) /\ y.filtersAt = time
    <3> HIDE DEF time
    <3>1. QED
      BY <2>1 DEF SnapshotOK, HasSnapshotFields, SameStatus
  <2>4. QED
    BY <1>2, <2>2, <2>3 DEF y
<1>3. CASE message.query = "fault"
  <2>1. y = sn
    BY <1>3 DEF Stored
  <2>2. QED
    BY <1>3, <2>1 DEF SameStatus
<1>4. QED
  BY <1>1, <1>2, <1>3 DEF Asking

(* What a message makes of the attributes: a match answers the query, or   *)
(* asks it again, and an answered refresh is of a record just stored.      *)
LEMMA ReceivedOK ==
    ASSUME NEW w, Met(w), NEW message, message.query \in Asking, QueryAttempts \in Nat \ {0}
    PROVE  LET x == Received(w, message)
           IN  Met(x) /\ SameWorld(w, x) /\ x.e = w.e
<1> DEFINE x == Received(w, message)
           y == Stored(w.s, w.c, message)
           d == IF ~Matches(w.c, message) THEN w.c
                ELSE IF Reread(w, message) THEN RereadAgain(w.c) ELSE Answered(w.c)
<1>1. CASE w.c.epoch # w.s.epoch
  BY <1>1 DEF Received, SameWorld, SameStatus
<1>2. CASE w.c.epoch = w.s.epoch
  <2>1. x = [w EXCEPT !.s = y, !.c = d]
    BY <1>2 DEF Received
  <2>2. /\ DOMAIN x = WorldFields /\ x.s = y /\ x.c = d /\ x.e = w.e
        /\ x.ready = w.ready /\ x.revision = w.revision /\ x.out = w.out
    <3> HIDE DEF x, y, d
    <3>1. QED
      BY <2>1 DEF Met, WorldFields
  <2>3. /\ SnapshotOK(y) /\ SameStatus(w.s, y)
        /\ y.filtersAt = IF message.query # "filters" THEN w.s.filtersAt
                         ELSE IF Matches(w.c, message) THEN now ELSE 0
    BY StoredOK DEF Met, Sound
  <2>4. Cycle(w.c, w.e) /\ now \in Nat \ {0}
    BY DEF Met, Sound, Cycle
  <2>5. /\ Cycle(d, w.e) /\ SameGuards(w.c, d)
        /\ d.success => w.c.success \/ (w.c.refresh /\ Matches(w.c, message))
    <3>1. CASE ~Matches(w.c, message)
      <4>1. d = w.c
        BY <3>1
      <4> HIDE DEF d
      <4>2. QED
        BY <2>4, <4>1 DEF SameGuards
    <3>2. CASE Matches(w.c, message) /\ Reread(w, message)
      <4>1. w.c.refresh /\ w.c.reads < QueryAttempts /\ d = RereadAgain(w.c)
        BY <3>2 DEF Reread
      <4> HIDE DEF d
      <4>2. QED
        BY <2>4, <4>1, RereadOK
    <3>3. CASE Matches(w.c, message) /\ ~Reread(w, message)
      <4>1. w.c.pending # None /\ d = Answered(w.c)
        BY <3>3 DEF Matches
      <4> HIDE DEF d
      <4>2. /\ Cycle(d, w.e) /\ SameGuards(w.c, d)
            /\ IF w.c.refresh THEN d.success = TRUE ELSE d.success = w.c.success
        BY <2>4, <4>1, AnsweredOK
      <4>3. QED
        BY <3>3, <4>2
    <3>4. QED
      BY <3>1, <3>2, <3>3
  <2>6. w.c.refresh /\ Matches(w.c, message) => message.query = "filters"
    BY DEF Met, Sound, QueryOK, Matches
  <2> HIDE DEF x, y, d
  <2>7. ReadOK(y, d, call)
    <3> SUFFICES ASSUME call.phase = "read", d.success
                 PROVE  y.filtersAt = 0 \/ y.filtersAt >= call.at
      BY DEF ReadOK
    <3>1. call.at \in 0..now /\ now \in Nat
      BY DEF Met, Sound, CallOK
    <3>2. CASE message.query = "filters"
      BY <2>3, <3>1, <3>2
    <3>3. CASE message.query # "filters"
      <4>1. w.c.success /\ y.filtersAt = w.s.filtersAt
        BY <2>3, <2>5, <2>6, <3>3
      <4>2. QED
        BY <4>1 DEF Met, Sound, ReadOK
    <3>4. QED
      BY <3>2, <3>3
  <2>8. Sound(y, d, w.e, call, conditions, now)
    <3>1. GuardsOK(d, w.e, conditions) /\ GuardedAll(d, w.e, conditions)
      BY <2>5, GuardsCarried DEF Met, Sound, SameGuards
    <3>2. d.epoch \in 0..y.epoch
      BY <2>3, <2>5 DEF Met, Sound, SameGuards, SameStatus
    <3>3. QED
      BY <2>3, <2>5, <2>7, <3>1, <3>2 DEF Met, Sound, Cycle
  <2>9. y.filtersAt \in 0..now /\ y.at <= now /\ ~Outdated(w.e, y)
    BY <2>3, <2>4, SameOutdated DEF Met, SameStatus
  <2>10. Met(x)
    BY <2>2, <2>3, <2>8, <2>9 DEF Met, SameStatus
  <2>11. QED
    BY <2>2, <2>3, <2>10 DEF SameWorld, x
<1>3. QED
  BY <1>1, <1>2
(* Other attributes and another record beside the same status.             *)
LEMMA MetAgain ==
    ASSUME NEW w, Met(w), NEW x, DOMAIN x = WorldFields, x.e = w.e, x.ready = w.ready,
           SnapshotOK(x.s), SameStatus(w.s, x.s), x.s.filtersAt \in 0..now,
           Cycle(x.c, w.e), x.c.guards = w.c.guards, x.c.epoch \in 0..w.s.epoch,
           ReadOK(x.s, x.c, call)
    PROVE  Met(x)
<1>1. GuardsOK(x.c, w.e, conditions) /\ GuardedAll(x.c, w.e, conditions)
  <2> DEFINE d == x.c
  <2>1. d.guards = w.c.guards
    OBVIOUS
  <2> HIDE DEF d
  <2>2. GuardsOK(d, w.e, conditions) /\ GuardedAll(d, w.e, conditions)
    BY <2>1, GuardsCarried DEF Met, Sound
  <2>3. QED
    BY <2>2 DEF d
<1>2. Sound(x.s, x.c, w.e, call, conditions, now)
  BY <1>1 DEF Met, Sound, Cycle, SameStatus
<1>3. x.s.at <= now /\ ~Outdated(w.e, x.s)
  BY SameOutdated DEF Met, SameStatus
<1>4. QED
  BY <1>2, <1>3 DEF Met, SameStatus

(* A new epoch or configuration forgets what was read and starts over.     *)
LEMMA RenewedOK ==
    ASSUME NEW w, Met(w), QueryAttempts \in Nat \ {0}
    PROVE  LET x == Renewed(w)
           IN  Met(x) /\ SameWorld(w, x) /\ x.e = w.e
<1> DEFINE x == Renewed(w)
           z == [w.s EXCEPT !.setup = FALSE]
           y == [w.s EXCEPT !.setup = FALSE, !.filters = None, !.filtersAt = 0]
           known == IF w.s.synced THEN w.revision ELSE 0
           next == now + MetadataRefreshInterval
           d == Restarted(w.c, w.s.epoch, known, next)
<1>1. CASE ~Outlived(w)
  BY <1>1 DEF Renewed, SameWorld, SameStatus
<1>2. CASE Outlived(w)
  <2>1. x = [w EXCEPT !.s = y, !.c = d]
    BY <1>2 DEF Renewed, Restarted
  <2>2. /\ DOMAIN x = WorldFields /\ x.s = y /\ x.c = d /\ x.e = w.e
        /\ x.ready = w.ready /\ x.revision = w.revision /\ x.out = w.out
    <3> HIDE DEF x, y, d
    <3>1. QED
      BY <2>1 DEF Met, WorldFields
  <2>3. Cycle(d, w.e) /\ d.guards = w.c.guards /\ d.epoch = w.s.epoch /\ d.success = FALSE
    <3> HIDE DEF known, next
    <3>1. DOMAIN w.c = CommandFields
      BY DEF Met, Sound, QueryOK
    <3>2. QED
      BY <3>1, StartedOver
  <2>4. SnapshotOK(w.s)
    BY DEF Met, Sound
  <2>5. SnapshotOK(z)
    <3>1. HasSnapshotFields(z)
      BY <2>4, FieldAssigned DEF SnapshotOK
    <3>2. z.epoch = w.s.epoch /\ z.synced = w.s.synced /\ z.sequence = w.s.sequence
          /\ z.at = w.s.at
      BY <2>4 DEF SnapshotOK, HasSnapshotFields
    <3> HIDE DEF z
    <3>3. QED
      BY <2>4, <3>1, <3>2 DEF SnapshotOK
  <2>6. y = [z EXCEPT !.filters = None, !.filtersAt = 0]
    BY <2>4 DEF SnapshotOK, HasSnapshotFields
  <2>7. SnapshotOK(y)
    <3> HIDE DEF z, y
    <3>1. QED
      BY <2>5, <2>6, FiltersReceived
  <2>8. SameStatus(w.s, y) /\ y.filtersAt = 0
    BY <2>4 DEF SnapshotOK, HasSnapshotFields, SameStatus
  <2> HIDE DEF x, y, d
  <2>9. ReadOK(y, d, call)
    BY <2>8 DEF ReadOK
  <2>10. 0 \in 0..now /\ d.epoch \in 0..w.s.epoch
    <3>1. now \in Nat /\ w.s.epoch \in Nat
      BY DEF Met, Sound, SnapshotOK
    <3>2. QED
      BY <2>3, <3>1
  <2>11. Met(x)
    BY <2>2, <2>3, <2>7, <2>8, <2>9, <2>10, MetAgain
  <2>12. QED
    BY <2>2, <2>8, <2>11 DEF SameWorld, x
<1>3. QED
  BY <1>1, <1>2

(* So does the periodic refresh, with what was read still remembered.      *)
LEMMA RefreshedOK ==
    ASSUME NEW w, Met(w), QueryAttempts \in Nat \ {0}
    PROVE  LET x == Refreshed(w)
           IN  Met(x) /\ SameWorld(w, x) /\ x.e = w.e
<1> DEFINE x == Refreshed(w)
           next == now + MetadataRefreshInterval
           d == [w.c EXCEPT !.index = 1, !.attempts = 0, !.next = next]
<1>1. CASE ~(MetadataIdle(w.c) /\ w.e.inflight = 0 /\ now >= w.c.next)
  BY <1>1 DEF Refreshed, SameWorld, SameStatus
<1>2. CASE MetadataIdle(w.c) /\ w.e.inflight = 0 /\ now >= w.c.next
  <2>1. x = [w EXCEPT !.c = d]
    BY <1>2 DEF Refreshed
  <2>2. /\ DOMAIN x = WorldFields /\ x.s = w.s /\ x.c = d /\ x.e = w.e
        /\ x.ready = w.ready /\ x.revision = w.revision /\ x.out = w.out
    <3> HIDE DEF x, d
    <3>1. QED
      BY <2>1 DEF Met, WorldFields
  <2>3. Cycle(d, w.e) /\ SameGuards(w.c, d) /\ d.success = w.c.success
    <3> HIDE DEF next
    <3>1. Cycle(w.c, w.e)
      BY DEF Met, Sound, Cycle
    <3>2. QED
      BY <1>2, <3>1, ListedAgain
  <2> HIDE DEF x, d
  <2>4. SameStatus(w.s, x.s)
    BY <2>2 DEF SameStatus
  <2>5. Met(x)
    <3>1. ReadOK(x.s, x.c, call)
      BY <2>2, <2>3 DEF ReadOK, Met, Sound
    <3>2. /\ SnapshotOK(x.s) /\ x.s.filtersAt \in 0..now
          /\ x.c.epoch \in 0..w.s.epoch /\ x.c.guards = w.c.guards
      BY <2>2, <2>3 DEF Met, Sound, SameGuards
    <3>3. QED
      BY <2>2, <2>3, <2>4, <3>1, <3>2, MetAgain
  <2>6. QED
    BY <2>2, <2>4, <2>5 DEF SameWorld, x
<1>3. QED
  BY <1>1, <1>2
(* What the engine does meanwhile continues it.                            *)
LEMMA MetContinues ==
    ASSUME NEW w, Met(w), NEW x, DOMAIN x = WorldFields,
           x.s = w.s, x.c = w.c, x.ready = w.ready,
           EngineOK(x.e), Continues(w.e, x.e), ~Outdated(x.e, x.s)
    PROVE  Met(x)
<1> DEFINE f == x.e
<1>1. EngineOK(w.e) /\ EngineOK(f) /\ Continues(w.e, f)
  BY DEF Met, Sound
<1>2. /\ GuardsOK(w.c, w.e, conditions) => GuardsOK(w.c, f, conditions)
      /\ GuardedAll(w.c, w.e, conditions) => GuardedAll(w.c, f, conditions)
      /\ ConditionsOK(w.e, conditions) => ConditionsOK(f, conditions)
      /\ ReadsOK(w.c, w.e, call) => ReadsOK(w.c, f, call)
      /\ CallOK(call, w.e, now) => CallOK(call, f, now)
  <2> HIDE DEF f
  <2>1. QED
    BY <1>1, ContinuesKeeps
<1>3. Sound(x.s, x.c, f, call, conditions, now)
  BY <1>2 DEF Met, Sound
<1>4. QED
  BY <1>3 DEF Met

(* The engine while the connection is in sync sees what it received.       *)
LEMMA ObservedByOK ==
    ASSUME NEW w, Met(w), QueryAttempts \in Nat \ {0}
    PROVE  LET x == ObservedBy(w)
           IN  /\ Met(x) /\ SameWorld(w, x) /\ x.s = w.s
               /\ Continues(w.e, x.e) /\ Uncancelled(w.e, x.e)
               /\ x.ready => x.e.state = StateOf(x.s, TRUE)
<1> DEFINE x == ObservedBy(w)
           s == StateOf(w.s, w.ready)
           due == Ticked(w.e, now)
           d == TimedOut(w.c)
           f == IF w.s.synced THEN Observed(w.e, s, now) ELSE Suspended(due)
           y == [w EXCEPT !.c = d]
<1>0. x = [w EXCEPT !.c = d, !.e = f]
  BY DEF ObservedBy
<1>1. /\ SnapshotOK(w.s) /\ EngineOK(w.e) /\ Cycle(w.c, w.e) /\ now \in Nat \ {0}
      /\ w.ready \in BOOLEAN /\ (w.ready => w.s.synced) /\ ~Outdated(w.e, w.s)
  BY DEF Met, Sound, Cycle
<1>2. /\ EngineOK(f) /\ Continues(w.e, f) /\ Uncancelled(w.e, f) /\ ~Outdated(f, w.s)
      /\ w.ready => f.state = StateOf(w.s, TRUE)
  <2>1. CASE w.s.synced
    <3>1. f = Observed(w.e, s, now)
      BY <2>1
    <3>2. IsState(s) /\ ~Outdated(w.e, s)
      BY <1>1, StateOfSnapshot DEF StateOf, Outdated
    <3>3. ~Outdated(f, w.s) <=> ~Outdated(f, s)
      BY DEF StateOf, Outdated
    <3>4. w.ready => s = StateOf(w.s, TRUE)
      BY <1>1
    <3>5. s.epoch \in Nat /\ s.sequence \in Nat /\ s.at \in Nat
      BY <3>2 DEF IsState
    <3> HIDE DEF f, s
    <3>6. EngineOK(f) /\ Observes(w.e, f, s, now) /\ Uncancelled(w.e, f)
      BY <1>1, <3>1, <3>2, ObservedContinues, ObservedUncancelled
    <3>7. PICK a : EngineOK(a) /\ Subdued(w.e, a) /\ Continues(a, f) /\ f.state = s
      BY <3>6 DEF Observes
    <3>8. Continues(w.e, f)
      BY <1>1, <3>6, <3>7, ContinuesTransitive DEF Subdued
    <3>9. ~Outdated(f, s)
      BY <3>5, <3>7 DEF Outdated
    <3>10. QED
      BY <3>3, <3>4, <3>6, <3>7, <3>8, <3>9
  <2>2. CASE ~w.s.synced
    <3>1. f = Suspended(due)
      BY <2>2
    <3>2. EngineOK(due) /\ Subdued(w.e, due) /\ Uncancelled(w.e, due)
      BY <1>1, TickedContinues, TickedUncancelled
    <3> HIDE DEF f, due
    <3>3. EngineOK(f) /\ Subdued(due, f) /\ Uncancelled(due, f)
      BY <3>1, <3>2, SuspendedContinues, SuspendedUncancelled
    <3>4. Subdued(w.e, f)
      BY <1>1, <3>2, <3>3, SubduedTransitive
    <3>5. Uncancelled(w.e, f)
      BY <3>2, <3>3, UncancelledTransitive DEF Subdued, Continues
    <3>6. ~Outdated(f, w.s)
      BY <1>1, <3>4 DEF Subdued, SameSight, Outdated
    <3>7. QED
      BY <1>1, <2>2, <3>3, <3>4, <3>5, <3>6 DEF Subdued
  <2>3. QED
    BY <2>1, <2>2
<1>3. Cycle(d, w.e) /\ SameGuards(w.c, d) /\ (d.success => w.c.success)
  BY <1>1, TimedOutOK
<1> HIDE DEF x, d, f
<1>4. /\ DOMAIN y = WorldFields /\ y.s = w.s /\ y.c = d /\ y.e = w.e /\ y.ready = w.ready
      /\ DOMAIN x = WorldFields /\ x.s = w.s /\ x.c = d /\ x.e = f /\ x.ready = w.ready
      /\ x.revision = w.revision /\ x.out = w.out
  BY <1>0 DEF Met, WorldFields
<1> HIDE DEF y
<1>5. Met(y)
  <2>1. ReadOK(y.s, y.c, call)
    BY <1>3, <1>4 DEF ReadOK, Met, Sound
  <2>2. /\ SnapshotOK(y.s) /\ y.s.filtersAt \in 0..now /\ SameStatus(w.s, y.s)
        /\ y.c.epoch \in 0..w.s.epoch /\ y.c.guards = w.c.guards /\ Cycle(y.c, w.e)
    BY <1>3, <1>4 DEF Met, Sound, SameGuards, SameStatus
  <2>3. QED
    BY <1>4, <2>1, <2>2, MetAgain
<1>6. Met(x)
  BY <1>2, <1>4, <1>5, MetContinues
<1>7. SameWorld(w, x)
  BY <1>4 DEF SameWorld, SameStatus
<1>8. QED
  BY <1>2, <1>4, <1>6, <1>7 DEF x
-----------------------------------------------------------------------------
(* The guards.                                                             *)

(* What is still pursued may be pursued, and what was given up on may not. *)
Honoured(w) == \A id \in 1..w.e.counter : Open(w.e, id) => Holds(conditions[id], w)

Spares(w, x) ==
    \A id \in 1..w.e.counter :
        x.e.intents[id].stage = "CANCELLED" /\ w.e.intents[id].stage # "CANCELLED"
            => ~Holds(conditions[id], w)

(* Checking the guards cancels the open requests whose condition fails,    *)
(* and those alone.                                                        *)
LEMMA GuardingOK ==
    ASSUME NEW w, Met(w)
    PROVE  LET x == Guarding(w)
           IN  /\ Met(x) /\ SameWorld(w, x) /\ x.s = w.s /\ Continues(w.e, x.e)
               /\ x.e.state = w.e.state /\ x.e.history = w.e.history
               /\ Honoured(x) /\ Spares(w, x) /\ NoSuccess(w.e, x.e)
               /\ x.c.success = w.c.success /\ x.c.pending = w.c.pending /\ x.c.epoch = w.c.epoch
<1> DEFINE x == Guarding(w)
           e == w.e
           doomed(id) == Open(e, id) /\ \E c \in Doomed(w) : id = e.latest[c]
           v == [id \in 1..e.counter |->
                    IF doomed(id) THEN [e.intents[id] EXCEPT !.stage = "CANCELLED"]
                    ELSE e.intents[id]]
           gone(c) == c \in Doomed(w) \/ (c \in Guarded(w) /\ Ended(w, c))
           g == [c \in Controls |-> IF gone(c) THEN None ELSE w.c.guards[c]]
           f == WithIntents(e, v)
           d == [w.c EXCEPT !.guards = g]
<1>1. /\ SnapshotOK(w.s) /\ EngineOK(e) /\ QueryOK(w.c, now) /\ w.c.epoch \in 0..w.s.epoch
      /\ GuardsOK(w.c, e, conditions) /\ GuardedAll(w.c, e, conditions)
      /\ ConditionsOK(e, conditions) /\ ReadsOK(w.c, e, call) /\ CallOK(call, e, now)
      /\ ReadOK(w.s, w.c, call) /\ now \in Nat \ {0}
  BY DEF Met, Sound
<1>2. x = [w EXCEPT !.e = f, !.c = d]
  BY DEF Guarding, WithIntents
<1>3. /\ DOMAIN d = CommandFields /\ d.guards = g /\ d.epoch = w.c.epoch
      /\ d.index = w.c.index /\ d.attempts = w.c.attempts /\ d.reads = w.c.reads
      /\ d.pending = w.c.pending /\ d.refresh = w.c.refresh /\ d.success = w.c.success
  <2> HIDE DEF g
  <2>1. QED
    BY <1>1 DEF QueryOK, CommandFields
<1>4. Restaged(e, f)
  <2>1. \A id \in 1..e.counter :
          \/ v[id] = e.intents[id]
          \/ Open(e, id) /\ v[id] = [e.intents[id] EXCEPT !.stage = "CANCELLED"]
    BY DEF Doomed
  <2>2. "CANCELLED" \in Stages
    BY DEF Stages
  <2>3. v = [id \in 1..e.counter |-> v[id]]
    OBVIOUS
  <2> HIDE DEF v, f, e
  <2>4. QED
    BY <1>1, <2>1, <2>2, <2>3, StagesAssigned DEF f
<1>5. f.intents = v
  <2> HIDE DEF v
  <2>1. QED
    BY <1>1, IntentsAssigned DEF EngineOK
<1>6. EngineOK(f) /\ Continues(e, f)
  BY <1>1, <1>4, RestagedOK, RestagedContinues DEF Subdued
<1>7. ASSUME NEW id \in 1..e.counter, doomed(id)
      PROVE  /\ v[id].stage = "CANCELLED" /\ ~Holds(conditions[id], w)
  <2>1. PICK c \in Doomed(w) : Open(e, id) /\ id = e.latest[c]
    BY <1>7
  <2>2. /\ c \in Controls /\ w.c.guards[c] # None /\ Open(e, w.c.guards[c].intent)
        /\ ~Holds(w.c.guards[c].condition, w)
    BY DEF Doomed, Guarded, Ended
  <2>3. /\ w.c.guards[c].intent \in 1..e.counter
        /\ e.intents[w.c.guards[c].intent].control = c
        /\ w.c.guards[c].condition = conditions[w.c.guards[c].intent]
    BY <1>1, <2>2 DEF GuardsOK
  <2>4. w.c.guards[c].intent = id
    BY <1>1, <2>1, <2>2, <2>3 DEF EngineOK, GoalsOK
  <2>5. IsItem(e.intents[id]) /\ v[id] = [e.intents[id] EXCEPT !.stage = "CANCELLED"]
    BY <1>1, <1>7 DEF EngineOK, GoalsOK
  <2>6. QED
    BY <2>2, <2>3, <2>4, <2>5 DEF IsItem
<1>8. ASSUME NEW id \in 1..e.counter, ~doomed(id)
      PROVE  v[id] = e.intents[id]
  BY <1>8
<1> HIDE DEF x, v, f, d, doomed
<1>9. /\ f.counter = e.counter /\ f.state = e.state /\ f.history = e.history
      /\ f.inflight = e.inflight
      /\ \A id \in 1..e.counter : f.intents[id].control = e.intents[id].control
  BY <1>4 DEF Restaged
<1>10. ASSUME NEW id \in 1..e.counter, Open(f, id)
       PROVE  Open(e, id) /\ ~doomed(id)
  <2>1. ~doomed(id)
    BY <1>5, <1>7, <1>10 DEF Open, Terminal
  <2>2. QED
    BY <1>5, <1>8, <1>10, <2>1 DEF Open
<1>11. ASSUME NEW id \in 1..e.counter, Open(f, id), ~Unconditional(conditions[id])
       PROVE  LET c == e.intents[id].control
              IN  /\ c \in Controls /\ ~gone(c) /\ w.c.guards[c] # None
                  /\ w.c.guards[c].intent = id /\ Holds(conditions[id], w)
  <2> DEFINE c == e.intents[id].control
  <2>1. Open(e, id) /\ ~doomed(id)
    BY <1>10, <1>11
  <2>2. c \in Controls /\ e.latest[c] = id
    BY <1>1, <2>1 DEF EngineOK, GoalsOK, IntentOK
  <2>3. w.c.guards[c] # None /\ w.c.guards[c].intent = id
    BY <1>1, <1>11, <2>1 DEF GuardedAll
  <2>4. w.c.guards[c].condition = conditions[id]
    BY <1>1, <2>2, <2>3 DEF GuardsOK
  <2> HIDE DEF c
  <2>5. ~Ended(w, c) /\ c \in Guarded(w)
    BY <2>1, <2>2, <2>3 DEF Ended, Guarded
  <2>6. c \notin Doomed(w)
    BY <2>1, <2>2 DEF doomed
  <2>7. Holds(conditions[id], w)
    BY <2>4, <2>5, <2>6 DEF Doomed
  <2>8. QED
    BY <2>2, <2>3, <2>5, <2>6, <2>7 DEF c
<1>12. GuardsOK(d, f, conditions)
  <2>1. \A c \in Controls : g[c] # None => g[c] = w.c.guards[c]
    OBVIOUS
  <2>2. g = [c \in Controls |-> g[c]]
    OBVIOUS
  <2> HIDE DEF g
  <2>3. QED
    BY <1>1, <1>3, <1>9, <2>1, <2>2 DEF GuardsOK
<1>13. GuardedAll(d, f, conditions)
  <2> SUFFICES ASSUME NEW id \in 1..f.counter, Open(f, id), ~Unconditional(conditions[id])
               PROVE  /\ d.guards[f.intents[id].control] # None
                      /\ d.guards[f.intents[id].control].intent = id
    BY DEF GuardedAll
  <2> DEFINE c == e.intents[id].control
  <2>1. id \in 1..e.counter /\ f.intents[id].control = c
    BY <1>9
  <2>2. c \in Controls /\ ~gone(c) /\ w.c.guards[c] # None /\ w.c.guards[c].intent = id
    BY <1>11, <2>1
  <2> HIDE DEF c, gone
  <2>3. g[c] = w.c.guards[c]
    BY <2>2
  <2>4. QED
    BY <1>3, <2>1, <2>2, <2>3
<1> HIDE DEF g, gone, e
<1>14. /\ DOMAIN x = WorldFields /\ x.s = w.s /\ x.c = d /\ x.e = f /\ x.ready = w.ready
       /\ x.revision = w.revision /\ x.out = w.out
  BY <1>2 DEF Met, WorldFields
<1>15. Sound(w.s, d, f, call, conditions, now)
  <2>1. QueryOK(d, now)
    BY <1>1, <1>3 DEF QueryOK
  <2>2. ReadsOK(d, f, call) /\ CallOK(call, f, now) /\ ConditionsOK(f, conditions)
    <3>1. ReadsOK(d, e, call)
      BY <1>1, <1>3 DEF ReadsOK
    <3>2. QED
      BY <1>1, <1>6, <3>1, ContinuesKeeps
  <2>3. ReadOK(w.s, d, call)
    BY <1>1, <1>3 DEF ReadOK
  <2>4. d.epoch \in 0..w.s.epoch
    BY <1>1, <1>3
  <2>5. QED
    BY <1>1, <1>6, <1>12, <1>13, <2>1, <2>2, <2>3, <2>4 DEF Sound
<1>16. ~Outdated(f, w.s)
  BY <1>9 DEF Met, Outdated, e
<1>17. Met(x)
  BY <1>14, <1>15, <1>16 DEF Met
<1>18. Honoured(x)
  <2> SUFFICES ASSUME NEW id \in 1..f.counter, Open(f, id)
               PROVE  Holds(conditions[id], x)
    BY <1>14 DEF Honoured
  <2>1. id \in 1..e.counter
    BY <1>9
  <2>2. Holds(conditions[id], x) <=> Holds(conditions[id], w)
    BY <1>14 DEF Holds
  <2>3. Unconditional(conditions[id]) => Holds(conditions[id], w)
    BY DEF Unconditional, Holds
  <2>4. QED
    BY <1>11, <2>1, <2>2, <2>3
<1>19. Spares(w, x)
  <2> SUFFICES ASSUME NEW id \in 1..e.counter, f.intents[id].stage = "CANCELLED",
                      e.intents[id].stage # "CANCELLED"
               PROVE  ~Holds(conditions[id], w)
    BY <1>14 DEF Spares, e
  <2>1. doomed(id)
    BY <1>5, <1>8
  <2>2. QED
    BY <1>7, <2>1
<1>20. SameWorld(w, x)
  BY <1>14 DEF SameWorld, SameStatus
<1>21. NoSuccess(e, f)
  BY <1>5, <1>7, <1>8 DEF NoSuccess
<1>22. QED
  BY <1>3, <1>6, <1>9, <1>14, <1>17, <1>18, <1>19, <1>20, <1>21 DEF x, e
-----------------------------------------------------------------------------
(* What is written.                                                        *)

(* A receipt cancels nothing.                                              *)
LEMMA RecordedUncancelled ==
    ASSUME NEW e, EngineOK(e), NEW action, NEW at
    PROVE  Uncancelled(e, Recorded(e, action, at))
<1> DEFINE n == action.intent
           v == [e.intents EXCEPT ![n].stage = "WAITING_FOR_STATE"]
           taken == WithIntents(e, v)
           h == Append(e.history, Pending(action, at))
           i == Len(e.history) + 1
           a == [e.actions EXCEPT ![action.control] = @ + 1]
           y == WithSend(taken, h, i, a)
           x == Recorded(e, action, at)
<1>1. IsEngine(taken) /\ taken.intents = v /\ taken.history = e.history
      /\ taken.actions = e.actions
  <2> HIDE DEF v
  <2>1. QED
    BY IntentsAssigned DEF EngineOK
<1>2. taken = Update(e, n, "WAITING_FOR_STATE")
  BY DEF Update, WithIntents
<1> HIDE DEF taken
<1>3. x = y
  BY <1>1, <1>2 DEF Recorded, WithSend, IsEngine
<1>4. y.intents = v
  <2> HIDE DEF h, i, a, v
  <2>1. QED
    BY <1>1, SendAssigned
<1> HIDE DEF x, y
<1>5. ASSUME NEW id \in 1..e.counter, x.intents[id].stage = "CANCELLED"
      PROVE  e.intents[id].stage = "CANCELLED"
  <2>1. IsItem(e.intents[id]) /\ id \in DOMAIN e.intents
    BY DEF EngineOK, GoalsOK
  <2>2. CASE id = n
    <3>1. x.intents[id] = [e.intents[id] EXCEPT !.stage = "WAITING_FOR_STATE"]
      BY <1>3, <1>4, <2>1, <2>2
    <3>2. x.intents[id].stage = "WAITING_FOR_STATE"
      BY <2>1, <3>1 DEF IsItem
    <3>3. QED
      BY <1>5, <3>2
  <2>3. CASE id # n
    BY <1>3, <1>4, <1>5, <2>1, <2>3
  <2>4. QED
    BY <2>2, <2>3
<1>6. QED
  BY <1>5 DEF Uncancelled, x

SameControls(e, x) ==
    /\ x.counter = e.counter
    /\ \A id \in 1..e.counter : x.intents[id].control = e.intents[id].control

(* A transmission is of a request that was still pursued; it becomes the   *)
(* last transaction and the one in flight.                                 *)
LEMMA TransmittedOK ==
    ASSUME NEW e, EngineOK(e), Offers(e), now \in Nat
    PROVE  LET action == Offer(e)
               x == Sent(Prepared(e), action, now)
               n == Len(e.history) + 1
           IN  /\ EngineOK(x) /\ GoalsFinal(e, x) /\ SameControls(e, x)
               /\ Uncancelled(e, x) /\ x.state = e.state
               /\ Len(e.history) \in Nat /\ Len(x.history) = n /\ x.inflight = n
               /\ x.history[n].intent = action.intent
               /\ action.intent \in 1..e.counter /\ Open(e, action.intent)
               /\ e.intents[action.intent].control = action.control
<1> DEFINE p == Prepared(e)
           action == Offer(e)
           y == Recorded(p, action, now)
           x == Sent(p, action, now)
           n == Len(e.history) + 1
<1>1. Ready(Ticked(e, now))
  BY DEF Offers
<1>2. /\ EngineOK(p) /\ Subdued(e, p) /\ Uncancelled(e, p) /\ Kept(e, p)
      /\ p.inflight = 0 /\ p.resync = 0 /\ p.state = e.state
  BY <1>1, PreparedContinues, PreparedOK, PreparedUncancelled
<1>3. /\ ReceiptValid(p, action)
      /\ action.control \in Controls /\ action.intent # 0 /\ e.state.epoch # 0
      /\ p.actions[action.control] < MaxActions
  BY OfferAccepted, OfferOK
<1> HIDE DEF p, action
<1>4. EngineOK(y) /\ GoalsFinal(p, y) /\ Records(p, y, action, now)
  BY <1>2, <1>3, RecordedOK
<1>5. EngineOK(x) /\ x = Expired(y, now)
  BY <1>2, <1>3, SentOK
<1>6. Uncancelled(p, y)
  BY <1>2, RecordedUncancelled
<1> HIDE DEF x, y
<1>7. /\ Kept(y, x) /\ GoalsFinal(y, x) /\ x.state = y.state /\ x.counter = y.counter
      /\ Uncancelled(y, x)
  BY <1>4, <1>5, ExpiredOK, TickedUncancelled
<1>8. \A id \in 1..y.counter : x.intents[id].control = y.intents[id].control
  BY <1>4, <1>5, ExpiredRestages DEF Restaged
<1>9. /\ p.history = e.history /\ p.counter = e.counter
      /\ \A id \in 1..e.counter : p.intents[id].control = e.intents[id].control
      /\ GoalsFinal(e, p)
  BY <1>2 DEF Kept, Subdued, Continues, SameRequests
<1>10. /\ y.counter = e.counter /\ y.state = e.state
       /\ \A id \in 1..e.counter : y.intents[id].control = e.intents[id].control
       /\ Len(y.history) = n /\ y.inflight = n /\ y.history[n] = Pending(action, now)
       /\ action.intent \in 1..e.counter
       /\ p.intents[action.intent].stage = "WAITING_FOR_BUS"
       /\ p.intents[action.intent].control = action.control
  BY <1>2, <1>4, <1>9 DEF Records
<1>11. SameControls(e, x)
  BY <1>7, <1>8, <1>10 DEF SameControls
<1>12. GoalsFinal(e, x)
  <2>1. e.counter \in Nat
    BY DEF EngineOK, GoalsOK
  <2>2. GoalsFinal(e, y)
    BY <1>4, <1>9, <1>10, <2>1, GoalsFinalTransitive
  <2>3. QED
    BY <1>7, <1>10, <2>1, <2>2, GoalsFinalTransitive
<1>13. Uncancelled(e, x)
  <2>1. Uncancelled(e, y)
    BY <1>2, <1>6, <1>9 DEF Uncancelled
  <2>2. QED
    BY <1>7, <1>10, <2>1 DEF Uncancelled
<1>14. Len(x.history) = n /\ x.inflight = n /\ x.history[n].intent = action.intent
  BY <1>7, <1>10 DEF Kept, Pending
<1>15. Open(e, action.intent)
  <2>1. e.intents[action.intent].stage \notin Terminal
    BY <1>9, <1>10 DEF GoalsFinal, Terminal
  <2>2. QED
    BY <1>3, <2>1 DEF Open
<1>16. Len(e.history) \in Nat
  BY HistoryDomain DEF EngineOK, HistoryOK
<1>17. QED
  BY <1>5, <1>7, <1>9, <1>10, <1>11, <1>12, <1>13, <1>14, <1>15, <1>16 DEF x, p, action
(* Requests that stay the same, or end, keep their guards.                 *)
LEMMA RequestsKeep ==
    ASSUME NEW e, NEW x, SameControls(e, x), GoalsFinal(e, x),
           NEW c, NEW k, NEW conds, NEW t
    PROVE  /\ GuardsOK(c, e, conds) => GuardsOK(c, x, conds)
           /\ GuardedAll(c, e, conds) => GuardedAll(c, x, conds)
           /\ ConditionsOK(e, conds) => ConditionsOK(x, conds)
           /\ CallOK(k, e, t) => CallOK(k, x, t)
<1>1. \A id \in 1..e.counter : Open(x, id) => Open(e, id)
  BY DEF GoalsFinal, Open
<1>2. GuardsOK(c, e, conds) => GuardsOK(c, x, conds)
  BY DEF SameControls, GuardsOK
<1>3. GuardedAll(c, e, conds) => GuardedAll(c, x, conds)
  BY <1>1 DEF SameControls, GuardedAll
<1>4. ConditionsOK(e, conds) => ConditionsOK(x, conds)
  BY DEF SameControls, ConditionsOK
<1>5. CallOK(k, e, t) => CallOK(k, x, t)
  BY DEF SameControls, CallOK
<1>6. QED
  BY <1>2, <1>3, <1>4, <1>5

(* The same transactions are as many.                                      *)
LEMMA SameLength ==
    ASSUME NEW e, NEW x, EngineOK(e), EngineOK(x), SameActions(e, x)
    PROVE  Len(x.history) = Len(e.history)
<1> DEFINE n == Len(x.history)
           m == Len(e.history)
<1>1. n \in Nat /\ m \in Nat /\ 1..n = 1..m
  BY HistoryDomain DEF EngineOK, HistoryOK, SameActions
<1> HIDE DEF n, m
<1>2. (n = 0 \/ n \in 1..n) /\ (m = 0 \/ m \in 1..m)
  BY <1>1
<1>3. n <= m /\ m <= n
  BY <1>1, <1>2
<1>4. QED
  BY <1>1, <1>3 DEF n, m

(* What is transmitted, if anything, is of a request that may be sent.     *)
Writes(w, x) ==
    LET n == Len(x.e.history)
    IN  \/ n = Len(w.e.history)
        \/ n = Len(w.e.history) + 1 /\ Holds(conditions[x.e.history[n].intent], w)

(* prepare leaves what was observed alone.                                 *)
Served(w, x) ==
    /\ Met(x) /\ x.s = w.s /\ x.ready = w.ready /\ x.e.state = w.e.state
    /\ x.e.counter = w.e.counter /\ Uncancelled(w.e, x.e) /\ Writes(w, x)

(* A question.                                                             *)
LEMMA AskedByOK ==
    ASSUME NEW w, Met(w), w.c.pending = None, Question(w.c) # None, QueryAttempts \in Nat \ {0}
    PROVE  Served(w, Asked(w, Question(w.c)))
<1> DEFINE q == Question(w.c)
           x == Asked(w, q)
           reads == IF q = "filters" /\ WritingFilters(w.e) THEN w.c.reads + 1 ELSE w.c.reads
           d == [w.c EXCEPT !.pending = [query |-> q, at |-> now], !.attempts = @ + 1,
                            !.reads = reads]
<1>1. x = [w EXCEPT !.out = q, !.c = d]
  BY DEF Asked
<1>2. Cycle(d, w.e) /\ SameGuards(w.c, d) /\ d.success = w.c.success
  <2>1. Cycle(w.c, w.e) /\ now \in Nat \ {0}
    BY DEF Met, Sound, Cycle
  <2>2. reads = w.c.reads \/ (reads = w.c.reads + 1 /\ Question(w.c) = "filters")
    OBVIOUS
  <2> HIDE DEF reads
  <2>3. QED
    BY <2>1, <2>2, AskedOK
<1> HIDE DEF x, d, q
<1>3. DOMAIN x = WorldFields /\ x.s = w.s /\ x.c = d /\ x.e = w.e /\ x.ready = w.ready
  BY <1>1 DEF Met, WorldFields
<1>4. Met(x)
  <2>1. ReadOK(x.s, x.c, call)
    BY <1>2, <1>3 DEF ReadOK, Met, Sound
  <2>2. /\ SnapshotOK(x.s) /\ x.s.filtersAt \in 0..now /\ SameStatus(w.s, x.s)
        /\ x.c.epoch \in 0..w.s.epoch /\ x.c.guards = w.c.guards /\ Cycle(x.c, w.e)
    BY <1>2, <1>3 DEF Met, Sound, SameGuards, SameStatus
  <2>3. QED
    BY <1>3, <2>1, <2>2, MetAgain
<1>5. Uncancelled(w.e, x.e) /\ Writes(w, x)
  BY <1>3 DEF Uncancelled, Writes
<1>6. QED
  BY <1>3, <1>4, <1>5 DEF Served, x, q

(* The engine has nothing to send, or gets no slot.                        *)
LEMMA NothingOffered ==
    ASSUME NEW w, Met(w)
    PROVE  Served(w, [w EXCEPT !.e = Prepared(@)])
<1> DEFINE f == Prepared(w.e)
           x == [w EXCEPT !.e = f]
<1>1. EngineOK(w.e)
  BY DEF Met, Sound
<1>2. EngineOK(f) /\ Subdued(w.e, f) /\ Uncancelled(w.e, f) /\ f.state = w.e.state
  BY <1>1, PreparedContinues, PreparedOK, PreparedUncancelled
<1> HIDE DEF f
<1>3. DOMAIN x = WorldFields /\ x.s = w.s /\ x.c = w.c /\ x.e = f /\ x.ready = w.ready
  BY DEF Met, WorldFields
<1> HIDE DEF x
<1>4. ~Outdated(f, x.s)
  BY <1>2, <1>3 DEF Met, Outdated
<1>5. Met(x)
  BY <1>2, <1>3, <1>4, MetContinues DEF Subdued
<1>6. Writes(w, x)
  <2>1. Len(f.history) = Len(w.e.history)
    BY <1>1, <1>2, SameLength DEF Subdued, Continues
  <2>2. QED
    BY <1>3, <2>1 DEF Writes
<1>7. f.counter = w.e.counter
  BY <1>2 DEF Subdued, Continues, SameRequests
<1>8. QED
  BY <1>2, <1>3, <1>5, <1>6, <1>7 DEF Served, x, f
(* The list is complete, and no refresh of the filters is due, when there  *)
(* is nothing to ask.                                                      *)
LEMMA NothingToAsk ==
    ASSUME NEW c, QueryOK(c, now), Question(c) = None
    PROVE  c.index = 4 /\ ~c.refresh
<1>1. "filters" # None /\ \A i \in 1..3 : Queries[i] # None
  BY QueryList, NoneIsApart DEF Asking
<1>2. CASE c.index \in 1..3
  BY <1>1, <1>2, QueryList DEF Question, MetadataComplete
<1>3. CASE c.index = 4
  BY <1>1, <1>3, QueryList DEF Question, MetadataComplete
<1>4. QED
  BY <1>2, <1>3 DEF QueryOK

(* The engine's action is written: a filter write is read back next, with  *)
(* a budget of its own.                                                    *)
LEMMA ActedByOK ==
    ASSUME NEW w, Met(w), Honoured(w), Offers(w.e), w.c.pending = None, Question(w.c) = None,
           QueryAttempts \in Nat \ {0}
    PROVE  Served(w, Acted([w EXCEPT !.e = Prepared(@)], Offer(w.e)))
<1> DEFINE action == Offer(w.e)
           p == Prepared(w.e)
           z == [w EXCEPT !.e = p]
           zero == [w.c EXCEPT !.reads = 0]
           filtering == action.control = "filters"
           d == IF filtering THEN RefreshFilters(zero) ELSE w.c
           f == Sent(p, action, now)
           n == Len(w.e.history) + 1
           x == Acted(z, action)
<1>1. /\ EngineOK(w.e) /\ now \in Nat \ {0} /\ QueryOK(w.c, now) /\ SnapshotOK(w.s)
      /\ GuardsOK(w.c, w.e, conditions) /\ GuardedAll(w.c, w.e, conditions)
      /\ ConditionsOK(w.e, conditions) /\ CallOK(call, w.e, now) /\ ReadOK(w.s, w.c, call)
      /\ w.c.epoch \in 0..w.s.epoch
  BY DEF Met, Sound
<1>2. /\ EngineOK(f) /\ GoalsFinal(w.e, f) /\ SameControls(w.e, f)
      /\ Uncancelled(w.e, f) /\ f.state = w.e.state
      /\ Len(w.e.history) \in Nat /\ Len(f.history) = n /\ f.inflight = n
      /\ f.history[n].intent = action.intent
      /\ action.intent \in 1..w.e.counter /\ Open(w.e, action.intent)
      /\ w.e.intents[action.intent].control = action.control
  BY <1>1, TransmittedOK
<1> HIDE DEF action, p
<1>3. DOMAIN z = WorldFields /\ z.s = w.s /\ z.c = w.c /\ z.e = p /\ z.ready = w.ready
  BY DEF Met, WorldFields
<1>4. x = [z EXCEPT !.out = "action", !.e = f, !.c = d]
  <2> HIDE DEF z
  <2>1. QED
    BY <1>3 DEF Acted
<1> HIDE DEF x, f, d, z
<1>5. DOMAIN x = WorldFields /\ x.s = w.s /\ x.c = d /\ x.e = f /\ x.ready = w.ready
  BY <1>3, <1>4 DEF WorldFields
<1>6. w.c.index = 4 /\ ~w.c.refresh
  BY <1>1, NothingToAsk
<1>7. /\ QueryOK(d, now) /\ SameGuards(w.c, d)
      /\ filtering => d.reads = 0 /\ d.attempts = 0 /\ d.success = FALSE
      /\ ~filtering => d = w.c
  <2>1. CASE filtering
    <3>1. /\ DOMAIN zero = CommandFields /\ zero.index = w.c.index /\ zero.reads = 0
          /\ zero.attempts = w.c.attempts /\ zero.pending = w.c.pending
          /\ zero.refresh = w.c.refresh /\ zero.guards = w.c.guards /\ zero.epoch = w.c.epoch
      BY <1>1 DEF QueryOK, CommandFields
    <3> HIDE DEF zero
    <3>2. QueryOK(zero, now)
      BY <1>1, <3>1 DEF QueryOK
    <3>3. d = RefreshFilters(zero)
      BY <2>1 DEF d
    <3>4. QED
      BY <1>6, <2>1, <3>1, <3>2, <3>3, RefreshFiltersOK DEF SameGuards
  <2>2. CASE ~filtering
    BY <1>1, <2>2 DEF d, SameGuards
  <2>3. QED
    BY <2>1, <2>2
<1>8. ReadsOK(d, f, call)
  <2>1. CASE filtering
    BY <1>7, <2>1 DEF ReadsOK
  <2>2. CASE ~filtering
    <3>1. ~Owned(f, call)
      BY <1>1, <1>2, <2>2 DEF Owned, CallOK
    <3>2. QED
      BY <3>1 DEF ReadsOK
  <2>3. QED
    BY <2>1, <2>2
<1>9. ReadOK(w.s, d, call)
  BY <1>1, <1>7 DEF ReadOK
<1>10. /\ GuardsOK(d, f, conditions) /\ GuardedAll(d, f, conditions)
       /\ ConditionsOK(f, conditions) /\ CallOK(call, f, now)
  <2>1. GuardsOK(d, w.e, conditions) /\ GuardedAll(d, w.e, conditions)
    BY <1>1, <1>7, GuardsCarried DEF SameGuards
  <2>2. QED
    BY <1>1, <1>2, <2>1, RequestsKeep
<1>11. Met(x)
  <2>1. Sound(w.s, d, f, call, conditions, now)
    BY <1>1, <1>2, <1>7, <1>8, <1>9, <1>10 DEF Sound, SameGuards
  <2>2. ~Outdated(f, w.s)
    BY <1>2 DEF Met, Outdated
  <2>3. QED
    BY <1>5, <2>1, <2>2 DEF Met
<1>12. Writes(w, x)
  <2>1. Holds(conditions[action.intent], w)
    BY <1>2 DEF Honoured
  <2>2. QED
    BY <1>2, <1>5, <2>1 DEF Writes
<1>13. f.counter = w.e.counter
  BY <1>2 DEF SameControls
<1>14. QED
  BY <1>2, <1>5, <1>11, <1>12, <1>13 DEF Served, x, z, p, action

(* prepare asks, or sends, or does nothing at all.                         *)
LEMMA PreparesOK ==
    ASSUME NEW w, Met(w), Honoured(w), NEW slot, QueryAttempts \in Nat \ {0}
    PROVE  Served(w, Prepares(w, slot))
<1> DEFINE x == Prepares(w, slot)
           q == Question(w.c)
           idle == [w EXCEPT !.e = Prepared(@)]
<1>1. Served(w, w)
  BY DEF Served, Uncancelled, Writes
<1>2. CASE w.c.pending # None
  <2>1. x = w
    BY <1>2 DEF Prepares, PreparedFor
  <2>2. QED
    BY <1>1, <2>1
<1>3. CASE w.c.pending = None /\ q # None
  <2>1. x = Asked(w, q) \/ x = w
    BY <1>3 DEF Prepares, PreparedFor
  <2>2. Served(w, Asked(w, q))
    BY <1>3, AskedByOK
  <2>3. QED
    BY <1>1, <2>1, <2>2
<1>4. CASE w.c.pending = None /\ q = None
  <2>1. x = Offering(w, slot)
    BY <1>4 DEF Prepares, PreparedFor
  <2>2. x = idle \/ (Offers(w.e) /\ x = Acted(idle, Offer(w.e)))
    BY <2>1 DEF Offering
  <2>3. Served(w, idle)
    BY NothingOffered
  <2>4. Offers(w.e) => Served(w, Acted(idle, Offer(w.e)))
    BY <1>4, ActedByOK
  <2> HIDE DEF x, idle
  <2>5. QED
    BY <2>2, <2>3, <2>4 DEF x
<1>5. QED
  BY <1>2, <1>3, <1>4
-----------------------------------------------------------------------------
(* One iteration.                                                          *)

(* What the loop makes of what it received, before it writes.              *)
LEMMA UpdatedOK ==
    ASSUME NEW w, Met(w), QueryAttempts \in Nat \ {0}
    PROVE  LET x == Updated(w)
           IN  /\ Met(x) /\ SameWorld(w, x)
               /\ Continues(w.e, x.e) /\ Uncancelled(w.e, x.e)
               /\ x.ready => x.e.state = StateOf(x.s, TRUE)
<1> DEFINE a == Renewed(w)
           b == Refreshed(a)
           x == ObservedBy(b)
<1>1. Met(a) /\ SameWorld(w, a) /\ a.e = w.e
  BY RenewedOK
<1> HIDE DEF a
<1>2. Met(b) /\ SameWorld(a, b) /\ b.e = a.e
  BY <1>1, RefreshedOK
<1> HIDE DEF b
<1>3. /\ Met(x) /\ SameWorld(b, x)
      /\ Continues(b.e, x.e) /\ Uncancelled(b.e, x.e)
      /\ x.ready => x.e.state = StateOf(x.s, TRUE)
  BY <1>2, ObservedByOK
<1> HIDE DEF x
<1>4. SameWorld(w, x)
  BY <1>1, <1>2, <1>3 DEF SameWorld, SameStatus
<1>5. x = Updated(w)
  BY DEF Updated, x, b, a
<1>6. QED
  BY <1>1, <1>2, <1>3, <1>4, <1>5

(* What a read brings: nothing or a status that is not older, and nothing  *)
(* or the message that was under way the longest.                          *)
LEMMA ReadsWellFormed ==
    ASSUME RInv, NEW read \in Reads
    PROVE  /\ SnapshotOK(read.s) /\ read.s.epoch = snapshot.epoch
           /\ read.s.filtersAt = snapshot.filtersAt
           /\ read.s.at <= now /\ ~Outdated(engine, read.s)
           /\ LineOK(read.line)
           /\ read.message = None \/ read.message.query \in Asking
<1>1. /\ SnapshotOK(snapshot) /\ snapshot.at <= now /\ ~Outdated(engine, snapshot)
      /\ now \in Nat /\ LineOK(line) /\ IsState(engine.state)
  BY DEF RInv, Sound, SightOK, EngineOK
<1>2. CASE read = [message |-> None, s |-> snapshot, line |-> line]
  BY <1>1, <1>2
<1>3. ASSUME NEW st, read = [message |-> None, line |-> line,
                             s |-> [snapshot EXCEPT !.status = st, !.at = now,
                                                    !.sequence = @ + 1, !.synced = TRUE]]
      PROVE  /\ SnapshotOK(read.s) /\ read.s.epoch = snapshot.epoch
             /\ read.s.filtersAt = snapshot.filtersAt
             /\ read.s.at <= now /\ ~Outdated(engine, read.s)
             /\ LineOK(read.line) /\ read.message = None
  <2> DEFINE y == [snapshot EXCEPT !.status = st, !.at = now, !.synced = TRUE,
                                   !.sequence = @ + 1]
             z == [snapshot EXCEPT !.status = st, !.at = now,
                                   !.sequence = @ + 1, !.synced = TRUE]
  <2>1. y = z
    BY <1>1 DEF SnapshotOK, HasSnapshotFields
  <2>2. SnapshotOK(y)
    BY <1>1, StatusReceived
  <2>3. /\ y.epoch = snapshot.epoch /\ y.filtersAt = snapshot.filtersAt
        /\ y.at = now /\ y.sequence = snapshot.sequence + 1
    BY <1>1 DEF SnapshotOK, HasSnapshotFields
  <2>4. read.s = z /\ read.line = line /\ read.message = None
    <3> HIDE DEF z
    <3>1. QED
      BY <1>3 DEF z
  <2> HIDE DEF y, z
  <2>5. ~Outdated(engine, y)
    BY <1>1, <2>3 DEF Outdated, SnapshotOK, IsState
  <2>6. QED
    BY <1>1, <2>1, <2>2, <2>3, <2>4, <2>5
<1>4. CASE /\ line # <<>>
           /\ read = [message |-> Head(line), s |-> snapshot, line |-> Tail(line)]
  <2>1. PICK S : line \in Seq(S)
    BY <1>1 DEF LineOK, IsHistory
  <2>2. DOMAIN line = 1..Len(line) /\ Len(line) \in Nat /\ Len(line) # 0
    BY <1>4, <2>1, LenProperties, EmptySeq
  <2>3. Head(line) = line[1] /\ Tail(line) \in Seq(S)
    BY <2>1, <2>2, HeadTailProperties
  <2>4. Len(Tail(line)) = Len(line) - 1
        /\ \A i \in 1..(Len(line) - 1) : Tail(line)[i] = line[i + 1]
    BY <2>1, <2>2, HeadTailProperties
  <2>5. DOMAIN Tail(line) = 1..(Len(line) - 1)
    BY <2>3, <2>4, LenProperties
  <2>6. \A i \in DOMAIN Tail(line) : Tail(line)[i].query \in Asking
    BY <1>1, <2>2, <2>4, <2>5 DEF LineOK
  <2>7. LineOK(Tail(line)) /\ Head(line).query \in Asking
    BY <1>1, <1>4, <2>3, <2>6 DEF LineOK, IsHistory
  <2>8. QED
    BY <1>1, <1>4, <2>7
<1>5. \/ read = [message |-> None, s |-> snapshot, line |-> line]
      \/ \E st : read = [message |-> None, line |-> line,
                         s |-> [snapshot EXCEPT !.status = st, !.at = now,
                                                !.sequence = @ + 1, !.synced = TRUE]]
      \/ /\ line # <<>>
         /\ read = [message |-> Head(line), s |-> snapshot, line |-> Tail(line)]
  BY DEF Reads
<1>6. QED
  BY <1>2, <1>3, <1>4, <1>5
(* A message that the controller sends is one that was asked for.          *)
LEMMA CarriedOK ==
    ASSUME NEW w, NEW rest, LineOK(rest), NEW q \in Carried(w, rest)
    PROVE  LineOK(q)
<1>1. ASSUME NEW m, m.query \in Asking
      PROVE  LineOK(Append(rest, m))
  <2>1. /\ IsHistory(Append(rest, m)) /\ DOMAIN Append(rest, m) = 1..(Len(rest) + 1)
        /\ Append(rest, m)[Len(rest) + 1] = m
        /\ \A j \in DOMAIN rest : Append(rest, m)[j] = rest[j]
        /\ DOMAIN rest = 1..Len(rest) /\ Len(rest) \in Nat
    BY HistoryAppend, HistoryDomain DEF LineOK
  <2>2. \A j \in 1..(Len(rest) + 1) : j = Len(rest) + 1 \/ j \in DOMAIN rest
    BY <2>1
  <2>3. QED
    BY <1>1, <2>1, <2>2 DEF LineOK
<1>2. \/ q = rest
      \/ w.out \in Range(Queries) /\ q = Append(rest, Message(w.out, record, FALSE))
      \/ q = Append(rest, Message("filters", Desired(w), TRUE))
  BY DEF Carried
<1> DEFINE answer == Message(w.out, record, FALSE)
           echo == Message("filters", Desired(w), TRUE)
<1>3. answer.query = w.out /\ echo.query = "filters" /\ "filters" \in Asking
  BY DEF Message, Asking
<1> HIDE DEF answer, echo
<1>4. w.out \in Range(Queries) => LineOK(Append(rest, answer))
  BY <1>1, <1>3, QueryList
<1>5. LineOK(Append(rest, echo))
  BY <1>1, <1>3
<1>6. QED
  BY <1>2, <1>4, <1>5 DEF answer, echo

Unmoved ==
    /\ now' = now /\ call' = call /\ conditions' = conditions /\ enabled' = enabled

(* What the loop leaves behind when it went on.                            *)
LEMMA Landed ==
    ASSUME RInv, NEW w, Met(w), w.ready => w.e.state = StateOf(w.s, TRUE), Unmoved,
           snapshot' = w.s, commands' = w.c, engine' = w.e, ready' = w.ready,
           LineOK(line'), link' = "up"
    PROVE  RInv'
<1>1. Sound(snapshot', commands', engine', call', conditions', now')
  BY DEF Met, Unmoved
<1>2. SightOK(snapshot', engine', ready', now')
  BY DEF Met, Unmoved, SightOK
<1>3. QED
  BY <1>1, <1>2 DEF RInv, Unmoved

(* What the properties of a step say.                                      *)
NothingForbidden == Transmits => Holds(conditions[Transmitted.intent], World)
NothingWronged ==
    \A id \in 1..engine.counter :
        /\ call' = call /\ engine.intents[id].control # "ack_reminder"
        /\ engine.intents[id].stage # "CANCELLED" /\ engine'.intents[id].stage = "CANCELLED"
        => ~Holds(conditions[id], World)

(* A session that ends in doubt leaves a world as sound as it was.         *)
LEMMA AbortedOK ==
    ASSUME RInv, NEW w, Met(w), Continues(engine, w.e), Uncancelled(engine, w.e),
           Unmoved, Aborted(w)
    PROVE  RInv' /\ NothingForbidden /\ NothingWronged
<1> DEFINE y == [w.s EXCEPT !.synced = FALSE]
           f == Suspended(w.e)
<1>1. /\ snapshot' = y /\ link' = "down" /\ ready' = FALSE /\ commands' = w.c
      /\ engine' = f /\ line' = <<>>
  BY DEF Aborted
<1>2. /\ SnapshotOK(w.s) /\ EngineOK(w.e) /\ EngineOK(engine) /\ now \in Nat
      /\ w.s.filtersAt \in 0..now /\ w.s.at <= now /\ ~Outdated(w.e, w.s)
  BY DEF Met, RInv, Sound
<1>3. EngineOK(f) /\ Subdued(w.e, f) /\ Uncancelled(w.e, f)
  BY <1>2, SuspendedContinues, SuspendedUncancelled
<1>4. SnapshotOK(y) /\ y.synced = FALSE /\ y.epoch = w.s.epoch /\ y.sequence = w.s.sequence
      /\ y.at = w.s.at /\ y.filtersAt = w.s.filtersAt
  BY <1>2, SetupReceived DEF SnapshotOK, HasSnapshotFields
<1> HIDE DEF y, f
<1>5. Sound(y, w.c, f, call, conditions, now)
  <2>1. /\ GuardsOK(w.c, f, conditions) /\ GuardedAll(w.c, f, conditions)
        /\ ConditionsOK(f, conditions) /\ ReadsOK(w.c, f, call) /\ CallOK(call, f, now)
    BY <1>2, <1>3, ContinuesKeeps DEF Subdued, Met, Sound
  <2>2. ReadOK(y, w.c, call)
    BY <1>4 DEF ReadOK, Met, Sound
  <2>3. QED
    BY <1>3, <1>4, <2>1, <2>2 DEF Met, Sound
<1>6. ~Outdated(f, y)
  BY <1>2, <1>3, <1>4 DEF Subdued, SameSight, Outdated
<1>7. LineOK(<<>>)
  <2>1. <<>> \in Seq({}) /\ DOMAIN <<>> = {}
    BY EmptySeq
  <2>2. QED
    BY <2>1 DEF LineOK, IsHistory
<1>8. RInv'
  <2>1. Sound(snapshot', commands', engine', call', conditions', now')
    BY <1>1, <1>5 DEF Unmoved
  <2>2. SightOK(snapshot', engine', ready', now')
    BY <1>1, <1>2, <1>4, <1>6 DEF Unmoved, SightOK
  <2>3. QED
    BY <1>1, <1>7, <2>1, <2>2 DEF RInv, Unmoved
<1>9. SameActions(engine, f) /\ SameRequests(engine, w.e)
  BY <1>2, <1>3, ContinuesTransitive DEF Subdued, Continues
<1>10. NothingForbidden
  <2>1. Len(f.history) = Len(engine.history)
    BY <1>2, <1>3, <1>9, SameLength
  <2>2. QED
    BY <1>1, <1>2, <2>1, HistoryDomain DEF NothingForbidden, Transmits, EngineOK, HistoryOK
<1>11. NothingWronged
  <2>1. Uncancelled(engine, f)
    BY <1>3, <1>9, UncancelledTransitive
  <2>2. QED
    BY <1>1, <2>1 DEF NothingWronged, Uncancelled
<1>12. QED
  BY <1>8, <1>10, <1>11
(* A session that goes on cancels and writes only what the guards allow.   *)
LEMMA ServedOK ==
    ASSUME NEW w, Met(w), Continues(engine, w.e), Uncancelled(engine, w.e), EngineOK(engine),
           w.s.epoch = snapshot.epoch, w.ready => w.e.state = StateOf(w.s, TRUE),
           NEW slot, QueryAttempts \in Nat \ {0}, NEW x,
           x = IF w.ready THEN Prepares(Guarding(w), slot) ELSE w,
           engine' = x.e, call' = call
    PROVE  /\ Met(x) /\ x.s = w.s
           /\ x.ready => x.e.state = StateOf(x.s, TRUE)
           /\ NothingForbidden /\ NothingWronged
<1>1. /\ EngineOK(w.e) /\ SameRequests(engine, w.e) /\ Len(w.e.history) = Len(engine.history)
      /\ Len(engine.history) \in Nat
  BY SameLength, HistoryDomain DEF Met, Sound, Continues, EngineOK, HistoryOK
<1>2. CASE ~w.ready
  <2>1. x = w
    BY <1>2
  <2>2. NothingForbidden
    BY <1>1, <2>1 DEF NothingForbidden, Transmits
  <2>3. NothingWronged
    BY <2>1 DEF NothingWronged, Uncancelled
  <2>4. QED
    BY <2>1, <2>2, <2>3
<1>3. CASE w.ready
  <2> DEFINE g == Guarding(w)
  <2>1. /\ Met(g) /\ SameWorld(w, g) /\ g.s = w.s /\ Continues(w.e, g.e)
        /\ g.e.state = w.e.state /\ g.e.history = w.e.history
        /\ Honoured(g) /\ Spares(w, g)
    BY GuardingOK
  <2>2. x = Prepares(g, slot)
    BY <1>3
  <2> HIDE DEF g
  <2>3. /\ Met(x) /\ x.s = g.s /\ x.ready = g.ready /\ x.e.state = g.e.state
        /\ x.e.counter = g.e.counter /\ Uncancelled(g.e, x.e) /\ Writes(g, x)
    BY <2>1, <2>2, PreparesOK DEF Served
  <2>4. ASSUME NEW condition
        PROVE  /\ Holds(condition, g) <=> Holds(condition, World)
               /\ Holds(condition, w) <=> Holds(condition, World)
    <3>1. World.s = snapshot
      BY DEF World
    <3>2. QED
      BY <2>1, <3>1 DEF Holds
  <2>5. NothingForbidden
    <3> SUFFICES ASSUME Len(x.e.history) > Len(engine.history)
                 PROVE  Holds(conditions[x.e.history[Len(x.e.history)].intent], World)
      BY DEF NothingForbidden, Transmits, Transmitted
    <3>1. Holds(conditions[x.e.history[Len(x.e.history)].intent], g)
      BY <1>1, <2>1, <2>3 DEF Writes
    <3>2. QED
      BY <2>4, <3>1
  <2>6. NothingWronged
    <3> SUFFICES ASSUME NEW id \in 1..engine.counter,
                        engine.intents[id].control # "ack_reminder",
                        engine.intents[id].stage # "CANCELLED",
                        x.e.intents[id].stage = "CANCELLED"
                 PROVE  ~Holds(conditions[id], World)
      BY DEF NothingWronged
    <3>1. id \in 1..w.e.counter /\ w.e.intents[id].control = engine.intents[id].control
      BY <1>1 DEF SameRequests
    <3>2. id \in 1..g.e.counter /\ g.e.intents[id].control = engine.intents[id].control
      BY <2>1, <3>1 DEF Continues, SameRequests
    <3>3. w.e.intents[id].stage # "CANCELLED"
      BY DEF Uncancelled
    <3>4. g.e.intents[id].stage = "CANCELLED"
      BY <2>3, <3>2 DEF Uncancelled
    <3>5. QED
      BY <2>1, <2>4, <3>1, <3>3, <3>4 DEF Spares
  <2>7. x.ready => x.e.state = StateOf(x.s, TRUE)
    BY <1>3, <2>1, <2>3
  <2>8. QED
    BY <2>1, <2>3, <2>5, <2>6, <2>7
<1>4. QED
  BY <1>2, <1>3

(* One iteration of the loop, whatever it reads.                           *)
LEMMA IterationOK ==
    ASSUME RInv, Iteration
    PROVE  RInv' /\ NothingForbidden /\ NothingWronged /\ call' = call
<1>1. PICK read \in Reads :
         \E available \in Health(read.s.synced), slot \in Slots(read.line, read.s.synced) :
            Iterate(read, available, slot)
  BY DEF Iteration
<1>2. PICK available \in Health(read.s.synced), slot \in Slots(read.line, read.s.synced) :
         Iterate(read, available, slot)
  BY <1>1
<1> DEFINE a == [World EXCEPT !.s = read.s, !.ready = available]
           b == Heard(a, read.message)
           w == Updated(b)
           x == IF w.ready THEN Prepares(Guarding(w), slot) ELSE w
<1>3. /\ link = "up" /\ Iterated(w, read.line, slot)
      /\ Unmoved
  BY <1>2 DEF Iterate, Unmoved
<1>4. /\ SnapshotOK(read.s) /\ read.s.epoch = snapshot.epoch
      /\ read.s.filtersAt = snapshot.filtersAt
      /\ read.s.at <= now /\ ~Outdated(engine, read.s)
      /\ LineOK(read.line)
      /\ read.message = None \/ read.message.query \in Asking
  BY ReadsWellFormed
<1>5. available \in BOOLEAN /\ (available => read.s.synced)
  BY <1>2, EngineInputs DEF Health
<1>6. QueryAttempts \in Nat \ {0}
  BY RuntimeParameters
<1>7. /\ DOMAIN a = WorldFields /\ a.s = read.s /\ a.c = commands /\ a.e = engine
      /\ a.ready = available
  BY DEF World, WorldFields
<1> HIDE DEF a
<1>8. Met(a)
  <2>1. Sound(read.s, commands, engine, call, conditions, now)
    <3>1. ReadOK(read.s, commands, call)
      BY <1>4 DEF RInv, Sound, ReadOK
    <3>2. QED
      BY <1>4, <3>1 DEF RInv, Sound
  <2>2. read.s.filtersAt \in 0..now
    BY <1>4 DEF RInv, SightOK
  <2>3. QED
    BY <1>4, <1>5, <1>7, <2>1, <2>2 DEF Met
<1>9. Met(b) /\ SameWorld(a, b) /\ b.e = a.e
  <2>1. CASE read.message = None
    BY <1>8, <2>1 DEF Heard, SameWorld, SameStatus
  <2>2. CASE read.message # None
    <3>1. b = Received(a, read.message)
      BY <2>2 DEF Heard
    <3>2. QED
      BY <1>4, <1>6, <1>8, <2>2, <3>1, ReceivedOK
  <2>3. QED
    BY <2>1, <2>2
<1> HIDE DEF b
<1>10. /\ Met(w) /\ SameWorld(b, w)
       /\ Continues(engine, w.e) /\ Uncancelled(engine, w.e)
       /\ w.ready => w.e.state = StateOf(w.s, TRUE)
  BY <1>6, <1>7, <1>9, UpdatedOK
<1>11. w.s.epoch = snapshot.epoch
  BY <1>4, <1>7, <1>9, <1>10 DEF SameWorld, SameStatus
<1> HIDE DEF w
<1>12. CASE w.e.resync = w.s.epoch
  <2>1. Aborted(w)
    BY <1>3, <1>12 DEF Iterated
  <2>2. QED
    BY <1>3, <1>10, <2>1, AbortedOK DEF Unmoved
<1>13. CASE w.e.resync # w.s.epoch
  <2>1. Continued(x, read.line)
    BY <1>3, <1>13 DEF Iterated
  <2> DEFINE z == x
  <2> HIDE DEF z
  <2>2. /\ snapshot' = z.s /\ link' = "up" /\ ready' = z.ready
        /\ commands' = z.c /\ engine' = z.e /\ line' \in Carried(z, read.line)
    BY <2>1 DEF Continued, z
  <2>3. z = IF w.ready THEN Prepares(Guarding(w), slot) ELSE w
    BY DEF z
  <2>4. /\ Met(z) /\ z.s = w.s /\ (z.ready => z.e.state = StateOf(z.s, TRUE))
        /\ NothingForbidden /\ NothingWronged
    BY <1>3, <1>6, <1>10, <1>11, <2>2, <2>3, ServedOK DEF Unmoved, RInv, Sound
  <2>5. LineOK(line')
    BY <1>4, <2>2, CarriedOK
  <2>6. RInv'
    BY <1>3, <2>2, <2>4, <2>5, Landed
  <2>7. QED
    BY <1>3, <2>4, <2>6 DEF Unmoved
<1>14. QED
  BY <1>12, <1>13
-----------------------------------------------------------------------------
(* The requests of the user interface.                                     *)

(* A new request supersedes one and cancels none.                          *)
LEMMA AdmittedUncancelled ==
    ASSUME NEW e, EngineOK(e), NEW c \in Controls, NEW desired, NEW deadline, NEW defer,
           NEW replace
    PROVE  Uncancelled(e, Admitted(e, c, desired, deadline, defer, replace))
<1> DEFINE x == Admitted(e, c, desired, deadline, defer, replace)
           previous == e.latest[c]
           inherits == Replacing(e, c, replace)
           item == [ control |-> c, desired |-> desired, stage |-> "QUEUED",
                     code |-> IF c = "ack_reminder" THEN Code(e.state.status) ELSE None,
                     deadline |-> IF inherits THEN e.intents[previous].deadline ELSE deadline,
                     notBefore |-> now + defer ]
           freed == Superseded(e, c)
           n == e.counter + 1
           v == [id \in 1..n |-> IF id = n THEN item ELSE freed.intents[id]]
           o == IF previous = 0 THEN Append(freed.order, c) ELSE freed.order
           a == IF inherits THEN freed.actions[c] ELSE 0
<1>1. /\ IsEngine(freed)
      /\ \/ freed.intents = e.intents
         \/ freed.intents = [e.intents EXCEPT ![previous].stage = "SUPERSEDED"]
  <2>1. CASE ~Open(e, previous)
    <3>1. freed = e
      BY <2>1 DEF Superseded
    <3> HIDE DEF freed
    <3>2. QED
      BY <3>1 DEF EngineOK
  <2>2. CASE Open(e, previous)
    <3> DEFINE u == [e.intents EXCEPT ![previous].stage = "SUPERSEDED"]
    <3>1. freed = WithIntents(e, u)
      BY <2>2 DEF Superseded, Update, WithIntents
    <3> HIDE DEF u, freed
    <3>2. IsEngine(freed) /\ freed.intents = u
      BY <3>1, IntentsAssigned DEF EngineOK
    <3>3. QED
      BY <3>2 DEF u
  <2>3. QED
    BY <2>1, <2>2
<1>2. x = [freed EXCEPT !.counter = n, !.intents = v, !.latest[c] = n, !.order = o,
                        !.actions[c] = a]
  <2>1. x = [freed EXCEPT !.counter = n, !.intents = v, !.latest[c] = n,
                          !.order = IF previous = 0 THEN Append(@, c) ELSE @,
                          !.actions[c] = IF inherits THEN @ ELSE 0]
    BY DEF Admitted
  <2> HIDE DEF x, v, freed, previous, n, inherits
  <2>2. QED
    BY <1>1, <2>1 DEF IsEngine
<1> HIDE DEF x, freed
<1>3. x.intents = v
  <2> HIDE DEF n, v, o, a
  <2>1. QED
    BY <1>1, <1>2 DEF IsEngine
<1>4. e.counter \in Nat /\ \A id \in 1..e.counter : id \in 1..n /\ id # n
  BY DEF EngineOK, GoalsOK
<1>5. ASSUME NEW id \in 1..e.counter, x.intents[id].stage = "CANCELLED"
      PROVE  e.intents[id].stage = "CANCELLED"
  <2>1. IsItem(e.intents[id]) /\ id \in DOMAIN e.intents
    BY DEF EngineOK, GoalsOK
  <2>2. x.intents[id] = freed.intents[id]
    BY <1>3, <1>4
  <2> HIDE DEF previous
  <2>3. CASE freed.intents = e.intents
    BY <1>5, <2>2, <2>3
  <2>4. CASE freed.intents = [e.intents EXCEPT ![previous].stage = "SUPERSEDED"]
    <3>1. CASE id = previous
      <4>1. x.intents[id] = [e.intents[id] EXCEPT !.stage = "SUPERSEDED"]
        BY <2>1, <2>2, <2>4, <3>1
      <4>2. x.intents[id].stage = "SUPERSEDED"
        BY <2>1, <4>1 DEF IsItem
      <4>3. QED
        BY <1>5, <4>2
    <3>2. CASE id # previous
      BY <1>5, <2>1, <2>2, <2>4, <3>2
    <3>3. QED
      BY <3>1, <3>2
  <2>5. QED
    BY <1>1, <2>3, <2>4
<1>6. QED
  BY <1>5 DEF Uncancelled, x

(* A step of the call, or of somebody else, while the loop waits.          *)
LEMMA Aside ==
    ASSUME RInv, EngineOK(engine'), Continues(engine, engine'), engine'.state = engine.state,
           QueryOK(commands', now), SameGuards(commands, commands'),
           CallOK(call', engine', now), ReadsOK(commands', engine', call'),
           ReadOK(snapshot, commands', call'),
           now' = now, snapshot' = snapshot, link' = link, ready' = ready,
           enabled' \in BOOLEAN, conditions' = conditions, LineOK(line')
    PROVE  RInv' /\ NothingForbidden
<1>1. EngineOK(engine) /\ SightOK(snapshot, engine, ready, now)
  BY DEF RInv, Sound
<1>2. GuardsOK(commands', engine', conditions) /\ GuardedAll(commands', engine', conditions)
      /\ ConditionsOK(engine', conditions)
  <2>1. GuardsOK(commands', engine, conditions) /\ GuardedAll(commands', engine, conditions)
    BY GuardsCarried DEF RInv, Sound, SameGuards
  <2>2. ConditionsOK(engine, conditions)
    BY DEF RInv, Sound
  <2>3. QED
    BY <1>1, <2>1, <2>2, ContinuesKeeps
<1>3. Sound(snapshot', commands', engine', call', conditions', now')
  BY <1>2 DEF RInv, Sound, SameGuards
<1>4. SightOK(snapshot', engine', ready', now')
  BY <1>1 DEF SightOK, Outdated
<1>5. RInv'
  BY <1>3, <1>4 DEF RInv
<1>6. NothingForbidden
  <2>1. Len(engine'.history) = Len(engine.history) /\ Len(engine.history) \in Nat
    BY <1>1, SameLength, HistoryDomain DEF Continues, EngineOK, HistoryOK
  <2>2. QED
    BY <2>1 DEF NothingForbidden, Transmits
<1>7. QED
  BY <1>5, <1>6

-----------------------------------------------------------------------------
(* A request of the user interface.                                        *)

(* A request writes the guard of its control, and no other attribute.      *)
LEMMA GuardWritten ==
    ASSUME NEW q, DOMAIN q = CommandFields, q.guards = [d \in Controls |-> q.guards[d]],
           NEW c \in Controls, NEW n, NEW condition
    PROVE  LET x == [q EXCEPT !.guards[c] = GuardOf(@, n, condition)]
           IN  /\ DOMAIN x = CommandFields /\ x.epoch = q.epoch /\ x.index = q.index
               /\ x.pending = q.pending /\ x.attempts = q.attempts /\ x.reads = q.reads
               /\ x.refresh = q.refresh /\ x.success = q.success
               /\ x.guards = [d \in Controls |-> IF d = c THEN GuardOf(None, n, condition)
                                                 ELSE q.guards[d]]
<1> DEFINE v == GuardOf(None, n, condition)
           g == [q.guards EXCEPT ![c] = v]
           x == [q EXCEPT !.guards = g]
<1>1. [q EXCEPT !.guards[c] = GuardOf(@, n, condition)] = x
  BY DEF GuardOf
<1>2. g = [d \in Controls |-> IF d = c THEN v ELSE q.guards[d]]
  <2> HIDE DEF v
  <2>1. QED
    OBVIOUS
<1> HIDE DEF g, v
<1>3. /\ DOMAIN x = CommandFields /\ x.epoch = q.epoch /\ x.index = q.index
      /\ x.pending = q.pending /\ x.attempts = q.attempts /\ x.reads = q.reads
      /\ x.refresh = q.refresh /\ x.success = q.success /\ x.guards = g
  BY DEF CommandFields
<1> HIDE DEF x
<1>4. QED
  BY <1>1, <1>2, <1>3 DEF v

(* A guard tells its absence from every other condition.                   *)
LEMMA GuardIsThere ==
    ASSUME NEW n \in Nat, NEW condition \in Condition
    PROVE  LET v == GuardOf(None, n, condition)
           IN  IF Unconditional(condition) THEN v = None
               ELSE v # None /\ v.intent = n /\ v.condition = condition
<1> DEFINE r == [intent |-> n, condition |-> condition]
<1>1. r \in [intent : Nat, condition : [epoch : Nat, caller : BOOLEAN]]
  BY DEF Condition
<1>2. r # None
  BY <1>1, NoneIsApart
<1>3. r.intent = n /\ r.condition = condition
  OBVIOUS
<1>4. GuardOf(None, n, condition) = IF Unconditional(condition) THEN None ELSE r
  BY DEF GuardOf, Unconditional
<1> HIDE DEF r
<1>5. QED
  BY <1>2, <1>3, <1>4

(* A request has the guard of its own condition, and no guard of another   *)
(* control is touched; the goal it replaces is no longer open.             *)
LEMMA RequestGuarded ==
    ASSUME NEW e, EngineOK(e), NEW x, EngineOK(x), NEW c \in Controls,
           GoalsFinal(e, x), x.counter = e.counter + 1,
           x.latest[c] = e.counter + 1,
           \A id \in 1..e.counter : x.intents[id].control = e.intents[id].control,
           NEW q, NEW conds, GuardsOK(q, e, conds), GuardedAll(q, e, conds),
           ConditionsOK(e, conds), NEW condition \in Condition, NEW y,
           y.guards = [d \in Controls |-> IF d = c THEN GuardOf(None, e.counter + 1, condition)
                                          ELSE q.guards[d]]
    PROVE  LET more == Append(conds, condition)
           IN  GuardsOK(y, x, more) /\ GuardedAll(y, x, more) /\ ConditionsOK(x, more)
<1> DEFINE n == e.counter + 1
           more == Append(conds, condition)
           v == GuardOf(None, n, condition)
<1>1. e.counter \in Nat /\ n \in Nat /\ n \in 1..n /\ n # 0
      /\ \A id \in 1..n : id = n \/ id \in 1..e.counter
  BY DEF EngineOK, GoalsOK
<1>2. /\ more \in Seq(Condition) /\ Len(more) = n /\ more[n] = condition
      /\ \A id \in 1..e.counter : more[id] = conds[id]
  BY <1>1, AppendProperties DEF ConditionsOK
<1>3. IF Unconditional(condition) THEN v = None
      ELSE v # None /\ v.intent = n /\ v.condition = condition
  BY <1>1, GuardIsThere
<1>4. x.intents[n].control = c
  BY <1>1 DEF EngineOK, GoalsOK
<1>5. \A id \in 1..x.counter : Open(x, id) => x.latest[x.intents[id].control] = id
  BY DEF EngineOK, GoalsOK
<1>6. \A id \in 1..e.counter : x.intents[id].control \in Controls
  BY DEF EngineOK, GoalsOK, IntentOK
<1> HIDE DEF v, more
<1>7. GuardsOK(y, x, more)
  <2>1. y.guards = [d \in Controls |-> y.guards[d]]
    <3>1. \A f, g : f = [d \in Controls |-> g[d]] => f = [d \in Controls |-> f[d]]
      OBVIOUS
    <3> DEFINE g == [d \in Controls |-> IF d = c THEN v ELSE q.guards[d]]
    <3>2. y.guards = g
      BY DEF v
    <3>3. g = [d \in Controls |-> g[d]]
      OBVIOUS
    <3> HIDE DEF g
    <3>4. QED
      BY <3>2, <3>3
  <2>2. ASSUME NEW d \in Controls, y.guards[d] # None
        PROVE  /\ y.guards[d].intent \in 1..x.counter
               /\ x.intents[y.guards[d].intent].control = d
               /\ y.guards[d].condition = more[y.guards[d].intent]
    <3>1. CASE d = c
      <4>1. y.guards[d] = v
        BY <3>1 DEF v
      <4>2. QED
        BY <1>1, <1>2, <1>3, <1>4, <2>2, <3>1, <4>1
    <3>2. CASE d # c
      <4>1. y.guards[d] = q.guards[d]
        BY <3>2
      <4>2. /\ q.guards[d].intent \in 1..e.counter
            /\ e.intents[q.guards[d].intent].control = d
            /\ q.guards[d].condition = conds[q.guards[d].intent]
        BY <2>2, <4>1 DEF GuardsOK
      <4>3. q.guards[d].intent \in 1..x.counter
        BY <1>1, <4>2
      <4>4. QED
        BY <1>2, <4>1, <4>2, <4>3
    <3>3. QED
      BY <3>1, <3>2
  <2>3. QED
    BY <2>1, <2>2 DEF GuardsOK
<1>8. GuardedAll(y, x, more)
  <2>1. ASSUME NEW id \in 1..x.counter, Open(x, id), ~Unconditional(more[id])
        PROVE  /\ y.guards[x.intents[id].control] # None
               /\ y.guards[x.intents[id].control].intent = id
    <3>1. CASE id = n
      <4>1. y.guards[c] = v
        BY DEF v
      <4>2. QED
        BY <1>2, <1>3, <1>4, <2>1, <3>1, <4>1
    <3>2. CASE id \in 1..e.counter
      <4>1. Open(e, id)
        BY <2>1, <3>2 DEF GoalsFinal, Open
      <4> DEFINE d == e.intents[id].control
      <4>2. x.intents[id].control = d /\ d \in Controls
        BY <1>6, <3>2
      <4>3. x.latest[d] = id
        BY <1>5, <2>1, <4>2
      <4>4. d # c
        BY <1>1, <3>2, <4>3
      <4>5. q.guards[d] # None /\ q.guards[d].intent = id
        BY <1>2, <2>1, <3>2, <4>1 DEF GuardedAll
      <4> HIDE DEF d
      <4>6. y.guards[d] = q.guards[d]
        BY <4>2, <4>4
      <4>7. QED
        BY <4>2, <4>5, <4>6
    <3>3. QED
      BY <1>1, <3>1, <3>2
  <2>2. QED
    BY <2>1 DEF GuardedAll
<1>9. ConditionsOK(x, more)
  BY <1>2 DEF ConditionsOK
<1>10. QED
  BY <1>7, <1>8, <1>9 DEF more

(* A request is made with a guard, transmits nothing and cancels nobody;   *)
(* the reads already counted are of another request than a new one.        *)
LEMMA AsksOK ==
    ASSUME RInv, NEW c \in Controls, NEW desired, NEW condition \in Condition, NEW replace,
           Asks(c, desired, condition, replace),
           \/ call' = call
           \/ /\ c = "filters" /\ DOMAIN call' = CallFields /\ call'.phase = "write"
              /\ call'.intent = engine.counter + 1 /\ call'.epoch \in Nat /\ call'.at \in 0..now,
           now' = now, snapshot' = snapshot, link' = link, ready' = ready,
           enabled' = enabled, line' = line
    PROVE  RInv' /\ NothingForbidden /\ NothingWronged
<1> DEFINE due == Ticked(engine, now)
           x == Admitted(due, c, desired, 0, 0, replace)
           n == engine.counter + 1
<1>1. /\ EngineOK(engine) /\ now \in Nat /\ QueryOK(commands, now)
      /\ GuardsOK(commands, engine, conditions) /\ GuardedAll(commands, engine, conditions)
      /\ ConditionsOK(engine, conditions) /\ ReadsOK(commands, engine, call)
      /\ CallOK(call, engine, now) /\ ReadOK(snapshot, commands, call)
  BY DEF RInv, Sound
<1>2. /\ engine' = x /\ conditions' = Append(conditions, condition)
      /\ commands' = [commands EXCEPT !.guards[c] = GuardOf(@, n, condition)]
  BY DEF Asks
<1>3. EngineOK(due) /\ Continues(engine, due) /\ due.state = engine.state
      /\ Uncancelled(engine, due)
  BY <1>1, TickedOK, TickedContinues, TickedUncancelled DEF Subdued
<1>4. due.counter = engine.counter
  BY <1>3 DEF Continues, SameRequests
<1> HIDE DEF due
<1>5. EngineOK(x) /\ Admits(due, x, c) /\ Uncancelled(due, x)
  BY <1>1, <1>3, AdmittedOK, AdmittedUncancelled
<1> HIDE DEF x
<1>6. /\ x.counter = n /\ x.latest[c] = n /\ GoalsFinal(due, x) /\ x.state = engine.state
      /\ \A id \in 1..engine.counter : x.intents[id].control = due.intents[id].control
      /\ x.history = due.history /\ x.inflight = due.inflight
  BY <1>3, <1>4, <1>5 DEF Admits, Kept, EngineOK, GoalsOK
<1>7. /\ GuardsOK(commands, due, conditions) /\ GuardedAll(commands, due, conditions)
      /\ ConditionsOK(due, conditions) /\ ReadsOK(commands, due, call)
      /\ CallOK(call, due, now)
  BY <1>1, <1>3, ContinuesKeeps
<1>8. /\ DOMAIN commands' = CommandFields /\ commands'.epoch = commands.epoch
      /\ commands'.index = commands.index /\ commands'.pending = commands.pending
      /\ commands'.attempts = commands.attempts /\ commands'.reads = commands.reads
      /\ commands'.refresh = commands.refresh /\ commands'.success = commands.success
      /\ commands'.guards = [d \in Controls |-> IF d = c THEN GuardOf(None, n, condition)
                                                ELSE commands.guards[d]]
  <2>1. DOMAIN commands = CommandFields
        /\ commands.guards = [d \in Controls |-> commands.guards[d]]
    BY <1>1 DEF QueryOK, GuardsOK
  <2> HIDE DEF n
  <2>2. QED
    BY <1>2, <2>1, GuardWritten
<1>9. /\ GuardsOK(commands', x, conditions') /\ GuardedAll(commands', x, conditions')
      /\ ConditionsOK(x, conditions')
  <2> DEFINE m == due.counter + 1
             g == [d \in Controls |-> IF d = c THEN GuardOf(None, m, condition)
                                      ELSE commands.guards[d]]
  <2>1. commands'.guards = g
    BY <1>4, <1>8
  <2>2. /\ x.counter = due.counter + 1 /\ x.latest[c] = due.counter + 1
        /\ \A id \in 1..due.counter : x.intents[id].control = due.intents[id].control
    BY <1>4, <1>6
  <2>3. conditions' = Append(conditions, condition)
    BY <1>2
  <2>4. GoalsFinal(due, x)
    BY <1>6
  <2>5. QED
    BY <1>3, <1>5, <1>7, <2>1, <2>2, <2>3, <2>4, RequestGuarded
<1>10. engine.counter \in Nat /\ n \in 1..n
       /\ (\A id \in 1..engine.counter : id # n /\ id \in 1..n) /\ x.intents[n].control = c
  BY <1>1, <1>5, <1>6 DEF EngineOK, GoalsOK
<1> HIDE DEF n
<1>11. QueryOK(commands', now)
  BY <1>1, <1>8 DEF QueryOK
<1>12. Owned(x, call') => call' = call /\ Owned(due, call)
  <2>1. ASSUME x.inflight # 0 PROVE x.history[x.inflight].intent # n
    <3>1. due.inflight \in DOMAIN due.history
      BY <1>3, <1>6, <2>1, HistoryDomain DEF EngineOK, HistoryOK
    <3>2. due.history[due.inflight].intent \in 1..engine.counter
      BY <1>3, <1>4, <3>1 DEF EngineOK, HistoryOK, TransactionOK
    <3>3. QED
      BY <1>6, <1>10, <3>2
  <2>2. QED
    BY <1>6, <2>1 DEF Owned, n
<1>13. ReadsOK(commands', x, call')
  BY <1>7, <1>8, <1>12 DEF ReadsOK
<1>14. CallOK(call', x, now)
  <2>1. CASE call' = call
    BY <1>4, <1>6, <1>7, <1>10, <2>1 DEF CallOK
  <2>2. CASE /\ c = "filters" /\ DOMAIN call' = CallFields /\ call'.phase = "write"
             /\ call'.intent = engine.counter + 1 /\ call'.epoch \in Nat /\ call'.at \in 0..now
    BY <1>6, <1>10, <2>2 DEF CallOK, n
  <2>3. QED
    BY <2>1, <2>2
<1>15. ReadOK(snapshot, commands', call')
  BY <1>1, <1>8 DEF ReadOK
<1>16. RInv'
  <2>1. Sound(snapshot', commands', engine', call', conditions', now')
    BY <1>2, <1>5, <1>8, <1>9, <1>11, <1>13, <1>14, <1>15 DEF RInv, Sound
  <2>2. SightOK(snapshot', engine', ready', now')
    BY <1>2, <1>6 DEF RInv, SightOK, Outdated
  <2>3. QED
    BY <2>1, <2>2 DEF RInv
<1>17. NothingForbidden
  <2>1. Len(due.history) = Len(engine.history) /\ Len(engine.history) \in Nat
    BY <1>1, <1>3, SameLength, HistoryDomain DEF Continues, EngineOK, HistoryOK
  <2>2. QED
    BY <1>2, <1>6, <2>1 DEF NothingForbidden, Transmits
<1>18. NothingWronged
  BY <1>2, <1>3, <1>5, UncancelledTransitive DEF NothingWronged, Uncancelled, Continues
<1>19. QED
  BY <1>16, <1>17, <1>18

-----------------------------------------------------------------------------
(* The other steps.                                                        *)

(* What does not touch the connection, the engine or the call is harmless. *)
LEMMA Elsewhere ==
    ASSUME RInv, UNCHANGED <<now, snapshot, engine, link, ready, commands, conditions, call>>,
           enabled' \in BOOLEAN, LineOK(line')
    PROVE  RInv' /\ NothingForbidden /\ NothingWronged
<1>1. RInv'
  BY DEF RInv
<1>2. NothingForbidden
  <2>1. Len(engine.history) \in Nat
    BY HistoryDomain DEF RInv, Sound, EngineOK, HistoryOK
  <2>2. QED
    BY <2>1 DEF NothingForbidden, Transmits
<1>3. QED
  BY <1>1, <1>2 DEF NothingWronged

(* Time only makes what was received older.                                *)
LEMMA WaitOK ==
    ASSUME RInv, Wait
    PROVE  RInv' /\ NothingForbidden /\ NothingWronged
<1>1. /\ now' = now + 1 /\ snapshot' = snapshot /\ engine' = engine /\ link' = link
      /\ ready' = ready /\ commands' = commands /\ conditions' = conditions /\ call' = call
      /\ enabled' = enabled /\ line' = line
  BY DEF Wait, Elapse, connectionVars, spaVars
<1>2. /\ now \in Nat \ {0} /\ QueryOK(commands, now) /\ CallOK(call, engine, now)
      /\ SightOK(snapshot, engine, ready, now) /\ SnapshotOK(snapshot)
  BY DEF RInv, Sound
<1>3. /\ \A i \in 1..now : i \in 1..(now + 1)
      /\ \A i \in 0..now : i \in 0..(now + 1)
      /\ \A i \in Nat : i <= now => i <= now + 1
  BY <1>2
<1>4. QueryOK(commands, now + 1)
  BY <1>2, <1>3 DEF QueryOK
<1>5. CallOK(call, engine, now + 1) /\ SightOK(snapshot, engine, ready, now + 1)
  <2>1. CallOK(call, engine, now + 1)
    BY <1>2, <1>3 DEF CallOK
  <2>2. SightOK(snapshot, engine, ready, now + 1)
    BY <1>2, <1>3 DEF SightOK, SnapshotOK
  <2>3. QED
    BY <2>1, <2>2
<1>6. RInv'
  <2>1. Sound(snapshot', commands', engine', call', conditions', now')
    BY <1>1, <1>2, <1>4, <1>5 DEF RInv, Sound
  <2>2. QED
    BY <1>1, <1>5, <2>1 DEF RInv
<1>7. NothingForbidden
  <2>1. Len(engine.history) \in Nat
    BY HistoryDomain DEF RInv, Sound, EngineOK, HistoryOK
  <2>2. QED
    BY <1>1, <2>1 DEF NothingForbidden, Transmits
<1>8. QED
  BY <1>1, <1>6, <1>7 DEF NothingWronged

(* A lost connection is a session that ended, without a doubt to begin it. *)
LEMMA DisconnectOK ==
    ASSUME RInv, Disconnect
    PROVE  RInv' /\ NothingForbidden /\ NothingWronged
<1> DEFINE w == World
<1>1. /\ DOMAIN w = WorldFields /\ w.s = snapshot /\ w.c = commands /\ w.e = engine
      /\ w.ready = ready
  BY DEF World, WorldFields
<1>2. Met(w)
  BY <1>1 DEF Met, RInv, SightOK
<1>3. Continues(engine, w.e) /\ Uncancelled(engine, w.e)
  BY <1>1, ContinuesReflexive DEF RInv, Sound, Subdued, Uncancelled
<1>4. Unmoved
  BY DEF Disconnect, Unmoved
<1>5. Aborted(w)
  BY <1>1 DEF Disconnect, Aborted
<1>6. QED
  BY <1>2, <1>3, <1>4, <1>5, AbortedOK

(* The next socket starts a newer epoch than any the engine has seen.      *)
LEMMA ConnectOK ==
    ASSUME RInv, Connect
    PROVE  RInv' /\ NothingForbidden /\ NothingWronged
<1> DEFINE y == [snapshot EXCEPT !.epoch = @ + 1]
<1>1. /\ link = "down" /\ link' = "up" /\ snapshot' = y /\ now' = now /\ engine' = engine
      /\ ready' = ready /\ commands' = commands /\ conditions' = conditions /\ call' = call
      /\ enabled' = enabled /\ line' = line
  BY DEF Connect, spaVars
<1>2. SnapshotOK(snapshot) /\ EngineOK(engine) /\ SightOK(snapshot, engine, ready, now) /\ ~ready
  BY <1>1 DEF RInv, Sound
<1>3. /\ y.epoch = snapshot.epoch + 1 /\ y.synced = snapshot.synced
      /\ y.sequence = snapshot.sequence /\ y.at = snapshot.at
      /\ y.filtersAt = snapshot.filtersAt
  BY <1>2 DEF SnapshotOK, HasSnapshotFields
<1>4. SnapshotOK(y)
  <2>1. HasSnapshotFields(y)
    BY <1>2, FieldAssigned DEF SnapshotOK
  <2> HIDE DEF y
  <2>2. QED
    BY <1>2, <1>3, <2>1 DEF SnapshotOK
<1> HIDE DEF y
<1>5. ~Outdated(engine, y)
  <2>1. engine.state.epoch \in Nat /\ snapshot.epoch \in Nat
    BY <1>2 DEF EngineOK, IsState, SnapshotOK
  <2>2. QED
    BY <1>2, <1>3, <2>1 DEF SightOK, Outdated
<1>6. Sound(snapshot', commands', engine', call', conditions', now')
  <2>1. commands.epoch \in 0..y.epoch
    BY <1>2, <1>3 DEF RInv, Sound, SnapshotOK
  <2>2. ReadOK(y, commands, call)
    BY <1>3 DEF RInv, Sound, ReadOK
  <2>3. QED
    BY <1>1, <1>4, <2>1, <2>2 DEF RInv, Sound
<1>7. SightOK(snapshot', engine', ready', now')
  BY <1>1, <1>2, <1>3, <1>5 DEF SightOK
<1>8. RInv'
  BY <1>1, <1>2, <1>6, <1>7 DEF RInv
<1>9. NothingForbidden
  <2>1. Len(engine.history) \in Nat
    BY <1>2, HistoryDomain DEF EngineOK, HistoryOK
  <2>2. QED
    BY <1>1, <2>1 DEF NothingForbidden, Transmits
<1>10. QED
  BY <1>1, <1>8, <1>9 DEF NothingWronged

(* A request has a condition of an epoch and a caller.                     *)
LEMMA RequestControlOK ==
    ASSUME RInv, NEW goal \in Goals, NEW caller \in BOOLEAN, NEW replace \in BOOLEAN,
           RequestControl(goal[1], goal[2], caller, replace)
    PROVE  RInv' /\ NothingForbidden /\ NothingWronged
<1>1. goal[1] \in Controls
  BY EngineInputs
<1>2. ConditionOf(goal[1], caller) \in Condition
  BY DEF ConditionOf, Condition, RInv, Sound, SnapshotOK
<1>3. /\ Asks(goal[1], goal[2], ConditionOf(goal[1], caller), replace)
      /\ call' = call /\ now' = now /\ snapshot' = snapshot /\ link' = link /\ ready' = ready
      /\ enabled' = enabled /\ line' = line
  BY DEF RequestControl, connectionVars, spaVars
<1>4. QED
  BY <1>1, <1>2, <1>3, AsksOK

(* A withdrawn condition, and what the spa and its panel do.               *)
LEMMA SurroundingsOK ==
    ASSUME RInv, Withdraw \/ Commit \/ Panel \/ Reconfigure \/ UNCHANGED runtimeVars
    PROVE  RInv' /\ NothingForbidden /\ NothingWronged
<1>1. UNCHANGED <<now, snapshot, engine, link, ready, commands, conditions, call>>
  BY DEF Withdraw, Commit, Panel, Reconfigure, runtimeVars, connectionVars, spaVars
<1>2. enabled' \in BOOLEAN /\ line' = line
  BY DEF Withdraw, Commit, Panel, Reconfigure, runtimeVars, connectionVars, spaVars, RInv
<1>3. LineOK(line')
  BY <1>2 DEF RInv
<1>4. QED
  BY <1>1, <1>2, <1>3, Elsewhere

-----------------------------------------------------------------------------
(* The filter change.                                                      *)

NothingStale ==
    call.phase = "read" /\ call'.phase = "write"
        => engine.state.filtersAt >= call.at /\ engine.state.epoch = call.epoch

(* What a step of the call leaves alone.                                   *)
LEMMA CallStepMeans ==
    ASSUME NEW k, CallStep(k)
    PROVE  /\ call' = k /\ now' = now /\ snapshot' = snapshot /\ link' = link
           /\ ready' = ready /\ enabled' = enabled /\ line' = line
  BY DEF CallStep, connectionVars, spaVars

(* A step to a phase before the write changes no more than the engine.     *)
LEMMA CalledOK ==
    ASSUME RInv, NEW k, CallStep(k), CallOK(k, engine, now),
           k.phase # "write", k.phase # call.phase,
           EngineOK(engine'), Continues(engine, engine'), engine'.state = engine.state,
           QueryOK(commands', now), SameGuards(commands, commands'),
           ReadOK(snapshot, commands', k), conditions' = conditions
    PROVE  RInv' /\ NothingForbidden /\ NothingWronged /\ NothingStale
<1>1. /\ call' = k /\ now' = now /\ snapshot' = snapshot /\ link' = link
      /\ ready' = ready /\ enabled' = enabled /\ line' = line
  BY CallStepMeans
<1>2. EngineOK(engine) /\ enabled \in BOOLEAN /\ LineOK(line)
  BY DEF RInv, Sound
<1>3. CallOK(k, engine', now)
  BY <1>2, ContinuesKeeps
<1>4. ReadsOK(commands', engine', call')
  BY <1>1 DEF ReadsOK, Owned
<1>5. RInv' /\ NothingForbidden
  <2>1. /\ CallOK(call', engine', now) /\ ReadOK(snapshot, commands', call')
        /\ enabled' \in BOOLEAN /\ LineOK(line')
    BY <1>1, <1>2, <1>3
  <2>2. QED
    BY <1>1, <1>4, <2>1, Aside
<1>6. NothingWronged /\ NothingStale
  BY <1>1 DEF NothingWronged, NothingStale
<1>7. QED
  BY <1>5, <1>6

(* A call that ends, however it does.                                      *)
LEMMA EndedOK ==
    ASSUME RInv, call.phase # "idle", CallStep(Idle), EngineOK(engine'),
           Continues(engine, engine'), engine'.state = engine.state,
           commands' = commands, conditions' = conditions
    PROVE  RInv' /\ NothingForbidden /\ NothingWronged /\ NothingStale
<1>1. /\ DOMAIN Idle = CallFields /\ Idle.phase = "idle" /\ Idle.epoch = 0 /\ Idle.at = 0
  BY DEF Idle, CallFields
<1>2. now \in Nat /\ QueryOK(commands, now)
  BY DEF RInv, Sound
<1>3. CallOK(Idle, engine, now) /\ ReadOK(snapshot, commands, Idle)
  BY <1>1, <1>2 DEF CallOK, ReadOK
<1>4. QED
  BY <1>1, <1>2, <1>3, CalledOK DEF SameGuards

(* A call begins without having read anything.                             *)
LEMMA BeginUpdateOK ==
    ASSUME RInv, NEW index, NEW cycle, BeginUpdate(index, cycle)
    PROVE  RInv' /\ NothingForbidden /\ NothingWronged /\ NothingStale
<1> DEFINE k == [Idle EXCEPT !.phase = "settle", !.epoch = snapshot.epoch, !.index = index,
                             !.cycle = cycle]
<1>1. /\ call = Idle /\ CallStep(k) /\ engine' = engine /\ commands' = commands
      /\ conditions' = conditions
  BY DEF BeginUpdate, CallOnly
<1>2. /\ DOMAIN k = CallFields /\ k.phase = "settle" /\ k.epoch = snapshot.epoch /\ k.at = 0
      /\ Idle.phase = "idle"
  BY DEF Idle, CallFields
<1> HIDE DEF k
<1>3. EngineOK(engine) /\ now \in Nat /\ snapshot.epoch \in Nat /\ QueryOK(commands, now)
  BY DEF RInv, Sound, SnapshotOK
<1>4. CallOK(k, engine, now) /\ ReadOK(snapshot, commands, k)
  BY <1>2, <1>3 DEF CallOK, ReadOK
<1>5. Continues(engine, engine)
  BY <1>3, ContinuesReflexive DEF Subdued
<1>6. QED
  BY <1>1, <1>2, <1>3, <1>4, <1>5, CalledOK DEF SameGuards

(* A record asked for now has not been read yet.                           *)
LEMMA AskRecordOK ==
    ASSUME RInv, AskRecord
    PROVE  RInv' /\ NothingForbidden /\ NothingWronged /\ NothingStale
<1>1. EngineOK(engine) /\ Continues(engine, engine) /\ QueryOK(commands, now)
      /\ CallOK(call, engine, now) /\ now \in Nat
  BY ContinuesReflexive DEF RInv, Sound, Subdued
<1>2. call.phase = "settle"
  BY DEF AskRecord
<1>3. CASE CallOnly(Idle)
  BY <1>1, <1>2, <1>3, EndedOK DEF CallOnly
<1>4. CASE /\ MetadataIdle(commands) /\ commands' = RefreshFilters(commands)
           /\ CallStep([call EXCEPT !.phase = "read", !.version = commands.version, !.at = now,
                                    !.touched = touched, !.late = AnswerUnderWay \/ write # None])
           /\ UNCHANGED <<engine, conditions>>
  <2> DEFINE k == [call EXCEPT !.phase = "read", !.version = commands.version, !.at = now,
                               !.touched = touched, !.late = AnswerUnderWay \/ write # None]
  <2>1. DOMAIN k = CallFields /\ k.phase = "read" /\ k.epoch = call.epoch /\ k.at = now
    BY <1>1 DEF CallOK, CallFields
  <2>2. CallStep(k) /\ engine' = engine /\ conditions' = conditions
    BY <1>4
  <2> HIDE DEF k
  <2>3. QueryOK(commands', now) /\ SameGuards(commands, commands') /\ commands'.success = FALSE
    BY <1>1, <1>4, IdleMeans, RefreshFiltersOK, RuntimeParameters
  <2>4. CallOK(k, engine, now) /\ ReadOK(snapshot, commands', k)
    BY <1>1, <2>1, <2>3 DEF CallOK, ReadOK
  <2>5. QED
    BY <1>1, <1>2, <2>1, <2>2, <2>3, <2>4, CalledOK
<1>5. QED
  BY <1>3, <1>4 DEF AskRecord

(* A write is asked for with the condition of the call, and with a record  *)
(* of after its question; a refusal ends the call.                         *)
LEMMA WriteRecordOK ==
    ASSUME RInv, WriteRecord
    PROVE  RInv' /\ NothingForbidden /\ NothingWronged /\ NothingStale
<1>1. /\ EngineOK(engine) /\ Continues(engine, engine) /\ CallOK(call, engine, now)
      /\ SnapshotOK(snapshot) /\ ReadOK(snapshot, commands, call)
      /\ (ready => engine.state = StateOf(snapshot, TRUE))
  BY ContinuesReflexive DEF RInv, Sound, SightOK, Subdued
<1>2. call.phase = "read"
  BY DEF WriteRecord
<1> DEFINE due == Ticked(engine, now)
<1>3. EngineOK(due) /\ Continues(engine, due) /\ due.state = engine.state
  BY <1>1, TickedOK, TickedContinues DEF Subdued
<1>4. CASE /\ engine' = IF Writable THEN due ELSE engine
           /\ CallStep(Idle) /\ UNCHANGED <<commands, conditions>>
  <2>1. EngineOK(engine') /\ Continues(engine, engine') /\ engine'.state = engine.state
    <3> HIDE DEF due
    <3>1. engine' = due \/ engine' = engine
      BY <1>4
    <3>2. QED
      BY <1>1, <1>3, <3>1
  <2>2. QED
    BY <1>2, <1>4, <2>1, EndedOK
<1>5. CASE /\ Writable
           /\ Asks("filters", Wanted, [epoch |-> call.epoch, caller |-> TRUE], FALSE)
           /\ CallStep([call EXCEPT !.phase = "write", !.intent = engine.counter + 1])
  <2> DEFINE k == [call EXCEPT !.phase = "write", !.intent = engine.counter + 1]
             condition == [epoch |-> call.epoch, caller |-> TRUE]
  <2>1. /\ DOMAIN k = CallFields /\ k.phase = "write" /\ k.intent = engine.counter + 1
        /\ k.epoch = call.epoch /\ k.at = call.at
    BY <1>1 DEF CallOK, CallFields
  <2>2. condition \in Condition /\ call.epoch \in Nat /\ call.at \in 0..now
    BY <1>1 DEF CallOK, Condition
  <2>3. Asks("filters", Wanted, condition, FALSE) /\ CallStep(k)
    BY <1>5
  <2> HIDE DEF k, condition
  <2>4. /\ call' = k /\ now' = now /\ snapshot' = snapshot /\ link' = link
        /\ ready' = ready /\ enabled' = enabled /\ line' = line
    BY <2>3, CallStepMeans
  <2>5. "filters" \in Controls
    BY RuntimeParameters
  <2>6. RInv' /\ NothingForbidden /\ NothingWronged
    BY <2>1, <2>2, <2>3, <2>4, <2>5, AsksOK
  <2>7. engine.state.filtersAt >= call.at /\ engine.state.epoch = call.epoch
    <3>1. snapshot.epoch = call.epoch /\ commands.success /\ ready
      BY <1>5 DEF Writable, ReadVerified
    <3>2. engine.state.filtersAt = snapshot.filtersAt /\ engine.state.epoch = snapshot.epoch
      BY <1>1, <3>1 DEF StateOf
    <3>3. Admissible(due, "filters", Wanted, FALSE)
      BY <2>3 DEF Asks
    <3> HIDE DEF due
    <3>4. engine.state.filtersAt # 0
      BY <1>3, <3>3 DEF Admissible
    <3>5. QED
      BY <1>1, <1>2, <3>1, <3>2, <3>4 DEF ReadOK
  <2>8. QED
    BY <2>6, <2>7 DEF NothingStale
<1>6. QED
  BY <1>4, <1>5 DEF WriteRecord

(* A call that ends gives up its own request, and no other.                *)
LEMMA UpdateEndsOK ==
    ASSUME RInv, EndUpdate \/ GiveUp
    PROVE  RInv' /\ NothingForbidden /\ NothingWronged /\ NothingStale
<1> DEFINE due == Ticked(engine, now)
<1>1. EngineOK(engine) /\ Continues(engine, engine) /\ "filters" \in Controls
  BY ContinuesReflexive, RuntimeParameters DEF RInv, Sound, Subdued
<1>2. EngineOK(due) /\ Continues(engine, due) /\ due.state = engine.state
  BY <1>1, TickedOK, TickedContinues DEF Subdued
<1>3. /\ call.phase # "idle" /\ CallStep(Idle) /\ commands' = commands
      /\ conditions' = conditions
      /\ engine' \in {engine, Cancelled(engine, "filters"), Cancelled(due, "filters")}
  BY DEF EndUpdate, GiveUp
<1> HIDE DEF due
<1>4. ASSUME NEW e \in {engine, due}
      PROVE  LET x == Cancelled(e, "filters")
             IN  EngineOK(x) /\ Continues(engine, x) /\ x.state = engine.state
  <2> DEFINE x == Cancelled(e, "filters")
  <2>1. EngineOK(e) /\ Continues(engine, e) /\ e.state = engine.state
    BY <1>1, <1>2
  <2>2. EngineOK(x) /\ Continues(e, x) /\ x.state = e.state
    BY <1>1, <2>1, CancelledOK, CancelledSubdued DEF Subdued
  <2> HIDE DEF x
  <2>3. Continues(engine, x)
    BY <1>1, <2>1, <2>2, ContinuesTransitive
  <2>4. QED
    BY <2>1, <2>2, <2>3 DEF x
<1>5. EngineOK(engine') /\ Continues(engine, engine') /\ engine'.state = engine.state
  BY <1>1, <1>3, <1>4
<1>6. QED
  BY <1>3, <1>5, EndedOK

-----------------------------------------------------------------------------
(* The theorems.                                                           *)

(* The inductive invariant holds of a connection that has just opened.     *)
LEMMA RuntimeInitOK == RuntimeInit => RInv
<1> SUFFICES ASSUME RuntimeInit PROVE RInv
  OBVIOUS
<1>1. SnapshotOK(snapshot) /\ EngineOK(engine)
  BY InitOK DEF RuntimeInit, IInv
<1>2. /\ now = 1 /\ snapshot.epoch = 1 /\ snapshot.at = 0 /\ snapshot.filtersAt = 0
      /\ engine.counter = 0 /\ engine.state.epoch = 0
  BY DEF RuntimeInit, Init, NoState
<1>3. /\ commands = NewCommands /\ conditions = <<>> /\ call = Idle /\ line = <<>>
      /\ ready = FALSE /\ link = "up" /\ enabled = TRUE
  BY DEF RuntimeInit
<1>4. /\ DOMAIN commands = CommandFields /\ commands.epoch = 0 /\ commands.index = 1
      /\ commands.pending = None /\ commands.attempts = 0 /\ commands.reads = 0
      /\ commands.refresh = FALSE
      /\ commands.guards = [c \in Controls |-> None]
  <2> DEFINE c == NewCommands
  <2>1. DOMAIN c = CommandFields
    BY DEF NewCommands, CommandFields
  <2>2. /\ c.epoch = 0 /\ c.index = 1 /\ c.pending = None /\ c.attempts = 0 /\ c.reads = 0
        /\ c.refresh = FALSE
    BY DEF NewCommands
  <2>3. c.guards = [d \in Controls |-> None]
    BY Zenon DEF NewCommands
  <2> HIDE DEF c
  <2>4. commands = c
    BY <1>3 DEF c
  <2>5. QED
    BY <2>1, <2>2, <2>3, <2>4
<1>5. DOMAIN call = CallFields /\ call.phase = "idle" /\ call.epoch = 0 /\ call.at = 0
  BY <1>3 DEF Idle, CallFields
<1>6. QueryOK(commands, now)
  BY <1>2, <1>4, RuntimeParameters DEF QueryOK
<1>7. GuardsOK(commands, engine, conditions) /\ GuardedAll(commands, engine, conditions)
  BY <1>2, <1>4 DEF GuardsOK, GuardedAll
<1>8. <<>> \in Seq(Condition) /\ <<>> \in Seq({}) /\ Len(<<>>) = 0 /\ DOMAIN <<>> = {}
  OBVIOUS
<1>9. ConditionsOK(engine, conditions) /\ LineOK(line)
  BY <1>2, <1>3, <1>8 DEF ConditionsOK, LineOK, IsHistory
<1>10. /\ ReadsOK(commands, engine, call) /\ CallOK(call, engine, now)
       /\ ReadOK(snapshot, commands, call)
  BY <1>2, <1>5 DEF ReadsOK, Owned, CallOK, ReadOK
<1>11. Sound(snapshot, commands, engine, call, conditions, now)
  BY <1>1, <1>2, <1>4, <1>6, <1>7, <1>9, <1>10 DEF Sound
<1>12. SightOK(snapshot, engine, ready, now)
  <2>1. snapshot.filtersAt \in 0..now /\ snapshot.at <= now
    BY <1>2
  <2>2. ~Outdated(engine, snapshot)
    BY <1>2 DEF Outdated
  <2>3. ready \in BOOLEAN /\ ~ready
    BY <1>3
  <2>4. QED
    BY <2>1, <2>2, <2>3 DEF SightOK
<1>13. QED
  BY <1>3, <1>9, <1>11, <1>12 DEF RInv

(* Every step keeps the invariant, transmits nothing that is forbidden,    *)
(* wrongs no request and writes nothing that is stale.                     *)
LEMMA RuntimeStep ==
    ASSUME RInv, [RuntimeNext]_runtimeVars
    PROVE  RInv' /\ NothingForbidden /\ NothingWronged /\ NothingStale
<1>1. CASE Wait
  <2>1. call' = call
    BY <1>1 DEF Wait
  <2>2. QED
    BY <1>1, <2>1, WaitOK DEF NothingStale
<1>2. CASE Iteration
  BY <1>2, IterationOK DEF NothingStale
<1>3. CASE Disconnect
  <2>1. call' = call
    BY <1>3 DEF Disconnect
  <2>2. QED
    BY <1>3, <2>1, DisconnectOK DEF NothingStale
<1>4. CASE Connect
  <2>1. call' = call
    BY <1>4 DEF Connect
  <2>2. QED
    BY <1>4, <2>1, ConnectOK DEF NothingStale
<1>5. ASSUME NEW goal \in Goals, NEW caller \in BOOLEAN, NEW replace \in BOOLEAN,
             RequestControl(goal[1], goal[2], caller, replace)
      PROVE  RInv' /\ NothingForbidden /\ NothingWronged /\ NothingStale
  <2>1. call' = call
    BY <1>5 DEF RequestControl
  <2>2. QED
    BY <1>5, <2>1, RequestControlOK DEF NothingStale
<1>6. CASE Withdraw \/ Commit \/ Panel \/ Reconfigure \/ UNCHANGED runtimeVars
  <2>1. call' = call
    BY <1>6 DEF Withdraw, Commit, Panel, Reconfigure, runtimeVars
  <2>2. QED
    BY <1>6, <2>1, SurroundingsOK DEF NothingStale
<1>7. ASSUME NEW change \in Changes, BeginUpdate(change[1], change[2])
      PROVE  RInv' /\ NothingForbidden /\ NothingWronged /\ NothingStale
  BY <1>7, BeginUpdateOK
<1>8. CASE AskRecord
  BY <1>8, AskRecordOK
<1>9. CASE WriteRecord
  BY <1>9, WriteRecordOK
<1>10. CASE EndUpdate \/ GiveUp
  BY <1>10, UpdateEndsOK
<1>11. QED
  BY <1>1, <1>2, <1>3, <1>4, <1>5, <1>6, <1>7, <1>8, <1>9, <1>10 DEF RuntimeNext

(* RuntimeInvariance: the inductive invariant holds in every reachable     *)
(* state, whatever the spa answers, loses or delays and the callers ask.   *)
THEOREM RuntimeInvariance == RuntimeSpec => []RInv
<1>1. RInv /\ [RuntimeNext]_runtimeVars => RInv'
  BY RuntimeStep
<1>2. QED
  BY RuntimeInitOK, <1>1, PTL DEF RuntimeSpec

(* BudgetOfAQuestion: a question never costs more than its attempts, the   *)
(* readback of a write never more than that budget, and every guard is of  *)
(* a request of its control, with the condition it was made with           *)
(* (runtime.py: _Commands.prepare and received).                           *)
THEOREM BudgetOfAQuestion == RuntimeSpec => []RuntimeInv
<1>1. RInv => RuntimeInv
  <2> SUFFICES ASSUME RInv PROVE RuntimeInv
    OBVIOUS
  <2>1. /\ QueryOK(commands, now) /\ GuardsOK(commands, engine, conditions)
        /\ ConditionsOK(engine, conditions) /\ CallOK(call, engine, now)
        /\ commands.epoch \in 0..snapshot.epoch /\ ReadsOK(commands, engine, call)
    BY DEF RInv, Sound
  <2>2. Len(Queries) + 1 = 4 /\ Range(Queries) = Asking
    BY QueryList
  <2>3. RuntimeTypeOK
    <3>1. \A c \in Controls : commands.guards[c] # None =>
            /\ commands.guards[c].intent \in 1..engine.counter
            /\ engine.intents[commands.guards[c].intent].control = c
            /\ commands.guards[c].condition = conditions[commands.guards[c].intent]
      BY <2>1 DEF GuardsOK
    <3>2. QED
      BY <2>1, <2>2, <3>1 DEF RuntimeTypeOK, QueryOK, ConditionsOK, CallOK
  <2>4. ReadsBounded
    BY <2>1, RuntimeParameters DEF ReadsBounded, QueryOK, ReadsOK, Owned
  <2>5. QED
    BY <2>3, <2>4 DEF RuntimeInv
<1>2. QED
  BY RuntimeInvariance, <1>1, PTL

(* ConditionsAreKept: a request is transmitted only while its own condition*)
(* holds, and given up only because its own condition fails (runtime.py:   *)
(* "Synchronous admission immediately before TX").                         *)
THEOREM ConditionsAreKept == RuntimeSpec => ConditionsKept
<1>1. RInv /\ [RuntimeNext]_runtimeVars => NothingForbidden /\ NothingWronged
  BY RuntimeStep
<1>2. RuntimeSpec => [][NothingForbidden]_runtimeVars /\ [][NothingWronged]_runtimeVars
  BY RuntimeInvariance, <1>1, PTL DEF RuntimeSpec
<1>3. QED
  BY <1>2 DEF ConditionsKept, ConditionHonoured, OnlyOwnCondition, NothingForbidden,
              NothingWronged

(* WritesRestOnReads: a filter change is computed from a record that was   *)
(* read after the change was asked for, in the same epoch (runtime.py:     *)
(* "Fresh read/modify/write/readback").                                    *)
THEOREM WritesRestOnReads == RuntimeSpec => WriteRestsOnRead
<1>1. RInv /\ [RuntimeNext]_runtimeVars => NothingStale
  BY RuntimeStep
<1>2. RuntimeSpec => [][NothingStale]_runtimeVars
  BY RuntimeInvariance, <1>1, PTL DEF RuntimeSpec
<1>3. QED
  BY <1>2 DEF WriteRestsOnRead, NothingStale

-----------------------------------------------------------------------------
(* What a method decides about filter writes.                              *)

(* The value of the filters is their record, and a write expects its goal. *)
LEMMA FiltersValue ==
    ASSUME NEW s
    PROVE  Value(s, "filters") = s.filters
<1>1. "filters" \notin Optional /\ "filters" \notin Pumps
  BY PumpsNamed DEF Optional
<1>2. QED
  BY <1>1 DEF Value

(* A decision stands, whatever the engine does next.                       *)
LEMMA DecisionStands ==
    ASSUME NEW e, NEW x, EngineOK(e), SameActions(e, x),
           NEW i \in DOMAIN e.history, Decided(e.history[i])
    PROVE  Decided(x.history[i])
<1>1. i # e.inflight
  BY DEF EngineOK, HistoryOK, Decided
<1>2. QED
  BY <1>1 DEF SameActions

(* While nothing is in flight or in doubt, every action of the observed    *)
(* epoch is decided.                                                       *)
LEMMA DecidedBefore ==
    ASSUME NEW x, EngineOK(x), x.inflight = 0, x.resync = 0,
           NEW i \in DOMAIN x.history, x.history[i].epoch = x.state.epoch
    PROVE  Decided(x.history[i])
<1>1. i # 0 /\ x.history[i].epoch # 0
  BY HistoryDomain DEF EngineOK, HistoryOK, BarrierOK
<1>2. x.history[i].result # "WAITING_FOR_STATE"
  BY <1>1 DEF EngineOK, HistoryOK
<1>3. ~Ambiguous(x.history[i])
  BY <1>1 DEF EngineOK, BarrierOK, IsState
<1>4. QED
  BY <1>2, <1>3 DEF Decided

(* A filter write is decided by what sn says of the filters, read after it,*)
(* and its goal only reported while sn has it and the write is decided.    *)
DecidedBy(e, x, sn, i) ==
    ~Decided(e.history[i]) /\ Decided(x.history[i])
        => /\ sn.filtersAt > e.history[i].sentAt
           /\ sn.filters \in {e.history[i].expected, e.history[i].desired}
ReportedBy(e, x, sn, i) ==
    LET id == e.history[i].intent
    IN  e.intents[id].stage # "VERIFIED" /\ x.intents[id].stage = "VERIFIED"
          => /\ sn.filters = e.intents[id].desired
             /\ sn.epoch = e.history[i].epoch => Decided(x.history[i])
Judges(e, x, sn) ==
    \A i \in DOMAIN e.history : e.history[i].control = "filters"
        => DecidedBy(e, x, sn, i) /\ ReportedBy(e, x, sn, i)

(* What reports no success and decides nothing needs no justification.     *)
LEMMA SilentJudges ==
    ASSUME NEW e, NEW x, EngineOK(e), NoSuccess(e, x),
           \A i \in DOMAIN e.history : Decided(x.history[i]) => Decided(e.history[i]), NEW sn
    PROVE  Judges(e, x, sn)
<1> SUFFICES ASSUME NEW i \in DOMAIN e.history
             PROVE  DecidedBy(e, x, sn, i) /\ ReportedBy(e, x, sn, i)
  BY DEF Judges
<1>1. DecidedBy(e, x, sn, i)
  BY DEF DecidedBy
<1>2. e.history[i].intent \in 1..e.counter
  BY DEF EngineOK, HistoryOK, TransactionOK
<1>3. ReportedBy(e, x, sn, i)
  BY <1>2 DEF NoSuccess, ReportedBy
<1>4. QED
  BY <1>1, <1>3

(* So it is with what only gives up.                                       *)
LEMMA QuietJudges ==
    ASSUME NEW e, NEW x, EngineOK(e), Subdued(e, x), NoSuccess(e, x), NEW sn
    PROVE  Judges(e, x, sn)
<1>1. \A i \in DOMAIN e.history : Decided(x.history[i]) => Decided(e.history[i])
  BY DEF Subdued, Unjudged, Decided
<1>2. QED
  BY <1>1, SilentJudges

(* Judging twice by the same record is judging.                            *)
LEMMA JudgesTransitive ==
    ASSUME NEW e, NEW a, NEW x, EngineOK(e), NEW sn,
           Continues(e, a), Judges(e, a, sn), Judges(a, x, sn),
           \A i \in DOMAIN a.history : Decided(a.history[i]) => Decided(x.history[i])
    PROVE  Judges(e, x, sn)
<1> SUFFICES ASSUME NEW i \in DOMAIN e.history, e.history[i].control = "filters"
             PROVE  DecidedBy(e, x, sn, i) /\ ReportedBy(e, x, sn, i)
  BY DEF Judges
<1> DEFINE id == e.history[i].intent
<1>1. /\ i \in DOMAIN a.history /\ SameAction(e.history[i], a.history[i])
      /\ id \in 1..e.counter /\ a.intents[id].desired = e.intents[id].desired
  BY DEF Continues, SameActions, SameRequests, EngineOK, HistoryOK, TransactionOK
<1>2. /\ DecidedBy(e, a, sn, i) /\ ReportedBy(e, a, sn, i)
      /\ DecidedBy(a, x, sn, i) /\ ReportedBy(a, x, sn, i)
  BY <1>1 DEF Judges, SameAction
<1>3. DecidedBy(e, x, sn, i)
  BY <1>1, <1>2 DEF DecidedBy, SameAction
<1>4. ReportedBy(e, x, sn, i)
  BY <1>1, <1>2 DEF ReportedBy, SameAction
<1>5. QED
  BY <1>3, <1>4

(* Only the record, its time and the epoch are judged by.                  *)
LEMMA JudgesBySame ==
    ASSUME NEW e, NEW x, NEW sn, Judges(e, x, sn), NEW y,
           y.filters = sn.filters, y.filtersAt = sn.filtersAt, y.epoch = sn.epoch
    PROVE  Judges(e, x, y)
  BY DEF Judges, DecidedBy, ReportedBy

(* A success of a method that decides nothing is of what is observed.      *)
LEMMA SuccessJudges ==
    ASSUME NEW e, NEW x, EngineOK(e), EngineOK(x), Continues(e, x), Succeeded(e, x),
           NEW sn, x.state.filters = sn.filters, x.state.epoch = sn.epoch,
           \A i \in DOMAIN e.history :
               e.history[i].control = "filters" => DecidedBy(e, x, sn, i)
    PROVE  Judges(e, x, sn)
<1> SUFFICES ASSUME NEW i \in DOMAIN e.history, e.history[i].control = "filters"
             PROVE  ReportedBy(e, x, sn, i)
  BY DEF Judges
<1> DEFINE id == e.history[i].intent
<1> SUFFICES ASSUME e.intents[id].stage # "VERIFIED", x.intents[id].stage = "VERIFIED"
             PROVE  /\ sn.filters = e.intents[id].desired
                    /\ sn.epoch = e.history[i].epoch => Decided(x.history[i])
  BY DEF ReportedBy
<1>1. /\ id \in 1..e.counter /\ e.intents[id].control = "filters"
      /\ i \in DOMAIN x.history /\ x.history[i].epoch = e.history[i].epoch
  BY DEF Continues, SameActions, SameAction, EngineOK, HistoryOK, TransactionOK
<1>2. /\ x.inflight = 0 /\ x.resync = 0
      /\ Value(x.state, "filters") = e.intents[id].desired
  BY <1>1 DEF Succeeded
<1>3. QED
  BY <1>1, <1>2, FiltersValue, DecidedBefore

(* observe decides and reports by the state it was given.                  *)
LEMMA ObservedJudges ==
    ASSUME NEW e, NEW x, EngineOK(e), EngineOK(x), NEW s, NEW t, Observes(e, x, s, t)
    PROVE  Judges(e, x, s)
<1>1. PICK a : /\ EngineOK(a) /\ Subdued(e, a) /\ NoSuccess(e, a)
               /\ Continues(a, x) /\ x.state = s /\ Succeeded(a, x) /\ Concluded(a, x, s)
  BY DEF Observes
<1>2. Judges(e, a, s)
  BY <1>1, QuietJudges
<1>3. ASSUME NEW i \in DOMAIN a.history, a.history[i].control = "filters"
      PROVE  DecidedBy(a, x, s, i)
  <2>1. CASE x.history[i] = a.history[i]
    BY <2>1 DEF DecidedBy
  <2>2. CASE x.history[i] # a.history[i]
    <3>1. Confirms(a.history[i], s)
      BY <1>1, <2>2 DEF Concluded
    <3>2. ~RetainedLow(a.history[i], s)
      BY <1>3 DEF RetainedLow
    <3>3. /\ s.filtersAt > a.history[i].sentAt
          /\ Value(s, "filters") \in {a.history[i].expected, a.history[i].desired}
      BY <1>3, <3>1, <3>2 DEF Confirms, ReadBack
    <3>4. QED
      BY <3>3, FiltersValue DEF DecidedBy
  <2>3. QED
    BY <2>1, <2>2
<1>4. Judges(a, x, s)
  BY <1>1, <1>3, SuccessJudges
<1>5. \A i \in DOMAIN a.history : Decided(a.history[i]) => Decided(x.history[i])
  BY <1>1, DecisionStands DEF Continues
<1>6. QED
  BY <1>1, <1>2, <1>4, <1>5, JudgesTransitive DEF Subdued

(* next_action decides nothing, and reports what is observed.              *)
LEMMA PreparedJudges ==
    ASSUME NEW e, EngineOK(e), NEW sn, e.state.filters = sn.filters, e.state.epoch = sn.epoch
    PROVE  Judges(e, Prepared(e), sn)
<1> DEFINE x == Prepared(e)
<1>1. EngineOK(x) /\ Subdued(e, x) /\ Succeeded(e, x) /\ x.state = e.state
  BY PreparedSucceeds, PreparedOK DEF Quiet
<1> HIDE DEF x
<1>2. \A i \in DOMAIN e.history : DecidedBy(e, x, sn, i)
  BY <1>1 DEF Subdued, Unjudged, Decided, DecidedBy
<1>3. Judges(e, x, sn)
  BY <1>1, <1>2, SuccessJudges DEF Subdued
<1>4. QED
  BY <1>3 DEF x

(* A transmission decides nothing and reports what next_action found; the  *)
(* action it adds is still undecided, and a plan for the goal it is of.    *)
Sends(e, x, action) ==
    LET n == Len(e.history) + 1
    IN  /\ n \in Nat /\ DOMAIN e.history = 1..(n - 1) /\ DOMAIN x.history = 1..n
        /\ \A i \in DOMAIN e.history : x.history[i] = e.history[i]
        /\ x.history[n].intent = action.intent /\ x.history[n].control = action.control
        /\ x.history[n].epoch = action.epoch /\ x.history[n].desired = action.desired
        /\ x.history[n].expected = action.expected /\ ~Decided(x.history[n])
        /\ x.inflight = n

(* A transmission decides nothing and reports no success; the action it    *)
(* adds is of the goal it was made for, and is in flight.                  *)
LEMMA TransmittedJudges ==
    ASSUME NEW e, EngineOK(e), Offers(e), now \in Nat,
           NEW sn, e.state.filters = sn.filters, e.state.epoch = sn.epoch
    PROVE  LET action == Offer(e)
               x == Sent(Prepared(e), action, now)
           IN  /\ Judges(e, x, sn) /\ Sends(e, x, action)
               /\ \A id \in 1..e.counter : x.intents[id].desired = e.intents[id].desired
               /\ action.epoch = e.state.epoch
               /\ action.desired = e.intents[action.intent].desired
               /\ action.control = "filters" => action.expected = action.desired
               /\ x.intents[action.intent].stage # "VERIFIED"
<1> DEFINE p == Prepared(e)
           action == Offer(e)
           y == Recorded(p, action, now)
           x == Sent(p, action, now)
           n == Len(e.history) + 1
<1>1. /\ EngineOK(p) /\ Subdued(e, p) /\ Kept(e, p) /\ p.inflight = 0 /\ p.resync = 0
      /\ p.state = e.state
  BY PreparedContinues, PreparedOK DEF Offers
<1>2. Judges(e, p, sn)
  BY PreparedJudges
<1>3. /\ ReceiptValid(p, action) /\ action.control \in Controls /\ action.intent # 0
      /\ action.epoch = e.state.epoch /\ e.state.epoch # 0
      /\ p.actions[action.control] < MaxActions
  BY OfferAccepted, OfferOK
<1>4. /\ action.intent \in 1..p.counter /\ action.desired = p.intents[action.intent].desired
      /\ action.control = "filters" => action.expected = action.desired
  BY OfferPlans DEF Expected, Absolute
<1> HIDE DEF p, action
<1>5. EngineOK(y) /\ Records(p, y, action, now)
  BY <1>1, <1>3, RecordedOK
<1>6. x = Expired(y, now)
  BY <1>1, <1>3, SentOK
<1>7. x = Ticked(y, now)
  BY DEF Sent, Recorded
<1> HIDE DEF y, x
<1>8. Restaged(y, x) /\ NoSuccess(y, x)
  BY <1>5, <1>6, <1>7, ExpiredRestages, TickedContinues
<1>9. /\ p.history = e.history /\ p.counter = e.counter
      /\ \A id \in 1..e.counter : p.intents[id].desired = e.intents[id].desired
  BY <1>1 DEF Kept, Subdued, Continues, SameRequests
<1>10. /\ n \in Nat /\ DOMAIN e.history = 1..(n - 1) /\ DOMAIN x.history = 1..n
       /\ x.inflight = n /\ x.history[n] = Pending(action, now)
       /\ \A i \in DOMAIN e.history : x.history[i] = e.history[i]
       /\ y.counter = e.counter
       /\ \A id \in 1..e.counter :
             /\ x.intents[id].desired = e.intents[id].desired
             /\ x.intents[id].stage = "VERIFIED" => p.intents[id].stage = "VERIFIED"
       /\ p.intents[action.intent].stage = "WAITING_FOR_BUS"
  BY <1>5, <1>8, <1>9 DEF Records, Restaged, NoSuccess
<1>11. Sends(e, x, action)
  BY <1>10 DEF Sends, Pending, Decided
<1>12. Judges(e, x, sn)
  <2> SUFFICES ASSUME NEW i \in DOMAIN e.history, e.history[i].control = "filters"
               PROVE  DecidedBy(e, x, sn, i) /\ ReportedBy(e, x, sn, i)
    BY DEF Judges
  <2>1. e.history[i].intent \in 1..e.counter
    BY DEF EngineOK, HistoryOK, TransactionOK
  <2>2. QED
    BY <1>2, <1>9, <1>10, <2>1 DEF Judges, DecidedBy, ReportedBy
<1>13. QED
  BY <1>3, <1>4, <1>9, <1>10, <1>11, <1>12 DEF x, p, action

-----------------------------------------------------------------------------
(* The filter change in flight.                                            *)

Aim(e, k) == e.intents[k.intent].desired

(* Only the call pursues the filters, with its condition and one aim.      *)
OwnsGoal(e, k, conds) ==
    /\ Aim(e, k) \in FilterRecords
    /\ k.epoch # 0 /\ conds[k.intent] = [epoch |-> k.epoch, caller |-> TRUE]
OwnSend(e, k, i) ==
    e.history[i].intent = k.intent
        => /\ e.history[i].epoch = k.epoch
           /\ e.history[i].desired = Aim(e, k) /\ e.history[i].expected = Aim(e, k)
Owns(e, k, conds) ==
    /\ \A id \in 1..e.counter :
          e.intents[id].control = "filters" /\ Open(e, id) => k.phase = "write" /\ id = k.intent
    /\ k.phase = "write" => OwnsGoal(e, k, conds) /\ \A i \in DOMAIN e.history : OwnSend(e, k, i)

(* What the call rests on stays what it is.                                *)
LEMMA OwnsContinues ==
    ASSUME NEW e, NEW x, EngineOK(e), Continues(e, x), NEW k, NEW t, CallOK(k, e, t),
           NEW conds, Owns(e, k, conds)
    PROVE  /\ Owns(x, k, conds)
           /\ k.phase = "write" =>
                 /\ Aim(x, k) = Aim(e, k)
                 /\ Open(x, k.intent) => Open(e, k.intent)
<1>1. k.phase = "write" => k.intent \in 1..e.counter
  BY DEF CallOK
<1>2. \A id \in 1..e.counter : Open(x, id) => Open(e, id)
  BY DEF Continues, GoalsFinal, Open
<1>3. k.phase = "write" => Aim(x, k) = Aim(e, k)
  BY <1>1 DEF Aim, Continues, SameRequests
<1>4. ASSUME k.phase = "write", NEW i \in DOMAIN x.history
      PROVE  OwnSend(x, k, i)
  BY <1>3, <1>4 DEF Owns, OwnSend, Continues, SameActions, SameAction
<1>5. Owns(x, k, conds)
  BY <1>2, <1>3, <1>4 DEF Owns, OwnsGoal, Continues, SameRequests
<1>6. QED
  BY <1>1, <1>2, <1>3, <1>5

(* A transmission on an honoured condition is of this epoch and this aim.  *)
LEMMA OwnsSent ==
    ASSUME NEW e, EngineOK(e), NEW x, GoalsFinal(e, x), SameControls(e, x),
           \A id \in 1..e.counter : x.intents[id].desired = e.intents[id].desired,
           NEW action, Sends(e, x, action), action.intent \in 1..e.counter,
           e.intents[action.intent].control = action.control, Open(e, action.intent),
           action.epoch = e.state.epoch, action.desired = e.intents[action.intent].desired,
           action.control = "filters" => action.expected = action.desired,
           NEW k, NEW t, CallOK(k, e, t), NEW conds, Owns(e, k, conds),
           conds[action.intent].epoch \in {0, e.state.epoch}
    PROVE  /\ Owns(x, k, conds)
           /\ k.phase = "write" => Aim(x, k) = Aim(e, k)
           /\ action.control = "filters" =>
                 k.phase = "write" /\ action.intent = k.intent /\ action.desired = Aim(e, k)
<1> DEFINE n == Len(e.history) + 1
<1>1. k.phase = "write" => k.intent \in 1..e.counter /\ e.intents[k.intent].control = "filters"
  BY DEF CallOK
<1>2. \A id \in 1..e.counter : Open(x, id) => Open(e, id)
  BY DEF GoalsFinal, Open
<1>3. k.phase = "write" => Aim(x, k) = Aim(e, k)
  BY <1>1 DEF Aim
<1>4. action.control = "filters" => k.phase = "write" /\ action.intent = k.intent
  BY DEF Owns
<1>5. k.phase = "write" /\ action.intent = k.intent => action.control = "filters"
  BY <1>1
<1>6. ASSUME k.phase = "write", NEW i \in DOMAIN x.history
      PROVE  OwnSend(x, k, i)
  <2>1. CASE i \in DOMAIN e.history
    BY <1>3, <1>6, <2>1 DEF Owns, OwnSend, Sends
  <2>2. CASE i \notin DOMAIN e.history
    <3>1. i = n
      BY <2>2 DEF Sends
    <3>2. CASE action.intent # k.intent
      BY <3>1, <3>2 DEF OwnSend, Sends
    <3>3. CASE action.intent = k.intent
      <4>1. conds[k.intent].epoch = k.epoch /\ k.epoch # 0
        BY <1>6 DEF Owns, OwnsGoal
      <4>2. action.epoch = k.epoch
        BY <3>3, <4>1
      <4>3. action.desired = Aim(e, k) /\ action.expected = Aim(e, k)
        BY <1>5, <1>6, <3>3 DEF Aim
      <4>4. QED
        BY <1>3, <1>6, <3>1, <4>2, <4>3 DEF OwnSend, Sends
    <3>4. QED
      BY <3>2, <3>3
  <2>3. QED
    BY <2>1, <2>2
<1>7. Owns(x, k, conds)
  BY <1>2, <1>3, <1>6 DEF Owns, OwnsGoal, SameControls
<1>8. QED
  BY <1>3, <1>4, <1>7 DEF Aim

(* A record that is what the controller has; once the change is asked for, *)
(* it need not be, but it cannot pretend that the change took effect.      *)
Truthful(e, k, r, v) ==
    /\ k.phase = "read" => v = r
    /\ k.phase = "write" => (v = Aim(e, k) => r = Aim(e, k))

Recent(sn, c, k) ==
    \/ k.phase = "read" /\ c.success /\ sn.filters # None
    \/ k.phase = "write" /\ sn.filtersAt # 0
Remembered(sn, c, e, k, r) == Recent(sn, c, k) => Truthful(e, k, r, sn.filters)

TrueLine(e, q, k, r) ==
    \A i \in DOMAIN q :
        q[i].query = "filters" /\ ~q[i].reflected => Truthful(e, k, r, q[i].content)
Undisturbed(q, wr, k) ==
    k.phase = "read" => wr = None /\ \A i \in DOMAIN q : ~q[i].reflected
Written(e, wr, k, r) ==
    k.phase = "write" => /\ r[3 - k.index] = Aim(e, k)[3 - k.index]
                         /\ wr # None => wr.content = Aim(e, k)
Achieved(e, k, r) ==
    k.phase = "write" =>
        \A i \in DOMAIN e.history :
            /\ e.history[i].intent = k.intent
            /\ Decided(e.history[i]) \/ e.intents[k.intent].stage = "VERIFIED"
            => r = Aim(e, k)

(* A goal of a past epoch: nothing that was read then is remembered now.   *)
Away(sn, c, e, q, k) ==
    k.phase = "write" /\ Open(e, k.intent) /\ sn.epoch # k.epoch
        => /\ \A i \in DOMAIN q : q[i].query # "filters"
           /\ c.epoch = sn.epoch => sn.filters = None

(* A reflection is heard before anything is asked again.                   *)
Unanswered(c, q) == (\E i \in DOMAIN q : q[i].reflected) => c.pending = None

(* A method that judges by a truthful record only reports what is achieved.*)
LEMMA AchievedHolds ==
    ASSUME NEW e, EngineOK(e), NEW x, GoalsFinal(e, x), NEW sn, Judges(e, x, sn),
           NEW k, NEW t, CallOK(k, e, t), NEW conds, Owns(e, k, conds), k.phase = "write",
           NEW r, Achieved(e, k, r),
           sn.filtersAt # 0 => Truthful(e, k, r, sn.filters),
           Open(e, k.intent) /\ sn.epoch # k.epoch => sn.filters = None,
           NEW i \in DOMAIN e.history, e.history[i].intent = k.intent,
           Decided(x.history[i]) \/ x.intents[k.intent].stage = "VERIFIED"
    PROVE  r = Aim(e, k)
<1>1. /\ k.intent \in 1..e.counter /\ e.history[i].control = "filters"
      /\ e.history[i].sentAt \in Nat
  BY DEF CallOK, EngineOK, HistoryOK, TransactionOK
<1>2. /\ e.history[i].epoch = k.epoch /\ e.history[i].desired = Aim(e, k)
      /\ e.history[i].expected = Aim(e, k) /\ Aim(e, k) # None
  BY FilterParameters DEF Owns, OwnsGoal, OwnSend
<1>3. Decided(e.history[i]) \/ e.intents[k.intent].stage = "VERIFIED" => r = Aim(e, k)
  BY DEF Achieved
<1>4. DecidedBy(e, x, sn, i) /\ ReportedBy(e, x, sn, i)
  BY <1>1 DEF Judges
<1>5. Decided(x.history[i]) => r = Aim(e, k)
  <2> SUFFICES ASSUME Decided(x.history[i]), ~Decided(e.history[i])
               PROVE  r = Aim(e, k)
    BY <1>3
  <2>1. sn.filtersAt > e.history[i].sentAt /\ sn.filters = Aim(e, k)
    BY <1>2, <1>4 DEF DecidedBy
  <2>2. sn.filtersAt # 0
    BY <1>1, <2>1
  <2>3. QED
    BY <2>1, <2>2 DEF Truthful
<1>6. CASE x.intents[k.intent].stage = "VERIFIED" /\ e.intents[k.intent].stage # "VERIFIED"
  <2>1. Open(e, k.intent)
    BY <1>1, <1>6 DEF GoalsFinal, Open
  <2>2. sn.filters = Aim(e, k) /\ (sn.epoch = k.epoch => Decided(x.history[i]))
    BY <1>2, <1>4, <1>6 DEF ReportedBy, Aim
  <2>3. QED
    BY <1>2, <1>5, <2>1, <2>2
<1>7. QED
  BY <1>3, <1>5, <1>6

-----------------------------------------------------------------------------
(* What an iteration reads of the filters.                                 *)

Trusty(w, q) ==
    /\ w.s.filters \in FilterRecords \cup {None}
    /\ Unanswered(w.c, q) /\ Away(w.s, w.c, w.e, q, call)
    /\ Untouched => Remembered(w.s, w.c, w.e, call, record)

SubLine(q, rest) == \A i \in DOMAIN rest : \E j \in DOMAIN q : rest[i] = q[j]

(* Less is on the line, the call is no less pursued, and nothing is read.  *)
LEMMA TrustyAgain ==
    ASSUME NEW w, NEW q, Trusty(w, q), NEW x, NEW rest, SubLine(q, rest),
           call.phase = "write" =>
               /\ Aim(x.e, call) = Aim(w.e, call)
               /\ Open(x.e, call.intent) => Open(w.e, call.intent),
           x.s.epoch = w.s.epoch, x.s.filters = w.s.filters, x.s.filtersAt = w.s.filtersAt,
           x.c.epoch = w.c.epoch, x.c.success => w.c.success, x.c.pending \in {w.c.pending, None}
    PROVE  Trusty(x, rest)
<1>1. Unanswered(x.c, rest)
  BY DEF Trusty, Unanswered, SubLine
<1>2. Away(x.s, x.c, x.e, rest, call)
  BY DEF Trusty, Away, SubLine
<1>3. Remembered(w.s, w.c, w.e, call, record) => Remembered(x.s, x.c, x.e, call, record)
  BY DEF Remembered, Recent, Truthful
<1>4. QED
  BY <1>1, <1>2, <1>3 DEF Trusty

(* What a message makes of the record that is remembered.                  *)
LEMMA StoredFilters ==
    ASSUME NEW sn, SnapshotOK(sn), NEW c, NEW message, message.query \in Asking
    PROVE  LET y == Stored(sn, c, message)
           IN  IF message.query = "filters"
               THEN /\ y.filters = message.content
                    /\ y.filtersAt = IF Matches(c, message) THEN now ELSE 0
               ELSE y.filters = sn.filters /\ y.filtersAt = sn.filtersAt
  BY DEF Stored, SnapshotOK, HasSnapshotFields, Asking

(* A record that was queried is truthful; one that is reflected is not     *)
(* taken for one that was.                                                 *)
LEMMA ReceivedTrusty ==
    ASSUME NEW w, Met(w), NEW q, Trusty(w, q), NEW j \in DOMAIN q, q[j].query \in Asking,
           NEW rest, SubLine(q, rest), q[j].content \in FilterRecords,
           Untouched => TrueLine(w.e, q, call, record) /\ Undisturbed(q, write, call)
    PROVE  Trusty(Received(w, q[j]), rest)
<1> DEFINE message == q[j]
           x == Received(w, message)
           y == Stored(w.s, w.c, message)
           d == IF ~Matches(w.c, message) THEN w.c
                ELSE IF Reread(w, message) THEN RereadAgain(w.c) ELSE Answered(w.c)
<1>1. CASE w.c.epoch # w.s.epoch
  <2>1. x = w
    BY <1>1 DEF Received
  <2>2. QED
    BY <2>1, TrustyAgain
<1>2. CASE w.c.epoch = w.s.epoch
  <2>1. x = [w EXCEPT !.s = y, !.c = d]
    BY <1>2 DEF Received
  <2> HIDE DEF y, d, message
  <2>2. x.s = y /\ x.c = d /\ x.e = w.e
    BY <2>1 DEF Met, WorldFields
  <2>3. /\ y.epoch = w.s.epoch
        /\ IF message.query = "filters"
           THEN /\ y.filters = message.content
                /\ y.filtersAt = IF Matches(w.c, message) THEN now ELSE 0
           ELSE y.filters = w.s.filters /\ y.filtersAt = w.s.filtersAt
    BY StoredOK, StoredFilters DEF Met, Sound, SameStatus, y, message
  <2>4. /\ d.epoch = w.c.epoch /\ d.pending \in {w.c.pending, None}
        /\ d.success => w.c.success \/ (w.c.refresh /\ Matches(w.c, message))
    <3>1. DOMAIN w.c = CommandFields
      BY DEF Met, Sound, QueryOK
    <3>2. CASE ~Matches(w.c, message)
      BY <3>2 DEF d
    <3>3. CASE Matches(w.c, message) /\ Reread(w, message)
      BY <3>1, <3>3 DEF d, RereadAgain, CommandFields
    <3>4. CASE Matches(w.c, message) /\ ~Reread(w, message)
      <4>1. d = Answered(w.c)
        BY <3>4 DEF d
      <4>2. QED
        BY <3>1, <3>4, <4>1 DEF Answered, CommandFields
    <3>5. QED
      BY <3>2, <3>3, <3>4
  <2>5. w.c.refresh /\ Matches(w.c, message) => message.query = "filters"
    BY DEF Met, Sound, QueryOK, Matches
  <2>6. Unanswered(d, rest)
    BY <2>4 DEF Trusty, Unanswered, SubLine
  <2>7. Away(y, d, w.e, rest, call)
    BY <2>3, <2>4 DEF Trusty, Away, SubLine, message
  <2>8. ASSUME Untouched, Recent(y, d, call)
        PROVE  Truthful(w.e, call, record, y.filters)
    <3>1. CASE message.query # "filters"
      <4>1. Recent(w.s, w.c, call) /\ y.filters = w.s.filters
        BY <2>3, <2>4, <2>5, <2>8, <3>1 DEF Recent
      <4>2. QED
        BY <2>8, <4>1 DEF Trusty, Remembered
    <3>2. CASE message.query = "filters"
      <4>1. y.filters = message.content /\ (y.filtersAt # 0 => Matches(w.c, message))
        BY <2>3, <3>2
      <4>2. ~message.reflected
        <5>1. CASE call.phase = "read"
          BY <2>8, <5>1 DEF Undisturbed, message
        <5>2. CASE call.phase = "write" /\ y.filtersAt # 0
          BY <4>1, <5>2 DEF Matches, Trusty, Unanswered, message
        <5>3. QED
          BY <2>8, <5>1, <5>2 DEF Recent
      <4>3. QED
        BY <2>8, <3>2, <4>1, <4>2 DEF TrueLine, message
    <3>3. QED
      BY <3>1, <3>2
  <2>9. y.filters \in FilterRecords \cup {None}
    BY <2>3 DEF Trusty, message
  <2>10. Trusty(x, rest)
    BY <2>2, <2>6, <2>7, <2>8, <2>9 DEF Trusty, Remembered
  <2>11. QED
    BY <2>10 DEF message
<1>3. QED
  BY <1>1, <1>2

(* A new epoch or configuration makes the record unknown.                  *)
LEMMA RenewedTrusty ==
    ASSUME NEW w, Met(w), NEW q, Trusty(w, q)
    PROVE  LET x == Renewed(w)
           IN  Trusty(x, q) /\ x.c.epoch = x.s.epoch
<1> DEFINE x == Renewed(w)
           y == [w.s EXCEPT !.setup = FALSE, !.filters = None, !.filtersAt = 0]
           known == IF w.s.synced THEN w.revision ELSE 0
           next == now + MetadataRefreshInterval
           d == [w.c EXCEPT !.epoch = w.s.epoch, !.configuration = known, !.refresh = FALSE,
                            !.success = FALSE, !.version = @ + 1, !.pending = None,
                            !.index = 1, !.attempts = 0, !.reads = 0, !.next = next]
<1>1. CASE ~Outlived(w)
  <2>1. x = w /\ w.s.epoch = w.c.epoch
    BY <1>1 DEF Renewed, Outlived
  <2>2. QED
    BY <2>1
<1>2. CASE Outlived(w)
  <2>1. x = [w EXCEPT !.s = y, !.c = d]
    BY <1>2 DEF Renewed
  <2>2. y.filters = None /\ y.filtersAt = 0 /\ y.epoch = w.s.epoch
    BY DEF Met, Sound, SnapshotOK, HasSnapshotFields
  <2>3. d.epoch = w.s.epoch /\ d.pending = None /\ d.success = FALSE
    <3> HIDE DEF known, next
    <3>1. DOMAIN w.c = CommandFields
      BY DEF Met, Sound, QueryOK
    <3>2. QED
      BY <3>1 DEF CommandFields
  <2> HIDE DEF x, y, d
  <2>4. x.s = y /\ x.c = d /\ x.e = w.e
    BY <2>1 DEF Met, WorldFields
  <2>5. Away(x.s, x.c, x.e, q, call)
    BY <2>2, <2>4 DEF Trusty, Away
  <2>6. Trusty(x, q)
    BY <2>2, <2>3, <2>4, <2>5 DEF Trusty, Unanswered, Remembered, Recent
  <2>7. QED
    BY <2>2, <2>3, <2>4, <2>6 DEF x
<1>3. QED
  BY <1>1, <1>2

(* The periodic refresh keeps what is remembered.                          *)
LEMMA RefreshedTrusty ==
    ASSUME NEW w, Met(w), NEW q, Trusty(w, q)
    PROVE  LET x == Refreshed(w)
           IN  Trusty(x, q) /\ x.c.epoch = w.c.epoch
<1> DEFINE x == Refreshed(w)
           next == now + MetadataRefreshInterval
           d == [w.c EXCEPT !.index = 1, !.attempts = 0, !.next = next]
<1>1. CASE x = w
  BY <1>1
<1>2. CASE x # w
  <2>1. x = [w EXCEPT !.c = d]
    BY <1>2 DEF Refreshed
  <2>2. d.epoch = w.c.epoch /\ d.pending = w.c.pending /\ d.success = w.c.success
    <3> HIDE DEF next
    <3>1. DOMAIN w.c = CommandFields
      BY DEF Met, Sound, QueryOK
    <3>2. QED
      BY <3>1 DEF CommandFields
  <2> HIDE DEF x, d
  <2>3. x.s = w.s /\ x.c = d /\ x.e = w.e
    BY <2>1 DEF Met, WorldFields
  <2>4. SubLine(q, q)
    BY DEF SubLine
  <2>5. Trusty(x, q)
    BY <2>2, <2>3, <2>4, TrustyAgain
  <2>6. QED
    BY <2>2, <2>3, <2>5 DEF x
<1>3. QED
  BY <1>1, <1>2

(* A query that is given up on leaves no pending one.                      *)
LEMMA TimedOutPending ==
    ASSUME NEW c, QueryOK(c, now)
    PROVE  TimedOut(c).pending \in {c.pending, None}
<1> DEFINE again == [c EXCEPT !.pending = None]
           over == [Exhausted(c) EXCEPT !.pending = None, !.attempts = 0]
           d == Exhausted(c)
<1>1. DOMAIN c = CommandFields
  BY DEF QueryOK
<1>2. again.pending = None
  BY <1>1 DEF CommandFields
<1>3. DOMAIN d = CommandFields
  BY <1>1 DEF Exhausted, CommandFields
<1>4. over.pending = None
  <2> HIDE DEF d
  <2>1. over = [d EXCEPT !.pending = None, !.attempts = 0]
    BY DEF d
  <2>2. QED
    BY <1>3, <2>1 DEF CommandFields
<1>5. TimedOut(c) \in {c, again, over}
  BY DEF TimedOut
<1> HIDE DEF again, over
<1>6. QED
  BY <1>2, <1>4, <1>5

(* What is observed is judged, and nothing else is remembered.             *)
LEMMA ObservedTrusty ==
    ASSUME NEW w, Met(w), NEW q, Trusty(w, q), Owns(w.e, call, conditions)
    PROVE  LET x == ObservedBy(w)
           IN  /\ Trusty(x, q) /\ x.c.epoch = w.c.epoch
               /\ Judges(w.e, x.e, w.s) /\ Judges(w.e, x.e, x.e.state)
<1> DEFINE x == ObservedBy(w)
           s == StateOf(w.s, w.ready)
           due == Ticked(w.e, now)
           d == TimedOut(w.c)
           f == IF w.s.synced THEN Observed(w.e, s, now) ELSE Suspended(due)
<1>1. /\ SnapshotOK(w.s) /\ EngineOK(w.e) /\ Cycle(w.c, w.e) /\ CallOK(call, w.e, now)
      /\ w.ready \in BOOLEAN /\ ~Outdated(w.e, w.s) /\ QueryAttempts \in Nat \ {0}
  BY RuntimeParameters DEF Met, Sound, Cycle
<1>2. Judges(w.e, f, w.s) /\ Judges(w.e, f, f.state)
  <2>1. CASE w.s.synced
    <3>1. f = Observed(w.e, s, now)
      BY <2>1
    <3>2. IsState(s) /\ ~Outdated(w.e, s)
      BY <1>1, StateOfSnapshot DEF StateOf, Outdated
    <3>3. s.filters = w.s.filters /\ s.filtersAt = w.s.filtersAt /\ s.epoch = w.s.epoch
      BY DEF StateOf
    <3> HIDE DEF f, s
    <3>4. EngineOK(f) /\ Observes(w.e, f, s, now)
      BY <1>1, <3>1, <3>2, ObservedContinues
    <3>5. f.state = s /\ Judges(w.e, f, s)
      BY <1>1, <3>4, ObservedJudges DEF Observes
    <3>6. QED
      BY <3>3, <3>5, JudgesBySame
  <2>2. CASE ~w.s.synced
    <3>1. EngineOK(due) /\ Subdued(w.e, due) /\ NoSuccess(w.e, due)
      BY <1>1, TickedContinues
    <3> HIDE DEF due
    <3>2. EngineOK(f) /\ Subdued(due, f) /\ NoSuccess(due, f)
      BY <2>2, <3>1, SuspendedContinues
    <3> HIDE DEF f
    <3>3. Subdued(w.e, f)
      BY <1>1, <3>1, <3>2, SubduedTransitive
    <3>4. NoSuccess(w.e, f)
      BY <3>1, <3>2 DEF NoSuccess, Subdued, Continues, SameRequests
    <3>5. QED
      BY <1>1, <3>3, <3>4, QuietJudges
  <2>3. QED
    BY <2>1, <2>2
<1>3. SameGuards(w.c, d) /\ (d.success => w.c.success) /\ d.pending \in {w.c.pending, None}
  BY <1>1, TimedOutOK, TimedOutPending DEF Cycle
<1>4. x = [w EXCEPT !.c = d, !.e = f]
  BY DEF ObservedBy
<1>5. Continues(w.e, x.e)
  BY <1>1, ObservedByOK
<1>6. call.phase = "write" =>
         /\ Aim(x.e, call) = Aim(w.e, call)
         /\ Open(x.e, call.intent) => Open(w.e, call.intent)
  BY <1>1, <1>5, OwnsContinues
<1>7. SubLine(q, q)
  BY DEF SubLine
<1> HIDE DEF x, d, f
<1>8. x.s = w.s /\ x.c = d /\ x.e = f
  BY <1>4 DEF Met, WorldFields
<1>9. Trusty(x, q)
  BY <1>3, <1>6, <1>7, <1>8, TrustyAgain DEF SameGuards
<1>10. QED
  BY <1>2, <1>3, <1>8, <1>9 DEF SameGuards, x

(* What was judged by a truthful record is achieved.                       *)
LEMMA AchievedAfter ==
    ASSUME NEW w, Met(w), NEW q, Trusty(w, q), w.c.epoch = w.s.epoch,
           Owns(w.e, call, conditions), Achieved(w.e, call, record), Untouched,
           NEW x, GoalsFinal(w.e, x), Judges(w.e, x, w.s),
           call.phase = "write" => Aim(x, call) = Aim(w.e, call),
           \A i \in DOMAIN w.e.history : x.history[i].intent = w.e.history[i].intent,
           \A i \in DOMAIN x.history :
               i \notin DOMAIN w.e.history /\ x.history[i].intent = call.intent
                   => ~Decided(x.history[i]) /\ x.intents[call.intent].stage # "VERIFIED"
    PROVE  Achieved(x, call, record)
<1> SUFFICES ASSUME call.phase = "write", NEW i \in DOMAIN x.history,
                    x.history[i].intent = call.intent,
                    Decided(x.history[i]) \/ x.intents[call.intent].stage = "VERIFIED"
             PROVE  record = Aim(w.e, call)
  BY DEF Achieved
<1>1. i \in DOMAIN w.e.history /\ w.e.history[i].intent = call.intent
  OBVIOUS
<1>2. EngineOK(w.e) /\ CallOK(call, w.e, now)
  BY DEF Met, Sound
<1>3. w.s.filtersAt # 0 => Truthful(w.e, call, record, w.s.filters)
  BY DEF Trusty, Remembered, Recent
<1>4. Open(w.e, call.intent) /\ w.s.epoch # call.epoch => w.s.filters = None
  BY DEF Trusty, Away
<1>5. QED
  BY <1>1, <1>2, <1>3, <1>4, AchievedHolds

(* What the loop makes of what it received, before it writes.              *)
LEMMA UpdatedTrusty ==
    ASSUME NEW w, Met(w), NEW q, Trusty(w, q), Owns(w.e, call, conditions),
           Untouched => Achieved(w.e, call, record)
    PROVE  LET x == Updated(w)
           IN  /\ Trusty(x, q) /\ x.c.epoch = x.s.epoch /\ Owns(x.e, call, conditions)
               /\ Judges(w.e, x.e, x.s) /\ Judges(w.e, x.e, x.e.state)
               /\ Untouched => Achieved(x.e, call, record)
<1> DEFINE a == Renewed(w)
           b == Refreshed(a)
           x == ObservedBy(b)
<1>0. QueryAttempts \in Nat \ {0}
  BY RuntimeParameters
<1>1. Met(a) /\ a.e = w.e /\ Trusty(a, q) /\ a.c.epoch = a.s.epoch
  BY <1>0, RenewedOK, RenewedTrusty
<1> HIDE DEF a
<1>2. Met(b) /\ b.e = a.e /\ Trusty(b, q) /\ b.c.epoch = a.c.epoch /\ b.s.epoch = a.s.epoch
  BY <1>0, <1>1, RefreshedOK, RefreshedTrusty DEF SameWorld, SameStatus
<1> HIDE DEF b
<1>3. /\ x.s = b.s /\ Continues(b.e, x.e) /\ Trusty(x, q) /\ x.c.epoch = b.c.epoch
      /\ Judges(b.e, x.e, b.s) /\ Judges(b.e, x.e, x.e.state)
  BY <1>0, <1>1, <1>2, ObservedByOK, ObservedTrusty
<1>4. EngineOK(b.e) /\ CallOK(call, b.e, now)
  BY <1>2 DEF Met, Sound
<1> HIDE DEF x
<1>5. /\ Owns(x.e, call, conditions)
      /\ call.phase = "write" => Aim(x.e, call) = Aim(b.e, call)
  BY <1>1, <1>2, <1>3, <1>4, OwnsContinues
<1>6. Untouched => Achieved(x.e, call, record)
  <2> SUFFICES ASSUME Untouched PROVE Achieved(x.e, call, record)
    OBVIOUS
  <2>1. /\ DOMAIN x.e.history = DOMAIN b.e.history
        /\ \A i \in DOMAIN b.e.history : x.e.history[i].intent = b.e.history[i].intent
        /\ GoalsFinal(b.e, x.e)
    BY <1>3 DEF Continues, SameActions, SameAction
  <2>2. Achieved(b.e, call, record) /\ b.c.epoch = b.s.epoch /\ Owns(b.e, call, conditions)
    BY <1>1, <1>2
  <2>3. QED
    BY <1>2, <1>3, <1>5, <2>1, <2>2, AchievedAfter
<1>7. x = Updated(w)
  BY DEF Updated, x, b, a
<1>8. QED
  BY <1>1, <1>2, <1>3, <1>5, <1>6, <1>7
-----------------------------------------------------------------------------
(* What an iteration makes of the filters.                                 *)

(* A world in which all that is known of the filters is right.             *)
Faithful(w, q) ==
    /\ Trusty(w, q) /\ w.c.epoch = w.s.epoch /\ Owns(w.e, call, conditions)
    /\ Untouched => Achieved(w.e, call, record)

Carries(e, x) ==
    call.phase = "write" =>
        /\ Aim(x, call) = Aim(e, call)
        /\ Open(x, call.intent) => Open(e, call.intent)

(* The guards decide nothing and read nothing.                             *)
LEMMA GuardedFaithful ==
    ASSUME NEW w, Met(w), NEW q, Faithful(w, q)
    PROVE  LET x == Guarding(w)
           IN  Faithful(x, q) /\ Carries(w.e, x.e) /\ Judges(w.e, x.e, w.s)
<1> DEFINE x == Guarding(w)
<1>1. /\ x.s = w.s /\ Continues(w.e, x.e) /\ x.e.history = w.e.history
      /\ NoSuccess(w.e, x.e) /\ x.c.success = w.c.success /\ x.c.pending = w.c.pending
      /\ x.c.epoch = w.c.epoch
  BY GuardingOK
<1> HIDE DEF x
<1>2. EngineOK(w.e) /\ CallOK(call, w.e, now)
  BY DEF Met, Sound
<1>3. Judges(w.e, x.e, w.s)
  BY <1>1, <1>2, SilentJudges
<1>4. Owns(x.e, call, conditions) /\ Carries(w.e, x.e)
  BY <1>1, <1>2, OwnsContinues DEF Faithful, Carries
<1>5. Trusty(x, q)
  <2>1. SubLine(q, q)
    BY DEF SubLine
  <2>2. QED
    BY <1>1, <1>4, <2>1, TrustyAgain DEF Faithful, Carries
<1>6. Untouched => Achieved(x.e, call, record)
  BY <1>1, <1>3, <1>4, AchievedAfter DEF Faithful, Carries, Continues
<1>7. QED
  BY <1>1, <1>3, <1>4, <1>5, <1>6 DEF Faithful, x

(* What is on its way after prepare: nothing, a question that no           *)
(* reflection can pretend to answer, or an action, of the call's aim.      *)
Present(x) == call.phase = "write" /\ Open(x.e, call.intent) => x.s.epoch = call.epoch
Delivers(x, rest) ==
    \/ x.out = None
    \/ Present(x) /\ x.out \in Asking /\ \A i \in DOMAIN rest : ~rest[i].reflected
    \/ /\ Present(x) /\ x.out = "action" /\ x.c.pending = None
       /\ WritingFilters(x.e) => call.phase = "write" /\ Desired(x) = Aim(x.e, call)

WritesAim(e, x) ==
    LET last == x.history[Len(x.history)]
    IN  Len(x.history) > Len(e.history) /\ last.control = "filters"
          => call.phase = "write" /\ last.desired = Aim(e, call)

Extends(e, x) ==
    \A i \in DOMAIN e.history :
        /\ i \in DOMAIN x.history /\ x.history[i].intent = e.history[i].intent
        /\ Decided(e.history[i]) => Decided(x.history[i])

Provides(w, x, rest) ==
    /\ Faithful(x, rest) /\ Delivers(x, rest) /\ x.s = w.s
    /\ Carries(w.e, x.e) /\ Judges(w.e, x.e, w.s)
    /\ Extends(w.e, x.e) /\ WritesAim(w.e, x.e)

(* Who is honoured is of this epoch.                                       *)
LEMMA HonouredPresent ==
    ASSUME NEW w, Met(w), Honoured(w), Owns(w.e, call, conditions)
    PROVE  Present(w)
<1> SUFFICES ASSUME call.phase = "write", Open(w.e, call.intent)
             PROVE  w.s.epoch = call.epoch
  BY DEF Present
<1>1. call.intent \in 1..w.e.counter
  BY DEF Met, Sound, CallOK
<1>2. Holds(conditions[call.intent], w)
  BY <1>1 DEF Honoured
<1>3. call.epoch # 0 /\ conditions[call.intent].epoch = call.epoch
  BY DEF Owns, OwnsGoal
<1>4. QED
  BY <1>2, <1>3 DEF Holds

(* Nothing at all.                                                         *)
LEMMA IdleProvides ==
    ASSUME NEW w, Met(w), NEW rest, Faithful(w, rest), w.out = None
    PROVE  Provides(w, w, rest)
<1>1. EngineOK(w.e) /\ NoSuccess(w.e, w.e)
  BY DEF Met, Sound, NoSuccess
<1>2. Judges(w.e, w.e, w.s)
  BY <1>1, SilentJudges
<1>3. WritesAim(w.e, w.e)
  <2>1. Len(w.e.history) \in Nat
    BY <1>1, HistoryDomain DEF EngineOK, HistoryOK
  <2>2. QED
    BY <2>1 DEF WritesAim
<1>4. QED
  BY <1>2, <1>3 DEF Provides, Delivers, Carries, Extends

(* A question.                                                             *)
LEMMA AskedProvides ==
    ASSUME NEW w, Met(w), Honoured(w), NEW rest, Faithful(w, rest), w.c.pending = None,
           Question(w.c) # None, \A i \in DOMAIN rest : ~rest[i].reflected
    PROVE  Provides(w, Asked(w, Question(w.c)), rest)
<1> DEFINE q == Question(w.c)
           x == Asked(w, q)
           reads == IF q = "filters" /\ WritingFilters(w.e) THEN w.c.reads + 1 ELSE w.c.reads
           p == [query |-> q, at |-> now]
           d == [w.c EXCEPT !.pending = p, !.attempts = @ + 1, !.reads = reads]
<1>1. x = [w EXCEPT !.out = q, !.c = d]
  BY DEF Asked
<1>2. d.epoch = w.c.epoch /\ d.success = w.c.success
  <2> HIDE DEF p, reads
  <2>1. DOMAIN w.c = CommandFields
    BY DEF Met, Sound, QueryOK
  <2>2. QED
    BY <2>1 DEF CommandFields
<1>3. q \in Asking
  <2>1. CASE w.c.index \in 1..3
    BY <2>1, QueryList DEF Question, MetadataComplete
  <2>2. CASE w.c.index = 4
    BY <2>2, QueryList DEF Question, MetadataComplete, Asking
  <2>3. QED
    BY <2>1, <2>2 DEF Met, Sound, QueryOK
<1> HIDE DEF x, d, q
<1>4. x.s = w.s /\ x.c = d /\ x.e = w.e /\ x.out = q
  BY <1>1 DEF Met, WorldFields
<1>5. Faithful(x, rest)
  <2>1. Unanswered(x.c, rest)
    BY DEF Unanswered
  <2>2. Away(x.s, x.c, x.e, rest, call) /\ (Untouched => Remembered(x.s, x.c, x.e, call, record))
    BY <1>2, <1>4 DEF Faithful, Trusty, Away, Remembered, Recent
  <2>3. QED
    BY <1>2, <1>4, <2>1, <2>2 DEF Faithful, Trusty
<1>6. Delivers(x, rest)
  BY <1>3, <1>4, HonouredPresent DEF Delivers, Present, Faithful
<1>7. Judges(w.e, w.e, w.s) /\ WritesAim(w.e, w.e)
  <2>1. EngineOK(w.e) /\ NoSuccess(w.e, w.e)
    BY DEF Met, Sound, NoSuccess
  <2>2. Len(w.e.history) \in Nat
    BY <2>1, HistoryDomain DEF EngineOK, HistoryOK
  <2>3. QED
    BY <2>1, <2>2, SilentJudges DEF WritesAim
<1>8. QED
  BY <1>4, <1>5, <1>6, <1>7 DEF Provides, Carries, Extends, x, q

(* No action: what is observed may have fulfilled a goal.                  *)
LEMMA PreparedProvides ==
    ASSUME NEW w, Met(w), NEW rest, Faithful(w, rest), w.out = None,
           w.e.state = StateOf(w.s, TRUE)
    PROVE  Provides(w, [w EXCEPT !.e = Prepared(@)], rest)
<1> DEFINE f == Prepared(w.e)
           x == [w EXCEPT !.e = f]
<1>1. EngineOK(w.e) /\ CallOK(call, w.e, now)
  BY DEF Met, Sound
<1>2. EngineOK(f) /\ Subdued(w.e, f)
  BY <1>1, PreparedContinues
<1>3. Judges(w.e, f, w.s)
  <2>1. /\ w.e.state.filters = w.s.filters /\ w.e.state.epoch = w.s.epoch
    BY DEF StateOf
  <2>2. QED
    BY <1>1, <2>1, PreparedJudges
<1> HIDE DEF f
<1>4. x.s = w.s /\ x.c = w.c /\ x.e = f /\ x.out = w.out
  BY DEF Met, WorldFields
<1> HIDE DEF x
<1>5. Continues(w.e, f)
  BY <1>2 DEF Subdued
<1>6. Owns(f, call, conditions) /\ Carries(w.e, f)
  BY <1>1, <1>5, OwnsContinues DEF Faithful, Carries
<1>7. Trusty(x, rest)
  <2>1. SubLine(rest, rest)
    BY DEF SubLine
  <2>2. QED
    BY <1>4, <1>6, <2>1, TrustyAgain DEF Faithful, Carries
<1>8. Untouched => Achieved(f, call, record)
  <2>1. /\ DOMAIN f.history = DOMAIN w.e.history /\ GoalsFinal(w.e, f)
        /\ \A i \in DOMAIN w.e.history : f.history[i].intent = w.e.history[i].intent
    BY <1>5 DEF Continues, SameActions, SameAction
  <2>2. QED
    BY <1>3, <1>6, <2>1, AchievedAfter DEF Faithful, Carries
<1>9. WritesAim(w.e, f)
  <2>1. Len(f.history) = Len(w.e.history) /\ Len(w.e.history) \in Nat
    BY <1>1, <1>2, <1>5, SameLength, HistoryDomain DEF Continues, EngineOK, HistoryOK
  <2>2. QED
    BY <2>1 DEF WritesAim
<1>10. Extends(w.e, f)
  BY <1>1, <1>5, DecisionStands DEF Continues, SameActions, SameAction, Extends
<1>11. QED
  BY <1>3, <1>4, <1>6, <1>7, <1>8, <1>9, <1>10 DEF Provides, Faithful, Delivers, x, f

(* The engine's action.                                                    *)
LEMMA ActedProvides ==
    ASSUME NEW w, Met(w), Honoured(w), NEW rest, Faithful(w, rest), Offers(w.e),
           w.c.pending = None, w.e.state = StateOf(w.s, TRUE)
    PROVE  Provides(w, Acted([w EXCEPT !.e = Prepared(@)], Offer(w.e)), rest)
<1> DEFINE action == Offer(w.e)
           p == Prepared(w.e)
           z == [w EXCEPT !.e = p]
           zero == [w.c EXCEPT !.reads = 0]
           d == IF action.control = "filters" THEN RefreshFilters(zero) ELSE w.c
           f == Sent(p, action, now)
           n == Len(w.e.history) + 1
           x == Acted(z, action)
<1>1. EngineOK(w.e) /\ CallOK(call, w.e, now) /\ now \in Nat /\ DOMAIN w.c = CommandFields
  BY DEF Met, Sound, QueryOK
<1>2. /\ GoalsFinal(w.e, f) /\ SameControls(w.e, f)
      /\ action.intent \in 1..w.e.counter /\ Open(w.e, action.intent)
      /\ w.e.intents[action.intent].control = action.control
      /\ Len(f.history) = n
  BY <1>1, TransmittedOK
<1>3. /\ w.e.state.filters = w.s.filters /\ w.e.state.epoch = w.s.epoch
  BY DEF StateOf
<1>4. /\ Judges(w.e, f, w.s) /\ Sends(w.e, f, action)
      /\ \A id \in 1..w.e.counter : f.intents[id].desired = w.e.intents[id].desired
      /\ action.epoch = w.e.state.epoch
      /\ action.desired = w.e.intents[action.intent].desired
      /\ action.control = "filters" => action.expected = action.desired
      /\ f.intents[action.intent].stage # "VERIFIED"
  BY <1>1, <1>3, TransmittedJudges
<1>5. d.epoch = w.c.epoch /\ d.pending = w.c.pending /\ (d.success => w.c.success)
  <2>1. /\ DOMAIN zero = CommandFields /\ zero.epoch = w.c.epoch /\ zero.pending = w.c.pending
    BY <1>1 DEF CommandFields
  <2> HIDE DEF zero
  <2>2. /\ RefreshFilters(zero).epoch = w.c.epoch /\ RefreshFilters(zero).pending = w.c.pending
        /\ RefreshFilters(zero).success = FALSE
    BY <2>1 DEF RefreshFilters, CommandFields
  <2>3. QED
    BY <2>2
<1> HIDE DEF action, p
<1>6. DOMAIN z = WorldFields /\ z.s = w.s /\ z.c = w.c /\ z.e = p
  BY DEF Met, WorldFields
<1>7. x = [z EXCEPT !.out = "action", !.e = f, !.c = d]
  <2> HIDE DEF z
  <2>1. QED
    BY <1>6 DEF Acted
<1> HIDE DEF x, f, d, z
<1>8. x.s = w.s /\ x.c = d /\ x.e = f /\ x.out = "action"
  BY <1>6, <1>7 DEF WorldFields
<1>9. conditions[action.intent].epoch \in {0, w.e.state.epoch}
  BY <1>2, <1>3 DEF Honoured, Holds
<1>10. /\ Owns(f, call, conditions)
       /\ call.phase = "write" => Aim(f, call) = Aim(w.e, call)
       /\ action.control = "filters" =>
             call.phase = "write" /\ action.intent = call.intent /\ action.desired = Aim(w.e, call)
  <2>1. Owns(w.e, call, conditions)
    BY DEF Faithful
  <2> DEFINE e == w.e
             a == action
  <2>2. /\ EngineOK(e) /\ CallOK(call, e, now) /\ Owns(e, call, conditions)
        /\ GoalsFinal(e, f) /\ SameControls(e, f) /\ Sends(e, f, a)
        /\ a.intent \in 1..e.counter /\ e.intents[a.intent].control = a.control
        /\ Open(e, a.intent) /\ a.epoch = e.state.epoch
        /\ a.desired = e.intents[a.intent].desired
        /\ a.control = "filters" => a.expected = a.desired
        /\ conditions[a.intent].epoch \in {0, e.state.epoch}
        /\ \A id \in 1..e.counter : f.intents[id].desired = e.intents[id].desired
    BY <1>1, <1>2, <1>4, <1>9, <2>1
  <2> HIDE DEF e, a
  <2>3. /\ Owns(f, call, conditions)
        /\ call.phase = "write" => Aim(f, call) = Aim(e, call)
        /\ a.control = "filters" =>
              call.phase = "write" /\ a.intent = call.intent /\ a.desired = Aim(e, call)
    BY <2>2, OwnsSent
  <2>4. QED
    BY <2>3 DEF e, a
<1>11. Carries(w.e, f)
  <2>1. call.phase = "write" => call.intent \in 1..w.e.counter
    BY <1>1 DEF CallOK
  <2>2. call.phase = "write" /\ Open(f, call.intent) => Open(w.e, call.intent)
    BY <1>2, <2>1 DEF GoalsFinal, Open
  <2>3. QED
    BY <1>10, <2>2 DEF Carries
<1>12. Trusty(x, rest)
  <2>1. SubLine(rest, rest)
    BY DEF SubLine
  <2>2. QED
    BY <1>5, <1>8, <1>11, <2>1, TrustyAgain DEF Faithful, Carries
<1>13. Untouched => Achieved(f, call, record)
  <2>1. \A i \in DOMAIN w.e.history : f.history[i].intent = w.e.history[i].intent
    BY <1>4 DEF Sends
  <2>2. ASSUME NEW i \in DOMAIN f.history, i \notin DOMAIN w.e.history,
               f.history[i].intent = call.intent
        PROVE  ~Decided(f.history[i]) /\ f.intents[call.intent].stage # "VERIFIED"
    <3>1. i = n
      BY <1>4, <2>2 DEF Sends
    <3>2. QED
      BY <1>4, <2>2, <3>1 DEF Sends
  <2>3. QED
    BY <1>2, <1>4, <1>10, <2>1, <2>2, AchievedAfter DEF Faithful
<1>14. Delivers(x, rest)
  <2>1. Present(x)
    BY <1>8, <1>11, HonouredPresent DEF Present, Carries, Faithful
  <2>2. WritingFilters(f) => call.phase = "write" /\ f.history[f.inflight].desired = Aim(f, call)
    <3>1. f.inflight = n /\ f.history[n].control = action.control
          /\ f.history[n].desired = action.desired
      BY <1>4 DEF Sends
    <3>2. QED
      BY <1>10, <3>1 DEF WritingFilters
  <2>3. QED
    BY <1>5, <1>8, <2>1, <2>2 DEF Delivers, Desired
<1>15. WritesAim(w.e, f)
  BY <1>2, <1>4, <1>10 DEF WritesAim, Sends
<1>16. Extends(w.e, f)
  BY <1>4 DEF Sends, Extends
<1>17. QED
  BY <1>4, <1>5, <1>8, <1>10, <1>11, <1>12, <1>13, <1>14, <1>15, <1>16
  DEF Provides, Faithful, x, z, p, action

(* Whatever prepare has to offer.                                          *)
LEMMA PreparesProvides ==
    ASSUME NEW w, Met(w), Honoured(w), NEW rest, Faithful(w, rest), w.out = None,
           w.e.state = StateOf(w.s, TRUE), NEW slot,
           slot => \A i \in DOMAIN rest : ~rest[i].reflected
    PROVE  Provides(w, Prepares(w, slot), rest)
<1> DEFINE x == Prepares(w, slot)
           q == Question(w.c)
           idle == [w EXCEPT !.e = Prepared(@)]
<1>1. Provides(w, w, rest)
  BY IdleProvides
<1>2. CASE w.c.pending # None
  <2>1. x = w
    BY <1>2 DEF Prepares, PreparedFor
  <2>2. QED
    BY <1>1, <2>1
<1>3. CASE w.c.pending = None /\ q # None
  <2>1. (slot /\ x = Asked(w, q)) \/ x = w
    BY <1>3 DEF Prepares, PreparedFor
  <2>2. slot => Provides(w, Asked(w, q), rest)
    BY <1>3, AskedProvides
  <2>3. QED
    BY <1>1, <2>1, <2>2
<1>4. CASE w.c.pending = None /\ q = None
  <2>1. x = Offering(w, slot)
    BY <1>4 DEF Prepares, PreparedFor
  <2>2. x = idle \/ (Offers(w.e) /\ x = Acted(idle, Offer(w.e)))
    BY <2>1 DEF Offering
  <2>3. Provides(w, idle, rest)
    BY PreparedProvides
  <2>4. Offers(w.e) => Provides(w, Acted(idle, Offer(w.e)), rest)
    BY <1>4, ActedProvides
  <2> HIDE DEF x, idle
  <2>5. QED
    BY <2>2, <2>3, <2>4 DEF x
<1>5. QED
  BY <1>2, <1>3, <1>4

(* The session that goes on, from what it received to what it writes.      *)
LEMMA ServedProvides ==
    ASSUME NEW w, Met(w), NEW rest, Faithful(w, rest), w.out = None,
           w.ready => w.e.state = StateOf(w.s, TRUE), NEW slot,
           slot => \A i \in DOMAIN rest : ~rest[i].reflected
    PROVE  Provides(w, IF w.ready THEN Prepares(Guarding(w), slot) ELSE w, rest)
<1>1. CASE ~w.ready
  BY <1>1, IdleProvides
<1>2. CASE w.ready
  <2> DEFINE g == Guarding(w)
             x == Prepares(g, slot)
  <2>1. /\ Met(g) /\ SameWorld(w, g) /\ g.s = w.s /\ Continues(w.e, g.e)
        /\ g.e.state = w.e.state /\ g.e.history = w.e.history /\ Honoured(g)
    BY GuardingOK
  <2>2. Faithful(g, rest) /\ Carries(w.e, g.e) /\ Judges(w.e, g.e, w.s)
    BY GuardedFaithful
  <2> HIDE DEF g
  <2>3. Provides(g, x, rest)
    BY <1>2, <2>1, <2>2, PreparesProvides DEF SameWorld
  <2> HIDE DEF x
  <2>4. Carries(w.e, x.e)
    BY <2>2, <2>3 DEF Carries, Provides
  <2>5. EngineOK(w.e)
    BY DEF Met, Sound
  <2>6. Judges(w.e, x.e, w.s)
    BY <2>1, <2>2, <2>3, <2>5, JudgesTransitive DEF Provides, Extends
  <2>7. WritesAim(w.e, x.e)
    BY <2>1, <2>2, <2>3 DEF Provides, WritesAim, Carries
  <2>8. Provides(w, x, rest)
    BY <2>1, <2>3, <2>4, <2>6, <2>7 DEF Provides, Extends
  <2>9. QED
    BY <1>2, <2>8 DEF x, g
<1>3. QED
  BY <1>1, <1>2

-----------------------------------------------------------------------------
(* The inductive invariant of the filter change.                           *)

FilterTypes(sn, q, wr, k, r) ==
    /\ r \in FilterRecords /\ sn.filters \in FilterRecords \cup {None}
    /\ \A i \in DOMAIN q : q[i].content \in FilterRecords /\ (q[i].reflected => q[i].query = "filters")
    /\ wr # None => wr.content \in FilterRecords
    /\ k.phase # "idle" => k.index \in {1, 2} /\ k.cycle \in Cycles

FilterOK(sn, c, e, q, k, conds) == Unanswered(c, q) /\ Owns(e, k, conds) /\ Away(sn, c, e, q, k)

Pristine(sn, c, e, q, wr, k, r) ==
    /\ TrueLine(e, q, k, r) /\ Undisturbed(q, wr, k) /\ Remembered(sn, c, e, k, r)
    /\ Written(e, wr, k, r) /\ Achieved(e, k, r)

FInv ==
    /\ FilterTypes(snapshot, line, write, call, record)
    /\ touched \in Nat /\ call.touched \in 0..touched
    /\ link = "down" => line = <<>>
    /\ FilterOK(snapshot, commands, engine, line, call, conditions)
    /\ Untouched => Pristine(snapshot, commands, engine, line, write, call, record)

(* What the properties of a step say of the filters.                       *)
CycleKept ==
    Transmits /\ Transmitted.control = "filters" /\ Untouched
        => Transmitted.desired[3 - call.index] = record[3 - call.index]
ReallyDone ==
    /\ call.phase = "write" /\ Untouched
    /\ SendsOf(engine, call.intent) # {}
    /\ engine.intents[call.intent].stage # "VERIFIED"
    /\ engine'.intents[call.intent].stage = "VERIFIED"
    => record = engine.intents[call.intent].desired
Effects == Judges(engine, engine', engine'.state) /\ CycleKept /\ ReallyDone

(* A step that sends, decides and reports nothing has no effect.           *)
LEMMA QuietEffects ==
    ASSUME RInv, NoSuccess(engine, engine'), Len(engine'.history) = Len(engine.history),
           \A i \in DOMAIN engine.history :
               Decided(engine'.history[i]) => Decided(engine.history[i])
    PROVE  Effects
<1>1. EngineOK(engine) /\ CallOK(call, engine, now) /\ Len(engine.history) \in Nat
  BY HistoryDomain DEF RInv, Sound, EngineOK, HistoryOK
<1>2. Judges(engine, engine', engine'.state)
  BY <1>1, SilentJudges
<1>3. CycleKept
  BY <1>1 DEF CycleKept, Transmits
<1>4. ReallyDone
  BY <1>1 DEF ReallyDone, CallOK, NoSuccess
<1>5. QED
  BY <1>2, <1>3, <1>4 DEF Effects

(* What a read brings is what is known already, or on the line.            *)
LEMMA ReadsFilters ==
    ASSUME RInv, NEW read \in Reads
    PROVE  /\ read.s.filters = snapshot.filters /\ SubLine(line, read.line)
           /\ read.message = None \/ \E j \in DOMAIN line : read.message = line[j]
<1>1. SnapshotOK(snapshot) /\ LineOK(line)
  BY DEF RInv, Sound
<1>2. SubLine(line, line)
  BY DEF SubLine
<1>3. CASE read = [message |-> None, s |-> snapshot, line |-> line]
  BY <1>2, <1>3
<1>4. ASSUME NEW st, read = [message |-> None, line |-> line,
                             s |-> [snapshot EXCEPT !.status = st, !.at = now,
                                                    !.sequence = @ + 1, !.synced = TRUE]]
      PROVE  read.s.filters = snapshot.filters /\ read.line = line /\ read.message = None
  <2> DEFINE z == [snapshot EXCEPT !.status = st, !.at = now, !.sequence = @ + 1,
                                   !.synced = TRUE]
  <2>1. z.filters = snapshot.filters
    BY <1>1 DEF SnapshotOK, HasSnapshotFields
  <2> HIDE DEF z
  <2>2. read = [message |-> None, line |-> line, s |-> z]
    BY <1>4 DEF z
  <2>3. QED
    BY <2>1, <2>2
<1>5. CASE /\ line # <<>>
           /\ read = [message |-> Head(line), s |-> snapshot, line |-> Tail(line)]
  <2>1. PICK S : line \in Seq(S)
    BY <1>1 DEF LineOK, IsHistory
  <2>2. DOMAIN line = 1..Len(line) /\ Len(line) \in Nat /\ Len(line) # 0
    BY <1>5, <2>1, LenProperties, EmptySeq
  <2>3. Head(line) = line[1] /\ Tail(line) \in Seq(S)
    BY <2>1, <2>2, HeadTailProperties
  <2>4. Len(Tail(line)) = Len(line) - 1
        /\ \A i \in 1..(Len(line) - 1) : Tail(line)[i] = line[i + 1]
    BY <2>1, <2>2, HeadTailProperties
  <2>5. DOMAIN Tail(line) = 1..(Len(line) - 1)
    BY <2>3, <2>4, LenProperties
  <2>6. SubLine(line, Tail(line))
    <3> SUFFICES ASSUME NEW i \in 1..(Len(line) - 1)
                 PROVE  \E j \in DOMAIN line : Tail(line)[i] = line[j]
      BY <2>5 DEF SubLine
    <3>1. i + 1 \in DOMAIN line
      BY <2>2
    <3>2. QED
      BY <2>4, <3>1
  <2>7. 1 \in DOMAIN line
    BY <2>2
  <2>8. QED
    BY <1>5, <2>3, <2>6, <2>7
<1>6. \/ read = [message |-> None, s |-> snapshot, line |-> line]
      \/ \E st : read = [message |-> None, line |-> line,
                         s |-> [snapshot EXCEPT !.status = st, !.at = now,
                                                !.sequence = @ + 1, !.synced = TRUE]]
      \/ /\ line # <<>>
         /\ read = [message |-> Head(line), s |-> snapshot, line |-> Tail(line)]
  BY DEF Reads
<1>7. QED
  BY <1>2, <1>3, <1>4, <1>5, <1>6

(* A message of now: the record as it is, or as the call wants it.         *)
Novel(w, m) ==
    /\ Present(w)
    /\ \/ m.content = record /\ ~m.reflected
       \/ /\ m.query = "filters" /\ m.reflected /\ w.c.pending = None
          /\ call.phase = "write" /\ m.content = Aim(w.e, call)

(* The messages on their way are those there were, and novel ones.         *)
LEMMA CarriedLine ==
    ASSUME NEW w, NEW rest, LineOK(rest), Delivers(w, rest), NEW q \in Carried(w, rest)
    PROVE  \A i \in DOMAIN q : (\E j \in DOMAIN rest : q[i] = rest[j]) \/ Novel(w, q[i])
<1> DEFINE answer == Message(w.out, record, FALSE)
           echo == Message("filters", Desired(w), TRUE)
<1>1. /\ None \notin Asking /\ None # "action" /\ "action" \notin Asking
      /\ Range(Queries) = Asking
  BY QueryList, NoneIsApart DEF Asking
<1>2. \/ q = rest
      \/ w.out \in Asking /\ q = Append(rest, answer)
      \/ WritesRecord(w) /\ q = Append(rest, echo)
  BY <1>1 DEF Carried
<1>3. answer.content = record /\ answer.reflected = FALSE
      /\ echo.query = "filters" /\ echo.content = Desired(w) /\ echo.reflected = TRUE
  BY DEF Message
<1> HIDE DEF answer, echo
<1>4. ASSUME NEW m, q = Append(rest, m), Novel(w, m)
      PROVE  \A i \in DOMAIN q : (\E j \in DOMAIN rest : q[i] = rest[j]) \/ Novel(w, q[i])
  <2>1. /\ DOMAIN q = 1..(Len(rest) + 1) /\ q[Len(rest) + 1] = m
        /\ \A j \in DOMAIN rest : q[j] = rest[j]
        /\ DOMAIN rest = 1..Len(rest) /\ Len(rest) \in Nat
    BY <1>4, HistoryAppend, HistoryDomain DEF LineOK
  <2>2. \A j \in 1..(Len(rest) + 1) : j = Len(rest) + 1 \/ j \in DOMAIN rest
    BY <2>1
  <2>3. QED
    BY <1>4, <2>1, <2>2
<1>5. CASE q = rest
  BY <1>5
<1>6. CASE w.out \in Asking /\ q = Append(rest, answer)
  <2>1. Present(w)
    BY <1>1, <1>6 DEF Delivers
  <2>2. QED
    BY <1>3, <1>4, <1>6, <2>1 DEF Novel
<1>7. CASE WritesRecord(w) /\ q = Append(rest, echo)
  <2>1. w.out = "action" /\ WritingFilters(w.e)
    BY <1>7 DEF WritesRecord
  <2>2. Present(w) /\ w.c.pending = None /\ call.phase = "write" /\ Desired(w) = Aim(w.e, call)
    BY <1>1, <2>1 DEF Delivers
  <2>3. QED
    BY <1>3, <1>4, <1>7, <2>2 DEF Novel
<1>8. QED
  BY <1>2, <1>5, <1>6, <1>7

(* The call and the controller stay what they are, and no more is under    *)
(* way than is right: so do the filters.                                   *)
LEMMA FiltersLanded ==
    ASSUME FInv, NEW x, NEW rest, SubLine(line, rest), Trusty(x, rest),
           Owns(x.e, call, conditions), Untouched => Achieved(x.e, call, record),
           Carries(engine, x.e),
           snapshot'.filters = x.s.filters, snapshot'.filtersAt = x.s.filtersAt,
           snapshot'.epoch = x.s.epoch, commands' = x.c, engine' = x.e,
           UNCHANGED <<conditions, call, record, touched>>,
           \A i \in DOMAIN line' :
               (\E j \in DOMAIN rest : line'[i] = rest[j]) \/ Novel(x, line'[i]),
           \/ write' = write
           \/ call.phase = "write" /\ write'.content = Aim(x.e, call),
           link' = "down" => line' = <<>>
    PROVE  FInv'
<1> DEFINE sn == snapshot'
           q == line'
           wr == write'
<1>1. call.phase = "write" => Aim(x.e, call) = Aim(engine, call) /\ Aim(x.e, call) \in FilterRecords
  BY DEF Carries, Owns, OwnsGoal
<1>2. \A i \in DOMAIN q : (\E j \in DOMAIN line : q[i] = line[j]) \/ Novel(x, q[i])
  BY DEF SubLine
<1>3. FilterTypes(sn, q, wr, call, record)
  <2>1. \A i \in DOMAIN q : q[i].content \in FilterRecords /\ (q[i].reflected => q[i].query = "filters")
    BY <1>1, <1>2 DEF FInv, FilterTypes, Novel
  <2>2. wr # None => wr.content \in FilterRecords
    BY <1>1 DEF FInv, FilterTypes
  <2>3. QED
    BY <2>1, <2>2 DEF FInv, FilterTypes, Trusty
<1>4. Unanswered(x.c, q)
  BY DEF Trusty, Unanswered, Novel
<1>5. Away(sn, x.c, x.e, q, call)
  BY DEF Trusty, Away, Novel, Present
<1>6. ASSUME Untouched
      PROVE  Pristine(sn, x.c, x.e, q, wr, call, record)
  <2>1. TrueLine(engine, line, call, record) /\ Undisturbed(line, write, call)
        /\ Written(engine, write, call, record)
    BY <1>6 DEF FInv, Pristine
  <2>2. TrueLine(x.e, q, call, record)
    BY <1>1, <1>2, <2>1 DEF TrueLine, Truthful, Novel
  <2>3. Undisturbed(q, wr, call)
    BY <1>2, <2>1 DEF Undisturbed, Novel
  <2>4. Remembered(sn, x.c, x.e, call, record)
    BY <1>6 DEF Trusty, Remembered, Recent
  <2>5. Written(x.e, wr, call, record)
    BY <1>1, <2>1 DEF Written
  <2>6. QED
    BY <1>6, <2>2, <2>3, <2>4, <2>5 DEF Pristine
<1>7. FilterOK(sn, x.c, x.e, q, call, conditions)
  BY <1>4, <1>5 DEF FilterOK
<1>8. Untouched' <=> Untouched
  BY DEF Untouched
<1>9. QED
  BY <1>3, <1>6, <1>7, <1>8 DEF FInv

-----------------------------------------------------------------------------
(* The end of a session.                                                   *)

(* suspend forgets nothing that was observed.                              *)
LEMMA SuspendedSees ==
    ASSUME NEW e, EngineOK(e)
    PROVE  LET x == Suspended(e)
           IN  /\ x.state.filters = e.state.filters /\ x.state.filtersAt = e.state.filtersAt
               /\ x.state.epoch = e.state.epoch
<1> DEFINE s == [e.state EXCEPT !.available = FALSE]
           blind == WithState(e, s)
           x == Suspended(e)
<1>1. /\ s.filters = e.state.filters /\ s.filtersAt = e.state.filtersAt
      /\ s.epoch = e.state.epoch /\ IsState(s) /\ e.state.epoch <= s.epoch
  <2> DEFINE old == e.state
             new == [old EXCEPT !.available = FALSE]
  <2>1. IsState(old)
    BY DEF EngineOK
  <2> HIDE DEF old
  <2>2. /\ new.filters = old.filters /\ new.filtersAt = old.filtersAt
        /\ new.epoch = old.epoch /\ new.sequence = old.sequence /\ new.at = old.at
        /\ new.available = FALSE
    BY <2>1 DEF IsState, HasStateFields
  <2>3. HasStateFields(new)
    BY <2>1, AvailabilityAssigned DEF IsState
  <2> HIDE DEF new
  <2>4. IsState(new) /\ old.epoch <= new.epoch
    <3>1. new.available \in BOOLEAN /\ ~new.available
      BY <2>2
    <3>2. old.epoch \in Nat /\ old.epoch <= old.epoch
      BY <2>1 DEF IsState
    <3>3. QED
      BY <2>1, <2>2, <2>3, <3>1, <3>2 DEF IsState
  <2>5. QED
    BY <2>2, <2>4 DEF new, old
<1>2. x = (IF e.inflight = 0 THEN blind ELSE Abandon(blind, "CANCELLED"))
  BY DEF Suspended, WithState
<1> HIDE DEF s
<1>3. EngineOK(blind) /\ blind.state = s /\ blind.inflight = e.inflight
  BY <1>1, StateOK, StateAssigned DEF EngineOK
<1> HIDE DEF blind, x
<1>4. x.state = s
  <2>1. CASE e.inflight = 0
    BY <1>2, <1>3, <2>1
  <2>2. CASE e.inflight # 0
    BY <1>2, <1>3, <2>2, AbandonOK
  <2>3. QED
    BY <2>1, <2>2
<1>5. QED
  BY <1>1, <1>4 DEF x

(* A success of the call's write, by a step that keeps the invariant, is   *)
(* what the controller has.                                                *)
LEMMA RealStep ==
    ASSUME RInv, FInv', UNCHANGED <<call, record, touched>>,
           Extends(engine, engine'), Carries(engine, engine')
    PROVE  ReallyDone
<1> SUFFICES ASSUME call.phase = "write", Untouched, SendsOf(engine, call.intent) # {},
                    engine'.intents[call.intent].stage = "VERIFIED"
             PROVE  record = Aim(engine, call)
  BY DEF ReallyDone, Aim
<1>1. PICK i \in DOMAIN engine.history : engine.history[i].intent = call.intent
  BY DEF SendsOf
<1>2. i \in DOMAIN engine'.history /\ engine'.history[i].intent = call.intent
  BY <1>1 DEF Extends
<1>3. Untouched'
  BY DEF Untouched
<1>4. Achieved(engine', call, record)
  BY <1>3 DEF FInv, Pristine
<1>5. record = Aim(engine', call)
  BY <1>2, <1>4 DEF Achieved
<1>6. QED
  BY <1>5 DEF Carries

(* A filter write with the call's aim gives the other cycle back.          *)
LEMMA CycleStep ==
    ASSUME FInv, WritesAim(engine, engine')
    PROVE  CycleKept
<1> SUFFICES ASSUME Transmits, Transmitted.control = "filters", Untouched
             PROVE  Transmitted.desired[3 - call.index] = record[3 - call.index]
  BY DEF CycleKept
<1>1. call.phase = "write" /\ Transmitted.desired = Aim(engine, call)
  BY DEF WritesAim, Transmits, Transmitted
<1>2. record[3 - call.index] = Aim(engine, call)[3 - call.index]
  BY <1>1 DEF FInv, Pristine, Written
<1>3. QED
  BY <1>1, <1>2

(* A session that ends takes nothing that is known of the filters along.   *)
LEMMA AbortedFilters ==
    ASSUME RInv, FInv, NEW w, Met(w), NEW q, SubLine(line, q), Trusty(w, q),
           Owns(w.e, call, conditions), Untouched => Achieved(w.e, call, record),
           Continues(engine, w.e), Judges(engine, w.e, w.e.state), Aborted(w),
           UNCHANGED <<conditions, call, record, touched>>
    PROVE  FInv' /\ Effects
<1> DEFINE y == [w.s EXCEPT !.synced = FALSE]
           f == Suspended(w.e)
           x == [w EXCEPT !.s = y, !.e = f]
<1>1. /\ snapshot' = y /\ link' = "down" /\ commands' = w.c /\ engine' = f
      /\ line' = <<>> /\ write' = write
  BY DEF Aborted
<1>2. /\ SnapshotOK(w.s) /\ EngineOK(w.e) /\ EngineOK(engine) /\ CallOK(call, engine, now)
      /\ CallOK(call, w.e, now)
  BY DEF Met, RInv, Sound
<1>3. /\ EngineOK(f) /\ Subdued(w.e, f) /\ NoSuccess(w.e, f) /\ Continues(w.e, f)
      /\ f.state.filters = w.e.state.filters /\ f.state.filtersAt = w.e.state.filtersAt
      /\ f.state.epoch = w.e.state.epoch
  BY <1>2, SuspendedContinues, SuspendedSees DEF Subdued
<1>4. y.epoch = w.s.epoch /\ y.filters = w.s.filters /\ y.filtersAt = w.s.filtersAt
  BY <1>2 DEF SnapshotOK, HasSnapshotFields
<1> HIDE DEF y, f
<1>5. x.s = y /\ x.c = w.c /\ x.e = f
  BY DEF Met, WorldFields
<1> HIDE DEF x
<1>6. /\ Owns(f, call, conditions)
      /\ call.phase = "write" =>
            /\ Aim(f, call) = Aim(w.e, call)
            /\ Open(f, call.intent) => Open(w.e, call.intent)
  BY <1>2, <1>3, OwnsContinues
<1>7. /\ Carries(engine, w.e) /\ Owns(engine, call, conditions)
  <2>1. Owns(engine, call, conditions)
    BY DEF FInv, FilterOK
  <2>2. QED
    BY <1>2, <2>1, OwnsContinues DEF Carries
<1>8. Carries(engine, f)
  BY <1>6, <1>7 DEF Carries
<1>9. DOMAIN <<>> = {} /\ SubLine(line, <<>>) /\ SubLine(q, <<>>)
  BY DEF SubLine
<1>10. Trusty(x, <<>>)
  BY <1>4, <1>5, <1>6, <1>9, TrustyAgain
<1>11. ASSUME Untouched
       PROVE  Achieved(f, call, record)
  <2> SUFFICES ASSUME call.phase = "write", NEW i \in DOMAIN f.history,
                      f.history[i].intent = call.intent,
                      Decided(f.history[i]) \/ f.intents[call.intent].stage = "VERIFIED"
               PROVE  record = Aim(f, call)
    BY DEF Achieved
  <2>1. i \in DOMAIN w.e.history /\ w.e.history[i].intent = call.intent
    BY <1>3 DEF Continues, SameActions, SameAction
  <2>2. Decided(w.e.history[i]) \/ w.e.intents[call.intent].stage = "VERIFIED"
    BY <1>2, <1>3, <2>1 DEF Subdued, Unjudged, Decided, NoSuccess, CallOK
  <2>3. record = Aim(w.e, call)
    BY <1>11, <2>1, <2>2 DEF Achieved
  <2>4. QED
    BY <1>6, <2>3
<1>12. FInv'
  <2>1. \A i \in DOMAIN line' : (\E j \in DOMAIN <<>> : line'[i] = <<>>[j]) \/ Novel(x, line'[i])
    BY <1>1, <1>9
  <2> DEFINE rest == <<>>
  <2>2. /\ SubLine(line, rest) /\ Trusty(x, rest) /\ Owns(x.e, call, conditions)
        /\ Untouched => Achieved(x.e, call, record)
        /\ Carries(engine, x.e) /\ snapshot'.filters = x.s.filters
        /\ snapshot'.filtersAt = x.s.filtersAt /\ snapshot'.epoch = x.s.epoch
        /\ commands' = x.c /\ engine' = x.e /\ write' = write
        /\ (link' = "down" => line' = <<>>)
        /\ \A i \in DOMAIN line' : (\E j \in DOMAIN rest : line'[i] = rest[j]) \/ Novel(x, line'[i])
    BY <1>1, <1>4, <1>5, <1>6, <1>8, <1>9, <1>10, <1>11, <2>1
  <2> HIDE DEF rest
  <2>3. QED
    BY <2>2, FiltersLanded
<1>13. Continues(engine, f)
  BY <1>2, <1>3, ContinuesTransitive
<1>14. CycleKept
  <2>1. Len(f.history) = Len(engine.history) /\ Len(engine.history) \in Nat
    BY <1>2, <1>3, <1>13, SameLength, HistoryDomain DEF Continues, EngineOK, HistoryOK
  <2>2. QED
    BY <1>1, <2>1 DEF CycleKept, Transmits
<1>15. ReallyDone
  <2>1. Extends(engine, f)
    BY <1>2, <1>13, DecisionStands DEF Continues, SameActions, SameAction, Extends
  <2>2. QED
    BY <1>1, <1>8, <1>12, <2>1, RealStep
<1>16. Judges(engine, f, f.state)
  <2>1. Judges(w.e, f, w.e.state)
    BY <1>2, <1>3, QuietJudges
  <2>2. \A i \in DOMAIN w.e.history : Decided(w.e.history[i]) => Decided(f.history[i])
    BY <1>2, <1>3, DecisionStands DEF Continues
  <2>3. Judges(engine, f, w.e.state)
    BY <1>2, <2>1, <2>2, JudgesTransitive
  <2>4. QED
    BY <1>3, <2>3, JudgesBySame
<1>17. QED
  BY <1>1, <1>12, <1>14, <1>15, <1>16 DEF Effects

(* A lost connection takes nothing that is known of the filters along.     *)
LEMMA DisconnectFilters ==
    ASSUME RInv, FInv, Disconnect
    PROVE  FInv' /\ Effects
<1> DEFINE w == World
<1>1. /\ DOMAIN w = WorldFields /\ w.s = snapshot /\ w.c = commands /\ w.e = engine
      /\ w.ready = ready
  BY DEF World, WorldFields
<1> HIDE DEF w
<1>2. Met(w)
  BY <1>1 DEF Met, RInv, SightOK
<1>3. EngineOK(engine) /\ Continues(engine, engine) /\ NoSuccess(engine, engine)
  BY ContinuesReflexive DEF RInv, Sound, Subdued
<1>4. Judges(engine, engine, engine.state)
  BY <1>3, SilentJudges
<1>5. Aborted(w) /\ UNCHANGED <<conditions, call, record, touched>>
  BY <1>1 DEF Disconnect, Aborted
<1>6. SubLine(line, line)
  BY DEF SubLine
<1>7. Trusty(w, line)
  BY <1>1 DEF FInv, FilterTypes, FilterOK, Pristine, Trusty
<1>8. Owns(w.e, call, conditions) /\ (Untouched => Achieved(w.e, call, record))
  BY <1>1 DEF FInv, FilterOK, Pristine
<1>9. QED
  BY <1>1, <1>2, <1>3, <1>4, <1>5, <1>6, <1>7, <1>8, AbortedFilters

-----------------------------------------------------------------------------
(* An iteration.                                                           *)

(* The loop goes on with what it made of what it received.                 *)
LEMMA ContinuedFilters ==
    ASSUME RInv, FInv, NEW w, Met(w), NEW rest, SubLine(line, rest), LineOK(rest),
           Continues(engine, w.e), Judges(engine, w.e, w.s), Judges(engine, w.e, w.e.state),
           NEW x, Provides(w, x, rest), x = w \/ x.e.state = StateOf(x.s, TRUE),
           Continued(x, rest), UNCHANGED <<conditions, call, record, touched>>
    PROVE  FInv' /\ Effects
<1>1. /\ snapshot' = x.s /\ link' = "up" /\ commands' = x.c /\ engine' = x.e
      /\ line' \in Carried(x, rest)
      /\ write' = IF WritesRecord(x) THEN [content |-> Desired(x), at |-> now] ELSE write
  BY DEF Continued
<1>2. EngineOK(engine) /\ EngineOK(w.e) /\ CallOK(call, engine, now) /\ CallOK(call, w.e, now)
  BY DEF RInv, Sound, Met
<1>3. Carries(engine, w.e)
  <2>1. Owns(engine, call, conditions)
    BY DEF FInv, FilterOK
  <2>2. QED
    BY <1>2, <2>1, OwnsContinues DEF Carries
<1>4. /\ Faithful(x, rest) /\ Delivers(x, rest) /\ x.s = w.s /\ Carries(w.e, x.e)
      /\ Judges(w.e, x.e, w.s) /\ Extends(w.e, x.e) /\ WritesAim(w.e, x.e)
  BY DEF Provides
<1>5. Carries(engine, x.e)
  BY <1>3, <1>4 DEF Carries
<1>6. \A i \in DOMAIN line' : (\E j \in DOMAIN rest : line'[i] = rest[j]) \/ Novel(x, line'[i])
  BY <1>1, <1>4, CarriedLine
<1>7. write' = write \/ (call.phase = "write" /\ write'.content = Aim(x.e, call))
  <2>1. CASE ~WritesRecord(x)
    BY <1>1, <2>1
  <2>2. CASE WritesRecord(x)
    <3>1. x.out = "action" /\ WritingFilters(x.e)
      BY <2>2 DEF WritesRecord
    <3>2. "action" \notin Asking /\ None # "action"
      BY NoneIsApart DEF Asking
    <3>3. call.phase = "write" /\ Desired(x) = Aim(x.e, call)
      BY <1>4, <3>1, <3>2 DEF Delivers
    <3>4. QED
      BY <1>1, <2>2, <3>3
  <2>3. QED
    BY <2>1, <2>2
<1>8. FInv'
  <2>1. Trusty(x, rest) /\ Owns(x.e, call, conditions)
        /\ (Untouched => Achieved(x.e, call, record))
    BY <1>4 DEF Faithful
  <2>2. link' # "down"
    BY <1>1
  <2>3. QED
    BY <1>1, <1>5, <1>6, <1>7, <2>1, <2>2, FiltersLanded
<1>9. Extends(engine, x.e)
  BY <1>2, <1>4, DecisionStands DEF Continues, SameActions, SameAction, Extends
<1>10. WritesAim(engine, x.e)
  <2>1. Len(w.e.history) = Len(engine.history)
    BY <1>2, SameLength DEF Continues, EngineOK, HistoryOK
  <2>2. QED
    BY <1>3, <1>4, <2>1 DEF WritesAim, Carries
<1>11. Judges(engine, x.e, x.e.state)
  <2>1. CASE x = w
    BY <2>1
  <2>2. CASE x.e.state = StateOf(x.s, TRUE)
    <3>1. Judges(engine, x.e, w.s)
      BY <1>2, <1>4, JudgesTransitive DEF Extends
    <3>2. /\ x.e.state.filters = w.s.filters /\ x.e.state.filtersAt = w.s.filtersAt
          /\ x.e.state.epoch = w.s.epoch
      BY <1>4, <2>2 DEF StateOf
    <3>3. QED
      BY <3>1, <3>2, JudgesBySame
  <2>3. QED
    BY <2>1, <2>2
<1>12. ReallyDone
  BY <1>1, <1>5, <1>8, <1>9, RealStep
<1>13. CycleKept
  BY <1>1, <1>10, CycleStep
<1>14. QED
  BY <1>1, <1>8, <1>11, <1>12, <1>13 DEF Effects

(* One iteration of the loop, whatever it reads.                           *)
LEMMA IterationFilters ==
    ASSUME RInv, FInv, Iteration
    PROVE  FInv' /\ Effects
<1>1. PICK read \in Reads :
         \E available \in Health(read.s.synced), slot \in Slots(read.line, read.s.synced) :
            Iterate(read, available, slot)
  BY DEF Iteration
<1>2. PICK available \in Health(read.s.synced), slot \in Slots(read.line, read.s.synced) :
         Iterate(read, available, slot)
  BY <1>1
<1> DEFINE a == [World EXCEPT !.s = read.s, !.ready = available]
           b == Heard(a, read.message)
           w == Updated(b)
           rest == read.line
           x == IF w.ready THEN Prepares(Guarding(w), slot) ELSE w
<1>3. Iterated(w, rest, slot) /\ UNCHANGED <<conditions, call, record, touched>>
  BY <1>2 DEF Iterate
<1>4. /\ SnapshotOK(read.s) /\ read.s.epoch = snapshot.epoch
      /\ read.s.filtersAt = snapshot.filtersAt
      /\ read.s.at <= now /\ ~Outdated(engine, read.s)
      /\ LineOK(rest)
      /\ read.message = None \/ read.message.query \in Asking
  BY ReadsWellFormed
<1>5. /\ read.s.filters = snapshot.filters /\ SubLine(line, rest)
      /\ read.message = None \/ \E j \in DOMAIN line : read.message = line[j]
  BY ReadsFilters
<1>6. available \in BOOLEAN /\ (available => read.s.synced)
  BY <1>2, EngineInputs DEF Health
<1>7. slot => \A i \in DOMAIN rest : ~rest[i].reflected
  BY <1>2 DEF Slots
<1>8. QueryAttempts \in Nat \ {0}
  BY RuntimeParameters
<1>9. /\ DOMAIN a = WorldFields /\ a.s = read.s /\ a.c = commands /\ a.e = engine
      /\ a.ready = available /\ a.out = None
  BY DEF World, WorldFields
<1> HIDE DEF a, rest
<1>10. Met(a)
  <2>1. Sound(read.s, commands, engine, call, conditions, now)
    <3>1. ReadOK(read.s, commands, call)
      BY <1>4 DEF RInv, Sound, ReadOK
    <3>2. QED
      BY <1>4, <3>1 DEF RInv, Sound
  <2>2. read.s.filtersAt \in 0..now
    BY <1>4 DEF RInv, SightOK
  <2>3. QED
    BY <1>4, <1>6, <1>9, <2>1, <2>2 DEF Met
<1>11. /\ Trusty(a, line) /\ Owns(a.e, call, conditions)
       /\ Untouched => /\ Achieved(a.e, call, record) /\ TrueLine(a.e, line, call, record)
                       /\ Undisturbed(line, write, call)
       /\ \A j \in DOMAIN line : line[j].content \in FilterRecords
  <2>1. Away(a.s, a.c, a.e, line, call)
    BY <1>4, <1>5, <1>9 DEF FInv, FilterOK, Away
  <2>2. Untouched => Remembered(a.s, a.c, a.e, call, record)
    BY <1>4, <1>5, <1>9 DEF FInv, Pristine, Remembered, Recent
  <2>3. QED
    BY <1>5, <1>9, <2>1, <2>2 DEF FInv, FilterTypes, FilterOK, Pristine, Trusty
<1>12. Met(b) /\ SameWorld(a, b) /\ b.e = a.e /\ Trusty(b, rest)
  <2>1. CASE read.message = None
    <3>1. b = a
      BY <2>1 DEF Heard
    <3>2. QED
      BY <1>5, <1>10, <1>11, <3>1, TrustyAgain DEF SameWorld, SameStatus
  <2>2. CASE read.message # None
    <3>1. b = Received(a, read.message)
      BY <2>2 DEF Heard
    <3>2. PICK j \in DOMAIN line : read.message = line[j]
      BY <1>5, <2>2
    <3>3. Trusty(Received(a, line[j]), rest)
      BY <1>4, <1>5, <1>10, <1>11, <2>2, <3>2, ReceivedTrusty
    <3>4. QED
      BY <1>4, <1>8, <1>10, <2>2, <3>1, <3>2, <3>3, ReceivedOK
  <2>3. QED
    BY <2>1, <2>2
<1> HIDE DEF b
<1>13. /\ Met(w) /\ SameWorld(b, w) /\ Continues(engine, w.e)
       /\ w.ready => w.e.state = StateOf(w.s, TRUE)
  BY <1>8, <1>9, <1>12, UpdatedOK
<1>14. /\ Trusty(w, rest) /\ w.c.epoch = w.s.epoch /\ Owns(w.e, call, conditions)
       /\ Judges(engine, w.e, w.s) /\ Judges(engine, w.e, w.e.state)
       /\ Untouched => Achieved(w.e, call, record)
  <2>1. Owns(b.e, call, conditions) /\ (Untouched => Achieved(b.e, call, record))
    BY <1>11, <1>12
  <2>2. QED
    BY <1>9, <1>12, <2>1, UpdatedTrusty
<1>15. w.out = None
  BY <1>9, <1>12, <1>13 DEF SameWorld
<1> HIDE DEF w
<1>16. CASE w.e.resync = w.s.epoch
  <2>1. Aborted(w)
    BY <1>3, <1>16 DEF Iterated
  <2>2. QED
    BY <1>3, <1>5, <1>13, <1>14, <2>1, AbortedFilters
<1>17. CASE w.e.resync # w.s.epoch
  <2>1. Continued(x, rest)
    BY <1>3, <1>17 DEF Iterated
  <2>2. Faithful(w, rest)
    BY <1>14 DEF Faithful
  <2>3. Provides(w, x, rest)
    BY <1>7, <1>13, <1>15, <2>2, ServedProvides
  <2>4. x = w \/ x.e.state = StateOf(x.s, TRUE)
    <3>1. CASE ~w.ready
      BY <3>1
    <3>2. CASE w.ready
      <4> DEFINE g == Guarding(w)
      <4>1. Met(g) /\ Honoured(g) /\ g.e.state = w.e.state /\ g.s = w.s
        BY <1>13, GuardingOK
      <4>2. x = Prepares(g, slot)
        BY <3>2
      <4> HIDE DEF g, x
      <4>3. x.e.state = g.e.state /\ x.s = g.s
        BY <1>8, <4>1, <4>2, PreparesOK DEF Served
      <4>4. QED
        BY <1>13, <3>2, <4>1, <4>3
    <3>3. QED
      BY <3>1, <3>2
  <2> HIDE DEF x
  <2>5. QED
    BY <1>3, <1>4, <1>5, <1>13, <1>14, <2>1, <2>3, <2>4, ContinuedFilters DEF rest
<1>18. QED
  BY <1>16, <1>17

-----------------------------------------------------------------------------
(* The other steps.                                                        *)

(* What touches neither the filters nor the engine is harmless.            *)
LEMMA FiltersAside ==
    ASSUME RInv, FInv,
           UNCHANGED <<snapshot, engine, link, commands, conditions, call, record, line, write, touched>>
    PROVE  FInv' /\ Effects
<1>1. NoSuccess(engine, engine') /\ Len(engine'.history) = Len(engine.history)
  BY DEF NoSuccess
<1>2. Effects
  BY <1>1, QuietEffects
<1>3. Untouched' <=> Untouched
  BY DEF Untouched
<1>4. FInv'
  BY <1>3 DEF FInv
<1>5. QED
  BY <1>2, <1>4

(* A write that lands is the call's, and what it was read for is over.     *)
LEMMA CommitFilters ==
    ASSUME RInv, FInv, Commit
    PROVE  FInv' /\ Effects
<1>1. /\ write # None /\ write' = None /\ record' \in {write.content, record}
      /\ snapshot' = snapshot /\ engine' = engine /\ link' = link /\ commands' = commands
      /\ conditions' = conditions /\ call' = call /\ line' = line /\ touched' = touched
  BY DEF Commit, connectionVars
<1>2. Effects
  <2>1. NoSuccess(engine, engine') /\ Len(engine'.history) = Len(engine.history)
    BY <1>1 DEF NoSuccess
  <2>2. QED
    BY <1>1, <2>1, QuietEffects
<1>3. Untouched' <=> Untouched
  BY <1>1 DEF Untouched
<1>4. FilterTypes(snapshot, line, None, call, record')
  BY <1>1 DEF FInv, FilterTypes
<1>5. ASSUME Untouched
      PROVE  Pristine(snapshot, commands, engine, line, None, call, record')
  <2>1. Pristine(snapshot, commands, engine, line, write, call, record)
    BY <1>5 DEF FInv
  <2>2. CASE record' = record
    BY <2>1, <2>2 DEF Pristine, Undisturbed, Written
  <2>3. CASE call.phase = "write" /\ record' = write.content
    <3>1. record' = Aim(engine, call)
      BY <1>1, <2>1, <2>3 DEF Pristine, Written
    <3>2. QED
      BY <2>3, <3>1 DEF Pristine, TrueLine, Truthful, Undisturbed, Remembered, Written, Achieved
  <2>4. call.phase # "read"
    BY <1>1, <2>1 DEF Pristine, Undisturbed
  <2>5. CASE call.phase # "write"
    BY <2>4, <2>5
    DEF Pristine, TrueLine, Truthful, Undisturbed, Remembered, Recent, Written, Achieved
  <2>6. QED
    BY <1>1, <2>2, <2>3, <2>5
<1>6. FInv'
  BY <1>1, <1>3, <1>4, <1>5 DEF FInv
<1>7. QED
  BY <1>2, <1>6

(* The panel leaves nothing to rest on.                                    *)
LEMMA PanelFilters ==
    ASSUME RInv, FInv, Panel
    PROVE  FInv' /\ Effects
<1>1. /\ touched < now /\ touched' = now /\ record' \in FilterRecords
      /\ snapshot' = snapshot /\ engine' = engine /\ link' = link /\ commands' = commands
      /\ conditions' = conditions /\ call' = call /\ line' = line /\ write' = write
  BY DEF Panel, connectionVars
<1>2. Effects
  <2>1. NoSuccess(engine, engine') /\ Len(engine'.history) = Len(engine.history)
    BY <1>1 DEF NoSuccess
  <2>2. QED
    BY <1>1, <2>1, QuietEffects
<1>3. touched \in Nat /\ call.touched \in 0..touched /\ now \in Nat
  BY DEF FInv, RInv, Sound
<1>4. ~Untouched' /\ touched' \in Nat /\ call'.touched \in 0..touched'
  BY <1>1, <1>3 DEF Untouched
<1>5. FInv'
  BY <1>1, <1>4 DEF FInv, FilterTypes
<1>6. QED
  BY <1>2, <1>5

(* A new session has nothing under way, and nothing was read in it.        *)
LEMMA ConnectFilters ==
    ASSUME RInv, FInv, Connect
    PROVE  FInv' /\ Effects
<1> DEFINE y == [snapshot EXCEPT !.epoch = @ + 1]
<1>1. /\ link = "down" /\ link' = "up" /\ snapshot' = y /\ engine' = engine
      /\ commands' = commands /\ conditions' = conditions /\ call' = call
      /\ record' = record /\ line' = line /\ write' = write /\ touched' = touched
  BY DEF Connect, spaVars
<1>2. Effects
  <2>1. NoSuccess(engine, engine') /\ Len(engine'.history) = Len(engine.history)
    BY <1>1 DEF NoSuccess
  <2>2. QED
    BY <1>1, <2>1, QuietEffects
<1>3. y.epoch = snapshot.epoch + 1 /\ y.filters = snapshot.filters
      /\ y.filtersAt = snapshot.filtersAt /\ snapshot.epoch \in Nat
      /\ commands.epoch \in 0..snapshot.epoch
  BY DEF RInv, Sound, SnapshotOK, HasSnapshotFields
<1> HIDE DEF y
<1>4. line = <<>> /\ DOMAIN <<>> = {}
  BY <1>1 DEF FInv
<1>5. Away(y, commands, engine, line, call)
  BY <1>3, <1>4 DEF Away
<1>6. Untouched' <=> Untouched
  BY <1>1 DEF Untouched
<1>7. Remembered(y, commands, engine, call, record)
      <=> Remembered(snapshot, commands, engine, call, record)
  BY <1>3 DEF Remembered, Recent
<1>8. FInv'
  BY <1>1, <1>3, <1>5, <1>6, <1>7 DEF FInv, FilterTypes, FilterOK, Pristine
<1>9. QED
  BY <1>2, <1>8

-----------------------------------------------------------------------------
(* The requests.                                                           *)

(* A request decides and reports nothing, and adds a goal with a condition.*)
Adds(c, desired, condition) ==
    LET n == engine.counter + 1
    IN  /\ engine.counter \in Nat /\ engine'.counter = n /\ \A id \in 1..engine.counter : id # n
        /\ engine'.intents[n].control = c /\ engine'.intents[n].desired = desired
        /\ \A id \in 1..engine.counter :
              /\ engine'.intents[id].control = engine.intents[id].control
              /\ engine'.intents[id].desired = engine.intents[id].desired
              /\ Open(engine', id) => Open(engine, id)
              /\ conditions'[id] = conditions[id]
        /\ conditions'[n] = condition
        /\ \A i \in DOMAIN engine'.history :
              /\ i \in DOMAIN engine.history /\ engine.history[i].intent \in 1..engine.counter
              /\ SameAction(engine.history[i], engine'.history[i])
              /\ Decided(engine'.history[i]) => Decided(engine.history[i])
        /\ NoSuccess(engine, engine')
        /\ commands'.epoch = commands.epoch /\ commands'.pending = commands.pending
        /\ commands'.success = commands.success

(* An admitted request adds its goal with its condition, and nothing else  *)
(* that the filters rest on.                                               *)
LEMMA AsksAdds ==
    ASSUME RInv, NEW c \in Controls, NEW desired, NEW condition \in Condition, NEW replace,
           Asks(c, desired, condition, replace)
    PROVE  Adds(c, desired, condition) /\ Effects
<1> DEFINE due == Ticked(engine, now)
           x == Admitted(due, c, desired, 0, 0, replace)
           n == engine.counter + 1
<1>1. /\ EngineOK(engine) /\ now \in Nat /\ QueryOK(commands, now)
      /\ GuardsOK(commands, engine, conditions) /\ ConditionsOK(engine, conditions)
  BY DEF RInv, Sound
<1>2. /\ engine' = x /\ conditions' = Append(conditions, condition)
      /\ commands' = [commands EXCEPT !.guards[c] = GuardOf(@, n, condition)]
  BY DEF Asks
<1>3. EngineOK(due) /\ Subdued(engine, due) /\ NoSuccess(engine, due)
  BY <1>1, TickedContinues
<1>4. due.counter = engine.counter
  BY <1>3 DEF Subdued, Continues, SameRequests
<1> HIDE DEF due, x
<1>5. EngineOK(x) /\ Admits(due, x, c) /\ x.intents[n].desired = desired /\ x.counter = n
  <2>1. EngineOK(x) /\ Admits(due, x, c) /\ x.intents[x.counter].desired = desired
    BY <1>1, <1>3, AdmittedOK DEF x
  <2>2. x.counter = n
    BY <1>4, <2>1 DEF Admits
  <2>3. QED
    BY <2>1, <2>2
<1>6. engine.counter \in Nat /\ n # 0 /\ (\A id \in 1..engine.counter : id # n)
  BY <1>1 DEF EngineOK, GoalsOK
<1>7. x.intents[n].control = c
  <2>1. x.latest[c] = n
    BY <1>3, <1>4, <1>5 DEF Admits, EngineOK, GoalsOK
  <2>2. QED
    BY <1>5, <1>6, <2>1 DEF EngineOK, GoalsOK
<1>8. ASSUME NEW id \in 1..engine.counter
      PROVE  /\ x.intents[id].control = engine.intents[id].control
             /\ x.intents[id].desired = engine.intents[id].desired
             /\ Open(x, id) => Open(engine, id)
             /\ x.intents[id].stage = "VERIFIED" => engine.intents[id].stage = "VERIFIED"
  BY <1>3, <1>4, <1>5
  DEF Subdued, Continues, SameRequests, GoalsFinal, NoSuccess, Admits, Open
<1>9. ASSUME NEW i \in DOMAIN x.history
      PROVE  /\ i \in DOMAIN engine.history /\ engine.history[i].intent \in 1..engine.counter
             /\ SameAction(engine.history[i], x.history[i])
             /\ Decided(x.history[i]) => Decided(engine.history[i])
  <2>1. x.history = due.history
    BY <1>5 DEF Admits, Kept
  <2>2. i \in DOMAIN engine.history
    BY <1>3, <2>1 DEF Subdued, Continues, SameActions
  <2>3. SameAction(engine.history[i], x.history[i])
        /\ (Decided(x.history[i]) => Decided(engine.history[i]))
    BY <1>3, <2>1, <2>2 DEF Subdued, Continues, SameActions, Unjudged, Decided
  <2>4. QED
    BY <1>1, <2>2, <2>3 DEF EngineOK, HistoryOK, TransactionOK
<1>10. /\ conditions'[n] = condition
       /\ \A id \in 1..engine.counter : conditions'[id] = conditions[id]
  <2>1. conditions \in Seq(Condition) /\ Len(conditions) = engine.counter
    BY <1>1 DEF ConditionsOK
  <2>2. QED
    BY <1>2, <2>1, AppendProperties
<1>11. /\ commands'.epoch = commands.epoch /\ commands'.pending = commands.pending
       /\ commands'.success = commands.success
  <2>1. DOMAIN commands = CommandFields
        /\ commands.guards = [d \in Controls |-> commands.guards[d]]
    BY <1>1 DEF QueryOK, GuardsOK
  <2> HIDE DEF n
  <2>2. QED
    BY <1>2, <2>1, GuardWritten
<1>12. Adds(c, desired, condition)
  BY <1>2, <1>5, <1>6, <1>7, <1>8, <1>9, <1>10, <1>11 DEF Adds, NoSuccess
<1>13. Effects
  <2>1. Len(x.history) = Len(engine.history)
    <3>1. DOMAIN due.history = DOMAIN engine.history /\ x.history = due.history
      BY <1>3, <1>5 DEF Subdued, Continues, SameActions, Admits, Kept
    <3>2. QED
      BY <1>1, <1>3, <3>1, SameLength DEF Subdued, Continues, EngineOK, HistoryOK
  <2>2. DOMAIN x.history = DOMAIN engine.history
    BY <1>3, <1>5 DEF Subdued, Continues, SameActions, Admits, Kept
  <2>3. NoSuccess(engine, engine')
        /\ \A i \in DOMAIN engine.history : Decided(engine'.history[i]) => Decided(engine.history[i])
    BY <1>2, <1>8, <1>9, <2>2 DEF NoSuccess
  <2>4. QED
    BY <1>2, <2>1, <2>3, QuietEffects
<1>14. QED
  BY <1>12, <1>13

(* A request for another control leaves the filters alone.                 *)
LEMMA RequestFilters ==
    ASSUME RInv, FInv, NEW goal \in Goals, NEW caller \in BOOLEAN, NEW replace \in BOOLEAN,
           RequestControl(goal[1], goal[2], caller, replace)
    PROVE  FInv' /\ Effects
<1> DEFINE c == goal[1]
           condition == ConditionOf(c, caller)
<1>1. c \in Controls /\ c # "filters"
  BY EngineInputs, FilterParameters
<1>2. condition \in Condition
  BY DEF ConditionOf, Condition, RInv, Sound, SnapshotOK
<1>3. /\ Asks(c, goal[2], condition, replace)
      /\ call' = call /\ snapshot' = snapshot /\ link' = link
      /\ record' = record /\ line' = line /\ write' = write /\ touched' = touched
  BY DEF RequestControl, connectionVars, spaVars
<1> HIDE DEF c, condition
<1>4. Adds(c, goal[2], condition) /\ Effects
  BY <1>1, <1>2, <1>3, AsksAdds
<1>5. call.phase = "write" => call.intent \in 1..engine.counter
  BY DEF RInv, Sound, CallOK
<1>6. call.phase = "write" => Aim(engine', call) = Aim(engine, call)
                              /\ (Open(engine', call.intent) => Open(engine, call.intent))
  BY <1>4, <1>5 DEF Aim, Adds
<1>7. Owns(engine', call, conditions')
  <2>1. Owns(engine, call, conditions)
    BY DEF FInv, FilterOK
  <2>2. ASSUME NEW id \in 1..engine'.counter, engine'.intents[id].control = "filters",
               Open(engine', id)
        PROVE  call.phase = "write" /\ id = call.intent
    <3>1. id \in 1..engine.counter \/ id = engine.counter + 1
      BY <1>4 DEF Adds
    <3>2. id \in 1..engine.counter
      BY <1>1, <1>4, <2>2, <3>1 DEF Adds
    <3>3. QED
      BY <1>4, <2>1, <2>2, <3>2 DEF Adds, Owns
  <2>3. ASSUME call.phase = "write"
        PROVE  OwnsGoal(engine', call, conditions')
               /\ \A i \in DOMAIN engine'.history : OwnSend(engine', call, i)
    <3>1. OwnsGoal(engine, call, conditions) /\ \A i \in DOMAIN engine.history : OwnSend(engine, call, i)
      BY <2>1, <2>3 DEF Owns
    <3>2. OwnsGoal(engine', call, conditions')
      BY <1>4, <1>5, <1>6, <2>3, <3>1 DEF OwnsGoal, Adds
    <3>3. QED
      BY <1>4, <1>6, <2>3, <3>1, <3>2 DEF OwnSend, Adds, SameAction
  <2>4. QED
    BY <2>2, <2>3 DEF Owns
<1>8. /\ commands'.epoch = commands.epoch /\ commands'.pending = commands.pending
      /\ commands'.success = commands.success
  BY <1>4 DEF Adds
<1>9. Unanswered(commands', line) /\ Away(snapshot, commands', engine', line, call)
  BY <1>6, <1>8 DEF FInv, FilterOK, Unanswered, Away
<1>10. ASSUME Untouched
       PROVE  Pristine(snapshot, commands', engine', line, write, call, record)
  <2>1. Pristine(snapshot, commands, engine, line, write, call, record)
    BY <1>10 DEF FInv
  <2>2. TrueLine(engine', line, call, record)
        /\ Remembered(snapshot, commands', engine', call, record)
    BY <1>6, <1>8, <2>1 DEF Pristine, TrueLine, Truthful, Remembered, Recent
  <2>3. Written(engine', write, call, record)
    BY <1>6, <2>1 DEF Pristine, Written
  <2>4. Achieved(engine', call, record)
    <3> SUFFICES ASSUME call.phase = "write", NEW i \in DOMAIN engine'.history,
                        engine'.history[i].intent = call.intent,
                        Decided(engine'.history[i]) \/ engine'.intents[call.intent].stage = "VERIFIED"
                 PROVE  record = Aim(engine', call)
      BY DEF Achieved
    <3>1. i \in DOMAIN engine.history /\ engine.history[i].intent = call.intent
      BY <1>4 DEF Adds, SameAction
    <3>2. Decided(engine.history[i]) \/ engine.intents[call.intent].stage = "VERIFIED"
      BY <1>4, <1>5, <3>1 DEF Adds, NoSuccess
    <3>3. QED
      BY <1>6, <2>1, <3>1, <3>2 DEF Pristine, Achieved
  <2>5. QED
    BY <2>1, <2>2, <2>3, <2>4 DEF Pristine
<1>11. Untouched' <=> Untouched
  BY <1>3 DEF Untouched
<1>12. FInv'
  BY <1>3, <1>7, <1>9, <1>10, <1>11 DEF FInv, FilterOK
<1>13. QED
  BY <1>4, <1>12

-----------------------------------------------------------------------------
(* The call.                                                               *)

(* A call that has asked for nothing rests on nothing.                     *)
LEMMA CallFilters ==
    ASSUME RInv, FInv, NEW k, CallStep(k), k.phase \in {"idle", "settle", "read"},
           k.phase # "idle" => k.index \in {1, 2} /\ k.cycle \in Cycles,
           k.touched \in 0..touched, EngineOK(engine'), Subdued(engine, engine'),
           NoSuccess(engine, engine'),
           \A id \in 1..engine'.counter :
               engine'.intents[id].control = "filters" => ~Open(engine', id),
           commands'.pending = commands.pending, conditions' = conditions,
           k.phase = "read" /\ touched = k.touched /\ ~k.late
               => write = None /\ ~AnswerUnderWay /\ ~commands'.success
    PROVE  FInv' /\ Effects
<1>1. /\ call' = k /\ snapshot' = snapshot /\ link' = link /\ record' = record
      /\ line' = line /\ write' = write /\ touched' = touched
  BY DEF CallStep, connectionVars, spaVars
<1>2. Effects
  <2>1. /\ Len(engine'.history) = Len(engine.history)
        /\ \A i \in DOMAIN engine.history : Decided(engine'.history[i]) => Decided(engine.history[i])
    BY SameLength DEF RInv, Sound, EngineOK, HistoryOK, Subdued, Continues, Unjudged, Decided
  <2>2. QED
    BY <2>1, QuietEffects
<1>3. FilterTypes(snapshot, line, write, k, record)
  BY DEF FInv, FilterTypes
<1>4. FilterOK(snapshot, commands', engine', line, k, conditions')
  BY DEF FInv, FilterOK, Unanswered, Owns, Away
<1>5. ASSUME touched = k.touched, ~k.late
      PROVE  Pristine(snapshot, commands', engine', line, write, k, record)
  <2>1. CASE k.phase = "read"
    <3>1. \A i \in DOMAIN line : line[i].query # "filters" /\ ~line[i].reflected
      BY <1>5, <2>1 DEF AnswerUnderWay, FInv, FilterTypes
    <3>2. QED
      BY <1>5, <2>1, <3>1
      DEF Pristine, TrueLine, Undisturbed, Remembered, Recent, Written, Achieved
  <2>2. CASE k.phase # "read"
    BY <2>2
    DEF Pristine, TrueLine, Truthful, Undisturbed, Remembered, Recent, Written, Achieved
  <2>3. QED
    BY <2>1, <2>2
<1>6. FInv'
  BY <1>1, <1>3, <1>4, <1>5 DEF FInv, Untouched
<1>7. QED
  BY <1>2, <1>6

(* A call that ends leaves no request for the filters behind.              *)
LEMMA EndFilters ==
    ASSUME RInv, FInv, CallStep(Idle), EngineOK(engine'), Subdued(engine, engine'),
           NoSuccess(engine, engine'),
           \A id \in 1..engine'.counter :
               engine'.intents[id].control = "filters" => ~Open(engine', id),
           commands' = commands, conditions' = conditions
    PROVE  FInv' /\ Effects
<1>1. Idle.phase = "idle" /\ Idle.touched = 0 /\ 0 \in 0..touched
  BY DEF Idle, FInv
<1>2. QED
  BY <1>1, CallFilters

(* Before it writes, the call pursues nothing.                             *)
LEMMA NothingPursued ==
    ASSUME RInv, FInv, call.phase # "write", NEW x, Continues(engine, x)
    PROVE  \A id \in 1..x.counter : x.intents[id].control = "filters" => ~Open(x, id)
<1>1. Owns(engine, call, conditions)
  BY DEF FInv, FilterOK
<1>2. QED
  BY <1>1 DEF Owns, Continues, SameRequests, GoalsFinal, Open

(* A call begins, and asks for the record.                                 *)
LEMMA BeginFilters ==
    ASSUME RInv, FInv, NEW change \in Changes, BeginUpdate(change[1], change[2])
    PROVE  FInv' /\ Effects
<1> DEFINE k == [Idle EXCEPT !.phase = "settle", !.epoch = snapshot.epoch, !.index = change[1],
                             !.cycle = change[2]]
<1>1. /\ call = Idle /\ CallStep(k) /\ engine' = engine /\ commands' = commands
      /\ conditions' = conditions
  BY DEF BeginUpdate, CallOnly
<1>2. /\ k.phase = "settle" /\ k.index = change[1] /\ k.cycle = change[2] /\ k.touched = 0
      /\ Idle.phase = "idle"
  BY DEF Idle
<1> HIDE DEF k
<1>3. change[1] \in {1, 2} /\ change[2] \in Cycles /\ 0 \in 0..touched
  BY FilterParameters DEF FInv
<1>4. EngineOK(engine) /\ Subdued(engine, engine) /\ NoSuccess(engine, engine)
  BY ContinuesReflexive DEF RInv, Sound
<1>5. \A id \in 1..engine.counter : engine.intents[id].control = "filters" => ~Open(engine, id)
  BY <1>1, <1>2, <1>4, NothingPursued DEF Subdued
<1>6. QED
  BY <1>1, <1>2, <1>3, <1>4, <1>5, CallFilters

(* The question for the record starts a read of its own: nothing is known  *)
(* of the record until it is answered.                                     *)
LEMMA AskFilters ==
    ASSUME RInv, FInv, AskRecord
    PROVE  FInv' /\ Effects
<1>1. EngineOK(engine) /\ Subdued(engine, engine) /\ NoSuccess(engine, engine)
      /\ CallOK(call, engine, now) /\ DOMAIN commands = CommandFields
  BY ContinuesReflexive DEF RInv, Sound, QueryOK
<1>2. call.phase = "settle"
  BY DEF AskRecord
<1>3. \A id \in 1..engine.counter : engine.intents[id].control = "filters" => ~Open(engine, id)
  BY <1>1, <1>2, NothingPursued DEF Subdued
<1>4. CASE CallOnly(Idle)
  BY <1>1, <1>3, <1>4, EndFilters DEF CallOnly
<1>5. CASE /\ MetadataIdle(commands) /\ commands' = RefreshFilters(commands)
           /\ CallStep([call EXCEPT !.phase = "read", !.version = commands.version, !.at = now,
                                    !.touched = touched, !.late = AnswerUnderWay \/ write # None])
           /\ UNCHANGED <<engine, conditions>>
  <2> DEFINE late == AnswerUnderWay \/ write # None
             k == [call EXCEPT !.phase = "read", !.version = commands.version, !.at = now,
                               !.touched = touched, !.late = late]
  <2>1. /\ k.phase = "read" /\ k.index = call.index /\ k.cycle = call.cycle
        /\ k.touched = touched /\ k.late = late
    <3> HIDE DEF late
    <3>1. QED
      BY <1>1 DEF CallOK, CallFields
  <2>2. CallStep(k) /\ engine' = engine /\ conditions' = conditions
    BY <1>5
  <2> HIDE DEF k
  <2>3. commands'.pending = commands.pending /\ ~commands'.success
    BY <1>1, <1>5 DEF RefreshFilters, CommandFields
  <2>4. call.index \in {1, 2} /\ call.cycle \in Cycles /\ touched \in 0..touched
    BY <1>2 DEF FInv, FilterTypes
  <2>5. QED
    BY <1>1, <1>3, <2>1, <2>2, <2>3, <2>4, CallFilters
<1>6. QED
  BY <1>4, <1>5 DEF AskRecord

(* A call that ends gives up its own request.                              *)
LEMMA UpdateEndsFilters ==
    ASSUME RInv, FInv, EndUpdate \/ GiveUp
    PROVE  FInv' /\ Effects
<1> DEFINE due == Ticked(engine, now)
<1>1. /\ EngineOK(engine) /\ Subdued(engine, engine) /\ NoSuccess(engine, engine)
      /\ "filters" \in Controls
  BY ContinuesReflexive, RuntimeParameters DEF RInv, Sound
<1>2. EngineOK(due) /\ Subdued(engine, due) /\ NoSuccess(engine, due)
  BY <1>1, TickedContinues DEF RInv, Sound
<1>3. CallStep(Idle) /\ commands' = commands /\ conditions' = conditions
  BY DEF EndUpdate, GiveUp
<1>4. \/ engine' = engine /\ (call.phase # "write" \/ ~Open(engine, call.intent))
      \/ engine' \in {Cancelled(engine, "filters"), Cancelled(due, "filters")}
  BY DEF EndUpdate, GiveUp
<1> HIDE DEF due
<1>5. CASE engine' = engine /\ (call.phase # "write" \/ ~Open(engine, call.intent))
  <2>1. \A id \in 1..engine.counter : engine.intents[id].control = "filters" => ~Open(engine, id)
    BY <1>5 DEF FInv, FilterOK, Owns
  <2>2. QED
    BY <1>1, <1>3, <1>5, <2>1, EndFilters
<1>6. ASSUME NEW e \in {engine, due}, engine' = Cancelled(e, "filters")
      PROVE  FInv' /\ Effects
  <2> DEFINE x == Cancelled(e, "filters")
  <2>1. EngineOK(e) /\ Subdued(engine, e) /\ NoSuccess(engine, e)
    BY <1>1, <1>2
  <2>2. EngineOK(x) /\ Subdued(e, x) /\ NoSuccess(e, x)
    BY <1>1, <2>1, CancelledSubdued
  <2>3. ~Open(x, e.latest["filters"])
    <3>1. CASE ~Open(e, e.latest["filters"])
      BY <3>1 DEF Cancelled
    <3>2. CASE Open(e, e.latest["filters"])
      <4> DEFINE id == e.latest["filters"]
                 u == [e.intents EXCEPT ![id].stage = "CANCELLED"]
      <4>1. x = [e EXCEPT !.intents = u]
        BY <3>2 DEF Cancelled, Update
      <4>2. x.intents = u
        <5> HIDE DEF u, x
        <5>1. QED
          BY <2>1, <4>1 DEF EngineOK, IsEngine
      <4>3. id \in DOMAIN e.intents /\ IsItem(e.intents[id])
        BY <1>1, <2>1, <3>2 DEF EngineOK, GoalsOK, Open
      <4> HIDE DEF id, x
      <4>4. u[id].stage = "CANCELLED"
        BY <4>3 DEF IsItem
      <4>5. QED
        BY <4>2, <4>4 DEF Open, Terminal, id, x
    <3>3. QED
      BY <3>1, <3>2
  <2> HIDE DEF x
  <2>4. Subdued(engine, x)
    BY <1>1, <2>1, <2>2, SubduedTransitive
  <2>5. NoSuccess(engine, x)
    BY <2>1, <2>2 DEF NoSuccess, Subdued, Continues, SameRequests
  <2>6. \A id \in 1..x.counter : x.intents[id].control = "filters" => ~Open(x, id)
    BY <2>2, <2>3 DEF EngineOK, GoalsOK, Subdued, Continues, SameRequests
  <2>7. engine' = x
    BY <1>6 DEF x
  <2>8. QED
    BY <1>3, <2>2, <2>4, <2>5, <2>6, <2>7, EndFilters
<1>7. QED
  BY <1>4, <1>5, <1>6

(* The record that is asked for is a record, and the other cycle's stays.  *)
LEMMA ChangedRecord ==
    ASSUME NEW original \in FilterRecords, NEW index \in {1, 2}, NEW cycle \in Cycles
    PROVE  /\ Changed(original, index, cycle) \in FilterRecords
           /\ Changed(original, index, cycle)[3 - index] = original[3 - index]
<1> DEFINE y == [original EXCEPT ![index] = cycle]
<1>1. PICK p \in Cycles, q \in Cycles : original = <<p, q>>
  BY DEF FilterRecords
<1>2. CASE index = 1
  <2>1. y = <<cycle, q>> /\ y[2] = original[2] /\ 3 - index = 2
    BY <1>1, <1>2
  <2>2. QED
    BY <2>1 DEF Changed, FilterRecords
<1>3. CASE index = 2
  <2>1. y = <<p, cycle>> /\ y[1] = original[1] /\ 3 - index = 1
    BY <1>1, <1>3
  <2>2. QED
    BY <2>1 DEF Changed, FilterRecords
<1>4. QED
  BY <1>2, <1>3

(* What is asked for is computed from the record as it is.                 *)
LEMMA WriteFilters ==
    ASSUME RInv, FInv, WriteRecord
    PROVE  FInv' /\ Effects
<1> DEFINE due == Ticked(engine, now)
<1>1. /\ EngineOK(engine) /\ Subdued(engine, engine) /\ NoSuccess(engine, engine)
      /\ CallOK(call, engine, now) /\ (ready => engine.state = StateOf(snapshot, TRUE))
  BY ContinuesReflexive DEF RInv, Sound, SightOK
<1>2. EngineOK(due) /\ Subdued(engine, due) /\ NoSuccess(engine, due) /\ due.state = engine.state
  BY <1>1, TickedContinues, TickedOK DEF RInv, Sound
<1>3. call.phase = "read"
  BY DEF WriteRecord
<1>4. CASE /\ engine' = IF Writable THEN due ELSE engine
           /\ CallStep(Idle) /\ UNCHANGED <<commands, conditions>>
  <2> HIDE DEF due
  <2>1. engine' \in {engine, due}
    BY <1>4
  <2>2. EngineOK(engine') /\ Subdued(engine, engine') /\ NoSuccess(engine, engine')
    BY <1>1, <1>2, <2>1
  <2>3. \A id \in 1..engine'.counter : engine'.intents[id].control = "filters" => ~Open(engine', id)
    BY <1>3, <2>2, NothingPursued DEF Subdued
  <2>4. QED
    BY <1>4, <2>2, <2>3, EndFilters
<1>5. CASE /\ Writable
           /\ Asks("filters", Wanted, [epoch |-> call.epoch, caller |-> TRUE], FALSE)
           /\ CallStep([call EXCEPT !.phase = "write", !.intent = engine.counter + 1])
  <2> DEFINE n == engine.counter + 1
             k == [call EXCEPT !.phase = "write", !.intent = n]
             condition == [epoch |-> call.epoch, caller |-> TRUE]
             old == engine.state.filters
  <2>1. /\ k.phase = "write" /\ k.intent = n /\ k.epoch = call.epoch /\ k.index = call.index
        /\ k.cycle = call.cycle /\ k.touched = call.touched /\ k.late = call.late
    <3> HIDE DEF n
    <3>1. QED
      BY <1>1 DEF CallOK, CallFields
  <2>2. condition \in Condition /\ "filters" \in Controls
    BY <1>1, RuntimeParameters DEF CallOK, Condition
  <2>3. Asks("filters", Wanted, condition, FALSE) /\ CallStep(k)
    BY <1>5
  <2> HIDE DEF k
  <2>4. /\ call' = k /\ snapshot' = snapshot /\ link' = link /\ record' = record
        /\ line' = line /\ write' = write /\ touched' = touched
    BY <2>3 DEF CallStep, connectionVars, spaVars
  <2>5. Adds("filters", Wanted, condition) /\ Effects
    <3> HIDE DEF condition
    <3>1. QED
      BY <2>2, <2>3, AsksAdds
  <2>6. /\ snapshot.epoch = call.epoch /\ commands.success /\ old # None /\ ready
    BY <1>5 DEF Writable, ReadVerified
  <2>7. old = snapshot.filters /\ engine.state.epoch = snapshot.epoch
    BY <1>1, <2>6 DEF StateOf
  <2>8. call.epoch # 0
    <3>1. Admissible(due, "filters", Wanted, FALSE)
      BY <2>3 DEF Asks
    <3> HIDE DEF due
    <3>2. QED
      BY <1>2, <2>6, <2>7, <3>1 DEF Admissible
  <2>9. old \in FilterRecords /\ call.index \in {1, 2} /\ call.cycle \in Cycles
    BY <1>3, <2>6, <2>7 DEF FInv, FilterTypes
  <2>10. Wanted \in FilterRecords /\ Wanted[3 - call.index] = old[3 - call.index]
    BY <2>9, ChangedRecord DEF Wanted
  <2>11. Aim(engine', k) = Wanted /\ conditions'[n] = condition
    BY <2>1, <2>5 DEF Aim, Adds
  <2>12. Owns(engine', k, conditions')
    <3>1. ASSUME NEW id \in 1..engine'.counter, engine'.intents[id].control = "filters",
                 Open(engine', id)
          PROVE  id = n
      <4>1. id \in 1..engine.counter \/ id = n
        BY <2>5 DEF Adds
      <4>2. ASSUME id \in 1..engine.counter
            PROVE  FALSE
        BY <1>3, <2>5, <3>1, <4>2 DEF Adds, FInv, FilterOK, Owns
      <4>3. QED
        BY <4>1, <4>2
    <3>2. OwnsGoal(engine', k, conditions')
      BY <2>1, <2>8, <2>10, <2>11 DEF OwnsGoal
    <3>3. \A i \in DOMAIN engine'.history : engine'.history[i].intent # n
      BY <2>5 DEF Adds, SameAction
    <3>4. QED
      BY <2>1, <3>1, <3>2, <3>3 DEF Owns, OwnSend
  <2>13. FilterOK(snapshot, commands', engine', line, k, conditions')
    <3>1. Unanswered(commands', line)
      BY <2>5 DEF Adds, FInv, FilterOK, Unanswered
    <3>2. Away(snapshot, commands', engine', line, k)
      BY <2>1, <2>6 DEF Away
    <3>3. QED
      BY <2>12, <3>1, <3>2 DEF FilterOK
  <2>14. FilterTypes(snapshot, line, write, k, record)
    BY <2>1, <2>9 DEF FInv, FilterTypes
  <2>15. ASSUME Untouched
         PROVE  Pristine(snapshot, commands', engine', line, write, k, record)
    <3>1. /\ TrueLine(engine, line, call, record) /\ Undisturbed(line, write, call)
          /\ Remembered(snapshot, commands, engine, call, record)
      BY <2>15 DEF FInv, Pristine
    <3>2. snapshot.filters = record
      BY <1>3, <2>6, <2>7, <3>1 DEF Remembered, Recent, Truthful
    <3>3. TrueLine(engine', line, k, record)
      BY <1>3, <2>1, <3>1 DEF TrueLine, Truthful
    <3>4. Undisturbed(line, write, k) /\ Remembered(snapshot, commands', engine', k, record)
      BY <2>1, <3>2 DEF Undisturbed, Remembered, Truthful
    <3>5. Written(engine', write, k, record)
      BY <1>3, <2>1, <2>7, <2>10, <2>11, <3>1, <3>2 DEF Written, Undisturbed
    <3>6. Achieved(engine', k, record)
      BY <2>1, <2>5 DEF Achieved, Adds, SameAction
    <3>7. QED
      BY <3>3, <3>4, <3>5, <3>6 DEF Pristine
  <2>16. Untouched' <=> Untouched
    BY <2>1, <2>4 DEF Untouched
  <2>17. FInv'
    BY <2>1, <2>4, <2>13, <2>14, <2>15, <2>16 DEF FInv
  <2>18. QED
    BY <2>5, <2>17
<1>6. QED
  BY <1>4, <1>5 DEF WriteRecord

-----------------------------------------------------------------------------
(* The theorems of the filter change.                                      *)

(* At the start nothing is known, asked or written.                        *)
LEMMA FilterInit == RuntimeInit => FInv
<1> SUFFICES ASSUME RuntimeInit PROVE FInv
  OBVIOUS
<1>1. /\ engine.counter = 0 /\ snapshot.filters = None /\ call = Idle /\ line = <<>>
      /\ write = None /\ touched = 0 /\ record \in FirstRecords /\ link = "up"
  BY DEF RuntimeInit, Init
<1>2. Idle.phase = "idle" /\ Idle.touched = 0 /\ DOMAIN <<>> = {}
  BY DEF Idle
<1>3. FilterTypes(snapshot, line, write, call, record)
  BY <1>1, <1>2, FilterParameters DEF FilterTypes
<1>4. FilterOK(snapshot, commands, engine, line, call, conditions)
  BY <1>1, <1>2 DEF FilterOK, Unanswered, Owns, Away
<1>5. Pristine(snapshot, commands, engine, line, write, call, record)
  BY <1>1, <1>2
  DEF Pristine, TrueLine, Truthful, Undisturbed, Remembered, Recent, Written, Achieved
<1>6. QED
  BY <1>1, <1>2, <1>3, <1>4, <1>5 DEF FInv

(* Every step keeps what is known of the filters, and no step writes or    *)
(* reports what is not so.                                                 *)
LEMMA FilterStep ==
    ASSUME RInv, FInv, [RuntimeNext]_runtimeVars
    PROVE  FInv' /\ Effects
<1>1. CASE Wait \/ Withdraw \/ Reconfigure \/ UNCHANGED runtimeVars
  <2>1. UNCHANGED <<snapshot, engine, link, commands, conditions, call, record, line, write, touched>>
    BY <1>1 DEF Wait, Elapse, Withdraw, Reconfigure, runtimeVars, connectionVars, spaVars
  <2>2. QED
    BY <2>1, FiltersAside
<1>2. ASSUME NEW goal \in Goals, NEW caller \in BOOLEAN, NEW replace \in BOOLEAN,
             RequestControl(goal[1], goal[2], caller, replace)
      PROVE  FInv' /\ Effects
  BY <1>2, RequestFilters
<1>3. ASSUME NEW change \in Changes, BeginUpdate(change[1], change[2])
      PROVE  FInv' /\ Effects
  BY <1>3, BeginFilters
<1>4. QED
  BY <1>1, <1>2, <1>3, IterationFilters, DisconnectFilters, ConnectFilters, AskFilters,
     WriteFilters, UpdateEndsFilters, CommitFilters, PanelFilters DEF RuntimeNext

(* FilterInvariance: what the call, the line and the memory say of the     *)
(* record is so in every reachable state, unless the panel is used or an   *)
(* earlier question or write was still under way.                          *)
THEOREM FilterInvariance == RuntimeSpec => [](RInv /\ FInv)
<1>1. RInv /\ FInv /\ [RuntimeNext]_runtimeVars => RInv' /\ FInv'
  BY RuntimeStep, FilterStep
<1>2. QED
  BY RuntimeInitOK, FilterInit, <1>1, PTL DEF RuntimeSpec

(* EveryWriteIsFresh: a filter write is computed from a record read for    *)
(* it, and when it is transmitted, the cycle that the caller did not ask   *)
(* about is as the controller has it (runtime.py: "Fresh read/modify/      *)
(* write/readback").                                                       *)
THEOREM EveryWriteIsFresh == RuntimeSpec => FreshRecord
<1>1. RInv /\ FInv /\ [RuntimeNext]_runtimeVars => CycleKept
  BY FilterStep DEF Effects
<1>2. RuntimeSpec => [][CycleKept]_runtimeVars
  BY FilterInvariance, <1>1, PTL DEF RuntimeSpec
<1>3. QED
  BY <1>2, WritesRestOnReads DEF FreshRecord, KeepsOtherCycle, CycleKept

(* EveryFilterSuccessIsReal: a filter change succeeds only by a record     *)
(* that was queried and received after its write, and when it was written  *)
(* at all, it is what the controller has (runtime.py: "A reflected write   *)
(* is not a queried readback/confirmation").                               *)
THEOREM EveryFilterSuccessIsReal == RuntimeSpec => FilterConfirmed
<1> DEFINE ReadBackStep ==
    \A i \in DOMAIN engine.history :
        LET action == engine.history[i]
            result == engine'.history[i]
        IN  action.control = "filters" =>
              /\ ~Decided(action) /\ Decided(result)
                    => engine'.state.filtersAt > action.sentAt
              /\ /\ engine.intents[action.intent].stage # "VERIFIED"
                 /\ engine'.intents[action.intent].stage = "VERIFIED"
                 /\ engine'.state.epoch = action.epoch
                 => Decided(result)
<1>1. Effects => ReadBackStep /\ ReallyDone
  BY DEF Effects, Judges, DecidedBy, ReportedBy
<1>2. RInv /\ FInv /\ [RuntimeNext]_runtimeVars => [ReadBackStep]_vars /\ ReallyDone
  BY <1>1, FilterStep
<1> HIDE DEF ReadBackStep
<1>3. RuntimeSpec => [][ReadBackStep]_vars /\ [][ReallyDone]_runtimeVars
  BY FilterInvariance, <1>2, PTL DEF RuntimeSpec
<1>4. QED
  BY <1>3
  DEF FilterConfirmed, FilterGoalReadBack, FilterSuccessIsReal, ReallyDone, ReadBackStep
=============================================================================
