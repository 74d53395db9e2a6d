-------------------------- MODULE ConnectionProofs --------------------------
(***************************************************************************)
(* The lifecycle of the connection, for every value of its thresholds: when*)
(* it is READY, what it still shows, what it gives up in time, and when its*)
(* back-off starts over.                                                   *)
(*                                                                         *)
(* A pass of the loop is a chain of operators on the attributes.  There is *)
(* one lemma per operator, on attributes that are well-formed (Sound), and *)
(* one per phase of the pass; the invariant adds what links the attributes *)
(* to the time that has passed since the last pass.                        *)
(***************************************************************************)
EXTENDS Connection, TLAPS

Attributes ==
    [ state : Closed \cup {"waiting_for_frame", "detecting_protocol", "synchronizing",
                           "ready", "degraded"},
      age : Nat, valid : BOOLEAN, validAge : 0..RecoverAfter, statusAge : 0..RecoverAfter,
      readyAge : 0..RecoverAfter, status : BOOLEAN, stale : BOOLEAN, vetoed : BOOLEAN,
      pending : {None, "information", "capabilities"}, pendingAge : 0..QueryTimeout,
      attempts : Nat, information : BOOLEAN, capabilities : BOOLEAN, configured : BOOLEAN,
      started : BOOLEAN, active : BOOLEAN, committed : BOOLEAN, newer : BOOLEAN,
      syncAge : 0..SyncTimeout, refreshIn : Nat, healthy : {None} \cup (0..HealthyReset),
      resetDone : BOOLEAN ]

(* The questions of a synchronization are asked one after the other, and   *)
(* what was committed is still known; a veto ends all of it.               *)
Dialogue(c) ==
    /\ c.pending = "information" => ~c.information
    /\ c.pending = "capabilities" => c.information /\ ~c.capabilities
    /\ c.capabilities => c.information
    /\ c.committed => c.configured /\ c.information /\ c.capabilities /\ c.started
    /\ c.active => c.started
    /\ c.vetoed => c.pending = None /\ ~c.configured /\ ~c.active /\ ~c.committed

(* Every question asked so far may still be answered or repeated.          *)
AttemptsLeft(c) ==
    /\ c.attempts <= QueryAttempts
    /\ c.pending = None /\ ~c.vetoed => c.attempts < QueryAttempts

(* Nothing is known of a socket on which nothing was heard.                *)
Heard(c) == c.status \/ c.state = "ready" => c.valid

Sound(c) == c \in Attributes /\ Dialogue(c) /\ AttemptsLeft(c) /\ Heard(c)

(* What holds after a pass, and no longer by a unit after the clock ticked.*)
ReadyOK(c, p) ==
    c.state = "ready" =>
        /\ c.committed /\ c.newer /\ ~c.active /\ ~c.vetoed
        /\ c.statusAge <= DegradeAfter /\ (p => c.statusAge < DegradeAfter)
        /\ mode = "classic" => c.readyAge <= DegradeAfter /\ (p => c.readyAge < DegradeAfter)

ShownOK(c, p) ==
    ~c.stale => c.status /\ c.statusAge <= StaleAfter /\ (p => c.statusAge < StaleAfter)

InTime(c, p) ==
    IsOpen(c) /\ p =>
        /\ c.validAge < RecoverAfter
        /\ Supported(c) => /\ c.statusAge < RecoverAfter
                           /\ mode = "classic" => c.readyAge < RecoverAfter
                           /\ c.active => c.syncAge < SyncTimeout

(* A synchronization in progress has waited since the pass that began it,  *)
(* and the status that counts for it was read later.                       *)
SyncOK(c, p) ==
    /\ c.active => IsOpen(c) /\ c.status
    /\ c.active /\ ~p => c.syncAge >= 1
    /\ c.active /\ c.newer => c.statusAge < c.syncAge

(* The health is as long as READY has lasted.                              *)
HealthOK(c, p) ==
    /\ c.healthy # None => c.state = "ready" /\ c.healthy <= readyRun /\ (p => c.healthy < readyRun)
    /\ readyRun \in Nat

AskingOK(c) == asking => IsOpen(c) /\ (c.committed \/ c.vetoed)

CInv ==
    /\ Sound(conn) /\ mode \in Modes /\ world \in {"wild", "benign", "silent"}
    /\ asking \in BOOLEAN /\ passed \in BOOLEAN
    /\ base \in BackoffInitial..BackoffMax /\ sleep \in 0..BackoffMax
    /\ ReadyOK(conn, passed) /\ ShownOK(conn, passed) /\ InTime(conn, passed)
    /\ SyncOK(conn, passed) /\ HealthOK(conn, passed) /\ AskingOK(conn)

-----------------------------------------------------------------------------
(* Numbers.                                                                *)

(* The oldest of the ages reaches a threshold when one of them does.       *)
LEMMA OldestAge ==
    ASSUME NEW c \in Attributes, NEW k \in Nat
    PROVE  Max(Ages(c)) >= k <=> \E a \in Ages(c) : a >= k
<1>1. RecoverAfter \in Nat
  BY TimingParameters
<1>2. c.validAge \in Nat /\ c.statusAge \in Nat /\ c.readyAge \in Nat
  BY <1>1 DEF Attributes
<1>3. Ages(c) \subseteq Nat /\ Ages(c) # {}
  BY <1>2 DEF Ages
<1>4. \E a \in Ages(c) : \A b \in Ages(c) : a >= b
  <2>1. \A a, b \in Nat : a >= b \/ b >= a
    OBVIOUS
  <2>2. Ages(c) \in {{c.validAge}, {c.validAge, c.statusAge}, {c.validAge, c.readyAge},
                     {c.validAge, c.statusAge, c.readyAge}}
    BY DEF Ages
  <2>3. QED
    BY <1>2, <2>2
<1>5. Max(Ages(c)) \in Ages(c) /\ \A b \in Ages(c) : Max(Ages(c)) >= b
  BY <1>4 DEF Max
<1> DEFINE m == Max(Ages(c))
<1>6. m \in Ages(c) /\ \A b \in Ages(c) : m >= b
  BY <1>5
<1> HIDE DEF m
<1>7. m >= k <=> \E a \in Ages(c) : a >= k
  <2>1. m \in Nat /\ \A a \in Ages(c) : a \in Nat
    BY <1>3, <1>6
  <2>2. QED
    BY <1>6, <2>1
<1>8. QED
  BY <1>7 DEF m

(* The lesser and the greater of two numbers.                              *)
LEMMA LesserGreater ==
    ASSUME NEW a \in Int, NEW b \in Int
    PROVE  /\ Min({a, b}) = IF a <= b THEN a ELSE b
           /\ Max({a, b}) = IF a >= b THEN a ELSE b
<1>1. \E x \in {a, b} : \A y \in {a, b} : x <= y
  OBVIOUS
<1>2. \E x \in {a, b} : \A y \in {a, b} : x >= y
  OBVIOUS
<1>3. Min({a, b}) \in {a, b} /\ \A y \in {a, b} : Min({a, b}) <= y
  BY <1>1 DEF Min
<1>4. Max({a, b}) \in {a, b} /\ \A y \in {a, b} : Max({a, b}) >= y
  BY <1>2 DEF Max
<1>5. Min({a, b}) = IF a <= b THEN a ELSE b
  BY <1>3
<1>6. Max({a, b}) = IF a >= b THEN a ELSE b
  BY <1>4
<1>7. QED
  BY <1>5, <1>6

-----------------------------------------------------------------------------
(* The operators of a pass.                                                *)

(* What an operator that does not look at the clock leaves alone.          *)
SameHealth(c, x) == x.healthy = c.healthy /\ x.resetDone = c.resetDone
SameAges(c, x) ==
    x.validAge = c.validAge /\ x.statusAge = c.statusAge /\ x.readyAge = c.readyAge
SameBus(c, x) == x.status = c.status /\ x.vetoed = c.vetoed /\ x.stale = c.stale
SameSync(c, x) ==
    /\ x.started = c.started /\ x.active = c.active /\ x.committed = c.committed
    /\ x.newer = c.newer /\ x.syncAge = c.syncAge
StaysOpen(c, x) == IsOpen(c) => IsOpen(x)

(* A new socket has nothing to show.                                       *)
LEMMA FreshIsSound ==
    ASSUME NEW state \in Closed \cup {"waiting_for_frame"}
    PROVE  /\ Sound(Fresh(state))
           /\ LET x == Fresh(state)
              IN  /\ x.state = state /\ ~x.active /\ x.stale /\ ~x.committed /\ x.healthy = None
                  /\ x.statusAge = 0 /\ ~x.vetoed /\ ~x.status /\ x.validAge = 0
  BY TimingParameters, ContentsAreMessages
     DEF Fresh, Sound, Attributes, Dialogue, AttemptsLeft, Heard, Closed, Messages

(* What was framed is valid.                                               *)
LEMMA FramedOK ==
    ASSUME NEW c, Sound(c), NEW read
    PROVE  LET x == Framed(c, read)
           IN  /\ Sound(x) /\ StaysOpen(c, x) /\ SameHealth(c, x) /\ SameBus(c, x)
               /\ SameSync(c, x) /\ x.statusAge = c.statusAge
               /\ x.pending = c.pending /\ x.pendingAge = c.pendingAge
               /\ x.attempts = c.attempts /\ (read # {} => x.valid)
<1> DEFINE x == Framed(c, read)
           state == IF c.state = "waiting_for_frame" THEN "detecting_protocol" ELSE c.state
<1>1. CASE read = {}
  BY <1>1 DEF Framed, StaysOpen, SameHealth, SameBus, SameSync
<1>2. CASE read # {}
  <2>1. x = [c EXCEPT !.valid = TRUE, !.validAge = 0, !.state = state]
    BY <1>2 DEF Framed
  <2>2. 0 \in 0..RecoverAfter
    BY TimingParameters
  <2> HIDE DEF x
  <2>3. x \in Attributes
    BY <2>1, <2>2 DEF Sound, Attributes
  <2>4. /\ x.state = state /\ SameHealth(c, x) /\ SameBus(c, x) /\ SameSync(c, x)
        /\ x.statusAge = c.statusAge /\ x.pending = c.pending /\ x.pendingAge = c.pendingAge
        /\ x.attempts = c.attempts /\ x.valid = TRUE /\ x.information = c.information
        /\ x.capabilities = c.capabilities /\ x.configured = c.configured
    BY <2>1 DEF Sound, Attributes, SameHealth, SameBus, SameSync
  <2>5. Sound(x)
    BY <2>3, <2>4 DEF Sound, Dialogue, AttemptsLeft, Heard, SameSync, SameBus
  <2>6. StaysOpen(c, x)
    BY <2>4 DEF StaysOpen, IsOpen, Closed
  <2>7. QED
    BY <2>4, <2>5, <2>6 DEF x
<1>3. QED
  BY <1>1, <1>2

(* A query that nobody answered is forgotten.                              *)
LEMMA QueryExpiredOK ==
    ASSUME NEW c, Sound(c), ~AttemptsSpent(c)
    PROVE  LET x == QueryExpired(c)
           IN  /\ Sound(x) /\ StaysOpen(c, x) /\ SameHealth(c, x) /\ SameBus(c, x)
               /\ SameSync(c, x) /\ x.statusAge = c.statusAge /\ x.valid = c.valid
  BY TimingParameters, ContentsAreMessages
     DEF QueryExpired, QueryEnded, AttemptsSpent, Sound, Attributes, Dialogue, AttemptsLeft,
         Heard, StaysOpen, IsOpen, Closed, SameHealth, SameBus, SameSync, Messages

(* What was read may answer a query and brings a newer status or none.     *)
Receives(c, x) ==
    /\ SameHealth(c, x) /\ StaysOpen(c, x) /\ x.stale = c.stale /\ x.started = c.started
    /\ x.active => c.active /\ x.syncAge = c.syncAge
    /\ c.active => x.active \/ x.vetoed
    /\ x.newer => x.statusAge = 0 \/ (c.newer /\ x.statusAge = c.statusAge)
    /\ x.committed => c.committed
    /\ c.committed => x.committed \/ x.vetoed
    /\ c.vetoed => x.vetoed
    /\ c.status => x.status

(* What was read only marks what was received.                             *)
LEMMA DecodedOK ==
    ASSUME NEW c, Sound(c), NEW read, read # {} => c.valid
    PROVE  LET x == Decoded(c, read)
           IN  Sound(x) /\ Receives(c, x)
<1> DEFINE x == Decoded(c, read)
           answered == Answered(c, read)
<1>1. /\ answered \in BOOLEAN /\ ("status" \in read) \in BOOLEAN
      /\ answered => c.pending \in {"information", "capabilities"}
  BY DEF Answered, Sound, Attributes
<1>2. 0 \in 0..RecoverAfter /\ 0 < QueryAttempts /\ None \notin {"information", "capabilities"}
  BY TimingParameters, ContentsAreMessages DEF Messages
<1>3. x = [c EXCEPT !.status = @ \/ "status" \in read,
                    !.statusAge = IF "status" \in read THEN 0 ELSE @,
                    !.newer = @ \/ "status" \in read,
                    !.readyAge = IF "ready" \in read THEN 0 ELSE @,
                    !.information = @ \/ (answered /\ c.pending = "information"),
                    !.capabilities = @ \/ (answered /\ c.pending = "capabilities"),
                    !.attempts = IF answered THEN 0 ELSE @,
                    !.pending = IF answered THEN None ELSE @]
  BY DEF Decoded
<1> HIDE DEF x, answered
<1>4. x \in Attributes
  <2> DEFINE news == c.status \/ "status" \in read
             age == IF "status" \in read THEN 0 ELSE c.statusAge
             newer == c.newer \/ "status" \in read
             ready == IF "ready" \in read THEN 0 ELSE c.readyAge
             information == c.information \/ (answered /\ c.pending = "information")
             capabilities == c.capabilities \/ (answered /\ c.pending = "capabilities")
             attempts == IF answered THEN 0 ELSE c.attempts
             pending == IF answered THEN None ELSE c.pending
             y == [c EXCEPT !.status = news, !.statusAge = age, !.newer = newer,
                            !.readyAge = ready]
             z == [y EXCEPT !.information = information, !.capabilities = capabilities]
  <2>1. x = [z EXCEPT !.attempts = attempts, !.pending = pending]
    BY <1>3
  <2>2. /\ news \in BOOLEAN /\ newer \in BOOLEAN /\ information \in BOOLEAN
        /\ capabilities \in BOOLEAN
    OBVIOUS
  <2>3. /\ age \in 0..RecoverAfter /\ ready \in 0..RecoverAfter /\ attempts \in Nat
        /\ pending \in {None, "information", "capabilities"}
    BY <1>2 DEF Sound, Attributes
  <2> HIDE DEF news, age, newer, ready, information, capabilities, attempts, pending
  <2>4. y \in Attributes
    BY <2>2, <2>3 DEF Sound, Attributes
  <2> HIDE DEF y
  <2>5. z \in Attributes
    BY <2>2, <2>4 DEF Attributes
  <2> HIDE DEF z
  <2>6. QED
    BY <2>1, <2>3, <2>5 DEF Attributes
<1>5. /\ SameHealth(c, x) /\ x.stale = c.stale /\ x.vetoed = c.vetoed /\ x.started = c.started
      /\ x.active = c.active /\ x.committed = c.committed /\ x.syncAge = c.syncAge
      /\ x.state = c.state /\ x.configured = c.configured /\ x.valid = c.valid
  BY <1>3 DEF Sound, Attributes, SameHealth
<1>6. /\ x.status = (c.status \/ "status" \in read)
      /\ x.newer = (c.newer \/ "status" \in read)
      /\ x.statusAge = IF "status" \in read THEN 0 ELSE c.statusAge
  BY <1>3 DEF Sound, Attributes
<1>7. /\ x.information = (c.information \/ (answered /\ c.pending = "information"))
      /\ x.capabilities = (c.capabilities \/ (answered /\ c.pending = "capabilities"))
      /\ x.attempts = IF answered THEN 0 ELSE c.attempts
      /\ x.pending = IF answered THEN None ELSE c.pending
  BY <1>3 DEF Sound, Attributes
<1>8. Dialogue(x) /\ AttemptsLeft(x)
  <2>1. CASE ~answered
    <3>1. /\ x.information = c.information /\ x.capabilities = c.capabilities
          /\ x.attempts = c.attempts /\ x.pending = c.pending
      BY <2>1, <1>7 DEF Sound, Attributes
    <3>2. QED
      BY <3>1, <1>5 DEF Sound, Dialogue, AttemptsLeft
  <2>2. CASE answered
    <3>1. x.attempts = 0 /\ x.pending = None /\ ~c.vetoed
      BY <2>2, <1>1, <1>2, <1>7 DEF Sound, Dialogue
    <3>2. AttemptsLeft(x)
      BY <3>1, TimingParameters DEF AttemptsLeft
    <3>3. CASE c.pending = "information"
      <4>1. x.information = TRUE /\ x.capabilities = c.capabilities
        BY <2>2, <3>3, <1>7 DEF Sound, Attributes
      <4>2. QED
        BY <4>1, <3>1, <3>2, <1>2, <1>5 DEF Sound, Dialogue
    <3>4. CASE c.pending = "capabilities"
      <4>1. x.information = c.information /\ x.capabilities = TRUE
        BY <2>2, <3>4, <1>7 DEF Sound, Attributes
      <4>2. QED
        BY <4>1, <3>1, <3>2, <3>4, <1>2, <1>5 DEF Sound, Dialogue
    <3>5. QED
      BY <2>2, <1>1, <3>3, <3>4
  <2>3. QED
    BY <2>1, <2>2
<1>9. Receives(c, x)
  BY <1>5, <1>6 DEF Receives, StaysOpen, IsOpen
<1>10. Heard(x)
  BY <1>5, <1>6 DEF Heard, Sound
<1>11. QED
  BY <1>4, <1>8, <1>9, <1>10 DEF Sound, x

(* Other clients' traffic ends the conversation for this socket.           *)
LEMMA VetoedOK ==
    ASSUME NEW c, Sound(c), NEW read
    PROVE  LET x == Vetoed(c, read)
           IN  Sound(x) /\ Receives(c, x)
<1> DEFINE x == Vetoed(c, read)
<1>1. CASE c.vetoed \/ "addressed" \notin read
  BY <1>1 DEF Vetoed, Receives, SameHealth, StaysOpen
<1>2. CASE ~(c.vetoed \/ "addressed" \notin read)
  <2>1. x = [c EXCEPT !.vetoed = TRUE, !.pending = None, !.configured = FALSE,
                      !.information = FALSE, !.capabilities = FALSE,
                      !.active = FALSE, !.committed = FALSE]
    BY <1>2 DEF Vetoed
  <2> HIDE DEF x
  <2>2. x \in Attributes
    BY <2>1 DEF Sound, Attributes
  <2>3. /\ SameHealth(c, x) /\ x.stale = c.stale /\ x.started = c.started /\ x.state = c.state
        /\ x.newer = c.newer /\ x.statusAge = c.statusAge /\ x.status = c.status
        /\ x.attempts = c.attempts /\ x.valid = c.valid
    BY <2>1 DEF Sound, Attributes, SameHealth
  <2>4. /\ x.vetoed = TRUE /\ x.pending = None /\ x.configured = FALSE /\ x.information = FALSE
        /\ x.capabilities = FALSE /\ x.active = FALSE /\ x.committed = FALSE
    BY <2>1 DEF Sound, Attributes
  <2>5. None \notin {"information", "capabilities"}
    BY ContentsAreMessages DEF Messages
  <2>6. Sound(x)
    BY <2>2, <2>3, <2>4, <2>5 DEF Sound, Dialogue, AttemptsLeft, Heard
  <2>7. Receives(c, x)
    BY <2>3, <2>4 DEF Receives, StaysOpen, IsOpen
  <2>8. QED
    BY <2>6, <2>7 DEF x
<1>3. QED
  BY <1>1, <1>2

(* Reading, as a whole.                                                    *)
LEMMA ReceivedOK ==
    ASSUME NEW c, Sound(c), ~AttemptsSpent(c), NEW read
    PROVE  LET x == Received(c, read)
           IN  Sound(x) /\ Receives(c, x)
<1> DEFINE f == Framed(c, read)
           q == QueryExpired(f)
           d == Decoded(q, read)
           x == Vetoed(d, read)
<1>1. /\ Sound(f) /\ StaysOpen(c, f) /\ SameHealth(c, f) /\ SameBus(c, f) /\ SameSync(c, f)
      /\ f.statusAge = c.statusAge /\ ~AttemptsSpent(f) /\ (read # {} => f.valid)
  BY FramedOK DEF AttemptsSpent, QueryEnded
<1> HIDE DEF f
<1>2. /\ Sound(q) /\ StaysOpen(f, q) /\ SameHealth(f, q) /\ SameBus(f, q) /\ SameSync(f, q)
      /\ q.statusAge = f.statusAge /\ q.valid = f.valid
  BY <1>1, QueryExpiredOK
<1> HIDE DEF q
<1>3. Sound(d) /\ Receives(q, d)
  BY <1>1, <1>2, DecodedOK
<1> HIDE DEF d
<1>4. Sound(x) /\ Receives(d, x)
  BY <1>3, VetoedOK
<1>5. x = Received(c, read)
  BY DEF Received, f, q, d
<1> HIDE DEF x
<1>6. Receives(c, x)
  BY <1>1, <1>2, <1>3, <1>4 DEF Receives, SameHealth, SameBus, SameSync, StaysOpen
<1>7. QED
  BY <1>4, <1>5, <1>6

(* What the synchronization makes of the attributes: it may begin, and then*)
(* waits for news; it ends by news only; and it is not begun under a       *)
(* participant that is in the middle of something.                         *)
Advances(c, x, busy) ==
    /\ SameHealth(c, x) /\ SameAges(c, x) /\ SameBus(c, x) /\ StaysOpen(c, x)
    /\ x.active => c.active \/ c.status
    /\ x.active /\ x.newer => c.active /\ c.newer /\ x.syncAge = c.syncAge
    /\ c.active /\ ~x.active => c.newer
    /\ busy /\ c.committed => x.committed

(* The queries begin once, with a supported configuration.                 *)
LEMMA BegunOK ==
    ASSUME NEW c, Sound(c), NEW busy
    PROVE  LET x == BegunIfDue(c, busy)
           IN  Sound(x) /\ Advances(c, x, busy) /\ (Supported(x) => x.started)
<1> DEFINE x == BegunIfDue(c, busy)
<1>1. CASE ~Begins(c, busy)
  <2>1. x = c
    BY <1>1 DEF BegunIfDue
  <2>2. Supported(c) => c.started
    BY <1>1 DEF Begins, Sound, Attributes
  <2> HIDE DEF x
  <2>3. QED
    BY <2>1, <2>2 DEF x, Advances, SameHealth, SameAges, SameBus, StaysOpen
<1>2. CASE Begins(c, busy)
  <2> DEFINE y == [c EXCEPT !.started = TRUE, !.active = TRUE, !.committed = FALSE,
                            !.syncAge = 0, !.newer = FALSE]
  <2>1. x = [y EXCEPT !.information = FALSE, !.capabilities = FALSE,
                      !.attempts = 0, !.pending = None, !.state = "synchronizing"]
    BY <1>2 DEF BegunIfDue, Begun
  <2>2. 0 \in 0..SyncTimeout /\ 0 < QueryAttempts /\ QueryAttempts \in Nat
    BY TimingParameters
  <2>3. y \in Attributes
    BY <2>2 DEF Sound, Attributes
  <2>4. /\ y.vetoed = c.vetoed /\ y.configured = c.configured /\ y.status = c.status
        /\ y.valid = c.valid /\ y.stale = c.stale /\ SameHealth(c, y) /\ SameAges(c, y)
        /\ y.started = TRUE /\ y.active = TRUE /\ y.committed = FALSE /\ y.newer = FALSE
    BY DEF Sound, Attributes, SameHealth, SameAges
  <2> HIDE DEF x, y
  <2>5. x \in Attributes
    BY <2>1, <2>3 DEF Attributes
  <2>6. /\ x.vetoed = y.vetoed /\ x.configured = y.configured /\ x.status = y.status
        /\ x.valid = y.valid /\ x.stale = y.stale /\ SameHealth(y, x) /\ SameAges(y, x)
        /\ x.started = y.started /\ x.active = y.active /\ x.committed = y.committed
        /\ x.newer = y.newer
    BY <2>1, <2>3 DEF Attributes, SameHealth, SameAges
  <2>7. /\ x.information = FALSE /\ x.capabilities = FALSE /\ x.attempts = 0
        /\ x.pending = None /\ x.state = "synchronizing"
    BY <2>1, <2>3 DEF Attributes
  <2>8. None \notin {"information", "capabilities"}
    BY ContentsAreMessages DEF Messages
  <2>9. c.status /\ ~c.vetoed /\ (~c.started \/ ~busy)
    BY <1>2 DEF Begins, Supported, RefreshDue
  <2>10. Sound(x)
    BY <2>2, <2>4, <2>5, <2>6, <2>7, <2>8, <2>9 DEF Sound, Dialogue, AttemptsLeft, Heard
  <2>11. busy => ~c.committed
    BY <2>9 DEF Sound, Dialogue
  <2>12. IsOpen(x)
    BY <2>7 DEF IsOpen, Closed
  <2>13. Advances(c, x, busy)
    BY <2>4, <2>6, <2>9, <2>11, <2>12
       DEF Advances, SameHealth, SameAges, SameBus, StaysOpen
  <2>14. QED
    BY <2>4, <2>6, <2>10, <2>13 DEF x
<1>3. QED
  BY <1>1, <1>2

(* Both answers make a configuration.                                      *)
LEMMA CommittedOK ==
    ASSUME NEW c, Sound(c), Supported(c) => c.started, NEW busy
    PROVE  LET x == Committed(c)
           IN  /\ Sound(x) /\ Advances(c, x, busy)
               /\ Supported(x) /\ x.information /\ x.capabilities => x.committed
<1> DEFINE x == Committed(c)
           due == Supported(c) /\ ~c.committed /\ c.information /\ c.capabilities
<1>1. CASE ~due
  <2>1. x = c
    BY <1>1 DEF Committed
  <2>2. Supported(c) /\ c.information /\ c.capabilities => c.committed
    BY <1>1
  <2> HIDE DEF x, due
  <2>3. QED
    BY <2>1, <2>2 DEF x, Advances, SameHealth, SameAges, SameBus, StaysOpen
<1>2. CASE due
  <2>1. x = [c EXCEPT !.configured = TRUE, !.committed = TRUE]
    BY <1>2 DEF Committed
  <2>2. c.information /\ c.capabilities /\ c.started /\ ~c.vetoed
    BY <1>2 DEF Supported
  <2> HIDE DEF x
  <2>3. x \in Attributes /\ x.configured = TRUE /\ x.committed = TRUE
    BY <2>1 DEF Sound, Attributes
  <2>4. /\ SameHealth(c, x) /\ SameAges(c, x) /\ SameBus(c, x) /\ x.state = c.state
        /\ x.active = c.active /\ x.newer = c.newer /\ x.syncAge = c.syncAge
        /\ x.started = c.started /\ x.pending = c.pending /\ x.attempts = c.attempts
        /\ x.information = c.information /\ x.capabilities = c.capabilities
        /\ x.valid = c.valid
    BY <2>1 DEF Sound, Attributes, SameHealth, SameAges, SameBus
  <2>5. Sound(x)
    BY <2>2, <2>3, <2>4 DEF Sound, Dialogue, AttemptsLeft, Heard, SameBus
  <2>6. Advances(c, x, busy)
    BY <2>3, <2>4 DEF Advances, StaysOpen, IsOpen
  <2>7. QED
    BY <2>3, <2>5, <2>6 DEF x
<1>3. QED
  BY <1>1, <1>2

(* A configuration and news complete the synchronization.                  *)
LEMMA CompletedOK ==
    ASSUME NEW c, Sound(c), NEW busy,
           Supported(c) /\ c.information /\ c.capabilities => c.committed
    PROVE  LET x == Completed(c)
           IN  /\ Sound(x) /\ Advances(c, x, busy)
               /\ Supported(x) /\ x.information /\ x.capabilities => x.committed
               /\ Supported(x) /\ ReadyNow(x) => ~x.active
<1> DEFINE x == Completed(c)
           due == Supported(c) /\ ReadyNow(c) /\ c.active
<1>1. CASE ~due
  <2>1. x = c
    BY <1>1 DEF Completed
  <2>2. Supported(c) /\ ReadyNow(c) => ~c.active
    BY <1>1
  <2> HIDE DEF x, due
  <2>3. QED
    BY <2>1, <2>2 DEF x, Advances, SameHealth, SameAges, SameBus, StaysOpen
<1>2. CASE due
  <2>1. x = [c EXCEPT !.active = FALSE, !.refreshIn = RefreshInterval]
    BY <1>2 DEF Completed
  <2>2. c.newer /\ RefreshInterval \in Nat
    BY <1>2, TimingParameters DEF ReadyNow
  <2> HIDE DEF x
  <2>3. x \in Attributes /\ x.active = FALSE
    BY <2>1, <2>2 DEF Sound, Attributes
  <2>4. /\ SameHealth(c, x) /\ SameAges(c, x) /\ SameBus(c, x) /\ x.state = c.state
        /\ x.newer = c.newer /\ x.syncAge = c.syncAge /\ x.configured = c.configured
        /\ x.started = c.started /\ x.pending = c.pending /\ x.attempts = c.attempts
        /\ x.information = c.information /\ x.capabilities = c.capabilities
        /\ x.valid = c.valid /\ x.committed = c.committed
    BY <2>1 DEF Sound, Attributes, SameHealth, SameAges, SameBus
  <2>5. Sound(x)
    BY <2>2, <2>3, <2>4 DEF Sound, Dialogue, AttemptsLeft, Heard, SameBus
  <2>6. Advances(c, x, busy)
    BY <2>2, <2>3, <2>4 DEF Advances, StaysOpen, IsOpen
  <2>7. Supported(x) /\ x.information /\ x.capabilities => x.committed
    BY <2>4 DEF Supported, SameBus
  <2>8. QED
    BY <2>3, <2>5, <2>6, <2>7 DEF x
<1>3. QED
  BY <1>1, <1>2

(* Synchronizing commits a supported configuration and ends when it is     *)
(* ready.                                                                  *)
LEMMA SynchronizedOK ==
    ASSUME NEW c, Sound(c), NEW busy
    PROVE  LET x == Synchronized(c, busy)
           IN  /\ Sound(x) /\ Advances(c, x, busy)
               /\ Supported(x) /\ x.information /\ x.capabilities => x.committed
               /\ Supported(x) /\ ReadyNow(x) => ~x.active
<1> DEFINE b == BegunIfDue(c, busy)
           m == Committed(b)
           x == Completed(m)
<1>1. Sound(b) /\ Advances(c, b, busy) /\ (Supported(b) => b.started)
  BY BegunOK
<1> HIDE DEF b
<1>2. /\ Sound(m) /\ Advances(b, m, busy)
      /\ Supported(m) /\ m.information /\ m.capabilities => m.committed
  BY <1>1, CommittedOK
<1> HIDE DEF m
<1>3. /\ Sound(x) /\ Advances(m, x, busy)
      /\ Supported(x) /\ x.information /\ x.capabilities => x.committed
      /\ Supported(x) /\ ReadyNow(x) => ~x.active
  BY <1>2, CompletedOK
<1>4. x = Synchronized(c, busy)
  BY DEF Synchronized, b, m
<1> HIDE DEF x
<1>5. Advances(c, x, busy)
  BY <1>1, <1>2, <1>3 DEF Advances, SameHealth, SameAges, SameBus, StaysOpen
<1>6. QED
  BY <1>3, <1>4, <1>5

(* The state that is shown; READY is claimed of a committed configuration  *)
(* and of news that are not old.                                           *)
Settles(c, x) ==
    /\ SameHealth(c, x) /\ SameAges(c, x) /\ SameBus(c, x) /\ SameSync(c, x)
    /\ StaysOpen(c, x)

(* READY is what the parts say, and nothing received is forgotten.         *)
LEMMA TransitionedOK ==
    ASSUME NEW c, Sound(c)
    PROVE  LET x == Transitioned(c)
           IN  /\ Sound(x) /\ Settles(c, x)
               /\ x.information = c.information /\ x.capabilities = c.capabilities
               /\ x.state = "ready" => Supported(c) /\ ReadyNow(c) /\ ~Degraded(c)
<1> DEFINE x == Transitioned(c)
           state == CASE ~Supported(c) /\ ~c.valid -> c.state
                      [] ~Supported(c) /\ c.valid ->
                            IF Degraded(c) THEN "degraded" ELSE "detecting_protocol"
                      [] Supported(c) ->
                            IF Degraded(c) THEN "degraded"
                            ELSE IF ReadyNow(c) THEN "ready" ELSE "synchronizing"
<1>1. x = [c EXCEPT !.state = state]
  BY DEF Transitioned
<1>2. \/ ~Supported(c) /\ ~c.valid /\ state = c.state
      \/ state \in {"degraded", "detecting_protocol", "synchronizing"}
      \/ Supported(c) /\ ReadyNow(c) /\ ~Degraded(c) /\ state = "ready"
  <2>1. CASE ~Supported(c) /\ ~c.valid
    BY <2>1
  <2>2. CASE ~Supported(c) /\ c.valid
    BY <2>2
  <2>3. CASE Supported(c)
    BY <2>3
  <2>4. QED
    BY <2>1, <2>2, <2>3
<1> HIDE DEF x, state
<1>3. /\ x.state = state /\ SameHealth(c, x) /\ SameAges(c, x) /\ SameBus(c, x)
      /\ SameSync(c, x) /\ x.configured = c.configured /\ x.pending = c.pending
      /\ x.attempts = c.attempts /\ x.information = c.information
      /\ x.capabilities = c.capabilities /\ x.valid = c.valid
  BY <1>1 DEF Sound, Attributes, SameHealth, SameAges, SameBus, SameSync
<1>4. x \in Attributes
  BY <1>1, <1>2 DEF Sound, Attributes
<1>5. state = "ready" => Supported(c) /\ ReadyNow(c) /\ ~Degraded(c) /\ c.valid
  BY <1>2 DEF Sound, Heard, Supported
<1>6. Sound(x)
  BY <1>3, <1>4, <1>5 DEF Sound, Dialogue, AttemptsLeft, Heard, SameSync, SameBus
<1>7. StaysOpen(c, x)
  BY <1>2, <1>3 DEF StaysOpen, IsOpen, Closed
<1>8. QED
  BY <1>3, <1>5, <1>6, <1>7 DEF x, Settles

(* A query is only asked of a slot while the configuration is incomplete.  *)
LEMMA QueriedOK ==
    ASSUME NEW c, Sound(c), NEW slot,
           Supported(c) /\ c.information /\ c.capabilities => c.committed
    PROVE  LET x == Queried(c, slot)
           IN  Sound(x) /\ Settles(c, x) /\ x.state = c.state
<1> DEFINE x == Queried(c, slot)
           pending == IF c.information THEN "capabilities" ELSE "information"
<1>1. CASE ~Queries(c, slot)
  BY <1>1 DEF Queried, Settles, SameHealth, SameAges, SameBus, SameSync, StaysOpen
<1>2. CASE Queries(c, slot)
  <2>1. x = [c EXCEPT !.pending = pending, !.pendingAge = 0, !.attempts = c.attempts + 1]
    BY <1>2 DEF Queried
  <2>2. /\ c.pending = None /\ ~c.committed /\ Supported(c)
        /\ ~(c.information /\ c.capabilities)
    BY <1>2 DEF Queries
  <2>3. /\ 0 \in 0..QueryTimeout /\ QueryAttempts \in Nat /\ c.attempts \in Nat
        /\ c.attempts + 1 \in Nat
    BY TimingParameters DEF Sound, Attributes
  <2>4. None \notin {"information", "capabilities"}
    BY ContentsAreMessages DEF Messages
  <2>5. /\ pending \in {"information", "capabilities"} /\ pending # None
        /\ pending = "information" => ~c.information
        /\ pending = "capabilities" => c.information /\ ~c.capabilities
    BY <2>2, <2>4
  <2> HIDE DEF x, pending
  <2>6. x \in Attributes
    BY <2>1, <2>3, <2>5 DEF Sound, Attributes
  <2>7. /\ SameHealth(c, x) /\ SameAges(c, x) /\ SameBus(c, x) /\ SameSync(c, x)
        /\ x.configured = c.configured /\ x.information = c.information
        /\ x.capabilities = c.capabilities /\ x.valid = c.valid /\ x.state = c.state
    BY <2>1 DEF Sound, Attributes, SameHealth, SameAges, SameBus, SameSync
  <2>8. x.pending = pending /\ x.attempts = c.attempts + 1
    BY <2>1 DEF Sound, Attributes
  <2>9. c.attempts < QueryAttempts /\ ~c.vetoed
    BY <2>2 DEF Sound, AttemptsLeft, Supported
  <2>10. AttemptsLeft(x)
    BY <2>3, <2>5, <2>8, <2>9 DEF AttemptsLeft
  <2>11. Dialogue(x) /\ Heard(x)
    BY <2>2, <2>5, <2>7, <2>8, <2>9 DEF Sound, Dialogue, Heard, SameSync, SameBus
  <2>12. QED
    BY <2>6, <2>7, <2>10, <2>11 DEF x, Sound, Settles, StaysOpen, IsOpen
<1>3. QED
  BY <1>1, <1>2

(* Health starts with READY, and is over when READY is.                    *)
LEMMA HealthyOK ==
    ASSUME NEW c, Sound(c)
    PROVE  LET x == Healthy(c)
           IN  /\ Sound(x) /\ SameAges(c, x) /\ SameBus(c, x) /\ SameSync(c, x)
               /\ x.state = c.state
               /\ x.healthy # None =>
                     c.state = "ready" /\ (x.healthy = 0 \/ x.healthy = c.healthy)
               /\ x.resetDone /\ ~c.resetDone => c.healthy # None /\ c.healthy >= HealthyReset
<1> DEFINE x == Healthy(c)
           lasted == c.healthy # None /\ c.healthy >= HealthyReset
           healthy == IF c.state # "ready" THEN None
                      ELSE IF c.healthy = None THEN 0 ELSE c.healthy
           done == IF c.state # "ready" THEN FALSE ELSE c.resetDone \/ lasted
<1>1. x = [c EXCEPT !.healthy = healthy, !.resetDone = done]
  <2>1. CASE c.state # "ready"
    BY <2>1 DEF Healthy
  <2>2. CASE c.state = "ready"
    BY <2>2 DEF Healthy
  <2>3. QED
    BY <2>1, <2>2
<1>2. /\ healthy \in {None} \cup (0..HealthyReset)
      /\ healthy # None => c.state = "ready" /\ (healthy = 0 \/ healthy = c.healthy)
  BY TimingParameters DEF Sound, Attributes
<1>3. done \in BOOLEAN
  BY DEF Sound, Attributes
<1>4. done /\ ~c.resetDone => lasted
  OBVIOUS
<1> HIDE DEF x, healthy, done, lasted
<1>5. x \in Attributes
  BY <1>1, <1>2, <1>3 DEF Sound, Attributes
<1>6. /\ SameAges(c, x) /\ SameBus(c, x) /\ SameSync(c, x) /\ x.state = c.state
      /\ x.configured = c.configured /\ x.information = c.information
      /\ x.capabilities = c.capabilities /\ x.valid = c.valid /\ x.pending = c.pending
      /\ x.attempts = c.attempts
  BY <1>1 DEF Sound, Attributes, SameAges, SameBus, SameSync
<1>7. x.healthy = healthy /\ x.resetDone = done
  BY <1>1 DEF Sound, Attributes
<1>8. Sound(x)
  BY <1>5, <1>6 DEF Sound, Dialogue, AttemptsLeft, Heard, SameSync, SameBus
<1>9. QED
  BY <1>2, <1>4, <1>6, <1>7, <1>8 DEF x, lasted

(* What is shown is a status that is not old.                              *)
LEMMA ObservedOK ==
    ASSUME NEW c, Sound(c)
    PROVE  LET x == Observed(c)
           IN  /\ Sound(x) /\ SameAges(c, x) /\ SameHealth(c, x) /\ SameSync(c, x)
               /\ x.state = c.state /\ x.status = c.status /\ x.vetoed = c.vetoed
               /\ ShownOK(x, TRUE)
<1> DEFINE x == Observed(c)
           stale == ~c.status \/ c.statusAge >= StaleAfter
<1>1. x = [c EXCEPT !.stale = stale]
  BY DEF Observed
<1>2. stale \in BOOLEAN
  OBVIOUS
<1>3. ~stale => c.status /\ c.statusAge < StaleAfter /\ c.statusAge <= StaleAfter
  BY TimingParameters DEF Sound, Attributes
<1> HIDE DEF x, stale
<1>4. /\ SameAges(c, x) /\ SameHealth(c, x) /\ SameSync(c, x) /\ x.state = c.state
      /\ x.status = c.status /\ x.vetoed = c.vetoed /\ x.stale = stale
      /\ x.configured = c.configured /\ x.information = c.information
      /\ x.capabilities = c.capabilities /\ x.valid = c.valid /\ x.pending = c.pending
      /\ x.attempts = c.attempts
  BY <1>1 DEF Sound, Attributes, SameAges, SameHealth, SameSync
<1>5. x \in Attributes
  BY <1>1, <1>2 DEF Sound, Attributes
<1>6. Sound(x)
  BY <1>4, <1>5 DEF Sound, Dialogue, AttemptsLeft, Heard, SameSync
<1>7. ShownOK(x, TRUE)
  BY <1>3, <1>4 DEF ShownOK, SameAges
<1>8. QED
  BY <1>4, <1>6, <1>7 DEF x

-----------------------------------------------------------------------------
(* The phases of a pass.                                                   *)

(* Silence that is short enough is short in each of its ages.              *)
LEMMA YoungAges ==
    ASSUME NEW c \in Attributes, NEW k \in Nat, ~(Max(Ages(c)) >= k)
    PROVE  /\ c.validAge < k
           /\ Supported(c) => c.statusAge < k /\ (mode = "classic" => c.readyAge < k)
<1>1. \A a \in Ages(c) : ~(a >= k)
  BY OldestAge
<1>2. c.validAge \in Nat /\ c.statusAge \in Nat /\ c.readyAge \in Nat
  BY TimingParameters DEF Attributes
<1>3. \A a \in Nat : ~(a >= k) => a < k
  OBVIOUS
<1>4. /\ c.validAge \in Ages(c)
      /\ Supported(c) => c.statusAge \in Ages(c) /\ (mode = "classic" => c.readyAge \in Ages(c))
  BY DEF Ages
<1>5. QED
  BY <1>1, <1>2, <1>3, <1>4

(* From what was received to the end of a pass that does not fail.         *)
Concludes(c, x, busy) ==
    /\ SameAges(c, x) /\ x.status = c.status /\ x.vetoed = c.vetoed
    /\ x.active => c.active \/ c.status
    /\ x.active /\ x.newer => c.active /\ c.newer /\ x.syncAge = c.syncAge
    /\ c.active /\ ~x.active => c.newer
    /\ busy /\ c.committed => x.committed
    /\ x.healthy # None => x.state = "ready" /\ (x.healthy = 0 \/ x.healthy = c.healthy)
    /\ x.resetDone /\ ~c.resetDone => c.healthy # None /\ c.healthy >= HealthyReset

(* An iteration that ends well leaves a connection whose state is          *)
(* justified.                                                              *)
LEMMA ConcludedOK ==
    ASSUME NEW c, Sound(c), IsOpen(c), ~Overdue(c), NEW busy, NEW slot,
           ~SyncLate(Synchronized(c, busy))
    PROVE  LET x == Observed(Healthy(Queried(Transitioned(Synchronized(c, busy)), slot)))
           IN  /\ Sound(x) /\ IsOpen(x) /\ Concludes(c, x, busy)
               /\ ReadyOK(x, TRUE) /\ ShownOK(x, TRUE) /\ InTime(x, TRUE)
<1> DEFINE y == Synchronized(c, busy)
           t == Transitioned(y)
           q == Queried(t, slot)
           h == Healthy(q)
           x == Observed(h)
<1>1. /\ Sound(y) /\ Advances(c, y, busy)
      /\ Supported(y) /\ y.information /\ y.capabilities => y.committed
      /\ Supported(y) /\ ReadyNow(y) => ~y.active
  BY SynchronizedOK
<1>2. ~SyncLate(y)
  OBVIOUS
<1> HIDE DEF y
<1>3. /\ Sound(t) /\ Settles(y, t)
      /\ t.information = y.information /\ t.capabilities = y.capabilities
      /\ t.state = "ready" => Supported(y) /\ ReadyNow(y) /\ ~Degraded(y)
  BY <1>1, TransitionedOK
<1> HIDE DEF t
<1>4. Supported(t) /\ t.information /\ t.capabilities => t.committed
  BY <1>1, <1>3 DEF Settles, Supported, SameBus, SameSync
<1>5. Sound(q) /\ Settles(t, q) /\ q.state = t.state
  BY <1>3, <1>4, QueriedOK
<1> HIDE DEF q
<1>6. /\ Sound(h) /\ SameAges(q, h) /\ SameBus(q, h) /\ SameSync(q, h) /\ h.state = q.state
      /\ h.healthy # None => q.state = "ready" /\ (h.healthy = 0 \/ h.healthy = q.healthy)
      /\ h.resetDone /\ ~q.resetDone => q.healthy # None /\ q.healthy >= HealthyReset
  BY <1>5, HealthyOK
<1> HIDE DEF h
<1>7. /\ Sound(x) /\ SameAges(h, x) /\ SameHealth(h, x) /\ SameSync(h, x)
      /\ x.state = h.state /\ x.status = h.status /\ x.vetoed = h.vetoed
      /\ ShownOK(x, TRUE)
  BY <1>6, ObservedOK
<1> HIDE DEF x
<1>8. /\ SameAges(y, x) /\ x.status = y.status /\ x.vetoed = y.vetoed /\ SameSync(y, x)
      /\ x.state = t.state
  BY <1>3, <1>5, <1>6, <1>7 DEF Settles, SameAges, SameBus, SameSync
<1>9. /\ SameAges(c, x) /\ x.status = c.status /\ x.vetoed = c.vetoed
  BY <1>1, <1>8 DEF Advances, SameAges, SameBus
<1>10. IsOpen(x)
  BY <1>1, <1>3, <1>8 DEF Advances, Settles, StaysOpen, IsOpen
<1>11. Concludes(c, x, busy)
  <2>1. /\ x.active => c.active \/ c.status
        /\ x.active /\ x.newer => c.active /\ c.newer /\ x.syncAge = c.syncAge
        /\ c.active /\ ~x.active => c.newer
        /\ busy /\ c.committed => x.committed
    BY <1>1, <1>8 DEF Advances, SameSync
  <2>2. q.healthy = c.healthy /\ q.resetDone = c.resetDone
    BY <1>1, <1>3, <1>5 DEF Advances, Settles, SameHealth
  <2>3. x.healthy = h.healthy /\ x.resetDone = h.resetDone /\ x.state = q.state
    BY <1>6, <1>7 DEF SameHealth
  <2>4. /\ x.healthy # None => x.state = "ready" /\ (x.healthy = 0 \/ x.healthy = c.healthy)
        /\ x.resetDone /\ ~c.resetDone => c.healthy # None /\ c.healthy >= HealthyReset
    BY <1>6, <2>2, <2>3
  <2>5. QED
    BY <1>9, <2>1, <2>4 DEF Concludes
<1>12. ReadyOK(x, TRUE)
  <2> SUFFICES ASSUME x.state = "ready"
               PROVE  ReadyOK(x, TRUE)
    BY DEF ReadyOK
  <2>1. Supported(y) /\ ReadyNow(y) /\ ~y.active /\ ~(Max(Ages(y)) >= DegradeAfter)
    BY <1>1, <1>3, <1>8 DEF Degraded
  <2>2. /\ DegradeAfter \in Nat /\ y \in Attributes
        /\ x.statusAge \in Nat /\ x.readyAge \in Nat
    BY <1>1, <1>7, TimingParameters DEF Sound, Attributes
  <2>3. y.statusAge < DegradeAfter /\ (mode = "classic" => y.readyAge < DegradeAfter)
    BY <2>1, <2>2, YoungAges
  <2>4. x.statusAge < DegradeAfter /\ (mode = "classic" => x.readyAge < DegradeAfter)
    BY <2>3, <1>8 DEF SameAges
  <2>5. x.statusAge <= DegradeAfter /\ (mode = "classic" => x.readyAge <= DegradeAfter)
    BY <2>2, <2>4
  <2>6. x.committed /\ x.newer /\ ~x.active /\ ~x.vetoed
    BY <2>1, <1>8 DEF ReadyNow, Supported, SameSync
  <2>7. QED
    BY <2>4, <2>5, <2>6 DEF ReadyOK
<1>13. InTime(x, TRUE)
  <2>1. RecoverAfter \in Nat /\ c \in Attributes /\ ~(Max(Ages(c)) >= RecoverAfter)
    BY TimingParameters DEF Sound, Overdue
  <2>2. /\ c.validAge < RecoverAfter
        /\ Supported(c) => /\ c.statusAge < RecoverAfter
                           /\ mode = "classic" => c.readyAge < RecoverAfter
    BY <2>1, YoungAges
  <2>3. Supported(c) = Supported(x) /\ Supported(y) = Supported(x)
    BY <1>8, <1>9 DEF Supported
  <2>4. x.syncAge \in Nat /\ SyncTimeout \in Nat
    BY <1>7, TimingParameters DEF Sound, Attributes
  <2>5. Supported(x) /\ x.active => x.syncAge < SyncTimeout
    BY <1>2, <1>8, <2>3, <2>4 DEF SyncLate, SameSync
  <2>6. QED
    BY <1>9, <2>2, <2>3, <2>5 DEF InTime, SameAges
<1>14. QED
  BY <1>7, <1>10, <1>11, <1>12, <1>13 DEF x, h, q, t, y

-----------------------------------------------------------------------------
(* The back-off.                                                           *)

(* A back-off never shrinks before a success, and stays in its bounds.     *)
LEMMA BackoffBounds ==
    ASSUME NEW b \in BackoffInitial..BackoffMax
    PROVE  /\ NextBase(b) \in BackoffInitial..BackoffMax /\ NextBase(b) >= b
           /\ Delays(b) \subseteq 0..BackoffMax
<1>1. BackoffInitial \in Nat /\ BackoffMax \in Nat /\ b \in Nat
  BY TimingParameters
<1>2. NextBase(b) = IF BackoffMax <= 2 * b THEN BackoffMax ELSE 2 * b
  BY <1>1, LesserGreater DEF NextBase
<1>3. ASSUME NEW d \in Nat
      PROVE  Min({BackoffMax, d}) \in 0..BackoffMax
  <2>1. Min({BackoffMax, d}) = IF BackoffMax <= d THEN BackoffMax ELSE d
    BY <1>1, LesserGreater
  <2>2. QED
    BY <1>1, <2>1
<1>4. Delays(b) \subseteq 0..BackoffMax
  <2> SUFFICES ASSUME NEW e \in Delays(b)
               PROVE  e \in 0..BackoffMax
    OBVIOUS
  <2>1. PICK d \in 0..(2 * b) : e = Min({BackoffMax, d})
    BY DEF Delays
  <2>2. d \in Nat
    BY <1>1
  <2>3. QED
    BY <2>1, <2>2, <1>3
<1>5. QED
  BY <1>1, <1>2, <1>4

-----------------------------------------------------------------------------
(* The steps of the task.                                                  *)

NewsEnd == conn.active /\ conn'.committed /\ ~conn'.active => conn'.statusAge < conn.syncAge
Earned == base' < base => readyRun >= HealthyReset
Kept == CInv' /\ NewsEnd /\ Earned

(* The next socket, or none: what is shown starts over.                    *)
LEMMA AnewOK ==
    ASSUME CInv, NEW state \in Closed \cup {"waiting_for_frame"},
           conn' = Fresh(state), mode' = mode, world' = world,
           base' \in BackoffInitial..BackoffMax, sleep' \in 0..BackoffMax,
           asking' = FALSE, readyRun' \in Nat,
           passed' \in BOOLEAN, state = "waiting_for_frame" => ~passed'
    PROVE  CInv' /\ NewsEnd
<1> DEFINE x == Fresh(state)
<1>1. /\ Sound(x) /\ x.state = state /\ ~x.active /\ x.stale /\ ~x.committed /\ x.healthy = None
      /\ x.statusAge = 0 /\ ~x.vetoed /\ ~x.status /\ x.validAge = 0
  BY FreshIsSound
<1> HIDE DEF x
<1>2. conn' = x
  BY DEF x
<1>3. state # "ready" /\ (IsOpen(x) => ~passed')
  BY <1>1 DEF Closed, IsOpen
<1>4. Sound(x)' /\ Sound(conn')
  BY <1>1, <1>2
<1>5. QED
  BY <1>1, <1>2, <1>3, <1>4
     DEF CInv, NewsEnd, ReadyOK, ShownOK, InTime, SyncOK, HealthOK, AskingOK, Sound, IsOpen

(* A failure costs a delay, and the next one more, unless the back-off was *)
(* started over before.                                                    *)
LEMMA RecoveredOK ==
    ASSUME CInv, NEW b \in BackoffInitial..BackoffMax, Recovered(b),
           b >= base \/ readyRun >= HealthyReset
    PROVE  Kept
<1>1. /\ NextBase(b) \in BackoffInitial..BackoffMax /\ NextBase(b) >= b
      /\ Delays(b) \subseteq 0..BackoffMax
  BY BackoffBounds
<1>2. /\ conn' = Fresh("disconnected") /\ mode' = mode /\ world' = world /\ asking' = FALSE /\ readyRun' \in Nat
      /\ passed' \in BOOLEAN /\ base' = NextBase(b) /\ sleep' \in 0..BackoffMax
  BY <1>1 DEF Recovered
<1>3. "disconnected" \in Closed \cup {"waiting_for_frame"} /\ "disconnected" # "waiting_for_frame"
  BY DEF Closed
<1>4. CInv' /\ NewsEnd
  BY <1>1, <1>2, <1>3, AnewOK
<1>5. Earned
  <2>1. base \in Nat /\ b \in Nat /\ NextBase(b) \in Nat
    BY <1>1, TimingParameters DEF CInv
  <2>2. b >= base => ~(NextBase(b) < base)
    BY <1>1, <2>1
  <2>3. QED
    BY <1>2, <2>2 DEF Earned
<1>6. QED
  BY <1>4, <1>5 DEF Kept

(* A delay that is over keeps the invariant.                               *)
LEMMA RetryOK ==
    ASSUME CInv, Retry
    PROVE  Kept
<1>1. "connecting" \in Closed \cup {"waiting_for_frame"} /\ "connecting" # "waiting_for_frame"
  BY DEF Closed
<1>2. ~IsOpen(conn)
  BY DEF Retry, IsOpen, Closed
<1>3. asking = FALSE /\ readyRun \in Nat
  BY <1>2 DEF CInv, AskingOK, HealthOK
<1>4. CInv' /\ NewsEnd
  BY <1>1, <1>3, AnewOK DEF Retry, CInv
<1>5. base \in Nat /\ base' = base
  BY TimingParameters DEF CInv, Retry
<1>6. QED
  BY <1>4, <1>5 DEF Kept, Earned

(* A socket that opens, or does not, keeps the invariant.                  *)
LEMMA OpenedOK ==
    ASSUME CInv, Opened
    PROVE  Kept
<1>1. ~IsOpen(conn)
  BY DEF Opened, IsOpen, Closed
<1>2. asking = FALSE /\ readyRun \in Nat
  BY <1>1 DEF CInv, AskingOK, HealthOK
<1>3. CInv' /\ NewsEnd
  BY <1>2, AnewOK DEF Opened, CInv
<1>4. base \in Nat /\ base' = base
  BY TimingParameters DEF CInv, Opened
<1>5. QED
  BY <1>3, <1>4 DEF Kept, Earned

(* A stopped connection keeps the invariant.                               *)
LEMMA StopOK ==
    ASSUME CInv, Stop
    PROVE  Kept
<1>1. "stopped" \in Closed \cup {"waiting_for_frame"} /\ "stopped" # "waiting_for_frame"
  BY DEF Closed
<1>2. 0 \in 0..BackoffMax
  BY TimingParameters
<1>3. CInv' /\ NewsEnd
  BY <1>1, <1>2, AnewOK DEF Stop, CInv
<1>4. base \in Nat /\ base' = base
  BY TimingParameters DEF CInv, Stop
<1>5. QED
  BY <1>3, <1>4 DEF Kept, Earned

(* What the network does meanwhile keeps the invariant.                    *)
LEMMA CalmsOK ==
    ASSUME CInv, UNCHANGED <<mode, conn, base, sleep, asking, passed, readyRun>>,
           world' \in {"wild", "benign", "silent"}
    PROVE  Kept
<1>1. CInv'
  BY DEF CInv, ReadyOK, ShownOK, InTime, SyncOK, HealthOK, AskingOK
<1>2. base \in Nat /\ base' = base
  BY TimingParameters DEF CInv
<1>3. QED
  BY <1>1, <1>2 DEF Kept, NewsEnd, Earned

(* A pass of the loop.  What was received belongs to the synchronization   *)
(* that waits for it, since that has waited for a unit at least; the health*)
(* is not longer than READY was held.                                      *)
LEMMA PassOK ==
    ASSUME CInv, IsOpen(conn), ~passed, NEW read, NEW slot,
           NEW answered \in BOOLEAN, NEW recovers \in BOOLEAN, NEW wants \in BOOLEAN,
           Pass(read, slot, answered, recovers, wants)
    PROVE  Kept
<1> DEFINE c == Received(conn, read)
           busy == asking /\ ~answered
           y == Synchronized(c, busy)
           x == Observed(Healthy(Queried(Transitioned(y), slot)))
           lost == (~conn.valid /\ conn.validAge >= FirstFrame) \/ AttemptsSpent(conn)
<1>1. base \in BackoffInitial..BackoffMax /\ base >= base
  BY TimingParameters DEF CInv
<1>2. Recovered(base) => Kept
  BY <1>1, RecoveredOK
<1>3. ~lost => Judged(c, slot, busy, recovers, wants)
  BY DEF Pass
<1>4. lost => Recovered(base)
  BY DEF Pass
<1> SUFFICES ASSUME ~lost
             PROVE  Kept
  BY <1>2, <1>4
<1>5. /\ Overdue(c) => Recovered(base)
      /\ ~Overdue(c) => Proceeds(y, slot, busy, recovers, wants)
  BY <1>3 DEF Judged
<1>6. /\ SyncLate(y) => Recovered(base) \/ Overdue(c)
      /\ ~Overdue(c) /\ ~SyncLate(y) => Passed(x, slot, busy, recovers, wants)
  BY <1>5 DEF Proceeds
<1> SUFFICES ASSUME ~Overdue(c), ~SyncLate(y), Passed(x, slot, busy, recovers, wants)
             PROVE  Kept
  BY <1>2, <1>5, <1>6
<1>7. Sound(conn) /\ ~AttemptsSpent(conn)
  BY DEF CInv
<1>8. Sound(c) /\ Receives(conn, c)
  BY <1>7, ReceivedOK
<1>9. IsOpen(c)
  BY <1>8 DEF Receives, StaysOpen
<1> HIDE DEF c, lost, busy
<1>10. /\ Sound(x) /\ IsOpen(x) /\ Concludes(c, x, busy)
       /\ ReadyOK(x, TRUE) /\ ShownOK(x, TRUE) /\ InTime(x, TRUE)
  BY <1>8, <1>9, ConcludedOK
<1> HIDE DEF x
<1>11. x.resetDone /\ ~conn.resetDone => readyRun >= HealthyReset
  <2> SUFFICES ASSUME x.resetDone, ~conn.resetDone
               PROVE  readyRun >= HealthyReset
    OBVIOUS
  <2>1. c.healthy = conn.healthy /\ c.resetDone = conn.resetDone
    BY <1>8 DEF Receives, SameHealth
  <2>2. conn.healthy # None /\ conn.healthy >= HealthyReset
    BY <1>10, <2>1 DEF Concludes
  <2>3. conn.healthy <= readyRun /\ readyRun \in Nat
    BY <2>2 DEF CInv, HealthOK
  <2>4. conn.healthy \in Nat /\ HealthyReset \in Nat
    BY <2>2, TimingParameters DEF CInv, Sound, Attributes
  <2>5. QED
    BY <2>2, <2>3, <2>4
<1>12. /\ BaseAfter(x) \in BackoffInitial..BackoffMax
       /\ BaseAfter(x) >= base \/ readyRun >= HealthyReset
  BY <1>1, <1>11, TimingParameters DEF BaseAfter
<1>13. ASSUME c.active, c.newer
       PROVE  c.statusAge < conn.syncAge /\ c.syncAge = conn.syncAge
  <2>1. conn.active /\ c.syncAge = conn.syncAge
    BY <1>8, <1>13 DEF Receives
  <2>2. c.statusAge = 0 \/ (conn.newer /\ c.statusAge = conn.statusAge)
    BY <1>8, <1>13 DEF Receives
  <2>3. conn.syncAge >= 1 /\ (conn.newer => conn.statusAge < conn.syncAge)
    BY <2>1 DEF CInv, SyncOK
  <2>4. conn.syncAge \in Nat
    BY TimingParameters DEF CInv, Sound, Attributes
  <2>5. QED
    BY <2>1, <2>2, <2>3, <2>4
<1>14. CASE recovers
  BY <1>12, <1>14, RecoveredOK DEF Passed
<1>15. CASE ~recovers
  <2>1. /\ conn' = x /\ base' = BaseAfter(x) /\ passed' = TRUE
        /\ asking' = (busy \/ (wants /\ slot /\ x.state = "ready"))
        /\ readyRun' = IF x.state = "ready" THEN Min({readyRun + 1, HealthyReset + 1}) ELSE 0
        /\ mode' = mode /\ sleep' = sleep
        /\ world' = world
    BY <1>15 DEF Passed
  <2>2. /\ readyRun \in Nat /\ HealthyReset \in Nat /\ readyRun + 1 \in Nat
        /\ HealthyReset + 1 \in Nat
    BY TimingParameters DEF CInv, HealthOK
  <2>3. Min({readyRun + 1, HealthyReset + 1})
           = IF readyRun + 1 <= HealthyReset + 1 THEN readyRun + 1 ELSE HealthyReset + 1
    BY <2>2, LesserGreater
  <2>4. readyRun' \in Nat
    BY <2>1, <2>2, <2>3
  <2>5. ASSUME x.healthy # None
        PROVE  x.state = "ready" /\ x.healthy < readyRun' /\ x.healthy <= readyRun'
    <3>1. x.state = "ready" /\ (x.healthy = 0 \/ x.healthy = conn.healthy)
      BY <1>8, <1>10, <2>5 DEF Concludes, Receives, SameHealth
    <3>2. x.healthy \in 0..HealthyReset
      BY <1>10, <2>5 DEF Sound, Attributes
    <3>3. x.healthy = conn.healthy => x.healthy <= readyRun
      BY <2>5 DEF CInv, HealthOK
    <3>4. readyRun' = IF readyRun <= HealthyReset THEN readyRun + 1 ELSE HealthyReset + 1
      BY <2>1, <2>2, <2>3, <3>1
    <3>5. x.healthy < readyRun'
      BY <2>2, <3>1, <3>2, <3>3, <3>4
    <3>6. QED
      BY <2>4, <3>1, <3>2, <3>5
  <2>6. HealthOK(conn, passed)'
    BY <2>1, <2>4, <2>5 DEF HealthOK
  <2>7. SyncOK(x, TRUE)
    <3>1. x.active => x.status
      BY <1>8, <1>10 DEF CInv, Concludes, Receives, SyncOK
    <3>2. ASSUME x.active, x.newer
          PROVE  x.statusAge < x.syncAge
      <4>1. /\ c.active /\ c.newer /\ x.syncAge = c.syncAge /\ x.statusAge = c.statusAge
        BY <1>10, <3>2 DEF Concludes, SameAges
      <4>2. QED
        BY <1>13, <4>1
    <3>3. QED
      BY <1>10, <3>1, <3>2 DEF SyncOK
  <2>8. asking' \in BOOLEAN /\ (asking' => x.committed \/ x.vetoed)
    <3>1. asking' \in BOOLEAN
      BY <2>1 DEF busy
    <3>2. x.state = "ready" => x.committed
      BY <1>10 DEF ReadyOK
    <3>3. busy => x.committed \/ x.vetoed
      <4>1. busy => conn.committed \/ conn.vetoed
        BY DEF CInv, AskingOK, busy
      <4>2. conn.committed \/ conn.vetoed => c.committed \/ c.vetoed
        BY <1>8 DEF Receives
      <4>3. QED
        BY <1>10, <4>1, <4>2 DEF Concludes
    <3>4. QED
      BY <2>1, <3>1, <3>2, <3>3
  <2>9. AskingOK(conn)'
    BY <1>10, <2>1, <2>8 DEF AskingOK
  <2>10. /\ ReadyOK(conn, passed)' /\ ShownOK(conn, passed)' /\ InTime(conn, passed)'
         /\ SyncOK(conn, passed)' /\ Sound(conn)'
    BY <1>10, <2>1, <2>7 DEF ReadyOK, ShownOK, InTime, SyncOK, Sound
  <2>11. CInv'
    BY <1>12, <2>1, <2>6, <2>8, <2>9, <2>10
       DEF CInv
  <2>12. NewsEnd
    <3> SUFFICES ASSUME conn.active, x.committed, ~x.active
                 PROVE  x.statusAge < conn.syncAge
      BY <2>1 DEF NewsEnd
    <3>1. ~c.vetoed
      BY <1>10 DEF Sound, Dialogue, Concludes
    <3>2. c.active /\ c.newer /\ x.statusAge = c.statusAge
      BY <1>8, <1>10, <3>1 DEF Receives, Concludes, SameAges
    <3>3. QED
      BY <1>13, <3>2
  <2>13. Earned
    BY <2>1, <1>12, TimingParameters, <1>1 DEF Earned
  <2>14. QED
    BY <2>11, <2>12, <2>13 DEF Kept
<1>16. QED
  BY <1>14, <1>15

(* An iteration keeps the invariant.                                       *)
LEMMA IterateOK ==
    ASSUME CInv, Iterate
    PROVE  Kept
<1>1. IsOpen(conn) /\ ~passed
  BY DEF Iterate
<1>2. \E read, slot : \E answered, recovers, wants \in BOOLEAN :
         Pass(read, slot, answered, recovers, wants)
  <2>1. CASE world = "wild"
    <3>1. PICK read \in Contents, answered \in BOOLEAN, wants \in BOOLEAN,
               recovers \in (IF asking THEN BOOLEAN ELSE {FALSE}) :
                  \E slot \in Slots(read) : Pass(read, slot, answered, recovers, wants)
      BY <2>1 DEF Iterate
    <3>2. recovers \in BOOLEAN
      OBVIOUS
    <3>3. QED
      BY <3>1, <3>2
  <2>2. CASE world = "benign"
    BY <2>2 DEF Iterate
  <2>3. CASE world = "silent"
    BY <2>3 DEF Iterate
  <2>4. QED
    BY <2>1, <2>2, <2>3 DEF CInv
<1>3. QED
  BY <1>1, <1>2, PassOK

-----------------------------------------------------------------------------
(* A unit of time.                                                         *)

(* An age grows by one, up to its bound.                                   *)
LEMMA OlderOK ==
    ASSUME NEW most \in Nat, NEW age \in 0..most
    PROVE  /\ Older(age, most) \in 0..most
           /\ Older(age, most) <= age + 1
           /\ age < most => Older(age, most) = age + 1
<1>1. most \in Int /\ age + 1 \in Int
  OBVIOUS
<1>2. Older(age, most) = IF most <= age + 1 THEN most ELSE age + 1
  BY <1>1, LesserGreater DEF Older
<1>3. QED
  BY <1>2

(* What a unit of time does to the attributes.                             *)
LEMMA AgedOK ==
    ASSUME NEW c, Sound(c)
    PROVE  LET x == Aged(c)
           IN  /\ Sound(x) /\ x.state = c.state /\ SameBus(c, x)
               /\ x.started = c.started /\ x.active = c.active
               /\ x.committed = c.committed /\ x.newer = c.newer
               /\ IsOpen(c) => /\ x.statusAge = Older(c.statusAge, RecoverAfter)
                               /\ x.readyAge = Older(c.readyAge, RecoverAfter)
               /\ ~IsOpen(c) => x.statusAge = 0
               /\ c.active => x.syncAge = Older(c.syncAge, SyncTimeout)
               /\ x.healthy = IF c.healthy = None THEN None ELSE Older(c.healthy, HealthyReset)
<1> DEFINE x == Aged(c)
           age == IF c.state = "connecting" THEN Older(c.age, ConnectTimeout) ELSE 0
           valid == IF IsOpen(c) THEN Older(c.validAge, RecoverAfter) ELSE 0
           status == IF IsOpen(c) THEN Older(c.statusAge, RecoverAfter) ELSE 0
           ready == IF IsOpen(c) THEN Older(c.readyAge, RecoverAfter) ELSE 0
           pending == IF c.pending = None THEN 0 ELSE Older(c.pendingAge, QueryTimeout)
           sync == IF c.active THEN Older(c.syncAge, SyncTimeout) ELSE 0
           refresh == IF c.started THEN Max({0, c.refreshIn - 1}) ELSE 0
           healthy == IF c.healthy = None THEN None ELSE Older(c.healthy, HealthyReset)
           y == [c EXCEPT !.age = age, !.validAge = valid, !.statusAge = status,
                          !.readyAge = ready]
<1>1. x = [y EXCEPT !.pendingAge = pending, !.syncAge = sync, !.refreshIn = refresh,
                    !.healthy = healthy]
  BY DEF Aged
<1>2. /\ RecoverAfter \in Nat /\ QueryTimeout \in Nat /\ SyncTimeout \in Nat
      /\ HealthyReset \in Nat /\ ConnectTimeout \in Nat
  BY TimingParameters
<1>3. /\ c.validAge \in 0..RecoverAfter /\ c.statusAge \in 0..RecoverAfter
      /\ c.readyAge \in 0..RecoverAfter /\ c.pendingAge \in 0..QueryTimeout
      /\ c.syncAge \in 0..SyncTimeout /\ c.healthy \in {None} \cup (0..HealthyReset)
      /\ c.age \in Nat /\ c.refreshIn \in Nat
  BY DEF Sound, Attributes
<1>4. age \in Nat
  <2>1. c.age + 1 \in Nat /\ ConnectTimeout \in Int /\ c.age + 1 \in Int
    BY <1>2, <1>3
  <2>2. Older(c.age, ConnectTimeout)
           = IF ConnectTimeout <= c.age + 1 THEN ConnectTimeout ELSE c.age + 1
    BY <2>1, LesserGreater DEF Older
  <2>3. QED
    BY <1>2, <2>1, <2>2
<1>5. valid \in 0..RecoverAfter /\ status \in 0..RecoverAfter /\ ready \in 0..RecoverAfter
  <2>1. /\ Older(c.validAge, RecoverAfter) \in 0..RecoverAfter
        /\ Older(c.statusAge, RecoverAfter) \in 0..RecoverAfter
        /\ Older(c.readyAge, RecoverAfter) \in 0..RecoverAfter
    BY <1>2, <1>3, OlderOK
  <2>2. 0 \in 0..RecoverAfter
    BY <1>2
  <2>3. QED
    BY <2>1, <2>2
<1>6. pending \in 0..QueryTimeout /\ sync \in 0..SyncTimeout
  <2>1. /\ Older(c.pendingAge, QueryTimeout) \in 0..QueryTimeout
        /\ Older(c.syncAge, SyncTimeout) \in 0..SyncTimeout
    BY <1>2, <1>3, OlderOK
  <2>2. 0 \in 0..QueryTimeout /\ 0 \in 0..SyncTimeout
    BY <1>2
  <2>3. QED
    BY <2>1, <2>2
<1>7. healthy \in {None} \cup (0..HealthyReset)
  BY <1>2, <1>3, OlderOK
<1>8. refresh \in Nat
  <2>1. 0 \in Int /\ c.refreshIn - 1 \in Int
    BY <1>3
  <2>2. Max({0, c.refreshIn - 1}) = IF 0 >= c.refreshIn - 1 THEN 0 ELSE c.refreshIn - 1
    BY <2>1, LesserGreater
  <2>3. QED
    BY <1>3, <2>2
<1>9. /\ IsOpen(c) => /\ status = Older(c.statusAge, RecoverAfter)
                      /\ ready = Older(c.readyAge, RecoverAfter)
      /\ ~IsOpen(c) => status = 0
      /\ c.active => sync = Older(c.syncAge, SyncTimeout)
      /\ healthy = IF c.healthy = None THEN None ELSE Older(c.healthy, HealthyReset)
  OBVIOUS
<1> HIDE DEF x, age, valid, status, ready, pending, sync, refresh, healthy
<1>10. y \in Attributes
  BY <1>4, <1>5 DEF Sound, Attributes
<1>11. /\ y.state = c.state /\ SameBus(c, y) /\ SameSync(c, y) /\ y.pending = c.pending
       /\ y.attempts = c.attempts /\ y.information = c.information
       /\ y.capabilities = c.capabilities /\ y.configured = c.configured
       /\ y.valid = c.valid /\ y.statusAge = status /\ y.readyAge = ready
  BY DEF Sound, Attributes, SameBus, SameSync
<1> HIDE DEF y
<1>12. x \in Attributes
  BY <1>1, <1>6, <1>7, <1>8, <1>10 DEF Attributes
<1>13. /\ x.state = y.state /\ SameBus(y, x) /\ x.pending = y.pending
       /\ x.attempts = y.attempts /\ x.information = y.information
       /\ x.capabilities = y.capabilities /\ x.configured = y.configured
       /\ x.valid = y.valid /\ x.statusAge = y.statusAge /\ x.readyAge = y.readyAge
       /\ x.started = y.started /\ x.active = y.active /\ x.committed = y.committed
       /\ x.newer = y.newer
  BY <1>1, <1>10 DEF Attributes, SameBus
<1>14. x.syncAge = sync /\ x.healthy = healthy
  BY <1>1, <1>10 DEF Attributes
<1>15. Sound(x)
  BY <1>11, <1>12, <1>13 DEF Sound, Dialogue, AttemptsLeft, Heard, SameSync, SameBus
<1>16. SameBus(c, x)
  BY <1>11, <1>13 DEF SameBus
<1>17. QED
  BY <1>9, <1>11, <1>13, <1>14, <1>15, <1>16 DEF x, SameSync

(* What a pass left is a unit older, and no more than that.                *)
LEMMA TickOK ==
    ASSUME CInv, Tick
    PROVE  Kept
<1> DEFINE x == Aged(conn)
<1>1. /\ mode' = mode /\ world' = world /\ base' = base /\ asking' = asking
      /\ readyRun' = readyRun /\ passed' = FALSE /\ sleep' = Max({0, sleep - 1})
      /\ IsOpen(conn) => passed
  BY DEF Tick
<1>2. Sound(conn) /\ base \in Nat /\ readyRun \in Nat /\ conn \in Attributes
  BY TimingParameters DEF CInv, Sound, HealthOK
<1>3. sleep' \in 0..BackoffMax
  <2>1. sleep \in 0..BackoffMax /\ BackoffMax \in Nat /\ 0 \in Int /\ sleep - 1 \in Int
    BY TimingParameters DEF CInv
  <2>2. sleep' = IF 0 >= sleep - 1 THEN 0 ELSE sleep - 1
    BY <1>1, <2>1, LesserGreater
  <2>3. QED
    BY <2>1, <2>2
<1>4. NewsEnd /\ Earned
  <2>1. Earned
    BY <1>1, <1>2 DEF Earned
  <2>2. conn'.active = conn.active
    <3>1. x.active = conn.active
      BY <1>2, AgedOK
    <3>2. conn' = conn \/ conn' = x
      BY DEF Tick
    <3>3. QED
      BY <3>1, <3>2
  <2>3. QED
    BY <2>1, <2>2 DEF NewsEnd
<1>5. CASE conn.state = "disconnected"
  <2>1. conn' = conn /\ ~IsOpen(conn)
    BY <1>5 DEF Tick, IsOpen, Closed
  <2>2. ~conn.active /\ ~asking /\ conn.healthy = None /\ conn.state # "ready"
    BY <1>5, <2>1 DEF CInv, SyncOK, AskingOK, HealthOK
  <2>3. CInv'
    BY <1>1, <1>3, <2>1, <2>2
       DEF CInv, Sound, ReadyOK, ShownOK, InTime, SyncOK, HealthOK, AskingOK
  <2>4. QED
    BY <1>4, <2>3 DEF Kept
<1>6. CASE conn.state # "disconnected"
  <2>1. conn' = x
    BY <1>6 DEF Tick
  <2>2. /\ Sound(x) /\ x.state = conn.state /\ SameBus(conn, x)
        /\ x.started = conn.started /\ x.active = conn.active
        /\ x.committed = conn.committed /\ x.newer = conn.newer
        /\ IsOpen(conn) => /\ x.statusAge = Older(conn.statusAge, RecoverAfter)
                           /\ x.readyAge = Older(conn.readyAge, RecoverAfter)
        /\ ~IsOpen(conn) => x.statusAge = 0
        /\ conn.active => x.syncAge = Older(conn.syncAge, SyncTimeout)
        /\ x.healthy = IF conn.healthy = None THEN None ELSE Older(conn.healthy, HealthyReset)
    BY <1>2, AgedOK
  <2> HIDE DEF x
  <2>3. /\ RecoverAfter \in Nat /\ SyncTimeout \in Nat /\ HealthyReset \in Nat
        /\ DegradeAfter \in Nat /\ StaleAfter \in Nat
        /\ conn.statusAge \in 0..RecoverAfter /\ conn.readyAge \in 0..RecoverAfter
        /\ conn.syncAge \in 0..SyncTimeout /\ conn.healthy \in {None} \cup (0..HealthyReset)
    BY <1>2, TimingParameters DEF Attributes
  <2>4. /\ x.statusAge \in Nat /\ x.readyAge \in Nat /\ x.syncAge \in Nat
    BY <2>2, <2>3 DEF Sound, Attributes
  <2>5. IsOpen(conn) => x.statusAge <= conn.statusAge + 1 /\ x.readyAge <= conn.readyAge + 1
    BY <2>2, <2>3, OlderOK
  <2>6. ReadyOK(x, FALSE)
    <3> SUFFICES ASSUME conn.state = "ready"
                 PROVE  ReadyOK(x, FALSE)
      BY <2>2 DEF ReadyOK
    <3>1. IsOpen(conn) /\ passed
      BY <1>1 DEF IsOpen, Closed
    <3>2. /\ conn.committed /\ conn.newer /\ ~conn.active /\ ~conn.vetoed
          /\ conn.statusAge < DegradeAfter
          /\ mode = "classic" => conn.readyAge < DegradeAfter
      BY <3>1 DEF CInv, ReadyOK
    <3>3. x.statusAge <= DegradeAfter /\ (mode = "classic" => x.readyAge <= DegradeAfter)
      BY <2>3, <2>4, <2>5, <3>1, <3>2
    <3>4. QED
      BY <2>2, <3>2, <3>3 DEF ReadyOK, SameBus
  <2>7. ShownOK(x, FALSE)
    <3> SUFFICES ASSUME ~conn.stale
                 PROVE  ShownOK(x, FALSE)
      BY <2>2 DEF ShownOK, SameBus
    <3>1. conn.status /\ (passed => conn.statusAge < StaleAfter)
      BY DEF CInv, ShownOK
    <3>2. x.statusAge <= StaleAfter
      <4>1. CASE IsOpen(conn)
        BY <1>1, <2>3, <2>4, <2>5, <3>1, <4>1
      <4>2. CASE ~IsOpen(conn)
        BY <2>2, <2>3, <4>2
      <4>3. QED
        BY <4>1, <4>2
    <3>3. QED
      BY <2>2, <3>1, <3>2 DEF ShownOK, SameBus
  <2>8. SyncOK(x, FALSE)
    <3> SUFFICES ASSUME conn.active
                 PROVE  SyncOK(x, FALSE)
      BY <2>2 DEF SyncOK
    <3>1. IsOpen(conn) /\ conn.status /\ passed /\ ~conn.vetoed
      BY <1>1, <1>2 DEF CInv, SyncOK, Sound, Dialogue
    <3>2. conn.syncAge < SyncTimeout
      BY <3>1 DEF CInv, InTime, Supported
    <3>3. x.syncAge = conn.syncAge + 1
      BY <2>2, <2>3, <3>2, OlderOK
    <3>4. conn.newer => conn.statusAge < conn.syncAge
      BY DEF CInv, SyncOK
    <3>5. x.syncAge >= 1 /\ (conn.newer => x.statusAge < x.syncAge)
      BY <2>3, <2>4, <2>5, <3>1, <3>3, <3>4
    <3>6. IsOpen(x) /\ x.status
      BY <2>2, <3>1 DEF IsOpen, SameBus
    <3>7. QED
      BY <2>2, <3>5, <3>6 DEF SyncOK
  <2>9. x.healthy # None => conn.state = "ready" /\ x.healthy <= readyRun
    <3> SUFFICES ASSUME x.healthy # None
                 PROVE  conn.state = "ready" /\ x.healthy <= readyRun
      OBVIOUS
    <3>1. conn.healthy # None /\ x.healthy = Older(conn.healthy, HealthyReset)
      BY <2>2
    <3>2. conn.state = "ready"
      BY <3>1 DEF CInv, HealthOK
    <3>3. passed
      BY <1>1, <3>2 DEF IsOpen, Closed
    <3>4. conn.healthy < readyRun
      BY <3>1, <3>3 DEF CInv, HealthOK
    <3>5. conn.healthy \in 0..HealthyReset
      BY <2>3, <3>1
    <3>6. x.healthy \in Nat /\ x.healthy <= conn.healthy + 1
      <4>1. /\ Older(conn.healthy, HealthyReset) \in 0..HealthyReset
            /\ Older(conn.healthy, HealthyReset) <= conn.healthy + 1
        BY <2>3, <3>5, OlderOK
      <4>2. QED
        BY <2>3, <3>1, <4>1
    <3>7. QED
      BY <1>2, <3>2, <3>4, <3>5, <3>6
  <2>10. IsOpen(x) = IsOpen(conn) /\ Sound(x)
    BY <2>2 DEF IsOpen
  <2>11. /\ Sound(conn)' /\ ReadyOK(conn, passed)' /\ ShownOK(conn, passed)'
         /\ InTime(conn, passed)' /\ SyncOK(conn, passed)'
    BY <1>1, <2>1, <2>6, <2>7, <2>8, <2>10 DEF Sound, ReadyOK, ShownOK, InTime, SyncOK
  <2>12. HealthOK(conn, passed)'
    BY <1>1, <1>2, <2>1, <2>2, <2>9 DEF HealthOK
  <2>13. AskingOK(conn)'
    BY <1>1, <2>1, <2>2, <2>10 DEF CInv, AskingOK, SameBus
  <2>14. CInv'
    BY <1>1, <1>3, <2>11, <2>12, <2>13 DEF CInv
  <2>15. QED
    BY <1>4, <2>14 DEF Kept
<1>7. QED
  BY <1>5, <1>6

-----------------------------------------------------------------------------

(* The invariant holds before the first attempt.                           *)
LEMMA ConnectionBegins == ConnectionInit => CInv
<1> SUFFICES ASSUME ConnectionInit
             PROVE  CInv
  OBVIOUS
<1> DEFINE x == Fresh("connecting")
<1>1. "connecting" \in Closed \cup {"waiting_for_frame"}
  BY DEF Closed
<1>2. /\ Sound(x) /\ x.state = "connecting" /\ ~x.active /\ x.stale /\ ~x.committed
      /\ x.healthy = None /\ x.statusAge = 0 /\ ~x.vetoed /\ ~x.status /\ x.validAge = 0
  BY <1>1, FreshIsSound
<1> HIDE DEF x
<1>3. /\ conn = x /\ base = BackoffInitial /\ sleep = 0 /\ asking = FALSE /\ passed = FALSE
      /\ world = "wild" /\ readyRun = 0 /\ mode \in Modes
  BY DEF ConnectionInit, x
<1>4. base \in BackoffInitial..BackoffMax /\ sleep \in 0..BackoffMax
  BY <1>3, TimingParameters
<1>5. QED
  BY <1>2, <1>3, <1>4
     DEF CInv, ReadyOK, ShownOK, InTime, SyncOK, HealthOK, AskingOK

(* Every step keeps the invariant.                                         *)
LEMMA ConnectionStep == CInv /\ [ConnectionNext]_connVars => Kept
<1> SUFFICES ASSUME CInv, [ConnectionNext]_connVars
             PROVE  Kept
  OBVIOUS
<1>1. CASE Retry
  BY <1>1, RetryOK
<1>2. CASE Opened
  BY <1>2, OpenedOK
<1>3. base \in BackoffInitial..BackoffMax /\ base >= base
  BY TimingParameters DEF CInv
<1>4. CASE OpenFails
  BY <1>3, <1>4, RecoveredOK DEF OpenFails
<1>5. CASE Iterate
  BY <1>5, IterateOK
<1>6. CASE Fails
  BY <1>3, <1>6, RecoveredOK DEF Fails
<1>7. CASE Tick
  BY <1>7, TickOK
<1>8. CASE Stop
  BY <1>8, StopOK
<1>9. CASE Calms
  BY <1>9, CalmsOK DEF Calms
<1>10. CASE UNCHANGED connVars
  BY <1>10, CalmsOK DEF connVars, CInv
<1>11. QED
  BY <1>1, <1>2, <1>4, <1>5, <1>6, <1>7, <1>8, <1>9, <1>10 DEF ConnectionNext

(* ConnectionInvariance: the inductive invariant holds throughout.         *)
THEOREM ConnectionInvariance == FairConnectionSpec => []CInv
<1>1. CInv /\ [ConnectionNext]_connVars => CInv'
  BY ConnectionStep DEF Kept
<1>2. QED
  BY ConnectionBegins, <1>1, PTL DEF FairConnectionSpec

(* ReadinessIsJustified: for every choice of thresholds, the connection is *)
(* READY only on a configuration that both answers made since the synchro- *)
(* nization began, on a newer status and slots that are not too old; a veto*)
(* silences it; and it never asks while the participant is being answered. *)
THEOREM ReadinessIsJustified == FairConnectionSpec => []ConnectionInv
<1>1. CInv => ConnectionInv
  <2> SUFFICES ASSUME CInv
               PROVE  ConnectionInv
    OBVIOUS
  <2>1. conn \in Attributes /\ Dialogue(conn)
    BY DEF CInv, Sound
  <2>2. ConnectionTypeOK
    BY <2>1 DEF CInv, ConnectionTypeOK, Attributes
  <2>3. ReadyIsJustified
    BY <2>1 DEF CInv, ReadyOK, Dialogue, ReadyIsJustified
  <2>4. VetoIsKept
    BY <2>1 DEF CInv, ReadyOK, Dialogue, VetoIsKept
  <2>5. OneConversation
    BY <2>1, ContentsAreMessages
       DEF CInv, AskingOK, Dialogue, OneConversation, Attributes, Messages
  <2>6. QED
    BY <2>2, <2>3, <2>4, <2>5 DEF ConnectionInv
<1>2. QED
  BY <1>1, ConnectionInvariance, PTL

(* NothingOldIsHeld: for every choice of thresholds, a status that is shown*)
(* is less than StaleAfter old at every pass, and no pass leaves a socket  *)
(* open on which something is overdue.                                     *)
THEOREM NothingOldIsHeld == FairConnectionSpec => []NothingLingers
<1>1. CInv => NothingLingers
  <2> SUFFICES ASSUME CInv
               PROVE  NothingLingers
    OBVIOUS
  <2>1. ObservedIsCurrent
    BY DEF CInv, ShownOK, ObservedIsCurrent, Shown
  <2>2. DeadlinesEnforced
    BY DEF CInv, Sound, AttemptsLeft, InTime, DeadlinesEnforced
  <2>3. QED
    BY <2>1, <2>2 DEF NothingLingers
<1>2. QED
  BY <1>1, ConnectionInvariance, PTL

(* ProgressIsEarnedAlways: for every choice of thresholds, a synchroniza-  *)
(* tion is ended by a status read in a later pass than the one that began  *)
(* it, and the back-off starts over only after READY has lasted.           *)
THEOREM ProgressIsEarnedAlways == FairConnectionSpec => ProgressIsEarned
<1>1. CInv /\ [ConnectionNext]_connVars =>
         [conn.active /\ conn'.committed /\ ~conn'.active
             => conn'.statusAge < conn.syncAge]_connVars
  BY ConnectionStep DEF Kept, NewsEnd
<1>2. CInv /\ [ConnectionNext]_connVars => [base' < base => readyRun >= HealthyReset]_connVars
  BY ConnectionStep DEF Kept, Earned
<1>3. QED
  BY <1>1, <1>2, ConnectionInvariance, PTL
     DEF FairConnectionSpec, ProgressIsEarned, NewerThanSync, BackoffEarned
=============================================================================
