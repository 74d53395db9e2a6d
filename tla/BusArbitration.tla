--------------------------- MODULE BusArbitration ---------------------------
(***************************************************************************)
(* When this client may write to the bus: src/balboa_rs485/transport/      *)
(* policy.py (BusPolicy), the channel session, and the part of an iteration*)
(* of connection.py that writes: the channel management, one query or one  *)
(* command, and the return of an unused slot.  Everything is per socket,   *)
(* except for the requests for an address, which are counted and whose     *)
(* nonces are remembered as long as the connection object lives.           *)
(*                                                                         *)
(* The bus is open: any frames, in any order, in reads of any composition. *)
(* Only the controller's assignments are constrained: they answer a request*)
(* that was really made, of this socket or an earlier one, any number of   *)
(* times and as late as they like, or one of another client.               *)
(***************************************************************************)
EXTENDS ChannelSession

CONSTANTS
    Modes,              \* the modes that may be configured
    Nonces,             \* two random bytes
    Foreign,            \* the nonces of other clients
    AssignmentBudget,   \* requests for an address in a lifetime (3)
    Pace,               \* least time between two direct writes (0.1 s)
    ClassicAddress,     \* 16: the slot of a client without assignment
    OwnAddress,         \* 10: the address of such a client's messages
    Offerable, Traffic, \* what the bus may carry: offered addresses, other frames
    MaxRead, MaxTime, MaxEpoch   \* bounds of exploration

ASSUME BusParameters ==
    /\ Modes \subseteq {"auto", "bwa", "classic", "direct", "channel"}
    /\ AssignmentBudget \in Nat /\ Pace \in Nat
    /\ IsFiniteSet(Nonces) /\ Cardinality(Nonces) > AssignmentBudget
    /\ Foreign \notin Nonces /\ None \notin Offerable
    /\ OwnAddress \notin Channels /\ OwnAddress # None
    /\ {MaxRead, MaxTime, MaxEpoch} \subseteq Nat

ASSUME TrafficAssumption ==
    \A f \in Traffic : f.type # "assign" /\ f.address # None

VARIABLES
    configured, \* the requested mode
    now,        \* the monotonic clock, from 1
    epoch,      \* sockets opened
    connected,
    policy,     \* BusPolicy: evidence of this epoch, its last direct write, its slot
    session,    \* its ChannelSession
    requested,  \* nonces of the requests made, in their order
    writes,     \* what the last iteration wrote
    offered,    \* history: addresses offered in answer to this socket's request
    foreign     \* history: addresses others are known to use in this epoch

busVars ==
    <<configured, now, epoch, connected, policy, session, requested, writes, offered, foreign>>

(* consumed: the slot of the latest read is used, received_at <=           *)
(* _consumed_at; the slot of a later read is received later and open again.*)
NewPolicy ==
    [statusSeen |-> FALSE, channelSeen |-> FALSE, blocked |-> FALSE, lastTx |-> 0,
     consumed |-> FALSE]

-----------------------------------------------------------------------------
(* BusPolicy.                                                              *)

ChannelEvidence(f) ==
    \/ f.type \in {"invite", "assign", "manage", "alternate"}
    \/ f.type = "cts" /\ f.address # ClassicAddress

(* A second sender or an echo is ambiguous.  A client that has no address  *)
(* of its own also takes the settings of another client for one, which the *)
(* channel session does not.                                               *)
Sender(f) == FromClient(f) \/ f.type = "setting"
Ambiguous(f) == f.type = "alternate" \/ (Sender(f) /\ f.address = OwnAddress)

Noticed(p, frames) ==
    LET all == Range(frames)
    IN  [p EXCEPT !.statusSeen = @ \/ \E f \in all : f.type = "status",
                  !.channelSeen = @ \/ \E f \in all : ChannelEvidence(f),
                  !.blocked = @ \/ (configured = "direct" /\ \E f \in all : Ambiguous(f)),
                  !.consumed = FALSE]

Mode(p) ==
    CASE configured = "channel" -> "channel"
      [] configured = "direct" -> IF p.statusSeen /\ ~p.blocked THEN "direct" ELSE "read only"
      [] OTHER -> IF ~p.channelSeen /\ p.statusSeen /\ configured \in {"classic", "bwa"}
                  THEN configured ELSE "read only"

Supported(p, s) ==
    \/ Mode(p) \in {"direct", "bwa", "classic"}
    \/ Mode(p) = "channel" /\ s.ready /\ p.statusSeen

Address(s) == IF s.channel # None THEN s.channel ELSE OwnAddress

Slot(frames, address) ==
    frames # <<>> /\ frames[Len(frames)].type = "cts" /\ frames[Len(frames)].address = address

(* The last frame of a read may be incomplete or followed by other bytes   *)
(* ("partial"), or the loop comes to it too late for its slot ("late").    *)
Timings == {"partial", "late", "prompt"}

Allows(p, s, frames, timing) ==
    CASE Mode(p) = "bwa" -> TRUE
      [] Mode(p) = "direct" -> /\ frames # <<>> /\ timing # "partial"
                               /\ p.lastTx = 0 \/ now >= p.lastTx + Pace
      [] Mode(p) = "channel" -> /\ Supported(p, s) /\ Slot(frames, Address(s))
                                /\ timing = "prompt" /\ ~p.consumed
      [] Mode(p) = "classic" -> /\ Slot(frames, ClassicAddress)
                                /\ timing = "prompt" /\ ~p.consumed
      [] OTHER -> FALSE

(* What allows_query records when it returns True.                         *)
GrantedAgain(p) ==   \* mutant: a slot is not marked as used
    [p EXCEPT !.lastTx = IF Mode(p) = "direct" THEN now ELSE @]

Granted(p) ==
    [p EXCEPT !.lastTx = IF Mode(p) = "direct" THEN now ELSE @,
              !.consumed = @ \/ Mode(p) \in {"channel", "classic"}]

-----------------------------------------------------------------------------
(* The steps of the connection.                                            *)

BusInit ==
    /\ configured \in Modes
    /\ now = 1 /\ epoch = 0 /\ connected = FALSE
    /\ policy = NewPolicy
    /\ session \in {NewSession(n) : n \in Nonces}
    /\ requested = <<>> /\ writes = {} /\ offered = {} /\ foreign = {}

Tick ==
    /\ now < MaxTime
    /\ now' = now + 1 /\ writes' = {}
    /\ UNCHANGED <<configured, epoch, connected, policy, session, requested, offered, foreign>>

FreshNonce == Nonces \ Range(requested)

Connect ==
    /\ ~connected /\ epoch < MaxEpoch
    /\ epoch' = epoch + 1 /\ connected' = TRUE
    /\ policy' = NewPolicy
    /\ \E n \in FreshNonce : session' = NewSession(n)
    /\ writes' = {} /\ offered' = {} /\ foreign' = {}
    /\ UNCHANGED <<configured, now, requested>>

(* End of file, a socket error, or a deadline of the connection.           *)
Disconnect ==
    /\ connected /\ connected' = FALSE /\ writes' = {}
    /\ UNCHANGED <<configured, now, epoch, policy, session, requested, offered, foreign>>

(* The session after a read, before anything is written.  reply considers  *)
(* the same frames again.                                                  *)
Judged(frames, fresh) ==
    LET considered == Considered(Observed(session, frames), frames, now)
    IN  IF configured # "channel" THEN session
        ELSE IF fresh THEN Considered(considered, frames, now) ELSE considered

(* A missed slot is retired with its nonce while the budget allows.        *)
Retired(frames) ==
    /\ configured = "channel" /\ Len(requested) < AssignmentBudget
    /\ Considered(Observed(session, frames), frames, now).expired

Others(frames) ==
    IF configured = "direct" THEN {f.address : f \in {g \in Range(frames) : Sender(g)}}
    ELSE Heard(frames)

Remember(frames) ==
    /\ foreign' = foreign \cup Others(frames)
    /\ offered' = IF session.requestedAt = 0 THEN offered
                  ELSE offered \cup {f.address : f \in {g \in Range(frames) :
                            g.type = "assign" /\ g.request = Len(requested)}}

Retire(frames) ==
    /\ connected /\ Retired(frames)
    /\ connected' = FALSE /\ writes' = {}
    /\ policy' = Noticed(policy, frames)
    /\ session' = Judged(frames, FALSE)
    /\ Remember(frames)
    /\ UNCHANGED <<configured, now, epoch, requested>>

(* channel.reply, within the lifetime budget.                              *)
BudgetIgnored(reply) == FALSE   \* mutant
Exhausted(reply) == reply.type = "request" /\ Len(requested) >= AssignmentBudget

Manage(frames) ==
    LET judged == Judged(frames, TRUE)
        reply == Reply(judged, frames, now)
    IN  /\ connected /\ ~Retired(frames)
        /\ configured = "channel" /\ reply # Nothing /\ ~Exhausted(reply)
        /\ session' = Sent(judged, reply, now)
        /\ requested' = IF reply.type = "request" THEN Append(requested, session.nonce)
                        ELSE requested
        /\ writes' = {reply}
        /\ policy' = Noticed(policy, frames)
        /\ Remember(frames)
        /\ UNCHANGED <<configured, now, epoch, connected>>

(* No management: a query or a command if one is wanted (never both, a     *)
(* query is sent before READY and a command after it), then the idle reply.*)
(* Each asks allows_query for itself, the second with what the first left. *)
Listen(frames, timing, wanted) ==
    LET judged == Judged(frames, timing # "partial")
        reply == IF configured = "channel" /\ timing # "partial"
                 THEN Reply(judged, frames, now) ELSE Nothing
        seen == Noticed(policy, frames)
        data == wanted /\ Supported(seen, judged) /\ Allows(seen, judged, frames, timing)
        left == IF data THEN Granted(seen) ELSE seen
        idle == /\ configured = "channel" /\ Idle(judged, frames)
                /\ Allows(left, judged, frames, timing)
    IN  /\ connected /\ ~Retired(frames)
        /\ reply = Nothing \/ timing = "late" \/ Exhausted(reply)
        /\ session' = [judged EXCEPT !.failed = @ \/ (timing = "prompt" /\ Exhausted(reply))]
        /\ policy' = IF idle THEN Granted(left) ELSE left
        /\ writes' = (IF data THEN {To("data", Address(judged))} ELSE {})
                     \cup (IF idle THEN {To("idle", Address(judged))} ELSE {})
        /\ Remember(frames)
        /\ UNCHANGED <<configured, now, epoch, connected, requested>>

Assignment(a, n, i) == [type |-> "assign", address |-> a, nonce |-> n, request |-> i]
Frames ==
    Traffic \cup {Assignment(a, Foreign, 0) : a \in Offerable}
            \cup {Assignment(a, requested[i], i) : a \in Offerable, i \in DOMAIN requested}
Reads == UNION {[1..n -> Frames] : n \in 0..MaxRead}

(* One pass of the connection's loop; an empty read is a read timeout.     *)
Iterate ==
    \E frames \in Reads :
        \/ Retire(frames)
        \/ Manage(frames)
        \/ \E timing \in Timings, wanted \in BOOLEAN : Listen(frames, timing, wanted)

BusNext == Tick \/ Connect \/ Disconnect \/ Iterate

BusSpec == BusInit /\ [][BusNext]_busVars
FairBusSpec == BusSpec /\ WF_busVars(Tick) /\ WF_busVars(Iterate)

-----------------------------------------------------------------------------
(* BusTypeOK: the session, the evidence and the writes keep their shape;   *)
(* an acknowledged address is always one a client may be given.            *)
BusTypeOK ==
    /\ configured \in Modes /\ now \in Nat \ {0} /\ epoch \in Nat /\ connected \in BOOLEAN
    /\ policy \in [statusSeen : BOOLEAN, channelSeen : BOOLEAN, blocked : BOOLEAN,
                   lastTx : 0..now, consumed : BOOLEAN]
    /\ session \in SessionsOf(Nonces, now)
    /\ session.acked <=> session.channel # None
    /\ requested \in Seq(Nonces)

(* OneWrite: one pass writes at most one frame: a slot that carried a      *)
(* query or a command is not returned as unused as well, and an answer of  *)
(* the channel management is all its read brings about (policy.py: "at     *)
(* most one eligible opportunity from each receive batch").                *)
OneWrite == Cardinality(writes) <= 1

(* AckAnswersRequest: an address is only acknowledged when it was offered  *)
(* in answer to the request of this very socket, however late or often     *)
(* answers to earlier requests arrive, and when it was the only free       *)
(* address so offered (channel.py: ambiguous assignments fail closed).     *)
AckAnswersRequest ==
    \A w \in writes : w.type = "ack" =>
        /\ w.address \in offered
        /\ \A a \in offered : a = w.address \/ a \notin Channels \/ a \in foreign

(* NeverOnForeignAddress: on an address another client was heard on in     *)
(* this epoch nothing is written any more, whether the address was only    *)
(* offered, already acknowledged or fixed.  What counts as hearing one is  *)
(* what the mode recognizes: the settings of another client on an assigned *)
(* address pass unnoticed (channel.py names fewer types than policy.py).   *)
NeverOnForeignAddress ==
    configured \in {"channel", "direct"} => \A w \in writes : w.address \notin foreign

(* AssignmentsBounded: over all reconnections at most AssignmentBudget     *)
(* addresses are ever requested, each with a nonce of its own              *)
(* (home_assistant.md: "three requests per runtime").                      *)
AssignmentsBounded ==
    /\ Len(requested) <= AssignmentBudget
    /\ \A i, j \in DOMAIN requested : requested[i] = requested[j] => i = j

(* FailedIsSilent: after a collision, a conflict or a missed handshake     *)
(* this client stays silent until the next socket.                         *)
FailedIsSilent == [][session.failed /\ epoch' = epoch => writes' = {}]_busVars

(* VetoIsFinal: without an assignment of its own, the client writes        *)
(* nothing in an epoch once other addressed traffic has been seen, be it   *)
(* in the very read that ends with its slot (connection.py: "query         *)
(* transmission disabled for epoch").                                      *)
VetoIsFinal ==
    configured \in {"auto", "bwa", "classic"} /\ policy.channelSeen => writes = {}

(* SlotsRespected: a pass writes neither on an address somebody else uses  *)
(* nor where somebody else manages the addresses.                          *)
SlotsRespected == NeverOnForeignAddress /\ VetoIsFinal

(* HandshakeResolves: a request for an address never leaves the connection *)
(* waiting for ever: it is acknowledged, or fails, or the socket is given  *)
(* up (connection.py's reads time out, so every pass is followed by one).  *)
Handshake ==
    /\ connected /\ session.requestedAt # 0 /\ ~session.acked /\ ~session.failed
    /\ session.requestedAt + AssignmentWindow <= MaxTime
HandshakeResolves == Handshake ~> ~Handshake
=============================================================================
