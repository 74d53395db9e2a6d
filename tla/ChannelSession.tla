--------------------------- MODULE ChannelSession ---------------------------
(***************************************************************************)
(* src/balboa_rs485/transport/channel.py: how a client on the shared bus   *)
(* obtains an address of its own.  A session is a record with a field per  *)
(* attribute of ChannelSession, without the counters it only reports; each *)
(* method is an operator from session to session.  Time 0 means "never".   *)
(*                                                                         *)
(* A frame is a record [type, address, nonce, request]:                    *)
(*   invite   254,191,0     any client without an address may ask for one  *)
(*   assign   254,191,2     an address offered to the client with a nonce  *)
(*   probe    c,191,4       is the client of address c present?            *)
(*   cts      c,191,6       the client of address c may send one frame     *)
(*   manage   c,191,3|5|7   a client that answers for address c            *)
(*   command  c,191,17|32|34   a client that queries or commands as c      *)
(*   setting  c,191,33|39   a client that sets the clock or a preference   *)
(*   alternate   a family of messages this client does not understand      *)
(*   status   255,175,19    the broadcast status                           *)
(* "request" is no part of the wire: it tells which request of this client *)
(* an assignment answers, 0 for another client's.                          *)
(***************************************************************************)
EXTENDS Naturals, Sequences, FiniteSets, Functions

CONSTANTS
    None,              \* Python's None
    Channels,          \* the addresses a client may be given, 0x10..0x2F
    AssignmentWindow   \* how long after its request an offer is valid (2 s)

ASSUME ChannelParameters ==
    /\ None \notin Channels
    /\ AssignmentWindow \in Nat \ {0}

FromClient(f) == f.type \in {"manage", "command"}

(* Sessions of a client whose nonces are N, at time t.                     *)
SessionsOf(N, t) ==
    [ nonce : N, channel : Channels \cup {None}, ready : BOOLEAN, requestedAt : 0..t,
      acked : BOOLEAN, failed : BOOLEAN, expired : BOOLEAN, clients : SUBSET Channels,
      pending : Channels \cup {None} ]

NewSession(nonce) ==
    [ nonce |-> nonce, channel |-> None, ready |-> FALSE, requestedAt |-> 0,
      acked |-> FALSE, failed |-> FALSE, expired |-> FALSE, clients |-> {},
      pending |-> None ]

-----------------------------------------------------------------------------
(* observe, for all frames of one read.                                    *)

Heard(frames) == {f.address : f \in {g \in Range(frames) : FromClient(g)}}

Collides(s, frames) ==
    \E f \in Range(frames) :
        \/ f.type = "alternate"
        \/ FromClient(f) /\ s.channel # None /\ f.address = s.channel

Polled(s, frames) ==
    \E f \in Range(frames) : f.type = "cts" /\ s.channel # None /\ f.address = s.channel

ObservedReady(s, frames) ==   \* mutant: a collision does not revoke readiness
    [s EXCEPT !.clients = @ \cup (Heard(frames) \cap Channels),
              !.failed = @ \/ Collides(s, frames),
              !.ready = @ \/ (~s.failed /\ Polled(s, frames))]

Observed(s, frames) ==
    [s EXCEPT !.clients = @ \cup (Heard(frames) \cap Channels),
              !.failed = @ \/ Collides(s, frames),
              !.ready = ~Collides(s, frames) /\ (@ \/ (~s.failed /\ Polled(s, frames)))]

(* expire: a missed handshake ends the session, it is never retried here.  *)
Within(s, t) == s.requestedAt # 0 /\ t < s.requestedAt + AssignmentWindow

ExpiredNever(s, t) == s   \* mutant: the session waits for its answer for ever
Expired(s, t) ==
    IF ~s.failed /\ s.requestedAt # 0 /\ ~s.acked /\ ~Within(s, t)
    THEN [s EXCEPT !.failed = TRUE, !.expired = TRUE]
    ELSE s

(* consider_assignments: the first acceptable offer made to this nonce is  *)
(* remembered; any other offer after it is a conflict.                     *)
Answers(s, frames) ==
    {i \in DOMAIN frames : frames[i].type = "assign" /\ frames[i].nonce = s.nonce}
Acceptable(s, frames) ==
    {i \in Answers(s, frames) : frames[i].address \in Channels \ s.clients}
Candidate(s, frames) ==
    IF s.pending # None \/ Acceptable(s, frames) = {} THEN s.pending
    ELSE frames[CHOOSE i \in Acceptable(s, frames) :
                    \A j \in Acceptable(s, frames) : i <= j].address
Conflict(s, frames) ==
    \E j \in Answers(s, frames) :
        /\ frames[j].address # Candidate(s, frames)
        /\ s.pending # None \/ \E i \in Acceptable(s, frames) : i < j

ConsideredFirst(s, frames, t) ==   \* mutant: later offers are not compared
    IF s.failed \/ s.acked \/ ~Within(s, t) THEN Expired(s, t)
    ELSE [s EXCEPT !.pending = Candidate(s, frames)]

Considered(s, frames, t) ==
    IF s.failed \/ s.acked \/ ~Within(s, t) THEN Expired(s, t)
    ELSE [s EXCEPT !.pending = Candidate(s, frames), !.failed = Conflict(s, frames)]

-----------------------------------------------------------------------------
(* reply: what the last frame of the read invites to send, and sent.       *)

Nothing == [type |-> "nothing", address |-> None]
To(type, address) == [type |-> type, address |-> address]

ReplyBlind(s, frames, t) ==   \* mutant: an offer is acknowledged although in use
    LET last == frames[Len(frames)]
    IN  IF frames = <<>> \/ s.failed THEN Nothing
        ELSE CASE last.type = "probe" /\ s.acked /\ last.address = s.channel ->
                    To("present", s.channel)
               [] last.type = "invite" /\ s.requestedAt = 0 -> To("request", None)
               [] /\ s.pending # None /\ Within(s, t) /\ ~s.acked
                  /\ last.type \in {"assign", "cts"} /\ last.address = s.pending ->
                    To("ack", s.pending)
               [] OTHER -> Nothing

Reply(s, frames, t) ==
    LET last == frames[Len(frames)]
    IN  IF frames = <<>> \/ s.failed THEN Nothing
        ELSE CASE last.type = "probe" /\ s.acked /\ last.address = s.channel ->
                    To("present", s.channel)
               [] last.type = "invite" /\ s.requestedAt = 0 -> To("request", None)
               [] /\ s.pending # None /\ s.pending \notin s.clients
                  /\ Within(s, t) /\ ~s.acked
                  /\ last.type = "cts" \/ (last.type = "assign" /\ last.nonce = s.nonce)
                  /\ last.address = s.pending ->
                    To("ack", s.pending)
               [] OTHER -> Nothing

SentUnmarked(s, reply, t) ==   \* mutant: the session may acknowledge again
    CASE reply.type = "request" -> [s EXCEPT !.requestedAt = t]
      [] reply.type = "ack" -> [s EXCEPT !.channel = reply.address]
      [] OTHER -> s

Sent(s, reply, t) ==
    CASE reply.type = "request" -> [s EXCEPT !.requestedAt = t]
      [] reply.type = "ack" -> [s EXCEPT !.channel = reply.address, !.acked = TRUE]
      [] OTHER -> s

(* idle_reply: an owned slot that nothing else uses is given back.         *)
Idle(s, frames) ==
    /\ s.acked /\ s.channel # None /\ ~s.failed /\ frames # <<>>
    /\ LET last == frames[Len(frames)]
       IN  last.type = "cts" /\ last.address = s.channel
=============================================================================
