----------------------------- MODULE BusProofs -----------------------------
(***************************************************************************)
(* Proofs about BusArbitration, for any channels, nonces, budgets and      *)
(* traffic, and reads of any length.                                       *)
(***************************************************************************)
EXTENDS BusArbitration, FiniteSetTheorems, WellFoundedInduction, TLAPS

-----------------------------------------------------------------------------
(* The inductive invariant.                                                *)

Sessions == SessionsOf(Nonces, now)

(* A nonce stands for one request, the current one if there is any.        *)
NoncesOK ==
    /\ AssignmentsBounded
    /\ session.requestedAt = 0 =>
          \A i \in DOMAIN requested : requested[i] # session.nonce
    /\ session.requestedAt # 0 =>
          Len(requested) # 0 /\ requested[Len(requested)] = session.nonce

(* The pending address is the only free one that was offered.              *)
PendingOK(s, off) ==
    /\ s.pending # None => s.pending \in off
    /\ ~s.failed /\ ~s.acked => \A a \in off \cap Channels : a = s.pending \/ a \in s.clients

(* An address is only kept while no other client was heard on it.          *)
OwnershipOK(s, heard) ==
    /\ configured = "channel" => heard \cap Channels \subseteq s.clients
    /\ s.clients \subseteq heard
    /\ s.acked => s.requestedAt # 0
    /\ s.ready => s.acked /\ ~s.failed
    /\ s.acked /\ ~s.failed => s.channel \notin heard

EvidenceOK ==
    /\ None \notin foreign
    /\ configured = "direct" /\ ~policy.blocked => OwnAddress \notin foreign
    /\ configured # "channel" =>
          session.channel = None /\ session.requestedAt = 0 /\ ~session.failed

WritesOK == OneWrite /\ AckAnswersRequest /\ NeverOnForeignAddress /\ VetoIsFinal

BusInv ==
    /\ WritesOK
    /\ BusTypeOK /\ NoncesOK /\ EvidenceOK
    /\ PendingOK(session, offered)
    /\ OwnershipOK(session, foreign)

-----------------------------------------------------------------------------
(* What a read may contain.                                                *)

(* A read is a sequence of frames.                                         *)
LEMMA ReadIsSeq ==
    ASSUME NEW frames \in Reads
    PROVE  /\ frames \in Seq(Frames)
           /\ frames \in [DOMAIN frames -> Frames]
           /\ frames # <<>> => Len(frames) \in DOMAIN frames
           /\ \A f \in Range(frames) : f \in Frames
           /\ \A i \in DOMAIN frames : frames[i] \in Range(frames)
           /\ DOMAIN frames \subseteq Nat
<1>1. PICK n \in 0..MaxRead : frames \in [1..n -> Frames]
  BY DEF Reads
<1>2. n \in Nat
  BY BusParameters
<1>3. frames \in Seq(Frames) /\ Len(frames) = n /\ DOMAIN frames = 1..n
  BY <1>1, <1>2
<1>4. frames # <<>> => n # 0
  BY <1>1, <1>3
<1> QED
  BY <1>1, <1>2, <1>3, <1>4 DEF Range

-----------------------------------------------------------------------------
(* The methods of the session, one lemma each.                             *)

(* observe only touches what it heard.                                     *)
LEMMA ObservedFacts ==
    ASSUME NEW t \in Nat, NEW s \in SessionsOf(Nonces, t), NEW frames
    PROVE  LET o == Observed(s, frames)
           IN  /\ o \in SessionsOf(Nonces, t)
               /\ o.nonce = s.nonce /\ o.channel = s.channel /\ o.acked = s.acked
               /\ o.requestedAt = s.requestedAt /\ o.expired = s.expired
               /\ o.pending = s.pending
               /\ o.clients = s.clients \cup (Heard(frames) \cap Channels)
               /\ o.failed <=> s.failed \/ Collides(s, frames)
               /\ o.ready <=> /\ ~Collides(s, frames)
                              /\ s.ready \/ (~s.failed /\ Polled(s, frames))
<1> DEFINE c == s.clients \cup (Heard(frames) \cap Channels)
           f == s.failed \/ Collides(s, frames)
           r == ~Collides(s, frames) /\ (s.ready \/ (~s.failed /\ Polled(s, frames)))
           o == [s EXCEPT !.clients = c, !.failed = f, !.ready = r]
<1>1. Observed(s, frames) = o
  BY DEF Observed
<1>2. Collides(s, frames) \in BOOLEAN /\ Polled(s, frames) \in BOOLEAN
  BY DEF Collides, Polled
<1>3. s.failed \in BOOLEAN /\ s.ready \in BOOLEAN /\ s.clients \subseteq Channels
  BY DEF SessionsOf
<1>4. f \in BOOLEAN /\ r \in BOOLEAN /\ c \in SUBSET Channels
  BY <1>2, <1>3
<1> HIDE DEF c, f, r
<1>5. /\ o \in SessionsOf(Nonces, t)
      /\ o.nonce = s.nonce /\ o.channel = s.channel /\ o.acked = s.acked
      /\ o.requestedAt = s.requestedAt /\ o.expired = s.expired
      /\ o.pending = s.pending
      /\ o.clients = c /\ o.failed = f /\ o.ready = r
  BY <1>4 DEF SessionsOf
<1> HIDE DEF o
<1> QED
  BY <1>1, <1>5 DEF c, f, r

(* expire only fails a session whose request was not answered in time.     *)
LEMMA ExpiredFacts ==
    ASSUME NEW t \in Nat, NEW s \in SessionsOf(Nonces, t)
    PROVE  LET x == Expired(s, t)
           IN  /\ x \in SessionsOf(Nonces, t)
               /\ x.nonce = s.nonce /\ x.channel = s.channel /\ x.acked = s.acked
               /\ x.requestedAt = s.requestedAt /\ x.ready = s.ready
               /\ x.pending = s.pending /\ x.clients = s.clients
               /\ s.failed => x.failed
               /\ s.acked => x.failed = s.failed
               /\ ~x.failed /\ ~s.acked => s.requestedAt = 0 \/ Within(s, t)
<1>1. CASE ~s.failed /\ s.requestedAt # 0 /\ ~s.acked /\ ~Within(s, t)
  BY <1>1 DEF Expired, SessionsOf
<1>2. CASE ~(~s.failed /\ s.requestedAt # 0 /\ ~s.acked /\ ~Within(s, t))
  BY <1>2 DEF Expired
<1> QED
  BY <1>1, <1>2

(* A nonempty finite set of naturals has a least element; CHOOSE finds it. *)
LEMMA LeastOfFinite ==
    ASSUME NEW n \in Nat, NEW S, S \subseteq 1..n, S # {}
    PROVE  \E i \in S : \A j \in S : i <= j
<1> DEFINE T == {1..i : i \in S}
           R == StrictSubsetOrdering(Nat)
<1>1. T \subseteq FiniteSubsetsOf(Nat)
  BY FS_Interval DEF FiniteSubsetsOf
<1>2. IsWellFoundedOn(R, FiniteSubsetsOf(Nat))
  BY FS_StrictSubsetOrderingWellFounded
<1> HIDE DEF R
<1>3. PICK x \in T : \A y \in T : <<y, x>> \notin R
  <2>1. T # {}
    OBVIOUS
  <2> HIDE DEF T
  <2>2. QED
    BY <1>1, <1>2, <2>1, WFMin
<1>4. PICK i \in S : x = 1..i
  OBVIOUS
<1>5. ASSUME NEW j \in S, j < i
      PROVE  FALSE
  <2>1. 1..j \in SUBSET Nat /\ 1..i \in SUBSET Nat /\ 1..j \subseteq 1..i /\ 1..j # 1..i
    BY <1>5
  <2>2. <<1..j, 1..i>> \in R
    BY <2>1 DEF R, StrictSubsetOrdering
  <2>3. QED
    BY <1>3, <1>4, <2>2
<1>6. \A j \in S : i <= j
  BY <1>5
<1>7. QED
  BY <1>6

(* The candidate is the pending address or the first acceptable offer.     *)
LEMMA CandidateFacts ==
    ASSUME NEW frames \in Reads, NEW s
    PROVE  LET c == Candidate(s, frames)
           IN  \/ c = s.pending /\ (s.pending # None \/ Acceptable(s, frames) = {})
               \/ /\ s.pending = None
                  /\ \E i \in Acceptable(s, frames) :
                        c = frames[i].address /\ \A j \in Acceptable(s, frames) : i <= j
<1>1. CASE s.pending # None \/ Acceptable(s, frames) = {}
  BY <1>1 DEF Candidate
<1>2. CASE s.pending = None /\ Acceptable(s, frames) # {}
  <2> DEFINE S == Acceptable(s, frames)
  <2>1. PICK n \in Nat : DOMAIN frames = 1..n
    BY BusParameters DEF Reads
  <2>2. S \subseteq 1..n
    BY <2>1 DEF Acceptable, Answers
  <2> HIDE DEF S
  <2>3. \E i \in S : \A j \in S : i <= j
    BY <1>2, <2>2, LeastOfFinite DEF S
  <2> DEFINE i == CHOOSE k \in S : \A j \in S : k <= j
  <2>4. i \in S /\ \A j \in S : i <= j
    BY <2>3
  <2>5. Candidate(s, frames) = frames[i].address
    BY <1>2 DEF Candidate, S
  <2> HIDE DEF i
  <2> QED
    BY <1>2, <2>4, <2>5 DEF S
<1> QED
  BY <1>1, <1>2

(* consider_assignments changes the pending address and may only fail.     *)
LEMMA ConsideredFacts ==
    ASSUME NEW t \in Nat, NEW s \in SessionsOf(Nonces, t), NEW frames \in Reads
    PROVE  LET c == Considered(s, frames, t)
           IN  /\ c \in SessionsOf(Nonces, t)
               /\ c.nonce = s.nonce /\ c.channel = s.channel /\ c.acked = s.acked
               /\ c.requestedAt = s.requestedAt /\ c.ready = s.ready
               /\ c.clients = s.clients
               /\ s.failed => c.failed
               /\ s.acked => c.failed = s.failed
               /\ s.requestedAt = 0 \/ s.acked \/ s.failed => c.pending = s.pending
               /\ \/ c.pending = s.pending
                  \/ c.pending = Candidate(s, frames) /\ s.requestedAt # 0
               /\ ~c.failed /\ ~s.acked /\ s.requestedAt # 0
                    => ~Conflict(s, frames) /\ c.pending = Candidate(s, frames)
<1>1. CASE s.failed \/ s.acked \/ ~Within(s, t)
  <2>1. Considered(s, frames, t) = Expired(s, t)
    BY <1>1 DEF Considered
  <2>2. s.requestedAt = 0 => ~Within(s, t)
    BY DEF Within
  <2> QED
    BY <1>1, <2>1, <2>2, ExpiredFacts
<1>2. CASE ~s.failed /\ ~s.acked /\ Within(s, t)
  <2> DEFINE p == Candidate(s, frames)
             f == Conflict(s, frames)
             c == [s EXCEPT !.pending = p, !.failed = f]
  <2>1. Considered(s, frames, t) = c
    BY <1>2 DEF Considered
  <2>2. f \in BOOLEAN
    BY DEF Conflict
  <2>3. s.pending \in Channels \cup {None}
    BY DEF SessionsOf
  <2>4. p \in Channels \cup {None}
    BY <2>3, CandidateFacts DEF Acceptable
  <2>5. s.requestedAt # 0
    BY <1>2 DEF Within
  <2> HIDE DEF p, f
  <2>6. /\ c \in SessionsOf(Nonces, t)
        /\ c.nonce = s.nonce /\ c.channel = s.channel /\ c.acked = s.acked
        /\ c.requestedAt = s.requestedAt /\ c.ready = s.ready
        /\ c.clients = s.clients /\ c.pending = p /\ c.failed = f
    BY <2>2, <2>4 DEF SessionsOf
  <2> HIDE DEF c
  <2> QED
    BY <1>2, <2>1, <2>5, <2>6 DEF p, f
<1> QED
  BY <1>1, <1>2

-----------------------------------------------------------------------------
(* What these methods keep.                                                *)

Offers(s, frames) == {frames[i].address : i \in Answers(s, frames)}
Widened(s, frames, off) == IF s.requestedAt = 0 THEN off ELSE off \cup Offers(s, frames)

(* Hearing more clients keeps the pending address unique.                  *)
LEMMA PendingObserved ==
    ASSUME NEW t \in Nat, NEW s \in SessionsOf(Nonces, t), NEW frames, NEW off,
           PendingOK(s, off)
    PROVE  PendingOK(Observed(s, frames), off)
<1> DEFINE o == Observed(s, frames)
<1>1. /\ o.acked = s.acked /\ o.pending = s.pending /\ s.clients \subseteq o.clients
      /\ s.failed => o.failed
  BY ObservedFacts
<1> HIDE DEF o
<1>2. PendingOK(o, off)
  BY <1>1 DEF PendingOK
<1> QED
  BY <1>2 DEF o

(* Considering offers keeps the pending address the only free one of them. *)
LEMMA PendingConsidered ==
    ASSUME NEW t \in Nat, NEW s \in SessionsOf(Nonces, t), NEW frames \in Reads, NEW off,
           PendingOK(s, off)
    PROVE  PendingOK(Considered(s, frames, t), Widened(s, frames, off))
<1> DEFINE c == Considered(s, frames, t)
           new == Widened(s, frames, off)
<1>1. /\ c.acked = s.acked /\ c.clients = s.clients /\ c.requestedAt = s.requestedAt
      /\ s.failed => c.failed
      /\ s.requestedAt = 0 \/ s.acked \/ s.failed => c.pending = s.pending
      /\ c.pending = s.pending \/ (c.pending = Candidate(s, frames) /\ s.requestedAt # 0)
      /\ ~c.failed /\ ~s.acked /\ s.requestedAt # 0
           => ~Conflict(s, frames) /\ c.pending = Candidate(s, frames)
  BY ConsideredFacts
<1> HIDE DEF c
<1>2. off \subseteq new
  BY DEF Widened
<1>3. ASSUME c.pending # None
      PROVE  c.pending \in new
  <2>1. CASE c.pending = s.pending
    BY <1>2, <1>3, <2>1 DEF PendingOK
  <2>2. CASE c.pending = Candidate(s, frames) /\ s.requestedAt # 0 /\ c.pending # s.pending
    <3>1. PICK i \in Acceptable(s, frames) : c.pending = frames[i].address
      BY <2>2, CandidateFacts
    <3> QED
      BY <2>2, <3>1 DEF Acceptable, Widened, Offers
  <2> QED
    BY <1>1, <2>1, <2>2
<1>4. ASSUME ~c.failed, ~c.acked, NEW a \in new \cap Channels
      PROVE  a = c.pending \/ a \in c.clients
  <2>1. CASE s.requestedAt = 0
    BY <1>1, <1>4, <2>1 DEF PendingOK, Widened
  <2>2. CASE s.requestedAt # 0
    <3>1. ~Conflict(s, frames) /\ c.pending = Candidate(s, frames)
      BY <1>1, <1>4, <2>2
    <3>2. CASE a \in off
      <4>1. a = s.pending \/ a \in s.clients
        BY <1>1, <1>4, <3>2 DEF PendingOK
      <4>2. a = s.pending => c.pending = a
        <5>1. None \notin Channels
          BY ChannelParameters
        <5>2. SUFFICES ASSUME a = s.pending PROVE c.pending = a
          OBVIOUS
        <5>3. s.pending # None
          BY <5>1, <5>2
        <5> QED
          BY <3>1, <5>2, <5>3, CandidateFacts
      <4> QED
        BY <1>1, <4>1, <4>2
    <3>3. CASE a \notin off
      <4>1. PICK j \in Answers(s, frames) : a = frames[j].address
        BY <2>2, <3>3 DEF Widened, Offers
      <4>2. CASE a \in s.clients
        BY <1>1, <4>2
      <4>3. CASE a \notin s.clients
        <5>1. j \in Acceptable(s, frames)
          BY <4>1, <4>3 DEF Acceptable
        <5>2. CASE s.pending # None
          BY <3>1, <4>1, <5>2 DEF Conflict
        <5>3. CASE s.pending = None
          <6>1. PICK i \in Acceptable(s, frames) :
                   /\ c.pending = frames[i].address
                   /\ \A k \in Acceptable(s, frames) : i <= k
            BY <3>1, <5>1, <5>3, CandidateFacts
          <6>2. i <= j /\ i \in Nat /\ j \in Nat
            BY <5>1, <6>1, ReadIsSeq DEF Acceptable, Answers
          <6>3. CASE i = j
            BY <4>1, <6>1, <6>3
          <6>4. CASE i < j
            BY <3>1, <4>1, <6>1, <6>4 DEF Conflict
          <6> QED
            BY <6>2, <6>3, <6>4
        <5> QED
          BY <5>2, <5>3
      <4> QED
        BY <4>2, <4>3
    <3> QED
      BY <3>2, <3>3
  <2> QED
    BY <2>1, <2>2
<1>5. PendingOK(c, new)
  BY <1>3, <1>4 DEF PendingOK
<1> QED
  BY <1>5 DEF c

(* Considering the same frames again meets no new offers.                  *)
LEMMA WidenedTwice ==
    ASSUME NEW s, NEW c, NEW frames, NEW off,
           c.nonce = s.nonce, c.requestedAt = s.requestedAt
    PROVE  Widened(c, frames, Widened(s, frames, off)) = Widened(s, frames, off)
<1>1. Answers(c, frames) = Answers(s, frames)
  BY DEF Answers
<1> QED
  BY <1>1 DEF Widened, Offers

(* The address is given up as soon as another client is heard on it.       *)
LEMMA OwnershipObserved ==
    ASSUME NEW t \in Nat, NEW s \in SessionsOf(Nonces, t), NEW frames, NEW heard,
           OwnershipOK(s, heard), s.acked <=> s.channel # None
    PROVE  OwnershipOK(Observed(s, frames), heard \cup Heard(frames))
<1> DEFINE o == Observed(s, frames)
<1>1. /\ o.acked = s.acked /\ o.channel = s.channel /\ o.requestedAt = s.requestedAt
      /\ o.clients = s.clients \cup (Heard(frames) \cap Channels)
      /\ o.failed <=> s.failed \/ Collides(s, frames)
      /\ o.ready <=> ~Collides(s, frames) /\ (s.ready \/ (~s.failed /\ Polled(s, frames)))
  BY ObservedFacts
<1> HIDE DEF o
<1>2. Polled(s, frames) => s.channel # None
  BY DEF Polled
<1>3. ~Collides(s, frames) /\ s.channel # None => s.channel \notin Heard(frames)
  BY DEF Collides, Heard
<1>4. OwnershipOK(o, heard \cup Heard(frames))
  <2>1. o.ready => o.acked /\ ~o.failed
    BY <1>1, <1>2 DEF OwnershipOK
  <2>2. o.acked /\ ~o.failed => o.channel \notin heard \cup Heard(frames)
    BY <1>1, <1>3 DEF OwnershipOK
  <2>3. o.clients \subseteq heard \cup Heard(frames)
    BY <1>1 DEF OwnershipOK
  <2>4. configured = "channel" => (heard \cup Heard(frames)) \cap Channels \subseteq o.clients
    BY <1>1 DEF OwnershipOK
  <2> QED
    BY <1>1, <2>1, <2>2, <2>3, <2>4 DEF OwnershipOK
<1> QED
  BY <1>4 DEF o

(* Considering offers cannot affect an address that is owned.              *)
LEMMA OwnershipConsidered ==
    ASSUME NEW t \in Nat, NEW s \in SessionsOf(Nonces, t), NEW frames \in Reads, NEW heard,
           OwnershipOK(s, heard)
    PROVE  OwnershipOK(Considered(s, frames, t), heard)
<1> DEFINE c == Considered(s, frames, t)
<1>1. /\ c.acked = s.acked /\ c.channel = s.channel /\ c.ready = s.ready
      /\ c.requestedAt = s.requestedAt
      /\ c.clients = s.clients
      /\ s.failed => c.failed
      /\ s.acked => c.failed = s.failed
  BY ConsideredFacts
<1> HIDE DEF c
<1>2. OwnershipOK(c, heard)
  BY <1>1 DEF OwnershipOK
<1> QED
  BY <1>2 DEF c

-----------------------------------------------------------------------------
(* One read of the connection.                                             *)

(* The assignments that answer the present request are those with its      *)
(* nonce, because no other request ever had it.                            *)
LEMMA ReadAnswers ==
    ASSUME NoncesOK, requested \in Seq(Nonces), session.requestedAt # 0,
           NEW frames \in Reads
    PROVE  Offers(session, frames) =
             {f.address : f \in {g \in Range(frames) :
                                    g.type = "assign" /\ g.request = Len(requested)}}
<1>1. /\ Len(requested) \in Nat \ {0} /\ DOMAIN requested = 1..Len(requested)
      /\ requested[Len(requested)] = session.nonce
  BY DEF NoncesOK
<1>2. ASSUME NEW f \in Frames, f.type = "assign"
      PROVE  f.nonce = session.nonce <=> f.request = Len(requested)
  <2>1. f \notin Traffic
    BY <1>2, TrafficAssumption
  <2>2. CASE \E a \in Offerable : f = Assignment(a, Foreign, 0)
    <3>1. f.nonce = Foreign /\ f.request = 0
      BY <2>2 DEF Assignment
    <3>2. session.nonce \in Nonces
      BY <1>1
    <3> QED
      BY <1>1, <3>1, <3>2, BusParameters
  <2>3. CASE \E a \in Offerable, i \in DOMAIN requested : f = Assignment(a, requested[i], i)
    <3>1. PICK i \in DOMAIN requested : f.nonce = requested[i] /\ f.request = i
      BY <2>3 DEF Assignment
    <3>2. Len(requested) \in DOMAIN requested
      BY <1>1
    <3>3. requested[i] = requested[Len(requested)] => i = Len(requested)
      BY <3>2 DEF NoncesOK, AssignmentsBounded
    <3> QED
      BY <1>1, <3>1, <3>3
  <2> QED
    BY <2>1, <2>2, <2>3 DEF Frames
<1>3. /\ \A f \in Range(frames) : f \in Frames
      /\ Range(frames) = {frames[i] : i \in DOMAIN frames}
  BY ReadIsSeq DEF Range
<1>4. Answers(session, frames) =
        {i \in DOMAIN frames : frames[i].type = "assign" /\ frames[i].request = Len(requested)}
  BY <1>2, <1>3 DEF Answers
<1> QED
  BY <1>3, <1>4 DEF Offers

(* Everybody who is heard has an address.  The channel session goes by     *)
(* what it takes for a client, a direct one by more.                       *)
LEMMA HeardSome ==
    ASSUME NEW frames \in Reads
    PROVE  /\ None \notin Others(frames)
           /\ configured = "channel" => Others(frames) = Heard(frames)
           /\ configured = "direct" /\ OwnAddress \in Others(frames)
                => \E f \in Range(frames) : Ambiguous(f)
<1>1. ASSUME NEW f \in Range(frames), Sender(f)
      PROVE  f.address # None
  <2>1. f \in Frames /\ f.type # "assign"
    BY <1>1, ReadIsSeq DEF Sender, FromClient
  <2>2. f \in Traffic
    BY <2>1 DEF Frames, Assignment
  <2> QED
    BY <2>2, TrafficAssumption
<1>2. None \notin Others(frames)
  BY <1>1 DEF Others, Heard, Sender
<1>3. configured = "channel" => Others(frames) = Heard(frames)
  BY DEF Others
<1>4. configured = "direct" /\ OwnAddress \in Others(frames)
        => \E f \in Range(frames) : Ambiguous(f)
  BY DEF Others, Ambiguous
<1> QED
  BY <1>2, <1>3, <1>4

(* Judging a read keeps the invariant of the session.                      *)
LEMMA JudgedFacts ==
    ASSUME BusInv, NEW frames \in Reads, NEW fresh \in BOOLEAN, Remember(frames)
    PROVE  LET j == Judged(frames, fresh)
           IN  /\ j \in SessionsOf(Nonces, now)
               /\ j.nonce = session.nonce /\ j.channel = session.channel
               /\ j.acked = session.acked /\ j.requestedAt = session.requestedAt
               /\ session.failed => j.failed
               /\ configured # "channel" => j = session
               /\ PendingOK(j, offered') /\ OwnershipOK(j, foreign')
<1> DEFINE o == Observed(session, frames)
           c == Considered(o, frames, now)
           d == Considered(c, frames, now)
<1>1. now \in Nat /\ session \in SessionsOf(Nonces, now) /\ requested \in Seq(Nonces)
  BY DEF BusInv, BusTypeOK
<1>2. foreign' = foreign \cup Others(frames) /\ offered' = Widened(session, frames, offered)
  <2>1. foreign' = foreign \cup Others(frames)
    BY DEF Remember
  <2>2. CASE session.requestedAt = 0
    BY <2>2 DEF Remember, Widened
  <2>3. CASE session.requestedAt # 0
    BY <1>1, <2>3, ReadAnswers DEF Remember, Widened, BusInv
  <2> QED
    BY <2>1, <2>2, <2>3
<1>3. CASE configured # "channel"
  <2>1. Judged(frames, fresh) = session
    BY <1>3 DEF Judged
  <2>2. session.requestedAt = 0 /\ session.channel = None /\ ~session.acked
    BY <1>3 DEF BusInv, EvidenceOK, BusTypeOK
  <2>3. PendingOK(session, offered')
    BY <1>2, <2>2 DEF BusInv, Widened
  <2>4. OwnershipOK(session, foreign')
    BY <1>2, <1>3, <2>2 DEF BusInv, OwnershipOK
  <2> QED
    BY <1>1, <2>1, <2>3, <2>4
<1>4. CASE configured = "channel"
  <2>1. Judged(frames, fresh) = IF fresh THEN d ELSE c
    BY <1>4 DEF Judged
  <2>2. /\ o \in SessionsOf(Nonces, now)
        /\ o.nonce = session.nonce /\ o.channel = session.channel
        /\ o.acked = session.acked /\ o.requestedAt = session.requestedAt
        /\ session.failed => o.failed
    BY <1>1, ObservedFacts
  <2>3. PendingOK(o, offered) /\ OwnershipOK(o, foreign')
    BY <1>1, <1>2, <1>4, HeardSome, PendingObserved, OwnershipObserved DEF BusInv, BusTypeOK
  <2>4. Widened(o, frames, offered) = offered'
    BY <1>2, <2>2 DEF Widened, Offers, Answers
  <2> HIDE DEF o
  <2>5. /\ c \in SessionsOf(Nonces, now)
        /\ c.nonce = o.nonce /\ c.channel = o.channel
        /\ c.acked = o.acked /\ c.requestedAt = o.requestedAt
        /\ o.failed => c.failed
    BY <1>1, <2>2, ConsideredFacts
  <2>6. PendingOK(c, offered') /\ OwnershipOK(c, foreign')
    BY <1>1, <2>2, <2>3, <2>4, PendingConsidered, OwnershipConsidered
  <2>7. Widened(c, frames, offered') = offered'
    BY <2>4, <2>5, WidenedTwice
  <2> HIDE DEF c
  <2>8. /\ d \in SessionsOf(Nonces, now)
        /\ d.nonce = c.nonce /\ d.channel = c.channel
        /\ d.acked = c.acked /\ d.requestedAt = c.requestedAt
        /\ c.failed => d.failed
    BY <1>1, <2>5, ConsideredFacts
  <2>9. PendingOK(d, offered') /\ OwnershipOK(d, foreign')
    BY <1>1, <2>5, <2>6, <2>7, PendingConsidered, OwnershipConsidered
  <2> HIDE DEF d
  <2> QED
    BY <1>4, <2>1, <2>2, <2>5, <2>6, <2>8, <2>9
<1> QED
  BY <1>3, <1>4

(* What a reply presupposes.                                               *)
LEMMA ReplyFacts ==
    ASSUME NEW s, NEW frames, NEW t, Reply(s, frames, t) # Nothing
    PROVE  LET r == Reply(s, frames, t)
           IN  /\ ~s.failed
               /\ \/ r = To("present", s.channel) /\ s.acked
                  \/ r = To("request", None) /\ s.requestedAt = 0
                  \/ /\ r = To("ack", s.pending)
                     /\ s.pending # None /\ s.pending \notin s.clients
                     /\ s.requestedAt # 0 /\ ~s.acked
<1> USE DEF Reply, Within
<1>1. frames # <<>> /\ ~s.failed
  OBVIOUS
<1> DEFINE last == frames[Len(frames)]
           p == last.type = "probe" /\ s.acked /\ last.address = s.channel
           q == last.type = "invite" /\ s.requestedAt = 0
<1>2. CASE p
  BY <1>1, <1>2
<1>3. CASE q
  BY <1>1, <1>3
<1>4. CASE ~p /\ ~q
  BY <1>1, <1>4
<1> QED
  BY <1>2, <1>3, <1>4

-----------------------------------------------------------------------------
(* The steps.                                                              *)

(* Evidence only grows, and a second sender blocks direct writes.          *)
LEMMA NoticedFacts ==
    ASSUME BusInv, NEW frames \in Reads, foreign' = foreign \cup Others(frames)
    PROVE  LET p == Noticed(policy, frames)
           IN  /\ p \in [statusSeen : BOOLEAN, channelSeen : BOOLEAN, blocked : BOOLEAN,
                         lastTx : 0..now, consumed : BOOLEAN]
               /\ None \notin foreign'
               /\ configured = "direct" /\ ~p.blocked => OwnAddress \notin foreign'
<1> DEFINE p == Noticed(policy, frames)
<1>1. policy \in [statusSeen : BOOLEAN, channelSeen : BOOLEAN, blocked : BOOLEAN,
                  lastTx : 0..now, consumed : BOOLEAN]
  BY DEF BusInv, BusTypeOK
<1>2. /\ p \in [statusSeen : BOOLEAN, channelSeen : BOOLEAN, blocked : BOOLEAN,
                lastTx : 0..now, consumed : BOOLEAN]
      /\ p.blocked <=> policy.blocked
                       \/ (configured = "direct" /\ \E f \in Range(frames) : Ambiguous(f))
  BY <1>1 DEF Noticed
<1>3. ASSUME configured = "direct", ~p.blocked
      PROVE  OwnAddress \notin foreign'
  <2>1. OwnAddress \notin foreign
    BY <1>2, <1>3 DEF BusInv, EvidenceOK
  <2>2. OwnAddress \notin Others(frames)
    BY <1>2, <1>3, HeardSome
  <2> QED
    BY <2>1, <2>2
<1>4. None \notin foreign'
  BY HeardSome DEF BusInv, EvidenceOK
<1> QED
  BY <1>2, <1>3, <1>4

(* Granting a slot marks it and changes no evidence.                       *)
LEMMA GrantedFacts ==
    ASSUME now \in Nat,
           NEW p \in [statusSeen : BOOLEAN, channelSeen : BOOLEAN, blocked : BOOLEAN,
                      lastTx : 0..now, consumed : BOOLEAN]
    PROVE  LET g == Granted(p)
           IN  /\ g \in [statusSeen : BOOLEAN, channelSeen : BOOLEAN, blocked : BOOLEAN,
                          lastTx : 0..now, consumed : BOOLEAN]
               /\ g.blocked = p.blocked /\ g.channelSeen = p.channelSeen
               /\ configured = "channel" => g.consumed
<1> DEFINE t == IF Mode(p) = "direct" THEN now ELSE p.lastTx
           c == p.consumed \/ Mode(p) \in {"channel", "classic"}
           g == [p EXCEPT !.lastTx = t, !.consumed = c]
<1>1. Granted(p) = g
  BY DEF Granted
<1>2. t \in 0..now /\ c \in BOOLEAN
  OBVIOUS
<1>3. configured = "channel" => c
  BY DEF Mode
<1> HIDE DEF t, c
<1>4. /\ g \in [statusSeen : BOOLEAN, channelSeen : BOOLEAN, blocked : BOOLEAN,
                 lastTx : 0..now, consumed : BOOLEAN]
      /\ g.blocked = p.blocked /\ g.channelSeen = p.channelSeen /\ g.consumed = c
  BY <1>2
<1> HIDE DEF g
<1> QED
  BY <1>1, <1>3, <1>4

(* A slot whose use is marked is not granted a second time in its read.    *)
LEMMA SlotUsedOnce ==
    ASSUME NEW p, NEW s, NEW frames, NEW timing, configured = "channel", p.consumed
    PROVE  ~Allows(p, s, frames, timing)
<1>1. Mode(p) = "channel"
  BY DEF Mode
<1> QED
  BY <1>1 DEF Allows

(* A silent step that leaves requests alone.                               *)
LEMMA Silent ==
    ASSUME writes' = {}
    PROVE  WritesOK'
<1>1. Cardinality({}) = 0
  BY FS_EmptySet
<1> QED
  BY <1>1 DEF WritesOK, OneWrite, AckAnswersRequest, NeverOnForeignAddress, VetoIsFinal

(* One write is at most one write.                                         *)
LEMMA OneWriteAtMost ==
    ASSUME NEW w, writes' = {w}
    PROVE  OneWrite'
BY FS_Singleton DEF OneWrite

(* The first session has heard and asked nothing.                          *)
LEMMA BusInitInv == BusInit => BusInv
<1> SUFFICES ASSUME BusInit PROVE BusInv
  OBVIOUS
<1> USE DEF BusInit
<1>1. PICK n \in Nonces : session = NewSession(n)
  OBVIOUS
<1>2. BusTypeOK
  <2>1. session \in SessionsOf(Nonces, 1) /\ ~session.acked /\ session.channel = None
    BY <1>1 DEF NewSession, SessionsOf
  <2>2. policy \in [statusSeen : BOOLEAN, channelSeen : BOOLEAN, blocked : BOOLEAN,
                   lastTx : 0..now, consumed : BOOLEAN]
    BY DEF NewPolicy
  <2>3. now = 1 /\ now \in Nat \ {0} /\ epoch \in Nat /\ requested \in Seq(Nonces)
    OBVIOUS
  <2>4. connected \in BOOLEAN /\ configured \in Modes
    BY Zenon
  <2>5. session \in SessionsOf(Nonces, now)
    BY <2>1, <2>3
  <2> HIDE DEF BusInit
  <2> QED
    BY <2>1, <2>2, <2>3, <2>4, <2>5 DEF BusTypeOK
<1>3. NoncesOK
  BY <1>1, BusParameters DEF NoncesOK, AssignmentsBounded, NewSession
<1>4. EvidenceOK
  BY <1>1 DEF EvidenceOK, NewSession
<1>5. PendingOK(session, offered) /\ OwnershipOK(session, foreign)
  BY <1>1 DEF PendingOK, OwnershipOK, NewSession
<1>6. WritesOK
  BY FS_EmptySet DEF WritesOK, OneWrite, AckAnswersRequest, NeverOnForeignAddress, VetoIsFinal
<1> QED
  BY <1>2, <1>3, <1>4, <1>5, <1>6 DEF BusInv

(* Time alone keeps the invariant.                                         *)
LEMMA TickInv == BusInv /\ Tick => BusInv'
<1> SUFFICES ASSUME BusInv, Tick PROVE BusInv'
  OBVIOUS
<1> USE DEF Tick
<1>1. now \in Nat /\ now' = now + 1 /\ 0..now \subseteq 0..(now + 1)
  BY DEF BusInv, BusTypeOK
<1>2. SessionsOf(Nonces, now) \subseteq SessionsOf(Nonces, now')
  BY <1>1 DEF SessionsOf
<1>3. BusTypeOK'
  BY <1>1, <1>2 DEF BusInv, BusTypeOK
<1>4. NoncesOK' /\ EvidenceOK' /\ PendingOK(session, offered)' /\ OwnershipOK(session, foreign)'
  BY DEF BusInv, NoncesOK, AssignmentsBounded, EvidenceOK, PendingOK, OwnershipOK
<1>5. WritesOK'
  BY Silent
<1> QED
  BY <1>3, <1>4, <1>5 DEF BusInv

(* A new socket starts without evidence and with a nonce never requested.  *)
LEMMA ConnectInv == BusInv /\ Connect => BusInv'
<1> SUFFICES ASSUME BusInv, Connect PROVE BusInv'
  OBVIOUS
<1> USE DEF Connect
<1>1. PICK n \in FreshNonce : session' = NewSession(n)
  OBVIOUS
<1>2. n \in Nonces /\ \A i \in DOMAIN requested : requested[i] # n
  BY DEF FreshNonce, Range
<1>3. BusTypeOK'
  BY <1>1, <1>2 DEF BusInv, BusTypeOK, NewPolicy, NewSession, SessionsOf
<1>4. NoncesOK'
  BY <1>1, <1>2 DEF BusInv, NoncesOK, AssignmentsBounded, NewSession
<1>5. EvidenceOK'
  BY <1>1 DEF EvidenceOK, NewSession
<1>6. PendingOK(session, offered)' /\ OwnershipOK(session, foreign)'
  BY <1>1 DEF PendingOK, OwnershipOK, NewSession
<1>7. WritesOK'
  BY Silent
<1> QED
  BY <1>3, <1>4, <1>5, <1>6, <1>7 DEF BusInv

(* Losing the socket changes nothing it remembers.                         *)
LEMMA DisconnectInv == BusInv /\ Disconnect => BusInv'
<1> SUFFICES ASSUME BusInv, Disconnect PROVE BusInv'
  OBVIOUS
<1> USE DEF Disconnect
<1>1. BusTypeOK'
  BY DEF BusInv, BusTypeOK
<1>2. NoncesOK' /\ EvidenceOK' /\ PendingOK(session, offered)' /\ OwnershipOK(session, foreign)'
  BY DEF BusInv, NoncesOK, AssignmentsBounded, EvidenceOK, PendingOK, OwnershipOK
<1>3. WritesOK'
  BY Silent
<1> QED
  BY <1>1, <1>2, <1>3 DEF BusInv

(* Retiring a missed slot keeps the invariant.                             *)
LEMMA RetireInv ==
    ASSUME BusInv, NEW frames \in Reads, Retire(frames)
    PROVE  BusInv'
<1> USE DEF Retire
<1> DEFINE j == Judged(frames, FALSE)
<1>0. configured = "channel"
  BY DEF Retired
<1>1. /\ j \in SessionsOf(Nonces, now)
      /\ j.nonce = session.nonce /\ j.channel = session.channel
      /\ j.acked = session.acked /\ j.requestedAt = session.requestedAt
      /\ PendingOK(j, offered') /\ OwnershipOK(j, foreign')
  BY JudgedFacts
<1>2. session' = j /\ foreign' = foreign \cup Others(frames)
  BY DEF Remember
<1> HIDE DEF j
<1>3. BusTypeOK' /\ EvidenceOK'
  BY <1>0, <1>1, <1>2, NoticedFacts DEF BusInv, BusTypeOK, EvidenceOK
<1>4. NoncesOK'
  BY <1>1, <1>2 DEF BusInv, NoncesOK, AssignmentsBounded
<1>5. PendingOK(session, offered)' /\ OwnershipOK(session, foreign)'
  BY <1>1, <1>2 DEF OwnershipOK
<1>6. WritesOK'
  BY Silent
<1> QED
  BY <1>3, <1>4, <1>5, <1>6 DEF BusInv

(* A management reply keeps the invariant.                                 *)
LEMMA ManageInv ==
    ASSUME BusInv, NEW frames \in Reads, Manage(frames)
    PROVE  BusInv'
<1> DEFINE j == Judged(frames, TRUE)
           r == Reply(j, frames, now)
<1>1. /\ session' = Sent(j, r, now)
      /\ requested' = IF r.type = "request" THEN Append(requested, session.nonce) ELSE requested
      /\ writes' = {r}
      /\ policy' = Noticed(policy, frames)
      /\ configured' = configured /\ now' = now /\ epoch' = epoch /\ connected' = connected
      /\ configured = "channel" /\ r # Nothing /\ ~Exhausted(r)
      /\ Remember(frames)
  BY DEF Manage
<1>2. /\ j \in SessionsOf(Nonces, now)
      /\ j.nonce = session.nonce /\ j.channel = session.channel
      /\ j.acked = session.acked /\ j.requestedAt = session.requestedAt
      /\ PendingOK(j, offered') /\ OwnershipOK(j, foreign')
  BY <1>1, JudgedFacts
<1>3. foreign' = foreign \cup Others(frames)
  BY <1>1 DEF Remember
<1>4. /\ ~j.failed
      /\ \/ r = To("present", j.channel) /\ j.acked
         \/ r = To("request", None) /\ j.requestedAt = 0
         \/ /\ r = To("ack", j.pending)
            /\ j.pending # None /\ j.pending \notin j.clients
            /\ j.requestedAt # 0 /\ ~j.acked
  BY <1>1, ReplyFacts
<1> HIDE DEF r, j
<1>5. /\ policy' \in [statusSeen : BOOLEAN, channelSeen : BOOLEAN, blocked : BOOLEAN,
                      lastTx : 0..now', consumed : BOOLEAN]
      /\ EvidenceOK'
  <2>1. /\ policy' \in [statusSeen : BOOLEAN, channelSeen : BOOLEAN, blocked : BOOLEAN,
                        lastTx : 0..now', consumed : BOOLEAN]
        /\ None \notin foreign'
        /\ configured = "direct" /\ ~policy'.blocked => OwnAddress \notin foreign'
    BY <1>1, <1>3, NoticedFacts
  <2> QED
    BY <1>1, <2>1 DEF EvidenceOK
<1>6. /\ configured \in Modes /\ now \in Nat \ {0} /\ epoch \in Nat
      /\ connected \in BOOLEAN /\ requested \in Seq(Nonces)
  BY DEF BusInv, BusTypeOK
<1>7. j.acked <=> j.channel # None
  BY <1>2 DEF BusInv, BusTypeOK
<1>8. OneWrite' /\ VetoIsFinal'
  BY <1>1, OneWriteAtMost DEF VetoIsFinal
<1>9. CASE r = To("present", j.channel) /\ j.acked
  <2>1. session' = j /\ requested' = requested
    BY <1>1, <1>9 DEF Sent, To
  <2>2. BusTypeOK'
    BY <1>1, <1>2, <1>5, <1>6, <1>7, <2>1 DEF BusTypeOK
  <2>3. NoncesOK'
    BY <1>2, <2>1 DEF BusInv, NoncesOK, AssignmentsBounded
  <2>4. AckAnswersRequest'
    BY <1>1, <1>9 DEF AckAnswersRequest, To
  <2>5. NeverOnForeignAddress'
    BY <1>1, <1>2, <1>4, <1>9 DEF NeverOnForeignAddress, To, OwnershipOK
  <2>6. PendingOK(session, offered)' /\ OwnershipOK(session, foreign)'
    BY <1>1, <1>2, <2>1 DEF OwnershipOK
  <2> QED
    BY <1>5, <1>8, <2>2, <2>3, <2>4, <2>5, <2>6 DEF BusInv, WritesOK
<1>10. CASE r = To("request", None) /\ j.requestedAt = 0
  <2>1. session' = [j EXCEPT !.requestedAt = now] /\ requested' = Append(requested, session.nonce)
    BY <1>1, <1>10 DEF Sent, To
  <2>2. /\ session' \in SessionsOf(Nonces, now)
        /\ session'.nonce = session.nonce /\ session'.requestedAt = now
        /\ session'.acked = j.acked /\ session'.channel = j.channel
        /\ session'.ready = j.ready /\ session'.failed = j.failed
        /\ session'.pending = j.pending /\ session'.clients = j.clients
    <3>1. now \in 0..now
      BY <1>6
    <3> QED
      BY <1>2, <2>1, <3>1 DEF SessionsOf
  <2>3. session.nonce \in Nonces
    BY DEF BusInv, BusTypeOK, SessionsOf
  <2>4. BusTypeOK'
    BY <1>1, <1>5, <1>6, <1>7, <2>1, <2>2, <2>3 DEF BusTypeOK
  <2>5. NoncesOK'
    <3>1. Len(requested) < AssignmentBudget
      BY <1>1, <1>6, <1>10, BusParameters DEF Exhausted, To
    <3>2. /\ Len(requested') = Len(requested) + 1
          /\ DOMAIN requested' = 1..(Len(requested) + 1)
          /\ requested'[Len(requested) + 1] = session.nonce
          /\ \A i \in 1..Len(requested) : requested'[i] = requested[i]
          /\ Len(requested) \in Nat /\ DOMAIN requested = 1..Len(requested)
      BY <1>6, <2>1, <2>3
    <3>3. \A i \in 1..Len(requested) : requested[i] # session.nonce
      BY <1>2, <1>10, <3>2 DEF BusInv, NoncesOK
    <3>4. \A i, k \in 1..Len(requested) : requested[i] = requested[k] => i = k
      BY <3>2 DEF BusInv, NoncesOK, AssignmentsBounded
    <3>5. AssignmentsBounded'
      BY <3>1, <3>2, <3>3, <3>4, BusParameters DEF AssignmentsBounded
    <3> QED
      BY <1>6, <2>2, <3>2, <3>5 DEF NoncesOK
  <2>6. AckAnswersRequest'
    BY <1>1, <1>10 DEF AckAnswersRequest, To
  <2>7. NeverOnForeignAddress'
    BY <1>1, <1>5, <1>10 DEF NeverOnForeignAddress, To, EvidenceOK
  <2>8. PendingOK(session, offered)' /\ OwnershipOK(session, foreign)'
    BY <1>1, <1>2, <1>6, <2>2 DEF PendingOK, OwnershipOK
  <2> QED
    BY <1>5, <1>8, <2>4, <2>5, <2>6, <2>7, <2>8 DEF BusInv, WritesOK
<1>11. CASE /\ r = To("ack", j.pending)
            /\ j.pending # None /\ j.pending \notin j.clients
            /\ j.requestedAt # 0 /\ ~j.acked
  <2>1. session' = [j EXCEPT !.channel = j.pending, !.acked = TRUE] /\ requested' = requested
    BY <1>1, <1>11 DEF Sent, To
  <2>2. j.pending \in Channels
    BY <1>2, <1>11 DEF SessionsOf
  <2>3. /\ session' \in SessionsOf(Nonces, now)
        /\ session'.nonce = session.nonce /\ session'.requestedAt = session.requestedAt
        /\ session'.acked = TRUE /\ session'.channel = j.pending
        /\ session'.ready = j.ready /\ session'.failed = j.failed
        /\ session'.pending = j.pending /\ session'.clients = j.clients
    BY <1>2, <2>1, <2>2 DEF SessionsOf
  <2>4. BusTypeOK'
    BY <1>1, <1>5, <1>6, <1>11, <2>1, <2>3 DEF BusTypeOK
  <2>5. NoncesOK'
    BY <2>1, <2>3 DEF BusInv, NoncesOK, AssignmentsBounded
  <2>6. j.pending \notin foreign'
    BY <1>1, <1>2, <1>11, <2>2 DEF OwnershipOK
  <2>7. AckAnswersRequest'
    <3>1. j.pending \in offered'
      BY <1>2, <1>11 DEF PendingOK
    <3>2. \A a \in offered' : a = j.pending \/ a \notin Channels \/ a \in foreign'
      BY <1>2, <1>4, <1>11 DEF PendingOK, OwnershipOK
    <3> QED
      BY <1>1, <1>11, <3>1, <3>2 DEF AckAnswersRequest, To
  <2>8. NeverOnForeignAddress'
    BY <1>1, <1>11, <2>6 DEF NeverOnForeignAddress, To
  <2>9. PendingOK(session, offered)'
    BY <1>2, <2>3 DEF PendingOK
  <2>10. OwnershipOK(session, foreign)'
    BY <1>1, <1>2, <1>11, <2>3, <2>6 DEF OwnershipOK
  <2> QED
    BY <1>5, <1>8, <2>4, <2>5, <2>7, <2>8, <2>9, <2>10 DEF BusInv, WritesOK
<1> QED
  BY <1>4, <1>9, <1>10, <1>11

(* In which mode something may be written, and what is then known of the   *)
(* address it is written on.                                               *)
LEMMA AllowedFacts ==
    ASSUME NEW p, NEW s, NEW frames, NEW timing, NEW heard, Allows(p, s, frames, timing),
           OwnershipOK(s, heard), s.acked <=> s.channel # None,
           configured # "channel" => s.channel = None,
           configured = "direct" /\ ~p.blocked => OwnAddress \notin heard
    PROVE  /\ configured \in {"channel", "direct"} => Address(s) \notin heard
           /\ configured \in {"auto", "bwa", "classic"} => ~p.channelSeen
<1>1. CASE configured = "channel"
  <2>1. Mode(p) = "channel"
    BY <1>1 DEF Mode
  <2>2. s.ready
    BY <2>1 DEF Allows, Supported
  <2> QED
    BY <1>1, <2>2 DEF OwnershipOK, Address
<1>2. CASE configured = "direct"
  <2>1. Mode(p) = "direct" /\ ~p.blocked
    BY <1>2 DEF Mode, Allows
  <2> QED
    BY <1>2, <2>1 DEF Address
<1>3. CASE configured \notin {"channel", "direct"}
  <2>1. p.channelSeen => Mode(p) = "read only"
    BY <1>3 DEF Mode
  <2>2. Mode(p) # "read only"
    BY DEF Allows
  <2> QED
    BY <1>3, <2>1, <2>2
<1> QED
  BY <1>1, <1>2, <1>3

(* Listening, with or without a query, a command or an idle reply.         *)
LEMMA ListenInv ==
    ASSUME BusInv, NEW frames \in Reads, NEW timing \in Timings, NEW wanted \in BOOLEAN,
           Listen(frames, timing, wanted)
    PROVE  BusInv'
<1> DEFINE fresh == timing # "partial"
           j == Judged(frames, fresh)
           r == IF configured = "channel" /\ fresh THEN Reply(j, frames, now) ELSE Nothing
           full == timing = "prompt" /\ Exhausted(r)
           seen == Noticed(policy, frames)
           data == wanted /\ Supported(seen, j) /\ Allows(seen, j, frames, timing)
           left == IF data THEN Granted(seen) ELSE seen
           idle == /\ configured = "channel" /\ Idle(j, frames)
                   /\ Allows(left, j, frames, timing)
<1>1. /\ session' = [j EXCEPT !.failed = j.failed \/ full]
      /\ policy' = IF idle THEN Granted(left) ELSE left
      /\ writes' = (IF data THEN {To("data", Address(j))} ELSE {})
                   \cup (IF idle THEN {To("idle", Address(j))} ELSE {})
      /\ configured' = configured /\ now' = now /\ epoch' = epoch /\ connected' = connected /\ requested' = requested
      /\ Remember(frames)
  BY DEF Listen
<1>2. /\ j \in SessionsOf(Nonces, now)
      /\ j.nonce = session.nonce /\ j.channel = session.channel
      /\ j.acked = session.acked /\ j.requestedAt = session.requestedAt
      /\ configured # "channel" => j = session
      /\ PendingOK(j, offered') /\ OwnershipOK(j, foreign')
  BY <1>1, JudgedFacts
<1>3. foreign' = foreign \cup Others(frames)
  BY <1>1 DEF Remember
<1>4. /\ seen \in [statusSeen : BOOLEAN, channelSeen : BOOLEAN, blocked : BOOLEAN,
                   lastTx : 0..now, consumed : BOOLEAN]
      /\ None \notin foreign'
      /\ configured = "direct" /\ ~seen.blocked => OwnAddress \notin foreign'
  BY <1>3, NoticedFacts
<1>5. full => configured = "channel" /\ j.requestedAt = 0
  <2>1. SUFFICES ASSUME full PROVE configured = "channel" /\ j.requestedAt = 0
    OBVIOUS
  <2>2. r.type = "request"
    BY <2>1 DEF Exhausted
  <2>3. configured = "channel" /\ r = Reply(j, frames, now) /\ r # Nothing
    BY <2>2 DEF Nothing
  <2> HIDE DEF j
  <2> QED
    BY <2>2, <2>3, ReplyFacts DEF To
<1>6. /\ policy' = seen \/ policy' = Granted(seen)
      /\ \/ writes' = {}
         \/ /\ Allows(seen, j, frames, timing)
            /\ \E x \in {"data", "idle"} : writes' = {To(x, Address(j))}
  <2>1. CASE data
    <3>1. left = Granted(seen)
      BY <2>1
    <3>2. ~idle
      BY <1>4, <3>1, GrantedFacts, SlotUsedOnce DEF BusInv, BusTypeOK
    <3> HIDE DEF left, idle
    <3> QED
      BY <1>1, <2>1, <3>1, <3>2
  <2>2. CASE ~data
    <3>1. left = seen
      BY <2>2
    <3>2. idle => Allows(seen, j, frames, timing)
      BY <3>1
    <3> HIDE DEF left, idle, data
    <3> QED
      BY <1>1, <2>2, <3>1, <3>2
  <2> QED
    BY <2>1, <2>2
<1>7. full \in BOOLEAN
  BY DEF Exhausted
<1> HIDE DEF r, full, j, seen, data, left, idle
<1>8. /\ configured \in Modes /\ now \in Nat \ {0} /\ epoch \in Nat
      /\ connected \in BOOLEAN /\ requested \in Seq(Nonces)
  BY DEF BusInv, BusTypeOK
<1>9. /\ session' \in SessionsOf(Nonces, now)
      /\ session'.nonce = j.nonce /\ session'.channel = j.channel
      /\ session'.acked = j.acked /\ session'.requestedAt = j.requestedAt
      /\ session'.ready = j.ready /\ session'.pending = j.pending
      /\ session'.clients = j.clients /\ (session'.failed <=> j.failed \/ full)
  BY <1>1, <1>2, <1>7 DEF SessionsOf
<1>11. /\ policy' \in [statusSeen : BOOLEAN, channelSeen : BOOLEAN, blocked : BOOLEAN,
                       lastTx : 0..now, consumed : BOOLEAN]
       /\ policy'.blocked = seen.blocked /\ policy'.channelSeen = seen.channelSeen
  BY <1>1, <1>4, <1>6, <1>8, GrantedFacts
<1>12. j.acked <=> j.channel # None
  BY <1>2 DEF BusInv, BusTypeOK
<1>13. BusTypeOK'
  BY <1>1, <1>8, <1>9, <1>11, <1>12 DEF BusTypeOK
<1>14. NoncesOK'
  BY <1>1, <1>2, <1>9 DEF BusInv, NoncesOK, AssignmentsBounded
<1>15. EvidenceOK'
  BY <1>1, <1>2, <1>4, <1>5, <1>9, <1>11 DEF BusInv, EvidenceOK
<1>16. PendingOK(session, offered)'
  BY <1>2, <1>9 DEF PendingOK
<1>17. OwnershipOK(session, foreign)'
  BY <1>1, <1>2, <1>5, <1>9 DEF OwnershipOK
<1>18. WritesOK'
  <2>1. CASE writes' = {}
    BY <2>1, Silent
  <2>2. ASSUME Allows(seen, j, frames, timing),
               NEW x \in {"data", "idle"}, writes' = {To(x, Address(j))}
        PROVE  WritesOK'
    <3>1. writes' = {To(x, Address(j))}
      BY <2>2
    <3>2. configured # "channel" => j.channel = None
      BY <1>2 DEF BusInv, EvidenceOK
    <3>3. /\ configured \in {"channel", "direct"} => Address(j) \notin foreign'
          /\ configured \in {"auto", "bwa", "classic"} => ~seen.channelSeen
      BY <1>2, <1>4, <1>12, <2>2, <3>2, AllowedFacts
    <3>4. OneWrite'
      BY <3>1, OneWriteAtMost
    <3>5. AckAnswersRequest'
      BY <2>2, <3>1 DEF AckAnswersRequest, To
    <3>6. NeverOnForeignAddress'
      BY <1>1, <3>1, <3>3 DEF NeverOnForeignAddress, To
    <3>7. VetoIsFinal'
      BY <1>1, <1>11, <3>3 DEF VetoIsFinal
    <3> QED
      BY <3>4, <3>5, <3>6, <3>7 DEF WritesOK
  <2> QED
    BY <1>6, <2>1, <2>2
<1> QED
  BY <1>13, <1>14, <1>15, <1>16, <1>17, <1>18 DEF BusInv

(* Every step keeps the invariant.                                         *)
LEMMA BusStepInv == BusInv /\ [BusNext]_busVars => BusInv'
<1> SUFFICES ASSUME BusInv, [BusNext]_busVars PROVE BusInv'
  OBVIOUS
<1>1. CASE Tick
  BY <1>1, TickInv
<1>2. CASE Connect
  BY <1>2, ConnectInv
<1>3. CASE Disconnect
  BY <1>3, DisconnectInv
<1>4. CASE Iterate
  <2>1. PICK frames \in Reads :
           \/ Retire(frames)
           \/ Manage(frames)
           \/ \E timing \in Timings, wanted \in BOOLEAN : Listen(frames, timing, wanted)
    BY <1>4 DEF Iterate
  <2> QED
    BY <2>1, RetireInv, ManageInv, ListenInv
<1>5. CASE UNCHANGED busVars
  BY <1>5 DEF busVars, BusInv, WritesOK, OneWrite, AckAnswersRequest, NeverOnForeignAddress,
     VetoIsFinal, BusTypeOK, NoncesOK, AssignmentsBounded, EvidenceOK, PendingOK, OwnershipOK
<1> QED
  BY <1>1, <1>2, <1>3, <1>4, <1>5 DEF BusNext

(* A failed session writes nothing.                                        *)
LEMMA FailedStep == BusInv /\ [BusNext]_busVars =>
                       (session.failed /\ epoch' = epoch => writes' = {} \/ UNCHANGED busVars)
<1> SUFFICES ASSUME BusInv, BusNext, session.failed, epoch' = epoch
             PROVE  writes' = {}
  OBVIOUS
<1>0. configured = "channel"
  BY DEF BusInv, EvidenceOK
<1>1. CASE Tick
  BY <1>1 DEF Tick
<1>2. CASE Connect
  BY <1>2 DEF Connect
<1>3. CASE Disconnect
  BY <1>3 DEF Disconnect
<1>4. ASSUME NEW frames \in Reads, Retire(frames)
      PROVE  writes' = {}
  BY <1>4 DEF Retire
<1>5. ASSUME NEW frames \in Reads, Manage(frames)
      PROVE  writes' = {}
  <2>1. Judged(frames, TRUE).failed
    BY <1>5, JudgedFacts DEF Manage
  <2>2. Reply(Judged(frames, TRUE), frames, now) # Nothing
    BY <1>5 DEF Manage
  <2> QED
    BY <2>1, <2>2, ReplyFacts
<1>6. ASSUME NEW frames \in Reads, NEW timing \in Timings, NEW wanted \in BOOLEAN,
             Listen(frames, timing, wanted)
      PROVE  writes' = {}
  <2> DEFINE j == Judged(frames, timing # "partial")
             seen == Noticed(policy, frames)
             data == wanted /\ Supported(seen, j) /\ Allows(seen, j, frames, timing)
             left == IF data THEN Granted(seen) ELSE seen
             idle == /\ configured = "channel" /\ Idle(j, frames)
                     /\ Allows(left, j, frames, timing)
  <2>1. /\ writes' = (IF data THEN {To("data", Address(j))} ELSE {})
                     \cup (IF idle THEN {To("idle", Address(j))} ELSE {})
        /\ Remember(frames)
    BY <1>6 DEF Listen
  <2>2. j.failed /\ OwnershipOK(j, foreign')
    BY <2>1, JudgedFacts
  <2>3. ASSUME NEW p PROVE ~Allows(p, j, frames, timing)
    <3>1. Mode(p) = "channel"
      BY <1>0 DEF Mode
    <3>2. ~j.ready
      BY <2>2 DEF OwnershipOK
    <3> QED
      BY <3>1, <3>2 DEF Allows, Supported
  <2>4. ~data /\ ~idle
    BY <2>3
  <2> HIDE DEF data, idle
  <2> QED
    BY <2>1, <2>4
<1> QED
  BY <1>1, <1>2, <1>3, <1>4, <1>5, <1>6 DEF BusNext, Iterate

-----------------------------------------------------------------------------
(* The theorems.                                                           *)

(* The inductive invariant holds in every reachable state.                 *)
THEOREM BusInvariance == BusSpec => []BusInv
BY BusInitInv, BusStepInv, PTL DEF BusSpec

(* Sessions, evidence and requests keep their types; a session has an      *)
(* address exactly when it has acknowledged one.                           *)
THEOREM BusTypeCorrect == BusSpec => []BusTypeOK
<1>1. BusInv => BusTypeOK
  BY DEF BusInv
<1> QED
  BY <1>1, BusInvariance, PTL

(* Whatever a read contains, it is answered by one frame at most: what the *)
(* query or the command leaves of a slot is nothing, because allows_query  *)
(* has marked the slot of this read as consumed.                           *)
THEOREM OneWritePerPass == BusSpec => []OneWrite
<1>1. BusInv => OneWrite
  BY DEF BusInv, WritesOK
<1> QED
  BY <1>1, BusInvariance, PTL

(* An acknowledged address was offered in answer to the request of this    *)
(* very socket, and was the only free one that was.                        *)
THEOREM AckAnswersOwnRequest == BusSpec => []AckAnswersRequest
<1>1. BusInv => AckAnswersRequest
  BY DEF BusInv, WritesOK
<1> QED
  BY <1>1, BusInvariance, PTL

(* Nothing is written on an address that another client uses.              *)
THEOREM ForeignAddressRespected == BusSpec => []NeverOnForeignAddress
<1>1. BusInv => NeverOnForeignAddress
  BY DEF BusInv, WritesOK
<1> QED
  BY <1>1, BusInvariance, PTL

(* The lifetime budget of requests holds over all reconnections, and no    *)
(* nonce is requested with twice.                                          *)
THEOREM AssignmentBudgetHolds == BusSpec => []AssignmentsBounded
<1>1. BusInv => AssignmentsBounded
  BY DEF BusInv, NoncesOK
<1> QED
  BY <1>1, BusInvariance, PTL

(* A shared slot is never used once other addressed traffic was seen.      *)
THEOREM VetoHolds == BusSpec => []VetoIsFinal
<1>1. BusInv => VetoIsFinal
  BY DEF BusInv, WritesOK
<1> QED
  BY <1>1, BusInvariance, PTL

(* The two together are what the run checks: nothing on an address that    *)
(* somebody else uses, nothing where somebody else manages the addresses.  *)
THEOREM SlotsAreRespected == BusSpec => []SlotsRespected
<1>1. NeverOnForeignAddress /\ VetoIsFinal => SlotsRespected
  BY DEF SlotsRespected
<1> QED
  BY <1>1, ForeignAddressRespected, VetoHolds, PTL

(* After a collision, a conflict or a missed handshake the client stays    *)
(* silent until the next socket.                                           *)
THEOREM FailureIsSilent == BusSpec => FailedIsSilent
<1>1. BusInv /\ [BusNext]_busVars =>
        [session.failed /\ epoch' = epoch => writes' = {}]_busVars
  BY FailedStep
<1> QED
  BY <1>1, BusInvariance, PTL DEF BusSpec, FailedIsSilent
=============================================================================
