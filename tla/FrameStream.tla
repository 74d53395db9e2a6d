---------------------------- MODULE FrameStream ----------------------------
(***************************************************************************)
(* The envelope on the byte stream: src/balboa_rs485/protocol/frames.py    *)
(* (encode_frame, FrameParser) and crc.py.                                 *)
(*                                                                         *)
(* A frame is <<Delimiter, length, ..., crc, Delimiter>> and nothing is    *)
(* escaped: a payload or a checksum may have the value of the delimiter,   *)
(* and one delimiter may seem to end a frame and to start another.         *)
(* TCP cuts the stream anywhere, junk gets between the frames, and a       *)
(* connection may end in the middle of one.                                *)
(***************************************************************************)
EXTENDS Integers, Bitwise, FiniteSetsExt, SequencesExt

CONSTANTS
    Width,                 \* bits of an octet (8)
    Polynomial,            \* of the checksum (7)
    Preset,                \* its initial value and the final mask (2)
    Delimiter,             \* 0x7E
    MinLength, MaxLength,  \* 5 and 125
    Bodies,                \* what a frame carries between length and checksum
    Junk,                  \* pieces of other bytes
    Pieces,                \* bound on the pieces of a connection's stream
    Chunk                  \* bound on the octets that arrive together

Octets == 0..(2^Width - 1)

ASSUME StreamParameters ==
    /\ Width \in Nat \ {0} /\ {Polynomial, Preset, Delimiter, MaxLength} \subseteq Octets
    /\ MinLength \in 2..MaxLength /\ Pieces \in Nat /\ Chunk \in Nat
    /\ \A body \in Bodies : Len(body) + 2 \in MinLength..MaxLength

VARIABLES
    wires,     \* the streams of this connection and the next
    fed,       \* octets of this stream that were read
    buffer,    \* _buffer
    frames,    \* where the frames found in this stream start
    discarded  \* counters.discarded_bytes

streamVars == <<wires, fed, buffer, frames, discarded>>

-----------------------------------------------------------------------------
Shifted(register) ==
    (2 * register % 2^Width) ^^ (IF register >= 2^(Width - 1) THEN Polynomial ELSE 0)
Crc8(data) ==
    LET after[n \in 0..Width, octet \in Octets] ==
            IF n = 0 THEN octet ELSE Shifted(after[n - 1, octet])
    IN  FoldLeft(LAMBDA register, octet : after[Width, register ^^ octet], Preset, data) ^^ Preset

EncodeFrame(body) ==
    LET covered == <<Len(body) + 2>> \o body
    IN  <<Delimiter>> \o covered \o <<Crc8(covered), Delimiter>>

(* The candidate at the start of a buffer that starts with a delimiter.    *)
Length(b) == b[2]
LengthValid(b) == Length(b) \in MinLength..MaxLength
Whole(b) == Len(b) >= Length(b) + 2
Valid(b) ==
    /\ b[Length(b) + 2] = Delimiter
    /\ Crc8(SubSeq(b, 2, Length(b))) = b[Length(b) + 1]

Drop(b, n) == SubSeq(b, n + 1, Len(b))
Find(b) == IF Contains(b, Delimiter) THEN Min({i \in DOMAIN b : b[i] = Delimiter}) - 1 ELSE Len(b)

(* One round of the loop of feed on p, a parser with p.at octets of the    *)
(* stream before its buffer.                                               *)
Discard(p, n) == [p EXCEPT !.buffer = Drop(@, n), !.at = @ + n, !.discarded = @ + n]
Found(p, n) ==
    [p EXCEPT !.frames = Append(@, p.at), !.at = @ + n, !.buffer = Drop(@, n)]

\* mutant: a candidate that fails is dropped as a whole
SkipCandidate(p) ==
    IF Len(p.buffer) < 2 THEN p
    ELSE IF ~LengthValid(p.buffer) THEN Discard(p, 1)
    ELSE IF ~Whole(p.buffer) THEN p
    ELSE IF Valid(p.buffer) THEN Found(p, Length(p.buffer) + 2)
    ELSE Discard(p, Length(p.buffer) + 2)

Candidate(p) ==
    IF Len(p.buffer) < 2 THEN p
    ELSE IF ~LengthValid(p.buffer) THEN Discard(p, 1)
    ELSE IF ~Whole(p.buffer) THEN p
    ELSE IF Valid(p.buffer) THEN Found(p, Length(p.buffer) + 2)
    ELSE Discard(p, 1)
Round(p) == IF p.buffer = <<>> THEN p ELSE Candidate(Discard(p, Find(p.buffer)))

(* The loop ends with a round that changes nothing, any other takes at     *)
(* least one octet.                                                        *)
Feed(p, chunk) ==
    LET after[n \in 0..(Len(p.buffer) + Len(chunk))] ==
            IF n = 0 THEN [p EXCEPT !.buffer = @ \o chunk] ELSE Round(after[n - 1])
    IN  after[Len(p.buffer) + Len(chunk)]

-----------------------------------------------------------------------------
Stream == FlattenSeq(wires[1])

(* What a spa, or the simulator in its faulty scenarios, may send.         *)
Wires == BoundedSeq({EncodeFrame(body) : body \in Bodies} \cup Junk, Pieces)

StreamInit ==
    /\ wires \in {<<wire, <<EncodeFrame(last)>> >> : last \in Bodies, wire \in Wires}
    /\ fed = 0 /\ buffer = <<>> /\ frames = <<>> /\ discarded = 0

Read(n) ==
    /\ fed + n <= Len(Stream)
    /\ \E p \in {Feed([buffer |-> buffer, at |-> fed - Len(buffer), frames |-> frames,
                       discarded |-> discarded], SubSeq(Stream, fed + 1, fed + n))} :
            buffer' = p.buffer /\ frames' = p.frames /\ discarded' = p.discarded
    /\ fed' = fed + n
    /\ UNCHANGED wires

(* The connection ends, wherever it is; its parser serves the next one.    *)
Reset ==
    /\ Len(wires) = 2
    /\ discarded' = discarded + Len(buffer) /\ buffer' = <<>>
    /\ wires' = Tail(wires) /\ fed' = 0 /\ frames' = <<>>

StreamNext == (\E n \in 1..Chunk : Read(n)) \/ Reset

-----------------------------------------------------------------------------
(* Whether a whole, valid frame starts n octets into what was read.        *)
Genuine(read, n) ==
    \E b \in {Drop(read, n)} :
        Len(b) >= 2 /\ b[1] = Delimiter /\ LengthValid(b) /\ Whole(b) /\ Valid(b)
EndOf(read, n) == n + read[n + 2] + 2

(* StreamInv: however TCP cut the stream, the frames found are those of a  *)
(* scan from left to right: each is genuine, none overlaps the one before, *)
(* and a genuine frame is missing only where a found one covers its start  *)
(* or a candidate in the buffer still waits.  What waits is bounded by one *)
(* frame, and is no frame: nothing complete is held back.                  *)
StreamInv ==
    \A read \in {SubSeq(Stream, 1, fed)} :
        /\ \A i \in DOMAIN frames :
                /\ Genuine(read, frames[i])
                /\ i > 1 => EndOf(read, frames[i - 1]) <= frames[i]
        /\ \A n \in 0..(fed - Len(buffer) - 1) :
                Genuine(read, n) =>
                    \E i \in DOMAIN frames : frames[i] <= n /\ n < EndOf(read, frames[i])
        /\ buffer = Drop(read, fed - Len(buffer)) /\ Len(buffer) < MaxLength + 2
        /\ buffer # <<>> => buffer[1] = Delimiter /\ ~Genuine(read, fed - Len(buffer))
=============================================================================
