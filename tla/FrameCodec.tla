----------------------------- MODULE FrameCodec -----------------------------
(***************************************************************************)
(* A frame byte for byte: what TransmitFrame and BuildFrame write and what *)
(* HandleIncoming makes of it after a line that may damage it              *)
(* (src/frame_transport.cpp).  The layout is written down three times in   *)
(* the code:                                                               *)
(*                                                                         *)
(*   version  type  sequence  payload size  payload  CRC-32                *)
(*      1      1       2           4           n        4     bytes        *)
(*                                                                         *)
(* with the integers little-endian.  TransmitFrame writes into a buffer it *)
(* does not clear: behind a short frame are the bytes of a longer one.     *)
(***************************************************************************)
EXTENDS Crc32

CONSTANTS
    SequenceNumbers,   \* the numbers NextSequence may have returned
    PayloadSet,        \* the payloads sent, as sequences of bytes
    MaxPayload,        \* kMaxFrameSize
    Capacities,        \* the outputBufferCapacity values BuildFrame is given
    BurstShapes,       \* the bits a burst inverts, counted from its first
    MaxFrames          \* bound: frames sent

ASSUME CodecAssumption ==
    /\ MaxPayload \in Nat
    /\ Capacities \subseteq Nat
    /\ PayloadSet \subseteq Seq(Byte)
    /\ \A shape \in BurstShapes : shape \in Word /\ 0 \in shape

\* A sequence number has two bytes, the payload size four (kMaxFrameSize is 4096).
ASSUME WidthAssumption ==
    /\ SequenceNumbers \subseteq 1 .. 65535
    /\ MaxPayload \div 256^3 < 256

VARIABLES
    buffer,    \* one of transmitBuffers
    sent,      \* the number and the payload of the frame sent last: {} or one
    frame,     \* the bytes write_ was called with
    built,     \* what BuildFrame made of the same: no bytes if it refused
    damage,    \* history: what the line has done to the frame
    arrived,   \* the bytes that have come in
    outcome,   \* what became of them in HandleIncoming
    given,     \* the payload the data handler was called with
    frames     \* frames sent so far

vars == <<buffer, sent, frame, built, damage, arrived, outcome, given, frames>>

HeaderSize == 8   \* kHeaderSize
CrcSize == 4      \* kCrcSize

Version == {0}    \* kProtocolVersion, 1
DataType == {}    \* FrameType::Data, 0

ByteOf(n) == {i \in 0 .. 7 : (n \div 2^i) % 2 = 1}

\* A number in `width' bytes, the lowest first (EndianScalar and memcpy).
LittleEndian(n, width) == [j \in 1 .. width |-> ByteOf(n \div 256^(j - 1))]

\* A word in four bytes, the lowest first.
BytesOfWord(w) == [j \in 1 .. 4 |-> ShiftRight(w, 8 * (j - 1)) \cap (0 .. 7)]

\* buffer with bytes written from the given place on (memcpy).
Write(bytes, at, values) ==
    [i \in 1 .. Len(bytes) |->
        IF i \in at .. at + Len(values) - 1 THEN values[i - at + 1] ELSE bytes[i]]

-----------------------------------------------------------------------------
(***************************************************************************)
(* The sending side.                                                       *)
(***************************************************************************)
BufferSize == HeaderSize + MaxPayload + CrcSize

Header(number, size) ==
    <<Version, DataType>> \o LittleEndian(number, 2) \o LittleEndian(size, 4)

\* Mutant: the CRC does not cover the header.
CoveredPayload(bytes, size) == SubSeq(bytes, HeaderSize + 1, HeaderSize + size)

\* Mutant: it covers the whole buffer.
CoveredBuffer(bytes, size) == bytes

\* The bytes the CRC is computed over.
Covered(bytes, size) == SubSeq(bytes, 1, HeaderSize + size)

\* The buffer after TransmitFrame has composed a frame in it.
Composed(number, payload) ==
    LET size    == Len(payload)
        covered == Write(Write(buffer, 1, Header(number, size)), HeaderSize + 1, payload)
    IN  Write(covered, HeaderSize + size + 1,
              BytesOfWord(ComputeCrc32(Covered(covered, size))))

TransmitFrame(number, payload) ==
    /\ frames < MaxFrames /\ Len(payload) <= MaxPayload
    /\ outcome = "none" \/ damage = "none"
    /\ frames' = frames + 1
    /\ buffer' = Composed(number, payload)
    /\ frame' = SubSeq(buffer', 1, HeaderSize + Len(payload) + CrcSize)
    /\ sent' = {[number |-> number, payload |-> payload]}
    /\ built' = <<>> /\ damage' = "none" /\ arrived' = <<>> /\ outcome' = "none" /\ given' = <<>>

\* BuildFrame writes the same into a buffer of the caller's.
BuildFrame(number, payload, capacity) ==
    LET size    == Len(payload)
        covered == Header(number, size) \o payload
    IN  IF size > MaxPayload \/ HeaderSize + size + CrcSize > capacity THEN <<>>
        ELSE covered \o BytesOfWord(ComputeCrc32(covered))

Build(capacity) ==
    /\ arrived = <<>>
    /\ \E message \in sent : built' = BuildFrame(message.number, message.payload, capacity)
    /\ UNCHANGED <<buffer, sent, frame, damage, arrived, outcome, given, frames>>

-----------------------------------------------------------------------------
(***************************************************************************)
(* The line.                                                               *)
(***************************************************************************)
\* The bytes with some bits inverted, counted from the first one sent.
Inverted(bytes, bits) ==
    [i \in 1 .. Len(bytes) |-> Xor(bytes[i], {k \in 0 .. 7 : 8 * (i - 1) + k \in bits})]

Deliver(bytes, how) ==
    /\ sent # {} /\ arrived = <<>>
    /\ arrived' = bytes
    /\ damage' = how
    /\ UNCHANGED <<buffer, sent, frame, built, outcome, given, frames>>

Intact == Deliver(frame, "none")

Burst ==
    \E start \in 0 .. 8 * Len(frame) - 1, shape \in BurstShapes :
        /\ \A k \in shape : start + k < 8 * Len(frame)
        /\ Deliver(Inverted(frame, ShiftLeft(shape, start)), "burst")

\* Bytes are missing at the end, or do not belong to the frame.
Cut == \E n \in 1 .. Len(frame) - 1 : Deliver(SubSeq(frame, 1, n), "length")

Extended == \E byte \in {Version, DataType} : Deliver(Append(frame, byte), "length")

-----------------------------------------------------------------------------
(***************************************************************************)
(* HandleIncoming.                                                         *)
(***************************************************************************)
MinimumFrameSize == HeaderSize + CrcSize

\* The announced size makes up the frame.  (It has 32 bits and is added to 12:
\* there is one value that does, whether the sum has 32 bits or 64.)
SizeMatches(bytes) ==
    SubSeq(bytes, 5, 8) = LittleEndian(Len(bytes) - MinimumFrameSize, 4)

\* Mutant: half of the CRC is compared.
CrcMatchesHalf(bytes) ==
    SubSeq(bytes, Len(bytes) - 1, Len(bytes)) =
        SubSeq(BytesOfWord(ComputeCrc32(SubSeq(bytes, 1, Len(bytes) - CrcSize))), 3, 4)

CrcMatches(bytes) ==
    SubSeq(bytes, Len(bytes) - CrcSize + 1, Len(bytes)) =
        BytesOfWord(ComputeCrc32(SubSeq(bytes, 1, Len(bytes) - CrcSize)))

Valid(bytes) ==
    /\ Len(bytes) >= MinimumFrameSize
    /\ bytes[1] = Version /\ SizeMatches(bytes)
    /\ CrcMatches(bytes)
    /\ bytes[2] = DataType

PayloadOf(bytes) == SubSeq(bytes, HeaderSize + 1, Len(bytes) - CrcSize)

HandleIncoming ==
    /\ arrived # <<>> /\ outcome = "none"
    /\ IF Valid(arrived) THEN outcome' = "handled" /\ given' = PayloadOf(arrived)
                         ELSE outcome' = "refused" /\ given' = <<>>
    /\ UNCHANGED <<buffer, sent, frame, built, damage, arrived, frames>>

-----------------------------------------------------------------------------
Init ==
    /\ buffer = [i \in 1 .. BufferSize |-> {}]
    /\ sent = {} /\ frame = <<>> /\ built = <<>>
    /\ damage = "none" /\ arrived = <<>> /\ outcome = "none" /\ given = <<>>
    /\ frames = 0

Next ==
    \/ \E number \in SequenceNumbers, payload \in PayloadSet : TransmitFrame(number, payload)
    \/ \E capacity \in Capacities : Build(capacity)
    \/ Intact \/ Burst \/ Cut \/ Extended
    \/ HandleIncoming

Spec == Init /\ [][Next]_vars

-----------------------------------------------------------------------------
(***************************************************************************)
(* Properties.                                                             *)
(***************************************************************************)

\* The table and the loop that reads it compute CRC-32 (the tests compare them
\* with a copy of themselves).
CrcIsStandard ==
    sent # {} /\ arrived = <<>> =>
        LET covered == SubSeq(frame, 1, Len(frame) - CrcSize)
        IN  ComputeCrc32(covered) = StandardCrc32(covered)

\* What one transport sends and the line leaves alone, another takes, whatever
\* the buffer held before: the handler gets the payload that was sent.
RoundTrip ==
    outcome # "none" /\ damage = "none" =>
        outcome = "handled" /\ \E message \in sent : given = message.payload

\* A frame is not handled after an error burst of up to 32 bits, wherever it
\* hits, nor when bytes are missing or too many.
DamageDetected == damage # "none" => outcome # "handled"

\* A frame built by BuildFrame is the frame TransmitFrame would send.
ComposersAgree == built # <<>> => built = frame
=============================================================================
