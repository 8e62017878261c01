------------------------------- MODULE Frame -------------------------------
(***************************************************************************)
(* The layout of a frame (src/frame_transport.cpp): a header, the payload, *)
(* and a CRC over both.                                                    *)
(*                                                                         *)
(*   version | type | sequence | payload size | payload ... | CRC          *)
(*                                                                         *)
(* The fields are 1, 1, 2, 4, n and 4 bytes wide in the code, and the      *)
(* integers little-endian.  Here every field is one element of the         *)
(* sequence, a byte of a size the module's user chooses: what a receiver   *)
(* does depends on where the fields are and on which of their bytes may be *)
(* taken for a version byte, not on how many digits a number has.          *)
(***************************************************************************)
EXTENDS Integers, Sequences

CONSTANTS
    Bytes,            \* the values of a byte: 0 .. 255 in the code
    MaxPayload,       \* kMaxFrameSize
    SizeModulus,      \* 2 to the width of std::size_t, in which sizes are added
    ComputeCrc32(_)   \* ComputeCrc32, from a sequence of bytes to a byte

Version == 1      \* kProtocolVersion
DataType == 0     \* FrameType::Data

HeaderSize == 4   \* kHeaderSize
CrcSize == 1      \* kCrcSize
MinimumFrameSize == HeaderSize + CrcSize

\* The payload size a header announces, and the size of the whole frame.
PayloadSize(bytes) == bytes[4]
TotalSize(bytes) == (HeaderSize + PayloadSize(bytes) + CrcSize) % SizeModulus

\* BuildFrame, and the frame TransmitFrame composes.
BuildFrame(seq, payload) ==
    LET covered == <<Version, DataType, seq, Len(payload)>> \o payload
    IN  Append(covered, ComputeCrc32(covered))

CrcMatches(bytes) ==
    bytes[Len(bytes)] = ComputeCrc32(SubSeq(bytes, 1, Len(bytes) - CrcSize))

\* HandleIncoming reaches the data handler.
Accepted(bytes) ==
    /\ Len(bytes) >= MinimumFrameSize
    /\ bytes[1] = Version
    /\ Len(bytes) = TotalSize(bytes)
    /\ CrcMatches(bytes)
    /\ bytes[2] = DataType

\* What it passes to the data handler.
Payload(bytes) == SubSeq(bytes, HeaderSize + 1, HeaderSize + PayloadSize(bytes))
=============================================================================
