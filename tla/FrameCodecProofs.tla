--------------------------- MODULE FrameCodecProofs ---------------------------
(***************************************************************************)
(* What is proved of FrameCodec, for all numbers, payloads, capacities,    *)
(* frame sizes and shapes of bursts: what is sent arrives, both composers  *)
(* write the same, the CRC in a frame is CRC-32, and no burst and no wrong *)
(* length gets past HandleIncoming.                                        *)
(***************************************************************************)
EXTENDS FrameCodec, Crc32Proofs, SequenceTheorems

Bytes == Seq(Byte)

-----------------------------------------------------------------------------
(***************************************************************************)
(* Sequences of bytes.                                                     *)
(***************************************************************************)

\* What a part of a sequence is.
LEMMA PartIs ==
    ASSUME NEW s \in Bytes, NEW m \in Nat \ {0}, NEW n \in Nat, m - 1 <= n, n <= Len(s)
    PROVE  /\ SubSeq(s, m, n) \in Bytes /\ Len(SubSeq(s, m, n)) = (n - m) + 1
           /\ \A i \in 1 .. (n - m) + 1 : SubSeq(s, m, n)[i] = s[(m + i) - 1]
  <1>1. SubSeq(s, m, n) \in Bytes /\ Len(SubSeq(s, m, n)) = (n - m) + 1
    BY DEF Bytes
  <1>2. ASSUME NEW i \in 1 .. (n - m) + 1 PROVE SubSeq(s, m, n)[i] = s[(m + i) - 1]
    BY DEF Bytes
  <1> QED BY <1>1, <1>2

\* Where the elements of two sequences are in their concatenation.
LEMMA ConcatIs ==
    ASSUME NEW a \in Bytes, NEW b \in Bytes
    PROVE  /\ a \o b \in Bytes /\ Len(a \o b) = Len(a) + Len(b)
           /\ \A i \in 1 .. Len(a) : (a \o b)[i] = a[i]
           /\ \A i \in 1 .. Len(b) : (a \o b)[Len(a) + i] = b[i]
  <1>1. a \o b \in Bytes /\ Len(a \o b) = Len(a) + Len(b)
    BY DEF Bytes
  <1>2. ASSUME NEW i \in 1 .. Len(a) PROVE (a \o b)[i] = a[i]
    BY DEF Bytes
  <1>3. ASSUME NEW i \in 1 .. Len(b) PROVE (a \o b)[Len(a) + i] = b[i]
    BY DEF Bytes
  <1> QED BY <1>1, <1>2, <1>3

\* Sequences with the same elements are the same.
LEMMA SameBytes ==
    ASSUME NEW s \in Bytes, NEW t \in Bytes, Len(s) = Len(t),
           \A i \in 1 .. Len(s) : s[i] = t[i]
    PROVE  s = t
  BY SeqEqual DEF Bytes

\* A function on the numbers up to n is a sequence of n elements.
LEMMA FunctionIsBytes ==
    ASSUME NEW n \in Nat, NEW f \in [1 .. n -> Byte]
    PROVE  f \in Bytes /\ Len(f) = n
  BY DEF Bytes

\* The first part of a concatenation is its first operand, the rest the second.
LEMMA PartsOfConcat ==
    ASSUME NEW a \in Bytes, NEW b \in Bytes
    PROVE  /\ SubSeq(a \o b, 1, Len(a)) = a
           /\ SubSeq(a \o b, Len(a) + 1, Len(a) + Len(b)) = b
  <1> DEFINE m == Len(a)
             n == Len(b)
             c == a \o b
  <1>0. m \in Nat /\ n \in Nat
    BY DEF Bytes
  <1>1. /\ c \in Bytes /\ Len(c) = m + n
        /\ \A i \in 1 .. m : c[i] = a[i]
        /\ \A i \in 1 .. n : c[m + i] = b[i]
    BY ConcatIs
  <1> HIDE DEF c
  <1>2. SubSeq(c, 1, m) = a
    <2>1. /\ SubSeq(c, 1, m) \in Bytes /\ Len(SubSeq(c, 1, m)) = (m - 1) + 1
          /\ \A i \in 1 .. (m - 1) + 1 : SubSeq(c, 1, m)[i] = c[(1 + i) - 1]
      BY <1>0, <1>1, PartIs
    <2>2. (m - 1) + 1 = m /\ \A i \in 1 .. m : (1 + i) - 1 = i
      BY <1>0
    <2>3. \A i \in 1 .. m : SubSeq(c, 1, m)[i] = a[i]
      BY <1>1, <2>1, <2>2
    <2> QED BY <2>1, <2>2, <2>3, SameBytes
  <1>3. SubSeq(c, m + 1, m + n) = b
    <2>1. /\ SubSeq(c, m + 1, m + n) \in Bytes
          /\ Len(SubSeq(c, m + 1, m + n)) = ((m + n) - (m + 1)) + 1
          /\ \A i \in 1 .. ((m + n) - (m + 1)) + 1 :
                 SubSeq(c, m + 1, m + n)[i] = c[((m + 1) + i) - 1]
      BY <1>0, <1>1, PartIs
    <2>2. ((m + n) - (m + 1)) + 1 = n /\ \A i \in 1 .. n : ((m + 1) + i) - 1 = m + i
      BY <1>0
    <2>3. \A i \in 1 .. n : SubSeq(c, m + 1, m + n)[i] = b[i]
      BY <1>1, <2>1, <2>2
    <2> QED BY <2>1, <2>2, <2>3, SameBytes
  <1> QED BY <1>2, <1>3 DEF c

-----------------------------------------------------------------------------
(***************************************************************************)
(* memcpy: what Write leaves before the place where it writes, and what it *)
(* writes there.                                                           *)
(***************************************************************************)
LEMMA WriteIs ==
    ASSUME NEW bytes \in Bytes, NEW values \in Bytes, NEW m \in Nat,
           m + Len(values) <= Len(bytes)
    PROVE  /\ Write(bytes, m + 1, values) \in Bytes
           /\ Len(Write(bytes, m + 1, values)) = Len(bytes)
           /\ SubSeq(Write(bytes, m + 1, values), 1, m + Len(values)) =
                  SubSeq(bytes, 1, m) \o values
  <1> DEFINE n == Len(values)
             w == Write(bytes, m + 1, values)
             before == SubSeq(bytes, 1, m)
  <1>0. n \in Nat /\ Len(bytes) \in Nat
    BY DEF Bytes
  <1>1. /\ w \in Bytes /\ Len(w) = Len(bytes)
        /\ \A i \in 1 .. Len(bytes) :
               w[i] = IF i \in m + 1 .. (m + 1) + n - 1 THEN values[(i - (m + 1)) + 1] ELSE bytes[i]
    <2>1. ASSUME NEW i \in 1 .. Len(bytes)
          PROVE  (IF i \in m + 1 .. (m + 1) + n - 1
                      THEN values[i - (m + 1) + 1] ELSE bytes[i]) \in Byte
      <3>1. i \in m + 1 .. (m + 1) + n - 1 => i - (m + 1) + 1 \in 1 .. n
        BY <1>0
      <3>2. \A j \in 1 .. n : values[j] \in Byte
        BY DEF Bytes
      <3>3. bytes[i] \in Byte
        BY DEF Bytes
      <3> QED BY <3>1, <3>2, <3>3
    <2>2. w \in [1 .. Len(bytes) -> Byte]
      BY <2>1, Zenon DEF Write
    <2>3. w \in Bytes /\ Len(w) = Len(bytes)
      <3> HIDE DEF w
      <3> QED BY <1>0, <2>2, FunctionIsBytes
    <2>4. \A i \in 1 .. Len(bytes) :
               w[i] = IF i \in m + 1 .. (m + 1) + n - 1 THEN values[(i - (m + 1)) + 1] ELSE bytes[i]
      BY Zenon DEF Write
    <2> QED BY <2>3, <2>4
  <1>2. before \in Bytes /\ Len(before) = m /\ \A i \in 1 .. m : before[i] = bytes[i]
    <2>1. (m - 1) + 1 = m /\ 1 - 1 <= m /\ m <= Len(bytes) /\ \A i \in 1 .. m : (1 + i) - 1 = i
      BY <1>0
    <2>2. /\ before \in Bytes /\ Len(before) = (m - 1) + 1
          /\ \A i \in 1 .. (m - 1) + 1 : before[i] = bytes[(1 + i) - 1]
      BY <2>1, PartIs
    <2> QED BY <2>1, <2>2
  <1> HIDE DEF w, before
  <1>3. /\ before \o values \in Bytes /\ Len(before \o values) = m + n
        /\ \A i \in 1 .. m : (before \o values)[i] = before[i]
        /\ \A i \in 1 .. n : (before \o values)[m + i] = values[i]
    BY <1>2, ConcatIs
  <1>4. /\ SubSeq(w, 1, m + n) \in Bytes /\ Len(SubSeq(w, 1, m + n)) = m + n
        /\ \A i \in 1 .. m + n : SubSeq(w, 1, m + n)[i] = w[i]
    <2>1. /\ ((m + n) - 1) + 1 = m + n /\ 1 - 1 <= m + n /\ m + n <= Len(w) /\ m + n \in Nat
          /\ \A i \in 1 .. m + n : (1 + i) - 1 = i
      BY <1>0, <1>1
    <2>2. /\ SubSeq(w, 1, m + n) \in Bytes /\ Len(SubSeq(w, 1, m + n)) = ((m + n) - 1) + 1
          /\ \A i \in 1 .. ((m + n) - 1) + 1 : SubSeq(w, 1, m + n)[i] = w[(1 + i) - 1]
      BY <1>1, <2>1, PartIs
    <2> QED BY <2>1, <2>2
  <1>5. ASSUME NEW i \in 1 .. m + n PROVE SubSeq(w, 1, m + n)[i] = (before \o values)[i]
    <2>1. i \in 1 .. Len(bytes)
      BY <1>0
    <2>2. CASE i <= m
      <3>1. i \in 1 .. m /\ i \notin m + 1 .. (m + 1) + n - 1
        BY <2>2
      <3>2. w[i] = bytes[i]
        BY <1>1, <2>1, <3>1
      <3> QED BY <1>2, <1>3, <1>4, <3>1, <3>2
    <2>3. CASE ~ i <= m
      <3>1. PICK j \in 1 .. n : j = i - m
        BY <1>0, <2>3
      <3>2. i \in m + 1 .. (m + 1) + n - 1 /\ (i - (m + 1)) + 1 = j /\ m + j = i
        BY <1>0, <3>1
      <3>3. w[i] = values[j]
        BY <1>1, <2>1, <3>2
      <3>4. (before \o values)[i] = values[j]
        BY <1>3, <3>1, <3>2
      <3> QED BY <1>4, <3>3, <3>4
    <2> QED BY <2>2, <2>3
  <1>6. SubSeq(w, 1, m + n) = before \o values
    BY <1>3, <1>4, <1>5, SameBytes
  <1> QED BY <1>1, <1>6 DEF w, before

-----------------------------------------------------------------------------
(***************************************************************************)
(* The fields.                                                             *)
(***************************************************************************)
\* The bytes of a number.
LEMMA LittleEndianIs ==
    ASSUME NEW n, NEW width \in Nat
    PROVE  /\ LittleEndian(n, width) \in Bytes /\ Len(LittleEndian(n, width)) = width
           /\ \A j \in 1 .. width : LittleEndian(n, width)[j] = ByteOf(n \div 256^(j - 1))
  <1>1. LittleEndian(n, width) \in [1 .. width -> Byte]
    BY DEF LittleEndian, ByteOf, Byte
  <1>2. \A j \in 1 .. width : LittleEndian(n, width)[j] = ByteOf(n \div 256^(j - 1))
    BY DEF LittleEndian
  <1> HIDE DEF LittleEndian
  <1> QED BY <1>1, <1>2, FunctionIsBytes

\* The two widths there are.
LEMMA FieldWidths ==
    ASSUME NEW n
    PROVE  /\ LittleEndian(n, 2) \in Bytes /\ Len(LittleEndian(n, 2)) = 2
           /\ LittleEndian(n, 4) \in Bytes /\ Len(LittleEndian(n, 4)) = 4
  <1>1. ASSUME NEW width \in Nat
        PROVE  LittleEndian(n, width) \in Bytes /\ Len(LittleEndian(n, width)) = width
    BY LittleEndianIs
  <1>2. 2 \in Nat /\ 4 \in Nat
    OBVIOUS
  <1> HIDE DEF LittleEndian
  <1> QED BY <1>1, <1>2, Zenon

\* The checksum's bytes.
LEMMA BytesOfWordIs ==
    ASSUME NEW w \in Word
    PROVE  /\ BytesOfWord(w) \in Bytes /\ Len(BytesOfWord(w)) = 4
           /\ \A j \in 1 .. 4 : BytesOfWord(w)[j] = ShiftRight(w, 8 * (j - 1)) \cap (0 .. 7)
  <1>1. BytesOfWord(w) \in [1 .. 4 -> Byte]
    BY DEF BytesOfWord, Byte
  <1>2. \A j \in 1 .. 4 : BytesOfWord(w)[j] = ShiftRight(w, 8 * (j - 1)) \cap (0 .. 7)
    BY DEF BytesOfWord
  <1>3. 4 \in Nat
    OBVIOUS
  <1> HIDE DEF BytesOfWord
  <1> QED BY <1>1, <1>2, <1>3, FunctionIsBytes

\* The eight bytes of a header, and where its fields are.
LEMMA HeaderIs ==
    ASSUME NEW number, NEW size
    PROVE  /\ Header(number, size) \in Bytes /\ Len(Header(number, size)) = 8
           /\ Header(number, size)[1] = Version /\ Header(number, size)[2] = DataType
           /\ \A j \in 1 .. 4 : Header(number, size)[4 + j] = LittleEndian(size, 4)[j]
  <1> DEFINE a == <<Version, DataType>>
             b == LittleEndian(number, 2)
             c == LittleEndian(size, 4)
             ab == a \o b
  <1>1. a \in Bytes /\ Len(a) = 2 /\ a[1] = Version /\ a[2] = DataType
    <2>1. Version \in Byte /\ DataType \in Byte
      BY DEF Version, DataType, Byte
    <2> QED BY <2>1 DEF Bytes
  <1>2. b \in Bytes /\ Len(b) = 2 /\ c \in Bytes /\ Len(c) = 4
    BY FieldWidths
  <1> HIDE DEF a, b, c
  <1>3. /\ ab \in Bytes /\ Len(ab) = 4
        /\ ab[1] = Version /\ ab[2] = DataType
    <2>1. /\ ab \in Bytes /\ Len(ab) = Len(a) + Len(b)
          /\ \A i \in 1 .. Len(a) : ab[i] = a[i]
      BY <1>1, <1>2, ConcatIs
    <2>2. 1 \in 1 .. 2 /\ 2 \in 1 .. 2
      OBVIOUS
    <2> HIDE DEF ab
    <2> QED BY <1>1, <1>2, <2>1, <2>2
  <1> HIDE DEF ab
  <1>4. /\ ab \o c \in Bytes /\ Len(ab \o c) = Len(ab) + Len(c)
        /\ \A i \in 1 .. Len(ab) : (ab \o c)[i] = ab[i]
        /\ \A i \in 1 .. Len(c) : (ab \o c)[Len(ab) + i] = c[i]
    BY <1>2, <1>3, ConcatIs
  <1>5. Header(number, size) = ab \o c
    BY DEF Header, ab, a, b, c
  <1>6. 1 \in 1 .. 4 /\ 2 \in 1 .. 4 /\ 4 + 4 = 8
    OBVIOUS
  <1>7. c = LittleEndian(size, 4)
    BY DEF c
  <1> HIDE DEF Header
  <1> QED BY <1>2, <1>3, <1>4, <1>5, <1>6, <1>7

-----------------------------------------------------------------------------
(***************************************************************************)
(* The frame both composers make of a message.                             *)
(***************************************************************************)
CoveredBytes(number, payload) == Header(number, Len(payload)) \o payload

WireFrame(number, payload) ==
    CoveredBytes(number, payload) \o BytesOfWord(ComputeCrc32(CoveredBytes(number, payload)))

\* Its parts.
LEMMA CoveredIs ==
    ASSUME NEW number, NEW payload \in Bytes
    PROVE  /\ CoveredBytes(number, payload) \in Bytes
           /\ Len(CoveredBytes(number, payload)) = 8 + Len(payload)
           /\ \A i \in 1 .. 8 :
                  CoveredBytes(number, payload)[i] = Header(number, Len(payload))[i]
           /\ SubSeq(CoveredBytes(number, payload), 9, 8 + Len(payload)) = payload
           /\ ComputeCrc32(CoveredBytes(number, payload)) \in Word
  <1> DEFINE h == Header(number, Len(payload))
             c == CoveredBytes(number, payload)
  <1>1. h \in Bytes /\ Len(h) = 8
    BY HeaderIs
  <1>2. c = h \o payload
    BY DEF CoveredBytes
  <1> HIDE DEF h, c
  <1>3. /\ c \in Bytes /\ Len(c) = 8 + Len(payload)
        /\ \A i \in 1 .. 8 : c[i] = h[i]
    <2>1. /\ h \o payload \in Bytes /\ Len(h \o payload) = Len(h) + Len(payload)
          /\ \A i \in 1 .. Len(h) : (h \o payload)[i] = h[i]
      BY <1>1, ConcatIs
    <2> QED BY <1>1, <1>2, <2>1
  <1>4. SubSeq(c, 8 + 1, 8 + Len(payload)) = payload
    BY <1>1, <1>2, PartsOfConcat
  <1>5. 8 + 1 = 9
    OBVIOUS
  <1>6. ComputeCrc32(c) \in Word
    BY <1>3, FramedType DEF Bytes
  <1> QED BY <1>3, <1>4, <1>5, <1>6 DEF h, c

\* The frame: the covered bytes, their checksum, and in them the header and the payload.
LEMMA WireIs ==
    ASSUME NEW number, NEW payload \in Bytes
    PROVE  /\ WireFrame(number, payload) \in Bytes
           /\ Len(WireFrame(number, payload)) = 12 + Len(payload)
           /\ \A i \in 1 .. 8 :
                  WireFrame(number, payload)[i] = Header(number, Len(payload))[i]
           /\ SubSeq(WireFrame(number, payload), 1, 8 + Len(payload)) =
                  CoveredBytes(number, payload)
           /\ SubSeq(WireFrame(number, payload), 9 + Len(payload), 12 + Len(payload)) =
                  BytesOfWord(ComputeCrc32(CoveredBytes(number, payload)))
           /\ SubSeq(WireFrame(number, payload), 9, 8 + Len(payload)) = payload
  <1> DEFINE c == CoveredBytes(number, payload)
             w == WireFrame(number, payload)
             crc == BytesOfWord(ComputeCrc32(c))
             n == Len(payload)
  <1>0. n \in Nat
    BY DEF Bytes
  <1>1. /\ c \in Bytes /\ Len(c) = 8 + n
        /\ \A i \in 1 .. 8 : c[i] = Header(number, n)[i]
        /\ SubSeq(c, 9, 8 + n) = payload
        /\ ComputeCrc32(c) \in Word
    BY CoveredIs
  <1>2. w = c \o crc
    BY DEF WireFrame
  <1> HIDE DEF c, w
  <1>3. crc \in Bytes /\ Len(crc) = 4
    BY <1>1, BytesOfWordIs
  <1> HIDE DEF crc, n
  <1>4. /\ w \in Bytes /\ Len(w) = (8 + n) + 4
        /\ \A i \in 1 .. 8 + n : w[i] = c[i]
    <2>1. /\ c \o crc \in Bytes /\ Len(c \o crc) = Len(c) + Len(crc)
          /\ \A i \in 1 .. Len(c) : (c \o crc)[i] = c[i]
      BY <1>1, <1>3, ConcatIs
    <2> QED BY <1>1, <1>2, <1>3, <2>1
  <1>5. /\ SubSeq(w, 1, 8 + n) = c
        /\ SubSeq(w, (8 + n) + 1, (8 + n) + 4) = crc
    <2>1. /\ SubSeq(c \o crc, 1, Len(c)) = c
          /\ SubSeq(c \o crc, Len(c) + 1, Len(c) + Len(crc)) = crc
      BY <1>1, <1>3, PartsOfConcat
    <2> QED BY <1>1, <1>2, <1>3, <2>1
  <1>6. (8 + n) + 4 = 12 + n /\ (8 + n) + 1 = 9 + n
    BY <1>0
  <1>7. \A i \in 1 .. 8 : w[i] = Header(number, n)[i]
    <2>1. \A i \in 1 .. 8 : i \in 1 .. 8 + n
      BY <1>0
    <2> QED BY <1>1, <1>4, <2>1
  <1>8. SubSeq(w, 9, 8 + n) = payload
    <2>1. /\ 9 \in Nat \ {0} /\ 8 + n \in Nat /\ 9 - 1 <= 8 + n
          /\ 8 + n <= Len(w) /\ 8 + n <= Len(c)
      BY <1>0, <1>1, <1>4
    <2>2. /\ SubSeq(w, 9, 8 + n) \in Bytes /\ Len(SubSeq(w, 9, 8 + n)) = ((8 + n) - 9) + 1
          /\ \A i \in 1 .. ((8 + n) - 9) + 1 : SubSeq(w, 9, 8 + n)[i] = w[(9 + i) - 1]
      BY <1>4, <2>1, PartIs
    <2>3. /\ SubSeq(c, 9, 8 + n) \in Bytes /\ Len(SubSeq(c, 9, 8 + n)) = ((8 + n) - 9) + 1
          /\ \A i \in 1 .. ((8 + n) - 9) + 1 : SubSeq(c, 9, 8 + n)[i] = c[(9 + i) - 1]
      BY <1>1, <2>1, PartIs
    <2>4. \A i \in 1 .. ((8 + n) - 9) + 1 : (9 + i) - 1 \in 1 .. 8 + n
      BY <1>0
    <2>5. \A i \in 1 .. ((8 + n) - 9) + 1 : SubSeq(w, 9, 8 + n)[i] = SubSeq(c, 9, 8 + n)[i]
      BY <1>4, <2>2, <2>3, <2>4
    <2>6. SubSeq(w, 9, 8 + n) = SubSeq(c, 9, 8 + n)
      BY <2>2, <2>3, <2>5, SameBytes
    <2> QED BY <1>1, <2>6
  <1> QED BY <1>4, <1>5, <1>6, <1>7, <1>8 DEF c, w, crc, n

\* TransmitFrame composes it at the front of its buffer, whatever that held.
LEMMA ComposedIs ==
    ASSUME buffer \in Bytes, Len(buffer) = BufferSize,
           NEW number, NEW payload \in Bytes, Len(payload) <= MaxPayload
    PROVE  /\ Composed(number, payload) \in Bytes
           /\ Len(Composed(number, payload)) = BufferSize
           /\ SubSeq(Composed(number, payload), 1, 12 + Len(payload)) = WireFrame(number, payload)
  <1> DEFINE n == Len(payload)
             h == Header(number, n)
             first == Write(buffer, 1, h)
             covered == Write(first, 9, payload)
             c == CoveredBytes(number, payload)
             crc == BytesOfWord(ComputeCrc32(c))
  <1>0. n \in Nat /\ BufferSize = 12 + MaxPayload /\ 8 + n + 4 <= BufferSize /\ n <= MaxPayload
    <2>1. n \in Nat
      BY DEF Bytes
    <2> QED BY <2>1, CodecAssumption DEF BufferSize, HeaderSize, CrcSize
  <1>1. h \in Bytes /\ Len(h) = 8
    BY HeaderIs
  <1>2. /\ c \in Bytes /\ Len(c) = 8 + n /\ ComputeCrc32(c) \in Word
        /\ c = h \o payload
    BY CoveredIs DEF CoveredBytes
  <1>3. crc \in Bytes /\ Len(crc) = 4
    BY <1>2, BytesOfWordIs
  <1>4. /\ first \in Bytes /\ Len(first) = BufferSize
        /\ SubSeq(first, 1, 8) = h
    <2>1. 0 \in Nat /\ 0 + 1 = 1 /\ 0 + Len(h) = 8 /\ 0 + Len(h) <= Len(buffer)
      BY <1>0, <1>1
    <2> HIDE DEF h
    <2>2. /\ Write(buffer, 0 + 1, h) \in Bytes /\ Len(Write(buffer, 0 + 1, h)) = Len(buffer)
          /\ SubSeq(Write(buffer, 0 + 1, h), 1, 0 + Len(h)) = SubSeq(buffer, 1, 0) \o h
      BY <1>1, <2>1, WriteIs
    <2>3. SubSeq(buffer, 1, 0) \o h = h
      <3>1. SubSeq(buffer, 1, 0) = <<>>
        BY DEF Bytes
      <3>2. <<>> \o h = h
        BY <1>1 DEF Bytes
      <3> QED BY <3>1, <3>2
    <2> QED BY <2>1, <2>2, <2>3
  <1> HIDE DEF first
  <1>5. /\ covered \in Bytes /\ Len(covered) = BufferSize
        /\ SubSeq(covered, 1, 8 + n) = c
    <2>1. 8 \in Nat /\ 8 + 1 = 9 /\ 8 + n <= Len(first)
      BY <1>0, <1>4
    <2>2. /\ Write(first, 8 + 1, payload) \in Bytes
          /\ Len(Write(first, 8 + 1, payload)) = Len(first)
          /\ SubSeq(Write(first, 8 + 1, payload), 1, 8 + n) = SubSeq(first, 1, 8) \o payload
      BY <1>4, <2>1, WriteIs
    <2> QED BY <1>2, <1>4, <2>1, <2>2
  <1>6. Composed(number, payload) = Write(covered, (8 + n) + 1, crc)
    <2>1. Covered(covered, n) = SubSeq(covered, 1, 8 + n)
      BY DEF Covered, HeaderSize
    <2>2. Composed(number, payload) =
              Write(covered, 8 + n + 1, BytesOfWord(ComputeCrc32(Covered(covered, n))))
      <3>1. 8 + 1 = 9
        OBVIOUS
      <3> QED BY <3>1 DEF Composed, HeaderSize, covered, first, h, n
    <2> QED BY <1>5, <2>1, <2>2
  <1> HIDE DEF covered, c, crc
  <1>7. /\ Write(covered, (8 + n) + 1, crc) \in Bytes
        /\ Len(Write(covered, (8 + n) + 1, crc)) = Len(covered)
        /\ SubSeq(Write(covered, (8 + n) + 1, crc), 1, (8 + n) + Len(crc)) =
               SubSeq(covered, 1, 8 + n) \o crc
    <2>1. 8 + n \in Nat /\ (8 + n) + Len(crc) <= Len(covered)
      BY <1>0, <1>3, <1>5
    <2> QED BY <1>3, <1>5, <2>1, WriteIs
  <1>8. (8 + n) + Len(crc) = 12 + n
    BY <1>0, <1>3
  <1>9. WireFrame(number, payload) = c \o crc
    BY DEF WireFrame, c, crc
  <1> QED BY <1>5, <1>6, <1>7, <1>8, <1>9

\* BuildFrame builds it or nothing.
LEMMA BuiltIs ==
    ASSUME NEW number, NEW payload, NEW capacity
    PROVE  BuildFrame(number, payload, capacity) \in {<<>>, WireFrame(number, payload)}
  BY DEF BuildFrame, WireFrame, CoveredBytes

\* HandleIncoming takes it, and takes its payload out of it.
LEMMA WireIsValid ==
    ASSUME NEW number, NEW payload \in Bytes
    PROVE  /\ Valid(WireFrame(number, payload))
           /\ PayloadOf(WireFrame(number, payload)) = payload
  <1> DEFINE n == Len(payload)
             w == WireFrame(number, payload)
             c == CoveredBytes(number, payload)
  <1>0. n \in Nat
    BY DEF Bytes
  <1>1. /\ w \in Bytes /\ Len(w) = 12 + n
        /\ \A i \in 1 .. 8 : w[i] = Header(number, n)[i]
        /\ SubSeq(w, 1, 8 + n) = c
        /\ SubSeq(w, 9 + n, 12 + n) = BytesOfWord(ComputeCrc32(c))
        /\ SubSeq(w, 9, 8 + n) = payload
    BY WireIs
  <1>2. /\ Header(number, n)[1] = Version /\ Header(number, n)[2] = DataType
        /\ \A j \in 1 .. 4 : Header(number, n)[4 + j] = LittleEndian(n, 4)[j]
    BY HeaderIs
  <1> HIDE DEF n, w, c
  <1>3. w[1] = Version /\ w[2] = DataType
    <2>1. 1 \in 1 .. 8 /\ 2 \in 1 .. 8
      OBVIOUS
    <2> QED BY <1>1, <1>2, <2>1
  <1>4. SizeMatches(w)
    <2>1. Len(w) - MinimumFrameSize = n
      BY <1>0, <1>1 DEF MinimumFrameSize, HeaderSize, CrcSize
    <2>2. LittleEndian(n, 4) \in Bytes /\ Len(LittleEndian(n, 4)) = 4
      BY FieldWidths
    <2>3. /\ SubSeq(w, 5, 8) \in Bytes /\ Len(SubSeq(w, 5, 8)) = 4
          /\ \A i \in 1 .. 4 : SubSeq(w, 5, 8)[i] = w[4 + i]
      <3>1. /\ 5 \in Nat \ {0} /\ 8 \in Nat /\ 5 - 1 <= 8 /\ 8 <= Len(w) /\ (8 - 5) + 1 = 4
            /\ \A i \in 1 .. 4 : (5 + i) - 1 = 4 + i
        BY <1>0, <1>1
      <3>2. /\ SubSeq(w, 5, 8) \in Bytes /\ Len(SubSeq(w, 5, 8)) = (8 - 5) + 1
            /\ \A i \in 1 .. (8 - 5) + 1 : SubSeq(w, 5, 8)[i] = w[(5 + i) - 1]
        BY <1>1, <3>1, PartIs
      <3> QED BY <3>1, <3>2
    <2>4. \A i \in 1 .. 4 : SubSeq(w, 5, 8)[i] = LittleEndian(n, 4)[i]
      <3>1. \A i \in 1 .. 4 : 4 + i \in 1 .. 8
        OBVIOUS
      <3> QED BY <1>1, <1>2, <2>3, <3>1
    <2>5. SubSeq(w, 5, 8) = LittleEndian(n, 4)
      BY <2>2, <2>3, <2>4, SameBytes
    <2> QED BY <2>1, <2>5 DEF SizeMatches
  <1>5. /\ Len(w) - CrcSize = 8 + n /\ Len(w) - CrcSize + 1 = 9 + n
        /\ HeaderSize + 1 = 9 /\ Len(w) >= MinimumFrameSize
    BY <1>0, <1>1 DEF MinimumFrameSize, HeaderSize, CrcSize
  <1>6. CrcMatches(w)
    BY <1>1, <1>5 DEF CrcMatches
  <1>7. PayloadOf(w) = payload
    BY <1>1, <1>5 DEF PayloadOf
  <1>8. Valid(w)
    BY <1>3, <1>4, <1>5, <1>6 DEF Valid
  <1> QED BY <1>7, <1>8 DEF w

-----------------------------------------------------------------------------
(***************************************************************************)
(* A frame of the wrong length.                                            *)
(***************************************************************************)

\* The bits of a number, one by one.
LEMMA LowestBit ==
    ASSUME NEW n \in Nat
    PROVE  n \div 2 \in Nat /\ n % 2 \in {0, 1} /\ n = 2 * (n \div 2) + (n % 2)
  OBVIOUS

\* Dividing by a power of two is halving again and again.
LEMMA Halves ==
    ASSUME NEW n \in Nat
    PROVE  /\ n \div 4 = (n \div 2) \div 2 /\ n \div 8 = (n \div 4) \div 2
           /\ n \div 16 = (n \div 8) \div 2 /\ n \div 32 = (n \div 16) \div 2
           /\ n \div 64 = (n \div 32) \div 2 /\ n \div 128 = (n \div 64) \div 2
           /\ n \div 256 = (n \div 128) \div 2
  <1>1. n \div 4 = (n \div 2) \div 2 /\ n \div 8 = (n \div 4) \div 2
    OBVIOUS
  <1>2. n \div 16 = (n \div 8) \div 2 /\ n \div 32 = (n \div 16) \div 2
    OBVIOUS
  <1>3. n \div 64 = (n \div 32) \div 2 /\ n \div 128 = (n \div 64) \div 2
    OBVIOUS
  <1>4. n \div 256 = (n \div 128) \div 2
    OBVIOUS
  <1> QED BY <1>1, <1>2, <1>3, <1>4

\* The lowest byte of a number is the sum of its eight bits.
LEMMA BitsOfNumber ==
    ASSUME NEW n \in Nat
    PROVE  n % 256 = (n % 2) + 2 * ((n \div 2) % 2) + 4 * ((n \div 4) % 2)
                     + 8 * ((n \div 8) % 2) + 16 * ((n \div 16) % 2) + 32 * ((n \div 32) % 2)
                     + 64 * ((n \div 64) % 2) + 128 * ((n \div 128) % 2)
  <1>1. /\ n \div 2 \in Nat /\ n \div 4 \in Nat /\ n \div 8 \in Nat /\ n \div 16 \in Nat
        /\ n \div 32 \in Nat /\ n \div 64 \in Nat /\ n \div 128 \in Nat /\ n \div 256 \in Nat
    OBVIOUS
  <1>2. /\ n = 2 * (n \div 2) + (n % 2)
        /\ n \div 2 = 2 * (n \div 4) + ((n \div 2) % 2)
        /\ n \div 4 = 2 * (n \div 8) + ((n \div 4) % 2)
        /\ n \div 8 = 2 * (n \div 16) + ((n \div 8) % 2)
        /\ n \div 16 = 2 * (n \div 32) + ((n \div 16) % 2)
        /\ n \div 32 = 2 * (n \div 64) + ((n \div 32) % 2)
        /\ n \div 64 = 2 * (n \div 128) + ((n \div 64) % 2)
        /\ n \div 128 = 2 * (n \div 256) + ((n \div 128) % 2)
    BY <1>1, Halves, LowestBit
  <1>3. n = 256 * (n \div 256) + (n % 256)
    OBVIOUS
  <1>4. n % 256 \in Nat /\ n % 2 \in Nat
    OBVIOUS
  <1> QED BY <1>1, <1>2, <1>3, <1>4

\* A byte tells a number up to multiples of 256.
LEMMA ByteOfTells ==
    ASSUME NEW m \in Nat, NEW n \in Nat, ByteOf(m) = ByteOf(n)
    PROVE  m % 256 = n % 256
  <1> DEFINE Same(k) == (m \div k) % 2 = (n \div k) % 2
  <1>1. ASSUME NEW i \in 0 .. 7, NEW k \in Nat \ {0}, k = 2^i PROVE Same(k)
    <2>1. /\ i \in ByteOf(m) <=> (m \div k) % 2 = 1
          /\ i \in ByteOf(n) <=> (n \div k) % 2 = 1
      BY <1>1 DEF ByteOf
    <2>2. (m \div k) % 2 \in {0, 1} /\ (n \div k) % 2 \in {0, 1}
      <3>1. m \div k \in Nat /\ n \div k \in Nat
        OBVIOUS
      <3> QED BY <3>1, LowestBit
    <2> QED BY <2>1, <2>2
  <1>2. /\ 1 = 2^0 /\ 2 = 2^1 /\ 4 = 2^2 /\ 8 = 2^3
        /\ 16 = 2^4 /\ 32 = 2^5 /\ 64 = 2^6 /\ 128 = 2^7
    OBVIOUS
  <1>3. /\ Same(1) /\ Same(2) /\ Same(4) /\ Same(8)
        /\ Same(16) /\ Same(32) /\ Same(64) /\ Same(128)
    <2> HIDE DEF Same
    <2>1. /\ 0 \in 0 .. 7 /\ 1 \in 0 .. 7 /\ 2 \in 0 .. 7 /\ 3 \in 0 .. 7
          /\ 4 \in 0 .. 7 /\ 5 \in 0 .. 7 /\ 6 \in 0 .. 7 /\ 7 \in 0 .. 7
      OBVIOUS
    <2>2. /\ 1 \in Nat \ {0} /\ 2 \in Nat \ {0} /\ 4 \in Nat \ {0} /\ 8 \in Nat \ {0}
          /\ 16 \in Nat \ {0} /\ 32 \in Nat \ {0} /\ 64 \in Nat \ {0} /\ 128 \in Nat \ {0}
      OBVIOUS
    <2> QED BY <1>1, <1>2, <2>1, <2>2
  <1>4. m \div 1 = m /\ n \div 1 = n
    OBVIOUS
  <1> QED BY <1>3, <1>4, BitsOfNumber

\* Four bytes tell a number that fits in them.
LEMMA LittleEndianTells ==
    ASSUME NEW m \in Nat, NEW n \in Nat, LittleEndian(m, 4) = LittleEndian(n, 4)
    PROVE  /\ m % 256 = n % 256
           /\ m \div 256^3 < 256 /\ n \div 256^3 < 256 => m = n
  <1>1. 256^0 = 1 /\ 256^1 = 256 /\ 256^2 = 65536 /\ 256^3 = 16777216
    BY SMT
  <1>2. ASSUME NEW j \in 1 .. 4, NEW k \in Nat \ {0}, k = 256^(j - 1)
        PROVE  (m \div k) % 256 = (n \div k) % 256
    <2>1. /\ LittleEndian(m, 4)[j] = ByteOf(m \div k)
          /\ LittleEndian(n, 4)[j] = ByteOf(n \div k)
      <3>1. /\ LittleEndian(m, 4)[j] = ByteOf(m \div 256^(j - 1))
            /\ LittleEndian(n, 4)[j] = ByteOf(n \div 256^(j - 1))
        BY DEF LittleEndian
      <3> QED BY <1>2, <3>1, Zenon
    <2>2. m \div k \in Nat /\ n \div k \in Nat
      OBVIOUS
    <2> QED BY <2>1, <2>2, ByteOfTells
  <1>3. /\ (m \div 1) % 256 = (n \div 1) % 256
        /\ (m \div 256) % 256 = (n \div 256) % 256
        /\ (m \div 65536) % 256 = (n \div 65536) % 256
        /\ (m \div 16777216) % 256 = (n \div 16777216) % 256
    <2>1. 1 - 1 = 0 /\ 2 - 1 = 1 /\ 3 - 1 = 2 /\ 4 - 1 = 3
      OBVIOUS
    <2>2. (m \div 1) % 256 = (n \div 1) % 256
      <3>1. 1 \in 1 .. 4 /\ 1 \in Nat \ {0} /\ 1 = 256^(1 - 1)
        BY <1>1, <2>1, SMT
      <3> QED BY <1>2, <3>1, SMT
    <2>3. (m \div 256) % 256 = (n \div 256) % 256
      <3>1. 2 \in 1 .. 4 /\ 256 \in Nat \ {0} /\ 256 = 256^(2 - 1)
        BY <1>1, <2>1, SMT
      <3> QED BY <1>2, <3>1, SMT
    <2>4. (m \div 65536) % 256 = (n \div 65536) % 256
      <3>1. 3 \in 1 .. 4 /\ 65536 \in Nat \ {0} /\ 65536 = 256^(3 - 1)
        BY <1>1, <2>1, SMT
      <3> QED BY <1>2, <3>1, SMT
    <2>5. (m \div 16777216) % 256 = (n \div 16777216) % 256
      <3>1. 4 \in 1 .. 4 /\ 16777216 \in Nat \ {0} /\ 16777216 = 256^(4 - 1)
        BY <1>1, <2>1, SMT
      <3> QED BY <1>2, <3>1, SMT
    <2> QED BY <2>2, <2>3, <2>4, <2>5, SMT
  <1>4. m % 256 = n % 256
    BY <1>3, SMT
  <1>5. ASSUME m \div 16777216 < 256, n \div 16777216 < 256 PROVE m = n
    <2>1. m \div 16777216 = n \div 16777216
      BY <1>3, <1>5, SMT
    <2>2. ASSUME NEW k \in Nat
          PROVE  /\ k = 256 * (k \div 256) + (k % 256)
                 /\ k \div 256 = 256 * (k \div 65536) + ((k \div 256) % 256)
                 /\ k \div 65536 = 256 * (k \div 16777216) + ((k \div 65536) % 256)
      BY SMT
    <2>3. m \div 65536 = n \div 65536
      BY <1>3, <2>1, <2>2, SMT
    <2>4. m \div 256 = n \div 256
      BY <1>3, <2>2, <2>3, SMT
    <2> QED BY <1>4, <2>2, <2>4
  <1> QED BY <1>1, <1>4, <1>5, SMT

\* A valid frame that begins as another one has the size that one announces.
LEMMA SizeAnnounced ==
    ASSUME NEW x \in Bytes, Valid(x), NEW number, NEW payload \in Bytes,
           \A i \in 1 .. 8 : x[i] = WireFrame(number, payload)[i]
    PROVE  Len(x) >= 12 /\ LittleEndian(Len(x) - 12, 4) = LittleEndian(Len(payload), 4)
  <1> DEFINE n == Len(payload)
             w == WireFrame(number, payload)
  <1>1. Len(x) \in Nat /\ Len(x) >= 12 /\ SubSeq(x, 5, 8) = LittleEndian(Len(x) - 12, 4)
    BY DEF Valid, SizeMatches, MinimumFrameSize, HeaderSize, CrcSize, Bytes
  <1>2. \A i \in 1 .. 8 : w[i] = Header(number, n)[i]
    BY WireIs
  <1>3. \A j \in 1 .. 4 : Header(number, n)[4 + j] = LittleEndian(n, 4)[j]
    BY HeaderIs
  <1>4. LittleEndian(n, 4) \in Bytes /\ Len(LittleEndian(n, 4)) = 4
    BY FieldWidths
  <1> HIDE DEF n, w
  <1>5. /\ SubSeq(x, 5, 8) \in Bytes /\ Len(SubSeq(x, 5, 8)) = 4
        /\ \A i \in 1 .. 4 : SubSeq(x, 5, 8)[i] = x[4 + i]
    <2>1. /\ 5 \in Nat \ {0} /\ 8 \in Nat /\ 5 - 1 <= 8 /\ 8 <= Len(x) /\ (8 - 5) + 1 = 4
          /\ \A i \in 1 .. 4 : (5 + i) - 1 = 4 + i
      BY <1>1
    <2>2. /\ SubSeq(x, 5, 8) \in Bytes /\ Len(SubSeq(x, 5, 8)) = (8 - 5) + 1
          /\ \A i \in 1 .. (8 - 5) + 1 : SubSeq(x, 5, 8)[i] = x[(5 + i) - 1]
      BY <2>1, PartIs
    <2> QED BY <2>1, <2>2
  <1>6. \A i \in 1 .. 4 : SubSeq(x, 5, 8)[i] = LittleEndian(n, 4)[i]
    <2>1. \A i \in 1 .. 4 : 4 + i \in 1 .. 8
      OBVIOUS
    <2>2. \A i \in 1 .. 8 : x[i] = w[i]
      BY DEF w
    <2> QED BY <1>2, <1>3, <1>5, <2>1, <2>2
  <1>7. SubSeq(x, 5, 8) = LittleEndian(n, 4)
    <2>1. PICK s \in Bytes : s = SubSeq(x, 5, 8)
      BY <1>5
    <2>2. PICK t \in Bytes : t = LittleEndian(n, 4)
      BY <1>4
    <2>3. Len(s) = Len(t) /\ \A i \in 1 .. Len(s) : s[i] = t[i]
      BY <1>4, <1>5, <1>6, <2>1, <2>2
    <2>4. s = t
      BY <2>3, SameBytes
    <2> QED BY <2>1, <2>2, <2>4
  <1> QED BY <1>1, <1>7 DEF n

\* No part of a frame is one, nor a frame with a byte more: the size in the header
\* says how long it is.
LEMMA WrongLengthShows ==
    ASSUME NEW number, NEW payload \in Bytes, Len(payload) <= MaxPayload
    PROVE  /\ \A n \in 1 .. Len(WireFrame(number, payload)) - 1 :
                  ~ Valid(SubSeq(WireFrame(number, payload), 1, n))
           /\ \A byte \in Byte : ~ Valid(Append(WireFrame(number, payload), byte))
  <1> DEFINE size == Len(payload)
             w == WireFrame(number, payload)
  <1>0. size \in Nat /\ MaxPayload \in Nat /\ MaxPayload \div 256^3 < 256
    <2>1. size \in Nat
      BY DEF Bytes
    <2>2. MaxPayload \in Nat /\ MaxPayload \div 256^3 < 256
      BY CodecAssumption, WidthAssumption, SMT
    <2> QED BY <2>1, <2>2
  <1>1. w \in Bytes /\ Len(w) = 12 + size
    BY WireIs
  <1> HIDE DEF w
  <1>2. ASSUME NEW n \in 1 .. Len(w) - 1, Valid(SubSeq(w, 1, n)) PROVE FALSE
    <2>1. /\ SubSeq(w, 1, n) \in Bytes /\ Len(SubSeq(w, 1, n)) = n
          /\ \A i \in 1 .. n : SubSeq(w, 1, n)[i] = w[i]
      <3>1. /\ 1 \in Nat \ {0} /\ n \in Nat /\ 1 - 1 <= n /\ n <= Len(w) /\ (n - 1) + 1 = n
            /\ \A i \in 1 .. n : (1 + i) - 1 = i
        BY <1>0, <1>1
      <3>2. /\ SubSeq(w, 1, n) \in Bytes /\ Len(SubSeq(w, 1, n)) = (n - 1) + 1
            /\ \A i \in 1 .. (n - 1) + 1 : SubSeq(w, 1, n)[i] = w[(1 + i) - 1]
        BY <1>1, <3>1, PartIs
      <3> QED BY <3>1, <3>2
    <2>2. n >= 12
      BY <1>2, <2>1 DEF Valid, MinimumFrameSize, HeaderSize, CrcSize
    <2>3. \A i \in 1 .. 8 : SubSeq(w, 1, n)[i] = w[i]
      <3>1. \A i \in 1 .. 8 : i \in 1 .. n
        BY <2>2
      <3> QED BY <2>1, <3>1
    <2>4. LittleEndian(n - 12, 4) = LittleEndian(size, 4)
      <3>1. PICK x \in Bytes : x = SubSeq(w, 1, n)
        BY <2>1
      <3>2. Valid(x) /\ Len(x) = n /\ \A i \in 1 .. 8 : x[i] = WireFrame(number, payload)[i]
        BY <1>2, <2>1, <2>3, <3>1 DEF w
      <3> QED BY <3>2, SizeAnnounced
    <2>5. n - 12 \in Nat /\ n - 12 < size
      BY <1>0, <1>1, <2>2
    <2>6. (n - 12) \div 256^3 < 256 /\ size \div 256^3 < 256
      <3>1. 256^3 = 16777216
        BY SMT
      <3> QED BY <1>0, <2>5, <3>1, SMT
    <2> HIDE DEF size
    <2>7. n - 12 = size
      <3>1. PICK k \in Nat : k = n - 12
        BY <2>5
      <3> QED BY <1>0, <2>4, <2>6, <3>1, LittleEndianTells
    <2> QED BY <1>0, <2>5, <2>7
  <1>3. ASSUME NEW byte \in Byte, Valid(Append(w, byte)) PROVE FALSE
    <2>1. /\ Append(w, byte) \in Bytes /\ Len(Append(w, byte)) = 13 + size
          /\ \A i \in 1 .. 8 : Append(w, byte)[i] = w[i]
      BY <1>0, <1>1 DEF Bytes
    <2>2. (13 + size) - 12 = size + 1 /\ size + 1 \in Nat
      BY <1>0
    <2>3. LittleEndian(size + 1, 4) = LittleEndian(size, 4)
      <3>1. PICK x \in Bytes : x = Append(w, byte)
        BY <2>1
      <3>2. /\ Valid(x) /\ Len(x) - 12 = size + 1
            /\ \A i \in 1 .. 8 : x[i] = WireFrame(number, payload)[i]
        BY <1>3, <2>1, <2>2, <3>1 DEF w
      <3>3. LittleEndian(Len(x) - 12, 4) = LittleEndian(size, 4)
        BY <3>2, SizeAnnounced
      <3> QED BY <3>2, <3>3
    <2>4. (size + 1) % 256 = size % 256
      BY <1>0, <2>2, <2>3, LittleEndianTells
    <2> QED BY <1>0, <2>4
  <1> QED BY <1>2, <1>3 DEF w

-----------------------------------------------------------------------------
(***************************************************************************)
(* A frame with bits inverted.                                             *)
(***************************************************************************)

\* A bit of a message, by its place in the stream.
LEMMA StreamBit ==
    ASSUME NEW x \in Bytes, NEW k \in Nat
    PROVE  k \in Stream(x) <=> k < 8 * Len(x) /\ k % 8 \in x[k \div 8 + 1]
  <1>1. Len(x) \in Nat
    BY DEF Bytes
  <1>2. k \in 0 .. 8 * Len(x) - 1 <=> k < 8 * Len(x)
    BY <1>1
  <1> QED BY <1>2 DEF Stream

\* Where a bit is.
LEMMA BitPlace ==
    ASSUME NEW k \in Nat, NEW n \in Nat
    PROVE  /\ k % 8 \in 0 .. 7 /\ k \div 8 \in Nat /\ k = 8 * (k \div 8) + (k % 8)
           /\ k < 8 * n <=> k \div 8 + 1 <= n
  <1>1. k % 8 \in 0 .. 7 /\ k \div 8 \in Nat /\ k = 8 * (k \div 8) + (k % 8)
    OBVIOUS
  <1> QED BY <1>1

\* If the CRC is right, the bits of a frame are those of the message framed.
LEMMA StreamOfFrame ==
    ASSUME NEW x \in Bytes, Len(x) >= 12, CrcMatches(x)
    PROVE  /\ SubSeq(x, 1, Len(x) - 4) \in Bytes
           /\ Len(SubSeq(x, 1, Len(x) - 4)) = Len(x) - 4
           /\ Stream(x) = Framed(SubSeq(x, 1, Len(x) - 4))
  <1>0. Len(x) \in Nat
    BY DEF Bytes
  <1>1. PICK n \in Nat : n = Len(x) - 4
    BY <1>0
  <1> DEFINE c == SubSeq(x, 1, n)
             crc == ComputeCrc32(c)
             last == SubSeq(x, n + 1, n + 4)
  <1>2. Len(x) = n + 4 /\ (n + 4) - 4 + 1 = n + 1
    BY <1>0, <1>1
  <1>3. c \in Bytes /\ Len(c) = n /\ \A i \in 1 .. n : c[i] = x[i]
    <2>1. /\ 1 \in Nat \ {0} /\ 1 - 1 <= n /\ n <= Len(x) /\ (n - 1) + 1 = n
          /\ \A i \in 1 .. n : (1 + i) - 1 = i
      BY <1>2
    <2>2. /\ c \in Bytes /\ Len(c) = (n - 1) + 1
          /\ \A i \in 1 .. (n - 1) + 1 : c[i] = x[(1 + i) - 1]
      BY <2>1, PartIs
    <2> QED BY <2>1, <2>2
  <1>4. \A j \in 1 .. 4 : last[j] = x[n + j]
    <2>1. /\ n + 1 \in Nat \ {0} /\ n + 4 \in Nat /\ (n + 1) - 1 <= n + 4 /\ n + 4 <= Len(x)
          /\ ((n + 4) - (n + 1)) + 1 = 4 /\ \A j \in 1 .. 4 : ((n + 1) + j) - 1 = n + j
      BY <1>2
    <2>2. \A j \in 1 .. ((n + 4) - (n + 1)) + 1 : last[j] = x[((n + 1) + j) - 1]
      BY <2>1, PartIs
    <2> QED BY <2>1, <2>2
  <1>5. last = BytesOfWord(crc)
    BY <1>1, <1>2 DEF CrcMatches, CrcSize
  <1>6. crc \in Word /\ crc \in Bits /\ Framed(c) \in Bits /\ Stream(x) \in Bits
    BY <1>3, FramedType, WordIsBits, StreamType DEF Bytes
  <1>7. Framed(c) = Xor(Stream(c), ShiftLeft(crc, 8 * n))
    BY <1>3 DEF Framed
  <1> HIDE DEF c, crc, last
  <1>8. \A j \in 1 .. 4 : x[n + j] = ShiftRight(crc, 8 * (j - 1)) \cap (0 .. 7)
    BY <1>4, <1>5, <1>6, BytesOfWordIs
  <1>9. ASSUME NEW k \in Nat PROVE k \in Stream(x) <=> k \in Framed(c)
    <2>1. k \in Framed(c) <=> ~ (k \in Stream(c) <=> k \in ShiftLeft(crc, 8 * n))
      BY <1>7, XorIs
    <2>2. k \in ShiftLeft(crc, 8 * n) <=> k >= 8 * n /\ k - 8 * n \in crc
      <3>1. 8 * n \in Nat
        OBVIOUS
      <3> QED BY <1>6, <3>1, ShiftLeftIs
    <2>3. k \in Stream(x) <=> k < 8 * (n + 4) /\ k % 8 \in x[k \div 8 + 1]
      BY <1>2, StreamBit
    <2>4. k \in Stream(c) <=> k < 8 * n /\ k % 8 \in c[k \div 8 + 1]
      BY <1>3, StreamBit
    <2>5. CASE k < 8 * n
      <3>1. k \div 8 + 1 \in 1 .. n /\ k < 8 * (n + 4) /\ ~ k >= 8 * n
        BY <2>5, BitPlace
      <3>2. c[k \div 8 + 1] = x[k \div 8 + 1]
        BY <1>3, <3>1
      <3> QED BY <2>1, <2>2, <2>3, <2>4, <2>5, <3>1, <3>2
    <2>6. CASE ~ k < 8 * n
      <3>1. PICK m \in Nat : m = k - 8 * n
        BY <2>6
      <3>2. m \in crc => m < 32
        BY <1>6 DEF Word
      <3>3. k >= 8 * n /\ (k < 8 * (n + 4) <=> m < 32)
        BY <2>6, <3>1
      <3>4. ASSUME m < 32 PROVE k % 8 \in x[k \div 8 + 1] <=> m \in crc
        <4>1. PICK q \in 0 .. 3, r \in 0 .. 7 : m = 8 * q + r
          <5>1. m \div 8 \in 0 .. 3 /\ m % 8 \in 0 .. 7 /\ m = 8 * (m \div 8) + (m % 8)
            BY <3>4
          <5> QED BY <5>1
        <4>2. k % 8 = r /\ k \div 8 + 1 = n + (q + 1)
          BY <3>1, <4>1
        <4>3. q + 1 \in 1 .. 4 /\ 8 * ((q + 1) - 1) = 8 * q /\ 8 * q \in Nat /\ r \in Nat
          BY <4>1
        <4>4. x[n + (q + 1)] = ShiftRight(crc, 8 * q) \cap (0 .. 7)
          BY <1>8, <4>3
        <4>5. r \in ShiftRight(crc, 8 * q) <=> r + 8 * q \in crc
          BY <1>6, <4>3, ShiftRightIs
        <4>6. r + 8 * q = m
          BY <4>1
        <4> QED BY <4>1, <4>2, <4>4, <4>5, <4>6
      <3> QED BY <2>1, <2>2, <2>3, <2>4, <2>6, <3>1, <3>2, <3>3, <3>4
    <2> QED BY <2>5, <2>6
  <1>10. Stream(x) = Framed(c)
    BY <1>6, <1>9, SameBits
  <1> QED BY <1>1, <1>3, <1>10 DEF c

\* Inverting bits is exclusive or.
LEMMA InvertedIs ==
    ASSUME NEW x \in Bytes, NEW bits \in Bits, \A k \in bits : k < 8 * Len(x)
    PROVE  /\ Inverted(x, bits) \in Bytes /\ Len(Inverted(x, bits)) = Len(x)
           /\ Stream(Inverted(x, bits)) = Xor(Stream(x), bits)
  <1> DEFINE y == Inverted(x, bits)
             hit(i) == {k \in 0 .. 7 : 8 * (i - 1) + k \in bits}
  <1>0. Len(x) \in Nat /\ \A i \in 1 .. Len(x) : x[i] \in Byte
    BY DEF Bytes
  <1>1. y \in [1 .. Len(x) -> Byte] /\ \A i \in 1 .. Len(x) : y[i] = Xor(x[i], hit(i))
    <2>1. \A i \in 1 .. Len(x) : Xor(x[i], hit(i)) \in Byte
      BY <1>0 DEF Xor, Byte
    <2> QED BY <2>1 DEF Inverted
  <1> HIDE DEF y
  <1>2. y \in Bytes /\ Len(y) = Len(x)
    BY <1>0, <1>1, FunctionIsBytes
  <1>3. Stream(x) \in Bits /\ Stream(y) \in Bits /\ Xor(Stream(x), bits) \in Bits
    BY <1>2, StreamType, XorType DEF Bytes
  <1>4. ASSUME NEW k \in Nat PROVE k \in Stream(y) <=> k \in Xor(Stream(x), bits)
    <2>1. k \in Xor(Stream(x), bits) <=> ~ (k \in Stream(x) <=> k \in bits)
      BY XorIs
    <2>2. k \in Stream(x) <=> k < 8 * Len(x) /\ k % 8 \in x[k \div 8 + 1]
      BY StreamBit
    <2>3. k \in Stream(y) <=> k < 8 * Len(x) /\ k % 8 \in y[k \div 8 + 1]
      BY <1>2, StreamBit
    <2>4. CASE k < 8 * Len(x)
      <3>1. PICK i \in 1 .. Len(x) : i = k \div 8 + 1
        BY <1>0, <2>4, BitPlace
      <3>2. k % 8 \in 0 .. 7 /\ 8 * (i - 1) + (k % 8) = k
        BY <3>1
      <3>3. k % 8 \in hit(i) <=> k \in bits
        BY <3>2
      <3> HIDE DEF hit
      <3>4. k % 8 \in y[i] <=> ~ (k % 8 \in x[i] <=> k % 8 \in hit(i))
        BY <1>1, XorIs
      <3> QED BY <2>1, <2>2, <2>3, <2>4, <3>1, <3>3, <3>4
    <2>5. CASE ~ k < 8 * Len(x)
      BY <2>1, <2>2, <2>3, <2>5
    <2> QED BY <2>4, <2>5
  <1>5. Stream(y) = Xor(Stream(x), bits)
    BY <1>3, <1>4, SameBits
  <1> QED BY <1>2, <1>5 DEF y

\* No burst makes a valid frame of a valid frame.
LEMMA BurstsAreFound ==
    ASSUME NEW x \in Bytes, Valid(x), NEW shape \in Word, shape # {}, NEW start \in Nat,
           \A k \in shape : start + k < 8 * Len(x)
    PROVE  ~ Valid(Inverted(x, ShiftLeft(shape, start)))
  <1> DEFINE y == Inverted(x, ShiftLeft(shape, start))
             a == SubSeq(x, 1, Len(x) - 4)
             b == SubSeq(y, 1, Len(y) - 4)
  <1> SUFFICES ASSUME Valid(y) PROVE FALSE
    OBVIOUS
  <1>1. ShiftLeft(shape, start) \in Bits /\ \A k \in ShiftLeft(shape, start) : k < 8 * Len(x)
    <2>1. shape \in Bits
      BY WordIsBits
    <2>2. ShiftLeft(shape, start) \in Bits
      BY <2>1, ShiftLeftIs
    <2>3. \A k \in ShiftLeft(shape, start) : k < 8 * Len(x)
      <3> TAKE k \in ShiftLeft(shape, start)
      <3>1. PICK i \in shape : k = i + start
        BY DEF ShiftLeft
      <3>2. start + i < 8 * Len(x) /\ i \in Nat
        BY <3>1 DEF Word
      <3> QED BY <3>1, <3>2
    <2> QED BY <2>2, <2>3
  <1>2. /\ y \in Bytes /\ Len(y) = Len(x)
        /\ Stream(y) = Xor(Stream(x), ShiftLeft(shape, start))
    BY <1>1, InvertedIs
  <1>3. /\ Len(x) >= 12 /\ CrcMatches(x) /\ CrcMatches(y)
    BY DEF Valid, MinimumFrameSize, HeaderSize, CrcSize
  <1> HIDE DEF y
  <1>4. a \in Bytes /\ Len(a) = Len(x) - 4 /\ Stream(x) = Framed(a)
    BY <1>3, StreamOfFrame
  <1>5. b \in Bytes /\ Len(b) = Len(x) - 4 /\ Stream(y) = Framed(b)
    BY <1>2, <1>3, StreamOfFrame
  <1> HIDE DEF a, b
  <1>6. Xor(Framed(a), Framed(b)) = ShiftLeft(shape, start)
    <2>1. \A c, d : Xor(c, Xor(c, d)) = d
      BY DEF Xor
    <2>2. Framed(b) = Xor(Framed(a), ShiftLeft(shape, start))
      BY <1>2, <1>4, <1>5
    <2> QED BY <2>1, <2>2, Zenon
  <1> QED BY <1>4, <1>5, <1>6, BurstsShow DEF Bytes

-----------------------------------------------------------------------------
(***************************************************************************)
(* The inductive invariant: the frame that went out is WireFrame, and with *)
(* it what BuildFrame made; the line has either left it alone or made      *)
(* bytes of it that are not valid.                                         *)
(***************************************************************************)
BufferInv == buffer \in Bytes /\ Len(buffer) = BufferSize

Message == [number : SequenceNumbers, payload : {p \in PayloadSet : Len(p) <= MaxPayload}]

SentInv ==
    /\ sent \in SUBSET Message
    /\ sent = {} => built = <<>> /\ arrived = <<>>
    /\ \A message \in sent :
          /\ frame = WireFrame(message.number, message.payload)
          /\ built \in {<<>>, frame}

ArrivedInv ==
    /\ arrived # <<>> /\ damage = "none" => arrived = frame
    /\ damage # "none" => ~ Valid(arrived)

OutcomeInv ==
    /\ outcome # "none" => arrived # <<>>
    /\ outcome = "handled" => Valid(arrived) /\ given = PayloadOf(arrived)
    /\ outcome = "refused" => ~ Valid(arrived)
    /\ outcome \in {"none", "handled", "refused"}

CodecInv == BufferInv /\ SentInv /\ ArrivedInv /\ OutcomeInv

\* What the payload of a message that was sent is.
LEMMA PayloadIsBytes ==
    ASSUME NEW payload \in PayloadSet
    PROVE  payload \in Bytes /\ Len(payload) \in Nat
  <1>1. PayloadSet \subseteq Seq(Byte)
    BY CodecAssumption
  <1>2. payload \in Seq(Byte)
    BY <1>1
  <1>3. Len(payload) \in Nat
    BY <1>2
  <1> QED BY <1>2, <1>3 DEF Bytes

\* What goes out is valid, is no empty sequence, and says what was sent.
LEMMA SentIsWire ==
    ASSUME SentInv, sent # {}
    PROVE  \E message \in sent :
               /\ message.payload \in Bytes /\ Len(message.payload) <= MaxPayload
               /\ frame = WireFrame(message.number, message.payload)
               /\ frame \in Bytes /\ Len(frame) = 12 + Len(message.payload)
               /\ Valid(frame) /\ PayloadOf(frame) = message.payload
  <1>1. PICK message \in sent : TRUE
    OBVIOUS
  <1>2. message \in Message /\ frame = WireFrame(message.number, message.payload)
    BY <1>1 DEF SentInv
  <1>3. message.payload \in PayloadSet /\ Len(message.payload) <= MaxPayload
    BY <1>2 DEF Message
  <1>4. PICK payload \in Bytes : payload = message.payload
    BY <1>3, PayloadIsBytes
  <1>5. PICK number : number = message.number
    OBVIOUS
  <1>6. /\ WireFrame(number, payload) \in Bytes
        /\ Len(WireFrame(number, payload)) = 12 + Len(payload)
    BY WireIs
  <1>7. Valid(WireFrame(number, payload)) /\ PayloadOf(WireFrame(number, payload)) = payload
    BY WireIsValid
  <1> HIDE DEF SentInv
  <1> QED BY <1>1, <1>2, <1>3, <1>4, <1>5, <1>6, <1>7

\* TransmitFrame puts the frame into the buffer and on the line.
LEMMA TransmitKeeps ==
    ASSUME CodecInv, NEW number \in SequenceNumbers, NEW payload \in PayloadSet,
           TransmitFrame(number, payload)
    PROVE  CodecInv'
  <1>1. payload \in Bytes /\ Len(payload) \in Nat /\ Len(payload) <= MaxPayload
    BY PayloadIsBytes DEF TransmitFrame
  <1>2. buffer \in Bytes /\ Len(buffer) = BufferSize
    BY DEF CodecInv, BufferInv
  <1>3. /\ Composed(number, payload) \in Bytes
        /\ Len(Composed(number, payload)) = BufferSize
        /\ SubSeq(Composed(number, payload), 1, 12 + Len(payload)) = WireFrame(number, payload)
    BY <1>1, <1>2, ComposedIs
  <1>4. buffer' = Composed(number, payload)
    BY DEF TransmitFrame
  <1>5. frame' = WireFrame(number, payload)
    <2>1. HeaderSize + Len(payload) + CrcSize = 12 + Len(payload)
      BY <1>1 DEF HeaderSize, CrcSize
    <2>2. frame' = SubSeq(buffer', 1, HeaderSize + Len(payload) + CrcSize)
      BY DEF TransmitFrame
    <2> QED BY <1>3, <1>4, <2>1, <2>2
  <1>6. BufferInv'
    BY <1>3, <1>4 DEF BufferInv, BufferSize
  <1>7. SentInv'
    <2>1. sent' = {[number |-> number, payload |-> payload]} /\ built' = <<>>
      BY DEF TransmitFrame
    <2>2. [number |-> number, payload |-> payload] \in Message
      BY <1>1 DEF Message
    <2>3. \A message \in sent' : message.number = number /\ message.payload = payload
      BY <2>1
    <2>4. /\ sent' \in SUBSET Message /\ sent' # {}
      BY <2>1, <2>2
    <2>5. \A message \in sent' : frame' = WireFrame(message.number, message.payload)
      BY <1>5, <2>3
    <2> QED BY <2>1, <2>4, <2>5 DEF SentInv, Message, WireFrame, CoveredBytes
  <1>8. ArrivedInv' /\ OutcomeInv'
    BY DEF TransmitFrame, ArrivedInv, OutcomeInv
  <1> QED BY <1>6, <1>7, <1>8 DEF CodecInv

\* BuildFrame makes the same frame, or none.
LEMMA BuildKeeps ==
    ASSUME CodecInv, NEW capacity \in Capacities, Build(capacity)
    PROVE  CodecInv'
  <1>1. UNCHANGED <<buffer, sent, frame, damage, arrived, outcome, given, frames>>
    BY DEF Build
  <1>2. PICK message \in sent :
            built' = BuildFrame(message.number, message.payload, capacity)
    BY DEF Build
  <1>3. built' \in {<<>>, WireFrame(message.number, message.payload)}
    BY <1>2, BuiltIs
  <1>4. frame = WireFrame(message.number, message.payload) /\ SentInv
    BY <1>2 DEF CodecInv, SentInv
  <1>5. built' \in {<<>>, frame}
    BY <1>3, <1>4
  <1>6. SentInv'
    <2>1. /\ sent' = sent /\ frame' = frame /\ arrived' = arrived /\ sent # {}
      BY <1>1, <1>2
    <2>2. \A m \in sent : frame = WireFrame(m.number, m.payload)
      BY <1>4 DEF SentInv
    <2>3. sent \in SUBSET Message
      BY <1>4 DEF SentInv
    <2>4. (sent \in SUBSET Message)'
      BY <2>1, <2>3 DEF Message
    <2>5. \A m \in sent' : frame' = WireFrame(m.number, m.payload) /\ built' \in {<<>>, frame'}
      BY <1>5, <2>1, <2>2
    <2> QED BY <2>1, <2>4, <2>5 DEF SentInv, WireFrame, CoveredBytes
  <1>7. BufferInv' /\ ArrivedInv' /\ OutcomeInv'
    BY <1>1 DEF CodecInv, BufferInv, ArrivedInv, OutcomeInv, BufferSize, Valid, PayloadOf
  <1> QED BY <1>6, <1>7 DEF CodecInv

\* What the line delivers is the frame, or is not valid.
LEMMA DeliverKeeps ==
    ASSUME CodecInv, NEW bytes, NEW how, Deliver(bytes, how),
           how = "none" => bytes = frame,
           how # "none" => ~ Valid(bytes)
    PROVE  CodecInv'
  <1>1. /\ UNCHANGED <<buffer, sent, frame, built, outcome, given, frames>>
        /\ arrived = <<>> /\ sent # {} /\ arrived' = bytes /\ damage' = how
    BY DEF Deliver
  <1>2. outcome = "none"
    BY <1>1 DEF CodecInv, OutcomeInv
  <1>3. BufferInv' /\ OutcomeInv'
    BY <1>1, <1>2 DEF CodecInv, BufferInv, OutcomeInv, BufferSize
  <1>4. SentInv'
    BY <1>1 DEF CodecInv, SentInv, Message, WireFrame, CoveredBytes
  <1>5. ArrivedInv'
    <2>1. arrived' # <<>> /\ damage' = "none" => arrived' = frame'
      BY <1>1
    <2>2. Valid(arrived)' <=> Valid(bytes)
      BY <1>1 DEF Valid, SizeMatches, CrcMatches
    <2>3. damage' # "none" => ~ Valid(arrived)'
      BY <1>1, <2>2
    <2> QED BY <2>1, <2>3 DEF ArrivedInv
  <1> QED BY <1>3, <1>4, <1>5 DEF CodecInv

\* A burst of errors, bytes that are missing, a byte too many.
LEMMA DamageKeeps ==
    ASSUME CodecInv, Burst \/ Cut \/ Extended
    PROVE  CodecInv'
  <1>1. SentInv
    BY DEF CodecInv
  <1>2. sent # {}
    BY DEF Burst, Cut, Extended, Deliver
  <1>3. PICK message \in sent :
            /\ message.payload \in Bytes /\ Len(message.payload) <= MaxPayload
            /\ frame = WireFrame(message.number, message.payload)
            /\ frame \in Bytes /\ Len(frame) = 12 + Len(message.payload)
            /\ Valid(frame)
    BY <1>1, <1>2, SentIsWire
  <1>4. CASE Burst
    <2>1. PICK start \in 0 .. 8 * Len(frame) - 1, shape \in BurstShapes :
              /\ \A k \in shape : start + k < 8 * Len(frame)
              /\ Deliver(Inverted(frame, ShiftLeft(shape, start)), "burst")
      BY <1>4 DEF Burst
    <2>2. shape \in Word /\ shape # {} /\ start \in Nat
      <3>1. \A s \in BurstShapes : s \in Word /\ 0 \in s
        BY CodecAssumption
      <3> QED BY <2>1, <3>1
    <2>3. ~ Valid(Inverted(frame, ShiftLeft(shape, start)))
      BY <1>3, <2>1, <2>2, BurstsAreFound
    <2> QED BY <2>1, <2>3, DeliverKeeps
  <1>5. PICK number : number = message.number
    OBVIOUS
  <1>6. /\ \A n \in 1 .. Len(frame) - 1 : ~ Valid(SubSeq(frame, 1, n))
        /\ \A byte \in Byte : ~ Valid(Append(frame, byte))
    <2>1. PICK payload \in Bytes : payload = message.payload
      BY <1>3
    <2>2. /\ \A n \in 1 .. Len(WireFrame(number, payload)) - 1 :
                 ~ Valid(SubSeq(WireFrame(number, payload), 1, n))
          /\ \A byte \in Byte : ~ Valid(Append(WireFrame(number, payload), byte))
      BY <1>3, <2>1, WrongLengthShows
    <2> QED BY <1>3, <1>5, <2>1, <2>2
  <1>7. CASE Cut
    <2>1. PICK n \in 1 .. Len(frame) - 1 : Deliver(SubSeq(frame, 1, n), "length")
      BY <1>7 DEF Cut
    <2> QED BY <1>6, <2>1, DeliverKeeps
  <1>8. CASE Extended
    <2>1. PICK byte \in {Version, DataType} : Deliver(Append(frame, byte), "length")
      BY <1>8 DEF Extended
    <2>2. byte \in Byte
      BY <2>1 DEF Version, DataType, Byte
    <2> QED BY <1>6, <2>1, <2>2, DeliverKeeps
  <1> QED BY <1>4, <1>7, <1>8

\* HandleIncoming takes what is valid.
LEMMA HandleKeeps ==
    ASSUME CodecInv, HandleIncoming
    PROVE  CodecInv'
  <1>1. /\ UNCHANGED <<buffer, sent, frame, built, damage, arrived, frames>>
        /\ arrived # <<>>
    BY DEF HandleIncoming
  <1>2. BufferInv' /\ SentInv'
    BY <1>1 DEF CodecInv, BufferInv, SentInv, BufferSize, Message, WireFrame, CoveredBytes
  <1>3. (Valid(arrived)' <=> Valid(arrived)) /\ PayloadOf(arrived)' = PayloadOf(arrived)
    BY <1>1 DEF Valid, SizeMatches, CrcMatches, PayloadOf
  <1>4. ArrivedInv'
    BY <1>1, <1>3 DEF CodecInv, ArrivedInv
  <1>5. OutcomeInv'
    <2>1. CASE Valid(arrived)
      <3>1. outcome' = "handled" /\ given' = PayloadOf(arrived)
        BY <2>1 DEF HandleIncoming
      <3> QED BY <1>1, <1>3, <2>1, <3>1 DEF OutcomeInv
    <2>2. CASE ~ Valid(arrived)
      <3>1. outcome' = "refused"
        BY <2>2 DEF HandleIncoming
      <3> QED BY <1>1, <1>3, <2>2, <3>1 DEF OutcomeInv
    <2> QED BY <2>1, <2>2
  <1> QED BY <1>2, <1>4, <1>5 DEF CodecInv

\* Nothing has been sent, and the buffer is empty but there.
LEMMA InitCodecInv == Init => CodecInv
  <1> SUFFICES ASSUME Init PROVE CodecInv
    OBVIOUS
  <1>1. BufferInv
    <2>1. MaxPayload \in Nat
      BY CodecAssumption
    <2>2. BufferSize \in Nat
      BY <2>1 DEF BufferSize, HeaderSize, CrcSize
    <2>3. buffer \in [1 .. BufferSize -> Byte]
      BY DEF Init, Byte
    <2> QED BY <2>2, <2>3, FunctionIsBytes DEF BufferInv
  <1>2. SentInv
    BY DEF Init, SentInv
  <1>3. ArrivedInv /\ OutcomeInv
    BY DEF Init, ArrivedInv, OutcomeInv
  <1> QED BY <1>1, <1>2, <1>3 DEF CodecInv

\* Every action keeps the invariant.
LEMMA NextCodecInv == CodecInv /\ [Next]_vars => CodecInv'
  <1> SUFFICES ASSUME CodecInv, [Next]_vars PROVE CodecInv'
    OBVIOUS
  <1>1. ASSUME NEW number \in SequenceNumbers, NEW payload \in PayloadSet,
               TransmitFrame(number, payload)
        PROVE  CodecInv'
    BY <1>1, TransmitKeeps
  <1>2. ASSUME NEW capacity \in Capacities, Build(capacity) PROVE CodecInv'
    BY <1>2, BuildKeeps
  <1>3. CASE Intact
    <2>1. Deliver(frame, "none")
      BY <1>3 DEF Intact
    <2> QED BY <2>1, DeliverKeeps
  <1>4. CASE Burst \/ Cut \/ Extended
    BY <1>4, DamageKeeps
  <1>5. CASE HandleIncoming
    BY <1>5, HandleKeeps
  <1>6. CASE UNCHANGED vars
    BY <1>6 DEF vars, CodecInv, BufferInv, SentInv, ArrivedInv, OutcomeInv, BufferSize, Message,
            WireFrame, CoveredBytes, Valid, SizeMatches, CrcMatches, PayloadOf
  <1> QED BY <1>1, <1>2, <1>3, <1>4, <1>5, <1>6 DEF Next

\* In every state of a behaviour the frame on the line is the layout of what was
\* sent, and what is not that frame is not valid.
THEOREM FramesAreWire == Spec => []CodecInv
  <1>1. Init => CodecInv
    BY InitCodecInv
  <1>2. CodecInv /\ [Next]_vars => CodecInv'
    BY NextCodecInv
  <1> QED BY <1>1, <1>2, PTL DEF Spec

\* The CRC of every frame that is sent is CRC-32: ComputeCrc32 and the table it
\* looks up (frame_transport.cpp) compute the remainder of the definition.
THEOREM CrcStandard == Spec => []CrcIsStandard
  <1>1. CodecInv => CrcIsStandard
    <2> SUFFICES ASSUME CodecInv, sent # {}
                 PROVE  ComputeCrc32(SubSeq(frame, 1, Len(frame) - CrcSize)) =
                            StandardCrc32(SubSeq(frame, 1, Len(frame) - CrcSize))
      BY DEF CrcIsStandard
    <2>1. SentInv
      BY DEF CodecInv
    <2>2. PICK message \in sent :
              /\ message.payload \in Bytes
              /\ frame \in Bytes /\ Len(frame) = 12 + Len(message.payload)
      BY <2>1, SentIsWire
    <2>3. PICK n \in Nat : n = Len(frame) - CrcSize /\ n <= Len(frame)
      BY <2>2 DEF Bytes, CrcSize
    <2>4. 1 \in Nat \ {0} /\ n \in Nat /\ 1 - 1 <= n /\ n <= Len(frame)
      BY <2>3
    <2>5. SubSeq(frame, 1, n) \in Bytes
      BY <2>2, <2>4, PartIs
    <2>6. PICK covered \in Bytes : covered = SubSeq(frame, 1, n)
      BY <2>5
    <2>7. ComputeCrc32(covered) = StandardCrc32(covered)
      BY CodeIsStandard DEF Bytes
    <2> QED BY <2>3, <2>6, <2>7
  <1> QED BY <1>1, FramesAreWire, PTL

\* HandleIncoming hands on, byte for byte, the payload TransmitFrame was given if
\* the line leaves the frame alone: for every payload that fits, and whatever the
\* buffer held when the frame was composed in it.
THEOREM PayloadsArrive == Spec => []RoundTrip
  <1>1. CodecInv => RoundTrip
    <2> SUFFICES ASSUME CodecInv, outcome # "none", damage = "none"
                 PROVE  outcome = "handled" /\ \E message \in sent : given = message.payload
      BY DEF RoundTrip
    <2>1. SentInv /\ ArrivedInv /\ OutcomeInv
      BY DEF CodecInv
    <2>2. arrived # <<>>
      BY <2>1 DEF OutcomeInv
    <2>3. arrived = frame /\ sent # {}
      BY <2>1, <2>2 DEF ArrivedInv, SentInv
    <2>4. PICK message \in sent : Valid(frame) /\ PayloadOf(frame) = message.payload
      BY <2>1, <2>3, SentIsWire
    <2>5. outcome = "handled" /\ given = PayloadOf(arrived)
      BY <2>1, <2>3, <2>4 DEF OutcomeInv
    <2> QED BY <2>3, <2>4, <2>5
  <1> QED BY <1>1, FramesAreWire, PTL

\* HandleIncoming hands on no frame that a burst of up to 32 bits has hit, whatever
\* bits of it, nor one that lacks bytes or has one too many.
THEOREM DamageFound == Spec => []DamageDetected
  <1>1. CodecInv => DamageDetected
    BY DEF CodecInv, ArrivedInv, OutcomeInv, DamageDetected
  <1> QED BY <1>1, FramesAreWire, PTL

\* BuildFrame and TransmitFrame compose the same bytes (the layout is written down
\* in the code once for each).
THEOREM BothComposersAgree == Spec => []ComposersAgree
  <1>1. CodecInv => ComposersAgree
    <2> SUFFICES ASSUME CodecInv, built # <<>> PROVE built = frame
      BY DEF ComposersAgree
    <2>1. SentInv
      BY DEF CodecInv
    <2>2. PICK message \in sent : built \in {<<>>, frame}
      BY <2>1 DEF SentInv
    <2> QED BY <2>2
  <1> QED BY <1>1, FramesAreWire, PTL

=============================================================================
