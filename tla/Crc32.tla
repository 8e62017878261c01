------------------------------- MODULE Crc32 -------------------------------
(***************************************************************************)
(* ComputeCrc32 and the table it looks up (src/frame_transport.cpp), and   *)
(* what they are to agree with: CRC-32 as it is defined, the remainder of  *)
(* a polynomial division.                                                  *)
(*                                                                         *)
(* A byte or a word is the set of its bits that are 1, bit 0 the lowest.   *)
(* Exclusive or is then the symmetric difference of sets.                  *)
(***************************************************************************)
EXTENDS Integers, Sequences

Byte == SUBSET (0 .. 7)
Word == SUBSET (0 .. 31)

Xor(a, b) == (a \ b) \cup (b \ a)

ShiftRight(w, n) == {i - n : i \in {j \in w : j >= n}}

ShiftLeft(w, n) == {i + n : i \in w}

\* CRC32_POLYNOMIAL_REVERSED, 0xEDB88320.
PolynomialReversed == {31, 30, 29, 27, 26, 24, 23, 21, 20, 19, 15, 9, 8, 5}

\* Mutant: the bit that decides is looked at after the shift.
BitStepLate(w) ==
    IF 1 \in w THEN Xor(ShiftRight(w, 1), PolynomialReversed) ELSE ShiftRight(w, 1)

\* One turn of the inner loop of generateCrc32LookupTable.
BitStep(w) ==
    IF 0 \in w THEN Xor(ShiftRight(w, 1), PolynomialReversed) ELSE ShiftRight(w, 1)

\* CRC32_LOOKUP_TABLE.
LookupTable ==
    [byte \in Byte |->
        LET crc32Accumulator[turn \in 0 .. 8] ==
                IF turn = 0 THEN byte ELSE BitStep(crc32Accumulator[turn - 1])
        IN  crc32Accumulator[8]]

AllOnes == 0 .. 31   \* CRC32_INITIAL_VALUE and CRC32_FINAL_XOR_VALUE

\* One turn of the loop of ComputeCrc32.
ByteStep(w, byte) ==
    Xor(ShiftRight(w, 8), LookupTable[Xor(w, byte) \cap (0 .. 7)])

ComputeCrc32(bytes) ==
    LET crc32Accumulator[turn \in 0 .. Len(bytes)] ==
            IF turn = 0 THEN AllOnes ELSE ByteStep(crc32Accumulator[turn - 1], bytes[turn])
    IN  Xor(crc32Accumulator[Len(bytes)], AllOnes)

-----------------------------------------------------------------------------
(***************************************************************************)
(* CRC-32 by its definition.  A message is a polynomial over two elements, *)
(* the set of the exponents of its terms: the first bit sent, the lowest   *)
(* of the first byte, is the coefficient of the highest power.  It is      *)
(* multiplied by x^32, its first 32 coefficients are inverted, and the     *)
(* remainder by the generator is inverted and sent highest power first.    *)
(***************************************************************************)
Generator == {32, 26, 23, 22, 16, 12, 11, 10, 8, 7, 5, 4, 2, 1, 0}

Polynomial(bytes) ==
    LET n == 8 * Len(bytes)
    IN  {k \in 0 .. n - 1 : (n - 1 - k) % 8 \in bytes[(n - 1 - k) \div 8 + 1]}

\* The generator, shifted to the term of the given degree, is subtracted if the
\* term is there.
DivisionStep(polynomial, degree) ==
    IF degree \in polynomial THEN Xor(polynomial, ShiftLeft(Generator, degree - 32))
                             ELSE polynomial

\* The remainder of a polynomial of a degree below `length'.
Remainder(polynomial, length) ==
    LET rest[d \in 0 .. length - 32] ==
            IF d = 0 THEN polynomial ELSE DivisionStep(rest[d - 1], length - d)
    IN  rest[length - 32]

StandardCrc32(bytes) ==
    LET n         == 8 * Len(bytes)
        dividend  == Xor(ShiftLeft(Polynomial(bytes), 32), ShiftLeft(AllOnes, n))
        remainder == Xor(Remainder(dividend, n + 32), AllOnes)
    IN  {31 - k : k \in remainder}
=============================================================================
