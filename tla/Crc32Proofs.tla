----------------------------- MODULE Crc32Proofs -----------------------------
(***************************************************************************)
(* What is proved of ComputeCrc32, for all bytes: it is CRC-32 by its      *)
(* definition (StandardCrc32), and the check value behind a message brings *)
(* the register back to one value, which no short burst of errors does.    *)
(***************************************************************************)
EXTENDS Crc32, FiniteSetTheorems, TLAPS

-----------------------------------------------------------------------------
(***************************************************************************)
(* Induction over the natural numbers, for a set: a set that holds 0 and   *)
(* with every number its successor holds them all.  If it did not, adding  *)
(* one would map its numbers below a missing one into themselves, without  *)
(* reaching 0: an injection of a finite set into itself that is not onto.  *)
(***************************************************************************)
LEMMA Induction ==
    ASSUME NEW S, 0 \in S, \A n \in Nat : n \in S => n + 1 \in S
    PROVE  Nat \subseteq S
  <1> SUFFICES ASSUME NEW n \in Nat, n \notin S PROVE FALSE
    OBVIOUS
  <1> DEFINE below == {k \in 0 .. n : k \in S}
             next == [k \in below |-> k + 1]
  <1>1. IsFiniteSet(below)
    <2>1. IsFiniteSet(0 .. n)
      BY FS_Interval
    <2>2. below \in SUBSET (0 .. n)
      OBVIOUS
    <2> HIDE DEF below
    <2> QED BY <2>1, <2>2, FS_Subset
  <1>2. next \in [below -> below]
    <2>1. ASSUME NEW k \in below PROVE k + 1 \in below
      <3>1. k \in Nat /\ k \in S /\ k <= n /\ k # n
        OBVIOUS
      <3> QED BY <3>1
    <2> QED BY <2>1
  <1>3. \A j, k \in below : next[j] = next[k] => j = k
    OBVIOUS
  <1>4. 0 \in below /\ \A k \in below : next[k] # 0
    OBVIOUS
  <1> HIDE DEF next, below
  <1>5. next \in Injection(below, below)
    BY <1>2, <1>3 DEF Injection, IsInjective
  <1>6. next \in Surjection(below, below)
    BY <1>1, <1>5, FS_Injection
  <1> QED BY <1>4, <1>6 DEF Surjection

-----------------------------------------------------------------------------
(***************************************************************************)
(* Recursion: a loop that starts with a value and makes turn after turn.   *)
(***************************************************************************)

\* The first n turns of a loop over values of T, turn i taking t to step[i][t].
Runs(T, base, step, n) ==
    {f \in [0 .. n -> T] :
        f[0] = base /\ \A i \in 1 .. n : f[i] = step[i][f[i - 1]]}

\* Two runs do not differ where both have got to.
LEMMA RunsAgree ==
    ASSUME NEW T, NEW base, NEW step, NEW m \in Nat, NEW n \in Nat,
           NEW f \in Runs(T, base, step, m), NEW g \in Runs(T, base, step, n)
    PROVE  \A k \in Nat : k <= m /\ k <= n => f[k] = g[k]
  <1> DEFINE Good == {k \in Nat : k <= m /\ k <= n => f[k] = g[k]}
  <1>0. /\ f[0] = base /\ \A i \in 1 .. m : f[i] = step[i][f[i - 1]]
        /\ g[0] = base /\ \A i \in 1 .. n : g[i] = step[i][g[i - 1]]
    BY DEF Runs
  <1>1. 0 \in Good
    BY <1>0
  <1>2. ASSUME NEW k \in Nat, k \in Good PROVE k + 1 \in Good
    <2> SUFFICES ASSUME k + 1 <= m, k + 1 <= n PROVE f[k + 1] = g[k + 1]
      OBVIOUS
    <2>1. f[k] = g[k]
      BY <1>2
    <2>2. k + 1 \in 1 .. m /\ k + 1 \in 1 .. n /\ (k + 1) - 1 = k
      OBVIOUS
    <2> QED BY <1>0, <2>1, <2>2
  <1>3. Nat \subseteq Good
    <2> HIDE DEF Good
    <2> QED BY <1>1, <1>2, Induction
  <1> QED BY <1>3

\* There is a run of any length.
LEMMA RunExists ==
    ASSUME NEW T, NEW base \in T, NEW step \in [Nat -> [T -> T]], NEW n \in Nat
    PROVE  \E f : f \in Runs(T, base, step, n)
  <1> DEFINE Good == {m \in Nat : \E f : f \in Runs(T, base, step, m)}
  <1>1. 0 \in Good
    <2>1. [i \in 0 .. 0 |-> base] \in Runs(T, base, step, 0)
      BY DEF Runs
    <2> QED BY <2>1
  <1>2. ASSUME NEW m \in Nat, m \in Good PROVE m + 1 \in Good
    <2>1. PICK f : f \in Runs(T, base, step, m)
      BY <1>2
    <2>2. /\ f \in [0 .. m -> T] /\ f[0] = base
          /\ \A i \in 1 .. m : f[i] = step[i][f[i - 1]]
      BY <2>1 DEF Runs
    <2> DEFINE g == [i \in 0 .. m + 1 |-> IF i <= m THEN f[i] ELSE step[m + 1][f[m]]]
    <2>3. /\ \A i \in 0 .. m : g[i] = f[i]
          /\ g[m + 1] = step[m + 1][f[m]]
      OBVIOUS
    <2>4. g \in [0 .. m + 1 -> T]
      <3>1. step[m + 1][f[m]] \in T
        BY <2>2
      <3>2. \A i \in 0 .. m : f[i] \in T
        BY <2>2
      <3>3. \A i \in 0 .. m + 1 : (IF i <= m THEN f[i] ELSE step[m + 1][f[m]]) \in T
        BY <3>1, <3>2
      <3> QED BY <3>3
    <2> HIDE DEF g
    <2>5. ASSUME NEW i \in 1 .. m + 1 PROVE g[i] = step[i][g[i - 1]]
      <3>1. i - 1 \in 0 .. m
        OBVIOUS
      <3>2. CASE i <= m
        <4>1. i \in 1 .. m /\ i \in 0 .. m
          BY <3>2
        <4> QED BY <2>2, <2>3, <3>1, <4>1
      <3>3. CASE i = m + 1
        <4>1. i - 1 = m
          BY <3>3
        <4> QED BY <2>3, <3>1, <3>3, <4>1
      <3> QED BY <3>2, <3>3
    <2>6. g[0] = base
      BY <2>2, <2>3
    <2>7. g \in Runs(T, base, step, m + 1)
      BY <2>4, <2>5, <2>6 DEF Runs
    <2> QED BY <2>7
  <1>3. Nat \subseteq Good
    <2> HIDE DEF Good
    <2> QED BY <1>1, <1>2, Induction
  <1> QED BY <1>3

\* A function that obeys the loop is a run.
LEMMA LoopIsRun ==
    ASSUME NEW T, NEW base, NEW step, NEW n \in Nat, NEW run \in Runs(T, base, step, n),
           NEW f, f[0] = base, \A i \in 1 .. n : f[i - 1] \in T => f[i] = step[i][f[i - 1]]
    PROVE  \A k \in 0 .. n : f[k] = run[k] /\ f[k] \in T
  <1> DEFINE Good == {k \in Nat : k <= n => f[k] = run[k]}
  <1>0. /\ run \in [0 .. n -> T] /\ run[0] = base
        /\ \A i \in 1 .. n : run[i] = step[i][run[i - 1]]
    BY DEF Runs
  <1>1. 0 \in Good
    BY <1>0
  <1>2. ASSUME NEW k \in Nat, k \in Good PROVE k + 1 \in Good
    <2> SUFFICES ASSUME k + 1 <= n PROVE f[k + 1] = run[k + 1]
      OBVIOUS
    <2>1. k \in 0 .. n /\ k + 1 \in 1 .. n /\ (k + 1) - 1 = k
      OBVIOUS
    <2>2. f[k] = run[k] /\ run[k] \in T
      BY <1>0, <1>2, <2>1
    <2> QED BY <1>0, <2>1, <2>2
  <1>3. Nat \subseteq Good
    <2> HIDE DEF Good
    <2> QED BY <1>1, <1>2, Induction
  <1>4. \A k \in 0 .. n : f[k] = run[k]
    BY <1>3
  <1> QED BY <1>0, <1>4

-----------------------------------------------------------------------------
(***************************************************************************)
(* Words, and sets of bits without a highest one, which a word is shifted  *)
(* into.                                                                   *)
(***************************************************************************)
Bits == SUBSET Nat

\* The bits of an exclusive or.
LEMMA XorIs ==
    ASSUME NEW a, NEW b
    PROVE  \A k : k \in Xor(a, b) <=> ~ (k \in a <=> k \in b)
  BY DEF Xor

\* It is a set of bits.
LEMMA XorType ==
    ASSUME NEW a, NEW b
    PROVE  /\ a \in Bits /\ b \in Bits => Xor(a, b) \in Bits
           /\ a \in Word /\ b \in Word => Xor(a, b) \in Word
  BY DEF Xor, Bits, Word

\* A word is a set of bits.
LEMMA WordIsBits == Word \subseteq Bits /\ Byte \subseteq Word /\ Byte \subseteq Bits
  BY DEF Word, Bits, Byte

\* The bits of a word shifted to the right.
LEMMA ShiftRightIs ==
    ASSUME NEW w \in Bits, NEW n \in Nat
    PROVE  /\ ShiftRight(w, n) \in Bits
           /\ \A k \in Nat : k \in ShiftRight(w, n) <=> k + n \in w
  <1>1. ASSUME NEW k \in ShiftRight(w, n) PROVE k \in Nat /\ k + n \in w
    <2>1. PICK j \in w : j >= n /\ k = j - n
      BY <1>1 DEF ShiftRight
    <2>2. j \in Nat /\ (j - n) + n = j
      BY <2>1 DEF Bits
    <2> QED BY <2>1, <2>2
  <1>2. ASSUME NEW k \in Nat, k + n \in w PROVE k \in ShiftRight(w, n)
    <2>1. k + n >= n /\ (k + n) - n = k
      OBVIOUS
    <2>2. k + n \in {j \in w : j >= n}
      BY <1>2, <2>1
    <2> QED BY <2>1, <2>2, Zenon DEF ShiftRight
  <1>3. ShiftRight(w, n) \in Bits
    BY <1>1 DEF Bits
  <1> QED BY <1>1, <1>2, <1>3

\* And to the left.
LEMMA ShiftLeftIs ==
    ASSUME NEW w \in Bits, NEW n \in Nat
    PROVE  /\ ShiftLeft(w, n) \in Bits
           /\ \A k \in Nat : k \in ShiftLeft(w, n) <=> k >= n /\ k - n \in w
  <1>1. ASSUME NEW k \in ShiftLeft(w, n) PROVE k \in Nat /\ k >= n /\ k - n \in w
    <2>1. PICK j \in w : k = j + n
      BY <1>1 DEF ShiftLeft
    <2>2. j \in Nat
      BY <2>1 DEF Bits
    <2>3. k \in Nat /\ k >= n /\ k - n = j
      BY <2>1, <2>2
    <2> QED BY <2>1, <2>3
  <1>2. ASSUME NEW k \in Nat, k >= n, k - n \in w PROVE k \in ShiftLeft(w, n)
    <2>1. (k - n) + n = k
      OBVIOUS
    <2> QED BY <1>2, <2>1, Zenon DEF ShiftLeft
  <1>3. ShiftLeft(w, n) \in Bits
    BY <1>1 DEF Bits
  <1> QED BY <1>1, <1>2, <1>3

\* Sets of bits with the same bits are the same.
LEMMA SameBits ==
    ASSUME NEW a \in Bits, NEW b \in Bits, \A k \in Nat : k \in a <=> k \in b
    PROVE  a = b
  BY DEF Bits

-----------------------------------------------------------------------------
(***************************************************************************)
(* BitStep, on any set of bits: one step of a division.                    *)
(***************************************************************************)
LEMMA PolynomialType == PolynomialReversed \in Word /\ PolynomialReversed \in Bits
  BY DEF PolynomialReversed, Word, Bits

\* The bits after a step.
LEMMA BitStepIs ==
    ASSUME NEW w \in Bits
    PROVE  /\ BitStep(w) \in Bits
           /\ \A k \in Nat : k \in BitStep(w) <=>
                                ~ (k + 1 \in w <=> 0 \in w /\ k \in PolynomialReversed)
  <1>1. 1 \in Nat
    OBVIOUS
  <1>2. /\ ShiftRight(w, 1) \in Bits
        /\ \A k \in Nat : k \in ShiftRight(w, 1) <=> k + 1 \in w
    BY <1>1, ShiftRightIs
  <1>3. CASE 0 \in w
    <2>1. BitStep(w) = Xor(ShiftRight(w, 1), PolynomialReversed)
      BY <1>3 DEF BitStep
    <2>2. Xor(ShiftRight(w, 1), PolynomialReversed) \in Bits
      BY <1>2, PolynomialType, XorType
    <2>3. \A k : k \in Xor(ShiftRight(w, 1), PolynomialReversed) <=>
                     ~ (k \in ShiftRight(w, 1) <=> k \in PolynomialReversed)
      BY XorIs
    <2> QED BY <1>2, <1>3, <2>1, <2>2, <2>3, Zenon
  <1>4. CASE 0 \notin w
    <2>1. BitStep(w) = ShiftRight(w, 1)
      BY <1>4 DEF BitStep
    <2> QED BY <1>2, <1>4, <2>1, Zenon
  <1> QED BY <1>3, <1>4

\* A step of a word makes a word.
LEMMA BitStepWord ==
    ASSUME NEW w \in Word
    PROVE  BitStep(w) \in Word
  <1>1. w \in Bits
    BY WordIsBits
  <1>2. /\ BitStep(w) \in Bits
        /\ \A k \in Nat : k \in BitStep(w) <=>
                             ~ (k + 1 \in w <=> 0 \in w /\ k \in PolynomialReversed)
    BY <1>1, BitStepIs
  <1>3. ASSUME NEW k \in BitStep(w) PROVE k \in 0 .. 31
    <2>1. k \in Nat
      BY <1>2 DEF Bits
    <2>2. k + 1 \in w \/ k \in PolynomialReversed
      BY <1>2, <2>1
    <2>3. k + 1 \in w => k \in 0 .. 31
      BY <2>1 DEF Word
    <2>4. k \in PolynomialReversed => k \in 0 .. 31
      BY PolynomialType DEF Word
    <2> QED BY <2>2, <2>3, <2>4
  <1> QED BY <1>3 DEF Word

\* The step of an exclusive or is the exclusive or of the steps.
LEMMA BitStepLinear ==
    ASSUME NEW a \in Bits, NEW b \in Bits
    PROVE  BitStep(Xor(a, b)) = Xor(BitStep(a), BitStep(b))
  <1>1. Xor(a, b) \in Bits /\ BitStep(a) \in Bits /\ BitStep(b) \in Bits
    BY XorType, BitStepIs
  <1>2. BitStep(Xor(a, b)) \in Bits /\ Xor(BitStep(a), BitStep(b)) \in Bits
    BY <1>1, XorType, BitStepIs
  <1>3. ASSUME NEW k \in Nat
        PROVE  k \in BitStep(Xor(a, b)) <=> k \in Xor(BitStep(a), BitStep(b))
    <2>1. k \in BitStep(Xor(a, b)) <=>
              ~ (k + 1 \in Xor(a, b) <=> 0 \in Xor(a, b) /\ k \in PolynomialReversed)
      BY <1>1, BitStepIs
    <2>2. /\ k \in BitStep(a) <=> ~ (k + 1 \in a <=> 0 \in a /\ k \in PolynomialReversed)
          /\ k \in BitStep(b) <=> ~ (k + 1 \in b <=> 0 \in b /\ k \in PolynomialReversed)
      BY BitStepIs
    <2>3. /\ k + 1 \in Xor(a, b) <=> ~ (k + 1 \in a <=> k + 1 \in b)
          /\ 0 \in Xor(a, b) <=> ~ (0 \in a <=> 0 \in b)
          /\ k \in Xor(BitStep(a), BitStep(b)) <=> ~ (k \in BitStep(a) <=> k \in BitStep(b))
      BY XorIs
    <2> QED BY <2>1, <2>2, <2>3
  <1> QED BY <1>2, <1>3, SameBits

\* No step of a word that is not zero makes it zero: the polynomial's highest
\* bit is where the shift leaves none.
LEMMA BitStepNotZero ==
    ASSUME NEW w \in Word, w # {}
    PROVE  BitStep(w) # {}
  <1>1. w \in Bits
    BY WordIsBits
  <1>2. \A k \in Nat : k \in BitStep(w) <=>
                            ~ (k + 1 \in w <=> 0 \in w /\ k \in PolynomialReversed)
    BY <1>1, BitStepIs
  <1>3. CASE 0 \in w
    <2>1. 31 \in Nat /\ 31 + 1 \notin w /\ 31 \in PolynomialReversed
      BY DEF Word, PolynomialReversed
    <2> QED BY <1>2, <1>3, <2>1
  <1>4. CASE 0 \notin w
    <2>1. PICK j \in w : j # 0
      BY <1>4
    <2>2. j - 1 \in Nat /\ (j - 1) + 1 = j
      BY <2>1 DEF Word
    <2> QED BY <1>2, <1>4, <2>1, <2>2
  <1> QED BY <1>3, <1>4

-----------------------------------------------------------------------------
(***************************************************************************)
(* Many steps.                                                             *)
(***************************************************************************)
EachStep == [i \in Nat |-> [w \in Bits |-> BitStep(w)]]

\* A set of bits after n steps.
After(w, n) == (CHOOSE f : f \in Runs(Bits, w, EachStep, n))[n]

\* What EachStep does.
LEMMA EachStepIs ==
    /\ EachStep \in [Nat -> [Bits -> Bits]]
    /\ \A i \in Nat, w \in Bits : EachStep[i][w] = BitStep(w)
  BY BitStepIs DEF EachStep

\* The run After takes its value from.
LEMMA AfterIs ==
    ASSUME NEW w \in Bits, NEW n \in Nat
    PROVE  \E f : f \in Runs(Bits, w, EachStep, n) /\ After(w, n) = f[n]
  <1> DEFINE f == CHOOSE f : f \in Runs(Bits, w, EachStep, n)
  <1>1. f \in Runs(Bits, w, EachStep, n)
    BY EachStepIs, RunExists
  <1>2. After(w, n) = f[n]
    BY DEF After
  <1> QED BY <1>1, <1>2

\* No step changes nothing.
LEMMA AfterNone ==
    ASSUME NEW w \in Bits
    PROVE  After(w, 0) = w
  <1>1. PICK f : f \in Runs(Bits, w, EachStep, 0) /\ After(w, 0) = f[0]
    BY AfterIs
  <1> QED BY <1>1 DEF Runs

\* It is a set of bits.
LEMMA AfterType ==
    ASSUME NEW w \in Bits, NEW n \in Nat
    PROVE  After(w, n) \in Bits
  <1>1. PICK f : f \in Runs(Bits, w, EachStep, n) /\ After(w, n) = f[n]
    BY AfterIs
  <1>2. f \in [0 .. n -> Bits] /\ n \in 0 .. n
    BY <1>1 DEF Runs
  <1> QED BY <1>1, <1>2

\* One step more.
LEMMA AfterNext ==
    ASSUME NEW w \in Bits, NEW n \in Nat
    PROVE  After(w, n + 1) = BitStep(After(w, n))
  <1>1. PICK f : f \in Runs(Bits, w, EachStep, n) /\ After(w, n) = f[n]
    BY AfterIs
  <1>2. PICK g : g \in Runs(Bits, w, EachStep, n + 1) /\ After(w, n + 1) = g[n + 1]
    <2>1. n + 1 \in Nat
      OBVIOUS
    <2> QED BY <2>1, AfterIs, Zenon
  <1>3. f[n] = g[n]
    <2>1. n + 1 \in Nat /\ n <= n /\ n <= n + 1
      OBVIOUS
    <2> QED BY <1>1, <1>2, <2>1, RunsAgree
  <1>4. g[n + 1] = EachStep[n + 1][g[n]]
    <2>1. n + 1 \in 1 .. n + 1 /\ (n + 1) - 1 = n
      OBVIOUS
    <2> QED BY <1>2, <2>1 DEF Runs
  <1>5. After(w, n) \in Bits /\ n + 1 \in Nat
    BY AfterType
  <1> QED BY <1>1, <1>2, <1>3, <1>4, <1>5, EachStepIs

\* Steps of an exclusive or.
LEMMA AfterLinear ==
    ASSUME NEW a \in Bits, NEW b \in Bits
    PROVE  \A n \in Nat : After(Xor(a, b), n) = Xor(After(a, n), After(b, n))
  <1> DEFINE Good == {n \in Nat : After(Xor(a, b), n) = Xor(After(a, n), After(b, n))}
  <1>0. Xor(a, b) \in Bits
    BY XorType
  <1>1. 0 \in Good
    BY <1>0, AfterNone
  <1>2. ASSUME NEW n \in Nat, n \in Good PROVE n + 1 \in Good
    <2>1. After(Xor(a, b), n) = Xor(After(a, n), After(b, n))
      BY <1>2
    <2>2. /\ After(Xor(a, b), n + 1) = BitStep(After(Xor(a, b), n))
          /\ After(a, n + 1) = BitStep(After(a, n))
          /\ After(b, n + 1) = BitStep(After(b, n))
      BY <1>0, AfterNext
    <2>3. After(a, n) \in Bits /\ After(b, n) \in Bits
      BY AfterType
    <2>4. BitStep(Xor(After(a, n), After(b, n))) = Xor(BitStep(After(a, n)), BitStep(After(b, n)))
      BY <2>3, BitStepLinear
    <2>5. n + 1 \in Nat
      OBVIOUS
    <2> QED BY <2>1, <2>2, <2>4, <2>5
  <1>3. Nat \subseteq Good
    <2> HIDE DEF Good
    <2> QED BY <1>1, <1>2, Induction
  <1> QED BY <1>3

\* Some steps and then some more.
LEMMA AfterAfter ==
    ASSUME NEW w \in Bits, NEW m \in Nat
    PROVE  \A n \in Nat : After(w, m + n) = After(After(w, m), n)
  <1> DEFINE Good == {n \in Nat : After(w, m + n) = After(After(w, m), n)}
  <1>0. After(w, m) \in Bits
    BY AfterType
  <1>1. 0 \in Good
    <2>1. m + 0 = m
      OBVIOUS
    <2> QED BY <1>0, <2>1, AfterNone
  <1>2. ASSUME NEW n \in Nat, n \in Good PROVE n + 1 \in Good
    <2>1. m + (n + 1) = (m + n) + 1 /\ m + n \in Nat /\ n + 1 \in Nat
      OBVIOUS
    <2>2. After(w, (m + n) + 1) = BitStep(After(w, m + n))
      BY <2>1, AfterNext
    <2>3. After(After(w, m), n + 1) = BitStep(After(After(w, m), n))
      BY <1>0, AfterNext
    <2> QED BY <1>2, <2>1, <2>2, <2>3
  <1>3. Nat \subseteq Good
    <2> HIDE DEF Good
    <2> QED BY <1>1, <1>2, Induction
  <1> QED BY <1>3

\* A word stays a word, and if it is not zero, not zero.
LEMMA AfterNotZero ==
    ASSUME NEW w \in Word, w # {}
    PROVE  \A n \in Nat : After(w, n) \in Word /\ After(w, n) # {}
  <1> DEFINE Good == {n \in Nat : After(w, n) \in Word /\ After(w, n) # {}}
  <1>0. w \in Bits
    BY WordIsBits
  <1>1. 0 \in Good
    BY <1>0, AfterNone
  <1>2. ASSUME NEW n \in Nat, n \in Good PROVE n + 1 \in Good
    <2>1. After(w, n) \in Word /\ After(w, n) # {}
      BY <1>2
    <2>2. After(w, n + 1) = BitStep(After(w, n))
      BY <1>0, AfterNext
    <2>3. n + 1 \in Nat
      OBVIOUS
    <2> QED BY <2>1, <2>2, <2>3, BitStepWord, BitStepNotZero
  <1>3. Nat \subseteq Good
    <2> HIDE DEF Good
    <2> QED BY <1>1, <1>2, Induction
  <1> QED BY <1>3

\* Below the lowest bit a step is a shift.
LEMMA BitStepShifts ==
    ASSUME NEW w \in Bits, NEW n \in Nat
    PROVE  BitStep(ShiftLeft(w, n + 1)) = ShiftLeft(w, n)
  <1> DEFINE left == ShiftLeft(w, n + 1)
  <1>1. /\ left \in Bits
        /\ \A k \in Nat : k \in left <=> k >= n + 1 /\ k - (n + 1) \in w
    BY ShiftLeftIs
  <1>2. /\ ShiftLeft(w, n) \in Bits
        /\ \A k \in Nat : k \in ShiftLeft(w, n) <=> k >= n /\ k - n \in w
    BY ShiftLeftIs
  <1> HIDE DEF left
  <1>3. /\ BitStep(left) \in Bits
        /\ \A k \in Nat : k \in BitStep(left) <=>
                             ~ (k + 1 \in left <=> 0 \in left /\ k \in PolynomialReversed)
    BY <1>1, BitStepIs
  <1>4. 0 \notin left
    BY <1>1
  <1>5. ASSUME NEW k \in Nat PROVE k \in BitStep(left) <=> k \in ShiftLeft(w, n)
    <2>1. k + 1 \in Nat /\ (k + 1) - (n + 1) = k - n /\ (k + 1 >= n + 1 <=> k >= n)
      OBVIOUS
    <2>2. k \in BitStep(left) <=> k + 1 \in left
      BY <1>3, <1>4
    <2>3. k + 1 \in left <=> k + 1 >= n + 1 /\ (k + 1) - (n + 1) \in w
      BY <1>1, <2>1
    <2> QED BY <1>2, <2>1, <2>2, <2>3
  <1> QED BY <1>2, <1>3, <1>5, SameBits DEF left

\* What is shifted to the left comes back step by step.
LEMMA AfterShifts ==
    ASSUME NEW w \in Bits, NEW s \in Nat
    PROVE  \A n \in Nat : n <= s => After(ShiftLeft(w, s), n) = ShiftLeft(w, s - n)
  <1> DEFINE Good == {n \in Nat : n <= s => After(ShiftLeft(w, s), n) = ShiftLeft(w, s - n)}
  <1>0. ShiftLeft(w, s) \in Bits
    BY ShiftLeftIs
  <1>1. 0 \in Good
    <2>1. s - 0 = s
      OBVIOUS
    <2> QED BY <1>0, <2>1, AfterNone
  <1>2. ASSUME NEW n \in Nat, n \in Good PROVE n + 1 \in Good
    <2> SUFFICES ASSUME n + 1 <= s
                 PROVE  After(ShiftLeft(w, s), n + 1) = ShiftLeft(w, s - (n + 1))
      OBVIOUS
    <2>1. After(ShiftLeft(w, s), n + 1) = BitStep(After(ShiftLeft(w, s), n))
      BY <1>0, AfterNext
    <2>2. After(ShiftLeft(w, s), n) = ShiftLeft(w, s - n)
      BY <1>2
    <2>3. PICK r \in Nat : r = s - (n + 1)
      OBVIOUS
    <2>4. s - n = r + 1
      BY <2>3
    <2>5. BitStep(ShiftLeft(w, r + 1)) = ShiftLeft(w, r)
      BY BitStepShifts
    <2> QED BY <2>1, <2>2, <2>3, <2>4, <2>5
  <1>3. Nat \subseteq Good
    <2> HIDE DEF Good
    <2> QED BY <1>1, <1>2, Induction
  <1> QED BY <1>3

\* A set of bits shifted by nothing.
LEMMA ShiftLeftNone ==
    ASSUME NEW w \in Bits
    PROVE  ShiftLeft(w, 0) = w
  <1>1. /\ ShiftLeft(w, 0) \in Bits
        /\ \A k \in Nat : k \in ShiftLeft(w, 0) <=> k >= 0 /\ k - 0 \in w
    BY ShiftLeftIs
  <1>2. \A k \in Nat : k >= 0 /\ k - 0 = k
    OBVIOUS
  <1> QED BY <1>1, <1>2, SameBits

\* A word shifted to the left is never brought to zero: where its bits come back
\* into the register depends on the shift, that some do does not.
LEMMA BurstRemains ==
    ASSUME NEW w \in Word, w # {}, NEW s \in Nat, NEW n \in Nat
    PROVE  After(ShiftLeft(w, s), n) # {}
  <1>0. w \in Bits /\ ShiftLeft(w, s) \in Bits
    BY WordIsBits, ShiftLeftIs
  <1>1. CASE n <= s
    <2>1. After(ShiftLeft(w, s), n) = ShiftLeft(w, s - n)
      BY <1>0, <1>1, AfterShifts
    <2>2. ShiftLeft(w, s - n) # {}
      BY DEF ShiftLeft
    <2> QED BY <2>1, <2>2
  <1>2. CASE ~ n <= s
    <2>1. n - s \in Nat /\ s + (n - s) = n /\ s <= s /\ s - s = 0
      BY <1>2
    <2>2. After(ShiftLeft(w, s), s) = w
      BY <1>0, <2>1, AfterShifts, ShiftLeftNone
    <2>3. After(ShiftLeft(w, s), s + (n - s)) = After(After(ShiftLeft(w, s), s), n - s)
      BY <1>0, <2>1, AfterAfter
    <2> QED BY <2>1, <2>2, <2>3, AfterNotZero
  <1> QED BY <1>1, <1>2

-----------------------------------------------------------------------------
(***************************************************************************)
(* The table: eight steps at once.                                         *)
(***************************************************************************)

\* The inner loop of generateCrc32LookupTable.
TableLoop(f, byte) ==
    f = [turn \in 0 .. 8 |-> IF turn = 0 THEN byte ELSE BitStep(f[turn - 1])]

\* An entry of the table.
LEMMA TableDef ==
    ASSUME NEW byte \in Byte
    PROVE  LookupTable[byte] = (CHOOSE f : TableLoop(f, byte))[8]
  BY DEF LookupTable, TableLoop

\* It is eight steps on the byte.
LEMMA TableIs ==
    ASSUME NEW byte \in Byte
    PROVE  LookupTable[byte] = After(byte, 8)
  <1>1. byte \in Bits
    BY WordIsBits
  <1>2. PICK run : run \in Runs(Bits, byte, EachStep, 8) /\ After(byte, 8) = run[8]
    <2>1. 8 \in Nat
      OBVIOUS
    <2> QED BY <1>1, <2>1, AfterIs
  <1>3. TableLoop(run, byte)
    <2>1. /\ run \in [0 .. 8 -> Bits] /\ run[0] = byte
          /\ \A i \in 1 .. 8 : run[i] = EachStep[i][run[i - 1]]
      BY <1>2 DEF Runs
    <2>2. ASSUME NEW turn \in 0 .. 8
          PROVE  run[turn] = IF turn = 0 THEN byte ELSE BitStep(run[turn - 1])
      <3>1. CASE turn = 0
        BY <2>1, <3>1
      <3>2. CASE turn # 0
        <4>1. turn \in 1 .. 8 /\ turn - 1 \in 0 .. 8 /\ turn \in Nat
          BY <3>2
        <4>2. run[turn] = EachStep[turn][run[turn - 1]] /\ run[turn - 1] \in Bits
          BY <2>1, <4>1
        <4> QED BY <3>2, <4>1, <4>2, EachStepIs
      <3> QED BY <3>1, <3>2
    <2>3. run = [turn \in 0 .. 8 |-> run[turn]]
      BY <2>1
    <2> QED BY <2>2, <2>3, Zenon DEF TableLoop
  <1>4. PICK f : TableLoop(f, byte) /\ LookupTable[byte] = f[8]
    BY <1>3, TableDef, Zenon
  <1>5. /\ f[0] = byte
        /\ \A i \in 1 .. 8 : f[i - 1] \in Bits => f[i] = EachStep[i][f[i - 1]]
    <2>1. f[0] = byte
      BY <1>4 DEF TableLoop
    <2>2. ASSUME NEW i \in 1 .. 8, f[i - 1] \in Bits PROVE f[i] = EachStep[i][f[i - 1]]
      <3>1. i \in 0 .. 8 /\ i # 0 /\ i \in Nat
        OBVIOUS
      <3>2. f[i] = BitStep(f[i - 1])
        BY <1>4, <3>1, Zenon DEF TableLoop
      <3> QED BY <2>2, <3>1, <3>2, EachStepIs
    <2> QED BY <2>1, <2>2
  <1>6. f[8] = run[8]
    <2>1. 8 \in Nat /\ 8 \in 0 .. 8
      OBVIOUS
    <2> QED BY <1>2, <1>5, <2>1, LoopIsRun
  <1> QED BY <1>2, <1>4, <1>6

\* A byte's entry is a word.
LEMMA TableType ==
    ASSUME NEW byte \in Byte
    PROVE  LookupTable[byte] \in Word
  <1>1. byte \in Word /\ {} \in Bits /\ 8 \in Nat /\ byte \in Bits
    BY WordIsBits DEF Bits
  <1>2. CASE byte = {}
    <2>1. ShiftLeft({}, 8) = {} /\ ShiftLeft({}, 8 - 8) = {}
      BY DEF ShiftLeft
    <2>2. After(ShiftLeft({}, 8), 8) = ShiftLeft({}, 8 - 8)
      <3>1. 8 <= 8
        OBVIOUS
      <3> QED BY <1>1, <3>1, AfterShifts
    <2>3. LookupTable[byte] = {}
      BY <1>2, <2>1, <2>2, TableIs
    <2> QED BY <2>3 DEF Word
  <1>3. CASE byte # {}
    BY <1>1, <1>3, TableIs, AfterNotZero
  <1> QED BY <1>2, <1>3

\* Eight steps, for any set of bits: its lowest eight through the table, the others
\* shifted.
LEMMA AfterEight ==
    ASSUME NEW w \in Bits
    PROVE  /\ w \cap (0 .. 7) \in Byte
           /\ After(w, 8) = Xor(ShiftRight(w, 8), LookupTable[w \cap (0 .. 7)])
  <1> DEFINE low == w \cap (0 .. 7)
             right == ShiftRight(w, 8)
             high == ShiftLeft(right, 8)
  <1>0. 8 \in Nat
    OBVIOUS
  <1>1. low \in Byte /\ low \in Bits
    BY DEF Byte, Bits
  <1>2. /\ right \in Bits
        /\ \A k \in Nat : k \in right <=> k + 8 \in w
    BY <1>0, ShiftRightIs
  <1> HIDE DEF right
  <1>3. /\ high \in Bits
        /\ \A k \in Nat : k \in high <=> k >= 8 /\ k - 8 \in right
    BY <1>0, <1>2, ShiftLeftIs
  <1> HIDE DEF high
  <1>4. w = Xor(high, low)
    <2>1. ASSUME NEW k \in Nat PROVE k \in w <=> k \in Xor(high, low)
      <3>1. k \in Xor(high, low) <=> ~ (k \in high <=> k \in low)
        BY XorIs
      <3>2. CASE k >= 8
        <4>1. k - 8 \in Nat /\ (k - 8) + 8 = k /\ k \notin low
          BY <3>2
        <4> QED BY <1>2, <1>3, <3>1, <3>2, <4>1
      <3>3. CASE ~ k >= 8
        <4>1. k \in 0 .. 7 /\ k \notin high
          BY <1>3, <3>3
        <4> QED BY <3>1, <4>1
      <3> QED BY <3>2, <3>3
    <2>2. Xor(high, low) \in Bits
      BY <1>1, <1>3, XorType
    <2> HIDE DEF low
    <2> QED BY <2>1, <2>2, SameBits
  <1>5. After(high, 8) = right
    <2>1. 8 <= 8 /\ 8 - 8 = 0
      OBVIOUS
    <2> QED BY <1>0, <1>2, <2>1, AfterShifts, ShiftLeftNone DEF high
  <1> HIDE DEF low
  <1>6. After(Xor(high, low), 8) = Xor(After(high, 8), After(low, 8))
    BY <1>0, <1>1, <1>3, AfterLinear
  <1>7. After(low, 8) = LookupTable[low]
    BY <1>1, TableIs
  <1>8. After(w, 8) = Xor(right, LookupTable[low])
    BY <1>4, <1>5, <1>6, <1>7
  <1> QED BY <1>1, <1>8 DEF low, right

-----------------------------------------------------------------------------
(***************************************************************************)
(* The register: the loop of ComputeCrc32, byte by byte, does what the     *)
(* steps do with all the bits of the message at once.                      *)
(***************************************************************************)

\* The bits of a message, in the order in which they are sent.
Stream(bytes) == {k \in 0 .. 8 * Len(bytes) - 1 : k % 8 \in bytes[k \div 8 + 1]}

\* It is a set of bits.
LEMMA StreamType ==
    ASSUME NEW bytes \in Seq(Byte)
    PROVE  Stream(bytes) \in Bits
  BY DEF Stream, Bits

\* Shifting is linear, and shifts add up.
LEMMA ShiftRightLinear ==
    ASSUME NEW a \in Bits, NEW b \in Bits, NEW n \in Nat
    PROVE  ShiftRight(Xor(a, b), n) = Xor(ShiftRight(a, n), ShiftRight(b, n))
  <1>1. Xor(a, b) \in Bits /\ ShiftRight(a, n) \in Bits /\ ShiftRight(b, n) \in Bits
    BY XorType, ShiftRightIs
  <1>2. ShiftRight(Xor(a, b), n) \in Bits /\ Xor(ShiftRight(a, n), ShiftRight(b, n)) \in Bits
    BY <1>1, XorType, ShiftRightIs
  <1>3. ASSUME NEW k \in Nat
        PROVE  k \in ShiftRight(Xor(a, b), n) <=> k \in Xor(ShiftRight(a, n), ShiftRight(b, n))
    <2>1. /\ k \in ShiftRight(Xor(a, b), n) <=> k + n \in Xor(a, b)
          /\ k \in ShiftRight(a, n) <=> k + n \in a
          /\ k \in ShiftRight(b, n) <=> k + n \in b
      BY <1>1, ShiftRightIs
    <2>2. /\ k + n \in Xor(a, b) <=> ~ (k + n \in a <=> k + n \in b)
          /\ k \in Xor(ShiftRight(a, n), ShiftRight(b, n)) <=>
                ~ (k \in ShiftRight(a, n) <=> k \in ShiftRight(b, n))
      BY XorIs
    <2> QED BY <2>1, <2>2
  <1> QED BY <1>2, <1>3, SameBits

\* Two shifts are one by the sum.
LEMMA ShiftRightAgain ==
    ASSUME NEW w \in Bits, NEW m \in Nat, NEW n \in Nat
    PROVE  ShiftRight(ShiftRight(w, m), n) = ShiftRight(w, m + n)
  <1>1. ShiftRight(w, m) \in Bits /\ m + n \in Nat
    BY ShiftRightIs
  <1>2. ShiftRight(ShiftRight(w, m), n) \in Bits /\ ShiftRight(w, m + n) \in Bits
    BY <1>1, ShiftRightIs
  <1>3. ASSUME NEW k \in Nat
        PROVE  k \in ShiftRight(ShiftRight(w, m), n) <=> k \in ShiftRight(w, m + n)
    <2>1. k + n \in Nat /\ (k + n) + m = k + (m + n)
      OBVIOUS
    <2>2. k \in ShiftRight(ShiftRight(w, m), n) <=> k + n \in ShiftRight(w, m)
      BY <1>1, ShiftRightIs
    <2>3. k + n \in ShiftRight(w, m) <=> (k + n) + m \in w
      BY <2>1, ShiftRightIs
    <2>4. k \in ShiftRight(w, m + n) <=> k + (m + n) \in w
      BY <1>1, ShiftRightIs
    <2> QED BY <2>1, <2>2, <2>3, <2>4
  <1> QED BY <1>2, <1>3, SameBits

\* No places, no shift.
LEMMA ShiftRightNone ==
    ASSUME NEW w \in Bits
    PROVE  ShiftRight(w, 0) = w
  <1>1. /\ ShiftRight(w, 0) \in Bits
        /\ \A k \in Nat : k \in ShiftRight(w, 0) <=> k + 0 \in w
    BY ShiftRightIs
  <1>2. \A k \in Nat : k + 0 = k
    OBVIOUS
  <1> QED BY <1>1, <1>2, SameBits

\* A turn of the loop makes a word.
LEMMA ByteStepType ==
    ASSUME NEW w \in Word, NEW byte \in Byte
    PROVE  ByteStep(w, byte) \in Word
  <1>1. ShiftRight(w, 8) \in Word
    BY DEF ShiftRight, Word
  <1>2. Xor(w, byte) \cap (0 .. 7) \in Byte
    BY DEF Byte
  <1> QED BY <1>1, <1>2, TableType, XorType DEF ByteStep

\* A turn takes the first eight bits of what is still to come.
LEMMA ByteStepIs ==
    ASSUME NEW w \in Word, NEW byte \in Byte, NEW rest \in Bits, rest \cap (0 .. 7) = byte
    PROVE  After(Xor(w, rest), 8) = Xor(ByteStep(w, byte), ShiftRight(rest, 8))
  <1> DEFINE entry == LookupTable[Xor(w, byte) \cap (0 .. 7)]
             right == ShiftRight(w, 8)
             further == ShiftRight(rest, 8)
  <1>1. w \in Bits /\ Xor(w, rest) \in Bits /\ 8 \in Nat
    BY WordIsBits, XorType
  <1>2. Xor(w, rest) \cap (0 .. 7) = Xor(w, byte) \cap (0 .. 7)
    BY DEF Xor
  <1>3. After(Xor(w, rest), 8) = Xor(ShiftRight(Xor(w, rest), 8), entry)
    BY <1>1, <1>2, AfterEight
  <1>4. ShiftRight(Xor(w, rest), 8) = Xor(right, further)
    BY <1>1, ShiftRightLinear
  <1>5. ByteStep(w, byte) = Xor(right, entry)
    BY DEF ByteStep
  <1> HIDE DEF entry, right, further
  <1>6. Xor(Xor(right, further), entry) = Xor(Xor(right, entry), further)
    BY DEF Xor
  <1> QED BY <1>3, <1>4, <1>5, <1>6 DEF further

\* The loop of ComputeCrc32.
CrcLoop(f, bytes) ==
    f = [turn \in 0 .. Len(bytes) |->
            IF turn = 0 THEN AllOnes ELSE ByteStep(f[turn - 1], bytes[turn])]

\* The CRC is the last value of the loop, inverted.
LEMMA CrcDef ==
    ASSUME NEW bytes
    PROVE  ComputeCrc32(bytes) = Xor((CHOOSE f : CrcLoop(f, bytes))[Len(bytes)], AllOnes)
  BY DEF ComputeCrc32, CrcLoop

\* What it does turn by turn.
EachByte(bytes) ==
    [i \in Nat |-> [w \in Word |-> IF i \in 1 .. Len(bytes) THEN ByteStep(w, bytes[i]) ELSE w]]

\* It is one turn of the code's loop.
LEMMA EachByteIs ==
    ASSUME NEW bytes \in Seq(Byte)
    PROVE  /\ EachByte(bytes) \in [Nat -> [Word -> Word]]
           /\ \A i \in 1 .. Len(bytes), w \in Word :
                    EachByte(bytes)[i][w] = ByteStep(w, bytes[i])
  <1>1. ASSUME NEW i \in Nat, NEW w \in Word
        PROVE  (IF i \in 1 .. Len(bytes) THEN ByteStep(w, bytes[i]) ELSE w) \in Word
    BY ByteStepType
  <1>2. \A i \in 1 .. Len(bytes) : i \in Nat
    OBVIOUS
  <1> QED BY <1>1, <1>2 DEF EachByte

\* What the register starts with is a word.
LEMMA AllOnesType == AllOnes \in Word /\ AllOnes \in Bits
  BY DEF AllOnes, Word, Bits

\* The run the CRC is taken from.
LEMMA CrcIs ==
    ASSUME NEW bytes \in Seq(Byte)
    PROVE  \E run \in Runs(Word, AllOnes, EachByte(bytes), Len(bytes)) :
               ComputeCrc32(bytes) = Xor(run[Len(bytes)], AllOnes)
  <1> DEFINE n == Len(bytes)
             step == EachByte(bytes)
  <1>1. n \in Nat
    OBVIOUS
  <1>2. /\ step \in [Nat -> [Word -> Word]]
        /\ \A i \in 1 .. n, w \in Word : step[i][w] = ByteStep(w, bytes[i])
    BY EachByteIs
  <1> HIDE DEF step
  <1>3. PICK run : run \in Runs(Word, AllOnes, step, n)
    BY <1>1, <1>2, AllOnesType, RunExists
  <1>4. CrcLoop(run, bytes)
    <2>1. /\ run \in [0 .. n -> Word] /\ run[0] = AllOnes
          /\ \A i \in 1 .. n : run[i] = step[i][run[i - 1]]
      BY <1>3 DEF Runs
    <2>2. ASSUME NEW turn \in 0 .. n
          PROVE  run[turn] = IF turn = 0 THEN AllOnes ELSE ByteStep(run[turn - 1], bytes[turn])
      <3>1. CASE turn = 0
        BY <2>1, <3>1
      <3>2. CASE turn # 0
        <4>1. turn \in 1 .. n /\ turn - 1 \in 0 .. n
          BY <1>1, <3>2
        <4>2. run[turn] = step[turn][run[turn - 1]] /\ run[turn - 1] \in Word
          BY <2>1, <4>1
        <4> QED BY <1>2, <3>2, <4>1, <4>2
      <3> QED BY <3>1, <3>2
    <2>3. run = [turn \in 0 .. n |-> run[turn]]
      BY <2>1
    <2> QED BY <2>2, <2>3, Zenon DEF CrcLoop
  <1>5. PICK f : CrcLoop(f, bytes) /\ ComputeCrc32(bytes) = Xor(f[n], AllOnes)
    BY <1>4, CrcDef, Zenon
  <1>6. /\ f[0] = AllOnes
        /\ \A i \in 1 .. n : f[i - 1] \in Word => f[i] = step[i][f[i - 1]]
    <2>1. 0 \in 0 .. n
      BY <1>1
    <2>2. f[0] = AllOnes
      BY <1>5, <2>1, Zenon DEF CrcLoop
    <2>3. ASSUME NEW i \in 1 .. n, f[i - 1] \in Word PROVE f[i] = step[i][f[i - 1]]
      <3>1. i \in 0 .. n /\ i # 0
        BY <1>1
      <3>2. f[i] = ByteStep(f[i - 1], bytes[i])
        BY <1>5, <3>1, Zenon DEF CrcLoop
      <3> QED BY <1>2, <2>3, <3>2
    <2> QED BY <2>2, <2>3
  <1>7. f[n] = run[n]
    <2>1. n \in 0 .. n
      BY <1>1
    <2> HIDE DEF n
    <2> QED BY <1>1, <1>3, <1>6, <2>1, LoopIsRun
  <1> QED BY <1>3, <1>5, <1>7 DEF step

\* The byte that comes next, in the bits still to come.
LEMMA NextByte ==
    ASSUME NEW bytes \in Seq(Byte), NEW i \in Nat, i < Len(bytes)
    PROVE  ShiftRight(Stream(bytes), 8 * i) \cap (0 .. 7) = bytes[i + 1]
  <1> DEFINE rest == ShiftRight(Stream(bytes), 8 * i)
  <1>1. 8 * i \in Nat /\ Len(bytes) \in Nat
    OBVIOUS
  <1>2. \A k \in Nat : k \in rest <=> k + 8 * i \in Stream(bytes)
    BY <1>1, StreamType, ShiftRightIs
  <1>3. bytes[i + 1] \in Byte
    OBVIOUS
  <1> HIDE DEF rest
  <1>4. ASSUME NEW k \in 0 .. 7 PROVE k \in rest <=> k \in bytes[i + 1]
    <2> DEFINE j == k + 8 * i
    <2>1. j \in 0 .. 8 * Len(bytes) - 1 /\ j % 8 = k /\ j \div 8 = i
      OBVIOUS
    <2> HIDE DEF j
    <2>2. j \in Stream(bytes) <=> k \in bytes[i + 1]
      BY <2>1 DEF Stream
    <2> QED BY <1>2, <2>2 DEF j
  <1>5. rest \cap (0 .. 7) = bytes[i + 1]
    BY <1>3, <1>4 DEF Byte
  <1> QED BY <1>5 DEF rest

\* After each turn the register and what is still to come are the message after
\* eight times as many steps.
LEMMA TurnByTurn ==
    ASSUME NEW bytes \in Seq(Byte),
           NEW run \in Runs(Word, AllOnes, EachByte(bytes), Len(bytes))
    PROVE  \A i \in Nat : i <= Len(bytes) =>
               After(Xor(AllOnes, Stream(bytes)), 8 * i) =
                   Xor(run[i], ShiftRight(Stream(bytes), 8 * i))
  <1> DEFINE n == Len(bytes)
             stream == Stream(bytes)
             all == Xor(AllOnes, stream)
             Good == {i \in Nat : i <= n => After(all, 8 * i) = Xor(run[i], ShiftRight(stream, 8 * i))}
  <1>0. n \in Nat /\ stream \in Bits /\ all \in Bits
    BY StreamType, AllOnesType, XorType
  <1>1. /\ run \in [0 .. n -> Word] /\ run[0] = AllOnes
        /\ \A i \in 1 .. n : run[i] = EachByte(bytes)[i][run[i - 1]]
    BY DEF Runs
  <1>2. 0 \in Good
    <2>1. 8 * 0 = 0
      OBVIOUS
    <2>2. After(all, 0) = all /\ ShiftRight(stream, 0) = stream
      BY <1>0, AfterNone, ShiftRightNone
    <2> HIDE DEF stream
    <2> QED BY <1>1, <2>1, <2>2
  <1>3. ASSUME NEW i \in Nat, i \in Good PROVE i + 1 \in Good
    <2> SUFFICES ASSUME i + 1 <= n
                 PROVE  After(all, 8 * (i + 1)) = Xor(run[i + 1], ShiftRight(stream, 8 * (i + 1)))
      OBVIOUS
    <2>1. /\ i < n /\ i \in 0 .. n /\ i + 1 \in 1 .. n /\ (i + 1) - 1 = i
          /\ 8 * i \in Nat /\ 8 \in Nat /\ 8 * (i + 1) = 8 * i + 8
      BY <1>0
    <2>2. run[i] \in Word /\ bytes[i + 1] \in Byte
      BY <1>1, <2>1
    <2>3. run[i + 1] = ByteStep(run[i], bytes[i + 1])
      <3>1. run[i + 1] = EachByte(bytes)[i + 1][run[i]]
        BY <1>1, <2>1
      <3>2. EachByte(bytes)[i + 1][run[i]] = ByteStep(run[i], bytes[i + 1])
        BY <2>1, <2>2, EachByteIs
      <3> QED BY <3>1, <3>2
    <2> DEFINE rest == ShiftRight(stream, 8 * i)
    <2>4. rest \in Bits /\ rest \cap (0 .. 7) = bytes[i + 1]
      BY <1>0, <2>1, ShiftRightIs, NextByte
    <2>5. After(all, 8 * i) = Xor(run[i], rest)
      BY <1>3, <2>1
    <2> HIDE DEF n, stream, all
    <2>6. After(all, 8 * i + 8) = After(After(all, 8 * i), 8)
      BY <1>0, <2>1, AfterAfter
    <2>7. ShiftRight(rest, 8) = ShiftRight(stream, 8 * i + 8)
      BY <1>0, <2>1, ShiftRightAgain
    <2> HIDE DEF rest
    <2>8. After(Xor(run[i], rest), 8) = Xor(ByteStep(run[i], bytes[i + 1]), ShiftRight(rest, 8))
      BY <2>2, <2>4, ByteStepIs
    <2> QED BY <2>1, <2>3, <2>5, <2>6, <2>7, <2>8
  <1>4. Nat \subseteq Good
    <2> HIDE DEF Good
    <2> QED BY <1>2, <1>3, Induction
  <1> QED BY <1>4

\* The register after a message: as many steps as it has bits.
Register(bytes) == After(Xor(AllOnes, Stream(bytes)), 8 * Len(bytes))

\* ComputeCrc32, without its table: the message is taken bit by bit
\* (src/frame_transport.cpp, generateCrc32LookupTable and ComputeCrc32).
THEOREM TableLoopIsBitwise ==
    ASSUME NEW bytes \in Seq(Byte)
    PROVE  Register(bytes) \in Word /\ ComputeCrc32(bytes) = Xor(Register(bytes), AllOnes)
  <1> DEFINE n == Len(bytes)
  <1>1. n \in Nat /\ n <= n /\ n \in 0 .. n /\ 8 * n \in Nat
    OBVIOUS
  <1>2. PICK run \in Runs(Word, AllOnes, EachByte(bytes), n) :
                 ComputeCrc32(bytes) = Xor(run[n], AllOnes)
    BY CrcIs
  <1>3. Register(bytes) = Xor(run[n], ShiftRight(Stream(bytes), 8 * n))
    BY <1>1, <1>2, TurnByTurn DEF Register
  <1>4. run[n] \in Word
    BY <1>1, <1>2 DEF Runs
  <1>5. ShiftRight(Stream(bytes), 8 * n) = {}
    <2>1. /\ ShiftRight(Stream(bytes), 8 * n) \in Bits
          /\ \A k \in Nat : k \in ShiftRight(Stream(bytes), 8 * n) <=> k + 8 * n \in Stream(bytes)
      BY <1>1, StreamType, ShiftRightIs
    <2>2. \A k \in Nat : k + 8 * n \notin Stream(bytes)
      BY <1>1 DEF Stream
    <2> QED BY <2>1, <2>2 DEF Bits
  <1>6. Xor(run[n], {}) = run[n]
    BY DEF Xor
  <1> QED BY <1>2, <1>3, <1>4, <1>5, <1>6

-----------------------------------------------------------------------------
(***************************************************************************)
(* What the check value does behind the message it was computed of.        *)
(***************************************************************************)

\* The bits of a message with its CRC behind it, the lowest first.
Framed(bytes) == Xor(Stream(bytes), ShiftLeft(ComputeCrc32(bytes), 8 * Len(bytes)))

\* Both are sets of bits, the CRC one of 32.
LEMMA FramedType ==
    ASSUME NEW bytes \in Seq(Byte)
    PROVE  Framed(bytes) \in Bits /\ ComputeCrc32(bytes) \in Word
  <1>1. ComputeCrc32(bytes) \in Word /\ ComputeCrc32(bytes) \in Bits
    BY TableLoopIsBitwise, AllOnesType, XorType, WordIsBits
  <1>2. ShiftLeft(ComputeCrc32(bytes), 8 * Len(bytes)) \in Bits
    <2>1. 8 * Len(bytes) \in Nat
      OBVIOUS
    <2> QED BY <1>1, <2>1, ShiftLeftIs
  <1> QED BY <1>1, <1>2, StreamType, XorType DEF Framed

\* It brings the register to the same value whatever the message.
LEMMA Residue ==
    ASSUME NEW bytes \in Seq(Byte)
    PROVE  After(Xor(AllOnes, Framed(bytes)), 8 * Len(bytes)) = AllOnes
  <1> DEFINE n == 8 * Len(bytes)
             register == Register(bytes)
             crc == ComputeCrc32(bytes)
             start == Xor(AllOnes, Stream(bytes))
  <1>1. n \in Nat /\ n <= n /\ n - n = 0
    OBVIOUS
  <1>2. register \in Word /\ crc = Xor(register, AllOnes) /\ crc \in Bits /\ start \in Bits
    BY TableLoopIsBitwise, FramedType, WordIsBits, StreamType, AllOnesType, XorType
  <1>3. register = After(start, n)
    BY DEF Register
  <1>4. Framed(bytes) = Xor(Stream(bytes), ShiftLeft(crc, n))
    BY DEF Framed
  <1>5. Xor(AllOnes, Framed(bytes)) = Xor(start, ShiftLeft(crc, n))
    <2>1. \A a, b, c : Xor(a, Xor(b, c)) = Xor(Xor(a, b), c)
      BY DEF Xor
    <2> QED BY <1>4, <2>1
  <1> HIDE DEF n, register, crc, start
  <1>6. ShiftLeft(crc, n) \in Bits /\ After(ShiftLeft(crc, n), n) = crc
    BY <1>1, <1>2, ShiftLeftIs, AfterShifts, ShiftLeftNone
  <1>7. After(Xor(start, ShiftLeft(crc, n)), n) = Xor(register, crc)
    BY <1>1, <1>2, <1>3, <1>6, AfterLinear
  <1>8. Xor(register, crc) = AllOnes
    BY <1>2 DEF Xor
  <1> QED BY <1>5, <1>7, <1>8 DEF n

\* Two messages of a length, each with its own CRC behind it, never differ by a
\* single burst of up to 32 bits, wherever it is, in the CRC included: the check of
\* HandleIncoming (src/frame_transport.cpp) finds every such error.
THEOREM BurstsShow ==
    ASSUME NEW a \in Seq(Byte), NEW b \in Seq(Byte), Len(a) = Len(b),
           NEW shape \in Word, shape # {}, NEW start \in Nat
    PROVE  Xor(Framed(a), Framed(b)) # ShiftLeft(shape, start)
  <1> SUFFICES ASSUME Xor(Framed(a), Framed(b)) = ShiftLeft(shape, start)
               PROVE  FALSE
    OBVIOUS
  <1> DEFINE n == 8 * Len(a)
             first == Xor(AllOnes, Framed(a))
             second == Xor(AllOnes, Framed(b))
  <1>1. n \in Nat
    OBVIOUS
  <1>2. first \in Bits /\ second \in Bits
    BY FramedType, AllOnesType, XorType
  <1>3. After(first, n) = AllOnes /\ After(second, n) = AllOnes
    BY Residue
  <1>4. Xor(first, second) = ShiftLeft(shape, start)
    <2>1. \A c, d, e : Xor(Xor(c, d), Xor(c, e)) = Xor(d, e)
      BY DEF Xor
    <2> QED BY <2>1
  <1> HIDE DEF n, first, second
  <1>5. After(Xor(first, second), n) = Xor(AllOnes, AllOnes)
    BY <1>1, <1>2, <1>3, AfterLinear
  <1>6. Xor(AllOnes, AllOnes) = {}
    BY DEF Xor
  <1> QED BY <1>1, <1>4, <1>5, <1>6, BurstRemains

-----------------------------------------------------------------------------
(***************************************************************************)
(* CRC-32 by its definition: a division of polynomials, whose exponents    *)
(* run the other way.                                                      *)
(***************************************************************************)

\* The generator is the polynomial of the table, mirrored, and x^32.
LEMMA GeneratorIs ==
    /\ Generator \in Bits /\ 32 \in Generator
    /\ \A g \in Generator : g <= 32
    /\ \A k \in Nat : 31 - k \in Generator <=> k \in PolynomialReversed
  BY DEF Generator, PolynomialReversed, Bits

\* A step of the division.
LEMMA DivisionStepIs ==
    ASSUME NEW p \in Bits, NEW s \in Nat
    PROVE  /\ DivisionStep(p, s + 32) \in Bits
           /\ \A e \in Nat : e \in DivisionStep(p, s + 32) <=>
                  ~ (e \in p <=> s + 32 \in p /\ e >= s /\ e - s \in Generator)
  <1>1. (s + 32) - 32 = s
    OBVIOUS
  <1>2. /\ ShiftLeft(Generator, s) \in Bits
        /\ \A e \in Nat : e \in ShiftLeft(Generator, s) <=> e >= s /\ e - s \in Generator
    BY GeneratorIs, ShiftLeftIs
  <1>3. CASE s + 32 \in p
    <2>1. DivisionStep(p, s + 32) = Xor(p, ShiftLeft(Generator, s))
      BY <1>1, <1>3 DEF DivisionStep
    <2>2. Xor(p, ShiftLeft(Generator, s)) \in Bits
      BY <1>2, XorType
    <2>3. \A e : e \in Xor(p, ShiftLeft(Generator, s)) <=>
                     ~ (e \in p <=> e \in ShiftLeft(Generator, s))
      BY XorIs
    <2> QED BY <1>2, <1>3, <2>1, <2>2, <2>3, Zenon
  <1>4. CASE s + 32 \notin p
    BY <1>4, Zenon DEF DivisionStep
  <1> QED BY <1>3, <1>4

\* The loop of the division, and what it does turn by turn.
DivisionLoop(f, p, length) ==
    f = [d \in 0 .. length - 32 |-> IF d = 0 THEN p ELSE DivisionStep(f[d - 1], length - d)]

EachDegree(n) ==
    [d \in Nat |-> [p \in Bits |-> IF d \in 1 .. n THEN DivisionStep(p, (n + 32) - d) ELSE p]]

\* It is one turn of the division's loop.
LEMMA EachDegreeIs ==
    ASSUME NEW n \in Nat
    PROVE  /\ EachDegree(n) \in [Nat -> [Bits -> Bits]]
           /\ \A d \in 1 .. n, p \in Bits : EachDegree(n)[d][p] = DivisionStep(p, (n + 32) - d)
  <1>1. ASSUME NEW d \in Nat, NEW p \in Bits
        PROVE  (IF d \in 1 .. n THEN DivisionStep(p, (n + 32) - d) ELSE p) \in Bits
    <2>1. CASE d \in 1 .. n
      <3>1. PICK s \in Nat : s = n - d
        BY <2>1
      <3>2. (n + 32) - d = s + 32
        BY <3>1
      <3> QED BY <3>2, DivisionStepIs
    <2> QED BY <2>1
  <1>2. \A d \in 1 .. n : d \in Nat
    OBVIOUS
  <1> QED BY <1>1, <1>2 DEF EachDegree

\* The remainder is the last value of the loop.
LEMMA RemainderDef ==
    ASSUME NEW p, NEW length
    PROVE  Remainder(p, length) = (CHOOSE f : DivisionLoop(f, p, length))[length - 32]
  BY DEF Remainder, DivisionLoop

\* The run a remainder is taken from.
LEMMA RemainderIs ==
    ASSUME NEW p \in Bits, NEW n \in Nat
    PROVE  \E run \in Runs(Bits, p, EachDegree(n), n) : Remainder(p, n + 32) = run[n]
  <1> DEFINE step == EachDegree(n)
             length == n + 32
  <1>1. /\ step \in [Nat -> [Bits -> Bits]]
        /\ \A d \in 1 .. n, q \in Bits : step[d][q] = DivisionStep(q, length - d)
    BY EachDegreeIs
  <1>2. length - 32 = n
    OBVIOUS
  <1> HIDE DEF step, length
  <1>3. PICK run : run \in Runs(Bits, p, step, n)
    BY <1>1, RunExists
  <1>4. DivisionLoop(run, p, length)
    <2>1. /\ run \in [0 .. n -> Bits] /\ run[0] = p
          /\ \A i \in 1 .. n : run[i] = step[i][run[i - 1]]
      BY <1>3 DEF Runs
    <2>2. ASSUME NEW d \in 0 .. n
          PROVE  run[d] = IF d = 0 THEN p ELSE DivisionStep(run[d - 1], length - d)
      <3>1. CASE d = 0
        BY <2>1, <3>1
      <3>2. CASE d # 0
        <4>1. d \in 1 .. n /\ d - 1 \in 0 .. n
          BY <3>2
        <4>2. run[d] = step[d][run[d - 1]] /\ run[d - 1] \in Bits
          BY <2>1, <4>1
        <4> QED BY <1>1, <3>2, <4>1, <4>2
      <3> QED BY <3>1, <3>2
    <2>3. run = [d \in 0 .. n |-> run[d]]
      BY <2>1
    <2> QED BY <1>2, <2>2, <2>3, Zenon DEF DivisionLoop
  <1>5. PICK f : DivisionLoop(f, p, length) /\ Remainder(p, length) = f[n]
    BY <1>2, <1>4, RemainderDef, Zenon
  <1>6. /\ f[0] = p
        /\ \A i \in 1 .. n : f[i - 1] \in Bits => f[i] = step[i][f[i - 1]]
    <2>1. 0 \in 0 .. n
      OBVIOUS
    <2>2. f[0] = p
      BY <1>2, <1>5, <2>1, Zenon DEF DivisionLoop
    <2>3. ASSUME NEW i \in 1 .. n, f[i - 1] \in Bits PROVE f[i] = step[i][f[i - 1]]
      <3>1. i \in 0 .. n /\ i # 0
        OBVIOUS
      <3>2. f[i] = DivisionStep(f[i - 1], length - i)
        BY <1>2, <1>5, <3>1, Zenon DEF DivisionLoop
      <3> QED BY <1>1, <2>3, <3>2
    <2> QED BY <2>2, <2>3
  <1>7. f[n] = run[n]
    <2>1. n \in 0 .. n
      OBVIOUS
    <2> QED BY <1>3, <1>6, <2>1, LoopIsRun
  <1> QED BY <1>3, <1>5, <1>7 DEF step, length

\* The exponents of p are those of a degree at most m, counted down, of b.
Mirrors(p, b, m) == \A e \in Nat : e \in p <=> e <= m /\ m - e \in b

\* A step of the division of one is a step of the register of the other.
LEMMA DivisionMirrors ==
    ASSUME NEW p \in Bits, NEW b \in Bits, NEW s \in Nat, Mirrors(p, b, s + 32)
    PROVE  Mirrors(DivisionStep(p, s + 32), BitStep(b), s + 31)
  <1> SUFFICES ASSUME NEW e \in Nat
               PROVE  e \in DivisionStep(p, s + 32) <=>
                          e <= s + 31 /\ (s + 31) - e \in BitStep(b)
    BY DEF Mirrors
  <1>1. e \in DivisionStep(p, s + 32) <=>
            ~ (e \in p <=> s + 32 \in p /\ e >= s /\ e - s \in Generator)
    BY DivisionStepIs
  <1>2. s + 32 \in p <=> 0 \in b
    <2>1. s + 32 \in Nat /\ s + 32 <= s + 32 /\ (s + 32) - (s + 32) = 0
      OBVIOUS
    <2> QED BY <2>1 DEF Mirrors
  <1>3. e \in p <=> e <= s + 32 /\ (s + 32) - e \in b
    BY DEF Mirrors
  <1>4. CASE e <= s + 31
    <2>1. PICK k \in Nat : k = (s + 31) - e
      BY <1>4
    <2>2. k \in BitStep(b) <=> ~ (k + 1 \in b <=> 0 \in b /\ k \in PolynomialReversed)
      BY BitStepIs
    <2>3. (s + 32) - e = k + 1 /\ e <= s + 32 /\ e - s = 31 - k
      BY <1>4, <2>1
    <2>4. 31 - k \in Generator <=> k \in PolynomialReversed
      BY GeneratorIs
    <2>5. k \in PolynomialReversed => e >= s
      <3>1. k \in PolynomialReversed => k <= 31
        BY PolynomialType DEF Word
      <3> QED BY <2>1, <3>1
    <2> QED BY <1>1, <1>2, <1>3, <1>4, <2>1, <2>2, <2>3, <2>4, <2>5
  <1>5. CASE e = s + 32
    <2>1. e <= s + 32 /\ (s + 32) - e = 0 /\ e >= s /\ e - s = 32 /\ ~ e <= s + 31
      BY <1>5
    <2> QED BY <1>1, <1>2, <1>3, <2>1, GeneratorIs
  <1>6. CASE e > s + 32
    <2>1. ~ e <= s + 32 /\ ~ e <= s + 31 /\ ~ e - s <= 32
      BY <1>6
    <2> QED BY <1>1, <1>3, <2>1, GeneratorIs
  <1> QED BY <1>4, <1>5, <1>6

\* The dividend mirrors the message and what the register starts with.
Dividend(bytes) ==
    Xor(ShiftLeft(Polynomial(bytes), 32), ShiftLeft(AllOnes, 8 * Len(bytes)))

\* A bit sent early has a high exponent.
LEMMA DividendMirrors ==
    ASSUME NEW bytes \in Seq(Byte)
    PROVE  /\ Dividend(bytes) \in Bits
           /\ Mirrors(Dividend(bytes), Xor(AllOnes, Stream(bytes)), 8 * Len(bytes) + 31)
  <1> DEFINE n == 8 * Len(bytes)
             polynomial == Polynomial(bytes)
             stream == Stream(bytes)
             high == ShiftLeft(polynomial, 32)
             ones == ShiftLeft(AllOnes, n)
  <1>0. n \in Nat /\ 32 \in Nat
    OBVIOUS
  <1>1. /\ polynomial \in Bits
        /\ \A k \in Nat : k \in polynomial <=> k <= n - 1 /\ (n - 1) - k \in stream
    <2>1. polynomial \in Bits
      BY <1>0 DEF Polynomial, Bits
    <2>2. ASSUME NEW k \in Nat
          PROVE  k \in polynomial <=> k <= n - 1 /\ (n - 1) - k \in stream
      <3>1. k \in polynomial <=>
                k \in 0 .. n - 1 /\ ((n - 1) - k) % 8 \in bytes[((n - 1) - k) \div 8 + 1]
        BY DEF Polynomial
      <3>2. k <= n - 1 => (n - 1) - k \in 0 .. n - 1
        BY <1>0
      <3>3. (n - 1) - k \in 0 .. n - 1 =>
                ((n - 1) - k \in stream <=>
                    ((n - 1) - k) % 8 \in bytes[((n - 1) - k) \div 8 + 1])
        BY DEF Stream
      <3> QED BY <1>0, <3>1, <3>2, <3>3
    <2> QED BY <2>1, <2>2
  <1>2. stream \in Bits
    BY StreamType
  <1> HIDE DEF n, polynomial, stream
  <1>3. /\ high \in Bits
        /\ \A e \in Nat : e \in high <=> e >= 32 /\ e - 32 \in polynomial
    BY <1>0, <1>1, ShiftLeftIs
  <1>4. /\ ones \in Bits
        /\ \A e \in Nat : e \in ones <=> e >= n /\ e - n \in AllOnes
    BY <1>0, AllOnesType, ShiftLeftIs
  <1> HIDE DEF high, ones
  <1>5. ASSUME NEW e \in Nat
        PROVE  e \in Xor(high, ones) <=> e <= n + 31 /\ (n + 31) - e \in Xor(AllOnes, stream)
    <2>1. e \in Xor(high, ones) <=> ~ (e \in high <=> e \in ones)
      BY XorIs
    <2>2. (n + 31) - e \in Xor(AllOnes, stream) <=>
              ~ ((n + 31) - e \in AllOnes <=> (n + 31) - e \in stream)
      BY XorIs
    <2>3. e \in ones <=> e <= n + 31 /\ (n + 31) - e \in AllOnes
      BY <1>0, <1>4 DEF AllOnes
    <2>4. e \in high <=> e <= n + 31 /\ (n + 31) - e \in stream
      <3>1. CASE e >= 32
        <4>1. PICK k \in Nat : k = e - 32
          BY <3>1
        <4>2. e \in high <=> k \in polynomial
          BY <1>3, <3>1, <4>1
        <4>3. k \in polynomial <=> k <= n - 1 /\ (n - 1) - k \in stream
          BY <1>1
        <4>4. (n - 1) - k = (n + 31) - e /\ (k <= n - 1 <=> e <= n + 31)
          BY <1>0, <4>1
        <4> QED BY <4>2, <4>3, <4>4
      <3>2. CASE ~ e >= 32
        <4>1. e \notin high
          BY <1>3, <3>2
        <4>2. ~ (n + 31) - e <= n - 1
          BY <1>0, <3>2
        <4>3. \A k \in stream : k <= n - 1
          BY DEF Stream, stream, n
        <4> QED BY <4>1, <4>2, <4>3
      <3> QED BY <3>1, <3>2
    <2> QED BY <2>1, <2>2, <2>3, <2>4
  <1>6. Dividend(bytes) = Xor(high, ones)
    BY DEF Dividend, high, ones, polynomial, n
  <1>7. Xor(high, ones) \in Bits
    BY <1>3, <1>4, XorType
  <1> QED BY <1>5, <1>6, <1>7 DEF Mirrors, n, stream

\* The remainder mirrors the register after the message.
LEMMA RemainderMirrors ==
    ASSUME NEW bytes \in Seq(Byte)
    PROVE  /\ Remainder(Dividend(bytes), 8 * Len(bytes) + 32) \in Bits
           /\ Mirrors(Remainder(Dividend(bytes), 8 * Len(bytes) + 32), Register(bytes), 31)
  <1>1. PICK n \in Nat : n = 8 * Len(bytes)
    OBVIOUS
  <1>2. PICK run \in Runs(Bits, Dividend(bytes), EachDegree(n), n) :
            Remainder(Dividend(bytes), n + 32) = run[n]
    BY DividendMirrors, RemainderIs
  <1>3. PICK all \in Bits : all = Xor(AllOnes, Stream(bytes))
    BY AllOnesType, StreamType, XorType
  <1>4. /\ run \in [0 .. n -> Bits] /\ run[0] = Dividend(bytes)
        /\ \A i \in 1 .. n : run[i] = EachDegree(n)[i][run[i - 1]]
    BY <1>2 DEF Runs
  <1> DEFINE Good == {d \in Nat : d <= n => Mirrors(run[d], After(all, d), (n + 31) - d)}
  <1>5. 0 \in Good
    <2>1. (n + 31) - 0 = n + 31
      OBVIOUS
    <2>2. After(all, 0) = all
      BY AfterNone
    <2>3. Mirrors(run[0], After(all, 0), (n + 31) - 0)
      BY <1>1, <1>3, <1>4, <2>1, <2>2, DividendMirrors
    <2> QED BY <2>3
  <1>6. ASSUME NEW d \in Nat, d \in Good PROVE d + 1 \in Good
    <2> SUFFICES ASSUME d + 1 <= n
                 PROVE  Mirrors(run[d + 1], After(all, d + 1), (n + 31) - (d + 1))
      OBVIOUS
    <2>1. PICK s \in Nat : s = n - (d + 1)
      OBVIOUS
    <2>2. /\ (n + 31) - d = s + 32 /\ (n + 32) - (d + 1) = s + 32
          /\ (n + 31) - (d + 1) = s + 31
          /\ d \in 0 .. n /\ d + 1 \in 1 .. n /\ (d + 1) - 1 = d
      BY <2>1
    <2>3. run[d] \in Bits /\ After(all, d) \in Bits
      BY <1>4, <2>2, AfterType
    <2>4. run[d + 1] = DivisionStep(run[d], s + 32)
      <3>1. run[d + 1] = EachDegree(n)[d + 1][run[d]]
        BY <1>4, <2>2
      <3>2. EachDegree(n)[d + 1][run[d]] = DivisionStep(run[d], (n + 32) - (d + 1))
        BY <2>2, <2>3, EachDegreeIs
      <3> QED BY <2>2, <3>1, <3>2
    <2>5. After(all, d + 1) = BitStep(After(all, d))
      BY AfterNext
    <2>6. Mirrors(run[d], After(all, d), s + 32)
      BY <1>6, <2>2
    <2>7. Mirrors(DivisionStep(run[d], s + 32), BitStep(After(all, d)), s + 31)
      BY <2>3, <2>6, DivisionMirrors
    <2> QED BY <2>2, <2>4, <2>5, <2>7
  <1>7. Nat \subseteq Good
    <2> HIDE DEF Good
    <2> QED BY <1>5, <1>6, Induction
  <1>8. Mirrors(run[n], After(all, n), 31)
    <2>1. n <= n /\ (n + 31) - n = 31
      OBVIOUS
    <2>2. Mirrors(run[n], After(all, n), (n + 31) - n)
      BY <1>7, <2>1
    <2> QED BY <2>1, <2>2
  <1>9. run[n] \in Bits
    <2>1. n \in 0 .. n
      OBVIOUS
    <2> QED BY <1>4, <2>1
  <1> QED BY <1>1, <1>2, <1>3, <1>8, <1>9 DEF Register

\* The CRC of the code is CRC-32, for every message.
THEOREM CodeIsStandard ==
    ASSUME NEW bytes \in Seq(Byte)
    PROVE  ComputeCrc32(bytes) = StandardCrc32(bytes)
  <1>1. PICK remainder \in Bits : remainder = Remainder(Dividend(bytes), 8 * Len(bytes) + 32)
    BY RemainderMirrors
  <1>2. Mirrors(remainder, Register(bytes), 31)
    BY <1>1, RemainderMirrors
  <1>3. StandardCrc32(bytes) = {31 - k : k \in Xor(remainder, AllOnes)}
    BY <1>1 DEF StandardCrc32, Dividend
  <1>4. Register(bytes) \in Word /\ ComputeCrc32(bytes) = Xor(Register(bytes), AllOnes)
    BY TableLoopIsBitwise
  <1>5. \A k \in 0 .. 31 : 31 - k \in remainder <=> k \in Register(bytes)
    <2> TAKE k \in 0 .. 31
    <2>1. 31 - k \in Nat /\ 31 - k <= 31 /\ 31 - (31 - k) = k
      OBVIOUS
    <2> QED BY <1>2, <2>1 DEF Mirrors
  <1>6. remainder \subseteq 0 .. 31
    BY <1>2 DEF Mirrors, Bits
  <1>7. ASSUME NEW k \in ComputeCrc32(bytes) PROVE k \in {31 - j : j \in Xor(remainder, AllOnes)}
    <2>1. k \in 0 .. 31 /\ k \notin Register(bytes)
      BY <1>4 DEF Xor, AllOnes, Word
    <2>2. 31 - k \in Xor(remainder, AllOnes)
      <3>1. 31 - k \notin remainder
        BY <1>5, <2>1
      <3>2. 31 - k \in AllOnes
        BY <2>1 DEF AllOnes
      <3> QED BY <3>1, <3>2, XorIs
    <2>3. k = 31 - (31 - k)
      BY <2>1
    <2> QED BY <2>2, <2>3, Zenon
  <1>8. ASSUME NEW j \in Xor(remainder, AllOnes) PROVE 31 - j \in ComputeCrc32(bytes)
    <2>1. j \in 0 .. 31 /\ j \notin remainder
      BY <1>6 DEF Xor, AllOnes
    <2>2. 31 - j \in 0 .. 31 /\ 31 - (31 - j) = j
      BY <2>1
    <2>3. 31 - j \notin Register(bytes)
      BY <1>5, <2>1, <2>2
    <2> QED BY <1>4, <2>2, <2>3 DEF Xor, AllOnes
  <1> QED BY <1>3, <1>7, <1>8

=============================================================================
