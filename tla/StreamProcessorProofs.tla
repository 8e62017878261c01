------------------------ MODULE StreamProcessorProofs ------------------------
(***************************************************************************)
(* What is proved of StreamProcessor, for all bytes, frames, noise, pieces *)
(* and payload sizes.                                                      *)
(***************************************************************************)
EXTENDS StreamProcessor, SequenceTheorems, FiniteSetTheorems, TLAPS

-----------------------------------------------------------------------------
(***************************************************************************)
(* Induction over the natural numbers, for a set: a set that holds 0 and   *)
(* with every number its successor holds them all.  If it did not, adding  *)
(* one would map its numbers below a missing one into themselves, without  *)
(* reaching 0: an injection of a finite set into itself that is not onto.  *)
(***************************************************************************)
LEMMA Induction ==
    ASSUME NEW S, 0 \in S, \A n \in Nat : n \in S => n + 1 \in S
    PROVE  Nat \subseteq S
  <1> SUFFICES ASSUME NEW n \in Nat, n \notin S PROVE FALSE
    OBVIOUS
  <1> DEFINE below == {k \in 0 .. n : k \in S}
             next == [k \in below |-> k + 1]
  <1>1. IsFiniteSet(below)
    <2>1. IsFiniteSet(0 .. n)
      BY FS_Interval
    <2>2. below \in SUBSET (0 .. n)
      OBVIOUS
    <2> HIDE DEF below
    <2> QED BY <2>1, <2>2, FS_Subset
  <1>2. next \in [below -> below]
    <2>1. ASSUME NEW k \in below PROVE k + 1 \in below
      <3>1. k \in Nat /\ k \in S /\ k <= n /\ k # n
        OBVIOUS
      <3> QED BY <3>1
    <2> QED BY <2>1
  <1>3. \A j, k \in below : next[j] = next[k] => j = k
    OBVIOUS
  <1>4. 0 \in below /\ \A k \in below : next[k] # 0
    OBVIOUS
  <1> HIDE DEF next, below
  <1>5. next \in Injection(below, below)
    BY <1>2, <1>3 DEF Injection, IsInjective
  <1>6. next \in Surjection(below, below)
    BY <1>1, <1>5, FS_Injection
  <1> QED BY <1>4, <1>6 DEF Surjection

\* The least of a set of natural numbers.
LEMMA MinIsLeast ==
    ASSUME NEW S \in SUBSET Nat, S # {}
    PROVE  Min(S) \in S /\ \A n \in S : Min(S) <= n
  <1>1. \E least \in S : \A n \in S : least <= n
    <2> SUFFICES ASSUME ~ \E least \in S : \A n \in S : least <= n
                 PROVE  FALSE
      OBVIOUS
    <2> DEFINE Lower == {n \in Nat : \A m \in S : n < m}
    <2>1. 0 \in Lower
      OBVIOUS
    <2>2. ASSUME NEW n \in Nat, n \in Lower PROVE n + 1 \in Lower
      <3>1. \A m \in S : n + 1 <= m
        BY <2>2
      <3>2. n + 1 \notin S
        BY <3>1
      <3> QED BY <3>1, <3>2
    <2>3. Nat \subseteq Lower
      <3> HIDE DEF Lower
      <3> QED BY <2>1, <2>2, Induction
    <2>4. PICK n \in S : n \in Lower
      <3> HIDE DEF Lower
      <3> QED BY <2>3
    <2> QED BY <2>4
  <1> QED BY <1>1 DEF Min

-----------------------------------------------------------------------------
(***************************************************************************)
(* Flattening a sequence of sequences.                                     *)
(***************************************************************************)

\* f[i] is the concatenation of the first i elements of ss, for i in 1 .. n.
Flattens(ss, n, f) ==
    f = [i \in 1 .. n |-> IF i = 1 THEN ss[i] ELSE f[i - 1] \o ss[i]]

\* FlattenSeq in these terms.
LEMMA FlattenDef ==
    ASSUME NEW ss, Len(ss) # 0
    PROVE  FlattenSeq(ss) = (CHOOSE f : Flattens(ss, Len(ss), f))[Len(ss)]
  BY DEF FlattenSeq, Flattens

\* There is such an f: each number's comes from its predecessor's.
LEMMA FlattensExists ==
    ASSUME NEW ss, NEW n \in Nat
    PROVE  \E f : Flattens(ss, n, f)
  <1> DEFINE Good == {m \in Nat : \E f : Flattens(ss, m, f)}
  <1>1. 0 \in Good
    <2>1. Flattens(ss, 0, [i \in 1 .. 0 |-> 0])
      BY DEF Flattens
    <2> QED BY <2>1
  <1>2. ASSUME NEW m \in Nat, m \in Good PROVE m + 1 \in Good
    <2>1. PICK f : Flattens(ss, m, f)
      BY <1>2
    <2> DEFINE g == [i \in 1 .. m + 1 |->
                        IF i <= m THEN f[i] ELSE IF i = 1 THEN ss[i] ELSE f[i - 1] \o ss[i]]
    <2>2. ASSUME NEW i \in 1 .. m + 1
          PROVE  g[i] = IF i = 1 THEN ss[i] ELSE g[i - 1] \o ss[i]
      <3>1. i # 1 => i - 1 \in 1 .. m /\ g[i - 1] = f[i - 1]
        OBVIOUS
      <3>2. CASE i <= m
        <4>1. i \in 1 .. m /\ g[i] = f[i]
          BY <3>2
        <4> HIDE DEF g
        <4>2. f[i] = IF i = 1 THEN ss[i] ELSE f[i - 1] \o ss[i]
          BY <2>1, <4>1 DEF Flattens
        <4> QED BY <3>1, <4>1, <4>2
      <3>3. CASE ~ i <= m
        <4>1. g[i] = IF i = 1 THEN ss[i] ELSE f[i - 1] \o ss[i]
          BY <3>3
        <4> HIDE DEF g
        <4> QED BY <3>1, <4>1
      <3> QED BY <3>2, <3>3
    <2>3. Flattens(ss, m + 1, g)
      <3>1. g = [i \in 1 .. m + 1 |-> g[i]]
        OBVIOUS
      <3> HIDE DEF g
      <3> QED BY <2>2, <3>1 DEF Flattens
    <2> QED BY <2>3
  <1>3. Nat \subseteq Good
    <2> HIDE DEF Good
    <2> QED BY <1>1, <1>2, Induction
  <1> QED BY <1>3

\* What such an f holds for 1.
LEMMA FlattensFirst ==
    ASSUME NEW ss, NEW n \in Nat, NEW f, Flattens(ss, n, f), n # 0
    PROVE  f[1] = ss[1]
  <1>1. 1 \in 1 .. n
    OBVIOUS
  <1> QED BY <1>1 DEF Flattens

\* And for every other number.
LEMMA FlattensStep ==
    ASSUME NEW ss, NEW n \in Nat, NEW f, Flattens(ss, n, f), NEW i \in 1 .. n, i < n
    PROVE  f[i + 1] = f[i] \o ss[i + 1]
  <1>1. i + 1 \in 1 .. n /\ i + 1 # 1 /\ (i + 1) - 1 = i
    OBVIOUS
  <1>2. f[i + 1] = IF i + 1 = 1 THEN ss[i + 1] ELSE f[(i + 1) - 1] \o ss[i + 1]
    BY <1>1 DEF Flattens
  <1> QED BY <1>1, <1>2

\* It holds sequences, if ss does.
LEMMA FlattensType ==
    ASSUME NEW S, NEW ss \in Seq(Seq(S)), NEW n \in 0 .. Len(ss), NEW f, Flattens(ss, n, f)
    PROVE  \A i \in 1 .. n : f[i] \in Seq(S)
  <1> DEFINE Good == {m \in Nat : m \in 1 .. n => f[m] \in Seq(S)}
  <1>0. n \in Nat /\ \A i \in 1 .. n : i < n => f[i + 1] = f[i] \o ss[i + 1]
    <2>1. n \in Nat
      OBVIOUS
    <2>2. \A i \in 1 .. n : i < n => f[i + 1] = f[i] \o ss[i + 1]
      BY <2>1, FlattensStep, Zenon
    <2> QED BY <2>1, <2>2
  <1>1. 0 \in Good
    OBVIOUS
  <1>2. ASSUME NEW m \in Nat, m \in Good PROVE m + 1 \in Good
    <2> SUFFICES ASSUME m + 1 \in 1 .. n PROVE f[m + 1] \in Seq(S)
      OBVIOUS
    <2>1. ss[m + 1] \in Seq(S)
      OBVIOUS
    <2>2. CASE m = 0
      <3>1. f[1] = ss[1]
        BY FlattensFirst
      <3> QED BY <2>1, <2>2, <3>1
    <2>3. CASE m # 0
      <3>1. m \in 1 .. n /\ m < n /\ f[m] \in Seq(S)
        BY <1>2, <2>3
      <3>2. f[m + 1] = f[m] \o ss[m + 1]
        BY <1>0, <3>1
      <3> QED BY <2>1, <3>1, <3>2
    <2> QED BY <2>2, <2>3
  <1>3. Nat \subseteq Good
    <2> HIDE DEF Good
    <2> QED BY <1>1, <1>2, Induction
  <1> QED BY <1>3

\* It depends on the elements it concatenates, and on nothing else.
Agree(s, t, n) == \A i \in 1 .. n : s[i] = t[i]

LEMMA FlattensSame ==
    ASSUME NEW ss, NEW tt, NEW n \in Nat, NEW f, NEW g,
           Flattens(ss, n, f), Flattens(tt, n + 1, g), Agree(ss, tt, n)
    PROVE  Agree(f, g, n)
  <1> DEFINE Good == {k \in Nat : k \in 1 .. n => f[k] = g[k]}
  <1>1. 0 \in Good
    OBVIOUS
  <1>2. ASSUME NEW k \in Nat, k \in Good PROVE k + 1 \in Good
    <2> SUFFICES ASSUME k + 1 \in 1 .. n PROVE f[k + 1] = g[k + 1]
      OBVIOUS
    <2>1. ss[k + 1] = tt[k + 1]
      BY DEF Agree
    <2>2. CASE k = 0
      <3>0. 1 \in 1 .. n /\ 1 \in 1 .. n + 1
        OBVIOUS
      <3>1. f[1] = ss[1]
        BY <3>0 DEF Flattens
      <3>2. g[1] = tt[1]
        BY <3>0 DEF Flattens
      <3> QED BY <2>1, <2>2, <3>1, <3>2
    <2>3. CASE k # 0
      <3>1. /\ k \in 1 .. n /\ k < n /\ f[k] = g[k]
            /\ n + 1 \in Nat /\ k \in 1 .. n + 1 /\ k < n + 1
        BY <1>2, <2>3
      <3>2. f[k + 1] = f[k] \o ss[k + 1] /\ g[k + 1] = g[k] \o tt[k + 1]
        BY <3>1, FlattensStep
      <3> QED BY <2>1, <3>1, <3>2
    <2> QED BY <2>2, <2>3
  <1>3. Nat \subseteq Good
    <2> HIDE DEF Good
    <2> QED BY <1>1, <1>2, Induction
  <1> QED BY <1>3 DEF Agree

\* What FlattenSeq takes its value from.
LEMMA FlattenIs ==
    ASSUME NEW ss, Len(ss) \in Nat \ {0}
    PROVE  \E f : Flattens(ss, Len(ss), f) /\ FlattenSeq(ss) = f[Len(ss)]
  <1> DEFINE f == CHOOSE f : Flattens(ss, Len(ss), f)
  <1>1. Flattens(ss, Len(ss), f)
    BY FlattensExists
  <1>2. FlattenSeq(ss) = f[Len(ss)]
    BY FlattenDef
  <1> QED BY <1>1, <1>2

\* Nothing, flattened, is nothing.
LEMMA FlattenEmpty == FlattenSeq(<<>>) = <<>>
  BY DEF FlattenSeq

\* What is flattened is a sequence.
LEMMA FlattenType ==
    ASSUME NEW S, NEW ss \in Seq(Seq(S))
    PROVE  FlattenSeq(ss) \in Seq(S)
  <1>1. CASE ss = <<>>
    <2>1. FlattenSeq(ss) = <<>>
      BY <1>1, FlattenEmpty
    <2> QED BY <2>1
  <1>2. CASE ss # <<>>
    <2>1. Len(ss) \in Nat \ {0}
      BY <1>2
    <2>2. PICK f : Flattens(ss, Len(ss), f) /\ FlattenSeq(ss) = f[Len(ss)]
      BY <2>1, FlattenIs
    <2>3. Len(ss) \in 0 .. Len(ss) /\ Len(ss) \in 1 .. Len(ss)
      BY <2>1
    <2> QED BY <2>2, <2>3, FlattensType
  <1> QED BY <1>1, <1>2

\* One element more is one piece more at the end.
LEMMA FlattenLonger ==
    ASSUME NEW ss, NEW tt, NEW n \in Nat, n # 0, Len(ss) = n, Len(tt) = n + 1,
           \A i \in 1 .. n : ss[i] = tt[i]
    PROVE  FlattenSeq(tt) = FlattenSeq(ss) \o tt[n + 1]
  <1>1. PICK f : Flattens(ss, n, f) /\ FlattenSeq(ss) = f[n]
    BY FlattenIs
  <1>2. PICK g : Flattens(tt, n + 1, g) /\ FlattenSeq(tt) = g[n + 1]
    BY FlattenIs
  <1>3. Agree(f, g, n)
    <2>1. Agree(ss, tt, n)
      BY DEF Agree
    <2> QED BY <1>1, <1>2, <2>1, FlattensSame, Zenon
  <1>4. g[n + 1] = g[n] \o tt[n + 1]
    <2>1. n \in 1 .. n + 1 /\ n < n + 1 /\ n + 1 \in Nat
      OBVIOUS
    <2> QED BY <1>2, <2>1, FlattensStep
  <1>5. f[n] = g[n]
    <2>1. n \in 1 .. n
      OBVIOUS
    <2> QED BY <1>3, <2>1 DEF Agree
  <1> QED BY <1>1, <1>2, <1>4, <1>5

\* Concatenation is associative.
Associates(r, s, t) == (r \o s) \o t = r \o (s \o t)

LEMMA ConcatAgain ==
    ASSUME NEW S, NEW r \in Seq(S), NEW s \in Seq(S), NEW t \in Seq(S)
    PROVE  Associates(r, s, t)
  BY ConcatAssociative DEF Associates

\* A sequence appended is a piece more at the end.
LEMMA FlattenAppend ==
    ASSUME NEW S, NEW ss \in Seq(Seq(S)), NEW s \in Seq(S)
    PROVE  FlattenSeq(Append(ss, s)) = FlattenSeq(ss) \o s
  <1>1. CASE ss = <<>>
    <2> DEFINE tt == Append(ss, s)
    <2>1. Len(tt) = 1 /\ tt[1] = s
      BY <1>1
    <2> HIDE DEF tt
    <2>2. PICK f : Flattens(tt, 1, f) /\ FlattenSeq(tt) = f[1]
      <3>1. Len(tt) \in Nat \ {0}
        BY <2>1
      <3>2. PICK f : Flattens(tt, Len(tt), f) /\ FlattenSeq(tt) = f[Len(tt)]
        BY <3>1, FlattenIs, Zenon
      <3> QED BY <2>1, <3>2, Zenon
    <2>3. f[1] = tt[1]
      BY <2>2, FlattensFirst
    <2>4. FlattenSeq(ss) \o s = s
      BY <1>1, FlattenEmpty
    <2> QED BY <2>1, <2>2, <2>3, <2>4 DEF tt
  <1>2. CASE ss # <<>>
    <2> DEFINE tt == Append(ss, s)
               n == Len(ss)
    <2>1. /\ n \in Nat /\ n # 0 /\ Len(tt) = n + 1 /\ tt[n + 1] = s
          /\ \A i \in 1 .. n : ss[i] = tt[i]
      BY <1>2
    <2> HIDE DEF tt, n
    <2>2. FlattenSeq(tt) = FlattenSeq(ss) \o tt[n + 1]
      BY <2>1, FlattenLonger DEF n
    <2> QED BY <2>1, <2>2 DEF tt
  <1> QED BY <1>1, <1>2

\* The first element is the first piece.
LEMMA FlattenHead ==
    ASSUME NEW S, NEW ss \in Seq(Seq(S)), ss # <<>>
    PROVE  FlattenSeq(ss) = Head(ss) \o FlattenSeq(Tail(ss))
  <1> DEFINE Good == {n \in Nat : \A tt \in Seq(Seq(S)) :
                         Len(tt) = n + 1 =>
                             FlattenSeq(tt) = Head(tt) \o FlattenSeq(Tail(tt))}
  <1>1. 0 \in Good
    <2> SUFFICES ASSUME NEW tt \in Seq(Seq(S)), Len(tt) = 1
                 PROVE  FlattenSeq(tt) = Head(tt) \o FlattenSeq(Tail(tt))
      OBVIOUS
    <2>1. PICK front \in Seq(Seq(S)), last \in Seq(S) : tt = Append(front, last)
      <3>1. tt # <<>>
        <4> SUFFICES ASSUME tt = <<>> PROVE FALSE
          OBVIOUS
        <4>1. Len(tt) = Len(<<>>)
          BY Zenon
        <4>2. Len(<<>>) = 0
          OBVIOUS
        <4> QED BY <4>1, <4>2
      <3> QED BY <3>1, SequenceEmptyOrAppend, Zenon
    <2>2. front = <<>>
      BY <2>1
    <2>3. Head(tt) = last /\ Tail(tt) = <<>>
      BY <2>1, <2>2, HeadTailAppend
    <2>4. FlattenSeq(tt) = FlattenSeq(front) \o last
      BY <2>1, FlattenAppend
    <2>5. <<>> \o last = last /\ last \o <<>> = last
      OBVIOUS
    <2> QED BY <2>2, <2>3, <2>4, <2>5, FlattenEmpty
  <1>2. ASSUME NEW n \in Nat, n \in Good PROVE n + 1 \in Good
    <2> SUFFICES ASSUME NEW tt \in Seq(Seq(S)), Len(tt) = n + 1 + 1
                 PROVE  FlattenSeq(tt) = Head(tt) \o FlattenSeq(Tail(tt))
      OBVIOUS
    <2>1. PICK front \in Seq(Seq(S)), last \in Seq(S) : tt = Append(front, last)
      <3>1. tt # <<>>
        OBVIOUS
      <3> QED BY <3>1, SequenceEmptyOrAppend, Zenon
    <2>2. Len(front) = n + 1 /\ front # <<>>
      BY <2>1
    <2>3. /\ Head(tt) = Head(front) /\ Tail(tt) = Append(Tail(front), last)
          /\ Head(front) \in Seq(S) /\ Tail(front) \in Seq(Seq(S))
      BY <2>1, <2>2, HeadTailAppend, HeadTailProperties
    <2>4. FlattenSeq(front) = Head(front) \o FlattenSeq(Tail(front))
      BY <1>2, <2>2
    <2>5. FlattenSeq(tt) = FlattenSeq(front) \o last
      BY <2>1, FlattenAppend
    <2>6. FlattenSeq(Tail(tt)) = FlattenSeq(Tail(front)) \o last
      BY <2>1, <2>3, FlattenAppend
    <2>7. FlattenSeq(Tail(front)) \in Seq(S)
      BY <2>3, FlattenType
    <2>8. (Head(front) \o FlattenSeq(Tail(front))) \o last
              = Head(front) \o (FlattenSeq(Tail(front)) \o last)
      <3> DEFINE h == Head(front)
                 r == FlattenSeq(Tail(front))
      <3>1. h \in Seq(S) /\ r \in Seq(S) /\ last \in Seq(S)
        BY <2>3, <2>7
      <3> HIDE DEF h, r
      <3>2. (h \o r) \o last = h \o (r \o last)
        <4>1. Associates(h, r, last)
          BY <3>1, ConcatAgain, Zenon
        <4> QED BY <4>1, Zenon DEF Associates
      <3> QED BY <3>2 DEF h, r
    <2> QED BY <2>3, <2>4, <2>5, <2>6, <2>8
  <1>3. Nat \subseteq Good
    <2> HIDE DEF Good
    <2> QED BY <1>1, <1>2, Induction
  <1>4. Len(ss) - 1 \in Nat /\ Len(ss) = (Len(ss) - 1) + 1
    OBVIOUS
  <1> QED BY <1>3, <1>4
-----------------------------------------------------------------------------
(***************************************************************************)
(* Sequences of bytes, and the layout of frames.                           *)
(***************************************************************************)

\* What a prefix and the rest of a sequence are.
LEMMA PrefixIs ==
    ASSUME NEW S, NEW s \in Seq(S), NEW n \in 0 .. Len(s)
    PROVE  /\ SubSeq(s, 1, n) \in Seq(S) /\ Len(SubSeq(s, 1, n)) = n
           /\ \A i \in 1 .. n : SubSeq(s, 1, n)[i] = s[i]
  OBVIOUS

\* The same of what is left of a sequence without them.
LEMMA DropFirstIs ==
    ASSUME NEW S, NEW s \in Seq(S), NEW n \in 0 .. Len(s)
    PROVE  /\ DropFirst(s, n) \in Seq(S) /\ Len(DropFirst(s, n)) = Len(s) - n
           /\ \A i \in 1 .. Len(s) - n : DropFirst(s, n)[i] = s[n + i]
  BY DEF DropFirst

\* Where the elements of two sequences are in their concatenation.
LEMMA ConcatIs ==
    ASSUME NEW S, NEW a \in Seq(S), NEW b \in Seq(S)
    PROVE  /\ a \o b \in Seq(S) /\ Len(a \o b) = Len(a) + Len(b)
           /\ \A i \in 1 .. Len(a) : (a \o b)[i] = a[i]
           /\ \A i \in 1 .. Len(b) : (a \o b)[Len(a) + i] = b[i]
  <1>1. a \o b \in Seq(S) /\ Len(a \o b) = Len(a) + Len(b)
    OBVIOUS
  <1>2. ASSUME NEW i \in 1 .. Len(a) PROVE (a \o b)[i] = a[i]
    OBVIOUS
  <1>3. ASSUME NEW i \in 1 .. Len(b) PROVE (a \o b)[Len(a) + i] = b[i]
    OBVIOUS
  <1> QED BY <1>1, <1>2, <1>3

\* The prefix and the rest together are the sequence.
LEMMA PrefixAndRest ==
    ASSUME NEW S, NEW s \in Seq(S), NEW n \in 0 .. Len(s)
    PROVE  SubSeq(s, 1, n) \o DropFirst(s, n) = s
  <1> DEFINE a == SubSeq(s, 1, n)
             b == DropFirst(s, n)
  <1>1. /\ a \in Seq(S) /\ Len(a) = n /\ \A i \in 1 .. n : a[i] = s[i]
        /\ b \in Seq(S) /\ Len(b) = Len(s) - n
        /\ \A i \in 1 .. Len(s) - n : b[i] = s[n + i]
    BY PrefixIs, DropFirstIs
  <1> HIDE DEF a, b
  <1>2. a \o b \in Seq(S) /\ Len(a \o b) = Len(s)
    <2>1. a \o b \in Seq(S) /\ Len(a \o b) = Len(a) + Len(b)
      BY <1>1, ConcatIs
    <2> QED BY <1>1, <2>1
  <1>3. ASSUME NEW i \in 1 .. Len(s) PROVE (a \o b)[i] = s[i]
    <2>1. CASE i <= n
      BY <1>1, <2>1
    <2>2. CASE ~ i <= n
      <3>1. i - n \in 1 .. Len(s) - n /\ n + (i - n) = i
        BY <2>2
      <3>2. (a \o b)[i] = b[i - n]
        <4>1. (a \o b)[Len(a) + (i - n)] = b[i - n]
          BY <1>1, <3>1, ConcatIs
        <4> QED BY <1>1, <3>1, <4>1
      <3>3. b[i - n] = s[n + (i - n)]
        BY <1>1, <3>1, Zenon
      <3> QED BY <3>1, <3>2, <3>3
    <2> QED BY <2>1, <2>2
  <1>4. a \o b = s
    BY <1>2, <1>3, SeqEqual
  <1> QED BY <1>4 DEF a, b

\* If a sequence is cut in two ways, the first piece of one begins with the
\* first piece of the other.
LEMMA CutsAgree ==
    ASSUME NEW S, NEW a \in Seq(S), NEW b \in Seq(S), NEW u \in Seq(S), NEW r \in Seq(S),
           a \o b = u \o r
    PROVE  /\ \A i \in 1 .. Len(a) : i <= Len(u) => a[i] = u[i]
           /\ Len(u) <= Len(a) => /\ SubSeq(a, 1, Len(u)) = u
                                  /\ DropFirst(a, Len(u)) \o b = r
  <1>1. ASSUME NEW i \in 1 .. Len(a), i <= Len(u) PROVE a[i] = u[i]
    <2>1. (a \o b)[i] = a[i]
      OBVIOUS
    <2>2. (u \o r)[i] = u[i]
      BY <1>1
    <2> QED BY <2>1, <2>2
  <1>2. ASSUME Len(u) <= Len(a)
        PROVE  SubSeq(a, 1, Len(u)) = u /\ DropFirst(a, Len(u)) \o b = r
    <2> DEFINE p == SubSeq(a, 1, Len(u))
               d == DropFirst(a, Len(u))
    <2>1. Len(u) \in 0 .. Len(a)
      BY <1>2
    <2>2. /\ p \in Seq(S) /\ Len(p) = Len(u) /\ \A i \in 1 .. Len(u) : p[i] = a[i]
          /\ d \in Seq(S) /\ Len(d) = Len(a) - Len(u)
          /\ \A i \in 1 .. Len(a) - Len(u) : d[i] = a[Len(u) + i]
      BY <2>1, PrefixIs, DropFirstIs
    <2> HIDE DEF p, d
    <2>3. p = u
      <3>1. \A i \in 1 .. Len(u) : p[i] = u[i]
        BY <1>1, <1>2, <2>2
      <3> QED BY <2>2, <3>1, SeqEqual
    <2>4. Len(a) + Len(b) = Len(u) + Len(r)
      <3>1. Len(a \o b) = Len(a) + Len(b) /\ Len(u \o r) = Len(u) + Len(r)
        OBVIOUS
      <3> QED BY <3>1
    <2>5. d \o b \in Seq(S) /\ Len(d \o b) = Len(r)
      BY <2>2, <2>4
    <2>6. ASSUME NEW i \in 1 .. Len(r) PROVE (d \o b)[i] = r[i]
      <3>1. (u \o r)[Len(u) + i] = r[i]
        OBVIOUS
      <3>2. (a \o b)[Len(u) + i] = (d \o b)[i]
        <4>1. CASE i <= Len(a) - Len(u)
          <5>1. (d \o b)[i] = d[i]
            BY <2>2, <4>1
          <5>2. (a \o b)[Len(u) + i] = a[Len(u) + i]
            BY <1>2, <4>1
          <5> QED BY <2>2, <4>1, <5>1, <5>2
        <4>2. CASE ~ i <= Len(a) - Len(u)
          <5> DEFINE j == i - (Len(a) - Len(u))
          <5>1. j \in 1 .. Len(b) /\ Len(d) + j = i /\ Len(a) + j = Len(u) + i
            BY <1>2, <2>2, <2>4, <4>2
          <5> HIDE DEF j
          <5>2. (d \o b)[Len(d) + j] = b[j]
            BY <2>2, <5>1, ConcatIs
          <5>3. (a \o b)[Len(a) + j] = b[j]
            BY <5>1, ConcatIs
          <5> QED BY <5>1, <5>2, <5>3
        <4> QED BY <4>1, <4>2
      <3> QED BY <3>1, <3>2
    <2>7. d \o b = r
      BY <2>5, <2>6, SeqEqual
    <2> QED BY <2>3, <2>7 DEF p, d
  <1> QED BY <1>1, <1>2

\* trySync leaves a sequence of bytes, no longer than what it was given.
LEMMA SyncedIs ==
    ASSUME NEW bytes \in Seq(Bytes), NEW otherwise \in Seq(Bytes),
           Len(otherwise) <= Len(bytes)
    PROVE  /\ Synced(bytes, otherwise) \in Seq(Bytes)
           /\ Len(Synced(bytes, otherwise)) <= Len(bytes)
  <1>1. CASE SyncPoints(bytes) = {}
    BY <1>1 DEF Synced
  <1>2. CASE SyncPoints(bytes) # {}
    <2> DEFINE first == Min(SyncPoints(bytes))
    <2>1. SyncPoints(bytes) \in SUBSET Nat
      BY DEF SyncPoints
    <2>2. first \in SyncPoints(bytes)
      BY <1>2, <2>1, MinIsLeast
    <2>3. first \in 2 .. Len(bytes)
      BY <2>2 DEF SyncPoints
    <2>4. Synced(bytes, otherwise) = DropFirst(bytes, first - 1)
      BY <1>2 DEF Synced
    <2> HIDE DEF first
    <2>5. first - 1 \in 0 .. Len(bytes)
      BY <2>3
    <2>6. /\ DropFirst(bytes, first - 1) \in Seq(Bytes)
          /\ Len(DropFirst(bytes, first - 1)) = Len(bytes) - (first - 1)
      BY <2>5, DropFirstIs
    <2> QED BY <2>3, <2>4, <2>6
  <1> QED BY <1>1, <1>2

\* The same when it is given nothing to fall back on.
LEMMA SyncedOrNothing ==
    ASSUME NEW bytes \in Seq(Bytes)
    PROVE  /\ Synced(bytes, <<>>) \in Seq(Bytes)
           /\ Len(Synced(bytes, <<>>)) <= Len(bytes)
  <1>1. PICK nothing \in Seq(Bytes) : nothing = <<>> /\ Len(nothing) = 0
    <2>1. <<>> \in Seq(Bytes) /\ Len(<<>>) = 0
      OBVIOUS
    <2> QED BY <2>1, Zenon
  <1>2. Len(nothing) <= Len(bytes)
    BY <1>1
  <1>3. /\ Synced(bytes, nothing) \in Seq(Bytes)
        /\ Len(Synced(bytes, nothing)) <= Len(bytes)
    BY <1>2, SyncedIs, Zenon
  <1> QED BY <1>1, <1>3, Zenon

\* The sum of a frame's sizes wraps only to less than the smallest frame.
LEMMA SizeDoesNotHide ==
    ASSUME NEW bytes, PayloadSize(bytes) \in Bytes
    PROVE  /\ TotalSize(bytes) \in Nat
           /\ TotalSize(bytes) >= MinimumFrameSize =>
                  TotalSize(bytes) = MinimumFrameSize + PayloadSize(bytes)
  <1> DEFINE p == PayloadSize(bytes)
             m == SizeModulus
  <1>1. p \in Nat /\ m \in Nat /\ p < m
    <2>1. SizeModulus \in Nat /\ Bytes \subseteq 0 .. SizeModulus - 1
      BY StreamAssumption, Zenon
    <2>2. p \in 0 .. SizeModulus - 1
      BY <2>1
    <2> QED BY <2>1, <2>2
  <1> HIDE DEF p, m
  <1>2. (5 + p) % m \in Nat
    BY <1>1
  <1>3. CASE 5 + p < m
    BY <1>1, <1>2, <1>3 DEF TotalSize, MinimumFrameSize, HeaderSize, CrcSize, p, m
  <1>4. CASE 5 + p >= m
    <2>1. (5 + p) % m < 5
      BY <1>1, <1>4
    <2> QED BY <1>1, <1>2, <2>1 DEF TotalSize, MinimumFrameSize, HeaderSize, CrcSize, p, m
  <1> QED BY <1>1, <1>3, <1>4

\* A frame that is accepted is as long as its payload and the fields around it.
LEMMA AcceptedIs ==
    ASSUME NEW bytes \in Seq(Bytes), Accepted(bytes)
    PROVE  /\ Len(bytes) >= MinimumFrameSize /\ Len(bytes) = TotalSize(bytes)
           /\ Payload(bytes) \in Seq(Bytes)
           /\ Len(Payload(bytes)) = Len(bytes) - MinimumFrameSize
  <1>1. Len(bytes) >= 5 /\ Len(bytes) = TotalSize(bytes)
    BY DEF Accepted, MinimumFrameSize, HeaderSize, CrcSize
  <1>2. PayloadSize(bytes) \in Bytes
    BY <1>1 DEF PayloadSize
  <1>3. TotalSize(bytes) = 5 + PayloadSize(bytes)
    BY <1>1, <1>2, SizeDoesNotHide DEF MinimumFrameSize, HeaderSize, CrcSize
  <1>4. PayloadSize(bytes) \in Nat /\ 4 + PayloadSize(bytes) = Len(bytes) - 1
    <2>1. Bytes \subseteq 0 .. SizeModulus - 1
      BY StreamAssumption, Zenon
    <2>2. PayloadSize(bytes) \in 0 .. SizeModulus - 1
      BY <1>2, <2>1, Zenon
    <2>3. PayloadSize(bytes) \in Nat
      <3>1. SizeModulus \in Nat
        BY StreamAssumption, Zenon
      <3> QED BY <2>2, <3>1
    <2>4. Len(bytes) = 5 + PayloadSize(bytes)
      BY <1>1, <1>3
    <2> QED BY <2>3, <2>4
  <1> DEFINE n == Len(bytes)
  <1>5. SubSeq(bytes, 5, n - 1) \in Seq(Bytes) /\ Len(SubSeq(bytes, 5, n - 1)) = n - 5
    BY <1>1
  <1>6. Payload(bytes) = SubSeq(bytes, 5, n - 1)
    BY <1>4 DEF Payload, HeaderSize
  <1> QED BY <1>1, <1>5, <1>6 DEF MinimumFrameSize, HeaderSize, CrcSize

-----------------------------------------------------------------------------
(***************************************************************************)
(* Types.  The histories are sequences of sequences of bytes; with that    *)
(* the type invariant is inductive.                                        *)
(***************************************************************************)
Types ==
    /\ TypeOK
    /\ delivered \in Seq(Seq(Bytes)) /\ sent \in Seq(Units)

\* Two of the assumptions, as the proofs need them.
LEMMA UnitsAreBytes == Units \subseteq Seq(Bytes)
  BY StreamAssumption, Zenon

LEMMA CapacityIs == Capacity \in Nat /\ Capacity >= MinimumFrameSize
  <1>1. MaxPayload \in Nat
    BY StreamAssumption, Zenon
  <1> QED BY <1>1 DEF Capacity, MinimumFrameSize, HeaderSize, CrcSize

\* The frame at the start of the buffer lies within it.
LEMMA TotalWithin ==
    ASSUME Types, HeaderThere, FrameThere
    PROVE  TotalSize(buffer) \in 0 .. Len(buffer)
  <1>1. buffer \in Seq(Bytes) /\ Len(buffer) >= 4
    BY DEF Types, TypeOK, HeaderThere, HeaderSize
  <1>2. PayloadSize(buffer) \in Bytes
    BY <1>1 DEF PayloadSize
  <1>3. TotalSize(buffer) \in Nat
    BY <1>2, SizeDoesNotHide
  <1> QED BY <1>1, <1>3 DEF FrameThere

\* What stays in the buffer, one case per action that takes from it.
LEMMA BufferTyped ==
    ASSUME Types, [Next]_vars
    PROVE  buffer' \in Seq(Bytes) /\ Len(buffer') <= Capacity
  <1>0. /\ buffer \in Seq(Bytes) /\ Len(buffer) <= Capacity /\ line \in Seq(Bytes)
        /\ Capacity \in Nat /\ <<>> \in Seq(Bytes) /\ Len(<<>>) = 0
    BY CapacityIs DEF Types, TypeOK
  <1>1. ASSUME buffer' = buffer PROVE buffer' \in Seq(Bytes) /\ Len(buffer') <= Capacity
    BY <1>0, <1>1
  <1>2. \A unit \in Units : PeerSends(unit) => buffer' = buffer
    BY DEF PeerSends
  <1>3. SetFrameCallback => buffer' = buffer
    BY DEF SetFrameCallback
  <1>4. ASSUME NEW n \in 1 .. MaxPiece, Feed(n)
        PROVE  buffer' \in Seq(Bytes) /\ Len(buffer') <= Capacity
    <2> DEFINE piece == SubSeq(line, 1, n)
               room == IF Fits(buffer, n) THEN buffer ELSE Synced(buffer, <<>>)
    <2>1. n \in Nat /\ n \in 0 .. Len(line)
      <3>1. n \in Nat /\ n <= Len(line)
        BY <1>4 DEF Feed
      <3> QED BY <1>0, <3>1
    <2>2. piece \in Seq(Bytes) /\ Len(piece) = n
      BY <1>0, <2>1, PrefixIs
    <2>3. room \in Seq(Bytes) /\ Len(room) <= Capacity
      <3>1. Synced(buffer, <<>>) \in Seq(Bytes) /\ Len(Synced(buffer, <<>>)) <= Len(buffer)
        BY <1>0, SyncedOrNothing, Zenon
      <3> QED BY <1>0, <3>1
    <2>4. buffer' = IF Fits(room, n) THEN room \o piece ELSE room
      BY <1>4 DEF Feed
    <2> HIDE DEF room, piece
    <2>5. CASE Fits(room, n)
      BY <1>0, <2>1, <2>2, <2>3, <2>4, <2>5 DEF Fits
    <2>6. CASE ~ Fits(room, n)
      BY <2>3, <2>4, <2>6
    <2> QED BY <2>5, <2>6
  <1>5. \A n \in 1 .. MaxPiece : FeedUnregistered(n) => buffer' = buffer
    BY DEF FeedUnregistered
  <1>6. CASE Wait
    BY <1>1, <1>6 DEF Wait
  <1>7. CASE RejectSize
    <2>1. Synced(buffer, <<>>) \in Seq(Bytes) /\ Len(Synced(buffer, <<>>)) <= Len(buffer)
      BY <1>0, SyncedOrNothing, Zenon
    <2> QED BY <1>0, <1>7, <2>1 DEF RejectSize
  <1>8. ASSUME HeaderThere, FrameThere
        PROVE  Rest \in Seq(Bytes) /\ Len(Rest) <= Len(buffer)
    <2>1. TotalSize(buffer) \in 0 .. Len(buffer)
      BY <1>8, TotalWithin
    <2>2. Rest \in Seq(Bytes) /\ Len(Rest) = Len(buffer) - TotalSize(buffer)
      BY <1>0, <2>1, DropFirstIs DEF Rest
    <2> QED BY <1>0, <2>1, <2>2
  <1>9. CASE Deliver
    <2>1. Rest \in Seq(Bytes) /\ Len(Rest) <= Len(buffer) /\ buffer' = Rest
      BY <1>8, <1>9 DEF Deliver, Remaining
    <2> QED BY <1>0, <2>1
  <1>10. CASE RejectFrame
    <2>1. Rest \in Seq(Bytes) /\ Len(Rest) <= Len(buffer)
      BY <1>8, <1>10 DEF RejectFrame
    <2>2. /\ Synced(buffer, Rest) \in Seq(Bytes)
          /\ Len(Synced(buffer, Rest)) <= Len(buffer)
      BY <1>0, <2>1, SyncedIs
    <2>3. buffer' = Synced(buffer, Rest)
      BY <1>10 DEF RejectFrame
    <2> QED BY <1>0, <2>2, <2>3
  <1>11. CASE Reset
    BY <1>0, <1>11 DEF Reset
  <1>12. CASE UNCHANGED vars
    BY <1>1, <1>12 DEF vars
  <1> QED BY <1>1, <1>2, <1>3, <1>4, <1>5, <1>6, <1>7, <1>9, <1>10, <1>11, <1>12
          DEF Next, FeedAny, Extract

\* A delivered payload is made of bytes.
LEMMA DeliveredTyped ==
    ASSUME Types, Deliver
    PROVE  /\ Candidate \in Seq(Bytes) /\ Len(Candidate) = TotalSize(buffer)
           /\ Accepted(Candidate) /\ delivered' = Append(delivered, Payload(Candidate))
           /\ Len(Candidate) >= MinimumFrameSize /\ Payload(Candidate) \in Seq(Bytes)
           /\ Len(Payload(Candidate)) = Len(Candidate) - MinimumFrameSize
  <1>1. TotalSize(buffer) \in 0 .. Len(buffer) /\ buffer \in Seq(Bytes)
    BY TotalWithin DEF Deliver, Types, TypeOK
  <1>2. Candidate \in Seq(Bytes) /\ Len(Candidate) = TotalSize(buffer)
    BY <1>1, PrefixIs DEF Candidate
  <1>3. Accepted(Candidate) /\ delivered' = Append(delivered, Payload(Candidate))
    BY DEF Deliver
  <1> QED BY <1>2, <1>3, AcceptedIs

\* The histories keep their types: only Deliver and PeerSends add to them.
LEMMA HistoriesTyped ==
    ASSUME Types, [Next]_vars
    PROVE  delivered' \in Seq(Seq(Bytes)) /\ sent' \in Seq(Units)
  <1>0. delivered \in Seq(Seq(Bytes)) /\ sent \in Seq(Units)
    BY DEF Types
  <1>1. CASE Deliver
    <2>1. Payload(Candidate) \in Seq(Bytes)
      BY <1>1, DeliveredTyped
    <2>2. delivered' = Append(delivered, Payload(Candidate)) /\ sent' = sent
      BY <1>1 DEF Deliver
    <2> QED BY <1>0, <2>1, <2>2, AppendProperties
  <1>2. ASSUME NEW unit \in Units, PeerSends(unit)
        PROVE  delivered' \in Seq(Seq(Bytes)) /\ sent' \in Seq(Units)
    <2>1. sent' = Append(sent, unit) /\ delivered' = delivered
      BY <1>2 DEF PeerSends
    <2>2. Append(sent, unit) \in Seq(Units)
      BY <1>0, AppendProperties
    <2> QED BY <1>0, <2>1, <2>2
  <1>3. CASE ~ Deliver /\ ~ \E unit \in Units : PeerSends(unit)
    <2>1. delivered' = delivered /\ sent' = sent
      BY <1>3 DEF Next, FeedAny, Extract, SetFrameCallback, Feed, FeedUnregistered, Wait,
                  RejectSize, RejectFrame, Reset, vars
    <2> QED BY <1>0, <2>1
  <1> QED BY <1>1, <1>2, <1>3

\* The other variables.
LEMMA OthersTyped ==
    ASSUME Types, [Next]_vars
    PROVE  /\ registered' \in BOOLEAN /\ extracting' \in BOOLEAN
           /\ errors' \subseteq ErrorTypes
           /\ discarded' \in Nat /\ line' \in Seq(Bytes)
  <1>0. /\ registered \in BOOLEAN /\ extracting \in BOOLEAN /\ errors \subseteq ErrorTypes
        /\ discarded \in Nat /\ line \in Seq(Bytes) /\ buffer \in Seq(Bytes)
    BY DEF Types, TypeOK
  <1>1. registered' \in BOOLEAN /\ extracting' \in BOOLEAN
    <2>1. registered' \in BOOLEAN
      <3>1. registered' = registered \/ registered' = TRUE
        BY DEF Next, FeedAny, Extract, PeerSends, SetFrameCallback, Feed, FeedUnregistered,
               Wait, RejectSize, Deliver, RejectFrame, Reset, vars
      <3> QED BY <1>0, <3>1, Zenon
    <2>2. ASSUME NEW n \in 1 .. MaxPiece, Feed(n) PROVE extracting' \in BOOLEAN
      <3>1. \A bytes, k : Fits(bytes, k) \in BOOLEAN
        BY DEF Fits
      <3>2. PICK room : extracting' = Fits(room, n)
        BY <2>2, Zenon DEF Feed
      <3> QED BY <3>1, <3>2, Zenon
    <2>3. RejectSize \/ Wait => extracting' \in BOOLEAN
      BY Zenon DEF RejectSize, Wait
    <2>4. ASSUME extracting' = extracting PROVE extracting' \in BOOLEAN
      BY <1>0, <2>4, Zenon
    <2>5. ASSUME ~ RejectSize, ~ Wait, ~ \E n \in 1 .. MaxPiece : Feed(n)
          PROVE  extracting' \in BOOLEAN
      <3>1. extracting' = extracting
        BY <2>5 DEF Next, FeedAny, Extract, PeerSends, SetFrameCallback, FeedUnregistered,
                    Deliver, RejectFrame, Reset, vars
      <3> QED BY <2>4, <3>1
    <2> QED BY <2>1, <2>2, <2>3, <2>5
  <1>2. errors' \subseteq ErrorTypes
    BY <1>0 DEF Next, FeedAny, Extract, PeerSends, SetFrameCallback, Feed, FeedUnregistered,
                Wait, RejectSize, Deliver, RejectFrame, Reset, vars, ErrorTypes
  <1>3. ASSUME NEW n \in 1 .. MaxPiece, Feed(n) \/ FeedUnregistered(n)
        PROVE  discarded' \in Nat /\ line' \in Seq(Bytes)
    <2>1. n \in 0 .. Len(line) /\ line' = DropFirst(line, n)
      <3>1. n <= Len(line) /\ line' = DropFirst(line, n)
        BY <1>3 DEF Feed, FeedUnregistered
      <3> QED BY <1>0, <3>1
    <2>2. discarded' = discarded \/ discarded' = discarded + n
      BY <1>3 DEF Feed, FeedUnregistered
    <2> QED BY <1>0, <2>1, <2>2, DropFirstIs
  <1>4. ASSUME NEW unit \in Units, PeerSends(unit)
        PROVE  discarded' \in Nat /\ line' \in Seq(Bytes)
    <2>1. unit \in Seq(Bytes)
      BY UnitsAreBytes
    <2>2. line' = line \o unit /\ discarded' = discarded
      BY <1>4 DEF PeerSends
    <2> QED BY <1>0, <2>1, <2>2
  <1>5. ASSUME Reset PROVE discarded' \in Nat /\ line' \in Seq(Bytes)
    BY <1>0, <1>5 DEF Reset
  <1>6. ASSUME SetFrameCallback \/ Extract \/ UNCHANGED vars
        PROVE  discarded' \in Nat /\ line' \in Seq(Bytes)
    BY <1>0, <1>6 DEF Extract, SetFrameCallback, Wait, RejectSize, Deliver, RejectFrame, vars
  <1>7. discarded' \in Nat /\ line' \in Seq(Bytes)
    BY <1>3, <1>4, <1>5, <1>6 DEF Next, FeedAny
  <1> QED BY <1>1, <1>2, <1>7

\* It holds at first, is kept by every step, and so holds always.
LEMMA InitTypes == Init => Types
  <1> SUFFICES ASSUME Init PROVE Types
    OBVIOUS
  <1>1. <<>> \in Seq(Bytes) /\ Len(<<>>) = 0
    OBVIOUS
  <1>2. <<>> \in Seq(Seq(Bytes)) /\ <<>> \in Seq(Units)
    OBVIOUS
  <1>3. Capacity \in Nat
    BY CapacityIs
  <1>4. buffer \in Seq(Bytes) /\ Len(buffer) <= Capacity /\ line \in Seq(Bytes)
    BY <1>1, <1>3 DEF Init
  <1>5. delivered \in Seq(Seq(Bytes)) /\ sent \in Seq(Units)
    BY <1>2, Zenon DEF Init
  <1>6. registered \in BOOLEAN /\ extracting \in BOOLEAN
    BY Zenon DEF Init
  <1>7. errors \subseteq ErrorTypes /\ discarded \in Nat
    BY DEF Init
  <1>8. /\ \A i \in 1 .. Len(delivered) : delivered[i] \in Seq(Bytes)
        /\ \A i \in 1 .. Len(sent) : sent[i] \in Units
    BY <1>5, ElementOfSeq
  <1> QED BY <1>4, <1>5, <1>6, <1>7, <1>8, Zenon DEF Types, TypeOK

LEMMA NextTypes == Types /\ [Next]_vars => Types'
  <1> SUFFICES ASSUME Types, [Next]_vars PROVE Types'
    OBVIOUS
  <1>1. buffer' \in Seq(Bytes) /\ Len(buffer') <= Capacity
    BY BufferTyped
  <1>2. delivered' \in Seq(Seq(Bytes)) /\ sent' \in Seq(Units)
    BY HistoriesTyped
  <1>3. /\ registered' \in BOOLEAN /\ extracting' \in BOOLEAN
        /\ errors' \subseteq ErrorTypes
        /\ discarded' \in Nat /\ line' \in Seq(Bytes)
    BY OthersTyped
  <1>4. /\ \A i \in 1 .. Len(delivered') : delivered'[i] \in Seq(Bytes)
        /\ \A i \in 1 .. Len(sent') : sent'[i] \in Units
    BY <1>2, ElementOfSeq
  <1> QED BY <1>1, <1>2, <1>3, <1>4 DEF Types, TypeOK

LEMMA TypesAlways == Spec => []Types
  BY InitTypes, NextTypes, PTL DEF Spec

\* The variables have their types, and the buffer never holds more than
\* kBufferCapacity bytes, whatever the line brings (feed, trySync,
\* extractFrames).
THEOREM Typing == Spec => []TypeOK
  <1>1. Types => TypeOK
    BY DEF Types
  <1> QED BY <1>1, TypesAlways, PTL

-----------------------------------------------------------------------------
(***************************************************************************)
(* Bytes are lost only with an error report.  Every action that takes      *)
(* bytes from one place and reports no error puts as many in another;      *)
(* Deliver turns the bytes of a frame into a payload and the fields around *)
(* it.                                                                     *)
(***************************************************************************)

\* The number of bytes in a sequence of sequences of them.
Volume(seqs) == Len(FlattenSeq(seqs))

\* One sequence more, and as many bytes more as it has.
LEMMA VolumeAppend ==
    ASSUME NEW ss \in Seq(Seq(Bytes)), NEW s \in Seq(Bytes)
    PROVE  /\ Volume(ss) \in Nat /\ Volume(Append(ss, s)) \in Nat
           /\ Volume(Append(ss, s)) = Volume(ss) + Len(s)
  <1> DEFINE f == FlattenSeq(ss)
  <1>1. f \in Seq(Bytes)
    BY FlattenType
  <1>2. FlattenSeq(Append(ss, s)) = f \o s
    BY FlattenAppend
  <1> HIDE DEF f
  <1>3. Len(f \o s) = Len(f) + Len(s) /\ Len(f) \in Nat /\ Len(s) \in Nat
    BY <1>1
  <1> QED BY <1>2, <1>3 DEF Volume, f

\* The lengths of what a property counts.
LEMMA Lengths ==
    ASSUME Types
    PROVE  /\ Len(line) \in Nat /\ Len(buffer) \in Nat /\ Len(delivered) \in Nat
           /\ Volume(sent) \in Nat /\ Volume(delivered) \in Nat /\ discarded \in Nat
           /\ sent \in Seq(Seq(Bytes))
  <1>1. sent \in Seq(Seq(Bytes))
    BY UnitsAreBytes, SeqMonotonic, Zenon DEF Types
  <1>2. delivered \in Seq(Seq(Bytes)) /\ line \in Seq(Bytes) /\ buffer \in Seq(Bytes)
    BY DEF Types, TypeOK
  <1>3. discarded \in Nat
    BY DEF Types, TypeOK
  <1>4. FlattenSeq(sent) \in Seq(Bytes) /\ FlattenSeq(delivered) \in Seq(Bytes)
    BY <1>1, <1>2, FlattenType
  <1> QED BY <1>1, <1>2, <1>3, <1>4, LenProperties DEF Volume

Balance ==
    Volume(sent) = Len(line) + Len(buffer) + discarded
                   + Volume(delivered) + Len(delivered) * MinimumFrameSize

\* What has been sent is where the property looks for it: one case per action.
LEMMA KeepsBalance ==
    ASSUME Types, [Next]_vars, Balance, errors' \subseteq {"InvalidHeader"}
    PROVE  Balance'
  <1>0. /\ Len(line) \in Nat /\ Len(buffer) \in Nat /\ Len(delivered) \in Nat
        /\ Volume(sent) \in Nat /\ Volume(delivered) \in Nat /\ discarded \in Nat
        /\ sent \in Seq(Seq(Bytes)) /\ delivered \in Seq(Seq(Bytes))
        /\ line \in Seq(Bytes) /\ buffer \in Seq(Bytes)
    BY Lengths DEF Types, TypeOK
  <1>1. ASSUME NEW unit \in Units, PeerSends(unit) PROVE Balance'
    <2>1. unit \in Seq(Bytes)
      BY UnitsAreBytes
    <2>2. /\ sent' = Append(sent, unit) /\ line' = line \o unit
          /\ buffer' = buffer /\ discarded' = discarded /\ delivered' = delivered
      BY <1>1 DEF PeerSends
    <2>3. Len(line \o unit) = Len(line) + Len(unit) /\ Len(unit) \in Nat
      BY <1>0, <2>1
    <2>4. Volume(Append(sent, unit)) = Volume(sent) + Len(unit)
      BY <1>0, <2>1, VolumeAppend
    <2> QED BY <1>0, <2>2, <2>3, <2>4 DEF Balance, MinimumFrameSize, HeaderSize, CrcSize
  <1>2. ASSUME NEW n \in 1 .. MaxPiece, Feed(n) PROVE Balance'
    <2>1. /\ n \in 0 .. Len(line) /\ line' = DropFirst(line, n)
          /\ sent' = sent /\ discarded' = discarded /\ delivered' = delivered
      <3>1. /\ n <= Len(line) /\ line' = DropFirst(line, n)
            /\ sent' = sent /\ discarded' = discarded /\ delivered' = delivered
        BY <1>2 DEF Feed
      <3> QED BY <1>0, <3>1
    <2>2. Fits(buffer, n)
      BY <1>2 DEF Feed
    <2>3. buffer' = buffer \o SubSeq(line, 1, n)
      BY <1>2, <2>2 DEF Feed
    <2>4. SubSeq(line, 1, n) \in Seq(Bytes) /\ Len(SubSeq(line, 1, n)) = n
      BY <1>0, <2>1, PrefixIs
    <2>5. Len(buffer') = Len(buffer) + n
      BY <1>0, <2>3, <2>4
    <2>6. Len(line') = Len(line) - n
      BY <1>0, <2>1, DropFirstIs
    <2> QED BY <1>0, <2>1, <2>5, <2>6 DEF Balance, MinimumFrameSize, HeaderSize, CrcSize
  <1>3. ASSUME NEW n \in 1 .. MaxPiece, FeedUnregistered(n) PROVE Balance'
    <2>1. /\ n \in 0 .. Len(line) /\ line' = DropFirst(line, n) /\ buffer' = buffer
          /\ sent' = sent /\ discarded' = discarded + n /\ delivered' = delivered
      <3>1. /\ n <= Len(line) /\ line' = DropFirst(line, n) /\ buffer' = buffer
            /\ sent' = sent /\ discarded' = discarded + n /\ delivered' = delivered
        BY <1>3 DEF FeedUnregistered
      <3> QED BY <1>0, <3>1
    <2>2. Len(line') = Len(line) - n
      BY <1>0, <2>1, DropFirstIs
    <2> QED BY <1>0, <2>1, <2>2 DEF Balance, MinimumFrameSize, HeaderSize, CrcSize
  <1>4. CASE Deliver
    <2> DEFINE payload == Payload(Candidate)
               total == TotalSize(buffer)
    <2>1. /\ delivered' = Append(delivered, payload) /\ payload \in Seq(Bytes)
          /\ Len(payload) = total - MinimumFrameSize
      BY <1>4, DeliveredTyped
    <2>2. total \in 0 .. Len(buffer)
      BY <1>4, TotalWithin DEF Deliver
    <2>3. /\ buffer' = DropFirst(buffer, total) /\ line' = line
          /\ sent' = sent /\ discarded' = discarded
      BY <1>4 DEF Deliver, Remaining, Rest
    <2> HIDE DEF payload, total
    <2>4. Len(buffer') = Len(buffer) - total
      BY <1>0, <2>2, <2>3, DropFirstIs
    <2>5. Volume(delivered') = Volume(delivered) + Len(payload)
      BY <1>0, <2>1, VolumeAppend
    <2>6. Len(delivered') = Len(delivered) + 1
      BY <1>0, <2>1
    <2> QED BY <1>0, <2>1, <2>2, <2>3, <2>4, <2>5, <2>6
            DEF Balance, MinimumFrameSize, HeaderSize, CrcSize
  <1>5. CASE Reset
    <2>1. /\ buffer' = <<>> /\ discarded' = discarded + Len(buffer)
          /\ line' = line /\ sent' = sent /\ delivered' = delivered
      BY <1>5 DEF Reset
    <2>2. Len(buffer') = 0
      BY <2>1
    <2> QED BY <1>0, <2>1, <2>2 DEF Balance, MinimumFrameSize, HeaderSize, CrcSize
  <1>6. CASE SetFrameCallback \/ Wait \/ UNCHANGED vars
    BY <1>6 DEF SetFrameCallback, Wait, vars, Balance, Volume
  <1>7. ~ RejectSize /\ ~ RejectFrame
    BY DEF RejectSize, RejectFrame
  <1> QED BY <1>1, <1>2, <1>3, <1>4, <1>5, <1>6, <1>7 DEF Next, FeedAny, Extract

\* NoSilentLoss, for any bytes, any units and any way of cutting them: while no
\* error but a missing callback has been reported, every byte that came in is
\* accounted for (feed, extractFrames, reset).
THEOREM Conserved == Spec => []NoSilentLoss
  <1>1. NoSilentLoss <=> (errors \subseteq {"InvalidHeader"} => Balance)
    BY DEF NoSilentLoss, Balance, Volume
  <1>2. Init => NoSilentLoss
    <2> SUFFICES ASSUME Init PROVE NoSilentLoss
      OBVIOUS
    <2>1. /\ line = <<>> /\ buffer = <<>> /\ sent = <<>> /\ delivered = <<>>
          /\ discarded = 0
      BY DEF Init
    <2>2. Len(<<>>) = 0 /\ Volume(<<>>) = 0
      BY FlattenEmpty DEF Volume
    <2>3. /\ Len(line) = 0 /\ Len(buffer) = 0 /\ Len(delivered) = 0
          /\ Volume(sent) = 0 /\ Volume(delivered) = 0
      BY <2>1, <2>2, Zenon
    <2> QED BY <1>1, <2>1, <2>3 DEF Balance, MinimumFrameSize, HeaderSize, CrcSize
  <1>3. NoSilentLoss /\ Types /\ [Next]_vars => NoSilentLoss'
    <2> SUFFICES ASSUME NoSilentLoss, Types, [Next]_vars, errors' \subseteq {"InvalidHeader"}
                 PROVE  Balance'
      BY DEF NoSilentLoss, Balance, Volume
    <2>1. errors \subseteq errors'
      BY DEF Next, FeedAny, Extract, PeerSends, SetFrameCallback, Feed, FeedUnregistered,
             Wait, RejectSize, Deliver, RejectFrame, Reset, vars
    <2>2. Balance
      BY <1>1, <2>1
    <2> QED BY <2>2, KeepsBalance
  <1> QED BY <1>2, <1>3, TypesAlways, PTL DEF Spec

-----------------------------------------------------------------------------
(***************************************************************************)
(* A clean line.  While it holds, the buffer and the line together begin   *)
(* with the first unit that has not been delivered, so the header in the   *)
(* buffer is that unit's.                                                  *)
(***************************************************************************)

\* Every frame the peer puts on the line fits the buffer: TransmitFrame refuses
\* a payload of more than kMaxFrameSize bytes.
FramesFit == \A unit \in Units : IsFrame(unit) => Len(unit) <= Capacity

\* What has been sent and not been delivered.
ToCome == DropFirst(sent, Len(delivered))

Clean == Undisturbed /\ \A i \in 1 .. Len(sent) : IsFrame(sent[i])

InOrder ==
    /\ errors = {}
    /\ Len(delivered) <= Len(sent)
    /\ \A i \in 1 .. Len(delivered) : delivered[i] = Payload(sent[i])
    /\ buffer \o line = FlattenSeq(ToCome)

\* A line that is clean after a step was clean before it.
LEMMA CleanBefore ==
    ASSUME Types, [Next]_vars, Clean'
    PROVE  Clean
  <1>1. errors \subseteq errors'
    BY DEF Next, FeedAny, Extract, PeerSends, SetFrameCallback, Feed, FeedUnregistered,
           Wait, RejectSize, Deliver, RejectFrame, Reset, vars
  <1>2. discarded = 0
    <2>1. discarded \in Nat /\ buffer \in Seq(Bytes) /\ Len(buffer) \in Nat
      BY DEF Types, TypeOK
    <2>2. \/ discarded' = discarded \/ discarded' = discarded + Len(buffer)
          \/ \E n \in 1 .. MaxPiece : discarded' = discarded + n
      BY DEF Next, FeedAny, Extract, PeerSends, SetFrameCallback, Feed, FeedUnregistered,
             Wait, RejectSize, Deliver, RejectFrame, Reset, vars
    <2>3. discarded' = 0
      BY DEF Clean, Undisturbed
    <2> QED BY <2>1, <2>2, <2>3
  <1>3. \A i \in 1 .. Len(sent) : IsFrame(sent[i])
    <2>1. sent \in Seq(Units)
      BY DEF Types
    <2>2. sent' = sent \/ \E unit \in Units : sent' = Append(sent, unit)
      BY DEF Next, FeedAny, Extract, PeerSends, SetFrameCallback, Feed, FeedUnregistered,
             Wait, RejectSize, Deliver, RejectFrame, Reset, vars
    <2>3. \A i \in 1 .. Len(sent) : i \in 1 .. Len(sent') /\ sent'[i] = sent[i]
      BY <2>1, <2>2
    <2>4. \A i \in 1 .. Len(sent') : IsFrame(sent'[i])
      BY DEF Clean, IsFrame, Accepted, Payload, CrcMatches
    <2> QED BY <2>3, <2>4
  <1> QED BY <1>1, <1>2, <1>3 DEF Clean, Undisturbed

\* The next unit: it is a frame, and the buffer and the line begin with it.
LEMMA NextUnit ==
    ASSUME Types, Clean, InOrder, Len(buffer) > 0
    PROVE  /\ Len(delivered) < Len(sent)
           /\ \E unit \in Units, rest \in Seq(Bytes) :
                  /\ unit = sent[Len(delivered) + 1] /\ IsFrame(unit) /\ unit \in Seq(Bytes)
                  /\ buffer \o line = unit \o rest
                  /\ rest = FlattenSeq(DropFirst(sent, Len(delivered) + 1))
  <1> DEFINE k == Len(delivered)
  <1>0. /\ sent \in Seq(Units) /\ sent \in Seq(Seq(Bytes)) /\ k \in Nat /\ k <= Len(sent)
        /\ buffer \in Seq(Bytes) /\ line \in Seq(Bytes)
    BY Lengths DEF Types, TypeOK, InOrder
  <1>1. k < Len(sent)
    <2> SUFFICES ASSUME k = Len(sent) PROVE FALSE
      BY <1>0
    <2>1. ToCome = <<>>
      <3>1. DropFirst(sent, Len(sent)) = <<>>
        BY <1>0 DEF DropFirst
      <3> QED BY <3>1 DEF ToCome
    <2>2. buffer \o line = <<>>
      BY <2>1, FlattenEmpty DEF InOrder
    <2>3. Len(buffer \o line) = Len(buffer) + Len(line) /\ Len(line) \in Nat
      BY <1>0
    <2>4. Len(buffer \o line) = 0
      BY <2>2
    <2> QED BY <1>0, <2>3, <2>4
  <1> DEFINE unit == sent[k + 1]
             coming == DropFirst(sent, k)
             rest == FlattenSeq(DropFirst(sent, k + 1))
  <1>2. unit \in Units /\ IsFrame(unit) /\ unit \in Seq(Bytes)
    <2>1. k + 1 \in 1 .. Len(sent)
      BY <1>0, <1>1
    <2>2. unit \in Units /\ IsFrame(unit)
      BY <1>0, <2>1 DEF Clean
    <2> QED BY <2>2, UnitsAreBytes
  <1>3. coming \in Seq(Seq(Bytes)) /\ coming # <<>> /\ Head(coming) = unit
        /\ Tail(coming) = DropFirst(sent, k + 1)
    <2>1. k \in 0 .. Len(sent) /\ 1 \in 1 .. Len(sent) - k
      BY <1>0, <1>1
    <2>2. /\ coming \in Seq(Seq(Bytes)) /\ Len(coming) = Len(sent) - k
          /\ coming[1] = sent[k + 1]
      BY <1>0, <2>1, DropFirstIs
    <2>3. Tail(coming) = DropFirst(sent, k + 1)
      BY <1>0, <1>1 DEF DropFirst
    <2>4. coming # <<>>
      BY <1>0, <1>1, <2>2
    <2> QED BY <2>2, <2>3, <2>4
  <1>4. DropFirst(sent, k + 1) \in Seq(Seq(Bytes))
    <2>1. k + 1 \in 0 .. Len(sent)
      BY <1>0, <1>1
    <2> QED BY <1>0, <2>1, DropFirstIs
  <1>5. rest \in Seq(Bytes)
    BY <1>4, FlattenType
  <1>6. FlattenSeq(coming) = Head(coming) \o FlattenSeq(Tail(coming))
    BY <1>3, FlattenHead
  <1>7. buffer \o line = unit \o rest
    BY <1>3, <1>6 DEF InOrder, ToCome
  <1> HIDE DEF unit, rest
  <1>8. unit = sent[k + 1] /\ rest = FlattenSeq(DropFirst(sent, k + 1))
    BY DEF unit, rest
  <1> HIDE DEF k
  <1> QED BY <1>1, <1>2, <1>5, <1>7, <1>8, Zenon DEF k

\* The header in the buffer is the next unit's; so is the candidate, once the
\* buffer is long enough.
LEMMA HeaderIsNext ==
    ASSUME Types, Clean, InOrder, FramesFit, HeaderThere
    PROVE  /\ ~ SizeImpossible /\ Len(delivered) < Len(sent)
           /\ FrameThere => /\ Candidate = sent[Len(delivered) + 1] /\ Accepted(Candidate)
                            /\ Rest \o line = FlattenSeq(DropFirst(sent, Len(delivered) + 1))
  <1>0. buffer \in Seq(Bytes) /\ line \in Seq(Bytes) /\ Len(buffer) >= 4
    BY DEF Types, TypeOK, HeaderThere, HeaderSize
  <1>1. Len(delivered) < Len(sent) /\ \E unit \in Units, rest \in Seq(Bytes) :
            /\ unit = sent[Len(delivered) + 1] /\ IsFrame(unit) /\ unit \in Seq(Bytes)
            /\ buffer \o line = unit \o rest
            /\ rest = FlattenSeq(DropFirst(sent, Len(delivered) + 1))
    <2>1. Len(buffer) > 0
      BY <1>0
    <2> QED BY <2>1, NextUnit, Zenon
  <1>2. PICK unit \in Units, rest \in Seq(Bytes) :
            /\ unit = sent[Len(delivered) + 1] /\ IsFrame(unit) /\ unit \in Seq(Bytes)
            /\ buffer \o line = unit \o rest
            /\ rest = FlattenSeq(DropFirst(sent, Len(delivered) + 1))
    BY <1>1, Zenon
  <1>3. /\ Accepted(unit) /\ Len(unit) >= 5 /\ Len(unit) = TotalSize(unit)
        /\ Len(unit) <= Capacity
    <2>1. Accepted(unit) /\ Len(unit) <= Capacity
      BY <1>2, Zenon DEF IsFrame, FramesFit
    <2> QED BY <1>2, <2>1, AcceptedIs DEF MinimumFrameSize, HeaderSize, CrcSize
  <1>4. /\ \A i \in 1 .. Len(buffer) : i <= Len(unit) => buffer[i] = unit[i]
        /\ Len(unit) <= Len(buffer) => /\ SubSeq(buffer, 1, Len(unit)) = unit
                                       /\ DropFirst(buffer, Len(unit)) \o line = rest
    <2>1. /\ buffer \in Seq(Bytes) /\ line \in Seq(Bytes) /\ unit \in Seq(Bytes)
          /\ buffer \o line = unit \o rest
      BY <1>0, <1>2
    <2> QED BY <2>1, CutsAgree
  <1>5. TotalSize(buffer) = Len(unit)
    <2>1. 4 \in 1 .. Len(buffer) /\ 4 <= Len(unit)
      BY <1>0, <1>3
    <2>2. buffer[4] = unit[4]
      BY <1>4, <2>1
    <2> QED BY <1>3, <2>2 DEF TotalSize, PayloadSize
  <1>6. ~ SizeImpossible
    <2>1. Capacity \in Nat /\ Len(unit) \in Nat
      BY <1>2, CapacityIs
    <2> QED BY <1>3, <1>5, <2>1 DEF SizeImpossible
  <1>7. ASSUME FrameThere
        PROVE  Candidate = unit /\ Rest \o line = rest
    <2>1. Len(unit) <= Len(buffer)
      BY <1>5, <1>7 DEF FrameThere
    <2> QED BY <1>4, <1>5, <2>1 DEF Candidate, Rest
  <1> QED BY <1>1, <1>2, <1>3, <1>6, <1>7

\* The steps that matter to InOrder.
LEMMA SendsInOrder ==
    ASSUME Types, InOrder, NEW unit \in Units, PeerSends(unit)
    PROVE  InOrder'
  <1> DEFINE k == Len(delivered)
  <1>0. /\ sent \in Seq(Units) /\ sent \in Seq(Seq(Bytes)) /\ k \in Nat /\ k <= Len(sent)
        /\ buffer \in Seq(Bytes) /\ line \in Seq(Bytes) /\ unit \in Seq(Bytes)
    BY Lengths, UnitsAreBytes DEF Types, TypeOK, InOrder
  <1>1. /\ sent' = Append(sent, unit) /\ line' = line \o unit
        /\ buffer' = buffer /\ errors' = errors /\ delivered' = delivered
    BY DEF PeerSends
  <1>2. Append(sent, unit) \in Seq(Seq(Bytes)) /\ Len(Append(sent, unit)) = Len(sent) + 1
    BY <1>0
  <1>3. \A i \in 1 .. Len(sent) : Append(sent, unit)[i] = sent[i]
    BY <1>0
  <1>4. ToCome \in Seq(Seq(Bytes)) /\ ToCome' = Append(ToCome, unit)
    <2> DEFINE a == DropFirst(Append(sent, unit), k)
               b == Append(DropFirst(sent, k), unit)
    <2>1. k \in 0 .. Len(sent) /\ k \in 0 .. Len(Append(sent, unit))
      BY <1>0, <1>2
    <2>2. /\ DropFirst(sent, k) \in Seq(Seq(Bytes))
          /\ Len(DropFirst(sent, k)) = Len(sent) - k
          /\ \A i \in 1 .. Len(sent) - k : DropFirst(sent, k)[i] = sent[k + i]
      BY <1>0, <2>1, DropFirstIs
    <2>3. /\ a \in Seq(Seq(Bytes)) /\ Len(a) = Len(sent) + 1 - k
          /\ \A i \in 1 .. Len(sent) + 1 - k : a[i] = Append(sent, unit)[k + i]
      <3>1. PICK longer \in Seq(Seq(Bytes)) : longer = Append(sent, unit)
        BY <1>2
      <3>2. k \in 0 .. Len(longer) /\ Len(longer) = Len(sent) + 1
        BY <1>2, <2>1, <3>1
      <3>3. /\ DropFirst(longer, k) \in Seq(Seq(Bytes))
            /\ Len(DropFirst(longer, k)) = Len(longer) - k
            /\ \A i \in 1 .. Len(longer) - k : DropFirst(longer, k)[i] = longer[k + i]
        BY <3>2, DropFirstIs
      <3>4. a = DropFirst(longer, k)
        BY <3>1
      <3> HIDE DEF a, k
      <3> QED BY <3>1, <3>2, <3>3, <3>4
    <2>4. b \in Seq(Seq(Bytes)) /\ Len(b) = Len(sent) - k + 1
          /\ (\A i \in 1 .. Len(sent) - k : b[i] = DropFirst(sent, k)[i])
          /\ b[Len(sent) - k + 1] = unit
      BY <1>0, <2>2
    <2>5. ASSUME NEW i \in 1 .. Len(sent) + 1 - k PROVE a[i] = b[i]
      <3>1. CASE i <= Len(sent) - k
        <4>1. i \in 1 .. Len(sent) - k /\ k + i \in 1 .. Len(sent)
          BY <1>0, <3>1
        <4>2. a[i] = Append(sent, unit)[k + i]
          BY <2>3
        <4>3. b[i] = sent[k + i]
          BY <2>2, <2>4, <4>1
        <4> QED BY <1>3, <4>1, <4>2, <4>3
      <3>2. CASE ~ i <= Len(sent) - k
        <4>1. i = Len(sent) - k + 1 /\ k + i = Len(sent) + 1
          BY <1>0, <3>2
        <4>2. a[i] = Append(sent, unit)[Len(sent) + 1]
          BY <2>3, <4>1
        <4>3. Append(sent, unit)[Len(sent) + 1] = unit
          BY <1>0
        <4> QED BY <2>4, <4>1, <4>2, <4>3
      <3> QED BY <3>1, <3>2
    <2> HIDE DEF a, b
    <2>6. Len(a) = Len(b) /\ \A i \in 1 .. Len(a) : a[i] = b[i]
      BY <1>0, <2>3, <2>4, <2>5
    <2>7. a = b
      BY <2>3, <2>4, <2>6, SeqEqual, Zenon
    <2>8. ToCome = DropFirst(sent, k) /\ ToCome' = a
      BY <1>1 DEF ToCome, DropFirst, a
    <2> QED BY <2>2, <2>7, <2>8 DEF b
  <1>5. FlattenSeq(ToCome') = FlattenSeq(ToCome) \o unit
    BY <1>0, <1>4, FlattenAppend
  <1>6. buffer \o (line \o unit) = (buffer \o line) \o unit
    <2>1. Associates(buffer, line, unit)
      BY <1>0, ConcatAgain, Zenon
    <2> QED BY <2>1, Zenon DEF Associates
  <1>7. buffer' \o line' = FlattenSeq(ToCome')
    <2>1. buffer \o line = FlattenSeq(ToCome)
      BY DEF InOrder
    <2> QED BY <1>1, <1>5, <1>6, <2>1, Zenon
  <1>8. Len(delivered') <= Len(sent')
    BY <1>0, <1>1, <1>2
  <1>9. \A i \in 1 .. Len(delivered') : delivered'[i] = Payload(sent'[i])
    <2>1. \A i \in 1 .. k : i \in 1 .. Len(sent)
      BY <1>0
    <2>2. \A i \in 1 .. k : delivered[i] = Payload(sent[i])
      BY DEF InOrder
    <2> QED BY <1>1, <1>3, <2>1, <2>2, Zenon
  <1>10. errors' = {}
    BY <1>1 DEF InOrder
  <1> QED BY <1>7, <1>8, <1>9, <1>10 DEF InOrder, Payload, PayloadSize

\* feed moves bytes from the line to the buffer.
LEMMA FeedsInOrder ==
    ASSUME Types, Clean', InOrder, NEW n \in 1 .. MaxPiece, Feed(n)
    PROVE  InOrder'
  <1>0. /\ buffer \in Seq(Bytes) /\ line \in Seq(Bytes)
        /\ n <= Len(line) /\ line' = DropFirst(line, n)
        /\ sent' = sent /\ delivered' = delivered
    BY DEF Types, TypeOK, Feed
  <1>1. Fits(buffer, n)
    BY DEF Clean, Undisturbed, Feed
  <1>2. buffer' = buffer \o SubSeq(line, 1, n) /\ errors' = errors
    BY <1>1 DEF Feed
  <1>3. n \in 0 .. Len(line)
    BY <1>0
  <1> DEFINE piece == SubSeq(line, 1, n)
             after == DropFirst(line, n)
  <1>4. piece \in Seq(Bytes) /\ after \in Seq(Bytes) /\ piece \o after = line
    BY <1>0, <1>3, PrefixIs, DropFirstIs, PrefixAndRest
  <1> HIDE DEF piece, after
  <1>5. (buffer \o piece) \o after = buffer \o (piece \o after)
    <2>1. Associates(buffer, piece, after)
      BY <1>0, <1>4, ConcatAgain, Zenon
    <2> QED BY <2>1, Zenon DEF Associates
  <1>6. buffer' \o line' = buffer \o line
    BY <1>0, <1>2, <1>4, <1>5, Zenon DEF piece, after
  <1>7. ToCome' = ToCome
    BY <1>0 DEF ToCome, DropFirst
  <1> QED BY <1>0, <1>2, <1>6, <1>7 DEF InOrder, Payload, PayloadSize

\* Deliver takes the next unit from the buffer.
LEMMA DeliversInOrder ==
    ASSUME Types, Clean, InOrder, FramesFit, Deliver
    PROVE  InOrder'
  <1> DEFINE k == Len(delivered)
             payload == Payload(Candidate)
  <1>0. /\ delivered \in Seq(Seq(Bytes)) /\ k \in Nat /\ Len(sent) \in Nat
    BY LenProperties DEF Types
  <1>1. /\ HeaderThere /\ FrameThere /\ delivered' = Append(delivered, payload)
        /\ buffer' = Rest /\ sent' = sent /\ line' = line /\ errors' = errors
    BY DEF Deliver, Remaining
  <1>2. /\ k < Len(sent) /\ Candidate = sent[k + 1]
        /\ Rest \o line = FlattenSeq(DropFirst(sent, k + 1))
    BY <1>1, HeaderIsNext
  <1>3. payload \in Seq(Bytes)
    BY DeliveredTyped
  <1>4. /\ Len(delivered') = k + 1 /\ delivered'[k + 1] = payload
        /\ \A i \in 1 .. k : delivered'[i] = delivered[i]
    BY <1>0, <1>1, <1>3, AppendProperties
  <1>5. payload = Payload(sent[k + 1])
    BY <1>2
  <1> HIDE DEF payload
  <1>6. \A i \in 1 .. Len(delivered') : delivered'[i] = Payload(sent'[i])
    <2>1. \A i \in 1 .. k : delivered[i] = Payload(sent[i])
      BY DEF InOrder
    <2>2. \A i \in 1 .. k + 1 : i \in 1 .. k \/ i = k + 1
      BY <1>0
    <2> QED BY <1>1, <1>4, <1>5, <2>1, <2>2, Zenon
  <1>7. ToCome' = DropFirst(sent, k + 1)
    BY <1>1, <1>4 DEF ToCome, DropFirst
  <1>8. Len(delivered') <= Len(sent')
    BY <1>0, <1>1, <1>2, <1>4
  <1>9. errors' = {}
    BY <1>1 DEF InOrder
  <1>10. buffer' \o line' = FlattenSeq(ToCome')
    BY <1>1, <1>2, <1>7, Zenon
  <1> QED BY <1>6, <1>8, <1>9, <1>10 DEF InOrder, Payload, PayloadSize

\* No other step moves bytes while the line is clean.
LEMMA StaysInOrder ==
    ASSUME Types, [Next]_vars, Clean', Clean, InOrder, FramesFit
    PROVE  InOrder'
  <1>0. /\ buffer \in Seq(Bytes) /\ Len(buffer) \in Nat /\ discarded \in Nat
        /\ discarded' = 0 /\ errors \subseteq errors'
    <2>1. errors \subseteq errors'
      BY DEF Next, FeedAny, Extract, PeerSends, SetFrameCallback, Feed, FeedUnregistered,
             Wait, RejectSize, Deliver, RejectFrame, Reset, vars
    <2> QED BY <2>1 DEF Types, TypeOK, Clean, Undisturbed
  <1>1. ASSUME NEW n \in 1 .. MaxPiece, FeedUnregistered(n) PROVE FALSE
    BY <1>0, <1>1 DEF FeedUnregistered
  <1>2. ASSUME UNCHANGED <<buffer, line, sent, delivered, errors>> PROVE InOrder'
    BY <1>2 DEF InOrder, ToCome, DropFirst, Payload, PayloadSize
  <1>3. CASE SetFrameCallback \/ Wait \/ UNCHANGED vars
    BY <1>2, <1>3 DEF SetFrameCallback, Wait, vars
  <1>4. ~ RejectSize /\ ~ RejectFrame
    BY HeaderIsNext DEF RejectSize, RejectFrame
  <1>5. CASE Reset
    <2>1. Len(buffer) = 0
      BY <1>0, <1>5 DEF Reset, Clean, Undisturbed
    <2>2. buffer = <<>>
      BY <1>0, <2>1
    <2> QED BY <1>2, <1>5, <2>2 DEF Reset
  <1> QED BY <1>1, <1>3, <1>4, <1>5, SendsInOrder, FeedsInOrder, DeliversInOrder
          DEF Next, FeedAny, Extract

\* CleanStream, for any bytes and any way of cutting them, if every frame fits
\* the buffer: on a line of nothing but frames the payloads are delivered in
\* order, none lost, none twice, none made up, and no error is reported (feed,
\* extractFrames, trySync).
THEOREM CleanLine == ASSUME FramesFit PROVE Spec => []CleanStream
  <1>1. CleanStream <=> (Clean => InOrder)
    BY DEF CleanStream, Clean, InOrder, ToCome
  <1>2. Init => CleanStream
    <2> SUFFICES ASSUME Init PROVE InOrder
      BY <1>1
    <2>1. /\ line = <<>> /\ buffer = <<>> /\ sent = <<>> /\ delivered = <<>> /\ errors = {}
      BY DEF Init
    <2>2. Len(<<>>) = 0 /\ <<>> \o <<>> = <<>> /\ FlattenSeq(<<>>) = <<>>
      BY FlattenEmpty
    <2>3. DropFirst(<<>>, 0) = <<>>
      BY DEF DropFirst
    <2>4. buffer \o line = FlattenSeq(ToCome)
      BY <2>1, <2>2, <2>3, Zenon DEF ToCome
    <2>5. Len(delivered) = 0 /\ Len(sent) = 0
      BY <2>1, <2>2, Zenon
    <2> QED BY <2>1, <2>4, <2>5 DEF InOrder
  <1>3. CleanStream /\ Types /\ [Next]_vars => CleanStream'
    <2> SUFFICES ASSUME CleanStream, Types, [Next]_vars PROVE CleanStream'
      OBVIOUS
    <2>1. ASSUME Clean' PROVE InOrder'
      <3>1. Clean
        BY <2>1, CleanBefore
      <3>2. InOrder
        BY <1>1, <3>1
      <3> QED BY <2>1, <3>1, <3>2, StaysInOrder
    <2>2. CleanStream' <=> (Clean' => InOrder')
      BY DEF CleanStream, Clean, InOrder, ToCome, DropFirst, IsFrame, Undisturbed
    <2> QED BY <2>1, <2>2
  <1> QED BY <1>2, <1>3, TypesAlways, PTL DEF Spec

\* What BuildFrame and TransmitFrame compose of a payload they do not refuse is
\* a frame, it carries that payload, and it fits the buffer: the clean line of
\* the theorem is the one the senders produce.
THEOREM Composes ==
    ASSUME NEW seq \in Bytes, NEW payload \in Seq(Bytes),
           Len(payload) <= MaxPayload, MinimumFrameSize + Len(payload) < SizeModulus
    PROVE  /\ IsFrame(BuildFrame(seq, payload))
           /\ Payload(BuildFrame(seq, payload)) = payload
           /\ Len(BuildFrame(seq, payload)) <= Capacity
  <1> DEFINE n == Len(payload)
             header == <<Version, DataType, seq, n>>
             covered == header \o payload
             crc == ComputeCrc32(covered)
             bytes == Append(covered, crc)
  <1>0. n \in Nat /\ SizeModulus \in Nat /\ MaxPayload \in Nat
    <2>1. SizeModulus \in Nat /\ MaxPayload \in Nat
      BY StreamAssumption, Zenon
    <2> QED BY <2>1
  <1> DEFINE Values == Bytes \cup {Version, DataType, n, crc}
  <1>1. payload \in Seq(Values) /\ crc \in Values
    BY SeqMonotonic
  <1>2. /\ header \in Seq(Values) /\ Len(header) = 4
        /\ header[1] = Version /\ header[2] = DataType /\ header[4] = n
    <2>1. Version \in Values /\ DataType \in Values /\ seq \in Values /\ n \in Values
      OBVIOUS
    <2> HIDE DEF Values, n
    <2> QED BY <2>1
  <1> HIDE DEF Values, header, crc
  <1>3. /\ covered \in Seq(Values) /\ Len(covered) = 4 + n
        /\ covered[1] = Version /\ covered[2] = DataType /\ covered[4] = n
        /\ \A i \in 1 .. n : covered[4 + i] = payload[i]
    <2>1. /\ covered \in Seq(Values) /\ Len(covered) = 4 + n
          /\ \A i \in 1 .. 4 : covered[i] = header[i]
          /\ \A i \in 1 .. n : covered[4 + i] = payload[i]
      <3> HIDE DEF covered, n
      <3>1. PICK h \in Seq(Values) : h = header /\ Len(h) = 4
        BY <1>2, Zenon
      <3>2. PICK p \in Seq(Values) : p = payload
        BY <1>1, Zenon
      <3>3. /\ h \o p \in Seq(Values) /\ Len(h \o p) = Len(h) + Len(p)
            /\ \A i \in 1 .. Len(h) : (h \o p)[i] = h[i]
            /\ \A i \in 1 .. Len(p) : (h \o p)[Len(h) + i] = p[i]
        BY ConcatIs
      <3>4. h \o p = covered /\ Len(p) = n
        BY <3>1, <3>2, Zenon DEF covered, n
      <3> QED BY <3>1, <3>2, <3>3, <3>4
    <2> QED BY <1>2, <2>1
  <1> HIDE DEF covered
  <1>4. /\ bytes \in Seq(Values) /\ Len(bytes) = 5 + n /\ bytes[5 + n] = crc
        /\ \A i \in 1 .. 4 + n : bytes[i] = covered[i]
    BY <1>0, <1>1, <1>3
  <1> HIDE DEF bytes
  <1>5. bytes[1] = Version /\ bytes[2] = DataType /\ PayloadSize(bytes) = n
    <2>1. 1 \in 1 .. 4 + n /\ 2 \in 1 .. 4 + n /\ 4 \in 1 .. 4 + n
      BY <1>0
    <2> QED BY <1>3, <1>4, <2>1 DEF PayloadSize
  <1>6. TotalSize(bytes) = 5 + n
    <2>1. 4 + n + 1 = 5 + n /\ 5 + n < SizeModulus
      BY <1>0 DEF MinimumFrameSize, HeaderSize, CrcSize
    <2>2. (4 + n + 1) % SizeModulus = 5 + n
      BY <1>0, <2>1
    <2> QED BY <1>5, <2>2 DEF TotalSize, HeaderSize, CrcSize
  <1>7. SubSeq(bytes, 1, 4 + n) = covered
    <2>1. /\ SubSeq(bytes, 1, 4 + n) \in Seq(Values) /\ Len(SubSeq(bytes, 1, 4 + n)) = 4 + n
          /\ \A i \in 1 .. 4 + n : SubSeq(bytes, 1, 4 + n)[i] = bytes[i]
      <3>1. 4 + n \in 0 .. Len(bytes)
        BY <1>0, <1>4
      <3> QED BY <1>4, <3>1, PrefixIs
    <2>2. /\ Len(SubSeq(bytes, 1, 4 + n)) = Len(covered)
          /\ \A i \in 1 .. Len(covered) : SubSeq(bytes, 1, 4 + n)[i] = covered[i]
      BY <1>3, <1>4, <2>1
    <2> QED BY <1>3, <2>1, <2>2, SeqEqual
  <1>8. CrcMatches(bytes)
    <2>1. Len(bytes) - 1 = 4 + n
      BY <1>0, <1>4
    <2> QED BY <1>4, <1>7, <2>1 DEF CrcMatches, CrcSize, crc
  <1>9. IsFrame(bytes)
    <2>1. Len(bytes) >= 5
      BY <1>0, <1>4
    <2> QED BY <1>4, <1>5, <1>6, <1>8, <2>1
            DEF IsFrame, Accepted, MinimumFrameSize, HeaderSize, CrcSize
  <1>10. Payload(bytes) = payload
    <2> DEFINE p == SubSeq(bytes, 5, 4 + n)
    <2>1. /\ p \in Seq(Values) /\ Len(p) = n
          /\ \A i \in 1 .. n : p[i] = bytes[4 + i]
      <3>1. 5 + n \in Nat /\ 4 + n <= Len(bytes) /\ (4 + n) - 5 + 1 = n
        BY <1>0, <1>4
      <3> QED BY <1>0, <1>4, <3>1
    <2> HIDE DEF p
    <2>2. ASSUME NEW i \in 1 .. n PROVE p[i] = payload[i]
      <3>1. 4 + i \in 1 .. 4 + n
        BY <1>0
      <3> QED BY <1>3, <1>4, <2>1, <3>1
    <2>3. p = payload
      BY <1>1, <2>1, <2>2, SeqEqual
    <2> QED BY <1>5, <2>3 DEF Payload, HeaderSize, p
  <1>11. Len(bytes) <= Capacity
    BY <1>0, <1>4 DEF Capacity, HeaderSize, CrcSize
  <1>12. bytes = BuildFrame(seq, payload)
    BY DEF bytes, covered, header, crc, BuildFrame
  <1> QED BY <1>9, <1>10, <1>11, <1>12

-----------------------------------------------------------------------------
(***************************************************************************)
(* The loop of extractFrames.                                              *)
(***************************************************************************)

\* No announced size makes the sum of a frame's sizes wrap to nothing: it cannot
\* where std::size_t has 64 bits, and where it has 32 only the size 2^32 - 12 does.
NoFrameIsNothing ==
    \A size \in Bytes : (HeaderSize + size + CrcSize) % SizeModulus # 0

\* A search for a version byte that finds one leaves less than there was.
LEMMA SyncShortens ==
    ASSUME NEW bytes \in Seq(Bytes), NEW otherwise, SyncPoints(bytes) # {}
    PROVE  Len(Synced(bytes, otherwise)) < Len(bytes)
  <1> DEFINE first == Min(SyncPoints(bytes))
  <1>1. SyncPoints(bytes) \in SUBSET Nat
    BY DEF SyncPoints
  <1>2. first \in SyncPoints(bytes)
    BY <1>1, MinIsLeast
  <1>3. first \in 2 .. Len(bytes)
    BY <1>2 DEF SyncPoints
  <1>4. Synced(bytes, otherwise) = DropFirst(bytes, first - 1)
    BY DEF Synced
  <1> HIDE DEF first
  <1>5. first - 1 \in 0 .. Len(bytes)
    BY <1>3
  <1>6. Len(DropFirst(bytes, first - 1)) = Len(bytes) - (first - 1)
    BY <1>5, DropFirstIs
  <1>7. Len(bytes) \in Nat
    OBVIOUS
  <1> QED BY <1>3, <1>4, <1>6, <1>7

\* What is left behind a candidate is less than what there was with it.
LEMMA RestShorter ==
    ASSUME Types, NoFrameIsNothing, HeaderThere, FrameThere
    PROVE  Len(Rest) < Len(buffer)
  <1>1. buffer \in Seq(Bytes) /\ Len(buffer) \in Nat /\ Len(buffer) >= 4
    BY DEF Types, TypeOK, HeaderThere, HeaderSize
  <1>2. PayloadSize(buffer) \in Bytes
    BY <1>1 DEF PayloadSize
  <1>3. TotalSize(buffer) # 0
    BY <1>2 DEF NoFrameIsNothing, TotalSize
  <1>4. PICK n \in 0 .. Len(buffer) : n = TotalSize(buffer)
    BY TotalWithin
  <1>5. Len(DropFirst(buffer, n)) = Len(buffer) - n
    BY <1>1, DropFirstIs
  <1>6. Rest = DropFirst(buffer, n)
    BY <1>4 DEF Rest
  <1> QED BY <1>1, <1>3, <1>4, <1>5, <1>6

\* Every turn of extractFrames (stream_processor.cpp) ends the loop or shortens the
\* buffer, whatever bytes came in: a frame is taken off it, and a rejected one costs
\* at least its version byte.
THEOREM LoopShortens == ASSUME NoFrameIsNothing PROVE Spec => TurnsShorten
  <1>1. ASSUME Types, Extract PROVE ~ extracting' \/ Len(buffer') < Len(buffer)
    <2>1. buffer \in Seq(Bytes)
      BY <1>1 DEF Types, TypeOK
    <2>2. CASE Wait
      BY <2>2 DEF Wait
    <2>3. CASE RejectSize
      <3>1. buffer' = Synced(buffer, <<>>) /\ extracting' = (SyncPoints(buffer) # {})
        BY <2>3 DEF RejectSize
      <3>2. CASE SyncPoints(buffer) = {}
        BY <3>1, <3>2
      <3>3. CASE SyncPoints(buffer) # {}
        BY <2>1, <3>1, <3>3, SyncShortens
      <3> QED BY <3>2, <3>3
    <2>4. CASE Deliver
      <3>1. buffer' = Rest /\ HeaderThere /\ FrameThere
        BY <2>4 DEF Deliver, Remaining
      <3> QED BY <1>1, <3>1, RestShorter
    <2>5. CASE RejectFrame
      <3>1. buffer' = Synced(buffer, Rest) /\ HeaderThere /\ FrameThere
        BY <2>5 DEF RejectFrame
      <3>2. CASE SyncPoints(buffer) = {}
        <4>1. Synced(buffer, Rest) = Rest
          BY <3>2 DEF Synced
        <4> QED BY <1>1, <3>1, <4>1, RestShorter
      <3>3. CASE SyncPoints(buffer) # {}
        BY <2>1, <3>1, <3>3, SyncShortens
      <3> QED BY <3>2, <3>3
    <2> QED BY <1>1, <2>2, <2>3, <2>4, <2>5 DEF Extract
  <1>2. Types /\ [Next]_vars => [Extract => ~ extracting' \/ Len(buffer') < Len(buffer)]_vars
    BY <1>1
  <1> QED BY <1>2, TypesAlways, PTL DEF Spec, TurnsShorten

=============================================================================
