------------------------- MODULE Sha256Stream_proofs -------------------------
(***************************************************************************)
(* The hash of a message does not depend on how it was cut into calls of   *)
(* update, and is that of the padded message cut into blocks, for every    *)
(* length of a block and of the length field.                              *)
(***************************************************************************)
EXTENDS Sha256Stream, TLAPS, SequenceTheorems

-----------------------------------------------------------------------------
(* Blocks of a length.                                                     *)

LEMMA DivMod ==
    ASSUME NEW n \in Nat
    PROVE  /\ n \div BlockLen \in Nat /\ n % BlockLen \in 0..(BlockLen - 1)
           /\ n = (n \div BlockLen) * BlockLen + (n % BlockLen)
BY BlockAssumption

LEMMA MulMono ==
    ASSUME NEW a \in Nat, NEW b \in Nat, a < b
    PROVE  a * BlockLen + BlockLen =< b * BlockLen
BY BlockAssumption

LEMMA DivModUnique ==
    ASSUME NEW q \in Nat, NEW r \in 0..(BlockLen - 1)
    PROVE  /\ (q * BlockLen + r) \div BlockLen = q
           /\ (q * BlockLen + r) % BlockLen = r
<1> DEFINE n == q * BlockLen + r
           p == n \div BlockLen
           m == n % BlockLen
<1>1. n \in Nat
  BY BlockAssumption
<1>2. p \in Nat /\ m \in 0..(BlockLen - 1) /\ n = p * BlockLen + m
  <2> HIDE DEF n
  <2> QED BY <1>1, DivMod
<1> HIDE DEF p, m
<1>3. q * BlockLen + r = p * BlockLen + m
  BY <1>2
<1>4. q * BlockLen \in Nat /\ p * BlockLen \in Nat /\ BlockLen \in Nat
  BY <1>2, BlockAssumption
<1>5. ~ (q < p)
  BY <1>2, <1>3, <1>4, MulMono
<1>6. ~ (p < q)
  BY <1>2, <1>3, <1>4, MulMono
<1>7. p = q
  BY <1>2, <1>5, <1>6
<1> QED BY <1>2, <1>3, <1>4, <1>7 DEF p, m

\* A block ends within the length it is counted from.
LEMMA BlockWithin ==
    ASSUME NEW n \in Nat, NEW b \in 1..(n \div BlockLen)
    PROVE  /\ b * BlockLen \in 1..n /\ (b - 1) * BlockLen + 1 \in 1..n
           /\ (b - 1) * BlockLen + BlockLen = b * BlockLen
           /\ b * BlockLen =< (n \div BlockLen) * BlockLen
<1>1. /\ n \div BlockLen \in Nat /\ n % BlockLen \in 0..(BlockLen - 1)
      /\ n = (n \div BlockLen) * BlockLen + (n % BlockLen)
  BY DivMod
<1>2. (b - 1) * BlockLen + BlockLen = b * BlockLen
  BY BlockAssumption, <1>1
<1>3. (b - 1) * BlockLen \in Nat
  BY BlockAssumption, <1>1
<1>4. b * BlockLen =< (n \div BlockLen) * BlockLen
  <2>1. CASE b = n \div BlockLen
    BY <2>1, <1>1, BlockAssumption
  <2>2. CASE b < n \div BlockLen
    BY <2>2, <1>1, MulMono, BlockAssumption
  <2> QED BY <1>1, <2>1, <2>2
<1> QED BY <1>1, <1>2, <1>3, <1>4, BlockAssumption

\* A whole number of blocks in front does not change what is left over.
LEMMA DivModSum ==
    ASSUME NEW m \in Nat, NEW n \in Nat, m % BlockLen = 0
    PROVE  /\ (m + n) \div BlockLen = (m \div BlockLen) + (n \div BlockLen)
           /\ (m + n) % BlockLen = n % BlockLen
           /\ m = (m \div BlockLen) * BlockLen
           /\ ((m \div BlockLen) + (n \div BlockLen)) * BlockLen
                = m + (n \div BlockLen) * BlockLen
<1> DEFINE q == m \div BlockLen
           p == n \div BlockLen
           r == n % BlockLen
<1>1. q \in Nat /\ m = q * BlockLen
  <2>1. q \in Nat /\ m = q * BlockLen + 0
    BY DivMod
  <2> HIDE DEF q
  <2> QED BY <2>1, BlockAssumption
<1>2. p \in Nat /\ r \in 0..(BlockLen - 1) /\ n = p * BlockLen + r
  BY DivMod
<1> HIDE DEF q, p, r
<1>3. (q + p) * BlockLen = q * BlockLen + p * BlockLen
  BY <1>1, <1>2, BlockAssumption
<1>4. m + n = (q + p) * BlockLen + r
  BY <1>1, <1>2, <1>3, BlockAssumption
<1>5. (m + n) \div BlockLen = q + p /\ (m + n) % BlockLen = r
  BY <1>1, <1>2, <1>4, DivModUnique
<1> QED BY <1>1, <1>3, <1>5 DEF q, p, r

-----------------------------------------------------------------------------
(* Pieces of a message.                                                    *)

LEMMA SameSeq ==
    ASSUME NEW X, NEW s \in Seq(X), NEW t \in Seq(X), Len(s) = Len(t),
           \A k \in 1..Len(s) : s[k] = t[k]
    PROVE  s = t
OBVIOUS

LEMMA AfterIs ==
    ASSUME NEW X, NEW m \in Seq(X), NEW n \in 0..Len(m)
    PROVE  /\ After(m, n) \in Seq(X) /\ Len(After(m, n)) = Len(m) - n
           /\ \A k \in 1..(Len(m) - n) : After(m, n)[k] = m[n + k]
<1>1. /\ SubSeq(m, n + 1, Len(m)) \in Seq(X)
      /\ Len(SubSeq(m, n + 1, Len(m))) =
           IF n + 1 <= Len(m) THEN Len(m) - (n + 1) + 1 ELSE 0
      /\ \A k \in 1..(Len(m) - (n + 1) + 1) :
           SubSeq(m, n + 1, Len(m))[k] = m[n + 1 + k - 1]
  BY SubSeqProperties
<1>2. Len(m) - (n + 1) + 1 = Len(m) - n
  OBVIOUS
<1>3. ASSUME NEW k \in 1..(Len(m) - n) PROVE After(m, n)[k] = m[n + k]
  <2>1. n + 1 + k - 1 = n + k
    OBVIOUS
  <2> QED BY <1>1, <1>2, <2>1 DEF After
<1>4. (IF n + 1 <= Len(m) THEN Len(m) - (n + 1) + 1 ELSE 0) = Len(m) - n
  OBVIOUS
<1> QED BY <1>1, <1>3, <1>4 DEF After

LEMMA FirstIs ==
    ASSUME NEW X, NEW m \in Seq(X), NEW n \in 0..Len(m)
    PROVE  /\ First(m, n) \in Seq(X) /\ Len(First(m, n)) = n
           /\ \A k \in 1..n : First(m, n)[k] = m[k]
<1>1. /\ SubSeq(m, 1, n) \in Seq(X)
      /\ Len(SubSeq(m, 1, n)) = IF 1 <= n THEN n - 1 + 1 ELSE 0
      /\ \A k \in 1..(n - 1 + 1) : SubSeq(m, 1, n)[k] = m[1 + k - 1]
  BY SubSeqProperties
<1>2. n - 1 + 1 = n /\ \A k \in Nat : 1 + k - 1 = k
  OBVIOUS
<1> QED BY <1>1, <1>2 DEF First

LEMMA SplitAt ==
    ASSUME NEW X, NEW m \in Seq(X), NEW n \in 0..Len(m)
    PROVE  First(m, n) \o After(m, n) = m
<1>1. SubSeq(m, 1, n) \o SubSeq(m, n + 1, Len(m)) = SubSeq(m, 1, Len(m))
  <2>1. /\ 1 \in 1..(Len(m) + 1) /\ n \in (1 - 1)..Len(m)
        /\ Len(m) \in n..Len(m)
    OBVIOUS
  <2> QED BY <2>1, ConcatAdjacentSubSeq
<1> QED BY <1>1, SubSeqFull DEF First, After

LEMMA AfterConcat ==
    ASSUME NEW X, NEW m \in Seq(X), NEW d \in Seq(X)
    PROVE  /\ \A n \in 0..Len(m) : After(m \o d, n) = After(m, n) \o d
           /\ \A n \in 0..Len(d) : After(m \o d, Len(m) + n) = After(d, n)
<1> DEFINE c == m \o d
<1>1. /\ c \in Seq(X) /\ Len(c) = Len(m) + Len(d)
      /\ \A k \in 1..(Len(m) + Len(d)) :
           c[k] = IF k =< Len(m) THEN m[k] ELSE d[k - Len(m)]
  BY ConcatProperties
<1> HIDE DEF c
<1>2. ASSUME NEW n \in 0..Len(m) PROVE After(c, n) = After(m, n) \o d
  <2> DEFINE a == After(m, n)
             l == After(c, n)
  <2>1. /\ l \in Seq(X) /\ Len(l) = Len(c) - n
        /\ \A k \in 1..(Len(c) - n) : l[k] = c[n + k]
    <3>1. n \in 0..Len(c)
      BY <1>1, <1>2
    <3> QED BY <1>1, <3>1, AfterIs
  <2>2. /\ a \in Seq(X) /\ Len(a) = Len(m) - n
        /\ \A k \in 1..(Len(m) - n) : a[k] = m[n + k]
    BY <1>2, AfterIs
  <2> HIDE DEF a, l
  <2>3. /\ a \o d \in Seq(X) /\ Len(a \o d) = Len(a) + Len(d)
        /\ \A k \in 1..(Len(a) + Len(d)) :
             (a \o d)[k] = IF k =< Len(a) THEN a[k] ELSE d[k - Len(a)]
    BY <2>2, ConcatProperties
  <2>4. ASSUME NEW k \in 1..Len(l) PROVE l[k] = (a \o d)[k]
    <3>1. /\ l[k] = c[n + k] /\ n + k \in 1..(Len(m) + Len(d))
          /\ k \in 1..(Len(a) + Len(d))
      BY <1>1, <2>1, <2>2
    <3>2. CASE k =< Len(m) - n
      <4>1. n + k =< Len(m) /\ k =< Len(a) /\ k \in 1..(Len(m) - n)
        BY <2>2, <3>2
      <4> QED BY <1>1, <2>2, <2>3, <3>1, <4>1
    <3>3. CASE ~ (k =< Len(m) - n)
      <4>1. ~ (n + k =< Len(m)) /\ ~ (k =< Len(a)) /\ n + k - Len(m) = k - Len(a)
        BY <2>2, <3>3
      <4> QED BY <1>1, <2>3, <3>1, <4>1
    <3> QED BY <3>2, <3>3
  <2>5. Len(l) = Len(a \o d)
    BY <1>1, <2>1, <2>2, <2>3
  <2>6. l = a \o d
    BY <2>1, <2>3, <2>4, <2>5, SameSeq
  <2> QED BY <2>6 DEF a, l
<1>3. ASSUME NEW n \in 0..Len(d) PROVE After(c, Len(m) + n) = After(d, n)
  <2> DEFINE a == After(d, n)
             l == After(c, Len(m) + n)
  <2>1. Len(m) + n \in 0..Len(c) /\ Len(c) - (Len(m) + n) = Len(d) - n
    BY <1>1, <1>3
  <2>2. /\ l \in Seq(X) /\ Len(l) = Len(d) - n
        /\ \A k \in 1..(Len(d) - n) : l[k] = c[Len(m) + n + k]
    BY <1>1, <2>1, AfterIs
  <2>3. /\ a \in Seq(X) /\ Len(a) = Len(d) - n
        /\ \A k \in 1..(Len(d) - n) : a[k] = d[n + k]
    BY <1>3, AfterIs
  <2> HIDE DEF a, l
  <2>4. ASSUME NEW k \in 1..(Len(d) - n) PROVE l[k] = a[k]
    <3>1. /\ Len(m) + n + k \in 1..(Len(m) + Len(d))
          /\ ~ (Len(m) + n + k =< Len(m)) /\ Len(m) + n + k - Len(m) = n + k
      BY <1>3
    <3>2. l[k] = c[Len(m) + n + k] /\ a[k] = d[n + k]
      BY <2>2, <2>3
    <3>3. c[Len(m) + n + k] = d[Len(m) + n + k - Len(m)]
      BY <1>1, <3>1
    <3> QED BY <3>1, <3>2, <3>3
  <2>5. l = a
    BY <2>2, <2>3, <2>4, SameSeq
  <2> QED BY <2>5 DEF a, l
<1> QED BY <1>2, <1>3 DEF c

-----------------------------------------------------------------------------
(* What the hasher holds.                                                  *)

\* The whole blocks of a message, and what is left over.
Blocks(m) ==
    [ b \in 1..(Len(m) \div BlockLen) |->
        SubSeq(m, (b - 1) * BlockLen + 1, b * BlockLen) ]
Rest(m) == After(m, (Len(m) \div BlockLen) * BlockLen)

\* A hasher that got the message m, and has counted so many bits.
Fed(m, bits) == [h |-> Blocks(m), bits |-> bits, buf |-> Rest(m)]

LEMMA RestIs ==
    ASSUME NEW X, NEW m \in Seq(X)
    PROVE  /\ Rest(m) \in Seq(X) /\ Len(Rest(m)) = Len(m) % BlockLen
           /\ (Len(m) \div BlockLen) * BlockLen \in 0..Len(m)
<1> DEFINE n == (Len(m) \div BlockLen) * BlockLen
           r == Len(m) % BlockLen
<1>1. r \in 0..(BlockLen - 1) /\ Len(m) = n + r
  <2>1. Len(m) \in Nat
    OBVIOUS
  <2> QED BY <2>1, DivMod
<1>2. n \in Nat
  BY DivMod, BlockAssumption
<1> HIDE DEF n, r
<1>3. n \in 0..Len(m) /\ Len(m) - n = r
  BY <1>1, <1>2, BlockAssumption
<1>4. After(m, n) \in Seq(X) /\ Len(After(m, n)) = r
  BY <1>3, AfterIs
<1> QED BY <1>3, <1>4 DEF Rest, n, r

LEMMA BlocksIs ==
    ASSUME NEW X, NEW m \in Seq(X)
    PROVE  /\ Blocks(m) \in Seq(Seq(X)) /\ Len(Blocks(m)) = Len(m) \div BlockLen
           /\ \A b \in 1..(Len(m) \div BlockLen) :
                Blocks(m)[b] = SubSeq(m, (b - 1) * BlockLen + 1, b * BlockLen)
<1> DEFINE n == Len(m) \div BlockLen
           At(b) == SubSeq(m, (b - 1) * BlockLen + 1, b * BlockLen)
<1>1. n \in Nat
  BY DivMod
<1>2. ASSUME NEW b \in 1..n PROVE At(b) \in Seq(X)
  <2>1. (b - 1) * BlockLen + 1 \in 1..Len(m) /\ b * BlockLen \in 1..Len(m)
    BY BlockWithin
  <2>2. \A k \in ((b - 1) * BlockLen + 1)..(b * BlockLen) : m[k] \in X
    BY <2>1
  <2> QED BY <2>1, <2>2, SubSeqProperties
<1>3. Blocks(m) = [b \in 1..n |-> At(b)]
  BY DEF Blocks
<1> HIDE DEF At, n
<1>4. Blocks(m) \in Seq(Seq(X)) /\ Len(Blocks(m)) = n
  BY <1>1, <1>2, <1>3
<1>5. \A b \in 1..n : Blocks(m)[b] = At(b)
  BY <1>3
<1> QED BY <1>4, <1>5 DEF n, At

LEMMA NewHasherIsFed == NewHasher = Fed(<<>>, 0)
<1> DEFINE none == <<>>
<1>1. Len(none) = 0 /\ 0 \div BlockLen = 0 /\ none \in Seq({})
  BY BlockAssumption
<1>2. Blocks(none) = <<>>
  BY <1>1 DEF Blocks
<1>3. Rest(none) = <<>>
  <2>1. 0 * BlockLen = 0
    BY BlockAssumption
  <2> QED BY <1>1, <2>1 DEF Rest, After
<1> QED BY <1>2, <1>3 DEF NewHasher, Fed

\* The blocks of whole blocks with more behind them.
LEMMA BlocksConcat ==
    ASSUME NEW X, NEW m \in Seq(X), NEW d \in Seq(X), Len(m) % BlockLen = 0
    PROVE  Blocks(m \o d) = Blocks(m) \o Blocks(d)
<1> DEFINE c == m \o d
           q == Len(m) \div BlockLen
           p == Len(d) \div BlockLen
           l == Blocks(c)
           r == Blocks(m) \o Blocks(d)
<1>1. /\ c \in Seq(X) /\ Len(c) = Len(m) + Len(d)
      /\ Len(m) \in Nat /\ Len(d) \in Nat
  BY ConcatProperties
<1>2. /\ q \in Nat /\ p \in Nat /\ Len(c) \div BlockLen = q + p
      /\ Len(m) = q * BlockLen
  <2>1. q \in Nat /\ p \in Nat
    BY <1>1, DivMod
  <2>2. (Len(m) + Len(d)) \div BlockLen = q + p /\ Len(m) = q * BlockLen
    BY <1>1, DivModSum
  <2> QED BY <1>1, <2>1, <2>2
<1>3. /\ Blocks(m) \in Seq(Seq(X)) /\ Len(Blocks(m)) = q
      /\ Blocks(d) \in Seq(Seq(X)) /\ Len(Blocks(d)) = p
      /\ l \in Seq(Seq(X)) /\ Len(l) = q + p
  BY <1>1, <1>2, BlocksIs
<1>4. /\ r \in Seq(Seq(X)) /\ Len(r) = q + p
      /\ \A b \in 1..(q + p) : r[b] = IF b =< q THEN Blocks(m)[b] ELSE Blocks(d)[b - q]
  <2> HIDE DEF q, p
  <2>1. ASSUME NEW S, NEW s \in Seq(S), NEW t \in Seq(S), Len(s) = q, Len(t) = p
        PROVE  /\ s \o t \in Seq(S) /\ Len(s \o t) = q + p
               /\ \A b \in 1..(q + p) : (s \o t)[b] = IF b =< q THEN s[b] ELSE t[b - q]
    <3>1. /\ s \o t \in Seq(S) /\ Len(s \o t) = Len(s) + Len(t)
          /\ \A b \in 1..(Len(s) + Len(t)) :
               (s \o t)[b] = IF b <= Len(s) THEN s[b] ELSE t[b - Len(s)]
      BY <2>1, ConcatProperties
    <3> QED BY <2>1, <3>1
  <2> QED BY <1>3, <2>1
<1>5. ASSUME NEW b \in 1..(q + p) PROVE l[b] = r[b]
  <2> DEFINE lo == (b - 1) * BlockLen + 1
             hi == b * BlockLen
  <2>1. l[b] = SubSeq(c, lo, hi)
    BY <1>1, <1>2, <1>5, BlocksIs
  <2>2. CASE b =< q
    <3>1. b \in 1..q
      BY <2>2
    <3>2. r[b] = SubSeq(m, lo, hi)
      BY <1>4, <2>2, <3>1, BlocksIs
    <3>3. lo \in 1..Len(m) /\ hi \in 1..Len(m)
      BY <3>1, BlockWithin
    <3> HIDE DEF lo, hi
    <3>4. SubSeq(c, lo, hi) = SubSeq(m, lo, hi)
      BY <3>3, SubSeqOfConcat1
    <3> QED BY <2>1, <3>2, <3>4
  <2>3. CASE ~ (b =< q)
    <3>1. b - q \in 1..p
      BY <1>2, <2>3
    <3> DEFINE lod == (b - q - 1) * BlockLen + 1
               hid == (b - q) * BlockLen
    <3>2. r[b] = SubSeq(d, lod, hid)
      BY <1>4, <2>3, <3>1, BlocksIs
    <3>3. lod \in 1..Len(d) /\ hid \in 1..Len(d)
      BY <3>1, BlockWithin
    <3>4. lo = Len(m) + lod /\ hi = Len(m) + hid
      <4> HIDE DEF q, p
      <4>1. /\ (b - q) * BlockLen = b * BlockLen - q * BlockLen
            /\ (b - q - 1) * BlockLen = (b - 1) * BlockLen - q * BlockLen
            /\ q * BlockLen \in Nat /\ b * BlockLen \in Int /\ (b - 1) * BlockLen \in Int
        BY <1>2, BlockAssumption
      <4> HIDE <1>5, <2>3, <3>1, <3>3
      <4> QED BY <1>2, <4>1
    <3> HIDE DEF lo, hi, lod, hid
    <3>5. /\ lo \in (Len(m) + 1)..(Len(m) + Len(d)) /\ hi \in (Len(m) + 1)..(Len(m) + Len(d))
          /\ lo - Len(m) = lod /\ hi - Len(m) = hid
      BY <3>3, <3>4
    <3>6. SubSeq(c, lo, hi) = SubSeq(d, lod, hid)
      <4>1. ASSUME NEW x \in (Len(m) + 1)..(Len(m) + Len(d)),
                   NEW y \in (Len(m) + 1)..(Len(m) + Len(d))
            PROVE  SubSeq(m \o d, x, y) = SubSeq(d, x - Len(m), y - Len(m))
        BY SubSeqOfConcat2
      <4> QED BY <3>5, <4>1
    <3> QED BY <2>1, <3>2, <3>6
  <2> QED BY <2>2, <2>3
<1> HIDE DEF l, r
<1>6. l = r
  BY <1>3, <1>4, <1>5, SameSeq
<1> QED BY <1>6 DEF l, r

\* With an empty buffer: update after a whole number of blocks.
LEMMA AbsorbAligned ==
    ASSUME NEW X, NEW m \in Seq(X), NEW d \in Seq(X), NEW bits, Len(m) % BlockLen = 0
    PROVE  Absorb(Fed(m, bits), d) = Fed(m \o d, bits) /\ Rest(m) = <<>>
<1> DEFINE c == m \o d
           p == Len(d) \div BlockLen
<1>1. Len(c) = Len(m) + Len(d) /\ p * BlockLen \in 0..Len(d)
  BY ConcatProperties, RestIs
<1>2. (Len(c) \div BlockLen) * BlockLen = Len(m) + p * BlockLen
  BY <1>1, DivModSum
<1>3. Rest(c) = Rest(d)
  <2>1. After(c, Len(m) + p * BlockLen) = After(d, p * BlockLen)
    BY <1>1, AfterConcat
  <2> QED BY <1>2, <2>1 DEF Rest
<1>4. Rest(m) = <<>>
  BY RestIs
<1>5. Blocks(c) = Blocks(m) \o Blocks(d)
  BY BlocksConcat
<1>6. Absorb(Fed(m, bits), d) =
        [Fed(m, bits) EXCEPT !.h = Blocks(m) \o Blocks(d),
                             !.buf = IF Rest(d) = <<>> THEN Rest(m) ELSE Rest(d)]
  BY DEF Absorb, Fed, Blocks, Rest
<1> QED BY <1>3, <1>4, <1>5, <1>6 DEF Fed

\* Bytes behind a message leave its whole blocks what they are.
LEMMA BlocksOfFront ==
    ASSUME NEW X, NEW m \in Seq(X), NEW d \in Seq(X), NEW b \in 1..(Len(m) \div BlockLen)
    PROVE  SubSeq(m \o d, (b - 1) * BlockLen + 1, b * BlockLen) = Blocks(m)[b]
<1> DEFINE lo == (b - 1) * BlockLen + 1
           hi == b * BlockLen
<1>1. Len(m) \in Nat
  OBVIOUS
<1>2. lo \in 1..Len(m) /\ hi \in 1..Len(m)
  BY <1>1, BlockWithin
<1>3. Blocks(m)[b] = SubSeq(m, lo, hi)
  BY BlocksIs
<1> HIDE DEF lo, hi
<1>4. SubSeq(m \o d, lo, hi) = SubSeq(m, lo, hi)
  BY <1>2, SubSeqOfConcat1
<1> QED BY <1>3, <1>4 DEF lo, hi

\* More bytes that still do not fill the block.
LEMMA FedWithin ==
    ASSUME NEW X, NEW m \in Seq(X), NEW d \in Seq(X), NEW bits,
           (Len(m) % BlockLen) + Len(d) < BlockLen
    PROVE  Fed(m \o d, bits) = [h |-> Blocks(m), bits |-> bits, buf |-> Rest(m) \o d]
<1> DEFINE c == m \o d
           q == Len(m) \div BlockLen
           r == Len(m) % BlockLen
<1>1. Len(m) \in Nat /\ Len(d) \in Nat /\ Len(c) = Len(m) + Len(d) /\ c \in Seq(X)
  BY ConcatProperties
<1>2. q \in Nat /\ r \in 0..(BlockLen - 1) /\ Len(m) = q * BlockLen + r
  BY <1>1, DivMod
<1>3. q * BlockLen \in 0..Len(m)
  BY RestIs
<1>4. Len(c) \div BlockLen = q
  <2>1. r + Len(d) \in 0..(BlockLen - 1)
    BY <1>1, <1>2, BlockAssumption
  <2> HIDE DEF q, r
  <2>2. Len(c) = q * BlockLen + (r + Len(d))
    BY <1>1, <1>2, <1>3, BlockAssumption
  <2> QED BY <1>2, <2>1, <2>2, DivModUnique
<1>5. Rest(c) = Rest(m) \o d
  <2>1. After(c, q * BlockLen) = After(m, q * BlockLen) \o d
    BY <1>3, AfterConcat
  <2> QED BY <1>4, <2>1 DEF Rest
<1>6. Blocks(c) = Blocks(m)
  <2>1. /\ Blocks(c) \in Seq(Seq(X)) /\ Len(Blocks(c)) = q
        /\ Blocks(m) \in Seq(Seq(X)) /\ Len(Blocks(m)) = q
    BY <1>1, <1>4, BlocksIs
  <2>2. ASSUME NEW b \in 1..q PROVE Blocks(c)[b] = Blocks(m)[b]
    <3>1. Blocks(c)[b] = SubSeq(c, (b - 1) * BlockLen + 1, b * BlockLen)
      BY <1>1, <1>4, <2>2, BlocksIs
    <3> QED BY <2>2, <3>1, BlocksOfFront
  <2> QED BY <2>1, <2>2, SameSeq
<1> QED BY <1>5, <1>6 DEF Fed

\* Bytes that fill the block.
LEMMA FedFilled ==
    ASSUME NEW X, NEW m \in Seq(X), NEW d \in Seq(X), NEW bits,
           (Len(m) % BlockLen) + Len(d) = BlockLen
    PROVE  /\ Len(m \o d) % BlockLen = 0
           /\ Fed(m \o d, bits) =
                [h |-> Append(Blocks(m), Rest(m) \o d), bits |-> bits, buf |-> <<>>]
<1> DEFINE c == m \o d
           q == Len(m) \div BlockLen
           r == Len(m) % BlockLen
<1>1. Len(m) \in Nat /\ Len(d) \in Nat /\ Len(c) = Len(m) + Len(d) /\ c \in Seq(X)
  BY ConcatProperties
<1>2. q \in Nat /\ r \in 0..(BlockLen - 1) /\ Len(m) = q * BlockLen + r
  BY <1>1, DivMod
<1>3. q * BlockLen \in 0..Len(m)
  BY RestIs
<1>4. Len(c) \div BlockLen = q + 1 /\ Len(c) % BlockLen = 0 /\ Len(c) = (q + 1) * BlockLen
  <2> HIDE DEF q, r
  <2>1. (q + 1) * BlockLen = q * BlockLen + BlockLen
    BY <1>2, BlockAssumption
  <2>2. Len(c) = (q + 1) * BlockLen
    BY <1>1, <1>2, <1>3, <2>1, BlockAssumption DEF r
  <2>3. Len(c) = (q + 1) * BlockLen + 0 /\ q + 1 \in Nat /\ 0 \in 0..(BlockLen - 1)
    BY <1>1, <1>2, <2>2, BlockAssumption
  <2>4. Len(c) \div BlockLen = q + 1 /\ Len(c) % BlockLen = 0
    BY <2>3, DivModUnique
  <2> QED BY <2>2, <2>4
<1>5. After(c, q * BlockLen) = Rest(m) \o d
  <2>1. After(c, q * BlockLen) = After(m, q * BlockLen) \o d
    BY <1>3, AfterConcat
  <2> QED BY <2>1 DEF Rest
<1>6. Rest(c) = <<>>
  <2>1. Rest(c) \in Seq(X) /\ Len(Rest(c)) = 0
    BY <1>1, <1>4, RestIs
  <2> QED BY <2>1
<1>7. Rest(m) \o d \in Seq(X)
  BY RestIs, ConcatProperties
<1>8. Blocks(c) = Append(Blocks(m), Rest(m) \o d)
  <2>1. /\ Blocks(c) \in Seq(Seq(X)) /\ Len(Blocks(c)) = q + 1
        /\ Blocks(m) \in Seq(Seq(X)) /\ Len(Blocks(m)) = q
    BY <1>1, <1>4, BlocksIs
  <2> DEFINE f == Rest(m) \o d
             l == Append(Blocks(m), f)
  <2>2. /\ l \in Seq(Seq(X)) /\ Len(l) = q + 1 /\ l[q + 1] = f
        /\ \A b \in 1..q : l[b] = Blocks(m)[b]
    <3> HIDE DEF f, q
    <3>1. f \in Seq(X)
      BY <1>7 DEF f
    <3> QED BY <2>1, <3>1, AppendProperties
  <2>3. ASSUME NEW b \in 1..(q + 1) PROVE Blocks(c)[b] = l[b]
    <3>1. Blocks(c)[b] = SubSeq(c, (b - 1) * BlockLen + 1, b * BlockLen)
      BY <1>1, <1>4, <2>3, BlocksIs
    <3>2. CASE b = q + 1
      <4>1. (b - 1) * BlockLen = q * BlockLen /\ b * BlockLen = Len(c)
        <5> HIDE DEF q
        <5> QED BY <1>2, <1>4, <3>2
      <4>2. Blocks(c)[b] = After(c, q * BlockLen)
        BY <3>1, <4>1 DEF After
      <4> QED BY <1>5, <2>2, <3>2, <4>2
    <3>3. CASE b # q + 1
      <4>1. b \in 1..q
        <5> HIDE DEF q
        <5> QED BY <1>2, <3>3
      <4> HIDE DEF l
      <4> QED BY <2>2, <3>1, <4>1, BlocksOfFront
    <3> QED BY <3>2, <3>3
  <2> HIDE DEF l
  <2>4. Blocks(c) = l
    BY <2>1, <2>2, <2>3, SameSeq
  <2> QED BY <2>4 DEF l
<1> QED BY <1>4, <1>6, <1>8 DEF Fed

\* update brings the hasher where the message with the new bytes would.
LEMMA UpdateIs ==
    ASSUME NEW X, NEW m \in Seq(X), NEW d \in Seq(X), NEW bits \in Nat
    PROVE  Update(Fed(m, bits), d) = Fed(m \o d, bits + 8 * Len(d))
<1> DEFINE more == bits + 8 * Len(d)
           r == Len(m) % BlockLen
           s == Fed(m, more)
<1>1. CASE d = <<>>
  <2>1. m \o d = m /\ more = bits
    BY <1>1, ConcatEmptySeq
  <2> QED BY <1>1, <2>1 DEF Update
<1>2. CASE d # <<>>
  <2>1. [Fed(m, bits) EXCEPT !.bits = @ + 8 * Len(d)] = s
    BY DEF Fed
  <2>2. Fed(m, bits).buf = Rest(m) /\ Take(Fed(m, bits), d) = Take(s, d)
    BY DEF Fed, Take
  <2>3. Rest(m) \in Seq(X) /\ Len(Rest(m)) = r
    BY RestIs
  <2>4. Len(m) \in Nat /\ Len(d) \in Nat /\ r \in 0..(BlockLen - 1)
    <3>1. Len(m) \in Nat /\ Len(d) \in Nat
      OBVIOUS
    <3> QED BY <3>1, DivMod
  <2>5. CASE Rest(m) = <<>>
    <3>1. Update(Fed(m, bits), d) = Absorb(s, d)
      <4> HIDE DEF s, more
      <4> QED BY <1>2, <2>1, <2>2, <2>5 DEF Update
    <3>2. r = 0
      BY <2>3, <2>5
    <3>3. Absorb(s, d) = Fed(m \o d, more)
      <4> HIDE DEF more
      <4> QED BY <3>2, AbsorbAligned
    <3> QED BY <3>1, <3>3
  <2>6. CASE Rest(m) # <<>>
    <3> DEFINE t == Take(s, d)
    <3>1. Update(Fed(m, bits), d) = Absorb(TopUp(s, d), After(d, t))
      <4> HIDE DEF s, more
      <4> QED BY <1>2, <2>1, <2>2, <2>6 DEF Update
    <3>2. t = IF Len(d) < BlockLen - r THEN Len(d) ELSE BlockLen - r
      BY <2>3 DEF Take, Fed
    <3> DEFINE filled == Rest(m) \o First(d, t)
    <3>3. TopUp(s, d) =
            IF Len(filled) = BlockLen
            THEN [h |-> Append(Blocks(m), filled), bits |-> more, buf |-> <<>>]
            ELSE [h |-> Blocks(m), bits |-> more, buf |-> filled]
      <4>1. s.buf = Rest(m) /\ s.h = Blocks(m)
        BY DEF Fed
      <4>2. TopUp(s, d) =
              IF Len(filled) = BlockLen
              THEN [s EXCEPT !.h = Append(s.h, filled), !.buf = <<>>]
              ELSE [s EXCEPT !.buf = filled]
        <5> HIDE DEF s
        <5> QED BY <4>1 DEF TopUp, Compress
      <4> HIDE DEF filled, t, more
      <4> QED BY <4>1, <4>2 DEF Fed
    <3> HIDE DEF t, s, more
    <3>4. t \in 0..Len(d)
      BY <2>4, <3>2, BlockAssumption
    <3>5. /\ First(d, t) \in Seq(X) /\ Len(First(d, t)) = t
          /\ Rest(m) \o First(d, t) \in Seq(X)
          /\ Len(Rest(m) \o First(d, t)) = r + t
      <4>1. First(d, t) \in Seq(X) /\ Len(First(d, t)) = t
        BY <3>4, FirstIs
      <4> HIDE DEF r
      <4> QED BY <2>3, <4>1, ConcatProperties
    <3>6. CASE Len(d) < BlockLen - r
      <4>1. t = Len(d) /\ r + t # BlockLen /\ r + Len(d) < BlockLen
        BY <2>4, <3>2, <3>6, BlockAssumption
      <4>2. First(d, t) = d /\ After(d, t) = <<>>
        BY <2>4, <4>1, SubSeqFull, SubSeqEmpty DEF First, After
      <4>3. TopUp(s, d) = Fed(m \o d, more)
        BY <3>3, <3>5, <4>1, <4>2, FedWithin
      <4>4. Absorb(Fed(m \o d, more), <<>>) = Fed(m \o d, more)
        <5> DEFINE f == Fed(m \o d, more)
                   none == <<>>
        <5>1. none \in Seq(X) /\ Len(none) = 0 /\ 0 \div BlockLen = 0 /\ 0 * BlockLen = 0
          BY BlockAssumption
        <5>2. After(none, 0 * BlockLen) = <<>>
          BY <5>1, SubSeqEmpty DEF After
        <5>3. f.h \in Seq(Seq(X))
          BY BlocksIs, ConcatProperties DEF Fed
        <5> DEFINE h0 == [b \in 1..(Len(none) \div BlockLen) |->
                            SubSeq(none, (b - 1) * BlockLen + 1, b * BlockLen)]
        <5>4. h0 = <<>>
          BY <5>1
        <5> HIDE DEF h0
        <5>5. f.h \o h0 = f.h
          BY <5>3, <5>4, ConcatEmptySeq
        <5>6. Absorb(f, none) = [f EXCEPT !.h = f.h \o h0, !.buf = f.buf]
          BY <5>1, <5>2 DEF Absorb, h0
        <5>7. [f EXCEPT !.h = f.h, !.buf = f.buf] = f
          BY DEF Fed
        <5> QED BY <5>5, <5>6, <5>7
      <4> QED BY <3>1, <4>2, <4>3, <4>4 DEF more
    <3>7. CASE ~ (Len(d) < BlockLen - r)
      <4> DEFINE f == First(d, t)
                 a == After(d, t)
                 n == m \o f
      <4>1. t = BlockLen - r /\ r + t = BlockLen /\ r + Len(f) = BlockLen
        <5>1. Len(f) = t
          BY <3>5
        <5>2. t = BlockLen - r
          BY <3>2, <3>7
        <5> HIDE DEF r, f
        <5> QED BY <2>4, <5>1, <5>2, BlockAssumption
      <4>2. a \in Seq(X) /\ f \o a = d /\ f \in Seq(X) /\ n \in Seq(X)
        BY <3>4, <3>5, AfterIs, SplitAt, ConcatProperties
      <4>3. TopUp(s, d) = Fed(n, more) /\ Len(n) % BlockLen = 0
        BY <3>3, <3>5, <4>1, <4>2, FedFilled
      <4> HIDE DEF f, a
      <4>4. Absorb(Fed(n, more), a) = Fed(n \o a, more)
        <5> HIDE DEF n
        <5> QED BY <4>2, <4>3, AbsorbAligned
      <4>5. n \o a = m \o d
        <5>1. (m \o f) \o a = m \o (f \o a)
          <6>1. \A u, v, w \in Seq(X) : (u \o v) \o w = u \o (v \o w)
            BY ConcatAssociative
          <6> QED BY <4>2, <6>1, Zenon
        <5> QED BY <4>2, <5>1
      <4> QED BY <3>1, <4>3, <4>4, <4>5 DEF more, a
    <3> QED BY <3>6, <3>7
  <2> QED BY <2>5, <2>6
<1> QED BY <1>1, <1>2

\* The number of zeros is the one that makes whole blocks.
LEMMA PadLenIs ==
    ASSUME NEW X, NEW m \in Seq(X), NEW bits
    PROVE  /\ PadLen(Fed(m, bits)) = 1 + Zeros(Len(m))
           /\ PadLen(Fed(m, bits)) \in Nat
<1> DEFINE n == Len(m)
           q == n \div BlockLen
           r == n % BlockLen
           p == PadLen(Fed(m, bits))
           z == p - 1
<1>1. n \in Nat
  OBVIOUS
<1>2. q \in Nat /\ r \in 0..(BlockLen - 1) /\ n = q * BlockLen + r
  BY <1>1, DivMod
<1>3. p = IF r < BlockLen - LenLen THEN BlockLen - LenLen - r
          ELSE BlockLen + (BlockLen - LenLen) - r
  <2>1. Fed(m, bits).buf = Rest(m) /\ Len(Rest(m)) = r
    BY RestIs DEF Fed
  <2>2. BlockLen + (BlockLen - LenLen) - r = BlockLen + (BlockLen - LenLen) - r
    OBVIOUS
  <2> HIDE DEF r
  <2> QED BY <2>1 DEF PadLen
<1> HIDE DEF p, q, r, n
<1>4. p \in Nat /\ z \in 0..(BlockLen - 1)
  BY <1>2, <1>3, BlockAssumption
<1>5. \E k \in Nat : n + 1 + z + LenLen = k * BlockLen
  <2>1. CASE r < BlockLen - LenLen
    <3>1. (q + 1) * BlockLen = q * BlockLen + BlockLen /\ q * BlockLen \in Nat
      BY <1>2, BlockAssumption
    <3>2. n + 1 + z + LenLen = (q + 1) * BlockLen /\ q + 1 \in Nat
      BY <1>2, <1>3, <2>1, <3>1, BlockAssumption
    <3> QED BY <3>2
  <2>2. CASE ~ (r < BlockLen - LenLen)
    <3>1. (q + 2) * BlockLen = q * BlockLen + BlockLen + BlockLen /\ q * BlockLen \in Nat
      BY <1>2, BlockAssumption
    <3>2. n + 1 + z + LenLen = (q + 2) * BlockLen /\ q + 2 \in Nat
      BY <1>2, <1>3, <2>2, <3>1, BlockAssumption
    <3> QED BY <3>2
  <2> QED BY <2>1, <2>2
<1>6. (n + 1 + z + LenLen) % BlockLen = 0
  <2>1. PICK k \in Nat : n + 1 + z + LenLen = k * BlockLen
    BY <1>5
  <2>2. k * BlockLen + 0 = k * BlockLen /\ 0 \in 0..(BlockLen - 1)
    BY BlockAssumption
  <2>3. (k * BlockLen + 0) % BlockLen = 0
    BY <2>2, DivModUnique
  <2> QED BY <2>1, <2>2, <2>3
<1>7. ASSUME NEW y \in 0..(BlockLen - 1), (n + 1 + y + LenLen) % BlockLen = 0
      PROVE  y = z
  <2> HIDE DEF z
  <2> DEFINE a == n + 1 + y + LenLen
             b == n + 1 + z + LenLen
  <2>1. a \in Nat /\ b \in Nat
    BY <1>1, <1>4, BlockAssumption DEF n
  <2>2. a % BlockLen = 0 /\ b % BlockLen = 0
    BY <1>6, <1>7
  <2> HIDE DEF a, b
  <2> DEFINE j == a \div BlockLen
             k == b \div BlockLen
  <2>3. j \in Nat /\ a = j * BlockLen + 0 /\ k \in Nat /\ b = k * BlockLen + 0
    BY <2>1, <2>2, DivMod
  <2> HIDE DEF j, k
  <2>4. j * BlockLen \in Nat /\ k * BlockLen \in Nat
    BY <2>3, BlockAssumption
  <2>5. a - b < BlockLen /\ b - a < BlockLen
    BY <1>1, <1>4, <2>1, BlockAssumption DEF a, b, n
  <2>6. ~ (j < k) /\ ~ (k < j)
    BY <2>3, <2>4, <2>5, MulMono, BlockAssumption
  <2>7. a = b
    BY <2>3, <2>6
  <2> QED BY <1>1, <1>4, <2>7, BlockAssumption DEF a, b, n
<1>8. Zeros(n) = z
  BY <1>4, <1>6, <1>7 DEF Zeros
<1> QED BY <1>4, <1>8 DEF p, n

-----------------------------------------------------------------------------
(* The theorems.                                                           *)

\* How a message is cut into calls of update does not matter
\* (sha256.rs:24-52, guest/src/main.rs:24-36).
THEOREM UpdateComposes ==
    ASSUME NEW X, NEW a \in Seq(X), NEW b \in Seq(X)
    PROVE  Update(Update(NewHasher, a), b) = Update(NewHasher, a \o b)
<1> DEFINE none == <<>>
<1>1. none \in Seq(X) /\ none \o a = a /\ none \o (a \o b) = a \o b /\ a \o b \in Seq(X)
  BY ConcatEmptySeq, ConcatProperties
<1>2. NewHasher = Fed(none, 0)
  BY NewHasherIsFed
<1> HIDE DEF none
<1>3. Update(NewHasher, a) = Fed(a, 0 + 8 * Len(a))
  BY <1>1, <1>2, UpdateIs
<1>4. Update(NewHasher, a \o b) = Fed(a \o b, 0 + 8 * Len(a \o b))
  BY <1>1, <1>2, UpdateIs
<1>5. Update(Fed(a, 0 + 8 * Len(a)), b) = Fed(a \o b, 0 + 8 * Len(a) + 8 * Len(b))
  <2>1. 0 + 8 * Len(a) \in Nat
    OBVIOUS
  <2> QED BY <2>1, UpdateIs
<1>6. 0 + 8 * Len(a \o b) = 0 + 8 * Len(a) + 8 * Len(b)
  <2>1. Len(a \o b) = Len(a) + Len(b)
    BY ConcatProperties
  <2> QED BY <2>1
<1> QED BY <1>3, <1>4, <1>5, <1>6

\* The streamed hash of every message is its digest: the padding, which goes
\* through update like the message, ends on a block boundary whatever is left
\* in the buffer (sha256.rs:54-83).
THEOREM Sha256IsDigest ==
    ASSUME NEW X, NEW m \in Seq(X)
    PROVE  Sha256(m) = Digest(m)
<1> DEFINE bits == 8 * Len(m)
           s == Fed(m, bits)
           p == PadLen(s)
           pad == Pad(p)
           be == BigEndian(bits)
           Y == X \cup {0, 128} \cup { be[k] : k \in 1..LenLen }
           none == <<>>
<1>1. Update(NewHasher, m) = s
  <2>1. none \in Seq(X) /\ none \o m = m
    BY ConcatEmptySeq
  <2>2. NewHasher = Fed(none, 0)
    BY NewHasherIsFed
  <2> HIDE DEF none
  <2>3. Update(NewHasher, m) = Fed(m, 0 + 8 * Len(m))
    BY <2>1, <2>2, UpdateIs
  <2> QED BY <2>3
<1>2. bits \in Nat /\ s.bits = bits
  BY DEF Fed
<1>3. p \in Nat /\ p = 1 + Zeros(Len(m))
  BY PadLenIs
<1> HIDE DEF s, p
<1>4. m \in Seq(Y)
  BY SeqMonotonic
<1>5. pad \in Seq(Y)
  BY <1>3 DEF Pad
<1>6. be \in Seq(Y)
  <2>1. be = [k \in 1..LenLen |-> be[k]]
    BY DEF BigEndian
  <2>2. LenLen \in Nat
    BY BlockAssumption
  <2> HIDE DEF be
  <2> QED BY <2>1, <2>2
<1> HIDE DEF Y
<1>7. Update(s, pad) = Fed(m \o pad, bits + 8 * Len(pad))
  <2> HIDE DEF pad, bits
  <2> QED BY <1>2, <1>4, <1>5, UpdateIs DEF s
<1>8. m \o pad \in Seq(Y) /\ bits + 8 * Len(pad) \in Nat
  <2> HIDE DEF pad
  <2> QED BY <1>2, <1>4, <1>5, ConcatProperties
<1>9. Update(Update(s, pad), be).h = Blocks((m \o pad) \o be)
  <2> HIDE DEF pad, be
  <2>1. \A b \in Nat : Update(Fed(m \o pad, b), be) = Fed((m \o pad) \o be, b + 8 * Len(be))
    BY <1>6, <1>8, UpdateIs
  <2>2. Update(Update(s, pad), be)
          = Fed((m \o pad) \o be, bits + 8 * Len(pad) + 8 * Len(be))
    BY <1>7, <1>8, <2>1
  <2> QED BY <2>2 DEF Fed
<1>10. Sha256(m) = Blocks((m \o pad) \o be)
  BY <1>1, <1>2, <1>9 DEF Sha256, Finalize, p
<1>11. Padded(m) = (m \o pad) \o be
  BY <1>3 DEF Padded
<1> QED BY <1>10, <1>11 DEF Digest, Blocks

=============================================================================
