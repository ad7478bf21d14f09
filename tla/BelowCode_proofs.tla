--------------------------- MODULE BelowCode_proofs ---------------------------
(***************************************************************************)
(* Lemmas about what a text means: how the letters of the current line and *)
(* the set of finished lines change when a pass takes one more character,  *)
(* and when a sequence of words is the one Compile describes.  Then what a *)
(* decoder that takes a byte at a time knows of the text of the bytes.     *)
(***************************************************************************)
EXTENDS BelowCode, Utf8Decoder, TLAPS, FiniteSetTheorems

-----------------------------------------------------------------------------
(* Characters and bits.                                                    *)

\* A letter stands for one of eight states.
LEMMA StateOfType ==
    ASSUME NEW cp, IsLetter(cp)
    PROVE  StateOf(cp) \in 0..7
BY DEF IsLetter, StateOf

\* Every accumulator has a word.
LEMMA WordOfType ==
    ASSUME NEW a \in 0..7
    PROVE  WordOf(a) \in Words
BY DEF WordOf, Words

\* The accumulator never leaves three bits.
LEMMA AccumulateType ==
    ASSUME NEW a, NEW s
    PROVE  Accumulate(a, s) \in 0..7
BY DEF Accumulate, BitsToNumber

\* White space and line feeds are no letters.
LEMMA SpaceIsNoLetter ==
    ASSUME NEW cp, cp \in Skipped \cup {LF}
    PROVE  ~ IsLetter(cp)
<1>1. cp = 32 \/ cp = 9 \/ cp = 13 \/ cp = 10
  BY DEF Skipped, LF
<1>2. 32 \notin Hangul /\ 9 \notin Hangul /\ 13 \notin Hangul /\ 10 \notin Hangul
  BY DEF Hangul
<1> QED BY <1>1, <1>2 DEF IsLetter

\* A skipped character ends no line.
LEMMA SkippedIsNoLF ==
    ASSUME NEW cp \in Skipped
    PROVE  cp # LF
BY DEF Skipped, LF

\* A letter ends no line.
LEMMA LetterIsNoLF ==
    ASSUME NEW cp, IsLetter(cp)
    PROVE  cp # LF
BY DEF LF, IsLetter, Hangul

\* The bits a number is made of are the bits it has.
LEMMA BitsOfNumber ==
    ASSUME NEW one \in BOOLEAN, NEW two \in BOOLEAN, NEW four \in BOOLEAN
    PROVE  /\ HasBit(BitsToNumber(one, two, four), 1) <=> one
           /\ HasBit(BitsToNumber(one, two, four), 2) <=> two
           /\ HasBit(BitsToNumber(one, two, four), 4) <=> four
<1>1. one \in {TRUE, FALSE} /\ two \in {TRUE, FALSE} /\ four \in {TRUE, FALSE}
  OBVIOUS
<1>2. CASE one /\ two /\ four
  BY <1>2 DEF HasBit, BitsToNumber
<1>3. CASE one /\ two /\ ~ four
  BY <1>3 DEF HasBit, BitsToNumber
<1>4. CASE one /\ ~ two /\ four
  BY <1>4 DEF HasBit, BitsToNumber
<1>5. CASE one /\ ~ two /\ ~ four
  BY <1>5 DEF HasBit, BitsToNumber
<1>6. CASE ~ one /\ two /\ four
  BY <1>6 DEF HasBit, BitsToNumber
<1>7. CASE ~ one /\ two /\ ~ four
  BY <1>7 DEF HasBit, BitsToNumber
<1>8. CASE ~ one /\ ~ two /\ four
  BY <1>8 DEF HasBit, BitsToNumber
<1>9. CASE ~ one /\ ~ two /\ ~ four
  BY <1>9 DEF HasBit, BitsToNumber
<1> QED BY <1>2, <1>3, <1>4, <1>5, <1>6, <1>7, <1>8, <1>9

-----------------------------------------------------------------------------
(* One more character.                                                     *)

\* A letter joins the letters of its line.
LEMMA LettersAfterLetter ==
    ASSUME NEW t \in Seq(Nat), NEW n \in 1..Len(t), IsLetter(t[n])
    PROVE  LettersBefore(t, n + 1) = LettersBefore(t, n) \cup {n}
BY LetterIsNoLF DEF LettersBefore

\* A line feed starts a line without letters.
LEMMA LettersAfterLF ==
    ASSUME NEW t \in Seq(Nat), NEW n \in 1..Len(t), t[n] = LF
    PROVE  LettersBefore(t, n + 1) = {}
<1>1. ASSUME NEW j \in LettersBefore(t, n + 1) PROVE FALSE
  <2>1. j \in 1..n /\ \A k \in j..n : t[k] # LF
    BY <1>1 DEF LettersBefore
  <2>2. n \in j..n
    BY <2>1
  <2> QED BY <2>1, <2>2
<1> QED BY <1>1

\* White space changes nothing.
LEMMA LettersAfterSkipped ==
    ASSUME NEW t \in Seq(Nat), NEW n \in 1..Len(t), t[n] \in Skipped
    PROVE  LettersBefore(t, n + 1) = LettersBefore(t, n)
BY SkippedIsNoLF, SpaceIsNoLetter DEF LettersBefore

\* Before the first character there is no letter.
LEMMA NoLettersAtFirst ==
    ASSUME NEW t \in Seq(Nat)
    PROVE  LettersBefore(t, 1) = {}
BY DEF LettersBefore

\* A line without letters accumulates nothing.
LEMMA LineAccEmpty ==
    ASSUME NEW t, NEW n, LettersBefore(t, n) = {}
    PROVE  LineAcc(t, n) = 0
BY DEF LineAcc, BitsToNumber

LEMMA LineAccType ==
    ASSUME NEW t, NEW n
    PROVE  LineAcc(t, n) \in 0..7
BY DEF LineAcc, BitsToNumber

\* Taking a letter is accumulating its state.
LEMMA LineAccAfterLetter ==
    ASSUME NEW t \in Seq(Nat), NEW n \in 1..Len(t), IsLetter(t[n])
    PROVE  LineAcc(t, n + 1) = Accumulate(LineAcc(t, n), StateOf(t[n]))
<1> DEFINE Some(m, w) == \E j \in LettersBefore(t, m) : HasBit(StateOf(t[j]), w)
<1>1. \A w : Some(n + 1, w) <=> Some(n, w) \/ HasBit(StateOf(t[n]), w)
  BY LettersAfterLetter
<1>2. \A m : LineAcc(t, m) = BitsToNumber(Some(m, 1), Some(m, 2), Some(m, 4))
  BY DEF LineAcc
<1>3. /\ HasBit(LineAcc(t, n), 1) <=> Some(n, 1)
      /\ HasBit(LineAcc(t, n), 2) <=> Some(n, 2)
      /\ HasBit(LineAcc(t, n), 4) <=> Some(n, 4)
  <2> HIDE DEF Some
  <2>1. Some(n, 1) \in BOOLEAN /\ Some(n, 2) \in BOOLEAN /\ Some(n, 4) \in BOOLEAN
    BY DEF Some
  <2> QED BY <1>2, <2>1, BitsOfNumber
<1> HIDE DEF Some
<1> QED BY <1>1, <1>2, <1>3 DEF Accumulate, BitsToNumber

\* White space accumulates nothing.
LEMMA LineAccAfterSkipped ==
    ASSUME NEW t \in Seq(Nat), NEW n \in 1..Len(t), t[n] \in Skipped
    PROVE  LineAcc(t, n + 1) = LineAcc(t, n)
BY LettersAfterSkipped DEF LineAcc

-----------------------------------------------------------------------------
(* Finished lines, in order.                                               *)

\* The number of elements of S up to x: the place of x among them.
UpTo(S, x) == { y \in S : y =< x }
Rank(S, x) == Cardinality(UpTo(S, x))

\* The lines that the first n characters of t finish, by their line feeds.
Ended(t, n) == { e \in LineEnds(t) : e =< n /\ e =< Len(t) }

\* words holds, in order, the words of the lines that end at S.
AreWordsOf(words, t, S) ==
    /\ Len(words) = Cardinality(S)
    /\ \A e \in S : words[Rank(S, e)] = WordOf(LineAcc(t, e))
    /\ \A n \in 1..Len(words) : \E e \in S : Rank(S, e) = n

\* Line ends are positions of the text or the one after it: a finite set.
LEMMA LineEndsFinite ==
    ASSUME NEW t \in Seq(Nat)
    PROVE  /\ LineEnds(t) \subseteq 1..(Len(t) + 1)
           /\ IsFiniteSet(LineEnds(t))
<1>1. LineEnds(t) \subseteq 1..(Len(t) + 1)
  BY DEF LineEnds
<1>2. IsFiniteSet(1..(Len(t) + 1))
  BY FS_Interval
<1> QED BY <1>1, <1>2, FS_Subset

LEMMA EndedFinite ==
    ASSUME NEW t \in Seq(Nat), NEW n \in Nat
    PROVE  Ended(t, n) \subseteq 1..n /\ IsFiniteSet(Ended(t, n))
<1>1. Ended(t, n) \subseteq LineEnds(t) /\ Ended(t, n) \subseteq 1..n
  BY LineEndsFinite DEF Ended
<1> QED BY <1>1, LineEndsFinite, FS_Subset

\* A line feed after letters finishes one line more.
LEMMA EndedAtLF ==
    ASSUME NEW t \in Seq(Nat), NEW n \in 1..Len(t), t[n] = LF,
           LettersBefore(t, n) # {}
    PROVE  Ended(t, n) = Ended(t, n - 1) \cup {n}
BY DEF Ended, LineEnds

\* Any other character, or a line feed on a line without letters, none.
LEMMA EndedElsewhere ==
    ASSUME NEW t \in Seq(Nat), NEW n \in 1..Len(t),
           t[n] # LF \/ LettersBefore(t, n) = {}
    PROVE  Ended(t, n) = Ended(t, n - 1)
BY DEF Ended, LineEnds

\* The end of the text finishes the last line if it holds a letter.
LEMMA EndedAtEof ==
    ASSUME NEW t \in Seq(Nat)
    PROVE  LineEnds(t) = IF LettersBefore(t, Len(t) + 1) # {}
                         THEN Ended(t, Len(t)) \cup {Len(t) + 1}
                         ELSE Ended(t, Len(t))
<1>1. ASSUME NEW e \in LineEnds(t)
      PROVE  \/ e \in Ended(t, Len(t))
             \/ e = Len(t) + 1 /\ LettersBefore(t, Len(t) + 1) # {}
  BY <1>1 DEF Ended, LineEnds
<1>2. Ended(t, Len(t)) \subseteq LineEnds(t)
  BY DEF Ended
<1>3. LettersBefore(t, Len(t) + 1) # {} => Len(t) + 1 \in LineEnds(t)
  BY DEF LineEnds
<1>4. Len(t) + 1 \notin Ended(t, Len(t))
  BY DEF Ended
<1> QED BY <1>1, <1>2, <1>3

\* Appending the word of a line that ends after all those of S.
LEMMA AppendWord ==
    ASSUME NEW t \in Seq(Nat), NEW m \in Nat, NEW S \in SUBSET (1..m),
           NEW words \in Seq(Words), AreWordsOf(words, t, S)
    PROVE  AreWordsOf(Append(words, WordOf(LineAcc(t, m + 1))), t, S \cup {m + 1})
<1> DEFINE T == S \cup {m + 1}
           w == WordOf(LineAcc(t, m + 1))
           more == Append(words, w)
<1>1. IsFiniteSet(S) /\ Cardinality(S) \in Nat /\ m + 1 \notin S
  <2>1. IsFiniteSet(1..m)
    BY FS_Interval
  <2>2. IsFiniteSet(S)
    BY <2>1, FS_Subset
  <2>3. m + 1 \notin S
    OBVIOUS
  <2> QED BY <2>2, <2>3, FS_CardinalityType
<1>2. IsFiniteSet(T) /\ Cardinality(T) = Cardinality(S) + 1
  BY <1>1, FS_AddElement
<1>3. \A e \in S : Rank(T, e) = Rank(S, e)
  <2>1. \A e \in S : UpTo(T, e) = UpTo(S, e)
    BY DEF UpTo
  <2> QED BY <2>1 DEF Rank
<1>4. Rank(T, m + 1) = Cardinality(S) + 1
  <2>1. \A y \in T : y \in Nat /\ y =< m + 1
    OBVIOUS
  <2>2. UpTo(T, m + 1) = T
    BY <2>1 DEF UpTo
  <2> QED BY <1>2, <2>2 DEF Rank
<1>5. \A e \in S : Rank(S, e) \in 1..Cardinality(S)
  <2> SUFFICES ASSUME NEW e \in S PROVE Rank(S, e) \in 1..Cardinality(S)
    OBVIOUS
  <2>1. UpTo(S, e) \subseteq S /\ e \in UpTo(S, e)
    BY DEF UpTo
  <2>2. IsFiniteSet(UpTo(S, e)) /\ Cardinality(UpTo(S, e)) =< Cardinality(S)
    BY <1>1, <2>1, FS_Subset
  <2>3. Cardinality(UpTo(S, e)) \in Nat /\ Cardinality(UpTo(S, e)) # 0
    BY <2>1, <2>2, FS_CardinalityType, FS_EmptySet
  <2> QED BY <1>1, <2>2, <2>3 DEF Rank
<1>6. Len(words) = Cardinality(S) /\ w \in Words
  BY LineAccType, WordOfType DEF AreWordsOf
<1>7. /\ Len(more) = Cardinality(S) + 1
      /\ more[Cardinality(S) + 1] = w
      /\ \A n \in 1..Cardinality(S) : more[n] = words[n]
  BY <1>1, <1>6
<1>8. Len(more) = Cardinality(T)
  BY <1>2, <1>7
<1>9. ASSUME NEW e \in T PROVE more[Rank(T, e)] = WordOf(LineAcc(t, e))
  <2>1. CASE e \in S
    <3>1. words[Rank(S, e)] = WordOf(LineAcc(t, e))
      BY <2>1 DEF AreWordsOf
    <3> QED BY <1>3, <1>5, <1>7, <2>1, <3>1
  <2>2. CASE e = m + 1
    BY <1>4, <1>7, <2>2
  <2> QED BY <2>1, <2>2
<1>10. ASSUME NEW n \in 1..Len(more) PROVE \E e \in T : Rank(T, e) = n
  <2>1. CASE n = Cardinality(S) + 1
    BY <1>4, <2>1
  <2>2. CASE n # Cardinality(S) + 1
    <3>1. n \in 1..Len(words)
      BY <1>1, <1>6, <1>7, <2>2
    <3>2. PICK e \in S : Rank(S, e) = n
      BY <3>1 DEF AreWordsOf
    <3> QED BY <1>3, <3>2
  <2> QED BY <2>1, <2>2
<1> QED BY <1>8, <1>9, <1>10 DEF AreWordsOf

\* No two elements of a finite set of numbers have the same place.
LEMMA RankInjective ==
    ASSUME NEW S \in SUBSET Nat, IsFiniteSet(S),
           NEW x \in S, NEW y \in S, Rank(S, x) = Rank(S, y)
    PROVE  x = y
<1>1. ASSUME NEW a \in S, NEW b \in S, a < b, Rank(S, a) = Rank(S, b)
      PROVE  FALSE
  <2>1. a \in Nat /\ b \in Nat /\ a < b /\ \A z \in S : z \in Nat
    BY <1>1
  <2>2. UpTo(S, a) \in SUBSET UpTo(S, b) /\ b \in UpTo(S, b) /\ b \notin UpTo(S, a)
    <3>1. \A z \in S : z =< a => z =< b
      BY <2>1
    <3>2. b =< b /\ ~ (b =< a)
      BY <2>1
    <3> QED BY <3>1, <3>2 DEF UpTo
  <2>3. IsFiniteSet(UpTo(S, b))
    <3>1. UpTo(S, b) \in SUBSET S
      BY DEF UpTo
    <3> QED BY <3>1, FS_Subset
  <2>4. UpTo(S, b) = UpTo(S, a)
    BY <1>1, <2>2, <2>3, FS_Subset DEF Rank
  <2> QED BY <2>2, <2>4
<1>2. x \in Nat /\ y \in Nat
  OBVIOUS
<1>3. x < y \/ y < x \/ x = y
  BY <1>2
<1> QED BY <1>1, <1>3

\* The words of all lines are what the text means.
LEMMA WordsOfAllLines ==
    ASSUME NEW t \in Seq(Nat), NEW words \in Seq(Words),
           AreWordsOf(words, t, LineEnds(t))
    PROVE  words = Compile(t)
<1> DEFINE S == LineEnds(t)
<1>1. S \in SUBSET Nat /\ IsFiniteSet(S) /\ Len(words) = Cardinality(S)
  BY LineEndsFinite DEF AreWordsOf
<1>2. ASSUME NEW n \in 1..Len(words)
      PROVE  words[n] = WordOf(LineAcc(t, Nth(S, n)))
  <2>1. PICK e \in S : Rank(S, e) = n
    BY <1>2 DEF AreWordsOf
  <2>2. Nth(S, n) = CHOOSE x \in S : Rank(S, x) = n
    BY DEF Nth, Rank, UpTo
  <2>3. Nth(S, n) \in S /\ Rank(S, Nth(S, n)) = n
    BY <2>1, <2>2
  <2>4. Nth(S, n) = e
    BY <1>1, <2>1, <2>3, RankInjective
  <2> QED BY <2>1, <2>4 DEF AreWordsOf
<1>3. words = [n \in 1..Len(words) |-> words[n]]
  OBVIOUS
<1> QED BY <1>1, <1>2, <1>3 DEF Compile

\* What a text means is a sequence of words.
LEMMA CompileType ==
    ASSUME NEW V, NEW t \in Seq(V)
    PROVE  Compile(t) \in Seq(Words)
<1> DEFINE S == LineEnds(t)
<1>1. Cardinality(S) \in Nat
  <2>1. S \subseteq 1..(Len(t) + 1) /\ IsFiniteSet(1..(Len(t) + 1))
    BY FS_Interval DEF LineEnds
  <2> QED BY <2>1, FS_Subset, FS_CardinalityType
<1>2. \A e : LineAcc(t, e) \in 0..7
  BY DEF LineAcc, BitsToNumber
<1>3. \A n : WordOf(LineAcc(t, Nth(S, n))) \in Words
  BY <1>2, WordOfType
<1>4. Compile(t) = [n \in 1..Cardinality(S) |-> WordOf(LineAcc(t, Nth(S, n)))]
  BY DEF Compile
<1> QED BY <1>1, <1>3, <1>4

-----------------------------------------------------------------------------
(* The n-th smallest element.                                              *)

\* An element's place is one of 1, 2, ..., and grows with the element.
LEMMA RankType ==
    ASSUME NEW S \in SUBSET Nat, IsFiniteSet(S)
    PROVE  /\ \A x \in S : Rank(S, x) \in 1..Cardinality(S)
           /\ \A x, y \in S : x < y => Rank(S, x) < Rank(S, y)
<1>1. ASSUME NEW x \in S
      PROVE  /\ UpTo(S, x) \subseteq S /\ IsFiniteSet(UpTo(S, x)) /\ x \in UpTo(S, x)
             /\ Rank(S, x) \in Nat /\ Rank(S, x) =< Cardinality(S) /\ Rank(S, x) # 0
  <2>1. UpTo(S, x) \subseteq S /\ x \in UpTo(S, x)
    BY DEF UpTo
  <2>2. IsFiniteSet(UpTo(S, x)) /\ Cardinality(UpTo(S, x)) =< Cardinality(S)
    BY <2>1, FS_Subset
  <2>3. Cardinality(UpTo(S, x)) \in Nat /\ Cardinality(UpTo(S, x)) # 0
    BY <2>1, <2>2, FS_CardinalityType, FS_EmptySet
  <2> QED BY <2>1, <2>2, <2>3 DEF Rank
<1>2. ASSUME NEW x \in S, NEW y \in S, x < y PROVE Rank(S, x) < Rank(S, y)
  <2>1. UpTo(S, x) \subseteq UpTo(S, y)
    <3>1. x \in Nat /\ y \in Nat /\ \A z \in S : z \in Nat
      OBVIOUS
    <3>2. \A z \in S : z =< x => z =< y
      BY <1>2, <3>1
    <3> QED BY <3>2 DEF UpTo
  <2>2. Rank(S, x) =< Rank(S, y)
    BY <1>1, <2>1, FS_Subset DEF Rank
  <2>3. Rank(S, x) # Rank(S, y)
    BY <1>2, RankInjective
  <2> QED BY <1>1, <2>2, <2>3
<1>3. Cardinality(S) \in Nat
  BY FS_CardinalityType
<1> QED BY <1>1, <1>2, <1>3

\* Nth and Rank are inverses of each other.
LEMMA NthIs ==
    ASSUME NEW S \in SUBSET Nat, IsFiniteSet(S)
    PROVE  /\ \A n \in 1..Cardinality(S) : Nth(S, n) \in S /\ Rank(S, Nth(S, n)) = n
           /\ \A x \in S : Nth(S, Rank(S, x)) = x
<1> DEFINE f == [x \in S |-> Rank(S, x)]
           R == 1..Cardinality(S)
<1>1. Cardinality(S) \in Nat
  BY FS_CardinalityType
<1>2. IsFiniteSet(R) /\ Cardinality(R) = Cardinality(S)
  BY <1>1, FS_Interval
<1>3. f \in Injection(S, R)
  <2>1. f \in [S -> R]
    BY RankType
  <2>2. \A x, y \in S : f[x] = f[y] => x = y
    BY RankInjective
  <2> QED BY <2>1, <2>2 DEF Injection, IsInjective
<1>4. f \in Surjection(S, R)
  BY <1>2, <1>3, FS_Injection
<1>5. \A n \in R : \E x \in S : Rank(S, x) = n
  BY <1>4 DEF Surjection
<1>6. ASSUME NEW n \in R PROVE Nth(S, n) \in S /\ Rank(S, Nth(S, n)) = n
  <2>1. Nth(S, n) = CHOOSE x \in S : Rank(S, x) = n
    BY DEF Nth, Rank, UpTo
  <2> QED BY <1>5, <2>1
<1>7. ASSUME NEW x \in S PROVE Nth(S, Rank(S, x)) = x
  <2> DEFINE y == Nth(S, Rank(S, x))
  <2>1. Rank(S, x) \in R
    BY RankType
  <2>2. y \in S /\ Rank(S, y) = Rank(S, x)
    BY <1>6, <2>1
  <2> HIDE DEF y
  <2>3. y = x
    BY <2>2, RankInjective
  <2> QED BY <2>3 DEF y
<1> QED BY <1>6, <1>7

LEMMA NthMono ==
    ASSUME NEW S \in SUBSET Nat, IsFiniteSet(S),
           NEW m \in 1..Cardinality(S), NEW n \in 1..Cardinality(S)
    PROVE  Nth(S, m) < Nth(S, n) <=> m < n
<1>1. Nth(S, m) \in S /\ Nth(S, n) \in S /\ Rank(S, Nth(S, m)) = m /\ Rank(S, Nth(S, n)) = n
  BY NthIs
<1>2. Nth(S, m) \in Nat /\ Nth(S, n) \in Nat /\ m \in Int /\ n \in Int
  <2>1. \A x \in S : x \in Nat
    OBVIOUS
  <2>2. m \in Int /\ n \in Int
    OBVIOUS
  <2> QED BY <1>1, <2>1, <2>2
<1>3. Nth(S, m) < Nth(S, n) => m < n
  BY <1>1, RankType
<1>4. Nth(S, n) < Nth(S, m) => n < m
  BY <1>1, RankType
<1>5. Nth(S, n) = Nth(S, m) => n = m
  BY <1>1
<1> QED BY <1>2, <1>3, <1>4, <1>5

\* A bijection that keeps the order keeps the places.
LEMMA SameOrder ==
    ASSUME NEW S \in SUBSET Nat, IsFiniteSet(S), NEW T \in SUBSET Nat,
           NEW f \in [S -> T], \A y \in T : \E x \in S : f[x] = y,
           \A x, y \in S : x < y => f[x] < f[y]
    PROVE  /\ IsFiniteSet(T) /\ Cardinality(T) = Cardinality(S)
           /\ \A n \in 1..Cardinality(S) : Nth(T, n) = f[Nth(S, n)]
<1>1. \A x, y \in S : f[x] =< f[y] <=> x =< y
  <2> SUFFICES ASSUME NEW x \in S, NEW y \in S PROVE f[x] =< f[y] <=> x =< y
    OBVIOUS
  <2>1. x \in Nat /\ y \in Nat /\ f[x] \in Nat /\ f[y] \in Nat
    OBVIOUS
  <2>2. (x < y => f[x] < f[y]) /\ (y < x => f[y] < f[x]) /\ (x = y => f[x] = f[y])
    OBVIOUS
  <2> QED BY <2>1, <2>2
<1>2. ASSUME NEW A \in SUBSET S, NEW B \in SUBSET T,
             \A x \in A : f[x] \in B, \A y \in B : \E x \in A : f[x] = y
      PROVE  IsFiniteSet(B) /\ Cardinality(B) = Cardinality(A)
  <2> DEFINE g == [x \in A |-> f[x]]
  <2>1. g \in [A -> B] /\ \A y \in B : \E x \in A : g[x] = y
    BY <1>2
  <2>2. \A x, y \in A : g[x] = g[y] => x = y
    <3> SUFFICES ASSUME NEW x \in A, NEW y \in A, f[x] = f[y] PROVE x = y
      OBVIOUS
    <3>1. x \in Nat /\ y \in Nat /\ f[x] \in Nat /\ f[y] \in Nat
      OBVIOUS
    <3>2. f[x] =< f[y] /\ f[y] =< f[x]
      BY <3>1
    <3>3. x =< y /\ y =< x
      BY <1>1, <3>2
    <3> QED BY <3>1, <3>3
  <2>3. g \in Bijection(A, B)
    BY <2>1, <2>2 DEF Bijection, Injection, IsInjective, Surjection
  <2>4. IsFiniteSet(A)
    BY FS_Subset
  <2> QED BY <2>3, <2>4, FS_Bijection DEF ExistsBijection
<1>3. IsFiniteSet(T) /\ Cardinality(T) = Cardinality(S)
  BY <1>2
<1>4. ASSUME NEW x \in S PROVE Rank(T, f[x]) = Rank(S, x)
  <2> DEFINE A == UpTo(S, x)
             B == UpTo(T, f[x])
  <2>1. A \in SUBSET S /\ B \in SUBSET T
    BY DEF UpTo
  <2>2. \A y \in A : f[y] \in B
    BY <1>1 DEF UpTo
  <2>3. \A y \in B : \E z \in A : f[z] = y
    BY <1>1 DEF UpTo
  <2> HIDE DEF A, B
  <2>4. Cardinality(B) = Cardinality(A)
    BY <1>2, <2>1, <2>2, <2>3
  <2> QED BY <2>4 DEF A, B, Rank
<1>5. ASSUME NEW n \in 1..Cardinality(S) PROVE Nth(T, n) = f[Nth(S, n)]
  <2>1. Nth(S, n) \in S /\ Rank(S, Nth(S, n)) = n
    BY NthIs
  <2>2. f[Nth(S, n)] \in T /\ Rank(T, f[Nth(S, n)]) = n
    BY <1>4, <2>1
  <2>3. Nth(T, Rank(T, f[Nth(S, n)])) = f[Nth(S, n)]
    BY <1>3, <2>2, NthIs
  <2> QED BY <2>2, <2>3
<1> QED BY <1>3, <1>5

-----------------------------------------------------------------------------
(* The decoder: bytes and the bits they carry.                             *)

\* The number of bytes a lead announces, and the bits bytes carry.
LEMMA ByteType ==
    ASSUME NEW b \in Byte
    PROVE  /\ Width(b) \in 0..4 /\ LeadBits(b) \in Nat /\ b % 64 \in Nat
           /\ Continues(b) => Width(b) = 0
           /\ Width(b) = 1 => LeadBits(b) = b
<1>1. Width(b) \in 0..4
  BY DEF Width
<1>2. LeadBits(b) \in Nat /\ b % 64 \in Nat
  BY DEF LeadBits, Byte
<1>3. Continues(b) => Width(b) = 0
  BY DEF Continues, Width, Byte
<1>4. Width(b) = 1 => LeadBits(b) = b
  BY DEF LeadBits
<1> QED BY <1>1, <1>2, <1>3, <1>4

\* Shifted bits are a number.
LEMMA ShiftedType ==
    ASSUME NEW bits \in Nat, NEW k \in 0..3
    PROVE  Shifted(bits, k) \in Nat /\ Shifted(bits, 0) = bits
<1>1. k = 0 \/ k = 1 \/ k = 2 \/ k = 3
  OBVIOUS
<1> QED BY <1>1 DEF Shifted, PowerOf64

\* A call of decode leaves a decoder.
LEMMA DecodeType ==
    ASSUME NEW d \in Decoders, NEW b \in Byte
    PROVE  Decode(d, b).dec \in Decoders
<1>1. Width(b) \in 0..4 /\ LeadBits(b) \in Nat /\ b % 64 \in Nat
  BY ByteType
<1>2. StartSequence(d, b).dec \in Decoders
  <2>1. CASE Width(b) > 1
    <3>1. Width(b) - 1 \in 1..3
      BY <1>1, <2>1
    <3>2. Shifted(LeadBits(b), Width(b) - 1) \in Nat
      BY <1>1, <3>1, ShiftedType
    <3>3. StartSequence(d, b).dec = [state |-> Width(b) - 1,
                                     codep |-> Shifted(LeadBits(b), Width(b) - 1)]
      BY <2>1, <3>1 DEF StartSequence
    <3> QED BY <3>1, <3>2, <3>3 DEF Decoders
  <2>2. CASE ~ (Width(b) > 1)
    BY <1>1, <2>2 DEF StartSequence
  <2> QED BY <2>1, <2>2
<1>3. d.state # 0 => ContinueSequence(d, b).dec \in Decoders
  <2>1. CASE d.state \in 2..3
    <3>1. d.state - 1 \in 1..2 /\ d.codep \in Nat
      BY <2>1 DEF Decoders
    <3>2. Shifted(b % 64, d.state - 1) \in Nat
      BY <1>1, <3>1, ShiftedType
    <3>3. ContinueSequence(d, b).dec =
            [state |-> d.state - 1,
             codep |-> d.codep + Shifted(b % 64, d.state - 1)]
      BY <2>1 DEF ContinueSequence
    <3> QED BY <3>1, <3>2, <3>3 DEF Decoders
  <2>2. CASE d.state = 1
    BY <2>2 DEF ContinueSequence, Decoders
  <2> QED BY <2>1, <2>2 DEF Decoders
<1>4. BreakSequence(d).dec \in Decoders
  BY DEF BreakSequence, Decoders
<1> QED BY <1>2, <1>3, <1>4 DEF Decode

\* The last byte of the sequence that starts at i.
EndOf(b, i) == i + Width(b[i]) - 1

\* The code point of the sequence at i as far as its lead and m more bytes go.
Partial(b, i, m) ==
    LET w == Width(b[i])
        Part(k) == Shifted(b[i + k] % 64, w - 1 - k)
    IN  Shifted(LeadBits(b[i]), w - 1)
          + (IF m > 0 THEN Part(1) ELSE 0)
          + (IF m > 1 THEN Part(2) ELSE 0)
          + (IF m > 2 THEN Part(3) ELSE 0)

\* How it grows from the lead alone to the whole code point.
LEMMA PartialIs ==
    ASSUME NEW b \in Seq(Byte), NEW i \in 1..Len(b), Width(b[i]) > 0
    PROVE  /\ Partial(b, i, 0) = Shifted(LeadBits(b[i]), Width(b[i]) - 1)
           /\ Partial(b, i, Width(b[i]) - 1) = CodePointAt(b, i)
           /\ \A m \in 0..(Width(b[i]) - 1) : i + m =< Len(b) => Partial(b, i, m) \in Nat
           /\ \A m \in 0..(Width(b[i]) - 2) :
                i + m + 1 =< Len(b) =>
                Partial(b, i, m + 1) = Partial(b, i, m)
                  + Shifted(b[i + m + 1] % 64, Width(b[i]) - 2 - m)
<1> DEFINE w == Width(b[i])
           Part(k) == Shifted(b[i + k] % 64, w - 1 - k)
           lead == Shifted(LeadBits(b[i]), w - 1)
<1>1. \A k \in 1..Len(b) : b[k] \in Byte
  OBVIOUS
<1>2. w \in 1..4 /\ LeadBits(b[i]) \in Nat
  BY <1>1, ByteType
<1>3. w - 1 \in 0..3
  BY <1>2
<1>4. lead \in Nat
  BY <1>2, <1>3, ShiftedType
<1>5. ASSUME NEW k \in 1..(w - 1), i + k =< Len(b) PROVE Part(k) \in Nat
  <2>1. i + k \in 1..Len(b) /\ w - 1 - k \in 0..3
    BY <1>2, <1>5
  <2>2. b[i + k] % 64 \in Nat
    BY <1>1, <2>1, ByteType
  <2> QED BY <2>1, <2>2, ShiftedType
<1>6. \A m : Partial(b, i, m) = lead + (IF m > 0 THEN Part(1) ELSE 0)
                                     + (IF m > 1 THEN Part(2) ELSE 0)
                                     + (IF m > 2 THEN Part(3) ELSE 0)
  BY DEF Partial
<1>7. CodePointAt(b, i) = lead + (IF w > 1 THEN Part(1) ELSE 0)
                               + (IF w > 2 THEN Part(2) ELSE 0)
                               + (IF w > 3 THEN Part(3) ELSE 0)
  BY DEF CodePointAt
<1>8. \A m \in 0..(w - 2) : Part(m + 1) = Shifted(b[i + m + 1] % 64, w - 2 - m)
  <2> SUFFICES ASSUME NEW m \in 0..(w - 2)
               PROVE  Part(m + 1) = Shifted(b[i + m + 1] % 64, w - 2 - m)
    OBVIOUS
  <2>1. i + (m + 1) = i + m + 1 /\ w - 1 - (m + 1) = w - 2 - m
    BY <1>2
  <2> QED BY <2>1
<1> HIDE DEF w, Part, lead
<1>9. Partial(b, i, 0) = lead
  BY <1>4, <1>6
<1>10. Partial(b, i, w - 1) = CodePointAt(b, i)
  BY <1>2, <1>4, <1>6, <1>7
<1>11. ASSUME NEW m \in 0..(w - 1), i + m =< Len(b) PROVE Partial(b, i, m) \in Nat
  <2>1. \A k \in 1..m : Part(k) \in Nat
    BY <1>2, <1>5, <1>11
  <2>2. m > 0 => Part(1) \in Nat
    BY <1>2, <2>1
  <2>3. m > 1 => Part(2) \in Nat
    BY <1>2, <2>1
  <2>4. m > 2 => Part(3) \in Nat
    BY <1>2, <2>1
  <2> QED BY <1>4, <1>6, <2>2, <2>3, <2>4
<1>12. ASSUME NEW m \in 0..(w - 2), i + m + 1 =< Len(b)
       PROVE  Partial(b, i, m + 1) = Partial(b, i, m) + Part(m + 1)
  <2>1. \A k \in 1..(m + 1) : Part(k) \in Nat
    <3>1. \A k \in 1..(m + 1) : k \in 1..(w - 1) /\ i + k =< Len(b)
      BY <1>2, <1>12
    <3> QED BY <1>5, <3>1
  <2>2. m = 0 \/ m = 1 \/ m = 2
    BY <1>2
  <2> QED BY <1>4, <1>6, <2>1, <2>2
<1> QED BY <1>8, <1>9, <1>10, <1>11, <1>12 DEF w, lead

\* The first elements of a set are those of its initial parts.
LEMMA NthInitial ==
    ASSUME NEW T \in SUBSET Nat, IsFiniteSet(T), NEW S \in SUBSET T,
           \A x \in S, y \in T \ S : x < y
    PROVE  /\ IsFiniteSet(S) /\ Cardinality(S) =< Cardinality(T)
           /\ \A k \in 1..Cardinality(S) : Nth(T, k) = Nth(S, k)
<1>1. IsFiniteSet(S) /\ Cardinality(S) =< Cardinality(T)
  BY FS_Subset
<1>2. ASSUME NEW x \in S PROVE Rank(T, x) = Rank(S, x)
  <2>1. \A y \in T : y =< x => y \in S
    <3>1. \A y \in T : y \in Nat
      OBVIOUS
    <3> QED BY <3>1
  <2>2. UpTo(T, x) = UpTo(S, x)
    BY <2>1 DEF UpTo
  <2> QED BY <2>2 DEF Rank
<1>3. ASSUME NEW k \in 1..Cardinality(S) PROVE Nth(T, k) = Nth(S, k)
  <2>1. S \in SUBSET Nat
    OBVIOUS
  <2>2. Nth(S, k) \in S /\ Rank(S, Nth(S, k)) = k
    BY <1>1, <2>1, NthIs
  <2>3. Nth(S, k) \in T /\ Rank(T, Nth(S, k)) = k
    BY <1>2, <2>2
  <2>4. Nth(T, Rank(T, Nth(S, k))) = Nth(S, k)
    BY <2>3, NthIs
  <2> QED BY <2>3, <2>4
<1> QED BY <1>1, <1>3

\* An element above all of S comes right after them.
LEMMA NthNext ==
    ASSUME NEW S \in SUBSET Nat, IsFiniteSet(S), NEW x \in Nat, \A y \in S : y < x
    PROVE  /\ IsFiniteSet(S \cup {x}) /\ Cardinality(S \cup {x}) = Cardinality(S) + 1
           /\ Cardinality(S) \in Nat
           /\ \A k \in 1..Cardinality(S) : Nth(S \cup {x}, k) = Nth(S, k)
           /\ Nth(S \cup {x}, Cardinality(S) + 1) = x
<1> DEFINE T == S \cup {x}
<1>1. x \notin S /\ T \in SUBSET Nat /\ S \in SUBSET T /\ x \in T
  OBVIOUS
<1>2. IsFiniteSet(T) /\ Cardinality(T) = Cardinality(S) + 1 /\ Cardinality(S) \in Nat
  BY <1>1, FS_AddElement, FS_CardinalityType
<1>3. \A z \in S, y \in T \ S : z < y
  OBVIOUS
<1>4. UpTo(T, x) = T
  <2>1. \A y \in T : y =< x
    <3>1. \A y \in S : y \in Nat /\ y < x
      OBVIOUS
    <3> QED BY <3>1
  <2> QED BY <2>1 DEF UpTo
<1> HIDE DEF T
<1>5. \A k \in 1..Cardinality(S) : Nth(T, k) = Nth(S, k)
  BY <1>1, <1>2, <1>3, NthInitial
<1>6. Nth(T, Cardinality(S) + 1) = x
  <2>1. Rank(T, x) = Cardinality(S) + 1
    BY <1>2, <1>4 DEF Rank
  <2>2. Nth(T, Rank(T, x)) = x
    BY <1>1, <1>2, NthIs
  <2> QED BY <2>1, <2>2
<1> QED BY <1>2, <1>5, <1>6 DEF T

\* The code points of the sequences that start at S, in order.
TextAt(b, S) == [ k \in 1..Cardinality(S) |-> CodePointAt(b, Nth(S, k)) ]

\* It is a sequence of code points.
LEMMA TextAtType ==
    ASSUME NEW b, NEW S \in SUBSET Nat, IsFiniteSet(S),
           \A i \in S : CodePointAt(b, i) \in Nat
    PROVE  TextAt(b, S) \in Seq(Nat) /\ Len(TextAt(b, S)) = Cardinality(S)
<1>1. Cardinality(S) \in Nat
  BY FS_CardinalityType
<1>2. \A k \in 1..Cardinality(S) : CodePointAt(b, Nth(S, k)) \in Nat
  BY NthIs
<1>3. TextAt(b, S) = [k \in 1..Cardinality(S) |-> CodePointAt(b, Nth(S, k))]
  BY DEF TextAt
<1> QED BY <1>1, <1>2, <1>3

\* One more sequence after all those of S gives one more character.
LEMMA TextAtNext ==
    ASSUME NEW b, NEW S \in SUBSET Nat, IsFiniteSet(S),
           NEW x \in Nat, \A y \in S : y < x,
           \A i \in S \cup {x} : CodePointAt(b, i) \in Nat
    PROVE  TextAt(b, S \cup {x}) = Append(TextAt(b, S), CodePointAt(b, x))
<1> DEFINE T == S \cup {x}
           c == Cardinality(S)
           s == TextAt(b, S)
           t == TextAt(b, T)
<1>1. /\ c \in Nat /\ IsFiniteSet(T) /\ Cardinality(T) = c + 1
      /\ \A k \in 1..c : Nth(T, k) = Nth(S, k)
      /\ Nth(T, c + 1) = x
  BY NthNext
<1>2. s \in Seq(Nat) /\ Len(s) = c
  BY TextAtType
<1>3. t \in Seq(Nat) /\ Len(t) = c + 1
  BY <1>1, TextAtType
<1>4. \A k \in 1..c : s[k] = CodePointAt(b, Nth(S, k))
  BY DEF TextAt
<1>5. \A k \in 1..(c + 1) : t[k] = CodePointAt(b, Nth(T, k))
  BY <1>1 DEF TextAt
<1>6. CodePointAt(b, x) \in Nat
  OBVIOUS
<1> HIDE DEF T, c, s, t
<1>7. \A k \in 1..c : t[k] = s[k]
  BY <1>1, <1>4, <1>5
<1>8. t[c + 1] = CodePointAt(b, x)
  BY <1>1, <1>5
<1>9. t = Append(s, CodePointAt(b, x))
  BY <1>1, <1>2, <1>3, <1>6, <1>7, <1>8
<1> QED BY <1>9 DEF s, t, T

\* The text of some of the first sequences is a prefix of the text of all.
LEMMA TextAtInitial ==
    ASSUME NEW b, NEW T \in SUBSET Nat, IsFiniteSet(T), NEW S \in SUBSET T,
           \A x \in S, y \in T \ S : x < y
    PROVE  /\ Cardinality(S) =< Cardinality(T)
           /\ \A k \in 1..Cardinality(S) : TextAt(b, S)[k] = TextAt(b, T)[k]
<1>1. /\ IsFiniteSet(S) /\ Cardinality(S) =< Cardinality(T)
      /\ \A k \in 1..Cardinality(S) : Nth(T, k) = Nth(S, k)
  BY NthInitial
<1>2. \A k \in 1..Cardinality(S) : k \in 1..Cardinality(T)
  BY <1>1, FS_CardinalityType
<1> QED BY <1>1, <1>2 DEF TextAt

-----------------------------------------------------------------------------
(* What the decoder has done after the first n bytes of b.                 *)

\* The sequences that the first n bytes hold to their end, and their text.
Whole(b, n) == { i \in 1..n : ~ Continues(b[i]) /\ EndOf(b, i) =< n }
DecodedText(b, n) == TextAt(b, Whole(b, n))

\* What is known while no byte has been out of place: every lead is followed
\* by its continuations, every continuation belongs to a lead, and the decoder
\* holds the bits of the one sequence that is not at its end.
LeadsGoOn(b, n, left) ==
    \A i \in 1..n : ~ Continues(b[i]) =>
        /\ Width(b[i]) > 0
        /\ \A k \in 1..(Width(b[i]) - 1) : i + k =< n => Continues(b[i + k])
        /\ EndOf(b, i) =< n + left

Owned(b, n) ==
    \A j \in 1..n : Continues(b[j]) =>
        \E i \in 1..n : ~ Continues(b[i]) /\ i < j /\ j =< EndOf(b, i)

IsOpen(b, n, d, o) ==
    /\ o \in 1..n
    /\ ~ Continues(b[o])
    /\ EndOf(b, o) = n + d.state
    /\ d.codep = Partial(b, o, n - o)

DecoderInv(b, n, d) ==
    /\ d \in Decoders
    /\ LeadsGoOn(b, n, d.state)
    /\ Owned(b, n)
    /\ d.state > 0 => \E o \in 1..n : IsOpen(b, n, d, o)

\* What is known of the bytes of any byte string.
LEMMA BytesAre ==
    ASSUME NEW b \in Seq(Byte)
    PROVE  /\ Len(b) \in Nat
           /\ \A i \in 1..Len(b) : b[i] \in Byte /\ Width(b[i]) \in 0..4
           /\ \A i \in 1..Len(b) : Continues(b[i]) => Width(b[i]) = 0
           /\ \A i \in 1..Len(b) : EndOf(b, i) = i + Width(b[i]) - 1 /\ EndOf(b, i) \in Int
<1>1. Len(b) \in Nat
  OBVIOUS
<1>2. \A i \in 1..Len(b) : b[i] \in Byte
  OBVIOUS
<1>3. \A i \in 1..Len(b) : EndOf(b, i) = i + Width(b[i]) - 1
  BY DEF EndOf
<1>4. \A i \in 1..Len(b) : Width(b[i]) \in 0..4 /\ (Continues(b[i]) => Width(b[i]) = 0)
  BY <1>2, ByteType
<1>5. \A i \in 1..Len(b) : EndOf(b, i) \in Int
  BY <1>1, <1>3, <1>4
<1> QED BY <1>1, <1>2, <1>3, <1>4, <1>5

\* The decoded text is a sequence of code points.
LEMMA WholeType ==
    ASSUME NEW b \in Seq(Byte), NEW n \in 0..Len(b),
           NEW left, LeadsGoOn(b, n, left)
    PROVE  /\ Whole(b, n) \in SUBSET Nat /\ Whole(b, n) \subseteq 1..n
           /\ IsFiniteSet(Whole(b, n))
           /\ \A i \in Whole(b, n) : CodePointAt(b, i) \in Nat
           /\ DecodedText(b, n) \in Seq(Nat)
           /\ Len(DecodedText(b, n)) = Cardinality(Whole(b, n))
<1>1. Len(b) \in Nat /\ n \in Nat /\ n =< Len(b)
  OBVIOUS
<1>2. Whole(b, n) \subseteq 1..n
  BY DEF Whole
<1>3. Whole(b, n) \in SUBSET Nat /\ IsFiniteSet(Whole(b, n))
  <2>1. IsFiniteSet(1..n)
    BY <1>1, FS_Interval
  <2> QED BY <1>2, <2>1, FS_Subset
<1>4. ASSUME NEW i \in Whole(b, n) PROVE CodePointAt(b, i) \in Nat
  <2>1. i \in 1..n /\ i \in 1..Len(b) /\ ~ Continues(b[i]) /\ EndOf(b, i) =< n
    BY <1>1 DEF Whole
  <2>2. Width(b[i]) > 0
    BY <2>1 DEF LeadsGoOn
  <2>3. i + (Width(b[i]) - 1) =< Len(b) /\ Width(b[i]) - 1 \in 0..(Width(b[i]) - 1)
    <3>1. Width(b[i]) \in 0..4 /\ EndOf(b, i) = i + Width(b[i]) - 1
      BY <2>1, BytesAre
    <3> QED BY <1>1, <2>1, <2>2, <3>1
  <2> QED BY <2>1, <2>2, <2>3, PartialIs
<1> QED BY <1>2, <1>3, <1>4, TextAtType DEF DecodedText

\* Before the open sequence all have been whole.
LEMMA OneIsOpen ==
    ASSUME NEW b \in Seq(Byte), NEW n \in 0..Len(b), NEW d,
           DecoderInv(b, n, d), d.state > 0, NEW o, IsOpen(b, n, d, o)
    PROVE  /\ \A i \in 1..n : ~ Continues(b[i]) /\ i # o => i < o /\ EndOf(b, i) < o
           /\ \A i \in Whole(b, n) : i < o
<1>1. /\ d.state \in 1..3 /\ o \in 1..n /\ Len(b) \in Nat /\ n \in Nat /\ n =< Len(b)
      /\ ~ Continues(b[o]) /\ EndOf(b, o) = n + d.state
  BY DEF DecoderInv, Decoders, IsOpen
<1>2. ASSUME NEW i \in 1..n, ~ Continues(b[i]), i # o PROVE i < o /\ EndOf(b, i) < o
  <2>1. /\ i \in 1..Len(b) /\ o \in 1..Len(b)
        /\ Width(b[i]) \in 0..4 /\ EndOf(b, i) = i + Width(b[i]) - 1
        /\ Width(b[o]) \in 0..4 /\ EndOf(b, o) = o + Width(b[o]) - 1
    <3>1. i \in 1..Len(b) /\ o \in 1..Len(b)
      BY <1>1
    <3> QED BY <3>1, BytesAre
  <2>2. CASE o < i
    <3>1. i - o \in 1..(Width(b[o]) - 1) /\ o + (i - o) =< n /\ o + (i - o) = i
      BY <1>1, <2>1, <2>2
    <3>2. Continues(b[o + (i - o)])
      BY <1>1, <3>1 DEF DecoderInv, LeadsGoOn
    <3> QED BY <1>2, <3>1, <3>2
  <2>3. CASE i < o /\ o =< EndOf(b, i)
    <3>1. o - i \in 1..(Width(b[i]) - 1) /\ i + (o - i) =< n /\ i + (o - i) = o
      BY <1>1, <2>1, <2>3
    <3>2. Continues(b[i + (o - i)])
      BY <1>2, <3>1 DEF DecoderInv, LeadsGoOn
    <3> QED BY <1>1, <3>1, <3>2
  <2> QED BY <1>1, <1>2, <2>1, <2>2, <2>3
<1>3. \A i \in Whole(b, n) : i \in 1..n /\ ~ Continues(b[i]) /\ i # o
  BY <1>1 DEF Whole
<1> QED BY <1>2, <1>3

\* Before the first byte.
LEMMA DecoderInvInit ==
    ASSUME NEW b \in Seq(Byte)
    PROVE  DecoderInv(b, 0, NewDecoder) /\ DecodedText(b, 0) = <<>>
<1>1. NewDecoder \in Decoders /\ NewDecoder.state = 0
  BY DEF NewDecoder, Decoders
<1>2. DecoderInv(b, 0, NewDecoder)
  BY <1>1 DEF DecoderInv, LeadsGoOn, Owned
<1>3. Whole(b, 0) = {}
  BY DEF Whole
<1>4. Cardinality(Whole(b, 0)) = 0
  BY <1>3, FS_EmptySet
<1>5. DecodedText(b, 0) = <<>>
  BY <1>4 DEF DecodedText, TextAt
<1> QED BY <1>2, <1>5

\* A sequence has its bytes.
LEMMA SequenceIs ==
    ASSUME NEW b, NEW i, SequenceAt(b, i)
    PROVE  /\ Width(b[i]) > 0
           /\ i + Width(b[i]) - 1 =< Len(b)
           /\ \A k \in 1..(Width(b[i]) - 1) : Continues(b[i + k])
BY DEF SequenceAt

\* A byte after which nothing is out of place: what the decoder returns for it,
\* if anything, is the next character of the text.
GoodStep(b, n, r) ==
    /\ DecoderInv(b, n + 1, r.dec)
    /\ r.cp = Pending => DecodedText(b, n + 1) = DecodedText(b, n)
    /\ r.cp # Pending =>
         r.cp \in Nat /\ DecodedText(b, n + 1) = Append(DecodedText(b, n), r.cp)

\* A byte that is a character.
LEMMA StepCharacter ==
    ASSUME NEW b \in Seq(Byte), NEW n \in 0..Len(b), n < Len(b),
           NEW d, DecoderInv(b, n, d), d.state = 0, Width(b[n + 1]) = 1
    PROVE  GoodStep(b, n, Decode(d, b[n + 1]))
<1> DEFINE m == n + 1
           S == Whole(b, n)
<1>1. n \in Nat /\ Len(b) \in Nat /\ m \in 1..Len(b) /\ b[m] \in Byte
  <2>1. n \in Nat /\ Len(b) \in Nat /\ m \in 1..Len(b)
    OBVIOUS
  <2> QED BY <2>1, BytesAre
<1>2. Decode(d, b[m]) = [dec |-> d, cp |-> b[m]]
  BY DEF Decode, StartSequence
<1>3. ~ Continues(b[m]) /\ EndOf(b, m) = m /\ LeadBits(b[m]) = b[m] /\ b[m] \in Nat
  <2>1. ~ Continues(b[m]) /\ EndOf(b, m) = m
    BY <1>1, BytesAre
  <2>2. LeadBits(b[m]) = b[m]
    BY <1>1, ByteType
  <2>3. \A x \in Byte : x \in Nat
    BY DEF Byte
  <2> QED BY <1>1, <2>1, <2>2, <2>3
<1>4. CodePointAt(b, m) = b[m]
  <2>1. \A bits \in Nat : Shifted(bits, 0) = bits
    <3>1. 0 \in 0..3
      OBVIOUS
    <3> QED BY <3>1, ShiftedType
  <2> QED BY <1>3, <2>1 DEF CodePointAt
<1>5. \A i \in 1..m : i \in 1..n \/ i = m
  BY <1>1
<1>6. \A i \in 1..n : ~ Continues(b[i]) => EndOf(b, i) =< n /\ i # m /\ i \in 1..m
  BY <1>1 DEF DecoderInv, LeadsGoOn
<1>7. \A i \in 1..n : EndOf(b, i) \in Int
  <2>1. \A i \in 1..n : i \in 1..Len(b)
    BY <1>1
  <2> QED BY <2>1, BytesAre
<1>8. Whole(b, m) = S \cup {m}
  BY <1>1, <1>3, <1>5, <1>6, <1>7 DEF Whole
<1>9. LeadsGoOn(b, n, 0)
  BY DEF DecoderInv
<1>10. /\ S \in SUBSET Nat /\ IsFiniteSet(S) /\ S \subseteq 1..n
       /\ \A i \in S : CodePointAt(b, i) \in Nat
  BY <1>9, WholeType
<1>11. DecodedText(b, m) = Append(DecodedText(b, n), b[m])
  <2>1. \A y \in S : y < m
    BY <1>1, <1>10
  <2>2. \A i \in S \cup {m} : CodePointAt(b, i) \in Nat
    BY <1>3, <1>4, <1>10
  <2> HIDE DEF S
  <2>3. m \in Nat
    BY <1>1
  <2>4. TextAt(b, S \cup {m}) = Append(TextAt(b, S), CodePointAt(b, m))
    BY <1>10, <2>1, <2>2, <2>3, TextAtNext
  <2> QED BY <1>4, <1>8, <2>4 DEF DecodedText, S
<1>12. DecoderInv(b, m, d)
  <2>1. ASSUME NEW i \in 1..m, ~ Continues(b[i])
        PROVE  /\ Width(b[i]) > 0
               /\ \A k \in 1..(Width(b[i]) - 1) : i + k =< m => Continues(b[i + k])
               /\ EndOf(b, i) =< m + 0
    <3>1. CASE i = m
      BY <1>1, <1>3, <3>1
    <3>2. CASE i \in 1..n
      <4>1. /\ Width(b[i]) > 0 /\ EndOf(b, i) =< n
            /\ \A k \in 1..(Width(b[i]) - 1) : i + k =< n => Continues(b[i + k])
        BY <1>6, <2>1, <3>2 DEF DecoderInv, LeadsGoOn
      <4>2. EndOf(b, i) = i + Width(b[i]) - 1 /\ Width(b[i]) \in Int
        <5>1. i \in 1..Len(b)
          BY <1>1, <3>2
        <5> QED BY <5>1, BytesAre
      <4>3. \A k \in 1..(Width(b[i]) - 1) : i + k =< n
        BY <1>1, <3>2, <4>1, <4>2
      <4> QED BY <1>1, <3>2, <4>1, <4>2, <4>3
    <3> QED BY <1>5, <3>1, <3>2
  <2>2. LeadsGoOn(b, m, d.state)
    BY <2>1 DEF LeadsGoOn
  <2>3. Owned(b, m)
    BY <1>3, <1>5, <1>6 DEF DecoderInv, Owned
  <2> QED BY <2>2, <2>3 DEF DecoderInv
<1>13. b[m] # Pending
  BY <1>3 DEF Pending
<1> QED BY <1>2, <1>3, <1>11, <1>12, <1>13 DEF GoodStep

\* A byte that leads a longer sequence.
LEMMA StepLead ==
    ASSUME NEW b \in Seq(Byte), NEW n \in 0..Len(b), n < Len(b),
           NEW d, DecoderInv(b, n, d), d.state = 0, Width(b[n + 1]) > 1
    PROVE  GoodStep(b, n, Decode(d, b[n + 1]))
<1> DEFINE m == n + 1
           w == Width(b[m])
           e == [state |-> w - 1, codep |-> Shifted(LeadBits(b[m]), w - 1)]
<1>1. n \in Nat /\ Len(b) \in Nat /\ m \in 1..Len(b) /\ b[m] \in Byte
  <2>1. n \in Nat /\ Len(b) \in Nat /\ m \in 1..Len(b)
    OBVIOUS
  <2> QED BY <2>1, BytesAre
<1>2. w \in 2..4 /\ ~ Continues(b[m]) /\ EndOf(b, m) = m + w - 1
  BY <1>1, BytesAre
<1>3. Decode(d, b[m]) = [dec |-> e, cp |-> Pending]
  BY <1>2 DEF Decode, StartSequence
<1>4. e \in Decoders /\ e.state = w - 1
  <2>1. Decode(d, b[m]).dec \in Decoders
    BY <1>1, DecodeType DEF DecoderInv
  <2> QED BY <1>3, <2>1
<1>5. \A i \in 1..m : i \in 1..n \/ i = m
  BY <1>1
<1>6. \A i \in 1..n : ~ Continues(b[i]) => EndOf(b, i) =< n /\ i # m /\ i \in 1..m
  BY <1>1 DEF DecoderInv, LeadsGoOn
<1>7. \A i \in 1..n : /\ EndOf(b, i) = i + Width(b[i]) - 1 /\ Width(b[i]) \in Int
                      /\ EndOf(b, i) \in Int
  <2>1. \A i \in 1..n : i \in 1..Len(b)
    BY <1>1
  <2> QED BY <2>1, BytesAre
<1> HIDE DEF e, w
<1>8. Whole(b, m) = Whole(b, n)
  <2>1. ~ (EndOf(b, m) =< m)
    BY <1>1, <1>2
  <2> QED BY <1>1, <1>5, <1>6, <1>7, <2>1 DEF Whole
<1>9. IsOpen(b, m, e, m)
  <2>1. e.codep = Partial(b, m, 0)
    BY <1>1, <1>2, PartialIs DEF e, w
  <2>2. m - m = 0 /\ m \in 1..m /\ EndOf(b, m) = m + e.state
    BY <1>1, <1>2, <1>4
  <2> QED BY <1>2, <2>1, <2>2 DEF IsOpen
<1>10. LeadsGoOn(b, m, e.state)
  <2>1. ASSUME NEW i \in 1..m, ~ Continues(b[i])
        PROVE  /\ Width(b[i]) > 0
               /\ \A k \in 1..(Width(b[i]) - 1) : i + k =< m => Continues(b[i + k])
               /\ EndOf(b, i) =< m + e.state
    <3>1. CASE i = m
      <4>1. \A k \in 1..(w - 1) : ~ (m + k =< m)
        BY <1>1, <1>2
      <4>2. w > 0 /\ EndOf(b, m) =< m + e.state
        BY <1>1, <1>2, <1>4
      <4>3. w = Width(b[m])
        BY DEF w
      <4>4. Width(b[i]) = w /\ EndOf(b, i) = EndOf(b, m)
        BY <3>1, <4>3
      <4>5. \A k \in 1..(Width(b[i]) - 1) : ~ (i + k =< m)
        BY <3>1, <4>1, <4>4
      <4>6. Width(b[i]) > 0 /\ EndOf(b, i) =< m + e.state
        BY <4>2, <4>4
      <4> QED BY <4>5, <4>6
    <3>2. CASE i \in 1..n
      <4>1. /\ Width(b[i]) > 0 /\ EndOf(b, i) =< n
            /\ \A k \in 1..(Width(b[i]) - 1) : i + k =< n => Continues(b[i + k])
        BY <1>6, <2>1, <3>2 DEF DecoderInv, LeadsGoOn
      <4>2. \A k \in 1..(Width(b[i]) - 1) : i + k =< n
        BY <1>1, <1>7, <3>2, <4>1
      <4>3. EndOf(b, i) =< m + e.state
        <5>1. EndOf(b, i) \in Int
          BY <1>7, <3>2
        <5>2. e.state \in Nat
          BY <1>2, <1>4
        <5> QED BY <1>1, <4>1, <5>1, <5>2
      <4>4. \A k \in 1..(Width(b[i]) - 1) : Continues(b[i + k])
        BY <4>1, <4>2
      <4> QED BY <4>1, <4>3, <4>4
    <3> QED BY <1>5, <3>1, <3>2
  <2> QED BY <2>1 DEF LeadsGoOn
<1>11. Owned(b, m)
  BY <1>2, <1>5, <1>6 DEF DecoderInv, Owned
<1>12. DecoderInv(b, m, e)
  BY <1>4, <1>9, <1>10, <1>11 DEF DecoderInv, IsOpen
<1> QED BY <1>3, <1>8, <1>12 DEF GoodStep, DecodedText

\* A byte that neither is nor leads anything: no UTF-8.
LEMMA StepMalformed ==
    ASSUME NEW b \in Seq(Byte), NEW n \in 0..Len(b), n < Len(b),
           NEW d, DecoderInv(b, n, d), d.state = 0, Width(b[n + 1]) = 0
    PROVE  Decode(d, b[n + 1]).cp = Replacement /\ ~ IsUtf8(b)
<1> DEFINE m == n + 1
<1>1. n \in Nat /\ Len(b) \in Nat /\ m \in 1..Len(b) /\ DOMAIN b = 1..Len(b)
  OBVIOUS
<1>2. Decode(d, b[m]).cp = Replacement
  BY DEF Decode, StartSequence
<1>3. CASE ~ Continues(b[m])
  <2>1. m \in Leads(b) /\ ~ SequenceAt(b, m)
    BY <1>1, <1>3 DEF Leads, SequenceAt
  <2> QED BY <1>2, <2>1 DEF IsUtf8
<1>4. CASE Continues(b[m])
  <2> SUFFICES ASSUME IsUtf8(b) PROVE FALSE
    BY <1>2
  <2>1. PICK j \in Leads(b) : j < m /\ m < j + Width(b[j])
    BY <1>1, <1>4 DEF IsUtf8, Leads
  <2>2. j \in 1..n /\ ~ Continues(b[j]) /\ j \in 1..Len(b)
    BY <1>1, <2>1 DEF Leads
  <2>3. EndOf(b, j) =< n
    BY <1>1, <2>2 DEF DecoderInv, LeadsGoOn
  <2> QED BY <1>1, <2>1, <2>2, <2>3, BytesAre
<1> QED BY <1>3, <1>4

\* A byte that should continue a sequence and does not: no UTF-8.
LEMMA StepBreak ==
    ASSUME NEW b \in Seq(Byte), NEW n \in 0..Len(b), n < Len(b),
           NEW d, DecoderInv(b, n, d), d.state > 0, ~ Continues(b[n + 1])
    PROVE  Decode(d, b[n + 1]).cp = Replacement /\ ~ IsUtf8(b)
<1>1. n \in Nat /\ Len(b) \in Nat /\ n + 1 \in 1..Len(b) /\ DOMAIN b = 1..Len(b)
  OBVIOUS
<1>2. d.state \in 1..3
  BY DEF DecoderInv, Decoders
<1>3. Decode(d, b[n + 1]).cp = Replacement
  BY <1>2 DEF Decode, BreakSequence
<1>4. PICK o \in 1..n : IsOpen(b, n, d, o)
  BY DEF DecoderInv
<1>5. o \in Leads(b) /\ o \in 1..Len(b) /\ EndOf(b, o) = n + d.state
  BY <1>1, <1>4 DEF IsOpen, Leads
<1>6. n + 1 - o \in 1..(Width(b[o]) - 1) /\ o + (n + 1 - o) = n + 1
  <2>1. Width(b[o]) \in 0..4 /\ EndOf(b, o) = o + Width(b[o]) - 1
    BY <1>5, BytesAre
  <2> QED BY <1>1, <1>2, <1>4, <1>5, <2>1
<1>7. ASSUME SequenceAt(b, o) PROVE FALSE
  <2>1. \A k \in 1..(Width(b[o]) - 1) : Continues(b[o + k])
    BY <1>7, SequenceIs
  <2>2. Continues(b[o + (n + 1 - o)])
    BY <1>6, <2>1
  <2> QED BY <1>6, <2>2
<1> QED BY <1>3, <1>5, <1>7 DEF IsUtf8

\* A byte that continues the open sequence.
LEMMA StepContinue ==
    ASSUME NEW b \in Seq(Byte), NEW n \in 0..Len(b), n < Len(b),
           NEW d, DecoderInv(b, n, d), d.state > 0, Continues(b[n + 1])
    PROVE  GoodStep(b, n, Decode(d, b[n + 1]))
<1> DEFINE m == n + 1
           S == Whole(b, n)
           r == Decode(d, b[m])
<1>1. n \in Nat /\ Len(b) \in Nat /\ m \in 1..Len(b) /\ m = n + 1 /\ b[m] \in Byte
  <2>1. n \in Nat /\ Len(b) \in Nat /\ m \in 1..Len(b)
    OBVIOUS
  <2> QED BY <2>1, BytesAre
<1>2. d.state \in 1..3 /\ d \in Decoders /\ d.codep \in Nat
  BY DEF DecoderInv, Decoders
<1>3. PICK o \in 1..n : IsOpen(b, n, d, o)
  BY DEF DecoderInv
<1>4. /\ o \in 1..Len(b) /\ o \in 1..m /\ o \in Nat /\ o =< n
      /\ ~ Continues(b[o])
      /\ EndOf(b, o) = n + d.state /\ EndOf(b, o) = o + Width(b[o]) - 1
      /\ Width(b[o]) \in 1..4 /\ d.codep = Partial(b, o, n - o)
  <2>1. o \in 1..Len(b) /\ o \in 1..m /\ o \in Nat /\ o =< n
    BY <1>1
  <2>2. ~ Continues(b[o]) /\ EndOf(b, o) = n + d.state /\ d.codep = Partial(b, o, n - o)
    BY <1>3 DEF IsOpen
  <2>3. Width(b[o]) > 0
    BY <2>2 DEF DecoderInv, LeadsGoOn
  <2>4. Width(b[o]) \in 0..4 /\ EndOf(b, o) = o + Width(b[o]) - 1
    BY <2>1, BytesAre
  <2>5. Width(b[o]) \in 1..4
    BY <2>3, <2>4
  <2> QED BY <2>1, <2>2, <2>4, <2>5
<1>5. /\ \A i \in 1..n : ~ Continues(b[i]) /\ i # o => i < o /\ EndOf(b, i) < o
      /\ \A i \in S : i < o
  BY <1>2, <1>3, OneIsOpen
<1>6. /\ n - o \in 0..(Width(b[o]) - 2) /\ o + (n - o) + 1 = m
      /\ Width(b[o]) - 2 - (n - o) = d.state - 1 /\ (n - o) + 1 = m - o
  BY <1>1, <1>2, <1>4
<1>7. Partial(b, o, m - o) = d.codep + Shifted(b[m] % 64, d.state - 1)
  <2>1. o + (n - o) + 1 =< Len(b)
    BY <1>1, <1>6
  <2>2. Partial(b, o, (n - o) + 1) = Partial(b, o, n - o)
          + Shifted(b[o + (n - o) + 1] % 64, Width(b[o]) - 2 - (n - o))
    BY <1>4, <1>6, <2>1, PartialIs
  <2> QED BY <1>4, <1>6, <2>2
<1>8. r = ContinueSequence(d, b[m])
  BY <1>2 DEF Decode
<1>9. r.dec \in Decoders /\ r.dec.state = d.state - 1
  <2>1. r.dec \in Decoders
    BY <1>1, <1>2, DecodeType
  <2> HIDE DEF r
  <2>2. d.state = 1 => r.dec.state = 0
    BY <1>2, <1>8 DEF ContinueSequence, Decoders
  <2>3. d.state # 1 => r.dec.state = d.state - 1
    BY <1>8 DEF ContinueSequence
  <2> QED BY <1>2, <2>1, <2>2, <2>3
<1>10. /\ \A i \in 1..m : i \in 1..n \/ i = m
       /\ \A i \in 1..n : i \in 1..m /\ i # m
  BY <1>1
<1>11. \A i \in 1..n : /\ EndOf(b, i) = i + Width(b[i]) - 1 /\ Width(b[i]) \in Int
                       /\ EndOf(b, i) \in Int
  <2>1. \A i \in 1..n : i \in 1..Len(b)
    BY <1>1
  <2> QED BY <2>1, BytesAre
<1> HIDE DEF r, m
<1>12. LeadsGoOn(b, m, r.dec.state)
  <2>1. ASSUME NEW i \in 1..m, ~ Continues(b[i])
        PROVE  /\ Width(b[i]) > 0
               /\ \A k \in 1..(Width(b[i]) - 1) : i + k =< m => Continues(b[i + k])
               /\ EndOf(b, i) =< m + r.dec.state
    <3>1. i \in 1..n
      BY <1>1, <1>10, <2>1
    <3>2. /\ Width(b[i]) > 0 /\ EndOf(b, i) =< n + d.state
          /\ \A k \in 1..(Width(b[i]) - 1) : i + k =< n => Continues(b[i + k])
      BY <2>1, <3>1 DEF DecoderInv, LeadsGoOn
    <3>3. \A k \in 1..(Width(b[i]) - 1) : i + k =< m => i + k =< n \/ i + k = m
      BY <1>1, <1>11, <3>1
    <3>4. \A k \in 1..(Width(b[i]) - 1) : i + k =< m => Continues(b[i + k])
      BY <1>1, <3>2, <3>3
    <3>5. EndOf(b, i) =< m + r.dec.state
      BY <1>1, <1>2, <1>9, <1>11, <3>1, <3>2
    <3> QED BY <3>2, <3>4, <3>5
  <2> QED BY <2>1 DEF LeadsGoOn
<1>13. Owned(b, m)
  <2>1. ASSUME NEW j \in 1..m, Continues(b[j])
        PROVE  \E i \in 1..m : ~ Continues(b[i]) /\ i < j /\ j =< EndOf(b, i)
    <3>1. CASE j \in 1..n
      BY <1>10, <2>1, <3>1 DEF DecoderInv, Owned
    <3>2. CASE j = m
      <4>1. o < m /\ m =< EndOf(b, o)
        BY <1>1, <1>2, <1>4
      <4> QED BY <1>4, <3>2, <4>1
    <3> QED BY <1>10, <3>1, <3>2
  <2> QED BY <2>1 DEF Owned
<1>14. LeadsGoOn(b, n, d.state)
  BY DEF DecoderInv
<1>15. /\ S \in SUBSET Nat /\ IsFiniteSet(S) /\ S \subseteq 1..n
       /\ \A i \in S : CodePointAt(b, i) \in Nat
  BY <1>14, WholeType
<1>16. CASE d.state = 1
  <2>1. r.cp = Partial(b, o, m - o) /\ r.dec.state = 0
    BY <1>2, <1>7, <1>8, <1>9, <1>16, ShiftedType, ByteType, <1>1 DEF ContinueSequence
  <2>2. m - o = Width(b[o]) - 1 /\ EndOf(b, o) = m /\ m - o \in 0..(Width(b[o]) - 1)
        /\ o + (m - o) =< Len(b)
    BY <1>1, <1>4, <1>16
  <2>3. r.cp = CodePointAt(b, o) /\ r.cp \in Nat
    BY <1>4, <2>1, <2>2, PartialIs
  <2>4. Whole(b, m) = S \cup {o}
    <3>1. \A i \in S : i \in 1..m /\ ~ Continues(b[i]) /\ EndOf(b, i) =< m
      <4>1. \A i \in S : i \in 1..n /\ ~ Continues(b[i]) /\ EndOf(b, i) =< n
        BY DEF Whole
      <4> QED BY <1>1, <1>10, <1>11, <4>1
    <3>2. \A i \in 1..m : ~ Continues(b[i]) /\ i # o => i \in S
      <4>1. \A i \in 1..m : ~ Continues(b[i]) /\ i # o => i \in 1..n /\ EndOf(b, i) < o
        BY <1>1, <1>5, <1>10
      <4>2. \A i \in 1..m : ~ Continues(b[i]) /\ i # o => EndOf(b, i) =< n
        BY <1>1, <1>4, <1>11, <4>1
      <4> QED BY <4>1, <4>2 DEF Whole
    <3>3. o \in 1..m /\ ~ Continues(b[o]) /\ EndOf(b, o) =< m
      BY <1>1, <1>4, <2>2
    <3> HIDE DEF S
    <3> QED BY <3>1, <3>2, <3>3 DEF Whole
  <2>5. DecodedText(b, m) = Append(DecodedText(b, n), r.cp)
    <3> HIDE DEF S
    <3>1. \A i \in S \cup {o} : CodePointAt(b, i) \in Nat
      BY <1>15, <2>3
    <3>2. TextAt(b, S \cup {o}) = Append(TextAt(b, S), CodePointAt(b, o))
      BY <1>4, <1>5, <1>15, <3>1, TextAtNext
    <3> QED BY <2>3, <2>4, <3>2 DEF DecodedText, S
  <2>6. DecoderInv(b, m, r.dec)
    BY <1>9, <1>12, <1>13, <2>1 DEF DecoderInv
  <2>7. r.cp # Pending
    BY <2>3 DEF Pending
  <2> QED BY <2>3, <2>5, <2>6, <2>7 DEF GoodStep, r, m
<1>17. CASE d.state # 1
  <2>1. r.cp = Pending /\ r.dec.codep = Partial(b, o, m - o)
    BY <1>7, <1>8, <1>17 DEF ContinueSequence
  <2>2. EndOf(b, o) = m + r.dec.state
    BY <1>1, <1>2, <1>4, <1>9
  <2>3. IsOpen(b, m, r.dec, o)
    BY <1>4, <2>1, <2>2 DEF IsOpen
  <2>4. Whole(b, m) = S
    <3>1. ~ (EndOf(b, o) =< m)
      BY <1>1, <1>2, <1>4, <1>17
    <3>2. \A i \in 1..m : ~ Continues(b[i]) /\ i # o =>
            i \in 1..n /\ EndOf(b, i) =< n /\ EndOf(b, i) =< m
      <4>1. \A i \in 1..m : ~ Continues(b[i]) /\ i # o => i \in 1..n /\ EndOf(b, i) < o
        BY <1>1, <1>5, <1>10
      <4>2. ASSUME NEW i \in 1..n, EndOf(b, i) < o
            PROVE  EndOf(b, i) =< n /\ EndOf(b, i) =< m
        <5>1. EndOf(b, i) \in Int
          BY <1>11
        <5>2. o \in Nat /\ o =< n /\ n \in Nat /\ m = n + 1
          BY <1>1, <1>4
        <5> QED BY <4>2, <5>1, <5>2
      <4> QED BY <4>1, <4>2
    <3>3. ~ (EndOf(b, o) =< n)
      BY <1>1, <1>2, <1>4, <1>17
    <3> QED BY <1>10, <3>1, <3>2, <3>3 DEF Whole
  <2>5. DecoderInv(b, m, r.dec)
    BY <1>4, <1>9, <1>12, <1>13, <2>3 DEF DecoderInv
  <2> QED BY <2>1, <2>4, <2>5 DEF GoodStep, DecodedText, r, m
<1> QED BY <1>16, <1>17

\* One call of decode: it goes on with the text, or reports that the bytes are
\* not UTF-8, and never reports that of UTF-8.
LEMMA DecodeStep ==
    ASSUME NEW b \in Seq(Byte), NEW n \in 0..Len(b), n < Len(b),
           NEW d, DecoderInv(b, n, d)
    PROVE  \/ GoodStep(b, n, Decode(d, b[n + 1]))
           \/ Decode(d, b[n + 1]).cp = Replacement /\ ~ IsUtf8(b)
<1>1. n + 1 \in 1..Len(b) /\ d.state \in 0..3
  BY DEF DecoderInv, Decoders
<1>2. Width(b[n + 1]) \in 0..4
  BY <1>1, BytesAre
<1>3. CASE d.state = 0
  BY <1>2, <1>3, StepCharacter, StepLead, StepMalformed
<1>4. CASE d.state > 0
  BY <1>4, StepContinue, StepBreak
<1> QED BY <1>1, <1>3, <1>4

\* The text of UTF-8 is that of all its sequences.
LEMMA TextOfIs ==
    ASSUME NEW b \in Seq(Byte)
    PROVE  /\ TextOf(b) = TextAt(b, Leads(b))
           /\ Leads(b) \subseteq 1..Len(b) /\ Leads(b) \in SUBSET Nat
           /\ IsFiniteSet(Leads(b))
<1>1. TextOf(b) = TextAt(b, Leads(b))
  BY DEF TextOf, TextAt, Nth
<1>2. Leads(b) \subseteq 1..Len(b)
  BY DEF Leads
<1>3. IsFiniteSet(1..Len(b))
  BY FS_Interval
<1> QED BY <1>1, <1>2, <1>3, FS_Subset

\* The text of a byte string is a sequence, whatever the bytes are.
LEMMA TextOfType ==
    ASSUME NEW b \in Seq(Byte)
    PROVE  \E V : TextOf(b) \in Seq(V)
<1> DEFINE n == Cardinality(Leads(b))
           V == { TextOf(b)[k] : k \in 1..n }
<1>1. n \in Nat
  <2>1. Leads(b) \subseteq 1..Len(b) /\ IsFiniteSet(1..Len(b))
    BY FS_Interval DEF Leads
  <2> QED BY <2>1, FS_Subset, FS_CardinalityType
<1>2. TextOf(b) = [k \in 1..n |-> TextOf(b)[k]]
  BY DEF TextOf
<1>3. \A k \in 1..n : TextOf(b)[k] \in V
  OBVIOUS
<1> HIDE DEF n, V
<1>4. TextOf(b) \in Seq(V)
  BY <1>1, <1>2, <1>3
<1> QED BY <1>4

\* What has been decoded is where the text of all the bytes starts.
LEMMA DecodedIsPrefix ==
    ASSUME NEW b \in Seq(Byte), NEW n \in 0..Len(b), NEW d, DecoderInv(b, n, d)
    PROVE  \A k \in DOMAIN DecodedText(b, n) :
             k \in DOMAIN TextOf(b) /\ DecodedText(b, n)[k] = TextOf(b)[k]
<1> DEFINE S == Whole(b, n)
           T == Leads(b)
<1>1. n \in Nat /\ n =< Len(b) /\ Len(b) \in Nat /\ DOMAIN b = 1..Len(b)
  OBVIOUS
<1>2. T \in SUBSET Nat /\ IsFiniteSet(T) /\ T \subseteq 1..Len(b) /\ TextOf(b) = TextAt(b, T)
  BY TextOfIs
<1>3. S \in SUBSET T
  BY <1>1 DEF Whole, Leads
<1>4. ASSUME NEW x \in S, NEW y \in T \ S PROVE x < y
  <2>1. x \in 1..n /\ y \in 1..Len(b) /\ ~ Continues(b[y])
    BY <1>1 DEF Whole, Leads
  <2>2. CASE y > n
    BY <1>1, <2>1, <2>2
  <2>3. CASE ~ (y > n)
    <3>1. y \in 1..n /\ ~ (EndOf(b, y) =< n)
      BY <1>1, <1>4, <2>1, <2>3 DEF Whole
    <3>2. d.state \in 0..3 /\ EndOf(b, y) =< n + d.state
      BY <2>1, <3>1 DEF DecoderInv, Decoders, LeadsGoOn
    <3>3. d.state > 0
      BY <1>1, <3>1, <3>2
    <3>4. PICK o \in 1..n : IsOpen(b, n, d, o)
      BY <3>3 DEF DecoderInv
    <3>5. /\ y # o => EndOf(b, y) < o
          /\ x < o
      BY <2>1, <3>1, <3>3, <3>4, OneIsOpen
    <3>6. EndOf(b, y) \in Int
      BY <2>1, BytesAre
    <3>7. y = o
      BY <1>1, <3>1, <3>4, <3>5, <3>6
    <3> QED BY <3>5, <3>7
  <2> QED BY <2>2, <2>3
<1>5. DOMAIN TextAt(b, S) = 1..Cardinality(S) /\ DOMAIN TextAt(b, T) = 1..Cardinality(T)
  BY DEF TextAt
<1>6. Cardinality(S) \in Nat /\ Cardinality(T) \in Nat
  BY <1>2, <1>3, FS_Subset, FS_CardinalityType
<1> HIDE DEF S, T
<1>7. /\ Cardinality(S) =< Cardinality(T)
      /\ \A k \in 1..Cardinality(S) : TextAt(b, S)[k] = TextAt(b, T)[k]
  BY <1>2, <1>3, <1>4, TextAtInitial
<1>8. \A k \in 1..Cardinality(S) : k \in 1..Cardinality(T)
  BY <1>6, <1>7
<1>9. DecodedText(b, n) = TextAt(b, S)
  BY DEF DecodedText, S
<1> QED BY <1>2, <1>5, <1>7, <1>8, <1>9

\* At the end of the bytes: UTF-8 has been decoded to its text, and bytes
\* that are not UTF-8 have a gap.
LEMMA DecodedAtEnd ==
    ASSUME NEW b \in Seq(Byte), NEW d, DecoderInv(b, Len(b), d)
    PROVE  /\ IsUtf8(b) => d.state = 0 /\ DecodedText(b, Len(b)) = TextOf(b)
           /\ UpToGaps(b)
           /\ IsUtf8(b) \/ HasGap(b)
<1> DEFINE n == Len(b)
<1>1. n \in Nat /\ DOMAIN b = 1..n /\ d.state \in 0..3
  <2>1. n \in Nat /\ DOMAIN b = 1..n
    OBVIOUS
  <2>2. d.state \in 0..3
    BY DEF DecoderInv, Decoders
  <2> QED BY <2>1, <2>2
<1>2. \A i \in 1..n : /\ EndOf(b, i) = i + Width(b[i]) - 1
                      /\ Width(b[i]) \in 0..4
  BY BytesAre
<1>3. ASSUME IsUtf8(b) PROVE d.state = 0 /\ DecodedText(b, n) = TextOf(b)
  <2>1. \A i \in 1..n : ~ Continues(b[i]) => EndOf(b, i) =< n
    BY <1>1, <1>2, <1>3, SequenceIs DEF IsUtf8, Leads
  <2>2. d.state = 0
    <3>1. SUFFICES ASSUME d.state > 0 PROVE FALSE
      BY <1>1
    <3>2. PICK o \in 1..n : IsOpen(b, n, d, o)
      BY <3>1 DEF DecoderInv
    <3>3. EndOf(b, o) = n + d.state /\ EndOf(b, o) =< n
      BY <2>1, <3>2 DEF IsOpen
    <3> QED BY <1>1, <3>1, <3>3
  <2>3. Whole(b, n) = Leads(b)
    BY <1>1, <2>1 DEF Whole, Leads
  <2> QED BY <2>2, <2>3, TextOfIs DEF DecodedText
<1>4. \A i \in Leads(b) : SequenceAt(b, i) \/ GapAt(b, i)
  BY <1>1 DEF Leads, GapAt, DecoderInv, LeadsGoOn
<1>5. ASSUME NEW j \in DOMAIN b \ Leads(b)
      PROVE  \E i \in Leads(b) : i < j /\ j < i + Width(b[i])
  <2>1. j \in 1..n /\ Continues(b[j])
    BY <1>1 DEF Leads
  <2>2. PICK i \in 1..n : ~ Continues(b[i]) /\ i < j /\ j =< EndOf(b, i)
    BY <2>1 DEF DecoderInv, Owned
  <2>3. i \in Leads(b) /\ j < i + Width(b[i])
    BY <1>1, <1>2, <2>1, <2>2 DEF Leads
  <2> QED BY <2>2, <2>3
<1>6. ASSUME ~ HasGap(b) PROVE IsUtf8(b)
  <2>1. \A i \in Leads(b) : SequenceAt(b, i)
    BY <1>4, <1>6 DEF HasGap
  <2> QED BY <1>5, <2>1 DEF IsUtf8
<1>7. UpToGaps(b)
  BY <1>4, <1>5 DEF UpToGaps
<1> QED BY <1>3, <1>6, <1>7

\* Only the bytes that have been decoded matter.
LEMMA SamePrefix ==
    ASSUME NEW b \in Seq(Byte), NEW n \in 0..Len(b), NEW d, DecoderInv(b, n, d)
    PROVE  LET a == SubSeq(b, 1, n)
           IN  /\ a \in Seq(Byte) /\ Len(a) = n
               /\ n = Len(b) => a = b
               /\ DecoderInv(a, n, d)
               /\ DecodedText(a, n) = DecodedText(b, n)
<1> DEFINE a == SubSeq(b, 1, n)
<1>1. n \in Nat /\ n =< Len(b) /\ Len(b) \in Nat
  OBVIOUS
<1>2. a \in Seq(Byte) /\ Len(a) = n /\ \A i \in 1..n : a[i] = b[i]
  BY <1>1
<1>3. n = Len(b) => a = b
  BY <1>1, <1>2
<1> HIDE DEF a
<1>4. \A i \in 1..n : EndOf(a, i) = EndOf(b, i) /\ Width(a[i]) = Width(b[i])
  BY <1>2 DEF EndOf
<1>5. \A i \in 1..n : /\ EndOf(b, i) = i + Width(b[i]) - 1
                      /\ Width(b[i]) \in 0..4
  <2>1. \A i \in 1..n : i \in 1..Len(b)
    BY <1>1
  <2> QED BY <2>1, BytesAre
<1>6. ASSUME NEW i \in 1..n, NEW m \in 0..3, i + m =< n
      PROVE  Partial(a, i, m) = Partial(b, i, m)
  <2>1. \A k \in 1..m : i + k \in 1..n
    BY <1>1, <1>6
  <2>2. \A k \in 1..m : a[i + k] = b[i + k]
    BY <1>2, <2>1
  <2>3. (m > 0 => a[i + 1] = b[i + 1]) /\ (m > 1 => a[i + 2] = b[i + 2])
          /\ (m > 2 => a[i + 3] = b[i + 3])
    BY <2>2
  <2> QED BY <1>2, <2>3 DEF Partial
<1>7. Whole(a, n) = Whole(b, n)
  BY <1>2, <1>4 DEF Whole
<1>8. LeadsGoOn(a, n, d.state) /\ Owned(a, n)
  <2>1. LeadsGoOn(b, n, d.state) /\ Owned(b, n)
    BY DEF DecoderInv
  <2>2. \A i \in 1..n, k \in Nat : i + k =< n => i + k \in 1..n
    BY <1>1
  <2>3. \A i \in 1..n : \A k \in 1..(Width(b[i]) - 1) : k \in Nat
    OBVIOUS
  <2>4. LeadsGoOn(a, n, d.state)
    BY <1>2, <1>4, <2>1, <2>2, <2>3 DEF LeadsGoOn
  <2>5. Owned(a, n)
    BY <1>2, <1>4, <2>1 DEF Owned
  <2> QED BY <2>4, <2>5
<1>9. ASSUME NEW o \in 1..n, IsOpen(b, n, d, o), d.state > 0 PROVE IsOpen(a, n, d, o)
  <2>1. d.state \in 1..3 /\ EndOf(b, o) = n + d.state /\ ~ Continues(b[o])
          /\ d.codep = Partial(b, o, n - o)
    BY <1>9 DEF DecoderInv, Decoders, IsOpen
  <2>2. n - o \in 0..3 /\ o + (n - o) =< n
    BY <1>1, <1>5, <2>1
  <2>3. Partial(a, o, n - o) = Partial(b, o, n - o)
    BY <1>6, <2>2
  <2> QED BY <1>2, <1>4, <2>1, <2>3 DEF IsOpen
<1>10. DecoderInv(a, n, d)
  BY <1>8, <1>9 DEF DecoderInv
<1>11. DecodedText(a, n) = DecodedText(b, n)
  <2>1. ASSUME NEW i \in Whole(b, n) PROVE CodePointAt(a, i) = CodePointAt(b, i)
    <3>1. i \in 1..n /\ EndOf(b, i) =< n /\ ~ Continues(b[i])
      BY DEF Whole
    <3>2. Width(b[i]) > 0
      BY <3>1 DEF DecoderInv, LeadsGoOn
    <3>3. Width(b[i]) - 1 \in 0..3 /\ i + (Width(b[i]) - 1) =< n
      BY <1>1, <1>5, <3>1, <3>2
    <3>4. i \in 1..Len(b) /\ i \in 1..Len(a)
      BY <1>1, <1>2, <3>1
    <3>5. CodePointAt(a, i) = Partial(a, i, Width(a[i]) - 1)
            /\ CodePointAt(b, i) = Partial(b, i, Width(b[i]) - 1)
      BY <1>2, <1>4, <3>1, <3>2, <3>4, PartialIs
    <3> QED BY <1>4, <1>6, <3>1, <3>3, <3>5
  <2>2. Whole(b, n) \in SUBSET Nat /\ IsFiniteSet(Whole(b, n))
    BY WholeType DEF DecoderInv
  <2>3. \A k \in 1..Cardinality(Whole(b, n)) : Nth(Whole(b, n), k) \in Whole(b, n)
    BY <2>2, NthIs
  <2> QED BY <1>7, <2>1, <2>3 DEF DecodedText, TextAt
<1> QED BY <1>2, <1>3, <1>10, <1>11 DEF a

\* What a call of decode returns.
LEMMA DecodeCharType ==
    ASSUME NEW d \in Decoders, NEW b \in Byte
    PROVE  Decode(d, b).cp = Pending \/ Decode(d, b).cp \in Nat
<1>1. b \in Nat /\ b % 64 \in Nat /\ d.codep \in Nat
  BY DEF Byte, Decoders
<1>2. StartSequence(d, b).cp = Pending \/ StartSequence(d, b).cp \in Nat
  BY <1>1 DEF StartSequence, Replacement
<1>3. ContinueSequence(d, b).cp = Pending \/ ContinueSequence(d, b).cp \in Nat
  BY <1>1 DEF ContinueSequence
<1>4. BreakSequence(d).cp \in Nat
  BY DEF BreakSequence, Replacement
<1> QED BY <1>2, <1>3, <1>4 DEF Decode
=============================================================================
