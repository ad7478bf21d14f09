----------------------- MODULE ReferenceOutputs_proofs -----------------------
(***************************************************************************)
(* What the public record and the golden files say, for all inputs, bounds *)
(* and lengths of a block, and whatever fails.                             *)
(*                                                                         *)
(* Enc has the theorems about the encoder in the guest: LineEncoder as     *)
(* ZkGuest instantiates it.                                                *)
(***************************************************************************)
EXTENDS ReferenceOutputs, Sha256Stream_proofs, GoldenGenerator_proofs

Enc == INSTANCE LineEncoder_proofs WITH coder <- "eval", Texts <- Seq(Nat)

-----------------------------------------------------------------------------
(* The bytes of words.                                                     *)

ByteSet == { LittleEndian(w)[k] : w \in Words, k \in 1..4 }

LEMMA LittleEndianType ==
    ASSUME NEW w \in Words
    PROVE  LittleEndian(w) \in Seq(ByteSet) /\ Len(LittleEndian(w)) = 4
<1>1. LittleEndian(w) = [k \in 1..4 |-> LittleEndian(w)[k]]
  BY DEF LittleEndian
<1>2. \A k \in 1..4 : LittleEndian(w)[k] \in ByteSet
  BY DEF ByteSet
<1> DEFINE l == LittleEndian(w)
<1> HIDE DEF l
<1>3. l = [k \in 1..4 |-> l[k]] /\ \A k \in 1..4 : l[k] \in ByteSet
  BY <1>1, <1>2 DEF l
<1>4. l \in Seq(ByteSet) /\ Len(l) = 4
  BY <1>3
<1> QED BY <1>4 DEF l

LEMMA BytesOfType ==
    ASSUME NEW ws \in Seq(Words)
    PROVE  /\ BytesOf(ws) \in Seq(ByteSet) /\ Len(BytesOf(ws)) = 4 * Len(ws)
           /\ \A k \in 1..(4 * Len(ws)) :
                BytesOf(ws)[k] = LittleEndian(ws[((k - 1) \div 4) + 1])[((k - 1) % 4) + 1]
<1> DEFINE n == 4 * Len(ws)
           At(k) == LittleEndian(ws[((k - 1) \div 4) + 1])[((k - 1) % 4) + 1]
<1>1. n \in Nat
  OBVIOUS
<1>2. ASSUME NEW k \in 1..n PROVE At(k) \in ByteSet
  <2>1. ((k - 1) \div 4) + 1 \in 1..Len(ws) /\ ((k - 1) % 4) + 1 \in 1..4
    OBVIOUS
  <2>2. ws[((k - 1) \div 4) + 1] \in Words
    BY <2>1
  <2> QED BY <2>1, <2>2 DEF ByteSet
<1>3. BytesOf(ws) = [k \in 1..n |-> At(k)]
  BY DEF BytesOf
<1> HIDE DEF n, At
<1>4. BytesOf(ws) \in Seq(ByteSet) /\ Len(BytesOf(ws)) = n
  BY <1>1, <1>2, <1>3
<1>5. \A k \in 1..n : BytesOf(ws)[k] = At(k)
  BY <1>3
<1> QED BY <1>4, <1>5 DEF n, At

\* One word more is four bytes more.
LEMMA BytesOfAppend ==
    ASSUME NEW ws \in Seq(Words), NEW w \in Words
    PROVE  BytesOf(Append(ws, w)) = BytesOf(ws) \o LittleEndian(w)
<1> DEFINE n == Len(ws)
           l == BytesOf(Append(ws, w))
           a == BytesOf(ws)
           b == LittleEndian(w)
           r == a \o b
<1>1. /\ Append(ws, w) \in Seq(Words) /\ Len(Append(ws, w)) = n + 1 /\ n \in Nat
      /\ \A k \in 1..n : Append(ws, w)[k] = ws[k]
      /\ Append(ws, w)[n + 1] = w
  OBVIOUS
<1>2. /\ l \in Seq(ByteSet) /\ Len(l) = 4 * (n + 1)
      /\ \A k \in 1..(4 * (n + 1)) :
           l[k] = LittleEndian(Append(ws, w)[((k - 1) \div 4) + 1])[((k - 1) % 4) + 1]
  BY <1>1, BytesOfType
<1>3. /\ a \in Seq(ByteSet) /\ Len(a) = 4 * n
      /\ \A k \in 1..(4 * n) : a[k] = LittleEndian(ws[((k - 1) \div 4) + 1])[((k - 1) % 4) + 1]
  BY BytesOfType
<1>4. b \in Seq(ByteSet) /\ Len(b) = 4
  BY LittleEndianType
<1> HIDE DEF a, b, l
<1>5. /\ r \in Seq(ByteSet) /\ Len(r) = 4 * n + 4
      /\ \A k \in 1..(4 * n + 4) : r[k] = IF k <= 4 * n THEN a[k] ELSE b[k - 4 * n]
  <2>1. /\ r \in Seq(ByteSet) /\ Len(r) = Len(a) + Len(b)
        /\ \A k \in 1..(Len(a) + Len(b)) : r[k] = IF k <= Len(a) THEN a[k] ELSE b[k - Len(a)]
    BY <1>3, <1>4, ConcatProperties
  <2> QED BY <1>3, <1>4, <2>1
<1> HIDE DEF r
<1>6. ASSUME NEW k \in 1..(4 * n + 4) PROVE l[k] = r[k]
  <2> DEFINE j == ((k - 1) \div 4) + 1
             c == ((k - 1) % 4) + 1
  <2>1. l[k] = LittleEndian(Append(ws, w)[j])[c]
    BY <1>1, <1>2, <1>6
  <2>2. CASE k <= 4 * n
    <3>1. j \in 1..n
      BY <1>1, <2>2
    <3>2. r[k] = LittleEndian(ws[j])[c]
      BY <1>1, <1>3, <1>5, <1>6, <2>2
    <3> HIDE DEF j, c
    <3> QED BY <1>1, <2>1, <3>1, <3>2
  <2>3. CASE ~ (k <= 4 * n)
    <3>1. j = n + 1 /\ c = k - 4 * n
      BY <1>1, <1>6, <2>3
    <3>2. r[k] = b[k - 4 * n]
      BY <1>5, <1>6, <2>3
    <3> HIDE DEF j, c
    <3> QED BY <1>1, <2>1, <3>1, <3>2 DEF b
  <2> QED BY <2>2, <2>3
<1>7. l = r
  BY <1>1, <1>2, <1>5, <1>6, SameSeq
<1> QED BY <1>7 DEF l, r, a, b

-----------------------------------------------------------------------------
(* The guest.                                                              *)

\* The language is the same under all its names.
LEMMA SameLetters ==
    ASSUME NEW c
    PROVE  /\ Enc!IsLetter(c) <=> IsLetter(c)
           /\ Eamen!IsLetter(c) <=> IsLetter(c)
           /\ Enc!StateOf(c) = StateOf(c) /\ Eamen!StateOf(c) = StateOf(c)
<1> USE DEF Hangul, Enc!Hangul, Eamen!Hangul, Jong, Enc!Jong, Eamen!Jong,
            Jung, Enc!Jung, Eamen!Jung, JungTable, Enc!JungTable, Eamen!JungTable
<1>1. Enc!IsLetter(c) <=> IsLetter(c)
  BY DEF IsLetter, Enc!IsLetter
<1>2. Eamen!IsLetter(c) <=> IsLetter(c)
  BY DEF IsLetter, Eamen!IsLetter
<1>3. Enc!StateOf(c) = StateOf(c)
  BY DEF StateOf, Enc!StateOf
<1>4. Eamen!StateOf(c) = StateOf(c)
  BY DEF StateOf, Eamen!StateOf
<1> QED BY <1>1, <1>2, <1>3, <1>4

LEMMA SameWords ==
    /\ Enc!Words = Words
    /\ \A a : Enc!WordOf(a) = WordOf(a) /\ Eamen!WordOf(a) = WordOf(a)
    /\ \A a, b : Enc!Accumulate(a, b) = Eamen!Accumulate(a, b)
<1>1. LUT = Enc!LUT /\ LUT = Eamen!LUT
  BY DEF LUT, Enc!LUT, Eamen!LUT
<1>2. Enc!Words = Words
  BY <1>1 DEF Words, Enc!Words
<1>3. \A a : Enc!WordOf(a) = WordOf(a) /\ Eamen!WordOf(a) = WordOf(a)
  BY <1>1 DEF WordOf, Enc!WordOf, Eamen!WordOf
<1>4. \A a, b : Enc!Accumulate(a, b) = Eamen!Accumulate(a, b)
  BY DEF Enc!Accumulate, Eamen!Accumulate, Enc!HasBit, Eamen!HasBit,
         Enc!BitsToNumber, Eamen!BitsToNumber
<1> QED BY <1>2, <1>3, <1>4

LEMMA SameTexts ==
    ASSUME NEW t
    PROVE  /\ Enc!Accepted(t) <=> Accepted(t)
           /\ (\A k \in DOMAIN t : Eamen!IsTextChar(t[k])) <=> Accepted(t)
<1> USE SameLetters DEF Skipped, Enc!Skipped, Eamen!Skipped, LF, Enc!LF, Eamen!LF
<1>1. Enc!Accepted(t) <=> Accepted(t)
  BY DEF Accepted, Enc!Accepted
<1>2. (\A k \in DOMAIN t : Eamen!IsTextChar(t[k])) <=> Accepted(t)
  BY DEF Accepted, Eamen!IsTextChar
<1> QED BY <1>1, <1>2

LEMMA SameMeaning ==
    ASSUME NEW t
    PROVE  Enc!Compile(t) = Compile(t)
<1>1. LF = Enc!LF
  BY DEF LF, Enc!LF
<1>2. ASSUME NEW e PROVE Enc!LettersBefore(t, e) = LettersBefore(t, e)
  BY <1>1, SameLetters DEF LettersBefore, Enc!LettersBefore
<1>3. Enc!LineEnds(t) = LineEnds(t)
  BY <1>1, <1>2 DEF LineEnds, Enc!LineEnds
<1>4. ASSUME NEW e PROVE Enc!LineAcc(t, e) = LineAcc(t, e)
  BY <1>2, SameLetters DEF LineAcc, Enc!LineAcc, HasBit, Enc!HasBit,
     BitsToNumber, Enc!BitsToNumber
<1>5. \A S : Enc!Cardinality(S) = Cardinality(S)
  BY DEF Cardinality, Enc!Cardinality
<1>6. ASSUME NEW S, NEW n PROVE Enc!Nth(S, n) = Nth(S, n)
  BY <1>5 DEF Nth, Enc!Nth
<1>7. \A n : Enc!WordOf(Enc!LineAcc(t, Enc!Nth(Enc!LineEnds(t), n)))
               = WordOf(LineAcc(t, Nth(LineEnds(t), n)))
  BY <1>3, <1>4, <1>6, SameWords
<1> QED BY <1>3, <1>5, <1>7 DEF Compile, Enc!Compile

\* The step of eval is that of the encoder the theorems are about.
LEMMA SameStep == Eamen!Work => Enc!Next
<1>1. /\ Enc!Char = Eamen!Char /\ (Enc!More <=> Eamen!More)
      /\ Enc!Skipped = Eamen!Skipped /\ Enc!LF = Eamen!LF
      /\ \A c : Enc!IsTextChar(c) <=> Eamen!IsTextChar(c)
      /\ \A c : Enc!IsLetter(c) <=> Eamen!IsLetter(c)
      /\ \A c : Enc!StateOf(c) = Eamen!StateOf(c)
      /\ \A a : Enc!WordOf(a) = Eamen!WordOf(a)
  BY SameLetters, SameWords DEF Enc!Char, Eamen!Char, Enc!More, Eamen!More, Enc!Skipped,
     Eamen!Skipped, Enc!LF, Eamen!LF, Enc!IsTextChar, Eamen!IsTextChar
<1> USE DEF Enc!given, Eamen!given
<1>2. Eamen!RefuseBytes => Enc!RefuseBytes
  BY <1>1 DEF Eamen!RefuseBytes, Enc!RefuseBytes
<1>3. Eamen!ValidateChar => Enc!ValidateChar
  BY <1>1 DEF Eamen!ValidateChar, Enc!ValidateChar
<1>4. Eamen!ValidateFails => Enc!ValidateFails
  BY <1>1 DEF Eamen!ValidateFails, Enc!ValidateFails
<1>5. Eamen!Validated => Enc!Validated
  BY <1>1 DEF Eamen!Validated, Enc!Validated
<1>6. Eamen!SkipChar => Enc!SkipChar
  BY <1>1 DEF Eamen!SkipChar, Enc!SkipChar
<1>7. Eamen!LetterChar => Enc!LetterChar
  BY <1>1, SameWords DEF Eamen!LetterChar, Enc!LetterChar
<1>8. Eamen!EndLine => Enc!EndLine
  BY <1>1 DEF Eamen!EndLine, Enc!EndLine
<1>9. Eamen!ForeignChar => Enc!ForeignChar
  BY <1>1 DEF Eamen!ForeignChar, Enc!ForeignChar
<1>10. Eamen!Finish => Enc!Finish
  BY <1>1 DEF Eamen!Finish, Enc!Finish
<1> QED BY <1>2, <1>3, <1>4, <1>5, <1>6, <1>7, <1>8, <1>9, <1>10
        DEF Eamen!Work, Enc!Next, Enc!Work

-----------------------------------------------------------------------------
(* The guest's main.                                                       *)

\* The input is short enough and a program.
Good == Len(input) =< MaxIn /\ IsUtf8(input) /\ Accepted(TextOf(input))

\* Where main is says how far it got, and which checks the input passed.
StageInv ==
    /\ stage \in Stages
    /\ stage \in {"start", "bound", "validate"} => phase = "validate"
    /\ stage \in {"validate", "eval", "accepted"} => Len(input) =< MaxIn
    /\ stage = "accepted" => phase = "ok"
    /\ stage = "refused" => ~ Good
    /\ stage # "start" => hIn = Sha256(input)
    /\ stage = "committed" => record = Statement(input)

GuestInv ==
    /\ input \in Inputs
    /\ utf8 = IsUtf8(input) /\ text = IF utf8 THEN TextOf(input) ELSE <<>>
    /\ Enc!CodeInv
    /\ HasherHoldsOutput
    /\ StageInv

LEMMA EncType ==
    Enc!CodeInv => /\ words \in Seq(Words) /\ text \in Seq(Nat) /\ acc \in 0..7
                   /\ utf8 \in BOOLEAN /\ Enc!TypeOK
BY SameWords DEF Enc!CodeInv, Enc!TypeOK

LEMMA InitGuest == GuestInit => GuestInv
<1> SUFFICES ASSUME GuestInit PROVE GuestInv
  OBVIOUS
<1>1. Enc!Init
  BY DEF GuestInit, Eamen!Init, Enc!Init, Eamen!Coders, Enc!Coders
<1>2. Enc!CodeInv
  BY <1>1, Enc!InitCode
<1>3. words = <<>> /\ phase = "validate"
  BY <1>1 DEF Enc!Init
<1>4. HasherHoldsOutput
  <2>1. BytesOf(<<>>) = <<>> /\ 4 * Len(<<>>) = 0
    BY DEF BytesOf
  <2> QED BY <1>3, <2>1 DEF GuestInit, HasherHoldsOutput, Update
<1>5. StageInv
  BY <1>3 DEF GuestInit, StageInv, Stages
<1> QED BY <1>2, <1>4, <1>5 DEF GuestInit, GuestInv

\* A step of eval emits one word or none.
LEMMA WorkWords ==
    ASSUME Enc!CodeInv, Eamen!Work
    PROVE  /\ Enc!CodeInv' /\ UNCHANGED << text, utf8 >>
           /\ words' = words \/ (words' = Append(words, WordOf(acc)) /\ WordOf(acc) \in Words)
           /\ phase # "validate" => phase' # "validate"
<1>1. Enc!CodeInv'
  BY SameStep, Enc!StepCode
<1>2. UNCHANGED << text, utf8 >>
  BY DEF Eamen!Work, Eamen!given, Eamen!RefuseBytes, Eamen!ValidateChar, Eamen!ValidateFails,
     Eamen!Validated, Eamen!SkipChar, Eamen!LetterChar, Eamen!EndLine, Eamen!ForeignChar,
     Eamen!Finish
<1>3. WordOf(acc) \in Words
  <2>1. acc \in 0..7
    BY EncType
  <2>2. Enc!WordOf(acc) \in Enc!Words
    BY <2>1, Enc!WordOfType
  <2> QED BY <2>2, SameWords
<1>4. words' = words \/ words' = Append(words, WordOf(acc))
  BY SameWords DEF Eamen!Work, Eamen!RefuseBytes, Eamen!ValidateChar, Eamen!ValidateFails,
     Eamen!Validated, Eamen!SkipChar, Eamen!LetterChar, Eamen!EndLine, Eamen!ForeignChar,
     Eamen!Finish
<1>5. phase # "validate" => phase' # "validate"
  BY DEF Eamen!Work, Eamen!RefuseBytes, Eamen!ValidateChar, Eamen!ValidateFails,
     Eamen!Validated, Eamen!SkipChar, Eamen!LetterChar, Eamen!EndLine, Eamen!ForeignChar,
     Eamen!Finish
<1> QED BY <1>1, <1>2, <1>3, <1>4, <1>5

\* The sink feeds the hasher what the encoder emits.
LEMMA EvalHasher ==
    ASSUME GuestInv, Eval
    PROVE  HasherHoldsOutput'
<1> DEFINE w == WordOf(acc)
           bytes == BytesOf(words)
<1>1. /\ Enc!CodeInv /\ words \in Seq(Words)
      /\ hasher = Update(NewHasher, bytes) /\ sinkLen = 4 * Len(words) /\ lenOut = sinkLen
  BY EncType DEF GuestInv, HasherHoldsOutput
<1>2. words' = words \/ (words' = Append(words, w) /\ w \in Words)
  BY <1>1, WorkWords DEF Eval
<1>3. CASE words' = words
  BY <1>1, <1>3 DEF Eval, sink, HasherHoldsOutput
<1>4. CASE words' # words
  <2>1. words' = Append(words, w) /\ w \in Words
    BY <1>2, <1>4
  <2>2. words'[Len(words')] = w /\ Len(words') = Len(words) + 1
    BY <1>1, <2>1
  <2>3. /\ hasher' = Update(hasher, LittleEndian(w))
        /\ sinkLen' = sinkLen + Len(LittleEndian(w)) /\ lenOut' = lenOut + 4
    BY <1>4, <2>2 DEF Eval, SinkWrite
  <2>4. BytesOf(words') = bytes \o LittleEndian(w)
    BY <1>1, <2>1, BytesOfAppend
  <2>5. bytes \in Seq(ByteSet) /\ LittleEndian(w) \in Seq(ByteSet) /\ Len(LittleEndian(w)) = 4
    BY <1>1, <2>1, BytesOfType, LittleEndianType
  <2> HIDE DEF bytes, w
  <2>6. hasher' = Update(NewHasher, BytesOf(words'))
    BY <1>1, <2>3, <2>4, <2>5, UpdateComposes
  <2>7. sinkLen' = 4 * Len(words') /\ lenOut' = sinkLen'
    BY <1>1, <2>2, <2>3, <2>5
  <2> QED BY <2>6, <2>7 DEF HasherHoldsOutput
<1> QED BY <1>3, <1>4

\* What is committed is what the statement says of the input.
LEMMA CommitIsStatement ==
    ASSUME GuestInv, CommitAccepted \/ CommitRefused
    PROVE  record' = Statement(input)
<1>1. /\ Enc!CodeInv /\ words \in Seq(Words) /\ input \in Seq(Byte)
      /\ utf8 = IsUtf8(input) /\ text = IF utf8 THEN TextOf(input) ELSE <<>>
      /\ HasherHoldsOutput /\ StageInv
  BY EncType, InputsAssumption DEF GuestInv
<1>2. hIn = Digest(input)
  <2>1. hIn = Sha256(input)
    BY <1>1 DEF StageInv, CommitAccepted, CommitRefused
  <2> QED BY <1>1, <2>1, Sha256IsDigest
<1>3. CASE CommitAccepted
  <2>1. /\ stage = "accepted"
        /\ record' = [tag |-> Tag, hIn |-> hIn, hOut |-> Finalize(hasher),
                      lenIn |-> Len(input), lenOut |-> lenOut, exit |-> 0]
    BY <1>3 DEF CommitAccepted, Commit
  <2>2. phase = "ok" /\ Len(input) =< MaxIn
    BY <1>1, <2>1 DEF StageInv
  <2>3. utf8
    BY <1>1, <2>2 DEF Enc!CodeInv, Enc!OkInv
  <2>4. Enc!Accepted(text) /\ words = Enc!Compile(text)
    BY <1>1, <2>2, Enc!WordsAreMeaning DEF Enc!ResultIsMeaning
  <2>5. IsUtf8(input) /\ Accepted(TextOf(input)) /\ words = Compile(TextOf(input))
    BY <1>1, <2>3, <2>4, SameTexts, SameMeaning
  <2>6. Finalize(hasher) = Digest(BytesOf(words))
    <3>1. BytesOf(words) \in Seq(ByteSet)
      BY <1>1, BytesOfType
    <3>2. Sha256(BytesOf(words)) = Digest(BytesOf(words))
      BY <3>1, Sha256IsDigest
    <3> QED BY <1>1, <3>2 DEF HasherHoldsOutput, Sha256
  <2>7. lenOut = Len(BytesOf(words))
    BY <1>1, BytesOfType DEF HasherHoldsOutput
  <2> QED BY <1>2, <2>1, <2>2, <2>5, <2>6, <2>7 DEF Statement
<1>4. CASE CommitRefused
  <2>1. /\ stage = "refused"
        /\ record' = [tag |-> Tag, hIn |-> hIn, hOut |-> Sha256(<<>>),
                      lenIn |-> Len(input), lenOut |-> 0, exit |-> 1]
    BY <1>4 DEF CommitRefused, Commit
  <2>2. ~ Good
    BY <1>1, <2>1 DEF StageInv
  <2>3. Sha256(<<>>) = Digest(<<>>) /\ Len(<<>>) = 0
    <3> DEFINE none == <<>>
    <3>1. none \in Seq(Byte) /\ Len(none) = 0
      OBVIOUS
    <3> HIDE DEF none
    <3>2. Sha256(none) = Digest(none)
      BY <3>1, Sha256IsDigest
    <3> QED BY <3>1, <3>2 DEF none
  <2> QED BY <1>2, <2>1, <2>2, <2>3 DEF Statement, Good
<1> QED BY <1>3, <1>4

LEMMA StepGuest == GuestInv /\ (GuestStep \/ UNCHANGED guestVars) => GuestInv'
<1> SUFFICES ASSUME GuestInv, GuestStep \/ UNCHANGED guestVars PROVE GuestInv'
  OBVIOUS
<1>0. Enc!CodeInv /\ HasherHoldsOutput /\ StageInv
  BY DEF GuestInv
<1>1. ASSUME UNCHANGED << input, encoder, sink >>, StageInv' PROVE GuestInv'
  <2>1. Enc!CodeInv'
    <3>1. UNCHANGED Enc!vars
      BY <1>1 DEF encoder, Enc!vars, Enc!given
    <3> QED BY <1>0, <3>1, Enc!StepCode
  <2>2. HasherHoldsOutput'
    BY <1>0, <1>1 DEF encoder, sink, HasherHoldsOutput
  <2> QED BY <1>1, <2>1, <2>2 DEF GuestInv, encoder
<1>2. CASE UNCHANGED guestVars
  BY <1>0, <1>1, <1>2 DEF guestVars, encoder, StageInv, Good
<1> USE DEF StageInv, Stages, Good
<1>3. CASE HashInput
  BY <1>0, <1>1, <1>3 DEF HashInput, encoder
<1>4. CASE CheckBound
  BY <1>0, <1>1, <1>4 DEF CheckBound, encoder
<1>5. CASE ValidateInput
  <2>1. ~ IsValid => ~ Good
    BY SameTexts DEF IsValid, GuestInv
  <2> QED BY <1>0, <1>1, <1>5, <2>1 DEF ValidateInput, encoder
<1>6. CASE Eval
  <2>1. Enc!CodeInv' /\ UNCHANGED << text, utf8 >>
    BY <1>0, <1>6, WorkWords DEF Eval
  <2>2. HasherHoldsOutput'
    BY <1>6, EvalHasher
  <2>3. stage = "eval" /\ UNCHANGED << input, stage, hIn, record >>
    BY <1>6 DEF Eval
  <2>4. StageInv'
    BY <1>0, <2>3
  <2> QED BY <2>1, <2>2, <2>3, <2>4 DEF GuestInv
<1>7. CASE EvalReturns
  <2>1. phase = "refused" => ~ Good
    <3>1. phase = "refused" => ~ utf8 \/ ~ Enc!Accepted(text)
      BY <1>0 DEF Enc!CodeInv, Enc!RefusedInv
    <3> QED BY <3>1, SameTexts DEF GuestInv
  <2> QED BY <1>0, <1>1, <1>7, <2>1 DEF EvalReturns, encoder
<1>8. CASE CommitAccepted \/ CommitRefused
  <2>1. record' = Statement(input)
    BY <1>8, CommitIsStatement
  <2>2. /\ stage' = "committed" /\ UNCHANGED << input, encoder, sink, hIn >>
        /\ stage # "start"
    BY <1>8 DEF CommitAccepted, CommitRefused, Commit
  <2> QED BY <1>0, <1>1, <2>1, <2>2
<1> QED BY <1>2, <1>3, <1>4, <1>5, <1>6, <1>7, <1>8 DEF GuestStep

-----------------------------------------------------------------------------
(* The call on the host.                                                   *)

HostInv ==
    /\ GuestInv
    /\ call \in {"proving", "proved", "verified", "ok", "err"}
    /\ proof.valid \in BOOLEAN /\ proof.len \in Nat
    /\ bundle # NoRecord => call = "ok"
    /\ call \in {"proved", "verified", "ok"} => stage = "committed" /\ proof.values = record
    /\ call \in {"verified", "ok"} => proof.valid
    /\ call = "ok" => proof.len = AbiLen /\ bundle = proof.values

LEMMA InitHost == Init => HostInv
<1> SUFFICES ASSUME Init PROVE HostInv
  OBVIOUS
<1>1. GuestInv
  BY InitGuest DEF Init, HostInit
<1>2. call = "proving" /\ bundle = NoRecord
  BY DEF Init, HostInit
<1>3. proof.valid \in BOOLEAN /\ proof.len \in Nat
  BY DEF Init, HostInit, NoProof
<1> QED BY <1>1, <1>2, <1>3 DEF HostInv

LEMMA StepHost == HostInv /\ [Next]_vars => HostInv'
<1> SUFFICES ASSUME HostInv, [Next]_vars PROVE HostInv'
  OBVIOUS
<1> USE DEF HostInv
<1>1. ASSUME UNCHANGED guestVars PROVE GuestInv' /\ UNCHANGED << stage, record >>
  BY <1>1, StepGuest DEF guestVars
<1>2. CASE UNCHANGED << guestVars, hostVars >>
  BY <1>1, <1>2 DEF hostVars
<1>3. CASE GuestRuns
  <2>1. GuestInv'
    BY <1>3, StepGuest DEF GuestRuns
  <2> QED BY <1>3, <2>1 DEF GuestRuns, hostVars
<1>4. CASE Proves
  <2>1. GuestInv' /\ UNCHANGED << stage, record >>
    BY <1>1, <1>4 DEF Proves
  <2>2. /\ proof'.values = record /\ proof'.valid \in BOOLEAN /\ proof'.len \in Nat
        /\ call = "proving" /\ call' = "proved" /\ stage = "committed" /\ bundle' = bundle
    <3>1. PICK ok \in BOOLEAN, n \in {AbiLen, 0, AbiLen + 1} :
            proof' = [valid |-> ok, len |-> n, values |-> record]
      BY <1>4 DEF Proves
    <3>2. n \in Nat
      BY DEF AbiLen
    <3>3. proof'.values = record /\ proof'.valid = ok /\ proof'.len = n
      BY <3>1
    <3> QED BY <1>4, <3>2, <3>3 DEF Proves
  <2> QED BY <2>1, <2>2
<1>5. CASE Verifies
  BY <1>1, <1>5 DEF Verifies
<1>6. CASE Returns
  BY <1>1, <1>6 DEF Returns
<1>7. CASE VerifyFails \/ WrongLength \/ ProveFails
  <2>1. Fail /\ call # "ok"
    BY <1>7 DEF VerifyFails, WrongLength, ProveFails
  <2>2. /\ call' = "err" /\ UNCHANGED << proof, bundle >> /\ bundle = NoRecord
        /\ GuestInv'
    BY <1>1, <2>1 DEF Fail
  <2> QED BY <2>2
<1>8. CASE Prove
  BY <1>3, <1>4, <1>5, <1>6, <1>7, <1>8 DEF Prove, HostStep, Progress
<1> QED BY <1>2, <1>8 DEF Next, Generate, Terminated, vars

-----------------------------------------------------------------------------
(* The call and the generator together.                                    *)

SystemInv == HostInv /\ GoldenInv /\ input = content[Proved]

LEMMA Invariance == Spec => []SystemInv
<1>1. Init => SystemInv
  <2> SUFFICES ASSUME Init PROVE SystemInv
    OBVIOUS
  <2>1. content \in [Vectors -> Seq(Byte)]
    <3>1. content \in [Vectors -> Inputs]
      BY ContentsAssumption DEF Init
    <3> QED BY <3>1, InputsAssumption
  <2>2. GoldenInv
    BY <2>1, InitGolden DEF Init
  <2> QED BY <2>2, InitHost DEF Init, SystemInv
<1>2. SystemInv /\ [Next]_vars => SystemInv'
  <2> SUFFICES ASSUME SystemInv, [Next]_vars PROVE SystemInv'
    OBVIOUS
  <2>1. HostInv'
    BY StepHost DEF SystemInv
  <2>2. GoldenStep \/ KillGenerator \/ UNCHANGED goldenVars
    BY DEF Next, Prove, Generate, Terminated, vars
  <2>3. GoldenInv'
    BY <2>2, StepGolden DEF SystemInv
  <2>4. content' = content
    BY <2>2 DEF goldenVars, GoldenStep, KillGenerator, OpenDirs, OpenDirsFails, SkipEntry,
       ReadFails, EncodeVector, EncodeFails, Truncate, WriteGolden, WriteFails, Done
  <2>5. input' = input
    <3>1. CASE UNCHANGED guestVars
      BY <3>1 DEF guestVars
    <3>2. CASE GuestStep
      BY <3>2 DEF GuestStep, HashInput, CheckBound, ValidateInput, Eval, EvalReturns,
         CommitAccepted, CommitRefused, Commit
    <3> QED BY <3>1, <3>2 DEF Next, Prove, HostStep, Progress, GuestRuns, Proves, Verifies,
            VerifyFails, Returns, WrongLength, ProveFails, Fail, Generate, Terminated, vars
  <2> QED BY <2>1, <2>3, <2>4, <2>5 DEF SystemInv
<1> QED BY <1>1, <1>2, PTL DEF Spec

\* A hasher's buffer is never full between two calls.
LEMMA HasherType ==
    ASSUME NEW X, NEW m \in Seq(X)
    PROVE  Update(NewHasher, m).bits \in Nat /\ Len(Update(NewHasher, m).buf) < BlockLen
<1> DEFINE none == <<>>
           more == 0 + 8 * Len(m)
<1>1. none \in Seq(X) /\ none \o m = m /\ NewHasher = Fed(none, 0)
  BY NewHasherIsFed, ConcatEmptySeq
<1>2. Len(m) \in Nat /\ more \in Nat /\ 0 \in Nat
  OBVIOUS
<1> HIDE DEF none
<1>3. Update(NewHasher, m) = Fed(m, more)
  BY <1>1, <1>2, UpdateIs
<1>4. Fed(m, more).bits = more /\ Fed(m, more).buf = Rest(m)
  BY DEF Fed
<1>5. Len(Rest(m)) < BlockLen
  <2>1. Len(Rest(m)) = Len(m) % BlockLen /\ Len(m) % BlockLen \in 0..(BlockLen - 1)
    BY <1>2, RestIs, DivMod
  <2> QED BY <2>1, BlockAssumption
<1> QED BY <1>2, <1>3, <1>4, <1>5

\* Every variable keeps to its type, whatever the vectors hold and whatever fails.
THEOREM TypeCorrect == Spec => []TypeOK
<1>1. SystemInv => TypeOK
  <2> SUFFICES ASSUME SystemInv PROVE TypeOK
    OBVIOUS
  <2>1. GoldenTypeOK
    BY GoldenInvImplies DEF SystemInv
  <2>2. HostInv /\ GuestInv /\ StageInv /\ HasherHoldsOutput
    BY DEF SystemInv, HostInv, GuestInv
  <2>3. words \in Seq(Words) /\ Enc!TypeOK
    BY <2>2, EncType DEF GuestInv
  <2>4. Eamen!TypeOK
    <3>1. Eamen!Words = Words
      BY DEF Eamen!Words, Words, Eamen!LUT, LUT
    <3> QED BY <2>3, <3>1, SameWords DEF Enc!TypeOK, Eamen!TypeOK, Enc!Coders, Eamen!Coders,
            Enc!Phases, Eamen!Phases
  <2>5. hasher.bits \in Nat /\ Len(hasher.buf) < BlockLen
    <3>1. BytesOf(words) \in Seq(ByteSet)
      BY <2>3, BytesOfType
    <3> QED BY <2>2, <3>1, HasherType DEF HasherHoldsOutput
  <2>6. sinkLen \in Nat /\ lenOut \in Nat
    BY <2>2, <2>3 DEF HasherHoldsOutput
  <2>7. Statement(input).exit \in {0, 1}
    BY DEF Statement
  <2>8. GuestTypeOK
    BY <2>2, <2>4, <2>5, <2>6, <2>7 DEF GuestTypeOK, GuestInv, StageInv
  <2>9. HostTypeOK
    BY <2>2, <2>7, <2>8 DEF HostTypeOK, HostInv, StageInv
  <2> QED BY <2>1, <2>9 DEF TypeOK
<1> QED BY <1>1, Invariance, PTL

\* For every input and every length of a block, the sink's hasher is always the
\* hasher of all the emitted words at once, and the counts of bytes agree with
\* it (guest/src/main.rs:24-36, sha256.rs:24-52).
THEOREM HasherHolds == Spec => []HasherHoldsOutput
<1>1. SystemInv => HasherHoldsOutput
  BY DEF SystemInv, HostInv, GuestInv
<1> QED BY <1>1, Invariance, PTL

\* For every input and every bound, what the guest commits is what the statement
\* says of its input, by the definition of the hash and of the language
\* (guest/src/main.rs:39-97).
THEOREM RecordStated == Spec => []RecordIsStatement
<1>1. SystemInv => RecordIsStatement
  BY DEF SystemInv, HostInv, GuestInv, StageInv, RecordIsStatement
<1> QED BY <1>1, Invariance, PTL

\* Whatever the SDK's calls do, a bundle that is returned is the statement of
\* the input, under a proof that was verified (host/src/lib.rs:34-59).
THEOREM BundleProven == Spec => []BundleIsProven
<1>1. SystemInv => BundleIsProven
  BY DEF SystemInv, HostInv, GuestInv, StageInv, BundleIsProven
<1> QED BY <1>1, Invariance, PTL

\* A generator that is done has the right golden file for each of its vectors,
\* whatever they hold and whatever was there (generate_golden.rs:28-56).
THEOREM GoldenRight == Spec => []GoldenWhenDone
<1>1. SystemInv => GoldenWhenDone
  BY GoldenInvImplies DEF SystemInv
<1> QED BY <1>1, Invariance, PTL

\* Whatever stops the generator, at most the file it was writing is neither an
\* old one nor the right one (generate_golden.rs:37-51).
THEOREM GoldenTornOnce == Spec => []AtMostOneTorn
<1>1. SystemInv => AtMostOneTorn
  BY GoldenInvImplies DEF SystemInv
<1> QED BY <1>1, Invariance, PTL

\* The proved record of a vector and its golden file agree, for every vector and
\* every bound: eamen_core's eval under the hash, and belowc's encode after the
\* replacement of line ends (guest/src/main.rs:68-97, generate_golden.rs:37-51).
THEOREM RecordAndGolden == Spec => []RecordMatchesGolden
<1>1. SystemInv => RecordMatchesGolden
  <2> SUFFICES ASSUME SystemInv, call = "ok"
               PROVE  /\ gpc = "done" /\ Proved \in OkVectors /\ Len(input) =< MaxIn =>
                           /\ bundle.exit = 0
                           /\ bundle.hOut = Digest(BytesOf(golden[Proved]))
                           /\ bundle.lenOut = 4 * Len(golden[Proved])
                      /\ gpc = "failed" /\ cur = Proved => bundle.exit = 1
    BY DEF RecordMatchesGolden
  <2>1. bundle = Statement(input) /\ input = content[Proved]
    BY DEF SystemInv, HostInv, GuestInv, StageInv
  <2>2. ASSUME gpc = "done", Proved \in OkVectors, Len(input) =< MaxIn
        PROVE  /\ bundle.exit = 0 /\ bundle.hOut = Digest(BytesOf(golden[Proved]))
               /\ bundle.lenOut = 4 * Len(golden[Proved])
    <3>1. /\ IsUtf8(input) /\ Accepted(TextOf(input))
          /\ golden[Proved] = Compile(TextOf(input))
      BY <2>1, <2>2, GoldenInvImplies DEF SystemInv, GoldenWhenDone, IsGolden, IsProgram
    <3>2. Statement(input) =
            LET output == BytesOf(golden[Proved])
            IN  [tag |-> Tag, hIn |-> Digest(input), hOut |-> Digest(output),
                 lenIn |-> Len(input), lenOut |-> Len(output), exit |-> 0]
      BY <2>2, <3>1 DEF Statement
    <3>3. golden[Proved] \in Seq(Words)
      <4>1. input \in Seq(Byte)
        BY InputsAssumption DEF SystemInv, HostInv, GuestInv
      <4> QED BY <3>1, <4>1, TextOfType, CompileType
    <3>4. Len(BytesOf(golden[Proved])) = 4 * Len(golden[Proved])
      BY <3>3, BytesOfType
    <3> QED BY <2>1, <3>2, <3>4
  <2>3. ASSUME gpc = "failed", cur = Proved PROVE bundle.exit = 1
    <3>1. ~ (IsUtf8(input) /\ Accepted(TextOf(input)))
      BY <2>1, <2>3 DEF SystemInv, GoldenInv, IsProgram
    <3> QED BY <2>1, <3>1 DEF Statement
  <2> QED BY <2>2, <2>3
<1> QED BY <1>1, Invariance, PTL
=============================================================================
