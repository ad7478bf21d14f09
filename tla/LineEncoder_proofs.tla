-------------------------- MODULE LineEncoder_proofs --------------------------
(***************************************************************************)
(* The library encoders compute the meaning of every text, of any length:  *)
(* what they have emitted after i characters is, in order, one word for    *)
(* each line with a letter that those characters finish.                   *)
(***************************************************************************)
EXTENDS LineEncoder, BelowCode_proofs

\* The first n characters are characters a text may hold.
CleanUpTo(n) == \A j \in 1..n : IsTextChar(text[j])

\* Before the encoding pass nothing has happened but validation.
ValidateInv ==
    phase = "validate" =>
        /\ coder = "eval"
        /\ CleanUpTo(i)
        /\ words = <<>> /\ acc = 0 /\ ~ valid

\* During the pass the line state is that of the letters since the last line
\* feed and the words are those of the finished lines.
EmitInv ==
    phase = "emit" =>
        /\ utf8
        /\ coder = "eval" => Accepted(text)
        /\ CleanUpTo(i)
        /\ valid <=> LettersBefore(text, i + 1) # {}
        /\ acc = LineAcc(text, i + 1)
        /\ AreWordsOf(words, text, Ended(text, i))

OkInv == phase = "ok" => utf8 /\ Accepted(text) /\ AreWordsOf(words, text, LineEnds(text))

RefusedInv ==
    phase = "refused" => (~ utf8 \/ ~ Accepted(text)) /\ words = <<>>

NoPanic == phase # "panicked"

CodeInv ==
    /\ TypeOK
    /\ ValidateInv
    /\ EmitInv
    /\ OkInv
    /\ RefusedInv
    /\ NoPanic

-----------------------------------------------------------------------------
\* No word has been written for no line.
LEMMA NoWords ==
    ASSUME NEW t \in Seq(Nat)
    PROVE  AreWordsOf(<<>>, t, Ended(t, 0))
<1>1. Ended(t, 0) = {}
  BY EndedFinite
<1>2. Cardinality({}) = 0
  BY FS_EmptySet
<1>3. Len(<<>>) = 0 /\ 1..Len(<<>>) = {}
  OBVIOUS
<1> DEFINE none == <<>>
<1>4. Len(none) = Cardinality({}) /\ 1..Len(none) = {}
  BY <1>2, <1>3
<1> HIDE DEF none
<1>5. AreWordsOf(none, t, {})
  BY <1>4 DEF AreWordsOf
<1> QED BY <1>1, <1>5 DEF none

LEMMA TextType == TypeOK => text \in Seq(Nat) /\ Len(text) \in Nat
BY TextsAssumption DEF TypeOK

LEMMA InitType == Init => TypeOK
<1> SUFFICES ASSUME Init PROVE TypeOK
  OBVIOUS
<1>1. text \in Seq(Nat)
  BY TextsAssumption DEF Init
<1>2. 0 \in 0..Len(text)
  BY <1>1
<1>3. utf8 \in BOOLEAN
  BY DEF Init
<1>4. phase \in Phases
  BY DEF Init, Phases
<1>5. words \in Seq(Words)
  BY DEF Init
<1>6. valid \in BOOLEAN
  BY DEF Init
<1>7. i \in 0..Len(text) /\ acc \in 0..7
  BY <1>2 DEF Init
<1>8. coder \in Coders /\ text \in Texts
  BY DEF Init
<1> QED BY <1>3, <1>4, <1>5, <1>6, <1>7, <1>8 DEF TypeOK

LEMMA InitCode == Init => CodeInv
<1> SUFFICES ASSUME Init PROVE CodeInv
  OBVIOUS
<1>1. TypeOK /\ text \in Seq(Nat)
  BY InitType, TextType
<1>2. LettersBefore(text, 0 + 1) = {} /\ LineAcc(text, 0 + 1) = 0
  BY <1>1, NoLettersAtFirst, LineAccEmpty
<1>3. AreWordsOf(<<>>, text, Ended(text, 0))
  BY <1>1, NoWords
<1>4. CleanUpTo(i) /\ words = <<>> /\ acc = 0 /\ ~ valid
  BY DEF Init, CleanUpTo
<1>5. CASE coder = "eval"
  <2>1. phase = "validate"
    BY <1>5 DEF Init
  <2> QED BY <1>1, <1>4, <1>5, <2>1 DEF CodeInv, ValidateInv, EmitInv, OkInv,
            RefusedInv, NoPanic
<1>6. CASE coder = "encode"
  <2>1. phase = "emit" /\ utf8 /\ i = 0
    BY <1>6 DEF Init
  <2>2. EmitInv
    BY <1>2, <1>3, <1>4, <1>6, <2>1 DEF EmitInv
  <2> QED BY <1>1, <2>1, <2>2 DEF CodeInv, ValidateInv, OkInv, RefusedInv, NoPanic
<1> QED BY <1>5, <1>6 DEF Init, Coders

LEMMA StepType == TypeOK /\ [Next]_vars => TypeOK'
<1> SUFFICES ASSUME TypeOK, [Next]_vars PROVE TypeOK'
  OBVIOUS
<1> USE DEF TypeOK, given, Phases, More
<1>1. Len(text) \in Nat
  BY TextType
<1>2. acc \in 0..7 => Append(words, WordOf(acc)) \in Seq(Words)
  BY WordOfType
<1>3. CASE RefuseBytes \/ ValidateFails
  BY <1>3 DEF RefuseBytes, ValidateFails
<1>4. CASE ValidateChar \/ Validated
  BY <1>1, <1>4 DEF ValidateChar, Validated
<1>5. CASE SkipChar
  BY <1>1, <1>5 DEF SkipChar
<1>6. CASE LetterChar
  BY <1>1, <1>6, AccumulateType DEF LetterChar
<1>7. CASE EndLine
  <2>1. words' \in Seq(Words)
    BY <1>2, <1>7 DEF EndLine
  <2>2. i' \in 0..Len(text)
    BY <1>1, <1>7 DEF EndLine
  <2>3. valid' \in BOOLEAN
    BY <1>7 DEF EndLine
  <2>4. acc' \in 0..7
    BY <1>7 DEF EndLine
  <2>5. /\ coder' \in Coders /\ text' = text /\ text' \in Texts
        /\ utf8' \in BOOLEAN /\ phase' \in Phases
    BY <1>7 DEF EndLine
  <2> QED BY <2>1, <2>2, <2>3, <2>4, <2>5
<1>8. CASE ForeignChar
  <2>1. <<>> \in Seq(Words)
    OBVIOUS
  <2> QED BY <1>8, <2>1 DEF ForeignChar
<1>9. CASE Finish
  BY <1>2, <1>9 DEF Finish
<1>10. CASE UNCHANGED vars
  BY <1>10 DEF vars
<1> QED BY <1>3, <1>4, <1>5, <1>6, <1>7, <1>8, <1>9, <1>10 DEF Next, Work, Returned

-----------------------------------------------------------------------------
\* One character more of the encoding pass keeps EmitInv.
LEMMA TakeChar ==
    ASSUME CodeInv, TypeOK', SkipChar \/ LetterChar \/ EndLine
    PROVE  EmitInv'
<1> DEFINE n == i + 1
<1> USE DEF given
<1>1. text \in Seq(Nat) /\ n \in 1..Len(text) /\ phase = "emit" /\ i' = n /\ n - 1 = i
  BY TextType DEF CodeInv, TypeOK, SkipChar, LetterChar, EndLine, More
<1>2. /\ utf8 /\ (coder = "eval" => Accepted(text)) /\ CleanUpTo(i)
      /\ (valid <=> LettersBefore(text, n) # {})
      /\ acc = LineAcc(text, n)
      /\ AreWordsOf(words, text, Ended(text, i))
  BY <1>1 DEF CodeInv, EmitInv
<1>3. UNCHANGED << coder, text, utf8, phase >>
  BY DEF SkipChar, LetterChar, EndLine
<1>4. IsTextChar(text[n])
  BY DEF SkipChar, LetterChar, EndLine, Char, IsTextChar
<1>5. CleanUpTo(n)
  BY <1>1, <1>2, <1>4 DEF CleanUpTo
<1>6. /\ valid' <=> LettersBefore(text, n + 1) # {}
      /\ acc' = LineAcc(text, n + 1)
      /\ AreWordsOf(words', text, Ended(text, n))
  <2>1. CASE SkipChar
    <3>1. text[n] \in Skipped /\ UNCHANGED << acc, valid, words >>
      BY <2>1 DEF SkipChar, Char
    <3>2. LettersBefore(text, n + 1) = LettersBefore(text, n)
      BY <1>1, <3>1, LettersAfterSkipped
    <3>3. LineAcc(text, n + 1) = LineAcc(text, n)
      BY <1>1, <3>1, LineAccAfterSkipped
    <3>4. Ended(text, n) = Ended(text, i)
      BY <1>1, <3>1, EndedElsewhere, SkippedIsNoLF
    <3> QED BY <1>2, <3>1, <3>2, <3>3, <3>4
  <2>2. CASE LetterChar
    <3>1. /\ IsLetter(text[n]) /\ valid' = TRUE /\ words' = words
          /\ acc' = Accumulate(acc, StateOf(text[n]))
      BY <2>2 DEF LetterChar, Char
    <3>2. LettersBefore(text, n + 1) = LettersBefore(text, n) \cup {n}
      BY <1>1, <3>1, LettersAfterLetter
    <3>3. LineAcc(text, n + 1) = Accumulate(LineAcc(text, n), StateOf(text[n]))
      BY <1>1, <3>1, LineAccAfterLetter
    <3>4. Ended(text, n) = Ended(text, i)
      BY <1>1, <3>1, EndedElsewhere, LetterIsNoLF
    <3> QED BY <1>2, <3>1, <3>2, <3>3, <3>4
  <2>3. CASE EndLine
    <3>1. /\ text[n] = LF /\ valid' = FALSE /\ acc' = 0
          /\ words' = IF valid THEN Append(words, WordOf(acc)) ELSE words
      BY <2>3 DEF EndLine, Char
    <3>2. LettersBefore(text, n + 1) = {}
      BY <1>1, <3>1, LettersAfterLF
    <3>3. LineAcc(text, n + 1) = 0
      BY <3>2, LineAccEmpty
    <3>4. CASE valid
      <4>1. Ended(text, n) = Ended(text, i) \cup {n}
        BY <1>1, <1>2, <3>1, <3>4, EndedAtLF
      <4>2. i \in Nat /\ Ended(text, i) \in SUBSET (1..i)
        BY <1>1, EndedFinite
      <4>3. words \in Seq(Words)
        BY DEF CodeInv, TypeOK
      <4>4. AreWordsOf(Append(words, WordOf(LineAcc(text, i + 1))), text,
                       Ended(text, i) \cup {i + 1})
        BY <1>1, <1>2, <4>2, <4>3, AppendWord
      <4> QED BY <1>2, <3>1, <3>2, <3>3, <3>4, <4>1, <4>4
    <3>5. CASE ~ valid
      <4>1. Ended(text, n) = Ended(text, i)
        BY <1>1, <1>2, <3>5, EndedElsewhere
      <4> QED BY <1>2, <3>1, <3>2, <3>3, <3>5, <4>1
    <3> QED BY <3>4, <3>5
  <2> QED BY <2>1, <2>2, <2>3
<1> QED BY <1>1, <1>2, <1>3, <1>5, <1>6 DEF EmitInv, CleanUpTo

\* The end of the text: the words become those of all lines.
LEMMA FinishText ==
    ASSUME CodeInv, Finish
    PROVE  Accepted(text) /\ AreWordsOf(words', text, LineEnds(text))
<1>1. text \in Seq(Nat) /\ phase = "emit" /\ i = Len(text) /\ words \in Seq(Words)
  BY TextType DEF CodeInv, TypeOK, Finish, More
<1>2. /\ CleanUpTo(Len(text))
      /\ (valid <=> LettersBefore(text, Len(text) + 1) # {})
      /\ acc = LineAcc(text, Len(text) + 1)
      /\ AreWordsOf(words, text, Ended(text, Len(text)))
  BY <1>1 DEF CodeInv, EmitInv
<1>3. Accepted(text)
  BY <1>1, <1>2 DEF Accepted, CleanUpTo, IsTextChar
<1>4. CASE valid
  <2>1. Ended(text, Len(text)) \in SUBSET (1..Len(text)) /\ Len(text) \in Nat
    BY <1>1, EndedFinite
  <2>2. AreWordsOf(Append(words, WordOf(LineAcc(text, Len(text) + 1))), text,
                   Ended(text, Len(text)) \cup {Len(text) + 1})
    BY <1>1, <1>2, <2>1, AppendWord
  <2>3. LineEnds(text) = Ended(text, Len(text)) \cup {Len(text) + 1}
    BY <1>1, <1>2, <1>4, EndedAtEof
  <2> QED BY <1>2, <1>3, <1>4, <2>2, <2>3 DEF Finish
<1>5. CASE ~ valid
  <2>1. LineEnds(text) = Ended(text, Len(text))
    BY <1>1, <1>2, <1>5, EndedAtEof
  <2> QED BY <1>2, <1>3, <1>5, <2>1 DEF Finish
<1> QED BY <1>4, <1>5

\* A character no text may hold refutes acceptance.
LEMMA ForeignRefutes ==
    ASSUME TypeOK, More, ~ IsTextChar(Char)
    PROVE  ~ Accepted(text)
<1>1. text \in Seq(Nat) /\ i + 1 \in 1..Len(text)
  BY TextType DEF TypeOK, More
<1> QED BY <1>1 DEF Accepted, Char, IsTextChar

LEMMA StepCode == CodeInv /\ [Next]_vars => CodeInv'
<1> SUFFICES ASSUME CodeInv, [Next]_vars PROVE CodeInv'
  OBVIOUS
<1>1. TypeOK /\ TypeOK' /\ text \in Seq(Nat) /\ Len(text) \in Nat
  BY StepType, TextType DEF CodeInv
<1> USE DEF CodeInv, given
<1>2. CASE RefuseBytes
  BY <1>1, <1>2 DEF RefuseBytes, ValidateInv, EmitInv, OkInv, RefusedInv, NoPanic
<1>3. CASE ValidateChar
  <2>1. CleanUpTo(i + 1)
    BY <1>1, <1>3 DEF ValidateChar, ValidateInv, CleanUpTo, Char, TypeOK
  <2> QED BY <1>1, <1>3, <2>1 DEF ValidateChar, ValidateInv, EmitInv, OkInv,
            RefusedInv, NoPanic, CleanUpTo
<1>4. CASE ValidateFails
  <2>1. ~ Accepted(text)
    BY <1>1, <1>4, ForeignRefutes DEF ValidateFails
  <2> QED BY <1>1, <1>4, <2>1 DEF ValidateFails, ValidateInv, EmitInv, OkInv,
            RefusedInv, NoPanic
<1>5. CASE Validated
  <2>1. Accepted(text)
    BY <1>1, <1>5 DEF Validated, More, ValidateInv, CleanUpTo, Accepted,
       IsTextChar, TypeOK
  <2>2. LettersBefore(text, 0 + 1) = {} /\ LineAcc(text, 0 + 1) = 0
    BY <1>1, NoLettersAtFirst, LineAccEmpty
  <2>3. AreWordsOf(<<>>, text, Ended(text, 0))
    BY <1>1, NoWords
  <2> QED BY <1>1, <1>5, <2>1, <2>2, <2>3 DEF Validated, ValidateInv, EmitInv,
            OkInv, RefusedInv, NoPanic, CleanUpTo
<1>6. CASE SkipChar \/ LetterChar \/ EndLine
  <2>1. EmitInv'
    BY <1>1, <1>6, TakeChar
  <2>2. phase' = "emit"
    BY <1>6 DEF SkipChar, LetterChar, EndLine
  <2> QED BY <1>1, <2>1, <2>2 DEF ValidateInv, OkInv, RefusedInv, NoPanic
<1>7. CASE ForeignChar
  <2>1. ~ Accepted(text)
    BY <1>1, <1>7, ForeignRefutes DEF ForeignChar, IsTextChar
  <2>2. coder = "encode"
    BY <1>1, <1>7, <2>1 DEF ForeignChar, EmitInv, TypeOK, Coders
  <2> QED BY <1>1, <1>7, <2>1, <2>2 DEF ForeignChar, ValidateInv, EmitInv, OkInv,
            RefusedInv, NoPanic
<1>8. CASE Finish
  <2>1. Accepted(text) /\ AreWordsOf(words', text, LineEnds(text))
    BY <1>8, FinishText
  <2> QED BY <1>1, <1>8, <2>1 DEF Finish, ValidateInv, EmitInv, OkInv,
            RefusedInv, NoPanic
<1>9. CASE UNCHANGED vars
  BY <1>1, <1>9 DEF vars, ValidateInv, EmitInv, OkInv, RefusedInv, NoPanic, CleanUpTo
<1> QED BY <1>2, <1>3, <1>4, <1>5, <1>6, <1>7, <1>8, <1>9 DEF Next, Work, Returned

-----------------------------------------------------------------------------
\* The loop invariant of both encoders, and that nothing panics.
THEOREM CodeInvariant == Spec => []CodeInv
<1> QED BY InitCode, StepCode, PTL DEF Spec

\* The words of all lines are the program.
LEMMA WordsAreMeaning == CodeInv => ResultIsMeaning
<1> SUFFICES ASSUME CodeInv, phase = "ok"
             PROVE  Accepted(text) /\ words = Compile(text)
  BY DEF ResultIsMeaning
<1>1. text \in Seq(Nat) /\ words \in Seq(Words)
  BY TextType DEF CodeInv, TypeOK
<1>2. Accepted(text) /\ AreWordsOf(words, text, LineEnds(text))
  BY DEF CodeInv, OkInv
<1> QED BY <1>1, <1>2, WordsOfAllLines

\* Whatever encoder accepts whatever text, it has emitted exactly the words the
\* text means: encode and eval agree with the table and with each other.
THEOREM EncodersComputeMeaning == Spec => []ResultIsMeaning
BY WordsAreMeaning, CodeInvariant, PTL

\* Every variable keeps to its type: acc stays in three bits, so every line has a
\* word (eamen_core/src/lib.rs, belowc/src/lib.rs).
THEOREM TypeCorrect == Spec => []TypeOK
<1>1. CodeInv => TypeOK
  BY DEF CodeInv
<1> QED BY <1>1, CodeInvariant, PTL

\* A refusal is justified and leaves no output behind.
THEOREM RefusalsAreClean == Spec => []RefusalIsClean
<1>1. CodeInv => RefusalIsClean
  BY DEF CodeInv, RefusedInv, RefusalIsClean
<1> QED BY <1>1, CodeInvariant, PTL

\* eval emits nothing of an input that is not valid as a whole, and the unwrap
\* of its second pass cannot fail.
THEOREM EvalEmitsOnlyValid == Spec => []EvalIsTwoPhase
<1>1. CodeInv => EvalIsTwoPhase
  BY DEF CodeInv, TypeOK, Phases, ValidateInv, EmitInv, OkInv, RefusedInv,
     NoPanic, EvalIsTwoPhase
<1> QED BY <1>1, CodeInvariant, PTL
=============================================================================
