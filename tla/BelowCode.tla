------------------------------ MODULE BelowCode ------------------------------
(***************************************************************************)
(* The BelowCode language: which characters a program may hold, what each  *)
(* of them contributes to its line and which 32-bit word a line becomes.   *)
(*                                                                         *)
(* The first half is the character arithmetic that every encoder of the    *)
(* repository repeats (belowc_bin, belowc, eamen_core).  The second half   *)
(* says what a program means WITHOUT a loop: the lines of a text are a set *)
(* of end positions and a line's accumulator is given bit by bit with a    *)
(* quantifier, so that the streaming loops can be compared with it.        *)
(***************************************************************************)
EXTENDS Integers, Sequences, FiniteSets

LF == 10
Skipped == {32, 9, 13}                  \* space, tab, carriage return
Hangul == 44032 .. 55203                \* U+AC00 .. U+D7A3

Jong(cp) == (cp - 44032) % 28
Jung(cp) == ((cp - 44032) \div 28) % 21

\* JungTable[s + 1] is the vowel (jung index) that stands for state s.
JungTable == << 11, 0, 4, 20, 8, 13, 18, 19 >>

\* A syllable the language accepts: no final consonant, one of eight vowels.
IsLetter(cp) ==
    /\ cp \in Hangul
    /\ Jong(cp) = 0
    /\ \E s \in 0..7 : Jung(cp) = JungTable[s + 1]

StateOf(cp) == CHOOSE s \in 0..7 : Jung(cp) = JungTable[s + 1]

\* Bit w (w = 1, 2 or 4) of a number in 0..7.
HasBit(a, w) == (a \div w) % 2 = 1

BitsToNumber(one, two, four) ==
    (IF one THEN 1 ELSE 0) + (IF two THEN 2 ELSE 0) + (IF four THEN 4 ELSE 0)

MutAccumulateAdds(acc, state) == acc + state

\* (acc | state) & 7
Accumulate(acc, state) ==
    BitsToNumber(HasBit(acc, 1) \/ HasBit(state, 1),
                 HasBit(acc, 2) \/ HasBit(state, 2),
                 HasBit(acc, 4) \/ HasBit(state, 4))

\* The instruction words 0x13, 0x100513, 0x200513, ..., 0x600513, 0x73.
LUT == << 19, 1049875, 2098451, 3147027, 4195603, 5244179, 6292755, 115 >>

Words == { LUT[i] : i \in 1..8 }
WordOf(acc) == LUT[acc + 1]

-----------------------------------------------------------------------------
(* What a text, a sequence of code points, means.                          *)

Accepted(text) ==
    \A i \in DOMAIN text : text[i] \in Skipped \cup {LF} \/ IsLetter(text[i])

\* The letters of the line that ends before position e: those with no line
\* feed between them and e.
LettersBefore(text, e) ==
    { i \in 1..(e - 1) :
        IsLetter(text[i]) /\ \A j \in i..(e - 1) : text[j] # LF }

\* A line ends at its line feed or, for the last one, after the text; only a
\* line that holds a letter counts.
LineEnds(text) ==
    { e \in 1..(Len(text) + 1) :
        /\ e = Len(text) + 1 \/ text[e] = LF
        /\ LettersBefore(text, e) # {} }

LineAcc(text, e) ==
    LET Some(w) == \E i \in LettersBefore(text, e) : HasBit(StateOf(text[i]), w)
    IN  BitsToNumber(Some(1), Some(2), Some(4))

\* The n-th smallest element of a finite set of integers.
Nth(S, n) == CHOOSE x \in S : Cardinality({ y \in S : y =< x }) = n

\* The words an accepted text stands for: one for each line with a letter.
Compile(text) ==
    [ n \in 1..Cardinality(LineEnds(text)) |->
        WordOf(LineAcc(text, Nth(LineEnds(text), n))) ]
=============================================================================
