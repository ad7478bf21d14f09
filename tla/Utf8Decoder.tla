----------------------------- MODULE Utf8Decoder -----------------------------
(***************************************************************************)
(* The byte-at-a-time UTF-8 decoder of belowc_bin, and what UTF-8 says a    *)
(* byte string is (the strict reading of core::str::from_utf8, which the   *)
(* other encoders go through).                                             *)
(*                                                                         *)
(* In the decoder `|` joins disjoint bit ranges, so it is written as +.    *)
(***************************************************************************)
EXTENDS Integers, Sequences, FiniteSets

Byte == 0..255

Pending == -1                           \* decode returned None
Replacement == 65533                    \* U+FFFD: malformed

NewDecoder == [state |-> 0, codep |-> 0]
Decoders == [state : 0..3, codep : Nat]

Continues(b) == b \div 64 = 2

\* How many bytes the sequence that b leads has; 0 when b leads none.
Width(b) == CASE b =< 127 -> 1
              [] b \div 32 = 6 -> 2
              [] b \div 16 = 14 -> 3
              [] b \div 8 = 30 -> 4
              [] OTHER -> 0

\* The bits of the code point that the lead byte of a sequence carries.
LeadBits(b) == CASE Width(b) = 2 -> b % 32
                 [] Width(b) = 3 -> b % 16
                 [] Width(b) = 4 -> b % 8
                 [] OTHER -> b

PowerOf64 == << 1, 64, 4096, 262144 >>
Shifted(bits, n) == bits * PowerOf64[n + 1]         \* bits << 6n, n in 0..3

\* decode between two sequences: b is a character, a lead or malformed.
StartSequence(d, b) ==
    CASE Width(b) = 1 -> [dec |-> d, cp |-> b]
      [] Width(b) > 1 ->
           [dec |-> [state |-> Width(b) - 1,
                     codep |-> Shifted(LeadBits(b), Width(b) - 1)],
            cp |-> Pending]
      [] OTHER -> [dec |-> d, cp |-> Replacement]

\* decode inside a sequence, d.state bytes before its end: b continues it.
ContinueSequence(d, b) ==
    IF d.state = 1
    THEN [dec |-> [d EXCEPT !.state = 0], cp |-> d.codep + (b % 64)]
    ELSE [dec |-> [state |-> d.state - 1,
                   codep |-> d.codep + Shifted(b % 64, d.state - 1)],
          cp |-> Pending]

\* b does not continue it; b itself is swallowed.
BreakSequence(d) == [dec |-> [d EXCEPT !.state = 0], cp |-> Replacement]

MutDecodeSkipsStray(d, b) ==
    IF d.state = 0
    THEN IF Continues(b) THEN [dec |-> d, cp |-> Pending] ELSE StartSequence(d, b)
    ELSE IF Continues(b) THEN ContinueSequence(d, b) ELSE BreakSequence(d)

MutDecodeStuck(d, b) ==
    IF d.state = 0 THEN StartSequence(d, b)
    ELSE IF Continues(b)
         THEN [ContinueSequence(d, b) EXCEPT !.dec.state = d.state]
         ELSE BreakSequence(d)

MutDecodeStateIsWidth(d, b) ==
    IF d.state = 0
    THEN [StartSequence(d, b) EXCEPT !.dec.state = IF Width(b) > 1 THEN Width(b) ELSE 0]
    ELSE IF Continues(b) THEN ContinueSequence(d, b) ELSE BreakSequence(d)

\* One call of decode: the decoder it leaves and the character it returns.
Decode(d, b) ==
    IF d.state = 0 THEN StartSequence(d, b)
    ELSE IF Continues(b) THEN ContinueSequence(d, b) ELSE BreakSequence(d)

-----------------------------------------------------------------------------
(* from_utf8: which byte strings are UTF-8, and their code points.         *)

Leads(bytes) == { i \in DOMAIN bytes : ~ Continues(bytes[i]) }

\* The code point of the sequence that starts at i (its bytes are there).
CodePointAt(bytes, i) ==
    LET w == Width(bytes[i])
        Part(k) == Shifted(bytes[i + k] % 64, w - 1 - k)
    IN  Shifted(LeadBits(bytes[i]), w - 1)
          + (IF w > 1 THEN Part(1) ELSE 0)
          + (IF w > 2 THEN Part(2) ELSE 0)
          + (IF w > 3 THEN Part(3) ELSE 0)

\* The first code point that needs a sequence of w bytes.
FirstOfWidth == << 0, 128, 2048, 65536 >>

SequenceAt(bytes, i) ==
    LET w == Width(bytes[i])
    IN  /\ w > 0
        /\ i + w - 1 =< Len(bytes)
        /\ \A k \in 1..(w - 1) : Continues(bytes[i + k])
        /\ LET cp == CodePointAt(bytes, i)
           IN  /\ cp >= FirstOfWidth[w]             \* no overlong form
               /\ cp \notin 55296..57343            \* no surrogate
               /\ cp =< 1114111

IsUtf8(bytes) ==
    /\ \A i \in Leads(bytes) : SequenceAt(bytes, i)
    /\ \A i \in DOMAIN bytes \ Leads(bytes) :
         \E j \in Leads(bytes) : j < i /\ i < j + Width(bytes[j])

\* A sequence with all its continuations, as far as the bytes go, that is none:
\* the end of the bytes cuts it, or UTF-8 writes its code point differently.
GapAt(bytes, i) ==
    /\ Width(bytes[i]) > 0
    /\ \A k \in 1..(Width(bytes[i]) - 1) :
         i + k =< Len(bytes) => Continues(bytes[i + k])
    /\ ~ SequenceAt(bytes, i)

HasGap(bytes) == \E i \in Leads(bytes) : GapAt(bytes, i)

\* UTF-8 but for gaps: every lead has a sequence or a gap, and every other byte
\* is in reach of some lead.
UpToGaps(bytes) ==
    /\ \A i \in Leads(bytes) : SequenceAt(bytes, i) \/ GapAt(bytes, i)
    /\ \A i \in DOMAIN bytes \ Leads(bytes) :
         \E j \in Leads(bytes) : j < i /\ i < j + Width(bytes[j])

\* The text an IsUtf8 byte string encodes.
TextOf(bytes) ==
    LET starts == Leads(bytes)
    IN  [ n \in 1..Cardinality(starts) |->
            CodePointAt(bytes,
                CHOOSE i \in starts : Cardinality({ j \in starts : j =< i }) = n) ]
=============================================================================
