----------------------------- MODULE LineEncoder -----------------------------
(***************************************************************************)
(* The two library encoders, one character at a time:                      *)
(*   "encode"  belowc::encode (belowc/src/lib.rs), one pass, an Err drops  *)
(*             what was encoded so far;                                    *)
(*   "eval"    eamen_core::eval, which first validates the whole input and *)
(*             then emits into a sink it cannot take anything back from.   *)
(* `words` is the vector of the first and what the sink of the second got. *)
(***************************************************************************)
EXTENDS BelowCode

CONSTANT Texts                      \* the texts, sequences of code points

ASSUME TextsAssumption == Texts \subseteq Seq(Nat)

Coders == {"encode", "eval"}

VARIABLES
    coder,                          \* which encoder runs
    text, utf8,                     \* its input, and whether that is UTF-8
    phase,                          \* where it is
    i,                              \* characters taken in this pass
    acc, valid,                     \* acc and line_has_valid
    words                           \* what it has emitted

given == << coder, text, utf8 >>
vars == << given, phase, i, acc, valid, words >>

Phases == {"validate", "emit", "ok", "refused", "panicked"}

TypeOK ==
    /\ coder \in Coders /\ text \in Texts /\ utf8 \in BOOLEAN
    /\ phase \in Phases
    /\ i \in 0..Len(text)
    /\ acc \in 0..7 /\ valid \in BOOLEAN
    /\ words \in Seq(Words)

\* encode is handed a &str, which is UTF-8; eval is handed bytes.
Init ==
    /\ coder \in Coders
    /\ text \in Texts
    /\ utf8 \in (IF coder = "eval" THEN BOOLEAN ELSE {TRUE})
    /\ phase = IF coder = "eval" THEN "validate" ELSE "emit"
    /\ i = 0
    /\ acc = 0
    /\ valid = FALSE
    /\ words = <<>>

Char == text[i + 1]
More == i < Len(text)

-----------------------------------------------------------------------------
(* validate                                                                *)

MutIsTextCharNoReturn(cp) == cp \in {32, 9, LF} \/ IsLetter(cp)

MutIsTextCharAnyHangul(cp) == cp \in Skipped \cup {LF} \cup Hangul

IsTextChar(cp) == cp \in Skipped \cup {LF} \/ IsLetter(cp)

RefuseBytes ==
    /\ phase = "validate"
    /\ ~ utf8
    /\ phase' = "refused"
    /\ UNCHANGED << given, i, acc, valid, words >>

ValidateChar ==
    /\ phase = "validate" /\ utf8 /\ More
    /\ IsTextChar(Char)
    /\ i' = i + 1
    /\ UNCHANGED << given, phase, acc, valid, words >>

ValidateFails ==
    /\ phase = "validate" /\ utf8 /\ More
    /\ ~ IsTextChar(Char)
    /\ phase' = "refused"
    /\ UNCHANGED << given, i, acc, valid, words >>

\* The second pass reads the text from its start again
Validated ==
    /\ phase = "validate" /\ utf8 /\ ~ More
    /\ phase' = "emit"
    /\ i' = 0
    /\ UNCHANGED << given, acc, valid, words >>

-----------------------------------------------------------------------------
(* The encoding pass                                                       *)

SkipChar ==
    /\ phase = "emit" /\ More
    /\ Char \in Skipped
    /\ i' = i + 1
    /\ UNCHANGED << given, phase, acc, valid, words >>

LetterChar ==
    /\ phase = "emit" /\ More
    /\ IsLetter(Char)
    /\ acc' = Accumulate(acc, StateOf(Char))
    /\ valid' = TRUE
    /\ i' = i + 1
    /\ UNCHANGED << given, phase, words >>

MutEndLineKeepsAcc ==
    /\ phase = "emit" /\ More
    /\ Char = LF
    /\ words' = IF valid THEN Append(words, WordOf(acc)) ELSE words
    /\ valid' = FALSE
    /\ i' = i + 1
    /\ UNCHANGED << given, phase, acc >>

EndLine ==
    /\ phase = "emit" /\ More
    /\ Char = LF
    /\ words' = IF valid THEN Append(words, WordOf(acc)) ELSE words
    /\ acc' = 0
    /\ valid' = FALSE
    /\ i' = i + 1
    /\ UNCHANGED << given, phase >>

\* encode returns Err without its vector; eval has validated the character
\* and unwraps
ForeignChar ==
    /\ phase = "emit" /\ More
    /\ Char \notin Skipped \cup {LF} /\ ~ IsLetter(Char)
    /\ IF coder = "encode"
       THEN phase' = "refused" /\ words' = <<>>
       ELSE phase' = "panicked" /\ UNCHANGED words
    /\ UNCHANGED << given, i, acc, valid >>

Finish ==
    /\ phase = "emit" /\ ~ More
    /\ words' = IF valid THEN Append(words, WordOf(acc)) ELSE words
    /\ phase' = "ok"
    /\ UNCHANGED << given, i, acc, valid >>

Returned == phase \in {"ok", "refused", "panicked"} /\ UNCHANGED vars

Work ==
    \/ RefuseBytes \/ ValidateChar \/ ValidateFails \/ Validated
    \/ SkipChar \/ LetterChar \/ EndLine \/ ForeignChar \/ Finish

Next == Work \/ Returned

Spec == Init /\ [][Next]_vars

-----------------------------------------------------------------------------
(* Properties.                                                             *)

\* An encoder that succeeds has emitted exactly the words the text means, and
\* the text is a program; so the two encoders agree on every input
\* (belowc/src/lib.rs:5-54, eamen_core/src/lib.rs:92-134).
ResultIsMeaning == phase = "ok" => Accepted(text) /\ words = Compile(text)

\* An encoder that refuses has reason to, and nothing of the text comes out:
\* no partial output (eamen_core/src/lib.rs:70-71 and 90).
RefusalIsClean ==
    phase = "refused" => (~ utf8 \/ ~ Accepted(text)) /\ words = <<>>

\* The unwrap of the second pass never fails and the sink sees no word before
\* the whole input is known to be valid (eamen_core/src/lib.rs:94, 123).
EvalIsTwoPhase ==
    coder = "eval" =>
        /\ phase # "panicked"
        /\ words # <<>> => utf8 /\ Accepted(text)
=============================================================================
