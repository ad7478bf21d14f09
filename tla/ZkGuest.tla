------------------------------- MODULE ZkGuest -------------------------------
(***************************************************************************)
(* The zk guest program (zk_backend_sp1/guest/src/main.rs): it hashes its  *)
(* input, runs eamen_core over it with a sink that hashes what it is given *)
(* and commits a public record of both.                                    *)
(*                                                                         *)
(* The encoder inside is LineEncoder's "eval", step by step; the hash is   *)
(* Sha256Stream.  The 113 bytes of the record are kept as its six fields.  *)
(***************************************************************************)
EXTENDS BelowCode, Utf8Decoder, Sha256Stream

CONSTANTS Inputs,       \* the byte strings the guest may be given
          MaxIn,        \* MAX_IN, bytes of the longest admissible one
          Tag           \* the hash of the release tag

ASSUME InputsAssumption == Inputs \subseteq Seq(Byte)
ASSUME MaxInAssumption == MaxIn \in Nat

VARIABLES
    input,                              \* in_bytes
    stage,                              \* where main is
    text, utf8, phase, i, acc, valid, words,    \* eval's, see LineEncoder
    hasher, sinkLen,                    \* out_hasher, and the sink's count
    lenOut,                             \* eval's count of bytes written
    hIn, record                         \* h_in, and what was committed

encoder == << text, utf8, phase, i, acc, valid, words >>
sink == << hasher, sinkLen, lenOut >>
guestVars == << input, stage, encoder, sink, hIn, record >>

Eamen == INSTANCE LineEncoder WITH coder <- "eval", Texts <- Seq(Nat)

NoRecord == [exit |-> 2]
Stages == {"start", "bound", "validate", "eval", "accepted", "refused", "committed"}

GuestTypeOK ==
    /\ input \in Inputs
    /\ stage \in Stages
    /\ Eamen!TypeOK
    /\ hasher.bits \in Nat /\ Len(hasher.buf) < BlockLen
    /\ sinkLen \in Nat /\ lenOut \in Nat
    /\ stage = "committed" => record.exit \in {0, 1}

\* io::read has delivered the input
GuestInit ==
    /\ input \in Inputs
    /\ stage = "start"
    /\ utf8 = IsUtf8(input)
    /\ text = IF utf8 THEN TextOf(input) ELSE <<>>
    /\ Eamen!Init
    /\ hasher = NewHasher
    /\ sinkLen = 0
    /\ lenOut = 0
    /\ hIn = <<>>
    /\ record = NoRecord

-----------------------------------------------------------------------------
HashInput ==
    /\ stage = "start"
    /\ hIn' = Sha256(input)
    /\ stage' = "bound"
    /\ UNCHANGED << input, encoder, sink, record >>

MutCheckBoundAsserts ==
    /\ stage = "bound"
    /\ Len(input) =< MaxIn
    /\ stage' = "validate"
    /\ UNCHANGED << input, encoder, sink, hIn, record >>

CheckBound ==
    /\ stage = "bound"
    /\ stage' = IF Len(input) =< MaxIn THEN "validate" ELSE "refused"
    /\ UNCHANGED << input, encoder, sink, hIn, record >>

\* validate(in_bytes)
IsValid == utf8 /\ \A k \in DOMAIN text : Eamen!IsTextChar(text[k])

ValidateInput ==
    /\ stage = "validate"
    /\ stage' = IF IsValid THEN "eval" ELSE "refused"
    /\ UNCHANGED << input, encoder, sink, hIn, record >>

\* to_le_bytes of a word
LittleEndian(word) == [ k \in 1..4 |-> (word \div 256^(k - 1)) % 256 ]

\* ShaSink::write
SinkWrite(bytes) ==
    /\ hasher' = Update(hasher, bytes)
    /\ sinkLen' = sinkLen + Len(bytes)

\* A step of eval; emit_word writes the word to the sink
Eval ==
    /\ stage = "eval"
    /\ Eamen!Work
    /\ IF words' = words
       THEN UNCHANGED sink
       ELSE /\ SinkWrite(LittleEndian(words'[Len(words')]))
            /\ lenOut' = lenOut + 4
    /\ UNCHANGED << input, stage, hIn, record >>

\* eval has returned (0, len_out), or (1, 0)
EvalReturns ==
    /\ stage = "eval"
    /\ phase \in {"ok", "refused"}
    /\ stage' = IF phase = "ok" THEN "accepted" ELSE "refused"
    /\ UNCHANGED << input, encoder, sink, hIn, record >>

Commit(exit, hOut, length) ==
    /\ record' = [tag |-> Tag, hIn |-> hIn, hOut |-> hOut,
                  lenIn |-> Len(input), lenOut |-> length, exit |-> exit]
    /\ stage' = "committed"
    /\ UNCHANGED << input, encoder, sink, hIn >>

CommitAccepted == stage = "accepted" /\ Commit(0, Finalize(hasher), lenOut)

\* The record of a failure commits to the empty output
CommitRefused == stage = "refused" /\ Commit(1, Sha256(<<>>), 0)

GuestStep ==
    \/ HashInput \/ CheckBound \/ ValidateInput
    \/ Eval \/ EvalReturns \/ CommitAccepted \/ CommitRefused

-----------------------------------------------------------------------------
(* Properties.                                                             *)

\* The bytes of a sequence of words; 4 per word.
BytesOf(ws) ==
    [ k \in 1..(4 * Len(ws)) |-> LittleEndian(ws[((k - 1) \div 4) + 1])[((k - 1) % 4) + 1] ]

\* What the public record of an input has to be: the digest and length of the
\* input, and those of the words it means or, if it is too long or no program,
\* of nothing.
Statement(bytes) ==
    LET good == Len(bytes) =< MaxIn /\ IsUtf8(bytes) /\ Accepted(TextOf(bytes))
        output == IF good THEN BytesOf(Compile(TextOf(bytes))) ELSE <<>>
    IN  [tag |-> Tag, hIn |-> Digest(bytes), hOut |-> Digest(output),
         lenIn |-> Len(bytes), lenOut |-> Len(output), exit |-> IF good THEN 0 ELSE 1]

\* The committed record says what the input is, what it means and whether it is
\* a program, and nothing else: one bound, two validations, an encoder and two
\* uses of the hash agree (guest/src/main.rs:39-97;
\* docs/EXTENSIONS_STATUS.md:47 for failures).
RecordIsStatement == stage = "committed" => record = Statement(input)

\* The hasher has seen exactly the bytes of the emitted words, and is as if it
\* had got them in one piece: how the output is cut into writes does not matter.
\* Both counts of bytes agree with it (sha256.rs:24-52, guest/src/main.rs:24-36).
HasherHoldsOutput ==
    /\ hasher = Update(NewHasher, BytesOf(words))
    /\ sinkLen = 4 * Len(words) /\ lenOut = sinkLen
=============================================================================
