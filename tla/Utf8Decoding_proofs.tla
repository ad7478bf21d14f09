------------------------- MODULE Utf8Decoding_proofs -------------------------
(***************************************************************************)
(* What the decoder of belowc_bin makes of every byte string, of whatever  *)
(* length: the invariant that a byte at a time preserves, and what it says *)
(* when the bytes are at their end.                                        *)
(***************************************************************************)
EXTENDS Utf8Decoding, BelowCode_proofs

\* While no byte has been out of place, the characters are the text of the
\* sequences taken to their end, and the decoder holds the one that is not.
\* Once a byte has been, the bytes are no UTF-8 and a U+FFFD says so; what the
\* decoder holds then no longer matters.
DecodingInv ==
    /\ TypeOK
    /\ \/ DecoderInv(bytes, n, dec) /\ chars = DecodedText(bytes, n)
       \/ ~ IsUtf8(bytes) /\ \E j \in DOMAIN chars : chars[j] = Replacement

\* Before the first byte nothing is out of place.
LEMMA InitDecoding == Init => DecodingInv
<1> SUFFICES ASSUME Init PROVE DecodingInv
  OBVIOUS
<1>1. bytes \in Seq(Byte) /\ 0 \in 0..Len(bytes)
  BY ByteStringsAssumption DEF Init
<1>2. DecoderInv(bytes, 0, NewDecoder) /\ DecodedText(bytes, 0) = <<>>
  BY <1>1, DecoderInvInit
<1>3. NewDecoder \in Decoders
  BY DEF NewDecoder, Decoders
<1> QED BY <1>1, <1>2, <1>3 DEF Init, DecodingInv, TypeOK

\* A byte goes on with the text or is reported; a report is never taken back.
LEMMA StepDecoding == DecodingInv /\ [Next]_vars => DecodingInv'
<1> SUFFICES ASSUME DecodingInv, DecodeByte PROVE DecodingInv'
  BY DEF Next, Done, vars, DecodingInv, TypeOK
<1> DEFINE r == Decode(dec, bytes[n + 1])
<1>1. /\ bytes \in Seq(Byte) /\ n \in 0..Len(bytes) /\ n < Len(bytes)
      /\ bytes' = bytes /\ n' = n + 1 /\ dec' = r.dec
      /\ chars' = IF r.cp = Pending THEN chars ELSE Append(chars, r.cp)
      /\ chars \in Seq(Nat) /\ dec \in Decoders
  BY ByteStringsAssumption DEF DecodingInv, TypeOK, DecodeByte
<1>2. bytes[n + 1] \in Byte /\ n + 1 \in 0..Len(bytes)
  BY <1>1
<1>3. dec' \in Decoders
  BY <1>1, <1>2, DecodeType
<1> HIDE DEF r
<1>4. r.cp = Pending \/ r.cp \in Nat
  BY <1>1, <1>2, DecodeCharType DEF r
<1>5. TypeOK'
  BY <1>1, <1>2, <1>3, <1>4 DEF DecodingInv, TypeOK
<1>6. CASE ~ IsUtf8(bytes) /\ \E j \in DOMAIN chars : chars[j] = Replacement
  <2>1. PICK j \in DOMAIN chars : chars[j] = Replacement
    BY <1>6
  <2>2. ASSUME r.cp \in Nat
        PROVE  j \in DOMAIN Append(chars, r.cp) /\ Append(chars, r.cp)[j] = chars[j]
    BY <1>1, <2>2
  <2>3. j \in DOMAIN chars' /\ chars'[j] = Replacement
    BY <1>1, <1>4, <2>1, <2>2
  <2> QED BY <1>1, <1>5, <1>6, <2>3 DEF DecodingInv
<1>7. CASE DecoderInv(bytes, n, dec) /\ chars = DecodedText(bytes, n)
  <2>1. CASE GoodStep(bytes, n, r)
    BY <1>1, <1>5, <1>7, <2>1 DEF DecodingInv, GoodStep
  <2>2. CASE r.cp = Replacement /\ ~ IsUtf8(bytes)
    <3>1. chars' = Append(chars, Replacement) /\ Replacement \in Nat
      BY <1>1, <2>2 DEF Replacement, Pending
    <3>2. Len(chars) + 1 \in DOMAIN chars' /\ chars'[Len(chars) + 1] = Replacement
      BY <1>1, <3>1
    <3> QED BY <1>1, <1>5, <2>2, <3>2 DEF DecodingInv
  <2> QED BY <1>1, <1>7, <2>1, <2>2, DecodeStep DEF r
<1> QED BY <1>6, <1>7 DEF DecodingInv

\* The inductive invariant of the decoder.
THEOREM DecodingInvariance == Spec => []DecodingInv
<1>1. Init => DecodingInv
  BY InitDecoding
<1>2. DecodingInv /\ [Next]_vars => DecodingInv'
  BY StepDecoding
<1> QED BY <1>1, <1>2, PTL DEF Spec

\* Every variable keeps to its type: what decode returns is a code point.
THEOREM DecodingTypeCorrect == Spec => []TypeOK
<1>1. DecodingInv => TypeOK
  BY DEF DecodingInv
<1> QED BY <1>1, DecodingInvariance, PTL

\* Every UTF-8 byte string is decoded to its text, and the decoder is at rest
\* after it, so that what follows would be decoded as well (main.rs:83-127).
THEOREM Utf8Decodes == Spec => []Utf8IsDecoded
<1>1. DecodingInv => Utf8IsDecoded
  <2> SUFFICES ASSUME DecodingInv, n = Len(bytes), IsUtf8(bytes)
               PROVE  dec.state = 0 /\ chars = TextOf(bytes)
    BY DEF Utf8IsDecoded
  <2>1. bytes \in Seq(Byte)
    BY ByteStringsAssumption DEF DecodingInv, TypeOK
  <2> QED BY <2>1, DecodedAtEnd DEF DecodingInv
<1> QED BY <1>1, DecodingInvariance, PTL

\* A byte string the decoder has no complaint about has, at every lead, a UTF-8
\* sequence or one of the two kinds of gap, and no byte outside of these
\* (main.rs:95-123).
THEOREM GapsAreKnown == Spec => []OnlyKnownGaps
<1>1. DecodingInv => OnlyKnownGaps
  <2> SUFFICES ASSUME DecodingInv, n = Len(bytes),
                      \A j \in DOMAIN chars : chars[j] # Replacement
               PROVE  UpToGaps(bytes)
    BY DEF OnlyKnownGaps
  <2>1. bytes \in Seq(Byte)
    BY ByteStringsAssumption DEF DecodingInv, TypeOK
  <2> QED BY <2>1, DecodedAtEnd DEF DecodingInv
<1> QED BY <1>1, DecodingInvariance, PTL
=============================================================================
