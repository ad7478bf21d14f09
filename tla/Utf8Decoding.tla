----------------------------- MODULE Utf8Decoding -----------------------------
(***************************************************************************)
(* A byte string goes through the decoder of belowc_bin one byte at a time *)
(* (the loop of run_compiler_unix and of run_compiler).                    *)
(***************************************************************************)
EXTENDS Utf8Decoder

CONSTANT ByteStrings

ASSUME ByteStringsAssumption == ByteStrings \subseteq Seq(Byte)

VARIABLES
    bytes,          \* the input
    n,              \* how many of its bytes have been decoded
    dec,            \* the decoder
    chars           \* what decode has returned, in order

vars == << bytes, n, dec, chars >>

TypeOK ==
    /\ bytes \in ByteStrings
    /\ n \in 0..Len(bytes)
    /\ dec \in Decoders
    /\ chars \in Seq(Nat)

Init ==
    /\ bytes \in ByteStrings
    /\ n = 0
    /\ dec = NewDecoder
    /\ chars = <<>>

DecodeByte ==
    /\ n < Len(bytes)
    /\ LET r == Decode(dec, bytes[n + 1])
       IN  /\ dec' = r.dec
           /\ chars' = IF r.cp = Pending THEN chars ELSE Append(chars, r.cp)
    /\ n' = n + 1
    /\ UNCHANGED bytes

Done == n = Len(bytes) /\ UNCHANGED vars

Next == DecodeByte \/ Done

Spec == Init /\ [][Next]_vars

-----------------------------------------------------------------------------
(* Properties.                                                             *)

\* UTF-8 is decoded to its text and leaves the decoder at rest, however the
\* bytes are cut into reads (main.rs:83-127).
Utf8IsDecoded ==
    n = Len(bytes) /\ IsUtf8(bytes) => dec.state = 0 /\ chars = TextOf(bytes)

\* Of an input that is not UTF-8 the decoder reports all but two kinds: one
\* that ends inside a sequence, and sequences whose code point UTF-8 writes
\* differently or not at all (overlong, a surrogate, above U+10FFFF); every
\* byte it takes without complaint belongs to some sequence (main.rs:95-123).
OnlyKnownGaps ==
    n = Len(bytes) /\ (\A j \in DOMAIN chars : chars[j] # Replacement) =>
        UpToGaps(bytes)
=============================================================================
