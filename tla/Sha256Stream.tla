---------------------------- MODULE Sha256Stream ----------------------------
(***************************************************************************)
(* The streaming SHA-256 of the zk guest (sha256.rs): update collects      *)
(* bytes in a block buffer and compresses it when it is full, finalize     *)
(* pads the message by updating with the padding.                          *)
(*                                                                         *)
(* compress is not interpreted: the chaining value `h` is the sequence of  *)
(* the blocks it was fed, so that two values of it are equal exactly when  *)
(* the same blocks were compressed in the same order.  len_bits is a u64   *)
(* that no input can make wrap (2^61 bytes).                               *)
(***************************************************************************)
EXTENDS Integers, Sequences

CONSTANTS BlockLen,     \* bytes of a block (the code: 64)
          LenLen        \* bytes of the length at the end of the padding (8)

ASSUME BlockAssumption ==
    BlockLen \in Nat \ {0} /\ LenLen \in Nat \ {0} /\ LenLen < BlockLen

NewHasher == [h |-> <<>>, bits |-> 0, buf |-> <<>>]

Compress(h, block) == Append(h, block)

First(data, n) == SubSeq(data, 1, n)
After(data, n) == SubSeq(data, n + 1, Len(data))

\* What a partly filled buffer takes from the data.
Take(s, data) ==
    IF Len(data) < BlockLen - Len(s.buf) THEN Len(data) ELSE BlockLen - Len(s.buf)

MutTopUpKeepsFull(s, data) == [s EXCEPT !.buf = @ \o First(data, Take(s, data))]

\* The buffer takes what it needs and is compressed if that fills it.
TopUp(s, data) ==
    LET filled == s.buf \o First(data, Take(s, data))
    IN  IF Len(filled) = BlockLen
        THEN [s EXCEPT !.h = Compress(@, filled), !.buf = <<>>]
        ELSE [s EXCEPT !.buf = filled]

\* The whole blocks of the data are compressed without the buffer, which gets
\* what is left over, if anything is.
Absorb(s, data) ==
    LET blocks == Len(data) \div BlockLen
        rest == After(data, blocks * BlockLen)
    IN  [s EXCEPT
           !.h = @ \o [ b \in 1..blocks |->
                          SubSeq(data, (b - 1) * BlockLen + 1, b * BlockLen) ],
           !.buf = IF rest = <<>> THEN @ ELSE rest]

MutUpdateForgetsBuffer(s, data) ==
    IF data = <<>> THEN s
    ELSE Absorb([s EXCEPT !.bits = @ + 8 * Len(data)], data)

Update(s, data) ==
    IF data = <<>> THEN s
    ELSE LET counted == [s EXCEPT !.bits = @ + 8 * Len(data)]
         IN  IF s.buf = <<>>
             THEN Absorb(counted, data)
             ELSE Absorb(TopUp(counted, data), After(data, Take(s, data)))

\* to_be_bytes of the length
BigEndian(bits) == [ k \in 1..LenLen |-> (bits \div 256^(LenLen - k)) % 256 ]

MutPadLenOffByOne(s) ==
    LET limit == BlockLen - LenLen
    IN  IF Len(s.buf) =< limit THEN limit - Len(s.buf) ELSE BlockLen + limit - Len(s.buf)

PadLen(s) ==
    LET limit == BlockLen - LenLen
    IN  IF Len(s.buf) < limit THEN limit - Len(s.buf) ELSE BlockLen + limit - Len(s.buf)

Pad(n) == [ k \in 1..n |-> IF k = 1 THEN 128 ELSE 0 ]

\* The length is taken before the padding, which update counts as well.
Finalize(s) == Update(Update(s, Pad(PadLen(s))), BigEndian(s.bits)).h

Sha256(data) == Finalize(Update(NewHasher, data))

-----------------------------------------------------------------------------
(* What the digest of a message is, without a stream: the message, a byte  *)
(* 0x80, the fewest zeros that make whole blocks with the length, and the  *)
(* length; cut into blocks.                                                *)

Zeros(n) ==
    CHOOSE z \in 0..(BlockLen - 1) : (n + 1 + z + LenLen) % BlockLen = 0

Padded(data) == data \o Pad(1 + Zeros(Len(data))) \o BigEndian(8 * Len(data))

Digest(data) ==
    [ b \in 1..(Len(Padded(data)) \div BlockLen) |->
        SubSeq(Padded(data), (b - 1) * BlockLen + 1, b * BlockLen) ]
=============================================================================
