---------------------------- MODULE MCUtf8Decoding ----------------------------
(* Byte strings of up to four bytes over one byte of every kind the decoder *)
(* or UTF-8 tells apart: line feed, ASCII, two continuations, the leads of  *)
(* two, three (overlong after 224, surrogate after 237) and four bytes      *)
(* (overlong after 240, too large after 244), and a byte that leads none.   *)
EXTENDS Utf8Decoding

Kinds == {10, 65, 128, 176, 193, 195, 224, 234, 237, 240, 244, 255}

ShortByteStrings == UNION { [1..k -> Kinds] : k \in 0..4 }
=============================================================================
