---------------------------- MODULE MCLineEncoder ----------------------------
(* All texts of up to five characters over an alphabet with a letter of    *)
(* each relevant kind: two states with different bits, state 0, a syllable  *)
(* with a final consonant, carriage returns and line feeds.                *)
EXTENDS LineEncoder

Alphabet == {44032, 44144, 44340, 44033, 13, 10}

ShortTexts == UNION { [1..n -> Alphabet] : n \in 0..5 }
=============================================================================
