-------------------------- MODULE MCReferenceOutputs --------------------------
(* Values for the constants of ReferenceOutputs.  A block of 8 bytes with a *)
(* length of 4: as with 64 and 8, a word divides a block and the length may *)
(* or may not fit behind the last one.                                      *)
EXTENDS ReferenceOutputs

CONSTANTS v1, v2, v3

U(cp) == << 224 + (cp \div 4096), 128 + ((cp \div 64) % 64), 128 + (cp % 64) >>

GA == U(44032)                      \* state 1
GEO == U(44144)                     \* state 2
GOE == U(44340)                     \* state 0
GAG == U(44033)                     \* has a final consonant

\* Of 0, 2, 3, 4, 7, 8, 9, 10 and 12 bytes: nothing, blank, one line without and
\* with a line feed or with a CR in it, two lines that CR LF or CR CR LF or LF
\* ends, three lines.
Programs ==
    { <<>>, << LF, 32 >>, GA, GA \o <<LF>>, GA \o <<CR>> \o GEO,
      GA \o << CR, LF >> \o GEO,
      GA \o << CR, CR, LF >> \o GEO, GEO \o GA \o <<LF>> \o GOE,
      GA \o <<LF>> \o GEO \o <<LF>> \o GOE \o <<LF>> }
TooLong == GA \o <<LF>> \o GA \o <<LF>> \o GA \o <<LF>> \o GA
BadSecondLine == GA \o <<LF>> \o GAG
BrokenSequence == << 234, 10 >>
OverlongLF == << 192, 138 >> \o GA

AllInputs == Programs \cup { TooLong, BadSecondLine, BrokenSequence, OverlongLF }

AllContents ==
    { [n \in Vectors |-> CASE n = v1 -> a [] n = v2 -> b [] OTHER -> BadSecondLine] :
        a \in AllInputs, b \in { GA \o << CR, LF >> \o GEO, BadSecondLine } }

AllSdkFaults == {"prove", "proof", "values"}
AllGoldenFaults == {"dir", "read", "write", "kill"}
=============================================================================
