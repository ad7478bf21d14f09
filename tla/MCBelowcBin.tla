----------------------------- MODULE MCBelowcBin -----------------------------
(* Values for the constants of BelowcBin: the inputs, in UTF-8.           *)
EXTENDS BelowcBin, TLC

U(cp) == << 224 + (cp \div 4096), 128 + ((cp \div 64) % 64), 128 + (cp % 64) >>

GA == U(44032)                      \* state 1
GEO == U(44144)                     \* state 2
GOE == U(44340)                     \* state 0
GAE == U(44060)                     \* a vowel the language does not use

Run(input) == [argc |-> 3, dash |-> FALSE, in |-> input]

\* Two lines of which the second has no line feed; the first one's state must
\* not leak into the second.
TwoLines == Run(GEO \o GA \o <<LF>> \o GOE)
\* Nothing but white space: the output is an empty file.
Blank == Run(<<LF, 32>>)
\* Refused after a word was written.
BadSecondLine == Run(GA \o <<LF, 65>>)
\* Not UTF-8: the second byte does not continue the first.
BrokenSequence == Run(<<234, 10>>)
\* A sequence that the file ends in the middle of.
CutSequence == Run(<<10, 234, 176>>)

\* A line feed written in two bytes.
OverlongLF == Run(<<192, 138>> \o GA)

Short == Run(GA)
BadVowel == Run(GAE)

\* A third positional argument: only the Windows driver goes on.
ThreeFiles == [argc |-> 4, dash |-> FALSE, in |-> GA]
TooFewArgs == [argc |-> 2, dash |-> FALSE, in |-> <<>>]
Flag == [argc |-> 3, dash |-> TRUE, in |-> <<>>]

Symmetry == Permutations(Procs)

FewCommands == {TwoLines, BadSecondLine}
ManyCommands ==
    {TwoLines, Blank, BadSecondLine, BrokenSequence, BadVowel, TooFewArgs, Flag}
AllCommands == (ManyCommands \ {BadVowel}) \cup {CutSequence, OverlongLF, ThreeFiles}
ShortCommands == {Short, BadVowel}
CutCommand == {CutSequence}

NoFault == {}
AllFaults == FaultKinds
\* open fails only because the name is taken
OnlyCollisions == FaultKinds \ {"open_tmp", "write"}
WriteFault == {"write"}
ReadFault == {"read"}

Buffers == [o \in Systems |-> IF o = "unix" THEN 1024 ELSE 260]

\* On Unix a second try does not fit from 1010 bytes on and none from 1012 on;
\* on Windows, from 246 and 248 units on.
ShortPath == {20}
SomePaths == {20, 247, 1011}
LongPaths == {1011, 1012}
=============================================================================
