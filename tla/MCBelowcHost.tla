----------------------------- MODULE MCBelowcHost -----------------------------
(* Values for the constants of BelowcHost.                                 *)
EXTENDS BelowcHost

\* Vowels 0, 1, 6 of this program's table, one it does not have (8), and a
\* final consonant.
A == 44032
AE == 44060
YEO == 44200
O == 44256
GAG == 44033

Run(text) == [wellformed |-> TRUE, utf8 |-> TRUE, text |-> text]

\* Three words, more than the buffer holds; the first has state 0.
ThreeLines == Run(<< A, LF, AE, 32, YEO, LF, LF, AE >>)
OneLine == Run(<< YEO, AE >>)
\* Refused after a word went to the buffer, and after one went to the file.
BadEarly == Run(<< AE, LF, GAG >>)
BadLate == Run(<< AE, LF, A, LF, AE, LF, O >>)
Empty == Run(<<>>)
NotUtf8 == [wellformed |-> TRUE, utf8 |-> FALSE, text |-> <<>>]
NoOption == [wellformed |-> FALSE, utf8 |-> TRUE, text |-> <<>>]

MixedCommands == {ThreeLines, OneLine, BadEarly, BadLate, Empty, NotUtf8, NoOption}
OneCommand == {ThreeLines}

AllFaults == FaultKinds
NoFault == {}
=============================================================================
