---------------------------- MODULE AtomicReplace ----------------------------
(***************************************************************************)
(* What the compiler runs promise whoever reads `out` and their exit       *)
(* codes: `out` shows what it showed before or all the words of one valid  *)
(* program, and it changes only when the run of that program publishes     *)
(* them.  A run that reports success has published, one that reports       *)
(* failure has not and never will; of a killed run one cannot tell.        *)
(***************************************************************************)
EXTENDS BelowCode, Utf8Decoder

CONSTANTS Procs,        \* the runs
          Programs,     \* the byte strings they may be given
          Initially     \* what `out` may show at first

VARIABLES program, shown,
          published,    \* the runs that have published
          verdict       \* how a run has ended
vars == << program, shown, published, verdict >>

Means(words, bytes) ==
    /\ IsUtf8(bytes)
    /\ Accepted(TextOf(bytes))
    /\ words = Compile(TextOf(bytes))

Init ==
    /\ program \in [Procs -> Programs]
    /\ shown \in Initially
    /\ published = {}
    /\ verdict = [p \in Procs |-> "none"]

Publish(p) ==
    /\ verdict[p] = "none"
    /\ p \notin published
    /\ published' = published \cup {p}
    /\ Means(shown', program[p])
    /\ UNCHANGED << program, verdict >>

Report(p, v) ==
    /\ verdict[p] = "none"
    /\ verdict' = [verdict EXCEPT ![p] = v]
    /\ UNCHANGED << program, shown, published >>

Succeed(p) == p \in published /\ Report(p, "success")
Fail(p) == p \notin published /\ Report(p, "failure")
Die(p) == Report(p, "killed")

Next == \E p \in Procs : Publish(p) \/ Succeed(p) \/ Fail(p) \/ Die(p)

Spec == Init /\ [][Next]_vars
=============================================================================
