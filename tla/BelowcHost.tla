------------------------------ MODULE BelowcHost ------------------------------
(***************************************************************************)
(* The host program belowc (belowc/src/main.rs, lexer.rs, fs_atomic.rs):   *)
(* several processes compile to the same `out`.  Each of them writes to    *)
(* out.tmp, one name for all, through a buffer, and then removes `out` and *)
(* renames out.tmp.  Its lexer has a vowel table and an emitter of its own.*)
(*                                                                         *)
(* A file is named after the process that made it; whoever opens out.tmp   *)
(* while it exists gets that same file, truncated, and writes at its own   *)
(* offset.  File operations are those of POSIX.  A run that fails ends in   *)
(* the step that fails, since it has nothing left to do that others see.   *)
(***************************************************************************)
EXTENDS BelowCode

CONSTANTS
    Procs,      \* the processes
    Commands,   \* their possible command lines: whether it has the form
                \* <in> -o <out>, whether the input is UTF-8, and its text
    Capacity,   \* words the BufWriter holds (the code: 8192 bytes)
    Faults,     \* which calls may fail, and whether processes get killed
    Absent,     \* the file of a name that is not bound
    Before,     \* the file `out` may be bound to before any process runs
    Stale       \* a left-over out.tmp of an earlier run

FaultKinds == {"input", "create", "write", "sync", "remove", "rename", "kill"}

ASSUME ProcsAssumption ==
    Absent \notin Procs /\ Before \notin Procs /\ Stale \notin Procs
ASSUME FilesAssumption == Absent # Before /\ Absent # Stale /\ Before # Stale
ASSUME CapacityAssumption == Capacity \in Nat \ {0}
ASSUME CommandsAssumption ==
    \A c \in Commands :
        c.wellformed \in BOOLEAN /\ c.utf8 \in BOOLEAN /\ c.text \in Seq(Nat)
ASSUME FaultsAssumption == Faults \subseteq FaultKinds

VARIABLES
    cmd,                    \* the command lines
    pc,                     \* where a process is
    i, acc, valid,          \* characters taken, acc and has_valid_char
    buf,                    \* the words in the BufWriter
    fd, off,                \* the file a process writes to, and where
    out, tmp, data,         \* the names `out` and out.tmp, and what files hold
    first,                  \* history: the file `out` was bound to at first,
    at,                     \* where a process ended,
    lost, met               \* whether its last flush failed, or it shared out.tmp

scanner == << i, acc, valid >>
names == << out, tmp >>
history == << at, lost, met >>
vars == << cmd, first, pc, scanner, buf, fd, off, names, data, history >>

\* atomic_write is under way, from File::create to its return
Writing == {"scan", "emit", "drop", "abort", "clean", "sync", "check", "remove", "rename"}
Running == {"start", "create", "done"} \cup Writing
Files == Procs \cup {Stale}

\* 0x13 | 10 << 7 | state << 20, and ECALL for state 7
HostWordOf(state) == IF state = 7 THEN 115 ELSE 1299 + state * 1048576
HostWords == { HostWordOf(s) : s \in 0..7 }
Hole == 0                   \* what a file holds where nobody wrote
Torn == -1                  \* the fragment of a word that a failed write leaves
Contents == Seq(HostWords \cup {Hole, Torn})
Earlier == << HostWordOf(0), HostWordOf(7), HostWordOf(0) >>  \* what Stale holds

TypeOK ==
    /\ cmd \in [Procs -> Commands]
    /\ pc \in [Procs -> Running \cup {"succeeded", "failed", "killed"}]
    /\ i \in [Procs -> Nat] /\ \A p \in Procs : i[p] =< Len(cmd[p].text)
    /\ acc \in [Procs -> 0..7] /\ valid \in [Procs -> BOOLEAN]
    /\ buf \in [Procs -> Seq(HostWords)] /\ \A p \in Procs : Len(buf[p]) =< Capacity
    /\ fd \in [Procs -> Files \cup {Absent}] /\ off \in [Procs -> Nat]
    /\ out \in Files \cup {Absent, Before} /\ tmp \in Files \cup {Absent}
    /\ data \in [Files -> Contents]
    /\ first \in {Absent, Before}
    /\ at \in [Procs -> Running \cup {"none"}]
    /\ lost \in [Procs -> BOOLEAN] /\ met \in [Procs -> BOOLEAN]

Init ==
    /\ cmd \in [Procs -> Commands]
    /\ pc = [p \in Procs |-> "start"]
    /\ i = [p \in Procs |-> 0]
    /\ acc = [p \in Procs |-> 0] /\ valid = [p \in Procs |-> FALSE]
    /\ buf = [p \in Procs |-> <<>>]
    /\ fd = [p \in Procs |-> Absent] /\ off = [p \in Procs |-> 0]
    /\ first \in {Absent, Before} /\ out = first /\ tmp \in {Absent, Stale}
    /\ data = [f \in Files |-> IF f = Stale THEN Earlier ELSE <<>>]
    /\ at = [p \in Procs |-> "none"]
    /\ lost = [p \in Procs |-> FALSE] /\ met = [p \in Procs |-> FALSE]

-----------------------------------------------------------------------------
Goto(p, l) == pc' = [pc EXCEPT ![p] = l]

\* The process ends where it is.
End(p, l) ==
    /\ Goto(p, l)
    /\ at' = [at EXCEPT ![p] = pc[p]]
    /\ UNCHANGED << lost, met >>

Start(p) ==
    /\ pc[p] = "start"
    /\ cmd[p].wellformed /\ cmd[p].utf8
    /\ Goto(p, "create")
    /\ UNCHANGED << cmd, first, scanner, buf, fd, off, names, data, history >>

\* The usage message, or the panic of expect
StartFails(p) ==
    /\ pc[p] = "start"
    /\ ~ cmd[p].wellformed \/ ~ cmd[p].utf8 \/ "input" \in Faults
    /\ End(p, "failed")
    /\ UNCHANGED << cmd, first, scanner, buf, fd, off, names, data >>

MutCreateKeepsContent(p) ==
    /\ pc[p] = "create"
    /\ LET f == IF tmp = Absent THEN p ELSE tmp
       IN  tmp' = f /\ fd' = [fd EXCEPT ![p] = f]
    /\ LET others == { q \in Procs \ {p} : pc[q] \in Writing }
       IN  met' = [q \in Procs |-> met[q] \/ (others # {} /\ q \in others \cup {p})]
    /\ Goto(p, "scan")
    /\ UNCHANGED << cmd, first, scanner, buf, off, out, data, at, lost >>

\* File::create makes out.tmp or opens the file it is bound to, and truncates
Create(p) ==
    /\ pc[p] = "create"
    /\ LET f == IF tmp = Absent THEN p ELSE tmp
       IN  tmp' = f /\ fd' = [fd EXCEPT ![p] = f] /\ data' = [data EXCEPT ![f] = <<>>]
    /\ LET others == { q \in Procs \ {p} : pc[q] \in Writing }
       IN  met' = [q \in Procs |-> met[q] \/ (others # {} /\ q \in others \cup {p})]
    /\ Goto(p, "scan")
    /\ UNCHANGED << cmd, first, scanner, buf, off, out, at, lost >>

MutCreateFailsCleans(p) ==
    /\ pc[p] = "create"
    /\ "create" \in Faults
    /\ tmp' = Absent
    /\ End(p, "failed")
    /\ UNCHANGED << cmd, first, scanner, buf, fd, off, out, data >>

CreateFails(p) ==
    /\ pc[p] = "create"
    /\ "create" \in Faults
    /\ End(p, "failed")
    /\ UNCHANGED << cmd, first, scanner, buf, fd, off, names, data >>

-----------------------------------------------------------------------------
(* compile_stream, into a BufWriter.                                       *)

Char(p) == cmd[p].text[i[p] + 1]
More(p) == i[p] < Len(cmd[p].text)

HostIsLetter(cp) == cp \in Hangul /\ Jong(cp) = 0 /\ Jung(cp) =< 7

SkipChar(p) ==
    /\ pc[p] = "scan" /\ More(p)
    /\ Char(p) \in Skipped \/ (Char(p) = LF /\ ~ valid[p])
    /\ i' = [i EXCEPT ![p] = @ + 1]
    /\ UNCHANGED << cmd, first, pc, acc, valid, buf, fd, off, names, data, history >>

Letter(p) ==
    /\ pc[p] = "scan" /\ More(p)
    /\ HostIsLetter(Char(p))
    /\ acc' = [acc EXCEPT ![p] = Accumulate(@, Jung(Char(p)))]
    /\ valid' = [valid EXCEPT ![p] = TRUE]
    /\ i' = [i EXCEPT ![p] = @ + 1]
    /\ UNCHANGED << cmd, first, pc, buf, fd, off, names, data, history >>

\* A line with a letter ends, by its line feed or by the end of the text
EndLine(p) ==
    /\ pc[p] = "scan" /\ valid[p]
    /\ More(p) => Char(p) = LF
    /\ Goto(p, "emit")
    /\ UNCHANGED << cmd, first, scanner, buf, fd, off, names, data, history >>

ForeignChar(p) ==
    /\ pc[p] = "scan" /\ More(p)
    /\ Char(p) \notin Skipped \cup {LF} /\ ~ HostIsLetter(Char(p))
    /\ Goto(p, "abort")
    /\ UNCHANGED << cmd, first, scanner, buf, fd, off, names, data, history >>

EndOfText(p) ==
    /\ pc[p] = "scan" /\ ~ More(p) /\ ~ valid[p]
    /\ Goto(p, "drop")
    /\ UNCHANGED << cmd, first, scanner, buf, fd, off, names, data, history >>

\* What a file holds after words were written to it at an offset.
Overwritten(content, offset, words) ==
    LET end == offset + Len(words)
    IN  [ k \in 1..(IF Len(content) > end THEN Len(content) ELSE end) |->
            IF k \in (offset + 1)..end THEN words[k - offset]
            ELSE IF k =< Len(content) THEN content[k] ELSE Hole ]

Write(p, words) ==
    /\ data' = [data EXCEPT ![fd[p]] = Overwritten(@, off[p], words)]
    /\ off' = [off EXCEPT ![p] = @ + Len(words)]

MutEmitUnbounded(p) ==
    /\ pc[p] = "emit"
    /\ buf' = [buf EXCEPT ![p] = Append(@, HostWordOf(acc[p]))]
    /\ acc' = [acc EXCEPT ![p] = 0]
    /\ valid' = [valid EXCEPT ![p] = FALSE]
    /\ Goto(p, "scan")
    /\ UNCHANGED << cmd, first, i, fd, off, names, data, history >>

\* The word joins the buffer, which is flushed first if it is full
Emit(p) ==
    /\ pc[p] = "emit"
    /\ IF Len(buf[p]) = Capacity
       THEN Write(p, buf[p]) /\ buf' = [buf EXCEPT ![p] = << HostWordOf(acc[p]) >>]
       ELSE buf' = [buf EXCEPT ![p] = Append(@, HostWordOf(acc[p]))] /\ UNCHANGED << data, off >>
    /\ acc' = [acc EXCEPT ![p] = 0]
    /\ valid' = [valid EXCEPT ![p] = FALSE]
    /\ Goto(p, "scan")
    /\ UNCHANGED << cmd, first, i, fd, names, history >>

\* A flush that fails after n words keeps the others.
EmitFails(p) ==
    /\ pc[p] = "emit"
    /\ Len(buf[p]) = Capacity /\ "write" \in Faults
    /\ \E n \in 0..(Capacity - 1) :
         /\ Write(p, SubSeq(buf[p], 1, n))
         /\ buf' = [buf EXCEPT ![p] = SubSeq(@, n + 1, Capacity)]
    /\ Goto(p, "abort")
    /\ UNCHANGED << cmd, first, scanner, fd, names, history >>

\* compile_stream returns and drops its BufWriter, which flushes it
DropWriter(p) ==
    /\ pc[p] \in {"drop", "abort"}
    /\ Write(p, buf[p])
    /\ buf' = [buf EXCEPT ![p] = <<>>]
    /\ Goto(p, IF pc[p] = "drop" THEN "sync" ELSE "clean")
    /\ UNCHANGED << cmd, first, scanner, fd, names, history >>

\* and ignores the error if that fails, after n words and perhaps a fragment
DropWriterFails(p) ==
    /\ pc[p] \in {"drop", "abort"}
    /\ "write" \in Faults
    /\ \E n \in 0..(Len(buf[p]) - 1), cut \in {<<>>, <<Torn>>} :
         Write(p, SubSeq(buf[p], 1, n) \o cut)
    /\ buf' = [buf EXCEPT ![p] = <<>>]
    /\ lost' = [lost EXCEPT ![p] = TRUE]
    /\ Goto(p, IF pc[p] = "drop" THEN "sync" ELSE "clean")
    /\ UNCHANGED << cmd, first, scanner, fd, names, at, met >>

-----------------------------------------------------------------------------
(* The rest of atomic_write.                                               *)

MutCleanRemovesOut(p) ==
    /\ pc[p] = "clean"
    /\ out' = Absent
    /\ End(p, "failed")
    /\ UNCHANGED << cmd, first, scanner, buf, fd, off, tmp, data >>

\* The file went wrong: out.tmp is removed, whoever's it is
Clean(p) ==
    /\ pc[p] = "clean"
    /\ tmp' = Absent
    /\ End(p, "failed")
    /\ UNCHANGED << cmd, first, scanner, buf, fd, off, out, data >>

CleanFails(p) ==
    /\ pc[p] = "clean"
    /\ "remove" \in Faults
    /\ End(p, "failed")
    /\ UNCHANGED << cmd, first, scanner, buf, fd, off, names, data >>

Sync(p) ==
    /\ pc[p] = "sync"
    /\ Goto(p, "check")
    /\ UNCHANGED << cmd, first, scanner, buf, fd, off, names, data, history >>

SyncFails(p) ==
    /\ pc[p] = "sync"
    /\ "sync" \in Faults
    /\ End(p, "failed")
    /\ UNCHANGED << cmd, first, scanner, buf, fd, off, names, data >>

\* out.exists()
Check(p) ==
    /\ pc[p] = "check"
    /\ Goto(p, IF out = Absent THEN "rename" ELSE "remove")
    /\ UNCHANGED << cmd, first, scanner, buf, fd, off, names, data, history >>

Remove(p) ==
    /\ pc[p] = "remove"
    /\ out # Absent
    /\ out' = Absent
    /\ Goto(p, "rename")
    /\ UNCHANGED << cmd, first, scanner, buf, fd, off, tmp, data, history >>

MutRemoveRetries(p) ==
    /\ pc[p] = "remove"
    /\ out = Absent \/ "remove" \in Faults
    /\ Goto(p, "check")
    /\ UNCHANGED << cmd, first, scanner, buf, fd, off, names, data, history >>

RemoveFails(p) ==
    /\ pc[p] = "remove"
    /\ out = Absent \/ "remove" \in Faults
    /\ End(p, "failed")
    /\ UNCHANGED << cmd, first, scanner, buf, fd, off, names, data >>

MutRenameCopies(p) ==
    /\ pc[p] = "rename"
    /\ tmp # Absent
    /\ out' = tmp
    /\ Goto(p, "done")
    /\ UNCHANGED << cmd, first, scanner, buf, fd, off, tmp, data, history >>

Rename(p) ==
    /\ pc[p] = "rename"
    /\ tmp # Absent
    /\ out' = tmp /\ tmp' = Absent
    /\ Goto(p, "done")
    /\ UNCHANGED << cmd, first, scanner, buf, fd, off, data, history >>

RenameFails(p) ==
    /\ pc[p] = "rename"
    /\ tmp = Absent \/ "rename" \in Faults
    /\ End(p, "failed")
    /\ UNCHANGED << cmd, first, scanner, buf, fd, off, names, data >>

\* atomic_write has returned Ok, and main does.
Exit(p) ==
    /\ pc[p] = "done"
    /\ End(p, "succeeded")
    /\ UNCHANGED << cmd, first, scanner, buf, fd, off, names, data >>

Kill(p) ==
    /\ "kill" \in Faults
    /\ pc[p] \in Running
    /\ End(p, "killed")
    /\ UNCHANGED << cmd, first, scanner, buf, fd, off, names, data >>

CompileStream(p) ==
    \/ SkipChar(p) \/ Letter(p) \/ EndLine(p) \/ ForeignChar(p) \/ EndOfText(p)
    \/ Emit(p) \/ EmitFails(p)

AtomicWrite(p) ==
    \/ Create(p) \/ CreateFails(p) \/ CompileStream(p)
    \/ DropWriter(p) \/ DropWriterFails(p) \/ Clean(p) \/ CleanFails(p)
    \/ Sync(p) \/ SyncFails(p) \/ Check(p)
    \/ Remove(p) \/ RemoveFails(p) \/ Rename(p) \/ RenameFails(p)

Step(p) == Start(p) \/ StartFails(p) \/ AtomicWrite(p) \/ Exit(p)

AllEnded == (\A p \in Procs : pc[p] \notin Running) /\ UNCHANGED vars

Next == (\E p \in Procs : Step(p) \/ Kill(p)) \/ AllEnded

Spec == Init /\ [][Next]_vars
FairSpec == Spec /\ \A p \in Procs : WF_vars(Step(p))

-----------------------------------------------------------------------------
(* Properties.                                                             *)

\* What a text means to this program, told with the tables of BelowCode: its
\* vowel s stands for state s, and it writes 0x513 where the LUT has 0x13.
HostAccepted(text) ==
    \A k \in DOMAIN text : text[k] \in Skipped \cup {LF} \/ HostIsLetter(text[k])

Canonical(text) ==
    [ k \in DOMAIN text |->
        IF HostIsLetter(text[k])
        THEN 44032 + 28 * JungTable[Jung(text[k]) + 1]
        ELSE text[k] ]

HostCompile(text) ==
    LET words == Compile(Canonical(text))
    IN  [ n \in DOMAIN words |->
            IF words[n] = LUT[1] THEN HostWordOf(0) ELSE words[n] ]

\* The rename of p has succeeded, whether or not p lived to exit.
Renamed(p) == pc[p] = "done" \/ at[p] = "done"

\* All words but some, at most a buffer of them, at the end, and perhaps the
\* fragment of a word.
CutShort(words, all) ==
    \E n \in 0..(Len(all) - 1) :
        /\ n + Capacity >= Len(all)
        /\ words \in { SubSeq(all, 1, n), Append(SubSeq(all, 1, n), Torn) }

\* A run that had out.tmp to itself publishes a whole program's words, whatever
\* it found in out.tmp, and they stay whole for as long as `out` shows them; if
\* its last flush failed, unnoticed, no more than the last buffer is cut short
\* (fs_atomic.rs:19-35, lexer.rs:8-51, main.rs:24).
AloneIsWhole ==
    \A p \in Procs :
        Renamed(p) /\ ~ met[p] /\ out = fd[p] =>
            /\ HostAccepted(cmd[p].text)
            /\ IF lost[p] THEN CutShort(data[out], HostCompile(cmd[p].text))
               ELSE data[out] = HostCompile(cmd[p].text)

\* A run that shares out.tmp with nobody keeps it until it renames or removes it
\* itself: no run that fails, before or after its own time with out.tmp, takes
\* it away (fs_atomic.rs:20-25 and 35).
AloneKeepsTmp ==
    \A p \in Procs : pc[p] \in Writing /\ ~ met[p] => tmp = fd[p]

\* `out` is missing, once it was there, only while some run is between removing
\* it and renaming, or because one failed or was killed there (fs_atomic.rs:32-35).
GapExplained ==
    out = Absent /\ (first # Absent \/ \E p \in Procs : Renamed(p)) =>
        \E q \in Procs : pc[q] = "rename" \/ at[q] = "rename"

\* What `out` shows is written to only in a step of a run that has shared out.tmp
\* with another (fs_atomic.rs:20 and 35).
PublishedIsStable ==
    [][ \A f \in Files : out = f /\ out' = f =>
            \/ data'[f] = data[f]
            \/ \E p \in Procs : pc'[p] # pc[p] /\ fd[p] = f /\ met[p] ]_vars

\* Every run that is scheduled ends.
EveryRunEnds == \A p \in Procs : <>(pc[p] \notin Running)

\* The steps a process can still take: characters, a word for each line with a
\* letter, and the rest of atomic_write.
StepsLeft(p) ==
    LET chars == 3 * (Len(cmd[p].text) - i[p])
    IN  CASE pc[p] = "start" -> chars + 11
          [] pc[p] = "create" -> chars + 10
          [] pc[p] = "scan" -> chars + (IF valid[p] THEN 9 ELSE 7)
          [] pc[p] = "emit" -> chars + 8
          [] pc[p] \in {"drop", "abort"} -> 6
          [] pc[p] \in {"sync", "clean"} -> 5
          [] pc[p] = "check" -> 4
          [] pc[p] = "remove" -> 3
          [] pc[p] = "rename" -> 2
          [] pc[p] = "done" -> 1
          [] OTHER -> 0

\* Nothing is tried again: whatever fails and whoever interferes, each step brings
\* one process nearer its end and sets none back, so that a run of n characters
\* ends in at most 3n + 11 steps (lexer.rs:13-50, fs_atomic.rs:17-37).
EveryStepCounts ==
    [][ \E p \in Procs :
          /\ StepsLeft(p)' \in 0..(StepsLeft(p) - 1)
          /\ \A q \in Procs \ {p} : StepsLeft(q)' = StepsLeft(q) ]_vars

\* A file that was there is replaced atomically: it is never missing
\* (fs_atomic.rs:11, "Write to `out.tmp`, then atomically replace `out` on
\* success").
NeverMissing == first # Absent => out # Absent
=============================================================================
