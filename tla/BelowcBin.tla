----------------------------- MODULE BelowcBin -----------------------------
(***************************************************************************)
(* belowc_bin: several processes, each started by its own command line,    *)
(* compile to the same `out` in one directory.                             *)
(*                                                                         *)
(* A process scans its input in chunks, writes a word for every line into  *)
(* a temporary file it created exclusively under one of MaxTries names and *)
(* finally renames that file over `out`.  One action per system call, exit *)
(* included, with the computation up to the next one, except that the scan *)
(* of a chunk takes one action per byte.  close() changes only the         *)
(* caller's own descriptors, which exit closes anyway, and has no action.  *)
(*                                                                         *)
(* The program has two drivers, run_compiler_unix and run_compiler for     *)
(* Windows, whose control differs in three places: which argument counts   *)
(* they accept, how long a path fits, and what a failed read is.  `os`     *)
(* says which of the two runs; nothing else depends on it.                 *)
(*                                                                         *)
(* A file is named after the process that created it: `tmp` and `out` say  *)
(* which file each name is bound to, `file` what each one holds.           *)
(***************************************************************************)
EXTENDS BelowCode, Utf8Decoder

CONSTANTS
    Procs,      \* the processes
    Systems,    \* which drivers are looked at
    Commands,   \* their possible command lines: argc, whether argv[1] starts
                \* with '-', and the bytes of the input file
    MaxTries,   \* temporary names a process tries (the code: 9)
    BufLen,     \* bytes of the read buffer (the code: 1024)
    PathBuf,    \* units of the path buffer of each driver (the code: 1024, 260)
    OutLens,    \* lengths the path `out` may have
    Faults,     \* which calls may fail, and whether processes get killed
    Absent,     \* the file of a name that is not bound
    Before,     \* the file `out` may be bound to before any process runs
    Stale       \* a temporary file an earlier run left behind

FaultKinds ==
    {"open_in", "open_tmp", "read", "write", "rename", "unlink", "kill"}

ASSUME ProcsAssumption ==
    /\ IsFiniteSet(Procs)
    /\ Absent \notin Procs /\ Before \notin Procs /\ Stale \notin Procs
ASSUME FilesAssumption == Absent # Before /\ Absent # Stale /\ Before # Stale
ASSUME TriesAssumption == MaxTries \in Nat \ {0} /\ BufLen \in Nat \ {0}
ASSUME SystemsAssumption == Systems \subseteq {"unix", "windows"}
ASSUME PathAssumption == PathBuf \in [Systems -> Nat] /\ OutLens \subseteq Nat
ASSUME CommandsAssumption ==
    \A c \in Commands : c.argc \in Nat /\ c.dash \in BOOLEAN /\ c.in \in Seq(Byte)
ASSUME FaultsAssumption == Faults \subseteq FaultKinds

Suffixes == 0..(MaxTries - 1)       \* ".belowc.tmp" and ".belowc.tmp.1", ...

VARIABLES
    os,                             \* the driver that runs
    cmd, outLen,                    \* the command lines and the length of `out`
    pc, tries,                      \* where a process is; names it has tried
    pos, have,                      \* bytes scanned and bytes read of the input
    dec, acc, valid,                \* decoder, acc and line_has_valid
    site,                           \* which return statement it has come to
    out, tmp, file,                 \* the directory and the files
    lost                            \* history: a write of p fell short

given == << os, cmd, outLen >>
scanner == << pos, have, dec, acc, valid >>
disk == << out, tmp, file, lost >>
vars == << given, pc, tries, scanner, site, disk >>

Running == {"start", "tmp", "read", "scan", "flush", "rename", "unlink", "exit"}
Halted == {"exited", "killed", "panicked"}
\* The states in which a process has a temporary file.
Holding == {"read", "scan", "flush", "rename", "unlink"}

\* "rename" and "unlink" are one statement, after unlink and after it failed.
Sites ==
    {"none", "args", "open_in", "no_tmp", "read", "char", "rename", "unlink", "ok"}

Torn == -1                          \* the fragment a short write leaves

TypeOK ==
    /\ os \in Systems
    /\ cmd \in [Procs -> Commands]
    /\ outLen \in OutLens
    /\ pc \in [Procs -> Running \cup Halted]
    /\ tries \in [Procs -> 0..MaxTries]
    /\ \A p \in Procs : pc[p] \in Holding => tries[p] >= 1
    /\ pos \in [Procs -> Nat]
    /\ have \in [Procs -> Nat]
    /\ \A p \in Procs : pos[p] =< have[p] /\ have[p] =< Len(cmd[p].in)
    /\ dec \in [Procs -> Decoders]
    /\ acc \in [Procs -> 0..7]
    /\ valid \in [Procs -> BOOLEAN]
    /\ site \in [Procs -> Sites]
    /\ out \in Procs \cup {Absent, Before, Stale}
    /\ tmp \in [Suffixes -> Procs \cup {Absent, Stale}]
    /\ file \in [Procs -> Seq(Words \cup {Torn})]
    /\ lost \in [Procs -> BOOLEAN]

\* On Windows parse_args cuts an argument to what its array holds.
Init ==
    /\ os \in Systems
    /\ cmd \in [Procs -> Commands]
    /\ outLen \in { l \in OutLens : os = "windows" => l < PathBuf[os] }
    /\ pc = [p \in Procs |-> "start"]
    /\ tries = [p \in Procs |-> 0]
    /\ pos = [p \in Procs |-> 0]
    /\ have = [p \in Procs |-> 0]
    /\ dec = [p \in Procs |-> NewDecoder]
    /\ acc = [p \in Procs |-> 0]
    /\ valid = [p \in Procs |-> FALSE]
    /\ site = [p \in Procs |-> "none"]
    /\ out \in {Absent, Before}
    /\ tmp \in [Suffixes -> {Absent, Stale}]
    /\ file = [p \in Procs |-> <<>>]
    /\ lost = [p \in Procs |-> FALSE]

-----------------------------------------------------------------------------
Goto(p, l) == pc' = [pc EXCEPT ![p] = l]

\* return at the given site, after which only the exit call is left
Return(p, s) ==
    /\ Goto(p, "exit")
    /\ site' = [site EXCEPT ![p] = s]

\* parse_args stops after the third argument and never sees a fourth.
Wellformed(c) ==
    /\ IF os = "windows" THEN c.argc >= 3 ELSE c.argc = 3
    /\ ~ c.dash

RejectArgs(p) ==
    /\ pc[p] = "start"
    /\ ~ Wellformed(cmd[p])
    /\ Return(p, "args")
    /\ UNCHANGED << given, tries, scanner, disk >>

OpenInput(p) ==
    /\ pc[p] = "start"
    /\ Wellformed(cmd[p])
    /\ Goto(p, "tmp")
    /\ UNCHANGED << given, tries, scanner, site, disk >>

OpenInputFails(p) ==
    /\ pc[p] = "start"
    /\ Wellformed(cmd[p])
    /\ "open_in" \in Faults
    /\ Return(p, "open_in")
    /\ UNCHANGED << given, tries, scanner, disk >>

-----------------------------------------------------------------------------
(* The loop that looks for a free temporary name.                          *)

\* The index of the NUL that ends the k-th temporary path: "." and
\* ".belowc.tmp" are added to `out`, and from the second try on a suffix.
TmpPathEnd(k) == outLen + 12 + (IF k > 0 THEN 2 ELSE 0)

Trying(p) == pc[p] = "tmp" /\ tries[p] < MaxTries

\* The path does not fit its array: the bounds check panics, and the panic
\* handler is an endless loop.
PathPanics(p) ==
    /\ Trying(p)
    /\ TmpPathEnd(tries[p]) >= PathBuf[os]
    /\ Goto(p, "panicked")
    /\ UNCHANGED << given, tries, scanner, site, disk >>

MutCreateTmpNotExclusive(p) ==
    /\ Trying(p)
    /\ TmpPathEnd(tries[p]) < PathBuf[os]
    /\ tmp' = [tmp EXCEPT ![tries[p]] = p]
    /\ tries' = [tries EXCEPT ![p] = @ + 1]
    /\ Goto(p, "read")
    /\ UNCHANGED << given, scanner, site, out, file, lost >>

\* open(O_CREAT | O_EXCL) succeeds
CreateTmp(p) ==
    /\ Trying(p)
    /\ TmpPathEnd(tries[p]) < PathBuf[os]
    /\ tmp[tries[p]] = Absent
    /\ tmp' = [tmp EXCEPT ![tries[p]] = p]
    /\ tries' = [tries EXCEPT ![p] = @ + 1]
    /\ Goto(p, "read")
    /\ UNCHANGED << given, scanner, site, out, file, lost >>

MutTmpTakenForever(p) ==
    /\ Trying(p)
    /\ TmpPathEnd(tries[p]) < PathBuf[os]
    /\ tmp[tries[p]] # Absent
    /\ UNCHANGED vars

MutTmpTakenUnbounded(p) ==
    /\ pc[p] = "tmp"
    /\ tries[p] =< MaxTries
    /\ tries' = [tries EXCEPT ![p] = @ + 1]
    /\ UNCHANGED << given, pc, scanner, site, disk >>

\* It fails: the name is taken, or for another reason the code cannot tell
TmpTaken(p) ==
    /\ Trying(p)
    /\ TmpPathEnd(tries[p]) < PathBuf[os]
    /\ tmp[tries[p]] # Absent \/ "open_tmp" \in Faults
    /\ tries' = [tries EXCEPT ![p] = @ + 1]
    /\ UNCHANGED << given, pc, scanner, site, disk >>

MutGiveUpEarly(p) ==
    /\ pc[p] = "tmp"
    /\ tries[p] = MaxTries - 1
    /\ Return(p, "no_tmp")
    /\ UNCHANGED << given, tries, scanner, disk >>

GiveUp(p) ==
    /\ pc[p] = "tmp"
    /\ tries[p] = MaxTries
    /\ Return(p, "no_tmp")
    /\ UNCHANGED << given, tries, scanner, disk >>

\* The temporary name a process in Holding has taken.
TmpOf(p) == tries[p] - 1

-----------------------------------------------------------------------------
(* The scan.                                                               *)

Input(p) == cmd[p].in

ReadChunk(p) ==
    /\ pc[p] = "read"
    /\ \E n \in 1..BufLen :
         /\ have[p] + n =< Len(Input(p))
         /\ have' = [have EXCEPT ![p] = @ + n]
    /\ Goto(p, "scan")
    /\ UNCHANGED << given, tries, pos, dec, acc, valid, site, disk >>

ReadEof(p) ==
    /\ pc[p] = "read"
    /\ have[p] = Len(Input(p))
    /\ Goto(p, "flush")
    /\ UNCHANGED << given, tries, scanner, site, disk >>

\* The temporary file is not removed
ReadFails(p) ==
    /\ pc[p] = "read"
    /\ os = "unix"
    /\ "read" \in Faults
    /\ Return(p, "read")
    /\ UNCHANGED << given, tries, scanner, disk >>

\* A failed ReadFile is taken for the end of the file
ReadFailsAsEof(p) ==
    /\ pc[p] = "read"
    /\ os = "windows"
    /\ "read" \in Faults
    /\ Goto(p, "flush")
    /\ UNCHANGED << given, tries, scanner, site, disk >>

Decoded(p) == Decode(dec[p], Input(p)[pos[p] + 1])
Char(p) == Decoded(p).cp
Scanning(p) == pc[p] = "scan" /\ pos[p] < have[p]

\* On to the next byte, or to the next read after the last one of the chunk
Advance(p) ==
    /\ pos' = [pos EXCEPT ![p] = @ + 1]
    /\ dec' = [dec EXCEPT ![p] = Decoded(p).dec]
    /\ Goto(p, IF pos[p] + 1 = have[p] THEN "read" ELSE "scan")

SkipByte(p) ==
    /\ Scanning(p)
    /\ Char(p) \in Skipped \cup {Pending}
    /\ Advance(p)
    /\ UNCHANGED << given, tries, have, acc, valid, site, disk >>

Letter(p) ==
    /\ Scanning(p)
    /\ IsLetter(Char(p))
    /\ Advance(p)
    /\ acc' = [acc EXCEPT ![p] = Accumulate(@, StateOf(Char(p)))]
    /\ valid' = [valid EXCEPT ![p] = TRUE]
    /\ UNCHANGED << given, tries, have, site, disk >>

\* write(fd_out, word, 4), whose result nobody looks at
WriteWord(p) ==
    \/ /\ file' = [file EXCEPT ![p] = Append(@, WordOf(acc[p]))]
       /\ UNCHANGED lost
    \/ /\ "write" \in Faults
       /\ \E part \in {<<>>, <<Torn>>} : file' = [file EXCEPT ![p] = @ \o part]
       /\ lost' = [lost EXCEPT ![p] = TRUE]

ResetLine(p) ==
    /\ acc' = [acc EXCEPT ![p] = 0]
    /\ valid' = [valid EXCEPT ![p] = FALSE]

MutEmitLineKeepsAcc(p) ==
    /\ Scanning(p)
    /\ Char(p) = LF
    /\ valid[p]
    /\ WriteWord(p)
    /\ Advance(p)
    /\ valid' = [valid EXCEPT ![p] = FALSE]
    /\ UNCHANGED << given, tries, have, acc, site, out, tmp >>

EmitLine(p) ==
    /\ Scanning(p)
    /\ Char(p) = LF
    /\ valid[p]
    /\ WriteWord(p)
    /\ Advance(p)
    /\ ResetLine(p)
    /\ UNCHANGED << given, tries, have, site, out, tmp >>

BlankLine(p) ==
    /\ Scanning(p)
    /\ Char(p) = LF
    /\ ~ valid[p]
    /\ Advance(p)
    /\ ResetLine(p)
    /\ UNCHANGED << given, tries, have, site, disk >>

IsForeign(cp) == cp \notin Skipped \cup {Pending, LF} /\ ~ IsLetter(cp)

MutForeignCharSkipsReplacement(p) ==
    /\ Scanning(p)
    /\ IsForeign(Char(p))
    /\ IF Char(p) = Replacement
       THEN Advance(p) /\ UNCHANGED << given, tries, have, acc, valid, site, disk >>
       ELSE Return(p, "char") /\ UNCHANGED << given, tries, scanner, disk >>

\* The temporary file is not removed
ForeignChar(p) ==
    /\ Scanning(p)
    /\ IsForeign(Char(p))
    /\ Return(p, "char")
    /\ UNCHANGED << given, tries, scanner, disk >>

-----------------------------------------------------------------------------
(* After the scan: the last line, and the commit.                          *)

MutFlushLastForgets(p) ==
    /\ pc[p] = "flush"
    /\ valid[p]
    /\ Goto(p, "rename")
    /\ UNCHANGED << given, tries, scanner, site, disk >>

FlushLast(p) ==
    /\ pc[p] = "flush"
    /\ valid[p]
    /\ WriteWord(p)
    /\ Goto(p, "rename")
    /\ UNCHANGED << given, tries, scanner, site, out, tmp >>

NothingToFlush(p) ==
    /\ pc[p] = "flush"
    /\ ~ valid[p]
    /\ Goto(p, "rename")
    /\ UNCHANGED << given, tries, scanner, site, disk >>

MutRenameZeroIsFailure(p) ==
    /\ pc[p] = "rename"
    /\ tmp[TmpOf(p)] # Absent
    /\ out' = tmp[TmpOf(p)]
    /\ tmp' = [tmp EXCEPT ![TmpOf(p)] = Absent]
    /\ Goto(p, "unlink")
    /\ UNCHANGED << given, tries, scanner, site, file, lost >>

Rename(p) ==
    /\ pc[p] = "rename"
    /\ tmp[TmpOf(p)] # Absent
    /\ out' = tmp[TmpOf(p)]
    /\ tmp' = [tmp EXCEPT ![TmpOf(p)] = Absent]
    /\ Return(p, "ok")
    /\ UNCHANGED << given, tries, scanner, file, lost >>

MutRenameFailsUnnoticed(p) ==
    /\ pc[p] = "rename"
    /\ "rename" \in Faults
    /\ Return(p, "ok")
    /\ UNCHANGED << given, tries, scanner, disk >>

MutRenameFailsTriesNextName(p) ==
    /\ pc[p] = "rename"
    /\ "rename" \in Faults \/ tmp[TmpOf(p)] = Absent
    /\ Goto(p, "tmp")
    /\ UNCHANGED << given, tries, scanner, site, disk >>

RenameFails(p) ==
    /\ pc[p] = "rename"
    /\ "rename" \in Faults \/ tmp[TmpOf(p)] = Absent
    /\ Goto(p, "unlink")
    /\ UNCHANGED << given, tries, scanner, site, disk >>

MutUnlinkForgotten(p) ==
    /\ pc[p] = "unlink"
    /\ Return(p, "rename")
    /\ UNCHANGED << given, tries, scanner, disk >>

Unlink(p) ==
    /\ pc[p] = "unlink"
    /\ tmp' = [tmp EXCEPT ![TmpOf(p)] = Absent]
    /\ Return(p, "rename")
    /\ UNCHANGED << given, tries, scanner, out, file, lost >>

\* unlink fails, unnoticed
UnlinkFails(p) ==
    /\ pc[p] = "unlink"
    /\ "unlink" \in Faults
    /\ Return(p, "unlink")
    /\ UNCHANGED << given, tries, scanner, disk >>

\* rust_start hands the returned value to exit, or to ExitProcess.
Exit(p) ==
    /\ pc[p] = "exit"
    /\ Goto(p, "exited")
    /\ UNCHANGED << given, tries, scanner, site, disk >>

-----------------------------------------------------------------------------
\* A signal ends the process between any two of its steps.
Kill(p) ==
    /\ "kill" \in Faults
    /\ pc[p] \in Running
    /\ Goto(p, "killed")
    /\ UNCHANGED << given, tries, scanner, site, disk >>

Prepare(p) ==
    \/ RejectArgs(p) \/ OpenInput(p) \/ OpenInputFails(p)
    \/ PathPanics(p) \/ CreateTmp(p) \/ TmpTaken(p) \/ GiveUp(p)

Scan(p) ==
    \/ ReadChunk(p) \/ ReadEof(p) \/ ReadFails(p) \/ ReadFailsAsEof(p)
    \/ SkipByte(p) \/ Letter(p) \/ EmitLine(p) \/ BlankLine(p) \/ ForeignChar(p)

Commit(p) ==
    \/ FlushLast(p) \/ NothingToFlush(p)
    \/ Rename(p) \/ RenameFails(p) \/ Unlink(p) \/ UnlinkFails(p)

\* What the process does when the scheduler lets it run.
Step(p) == Prepare(p) \/ Scan(p) \/ Commit(p) \/ Exit(p)

\* Every process has ended: the behaviour may stop here and nowhere else.
AllHalted == (\A p \in Procs : pc[p] \in Halted) /\ UNCHANGED vars

Next == (\E p \in Procs : Step(p) \/ Kill(p)) \/ AllHalted

Spec == Init /\ [][Next]_vars

\* The kernel schedules every process that can run.
FairSpec == Spec /\ \A p \in Procs : WF_vars(Step(p))

-----------------------------------------------------------------------------
(* Properties.                                                             *)

\* The rename of p has succeeded, whether or not p lived to exit.
Published(p) == site[p] = "ok"

\* p has exited with 0, or with 1.
Succeeded(p) == pc[p] = "exited" /\ site[p] = "ok"
Failed(p) == pc[p] = "exited" /\ site[p] # "ok"

\* A program of the language: strict UTF-8 and only accepted characters.
IsProgram(bytes) == IsUtf8(bytes) /\ Accepted(TextOf(bytes))

\* The temporary file a process is working on is still the one its name is
\* bound to: no other run took the name, renamed it away or removed it
\* (O_EXCL, main.rs:664; rename and unlink by name, main.rs:720-722).
OwnsTmp == \A p \in Procs : pc[p] \in Holding => tmp[TmpOf(p)] = p

\* Whoever opens `out` at any moment finds what was there before any run, or
\* the file of a run whose rename has succeeded: never a file being written, of
\* a failed run, or of one that was killed before its rename (main.rs:718-726).
OutIsPublished == out \in {Absent, Before} \cup { p \in Procs : Published(p) }

\* Once a rename has succeeded, `out` shows the file of a run whose rename has:
\* nothing that other runs do, fail to do or are killed at brings back what was
\* there before or takes the name away (main.rs:720-726).
SuccessPublishes ==
    (\E p \in Procs : Published(p)) => \E q \in Procs : Published(q) /\ out = q

\* What a process has read: all of its input unless a read failed.
BytesRead(p) == SubSeq(Input(p), 1, have[p])

\* A run that has published its file, none of whose writes fell short, has
\* written exactly the words that the bytes it has read mean (if they are UTF-8),
\* whatever the chunks they came in and whatever ran beside it; on Unix it has
\* read them all (main.rs:267-306 and 678-715).
OutputIsMeaning ==
    \A p \in Procs : Published(p) =>
        /\ os = "unix" => BytesRead(p) = Input(p)
        /\ ~ lost[p] /\ IsUtf8(BytesRead(p)) =>
             file[p] = Compile(TextOf(BytesRead(p)))

\* The verdict on the input is the language's, but for the known gaps of the
\* decoder: what is published is a program or, if it is not UTF-8, bytes that
\* deviate by overlong, surrogate or cut sequences alone; and no program is
\* refused for a character (main.rs:91-126 and 686-706).
VerdictUpToGaps ==
    \A p \in Procs :
        /\ Published(p) =>
             IF IsUtf8(BytesRead(p)) THEN Accepted(TextOf(BytesRead(p)))
                                     ELSE UpToGaps(BytesRead(p))
        /\ site[p] = "char" => ~ IsProgram(Input(p))

\* Only programs are compiled (spec/ssot.lock.md:32 forbids every other
\* character, and eamen_core/src/lib.rs:90 counts input that is not UTF-8 as
\* invalid).
VerdictIsLanguages == \A p \in Procs : Succeeded(p) => IsProgram(Input(p))

\* The only processes that return and leave their temporary file are those that
\* return from inside the read loop, or whose unlink failed (main.rs:680,
\* 696-702 and 722).
LeftoversComeFromTheLoop ==
    \A k \in Suffixes, p \in Procs :
        tmp[k] = p => site[p] \in {"none", "read", "char", "unlink"}

StaleNames == { k \in Suffixes : tmp[k] = Stale }

\* If open fails only because a name is taken, a run finds all of its names
\* taken only when the left-overs of earlier runs and the other processes
\* together could have taken them all (main.rs:631-671).
GiveUpOnlyWhenCrowded ==
    "open_tmp" \notin Faults =>
        \A p \in Procs : site[p] = "no_tmp" =>
            Cardinality(StaleNames) + Cardinality(Procs \ {p}) >= MaxTries

\* Every process that is scheduled and not killed exits (lock.md:16 promises
\* an exit code for every run).
EveryRunExits == \A p \in Procs : <>(pc[p] \in {"exited", "killed"})

\* The steps a process can still take: names to try, bytes to read and to scan,
\* the commit and the exit.
StepsLeft(p) ==
    LET bytes == (Len(Input(p)) - have[p]) + (Len(Input(p)) - pos[p])
    IN  CASE pc[p] = "start" -> MaxTries + bytes + 7
          [] pc[p] = "tmp" -> (MaxTries - tries[p]) + bytes + 6
          [] pc[p] \in {"read", "scan"} -> bytes + 5
          [] pc[p] = "flush" -> 4
          [] pc[p] = "rename" -> 3
          [] pc[p] = "unlink" -> 2
          [] pc[p] = "exit" -> 1
          [] OTHER -> 0

\* No loop of the program goes on for ever: whatever fails, each step brings one
\* process nearer its end and sets none back, so that a run of n bytes ends in
\* at most MaxTries + 2n + 7 system calls and bytes (the loops of main.rs:629-666
\* and 678-709).  A panicked process takes no more steps.
EveryStepCounts ==
    [][ \E p \in Procs :
          /\ StepsLeft(p)' \in 0..(StepsLeft(p) - 1)
          /\ \A q \in Procs \ {p} : StepsLeft(q)' = StepsLeft(q) ]_vars

\* A run that exits with a failure has left none of its temporary files
\* (spec/ssot.lock.md:131, "On any failure: delete temp if created").
FailureRemovesTmp ==
    \A k \in Suffixes, p \in Procs :
        Failed(p) => tmp[k] # p

\* A run that is given a program and exits with 0 has put all of the program's
\* words in its file (spec/ssot.lock.md:16, success 0 and any failure 1).
SuccessIsComplete ==
    \A p \in Procs :
        Succeeded(p) /\ IsProgram(Input(p)) => file[p] = Compile(TextOf(Input(p)))

-----------------------------------------------------------------------------
(* The runs together keep the promise of AtomicReplace.                    *)

Verdict(p) == CASE Succeeded(p) -> "success"
                [] Failed(p) -> "failure"
                [] pc[p] = "killed" -> "killed"
                [] OTHER -> "none"

Promise == INSTANCE AtomicReplace WITH
    Programs <- { c.in : c \in Commands },
    Initially <- {Absent, Before},
    program <- [p \in Procs |-> cmd[p].in],
    shown <- IF out \in Procs THEN file[out] ELSE out,
    published <- { p \in Procs : Published(p) },
    verdict <- [p \in Procs |-> Verdict(p)]

\* Seen from outside, the processes do nothing but what AtomicReplace allows:
\* `out` changes only when a run publishes, once and before it ends, and then to
\* the whole meaning of that run's program; a run exits with 0 if it has
\* published and with 1 if it has not (main.rs:497-519 and 718-726).
KeepsPromise == Promise!Spec
=============================================================================
