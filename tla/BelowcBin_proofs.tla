--------------------------- MODULE BelowcBin_proofs ---------------------------
(***************************************************************************)
(* What holds of belowc_bin's processes for any number of them, any number *)
(* of temporary names, any inputs and any combination of faults.           *)
(***************************************************************************)
EXTENDS BelowcBin, BelowCode_proofs

-----------------------------------------------------------------------------
(* Type correctness.                                                       *)

LEMMA InitType == Init => TypeOK
<1> SUFFICES ASSUME Init PROVE TypeOK
  OBVIOUS
<1>1. \A p \in Procs : cmd[p].in \in Seq(Byte)
  BY CommandsAssumption DEF Init
<1>2. \A p \in Procs : 0 =< Len(cmd[p].in)
  BY <1>1
<1>3. 0 \in 0..MaxTries
  BY TriesAssumption
<1>4. NewDecoder \in Decoders
  BY DEF NewDecoder, Decoders
<1> QED BY <1>2, <1>3, <1>4 DEF Init, TypeOK, Running, Holding, Sites

LEMMA StepType == TypeOK /\ [Next]_vars => TypeOK'
<1> SUFFICES ASSUME TypeOK, [Next]_vars PROVE TypeOK'
  OBVIOUS
<1> USE DEF TypeOK, Goto, Return, given, scanner, disk, Running, Halted, Holding, Sites
<1>1. ASSUME NEW p \in Procs, Prepare(p) PROVE TypeOK'
  <2>1. CASE RejectArgs(p)
    BY <2>1 DEF RejectArgs
  <2>2. CASE OpenInput(p)
    BY <2>2 DEF OpenInput
  <2>3. CASE OpenInputFails(p)
    BY <2>3 DEF OpenInputFails
  <2>4. CASE PathPanics(p)
    BY <2>4 DEF PathPanics
  <2>5. CASE CreateTmp(p)
    BY <2>5, TriesAssumption DEF CreateTmp, Trying, Suffixes
  <2>6. CASE TmpTaken(p)
    BY <2>6, TriesAssumption DEF TmpTaken, Trying
  <2>7. CASE GiveUp(p)
    BY <2>7 DEF GiveUp
  <2> QED BY <1>1, <2>1, <2>2, <2>3, <2>4, <2>5, <2>6, <2>7 DEF Prepare
<1>2. ASSUME NEW p \in Procs, pc[p] = "scan", pos[p] < have[p]
      PROVE  Decoded(p).dec \in Decoders
  <2>1. Input(p) \in Seq(Byte) /\ pos[p] + 1 \in 1..Len(Input(p))
    BY <1>2, CommandsAssumption DEF Input
  <2> QED BY <2>1, DecodeType DEF Decoded
<1>3. ASSUME NEW f \in Seq(Words \cup {Torn}), NEW w \in Words
      PROVE  Append(f, w) \in Seq(Words \cup {Torn})
  OBVIOUS
<1>4. ASSUME NEW p \in Procs, WriteWord(p)
      PROVE  /\ file' \in [Procs -> Seq(Words \cup {Torn})]
             /\ lost' \in [Procs -> BOOLEAN]
  <2>1. WordOf(acc[p]) \in Words
    BY WordOfType
  <2>2. CASE file' = [file EXCEPT ![p] = Append(@, WordOf(acc[p]))] /\ UNCHANGED lost
    <3>1. Append(file[p], WordOf(acc[p])) \in Seq(Words \cup {Torn})
      BY <1>3, <2>1
    <3> QED BY <2>2, <3>1
  <2>3. CASE /\ \E part \in {<<>>, <<Torn>>} : file' = [file EXCEPT ![p] = @ \o part]
             /\ lost' = [lost EXCEPT ![p] = TRUE]
    <3>1. PICK part \in {<<>>, <<Torn>>} : file' = [file EXCEPT ![p] = @ \o part]
      BY <2>3
    <3>2. part \in Seq(Words \cup {Torn})
      <4>1. Torn \in Words \cup {Torn}
        OBVIOUS
      <4>2. CASE part = <<>>
        BY <4>2
      <4>3. CASE part = <<Torn>>
        BY <4>1, <4>3
      <4> QED BY <4>2, <4>3
    <3>3. file[p] \o part \in Seq(Words \cup {Torn})
      BY <3>2
    <3> QED BY <2>3, <3>1, <3>3
  <2> QED BY <1>4, <2>2, <2>3 DEF WriteWord
<1>5. ASSUME NEW p \in Procs, Scan(p) PROVE TypeOK'
  <2>1. CASE ReadChunk(p)
    BY <2>1, TriesAssumption DEF ReadChunk, Input
  <2>2. CASE ReadEof(p)
    BY <2>2 DEF ReadEof
  <2>3. CASE ReadFails(p)
    BY <2>3 DEF ReadFails
  <2>9. CASE ReadFailsAsEof(p)
    BY <2>9 DEF ReadFailsAsEof
  <2>4. CASE SkipByte(p)
    BY <1>2, <2>4 DEF SkipByte, Scanning, Advance
  <2>5. CASE Letter(p)
    BY <1>2, <2>5, AccumulateType DEF Letter, Scanning, Advance
  <2>6. CASE EmitLine(p)
    BY <1>2, <1>4, <2>6 DEF EmitLine, Scanning, Advance, ResetLine
  <2>7. CASE BlankLine(p)
    BY <1>2, <2>7 DEF BlankLine, Scanning, Advance, ResetLine
  <2>8. CASE ForeignChar(p)
    BY <2>8 DEF ForeignChar
  <2> QED BY <1>5, <2>1, <2>2, <2>3, <2>4, <2>5, <2>6, <2>7, <2>8, <2>9 DEF Scan
<1>6. ASSUME NEW p \in Procs, Commit(p) PROVE TypeOK'
  <2>1. CASE FlushLast(p)
    BY <1>4, <2>1 DEF FlushLast
  <2>2. CASE NothingToFlush(p)
    BY <2>2 DEF NothingToFlush
  <2>3. CASE Rename(p)
    <3>1. tmp[TmpOf(p)] \in Procs \cup {Absent, Stale}
      BY <2>3, TriesAssumption DEF Rename, TmpOf, Suffixes
    <3> QED BY <2>3, <3>1 DEF Rename
  <2>4. CASE RenameFails(p)
    BY <2>4 DEF RenameFails
  <2>5. CASE Unlink(p)
    BY <2>5, TriesAssumption DEF Unlink, TmpOf, Suffixes
  <2>6. CASE UnlinkFails(p)
    BY <2>6 DEF UnlinkFails
  <2> QED BY <1>6, <2>1, <2>2, <2>3, <2>4, <2>5, <2>6 DEF Commit
<1>7. ASSUME NEW p \in Procs, Kill(p) PROVE TypeOK'
  BY <1>7 DEF Kill
<1>8. ASSUME NEW p \in Procs, Exit(p) PROVE TypeOK'
  BY <1>8 DEF Exit
<1>9. CASE UNCHANGED vars
  BY <1>9 DEF vars
<1> QED BY <1>1, <1>5, <1>6, <1>7, <1>8, <1>9 DEF Next, Step, AllHalted

-----------------------------------------------------------------------------
(* Whose the temporary names are.                                          *)

\* Every variable keeps to its type, under any interleaving and any faults.
THEOREM TypeCorrect == Spec => []TypeOK
<1>1. Init => TypeOK
  BY InitType
<1>2. TypeOK /\ [Next]_vars => TypeOK'
  BY StepType
<1> QED BY <1>1, <1>2, PTL DEF Spec

\* A name bound to a process's file is the last one that process tried, and
\* the process is past the loop that tries names.
BoundToTaker ==
    \A k \in Suffixes, p \in Procs :
        tmp[k] = p => pc[p] \notin {"start", "tmp"} /\ TmpOf(p) = k

\* A process has a return site from its return on, and not before.
SiteAtExit ==
    \A p \in Procs : /\ pc[p] \in {"exit", "exited"} => site[p] # "none"
                     /\ pc[p] \notin {"exit", "exited", "killed"} => site[p] = "none"

\* The inductive invariant: an owner is known by its binding (OwnsTmp) and a
\* binding by its owner (BoundToTaker); what rename publishes follows.
IInv ==
    /\ TypeOK
    /\ OwnsTmp
    /\ BoundToTaker
    /\ SiteAtExit
    /\ OutIsPublished
    /\ SuccessPublishes
    /\ LeftoversComeFromTheLoop

LEMMA InitIInv == Init => IInv
<1> SUFFICES ASSUME Init PROVE IInv
  OBVIOUS
<1>1. TypeOK
  BY InitType
<1>2. \A k \in Suffixes : tmp[k] \notin Procs
  BY ProcsAssumption DEF Init
<1>3. out \in {Absent, Before} /\ \A p \in Procs : ~ Published(p)
  BY DEF Init, Published
<1> QED BY <1>1, <1>2, <1>3 DEF Init, IInv, OwnsTmp, BoundToTaker, SiteAtExit,
          OutIsPublished, SuccessPublishes, LeftoversComeFromTheLoop, Holding

\* The name that open creates was free, so no other owner loses its own.
LEMMA CreateTmpBinds ==
    ASSUME IInv, NEW p \in Procs, CreateTmp(p)
    PROVE  OwnsTmp' /\ BoundToTaker'
<1>1. /\ tries[p] \in Suffixes /\ tries'[p] - 1 = tries[p] /\ pc'[p] = "read"
      /\ tmp[tries[p]] = Absent
      /\ tmp' = [tmp EXCEPT ![tries[p]] = p] /\ tmp \in [Suffixes -> Procs \cup {Absent, Stale}]
  BY TriesAssumption DEF IInv, TypeOK, CreateTmp, Trying, Goto, Suffixes
<1>2. \A q \in Procs \ {p} : pc'[q] = pc[q] /\ tries'[q] = tries[q]
  BY DEF IInv, TypeOK, CreateTmp, Goto
<1>3. ASSUME NEW q \in Procs, pc'[q] \in Holding
      PROVE  tmp'[tries'[q] - 1] = q
  <2>1. CASE q = p
    BY <1>1, <2>1
  <2>2. CASE q # p
    <3>1. tmp[tries[q] - 1] = q /\ tries'[q] = tries[q]
      BY <1>2, <1>3, <2>2 DEF IInv, OwnsTmp, TmpOf
    <3>2. tries[q] - 1 \in Suffixes
      BY <1>2, <1>3, <2>2, TriesAssumption DEF IInv, TypeOK, Suffixes
    <3> QED BY <1>1, <3>1, <3>2, ProcsAssumption
  <2> QED BY <2>1, <2>2
<1>4. ASSUME NEW k \in Suffixes, NEW q \in Procs, tmp'[k] = q
      PROVE  pc'[q] \notin {"start", "tmp"} /\ tries'[q] - 1 = k
  <2>1. CASE k = tries[p]
    BY <1>1, <1>4, <2>1
  <2>2. CASE k # tries[p]
    <3>1. tmp[k] = q
      BY <1>1, <1>4, <2>2
    <3>2. pc[q] \notin {"start", "tmp"} /\ tries[q] - 1 = k
      BY <3>1 DEF IInv, BoundToTaker, TmpOf
    <3>3. q # p
      BY <3>2 DEF CreateTmp, Trying
    <3> QED BY <1>2, <3>2, <3>3
  <2> QED BY <2>1, <2>2
<1> QED BY <1>3, <1>4 DEF OwnsTmp, BoundToTaker, TmpOf

\* It makes nobody return and publishes nothing.
LEMMA CreateTmpKeepsSites ==
    ASSUME IInv, NEW p \in Procs, CreateTmp(p)
    PROVE  /\ SiteAtExit' /\ OutIsPublished' /\ SuccessPublishes'
           /\ LeftoversComeFromTheLoop'
<1>1. /\ \A q \in Procs \ {p} : pc'[q] = pc[q]
      /\ pc'[p] = "read" /\ site[p] = "none"
      /\ site' = site /\ out' = out
  BY DEF IInv, TypeOK, SiteAtExit, CreateTmp, Trying, Goto
<1>2. \A k \in Suffixes, q \in Procs : tmp'[k] = q /\ q # p => tmp[k] = q
  BY DEF IInv, TypeOK, CreateTmp
<1>3. SiteAtExit' /\ OutIsPublished' /\ SuccessPublishes'
  BY <1>1 DEF IInv, SiteAtExit, OutIsPublished, SuccessPublishes, Published
<1>4. LeftoversComeFromTheLoop'
  BY <1>1, <1>2 DEF IInv, LeftoversComeFromTheLoop
<1> QED BY <1>3, <1>4

\* A return before the commit publishes nothing and leaves a file only if it may.
LEMMA ReturnKeeps ==
    ASSUME IInv, NEW p \in Procs, NEW s \in {"args", "open_in", "no_tmp", "read", "char"},
           Return(p, s), tries' = tries, out' = out, tmp' = tmp,
           pc[p] \notin {"exit", "exited", "killed"},
           s \in {"read", "char"} \/ pc[p] \in {"start", "tmp"}
    PROVE  /\ OwnsTmp' /\ BoundToTaker' /\ SiteAtExit'
           /\ OutIsPublished' /\ SuccessPublishes' /\ LeftoversComeFromTheLoop'
<1>1. /\ pc' = [pc EXCEPT ![p] = "exit"] /\ site' = [site EXCEPT ![p] = s]
      /\ pc'[p] = "exit" /\ site'[p] = s /\ s # "ok" /\ s # "none" /\ site[p] = "none"
      /\ \A q \in Procs \ {p} : pc'[q] = pc[q] /\ site'[q] = site[q]
  BY DEF Return, Goto, IInv, TypeOK, SiteAtExit
<1>2. OwnsTmp' /\ BoundToTaker' /\ SiteAtExit'
  BY <1>1 DEF IInv, OwnsTmp, BoundToTaker, SiteAtExit, TmpOf, Holding
<1>3. \A q \in Procs : Published(q)' <=> Published(q)
  BY <1>1 DEF Published
<1>4. OutIsPublished'
  BY <1>3 DEF IInv, OutIsPublished
<1>5. SuccessPublishes'
  BY <1>3 DEF IInv, SuccessPublishes
<1>6. LeftoversComeFromTheLoop'
  BY <1>1 DEF IInv, LeftoversComeFromTheLoop, BoundToTaker
<1> QED BY <1>2, <1>4, <1>5, <1>6

\* unlink takes away the name of the run that calls it and no other's.
LEMMA UnlinkKeeps ==
    ASSUME IInv, NEW p \in Procs, Unlink(p)
    PROVE  /\ OwnsTmp' /\ BoundToTaker' /\ SiteAtExit'
           /\ OutIsPublished' /\ SuccessPublishes' /\ LeftoversComeFromTheLoop'
<1>1. /\ tmp \in [Suffixes -> Procs \cup {Absent, Stale}]
      /\ tmp' = [tmp EXCEPT ![TmpOf(p)] = Absent] /\ tmp[TmpOf(p)] = p
      /\ pc[p] = "unlink" /\ pc'[p] = "exit" /\ site'[p] = "rename" /\ site[p] = "none"
      /\ tries' = tries /\ out' = out
      /\ \A q \in Procs \ {p} : pc'[q] = pc[q] /\ site'[q] = site[q]
  BY DEF IInv, TypeOK, OwnsTmp, SiteAtExit, Unlink, Return, Goto, Holding, scanner
<1>2. ASSUME NEW q \in Procs, pc'[q] \in Holding PROVE tmp'[TmpOf(q)] = q
  <2>1. q # p /\ tmp[TmpOf(q)] = q
    BY <1>1, <1>2 DEF IInv, OwnsTmp, Holding
  <2>2. TmpOf(q) # TmpOf(p)
    BY <1>1, <2>1
  <2>3. TmpOf(q) \in Suffixes
    BY <1>1, <1>2, <2>1, TriesAssumption
       DEF IInv, TypeOK, TmpOf, Suffixes, Holding
  <2> QED BY <1>1, <2>1, <2>2, <2>3
<1>3. \A k \in Suffixes, q \in Procs : tmp'[k] = q => tmp[k] = q /\ q # p
  <2> SUFFICES ASSUME NEW k \in Suffixes, NEW q \in Procs, tmp'[k] = q
               PROVE  tmp[k] = q /\ q # p
    OBVIOUS
  <2>1. k # TmpOf(p) /\ tmp[k] = q
    BY <1>1, ProcsAssumption
  <2>2. tmp[k] = p => TmpOf(p) = k
    BY DEF IInv, BoundToTaker
  <2> QED BY <2>1, <2>2
<1>4. OwnsTmp' /\ BoundToTaker' /\ SiteAtExit'
  BY <1>1, <1>2, <1>3 DEF IInv, OwnsTmp, BoundToTaker, SiteAtExit, TmpOf
<1>5. \A q \in Procs : Published(q)' <=> Published(q)
  BY <1>1 DEF Published
<1>6. OutIsPublished' /\ SuccessPublishes'
  BY <1>1, <1>5 DEF IInv, OutIsPublished, SuccessPublishes
<1>7. LeftoversComeFromTheLoop'
  BY <1>1, <1>3 DEF IInv, LeftoversComeFromTheLoop
<1> QED BY <1>4, <1>6, <1>7

LEMMA StepIInv == IInv /\ [Next]_vars => IInv'
<1> SUFFICES ASSUME IInv, [Next]_vars PROVE IInv'
  OBVIOUS
<1>1. TypeOK /\ TypeOK'
  BY StepType DEF IInv
<1>2. ASSUME NEW p \in Procs, CreateTmp(p)
      PROVE  /\ OwnsTmp' /\ BoundToTaker' /\ SiteAtExit'
             /\ OutIsPublished' /\ SuccessPublishes'
             /\ LeftoversComeFromTheLoop'
  BY <1>2, CreateTmpBinds, CreateTmpKeepsSites
<1>9. ASSUME NEW p \in Procs,
             \/ RejectArgs(p) \/ OpenInputFails(p) \/ GiveUp(p)
             \/ ReadFails(p) \/ ForeignChar(p)
      PROVE  /\ OwnsTmp' /\ BoundToTaker' /\ SiteAtExit'
             /\ OutIsPublished' /\ SuccessPublishes'
             /\ LeftoversComeFromTheLoop'
  <2>1. \E s \in {"args", "open_in", "no_tmp", "read", "char"} :
           Return(p, s) /\ (s \in {"read", "char"} \/ pc[p] \in {"start", "tmp"})
    BY <1>9 DEF RejectArgs, OpenInputFails, GiveUp, ReadFails, ForeignChar
  <2>2. /\ tries' = tries /\ out' = out /\ tmp' = tmp
        /\ pc[p] \notin {"exit", "exited", "killed"}
    BY <1>9 DEF RejectArgs, OpenInputFails, GiveUp, ReadFails, ForeignChar, Scanning, disk
  <2> QED BY <2>1, <2>2, ReturnKeeps
<1> DEFINE Rest == /\ OwnsTmp /\ BoundToTaker /\ SiteAtExit
                   /\ OutIsPublished /\ SuccessPublishes
                   /\ LeftoversComeFromTheLoop
<1> USE DEF IInv, TypeOK, OwnsTmp, BoundToTaker, SiteAtExit, OutIsPublished,
            SuccessPublishes, LeftoversComeFromTheLoop, Published, Goto, Return,
            Holding, TmpOf, given, scanner, disk
<1>3. ASSUME NEW p \in Procs, Prepare(p) PROVE Rest'
  <2>1. CASE RejectArgs(p)
    BY <1>9, <2>1
  <2>2. CASE OpenInput(p)
    BY <1>1, <2>2, ProcsAssumption, FilesAssumption DEF OpenInput
  <2>3. CASE OpenInputFails(p)
    BY <1>9, <2>3
  <2>4. CASE PathPanics(p)
    BY <1>1, <2>4, ProcsAssumption, FilesAssumption DEF PathPanics, Trying
  <2>5. CASE CreateTmp(p)
    BY <1>2, <2>5
  <2>6. CASE TmpTaken(p)
    BY <1>1, <2>6, ProcsAssumption, FilesAssumption DEF TmpTaken, Trying
  <2>7. CASE GiveUp(p)
    BY <1>9, <2>7
  <2> QED BY <1>3, <2>1, <2>2, <2>3, <2>4, <2>5, <2>6, <2>7 DEF Prepare
<1>4. ASSUME NEW p \in Procs, Scan(p) PROVE Rest'
  <2>1. CASE ReadChunk(p)
    BY <1>1, <2>1, ProcsAssumption, FilesAssumption DEF ReadChunk
  <2>2. CASE ReadEof(p)
    BY <1>1, <2>2, ProcsAssumption, FilesAssumption DEF ReadEof
  <2>3. CASE ReadFails(p)
    BY <1>9, <2>3
  <2>9. CASE ReadFailsAsEof(p)
    BY <1>1, <2>9, ProcsAssumption, FilesAssumption DEF ReadFailsAsEof
  <2>4. CASE SkipByte(p)
    BY <1>1, <2>4, ProcsAssumption, FilesAssumption DEF SkipByte, Scanning, Advance
  <2>5. CASE Letter(p)
    BY <1>1, <2>5, ProcsAssumption, FilesAssumption DEF Letter, Scanning, Advance
  <2>6. CASE EmitLine(p)
    BY <1>1, <2>6, ProcsAssumption, FilesAssumption DEF EmitLine, Scanning, Advance
  <2>7. CASE BlankLine(p)
    BY <1>1, <2>7, ProcsAssumption, FilesAssumption DEF BlankLine, Scanning, Advance
  <2>8. CASE ForeignChar(p)
    BY <1>9, <2>8
  <2> QED BY <1>4, <2>1, <2>2, <2>3, <2>4, <2>5, <2>6, <2>7, <2>8, <2>9 DEF Scan
<1>5. ASSUME NEW p \in Procs, Commit(p) PROVE Rest'
  <2>1. CASE FlushLast(p)
    BY <1>1, <2>1, ProcsAssumption, FilesAssumption DEF FlushLast
  <2>2. CASE NothingToFlush(p)
    BY <1>1, <2>2, ProcsAssumption, FilesAssumption DEF NothingToFlush
  <2>3. CASE Rename(p)
    BY <1>1, <2>3, ProcsAssumption, FilesAssumption DEF Rename
  <2>4. CASE RenameFails(p)
    BY <1>1, <2>4, ProcsAssumption, FilesAssumption DEF RenameFails
  <2>5. CASE Unlink(p)
    BY <2>5, UnlinkKeeps
  <2>6. CASE UnlinkFails(p)
    BY <1>1, <2>6, ProcsAssumption, FilesAssumption DEF UnlinkFails
  <2> QED BY <1>5, <2>1, <2>2, <2>3, <2>4, <2>5, <2>6 DEF Commit
<1>6. ASSUME NEW p \in Procs, Kill(p) PROVE Rest'
  BY <1>1, <1>6 DEF Kill, Running
<1>7. ASSUME NEW p \in Procs, Exit(p) PROVE Rest'
  BY <1>1, <1>7 DEF Exit
<1>8. CASE UNCHANGED vars
  BY <1>8 DEF vars
<1> QED BY <1>1, <1>3, <1>4, <1>5, <1>6, <1>7, <1>8 DEF Next, Step, AllHalted

\* The inductive invariant that the safety theorems rest on.
THEOREM Invariance == Spec => []IInv
<1>1. Init => IInv
  BY InitIInv
<1>2. IInv /\ [Next]_vars => IInv'
  BY StepIInv
<1> QED BY <1>1, <1>2, PTL DEF Spec

\* While a run works on its temporary file, the file's name is bound to that
\* very file: no other run can take, replace, publish or remove it.
THEOREM TmpIsExclusive == Spec => []OwnsTmp
<1>1. IInv => OwnsTmp
  BY DEF IInv
<1> QED BY <1>1, Invariance, PTL

\* `out` never shows a file that is still being written, or one of a run whose
\* rename did not succeed (main.rs:718-726).
THEOREM OutIsAtomic == Spec => []OutIsPublished
<1>1. IInv => OutIsPublished
  BY DEF IInv
<1> QED BY <1>1, Invariance, PTL

\* After the first rename, `out` shows a file that a rename put there for good
\* (main.rs:720-726).
THEOREM SuccessStays == Spec => []SuccessPublishes
<1>1. IInv => SuccessPublishes
  BY DEF IInv
<1> QED BY <1>1, Invariance, PTL

\* A run that returns leaves its temporary file only by the returns inside
\* the read loop, or because unlink failed.
THEOREM LeftoversExplained == Spec => []LeftoversComeFromTheLoop
<1>1. IInv => LeftoversComeFromTheLoop
  BY DEF IInv
<1> QED BY <1>1, Invariance, PTL

-----------------------------------------------------------------------------
(* When a run finds no temporary name.                                     *)

\* Something other than p holds the k-th name: an earlier run's left-over, or
\* a process for which it was the last name it tried.  Unlike `the name is
\* bound', this stays true when that process renames its file away.
Blocked(p, k) ==
    \/ tmp[k] = Stale
    \/ \E q \in Procs \ {p} : pc[q] \notin {"start", "tmp"} /\ TmpOf(q) = k

\* All the names a process has tried in vain are blocked.
TriedNamesBlocked ==
    \A p \in Procs : pc[p] = "tmp" \/ site[p] = "no_tmp" =>
        \A k \in Suffixes : k < tries[p] => Blocked(p, k)

\* Before the loop nothing has been tried; a run that gave up has tried all.
TriesAtEnds ==
    \A p \in Procs : /\ pc[p] = "start" => tries[p] = 0
                     /\ site[p] = "no_tmp" => tries[p] = MaxTries

CrowdInv == TriesAtEnds /\ TriedNamesBlocked

\* What is blocked for p stays blocked: a left-over is never removed and a
\* process past the loop never tries another name.
LEMMA BlockedStays ==
    ASSUME IInv, Next, NEW p \in Procs, NEW k \in Suffixes, Blocked(p, k)
    PROVE  Blocked(p, k)'
<1> USE DEF IInv, TypeOK, Goto, Return, TmpOf, given, scanner, disk
<1>1. CASE tmp[k] = Stale
  <2>1. ASSUME NEW q \in Procs, Prepare(q) PROVE tmp'[k] = Stale
    <3>1. CASE CreateTmp(q)
      <4>1. k # tries[q]
        BY <1>1, <3>1, FilesAssumption DEF CreateTmp
      <4> QED BY <1>1, <3>1, <4>1 DEF CreateTmp
    <3>2. CASE ~ CreateTmp(q)
      BY <1>1, <2>1, <3>2 DEF Prepare, RejectArgs, OpenInput,
         OpenInputFails, PathPanics, TmpTaken, GiveUp
    <3> QED BY <3>1, <3>2
  <2>2. ASSUME NEW q \in Procs, Scan(q) PROVE tmp'[k] = Stale
    BY <1>1, <2>2 DEF Scan, ReadChunk, ReadEof, ReadFails, ReadFailsAsEof, SkipByte, Letter,
         EmitLine, BlankLine, ForeignChar
  <2>3. ASSUME NEW q \in Procs, Commit(q) PROVE tmp'[k] = Stale
    <3>1. pc[q] \in Holding => tmp[TmpOf(q)] # Stale
      BY ProcsAssumption DEF OwnsTmp
    <3>2. CASE Rename(q) \/ Unlink(q)
      <4>1. k # TmpOf(q)
        BY <1>1, <3>1, <3>2 DEF Rename, Unlink, Holding
      <4> QED BY <1>1, <3>2, <4>1 DEF Rename, Unlink
    <3>3. CASE ~ (Rename(q) \/ Unlink(q))
      BY <1>1, <2>3, <3>3 DEF Commit, FlushLast, NothingToFlush, RenameFails,
         UnlinkFails
    <3> QED BY <3>2, <3>3
  <2>4. ASSUME NEW q \in Procs, Kill(q) \/ Exit(q) PROVE tmp'[k] = Stale
    BY <1>1, <2>4 DEF Kill, Exit
  <2>5. ASSUME UNCHANGED vars PROVE tmp'[k] = Stale
    BY <1>1, <2>5 DEF vars
  <2>6. tmp'[k] = Stale
    BY <2>1, <2>2, <2>3, <2>4, <2>5 DEF Next, Step, AllHalted
  <2> QED BY <2>6 DEF Blocked
<1>2. ASSUME NEW q \in Procs \ {p}, pc[q] \notin {"start", "tmp"}
      PROVE  pc'[q] \notin {"start", "tmp"} /\ tries'[q] = tries[q]
  <2>1. ASSUME NEW r \in Procs, Prepare(r)
        PROVE  pc'[q] \notin {"start", "tmp"} /\ tries'[q] = tries[q]
    BY <1>2, <2>1 DEF Prepare, RejectArgs, OpenInput, OpenInputFails,
         PathPanics, CreateTmp, TmpTaken, GiveUp, Trying
  <2>2. ASSUME NEW r \in Procs, Scan(r)
        PROVE  pc'[q] \notin {"start", "tmp"} /\ tries'[q] = tries[q]
    BY <1>2, <2>2 DEF Scan, ReadChunk, ReadEof, ReadFails, ReadFailsAsEof, SkipByte, Letter,
         EmitLine, BlankLine, ForeignChar, Advance
  <2>3. ASSUME NEW r \in Procs, Commit(r)
        PROVE  pc'[q] \notin {"start", "tmp"} /\ tries'[q] = tries[q]
    BY <1>2, <2>3 DEF Commit, FlushLast, NothingToFlush, Rename, RenameFails,
         Unlink, UnlinkFails
  <2>4. ASSUME NEW r \in Procs, Kill(r) \/ Exit(r)
        PROVE  pc'[q] \notin {"start", "tmp"} /\ tries'[q] = tries[q]
    BY <1>2, <2>4 DEF Kill, Exit
  <2>5. ASSUME UNCHANGED vars
        PROVE  pc'[q] \notin {"start", "tmp"} /\ tries'[q] = tries[q]
    BY <1>2, <2>5 DEF vars
  <2> QED BY <2>1, <2>2, <2>3, <2>4, <2>5 DEF Next, Step, AllHalted
<1> QED BY <1>1, <1>2 DEF Blocked

\* A step of p that leaves it among the processes CrowdInv speaks of.
LEMMA OwnStepCrowd ==
    ASSUME IInv, CrowdInv, "open_tmp" \notin Faults,
           NEW p \in Procs, Step(p) \/ Kill(p),
           pc'[p] = "tmp" \/ site'[p] = "no_tmp",
           NEW k \in Suffixes, k < tries'[p]
    PROVE  Blocked(p, k)
<1> USE DEF IInv, TypeOK, Goto, Return, given, scanner, disk
<1>1. Kill(p) \/ Exit(p) \/ OpenInput(p) \/ TmpTaken(p) \/ GiveUp(p)
  <2>1. CASE Prepare(p)
    <3>1. site[p] = "none"
      BY <2>1 DEF SiteAtExit, Prepare, RejectArgs, OpenInput, OpenInputFails, PathPanics,
         CreateTmp, TmpTaken, GiveUp, Trying
    <3> QED BY <2>1, <3>1 DEF Prepare, RejectArgs, OpenInputFails, PathPanics, CreateTmp
  <2>2. CASE Scan(p)
    <3>1. site[p] = "none"
      BY <2>2 DEF SiteAtExit, Scan, ReadChunk, ReadEof, ReadFails, ReadFailsAsEof,
         SkipByte, Letter, EmitLine, BlankLine, ForeignChar, Scanning
    <3> QED BY <2>2, <3>1 DEF Scan, ReadChunk, ReadEof, ReadFails, ReadFailsAsEof, SkipByte,
         Letter, EmitLine, BlankLine, ForeignChar, Advance
  <2>3. CASE Commit(p)
    <3>1. site[p] = "none"
      BY <2>3 DEF SiteAtExit, Commit, FlushLast, NothingToFlush, Rename, RenameFails,
         Unlink, UnlinkFails
    <3> QED BY <2>3, <3>1 DEF Commit, FlushLast, NothingToFlush, Rename, RenameFails,
         Unlink, UnlinkFails
  <2> QED BY <2>1, <2>2, <2>3 DEF Step
<1>5. CASE Kill(p) \/ Exit(p)
  <2>1. site[p] = "no_tmp" /\ tries'[p] = tries[p]
    BY <1>5 DEF Kill, Exit
  <2> QED BY <2>1 DEF CrowdInv, TriedNamesBlocked
<1>2. CASE OpenInput(p)
  BY <1>2 DEF OpenInput, CrowdInv, TriesAtEnds, Suffixes
<1>3. CASE GiveUp(p)
  BY <1>3 DEF GiveUp, CrowdInv, TriedNamesBlocked
<1>4. CASE TmpTaken(p)
  <2>1. CASE k < tries[p]
    BY <1>4, <2>1 DEF TmpTaken, Trying, CrowdInv, TriedNamesBlocked
  <2>2. CASE ~ (k < tries[p])
    <3>1. k = tries[p] /\ tmp[k] # Absent
      BY <1>4, <2>2 DEF TmpTaken, Trying, Suffixes
    <3>2. CASE tmp[k] = Stale
      BY <3>2 DEF Blocked
    <3>3. CASE tmp[k] \in Procs
      <4>1. PICK q \in Procs : tmp[k] = q
        BY <3>3
      <4>2. pc[q] \notin {"start", "tmp"} /\ TmpOf(q) = k
        BY <4>1 DEF BoundToTaker
      <4>3. q # p
        BY <1>4, <4>2 DEF TmpTaken, Trying
      <4> QED BY <4>2, <4>3 DEF Blocked
    <3> QED BY <3>1, <3>2, <3>3
  <2> QED BY <2>1, <2>2
<1> QED BY <1>1, <1>2, <1>3, <1>4, <1>5

\* A step of another process leaves p where it is.
LEMMA OthersStep ==
    ASSUME TypeOK, NEW p \in Procs, NEW q \in Procs, q # p, Step(q) \/ Kill(q)
    PROVE  pc'[p] = pc[p] /\ tries'[p] = tries[p] /\ site'[p] = site[p]
<1> USE DEF TypeOK, Goto, Return, given, scanner, disk
<1>1. CASE Kill(q) \/ Exit(q)
  BY <1>1 DEF Kill, Exit
<1>2. CASE Prepare(q)
  BY <1>2 DEF Prepare, RejectArgs, OpenInput, OpenInputFails, PathPanics,
     CreateTmp, TmpTaken, GiveUp
<1>3. CASE Scan(q)
  BY <1>3 DEF Scan, ReadChunk, ReadEof, ReadFails, ReadFailsAsEof, SkipByte, Letter, EmitLine,
     BlankLine, ForeignChar, Advance
<1>4. CASE Commit(q)
  BY <1>4 DEF Commit, FlushLast, NothingToFlush, Rename, RenameFails, Unlink,
     UnlinkFails
<1> QED BY <1>1, <1>2, <1>3, <1>4 DEF Step

\* No step of p takes it back to the start, and giving up takes all the tries.
LEMMA OwnStepTries ==
    ASSUME IInv, TriesAtEnds, NEW p \in Procs, Step(p) \/ Kill(p)
    PROVE  /\ pc'[p] # "start"
           /\ site'[p] = "no_tmp" => tries'[p] = MaxTries
<1> USE DEF IInv, TypeOK, SiteAtExit, TriesAtEnds, Goto, Return, given, scanner,
            disk
<1>1. CASE Kill(p) \/ Exit(p)
  BY <1>1 DEF Kill, Exit, Running
<1>2. CASE Prepare(p)
  BY <1>2 DEF Prepare, RejectArgs, OpenInput, OpenInputFails, PathPanics,
     CreateTmp, TmpTaken, GiveUp, Trying
<1>3. CASE Scan(p)
  BY <1>3 DEF Scan, ReadChunk, ReadEof, ReadFails, ReadFailsAsEof, SkipByte, Letter, EmitLine,
     BlankLine, ForeignChar, Advance, Scanning
<1>4. CASE Commit(p)
  BY <1>4 DEF Commit, FlushLast, NothingToFlush, Rename, RenameFails, Unlink,
     UnlinkFails
<1> QED BY <1>1, <1>2, <1>3, <1>4 DEF Step

LEMMA StepCrowd ==
    ASSUME "open_tmp" \notin Faults, IInv, CrowdInv, [Next]_vars
    PROVE  CrowdInv'
<1>1. CASE UNCHANGED vars
  BY <1>1 DEF vars, CrowdInv, TriesAtEnds, TriedNamesBlocked, Blocked, TmpOf,
     disk, given
<1>2. CASE Next /\ ~ UNCHANGED vars
  <2>1. PICK q \in Procs : Step(q) \/ Kill(q)
    BY <1>2 DEF Next, AllHalted
  <2>2. TypeOK
    BY DEF IInv
  <2>3. ASSUME NEW p \in Procs
        PROVE  /\ pc'[p] = "start" => tries'[p] = 0
               /\ site'[p] = "no_tmp" => tries'[p] = MaxTries
    <3>1. CASE p = q
      BY <2>1, <3>1, OwnStepTries DEF CrowdInv
    <3>2. CASE p # q
      BY <2>1, <2>2, <3>2, OthersStep DEF CrowdInv, TriesAtEnds
    <3> QED BY <3>1, <3>2
  <2>4. ASSUME NEW p \in Procs, pc'[p] = "tmp" \/ site'[p] = "no_tmp",
               NEW k \in Suffixes, k < tries'[p]
        PROVE  Blocked(p, k)'
    <3>1. Blocked(p, k)
      <4>1. CASE p = q
        BY <2>1, <2>4, <4>1, OwnStepCrowd
      <4>2. CASE p # q
        BY <2>1, <2>2, <2>4, <4>2, OthersStep DEF CrowdInv, TriedNamesBlocked
      <4> QED BY <4>1, <4>2
    <3> QED BY <1>2, <3>1, BlockedStays
  <2>5. TriesAtEnds'
    BY <2>3 DEF TriesAtEnds
  <2>6. TriedNamesBlocked'
    BY <2>4 DEF TriedNamesBlocked
  <2> QED BY <2>5, <2>6 DEF CrowdInv
<1> QED BY <1>1, <1>2

\* As many names as a process that gave up has tried in vain need as many
\* left-overs and other processes: every name has one of its own.
LEMMA CrowdCount ==
    ASSUME IInv, CrowdInv, NEW p \in Procs, site[p] = "no_tmp"
    PROVE  Cardinality(StaleNames) + Cardinality(Procs \ {p}) >= MaxTries
<1> DEFINE Others == Procs \ {p}
           Taken == Suffixes \ StaleNames
           taker == [k \in Taken |-> CHOOSE q \in Others : TmpOf(q) = k]
<1>1. \A k \in Taken : \E q \in Others : TmpOf(q) = k
  <2>1. \A k \in Suffixes : k < tries[p]
    BY TriesAssumption DEF CrowdInv, TriesAtEnds, Suffixes
  <2>2. \A k \in Suffixes : Blocked(p, k)
    BY <2>1 DEF CrowdInv, TriedNamesBlocked
  <2> QED BY <2>2 DEF Blocked, StaleNames
<1>2. taker \in [Taken -> Others] /\ \A k \in Taken : TmpOf(taker[k]) = k
  BY <1>1
<1>3. taker \in Injection(Taken, Others)
  BY <1>2 DEF Injection, IsInjective
<1>4. IsFiniteSet(Others)
  BY ProcsAssumption, FS_Subset
<1>5. IsFiniteSet(Taken) /\ Cardinality(Taken) =< Cardinality(Others)
  BY <1>3, <1>4, FS_Injection
<1>6. IsFiniteSet(Suffixes) /\ Cardinality(Suffixes) = MaxTries
  BY TriesAssumption, FS_Interval DEF Suffixes
<1>7. IsFiniteSet(StaleNames) /\ StaleNames \subseteq Suffixes
  BY <1>6, FS_Subset DEF StaleNames
<1>8. Cardinality(Taken) = Cardinality(Suffixes) - Cardinality(StaleNames)
  <2>1. Suffixes \cap StaleNames = StaleNames
    BY <1>7
  <2> QED BY <1>6, <1>7, <2>1, FS_Difference
<1>9. /\ Cardinality(StaleNames) \in Nat /\ Cardinality(Others) \in Nat
      /\ Cardinality(Taken) \in Nat
  BY <1>4, <1>5, <1>7, FS_CardinalityType
<1> QED BY <1>5, <1>6, <1>8, <1>9, TriesAssumption

\* A run gives up the search for a temporary name only when left-overs and
\* other processes could hold all of them, whatever the number of names.
THEOREM GivesUpOnlyWhenCrowded == Spec => []GiveUpOnlyWhenCrowded
<1>1. CASE "open_tmp" \in Faults
  <2>1. GiveUpOnlyWhenCrowded
    BY <1>1 DEF GiveUpOnlyWhenCrowded
  <2> QED BY <2>1, PTL
<1>2. CASE "open_tmp" \notin Faults
  <2>1. Init => IInv /\ CrowdInv
    <3>1. Init => CrowdInv
      BY DEF Init, CrowdInv, TriesAtEnds, TriedNamesBlocked, Suffixes
    <3> QED BY <3>1, InitIInv
  <2>2. IInv /\ CrowdInv /\ [Next]_vars => (IInv /\ CrowdInv)'
    BY <1>2, StepIInv, StepCrowd
  <2>3. IInv /\ CrowdInv => GiveUpOnlyWhenCrowded
    BY CrowdCount DEF GiveUpOnlyWhenCrowded
  <2> QED BY <2>1, <2>2, <2>3, PTL DEF Spec
<1> QED BY <1>1, <1>2

-----------------------------------------------------------------------------
(* A text that grows by one character at a time.                           *)

\* What the scan knows of its line and has written, after the text t.
LineInv(t, a, v) ==
    /\ Accepted(t)
    /\ a = LineAcc(t, Len(t) + 1)
    /\ v <=> LettersBefore(t, Len(t) + 1) # {}

Written(t, words) ==
    words \in Seq(Words) /\ AreWordsOf(words, t, Ended(t, Len(t)))

\* The empty text.
LEMMA EmptyText == LineInv(<<>>, 0, FALSE) /\ Written(<<>>, <<>>)
<1> SUFFICES ASSUME NEW e, e = <<>>
             PROVE  LineInv(e, 0, FALSE) /\ Written(e, e)
  OBVIOUS
<1>1. e \in Seq(Nat) /\ Len(e) = 0 /\ e \in Seq(Words) /\ DOMAIN e = {}
  OBVIOUS
<1>2. LettersBefore(e, 1) = {}
  BY <1>1, NoLettersAtFirst
<1>3. LineAcc(e, 1) = 0
  BY <1>2, LineAccEmpty
<1>4. Ended(e, 0) = {}
  <2>1. 0 \in Nat
    OBVIOUS
  <2>2. Ended(e, 0) \subseteq 1..0
    BY <1>1, <2>1, EndedFinite
  <2> QED BY <2>2
<1>5. AreWordsOf(e, e, {})
  <2>1. Cardinality({}) = 0
    BY FS_EmptySet
  <2> QED BY <1>1, <2>1 DEF AreWordsOf
<1>6. LineInv(e, 0, FALSE)
  BY <1>1, <1>2, <1>3 DEF LineInv, Accepted
<1>7. Written(e, e)
  BY <1>1, <1>4, <1>5 DEF Written
<1> QED BY <1>6, <1>7

\* A character more changes nothing of what ends before it.
LEMMA AppendKeeps ==
    ASSUME NEW t \in Seq(Nat), NEW c \in Nat
    PROVE  LET u == Append(t, c)
           IN  /\ u \in Seq(Nat) /\ Len(u) = Len(t) + 1 /\ Len(t) \in Nat
               /\ u[Len(u)] = c /\ \A i \in 1..Len(t) : u[i] = t[i]
               /\ \A e \in 1..(Len(t) + 1) : /\ LettersBefore(u, e) = LettersBefore(t, e)
                                             /\ LineAcc(u, e) = LineAcc(t, e)
               /\ Ended(u, Len(t)) = Ended(t, Len(t))
               /\ \A words : AreWordsOf(words, t, Ended(t, Len(t))) =>
                               AreWordsOf(words, u, Ended(t, Len(t)))
<1> DEFINE u == Append(t, c)
           n == Len(t)
<1>1. /\ u \in Seq(Nat) /\ Len(u) = n + 1 /\ n \in Nat
      /\ u[n + 1] = c /\ \A i \in 1..n : u[i] = t[i]
  OBVIOUS
<1> HIDE DEF u, n
<1>2. ASSUME NEW e \in 1..(n + 1)
      PROVE  LettersBefore(u, e) = LettersBefore(t, e) /\ LineAcc(u, e) = LineAcc(t, e)
  <2>1. \A i \in 1..(e - 1) : i \in 1..n /\ u[i] = t[i]
    BY <1>1
  <2>2. \A i \in 1..(e - 1) : \A j \in i..(e - 1) : j \in 1..(e - 1)
    OBVIOUS
  <2>3. LettersBefore(u, e) = LettersBefore(t, e)
    BY <2>1, <2>2 DEF LettersBefore
  <2>4. \A i \in LettersBefore(t, e) : u[i] = t[i]
    BY <2>1 DEF LettersBefore
  <2>5. \A w : (\E i \in LettersBefore(u, e) : HasBit(StateOf(u[i]), w))
                 <=> (\E i \in LettersBefore(t, e) : HasBit(StateOf(t[i]), w))
    BY <2>3, <2>4
  <2>6. LineAcc(u, e) = LineAcc(t, e)
    BY <2>5 DEF LineAcc
  <2> QED BY <2>3, <2>6
<1>3. Ended(u, n) = Ended(t, n)
  <2>1. \A e : e \in Ended(u, n) <=> e \in 1..n /\ u[e] = LF /\ LettersBefore(u, e) # {}
    BY <1>1 DEF Ended, LineEnds
  <2>2. \A e : e \in Ended(t, n) <=> e \in 1..n /\ t[e] = LF /\ LettersBefore(t, e) # {}
    BY <1>1 DEF Ended, LineEnds, n
  <2>3. \A e \in 1..n : e \in 1..(n + 1)
    BY <1>1
  <2>4. \A e : e \in Ended(u, n) <=> e \in Ended(t, n)
    BY <1>1, <1>2, <2>1, <2>2, <2>3
  <2> QED BY <2>4
<1>4. \A e \in Ended(t, n) : LineAcc(u, e) = LineAcc(t, e)
  <2>1. Ended(t, n) \subseteq 1..n
    BY <1>1, EndedFinite
  <2> QED BY <1>1, <1>2, <2>1
<1>5. \A words : AreWordsOf(words, t, Ended(t, n)) => AreWordsOf(words, u, Ended(t, n))
  BY <1>4 DEF AreWordsOf
<1> QED BY <1>1, <1>2, <1>3, <1>5 DEF u, n

\* White space.
LEMMA TakeSkipped ==
    ASSUME NEW t \in Seq(Nat), NEW c \in Nat, NEW a, NEW v, LineInv(t, a, v),
           c \in Skipped
    PROVE  /\ LineInv(Append(t, c), a, v)
           /\ \A words : Written(t, words) => Written(Append(t, c), words)
<1> DEFINE u == Append(t, c)
           n == Len(t)
<1>1. /\ u \in Seq(Nat) /\ Len(u) = n + 1 /\ n \in Nat /\ u[n + 1] = c
      /\ \A i \in 1..n : u[i] = t[i]
      /\ LettersBefore(u, n + 1) = LettersBefore(t, n + 1)
      /\ LineAcc(u, n + 1) = LineAcc(t, n + 1)
      /\ Ended(u, n) = Ended(t, n)
      /\ \A words : AreWordsOf(words, t, Ended(t, n)) => AreWordsOf(words, u, Ended(t, n))
  <2>1. n + 1 \in 1..(n + 1)
    OBVIOUS
  <2> QED BY <2>1, AppendKeeps
<1> HIDE DEF u
<1>2. n + 1 \in 1..Len(u)
  BY <1>1
<1>3. LettersBefore(u, n + 1 + 1) = LettersBefore(u, n + 1)
  BY <1>1, <1>2, LettersAfterSkipped
<1>4. LineAcc(u, n + 1 + 1) = LineAcc(u, n + 1)
  BY <1>1, <1>2, LineAccAfterSkipped
<1>5. Ended(u, n + 1) = Ended(u, n)
  <2>1. u[n + 1] # LF
    BY <1>1, SkippedIsNoLF
  <2>2. Ended(u, n + 1) = Ended(u, n + 1 - 1)
    BY <1>1, <1>2, <2>1, EndedElsewhere
  <2> QED BY <1>1, <2>2
<1>6. Accepted(u)
  BY <1>1 DEF LineInv, Accepted
<1>7. LineInv(u, a, v)
  BY <1>1, <1>3, <1>4, <1>6 DEF LineInv
<1> QED BY <1>1, <1>5, <1>7 DEF Written, u

\* A letter.
LEMMA TakeLetter ==
    ASSUME NEW t \in Seq(Nat), NEW c \in Nat, NEW a, NEW v, LineInv(t, a, v), IsLetter(c)
    PROVE  /\ LineInv(Append(t, c), Accumulate(a, StateOf(c)), TRUE)
           /\ \A words : Written(t, words) => Written(Append(t, c), words)
<1> DEFINE u == Append(t, c)
           n == Len(t)
<1>1. /\ u \in Seq(Nat) /\ Len(u) = n + 1 /\ n \in Nat /\ u[n + 1] = c
      /\ \A i \in 1..n : u[i] = t[i]
      /\ LettersBefore(u, n + 1) = LettersBefore(t, n + 1)
      /\ LineAcc(u, n + 1) = LineAcc(t, n + 1)
      /\ Ended(u, n) = Ended(t, n)
      /\ \A words : AreWordsOf(words, t, Ended(t, n)) => AreWordsOf(words, u, Ended(t, n))
  <2>1. n + 1 \in 1..(n + 1)
    OBVIOUS
  <2> QED BY <2>1, AppendKeeps
<1> HIDE DEF u
<1>2. n + 1 \in 1..Len(u)
  BY <1>1
<1>3. n + 1 \in LettersBefore(u, n + 1 + 1)
  <2>1. LettersBefore(u, n + 1 + 1) = LettersBefore(u, n + 1) \cup {n + 1}
    BY <1>1, <1>2, LettersAfterLetter
  <2> QED BY <2>1
<1>4. LineAcc(u, n + 1 + 1) = Accumulate(a, StateOf(c))
  <2>1. LineAcc(u, n + 1 + 1) = Accumulate(LineAcc(u, n + 1), StateOf(u[n + 1]))
    BY <1>1, <1>2, LineAccAfterLetter
  <2> QED BY <1>1, <2>1 DEF LineInv
<1>5. Ended(u, n + 1) = Ended(u, n)
  <2>1. u[n + 1] # LF
    BY <1>1, LetterIsNoLF
  <2>2. Ended(u, n + 1) = Ended(u, n + 1 - 1)
    BY <1>1, <1>2, <2>1, EndedElsewhere
  <2> QED BY <1>1, <2>2
<1>6. Accepted(u)
  BY <1>1 DEF LineInv, Accepted
<1>7. LineInv(u, Accumulate(a, StateOf(c)), TRUE)
  BY <1>1, <1>3, <1>4, <1>6 DEF LineInv
<1> QED BY <1>1, <1>5, <1>7 DEF Written, u

\* A line feed.
LEMMA TakeLF ==
    ASSUME NEW t \in Seq(Nat), NEW a, NEW v \in BOOLEAN, LineInv(t, a, v)
    PROVE  /\ LineInv(Append(t, LF), 0, FALSE)
           /\ v => \A words : Written(t, words) =>
                     Written(Append(t, LF), Append(words, WordOf(a)))
           /\ ~ v => \A words : Written(t, words) => Written(Append(t, LF), words)
<1> DEFINE u == Append(t, LF)
           n == Len(t)
<1>1. /\ u \in Seq(Nat) /\ Len(u) = n + 1 /\ n \in Nat /\ u[n + 1] = LF
      /\ \A i \in 1..n : u[i] = t[i]
      /\ LettersBefore(u, n + 1) = LettersBefore(t, n + 1)
      /\ LineAcc(u, n + 1) = LineAcc(t, n + 1)
      /\ Ended(u, n) = Ended(t, n)
      /\ \A words : AreWordsOf(words, t, Ended(t, n)) => AreWordsOf(words, u, Ended(t, n))
  <2>1. n + 1 \in 1..(n + 1)
    OBVIOUS
  <2>2. LF \in Nat
    BY DEF LF
  <2> QED BY <2>1, <2>2, AppendKeeps
<1> HIDE DEF u
<1>2. n + 1 \in 1..Len(u)
  BY <1>1
<1>3. LettersBefore(u, n + 1 + 1) = {}
  BY <1>1, <1>2, LettersAfterLF
<1>4. LineAcc(u, n + 1 + 1) = 0
  BY <1>3, LineAccEmpty
<1>5. Accepted(u)
  BY <1>1 DEF LineInv, Accepted
<1>6. LineInv(u, 0, FALSE)
  BY <1>1, <1>3, <1>4, <1>5 DEF LineInv
<1>7. ASSUME v, NEW words, Written(t, words)
      PROVE  Written(u, Append(words, WordOf(a)))
  <2>1. Ended(u, n + 1) = Ended(u, n + 1 - 1) \cup {n + 1}
    BY <1>1, <1>2, <1>7, EndedAtLF DEF LineInv
  <2>2. AreWordsOf(words, u, Ended(u, n)) /\ words \in Seq(Words)
    BY <1>1, <1>7 DEF Written
  <2>3. Ended(u, n) \in SUBSET (1..n)
    BY <1>1, EndedFinite
  <2>4. AreWordsOf(Append(words, WordOf(LineAcc(u, n + 1))), u, Ended(u, n) \cup {n + 1})
    BY <1>1, <2>2, <2>3, AppendWord
  <2>5. LineAcc(u, n + 1) = a /\ WordOf(a) \in Words
    BY <1>1, LineAccType, WordOfType DEF LineInv
  <2>6. Append(words, WordOf(a)) \in Seq(Words)
    BY <2>2, <2>5
  <2>7. n + 1 - 1 = n
    BY <1>1
  <2>8. AreWordsOf(Append(words, WordOf(a)), u, Ended(u, n + 1))
    BY <2>1, <2>4, <2>5, <2>7
  <2> QED BY <1>1, <2>6, <2>8 DEF Written
<1>8. ASSUME ~ v, NEW words, Written(t, words) PROVE Written(u, words)
  <2>1. Ended(u, n + 1) = Ended(u, n + 1 - 1)
    BY <1>1, <1>2, <1>8, EndedElsewhere DEF LineInv
  <2> QED BY <1>1, <1>8, <2>1 DEF Written
<1> QED BY <1>6, <1>7, <1>8 DEF u

\* The end of the text.
LEMMA TakeEof ==
    ASSUME NEW t \in Seq(Nat), NEW a, NEW v, LineInv(t, a, v),
           NEW words, Written(t, words)
    PROVE  (IF v THEN Append(words, WordOf(a)) ELSE words) = Compile(t)
<1> DEFINE n == Len(t)
<1>1. n \in Nat /\ words \in Seq(Words) /\ AreWordsOf(words, t, Ended(t, n))
  BY DEF Written
<1>2. CASE v
  <2>1. LineEnds(t) = Ended(t, n) \cup {n + 1}
    BY <1>2, EndedAtEof DEF LineInv
  <2>2. Ended(t, n) \in SUBSET (1..n)
    BY <1>1, EndedFinite
  <2>3. AreWordsOf(Append(words, WordOf(LineAcc(t, n + 1))), t, Ended(t, n) \cup {n + 1})
    BY <1>1, <2>2, AppendWord
  <2>4. LineAcc(t, n + 1) = a /\ WordOf(a) \in Words
    BY LineAccType, WordOfType DEF LineInv
  <2>5. Append(words, WordOf(a)) \in Seq(Words)
    BY <1>1, <2>4
  <2>6. AreWordsOf(Append(words, WordOf(a)), t, LineEnds(t))
    BY <2>1, <2>3, <2>4
  <2>7. Append(words, WordOf(a)) = Compile(t)
    BY <2>5, <2>6, WordsOfAllLines
  <2> QED BY <1>2, <2>7
<1>3. CASE ~ v
  <2>1. LineEnds(t) = Ended(t, n)
    BY <1>3, EndedAtEof DEF LineInv
  <2>2. words = Compile(t)
    BY <1>1, <2>1, WordsOfAllLines
  <2> QED BY <1>3, <2>2
<1> QED BY <1>2, <1>3

-----------------------------------------------------------------------------
(* What a process has written.                                             *)

\* The text of the bytes that p has scanned.
Text(p) == DecodedText(Input(p), pos[p])

\* While p scans, its decoder, its line and its file are those of this text.
ScanIsText(p) ==
    /\ DecoderInv(Input(p), pos[p], dec[p])
    /\ LineInv(Text(p), acc[p], valid[p])
    /\ ~ lost[p] => Written(Text(p), file[p])

\* No read is taken for the end of the file.
ReadsAll == os = "unix" \/ "read" \notin Faults

\* Before it has a file it has not started; once the last line is written, the
\* file is complete.
IsFresh(p) ==
    /\ pos[p] = 0 /\ have[p] = 0
    /\ dec[p] = NewDecoder /\ acc[p] = 0 /\ valid[p] = FALSE
    /\ file[p] = <<>>

IsComplete(p) ==
    /\ DecoderInv(Input(p), pos[p], dec[p])
    /\ Accepted(Text(p))
    /\ pos[p] = have[p]
    /\ ReadsAll => have[p] = Len(Input(p))
    /\ ~ lost[p] => file[p] = Compile(Text(p))

ProcInv(p) ==
    /\ pc[p] \in {"start", "tmp"} => IsFresh(p)
    /\ pc[p] \in {"read", "scan", "flush"} => ScanIsText(p)
    /\ pc[p] \in {"read", "flush"} => pos[p] = have[p]
    /\ pc[p] = "flush" /\ ReadsAll => have[p] = Len(Input(p))
    /\ pc[p] = "rename" \/ Published(p) => IsComplete(p)
    /\ site[p] = "char" => ~ IsProgram(Input(p))
    /\ lost[p] => "write" \in Faults

TextInv == \A p \in Procs : ProcInv(p)

\* Nothing of p itself changes.
SameProc(p) ==
    /\ pc'[p] = pc[p] /\ site'[p] = site[p] /\ tries'[p] = tries[p]
    /\ pos'[p] = pos[p] /\ have'[p] = have[p]
    /\ dec'[p] = dec[p] /\ acc'[p] = acc[p] /\ valid'[p] = valid[p]
    /\ file'[p] = file[p] /\ lost'[p] = lost[p]

\* The command lines and the system stay as they are.
LEMMA GivenStays ==
    ASSUME [Next]_vars
    PROVE  os' = os /\ cmd' = cmd /\ outLen' = outLen
<1> USE DEF given
<1>1. ASSUME NEW p \in Procs, Prepare(p) PROVE UNCHANGED given
  BY <1>1 DEF Prepare, RejectArgs, OpenInput, OpenInputFails, PathPanics,
     CreateTmp, TmpTaken, GiveUp
<1>2. ASSUME NEW p \in Procs, Scan(p) PROVE UNCHANGED given
  BY <1>2 DEF Scan, ReadChunk, ReadEof, ReadFails, ReadFailsAsEof, SkipByte, Letter,
     EmitLine, BlankLine, ForeignChar
<1>3. ASSUME NEW p \in Procs, Commit(p) PROVE UNCHANGED given
  BY <1>3 DEF Commit, FlushLast, NothingToFlush, Rename, RenameFails, Unlink,
     UnlinkFails
<1>4. ASSUME NEW p \in Procs, Kill(p) \/ Exit(p) PROVE UNCHANGED given
  BY <1>4 DEF Kill, Exit
<1> QED BY <1>1, <1>2, <1>3, <1>4 DEF Next, Step, AllHalted, vars

\* The invariant of a process outlives the steps of the others.
LEMMA SameProcInv ==
    ASSUME NEW p \in Procs, ProcInv(p), SameProc(p), os' = os, cmd' = cmd
    PROVE  ProcInv(p)'
<1>1. Input(p)' = Input(p) /\ Text(p)' = Text(p) /\ (Published(p)' <=> Published(p))
      /\ (ReadsAll' <=> ReadsAll)
  BY DEF Input, Text, SameProc, Published, ReadsAll
<1> QED BY <1>1 DEF ProcInv, SameProc, IsFresh, ScanIsText, IsComplete

\* So it does the process's own end.
LEMMA EndKeeps ==
    ASSUME TypeOK, SiteAtExit, NEW p \in Procs, ProcInv(p), Kill(p) \/ Exit(p),
           os' = os, cmd' = cmd
    PROVE  ProcInv(p)'
<1>1. /\ pc'[p] \in {"killed", "exited"} /\ site'[p] = site[p]
      /\ pos'[p] = pos[p] /\ have'[p] = have[p] /\ dec'[p] = dec[p]
      /\ file'[p] = file[p] /\ lost'[p] = lost[p]
  BY DEF Kill, Exit, Goto, TypeOK, scanner, disk
<1>2. Input(p)' = Input(p) /\ Text(p)' = Text(p) /\ (Published(p)' <=> Published(p))
      /\ (ReadsAll' <=> ReadsAll)
  BY <1>1 DEF Input, Text, Published, ReadsAll
<1> QED BY <1>1, <1>2 DEF ProcInv, IsComplete

\* A step of another process.
LEMMA OthersKeep ==
    ASSUME TypeOK, NEW p \in Procs, NEW q \in Procs, q # p, Step(q) \/ Kill(q)
    PROVE  SameProc(p)
<1> USE DEF TypeOK, Goto, Return, given, scanner, disk, SameProc
<1>1. CASE Kill(q) \/ Exit(q)
  BY <1>1 DEF Kill, Exit
<1>2. CASE Prepare(q)
  BY <1>2 DEF Prepare, RejectArgs, OpenInput, OpenInputFails, PathPanics,
     CreateTmp, TmpTaken, GiveUp
<1>3. ASSUME WriteWord(q) PROVE file'[p] = file[p] /\ lost'[p] = lost[p]
  BY <1>3 DEF WriteWord
<1>4. CASE Scan(q)
  BY <1>3, <1>4 DEF Scan, ReadChunk, ReadEof, ReadFails, ReadFailsAsEof, SkipByte, Letter,
     EmitLine, BlankLine, ForeignChar, Advance, ResetLine
<1>5. CASE Commit(q)
  BY <1>3, <1>5 DEF Commit, FlushLast, NothingToFlush, Rename, RenameFails, Unlink,
     UnlinkFails
<1> QED BY <1>1, <1>2, <1>4, <1>5 DEF Step

\* What is known of a process that scans.
LEMMA ScanType ==
    ASSUME TypeOK, NEW p \in Procs
    PROVE  /\ Input(p) \in Seq(Byte) /\ pos[p] \in 0..Len(Input(p))
           /\ pos[p] \in Nat /\ have[p] \in Nat /\ Len(Input(p)) \in Nat
           /\ pos[p] =< have[p] /\ have[p] =< Len(Input(p))
<1>1. Input(p) \in Seq(Byte)
  BY CommandsAssumption DEF TypeOK, Input
<1>2. /\ pos[p] \in Nat /\ have[p] \in Nat /\ Len(Input(p)) \in Nat
      /\ pos[p] =< have[p] /\ have[p] =< Len(Input(p))
  BY <1>1 DEF TypeOK, Input
<1> QED BY <1>1, <1>2

\* The decoded text is one.
LEMMA TextType ==
    ASSUME TypeOK, NEW p \in Procs, DecoderInv(Input(p), pos[p], dec[p])
    PROVE  Text(p) \in Seq(Nat)
<1>1. LeadsGoOn(Input(p), pos[p], dec[p].state)
  BY DEF DecoderInv
<1> QED BY <1>1, ScanType, WholeType DEF Text

\* A byte whose character is no error: the text goes on with it.
LEMMA AdvanceText ==
    ASSUME TypeOK, NEW p \in Procs, ProcInv(p), Scanning(p), Advance(p), cmd' = cmd,
           Char(p) # Replacement
    PROVE  /\ DecoderInv(Input(p), pos[p], dec[p])' /\ pc'[p] \in {"read", "scan"}
           /\ Char(p) = Pending => Text(p)' = Text(p)
           /\ Char(p) # Pending => Char(p) \in Nat /\ Text(p)' = Append(Text(p), Char(p))
           /\ pc'[p] = "read" => pos'[p] = have[p]
<1> DEFINE b == Input(p)
           r == Decoded(p)
<1>1. /\ b \in Seq(Byte) /\ pos[p] \in 0..Len(b) /\ pos[p] < Len(b)
      /\ pos[p] \in Nat
  BY ScanType DEF Scanning
<1>2. /\ DecoderInv(b, pos[p], dec[p]) /\ r = Decode(dec[p], b[pos[p] + 1])
      /\ r.cp = Char(p)
  BY DEF ProcInv, ScanIsText, Scanning, Decoded, Char
<1>3. /\ pos'[p] = pos[p] + 1 /\ dec'[p] = r.dec /\ b' = b
      /\ pc'[p] = IF pos[p] + 1 = have[p] THEN "read" ELSE "scan"
  BY DEF Advance, Goto, TypeOK, Input
<1> HIDE DEF b, r
<1>4. GoodStep(b, pos[p], r)
  BY <1>1, <1>2, DecodeStep
<1>5. DecoderInv(b, pos[p] + 1, r.dec)
  BY <1>4 DEF GoodStep
<1>6. /\ Char(p) = Pending => DecodedText(b, pos[p] + 1) = DecodedText(b, pos[p])
      /\ Char(p) # Pending => /\ Char(p) \in Nat
           /\ DecodedText(b, pos[p] + 1) = Append(DecodedText(b, pos[p]), Char(p))
  BY <1>2, <1>4 DEF GoodStep
<1>7. Text(p) = DecodedText(b, pos[p]) /\ Text(p)' = DecodedText(b, pos[p] + 1)
  BY <1>3 DEF Text, b
<1>8. DecoderInv(Input(p), pos[p], dec[p])'
  BY <1>3, <1>5 DEF b
<1> QED BY <1>3, <1>6, <1>7, <1>8

\* From what is true of the scan after a byte, everything that ProcInv says.
LEMMA ScanGoesOn ==
    ASSUME NEW p \in Procs, pc'[p] \in {"read", "scan"},
           pc'[p] = "read" => pos'[p] = have'[p], ScanIsText(p)',
           site'[p] = "none", lost'[p] => "write" \in Faults
    PROVE  ProcInv(p)'
BY DEF ProcInv, Published

\* None of the characters that the language accepts means an error.
LEMMA AcceptedIsNoError ==
    /\ Replacement \notin Skipped \cup {Pending, LF}
    /\ ~ IsLetter(Replacement)
    /\ \A c \in Skipped : c \in Nat
<1>1. ~ IsLetter(Replacement)
  BY DEF Replacement, IsLetter, Hangul
<1> QED BY <1>1 DEF Replacement, Skipped, Pending, LF

\* The five outcomes of a byte.  First: no character yet, or one that is skipped.
LEMMA SkipByteKeeps ==
    ASSUME TypeOK, SiteAtExit, NEW p \in Procs, ProcInv(p), SkipByte(p), cmd' = cmd
    PROVE  ProcInv(p)'
<1>1. Scanning(p) /\ Advance(p) /\ Char(p) \in Skipped \cup {Pending}
  BY DEF SkipByte
<1>2. Char(p) # Replacement
  BY <1>1, AcceptedIsNoError
<1>3. /\ DecoderInv(Input(p), pos[p], dec[p])' /\ pc'[p] \in {"read", "scan"}
      /\ Char(p) = Pending => Text(p)' = Text(p)
      /\ Char(p) # Pending => Char(p) \in Nat /\ Text(p)' = Append(Text(p), Char(p))
      /\ pc'[p] = "read" => pos'[p] = have[p]
  BY <1>1, <1>2, AdvanceText
<1>4. /\ have'[p] = have[p] /\ acc'[p] = acc[p] /\ valid'[p] = valid[p]
      /\ file'[p] = file[p] /\ lost'[p] = lost[p] /\ site'[p] = "none"
  BY DEF SkipByte, Scanning, SiteAtExit, disk
<1>5. ScanIsText(p) /\ Text(p) \in Seq(Nat)
  BY <1>1, TextType DEF ProcInv, Scanning, ScanIsText
<1>6. /\ LineInv(Text(p)', acc[p], valid[p])
      /\ ~ lost[p] => Written(Text(p)', file[p])
  <2>1. CASE Char(p) = Pending
    BY <1>3, <1>5, <2>1 DEF ScanIsText
  <2>2. CASE Char(p) # Pending
    <3>1. Char(p) \in Skipped /\ Char(p) \in Nat /\ Text(p)' = Append(Text(p), Char(p))
      BY <1>1, <1>3, <2>2
    <3> QED BY <1>5, <3>1, TakeSkipped DEF ScanIsText
  <2> QED BY <2>1, <2>2
<1>7. ScanIsText(p)'
  BY <1>3, <1>4, <1>6 DEF ScanIsText
<1>8. lost'[p] => "write" \in Faults
  BY <1>4 DEF ProcInv
<1> QED BY <1>3, <1>4, <1>7, <1>8, ScanGoesOn

\* A letter joins its line.
LEMMA LetterKeeps ==
    ASSUME TypeOK, SiteAtExit, NEW p \in Procs, ProcInv(p), Letter(p), cmd' = cmd
    PROVE  ProcInv(p)'
<1>1. Scanning(p) /\ Advance(p) /\ IsLetter(Char(p))
  BY DEF Letter
<1>2. Char(p) # Replacement /\ Char(p) # Pending
  <2>1. ~ IsLetter(Pending)
    BY DEF Pending, IsLetter, Hangul
  <2> QED BY <1>1, <2>1, AcceptedIsNoError
<1>3. /\ DecoderInv(Input(p), pos[p], dec[p])' /\ pc'[p] \in {"read", "scan"}
      /\ Char(p) \in Nat /\ Text(p)' = Append(Text(p), Char(p))
      /\ pc'[p] = "read" => pos'[p] = have[p]
  BY <1>1, <1>2, AdvanceText
<1>4. /\ have'[p] = have[p] /\ acc'[p] = Accumulate(acc[p], StateOf(Char(p)))
      /\ valid'[p] = TRUE
      /\ file'[p] = file[p] /\ lost'[p] = lost[p] /\ site'[p] = "none"
  BY DEF Letter, Scanning, SiteAtExit, disk, TypeOK
<1>5. ScanIsText(p) /\ Text(p) \in Seq(Nat)
  BY <1>1, TextType DEF ProcInv, Scanning, ScanIsText
<1>6. /\ LineInv(Text(p)', acc'[p], valid'[p])
      /\ ~ lost[p] => Written(Text(p)', file[p])
  BY <1>1, <1>3, <1>4, <1>5, TakeLetter DEF ScanIsText
<1>7. ScanIsText(p)'
  BY <1>3, <1>4, <1>6 DEF ScanIsText
<1>8. lost'[p] => "write" \in Faults
  BY <1>4 DEF ProcInv
<1> QED BY <1>3, <1>4, <1>7, <1>8, ScanGoesOn

\* A write that has not fallen short has added the word of the line.
LEMMA WriteWordAdds ==
    ASSUME TypeOK, NEW p \in Procs, WriteWord(p), ~ lost'[p]
    PROVE  ~ lost[p] /\ file'[p] = Append(file[p], WordOf(acc[p]))
BY DEF WriteWord, TypeOK

\* A line feed after letters: the word of the line is written.
LEMMA EmitLineKeeps ==
    ASSUME TypeOK, SiteAtExit, NEW p \in Procs, ProcInv(p), EmitLine(p), cmd' = cmd
    PROVE  ProcInv(p)'
<1>1. Scanning(p) /\ Advance(p) /\ Char(p) = LF /\ valid[p] /\ WriteWord(p)
  BY DEF EmitLine
<1>2. Char(p) # Replacement /\ Char(p) # Pending
  BY <1>1 DEF LF, Replacement, Pending
<1>3. /\ DecoderInv(Input(p), pos[p], dec[p])' /\ pc'[p] \in {"read", "scan"}
      /\ Text(p)' = Append(Text(p), LF)
      /\ pc'[p] = "read" => pos'[p] = have[p]
  BY <1>1, <1>2, AdvanceText
<1>4. /\ have'[p] = have[p] /\ acc'[p] = 0 /\ valid'[p] = FALSE
      /\ site'[p] = "none"
  BY DEF EmitLine, ResetLine, Scanning, SiteAtExit, TypeOK
<1>5. ScanIsText(p) /\ Text(p) \in Seq(Nat) /\ valid[p] \in BOOLEAN
  BY <1>1, TextType DEF ProcInv, Scanning, ScanIsText, TypeOK
<1>6. LineInv(Text(p)', 0, FALSE)
  BY <1>3, <1>5, TakeLF DEF ScanIsText
<1>7. ASSUME ~ lost'[p] PROVE Written(Text(p)', file'[p])
  <2>1. ~ lost[p] /\ file'[p] = Append(file[p], WordOf(acc[p]))
    BY <1>1, <1>7, WriteWordAdds
  <2>2. Written(Append(Text(p), LF), Append(file[p], WordOf(acc[p])))
    BY <1>1, <1>5, <2>1, TakeLF DEF ScanIsText
  <2> QED BY <1>3, <2>1, <2>2
<1>8. ScanIsText(p)'
  BY <1>3, <1>4, <1>6, <1>7 DEF ScanIsText
<1>9. lost'[p] => "write" \in Faults
  BY <1>1 DEF ProcInv, WriteWord, TypeOK
<1> QED BY <1>3, <1>4, <1>8, <1>9, ScanGoesOn

\* A line feed without.
LEMMA BlankLineKeeps ==
    ASSUME TypeOK, SiteAtExit, NEW p \in Procs, ProcInv(p), BlankLine(p), cmd' = cmd
    PROVE  ProcInv(p)'
<1>1. Scanning(p) /\ Advance(p) /\ Char(p) = LF /\ ~ valid[p]
  BY DEF BlankLine
<1>2. Char(p) # Replacement /\ Char(p) # Pending
  BY <1>1 DEF LF, Replacement, Pending
<1>3. /\ DecoderInv(Input(p), pos[p], dec[p])' /\ pc'[p] \in {"read", "scan"}
      /\ Text(p)' = Append(Text(p), LF)
      /\ pc'[p] = "read" => pos'[p] = have[p]
  BY <1>1, <1>2, AdvanceText
<1>4. /\ have'[p] = have[p] /\ acc'[p] = 0 /\ valid'[p] = FALSE
      /\ file'[p] = file[p] /\ lost'[p] = lost[p] /\ site'[p] = "none"
  BY DEF BlankLine, ResetLine, Scanning, SiteAtExit, TypeOK, disk
<1>5. ScanIsText(p) /\ Text(p) \in Seq(Nat) /\ valid[p] \in BOOLEAN
  BY <1>1, TextType DEF ProcInv, Scanning, ScanIsText, TypeOK
<1>6. LineInv(Text(p)', 0, FALSE)
  BY <1>3, <1>5, TakeLF DEF ScanIsText
<1>7. ASSUME ~ lost[p] PROVE Written(Text(p)', file[p])
  <2>1. LineInv(Text(p), acc[p], valid[p]) /\ Written(Text(p), file[p])
    BY <1>5, <1>7 DEF ScanIsText
  <2>2. Written(Append(Text(p), LF), file[p])
    BY <1>1, <1>5, <2>1, TakeLF
  <2> QED BY <1>3, <2>2
<1>8. ScanIsText(p)'
  BY <1>3, <1>4, <1>6, <1>7 DEF ScanIsText
<1>9. lost'[p] => "write" \in Faults
  BY <1>4 DEF ProcInv
<1> QED BY <1>3, <1>4, <1>8, <1>9, ScanGoesOn

\* A character that is not accepted: the input is no program.
LEMMA ForeignCharKeeps ==
    ASSUME TypeOK, SiteAtExit, NEW p \in Procs, ProcInv(p), ForeignChar(p), cmd' = cmd
    PROVE  ProcInv(p)'
<1> DEFINE b == Input(p)
           r == Decoded(p)
           t == Text(p)
           n == pos[p]
<1>1. /\ b \in Seq(Byte) /\ n \in 0..Len(b) /\ n < Len(b) /\ n + 1 \in 0..Len(b)
      /\ DecoderInv(b, n, dec[p]) /\ r = Decode(dec[p], b[n + 1]) /\ r.cp = Char(p)
      /\ r.cp \notin Skipped \cup {Pending, LF} /\ ~ IsLetter(r.cp)
  <2>1. b \in Seq(Byte) /\ n \in 0..Len(b) /\ n < Len(b) /\ n + 1 \in 0..Len(b)
    BY ScanType DEF ForeignChar, Scanning
  <2>2. /\ DecoderInv(b, n, dec[p]) /\ r = Decode(dec[p], b[n + 1]) /\ r.cp = Char(p)
        /\ r.cp \notin Skipped \cup {Pending, LF} /\ ~ IsLetter(r.cp)
    BY DEF ForeignChar, Scanning, IsForeign, Char, Decoded, ProcInv, ScanIsText
  <2> QED BY <2>1, <2>2
<1>2. pc'[p] = "exit" /\ site'[p] = "char" /\ b' = b /\ lost' = lost
  BY DEF ForeignChar, Return, Goto, TypeOK, Input, disk
<1>3. t \in Seq(Nat) /\ t = DecodedText(b, n)
  BY <1>1, TextType DEF Text
<1> HIDE DEF b, r, t, n
<1>4. ~ IsProgram(b)
  <2>1. CASE GoodStep(b, n, r)
    <3>1. /\ DecoderInv(b, n + 1, r.dec) /\ r.cp \in Nat
          /\ DecodedText(b, n + 1) = Append(t, r.cp)
      BY <1>1, <1>3, <2>1 DEF GoodStep
    <3>2. Len(t) + 1 \in DOMAIN Append(t, r.cp) /\ Append(t, r.cp)[Len(t) + 1] = r.cp
      BY <1>3, <3>1
    <3>3. Len(t) + 1 \in DOMAIN TextOf(b) /\ TextOf(b)[Len(t) + 1] = r.cp
      BY <1>1, <3>1, <3>2, DecodedIsPrefix
    <3> QED BY <1>1, <3>3 DEF IsProgram, Accepted
  <2>2. CASE ~ IsUtf8(b)
    BY <2>2 DEF IsProgram
  <2> QED BY <1>1, <2>1, <2>2, DecodeStep
<1> QED BY <1>2, <1>4 DEF ProcInv, Published, b

\* Before the scan: a process that has created its file starts from the empty text.
LEMMA PrepareKeeps ==
    ASSUME TypeOK, SiteAtExit, NEW p \in Procs, ProcInv(p), Prepare(p), cmd' = cmd
    PROVE  ProcInv(p)'
<1> USE DEF TypeOK, Goto, Return, given, scanner, disk
<1>1. /\ pc[p] \in {"start", "tmp"} /\ site[p] = "none" /\ IsFresh(p)
  BY DEF Prepare, RejectArgs, OpenInput, OpenInputFails, PathPanics, CreateTmp,
     TmpTaken, GiveUp, Trying, SiteAtExit, ProcInv
<1>2. IsFresh(p)'
  BY <1>1 DEF IsFresh, Prepare, RejectArgs, OpenInput, OpenInputFails, PathPanics, CreateTmp,
     TmpTaken, GiveUp
<1>3. lost'[p] => "write" \in Faults
  BY DEF ProcInv, Prepare, RejectArgs, OpenInput, OpenInputFails, PathPanics, CreateTmp,
     TmpTaken, GiveUp
<1>4. CASE CreateTmp(p)
  <2>1. pc'[p] = "read" /\ Input(p)' = Input(p) /\ site'[p] = "none"
    BY <1>1, <1>4 DEF CreateTmp, Input
  <2>2. Input(p) \in Seq(Byte)
    BY ScanType
  <2>3. DecoderInv(Input(p), 0, NewDecoder) /\ DecodedText(Input(p), 0) = <<>>
    BY <2>2, DecoderInvInit
  <2>4. Text(p)' = <<>> /\ DecoderInv(Input(p), pos[p], dec[p])'
    BY <1>2, <2>1, <2>3 DEF IsFresh, Text
  <2>5. ScanIsText(p)'
    BY <1>2, <2>4, EmptyText DEF IsFresh, ScanIsText
  <2>6. pos'[p] = have'[p]
    BY <1>2 DEF IsFresh
  <2> QED BY <2>1, <2>5, <2>6, <1>3, ScanGoesOn
<1>5. CASE ~ CreateTmp(p)
  <2>1. /\ pc'[p] \in {"start", "tmp", "exit", "panicked"}
        /\ site'[p] \in {"none", "args", "open_in", "no_tmp"}
    BY <1>1, <1>5 DEF Prepare, RejectArgs, OpenInput, OpenInputFails, PathPanics,
       TmpTaken, GiveUp, Trying
  <2> QED BY <1>2, <1>3, <2>1 DEF ProcInv, Published
<1> QED BY <1>4, <1>5

\* The reads: they change nothing that has been scanned.
LEMMA ReadKeeps ==
    ASSUME TypeOK, SiteAtExit, NEW p \in Procs, ProcInv(p), cmd' = cmd, os' = os,
           ReadChunk(p) \/ ReadEof(p) \/ ReadFails(p) \/ ReadFailsAsEof(p)
    PROVE  ProcInv(p)'
<1> USE DEF TypeOK, Goto, Return, given, scanner, disk
<1>1. /\ pc[p] = "read" /\ site[p] = "none" /\ ScanIsText(p) /\ pos[p] = have[p]
  BY DEF ReadChunk, ReadEof, ReadFails, ReadFailsAsEof, SiteAtExit, ProcInv
<1>2. /\ pos'[p] = pos[p] /\ dec'[p] = dec[p] /\ acc'[p] = acc[p]
      /\ valid'[p] = valid[p] /\ file'[p] = file[p] /\ lost'[p] = lost[p]
  BY DEF ReadChunk, ReadEof, ReadFails, ReadFailsAsEof
<1>3. Input(p)' = Input(p) /\ Text(p)' = Text(p)
  BY <1>2 DEF Input, Text
<1>4. ScanIsText(p)'
  BY <1>1, <1>2, <1>3 DEF ScanIsText
<1>5. (lost'[p] => "write" \in Faults) /\ (ReadsAll' <=> ReadsAll)
  BY <1>2 DEF ProcInv, ReadsAll
<1>6. CASE ReadChunk(p)
  <2>1. pc'[p] = "scan" /\ site'[p] = "none"
    BY <1>1, <1>6 DEF ReadChunk
  <2> QED BY <1>4, <1>5, <2>1, ScanGoesOn
<1>7. CASE ReadEof(p)
  <2>1. /\ pc'[p] = "flush" /\ have'[p] = have[p] /\ have[p] = Len(Input(p))
        /\ site'[p] = "none"
    BY <1>1, <1>7 DEF ReadEof
  <2> QED BY <1>1, <1>2, <1>3, <1>4, <1>5, <2>1 DEF ProcInv, Published
<1>8. CASE ReadFails(p)
  <2>1. pc'[p] = "exit" /\ site'[p] = "read"
    BY <1>8 DEF ReadFails
  <2> QED BY <1>5, <2>1 DEF ProcInv, Published
<1>9. CASE ReadFailsAsEof(p)
  <2>1. pc'[p] = "flush" /\ have'[p] = have[p] /\ site'[p] = "none" /\ ~ ReadsAll
    BY <1>1, <1>9 DEF ReadFailsAsEof, ReadsAll
  <2> QED BY <1>1, <1>2, <1>4, <1>5, <2>1 DEF ProcInv, Published
<1> QED BY <1>6, <1>7, <1>8, <1>9

\* The end of the scan and the commit.
LEMMA CommitKeeps ==
    ASSUME TypeOK, SiteAtExit, NEW p \in Procs, ProcInv(p), Commit(p), cmd' = cmd, os' = os
    PROVE  ProcInv(p)'
<1> USE DEF TypeOK, Goto, Return, given, scanner, disk
<1>1. site[p] = "none"
  BY DEF Commit, FlushLast, NothingToFlush, Rename, RenameFails, Unlink, UnlinkFails,
     SiteAtExit
<1>2. /\ pos'[p] = pos[p] /\ have'[p] = have[p] /\ dec'[p] = dec[p]
  BY DEF Commit, FlushLast, NothingToFlush, Rename, RenameFails, Unlink, UnlinkFails
<1>3. Input(p)' = Input(p) /\ Text(p)' = Text(p)
  BY <1>2 DEF Input, Text
<1>4. ReadsAll' <=> ReadsAll
  BY DEF ReadsAll
<1>5. lost'[p] => "write" \in Faults
  BY DEF ProcInv, Commit, WriteWord, FlushLast, NothingToFlush, Rename, RenameFails,
     Unlink, UnlinkFails
<1>6. ASSUME FlushLast(p) \/ NothingToFlush(p) PROVE ProcInv(p)'
  <2>1. /\ pc[p] = "flush" /\ pc'[p] = "rename" /\ site'[p] = "none"
        /\ ScanIsText(p) /\ pos[p] = have[p]
        /\ ReadsAll => have[p] = Len(Input(p))
    BY <1>1, <1>6 DEF FlushLast, NothingToFlush, ProcInv
  <2>2. Text(p) \in Seq(Nat)
    BY <2>1, TextType DEF ScanIsText
  <2>3. ASSUME ~ lost'[p] PROVE file'[p] = Compile(Text(p))
    <3>1. CASE FlushLast(p)
      <4>1. valid[p] /\ ~ lost[p] /\ file'[p] = Append(file[p], WordOf(acc[p]))
        BY <2>3, <3>1, WriteWordAdds DEF FlushLast
      <4> QED BY <2>1, <2>2, <4>1, TakeEof DEF ScanIsText
    <3>2. CASE NothingToFlush(p)
      <4>1. ~ valid[p] /\ ~ lost[p] /\ file'[p] = file[p]
        BY <2>3, <3>2 DEF NothingToFlush
      <4> QED BY <2>1, <2>2, <4>1, TakeEof DEF ScanIsText
    <3> QED BY <1>6, <3>1, <3>2
  <2>4. IsComplete(p)'
    BY <1>2, <1>3, <1>4, <2>1, <2>3 DEF IsComplete, ScanIsText, LineInv
  <2> QED BY <1>5, <2>1, <2>4 DEF ProcInv, Published
<1>7. CASE Rename(p)
  <2>1. /\ pc[p] = "rename" /\ pc'[p] = "exit" /\ site'[p] = "ok"
        /\ file'[p] = file[p] /\ lost'[p] = lost[p]
    BY <1>7 DEF Rename
  <2>2. IsComplete(p)'
    BY <1>2, <1>3, <1>4, <2>1 DEF IsComplete, ProcInv
  <2> QED BY <1>5, <2>1, <2>2 DEF ProcInv
<1>8. CASE RenameFails(p)
  <2>1. pc'[p] = "unlink" /\ site'[p] = "none"
    BY <1>1, <1>8 DEF RenameFails
  <2> QED BY <1>5, <2>1 DEF ProcInv, Published
<1>9. CASE Unlink(p) \/ UnlinkFails(p)
  <2>1. pc'[p] = "exit" /\ site'[p] \in {"rename", "unlink"}
    BY <1>9 DEF Unlink, UnlinkFails
  <2> QED BY <1>5, <2>1 DEF ProcInv, Published
<1> QED BY <1>6, <1>7, <1>8, <1>9 DEF Commit

LEMMA InitText == Init => TextInv
<1> SUFFICES ASSUME Init, NEW p \in Procs PROVE ProcInv(p)
  BY DEF TextInv
<1> QED BY DEF Init, ProcInv, IsFresh, Published

\* One case per phase of the process that moves.
LEMMA StepText == IInv /\ TextInv /\ [Next]_vars => TextInv'
<1> SUFFICES ASSUME IInv, TextInv, [Next]_vars, NEW p \in Procs PROVE ProcInv(p)'
  BY DEF TextInv
<1>1. TypeOK /\ SiteAtExit /\ ProcInv(p) /\ os' = os /\ cmd' = cmd
  BY GivenStays DEF IInv, TextInv
<1>2. CASE UNCHANGED vars
  <2>1. SameProc(p)
    BY <1>2 DEF vars, scanner, disk, SameProc
  <2> QED BY <1>1, <2>1, SameProcInv
<1>3. CASE \E q \in Procs \ {p} : Step(q) \/ Kill(q)
  <2>1. SameProc(p)
    BY <1>1, <1>3, OthersKeep
  <2> QED BY <1>1, <2>1, SameProcInv
<1>4. CASE Kill(p) \/ Exit(p)
  BY <1>1, <1>4, EndKeeps
<1>5. CASE Prepare(p)
  BY <1>1, <1>5, PrepareKeeps
<1>6. CASE Scan(p)
  BY <1>1, <1>6, ReadKeeps, SkipByteKeeps, LetterKeeps, EmitLineKeeps, BlankLineKeeps,
     ForeignCharKeeps DEF Scan
<1>7. CASE Commit(p)
  BY <1>1, <1>7, CommitKeeps
<1> QED BY <1>2, <1>3, <1>4, <1>5, <1>6, <1>7 DEF Next, Step, AllHalted

\* At every moment what a process has written is the meaning of the text it has
\* decoded so far, and its accumulator that of the open line (main.rs:678-715).
THEOREM TextInvariance == Spec => [](IInv /\ TextInv)
<1>1. Init => IInv /\ TextInv
  BY InitIInv, InitText
<1>2. IInv /\ TextInv /\ [Next]_vars => (IInv /\ TextInv)'
  BY StepIInv, StepText
<1> QED BY <1>1, <1>2, PTL DEF Spec

\* What a complete file and its verdict say of the bytes that were read.
LEMMA CompleteIsRead ==
    ASSUME TypeOK, NEW p \in Procs, IsComplete(p)
    PROVE  /\ ReadsAll => BytesRead(p) = Input(p)
           /\ IsUtf8(BytesRead(p)) => Text(p) = TextOf(BytesRead(p))
           /\ IsUtf8(BytesRead(p)) \/ HasGap(BytesRead(p))
           /\ UpToGaps(BytesRead(p))
<1> DEFINE b == Input(p)
           n == pos[p]
           a == SubSeq(b, 1, n)
<1>1. b \in Seq(Byte) /\ n \in 0..Len(b) /\ DecoderInv(b, n, dec[p]) /\ n = have[p]
  BY ScanType DEF IsComplete
<1>2. Text(p) = DecodedText(b, n) /\ BytesRead(p) = a
  BY <1>1 DEF Text, BytesRead
<1>3. ReadsAll => n = Len(b)
  BY <1>1 DEF IsComplete
<1> HIDE DEF b, n
<1>4. /\ a \in Seq(Byte) /\ Len(a) = n /\ (n = Len(b) => a = b)
      /\ DecoderInv(a, n, dec[p]) /\ DecodedText(a, n) = DecodedText(b, n)
  BY <1>1, SamePrefix
<1> HIDE DEF a
<1>5. /\ IsUtf8(a) => DecodedText(a, n) = TextOf(a)
      /\ IsUtf8(a) \/ HasGap(a)
      /\ UpToGaps(a)
  BY <1>4, DecodedAtEnd
<1> QED BY <1>2, <1>3, <1>4, <1>5 DEF b

\* A run that has published and lost no write has written the meaning of what it
\* read, for every input, chunking and interleaving (main.rs:678-715).
THEOREM OutputMeans == Spec => []OutputIsMeaning
<1>1. IInv /\ TextInv => OutputIsMeaning
  BY CompleteIsRead DEF IInv, TextInv, ProcInv, OutputIsMeaning, IsComplete, ReadsAll
<1> QED BY <1>1, TextInvariance, PTL

\* Every run that publishes has read a program or bytes that are UTF-8 up to
\* gaps, and no program is refused for a character (main.rs:91-126 and 686-706).
THEOREM VerdictRight == Spec => []VerdictUpToGaps
<1>1. ASSUME TypeOK, NEW p \in Procs, IsComplete(p)
      PROVE  /\ IsUtf8(BytesRead(p)) => Accepted(TextOf(BytesRead(p)))
             /\ UpToGaps(BytesRead(p))
  BY <1>1, CompleteIsRead DEF IsComplete
<1>2. IInv /\ TextInv => VerdictUpToGaps
  BY <1>1 DEF IInv, TextInv, ProcInv, VerdictUpToGaps
<1> QED BY <1>2, TextInvariance, PTL

-----------------------------------------------------------------------------
(* The runs keep the promise of AtomicReplace.                             *)

\* AtomicReplace reads the same decoder ...
LEMMA SameUtf8 ==
    ASSUME NEW b
    PROVE  /\ Promise!IsUtf8(b) <=> IsUtf8(b)
           /\ Promise!TextOf(b) = TextOf(b)
<1>1. \A c : Promise!Continues(c) <=> Continues(c)
  BY DEF Continues, Promise!Continues
<1>2. \A c : Promise!Width(c) = Width(c)
  BY DEF Width, Promise!Width
<1>3. \A c : Promise!LeadBits(c) = LeadBits(c)
  BY <1>2 DEF LeadBits, Promise!LeadBits
<1>4. \A x, n : Promise!Shifted(x, n) = Shifted(x, n)
  BY DEF Shifted, Promise!Shifted, PowerOf64, Promise!PowerOf64
<1>5. Promise!Leads(b) = Leads(b)
  BY <1>1 DEF Leads, Promise!Leads
<1>6. \A i : Promise!CodePointAt(b, i) = CodePointAt(b, i)
  BY <1>2, <1>3, <1>4 DEF CodePointAt, Promise!CodePointAt
<1>7. ASSUME NEW i PROVE Promise!SequenceAt(b, i) <=> SequenceAt(b, i)
  <2>1. FirstOfWidth = Promise!FirstOfWidth
    BY DEF FirstOfWidth, Promise!FirstOfWidth
  <2> DEFINE Fits(w) == w > 0 /\ i + w - 1 =< Len(b)
             Strict(w, cp) ==
               cp >= FirstOfWidth[w] /\ cp \notin 55296..57343 /\ cp =< 1114111
             GoesOn == \A k \in 1..(Width(b[i]) - 1) : Continues(b[i + k])
             PromisedOn ==
               \A k \in 1..(Promise!Width(b[i]) - 1) : Promise!Continues(b[i + k])
  <2>2. SequenceAt(b, i) <=>
          Fits(Width(b[i])) /\ GoesOn /\ Strict(Width(b[i]), CodePointAt(b, i))
    BY DEF SequenceAt
  <2>3. Promise!SequenceAt(b, i) <=>
          Fits(Promise!Width(b[i])) /\ PromisedOn
            /\ Strict(Promise!Width(b[i]), Promise!CodePointAt(b, i))
    BY <2>1 DEF Promise!SequenceAt
  <2>4. GoesOn <=> PromisedOn
    BY <1>1, <1>2
  <2>5. Promise!Width(b[i]) = Width(b[i]) /\ Promise!CodePointAt(b, i) = CodePointAt(b, i)
    BY <1>2, <1>6
  <2> HIDE DEF GoesOn, PromisedOn, Fits, Strict
  <2> QED BY <2>2, <2>3, <2>4, <2>5
<1>8. \A S : Promise!Cardinality(S) = Cardinality(S)
  BY DEF Cardinality, Promise!Cardinality
<1>9. Promise!IsUtf8(b) <=> IsUtf8(b)
  BY <1>2, <1>5, <1>7 DEF IsUtf8, Promise!IsUtf8
<1> QED BY <1>5, <1>6, <1>8, <1>9 DEF TextOf, Promise!TextOf

\* ... and the same language.
LEMMA SameLanguage ==
    ASSUME NEW t
    PROVE  /\ Promise!Accepted(t) <=> Accepted(t)
           /\ Promise!Compile(t) = Compile(t)
<1>1. LF = Promise!LF /\ Skipped = Promise!Skipped /\ LUT = Promise!LUT
  BY DEF LF, Promise!LF, Skipped, Promise!Skipped, LUT, Promise!LUT
<1> USE DEF Hangul, Promise!Hangul, Jong, Promise!Jong, Jung, Promise!Jung,
            JungTable, Promise!JungTable
<1>2. \A c : Promise!IsLetter(c) <=> IsLetter(c)
  BY DEF IsLetter, Promise!IsLetter
<1>3. \A c : Promise!StateOf(c) = StateOf(c)
  BY DEF StateOf, Promise!StateOf
<1>4. Promise!Accepted(t) <=> Accepted(t)
  BY <1>1, <1>2 DEF Accepted, Promise!Accepted
<1>5. ASSUME NEW e PROVE Promise!LettersBefore(t, e) = LettersBefore(t, e)
  BY <1>1, <1>2 DEF LettersBefore, Promise!LettersBefore
<1>6. Promise!LineEnds(t) = LineEnds(t)
  BY <1>1, <1>5 DEF LineEnds, Promise!LineEnds
<1>7. ASSUME NEW e PROVE Promise!LineAcc(t, e) = LineAcc(t, e)
  BY <1>3, <1>5 DEF LineAcc, Promise!LineAcc, HasBit, Promise!HasBit,
     BitsToNumber, Promise!BitsToNumber
<1>8. \A S : Promise!Cardinality(S) = Cardinality(S)
  BY DEF Cardinality, Promise!Cardinality
<1>9. ASSUME NEW S, NEW n PROVE Promise!Nth(S, n) = Nth(S, n)
  BY <1>8 DEF Nth, Promise!Nth
<1>10. \A n : Promise!WordOf(Promise!LineAcc(t, Promise!Nth(Promise!LineEnds(t), n)))
                = WordOf(LineAcc(t, Nth(LineEnds(t), n)))
  BY <1>1, <1>6, <1>7, <1>9 DEF WordOf, Promise!WordOf
<1> QED BY <1>4, <1>6, <1>8, <1>10 DEF Compile, Promise!Compile

\* So the promise means the same by a program and its words.
LEMMA SameMeans ==
    ASSUME NEW w, NEW b
    PROVE  Promise!Means(w, b) <=> IsProgram(b) /\ w = Compile(TextOf(b))
<1>1. /\ Promise!IsUtf8(b) <=> IsUtf8(b)
      /\ Promise!TextOf(b) = TextOf(b)
  BY SameUtf8
<1>2. /\ Promise!Accepted(TextOf(b)) <=> Accepted(TextOf(b))
      /\ Promise!Compile(TextOf(b)) = Compile(TextOf(b))
  BY SameLanguage
<1> QED BY <1>1, <1>2 DEF Promise!Means, IsProgram

\* What the promise needs of the system: no write falls short, no failed read is
\* taken for the end of a file, and no input meets a gap of the decoder.
Reliable ==
    /\ "write" \notin Faults
    /\ "read" \notin Faults \/ "windows" \notin Systems
    /\ \A c \in Commands : ~ HasGap(c.in)

\* What AtomicReplace sees of the processes and of the directory.
Shown == IF out \in Procs THEN file[out] ELSE out
Publishers == { p \in Procs : Published(p) }
Verdicts == [p \in Procs |-> Verdict(p)]

\* At first no run has a verdict and `out` shows what was there.
LEMMA PromiseInit == Init => Promise!Init
<1> SUFFICES ASSUME Init PROVE Promise!Init
  OBVIOUS
<1>1. [p \in Procs |-> cmd[p].in] \in [Procs -> { c.in : c \in Commands }]
  BY DEF Init
<1>2. Shown \in {Absent, Before}
  BY ProcsAssumption DEF Init, Shown
<1>3. Verdicts = [p \in Procs |-> "none"]
  BY DEF Init, Verdicts, Verdict, Succeeded, Failed
<1>4. Publishers = {}
  BY DEF Init, Publishers, Published
<1> QED BY <1>1, <1>2, <1>3, <1>4 DEF Promise!Init, Shown, Publishers, Verdicts

\* A step of p that does not rename publishes nothing, and only the exit or a signal
\* ends the process.
LEMMA OwnStepOutcome ==
    ASSUME TypeOK, SiteAtExit, NEW p \in Procs, Step(p) \/ Kill(p), ~ Rename(p)
    PROVE  /\ pc[p] \in Running /\ out' = out /\ (Published(p)' <=> Published(p))
           /\ ~ (Exit(p) \/ Kill(p)) => pc'[p] \in Running \cup {"panicked"}
<1> USE DEF TypeOK, Goto, Return, given, scanner, disk, Published, SiteAtExit, Running
<1>1. CASE Kill(p) \/ Exit(p)
  BY <1>1 DEF Kill, Exit
<1>2. CASE Prepare(p)
  BY <1>2 DEF Prepare, RejectArgs, OpenInput, OpenInputFails, PathPanics, Trying,
     CreateTmp, TmpTaken, GiveUp
<1>3. CASE Scan(p)
  BY <1>3 DEF Scan, ReadChunk, ReadEof, ReadFails, ReadFailsAsEof, SkipByte, Letter,
     EmitLine, BlankLine, ForeignChar, Advance, Scanning
<1>4. CASE Commit(p)
  BY <1>4 DEF Commit, FlushLast, NothingToFlush, RenameFails, Unlink, UnlinkFails
<1> QED BY <1>1, <1>2, <1>3, <1>4 DEF Step

\* A process that runs, or has panicked, has no verdict yet.
LEMMA RunningHasNoVerdict ==
    ASSUME NEW p \in Procs, pc[p] \in Running \cup {"panicked"}
    PROVE  Verdict(p) = "none"
BY DEF Verdict, Succeeded, Failed, Running

\* The other processes keep their verdicts, and what they have published.
LEMMA OneVerdict ==
    ASSUME TypeOK, NEW p \in Procs, Step(p) \/ Kill(p)
    PROVE  /\ Verdicts' = [Verdicts EXCEPT ![p] = Verdict(p)']
           /\ Publishers' = IF Published(p)' THEN Publishers \cup {p} ELSE Publishers \ {p}
<1>1. ASSUME NEW q \in Procs, q # p
      PROVE  Verdict(q)' = Verdict(q) /\ (Published(q)' <=> Published(q))
  <2>1. SameProc(q)
    BY <1>1, OthersKeep
  <2> QED BY <2>1 DEF SameProc, Verdict, Succeeded, Failed, Published
<1> HIDE DEF Verdict, Published
<1> QED BY <1>1 DEF Verdicts, Publishers

\* Only the rename changes what `out` shows: the file it shows is never written.
LEMMA ShownStays ==
    ASSUME IInv, NEW p \in Procs, Step(p) \/ Kill(p), ~ Rename(p)
    PROVE  Shown' = Shown
<1>1. pc[p] \in Running /\ out' = out
  BY OwnStepOutcome DEF IInv
<1>2. CASE out \in Procs
  <2>1. Published(out)
    BY <1>2, ProcsAssumption DEF IInv, OutIsPublished
  <2>2. CASE out = p
    <3>1. pc[p] = "exit"
      BY <1>1, <2>1, <2>2 DEF IInv, SiteAtExit, Published, Running
    <3>2. Exit(p) \/ Kill(p)
      BY <3>1 DEF Step, Prepare, RejectArgs, OpenInput, OpenInputFails, PathPanics,
         CreateTmp, TmpTaken, GiveUp, Trying, Scan, ReadChunk, ReadEof, ReadFails,
         ReadFailsAsEof, SkipByte, Letter, EmitLine, BlankLine, ForeignChar, Scanning,
         Commit, FlushLast, NothingToFlush, Rename, RenameFails, Unlink, UnlinkFails
    <3>3. file' = file
      BY <3>2 DEF Exit, Kill, disk
    <3> QED BY <1>1, <3>3 DEF Shown
  <2>3. CASE out # p
    <3>1. file'[out] = file[out]
      BY <1>2, <2>3, OthersKeep DEF IInv, SameProc
    <3> QED BY <1>1, <1>2, <3>1 DEF Shown
  <2> QED BY <2>2, <2>3
<1>3. CASE out \notin Procs
  BY <1>1, <1>3 DEF Shown
<1> QED BY <1>2, <1>3

\* In a reliable system a complete file is the meaning of a program.
LEMMA CompleteIsRight ==
    ASSUME Reliable, TypeOK, NEW p \in Procs, ProcInv(p), IsComplete(p)
    PROVE  IsProgram(Input(p)) /\ file[p] = Compile(TextOf(Input(p)))
<1>1. ~ lost[p]
  BY DEF ProcInv, Reliable
<1>2. BytesRead(p) = Input(p) /\ ~ HasGap(Input(p))
  <2>1. ReadsAll
    BY SystemsAssumption DEF Reliable, ReadsAll, TypeOK
  <2>2. ~ HasGap(Input(p))
    BY DEF Reliable, Input, TypeOK
  <2> QED BY <2>1, <2>2, CompleteIsRead
<1>3. IsUtf8(Input(p)) /\ Text(p) = TextOf(Input(p))
  BY <1>2, CompleteIsRead
<1> QED BY <1>1, <1>3 DEF IsComplete, IsProgram

\* Where no write falls short, no read fails unnoticed and no input has a gap, what
\* the lock says of success is true: nothing else can make it false (main.rs:678-726
\* against spec/ssot.lock.md:16 and 32).
THEOREM ReliableIsRight ==
    ASSUME Reliable
    PROVE  Spec => [](SuccessIsComplete /\ VerdictIsLanguages)
<1>1. ASSUME IInv, TextInv, NEW p \in Procs, Succeeded(p)
      PROVE  IsProgram(Input(p)) /\ file[p] = Compile(TextOf(Input(p)))
  <2>1. Published(p) /\ ProcInv(p) /\ TypeOK
    BY <1>1 DEF Succeeded, Published, IInv, TextInv
  <2> QED BY <2>1, CompleteIsRight DEF ProcInv
<1>2. IInv /\ TextInv => SuccessIsComplete /\ VerdictIsLanguages
  BY <1>1 DEF SuccessIsComplete, VerdictIsLanguages
<1> QED BY <1>2, TextInvariance, PTL

\* The rename shows the meaning of the program, of a process that has not ended.
LEMMA RenameShows ==
    ASSUME Reliable, IInv, TextInv, NEW p \in Procs, Rename(p)
    PROVE  /\ IsProgram(Input(p)) /\ Shown' = Compile(TextOf(Input(p)))
           /\ ~ Published(p) /\ Published(p)'
           /\ Verdict(p) = "none" /\ Verdict(p)' = "none"
<1> USE DEF IInv
<1>1. pc[p] = "rename" /\ tmp[TmpOf(p)] = p /\ site[p] = "none"
  BY DEF Rename, OwnsTmp, Holding, SiteAtExit
<1>2. out' = p /\ file' = file /\ pc'[p] = "exit" /\ site'[p] = "ok"
  BY <1>1 DEF Rename, Return, Goto, TypeOK
<1>3. Verdict(p) = "none" /\ Verdict(p)' = "none"
  BY <1>1, <1>2 DEF Verdict, Succeeded, Failed
<1>4. ProcInv(p) /\ IsComplete(p)
  BY <1>1 DEF TextInv, ProcInv
<1>5. IsProgram(Input(p)) /\ file[p] = Compile(TextOf(Input(p)))
  BY <1>4, CompleteIsRight
<1>6. ~ Published(p) /\ Published(p)'
  BY <1>1, <1>2 DEF Published
<1> QED BY <1>2, <1>3, <1>5, <1>6 DEF Shown

\* Every step is one that the promise allows, or is not seen.
LEMMA PromiseStep ==
    ASSUME Reliable, IInv, TextInv, [Next]_vars
    PROVE  [Promise!Next]_Promise!vars
<1> DEFINE program == [q \in Procs |-> cmd[q].in]
<1>1. program' = program
  BY GivenStays
<1>2. CASE UNCHANGED vars
  <2>1. Shown' = Shown /\ Publishers' = Publishers
    BY <1>2 DEF Shown, Publishers, Published, vars, disk
  <2>2. Verdicts' = Verdicts
    BY <1>2 DEF Verdicts, Verdict, Succeeded, Failed, vars
  <2> QED BY <1>1, <2>1, <2>2 DEF Promise!vars, Shown, Publishers, Verdicts
<1>3. ASSUME NEW p \in Procs, Step(p) \/ Kill(p)
      PROVE  [Promise!Next]_Promise!vars
  <2>1. /\ Verdicts' = [Verdicts EXCEPT ![p] = Verdict(p)'] /\ Verdicts[p] = Verdict(p)
        /\ p \in Publishers <=> Published(p)
        /\ Publishers' = IF Published(p)' THEN Publishers \cup {p} ELSE Publishers \ {p}
    BY <1>3, OneVerdict DEF IInv, Verdicts, Publishers
  <2>2. CASE Rename(p)
    <3>1. /\ IsProgram(Input(p)) /\ Shown' = Compile(TextOf(Input(p)))
          /\ ~ Published(p) /\ Published(p)'
          /\ Verdict(p) = "none" /\ Verdict(p)' = "none"
      BY <2>2, RenameShows
    <3>2. Promise!Means(Shown', program[p])
      BY <3>1, SameMeans DEF Input
    <3>3. /\ p \notin Publishers /\ Publishers' = Publishers \cup {p}
          /\ Verdicts[p] = "none" /\ Verdicts' = Verdicts
      BY <2>1, <3>1 DEF Verdicts
    <3>4. Promise!Publish(p)
      BY <1>1, <3>2, <3>3 DEF Promise!Publish, Shown, Publishers, Verdicts
    <3> QED BY <3>4 DEF Promise!Next
  <2>3. CASE ~ Rename(p)
    <3>1. Shown' = Shown
      BY <1>3, <2>3, ShownStays
    <3>2. /\ pc[p] \in Running /\ (Published(p)' <=> Published(p))
          /\ ~ (Exit(p) \/ Kill(p)) => pc'[p] \in Running \cup {"panicked"}
      BY <1>3, <2>3, OwnStepOutcome DEF IInv
    <3>3. Publishers' = Publishers
      BY <2>1, <3>2
    <3>4. Verdicts[p] = "none"
      BY <2>1, <3>2, RunningHasNoVerdict
    <3>5. CASE Exit(p)
      <4>1. pc'[p] = "exited" /\ site'[p] = site[p]
        BY <3>5 DEF Exit, Goto, IInv, TypeOK
      <4>2. Verdict(p)' = IF Published(p) THEN "success" ELSE "failure"
        BY <4>1 DEF Verdict, Succeeded, Failed, Published
      <4>3. IF p \in Publishers THEN Promise!Succeed(p) ELSE Promise!Fail(p)
        BY <1>1, <2>1, <3>1, <3>3, <3>4, <4>2
           DEF Promise!Succeed, Promise!Fail, Promise!Report, Shown, Publishers, Verdicts
      <4> QED BY <4>3 DEF Promise!Next
    <3>6. CASE Kill(p)
      <4>1. pc'[p] = "killed"
        BY <3>6 DEF Kill, Goto, IInv, TypeOK
      <4>2. Verdict(p)' = "killed"
        BY <4>1 DEF Verdict, Succeeded, Failed
      <4>3. Promise!Die(p)
        BY <1>1, <2>1, <3>1, <3>3, <3>4, <4>2
           DEF Promise!Die, Promise!Report, Shown, Publishers, Verdicts
      <4> QED BY <4>3 DEF Promise!Next
    <3>7. CASE ~ (Exit(p) \/ Kill(p))
      <4>1. Verdict(p)' = "none"
        BY <3>2, <3>7 DEF Verdict, Succeeded, Failed, Running
      <4>2. Verdicts' = Verdicts
        BY <2>1, <3>4, <4>1 DEF Verdicts
      <4> QED BY <1>1, <3>1, <3>3, <4>2 DEF Promise!vars, Shown, Publishers, Verdicts
    <3> QED BY <3>5, <3>6, <3>7
  <2> QED BY <2>2, <2>3
<1> QED BY <1>2, <1>3 DEF Next, AllHalted

\* In a reliable system, whoever looks at `out` and at exit codes sees what
\* AtomicReplace allows: `out` changes in the step of a rename and in no other, to
\* the words of the program of the run that renames; that run exits with 0 unless
\* it is killed first, and one that exits with 1 has changed nothing
\* (main.rs:497-519 and 678-726).
THEOREM RunsKeepPromise ==
    ASSUME Reliable
    PROVE  Spec => KeepsPromise
<1>1. Init => Promise!Init
  BY PromiseInit
<1>2. IInv /\ TextInv /\ [Next]_vars => [Promise!Next]_Promise!vars
  BY PromiseStep
<1> QED BY <1>1, <1>2, TextInvariance, PTL DEF Spec, KeepsPromise, Promise!Spec

-----------------------------------------------------------------------------
(* The steps that are left.                                                *)

\* The bytes that p has yet to read and to scan.
BytesLeft(p) == (Len(Input(p)) - have[p]) + (Len(Input(p)) - pos[p])

LEMMA StepsLeftIs ==
    ASSUME TypeOK, NEW p \in Procs
    PROVE  /\ BytesLeft(p) \in Nat /\ MaxTries - tries[p] \in Nat /\ MaxTries \in Nat
           /\ pc[p] = "start" => StepsLeft(p) = MaxTries + BytesLeft(p) + 7
           /\ pc[p] = "tmp" => StepsLeft(p) = (MaxTries - tries[p]) + BytesLeft(p) + 6
           /\ pc[p] \in {"read", "scan"} => StepsLeft(p) = BytesLeft(p) + 5
           /\ pc[p] = "flush" => StepsLeft(p) = 4
           /\ pc[p] = "rename" => StepsLeft(p) = 3
           /\ pc[p] = "unlink" => StepsLeft(p) = 2
           /\ pc[p] = "exit" => StepsLeft(p) = 1
           /\ pc[p] \in Halted => StepsLeft(p) = 0
<1>1. Len(Input(p)) - have[p] \in Nat /\ Len(Input(p)) - pos[p] \in Nat
  BY ScanType
<1>2. BytesLeft(p) \in Nat
  BY <1>1 DEF BytesLeft
<1>3. MaxTries \in Nat /\ MaxTries - tries[p] \in Nat
  BY TriesAssumption DEF TypeOK
<1> QED BY <1>2, <1>3 DEF StepsLeft, BytesLeft, Halted

\* The measure is a number, and not 0 before the process has ended.
LEMMA StepsLeftType ==
    ASSUME TypeOK, NEW p \in Procs
    PROVE  StepsLeft(p) \in Nat /\ (pc[p] \in Running => StepsLeft(p) > 0)
<1>1. pc[p] \in Running \cup Halted
  BY DEF TypeOK
<1> QED BY <1>1, StepsLeftIs DEF Running, Halted

\* Arguments, the input and the temporary name: each try uses one up.
LEMMA PrepareCounts ==
    ASSUME TypeOK, NEW p \in Procs, Prepare(p), cmd' = cmd
    PROVE  StepsLeft(p)' < StepsLeft(p)
<1> USE DEF Goto, Return, given, scanner
<1>1. CASE RejectArgs(p) \/ OpenInputFails(p) \/ PathPanics(p) \/ GiveUp(p)
  <2>1. pc[p] \in {"start", "tmp"} /\ pc'[p] \in {"exit", "panicked"}
    BY <1>1 DEF RejectArgs, OpenInputFails, PathPanics, GiveUp, Trying, TypeOK
  <2>2. StepsLeft(p)' \in {0, 1}
    BY <2>1 DEF StepsLeft
  <2>3. StepsLeft(p) \in Nat /\ StepsLeft(p) > 1
    BY <2>1, StepsLeftIs
  <2> QED BY <2>2, <2>3
<1> DEFINE left == BytesLeft(p)
<1>2. BytesLeft(p)' = left /\ left \in Nat
  <2>1. pos' = pos /\ have' = have
    BY DEF Prepare, RejectArgs, OpenInput, OpenInputFails, PathPanics, CreateTmp, TmpTaken,
       GiveUp
  <2> QED BY <2>1, StepsLeftIs DEF BytesLeft, Input
<1>3. /\ pc'[p] = "tmp" => StepsLeft(p)' = (MaxTries - tries'[p]) + left + 6
      /\ pc'[p] = "read" => StepsLeft(p)' = left + 5
  BY <1>2 DEF StepsLeft, BytesLeft
<1>4. tries[p] \in Nat /\ MaxTries \in Nat
  BY TriesAssumption DEF TypeOK
<1> HIDE DEF left
<1>5. CASE OpenInput(p)
  <2>1. /\ tries'[p] = tries[p] /\ pc'[p] = "tmp"
        /\ StepsLeft(p) = MaxTries + left + 7
    BY <1>5, StepsLeftIs DEF OpenInput, TypeOK, left
  <2> QED BY <1>2, <1>3, <1>4, <2>1
<1>6. CASE CreateTmp(p) \/ TmpTaken(p)
  <2>1. /\ tries'[p] = tries[p] + 1 /\ pc'[p] \in {"read", "tmp"} /\ tries[p] < MaxTries
        /\ StepsLeft(p) = (MaxTries - tries[p]) + left + 6
    BY <1>6, StepsLeftIs DEF CreateTmp, TmpTaken, Trying, TypeOK, left
  <2> QED BY <1>2, <1>3, <1>4, <2>1
<1> QED BY <1>1, <1>5, <1>6 DEF Prepare

\* The scan: each byte is read once and scanned once.
LEMMA ScanCounts ==
    ASSUME TypeOK, NEW p \in Procs, Scan(p), cmd' = cmd
    PROVE  StepsLeft(p)' < StepsLeft(p)
<1> USE DEF Goto, Return, given, scanner
<1> DEFINE l == Len(Input(p))
<1>1. /\ l \in Nat /\ have[p] \in Nat /\ pos[p] \in Nat
      /\ pos[p] =< have[p] /\ have[p] =< l /\ l' = l
  BY ScanType DEF Input
<1>2. pc[p] \in {"read", "scan"}
  BY DEF Scan, ReadChunk, ReadEof, ReadFails, ReadFailsAsEof, Scanning,
     SkipByte, Letter, EmitLine, BlankLine, ForeignChar
<1>3. StepsLeft(p) = (l - have[p]) + (l - pos[p]) + 5
  BY <1>2 DEF StepsLeft
<1>4. pc'[p] \in {"read", "scan"} => StepsLeft(p)' = (l' - have'[p]) + (l' - pos'[p]) + 5
  BY DEF StepsLeft
<1>5. pc'[p] \in {"flush", "exit"} => StepsLeft(p)' \in {1, 4}
  BY DEF StepsLeft
<1> HIDE DEF l
<1>6. CASE ReadChunk(p)
  <2>1. PICK n \in 1..BufLen : have' = [have EXCEPT ![p] = @ + n]
    BY <1>6 DEF ReadChunk
  <2>2. n \in Nat /\ n > 0
    BY <2>1, TriesAssumption
  <2>3. have'[p] = have[p] + n /\ pos'[p] = pos[p] /\ pc'[p] = "scan"
    BY <1>6, <2>1 DEF ReadChunk, TypeOK
  <2> QED BY <1>1, <1>3, <1>4, <2>2, <2>3
<1>7. CASE ReadEof(p) \/ ReadFails(p) \/ ReadFailsAsEof(p) \/ ForeignChar(p)
  <2>1. pc'[p] \in {"flush", "exit"}
    BY <1>7 DEF ReadEof, ReadFails, ReadFailsAsEof, ForeignChar, TypeOK
  <2>2. StepsLeft(p)' \in {1, 4}
    BY <1>5, <2>1
  <2>3. StepsLeft(p) \in Nat /\ StepsLeft(p) > 4
    BY <1>1, <1>3
  <2> DEFINE now == StepsLeft(p)
             next == StepsLeft(p)'
  <2>4. now \in Nat /\ now > 4 /\ next \in {1, 4}
    BY <2>2, <2>3
  <2> HIDE DEF now, next
  <2>5. next < now
    BY <2>4
  <2> QED BY <2>5 DEF now, next
<1>8. CASE SkipByte(p) \/ Letter(p) \/ EmitLine(p) \/ BlankLine(p)
  <2>1. /\ pos'[p] = pos[p] + 1 /\ have'[p] = have[p] /\ pc'[p] \in {"read", "scan"}
    BY <1>8 DEF SkipByte, Letter, EmitLine, BlankLine, Advance, TypeOK
  <2> QED BY <1>1, <1>3, <1>4, <2>1
<1> QED BY <1>6, <1>7, <1>8 DEF Scan

\* The commit and the exit go one way, and a signal ends them.
LEMMA CommitCounts ==
    ASSUME TypeOK, NEW p \in Procs, Commit(p) \/ Exit(p) \/ Kill(p)
    PROVE  StepsLeft(p)' < StepsLeft(p)
<1> USE DEF Goto, Return, TypeOK
<1>1. CASE Kill(p)
  <2>1. pc[p] \in Running /\ pc'[p] = "killed"
    BY <1>1 DEF Kill
  <2>2. StepsLeft(p)' = 0
    BY <2>1 DEF StepsLeft
  <2> QED BY <2>1, <2>2, StepsLeftType
<1>2. CASE Commit(p)
  <2>1. \/ pc[p] = "flush" /\ pc'[p] = "rename"
        \/ pc[p] = "rename" /\ pc'[p] \in {"unlink", "exit"}
        \/ pc[p] = "unlink" /\ pc'[p] = "exit"
    BY <1>2 DEF Commit, FlushLast, NothingToFlush, Rename, RenameFails, Unlink, UnlinkFails
  <2>2. pc[p] = "flush" /\ pc'[p] = "rename" => StepsLeft(p) = 4 /\ StepsLeft(p)' = 3
    BY DEF StepsLeft
  <2>3. pc[p] = "rename" /\ pc'[p] \in {"unlink", "exit"} =>
           StepsLeft(p) = 3 /\ StepsLeft(p)' \in {1, 2}
    BY DEF StepsLeft
  <2>4. pc[p] = "unlink" /\ pc'[p] = "exit" => StepsLeft(p) = 2 /\ StepsLeft(p)' = 1
    BY DEF StepsLeft
  <2> QED BY <2>1, <2>2, <2>3, <2>4
<1>3. CASE Exit(p)
  <2>1. pc[p] = "exit" /\ pc'[p] = "exited"
    BY <1>3 DEF Exit
  <2> QED BY <2>1 DEF StepsLeft
<1> QED BY <1>1, <1>2, <1>3

\* Nothing of another process goes into the measure.
LEMMA OthersStepsLeft ==
    ASSUME TypeOK, NEW p \in Procs, NEW q \in Procs \ {p}, Step(p) \/ Kill(p), cmd' = cmd
    PROVE  StepsLeft(q)' = StepsLeft(q)
<1>1. SameProc(q)
  BY OthersKeep
<1> QED BY <1>1 DEF SameProc, StepsLeft, Input

\* Every run ends after boundedly many steps, however its calls fail and whatever
\* the other processes do: no loop of the program can go on for ever
\* (main.rs:629-666 and 678-709).
THEOREM EveryRunIsBounded == Spec => EveryStepCounts
<1> DEFINE Counts(p) == /\ StepsLeft(p)' \in 0..(StepsLeft(p) - 1)
                        /\ \A q \in Procs \ {p} : StepsLeft(q)' = StepsLeft(q)
<1>1. ASSUME TypeOK, TypeOK', [Next]_vars
      PROVE  [\E p \in Procs : Counts(p)]_vars
  <2>1. ASSUME NEW p \in Procs, Step(p) \/ Kill(p) PROVE Counts(p)
    <3>1. cmd' = cmd
      BY <1>1, GivenStays
    <3>2. StepsLeft(p)' < StepsLeft(p)
      BY <1>1, <2>1, <3>1, PrepareCounts, ScanCounts, CommitCounts DEF Step
    <3>3. StepsLeft(p) \in Nat /\ StepsLeft(p)' \in Nat
      <4>1. StepsLeft(p) \in Nat
        BY <1>1, StepsLeftType
      <4>2. (TypeOK => StepsLeft(p) \in Nat)'
        BY StepsLeftType, PTL
      <4> QED BY <1>1, <4>1, <4>2
    <3>4. StepsLeft(p)' \in 0..(StepsLeft(p) - 1)
      BY <3>2, <3>3
    <3>5. \A q \in Procs \ {p} : StepsLeft(q)' = StepsLeft(q)
      BY <1>1, <2>1, <3>1, OthersStepsLeft
    <3> QED BY <3>4, <3>5
  <2> QED BY <1>1, <2>1 DEF Next, AllHalted
<1>2. TypeOK /\ TypeOK' /\ [Next]_vars => [\E p \in Procs : Counts(p)]_vars
  BY <1>1
<1> QED BY <1>2, TypeCorrect, PTL DEF Spec, EveryStepCounts
=============================================================================
