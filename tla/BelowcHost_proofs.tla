--------------------------- MODULE BelowcHost_proofs ---------------------------
(***************************************************************************)
(* What holds of the host program for any number of runs with one `out`,   *)
(* any texts, any capacity of the buffer and any combination of faults.    *)
(***************************************************************************)
EXTENDS BelowcHost, BelowCode_proofs, SequenceTheorems

-----------------------------------------------------------------------------
(* Type correctness.                                                       *)

\* A run between create and its return has a file.
HasFile == \A p \in Procs : pc[p] \in Writing => fd[p] \in Files

TInv == TypeOK /\ HasFile

LEMMA TextType == ASSUME NEW p \in Procs, TypeOK PROVE cmd[p].text \in Seq(Nat)
BY CommandsAssumption DEF TypeOK

LEMMA HostWordType ==
    ASSUME NEW a \in 0..7
    PROVE  HostWordOf(a) \in HostWords
BY DEF HostWords

\* Writing over a file gives a file.
LEMMA OverwrittenType ==
    ASSUME NEW c \in Contents, NEW o \in Nat, NEW w \in Contents
    PROVE  Overwritten(c, o, w) \in Contents
<1> DEFINE S == HostWords \cup {Hole, Torn}
           end == o + Len(w)
           size == IF Len(c) > end THEN Len(c) ELSE end
<1>1. c \in Seq(S) /\ w \in Seq(S) /\ Hole \in S /\ Contents = Seq(S)
  BY DEF Contents
<1> HIDE DEF S
<1>2. size \in Nat
  BY <1>1
<1>3. ASSUME NEW k \in 1..size
      PROVE  (IF k \in (o + 1)..end THEN w[k - o]
              ELSE IF k =< Len(c) THEN c[k] ELSE Hole) \in S
  <2>1. CASE k \in (o + 1)..end
    <3>1. k - o \in 1..Len(w)
      BY <1>1, <2>1
    <3>2. w[k - o] \in S
      BY <1>1, <3>1
    <3> QED BY <2>1, <3>2
  <2>2. CASE k \notin (o + 1)..end
    BY <1>1, <2>2
  <2> QED BY <2>1, <2>2
<1> HIDE DEF size, end
<1>4. [k \in 1..size |-> IF k \in (o + 1)..end THEN w[k - o]
                         ELSE IF k =< Len(c) THEN c[k] ELSE Hole] \in Seq(S)
  BY <1>2, <1>3
<1> QED BY <1>1, <1>4 DEF Overwritten, size, end

LEMMA WriteType ==
    ASSUME TInv, NEW p \in Procs, pc[p] \in Writing, NEW w \in Contents, Write(p, w)
    PROVE  data' \in [Files -> Contents] /\ off' \in [Procs -> Nat]
<1>1. fd[p] \in Files /\ off[p] \in Nat
  BY DEF TInv, TypeOK, HasFile
<1>2. data[fd[p]] \in Contents
  BY <1>1 DEF TInv, TypeOK
<1>3. Overwritten(data[fd[p]], off[p], w) \in Contents
  BY <1>1, <1>2, OverwrittenType
<1>4. off[p] + Len(w) \in Nat
  <2>1. Len(w) \in Nat
    BY DEF Contents
  <2> QED BY <1>1, <2>1
<1> QED BY <1>3, <1>4 DEF Write, TInv, TypeOK

\* What a buffer holds, and any part of it, can be written.
LEMMA BufferType ==
    ASSUME NEW b \in Seq(HostWords)
    PROVE  /\ b \in Contents
           /\ \A n \in 0..(Len(b) - 1) :
                /\ SubSeq(b, 1, n) \in Contents
                /\ SubSeq(b, n + 1, Len(b)) \in Seq(HostWords)
                /\ Len(SubSeq(b, n + 1, Len(b))) = Len(b) - n
                /\ \A cut \in {<<>>, <<Torn>>} : SubSeq(b, 1, n) \o cut \in Contents
<1> DEFINE S == HostWords \cup {Hole, Torn}
<1>1. Contents = Seq(S) /\ b \in Seq(S) /\ Torn \in S
  BY DEF Contents
<1> HIDE DEF S
<1>2. ASSUME NEW n \in 0..(Len(b) - 1)
      PROVE  /\ SubSeq(b, 1, n) \in Seq(S)
             /\ SubSeq(b, n + 1, Len(b)) \in Seq(HostWords)
             /\ Len(SubSeq(b, n + 1, Len(b))) = Len(b) - n
  <2>1. Len(b) \in Nat /\ n \in Nat /\ n < Len(b)
    OBVIOUS
  <2>2. \A k \in 1..n : b[k] \in S
    BY <1>1, <2>1
  <2>3. \A k \in (n + 1)..Len(b) : b[k] \in HostWords
    BY <2>1
  <2>4. SubSeq(b, 1, n) \in Seq(S)
    BY <2>1, <2>2, SubSeqProperties, <1>1
  <2>5. SubSeq(b, n + 1, Len(b)) \in Seq(HostWords)
    BY <2>1, <2>3, SubSeqProperties
  <2>6. Len(SubSeq(b, n + 1, Len(b))) = Len(b) - n
    BY <2>1
  <2> QED BY <2>4, <2>5, <2>6
<1>3. <<>> \in Seq(S) /\ <<Torn>> \in Seq(S)
  BY <1>1
<1>4. \A x, y \in Seq(S) : x \o y \in Seq(S)
  OBVIOUS
<1> QED BY <1>1, <1>2, <1>3, <1>4

LEMMA InitTInv == Init => TInv
<1> SUFFICES ASSUME Init PROVE TInv
  OBVIOUS
<1>1. \A p \in Procs : Len(cmd[p].text) \in Nat
  BY CommandsAssumption DEF Init
<1>2. Earlier \in Contents /\ <<>> \in Contents
  <2>1. HostWordOf(0) \in HostWords /\ HostWordOf(7) \in HostWords
    BY HostWordType
  <2> QED BY <2>1 DEF Earlier, Contents
<1>3. data \in [Files -> Contents]
  BY <1>2 DEF Init
<1>4. buf \in [Procs -> Seq(HostWords)] /\ \A p \in Procs : Len(buf[p]) =< Capacity
  BY CapacityAssumption DEF Init
<1> QED BY <1>1, <1>3, <1>4 DEF Init, TInv, TypeOK, HasFile, Files, Running, Writing

LEMMA StepTInv == TInv /\ [Next]_vars => TInv'
<1> SUFFICES ASSUME TInv, [Next]_vars PROVE TInv'
  OBVIOUS
<1> USE DEF TInv, TypeOK, HasFile, Goto, End, scanner, names, history, Running, Writing
<1>1. ASSUME NEW p \in Procs, Start(p) \/ StartFails(p) PROVE TInv'
  BY <1>1 DEF Start, StartFails
<1>2. ASSUME NEW p \in Procs, Create(p) \/ CreateFails(p) PROVE TInv'
  <2>1. CASE Create(p)
    <3>1. <<>> \in Contents
      BY DEF Contents
    <3>2. PICK f : /\ f = IF tmp = Absent THEN p ELSE tmp
                   /\ tmp' = f /\ fd' = [fd EXCEPT ![p] = f]
                   /\ data' = [data EXCEPT ![f] = <<>>]
      BY <2>1 DEF Create
    <3>3. f \in Files
      BY <3>2 DEF Files
    <3>4. data' \in [Files -> Contents]
      BY <3>1, <3>2
    <3>5. met' \in [Procs -> BOOLEAN]
      BY <2>1 DEF Create
    <3> QED BY <2>1, <3>2, <3>3, <3>4, <3>5 DEF Create
  <2>2. CASE CreateFails(p)
    BY <2>2 DEF CreateFails
  <2> QED BY <1>2, <2>1, <2>2
<1>3. ASSUME NEW p \in Procs, CompileStream(p) PROVE TInv'
  <2> USE DEF More
  <2>1. CASE SkipChar(p)
    BY <2>1, TextType DEF SkipChar
  <2>2. CASE Letter(p)
    BY <2>2, TextType, AccumulateType DEF Letter
  <2>3. CASE EndLine(p)
    BY <2>3 DEF EndLine
  <2>4. CASE ForeignChar(p)
    BY <2>4 DEF ForeignChar
  <2>5. CASE EndOfText(p)
    BY <2>5 DEF EndOfText
  <2>6. CASE Emit(p)
    <3>1. HostWordOf(acc[p]) \in HostWords
      BY HostWordType
    <3>2. data' \in [Files -> Contents] /\ off' \in [Procs -> Nat]
      BY <2>6, BufferType, WriteType DEF Emit
    <3>3. buf' \in [Procs -> Seq(HostWords)] /\ \A q \in Procs : Len(buf'[q]) =< Capacity
      <4>1. CASE Len(buf[p]) = Capacity
        <5> DEFINE one == << HostWordOf(acc[p]) >>
        <5>1. one \in Seq(HostWords) /\ Len(one) =< Capacity
          BY <3>1, CapacityAssumption
        <5>2. buf' = [buf EXCEPT ![p] = one]
          BY <2>6, <4>1 DEF Emit
        <5> HIDE DEF one
        <5> QED BY <5>1, <5>2
      <4>2. CASE Len(buf[p]) # Capacity
        <5>1. /\ Append(buf[p], HostWordOf(acc[p])) \in Seq(HostWords)
              /\ Len(Append(buf[p], HostWordOf(acc[p]))) =< Capacity
          BY <3>1, <4>2, CapacityAssumption
        <5> QED BY <2>6, <4>2, <5>1 DEF Emit
      <4> QED BY <4>1, <4>2
    <3> QED BY <2>6, <3>2, <3>3 DEF Emit
  <2>7. CASE EmitFails(p)
    <3>1. PICK n \in 0..(Capacity - 1) :
                 /\ Write(p, SubSeq(buf[p], 1, n))
                 /\ buf' = [buf EXCEPT ![p] = SubSeq(@, n + 1, Capacity)]
      BY <2>7 DEF EmitFails
    <3>2. Len(buf[p]) = Capacity /\ buf[p] \in Seq(HostWords) /\ pc[p] = "emit"
      BY <2>7 DEF EmitFails
    <3>3. /\ SubSeq(buf[p], 1, n) \in Contents
          /\ SubSeq(buf[p], n + 1, Capacity) \in Seq(HostWords)
          /\ Len(SubSeq(buf[p], n + 1, Capacity)) = Capacity - n
      BY <3>2, BufferType
    <3>4. data' \in [Files -> Contents] /\ off' \in [Procs -> Nat]
      BY <3>1, <3>2, <3>3, WriteType
    <3>5. buf' \in [Procs -> Seq(HostWords)] /\ \A q \in Procs : Len(buf'[q]) =< Capacity
      BY <3>1, <3>3, CapacityAssumption
    <3> QED BY <2>7, <3>4, <3>5 DEF EmitFails
  <2> QED BY <1>3, <2>1, <2>2, <2>3, <2>4, <2>5, <2>6, <2>7 DEF CompileStream
<1>4. ASSUME NEW p \in Procs, DropWriter(p) \/ DropWriterFails(p) PROVE TInv'
  <2>1. <<>> \in Seq(HostWords) /\ Len(<<>>) =< Capacity
    BY CapacityAssumption
  <2>2. CASE DropWriter(p)
    <3>1. data' \in [Files -> Contents] /\ off' \in [Procs -> Nat]
      BY <2>2, BufferType, WriteType DEF DropWriter
    <3> QED BY <2>1, <2>2, <3>1 DEF DropWriter
  <2>3. CASE DropWriterFails(p)
    <3>1. PICK n \in 0..(Len(buf[p]) - 1), cut \in {<<>>, <<Torn>>} :
                 Write(p, SubSeq(buf[p], 1, n) \o cut)
      BY <2>3 DEF DropWriterFails
    <3>2. SubSeq(buf[p], 1, n) \o cut \in Contents /\ pc[p] \in {"drop", "abort"}
      BY <2>3, BufferType DEF DropWriterFails
    <3>3. data' \in [Files -> Contents] /\ off' \in [Procs -> Nat]
      BY <3>1, <3>2, WriteType
    <3> QED BY <2>1, <2>3, <3>3 DEF DropWriterFails
  <2> QED BY <1>4, <2>2, <2>3
<1>5. ASSUME NEW p \in Procs,
             Clean(p) \/ CleanFails(p) \/ Sync(p) \/ SyncFails(p) \/ Check(p)
      PROVE  TInv'
  BY <1>5 DEF Clean, CleanFails, Sync, SyncFails, Check
<1>6. ASSUME NEW p \in Procs, Remove(p) \/ RemoveFails(p) \/ Rename(p) \/ RenameFails(p)
      PROVE  TInv'
  BY <1>6 DEF Remove, RemoveFails, Rename, RenameFails
<1>7. ASSUME NEW p \in Procs, Exit(p) \/ Kill(p) PROVE TInv'
  BY <1>7 DEF Exit, Kill
<1>8. CASE UNCHANGED vars
  BY <1>8 DEF vars
<1> QED BY <1>1, <1>2, <1>3, <1>4, <1>5, <1>6, <1>7, <1>8
        DEF Next, Step, AtomicWrite, AllEnded

\* Type correctness, with a buffer that never holds more than its capacity and
\* a file for every run that writes.
THEOREM TypeCorrect == Spec => []TypeOK
<1>1. Init => TInv
  BY InitTInv
<1>2. TInv /\ [Next]_vars => TInv'
  BY StepTInv
<1>3. TInv => TypeOK
  BY DEF TInv
<1> QED BY <1>1, <1>2, <1>3, PTL DEF Spec

-----------------------------------------------------------------------------
(* Whose the files are.                                                    *)

\* Runs that write at the same time know that they met.
WritersMet ==
    \A p, q \in Procs :
        p # q /\ pc[p] \in Writing /\ pc[q] \in Writing => met[p] /\ met[q]

\* The names `out` and out.tmp are never bound to the same file.
NamesApart == tmp = out => tmp = Absent

\* A file that some name or some run knows was made by a run that is past create.
MadeByCreate ==
    \A p \in Procs :
        (out = p \/ tmp = p \/ \E q \in Procs : fd[q] = p) => pc[p] \notin {"start", "create"}

\* A run that can still write to what `out` shows met another one.
LateWritersMet ==
    \A p \in Procs : pc[p] \in Writing /\ fd[p] = out => met[p]

\* A run says where it ended when it has.
AtTheEnd == \A p \in Procs : at[p] # "none" => pc[p] \notin Running

HInv ==
    /\ TInv
    /\ WritersMet
    /\ NamesApart
    /\ MadeByCreate
    /\ LateWritersMet
    /\ AtTheEnd
    /\ GapExplained

LEMMA InitHInv == Init => HInv
<1> SUFFICES ASSUME Init PROVE HInv
  OBVIOUS
<1>1. TInv
  BY InitTInv
<1>2. /\ out \in {Absent, Before} /\ tmp \in {Absent, Stale}
      /\ \A p \in Procs : pc[p] = "start" /\ fd[p] = Absent /\ at[p] = "none"
  BY DEF Init
<1>3. MadeByCreate /\ NamesApart
  BY <1>2, ProcsAssumption, FilesAssumption DEF MadeByCreate, NamesApart
<1>4. WritersMet /\ LateWritersMet /\ AtTheEnd
  BY <1>2 DEF WritersMet, LateWritersMet, AtTheEnd, Writing
<1>5. GapExplained
  BY <1>2 DEF Init, GapExplained, Renamed
<1> QED BY <1>1, <1>3, <1>4, <1>5 DEF HInv

\* create binds out.tmp to a file that `out` does not show, and all who write
\* then have met.
LEMMA CreateHInv ==
    ASSUME HInv, NEW p \in Procs, Create(p)
    PROVE  /\ WritersMet' /\ NamesApart' /\ MadeByCreate' /\ LateWritersMet'
           /\ AtTheEnd' /\ GapExplained'
<1> USE DEF Writing, Running
<1>1. PICK f : /\ f = IF tmp = Absent THEN p ELSE tmp
               /\ tmp' = f /\ fd' = [fd EXCEPT ![p] = f]
  BY DEF Create
<1>2. /\ pc[p] = "create" /\ pc' = [pc EXCEPT ![p] = "scan"]
      /\ out' = out /\ at' = at /\ first' = first
  BY DEF Create, Goto, names
<1>3. /\ pc \in [Procs -> Running \cup {"succeeded", "failed", "killed"}]
      /\ fd \in [Procs -> Files \cup {Absent}]
  BY DEF HInv, TInv, TypeOK
<1>4. f # out /\ f # Absent
  BY <1>1, <1>2, ProcsAssumption DEF HInv, NamesApart, MadeByCreate
<1>5. \A q \in Procs : q # p /\ pc[q] \in Writing => met'[p] /\ met'[q]
  BY DEF Create
<1>6. \A q \in Procs : met[q] => met'[q]
  BY DEF Create
<1>7. WritersMet'
  BY <1>2, <1>3, <1>5, <1>6 DEF HInv, WritersMet
<1>8. NamesApart'
  BY <1>1, <1>2, <1>4 DEF NamesApart
<1>9. MadeByCreate'
  BY <1>1, <1>2, <1>3 DEF HInv, MadeByCreate
<1>10. LateWritersMet'
  BY <1>1, <1>2, <1>3, <1>4, <1>6 DEF HInv, LateWritersMet
<1>11. AtTheEnd'
  BY <1>2, <1>3 DEF HInv, AtTheEnd
<1>12. GapExplained'
  BY <1>2, <1>3 DEF HInv, GapExplained, Renamed
<1> QED BY <1>7, <1>8, <1>9, <1>10, <1>11, <1>12

\* rename shows the file of out.tmp, which only runs that met still write to.
LEMMA RenameHInv ==
    ASSUME HInv, NEW p \in Procs, Rename(p)
    PROVE  /\ WritersMet' /\ NamesApart' /\ MadeByCreate' /\ LateWritersMet'
           /\ AtTheEnd' /\ GapExplained'
<1> USE DEF Writing, Running
<1>1. /\ pc[p] = "rename" /\ pc' = [pc EXCEPT ![p] = "done"]
      /\ tmp # Absent /\ out' = tmp /\ tmp' = Absent
      /\ UNCHANGED << at, fd, met, first >>
  BY DEF Rename, Goto, history
<1>2. /\ pc \in [Procs -> Running \cup {"succeeded", "failed", "killed"}]
      /\ at \in [Procs -> Running \cup {"none"}]
  BY DEF HInv, TInv, TypeOK
<1>3. \A q \in Procs : q # p /\ pc[q] \in Writing => met[q]
  BY <1>1 DEF HInv, WritersMet
<1>4. WritersMet'
  BY <1>1, <1>2 DEF HInv, WritersMet
<1>5. NamesApart'
  BY <1>1 DEF NamesApart
<1>6. MadeByCreate'
  BY <1>1, <1>2, ProcsAssumption DEF HInv, MadeByCreate
<1>7. LateWritersMet'
  BY <1>1, <1>2, <1>3 DEF LateWritersMet
<1>8. AtTheEnd'
  BY <1>1, <1>2 DEF HInv, AtTheEnd
<1>9. GapExplained'
  BY <1>1 DEF GapExplained
<1> QED BY <1>4, <1>5, <1>6, <1>7, <1>8, <1>9

\* Every other step of p moves p on, and does no more to the names than unbind
\* one: out.tmp, or `out` on the way to rename.
LEMMA OtherHInv ==
    ASSUME HInv, NEW p \in Procs, NEW l,
           pc' = [pc EXCEPT ![p] = l],
           pc[p] \in Running, l \notin {"start", "done"},
           l = "create" => pc[p] = "start", l \in Writing => pc[p] \in Writing,
           \/ at' = at /\ l \in Running /\ (pc[p] = "rename" => l = "rename")
           \/ at' = [at EXCEPT ![p] = pc[p]] /\ l \notin Running,
           tmp' \in {tmp, Absent},
           out' = out \/ (out' = Absent /\ l = "rename"),
           UNCHANGED << fd, met, first >>
    PROVE  /\ WritersMet' /\ NamesApart' /\ MadeByCreate' /\ LateWritersMet'
           /\ AtTheEnd' /\ GapExplained'
<1> USE DEF Writing, Running
<1>1. /\ pc \in [Procs -> Running \cup {"succeeded", "failed", "killed"}]
      /\ at \in [Procs -> Running \cup {"none"}]
      /\ Absent \notin Procs
      /\ \A q \in Procs : pc[q] \in Writing => fd[q] \in Files /\ fd[q] # Absent
  BY ProcsAssumption, FilesAssumption DEF HInv, TInv, TypeOK, HasFile, Files
<1>2. WritersMet'
  BY <1>1 DEF HInv, WritersMet
<1>3. NamesApart'
  BY DEF HInv, NamesApart
<1>4. MadeByCreate'
  BY <1>1 DEF HInv, MadeByCreate
<1>5. LateWritersMet'
  BY <1>1 DEF HInv, LateWritersMet
<1>6. AtTheEnd'
  BY <1>1 DEF HInv, AtTheEnd
<1>7. GapExplained'
  BY <1>1 DEF HInv, GapExplained, AtTheEnd, Renamed
<1> QED BY <1>2, <1>3, <1>4, <1>5, <1>6, <1>7


LEMMA StepHInv == HInv /\ [Next]_vars => HInv'
<1> SUFFICES ASSUME HInv, [Next]_vars PROVE HInv'
  OBVIOUS
<1> DEFINE Kept == /\ WritersMet' /\ NamesApart' /\ MadeByCreate' /\ LateWritersMet'
                   /\ AtTheEnd' /\ GapExplained'
<1>1. TInv /\ TInv'
  BY StepTInv DEF HInv
<1>2. pc \in [Procs -> Running \cup {"succeeded", "failed", "killed"}]
  BY <1>1 DEF TInv, TypeOK
<1>3. ASSUME UNCHANGED << pc, fd, out, tmp, at, met, first >> PROVE Kept
  BY <1>3 DEF HInv, WritersMet, NamesApart, MadeByCreate, LateWritersMet, AtTheEnd,
              GapExplained, Renamed
<1> HIDE DEF Kept
<1>4. ASSUME NEW p \in Procs, NEW l,
             pc' = [pc EXCEPT ![p] = l],
             pc[p] \in Running, l \notin {"start", "done"},
             l = "create" => pc[p] = "start", l \in Writing => pc[p] \in Writing,
             \/ at' = at /\ l \in Running /\ (pc[p] = "rename" => l = "rename")
             \/ at' = [at EXCEPT ![p] = pc[p]] /\ l \notin Running,
             tmp' \in {tmp, Absent},
             out' = out \/ (out' = Absent /\ l = "rename"),
             UNCHANGED << fd, met, first >>
      PROVE  Kept
  BY <1>4, OtherHInv DEF Kept
<1>14. ASSUME NEW p \in Procs, NEW l \in {"succeeded", "failed", "killed"}, pc[p] \in Running,
              End(p, l), tmp' \in {tmp, Absent}, UNCHANGED << out, fd, first >>
       PROVE  Kept
  <2>1. /\ pc' = [pc EXCEPT ![p] = l] /\ at' = [at EXCEPT ![p] = pc[p]] /\ met' = met
        /\ l \notin Running /\ l \notin {"start", "done", "create"}
    BY <1>14 DEF End, Goto, Running, Writing
  <2> QED BY <1>4, <1>14, <2>1 DEF Running
<1> USE DEF names, history, Running, Writing
<1>5. ASSUME NEW p \in Procs, Start(p) \/ StartFails(p) PROVE Kept
  <2>1. CASE Start(p)
    BY <1>4, <2>1 DEF Start, Goto
  <2>2. CASE StartFails(p)
    BY <1>14, <2>2 DEF StartFails
  <2> QED BY <1>5, <2>1, <2>2
<1>6. ASSUME NEW p \in Procs, Create(p) \/ CreateFails(p) PROVE Kept
  <2>1. CASE Create(p)
    BY <2>1, CreateHInv DEF Kept
  <2>2. CASE CreateFails(p)
    BY <1>14, <2>2 DEF CreateFails
  <2> QED BY <1>6, <2>1, <2>2
<1>7. ASSUME NEW p \in Procs, CompileStream(p) PROVE Kept
  <2>1. CASE SkipChar(p) \/ Letter(p)
    BY <1>3, <2>1 DEF SkipChar, Letter
  <2>2. CASE EndLine(p)
    BY <1>4, <2>2 DEF EndLine, Goto
  <2>3. CASE ForeignChar(p)
    BY <1>4, <2>3 DEF ForeignChar, Goto
  <2>4. CASE EndOfText(p)
    BY <1>4, <2>4 DEF EndOfText, Goto
  <2>5. CASE Emit(p)
    <3>1. /\ pc[p] = "emit" /\ pc' = [pc EXCEPT ![p] = "scan"]
          /\ UNCHANGED << fd, out, tmp, at, met, first >>
      BY <2>5 DEF Emit, Goto
    <3> QED BY <1>4, <3>1
  <2>6. CASE EmitFails(p)
    <3>1. /\ pc[p] = "emit" /\ pc' = [pc EXCEPT ![p] = "abort"]
          /\ UNCHANGED << fd, out, tmp, at, met, first >>
      BY <2>6 DEF EmitFails, Goto
    <3> QED BY <1>4, <3>1
  <2> QED BY <1>7, <2>1, <2>2, <2>3, <2>4, <2>5, <2>6 DEF CompileStream
<1>8. ASSUME NEW p \in Procs, DropWriter(p) \/ DropWriterFails(p) PROVE Kept
  <2> DEFINE l == IF pc[p] = "drop" THEN "sync" ELSE "clean"
  <2>1. /\ pc' = [pc EXCEPT ![p] = l] /\ pc[p] \in {"drop", "abort"}
        /\ UNCHANGED << fd, out, tmp, at, met, first >>
    BY <1>8 DEF DropWriter, DropWriterFails, Goto
  <2> QED BY <1>4, <2>1
<1>9. ASSUME NEW p \in Procs, Clean(p) \/ CleanFails(p) \/ Sync(p) \/ SyncFails(p)
      PROVE  Kept
  <2>1. CASE Clean(p)
    BY <1>14, <2>1 DEF Clean
  <2>2. CASE CleanFails(p)
    BY <1>14, <2>2 DEF CleanFails
  <2>3. CASE Sync(p)
    BY <1>4, <2>3 DEF Sync, Goto
  <2>4. CASE SyncFails(p)
    BY <1>14, <2>4 DEF SyncFails
  <2> QED BY <1>9, <2>1, <2>2, <2>3, <2>4
<1>10. ASSUME NEW p \in Procs, Check(p) \/ Remove(p) \/ RemoveFails(p) PROVE Kept
  <2>1. CASE Check(p)
    BY <1>4, <2>1 DEF Check, Goto
  <2>2. CASE Remove(p)
    BY <1>4, <2>2 DEF Remove, Goto
  <2>3. CASE RemoveFails(p)
    BY <1>14, <2>3 DEF RemoveFails
  <2> QED BY <1>10, <2>1, <2>2, <2>3
<1>11. ASSUME NEW p \in Procs, Rename(p) \/ RenameFails(p) \/ Exit(p) \/ Kill(p)
       PROVE  Kept
  <2>1. CASE Rename(p)
    BY <2>1, RenameHInv DEF Kept
  <2>2. CASE RenameFails(p)
    BY <1>14, <2>2 DEF RenameFails
  <2>3. CASE Kill(p)
    BY <1>14, <2>3 DEF Kill
  <2>4. CASE Exit(p)
    BY <1>14, <2>4 DEF Exit
  <2> QED BY <1>11, <2>1, <2>2, <2>3, <2>4
<1>12. ASSUME UNCHANGED vars PROVE Kept
  BY <1>3, <1>12 DEF vars, scanner
<1>13. Kept
  <2> HIDE DEF Kept, names, history, Running, Writing
  <2>1. CASE \E p \in Procs : Step(p) \/ Kill(p)
    <3>1. PICK p \in Procs : Step(p) \/ Kill(p)
      BY <2>1
    <3> QED BY <1>5, <1>6, <1>7, <1>8, <1>9, <1>10, <1>11, <3>1 DEF Step, AtomicWrite
  <2> QED BY <1>12, <2>1 DEF Next, AllEnded
<1> QED BY <1>1, <1>13 DEF HInv, Kept

\* The inductive invariant about the two names and who writes to their files.
THEOREM HostInvariance == Spec => []HInv
<1>1. Init => HInv
  BY InitHInv
<1>2. HInv /\ [Next]_vars => HInv'
  BY StepHInv
<1> QED BY <1>1, <1>2, PTL DEF Spec

\* `out` is missing only while a run is between its removal and the rename, or
\* because one failed or was killed there (fs_atomic.rs:32-35).
THEOREM GapIsExplained == Spec => []GapExplained
<1>1. HInv => GapExplained
  BY DEF HInv
<1> QED BY <1>1, HostInvariance, PTL

-----------------------------------------------------------------------------
\* A step that writes to the file `out` shows is one of a run that met another.
LEMMA StepStable ==
    HInv /\ [Next]_vars =>
        \A f \in Files : out = f /\ out' = f =>
            \/ data'[f] = data[f]
            \/ \E p \in Procs : pc'[p] # pc[p] /\ fd[p] = f /\ met[p]
<1> SUFFICES ASSUME HInv, [Next]_vars, NEW f \in Files, out = f, out' = f,
                    data'[f] # data[f]
             PROVE  \E p \in Procs : pc'[p] # pc[p] /\ fd[p] = f /\ met[p]
  OBVIOUS
<1>1. data \in [Files -> Contents]
  BY DEF HInv, TInv, TypeOK
<1>2. ASSUME NEW p \in Procs, NEW w, Write(p, w), pc[p] \in Writing
      PROVE  fd[p] = f /\ met[p]
  <2>1. fd[p] = f
    BY <1>1, <1>2 DEF Write
  <2> QED BY <1>2, <2>1 DEF HInv, LateWritersMet
<1>3. ASSUME NEW p \in Procs, Create(p) PROVE FALSE
  <2>1. PICK g : g = (IF tmp = Absent THEN p ELSE tmp) /\ data' = [data EXCEPT ![g] = <<>>]
    BY <1>3 DEF Create
  <2>2. g # out
    BY <1>3, <2>1, ProcsAssumption DEF HInv, NamesApart, MadeByCreate, Create
  <2> QED BY <1>1, <2>1, <2>2
<1>4. ASSUME NEW p \in Procs,
             Emit(p) \/ EmitFails(p) \/ DropWriter(p) \/ DropWriterFails(p)
      PROVE  pc'[p] # pc[p] /\ fd[p] = f /\ met[p]
  <2>1. pc[p] \in Writing /\ pc'[p] # pc[p]
    BY <1>4 DEF Emit, EmitFails, DropWriter, DropWriterFails, Goto, Writing, HInv, TInv,
       TypeOK
  <2>2. \E w : Write(p, w)
    BY <1>1, <1>4 DEF Emit, EmitFails, DropWriter, DropWriterFails
  <2> QED BY <1>2, <2>1, <2>2
<1>5. PICK p \in Procs :
         Create(p) \/ Emit(p) \/ EmitFails(p) \/ DropWriter(p) \/ DropWriterFails(p)
  BY DEF Next, Step, AtomicWrite, CompileStream, AllEnded, vars, Start, StartFails, Kill,
         CreateFails, SkipChar, Letter, EndLine, ForeignChar, EndOfText,
         Clean, CleanFails, Sync, SyncFails, Check, Remove,
         RemoveFails, Rename, RenameFails, Exit
<1> QED BY <1>3, <1>4, <1>5

\* A published file changes only in a step of a run that has shared out.tmp
\* (fs_atomic.rs:20 and 35).
THEOREM PublishedStays == Spec => PublishedIsStable
<1>1. HInv /\ [Next]_vars =>
        [ \A f \in Files : out = f /\ out' = f =>
            \/ data'[f] = data[f]
            \/ \E p \in Procs : pc'[p] # pc[p] /\ fd[p] = f /\ met[p] ]_vars
  BY StepStable
<1> QED BY <1>1, HostInvariance, PTL DEF Spec, PublishedIsStable


-----------------------------------------------------------------------------
(* What a run that is alone writes.                                        *)

\* The first syllable of a vowel.
LEMMA SyllableOfVowel ==
    ASSUME NEW v \in 0..20
    PROVE  LET c == 44032 + 28 * v
           IN  c \in Hangul /\ c \in Nat /\ Jong(c) = 0 /\ Jung(c) = v
<1> DEFINE c == 44032 + 28 * v
<1>1. c \in Nat /\ c \in 44032..55203 /\ c - 44032 = 28 * v
  OBVIOUS
<1>2. (28 * v) % 28 = 0 /\ (28 * v) \div 28 = v /\ v % 21 = v
  OBVIOUS
<1> QED BY <1>1, <1>2 DEF Hangul, Jong, Jung

\* A letter of this program stands, canonically, for a letter of the language
\* with its vowel as the state; other characters stand for themselves.
LEMMA CanonicalLetter ==
    ASSUME NEW cp \in Nat, HostIsLetter(cp),
           NEW c, c = 44032 + 28 * JungTable[Jung(cp) + 1]
    PROVE  c \in Nat /\ IsLetter(c) /\ StateOf(c) = Jung(cp) /\ Jung(cp) \in 0..7
<1>1. Jung(cp) \in 0..7
  BY DEF HostIsLetter, Jung, Hangul
<1>2. \A s \in 0..7 : JungTable[s + 1] \in 0..20
  BY DEF JungTable
<1>3. \A s, r \in 0..7 : JungTable[s + 1] = JungTable[r + 1] => s = r
  BY DEF JungTable
<1> DEFINE v == JungTable[Jung(cp) + 1]
<1>4. v \in 0..20
  BY <1>1, <1>2
<1>5. c \in Hangul /\ c \in Nat /\ Jong(c) = 0 /\ Jung(c) = v
  BY <1>4, SyllableOfVowel
<1>6. IsLetter(c)
  BY <1>1, <1>5 DEF IsLetter
<1>7. StateOf(c) = Jung(cp)
  BY <1>1, <1>3, <1>5 DEF StateOf
<1> QED BY <1>1, <1>5, <1>6, <1>7

LEMMA CanonicalType ==
    ASSUME NEW text \in Seq(Nat)
    PROVE  /\ Canonical(text) \in Seq(Nat) /\ Len(Canonical(text)) = Len(text)
           /\ \A k \in 1..Len(text) :
                IF HostIsLetter(text[k])
                THEN /\ IsLetter(Canonical(text)[k])
                     /\ StateOf(Canonical(text)[k]) = Jung(text[k])
                ELSE Canonical(text)[k] = text[k]
<1> DEFINE At(k) == IF HostIsLetter(text[k])
                    THEN 44032 + 28 * JungTable[Jung(text[k]) + 1] ELSE text[k]
<1>1. Canonical(text) = [k \in 1..Len(text) |-> At(k)]
  BY DEF Canonical
<1>2. ASSUME NEW k \in 1..Len(text)
      PROVE  /\ At(k) \in Nat
             /\ IF HostIsLetter(text[k])
                THEN IsLetter(At(k)) /\ StateOf(At(k)) = Jung(text[k])
                ELSE At(k) = text[k]
  <2>1. text[k] \in Nat
    OBVIOUS
  <2>2. CASE HostIsLetter(text[k])
    <3>1. At(k) = 44032 + 28 * JungTable[Jung(text[k]) + 1]
      BY <2>2
    <3> HIDE DEF At
    <3> QED BY <2>1, <2>2, <3>1, CanonicalLetter
  <2>3. CASE ~ HostIsLetter(text[k])
    BY <2>1, <2>3
  <2> QED BY <2>2, <2>3
<1> HIDE DEF At
<1> QED BY <1>1, <1>2

\* The words of the language as this program writes them.
HostOf(ws) == [ n \in DOMAIN ws |-> IF ws[n] = LUT[1] THEN HostWordOf(0) ELSE ws[n] ]

\* `done` holds the words of the lines that end at S.
HoldsLines(done, t, S) ==
    \E ws \in Seq(Words) : AreWordsOf(ws, t, S) /\ done = HostOf(ws)

\* It writes the word of an accumulator as that of the language.
LEMMA HostWordIsWord ==
    ASSUME NEW a \in 0..7
    PROVE  HostWordOf(a) = IF WordOf(a) = LUT[1] THEN HostWordOf(0) ELSE WordOf(a)
<1>1. a = 0 \/ a = 1 \/ a = 2 \/ a = 3 \/ a = 4 \/ a = 5 \/ a = 6 \/ a = 7
  OBVIOUS
<1> QED BY <1>1 DEF HostWordOf, WordOf, LUT

LEMMA AppendHostWord ==
    ASSUME NEW t \in Seq(Nat), NEW m \in Nat, NEW S \in SUBSET (1..m), NEW done,
           HoldsLines(done, t, S)
    PROVE  HoldsLines(Append(done, HostWordOf(LineAcc(t, m + 1))), t, S \cup {m + 1})
<1>1. PICK ws \in Seq(Words) : AreWordsOf(ws, t, S) /\ done = HostOf(ws)
  BY DEF HoldsLines
<1> DEFINE a == LineAcc(t, m + 1)
           more == Append(ws, WordOf(a))
<1>2. a \in 0..7 /\ WordOf(a) \in Words
  BY LineAccType, WordOfType
<1>3. AreWordsOf(more, t, S \cup {m + 1})
  BY <1>1, AppendWord
<1> HIDE DEF a
<1>4. more \in Seq(Words)
  BY <1>2
<1>5. Append(done, HostWordOf(a)) = HostOf(more)
  <2>1. done = [n \in 1..Len(ws) |-> IF ws[n] = LUT[1] THEN HostWordOf(0) ELSE ws[n]]
    BY <1>1 DEF HostOf
  <2>2. Len(done) = Len(ws) /\ Len(more) = Len(ws) + 1
    BY <2>1
  <2>3. Append(done, HostWordOf(a)) =
          [n \in 1..(Len(done) + 1) |-> IF n = Len(done) + 1 THEN HostWordOf(a) ELSE done[n]]
    BY <2>1
  <2>4. HostOf(more) =
          [n \in 1..(Len(ws) + 1) |-> IF more[n] = LUT[1] THEN HostWordOf(0) ELSE more[n]]
    BY <2>2 DEF HostOf
  <2>5. ASSUME NEW n \in 1..(Len(ws) + 1)
        PROVE  (IF n = Len(ws) + 1 THEN HostWordOf(a) ELSE done[n])
                 = IF more[n] = LUT[1] THEN HostWordOf(0) ELSE more[n]
    <3>1. CASE n = Len(ws) + 1
      BY <1>2, <3>1, HostWordIsWord
    <3>2. CASE n # Len(ws) + 1
      <4>1. n \in 1..Len(ws) /\ more[n] = ws[n]
        BY <3>2
      <4> QED BY <2>1, <3>2, <4>1
    <3> QED BY <3>1, <3>2
  <2> QED BY <2>2, <2>3, <2>4, <2>5
<1> QED BY <1>3, <1>4, <1>5 DEF HoldsLines, a


\* The lines whose words are out when n characters are taken: those they end
\* and, once its word is emitted, the one whose end comes next.
LinesOut(t, n, v) ==
    IF ~ v /\ LettersBefore(t, n + 1) # {} THEN Ended(t, n) \cup {n + 1} ELSE Ended(t, n)

HostTextChar(cp) == cp \in Skipped \cup {LF} \/ HostIsLetter(cp)

\* The loop of compile_stream: n characters taken, a and v for acc and
\* has_valid_char, `done` the words emitted.
Scanned(text, n, a, v, done) ==
    LET t == Canonical(text)
    IN  /\ \A k \in 1..n : HostTextChar(text[k])
        /\ v => LettersBefore(t, n + 1) # {} /\ a = LineAcc(t, n + 1)
        /\ ~ v => a = 0
        /\ ~ v /\ LettersBefore(t, n + 1) # {} /\ n < Len(text) => text[n + 1] = LF
        /\ HoldsLines(done, t, LinesOut(t, n, v))

LEMMA HostLetterIsNoSpace ==
    ASSUME NEW cp, HostIsLetter(cp)
    PROVE  cp \notin Skipped \cup {LF}
<1>1. cp \in Hangul
  BY DEF HostIsLetter
<1>2. 32 \notin Hangul /\ 9 \notin Hangul /\ 13 \notin Hangul /\ 10 \notin Hangul
  BY DEF Hangul
<1> QED BY <1>1, <1>2 DEF Skipped, LF

LEMMA ScanStart ==
    ASSUME NEW text \in Seq(Nat)
    PROVE  Scanned(text, 0, 0, FALSE, <<>>)
<1> DEFINE t == Canonical(text)
           none == <<>>
<1>1. t \in Seq(Nat)
  BY CanonicalType
<1> HIDE DEF t
<1>2. LettersBefore(t, 0 + 1) = {} /\ Ended(t, 0) = {}
  <2>1. Ended(t, 0) \subseteq 1..0
    BY <1>1, EndedFinite
  <2> QED BY <1>1, <2>1, NoLettersAtFirst
<1>3. none \in Seq(Words) /\ Len(none) = 0 /\ 1..Len(none) = {} /\ DOMAIN none = {}
  OBVIOUS
<1>4. HostOf(none) = none
  BY <1>3 DEF HostOf
<1> HIDE DEF none
<1>5. AreWordsOf(none, t, {})
  BY <1>3, FS_EmptySet DEF AreWordsOf
<1>6. HoldsLines(none, t, {})
  BY <1>3, <1>4, <1>5 DEF HoldsLines
<1>7. LinesOut(t, 0, FALSE) = {}
  BY <1>2 DEF LinesOut
<1>8. \A k \in 1..0 : HostTextChar(text[k])
  OBVIOUS
<1> QED BY <1>2, <1>6, <1>7, <1>8 DEF Scanned, none, t

LEMMA ScanSkip ==
    ASSUME NEW text \in Seq(Nat), NEW n \in Nat, n < Len(text),
           NEW a, NEW v \in BOOLEAN, NEW done, Scanned(text, n, a, v, done),
           text[n + 1] \in Skipped \/ (text[n + 1] = LF /\ ~ v)
    PROVE  Scanned(text, n + 1, a, v, done)
<1> DEFINE t == Canonical(text)
           m == n + 1
<1>1. t \in Seq(Nat) /\ Len(t) = Len(text) /\ m \in 1..Len(t) /\ m - 1 = n
  BY CanonicalType
<1>2. t[m] = text[m]
  BY <1>1, CanonicalType, HostLetterIsNoSpace
<1> HIDE DEF t
<1>3. /\ \A k \in 1..n : HostTextChar(text[k])
      /\ v => LettersBefore(t, m) # {} /\ a = LineAcc(t, m)
      /\ ~ v => a = 0
      /\ ~ v /\ LettersBefore(t, m) # {} => text[m] = LF
      /\ HoldsLines(done, t, LinesOut(t, n, v))
  BY DEF Scanned, t
<1>4. \A k \in 1..m : HostTextChar(text[k])
  BY <1>1, <1>3 DEF HostTextChar
<1>5. /\ v => LettersBefore(t, m + 1) # {} /\ a = LineAcc(t, m + 1)
      /\ ~ v => LettersBefore(t, m + 1) = {}
      /\ LinesOut(t, m, v) = LinesOut(t, n, v)
  <2>1. CASE text[m] \in Skipped
    <3>1. text[m] # LF
      BY <2>1, SkippedIsNoLF
    <3>2. /\ LettersBefore(t, m + 1) = LettersBefore(t, m)
          /\ LineAcc(t, m + 1) = LineAcc(t, m)
          /\ Ended(t, m) = Ended(t, n)
      BY <1>1, <1>2, <2>1, <3>1, LettersAfterSkipped, LineAccAfterSkipped, EndedElsewhere
    <3> QED BY <1>3, <3>1, <3>2 DEF LinesOut
  <2>2. CASE text[m] = LF /\ ~ v
    <3>1. LettersBefore(t, m + 1) = {}
      BY <1>1, <1>2, <2>2, LettersAfterLF
    <3>2. Ended(t, m) = IF LettersBefore(t, m) # {} THEN Ended(t, n) \cup {m} ELSE Ended(t, n)
      <4>1. CASE LettersBefore(t, m) # {}
        <5>1. Ended(t, m) = Ended(t, m - 1) \cup {m}
          BY <1>1, <1>2, <2>2, <4>1, EndedAtLF
        <5> QED BY <1>1, <4>1, <5>1
      <4>2. CASE LettersBefore(t, m) = {}
        <5>1. Ended(t, m) = Ended(t, m - 1)
          BY <1>1, <4>2, EndedElsewhere
        <5> QED BY <1>1, <4>2, <5>1
      <4> QED BY <4>1, <4>2
    <3> QED BY <2>2, <3>1, <3>2 DEF LinesOut
  <2> QED BY <2>1, <2>2
<1> QED BY <1>3, <1>4, <1>5 DEF Scanned, t

LEMMA ScanLetter ==
    ASSUME NEW text \in Seq(Nat), NEW n \in Nat, n < Len(text),
           NEW a, NEW v \in BOOLEAN, NEW done, Scanned(text, n, a, v, done),
           HostIsLetter(text[n + 1])
    PROVE  Scanned(text, n + 1, Accumulate(a, Jung(text[n + 1])), TRUE, done)
<1> DEFINE t == Canonical(text)
           m == n + 1
<1>1. t \in Seq(Nat) /\ Len(t) = Len(text) /\ m \in 1..Len(t) /\ m - 1 = n
  BY CanonicalType
<1>2. IsLetter(t[m]) /\ StateOf(t[m]) = Jung(text[m])
  BY <1>1, CanonicalType
<1> HIDE DEF t
<1>3. /\ \A k \in 1..n : HostTextChar(text[k])
      /\ v => LettersBefore(t, m) # {} /\ a = LineAcc(t, m)
      /\ ~ v => a = 0
      /\ ~ v => LettersBefore(t, m) = {}
      /\ HoldsLines(done, t, LinesOut(t, n, v))
  BY HostLetterIsNoSpace DEF Scanned, t
<1>4. \A k \in 1..m : HostTextChar(text[k])
  BY <1>1, <1>3 DEF HostTextChar
<1>5. a = LineAcc(t, m)
  BY <1>3, LineAccEmpty
<1>6. /\ LettersBefore(t, m + 1) # {}
      /\ Accumulate(a, Jung(text[m])) = LineAcc(t, m + 1)
  BY <1>1, <1>2, <1>5, LettersAfterLetter, LineAccAfterLetter
<1>7. LinesOut(t, m, TRUE) = LinesOut(t, n, v)
  BY <1>1, <1>2, <1>3, EndedElsewhere, LetterIsNoLF DEF LinesOut
<1> QED BY <1>3, <1>4, <1>6, <1>7 DEF Scanned, t

LEMMA ScanEmit ==
    ASSUME NEW text \in Seq(Nat), NEW n \in Nat, n =< Len(text),
           NEW a, NEW done, Scanned(text, n, a, TRUE, done),
           n < Len(text) => text[n + 1] = LF
    PROVE  Scanned(text, n, 0, FALSE, Append(done, HostWordOf(a)))
<1> DEFINE t == Canonical(text)
<1>1. t \in Seq(Nat)
  BY CanonicalType
<1> HIDE DEF t
<1>2. /\ \A k \in 1..n : HostTextChar(text[k])
      /\ LettersBefore(t, n + 1) # {} /\ a = LineAcc(t, n + 1)
      /\ HoldsLines(done, t, Ended(t, n))
  BY DEF Scanned, LinesOut, t
<1>3. Ended(t, n) \in SUBSET (1..n)
  BY <1>1, EndedFinite
<1>4. HoldsLines(Append(done, HostWordOf(a)), t, Ended(t, n) \cup {n + 1})
  BY <1>1, <1>2, <1>3, AppendHostWord
<1>5. LinesOut(t, n, FALSE) = Ended(t, n) \cup {n + 1}
  BY <1>2 DEF LinesOut
<1> QED BY <1>2, <1>4, <1>5 DEF Scanned, t

LEMMA ScanEnd ==
    ASSUME NEW text \in Seq(Nat), NEW a, NEW done, Scanned(text, Len(text), a, FALSE, done)
    PROVE  HostAccepted(text) /\ done = HostCompile(text)
<1> DEFINE t == Canonical(text)
           n == Len(text)
<1>1. t \in Seq(Nat) /\ Len(t) = n
  BY CanonicalType
<1> HIDE DEF t
<1>2. /\ \A k \in 1..n : HostTextChar(text[k])
      /\ HoldsLines(done, t, LinesOut(t, n, FALSE))
  BY DEF Scanned, t
<1>3. LinesOut(t, n, FALSE) = LineEnds(t)
  BY <1>1, EndedAtEof DEF LinesOut
<1>4. PICK ws \in Seq(Words) : AreWordsOf(ws, t, LineEnds(t)) /\ done = HostOf(ws)
  BY <1>2, <1>3 DEF HoldsLines
<1>5. ws = Compile(t)
  BY <1>1, <1>4, WordsOfAllLines
<1>6. done = HostCompile(text)
  BY <1>4, <1>5 DEF HostOf, HostCompile, t
<1>7. HostAccepted(text)
  BY <1>2 DEF HostAccepted, HostTextChar
<1> QED BY <1>6, <1>7


\* A concatenation, element by element.
LEMMA ConcatIs ==
    ASSUME NEW X, NEW c \in Seq(X), NEW w \in Seq(X)
    PROVE  c \o w = [k \in 1..(Len(c) + Len(w)) |-> IF k =< Len(c) THEN c[k] ELSE w[k - Len(c)]]
<1>1. c \o w \in Seq(X) /\ Len(c \o w) = Len(c) + Len(w)
  OBVIOUS
<1>2. \A k \in 1..(Len(c) + Len(w)) : (c \o w)[k] = IF k =< Len(c) THEN c[k] ELSE w[k - Len(c)]
  OBVIOUS
<1>3. c \o w = [k \in 1..(Len(c) + Len(w)) |-> (c \o w)[k]]
  <2> DEFINE s == c \o w
  <2>1. s \in Seq(X) /\ Len(s) = Len(c) + Len(w)
    BY <1>1
  <2> HIDE DEF s
  <2>2. s = [k \in 1..(Len(c) + Len(w)) |-> s[k]]
    BY <2>1
  <2> QED BY <2>2 DEF s
<1> QED BY <1>2, <1>3

\* Words written at the end of a file follow those it holds.
LEMMA OverwrittenAtEnd ==
    ASSUME NEW c \in Contents, NEW w \in Contents
    PROVE  Overwritten(c, Len(c), w) = c \o w
<1> DEFINE S == HostWords \cup {Hole, Torn}
           end == Len(c) + Len(w)
           At(k) == IF k \in (Len(c) + 1)..end THEN w[k - Len(c)]
                    ELSE IF k =< Len(c) THEN c[k] ELSE Hole
<1>1. c \in Seq(S) /\ w \in Seq(S)
  BY DEF Contents
<1> HIDE DEF S
<1>2. Overwritten(c, Len(c), w) = [k \in 1..end |-> At(k)]
  <2>1. ~ (Len(c) > end)
    BY <1>1
  <2> QED BY <2>1 DEF Overwritten
<1>3. c \o w = [k \in 1..end |-> IF k =< Len(c) THEN c[k] ELSE w[k - Len(c)]]
  BY <1>1, ConcatIs
<1>4. ASSUME NEW k \in 1..end
      PROVE  At(k) = IF k =< Len(c) THEN c[k] ELSE w[k - Len(c)]
  BY <1>1
<1> QED BY <1>2, <1>3, <1>4

\* A file and a part of a buffer that together are all the words, cut short.
LEMMA CutShortByFlush ==
    ASSUME NEW d \in Contents, NEW b \in Seq(HostWords), Len(b) =< Capacity,
           NEW n \in 0..(Len(b) - 1), NEW cut \in {<<>>, <<Torn>>}
    PROVE  CutShort(d \o (SubSeq(b, 1, n) \o cut), d \o b)
<1> DEFINE S == HostWords \cup {Hole, Torn}
           all == d \o b
           m == Len(d) + n
           part == SubSeq(b, 1, n)
<1>1. d \in Seq(S) /\ b \in Seq(S) /\ Torn \in S /\ Capacity \in Nat
  BY CapacityAssumption DEF Contents
<1> HIDE DEF S
<1>2. Len(d) \in Nat /\ Len(b) \in Nat /\ n \in Nat /\ n < Len(b) /\ n =< Len(b)
  BY <1>1
<1>3. all \in Seq(S) /\ Len(all) = Len(d) + Len(b)
  BY <1>1
<1>4. part \in Seq(S) /\ Len(part) = n /\ \A k \in 1..n : part[k] = b[k]
  <2>1. \A k \in 1..n : b[k] \in S
    BY <1>1, <1>2
  <2> QED BY <1>1, <1>2, <2>1, SubSeqProperties
<1>5. SubSeq(all, 1, m) = d \o part
  <2>1. SubSeq(all, 1, m) = [k \in 1..m |-> all[k]]
    BY <1>1, <1>2, <1>3
  <2>2. d \o part = [k \in 1..m |-> IF k =< Len(d) THEN d[k] ELSE part[k - Len(d)]]
    <3> HIDE DEF part
    <3> QED BY <1>1, <1>4, ConcatIs
  <2>3. all = [k \in 1..(Len(d) + Len(b)) |-> IF k =< Len(d) THEN d[k] ELSE b[k - Len(d)]]
    BY <1>1, ConcatIs
  <2>4. ASSUME NEW k \in 1..m
        PROVE  all[k] = IF k =< Len(d) THEN d[k] ELSE part[k - Len(d)]
    <3> HIDE DEF all, part
    <3>1. k \in 1..(Len(d) + Len(b)) /\ (~ (k =< Len(d)) => k - Len(d) \in 1..n)
      BY <1>2
    <3> QED BY <1>4, <2>3, <3>1
  <2> HIDE DEF all, part, m
  <2> QED BY <2>1, <2>2, <2>4
<1>6. m \in 0..(Len(all) - 1) /\ m + Capacity >= Len(all)
  <2> HIDE DEF all
  <2> QED BY <1>1, <1>2, <1>3
<1>7. CASE cut = <<>>
  <2>1. d \o (part \o cut) = SubSeq(all, 1, m)
    <3> HIDE DEF all, m, part
    <3>1. part \o cut = part
      BY <1>4, <1>7
    <3> QED BY <1>5, <3>1
  <2> QED BY <1>6, <2>1 DEF CutShort
<1>8. CASE cut = <<Torn>>
  <2>1. d \o (part \o cut) = Append(SubSeq(all, 1, m), Torn)
    <3> HIDE DEF all, m, part
    <3>1. <<Torn>> \in Seq(S) /\ d \o part \in Seq(S)
      BY <1>1, <1>4
    <3>2. d \o (part \o <<Torn>>) = (d \o part) \o <<Torn>>
      BY <1>1, <1>4, <3>1, ConcatAssociative
    <3>3. Append(d \o part, Torn) = (d \o part) \o <<Torn>>
      BY <1>1, <3>1, AppendIsConcat
    <3> QED BY <1>5, <1>8, <3>2, <3>3
  <2> QED BY <1>6, <2>1 DEF CutShort
<1> QED BY <1>7, <1>8

-----------------------------------------------------------------------------
(* The steps of others.                                                    *)

\* Before it has its file a run has done nothing.
Fresh(p) ==
    pc[p] \in {"start", "create"} =>
        /\ i[p] = 0 /\ acc[p] = 0 /\ valid[p] = FALSE
        /\ buf[p] = <<>> /\ off[p] = 0 /\ lost[p] = FALSE

\* A run that met nobody has out.tmp, and then a file nobody else knows.
OwnFile(p) ==
    ~ met[p] =>
        /\ pc[p] \in Writing => tmp = fd[p]
        /\ Renamed(p) =>
             /\ fd[p] \in Files /\ tmp # fd[p]
             /\ \A q \in Procs : pc[q] \in Writing => fd[q] # fd[p]

\* It has its program's words in its file, but for what a last flush lost.
Written(p) ==
    /\ HostAccepted(cmd[p].text)
    /\ IF lost[p] THEN CutShort(data[fd[p]], HostCompile(cmd[p].text))
       ELSE data[fd[p]] = HostCompile(cmd[p].text)

\* It writes its program to it, word by word.
OwnWords(p) ==
    ~ met[p] =>
        /\ pc[p] \in {"scan", "emit"} =>
             /\ off[p] = Len(data[fd[p]])
             /\ Scanned(cmd[p].text, i[p], acc[p], valid[p], data[fd[p]] \o buf[p])
        /\ pc[p] = "emit" => valid[p] = TRUE /\ (More(p) => Char(p) = LF)
        /\ pc[p] = "drop" =>
             /\ off[p] = Len(data[fd[p]]) /\ HostAccepted(cmd[p].text)
             /\ data[fd[p]] \o buf[p] = HostCompile(cmd[p].text)
        /\ pc[p] \in {"scan", "emit", "drop"} => lost[p] = FALSE
        /\ pc[p] \in {"sync", "check", "remove", "rename"} \/ Renamed(p) => Written(p)

WInv == HInv /\ \A p \in Procs : Fresh(p) /\ OwnFile(p) /\ OwnWords(p)

\* No step touches the locals of another run, nor takes back that it met one.
LEMMA OthersLocals ==
    ASSUME HInv, NEW q \in Procs, Step(q) \/ Kill(q), NEW p \in Procs, p # q
    PROVE  /\ cmd' = cmd /\ pc'[p] = pc[p] /\ i'[p] = i[p] /\ acc'[p] = acc[p]
           /\ valid'[p] = valid[p] /\ buf'[p] = buf[p] /\ off'[p] = off[p]
           /\ fd'[p] = fd[p] /\ lost'[p] = lost[p] /\ (met[p] => met'[p])
           /\ (Renamed(p)' <=> Renamed(p))
<1>1. TypeOK
  BY DEF HInv, TInv
<1> USE DEF TypeOK, Goto, End, Renamed, scanner, names, history
<1>2. CASE Start(q) \/ StartFails(q) \/ Exit(q) \/ Kill(q)
  BY <1>1, <1>2 DEF Start, StartFails, Exit, Kill
<1>3. CASE Create(q) \/ CreateFails(q)
  BY <1>1, <1>3 DEF Create, CreateFails
<1>4. CASE SkipChar(q) \/ Letter(q) \/ EndLine(q) \/ ForeignChar(q) \/ EndOfText(q)
  BY <1>1, <1>4 DEF SkipChar, Letter, EndLine, ForeignChar, EndOfText
<1>5. CASE Emit(q) \/ EmitFails(q)
  BY <1>1, <1>5 DEF Emit, EmitFails, Write
<1>6. CASE DropWriter(q) \/ DropWriterFails(q)
  BY <1>1, <1>6 DEF DropWriter, DropWriterFails, Write
<1>7. CASE Clean(q) \/ CleanFails(q) \/ Sync(q) \/ SyncFails(q) \/ Check(q)
  BY <1>1, <1>7 DEF Clean, CleanFails, Sync, SyncFails, Check
<1>8. CASE Remove(q) \/ RemoveFails(q) \/ Rename(q) \/ RenameFails(q)
  BY <1>1, <1>8 DEF Remove, RemoveFails, Rename, RenameFails
<1> QED BY <1>2, <1>3, <1>4, <1>5, <1>6, <1>7, <1>8 DEF Step, AtomicWrite, CompileStream

\* What a step does to out.tmp and to files: create aside, only a run that
\* writes does anything, and that to its own file or by unbinding the name.
LEMMA FilesOfStep ==
    ASSUME HInv, NEW q \in Procs, Step(q) \/ Kill(q), ~ Create(q)
    PROVE  /\ fd' = fd
           /\ pc'[q] \in Writing => pc[q] \in Writing
           /\ tmp' \in {tmp, Absent}
           /\ \A f \in Files : f # fd[q] => data'[f] = data[f]
           /\ pc[q] \notin Writing => tmp' = tmp /\ data' = data
<1>1. TypeOK
  BY DEF HInv, TInv
<1> USE DEF TypeOK, Goto, End, scanner, names, history, Writing
<1>2. CASE Start(q) \/ StartFails(q) \/ Exit(q) \/ Kill(q) \/ CreateFails(q)
  BY <1>1, <1>2 DEF Start, StartFails, Exit, Kill, CreateFails
<1>4. CASE SkipChar(q) \/ Letter(q) \/ EndLine(q) \/ ForeignChar(q) \/ EndOfText(q)
  BY <1>1, <1>4 DEF SkipChar, Letter, EndLine, ForeignChar, EndOfText
<1>5. CASE Emit(q) \/ EmitFails(q)
  BY <1>1, <1>5 DEF Emit, EmitFails, Write
<1>6. CASE DropWriter(q) \/ DropWriterFails(q)
  BY <1>1, <1>6 DEF DropWriter, DropWriterFails, Write
<1>7. CASE Clean(q) \/ CleanFails(q) \/ Sync(q) \/ SyncFails(q) \/ Check(q)
  BY <1>1, <1>7 DEF Clean, CleanFails, Sync, SyncFails, Check
<1>8. CASE Remove(q) \/ RemoveFails(q) \/ Rename(q) \/ RenameFails(q)
  BY <1>1, <1>8 DEF Remove, RemoveFails, Rename, RenameFails
<1> QED BY <1>2, <1>4, <1>5, <1>6, <1>7, <1>8 DEF Step, AtomicWrite, CompileStream

\* A step of another run leaves what p relies on as it was.
LEMMA OthersKeep ==
    ASSUME WInv, NEW q \in Procs, Step(q) \/ Kill(q), NEW p \in Procs, p # q
    PROVE  Fresh(p)' /\ OwnFile(p)' /\ OwnWords(p)'
<1>1. /\ HInv /\ Fresh(p) /\ OwnFile(p) /\ OwnWords(p)
      /\ Absent \notin Files
  BY ProcsAssumption, FilesAssumption DEF WInv, Files
<1>2. /\ cmd' = cmd /\ pc'[p] = pc[p] /\ i'[p] = i[p] /\ acc'[p] = acc[p]
      /\ valid'[p] = valid[p] /\ buf'[p] = buf[p] /\ off'[p] = off[p]
      /\ fd'[p] = fd[p] /\ lost'[p] = lost[p] /\ (met[p] => met'[p])
      /\ (Renamed(p)' <=> Renamed(p))
      /\ Renamed(p) => pc[p] \notin {"start", "create"}
  BY <1>1, OthersLocals DEF Renamed, HInv, AtTheEnd, Running
<1>3. Fresh(p)'
  BY <1>1, <1>2 DEF Fresh
<1>4. CASE met'[p]
  BY <1>3, <1>4 DEF OwnFile, OwnWords
<1>5. CASE ~ met'[p]
  <2>1. /\ ~ met[p]
        /\ pc[p] \in Writing => pc[q] \notin Writing /\ tmp = fd[p] /\ fd[p] \in Files
        /\ Renamed(p) =>
             /\ fd[p] \in Files /\ tmp # fd[p]
             /\ \A r \in Procs : pc[r] \in Writing => fd[r] # fd[p]
    BY <1>1, <1>2, <1>5 DEF HInv, TInv, HasFile, WritersMet, OwnFile
  <2>2. /\ pc[p] \in Writing => tmp' = tmp
        /\ pc[p] \in Writing \/ Renamed(p) => data'[fd[p]] = data[fd[p]]
        /\ Renamed(p) =>
             /\ tmp' # fd[p]
             /\ \A r \in Procs : pc'[r] \in Writing => fd'[r] # fd[p]
    <3>1. CASE Create(q)
      <4>1. /\ pc[q] = "create" /\ pc' = [pc EXCEPT ![q] = "scan"]
            /\ tmp' = (IF tmp = Absent THEN q ELSE tmp)
            /\ fd' = [fd EXCEPT ![q] = tmp']
            /\ data' = [data EXCEPT ![tmp'] = <<>>]
        BY <3>1 DEF Create, Goto
      <4>2. pc[p] \notin Writing
        <5>1. pc[p] \in Writing => met'[p]
          BY <3>1, <1>1 DEF Create, HInv, TInv, TypeOK
        <5> QED BY <1>5, <5>1
      <4>3. Renamed(p) => tmp' # fd[p]
        BY <2>1, <4>1, <1>1 DEF HInv, MadeByCreate
      <4>4. /\ data \in [Files -> Contents]
            /\ fd \in [Procs -> Files \cup {Absent}]
            /\ pc \in [Procs -> Running \cup {"succeeded", "failed", "killed"}]
        BY <1>1 DEF HInv, TInv, TypeOK
      <4>5. Renamed(p) => data'[fd[p]] = data[fd[p]]
        BY <2>1, <4>1, <4>3, <4>4
      <4>6. ASSUME Renamed(p), NEW r \in Procs, pc'[r] \in Writing
            PROVE  fd'[r] # fd[p]
        BY <2>1, <4>1, <4>3, <4>4, <4>6
      <4> QED BY <4>2, <4>3, <4>5, <4>6
    <3>2. CASE ~ Create(q)
      <4>1. /\ fd' = fd
            /\ pc'[q] \in Writing => pc[q] \in Writing
            /\ tmp' \in {tmp, Absent}
            /\ \A f \in Files : f # fd[q] => data'[f] = data[f]
            /\ pc[q] \notin Writing => tmp' = tmp /\ data' = data
        BY <1>1, <3>2, FilesOfStep
      <4>2. \A r \in Procs : r # q => pc'[r] = pc[r]
        BY <1>1, OthersLocals
      <4>3. Renamed(p) => data'[fd[p]] = data[fd[p]]
        BY <2>1, <4>1
      <4>4. Renamed(p) => tmp' # fd[p]
        BY <2>1, <4>1, <1>1
      <4>5. ASSUME Renamed(p), NEW r \in Procs, pc'[r] \in Writing
            PROVE  fd'[r] # fd[p]
        BY <2>1, <4>1, <4>2, <4>5
      <4> QED BY <2>1, <4>1, <4>3, <4>4, <4>5
    <3> QED BY <3>1, <3>2
  <2>3. OwnFile(p)'
    BY <1>2, <2>1, <2>2 DEF OwnFile
  <2>4. OwnWords(p)'
    BY <1>1, <1>2, <2>1, <2>2 DEF OwnWords, Written, Writing, More, Char
  <2> QED BY <1>3, <2>3, <2>4
<1> QED BY <1>4, <1>5

-----------------------------------------------------------------------------
(* The steps of a run.                                                     *)

\* It keeps out.tmp until it renames it, and is fresh until it has it.
LEMMA OwnFileKept ==
    ASSUME WInv, NEW p \in Procs, Step(p) \/ Kill(p)
    PROVE  Fresh(p)' /\ OwnFile(p)'
<1>1. TypeOK /\ HasFile /\ WritersMet /\ Fresh(p) /\ OwnFile(p) /\ Absent \notin Files
  BY ProcsAssumption, FilesAssumption DEF WInv, HInv, TInv, Files
<1>10. at[p] # "none" => pc[p] \notin Running
  BY DEF WInv, HInv, AtTheEnd
<1> USE <1>10 DEF TypeOK, Goto, End, Renamed, scanner, names, history, Writing, Running
<1>2. CASE Start(p) \/ StartFails(p) \/ Exit(p) \/ Kill(p) \/ CreateFails(p)
  BY <1>1, <1>2 DEF Start, StartFails, Exit, Kill, CreateFails, Fresh, OwnFile
<1>3. CASE Create(p)
  BY <1>1, <1>3 DEF Create, Fresh, OwnFile
<1>4. CASE SkipChar(p) \/ Letter(p) \/ EndLine(p) \/ ForeignChar(p) \/ EndOfText(p)
  BY <1>1, <1>4 DEF SkipChar, Letter, EndLine, ForeignChar, EndOfText, Fresh, OwnFile
<1>5. CASE Emit(p) \/ EmitFails(p)
  BY <1>1, <1>5 DEF Emit, EmitFails, Write, Fresh, OwnFile
<1>6. CASE DropWriter(p) \/ DropWriterFails(p)
  BY <1>1, <1>6 DEF DropWriter, DropWriterFails, Write, Fresh, OwnFile
<1>7. CASE Clean(p) \/ CleanFails(p) \/ Sync(p) \/ SyncFails(p) \/ Check(p)
  BY <1>1, <1>7 DEF Clean, CleanFails, Sync, SyncFails, Check, Fresh, OwnFile
<1>8. CASE Remove(p) \/ RemoveFails(p) \/ RenameFails(p)
  BY <1>1, <1>8 DEF Remove, RemoveFails, RenameFails, Fresh, OwnFile
<1>9. CASE Rename(p)
  <2>1. /\ pc[p] = "rename" /\ pc' = [pc EXCEPT ![p] = "done"]
        /\ tmp' = Absent /\ UNCHANGED << fd, met >>
    BY <1>9 DEF Rename
  <2>2. ASSUME ~ met[p], NEW q \in Procs, pc'[q] \in Writing
        PROVE  fd'[q] # fd'[p]
    BY <1>1, <2>1, <2>2 DEF WritersMet
  <2>3. fd[p] \in Files /\ pc'[p] = "done"
    BY <1>1, <2>1 DEF HasFile
  <2>4. UNCHANGED << fd[p], met[p] >>
    BY <2>1
  <2> QED BY <1>1, <2>1, <2>2, <2>3, <2>4 DEF Fresh, OwnFile
<1> QED BY <1>2, <1>3, <1>4, <1>5, <1>6, <1>7, <1>8, <1>9
        DEF Step, AtomicWrite, CompileStream

\* compile_stream goes on with the loop as Scanned tells it.
LEMMA OwnScan ==
    ASSUME WInv, NEW p \in Procs,
           SkipChar(p) \/ Letter(p) \/ EndLine(p) \/ ForeignChar(p) \/ EndOfText(p)
    PROVE  OwnWords(p)'
<1> DEFINE text == cmd[p].text
           n == i[p]
           done == data[fd[p]] \o buf[p]
<1>1. TypeOK /\ OwnWords(p)
  BY DEF WInv, HInv, TInv
<1>12. ~ Renamed(p)'
  BY DEF WInv, HInv, TInv, TypeOK, AtTheEnd, Renamed, Running, Writing, Goto, history,
         SkipChar, Letter, EndLine, ForeignChar, EndOfText
<1>2. text \in Seq(Nat) /\ n \in Nat /\ n =< Len(text) /\ valid[p] \in BOOLEAN
  BY <1>1, TextType DEF TypeOK
<1>3. /\ pc[p] = "scan" /\ UNCHANGED << cmd, data, fd, buf, off, met, lost >>
      /\ More(p) <=> n < Len(text)
      /\ Char(p) = text[n + 1]
  BY DEF SkipChar, Letter, EndLine, ForeignChar, EndOfText, scanner, names, history, More, Char
<1>4. SUFFICES ASSUME ~ met[p] PROVE OwnWords(p)'
  BY <1>3 DEF OwnWords
<1>5. lost[p] = FALSE /\ off[p] = Len(data[fd[p]]) /\ Scanned(text, n, acc[p], valid[p], done)
  BY <1>1, <1>3, <1>4 DEF OwnWords
<1>6. UNCHANGED << done, text >>
  BY <1>3
<1>7. CASE SkipChar(p)
  <2>1. /\ pc' = pc /\ i'[p] = n + 1 /\ acc' = acc /\ valid' = valid
        /\ n < Len(text)
        /\ text[n + 1] \in Skipped \/ (text[n + 1] = LF /\ ~ valid[p])
    BY <1>1, <1>3, <1>7 DEF SkipChar, TypeOK, scanner, names, history
  <2> HIDE DEF text, n, done
  <2>2. Scanned(text, n + 1, acc[p], valid[p], done)
    BY <1>2, <1>5, <2>1, ScanSkip
  <2> QED BY <1>3, <1>5, <1>12, <2>1, <2>2 DEF OwnWords, text, done
<1>8. CASE Letter(p)
  <2>1. /\ pc' = pc /\ i'[p] = n + 1 /\ valid'[p] = TRUE
        /\ acc'[p] = Accumulate(acc[p], Jung(text[n + 1]))
        /\ n < Len(text) /\ HostIsLetter(text[n + 1])
    BY <1>1, <1>3, <1>8 DEF Letter, TypeOK, scanner, names, history
  <2> HIDE DEF text, n, done
  <2>2. Scanned(text, n + 1, acc'[p], TRUE, done)
    BY <1>2, <1>5, <2>1, ScanLetter
  <2> QED BY <1>3, <1>5, <1>12, <2>1, <2>2 DEF OwnWords, text, done
<1>9. CASE EndLine(p)
  <2>1. /\ pc'[p] = "emit" /\ UNCHANGED << i, acc, valid >>
        /\ valid[p] = TRUE /\ (More(p) => Char(p) = LF)
    BY <1>1, <1>9 DEF EndLine, Goto, TypeOK, scanner, names, history
  <2>2. (More(p) => Char(p) = LF)'
    BY <1>3, <2>1 DEF More, Char
  <2> QED BY <1>3, <1>5, <1>12, <2>1, <2>2 DEF OwnWords
<1>10. CASE ForeignChar(p)
  <2>1. pc'[p] = "abort"
    BY <1>1, <1>10 DEF ForeignChar, Goto, TypeOK
  <2> QED BY <1>12, <2>1 DEF OwnWords
<1>11. CASE EndOfText(p)
  <2>1. pc'[p] = "drop" /\ valid[p] = FALSE /\ n = Len(text)
    BY <1>1, <1>2, <1>3, <1>11 DEF EndOfText, Goto, TypeOK
  <2> HIDE DEF text, n, done
  <2>2. Scanned(text, Len(text), acc[p], FALSE, done)
    BY <1>5, <2>1
  <2>3. HostAccepted(text) /\ done = HostCompile(text)
    BY <1>2, <2>2, ScanEnd
  <2> QED BY <1>3, <1>5, <1>12, <2>1, <2>3 DEF OwnWords, text, done
<1> QED BY <1>7, <1>8, <1>9, <1>10, <1>11

\* The buffer follows what the file holds: emit and drop write it to its end.
LEMMA OwnEmit ==
    ASSUME WInv, NEW p \in Procs,
           Emit(p) \/ EmitFails(p) \/ DropWriter(p) \/ DropWriterFails(p)
    PROVE  OwnWords(p)'
<1> DEFINE text == cmd[p].text
           n == i[p]
           d == data[fd[p]]
           b == buf[p]
           w == HostWordOf(acc[p])
           S == HostWords \cup {Hole, Torn}
<1>1. TypeOK /\ OwnWords(p) /\ fd[p] \in Files
  <2>1. pc[p] \in Writing
    BY DEF Emit, EmitFails, DropWriter, DropWriterFails, Writing
  <2> QED BY <2>1 DEF WInv, HInv, TInv, HasFile
<1>2. /\ text \in Seq(Nat) /\ n \in Nat /\ n =< Len(text)
      /\ d \in Contents /\ b \in Seq(HostWords) /\ w \in HostWords /\ Len(b) =< Capacity
      /\ \A c : [data EXCEPT ![fd[p]] = c][fd[p]] = c
      /\ \A c : [off EXCEPT ![p] = c][p] = c
      /\ \A c : [buf EXCEPT ![p] = c][p] = c
  BY <1>1, TextType, HostWordType DEF TypeOK
<1>3. /\ d \in Seq(S) /\ b \in Seq(S) /\ b \in Contents /\ w \in S
      /\ d \o b \in Seq(S) /\ Len(d \o b) = Len(d) + Len(b)
  BY <1>2 DEF Contents
<1>4. UNCHANGED << cmd, fd, met >> /\ ~ Renamed(p)'
  BY <1>1 DEF Emit, EmitFails, DropWriter, DropWriterFails, scanner, names, history, TypeOK,
              WInv, HInv, AtTheEnd, Renamed, Running, Writing, Goto
<1>5. SUFFICES ASSUME ~ met[p] PROVE OwnWords(p)'
  BY <1>4 DEF OwnWords
<1>6. CASE Emit(p)
  <2>1. /\ pc[p] = "emit" /\ pc'[p] = "scan" /\ i' = i
        /\ acc'[p] = 0 /\ valid'[p] = FALSE /\ lost'[p] = lost[p]
    BY <1>1, <1>6 DEF Emit, Goto, TypeOK, history
  <2>2. /\ lost[p] = FALSE /\ off[p] = Len(d) /\ Scanned(text, n, acc[p], TRUE, d \o b)
        /\ n < Len(text) => text[n + 1] = LF
    BY <1>1, <1>4, <1>5, <2>1 DEF OwnWords, More, Char
  <2>3. off'[p] = Len(data'[fd[p]]) /\ data'[fd[p]] \o buf'[p] = Append(d \o b, w)
    <3>1. CASE Len(b) = Capacity
      <4>1. /\ data'[fd[p]] = Overwritten(d, off[p], b)
            /\ off'[p] = off[p] + Len(b) /\ buf'[p] = << w >>
        BY <1>2, <1>6, <3>1 DEF Emit, Write
      <4> HIDE DEF d, b, w, S
      <4>2. data'[fd[p]] = d \o b
        BY <1>2, <1>3, <2>2, <4>1, OverwrittenAtEnd
      <4>3. Append(d \o b, w) = (d \o b) \o << w >>
        BY <1>3, AppendIsConcat
      <4> QED BY <1>3, <2>2, <4>1, <4>2, <4>3
    <3>2. CASE Len(b) # Capacity
      <4>1. data' = data /\ off' = off /\ buf'[p] = Append(b, w)
        BY <1>2, <1>6, <3>2 DEF Emit
      <4> HIDE DEF b, w, S
      <4>2. Append(b, w) = b \o << w >> /\ Append(d \o b, w) = (d \o b) \o << w >>
        <5> HIDE DEF d
        <5> QED BY <1>3, AppendIsConcat
      <4>3. << w >> \in Seq(S)
        BY <1>3
      <4>4. (d \o b) \o << w >> = d \o (b \o << w >>)
        <5> HIDE DEF d
        <5> QED BY <1>2, <1>3, <4>3, ConcatAssociative
      <4> QED BY <2>2, <4>1, <4>2, <4>4
    <3> QED BY <3>1, <3>2
  <2> HIDE DEF d, b
  <2>4. Scanned(text, n, 0, FALSE, Append(d \o b, w))
    <3> HIDE DEF text, n
    <3> QED BY <1>2, <2>2, ScanEmit
  <2> QED BY <1>4, <2>1, <2>2, <2>3, <2>4 DEF OwnWords
<1>7. CASE EmitFails(p)
  <2>1. pc'[p] = "abort"
    BY <1>1, <1>7 DEF EmitFails, Goto, TypeOK
  <2> QED BY <1>4, <2>1 DEF OwnWords
<1>8. CASE DropWriter(p) \/ DropWriterFails(p)
  <2>1. pc'[p] = IF pc[p] = "drop" THEN "sync" ELSE "clean"
    BY <1>1, <1>8 DEF DropWriter, DropWriterFails, Goto, TypeOK
  <2>2. CASE pc[p] = "drop"
    <3>1. /\ off[p] = Len(d) /\ HostAccepted(text) /\ d \o b = HostCompile(text)
          /\ lost[p] = FALSE
      BY <1>1, <1>5, <2>2 DEF OwnWords
    <3>2. ASSUME DropWriter(p) PROVE Written(p)'
      <4>1. data'[fd[p]] = Overwritten(d, off[p], b) /\ lost'[p] = lost[p]
        BY <1>2, <3>2 DEF DropWriter, Write, history
      <4>2. data'[fd[p]] = HostCompile(text)
        <5> HIDE DEF d, b, text
        <5> QED BY <1>2, <1>3, <3>1, <4>1, OverwrittenAtEnd
      <4>3. text' = text /\ fd'[p] = fd[p] /\ lost'[p] = FALSE
        BY <1>4, <3>1, <4>1
      <4> HIDE DEF text
      <4>4. /\ HostAccepted(text')
            /\ IF lost'[p] THEN CutShort(data'[fd'[p]], HostCompile(text'))
               ELSE data'[fd'[p]] = HostCompile(text')
        BY <3>1, <4>2, <4>3
      <4> QED BY <4>4 DEF Written, text
    <3>3. ASSUME DropWriterFails(p) PROVE Written(p)'
      <4>1. PICK k \in 0..(Len(b) - 1), cut \in {<<>>, <<Torn>>} :
                   Write(p, SubSeq(b, 1, k) \o cut)
        BY <3>3 DEF DropWriterFails
      <4>2. data'[fd[p]] = Overwritten(d, off[p], SubSeq(b, 1, k) \o cut)
        BY <1>2, <4>1 DEF Write
      <4>3. lost'[p] = TRUE
        BY <1>1, <3>3 DEF DropWriterFails, TypeOK
      <4> HIDE DEF d, b, text
      <4>4. SubSeq(b, 1, k) \o cut \in Contents
        BY <1>2, BufferType
      <4>5. data'[fd[p]] = d \o (SubSeq(b, 1, k) \o cut)
        BY <1>2, <3>1, <4>2, <4>4, OverwrittenAtEnd
      <4>6. CutShort(data'[fd[p]], d \o b)
        BY <1>2, <4>5, CutShortByFlush
      <4>7. CutShort(data'[fd[p]], HostCompile(text))
        BY <3>1, <4>6
      <4>8. text' = text /\ fd'[p] = fd[p]
        BY <1>4 DEF text
      <4>9. /\ HostAccepted(text')
            /\ IF lost'[p] THEN CutShort(data'[fd'[p]], HostCompile(text'))
               ELSE data'[fd'[p]] = HostCompile(text')
        BY <3>1, <4>3, <4>7, <4>8
      <4> QED BY <4>9 DEF Written, text
    <3>4. Written(p)'
      BY <1>8, <3>2, <3>3
    <3> QED BY <1>4, <2>1, <2>2, <3>4 DEF OwnWords
  <2>3. CASE pc[p] # "drop"
    BY <1>4, <2>1, <2>3 DEF OwnWords
  <2> QED BY <2>2, <2>3
<1> QED BY <1>6, <1>7, <1>8

\* The rest of atomic_write does not touch the file.
LEMMA OwnOther ==
    ASSUME WInv, NEW p \in Procs, Step(p) \/ Kill(p), ~ CompileStream(p),
           ~ DropWriter(p), ~ DropWriterFails(p)
    PROVE  OwnWords(p)'
<1>1. TypeOK /\ OwnWords(p) /\ Fresh(p) /\ (at[p] # "none" => pc[p] \notin Running)
  BY DEF WInv, HInv, TInv, AtTheEnd
<1>2. CASE Create(p)
  <2>1. /\ pc[p] = "create" /\ pc'[p] = "scan" /\ fd'[p] \in Files
        /\ data'[fd'[p]] = <<>>
        /\ UNCHANGED << cmd, i, acc, valid, buf, off, at, lost >>
    BY <1>1, <1>2 DEF Create, Files, TypeOK, Goto, scanner
  <2>2. /\ i[p] = 0 /\ acc[p] = 0 /\ valid[p] = FALSE /\ buf[p] = <<>> /\ off[p] = 0
        /\ lost[p] = FALSE
    BY <1>1, <2>1 DEF Fresh
  <2>3. ~ Renamed(p)'
    BY <1>1, <2>1 DEF Renamed, Running
  <2>4. Scanned(cmd[p].text, 0, 0, FALSE, <<>>)
    BY <1>1, TextType, ScanStart
  <2>5. <<>> \o <<>> = <<>> /\ Len(<<>>) = 0
    OBVIOUS
  <2> QED BY <2>1, <2>2, <2>3, <2>4, <2>5 DEF OwnWords
<1>3. CASE ~ Create(p)
  <2> DEFINE Late(q) == pc[q] \in {"sync", "check", "remove", "rename"} \/ Renamed(q)
  <2>1. Step(p) \/ Kill(p) => UNCHANGED << cmd, fd, data, met, lost >>
    BY <1>3 DEF Step, AtomicWrite, Start, StartFails, CreateFails, Clean, CleanFails, Sync,
       SyncFails, Check, Remove, RemoveFails, Rename, RenameFails, Exit, Kill, End, history
  <2>2. UNCHANGED << cmd, fd, data, met, lost >>
    BY <2>1
  <2>3. Written(p) => Written(p)'
    BY <2>2 DEF Written
  <2>4. pc'[p] \notin {"scan", "emit", "drop"} /\ (Late(p)' => Late(p))
    <3> USE DEF TypeOK, Goto, End, Renamed, scanner, names, history, Running, Writing
    <3>1. CASE Start(p) \/ StartFails(p) \/ CreateFails(p) \/ Exit(p) \/ Kill(p)
      BY <1>1, <3>1 DEF Start, StartFails, CreateFails, Exit, Kill
    <3>2. CASE Clean(p) \/ CleanFails(p) \/ Sync(p) \/ SyncFails(p) \/ Check(p)
      BY <1>1, <3>2 DEF Clean, CleanFails, Sync, SyncFails, Check
    <3>3. CASE Remove(p) \/ RemoveFails(p) \/ Rename(p) \/ RenameFails(p)
      BY <1>1, <3>3 DEF Remove, RemoveFails, Rename, RenameFails
    <3> QED BY <1>3, <3>1, <3>2, <3>3 DEF Step, AtomicWrite
  <2> QED BY <1>1, <2>2, <2>3, <2>4 DEF OwnWords
<1> QED BY <1>2, <1>3

LEMMA InitWInv == Init => WInv
<1> SUFFICES ASSUME Init PROVE WInv
  OBVIOUS
<1>1. HInv
  BY InitHInv
<1>2. ASSUME NEW p \in Procs PROVE Fresh(p) /\ OwnFile(p) /\ OwnWords(p)
  BY DEF Init, Fresh, OwnFile, OwnWords, Renamed, Writing
<1> QED BY <1>1, <1>2 DEF WInv

LEMMA StepWInv == WInv /\ [Next]_vars => WInv'
<1> SUFFICES ASSUME WInv, [Next]_vars PROVE WInv'
  OBVIOUS
<1>1. HInv'
  BY StepHInv DEF WInv
<1>2. CASE UNCHANGED vars
  <2>1. ASSUME NEW p \in Procs PROVE Fresh(p)' /\ OwnFile(p)' /\ OwnWords(p)'
    BY <1>2 DEF WInv, vars, scanner, names, history, Fresh, OwnFile, OwnWords, Written,
                Renamed, More, Char
  <2> QED BY <1>1, <2>1 DEF WInv
<1>3. ASSUME NEW q \in Procs, Step(q) \/ Kill(q) PROVE WInv'
  <2>1. ASSUME NEW p \in Procs PROVE Fresh(p)' /\ OwnFile(p)' /\ OwnWords(p)'
    <3>1. CASE p # q
      BY <1>3, <3>1, OthersKeep
    <3>2. CASE p = q
      <4>1. Fresh(q)' /\ OwnFile(q)'
        BY <1>3, OwnFileKept
      <4>2. OwnWords(q)'
        BY <1>3, OwnScan, OwnEmit, OwnOther DEF CompileStream
      <4> QED BY <3>2, <4>1, <4>2
    <3> QED BY <3>1, <3>2
  <2> QED BY <1>1, <2>1 DEF WInv
<1> QED BY <1>2, <1>3 DEF Next, AllEnded

\* The invariant of the runs that share out.tmp with nobody, and of their files.
LEMMA AloneInvariance == Spec => []WInv
<1>1. Init => WInv
  BY InitWInv
<1>2. WInv /\ [Next]_vars => WInv'
  BY StepWInv
<1> QED BY <1>1, <1>2, PTL DEF Spec

\* A run that had out.tmp to itself publishes the whole program's words, less at
\* most a last buffer whose flush failed, and they stay as they are while `out`
\* shows them, even if the run is killed after its rename (fs_atomic.rs:19-35,
\* lexer.rs:8-51, main.rs:24).
THEOREM AloneWritesAll == Spec => []AloneIsWhole
<1>1. WInv => AloneIsWhole
  <2> SUFFICES ASSUME WInv, NEW p \in Procs, Renamed(p) /\ ~ met[p] /\ out = fd[p]
               PROVE  /\ HostAccepted(cmd[p].text)
                      /\ IF lost[p] THEN CutShort(data[out], HostCompile(cmd[p].text))
                         ELSE data[out] = HostCompile(cmd[p].text)
    BY DEF AloneIsWhole
  <2> QED BY DEF WInv, OwnWords, Written
<1> QED BY <1>1, AloneInvariance, PTL

\* A run that shares out.tmp with nobody keeps it until it renames or removes it
\* itself, whatever fails in runs before and after (fs_atomic.rs:20-25 and 35).
THEOREM AloneKeepsName == Spec => []AloneKeepsTmp
<1>1. WInv => AloneKeepsTmp
  BY DEF WInv, OwnFile, AloneKeepsTmp
<1> QED BY <1>1, AloneInvariance, PTL

-----------------------------------------------------------------------------
(* The steps that are left.                                                *)

\* The characters that p has yet to take.
CharsLeft(p) == Len(cmd[p].text) - i[p]

LEMMA CharsLeftType ==
    ASSUME TypeOK, NEW p \in Procs
    PROVE  CharsLeft(p) \in Nat /\ valid[p] \in BOOLEAN /\ (More(p) => CharsLeft(p) > 0)
<1>1. cmd[p].text \in Seq(Nat)
  BY TextType
<1>2. Len(cmd[p].text) \in Nat /\ i[p] \in Nat /\ i[p] =< Len(cmd[p].text)
  BY <1>1 DEF TypeOK
<1> QED BY <1>2 DEF CharsLeft, More, TypeOK

LEMMA StepsLeftIs ==
    ASSUME NEW p \in Procs
    PROVE  /\ pc[p] = "start" => StepsLeft(p) = 3 * CharsLeft(p) + 11
           /\ pc[p] = "create" => StepsLeft(p) = 3 * CharsLeft(p) + 10
           /\ pc[p] = "scan" => StepsLeft(p) = 3 * CharsLeft(p) + IF valid[p] THEN 9 ELSE 7
           /\ pc[p] = "emit" => StepsLeft(p) = 3 * CharsLeft(p) + 8
           /\ pc[p] \in {"drop", "abort"} => StepsLeft(p) = 6
           /\ pc[p] \in {"sync", "clean"} => StepsLeft(p) = 5
           /\ pc[p] = "check" => StepsLeft(p) = 4
           /\ pc[p] = "remove" => StepsLeft(p) = 3
           /\ pc[p] = "rename" => StepsLeft(p) = 2
           /\ pc[p] = "done" => StepsLeft(p) = 1
           /\ pc[p] \in {"succeeded", "failed", "killed"} => StepsLeft(p) = 0
BY DEF StepsLeft, CharsLeft

\* The measure is a number, and not 0 before the process has ended.
LEMMA StepsLeftType ==
    ASSUME TypeOK, NEW p \in Procs
    PROVE  StepsLeft(p) \in Nat /\ (pc[p] \in Running => StepsLeft(p) > 0)
<1>1. pc[p] \in Running \cup {"succeeded", "failed", "killed"}
  BY DEF TypeOK
<1> QED BY <1>1, CharsLeftType, StepsLeftIs DEF Running, Writing

\* A step that ends the process.
LEMMA EndCounts ==
    ASSUME TypeOK, NEW p \in Procs, pc[p] \in Running,
           pc'[p] \in {"succeeded", "failed", "killed"}
    PROVE  StepsLeft(p)' < StepsLeft(p)
<1>1. StepsLeft(p)' = 0
  BY DEF StepsLeft
<1> QED BY <1>1, StepsLeftType

\* compile_stream: a character is taken once, and a line is written once.
LEMMA CompileCounts ==
    ASSUME TypeOK, NEW p \in Procs, CompileStream(p)
    PROVE  StepsLeft(p)' < StepsLeft(p)
<1> USE DEF Goto, scanner
<1> DEFINE left == CharsLeft(p)
<1>1. left \in Nat /\ valid[p] \in BOOLEAN /\ (More(p) => left > 0)
  BY CharsLeftType
<1>2. cmd' = cmd
  BY DEF CompileStream, SkipChar, Letter, EndLine, ForeignChar, EndOfText, Emit, EmitFails
<1>3. /\ i'[p] = i[p] => CharsLeft(p)' = left
      /\ i'[p] = i[p] + 1 => CharsLeft(p)' = left - 1
  <2>1. cmd[p].text \in Seq(Nat)
    BY TextType
  <2>2. Len(cmd[p].text) \in Nat /\ i[p] \in Nat
    BY <2>1 DEF TypeOK
  <2> QED BY <1>2, <2>2 DEF CharsLeft
<1>4. /\ pc'[p] = "scan" => StepsLeft(p)' = 3 * CharsLeft(p)' + IF valid'[p] THEN 9 ELSE 7
      /\ pc'[p] = "emit" => StepsLeft(p)' = 3 * CharsLeft(p)' + 8
      /\ pc'[p] \in {"drop", "abort"} => StepsLeft(p)' = 6
  BY DEF StepsLeft, CharsLeft
<1> HIDE DEF left
<1>5. CASE SkipChar(p) \/ Letter(p)
  <2>1. /\ i'[p] = i[p] + 1 /\ More(p) /\ pc[p] = "scan" /\ pc'[p] = "scan"
        /\ valid'[p] = valid[p] \/ valid'[p] = TRUE
    BY <1>5 DEF SkipChar, Letter, TypeOK
  <2>2. StepsLeft(p) = 3 * left + IF valid[p] THEN 9 ELSE 7
    BY <2>1, StepsLeftIs DEF left
  <2> QED BY <1>1, <1>3, <1>4, <2>1, <2>2
<1>6. CASE EndLine(p) \/ EndOfText(p) \/ ForeignChar(p)
  <2>1. /\ i'[p] = i[p] /\ pc[p] = "scan"
        /\ (pc'[p] = "emit" /\ valid[p]) \/ pc'[p] \in {"drop", "abort"}
    BY <1>6 DEF EndLine, EndOfText, ForeignChar, TypeOK
  <2>2. StepsLeft(p) = 3 * left + IF valid[p] THEN 9 ELSE 7
    BY <2>1, StepsLeftIs DEF left
  <2> QED BY <1>1, <1>3, <1>4, <2>1, <2>2
<1>7. CASE Emit(p) \/ EmitFails(p)
  <2>1. /\ i'[p] = i[p] /\ pc[p] = "emit"
        /\ (pc'[p] = "scan" /\ ~ valid'[p]) \/ pc'[p] = "abort"
    BY <1>7 DEF Emit, EmitFails, TypeOK
  <2>2. StepsLeft(p) = 3 * left + 8
    BY <2>1, StepsLeftIs DEF left
  <2> QED BY <1>1, <1>3, <1>4, <2>1, <2>2
<1> QED BY <1>5, <1>6, <1>7 DEF CompileStream

\* The rest of a run goes one way.
LEMMA OwnStepCounts ==
    ASSUME TypeOK, NEW p \in Procs, Step(p) \/ Kill(p)
    PROVE  StepsLeft(p)' < StepsLeft(p)
<1> USE DEF Goto, End, scanner, TypeOK
<1>1. CASE CompileStream(p)
  BY <1>1, CompileCounts
<1>2. CASE \/ StartFails(p) \/ CreateFails(p) \/ Clean(p) \/ CleanFails(p) \/ SyncFails(p)
           \/ RemoveFails(p) \/ RenameFails(p) \/ Exit(p) \/ Kill(p)
  <2>1. pc[p] \in Running /\ pc'[p] \in {"succeeded", "failed", "killed"}
    BY <1>2 DEF StartFails, CreateFails, Clean, CleanFails, SyncFails, RemoveFails,
       RenameFails, Exit, Kill, Running, Writing
  <2> QED BY <2>1, EndCounts
<1>3. CASE Start(p) \/ Create(p)
  <2>1. /\ (pc[p] = "start" /\ pc'[p] = "create") \/ (pc[p] = "create" /\ pc'[p] = "scan")
        /\ cmd' = cmd /\ i' = i /\ valid' = valid
    BY <1>3 DEF Start, Create
  <2>2. CharsLeft(p)' = CharsLeft(p)
    BY <2>1 DEF CharsLeft
  <2>3. /\ pc'[p] = "create" => StepsLeft(p)' = 3 * CharsLeft(p)' + 10
        /\ pc'[p] = "scan" => StepsLeft(p)' = 3 * CharsLeft(p)' + IF valid'[p] THEN 9 ELSE 7
    BY DEF StepsLeft, CharsLeft
  <2> QED BY <2>1, <2>2, <2>3, StepsLeftIs, CharsLeftType
<1>4. CASE DropWriter(p) \/ DropWriterFails(p) \/ Sync(p) \/ Check(p) \/ Remove(p)
             \/ Rename(p)
  <2>1. \/ pc[p] \in {"drop", "abort"} /\ pc'[p] \in {"sync", "clean"}
        \/ pc[p] = "sync" /\ pc'[p] = "check"
        \/ pc[p] = "check" /\ pc'[p] \in {"remove", "rename"}
        \/ pc[p] = "remove" /\ pc'[p] = "rename"
        \/ pc[p] = "rename" /\ pc'[p] = "done"
    BY <1>4 DEF DropWriter, DropWriterFails, Sync, Check, Remove, Rename
  <2> QED BY <2>1 DEF StepsLeft
<1> QED BY <1>1, <1>2, <1>3, <1>4 DEF Step, AtomicWrite

\* Nothing of another process goes into the measure.
LEMMA OthersStepsLeft ==
    ASSUME TypeOK, NEW p \in Procs, NEW q \in Procs \ {p}, Step(p) \/ Kill(p)
    PROVE  StepsLeft(q)' = StepsLeft(q)
<1> USE DEF Goto, End, scanner, TypeOK
<1>1. cmd' = cmd /\ pc'[q] = pc[q] /\ i'[q] = i[q] /\ valid'[q] = valid[q]
  <2>1. CASE CompileStream(p)
    BY <2>1 DEF CompileStream, SkipChar, Letter, EndLine, ForeignChar, EndOfText, Emit,
       EmitFails
  <2>2. CASE ~ CompileStream(p)
    BY <2>2 DEF Step, AtomicWrite, Start, StartFails, Create, CreateFails, DropWriter,
       DropWriterFails, Clean, CleanFails, Sync, SyncFails, Check, Remove, RemoveFails,
       Rename, RenameFails, Exit, Kill
  <2> QED BY <2>1, <2>2
<1> QED BY <1>1 DEF StepsLeft

\* Every run of the host program ends after boundedly many steps, whatever fails
\* and whatever other runs do to out and out.tmp meanwhile (lexer.rs:13-50,
\* fs_atomic.rs:17-37).
THEOREM EveryRunIsBounded == Spec => EveryStepCounts
<1> DEFINE Counts(p) == /\ StepsLeft(p)' \in 0..(StepsLeft(p) - 1)
                        /\ \A q \in Procs \ {p} : StepsLeft(q)' = StepsLeft(q)
<1>1. ASSUME TypeOK, TypeOK', [Next]_vars
      PROVE  [\E p \in Procs : Counts(p)]_vars
  <2>1. ASSUME NEW p \in Procs, Step(p) \/ Kill(p) PROVE Counts(p)
    <3>1. StepsLeft(p)' < StepsLeft(p)
      BY <1>1, <2>1, OwnStepCounts
    <3>2. StepsLeft(p) \in Nat /\ StepsLeft(p)' \in Nat
      <4>1. StepsLeft(p) \in Nat
        BY <1>1, StepsLeftType
      <4>2. (TypeOK => StepsLeft(p) \in Nat)'
        BY StepsLeftType, PTL
      <4> QED BY <1>1, <4>1, <4>2
    <3>3. StepsLeft(p)' \in 0..(StepsLeft(p) - 1)
      BY <3>1, <3>2
    <3>4. \A q \in Procs \ {p} : StepsLeft(q)' = StepsLeft(q)
      BY <1>1, <2>1, OthersStepsLeft
    <3> QED BY <3>3, <3>4
  <2> QED BY <1>1, <2>1 DEF Next, AllEnded
<1>2. TypeOK /\ TypeOK' /\ [Next]_vars => [\E p \in Procs : Counts(p)]_vars
  BY <1>1
<1> QED BY <1>2, TypeCorrect, PTL DEF Spec, EveryStepCounts
=============================================================================
