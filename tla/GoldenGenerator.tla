--------------------------- MODULE GoldenGenerator ---------------------------
(***************************************************************************)
(* generate_golden (belowc/src/bin/generate_golden.rs): it encodes every   *)
(* vector file named ok_*.txt, in the order the directory lists them, and  *)
(* overwrites the golden file of that name.                                *)
(*                                                                         *)
(* encode is one step here, with the result LineEncoder has for it.        *)
(***************************************************************************)
EXTENDS BelowCode, Utf8Decoder

CONSTANTS Vectors,      \* the files in tests/vectors
          OkVectors,    \* those of them that are named ok_*.txt
          NoFile,       \* a golden file that does not exist
          OldFile,      \* one an earlier run left
          GoldenFaults  \* which calls may fail, and whether it may be killed

ASSUME VectorsAssumption ==
    OkVectors \subseteq Vectors /\ NoFile \notin Vectors /\ OldFile \notin Vectors
ASSUME GoldenFaultsAssumption ==
    GoldenFaults \subseteq {"dir", "read", "write", "kill"}

VARIABLES
    content,            \* the bytes of the vector files
    gpc,                \* where main is
    todo, cur,          \* the entries not yet listed; the last one that was, or
                        \* NoFile
    result,             \* what encode returned for it
    golden              \* the golden files

goldenVars == << content, gpc, todo, cur, result, golden >>

Torn == << -1 >>        \* what a failed write leaves
GoldenPlaces == {"start", "list", "write", "truncated", "done", "failed", "dead"}

GoldenTypeOK ==
    /\ content \in [Vectors -> Seq(Byte)]
    /\ gpc \in GoldenPlaces
    /\ todo \subseteq Vectors
    /\ cur \in (Vectors \ todo) \cup {NoFile}
    /\ result \in Seq(Words)
    /\ \A n \in Vectors \ OkVectors : golden[n] \in {NoFile, OldFile}

\* Before the first run, or after one that left all of its files.  `content` is
\* given by the module that composes the generator with others.
GoldenInit ==
    /\ gpc = "start"
    /\ todo = Vectors
    /\ cur = NoFile
    /\ result = <<>>
    /\ \E old \in {NoFile, OldFile} : golden = [n \in Vectors |-> old]

-----------------------------------------------------------------------------
Place(l) == gpc' = l

\* The golden directory is made if it is missing, that of the vectors opened
OpenDirs ==
    /\ gpc = "start"
    /\ Place("list")
    /\ UNCHANGED << content, todo, cur, result, golden >>

\* unwrap and expect: a call that fails ends the program
OpenDirsFails ==
    /\ gpc = "start"
    /\ "dir" \in GoldenFaults
    /\ Place("dead")
    /\ UNCHANGED << content, todo, cur, result, golden >>

NextEntry(n) == gpc = "list" /\ n \in todo /\ todo' = todo \ {n} /\ cur' = n

SkipEntry(n) ==
    /\ NextEntry(n)
    /\ n \notin OkVectors
    /\ UNCHANGED << content, gpc, result, golden >>

ReadFails(n) ==
    /\ NextEntry(n)
    /\ n \in OkVectors
    /\ ~ IsUtf8(content[n]) \/ "read" \in GoldenFaults
    /\ Place("dead")
    /\ UNCHANGED << content, result, golden >>

CR == 13

MutCrLfToLfDropsLine(t) ==
    LET kept == { k \in DOMAIN t : t[k] # CR /\ ~ (t[k] = LF /\ k > 1 /\ t[k - 1] = CR) }
    IN  [ m \in 1..Cardinality(kept) |-> t[Nth(kept, m)] ]

\* replace("\r\n", "\n")
CrLfToLf(t) ==
    LET kept == { k \in DOMAIN t : ~ (t[k] = CR /\ k < Len(t) /\ t[k + 1] = LF) }
    IN  [ m \in 1..Cardinality(kept) |-> t[Nth(kept, m)] ]

Encoded(n) == CrLfToLf(TextOf(content[n]))

EncodeVector(n) ==
    /\ NextEntry(n)
    /\ n \in OkVectors
    /\ IsUtf8(content[n]) /\ Accepted(Encoded(n))
    /\ result' = Compile(Encoded(n))
    /\ Place("write")
    /\ UNCHANGED << content, golden >>

MutEncodeFailsGoesOn(n) ==
    /\ NextEntry(n)
    /\ n \in OkVectors
    /\ IsUtf8(content[n]) /\ ~ Accepted(Encoded(n))
    /\ UNCHANGED << content, gpc, result, golden >>

\* exit(1), with what was written so far
EncodeFails(n) ==
    /\ NextEntry(n)
    /\ n \in OkVectors
    /\ IsUtf8(content[n]) /\ ~ Accepted(Encoded(n))
    /\ Place("failed")
    /\ UNCHANGED << content, result, golden >>

\* fs::write truncates the file, or makes it, and then writes
Truncate ==
    /\ gpc = "write"
    /\ golden' = [golden EXCEPT ![cur] = <<>>]
    /\ Place("truncated")
    /\ UNCHANGED << content, todo, cur, result >>

WriteGolden ==
    /\ gpc = "truncated"
    /\ golden' = [golden EXCEPT ![cur] = result]
    /\ Place("list")
    /\ UNCHANGED << content, todo, cur, result >>

MutWriteFailsUnnoticed ==
    /\ gpc \in {"write", "truncated"}
    /\ "write" \in GoldenFaults
    /\ Place("list")
    /\ UNCHANGED << content, todo, cur, result, golden >>

WriteFails ==
    /\ gpc \in {"write", "truncated"}
    /\ "write" \in GoldenFaults
    /\ golden' \in {golden} \cup
         (IF gpc = "truncated" THEN {[golden EXCEPT ![cur] = Torn]} ELSE {})
    /\ Place("dead")
    /\ UNCHANGED << content, todo, cur, result >>

Done ==
    /\ gpc = "list"
    /\ todo = {}
    /\ Place("done")
    /\ UNCHANGED << content, todo, cur, result, golden >>

KillGenerator ==
    /\ "kill" \in GoldenFaults
    /\ gpc \notin {"done", "failed", "dead"}
    /\ Place("dead")
    /\ UNCHANGED << content, todo, cur, result, golden >>

GoldenStep ==
    \/ OpenDirs \/ OpenDirsFails
    \/ \E n \in todo : SkipEntry(n) \/ ReadFails(n) \/ EncodeVector(n) \/ EncodeFails(n)
    \/ Truncate \/ WriteGolden \/ WriteFails \/ Done

-----------------------------------------------------------------------------
(* Properties.                                                             *)

IsProgram(n) == IsUtf8(content[n]) /\ Accepted(TextOf(content[n]))

\* The golden file of n holds the words of the vector file as it is: what
\* belowc_bin makes of it, line ends of any kind included.
IsGolden(n) == IsProgram(n) /\ golden[n] = Compile(TextOf(content[n]))

\* A generator that exits with 0 has left the right golden file for each of the
\* ok_ vectors, whatever was there before (generate_golden.rs:28-56).
GoldenWhenDone == gpc = "done" => \A n \in OkVectors : IsGolden(n)

\* Whatever stops the generator, every golden file is an old one or the right
\* one, but for the one that was being written; and a vector it refuses is no
\* program and keeps the golden file it had (generate_golden.rs:37-51).
AtMostOneTorn ==
    /\ \A n \in Vectors :
         \/ golden[n] \in {NoFile, OldFile}
         \/ IsGolden(n)
         \/ n = cur /\ gpc \in {"truncated", "dead"}
    /\ gpc = "failed" => ~ IsProgram(cur) /\ golden[cur] \in {NoFile, OldFile}
=============================================================================
