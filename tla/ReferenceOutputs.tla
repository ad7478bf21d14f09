-------------------------- MODULE ReferenceOutputs --------------------------
(***************************************************************************)
(* The two programs that put on record what a vector file compiles to: the *)
(* golden generator, through belowc::encode, and the zk backend, through   *)
(* eamen_core::eval.  They share nothing but the vector files.             *)
(***************************************************************************)
EXTENDS ZkHost, GoldenGenerator

CONSTANTS Contents,     \* what the vector files may hold
          Proved        \* the one whose bytes prove_and_verify is called with

ASSUME ContentsAssumption == Contents \subseteq [Vectors -> Inputs]
ASSUME ProvedAssumption == Proved \in Vectors

vars == << guestVars, hostVars, goldenVars >>

TypeOK == HostTypeOK /\ GoldenTypeOK

Init ==
    /\ content \in Contents
    /\ input = content[Proved]
    /\ GoldenInit
    /\ HostInit

Proving == Progress /\ UNCHANGED goldenVars

Prove == HostStep /\ UNCHANGED goldenVars

Generate == (GoldenStep \/ KillGenerator) /\ UNCHANGED << guestVars, hostVars >>

Terminated ==
    /\ call \in {"ok", "err"} /\ gpc \in {"done", "failed", "dead"}
    /\ UNCHANGED vars

Next == Prove \/ Generate \/ Terminated

Spec == Init /\ [][Next]_vars

\* The prover keeps working and the SDK's calls return.  Nothing is assumed of
\* faults, nor of the generator.
FairSpec == Spec /\ WF_vars(Proving)

-----------------------------------------------------------------------------
(* Properties.                                                             *)

\* The record that is proved for a vector and the golden file that is generated
\* from it stand for the same words, though one goes through eval and a hash and
\* the other through a replacement of line ends and encode; and a vector that
\* one refuses the other refuses, unless only the guest's bound does.
RecordMatchesGolden ==
    call = "ok" =>
        /\ gpc = "done" /\ Proved \in OkVectors /\ Len(input) =< MaxIn =>
             /\ bundle.exit = 0
             /\ bundle.hOut = Digest(BytesOf(golden[Proved]))
             /\ bundle.lenOut = 4 * Len(golden[Proved])
        /\ gpc = "failed" /\ cur = Proved => bundle.exit = 1
=============================================================================
