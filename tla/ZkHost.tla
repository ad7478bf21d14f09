------------------------------- MODULE ZkHost -------------------------------
(***************************************************************************)
(* prove_and_verify (zk_backend_sp1/host/src/lib.rs): it has the guest run *)
(* by a prover on the given bytes, verifies the proof it gets, and returns *)
(* the public values.                                                      *)
(*                                                                         *)
(* The prover and the verifier are the SDK's.  A proof is what the guest   *)
(* committed, how many bytes that is, and whether the proof is one; verify *)
(* accepts it exactly when it is.                                          *)
(***************************************************************************)
EXTENDS ZkGuest

CONSTANT SdkFaults      \* "prove": run() fails; "proof": it returns a proof of
                        \* nothing; "values": it returns other public values
                        \* than this guest's 113 bytes

ASSUME SdkFaultsAssumption == SdkFaults \subseteq {"prove", "proof", "values"}

AbiLen == 32 + 32 + 32 + 8 + 8 + 1

VARIABLES
    call,               \* where the call is, and how it returned
    proof,              \* proof_with_pv
    bundle              \* public_inputs_113

hostVars == << call, proof, bundle >>

NoProof == [valid |-> FALSE, len |-> 0, values |-> NoRecord]

HostTypeOK ==
    /\ GuestTypeOK
    /\ call \in {"proving", "proved", "verified", "ok", "err"}
    /\ proof.valid \in BOOLEAN /\ proof.len \in Nat
    /\ bundle # NoRecord => bundle.exit \in {0, 1}

\* The input is written to the stdin of the guest, the keys are set up
HostInit ==
    /\ GuestInit
    /\ call = "proving"
    /\ proof = NoProof
    /\ bundle = NoRecord

GuestRuns ==
    /\ call = "proving"
    /\ GuestStep
    /\ UNCHANGED hostVars

Fail == call' = "err" /\ UNCHANGED << guestVars, proof, bundle >>

ProveFails == call = "proving" /\ "prove" \in SdkFaults /\ Fail

Proves ==
    /\ call = "proving"
    /\ stage = "committed"
    /\ \E ok \in {TRUE} \cup (IF "proof" \in SdkFaults THEN {FALSE} ELSE {}),
          n \in {AbiLen} \cup (IF "values" \in SdkFaults THEN {0, AbiLen + 1} ELSE {}) :
         proof' = [valid |-> ok, len |-> n, values |-> record]
    /\ call' = "proved"
    /\ UNCHANGED << guestVars, bundle >>

MutVerifyUnchecked ==
    /\ call = "proved"
    /\ call' = "verified"
    /\ UNCHANGED << guestVars, proof, bundle >>

Verifies ==
    /\ call = "proved"
    /\ proof.valid
    /\ call' = "verified"
    /\ UNCHANGED << guestVars, proof, bundle >>

VerifyFails == call = "proved" /\ ~ proof.valid /\ Fail

Returns ==
    /\ call = "verified"
    /\ proof.len = AbiLen
    /\ bundle' = proof.values
    /\ call' = "ok"
    /\ UNCHANGED << guestVars, proof >>

\* ensure!
WrongLength == call = "verified" /\ proof.len # AbiLen /\ Fail

\* The steps that are not a fault: the prover and the SDK's calls get on.
Progress ==
    \/ GuestRuns \/ Proves \/ Verifies \/ VerifyFails \/ Returns \/ WrongLength

HostStep == Progress \/ ProveFails

-----------------------------------------------------------------------------
(* Properties.                                                             *)

\* A call that returns a bundle returns the record of its own input, under a
\* proof that was verified; whether the input is a program is for the caller to
\* read off the record (host/src/lib.rs:34-59).
BundleIsProven ==
    call = "ok" => proof.valid /\ proof.len = AbiLen /\ bundle = Statement(input)

\* Every call returns, and unless the prover failed or what it made is no proof
\* of 113 bytes it returns a bundle: an input that is too long or no program is
\* proved like any other (host/src/lib.rs:34-59, guest/src/main.rs:68-79).
CallReturns ==
    <>(call = "ok" \/ (call = "err" /\ ~ (proof.valid /\ proof.len = AbiLen)))
=============================================================================
