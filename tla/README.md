# AraeChat / BelowCode: verification project

The repository holds a compiler for a tiny language, BelowCode, in several
implementations. A program is UTF-8 text; every line that holds at least one
Hangul syllable becomes one 32-bit word, chosen by OR-ing the 3-bit states of
the line's vowels. The compiler proper is `belowc_bin`, a `no_std` program on
bare system calls. `spec/ssot.lock.md` (below: the lock) seals what all of them
must do.

These modules model the implementations, TLC checks them on small instances and
TLAPS proves the main results for every value of the constants.

## 1. Inventory

| Part | State | Operations | What makes it correct |
|---|---|---|---|
| `belowc_bin`, driver (`belowc_bin/src/main.rs`, once for Unix, once for Windows) | descriptors, 1 KiB read buffer, `acc`, `line_has_valid`, the directory | argument check, exclusive creation of one of nine temporary names, read loop, one `write` per line, `rename`, `unlink` | `out` is never a half-written or a failed run's file, the words are the program's, failures leave nothing behind, every run ends with an exit code |
| `belowc_bin`, decoder (`Utf8Decoder`) | `state`, `codep`, across reads | `decode`, one byte | UTF-8 decodes to its text however it is cut; the rest is reported |
| `belowc::encode` (`belowc/src/lib.rs`) | `acc`, `line_has_valid`, a vector | one pass over a `&str` | the words of the text, or an error without words |
| `eamen_core` | same, and a sink | `validate`, then `eval` | same result; nothing reaches the sink unless all of the input is valid |
| host program `belowc` (`main.rs`, `lexer.rs`, `fs_atomic.rs`, ...) | `acc`, `has_valid_char`, a `BufWriter`, `out`, `out.tmp` | `compile_stream`, `atomic_write` | `out` is replaced as a whole |
| zk guest (`crates/zk_backend_sp1/guest/src/main.rs`) | two hashes, two counters, the outcome | bound on the input, `validate`, `eval` into a hash, a 113-byte public record | the record says what the input is and means; a failure commits to the empty output |
| zk guest's SHA-256 (`.../guest/src/sha256.rs`) | chaining value, bit count, block buffer | `update`, `finalize` | the digest does not depend on how the message was cut; the padding is SHA-256's |
| zk host (`.../host`) | the proof it was given | prove, verify, check the length | a bundle is returned only with a verified proof, and for every input if the SDK works |
| golden generator (`belowc/src/bin/generate_golden.rs`) | the golden directory | read, `\r\n` to `\n`, `encode`, overwrite | an exit with 0 means every golden file is right; anything else leaves at most one torn |
| fuzzer (`belowc/tests/fuzzer.rs`) | none | random texts through `encode` and `belowc_bin` | |
| CI scripts (`ci/`) | log files | run the binary on vectors, compare files | |

How they interact: `belowc_bin` stands alone; runs of it meet only in the
directory of `out`, through names. `generate_golden` and the fuzzer take
`belowc::encode` as the reference for `belowc_bin`. The zk guest calls
`eamen_core::validate` and then `eval`, which validates once more and writes each
word into a hash; the zk host has it run by a prover. The golden files and the
public records are two statements about the same vector files, made by programs
that share no code. The host program is independent of all of them, and speaks a
different dialect: vowels 0..7 for states 0..7 (`mapping.rs`) where the lock has a
table, and `0x513` for state 0 where the lock's LUT has `0x13` (`emitter.rs`).

What is hard here: runs that share a directory and know files by name only;
kills and failing calls between any two steps; results of calls that nobody
looks at; input cut into reads at any byte; two passes that must agree; fixed
arrays for paths; four copies of the same language rules; a hash fed in pieces that
do not match its blocks; tools that overwrite reference files in place.

## 2. Modules

| Module | Models |
|---|---|
| `BelowCode` | the character arithmetic, tables and LUT that the encoders repeat; and, without a loop, what a text means (`Accepted`, `Compile`) |
| `Utf8Decoder` | one call of `decode`; and, as the reference, which byte strings are UTF-8 and what text they are (`IsUtf8`, `TextOf`: `core::str::from_utf8`, external) |
| `Utf8Decoding` | a byte string going through `decode` |
| `LineEncoder` | `encode` and `validate`/`eval`, character by character |
| `BelowcBin` | N processes of `belowc_bin` with one `out`: both drivers |
| `AtomicReplace` | abstract: what runs of a compiler promise to whoever reads `out` |
| `BelowcHost` | N processes of the host program with one `out` |
| `Sha256Stream` | the hash of the guest as operators: `Update`, `Finalize`; and, as the reference, the digest of a whole message (`Digest`) |
| `ZkGuest` | the guest's `main`, with `LineEncoder`'s `eval` inside and its words going to the hash |
| `ZkHost` | `prove_and_verify` around the guest, with an SDK that may fail |
| `GoldenGenerator` | `generate_golden` and the golden files |
| `ReferenceOutputs` | `ZkHost` and `GoldenGenerator` side by side on the same vector files |
| `BelowCode_proofs` (the language and the decoder), `Utf8Decoding_proofs`, `LineEncoder_proofs`, `BelowcBin_proofs`, `BelowcHost_proofs`, `Sha256Stream_proofs`, `GoldenGenerator_proofs`, `ReferenceOutputs_proofs` | theorems and lemmas |
| `MC*` | values for the constants |

`BelowcBin` extends `BelowCode` and `Utf8Decoder` and instantiates
`AtomicReplace` (`Promise`); `LineEncoder` and `BelowcHost` extend `BelowCode`.
`ZkGuest` instantiates `LineEncoder` (`Eamen`, with `coder` fixed to `"eval"`) and
extends `Sha256Stream`; `ZkHost` extends `ZkGuest`; `ReferenceOutputs` extends
`ZkHost` and `GoldenGenerator` and interleaves their steps.

**`BelowcBin`.** One action per system call, `Exit` included, with the computation up
to the next one; the scan of a chunk takes one action per byte, for the branch of the loop
body that byte takes (`SkipByte`, `Letter`, `EmitLine`, `BlankLine`,
`ForeignChar`). Variables: `cmd` and `outLen` are the arguments, `pc` is the place
in the function, `tries` is `try_count`, `have`/`pos` the bytes read and scanned,
`dec`, `acc`, `valid` the locals of those names (`line_has_valid`), `site` the
return statement that was reached. A run that has returned is at `exit` until the
exit call, and may be killed there: after its rename `out` is replaced for good, but
nobody gets the 0. So the properties tell `Published` (the rename succeeded) from
`Succeeded` (the run exited with 0). The directory is `out` and `tmp`, from names to
files; a file is named after the process that created it and `file` gives its
words. `lost` is a history variable. The two drivers are copies that differ in
three guards: the Unix one wants `argc = 3` where `parse_args` stops after three
arguments; the path arrays have 1024 and 260 units; a failed read is `return 1` on
Unix and the end of the file on Windows. `os` chooses.

What a call may do is in `Faults`: `open`, `read`, `rename` and `unlink` may fail,
`write` may fail or fall short (`Torn`), a process may be killed between any two
of its steps, also after its rename and before its exit. `O_EXCL` and `rename` are atomic, as POSIX says; `rename` and
`unlink` fail on an unbound name. The words of a file are whole (`to_le_bytes` and
a 4-byte write); byte order is not modelled. `close` and `FlushFileBuffers` change
nothing that the model holds and have no action. A loss of power, where the missing `fsync` would
matter, is not modelled.

**`AtomicReplace`.** What a reader of `out` and of exit codes may rely on. A run
publishes, at most once and before it ends, all the words of its valid program
(`Publish`), and reports afterwards (`Succeed`, `Fail`, `Die`): 0 only if it has
published, 1 only if it has not; a killed run may have done either.

**`BelowcHost`.** Same style; `fd` and `off` are the process's open file and
offset, `buf` the `BufWriter`, `data` the contents. `File::create` on a bound name
opens that very file and truncates it, so two processes can hold the same one.
A flush that fails has written some words of the buffer before: in the middle of the
program (`EmitFails`) the others stay in the buffer for the next flush; the last one
(`DropWriterFails`), when `compile_stream` returns and drops its `BufWriter`, may also
leave the fragment of a word (`Torn`), and its error is ignored. A fragment in the
middle of a program, whose rest a later flush would complete, is not distinguished.
A run that has renamed is at `done` until it exits; `at` keeps where a run ended. A run
that fails ends in the step that fails, since nobody sees what it does after that.

**`LineEncoder`.** `phase` tells the passes apart. The model lets the second pass
of `eval` meet a foreign character (`panicked`, the `unwrap`); that it does not is
a property, not an assumption.

**`Sha256Stream`.** A hasher is the record of the fields of the struct, with `buf`
cut to `buf_len`. `compress` is uninterpreted in the strongest way: the chaining
value *is* the sequence of blocks compressed so far, so two digests are equal
exactly when the same blocks went in (`Compress` stands for the call, not for the
rounds). The block length and the length of the length
field are constants (64 and 8 in the code). `wrapping_add` on `len_bits` is an
addition: no input has 2^61 bytes.

**`ZkGuest`.** `stage` is the place in `main`; the encoder's variables are those of
`LineEncoder`, and a step of `eval` that emits a word also calls the sink with its
four bytes. `sinkLen` and `lenOut` are the two counters. The record keeps its six
fields apart; their 113 bytes are not laid out. `validate` is one step here because
its loop is a phase of `eval` too. The branch for an `eval` that refuses what
`validate` accepted is there (`EvalReturns`); that it is dead follows from
`RecordIsStatement`.

**`ZkHost`.** The SDK is external: `run` may fail, may return something that is no
proof, or public values of another length; `verify` accepts exactly proofs. A guest
that does not get to its commit has no proof.

**`GoldenGenerator`.** `todo` is what `read_dir` has still to list, in any order;
`golden` maps each vector to its golden file: none, an old one, or words.
`fs::write` is two steps, `Truncate` and `WriteGolden`, with a failure or a kill
between them. `encode` is one step with `LineEncoder`'s result: `Compile` of the
text or an error, which `line_encoder` checks and `LineEncoder_proofs` proves.

## 3. Runs

| Run | Instance | Shows |
|---|---|---|
| `bin_safety` (8.0 M states) | 2 processes, 2 names, 2-byte reads, both drivers, 3 path lengths, 9 command lines, all faults, left-overs on any name; symmetry | `TypeOK`, `OwnsTmp`, `OutIsPublished`, `SuccessPublishes`, `OutputIsMeaning`, `VerdictUpToGaps`, `LeftoversComeFromTheLoop` |
| `bin_promise` (0.6 M states) | 2 processes, 2 names, 4-byte reads, Unix, 7 command lines, `open` fails only for taken names, writes complete | `KeepsPromise` (refinement), `GiveUpOnlyWhenCrowded`, `EveryStepCounts`, `EveryRunExits` |
| `line_encoder` (0.1 M states) | every text of up to 5 characters over 6 kinds, both encoders | `ResultIsMeaning`, `RefusalIsClean`, `EvalIsTwoPhase` |
| `utf8_decoding` | every string of up to 4 bytes over 12 kinds | `Utf8IsDecoded`, `OnlyKnownGaps` |
| `host` (1.1 M states) | 2 processes, a buffer of 2 words, 7 command lines, all faults, a left-over | `AloneIsWhole`, `AloneKeepsTmp`, `GapExplained`, `PublishedIsStable`, `EveryStepCounts`, `EveryRunEnds` |
| `reference_outputs` | 3 vector files, 13 contents for the proved one, 2 for another, blocks of 8 bytes with a length of 4, `MaxIn` 12, all faults of the SDK and of file calls, kills of the generator | `RecordIsStatement`, `HasherHoldsOutput`, `BundleIsProven`, `CallReturns`, `GoldenWhenDone`, `AtMostOneTorn`, `RecordMatchesGolden` |

Why the bounds are enough. The interesting interleavings need two runs: one
takes, publishes or leaves a name that the other wants. With 2 names a process
can miss on the first, take the second, or find none; names are symmetric but for
their order. The command lines cover every branch of the loop: letters with and
without bits, a final consonant, a vowel outside the table, blank lines, a last
line without a line feed, a broken sequence, a cut one, an overlong one, wrong
argument counts. Reads of 2 bytes cut every 3-byte syllable; reads of 4 join the
end of one with the next line. `OutLens` straddles the limits of the path arrays.
Bytes and characters are one of each kind that any branch tells apart. A buffer of
two words flushes in the middle of a program of three, so a last flush that fails can
cut a program short or lose all of it.

What the properties on `out` say. `OutIsPublished` is about every moment: what `out`
shows is old or the file of a run whose rename succeeded, though that run may be killed
before it exits. `OutputIsMeaning` and `VerdictUpToGaps` speak of every run that has
published, so also of such a run. `OnlyKnownGaps` says that bytes decoded without a
complaint have at each lead byte a UTF-8 sequence, an overlong form, a surrogate, a
too large code point or a sequence cut off by the end (`GapAt`), and that every other
byte lies in the reach of a lead: a stray continuation byte is always reported.
For the host program `AloneIsWhole` bounds what the ignored flush error can do: a run
that met no other publishes all of its words or, if its last flush failed, all but at
most one buffer of them.

For the hash only the position in a block matters. With blocks of 8 and a length of
4, as with 64 and 8, a word divides a block, and inputs of 0, 2, 3, 4, 7, 8, 9, 10
and 12 bytes reach every branch of `update` and `finalize`: an empty call, a buffer
that is not filled, filled exactly or filled with bytes left, whole blocks past the
buffer, a rest, a length that fits behind the message, just fits not, or needs a
block of its own. The output is 0 to 3 words. An input of 15 bytes is over the
bound, one of 12 is on it. The contents are programs with LF, CR LF and CR CR LF,
and one each that is refused for a character, a broken sequence and an overlong line
feed; the second file is refused or not, so the generator stops at either. The third
is no `ok_` vector and is skipped.

The proofs remove the bounds for much of this.

**Fairness.** `bin_promise` and `host` use weak fairness of each process's `Step`:
the kernel schedules every process that can run, and no call blocks for ever
(regular files). Faults and kills are never forced. `reference_outputs` has weak fairness of the
prover and the host's own steps (`Proving`), none of `ProveFails` nor of the
generator: `CallReturns` says that a guest always gets to its commit. No strong
fairness is used.

Runs that show a disagreement between the code and what the repository says:

| Run | The repository | The code |
|---|---|---|
| `bin_leaks` | lock:131 "On any failure: delete temp if created" | four returns inside the read loop (and the read error) leave the temporary file; nine such failures use up the names |
| `bin_lost_write` | lock:16 "any failure `1`" | results of `write` are dropped; a short output is published with 0 |
| `bin_read_error` | lock:16 | on Windows a failed `ReadFile` counts as the end of the file |
| `bin_cut` | lock:32, eamen_core/src/lib.rs:90 | an input that ends inside a UTF-8 sequence is compiled |
| `bin_long_path` | lock:16 | a long `out` overruns the path array: panic, and the panic handler loops for ever |
| `host_replace` | fs_atomic.rs:11 "atomically replace `out`" | `out` is removed before the rename |

Seen while modelling and not given a run: `parse_args` never sees a fourth argument
(lock:15 allows two) and silently cuts long ones; only `argv[1]` is checked for
`-`; `decode` accepts overlong forms, which `from_utf8` refuses (`VerdictUpToGaps`
and `OnlyKnownGaps` say exactly what gets through); the vowel table of the host
program is not the lock's; the system call numbers for Linux are those of x86_64
on aarch64 too.

## 4. Proofs

`BelowcBin_proofs` is about any finite set of processes, any number of names, any
command lines and faults, both drivers. `TypeCorrect` comes first: its interesting
parts are that `acc` stays within the LUT, `pos <= have <= Len(input)` and a holder
has tried at least one name. The safety theorems rest on one inductive invariant,
`IInv`. `OwnsTmp` (a holder's name is bound to its own file) is not inductive: a
step of another process, `Rename` or `Unlink`, acts on the name *that* process
believes it owns. `BoundToTaker` is the converse (a binding tells its owner's last
try, and that the owner is past the loop), so two holders never have the same name;
`CreateTmpBinds` is the step where exclusiveness enters. What `Rename` publishes is
then the renaming process's own file, which gives `OutIsPublished` and
`SuccessPublishes`; `SiteAtExit` adds that a run has a return site only from its return
on, so nothing it does after its rename can undo it. `GivesUpOnlyWhenCrowded` is a counting argument: every name a
process tried in vain is `Blocked`, by a left-over or by another process whose last
try it was; blocks are never lifted (`BlockedStays`) and each process blocks one
name, so `MaxTries` names need that many left-overs and other processes
(`CrowdCount`).

`BelowCode_proofs` also has the decoder, for byte strings of any length. `TextOf` goes
by the rank of lead bytes and `decode` by state and partial code point; `DecoderInv`
joins them: after `i` bytes the decoder is at rest or `state` bytes short of the end of
the sequence that the last lead byte opened, `codep` is the code point of the bytes it
has (`Partial`), every other byte belongs to the sequence of its lead
(`LeadsGoOn`, `Owned`), and the characters so far are `DecodedText`, the text of the
sequences whose end has been reached. `DecodeStep` is the step: a byte either keeps all
of this, adding a character when it ends a sequence (`GoodStep`), or is malformed, and
then the bytes are no UTF-8 and the character is U+FFFD. At the end (`DecodedAtEnd`) the
text is `TextOf` if the bytes are UTF-8, and they have a gap if they are not.
`Utf8Decoding_proofs` draws the conclusions for the decoder alone (`Utf8Decodes`,
`GapsAreKnown`); its `DecodingInv` has a second disjunct, a report already made, since
the decoder starts over after a malformed byte and is then in no sequence at all.

What `BelowcBin` writes rests on this. `TextInv` says of every process that while it
scans (`ScanIsText`) its decoder is that of the bytes scanned, its accumulator that of
the open line of their text (`LineInv`) and its file holds the words of the lines ended
so far (`Written`); when it is about to rename, or has renamed, the file is complete
(`IsComplete`). `OutputIsMeaning` and `VerdictUpToGaps` follow at the end only; neither is
inductive, since both speak of processes that have returned. A read changes nothing
that `ScanIsText` mentions, which is why the cut does not matter; a step of another
process changes nothing of this one (`OthersKeep`); each branch of the loop is one
lemma (`SkipByteKeeps`, `LetterKeeps`, ...). A character that is refused is a character of
`TextOf` of the whole input (`DecodedIsPrefix`), so no program is refused.

Three things let a success be no whole program: a short write, a failed read on
Windows, an input with a gap, which are the runs `bin_lost_write`, `bin_read_error`
and `bin_cut`. `Reliable` excludes these three and nothing else (kills, failing `open`,
`rename` and `unlink`, and failing reads on Unix stay), and under it
`ReliableIsRight` proves the properties that those runs refute, and
`RunsKeepPromise` the refinement: a step that does not rename leaves `shown` alone,
because `out` shows a file whose process has only its exit left (`ShownStays`, from
`IInv`), and ends at most one run, with the verdict that its rename
calls for; the rename shows its own file (`OwnsTmp`), which is complete
(`TextInv`), and publishes a run that has not published before. The run `bin_promise` is an instance of `Reliable`.

`EveryRunIsBounded`, in `BelowcBin_proofs` and in `BelowcHost_proofs`, is the part of
termination that the prover can do: a measure on each process (`StepsLeft`) that its own
steps lower, whatever fails, and nobody raises. That a process can take a step until it
ends, which makes this `EveryRunExits` and `EveryRunEnds` under fairness, is left to TLC,
which checks deadlock in every run.

`LineEncoder_proofs` shows, for texts of any length, that both encoders compute
`Compile`. `CodeInv` says that the emitted words are the words of the lines ended so
far, in order, and that `acc` is the accumulator of the open line (`LineAcc` with
the text up to `i`); for `eval` also that the second pass runs over an accepted
text. `BelowCode_proofs` has the lemmas: how the letters of the open line change
with each kind of character, how OR-ing distributes over the bits, and that
appending the word of the line that has just ended keeps the order
(`AppendWord`), since `Compile` is defined by rank and not by a loop.

`BelowcHost_proofs` is about any number of runs of the host program. Here a name
proves nothing about its file: whoever opens `out.tmp` while it exists shares the
file. `HInv` therefore says who knows of whom. Runs that write at the same time have
both `met` the other (`WritersMet`); `out` and `out.tmp` are never the same file
(`NamesApart`), because `create` takes a fresh file or the one `out.tmp` is bound to;
a file is made by a run past `create` (`MadeByCreate`), so the fresh one is known to
nobody; so a run that can still write to what `out` shows has met one
(`LateWritersMet`), which is `PublishedIsStable`. `GapExplained` is part of the
invariant. `AloneWritesAll` needs more, for a run that met nobody: `OwnFile` (`out.tmp`
is bound to its file until it renames, and no other run has that file afterwards) and
`OwnWords` (file and buffer together hold the words of the lines so far, wherever a
flush cut them, and its offset is the end of the file; after a last flush that failed
the file is a prefix, `CutShort`). `AloneKeepsName` is the first of these. A step of another run leaves
these alone (`OthersKeep`): were the other one writing, both would have met. The loop
itself is `Scanned`, with the lemmas of `BelowCode_proofs` for the text rewritten to
the lock's alphabet (`Canonical`).

`Sha256Stream_proofs` is about every block length, every length of the length field
below it and every message. `Fed(m, bits)` is the hasher that a message `m` should
leave: its whole blocks compressed, the rest in the buffer. `UpdateIs` says that
`update` takes `Fed(m)` to `Fed(m \o d)`; its cases are those of the code (the data do
not fill the buffer, fill it, or there is none), and the arithmetic is that of `div`
and `%` by a length that is not a number (`DivModUnique`, `DivModSum`). So how a
message is cut does not matter (`UpdateComposes`), and as the padding goes through
`update` too, `Sha256IsDigest` only needs that it ends on a block boundary
(`PadLenIs`).

`GoldenGenerator_proofs` shows that the replacement of CR LF changes no meaning
(`CrLfKeepsMeaning`). `Compile` goes by rank, so the proof maps each position of the
new text to its origin (`OriginIs`, a bijection onto the kept positions that keeps the
order); line feeds and letters are always kept, so a line end and its origin have the
same letters before them, and an order-preserving bijection keeps ranks (`SameOrder`).
`GoldenInv` then is the loop invariant of the generator: every `ok_` vector already
listed has its right file, but for the one in hand.

`ReferenceOutputs_proofs` puts these together, for all vector files, bounds and faults.
`Enc` instantiates `LineEncoder_proofs` as `ZkGuest` instantiates `LineEncoder`, and
`SameStep` shows that each step of `eval` in the guest is one of the encoder the
theorems are about; `GuestInv` is `CodeInv` for it, `HasherHoldsOutput`, and which
checks the input has passed at each place of `main` (`StageInv`). `EvalHasher` is the
step that emits a word: one word more is four bytes more (`BytesOfAppend`), and
`UpdateComposes` does the rest. `CommitIsStatement` uses `Sha256IsDigest` and
`WordsAreMeaning`. `SystemInv` adds the call on the host and `GoldenInv`; that both
recorders agree (`RecordAndGolden`) follows, since both are right about the same words.

Assumptions: only the `ASSUME`s of the modules, which TLC evaluates on every run.

Model-checked only: liveness (`EveryRunExits`, `EveryRunEnds`, `CallReturns`), which is out of the prover's reach, as is that a process is enabled
until it ends. Every safety property of the passing runs is a theorem.

## 5. Not modelled

Entry points, inline assembly and `memset`/`memcpy`/`memcmp` (no state of their
own; the files under `belowc_bin/src/platform`, `argv` and `windows.rs` are entry
stubs, most of them unused); the compression function of SHA-256 (bit arithmetic on
32-bit words, which TLC's integers do not hold and test vectors settle); the inside
of the SP1 SDK; the byte layout of the public record; the fuzzer (it samples what
`line_encoder` and `bin_safety` state of all texts in their bounds); CI scripts and
workflows (they run the binary and compare files). The character-level quoting rules
of `parse_args` are reduced to how many arguments it finds and where it cuts them. A
golden file whose vector was removed or renamed is never deleted by the generator;
nothing in the code says it should be. Two generators at once are not modelled: the
workflows run one.

## 6. Plan

Every component with state of its own has its module, and every safety property of a
passing run its theorem. What is left:

1. `EveryStepCounts` for the prover's steps in `ReferenceOutputs`, whose liveness
   rests on the same argument.
2. That `belowc_bin` and `belowc::encode` agree, as a theorem over `BelowcBin` and
   `LineEncoder` side by side, in the way `RecordAndGolden` is one over the two
   recorders: for every input without a gap the one exits with 0 exactly when the other
   succeeds, with the same words.
