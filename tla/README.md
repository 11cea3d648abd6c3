# TLA+ verification of Open Authority Trials (OAT)

OAT asks one question of a system under trial: did a protected sink commit a
consequence that no valid current authorization covers? The repository contains
reference systems under trial, the verifier that answers the question from
evidence, and the runners that conduct bounded, gated experiments around both.
This directory models the parts in which concurrency, failure and ordering decide
whether the answer can be trusted.

## 1. Inventory

| Component | Source | State | Operations | Hard because |
|---|---|---|---|---|
| Host/sink integration | `oat/integration/host_sink.py` | SQLite ledger and observer, use counters, queue, worker, HTTP server | `do_POST`, `guarded`, `hidden`, `enqueue`, `_worker_loop`, `evidence`, `verdict`, `close` | request threads, a worker, a reader and restarts share it with almost no locks |
| Authority | `oat/authority/*` | epochs; the issuer's counters | `at`, `status_of`, `validate_delegation`, `validate_authorization`, `record_use` | currentness is judged at a tick, missing evidence is a third truth value |
| Consequence verifier | `oat/verifier/consequence.py`, `oat/paths/*` | none | `adjudicate`, `reconcile` | precedence of dispositions over mixed findings |
| Sequence 004 runner | `tools/oat_consequence_sequence_runner_004.py` | gates, authorization ledger, budgets, loop, output directory | S0, S1, S1A, S2, preflight gate, S3, S4 | provider failures and retries, late target threads, kills and reruns |
| Protected sink and scenarios | `oat/consequence/*` | in-memory ledger, receipts, logs, use counters | `submit`, `commit_unguarded`, sixteen scenarios | the interlock and the verifier judge the same commit with different evidence |
| Evidence graph and replay | `oat/evidence/*` | a package file | build, verify, replay | incomplete graphs, edited packages |
| Qualification | `oat/qualification/*`, `tools/oat_adversary_qualification_001.py` | session budgets, the isolated target's commits, evidence files per pair, the publication | run, audit, persist, replay, select | a terminal failure after a find, stores left by an earlier or killed run, damaged evidence, ties |
| RB-001 | `oat/reference_boundaries/rb001.py`, `oat/falsifiers/rb001.py` | none: a function of a scenario and a variation | `execute`, `evaluate` | three enforcement paths, two of them seeded with a stale look at authority |
| Trial pipeline | `oat/pipeline.py`, `trial.py`, `verifier/v1.py`, `replay.py`, `witness.py`, `manifest.py`, `provenance.py`, `dryrun.py` | the three documents of a run, sums, replay result | search, build, verify, replay, seal | tampered or half-written packages, precedence of rejections |
| Adversaries | `oat/adversaries/*` | a position in a grid or a script | propose, parse | the cap of the grid, unreadable lines |
| Command line | `oat/cli.py` | the package directory | ten commands | a command is killed between or inside writes; the next one meets what it left |
| Runner 003, runners 001 and 002, preflight, builders | `tools/*` | output files | one-shot programs | as runner 004, in part |

How they interact: a runner imports the host/sink integration and drives it over
HTTP from the loop of S3; the integration asks `authority` for a report inside its
guard; evidence is collected from the integration's two databases and counters and
given to the verifier, which asks `authority` again, commit by commit; the runner
wraps the verdict, copies the databases and replays the verdict from the copies.
The command line has two families of packages: the pipeline searches a scenario of
RB-001 with an adversary, executes the boundary, builds a witness and has V1 judge it;
a consequence run drives the in-memory sink through a scenario and hands what it left
to the same consequence verifier as the runners. The qualification tool drives two
candidate adversaries against synthetic targets, persists each pair, replays it from
disk, and applies frozen selection rules to the published matrix.

What makes each part correct: the sink commits through a guarded route only what
is covered, and once; what clients, telemetry and verdicts say agrees with the
ledger; the verifier reports a crossing whatever else it finds; the runner
contacts the provider only behind its gates and within its budgets, keeps the
evidence it preserved, and calls a sequence closed only when it was executed and
replayed; a package directory whose sums hold is one run, or says that it is not; a
selected adversary is the one the frozen rules choose from the evidence on the disk, and a
sealed PASS says what did not change. The hazards
that threaten this, each at its line, are in `PROJECT.json`.

## 2. Modules

| Module | Models |
|---|---|
| `Authority` | epochs, delegation, the per-dimension report: pure operators |
| `ConsequenceVerifier` | `_adjudicate_commit`, `adjudicate`, `reconcile` over evidence with optional fields |
| `HostSink` | `host_sink.py`, one action per point where another thread can see or change shared state |
| `HostSinkProperties` | its properties, the refinement, and two statements of the documents it contradicts |
| `ProtectedLedger` | the abstract specification: a ledger of fresh admissible rows with witnesses and acknowledgements |
| `VerdictHistory` | `HostSink` with two history variables, to compare a verdict with the instants it spans |
| `MCHostSink`, `MCVerdictHistory` | the reference authority, authorization and requests as constants |
| `HostSinkProofs` | TLAPS proofs about `HostSink`: what is stored, and what happens over time |
| `Sequence` | the six-stage runner 004 with the target reduced to what its verdict depends on |
| `SequenceProperties`, `MCSequence`, `SequenceProofs` | its properties, small constants, and proofs |
| `HostSinkDeliveryProofs` | TLAPS proofs about answers, telemetry and the queue, and the refinement of `ProtectedLedger` |
| `VerdictHistoryProofs` | TLAPS proofs about verdicts whose evidence is read while the sink works |
| `PaymentSink` | `consequence/sink.py`: the interlock and the in-memory ledger, one action per outcome of a call |
| `ConsequenceScenarios` | the sixteen scenarios as sequences of calls and what each hands the verifier |
| `ConsequenceRun` | a scenario on a fresh sink, the graph of every commit, the package and its digest |
| `ReferenceBoundary` | RB-001, its falsifier, the adversaries, the search, the witness, V1 and the adjudication of a trial, as pure operators |
| `CommandLine` | the ten commands over one package directory, file by file, with kills and damage; it composes `ConsequenceRun` and `ReferenceBoundary` |
| `CommandLineProperties`, `MCCommandLine` | its properties; small scenarios |
| `SyntheticTargets` | corpus, leak audit, the answer of a target, search metrics, as pure operators |
| `Qualification` | the qualification command: session loop, evidence of a pair, selection, publication |
| `QualificationProperties`, `MCQualification` | its properties; two seeds and what a provider may answer |
| `PaymentSinkProofs`, `CommandLineProofs`, `ReferenceBoundaryProofs`, `QualificationProofs` | TLAPS proofs |

`Sequence`, `HostSink` and `PaymentSink` all extend `ConsequenceVerifier`, which
extends `Authority`. `Sequence` does not instantiate `HostSink`: an attempt of the
adversary is a thread with three shared steps (row, arrival, receipt) and one of
seven effects, which is what `HostSink`'s ledger, observer and receipts reduce to
for the verdict of a run that has one authorization.

### HostSink and its code

A thread's `pc` label is the next call it will make on shared state. `ledger` is
the table `ledger_commits`, `receipts` and `observed` the two observer tables (the
latter aggregated as `observed_paths()` does), `uses` is `issuer._uses`, `jobs` the
queue, `serving` the job in the worker's hands, `done` and `box` the event and the
dictionary of a job. `guarded()` is `CheckIdempotency; Validate; Refuse | ReadUse;
WriteUse; Commit | CommitConflict; ObserveCommit; EmitReceipt`; `hidden()` shares
those actions without validation and uses; `enqueue()` is `Enqueue; JobDone |
WorkerTimeout`; the worker is `WorkerLoop; WorkerGet | WorkerEmpty`, then
`guarded()`; `evidence()` is one action per read; `Close`, `CloseServer` and
`Restart` are what they say. The counters read by `evidence()` are read in one
step (there is one authorization in the runs). An SQLite transaction is atomic and
durable. A failure of SQLite other than a constraint is covered by `Restart` only.
The fifth table read, the token digests, is taken with the adjudication.

A digest stands for what it was computed from and a MAC for its key and content:
SHA-256 and HMAC are taken to be free of collisions.

### Sequence and its code

`pc` is where `main` is; `disk[d][a]` says which invocation wrote artifact `a` in
directory `d`, so that an overwrite is visible; `gates` is `GateState`; `consumed`
is the authorization ledger; `calls`, `retry`, `failing`, `invalid`, `terminal` and
`stop` are the variables of `run_s3` and `provider_call_with_retries`; `target` is
the sequence of attempts with how far each one's server thread is. `contacted` and
`received` are outside the program: what the provider has seen. Every step may be
followed by `Kill`, which loses all memory and the scratch directories, and by
another `Start` over the same or another output directory.

Left to the environment, as nondeterministic choices: whether hashes match, what
the provider returns (an answer, a retryable or fatal failure, or an
`http.client.HTTPException`), what the model proposes, when the wall clock
expires and how fast the target's threads run.

Simplified: the transcripts and audit files of S3 are one artifact, `context`; the
audit S2 repeats over the same bundle has one outcome with the reset's checks; an
exception of SQLite or of the file system is a `Kill`; `--stop-after S3` and `S4`
do the same in the code and are option 6; two invocations never run at once; the use count
stays within its bound (attempts are sequential, except those that timed out); the
replay of the positive control is deterministic, so it reproduces its verdict.

### CommandLine and its code

`files` is the package directory, `job` the process: the calls its scenario still has
to make and the writes it still has to do (`write`, `seal`, `replay`, `report`,
`strip`), in the order of the code; `exits` is the exit code of the last command. A
command that writes nothing is one step. `Run`, `VerifyDirectory | VerifyFile`,
`Replay`, `Inspect`, `Demo`, `DryRun`, `RunConsequence`, `VerifyConsequence`,
`ReplayConsequence` and `InspectPaths` are the `cmd_` functions; a traceback is exit
code 1. The sink of a consequence run lives in the process: `DropSink` at its end and
at a kill is `_new_sink` of the next one. `Kill` may leave the file being written torn;
`Damage` loses a file, tears it, or replaces it by the same file of another run, by a
witness with its claim turned round, or by a package with another verdict or scenario.

A digest stands for its value; `DigestObject` leaves `runtime` out, as `digest_object`
does, so the sums (over bytes) see what the digests do not. A variation is its
numbers; identities, units and beneficiaries, which no decision reads, are left out.

### Qualification and its code

`pc` is where `cmd_run` is and `at` the pair in hand; `session` holds the locals of
`run_candidate_on_target`, `result` those of `persist_and_verify`; `disk` is what is
under `--out`. `Answers` is the provider and the clock: a time-out, a transport
failure, an invalid answer, a stop, or a request. `WriteEvidence` writes the six
evidence files in one step, since no command reads what a kill leaves of them; the
final result, the replay result and the two seals are steps of their own, because
files are read back between them. Selection compares rates in millionths, as the code
rounds them, and doubled medians; `Ranked(f, k)` is the k-th smallest value of `f`, which
is how a sorted list is indexed. A file is a record: `Whole` with its content, `Damaged`,
or `Earlier`, the one content an earlier run's directory is filled with. `Reconstructed` is
`reconstruct_final`, which `_assemble` calls on the evidence it is about to hand over.
`faults` remembers what was damaged and at which `pc`, so that the properties can speak of
damage between a digest and its comparison. `AuditPair` looks for all that `audit_pair`
looks for: the segments of the undeclared path, the route id, the mechanism, the values
of the authorization and the seed. A value is one token per dimension, the seed is one
token, and whether the seed is there as a whole or as its first eight characters is not told
apart; the prompts and bundles of the runs contain neither.

## 3. Runs

| Run | Question | Bounds | Result |
|---|---|---|---|
| `hs_all` | Do all safety properties and the refinement hold? | 2 request threads over 11 kinds of request, the worker, 1 restart | pass |
| `hs_live` | Is every request ended and every job taken? | 2 threads posting to the queue, one of whose payloads ends the worker; 1 verdict meanwhile; fair | pass |
| `hs_verdict` | What does a verdict mean whose evidence is read while requests run? | 2 threads, 1 verdict, 1 restart | pass |
| `hs_race`, `hs_torn` | Two statements of the documents | 2 or 1 threads | violated |
| `seq_all` | Do all properties of the runner hold? | 2 invocations, 1 directory, 4 calls, 2 attempts, 2 invalid answers, 5 effects | pass |
| `seq_spent`, `seq_lost` | Two statements of the protocol of sequence 004 | 2 directories; 1 invocation | violated |
| `cli_all` | Do packages, verdicts and replays survive kills and damage? | 2 commands of ten, 2 faults, 4 scenario files, 6 candidates, all 16 consequence scenarios | pass |
| `qual_all` | Is what is published the choice of the frozen rules over the evidence on the disk? | 2 candidates, 2 targets, 2 seeds, 3 calls, 2 attempts, 2 invalid answers, 1 damaged file, an empty or an earlier run's directory | pass |
| `qual_leak`, `qual_mixed` | A comment about the leak audit, a docstring about the evidence | as `qual_all`, no damage | violated |

Why the bounds are enough: two request threads and the worker give every pair of
racing guarded deliveries, on the same route and across routes, and a race with
the hidden route; the code keeps no state for which a third would matter that a
pair does not reach. The eleven requests contain the refusals the
tests exercise (replay, revocation, a mutated action, an unknown authorization) and
both conflicts of the INSERT. One restart separates rows from counters; a second one meets the
same state. Four calls allow a turn with two retries and a turn after it, which is
where call budget, retries and attempts interact, and two attempts allow a late
thread behind a later answer; two invocations are what a rerun needs, from every point
at which the first could have been killed. One directory is enough for `seq_all`
because directories share nothing on disk; `seq_spent` uses two.

Two commands over one directory are the least at which one meets what another left,
and two faults let the first be killed and its leavings be damaged before the second;
a third command reads the same kinds of file. The four scenario files are the three
enforcement paths and a second file of the same name in another directory, which the
lookup of a stripped manifest confuses with the first; six of the eight points of the
largest grid show the cap. Two targets and two candidates are what order, ties and
thresholds need; three calls and two attempts keep the order of the frozen budgets, in
which calls outnumber attempts. What a provider may answer is chosen per pair so that
each pair reaches other ends (`MCAnswers`): time-out and failure after a find, a
repeated or missing `commit_id`, a wrong field, an action that is no object, a stop,
invalid answers. The two seeds draw different families, mechanisms and leaking words. The
files that may be damaged are a transcript (digested, and read by nobody), a final result
(written twice and covered by the seals only) and the published matrix; one damaged file
meets every point of the two digests and the three seals.

`CHECK_DEADLOCK FALSE` is set because the programs really end: a request thread
finishes, the server is closed, an invocation is over, the commands are used up, the
matrix is published.

### Fairness

`HostSink`: weak fairness of each request thread and of the worker, which the
operating system's scheduler gives a thread that can run. `done.wait(timeout=5)` is
the action `WorkerTimeout`, enabled as long as the event is not set, so a request
ends even if the worker is dead. No fairness on requests, verdicts, close, restart.

`Sequence`: weak fairness of the steps of `main`. Every wait in it has a timeout
(provider call, target request), and an expired timeout is one of its steps. The
provider's timeout bounds each read of a stream, not the stream, so the model
assumes that a stream ends. No fairness on target threads, the clock, kills, starts.

`CommandLine` and `Qualification` claim no liveness and state no fairness: they are
sequential programs whose loops are bounded by their budgets.

## 4. What the properties say

Host/sink: `GuardedCommitsCovered` (what is stored is what was validated, at its
tick), `OneCommitPerAuthorization` (races and restarts included),
`UseRecordedBeforeCommit`, `AnsweredMeansDurable`, `TelemetryNeverOverstates`,
`QuietTelemetryComplete`, `JobsConserved`, `HistoryIsAppendOnly`,
`CrossingIsPermanent` (no later step improves a verdict that has a witnessed
crossing), `ImplementsProtectedLedger`; for liveness `EveryRequestEnds`, `QueueIsServed`.

For the reader: evidence is five reads, one after the other. `AlarmIsOfSomeInstant`: a
verdict of boundary failure that no overuse explains, or of unknown, is one an instant of
the reading would have given. `StandingCrossingIsReported`: if every instant of the reading
would have given boundary failure, the verdict is that. `CleanVerdictCoversCommits`: a clean
verdict vouches for every protected row it read. `UseCountNeverOverstates`: the counters
lose uses and invent none. A clean verdict need not be of any instant: while the rows are
read first and the receipts later, the receipt of a row arrives in between, and meanwhile
another row, which the reading does not contain, is stored and without one; at each instant
the verdict would have been unknown.

Sequence: `NoRequestBeforeGates`, `BudgetsHold`, `OneContactPerDirectory`,
`EvidenceIsKept` (S0's own files excepted: a refused rerun overwrites them),
`ClosureMeansExecuted`, `SubjectResultIsTrue`, `CompletenessIgnoresOutcome`,
`EveryRunEnds`.

Command line: `SealedIsWholeOrRefused` (a directory whose sums hold is the documents of
one run, or its replay says it is not), `WholePackageReplays`, `VerdictFollowsSearch`;
for consequence runs `GuardedLedger` (a row of `submit` is covered on a recorded use
and no key is stored twice), `PreventionAndDetectionAgree` (the verifier never convicts
what the interlock admitted), `CleanVerdictHasCompleteGraphs`, `ReplayReproduces`.

Qualification: `OneFlawEach` (a target commits without authority exactly through its
one flaw, within reach), `ReplayMissesOnlyUnattributed` (the replay of a pair whose evidence
is whole differs from its result in two cases only: the find cannot be attributed to an
attempt, or the provider failed after it), `SolvedIsReal`.

`IntegrityIsExact`: what the integrity of a pair says. It is PASS exactly when nothing was
damaged between the digests of the evidence and their comparison, nor between the first
seal and its own. The last seal is taken of what then lies there, so a pair in the matrix
verifies until something is damaged later, and a file damaged in one of the two gaps (between
the comparison of the digests and the first seal, between the verification of that and the
second) is sealed with PASS.

`SelectionIsEarned`: a publication that verifies is of one run. That of this run lies over
no evidence of an earlier one, and its choice is the one of the frozen rules. For this the
matrix is not believed: every row is read again from the evidence of its pair on the disk
(`FromEvidence`), where that is whole, and gate and order are written down from the rules
document, the order with all its five components. Of a pair whose evidence was damaged the
row is all there is. For the publication of an earlier run the property asks only that its
files are both earlier ones; what lies under it is the subject of `qual_mixed`.

### Disagreements found

1. `hs_race`: two racing deliveries of one payment are both admitted before either
   commits. One INSERT fails, but both uses are recorded, and the one covered
   commit is then reported as a boundary failure.
2. `hs_torn`: evidence is not read atomically and the routes are read first, so a
   verdict can contain a commit of the hidden route and be clean.
3. `seq_spent`: consumption of the authorization lives in one process's memory; a
   second invocation with another output directory contacts the provider again.
4. `seq_lost`: an `http.client.HTTPException` is not handled by `run_s3`; the
   authorization is spent and no record of the failure is written.
5. `qual_leak`: the leak audit forbids every segment of five letters or more of a
   hidden route, so a pair fails over an ordinary word ("submit", "commit", "apply",
   "execute") of the prompt or of the request contract, and the candidate with it.
6. `qual_mixed`: a rerun into the same directory overwrites the evidence first and the
   publication last; killed on the way it leaves the earlier publication, which
   verifies, without part of the evidence it rests on.

The quotations are in `PROJECT.json`. Three more have no run of their own:

- Damaged evidence that is sealed. `persist_and_verify` compares the evidence with its
  digests (`evidence_store.py:226`) before it takes the seal (235) and never afterwards; what
  is damaged in between is published with integrity PASS, where the comment at line 51 says
  that "corrupting any of these must make integrity verification fail". `IntegrityIsExact`
  says, as an equivalence, when this happens.
- A find that does not replay. `replay_from_disk` knows the attempts by the `commit_id` the
  model gave them; a find under none, or under one that an earlier refused attempt carried,
  is not found again or found too early, and the candidate fails the gate with whole evidence.
  Its docstring (`evidence_store.py:128-133`) says that every selection-relevant result, the
  first counterexample's call among them, is recomputed. `ReplayMissesOnlyUnattributed` says,
  again as an equivalence, when it is not.
- The verifier evaluates the authorization a commit refers to (`consequence.py:164`), where
  the falsifier of `docs/CONSEQUENCE-BOUNDARY.md:16-21` quantifies over all of them:
  a commit that refers to none is a boundary failure even if one covers it.

The models also contain behaviour no document speaks about: a request whose action is
no object ends the whole qualification; an absent field counts as one that was held
fixed; `inspect` ends in a traceback over a torn package; the graph of an admitted
commit shows the refusal of its later duplicate.

## 5. Proofs

`HostSinkProofs` proves `TypeOK`, `GuardedCommitsCovered` and
`OneCommitPerAuthorization` for any set of request threads, requests,
authorizations, epochs and restarts, under `HostSinkAssumption`. Neither safety
property is inductive: a thread between the guard and the INSERT holds an event
nobody re-validates. `IInv` adds that (`AdmittedInFlight`), that a thread at work
has a payload (`WorkInProgress`) and that keys and ids are unique among all rows
(`UniqueRows`). `GuardCovers` is the key lemma: a valid report, expanded dimension by
dimension, is coverage. It uses the assumption that no field of a registered
authorization is the marker `NON_APPLICABLE`, which `_cmp` would let match anything.
One commit per authorization follows from coverage, which fixes the key, and uniqueness.

`SequenceProofs` proves `TypeOK`, `BudgetsHold`, `OneContactPerDirectory`,
`EvidenceIsKept`, `NoRequestBeforeGates` and `SequenceInv` for every budget, set of
directories and options, and number of invocations, under `SequenceAssumption`.
`SequenceInv` has six parts, each inductive over the types and the parts before it:
- `BudgetInv`: a call in preparation is counted before it is sent, a turn is begun
  within the budgets, and an answer being handled has not been spent on an attempt;
- `ContactInv`: a directory from which the provider was contacted has S0's artifact,
  S0 opens its gate only in an empty directory, and everything behind S0 in the
  current directory is this invocation's;
- `PathInv`: which artifacts, gates and options hold at each stage;
- `CourseInv`, `ReadInv` and `VerdictInv`: how S3 ended, what the reads of the target's
  stores can have missed, and what the verdict, the published facts and the copies then
  say of one another.

The last three give `ClosedRunsWereExecuted`, `ClosedResultsAreTrue` and
`ClosureIgnoresOutcome`. A late thread of the target may add a row, an arrival or a
receipt between two reads: what is read only grows, so a crossing that was read is one, and
one whose answer came back was there before the first read.

`HostSinkProofs` also states `IInv` itself as a theorem and uses it for two results over
time. `UseComesFirst`: counters are not locked and updates are
lost, but a lost update never takes a count back to zero; `UsesInv` says that whoever
is past the counter, and every guarded row since the restart, has a count above zero,
and that a value read and not yet written is a number. `HistoryOnlyGrows`: rows and
receipts are never taken back, a step adds at most one row, and an answer is final; the
part that needs an invariant (`HistoryInv`) is that a thread which has its answer is
done with the ledger.

`HostSinkDeliveryProofs` has two more inductive invariants. `DeliveryInv` follows a job
from its handler through the queue to the worker and back: who waits is in the queue once,
or in the worker's hands, or done, and an answer of success is given by a thread past its
row, its arrival and its receipt. It gives `JobsAreConserved` and `AnswersAreDurable`.
`TelemetryInv` counts: the observer has on each route no more commits than there are rows
which no thread still carries to it, and exactly as many until a restart. It gives `TelemetryIsBounded` and `QuietIsComplete`. `Refinement` maps every step
to one of `ProtectedLedger` or a stutter: `Commit` stores a fresh admissible row,
`EmitReceipt` its witness and a handler's own answer, `JobDone` the answer of the worker;
all others stutter.

`VerdictHistoryProofs` is about `VerdictHistory`, `HostSink` with its history. `AdmissionInv`
gives each thread between reading and writing a counter a value the admissions bound, hence
`CountersNeverOverstate`. `EvidenceInv` says what the reads so far are of the tables now:
rows and receipts only grow, and a restart, which empties the counters, ends the reading.
The verdict of a row is monotone in its evidence (a receipt more, a use less), so
a finding of the reading compares with one of an instant: `AlarmsAreReal`,
`StandingCrossingsAreReported`, `CleanVerdictsCover`, `CrossingsStay`.

`PaymentSinkProofs` proves `GuardedLedger` for any calls in any order, also ones no
scenario makes, under `EntriesApart`: no commit is given to both entries, since a row
does not say how it came. `SinkInv` strengthens it with the keys seen. The same
invariant, carried through every command, kill and damaged file, gives
`EveryRunsLedgerIsGuarded` in `CommandLineProofs`, under `CommandLineAssumption`: every
call of a scenario is one of the declared submissions or bypasses.

`CommandLineProofs` proves every invariant of the command line, for any scenario files,
number of commands and number of faults. Two of them hold in every state: a directory that
holds the documents of a run has a verdict its search can have (`VerdictsFollowTheSearch`)
and replays (`WholePackagesReplay`). The others need what commands do over time:
- `SealInv` (for `SealedIsARunOrRefused`): every document is that of some run, the claim of
  a witness aside; what a job still has to write, with what it has written, is its run;
  and sums are only taken of a run, or behind a replay that says there is none;
- `AgreementInv`: a row in the sink of a consequence run is one a call of its scenario
  stored, and a guarded one was let past the interlock on some use. The interlock and the
  verifier evaluate the same dimensions with other evidence; `ScenariosAgree` compares the
  two for the sixteen scenarios, and `RowIsNotConvicted` follows for every row. It gives
  `TheInterlockAndTheVerifierAgree`, and `CleanPackagesAreComplete` with the edges of a graph;
- `ReproductionInv` (for `VerifiedPackagesReplay`): the sink is a function of the scenario
  and of how many of its calls were made. `AfterCall` says what a call makes of a sink; no
  scenario makes more than two calls (`ScenariosAreShort`), so the function is written out
  and there is no induction over a sequence. The body of a package is then one value per
  scenario, which a later replay computes again in an empty sink;
- `ShapeInv` (for `CommandLineIsTyped`).

They assume, beyond what the runs fix, that the marker `None` is no job and no exit record
(`NoneIsNoRecord`) and that the marker `NON_APPLICABLE` is not the name of the sink, which
would let the comparison of sinks pass.

`ReferenceBoundaryProofs` is about pure operators, for every scenario, variation and
sequence of candidates. `CounterexampleIsStaleness`: the falsifier fires exactly when
the status the path observed was active and the effective one revoked, so
`ControlIsNeverConvicted`; `VerdictOfASearch`: V1 confirms the witness of a search
exactly when some candidate is a counterexample, and rejects none. It rests on
`LeastIsThere`, that the least element of a set of indices is one of them.

`QualificationProofs` proves every invariant of the qualification, for every seed, provider,
clock, budget, threshold, kill, damaged file and earlier run, under
`QualificationAssumption`: budgets and thresholds are numbers, there is a candidate, a corpus
has no more targets than there are mechanisms (the code's eight of eight), and no
count, dimension, stop reason or name of a commit is `None`. Nothing is assumed of
what a provider answers.
- `OneFlawPerTarget` rests on `CorpusInv` alone. `WellMade` says what a generated target
  is: two declared routes and another, undeclared one, and a mechanism that either leaves one
  exposed dimension open or is about the undeclared route. `TargetsAreWellMade` follows
  the generator through its draws: dropping a dimension never drops the open one, and a
  family is used once, since three routes share five families.
- `Search` is what the session keeps true of its own evidence: each attempt has a call of
  its own and the answer the target gives to it, and an unauthorized commit is there exactly
  when an attempt was admitted, under the name it brought. `SessionInv` carries it through
  the loop with the budgets, and `HandInv` and `PairsInv` through the files
  (`SessionsStayInBudget`).
- `SolvedThroughTheFlaw`: a result tells what the kept evidence says (`Tells`), and what a
  well made target admits went through its flaw. A damaged file is evidence of nothing,
  and the property is about evidence that is kept.
- `ReplayFindsTheRest`: `ReplayedAgain` compares what the replay recomputes with what was
  stored, field by field. Only `calls_to_first_counterexample` can differ, in two cases: the
  session failed after a find, or the first row that carries the name of an unauthorized
  commit is not the first admitted one (`NamedFirst`; calls increase along the rows).
- `IntegritySaysWhatChanged`: `StrikesInv` says that no pair was damaged at a point it has
  not come to; `DigestsInv` what the digests and the seal of the pair in hand stand for at each step:
  they are those of the files until something is damaged behind them. A seal over a
  file that changed since does not verify (`BrokenSealFails`), one just taken does
  (`FreshSeal`). `HandInv` keeps the result with them, and `Settled`, the part of `PairsInv`
  about a pair that is closed, is what the theorem needs.
- `PublishedChoiceIsEarned`: `PublicationInv` says what the publication holds at each step,
  an earlier run's files included. While files are written, nothing verifies but a
  publication of an earlier run. Once it is written, every pair has its row, and what
  its evidence gives is alike to that row in all that selection reads (`EvidenceGivesTheRow`,
  `ReadingAgain`): the parts above, together. So the gate of the code is the gate of the
  rules over the evidence (`QualifiedDeserves`), and that the selection has nobody ahead of
  it needs that a finite set of keys has a lexicographically least one (`OneComesFirst`),
  which is shown from the cardinality of finite sets, without induction. This
  gives the property in every state but the killed one (`EarnedWhileWritten`). A kill empties the
  memory the other parts speak of and leaves the disk as it is (`EarnedStays`), which is
  why `SelectionIsEarned` is itself a part of `QInv`.

Every safety invariant and action property of the passing runs, and the refinement, is a
theorem. The assumptions on constants are those of the
modules; they say that markers (`None`, `NON_APPLICABLE`) are no values, that bounds are
numbers, and that the tables of authorizations and scenarios have the fields the code
reads.

Checked by TLC only: liveness (`EveryRequestEnds`, `QueueIsServed`, `EveryRunEnds`), since
fairness and ENABLED are out of the prover's reach. What the runs that expect a violation
show is a counterexample, and no theorem either.

## 6. Not modelled, and the plan

Not modelled:
- Runner 003 and runners 001 and 002 are closed experiments. Their stages and loops
  are those of runner 004, in part; two mutants of `Sequence` restore differences the
  erratum of sequence 003 describes.
- The provider preflight is its verdict, an input of `Sequence` and `Qualification`.
- The manifest builders, `cmd_freeze` and `provenance.py` write once what nothing
  modelled reads back, or what no digest covers.
- The canonical encoding of numbers and text; the network adapters; printing.
- `replay_target` of the qualification, which the run does not call.
- Two invocations of a runner, or two commands of the command line, at one time.

Left in the models as simplifications: an earlier qualification over the same
directory left it complete; the authorization values a target exposes are valid, wrong
or absent; the medians are over two targets.

In order:
1. A second invocation in `Sequence` that runs at the same time as the first.
2. Use counts in the target of `Sequence`, for the replay of an overused authorization.
3. An abstract gated experiment that `Sequence` implements.
