-------------------------- MODULE SequenceProperties --------------------------
(***************************************************************************)
(* What the six-stage runner must do and never do, whatever the provider,  *)
(* the model and the target's threads do and wherever it is killed; and    *)
(* two statements of its protocol that its behaviours contradict.          *)
(***************************************************************************)
EXTENDS Sequence

OnDisk(artifact) == disk[out][artifact] = run

\* docs/experiment-runs/OAT_SEQUENCE_004_PROTOCOL.md, the controlling order: a
\* provider request leaves only when this invocation has preserved and sealed its
\* positive control, destroyed its state, attested the reset and recorded a
\* passed preflight, under an authorization it has already marked consumed.
NoRequestBeforeGates ==
    [][received' # received /\ received' > 0 =>
        /\ \A a \in {"S0_PREFLIGHT", "positive-control", "SEAL", "RESET_ATTESTATION",
                     "context"} : OnDisk(a)
        /\ PreflightRequired => OnDisk("PREFLIGHT_GATE") /\ gates.preflight
        /\ pcState = "destroyed"
        /\ stopAfter > 4
        /\ consumed]_vars

\* The budgets hold together, retries included: at most MaxProviderCalls requests
\* reach the provider, the target gets no more attempts than the model gave valid
\* answers, and a turn that asks for another attempt is within every budget.
BudgetsHold ==
    /\ received <= calls /\ calls <= MaxProviderCalls
    /\ Len(target) <= MaxTargetAttempts
    /\ Len(target) + invalid <= received
    /\ invalid <= MaxInvalidOutputs

\* The provider is contacted by one invocation per output directory, across kills
\* and reruns: S0 refuses a directory that an invocation which got that far wrote.
OneContactPerDirectory ==
    \A c1, c2 \in contacted : c1[1] = c2[1] => c1 = c2

\* The stages behind S0, the control, its seal and the reset, and the run itself.
AfterS0 == Labels \ (Off \cup {"s0", "s0_write"})
AfterControl == AfterS0 \ {"s1", "s1a"}
AfterSeal == AfterControl \ {"seal"}
AfterReset == AfterSeal \ {"s2"}
InS3 == AfterReset \ {"preflight", "keys", "replay_pc", "replay_run", "adjudicate"}

\* A call in preparation is counted before it is sent, and asked for within the
\* budgets; the answer being awaited has not been spent yet.
BudgetInv ==
    /\ BudgetsHold
    /\ pc \in {"consume", "send"} => received < calls
    /\ pc \in {"call", "consume", "send", "response"} =>
          Len(target) < MaxTargetAttempts /\ invalid < MaxInvalidOutputs
    /\ pc = "response" => Len(target) + invalid < received

\* A directory an invocation contacted the provider from is not fresh, and only a
\* fresh one opens the first gate.
ContactInv ==
    /\ OneContactPerDirectory
    /\ \A c \in contacted : disk[c[1]]["S0_PREFLIGHT"] # 0
    /\ pc # "off" => run > 0
    /\ pc = "s0_write" /\ gates.s0 => Fresh(out)
    /\ pc \in AfterS0 =>
          /\ OnDisk("S0_PREFLIGHT") /\ \A a \in Artifacts : disk[out][a] \in {0, run}
          /\ \A c \in contacted : c[1] = out => c[2] = run

\* What each stage leaves behind for the next.
PathInv ==
    /\ pc \in AfterS0 => stopAfter # 1
    /\ pc \in AfterS0 \ {"s1"} => stopAfter # 2
    /\ pc \in AfterControl => OnDisk("positive-control")
    /\ pc \in AfterSeal => OnDisk("SEAL") /\ stopAfter # 3
    /\ pc \in AfterReset => OnDisk("RESET_ATTESTATION") /\ pcState = "destroyed"
    /\ pc \in {"keys"} \cup InS3 =>
          stopAfter # 4 /\ (PreflightRequired => OnDisk("PREFLIGHT_GATE"))
    /\ pc \in InS3 => OnDisk("context") /\ S3Eligible
    /\ pc = "send" => consumed

\* The stages before the run, and those behind the publication of its verdict.
Preparing == {"s0", "s0_write", "s1", "s1a", "seal", "s2", "preflight", "keys"}
Replaying == {"replay_pc", "replay_run", "adjudicate"}
Copying == {"copy_telemetry"} \cup Replaying
Published == {"runtime", "copy_ledger"} \cup Copying

\* When there are attempts, a verdict and an adjudication, and what they rest on.
CourseInv ==
    /\ pc \in Preparing =>
          target = <<>> /\ answered = {} /\ seen = NothingSeen /\ copies = NothingSeen
    /\ pc = "response" \/ target # <<>> => consumed
    /\ pc = "await" => target # <<>>
    /\ pc \notin Published \cup {"ended"} => runtime = None
    /\ pc \in Published \ {"replay_pc", "adjudicate"} => runtime # None
    /\ runtime # None => S3Eligible
    /\ runtime # None /\ pc \in Replaying => OnDisk("stores")
    /\ closure # None => pc = "ended"

\* The attempts whose response the runner got, as the target knows them.
Answers == [i \in answered |-> target[i]]

\* What was read has happened, and what was answered before a read is in it: the
\* threads of the target only add to what there is to read.
ReadInv ==
    /\ \A reads \in {seen, copies} :
          /\ reads.routes \subseteq ObservedRoutes(target)
          /\ reads.rows \subseteq Ledger(target)
          /\ reads.receipts \subseteq Receipts(target)
    /\ \A i \in answered : i \in DOMAIN target /\ target[i].stage = "done"
    /\ pc \in {"read_rows", "read_receipts", "judge", "finish"} \cup Published =>
          ObservedRoutes(Answers) \subseteq seen.routes
    /\ pc \in {"read_receipts", "judge", "finish"} \cup Published =>
          Ledger(Answers) \subseteq seen.rows
    /\ pc \in {"judge", "finish"} \cup Published =>
          Receipts(Answers) \subseteq seen.receipts
    /\ pc \in Copying => Ledger(Answers) \subseteq copies.rows
    /\ pc \in Replaying => /\ ObservedRoutes(Answers) \subseteq copies.routes
                           /\ Receipts(Answers) \subseteq copies.receipts

\* The published verdict stays the one over the reads it was taken from, and the
\* replay compared it with the one over the copies.
VerdictInv ==
    /\ runtime # None => runtime = FinalVerdict(seen)
    /\ runtime # None /\ pc = "adjudicate" =>
          reproduced = (FinalVerdict(copies) = runtime)

\* The inductive invariant behind the budgets, the single contact, the gates and
\* the adjudication.
SequenceInv == BudgetInv /\ ContactInv /\ PathInv /\ CourseInv /\ ReadInv /\ VerdictInv

\* No later invocation replaces what an earlier one preserved, S0's own two files
\* excepted, and nothing preserved disappears.
EvidenceIsKept ==
    [][\A d \in OutDirs, a \in Artifacts \ {"S0_PREFLIGHT"} :
          disk[d][a] # 0 => disk'[d][a] = disk[d][a]]_vars

\* Closure means that the boundary was exercised: there was an attempt that the
\* provider's answers asked for, no terminal provider failure, the gates were
\* open, and the preserved stores and facts alone give the published verdict.
ClosureMeansExecuted ==
    closure = "ESTABLISHED" =>
        /\ S3Eligible /\ consumed
        /\ target # <<>> /\ ~ terminal
        /\ ObservedRoutes(target) # {}
        /\ FinalVerdict(copies) = runtime

\* A sequence that is closed as clean has no witnessed crossing of which the
\* runner got the answer; one closed as a counterexample has a crossing.
SubjectResultIsTrue ==
    closure = "ESTABLISHED" =>
        LET crossings == {i \in Receipts(target) : target[i].effect = "crossing"} IN
        IF runtime.subject_result = "COUNTEREXAMPLE_FOUND"
        THEN crossings # {}
        ELSE crossings \cap answered = {}

\* Completeness never absorbs the outcome: a run whose attempts were all answered,
\* one of them observed, and whose provider did not fail for good is closed,
\* whether it found a counterexample or not.
CompletenessIgnoresOutcome ==
    /\ closure # None /\ runtime # None
    /\ ~ terminal /\ answered = DOMAIN target /\ ObservedRoutes(target) # {}
    => closure = "ESTABLISHED"

\* Every invocation ends: the budgets bound its turns, the retry schedule its
\* calls, and the timeouts its waits, given a provider whose streams end: the
\* socket timeout bounds each read of a stream and not the stream.
EveryRunEnds == pc \notin Off ~> pc \in Off

-----------------------------------------------------------------------------
(* What the repository's documents say and the code does not do.           *)

\* docs/experiment-runs/OAT_OWNER_EXECUTION_AUTHORIZATION_004.json:
\* "authorized_run_count": 1, "automatic_experiment_rerun": "PROHIBITED".  The
\* authorization is spent by one invocation.
AuthorizationSpentOnce == \A c1, c2 \in contacted : c1 = c2

\* docs/experiment-runs/OAT_SEQUENCE_004_PROTOCOL.md: "If Run D fails after
\* Authorization 004 is consumed, the failure is preserved".  A runner that was
\* not killed and spent its authorization leaves the record of its run.
FailureIsPreserved ==
    pc \in {"ended", "raised"} /\ consumed => OnDisk("runtime")

=============================================================================
