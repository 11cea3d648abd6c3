--------------------------- MODULE CommandLineProofs ---------------------------
(***************************************************************************)
(* The sink inside the command line: every process of it makes one, calls  *)
(* it as a scenario says, and takes it along when it ends or is killed.    *)
(***************************************************************************)
EXTENDS CommandLineProperties, PaymentSinkProofs, ReferenceBoundaryProofs

\* A job has only calls of its scenario left to make.
JobCalls == job # None => "calls" \in DOMAIN job /\ job.calls \in Seq(KnownCalls)

LedgerInv == SinkInv /\ JobCalls

-----------------------------------------------------------------------------

\* Losing the receipts loses no row.
LEMMA LossKeeps ==
    ASSUME SinkInv, NEW call, LoseReceipts(call)
    PROVE  SinkInv'
BY RefusalKeeps DEF LoseReceipts

LEMMA Untouched ==
    ASSUME LedgerInv, UNCHANGED sinkVars, JobCalls'
    PROVE  LedgerInv'
BY RefusalKeeps DEF LedgerInv, sinkVars, ledgerVars

\* A command that answers at once leaves no job.
LEMMA AnswerKeeps ==
    ASSUME LedgerInv, NEW command, NEW code, Answer(command, code)
    PROVE  LedgerInv'
BY Untouched DEF Answer, Exit, JobCalls

\* A job begins with the calls of a scenario, or with none.
LEMMA StartKeeps ==
    ASSUME LedgerInv, NEW command, NEW calls \in Seq(KnownCalls), NEW arg, NEW todo, NEW code,
           StartJob(command, calls, arg, todo, code)
    PROVE  LedgerInv'
<1>1. "calls" \in DOMAIN job' /\ job'.calls = calls
  BY DEF StartJob
<1> QED
  BY <1>1, Untouched DEF StartJob, JobCalls

\* A step on the directory leaves the calls of the job alone.
LEMMA WriteKeeps ==
    ASSUME LedgerInv, Working, NEW rest, job' = [job EXCEPT !.todo = rest], UNCHANGED sinkVars
    PROVE  LedgerInv'
<1>1. "calls" \in DOMAIN job /\ job.calls \in Seq(KnownCalls)
  BY DEF LedgerInv, JobCalls, Working
<1>2. "calls" \in DOMAIN job' /\ job'.calls = job.calls
  BY <1>1
<1> QED
  BY <1>1, <1>2, Untouched DEF JobCalls

\* A process that is over takes its sink along.
LEMMA DropKeeps ==
    ASSUME DropSink, job' = None
    PROVE  LedgerInv'
BY EmptySink DEF LedgerInv, JobCalls

-----------------------------------------------------------------------------

\* A call of a scenario is a step of the sink, or a loss of telemetry.
LEMMA SinkCallKeeps == LedgerInv /\ SinkCall => LedgerInv'
<1> SUFFICES ASSUME LedgerInv, SinkCall PROVE LedgerInv'
  OBVIOUS
<1>1. SinkInv /\ "calls" \in DOMAIN job /\ job.calls \in Seq(KnownCalls) /\ job.calls # <<>>
  BY DEF LedgerInv, JobCalls, SinkCall, Working
<1>2. Head(job.calls) \in KnownCalls /\ Tail(job.calls) \in Seq(KnownCalls)
  BY <1>1
<1>3. JobCalls'
  BY <1>1, <1>2 DEF SinkCall, JobCalls
<1>4. PICK call \in KnownCalls : SubmitStep(call) \/ UnguardedStep(call) \/ LoseReceipts(call)
  BY <1>2 DEF SinkCall
<1>5. CASE SubmitStep(call)
  BY <1>1, <1>3, <1>5, CommandLineAssumption, SubmitKeeps DEF SubmitStep, LedgerInv
<1>6. CASE UnguardedStep(call)
  BY <1>1, <1>3, <1>6, CommandLineAssumption, BypassKeeps DEF UnguardedStep, LedgerInv
<1>7. CASE LoseReceipts(call)
  BY <1>1, <1>3, <1>7, LossKeeps DEF LedgerInv
<1> QED
  BY <1>4, <1>5, <1>6, <1>7

\* The commands.
LEMMA CommandKeeps ==
    ASSUME LedgerInv, Command
    PROVE  LedgerInv'
<1>0. <<>> \in Seq(KnownCalls)
  OBVIOUS
<1>1. ASSUME NEW path \in Paths, Run(path) \/ Demo(path) PROVE LedgerInv'
  BY <1>0, <1>1, AnswerKeeps, StartKeeps DEF Run, Demo
<1>2. ASSUME NEW vuln \in Paths, NEW control \in Paths, DryRun(vuln, control) PROVE LedgerInv'
  BY <1>0, <1>2, AnswerKeeps, StartKeeps DEF DryRun
<1>3. CASE VerifyDirectory
  BY <1>3, AnswerKeeps DEF VerifyDirectory
<1>4. ASSUME NEW name, VerifyFile(name) PROVE LedgerInv'
  BY <1>4, AnswerKeeps DEF VerifyFile
<1>5. ASSUME NEW write \in BOOLEAN, Replay(write) PROVE LedgerInv'
  BY <1>0, <1>5, AnswerKeeps, StartKeeps DEF Replay
<1>6. CASE Inspect
  BY <1>6, AnswerKeeps DEF Inspect
<1>7. ASSUME NEW n \in ConsequenceNames, NEW out \in BOOLEAN, RunConsequence(n, out)
      PROVE  LedgerInv'
  BY <1>7, StartKeeps, CommandLineAssumption DEF RunConsequence
<1>8. CASE VerifyConsequence
  BY <1>8, AnswerKeeps DEF VerifyConsequence
<1>9. CASE ReplayConsequence
  BY <1>9, AnswerKeeps, StartKeeps, CommandLineAssumption DEF ReplayConsequence
<1>10. CASE InspectPaths
  BY <1>10, AnswerKeeps DEF InspectPaths
<1> QED
  BY <1>1, <1>2, <1>3, <1>4, <1>5, <1>6, <1>7, <1>8, <1>9, <1>10 DEF Command

\* The steps of a job on its directory.
LEMMA JobKeeps ==
    ASSUME LedgerInv, WriteFile \/ Seal \/ WriteReplay \/ WriteReport \/ StripFile \/ End
    PROVE  LedgerInv'
<1>1. ASSUME NEW name, NEW doc, Working, PutFile(name, doc) PROVE LedgerInv'
  BY <1>1, WriteKeeps DEF PutFile
<1>2. CASE WriteFile
  BY <1>1, <1>2 DEF WriteFile, Due
<1>3. CASE Seal
  BY <1>1, <1>3 DEF Seal, Due
<1>4. CASE WriteReplay
  BY <1>1, <1>4 DEF WriteReplay, Due
<1>5. CASE WriteReport
  BY <1>1, <1>5 DEF WriteReport, Due
<1>6. CASE StripFile
  <2>1. Working
    BY <1>6 DEF StripFile, Due
  <2>2. ASSUME NEW doc, PutFile(Head(job.todo).name, doc) PROVE LedgerInv'
    BY <1>1, <2>1, <2>2
  <2>3. ASSUME NEW code, Exit(job.command, code), UNCHANGED sinkVars PROVE LedgerInv'
    BY <2>3, Untouched DEF Exit, JobCalls
  <2>4. ASSUME job' = [job EXCEPT !.todo = Tail(@)], UNCHANGED sinkVars PROVE LedgerInv'
    BY <2>1, <2>4, WriteKeeps
  <2> QED
    BY <1>6, <2>2, <2>3, <2>4 DEF StripFile
<1>7. CASE End
  BY <1>7, DropKeeps DEF End, Exit
<1> QED
  BY <1>2, <1>3, <1>4, <1>5, <1>6, <1>7

\* Every step of the command line, its faults included.
LEMMA LedgerInvStep == LedgerInv /\ [Next]_vars => LedgerInv'
<1> SUFFICES ASSUME LedgerInv, [Next]_vars PROVE LedgerInv'
  OBVIOUS
<1>1. CASE SinkCall
  BY <1>1, SinkCallKeeps
<1>2. CASE Kill
  BY <1>2, DropKeeps DEF Kill
<1>3. ASSUME NEW name \in DOMAIN files, Damage(name) PROVE LedgerInv'
  BY <1>3, Untouched DEF Damage, LedgerInv, JobCalls
<1>4. CASE UNCHANGED vars
  BY <1>4, Untouched DEF vars, cliVars, LedgerInv, JobCalls
<1> QED
  BY <1>1, <1>2, <1>3, <1>4, CommandKeeps, JobKeeps DEF Next

\* Through any sequence of commands, kills and damaged files, the sink of every
\* consequence run and of every replay holds only rows of submit that are
\* covered, each key once (cli.cmd_consequence_run, sink.submit).
THEOREM EveryRunsLedgerIsGuarded == Spec => []GuardedLedger
<1>1. Init => LedgerInv
  BY EmptySink DEF Init, LedgerInv, JobCalls
<1>2. LedgerInv => GuardedLedger
  BY DEF LedgerInv, SinkInv
<1> QED
  BY <1>1, <1>2, LedgerInvStep, PTL DEF Spec

-----------------------------------------------------------------------------
(* The documents of a run.                                                 *)

LEMMA TheRunNames == RunNames = {"manifest.json", "witness.json", "verifier-result.json"}
BY DEF RunNames, RunFiles

LEMMA DigestsTellApart ==
    ASSUME NEW x, NEW y, Digest(x) = Digest(y)
    PROVE  x = y
BY DEF Digest

\* What two documents share that differ in their runtime only.
LEMMA SameFields ==
    ASSUME NEW x, NEW y, Strip(x) = Strip(y), NEW f \in DOMAIN y, f # "runtime"
    PROVE  f \in DOMAIN x /\ x[f] = y[f]
<1>1. f \in DOMAIN Strip(y) /\ Strip(y)[f] = y[f]
  BY DEF Strip
<1>2. f \in DOMAIN Strip(x)
  BY <1>1
<1> QED
  BY <1>1, <1>2 DEF Strip

LEMMA DocumentsOfARun ==
    ASSUME NEW path \in DOMAIN ScenarioDocs, NEW a \in {"grid", "scripted"}
    PROVE  /\ RunOf[<<path, a>>]["manifest.json"] = BuildRunManifest(path, a)
           /\ RunOf[<<path, a>>]["witness.json"] = WitnessOf(path, a)
           /\ RunOf[<<path, a>>]["verifier-result.json"] =
                Verify(WitnessOf(path, a), BuildRunManifest(path, a))
<1>1. RunOf[<<path, a>>] = Documents[path][a]
  BY DEF RunOf, Runs
<1>2. Documents[path][a] =
        [name \in RunNames |->
            CASE name = "manifest.json" -> BuildRunManifest(path, a)
              [] name = "witness.json" -> WitnessOf(path, a)
              [] name = "verifier-result.json" ->
                    Verify(WitnessOf(path, a), BuildRunManifest(path, a))]
  BY DEF Documents
<1> QED
  BY <1>1, <1>2, TheRunNames

\* The witness of a run as the search left it.
LEMMA WitnessOfARun ==
    ASSUME NEW path \in DOMAIN ScenarioDocs, NEW a \in {"grid", "scripted"}, NEW m,
           DigestObject(m) = DigestObject(BuildRunManifest(path, a)),
           m.falsifier = FalsifierIdentity,
           m.scenario.id = ScenarioDocs[path].scenario_id
    PROVE  WitnessOf(path, a) =
                SearchWitness(m, ScenarioDocs[path], Candidates(path, a), a)
<1>1. /\ BuildRunManifest(path, a).falsifier = FalsifierIdentity
      /\ BuildRunManifest(path, a).scenario.id = ScenarioDocs[path].scenario_id
  BY DEF BuildRunManifest
<1> QED
  BY <1>1 DEF WitnessOf, SearchWitness, BuildWitness

\* A manifest is bound to the run it is of, whatever its runtime.
LEMMA ManifestOfARun ==
    ASSUME NEW path \in DOMAIN ScenarioDocs, NEW a \in {"grid", "scripted"}, NEW m,
           Strip(m) = Strip(BuildRunManifest(path, a))
    PROVE  /\ DigestObject(m) = DigestObject(BuildRunManifest(path, a))
           /\ m.falsifier = FalsifierIdentity
           /\ m.scenario.id = ScenarioDocs[path].scenario_id
<1> DEFINE run == BuildRunManifest(path, a)
<1>1. {"scenario", "falsifier"} \subseteq DOMAIN run
  BY DEF BuildRunManifest
<1>2. run.falsifier = FalsifierIdentity /\ run.scenario.id = ScenarioDocs[path].scenario_id
  BY DEF BuildRunManifest
<1> HIDE DEF run
<1>3. m.scenario = run.scenario /\ m.falsifier = run.falsifier
  BY <1>1, SameFields DEF run
<1> QED
  BY <1>2, <1>3 DEF DigestObject, run

\* V1 accepts the witness of a run with every manifest that is bound to it.
LEMMA RunIsAccepted ==
    ASSUME NEW path \in DOMAIN ScenarioDocs, NEW a \in {"grid", "scripted"}, NEW m,
           Strip(m) = Strip(BuildRunManifest(path, a))
    PROVE  RejectionReason(WitnessOf(path, a), m) = None
BY ManifestOfARun, WitnessOfARun, HonestWitnessIsAccepted

LEMMA SameJudgement ==
    ASSUME NEW path \in DOMAIN ScenarioDocs, NEW a \in {"grid", "scripted"}, NEW m,
           Strip(m) = Strip(BuildRunManifest(path, a))
    PROVE  Verify(WitnessOf(path, a), m) =
                Verify(WitnessOf(path, a), BuildRunManifest(path, a))
<1>1. /\ RejectionReason(WitnessOf(path, a), m) = None
      /\ RejectionReason(WitnessOf(path, a), BuildRunManifest(path, a)) = None
  BY RunIsAccepted
<1> QED
  BY <1>1 DEF Verify, V1Disposition

-----------------------------------------------------------------------------
(* Verdicts                                                                *)

LEMMA RunFilesAreTheNames ==
    /\ DOMAIN RunFiles = 1..3
    /\ RunFiles[1] = "manifest.json"
    /\ RunFiles[2] = "witness.json"
    /\ RunFiles[3] = "verifier-result.json"
BY DEF RunFiles

\* What a directory that holds a run has in its three documents.
LEMMA TheDocuments ==
    ASSUME NEW path \in DOMAIN ScenarioDocs, NEW a \in {"grid", "scripted"}, IsRun(path, a)
    PROVE  /\ Strip(files["manifest.json"]) = Strip(BuildRunManifest(path, a))
           /\ Strip(files["witness.json"]) = Strip(WitnessOf(path, a))
           /\ Strip(files["verifier-result.json"]) =
                Strip(Verify(WitnessOf(path, a), BuildRunManifest(path, a)))
<1>1. \A i \in 1..3 : Strip(files[RunFiles[i]]) = Strip(RunOf[<<path, a>>][RunFiles[i]])
  BY RunFilesAreTheNames DEF IsRun
<1>2. /\ Strip(files[RunFiles[1]]) = Strip(RunOf[<<path, a>>][RunFiles[1]])
      /\ Strip(files[RunFiles[2]]) = Strip(RunOf[<<path, a>>][RunFiles[2]])
      /\ Strip(files[RunFiles[3]]) = Strip(RunOf[<<path, a>>][RunFiles[3]])
  BY <1>1
<1> QED
  BY <1>2, RunFilesAreTheNames, DocumentsOfARun

LEMMA CandidatesAreNumbered ==
    ASSUME NEW path, NEW a
    PROVE  DOMAIN Candidates(path, a) \subseteq Nat
BY DEF Candidates, GridCandidates, Parse

\* A stored verdict, runtime aside, is what V1 says of the trace the search selected.
LEMMA StoredVerdict ==
    ASSUME NEW path \in DOMAIN ScenarioDocs, NEW a \in {"grid", "scripted"},
           NEW verdict,
           Strip(verdict) = Strip(Verify(WitnessOf(path, a), BuildRunManifest(path, a)))
    PROVE  verdict.disposition =
                IF Counterexample(WitnessOf(path, a).trace) THEN Confirmed ELSE NotFound
<1> DEFINE judged == Verify(WitnessOf(path, a), BuildRunManifest(path, a))
<1>1. "disposition" \in DOMAIN judged
      /\ judged.disposition = V1Disposition(WitnessOf(path, a), BuildRunManifest(path, a))
  BY DEF Verify
<1> HIDE DEF judged
<1>2. verdict.disposition = judged.disposition
  BY <1>1, SameFields DEF judged
<1>3. RejectionReason(WitnessOf(path, a), BuildRunManifest(path, a)) = None
  BY RunIsAccepted
<1> QED
  BY <1>1, <1>2, <1>3 DEF V1Disposition

LEMMA TraceOfARun ==
    ASSUME NEW path, NEW a
    PROVE  WitnessOf(path, a).trace =
                Execute(ScenarioDocs[path],
                        Candidates(path, a)[Selected(ScenarioDocs[path], Candidates(path, a))])
BY DEF WitnessOf, BuildWitness

\* The search says of each of its candidates what the verdict says of the selected one.
LEMMA VerdictIsOfTheSearch == VerdictFollowsSearch
<1> SUFFICES ASSUME NEW path \in DOMAIN ScenarioDocs, NEW a \in {"grid", "scripted"},
                    IsRun(path, a)
             PROVE  CASE files["verifier-result.json"].disposition = Confirmed ->
                            ScenarioDocs[path].enforcement_path # RecheckAtCommit
                      [] files["verifier-result.json"].disposition = NotFound ->
                            Hits(ScenarioDocs[path], Candidates(path, a)) = {}
                      [] OTHER -> FALSE
  BY DEF VerdictFollowsSearch
<1> DEFINE s == ScenarioDocs[path]
           candidates == Candidates(path, a)
           disposition == files["verifier-result.json"].disposition
<1>1. disposition = IF Counterexample(Execute(s, candidates[Selected(s, candidates)]))
                    THEN Confirmed ELSE NotFound
  BY TheDocuments, StoredVerdict, TraceOfARun
<1>2. Confirmed # NotFound
  BY DEF Confirmed, NotFound
<1>3. ASSUME disposition = Confirmed PROVE s.enforcement_path # RecheckAtCommit
  BY <1>1, <1>2, <1>3, ControlIsNeverConvicted
<1>4. ASSUME disposition = NotFound, Hits(s, candidates) # {} PROVE FALSE
  <2>1. Hits(s, candidates) \in SUBSET Nat
    BY CandidatesAreNumbered DEF Hits
  <2>2. Selected(s, candidates) \in Hits(s, candidates)
    BY <1>4, <2>1, LeastIsThere DEF Selected
  <2>3. Counterexample(Execute(s, candidates[Selected(s, candidates)]))
    BY <2>2 DEF Hits
  <2> QED
    BY <1>1, <1>2, <1>4, <2>3
<1> HIDE DEF s, candidates, disposition
<1> QED
  BY <1>1, <1>2, <1>3, <1>4 DEF s, candidates, disposition

\* Whatever is written, lost, torn or replaced: a directory that holds a run holds
\* the verdict of its search.  No confirmed counterexample is of the path that
\* looks again at commit, no negative has a counterexample among its candidates,
\* and no run is rejected (rb001.execute, pipeline.search, v1.verify).
THEOREM VerdictsFollowTheSearch == Spec => []VerdictFollowsSearch
BY VerdictIsOfTheSearch, PTL

-----------------------------------------------------------------------------
(* Replays                                                                 *)

LEMMA WitnessHasNoRuntime ==
    ASSUME NEW m, NEW trace, NEW claimed, NEW adversary, NEW transcript, NEW selected
    PROVE  LET w == BuildWitness(m, trace, claimed, adversary, transcript, selected)
           IN  DOMAIN w = WitnessFields /\ Strip(w) = w
<1> DEFINE w == BuildWitness(m, trace, claimed, adversary, transcript, selected)
<1>1. DOMAIN w = WitnessFields /\ w = [f \in DOMAIN w |-> w[f]]
  BY DEF BuildWitness, WitnessFields
<1>2. "runtime" \notin WitnessFields
  BY DEF WitnessFields
<1> HIDE DEF w
<1>3. DOMAIN w \ {"runtime"} = DOMAIN w
  BY <1>1, <1>2
<1>4. Strip(w) = w
  BY <1>1, <1>3, Zenon DEF Strip
<1> QED
  BY <1>1, <1>4 DEF w

\* The witness of a run, from the manifest and the parts of a replay.
LEMMA WitnessIsRebuilt ==
    ASSUME NEW path \in DOMAIN ScenarioDocs, NEW a \in {"grid", "scripted"}, NEW m,
           Strip(m) = Strip(BuildRunManifest(path, a))
    PROVE  LET w == WitnessOf(path, a)
           IN  /\ BuildWitness(m, w.trace, Counterexample(w.trace), w.adversary,
                               w.transcript, w.selected_candidate_index) = w
               /\ w.trace_digest = DigestObject(w.trace)
               /\ w.manifest_digest = DigestObject(m)
               /\ w.claimed_counterexample = Counterexample(w.trace)
               /\ DOMAIN w = WitnessFields
               /\ Strip(w) = w
               /\ w = [f \in WitnessFields |-> w[f]]
<1> DEFINE w == WitnessOf(path, a)
           s == ScenarioDocs[path]
           candidates == Candidates(path, a)
           trace == Execute(s, candidates[Selected(s, candidates)])
<1>1. w = SearchWitness(m, s, candidates, a)
  BY ManifestOfARun, WitnessOfARun
<1>2. w = BuildWitness(m, trace, Counterexample(trace), a, Transcript(s, candidates),
                       Selected(s, candidates))
  BY <1>1 DEF SearchWitness
<1> HIDE DEF w, trace, candidates, s
<1>3. /\ w.trace = trace /\ w.adversary = a
      /\ w.transcript = Transcript(s, candidates)
      /\ w.selected_candidate_index = Selected(s, candidates)
      /\ w.trace_digest = DigestObject(trace)
      /\ w.manifest_digest = DigestObject(m)
      /\ w.claimed_counterexample = Counterexample(trace)
      /\ w = [f \in DOMAIN w |-> w[f]]
  BY <1>2 DEF BuildWitness
<1>4. DOMAIN w = WitnessFields /\ Strip(w) = w
  BY <1>2, WitnessHasNoRuntime
<1> QED
  BY <1>2, <1>3, <1>4 DEF w

\* The trace of a run is the one its variation gives.
LEMMA RunIsReexecuted ==
    ASSUME NEW path, NEW a
    PROVE  Execute(ScenarioDocs[path], WitnessOf(path, a).trace.variation) =
                WitnessOf(path, a).trace
<1>1. \A s, v : Execute(s, v).variation = v
  BY DEF Execute
<1> QED
  BY <1>1, TraceOfARun

LEMMA SameVerdictFields ==
    ASSUME NEW verdict, NEW w, NEW m, Strip(verdict) = Strip(Verify(w, m))
    PROVE  /\ verdict.evidence_digest = Verify(w, m).evidence_digest
           /\ verdict.disposition = Verify(w, m).disposition
<1>1. {"disposition", "evidence_digest"} \subseteq DOMAIN Verify(w, m)
  BY DEF Verify
<1> QED
  BY <1>1, SameFields

LEMMA WholeReplays == WholePackageReplays
<1> SUFFICES ASSUME HasDocuments,
                    NEW path \in DOMAIN ScenarioDocs, NEW a \in {"grid", "scripted"},
                    ScenarioSource(files["manifest.json"]) = path, IsRun(path, a)
             PROVE  ReplayOk
  BY DEF WholePackageReplays
<1> DEFINE m == files["manifest.json"]
           recorded == files["witness.json"]
           verdict == files["verifier-result.json"]
           w == WitnessOf(path, a)
<1>1. /\ Strip(m) = Strip(BuildRunManifest(path, a))
      /\ Strip(recorded) = Strip(w)
      /\ Strip(verdict) = Strip(Verify(w, BuildRunManifest(path, a)))
  BY TheDocuments
<1>2. /\ BuildWitness(m, w.trace, Counterexample(w.trace), w.adversary,
                      w.transcript, w.selected_candidate_index) = w
      /\ w.trace_digest = DigestObject(w.trace)
      /\ DOMAIN w = WitnessFields
  BY <1>1, WitnessIsRebuilt
<1>3. {"trace", "adversary", "transcript", "selected_candidate_index", "trace_digest"}
        \subseteq WitnessFields
  BY DEF WitnessFields
<1>4. /\ recorded.trace = w.trace /\ recorded.adversary = w.adversary
      /\ recorded.transcript = w.transcript
      /\ recorded.selected_candidate_index = w.selected_candidate_index
      /\ recorded.trace_digest = w.trace_digest
  <2> HIDE DEF recorded, w
  <2> QED
    BY <1>1, <1>2, <1>3, SameFields
<1>5. Reexecuted = w.trace
  BY <1>4, RunIsReexecuted DEF Reexecuted
<1>6. RebuiltWitness = w
  BY <1>2, <1>4, <1>5 DEF RebuiltWitness
<1>7. Rejudged = Verify(w, BuildRunManifest(path, a))
  BY <1>1, <1>6, SameJudgement DEF Rejudged
<1>8. /\ Rejudged.evidence_digest = verdict.evidence_digest
      /\ Rejudged.disposition = verdict.disposition
  BY <1>1, <1>7, SameVerdictFields
<1>9. DigestObject(RebuiltWitness) = DigestObject(recorded)
  BY <1>1, <1>6 DEF DigestObject
<1> QED
  BY <1>2, <1>4, <1>5, <1>8, <1>9 DEF ReplayOk

\* A run replays, whatever became of its runtime metadata, as long as the scenario
\* found for it is its own (replay.replay_run).
THEOREM WholePackagesReplay == Spec => []WholePackageReplays
BY WholeReplays, PTL

-----------------------------------------------------------------------------
(* What a replay accepts                                                   *)

LEMMA EachRun ==
    ASSUME NEW run \in Runs
    PROVE  /\ run[1] \in DOMAIN ScenarioDocs /\ run[2] \in {"grid", "scripted"}
           /\ RunOf[run]["manifest.json"] = BuildRunManifest(run[1], run[2])
           /\ RunOf[run]["witness.json"] = WitnessOf(run[1], run[2])
           /\ RunOf[run]["verifier-result.json"] =
                Verify(WitnessOf(run[1], run[2]), BuildRunManifest(run[1], run[2]))
<1>1. /\ run[1] \in DOMAIN ScenarioDocs /\ run[2] \in {"grid", "scripted"}
      /\ run = <<run[1], run[2]>>
  BY DEF Runs
<1> QED
  BY <1>1, DocumentsOfARun

\* Two verdicts with one evidence digest are of one witness and say the same.
LEMMA EvidencePinsTheVerdict ==
    ASSUME NEW w, NEW m, NEW x, NEW n,
           Verify(w, m).evidence_digest = Verify(x, n).evidence_digest
    PROVE  Strip(Verify(w, m)) = Strip(Verify(x, n))
<1> DEFINE Evidence(y, k) ==
        [witness_digest |-> DigestObject(y), disposition |-> V1Disposition(y, k),
         rejection_reason |-> RejectionReason(y, k)]
<1>1. \A y, k : Verify(y, k).evidence_digest = Digest(Evidence(y, k))
  BY DEF Verify
<1>2. Evidence(w, m) = Evidence(x, n)
  BY <1>1, DigestsTellApart
<1>3. \A y, k : Verify(y, k) =
        [disposition |-> Evidence(y, k).disposition,
         rejection_reason |-> Evidence(y, k).rejection_reason,
         evidence_digest |-> Digest(Evidence(y, k)), runtime |-> "host"]
  BY DEF Verify
<1> HIDE DEF Evidence
<1>4. Verify(w, m) = Verify(x, n)
  BY <1>2, <1>3
<1> QED
  BY <1>4

\* What a replay accepts is one run, whatever the documents were taken from.
LEMMA AcceptedIsARun ==
    ASSUME DocumentsInv, \A name \in RunNames : ~ Unreadable(name), ReplayOk
    PROVE  RunDirectory(files)
<1> DEFINE m == files["manifest.json"]
           recorded == files["witness.json"]
           verdict == files["verifier-result.json"]
<1>1. PICK of_m \in Runs : Strip(m) = Strip(RunOf[of_m]["manifest.json"])
  BY TheRunNames DEF DocumentsInv
<1>2. PICK run \in Runs, claim \in BOOLEAN :
        recorded = [RunOf[run]["witness.json"] EXCEPT !.claimed_counterexample = claim]
  BY TheRunNames DEF DocumentsInv
<1>3. PICK of_v \in Runs : Strip(verdict) = Strip(RunOf[of_v]["verifier-result.json"])
  BY TheRunNames DEF DocumentsInv
<1> DEFINE path == run[1]
           a == run[2]
           w == WitnessOf(path, a)
<1>4. /\ w.manifest_digest = DigestObject(BuildRunManifest(path, a))
      /\ w.claimed_counterexample = Counterexample(w.trace)
      /\ DOMAIN w = WitnessFields /\ Strip(w) = w
      /\ w = [f \in WitnessFields |-> w[f]]
  BY EachRun, WitnessIsRebuilt
<1>5. recorded = [w EXCEPT !.claimed_counterexample = claim]
  BY <1>2, EachRun
<1>6. {"trace", "adversary", "transcript", "selected_candidate_index", "trace_digest",
       "manifest_digest", "claimed_counterexample"} \subseteq WitnessFields
      /\ "runtime" \notin WitnessFields
  BY DEF WitnessFields
<1> HIDE DEF w
<1>7. /\ recorded.trace = w.trace /\ recorded.manifest_digest = w.manifest_digest
      /\ recorded.claimed_counterexample = claim /\ DOMAIN recorded = WitnessFields
      /\ \A f \in WitnessFields : f # "claimed_counterexample" => recorded[f] = w[f]
  BY <1>4, <1>5, <1>6
<1>8. RebuiltWitness.manifest_digest = DigestObject(m)
      /\ RebuiltWitness.claimed_counterexample = Counterexample(Reexecuted)
      /\ RebuiltWitness.trace = Reexecuted
      /\ DOMAIN RebuiltWitness = WitnessFields
  BY WitnessHasNoRuntime DEF RebuiltWitness, BuildWitness
<1>9. Strip(RebuiltWitness) = Strip(recorded)
  BY DigestsTellApart DEF ReplayOk, DigestObject
<1>10. /\ RebuiltWitness.manifest_digest = recorded.manifest_digest
       /\ RebuiltWitness.claimed_counterexample = recorded.claimed_counterexample
       /\ RebuiltWitness.trace = recorded.trace
  <2> HIDE DEF recorded
  <2> QED
    BY <1>6, <1>7, <1>9, SameFields
<1>11. Strip(m) = Strip(BuildRunManifest(path, a))
  BY <1>4, <1>7, <1>8, <1>10, DigestsTellApart DEF DigestObject
<1>12. claim = Counterexample(w.trace)
  BY <1>7, <1>8, <1>10
<1>13. recorded = w
  BY <1>4, <1>5, <1>12
<1>14. RebuiltWitness = w
  BY <1>4, <1>8, <1>9, <1>13, WitnessHasNoRuntime DEF RebuiltWitness
<1>15. Rejudged = Verify(w, BuildRunManifest(path, a))
  BY <1>11, <1>14, EachRun, SameJudgement DEF Rejudged, w
<1>16. Strip(verdict) = Strip(Verify(w, BuildRunManifest(path, a)))
  <2> DEFINE path3 == of_v[1]
             a3 == of_v[2]
  <2>1. Strip(verdict) = Strip(Verify(WitnessOf(path3, a3), BuildRunManifest(path3, a3)))
    BY <1>3, EachRun
  <2>2. verdict.evidence_digest =
            Verify(WitnessOf(path3, a3), BuildRunManifest(path3, a3)).evidence_digest
    BY <2>1, SameVerdictFields
  <2>3. Rejudged.evidence_digest = verdict.evidence_digest
    BY DEF ReplayOk
  <2> QED
    BY <1>15, <2>1, <2>2, <2>3, EvidencePinsTheVerdict
<1>17. \A name \in RunNames : Strip(files[name]) = Strip(RunOf[run][name])
  BY <1>11, <1>13, <1>16, EachRun, TheRunNames DEF w
<1>18. \A name \in RunNames : name \in DOMAIN files /\ files[name] # Torn
  BY DEF Unreadable
<1> QED
  BY <1>17, <1>18 DEF RunDirectory

-----------------------------------------------------------------------------
(* Steps of a job                                                          *)

LEMMA TodoRest ==
    ASSUME NEW S, NEW todo \in Seq(S), todo # <<>>
    PROVE  /\ Head(todo) \in S /\ Left(Head(todo), todo)
           /\ Tail(todo) \in Seq(S)
           /\ \A op : Left(op, todo) => op = Head(todo) \/ Left(op, Tail(todo))
           /\ \A op : Left(op, Tail(todo)) => Left(op, todo)
           /\ \A ops : SealsBehind(ops, todo) => SealsBehind(ops, Tail(todo))
           /\ \A ops : SealsBehind(ops, todo) /\ Head(todo) = SealOp =>
                \A op \in ops : ~ Left(op, todo)
<1> DEFINE rest == Tail(todo)
<1>1. /\ Head(todo) \in S /\ rest \in Seq(S) /\ Head(todo) = todo[1]
      /\ Len(todo) \in Nat \ {0} /\ DOMAIN todo = 1..Len(todo)
      /\ DOMAIN rest = 1..(Len(todo) - 1)
      /\ \A k \in DOMAIN rest : k + 1 \in DOMAIN todo /\ rest[k] = todo[k + 1]
  OBVIOUS
<1>2. \A k \in DOMAIN todo : k = 1 \/ (k - 1 \in DOMAIN rest /\ rest[k - 1] = todo[k])
  <2> TAKE k \in DOMAIN todo
  <2>1. k = 1 \/ k - 1 \in DOMAIN rest
    BY <1>1
  <2>2. (k - 1) + 1 = k
    BY <1>1
  <2> QED
    BY <1>1, <2>1, <2>2
<1> HIDE DEF rest
<1>3. Left(Head(todo), todo)
  BY <1>1 DEF Left
<1>4. ASSUME NEW op, Left(op, todo) PROVE op = Head(todo) \/ Left(op, rest)
  BY <1>1, <1>2, <1>4 DEF Left
<1>5. ASSUME NEW op, Left(op, rest) PROVE Left(op, todo)
  BY <1>1, <1>5 DEF Left
<1>6. ASSUME NEW ops, SealsBehind(ops, todo) PROVE SealsBehind(ops, rest)
  <2> SUFFICES ASSUME NEW k \in DOMAIN rest, NEW n \in DOMAIN rest,
                      rest[k] \in ops, rest[n] = SealOp
               PROVE  k < n
    BY DEF SealsBehind
  <2>1. k + 1 < n + 1
    BY <1>1, <1>6 DEF SealsBehind
  <2>2. k \in Int /\ n \in Int
    BY <1>1
  <2> QED
    BY <2>1, <2>2
<1>7. ASSUME NEW ops, SealsBehind(ops, todo), Head(todo) = SealOp, NEW op \in ops
      PROVE  ~ Left(op, todo)
  <2> SUFFICES ASSUME NEW k \in DOMAIN todo, todo[k] = op PROVE FALSE
    BY DEF Left
  <2>1. 1 \in DOMAIN todo /\ k \in 1..Len(todo)
    BY <1>1
  <2>2. k < 1
    BY <1>1, <1>7, <2>1 DEF SealsBehind
  <2> QED
    BY <2>1, <2>2
<1> QED
  BY <1>1, <1>3, <1>4, <1>5, <1>6, <1>7 DEF rest

\* The job of a working command, and what is left of it behind one write.
LEMMA TheJob ==
    ASSUME JobInv, Working
    PROVE  /\ job.todo \in Seq(Ops)
           /\ DOMAIN job = {"command", "calls", "arg", "todo", "code"}
           /\ WritesRun /\ WritesReplay /\ WritesPackage
BY DEF JobInv, Working

LEMMA JobGoesOn ==
    ASSUME JobInv, Working, job.todo # <<>>, job' = [job EXCEPT !.todo = Tail(@)],
           job.command \in {"run", "demo", "dryrun"} =>
                \A name \in RunNames :
                    WriteOp(name) = Head(job.todo) \/ Written(name, job.arg) =>
                        Written(name, job.arg)',
           job.command = "replay" =>
                /\ \A name \in RunNames : ~ Unreadable(name)'
                /\ ReplayOp = Head(job.todo) \/ RunDirectory(files) \/ RefusedDirectory(files) =>
                        (RunDirectory(files) \/ RefusedDirectory(files))'
    PROVE  JobInv'
<1> DEFINE rest == Tail(job.todo)
<1>1. /\ DOMAIN job' = DOMAIN job /\ job'.command = job.command /\ job'.arg = job.arg
      /\ job'.todo = rest
  BY TheJob
<1>2. /\ rest \in Seq(Ops)
      /\ \A op : Left(op, job.todo) => op = Head(job.todo) \/ Left(op, rest)
      /\ \A op : Left(op, rest) => Left(op, job.todo)
      /\ \A ops : SealsBehind(ops, job.todo) => SealsBehind(ops, rest)
  BY TheJob, TodoRest
<1>3. WritesRun'
  <2> SUFFICES ASSUME job.command \in {"run", "demo", "dryrun"}
               PROVE  /\ job.arg \in Runs
                      /\ SealsBehind(RunWrites, rest)
                      /\ \A name \in RunNames :
                            Left(WriteOp(name), rest) \/ Written(name, job.arg)'
                      /\ ~ Left(WriteOp(PackageFile), rest)
    BY <1>1 DEF WritesRun, Written, Unreadable
  <2>1. /\ job.arg \in Runs
        /\ SealsBehind(RunWrites, job.todo)
        /\ \A name \in RunNames : Left(WriteOp(name), job.todo) \/ Written(name, job.arg)
        /\ ~ Left(WriteOp(PackageFile), job.todo)
    BY TheJob DEF WritesRun
  <2> HIDE DEF rest
  <2> QED
    BY <1>2, <2>1
<1>4. WritesReplay'
  <2> SUFFICES ASSUME job.command = "replay"
               PROVE  /\ SealsBehind({ReplayOp}, rest)
                      /\ \A k \in DOMAIN rest : rest[k] \in {ReplayOp, SealOp}
                      /\ Left(ReplayOp, rest)
                            \/ (RunDirectory(files) \/ RefusedDirectory(files))'
    BY <1>1 DEF WritesReplay, Unreadable
  <2>1. /\ SealsBehind({ReplayOp}, job.todo)
        /\ \A k \in DOMAIN job.todo : job.todo[k] \in {ReplayOp, SealOp}
        /\ Left(ReplayOp, job.todo) \/ RunDirectory(files) \/ RefusedDirectory(files)
    BY TheJob DEF WritesReplay
  <2>2. \A k \in DOMAIN rest : k + 1 \in DOMAIN job.todo /\ rest[k] = job.todo[k + 1]
    BY TheJob
  <2> HIDE DEF rest
  <2> QED
    BY <1>2, <2>1, <2>2
<1>5. WritesPackage'
  <2>1. \A k \in DOMAIN rest : k + 1 \in DOMAIN job.todo /\ rest[k] = job.todo[k + 1]
    BY TheJob
  <2> HIDE DEF rest
  <2> QED
    BY <1>1, <2>1, TheJob DEF WritesPackage
<1> HIDE DEF rest
<1> QED
  BY <1>1, <1>2, <1>3, <1>4, <1>5 DEF JobInv, Working

\* A file that a step leaves as it is.
SameFile(f) ==
    /\ f \in DOMAIN files <=> f \in DOMAIN files'
    /\ f \in DOMAIN files => files'[f] = files[f]

LEMMA OtherFiles ==
    ASSUME NEW name, NEW doc, files' = With(name, doc)
    PROVE  /\ name \in DOMAIN files' /\ files'[name] = doc
           /\ \A f : f # name => SameFile(f)
BY DEF With, SameFile

LEMMA DocumentsKept ==
    ASSUME DocumentsInv, \A f \in RunNames : SameFile(f)
    PROVE  /\ DocumentsInv'
           /\ \A f \in RunNames : Unreadable(f)' <=> Unreadable(f)
           /\ \A run : \A f \in RunNames : Written(f, run) => Written(f, run)'
           /\ RunDirectory(files) => RunDirectory(files)'
<1>1. \A f \in RunNames : Unreadable(f)' <=> Unreadable(f)
  BY DEF Unreadable, SameFile
<1>2. \A f \in RunNames : ~ Unreadable(f) => files'[f] = files[f]
  BY DEF Unreadable, SameFile
<1>3. DocumentsInv'
  <2> SUFFICES ASSUME NEW name \in RunNames, ~ Unreadable(name)
               PROVE  \E run \in Runs :
                        IF name = "witness.json"
                        THEN \E claim \in BOOLEAN :
                                files'[name] =
                                    [RunOf[run][name] EXCEPT !.claimed_counterexample = claim]
                        ELSE Strip(files'[name]) = Strip(RunOf[run][name])
    BY <1>1 DEF DocumentsInv
  <2> QED
    BY <1>2, Zenon DEF DocumentsInv
<1>4. ASSUME NEW f \in RunNames, NEW run, Written(f, run) PROVE Written(f, run)'
  BY <1>1, <1>2, <1>4 DEF Written
<1>5. ASSUME RunDirectory(files) PROVE RunDirectory(files)'
  BY <1>5 DEF RunDirectory, SameFile
<1> QED
  BY <1>1, <1>3, <1>4, <1>5

LEMMA RecordKept ==
    ASSUME RecordInv, SameFile(Sums) \/ Unreadable(Sums)'
    PROVE  RecordInv'
<1> SUFFICES ASSUME ~ Unreadable(Sums)'
             PROVE  (RunDirectory(Recorded) \/ RefusedDirectory(Recorded))'
  BY DEF RecordInv
<1>1. Sums \in DOMAIN files /\ files'[Sums] = files[Sums] /\ ~ Unreadable(Sums)
  BY DEF SameFile, Unreadable
<1>2. Recorded' = Recorded
  BY <1>1 DEF Recorded
<1> QED
  BY <1>1, <1>2 DEF RecordInv, RunDirectory, RefusedDirectory

\* No name of a document is the name of another file.
LEMMA NamesApart ==
    /\ Sums \notin RunNames /\ ReplayFile \notin RunNames /\ ReportFile \notin RunNames
    /\ Notice \notin RunNames /\ PackageFile \notin RunNames /\ PackageFile # Notice
    /\ Sums \notin {ReplayFile, ReportFile, Notice, PackageFile}
    /\ Sums \notin JsonNames
<1>1. JsonNames =
        {PackageFile, ReportFile, RunFiles[1], ReplayFile, RunFiles[3], RunFiles[2]}
  BY DEF JsonNames, JsonFiles
<1> QED
  BY <1>1, TheRunNames, RunFilesAreTheNames
     DEF Sums, ReplayFile, ReportFile, Notice, PackageFile

\* A file of the package that is no document of a run.
LEMMA OtherFileKeeps ==
    ASSUME SealInv, \A f \in RunNames : SameFile(f), SameFile(Sums) \/ Unreadable(Sums)'
    PROVE  DocumentsInv' /\ RecordInv'
BY DocumentsKept, RecordKept DEF SealInv

LEMMA NotTorn ==
    ASSUME NEW doc, NEW f \in DOMAIN doc
    PROVE  doc # Torn
BY DEF Torn

LEMMA RunDocumentsAreWhole ==
    ASSUME NEW run \in Runs, NEW name \in RunNames
    PROVE  \E f \in DOMAIN RunOf[run][name] : f # "runtime"
<1>1. \A path, a : "scenario" \in DOMAIN BuildRunManifest(path, a)
  BY DEF BuildRunManifest
<1>2. \A path, a : "trace" \in DOMAIN WitnessOf(path, a)
  BY DEF WitnessOf, BuildWitness
<1>3. \A w, m : "disposition" \in DOMAIN Verify(w, m)
  BY DEF Verify
<1> QED
  BY <1>1, <1>2, <1>3, TheRunNames, EachRun

\* A document that is one of the run's but for its runtime can be read.
LEMMA RunDocumentIsRead ==
    ASSUME NEW run \in Runs, NEW name \in RunNames, NEW doc,
           Strip(doc) = Strip(RunOf[run][name])
    PROVE  doc # Torn
<1>1. PICK f \in DOMAIN RunOf[run][name] : f # "runtime"
  BY RunDocumentsAreWhole
<1>2. f \in DOMAIN doc
  BY <1>1, SameFields
<1> QED
  BY <1>2, NotTorn

\* The claim of a run's witness is a claim.
LEMMA ClaimOfARun ==
    ASSUME NEW run \in Runs
    PROVE  \E claim \in BOOLEAN :
                RunOf[run]["witness.json"] =
                    [RunOf[run]["witness.json"] EXCEPT !.claimed_counterexample = claim]
<1> DEFINE w == WitnessOf(run[1], run[2])
<1>1. /\ w.claimed_counterexample = Counterexample(w.trace)
      /\ w = [f \in WitnessFields |-> w[f]]
  BY EachRun, WitnessIsRebuilt
<1>2. Counterexample(w.trace) \in BOOLEAN
  BY DEF Counterexample
<1> HIDE DEF w
<1>3. w = [w EXCEPT !.claimed_counterexample = w.claimed_counterexample]
  BY <1>1
<1>4. w.claimed_counterexample \in BOOLEAN
  BY <1>1, <1>2
<1> QED
  BY <1>3, <1>4, EachRun DEF w

\* A document of a run, however it comes into the directory.
LEMMA DocumentPut ==
    ASSUME DocumentsInv, NEW name \in RunNames, NEW run \in Runs,
           \A f \in RunNames : f # name => SameFile(f),
           files'[name] = RunOf[run][name]
    PROVE  DocumentsInv'
<1> SUFFICES ASSUME NEW f \in RunNames, ~ Unreadable(f)'
             PROVE  \E r \in Runs :
                        IF f = "witness.json"
                        THEN \E claim \in BOOLEAN :
                                files'[f] = [RunOf[r][f] EXCEPT !.claimed_counterexample = claim]
                        ELSE Strip(files'[f]) = Strip(RunOf[r][f])
  BY DEF DocumentsInv
<1>1. CASE f = name
  BY <1>1, ClaimOfARun
<1>2. CASE f # name
  <2>1. ~ Unreadable(f) /\ files'[f] = files[f]
    BY <1>2 DEF SameFile, Unreadable
  <2> QED
    BY <2>1, Zenon DEF DocumentsInv
<1> QED
  BY <1>1, <1>2

-----------------------------------------------------------------------------
(* The steps of a job on the directory                                     *)

LEMMA TheHead ==
    ASSUME JobInv, Working, job.todo # <<>>
    PROVE  Head(job.todo) \in Ops /\ Left(Head(job.todo), job.todo)
BY TheJob, TodoRest

LEMMA Operations ==
    /\ \A name : WriteOp(name).op = "write" /\ WriteOp(name).name = name
    /\ \A name : StripOp(name).op = "strip" /\ StripOp(name).name = name
    /\ SealOp.op = "seal" /\ ReplayOp.op = "replay" /\ ReportOp.op = "report"
    /\ SealOp.name = Sums /\ ReplayOp.name = ReplayFile /\ ReportOp.name = ReportFile
BY DEF WriteOp, StripOp, SealOp, ReplayOp, ReportOp

LEMMA OneName ==
    ASSUME NEW x, NEW y, WriteOp(x) = WriteOp(y)
    PROVE  x = y
BY DEF WriteOp

\* What a head of the list says of the command that has it.
LEMMA TheWriter ==
    ASSUME JobInv, Due("write")
    PROVE  \E name \in RunNames \cup {Notice, PackageFile} :
                /\ Head(job.todo) = WriteOp(name) /\ Head(job.todo).name = name
                /\ name \in RunNames => job.command \in {"run", "demo", "dryrun"}
                /\ job.command # "replay"
<1>1. Working /\ job.todo # <<>> /\ Head(job.todo).op = "write"
  BY DEF Due
<1>2. Head(job.todo) \in Ops
  BY <1>1, TheHead
<1>3. PICK name \in RunNames \cup {Notice, PackageFile} : Head(job.todo) = WriteOp(name)
  BY <1>1, <1>2, Operations DEF Ops
<1>4. PICK k \in DOMAIN job.todo : job.todo[k] = WriteOp(name)
  BY <1>1, <1>3, TheHead DEF Left
<1>5. job.command # "replay"
  BY <1>1, <1>4, TheJob, Operations DEF WritesReplay
<1>6. ASSUME name \in RunNames PROVE job.command \in {"run", "demo", "dryrun"}
  <2>1. name # PackageFile
    BY <1>6, NamesApart
  <2>2. job.command \notin {"consequence run", "consequence replay"}
    <3> SUFFICES ASSUME job.command \in {"consequence run", "consequence replay"}
                 PROVE  FALSE
      OBVIOUS
    <3>1. WritesPackage
      BY <1>1, TheJob
    <3>2. job.todo[k] = WriteOp(PackageFile)
      BY <1>4, <3>1 DEF WritesPackage
    <3>3. name = PackageFile
      BY <1>4, <3>2, OneName
    <3> QED
      BY <2>1, <3>3
  <2> QED
    BY <1>1, <1>5, <2>2 DEF JobInv, Working
<1> QED
  BY <1>3, <1>5, <1>6, Operations

LEMMA NotAReplay ==
    ASSUME JobInv, Working, job.todo # <<>>, Head(job.todo).op \notin {"replay", "seal"}
    PROVE  job.command # "replay"
<1> SUFFICES ASSUME job.command = "replay" PROVE FALSE
  OBVIOUS
<1>1. \A k \in DOMAIN job.todo : job.todo[k] \in {ReplayOp, SealOp}
  BY TheJob DEF WritesReplay
<1>2. Head(job.todo) \in {ReplayOp, SealOp}
  BY <1>1, TheHead DEF Left
<1> QED
  BY <1>2, Operations

\* A write that is none of a run's documents.
LEMMA OtherWrite ==
    ASSUME SealInv, Working, job.todo # <<>>, job' = [job EXCEPT !.todo = Tail(@)],
           \A f \in RunNames \cup {Sums} : SameFile(f),
           \A name \in RunNames : WriteOp(name) # Head(job.todo),
           job.command # "replay"
    PROVE  SealInv'
<1>1. DocumentsInv /\ JobInv /\ RecordInv
  BY DEF SealInv
<1>2. DocumentsInv' /\ RecordInv'
  BY OtherFileKeeps
<1>3. \A name \in RunNames : Written(name, job.arg) => Written(name, job.arg)'
  BY <1>1, DocumentsKept
<1>4. JobInv'
  BY <1>1, <1>3, JobGoesOn
<1> QED
  BY <1>2, <1>4 DEF SealInv

LEMMA WriteFileSeals == SealInv /\ WriteFile => SealInv'
<1> SUFFICES ASSUME SealInv, WriteFile PROVE SealInv'
  OBVIOUS
<1>1. DocumentsInv /\ JobInv /\ RecordInv
  BY DEF SealInv
<1>2. Due("write") /\ Working /\ job.todo # <<>>
  BY DEF WriteFile, Due
<1>3. PICK name \in RunNames \cup {Notice, PackageFile} :
        /\ Head(job.todo) = WriteOp(name) /\ Head(job.todo).name = name
        /\ name \in RunNames => job.command \in {"run", "demo", "dryrun"}
        /\ job.command # "replay"
  BY <1>1, <1>2, TheWriter
<1>4. /\ files' = With(name, DocumentFor(name))
      /\ job' = [job EXCEPT !.todo = Tail(@)]
  BY <1>3 DEF WriteFile, PutFile
<1>5. /\ files'[name] = DocumentFor(name) /\ name \in DOMAIN files'
      /\ \A f : f # name => SameFile(f)
  BY <1>4, OtherFiles
<1>6. name # Sums
  BY NamesApart
<1>7. CASE name \in RunNames
  <2>1. job.arg \in Runs
    BY <1>1, <1>2, <1>3, <1>7, TheJob DEF WritesRun
  <2>2. files'[name] = RunOf[job.arg][name]
    BY <1>5, <1>7, NamesApart DEF DocumentFor
  <2>3. DocumentsInv'
    BY <1>1, <1>5, <1>7, <2>1, <2>2, DocumentPut
  <2>4. RecordInv'
    BY <1>1, <1>5, <1>6, RecordKept
  <2>5. Written(name, job.arg)'
    <3>1. files'[name] # Torn
      BY <1>7, <2>1, <2>2, RunDocumentIsRead
    <3>2. job'.arg = job.arg
      BY <1>1, <1>2, <1>4, TheJob
    <3> QED
      BY <1>5, <2>2, <3>1, <3>2 DEF Written, Unreadable
  <2>6. ASSUME NEW f \in RunNames, WriteOp(f) = Head(job.todo) \/ Written(f, job.arg)
        PROVE  Written(f, job.arg)'
    <3>1. CASE f = name
      BY <2>5, <3>1
    <3>2. CASE f # name
      <4>1. Written(f, job.arg)
        BY <1>3, <2>6, <3>2, OneName
      <4>2. job'.arg = job.arg /\ SameFile(f)
        BY <1>1, <1>2, <1>4, <1>5, <3>2, TheJob
      <4> QED
        BY <4>1, <4>2 DEF Written, Unreadable, SameFile
    <3> QED
      BY <3>1, <3>2
  <2>7. JobInv'
    BY <1>1, <1>2, <1>3, <1>4, <2>6, JobGoesOn
  <2> QED
    BY <2>3, <2>4, <2>7 DEF SealInv
<1>8. CASE name \notin RunNames
  <2>1. \A f \in RunNames : WriteOp(f) # Head(job.todo)
    BY <1>3, <1>8, OneName
  <2>2. \A f \in RunNames \cup {Sums} : SameFile(f)
    BY <1>5, <1>6, <1>8
  <2> QED
    BY <1>2, <1>3, <1>4, <2>1, <2>2, OtherWrite
<1> QED
  BY <1>7, <1>8

\* Where a command seals, its directory is a run or refused.
LEMMA SealedThen ==
    ASSUME JobInv, Due("seal")
    PROVE  /\ Head(job.todo) = SealOp
           /\ RunDirectory(files) \/ RefusedDirectory(files)
<1>1. Working /\ job.todo # <<>> /\ Head(job.todo).op = "seal"
  BY DEF Due
<1>2. Head(job.todo) = SealOp
  BY <1>1, TheHead, Operations DEF Ops
<1>3. \A ops : SealsBehind(ops, job.todo) => \A op \in ops : ~ Left(op, job.todo)
  BY <1>1, <1>2, TheJob, TodoRest
<1>4. CASE job.command \in {"run", "demo", "dryrun"}
  <2>1. /\ job.arg \in Runs
        /\ SealsBehind(RunWrites, job.todo)
        /\ \A name \in RunNames : Left(WriteOp(name), job.todo) \/ Written(name, job.arg)
    BY <1>1, <1>4, TheJob DEF WritesRun
  <2>2. \A name \in RunNames : WriteOp(name) \in RunWrites
    BY DEF RunWrites
  <2>3. \A name \in RunNames : Written(name, job.arg)
    BY <1>3, <2>1, <2>2
  <2> QED
    BY <1>2, <2>1, <2>3 DEF RunDirectory, Written, Unreadable
<1>5. CASE job.command = "replay"
  <2>1. /\ SealsBehind({ReplayOp}, job.todo)
        /\ Left(ReplayOp, job.todo) \/ RunDirectory(files) \/ RefusedDirectory(files)
    BY <1>1, <1>5, TheJob DEF WritesReplay
  <2> QED
    BY <1>2, <1>3, <2>1
<1>6. CASE job.command \in {"consequence run", "consequence replay"}
  <2>1. Head(job.todo) = WriteOp(PackageFile)
    BY <1>1, <1>6, TheJob, TheHead DEF WritesPackage, Left
  <2> QED
    BY <1>1, <2>1, Operations
<1> QED
  BY <1>1, <1>4, <1>5, <1>6 DEF JobInv, Working

LEMMA SealSeals == SealInv /\ Seal => SealInv'
<1> SUFFICES ASSUME SealInv, Seal PROVE SealInv'
  OBVIOUS
<1>1. DocumentsInv /\ JobInv /\ RecordInv
  BY DEF SealInv
<1>2. Due("seal") /\ Working /\ job.todo # <<>>
  BY DEF Seal, Due
<1>3. /\ Head(job.todo) = SealOp
      /\ RunDirectory(files) \/ RefusedDirectory(files)
  BY <1>1, <1>2, SealedThen
<1>4. /\ files' = With(Sums, SumsOf)
      /\ job' = [job EXCEPT !.todo = Tail(@)]
  BY DEF Seal, PutFile
<1>5. /\ files'[Sums] = SumsOf /\ Sums \in DOMAIN files'
      /\ \A f : f # Sums => SameFile(f)
  BY <1>4, OtherFiles
<1>6. \A f \in RunNames \cup {ReplayFile} : f # Sums
  BY NamesApart
<1>7. \A f \in RunNames : SameFile(f)
  BY <1>5, <1>6
<1>8. DocumentsInv'
  BY <1>1, <1>7, DocumentsKept
<1>9. RecordInv'
  <2>1. Recorded' = [name \in DOMAIN files \ {Sums} |-> files[name]]
    BY <1>5 DEF Recorded, SumsOf, Digest
  <2>2. ASSUME RunDirectory(files) PROVE RunDirectory(Recorded')
    BY <1>6, <2>1, <2>2 DEF RunDirectory
  <2>3. ASSUME RefusedDirectory(files) PROVE RefusedDirectory(Recorded')
    BY <1>6, <2>1, <2>3 DEF RefusedDirectory
  <2>4. RunDirectory(Recorded') \/ RefusedDirectory(Recorded')
    BY <1>3, <2>2, <2>3
  <2> QED
    BY <2>4 DEF RecordInv
<1>10. RunDirectory(files) \/ RefusedDirectory(files) =>
            (RunDirectory(files) \/ RefusedDirectory(files))'
  <2>1. SameFile(ReplayFile)
    BY <1>5, <1>6
  <2>2. RefusedDirectory(files) => RefusedDirectory(files)'
    BY <2>1 DEF RefusedDirectory, SameFile
  <2> QED
    BY <1>1, <1>7, <2>2, DocumentsKept
<1>11. ReplayOp # Head(job.todo) /\ \A name : WriteOp(name) # Head(job.todo)
  BY <1>3, Operations
<1>12. \A name \in RunNames : Written(name, job.arg) => Written(name, job.arg)'
  <2>1. job'.arg = job.arg
    BY <1>1, <1>2, <1>4, TheJob
  <2> QED
    BY <1>7, <2>1 DEF Written, Unreadable, SameFile
<1>13. job.command = "replay" => \A name \in RunNames : ~ Unreadable(name)'
  <2>1. job.command = "replay" => \A name \in RunNames : ~ Unreadable(name)
    BY <1>1, <1>2, TheJob DEF WritesReplay
  <2> QED
    BY <1>1, <1>7, <2>1, DocumentsKept
<1>14. JobInv'
  BY <1>1, <1>2, <1>4, <1>10, <1>11, <1>12, <1>13, JobGoesOn
<1> QED
  BY <1>8, <1>9, <1>14 DEF SealInv

\* A replay that did not refuse has found a run.
LEMMA WriteReplaySeals == SealInv /\ WriteReplay => SealInv'
<1> SUFFICES ASSUME SealInv, WriteReplay PROVE SealInv'
  OBVIOUS
<1>1. DocumentsInv /\ JobInv /\ RecordInv
  BY DEF SealInv
<1>2. Working /\ job.todo # <<>> /\ Head(job.todo).op = "replay"
  BY DEF WriteReplay, Due
<1>3. /\ files' = With(ReplayFile, ReplayResult)
      /\ job' = [job EXCEPT !.todo = Tail(@)]
  BY DEF WriteReplay, PutFile
<1>4. /\ files'[ReplayFile] = ReplayResult /\ ReplayFile \in DOMAIN files'
      /\ \A f : f # ReplayFile => SameFile(f)
  BY <1>3, OtherFiles
<1>5. \A f \in RunNames \cup {Sums} : SameFile(f)
  BY <1>4, NamesApart
<1>6. DocumentsInv' /\ RecordInv'
  BY <1>5, OtherFileKeeps
<1>7. \A name : WriteOp(name) # Head(job.todo)
  BY <1>2, Operations
<1>8. \A name \in RunNames : Written(name, job.arg) => Written(name, job.arg)'
  <2>1. job'.arg = job.arg
    BY <1>1, <1>2, <1>3, TheJob
  <2> QED
    BY <1>5, <2>1 DEF Written, Unreadable, SameFile
<1>9. ASSUME job.command = "replay"
      PROVE  /\ \A name \in RunNames : ~ Unreadable(name)'
             /\ (RunDirectory(files) \/ RefusedDirectory(files))'
  <2>1. \A name \in RunNames : ~ Unreadable(name)
    BY <1>1, <1>2, <1>9, TheJob DEF WritesReplay
  <2>2. CASE ReplayOk
    BY <1>1, <1>5, <2>1, <2>2, AcceptedIsARun, DocumentsKept
  <2>3. CASE ~ ReplayOk
    <3>1. ReplayResult.replay_ok <=> ReplayOk
      BY DEF ReplayResult
    <3>2. "replay_ok" \in DOMAIN ReplayResult
      BY DEF ReplayResult
    <3>3. ReplayResult # Torn
      BY <3>2, NotTorn
    <3>4. RefusedDirectory(files')
      BY <1>4, <2>3, <3>1, <3>3 DEF RefusedDirectory
    <3> QED
      BY <1>1, <1>5, <2>1, <3>4, DocumentsKept
  <2> QED
    BY <2>2, <2>3
<1>10. JobInv'
  BY <1>1, <1>2, <1>3, <1>7, <1>8, <1>9, JobGoesOn
<1> QED
  BY <1>6, <1>10 DEF SealInv

LEMMA WriteReportSeals == SealInv /\ WriteReport => SealInv'
<1> SUFFICES ASSUME SealInv, WriteReport PROVE SealInv'
  OBVIOUS
<1>1. Working /\ job.todo # <<>> /\ Head(job.todo).op = "report"
  BY DEF WriteReport, Due
<1>2. PICK doc : files' = With(ReportFile, doc)
  BY DEF WriteReport, PutFile
<1>3. job' = [job EXCEPT !.todo = Tail(@)]
  BY DEF WriteReport, PutFile
<1>4. \A f \in RunNames \cup {Sums} : SameFile(f)
  BY <1>2, OtherFiles, NamesApart
<1>5. \A name : WriteOp(name) # Head(job.todo)
  BY <1>1, Operations
<1>6. job.command # "replay"
  BY <1>1, NotAReplay DEF SealInv
<1> QED
  BY <1>1, <1>3, <1>4, <1>5, <1>6, OtherWrite

LEMMA StripTwice ==
    ASSUME NEW doc
    PROVE  Strip(Strip(doc)) = Strip(doc)
BY DEF Strip

\* Without a process, or with another process's part of the job, nothing changes.
LEMMA NoJobSeals ==
    ASSUME SealInv, job' = None, files' = files
    PROVE  SealInv'
<1>1. \A f : SameFile(f)
  BY DEF SameFile
<1>2. DocumentsInv' /\ RecordInv'
  BY <1>1, OtherFileKeeps
<1> QED
  BY <1>2 DEF SealInv, JobInv

LEMMA SameJobSeals ==
    ASSUME SealInv, files' = files, job' = job
    PROVE  SealInv'
<1>1. \A f : SameFile(f)
  BY DEF SameFile
<1>2. DocumentsInv' /\ RecordInv'
  BY <1>1, OtherFileKeeps
<1>3. JobInv'
  BY DEF SealInv, JobInv, WritesRun, WritesReplay, WritesPackage, Written, Unreadable
<1> QED
  BY <1>2, <1>3 DEF SealInv

LEMMA SinkCallSeals == SealInv /\ SinkCall => SealInv'
<1> SUFFICES ASSUME SealInv, SinkCall PROVE SealInv'
  OBVIOUS
<1>1. JobInv /\ Working /\ files' = files /\ job' = [job EXCEPT !.calls = Tail(@)]
  BY DEF SinkCall, SealInv
<1>2. /\ DOMAIN job' = DOMAIN job /\ job'.command = job.command
      /\ job'.arg = job.arg /\ job'.todo = job.todo
  BY <1>1, TheJob
<1>3. \A f : SameFile(f)
  BY <1>1 DEF SameFile
<1>4. DocumentsInv' /\ RecordInv'
  BY <1>3, OtherFileKeeps
<1>5. JobInv'
  BY <1>1, <1>2 DEF JobInv, Working, WritesRun, WritesReplay, WritesPackage, Written, Unreadable
<1> QED
  BY <1>4, <1>5 DEF SealInv

LEMMA StripFileSeals == SealInv /\ StripFile => SealInv'
<1> SUFFICES ASSUME SealInv, StripFile PROVE SealInv'
  OBVIOUS
<1>1. DocumentsInv /\ JobInv /\ RecordInv
  BY DEF SealInv
<1>2. Working /\ job.todo # <<>> /\ Head(job.todo).op = "strip"
  BY DEF StripFile, Due
<1>3. PICK name \in JsonNames : Head(job.todo) = StripOp(name)
  BY <1>1, <1>2, TheHead, Operations DEF Ops
<1>4. Head(job.todo).name = name /\ name # Sums
  BY <1>3, Operations, NamesApart
<1>5. job.command # "replay" /\ \A f : WriteOp(f) # Head(job.todo)
  BY <1>1, <1>2, NotAReplay, Operations
<1>6. CASE Exit(job.command, Traceback) /\ files' = files
  BY <1>6, NoJobSeals DEF Exit
<1>7. CASE job' = [job EXCEPT !.todo = Tail(@)] /\ files' = files
  <2>1. \A f : SameFile(f)
    BY <1>7 DEF SameFile
  <2> QED
    BY <1>2, <1>5, <1>7, <2>1, OtherWrite
<1>8. CASE /\ name \in DOMAIN files /\ files[name] # Torn
           /\ "runtime" \in DOMAIN files[name]
           /\ PutFile(name, Strip(files[name]))
  <2>1. /\ files' = With(name, Strip(files[name]))
        /\ job' = [job EXCEPT !.todo = Tail(@)]
    BY <1>8 DEF PutFile
  <2>2. /\ files'[name] = Strip(files[name]) /\ name \in DOMAIN files'
        /\ \A f : f # name => SameFile(f)
    BY <2>1, OtherFiles
  <2>3. CASE name \notin RunNames
    BY <1>2, <1>4, <1>5, <2>1, <2>2, <2>3, OtherWrite
  <2>4. CASE name \in RunNames
    <3>1. name # "witness.json"
      <4> SUFFICES ASSUME name = "witness.json" PROVE FALSE
        OBVIOUS
      <4>1. PICK run \in Runs, claim \in BOOLEAN :
                files[name] =
                    [RunOf[run]["witness.json"] EXCEPT !.claimed_counterexample = claim]
        BY <1>1, <1>8, <2>4 DEF DocumentsInv, Unreadable
      <4>2. DOMAIN files[name] = WitnessFields
        BY <4>1, EachRun, WitnessIsRebuilt
      <4> QED
        BY <1>8, <4>2 DEF WitnessFields
    <3>2. Strip(files'[name]) = Strip(files[name])
      BY <2>2, StripTwice
    <3>3. DocumentsInv'
      <4> SUFFICES ASSUME NEW f \in RunNames, ~ Unreadable(f)'
                   PROVE  \E r \in Runs :
                            IF f = "witness.json"
                            THEN \E claim \in BOOLEAN :
                                    files'[f] =
                                        [RunOf[r][f] EXCEPT !.claimed_counterexample = claim]
                            ELSE Strip(files'[f]) = Strip(RunOf[r][f])
        BY DEF DocumentsInv
      <4>1. CASE f = name
        <5>1. PICK r \in Runs : Strip(files[name]) = Strip(RunOf[r][name])
          BY <1>1, <1>8, <2>4, <3>1 DEF DocumentsInv, Unreadable
        <5> QED
          BY <3>1, <3>2, <4>1, <5>1
      <4>2. CASE f # name
        <5>1. ~ Unreadable(f) /\ files'[f] = files[f]
          BY <2>2, <4>2 DEF SameFile, Unreadable
        <5> QED
          BY <1>1, <5>1, Zenon DEF DocumentsInv
      <4> QED
        BY <4>1, <4>2
    <3>4. RecordInv'
      BY <1>1, <1>4, <2>2, RecordKept
    <3>5. job'.arg = job.arg
      BY <1>1, <1>2, <2>1, TheJob
    <3>6. ASSUME job.command \in {"run", "demo", "dryrun"},
                 NEW f \in RunNames, Written(f, job.arg)
          PROVE  Written(f, job.arg)'
      <4>1. CASE f = name
        <5>1. job.arg \in Runs
          BY <1>1, <1>2, <3>6, TheJob DEF WritesRun
        <5>2. Strip(files'[name]) = Strip(RunOf[job.arg][name])
          BY <3>2, <3>6, <4>1 DEF Written
        <5>3. files'[name] # Torn
          BY <2>4, <5>1, <5>2, RunDocumentIsRead
        <5> QED
          BY <2>2, <3>5, <4>1, <5>2, <5>3 DEF Written, Unreadable
      <4>2. CASE f # name
        BY <2>2, <3>5, <3>6, <4>2 DEF Written, Unreadable, SameFile
      <4> QED
        BY <4>1, <4>2
    <3>7. JobInv'
      BY <1>1, <1>2, <1>5, <2>1, <3>6, JobGoesOn
    <3> QED
      BY <3>3, <3>4, <3>7 DEF SealInv
  <2> QED
    BY <2>3, <2>4
<1> QED
  BY <1>4, <1>6, <1>7, <1>8 DEF StripFile

-----------------------------------------------------------------------------
(* Jobs begin                                                              *)

\* A list that writes the documents of a run, whatever comes behind.
WritesAll(todo) ==
    /\ todo \in Seq(Ops) /\ SealsBehind(RunWrites, todo)
    /\ \A name \in RunNames : Left(WriteOp(name), todo)
    /\ ~ Left(WriteOp(PackageFile), todo)

LEMMA MoreBehind ==
    ASSUME NEW todo, WritesAll(todo), NEW more \in Seq(Ops),
           \A k \in DOMAIN more : more[k] \notin RunWrites /\ more[k] # WriteOp(PackageFile)
    PROVE  WritesAll(todo \o more)
<1> DEFINE list == todo \o more
<1>1. todo \in Seq(Ops) /\ Len(todo) \in Nat /\ Len(more) \in Nat
  BY DEF WritesAll
<1>2. /\ list \in Seq(Ops) /\ DOMAIN list = 1..(Len(todo) + Len(more))
      /\ \A k \in 1..Len(todo) : list[k] = todo[k]
      /\ \A k \in DOMAIN list :
            k > Len(todo) => k - Len(todo) \in DOMAIN more /\ list[k] = more[k - Len(todo)]
  BY <1>1
<1>3. DOMAIN todo = 1..Len(todo)
  BY <1>1
<1> HIDE DEF list
<1>4. ASSUME NEW k \in DOMAIN list, NEW n \in DOMAIN list, list[k] \in RunWrites, list[n] = SealOp
      PROVE  k < n
  <2>1. k \in 1..Len(todo) /\ n \in Int
    BY <1>1, <1>2, <1>4
  <2>2. CASE n \in 1..Len(todo)
    BY <1>2, <1>3, <1>4, <2>1, <2>2 DEF WritesAll, SealsBehind
  <2>3. CASE n \notin 1..Len(todo)
    BY <1>1, <1>2, <2>1, <2>3
  <2> QED
    BY <2>2, <2>3
<1>5. ASSUME NEW name \in RunNames PROVE Left(WriteOp(name), list)
  <2>1. PICK k \in DOMAIN todo : todo[k] = WriteOp(name)
    BY DEF WritesAll, Left
  <2>2. k \in DOMAIN list /\ list[k] = WriteOp(name)
    BY <1>1, <1>2, <1>3, <2>1
  <2> QED
    BY <2>2 DEF Left
<1>6. ASSUME NEW k \in DOMAIN list, list[k] = WriteOp(PackageFile) PROVE FALSE
  <2>1. CASE k \in 1..Len(todo)
    BY <1>2, <1>3, <1>6, <2>1 DEF WritesAll, Left
  <2>2. CASE k > Len(todo)
    BY <1>2, <1>6, <2>2
  <2> QED
    BY <1>1, <1>2, <2>1, <2>2
<1>7. ~ Left(WriteOp(PackageFile), list)
  BY <1>6 DEF Left
<1> QED
  BY <1>2, <1>4, <1>5, <1>7 DEF WritesAll, SealsBehind, list

LEMMA WriteRunWritesAll == WritesAll(WriteRun)
<1> DEFINE three == [i \in DOMAIN RunFiles |-> WriteOp(RunFiles[i])]
<1>1. /\ three \in Seq(Ops) /\ DOMAIN three = 1..3
      /\ \A i \in 1..3 : three[i] = WriteOp(RunFiles[i])
  <2>1. \A i \in 1..3 : WriteOp(RunFiles[i]) \in Ops
    BY RunFilesAreTheNames DEF Ops, RunNames
  <2>2. three = [i \in 1..3 |-> WriteOp(RunFiles[i])]
    BY RunFilesAreTheNames
  <2> QED
    BY <2>1, <2>2
<1> HIDE DEF three
<1>2. \A i \in 1..3 : three[i] # SealOp
  BY <1>1, Operations
<1>3. \A name \in RunNames : Left(WriteOp(name), three)
  BY <1>1, TheRunNames, RunFilesAreTheNames DEF Left
<1>4. \A i \in 1..3 : three[i] # WriteOp(PackageFile)
  BY <1>1, OneName, NamesApart, TheRunNames, RunFilesAreTheNames
<1>5. WritesAll(three)
  BY <1>1, <1>2, <1>3, <1>4 DEF WritesAll, SealsBehind, Left
<1>6. SealOp \in Ops /\ SealOp \notin RunWrites /\ SealOp # WriteOp(PackageFile)
  BY Operations DEF Ops, RunWrites
<1>7. /\ <<SealOp>> \in Seq(Ops)
      /\ \A k \in DOMAIN <<SealOp>> :
            <<SealOp>>[k] \notin RunWrites /\ <<SealOp>>[k] # WriteOp(PackageFile)
  BY <1>6
<1>8. WritesAll(three \o <<SealOp>>)
  BY <1>5, <1>7, MoreBehind
<1> QED
  BY <1>8 DEF WriteRun, three

\* A job that leaves the directory as it is, until its first write.
LEMMA StartSeals ==
    ASSUME SealInv, NEW command, NEW calls, NEW arg, NEW todo \in Seq(Ops), NEW code,
           StartJob(command, calls, arg, todo, code),
           \/ command \in {"run", "demo", "dryrun"} /\ arg \in Runs /\ WritesAll(todo)
           \/ /\ command = "replay" /\ CanReplay
              /\ SealsBehind({ReplayOp}, todo) /\ Left(ReplayOp, todo)
              /\ \A k \in DOMAIN todo : todo[k] \in {ReplayOp, SealOp}
           \/ /\ command \in {"consequence run", "consequence replay"}
              /\ \A k \in DOMAIN todo : todo[k] = WriteOp(PackageFile)
    PROVE  SealInv'
<1>1. /\ DOMAIN job' = {"command", "calls", "arg", "todo", "code"}
      /\ job'.command = command /\ job'.arg = arg /\ job'.todo = todo
      /\ files' = files
  BY DEF StartJob
<1>2. \A f : SameFile(f)
  BY <1>1 DEF SameFile
<1>3. DocumentsInv' /\ RecordInv'
  BY <1>2, OtherFileKeeps
<1>5. WritesRun'
  BY <1>1 DEF WritesRun, WritesAll
<1>6. WritesReplay'
  <2> SUFFICES ASSUME command = "replay"
               PROVE  /\ \A name \in RunNames : ~ Unreadable(name)'
                      /\ SealsBehind({ReplayOp}, todo)
                      /\ \A k \in DOMAIN todo : todo[k] \in {ReplayOp, SealOp}
                      /\ Left(ReplayOp, todo)
    BY <1>1 DEF WritesReplay
  <2>1. CanReplay
    OBVIOUS
  <2>2. \A name \in RunNames : ~ Unreadable(name)
    BY <2>1 DEF CanReplay, RunNames
  <2>3. \A name \in RunNames : ~ Unreadable(name)'
    BY <1>1, <2>2 DEF Unreadable
  <2> QED
    BY <2>3
<1>7. WritesPackage'
  BY <1>1 DEF WritesPackage
<1>8. JobInv'
  BY <1>1, <1>5, <1>6, <1>7 DEF JobInv
<1> QED
  BY <1>3, <1>8 DEF SealInv

LEMMA AnswerSeals ==
    ASSUME SealInv, NEW command, NEW code, Answer(command, code)
    PROVE  SealInv'
BY NoJobSeals DEF Answer, Exit

LEMMA DemoWritesAll ==
    WritesAll(WriteRun \o <<ReplayOp, WriteOp(Notice)>>
              \o [i \in DOMAIN JsonFiles |-> StripOp(JsonFiles[i])] \o <<SealOp, SealOp>>)
<1> DEFINE replay == <<ReplayOp, WriteOp(Notice)>>
           strips == [i \in DOMAIN JsonFiles |-> StripOp(JsonFiles[i])]
           seals == <<SealOp, SealOp>>
<1>1. /\ ReplayOp \in Ops /\ WriteOp(Notice) \in Ops /\ SealOp \in Ops
      /\ \A i \in DOMAIN JsonFiles : StripOp(JsonFiles[i]) \in Ops
  BY DEF Ops, JsonNames
<1>2. \A op \in RunWrites : op.op = "write" /\ op.name \in RunNames
  BY Operations DEF RunWrites
<1>3. /\ ReplayOp \notin RunWrites /\ WriteOp(Notice) \notin RunWrites
      /\ SealOp \notin RunWrites
      /\ \A i \in DOMAIN JsonFiles :
            StripOp(JsonFiles[i]) \notin RunWrites /\ StripOp(JsonFiles[i]) # WriteOp(PackageFile)
      /\ WriteOp(PackageFile) \notin {ReplayOp, WriteOp(Notice), SealOp}
  BY <1>2, Operations, OneName, NamesApart
<1>4. /\ replay \in Seq(Ops)
      /\ \A k \in DOMAIN replay : replay[k] \notin RunWrites /\ replay[k] # WriteOp(PackageFile)
  BY <1>1, <1>3
<1>5. /\ strips \in Seq(Ops)
      /\ \A k \in DOMAIN strips : strips[k] \notin RunWrites /\ strips[k] # WriteOp(PackageFile)
  <2>1. DOMAIN JsonFiles = 1..6
    BY DEF JsonFiles
  <2>2. strips = [i \in 1..6 |-> StripOp(JsonFiles[i])]
    BY <2>1
  <2> QED
    BY <1>1, <1>3, <2>1, <2>2
<1>6. /\ seals \in Seq(Ops)
      /\ \A k \in DOMAIN seals : seals[k] \notin RunWrites /\ seals[k] # WriteOp(PackageFile)
  BY <1>1, <1>3
<1> HIDE DEF replay, strips, seals
<1>7. WritesAll(WriteRun \o replay)
  BY <1>4, WriteRunWritesAll, MoreBehind
<1>8. WritesAll((WriteRun \o replay) \o strips)
  BY <1>5, <1>7, MoreBehind
<1>9. WritesAll(((WriteRun \o replay) \o strips) \o seals)
  BY <1>6, <1>8, MoreBehind
<1> QED
  BY <1>9 DEF replay, strips, seals

LEMMA DryRunWritesAll == WritesAll(WriteRun \o <<ReportOp>>)
<1> DEFINE report == <<ReportOp>>
<1>1. ReportOp \in Ops /\ ReportOp \notin RunWrites /\ ReportOp # WriteOp(PackageFile)
  BY Operations DEF Ops, RunWrites
<1>2. /\ report \in Seq(Ops)
      /\ \A k \in DOMAIN report : report[k] \notin RunWrites /\ report[k] # WriteOp(PackageFile)
  BY <1>1
<1> HIDE DEF report
<1>3. WritesAll(WriteRun \o report)
  BY <1>2, WriteRunWritesAll, MoreBehind
<1> QED
  BY <1>3 DEF report

LEMMA RunStarts ==
    ASSUME SealInv, NEW command \in {"run", "demo", "dryrun"}, NEW path \in Paths, path # Absent,
           NEW a \in {"grid", "scripted"}, NEW todo, WritesAll(todo), NEW code,
           StartJob(command, <<>>, <<path, a>>, todo, code)
    PROVE  SealInv'
<1>1. <<path, a>> \in Runs
  BY DEF Paths, Runs
<1>2. todo \in Seq(Ops)
  BY DEF WritesAll
<1> QED
  BY <1>1, <1>2, StartSeals

LEMMA ReplayStarts ==
    ASSUME SealInv, CanReplay, NEW code,
           StartJob("replay", <<>>, None, <<ReplayOp, SealOp>>, code)
    PROVE  SealInv'
<1> DEFINE todo == <<ReplayOp, SealOp>>
<1>1. ReplayOp \in Ops /\ SealOp \in Ops /\ ReplayOp # SealOp
  BY Operations DEF Ops
<1>2. DOMAIN todo = 1..2 /\ todo[1] = ReplayOp /\ todo[2] = SealOp /\ todo \in Seq(Ops)
  BY <1>1
<1>3. SealsBehind({ReplayOp}, todo)
  <2> SUFFICES ASSUME NEW k \in 1..2, NEW n \in 1..2, todo[k] = ReplayOp, todo[n] = SealOp
               PROVE  k < n
    BY <1>2 DEF SealsBehind
  <2>1. k # 2 /\ n # 1
    BY <1>1, <1>2
  <2> QED
    BY <2>1
<1>4. Left(ReplayOp, todo) /\ \A k \in DOMAIN todo : todo[k] \in {ReplayOp, SealOp}
  BY <1>2 DEF Left
<1> QED
  BY <1>2, <1>3, <1>4, StartSeals

\* A package is the one write of a consequence run, and a replay of it has none.
LEMMA PackageTodo ==
    ASSUME NEW out \in BOOLEAN
    PROVE  LET todo == IF out THEN <<WriteOp(PackageFile)>> ELSE <<>>
           IN  todo \in Seq(Ops) /\ \A k \in DOMAIN todo : todo[k] = WriteOp(PackageFile)
<1>1. WriteOp(PackageFile) \in Ops
  BY DEF Ops
<1> QED
  BY <1>1

LEMMA ConsequenceStarts ==
    ASSUME SealInv, NEW command \in {"consequence run", "consequence replay"},
           NEW calls, NEW n, NEW out \in BOOLEAN, NEW code,
           StartJob(command, calls, n, IF out THEN <<WriteOp(PackageFile)>> ELSE <<>>, code)
    PROVE  SealInv'
<1> DEFINE todo == IF out THEN <<WriteOp(PackageFile)>> ELSE <<>>
<1>1. todo \in Seq(Ops) /\ \A k \in DOMAIN todo : todo[k] = WriteOp(PackageFile)
  BY PackageTodo
<1> HIDE DEF todo
<1>2. StartJob(command, calls, n, todo, code)
  BY DEF todo
<1> QED
  BY <1>1, <1>2, StartSeals

LEMMA CommandSeals == SealInv /\ Command => SealInv'
<1> SUFFICES ASSUME SealInv, Command PROVE SealInv'
  OBVIOUS
<1>1. ASSUME NEW path \in Paths, Run(path) PROVE SealInv'
  BY <1>1, AnswerSeals, RunStarts, WriteRunWritesAll DEF Run
<1>2. ASSUME NEW path \in Paths, Demo(path) PROVE SealInv'
  BY <1>2, AnswerSeals, RunStarts, DemoWritesAll DEF Demo
<1>3. ASSUME NEW vuln \in Paths, NEW control \in Paths, DryRun(vuln, control) PROVE SealInv'
  BY <1>3, AnswerSeals, RunStarts, WriteRunWritesAll, DryRunWritesAll DEF DryRun
<1>4. CASE VerifyDirectory
  BY <1>4, AnswerSeals DEF VerifyDirectory
<1>5. ASSUME NEW name, VerifyFile(name) PROVE SealInv'
  BY <1>5, AnswerSeals DEF VerifyFile
<1>6. ASSUME NEW write \in BOOLEAN, Replay(write) PROVE SealInv'
  BY <1>6, AnswerSeals, ReplayStarts DEF Replay
<1>7. CASE Inspect
  BY <1>7, AnswerSeals DEF Inspect
<1>8. ASSUME NEW n \in ConsequenceNames, NEW out \in BOOLEAN, RunConsequence(n, out)
      PROVE  SealInv'
  BY <1>8, ConsequenceStarts DEF RunConsequence
<1>9. CASE VerifyConsequence
  BY <1>9, AnswerSeals DEF VerifyConsequence
<1>10. CASE ReplayConsequence
  <2>1. ASSUME NEW n, NEW calls, StartJob("consequence replay", calls, n, <<>>, 0)
        PROVE  SealInv'
    <3>1. StartJob("consequence replay", calls, n,
                   IF FALSE THEN <<WriteOp(PackageFile)>> ELSE <<>>, 0)
      BY <2>1
    <3> QED
      BY <3>1, ConsequenceStarts
  <2> QED
    BY <1>10, <2>1, AnswerSeals DEF ReplayConsequence
<1>11. CASE InspectPaths
  BY <1>11, AnswerSeals DEF InspectPaths
<1> QED
  BY <1>1, <1>2, <1>3, <1>4, <1>5, <1>6, <1>7, <1>8, <1>9, <1>10, <1>11 DEF Command

-----------------------------------------------------------------------------
(* Faults                                                                  *)

\* A file that a step leaves as it is, or takes from those that can be read.
LEMMA LostFileKeeps ==
    ASSUME SealInv, NEW name, Unreadable(name)', \A f : f # name => SameFile(f)
    PROVE  DocumentsInv' /\ RecordInv'
<1>1. DocumentsInv /\ RecordInv
  BY DEF SealInv
<1>2. RecordInv'
  BY <1>1, RecordKept
<1>3. DocumentsInv'
  <2> SUFFICES ASSUME NEW f \in RunNames, ~ Unreadable(f)'
               PROVE  \E r \in Runs :
                        IF f = "witness.json"
                        THEN \E claim \in BOOLEAN :
                                files'[f] =
                                    [RunOf[r][f] EXCEPT !.claimed_counterexample = claim]
                        ELSE Strip(files'[f]) = Strip(RunOf[r][f])
    BY DEF DocumentsInv
  <2>1. f # name
    OBVIOUS
  <2>2. ~ Unreadable(f) /\ files'[f] = files[f]
    BY <2>1 DEF SameFile, Unreadable
  <2> QED
    BY <1>1, <2>2, Zenon DEF DocumentsInv
<1> QED
  BY <1>2, <1>3

LEMMA KillSeals == SealInv /\ Kill => SealInv'
<1> SUFFICES ASSUME SealInv, Kill PROVE SealInv'
  OBVIOUS
<1>1. job' = None
  BY DEF Kill
<1>2. CASE files' = files
  BY <1>1, <1>2, NoJobSeals
<1>3. CASE files' # files
  <2>1. PICK name : files' = With(name, Torn)
    BY <1>3 DEF Kill
  <2>2. Unreadable(name)' /\ \A f : f # name => SameFile(f)
    BY <2>1, OtherFiles DEF Unreadable
  <2>3. DocumentsInv' /\ RecordInv'
    BY <2>2, LostFileKeeps
  <2> QED
    BY <1>1, <2>3 DEF SealInv, JobInv
<1> QED
  BY <1>2, <1>3

\* Nothing a file can be replaced by is anything but torn, a document of a run, or its
\* own witness with the other claim; the sums can only be torn.
LEMMA DamageSeals ==
    ASSUME SealInv, NEW name \in DOMAIN files, Damage(name)
    PROVE  SealInv'
<1>1. DocumentsInv /\ JobInv /\ RecordInv
  BY DEF SealInv
<1>2. job' = None
  BY DEF Damage, Working
<1>3. \A f : f # name => SameFile(f)
  BY DEF Damage, SameFile
<1>4. CASE Unreadable(name)'
  BY <1>2, <1>3, <1>4, LostFileKeeps DEF SealInv, JobInv
<1>5. CASE ~ Unreadable(name)'
  <2>1. name \in DOMAIN files' /\ files'[name] # Torn
    BY <1>5 DEF Unreadable
  <2>2. files'[name] \in Replacements(name)
    BY <2>1 DEF Damage
  <2>3. ASSUME name \notin RunNames PROVE name = PackageFile
    BY <2>1, <2>2, <2>3, TheRunNames DEF Replacements
  <2>4. name # Sums
    BY <2>3, NamesApart
  <2>5. RecordInv'
    BY <1>1, <1>3, <2>4, RecordKept
  <2>6. DocumentsInv'
    <3>1. CASE name \notin RunNames
      BY <1>1, <1>3, <3>1, DocumentsKept
    <3>2. ASSUME name \in RunNames,
                 NEW path \in DOMAIN ScenarioDocs, files'[name] = RunOf[<<path, "grid">>][name]
          PROVE  DocumentsInv'
      <4>1. <<path, "grid">> \in Runs
        BY DEF Runs
      <4> QED
        BY <1>1, <1>3, <3>2, <4>1, DocumentPut
    <3>3. ASSUME name = "witness.json", files[name] # Torn,
                 files'[name] = [files[name] EXCEPT !.claimed_counterexample =
                                    ~ files[name].claimed_counterexample]
          PROVE  DocumentsInv'
      <4>1. PICK run \in Runs, claim \in BOOLEAN :
                files[name] =
                    [RunOf[run]["witness.json"] EXCEPT !.claimed_counterexample = claim]
        BY <1>1, <3>3, TheRunNames DEF DocumentsInv, Unreadable
      <4> DEFINE w == RunOf[run]["witness.json"]
      <4>2. w = [f \in WitnessFields |-> w[f]]
        BY EachRun, WitnessIsRebuilt
      <4> HIDE DEF w
      <4>3. files'[name] = [w EXCEPT !.claimed_counterexample =
                                ~ files[name].claimed_counterexample]
        BY <3>3, <4>1, <4>2 DEF w
      <4>4. (~ files[name].claimed_counterexample) \in BOOLEAN
        OBVIOUS
      <4> SUFFICES ASSUME NEW f \in RunNames, ~ Unreadable(f)'
                   PROVE  \E r \in Runs :
                            IF f = "witness.json"
                            THEN \E c \in BOOLEAN :
                                    files'[f] =
                                        [RunOf[r][f] EXCEPT !.claimed_counterexample = c]
                            ELSE Strip(files'[f]) = Strip(RunOf[r][f])
        BY DEF DocumentsInv
      <4>5. CASE f = name
        BY <3>3, <4>3, <4>4, <4>5, Zenon DEF w
      <4>6. CASE f # name
        <5>1. ~ Unreadable(f) /\ files'[f] = files[f]
          BY <1>3, <4>6 DEF SameFile, Unreadable
        <5> QED
          BY <1>1, <5>1, Zenon DEF DocumentsInv
      <4> QED
        BY <4>5, <4>6
    <3> QED
      BY <2>1, <2>2, <3>1, <3>2, <3>3, NamesApart DEF Replacements
  <2> QED
    BY <1>2, <2>5, <2>6 DEF SealInv, JobInv
<1> QED
  BY <1>4, <1>5

-----------------------------------------------------------------------------

LEMMA SealInvInit == Init => SealInv
BY TheRunNames DEF Init, SealInv, DocumentsInv, JobInv, RecordInv, Unreadable

LEMMA SealInvStep == SealInv /\ [Next]_vars => SealInv'
<1> SUFFICES ASSUME SealInv, [Next]_vars PROVE SealInv'
  OBVIOUS
<1>1. CASE Idle /\ Command
  BY <1>1, CommandSeals
<1>2. CASE End
  BY <1>2, NoJobSeals DEF End, Exit
<1>3. CASE UNCHANGED vars
  BY <1>3, SameJobSeals DEF vars, cliVars
<1>4. ASSUME NEW name \in DOMAIN files, Damage(name) PROVE SealInv'
  BY <1>4, DamageSeals
<1> QED
  BY <1>1, <1>2, <1>3, <1>4, SinkCallSeals, WriteFileSeals, SealSeals, WriteReplaySeals,
     WriteReportSeals, StripFileSeals, KillSeals DEF Next

\* Where the sums hold, the directory is the one they were taken of.
LEMMA SumsAreOfThis ==
    ASSUME RecordInv, SumsHold
    PROVE  RunDirectory(files) \/ RefusedDirectory(files)
<1>1. \A name \in DOMAIN files[Sums] :
        name \in DOMAIN files /\ files[Sums][name].digest_of = files[name]
  <2> SUFFICES ASSUME NEW name \in DOMAIN files[Sums]
               PROVE  name \in DOMAIN files /\ files[Sums][name].digest_of = files[name]
    OBVIOUS
  <2>1. name \in DOMAIN files /\ Digest(files[name]) = files[Sums][name]
    BY DEF SumsHold
  <2>2. \A x : Digest(x).digest_of = x
    BY DEF Digest
  <2> QED
    BY <2>1, <2>2
<1>2. /\ DOMAIN Recorded = DOMAIN files[Sums]
      /\ \A name \in DOMAIN Recorded : name \in DOMAIN files /\ Recorded[name] = files[name]
  BY <1>1 DEF Recorded
<1>3. RunDirectory(Recorded) \/ RefusedDirectory(Recorded)
  BY DEF RecordInv, SumsHold
<1> QED
  BY <1>2, <1>3 DEF RunDirectory, RefusedDirectory

LEMMA SealInvImplies == SealInv => SealedIsWholeOrRefused
<1> SUFFICES ASSUME SealInv, SumsHold
             PROVE  Whole \/ (~ Unreadable(ReplayFile) /\ ~ files[ReplayFile].replay_ok)
  BY DEF SealedIsWholeOrRefused
<1>1. CASE RefusedDirectory(files)
  BY <1>1 DEF RefusedDirectory, Unreadable
<1>2. CASE RunDirectory(files)
  <2>1. \A i \in DOMAIN RunFiles : RunFiles[i] \in RunNames
    BY DEF RunNames
  <2>2. HasDocuments
    BY <1>2, <2>1 DEF RunDirectory, HasDocuments, Unreadable
  <2>3. PICK run \in Runs : \A name \in RunNames : Strip(files[name]) = Strip(RunOf[run][name])
    BY <1>2 DEF RunDirectory
  <2>4. run[1] \in DOMAIN ScenarioDocs /\ run[2] \in {"grid", "scripted"}
        /\ run = <<run[1], run[2]>>
    BY DEF Runs
  <2>5. IsRun(run[1], run[2])
    BY <2>1, <2>3, <2>4 DEF IsRun
  <2> QED
    BY <2>2, <2>4, <2>5 DEF Whole
<1> QED
  BY <1>1, <1>2, SumsAreOfThis DEF SealInv

\* A directory whose sums hold is one run, whole, or carries a replay that refused
\* it: through every command, kill, lost, torn and replaced file, although replay
\* --write seals whatever it finds (pipeline.write_sha256sums, cli.cmd_replay).
THEOREM SealedIsARunOrRefused == Spec => []SealedIsWholeOrRefused
BY SealInvInit, SealInvStep, SealInvImplies, PTL DEF Spec

-----------------------------------------------------------------------------
(* The scenarios: what a guarded call presents is what the verifier gets.  *)

Presented(s, k) ==
    LET reference == k.commit.authorization_ref IN
    /\ reference \in DOMAIN s.authorizations
    /\ s.authorizations[reference] = k.authorization
    /\ Get(s.use_counts, reference) \in {None, 1}
    /\ Get(s.tokens, k.commit.commit_id) \in {None, k.token}
    /\ k.authorization.max_uses \in Int
    /\ k.authorization.sink_id = SinkId

Agreed(s) ==
    \A i \in DOMAIN s.calls :
        /\ s.calls[i].entry \in {"submit", "unguarded", "lose receipts"}
        /\ s.calls[i].entry = "submit" => Presented(s, s.calls[i])
        /\ s.calls[i].entry = "unguarded" =>
                /\ s.calls[i].commit.authorization_ref \notin DOMAIN s.authorizations
                /\ s.calls[i].commit.sink_id = SinkId

LEMMA AnAuthorization ==
    ASSUME NEW issued, NEW not_after, NEW delegation
    PROVE  /\ MakeAuthorization(issued, not_after, delegation).max_uses = 1
           /\ MakeAuthorization(issued, not_after, delegation).sink_id = SinkId
BY DEF MakeAuthorization, Sign

LEMMA ACommit ==
    ASSUME NEW id, NEW route, NEW action, NEW tick, NEW reference, NEW key
    PROVE  LET c == MakeCommit(id, route, action, tick, reference, key)
           IN  /\ c.commit_id = id /\ c.authorization_ref = reference
               /\ c.sink_id = action.sink_id
BY DEF MakeCommit

\* A submission of the authorization a to the sink it is for.
LEMMA ASubmission ==
    ASSUME NEW s, NEW commit, NEW a, commit.authorization_ref = "authz-0001",
           s.authorizations = Registered(a), s.use_counts \in {Nothing.use_counts, OneUse},
           Get(s.tokens, commit.commit_id) \in {None, Digest(a)},
           a.max_uses = 1, a.sink_id = SinkId
    PROVE  /\ Presented(s, SubmitCall(commit, a))
           /\ SubmitCall(commit, a).entry = "submit"
<1>1. "authz-0001" \in DOMAIN s.authorizations /\ s.authorizations["authz-0001"] = a
  BY DEF Registered
<1>2. Get(s.use_counts, "authz-0001") \in {None, 1}
  BY DEF Get, Nothing, OneUse
<1>3. /\ SubmitCall(commit, a).commit = commit /\ SubmitCall(commit, a).authorization = a
      /\ SubmitCall(commit, a).token = Digest(a) /\ SubmitCall(commit, a).entry = "submit"
  BY DEF SubmitCall
<1> QED
  BY <1>1, <1>2, <1>3 DEF Presented

LEMMA CompleteAgrees ==
    ASSUME NEW commit, commit.authorization_ref = "authz-0001"
    PROVE  Agreed(Complete(commit))
<1> DEFINE s == Complete(commit)
<1>1. /\ s.calls = <<SubmitCall(commit, BaseAuthorization)>>
      /\ s.authorizations = Registered(BaseAuthorization)
      /\ s.tokens = TokenOf(commit, BaseAuthorization)
      /\ s.use_counts = OneUse
  BY DEF Complete, Nothing
<1>2. Get(s.tokens, commit.commit_id) = Digest(BaseAuthorization)
  BY <1>1 DEF TokenOf, Get
<1>3. BaseAuthorization.max_uses = 1 /\ BaseAuthorization.sink_id = SinkId
  BY AnAuthorization DEF BaseAuthorization
<1> HIDE DEF s
<1>4. Presented(s, SubmitCall(commit, BaseAuthorization))
      /\ SubmitCall(commit, BaseAuthorization).entry = "submit"
  BY <1>1, <1>2, <1>3, ASubmission
<1>5. \A i \in DOMAIN s.calls : s.calls[i] = SubmitCall(commit, BaseAuthorization)
  BY <1>1
<1> QED
  BY <1>4, <1>5 DEF Agreed, s

LEMMA RefusalAgrees ==
    ASSUME NEW a, NEW action, NEW tick, a.max_uses = 1, a.sink_id = SinkId
    PROVE  Agreed(Refusal(a, action, tick))
<1> DEFINE s == Refusal(a, action, tick)
           commit == GuardedCommit("commit-refused", action, tick)
<1>1. /\ s.calls = <<SubmitCall(commit, a)>>
      /\ s.authorizations = Registered(a)
      /\ s.tokens = [c \in {} |-> None]
      /\ s.use_counts = Nothing.use_counts
  BY DEF Refusal, Nothing
<1>2. Get(s.tokens, commit.commit_id) = None
  BY <1>1 DEF Get
<1>3. commit.authorization_ref = "authz-0001"
  BY ACommit DEF GuardedCommit
<1> HIDE DEF s, commit
<1>4. Presented(s, SubmitCall(commit, a)) /\ SubmitCall(commit, a).entry = "submit"
  BY <1>1, <1>2, <1>3, ASubmission
<1>5. \A i \in DOMAIN s.calls : s.calls[i] = SubmitCall(commit, a)
  BY <1>1
<1> QED
  BY <1>4, <1>5 DEF Agreed, s

LEMMA ReplayedAgrees == Agreed(ReplayedDelivery)
<1> DEFINE s == ReplayedDelivery
           first == GuardedCommit("commit-first", BaseAction, 10)
           second == [first EXCEPT !.commit_id = "commit-replay", !.committed_at = 11]
<1>1. /\ s.calls = <<SubmitCall(first, BaseAuthorization), SubmitCall(second, BaseAuthorization)>>
      /\ s.authorizations = Registered(BaseAuthorization)
      /\ s.tokens = TokenOf(first, BaseAuthorization)
      /\ s.use_counts = OneUse
  BY DEF ReplayedDelivery, Complete, Nothing
<1>2. BaseAuthorization.max_uses = 1 /\ BaseAuthorization.sink_id = SinkId
  BY AnAuthorization DEF BaseAuthorization
<1>3. first.authorization_ref = "authz-0001" /\ second.authorization_ref = "authz-0001"
  BY DEF GuardedCommit, MakeCommit
<1>4. \A c : Get(s.tokens, c) \in {None, Digest(BaseAuthorization)}
  BY <1>1 DEF TokenOf, Get
<1> HIDE DEF s, first, second
<1>5. /\ Presented(s, SubmitCall(first, BaseAuthorization))
      /\ SubmitCall(first, BaseAuthorization).entry = "submit"
  BY <1>1, <1>2, <1>3, <1>4, ASubmission
<1>6. /\ Presented(s, SubmitCall(second, BaseAuthorization))
      /\ SubmitCall(second, BaseAuthorization).entry = "submit"
  BY <1>1, <1>2, <1>3, <1>4, ASubmission
<1>7. \A i \in DOMAIN s.calls : s.calls[i] \in
        {SubmitCall(first, BaseAuthorization), SubmitCall(second, BaseAuthorization)}
  BY <1>1
<1> QED
  BY <1>5, <1>6, <1>7 DEF Agreed, s

LEMMA UnwitnessedAgrees == Agreed(IncompleteEvidence)
<1> DEFINE s == IncompleteEvidence
           commit == GuardedCommit("commit-unwitnessed", BaseAction, 10)
           loss == [entry |-> "lose receipts", commit |-> commit,
                    authorization |-> None, token |-> None]
<1>1. /\ s.calls = <<SubmitCall(commit, BaseAuthorization), loss>>
      /\ s.authorizations = Registered(BaseAuthorization)
      /\ s.tokens = [c \in {} |-> None]
      /\ s.use_counts = Nothing.use_counts
  BY DEF IncompleteEvidence, Nothing
<1>2. BaseAuthorization.max_uses = 1 /\ BaseAuthorization.sink_id = SinkId
  BY AnAuthorization DEF BaseAuthorization
<1>3. commit.authorization_ref = "authz-0001"
  BY ACommit DEF GuardedCommit
<1>4. Get(s.tokens, commit.commit_id) = None
  BY <1>1 DEF Get
<1>5. loss.entry = "lose receipts"
  OBVIOUS
<1> HIDE DEF s, commit, loss
<1>6. /\ Presented(s, SubmitCall(commit, BaseAuthorization))
      /\ SubmitCall(commit, BaseAuthorization).entry = "submit"
  BY <1>1, <1>2, <1>3, <1>4, ASubmission
<1>7. \A i \in DOMAIN s.calls : s.calls[i] \in {SubmitCall(commit, BaseAuthorization), loss}
  BY <1>1
<1> QED
  BY <1>5, <1>6, <1>7 DEF Agreed, s

LEMMA BypassAgrees == Agreed(HiddenRouteBypass)
<1> DEFINE s == HiddenRouteBypass
           commit == MakeCommit("commit-0002", "route.batch-replay", BaseAction, 12,
                                None, "idem-bypass")
           call == [entry |-> "unguarded", authorization |-> None, token |-> None,
                    commit |-> commit]
<1>1. s.calls = <<call>> /\ DOMAIN s.authorizations = {}
  BY DEF HiddenRouteBypass, Nothing
<1>2. call.entry = "unguarded" /\ call.commit.sink_id = SinkId
  BY ACommit DEF BaseAction
<1> HIDE DEF s, call
<1>3. \A i \in DOMAIN s.calls : s.calls[i] = call
  BY <1>1
<1> QED
  BY <1>1, <1>2, <1>3 DEF Agreed, s

LEMMA NoCallsAgree ==
    /\ Agreed(InternalDefect)
    /\ Agreed(InstrumentFailure)
<1>1. DOMAIN Nothing.calls = {}
  BY DEF Nothing
<1>2. InternalDefect.calls = Nothing.calls /\ InstrumentFailure.calls = Nothing.calls
  BY DEF InternalDefect, InstrumentFailure, Nothing
<1> QED
  BY <1>1, <1>2 DEF Agreed

\* No scenario hands the verifier another authorization than its calls present.
LEMMA ScenariosAgree == \A n \in DOMAIN Scenario : Agreed(Scenario[n])
<1>1. Agreed(GuardedValid)
  BY CompleteAgrees, ACommit DEF GuardedValid, GuardedCommit
<1>2. Agreed(HiddenRouteAuthorized)
  BY CompleteAgrees, ACommit DEF HiddenRouteAuthorized
<1>3. BaseAuthorization.max_uses = 1 /\ BaseAuthorization.sink_id = SinkId
  BY AnAuthorization DEF BaseAuthorization
<1>4. /\ Agreed(ExactActionMutation) /\ Agreed(WrongPrincipal) /\ Agreed(WrongRelease)
      /\ Agreed(WrongTenant) /\ Agreed(WrongSink)
  BY <1>3, RefusalAgrees
     DEF ExactActionMutation, WrongPrincipal, WrongRelease, WrongTenant, WrongSink
<1>5. Agreed(StaleAuthority) /\ Agreed(RevokedAuthority) /\ Agreed(InvalidDelegation)
  BY AnAuthorization, RefusalAgrees DEF StaleAuthority, RevokedAuthority, InvalidDelegation
<1> QED
  BY <1>1, <1>2, <1>4, <1>5, ReplayedAgrees, UnwitnessedAgrees, BypassAgrees, NoCallsAgree
     DEF Scenario

-----------------------------------------------------------------------------
(* The interlock and the verifier on one row                               *)

\* What was valid at the interlock has no mismatch for a verifier that knows less of
\* it, or the first use.
LEMMA NoMismatchLater ==
    ASSUME NEW a, a # None, a.max_uses \in Int, NEW c, NEW state, NEW secret,
           NEW token, NEW use \in Nat \ {0},
           IsValid(ValidateAuthorization(a, c, state, secret, use, token)),
           NEW known \in {None, token}, NEW count \in {None, 1}
    PROVE  Mismatches(ValidateAuthorization(a, c, state, secret, count, known)) = {}
<1> DEFINE before == Report(a, c, state, secret, use, token)
           later == Report(a, c, state, secret, count, known)
<1>1. /\ ValidateAuthorization(a, c, state, secret, use, token) = before
      /\ ValidateAuthorization(a, c, state, secret, count, known) = later
  BY DEF ValidateAuthorization
<1>2. DOMAIN before = DOMAIN later
  BY DEF Report
<1>3. /\ before.authorization_use_count =
            (IF use = None THEN Undetermined ELSE Check(use <= a.max_uses))
      /\ later.authorization_use_count =
            (IF count = None THEN Undetermined ELSE Check(count <= a.max_uses))
      /\ before.commit_authorization_correlation =
            (IF token = None THEN Undetermined ELSE Compare(Digest(a), token))
      /\ later.commit_authorization_correlation =
            (IF known = None THEN Undetermined ELSE Compare(Digest(a), known))
      /\ {"authorization_use_count", "commit_authorization_correlation"} \subseteq DOMAIN before
  BY DEF Report
<1>4. \A d \in DOMAIN before :
        d \notin {"authorization_use_count", "commit_authorization_correlation"} =>
            before[d] = later[d]
  <2>1. DOMAIN before =
         {"positive_decision", "tenant", "principal", "agent_identity",
          "release_identity", "exact_action_digest", "protected_sink",
          "idempotency_binding", "normalized_action_scope",
          "authorization_integrity", "validity_interval",
          "authority_state_at_commit", "revocation_state", "delegation_chain",
          "non_amplification",
          "authorization_use_count", "commit_authorization_correlation"}
    BY DEF Report
  <2>2. /\ before.positive_decision = later.positive_decision
        /\ before.tenant = later.tenant
        /\ before.principal = later.principal
        /\ before.agent_identity = later.agent_identity
        /\ before.release_identity = later.release_identity
        /\ before.exact_action_digest = later.exact_action_digest
        /\ before.protected_sink = later.protected_sink
        /\ before.idempotency_binding = later.idempotency_binding
        /\ before.normalized_action_scope = later.normalized_action_scope
        /\ before.authorization_integrity = later.authorization_integrity
        /\ before.validity_interval = later.validity_interval
        /\ before.authority_state_at_commit = later.authority_state_at_commit
        /\ before.revocation_state = later.revocation_state
        /\ before.delegation_chain = later.delegation_chain
        /\ before.non_amplification = later.non_amplification
    BY DEF Report
  <2> HIDE DEF before, later
  <2> QED
    BY <2>1, <2>2
<1> HIDE DEF before, later
<1>5. \A d \in DOMAIN before : before[d] # Mismatch /\ before[d] # Undetermined
  BY <1>1 DEF IsValid, Mismatches, UndeterminedDimensions
<1>6. Mismatch # Undetermined /\ Mismatch # Bound
  BY DEF Mismatch, Undetermined, Bound
<1>7. later.authorization_use_count # Mismatch
  <2>1. use <= a.max_uses
    BY <1>3, <1>5 DEF Check
  <2>2. 1 <= a.max_uses
    BY <2>1
  <2> QED
    BY <1>3, <1>6, <2>2 DEF Check
<1>8. later.commit_authorization_correlation # Mismatch
  BY <1>3, <1>5, <1>6
<1>9. \A d \in DOMAIN later : later[d] # Mismatch
  BY <1>2, <1>4, <1>5, <1>7, <1>8
<1> QED
  BY <1>1, <1>9 DEF Mismatches

LEMMA CallAgrees ==
    ASSUME NEW n \in ConsequenceNames, NEW k \in CallSet(n)
    PROVE  /\ k.entry \in {"submit", "unguarded", "lose receipts"}
           /\ k.entry = "submit" => Presented(Scenario[n], k)
           /\ k.entry = "unguarded" =>
                /\ k.commit.authorization_ref \notin DOMAIN Scenario[n].authorizations
                /\ k.commit.sink_id = SinkId
BY ScenariosAgree, CommandLineAssumption DEF CallSet, Agreed

LEMMA TheEvidence ==
    ASSUME NEW n, NEW evidence, evidence = EvidenceFrom(n, SinkState)
    PROVE  /\ evidence.protected_sink = SinkId
           /\ evidence.commits = {commits[i] : i \in DOMAIN commits}
           /\ evidence.receipts = {receipts[i] : i \in DOMAIN receipts}
           /\ evidence.authorizations = Scenario[n].authorizations
           /\ evidence.authority = Epochs
           /\ evidence.secret = IssuerSecret
           /\ evidence.correlated_token_digests = Scenario[n].tokens
           /\ evidence.use_counts = Scenario[n].use_counts
           /\ evidence.instrument_failures = Scenario[n].instrument
BY DEF EvidenceFrom, SinkState

LEMMA Outcomes ==
    /\ BoundaryFailure \notin {Unknown, NoCounterexample, HarnessFailure, IntegrationFailure,
                               InternalFailure}
    /\ NoCounterexample \notin {Unknown, HarnessFailure, IntegrationFailure, InternalFailure}
BY DEF BoundaryFailure, Unknown, NoCounterexample, HarnessFailure, IntegrationFailure,
       InternalFailure

LEMMA UsesAreNumbers ==
    ASSUME SinkInv, NEW a
    PROVE  UseCount(a) \in Nat
BY DEF SinkInv, SinkTypes, UseCount

\* The verifier convicts no row that the interlock let past.
LEMMA RowIsNotConvicted ==
    ASSUME SinkInv, NEW n \in ConsequenceNames, NEW k \in CallSet(n), NEW c, k.commit = c,
           BroughtPast(k, c)
    PROVE  /\ AdjudicateCommit(c, EvidenceFrom(n, SinkState)) # BoundaryFailure
           /\ c.sink_id = SinkId
<1> DEFINE evidence == EvidenceFrom(n, SinkState)
           a == k.authorization
           reference == c.authorization_ref
           state == At(Epochs, c.committed_at)
<1>1. /\ reference \in DOMAIN Scenario[n].authorizations
      /\ Scenario[n].authorizations[reference] = a
      /\ Get(Scenario[n].use_counts, reference) \in {None, 1}
      /\ Get(Scenario[n].tokens, c.commit_id) \in {None, k.token}
      /\ a.max_uses \in Int /\ a.sink_id = SinkId
  BY CallAgrees DEF BroughtPast, Presented
<1>2. PICK use \in 1..UseCount(a.authorization_id) :
        IsValid(ValidateAuthorization(a, c, state, IssuerSecret, use, k.token))
  BY DEF BroughtPast
<1>3. use \in Nat \ {0} /\ a # None
  BY <1>2, UsesAreNumbers DEF BroughtPast
<1>4. CommitReport(c, evidence) =
        ValidateAuthorization(a, c, state, IssuerSecret,
            Get(Scenario[n].use_counts, reference), Get(Scenario[n].tokens, c.commit_id))
  BY <1>1, TheEvidence DEF CommitReport, Get
<1>5. Mismatches(CommitReport(c, evidence)) = {}
  BY <1>1, <1>2, <1>3, <1>4, NoMismatchLater
<1>6. AdjudicateCommit(c, evidence) # BoundaryFailure
  BY <1>5, Outcomes DEF AdjudicateCommit
<1>7. c.sink_id = SinkId
  <2> DEFINE report == Report(a, c, state, IssuerSecret, use, k.token)
  <2>1. "protected_sink" \in DOMAIN report /\ report.protected_sink = Compare(a.sink_id, c.sink_id)
    BY DEF Report
  <2>2. IsValid(report)
    BY <1>2, <1>3 DEF ValidateAuthorization
  <2> HIDE DEF report
  <2>3. report.protected_sink # Mismatch /\ report.protected_sink # Undetermined
    BY <2>1, <2>2 DEF IsValid, Mismatches, UndeterminedDimensions
  <2> QED
    BY <1>1, <2>1, <2>3, CommandLineAssumption DEF Compare
<1> QED
  BY <1>6, <1>7

\* So a run without a bypass is no boundary failure.
LEMMA RunIsNotConvicted ==
    ASSUME SinkInv, NEW n \in ConsequenceNames, RowsOf(n), SubmitsOnly(n)
    PROVE  Adjudicate(EvidenceFrom(n, SinkState)) # BoundaryFailure
<1> DEFINE evidence == EvidenceFrom(n, SinkState)
<1>1. ASSUME NEW i \in DOMAIN commits
      PROVE  AdjudicateCommit(commits[i], evidence) # BoundaryFailure
  <2>1. PICK k \in CallSet(n) :
            k.commit = commits[i] /\ (k.entry = "unguarded" \/ BroughtPast(k, commits[i]))
    BY DEF RowsOf
  <2>2. k.entry # "unguarded"
    BY DEF SubmitsOnly
  <2> QED
    BY <2>1, <2>2, RowIsNotConvicted
<1>2. \A c \in Protected(evidence) : \E i \in DOMAIN commits : c = commits[i]
  BY TheEvidence DEF Protected
<1>3. BoundaryFailure \notin Findings(evidence)
  BY <1>1, <1>2 DEF Findings
<1> QED
  BY <1>3, Outcomes DEF Adjudicate

\* A clean finding was witnessed, and rests on an authorization and an epoch.
LEMMA CleanFinding ==
    ASSUME NEW c, NEW evidence, AdjudicateCommit(c, evidence) = NoCounterexample
    PROVE  /\ Witnessed(c, evidence)
           /\ Get(evidence.authorizations, c.authorization_ref) # None
           /\ At(evidence.authority, c.committed_at) # None
<1> DEFINE a == Get(evidence.authorizations, c.authorization_ref)
           state == At(evidence.authority, c.committed_at)
           use == Get(evidence.use_counts, c.authorization_ref)
           token == Get(evidence.correlated_token_digests, c.commit_id)
<1>1. Witnessed(c, evidence) /\ IsValid(CommitReport(c, evidence))
  BY Outcomes DEF AdjudicateCommit
<1>2. IsValid(ValidateAuthorization(a, c, state, evidence.secret, use, token))
  BY <1>1 DEF CommitReport
<1>3. a # None
  BY <1>2 DEF ValidateAuthorization, IsValid, Mismatches
<1>4. state # None
  <2> DEFINE report == Report(a, c, state, evidence.secret, use, token)
  <2>1. /\ "revocation_state" \in DOMAIN report
        /\ state = None => report.revocation_state = Undetermined
    BY DEF Report
  <2>2. IsValid(report)
    BY <1>2, <1>3 DEF ValidateAuthorization
  <2> HIDE DEF report
  <2> QED
    BY <2>1, <2>2 DEF IsValid, UndeterminedDimensions
<1> QED
  BY <1>1, <1>3, <1>4

\* A clean run has every edge of every row.
LEMMA CleanRunIsComplete ==
    ASSUME SinkInv, NEW n \in ConsequenceNames, RowsOf(n),
           Adjudicate(EvidenceFrom(n, SinkState)) = NoCounterexample,
           NEW i \in DOMAIN commits
    PROVE  MissingEdges(NodesOf(commits[i], n, SinkState)) = {}
<1> DEFINE evidence == EvidenceFrom(n, SinkState)
           c == commits[i]
<1>1. /\ evidence.instrument_failures = {}
      /\ BoundaryFailure \notin Findings(evidence) /\ Unknown \notin Findings(evidence)
  BY Outcomes DEF Adjudicate
<1>2. PICK k \in CallSet(n) :
        /\ k.commit = c
        /\ k.entry = "unguarded" \/ (BroughtPast(k, c) /\ interlock_log # <<>>)
  BY DEF RowsOf
<1>3. c.sink_id = SinkId
  BY <1>2, CallAgrees, RowIsNotConvicted
<1>4. AdjudicateCommit(c, evidence) = NoCounterexample
  <2>1. c \in Protected(evidence)
    BY <1>3, TheEvidence DEF Protected
  <2>2. AdjudicateCommit(c, evidence) \in Findings(evidence)
    BY <2>1 DEF Findings
  <2>3. AdjudicateCommit(c, evidence) \in {Unknown, NoCounterexample, BoundaryFailure}
    BY DEF AdjudicateCommit
  <2> QED
    BY <1>1, <2>2, <2>3
<1>5. /\ Witnessed(c, evidence)
      /\ Get(Scenario[n].authorizations, c.authorization_ref) # None
      /\ At(Epochs, c.committed_at) # None
  BY <1>4, CleanFinding, TheEvidence
<1>6. k.entry # "unguarded"
  BY <1>2, <1>5, CallAgrees DEF Get
<1>7. interlock_log # <<>>
  BY <1>2, <1>6
<1>8. \E j \in DOMAIN receipts : receipts[j].commit_id = c.commit_id
  BY <1>5, TheEvidence DEF Witnessed
<1>9. Scenario[n].instrument = {}
  BY <1>1, TheEvidence
<1>10. {"agent", "principal", "route", "attempted_action", "authorization_decision",
        "authorization_artifact", "authority_state_at_issue", "authority_state_at_commit",
        "sink_decision", "committed_consequence", "independent_receipt", "verifier_trace",
        "disposition"} \subseteq NodesOf(c, n, SinkState)
  BY <1>3, <1>5, <1>7, <1>8, <1>9 DEF NodesOf, Always, Authorized, SinkState
<1>11. DOMAIN ChainNodes = 1..13 /\ Len(ChainNodes) = 13
       /\ \A j \in 1..13 : ChainNodes[j] \in
            {"agent", "principal", "route", "attempted_action", "authorization_decision",
             "authorization_artifact", "authority_state_at_issue", "authority_state_at_commit",
             "sink_decision", "committed_consequence", "independent_receipt",
             "verifier_trace", "disposition"}
  BY DEF ChainNodes
<1>12. \A j \in 1..12 : ChainNodes[j] \in NodesOf(c, n, SinkState) /\ ChainNodes[j + 1] \in NodesOf(c, n, SinkState)
  BY <1>10, <1>11
<1> QED
  BY <1>11, <1>12 DEF MissingEdges

-----------------------------------------------------------------------------
(* The rows of a run, call by call                                         *)

\* A row that was brought past the interlock stays so, when no use is taken back.
LEMMA BroughtLasts ==
    ASSUME NEW k, NEW c, BroughtPast(k, c),
           \A a : UseCount(a) \in Nat /\ UseCount(a)' \in Nat /\ UseCount(a) <= UseCount(a)'
    PROVE  BroughtPast(k, c)'
<1>1. PICK use \in 1..UseCount(k.authorization.authorization_id) :
        IsValid(ValidateAuthorization(k.authorization, c, At(Epochs, c.committed_at),
                                      IssuerSecret, use, k.token))
  BY DEF BroughtPast
<1>2. use \in 1..UseCount(k.authorization.authorization_id)'
  <2> DEFINE u == UseCount(k.authorization.authorization_id)
  <2>1. u \in Nat /\ u' \in Nat /\ u <= u'
    OBVIOUS
  <2> QED
    BY <1>1, <2>1
<1> QED
  BY <1>1, <1>2 DEF BroughtPast, ValidateAuthorization, IsValid, Mismatches,
                    UndeterminedDimensions

\* The rows stay those of the scenario when a call of it adds a row it may add.
LEMMA RowsAppended ==
    ASSUME SinkInv, NEW n, RowsOf(n), NEW k \in CallSet(n),
           commits' = Append(commits, k.commit),
           \A a : UseCount(a) \in Nat /\ UseCount(a)' \in Nat /\ UseCount(a) <= UseCount(a)',
           interlock_log # <<>> => interlock_log' # <<>>,
           k.entry = "unguarded" \/ (BroughtPast(k, k.commit)' /\ interlock_log' # <<>>)
    PROVE  RowsOf(n)'
<1> DEFINE Rows == {l.commit : l \in Submissions \cup Bypasses}
           len == Len(commits)
<1>1. commits \in Seq(Rows)
  BY DEF SinkInv, SinkTypes, Calls
<1>2. /\ len \in Nat /\ DOMAIN commits = 1..len
      /\ DOMAIN commits' = 1..(len + 1)
      /\ commits'[len + 1] = k.commit
      /\ \A i \in 1..len : commits'[i] = commits[i]
  BY <1>1
<1> SUFFICES ASSUME NEW i \in DOMAIN commits', NEW row, row = commits'[i]
             PROVE  \E l \in CallSet(n) :
                        /\ l.commit = row
                        /\ l.entry = "unguarded"
                              \/ (BroughtPast(l, row)' /\ interlock_log' # <<>>)
  BY DEF RowsOf, BroughtPast
<1>3. CASE i = len + 1
  BY <1>2, <1>3
<1>4. CASE i \in 1..len
  <2>1. row = commits[i] /\ i \in DOMAIN commits
    BY <1>2, <1>4
  <2>2. PICK l \in CallSet(n) :
            /\ l.commit = row
            /\ l.entry = "unguarded" \/ (BroughtPast(l, row) /\ interlock_log # <<>>)
    BY <2>1 DEF RowsOf
  <2> QED
    BY <2>2, BroughtLasts
<1> QED
  BY <1>2, <1>3, <1>4

\* A step that touches neither rows nor uses, and forgets no decision.
LEMMA RowsKept ==
    ASSUME NEW n, RowsOf(n), UNCHANGED <<commits, uses>>,
           interlock_log # <<>> => interlock_log' # <<>>
    PROVE  RowsOf(n)'
BY DEF RowsOf, BroughtPast, UseCount

\* A decision more.
LEMMA Decides ==
    ASSUME interlock_log \in Seq(Decided), NEW d \in Decided,
           interlock_log' = Append(interlock_log, d)
    PROVE  interlock_log' \in Seq(Decided) /\ interlock_log' # <<>>
OBVIOUS

LEMMA CallKeepsRows ==
    ASSUME SinkInv, interlock_log \in Seq(Decided), NEW n, RowsOf(n), NEW k \in CallSet(n),
           SubmitStep(k) \/ UnguardedStep(k) \/ LoseReceipts(k)
    PROVE  interlock_log' \in Seq(Decided) /\ RowsOf(n)'
<1>1. CASE LoseReceipts(k)
  BY <1>1, RowsKept DEF LoseReceipts
<1>2. CASE UnguardedStep(k)
  <2>1. /\ k.entry = "unguarded" /\ commits' = Append(commits, k.commit)
        /\ interlock_log' = interlock_log /\ uses' = uses
    BY <1>2 DEF UnguardedStep, CommitUnguarded, SinkCommit
  <2>2. \A a : UseCount(a) \in Nat
    BY UsesAreNumbers
  <2>3. \A a : UseCount(a)' = UseCount(a)
    BY <2>1 DEF UseCount
  <2>4. \A a : UseCount(a) \in Nat /\ UseCount(a)' \in Nat /\ UseCount(a) <= UseCount(a)'
    BY <2>2, <2>3
  <2> QED
    BY <2>1, <2>4, RowsAppended
<1>3. ASSUME NEW reason, Refused(reason) \in Decided, Refuse(k.commit, reason)
      PROVE  interlock_log' \in Seq(Decided) /\ RowsOf(n)'
  BY <1>3, Decides, RowsKept DEF Refuse
<1>4. ASSUME k.entry = "submit", Admit(k.commit, k.authorization, k.token)
      PROVE  interlock_log' \in Seq(Decided) /\ RowsOf(n)'
  <2> DEFINE c == k.commit
             id == k.authorization.authorization_id
  <2>1. /\ IsValid(InterlockReport(c, k.authorization, k.token))
        /\ RecordUse(id)
        /\ interlock_log' = Append(interlock_log, Admitted("ALL_BINDINGS_SATISFIED"))
        /\ commits' = Append(commits, c)
    BY <1>4 DEF Admit, SinkCommit
  <2>2. /\ \A a : UseCount(a) \in Nat /\ UseCount(a)' \in Nat /\ UseCount(a) <= UseCount(a)'
        /\ UseCount(id)' = UseCount(id) + 1
    BY <2>1, UsesGrow DEF SinkInv
  <2>3. k.authorization # None
    BY <2>1, NothingIsNotValid DEF InterlockReport
  <2>4. IsValid(ValidateAuthorization(k.authorization, c, At(Epochs, c.committed_at),
                                      IssuerSecret, UseCount(id) + 1, k.token))
    BY <2>1, <2>3 DEF InterlockReport
  <2>5. UseCount(id) + 1 \in 1..UseCount(id)'
    BY <2>2
  <2>6. BroughtPast(k, c)'
    BY <1>4, <2>3, <2>4, <2>5 DEF BroughtPast
  <2>7. interlock_log' \in Seq(Decided) /\ interlock_log' # <<>>
    BY <2>1, Decides DEF Decided
  <2> HIDE DEF c, id
  <2> QED
    BY <2>1, <2>2, <2>6, <2>7, RowsAppended DEF c
<1> QED
  BY <1>1, <1>2, <1>3, <1>4
     DEF SubmitStep, Submit, RefuseReplay, RefuseUnbound, Decided

-----------------------------------------------------------------------------
(* The sink of a command is that of its scenario                           *)

\* A process, and nothing else, has a sink.
LEMMA SameJobRuns ==
    ASSUME RunInv, UNCHANGED <<job, sinkVars>>
    PROVE  RunInv'
<1>1. UNCHANGED <<commits, uses, interlock_log, job>>
  BY DEF sinkVars, ledgerVars
<1>2. \A n : RowsOf(n) => RowsOf(n)'
  BY <1>1, RowsKept
<1> QED
  BY <1>1, <1>2 DEF RunInv, Consequence

LEMMA NoJobRuns ==
    ASSUME job' = None, commits' = <<>>, interlock_log' \in Seq(Decided)
    PROVE  RunInv'
BY DEF RunInv, Consequence

LEMMA DroppedRuns ==
    ASSUME job' = None, DropSink
    PROVE  RunInv'
BY NoJobRuns DEF DropSink

\* A step on the directory leaves command, calls and sink alone.
LEMMA TodoRuns ==
    ASSUME RunInv, Working, job.todo # <<>>, job' = [job EXCEPT !.todo = Tail(@)],
           UNCHANGED sinkVars
    PROVE  RunInv'
<1>1. job \in Jobs /\ job # None
  BY DEF RunInv, Working
<1>2. job' \in Jobs
  <2>1. Tail(job.todo) \in Seq(Ops)
    BY <1>1 DEF Jobs
  <2> QED
    BY <1>1, <2>1 DEF Jobs
<1>3. job' # None
  BY <1>2, NoneIsNoRecord
<1>4. job'.command = job.command /\ job'.arg = job.arg /\ job'.calls = job.calls
  BY <1>1 DEF Jobs
<1>5. UNCHANGED <<commits, uses, interlock_log>>
  BY DEF sinkVars, ledgerVars
<1>6. \A n : RowsOf(n) => RowsOf(n)'
  BY <1>5, RowsKept
<1>7. Consequence' <=> Consequence
  BY <1>1, <1>3, <1>4 DEF Consequence
<1> QED
  BY <1>1, <1>2, <1>3, <1>4, <1>5, <1>6, <1>7 DEF RunInv

LEMMA PutRuns ==
    ASSUME RunInv, NEW op, Due(op), NEW name, NEW doc, PutFile(name, doc)
    PROVE  RunInv'
BY TodoRuns DEF PutFile, Due

\* A job begins with an empty sink and, if it is to have one, with its calls.
LEMMA StartRuns ==
    ASSUME RunInv, NEW command \in {"run", "demo", "dryrun", "replay"} \cup ConsequenceCommands,
           NEW calls, NEW arg \in Runs \cup ConsequenceNames \cup {None},
           NEW todo \in Seq(Ops), NEW code \in ExitCodes,
           StartJob(command, calls, arg, todo, code),
           IF command \in ConsequenceCommands
           THEN arg \in ConsequenceNames /\ calls = Scenario[arg].calls
           ELSE calls = <<>>
    PROVE  RunInv' /\ job' # None
<1>1. commits = <<>> /\ interlock_log \in Seq(Decided)
  BY DEF RunInv, Consequence, StartJob, Begin, Idle
<1>2. /\ job' = [command |-> command, calls |-> calls, arg |-> arg, todo |-> todo, code |-> code]
      /\ commits' = <<>> /\ interlock_log' \in Seq(Decided)
  BY <1>1 DEF StartJob, sinkVars, ledgerVars
<1>3. ASSUME command \in ConsequenceCommands
      PROVE  calls \in Seq(KnownCalls) /\ calls \in Seq(CallSet(arg))
  <2>1. calls \in Seq(KnownCalls)
    BY <1>3, CommandLineAssumption
  <2>2. \A i \in DOMAIN calls : calls[i] \in CallSet(arg)
    BY <1>3 DEF CallSet
  <2> QED
    BY <2>1, <2>2
<1>4. calls \in Seq(KnownCalls)
  <2>1. <<>> \in Seq(KnownCalls)
    OBVIOUS
  <2> QED
    BY <1>3, <2>1
<1>5. job' \in Jobs
  BY <1>2, <1>4 DEF Jobs
<1>6. job' # None
  BY <1>5, NoneIsNoRecord
<1>7. RowsOf(arg)'
  BY <1>2 DEF RowsOf
<1>8. job'.command = command /\ job'.arg = arg /\ job'.calls = calls
  BY <1>2
<1> QED
  BY <1>2, <1>3, <1>5, <1>6, <1>7, <1>8 DEF RunInv, Consequence

LEMMA AnswerRuns ==
    ASSUME RunInv, NEW command, NEW code, Answer(command, code)
    PROVE  RunInv'
<1>1. job = None /\ job' = None /\ UNCHANGED sinkVars
  BY DEF Answer, Exit, Begin, Idle
<1> QED
  BY <1>1, SameJobRuns

\* The jobs of RB-001 have no calls.
LEMMA RunJobRuns ==
    ASSUME RunInv, NEW command \in {"run", "demo", "dryrun"}, NEW path \in Paths, path # Absent,
           NEW a \in {"grid", "scripted"}, NEW todo \in Seq(Ops), NEW code \in ExitCodes,
           StartJob(command, <<>>, <<path, a>>, todo, code)
    PROVE  RunInv'
<1>1. <<path, a>> \in Runs
  BY DEF Paths, Runs
<1> QED
  BY <1>1, StartRuns DEF ConsequenceCommands

LEMMA CommandRuns == RunInv /\ Command => RunInv'
<1> SUFFICES ASSUME RunInv, Command PROVE RunInv'
  OBVIOUS
<1>0. /\ WriteRun \in Seq(Ops)
      /\ (WriteRun \o <<ReportOp>>) \in Seq(Ops)
      /\ (WriteRun \o <<ReplayOp, WriteOp(Notice)>>
          \o [i \in DOMAIN JsonFiles |-> StripOp(JsonFiles[i])] \o <<SealOp, SealOp>>) \in Seq(Ops)
  BY WriteRunWritesAll, DryRunWritesAll, DemoWritesAll DEF WritesAll
<1>c. /\ \A path : RunCode(path) \in ExitCodes
      /\ \A ok : DryRunCode(ok) \in ExitCodes
      /\ Traceback \in ExitCodes /\ 0 \in ExitCodes
  BY DEF RunCode, DryRunCode, Traceback, ExitCodes
<1>1. ASSUME NEW path \in Paths, Run(path) PROVE RunInv'
  BY <1>0, <1>c, <1>1, AnswerRuns, RunJobRuns DEF Run
<1>2. ASSUME NEW path \in Paths, Demo(path) PROVE RunInv'
  BY <1>0, <1>c, <1>2, AnswerRuns, RunJobRuns DEF Demo
<1>3. ASSUME NEW vuln \in Paths, NEW control \in Paths, DryRun(vuln, control) PROVE RunInv'
  BY <1>0, <1>c, <1>3, AnswerRuns, RunJobRuns DEF DryRun
<1>4. CASE VerifyDirectory
  BY <1>4, AnswerRuns DEF VerifyDirectory
<1>5. ASSUME NEW name, VerifyFile(name) PROVE RunInv'
  BY <1>5, AnswerRuns DEF VerifyFile
<1>6. ASSUME NEW write \in BOOLEAN, Replay(write) PROVE RunInv'
  <2>1. ReplayOp \in Ops /\ SealOp \in Ops
    BY DEF Ops
  <2>2. <<ReplayOp, SealOp>> \in Seq(Ops)
    BY <2>1
  <2>3. ReplayCode \in ExitCodes
    BY DEF ReplayCode, ExitCodes
  <2> QED
    BY <1>6, <2>2, <2>3, AnswerRuns, StartRuns DEF Replay, ConsequenceCommands
<1>7. CASE Inspect
  BY <1>7, AnswerRuns DEF Inspect
<1>8. ASSUME NEW n \in ConsequenceNames, NEW out \in BOOLEAN, RunConsequence(n, out)
      PROVE  RunInv'
  <2> DEFINE todo == IF out THEN <<WriteOp(PackageFile)>> ELSE <<>>
  <2>1. todo \in Seq(Ops)
    BY PackageTodo
  <2>2. StartJob("consequence run", Scenario[n].calls, n, todo, 0)
    BY <1>8 DEF RunConsequence
  <2>3. "consequence run" \in ConsequenceCommands /\ 0 \in ExitCodes
    BY <1>c DEF ConsequenceCommands
  <2> HIDE DEF todo
  <2> QED
    BY <2>1, <2>2, <2>3, StartRuns
<1>9. CASE VerifyConsequence
  BY <1>9, AnswerRuns DEF VerifyConsequence
<1>10. CASE ReplayConsequence
  <2>1. <<>> \in Seq(Ops) /\ 0 \in ExitCodes /\ "consequence replay" \in ConsequenceCommands
    BY <1>c DEF ConsequenceCommands
  <2>2. ASSUME NEW n \in ConsequenceNames,
               StartJob("consequence replay", Scenario[n].calls, n, <<>>, 0)
        PROVE  RunInv'
    BY <2>1, <2>2, StartRuns
  <2> QED
    BY <1>10, <2>2, AnswerRuns DEF ReplayConsequence
<1>11. CASE InspectPaths
  BY <1>11, AnswerRuns DEF InspectPaths
<1> QED
  BY <1>1, <1>2, <1>3, <1>4, <1>5, <1>6, <1>7, <1>8, <1>9, <1>10, <1>11 DEF Command

LEMMA SinkCallRuns == SinkInv /\ RunInv /\ SinkCall => RunInv'
<1> SUFFICES ASSUME SinkInv, RunInv, SinkCall PROVE RunInv'
  OBVIOUS
<1>1. /\ job \in Jobs /\ job # None /\ job.calls # <<>>
      /\ job' = [job EXCEPT !.calls = Tail(@)]
  BY DEF SinkCall, RunInv, Working
<1>2. Consequence
  BY <1>1 DEF RunInv
<1>n. PICK n : n = job.arg
  OBVIOUS
<1> DEFINE k == Head(job.calls)
<1>3. /\ n \in ConsequenceNames /\ job.calls \in Seq(CallSet(n)) /\ RowsOf(n)
      /\ interlock_log \in Seq(Decided)
  BY <1>2, <1>n DEF RunInv
<1>4. k \in CallSet(n) /\ Tail(job.calls) \in Seq(CallSet(n))
  BY <1>1, <1>3, HeadTailProperties
<1>5. Tail(job.calls) \in Seq(KnownCalls)
  BY <1>1 DEF Jobs
<1>6. SubmitStep(k) \/ UnguardedStep(k) \/ LoseReceipts(k)
  BY DEF SinkCall
<1>7. interlock_log' \in Seq(Decided) /\ RowsOf(n)'
  <2> HIDE DEF k
  <2> QED
    BY <1>3, <1>4, <1>6, CallKeepsRows
<1>8. job' \in Jobs /\ job' # None
  BY <1>1, <1>5, NoneIsNoRecord DEF Jobs
<1>9. job'.command = job.command /\ job'.arg = n /\ job'.calls = Tail(job.calls)
  BY <1>1, <1>n DEF Jobs
<1> QED
  BY <1>2, <1>3, <1>4, <1>7, <1>8, <1>9 DEF RunInv, Consequence

\* The only operation of a consequence job is the write of its package.
LEMMA OnlyWritesItsPackage ==
    ASSUME JobInv, Working, job.todo # <<>>, job.command \in ConsequenceCommands
    PROVE  Head(job.todo) = WriteOp(PackageFile)
<1>1. \A k \in DOMAIN job.todo : job.todo[k] = WriteOp(PackageFile)
  BY TheJob DEF WritesPackage, ConsequenceCommands
<1> QED
  BY <1>1, TheHead DEF Left

LEMMA StripsNoPackage ==
    ASSUME JobInv, Due("strip")
    PROVE  job.command \notin ConsequenceCommands
BY OnlyWritesItsPackage, Operations DEF Due

LEMMA RunInvStep == SinkInv /\ JobInv /\ RunInv /\ [Next]_vars => RunInv'
<1> SUFFICES ASSUME SinkInv, JobInv, RunInv, [Next]_vars PROVE RunInv'
  OBVIOUS
<1>1. CASE Idle /\ Command
  BY <1>1, CommandRuns
<1>2. CASE SinkCall
  BY <1>2, SinkCallRuns
<1>3. CASE WriteFile \/ Seal \/ WriteReplay \/ WriteReport
  BY <1>3, PutRuns DEF WriteFile, Seal, WriteReplay, WriteReport
<1>4. CASE StripFile
  <2>1. Due("strip") /\ Working /\ job.todo # <<>>
    BY <1>4 DEF StripFile, Due
  <2>2. ASSUME NEW name, NEW doc, PutFile(name, doc) PROVE RunInv'
    BY <2>1, <2>2, PutRuns
  <2>3. ASSUME job' = [job EXCEPT !.todo = Tail(@)], UNCHANGED sinkVars PROVE RunInv'
    BY <2>1, <2>3, TodoRuns
  <2>4. ASSUME NEW code, Exit(job.command, code), UNCHANGED sinkVars PROVE RunInv'
    <3>1. ~ Consequence
      BY <2>1, StripsNoPackage DEF Consequence
    <3> QED
      BY <2>4, <3>1, NoJobRuns DEF RunInv, Exit, sinkVars, ledgerVars
  <2> QED
    BY <1>4, <2>2, <2>3, <2>4 DEF StripFile
<1>5. CASE End
  BY <1>5, DroppedRuns DEF End, Exit
<1>6. CASE Kill
  BY <1>6, DroppedRuns DEF Kill
<1>7. ASSUME NEW name \in DOMAIN files, Damage(name) PROVE RunInv'
  BY <1>7, SameJobRuns DEF Damage
<1>8. CASE UNCHANGED vars
  BY <1>8, SameJobRuns DEF vars, cliVars
<1> QED
  BY <1>1, <1>2, <1>3, <1>4, <1>5, <1>6, <1>7, <1>8 DEF Next

-----------------------------------------------------------------------------
(* The package                                                             *)

\* What the package of a run is, whatever the run was.
LEMMA PackageFields ==
    ASSUME NEW n
    PROVE  /\ DOMAIN Package(n, SinkState) = {"scenario", "sink", "verdict", "path_reconciliation",
                                   "graphs", "evidence_digest"}
           /\ Package(n, SinkState).scenario = n
           /\ Package(n, SinkState).verdict = Adjudicate(EvidenceFrom(n, SinkState))
           /\ Package(n, SinkState).evidence_digest.digest_of = PackageBody(n, SinkState)
           /\ PackageBody(n, SinkState).verdict = Adjudicate(EvidenceFrom(n, SinkState))
           /\ DOMAIN PackageBody(n, SinkState).graphs = DOMAIN commits
           /\ \A i \in DOMAIN commits :
                PackageBody(n, SinkState).graphs[i].missing_edges = MissingEdges(NodesOf(commits[i], n, SinkState))
<1> DEFINE body == PackageBody(n, SinkState)
<1>1. /\ DOMAIN body = {"scenario", "sink", "verdict", "path_reconciliation", "graphs"}
      /\ body.scenario = n
      /\ body.verdict = Adjudicate(EvidenceFrom(n, SinkState))
      /\ body.graphs = [i \in DOMAIN commits |-> GraphOf(commits[i], n, SinkState)]
  BY DEF PackageBody, SinkState
<1> HIDE DEF body
<1>2. Package(n, SinkState) =
        [f \in DOMAIN body \cup {"evidence_digest"} |->
            IF f = "evidence_digest" THEN Digest(body) ELSE body[f]]
  BY DEF Package, body
<1>3. /\ DOMAIN Package(n, SinkState) = {"scenario", "sink", "verdict", "path_reconciliation", "graphs",
                              "evidence_digest"}
      /\ Package(n, SinkState).scenario = body.scenario /\ Package(n, SinkState).verdict = body.verdict
      /\ Package(n, SinkState).evidence_digest = Digest(body)
  BY <1>1, <1>2
<1>4. \A i \in DOMAIN commits :
        GraphOf(commits[i], n, SinkState).missing_edges = MissingEdges(NodesOf(commits[i], n, SinkState))
  BY DEF GraphOf
<1>5. Digest(body).digest_of = body
  BY DEF Digest
<1> QED
  BY <1>1, <1>3, <1>4, <1>5 DEF body

LEMMA RunIsSound ==
    ASSUME SinkInv, NEW n \in ConsequenceNames, RowsOf(n)
    PROVE  Sound(Package(n, SinkState))
<1> DEFINE package == Package(n, SinkState)
           body == PackageBody(n, SinkState)
<1>1. /\ DOMAIN package = {"scenario", "sink", "verdict", "path_reconciliation", "graphs",
                           "evidence_digest"}
      /\ package.scenario = n /\ package.verdict = Adjudicate(EvidenceFrom(n, SinkState))
      /\ package.evidence_digest.digest_of = body
      /\ body.verdict = Adjudicate(EvidenceFrom(n, SinkState))
      /\ DOMAIN body.graphs = DOMAIN commits
      /\ \A i \in DOMAIN commits :
            body.graphs[i].missing_edges = MissingEdges(NodesOf(commits[i], n, SinkState))
  BY PackageFields
<1> HIDE DEF package, body
<1>2. SubmitsOnly(n) => package.verdict # BoundaryFailure
  BY <1>1, RunIsNotConvicted
<1>3. body.verdict = NoCounterexample =>
        \A i \in DOMAIN body.graphs : body.graphs[i].missing_edges = {}
  BY <1>1, CleanRunIsComplete
<1> QED
  BY <1>1, <1>2, <1>3 DEF Sound, package

\* Only a consequence job writes a package, and it writes that of its run.
LEMMA PackageIsOfItsRun ==
    ASSUME JobInv, RunInv, Due("write"), Head(job.todo) = WriteOp(PackageFile)
    PROVE  job.arg \in ConsequenceNames /\ RowsOf(job.arg)
<1>1. Working /\ job.todo # <<>>
  BY DEF Due
<1>2. Left(WriteOp(PackageFile), job.todo)
  BY <1>1, TheHead
<1>3. job.command \notin {"run", "demo", "dryrun"}
  BY <1>1, <1>2, TheJob DEF WritesRun
<1>4. job.command # "replay"
  BY <1>1, NotAReplay, Operations
<1>5. Consequence
  BY <1>1, <1>3, <1>4 DEF JobInv, Working, Consequence, ConsequenceCommands
<1> QED
  BY <1>5 DEF RunInv

\* A package that is not touched, or not there, stays sound.
LEMMA PackageKept ==
    ASSUME PackageInv, SameFile(PackageFile) \/ Unreadable(PackageFile)'
    PROVE  PackageInv'
BY DEF PackageInv, SameFile, Unreadable

LEMMA PutKeepsPackage ==
    ASSUME PackageInv, NEW name, name # PackageFile, NEW doc, PutFile(name, doc)
    PROVE  PackageInv'
BY PackageKept, OtherFiles DEF PutFile

LEMMA WriteFilePackage ==
    ASSUME SinkInv, JobInv, RunInv, PackageInv, WriteFile
    PROVE  PackageInv'
<1>1. Due("write")
  BY DEF WriteFile
<1>2. PICK name \in RunNames \cup {Notice, PackageFile} :
        Head(job.todo) = WriteOp(name) /\ Head(job.todo).name = name
  BY <1>1, TheWriter
<1>3. PutFile(name, DocumentFor(name))
  BY <1>2 DEF WriteFile
<1>4. CASE name # PackageFile
  BY <1>3, <1>4, PutKeepsPackage
<1>5. CASE name = PackageFile
  <2>1. job.arg \in ConsequenceNames /\ RowsOf(job.arg)
    BY <1>1, <1>2, <1>5, PackageIsOfItsRun
  <2>2. files'[PackageFile] = Package(job.arg, SinkState)
    <3>1. DocumentFor(PackageFile) = Package(job.arg, SinkState)
      BY NamesApart DEF DocumentFor
    <3>2. files' = With(PackageFile, DocumentFor(PackageFile))
      BY <1>3, <1>5 DEF PutFile
    <3> QED
      BY <3>1, <3>2, OtherFiles
  <2>3. PICK package : package = files'[PackageFile]
    OBVIOUS
  <2>4. Sound(package)
    BY <2>1, <2>2, <2>3, RunIsSound
  <2> QED
    BY <2>3, <2>4 DEF PackageInv, Sound
<1> QED
  BY <1>4, <1>5

\* No name but its own is that of the package.
LEMMA PackageName ==
    PackageFile \notin {Sums, ReplayFile, ReportFile}
BY DEF PackageFile, Sums, ReplayFile, ReportFile

\* Stripping finds no runtime in a package.
LEMMA StripFilePackage ==
    ASSUME PackageInv, StripFile
    PROVE  PackageInv'
<1>1. CASE files' = files
  BY <1>1, PackageKept DEF SameFile
<1>2. CASE files' # files
  <2> DEFINE name == Head(job.todo).name
  <2>1. /\ name \in DOMAIN files /\ files[name] # Torn /\ "runtime" \in DOMAIN files[name]
        /\ PutFile(name, Strip(files[name]))
    BY <1>2 DEF StripFile
  <2>2. name # PackageFile
    BY <2>1 DEF PackageInv, Unreadable, Sound
  <2> QED
    BY <2>1, <2>2, PutKeepsPackage
<1> QED
  BY <1>1, <1>2

\* A verdict can be turned to clean, not to a failure, and another scenario is none.
LEMMA DamagePackage ==
    ASSUME PackageInv, NEW name \in DOMAIN files, Damage(name)
    PROVE  PackageInv'
<1>1. CASE name # PackageFile
  BY <1>1, PackageKept DEF Damage, SameFile
<1>2. CASE name = PackageFile /\ Unreadable(PackageFile)'
  BY <1>2, PackageKept
<1>3. CASE name = PackageFile /\ ~ Unreadable(PackageFile)'
  <2>1. PICK old : old = files[PackageFile]
    OBVIOUS
  <2>2. PICK new : new = files'[PackageFile]
    OBVIOUS
  <2>3. /\ new \in Replacements(PackageFile) /\ new # Torn
    BY <1>3, <2>2 DEF Damage, Unreadable
  <2>4. old # Torn
    BY <2>1, <2>3, NamesApart, TheRunNames DEF Replacements
  <2>5. Sound(old)
    BY <1>3, <2>1, <2>4 DEF PackageInv, Unreadable
  <2>6. \/ new = [old EXCEPT !.verdict = NoCounterexample]
        \/ new = [old EXCEPT !.scenario = "no scenario"]
    BY <2>1, <2>3, NamesApart, TheRunNames DEF Replacements
  <2>7. /\ DOMAIN old = {"scenario", "sink", "verdict", "path_reconciliation", "graphs",
                         "evidence_digest"}
        /\ DOMAIN new = DOMAIN old /\ new.evidence_digest = old.evidence_digest
    BY <2>5, <2>6 DEF Sound
  <2>8. new.scenario \in ConsequenceNames /\ SubmitsOnly(new.scenario)
            => new.verdict # BoundaryFailure
    <3>1. CASE new = [old EXCEPT !.verdict = NoCounterexample]
      BY <2>7, <3>1, Outcomes
    <3>2. CASE new = [old EXCEPT !.scenario = "no scenario"]
      <4>1. "no scenario" \notin DOMAIN Scenario
        BY DEF Scenario
      <4> QED
        BY <2>7, <3>2, <4>1, CommandLineAssumption
    <3> QED
      BY <2>6, <3>1, <3>2
  <2>9. Sound(new)
    BY <2>5, <2>7, <2>8 DEF Sound
  <2> QED
    BY <2>2, <2>9 DEF PackageInv, Sound
<1> QED
  BY <1>1, <1>2, <1>3

LEMMA PackageInvStep ==
    SinkInv /\ JobInv /\ RunInv /\ PackageInv /\ [Next]_vars => PackageInv'
<1> SUFFICES ASSUME SinkInv, JobInv, RunInv, PackageInv, [Next]_vars PROVE PackageInv'
  OBVIOUS
<1>0. ASSUME files' = files PROVE PackageInv'
  BY <1>0, PackageKept DEF SameFile
<1>1. CASE Command
  BY <1>0, <1>1 DEF Command, Run, Demo, DryRun, VerifyDirectory, VerifyFile, Replay, Inspect,
     RunConsequence, VerifyConsequence, ReplayConsequence, InspectPaths, Answer, StartJob
<1>2. CASE SinkCall \/ End \/ UNCHANGED vars
  BY <1>0, <1>2 DEF SinkCall, End, vars, cliVars
<1>3. CASE WriteFile
  BY <1>3, WriteFilePackage
<1>4. CASE Seal \/ WriteReplay \/ WriteReport
  BY <1>4, PackageName, PutKeepsPackage DEF Seal, WriteReplay, WriteReport
<1>5. CASE StripFile
  BY <1>5, StripFilePackage
<1>6. CASE Kill
  <2>1. CASE files' = files
    BY <1>0, <2>1
  <2>2. CASE files' # files
    <3>1. PICK name : files' = With(name, Torn)
      BY <1>6, <2>2 DEF Kill
    <3> QED
      BY <3>1, OtherFiles, PackageKept DEF Unreadable
  <2> QED
    BY <2>1, <2>2
<1>7. ASSUME NEW name \in DOMAIN files, Damage(name) PROVE PackageInv'
  BY <1>7, DamagePackage
<1> QED
  BY <1>1, <1>2, <1>3, <1>4, <1>5, <1>6, <1>7 DEF Next

LEMMA AgreementInvInit == Init => AgreementInv
<1> SUFFICES ASSUME Init PROVE AgreementInv
  OBVIOUS
<1>1. job = None /\ commits = <<>> /\ interlock_log = <<>> /\ DOMAIN files = {}
  BY DEF Init, NewSink
<1>2. interlock_log \in Seq(Decided)
  BY <1>1
<1>3. RunInv
  BY <1>1, <1>2 DEF RunInv, Consequence
<1> QED
  BY <1>1, <1>3 DEF AgreementInv, PackageInv, Unreadable

\* A verified package is what its digest covers.
LEMMA AgreementImplies ==
    AgreementInv => PreventionAndDetectionAgree /\ CleanVerdictHasCompleteGraphs
<1> SUFFICES ASSUME AgreementInv, ~ Unreadable(PackageFile)
             PROVE  PreventionAndDetectionAgree /\ CleanVerdictHasCompleteGraphs
  BY DEF PreventionAndDetectionAgree, CleanVerdictHasCompleteGraphs
<1>1. PICK package : package = files[PackageFile]
  OBVIOUS
<1>2. Sound(package)
  BY <1>1 DEF AgreementInv, PackageInv
<1>3. PreventionAndDetectionAgree
  BY <1>1, <1>2 DEF PreventionAndDetectionAgree, Sound, SubmitsOnly, CallSet
<1>4. ASSUME PackageVerifies(package), package.verdict = NoCounterexample
      PROVE  \A i \in DOMAIN package.graphs : package.graphs[i].missing_edges = {}
  <2> DEFINE covered == [f \in DOMAIN package \ {"evidence_digest"} |-> package[f]]
  <2>1. /\ "verdict" \in DOMAIN covered /\ "graphs" \in DOMAIN covered
        /\ covered.verdict = package.verdict /\ covered.graphs = package.graphs
    BY <1>2 DEF Sound
  <2>2. package.evidence_digest.digest_of = covered
    BY <1>4 DEF PackageVerifies, Digest
  <2> HIDE DEF covered
  <2> QED
    BY <1>2, <1>4, <2>1, <2>2 DEF Sound
<1>5. CleanVerdictHasCompleteGraphs
  BY <1>1, <1>4 DEF CleanVerdictHasCompleteGraphs
<1> QED
  BY <1>3, <1>5

\* The whole invariant of the command line.
CommandLineInv == LedgerInv /\ SealInv /\ AgreementInv

LEMMA CommandLineInvStep == CommandLineInv /\ [Next]_vars => CommandLineInv'
<1> SUFFICES ASSUME CommandLineInv, [Next]_vars PROVE CommandLineInv'
  OBVIOUS
<1>1. SinkInv /\ JobInv /\ RunInv /\ PackageInv
  BY DEF CommandLineInv, LedgerInv, SealInv, AgreementInv
<1> QED
  BY <1>1, LedgerInvStep, SealInvStep, RunInvStep, PackageInvStep
     DEF CommandLineInv, AgreementInv

LEMMA CommandLineInvInit == Init => CommandLineInv
BY EmptySink, SealInvInit, AgreementInvInit DEF Init, CommandLineInv, LedgerInv, JobCalls

\* Through any sequence of commands, kills and damaged files: a package of a scenario
\* without an unguarded entry never holds a boundary failure, whatever evidence was
\* lost (sink.submit, verifier.adjudicate).
THEOREM TheInterlockAndTheVerifierAgree == Spec => []PreventionAndDetectionAgree
BY CommandLineInvInit, CommandLineInvStep, AgreementImplies, PTL DEF Spec, CommandLineInv

\* Through the same: a package that verifies and is clean has a graph without a missing
\* edge for every row of its ledger (evidence/graph.REQUIRED_EDGES, verify_package).
THEOREM CleanPackagesAreComplete == Spec => []CleanVerdictHasCompleteGraphs
BY CommandLineInvInit, CommandLineInvStep, AgreementImplies, PTL DEF Spec, CommandLineInv

-----------------------------------------------------------------------------
(* A run is a function of its scenario                                     *)

\* A scenario makes at most two calls, and presents one authorization.
Short(s) ==
    /\ Len(s.calls) \in 0..2
    /\ \A i \in DOMAIN s.calls :
          s.calls[i].entry = "submit" =>
                s.calls[i].authorization.authorization_id = "authz-0001"

LEMMA OneCallIsShort ==
    ASSUME NEW s, NEW call, s.calls = <<call>>,
           call.entry = "submit" => call.authorization.authorization_id = "authz-0001"
    PROVE  Short(s)
<1>1. Len(s.calls) = 1 /\ \A i \in DOMAIN s.calls : s.calls[i] = call
  OBVIOUS
<1> QED
  BY <1>1 DEF Short

LEMMA TwoCallsAreShort ==
    ASSUME NEW s, NEW first, NEW second, s.calls = <<first, second>>,
           \A call \in {first, second} :
                call.entry = "submit" => call.authorization.authorization_id = "authz-0001"
    PROVE  Short(s)
<1>1. Len(s.calls) = 2 /\ \A i \in DOMAIN s.calls : s.calls[i] \in {first, second}
  OBVIOUS
<1> QED
  BY <1>1 DEF Short

LEMMA TheAuthorizationId ==
    ASSUME NEW issued, NEW not_after, NEW delegation, NEW commit
    PROVE  SubmitCall(commit, MakeAuthorization(issued, not_after, delegation))
                .authorization.authorization_id = "authz-0001"
<1>1. MakeAuthorization(issued, not_after, delegation).authorization_id = "authz-0001"
  BY DEF MakeAuthorization, Sign
<1> QED
  BY <1>1 DEF SubmitCall

LEMMA BaseAuthorizationId ==
    ASSUME NEW commit
    PROVE  SubmitCall(commit, BaseAuthorization).authorization.authorization_id = "authz-0001"
BY TheAuthorizationId DEF BaseAuthorization

LEMMA RefusalIsShort ==
    ASSUME NEW a, NEW action, NEW tick,
           \A commit : SubmitCall(commit, a).authorization.authorization_id = "authz-0001"
    PROVE  Short(Refusal(a, action, tick))
<1>1. Refusal(a, action, tick).calls =
        <<SubmitCall(GuardedCommit("commit-refused", action, tick), a)>>
  BY DEF Refusal, Nothing
<1> QED
  BY <1>1, OneCallIsShort

LEMMA CompleteIsShort ==
    ASSUME NEW commit
    PROVE  Short(Complete(commit))
<1>1. Complete(commit).calls = <<SubmitCall(commit, BaseAuthorization)>>
  BY DEF Complete, Nothing
<1> QED
  BY <1>1, BaseAuthorizationId, OneCallIsShort

LEMMA ScenariosAreShort == \A n \in DOMAIN Scenario : Short(Scenario[n])
<1>1. Short(GuardedValid) /\ Short(HiddenRouteAuthorized)
  BY CompleteIsShort DEF GuardedValid, HiddenRouteAuthorized
<1>2. /\ Short(ExactActionMutation) /\ Short(WrongPrincipal) /\ Short(WrongRelease)
      /\ Short(WrongTenant) /\ Short(WrongSink)
  BY BaseAuthorizationId, RefusalIsShort
     DEF ExactActionMutation, WrongPrincipal, WrongRelease, WrongTenant, WrongSink
<1>3. Short(StaleAuthority) /\ Short(RevokedAuthority) /\ Short(InvalidDelegation)
  BY TheAuthorizationId, RefusalIsShort DEF StaleAuthority, RevokedAuthority, InvalidDelegation
<1>4. Short(ReplayedDelivery)
  <2> DEFINE first == GuardedCommit("commit-first", BaseAction, 10)
             second == [first EXCEPT !.commit_id = "commit-replay", !.committed_at = 11]
  <2>1. ReplayedDelivery.calls =
            <<SubmitCall(first, BaseAuthorization), SubmitCall(second, BaseAuthorization)>>
    BY DEF ReplayedDelivery, Complete, Nothing
  <2> HIDE DEF first, second
  <2> QED
    BY <2>1, BaseAuthorizationId, TwoCallsAreShort
<1>5. Short(IncompleteEvidence)
  <2> DEFINE commit == GuardedCommit("commit-unwitnessed", BaseAction, 10)
             loss == [entry |-> "lose receipts", commit |-> commit,
                      authorization |-> None, token |-> None]
  <2>1. IncompleteEvidence.calls = <<SubmitCall(commit, BaseAuthorization), loss>>
    BY DEF IncompleteEvidence, Nothing
  <2>2. loss.entry # "submit"
    OBVIOUS
  <2> HIDE DEF commit, loss
  <2> QED
    BY <2>1, <2>2, BaseAuthorizationId, TwoCallsAreShort
<1>6. Short(HiddenRouteBypass)
  <2> DEFINE call == [entry |-> "unguarded", authorization |-> None, token |-> None,
                      commit |-> MakeCommit("commit-0002", "route.batch-replay", BaseAction,
                                            12, None, "idem-bypass")]
  <2>1. HiddenRouteBypass.calls = <<call>>
    BY DEF HiddenRouteBypass, Nothing
  <2>2. call.entry # "submit"
    OBVIOUS
  <2> HIDE DEF call
  <2> QED
    BY <2>1, <2>2, OneCallIsShort
<1>7. Short(InternalDefect) /\ Short(InstrumentFailure)
  <2>1. InternalDefect.calls = <<>> /\ InstrumentFailure.calls = <<>>
    BY DEF InternalDefect, InstrumentFailure, Nothing
  <2>2. Len(<<>>) = 0 /\ DOMAIN <<>> = {}
    OBVIOUS
  <2> QED
    BY <2>1, <2>2 DEF Short
<1> QED
  BY <1>1, <1>2, <1>3, <1>4, <1>5, <1>6, <1>7 DEF Scenario

\* A call leaves in the sink what AfterCall says.
LEMMA CallMakes ==
    ASSUME NEW k, SubmitStep(k) \/ UnguardedStep(k) \/ LoseReceipts(k)
    PROVE  SinkNow' = AfterCall(SinkNow, k)
<1> DEFINE c == k.commit
           a == k.authorization
<1>1. PICK s : s = SinkNow
  OBVIOUS
<1>2. /\ s = [commits |-> commits, receipts |-> receipts, route_log |-> route_log,
              interlock_log |-> interlock_log, seen |-> seen, uses |-> uses]
      /\ SinkNow' = [commits |-> commits', receipts |-> receipts', route_log |-> route_log',
                     interlock_log |-> interlock_log', seen |-> seen', uses |-> uses']
  BY <1>1 DEF SinkNow
<1>3. /\ s.seen = seen /\ s.uses = uses
      /\ \A id : UsesIn(s, id) = UseCount(id)
  BY <1>2 DEF UsesIn, UseCount
<1>4. ReportIn(s, k) = InterlockReport(c, a, k.token)
  BY <1>3 DEF ReportIn, InterlockReport
<1>c. \A decisions, counts :
        AfterCommit(s, c, decisions, counts) =
            [commits |-> Append(commits, c), receipts |-> Append(receipts, SinkReceipt(c)),
             route_log |-> Append(route_log, RouteObservation(c, TRUE)),
             interlock_log |-> decisions, seen |-> seen \cup {c.idempotency_key},
             uses |-> counts]
  BY <1>2 DEF AfterCommit
<1>5. CASE LoseReceipts(k)
  <2>1. AfterCall(s, k) = [s EXCEPT !.receipts = <<>>]
    BY <1>5 DEF LoseReceipts, AfterCall
  <2>2. /\ receipts' = <<>> /\ commits' = commits /\ route_log' = route_log
        /\ interlock_log' = interlock_log /\ seen' = seen /\ uses' = uses
    BY <1>5 DEF LoseReceipts
  <2> QED
    BY <1>1, <1>2, <2>1, <2>2
<1>6. CASE UnguardedStep(k)
  <2>1. AfterCall(s, k) = AfterCommit(s, c, interlock_log, uses)
    BY <1>2, <1>6 DEF UnguardedStep, AfterCall
  <2>2. /\ seen' = seen \cup {c.idempotency_key}
        /\ commits' = Append(commits, c) /\ receipts' = Append(receipts, SinkReceipt(c))
        /\ route_log' = Append(route_log, RouteObservation(c, TRUE))
        /\ interlock_log' = interlock_log /\ uses' = uses
    BY <1>6 DEF UnguardedStep, CommitUnguarded, SinkCommit
  <2> QED
    BY <1>1, <1>2, <1>c, <2>1, <2>2
<1>7. ASSUME NEW reason, Refuse(c, reason), AfterCall(s, k) = AfterRefusal(s, c, reason)
      PROVE  SinkNow' = AfterCall(s, k)
  <2>1. /\ interlock_log' = Append(interlock_log, Refused(reason))
        /\ route_log' = Append(route_log, RouteObservation(c, FALSE))
        /\ commits' = commits /\ receipts' = receipts /\ seen' = seen /\ uses' = uses
    BY <1>7 DEF Refuse
  <2> QED
    BY <1>2, <1>7, <2>1 DEF AfterRefusal
<1>8. CASE SubmitStep(k)
  <2>1. k.entry = "submit" /\ Submit(c, a, k.token)
    BY <1>8 DEF SubmitStep
  <2>2. CASE RefuseReplay(c)
    <3>1. AfterCall(s, k) = AfterRefusal(s, c, "IDEMPOTENCY_REPLAY")
      BY <1>3, <2>1, <2>2 DEF RefuseReplay, AfterCall
    <3> QED
      BY <1>1, <1>7, <2>2, <3>1 DEF RefuseReplay
  <2>3. CASE RefuseUnbound(c, a, k.token)
    <3>1. AfterCall(s, k) = AfterRefusal(s, c, "BINDING_NOT_SATISFIED")
      BY <1>3, <1>4, <2>1, <2>3 DEF RefuseUnbound, AfterCall
    <3> QED
      BY <1>1, <1>7, <2>3, <3>1 DEF RefuseUnbound
  <2>4. CASE Admit(c, a, k.token)
    <3> DEFINE id == a.authorization_id
    <3>1. AfterCall(s, k) = AfterAdmission(s, c, id)
      BY <1>3, <1>4, <2>1, <2>4 DEF Admit, AfterCall
    <3>2. /\ seen' = seen \cup {c.idempotency_key}
          /\ interlock_log' = Append(interlock_log, Admitted("ALL_BINDINGS_SATISFIED"))
          /\ commits' = Append(commits, c) /\ receipts' = Append(receipts, SinkReceipt(c))
          /\ route_log' = Append(route_log, RouteObservation(c, TRUE))
          /\ RecordUse(id)
      BY <2>4 DEF Admit, SinkCommit
    <3>3. uses' = [x \in DOMAIN s.uses \cup {id} |->
                        IF x = id THEN UsesIn(s, id) + 1 ELSE s.uses[x]]
      BY <1>3, <3>2 DEF RecordUse
    <3>4. AfterAdmission(s, c, id) =
            [commits |-> commits', receipts |-> receipts', route_log |-> route_log',
             interlock_log |-> interlock_log', seen |-> seen', uses |-> uses']
      BY <1>2, <1>c, <3>2, <3>3 DEF AfterAdmission
    <3> QED
      BY <1>1, <1>2, <3>1, <3>4
  <2> QED
    BY <2>1, <2>2, <2>3, <2>4 DEF Submit
<1> QED
  BY <1>1, <1>5, <1>6, <1>8

-----------------------------------------------------------------------------
(* What a step does to the sink and its job                                *)

SameSink ==
    /\ UNCHANGED sinkVars
    /\ Consequence' <=> Consequence
    /\ Consequence => job'.arg = job.arg /\ job'.calls = job.calls /\ job'.command = job.command

StartedSink ==
    /\ job = None /\ UNCHANGED <<sinkVars, files>>
    /\ Consequence'
    /\ job'.arg \in ConsequenceNames /\ job'.calls = Scenario[job'.arg].calls
    /\ job'.command = "consequence replay" =>
        /\ job'.todo = <<>>
        /\ ~ Unreadable(PackageFile) /\ files[PackageFile].scenario = job'.arg

\* A command starts a scenario with all its calls, and another has no sink.
LEMMA AnswerIsSame ==
    ASSUME NEW command, NEW code, Answer(command, code)
    PROVE  SameSink
BY DEF Answer, Begin, Idle, Exit, SameSink, Consequence

LEMMA StartIsSame ==
    ASSUME NEW command \in {"run", "demo", "dryrun", "replay"}, NEW calls, NEW arg, NEW todo,
           NEW code, StartJob(command, calls, arg, todo, code)
    PROVE  SameSink
BY DEF StartJob, Begin, Idle, SameSink, Consequence, ConsequenceCommands

LEMMA StartHasItsCalls ==
    ASSUME RunInv, NEW command \in ConsequenceCommands, NEW n \in ConsequenceNames,
           NEW todo \in Seq(Ops), StartJob(command, Scenario[n].calls, n, todo, 0),
           command = "consequence replay" =>
                todo = <<>> /\ ~ Unreadable(PackageFile) /\ files[PackageFile].scenario = n
    PROVE  StartedSink
<1>1. 0 \in ExitCodes
  BY DEF ExitCodes
<1>2. job' # None
  BY <1>1, StartRuns
<1>3. /\ job'.command = command /\ job'.arg = n /\ job'.calls = Scenario[n].calls
      /\ job'.todo = todo /\ job = None /\ UNCHANGED <<sinkVars, files>>
  BY DEF StartJob, Begin, Idle
<1> QED
  BY <1>2, <1>3 DEF StartedSink, Consequence

LEMMA CommandSinks == RunInv /\ Command => SameSink \/ StartedSink
<1> SUFFICES ASSUME RunInv, Command PROVE SameSink \/ StartedSink
  OBVIOUS
<1>1. ASSUME NEW path, Run(path) \/ Demo(path) PROVE SameSink
  BY <1>1, AnswerIsSame, StartIsSame DEF Run, Demo
<1>2. ASSUME NEW vuln, NEW control, DryRun(vuln, control) PROVE SameSink
  BY <1>2, AnswerIsSame, StartIsSame DEF DryRun
<1>3. CASE VerifyDirectory \/ Inspect \/ VerifyConsequence \/ InspectPaths
  BY <1>3, AnswerIsSame DEF VerifyDirectory, Inspect, VerifyConsequence, InspectPaths
<1>4. ASSUME NEW name, VerifyFile(name) PROVE SameSink
  BY <1>4, AnswerIsSame DEF VerifyFile
<1>5. ASSUME NEW write \in BOOLEAN, Replay(write) PROVE SameSink
  BY <1>5, AnswerIsSame, StartIsSame DEF Replay
<1>6. ASSUME NEW n \in ConsequenceNames, NEW out \in BOOLEAN, RunConsequence(n, out)
      PROVE  StartedSink
  <2> DEFINE todo == IF out THEN <<WriteOp(PackageFile)>> ELSE <<>>
  <2>1. todo \in Seq(Ops)
    BY PackageTodo
  <2>2. StartJob("consequence run", Scenario[n].calls, n, todo, 0)
    BY <1>6 DEF RunConsequence
  <2>3. "consequence run" \in ConsequenceCommands
    BY DEF ConsequenceCommands
  <2> HIDE DEF todo
  <2> QED
    BY <2>1, <2>2, <2>3, StartHasItsCalls
<1>7. CASE ReplayConsequence
  <2>1. <<>> \in Seq(Ops) /\ "consequence replay" \in ConsequenceCommands
    BY DEF ConsequenceCommands
  <2>2. ASSUME NEW n \in ConsequenceNames, ~ Unreadable(PackageFile),
               n = files[PackageFile].scenario,
               StartJob("consequence replay", Scenario[n].calls, n, <<>>, 0)
        PROVE  StartedSink
    BY <2>1, <2>2, StartHasItsCalls
  <2> QED
    BY <1>7, <2>2, AnswerIsSame DEF ReplayConsequence
<1> QED
  BY <1>1, <1>2, <1>3, <1>4, <1>5, <1>6, <1>7 DEF Command

\* A step on the directory, and a job that breaks off without a sink.
LEMMA TodoIsSame ==
    ASSUME RunInv, Working, job.todo # <<>>, job' = [job EXCEPT !.todo = Tail(@)],
           UNCHANGED sinkVars
    PROVE  /\ SameSink /\ job' # None
           /\ job'.command = job.command /\ job'.todo = Tail(job.todo)
<1>1. job \in Jobs /\ job # None
  BY DEF RunInv, Working
<1>2. job' \in Jobs
  <2>1. Tail(job.todo) \in Seq(Ops)
    BY <1>1 DEF Jobs
  <2> QED
    BY <1>1, <2>1 DEF Jobs
<1>3. job' # None
  BY <1>2, NoneIsNoRecord
<1>4. /\ job'.command = job.command /\ job'.arg = job.arg /\ job'.calls = job.calls
      /\ job'.todo = Tail(job.todo)
  BY <1>1 DEF Jobs
<1> QED
  BY <1>1, <1>3, <1>4 DEF SameSink, Consequence

\* The steps of a job on its directory are writes, or a demo that breaks off.
WriteStep ==
    /\ Working /\ job.calls = <<>> /\ job.todo # <<>>
    /\ job.command # "consequence replay" /\ exits' = exits
    /\ UNCHANGED <<commands, faults>>
    /\ SameSink
    /\ job' # None /\ job'.command = job.command

BrokenOff ==
    /\ job' = None /\ ~ Consequence /\ files' = files /\ UNCHANGED <<commands, faults>>
    /\ SameSink /\ exits' = [command |-> job.command, code |-> Traceback]

LEMMA DueIsNoReplay ==
    ASSUME JobInv, ReplayInv, NEW op, Due(op)
    PROVE  job.command # "consequence replay"
BY DEF Due, ReplayInv

LEMMA DirectorySteps ==
    ASSUME JobInv, RunInv, ReplayInv,
           WriteFile \/ Seal \/ WriteReplay \/ WriteReport \/ StripFile
    PROVE  WriteStep \/ BrokenOff
<1>1. ASSUME NEW op, Due(op), job' = [job EXCEPT !.todo = Tail(@)],
             UNCHANGED <<exits, commands, faults, sinkVars>>
      PROVE  WriteStep
  <2>1. Working /\ job.calls = <<>> /\ job.todo # <<>>
    BY <1>1 DEF Due
  <2> QED
    BY <1>1, <2>1, TodoIsSame, DueIsNoReplay DEF WriteStep
<1>2. ASSUME NEW op, Due(op), NEW name, NEW doc, PutFile(name, doc) PROVE WriteStep
  BY <1>1, <1>2 DEF PutFile
<1>3. CASE WriteFile \/ Seal \/ WriteReplay \/ WriteReport
  BY <1>2, <1>3 DEF WriteFile, Seal, WriteReplay, WriteReport
<1>4. CASE StripFile
  <2>1. Due("strip")
    BY <1>4 DEF StripFile
  <2>2. ASSUME Exit(job.command, Traceback), UNCHANGED <<files, commands, faults, sinkVars>>
        PROVE  BrokenOff
    <3>1. ~ Consequence
      BY <2>1, StripsNoPackage DEF Consequence
    <3> QED
      BY <2>2, <3>1 DEF BrokenOff, SameSink, Consequence, Exit
  <2> QED
    BY <1>1, <1>2, <1>4, <2>1, <2>2 DEF StripFile
<1> QED
  BY <1>3, <1>4

-----------------------------------------------------------------------------
(* The sink is that of its scenario, as far as it was called               *)

LEMMA SameSinkMade ==
    ASSUME MadeInv, SameSink
    PROVE  MadeInv'
<1>1. SinkNow' = SinkNow
  BY DEF SameSink, sinkVars, ledgerVars, SinkNow
<1> QED
  BY <1>1 DEF MadeInv, SameSink

LEMMA DroppedSinkMade ==
    ASSUME DropSink, job' = None
    PROVE  MadeInv'
<1>1. SinkNow' = FreshSink
  BY DEF DropSink, SinkNow, FreshSink
<1> QED
  BY <1>1 DEF MadeInv, Consequence

LEMMA CallsOfScenario ==
    ASSUME NEW n \in ConsequenceNames
    PROVE  /\ Scenario[n].calls \in Seq(KnownCalls)
           /\ Len(Scenario[n].calls) \in 0..2
BY CommandLineAssumption, ScenariosAreShort DEF Short

LEMMA StartedSinkMade ==
    ASSUME MadeInv, StartedSink
    PROVE  MadeInv'
<1>1. PICK n \in ConsequenceNames : n = job'.arg
  BY DEF StartedSink
<1>2. SinkNow' = FreshSink
  BY DEF MadeInv, StartedSink, Consequence, SinkNow, sinkVars, ledgerVars
<1>3. FreshSink = SinkAt(n, 0)
  BY DEF SinkAt
<1>4. job'.calls = Scenario[n].calls /\ Consequence'
  BY <1>1 DEF StartedSink
<1> DEFINE calls == Scenario[n].calls
<1>5. /\ 0 \in 0..Len(calls) /\ Len(calls) = Len(calls) - 0
      /\ \A j \in DOMAIN calls : calls[j] = calls[0 + j]
  BY CallsOfScenario
<1> QED
  BY <1>1, <1>2, <1>3, <1>4, <1>5 DEF MadeInv

\* One call more leads from one sink of the scenario to the next.
LEMMA SinkAfter ==
    ASSUME NEW n \in ConsequenceNames, NEW made \in Nat,
           made + 1 <= Len(Scenario[n].calls)
    PROVE  SinkAt(n, made + 1) = AfterCall(SinkAt(n, made), Scenario[n].calls[made + 1])
<1>1. made = 0 \/ made = 1
  <2>1. PICK len : len = Len(Scenario[n].calls)
    OBVIOUS
  <2>2. len \in 0..2 /\ made + 1 <= len
    BY <2>1, CallsOfScenario
  <2> QED
    BY <2>2
<1>2. CASE made = 0
  BY <1>2 DEF SinkAt
<1>3. CASE made = 1
  BY <1>3 DEF SinkAt
<1> QED
  BY <1>1, <1>2, <1>3

LEMMA SinkCallIs ==
    ASSUME RunInv, SinkCall
    PROVE  /\ Consequence /\ job \in Jobs /\ job.calls # <<>>
           /\ Consequence' /\ job'.command = job.command /\ job'.arg = job.arg
           /\ job'.calls = Tail(job.calls) /\ job'.todo = job.todo
<1>1. /\ job \in Jobs /\ job # None /\ job.calls # <<>>
      /\ job' = [job EXCEPT !.calls = Tail(@)]
  BY DEF SinkCall, RunInv, Working
<1>2. Consequence
  BY <1>1 DEF RunInv
<1>3. Tail(job.calls) \in Seq(KnownCalls)
  BY <1>1 DEF Jobs
<1>4. job' \in Jobs /\ job' # None
  BY <1>1, <1>3, NoneIsNoRecord DEF Jobs
<1>5. /\ job'.command = job.command /\ job'.arg = job.arg
      /\ job'.calls = Tail(job.calls) /\ job'.todo = job.todo
  BY <1>1 DEF Jobs
<1> QED
  BY <1>1, <1>2, <1>4, <1>5 DEF Consequence

LEMMA CalledSinkMade ==
    ASSUME RunInv, MadeInv, SinkCall
    PROVE  MadeInv'
<1>1. /\ Consequence /\ job \in Jobs /\ job.calls # <<>>
      /\ Consequence' /\ job'.arg = job.arg /\ job'.calls = Tail(job.calls)
  BY SinkCallIs
<1>2. PICK n \in ConsequenceNames : n = job.arg
  BY <1>1 DEF RunInv
<1> DEFINE calls == Scenario[n].calls
<1>3. PICK made \in 0..Len(calls) :
        /\ Len(job.calls) = Len(calls) - made
        /\ \A j \in DOMAIN job.calls : job.calls[j] = calls[made + j]
        /\ SinkNow = SinkAt(n, made)
  BY <1>1, <1>2 DEF MadeInv
<1> DEFINE k == Head(job.calls)
           rest == Tail(job.calls)
<1>4. Len(calls) \in Nat
  BY CallsOfScenario
<1>5. /\ k = job.calls[1] /\ 1 \in DOMAIN job.calls
      /\ Len(rest) = Len(job.calls) - 1 /\ DOMAIN rest = 1..Len(rest)
      /\ Len(job.calls) \in Nat /\ DOMAIN job.calls = 1..Len(job.calls)
      /\ \A j \in DOMAIN rest : rest[j] = job.calls[j + 1]
  <2>1. job.calls \in Seq(KnownCalls)
    BY <1>1 DEF Jobs
  <2> QED
    BY <1>1, <2>1
<1>6. made + 1 \in 0..Len(calls) /\ k = calls[made + 1]
  BY <1>3, <1>4, <1>5
<1>7. SinkNow' = AfterCall(SinkNow, k)
  <2>1. SubmitStep(k) \/ UnguardedStep(k) \/ LoseReceipts(k)
    BY DEF SinkCall
  <2> HIDE DEF k
  <2> QED
    BY <2>1, CallMakes
<1>8. SinkNow' = SinkAt(n, made + 1)
  BY <1>3, <1>6, <1>7, SinkAfter
<1>9. /\ Len(rest) = Len(calls) - (made + 1)
      /\ \A j \in DOMAIN rest : rest[j] = calls[(made + 1) + j]
  <2>1. Len(rest) = Len(calls) - (made + 1)
    BY <1>3, <1>4, <1>5
  <2>2. ASSUME NEW j \in DOMAIN rest PROVE rest[j] = calls[(made + 1) + j]
    <3>1. j + 1 \in DOMAIN job.calls /\ rest[j] = job.calls[j + 1] /\ j \in Nat
      BY <1>5
    <3>2. job.calls[j + 1] = calls[made + (j + 1)]
      BY <1>3, <3>1
    <3>3. made + (j + 1) = (made + 1) + j
      BY <3>1
    <3> QED
      BY <3>1, <3>2, <3>3
  <2> QED
    BY <2>1, <2>2
<1> HIDE DEF calls, rest
<1> QED
  BY <1>1, <1>2, <1>6, <1>8, <1>9 DEF MadeInv, calls, rest

LEMMA MadeInvStep ==
    JobInv /\ RunInv /\ ReplayInv /\ MadeInv /\ [Next]_vars => MadeInv'
<1> SUFFICES ASSUME JobInv, RunInv, ReplayInv, MadeInv, [Next]_vars PROVE MadeInv'
  OBVIOUS
<1>1. CASE Command
  BY <1>1, CommandSinks, SameSinkMade, StartedSinkMade
<1>2. CASE SinkCall
  BY <1>2, CalledSinkMade
<1>3. CASE WriteFile \/ Seal \/ WriteReplay \/ WriteReport \/ StripFile
  BY <1>3, DirectorySteps, SameSinkMade DEF WriteStep, BrokenOff
<1>4. CASE End \/ Kill
  BY <1>4, DroppedSinkMade DEF End, Kill, Exit
<1>5. CASE (\E name \in DOMAIN files : Damage(name)) \/ UNCHANGED vars
  <2>1. UNCHANGED <<job, sinkVars>>
    BY <1>5 DEF Damage, vars, cliVars
  <2> QED
    BY <2>1, SameSinkMade DEF SameSink, Consequence
<1> QED
  BY <1>1, <1>2, <1>3, <1>4, <1>5 DEF Next

-----------------------------------------------------------------------------
(* So a package is that of its scenario, and a replay finds it             *)

\* At the end of a run, the package to be built is the one of the scenario.
LEMMA BodyWhenMade ==
    ASSUME MadeInv, RunInv, Consequence, job.calls = <<>>
    PROVE  PackageBody(job.arg, SinkState) = BodyOf(job.arg)
<1>1. PICK n \in ConsequenceNames : n = job.arg
  BY DEF RunInv
<1> DEFINE calls == Scenario[n].calls
<1>2. PICK made \in 0..Len(calls) : Len(job.calls) = Len(calls) - made /\ SinkNow = SinkAt(n, made)
  BY <1>1 DEF MadeInv
<1>3. Len(job.calls) = 0 /\ Len(calls) \in Nat
  BY CallsOfScenario
<1>4. made = Len(calls)
  BY <1>2, <1>3
<1>5. SinkNow = SinkAt(n, Len(calls))
  BY <1>2, <1>4
<1>6. PICK s : s = SinkAt(n, Len(calls))
  OBVIOUS
<1>7. /\ s.commits = commits /\ s.receipts = receipts /\ s.route_log = route_log
      /\ s.interlock_log = interlock_log
  BY <1>5, <1>6 DEF SinkNow
<1>8. SinkState = [commits |-> s.commits, receipts |-> s.receipts, route_log |-> s.route_log,
                   interlock_log |-> s.interlock_log]
  BY <1>7 DEF SinkState
<1> QED
  BY <1>1, <1>6, <1>8 DEF BodyOf

LEMMA PackageWhenMade ==
    ASSUME MadeInv, RunInv, Consequence, job.calls = <<>>
    PROVE  /\ Package(job.arg, SinkState).evidence_digest = Digest(BodyOf(job.arg))
           /\ Package(job.arg, SinkState).verdict = BodyOf(job.arg).verdict
<1>1. PICK n : n = job.arg
  OBVIOUS
<1>2. PackageBody(n, SinkState) = BodyOf(n)
  BY <1>1, BodyWhenMade
<1>3. /\ DOMAIN PackageBody(n, SinkState) =
            {"scenario", "sink", "verdict", "path_reconciliation", "graphs"}
  BY DEF PackageBody
<1>4. Package(n, SinkState) =
        [f \in DOMAIN BodyOf(n) \cup {"evidence_digest"} |->
            IF f = "evidence_digest" THEN Digest(BodyOf(n)) ELSE BodyOf(n)[f]]
  BY <1>2 DEF Package
<1>5. "verdict" \in DOMAIN BodyOf(n)
  BY <1>2, <1>3
<1> QED
  BY <1>1, <1>4, <1>5

\* A package that verifies is what its digest covers, its scenario's name included.
LEMMA VerifiedIsOfItsScenario ==
    ASSUME NEW package, Sound(package), PackageVerifies(package), NEW n,
           package.evidence_digest = Digest(BodyOf(n))
    PROVE  package.scenario = n /\ package.verdict = BodyOf(n).verdict
<1> DEFINE covered == [f \in DOMAIN package \ {"evidence_digest"} |-> package[f]]
<1>1. /\ "verdict" \in DOMAIN covered /\ "scenario" \in DOMAIN covered
      /\ covered.verdict = package.verdict /\ covered.scenario = package.scenario
  BY DEF Sound
<1>2. Digest(covered) = Digest(BodyOf(n))
  BY DEF PackageVerifies
<1> HIDE DEF covered
<1>3. covered = BodyOf(n)
  BY <1>2, DigestsTellApart
<1>4. BodyOf(n).scenario = n
  BY DEF BodyOf, PackageBody
<1> QED
  BY <1>1, <1>3, <1>4

\* The digest of a package is only ever written with it.
LEMMA DigestKept ==
    ASSUME ReplayInv, SameFile(PackageFile) \/ Unreadable(PackageFile)',
           ~ Unreadable(PackageFile)'
    PROVE  \E n \in ConsequenceNames :
                files'[PackageFile].evidence_digest = Digest(BodyOf(n))
<1>1. ~ Unreadable(PackageFile) /\ files'[PackageFile] = files[PackageFile]
  BY DEF SameFile, Unreadable
<1> QED
  BY <1>1 DEF ReplayInv

LEMMA WrittenDigest ==
    ASSUME JobInv, RunInv, MadeInv, ReplayInv, WriteFile, ~ Unreadable(PackageFile)'
    PROVE  \E n \in ConsequenceNames :
                files'[PackageFile].evidence_digest = Digest(BodyOf(n))
<1>1. Due("write") /\ Working /\ job.calls = <<>> /\ job.todo # <<>>
  BY DEF WriteFile, Due
<1>2. PICK name \in RunNames \cup {Notice, PackageFile} :
        Head(job.todo) = WriteOp(name) /\ Head(job.todo).name = name
  BY <1>1, TheWriter
<1>3. files' = With(name, DocumentFor(name))
  BY <1>2 DEF WriteFile, PutFile
<1>4. CASE name # PackageFile
  BY <1>3, <1>4, OtherFiles, DigestKept
<1>5. CASE name = PackageFile
  <2>1. Left(WriteOp(PackageFile), job.todo)
    BY <1>1, <1>2, <1>5, TheHead
  <2>2. job.command \notin {"run", "demo", "dryrun"}
    BY <1>1, <2>1, TheJob DEF WritesRun
  <2>3. job.command # "replay"
    BY <1>1, <1>2, <1>5, NotAReplay, Operations
  <2>4. Consequence
    BY <1>1, <2>2, <2>3 DEF JobInv, Working, Consequence, ConsequenceCommands
  <2>5. PICK n \in ConsequenceNames : n = job.arg
    BY <2>4 DEF RunInv
  <2>6. Package(n, SinkState).evidence_digest = Digest(BodyOf(n))
    BY <1>1, <2>4, <2>5, PackageWhenMade
  <2>7. files'[PackageFile] = Package(n, SinkState)
    <3>1. DocumentFor(PackageFile) = Package(n, SinkState)
      BY <2>5, NamesApart DEF DocumentFor
    <3>2. files' = With(PackageFile, DocumentFor(PackageFile))
      BY <1>3, <1>5
    <3> QED
      BY <3>1, <3>2, OtherFiles
  <2> QED
    BY <2>6, <2>7
<1> QED
  BY <1>4, <1>5

LEMMA DamagedDigest ==
    ASSUME PackageInv, ReplayInv, NEW name \in DOMAIN files, Damage(name),
           ~ Unreadable(PackageFile)'
    PROVE  \E n \in ConsequenceNames :
                files'[PackageFile].evidence_digest = Digest(BodyOf(n))
<1>1. CASE name # PackageFile
  BY <1>1, DigestKept DEF Damage, SameFile
<1>2. CASE name = PackageFile
  <2>1. PICK old, new : old = files[PackageFile] /\ new = files'[PackageFile]
    OBVIOUS
  <2>2. new \in Replacements(PackageFile) /\ new # Torn
    BY <1>2, <2>1 DEF Damage, Unreadable
  <2>3. /\ old # Torn
        /\ \/ new = [old EXCEPT !.verdict = NoCounterexample]
           \/ new = [old EXCEPT !.scenario = "no scenario"]
    BY <2>1, <2>2, NamesApart, TheRunNames DEF Replacements
  <2>4. ~ Unreadable(PackageFile)
    BY <1>2, <2>1, <2>3 DEF Unreadable
  <2>5. "evidence_digest" \in DOMAIN old
    BY <2>1, <2>4 DEF PackageInv, Sound
  <2>6. new.evidence_digest = old.evidence_digest
    BY <2>3, <2>5
  <2> QED
    BY <2>1, <2>4, <2>6 DEF ReplayInv
<1> QED
  BY <1>1, <1>2

LEMMA DigestStep ==
    ASSUME JobInv, RunInv, PackageInv, MadeInv, ReplayInv, [Next]_vars,
           ~ Unreadable(PackageFile)'
    PROVE  \E n \in ConsequenceNames :
                files'[PackageFile].evidence_digest = Digest(BodyOf(n))
<1> DEFINE Kept == SameFile(PackageFile) \/ Unreadable(PackageFile)'
<1>0. ASSUME files' = files PROVE Kept
  BY <1>0 DEF SameFile
<1>1. CASE Command
  BY <1>0, <1>1, DigestKept DEF Command, Run, Demo, DryRun, VerifyDirectory, VerifyFile, Replay,
     Inspect, RunConsequence, VerifyConsequence, ReplayConsequence, InspectPaths, Answer, StartJob
<1>2. CASE SinkCall \/ End \/ UNCHANGED vars
  BY <1>0, <1>2, DigestKept DEF SinkCall, End, vars, cliVars
<1>3. CASE WriteFile
  BY <1>3, WrittenDigest
<1>4. ASSUME NEW name, name # PackageFile, NEW doc, PutFile(name, doc) PROVE Kept
  BY <1>4, OtherFiles DEF PutFile
<1>5. CASE Seal \/ WriteReplay \/ WriteReport
  BY <1>4, <1>5, PackageName, DigestKept DEF Seal, WriteReplay, WriteReport
<1>6. CASE StripFile
  <2>1. CASE files' = files
    BY <1>0, <2>1, DigestKept
  <2>2. CASE files' # files
    <3> DEFINE name == Head(job.todo).name
    <3>1. /\ name \in DOMAIN files /\ files[name] # Torn /\ "runtime" \in DOMAIN files[name]
          /\ PutFile(name, Strip(files[name]))
      BY <1>6, <2>2 DEF StripFile
    <3>2. name # PackageFile
      BY <3>1 DEF PackageInv, Unreadable, Sound
    <3> QED
      BY <1>4, <3>1, <3>2, DigestKept
  <2> QED
    BY <2>1, <2>2
<1>7. CASE Kill
  <2>1. CASE files' = files
    BY <1>0, <2>1, DigestKept
  <2>2. CASE files' # files
    <3>1. PICK name : files' = With(name, Torn)
      BY <1>7, <2>2 DEF Kill
    <3>2. Kept
      BY <3>1, OtherFiles DEF Unreadable
    <3> QED
      BY <3>2, DigestKept
  <2> QED
    BY <2>1, <2>2
<1>8. ASSUME NEW name \in DOMAIN files, Damage(name)
      PROVE  \E n \in ConsequenceNames :
                files'[PackageFile].evidence_digest = Digest(BodyOf(n))
  BY <1>8, DamagedDigest
<1> QED
  BY <1>1, <1>2, <1>3, <1>5, <1>6, <1>7, <1>8 DEF Next

-----------------------------------------------------------------------------
(* The end of a replay                                                     *)

ReplayFailed == [command |-> "consequence replay", code |-> Traceback]

\* A package that verifies is the one the replay built again.
LEMMA VerifiedPackageReplays ==
    ASSUME RunInv, PackageInv, MadeInv, ReplayInv, Working, job.calls = <<>>,
           job.command = "consequence replay", PackageVerifies(files[PackageFile])
    PROVE  ReplayMatches(Package(job.arg, SinkState), files[PackageFile])
<1>1. PICK package : package = files[PackageFile]
  OBVIOUS
<1>2. ~ Unreadable(PackageFile) /\ package.scenario = job.arg
  BY <1>1 DEF ReplayInv
<1>3. Sound(package) /\ PackageVerifies(package)
  BY <1>1, <1>2 DEF PackageInv
<1>4. PICK n \in ConsequenceNames : package.evidence_digest = Digest(BodyOf(n))
  BY <1>1, <1>2 DEF ReplayInv
<1>5. package.scenario = n /\ package.verdict = BodyOf(n).verdict
  BY <1>3, <1>4, VerifiedIsOfItsScenario
<1>6. Consequence
  BY DEF Consequence, ConsequenceCommands, Working
<1>7. /\ Package(job.arg, SinkState).evidence_digest = Digest(BodyOf(job.arg))
      /\ Package(job.arg, SinkState).verdict = BodyOf(job.arg).verdict
  BY <1>6, PackageWhenMade
<1> QED
  BY <1>1, <1>2, <1>4, <1>5, <1>7 DEF ReplayMatches

LEMMA EndReproduces ==
    ASSUME RunInv, PackageInv, MadeInv, ReplayInv, End
    PROVE  ReplayReproduces'
<1> SUFFICES ASSUME exits' = ReplayFailed, PackageVerifies(files'[PackageFile]) PROVE FALSE
  BY DEF ReplayReproduces, ReplayFailed, Traceback
<1>1. PICK command, code : command = job.command /\ code = EndCode
  OBVIOUS
<1>2. Working /\ job.calls = <<>> /\ files' = files
  BY DEF End
<1>3. exits' = [command |-> command, code |-> code]
  BY <1>1 DEF End, Exit
<1>4. [command |-> command, code |-> code]
        = [command |-> "consequence replay", code |-> Traceback]
  BY <1>3 DEF ReplayFailed
<1>5. command = "consequence replay"
  BY <1>4
<1>6. code = Traceback
  BY <1>4
<1>7. ReplayMatches(Package(job.arg, SinkState), files[PackageFile])
  BY <1>1, <1>2, <1>5, VerifiedPackageReplays
<1>8. code = 0
  BY <1>1, <1>5, <1>7 DEF EndCode
<1>9. code = 1
  BY <1>6 DEF Traceback
<1> QED
  BY <1>8, <1>9

\* A replay that cannot begin finds no package, or none that verifies.
LEMMA RefusalReproduces ==
    ASSUME PackageInv, ReplayInv, ReplayConsequence
    PROVE  ReplayReproduces'
<1> SUFFICES ASSUME exits' = ReplayFailed, ~ Unreadable(PackageFile)',
                    PackageVerifies(files'[PackageFile])
             PROVE  FALSE
  BY DEF ReplayReproduces, ReplayFailed, Traceback
<1>1. files' = files
  BY DEF ReplayConsequence, Answer, StartJob
<1>2. ~ Unreadable(PackageFile)
  BY <1>1 DEF Unreadable
<1>3. files[PackageFile].scenario \notin ConsequenceNames
  <2>1. exits' # None
    BY NoneIsNoRecord DEF ReplayFailed
  <2> QED
    BY <1>2, <2>1 DEF ReplayConsequence, StartJob
<1>4. PICK package : package = files[PackageFile]
  OBVIOUS
<1>5. PICK n \in ConsequenceNames : package.evidence_digest = Digest(BodyOf(n))
  BY <1>2, <1>4 DEF ReplayInv
<1>6. Sound(package) /\ PackageVerifies(package)
  BY <1>1, <1>2, <1>4 DEF PackageInv
<1>7. package.scenario = n
  BY <1>5, <1>6, VerifiedIsOfItsScenario
<1> QED
  BY <1>3, <1>4, <1>7

LEMMA OtherExitReproduces ==
    ASSUME exits' # ReplayFailed
    PROVE  ReplayReproduces'
BY DEF ReplayReproduces, ReplayFailed, Traceback

LEMMA OtherAnswers ==
    ASSUME NEW command, command # "consequence replay", NEW code, Answer(command, code)
    PROVE  exits' # ReplayFailed
BY DEF Answer, Exit, ReplayFailed

LEMMA StartAnswersNothing ==
    ASSUME NEW command, NEW calls, NEW arg, NEW todo, NEW code,
           StartJob(command, calls, arg, todo, code)
    PROVE  exits' # ReplayFailed
BY NoneIsNoRecord DEF StartJob, ReplayFailed

LEMMA CommandReproduces ==
    ASSUME PackageInv, ReplayInv, Command
    PROVE  ReplayReproduces'
<1>1. ASSUME NEW path, Run(path) \/ Demo(path) PROVE exits' # ReplayFailed
  BY <1>1, OtherAnswers, StartAnswersNothing DEF Run, Demo
<1>2. ASSUME NEW vuln, NEW control, DryRun(vuln, control) PROVE exits' # ReplayFailed
  BY <1>2, OtherAnswers, StartAnswersNothing DEF DryRun
<1>3. CASE VerifyDirectory \/ Inspect \/ VerifyConsequence \/ InspectPaths
  BY <1>3, OtherAnswers, OtherExitReproduces
     DEF VerifyDirectory, Inspect, VerifyConsequence, InspectPaths
<1>4. ASSUME NEW name, VerifyFile(name) PROVE exits' # ReplayFailed
  BY <1>4, OtherAnswers DEF VerifyFile
<1>5. ASSUME NEW write \in BOOLEAN, Replay(write) PROVE exits' # ReplayFailed
  BY <1>5, OtherAnswers, StartAnswersNothing DEF Replay
<1>6. ASSUME NEW n, NEW out, RunConsequence(n, out) PROVE exits' # ReplayFailed
  BY <1>6, StartAnswersNothing DEF RunConsequence
<1> QED
  BY <1>1, <1>2, <1>3, <1>4, <1>5, <1>6, RefusalReproduces, OtherExitReproduces DEF Command

LEMMA ReproducesStep ==
    ASSUME JobInv, RunInv, PackageInv, MadeInv, ReplayInv, [Next]_vars
    PROVE  ReplayReproduces'
<1>1. CASE Command
  BY <1>1, CommandReproduces
<1>2. CASE SinkCall
  <2>1. exits' = None
    BY <1>2 DEF SinkCall, ReplayInv
  <2> QED
    BY <2>1, NoneIsNoRecord, OtherExitReproduces DEF ReplayFailed
<1>3. CASE WriteFile \/ Seal \/ WriteReplay \/ WriteReport \/ StripFile
  <2>1. CASE WriteStep
    <3>1. exits' = None
      BY <2>1 DEF WriteStep, ReplayInv
    <3> QED
      BY <3>1, NoneIsNoRecord, OtherExitReproduces DEF ReplayFailed
  <2>2. CASE BrokenOff
    <3>1. Working
      BY <1>3 DEF WriteFile, Seal, WriteReplay, WriteReport, StripFile, Due
    <3>2. job.command # "consequence replay"
      BY <2>2, <3>1 DEF BrokenOff, Consequence, ConsequenceCommands, Working
    <3>3. exits' # ReplayFailed
      BY <2>2, <3>2 DEF BrokenOff, ReplayFailed
    <3> QED
      BY <3>3, OtherExitReproduces
  <2> QED
    BY <1>3, <2>1, <2>2, DirectorySteps
<1>4. CASE End
  BY <1>4, EndReproduces
<1>5. CASE Kill \/ (\E name \in DOMAIN files : Damage(name))
  <2>1. exits' = None
    BY <1>5 DEF Kill, Damage
  <2> QED
    BY <2>1, NoneIsNoRecord, OtherExitReproduces DEF ReplayFailed
<1>6. CASE UNCHANGED vars
  BY <1>6 DEF vars, cliVars, ReplayInv, ReplayReproduces, Unreadable
<1> QED
  BY <1>1, <1>2, <1>3, <1>4, <1>5, <1>6 DEF Next

\* A replay that runs has no write to do, and its package stays as it was.
LEMMA ReplayJobStep ==
    ASSUME JobInv, RunInv, ReplayInv, [Next]_vars, Working'
    PROVE  /\ exits' = None
           /\ job'.command = "consequence replay" =>
                /\ job'.todo = <<>>
                /\ ~ Unreadable(PackageFile)'
                /\ files'[PackageFile].scenario = job'.arg
<1>1. CASE Command
  <2>1. /\ exits' = None
        /\ UNCHANGED files /\ job = None
    <3>1. ASSUME NEW command, NEW code PROVE ~ Answer(command, code)
      BY DEF Answer, Exit, Working
    <3> QED
      BY <1>1, <3>1 DEF Command, Run, Demo, DryRun, VerifyDirectory, VerifyFile, Replay,
         Inspect, RunConsequence, VerifyConsequence, ReplayConsequence, InspectPaths, StartJob,
         Begin, Idle
  <2>2. ASSUME job'.command = "consequence replay"
        PROVE  StartedSink
    <3>1. Consequence' /\ ~ Consequence
      BY <2>1, <2>2 DEF Consequence, ConsequenceCommands, Working
    <3> QED
      BY <1>1, <3>1, CommandSinks DEF SameSink
  <2> QED
    BY <2>1, <2>2 DEF StartedSink, Unreadable
<1>2. CASE SinkCall
  <2>1. /\ exits' = exits /\ files' = files /\ Working
        /\ job'.command = job.command /\ job'.arg = job.arg /\ job'.todo = job.todo
    BY <1>2, SinkCallIs DEF SinkCall
  <2> QED
    BY <2>1 DEF ReplayInv, Unreadable
<1>3. CASE WriteFile \/ Seal \/ WriteReplay \/ WriteReport \/ StripFile
  BY <1>3, DirectorySteps DEF WriteStep, BrokenOff, ReplayInv, Working
<1>4. CASE End \/ Kill \/ \E name \in DOMAIN files : Damage(name)
  BY <1>4 DEF End, Exit, Kill, Damage, Working
<1>5. CASE UNCHANGED vars
  BY <1>5 DEF vars, cliVars, ReplayInv, Unreadable, Working
<1> QED
  BY <1>1, <1>2, <1>3, <1>4, <1>5 DEF Next

LEMMA ReplayInvStep ==
    JobInv /\ RunInv /\ PackageInv /\ MadeInv /\ ReplayInv /\ [Next]_vars => ReplayInv'
<1> SUFFICES ASSUME JobInv, RunInv, PackageInv, MadeInv, ReplayInv, [Next]_vars
             PROVE  ReplayInv'
  OBVIOUS
<1>1. ReplayReproduces'
  BY ReproducesStep
<1>2. ~ Unreadable(PackageFile)' =>
        \E n \in ConsequenceNames :
            files'[PackageFile].evidence_digest = Digest(BodyOf(n))
  BY DigestStep
<1> QED
  BY <1>1, <1>2, ReplayJobStep DEF ReplayInv

LEMMA ReproductionInvInit == Init => ReproductionInv
<1> SUFFICES ASSUME Init PROVE ReproductionInv
  OBVIOUS
<1>1. job = None /\ exits = None /\ DOMAIN files = {}
  BY DEF Init
<1>2. SinkNow = FreshSink
  BY DEF Init, NewSink, SinkNow, FreshSink
<1> QED
  BY <1>1, <1>2 DEF ReproductionInv, MadeInv, ReplayInv, ReplayReproduces, Consequence, Working,
     Unreadable

LEMMA ReproductionInvStep ==
    CommandLineInv /\ ReproductionInv /\ [Next]_vars => ReproductionInv'
<1> SUFFICES ASSUME CommandLineInv, ReproductionInv, [Next]_vars PROVE ReproductionInv'
  OBVIOUS
<1>1. JobInv /\ RunInv /\ PackageInv
  BY DEF CommandLineInv, SealInv, AgreementInv
<1> QED
  BY <1>1, MadeInvStep, ReplayInvStep DEF ReproductionInv

\* Through any sequence of commands, kills and damaged files, and whatever runs and
\* replays came before: a replay fails on no package that verifies, so nothing of an
\* earlier run is left in its sink (scenarios._new_sink, evidence.replay_scenario).
THEOREM VerifiedPackagesReplay == Spec => []ReplayReproduces
<1>1. ReproductionInv => ReplayReproduces
  BY DEF ReproductionInv, ReplayInv
<1> QED
  BY <1>1, CommandLineInvInit, CommandLineInvStep, ReproductionInvInit, ReproductionInvStep,
     PTL DEF Spec

-----------------------------------------------------------------------------
(* The shapes of the state                                                 *)

\* A command answers with a code of its own, or starts.
LEMMA CommandShape ==
    ASSUME Command
    PROVE  /\ Begin /\ files' = files /\ faults' = faults
           /\ exits' = None \/ exits'.code \in ExitCodes
<1>1. ASSUME NEW command, NEW code \in ExitCodes, Answer(command, code)
      PROVE  /\ Begin /\ files' = files /\ faults' = faults /\ exits'.code \in ExitCodes
  BY <1>1 DEF Answer, Exit
<1>2. ASSUME NEW command, NEW calls, NEW arg, NEW todo, NEW code,
             StartJob(command, calls, arg, todo, code)
      PROVE  Begin /\ files' = files /\ faults' = faults /\ exits' = None
  BY <1>2 DEF StartJob
<1>3. /\ Traceback \in ExitCodes /\ ReplayCode \in ExitCodes
      /\ \A n \in {0, 1, 5} : n \in ExitCodes
      /\ \A path : RunCode(path) \in ExitCodes
      /\ \A ok : DryRunCode(ok) \in ExitCodes
      /\ \A witness, manifest : VerifyCode(witness, manifest) \in ExitCodes
  BY DEF Traceback, ReplayCode, RunCode, DryRunCode, VerifyCode, ExitCodes
<1>4. ASSUME NEW path, Run(path) \/ Demo(path)
      PROVE  Begin /\ files' = files /\ faults' = faults
             /\ (exits' = None \/ exits'.code \in ExitCodes)
  BY <1>1, <1>2, <1>3, <1>4 DEF Run, Demo
<1>5. ASSUME NEW vuln, NEW control, DryRun(vuln, control)
      PROVE  Begin /\ files' = files /\ faults' = faults
             /\ (exits' = None \/ exits'.code \in ExitCodes)
  BY <1>1, <1>2, <1>3, <1>5 DEF DryRun
<1>6. CASE VerifyDirectory \/ Inspect \/ VerifyConsequence \/ InspectPaths
  BY <1>1, <1>3, <1>6 DEF VerifyDirectory, Inspect, VerifyConsequence, InspectPaths
<1>7. ASSUME NEW name, VerifyFile(name)
      PROVE  Begin /\ files' = files /\ faults' = faults
             /\ (exits' = None \/ exits'.code \in ExitCodes)
  BY <1>1, <1>3, <1>7 DEF VerifyFile
<1>8. ASSUME NEW write \in BOOLEAN, Replay(write)
      PROVE  Begin /\ files' = files /\ faults' = faults
             /\ (exits' = None \/ exits'.code \in ExitCodes)
  BY <1>1, <1>2, <1>3, <1>8 DEF Replay
<1>9. ASSUME NEW n, NEW out, RunConsequence(n, out)
      PROVE  Begin /\ files' = files /\ faults' = faults /\ exits' = None
  BY <1>2, <1>9 DEF RunConsequence
<1>10. CASE ReplayConsequence
  BY <1>1, <1>2, <1>3, <1>10 DEF ReplayConsequence
<1> QED
  BY <1>4, <1>5, <1>6, <1>7, <1>8, <1>9, <1>10 DEF Command

FileNames == JsonNames \cup {Sums, Notice}

LEMMA NamesOfFiles ==
    /\ RunNames \cup {PackageFile, ReplayFile, ReportFile} = JsonNames
    /\ \A op \in Ops : op.name \in FileNames
<1>1. RunNames \cup {PackageFile, ReplayFile, ReportFile} = JsonNames
  BY DEF RunNames, RunFiles, JsonNames, JsonFiles
<1>2. ASSUME NEW name \in RunNames \cup {Notice, PackageFile} \cup JsonNames PROVE name \in FileNames
  BY <1>1, <1>2 DEF FileNames
<1>3. /\ \A name : WriteOp(name).name = name /\ StripOp(name).name = name
      /\ SealOp.name \in FileNames /\ ReplayOp.name \in FileNames /\ ReportOp.name \in FileNames
  BY <1>1, Operations DEF FileNames
<1> QED
  BY <1>1, <1>2, <1>3 DEF Ops

\* Every step leaves files of the directory's names, codes the commands give, and
\* counts within their bounds.
LEMMA DirectoryShape ==
    ASSUME JobInv, ShapeInv, [Next]_vars
    PROVE  DOMAIN files' \subseteq FileNames
<1>0. DOMAIN files \subseteq FileNames
  BY DEF ShapeInv, FileNames
<1>1. ASSUME NEW name \in FileNames, NEW doc, files' = With(name, doc)
      PROVE  DOMAIN files' \subseteq FileNames
  BY <1>0, <1>1 DEF With
<1>2. ASSUME NEW op, Due(op) PROVE Head(job.todo).name \in FileNames
  BY <1>2, TheHead, NamesOfFiles DEF Due
<1>3. Sums \in FileNames /\ ReplayFile \in FileNames /\ ReportFile \in FileNames
  BY NamesOfFiles DEF FileNames
<1>4. CASE Command \/ SinkCall \/ End \/ UNCHANGED vars
  BY <1>0, <1>4, CommandShape DEF SinkCall, End, vars, cliVars
<1>5. CASE WriteFile \/ Seal \/ WriteReplay \/ WriteReport
  BY <1>1, <1>2, <1>3, <1>5 DEF WriteFile, Seal, WriteReplay, WriteReport, PutFile
<1>6. CASE StripFile
  BY <1>0, <1>1, <1>2, <1>6 DEF StripFile, PutFile
<1>7. CASE Kill
  <2>1. CASE files' = files
    BY <1>0, <2>1
  <2>2. CASE files' # files
    <3>1. Working /\ job.todo # <<>> /\ files' = With(Head(job.todo).name, Torn)
      BY <1>7, <2>2 DEF Kill
    <3> QED
      BY <1>1, <3>1, TheHead, NamesOfFiles
  <2> QED
    BY <2>1, <2>2
<1>8. ASSUME NEW name \in DOMAIN files, Damage(name) PROVE DOMAIN files' \subseteq FileNames
  BY <1>0, <1>8 DEF Damage
<1> QED
  BY <1>4, <1>5, <1>6, <1>7, <1>8 DEF Next

LEMMA CountShape ==
    ASSUME RunInv, ShapeInv, [Next]_vars
    PROVE  /\ exits' = None \/ exits'.code \in ExitCodes
           /\ commands' \in 0..MaxCommands /\ faults' \in 0..MaxFaults
<1>0. /\ exits = None \/ exits.code \in ExitCodes
      /\ commands \in 0..MaxCommands /\ faults \in 0..MaxFaults
      /\ MaxCommands \in Nat /\ MaxFaults \in Nat
  BY CommandLineAssumption DEF ShapeInv
<1>1. CASE Command
  <2>1. commands' \in 0..MaxCommands
    BY <1>0, <1>1, CommandShape DEF Begin, Idle
  <2> QED
    BY <1>0, <1>1, <2>1, CommandShape
<1>2. CASE SinkCall \/ WriteFile \/ Seal \/ WriteReplay \/ WriteReport \/ UNCHANGED vars
  BY <1>0, <1>2 DEF SinkCall, WriteFile, Seal, WriteReplay, WriteReport, PutFile, vars, cliVars
<1>3. ASSUME NEW command, NEW code \in ExitCodes, Exit(command, code),
             UNCHANGED <<commands, faults>>
      PROVE  /\ exits'.code \in ExitCodes
             /\ commands' \in 0..MaxCommands /\ faults' \in 0..MaxFaults
  BY <1>0, <1>3 DEF Exit
<1>4. CASE StripFile
  <2>1. Traceback \in ExitCodes
    BY DEF Traceback, ExitCodes
  <2> QED
    BY <1>0, <1>3, <1>4, <2>1 DEF StripFile, PutFile
<1>5. CASE End
  <2>1. job.code \in ExitCodes
    BY <1>5 DEF End, Working, RunInv, Jobs
  <2>2. EndCode \in ExitCodes
    BY <2>1 DEF EndCode, ExitCodes
  <2> QED
    BY <1>3, <1>5, <2>2 DEF End
<1>6. CASE Kill \/ \E name \in DOMAIN files : Damage(name)
  <2>1. Fault /\ exits' = None /\ commands' = commands
    BY <1>6 DEF Kill, Damage
  <2>2. faults' \in 0..MaxFaults
    BY <1>0, <2>1 DEF Fault
  <2> QED
    BY <1>0, <2>1, <2>2
<1> QED
  BY <1>1, <1>2, <1>3, <1>4, <1>5, <1>6 DEF Next

\* Of the sink: one authorization is used, and there are no more rows than calls.
UsesAndRows ==
    /\ DOMAIN uses \subseteq {"authz-0001"}
    /\ Consequence => Len(commits) + Len(job.calls) <= 2

\* A call stores one row at the most, and counts a use of the authorization it presents.
LEMMA CallShape ==
    ASSUME SinkInv, NEW k, SubmitStep(k) \/ UnguardedStep(k) \/ LoseReceipts(k),
           k.entry = "submit" => k.authorization.authorization_id = "authz-0001",
           DOMAIN uses \subseteq {"authz-0001"}
    PROVE  /\ DOMAIN uses' \subseteq {"authz-0001"}
           /\ Len(commits') \in Nat /\ Len(commits') <= Len(commits) + 1
<1>0. commits \in Seq({x.commit : x \in Calls}) /\ Len(commits) \in Nat
  BY DEF SinkInv, SinkTypes
<1>s. ASSUME commits' = commits, uses' = uses
      PROVE  /\ DOMAIN uses' \subseteq {"authz-0001"}
             /\ Len(commits') \in Nat /\ Len(commits') <= Len(commits) + 1
  <2>1. PICK rows : rows = Len(commits)
    OBVIOUS
  <2>2. rows \in Nat /\ rows <= rows + 1 /\ Len(commits') = rows
    BY <1>0, <1>s, <2>1
  <2>3. DOMAIN uses' = DOMAIN uses
    BY <1>s
  <2> QED
    BY <2>1, <2>2, <2>3
<1>1. CASE LoseReceipts(k)
  BY <1>s, <1>1 DEF LoseReceipts
<1>2. ASSUME NEW c, SinkCommit(c) PROVE Len(commits') \in Nat /\ Len(commits') <= Len(commits) + 1
  BY <1>0, <1>2 DEF SinkCommit
<1>3. CASE UnguardedStep(k)
  BY <1>2, <1>3 DEF UnguardedStep, CommitUnguarded
<1>4. CASE SubmitStep(k)
  <2>1. k.entry = "submit" /\ Submit(k.commit, k.authorization, k.token)
    BY <1>4 DEF SubmitStep
  <2>2. CASE RefuseReplay(k.commit) \/ RefuseUnbound(k.commit, k.authorization, k.token)
    BY <1>s, <2>2 DEF RefuseReplay, RefuseUnbound, Refuse
  <2>3. CASE Admit(k.commit, k.authorization, k.token)
    <3>1. SinkCommit(k.commit) /\ RecordUse(k.authorization.authorization_id)
      BY <2>3 DEF Admit
    <3>2. DOMAIN uses' \subseteq {"authz-0001"}
      BY <2>1, <3>1 DEF RecordUse
    <3> QED
      BY <1>2, <3>1, <3>2
  <2> QED
    BY <2>1, <2>2, <2>3 DEF Submit
<1> QED
  BY <1>1, <1>3, <1>4

LEMMA SinkCallShape ==
    ASSUME SinkInv, RunInv, ShapeInv, SinkCall
    PROVE  UsesAndRows'
<1>1. /\ Consequence /\ job \in Jobs /\ job.calls # <<>>
      /\ Consequence' /\ job'.calls = Tail(job.calls)
  BY SinkCallIs
<1>2. PICK n \in ConsequenceNames : n = job.arg
  BY <1>1 DEF RunInv
<1> DEFINE k == Head(job.calls)
<1>3. k \in CallSet(n)
  BY <1>1, <1>2, HeadTailProperties DEF RunInv
<1>4. k.entry = "submit" => k.authorization.authorization_id = "authz-0001"
  BY <1>3, ScenariosAreShort, CommandLineAssumption DEF CallSet, Short
<1>5. SubmitStep(k) \/ UnguardedStep(k) \/ LoseReceipts(k)
  BY DEF SinkCall
<1>6. DOMAIN uses' \subseteq {"authz-0001"} /\ Len(commits') \in Nat /\ Len(commits') <= Len(commits) + 1
  <2> HIDE DEF k
  <2> QED
    BY <1>4, <1>5, CallShape DEF ShapeInv
<1>7. /\ Len(job'.calls) = Len(job.calls) - 1 /\ Len(job.calls) \in Nat
      /\ Len(commits) \in Nat /\ Len(commits) + Len(job.calls) <= 2
  <2>1. job.calls \in Seq(KnownCalls)
    BY <1>1 DEF Jobs
  <2>2. Len(commits) \in Nat
    BY DEF SinkInv, SinkTypes
  <2> QED
    BY <1>1, <2>1, <2>2 DEF ShapeInv
<1> QED
  BY <1>6, <1>7 DEF UsesAndRows

LEMMA SinkShape ==
    ASSUME SinkInv, JobInv, RunInv, MadeInv, ReplayInv, ShapeInv, [Next]_vars
    PROVE  UsesAndRows'
<1>1. ASSUME SameSink PROVE UsesAndRows'
  BY <1>1 DEF SameSink, ShapeInv, UsesAndRows, sinkVars, ledgerVars
<1>2. ASSUME StartedSink PROVE UsesAndRows'
  <2>1. commits = <<>> /\ DOMAIN uses \subseteq {"authz-0001"} /\ UNCHANGED <<commits, uses>>
    BY <1>2 DEF StartedSink, RunInv, ShapeInv, Consequence, sinkVars, ledgerVars
  <2>2. PICK n \in ConsequenceNames : job'.calls = Scenario[n].calls
    BY <1>2 DEF StartedSink
  <2>3. Len(job'.calls) \in 0..2
    BY <2>2, CallsOfScenario
  <2>4. PICK rows, left : rows = Len(commits') /\ left = Len(job'.calls)
    OBVIOUS
  <2>5. rows = 0 /\ left \in 0..2
    BY <2>1, <2>3, <2>4
  <2>6. rows + left <= 2
    BY <2>5
  <2>7. DOMAIN uses' \subseteq {"authz-0001"}
    BY <2>1
  <2> QED
    BY <2>4, <2>6, <2>7 DEF UsesAndRows
<1>3. CASE Command
  BY <1>1, <1>2, <1>3, CommandSinks
<1>4. CASE SinkCall
  BY <1>4, SinkCallShape
<1>5. CASE WriteFile \/ Seal \/ WriteReplay \/ WriteReport \/ StripFile
  BY <1>1, <1>5, DirectorySteps DEF WriteStep, BrokenOff
<1>6. CASE End \/ Kill
  BY <1>6 DEF End, Kill, Exit, DropSink, UsesAndRows, Consequence
<1>7. CASE (\E name \in DOMAIN files : Damage(name)) \/ UNCHANGED vars
  <2>1. UNCHANGED <<job, sinkVars>>
    BY <1>7 DEF Damage, vars, cliVars
  <2> QED
    BY <1>1, <2>1 DEF SameSink, Consequence
<1> QED
  BY <1>3, <1>4, <1>5, <1>6, <1>7 DEF Next

LEMMA ShapeInvStep ==
    CommandLineInv /\ ReproductionInv /\ ShapeInv /\ [Next]_vars => ShapeInv'
<1> SUFFICES ASSUME CommandLineInv, ReproductionInv, ShapeInv, [Next]_vars PROVE ShapeInv'
  OBVIOUS
<1>1. SinkInv /\ JobInv /\ RunInv /\ MadeInv /\ ReplayInv
  BY DEF CommandLineInv, LedgerInv, SealInv, AgreementInv, ReproductionInv
<1>2. DOMAIN files' \subseteq JsonNames \cup {Sums, Notice}
  BY <1>1, DirectoryShape DEF FileNames
<1>3. UsesAndRows'
  BY <1>1, SinkShape
<1> QED
  BY <1>1, <1>2, <1>3, CountShape DEF ShapeInv, UsesAndRows

\* The type invariant of the command line: the directory holds only the files its
\* commands write, a command answers with a code it documents, and outside a run there
\* is nothing in a sink, so that no use count and no key outlives one (cli.main,
\* scenarios._new_sink).
THEOREM CommandLineIsTyped == Spec => []CLTypeOK
<1>1. Init => ShapeInv
  <2> SUFFICES ASSUME Init PROVE ShapeInv
    OBVIOUS
  <2> QED
    BY CommandLineAssumption DEF Init, NewSink, ShapeInv, Consequence
<1>2. CommandLineInv /\ ReproductionInv /\ ShapeInv => CLTypeOK
  <2> SUFFICES ASSUME CommandLineInv, ReproductionInv, ShapeInv PROVE CLTypeOK
    OBVIOUS
  <2>1. /\ SinkInv /\ JobInv /\ RunInv /\ MadeInv
    BY DEF CommandLineInv, LedgerInv, SealInv, AgreementInv, ReproductionInv
  <2>2. Len(commits) <= 2
    <3>1. CASE Consequence
      <4>1. Len(job.calls) \in Nat
        BY <2>1, <3>1 DEF RunInv, Jobs, Consequence
      <4>2. Len(commits) \in Nat
        BY <2>1 DEF SinkInv, SinkTypes
      <4> QED
        BY <3>1, <4>1, <4>2 DEF ShapeInv
    <3>2. CASE ~ Consequence
      BY <2>1, <3>2 DEF RunInv
    <3> QED
      BY <3>1, <3>2
  <2>3. ~ Working => commits = <<>> /\ seen = {} /\ DOMAIN uses = {}
    BY <2>1 DEF Working, Consequence, MadeInv, SinkNow, FreshSink
  <2> QED
    BY <2>1, <2>2, <2>3 DEF CLTypeOK, ShapeInv, JobInv, ExitCodes
<1> QED
  BY <1>1, <1>2, CommandLineInvInit, CommandLineInvStep, ReproductionInvInit,
     ReproductionInvStep, ShapeInvStep, PTL DEF Spec

=============================================================================
