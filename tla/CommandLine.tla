------------------------------ MODULE CommandLine ------------------------------
(***************************************************************************)
(* The command line (oat/cli) over one package directory: the pipeline of  *)
(* RB-001 (oat/pipeline, oat/manifest), its replay (oat/replay), the dry   *)
(* run (oat/dryrun) and the consequence runs (oat/evidence/replay).        *)
(*                                                                         *)
(* A command is a process.  What it writes it writes file by file, and it  *)
(* may be killed between two files or inside one; between commands a file  *)
(* of the directory may be lost, torn or replaced.                         *)
(***************************************************************************)
EXTENDS ConsequenceRun, ReferenceBoundary

CONSTANTS ScenarioDocs,     \* path <<directory, name>> -> scenario, of existing files
          Absent,           \* a path at which there is no file
          ConsequenceNames, \* the consequence scenarios that are run
          MaxCandidates,    \* DeterministicAdversary.max_candidates
          MaxCommands, MaxFaults  \* bounds of the model

\* The calls of the scenarios.
KnownCalls ==
    UNION {{Scenario[n].calls[i] : i \in DOMAIN Scenario[n].calls} : n \in ConsequenceNames}

ASSUME CommandLineAssumption ==
    /\ NotApplicable # SinkId
    /\ Absent \notin DOMAIN ScenarioDocs
    /\ ConsequenceNames \subseteq DOMAIN Scenario
    /\ \A n \in ConsequenceNames : Scenario[n].calls \in Seq(KnownCalls)
    /\ \A call \in KnownCalls :
        /\ call.entry = "submit" => call \in Submissions
        /\ call.entry = "unguarded" => call \in Bypasses
    /\ MaxCandidates \in Nat \ {0} /\ MaxCommands \in Nat /\ MaxFaults \in Nat

VARIABLES
    files,    \* file name -> document, of the files in the directory
    job,      \* the running command, or None
    exits,    \* [command, code] of the last command, or None
    commands, faults  \* how many there have been

cliVars == <<files, job, exits, commands, faults>>
vars == <<cliVars, sinkVars>>

RunFiles == <<"manifest.json", "witness.json", "verifier-result.json">>
RunNames == {RunFiles[i] : i \in DOMAIN RunFiles}
Sums == "SHA256SUMS.json"
ReplayFile == "replay-result.json"
ReportFile == "dryrun-report.json"
Notice == "README_METHOD_DEVELOPMENT_ONLY.md"
PackageFile == "consequence-run.json"

\* directory.glob("*.json"), sorted, without the sums.
JsonFiles == <<PackageFile, ReportFile, RunFiles[1], ReplayFile, RunFiles[3], RunFiles[2]>>
JsonNames == {JsonFiles[i] : i \in DOMAIN JsonFiles}

\* The content of a file that is no JSON: nothing can be read of it, where every
\* document has fields.
Torn == <<>>

Paths == DOMAIN ScenarioDocs \cup {Absent}

-----------------------------------------------------------------------------
(* pipeline.run_scenario: the three documents of a run.                    *)

\* The dry run's script: "10,20,21", "5,20,17" and a line that is discarded.
ScriptedLines == <<<<10, 20, 21>>, <<5, 20, 17>>, <<None, None, None>>>>

Candidates(path, adversary) ==
    IF adversary = "grid" THEN GridCandidates(ScenarioDocs[path], MaxCandidates)
    ELSE Parse(ScriptedLines)

BuildRunManifest(path, adversary) ==
    [scenario |-> [id |-> ScenarioDocs[path].scenario_id, name |-> path[2],
                   digest |-> Digest(ScenarioDocs[path])],
     falsifier |-> FalsifierIdentity,
     adversary |-> adversary,
     runtime |-> [scenario_source |-> path]]

WitnessOf(path, adversary) ==
    LET s == ScenarioDocs[path]
        candidates == Candidates(path, adversary)
        selected == Selected(s, candidates)
        trace == Execute(s, candidates[selected])
    IN  BuildWitness(BuildRunManifest(path, adversary), trace, Counterexample(trace),
                     adversary, Transcript(s, candidates), selected)

Documents ==
    [path \in DOMAIN ScenarioDocs |-> [adversary \in {"grid", "scripted"} |->
        LET manifest == BuildRunManifest(path, adversary)
            witness == WitnessOf(path, adversary)
        IN  [name \in RunNames |->
                CASE name = "manifest.json" -> manifest
                  [] name = "witness.json" -> witness
                  [] name = "verifier-result.json" -> Verify(witness, manifest)]]]

\* The runs there can be.
Runs == (DOMAIN ScenarioDocs) \X {"grid", "scripted"}
RunOf == [run \in Runs |-> Documents[run[1]][run[2]]]

DispositionOf(path, adversary) == RunOf[<<path, adversary>>]["verifier-result.json"].disposition

-----------------------------------------------------------------------------
(* What commands read                                                      *)

Unreadable(name) == ~ (name \in DOMAIN files /\ files[name] # Torn)

\* write_sha256sums: the exact bytes of every other file.
SumsOf == [name \in DOMAIN files \ {Sums} |-> Digest(files[name])]

\* verify_sha256sums, when SHA256SUMS.json can be read: the recorded names only.
SumsHold ==
    /\ ~ Unreadable(Sums)
    /\ \A name \in DOMAIN files[Sums] :
        name \in DOMAIN files /\ Digest(files[name]) = files[Sums][name]

\* replay._scenario_source: the recorded path, else the scenario of that name.
ScenarioSource(manifest) ==
    IF "runtime" \in DOMAIN manifest
       /\ manifest.runtime.scenario_source \in DOMAIN ScenarioDocs
    THEN manifest.runtime.scenario_source
    ELSE <<"scenarios/rb001", manifest.scenario.name>>

CanReplay ==
    /\ \A i \in DOMAIN RunFiles : ~ Unreadable(RunFiles[i])
    /\ ScenarioSource(files["manifest.json"]) \in DOMAIN ScenarioDocs

\* replay_run: the recorded variation, adversary and transcript, executed and
\* judged again.  The digest of the scenario in the manifest is not looked at.
Reexecuted ==
    Execute(ScenarioDocs[ScenarioSource(files["manifest.json"])],
            files["witness.json"].trace.variation)

RebuiltWitness ==
    LET recorded == files["witness.json"]
    IN  BuildWitness(files["manifest.json"], Reexecuted, Counterexample(Reexecuted),
                     recorded.adversary, recorded.transcript,
                     recorded.selected_candidate_index)

Rejudged == Verify(RebuiltWitness, files["manifest.json"])

\* Mutant: only the trace and the disposition are compared.
ReplayOkLoose ==
    /\ DigestObject(Reexecuted) = files["witness.json"].trace_digest
    /\ Rejudged.disposition = files["verifier-result.json"].disposition

ReplayOk ==
    /\ DigestObject(Reexecuted) = files["witness.json"].trace_digest
    /\ DigestObject(RebuiltWitness) = DigestObject(files["witness.json"])
    /\ Rejudged.evidence_digest = files["verifier-result.json"].evidence_digest
    /\ Rejudged.disposition = files["verifier-result.json"].disposition

ReplayResult ==
    [disposition |-> Rejudged.disposition, evidence_digest |-> Rejudged.evidence_digest,
     replay_ok |-> ReplayOk, runtime |-> "host"]

\* The checks of the dry run, but for the constant one that no provider ran.
DryRunScope == [properties |-> {"RB001-P1"}, families |-> {"ATTACK-FAMILY-01"}]
SpentBudget == [used |-> 10, allowed |-> 10, families |-> {}]

DryRunChecks(found, clean) ==
    LET Judged(p, d, budget) == TrialDisposition(p, d, DryRunScope, budget)
    IN  {Judged("RB001-P1", {found}, None) = "COUNTEREXAMPLE_VALIDATED",
         Judged("RB001-P1", {clean}, None) = "NOT_A_COUNTEREXAMPLE",
         Judged("NOT-DECLARED", {found}, None) = "OUTSIDE_SCOPE",
         Judged("RB001-P1", {found, clean}, None) = "VERIFIER_CONFLICT",
         Judged("RB001-P1", {clean}, SpentBudget) = "COVERAGE_LIMITED"}

DryRunOk(vuln, control) ==
    FALSE \notin DryRunChecks(DispositionOf(vuln, "scripted"),
                             DispositionOf(control, "scripted"))

DryRunCode(ok) == IF ok THEN 0 ELSE 7

-----------------------------------------------------------------------------
(* Commands.  A command that writes nothing is one step; the others leave  *)
(* a job with the list of their writes.                                    *)

Init ==
    /\ files = [name \in {} |-> None]
    /\ job = None /\ exits = None /\ commands = 0 /\ faults = 0
    /\ NewSink

Idle == job = None /\ commands < MaxCommands

Begin == Idle /\ commands' = commands + 1

Exit(command, code) ==
    /\ job' = None /\ exits' = [command |-> command, code |-> code]

\* An exception nobody catches.
Traceback == 1

\* A command that is over at once.
Answer(command, code) ==
    Begin /\ Exit(command, code) /\ UNCHANGED <<files, faults, sinkVars>>

StartJob(command, calls, arg, todo, code) ==
    /\ Begin
    /\ job' = [command |-> command, calls |-> calls, arg |-> arg, todo |-> todo,
               code |-> code]
    /\ exits' = None
    /\ UNCHANGED <<files, faults, sinkVars>>

WriteOp(name) == [op |-> "write", name |-> name]
SealOp == [op |-> "seal", name |-> Sums]
ReplayOp == [op |-> "replay", name |-> ReplayFile]
StripOp(name) == [op |-> "strip", name |-> name]
ReportOp == [op |-> "report", name |-> ReportFile]

\* write_run_package
WriteRun == [i \in DOMAIN RunFiles |-> WriteOp(RunFiles[i])] \o <<SealOp>>

RunCode(path) == IF DispositionOf(path, "grid") = Rejected THEN 3 ELSE 0

Run(path) ==
    \/ path = Absent /\ Answer("run", Traceback)
    \/ path # Absent /\ Answer("run", RunCode(path))
    \/ path # Absent /\ StartJob("run", <<>>, <<path, "grid">>, WriteRun, RunCode(path))

VerifyCode(witness, manifest) == IF V1Disposition(witness, manifest) = Rejected THEN 3 ELSE 0

\* verify a directory: both files must be there.
VerifyDirectory ==
    \/ /\ Unreadable("witness.json") \/ Unreadable("manifest.json")
       /\ Answer("verify", Traceback)
    \/ /\ ~ Unreadable("witness.json") /\ ~ Unreadable("manifest.json")
       /\ Answer("verify", VerifyCode(files["witness.json"], files["manifest.json"]))

\* verify any JSON file: a manifest beside it binds it, if there is one.
VerifyFile(name) ==
    LET manifest == IF RunFiles[1] \in DOMAIN files THEN files["manifest.json"] ELSE None
    IN  /\ name \in DOMAIN files
        /\ IF files[name] = Torn \/ manifest = Torn THEN Answer("verify", Traceback)
           ELSE Answer("verify", VerifyCode(files[name], manifest))

ReplayCode == IF ReplayOk THEN 0 ELSE 4

Replay(write) ==
    \/ ~ CanReplay /\ Answer("replay", Traceback)
    \/ CanReplay /\ ~ write /\ Answer("replay", ReplayCode)
    \/ CanReplay /\ write /\ StartJob("replay", <<>>, None, <<ReplayOp, SealOp>>, ReplayCode)

\* Sums first; the three documents must be readable all the same.
Inspect ==
    \/ /\ \/ Sums \in DOMAIN files /\ files[Sums] = Torn
          \/ \E i \in DOMAIN RunFiles : Unreadable(RunFiles[i])
       /\ Answer("inspect", Traceback)
    \/ /\ Sums \in DOMAIN files => files[Sums] # Torn
       /\ \A i \in DOMAIN RunFiles : ~ Unreadable(RunFiles[i])
       /\ Answer("inspect", IF SumsHold THEN 0 ELSE 5)

Demo(path) ==
    \/ path = Absent /\ Answer("demo", Traceback)
    \/ /\ path # Absent
       /\ StartJob("demo", <<>>, <<path, "grid">>,
            WriteRun \o <<ReplayOp, WriteOp(Notice)>>
            \o [i \in DOMAIN JsonFiles |-> StripOp(JsonFiles[i])] \o <<SealOp, SealOp>>,
            0)

\* A control that cannot be loaded raises when the package is already written.
DryRun(vuln, control) ==
    \/ /\ vuln = Absent \/ control = Absent
       /\ Answer("dryrun", Traceback)
    \/ /\ vuln # Absent /\ control = Absent
       /\ StartJob("dryrun", <<>>, <<vuln, "scripted">>, WriteRun, Traceback)
    \/ /\ vuln # Absent /\ control # Absent
       /\ \E ok \in {DryRunOk(vuln, control)} :
            \/ Answer("dryrun", DryRunCode(ok))
            \/ StartJob("dryrun", <<>>, <<vuln, "scripted">>,
                    WriteRun \o <<ReportOp>>, DryRunCode(ok))

\* The package is built when the calls have been made; out says if it is kept.
RunConsequence(n, out) ==
    StartJob("consequence run", Scenario[n].calls, n,
             IF out THEN <<WriteOp(PackageFile)>> ELSE <<>>, 0)

VerifyConsequence ==
    \/ Unreadable(PackageFile) /\ Answer("consequence verify", Traceback)
    \/ /\ ~ Unreadable(PackageFile)
       /\ Answer("consequence verify",
                 IF PackageVerifies(files[PackageFile]) THEN 0 ELSE 1)

\* The name of the scenario is the package's own.
ReplayConsequence ==
    \/ Unreadable(PackageFile) /\ Answer("consequence replay", Traceback)
    \/ /\ ~ Unreadable(PackageFile)
       /\ files[PackageFile].scenario \notin ConsequenceNames
       /\ Answer("consequence replay", Traceback)
    \/ /\ ~ Unreadable(PackageFile)
       /\ \E n \in ConsequenceNames :
            /\ n = files[PackageFile].scenario
            /\ StartJob("consequence replay", Scenario[n].calls, n, <<>>, 0)

InspectPaths ==
    Answer("paths inspect", IF Unreadable(PackageFile) THEN Traceback ELSE 0)

-----------------------------------------------------------------------------
(* Steps of a job                                                          *)

Working == job # None

\* A call of the scenario function.
SinkCall ==
    /\ Working /\ job.calls # <<>>
    /\ LET call == Head(job.calls)
       IN  SubmitStep(call) \/ UnguardedStep(call) \/ LoseReceipts(call)
    /\ job' = [job EXCEPT !.calls = Tail(@)]
    /\ UNCHANGED <<files, exits, commands, faults>>

Due(op) == Working /\ job.calls = <<>> /\ job.todo # <<>> /\ Head(job.todo).op = op

\* The directory with this document under that name.
With(name, doc) == [f \in DOMAIN files \cup {name} |-> IF f = name THEN doc ELSE files[f]]

PutFile(name, doc) ==
    /\ files' = With(name, doc)
    /\ job' = [job EXCEPT !.todo = Tail(@)]
    /\ UNCHANGED <<exits, commands, faults, sinkVars>>

\* The argument of a job is the run it was started for, or the name of its
\* consequence scenario.
DocumentFor(name) ==
    CASE name = PackageFile -> Package(job.arg, SinkState)
      [] name = Notice -> [notice |-> "METHOD_DEVELOPMENT_ONLY"]
      [] OTHER -> RunOf[job.arg][name]

WriteFile ==
    /\ Due("write")
    /\ PutFile(Head(job.todo).name, DocumentFor(Head(job.todo).name))

Seal == Due("seal") /\ PutFile(Sums, SumsOf)

WriteReplay == Due("replay") /\ PutFile(ReplayFile, ReplayResult)

WriteReport ==
    /\ Due("report")
    /\ PutFile(ReportFile,
               [dryrun_ok |-> job.code = DryRunCode(TRUE), replay_ok |-> ReplayOk])

\* strip_runtime_from_run_dir, file by file: another command's torn file in the
\* same directory ends the demo half way.
StripFile ==
    /\ Due("strip")
    /\ LET name == Head(job.todo).name IN
       \/ /\ name \in DOMAIN files /\ files[name] = Torn
          /\ Exit(job.command, Traceback)
          /\ UNCHANGED <<files, commands, faults, sinkVars>>
       \/ /\ name \in DOMAIN files /\ files[name] # Torn
          /\ "runtime" \in DOMAIN files[name]
          /\ PutFile(name, Strip(files[name]))
       \/ /\ name \in DOMAIN files /\ files[name] # Torn => "runtime" \notin DOMAIN files[name]
          /\ name \in DOMAIN files => files[name] # Torn
          /\ job' = [job EXCEPT !.todo = Tail(@)]
          /\ UNCHANGED <<files, exits, commands, faults, sinkVars>>

EndCode ==
    CASE job.command = "demo" ->
            IF files[ReplayFile].replay_ok /\ SumsHold THEN 0 ELSE 6
      [] job.command = "consequence replay" ->
            IF ReplayMatches(Package(job.arg, SinkState), files[PackageFile]) THEN 0 ELSE 1
      [] OTHER -> job.code

End ==
    /\ Working /\ job.calls = <<>> /\ job.todo = <<>>
    /\ Exit(job.command, EndCode)
    /\ DropSink
    /\ UNCHANGED <<files, commands, faults>>

-----------------------------------------------------------------------------
(* The environment                                                         *)

Fault == faults < MaxFaults /\ faults' = faults + 1

\* The process dies, possibly inside the write it was about to do.
Kill ==
    /\ Fault /\ Working
    /\ files' \in {files} \cup
            (IF job.calls = <<>> /\ job.todo # <<>>
             THEN {With(Head(job.todo).name, Torn)} ELSE {})
    /\ job' = None /\ exits' = None
    /\ DropSink
    /\ UNCHANGED commands

\* What a file may be replaced by: the same file of another run, the claim of
\* the witness, the verdict or the scenario of the package turned round.
Replacements(name) ==
    {Torn}
    \cup (IF name \in RunNames
          THEN {RunOf[<<path, "grid">>][name] : path \in DOMAIN ScenarioDocs} ELSE {})
    \cup (IF name = "witness.json" /\ files[name] # Torn
          THEN {[files[name] EXCEPT !.claimed_counterexample = ~ @]} ELSE {})
    \cup (IF name = PackageFile /\ files[name] # Torn
          THEN {[files[name] EXCEPT !.verdict = NoCounterexample],
                [files[name] EXCEPT !.scenario = "no scenario"]} ELSE {})

Damage(name) ==
    /\ Fault /\ ~ Working
    /\ files' \in {[f \in DOMAIN files \ {name} |-> files[f]]}
            \cup {[files EXCEPT ![name] = doc] : doc \in Replacements(name)}
    /\ exits' = None
    /\ UNCHANGED <<job, commands, sinkVars>>

Command ==
    \/ \E path \in Paths : Run(path) \/ Demo(path)
    \/ \E vuln, control \in Paths : DryRun(vuln, control)
    \/ VerifyDirectory
    \/ \E name \in JsonNames : VerifyFile(name)
    \/ \E write \in BOOLEAN : Replay(write)
    \/ Inspect
    \/ \E n \in ConsequenceNames, out \in BOOLEAN : RunConsequence(n, out)
    \/ VerifyConsequence
    \/ ReplayConsequence
    \/ InspectPaths

Next ==
    \/ Idle /\ Command
    \/ SinkCall \/ WriteFile \/ Seal \/ WriteReplay \/ WriteReport \/ StripFile \/ End
    \/ Kill
    \/ \E name \in DOMAIN files : Damage(name)

Spec == Init /\ [][Next]_vars

=============================================================================
