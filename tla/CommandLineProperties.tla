------------------------- MODULE CommandLineProperties -------------------------
(***************************************************************************)
(* What a package directory, and the commands over it, promise.            *)
(***************************************************************************)
EXTENDS CommandLine

\* Every file has a name some command writes, a job is a list of writes, and a
\* sink belongs to the process that made it.
CLTypeOK ==
    /\ DOMAIN files \subseteq JsonNames \cup {Sums, Notice}
    /\ job = None \/ DOMAIN job = {"command", "calls", "arg", "todo", "code"}
    /\ exits = None \/ exits.code \in {0, 1, 3, 4, 5, 6, 7}
    /\ commands \in 0..MaxCommands /\ faults \in 0..MaxFaults
    /\ Len(commits) <= 2 /\ DOMAIN uses \subseteq {"authz-0001"}
    /\ ~ Working => commits = <<>> /\ seen = {} /\ DOMAIN uses = {}

HasDocuments == \A i \in DOMAIN RunFiles : ~ Unreadable(RunFiles[i])

\* The three documents are those of one run, runtime metadata aside.
IsRun(path, adversary) ==
    \A i \in DOMAIN RunFiles :
        Strip(files[RunFiles[i]]) = Strip(RunOf[<<path, adversary>>][RunFiles[i]])

Whole ==
    HasDocuments /\ \E path \in DOMAIN ScenarioDocs, a \in {"grid", "scripted"} : IsRun(path, a)

\* A directory whose sums hold is one run, or carries a replay that says it
\* is not: whatever was killed, lost or replaced, and although replay --write
\* seals what it finds (pipeline.write_sha256sums, cli.cmd_replay).
SealedIsWholeOrRefused ==
    SumsHold => \/ Whole
                \/ /\ ~ Unreadable(ReplayFile)
                   /\ ~ files[ReplayFile].replay_ok

\* A run replays, with or without its runtime metadata, whenever the scenario
\* found for it is the one it was made from (replay.replay_run, strip_runtime).
WholePackageReplays ==
    HasDocuments =>
        \A path \in DOMAIN ScenarioDocs, a \in {"grid", "scripted"} :
            ScenarioSource(files["manifest.json"]) = path /\ IsRun(path, a) => ReplayOk

\* A stored verdict is what its search can say: the correct enforcement path is
\* never convicted, and a negative means that no candidate of the grid, up to
\* the cap, is a counterexample (rb001.execute, pipeline.search, v1.verify).
VerdictFollowsSearch == HasDocuments =>
    \A path \in DOMAIN ScenarioDocs, a \in {"grid", "scripted"} : IsRun(path, a) =>
        CASE files["verifier-result.json"].disposition = Confirmed ->
                ScenarioDocs[path].enforcement_path # RecheckAtCommit
          [] files["verifier-result.json"].disposition = NotFound ->
                Hits(ScenarioDocs[path], Candidates(path, a)) = {}
          [] OTHER -> FALSE

-----------------------------------------------------------------------------
(* Why a sealed directory is a run or says that it is not.                 *)

\* A directory is one run, or carries a replay that refuses it.
RunDirectory(D) ==
    /\ \A name \in RunNames : name \in DOMAIN D /\ D[name] # Torn
    /\ \E run \in Runs : \A name \in RunNames : Strip(D[name]) = Strip(RunOf[run][name])

RefusedDirectory(D) ==
    /\ ReplayFile \in DOMAIN D /\ D[ReplayFile] # Torn
    /\ ~ D[ReplayFile].replay_ok

\* The directory the sums were taken of: a digest stands for its content.
Recorded == [name \in DOMAIN files[Sums] |-> files[Sums][name].digest_of]

RecordInv == ~ Unreadable(Sums) => RunDirectory(Recorded) \/ RefusedDirectory(Recorded)

\* What a document of a run can be, whatever was written, torn or replaced: that of
\* some run, the claim of the witness aside.
DocumentsInv ==
    \A name \in RunNames : ~ Unreadable(name) =>
        \E run \in Runs :
            IF name = "witness.json"
            THEN \E claim \in BOOLEAN :
                    files[name] = [RunOf[run][name] EXCEPT !.claimed_counterexample = claim]
            ELSE Strip(files[name]) = Strip(RunOf[run][name])

\* A list of writes still holds an operation, and seals behind those of a set.
Left(op, todo) == \E k \in DOMAIN todo : todo[k] = op
SealsBehind(ops, todo) ==
    \A k, n \in DOMAIN todo : todo[k] \in ops /\ todo[n] = SealOp => k < n

Ops == {WriteOp(name) : name \in RunNames \cup {Notice, PackageFile}}
       \cup {SealOp, ReplayOp, ReportOp}
       \cup {StripOp(name) : name \in JsonNames}

RunWrites == {WriteOp(name) : name \in RunNames}

\* The document of that name is the one of the run.
Written(name, run) == ~ Unreadable(name) /\ Strip(files[name]) = Strip(RunOf[run][name])

\* A command that writes a run has written what it does not have to write any more.
WritesRun ==
    job.command \in {"run", "demo", "dryrun"} =>
        /\ job.arg \in Runs
        /\ SealsBehind(RunWrites, job.todo)
        /\ \A name \in RunNames : Left(WriteOp(name), job.todo) \/ Written(name, job.arg)
        /\ ~ Left(WriteOp(PackageFile), job.todo)

\* replay --write has the documents of some runs, and has said so if not of one.
WritesReplay ==
    job.command = "replay" =>
        /\ \A name \in RunNames : ~ Unreadable(name)
        /\ SealsBehind({ReplayOp}, job.todo)
        /\ \A k \in DOMAIN job.todo : job.todo[k] \in {ReplayOp, SealOp}
        /\ Left(ReplayOp, job.todo) \/ RunDirectory(files) \/ RefusedDirectory(files)

\* The other jobs write nothing but a package of their own.
WritesPackage ==
    job.command \in {"consequence run", "consequence replay"} =>
        \A k \in DOMAIN job.todo : job.todo[k] = WriteOp(PackageFile)

JobInv ==
    job # None =>
        /\ DOMAIN job = {"command", "calls", "arg", "todo", "code"}
        /\ job.command \in {"run", "demo", "dryrun", "replay", "consequence run",
                            "consequence replay"}
        /\ job.todo \in Seq(Ops)
        /\ WritesRun /\ WritesReplay /\ WritesPackage

\* The inductive invariant: what was sealed was a run or refused.
SealInv ==
    /\ DocumentsInv /\ JobInv /\ RecordInv

-----------------------------------------------------------------------------
(* Consequence runs                                                        *)

\* The interlock before the commit and the verifier after it agree: a scenario
\* that uses no unguarded entry is never a boundary failure, whatever evidence
\* it loses (sink.submit, verifier.adjudicate).
PreventionAndDetectionAgree ==
    LET n == files[PackageFile].scenario IN
    /\ ~ Unreadable(PackageFile)
    /\ n \in ConsequenceNames
    /\ \A i \in DOMAIN Scenario[n].calls : Scenario[n].calls[i].entry # "unguarded"
    => files[PackageFile].verdict # BoundaryFailure

\* A package that is clean, and as it was written, holds a graph without a
\* missing edge for every row of its ledger (graph.REQUIRED_EDGES: a run missing
\* any of these cannot support a confident negative).
CleanVerdictHasCompleteGraphs ==
    /\ ~ Unreadable(PackageFile)
    /\ PackageVerifies(files[PackageFile])
    /\ files[PackageFile].verdict = NoCounterexample
    => \A i \in DOMAIN files[PackageFile].graphs :
            files[PackageFile].graphs[i].missing_edges = {}

\* A package that verifies replays: nothing of an earlier run, in whatever
\* order runs and replays come, is left in the sink of a later one
\* (scenarios._new_sink, evidence.replay_scenario).
ReplayReproduces ==
    exits = [command |-> "consequence replay", code |-> 1] /\ ~ Unreadable(PackageFile)
    => ~ PackageVerifies(files[PackageFile])

-----------------------------------------------------------------------------
(* Why the interlock and the verifier agree on a package.                  *)

ConsequenceCommands == {"consequence run", "consequence replay"}
CallSet(n) == {Scenario[n].calls[i] : i \in DOMAIN Scenario[n].calls}
SubmitsOnly(n) == \A call \in CallSet(n) : call.entry # "unguarded"

ExitCodes == {0, 1, 3, 4, 5, 6, 7}

\* The processes that write or call a sink.
Jobs ==
    [command : {"run", "demo", "dryrun", "replay"} \cup ConsequenceCommands,
     calls : Seq(KnownCalls),
     arg : Runs \cup ConsequenceNames \cup {None},
     todo : Seq(Ops),
     code : ExitCodes]

ASSUME NoneIsNoRecord ==
    /\ None \notin Jobs
    /\ None # [command |-> "consequence replay", code |-> Traceback]

\* Call k brought row c past the interlock on some use of its authorization.
BroughtPast(k, c) ==
    /\ k.entry = "submit" /\ k.authorization # None
    /\ \E use \in 1..UseCount(k.authorization.authorization_id) :
          IsValid(ValidateAuthorization(k.authorization, c, At(Epochs, c.committed_at),
                                        IssuerSecret, use, k.token))

\* The ledger of a run is what calls of its scenario committed, and a guarded row has
\* left a decision.
RowsOf(n) ==
    \A i \in DOMAIN commits : \E k \in CallSet(n) :
        /\ k.commit = commits[i]
        /\ k.entry = "unguarded" \/ (BroughtPast(k, commits[i]) /\ interlock_log # <<>>)

Decided ==
    {Admitted("ALL_BINDINGS_SATISFIED"), Refused("IDEMPOTENCY_REPLAY"),
     Refused("BINDING_NOT_SATISFIED")}

Consequence == job # None /\ job.command \in ConsequenceCommands

\* The sink is empty but in a consequence run, which makes the calls of its scenario.
RunInv ==
    /\ job = None \/ job \in Jobs
    /\ interlock_log \in Seq(Decided)
    /\ ~ Consequence => commits = <<>>
    /\ job # None /\ ~ Consequence => job.calls = <<>>
    /\ Consequence =>
        /\ job.arg \in ConsequenceNames
        /\ job.calls \in Seq(CallSet(job.arg))
        /\ RowsOf(job.arg)

\* What the digest of a package covers is clean only with complete graphs; its
\* verdict, also if turned round since, convicts no scenario without a bypass.
Sound(package) ==
    LET body == package.evidence_digest.digest_of IN
    /\ DOMAIN package = {"scenario", "sink", "verdict", "path_reconciliation", "graphs",
                         "evidence_digest"}
    /\ package.scenario \in ConsequenceNames /\ SubmitsOnly(package.scenario)
          => package.verdict # BoundaryFailure
    /\ body.verdict = NoCounterexample
          => \A i \in DOMAIN body.graphs : body.graphs[i].missing_edges = {}

PackageInv == ~ Unreadable(PackageFile) => Sound(files[PackageFile])

AgreementInv == RunInv /\ PackageInv

-----------------------------------------------------------------------------
(* Why a replay reproduces: a run is a function of its scenario.           *)

\* What the sink holds, and what a sink that was just made holds.
SinkNow ==
    [commits |-> commits, receipts |-> receipts, route_log |-> route_log,
     interlock_log |-> interlock_log, seen |-> seen, uses |-> uses]

FreshSink ==
    [commits |-> <<>>, receipts |-> <<>>, route_log |-> <<>>, interlock_log |-> <<>>,
     seen |-> {}, uses |-> [a \in {} |-> 0]]

UsesIn(s, id) == IF id \in DOMAIN s.uses THEN s.uses[id] ELSE 0

\* What the interlock of a sink that holds s finds of call k.
ReportIn(s, k) ==
    ValidateAuthorization(k.authorization, k.commit, At(Epochs, k.commit.committed_at),
        IssuerSecret,
        IF k.authorization = None THEN None
        ELSE UsesIn(s, k.authorization.authorization_id) + 1,
        k.token)

\* What it holds when it has refused, or stored, commit c.
AfterRefusal(s, c, reason) ==
    [s EXCEPT !.interlock_log = Append(@, Refused(reason)),
              !.route_log = Append(@, RouteObservation(c, FALSE))]

AfterCommit(s, c, decisions, counts) ==
    [commits |-> Append(s.commits, c), receipts |-> Append(s.receipts, SinkReceipt(c)),
     route_log |-> Append(s.route_log, RouteObservation(c, TRUE)),
     interlock_log |-> decisions, seen |-> s.seen \cup {c.idempotency_key}, uses |-> counts]

AfterAdmission(s, c, id) ==
    AfterCommit(s, c, Append(s.interlock_log, Admitted("ALL_BINDINGS_SATISFIED")),
                [a \in DOMAIN s.uses \cup {id} |->
                    IF a = id THEN UsesIn(s, id) + 1 ELSE s.uses[a]])

AfterCall(s, k) ==
    CASE k.entry = "lose receipts" -> [s EXCEPT !.receipts = <<>>]
      [] k.entry = "unguarded" -> AfterCommit(s, k.commit, s.interlock_log, s.uses)
      [] k.entry = "submit" ->
            IF k.commit.idempotency_key \in s.seen
            THEN AfterRefusal(s, k.commit, "IDEMPOTENCY_REPLAY")
            ELSE IF ~ IsValid(ReportIn(s, k))
            THEN AfterRefusal(s, k.commit, "BINDING_NOT_SATISFIED")
            ELSE AfterAdmission(s, k.commit, k.authorization.authorization_id)

\* What it holds when the first calls of scenario n have been made: none has more than two.
SinkAt(n, made) ==
    LET calls == Scenario[n].calls IN
    CASE made = 0 -> FreshSink
      [] made = 1 -> AfterCall(FreshSink, calls[1])
      [] made = 2 -> AfterCall(AfterCall(FreshSink, calls[1]), calls[2])

\* What the digest of a package of scenario n covers.
BodyOf(n) ==
    LET s == SinkAt(n, Len(Scenario[n].calls))
    IN  PackageBody(n, [commits |-> s.commits, receipts |-> s.receipts,
                        route_log |-> s.route_log, interlock_log |-> s.interlock_log])

\* The sink is a function of the scenario and the calls it has left to make.
MadeInv ==
    /\ ~ Consequence => SinkNow = FreshSink
    /\ Consequence =>
        LET calls == Scenario[job.arg].calls IN
        \E made \in 0..Len(calls) :
            /\ Len(job.calls) = Len(calls) - made
            /\ \A j \in DOMAIN job.calls : job.calls[j] = calls[made + j]
            /\ SinkNow = SinkAt(job.arg, made)

\* So the digest of a package, which nothing replaces, is that of a scenario; and
\* what a replay reads it does not change.
ReplayInv ==
    /\ Working => exits = None
    /\ Working /\ job.command = "consequence replay" =>
        /\ job.todo = <<>>
        /\ ~ Unreadable(PackageFile) /\ files[PackageFile].scenario = job.arg
    /\ ~ Unreadable(PackageFile) =>
        \E n \in ConsequenceNames : files[PackageFile].evidence_digest = Digest(BodyOf(n))
    /\ ReplayReproduces

ReproductionInv == MadeInv /\ ReplayInv

\* The shapes that CLTypeOK speaks of, as far as they carry over a step.
ShapeInv ==
    /\ DOMAIN files \subseteq JsonNames \cup {Sums, Notice}
    /\ exits = None \/ exits.code \in ExitCodes
    /\ commands \in 0..MaxCommands /\ faults \in 0..MaxFaults
    /\ DOMAIN uses \subseteq {"authz-0001"}
    /\ Consequence => Len(commits) + Len(job.calls) <= 2

=============================================================================
