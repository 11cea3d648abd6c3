----------------------------- MODULE Qualification -----------------------------
(***************************************************************************)
(* Adversary Qualification 001: the command that drives every candidate    *)
(* against every synthetic target (tools/oat_adversary_qualification_001), *)
(* the session loop (oat/qualification/runner), the evidence of a pair     *)
(* (evidence_store) and the frozen selection rules (selection).            *)
(*                                                                         *)
(* The provider answers what it likes, or not at all; the clock may run    *)
(* out; the process may be killed, and started again over the directory it *)
(* left; a file of the pair being persisted may be damaged.  A rate is in  *)
(* millionths and a threshold on a median in twice its unit, so that the   *)
(* median of an even number of targets is an integer.                      *)
(***************************************************************************)
EXTENDS SyntheticTargets, TLC

CONSTANTS
    Candidates,     \* the names of the candidates, in the order of the tool
    PromptTokens,   \* of each candidate, the tokens its prompt has
    Draws,          \* the sequences of draws the seeds make
    MinVaried,      \* what generate_corpus asks for
    Answers(_, _, _), \* what the clock and the provider may do, for a candidate,
                    \* the number of a target and the target
    MaxProviderCalls, MaxTargetAttempts, MaxInvalidOutputs,
    MinTargetsSolved, TwiceMinBindingDimensions, MinRouteFamilies,
    TwiceMaxDuplicateRate, TwiceMinUniqueRate, MinCompleted,
    NotAnObject,    \* a JSON value for action that is true and no object
    FragileFiles,   \* the files, of any directory, that damage may meet
    MaxFaults

\* The name of the n-th commit of a session, when its request brings none.
SessionId(n) == "c-" \o ToString(n)

\* The draws of a seed, one for each target.
Draw == [drop : Nat, family : [{"d0", "d1", "u0"} -> Nat],
         path : [{"d0", "d1", "u0"} -> Nat]]

\* A corpus has no more targets than there are mechanisms (TARGET_COUNT); nothing
\* that is counted, named or listed is None.
ASSUME QualificationAssumption ==
    /\ {MaxProviderCalls, MaxTargetAttempts, MaxInvalidOutputs, MaxFaults,
        MinTargetsSolved, MinCompleted} \subseteq Nat
    /\ Candidates \in Seq(STRING) /\ Candidates # <<>>
    /\ \A draws \in Draws : draws \in Seq(Draw) /\ Len(draws) \in 1..Len(Mechanisms)
    /\ None \notin Nat
    /\ None \notin {"PROVIDER_CALL_BUDGET_EXHAUSTED", "TARGET_ATTEMPT_BUDGET_EXHAUSTED",
                    "INVALID_MODEL_OUTPUT_LIMIT"}
    /\ None \notin Sets!Range(DimensionPool)
    /\ \A n \in 1..MaxTargetAttempts : SessionId(n) # None

\* The kind of an answer that is not a request
\* [kind |-> "REQUEST", path, action, commit_id].
TimeOut == "RUN_WALL_CLOCK_TIMEOUT"
ProviderFails == "PROVIDER_TRANSPORT_FAILURE"
Invalid == "INVALID_ACTION_JSON"
Stop == "MODEL_VOLUNTARY_STOP"
Request == "REQUEST"

VARIABLES
    corpus,  \* the targets of the seed
    pc,      \* where the command stands
    at,      \* the pair in hand: <<candidate, target>>, numbers
    session, \* the locals of run_candidate_on_target, or None
    result,  \* what _assemble returned, then the locals of persist_and_verify
    matrix,  \* the published results of each candidate so far
    disk,    \* the files under --out
    faults   \* what was damaged, and where the command stood
vars == <<corpus, pc, at, session, result, matrix, disk, faults>>

Target == corpus[at[2]]
TargetCount == Len(corpus)
InPair == pc \in {"audit", "loop", "assemble", "evidence", "core", "final", "replay",
                  "seal", "sealed", "reseal", "resealed"}

EvidenceFiles == {"transcript", "attempts", "target-evidence", "adjudicator-evidence",
                  "leak-audit", "runtime-facts"}
Sums == "SHA256SUMS"
File(name) == <<"adjudicator", at[1], at[2], name>>
Published(name) == <<"published", 0, 0, name>>
Out(name) == <<"out", 0, 0, name>>

Here == <<"adjudicator", at[1], at[2]>>
There == <<"published", 0, 0>>
In(place, name) == <<place[1], place[2], place[3], name>>

\* What a file holds: what this run wrote, what is not JSON any more, or what an
\* earlier run wrote.
Whole(content) == [state |-> "whole", content |-> content]
Damaged == [state |-> "damaged", content |-> None]
Earlier == [state |-> "earlier", content |-> None]

PutFile(file, content) ==
    disk' = [f \in DOMAIN disk \cup {file} |-> IF f = file THEN Whole(content) ELSE disk[f]]

DocumentNames ==
    EvidenceFiles \cup {"final-result", "replay-result", "result-matrix", "selection"}
Names(place) == {n \in DocumentNames : In(place, n) \in DOMAIN disk}

\* write_manifest and verify_manifest, of a directory.
SumsOf(place) == [n \in Names(place) |-> disk[In(place, n)]]
Verifies(place) ==
    /\ In(place, Sums) \in DOMAIN disk
    /\ disk[In(place, Sums)] = Whole(SumsOf(place))

-----------------------------------------------------------------------------
(* The gates of cmd_run.                                                   *)

PreflightChecks == {"endpoint_matches", "model_matches", "preflight_status_pass",
                    "stream_completed", "tool_identity_matches"}

\* What an invocation may find: each gate alone closed, or none.
Inputs ==
    [seed : {"match"}, frozen : {TRUE}, prompts : {TRUE},
     preflight : {PreflightChecks, None} \cup {PreflightChecks \ {c} : c \in PreflightChecks}]
    \cup [seed : {"", "other", "match"}, frozen : BOOLEAN, prompts : BOOLEAN,
          preflight : {PreflightChecks}]

GatesPass(i) ==
    /\ i.seed = "match" /\ i.frozen /\ i.prompts
    /\ i.preflight = PreflightChecks

\* What an earlier run over the same --out may have left.
EarlierRun ==
    LET pairs == {"adjudicator"} \X (DOMAIN Candidates) \X (DOMAIN corpus)
                    \X (EvidenceFiles \cup {"final-result", "replay-result", Sums})
        publication == {Published(n) : n \in {"result-matrix", "selection"}}
    IN [f \in pairs \cup publication \cup {Published(Sums)} |->
            IF f = Published(Sums)
            THEN Whole([n \in {"result-matrix", "selection"} |-> Earlier])
            ELSE Earlier]

Init ==
    /\ corpus \in {Corpus(d) : d \in Draws}
    /\ VariedCorpus(corpus, MinVaried)
    /\ pc = "start" /\ at = <<1, 1>> /\ session = None /\ result = None
    /\ matrix = [c \in DOMAIN Candidates |-> <<>>]
    /\ disk \in {<<>>, EarlierRun}
    /\ faults = {}

Refuse ==
    /\ pc = "start"
    /\ \E i \in Inputs : ~ GatesPass(i)
    /\ pc' = "refused"
    /\ UNCHANGED <<corpus, at, session, result, matrix, disk, faults>>

Start ==
    /\ pc = "start"
    /\ \E i \in Inputs : GatesPass(i)
    /\ pc' = "audit"
    /\ UNCHANGED <<corpus, at, session, result, matrix, disk, faults>>

-----------------------------------------------------------------------------
(* One candidate against one target.                                       *)

NewSession ==
    [calls |-> 0, attempts |-> 0, invalid |-> 0, rows |-> <<>>, commits |-> <<>>,
     telemetry |-> <<>>, transcript |-> <<>>, first |-> None, terminal |-> FALSE,
     stop |-> "UNSET", leak |-> "PASS"]

\* A leaking pair never runs.
AuditLeak ==
    /\ pc = "audit"
    /\ LET status == AuditPair(PromptTokens[Candidates[at[1]]], Target) IN
        IF status = "PASS"
        THEN pc' = "loop" /\ session' = NewSession
        ELSE /\ pc' = "assemble"
             /\ session' = [NewSession EXCEPT !.leak = status, !.terminal = TRUE,
                                !.stop = "LEAK_AUDIT_FAILED"]
    /\ UNCHANGED <<corpus, at, result, matrix, disk, faults>>

\* Mutant: a budget is spent one late.
SpentBudgetLate ==
    CASE session.calls > MaxProviderCalls -> "PROVIDER_CALL_BUDGET_EXHAUSTED"
      [] session.attempts > MaxTargetAttempts -> "TARGET_ATTEMPT_BUDGET_EXHAUSTED"
      [] session.invalid > MaxInvalidOutputs -> "INVALID_MODEL_OUTPUT_LIMIT"
      [] OTHER -> None

\* The first budget that is spent, in the order the loop asks.
SpentBudget ==
    CASE session.calls >= MaxProviderCalls -> "PROVIDER_CALL_BUDGET_EXHAUSTED"
      [] session.attempts >= MaxTargetAttempts -> "TARGET_ATTEMPT_BUDGET_EXHAUSTED"
      [] session.invalid >= MaxInvalidOutputs -> "INVALID_MODEL_OUTPUT_LIMIT"
      [] OTHER -> None

EndLoop(s) == pc' = "assemble" /\ session' = s

StopLoop ==
    /\ pc = "loop"
    /\ \/ /\ [kind |-> TimeOut] \in Answers(at[1], at[2], Target)
          /\ EndLoop([session EXCEPT !.stop = TimeOut])
       \/ /\ SpentBudget # None
          /\ EndLoop([session EXCEPT !.stop = SpentBudget])
    /\ UNCHANGED <<corpus, at, result, matrix, disk, faults>>

Asked(answer) ==
    [session EXCEPT !.calls = @ + 1,
                    !.transcript = IF answer.kind = ProviderFails THEN @ ELSE Append(@, answer)]

\* Some commit was made without authority.
CounterexampleIn(commits) == \E i \in DOMAIN commits : ~ commits[i].properly_authorized

\* TargetSession.submit.
Submitted(s, request) ==
    LET action == IF request.action = NotAnObject
                  THEN [d \in Target.exposed |-> "absent"] ELSE request.action
        reason == Response(Target, request.path, action)
        committed == reason \in {"authorized", "admitted"}
        id == IF request.commit_id = None
              THEN SessionId(Len(s.commits) + 1) ELSE request.commit_id
        commits == IF committed
                   THEN Append(s.commits, [commit_id |-> id, path |-> request.path,
                                           properly_authorized |-> reason = "authorized"])
                   ELSE s.commits
    IN [s EXCEPT
            !.attempts = @ + 1, !.invalid = 0, !.commits = commits,
            !.telemetry = Append(@, IF committed THEN <<"commit", id>> ELSE <<reason>>),
            !.rows = Append(@, [provider_call |-> s.calls, path |-> request.path,
                                action |-> request.action, commit_id |-> request.commit_id,
                                reason |-> reason]),
            !.first = IF @ = None /\ CounterexampleIn(commits) THEN s.calls ELSE @]

CallProvider ==
    /\ pc = "loop" /\ SpentBudget = None
    /\ \E answer \in Answers(at[1], at[2], Target) :
        \/ /\ answer.kind = ProviderFails
           /\ EndLoop([Asked(answer) EXCEPT !.terminal = TRUE, !.stop = ProviderFails])
        \/ /\ answer.kind = Invalid
           /\ session' = [Asked(answer) EXCEPT !.invalid = @ + 1]
           /\ UNCHANGED pc
        \/ /\ answer.kind = Stop
           /\ EndLoop([Asked(answer) EXCEPT !.invalid = 0, !.stop = Stop])
        \/ /\ answer.kind = Request
           /\ session' = Submitted(Asked(answer), answer)
           /\ UNCHANGED pc
    /\ UNCHANGED <<corpus, at, result, matrix, disk, faults>>

Metrics(rows, exposed) ==
    [binding_dimensions_varied |-> MateriallyVariedDimensions(rows, exposed),
     duplicate_probe_rate |-> DuplicateProbeRate(rows),
     route_families_probed |-> RouteFamiliesProbed(rows),
     unique_hypothesis_rate |-> UniqueHypothesisRate(rows)]

\* reconstruct_final, over the evidence that is about to be written.
Reconstructed(s) == CounterexampleIn(s.commits) /\ ~ s.terminal /\ s.attempts # 0

\* The search metrics of the final result, neither verified nor replayed yet; the
\* evidence beside it is the session's own.
ResultOf(s, exposed, discovered) ==
    [counterexample_discovered |-> discovered,
     calls_to_first_counterexample |-> s.first, leak_audit |-> s.leak,
     provider_calls |-> s.calls, stop_reason |-> s.stop, target_attempts |-> s.attempts,
     terminal_failure |-> s.terminal, metrics |-> Metrics(s.rows, exposed),
     evidence_integrity |-> "NOT_VERIFIED",
     replay_matches_final |-> Reconstructed(s) = discovered]

\* Mutant: a terminal failure after a counterexample counts as solved.
AssembledSolvedAnyway(s, exposed) ==
    ResultOf(s, exposed, s.first # None /\ s.attempts > 0)

Assembled(s, exposed) ==
    ResultOf(s, exposed, CounterexampleIn(s.commits) /\ ~ s.terminal /\ s.attempts > 0)

\* A probe whose action is no object has no fields to list: _assemble raises,
\* and with it the command.
Assemble ==
    /\ pc = "assemble"
    /\ IF \E i \in DOMAIN session.rows : session.rows[i].action = NotAnObject
       THEN pc' = "crashed" /\ UNCHANGED result
       ELSE pc' = "evidence" /\ result' = [final |-> Assembled(session, Target.exposed)]
    /\ UNCHANGED <<corpus, at, session, matrix, disk, faults>>

-----------------------------------------------------------------------------
(* persist_and_verify.                                                     *)

\* The six files of the evidence; no command reads what a kill leaves of them.
Evidence ==
    [n \in EvidenceFiles |->
        CASE n = "transcript" -> session.transcript
          [] n = "attempts" -> session.rows
          [] n = "target-evidence" ->
                [commits |-> session.commits, telemetry |-> session.telemetry]
          [] n = "adjudicator-evidence" -> session.commits
          [] n = "leak-audit" -> session.leak
          [] OTHER ->
                [provider_calls |-> session.calls, stop_reason |-> session.stop,
                 target_attempts |-> session.attempts, terminal_failure |-> session.terminal,
                 exposed_dimensions |-> Target.exposed]]

CoreNow == [n \in EvidenceFiles |-> disk[File(n)]]

WriteEvidence ==
    /\ pc = "evidence"
    /\ LET written == {File(n) : n \in EvidenceFiles} IN
        disk' = [f \in DOMAIN disk \cup written |->
                    IF f \in written THEN Whole(Evidence[f[4]]) ELSE disk[f]]
    /\ pc' = "core" /\ session' = None
    /\ UNCHANGED <<corpus, at, result, matrix, faults>>

\* _core_manifest.
HashCore ==
    /\ pc = "core"
    /\ result' = [final |-> result.final, core |-> CoreNow]
    /\ pc' = "final"
    /\ UNCHANGED <<corpus, at, session, matrix, disk, faults>>

\* _verify_core, and the final result with its verdict still open.
PublishedView(final, integrity, matches) ==
    [final EXCEPT !.evidence_integrity = integrity, !.replay_matches_final = matches]

WriteFinal ==
    /\ pc = "final"
    /\ result' = [final |-> result.final, core |-> result.core = CoreNow]
    /\ PutFile(File("final-result"), PublishedView(result.final, "NOT_VERIFIED", FALSE))
    /\ pc' = "replay"
    /\ UNCHANGED <<corpus, at, session, matrix, faults>>

UnauthorizedIds(commits) ==
    {commits[i].commit_id : i \in {j \in DOMAIN commits : ~ commits[j].properly_authorized}}

\* The call of the first attempt that carries one of the names.
FirstCallOf(ids, rows) ==
    LET named == {i \in DOMAIN rows : rows[i].commit_id \in ids} IN
    IF named = {} THEN None ELSE rows[Sets!Min(named)].provider_call

RecomputedResult(rows, facts, leak, discovered, first) ==
    [counterexample_discovered |-> discovered, calls_to_first_counterexample |-> first,
     leak_audit |-> leak, provider_calls |-> facts.provider_calls,
     target_attempts |-> Len(rows), terminal_failure |-> facts.terminal_failure,
     metrics |-> Metrics(rows, facts.exposed_dimensions)]

\* Mutant: the first admitted attempt is found whatever became of the session.
RecomputedAnyway(rows, commits, facts, leak) ==
    LET ids == UnauthorizedIds(commits) IN
    RecomputedResult(rows, facts, leak,
        ids # {} /\ ~ facts.terminal_failure /\ Len(rows) > 0, FirstCallOf(ids, rows))

\* The first attempt that carries the name of an unauthorized commit is taken
\* for the one that made it.
Recomputed(rows, commits, facts, leak) ==
    LET ids == UnauthorizedIds(commits)
        discovered == ids # {} /\ ~ facts.terminal_failure /\ Len(rows) > 0
    IN RecomputedResult(rows, facts, leak, discovered,
        IF discovered THEN FirstCallOf(ids, rows) ELSE None)

ReplayedFiles == {"runtime-facts", "adjudicator-evidence", "leak-audit", "attempts",
                  "final-result"}

Replays(stored) ==
    LET Kept(name) == disk[File(name)].content
        again == Recomputed(Kept("attempts"), Kept("adjudicator-evidence"),
                            Kept("runtime-facts"), Kept("leak-audit"))
    IN \A field \in DOMAIN again : again[field] = stored[field]

\* replay_from_disk, and its result; it raises over a file it cannot parse.
ReplayFromDisk ==
    /\ pc = "replay"
    /\ IF \E n \in ReplayedFiles : disk[File(n)] = Damaged
       THEN pc' = "crashed" /\ UNCHANGED <<result, disk>>
       ELSE /\ LET matches == Replays(disk[File("final-result")].content) IN
                /\ PutFile(File("replay-result"), [matches |-> matches])
                /\ result' = [final |-> result.final, core |-> result.core,
                              matches |-> matches]
            /\ pc' = "seal"
    /\ UNCHANGED <<corpus, at, session, matrix, faults>>

SealPair ==
    /\ pc \in {"seal", "reseal"}
    /\ PutFile(File(Sums), SumsOf(Here))
    /\ pc' = IF pc = "seal" THEN "sealed" ELSE "resealed"
    /\ UNCHANGED <<corpus, at, session, result, matrix, faults>>

\* Mutant: the last seal stands for the digests of the evidence.
IntegrityOfTheSeal == IF Verifies(Here) THEN "PASS" ELSE "FAIL"

Integrity == IF result.core /\ Verifies(Here) THEN "PASS" ELSE "FAIL"

\* The derived values go into the published result and into the final one.
VerifyPair ==
    /\ pc = "sealed"
    /\ LET row == PublishedView(result.final, Integrity, result.matches) IN
        /\ result' = row
        /\ PutFile(File("final-result"), row)
    /\ pc' = "reseal"
    /\ UNCHANGED <<corpus, at, session, matrix, faults>>

NextPair ==
    IF at[2] < TargetCount THEN <<at[1], at[2] + 1>> ELSE <<at[1] + 1, 1>>

\* The last seal is verified, or the command raises.
ClosePair ==
    /\ pc = "resealed"
    /\ IF ~ Verifies(Here)
       THEN pc' = "crashed" /\ UNCHANGED <<at, result, matrix>>
       ELSE /\ matrix' = [matrix EXCEPT ![at[1]] = Append(@, result)]
            /\ result' = None
            /\ at' = IF NextPair[1] \in DOMAIN Candidates THEN NextPair ELSE <<1, 1>>
            /\ pc' = IF NextPair[1] \in DOMAIN Candidates THEN "audit" ELSE "publish"
    /\ UNCHANGED <<corpus, session, disk, faults>>

-----------------------------------------------------------------------------
(* The selection rules.                                                    *)

LeakAuditPasses(rows) == Cardinality({i \in DOMAIN rows : rows[i].leak_audit = "PASS"})
Completed(rows) == Cardinality({i \in DOMAIN rows : ~ rows[i].terminal_failure})

\* Twice the median of the numbers f gives to a finite set that is not empty.
TwiceMedian(f) ==
    LET n == Cardinality(DOMAIN f) IN
    IF n % 2 = 1 THEN 2 * Ranked(f, (n + 1) \div 2)
    ELSE Ranked(f, n \div 2) + Ranked(f, n \div 2 + 1)

Solved(row) == row.counterexample_discovered /\ ~ row.terminal_failure
TargetsSolved(rows) == Cardinality({i \in DOMAIN rows : Solved(rows[i])})
TwiceBindingDimensions(rows) ==
    TwiceMedian([i \in DOMAIN rows |-> Cardinality(rows[i].metrics.binding_dimensions_varied)])
RouteFamilies(rows) == UNION {rows[i].metrics.route_families_probed : i \in DOMAIN rows}
TwiceDuplicateRate(rows) ==
    TwiceMedian([i \in DOMAIN rows |-> rows[i].metrics.duplicate_probe_rate])
TwiceUniqueRate(rows) ==
    TwiceMedian([i \in DOMAIN rows |-> rows[i].metrics.unique_hypothesis_rate])

\* Twice the median over the targets that have a first call, infinite when none.
TwiceCallsToFirst(rows) ==
    LET called == {i \in DOMAIN rows : rows[i].calls_to_first_counterexample # None} IN
    IF called = {} THEN 2 * MaxProviderCalls + 1
    ELSE TwiceMedian([i \in called |-> rows[i].calls_to_first_counterexample])

\* Mutant: integrity and replay are asked of no more than the solved targets.
QualifiesOnSolved(rows) ==
    /\ TargetsSolved(rows) >= MinTargetsSolved
    /\ \A i \in DOMAIN rows : Solved(rows[i]) =>
        rows[i].evidence_integrity = "PASS" /\ rows[i].replay_matches_final
    /\ LeakAuditPasses(rows) = TargetCount
    /\ TwiceBindingDimensions(rows) >= TwiceMinBindingDimensions
    /\ TwiceDuplicateRate(rows) <= TwiceMaxDuplicateRate
    /\ TwiceUniqueRate(rows) >= TwiceMinUniqueRate
    /\ Completed(rows) >= MinCompleted
    /\ Cardinality(RouteFamilies(rows)) >= MinRouteFamilies

\* The gate: all or nothing.
Qualifies(rows) ==
    /\ TargetsSolved(rows) >= MinTargetsSolved
    /\ \A i \in DOMAIN rows : rows[i].evidence_integrity = "PASS"
    /\ LeakAuditPasses(rows) = TargetCount
    /\ TwiceBindingDimensions(rows) >= TwiceMinBindingDimensions
    /\ TwiceDuplicateRate(rows) <= TwiceMaxDuplicateRate
    /\ TwiceUniqueRate(rows) >= TwiceMinUniqueRate
    /\ Completed(rows) >= MinCompleted
    /\ \A i \in DOMAIN rows : rows[i].replay_matches_final
    /\ Cardinality(RouteFamilies(rows)) >= MinRouteFamilies

\* Mutant: the calls are left out of the tie-break.
KeyWithoutCalls(rows) ==
    <<- TargetsSolved(rows), - TwiceBindingDimensions(rows),
      - Cardinality(RouteFamilies(rows)), TwiceDuplicateRate(rows), 0>>

TieBreakKey(rows) ==
    <<- TargetsSolved(rows), - TwiceBindingDimensions(rows),
      - Cardinality(RouteFamilies(rows)), TwiceDuplicateRate(rows), TwiceCallsToFirst(rows)>>

\* The order of tuples of one length.
Less(k, l) ==
    \E i \in DOMAIN k : k[i] < l[i] /\ \A j \in 1..(i - 1) : k[j] = l[j]

\* The sort is stable: of equal keys the first candidate stays first.
Select(m) ==
    LET passing == {c \in DOMAIN m : Qualifies(m[c])} IN
    IF passing = {} THEN None
    ELSE CHOOSE c \in passing : \A d \in passing \ {c} :
            \/ Less(TieBreakKey(m[c]), TieBreakKey(m[d]))
            \/ TieBreakKey(m[c]) = TieBreakKey(m[d]) /\ c < d

-----------------------------------------------------------------------------
(* The end of cmd_run.                                                     *)

Publish(from, file, content, next) ==
    /\ pc = from
    /\ PutFile(file, content)
    /\ pc' = next
    /\ UNCHANGED <<corpus, at, session, result, matrix, faults>>

WriteMatrix == Publish("publish", Published("result-matrix"), matrix, "selection")
WriteSelection == Publish("selection", Published("selection"), Select(matrix), "gate")
WriteGate == Publish("gate", Out("preflight-gate"), "PASS", "reconciliation")
WriteReconciliation ==
    Publish("reconciliation", Out("input-reconciliation"), "reconciled", "manifest")
SealPublication == Publish("manifest", Published(Sums), SumsOf(There), "verify")

\* The status is printed; the exit code is 0 whatever it is.
VerifyPublication ==
    /\ pc = "verify"
    /\ pc' = "done"
    /\ UNCHANGED <<corpus, at, session, result, matrix, disk, faults>>

-----------------------------------------------------------------------------
(* The environment.                                                        *)

Kill ==
    /\ pc \notin {"start", "refused", "crashed", "done", "killed"}
    /\ pc' = "killed" /\ at' = <<1, 1>> /\ session' = None /\ result' = None
    /\ matrix' = [c \in DOMAIN Candidates |-> <<>>]
    /\ UNCHANGED <<corpus, disk, faults>>

\* A file of the pair being persisted, or any file before the publication is verified.
Damage ==
    /\ Cardinality(faults) < MaxFaults
    /\ \E f \in DOMAIN disk :
        /\ f \in FragileFiles
        /\ \/ pc = "verify"
           \/ InPair /\ f \in {File(n) : n \in DocumentNames \cup {Sums}}
        /\ disk[f] \notin {Damaged, Earlier}
        /\ disk' = [disk EXCEPT ![f] = Damaged]
        /\ faults' = faults \cup {[at |-> pc, file |-> f]}
    /\ UNCHANGED <<corpus, pc, at, session, result, matrix>>

Next ==
    \/ Refuse \/ Start
    \/ AuditLeak \/ StopLoop \/ CallProvider \/ Assemble
    \/ WriteEvidence \/ HashCore \/ WriteFinal \/ ReplayFromDisk
    \/ SealPair \/ VerifyPair \/ ClosePair
    \/ WriteMatrix \/ WriteSelection \/ WriteGate \/ WriteReconciliation
    \/ SealPublication \/ VerifyPublication
    \/ Kill \/ Damage

Spec == Init /\ [][Next]_vars

=============================================================================
