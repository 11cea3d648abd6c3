--------------------------- MODULE ReferenceBoundary ---------------------------
(***************************************************************************)
(* The RB-001 reference boundary and everything that judges it, as pure    *)
(* operators: the boundary (oat/reference_boundaries/rb001), its falsifier *)
(* (oat/falsifiers/rb001), the adversaries (oat/adversaries), the search   *)
(* and the witness (oat/pipeline, oat/witness), the verifier V1            *)
(* (oat/verifier/v1) and the adjudication of a trial (oat/trial).          *)
(*                                                                         *)
(* A scenario is the record                                                *)
(*   [scenario_id, enforcement_path, action_quantity, authority,           *)
(*    search_space]                                                        *)
(* with authority = [max_quantity, valid_from, valid_until, status] and    *)
(* search_space a partial function from axes to the sequence of their      *)
(* values, in the order the adversary sorts them into.  Fields that no     *)
(* decision reads (identities, units, beneficiaries) are left out.         *)
(***************************************************************************)
EXTENDS Authority

Sets == INSTANCE FiniteSetsExt

CheckOnceCached == "CHECK_ONCE_CACHED"
StalePropagation == "STALE_PROPAGATION"
RecheckAtCommit == "RECHECK_AT_COMMIT"

-----------------------------------------------------------------------------
(* The boundary under one variation                                        *)
(*   [check_tick, revocation_tick, commit_tick, propagation_delay,         *)
(*    retry_index, duplicate_request].                                     *)

\* The ground truth, whatever an enforcement path believes.
EffectiveStatus(authority, revocation_tick, at_tick) ==
    IF \/ at_tick >= revocation_tick
       \/ at_tick < authority.valid_from
       \/ at_tick > authority.valid_until
    THEN "REVOKED"
    ELSE authority.status

CommitTick(v) == v.commit_tick + v.retry_index

ObservedAt(s, v) ==
    CASE s.enforcement_path = CheckOnceCached -> v.check_tick
      [] s.enforcement_path = StalePropagation -> CommitTick(v) - v.propagation_delay
      [] s.enforcement_path = RecheckAtCommit -> CommitTick(v)

ObservedStatus(s, v) ==
    EffectiveStatus(s.authority, v.revocation_tick, ObservedAt(s, v))

\* The decision at check time, and the one at commit, which needs both.
CheckAllows(s, v) ==
    /\ EffectiveStatus(s.authority, v.revocation_tick, v.check_tick) = "ACTIVE"
    /\ s.action_quantity <= s.authority.max_quantity

CommitAllows(s, v) == CheckAllows(s, v) /\ ObservedStatus(s, v) = "ACTIVE"

Event(event, tick, holds) == [event |-> event, tick |-> tick, holds |-> holds]

\* A duplicate request is requested twice and decided once.
Execute(s, v) ==
    [scenario_id |-> s.scenario_id,
     enforcement_path |-> s.enforcement_path,
     variation |-> v,
     commit_tick |-> CommitTick(v),
     authority_effective_at_commit |->
        EffectiveStatus(s.authority, v.revocation_tick, CommitTick(v)),
     events |->
        <<Event("action_proposed", v.check_tick, TRUE),
          Event("authorization_checked", v.check_tick, CheckAllows(s, v)),
          Event("authority_transition", v.revocation_tick, TRUE)>>
        \o (IF v.duplicate_request
            THEN <<Event("commit_requested", CommitTick(v), TRUE)>> ELSE <<>>)
        \o <<Event("commit_requested", CommitTick(v), FALSE),
             Event("commit_decision", CommitTick(v), CommitAllows(s, v)),
             Event("consequence_committed", CommitTick(v), CommitAllows(s, v))>>]

-----------------------------------------------------------------------------
(* The falsifier                                                           *)

FalsifierVersion == "0.1.0"
FalsifierIdentity ==
    [id |-> "OAT-FALSIFIER-RB-001", version |-> FalsifierVersion, digest |-> "definition"]

CommitEvents(trace) ==
    {i \in DOMAIN trace.events : trace.events[i].event = "consequence_committed"}

\* evaluate raises unless there is exactly one such event.
Evaluable(trace) == \E i \in CommitEvents(trace) : CommitEvents(trace) = {i}

Committed(trace) == \E i \in CommitEvents(trace) : trace.events[i].holds

\* counterexample := committed AND authority_effective_at_commit == REVOKED
Counterexample(trace) ==
    Committed(trace) /\ trace.authority_effective_at_commit = "REVOKED"

-----------------------------------------------------------------------------
(* The adversaries: sequences of variations                                *)

Axes == <<"check_tick", "commit_offset", "duplicate_request", "propagation_delay",
          "retry_index", "revocation_tick">>

DefaultAxis ==
    [check_tick |-> <<10>>, commit_offset |-> <<1>>, duplicate_request |-> <<FALSE>>,
     propagation_delay |-> <<0>>, retry_index |-> <<0>>, revocation_tick |-> <<20>>]

AxisValues(s, k) ==
    IF Axes[k] \in DOMAIN s.search_space THEN s.search_space[Axes[k]]
    ELSE DefaultAxis[Axes[k]]

\* itertools.product: the last axis turns fastest.
PointsFrom(s) ==
    LET points[k \in 1..(Len(Axes) + 1)] ==
            IF k > Len(Axes) THEN 1 ELSE Len(AxisValues(s, k)) * points[k + 1]
    IN  points

AxisValueAt(s, k, n) ==
    AxisValues(s, k)[((n \div PointsFrom(s)[k + 1]) % Len(AxisValues(s, k))) + 1]

GridVariation(s, n) ==
    [check_tick |-> AxisValueAt(s, 1, n),
     commit_tick |-> AxisValueAt(s, 6, n) + AxisValueAt(s, 2, n),
     duplicate_request |-> AxisValueAt(s, 3, n),
     propagation_delay |-> AxisValueAt(s, 4, n),
     retry_index |-> AxisValueAt(s, 5, n),
     revocation_tick |-> AxisValueAt(s, 6, n)]

\* DeterministicAdversary.propose, up to max_candidates.
GridCandidates(s, max_candidates) ==
    LET size == PointsFrom(s)[1] IN
    [i \in 1..Sets!Min({size, max_candidates}) |-> GridVariation(s, i - 1)]

\* ProviderAdversary._parse: a line is the sequence of its fields, None one that
\* is not a number.  Four fields are read as three.
Readable(line) ==
    /\ Len(line) >= 3
    /\ \A i \in 1..(IF Len(line) >= 5 THEN 5 ELSE 3) : line[i] # None

ParseLine(line) ==
    [check_tick |-> line[1], revocation_tick |-> line[2], commit_tick |-> line[3],
     propagation_delay |-> IF Len(line) >= 5 THEN line[4] ELSE 0,
     retry_index |-> IF Len(line) >= 5 THEN line[5] ELSE 0,
     duplicate_request |-> Len(line) > 5 /\ line[6] = TRUE]

Parse(lines) ==
    LET readable == SelectSeq(lines, Readable)
    IN  [i \in 1..Len(readable) |-> ParseLine(readable[i])]

-----------------------------------------------------------------------------
(* search and build_witness                                                *)

Hits(s, candidates) ==
    {i \in DOMAIN candidates : Counterexample(Execute(s, candidates[i]))}

\* Mutant: candidate 0 is taken although a later one is a counterexample.
SelectedFirst(s, candidates) == 1

\* The first counterexample, else candidate 0 (here 1).
Selected(s, candidates) ==
    IF Hits(s, candidates) = {} THEN 1 ELSE Sets!Min(Hits(s, candidates))

\* The search stops behind the first counterexample.
Transcript(s, candidates) ==
    LET n == IF Hits(s, candidates) = {} THEN Len(candidates)
             ELSE Sets!Min(Hits(s, candidates))
    IN  [i \in 1..n |->
            [variation |-> candidates[i], counterexample |-> i \in Hits(s, candidates)]]

\* digest_object: the "runtime" of a document is not in the digest domain.  No
\* document nests another that has one.
Strip(doc) == [f \in DOMAIN doc \ {"runtime"} |-> doc[f]]
DigestWithRuntime(doc) == Digest(doc)
DigestObject(doc) == Digest(Strip(doc))

BuildWitness(manifest, trace, claimed, adversary, transcript, selected) ==
    [scenario_id |-> manifest.scenario.id,
     manifest_digest |-> DigestObject(manifest),
     falsifier |-> manifest.falsifier,
     adversary |-> adversary,
     transcript |-> transcript,
     selected_candidate_index |-> selected,
     trace |-> trace,
     trace_digest |-> DigestObject(trace),
     claimed_counterexample |-> claimed]

WitnessFields ==
    {"scenario_id", "manifest_digest", "falsifier", "adversary", "transcript",
     "selected_candidate_index", "trace", "trace_digest", "claimed_counterexample"}

-----------------------------------------------------------------------------
(* V1                                                                      *)

Confirmed == "COUNTEREXAMPLE_CONFIRMED"
NotFound == "NO_COUNTEREXAMPLE"
Rejected == "REJECTED"

\* The first check that fails, in the order of verify; manifest may be None.
RejectionReason(w, manifest) ==
    IF ~ (WitnessFields \subseteq DOMAIN w) THEN "WITNESS_SCHEMA_INVALID"
    ELSE IF w.falsifier.version # FalsifierVersion THEN "FALSIFIER_VERSION_UNSUPPORTED"
    ELSE IF w.falsifier # FalsifierIdentity THEN "FALSIFIER_IDENTITY_MISMATCH"
    ELSE IF manifest # None /\ w.manifest_digest # DigestObject(manifest)
         THEN "MANIFEST_BINDING_MISMATCH"
    ELSE IF manifest # None /\ w.scenario_id # manifest.scenario.id
         THEN "SCENARIO_IDENTITY_MISMATCH"
    ELSE IF w.trace_digest # DigestObject(w.trace) THEN "CANONICAL_BYTES_TAMPERED"
    ELSE IF w.trace.scenario_id # w.scenario_id THEN "SCENARIO_IDENTITY_MISMATCH"
    ELSE IF ~ Evaluable(w.trace) THEN "TRACE_NOT_EVALUABLE"
    ELSE IF w.claimed_counterexample # Counterexample(w.trace)
         THEN "CLAIMED_EVALUATION_MISMATCH"
    ELSE None

V1Disposition(w, manifest) ==
    IF RejectionReason(w, manifest) # None THEN Rejected
    ELSE IF Counterexample(w.trace) THEN Confirmed
    ELSE NotFound

\* The evidence digest also pins the witness.
Verify(w, manifest) ==
    LET evidence == [witness_digest |-> DigestObject(w),
                     disposition |-> V1Disposition(w, manifest),
                     rejection_reason |-> RejectionReason(w, manifest)]
    IN  [disposition |-> evidence.disposition,
         rejection_reason |-> evidence.rejection_reason,
         evidence_digest |-> Digest(evidence),
         runtime |-> "host"]

-----------------------------------------------------------------------------
(* Adjudication of an attack attempt                                       *)
(*   scope  [properties, families]                                         *)
(*   budget None or [used, allowed, families]                              *)

CoverageLimited(scope, budget) ==
    /\ budget # None
    /\ \/ budget.used >= budget.allowed
       \/ ~ (scope.families \subseteq budget.families)

\* adjudicate: what the adversary claims is no input.
TrialDisposition(property_id, dispositions, scope, budget) ==
    IF property_id \notin scope.properties THEN "OUTSIDE_SCOPE"
    ELSE IF Cardinality(dispositions) > 1 THEN "VERIFIER_CONFLICT"
    ELSE IF dispositions = {Rejected} THEN "UNEVALUABLE"
    ELSE IF dispositions = {Confirmed} THEN "COUNTEREXAMPLE_VALIDATED"
    ELSE IF CoverageLimited(scope, budget) THEN "COVERAGE_LIMITED"
    ELSE "NOT_A_COUNTEREXAMPLE"

=============================================================================
