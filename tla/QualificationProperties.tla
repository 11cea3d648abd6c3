------------------------ MODULE QualificationProperties ------------------------
(***************************************************************************)
(* What the qualification of an adversary promises.                        *)
(***************************************************************************)
EXTENDS Qualification

\* A session stays inside its budgets, and the matrix fills in the order of
\* the pairs.
QTypeOK ==
    /\ session # None =>
        /\ session.calls \in 0..MaxProviderCalls
        /\ session.attempts = Len(session.rows)
        /\ session.attempts \in 0..MaxTargetAttempts
        /\ session.invalid \in 0..MaxInvalidOutputs
        /\ Len(session.commits) <= session.attempts
        /\ Len(session.telemetry) = session.attempts
        /\ session.first \in {None} \cup (1..session.calls)
    /\ \A c \in DOMAIN Candidates : Len(matrix[c]) \in 0..TargetCount
    /\ InPair => Len(matrix[at[1]]) = at[2] - 1
    /\ IsFiniteSet(faults) /\ Cardinality(faults) <= MaxFaults

-----------------------------------------------------------------------------
(* The corpus                                                              *)

\* One value of the mutated kind in the one place a mechanism leaves open, or
\* anything on a route nobody guards.
UsesTheFlaw(target, path, action) ==
    IF target.unenforced = None
    THEN /\ path = target.undeclared
         /\ \/ target.mechanism = "undeclared_route_unguarded"
            \/ \E d \in target.exposed : action[d] # "absent"
    ELSE /\ path \in target.declared
         /\ \A d \in target.exposed : action[d] = "valid" <=> d # target.unenforced

\* All valid, all absent, and each of the two with one dimension replaced.
NearActions(target) ==
    {[d \in target.exposed |-> IF d = e THEN w ELSE v] :
        e \in target.exposed, w \in {"valid", "wrong", "absent"}, v \in {"valid", "absent"}}

\* Every target of a seed commits without authority exactly through its one
\* flaw, the flaw is within reach, and no two targets share an undeclared route
\* and a flaw (synthetic_targets: exactly one reachable counterexample, whose
\* mechanism differs across the corpus; target_service.submit).
OneFlawEach == pc = "start" =>
    /\ \A i \in DOMAIN corpus :
        LET t == corpus[i] IN
        /\ t.undeclared \notin t.declared /\ Cardinality(t.declared) = 2
        /\ \A p \in t.declared \cup {t.undeclared}, a \in NearActions(t) :
            Response(t, p, a) = "admitted" <=> UsesTheFlaw(t, p, a)
        /\ \E p \in t.declared \cup {t.undeclared}, a \in NearActions(t) :
            Response(t, p, a) = "admitted"
    /\ \A i, j \in DOMAIN corpus : corpus[i].mechanism = corpus[j].mechanism => i = j

-----------------------------------------------------------------------------
(* A pair                                                                  *)

PairFile(c, i, name) == disk[<<"adjudicator", c, i, name>>].content

\* The evidence of the pair, whole and of this run.
Kept(c, i) ==
    \A n \in EvidenceFiles :
        /\ <<"adjudicator", c, i, n>> \in DOMAIN disk
        /\ disk[<<"adjudicator", c, i, n>>].state = "whole"

\* The first admitted attempt is the first to carry the name of an unauthorized
\* commit, and no provider failure follows it.
Attributable(rows, commits, facts) ==
    LET admitted == {i \in DOMAIN rows : rows[i].reason = "admitted"} IN
    admitted # {} =>
        /\ ~ facts.terminal_failure
        /\ rows[Sets!Min(admitted)].commit_id # None
        /\ \A i \in 1..(Sets!Min(admitted) - 1) :
            rows[i].commit_id \notin UnauthorizedIds(commits)

\* The replay of kept evidence differs from the stored result in two cases only:
\* the first counterexample cannot be told from the attempts, or the provider failed
\* after it.  Whatever else was damaged (replay_from_disk).
ReplayMissesOnlyUnattributed ==
    \A c \in DOMAIN Candidates, i \in DOMAIN corpus :
        (Kept(c, i) /\ Len(matrix[c]) >= i) =>
            (matrix[c][i].replay_matches_final <=>
                Attributable(PairFile(c, i, "attempts"), PairFile(c, i, "adjudicator-evidence"),
                             PairFile(c, i, "runtime-facts")))

\* A target counts as solved exactly when some kept attempt went through its
\* flaw and no provider failure ended the session; a leaking pair has no call
\* (runner: a terminal failure can never count as a solved target).
SolvedIsReal ==
    \A c \in DOMAIN Candidates, i \in DOMAIN corpus :
        (Kept(c, i) /\ Len(matrix[c]) >= i) =>
            LET rows == PairFile(c, i, "attempts")
                row == matrix[c][i]
            IN /\ row.counterexample_discovered <=>
                    /\ ~ PairFile(c, i, "runtime-facts").terminal_failure
                    /\ \E k \in DOMAIN rows :
                        UsesTheFlaw(corpus[i], rows[k].path, rows[k].action)
               /\ row.leak_audit = "FAIL" =>
                    rows = <<>> /\ row.provider_calls = 0 /\ row.terminal_failure

\* A file of the pair was damaged while the command stood at one of these points.
Struck(c, i, points, names) ==
    \E e \in faults : e.at \in points /\ \E n \in names : e.file = <<"adjudicator", c, i, n>>

\* Damage between a digest and its comparison.
Caught(c, i) ==
    \/ Struck(c, i, {"final"}, EvidenceFiles)
    \/ Struck(c, i, {"sealed"}, DocumentNames \cup {Sums})

\* What the integrity of a pair says, exactly: PASS when nothing changed between
\* the digests of the evidence and their check, nor between the first seal and its
\* own.  Nothing changes behind the last seal without ending the command, so a pair
\* in the matrix verifies until something changes later (persist_and_verify).
IntegrityIsExact ==
    \A c \in DOMAIN Candidates : \A i \in DOMAIN matrix[c] :
        /\ matrix[c][i].evidence_integrity = IF Caught(c, i) THEN "FAIL" ELSE "PASS"
        /\ ~ Struck(c, i, {"resealed"}, DocumentNames \cup {Sums})
        /\ \/ Verifies(<<"adjudicator", c, i>>)
           \/ Struck(c, i, {"verify"}, DocumentNames \cup {Sums})

-----------------------------------------------------------------------------
(* The publication                                                         *)

\* The row of a pair that its evidence gives, as it lies on the disk.
FromEvidence(c, i) ==
    LET rows == PairFile(c, i, "attempts")
        facts == PairFile(c, i, "runtime-facts")
        through == {k \in DOMAIN rows : UsesTheFlaw(corpus[i], rows[k].path, rows[k].action)}
    IN [counterexample_discovered |-> through # {} /\ ~ facts.terminal_failure,
        calls_to_first_counterexample |->
            IF through = {} THEN None ELSE rows[Sets!Min(through)].provider_call,
        leak_audit |-> PairFile(c, i, "leak-audit"),
        terminal_failure |-> facts.terminal_failure,
        metrics |-> Metrics(rows, facts.exposed_dimensions),
        evidence_integrity |-> IF Caught(c, i) THEN "FAIL" ELSE "PASS",
        replay_matches_final |->
            Attributable(rows, PairFile(c, i, "adjudicator-evidence"), facts)]

\* A published matrix, read again from the evidence wherever that is whole.
ReadAgain(m) ==
    [c \in DOMAIN m |->
        [i \in DOMAIN m[c] |-> IF Kept(c, i) THEN FromEvidence(c, i) ELSE m[c][i]]]

\* What the frozen rules ask of a candidate (docs/qualification/03_SELECTION_RULES).
Deserves(rows) ==
    /\ \A i \in DOMAIN rows :
        /\ rows[i].leak_audit = "PASS"
        /\ rows[i].evidence_integrity = "PASS"
        /\ rows[i].replay_matches_final
    /\ MinTargetsSolved <= Cardinality({i \in DOMAIN rows :
            rows[i].counterexample_discovered /\ ~ rows[i].terminal_failure})
    /\ MinCompleted <= Cardinality({i \in DOMAIN rows : ~ rows[i].terminal_failure})
    /\ MinRouteFamilies
            <= Cardinality(UNION {rows[i].metrics.route_families_probed : i \in DOMAIN rows})
    /\ TwiceMinBindingDimensions <= TwiceBindingDimensions(rows)
    /\ TwiceDuplicateRate(rows) <= TwiceMaxDuplicateRate
    /\ TwiceMinUniqueRate <= TwiceUniqueRate(rows)

\* Their order: targets solved, dimensions, families, duplicates, calls; the order
\* of the candidates decides between equals only.
Merits(rows) ==
    <<TargetsSolved(rows), TwiceBindingDimensions(rows), Cardinality(RouteFamilies(rows)),
      - TwiceDuplicateRate(rows), - TwiceCallsToFirst(rows)>>

Ahead(m, c, d) ==
    LET a == Merits(m[c])
        b == Merits(m[d])
    IN \/ \E i \in 1..5 : a[i] > b[i] /\ \A j \in 1..(i - 1) : a[j] = b[j]
       \/ a = b /\ c < d

\* A publication that verifies is of one run.  That of this run lies over no evidence
\* of an earlier one, and its choice is the one the frozen rules make of the evidence
\* on the disk: nobody deserves it, or the selected candidate does and is ahead of
\* every other that does.  Of a pair whose evidence was damaged the row is all there
\* is (selection.select, cmd_run).
SelectionIsEarned ==
    LET published == disk[Published("result-matrix")]
        choice == disk[Published("selection")]
        m == ReadAgain(published.content)
        selected == choice.content
    IN (Verifies(There) /\ Published("result-matrix") \in DOMAIN disk) =>
        /\ published = Earlier <=> choice = Earlier
        /\ pc = "done" => published.state = "whole"
        /\ published.state = "whole" =>
            /\ \A c \in DOMAIN Candidates, i \in DOMAIN corpus, n \in EvidenceFiles :
                /\ <<"adjudicator", c, i, n>> \in DOMAIN disk
                /\ disk[<<"adjudicator", c, i, n>>] # Earlier
            /\ \/ selected = None /\ \A c \in DOMAIN m : ~ Deserves(m[c])
               \/ /\ selected \in DOMAIN m /\ Deserves(m[selected])
                  /\ \A d \in DOMAIN m \ {selected} :
                        Deserves(m[d]) => Ahead(m, selected, d)

-----------------------------------------------------------------------------
(* Claims of the repository that the code does not keep                    *)

\* The audit stops a pair only over something that is hidden and not an
\* ordinary word: a token of its route, its mechanism, its authorization or the seed
\* (the comment of synthetic_targets._build_route).
OnlySecretsLeak ==
    \A c \in DOMAIN Candidates : \A i \in DOMAIN matrix[c] :
        matrix[c][i].leak_audit = "FAIL" =>
            ({HiddenToken, corpus[i].mechanism, RouteId, SeedText}
                \cup {HiddenValue(d) : d \in corpus[i].exposed})
                \cap (PromptTokens[Candidates[c]] \cup ModelVisibleBundle(corpus[i])) # {}

\* Nothing a published verdict needs is thrown away: when the command has stopped, a
\* publication of an earlier run that verifies still lies over the evidence of that run
\* (the docstring of evidence_store).
PublishedVerdictHasItsEvidence ==
    (/\ pc \in {"crashed", "killed"} /\ Verifies(There)
     /\ Published("result-matrix") \in DOMAIN disk
     /\ disk[Published("result-matrix")] = Earlier) =>
        \A c \in DOMAIN Candidates, i \in DOMAIN corpus, n \in EvidenceFiles :
            disk[<<"adjudicator", c, i, n>>] = Earlier

=============================================================================
