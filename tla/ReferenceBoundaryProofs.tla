------------------------ MODULE ReferenceBoundaryProofs ------------------------
(***************************************************************************)
(* Theorems about RB-001, its falsifier, its search and V1, for every      *)
(* scenario, every variation and every list of candidates.                 *)
(***************************************************************************)
EXTENDS ReferenceBoundary, FiniteSetTheorems, TLAPS

\* Some number of a set of naturals is the least: its interval from 0 is no strict
\* superset of another's.
LEMMA LeastIsThere ==
    ASSUME NEW S \in SUBSET Nat, S # {}
    PROVE  Sets!Min(S) \in S /\ \A i \in S : Sets!Min(S) <= i
<1> DEFINE T == {0..i : i \in S}
           R == StrictSubsetOrdering(Nat)
<1>1. T \subseteq FiniteSubsetsOf(Nat) /\ T # {}
  <2>1. ASSUME NEW i \in S PROVE 0..i \in FiniteSubsetsOf(Nat)
    <3>1. i \in Int /\ 0..i \subseteq Nat
      OBVIOUS
    <3>2. IsFiniteSet(0..i)
      BY <3>1, FS_Interval
    <3> QED
      BY <3>1, <3>2 DEF FiniteSubsetsOf
  <2> QED
    BY <2>1
<1>2. IsWellFoundedOn(R, FiniteSubsetsOf(Nat))
  BY FS_StrictSubsetOrderingWellFounded
<1>3. \E x \in T : \A y \in T : <<y, x>> \notin R
  <2> HIDE DEF T, R
  <2> QED
    BY <1>1, <1>2, WFMin
<1>4. PICK m \in S : \A i \in S : <<0..i, 0..m>> \notin R
  BY <1>3
<1>5. ASSUME NEW i \in S PROVE m <= i
  <2> SUFFICES ASSUME i < m PROVE FALSE
    OBVIOUS
  <2>1. 0..i \subseteq 0..m /\ m \in 0..m /\ m \notin 0..i
    OBVIOUS
  <2>2. 0..i # 0..m /\ 0..i \in SUBSET Nat /\ 0..m \in SUBSET Nat
    BY <2>1
  <2>3. <<0..i, 0..m>> \in (SUBSET Nat) \X (SUBSET Nat)
    BY <2>2
  <2>4. <<0..i, 0..m>> \in R
    BY <2>1, <2>2, <2>3, Zenon DEF StrictSubsetOrdering
  <2> QED
    BY <1>4, <2>4
<1> QED
  BY <1>5 DEF Sets!Min

-----------------------------------------------------------------------------

\* A trace has one consequence event, which says what the commit decided.
LEMMA OneConsequence ==
    ASSUME NEW s, NEW v
    PROVE  /\ Evaluable(Execute(s, v))
           /\ Committed(Execute(s, v)) <=> CommitAllows(s, v)
<1> DEFINE events == Execute(s, v).events
           last == IF v.duplicate_request THEN 7 ELSE 6
<1>1. /\ DOMAIN events = 1..last
      /\ events[last] = Event("consequence_committed", CommitTick(v), CommitAllows(s, v))
      /\ \A i \in 1..(last - 1) : events[i].event # "consequence_committed"
  <2>1. CASE v.duplicate_request
    BY <2>1 DEF Execute, Event
  <2>2. CASE ~ v.duplicate_request
    BY <2>2 DEF Execute, Event
  <2> QED
    BY <2>1, <2>2
<1>2. CommitEvents(Execute(s, v)) = {last}
  BY <1>1 DEF CommitEvents, Event
<1> QED
  BY <1>1, <1>2 DEF Evaluable, Committed, Event

\* The falsifier fires exactly when a decision that looked at a stale status let a
\* commit through whose effective authority was revoked (rb001.execute, falsify).
THEOREM CounterexampleIsStaleness ==
    \A s, v :
        Counterexample(Execute(s, v)) <=>
            /\ CheckAllows(s, v)
            /\ ObservedStatus(s, v) = "ACTIVE"
            /\ EffectiveStatus(s.authority, v.revocation_tick, CommitTick(v)) = "REVOKED"
<1> SUFFICES ASSUME NEW s, NEW v
             PROVE  Counterexample(Execute(s, v)) <=>
                        /\ CheckAllows(s, v)
                        /\ ObservedStatus(s, v) = "ACTIVE"
                        /\ EffectiveStatus(s.authority, v.revocation_tick, CommitTick(v))
                                = "REVOKED"
  OBVIOUS
<1>1. Execute(s, v).authority_effective_at_commit =
        EffectiveStatus(s.authority, v.revocation_tick, CommitTick(v))
  BY DEF Execute
<1> QED
  BY <1>1, OneConsequence DEF Counterexample, CommitAllows

\* Whatever the authority, the ticks, the delay and the retry: the path that looks
\* again at commit is never convicted (the control of scenarios/rb001).
THEOREM ControlIsNeverConvicted ==
    \A s, v : s.enforcement_path = RecheckAtCommit => ~ Counterexample(Execute(s, v))
<1> SUFFICES ASSUME NEW s, NEW v, s.enforcement_path = RecheckAtCommit
             PROVE  ~ Counterexample(Execute(s, v))
  OBVIOUS
<1>1. ObservedAt(s, v) = CommitTick(v)
  BY DEF ObservedAt, RecheckAtCommit, CheckOnceCached, StalePropagation
<1>2. ObservedStatus(s, v) = EffectiveStatus(s.authority, v.revocation_tick, CommitTick(v))
  BY <1>1 DEF ObservedStatus
<1> QED
  BY <1>2, CounterexampleIsStaleness

-----------------------------------------------------------------------------

\* The witness of a search, as run_scenario builds it.
SearchWitness(manifest, s, candidates, adversary) ==
    LET trace == Execute(s, candidates[Selected(s, candidates)])
    IN  BuildWitness(manifest, trace, Counterexample(trace), adversary,
                     Transcript(s, candidates), Selected(s, candidates))

\* V1 finds nothing to object to in the witness of a search, bound to its
\* manifest: an honest run is never REJECTED (pipeline.build_witness, v1.verify).
LEMMA HonestWitnessIsAccepted ==
    ASSUME NEW s, NEW candidates, NEW adversary, NEW manifest,
           manifest.falsifier = FalsifierIdentity,
           manifest.scenario.id = s.scenario_id
    PROVE  RejectionReason(SearchWitness(manifest, s, candidates, adversary), manifest) = None
<1> DEFINE v == candidates[Selected(s, candidates)]
           w == SearchWitness(manifest, s, candidates, adversary)
<1>1. /\ w.trace = Execute(s, v)
      /\ w.trace_digest = DigestObject(w.trace)
      /\ w.claimed_counterexample = Counterexample(w.trace)
      /\ w.falsifier = FalsifierIdentity
      /\ w.scenario_id = s.scenario_id
      /\ w.manifest_digest = DigestObject(manifest)
      /\ WitnessFields \subseteq DOMAIN w
  BY DEF SearchWitness, BuildWitness, WitnessFields
<1>2. w.trace.scenario_id = s.scenario_id
  BY <1>1 DEF Execute
<1>3. Evaluable(w.trace)
  BY <1>1, OneConsequence
<1>4. FalsifierIdentity.version = FalsifierVersion
  BY DEF FalsifierIdentity
<1> HIDE DEF w
<1> QED
  BY <1>1, <1>2, <1>3, <1>4 DEF RejectionReason, w

\* V1's verdict on the witness of a search is what the search can say: confirmed
\* exactly when some candidate is a counterexample, none exactly when no candidate
\* is (pipeline.search, run_scenario, v1.verify).
THEOREM VerdictOfASearch ==
    ASSUME NEW s, NEW candidates, NEW adversary, NEW manifest,
           DOMAIN candidates \subseteq Nat,
           Hits(s, candidates) = {} => 1 \in DOMAIN candidates,
           manifest.falsifier = FalsifierIdentity,
           manifest.scenario.id = s.scenario_id
    PROVE  V1Disposition(SearchWitness(manifest, s, candidates, adversary), manifest) =
               IF \E i \in DOMAIN candidates : Counterexample(Execute(s, candidates[i]))
               THEN Confirmed ELSE NotFound
<1> DEFINE v == candidates[Selected(s, candidates)]
           w == SearchWitness(manifest, s, candidates, adversary)
<1>1. w.trace = Execute(s, v)
  BY DEF SearchWitness, BuildWitness
<1>2. V1Disposition(w, manifest) = IF Counterexample(Execute(s, v)) THEN Confirmed ELSE NotFound
  BY <1>1, HonestWitnessIsAccepted DEF V1Disposition
<1>3. CASE Hits(s, candidates) = {}
  <2>1. Selected(s, candidates) = 1
    BY <1>3 DEF Selected
  <2>2. \A i \in DOMAIN candidates : ~ Counterexample(Execute(s, candidates[i]))
    BY <1>3 DEF Hits
  <2> QED
    BY <1>2, <1>3, <2>1, <2>2
<1>4. CASE Hits(s, candidates) # {}
  <2>1. Hits(s, candidates) \in SUBSET Nat
    BY DEF Hits
  <2>2. Selected(s, candidates) \in Hits(s, candidates)
    BY <1>4, <2>1, LeastIsThere DEF Selected
  <2>3. /\ Selected(s, candidates) \in DOMAIN candidates
        /\ Counterexample(Execute(s, v))
    BY <2>2 DEF Hits
  <2> QED
    BY <1>2, <2>3
<1> QED
  BY <1>3, <1>4

=============================================================================
