-------------------------- MODULE VerdictHistoryProofs --------------------------
(***************************************************************************)
(* Theorems about the verdicts of the host sink: a witnessed crossing is   *)
(* reported for ever, counters never exceed the admissions, and what an    *)
(* alarm and a clean verdict say although their evidence was not read at   *)
(* one instant.                                                            *)
(***************************************************************************)
EXTENDS VerdictHistory, HostSinkDeliveryProofs

\* The report on a row whose authorization was used count times.
ReportOf(row, count) ==
    ValidateAuthorization(Get(Authorizations, row.authorization_ref), row,
                          At(Epochs, row.committed_at), Secret, count, row.token_digest)

UseDimension == {"authorization_use_count"}

\* What no use count can change: the row contradicts the authorization it names
\* (or names none), or agrees with it in every dimension.
Faulty(row) ==
    \/ row.authorization_ref = None
    \/ /\ row.authorization_ref \in DOMAIN Authorizations
       /\ Mismatches(ReportOf(row, 0)) \ UseDimension # {}

Sound(row) ==
    /\ row.authorization_ref \in DOMAIN Authorizations
    /\ Mismatches(ReportOf(row, 0)) \ UseDimension = {}
    /\ UndeterminedDimensions(ReportOf(row, 0)) \ UseDimension = {}

\* Commits and receipts read from a ledger that has a commit id once.
ReadFrom(rows, commits, receipt_rows) ==
    /\ commits \subseteq rows
    /\ receipt_rows \subseteq {Receipt(row) : row \in rows}
    /\ \A r1, r2 \in rows : r1.commit_id = r2.commit_id => r1 = r2

-----------------------------------------------------------------------------
(* Reports                                                                 *)

\* Only the use count depends on the count.
LEMMA ReportParts ==
    ASSUME NEW row, row.authorization_ref \in DOMAIN Authorizations, NEW count \in Nat
    PROVE  /\ DOMAIN ReportOf(row, count) = DOMAIN ReportOf(row, 0)
           /\ \A d \in DOMAIN ReportOf(row, 0) \ UseDimension :
                 ReportOf(row, count)[d] = ReportOf(row, 0)[d]
           /\ "authorization_use_count" \in DOMAIN ReportOf(row, count)
           /\ ReportOf(row, count)["authorization_use_count"] =
                 Check(count <= Authorizations[row.authorization_ref].max_uses)
<1> DEFINE a == Authorizations[row.authorization_ref]
           state == At(Epochs, row.committed_at)
<1>1. a # None /\ count # None /\ 0 # None
  BY HostSinkAssumption
<1>2. \A n : ReportOf(row, n) = Report(a, row, state, Secret, n, row.token_digest)
  BY <1>1 DEF ReportOf, ValidateAuthorization, Get
<1> HIDE DEF a, state
<1> DEFINE token == row.token_digest
<1> HIDE DEF token
<1>3. DOMAIN Report(a, row, state, Secret, count, token) =
        DOMAIN Report(a, row, state, Secret, 0, token)
  BY DEF Report
<1>4. "authorization_use_count" \in DOMAIN Report(a, row, state, Secret, count, token)
  BY DEF Report
<1>5. Report(a, row, state, Secret, count, token)["authorization_use_count"] =
        Check(count <= a.max_uses)
  BY <1>1 DEF Report
<1>6. ASSUME NEW d \in DOMAIN Report(a, row, state, Secret, 0, token) \ UseDimension
      PROVE  Report(a, row, state, Secret, count, token)[d] =
             Report(a, row, state, Secret, 0, token)[d]
  <2> DEFINE r == Report(a, row, state, Secret, count, token)
             r0 == Report(a, row, state, Secret, 0, token)
  <2>1. /\ r.positive_decision = r0.positive_decision
       /\ r.tenant = r0.tenant
       /\ r.principal = r0.principal
       /\ r.agent_identity = r0.agent_identity
       /\ r.release_identity = r0.release_identity
       /\ r.exact_action_digest = r0.exact_action_digest
       /\ r.protected_sink = r0.protected_sink
       /\ r.idempotency_binding = r0.idempotency_binding
    BY DEF Report
  <2>2. /\ r.normalized_action_scope = r0.normalized_action_scope
       /\ r.authorization_integrity = r0.authorization_integrity
       /\ r.validity_interval = r0.validity_interval
       /\ r.authority_state_at_commit = r0.authority_state_at_commit
       /\ r.revocation_state = r0.revocation_state
       /\ r.delegation_chain = r0.delegation_chain
       /\ r.non_amplification = r0.non_amplification
       /\ r.commit_authorization_correlation = r0.commit_authorization_correlation
    BY DEF Report
  <2>3. DOMAIN r0 \ UseDimension =
          {"positive_decision", "tenant", "principal",
           "agent_identity", "release_identity", "exact_action_digest",
           "protected_sink", "idempotency_binding", "normalized_action_scope",
           "authorization_integrity", "validity_interval", "authority_state_at_commit",
           "revocation_state", "delegation_chain", "non_amplification",
           "commit_authorization_correlation"}
    BY DEF Report, UseDimension
  <2> HIDE DEF r, r0
  <2> QED
    BY <1>6, <2>1, <2>2, <2>3 DEF r, r0
<1> QED
  BY <1>2, <1>3, <1>4, <1>5, <1>6 DEF a, token

LEMMA ReportJudged ==
    ASSUME NEW row, row.authorization_ref \in DOMAIN Authorizations, NEW count \in Nat
    PROVE  LET within == count <= Authorizations[row.authorization_ref].max_uses IN
           /\ IsValid(ReportOf(row, count)) <=> Sound(row) /\ within
           /\ Mismatches(ReportOf(row, count)) = {} <=> ~ Faulty(row) /\ within
           /\ Mismatches(ReportOf(row, count)) \ UseDimension # {} <=> Faulty(row)
<1> DEFINE r == ReportOf(row, count)
           r0 == ReportOf(row, 0)
           within == count <= Authorizations[row.authorization_ref].max_uses
           use == "authorization_use_count"
<1>1. /\ DOMAIN r = DOMAIN r0 /\ use \in DOMAIN r
      /\ \A d \in DOMAIN r0 \ {use} : r[d] = r0[d]
      /\ r[use] = Check(within)
  BY ReportParts DEF UseDimension
<1>2. row.authorization_ref # None
  BY HostSinkAssumption
<1> HIDE DEF r, r0, within
<1>3. Mismatches(r) \ {use} = Mismatches(r0) \ {use}
  BY <1>1 DEF Mismatches
<1>4. UndeterminedDimensions(r) = UndeterminedDimensions(r0) \ {use}
  BY <1>1 DEF UndeterminedDimensions, Check, Bound, Mismatch, Undetermined
<1>5. use \in Mismatches(r) <=> ~ within
  BY <1>1 DEF Mismatches, Check, Bound, Mismatch
<1>6. Mismatches(r) = {} <=> Mismatches(r0) \ {use} = {} /\ within
  BY <1>3, <1>5
<1> QED
  BY <1>2, <1>3, <1>4, <1>5, <1>6 DEF IsValid, Sound, Faulty, UseDimension, r, r0, within

\* The evidence of verdict(), field by field.
LEMMA EvidenceFields ==
    ASSUME NEW routes, NEW counts, NEW commits, NEW receipt_rows, NEW rows
    PROVE  LET E == EvidenceFrom(routes, counts, commits, receipt_rows, rows) IN
           /\ E.protected_sink = ProtectedSinkId /\ E.commits = commits
           /\ E.receipts = receipt_rows /\ E.authorizations = Authorizations
           /\ E.authority = Epochs /\ E.secret = Secret /\ E.use_counts = counts
           /\ E.instrument_failures = {}
           /\ E.correlated_token_digests =
                [id \in {row.commit_id : row \in {r \in rows : r.token_digest # None}} |->
                    (CHOOSE row \in rows : row.commit_id = id).token_digest]
  BY DEF EvidenceFrom

\* The verifier's report on a row it read is the report on the row itself: a
\* commit id leads back to the token of that row only.
LEMMA ReportRead ==
    ASSUME NEW routes, NEW counts, NEW commits, NEW receipt_rows, NEW rows,
           ReadFrom(rows, commits, receipt_rows), NEW c \in commits
    PROVE  LET E == EvidenceFrom(routes, counts, commits, receipt_rows, rows) IN
           /\ CommitReport(c, E) = ReportOf(c, Get(counts, c.authorization_ref))
           /\ Witnessed(c, E) <=> Receipt(c) \in receipt_rows
<1> DEFINE E == EvidenceFrom(routes, counts, commits, receipt_rows, rows)
           digests == E.correlated_token_digests
<1>1. /\ c \in rows
      /\ \A row \in rows : row.commit_id = c.commit_id => row = c
  BY DEF ReadFrom
<1>2. digests = [id \in {row.commit_id : row \in {r \in rows : r.token_digest # None}} |->
                    (CHOOSE row \in rows : row.commit_id = id).token_digest]
  BY EvidenceFields
<1>0. /\ E.receipts = receipt_rows /\ E.authorizations = Authorizations
      /\ E.authority = Epochs /\ E.secret = Secret /\ E.use_counts = counts
  BY DEF EvidenceFrom
<1> HIDE DEF E, digests
<1>3. Get(digests, c.commit_id) = c.token_digest
  <2>1. (CHOOSE row \in rows : row.commit_id = c.commit_id) = c
    BY <1>1
  <2>2. CASE c.token_digest # None
    <3>1. c.commit_id \in {row.commit_id : row \in {r \in rows : r.token_digest # None}}
      BY <1>1, <2>2
    <3> QED
      BY <1>2, <2>1, <3>1 DEF Get
  <2>3. CASE c.token_digest = None
    <3>1. c.commit_id \notin {row.commit_id : row \in {r \in rows : r.token_digest # None}}
      BY <1>1, <2>3
    <3> QED
      BY <1>2, <2>3, <3>1 DEF Get
  <2> QED
    BY <2>2, <2>3
<1>4. CommitReport(c, E) = ReportOf(c, Get(counts, c.authorization_ref))
  BY <1>3, <1>0 DEF CommitReport, ReportOf, digests
<1>5. Witnessed(c, E) <=> Receipt(c) \in receipt_rows
  <2>1. Witnessed(c, E) <=> \E r \in receipt_rows : r.commit_id = c.commit_id
    BY <1>0 DEF Witnessed
  <2>2. \A r \in receipt_rows : r.commit_id = c.commit_id => r = Receipt(c)
    BY <1>1 DEF ReadFrom, Receipt
  <2>3. Receipt(c).commit_id = c.commit_id
    BY DEF Receipt
  <2> QED
    BY <2>1, <2>2, <2>3
<1> QED
  BY <1>4, <1>5 DEF E

-----------------------------------------------------------------------------
(* Judgements                                                              *)

\* No counter that was read is above what its authorization allows.
Within(counts) ==
    \A a \in DOMAIN Authorizations : counts[a] <= Authorizations[a].max_uses

ProtectedOf(commits) == {c \in commits : c.sink_id = ProtectedSinkId}

LEMMA CommitJudged ==
    ASSUME NEW routes, NEW counts \in UseCounts, NEW commits, NEW receipt_rows, NEW rows,
           ReadFrom(rows, commits, receipt_rows), NEW c \in commits
    PROVE  LET found == AdjudicateCommit(c, EvidenceFrom(routes, counts, commits,
                                                         receipt_rows, rows)) IN
           /\ Receipt(c) \in receipt_rows /\ Faulty(c) => found = BoundaryFailure
           /\ found = BoundaryFailure /\ Within(counts) =>
                 Receipt(c) \in receipt_rows /\ Faulty(c)
           /\ found = NoCounterexample =>
                 Receipt(c) \in receipt_rows /\ Sound(c) /\ CoveredByReference(c)
           /\ Receipt(c) \in receipt_rows /\ Sound(c) /\ Within(counts) =>
                 found = NoCounterexample
           /\ found \in {BoundaryFailure, NoCounterexample, Unknown}
<1> DEFINE E == EvidenceFrom(routes, counts, commits, receipt_rows, rows)
           ref == c.authorization_ref
           report == CommitReport(c, E)
<1>1. E.authority = Epochs /\ E.authorizations = Authorizations /\ Epochs # None
  BY HostSinkAssumption DEF EvidenceFrom
<1>2. /\ report = ReportOf(c, Get(counts, ref))
      /\ Witnessed(c, E) <=> Receipt(c) \in receipt_rows
  BY ReportRead
<1> HIDE DEF E
<1>3. AdjudicateCommit(c, E) =
        IF Receipt(c) \notin receipt_rows \/ (ref # None /\ ref \notin DOMAIN Authorizations)
        THEN Unknown
        ELSE IF IsValid(report) THEN NoCounterexample
        ELSE IF Mismatches(report) = {} THEN Unknown
        ELSE BoundaryFailure
  BY <1>1, <1>2 DEF AdjudicateCommit, ReferenceMissing
<1>4. CASE ref = None
  <2>1. ref \notin DOMAIN Authorizations
    BY <1>4, HostSinkAssumption
  <2>2. report = [authorization_present |-> Mismatch]
    BY <1>2, <2>1 DEF ReportOf, ValidateAuthorization, Get
  <2>3. "authorization_present" \in Mismatches(report)
    BY <2>2 DEF Mismatches
  <2>4. ~ IsValid(report) /\ Mismatches(report) # {}
    BY <2>3 DEF IsValid
  <2>5. Faulty(c) /\ ~ Sound(c)
    BY <1>4, <2>1 DEF Faulty, Sound
  <2> HIDE DEF report
  <2> QED
    BY <1>3, <1>4, <2>4, <2>5 DEF E, BoundaryFailure, NoCounterexample, Unknown
<1>5. CASE ref # None /\ ref \notin DOMAIN Authorizations
  <2>1. ~ Faulty(c) /\ ~ Sound(c)
    BY <1>5 DEF Faulty, Sound
  <2> QED
    BY <1>3, <1>5, <2>1 DEF E, BoundaryFailure, NoCounterexample, Unknown
<1>6. CASE ref \in DOMAIN Authorizations
  <2> DEFINE within == counts[ref] <= Authorizations[ref].max_uses
  <2>1. counts[ref] \in Nat /\ Get(counts, ref) = counts[ref]
    BY <1>6 DEF UseCounts, Get
  <2>2. /\ IsValid(report) <=> Sound(c) /\ within
        /\ Mismatches(report) = {} <=> ~ Faulty(c) /\ within
        /\ Mismatches(report) \ UseDimension # {} <=> Faulty(c)
    BY <1>2, <1>6, <2>1, ReportJudged
  <2>3. Within(counts) => within
    BY <1>6 DEF Within
  <2>4. IsValid(report) => Mismatches(report) = {}
    BY DEF IsValid
  <2>5. IsValid(report) => CoveredByReference(c)
    <3>1. report = Report(Authorizations[ref], c, At(Epochs, c.committed_at), Secret,
                          counts[ref], c.token_digest)
      BY <1>2, <1>6, <2>1, HostSinkAssumption DEF ReportOf, ValidateAuthorization, Get
    <3> QED
      BY <1>6, <3>1, ValidMeansCovered
  <2> HIDE DEF report, within
  <2> QED
    BY <1>3, <1>6, <2>2, <2>3, <2>4, <2>5, HostSinkAssumption
       DEF E, BoundaryFailure, NoCounterexample, Unknown
<1> QED
  BY <1>4, <1>5, <1>6

\* The verdict on what was read, in terms of the rows themselves.
LEMMA VerdictJudged ==
    ASSUME NEW routes, NEW counts \in UseCounts, NEW commits, NEW receipt_rows, NEW rows,
           ReadFrom(rows, commits, receipt_rows)
    PROVE  LET found == Adjudicate(EvidenceFrom(routes, counts, commits, receipt_rows, rows))
               faults == {c \in ProtectedOf(commits) : Receipt(c) \in receipt_rows /\ Faulty(c)}
               open == {c \in ProtectedOf(commits) :
                           ~ (Receipt(c) \in receipt_rows /\ Sound(c))}
           IN  /\ faults # {} => found = BoundaryFailure
               /\ found = BoundaryFailure /\ Within(counts) => faults # {}
               /\ found = Unknown /\ Within(counts) => open # {}
               /\ found \notin {BoundaryFailure, Unknown} =>
                     open = {} /\ \A c \in ProtectedOf(commits) : CoveredByReference(c)
<1> DEFINE E == EvidenceFrom(routes, counts, commits, receipt_rows, rows)
<1>1. /\ Protected(E) = ProtectedOf(commits) /\ E.instrument_failures = {}
      /\ ProtectedOf(commits) \subseteq commits
  BY DEF EvidenceFrom, Protected, ProtectedOf
<1>2. ASSUME NEW c \in ProtectedOf(commits)
      PROVE  /\ Receipt(c) \in receipt_rows /\ Faulty(c) =>
                    AdjudicateCommit(c, E) = BoundaryFailure
             /\ AdjudicateCommit(c, E) = BoundaryFailure /\ Within(counts) =>
                    Receipt(c) \in receipt_rows /\ Faulty(c)
             /\ AdjudicateCommit(c, E) = NoCounterexample =>
                    Receipt(c) \in receipt_rows /\ Sound(c) /\ CoveredByReference(c)
             /\ Receipt(c) \in receipt_rows /\ Sound(c) /\ Within(counts) =>
                    AdjudicateCommit(c, E) = NoCounterexample
             /\ AdjudicateCommit(c, E) \in {BoundaryFailure, NoCounterexample, Unknown}
  BY <1>1, CommitJudged
<1> HIDE DEF E
<1>3. \A f : f \in Findings(E) <=> \E c \in ProtectedOf(commits) : f = AdjudicateCommit(c, E)
  BY <1>1 DEF Findings
<1>4. /\ Adjudicate(E) = BoundaryFailure <=> BoundaryFailure \in Findings(E)
      /\ Adjudicate(E) = Unknown => Unknown \in Findings(E)
      /\ Adjudicate(E) \notin {BoundaryFailure, Unknown} =>
            BoundaryFailure \notin Findings(E) /\ Unknown \notin Findings(E)
  BY <1>1 DEF Adjudicate, BoundaryFailure, Unknown, IntegrationFailure, InternalFailure,
     NoCounterexample, HarnessFailure
<1>5. Unknown # NoCounterexample
  BY DEF Unknown, NoCounterexample
<1>6. (\E c \in ProtectedOf(commits) : Receipt(c) \in receipt_rows /\ Faulty(c))
        => Adjudicate(E) = BoundaryFailure
  BY <1>2, <1>3, <1>4
<1>7. Adjudicate(E) = BoundaryFailure /\ Within(counts)
        => \E c \in ProtectedOf(commits) : Receipt(c) \in receipt_rows /\ Faulty(c)
  BY <1>2, <1>3, <1>4
<1>8. Adjudicate(E) = Unknown /\ Within(counts)
        => \E c \in ProtectedOf(commits) : ~ (Receipt(c) \in receipt_rows /\ Sound(c))
  BY <1>2, <1>3, <1>4, <1>5
<1>9. Adjudicate(E) \notin {BoundaryFailure, Unknown}
        => \A c \in ProtectedOf(commits) :
                 Receipt(c) \in receipt_rows /\ Sound(c) /\ CoveredByReference(c)
  BY <1>2, <1>3, <1>4
<1> QED
  BY <1>6, <1>7, <1>8, <1>9 DEF E

-----------------------------------------------------------------------------
(* A crossing is permanent                                                 *)

LEMMA LedgerIsRead ==
    ASSUME TypeOK, IInv, ReceiptsOfRows
    PROVE  ReadFrom(ledger, ledger, receipts) /\ uses \in UseCounts
  BY DEF ReadFrom, IInv, UniqueRows, ReceiptsOfRows, TypeOK, StoreTypes

\* A row is a crossing exactly when it is protected, witnessed and faulty.
LEMMA CrossingIsFault ==
    ASSUME TypeOK, IInv, ReceiptsOfRows, NEW row \in ledger
    PROVE  Crossing(row) <=> /\ row \in ProtectedOf(ledger)
                             /\ Receipt(row) \in receipts /\ Faulty(row)
<1> DEFINE ref == row.authorization_ref
<1>1. CommitReport(row, LiveEvidence) = ReportOf(row, Get(uses, ref))
  BY LedgerIsRead, ReportRead DEF LiveEvidence
<1>2. CASE ref \in DOMAIN Authorizations
  <2>1. Get(uses, ref) \in Nat
    BY <1>2, LedgerIsRead DEF UseCounts, Get
  <2>2. Mismatches(CommitReport(row, LiveEvidence)) \ {"authorization_use_count"} # {}
          <=> Faulty(row)
    BY <1>1, <1>2, <2>1, ReportJudged DEF UseDimension
  <2>3. ref # None
    BY <1>2, HostSinkAssumption
  <2> QED
    BY <1>2, <2>2, <2>3 DEF Crossing, ProtectedOf
<1>3. CASE ref \notin DOMAIN Authorizations
  BY <1>3 DEF Crossing, ProtectedOf, Faulty
<1> QED
  BY <1>2, <1>3

\* For any requests, authorizations, authorities and restarts: once a protected
\* commit is witnessed and contradicts its authorization, no later request, lost
\* counter or restart makes the verdict better again.
THEOREM CrossingsStay == Spec => CrossingIsPermanent
<1>1. DeliveryInv /\ TelemetryInv /\ DeliveryInv' /\ TelemetryInv' /\ [Next]_vars =>
        [(\E row \in ledger : Crossing(row)) => LiveDisposition' = BoundaryFailure]_vars
  <2> SUFFICES ASSUME DeliveryInv, TelemetryInv, DeliveryInv', TelemetryInv', [Next]_vars,
                      NEW row \in ledger, Crossing(row)
               PROVE  LiveDisposition' = BoundaryFailure
    OBVIOUS
  <2> USE DEF DeliveryInv, TelemetryInv
  <2>1. row \in ProtectedOf(ledger) /\ Receipt(row) \in receipts /\ Faulty(row)
    BY CrossingIsFault
  <2>2. ledger \subseteq ledger' /\ receipts \subseteq receipts'
    BY HistoryStep
  <2>3. row \in ProtectedOf(ledger') /\ Receipt(row) \in receipts'
    BY <2>1, <2>2 DEF ProtectedOf
  <2>4. ReadFrom(ledger', ledger', receipts') /\ uses' \in UseCounts
    BY DEF ReadFrom, IInv, UniqueRows, ReceiptsOfRows, TypeOK, StoreTypes, Receipt
  <2>5. LiveDisposition' =
          Adjudicate(EvidenceFrom(ObservedRoutes', uses', ledger', receipts', ledger'))
    BY DEF LiveDisposition, LiveEvidence
  <2> QED
    BY <2>1, <2>3, <2>4, <2>5, VerdictJudged
<1> QED
  BY <1>1, Telemetered, PTL DEF Spec, CrossingIsPermanent

-----------------------------------------------------------------------------
(* Admissions                                                              *)

AuthorizationOf(t) == request[t].payload.authorization_id

\* No counter, no value a thread is about to store and no count the evidence
\* holds exceeds the admissions made.
AdmissionInv ==
    /\ admissions \in UseCounts
    /\ \A a \in DOMAIN Authorizations :
          uses[a] <= admissions[a] /\ snapshot.use_counts[a] <= admissions[a]
    /\ \A t \in Threads :
          pc[t] = "use_write" => used[t] <= admissions[AuthorizationOf(t)]

\* Only a restart is counted as one.
LEMMA RestartFrame ==
    ASSUME TypeOK, WorkInProgress, [Next]_vars
    PROVE  Restart \/ restarts' = restarts
<1>1. ASSUME NEW g \in Handlers, NEW q \in Requests, Post(g, q)
      PROVE  restarts' = restarts
  BY <1>1 DEF Post
<1>2. ASSUME NEW g \in Handlers, Enqueue(g) \/ JobDone(g) \/ WorkerTimeout(g)
      PROVE  restarts' = restarts
  BY <1>2 DEF Enqueue, JobDone, WorkerTimeout
<1>3. CASE WorkerGet
  BY <1>3 DEF WorkerGet
<1> QED
  BY <1>1, <1>2, <1>3, TickingFrame, WorkingFrame, LeavingFrame, StepCases

\* Only record_use, in its second half, writes a counter.
LEMMA UsesFrame ==
    ASSUME TypeOK, [Next]_vars
    PROVE  uses' = uses \/ Restart \/ \E t \in Threads : WriteUse(t)
<1>1. CASE Ticking
  BY <1>1 DEF Ticking, WorkerLoop, WorkerEmpty, ReaderStep, ReadObservedPaths, ReadUseCounts,
     ReadCommits, ReadReceipts, ReadTokensAndAdjudicate, CloseServer, Close, vars
<1>2. ASSUME NEW g \in Handlers, NEW q \in Requests, Post(g, q)
      PROVE  uses' = uses
  BY <1>2 DEF Post
<1>3. ASSUME NEW t \in Threads, Deciding(t) \/ Commit(t) \/ ObserveCommit(t) \/ Leaving(t)
      PROVE  uses' = uses \/ WriteUse(t)
  BY <1>3 DEF Deciding, CheckIdempotency, Validate, ReadUse, Commit, ObserveCommit, Leaving,
     BuildFails, CommitConflict, Refuse, EmitReceipt
<1>4. ASSUME NEW g \in Handlers, Enqueue(g) \/ JobDone(g) \/ WorkerTimeout(g)
      PROVE  uses' = uses
  BY <1>4 DEF Enqueue, JobDone, WorkerTimeout
<1>5. CASE WorkerGet
  BY <1>5 DEF WorkerGet
<1> QED
  BY <1>1, <1>2, <1>3, <1>4, <1>5, StepCases

\* A thread is between the halves of record_use, or leaves them.
LEMMA RecordingFrame ==
    ASSUME TypeOK, [Next]_vars, NEW t \in Threads
    PROVE  /\ pc[t] = "use_write" /\ pc'[t] = "commit" => WriteUse(t)
           /\ pc'[t] = "use_write" =>
                 \/ pc[t] = "use_write" /\ used'[t] = used[t] /\ request'[t] = request[t]
                 \/ ReadUse(t)
<1> USE DEF TypeOK, ThreadTypes
<1> DEFINE Kept == pc'[t] = pc[t] /\ used'[t] = used[t] /\ request'[t] = request[t]
           Elsewhere == pc'[t] \notin {"use_write", "commit"}
<1>1. CASE Ticking
  <2>1. UNCHANGED used
    BY <1>1 DEF Ticking, WorkerLoop, WorkerEmpty, ReaderStep, ReadObservedPaths, ReadUseCounts,
       ReadCommits, ReadReceipts, ReadTokensAndAdjudicate, CloseServer, Close, vars
  <2>2. Kept \/ Elsewhere
    BY <1>1, <2>1, TickingFrame DEF Threads
  <2> QED
    BY <2>2
<1>2. ASSUME NEW g \in Handlers, NEW q \in Requests, Post(g, q)
      PROVE  Kept \/ Elsewhere
  BY <1>2, WorkerApart DEF Post, Goto
<1>3. ASSUME NEW s \in Threads, Deciding(s) \/ Commit(s) \/ ObserveCommit(s)
      PROVE  \/ Kept \/ Elsewhere
             \/ pc[t] # "use_write" /\ pc'[t] = "commit"
             \/ WriteUse(t) /\ pc'[t] = "commit"
             \/ ReadUse(t) /\ pc[t] # "use_write"
  BY <1>3 DEF Deciding, CheckIdempotency, Validate, ReadUse, WriteUse, Commit, ObserveCommit,
     Goto
<1>4. ASSUME NEW s \in Threads, Leaving(s)
      PROVE  Kept \/ Elsewhere
  BY <1>4 DEF Leaving, BuildFails, CommitConflict, Refuse, EmitReceipt, Raise, Return, Goto
<1>5. ASSUME NEW g \in Handlers, Enqueue(g) \/ JobDone(g) \/ WorkerTimeout(g)
      PROVE  Kept \/ Elsewhere
  BY <1>5, WorkerApart DEF Enqueue, JobDone, WorkerTimeout, Goto
<1>6. CASE WorkerGet
  <2>1. Kept \/ Elsewhere
    BY <1>6, WorkerApart DEF WorkerGet, Goto
  <2> QED
    BY <2>1
<1>7. CASE Restart
  <2>1. Kept \/ Elsewhere
    BY <1>7 DEF Restart
  <2> QED
    BY <2>1
<1> QED
  BY <1>1, <1>2, <1>3, <1>4, <1>5, <1>6, <1>7, StepCases

\* Only the reader and a restart touch the evidence.
LEMMA ReaderFrame ==
    ASSUME TypeOK, [Next]_vars
    PROVE  ReaderStep \/ Restart \/ UNCHANGED readerVars
<1>1. CASE Ticking
  BY <1>1 DEF Ticking, WorkerLoop, WorkerEmpty, CloseServer, Close, vars
<1>2. ASSUME NEW g \in Handlers, NEW q \in Requests, Post(g, q)
      PROVE  UNCHANGED readerVars
  BY <1>2 DEF Post
<1>3. ASSUME NEW t \in Threads, Deciding(t) \/ Commit(t) \/ ObserveCommit(t) \/ Leaving(t)
      PROVE  UNCHANGED readerVars
  BY <1>3 DEF Deciding, CheckIdempotency, Validate, ReadUse, WriteUse, Commit, ObserveCommit,
     Leaving, BuildFails, CommitConflict, Refuse, EmitReceipt
<1>4. ASSUME NEW g \in Handlers, Enqueue(g) \/ JobDone(g) \/ WorkerTimeout(g)
      PROVE  UNCHANGED readerVars
  BY <1>4 DEF Enqueue, JobDone, WorkerTimeout
<1>5. CASE WorkerGet
  BY <1>5 DEF WorkerGet
<1> QED
  BY <1>1, <1>2, <1>3, <1>4, <1>5, StepCases

\* The threads that record a use in a step: the one that writes the counter.
LEMMA RecordingIs ==
    ASSUME TypeOK, [Next]_vars
    PROVE  /\ \A t \in Threads : WriteUse(t) =>
                 \A a : Recording(a) = IF a = AuthorizationOf(t) THEN {t} ELSE {}
           /\ (\A t \in Threads : ~ WriteUse(t)) => \A a : Recording(a) = {}
<1>1. ASSUME NEW t \in Threads, WriteUse(t), NEW a
      PROVE  Recording(a) = IF a = AuthorizationOf(t) THEN {t} ELSE {}
  <2>1. pc[t] = "use_write" /\ pc' = [pc EXCEPT ![t] = "commit"]
    BY <1>1 DEF WriteUse, Goto
  <2>2. \A s \in Threads : pc[s] = "use_write" /\ pc'[s] = "commit" <=> s = t
    BY <2>1 DEF TypeOK, ThreadTypes
  <2> QED
    BY <2>2 DEF Recording, AuthorizationOf
<1>2. ASSUME \A t \in Threads : ~ WriteUse(t), NEW a
      PROVE  Recording(a) = {}
  BY <1>2, RecordingFrame DEF Recording
<1> QED
  BY <1>1, <1>2

\* Admissions only grow while the process lives, by one for every use recorded.
LEMMA AdmissionsGrow ==
    ASSUME TypeOK, WorkInProgress, admissions \in UseCounts, HistoryNext, ~ Restart
    PROVE  /\ admissions' \in UseCounts
           /\ \A a \in DOMAIN Authorizations : admissions[a] <= admissions'[a]
           /\ \A t \in Threads : WriteUse(t) /\ AuthorizationOf(t) \in DOMAIN Authorizations =>
                 admissions'[AuthorizationOf(t)] = admissions[AuthorizationOf(t)] + 1
<1>1. restarts' = restarts /\ [Next]_vars
  BY RestartFrame DEF HistoryNext
<1>2. admissions' = [a \in DOMAIN Authorizations |->
                        admissions[a] + Cardinality(Recording(a))]
  BY <1>1 DEF HistoryNext, UseCounts
<1>3. Cardinality({}) = 0 /\ \A t \in Threads : Cardinality({t}) = 1
  BY FS_EmptySet, FS_Singleton
<1>4. \A a \in DOMAIN Authorizations : Cardinality(Recording(a)) \in {0, 1}
  BY <1>1, <1>3, RecordingIs
<1>5. \A t \in Threads : WriteUse(t) => Cardinality(Recording(AuthorizationOf(t))) = 1
  BY <1>1, <1>3, RecordingIs
<1>6. \A a \in DOMAIN Authorizations : admissions[a] \in Nat
  BY DEF UseCounts
<1> HIDE DEF HistoryNext
<1>7. admissions' \in UseCounts
  BY <1>2, <1>4, <1>6 DEF UseCounts
<1> QED
  BY <1>2, <1>4, <1>5, <1>6, <1>7

LEMMA AdmissionStep ==
    ASSUME DeliveryInv, AdmissionInv, HistoryNext
    PROVE  AdmissionInv'
<1> USE DEF DeliveryInv
<1>0. [Next]_vars /\ WorkInProgress /\ TypeOK'
  BY InvStep DEF HistoryNext, IInv
<1>1. CASE Restart
  <2>1. admissions' = NoUses
    BY <1>1 DEF Restart, HistoryNext, TypeOK, ReaderTypes
  <2>2. /\ uses' = NoUses /\ snapshot'.use_counts = NoUses
        /\ \A t \in Threads : pc'[t] # "use_write"
    BY <1>1 DEF Restart, EmptySnapshot
  <2> QED
    BY <2>1, <2>2 DEF AdmissionInv, NoUses, UseCounts
<1>2. CASE ~ Restart
  <2>1. /\ admissions' \in UseCounts
        /\ \A a \in DOMAIN Authorizations : admissions[a] <= admissions'[a]
        /\ \A t \in Threads : WriteUse(t) /\ AuthorizationOf(t) \in DOMAIN Authorizations =>
              admissions'[AuthorizationOf(t)] = admissions[AuthorizationOf(t)] + 1
    BY <1>0, <1>2, AdmissionsGrow DEF AdmissionInv
  <2> HIDE DEF HistoryNext
  <2>2. /\ uses \in UseCounts /\ uses' \in UseCounts
        /\ snapshot.use_counts \in UseCounts /\ snapshot'.use_counts \in UseCounts
        /\ used \in [Threads -> Nat] /\ used' \in [Threads -> Nat]
    BY <1>0 DEF TypeOK, StoreTypes, ReaderTypes, ThreadTypes
  <2>3. ASSUME NEW t \in Threads, pc[t] \in {"use_read", "use_write"}
        PROVE  AuthorizationOf(t) \in DOMAIN Authorizations
    BY <2>3 DEF IInv, AdmittedInFlight, CoveredByReference, EventOf, Event, AuthorizationOf
  <2>a. ASSUME NEW i \in Nat, NEW j \in Nat, NEW k \in Nat, i <= j, j <= k PROVE i <= k
    BY <2>a
  <2>b. \A a \in DOMAIN Authorizations :
          /\ uses[a] \in Nat /\ uses'[a] \in Nat
          /\ admissions[a] \in Nat /\ admissions'[a] \in Nat
          /\ snapshot.use_counts[a] \in Nat /\ snapshot'.use_counts[a] \in Nat
    BY <2>1, <2>2 DEF AdmissionInv, UseCounts
  <2>4. ASSUME NEW a \in DOMAIN Authorizations
        PROVE  uses'[a] <= admissions'[a]
    <3>1. CASE uses' = uses
      BY <2>1, <2>a, <2>b, <3>1 DEF AdmissionInv
    <3>2. ASSUME NEW t \in Threads, WriteUse(t)
          PROVE  uses'[a] <= admissions'[a]
      <4>1. pc[t] = "use_write" /\ uses' = [uses EXCEPT ![AuthorizationOf(t)] = used[t] + 1]
        BY <3>2 DEF WriteUse, AuthorizationOf
      <4>2. CASE a = AuthorizationOf(t)
        <5>1. uses'[a] = used[t] + 1 /\ used[t] <= admissions[a]
          BY <2>2, <4>1, <4>2 DEF AdmissionInv, UseCounts
        <5>2. admissions'[a] = admissions[a] + 1
          BY <2>1, <3>2, <4>2
        <5> QED
          BY <2>2, <2>b, <5>1, <5>2
      <4>3. CASE a # AuthorizationOf(t)
        <5>1. uses'[a] = uses[a]
          BY <2>2, <4>1, <4>3 DEF UseCounts
        <5> QED
          BY <2>1, <2>a, <2>b, <5>1 DEF AdmissionInv
      <4> QED
        BY <4>2, <4>3
    <3> QED
      BY <1>0, <1>2, <3>1, <3>2, UsesFrame
  <2>5. ASSUME NEW a \in DOMAIN Authorizations
        PROVE  snapshot'.use_counts[a] <= admissions'[a]
    <3>1. CASE snapshot'.use_counts = snapshot.use_counts
      BY <2>1, <2>a, <2>b, <3>1 DEF AdmissionInv
    <3>2. CASE snapshot'.use_counts = uses
      BY <2>1, <2>a, <2>b, <3>2 DEF AdmissionInv
    <3>3. CASE snapshot'.use_counts = NoUses
      BY <2>b, <3>3 DEF NoUses
    <3>4. ReaderStep => \/ snapshot'.use_counts = snapshot.use_counts
                        \/ snapshot'.use_counts = uses
                        \/ snapshot'.use_counts = NoUses
      BY DEF ReaderStep, ReadObservedPaths, ReadUseCounts, ReadCommits, ReadReceipts,
         ReadTokensAndAdjudicate, EmptySnapshot, TypeOK, ReaderTypes
    <3> QED
      BY <1>0, <1>2, <3>1, <3>2, <3>3, <3>4, ReaderFrame DEF readerVars
  <2>6. ASSUME NEW t \in Threads, pc'[t] = "use_write"
        PROVE  used'[t] <= admissions'[AuthorizationOf(t)']
    <3>1. CASE pc[t] = "use_write" /\ used'[t] = used[t] /\ request'[t] = request[t]
      <4>1. /\ AuthorizationOf(t)' = AuthorizationOf(t)
            /\ AuthorizationOf(t) \in DOMAIN Authorizations
            /\ used[t] \in Nat /\ used[t] <= admissions[AuthorizationOf(t)]
        BY <2>2, <2>3, <3>1 DEF AuthorizationOf, AdmissionInv
      <4> QED
        BY <2>1, <2>a, <2>b, <3>1, <4>1
    <3>2. CASE ReadUse(t)
      <4>1. /\ AuthorizationOf(t)' = AuthorizationOf(t)
            /\ AuthorizationOf(t) \in DOMAIN Authorizations
            /\ used'[t] = uses[AuthorizationOf(t)]
        BY <2>2, <2>3, <3>2 DEF AuthorizationOf, ReadUse
      <4> QED
        BY <2>1, <2>a, <2>b, <4>1 DEF AdmissionInv
    <3> QED
      BY <1>0, <2>6, <3>1, <3>2, RecordingFrame
  <2> QED
    BY <2>1, <2>4, <2>5, <2>6 DEF AdmissionInv
<1> QED
  BY <1>1, <1>2

\* HistorySpec only watches Spec.
LEMMA HistoryWatches == HistorySpec => Spec
<1>1. HistoryInit => Init
  BY DEF HistoryInit
<1>2. [HistoryNext]_historyVars => [Next]_vars
  BY DEF HistoryNext, historyVars
<1> QED
  BY <1>1, <1>2, PTL DEF HistorySpec, Spec

LEMMA Admitted == HistorySpec => [](DeliveryInv /\ TelemetryInv /\ AdmissionInv)
<1>1. HistoryInit => AdmissionInv
  BY DEF HistoryInit, Init, AdmissionInv, NoUses, UseCounts, EmptySnapshot, Threads
<1>2. DeliveryInv /\ AdmissionInv /\ [HistoryNext]_historyVars => AdmissionInv'
  <2>1. CASE HistoryNext
    BY <2>1, AdmissionStep
  <2>2. CASE UNCHANGED historyVars
    BY <2>2 DEF historyVars, vars, readerVars, AdmissionInv, AuthorizationOf
  <2> QED
    BY <2>1, <2>2
<1> QED
  BY <1>1, <1>2, HistoryWatches, Telemetered, PTL DEF HistorySpec

\* For any number of threads that race in record_use, the counter the guard and
\* the verifier trust never exceeds the admissions made since the last restart.
THEOREM CountersNeverOverstate == HistorySpec => []UseCountNeverOverstates
<1>1. DeliveryInv /\ AdmissionInv => UseCountNeverOverstates
  BY DEF DeliveryInv, TypeOK, StoreTypes, UseCounts, AdmissionInv, UseCountNeverOverstates
<1> QED
  BY <1>1, Admitted, PTL

-----------------------------------------------------------------------------
(* Verdicts                                                                *)

\* What the instant at which the commits were read has left: it was unknown, or
\* showed a crossing the evidence still shows, or every protected row it had was
\* witnessed and sound.
Caught(receipt_rows) ==
    \/ Unknown \in since
    \/ \E c \in ProtectedOf(snapshot.commits) : Receipt(c) \in receipt_rows /\ Faulty(c)
    \/ /\ since \ {BoundaryFailure, Unknown} # {}
       /\ \A c \in ProtectedOf(snapshot.commits) : Receipt(c) \in receipt_rows /\ Sound(c)

CaughtInv ==
    ~ Overused => /\ reader = "receipts" => Caught(receipts)
                  /\ reader = "adjudicate" => Caught(snapshot.receipts)

EvidenceInv ==
    /\ reader # "idle" => verdict = None
    /\ snapshot.commits \subseteq ledger /\ snapshot.receipts \subseteq receipts
    /\ CaughtInv
    /\ CleanVerdictCoversCommits /\ AlarmIsOfSomeInstant /\ StandingCrossingIsReported

LEMMA NoVerdict ==
    ASSUME verdict = None
    PROVE  CleanVerdictCoversCommits /\ AlarmIsOfSomeInstant /\ StandingCrossingIsReported
<1>1. verdict \notin Disposition
  BY HostSinkAssumption
<1> QED
  BY <1>1 DEF CleanVerdictCoversCommits, AlarmIsOfSomeInstant, StandingCrossingIsReported,
     Disposition

\* Without overuse no count, live or read before, is above its limit.
LEMMA NotOverusedIsWithin ==
    ASSUME DeliveryInv, AdmissionInv, ~ Overused
    PROVE  Within(uses) /\ Within(snapshot.use_counts)
<1>1. ASSUME NEW a \in DOMAIN Authorizations
      PROVE  /\ uses[a] <= Authorizations[a].max_uses
             /\ snapshot.use_counts[a] <= Authorizations[a].max_uses
  <2>1. /\ admissions[a] \in Nat /\ uses[a] \in Nat /\ snapshot.use_counts[a] \in Nat
        /\ Authorizations[a].max_uses \in Int
    BY HostSinkAssumption DEF DeliveryInv, TypeOK, StoreTypes, ReaderTypes, UseCounts,
       AdmissionInv
  <2>2. ~ (admissions[a] > Authorizations[a].max_uses)
    BY DEF Overused, AdmissionInv, UseCounts
  <2>3. uses[a] <= admissions[a] /\ snapshot.use_counts[a] <= admissions[a]
    BY DEF AdmissionInv
  <2> DEFINE n == admissions[a]
             u == uses[a]
             s == snapshot.use_counts[a]
             m == Authorizations[a].max_uses
  <2> HIDE DEF n, u, s, m
  <2>4. n \in Nat /\ u \in Nat /\ s \in Nat /\ m \in Int /\ ~ (n > m) /\ u <= n /\ s <= n
    BY <2>1, <2>2, <2>3 DEF n, u, s, m
  <2>5. u <= m /\ s <= m
    BY <2>4
  <2> QED
    BY <2>5 DEF u, s, m
<1> QED
  BY <1>1 DEF Within

LEMMA OveruseStays ==
    ASSUME DeliveryInv, AdmissionInv, HistoryNext, ~ Restart, ~ Overused'
    PROVE  ~ Overused
<1> SUFFICES ASSUME NEW a \in DOMAIN admissions,
                    admissions[a] > Authorizations[a].max_uses
             PROVE  admissions'[a] > Authorizations[a].max_uses /\ a \in DOMAIN admissions'
  BY DEF Overused
<1>1. DOMAIN admissions = DOMAIN Authorizations
  BY DEF AdmissionInv, UseCounts
<1>2. admissions' \in UseCounts /\ admissions[a] <= admissions'[a]
  BY <1>1, AdmissionsGrow DEF DeliveryInv, AdmissionInv, IInv
<1>3. admissions[a] \in Nat /\ admissions'[a] \in Nat /\ Authorizations[a].max_uses \in Int
  BY <1>1, <1>2, HostSinkAssumption DEF AdmissionInv, UseCounts
<1>4. ASSUME NEW i \in Nat, NEW j \in Nat, NEW m \in Int, i > m, i <= j PROVE j > m
  BY <1>4
<1>5. DOMAIN admissions' = DOMAIN Authorizations
  BY <1>2 DEF UseCounts
<1> QED
  BY <1>1, <1>2, <1>3, <1>4, <1>5

\* Reading the commits.
LEMMA CommitsRead ==
    ASSUME DeliveryInv, TelemetryInv, AdmissionInv, HistoryNext, ReadCommits
    PROVE  CaughtInv'
<1> SUFFICES ASSUME ~ Overused' PROVE Caught(receipts)'
  BY DEF ReadCommits, CaughtInv
<1>1. reader = "commits" /\ ledger' = ledger /\ receipts' = receipts
      /\ snapshot' = [snapshot EXCEPT !.commits = ledger]
  BY DEF ReadCommits, dbVars
<1>2. snapshot'.commits = ledger /\ since' = since \cup {LiveDisposition}
  BY <1>1 DEF HistoryNext, DeliveryInv, TypeOK, ReaderTypes
<1>3. ~ Overused
  <2>1. ~ Restart
    BY DEF ReadCommits, Restart, DeliveryInv, TypeOK, ReaderTypes
  <2> QED
    BY <2>1, OveruseStays
<1>4. Within(uses)
  BY <1>3, NotOverusedIsWithin
<1>5. ReadFrom(ledger, ledger, receipts) /\ uses \in UseCounts
  BY LedgerIsRead DEF DeliveryInv, TelemetryInv
<1>6. LiveDisposition = Adjudicate(EvidenceFrom(ObservedRoutes, uses, ledger, receipts, ledger))
  BY DEF LiveDisposition, LiveEvidence
<1>7. CASE LiveDisposition = BoundaryFailure
  <2>0. Adjudicate(EvidenceFrom(ObservedRoutes, uses, ledger, receipts, ledger)) =
          BoundaryFailure
    BY <1>6, <1>7
  <2>1. {c \in ProtectedOf(ledger) : Receipt(c) \in receipts /\ Faulty(c)} # {}
    BY <1>4, <1>5, <2>0, VerdictJudged
  <2>2. \E c \in ProtectedOf(ledger) : Receipt(c) \in receipts /\ Faulty(c)
    BY <2>1
  <2>3. snapshot'.commits = ledger /\ receipts' = receipts
    BY <1>1, <1>2
  <2> QED
    BY <2>2, <2>3 DEF Caught, ProtectedOf, Receipt, Faulty
<1>8. CASE LiveDisposition = Unknown
  BY <1>2, <1>8 DEF Caught
<1>9. CASE LiveDisposition \notin {BoundaryFailure, Unknown}
  <2>1. \A c \in ProtectedOf(ledger) : Receipt(c) \in receipts /\ Sound(c)
    BY <1>5, <1>6, <1>9, VerdictJudged
  <2>2. since' \ {BoundaryFailure, Unknown} # {}
    BY <1>2, <1>9
  <2> QED
    BY <1>1, <1>2, <2>1, <2>2 DEF Caught
<1> QED
  BY <1>7, <1>8, <1>9

\* The verdict.
LEMMA VerdictGiven ==
    ASSUME DeliveryInv, TelemetryInv, AdmissionInv, EvidenceInv, HistoryNext,
           ReadTokensAndAdjudicate
    PROVE  EvidenceInv'
<1> DEFINE found == Adjudicate(EvidenceFrom(snapshot.routes, snapshot.use_counts,
                                            snapshot.commits, snapshot.receipts, ledger))
           Shown == \E c \in ProtectedOf(snapshot.commits) :
                       Receipt(c) \in snapshot.receipts /\ Faulty(c)
           Held == \A c \in ProtectedOf(snapshot.commits) :
                       Receipt(c) \in snapshot.receipts /\ Sound(c)
<1>1. /\ reader = "adjudicate" /\ reader' = "idle" /\ verdict' = found
      /\ UNCHANGED <<ledger, receipts, snapshot>>
  BY DEF ReadTokensAndAdjudicate, dbVars
<1>2. since' = since \cup {LiveDisposition}
  BY <1>1 DEF HistoryNext
<1>3. ~ Restart
  BY DEF ReadTokensAndAdjudicate, Restart, DeliveryInv, TypeOK, ReaderTypes
<1>4. ReadFrom(ledger, ledger, receipts) /\ uses \in UseCounts
  BY LedgerIsRead DEF DeliveryInv, TelemetryInv
<1>5. /\ ReadFrom(ledger, snapshot.commits, snapshot.receipts)
      /\ snapshot.use_counts \in UseCounts
  BY <1>4 DEF ReadFrom, EvidenceInv, DeliveryInv, TypeOK, ReaderTypes
<1>6. /\ Shown => found = BoundaryFailure
      /\ found = BoundaryFailure /\ Within(snapshot.use_counts) => Shown
      /\ found = Unknown /\ Within(snapshot.use_counts) => ~ Held
      /\ found \notin {BoundaryFailure, Unknown} =>
            Held /\ \A c \in ProtectedOf(snapshot.commits) : CoveredByReference(c)
  BY <1>5, VerdictJudged
<1>7. Shown => LiveDisposition = BoundaryFailure
  <2> SUFFICES ASSUME NEW c \in ProtectedOf(snapshot.commits),
                      Receipt(c) \in snapshot.receipts, Faulty(c)
               PROVE  LiveDisposition = BoundaryFailure
    OBVIOUS
  <2>1. c \in ProtectedOf(ledger) /\ Receipt(c) \in receipts
    BY DEF EvidenceInv, ProtectedOf
  <2> QED
    BY <1>4, <2>1, VerdictJudged DEF LiveDisposition, LiveEvidence
<1>8. ~ Overused' =>
        /\ Within(snapshot.use_counts)
        /\ \/ Unknown \in since
           \/ Shown
           \/ since \ {BoundaryFailure, Unknown} # {} /\ Held
  BY <1>1, <1>3, OveruseStays, NotOverusedIsWithin DEF EvidenceInv, CaughtInv, Caught
<1> HIDE DEF found, Shown
<1>9. CleanVerdictCoversCommits'
  <2>1. NoCounterexample \notin {BoundaryFailure, Unknown}
    BY DEF NoCounterexample, BoundaryFailure, Unknown
  <2>2. found = NoCounterexample =>
          Held /\ \A c \in ProtectedOf(snapshot.commits) : CoveredByReference(c)
    BY <1>6, <2>1
  <2>3. \A c : Receipt(c)' = Receipt(c)
    BY DEF Receipt
  <2> QED
    BY <1>1, <2>2, <2>3 DEF CleanVerdictCoversCommits, EvidenceInv, ProtectedOf
<1>10. BoundaryFailure # Unknown
  BY DEF BoundaryFailure, Unknown
<1>11. AlarmIsOfSomeInstant'
  <2> SUFFICES ASSUME found \in {BoundaryFailure, Unknown}, ~ Overused'
               PROVE  found \in since'
    BY <1>1 DEF AlarmIsOfSomeInstant
  <2> QED
    BY <1>2, <1>6, <1>7, <1>8, <1>10
<1>12. StandingCrossingIsReported'
  <2> SUFFICES ASSUME since' = {BoundaryFailure}, ~ Overused'
               PROVE  found = BoundaryFailure
    BY <1>1 DEF StandingCrossingIsReported
  <2> QED
    BY <1>2, <1>6, <1>8, <1>10
<1> QED
  BY <1>1, <1>9, <1>11, <1>12 DEF EvidenceInv, CaughtInv

\* A step that leaves the collected evidence alone.
LEMMA EvidenceKept ==
    ASSUME DeliveryInv, AdmissionInv, EvidenceInv, HistoryNext, ~ Restart, UNCHANGED readerVars
    PROVE  EvidenceInv'
<1>1. ledger \subseteq ledger' /\ receipts \subseteq receipts'
  BY HistoryStep DEF DeliveryInv, HistoryNext
<1>2. ~ Overused' => ~ Overused
  BY OveruseStays
<1>3. reader' = reader /\ snapshot' = snapshot /\ verdict' = verdict
  BY DEF readerVars
<1>4. since \subseteq since' /\ (reader = "idle" => since' = since)
  BY <1>3 DEF HistoryNext
<1> HIDE DEF HistoryNext
<1>5. /\ \A c : Receipt(c)' = Receipt(c) /\ Faulty(c)' = Faulty(c) /\ Sound(c)' = Sound(c)
      /\ ProtectedOf(snapshot.commits)' = ProtectedOf(snapshot.commits)
  BY <1>3 DEF ProtectedOf, Receipt, Faulty, Sound
<1>6. CaughtInv'
  <2>1. /\ Caught(receipts) => Caught(receipts)'
        /\ Caught(snapshot.receipts) => Caught(snapshot.receipts)'
    BY <1>1, <1>3, <1>4, <1>5 DEF Caught
  <2> QED
    BY <1>2, <1>3, <2>1 DEF CaughtInv, EvidenceInv
<1>7. CASE reader # "idle"
  <2>1. verdict' = None
    BY <1>3, <1>7 DEF EvidenceInv
  <2>2. CleanVerdictCoversCommits' /\ AlarmIsOfSomeInstant' /\ StandingCrossingIsReported'
    <3>1. verdict' \notin Disposition
      BY <2>1, HostSinkAssumption
    <3> QED
      BY <2>1, <3>1 DEF CleanVerdictCoversCommits, AlarmIsOfSomeInstant,
         StandingCrossingIsReported, Disposition
  <2> QED
    BY <1>1, <1>3, <1>6, <2>1, <2>2 DEF EvidenceInv
<1>8. CASE reader = "idle"
  <2>1. AlarmIsOfSomeInstant' /\ StandingCrossingIsReported'
    BY <1>2, <1>3, <1>4, <1>8 DEF EvidenceInv, AlarmIsOfSomeInstant, StandingCrossingIsReported
  <2>2. CleanVerdictCoversCommits'
    BY <1>1, <1>3, <1>5 DEF EvidenceInv, CleanVerdictCoversCommits
  <2> QED
    BY <1>1, <1>3, <1>6, <1>8, <2>1, <2>2 DEF EvidenceInv
<1> QED
  BY <1>7, <1>8

LEMMA EvidenceStep ==
    ASSUME DeliveryInv, TelemetryInv, AdmissionInv, EvidenceInv, HistoryNext
    PROVE  EvidenceInv'
<1>1. ASSUME verdict' = None
      PROVE  CleanVerdictCoversCommits' /\ AlarmIsOfSomeInstant' /\ StandingCrossingIsReported'
  <2>1. verdict' \notin Disposition
    BY <1>1, HostSinkAssumption
  <2> QED
    BY <1>1, <2>1 DEF CleanVerdictCoversCommits, AlarmIsOfSomeInstant,
       StandingCrossingIsReported, Disposition
<1>2. CASE Restart
  <2>1. /\ reader' = "idle" /\ verdict' = None
        /\ snapshot'.commits = {} /\ snapshot'.receipts = {}
    BY <1>2 DEF Restart, EmptySnapshot
  <2> QED
    BY <1>1, <2>1 DEF EvidenceInv, CaughtInv
<1>3. CASE ReadObservedPaths
  <2>1. /\ reader' = "use_counts" /\ verdict' = None
        /\ snapshot'.commits = {} /\ snapshot'.receipts = {}
    BY <1>3 DEF ReadObservedPaths, EmptySnapshot
  <2> QED
    BY <1>1, <2>1 DEF EvidenceInv, CaughtInv
<1>4. CASE ReadUseCounts
  <2>1. /\ reader' = "commits" /\ verdict' = verdict /\ verdict = None
        /\ snapshot'.commits = snapshot.commits /\ snapshot'.receipts = snapshot.receipts
        /\ UNCHANGED <<ledger, receipts>>
    BY <1>4 DEF ReadUseCounts, EvidenceInv, DeliveryInv, TypeOK, ReaderTypes, dbVars
  <2> QED
    BY <1>1, <2>1 DEF EvidenceInv, CaughtInv
<1>5. CASE ReadCommits
  <2>1. /\ reader' = "receipts" /\ verdict' = verdict /\ verdict = None
        /\ snapshot'.commits = ledger /\ snapshot'.receipts = snapshot.receipts
        /\ UNCHANGED <<ledger, receipts>>
    BY <1>5 DEF ReadCommits, EvidenceInv, DeliveryInv, TypeOK, ReaderTypes, dbVars
  <2> QED
    BY <1>1, <1>5, <2>1, CommitsRead DEF EvidenceInv
<1>6. CASE ReadReceipts
  <2>1. /\ reader = "receipts" /\ reader' = "adjudicate" /\ verdict' = verdict /\ verdict = None
        /\ snapshot'.commits = snapshot.commits /\ snapshot'.receipts = receipts
        /\ UNCHANGED <<ledger, receipts>>
    BY <1>6 DEF ReadReceipts, EvidenceInv, DeliveryInv, TypeOK, ReaderTypes, dbVars
  <2>2. since \subseteq since'
    BY <2>1 DEF HistoryNext
  <2>3. ~ Overused' => ~ Overused
    <3>1. ~ Restart
      BY <2>1 DEF Restart
    <3> QED
      BY <3>1, OveruseStays
  <2>4. Caught(receipts) => Caught(snapshot.receipts)'
    BY <2>1, <2>2 DEF Caught, ProtectedOf, Receipt, Faulty, Sound
  <2>5. CaughtInv'
    BY <2>1, <2>3, <2>4 DEF CaughtInv, EvidenceInv
  <2> QED
    BY <1>1, <2>1, <2>5 DEF EvidenceInv
<1>7. CASE ReadTokensAndAdjudicate
  BY <1>7, VerdictGiven
<1>8. CASE ~ Restart /\ UNCHANGED readerVars
  BY <1>8, EvidenceKept
<1> QED
  BY <1>2, <1>3, <1>4, <1>5, <1>6, <1>7, <1>8, ReaderFrame
     DEF HistoryNext, ReaderStep, DeliveryInv

LEMMA EvidenceHolds == HistorySpec => []EvidenceInv
<1>1. HistoryInit => EvidenceInv
  <2> SUFFICES ASSUME HistoryInit PROVE EvidenceInv
    OBVIOUS
  <2>1. /\ verdict = None /\ reader = "idle"
        /\ snapshot.commits = {} /\ snapshot.receipts = {}
    BY DEF HistoryInit, Init, EmptySnapshot
  <2> QED
    BY <2>1, NoVerdict DEF EvidenceInv, CaughtInv
<1>2. DeliveryInv /\ TelemetryInv /\ AdmissionInv /\ EvidenceInv /\ [HistoryNext]_historyVars
        => EvidenceInv'
  <2>1. CASE HistoryNext
    BY <2>1, EvidenceStep
  <2>2. CASE UNCHANGED historyVars
    BY <2>2 DEF historyVars, vars, dbVars, readerVars, EvidenceInv, CaughtInv, Overused, Caught,
       CleanVerdictCoversCommits, AlarmIsOfSomeInstant, StandingCrossingIsReported
  <2> QED
    BY <2>1, <2>2
<1> QED
  BY <1>1, <1>2, Admitted, PTL DEF HistorySpec

\* For any requests, threads and restarts: the reads of an alarm belong together
\* well enough that some instant between them would have raised it.
THEOREM AlarmsAreReal == HistorySpec => []AlarmIsOfSomeInstant
<1>1. EvidenceInv => AlarmIsOfSomeInstant
  BY DEF EvidenceInv
<1> QED
  BY <1>1, EvidenceHolds, PTL

\* A crossing that stands from the first read to the last is not covered up by
\* what commits, observes and answers in between.
THEOREM StandingCrossingsAreReported == HistorySpec => []StandingCrossingIsReported
<1>1. EvidenceInv => StandingCrossingIsReported
  BY DEF EvidenceInv
<1> QED
  BY <1>1, EvidenceHolds, PTL

\* A clean verdict is right about every protected commit it read, though the
\* receipts and the token digests were read later than the commits.
THEOREM CleanVerdictsCover == HistorySpec => []CleanVerdictCoversCommits
<1>1. EvidenceInv => CleanVerdictCoversCommits
  BY DEF EvidenceInv
<1> QED
  BY <1>1, EvidenceHolds, PTL

=============================================================================
