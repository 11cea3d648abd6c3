-------------------------- MODULE HostSinkProperties --------------------------
(***************************************************************************)
(* What the host/sink integration must do and never do, under every        *)
(* interleaving of its threads and across restarts; the abstract           *)
(* specification it implements; and two statements of the repository's     *)
(* documents that its behaviours contradict.                               *)
(***************************************************************************)
EXTENDS HostSink

\* What it means, said without the report, that authorization a covers a row:
\* it was issued for exactly this action and key, its grant is active in the
\* authority state it was bound to, which is the one in force at the commit.
Covers(a, row) ==
    /\ a.decision = "ALLOW"
    /\ <<a.tenant_id, a.principal_id, a.agent_id, a.release_id>> =
       <<row.tenant_id, row.principal_id, row.agent_id, row.release_id>>
    /\ a.sink_id = row.sink_id
    /\ a.action_digest = row.action_digest
    /\ a.idempotency_key = row.idempotency_key
    /\ a.not_before <= row.committed_at /\ row.committed_at <= a.not_after
    /\ LET state == At(Epochs, row.committed_at) IN
       /\ state # None
       /\ a.authority_state_digest = Digest(state)
       /\ StatusOf(state, a.grant_id) = "ACTIVE"
    /\ VerifyIntegrity(Secret, a)
    /\ row.token_digest = Digest(a)

CoveredByReference(row) ==
    /\ row.authorization_ref \in DOMAIN Authorizations
    /\ Covers(Authorizations[row.authorization_ref], row)

GuardedRows == {row \in ledger : row.route_id \in DeclaredRoutes}

\* Whatever the interleaving, a row that came through a guarded route is covered
\* by the authorization it names: validate_authorization ran on the very event
\* the ledger stored, at its commit tick, and nothing moved in between.
GuardedCommitsCovered == \A row \in GuardedRows : CoveredByReference(row)

\* An authorization yields at most one guarded commit, however many requests
\* race between idempotency_seen and the INSERT, and across restarts that reset
\* the use counters: it is bound to one key and the ledger holds a key once.
OneCommitPerAuthorization ==
    \A r1, r2 \in GuardedRows :
        r1.authorization_ref = r2.authorization_ref => r1 = r2

\* While the process lives, a guarded commit has already been counted as a use
\* of its authorization (record_use comes before ledger.commit).
UseRecordedBeforeCommit ==
    restarts = 0 => \A row \in GuardedRows : uses[row.authorization_ref] >= 1

\* The labels of a thread inside guarded or hidden.
Active == {"check", "validate", "refuse_replay", "refuse_binding",
           "use_read", "use_write", "commit", "observe", "receipt"}

\* A thread at work has a request, past _build_commit one with a payload; so
\* has every queued job.
WorkInProgress ==
    /\ \A t \in Threads :
          /\ pc[t] \in Active \cup {"enqueue", "wait"} => request[t] \in Requests
          /\ pc[t] \in Active \ {"check"} => request[t].payload # None
    /\ pc[Worker] \in Active => serving \in Handlers
    /\ \A i \in DOMAIN jobs : request[jobs[i]] \in Requests

\* A thread that passed the guard carries a covered event until it commits it.
AdmittedInFlight ==
    \A t \in Threads :
        /\ pc[t] \in {"use_read", "use_write"} => CoveredByReference(EventOf(t))
        /\ pc[t] = "commit" => \/ RouteOf(t, request[t]) = RouteHiddenBatch
                               \/ CoveredByReference(EventOf(t))

\* PRIMARY KEY and UNIQUE hold of the rows, not only of each INSERT.
UniqueRows ==
    \A r1, r2 \in ledger :
        r1.idempotency_key = r2.idempotency_key \/ r1.commit_id = r2.commit_id => r1 = r2

\* The inductive invariant behind GuardedCommitsCovered and
\* OneCommitPerAuthorization: what is in the ledger, and what every thread is
\* about to put there.
IInv == WorkInProgress /\ AdmittedInFlight /\ GuardedCommitsCovered /\ UniqueRows

RouteOfRequest(q) ==
    IF q.path = "/v1/async-payments" THEN RouteQueueWorker
    ELSE IF q.path = "/internal/batch-commit" THEN RouteHiddenBatch
    ELSE RouteHttpGuarded

\* A client told ADMITTED or COMMITTED (HTTP 200) finds its own event in the
\* ledger, its arrival in the telemetry and, unless suppressed, its receipt:
\* now, and after any restart.
AnsweredMeansDurable ==
    \A h \in Handlers :
        reply[h] \in {"ADMITTED", "COMMITTED"} =>
            LET route == RouteOfRequest(request[h])
                e == Event(request[h].payload, route)
            IN  /\ e \in ledger
                /\ observed[route].commits > 0
                /\ request[h].emit_receipt => Receipt(e) \in receipts

\* The observer never witnesses what the ledger does not hold, and never counts
\* more commits on a route than the ledger has rows from it.
TelemetryNeverOverstates ==
    /\ receipts \subseteq {Receipt(row) : row \in ledger}
    /\ \A r \in Routes :
          observed[r].commits <= Cardinality({row \in ledger : row.route_id = r})

Quiet == \A t \in Threads : pc[t] \in {"idle", "answered", "raised", "loop", "poll",
                                        "dead", "exited", "wait", "enqueue"}

\* Once no thread is inside guarded or hidden and the process was never
\* restarted, telemetry is complete: no exception, race or timeout leaves a
\* commit unobserved.
QuietTelemetryComplete ==
    Quiet /\ restarts = 0 =>
        \A r \in Routes :
            observed[r].commits = Cardinality({row \in ledger : row.route_id = r})

\* A job is never lost or held twice: while its handler waits and its event is
\* not set, it is once in the queue or in the worker's hands.
JobsConserved ==
    \A h \in Handlers :
        /\ pc[h] = "wait" /\ h \notin done =>
              \/ serving = h
              \/ \E i \in DOMAIN jobs : jobs[i] = h
        /\ \A i, j \in DOMAIN jobs : jobs[i] = h /\ jobs[j] = h => i = j
        /\ serving = h => h \notin done /\ \A i \in DOMAIN jobs : jobs[i] # h

\* What verdict() would return if it read everything at this instant.
LiveEvidence == EvidenceFrom(ObservedRoutes, uses, ledger, receipts, ledger)
LiveDisposition == Adjudicate(LiveEvidence)

\* A witnessed protected row that fails a dimension other than the use count.
Crossing(row) ==
    /\ row.sink_id = ProtectedSinkId
    /\ Receipt(row) \in receipts
    /\ row.authorization_ref = None \/
       /\ row.authorization_ref \in DOMAIN Authorizations
       /\ Mismatches(CommitReport(row, LiveEvidence)) \ {"authorization_use_count"} # {}

\* A boundary crossing, once witnessed, is reported for ever: nothing a later
\* request, exception or restart does makes the verdict better again.
CrossingIsPermanent ==
    [][(\E row \in ledger : Crossing(row)) => LiveDisposition' = BoundaryFailure]_vars

\* Ledger rows and receipts are never removed or changed, a thread adds one at
\* a time, and an answer once given is not changed.
HistoryIsAppendOnly ==
    [][/\ ledger \subseteq ledger'
       /\ receipts \subseteq receipts'
       /\ Cardinality(ledger') <= Cardinality(ledger) + 1
       /\ \A h \in Handlers : reply[h] # None => reply'[h] = reply[h]]_vars

\* Every request that was accepted is answered, or its connection ends, whatever
\* becomes of the worker: the wait for a job has a timeout.
EveryRequestEnds ==
    \A h \in Handlers :
        pc[h] # "idle" ~> pc[h] \in {"answered", "raised", "lost"}

\* A queued job is taken unless the worker has stopped, been stopped or died.
QueueIsServed ==
    \A h \in Handlers :
        (\E i \in DOMAIN jobs : jobs[i] = h)
            ~> ~ (\E i \in DOMAIN jobs : jobs[i] = h) \/ stop \/ pc[Worker] = "dead"

-----------------------------------------------------------------------------
(* The threads, the queue and the two stores implement ProtectedLedger.    *)

AcknowledgedRows ==
    {Event(request[h].payload, RouteOfRequest(request[h])) :
        h \in {k \in Handlers : reply[k] \in {"ADMITTED", "COMMITTED"}}}

WitnessedRows == {row \in ledger : Receipt(row) \in receipts}

AdmissibleEvents ==
    {e \in Events : e.route_id \in DeclaredRoutes => CoveredByReference(e)}

Sink == INSTANCE ProtectedLedger WITH
            Rows <- Events, Admissible <- AdmissibleEvents,
            ledger <- ledger, witnessed <- WitnessedRows,
            acknowledged <- AcknowledgedRows

\* Under every interleaving and restart the integration does what an atomic
\* protected ledger does: it commits one fresh admissible row at a time and
\* witnesses and acknowledges only rows that are there.
ImplementsProtectedLedger == Sink!BoundarySpec

-----------------------------------------------------------------------------
(* What the repository's documents say and the code does not do.           *)

\* docs/HOST-SINK-INTEGRATION.md: "valid guarded HTTP commit ->
\* NO_BOUNDARY_COUNTEREXAMPLE".  A ledger of covered, witnessed, guarded commits
\* is not reported as a boundary failure.
GuardedCommitsStayClean ==
    /\ ledger = GuardedRows
    /\ \A row \in ledger : CoveredByReference(row) /\ Receipt(row) \in receipts
    => LiveDisposition # BoundaryFailure

\* docs/HOST-SINK-INTEGRATION.md: "hidden but validly authorized commit ->
\* INTEGRATION_FAILURE".  A verdict that saw a commit of the undeclared route
\* is not clean.
HiddenCommitNeverClean ==
    (\E row \in snapshot.commits : row.route_id = RouteHiddenBatch)
        => verdict # NoCounterexample

=============================================================================
