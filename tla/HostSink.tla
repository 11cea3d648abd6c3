------------------------------- MODULE HostSink -------------------------------
(***************************************************************************)
(* The local host/sink integration (oat/integration/host_sink): an HTTP    *)
(* server with a thread for every request, one queue worker thread, a      *)
(* durable SQLite ledger, a separate SQLite observer, the issuer's         *)
(* in-memory use counters, and the main thread that collects evidence and  *)
(* adjudicates it.                                                         *)
(*                                                                         *)
(* A handler is the thread of one request.  The steps of a thread are the  *)
(* points where another thread can see or change shared state: each SQLite *)
(* transaction, the read and the write of a use counter, the queue and the *)
(* event of an asynchronous job.                                           *)
(***************************************************************************)
EXTENDS ConsequenceVerifier

CONSTANTS Handlers,        \* request threads, each serving one request
          Worker,          \* the thread oat-queue-worker
          Requests,        \* [path, payload, emit_receipt] a client may send
          Authorizations,  \* registered: authorization id -> artifact
          Epochs,          \* the authority store
          Secret,          \* the issuer's key
          ProtectedSinkId,
          MaxVerdicts,     \* bound: calls of verdict()
          MaxRestarts      \* bound: restarts over the same two databases

Threads == Handlers \cup {Worker}

RouteHttpGuarded == "route.http-guarded"
RouteQueueWorker == "route.queue-worker"
RouteHiddenBatch == "route.hidden-batch"
Routes == {RouteHttpGuarded, RouteQueueWorker, RouteHiddenBatch}
DeclaredRoutes == {RouteHttpGuarded, RouteQueueWorker}

Paths == {"/v1/payments", "/v1/async-payments", "/internal/batch-commit", "other"}

Decisions == {"ADMITTED", "COMMITTED", "REFUSED_REPLAY", "REFUSED_BINDING",
              "WORKER_TIMEOUT", "NOT_FOUND"}

\* The fields _cmp compares; NON_APPLICABLE in one of them would match anything.
BoundFields == {"tenant_id", "principal_id", "agent_id", "release_id", "action_digest",
                "sink_id", "idempotency_key", "authority_state_digest"}

ASSUME HostSinkAssumption ==
    /\ Worker \notin Handlers
    /\ None \notin Threads
    /\ None \notin Requests
    /\ \A q \in Requests :
          /\ q.path \in Paths
          /\ q.emit_receipt \in BOOLEAN
          /\ q.emit_receipt \/ q.path = "/internal/batch-commit"
    /\ Epochs # None
    /\ None \notin Decisions \cup Disposition /\ None \notin Nat
    /\ None \notin DOMAIN Authorizations
    /\ \A id \in DOMAIN Authorizations :
          /\ Authorizations[id] # None
          /\ Authorizations[id].max_uses \in Int
          /\ Digest(Authorizations[id]) # NotApplicable
          /\ \A f \in BoundFields : Authorizations[id][f] # NotApplicable
    /\ MaxVerdicts \in Nat /\ MaxRestarts \in Nat

-----------------------------------------------------------------------------

VARIABLES
    pc,        \* where each thread is
    request,   \* what a thread is serving, None before
    used,      \* the counter value a thread read in record_use
    reply,     \* what the client of a handler was told, None before
    ledger,    \* rows of ledger_commits
    receipts,  \* rows of receipts
    observed,  \* route_observations, aggregated by route
    uses,      \* issuer._uses
    jobs,      \* the queue: handlers that wait for their job
    serving,   \* the handler whose job the worker holds
    done,      \* handlers whose job event is set
    box,       \* the decision the worker left for a handler, None before
    stop,      \* the stop event of the worker
    serverUp,  \* the HTTP server accepts connections
    reader,    \* where the evidence collection is
    snapshot,  \* what it has read
    verdict,   \* the last disposition, None before
    verdicts,  \* evidence collections started
    restarts   \* restarts so far

dbVars == <<ledger, receipts, observed>>
queueVars == <<jobs, serving, done, box, stop>>
readerVars == <<reader, snapshot, verdict, verdicts>>
vars == <<pc, request, used, reply, dbVars, uses, queueVars, serverUp,
          readerVars, restarts>>

-----------------------------------------------------------------------------
(* What a payload builds and what the guard asks of it.                    *)

RouteOf(t, q) ==
    IF t = Worker THEN RouteQueueWorker
    ELSE IF q.path = "/internal/batch-commit" THEN RouteHiddenBatch
    ELSE RouteHttpGuarded

Event(p, route) ==
    [commit_id |-> p.commit_id,
     sink_id |-> p.action.sink_id,
     route_id |-> route,
     tenant_id |-> p.action.tenant_id,
     principal_id |-> p.action.principal_id,
     agent_id |-> p.agent_id,
     release_id |-> p.action.release_id,
     action_digest |-> Digest(p.action),
     committed_at |-> p.committed_at,
     authorization_ref |-> p.authorization_id,
     idempotency_key |-> p.idempotency_key,
     token_digest |-> p.token_digest]

EventOf(t) == Event(request[t].payload, RouteOf(t, request[t]))

\* Mutant: the guard reads the authority in force when the authorization starts
\* to be valid instead of the one at the commit.
GuardReportAtIssue(e, count) ==
    LET a == Get(Authorizations, e.authorization_ref) IN
    ValidateAuthorization(a, e, At(Epochs, IF a = None THEN 0 ELSE a.not_before), Secret,
                          IF count = None THEN None ELSE count + 1,
                          e.token_digest)

\* validate_authorization as guarded() calls it: the use about to be made counts.
GuardReport(e, count) ==
    ValidateAuthorization(Get(Authorizations, e.authorization_ref), e,
                          At(Epochs, e.committed_at), Secret,
                          IF count = None THEN None ELSE count + 1,
                          e.token_digest)

KeySeen(key) == \E row \in ledger : row.idempotency_key = key

\* Mutant: the table without its UNIQUE idempotency key.
InsertConflictsOnIdOnly(e) == \E row \in ledger : row.commit_id = e.commit_id

\* PRIMARY KEY (commit_id), UNIQUE (idempotency_key)
InsertConflicts(e) ==
    \E row \in ledger : \/ row.commit_id = e.commit_id
                        \/ row.idempotency_key = e.idempotency_key

Receipt(e) == [commit_id |-> e.commit_id, sink_id |-> e.sink_id,
               route_id |-> e.route_id, observed_at |-> e.committed_at,
               action_digest |-> e.action_digest]

Arrival(route, committed) ==
    observed' = [observed EXCEPT ![route] =
                    [arrivals |-> @.arrivals + 1,
                     commits |-> IF committed THEN @.commits + 1 ELSE @.commits]]

-----------------------------------------------------------------------------

NothingObserved == [r \in Routes |-> [arrivals |-> 0, commits |-> 0]]
NoUses == [a \in DOMAIN Authorizations |-> 0]
EmptySnapshot == [routes |-> {}, use_counts |-> NoUses, commits |-> {}, receipts |-> {}]

Init ==
    /\ pc = [t \in Threads |-> IF t = Worker THEN "loop" ELSE "idle"]
    /\ request = [t \in Threads |-> None]
    /\ used = [t \in Threads |-> 0]
    /\ reply = [h \in Handlers |-> None]
    /\ ledger = {} /\ receipts = {} /\ observed = NothingObserved
    /\ uses = NoUses
    /\ jobs = <<>> /\ serving = None /\ done = {}
    /\ box = [h \in Handlers |-> None]
    /\ stop = FALSE /\ serverUp = TRUE
    /\ reader = "idle" /\ snapshot = EmptySnapshot
    /\ verdict = None /\ verdicts = 0
    /\ restarts = 0

Goto(t, label) == pc' = [pc EXCEPT ![t] = label]

\* The thread returns its decision: a handler answers its client, the worker
\* leaves it in the job's box, sets the event and goes on to the next job.
Return(t, decision) ==
    IF t = Worker
    THEN /\ box' = [box EXCEPT ![serving] = decision]
         /\ done' = done \cup {serving}
         /\ serving' = None
         /\ Goto(t, "loop")
         /\ UNCHANGED <<reply, jobs, stop>>
    ELSE /\ reply' = [reply EXCEPT ![t] = decision]
         /\ Goto(t, "answered")
         /\ UNCHANGED queueVars

\* An exception: a handler's connection closes without an answer; the worker
\* sets the event in its finally clause, the box still empty, and its thread ends.
Raise(t) ==
    IF t = Worker
    THEN /\ done' = done \cup {serving}
         /\ serving' = None
         /\ Goto(t, "dead")
         /\ UNCHANGED <<jobs, box, stop>>
    ELSE /\ Goto(t, "raised")
         /\ UNCHANGED queueVars

-----------------------------------------------------------------------------
(* do_POST: a connection is accepted, its payload parsed and routed.       *)

Post(h, q) ==
    /\ serverUp
    /\ pc[h] = "idle"
    /\ request' = [request EXCEPT ![h] = q]
    /\ IF q.path = "other"
       THEN Goto(h, "answered") /\ reply' = [reply EXCEPT ![h] = "NOT_FOUND"]
       ELSE /\ Goto(h, IF q.path = "/v1/async-payments" THEN "enqueue" ELSE "check")
            /\ UNCHANGED reply
    /\ UNCHANGED <<used, dbVars, uses, queueVars, serverUp, readerVars, restarts>>

(* guarded and hidden.                                                     *)

\* _build_commit raises on a payload without the fields it needs.
BuildFails(t) ==
    /\ pc[t] = "check"
    /\ request[t].payload = None
    /\ Raise(t)
    /\ UNCHANGED <<request, used, reply, dbVars, uses, serverUp, readerVars, restarts>>

\* Mutant: the worker trusts the route it serves and does not validate.
CheckIdempotencyOnly(t) ==
    /\ pc[t] = "check"
    /\ request[t].payload # None
    /\ Goto(t, IF KeySeen(request[t].payload.idempotency_key) THEN "refuse_replay"
               ELSE IF t = Worker \/ RouteOf(t, request[t]) = RouteHiddenBatch THEN "commit"
               ELSE "validate")
    /\ UNCHANGED <<request, used, reply, dbVars, uses, queueVars, serverUp,
                   readerVars, restarts>>

CheckIdempotency(t) ==
    /\ pc[t] = "check"
    /\ request[t].payload # None
    /\ Goto(t, IF KeySeen(request[t].payload.idempotency_key) THEN "refuse_replay"
               ELSE IF RouteOf(t, request[t]) = RouteHiddenBatch THEN "commit"
               ELSE "validate")
    /\ UNCHANGED <<request, used, reply, dbVars, uses, queueVars, serverUp,
                   readerVars, restarts>>

Validate(t) ==
    /\ pc[t] = "validate"
    /\ \E report \in {GuardReport(EventOf(t),
                        Get(uses, request[t].payload.authorization_id))} :
          Goto(t, IF IsValid(report) THEN "use_read" ELSE "refuse_binding")
    /\ UNCHANGED <<request, used, reply, dbVars, uses, queueVars, serverUp,
                   readerVars, restarts>>

Refuse(t) ==
    /\ pc[t] \in {"refuse_replay", "refuse_binding"}
    /\ Arrival(RouteOf(t, request[t]), FALSE)
    /\ Return(t, IF pc[t] = "refuse_replay" THEN "REFUSED_REPLAY" ELSE "REFUSED_BINDING")
    /\ UNCHANGED <<request, used, ledger, receipts, uses, serverUp, readerVars, restarts>>

\* record_use reads the counter and stores it plus one, without a lock.
ReadUse(t) ==
    /\ pc[t] = "use_read"
    /\ used' = [used EXCEPT ![t] = uses[request[t].payload.authorization_id]]
    /\ Goto(t, "use_write")
    /\ UNCHANGED <<request, reply, dbVars, uses, queueVars, serverUp, readerVars, restarts>>

\* Mutants: record_use stores what it read, or counts an admission twice.
WriteUseUnchanged(t) ==
    /\ pc[t] = "use_write"
    /\ uses' = [uses EXCEPT ![request[t].payload.authorization_id] = used[t]]
    /\ Goto(t, "commit")
    /\ UNCHANGED <<request, used, reply, dbVars, queueVars, serverUp, readerVars, restarts>>

WriteUseTwice(t) ==
    /\ pc[t] = "use_write"
    /\ uses' = [uses EXCEPT ![request[t].payload.authorization_id] = used[t] + 2]
    /\ Goto(t, "commit")
    /\ UNCHANGED <<request, used, reply, dbVars, queueVars, serverUp, readerVars, restarts>>

WriteUse(t) ==
    /\ pc[t] = "use_write"
    /\ uses' = [uses EXCEPT ![request[t].payload.authorization_id] = used[t] + 1]
    /\ Goto(t, "commit")
    /\ UNCHANGED <<request, used, reply, dbVars, queueVars, serverUp, readerVars, restarts>>

Commit(t) ==
    /\ pc[t] = "commit"
    /\ ~ InsertConflicts(EventOf(t))
    /\ ledger' = ledger \cup {EventOf(t)}
    /\ Goto(t, "observe")
    /\ UNCHANGED <<request, used, reply, receipts, observed, uses, queueVars,
                   serverUp, readerVars, restarts>>

\* Mutants: INSERT OR IGNORE and INSERT OR REPLACE.
CommitIgnored(t) ==
    /\ pc[t] = "commit"
    /\ InsertConflicts(EventOf(t))
    /\ Goto(t, "observe")
    /\ UNCHANGED <<request, used, reply, dbVars, uses, queueVars, serverUp,
                   readerVars, restarts>>

CommitReplaces(t) ==
    /\ pc[t] = "commit"
    /\ InsertConflicts(EventOf(t))
    /\ ledger' = {EventOf(t)} \cup
                 {row \in ledger : /\ row.commit_id # EventOf(t).commit_id
                                  /\ row.idempotency_key # EventOf(t).idempotency_key}
    /\ Goto(t, "observe")
    /\ UNCHANGED <<request, used, reply, receipts, observed, uses, queueVars,
                   serverUp, readerVars, restarts>>

\* sqlite3.IntegrityError
CommitConflict(t) ==
    /\ pc[t] = "commit"
    /\ InsertConflicts(EventOf(t))
    /\ Raise(t)
    /\ UNCHANGED <<request, used, reply, dbVars, uses, serverUp, readerVars, restarts>>

\* Mutant: a commit is observed as an arrival only.
ObserveArrival(t) ==
    /\ pc[t] = "observe"
    /\ Arrival(RouteOf(t, request[t]), FALSE)
    /\ Goto(t, "receipt")
    /\ UNCHANGED <<request, used, reply, ledger, receipts, uses, queueVars,
                   serverUp, readerVars, restarts>>

\* record_commit is two transactions: the arrival, then the receipt.
ObserveCommit(t) ==
    /\ pc[t] = "observe"
    /\ Arrival(RouteOf(t, request[t]), TRUE)
    /\ Goto(t, "receipt")
    /\ UNCHANGED <<request, used, reply, ledger, receipts, uses, queueVars,
                   serverUp, readerVars, restarts>>

EmitReceipt(t) ==
    /\ pc[t] = "receipt"
    /\ receipts' = IF request[t].emit_receipt THEN receipts \cup {Receipt(EventOf(t))}
                   ELSE receipts
    /\ Return(t, IF RouteOf(t, request[t]) = RouteHiddenBatch THEN "COMMITTED" ELSE "ADMITTED")
    /\ UNCHANGED <<request, used, ledger, observed, uses, serverUp, readerVars, restarts>>

-----------------------------------------------------------------------------
(* enqueue: the handler's side of an asynchronous job.                     *)

Enqueue(h) ==
    /\ pc[h] = "enqueue"
    /\ jobs' = Append(jobs, h)
    /\ Goto(h, "wait")
    /\ UNCHANGED <<request, used, reply, dbVars, uses, serving, done, box, stop,
                   serverUp, readerVars, restarts>>

\* box["decision"] is a KeyError when the worker left none.
JobDone(h) ==
    /\ pc[h] = "wait"
    /\ h \in done
    /\ reply' = [reply EXCEPT ![h] = box[h]]
    /\ Goto(h, IF box[h] = None THEN "raised" ELSE "answered")
    /\ UNCHANGED <<request, used, dbVars, uses, queueVars, serverUp, readerVars, restarts>>

\* Mutant: event.wait() without a timeout.
WaitForever(h) == FALSE

\* Five seconds without the event; the job stays where it is.
WorkerTimeout(h) ==
    /\ pc[h] = "wait"
    /\ h \notin done
    /\ reply' = [reply EXCEPT ![h] = "WORKER_TIMEOUT"]
    /\ Goto(h, "answered")
    /\ UNCHANGED <<request, used, dbVars, uses, queueVars, serverUp, readerVars, restarts>>

(* _worker_loop: the stop event is read before the blocking get.           *)

WorkerLoop ==
    /\ pc[Worker] = "loop"
    /\ Goto(Worker, IF stop THEN "exited" ELSE "poll")
    /\ UNCHANGED <<request, used, reply, dbVars, uses, queueVars, serverUp,
                   readerVars, restarts>>

\* Mutants: the worker takes the job's handler for its payload, or peeks at the
\* queue without taking the job from it.
WorkerGetsHandler ==
    /\ pc[Worker] = "poll"
    /\ jobs # <<>>
    /\ serving' = Head(jobs)
    /\ jobs' = Tail(jobs)
    /\ request' = [request EXCEPT ![Worker] = Head(jobs)]
    /\ Goto(Worker, "check")
    /\ UNCHANGED <<used, reply, dbVars, uses, done, box, stop, serverUp,
                   readerVars, restarts>>

WorkerPeeks ==
    /\ pc[Worker] = "poll"
    /\ jobs # <<>>
    /\ serving' = Head(jobs)
    /\ request' = [request EXCEPT ![Worker] = request[Head(jobs)]]
    /\ Goto(Worker, "check")
    /\ UNCHANGED <<used, reply, dbVars, uses, jobs, done, box, stop, serverUp,
                   readerVars, restarts>>

WorkerGet ==
    /\ pc[Worker] = "poll"
    /\ jobs # <<>>
    /\ serving' = Head(jobs)
    /\ jobs' = Tail(jobs)
    /\ request' = [request EXCEPT ![Worker] = request[Head(jobs)]]
    /\ Goto(Worker, "check")
    /\ UNCHANGED <<used, reply, dbVars, uses, done, box, stop, serverUp,
                   readerVars, restarts>>

\* Mutant: the worker ends when the queue is empty.
WorkerEmptyExits ==
    /\ pc[Worker] = "poll"
    /\ jobs = <<>>
    /\ Goto(Worker, "exited")
    /\ UNCHANGED <<request, used, reply, dbVars, uses, queueVars, serverUp,
                   readerVars, restarts>>

\* queue.Empty after a tenth of a second
WorkerEmpty ==
    /\ pc[Worker] = "poll"
    /\ jobs = <<>>
    /\ Goto(Worker, "loop")
    /\ UNCHANGED <<request, used, reply, dbVars, uses, queueVars, serverUp,
                   readerVars, restarts>>

-----------------------------------------------------------------------------
(* The main thread: evidence() reads the sources one after the other.      *)

EvidenceFrom(routes, use_counts, commits, receipt_rows, rows) ==
    [protected_sink |-> ProtectedSinkId,
     commits |-> commits,
     receipts |-> receipt_rows,
     authorizations |-> Authorizations,
     authority |-> Epochs,
     secret |-> Secret,
     correlated_token_digests |->
        [id \in {row.commit_id : row \in {r \in rows : r.token_digest # None}} |->
            (CHOOSE row \in rows : row.commit_id = id).token_digest],
     use_counts |-> use_counts,
     reconciliation |-> Reconcile(DeclaredRoutes, routes),
     internal_property_failures |-> {},
     instrument_failures |-> {}]

ObservedRoutes == {r \in Routes : observed[r].arrivals > 0}

ReadObservedPaths ==
    /\ reader = "idle" /\ verdicts < MaxVerdicts
    /\ verdicts' = verdicts + 1
    /\ snapshot' = [EmptySnapshot EXCEPT !.routes = ObservedRoutes]
    /\ reader' = "use_counts"
    /\ verdict' = None
    /\ UNCHANGED <<pc, request, used, reply, dbVars, uses, queueVars, serverUp, restarts>>

\* Mutant: the evidence counts the use about to be made, as the guard does.
ReadUseCountsPlusOne ==
    /\ reader = "use_counts"
    /\ snapshot' = [snapshot EXCEPT !.use_counts = [a \in DOMAIN uses |-> uses[a] + 1]]
    /\ reader' = "commits"
    /\ UNCHANGED <<pc, request, used, reply, dbVars, uses, queueVars, serverUp,
                   verdict, verdicts, restarts>>

ReadUseCounts ==
    /\ reader = "use_counts"
    /\ snapshot' = [snapshot EXCEPT !.use_counts = uses]
    /\ reader' = "commits"
    /\ UNCHANGED <<pc, request, used, reply, dbVars, uses, queueVars, serverUp,
                   verdict, verdicts, restarts>>

\* Mutant: the evidence has the commits of the declared routes only.
ReadDeclaredCommits ==
    /\ reader = "commits"
    /\ snapshot' = [snapshot EXCEPT !.commits =
                      {row \in ledger : row.route_id \in DeclaredRoutes}]
    /\ reader' = "receipts"
    /\ UNCHANGED <<pc, request, used, reply, dbVars, uses, queueVars, serverUp,
                   verdict, verdicts, restarts>>

ReadCommits ==
    /\ reader = "commits"
    /\ snapshot' = [snapshot EXCEPT !.commits = ledger]
    /\ reader' = "receipts"
    /\ UNCHANGED <<pc, request, used, reply, dbVars, uses, queueVars, serverUp,
                   verdict, verdicts, restarts>>

ReadReceipts ==
    /\ reader = "receipts"
    /\ snapshot' = [snapshot EXCEPT !.receipts = receipts]
    /\ reader' = "adjudicate"
    /\ UNCHANGED <<pc, request, used, reply, dbVars, uses, queueVars, serverUp,
                   verdict, verdicts, restarts>>

\* token_digests is the last read; reconcile and adjudicate are local.
ReadTokensAndAdjudicate ==
    /\ reader = "adjudicate"
    /\ verdict' = Adjudicate(EvidenceFrom(snapshot.routes, snapshot.use_counts,
                                          snapshot.commits, snapshot.receipts, ledger))
    /\ reader' = "idle"
    /\ UNCHANGED <<pc, request, used, reply, dbVars, uses, queueVars, serverUp,
                   snapshot, verdicts, restarts>>

\* IntegrationServer.close: no new connections; handlers are daemon threads
\* and run on.
CloseServer ==
    /\ reader = "idle" /\ serverUp
    /\ serverUp' = FALSE
    /\ UNCHANGED <<pc, request, used, reply, dbVars, uses, queueVars, readerVars, restarts>>

\* HostSinkIntegration.close
Close ==
    /\ reader = "idle" /\ ~ stop
    /\ stop' = TRUE
    /\ UNCHANGED <<pc, request, used, reply, dbVars, uses, jobs, serving, done, box,
                   serverUp, readerVars, restarts>>

\* The process ends, its threads wherever they are, and a new integration is
\* opened over the same two databases: rows survive, counters and queue do not.
Restart ==
    /\ restarts < MaxRestarts
    /\ restarts' = restarts + 1
    /\ pc' = [t \in Threads |->
                IF t = Worker THEN "loop"
                ELSE IF pc[t] \in {"idle", "answered", "raised"} THEN pc[t]
                ELSE "lost"]
    /\ uses' = NoUses
    /\ jobs' = <<>> /\ serving' = None /\ done' = {}
    /\ box' = [h \in Handlers |-> None]
    /\ stop' = FALSE /\ serverUp' = TRUE
    /\ reader' = "idle" /\ snapshot' = EmptySnapshot /\ verdict' = None
    /\ UNCHANGED <<request, used, reply, dbVars, verdicts>>

-----------------------------------------------------------------------------

GuardStep(t) ==
    \/ BuildFails(t) \/ CheckIdempotency(t) \/ Validate(t) \/ Refuse(t)
    \/ ReadUse(t) \/ WriteUse(t) \/ Commit(t) \/ CommitConflict(t)
    \/ ObserveCommit(t) \/ EmitReceipt(t)

HandlerStep(h) == GuardStep(h) \/ Enqueue(h) \/ JobDone(h) \/ WorkerTimeout(h)

WorkerStep == GuardStep(Worker) \/ WorkerLoop \/ WorkerGet \/ WorkerEmpty

ReaderStep == \/ ReadObservedPaths \/ ReadUseCounts \/ ReadCommits
              \/ ReadReceipts \/ ReadTokensAndAdjudicate

Next ==
    \/ \E h \in Handlers, q \in Requests : Post(h, q)
    \/ \E h \in Handlers : HandlerStep(h)
    \/ WorkerStep
    \/ ReaderStep
    \/ CloseServer
    \/ Close
    \/ Restart

Spec == Init /\ [][Next]_vars

\* Threads the interpreter schedules run on; nobody owes a request, a verdict,
\* a close or a restart.
Fairness == /\ \A h \in Handlers : WF_vars(HandlerStep(h))
            /\ WF_vars(WorkerStep)

FairSpec == Spec /\ Fairness

-----------------------------------------------------------------------------
(* The type invariant; the other properties are in HostSinkProperties.     *)

Labels == {"idle", "check", "validate", "refuse_replay", "refuse_binding",
           "use_read", "use_write", "commit", "observe", "receipt",
           "enqueue", "wait", "answered", "raised", "lost",
           "loop", "poll", "dead", "exited"}

Events == {Event(q.payload, r) : q \in {p \in Requests : p.payload # None}, r \in Routes}

UseCounts == [DOMAIN Authorizations -> Nat]

ThreadTypes ==
    /\ pc \in [Threads -> Labels]
    /\ request \in [Threads -> Requests \cup {None}]
    /\ used \in [Threads -> Nat]
    /\ reply \in [Handlers -> Decisions \cup {None}]

StoreTypes ==
    /\ ledger \subseteq Events
    /\ receipts \subseteq {Receipt(e) : e \in Events}
    /\ observed \in [Routes -> [arrivals : Nat, commits : Nat]]
    /\ uses \in UseCounts

QueueTypes ==
    /\ jobs \in Seq(Handlers)
    /\ serving \in Handlers \cup {None}
    /\ done \subseteq Handlers
    /\ box \in [Handlers -> Decisions \cup {None}]
    /\ stop \in BOOLEAN /\ serverUp \in BOOLEAN

ReaderTypes ==
    /\ reader \in {"idle", "use_counts", "commits", "receipts", "adjudicate"}
    /\ snapshot \in [routes : SUBSET Routes, use_counts : UseCounts,
                     commits : SUBSET Events,
                     receipts : SUBSET {Receipt(e) : e \in Events}]
    /\ verdict \in Disposition \cup {None}
    /\ verdicts \in Nat /\ restarts \in Nat

\* The values the state of host_sink.py takes.
TypeOK == ThreadTypes /\ StoreTypes /\ QueueTypes /\ ReaderTypes

===============================================================================
