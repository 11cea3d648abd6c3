---------------------------- MODULE HostSinkProofs ----------------------------
(***************************************************************************)
(* Theorems about HostSink for every set of handlers, requests,            *)
(* authorizations and authority epochs.                                    *)
(***************************************************************************)
EXTENDS HostSinkProperties, SequenceTheorems, FiniteSetTheorems, TLAPS

\* A report without a mismatch or an undetermined dimension means that the
\* authorization, if it names no wildcard, covers the event.
LEMMA ValidMeansCovered ==
    ASSUME NEW id \in DOMAIN Authorizations, NEW e, NEW uses_,
           e.authorization_ref = id,
           IsValid(Report(Authorizations[id], e, At(Epochs, e.committed_at), Secret,
                          uses_, e.token_digest))
    PROVE  CoveredByReference(e)
<1> DEFINE a == Authorizations[id]
           r == Report(a, e, At(Epochs, e.committed_at), Secret, uses_, e.token_digest)
<1>1. \A d \in DOMAIN r : r[d] # Mismatch /\ r[d] # Undetermined
  BY DEF IsValid, Mismatches, UndeterminedDimensions
<1>2. \A f \in BoundFields : a[f] # NotApplicable
  BY HostSinkAssumption
<1>3. /\ a.tenant_id # NotApplicable /\ a.principal_id # NotApplicable
      /\ a.agent_id # NotApplicable /\ a.release_id # NotApplicable
      /\ a.action_digest # NotApplicable /\ a.sink_id # NotApplicable
      /\ a.idempotency_key # NotApplicable /\ a.authority_state_digest # NotApplicable
      /\ Digest(a) # NotApplicable
  BY <1>2, HostSinkAssumption DEF BoundFields
<1> HIDE DEF a
<1>4. /\ r.positive_decision # Mismatch
      /\ r.tenant \notin {Mismatch, Undetermined}
      /\ r.principal \notin {Mismatch, Undetermined}
      /\ r.agent_identity \notin {Mismatch, Undetermined}
      /\ r.release_identity \notin {Mismatch, Undetermined}
      /\ r.exact_action_digest \notin {Mismatch, Undetermined}
      /\ r.protected_sink \notin {Mismatch, Undetermined}
      /\ r.idempotency_binding \notin {Mismatch, Undetermined}
  BY <1>1 DEF Report
<1>5. /\ r.authorization_integrity \notin {Mismatch, Undetermined}
      /\ r.validity_interval # Mismatch
      /\ r.authority_state_at_commit \notin {Mismatch, Undetermined}
      /\ r.revocation_state \notin {Mismatch, Undetermined}
      /\ r.commit_authorization_correlation \notin {Mismatch, Undetermined}
  BY <1>1 DEF Report
<1>6. /\ a.decision = "ALLOW"
      /\ a.tenant_id = e.tenant_id /\ a.principal_id = e.principal_id
      /\ a.agent_id = e.agent_id /\ a.release_id = e.release_id
      /\ a.action_digest = e.action_digest /\ a.sink_id = e.sink_id
      /\ a.idempotency_key = e.idempotency_key
  BY <1>3, <1>4 DEF Report, Compare, Check, Mismatch, Undetermined
<1>7. /\ VerifyIntegrity(Secret, a)
      /\ a.not_before <= e.committed_at /\ e.committed_at <= a.not_after
      /\ At(Epochs, e.committed_at) # None
      /\ a.authority_state_digest = Digest(At(Epochs, e.committed_at))
      /\ StatusOf(At(Epochs, e.committed_at), a.grant_id) = "ACTIVE"
  BY <1>3, <1>5 DEF Report, Compare, Check, Mismatch, Undetermined
<1>8. e.token_digest = Digest(a)
  BY <1>3, <1>5 DEF Report, Compare, Check, Mismatch, Undetermined
<1>9. Covers(a, e)
  BY <1>6, <1>7, <1>8 DEF Covers
<1> QED
  BY <1>9 DEF CoveredByReference, a

-----------------------------------------------------------------------------

\* An active thread's event is one of Events.
LEMMA EventTyped ==
    ASSUME NEW t \in Threads, request[t] \in Requests, request[t].payload # None
    PROVE  /\ EventOf(t) \in Events
           /\ Receipt(EventOf(t)) \in {Receipt(e) : e \in Events}
           /\ RouteOf(t, request[t]) \in Routes
  BY DEF EventOf, Events, RouteOf, Routes

\* A verdict is one of the six dispositions.
LEMMA AdjudicateTyped ==
    ASSUME NEW evidence
    PROVE  Adjudicate(evidence) \in Disposition
  BY DEF Adjudicate, Disposition

\* One arrival keeps the counts of the observer natural numbers.
LEMMA ArrivalTyped ==
    ASSUME NEW route \in Routes, NEW committed \in BOOLEAN,
           observed \in [Routes -> [arrivals : Nat, commits : Nat]],
           Arrival(route, committed)
    PROVE  observed' \in [Routes -> [arrivals : Nat, commits : Nat]]
<1>1. [arrivals |-> observed[route].arrivals + 1,
       commits |-> IF committed THEN observed[route].commits + 1 ELSE observed[route].commits]
         \in [arrivals : Nat, commits : Nat]
  OBVIOUS
<1> QED
  BY <1>1 DEF Arrival

\* Type correctness of the initial state.
LEMMA InitTyped == Init => TypeOK
<1> SUFFICES ASSUME Init PROVE TypeOK
  OBVIOUS
<1> USE DEF Init
<1>1. ThreadTypes
  BY HostSinkAssumption DEF ThreadTypes, Labels
<1>2. StoreTypes
  BY DEF StoreTypes, NothingObserved, NoUses, UseCounts
<1>3. QueueTypes
  <2>1. jobs \in Seq(Handlers)
    BY EmptySeq
  <2> QED
    BY <2>1 DEF QueueTypes
<1>4. ReaderTypes
  BY DEF ReaderTypes, EmptySnapshot, NoUses, UseCounts
<1> QED
  BY <1>1, <1>2, <1>3, <1>4 DEF TypeOK

\* Moving one thread to a label of the program keeps pc a function to labels.
LEMMA GotoTyped ==
    ASSUME NEW t \in Threads, NEW label \in Labels, pc \in [Threads -> Labels],
           Goto(t, label)
    PROVE  pc' \in [Threads -> Labels]
  BY DEF Goto

\* Return and Raise keep the types of the queue, the box and the answers.
LEMMA ReturnTyped ==
    ASSUME NEW t \in Threads, NEW decision \in Decisions, ThreadTypes, QueueTypes,
           t = Worker => serving \in Handlers,
           Return(t, decision), UNCHANGED <<request, used, serverUp>>
    PROVE  ThreadTypes' /\ QueueTypes'
<1>1. pc' \in [Threads -> Labels]
  BY DEF Return, Goto, ThreadTypes, Labels
<1>2. CASE t = Worker
  BY <1>1, <1>2 DEF Return, ThreadTypes, QueueTypes
<1>3. CASE t # Worker
  <2>1. t \in Handlers
    BY <1>3 DEF Threads
  <2> QED
    BY <1>1, <1>3, <2>1 DEF Return, ThreadTypes, QueueTypes, queueVars
<1> QED
  BY <1>2, <1>3

\* An exception keeps them too.
LEMMA RaiseTyped ==
    ASSUME NEW t \in Threads, ThreadTypes, QueueTypes,
           t = Worker => serving \in Handlers,
           Raise(t), UNCHANGED <<request, used, reply, serverUp>>
    PROVE  ThreadTypes' /\ QueueTypes'
<1>1. pc' \in [Threads -> Labels]
  BY DEF Raise, Goto, ThreadTypes, Labels
<1>2. CASE t = Worker
  BY <1>1, <1>2 DEF Raise, ThreadTypes, QueueTypes
<1>3. CASE t # Worker
  BY <1>1, <1>3 DEF Raise, ThreadTypes, QueueTypes, queueVars
<1> QED
  BY <1>2, <1>3

\* The steps of guarded and hidden keep the types of the state.
LEMMA GuardTyped ==
    ASSUME TypeOK, WorkInProgress, AdmittedInFlight, NEW t \in Threads, GuardStep(t)
    PROVE  TypeOK'
<1> USE DEF TypeOK
<1>1. /\ t = Worker /\ pc[t] \in Active => serving \in Handlers
      /\ pc[t] \in Active \ {"check"} =>
            request[t] \in Requests /\ request[t].payload # None
  BY DEF WorkInProgress
<1>2. pc[t] \in Active \ {"check"} =>
        /\ EventOf(t) \in Events
        /\ Receipt(EventOf(t)) \in {Receipt(e) : e \in Events}
        /\ RouteOf(t, request[t]) \in Routes
  BY <1>1, EventTyped
<1>3. CASE BuildFails(t)
  <2> USE <1>3 DEF BuildFails, dbVars, readerVars
  <2>1. ThreadTypes' /\ QueueTypes'
    BY <1>1, RaiseTyped DEF Active
  <2>2. StoreTypes' /\ ReaderTypes'
    BY DEF StoreTypes, ReaderTypes
  <2> QED
    BY <2>1, <2>2
<1>4. CASE CheckIdempotency(t)
  <2> USE <1>4 DEF CheckIdempotency, dbVars, queueVars, readerVars
  <2>1. ThreadTypes'
    BY DEF ThreadTypes, Goto, Labels
  <2>2. StoreTypes' /\ QueueTypes' /\ ReaderTypes'
    BY DEF StoreTypes, QueueTypes, ReaderTypes
  <2> QED
    BY <2>1, <2>2
<1>5. CASE Validate(t)
  <2> USE <1>5 DEF Validate, dbVars, queueVars, readerVars
  <2>1. ThreadTypes'
    BY DEF ThreadTypes, Goto, Labels
  <2>2. StoreTypes' /\ QueueTypes' /\ ReaderTypes'
    BY DEF StoreTypes, QueueTypes, ReaderTypes
  <2> QED
    BY <2>1, <2>2
<1>6. CASE Refuse(t)
  <2> USE <1>6 DEF Refuse, readerVars
  <2>1. ThreadTypes' /\ QueueTypes'
    <3>1. "REFUSED_REPLAY" \in Decisions /\ "REFUSED_BINDING" \in Decisions
      BY DEF Decisions
    <3>2. t = Worker => serving \in Handlers
      BY <1>1 DEF Active
    <3> QED
      BY <3>1, <3>2, ReturnTyped
  <2>2. observed' \in [Routes -> [arrivals : Nat, commits : Nat]]
    BY <1>2, ArrivalTyped DEF StoreTypes, Active
  <2>3. StoreTypes' /\ ReaderTypes'
    BY <2>2 DEF StoreTypes, ReaderTypes
  <2> QED
    BY <2>1, <2>3
<1>7. CASE ReadUse(t)
  <2> USE <1>7 DEF ReadUse, dbVars, queueVars, readerVars
  <2>1. request[t].payload.authorization_id \in DOMAIN Authorizations
    BY DEF AdmittedInFlight, CoveredByReference, EventOf, Event
  <2>2. uses[request[t].payload.authorization_id] \in Nat
    BY <2>1 DEF StoreTypes, UseCounts
  <2>3. ThreadTypes'
    BY <2>2 DEF ThreadTypes, Goto, Labels
  <2>4. StoreTypes' /\ QueueTypes' /\ ReaderTypes'
    BY DEF StoreTypes, QueueTypes, ReaderTypes
  <2> QED
    BY <2>3, <2>4
<1>8. CASE WriteUse(t)
  <2> USE <1>8 DEF WriteUse, dbVars, queueVars, readerVars
  <2>1. ThreadTypes'
    BY DEF ThreadTypes, Goto, Labels
  <2>2. used[t] + 1 \in Nat
    BY DEF ThreadTypes
  <2>3. uses' \in UseCounts
    BY <2>2 DEF StoreTypes, UseCounts
  <2>4. StoreTypes' /\ QueueTypes' /\ ReaderTypes'
    BY <2>3 DEF StoreTypes, QueueTypes, ReaderTypes
  <2> QED
    BY <2>1, <2>4
<1>9. CASE Commit(t)
  <2> USE <1>9 DEF Commit, queueVars, readerVars
  <2>1. ThreadTypes'
    BY DEF ThreadTypes, Goto, Labels
  <2>2. ledger' \subseteq Events
    BY <1>2 DEF StoreTypes, Active
  <2>3. StoreTypes' /\ QueueTypes' /\ ReaderTypes'
    BY <2>2 DEF StoreTypes, QueueTypes, ReaderTypes
  <2> QED
    BY <2>1, <2>3
<1>10. CASE CommitConflict(t)
  <2> USE <1>10 DEF CommitConflict, dbVars, readerVars
  <2>1. ThreadTypes' /\ QueueTypes'
    BY <1>1, RaiseTyped DEF Active
  <2>2. StoreTypes' /\ ReaderTypes'
    BY DEF StoreTypes, ReaderTypes
  <2> QED
    BY <2>1, <2>2
<1>11. CASE ObserveCommit(t)
  <2> USE <1>11 DEF ObserveCommit, queueVars, readerVars
  <2>1. ThreadTypes'
    BY DEF ThreadTypes, Goto, Labels
  <2>2. observed' \in [Routes -> [arrivals : Nat, commits : Nat]]
    BY <1>2, ArrivalTyped DEF StoreTypes, Active
  <2>3. StoreTypes' /\ QueueTypes' /\ ReaderTypes'
    BY <2>2 DEF StoreTypes, QueueTypes, ReaderTypes
  <2> QED
    BY <2>1, <2>3
<1>12. CASE EmitReceipt(t)
  <2> USE <1>12 DEF EmitReceipt, readerVars
  <2>1. ThreadTypes' /\ QueueTypes'
    <3>1. "ADMITTED" \in Decisions /\ "COMMITTED" \in Decisions
      BY DEF Decisions
    <3>2. t = Worker => serving \in Handlers
      BY <1>1 DEF Active
    <3> QED
      BY <3>1, <3>2, ReturnTyped
  <2>2. receipts' \subseteq {Receipt(e) : e \in Events}
    BY <1>2 DEF StoreTypes, Active
  <2>3. StoreTypes' /\ ReaderTypes'
    BY <2>2 DEF StoreTypes, ReaderTypes
  <2> QED
    BY <2>1, <2>3
<1> QED
  BY <1>3, <1>4, <1>5, <1>6, <1>7, <1>8, <1>9, <1>10, <1>11, <1>12 DEF GuardStep

\* Every step keeps the types of the state.
LEMMA TypeStep ==
    ASSUME TypeOK, WorkInProgress, AdmittedInFlight, [Next]_vars
    PROVE  TypeOK'
<1> USE DEF TypeOK
<1>1. CASE UNCHANGED vars
  BY <1>1 DEF vars, dbVars, queueVars, readerVars, ThreadTypes, StoreTypes, QueueTypes,
     ReaderTypes
<1>2. ASSUME NEW h \in Handlers, NEW q \in Requests, Post(h, q)
      PROVE  TypeOK'
  <2> USE <1>2 DEF Post, dbVars, queueVars, readerVars
  <2>1. ThreadTypes'
    BY DEF ThreadTypes, Goto, Labels, Decisions, Threads
  <2>2. StoreTypes' /\ QueueTypes' /\ ReaderTypes'
    BY DEF StoreTypes, QueueTypes, ReaderTypes
  <2> QED
    BY <2>1, <2>2
<1>3. ASSUME NEW h \in Handlers, Enqueue(h)
      PROVE  TypeOK'
  <2> USE <1>3 DEF Enqueue, dbVars, readerVars
  <2>1. ThreadTypes'
    BY DEF ThreadTypes, Goto, Labels, Threads
  <2>2. jobs' \in Seq(Handlers)
    BY AppendProperties DEF QueueTypes
  <2>3. StoreTypes' /\ QueueTypes' /\ ReaderTypes'
    BY <2>2 DEF StoreTypes, QueueTypes, ReaderTypes
  <2> QED
    BY <2>1, <2>3
<1>4. ASSUME NEW h \in Handlers, JobDone(h) \/ WorkerTimeout(h)
      PROVE  TypeOK'
  <2> USE <1>4 DEF JobDone, WorkerTimeout, dbVars, queueVars, readerVars
  <2>1. box[h] \in Decisions \cup {None}
    BY DEF QueueTypes
  <2>2. ThreadTypes'
    BY <2>1 DEF ThreadTypes, Goto, Labels, Threads, Decisions
  <2>3. StoreTypes' /\ QueueTypes' /\ ReaderTypes'
    BY DEF StoreTypes, QueueTypes, ReaderTypes
  <2> QED
    BY <2>2, <2>3
<1>5. CASE WorkerLoop \/ WorkerEmpty
  <2> USE <1>5 DEF WorkerLoop, WorkerEmpty, dbVars, queueVars, readerVars
  <2>1. ThreadTypes'
    BY DEF ThreadTypes, Goto, Labels, Threads
  <2>2. StoreTypes' /\ QueueTypes' /\ ReaderTypes'
    BY DEF StoreTypes, QueueTypes, ReaderTypes
  <2> QED
    BY <2>1, <2>2
<1>6. CASE WorkerGet
  <2> USE <1>6 DEF WorkerGet, dbVars, readerVars
  <2>1. Head(jobs) \in Handlers /\ Tail(jobs) \in Seq(Handlers)
    BY HeadTailProperties DEF QueueTypes
  <2>2. ThreadTypes'
    BY <2>1 DEF ThreadTypes, Goto, Labels, Threads
  <2>3. StoreTypes' /\ QueueTypes' /\ ReaderTypes'
    BY <2>1 DEF StoreTypes, QueueTypes, ReaderTypes
  <2> QED
    BY <2>2, <2>3
<1>7. CASE ReaderStep
  <2>1. ThreadTypes' /\ StoreTypes' /\ QueueTypes'
    BY <1>7 DEF ReaderStep, ReadObservedPaths, ReadUseCounts, ReadCommits, ReadReceipts,
       ReadTokensAndAdjudicate, dbVars, queueVars, ThreadTypes, StoreTypes, QueueTypes
  <2>2. CASE ReadObservedPaths
    <3>1. ObservedRoutes \in SUBSET Routes
      BY DEF ObservedRoutes
    <3>2. [EmptySnapshot EXCEPT !.routes = ObservedRoutes]
             \in [routes : SUBSET Routes, use_counts : UseCounts, commits : SUBSET Events,
                  receipts : SUBSET {Receipt(e) : e \in Events}]
      BY <3>1 DEF EmptySnapshot, NoUses, UseCounts
    <3> QED
      BY <2>1, <2>2, <3>2 DEF ReadObservedPaths, ReaderTypes
  <2>3. CASE ReadUseCounts
    BY <2>1, <2>3 DEF ReadUseCounts, ReaderTypes, StoreTypes
  <2>4. CASE ReadCommits
    BY <2>1, <2>4 DEF ReadCommits, ReaderTypes, StoreTypes
  <2>5. CASE ReadReceipts
    BY <2>1, <2>5 DEF ReadReceipts, ReaderTypes, StoreTypes
  <2>6. CASE ReadTokensAndAdjudicate
    BY <2>1, <2>6, AdjudicateTyped DEF ReadTokensAndAdjudicate, ReaderTypes
  <2> QED
    BY <1>7, <2>2, <2>3, <2>4, <2>5, <2>6 DEF ReaderStep
<1>8. CASE CloseServer \/ Close
  BY <1>8 DEF CloseServer, Close, dbVars, queueVars, readerVars, ThreadTypes, StoreTypes,
     QueueTypes, ReaderTypes
<1>9. CASE Restart
  <2> USE <1>9 DEF Restart, dbVars
  <2>1. ThreadTypes'
    BY DEF ThreadTypes, Labels
  <2>2. StoreTypes'
    BY DEF StoreTypes, NoUses, UseCounts
  <2>3. QueueTypes'
    <3>1. jobs' \in Seq(Handlers)
      BY EmptySeq
    <3> QED
      BY <3>1 DEF QueueTypes
  <2>4. ReaderTypes'
    BY DEF ReaderTypes, EmptySnapshot, NoUses, UseCounts
  <2> QED
    BY <2>1, <2>2, <2>3, <2>4
<1> QED
  BY <1>1, <1>2, <1>3, <1>4, <1>5, <1>6, <1>7, <1>8, <1>9, GuardTyped
     DEF Next, HandlerStep, WorkerStep, Threads

\* A step inside guarded or hidden moves only the thread that takes it, and
\* leaves guarded and hidden through Return and Raise.
LEMMA GuardMoves ==
    ASSUME TypeOK, NEW t \in Threads, GuardStep(t)
    PROVE  /\ pc[t] \in Active
           /\ \A s \in Threads \ {t} : pc'[s] = pc[s]
           /\ pc'[t] \in Active => serving' = serving
           /\ request' = request /\ jobs' = jobs
           /\ pc[t] = "check" /\ pc'[t] \in Active \ {"check"} => request[t].payload # None
           /\ t # Worker => serving' = serving
<1> USE DEF TypeOK, ThreadTypes, Goto, Active
<1>1. CASE BuildFails(t) \/ CommitConflict(t)
  BY <1>1 DEF BuildFails, CommitConflict, Raise, queueVars
<1>2. CASE Refuse(t) \/ EmitReceipt(t)
  BY <1>2 DEF Refuse, EmitReceipt, Return, queueVars
<1>3. CASE CheckIdempotency(t) \/ Validate(t) \/ ReadUse(t) \/ WriteUse(t)
  BY <1>3 DEF CheckIdempotency, Validate, ReadUse, WriteUse, queueVars
<1>4. CASE Commit(t) \/ ObserveCommit(t)
  BY <1>4 DEF Commit, ObserveCommit, queueVars
<1> QED
  BY <1>1, <1>2, <1>3, <1>4 DEF GuardStep

\* A thread at work keeps the request it works on.
LEMMA WorkStep ==
    ASSUME TypeOK, WorkInProgress, [Next]_vars
    PROVE  WorkInProgress'
<1> USE DEF TypeOK, ThreadTypes, QueueTypes, WorkInProgress
<1>1. CASE UNCHANGED vars
  BY <1>1 DEF vars, queueVars
<1>2. ASSUME NEW h \in Handlers, NEW q \in Requests, Post(h, q)
      PROVE  WorkInProgress'
  <2>1. h # Worker /\ h \in Threads
    BY HostSinkAssumption DEF Threads
  <2>2. pc'[h] = "check" \/ pc'[h] \notin Active
    BY <1>2, <2>1 DEF Post, Goto, Active
  <2>3. request' = [request EXCEPT ![h] = q] /\ jobs' = jobs /\ serving' = serving
    BY <1>2 DEF Post, queueVars
  <2>4. \A t \in Threads \ {h} : pc'[t] = pc[t]
    BY <1>2 DEF Post, Goto
  <2>5. \A i \in DOMAIN jobs : jobs[i] \in Threads
    BY LenProperties, ElementOfSeq DEF Threads
  <2> QED
    BY <2>1, <2>2, <2>3, <2>4, <2>5 DEF Threads
<1>3. ASSUME NEW t \in Threads, GuardStep(t)
      PROVE  WorkInProgress'
  <2>1. Worker \in Threads
    BY DEF Threads
  <2> QED
    BY <1>3, <2>1, GuardMoves DEF Active
<1>4. ASSUME NEW h \in Handlers, Enqueue(h)
      PROVE  WorkInProgress'
  <2>1. h # Worker /\ h \in Threads
    BY HostSinkAssumption DEF Threads
  <2>2. request' = request /\ serving' = serving
    BY <1>4 DEF Enqueue
  <2>3. \A t \in Threads : pc'[t] = IF t = h THEN "wait" ELSE pc[t]
    BY <1>4 DEF Enqueue, Goto
  <2>4. \A i \in DOMAIN jobs' : request'[jobs'[i]] \in Requests
    <3>1. request[h] \in Requests
      BY <1>4, <2>1 DEF Enqueue
    <3>2. jobs' = Append(jobs, h)
      BY <1>4 DEF Enqueue
    <3> QED
      BY <2>2, <3>1, <3>2, AppendProperties, LenProperties
  <2> QED
    BY <1>4, <2>1, <2>2, <2>3, <2>4 DEF Enqueue, Active, Threads
<1>5. ASSUME NEW h \in Handlers, JobDone(h) \/ WorkerTimeout(h)
      PROVE  WorkInProgress'
  BY <1>5, HostSinkAssumption DEF JobDone, WorkerTimeout, Goto, Active, Threads, queueVars
<1>6. CASE WorkerLoop \/ WorkerEmpty
  BY <1>6, HostSinkAssumption DEF WorkerLoop, WorkerEmpty, Goto, Active, Threads, queueVars
<1>7. CASE WorkerGet
  <2>1. /\ Head(jobs) = jobs[1] /\ 1 \in DOMAIN jobs /\ Head(jobs) \in Handlers
        /\ \A i \in DOMAIN Tail(jobs) : /\ i + 1 \in DOMAIN jobs
                                        /\ Tail(jobs)[i] = jobs[i + 1]
                                        /\ Tail(jobs)[i] \in Handlers
    BY <1>7, HeadTailProperties, LenProperties, ElementOfSeq DEF WorkerGet
  <2>2. \A t \in Threads : pc'[t] = IF t = Worker THEN "check" ELSE pc[t]
    BY <1>7 DEF WorkerGet, Goto
  <2>3. \A t \in Threads : request'[t] = IF t = Worker THEN request[Head(jobs)] ELSE request[t]
    BY <1>7 DEF WorkerGet
  <2>4. serving' = Head(jobs) /\ jobs' = Tail(jobs)
    BY <1>7 DEF WorkerGet
  <2>5. \A h \in Handlers : h # Worker /\ h \in Threads
    BY HostSinkAssumption DEF Threads
  <2>6. request[Head(jobs)] \in Requests
    BY <2>1
  <2>7. \A t \in Threads :
           /\ pc'[t] \in Active \cup {"enqueue", "wait"} => request'[t] \in Requests
           /\ pc'[t] \in Active \ {"check"} => request'[t].payload # None
    BY <2>2, <2>3, <2>6 DEF Active
  <2>8. \A i \in DOMAIN jobs' : request'[jobs'[i]] \in Requests
    BY <2>1, <2>3, <2>4, <2>5
  <2> QED
    BY <2>1, <2>4, <2>7, <2>8
<1>8. CASE ReaderStep \/ CloseServer \/ Close
  BY <1>8 DEF ReaderStep, ReadObservedPaths, ReadUseCounts, ReadCommits, ReadReceipts,
     ReadTokensAndAdjudicate, CloseServer, Close, queueVars
<1>9. CASE Restart
  <2>1. \A t \in Threads : pc'[t] \notin Active \cup {"enqueue", "wait"}
    BY <1>9 DEF Restart, Active
  <2>2. jobs' = <<>> /\ DOMAIN jobs' = {}
    BY <1>9 DEF Restart
  <2> QED
    BY <2>1, <2>2 DEF Threads
<1> QED
  BY <1>1, <1>2, <1>3, <1>4, <1>5, <1>6, <1>7, <1>8, <1>9
     DEF Next, HandlerStep, WorkerStep, Threads

\* The guard lets only covered events through.
LEMMA GuardCovers ==
    ASSUME NEW e, NEW count, IsValid(GuardReport(e, count))
    PROVE  CoveredByReference(e)
<1> DEFINE ref == e.authorization_ref
           n == IF count = None THEN None ELSE count + 1
<1>1. ref \in DOMAIN Authorizations
  <2> SUFFICES ASSUME ref \notin DOMAIN Authorizations PROVE FALSE
    OBVIOUS
  <2>1. GuardReport(e, count) = [authorization_present |-> Mismatch]
    BY DEF GuardReport, ValidateAuthorization, Get
  <2>2. "authorization_present" \in Mismatches([authorization_present |-> Mismatch])
    BY DEF Mismatches
  <2> QED
    BY <2>1, <2>2 DEF IsValid
<1>2. Authorizations[ref] # None
  BY <1>1, HostSinkAssumption
<1>3. GuardReport(e, count) =
        Report(Authorizations[ref], e, At(Epochs, e.committed_at), Secret, n, e.token_digest)
  BY <1>1, <1>2 DEF GuardReport, ValidateAuthorization, Get
<1> HIDE DEF n
<1> QED
  BY <1>1, <1>3, ValidMeansCovered

\* What a thread carries past the guard is covered, and stays so.
LEMMA AdmittedStep ==
    ASSUME TypeOK, WorkInProgress, AdmittedInFlight, [Next]_vars
    PROVE  AdmittedInFlight'
<1> DEFINE Carried(t) ==
        /\ pc[t] \in {"use_read", "use_write"} => CoveredByReference(EventOf(t))
        /\ pc[t] = "commit" => \/ RouteOf(t, request[t]) = RouteHiddenBatch
                               \/ CoveredByReference(EventOf(t))
<1> SUFFICES ASSUME NEW t \in Threads PROVE Carried(t)'
  BY DEF AdmittedInFlight
<1> USE DEF TypeOK, ThreadTypes
<1>1. Carried(t)
  BY DEF AdmittedInFlight
<1>2. CASE pc'[t] = pc[t] /\ request'[t] = request[t]
  BY <1>1, <1>2 DEF EventOf
<1>3. CASE pc'[t] \notin {"use_read", "use_write", "commit"}
  BY <1>3
<1>4. CASE UNCHANGED vars
  BY <1>2, <1>4 DEF vars
<1>5. ASSUME NEW h \in Handlers, NEW q \in Requests, Post(h, q)
      PROVE  Carried(t)'
  BY <1>2, <1>3, <1>5 DEF Post, Goto
<1>6. ASSUME NEW s \in Threads, GuardStep(s)
      PROVE  Carried(t)'
  <2>1. CASE s # t
    BY <1>2, <1>6, <2>1, GuardMoves
  <2>2. CASE s = t
    <3> USE <2>2
    <3>1. CASE BuildFails(s) \/ CommitConflict(s)
      BY <1>3, <3>1 DEF BuildFails, CommitConflict, Raise, Goto
    <3>2. CASE Refuse(s) \/ EmitReceipt(s)
      BY <1>3, <3>2 DEF Refuse, EmitReceipt, Return, Goto
    <3>3. CASE CheckIdempotency(s)
      BY <3>3 DEF CheckIdempotency, Goto
    <3>4. CASE Validate(s)
      <4>1. PICK report \in {GuardReport(EventOf(t),
                                Get(uses, request[t].payload.authorization_id))} :
               Goto(t, IF IsValid(report) THEN "use_read" ELSE "refuse_binding")
        BY <3>4 DEF Validate
      <4>2. CASE IsValid(report)
        <5>1. CoveredByReference(EventOf(t))
          BY <4>1, <4>2, GuardCovers
        <5>2. request' = request /\ pc'[t] = "use_read"
          BY <3>4, <4>1, <4>2 DEF Validate, Goto
        <5> QED
          BY <5>1, <5>2 DEF EventOf
      <4>3. CASE ~ IsValid(report)
        BY <1>3, <4>1, <4>3 DEF Goto
      <4> QED
        BY <4>2, <4>3
    <3>5. CASE ReadUse(s) \/ WriteUse(s)
      BY <1>1, <3>5 DEF ReadUse, WriteUse, Goto, EventOf
    <3>6. CASE Commit(s) \/ ObserveCommit(s)
      BY <1>3, <3>6 DEF Commit, ObserveCommit, Goto
    <3> QED
      BY <1>6, <3>1, <3>2, <3>3, <3>4, <3>5, <3>6 DEF GuardStep
  <2> QED
    BY <2>1, <2>2
<1>7. ASSUME NEW h \in Handlers, Enqueue(h) \/ JobDone(h) \/ WorkerTimeout(h)
      PROVE  Carried(t)'
  BY <1>2, <1>3, <1>7 DEF Enqueue, JobDone, WorkerTimeout, Goto
<1>8. CASE WorkerLoop \/ WorkerEmpty
  BY <1>2, <1>3, <1>8 DEF WorkerLoop, WorkerEmpty, Goto
<1>9. CASE WorkerGet
  BY <1>2, <1>3, <1>9 DEF WorkerGet, Goto
<1>10. CASE ReaderStep \/ CloseServer \/ Close
  BY <1>2, <1>10 DEF ReaderStep, ReadObservedPaths, ReadUseCounts, ReadCommits, ReadReceipts,
     ReadTokensAndAdjudicate, CloseServer, Close
<1>11. CASE Restart
  BY <1>3, <1>11 DEF Restart
<1> QED
  BY <1>4, <1>5, <1>6, <1>7, <1>8, <1>9, <1>10, <1>11
     DEF Next, HandlerStep, WorkerStep, Threads

\* Only Commit writes to the ledger.
LEMMA OnlyCommitWrites ==
    ASSUME [Next]_vars
    PROVE  ledger' = ledger \/ \E t \in Threads : Commit(t)
<1>1. ASSUME NEW t \in Threads, GuardStep(t)
      PROVE  ledger' = ledger \/ Commit(t)
  BY <1>1 DEF GuardStep, BuildFails, CheckIdempotency, Validate, Refuse, ReadUse, WriteUse,
     CommitConflict, ObserveCommit, EmitReceipt, dbVars
<1>2. ASSUME NEW h \in Handlers, Enqueue(h) \/ JobDone(h) \/ WorkerTimeout(h)
      PROVE  ledger' = ledger
  BY <1>2 DEF Enqueue, JobDone, WorkerTimeout, dbVars
<1>3. ASSUME NEW h \in Handlers, NEW q \in Requests, Post(h, q)
      PROVE  ledger' = ledger
  BY <1>3 DEF Post, dbVars
<1>4. CASE WorkerLoop \/ WorkerGet \/ WorkerEmpty
  BY <1>4 DEF WorkerLoop, WorkerGet, WorkerEmpty, dbVars
<1>5. CASE ReaderStep \/ CloseServer \/ Close \/ Restart
  BY <1>5 DEF ReaderStep, ReadObservedPaths, ReadUseCounts, ReadCommits, ReadReceipts,
     ReadTokensAndAdjudicate, CloseServer, Close, Restart, dbVars
<1>6. CASE UNCHANGED vars
  BY <1>6 DEF vars, dbVars
<1> QED
  BY <1>1, <1>2, <1>3, <1>4, <1>5, <1>6 DEF Next, HandlerStep, WorkerStep, Threads

\* A commit adds a covered row, or one of the hidden route, with a fresh key.
LEMMA LedgerStep ==
    ASSUME TypeOK, IInv, [Next]_vars
    PROVE  GuardedCommitsCovered' /\ UniqueRows'
<1> USE DEF IInv
<1>1. CASE ledger' = ledger
  BY <1>1 DEF GuardedCommitsCovered, GuardedRows, UniqueRows
<1>2. ASSUME NEW t \in Threads, Commit(t)
      PROVE  GuardedCommitsCovered' /\ UniqueRows'
  <2> DEFINE e == EventOf(t)
  <2>1. ledger' = ledger \cup {e} /\ ~ InsertConflicts(e) /\ pc[t] = "commit"
    BY <1>2 DEF Commit
  <2>2. e.route_id = RouteOf(t, request[t])
    BY DEF EventOf, Event
  <2>3. e.route_id \in DeclaredRoutes => CoveredByReference(e)
    BY <2>1, <2>2 DEF AdmittedInFlight, DeclaredRoutes, RouteHttpGuarded, RouteQueueWorker,
       RouteHiddenBatch
  <2> HIDE DEF e
  <2>4. GuardedCommitsCovered'
    BY <2>1, <2>3 DEF GuardedCommitsCovered, GuardedRows
  <2>5. UniqueRows'
    BY <2>1 DEF UniqueRows, InsertConflicts
  <2> QED
    BY <2>4, <2>5
<1> QED
  BY <1>1, <1>2, OnlyCommitWrites

-----------------------------------------------------------------------------

\* IInv holds at the start and of every step.
LEMMA InvInit == Init => TypeOK /\ IInv
<1> SUFFICES ASSUME Init PROVE IInv
  BY InitTyped
<1>1. \A t \in Threads : pc[t] \in {"idle", "loop"}
  BY DEF Init
<1>2. jobs = <<>> /\ ledger = {}
  BY DEF Init
<1>3. DOMAIN jobs = {}
  BY <1>2
<1> QED
  BY <1>1, <1>2, <1>3 DEF IInv, WorkInProgress, AdmittedInFlight, GuardedCommitsCovered,
     GuardedRows, UniqueRows, Active, Threads

\* Every step of the host sink keeps the types and the invariant together: each
\* needs the other.
LEMMA InvStep == TypeOK /\ IInv /\ [Next]_vars => TypeOK' /\ IInv'
<1> SUFFICES ASSUME TypeOK, IInv, [Next]_vars PROVE TypeOK' /\ IInv'
  OBVIOUS
<1>1. WorkInProgress /\ AdmittedInFlight
  BY DEF IInv
<1>2. TypeOK'
  BY <1>1, TypeStep
<1>3. WorkInProgress' /\ AdmittedInFlight'
  BY <1>1, WorkStep, AdmittedStep
<1>4. GuardedCommitsCovered' /\ UniqueRows'
  BY LedgerStep
<1> QED
  BY <1>2, <1>3, <1>4 DEF IInv

\* The types and the invariant hold in every reachable state.
LEMMA Invariant == Spec => [](TypeOK /\ IInv)
<1> QED
  BY InvInit, InvStep, PTL DEF Spec

\* The state of host_sink.py keeps the types its code gives it.
THEOREM TypeCorrect == Spec => []TypeOK
<1> QED
  BY Invariant, PTL

\* What is in the ledger, and what every thread is about to put there, stays
\* covered and unique: the argument behind the two theorems that follow.
THEOREM InvariantHolds == Spec => []IInv
<1> QED
  BY Invariant, PTL

\* For any number of request threads beside the worker, any authorities and any
\* authorizations, no interleaving commits an uncovered row on a guarded route.
THEOREM GuardedAreCovered == Spec => []GuardedCommitsCovered
<1>1. TypeOK /\ IInv => GuardedCommitsCovered
  BY DEF IInv
<1> QED
  BY <1>1, Invariant, PTL

\* No race of deliveries, and no restart, commits one authorization twice
\* through the guarded routes.
THEOREM OneCommit == Spec => []OneCommitPerAuthorization
<1>1. TypeOK /\ IInv => OneCommitPerAuthorization
  <2> SUFFICES ASSUME IInv, NEW r1 \in GuardedRows, NEW r2 \in GuardedRows,
                      r1.authorization_ref = r2.authorization_ref
               PROVE  r1 = r2
    BY DEF OneCommitPerAuthorization
  <2>1. CoveredByReference(r1) /\ CoveredByReference(r2)
    BY DEF IInv, GuardedCommitsCovered
  <2>2. r1.idempotency_key = r2.idempotency_key
    BY <2>1 DEF CoveredByReference, Covers
  <2> QED
    BY <2>2 DEF IInv, UniqueRows, GuardedRows
<1> QED
  BY <1>1, Invariant, PTL

-----------------------------------------------------------------------------
(* The order in which the host sink counts, commits and answers, and what   *)
(* stays of it.                                                            *)

\* A thread about to commit through a guarded route has counted its use.
CountedInFlight ==
    \A t \in Threads :
        pc[t] = "commit" /\ RouteOf(t, request[t]) # RouteHiddenBatch
            => uses[request[t].payload.authorization_id] >= 1

UsesInv == restarts = 0 => CountedInFlight /\ UseRecordedBeforeCommit

\* A handler that answered does nothing more.
AnsweredRest ==
    \A h \in Handlers : reply[h] # None => pc[h] \in {"answered", "raised", "lost"}

HistoryInv == AnsweredRest /\ IsFiniteSet(ledger)

-----------------------------------------------------------------------------
(* Uses                                                                    *)

\* No counter goes back to zero while the process lives.
LEMMA UsesStayPositive ==
    ASSUME TypeOK, IInv, [Next]_vars, restarts' = restarts
    PROVE  /\ \A a \in DOMAIN Authorizations : uses[a] >= 1 => uses'[a] >= 1
           /\ \A t \in Threads : WriteUse(t) =>
                    /\ request[t].payload.authorization_id \in DOMAIN Authorizations
                    /\ uses'[request[t].payload.authorization_id] >= 1
<1> USE DEF TypeOK, ThreadTypes, StoreTypes, ReaderTypes, UseCounts
<1>1. ASSUME NEW t \in Threads, WriteUse(t)
      PROVE  /\ request[t].payload.authorization_id \in DOMAIN Authorizations
             /\ uses'[request[t].payload.authorization_id] >= 1
             /\ \A a \in DOMAIN Authorizations : uses[a] >= 1 => uses'[a] >= 1
  <2>1. CoveredByReference(EventOf(t))
    BY <1>1 DEF IInv, AdmittedInFlight, WriteUse
  <2>2. request[t].payload.authorization_id \in DOMAIN Authorizations
    BY <2>1 DEF CoveredByReference, EventOf, Event
  <2>3. used[t] \in Nat /\ uses \in [DOMAIN Authorizations -> Nat]
    OBVIOUS
  <2> QED
    BY <1>1, <2>2, <2>3 DEF WriteUse
<1>2. ASSUME \A t \in Threads : ~ WriteUse(t)
      PROVE  uses' = uses
  <2>1. ASSUME NEW t \in Threads, GuardStep(t) PROVE uses' = uses
    BY <1>2, <2>1 DEF GuardStep, BuildFails, CheckIdempotency, Validate, Refuse, ReadUse,
       Commit, CommitConflict, ObserveCommit, EmitReceipt
  <2>2. ASSUME NEW h \in Handlers, Enqueue(h) \/ JobDone(h) \/ WorkerTimeout(h)
        PROVE  uses' = uses
    BY <2>2 DEF Enqueue, JobDone, WorkerTimeout
  <2>3. ASSUME NEW h \in Handlers, NEW q \in Requests, Post(h, q) PROVE uses' = uses
    BY <2>3 DEF Post
  <2>4. CASE WorkerLoop \/ WorkerGet \/ WorkerEmpty
    BY <2>4 DEF WorkerLoop, WorkerGet, WorkerEmpty
  <2>5. CASE ReaderStep \/ CloseServer \/ Close
    BY <2>5 DEF ReaderStep, ReadObservedPaths, ReadUseCounts, ReadCommits, ReadReceipts,
       ReadTokensAndAdjudicate, CloseServer, Close
  <2>6. ~ Restart
    BY DEF Restart
  <2>7. CASE UNCHANGED vars
    BY <2>7 DEF vars
  <2> QED
    BY <2>1, <2>2, <2>3, <2>4, <2>5, <2>6, <2>7 DEF Next, HandlerStep, WorkerStep, Threads
<1> QED
  BY <1>1, <1>2

\* Only WriteUse brings a thread to its commit on a guarded route.
LEMMA OnlyUseLeadsToCommit ==
    ASSUME TypeOK, IInv, [Next]_vars, NEW t \in Threads, pc'[t] = "commit",
           RouteOf(t, request'[t]) # RouteHiddenBatch
    PROVE  \/ pc[t] = "commit" /\ request'[t] = request[t]
           \/ WriteUse(t) /\ request'[t] = request[t]
<1> USE DEF TypeOK, ThreadTypes
<1>1. CASE UNCHANGED vars
  BY <1>1 DEF vars
<1>2. ASSUME NEW h \in Handlers, NEW q \in Requests, Post(h, q)
      PROVE  pc[t] = "commit" /\ request'[t] = request[t]
  BY <1>2 DEF Post, Goto
<1>3. ASSUME NEW s \in Threads, GuardStep(s)
      PROVE  \/ pc[t] = "commit" /\ request'[t] = request[t]
             \/ WriteUse(t) /\ request'[t] = request[t]
  <2>1. CASE s # t
    BY <1>3, <2>1, GuardMoves
  <2>2. CASE s = t
    <3> USE <2>2
    <3>1. request' = request
      BY <1>3, GuardMoves
    <3>2. ~ BuildFails(s) /\ ~ CommitConflict(s)
      BY DEF BuildFails, CommitConflict, Raise, Goto
    <3>3. ~ Refuse(s) /\ ~ EmitReceipt(s)
      BY DEF Refuse, EmitReceipt, Return, Goto
    <3>4. ~ CheckIdempotency(s)
      BY <3>1 DEF CheckIdempotency, Goto
    <3>5. ~ Validate(s) /\ ~ ReadUse(s) /\ ~ Commit(s) /\ ~ ObserveCommit(s)
      BY DEF Validate, ReadUse, Commit, ObserveCommit, Goto
    <3> QED
      BY <1>3, <3>1, <3>2, <3>3, <3>4, <3>5 DEF GuardStep
  <2> QED
    BY <2>1, <2>2
<1>4. ASSUME NEW h \in Handlers, Enqueue(h) \/ JobDone(h) \/ WorkerTimeout(h)
      PROVE  pc[t] = "commit" /\ request'[t] = request[t]
  BY <1>4 DEF Enqueue, JobDone, WorkerTimeout, Goto
<1>5. CASE WorkerLoop \/ WorkerGet \/ WorkerEmpty
  BY <1>5, HostSinkAssumption DEF WorkerLoop, WorkerGet, WorkerEmpty, Goto, Threads
<1>6. CASE ReaderStep \/ CloseServer \/ Close
  BY <1>6 DEF ReaderStep, ReadObservedPaths, ReadUseCounts, ReadCommits, ReadReceipts,
     ReadTokensAndAdjudicate, CloseServer, Close
<1>7. ~ Restart
  BY DEF Restart
<1> QED
  BY <1>1, <1>2, <1>3, <1>4, <1>5, <1>6, <1>7 DEF Next, HandlerStep, WorkerStep, Threads

\* A use is counted before its commit, and no counter falls back before a restart.
LEMMA UsesStep ==
    TypeOK /\ IInv /\ UsesInv /\ [Next]_vars => UsesInv'
<1> SUFFICES ASSUME TypeOK, IInv, UsesInv, [Next]_vars, restarts' = 0
             PROVE  CountedInFlight' /\ UseRecordedBeforeCommit'
  BY DEF UsesInv
<1>1. restarts' = restarts
  <2>1. CASE Restart
    BY <2>1 DEF Restart, TypeOK, ReaderTypes
  <2>2. CASE ~ Restart
    <3>1. ASSUME NEW t \in Threads, GuardStep(t) PROVE restarts' = restarts
      BY <3>1 DEF GuardStep, BuildFails, CheckIdempotency, Validate, Refuse, ReadUse, WriteUse,
         Commit, CommitConflict, ObserveCommit, EmitReceipt
    <3>2. ASSUME NEW h \in Handlers, Enqueue(h) \/ JobDone(h) \/ WorkerTimeout(h)
          PROVE  restarts' = restarts
      BY <3>2 DEF Enqueue, JobDone, WorkerTimeout
    <3>3. ASSUME NEW h \in Handlers, NEW q \in Requests, Post(h, q) PROVE restarts' = restarts
      BY <3>3 DEF Post
    <3>4. CASE WorkerLoop \/ WorkerGet \/ WorkerEmpty
      BY <3>4 DEF WorkerLoop, WorkerGet, WorkerEmpty
    <3>5. CASE ReaderStep \/ CloseServer \/ Close
      BY <3>5 DEF ReaderStep, ReadObservedPaths, ReadUseCounts, ReadCommits, ReadReceipts,
         ReadTokensAndAdjudicate, CloseServer, Close
    <3>6. CASE UNCHANGED vars
      BY <3>6 DEF vars
    <3> QED
      BY <2>2, <3>1, <3>2, <3>3, <3>4, <3>5, <3>6 DEF Next, HandlerStep, WorkerStep, Threads
  <2> QED
    BY <2>1, <2>2
<1>2. /\ CountedInFlight
      /\ \A row \in GuardedRows : uses[row.authorization_ref] >= 1
  BY <1>1 DEF UsesInv, UseRecordedBeforeCommit
<1>3. \A a \in DOMAIN Authorizations : uses[a] >= 1 => uses'[a] >= 1
  BY <1>1, UsesStayPositive
<1>4. CountedInFlight'
  <2> SUFFICES ASSUME NEW t \in Threads, pc'[t] = "commit",
                      RouteOf(t, request'[t]) # RouteHiddenBatch
               PROVE  uses'[request'[t].payload.authorization_id] >= 1
    BY DEF CountedInFlight, RouteOf
  <2>1. CASE WriteUse(t) /\ request'[t] = request[t]
    BY <1>1, <2>1, UsesStayPositive
  <2>2. CASE pc[t] = "commit" /\ request'[t] = request[t]
    <3>1. CoveredByReference(EventOf(t))
      BY <2>2 DEF IInv, AdmittedInFlight
    <3>2. request[t].payload.authorization_id \in DOMAIN Authorizations
      BY <3>1 DEF CoveredByReference, EventOf, Event
    <3> QED
      BY <1>2, <1>3, <2>2, <3>2 DEF CountedInFlight
  <2> QED
    BY <2>1, <2>2, OnlyUseLeadsToCommit
<1>5. ASSUME NEW row \in GuardedRows'
      PROVE  uses'[row.authorization_ref] >= 1
  <2>1. CASE row \in ledger
    <3>1. row \in GuardedRows
      BY <1>5, <2>1 DEF GuardedRows
    <3>2. row.authorization_ref \in DOMAIN Authorizations
      BY <3>1 DEF IInv, GuardedCommitsCovered, CoveredByReference
    <3> QED
      BY <1>2, <1>3, <3>1, <3>2
  <2>2. CASE row \notin ledger
    <3>1. PICK t \in Threads : Commit(t)
      BY <1>5, <2>2, OnlyCommitWrites DEF GuardedRows
    <3>2. row = EventOf(t) /\ pc[t] = "commit" /\ uses' = uses
      BY <1>5, <2>2, <3>1 DEF Commit, GuardedRows
    <3>3. RouteOf(t, request[t]) # RouteHiddenBatch
      BY <1>5, <3>2 DEF GuardedRows, EventOf, Event, DeclaredRoutes, RouteHiddenBatch,
         RouteHttpGuarded, RouteQueueWorker
    <3>4. row.authorization_ref = request[t].payload.authorization_id
      BY <3>2 DEF EventOf, Event
    <3> QED
      BY <1>2, <3>2, <3>3, <3>4 DEF CountedInFlight
  <2> QED
    BY <2>1, <2>2
<1> QED
  BY <1>4, <1>5 DEF UseRecordedBeforeCommit

\* Until the process is restarted, every guarded row was counted as a use of its
\* authorization before it was committed, lost updates of the counter included.
THEOREM UseComesFirst == Spec => []UseRecordedBeforeCommit
<1>1. Init => UsesInv
  BY DEF Init, UsesInv, CountedInFlight, UseRecordedBeforeCommit, GuardedRows, Threads
<1>2. UsesInv => UseRecordedBeforeCommit
  BY DEF UsesInv, UseRecordedBeforeCommit
<1> QED
  BY <1>1, <1>2, Invariant, UsesStep, PTL DEF Spec

-----------------------------------------------------------------------------
(* History                                                                 *)

\* One step gives at most one answer, to a handler that had none, and only of a
\* handler that leaves its work.
LEMMA AnswersRest ==
    ASSUME TypeOK, IInv, AnsweredRest, [Next]_vars
    PROVE  /\ AnsweredRest'
           /\ \A h \in Handlers : reply[h] # None => reply'[h] = reply[h]
<1> USE DEF TypeOK, ThreadTypes
<1> SUFFICES ASSUME NEW g \in Handlers
             PROVE  /\ reply'[g] # None => pc'[g] \in {"answered", "raised", "lost"}
                    /\ reply[g] # None => reply'[g] = reply[g]
  BY DEF AnsweredRest
<1>0. /\ reply[g] # None => pc[g] \in {"answered", "raised", "lost"}
      /\ g # Worker /\ g \in Threads
  BY HostSinkAssumption DEF AnsweredRest, Threads
<1>1. CASE UNCHANGED vars
  BY <1>0, <1>1 DEF vars
<1>2. ASSUME NEW h \in Handlers, NEW q \in Requests, Post(h, q)
      PROVE  /\ reply'[g] # None => pc'[g] \in {"answered", "raised", "lost"}
             /\ reply[g] # None => reply'[g] = reply[g]
  BY <1>0, <1>2 DEF Post, Goto
<1>3. ASSUME NEW s \in Threads, GuardStep(s)
      PROVE  /\ reply'[g] # None => pc'[g] \in {"answered", "raised", "lost"}
             /\ reply[g] # None => reply'[g] = reply[g]
  <2>1. CASE Refuse(s) \/ EmitReceipt(s)
    BY <1>0, <2>1 DEF Refuse, EmitReceipt, Return, Goto
  <2>2. CASE BuildFails(s) \/ CommitConflict(s)
    BY <1>0, <2>2 DEF BuildFails, CommitConflict, Raise, Goto
  <2>3. CASE CheckIdempotency(s) \/ Validate(s) \/ ReadUse(s) \/ WriteUse(s)
    BY <1>0, <2>3 DEF CheckIdempotency, Validate, ReadUse, WriteUse, Goto
  <2>4. CASE Commit(s) \/ ObserveCommit(s)
    BY <1>0, <2>4 DEF Commit, ObserveCommit, Goto
  <2> QED
    BY <1>3, <2>1, <2>2, <2>3, <2>4 DEF GuardStep
<1>4. ASSUME NEW h \in Handlers, Enqueue(h) \/ JobDone(h) \/ WorkerTimeout(h)
      PROVE  /\ reply'[g] # None => pc'[g] \in {"answered", "raised", "lost"}
             /\ reply[g] # None => reply'[g] = reply[g]
  BY <1>0, <1>4 DEF Enqueue, JobDone, WorkerTimeout, Goto
<1>5. CASE WorkerLoop \/ WorkerGet \/ WorkerEmpty
  BY <1>0, <1>5 DEF WorkerLoop, WorkerGet, WorkerEmpty, Goto
<1>6. CASE ReaderStep \/ CloseServer \/ Close
  BY <1>0, <1>6 DEF ReaderStep, ReadObservedPaths, ReadUseCounts, ReadCommits, ReadReceipts,
     ReadTokensAndAdjudicate, CloseServer, Close
<1>7. CASE Restart
  BY <1>0, <1>7 DEF Restart
<1> QED
  BY <1>1, <1>2, <1>3, <1>4, <1>5, <1>6, <1>7 DEF Next, HandlerStep, WorkerStep, Threads

\* Only EmitReceipt writes receipts, and it adds one.
LEMMA ReceiptsGrow ==
    ASSUME [Next]_vars
    PROVE  receipts \subseteq receipts'
<1>1. ASSUME NEW t \in Threads, GuardStep(t) PROVE receipts \subseteq receipts'
  BY <1>1 DEF GuardStep, BuildFails, CheckIdempotency, Validate, Refuse, ReadUse, WriteUse,
     Commit, CommitConflict, ObserveCommit, EmitReceipt, dbVars
<1>2. ASSUME NEW h \in Handlers, Enqueue(h) \/ JobDone(h) \/ WorkerTimeout(h)
      PROVE  receipts' = receipts
  BY <1>2 DEF Enqueue, JobDone, WorkerTimeout, dbVars
<1>3. ASSUME NEW h \in Handlers, NEW q \in Requests, Post(h, q)
      PROVE  receipts' = receipts
  BY <1>3 DEF Post, dbVars
<1>4. CASE WorkerLoop \/ WorkerGet \/ WorkerEmpty
  BY <1>4 DEF WorkerLoop, WorkerGet, WorkerEmpty, dbVars
<1>5. CASE ReaderStep \/ CloseServer \/ Close \/ Restart
  BY <1>5 DEF ReaderStep, ReadObservedPaths, ReadUseCounts, ReadCommits, ReadReceipts,
     ReadTokensAndAdjudicate, CloseServer, Close, Restart, dbVars
<1>6. CASE UNCHANGED vars
  BY <1>6 DEF vars, dbVars
<1> QED
  BY <1>1, <1>2, <1>3, <1>4, <1>5, <1>6 DEF Next, HandlerStep, WorkerStep, Threads

\* A finite ledger grows by at most one row.
LEMMA LedgerGrows ==
    ASSUME IsFiniteSet(ledger), [Next]_vars
    PROVE  /\ ledger \subseteq ledger'
           /\ IsFiniteSet(ledger')
           /\ Cardinality(ledger') <= Cardinality(ledger) + 1
<1>1. Cardinality(ledger) \in Nat
  BY FS_CardinalityType
<1>2. CASE ledger' = ledger
  BY <1>1, <1>2
<1>3. ASSUME NEW t \in Threads, Commit(t)
      PROVE  /\ ledger \subseteq ledger'
             /\ IsFiniteSet(ledger')
             /\ Cardinality(ledger') <= Cardinality(ledger) + 1
  <2>1. ledger' = ledger \cup {EventOf(t)}
    BY <1>3 DEF Commit
  <2> QED
    BY <1>1, <2>1, FS_AddElement
<1> QED
  BY <1>2, <1>3, OnlyCommitWrites

LEMMA HistoryStep ==
    TypeOK /\ IInv /\ HistoryInv /\ [Next]_vars =>
        /\ HistoryInv'
        /\ ledger \subseteq ledger'
        /\ receipts \subseteq receipts'
        /\ Cardinality(ledger') <= Cardinality(ledger) + 1
        /\ \A h \in Handlers : reply[h] # None => reply'[h] = reply[h]
BY AnswersRest, ReceiptsGrow, LedgerGrows DEF HistoryInv

\* For any threads and any number of restarts, rows and receipts are never taken
\* back, a step adds at most one row, and an answer given is never changed.
THEOREM HistoryOnlyGrows == Spec => HistoryIsAppendOnly
<1>1. Init => HistoryInv
  BY FS_EmptySet DEF Init, HistoryInv, AnsweredRest
<1>2. TypeOK /\ IInv /\ HistoryInv /\ [Next]_vars =>
        HistoryInv' /\ [/\ ledger \subseteq ledger'
                        /\ receipts \subseteq receipts'
                        /\ Cardinality(ledger') <= Cardinality(ledger) + 1
                        /\ \A h \in Handlers : reply[h] # None => reply'[h] = reply[h]]_vars
  BY HistoryStep
<1> QED
  BY <1>1, <1>2, Invariant, PTL DEF Spec, HistoryIsAppendOnly

=============================================================================
