------------------------- MODULE HostSinkDeliveryProofs -------------------------
(***************************************************************************)
(* Theorems about what the host sink delivers: the jobs of its queue, the  *)
(* rows its answers promise, the telemetry of its observer, and the        *)
(* abstract ledger it implements.                                          *)
(***************************************************************************)
EXTENDS HostSinkProofs

Queued(h) == \E i \in DOMAIN jobs : jobs[i] = h

\* A handler is queued once, after it asked for it, and the worker holds a job
\* exactly while it works.
QueueInv ==
    /\ JobsConserved
    /\ \A h \in Handlers :
          /\ pc[h] \in {"idle", "enqueue"} => h \notin done /\ serving # h /\ ~ Queued(h)
          /\ Queued(h) => h \notin done
    /\ pc[Worker] \in Active <=> serving # None

\* A thread serves the request that was posted, by the route of its path.
RequestInv ==
    /\ pc[Worker] \in Active => request[Worker] = request[serving]
    /\ \A h \in Handlers :
          /\ \/ pc[h] \in {"enqueue", "wait"} \/ Queued(h)
             \/ serving = h \/ box[h] # None
             => pc[h] # "idle" /\ request[h].path = "/v1/async-payments"
          /\ pc[h] \in Active =>
                request[h].path \in {"/v1/payments", "/internal/batch-commit"}

-----------------------------------------------------------------------------
(* The steps, by what they leave alone.                                    *)

\* A step that moves no request, row, job or answer.
Ticking == WorkerLoop \/ WorkerEmpty \/ ReaderStep \/ CloseServer \/ Close \/ UNCHANGED vars

\* A step of guarded or hidden before its first transaction.
Deciding(t) == CheckIdempotency(t) \/ Validate(t) \/ ReadUse(t) \/ WriteUse(t)

\* A step by which a thread leaves guarded or hidden.
Leaving(t) == BuildFails(t) \/ CommitConflict(t) \/ Refuse(t) \/ EmitReceipt(t)

\* The cases the proofs below go through.
LEMMA StepCases ==
    ASSUME [Next]_vars
    PROVE  \/ Ticking
           \/ \E h \in Handlers, q \in Requests : Post(h, q)
           \/ \E t \in Threads : Deciding(t) \/ Commit(t) \/ ObserveCommit(t) \/ Leaving(t)
           \/ \E h \in Handlers : Enqueue(h) \/ JobDone(h) \/ WorkerTimeout(h)
           \/ WorkerGet
           \/ Restart
  BY DEF Next, HandlerStep, WorkerStep, GuardStep, Threads, Ticking, Deciding, Leaving

\* The worker is no handler, and both are threads.
LEMMA WorkerApart ==
    /\ Worker \in Threads
    /\ \A h \in Handlers : h \in Threads /\ h # Worker /\ h # None
  BY HostSinkAssumption DEF Threads

LEMMA TickingFrame ==
    ASSUME TypeOK, Ticking
    PROVE  /\ UNCHANGED <<request, reply, dbVars, jobs, serving, done, box, restarts>>
           /\ \A h \in Handlers : pc'[h] = pc[h]
           /\ pc'[Worker] = pc[Worker] \/
              (pc[Worker] \in {"loop", "poll"} /\ pc'[Worker] \in {"loop", "poll", "exited"})
<1> USE DEF TypeOK, ThreadTypes
<1>1. CASE WorkerLoop \/ WorkerEmpty
  BY <1>1, WorkerApart DEF WorkerLoop, WorkerEmpty, Goto, dbVars, queueVars
<1>2. CASE ReaderStep
  BY <1>2 DEF ReaderStep, ReadObservedPaths, ReadUseCounts, ReadCommits, ReadReceipts,
     ReadTokensAndAdjudicate, dbVars, queueVars
<1>3. CASE CloseServer \/ Close
  BY <1>3 DEF CloseServer, Close, dbVars, queueVars
<1>4. CASE UNCHANGED vars
  BY <1>4 DEF vars, dbVars, queueVars
<1> QED
  BY <1>1, <1>2, <1>3, <1>4 DEF Ticking

LEMMA DecidingFrame ==
    ASSUME TypeOK, NEW t \in Threads, Deciding(t)
    PROVE  /\ UNCHANGED <<request, reply, dbVars, queueVars, restarts>>
           /\ pc[t] \in {"check", "validate", "use_read", "use_write"}
           /\ \E label \in {"refuse_replay", "refuse_binding", "use_read", "use_write",
                            "validate", "commit"} : pc' = [pc EXCEPT ![t] = label]
<1>1. CASE CheckIdempotency(t)
  BY <1>1 DEF CheckIdempotency, Goto
<1>2. CASE Validate(t)
  BY <1>2 DEF Validate, Goto
<1>3. CASE ReadUse(t) \/ WriteUse(t)
  BY <1>3 DEF ReadUse, WriteUse, Goto
<1> QED
  BY <1>1, <1>2, <1>3 DEF Deciding

\* A handler that leaves ends; the worker that leaves sets the event of its job.
LEMMA LeavingFrame ==
    ASSUME TypeOK, WorkInProgress, NEW t \in Threads, Leaving(t)
    PROVE  /\ UNCHANGED <<request, ledger, jobs, restarts>>
           /\ pc[t] \in Active
           /\ \E label \in Labels : pc' = [pc EXCEPT ![t] = label]
           /\ \A h \in Handlers \ {serving} : box'[h] = box[h]
           /\ t # Worker => /\ UNCHANGED <<serving, done, box>>
                            /\ pc'[t] \in {"answered", "raised"}
           /\ t = Worker => /\ serving' = None
                            /\ done' = done \cup {serving}
                            /\ UNCHANGED reply
                            /\ pc'[t] \in {"loop", "dead"}
<1> USE DEF TypeOK, ThreadTypes, QueueTypes
<1>1. CASE BuildFails(t) \/ CommitConflict(t)
  BY <1>1 DEF BuildFails, CommitConflict, Raise, Goto, Active, Labels, dbVars, queueVars
<1>2. CASE Refuse(t) \/ EmitReceipt(t)
  BY <1>2 DEF Refuse, EmitReceipt, Return, Goto, Active, Labels, queueVars
<1> QED
  BY <1>1, <1>2 DEF Leaving

\* A step that stays in guarded or hidden moves one thread and no job.
LEMMA WorkingFrame ==
    ASSUME TypeOK, NEW t \in Threads, Deciding(t) \/ Commit(t) \/ ObserveCommit(t)
    PROVE  /\ UNCHANGED <<request, reply, receipts, queueVars, restarts>>
           /\ pc[t] \in Active
           /\ \E label \in Active : pc' = [pc EXCEPT ![t] = label]
<1>1. CASE Deciding(t)
  BY <1>1, DecidingFrame DEF Active, dbVars
<1>2. CASE Commit(t) \/ ObserveCommit(t)
  BY <1>2 DEF Commit, ObserveCommit, Goto, Active
<1> QED
  BY <1>1, <1>2

-----------------------------------------------------------------------------
(* Jobs                                                                    *)

\* What QueueInv says of one handler.
JobOf(h) ==
    /\ pc[h] = "wait" /\ h \notin done => serving = h \/ Queued(h)
    /\ \A i, j \in DOMAIN jobs : jobs[i] = h /\ jobs[j] = h => i = j
    /\ serving = h => h \notin done /\ ~ Queued(h)
    /\ pc[h] \in {"idle", "enqueue"} => h \notin done /\ serving # h /\ ~ Queued(h)
    /\ Queued(h) => h \notin done

LEMMA QueueByHandler ==
    QueueInv <=> /\ \A h \in Handlers : JobOf(h)
                 /\ pc[Worker] \in Active <=> serving # None
  BY DEF QueueInv, JobsConserved, JobOf, Queued

\* put: the queue has one job more, at its end.
LEMMA JobAppended ==
    ASSUME TypeOK, NEW g \in Handlers, jobs' = Append(jobs, g)
    PROVE  /\ DOMAIN jobs = 1..Len(jobs) /\ DOMAIN jobs' = 1..(Len(jobs) + 1)
           /\ Len(jobs) \in Nat
           /\ \A i \in DOMAIN jobs : jobs'[i] = jobs[i]
           /\ jobs'[Len(jobs) + 1] = g
           /\ \A h \in Handlers : Queued(h)' <=> Queued(h) \/ h = g
<1>1. /\ DOMAIN jobs = 1..Len(jobs) /\ DOMAIN jobs' = 1..(Len(jobs) + 1)
      /\ Len(jobs) \in Nat
      /\ \A i \in DOMAIN jobs : jobs'[i] = jobs[i]
      /\ jobs'[Len(jobs) + 1] = g
  BY AppendProperties, LenProperties DEF TypeOK, QueueTypes
<1> QED
  BY <1>1 DEF Queued

\* get: the first job is gone, the others move up.
LEMMA JobTaken ==
    ASSUME TypeOK, jobs # <<>>, jobs' = Tail(jobs)
    PROVE  /\ DOMAIN jobs = 1..Len(jobs) /\ DOMAIN jobs' = 1..(Len(jobs) - 1)
           /\ Len(jobs) \in Nat \ {0}
           /\ \A i \in DOMAIN jobs' : i + 1 \in DOMAIN jobs /\ jobs'[i] = jobs[i + 1]
           /\ Head(jobs) = jobs[1] /\ Head(jobs) \in Handlers
           /\ Queued(Head(jobs))
           /\ \A h \in Handlers : Queued(h)' => Queued(h)
<1>1. /\ DOMAIN jobs = 1..Len(jobs) /\ DOMAIN jobs' = 1..(Len(jobs) - 1)
      /\ Len(jobs) \in Nat \ {0}
      /\ \A i \in DOMAIN jobs' : jobs'[i] = jobs[i + 1]
      /\ Head(jobs) = jobs[1] /\ Head(jobs) \in Handlers
  BY HeadTailProperties, LenProperties, EmptySeq DEF TypeOK, QueueTypes
<1>2. \A i \in DOMAIN jobs' : i + 1 \in DOMAIN jobs
  BY <1>1
<1>3. 1 \in DOMAIN jobs
  BY <1>1
<1> QED
  BY <1>1, <1>2, <1>3 DEF Queued

\* The queue keeps its jobs when one is appended or taken from the front.
LEMMA QueueStep ==
    ASSUME TypeOK, WorkInProgress, QueueInv, [Next]_vars
    PROVE  QueueInv'
<1> USE DEF TypeOK, ThreadTypes, QueueTypes
<1>0. /\ \A h \in Handlers : JobOf(h)
      /\ pc[Worker] \in Active <=> serving # None
  BY QueueByHandler
<1> SUFFICES /\ \A h \in Handlers : JobOf(h)'
             /\ (pc[Worker] \in Active <=> serving # None)'
  BY DEF QueueInv, JobsConserved, JobOf, Queued
<1> DEFINE Steady == /\ UNCHANGED <<jobs, serving, done>>
                     /\ \A h \in Handlers :
                           /\ pc'[h] = "wait" => pc[h] = "wait"
                           /\ pc'[h] \in {"idle", "enqueue"} => pc[h] \in {"idle", "enqueue"}
                     /\ pc'[Worker] \in Active <=> pc[Worker] \in Active
<1>s. CASE Steady
  BY <1>0, <1>s DEF JobOf, Queued
<1>1. CASE Ticking
  <2>1. Steady
    BY <1>1, TickingFrame DEF Active
  <2> QED
    BY <1>s, <2>1
<1>2. ASSUME NEW g \in Handlers, NEW q \in Requests, Post(g, q)
      PROVE  Steady
  <2>1. /\ UNCHANGED queueVars
        /\ pc[g] = "idle"
        /\ \E label \in {"answered", "enqueue", "check"} : pc' = [pc EXCEPT ![g] = label]
    BY <1>2 DEF Post, Goto
  <2> QED
    BY <2>1, WorkerApart DEF queueVars
<1>3. ASSUME NEW t \in Threads, Deciding(t) \/ Commit(t) \/ ObserveCommit(t)
      PROVE  Steady
  <2>1. PICK label \in Active : pc' = [pc EXCEPT ![t] = label]
    BY <1>3, WorkingFrame
  <2> QED
    BY <1>3, <2>1, WorkingFrame, WorkerApart DEF queueVars, Active
<1>4. ASSUME NEW t \in Threads, Leaving(t)
      PROVE  /\ \A h \in Handlers : JobOf(h)'
             /\ (pc[Worker] \in Active <=> serving # None)'
  <2>1. CASE t # Worker
    <3>1. /\ UNCHANGED <<jobs, serving, done>>
          /\ pc'[t] \in {"answered", "raised"}
          /\ \A s \in Threads \ {t} : pc'[s] = pc[s]
      BY <1>4, <2>1, LeavingFrame
    <3>2. Steady
      BY <2>1, <3>1, WorkerApart
    <3> QED
      BY <1>s, <3>2
  <2>2. CASE t = Worker
    <3>1. /\ serving' = None /\ done' = done \cup {serving} /\ jobs' = jobs
          /\ \A h \in Handlers : pc'[h] = pc[h]
          /\ pc'[Worker] \notin Active
          /\ serving \in Handlers
      BY <1>4, <2>2, LeavingFrame, WorkerApart DEF WorkInProgress, Active
    <3> QED
      BY <1>0, <3>1, WorkerApart DEF JobOf, Queued
  <2> QED
    BY <2>1, <2>2
<1>5. ASSUME NEW g \in Handlers, Enqueue(g)
      PROVE  /\ \A h \in Handlers : JobOf(h)'
             /\ (pc[Worker] \in Active <=> serving # None)'
  <2>1. /\ jobs' = Append(jobs, g) /\ serving' = serving /\ done' = done
        /\ pc[g] = "enqueue" /\ pc' = [pc EXCEPT ![g] = "wait"]
    BY <1>5 DEF Enqueue, Goto
  <2>2. /\ DOMAIN jobs = 1..Len(jobs) /\ DOMAIN jobs' = 1..(Len(jobs) + 1)
        /\ Len(jobs) \in Nat
        /\ \A i \in DOMAIN jobs : jobs'[i] = jobs[i]
        /\ jobs'[Len(jobs) + 1] = g
        /\ \A h \in Handlers : Queued(h)' <=> Queued(h) \/ h = g
    BY <2>1, JobAppended
  <2>4. \A h \in Handlers : \A i, j \in DOMAIN jobs' : jobs'[i] = h /\ jobs'[j] = h => i = j
    BY <1>0, <2>1, <2>2 DEF JobOf, Queued
  <2> QED
    BY <1>0, <2>1, <2>2, <2>4, WorkerApart DEF JobOf
<1>6. ASSUME NEW g \in Handlers, JobDone(g) \/ WorkerTimeout(g)
      PROVE  Steady
  <2>1. /\ UNCHANGED queueVars
        /\ \E label \in {"answered", "raised"} : pc' = [pc EXCEPT ![g] = label]
    BY <1>6 DEF JobDone, WorkerTimeout, Goto
  <2> QED
    BY <2>1, WorkerApart DEF queueVars
<1>7. CASE WorkerGet
  <2>1. /\ jobs' = Tail(jobs) /\ serving' = Head(jobs) /\ done' = done /\ jobs # <<>>
        /\ pc[Worker] = "poll" /\ pc' = [pc EXCEPT ![Worker] = "check"]
    BY <1>7 DEF WorkerGet, Goto
  <2>2. /\ DOMAIN jobs = 1..Len(jobs) /\ DOMAIN jobs' = 1..(Len(jobs) - 1)
        /\ Len(jobs) \in Nat \ {0}
        /\ \A i \in DOMAIN jobs' : i + 1 \in DOMAIN jobs /\ jobs'[i] = jobs[i + 1]
        /\ Head(jobs) = jobs[1] /\ Head(jobs) \in Handlers
        /\ Queued(Head(jobs))
    BY <2>1, JobTaken
  <2>3. \A h \in Handlers : Queued(h)' => Queued(h)
    BY <2>1, JobTaken
  <2>4. \A h \in Handlers : Queued(h) => Queued(h)' \/ h = Head(jobs)
    <3> SUFFICES ASSUME NEW h \in Handlers, NEW i \in 1..Len(jobs), jobs[i] = h, i # 1
                 PROVE  \E j \in 1..(Len(jobs) - 1) : jobs'[j] = h
      BY <2>2 DEF Queued
    <3>1. i - 1 \in 1..(Len(jobs) - 1) /\ (i - 1) + 1 = i
      BY <2>2
    <3> QED
      BY <2>2, <3>1
  <2>5. ~ (\E i \in DOMAIN jobs' : jobs'[i] = Head(jobs)) /\ Queued(Head(jobs))
    <3>1. 1 \in DOMAIN jobs /\ Queued(Head(jobs))
      BY <2>2 DEF Queued
    <3>2. ASSUME NEW i \in DOMAIN jobs', jobs'[i] = Head(jobs) PROVE FALSE
      <4>1. i + 1 \in DOMAIN jobs /\ jobs[i + 1] = jobs[1] /\ i + 1 # 1
        BY <2>2, <3>2
      <4> QED
        BY <1>0, <2>2, <3>1, <4>1 DEF JobOf
    <3> QED
      BY <3>1, <3>2
  <2>6. \A h \in Handlers : \A i, j \in DOMAIN jobs' : jobs'[i] = h /\ jobs'[j] = h => i = j
    <3> SUFFICES ASSUME NEW h \in Handlers, NEW i \in DOMAIN jobs', NEW j \in DOMAIN jobs',
                        jobs'[i] = h, jobs'[j] = h
                 PROVE  i = j
      OBVIOUS
    <3>1. i + 1 \in DOMAIN jobs /\ j + 1 \in DOMAIN jobs /\ jobs[i + 1] = h /\ jobs[j + 1] = h
      BY <2>2
    <3>2. i + 1 = j + 1
      BY <1>0, <3>1 DEF JobOf
    <3> QED
      BY <2>2, <3>2
  <2>7. serving = None /\ Head(jobs) # None
    BY <1>0, <2>1, <2>2, WorkerApart DEF Active
  <2>8. Head(jobs) \notin done
    BY <1>0, <2>2, <2>5 DEF JobOf
  <2> QED
    <3>1. ASSUME NEW h \in Handlers PROVE JobOf(h)'
      <4>1. CASE h = Head(jobs)
        BY <2>1, <2>5, <2>6, <2>7, <2>8, <4>1, <1>0, WorkerApart DEF JobOf, Queued
      <4>2. CASE h # Head(jobs)
        <5>1. Queued(h)' <=> Queued(h)
          BY <2>3, <2>4, <4>2
        <5>2. pc'[h] = pc[h]
          BY <2>1, WorkerApart
        <5> QED
          BY <1>0, <2>1, <2>6, <2>7, <4>2, <5>1, <5>2, WorkerApart DEF JobOf
      <4> QED
        BY <4>1, <4>2
    <3>2. pc'[Worker] \in Active /\ serving' # None
      BY <2>1, <2>7, WorkerApart DEF Active
    <3> QED
      BY <3>1, <3>2
<1>8. CASE Restart
  <2>1. /\ jobs' = <<>> /\ serving' = None /\ done' = {} /\ DOMAIN jobs' = {}
        /\ pc'[Worker] = "loop"
        /\ \A h \in Handlers : pc'[h] \in {"idle", "answered", "raised", "lost"}
    BY <1>8, WorkerApart DEF Restart
  <2> QED
    BY <2>1, WorkerApart DEF JobOf, Queued, Active
<1> QED
  BY <1>s, <1>1, <1>2, <1>3, <1>4, <1>5, <1>6, <1>7, <1>8, StepCases

-----------------------------------------------------------------------------
(* Requests                                                                *)

\* A handler that has or awaits a job, or whose job is done.
Asked(h) == pc[h] \in {"enqueue", "wait"} \/ Queued(h) \/ serving = h \/ box[h] # None

\* What RequestInv says of one handler.
RequestOf(h) ==
    /\ Asked(h) => pc[h] # "idle" /\ request[h].path = "/v1/async-payments"
    /\ pc[h] \in Active => request[h].path \in {"/v1/payments", "/internal/batch-commit"}

\* Only an idle handler takes a request, so that the one the worker was given
\* with a job is the one its handler still has.
LEMMA RequestStep ==
    ASSUME TypeOK, WorkInProgress, RequestInv, [Next]_vars
    PROVE  RequestInv'
<1> USE DEF TypeOK, ThreadTypes, QueueTypes
<1> DEFINE OfWorker == pc[Worker] \in Active => request[Worker] = request[serving]
<1>0. /\ \A h \in Handlers : RequestOf(h)
      /\ OfWorker
      /\ pc[Worker] \in Active => serving \in Handlers
  BY DEF RequestInv, RequestOf, Asked, WorkInProgress
<1> SUFFICES (\A h \in Handlers : RequestOf(h)') /\ OfWorker'
  BY DEF RequestInv, RequestOf, Asked, Queued
<1> DEFINE Steady == /\ UNCHANGED request
                     /\ \A h \in Handlers : /\ Asked(h)' => Asked(h)
                                            /\ pc'[h] = "idle" => pc[h] = "idle"
                                            /\ pc'[h] \in Active => pc[h] \in Active
                     /\ pc'[Worker] \in Active => pc[Worker] \in Active /\ serving' = serving
<1>s. CASE Steady
  BY <1>0, <1>s DEF RequestOf
<1> HIDE DEF OfWorker
<1>1. CASE Ticking
  <2>1. Steady
    BY <1>1, TickingFrame DEF Active, Asked, Queued
  <2> QED
    BY <1>s, <2>1
<1>2. ASSUME NEW g \in Handlers, NEW q \in Requests, Post(g, q)
      PROVE  (\A h \in Handlers : RequestOf(h)') /\ OfWorker'
  <2>1. /\ UNCHANGED queueVars /\ pc[g] = "idle"
        /\ request' = [request EXCEPT ![g] = q]
        /\ pc' = [pc EXCEPT ![g] = IF q.path = "other" THEN "answered"
                                   ELSE IF q.path = "/v1/async-payments" THEN "enqueue"
                                   ELSE "check"]
    BY <1>2 DEF Post, Goto
  <2>2. ~ Asked(g)
    BY <1>0, <2>1 DEF RequestOf
  <2>3. /\ request'[g] = q /\ q.path \in Paths
        /\ \A t \in Threads \ {g} : request'[t] = request[t] /\ pc'[t] = pc[t]
    BY <2>1, HostSinkAssumption, WorkerApart
  <2>4. RequestOf(g)'
    BY <2>1, <2>2, <2>3, WorkerApart DEF RequestOf, Asked, Queued, queueVars, Paths, Active
  <2>5. ASSUME NEW h \in Handlers, h # g PROVE RequestOf(h)'
    BY <1>0, <2>1, <2>3, <2>5, WorkerApart DEF RequestOf, Asked, Queued, queueVars
  <2>6. OfWorker'
    <3>1. serving # g
      BY <2>2 DEF Asked
    <3> QED
      BY <1>0, <2>1, <2>3, <3>1, WorkerApart DEF OfWorker, queueVars
  <2> QED
    BY <2>4, <2>5, <2>6
<1>3. ASSUME NEW t \in Threads, Deciding(t) \/ Commit(t) \/ ObserveCommit(t)
      PROVE  Steady
  <2>1. PICK label \in Active : pc' = [pc EXCEPT ![t] = label]
    BY <1>3, WorkingFrame
  <2>2. UNCHANGED <<request, queueVars>> /\ pc[t] \in Active
    BY <1>3, WorkingFrame
  <2> QED
    BY <2>1, <2>2, WorkerApart DEF queueVars, Active, Asked, Queued
<1>4. ASSUME NEW t \in Threads, Leaving(t)
      PROVE  Steady
  <2>1. /\ UNCHANGED <<request, jobs>>
        /\ \A h \in Handlers \ {serving} : box'[h] = box[h]
        /\ \A s \in Threads \ {t} : pc'[s] = pc[s]
    BY <1>4, LeavingFrame
  <2>2. CASE t # Worker
    <3>1. pc'[t] \in {"answered", "raised"} /\ UNCHANGED <<serving, box>>
      BY <1>4, <2>2, LeavingFrame
    <3> QED
      BY <2>1, <2>2, <3>1, WorkerApart DEF Asked, Queued, Active
  <2>3. CASE t = Worker
    <3>1. pc'[t] \in {"loop", "dead"} /\ serving' = None
      BY <1>4, <2>3, LeavingFrame
    <3>2. \A h \in Handlers : Asked(h)' => Asked(h)
      BY <2>1, <2>3, <3>1, WorkerApart DEF Asked, Queued
    <3> QED
      BY <2>1, <2>3, <3>1, <3>2, WorkerApart DEF Active
  <2> QED
    BY <2>2, <2>3
<1>5. ASSUME NEW g \in Handlers, Enqueue(g)
      PROVE  Steady
  <2>1. /\ jobs' = Append(jobs, g) /\ UNCHANGED <<request, serving, box>>
        /\ pc[g] = "enqueue" /\ pc' = [pc EXCEPT ![g] = "wait"]
    BY <1>5 DEF Enqueue, Goto
  <2>2. \A h \in Handlers : Queued(h)' <=> Queued(h) \/ h = g
    BY <2>1, JobAppended
  <2> QED
    BY <2>1, <2>2, WorkerApart DEF Asked, Active
<1>6. ASSUME NEW g \in Handlers, JobDone(g) \/ WorkerTimeout(g)
      PROVE  Steady
  <2>1. /\ UNCHANGED <<request, queueVars>> /\ pc[g] = "wait"
        /\ \E label \in {"answered", "raised"} : pc' = [pc EXCEPT ![g] = label]
    BY <1>6 DEF JobDone, WorkerTimeout, Goto
  <2> QED
    BY <2>1, WorkerApart DEF queueVars, Asked, Queued, Active
<1>7. CASE WorkerGet
  <2>1. /\ jobs' = Tail(jobs) /\ serving' = Head(jobs) /\ jobs # <<>> /\ box' = box
        /\ request' = [request EXCEPT ![Worker] = request[Head(jobs)]]
        /\ pc' = [pc EXCEPT ![Worker] = "check"]
    BY <1>7 DEF WorkerGet, Goto
  <2>2. /\ Head(jobs) \in Handlers /\ Queued(Head(jobs))
        /\ \A h \in Handlers : Queued(h)' => Queued(h)
    BY <2>1, JobTaken
  <2>3. \A h \in Handlers : Asked(h)' => Asked(h)
    BY <2>1, <2>2, WorkerApart DEF Asked
  <2>4. \A h \in Handlers : pc'[h] = pc[h] /\ request'[h] = request[h]
    BY <2>1, WorkerApart
  <2>5. request'[Worker] = request'[serving']
    BY <2>1, <2>2, <2>4, WorkerApart
  <2> QED
    BY <1>0, <2>3, <2>4, <2>5 DEF RequestOf, OfWorker
<1>8. CASE Restart
  <2>1. /\ \A h \in Handlers : ~ Asked(h)' /\ pc'[h] \notin Active
        /\ pc'[Worker] \notin Active
    BY <1>8, WorkerApart DEF Restart, Asked, Queued, Active
  <2> QED
    BY <2>1 DEF RequestOf, OfWorker
<1> QED
  BY <1>s, <1>1, <1>2, <1>3, <1>4, <1>5, <1>6, <1>7, <1>8, StepCases

-----------------------------------------------------------------------------
(* Answers                                                                 *)

\* A thread that committed carries a row, and its arrival once it is observed.
CommittedInFlight ==
    \A t \in Threads :
        /\ pc[t] \in {"observe", "receipt"} => EventOf(t) \in ledger
        /\ pc[t] = "receipt" => observed[RouteOf(t, request[t])].commits > 0

\* The row, the arrival and the receipt a handler's client may be told of.
Durable(h) ==
    LET route == RouteOfRequest(request[h])
        e == Event(request[h].payload, route)
    IN  /\ e \in ledger
        /\ observed[route].commits > 0
        /\ request[h].emit_receipt => Receipt(e) \in receipts

\* The worker leaves a positive decision only for what is durable.
BoxesAreDurable ==
    \A h \in Handlers : box[h] \in {"ADMITTED", "COMMITTED"} => Durable(h)

DurableInv == CommittedInFlight /\ BoxesAreDurable /\ AnsweredMeansDurable

\* A handler keeps its request from the moment it took it.
LEMMA RequestKept ==
    ASSUME TypeOK, [Next]_vars, NEW h \in Handlers, pc[h] # "idle"
    PROVE  request'[h] = request[h]
<1> USE DEF TypeOK, ThreadTypes
<1>1. CASE Ticking
  BY <1>1, TickingFrame
<1>2. ASSUME NEW g \in Handlers, NEW q \in Requests, Post(g, q)
      PROVE  request'[h] = request[h]
  BY <1>2, WorkerApart DEF Post
<1>3. ASSUME NEW t \in Threads, Deciding(t) \/ Commit(t) \/ ObserveCommit(t)
      PROVE  request'[h] = request[h]
  BY <1>3, WorkingFrame
<1>4. ASSUME NEW t \in Threads, Leaving(t)
      PROVE  request'[h] = request[h]
  BY <1>4 DEF Leaving, BuildFails, CommitConflict, Refuse, EmitReceipt
<1>5. ASSUME NEW g \in Handlers, Enqueue(g) \/ JobDone(g) \/ WorkerTimeout(g)
      PROVE  request'[h] = request[h]
  BY <1>5 DEF Enqueue, JobDone, WorkerTimeout
<1>6. CASE WorkerGet \/ Restart
  BY <1>6, WorkerApart DEF WorkerGet, Restart
<1> QED
  BY <1>1, <1>2, <1>3, <1>4, <1>5, <1>6, StepCases

\* How a thread comes to observe a commit or to emit its receipt.
LEMMA CarrierFrame ==
    ASSUME TypeOK, [Next]_vars, NEW t \in Threads, pc'[t] \in {"observe", "receipt"}
    PROVE  \/ pc'[t] = pc[t] /\ request'[t] = request[t]
           \/ Commit(t) /\ pc'[t] = "observe" /\ request'[t] = request[t]
           \/ ObserveCommit(t) /\ pc'[t] = "receipt" /\ request'[t] = request[t]
<1> USE DEF TypeOK, ThreadTypes
<1> DEFINE Kept == pc'[t] = pc[t] /\ request'[t] = request[t]
<1>1. CASE Ticking
  BY <1>1, TickingFrame DEF Threads
<1>2. ASSUME NEW g \in Handlers, NEW q \in Requests, Post(g, q)
      PROVE  Kept
  BY <1>2, WorkerApart DEF Post, Goto
<1>3. ASSUME NEW s \in Threads, Deciding(s)
      PROVE  Kept
  BY <1>3, DecidingFrame
<1>4. ASSUME NEW s \in Threads, Commit(s) \/ ObserveCommit(s)
      PROVE  \/ Kept
             \/ Commit(t) /\ pc'[t] = "observe" /\ request'[t] = request[t]
             \/ ObserveCommit(t) /\ pc'[t] = "receipt" /\ request'[t] = request[t]
  BY <1>4 DEF Commit, ObserveCommit, Goto
<1>5. ASSUME NEW s \in Threads, Leaving(s)
      PROVE  Kept
  BY <1>5 DEF Leaving, BuildFails, CommitConflict, Refuse, EmitReceipt, Raise, Return, Goto
<1>6. ASSUME NEW g \in Handlers, Enqueue(g) \/ JobDone(g) \/ WorkerTimeout(g)
      PROVE  Kept
  BY <1>6, WorkerApart DEF Enqueue, JobDone, WorkerTimeout, Goto
<1>7. CASE WorkerGet
  BY <1>7, WorkerApart DEF WorkerGet, Goto
<1>8. CASE Restart
  BY <1>8 DEF Restart
<1> QED
  BY <1>1, <1>2, <1>3, <1>4, <1>5, <1>6, <1>7, <1>8, StepCases

\* Who gives an answer.
LEMMA AnswerFrame ==
    ASSUME TypeOK, [Next]_vars, NEW h \in Handlers, reply'[h] # reply[h]
    PROVE  \/ EmitReceipt(h) \/ JobDone(h)
           \/ reply'[h] \in {"NOT_FOUND", "REFUSED_REPLAY", "REFUSED_BINDING", "WORKER_TIMEOUT"}
<1> USE DEF TypeOK, ThreadTypes
<1>1. ~ Ticking
  BY TickingFrame
<1>2. ASSUME NEW g \in Handlers, NEW q \in Requests, Post(g, q)
      PROVE  reply'[h] = "NOT_FOUND"
  BY <1>2 DEF Post
<1>3. ASSUME NEW t \in Threads
      PROVE  ~ (Deciding(t) \/ Commit(t) \/ ObserveCommit(t))
  BY <1>3, WorkingFrame
<1>4. ASSUME NEW t \in Threads, Leaving(t)
      PROVE  EmitReceipt(h) \/ reply'[h] \in {"REFUSED_REPLAY", "REFUSED_BINDING"}
  <2>1. ~ BuildFails(t) /\ ~ CommitConflict(t)
    BY DEF BuildFails, CommitConflict
  <2>2. t = h
    BY <1>4, <2>1 DEF Leaving, Refuse, EmitReceipt, Return
  <2> QED
    BY <1>4, <2>1, <2>2, WorkerApart DEF Leaving, Refuse, Return
<1>5. ASSUME NEW g \in Handlers, Enqueue(g) \/ JobDone(g) \/ WorkerTimeout(g)
      PROVE  JobDone(h) \/ reply'[h] = "WORKER_TIMEOUT"
  BY <1>5 DEF Enqueue, JobDone, WorkerTimeout
<1>6. ~ WorkerGet /\ ~ Restart
  BY DEF WorkerGet, Restart
<1> QED
  BY <1>1, <1>2, <1>3, <1>4, <1>5, <1>6, StepCases

\* Who leaves a decision in a box.
LEMMA BoxFrame ==
    ASSUME TypeOK, WorkInProgress, [Next]_vars, NEW h \in Handlers, box'[h] # box[h]
    PROVE  \/ box'[h] \in {None, "REFUSED_REPLAY", "REFUSED_BINDING"}
           \/ EmitReceipt(Worker) /\ serving = h /\ box'[h] = "ADMITTED"
<1> USE DEF TypeOK, QueueTypes
<1>1. ~ Ticking
  BY TickingFrame
<1>2. ASSUME NEW g \in Handlers, NEW q \in Requests PROVE ~ Post(g, q)
  BY <1>2 DEF Post, queueVars
<1>3. ASSUME NEW t \in Threads
      PROVE  ~ (Deciding(t) \/ Commit(t) \/ ObserveCommit(t))
  BY <1>3, WorkingFrame DEF queueVars
<1>4. ASSUME NEW t \in Threads, Leaving(t)
      PROVE  \/ box'[h] \in {"REFUSED_REPLAY", "REFUSED_BINDING"}
             \/ EmitReceipt(Worker) /\ serving = h /\ box'[h] = "ADMITTED"
  <2>1. t = Worker /\ serving = h
    BY <1>4, LeavingFrame
  <2>2. ~ BuildFails(t) /\ ~ CommitConflict(t)
    BY DEF BuildFails, CommitConflict, Raise, queueVars
  <2>3. RouteOf(Worker, request[Worker]) # RouteHiddenBatch
    BY DEF RouteOf, RouteQueueWorker, RouteHiddenBatch
  <2> QED
    BY <1>4, <2>1, <2>2, <2>3 DEF Leaving, Refuse, EmitReceipt, Return
<1>5. ASSUME NEW g \in Handlers PROVE ~ (Enqueue(g) \/ JobDone(g) \/ WorkerTimeout(g))
  BY <1>5 DEF Enqueue, JobDone, WorkerTimeout, queueVars
<1>6. ~ WorkerGet
  BY DEF WorkerGet
<1>7. CASE Restart
  BY <1>7 DEF Restart
<1> QED
  BY <1>1, <1>2, <1>3, <1>4, <1>5, <1>6, <1>7, StepCases


\* Only a refusal and a commit are arrivals.
LEMMA ObservedFrame ==
    ASSUME TypeOK, [Next]_vars
    PROVE  observed' = observed \/ \E t \in Threads : Refuse(t) \/ ObserveCommit(t)
<1>1. CASE Ticking
  BY <1>1, TickingFrame DEF dbVars
<1>2. ASSUME NEW g \in Handlers, NEW q \in Requests, Post(g, q)
      PROVE  observed' = observed
  BY <1>2 DEF Post, dbVars
<1>3. ASSUME NEW t \in Threads, Deciding(t) \/ Commit(t)
      PROVE  observed' = observed
  BY <1>3, DecidingFrame DEF Commit, dbVars
<1>4. ASSUME NEW t \in Threads, Leaving(t)
      PROVE  observed' = observed \/ Refuse(t)
  BY <1>4 DEF Leaving, BuildFails, CommitConflict, EmitReceipt, dbVars
<1>5. ASSUME NEW g \in Handlers, Enqueue(g) \/ JobDone(g) \/ WorkerTimeout(g)
      PROVE  observed' = observed
  BY <1>5 DEF Enqueue, JobDone, WorkerTimeout, dbVars
<1>6. CASE WorkerGet \/ Restart
  BY <1>6 DEF WorkerGet, Restart, dbVars
<1> QED
  BY <1>1, <1>2, <1>3, <1>4, <1>5, <1>6, StepCases

\* No route loses a commit it was seen to make.
LEMMA CommitsGrow ==
    ASSUME TypeOK, WorkInProgress, [Next]_vars, NEW r \in Routes
    PROVE  observed'[r].commits >= observed[r].commits
<1> USE DEF TypeOK, StoreTypes
<1>1. observed[r].commits \in Nat
  OBVIOUS
<1>2. CASE observed' = observed
  BY <1>1, <1>2
<1>3. ASSUME NEW t \in Threads, Refuse(t) \/ ObserveCommit(t)
      PROVE  observed'[r].commits >= observed[r].commits
  <2>1. Arrival(RouteOf(t, request[t]), TRUE) \/ Arrival(RouteOf(t, request[t]), FALSE)
    BY <1>3 DEF Refuse, ObserveCommit
  <2> QED
    BY <1>1, <2>1 DEF Arrival
<1> QED
  BY <1>2, <1>3, ObservedFrame

\* What is durable stays so.
LEMMA DurableKept ==
    ASSUME TypeOK, WorkInProgress, [Next]_vars, NEW h \in Handlers, pc[h] # "idle", Durable(h)
    PROVE  Durable(h)'
<1>1. request'[h] = request[h]
  BY RequestKept
<1>2. ledger \subseteq ledger' /\ receipts \subseteq receipts'
  BY OnlyCommitWrites, ReceiptsGrow DEF Commit
<1>3. RouteOfRequest(request[h]) \in Routes
  BY DEF RouteOfRequest, Routes
<1>4. /\ observed[RouteOfRequest(request[h])].commits \in Nat
      /\ observed'[RouteOfRequest(request[h])].commits \in Nat
  <2>1. CASE observed' = observed
    BY <1>3, <2>1 DEF TypeOK, StoreTypes
  <2>2. ASSUME NEW t \in Threads, Refuse(t) \/ ObserveCommit(t)
        PROVE  observed' \in [Routes -> [arrivals : Nat, commits : Nat]]
    <3>1. \E committed \in BOOLEAN : Arrival(RouteOf(t, request[t]), committed)
      BY <2>2 DEF Refuse, ObserveCommit
    <3>2. RouteOf(t, request[t]) \in Routes
      BY DEF RouteOf, Routes
    <3> QED
      BY <3>1, <3>2, ArrivalTyped DEF TypeOK, StoreTypes
  <2> QED
    BY <1>3, <2>1, <2>2, ObservedFrame DEF TypeOK, StoreTypes
<1>5. observed'[RouteOfRequest(request[h])].commits > 0
  BY <1>3, <1>4, CommitsGrow DEF Durable
<1> QED
  BY <1>1, <1>2, <1>5 DEF Durable

\* After its receipt a thread's row, arrival and receipt are there.
LEMMA EmittedIsThere ==
    ASSUME CommittedInFlight, NEW t \in Threads, EmitReceipt(t)
    PROVE  /\ request' = request
           /\ EventOf(t) \in ledger'
           /\ observed'[RouteOf(t, request[t])].commits > 0
           /\ request[t].emit_receipt => Receipt(EventOf(t)) \in receipts'
  BY DEF CommittedInFlight, EmitReceipt

LEMMA CarrierStep ==
    ASSUME TypeOK, IInv, CommittedInFlight, [Next]_vars
    PROVE  CommittedInFlight'
<1> SUFFICES ASSUME NEW t \in Threads, pc'[t] \in {"observe", "receipt"}
             PROVE  /\ EventOf(t)' \in ledger'
                    /\ pc'[t] = "receipt" => observed'[RouteOf(t, request'[t])].commits > 0
  BY DEF CommittedInFlight, RouteOf
<1> USE DEF TypeOK, ThreadTypes, StoreTypes
<1>1. ledger \subseteq ledger'
  BY OnlyCommitWrites DEF Commit
<1>2. RouteOf(t, request[t]) \in Routes
  BY DEF RouteOf, Routes
<1>3. WorkInProgress
  BY DEF IInv
<1>4. TypeOK'
  BY InvStep
<1>5. CASE pc'[t] = pc[t] /\ request'[t] = request[t]
  <2>1. observed'[RouteOf(t, request[t])].commits >= observed[RouteOf(t, request[t])].commits
    BY <1>2, <1>3, CommitsGrow
  <2>2. /\ observed[RouteOf(t, request[t])].commits \in Nat
        /\ observed'[RouteOf(t, request[t])].commits \in Nat
    BY <1>2, <1>4
  <2>3. EventOf(t)' = EventOf(t)
    BY <1>5 DEF EventOf
  <2> QED
    BY <1>1, <1>5, <2>1, <2>2, <2>3 DEF CommittedInFlight
<1>6. CASE Commit(t) /\ pc'[t] = "observe" /\ request'[t] = request[t]
  <2>1. EventOf(t)' = EventOf(t)
    BY <1>6 DEF EventOf
  <2> QED
    BY <1>6, <2>1 DEF Commit
<1>7. CASE ObserveCommit(t) /\ pc'[t] = "receipt" /\ request'[t] = request[t]
  <2>1. EventOf(t)' = EventOf(t)
    BY <1>7 DEF EventOf
  <2>2. pc[t] = "observe" /\ Arrival(RouteOf(t, request[t]), TRUE)
    BY <1>7 DEF ObserveCommit
  <2>3. /\ observed'[RouteOf(t, request[t])].commits =
              observed[RouteOf(t, request[t])].commits + 1
        /\ observed[RouteOf(t, request[t])].commits \in Nat
    BY <1>2, <2>2 DEF Arrival
  <2> QED
    BY <1>1, <1>7, <2>1, <2>2, <2>3 DEF CommittedInFlight
<1> QED
  BY <1>5, <1>6, <1>7, CarrierFrame

LEMMA BoxStep ==
    ASSUME TypeOK, IInv, RequestInv, CommittedInFlight, BoxesAreDurable, [Next]_vars
    PROVE  BoxesAreDurable'
<1> SUFFICES ASSUME NEW h \in Handlers, box'[h] \in {"ADMITTED", "COMMITTED"}
             PROVE  Durable(h)'
  BY DEF BoxesAreDurable
<1>1. WorkInProgress
  BY DEF IInv
<1>2. CASE box'[h] = box[h]
  <2>1. pc[h] # "idle" /\ Durable(h)
    BY <1>2, HostSinkAssumption DEF RequestInv, BoxesAreDurable, Decisions
  <2> QED
    BY <1>1, <2>1, DurableKept
<1>3. CASE EmitReceipt(Worker) /\ serving = h
  <2>1. request[Worker] = request[h] /\ request[h].path = "/v1/async-payments"
    BY <1>3 DEF RequestInv, EmitReceipt, Active
  <2>2. /\ RouteOf(Worker, request[Worker]) = RouteOfRequest(request[h])
        /\ EventOf(Worker) = Event(request[h].payload, RouteOfRequest(request[h]))
    BY <2>1 DEF RouteOf, RouteOfRequest, EventOf
  <2> QED
    BY <1>3, <2>1, <2>2, EmittedIsThere, WorkerApart DEF Durable
<1> QED
  BY <1>1, <1>2, <1>3, BoxFrame, HostSinkAssumption DEF Decisions

LEMMA AnswerStep ==
    ASSUME TypeOK, IInv, AnsweredRest, RequestInv, DurableInv, [Next]_vars
    PROVE  AnsweredMeansDurable'
<1> SUFFICES ASSUME NEW h \in Handlers, reply'[h] \in {"ADMITTED", "COMMITTED"}
             PROVE  Durable(h)'
  BY DEF AnsweredMeansDurable, Durable
<1>1. WorkInProgress /\ pc[h] \in Labels
  BY WorkerApart DEF IInv, TypeOK, ThreadTypes
<1>2. CASE reply'[h] = reply[h]
  <2>1. Durable(h) /\ pc[h] # "idle"
    BY <1>2, HostSinkAssumption DEF DurableInv, AnsweredMeansDurable, Durable, AnsweredRest,
       Decisions
  <2> QED
    BY <1>1, <2>1, DurableKept
<1>3. CASE EmitReceipt(h)
  <2>1. pc[h] = "receipt" /\ h # Worker /\ h \in Threads
    BY <1>3, WorkerApart DEF EmitReceipt
  <2>2. request[h].path \in {"/v1/payments", "/internal/batch-commit"}
    BY <2>1 DEF RequestInv, Active
  <2>3. /\ RouteOf(h, request[h]) = RouteOfRequest(request[h])
        /\ EventOf(h) = Event(request[h].payload, RouteOfRequest(request[h]))
    BY <2>1, <2>2 DEF RouteOf, RouteOfRequest, EventOf
  <2> QED
    BY <1>3, <2>1, <2>3, EmittedIsThere DEF Durable, DurableInv
<1>4. CASE JobDone(h)
  <2>1. pc[h] = "wait" /\ reply'[h] = box[h]
    BY <1>4 DEF JobDone, TypeOK, ThreadTypes
  <2>2. Durable(h)
    BY <2>1 DEF DurableInv, BoxesAreDurable
  <2> QED
    BY <1>1, <2>1, <2>2, DurableKept
<1> QED
  BY <1>2, <1>3, <1>4, AnswerFrame

-----------------------------------------------------------------------------
(* The invariant of what is delivered.                                     *)

DeliveryInv == TypeOK /\ IInv /\ HistoryInv /\ QueueInv /\ RequestInv /\ DurableInv

LEMMA DeliveryInit == Init => DeliveryInv
<1> SUFFICES ASSUME Init PROVE HistoryInv /\ QueueInv /\ RequestInv /\ DurableInv
  BY InvInit DEF DeliveryInv
<1>1. /\ \A t \in Threads : pc[t] \in {"idle", "loop"}
      /\ \A h \in Handlers : reply[h] = None /\ box[h] = None /\ pc[h] = "idle"
      /\ pc[Worker] = "loop"
      /\ jobs = <<>> /\ DOMAIN jobs = {} /\ serving = None /\ done = {}
      /\ ledger = {}
  BY WorkerApart DEF Init
<1>2. HistoryInv
  BY <1>1, FS_EmptySet DEF HistoryInv, AnsweredRest
<1>3. QueueInv /\ RequestInv
  BY <1>1, WorkerApart DEF QueueInv, JobsConserved, RequestInv, Queued, Active
<1>4. DurableInv
  BY <1>1, HostSinkAssumption DEF DurableInv, CommittedInFlight, BoxesAreDurable,
     AnsweredMeansDurable, Decisions
<1> QED
  BY <1>2, <1>3, <1>4

LEMMA DeliveryStep == DeliveryInv /\ [Next]_vars => DeliveryInv'
<1> SUFFICES ASSUME DeliveryInv, [Next]_vars PROVE DeliveryInv'
  OBVIOUS
<1> USE DEF DeliveryInv
<1>1. TypeOK' /\ IInv' /\ HistoryInv'
  BY InvStep, HistoryStep
<1>2. QueueInv' /\ RequestInv'
  BY QueueStep, RequestStep DEF IInv
<1>3. DurableInv'
  BY CarrierStep, BoxStep, AnswerStep DEF DurableInv, HistoryInv
<1> QED
  BY <1>1, <1>2, <1>3

LEMMA Delivered == Spec => []DeliveryInv
<1> QED
  BY DeliveryInit, DeliveryStep, PTL DEF Spec

\* For any number of handlers, whatever the worker does, dies of or is stopped
\* at, and across restarts: no job of a waiting handler is lost or held twice.
THEOREM JobsAreConserved == Spec => []JobsConserved
<1>1. DeliveryInv => JobsConserved
  BY DEF DeliveryInv, QueueInv
<1> QED
  BY <1>1, Delivered, PTL

\* A positive answer is never given before its row, arrival and receipt are
\* there, directly or through the worker's box, and none of them goes again.
THEOREM AnswersAreDurable == Spec => []AnsweredMeansDurable
<1>1. DeliveryInv => AnsweredMeansDurable
  BY DEF DeliveryInv, DurableInv
<1> QED
  BY <1>1, Delivered, PTL

-----------------------------------------------------------------------------
(* Telemetry                                                               *)

\* Threads between their commit and its arrival, and the rows they carry.
Observing == {t \in Threads : pc[t] = "observe"}
Unobserved == {EventOf(t) : t \in Observing}
RowsOf(r) == {row \in ledger : row.route_id = r}

ReceiptsOfRows == receipts \subseteq {Receipt(row) : row \in ledger}

\* The arrivals of a route are its rows but those a thread still carries, or
\* fewer when a restart lost such a thread.
ObservedInv ==
    /\ \A s, t \in Observing : EventOf(s) = EventOf(t) => s = t
    /\ \A r \in Routes :
          /\ observed[r].commits <= Cardinality(RowsOf(r) \ Unobserved)
          /\ restarts = 0 => observed[r].commits = Cardinality(RowsOf(r) \ Unobserved)

TelemetryInv == ReceiptsOfRows /\ ObservedInv

\* Only EmitReceipt writes the receipts.
LEMMA ReceiptFrame ==
    ASSUME TypeOK, [Next]_vars
    PROVE  receipts' = receipts \/ \E t \in Threads : EmitReceipt(t)
<1>1. CASE Ticking
  BY <1>1, TickingFrame DEF dbVars
<1>2. ASSUME NEW g \in Handlers, NEW q \in Requests, Post(g, q)
      PROVE  receipts' = receipts
  BY <1>2 DEF Post, dbVars
<1>3. ASSUME NEW t \in Threads, Deciding(t) \/ Commit(t) \/ ObserveCommit(t)
      PROVE  receipts' = receipts
  BY <1>3, WorkingFrame
<1>4. ASSUME NEW t \in Threads, Leaving(t)
      PROVE  receipts' = receipts \/ EmitReceipt(t)
  BY <1>4 DEF Leaving, BuildFails, CommitConflict, Refuse, dbVars
<1>5. ASSUME NEW g \in Handlers, Enqueue(g) \/ JobDone(g) \/ WorkerTimeout(g)
      PROVE  receipts' = receipts
  BY <1>5 DEF Enqueue, JobDone, WorkerTimeout, dbVars
<1>6. CASE WorkerGet \/ Restart
  BY <1>6 DEF WorkerGet, Restart, dbVars
<1> QED
  BY <1>1, <1>2, <1>3, <1>4, <1>5, <1>6, StepCases

LEMMA ReceiptStep ==
    ASSUME TypeOK, CommittedInFlight, ReceiptsOfRows, [Next]_vars
    PROVE  ReceiptsOfRows'
<1>1. ledger \subseteq ledger'
  BY OnlyCommitWrites DEF Commit
<1>2. CASE receipts' = receipts
  BY <1>1, <1>2 DEF ReceiptsOfRows, Receipt
<1>3. ASSUME NEW t \in Threads, EmitReceipt(t)
      PROVE  ReceiptsOfRows'
  <2>1. EventOf(t) \in ledger
    BY <1>3 DEF CommittedInFlight, EmitReceipt
  <2>2. receipts' \subseteq receipts \cup {Receipt(EventOf(t))}
    BY <1>3 DEF EmitReceipt
  <2> QED
    BY <1>1, <2>1, <2>2 DEF ReceiptsOfRows, Receipt
<1> QED
  BY <1>2, <1>3, ReceiptFrame

\* A carried row is carried on, unless it is observed or the process ends.
LEMMA ObserverFrame ==
    ASSUME TypeOK, [Next]_vars, NEW t \in Observing
    PROVE  \/ t \in Observing' /\ request'[t] = request[t]
           \/ ObserveCommit(t) \/ Restart
<1> USE DEF TypeOK, ThreadTypes
<1>0. t \in Threads /\ pc[t] = "observe"
  BY DEF Observing
<1> DEFINE Kept == pc'[t] = "observe" /\ request'[t] = request[t]
<1> SUFFICES Kept \/ ObserveCommit(t) \/ Restart
  BY <1>0 DEF Observing
<1>1. CASE Ticking
  BY <1>0, <1>1, TickingFrame DEF Threads
<1>2. ASSUME NEW g \in Handlers, NEW q \in Requests, Post(g, q)
      PROVE  Kept
  BY <1>0, <1>2, WorkerApart DEF Post, Goto
<1>3. ASSUME NEW s \in Threads, Deciding(s)
      PROVE  Kept
  BY <1>0, <1>3, DecidingFrame
<1>4. ASSUME NEW s \in Threads, Commit(s) \/ ObserveCommit(s)
      PROVE  Kept \/ ObserveCommit(t)
  BY <1>0, <1>4 DEF Commit, ObserveCommit, Goto
<1>5. ASSUME NEW s \in Threads, Leaving(s)
      PROVE  Kept
  BY <1>0, <1>5 DEF Leaving, BuildFails, CommitConflict, Refuse, EmitReceipt, Raise, Return,
     Goto
<1>6. ASSUME NEW g \in Handlers, Enqueue(g) \/ JobDone(g) \/ WorkerTimeout(g)
      PROVE  Kept
  BY <1>0, <1>6, WorkerApart DEF Enqueue, JobDone, WorkerTimeout, Goto
<1>7. CASE WorkerGet
  BY <1>0, <1>7, WorkerApart DEF WorkerGet, Goto
<1> QED
  BY <1>1, <1>2, <1>3, <1>4, <1>5, <1>6, <1>7, StepCases

\* Steps other than a commit, its arrival and a restart change no count.
LEMMA CountsKept ==
    ASSUME TypeOK, CommittedInFlight, ObservedInv, [Next]_vars,
           \A t \in Threads : ~ Commit(t) /\ ~ ObserveCommit(t), ~ Restart
    PROVE  ObservedInv'
<1> USE DEF TypeOK, ThreadTypes
<1>1. ledger' = ledger
  BY OnlyCommitWrites
<1>2. /\ Observing' = Observing
      /\ \A t \in Observing : request'[t] = request[t]
  BY CarrierFrame, ObserverFrame DEF Observing
<1>3. \A t \in Observing : EventOf(t)' = EventOf(t)
  BY <1>2 DEF EventOf
<1>4. Unobserved' = Unobserved /\ \A r : RowsOf(r)' = RowsOf(r)
  BY <1>1, <1>2, <1>3 DEF Unobserved, RowsOf
<1>5. \A r \in Routes : observed'[r].commits = observed[r].commits
  <2>1. CASE observed' = observed
    BY <2>1
  <2>2. ASSUME NEW t \in Threads, Refuse(t)
        PROVE  \A r \in Routes : observed'[r].commits = observed[r].commits
    BY <2>2 DEF Refuse, Arrival, StoreTypes
  <2> QED
    BY <2>1, <2>2, ObservedFrame
<1>6. restarts' = restarts
  <2>1. ASSUME NEW g \in Handlers, NEW q \in Requests, Post(g, q)
        PROVE  restarts' = restarts
    BY <2>1 DEF Post
  <2>2. ASSUME NEW t \in Threads, Leaving(t)
        PROVE  restarts' = restarts
    BY <2>2 DEF Leaving, BuildFails, CommitConflict, Refuse, EmitReceipt
  <2>3. ASSUME NEW g \in Handlers, Enqueue(g) \/ JobDone(g) \/ WorkerTimeout(g)
        PROVE  restarts' = restarts
    BY <2>3 DEF Enqueue, JobDone, WorkerTimeout
  <2>4. CASE WorkerGet
    BY <2>4 DEF WorkerGet
  <2> QED
    BY <2>1, <2>2, <2>3, <2>4, TickingFrame, WorkingFrame, StepCases
<1> QED
  BY <1>2, <1>3, <1>4, <1>5, <1>6 DEF ObservedInv

LEMMA ObservedStep ==
    ASSUME TypeOK, IInv, HistoryInv, CommittedInFlight, ObservedInv, [Next]_vars
    PROVE  ObservedInv'
<1> USE DEF TypeOK, ThreadTypes, StoreTypes
<1>0. /\ TypeOK'
      /\ \A r \in Routes : /\ IsFiniteSet(RowsOf(r))
                           /\ IsFiniteSet(RowsOf(r) \ Unobserved)
                           /\ Cardinality(RowsOf(r) \ Unobserved) \in Nat
                           /\ observed[r].commits \in Nat
  <2>1. \A r \in Routes : IsFiniteSet(RowsOf(r)) /\ IsFiniteSet(RowsOf(r) \ Unobserved)
    BY FS_Subset DEF HistoryInv, RowsOf
  <2> QED
    BY <2>1, InvStep, FS_CardinalityType
<1>1. ASSUME NEW t \in Threads, Commit(t)
      PROVE  ObservedInv'
  <2>1. /\ pc[t] = "commit" /\ pc' = [pc EXCEPT ![t] = "observe"]
        /\ ~ InsertConflicts(EventOf(t)) /\ ledger' = ledger \cup {EventOf(t)}
        /\ UNCHANGED <<request, observed, restarts>>
    BY <1>1 DEF Commit, Goto
  <2>2. EventOf(t) \notin ledger
    BY <2>1 DEF InsertConflicts
  <2>3. Observing' = Observing \cup {t} /\ t \notin Observing
    BY <2>1 DEF Observing
  <2>4. \A s \in Threads : EventOf(s)' = EventOf(s)
    BY <2>1 DEF EventOf
  <2>5. \A s \in Observing : EventOf(s) \in ledger
    BY DEF CommittedInFlight, Observing
  <2>6. \A r, s \in Observing' : EventOf(r)' = EventOf(s)' => r = s
    BY <2>2, <2>3, <2>4, <2>5 DEF ObservedInv, Observing
  <2>7. Unobserved' = Unobserved \cup {EventOf(t)}
    BY <2>3, <2>4 DEF Unobserved, Observing
  <2>8. \A r \in Routes : (RowsOf(r) \ Unobserved)' = RowsOf(r) \ Unobserved
    BY <2>1, <2>2, <2>7 DEF RowsOf
  <2> QED
    BY <2>1, <2>6, <2>8 DEF ObservedInv
<1>2. ASSUME NEW t \in Threads, ObserveCommit(t)
      PROVE  ObservedInv'
  <2> DEFINE e == EventOf(t)
             route == RouteOf(t, request[t])
  <2>1. /\ pc[t] = "observe" /\ pc' = [pc EXCEPT ![t] = "receipt"]
        /\ Arrival(route, TRUE) /\ UNCHANGED <<request, ledger, restarts>>
    BY <1>2 DEF ObserveCommit, Goto
  <2>2. Observing' = Observing \ {t} /\ t \in Observing
    BY <2>1 DEF Observing
  <2>3. \A s \in Threads : EventOf(s)' = EventOf(s)
    BY <2>1 DEF EventOf
  <2>4. Unobserved' = Unobserved \ {e}
    BY <2>2, <2>3 DEF Unobserved, Observing, ObservedInv
  <2>5. e \in ledger /\ e.route_id = route /\ route \in Routes
    BY <2>1 DEF CommittedInFlight, EventOf, Event, RouteOf, Routes
  <2>6. e \in Unobserved
    BY <2>2 DEF Unobserved
  <2>7. ASSUME NEW r \in Routes
        PROVE  /\ r = route => /\ (RowsOf(r) \ Unobserved)' = (RowsOf(r) \ Unobserved) \cup {e}
                               /\ observed'[r].commits = observed[r].commits + 1
               /\ r # route => /\ (RowsOf(r) \ Unobserved)' = RowsOf(r) \ Unobserved
                               /\ observed'[r].commits = observed[r].commits
    <3>1. RowsOf(r)' = RowsOf(r) /\ (e \in RowsOf(r) <=> r = route)
      BY <2>1, <2>5 DEF RowsOf
    <3>2. observed'[r].commits = IF r = route THEN observed[r].commits + 1
                                 ELSE observed[r].commits
      BY <2>1, <2>5 DEF Arrival
    <3> QED
      BY <2>4, <2>6, <3>1, <3>2
  <2>8. e \notin RowsOf(route) \ Unobserved
    BY <2>6
  <2>9. Cardinality((RowsOf(route) \ Unobserved) \cup {e}) =
          Cardinality(RowsOf(route) \ Unobserved) + 1
    BY <1>0, <2>5, <2>8, FS_AddElement
  <2>10. \A r \in Routes :
           /\ observed'[r].commits <= Cardinality((RowsOf(r) \ Unobserved)')
           /\ restarts' = 0 => observed'[r].commits = Cardinality((RowsOf(r) \ Unobserved)')
    <3> SUFFICES ASSUME NEW r \in Routes
                 PROVE  /\ observed'[r].commits <= Cardinality((RowsOf(r) \ Unobserved)')
                        /\ restarts = 0 => observed'[r].commits =
                                              Cardinality((RowsOf(r) \ Unobserved)')
      BY <2>1
    <3> DEFINE n == Cardinality(RowsOf(r) \ Unobserved)
    <3>1. /\ n \in Nat /\ observed[r].commits \in Nat
          /\ observed[r].commits <= n /\ (restarts = 0 => observed[r].commits = n)
      BY <1>0 DEF ObservedInv
    <3>2. \/ /\ observed'[r].commits = observed[r].commits + 1
             /\ Cardinality((RowsOf(r) \ Unobserved)') = n + 1
          \/ /\ observed'[r].commits = observed[r].commits
             /\ Cardinality((RowsOf(r) \ Unobserved)') = n
      BY <2>7, <2>9
    <3> HIDE DEF n
    <3> QED
      BY <3>1, <3>2
  <2> QED
    BY <2>2, <2>3, <2>10 DEF ObservedInv, Observing
<1>3. CASE Restart
  <2>1. /\ Observing' = {} /\ UNCHANGED <<ledger, observed>> /\ restarts' # 0
    BY <1>3, WorkerApart DEF Restart, Observing, dbVars, ReaderTypes
  <2>2. Unobserved' = {} /\ \A r \in Routes : (RowsOf(r) \ Unobserved)' = RowsOf(r)
    BY <2>1 DEF Unobserved, RowsOf
  <2>3. ASSUME NEW r \in Routes
        PROVE  observed[r].commits <= Cardinality(RowsOf(r))
    <3>1. /\ Cardinality(RowsOf(r) \ Unobserved) <= Cardinality(RowsOf(r))
          /\ Cardinality(RowsOf(r)) \in Nat
      BY <1>0, FS_Subset, FS_CardinalityType
    <3>2. observed[r].commits <= Cardinality(RowsOf(r) \ Unobserved)
      BY DEF ObservedInv
    <3>3. ASSUME NEW a \in Nat, NEW b \in Nat, NEW c \in Nat, a <= b, b <= c PROVE a <= c
      BY <3>3
    <3> QED
      BY <1>0, <3>1, <3>2, <3>3
  <2> QED
    BY <2>1, <2>2, <2>3 DEF ObservedInv
<1> QED
  BY <1>1, <1>2, <1>3, CountsKept

LEMMA Telemetered == Spec => [](DeliveryInv /\ TelemetryInv)
<1>1. Init => TelemetryInv
  <2> SUFFICES ASSUME Init PROVE TelemetryInv
    OBVIOUS
  <2>1. Observing = {} /\ ledger = {} /\ receipts = {} /\ observed = NothingObserved
    BY DEF Init, Observing
  <2>2. \A r \in Routes : RowsOf(r) \ Unobserved = {}
    BY <2>1 DEF RowsOf
  <2>3. Cardinality({}) = 0
    BY FS_EmptySet
  <2> QED
    BY <2>1, <2>2, <2>3 DEF TelemetryInv, ReceiptsOfRows, ObservedInv, NothingObserved
<1>2. DeliveryInv /\ TelemetryInv /\ [Next]_vars => TelemetryInv'
  BY ReceiptStep, ObservedStep DEF DeliveryInv, TelemetryInv, DurableInv
<1> QED
  BY <1>1, <1>2, Delivered, PTL DEF Spec

\* Whatever crashes between its transactions, the observer never witnesses or
\* counts a commit the ledger does not hold.
THEOREM TelemetryIsBounded == Spec => []TelemetryNeverOverstates
<1>1. DeliveryInv /\ TelemetryInv => TelemetryNeverOverstates
  <2> SUFFICES ASSUME DeliveryInv, TelemetryInv, NEW r \in Routes
               PROVE  observed[r].commits <= Cardinality(RowsOf(r))
    BY DEF TelemetryNeverOverstates, TelemetryInv, ReceiptsOfRows, RowsOf
  <2>1. IsFiniteSet(RowsOf(r))
    BY FS_Subset DEF DeliveryInv, HistoryInv, RowsOf
  <2>2. /\ Cardinality(RowsOf(r) \ Unobserved) <= Cardinality(RowsOf(r))
        /\ Cardinality(RowsOf(r) \ Unobserved) \in Nat /\ Cardinality(RowsOf(r)) \in Nat
    BY <2>1, FS_Subset, FS_CardinalityType
  <2> QED
    BY <2>2 DEF TelemetryInv, ObservedInv, DeliveryInv, TypeOK, StoreTypes
<1> QED
  BY <1>1, Telemetered, PTL

\* With no thread at work and no restart behind, every row was counted.
THEOREM QuietIsComplete == Spec => []QuietTelemetryComplete
<1>1. DeliveryInv /\ TelemetryInv => QuietTelemetryComplete
  <2> SUFFICES ASSUME TelemetryInv, Quiet, restarts = 0, NEW r \in Routes
               PROVE  observed[r].commits = Cardinality(RowsOf(r))
    BY DEF QuietTelemetryComplete, RowsOf
  <2>1. RowsOf(r) \ Unobserved = RowsOf(r)
    BY DEF Quiet, Observing, Unobserved
  <2> QED
    BY <2>1 DEF TelemetryInv, ObservedInv
<1> QED
  BY <1>1, Telemetered, PTL

-----------------------------------------------------------------------------
(* Refinement                                                              *)

Positive == {"ADMITTED", "COMMITTED"}

\* The row the client of a handler asked for.
RowFor(h) == Event(request[h].payload, RouteOfRequest(request[h]))

LEMMA AcknowledgedRowsOf ==
    \A row : row \in AcknowledgedRows <=>
                \E h \in Handlers : reply[h] \in Positive /\ row = RowFor(h)
  BY DEF AcknowledgedRows, Positive, RowFor

\* An answer given keeps the row it was given for.
LEMMA AcknowledgedKept ==
    ASSUME DeliveryInv, [Next]_vars, NEW h \in Handlers
    PROVE  /\ reply[h] \in Positive => reply'[h] = reply[h] /\ RowFor(h)' = RowFor(h)
           /\ reply'[h] \in Positive /\ reply[h] \notin Positive =>
                reply[h] = None /\ (EmitReceipt(h) \/ JobDone(h)) /\ RowFor(h)' = RowFor(h)
<1> USE DEF DeliveryInv, HistoryInv
<1>1. None \notin Positive
  BY HostSinkAssumption DEF Decisions, Positive
<1>2. reply[h] # None => reply'[h] = reply[h] /\ pc[h] # "idle"
  BY AnswersRest DEF AnsweredRest
<1>3. pc[h] # "idle" => RowFor(h)' = RowFor(h)
  BY RequestKept DEF RowFor
<1>4. ASSUME reply'[h] \in Positive, reply[h] \notin Positive
      PROVE  (EmitReceipt(h) \/ JobDone(h)) /\ pc[h] # "idle"
  <2>1. EmitReceipt(h) \/ JobDone(h)
    BY <1>4, AnswerFrame DEF Positive
  <2> QED
    BY <2>1 DEF EmitReceipt, JobDone
<1> QED
  BY <1>1, <1>2, <1>3, <1>4

\* A step that confirms nothing to a client leaves the acknowledged rows alone.
LEMMA NothingAcknowledged ==
    ASSUME DeliveryInv, [Next]_vars,
           \A h \in Handlers : reply'[h] \in Positive => reply[h] \in Positive
    PROVE  AcknowledgedRows' = AcknowledgedRows
<1>1. \A h \in Handlers : /\ reply'[h] \in Positive <=> reply[h] \in Positive
                          /\ reply[h] \in Positive => RowFor(h)' = RowFor(h)
  BY AcknowledgedKept
<1>2. \A row : row \in AcknowledgedRows' <=>
                 \E h \in Handlers : reply'[h] \in Positive /\ row = RowFor(h)'
  BY DEF AcknowledgedRows, Positive, RowFor
<1> QED
  BY <1>1, <1>2, AcknowledgedRowsOf

\* One that confirms a row to one client adds that row.
LEMMA OneAcknowledged ==
    ASSUME DeliveryInv, [Next]_vars, NEW g \in Handlers, reply'[g] \in Positive,
           \A h \in Handlers \ {g} : reply'[h] = reply[h]
    PROVE  AcknowledgedRows' = AcknowledgedRows \cup {RowFor(g)}
<1>1. RowFor(g)' = RowFor(g)
  BY AcknowledgedKept
<1>2. \A h \in Handlers : reply[h] \in Positive => RowFor(h)' = RowFor(h)
  BY AcknowledgedKept
<1>3. \A row : row \in AcknowledgedRows' <=>
                 \E h \in Handlers : reply'[h] \in Positive /\ row = RowFor(h)'
  BY DEF AcknowledgedRows, Positive, RowFor
<1>4. \A row : row \in AcknowledgedRows' <=> row \in AcknowledgedRows \/ row = RowFor(g)
  BY <1>1, <1>2, <1>3, AcknowledgedRowsOf, AcknowledgedKept
<1> QED
  BY <1>4

\* The commit of a fresh admissible row.
LEMMA CommitImplements ==
    ASSUME DeliveryInv, TelemetryInv, [Next]_vars, NEW t \in Threads, Commit(t)
    PROVE  Sink!CommitRow(EventOf(t)) /\ EventOf(t) \in Events
<1> DEFINE e == EventOf(t)
<1> USE DEF DeliveryInv
<1>1. /\ pc[t] = "commit" /\ ~ InsertConflicts(e) /\ ledger' = ledger \cup {e}
      /\ UNCHANGED <<request, reply, receipts>>
  BY DEF Commit
<1>2. e \in Events
  BY <1>1, EventTyped DEF IInv, WorkInProgress, Active
<1>3. e \in AdmissibleEvents
  <2>1. e.route_id = RouteOf(t, request[t])
    BY DEF EventOf, Event
  <2>2. e.route_id # RouteHiddenBatch => CoveredByReference(e)
    BY <1>1, <2>1 DEF IInv, AdmittedInFlight
  <2> QED
    BY <1>2, <2>2 DEF AdmissibleEvents, DeclaredRoutes, RouteHiddenBatch, RouteHttpGuarded,
       RouteQueueWorker
<1>4. \A row \in ledger : /\ row.idempotency_key # e.idempotency_key
                          /\ row.commit_id # e.commit_id
  BY <1>1 DEF InsertConflicts
<1>5. Receipt(e) \notin receipts
  BY <1>4 DEF TelemetryInv, ReceiptsOfRows, Receipt
<1>6. WitnessedRows' = WitnessedRows
  BY <1>1, <1>5 DEF WitnessedRows, Receipt
<1>7. AcknowledgedRows' = AcknowledgedRows
  BY <1>1, NothingAcknowledged
<1> QED
  BY <1>1, <1>2, <1>3, <1>4, <1>6, <1>7 DEF Sink!CommitRow, Sink!Fresh

\* The receipt of a row in the ledger, and its answer to the client of a handler.
LEMMA EmitImplements ==
    ASSUME DeliveryInv, TelemetryInv, [Next]_vars, NEW t \in Threads, EmitReceipt(t)
    PROVE  Sink!Confirm(EventOf(t)) /\ EventOf(t) \in Events
<1> DEFINE e == EventOf(t)
<1> USE DEF DeliveryInv
<1>1. /\ pc[t] = "receipt" /\ ledger' = ledger /\ request' = request
      /\ receipts' = receipts \/ receipts' = receipts \cup {Receipt(e)}
      /\ Return(t, IF RouteOf(t, request[t]) = RouteHiddenBatch THEN "COMMITTED"
                   ELSE "ADMITTED")
  BY DEF EmitReceipt
<1>2. e \in ledger /\ e \in Events
  BY <1>1 DEF DurableInv, CommittedInFlight, TypeOK, StoreTypes
<1>3. \A row \in ledger : Receipt(row) = Receipt(e) => row = e
  BY <1>2 DEF Receipt, IInv, UniqueRows
<1>4. WitnessedRows' \in {WitnessedRows, WitnessedRows \cup {e}}
  BY <1>1, <1>2, <1>3 DEF WitnessedRows, Receipt
<1>5. AcknowledgedRows' \in {AcknowledgedRows, AcknowledgedRows \cup {e}}
  <2>1. CASE t = Worker
    BY <1>1, <2>1, NothingAcknowledged DEF Return
  <2>2. CASE t # Worker
    <3>1. t \in Handlers
      BY <2>2 DEF Threads
    <3>2. reply'[t] \in Positive /\ \A h \in Handlers \ {t} : reply'[h] = reply[h]
      BY <1>1, <2>2, <3>1 DEF Return, Positive, TypeOK, ThreadTypes
    <3>3. request[t].path \in {"/v1/payments", "/internal/batch-commit"}
      BY <1>1, <3>1 DEF RequestInv, Active
    <3>4. RowFor(t) = e
      BY <2>2, <3>3 DEF RowFor, EventOf, RouteOf, RouteOfRequest
    <3> QED
      BY <3>1, <3>2, <3>4, OneAcknowledged
  <2> QED
    BY <2>1, <2>2
<1> QED
  BY <1>1, <1>2, <1>4, <1>5 DEF Sink!Confirm

\* The worker's answer, passed on by the handler that waited for it.
LEMMA JobDoneImplements ==
    ASSUME DeliveryInv, [Next]_vars, NEW g \in Handlers, JobDone(g)
    PROVE  \/ UNCHANGED <<ledger, WitnessedRows, AcknowledgedRows>>
           \/ Sink!Confirm(RowFor(g)) /\ RowFor(g) \in Events
<1> USE DEF DeliveryInv
<1>1. /\ ledger' = ledger /\ receipts' = receipts
      /\ reply' = [reply EXCEPT ![g] = box[g]] /\ pc[g] = "wait"
  BY DEF JobDone, dbVars
<1>2. /\ reply'[g] = box[g]
      /\ \A h \in Handlers \ {g} : reply'[h] = reply[h]
  BY <1>1 DEF TypeOK, ThreadTypes
<1>3. WitnessedRows' = WitnessedRows
  BY <1>1 DEF WitnessedRows
<1>4. CASE box[g] \in Positive
  <2>1. RowFor(g) \in ledger
    BY <1>4 DEF DurableInv, BoxesAreDurable, Durable, RowFor, Positive
  <2>2. AcknowledgedRows' = AcknowledgedRows \cup {RowFor(g)}
    BY <1>2, <1>4, OneAcknowledged
  <2> QED
    BY <1>1, <1>3, <2>1, <2>2 DEF Sink!Confirm, TypeOK, StoreTypes
<1>5. CASE box[g] \notin Positive
  <2>1. AcknowledgedRows' = AcknowledgedRows
    BY <1>2, <1>5, NothingAcknowledged
  <2> QED
    BY <1>1, <1>3, <2>1
<1> QED
  BY <1>4, <1>5

\* Every other step stutters.
LEMMA SilentImplements ==
    ASSUME DeliveryInv, [Next]_vars,
           \A t \in Threads : ~ Commit(t) /\ ~ EmitReceipt(t),
           \A h \in Handlers : ~ JobDone(h)
    PROVE  UNCHANGED <<ledger, WitnessedRows, AcknowledgedRows>>
<1> USE DEF DeliveryInv
<1>1. ledger' = ledger /\ receipts' = receipts
  BY OnlyCommitWrites, ReceiptFrame
<1>2. \A h \in Handlers : reply'[h] \in Positive => reply[h] \in Positive
  BY AcknowledgedKept, WorkerApart
<1>3. AcknowledgedRows' = AcknowledgedRows
  BY <1>2, NothingAcknowledged
<1> QED
  BY <1>1, <1>3 DEF WitnessedRows

\* For any requests, threads, authorizations and restarts, the threads, the queue
\* and the two stores do what an atomic protected ledger does.
THEOREM Refinement == Spec => ImplementsProtectedLedger
<1>1. Init => Sink!BoundaryInit
  <2> SUFFICES ASSUME Init PROVE Sink!BoundaryInit
    OBVIOUS
  <2>1. ledger = {} /\ \A h \in Handlers : reply[h] = None
    BY DEF Init
  <2>2. WitnessedRows = {} /\ AcknowledgedRows = {}
    BY <2>1, HostSinkAssumption DEF WitnessedRows, AcknowledgedRows, Decisions
  <2> QED
    BY <2>1, <2>2 DEF Sink!BoundaryInit
<1>2. DeliveryInv /\ TelemetryInv /\ [Next]_vars => [Sink!BoundaryNext]_(Sink!boundaryVars)
  <2> SUFFICES ASSUME DeliveryInv, TelemetryInv, [Next]_vars
               PROVE  Sink!BoundaryNext \/ UNCHANGED Sink!boundaryVars
    OBVIOUS
  <2>1. ASSUME NEW t \in Threads, Commit(t) \/ EmitReceipt(t)
        PROVE  Sink!BoundaryNext
    BY <2>1, CommitImplements, EmitImplements DEF Sink!BoundaryNext
  <2>2. ASSUME NEW h \in Handlers, JobDone(h)
        PROVE  Sink!BoundaryNext \/ UNCHANGED Sink!boundaryVars
    BY <2>2, JobDoneImplements DEF Sink!BoundaryNext, Sink!boundaryVars
  <2>3. CASE /\ \A t \in Threads : ~ Commit(t) /\ ~ EmitReceipt(t)
             /\ \A h \in Handlers : ~ JobDone(h)
    BY <2>3, SilentImplements DEF Sink!boundaryVars
  <2> QED
    BY <2>1, <2>2, <2>3
<1> QED
  BY <1>1, <1>2, Telemetered, PTL DEF Spec, ImplementsProtectedLedger, Sink!BoundarySpec

=============================================================================
