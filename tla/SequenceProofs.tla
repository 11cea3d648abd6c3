---------------------------- MODULE SequenceProofs ----------------------------
(***************************************************************************)
(* Proofs about the six-stage runner for every budget, number of           *)
(* invocations and set of output directories.                              *)
(***************************************************************************)
EXTENDS SequenceProperties, SequenceTheorems, TLAPS

\* The verdict over any reads is one of the verifier's dispositions, and the
\* published verdict a record of the three compared fields.
LEMMA VerdictTyped ==
    ASSUME NEW s \in Reads
    PROVE  FinalVerdict(s) \in Verdicts
  BY DEF FinalVerdict, FailClosedVerdict, SubjectVerdict, Verdicts, Disposition,
         BoundaryFailure, InternalFailure, HarnessFailure, IntegrationFailure,
         Unknown, NoCounterexample

\* What is read of the target has the type of a read.
LEMMA ReadTyped ==
    ASSUME target \in Seq(Attempts)
    PROVE  /\ Ledger(target) \in SUBSET Nat
           /\ Receipts(target) \in SUBSET Nat
           /\ ObservedRoutes(target) \in SUBSET {"declared", "undeclared"}
  BY DEF Ledger, Receipts, ObservedRoutes, Attempts

\* Writing artifacts leaves a disk.
LEMMA WriteTyped ==
    ASSUME NEW artifacts, Write(artifacts), InvocationTypes
    PROVE  disk' \in [OutDirs -> [Artifacts -> Nat]]
  BY DEF Write, InvocationTypes

\* A thread of the target goes from one stage of an attempt to another.
LEMMA ProgressTyped ==
    ASSUME target \in Seq(Attempts), NEW i \in DOMAIN target,
           NEW next \in Progress(target, i)
    PROVE  [target EXCEPT ![i] = next] \in Seq(Attempts)
<1>1. target[i] \in Attempts
  OBVIOUS
<1>2. next \in Attempts
  BY <1>1 DEF Progress, Attempts, AllEffects, Committing, Covered
<1> QED
  BY <1>2

\* No attempts is a sequence of attempts.
LEMMA NoAttempts == <<>> \in Seq(Attempts)
  OBVIOUS

\* The initial state has the types.
LEMMA InitTyped == ASSUME Init PROVE TypeOK
<1>1. InvocationTypes
  <2>1. stopAfter \in DOMAIN Stages
    BY DEF Init, Stages
  <2> QED
    BY <2>1 DEF Init, InvocationTypes, Labels, Off, ClosedGates
<1>2. LoopTypes
  <2>1. consumed \in BOOLEAN /\ failing \in BOOLEAN /\ terminal \in BOOLEAN /\ late \in BOOLEAN
    BY DEF Init
  <2>2. contacted \subseteq OutDirs \X Nat
    BY DEF Init
  <2>3. received \in Nat /\ calls \in Nat /\ retry \in 0..Retries /\ invalid \in Nat
    BY DEF Init, Retries
  <2>4. stop \in StopReasons
    BY DEF Init, StopReasons
  <2> QED
    BY <2>1, <2>2, <2>3, <2>4 DEF LoopTypes
<1>3. EvidenceTypes
  BY NoAttempts DEF Init, EvidenceTypes, NothingSeen, Reads
<1> QED
  BY <1>1, <1>2, <1>3 DEF TypeOK

\* So has what an invocation starts with.
LEMMA ForgetTyped ==
    ASSUME TypeOK, Forget
    PROVE  /\ LoopTypes' /\ EvidenceTypes' /\ disk' = disk
           /\ gates' \in [s0 : BOOLEAN, sensitivity : BOOLEAN, sealed : BOOLEAN,
                          separation : BOOLEAN, isolation : BOOLEAN, preflight : BOOLEAN]
           /\ pcState' = "absent"
<1>1. LoopTypes'
  <2>1. (consumed \in BOOLEAN /\ failing \in BOOLEAN /\ terminal \in BOOLEAN /\ late \in BOOLEAN)'
    BY DEF Forget
  <2>2. (contacted \subseteq OutDirs \X Nat)'
    BY DEF Forget, TypeOK, LoopTypes
  <2>3. (received \in Nat /\ calls \in Nat /\ retry \in 0..Retries /\ invalid \in Nat)'
    BY DEF Forget, Retries
  <2>4. (stop \in StopReasons)'
    BY DEF Forget, StopReasons
  <2> QED
    BY <2>1, <2>2, <2>3, <2>4 DEF LoopTypes
<1>2. EvidenceTypes'
  BY NoAttempts DEF Forget, EvidenceTypes, NothingSeen, Reads
<1> QED
  BY <1>1, <1>2 DEF Forget, ClosedGates

\* Every stage before the run keeps the types.
LEMMA PreparationTyped ==
    ASSUME TypeOK, Preparation
    PROVE  TypeOK'
<1> USE DEF TypeOK, InvocationTypes, Labels, Off, Goto, EndAfter
<1>1. LoopTypes'
  BY DEF Preparation, RunS0, WriteS0, RunS1, RunS1A, WriteSeal, RunS2, VerifyPreflight,
         EnterS3, UnchangedBeforeS3, callVars, loopVars, LoopTypes
<1>2. EvidenceTypes'
  BY NoAttempts
     DEF Preparation, RunS0, WriteS0, RunS1, RunS1A, WriteSeal, RunS2, VerifyPreflight,
         EnterS3, UnchangedBeforeS3, Raises, resultVars, targetVars, EvidenceTypes
<1>3. UNCHANGED invocationVars
  BY DEF Preparation, RunS0, WriteS0, RunS1, RunS1A, WriteSeal, RunS2, VerifyPreflight,
         EnterS3, UnchangedBeforeS3
<1>4. CASE RunS0
  BY <1>1, <1>2, <1>3, <1>4 DEF RunS0, Raises, invocationVars
<1>5. CASE WriteS0
  BY <1>1, <1>2, <1>3, <1>5, WriteTyped DEF WriteS0, invocationVars
<1>6. CASE RunS1
  BY <1>1, <1>2, <1>3, <1>6, WriteTyped DEF RunS1, Raises, invocationVars
<1>7. CASE RunS1A
  BY <1>1, <1>2, <1>3, <1>7, WriteTyped DEF RunS1A, invocationVars
<1>8. CASE WriteSeal
  BY <1>1, <1>2, <1>3, <1>8, WriteTyped DEF WriteSeal, invocationVars
<1>9. CASE RunS2
  BY <1>1, <1>2, <1>3, <1>9, WriteTyped DEF RunS2, Raises, invocationVars
<1>10. CASE VerifyPreflight
  BY <1>1, <1>2, <1>3, <1>10, WriteTyped DEF VerifyPreflight, invocationVars
<1>11. CASE EnterS3
  BY <1>1, <1>2, <1>3, <1>11, WriteTyped DEF EnterS3, Raises, invocationVars
<1> QED
  BY <1>4, <1>5, <1>6, <1>7, <1>8, <1>9, <1>10, <1>11 DEF Preparation

\* Calling the provider, and what comes of it, keeps the types.
LEMMA ProviderTyped ==
    ASSUME TypeOK, Provider
    PROVE  TypeOK'
<1> USE DEF TypeOK, Goto
<1>1. InvocationTypes'
  BY DEF Provider, NextTurn, CallProvider, Consume, Send, ProviderRaises, TransportFails,
         ModelInvalid, ModelStops, UnchangedInS3, invocationVars, InvocationTypes, Labels, Off
<1>2. EvidenceTypes'
  BY DEF Provider, NextTurn, CallProvider, Consume, Send, ProviderRaises, TransportFails,
         ModelInvalid, ModelStops, targetVars, resultVars, EvidenceTypes
<1> USE DEF LoopTypes, callVars, loopVars
<1>3. CASE NextTurn
  <2>1. stop' \in StopReasons
    BY <1>3 DEF NextTurn, LoopStop, BudgetStop, StopReasons
  <2>2. failing' \in BOOLEAN
    BY <1>3 DEF NextTurn
  <2>3. retry' \in 0..Retries
    BY <1>3 DEF NextTurn, Retries
  <2> QED
    BY <1>1, <1>2, <1>3, <2>1, <2>2, <2>3 DEF NextTurn
<1>4. CASE CallProvider
  BY <1>1, <1>2, <1>4 DEF CallProvider, BudgetStop, StopReasons
<1>5. CASE Consume
  BY <1>1, <1>2, <1>5 DEF Consume
<1>6. CASE Send
  <2>1. contacted' \subseteq OutDirs \X Nat
    BY <1>6 DEF Send, InvocationTypes
  <2> QED
    BY <1>1, <1>2, <1>6, <2>1 DEF Send
<1>7. CASE ProviderRaises
  BY <1>1, <1>2, <1>7 DEF ProviderRaises
<1>8. CASE \E retryable \in BOOLEAN : TransportFails(retryable)
  <2>1. stop' \in StopReasons /\ retry' \in 0..Retries
    BY <1>8 DEF TransportFails, StopReasons, Retries
  <2>2. failing' \in BOOLEAN /\ terminal' \in BOOLEAN
    BY <1>8 DEF TransportFails
  <2> QED
    BY <1>1, <1>2, <1>8, <2>1, <2>2 DEF TransportFails
<1>9. CASE ModelInvalid
  BY <1>1, <1>2, <1>9 DEF ModelInvalid
<1>10. CASE ModelStops
  BY <1>1, <1>2, <1>10 DEF ModelStops, StopReasons
<1> QED
  BY <1>3, <1>4, <1>5, <1>6, <1>7, <1>8, <1>9, <1>10 DEF Provider

\* So does an attempt on the target.
LEMMA AttemptTyped ==
    ASSUME TypeOK, Attempt
    PROVE  TypeOK'
<1> USE DEF TypeOK, Goto
<1>1. InvocationTypes'
  BY DEF Attempt, ModelRequests, Answered, TimesOut, UnchangedInS3, invocationVars,
         InvocationTypes, Labels, Off
<1>2. LoopTypes'
  <2>1. UNCHANGED <<callVars, terminal, stop, late>> /\ (invalid' = 0 \/ invalid' = invalid)
    BY DEF Attempt, ModelRequests, Answered, TimesOut, loopVars
  <2> QED
    BY <2>1 DEF callVars, LoopTypes
<1>3. ASSUME NEW effect \in Effects, ModelRequests(effect) PROVE TypeOK'
  <2>1. [effect |-> effect, stage |-> "sent"] \in Attempts
    BY SequenceAssumption DEF SequenceAssumption, Attempts
  <2>2. target' \in Seq(Attempts)
    BY <1>3, <2>1 DEF ModelRequests, EvidenceTypes
  <2> QED
    BY <1>1, <1>2, <1>3, <2>2 DEF ModelRequests, EvidenceTypes, resultVars
<1>4. CASE Answered
  <2>0. answered' = answered \cup {Len(target)}
    BY <1>4 DEF Answered
  <2>1. answered' \subseteq Nat
    BY <2>0, LenProperties DEF EvidenceTypes
  <2> QED
    BY <1>1, <1>2, <1>4, <2>1 DEF Answered, EvidenceTypes, resultVars
<1>5. CASE TimesOut
  BY <1>1, <1>2, <1>5 DEF TimesOut, EvidenceTypes, targetVars, resultVars
<1> QED
  BY <1>3, <1>4, <1>5 DEF Attempt

\* So do the reads of the target, the verdicts, the copies and the replays.
LEMMA JudgementTyped ==
    ASSUME TypeOK, Judgement
    PROVE  TypeOK'
<1> USE DEF TypeOK, Goto
<1>1. InvocationTypes'
  BY WriteTyped
     DEF Judgement, ReadRoutes, ReadRows, ReadReceipts, JudgeAttempt, WriteVerdict,
         WriteRuntime, CopyLedger, CopyTelemetry, ReplayPositiveControl, ReplayRun,
         AdjudicateSequence, UnchangedInS3, invocationVars, InvocationTypes, Labels, Off
<1>2. LoopTypes'
  BY DEF Judgement, ReadRoutes, ReadRows, ReadReceipts, JudgeAttempt, WriteVerdict,
         WriteRuntime, CopyLedger, CopyTelemetry, ReplayPositiveControl, ReplayRun,
         AdjudicateSequence, callVars, loopVars, LoopTypes, StopReasons
<1> USE <1>1, <1>2, ReadTyped DEF EvidenceTypes, targetVars, resultVars
<1>3. CASE ReadRoutes
  BY <1>3 DEF ReadRoutes, Reads, NothingSeen
<1>4. CASE ReadRows
  BY <1>4 DEF ReadRows, Reads
<1>5. CASE ReadReceipts
  BY <1>5 DEF ReadReceipts, Reads
<1>6. CASE JudgeAttempt
  BY <1>6 DEF JudgeAttempt
<1>7. CASE WriteVerdict
  BY <1>7, VerdictTyped DEF WriteVerdict
<1>8. CASE WriteRuntime
  BY <1>8 DEF WriteRuntime
<1>9. CASE CopyLedger
  BY <1>9 DEF CopyLedger, Reads
<1>10. CASE CopyTelemetry
  BY <1>10 DEF CopyTelemetry, Reads
<1>11. CASE ReplayPositiveControl
  BY <1>11 DEF ReplayPositiveControl
<1>12. CASE ReplayRun
  BY <1>12 DEF ReplayRun
<1>13. CASE AdjudicateSequence
  BY <1>13 DEF AdjudicateSequence
<1> QED
  BY <1>3, <1>4, <1>5, <1>6, <1>7, <1>8, <1>9, <1>10, <1>11, <1>12, <1>13 DEF Judgement

\* Every step keeps the types.
LEMMA TypeStep ==
    ASSUME TypeOK, [Next]_vars
    PROVE  TypeOK'
<1>1. ASSUME NEW d \in OutDirs, NEW s \in Stops, Start(d, s) PROVE TypeOK'
  BY <1>1, ForgetTyped, SequenceAssumption
     DEF Start, TypeOK, InvocationTypes, Labels, SequenceAssumption
<1>2. CASE Step
  BY <1>2, PreparationTyped, ProviderTyped, AttemptTyped, JudgementTyped DEF Step
<1>3. ASSUME NEW i \in 1..MaxTargetAttempts, TargetProgress(i) PROVE TypeOK'
  <2>1. target' \in Seq(Attempts)
    BY <1>3, ProgressTyped DEF TargetProgress, TypeOK, EvidenceTypes
  <2> QED
    BY <1>3, <2>1 DEF TargetProgress, TypeOK, InvocationTypes, LoopTypes, EvidenceTypes,
       UnchangedInS3, invocationVars, callVars, loopVars, resultVars
<1>4. CASE WallClockExpires
  BY <1>4 DEF WallClockExpires, TypeOK, InvocationTypes, LoopTypes, EvidenceTypes,
     UnchangedInS3, invocationVars, callVars, targetVars, resultVars
<1>5. CASE Kill
  BY <1>5, ForgetTyped DEF Kill, TypeOK, InvocationTypes, Labels, Off, invocationVars
<1>6. CASE UNCHANGED vars
  BY <1>6 DEF vars, TypeOK, InvocationTypes, LoopTypes, EvidenceTypes, invocationVars,
     callVars, loopVars, targetVars, resultVars
<1> QED
  BY <1>1, <1>2, <1>3, <1>4, <1>5, <1>6 DEF Next

\* The runner's state keeps its types.
THEOREM TypeCorrect == Spec => []TypeOK
  BY InitTyped, TypeStep, PTL DEF Spec

-----------------------------------------------------------------------------
(* The budgets.                                                            *)

\* Both budgets and both counters start from nothing.
LEMMA BudgetInit == ASSUME Init PROVE BudgetInv
  BY SequenceAssumption DEF Init, BudgetInv, BudgetsHold, SequenceAssumption

\* What a step does to the counters and the attempts outside the calls.
LEMMA BudgetKept ==
    ASSUME TypeOK, BudgetInv,
           UNCHANGED <<received, calls, invalid>>,
           Len(target') = Len(target) \/ Len(target') = 0,
           pc' \notin {"call", "consume", "send", "response"} \/ pc' = pc
    PROVE  BudgetInv'
<1>1. Len(target) \in Nat
  BY LenProperties DEF TypeOK, EvidenceTypes
<1> QED
  BY <1>1, SequenceAssumption
     DEF BudgetInv, BudgetsHold, TypeOK, LoopTypes, SequenceAssumption

\* Every step keeps the budgets.
LEMMA BudgetStep ==
    ASSUME TypeOK, BudgetInv, [Next]_vars
    PROVE  BudgetInv'
<1>1. Len(target) \in Nat /\ Len(<<>>) = 0
  BY LenProperties DEF TypeOK, EvidenceTypes
<1>2. calls \in Nat /\ received \in Nat /\ invalid \in Nat
  BY DEF TypeOK, LoopTypes
<1>3. MaxProviderCalls \in Nat /\ MaxTargetAttempts \in Nat /\ MaxInvalidOutputs \in Nat
  BY SequenceAssumption DEF SequenceAssumption
<1>4. CASE Forget /\ pc' \in {"s0", "killed"}
  BY <1>1, <1>3, <1>4 DEF Forget, BudgetInv, BudgetsHold
<1>5. CASE Preparation
  <2>1. target' = target \/ target' = <<>>
    BY <1>5 DEF Preparation, RunS0, WriteS0, RunS1, RunS1A, WriteSeal, RunS2,
       VerifyPreflight, EnterS3, Raises, targetVars
  <2>2. UNCHANGED <<received, calls, invalid>>
    BY <1>5 DEF Preparation, RunS0, WriteS0, RunS1, RunS1A, WriteSeal, RunS2,
       VerifyPreflight, EnterS3, UnchangedBeforeS3, callVars, loopVars
  <2>3. pc' \notin {"call", "consume", "send", "response"}
    BY <1>5 DEF Preparation, RunS0, WriteS0, RunS1, RunS1A, WriteSeal, RunS2,
       VerifyPreflight, EnterS3, Raises, Goto, EndAfter
  <2> QED
    BY <1>1, <2>1, <2>2, <2>3, BudgetKept
<1>6. CASE Judgement
  <2>1. UNCHANGED <<target, received, calls, invalid>>
    BY <1>6 DEF Judgement, ReadRoutes, ReadRows, ReadReceipts, JudgeAttempt, WriteVerdict,
       WriteRuntime, CopyLedger, CopyTelemetry, ReplayPositiveControl, ReplayRun,
       AdjudicateSequence, callVars, loopVars, targetVars
  <2>2. pc' \notin {"call", "consume", "send", "response"}
    BY <1>6 DEF Judgement, ReadRoutes, ReadRows, ReadReceipts, JudgeAttempt, WriteVerdict,
       WriteRuntime, CopyLedger, CopyTelemetry, ReplayPositiveControl, ReplayRun,
       AdjudicateSequence, Goto
  <2> QED
    BY <2>1, <2>2, BudgetKept
<1>7. CASE NextTurn
  <2>1. UNCHANGED <<target, received, calls, invalid>>
    BY <1>7 DEF NextTurn, targetVars
  <2>2. pc' = "call" => Len(target) < MaxTargetAttempts /\ invalid < MaxInvalidOutputs
    BY <1>1, <1>2, <1>3, <1>7 DEF NextTurn, Goto, LoopStop
  <2>3. pc' \in {"call", "read_routes"}
    BY <1>7 DEF NextTurn, Goto
  <2> QED
    BY <2>1, <2>2, <2>3 DEF BudgetInv, BudgetsHold
<1>8. CASE CallProvider
  <2>1. UNCHANGED <<target, received, invalid>>
    BY <1>8 DEF CallProvider, targetVars
  <2>2. \/ pc' = "read_routes" /\ calls' = calls
        \/ pc' = "consume" /\ calls' = calls + 1 /\ calls < MaxProviderCalls
    BY <1>2, <1>3, <1>8 DEF CallProvider, Goto, BudgetStop
  <2> QED
    BY <1>2, <1>3, <1>8, <2>1, <2>2 DEF CallProvider, BudgetInv, BudgetsHold
<1>9. CASE Consume
  BY <1>9 DEF Consume, Goto, loopVars, targetVars, BudgetInv, BudgetsHold
<1>10. CASE Send
  BY <1>1, <1>2, <1>10 DEF Send, Goto, loopVars, targetVars, BudgetInv, BudgetsHold
<1>11. CASE ProviderRaises
  BY <1>11, BudgetKept DEF ProviderRaises, Goto, callVars, loopVars, targetVars
<1>12. CASE \E retryable \in BOOLEAN : TransportFails(retryable)
  BY <1>12 DEF TransportFails, Goto, targetVars, BudgetInv, BudgetsHold
<1>13. CASE ModelInvalid
  BY <1>1, <1>2, <1>3, <1>13
     DEF ModelInvalid, Goto, callVars, targetVars, BudgetInv, BudgetsHold
<1>14. CASE ModelStops
  BY <1>1, <1>2, <1>3, <1>14
     DEF ModelStops, Goto, callVars, targetVars, BudgetInv, BudgetsHold
<1>15. CASE \E effect \in Effects : ModelRequests(effect)
  <2>1. Len(target') = Len(target) + 1
    BY <1>15 DEF ModelRequests, TypeOK, EvidenceTypes
  <2>2. invalid' = 0 /\ UNCHANGED <<received, calls>> /\ pc = "response" /\ pc' = "await"
    BY <1>15 DEF ModelRequests, Goto, callVars
  <2> QED
    BY <1>1, <1>2, <1>3, <2>1, <2>2 DEF BudgetInv, BudgetsHold
<1>16. CASE Answered \/ TimesOut
  BY <1>16, BudgetKept DEF Answered, TimesOut, Goto, callVars, loopVars, targetVars
<1>17. ASSUME NEW i \in 1..MaxTargetAttempts, TargetProgress(i) PROVE BudgetInv'
  <2>1. Len(target') = Len(target)
    BY <1>17 DEF TargetProgress, TypeOK, EvidenceTypes
  <2> QED
    BY <1>17, <2>1, BudgetKept DEF TargetProgress, callVars, loopVars
<1>18. CASE WallClockExpires
  BY <1>18, BudgetKept DEF WallClockExpires, callVars, targetVars
<1>19. CASE UNCHANGED vars
  BY <1>19, BudgetKept DEF vars, callVars, loopVars, targetVars
<1> QED
  BY <1>4, <1>5, <1>6, <1>7, <1>8, <1>9, <1>10, <1>11, <1>12, <1>13, <1>14, <1>15, <1>16,
     <1>17, <1>18, <1>19 DEF Next, Step, Provider, Attempt, Start, Kill

\* Whatever the budgets are, retries, invalid answers and attempts stay within
\* them together.
THEOREM BudgetsAlwaysHold == Spec => []BudgetsHold
<1>1. TypeOK /\ BudgetInv /\ [Next]_vars => BudgetInv'
  BY BudgetStep
<1>2. BudgetInv => BudgetsHold
  BY DEF BudgetInv
<1> QED
  BY BudgetInit, TypeCorrect, <1>1, <1>2, PTL DEF Spec

-----------------------------------------------------------------------------
(* What is on disk, and who contacted the provider.                        *)

\* A write gives the artifacts it names to this invocation and touches no other.
LEMMA WriteEffect ==
    ASSUME InvocationTypes, NEW artifacts, Write(artifacts)
    PROVE  \A d \in OutDirs, a \in Artifacts :
              disk'[d][a] = IF d = out /\ a \in artifacts THEN run ELSE disk[d][a]
  BY DEF InvocationTypes, Write

\* A step of the runner writes artifacts or none, under its own number.
LEMMA StepWrites ==
    ASSUME Step
    PROVE  /\ UNCHANGED invocationVars
           /\ UNCHANGED disk \/ \E artifacts \in SUBSET Artifacts : Write(artifacts)
<1>1. CASE Preparation
  BY <1>1 DEF Preparation, RunS0, WriteS0, RunS1, RunS1A, WriteSeal, RunS2,
     VerifyPreflight, EnterS3, Raises, UnchangedBeforeS3, Artifacts
<1>2. CASE Provider
  BY <1>2 DEF Provider, NextTurn, CallProvider, Consume, Send, ProviderRaises,
     TransportFails, ModelInvalid, ModelStops, UnchangedInS3
<1>3. CASE Attempt
  BY <1>3 DEF Attempt, ModelRequests, Answered, TimesOut, UnchangedInS3
<1>4. CASE Judgement
  BY <1>4 DEF Judgement, ReadRoutes, ReadRows, ReadReceipts, JudgeAttempt, WriteVerdict,
     WriteRuntime, CopyLedger, CopyTelemetry, ReplayPositiveControl, ReplayRun,
     AdjudicateSequence, UnchangedInS3, Artifacts
<1> QED
  BY <1>1, <1>2, <1>3, <1>4 DEF Step

\* So an artifact stays what it was or becomes this invocation's.
LEMMA StepKeepsDisk ==
    ASSUME InvocationTypes, Step
    PROVE  /\ run' = run /\ out' = out /\ stopAfter' = stopAfter
           /\ \A d \in OutDirs, a \in Artifacts :
                 disk'[d][a] = disk[d][a] \/ (d = out /\ disk'[d][a] = run)
  BY StepWrites, WriteEffect DEF invocationVars

\* The first gate is decided while the directory is as the decision found it.
LEMMA FreshStep ==
    ASSUME ContactInv, Step, pc' = "s0_write", gates'.s0, InvocationTypes
    PROVE  Fresh(out)'
<1>1. CASE RunS0
  BY <1>1 DEF RunS0, Raises, Goto, UnchangedBeforeS3, invocationVars, Fresh, InvocationTypes
<1>2. pc' = "s0_write" => RunS0
  BY DEF Step, Preparation, WriteS0, RunS1, RunS1A, WriteSeal, RunS2, VerifyPreflight,
     EnterS3, Raises, Goto, EndAfter, Provider, NextTurn, CallProvider, Consume, Send,
     ProviderRaises, TransportFails, ModelInvalid, ModelStops, Attempt, ModelRequests,
     Answered, TimesOut, Judgement, ReadRoutes, ReadRows, ReadReceipts, JudgeAttempt,
     WriteVerdict, WriteRuntime, CopyLedger, CopyTelemetry, ReplayPositiveControl,
     ReplayRun, AdjudicateSequence
<1> QED
  BY <1>1, <1>2

\* The stages behind S0 are reached through S0's write, with its gate open.
LEMMA AfterS0Step ==
    ASSUME Step, pc' \in AfterS0
    PROVE  pc \in AfterS0 \/ (WriteS0 /\ gates.s0)
  BY DEF Step, Preparation, RunS0, WriteS0, RunS1, RunS1A, WriteSeal, RunS2,
     VerifyPreflight, EnterS3, Raises, Goto, EndAfter, Provider, NextTurn, CallProvider,
     Consume, Send, ProviderRaises, TransportFails, ModelInvalid, ModelStops, Attempt,
     ModelRequests, Answered, TimesOut, Judgement, ReadRoutes, ReadRows, ReadReceipts,
     JudgeAttempt, WriteVerdict, WriteRuntime, CopyLedger, CopyTelemetry,
     ReplayPositiveControl, ReplayRun, AdjudicateSequence, AfterS0, Labels, Off

\* Only Send contacts the provider.
LEMMA ContactedStep ==
    ASSUME Step
    PROVE  contacted' = contacted \/ Send
  BY DEF Step, Preparation, RunS0, WriteS0, RunS1, RunS1A, WriteSeal, RunS2,
     VerifyPreflight, EnterS3, UnchangedBeforeS3, callVars, Provider, NextTurn,
     CallProvider, Consume, ProviderRaises, TransportFails, ModelInvalid, ModelStops,
     Attempt, ModelRequests, Answered, TimesOut, Judgement, ReadRoutes, ReadRows,
     ReadReceipts, JudgeAttempt, WriteVerdict, WriteRuntime, CopyLedger, CopyTelemetry,
     ReplayPositiveControl, ReplayRun, AdjudicateSequence

\* What a step that leaves the disk, the contacts and the first gate alone keeps.
LEMMA ContactKept ==
    ASSUME ContactInv, UNCHANGED <<disk, contacted, out, run>>, gates'.s0 = gates.s0,
           pc' = pc \/ (pc' \notin AfterS0 \cup {"s0_write"} /\ run > 0)
    PROVE  ContactInv'
  BY DEF ContactInv, OneContactPerDirectory, Fresh, OnDisk

\* Every step of the runner keeps what is known of directories and contacts.
LEMMA ContactStepOfStep ==
    ASSUME TypeOK, ContactInv, Step
    PROVE  ContactInv'
<1> USE DEF TypeOK
<1>1. InvocationTypes /\ contacted \subseteq OutDirs \X Nat /\ run \in Nat /\ out \in OutDirs
  BY DEF InvocationTypes, LoopTypes
<1>2. /\ run' = run /\ out' = out
      /\ \A d \in OutDirs, a \in Artifacts :
            disk'[d][a] = disk[d][a] \/ (d = out /\ disk'[d][a] = run)
  BY <1>1, StepKeepsDisk
<1>3. pc # "off" /\ run > 0
  BY DEF ContactInv, Step, Preparation, RunS0, WriteS0, RunS1, RunS1A, WriteSeal, RunS2,
     VerifyPreflight, EnterS3, Provider, NextTurn, CallProvider,
     Consume, Send, ProviderRaises, TransportFails, ModelInvalid, ModelStops, Attempt,
     ModelRequests, Answered, TimesOut, Judgement, ReadRoutes, ReadRows, ReadReceipts,
     JudgeAttempt, WriteVerdict, WriteRuntime, CopyLedger, CopyTelemetry,
     ReplayPositiveControl, ReplayRun, AdjudicateSequence
<1>4. "S0_PREFLIGHT" \in Artifacts
  BY DEF Artifacts
<1>5. Send => pc \in AfterS0
  BY DEF Send, AfterS0, Labels, Off
<1>6. contacted' = contacted \/ (pc \in AfterS0 /\ contacted' = contacted \cup {<<out, run>>})
  BY <1>5, ContactedStep DEF Send
<1>7. OneContactPerDirectory'
  BY <1>1, <1>6 DEF ContactInv, OneContactPerDirectory
<1>8. \A c \in contacted' : disk'[c[1]]["S0_PREFLIGHT"] # 0
  <2>1. \A c \in contacted : disk'[c[1]]["S0_PREFLIGHT"] # 0
    BY <1>1, <1>2, <1>3, <1>4 DEF ContactInv
  <2>2. pc \in AfterS0 => disk'[out]["S0_PREFLIGHT"] # 0
    BY <1>1, <1>2, <1>3, <1>4 DEF ContactInv, OnDisk
  <2> QED
    BY <1>6, <2>1, <2>2
<1>9. (pc = "s0_write" /\ gates.s0 => Fresh(out))'
  BY <1>1, FreshStep
<1>10. (pc \in AfterS0 =>
          /\ OnDisk("S0_PREFLIGHT") /\ \A a \in Artifacts : disk[out][a] \in {0, run}
          /\ \A c \in contacted : c[1] = out => c[2] = run)'
  <2>1. CASE pc \in AfterS0
    BY <1>1, <1>2, <1>4, <1>6, <2>1 DEF ContactInv, OnDisk
  <2>2. CASE WriteS0 /\ gates.s0
    <3>1. Fresh(out) /\ Write({"S0_PREFLIGHT"}) /\ contacted' = contacted
      BY <2>2 DEF WriteS0, ContactInv, UnchangedBeforeS3, callVars
    <3>2. \A a \in Artifacts : disk'[out][a] = IF a = "S0_PREFLIGHT" THEN run ELSE 0
      BY <1>1, <3>1, WriteEffect DEF Fresh
    <3>3. \A c \in contacted : c[1] # out
      BY <1>4, <3>1 DEF Fresh, ContactInv
    <3> QED
      BY <1>2, <1>4, <3>1, <3>2, <3>3 DEF OnDisk
  <2> QED
    BY <2>1, <2>2, AfterS0Step
<1> QED
  BY <1>2, <1>3, <1>7, <1>8, <1>9, <1>10 DEF ContactInv

\* Every step keeps what is known of the directories and the contacts.
LEMMA ContactStep ==
    ASSUME TypeOK, ContactInv, [Next]_vars
    PROVE  ContactInv'
<1>1. CASE Step
  BY <1>1, ContactStepOfStep
<1>2. ASSUME NEW d \in OutDirs, NEW s \in Stops, Start(d, s) PROVE ContactInv'
  BY <1>2 DEF Start, Forget, TypeOK, InvocationTypes, ContactInv, OneContactPerDirectory,
     AfterS0, Labels
<1>3. CASE Kill
  BY <1>3 DEF Kill, Forget, invocationVars, ContactInv, OneContactPerDirectory,
     AfterS0, Labels, Off
<1>4. ASSUME NEW i \in 1..MaxTargetAttempts, TargetProgress(i) PROVE ContactInv'
  BY <1>4, ContactKept DEF TargetProgress, UnchangedInS3, invocationVars, callVars
<1>5. CASE WallClockExpires
  BY <1>5, ContactKept DEF WallClockExpires, UnchangedInS3, invocationVars, callVars
<1>6. CASE UNCHANGED vars
  BY <1>6, ContactKept DEF vars, invocationVars, callVars
<1> QED
  BY <1>1, <1>2, <1>3, <1>4, <1>5, <1>6 DEF Next

\* No invocation has contacted anyone in the initial state.
LEMMA ContactInit == ASSUME Init PROVE ContactInv
  BY DEF Init, ContactInv, OneContactPerDirectory, AfterS0, Labels, Off

\* What is known of the directories and the contacts holds in every reachable state.
LEMMA ContactInvariant == Spec => []ContactInv
<1>1. TypeOK /\ ContactInv /\ [Next]_vars => ContactInv'
  BY ContactStep
<1> QED
  BY ContactInit, TypeCorrect, <1>1, PTL DEF Spec

\* However often the runner is killed and started again over whatever directories,
\* at most one invocation contacts the provider from each of them.
THEOREM OneContact == Spec => []OneContactPerDirectory
<1>1. ContactInv => OneContactPerDirectory
  BY DEF ContactInv
<1> QED
  BY ContactInvariant, <1>1, PTL

\* Once S0's gate let an invocation into a directory, everything it finds there is
\* its own, so it replaces nothing; S0 itself writes only its own file.
THEOREM EvidenceSurvives == Spec => EvidenceIsKept
<1> DEFINE Kept == \A d \in OutDirs, a \in Artifacts \ {"S0_PREFLIGHT"} :
                      disk[d][a] # 0 => disk'[d][a] = disk[d][a]
<1>1. ASSUME TypeOK, ContactInv, [Next]_vars PROVE Kept
  <2>1. InvocationTypes
    BY <1>1 DEF TypeOK
  <2>2. CASE Step
    <3>1. CASE pc \in AfterS0
      BY <1>1, <2>1, <2>2, <3>1, StepKeepsDisk DEF ContactInv, InvocationTypes, Kept
    <3>2. CASE WriteS0
      BY <2>1, <3>2, WriteEffect DEF WriteS0, Kept
    <3>3. CASE pc \notin AfterS0 /\ ~ WriteS0
      <4>1. UNCHANGED disk
        BY <2>2, <3>3
           DEF Step, Preparation, RunS0, RunS1, RunS1A, WriteSeal, RunS2,
           VerifyPreflight, EnterS3, Raises, Provider, NextTurn, CallProvider, Consume,
           Send, ProviderRaises, TransportFails, ModelInvalid, ModelStops, Attempt,
           ModelRequests, Answered, TimesOut, Judgement, ReadRoutes, ReadRows,
           ReadReceipts, JudgeAttempt, WriteVerdict, WriteRuntime, CopyLedger,
           CopyTelemetry, ReplayPositiveControl, ReplayRun, AdjudicateSequence, AfterS0,
           Labels, Off
      <4> QED
        BY <4>1 DEF Kept
    <3> QED
      BY <3>1, <3>2, <3>3
  <2>3. CASE ~ Step
    <3>1. UNCHANGED disk
      BY <1>1, <2>3 DEF Next, Start, Forget, TargetProgress, WallClockExpires, Kill, vars
    <3> QED
      BY <3>1 DEF Kept
  <2> QED
    BY <2>2, <2>3
<1>2. TypeOK /\ ContactInv /\ [Next]_vars => [Kept]_vars
  BY <1>1
<1> QED
  BY ContactInvariant, TypeCorrect, <1>2, PTL DEF Spec, EvidenceIsKept, Kept

-----------------------------------------------------------------------------
(* The order of the stages and what each leaves for the next.              *)

\* What is this invocation's on disk stays so through a step of the runner.
LEMMA OnDiskKept ==
    ASSUME InvocationTypes, Step, NEW a \in Artifacts, OnDisk(a)
    PROVE  OnDisk(a)'
  BY StepKeepsDisk DEF OnDisk, InvocationTypes

\* What it writes is its own.
LEMMA WrittenOnDisk ==
    ASSUME InvocationTypes, NEW artifacts \in SUBSET Artifacts, Write(artifacts),
           UNCHANGED invocationVars, NEW a \in artifacts
    PROVE  OnDisk(a)'
  BY WriteEffect DEF OnDisk, InvocationTypes, invocationVars

\* The run and its adjudication never go back to a stage before them, leave the
\* gates alone, and send only with the authorization consumed.
LEMMA RunOrder ==
    ASSUME Provider \/ Attempt \/ Judgement
    PROVE  /\ pc \in AfterReset \ {"preflight", "keys"}
           /\ pc' \in (AfterReset \ {"preflight", "keys"}) \cup Off
           /\ pc' \in InS3 => pc \in InS3
           /\ pc' = "send" => consumed'
           /\ UNCHANGED <<invocationVars, gates, pcState>>
<1> USE DEF Goto, UnchangedInS3, AfterReset, AfterSeal, AfterControl, AfterS0, InS3,
            Labels, Off
<1>1. CASE Provider
  BY <1>1 DEF Provider, NextTurn, CallProvider, Consume, Send, ProviderRaises,
     TransportFails, ModelInvalid, ModelStops
<1>2. CASE Attempt
  BY <1>2 DEF Attempt, ModelRequests, Answered, TimesOut
<1>3. CASE Judgement
  BY <1>3 DEF Judgement, ReadRoutes, ReadRows, ReadReceipts, JudgeAttempt, WriteVerdict,
     WriteRuntime, CopyLedger, CopyTelemetry, ReplayPositiveControl, ReplayRun,
     AdjudicateSequence
<1> QED
  BY <1>1, <1>2, <1>3

\* The run, its verdicts and its replay keep what the stages before it left.
LEMMA PathOfRun ==
    ASSUME InvocationTypes, PathInv, Provider \/ Attempt \/ Judgement
    PROVE  PathInv'
<1>1. Step
  BY DEF Step
<1>2. /\ OnDisk("positive-control")' /\ OnDisk("SEAL")' /\ OnDisk("RESET_ATTESTATION")'
      /\ pc \in InS3 => OnDisk("context")'
      /\ pc \in InS3 /\ PreflightRequired => OnDisk("PREFLIGHT_GATE")'
  BY <1>1, OnDiskKept, RunOrder
     DEF PathInv, AfterReset, AfterSeal, AfterControl, Artifacts
<1> QED
  BY <1>2, RunOrder
     DEF PathInv, invocationVars, S3Eligible, AfterReset, AfterSeal, AfterControl, AfterS0,
         InS3, Labels, Off

\* Each stage of the preparation leaves its artifact for the next.
LEMMA PathOfPreparation ==
    ASSUME InvocationTypes, PathInv, Preparation
    PROVE  PathInv'
<1> USE DEF Goto, EndAfter, AfterReset, AfterSeal, AfterControl, AfterS0, InS3, Labels, Off
<1>1. Step
  BY DEF Step
<1>2. UNCHANGED invocationVars /\ stopAfter' = stopAfter
  BY DEF Preparation, RunS0, WriteS0, RunS1, RunS1A, WriteSeal, RunS2, VerifyPreflight,
     EnterS3, UnchangedBeforeS3, invocationVars
<1>3. \A a \in Artifacts : OnDisk(a) => OnDisk(a)'
  BY <1>1, OnDiskKept
<1>4. CASE RunS0
  BY <1>4 DEF RunS0, Raises, PathInv
<1>5. CASE WriteS0
  BY <1>2, <1>5 DEF WriteS0, PathInv
<1>6. CASE RunS1
  BY <1>2, <1>6 DEF RunS1, Raises, PathInv
<1>7. CASE RunS1A
  <2>1. OnDisk("positive-control")'
    BY <1>2, <1>7, WrittenOnDisk DEF RunS1A, Artifacts
  <2> QED
    BY <1>2, <1>7, <2>1 DEF RunS1A, PathInv
<1>8. CASE WriteSeal
  <2>1. OnDisk("SEAL")'
    BY <1>2, <1>8, WrittenOnDisk DEF WriteSeal, Artifacts
  <2>2. OnDisk("positive-control")'
    BY <1>3, <1>8 DEF WriteSeal, PathInv, Artifacts
  <2> QED
    BY <1>2, <1>8, <2>1, <2>2 DEF WriteSeal, PathInv
<1>9. CASE RunS2
  <2>1. pc' = "preflight" => OnDisk("RESET_ATTESTATION")' /\ pcState' = "destroyed"
    BY <1>2, <1>9, WrittenOnDisk DEF RunS2, Raises, Artifacts
  <2>2. OnDisk("positive-control")' /\ OnDisk("SEAL")'
    BY <1>3, <1>9 DEF RunS2, PathInv, Artifacts
  <2>3. pc' \in {"raised", "preflight", "ended"}
    BY <1>9 DEF RunS2, Raises
  <2> QED
    BY <1>2, <1>9, <2>1, <2>2, <2>3 DEF RunS2, PathInv
<1>10. CASE VerifyPreflight
  <2>1. PreflightRequired => OnDisk("PREFLIGHT_GATE")'
    BY <1>2, <1>10, WrittenOnDisk DEF VerifyPreflight, Artifacts
  <2>2. OnDisk("positive-control")' /\ OnDisk("SEAL")' /\ OnDisk("RESET_ATTESTATION")'
    BY <1>3, <1>10 DEF VerifyPreflight, PathInv, Artifacts
  <2> QED
    BY <1>2, <1>10, <2>1, <2>2 DEF VerifyPreflight, PathInv
<1>11. CASE EnterS3
  <2>1. pc' = "turn" => OnDisk("context")' /\ S3Eligible' /\ pcState' = pcState
    BY <1>2, <1>11, WrittenOnDisk DEF EnterS3, Raises, Artifacts, S3Eligible
  <2>2. /\ OnDisk("positive-control")' /\ OnDisk("SEAL")' /\ OnDisk("RESET_ATTESTATION")'
        /\ PreflightRequired => OnDisk("PREFLIGHT_GATE")'
    BY <1>3, <1>11 DEF EnterS3, PathInv, Artifacts
  <2>3. pc' \in {"raised", "turn"}
    BY <1>11 DEF EnterS3, Raises
  <2> QED
    BY <1>2, <1>11, <2>1, <2>2, <2>3 DEF EnterS3, PathInv
<1> QED
  BY <1>4, <1>5, <1>6, <1>7, <1>8, <1>9, <1>10, <1>11 DEF Preparation

\* Every step keeps what the stages behind an invocation have left.
LEMMA PathStep ==
    ASSUME TypeOK, PathInv, [Next]_vars
    PROVE  PathInv'
<1>1. InvocationTypes
  BY DEF TypeOK
<1>2. CASE Step
  BY <1>1, <1>2, PathOfRun, PathOfPreparation DEF Step
<1>3. CASE pc' \in {"s0", "killed"}
  BY <1>3 DEF PathInv, AfterReset, AfterSeal, AfterControl, AfterS0, InS3, Labels, Off
<1>4. CASE UNCHANGED <<pc, disk, gates, pcState, invocationVars>> /\ consumed' = consumed
  BY <1>4 DEF PathInv, S3Eligible, OnDisk, invocationVars
<1> QED
  BY <1>2, <1>3, <1>4
     DEF Next, Start, Kill, TargetProgress, WallClockExpires, UnchangedInS3, callVars, vars

\* What the stages leave behind holds in every reachable state.
LEMMA PathInvariant == Spec => []PathInv
<1>1. Init => PathInv
  BY DEF Init, PathInv, AfterReset, AfterSeal, AfterControl, AfterS0, InS3, Labels, Off
<1>2. TypeOK /\ PathInv /\ [Next]_vars => PathInv'
  BY PathStep
<1> QED
  BY TypeCorrect, <1>1, <1>2, PTL DEF Spec

\* No request reaches the provider before the control is preserved and sealed, its
\* state destroyed, the reset attested, the preflight passed and the
\* authorization consumed, whatever the order of options, kills and reruns.
THEOREM GatesComeFirst == Spec => NoRequestBeforeGates
<1> DEFINE Gated == received' # received /\ received' > 0 =>
        /\ \A a \in {"S0_PREFLIGHT", "positive-control", "SEAL", "RESET_ATTESTATION",
                     "context"} : OnDisk(a)
        /\ PreflightRequired => OnDisk("PREFLIGHT_GATE") /\ gates.preflight
        /\ pcState = "destroyed"
        /\ stopAfter > 4
        /\ consumed
<1>1. ASSUME TypeOK, ContactInv, PathInv, [Next]_vars PROVE [Gated]_vars
  <2>1. CASE Send
    <3>1. pc \in InS3 \cap AfterS0 \cap AfterControl \cap AfterSeal \cap AfterReset
      BY <2>1 DEF Send, InS3, AfterReset, AfterSeal, AfterControl, AfterS0, Labels, Off
    <3>2. stopAfter \in 1..6 /\ stopAfter \notin {1, 2, 3, 4}
      BY <1>1, <3>1 DEF TypeOK, InvocationTypes, Stages, PathInv, InS3, AfterReset,
         AfterSeal, AfterControl, AfterS0, Labels, Off
    <3> QED
      BY <1>1, <2>1, <3>1, <3>2 DEF Send, ContactInv, PathInv, S3Eligible
  <2>2. CASE ~ Send
    <3>1. received' = received \/ received' = 0
      BY <1>1, <2>2
         DEF Next, Start, Kill, Forget, TargetProgress, WallClockExpires, Step,
         Preparation, RunS0, WriteS0, RunS1, RunS1A, WriteSeal, RunS2,
         VerifyPreflight, EnterS3, UnchangedBeforeS3, callVars, Provider, NextTurn,
         CallProvider, Consume, ProviderRaises, TransportFails, ModelInvalid, ModelStops,
         Attempt, ModelRequests, Answered, TimesOut, Judgement, ReadRoutes, ReadRows,
         ReadReceipts, JudgeAttempt, WriteVerdict, WriteRuntime, CopyLedger, CopyTelemetry,
         ReplayPositiveControl, ReplayRun, AdjudicateSequence, vars
    <3> QED
      BY <3>1
  <2> QED
    BY <2>1, <2>2
<1>2. TypeOK /\ ContactInv /\ PathInv /\ [Next]_vars => [Gated]_vars
  BY <1>1
<1> QED
  BY TypeCorrect, ContactInvariant, PathInvariant, <1>2, PTL
     DEF Spec, NoRequestBeforeGates, Gated

-----------------------------------------------------------------------------
(* The attempts, the verdict published of them and its adjudication.       *)

\* The threads of the target only add rows, receipts and arrivals, change no attempt
\* that is done, and neither make nor unmake a crossing: what the one authorization
\* refuses of a thread was covered.
LEMMA TargetGrows ==
    ASSUME TypeOK, NEW k, TargetProgress(k)
    PROVE  /\ Len(target') = Len(target) /\ DOMAIN target' = DOMAIN target
           /\ Ledger(target) \subseteq Ledger(target')
           /\ Receipts(target) \subseteq Receipts(target')
           /\ ObservedRoutes(target) \subseteq ObservedRoutes(target')
           /\ \A i \in DOMAIN target :
                 /\ target[i].stage = "done" => target'[i] = target[i]
                 /\ (target'[i].effect = "crossing") = (target[i].effect = "crossing")
<1>1. PICK next \in Progress(target, k) : target' = [target EXCEPT ![k] = next]
  BY DEF TargetProgress
<1>2. target \in Seq(Attempts) /\ k \in DOMAIN target /\ target[k].stage # "done"
  BY DEF TargetProgress, TypeOK, EvidenceTypes
<1>3. target[k] \in Attempts
  BY <1>2
<1>4. /\ Len(target') = Len(target) /\ DOMAIN target' = DOMAIN target /\ target'[k] = next
      /\ \A i \in DOMAIN target : i # k => target'[i] = target[i]
  BY <1>1, <1>2
<1>5. /\ target[k].stage # "sent" => next.effect = target[k].effect
      /\ target[k].stage = "sent" =>
            (next.effect = "crossing") = (target[k].effect = "crossing")
      /\ target[k].stage # "sent" => next.stage # "sent"
      /\ target[k].stage = "observed" => next.stage = "done"
  BY <1>1, <1>3 DEF Progress, Attempts, AllEffects, Committing, Covered
<1>6. Ledger(target) \subseteq Ledger(target')
  BY <1>4, <1>5 DEF Ledger
<1>7. Receipts(target) \subseteq Receipts(target')
  BY <1>2, <1>4, <1>5 DEF Receipts
<1>8. ObservedRoutes(target) \subseteq ObservedRoutes(target')
  BY <1>2, <1>4, <1>5 DEF ObservedRoutes
<1> QED
  BY <1>2, <1>4, <1>5, <1>6, <1>7, <1>8

\* The preparation starts and ends with no attempt, no read and no copy, and
\* reaches the run only through the open gates.
LEMMA CourseOfPreparation ==
    ASSUME CourseInv, Preparation
    PROVE  CourseInv'
<1> USE DEF Goto, EndAfter, CourseInv, Preparing, Replaying, Copying, Published
<1>1. pc \in Preparing /\ pc' \in Preparing \cup {"turn", "replay_pc", "ended", "raised"}
  BY DEF Preparation, RunS0, WriteS0, RunS1, RunS1A, WriteSeal, RunS2, VerifyPreflight,
     EnterS3, Raises
<1>2. target' = <<>> /\ UNCHANGED <<answered, seen>>
  BY DEF Preparation, RunS0, WriteS0, RunS1, RunS1A, WriteSeal, RunS2, VerifyPreflight,
     EnterS3, Raises, targetVars
<1>3. UNCHANGED resultVars
  BY DEF Preparation, RunS0, WriteS0, RunS1, RunS1A, WriteSeal, RunS2, VerifyPreflight,
     EnterS3, UnchangedBeforeS3
<1> QED
  BY <1>1, <1>2, <1>3 DEF resultVars

\* Calls and attempts come before the verdict and after the authorization is spent.
LEMMA CourseOfTurn ==
    ASSUME TypeOK, PathInv, CourseInv, Provider \/ Attempt
    PROVE  CourseInv'
<1> USE DEF Goto, CourseInv, Preparing, Replaying, Copying, Published
<1>1. /\ pc \in {"turn", "call", "consume", "send", "response", "await"}
      /\ pc' \in {"turn", "call", "consume", "send", "response", "await", "raised",
                  "read_routes"}
  BY DEF Provider, NextTurn, CallProvider, Consume, Send, ProviderRaises,
     TransportFails, ModelInvalid, ModelStops, Attempt, ModelRequests, Answered, TimesOut
<1>2. UNCHANGED resultVars
  BY DEF Provider, NextTurn, CallProvider, Consume, Send, ProviderRaises,
     TransportFails, ModelInvalid, ModelStops, Attempt, ModelRequests, Answered, TimesOut
<1>3. consumed => consumed'
  BY DEF Provider, NextTurn, CallProvider, Consume, Send, ProviderRaises, callVars,
     TransportFails, ModelInvalid, ModelStops, Attempt, ModelRequests, Answered, TimesOut
<1>4. target' = target \/ (pc = "response" /\ target' # <<>>)
  <2>1. ASSUME NEW effect \in Effects, ModelRequests(effect) PROVE target' # <<>>
    BY <2>1 DEF ModelRequests, TypeOK, EvidenceTypes
  <2> QED
    BY <2>1 DEF Provider, NextTurn, CallProvider, Consume, Send, ProviderRaises, targetVars,
     TransportFails, ModelInvalid, ModelStops, Attempt, ModelRequests, Answered, TimesOut
<1>5. (pc' = "response" => consumed) /\ (pc' = "await" => target' # <<>>)
  <2>1. ASSUME NEW effect \in Effects, ModelRequests(effect) PROVE target' # <<>>
    BY <2>1 DEF ModelRequests, TypeOK, EvidenceTypes
  <2> QED
    BY <1>1, <2>1 DEF PathInv, Provider, NextTurn, CallProvider, Consume, Send, ProviderRaises,
     TransportFails, ModelInvalid, ModelStops, Attempt, ModelRequests, Answered, TimesOut
<1> QED
  BY <1>1, <1>2, <1>3, <1>4, <1>5 DEF resultVars

\* The verdict is published with the gates open, the stores are on disk before the
\* replay, and the adjudication ends the invocation.
LEMMA CourseOfJudgement ==
    ASSUME TypeOK, PathInv, CourseInv, Judgement
    PROVE  CourseInv'
<1> USE DEF Goto, CourseInv, Preparing, Replaying, Copying, Published
<1>1. /\ UNCHANGED <<callVars, target, answered, gates, invocationVars>>
      /\ S3Eligible' = S3Eligible
  BY DEF Judgement, ReadRoutes, ReadRows, ReadReceipts, JudgeAttempt, WriteVerdict,
     WriteRuntime, CopyLedger, CopyTelemetry, ReplayPositiveControl, ReplayRun,
     AdjudicateSequence, UnchangedInS3, targetVars, S3Eligible
<1>2. CASE ReadRoutes \/ ReadRows \/ ReadReceipts \/ JudgeAttempt
  <2>1. /\ pc \notin Published \cup Preparing \cup {"ended", "response"}
        /\ pc' \notin Published \cup Preparing \cup {"ended", "response", "await"}
        /\ UNCHANGED resultVars
    BY <1>2 DEF ReadRoutes, ReadRows, ReadReceipts, JudgeAttempt
  <2> QED
    BY <1>1, <2>1 DEF callVars, resultVars
<1>3. CASE WriteVerdict
  <2>1. S3Eligible
    BY <1>3 DEF WriteVerdict, PathInv, InS3, AfterReset, AfterSeal, AfterControl, AfterS0,
       Labels, Off
  <2>2. runtime' \in Verdicts
    BY <1>3, VerdictTyped DEF WriteVerdict, TypeOK, EvidenceTypes
  <2>3. None \notin Verdicts
    BY SequenceAssumption DEF SequenceAssumption
  <2> QED
    BY <1>1, <1>3, <2>1, <2>2, <2>3 DEF WriteVerdict, callVars
<1>4. CASE WriteRuntime \/ CopyLedger
  BY <1>1, <1>4 DEF WriteRuntime, CopyLedger, callVars, resultVars
<1>5. CASE CopyTelemetry
  <2>1. OnDisk("stores")'
    BY <1>1, <1>5, WrittenOnDisk DEF CopyTelemetry, TypeOK, Artifacts
  <2> QED
    BY <1>1, <1>5, <2>1 DEF CopyTelemetry, callVars
<1>6. CASE ReplayPositiveControl \/ ReplayRun
  <2>1. OnDisk("stores") => OnDisk("stores")'
    BY <1>1, <1>6 DEF ReplayPositiveControl, ReplayRun, OnDisk, invocationVars
  <2> QED
    BY <1>1, <1>6, <2>1 DEF ReplayPositiveControl, ReplayRun, callVars, resultVars
<1>7. CASE AdjudicateSequence
  BY <1>1, <1>7 DEF AdjudicateSequence, callVars
<1> QED
  BY <1>2, <1>3, <1>4, <1>5, <1>6, <1>7 DEF Judgement

\* So does every step.
LEMMA CourseStep ==
    ASSUME TypeOK, PathInv, CourseInv, [Next]_vars
    PROVE  CourseInv'
<1> USE DEF CourseInv, Preparing, Replaying, Copying, Published
<1>1. CASE Step
  BY <1>1, CourseOfPreparation, CourseOfTurn, CourseOfJudgement DEF Step
<1>2. CASE Forget /\ pc' \in {"s0", "killed"}
  BY <1>2 DEF Forget
<1>3. ASSUME NEW i \in 1..MaxTargetAttempts, TargetProgress(i) PROVE CourseInv'
  <2>1. /\ pc \notin Preparing /\ target # <<>>
        /\ UNCHANGED <<pc, disk, callVars, seen, answered, resultVars>> /\ UnchangedInS3
    BY <1>3 DEF TargetProgress
  <2>2. target' # <<>>
    BY <1>3, <2>1, TargetGrows
  <2> QED
    BY <2>1, <2>2 DEF UnchangedInS3, invocationVars, callVars, resultVars, S3Eligible, OnDisk
<1>4. CASE WallClockExpires \/ UNCHANGED vars
  BY <1>4 DEF WallClockExpires, UnchangedInS3, vars, invocationVars, callVars,
     resultVars, targetVars, S3Eligible, OnDisk
<1> QED
  BY <1>1, <1>2, <1>3, <1>4 DEF Next, Start, Kill

\* The course of attempts, verdict and adjudication holds in every reachable state.
LEMMA CourseInvariant == Spec => []CourseInv
<1>1. Init => CourseInv
  BY DEF Init, CourseInv, Preparing, Published, Copying, Replaying
<1>2. TypeOK /\ PathInv /\ CourseInv /\ [Next]_vars => CourseInv'
  BY CourseStep
<1> QED
  BY TypeCorrect, PathInvariant, <1>1, <1>2, PTL DEF Spec

\* What the runner got the answer of is part of what there is to read.
LEMMA AnsweredIsThere ==
    ASSUME \A i \in answered : i \in DOMAIN target
    PROVE  /\ Ledger(Answers) \subseteq Ledger(target)
           /\ Receipts(Answers) \subseteq Receipts(target)
           /\ ObservedRoutes(Answers) \subseteq ObservedRoutes(target)
  BY DEF Answers, Ledger, Receipts, ObservedRoutes

\* No read, of no attempt, with no answer.
LEMMA ReadNothing ==
    target = <<>> /\ answered = {} /\ seen = NothingSeen /\ copies = NothingSeen => ReadInv
<1> SUFFICES ASSUME target = <<>>, answered = {}, seen = NothingSeen, copies = NothingSeen
             PROVE  ReadInv
  OBVIOUS
<1>1. Ledger(Answers) = {} /\ Receipts(Answers) = {} /\ ObservedRoutes(Answers) = {}
  BY DEF Answers, Ledger, Receipts, ObservedRoutes
<1> QED
  BY <1>1 DEF ReadInv, NothingSeen

\* Neither is there after a step that leaves nothing of them.
LEMMA ReadNothingAfter ==
    (target = <<>> /\ answered = {} /\ seen = NothingSeen /\ copies = NothingSeen)' => ReadInv'
  BY ReadNothing, PTL

\* A step that changes no read, no attempt and no answer, and passes no stage that
\* counts on a read, leaves what is known of the reads.
LEMMA ReadKept ==
    ASSUME ReadInv, UNCHANGED <<targetVars, copies>>,
           \/ pc' = pc
           \/ pc' \in {"turn", "call", "consume", "send", "response", "await", "raised",
                       "ended", "read_routes"}
           \/ pc = "judge" /\ pc' = "turn"
           \/ pc = "finish" /\ pc' = "runtime"
           \/ pc \in Published /\ pc' \in {"copy_ledger"}
           \/ pc \in Replaying /\ pc' \in Replaying
    PROVE  ReadInv'
  BY DEF ReadInv, targetVars, Answers, Published, Copying, Replaying

\* Calls change no read; a new attempt is not answered yet, and an answered one is
\* done.
LEMMA ReadOfTurn ==
    ASSUME TypeOK, CourseInv, ReadInv, Provider \/ Attempt
    PROVE  ReadInv'
<1> USE DEF Goto
<1>1. CASE Provider \/ TimesOut
  BY <1>1, ReadKept
     DEF Provider, NextTurn, CallProvider, Consume, Send, ProviderRaises,
         TransportFails, ModelInvalid, ModelStops, TimesOut, resultVars
<1>2. ASSUME NEW effect \in Effects, ModelRequests(effect) PROVE ReadInv'
  <2> DEFINE new == [effect |-> effect, stage |-> "sent"]
  <2>1. /\ target' = Append(target, new) /\ UNCHANGED <<answered, seen, copies>>
        /\ pc' = "await"
    BY <1>2 DEF ModelRequests, resultVars
  <2>2. target \in Seq(Attempts) /\ new \in Attempts
    BY SequenceAssumption DEF TypeOK, EvidenceTypes, SequenceAssumption, Attempts
  <2>3. \A i \in DOMAIN target : i \in DOMAIN target' /\ target'[i] = target[i]
    BY <2>1, <2>2
  <2>4. /\ Ledger(target) \subseteq Ledger(target')
        /\ Receipts(target) \subseteq Receipts(target')
        /\ ObservedRoutes(target) \subseteq ObservedRoutes(target')
    BY <2>3 DEF Ledger, Receipts, ObservedRoutes
  <2> QED
    BY <2>1, <2>3, <2>4 DEF ReadInv, Published, Copying, Replaying
<1>3. CASE Answered
  <2>1. pc' = "read_routes" /\ UNCHANGED <<target, seen, copies>>
    BY <1>3 DEF Answered, resultVars
  <2>2. target \in Seq(Attempts) /\ target # <<>>
    BY <1>3 DEF TypeOK, EvidenceTypes, Answered, CourseInv
  <2>3. Len(target) \in DOMAIN target
    BY <2>2
  <2> QED
    BY <1>3, <2>1, <2>3 DEF ReadInv, Answered, Published, Copying, Replaying
<1> QED
  BY <1>1, <1>2, <1>3 DEF Attempt

\* Every read and every copy takes what is there when it is made, the answered
\* attempts among it.
LEMMA ReadOfJudgement ==
    ASSUME TypeOK, CourseInv, ReadInv, Judgement
    PROVE  ReadInv'
<1> USE DEF Goto
<1>1. /\ Ledger(Answers) \subseteq Ledger(target)
      /\ Receipts(Answers) \subseteq Receipts(target)
      /\ ObservedRoutes(Answers) \subseteq ObservedRoutes(target)
  BY AnsweredIsThere DEF ReadInv
<1>2. seen \in Reads /\ copies \in Reads
  BY DEF TypeOK, EvidenceTypes
<1>3. UNCHANGED <<target, answered>> /\ Answers' = Answers
  BY DEF Judgement, ReadRoutes, ReadRows, ReadReceipts, JudgeAttempt, WriteVerdict,
     WriteRuntime, CopyLedger, CopyTelemetry, ReplayPositiveControl, ReplayRun,
     AdjudicateSequence, targetVars, Answers
<1>4. CASE ReadRoutes
  <2>1. /\ seen'.routes = ObservedRoutes(target) /\ seen'.rows = {} /\ seen'.receipts = {}
        /\ copies' = copies /\ pc' = "read_rows"
    BY <1>4 DEF ReadRoutes, NothingSeen, resultVars
  <2> QED
    BY <1>1, <1>3, <2>1 DEF ReadInv, Published, Copying, Replaying
<1>5. CASE ReadRows
  <2>1. /\ seen'.rows = Ledger(target) /\ seen'.routes = seen.routes
        /\ seen'.receipts = seen.receipts /\ copies' = copies
        /\ pc = "read_rows" /\ pc' = "read_receipts"
    BY <1>2, <1>5 DEF ReadRows, Reads, resultVars
  <2> QED
    BY <1>1, <1>3, <2>1 DEF ReadInv, Published, Copying, Replaying
<1>6. CASE ReadReceipts
  <2>1. /\ seen'.receipts = Receipts(target) /\ seen'.routes = seen.routes
        /\ seen'.rows = seen.rows /\ copies' = copies
        /\ pc = "read_receipts" /\ pc' \in {"judge", "finish"}
    BY <1>2, <1>6 DEF ReadReceipts, Reads, resultVars
  <2> QED
    BY <1>1, <1>3, <2>1 DEF ReadInv, Published, Copying, Replaying
<1>7. CASE CopyLedger
  <2>1. /\ copies'.rows = Ledger(target) /\ copies'.routes = copies.routes
        /\ copies'.receipts = copies.receipts /\ seen' = seen
        /\ pc = "copy_ledger" /\ pc' = "copy_telemetry"
    BY <1>2, <1>7 DEF CopyLedger, Reads, targetVars
  <2> QED
    BY <1>1, <1>3, <2>1 DEF ReadInv, Published, Copying, Replaying
<1>8. CASE CopyTelemetry
  <2>1. /\ copies'.receipts = Receipts(target) /\ copies'.rows = copies.rows
        /\ copies'.routes = ObservedRoutes(target) /\ seen' = seen
        /\ pc = "copy_telemetry" /\ pc' = "replay_pc"
    BY <1>2, <1>8 DEF CopyTelemetry, Reads, targetVars
  <2> QED
    BY <1>1, <1>3, <2>1 DEF ReadInv, Published, Copying, Replaying
<1>9. CASE JudgeAttempt \/ WriteVerdict \/ WriteRuntime
  BY <1>9, ReadKept DEF JudgeAttempt, WriteVerdict, WriteRuntime, resultVars, Published
<1>10. CASE ReplayPositiveControl \/ ReplayRun \/ AdjudicateSequence
  BY <1>10, ReadKept
     DEF ReplayPositiveControl, ReplayRun, AdjudicateSequence, resultVars, Replaying
<1> QED
  BY <1>4, <1>5, <1>6, <1>7, <1>8, <1>9, <1>10 DEF Judgement

\* Every step keeps what is known of the reads.
LEMMA ReadStep ==
    ASSUME TypeOK, CourseInv, CourseInv', ReadInv, [Next]_vars
    PROVE  ReadInv'
<1>1. CASE Preparation
  <2>1. pc \in Preparing /\ target' = <<>> /\ UNCHANGED <<answered, seen, copies>>
    BY <1>1 DEF CourseInv, Preparing, Preparation, RunS0, WriteS0, RunS1, RunS1A,
       WriteSeal, RunS2, VerifyPreflight, EnterS3, Raises, UnchangedBeforeS3, resultVars,
       targetVars
  <2> QED
    BY <2>1, ReadNothingAfter DEF CourseInv
<1>2. CASE Provider \/ Attempt
  BY <1>2, ReadOfTurn
<1>3. CASE Judgement
  BY <1>3, ReadOfJudgement
<1>4. CASE Forget
  BY <1>4, ReadNothingAfter DEF Forget
<1>5. ASSUME NEW k \in 1..MaxTargetAttempts, TargetProgress(k) PROVE ReadInv'
  <2>1. UNCHANGED <<pc, answered, seen, copies>>
    BY <1>5 DEF TargetProgress, resultVars
  <2>2. Answers' = Answers
    BY <1>5, <2>1, TargetGrows DEF Answers, ReadInv
  <2> QED
    BY <1>5, <2>1, <2>2, TargetGrows DEF ReadInv
<1>6. CASE WallClockExpires \/ UNCHANGED vars
  BY <1>6, ReadKept DEF WallClockExpires, vars, targetVars, resultVars
<1> QED
  BY <1>1, <1>2, <1>3, <1>4, <1>5, <1>6 DEF Next, Step, Start, Kill

\* What is known of the reads holds in every reachable state.
LEMMA ReadInvariant == Spec => []ReadInv
<1>1. Init => ReadInv
  BY ReadNothing DEF Init
<1>2. TypeOK /\ CourseInv /\ CourseInv' /\ ReadInv /\ [Next]_vars => ReadInv'
  BY ReadStep
<1> QED
  BY TypeCorrect, CourseInvariant, <1>1, <1>2, PTL DEF Spec

\* A late thread of the target changes neither the verdict over what was read of it
\* nor the one over what was copied.
LEMMA VerdictStays ==
    ASSUME TypeOK, ReadInv, NEW k, TargetProgress(k)
    PROVE  /\ FinalVerdict(seen)' = FinalVerdict(seen)
           /\ FinalVerdict(copies)' = FinalVerdict(copies)
<1>1. UNCHANGED <<seen, copies, terminal>>
  BY DEF TargetProgress, loopVars, resultVars
<1>2. Len(target') = Len(target)
  BY TargetGrows
<1>3. \A i \in Ledger(target) :
         (target'[i].effect = "crossing") = (target[i].effect = "crossing")
  BY TargetGrows DEF Ledger
<1>4. seen.rows \subseteq Ledger(target) /\ copies.rows \subseteq Ledger(target)
  BY DEF ReadInv
<1>5. SubjectVerdict(seen.routes, seen.rows, seen.receipts)'
         = SubjectVerdict(seen.routes, seen.rows, seen.receipts)
  BY <1>1, <1>3, <1>4 DEF SubjectVerdict
<1>6. SubjectVerdict(copies.routes, copies.rows, copies.receipts)'
         = SubjectVerdict(copies.routes, copies.rows, copies.receipts)
  BY <1>1, <1>3, <1>4 DEF SubjectVerdict
<1> QED
  BY <1>1, <1>2, <1>5, <1>6 DEF FinalVerdict

\* The published verdict is the one over the reads when it is written, and nothing
\* after that changes what either depends on.
LEMMA VerdictStep ==
    ASSUME TypeOK, CourseInv, ReadInv, VerdictInv, [Next]_vars
    PROVE  VerdictInv'
<1> USE DEF Goto, CourseInv, Preparing, Replaying, Copying, Published
<1>1. ASSUME runtime = None, UNCHANGED runtime PROVE VerdictInv'
  BY <1>1 DEF VerdictInv
<1>2. CASE Preparation
  BY <1>1, <1>2 DEF Preparation, RunS0, WriteS0, RunS1, RunS1A, WriteSeal, RunS2,
     VerifyPreflight, EnterS3, UnchangedBeforeS3, resultVars
<1>3. CASE Provider \/ Attempt
  BY <1>1, <1>3 DEF Provider, NextTurn, CallProvider, Consume, Send, ProviderRaises,
     TransportFails, ModelInvalid, ModelStops, Attempt, ModelRequests, Answered, TimesOut,
     resultVars
<1>4. CASE ReadRoutes \/ ReadRows \/ ReadReceipts \/ JudgeAttempt
  BY <1>1, <1>4 DEF ReadRoutes, ReadRows, ReadReceipts, JudgeAttempt, resultVars
<1>5. ASSUME UNCHANGED <<target, terminal, seen>>
      PROVE  FinalVerdict(seen)' = FinalVerdict(seen)
  BY <1>5 DEF FinalVerdict, SubjectVerdict
<1>6. ASSUME UNCHANGED <<target, terminal, copies>>
      PROVE  FinalVerdict(copies)' = FinalVerdict(copies)
  BY <1>6 DEF FinalVerdict, SubjectVerdict
<1>7. CASE WriteVerdict
  BY <1>5, <1>7 DEF WriteVerdict, VerdictInv, loopVars, targetVars
<1>8. CASE WriteRuntime \/ CopyLedger \/ CopyTelemetry \/ ReplayPositiveControl
  <2>1. UNCHANGED <<target, terminal, seen, runtime>> /\ (pc' = "adjudicate" => runtime = None)
    BY <1>8 DEF WriteRuntime, CopyLedger, CopyTelemetry, ReplayPositiveControl, loopVars,
       targetVars, resultVars
  <2> QED
    BY <1>5, <2>1 DEF VerdictInv
<1>9. CASE ReplayRun
  BY <1>5, <1>6, <1>9 DEF ReplayRun, VerdictInv, loopVars, targetVars
<1>10. CASE AdjudicateSequence
  BY <1>5, <1>10 DEF AdjudicateSequence, VerdictInv, loopVars, targetVars
<1>11. CASE Forget
  BY <1>11 DEF Forget, VerdictInv
<1>12. ASSUME NEW k \in 1..MaxTargetAttempts, TargetProgress(k) PROVE VerdictInv'
  BY <1>12, VerdictStays DEF TargetProgress, VerdictInv, resultVars
<1>13. CASE WallClockExpires \/ UNCHANGED vars
  BY <1>5, <1>6, <1>13
     DEF WallClockExpires, vars, loopVars, targetVars, resultVars, VerdictInv
<1> QED
  BY <1>2, <1>3, <1>4, <1>7, <1>8, <1>9, <1>10, <1>11, <1>12, <1>13
     DEF Next, Step, Judgement, Start, Kill

\* What is known of the published verdict holds in every reachable state.
LEMMA VerdictInvariant == Spec => []VerdictInv
<1>1. Init => VerdictInv
  BY DEF Init, VerdictInv
<1>2. TypeOK /\ CourseInv /\ ReadInv /\ VerdictInv /\ [Next]_vars => VerdictInv'
  BY VerdictStep
<1> QED
  BY TypeCorrect, CourseInvariant, ReadInvariant, <1>1, <1>2, PTL DEF Spec

\* The six parts hold together: the invariant the model checker checks.
THEOREM SequenceInvariant == Spec => []SequenceInv
<1>1. TypeOK /\ BudgetInv /\ [Next]_vars => BudgetInv'
  BY BudgetStep
<1>2. Spec => []BudgetInv
  BY BudgetInit, TypeCorrect, <1>1, PTL DEF Spec
<1>3. BudgetInv /\ ContactInv /\ PathInv /\ CourseInv /\ ReadInv /\ VerdictInv => SequenceInv
  BY DEF SequenceInv
<1> QED
  BY <1>2, <1>3, ContactInvariant, PathInvariant, CourseInvariant, ReadInvariant,
     VerdictInvariant, PTL

-----------------------------------------------------------------------------
(* What a closed sequence says.                                            *)

\* Only the adjudication closes a sequence, and what is closed stays as it is until
\* the next invocation.
LEMMA ClosureStep ==
    ASSUME CourseInv, [Next]_vars, ~ AdjudicateSequence
    PROVE  \/ closure' = None
           \/ UNCHANGED <<closure, gates, consumed, targetVars, terminal, copies, runtime>>
<1>1. CASE Step
  <2>1. pc # "ended"
    BY <1>1 DEF Step, Preparation, RunS0, WriteS0, RunS1, RunS1A, WriteSeal, RunS2,
       VerifyPreflight, EnterS3, Provider, NextTurn, CallProvider, Consume, Send,
       ProviderRaises, TransportFails, ModelInvalid, ModelStops, Attempt, ModelRequests,
       Answered, TimesOut, Judgement, ReadRoutes, ReadRows, ReadReceipts, JudgeAttempt,
       WriteVerdict, WriteRuntime, CopyLedger, CopyTelemetry, ReplayPositiveControl,
       ReplayRun
  <2>2. closure' = closure
    BY <1>1 DEF Step, Preparation, RunS0, WriteS0, RunS1, RunS1A, WriteSeal, RunS2,
       VerifyPreflight, EnterS3, UnchangedBeforeS3, resultVars, Provider, NextTurn,
       CallProvider, Consume, Send, ProviderRaises, TransportFails, ModelInvalid,
       ModelStops, Attempt, ModelRequests, Answered, TimesOut, Judgement, ReadRoutes,
       ReadRows, ReadReceipts, JudgeAttempt, WriteVerdict, WriteRuntime, CopyLedger,
       CopyTelemetry, ReplayPositiveControl, ReplayRun
  <2> QED
    BY <2>1, <2>2 DEF CourseInv
<1>2. CASE Forget
  BY <1>2 DEF Forget
<1>3. CASE WallClockExpires \/ \E k \in 1..MaxTargetAttempts : TargetProgress(k)
  BY <1>3 DEF CourseInv, WallClockExpires, TargetProgress, Off, resultVars
<1>4. CASE UNCHANGED vars
  BY <1>4 DEF vars, callVars, loopVars, resultVars
<1> QED
  BY <1>1, <1>2, <1>3, <1>4 DEF Next, Start, Kill

\* The adjudication changes nothing of what it adjudicates.
LEMMA AdjudicationKeeps ==
    ASSUME AdjudicateSequence
    PROVE  /\ UNCHANGED <<gates, consumed, targetVars, terminal, copies, runtime, run>>
           /\ closure' = "ESTABLISHED" => ClosureConditions
           /\ ClosureConditions => closure' = "ESTABLISHED"
  BY DEF AdjudicateSequence, UnchangedInS3, invocationVars, callVars, loopVars

\* The verdict of a run that counts as executed is the one over reads that saw an
\* arrival.
LEMMA ExecutedVerdict ==
    ASSUME VerdictInv, ReadInv, RunExecutionEstablished
    PROVE  /\ ~ terminal /\ Len(target) > 0
           /\ seen.routes # {} /\ ObservedRoutes(target) # {}
           /\ (runtime.subject_result = "COUNTEREXAMPLE_FOUND")
                <=> (SubjectVerdict(seen.routes, seen.rows, seen.receipts) = BoundaryFailure)
<1>1. runtime = FinalVerdict(seen) /\ runtime.instrument_status = "EXECUTED" /\ Len(target) > 0
  BY DEF VerdictInv, RunExecutionEstablished
<1>2. ~ (terminal \/ Len(target) = 0 \/ seen.routes = {})
  BY <1>1 DEF FinalVerdict, FailClosedVerdict
<1>3. runtime.subject_result =
         IF SubjectVerdict(seen.routes, seen.rows, seen.receipts) = BoundaryFailure
         THEN "COUNTEREXAMPLE_FOUND" ELSE "ESTABLISHED_WITHIN_EXERCISED_SCOPE"
  BY <1>1, <1>2 DEF FinalVerdict, FailClosedVerdict
<1> QED
  BY <1>1, <1>2, <1>3 DEF ReadInv

\* A closed sequence spent its authorization behind open gates on a run that
\* reached the target, did not fail for good, and is given back by its copies alone.
THEOREM ClosedRunsWereExecuted == Spec => []ClosureMeansExecuted
<1>1. Init => ClosureMeansExecuted
  BY SequenceAssumption DEF Init, ClosureMeansExecuted, SequenceAssumption
<1>2. ASSUME TypeOK, CourseInv, ReadInv, VerdictInv, ClosureMeansExecuted, [Next]_vars
      PROVE  ClosureMeansExecuted'
  <2>1. CASE AdjudicateSequence /\ closure' = "ESTABLISHED"
    <3>1. ClosureConditions /\ RunExecutionEstablished /\ reproduced /\ runtime # None
          /\ pc = "adjudicate"
      BY <2>1, AdjudicationKeeps
         DEF ClosureConditions, RunExecutionEstablished, AdjudicateSequence
    <3>2. S3Eligible /\ FinalVerdict(copies) = runtime
      BY <1>2, <3>1 DEF CourseInv, VerdictInv
    <3>3. ~ terminal /\ Len(target) > 0 /\ ObservedRoutes(target) # {}
      BY <1>2, <3>1, ExecutedVerdict
    <3>4. target # <<>>
      BY <3>3
    <3>5. consumed
      BY <1>2, <3>4 DEF CourseInv
    <3> QED
      BY <2>1, <3>2, <3>3, <3>4, <3>5, AdjudicationKeeps
         DEF ClosureMeansExecuted, S3Eligible, FinalVerdict, SubjectVerdict, targetVars
  <2>2. CASE ~ AdjudicateSequence
    BY <1>2, <2>2, ClosureStep, SequenceAssumption
       DEF ClosureMeansExecuted, S3Eligible, FinalVerdict, SubjectVerdict, targetVars,
           SequenceAssumption
  <2> QED
    BY <2>1, <2>2 DEF ClosureMeansExecuted
<1>3. TypeOK /\ CourseInv /\ ReadInv /\ VerdictInv /\ ClosureMeansExecuted /\ [Next]_vars
      => ClosureMeansExecuted'
  BY <1>2
<1> QED
  BY TypeCorrect, CourseInvariant, ReadInvariant, VerdictInvariant, <1>1, <1>3, PTL DEF Spec

\* A verdict is a counterexample exactly if a witnessed row among the reads crossed.
LEMMA SubjectIsCrossing ==
    ASSUME NEW routes, NEW rows, NEW receipts
    PROVE  (SubjectVerdict(routes, rows, receipts) = BoundaryFailure)
             <=> (\E i \in rows \cap receipts : target[i].effect = "crossing")
  BY DEF SubjectVerdict, BoundaryFailure, Unknown, IntegrationFailure, NoCounterexample

\* The subject result of a closed sequence is true of the target: a counterexample
\* has its crossing, and a clean result none whose answer the runner got, however
\* late the threads of the attempts it gave up on commit.
THEOREM ClosedResultsAreTrue == Spec => []SubjectResultIsTrue
<1>1. Init => SubjectResultIsTrue
  BY SequenceAssumption DEF Init, SubjectResultIsTrue, SequenceAssumption
<1>2. ASSUME TypeOK, CourseInv, ReadInv, VerdictInv, SubjectResultIsTrue, [Next]_vars
      PROVE  SubjectResultIsTrue'
  <2> DEFINE crossings == {i \in Receipts(target) : target[i].effect = "crossing"}
  <2>1. CASE AdjudicateSequence /\ closure' = "ESTABLISHED"
    <3>1. RunExecutionEstablished /\ pc = "adjudicate"
      BY <2>1, AdjudicationKeeps DEF ClosureConditions, AdjudicateSequence
    <3>2. (runtime.subject_result = "COUNTEREXAMPLE_FOUND")
             <=> (\E i \in seen.rows \cap seen.receipts : target[i].effect = "crossing")
      <4>1. (runtime.subject_result = "COUNTEREXAMPLE_FOUND")
              <=> (SubjectVerdict(seen.routes, seen.rows, seen.receipts) = BoundaryFailure)
        BY <1>2, <3>1, ExecutedVerdict
      <4> QED
        BY <4>1, SubjectIsCrossing
    <3>3. seen.receipts \subseteq Receipts(target)
      BY <1>2 DEF ReadInv
    <3>4. ASSUME NEW i \in crossings \cap answered
          PROVE  i \in seen.rows \cap seen.receipts
      <4>1. i \in Ledger(Answers) /\ i \in Receipts(Answers)
        BY <3>4 DEF Answers, Ledger, Receipts, Committing
      <4> QED
        BY <1>2, <3>1, <4>1 DEF ReadInv, Published, Copying, Replaying
    <3>5. IF runtime.subject_result = "COUNTEREXAMPLE_FOUND"
          THEN crossings # {} ELSE crossings \cap answered = {}
      BY <3>2, <3>3, <3>4
    <3> QED
      BY <2>1, <3>5, AdjudicationKeeps DEF SubjectResultIsTrue, targetVars
  <2>2. CASE ~ AdjudicateSequence
    BY <1>2, <2>2, ClosureStep, SequenceAssumption
       DEF SubjectResultIsTrue, targetVars, SequenceAssumption
  <2> QED
    BY <2>1, <2>2 DEF SubjectResultIsTrue
<1>3. TypeOK /\ CourseInv /\ ReadInv /\ VerdictInv /\ SubjectResultIsTrue /\ [Next]_vars
      => SubjectResultIsTrue'
  BY <1>2
<1> QED
  BY TypeCorrect, CourseInvariant, ReadInvariant, VerdictInvariant, <1>1, <1>3, PTL DEF Spec

\* When every attempt was answered, the reads and the copies both are all there is.
LEMMA ReadsAreComplete ==
    ASSUME TypeOK, ReadInv, answered = DOMAIN target, pc \in Replaying
    PROVE  /\ seen.routes = ObservedRoutes(target) /\ copies.routes = ObservedRoutes(target)
           /\ FinalVerdict(copies) = FinalVerdict(seen)
<1>1. target \in Seq(Attempts)
  BY DEF TypeOK, EvidenceTypes
<1>2. Answers = target
  BY <1>1 DEF Answers
<1>3. /\ seen.routes = ObservedRoutes(target) /\ copies.routes = ObservedRoutes(target)
      /\ seen.rows = Ledger(target) /\ copies.rows = Ledger(target)
      /\ seen.receipts = Receipts(target) /\ copies.receipts = Receipts(target)
  BY <1>2 DEF ReadInv, Published, Copying, Replaying
<1> QED
  BY <1>3 DEF FinalVerdict

\* A run whose attempts were all answered, one of them observed, and whose provider
\* did not fail for good is closed whatever its outcome: what was read is what was
\* copied, so the replay reproduces the verdict.
THEOREM ClosureIgnoresOutcome == Spec => []CompletenessIgnoresOutcome
<1>1. Init => CompletenessIgnoresOutcome
  BY DEF Init, CompletenessIgnoresOutcome
<1>2. ASSUME TypeOK, PathInv, CourseInv, ReadInv, VerdictInv, CompletenessIgnoresOutcome,
             [Next]_vars
      PROVE  CompletenessIgnoresOutcome'
  <2>1. CASE AdjudicateSequence
    <3>1. SUFFICES ASSUME runtime # None, ~ terminal, answered = DOMAIN target,
                          ObservedRoutes(target) # {}
                   PROVE  ClosureConditions
      BY <2>1, AdjudicationKeeps DEF CompletenessIgnoresOutcome, targetVars
    <3>2. pc = "adjudicate" /\ pc \in Replaying
      BY <2>1 DEF AdjudicateSequence, Replaying
    <3>3. S3Eligible /\ OnDisk("stores")
      BY <1>2, <3>1, <3>2 DEF CourseInv
    <3>4. OnDisk("positive-control")
      BY <1>2, <3>2 DEF PathInv, AfterControl, AfterS0, Labels, Off
    <3>5. seen.routes = ObservedRoutes(target) /\ reproduced
      BY <1>2, <3>1, <3>2, ReadsAreComplete DEF VerdictInv
    <3>6. Len(target) \in Nat /\ Len(target) # 0
      <4>1. target \in Seq(Attempts) /\ target # <<>>
        BY <1>2, <3>1 DEF TypeOK, EvidenceTypes, ObservedRoutes
      <4> QED
        BY <4>1
    <3>7. RunExecutionEstablished
      BY <1>2, <3>1, <3>5, <3>6
         DEF VerdictInv, FinalVerdict, FailClosedVerdict, RunExecutionEstablished
    <3> QED
      BY <3>3, <3>4, <3>5, <3>7 DEF ClosureConditions, S3Eligible, OnDisk
  <2>2. CASE ~ AdjudicateSequence
    BY <1>2, <2>2, ClosureStep DEF CompletenessIgnoresOutcome, targetVars
  <2> QED
    BY <2>1, <2>2
<1>3. TypeOK /\ PathInv /\ CourseInv /\ ReadInv /\ VerdictInv /\ CompletenessIgnoresOutcome
      /\ [Next]_vars => CompletenessIgnoresOutcome'
  BY <1>2
<1> QED
  BY TypeCorrect, PathInvariant, CourseInvariant, ReadInvariant, VerdictInvariant, <1>1,
     <1>3, PTL DEF Spec

=============================================================================
