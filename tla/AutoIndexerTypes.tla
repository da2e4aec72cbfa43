-------------------------- MODULE AutoIndexerTypes --------------------------
(***************************************************************************)
(* Type correctness of AutoIndexerSystem, proved for every number of       *)
(* commits, restarts and kept Jobs, every choice of what may fail and of   *)
(* what the user does, and whether or not the caches lag.                  *)
(***************************************************************************)
EXTENDS AutoIndexerSystem, FiniteSetTheorems, SequenceTheorems, TLAPS

(* The index is finite, and a count of its documents is a document count.  *)
LEMMA DocumentCount ==
  ASSUME NEW docs \in SUBSET Documents
  PROVE  /\ IsFiniteSet(docs)
         /\ Cardinality(docs) \in CommitOrNone
<1>1. MaxCommit \in Nat
  BY ConstantsAssumption
<1>2. IsFiniteSet(Documents) /\ Cardinality(Documents) = MaxCommit
  <2>1. 1 \in Int /\ MaxCommit \in Int /\ 1 <= MaxCommit
    BY ConstantsAssumption
  <2> QED
    BY <2>1, FS_Interval DEF Documents
<1>3. IsFiniteSet(docs) /\ Cardinality(docs) <= Cardinality(Documents)
  BY <1>2, FS_Subset
<1> QED
  BY <1>1, <1>2, <1>3, FS_CardinalityType DEF CommitOrNone

LEMMA NoneIsCommit == 0 \in CommitOrNone
  BY ConstantsAssumption DEF CommitOrNone

(* What each kind of write makes of a well-typed object.                   *)
LEMMA NoObjectType == NoObject \in AutoIndexer
  BY ConstantsAssumption
  DEF NoObject, AutoIndexer, Strategy, Phase, CommitOrNone

LEMMA NewJobType ==
  ASSUME NEW kind \in {"once", "cron"}
  PROVE  NewJob(kind) \in Job
  BY ConstantsAssumption DEF NewJob, Job, JobState, CommitOrNone

LEMMA StatusPatchType ==
  ASSUME obj \in AutoIndexer,
         NEW original \in AutoIndexer, NEW modified \in AutoIndexer
  PROVE  StatusPatch(original, modified) \in AutoIndexer
  BY DEF StatusPatch, Merged, AutoIndexer
LEMMA ListType ==
  ASSUME NEW list \in Seq(Job), NEW job \in Job
  PROVE  /\ Append(list, job) \in Seq(Job)
         /\ \A i \in 1..Len(list) :
              list[i] \in Job /\ [list EXCEPT ![i] = job] \in Seq(Job)
  OBVIOUS

-----------------------------------------------------------------------------
(* The part of APITypeOK that is not cached.                               *)
ServerTypeOK ==
  /\ obj \in AutoIndexer
  /\ jobs \in Seq(Job)
  /\ cron \in CronJob
  /\ index \subseteq Documents
  /\ head \in Documents
  /\ sameSecond \in BOOLEAN

LEMMA TypeAtInit == Init => TypeOK
<1> SUFFICES ASSUME Init
             PROVE  TypeOK
  OBVIOUS
<1>1. PICK scheduled \in Scheduled, strategy \in Strategies,
           commit \in Documents : APIInit(scheduled, strategy, commit)
  BY DEF Init
<1>2. scheduled \in BOOLEAN /\ strategy \in Strategy
  BY EditsAssumption
<1>3. obj \in AutoIndexer
  BY <1>1, <1>2, NoObjectType DEF APIInit, AutoIndexer
<1>4. APITypeOK
  <2>1. <<>> \in Seq(Job)
    OBVIOUS
  <2>2. cron \in CronJob /\ cronCache \in CronJob
    BY <1>1 DEF APIInit, NoCronJob, CronJob
  <2> QED
    BY <1>1, <1>3, <2>1, <2>2 DEF APIInit, APITypeOK
<1>5. RecTypeOK /\ DetTypeOK
  BY NoObjectType DEF Init, RecInit, DetInit, RecTypeOK, DetTypeOK, RecSteps
<1> QED
  BY <1>4, <1>5 DEF TypeOK

(* What the reconciler leaves in memory when a phase is handled.           *)
LEMMA MoveToType ==
  ASSUME TypeOK, NEW phase \in Phase, MoveTo(phase)
  PROVE  RecTypeOK' /\ UnchangedAPI
  BY DEF MoveTo, FinishPhase, TypeOK, RecTypeOK, RecSteps, AutoIndexer

LEMMA FinishPhaseType ==
  ASSUME TypeOK, NEW mem \in AutoIndexer, NEW failed \in BOOLEAN,
         FinishPhase(mem, failed), recLocked' \in BOOLEAN
  PROVE  RecTypeOK'
  BY DEF FinishPhase, TypeOK, RecTypeOK, RecSteps, AutoIndexer

LEMMA ReturnType == Return => RecTypeOK'
  BY NoObjectType DEF Return, RecTypeOK, RecSteps

LEMMA HandlePhaseType ==
  ASSUME TypeOK, HandlePhase
  PROVE  /\ RecTypeOK'
         /\ jobs' \in Seq(Job)
         /\ UNCHANGED <<obj, cron, index>>
<1>1. recMem.phase \in Phase
  BY DEF TypeOK, RecTypeOK, AutoIndexer
<1>2. /\ \A p \in Phase : MoveTo(p) => RecTypeOK' /\ UnchangedAPI
      /\ jobs \in Seq(Job)
  BY MoveToType DEF TypeOK, APITypeOK
<1>3. CASE HandleUnknownPhase
  BY <1>2, <1>3 DEF HandleUnknownPhase, Phase, UnchangedAPI
<1>4. CASE HandlePendingScheduled
  BY <1>2, <1>4 DEF HandlePendingScheduled, Phase, UnchangedAPI
<1>5. CASE HandlePendingOnce
  <2>1. [recMem EXCEPT !.phase = "Running"] \in AutoIndexer
    BY DEF TypeOK, RecTypeOK, AutoIndexer, Phase
  <2>2. RecTypeOK'
    BY <1>5, <2>1, FinishPhaseType DEF HandlePendingOnce, TypeOK, RecTypeOK
  <2>3. jobs' \in Seq(Job)
    BY <1>2, <1>5, NewJobType, ListType DEF HandlePendingOnce
  <2> QED
    BY <1>5, <2>2, <2>3 DEF HandlePendingOnce
<1>6. CASE HandlePendingJobCreationFails
  <2>1. [recMem EXCEPT !.phase = "Failed"] \in AutoIndexer
    BY DEF TypeOK, RecTypeOK, AutoIndexer, Phase
  <2>2. RecTypeOK'
    BY <1>6, <2>1, FinishPhaseType
    DEF HandlePendingJobCreationFails, TypeOK, RecTypeOK
  <2> QED
    BY <1>2, <1>6, <2>2 DEF HandlePendingJobCreationFails, UnchangedAPI
<1>7. CASE HandleScheduledPhase
  BY <1>2, <1>7 DEF HandleScheduledPhase, Phase, UnchangedAPI
<1>8. CASE HandleSuspendedPhase
  BY <1>2, <1>8 DEF HandleSuspendedPhase, Phase, UnchangedAPI
<1>9. CASE HandleRunningPhase
  BY <1>2, <1>9 DEF HandleRunningPhase, Phase, UnchangedAPI
<1>10. CASE HandleCompletedOrFailedPhase
  BY <1>1, <1>2, <1>10
  DEF HandleCompletedOrFailedPhase, StayInPhase, UnchangedAPI
<1>11. CASE RemediationIgnored
  BY <1>2, <1>11 DEF RemediationIgnored, Phase, UnchangedAPI
<1>12. CASE RemediationOver
  <2>1. Goto("unsuspend") => RecTypeOK'
    BY DEF Goto, TypeOK, RecTypeOK, RecSteps
  <2> QED
    BY <1>2, <1>12, <2>1 DEF RemediationOver, Phase, UnchangedAPI
<1>13. CASE RemediationManual
  BY <1>1, <1>2, <1>13 DEF RemediationManual, StayInPhase, UnchangedAPI
<1>14. CASE RemediationSuspend
  BY <1>2, <1>14
  DEF RemediationSuspend, Goto, TypeOK, RecTypeOK, RecSteps, UnchangedAPI
<1>15. CASE RemediationAct
  <2>1. Goto("listIndexes") => RecTypeOK'
    BY DEF Goto, TypeOK, RecTypeOK, RecSteps
  <2> QED
    BY <1>1, <1>2, <1>15, <2>1 DEF RemediationAct, StayInPhase, UnchangedAPI
<1> QED
  BY <1>3, <1>4, <1>5, <1>6, <1>7, <1>8, <1>9, <1>10, <1>11, <1>12, <1>13,
     <1>14, <1>15 DEF HandlePhase
LEMMA RemediationCallsType ==
  ASSUME TypeOK, RemediationCalls
  PROVE  /\ RecTypeOK'
         /\ obj' \in AutoIndexer
         /\ index' \subseteq Documents
         /\ UNCHANGED <<jobs, cron>>
<1>1. obj \in AutoIndexer /\ index \subseteq Documents /\ recMem \in AutoIndexer
  BY DEF TypeOK, APITypeOK, RecTypeOK
<1>2. ResetStatus \in AutoIndexer
  BY <1>1, NoneIsCommit DEF ResetStatus, AutoIndexer
<1>3. CASE SetSuspendedState
  <2>1. obj' \in AutoIndexer
    BY <1>1, <1>3 DEF SetSuspendedState, AutoIndexer
  <2>2. RecTypeOK'
    BY <1>3, <2>1, FinishPhaseType DEF SetSuspendedState
  <2> QED
    BY <1>1, <1>3, <2>1, <2>2 DEF SetSuspendedState
<1>4. CASE SetSuspendedStateFails
  BY <1>1, <1>4, FinishPhaseType
  DEF SetSuspendedStateFails, UnchangedAPI, TypeOK, RecTypeOK
<1>5. CASE ListIndexes
  BY <1>1, <1>2, <1>5 DEF ListIndexes, UnchangedAPI, TypeOK, RecTypeOK, RecSteps
<1>6. CASE DeleteIndex
  BY <1>1, <1>2, <1>6 DEF DeleteIndex, TypeOK, RecTypeOK, RecSteps
<1>7. CASE RAGCallFails
  <2>1. RecTypeOK'
    BY <1>1, <1>7, FinishPhaseType DEF RAGCallFails, TypeOK, RecTypeOK
  <2> QED
    BY <1>1, <1>7, <2>1 DEF RAGCallFails
<1>8. CASE MarkRemediated
  <2>1. obj' \in AutoIndexer
    BY <1>1, <1>8 DEF MarkRemediated, TypeOK, APITypeOK, AutoIndexer
  <2>2. RecTypeOK'
    BY <1>8, <2>1, FinishPhaseType DEF MarkRemediated
  <2> QED
    BY <1>1, <1>8, <2>1, <2>2 DEF MarkRemediated
<1>9. CASE MarkRemediatedFails
  BY <1>1, <1>9, FinishPhaseType
  DEF MarkRemediatedFails, UnchangedAPI, TypeOK, RecTypeOK
<1> QED
  BY <1>3, <1>4, <1>5, <1>6, <1>7, <1>8, <1>9 DEF RemediationCalls

LEMMA ReconcilerType ==
  ASSUME TypeOK, ReconcilerNext
  PROVE  ServerTypeOK' /\ RecTypeOK'
<1> USE DEF ServerTypeOK
<1>1. ServerTypeOK /\ RecTypeOK /\ objCache \in AutoIndexer
  BY DEF TypeOK, APITypeOK
<1>2. UNCHANGED <<head, sameSecond>>
  BY DEF ReconcilerNext
<1>3. CASE ReconcileBegin
  BY <1>1, <1>2, <1>3 DEF ReconcileBegin, UnchangedAPI, RecTypeOK, RecSteps
<1>4. CASE EnsureFinalizer
  <2>1. obj' \in AutoIndexer
    BY <1>1, <1>4 DEF EnsureFinalizer, AutoIndexer
  <2> QED
    BY <1>1, <1>2, <1>4, <2>1 DEF EnsureFinalizer, RecTypeOK, RecSteps
<1>5. CASE EnsureFinalizerFails
  BY <1>1, <1>2, <1>5, ReturnType DEF EnsureFinalizerFails, UnchangedAPI
<1>6. CASE EnsureRequiredResources
  <2>1. cron' \in CronJob /\ recMem' \in AutoIndexer
    BY <1>1, <1>6
    DEF EnsureRequiredResources, DesiredCronJob, RecTypeOK, CronJob, AutoIndexer
  <2> QED
    BY <1>1, <1>2, <1>6, <2>1 DEF EnsureRequiredResources, RecTypeOK, RecSteps
<1>7. CASE EnsureRequiredResourcesFails
  <2>1. RecTypeOK'
    BY <1>1, <1>7, FinishPhaseType DEF EnsureRequiredResourcesFails, RecTypeOK
  <2> QED
    BY <1>1, <1>2, <1>7, <2>1 DEF EnsureRequiredResourcesFails, UnchangedAPI
<1>8. CASE HandlePhase
  BY <1>1, <1>2, <1>8, HandlePhaseType
<1>9. CASE RemediationCalls
  BY <1>1, <1>2, <1>9, RemediationCallsType
<1>10. CASE PatchAndReturn
  <2>1. RecTypeOK' /\ UNCHANGED <<jobs, cron, index>>
    BY <1>10, ReturnType
    DEF PatchAndReturn, NothingToPatch, PatchStatus, PatchStatusFails, UnchangedAPI
  <2>2. obj' \in AutoIndexer
    BY <1>1, <1>10, StatusPatchType
    DEF PatchAndReturn, NothingToPatch, PatchStatus, PatchStatusFails, UnchangedAPI,
        RecTypeOK
  <2> QED
    BY <1>1, <1>2, <2>1, <2>2
<1>11. CASE GarbageCollectAutoIndexer
  <2>1. RecTypeOK'
    BY <1>1, <1>11, ReturnType
    DEF GarbageCollectAutoIndexer, GcListJobs, GcDeleteIndex, GcDeleteIndexFails,
        GcRemoveFinalizer, GcRemoveFinalizerFails, Goto, RecTypeOK, RecSteps
  <2>2. obj' \in AutoIndexer /\ index' \subseteq Documents
    BY <1>1, <1>11, NoObjectType
    DEF GarbageCollectAutoIndexer, GcListJobs, GcDeleteIndex, GcDeleteIndexFails,
        GcRemoveFinalizer, GcRemoveFinalizerFails, UnchangedAPI
  <2>3. UNCHANGED <<jobs, cron>>
    BY <1>11
    DEF GarbageCollectAutoIndexer, GcListJobs, GcDeleteIndex, GcDeleteIndexFails,
        GcRemoveFinalizer, GcRemoveFinalizerFails, UnchangedAPI
  <2> QED
    BY <1>1, <1>2, <2>1, <2>2, <2>3
<1> QED
  BY <1>3, <1>4, <1>5, <1>6, <1>7, <1>8, <1>9, <1>10, <1>11 DEF ReconcilerNext

-----------------------------------------------------------------------------
LEMMA DetectorType ==
  ASSUME TypeOK, DetectorNext
  PROVE  ServerTypeOK' /\ DetTypeOK'
<1> USE DEF ServerTypeOK
<1>1. ServerTypeOK /\ DetTypeOK /\ objCache \in AutoIndexer
  BY DEF TypeOK, APITypeOK
<1>2. SweepDone => DetTypeOK'
  BY NoObjectType DEF SweepDone, DetTypeOK
<1>3. CASE PerformDriftCheck
  BY <1>1, <1>3 DEF PerformDriftCheck, DetUnchanged, DetTypeOK
<1>4. CASE SkipDriftCheck
  BY <1>1, <1>4 DEF SkipDriftCheck, Checked, DetUnchanged, DetTypeOK
<1>5. CASE CompareDocumentCount
  BY <1>1, <1>5 DEF CompareDocumentCount, Checked, DetUnchanged, DetTypeOK
<1>6. CASE GetDocumentCountFails
  BY <1>1, <1>6 DEF GetDocumentCountFails, Checked, DetUnchanged, DetTypeOK
<1>7. CASE SetDriftDetected
  <2>1. obj' \in AutoIndexer
    BY <1>1, <1>7 DEF SetDriftDetected, DetTypeOK, AutoIndexer
  <2> QED
    BY <1>1, <1>2, <1>7, <2>1 DEF SetDriftDetected
<1>8. CASE SetDriftRemediated
  <2>1. obj' \in AutoIndexer
    BY <1>1, <1>8 DEF SetDriftRemediated, DetTypeOK, AutoIndexer
  <2> QED
    BY <1>1, <1>2, <1>8, <2>1 DEF SetDriftRemediated
<1>9. CASE NothingToWrite
  BY <1>1, <1>2, <1>9 DEF NothingToWrite, DetUnchanged
<1>10. CASE AnnotationUpdateFails
  BY <1>1, <1>2, <1>10 DEF AnnotationUpdateFails, DetUnchanged
<1> QED
  BY <1>3, <1>4, <1>5, <1>6, <1>7, <1>8, <1>9, <1>10 DEF DetectorNext

LEMMA EnvironmentType ==
  ASSUME TypeOK, Environment
  PROVE  ServerTypeOK'
<1> USE DEF ServerTypeOK
<1>1. ServerTypeOK
  BY DEF TypeOK, APITypeOK
<1>2. \A object \in AutoIndexer : Edited(object) => ServerTypeOK'
  BY <1>1 DEF Edited
<1>3. CASE UserSuspends
  BY <1>1, <1>2, <1>3 DEF UserSuspends, AutoIndexer
<1>4. CASE UserChangesStrategy
  BY <1>1, <1>2, <1>4 DEF UserChangesStrategy, AutoIndexer
<1>5. CASE UserSchedules
  BY <1>1, <1>2, <1>5 DEF UserSchedules, AutoIndexer
<1>6. CASE UserDeletes
  <2>1. [obj EXCEPT !.deleting = TRUE] \in AutoIndexer
    BY <1>1 DEF AutoIndexer
  <2> QED
    BY <1>1, <1>2, <1>6, <2>1, NoObjectType DEF UserDeletes
<1>7. CASE PushCommit
  BY <1>1, <1>7, ConstantsAssumption DEF PushCommit, Documents
<1>8. CASE LoseDocuments
  BY <1>1, <1>8 DEF LoseDocuments
<1>9. CASE ClockTick
  BY <1>1, <1>9 DEF ClockTick
<1> QED
  BY <1>3, <1>4, <1>5, <1>6, <1>7, <1>8, <1>9 DEF Environment
-----------------------------------------------------------------------------
(* The container of a Job, its exit and the history limits.                *)
LEMMA ExitedType ==
  ASSUME NEW job \in Job, NEW success \in BOOLEAN
  PROVE  Exited(job, success) \in Job
<1>1. /\ job.kind \in {"once", "cron"} /\ job.attempt \in 0..BackoffLimit
      /\ job.lost \in BOOLEAN /\ NewJob(job.kind) \in Job
  BY NewJobType DEF Job
<1>2. /\ job.attempt < BackoffLimit => job.attempt + 1 \in 0..BackoffLimit
      /\ 0 \in 0..BackoffLimit
  BY <1>1, ConstantsAssumption
<1> DEFINE stopped == [NewJob(job.kind) EXCEPT !.lost = job.lost, !.attempt = job.attempt]
<1>3. stopped \in Job /\ stopped.attempt = job.attempt
  BY <1>1 DEF Job
<1> HIDE DEF stopped
<1>4. /\ [stopped EXCEPT !.state = "succeeded", !.attempt = 0] \in Job
      /\ job.attempt < BackoffLimit =>
           [stopped EXCEPT !.state = "active", !.pc = "load", !.attempt = @ + 1] \in Job
      /\ [NewJob(job.kind) EXCEPT !.state = "failed"] \in Job
  BY <1>1, <1>2, <1>3 DEF Job, JobState
<1> QED
  BY <1>4 DEF Exited, stopped

LEMMA ReplacedType ==
  ASSUME NEW job \in Job
  PROVE  Replaced(job) \in Job
<1>1. /\ job.attempt \in 0..BackoffLimit /\ NewJob(job.kind) \in Job
  BY NewJobType DEF Job
<1>2. job.attempt < BackoffLimit => job.attempt + 1 \in 0..BackoffLimit
  BY <1>1, ConstantsAssumption
<1> QED
  BY <1>1, <1>2 DEF Replaced, Job, JobState

LEMMA DropOldestForm ==
  ASSUME NEW list \in Seq(Job), NEW state, NEW limit \in Nat
  PROVE  \/ DropOldest(list, state, limit) = list
         \/ /\ Len(list) - 1 \in Nat
            /\ \E oldest : DropOldest(list, state, limit)
                 = [k \in 1..(Len(list) - 1) |->
                      IF k < oldest THEN list[k] ELSE list[k + 1]]
<1> DEFINE finished == Finished(list, state)
<1>1. CASE Cardinality(finished) <= limit
  BY <1>1 DEF DropOldest
<1>2. CASE ~(Cardinality(finished) <= limit)
  <2>1. finished # {}
    <3> HIDE DEF finished
    <3> QED
      BY <1>2, FS_EmptySet
  <2>2. Len(list) \in Nat /\ Len(list) - 1 \in Nat
    BY <2>1 DEF Finished
  <2>3. \E oldest : DropOldest(list, state, limit)
                 = [k \in 1..(Len(list) - 1) |->
                      IF k < oldest THEN list[k] ELSE list[k + 1]]
    <3> DEFINE least == CHOOSE i \in finished : \A j \in finished : i <= j
    <3>1. DropOldest(list, state, limit)
                 = [k \in 1..(Len(list) - 1) |->
                      IF k < least THEN list[k] ELSE list[k + 1]]
      BY <1>2 DEF DropOldest
    <3> HIDE DEF least
    <3> QED
      BY <3>1
  <2> QED
    BY <2>2, <2>3
<1> QED
  BY <1>1, <1>2

(* The history limits only take Jobs off the list.                         *)
LEMMA DropOldestType ==
  ASSUME NEW list \in Seq(Job), NEW state, NEW limit \in Nat
  PROVE  /\ DropOldest(list, state, limit) \in Seq(Job)
         /\ \A i \in 1..Len(DropOldest(list, state, limit)) :
              \E j \in 1..Len(list) :
                DropOldest(list, state, limit)[i] = list[j]
<1>1. CASE DropOldest(list, state, limit) = list
  BY <1>1
<1>2. CASE DropOldest(list, state, limit) # list
  <2>1. Len(list) \in Nat /\ Len(list) - 1 \in Nat
    BY <1>2, DropOldestForm
  <2>2. PICK oldest :
          DropOldest(list, state, limit)
            = [k \in 1..(Len(list) - 1) |->
                 IF k < oldest THEN list[k] ELSE list[k + 1]]
    BY <1>2, DropOldestForm
  <2>3. \A k \in 1..(Len(list) - 1) :
          k \in 1..Len(list) /\ k + 1 \in 1..Len(list)
    BY <2>1
  <2>4. \A k \in 1..(Len(list) - 1) :
          \/ DropOldest(list, state, limit)[k] = list[k]
          \/ DropOldest(list, state, limit)[k] = list[k + 1]
    BY <2>2
  <2>5. DropOldest(list, state, limit) \in Seq(Job)
    BY <2>1, <2>2, <2>3, <2>4
  <2>6. Len(DropOldest(list, state, limit)) = Len(list) - 1
    BY <2>1, <2>2
  <2> QED
    BY <2>3, <2>4, <2>5, <2>6
<1> QED
  BY <1>1, <1>2

LEMMA TrimmedType ==
  ASSUME TypeOK, NEW i \in Indices, NEW job \in Job
  PROVE  Trimmed([jobs EXCEPT ![i] = job]) \in Seq(Job)
<1>1. [jobs EXCEPT ![i] = job] \in Seq(Job)
  BY ListType DEF TypeOK, APITypeOK, Indices
<1> QED
  BY <1>1, DropOldestType, ConstantsAssumption DEF Trimmed

LEMMA ExitType ==
  ASSUME TypeOK, NEW i \in Indices, NEW success \in BOOLEAN, Exit(i, success)
  PROVE  jobs' \in Seq(Job)
<1>1. jobs[i] \in Job
  BY ListType DEF TypeOK, APITypeOK, Indices
<1>2. Exited(jobs[i], success) \in Job
  BY <1>1, ExitedType
<1> QED
  BY <1>2, TrimmedType DEF Exit

LEMMA StepType ==
  ASSUME TypeOK, NEW i \in Indices, NEW job \in Job, Step(i, job)
  PROVE  jobs' \in Seq(Job)
  BY ListType DEF Step, Indices, TypeOK, APITypeOK

LEMMA RunStepType ==
  ASSUME TypeOK, NEW i \in Indices, RunStep(i)
  PROVE  ServerTypeOK'
<1> USE DEF ServerTypeOK
<1>1. ServerTypeOK /\ jobs[i] \in Job
  BY ListType DEF TypeOK, APITypeOK, Indices
<1>2. \A count \in ReportedCounts : count \in CommitOrNone
  BY <1>1, DocumentCount, NoneIsCommit DEF ReportedCounts
<1>3. \A d \in Documents : d \in CommitOrNone
  BY ConstantsAssumption DEF Documents, CommitOrNone
<1>4. AfterReport(jobs[i]) \in Job
  BY <1>1 DEF AfterReport, Job
<1>5. CASE LoadConfig(i)
  <2>1. [jobs[i] EXCEPT !.pc = "clone", !.full = FullRun(obj),
                        !.from = obj.lastCommit] \in Job
    BY <1>1 DEF Job, AutoIndexer, FullRun
  <2> QED
    BY <1>1, <1>5, <2>1, StepType DEF LoadConfig, JobUnchanged
<1>6. CASE LoadConfigFails(i)
  BY <1>1, <1>6, ExitType DEF LoadConfigFails, JobUnchanged
<1>7. CASE SetupRepository(i)
  <2>1. ToIndex(jobs[i]) \subseteq Documents
    BY <1>1, ConstantsAssumption DEF ToIndex, Documents, Job, CommitOrNone
  <2>2. [jobs[i] EXCEPT !.pc = "index", !.target = head,
                        !.todo = ToIndex(jobs[i])] \in Job
    BY <1>1, <1>3, <2>1 DEF Job
  <2> QED
    BY <1>1, <1>7, <2>2, StepType DEF SetupRepository, JobUnchanged
<1>8. CASE SetupRepositoryFails(i)
  <2>1. [jobs[i] EXCEPT !.pc = "report", !.errors = TRUE] \in Job
    BY <1>1 DEF Job
  <2> QED
    BY <1>1, <1>8, <2>1, StepType DEF SetupRepositoryFails, JobUnchanged
<1>9. CASE IndexDocument(i)
  <2>1. PICK d \in jobs[i].todo :
               /\ index' = index \cup {d}
               /\ Step(i, [jobs[i] EXCEPT !.todo = @ \ {d}])
    BY <1>9 DEF IndexDocument
  <2>2. d \in Documents /\ [jobs[i] EXCEPT !.todo = @ \ {d}] \in Job
    BY <1>1 DEF Job
  <2> QED
    BY <1>1, <1>9, <2>1, <2>2, StepType DEF IndexDocument, JobUnchanged
<1>10. CASE IndexDocumentFails(i)
  <2>1. PICK d \in jobs[i].todo :
               Step(i, [jobs[i] EXCEPT !.todo = @ \ {d}, !.errors = TRUE])
    BY <1>10 DEF IndexDocumentFails
  <2>2. [jobs[i] EXCEPT !.todo = @ \ {d}, !.errors = TRUE] \in Job
    BY <1>1 DEF Job
  <2> QED
    BY <1>1, <1>10, <2>1, <2>2, StepType DEF IndexDocumentFails, JobUnchanged
<1>11. CASE IndexingDone(i)
  <2>1. [jobs[i] EXCEPT !.pc = "report"] \in Job
    BY <1>1 DEF Job
  <2> QED
    BY <1>1, <1>11, <2>1, StepType DEF IndexingDone, JobUnchanged
<1>12. CASE ReportStatus(i)
  <2>1. obj' \in AutoIndexer
    BY <1>1, <1>2, <1>12 DEF ReportStatus, AutoIndexer, Job
  <2> QED
    BY <1>1, <1>4, <1>12, <2>1, StepType DEF ReportStatus, JobUnchanged
<1>13. CASE ReportStatusFails(i)
  BY <1>1, <1>4, <1>13, StepType DEF ReportStatusFails, JobUnchanged
<1>14. CASE FlagErrors(i)
  <2>1. [jobs[i] EXCEPT !.pc = "complete"] \in Job
    BY <1>1 DEF Job
  <2>2. obj' \in AutoIndexer
    BY <1>1, <1>14 DEF FlagErrors, AutoIndexer
  <2> QED
    BY <1>1, <1>14, <2>1, <2>2, StepType DEF FlagErrors, JobUnchanged
<1>15. CASE CompleteRun(i)
  <2>1. (~jobs[i].errors) \in BOOLEAN
    OBVIOUS
  <2>2. jobs' \in Seq(Job)
    BY <1>15, <2>1, ExitType DEF CompleteRun
  <2>3. obj' \in AutoIndexer
    BY <1>1, <1>2, <1>15 DEF CompleteRun, AutoIndexer
  <2> QED
    BY <1>1, <1>15, <2>2, <2>3 DEF CompleteRun, JobUnchanged
<1> QED
  BY <1>5, <1>6, <1>7, <1>8, <1>9, <1>10, <1>11, <1>12, <1>13, <1>14, <1>15
  DEF RunStep

LEMMA JobType ==
  ASSUME TypeOK, JobNext
  PROVE  ServerTypeOK'
<1> USE DEF ServerTypeOK
<1>1. ServerTypeOK
  BY DEF TypeOK, APITypeOK
<1>2. CASE CronFires
  BY <1>1, <1>2, NewJobType, ListType DEF CronFires, JobUnchanged
<1>3. CASE CollectOwned
  <2>1. <<>> \in Seq(Job)
    OBVIOUS
  <2> QED
    BY <1>1, <1>3, <2>1 DEF CollectOwned, NoCronJob, CronJob
<1>4. ASSUME NEW i \in Indices, JobStarts(i)
      PROVE  ServerTypeOK'
  <2>1. jobs[i] \in Job
    BY <1>1, ListType DEF Indices
  <2>2. [jobs[i] EXCEPT !.state = "active", !.pc = "load"] \in Job
    BY <2>1 DEF Job, JobState
  <2> QED
    BY <1>1, <1>4, <2>2, StepType DEF JobStarts, JobUnchanged
<1>5. ASSUME NEW i \in Indices, Killed(i)
      PROVE  ServerTypeOK'
  BY <1>1, <1>5, ExitType DEF Killed, JobUnchanged
<1>6. ASSUME NEW i \in Indices, Evicted(i)
      PROVE  ServerTypeOK'
  <2>1. jobs[i] \in Job
    BY <1>1, ListType DEF Indices
  <2>2. Replaced(jobs[i]) \in Job
    BY <2>1, ReplacedType
  <2>3. jobs' \in Seq(Job)
    BY <1>6, <2>2, TrimmedType DEF Evicted
  <2> QED
    BY <1>1, <1>6, <2>3 DEF Evicted, JobUnchanged
<1> QED
  BY <1>2, <1>3, <1>4, <1>5, <1>6, RunStepType DEF JobNext, JobProgress

-----------------------------------------------------------------------------
LEMMA CacheType ==
  ASSUME TypeOK, ServerTypeOK', RecTypeOK', DetTypeOK', CacheStep
  PROVE  TypeOK'
<1>1. /\ objCache' \in {objCache, obj'} /\ jobsCache' \in {jobsCache, jobs'}
      /\ cronCache' \in {cronCache, cron'}
  BY DEF CacheStep
<1> QED
  BY <1>1 DEF TypeOK, APITypeOK, ServerTypeOK

LEMMA TypePreserved == TypeOK /\ [Next]_vars => TypeOK'
<1> SUFFICES ASSUME TypeOK, [Next]_vars
             PROVE  TypeOK'
  OBVIOUS
<1>1. RecTypeOK /\ DetTypeOK
  BY DEF TypeOK
<1>2. UNCHANGED recVars => RecTypeOK'
  BY <1>1 DEF recVars, RecTypeOK
<1>3. UNCHANGED detVars => DetTypeOK'
  BY <1>1 DEF detVars, DetTypeOK
<1>4. CASE ReconcilerNext /\ UNCHANGED detVars /\ CacheStep
  BY <1>3, <1>4, ReconcilerType, CacheType
<1>5. CASE DetectorNext /\ UNCHANGED recVars /\ CacheStep
  BY <1>2, <1>5, DetectorType, CacheType
<1>6. CASE JobNext /\ UNCHANGED <<recVars, detVars>> /\ CacheStep
  BY <1>2, <1>3, <1>6, JobType, CacheType
<1>7. CASE Environment /\ UNCHANGED <<recVars, detVars>> /\ CacheStep
  BY <1>2, <1>3, <1>7, EnvironmentType, CacheType
<1>8. CASE RefreshCaches
  BY <1>2, <1>3, <1>8 DEF RefreshCaches, TypeOK, APITypeOK
<1>9. CASE UNCHANGED vars
  BY <1>2, <1>3, <1>9 DEF vars, apiVars, TypeOK, APITypeOK
<1> QED
  BY <1>4, <1>5, <1>6, <1>7, <1>8, <1>9 DEF Next

(* Every reachable state of the reconciler, the detector, the Jobs and the *)
(* caches is well-typed; in particular a Job is never restarted more than  *)
(* BackoffLimit times, and every document count and commit is one the      *)
(* repository has.                                                         *)
THEOREM TypeCorrect == Spec => []TypeOK
  BY TypeAtInit, TypePreserved, PTL DEF Spec
=============================================================================
