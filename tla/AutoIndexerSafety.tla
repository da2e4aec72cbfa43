-------------------------- MODULE AutoIndexerSafety --------------------------
(***************************************************************************)
(* Safety of AutoIndexerSystem for every value of its constants: each      *)
(* theorem states a property of AutoIndexerProperties, from an inductive   *)
(* strengthening of it and the types proved in AutoIndexerTypes.           *)
(***************************************************************************)
EXTENDS AutoIndexerProperties, AutoIndexerTypes

-----------------------------------------------------------------------------
(* What a step may do to the object.  It does not come back once it is     *)
(* gone, it does not lose its finalizer and stay, and its deletion is not  *)
(* taken back; only the status patch of a reconcile moves its phase; and   *)
(* what the user alone writes, strategy and schedule, is kept.             *)
Survives ==
  obj'.exists => /\ obj.exists
                 /\ obj.finalizer => obj'.finalizer
                 /\ obj.deleting => obj'.deleting

PhasePatched ==
  /\ obj'.exists =>
       \/ obj'.phase = obj.phase
       \/ /\ PatchStatus
          /\ obj'.phase = Merged(obj.phase, recOrig.phase, recMem.phase)
  /\ ~obj'.exists => obj' = NoObject \/ UNCHANGED obj

SpecKept ==
  (obj.exists /\ obj'.exists)
    => <<obj.strategy, obj.scheduled>> = <<obj'.strategy, obj'.scheduled>>

WellBehaved == Survives /\ PhasePatched /\ SpecKept

LEMMA ReconcilerWrites ==
  ASSUME TypeOK, ReconcilerNext
  PROVE  WellBehaved
<1> USE DEF WellBehaved, Survives, PhasePatched, SpecKept
<1>1. obj \in AutoIndexer
  BY DEF TypeOK, APITypeOK
<1>2. CASE UNCHANGED obj
  BY <1>2
<1>3. CASE EnsureFinalizer
  BY <1>1, <1>3 DEF EnsureFinalizer, AutoIndexer
<1>4. CASE SetSuspendedState
  BY <1>1, <1>4 DEF SetSuspendedState, AutoIndexer
<1>5. CASE MarkRemediated
  BY <1>1, <1>5 DEF MarkRemediated, AutoIndexer
<1>6. CASE PatchStatus
  BY <1>1, <1>6 DEF PatchStatus, Accepted, StatusPatch, AutoIndexer
<1>7. CASE GcRemoveFinalizer
  BY <1>7 DEF GcRemoveFinalizer, NoObject
<1>8. HandlePhase => UNCHANGED obj
  BY HandlePhaseType
<1>9. \/ UNCHANGED obj \/ EnsureFinalizer \/ SetSuspendedState
      \/ MarkRemediated \/ PatchStatus \/ GcRemoveFinalizer
  BY <1>8
  DEF ReconcilerNext, ReconcileBegin, EnsureFinalizerFails,
      EnsureRequiredResources, EnsureRequiredResourcesFails,
      RemediationCalls, SetSuspendedStateFails, ListIndexes, DeleteIndex,
      RAGCallFails, MarkRemediatedFails, PatchAndReturn, NothingToPatch,
      PatchStatusFails, GarbageCollectAutoIndexer, GcListJobs, GcDeleteIndex,
      GcDeleteIndexFails, GcRemoveFinalizerFails, UnchangedAPI
<1> QED
  BY <1>2, <1>3, <1>4, <1>5, <1>6, <1>7, <1>9

LEMMA DetectorWrites ==
  ASSUME TypeOK, DetectorNext
  PROVE  WellBehaved
<1> USE DEF WellBehaved, Survives, PhasePatched, SpecKept
<1>1. obj \in AutoIndexer
  BY DEF TypeOK, APITypeOK
<1>2. CASE SetDriftDetected \/ SetDriftRemediated
  BY <1>1, <1>2
  DEF SetDriftDetected, SetDriftRemediated, Unmodified, AutoIndexer
<1>3. \/ UNCHANGED obj \/ SetDriftDetected \/ SetDriftRemediated
  BY DEF DetectorNext, PerformDriftCheck, SkipDriftCheck, CompareDocumentCount,
         GetDocumentCountFails, NothingToWrite, AnnotationUpdateFails, Checked,
         DetUnchanged
<1> QED
  BY <1>2, <1>3

LEMMA JobWrites ==
  ASSUME TypeOK, JobNext
  PROVE  WellBehaved
<1> USE DEF WellBehaved, Survives, PhasePatched, SpecKept
<1>1. obj \in AutoIndexer
  BY DEF TypeOK, APITypeOK
<1>2. ASSUME NEW i \in Indices,
             ReportStatus(i) \/ FlagErrors(i) \/ CompleteRun(i)
      PROVE  WellBehaved
  BY <1>1, <1>2 DEF ReportStatus, FlagErrors, CompleteRun, AutoIndexer
<1>3. \/ UNCHANGED obj
      \/ \E i \in Indices : ReportStatus(i) \/ FlagErrors(i) \/ CompleteRun(i)
  BY DEF JobNext, CronFires, CollectOwned, JobProgress, JobStarts, Killed,
         Evicted, RunStep, LoadConfig, LoadConfigFails, SetupRepository,
         SetupRepositoryFails, IndexDocument, IndexDocumentFails, IndexingDone,
         ReportStatusFails
<1> QED
  BY <1>2, <1>3

LEMMA EnvironmentWrites ==
  ASSUME TypeOK, Environment
  PROVE  Survives /\ PhasePatched
<1>1. obj \in AutoIndexer
  BY DEF TypeOK, APITypeOK
<1> QED
  BY <1>1
  DEF Survives, PhasePatched, Environment, UserSuspends, UserChangesStrategy,
      UserSchedules, UserDeletes, Edited, PushCommit, LoseDocuments, ClockTick,
      NoObject, AutoIndexer

LEMMA ObjectStep ==
  ASSUME TypeOK, [Next]_vars
  PROVE  Survives /\ PhasePatched
<1>1. (RefreshCaches \/ UNCHANGED vars) => Survives /\ PhasePatched
  BY DEF RefreshCaches, vars, apiVars, Survives, PhasePatched
<1> QED
  BY <1>1, ReconcilerWrites, DetectorWrites, JobWrites, EnvironmentWrites
  DEF Next, WellBehaved

-----------------------------------------------------------------------------
(* Steps of a reconcile that has seen the finalizer.                       *)
Covered == {"ensure", "phase", "suspend", "unsuspend", "listIndexes",
            "deleteIndex", "mark", "patch"}

(* A stale cache or snapshot may miss a finalizer that is there, but never *)
(* shows one that is not, and a reconcile is past ensureFinalizer only     *)
(* with the finalizer in place.                                            *)
Protection ==
  /\ NothingIsUnprotected
  /\ (obj.exists /\ objCache.finalizer) => obj.finalizer
  /\ (obj.exists /\ recPc \in Covered) => obj.finalizer

LEMMA ProtectionAtInit == Init => Protection
  BY DEF Init, APIInit, RecInit, Protection, NothingIsUnprotected, NoCronJob,
         NoObject, Covered

(* Who creates Jobs and the CronJob.                                       *)
LEMMA CreationStep ==
  ASSUME TypeOK, [Next]_vars
  PROVE  /\ cron'.exists => cron.exists \/ recPc = "ensure"
         /\ jobs' # <<>> => jobs # <<>> \/ cron.exists \/ recPc = "phase"
<1>1. cron \in CronJob /\ jobs \in Seq(Job)
  BY DEF TypeOK, APITypeOK
<1>2. ASSUME ReconcilerNext
      PROVE  /\ UNCHANGED cron \/ recPc = "ensure"
             /\ UNCHANGED jobs \/ recPc = "phase"
  BY <1>2
  DEF ReconcilerNext, ReconcileBegin, EnsureFinalizer, EnsureFinalizerFails,
      EnsureRequiredResources, EnsureRequiredResourcesFails, UnchangedAPI,
      HandlePhase, HandleUnknownPhase, HandlePendingScheduled,
      HandlePendingOnce, HandlePendingJobCreationFails, HandleScheduledPhase,
      HandleSuspendedPhase, HandleRunningPhase, HandleCompletedOrFailedPhase,
      RemediationIgnored, RemediationOver, RemediationManual,
      RemediationSuspend, RemediationAct, InPhase, MoveTo, StayInPhase,
      RemediationCalls, SetSuspendedState, SetSuspendedStateFails, ListIndexes,
      DeleteIndex, RAGCallFails, MarkRemediated, MarkRemediatedFails,
      PatchAndReturn, NothingToPatch, PatchStatus, PatchStatusFails,
      GarbageCollectAutoIndexer, GcListJobs, GcDeleteIndex, GcDeleteIndexFails,
      GcRemoveFinalizer, GcRemoveFinalizerFails
<1>3. ASSUME DetectorNext PROVE UNCHANGED <<cron, jobs>>
  BY <1>3
  DEF DetectorNext, PerformDriftCheck, SkipDriftCheck, CompareDocumentCount,
      GetDocumentCountFails, SetDriftDetected, SetDriftRemediated,
      NothingToWrite, AnnotationUpdateFails, Checked, DetUnchanged
<1>4. ASSUME JobNext
      PROVE  /\ cron'.exists => cron.exists
             /\ jobs' # <<>> => jobs # <<>> \/ cron.exists
  <2>1. CASE CronFires
    BY <2>1 DEF CronFires, JobUnchanged
  <2>2. CASE CollectOwned
    BY <2>2 DEF CollectOwned, NoCronJob
  <2>3. ASSUME NEW i \in Indices,
               JobStarts(i) \/ RunStep(i) \/ Killed(i) \/ Evicted(i)
        PROVE  jobs # <<>> /\ UNCHANGED cron
    <3>1. jobs # <<>>
      BY <1>1 DEF Indices
    <3>2. UNCHANGED cron
      BY <2>3
      DEF JobStarts, Killed, Evicted, RunStep, LoadConfig, LoadConfigFails,
          SetupRepository, SetupRepositoryFails, IndexDocument,
          IndexDocumentFails, IndexingDone, ReportStatus, ReportStatusFails,
          FlagErrors, CompleteRun, JobUnchanged
    <3> QED
      BY <3>1, <3>2
  <2> QED
    BY <1>4, <2>1, <2>2, <2>3 DEF JobNext, JobProgress
<1>5. ASSUME Environment PROVE UNCHANGED <<cron, jobs>>
  BY <1>5
  DEF Environment, UserSuspends, UserChangesStrategy, UserSchedules,
      UserDeletes, Edited, PushCommit, LoseDocuments, ClockTick
<1>6. (RefreshCaches \/ UNCHANGED vars) => UNCHANGED <<cron, jobs>>
  BY DEF RefreshCaches, vars, apiVars
<1> QED
  BY <1>2, <1>3, <1>4, <1>5, <1>6 DEF Next

(* A reconcile passes ensureFinalizer by reading the finalizer or by       *)
(* writing it.                                                             *)
LEMMA CoveredStep ==
  ASSUME TypeOK, [Next]_vars, recPc' \in Covered
  PROVE  \/ recPc \in Covered
         \/ objCache.finalizer /\ UNCHANGED obj
         \/ obj'.finalizer
<1>1. obj \in AutoIndexer
  BY DEF TypeOK, APITypeOK
<1>2. UNCHANGED recPc \/ ReconcilerNext
  BY DEF Next, RefreshCaches, vars, recVars
<1>3. CASE ReconcileBegin
  BY <1>3 DEF ReconcileBegin, UnchangedAPI, Covered
<1>4. CASE EnsureFinalizer
  BY <1>1, <1>4 DEF EnsureFinalizer, AutoIndexer
<1>5. CASE EnsureFinalizerFails \/ GarbageCollectAutoIndexer
  BY <1>5
  DEF EnsureFinalizerFails, GarbageCollectAutoIndexer, GcListJobs,
      GcDeleteIndex, GcDeleteIndexFails, GcRemoveFinalizer,
      GcRemoveFinalizerFails, Return, Goto, Covered
<1>6. CASE \/ EnsureRequiredResources \/ EnsureRequiredResourcesFails
           \/ HandlePhase \/ RemediationCalls \/ PatchAndReturn
  BY <1>6
  DEF EnsureRequiredResources, EnsureRequiredResourcesFails,
      HandlePhase, HandleUnknownPhase, HandlePendingScheduled,
      HandlePendingOnce, HandlePendingJobCreationFails, HandleScheduledPhase,
      HandleSuspendedPhase, HandleRunningPhase, HandleCompletedOrFailedPhase,
      RemediationIgnored, RemediationOver, RemediationManual,
      RemediationSuspend, RemediationAct, InPhase,
      RemediationCalls, SetSuspendedState, SetSuspendedStateFails, ListIndexes,
      DeleteIndex, RAGCallFails, MarkRemediated, MarkRemediatedFails,
      PatchAndReturn, NothingToPatch, PatchStatus, PatchStatusFails, Covered
<1> QED
  BY <1>2, <1>3, <1>4, <1>5, <1>6 DEF ReconcilerNext

LEMMA CacheSource ==
  ASSUME [Next]_vars
  PROVE  objCache' \in {objCache, obj, obj'}
  BY DEF Next, CacheStep, RefreshCaches, vars, apiVars

LEMMA ProtectionPreserved ==
  TypeOK /\ Protection /\ [Next]_vars => Protection'
<1> SUFFICES ASSUME TypeOK, Protection, [Next]_vars
             PROVE  Protection'
  OBVIOUS
<1>1. Survives
  BY ObjectStep
<1>2. (obj'.exists /\ objCache'.finalizer) => obj'.finalizer
  BY <1>1, CacheSource DEF Survives, Protection
<1>3. (obj'.exists /\ recPc' \in Covered) => obj'.finalizer
  BY <1>1, CoveredStep DEF Survives, Protection
<1>4. NothingIsUnprotected'
  BY <1>1, CreationStep
  DEF Survives, Protection, NothingIsUnprotected, Covered
<1> QED
  BY <1>2, <1>3, <1>4 DEF Protection

(* However stale the caches, whatever fails and whenever the user deletes: *)
(* no Job and no CronJob exists for an AutoIndexer whose deletion would    *)
(* not wait for garbageCollectAutoIndexer.                                 *)
THEOREM NothingUnprotected == Spec => []NothingIsUnprotected
<1>1. Protection => NothingIsUnprotected
  BY DEF Protection
<1> QED
  BY <1>1, TypeCorrect, ProtectionAtInit, ProtectionPreserved, PTL DEF Spec
-----------------------------------------------------------------------------
(* From the ensureCronJob of a reconcile on, the CronJob is suspended as   *)
(* the copy in memory says, and a remediation goes on with a copy that is  *)
(* suspended.  ensureCronJob leaves a CronJob alone whose cached copy is   *)
(* as it should be, and is misled when the cache is behind.                *)
CronMirrorsMemory ==
  (recPc = "phase" /\ recMem.scheduled /\ cron.exists)
    => cron.suspend = recMem.suspend \/ recMisled

Quiescence == RemediationQuiescesCron /\ CronMirrorsMemory

LEMMA CronStep ==
  ASSUME [Next]_vars
  PROVE  \/ UNCHANGED cron
         \/ ReconcilerNext /\ EnsureRequiredResources
         \/ ~cron'.exists /\ UNCHANGED recVars
<1>1. ASSUME ReconcilerNext
      PROVE  UNCHANGED cron \/ EnsureRequiredResources
  BY <1>1
  DEF ReconcilerNext, ReconcileBegin, EnsureFinalizer, EnsureFinalizerFails,
      EnsureRequiredResourcesFails, UnchangedAPI,
      HandlePhase, HandleUnknownPhase, HandlePendingScheduled,
      HandlePendingOnce, HandlePendingJobCreationFails, HandleScheduledPhase,
      HandleSuspendedPhase, HandleRunningPhase, HandleCompletedOrFailedPhase,
      RemediationIgnored, RemediationOver, RemediationManual,
      RemediationSuspend, RemediationAct, MoveTo, StayInPhase,
      RemediationCalls, SetSuspendedState, SetSuspendedStateFails, ListIndexes,
      DeleteIndex, RAGCallFails, MarkRemediated, MarkRemediatedFails,
      PatchAndReturn, NothingToPatch, PatchStatus, PatchStatusFails,
      GarbageCollectAutoIndexer, GcListJobs, GcDeleteIndex, GcDeleteIndexFails,
      GcRemoveFinalizer, GcRemoveFinalizerFails
<1>2. ASSUME DetectorNext PROVE UNCHANGED cron
  BY <1>2
  DEF DetectorNext, PerformDriftCheck, SkipDriftCheck, CompareDocumentCount,
      GetDocumentCountFails, SetDriftDetected, SetDriftRemediated,
      NothingToWrite, AnnotationUpdateFails, Checked, DetUnchanged
<1>3. ASSUME JobNext PROVE UNCHANGED cron \/ ~cron'.exists
  <2>1. CASE CollectOwned
    BY <2>1 DEF CollectOwned, NoCronJob
  <2>2. ASSUME NEW i \in Indices,
               JobStarts(i) \/ RunStep(i) \/ Killed(i) \/ Evicted(i)
        PROVE  UNCHANGED cron
    BY <2>2
    DEF JobStarts, Killed, Evicted, RunStep, LoadConfig, LoadConfigFails,
        SetupRepository, SetupRepositoryFails, IndexDocument,
        IndexDocumentFails, IndexingDone, ReportStatus, ReportStatusFails,
        FlagErrors, CompleteRun, JobUnchanged
  <2> QED
    BY <1>3, <2>1, <2>2 DEF JobNext, JobProgress, CronFires, JobUnchanged
<1>4. ASSUME Environment PROVE UNCHANGED cron
  BY <1>4
  DEF Environment, UserSuspends, UserChangesStrategy, UserSchedules,
      UserDeletes, Edited, PushCommit, LoseDocuments, ClockTick
<1>5. (RefreshCaches \/ UNCHANGED vars) => UNCHANGED cron
  BY DEF RefreshCaches, vars, apiVars
<1> QED
  BY <1>1, <1>2, <1>3, <1>4, <1>5 DEF Next

(* How a reconcile comes to the steps Quiescence is about.                 *)
LEMMA RemediationStep ==
  ASSUME TypeOK, ReconcilerNext,
         recPc' \in {"phase", "listIndexes", "deleteIndex", "mark"}
  PROVE  \/ EnsureRequiredResources
         \/ /\ recPc = "phase" /\ recPc' # "phase"
            /\ recMem.suspend /\ UNCHANGED <<recMem, recMisled>>
         \/ /\ recPc \in {"listIndexes", "deleteIndex", "mark"}
            /\ recPc' # "phase"
            /\ recMem'.scheduled = recMem.scheduled /\ UNCHANGED recMisled
<1>1. recMem \in AutoIndexer
  BY DEF TypeOK, RecTypeOK
<1>2. CASE HandlePhase
  BY <1>2
  DEF HandlePhase, HandleUnknownPhase, HandlePendingScheduled,
      HandlePendingOnce, HandlePendingJobCreationFails, HandleScheduledPhase,
      HandleSuspendedPhase, HandleRunningPhase, HandleCompletedOrFailedPhase,
      RemediationIgnored, RemediationOver, RemediationManual,
      RemediationSuspend, RemediationAct, InPhase, MoveTo, StayInPhase,
      FinishPhase, Goto
<1>3. CASE RemediationCalls
  BY <1>1, <1>3
  DEF RemediationCalls, SetSuspendedState, SetSuspendedStateFails, ListIndexes,
      DeleteIndex, RAGCallFails, MarkRemediated, MarkRemediatedFails,
      FinishPhase, ResetStatus, AutoIndexer
<1>4. CASE ~(HandlePhase \/ RemediationCalls)
  BY <1>4
  DEF ReconcilerNext, ReconcileBegin, EnsureFinalizer, EnsureFinalizerFails,
      EnsureRequiredResourcesFails, FinishPhase, Goto, Return,
      PatchAndReturn, NothingToPatch, PatchStatus, PatchStatusFails,
      GarbageCollectAutoIndexer, GcListJobs, GcDeleteIndex, GcDeleteIndexFails,
      GcRemoveFinalizer, GcRemoveFinalizerFails
<1> QED
  BY <1>2, <1>3, <1>4

LEMMA QuiescencePreserved ==
  TypeOK /\ Quiescence /\ [Next]_vars => Quiescence'
<1> SUFFICES ASSUME TypeOK, Quiescence, [Next]_vars
             PROVE  Quiescence'
  OBVIOUS
<1> USE DEF Quiescence, RemediationQuiescesCron, CronMirrorsMemory
<1>1. recMem \in AutoIndexer
  BY DEF TypeOK, RecTypeOK
<1>2. ReconcilerNext \/ UNCHANGED recVars
  BY DEF Next, RefreshCaches, vars
<1>3. CASE UNCHANGED recVars
  <2>1. UNCHANGED cron \/ ~cron'.exists \/ EnsureRequiredResources
    BY CronStep
  <2>2. EnsureRequiredResources => recPc # recPc'
    BY DEF EnsureRequiredResources
  <2> QED
    BY <1>3, <2>1, <2>2 DEF recVars
<1>4. CASE ReconcilerNext /\ EnsureRequiredResources
  <2>1. /\ recMem' = [recMem EXCEPT !.errorCond = FALSE] /\ recPc' = "phase"
        /\ recMem'.scheduled = recMem.scheduled
        /\ recMem'.suspend = recMem.suspend
    BY <1>1, <1>4 DEF EnsureRequiredResources, AutoIndexer
  <2>2. recMem.scheduled => cron' = DesiredCronJob \/ recMisled'
    BY <1>4 DEF EnsureRequiredResources, CronJobWrite
  <2> QED
    BY <2>1, <2>2 DEF DesiredCronJob
<1>5. CASE ReconcilerNext /\ ~EnsureRequiredResources
  <2>1. UNCHANGED cron \/ ~cron'.exists
    BY <1>5, CronStep
  <2> QED
    BY <1>5, <2>1, RemediationStep
<1> QED
  BY <1>2, <1>3, <1>4, <1>5

(* Whatever the user does to spec.suspend in between, and however old the  *)
(* copies the reconciles start from, the Jobs are off while                *)
(* handleDriftRemediationPhase deletes the index, unless ensureCronJob was *)
(* shown a CronJob the server no longer had.                               *)
THEOREM RemediationQuiesced == Spec => []RemediationQuiescesCron
<1>1. Init => Quiescence
  BY DEF Init, APIInit, RecInit, Quiescence, RemediationQuiescesCron, CronMirrorsMemory
<1>2. Quiescence => RemediationQuiescesCron
  BY DEF Quiescence
<1> QED
  BY <1>1, <1>2, QuiescencePreserved, TypeCorrect, PTL DEF Spec
-----------------------------------------------------------------------------
(* The reconciler, the detector and the Jobs write from copies that may be *)
(* old, but none of them writes back an old strategy or schedule.          *)
THEOREM UserSpecKept == Spec => UserSpecIsKept
<1> DEFINE Kept ==
      ( /\ obj.exists /\ obj'.exists
        /\ <<obj.strategy, obj.scheduled>> # <<obj'.strategy, obj'.scheduled>> )
      => UNCHANGED <<recVars, detVars, jobs>>
<1>1. TypeOK /\ [Next]_vars => [Kept]_vars
  <2> SUFFICES ASSUME TypeOK, Next
               PROVE  Kept
    OBVIOUS
  <2>1. CASE ReconcilerNext \/ DetectorNext \/ JobNext
    BY <2>1, ReconcilerWrites, DetectorWrites, JobWrites
    DEF WellBehaved, SpecKept
  <2>2. CASE Environment /\ UNCHANGED <<recVars, detVars>>
    BY <2>2
    DEF Environment, UserSuspends, UserChangesStrategy, UserSchedules,
        UserDeletes, Edited, PushCommit, LoseDocuments, ClockTick
  <2>3. CASE RefreshCaches
    BY <2>3 DEF RefreshCaches, recVars, detVars
  <2> QED
    BY <2>1, <2>2, <2>3 DEF Next
<1> QED
  BY <1>1, TypeCorrect, PTL DEF Spec, UserSpecIsKept
-----------------------------------------------------------------------------
(* AutoIndexerSystem implements PhaseMachine, however old the copies are.  *)

(* The copy a reconcile is computed from.                                  *)
LEMMA OriginalStep ==
  ASSUME ReconcilerNext
  PROVE  \/ recPc' = "idle" /\ recOrig' = NoObject
         \/ recPc = "idle" /\ objCache.exists /\ recOrig' = objCache
         \/ recPc # "idle" /\ obj'.exists /\ recOrig' = obj'
         \/ recPc # "idle" /\ UNCHANGED recOrig
<1>1. CASE ReconcileBegin
  BY <1>1 DEF ReconcileBegin
<1>2. CASE EnsureFinalizer
  BY <1>2 DEF EnsureFinalizer, Unmodified
<1>3. CASE ~ReconcileBegin /\ ~EnsureFinalizer
  BY <1>3
  DEF ReconcilerNext, EnsureFinalizerFails,
      EnsureRequiredResources, EnsureRequiredResourcesFails,
      HandlePhase, HandleUnknownPhase, HandlePendingScheduled,
      HandlePendingOnce, HandlePendingJobCreationFails, HandleScheduledPhase,
      HandleSuspendedPhase, HandleRunningPhase, HandleCompletedOrFailedPhase,
      RemediationIgnored, RemediationOver, RemediationManual,
      RemediationSuspend, RemediationAct, InPhase, MoveTo, StayInPhase,
      FinishPhase, Goto, Return,
      RemediationCalls, SetSuspendedState, SetSuspendedStateFails, ListIndexes,
      DeleteIndex, RAGCallFails, MarkRemediated, MarkRemediatedFails,
      PatchAndReturn, NothingToPatch, PatchStatus, PatchStatusFails,
      GarbageCollectAutoIndexer, GcListJobs, GcDeleteIndex, GcDeleteIndexFails,
      GcRemoveFinalizer, GcRemoveFinalizerFails
<1> QED
  BY <1>1, <1>2, <1>3

(* What a reconcile is about to write differs by an edge of the machine    *)
(* from the copy it started from, unless a later response has replaced its *)
(* memory: the patch then carries the version of that response.            *)
EdgeOrSame(from, to) == from = to \/ <<from, to>> \in Phases!Edges

PhaseMemory ==
  /\ recPc # "idle" => recOrig.exists
  /\ recPc \notin {"idle", "patch"} => recMem.phase = recOrig.phase
  /\ (recPc = "patch" /\ ~recLocked) => EdgeOrSame(recOrig.phase, recMem.phase)

LEMMA PhaseMemoryAtInit == Init => PhaseMemory
  BY DEF Init, RecInit, PhaseMemory

LEMMA MoveToEdge ==
  ASSUME recMem \in AutoIndexer, NEW phase \in Phase, MoveTo(phase),
         EdgeOrSame(recMem.phase, phase)
  PROVE  /\ UNCHANGED recOrig /\ recPc' = "patch"
         /\ EdgeOrSame(recMem.phase, recMem'.phase)
<1>1. recMem'.phase = phase
  BY DEF MoveTo, FinishPhase, AutoIndexer
<1> QED
  BY <1>1 DEF MoveTo, FinishPhase

EdgeTaken ==
  /\ UNCHANGED recOrig
  /\ \/ recPc' = "patch" /\ EdgeOrSame(recMem.phase, recMem'.phase)
     \/ recPc' \notin {"idle", "patch"} /\ UNCHANGED recMem

(* The handlers of the phases take the edges of the machine.               *)
LEMMA HandlersTakeEdges ==
  ASSUME recMem \in AutoIndexer, HandlePhase
  PROVE  EdgeTaken
<1>1. \A phase \in Phase :
        MoveTo(phase) /\ EdgeOrSame(recMem.phase, phase) => EdgeTaken
  BY MoveToEdge DEF EdgeTaken
<1>2. StayInPhase => EdgeTaken
  BY <1>1 DEF StayInPhase, EdgeOrSame, AutoIndexer
<1>3. CASE HandleUnknownPhase
  BY <1>1, <1>3
  DEF HandleUnknownPhase, InPhase, EdgeOrSame, Phases!Edges, Phase
<1>4. CASE HandlePendingScheduled
  BY <1>1, <1>4
  DEF HandlePendingScheduled, InPhase, EdgeOrSame, Phases!Edges, Phase
<1>5. CASE HandlePendingOnce \/ HandlePendingJobCreationFails
  <2>1. \/ recMem'.phase = "Running" \/ recMem'.phase = "Failed"
    BY <1>5
    DEF HandlePendingOnce, HandlePendingJobCreationFails, FinishPhase,
        AutoIndexer
  <2>2. recMem.phase = "Pending" /\ UNCHANGED recOrig /\ recPc' = "patch"
    BY <1>5
    DEF HandlePendingOnce, HandlePendingJobCreationFails, InPhase, FinishPhase
  <2> QED
    BY <2>1, <2>2 DEF EdgeOrSame, Phases!Edges, EdgeTaken
<1>6. CASE HandleScheduledPhase
  BY <1>1, <1>6
  DEF HandleScheduledPhase, InPhase, EdgeOrSame, Phases!Edges, Phase
<1>7. CASE HandleSuspendedPhase
  BY <1>1, <1>7
  DEF HandleSuspendedPhase, InPhase, EdgeOrSame, Phases!Edges, Phase
<1>8. CASE HandleRunningPhase
  BY <1>1, <1>8
  DEF HandleRunningPhase, InPhase, EdgeOrSame, Phases!Edges, Phase
<1>9. CASE HandleCompletedOrFailedPhase
  BY <1>2, <1>9 DEF HandleCompletedOrFailedPhase
<1>10. CASE RemediationIgnored
  BY <1>1, <1>10
  DEF RemediationIgnored, InPhase, EdgeOrSame, Phases!Edges, Phase
<1>11. Goto("unsuspend") \/ Goto("suspend") \/ Goto("listIndexes") => EdgeTaken
  BY DEF Goto, EdgeTaken
<1>12. CASE RemediationOver
  BY <1>1, <1>11, <1>12
  DEF RemediationOver, InPhase, EdgeOrSame, Phases!Edges, Phase
<1>13. CASE RemediationManual
  BY <1>2, <1>13 DEF RemediationManual
<1>14. CASE RemediationSuspend
  BY <1>11, <1>14 DEF RemediationSuspend
<1>15. CASE RemediationAct
  BY <1>2, <1>11, <1>15 DEF RemediationAct
<1> QED
  BY <1>3, <1>4, <1>5, <1>6, <1>7, <1>8, <1>9, <1>10, <1>12, <1>13, <1>14,
     <1>15 DEF HandlePhase

LEMMA MemoryPhaseStep ==
  ASSUME TypeOK, PhaseMemory, ReconcilerNext
  PROVE  /\ recPc' \notin {"idle", "patch"} => recMem'.phase = recOrig'.phase
         /\ (recPc' = "patch" /\ ~recLocked')
              => EdgeOrSame(recOrig'.phase, recMem'.phase)
<1>1. obj \in AutoIndexer /\ recMem \in AutoIndexer /\ recOrig \in AutoIndexer
  BY DEF TypeOK, APITypeOK, RecTypeOK
<1> USE DEF PhaseMemory, EdgeOrSame
<1>2. CASE ReconcileBegin \/ EnsureFinalizer
  BY <1>2 DEF ReconcileBegin, EnsureFinalizer
<1>3. CASE EnsureFinalizerFails \/ PatchAndReturn
  BY <1>3
  DEF EnsureFinalizerFails, PatchAndReturn, NothingToPatch, PatchStatus,
      PatchStatusFails, Return
<1>4. CASE EnsureRequiredResources \/ EnsureRequiredResourcesFails
  BY <1>1, <1>4
  DEF EnsureRequiredResources, EnsureRequiredResourcesFails, FinishPhase,
      AutoIndexer
<1>5. CASE HandlePhase
  <2>1. recPc = "phase"
    BY <1>5
    DEF HandlePhase, HandleUnknownPhase, HandlePendingScheduled,
        HandlePendingOnce, HandlePendingJobCreationFails, HandleScheduledPhase,
        HandleSuspendedPhase, HandleRunningPhase, HandleCompletedOrFailedPhase,
        RemediationIgnored, RemediationOver, RemediationManual,
        RemediationSuspend, RemediationAct, InPhase
  <2> QED
    BY <1>1, <1>5, <2>1, HandlersTakeEdges DEF EdgeTaken
<1>6. CASE RemediationCalls
  <2>1. CASE SetSuspendedState \/ MarkRemediated
    BY <2>1 DEF SetSuspendedState, MarkRemediated, FinishPhase
  <2>2. CASE ListIndexes \/ DeleteIndex
    BY <1>1, <2>2 DEF ListIndexes, DeleteIndex, ResetStatus, AutoIndexer
  <2>3. CASE SetSuspendedStateFails \/ RAGCallFails \/ MarkRemediatedFails
    BY <1>1, <2>3
    DEF SetSuspendedStateFails, RAGCallFails, MarkRemediatedFails, FinishPhase,
        AutoIndexer
  <2> QED
    BY <1>6, <2>1, <2>2, <2>3 DEF RemediationCalls
<1>7. CASE GarbageCollectAutoIndexer
  BY <1>7
  DEF GarbageCollectAutoIndexer, GcListJobs, GcDeleteIndex, GcDeleteIndexFails,
      GcRemoveFinalizer, GcRemoveFinalizerFails, Return, Goto
<1> QED
  BY <1>2, <1>3, <1>4, <1>5, <1>6, <1>7 DEF ReconcilerNext

LEMMA PhaseMemoryPreserved ==
  TypeOK /\ PhaseMemory /\ [Next]_vars => PhaseMemory'
<1> SUFFICES ASSUME TypeOK, PhaseMemory, [Next]_vars
             PROVE  PhaseMemory'
  OBVIOUS
<1>1. ReconcilerNext \/ UNCHANGED recVars
  BY DEF Next, RefreshCaches, vars
<1>2. CASE UNCHANGED recVars
  BY <1>2 DEF PhaseMemory, recVars, EdgeOrSame
<1>3. CASE ReconcilerNext
  <2>1. recPc' # "idle" => recOrig'.exists
    BY <1>3, OriginalStep DEF PhaseMemory
  <2> QED
    BY <1>3, <2>1, MemoryPhaseStep DEF PhaseMemory, EdgeOrSame
<1> QED
  BY <1>1, <1>2, <1>3

(* No step brings back a phase that no copy shows any more.                *)
LEMMA ViewsStep ==
  ASSUME TypeOK, [Next]_vars
  PROVE  \A view \in Views' :
           view \in Views \/ (obj'.exists /\ view = obj'.phase)
<1>1. recOrig' \in {recOrig, objCache, obj', NoObject}
  <2>1. CASE UNCHANGED recVars
    BY <2>1 DEF recVars
  <2>2. CASE ReconcilerNext
    BY <2>2, OriginalStep
  <2> QED
    BY <2>1, <2>2 DEF Next, RefreshCaches, vars
<1>2. ~NoObject.exists
  BY DEF NoObject
<1>3. objCache' \in {objCache, obj, obj'}
  BY CacheSource
<1> QED
  BY <1>1, <1>2, <1>3 DEF Views, Copies

(* The only step that moves the phase is the patch of a reconcile.         *)
LEMMA PhaseEdge ==
  ASSUME TypeOK, PhaseMemory, [Next]_vars,
         obj'.exists, obj'.phase # obj.phase
  PROVE  /\ PatchStatus /\ ~recLocked
         /\ recOrig.exists /\ recMem.phase = obj'.phase
         /\ <<recOrig.phase, obj'.phase>> \in Phases!Edges
<1>1. /\ PatchStatus
      /\ obj'.phase = Merged(obj.phase, recOrig.phase, recMem.phase)
  BY ObjectStep DEF PhasePatched
<1>2. recMem.phase = obj'.phase /\ recOrig.phase # recMem.phase
  BY <1>1 DEF Merged
<1>3. ~recLocked
  <2>1. recMem \in AutoIndexer
    BY DEF TypeOK, RecTypeOK
  <2>2. [recMem EXCEPT !.errorCond = obj.errorCond].phase = recMem.phase
    BY <2>1 DEF AutoIndexer
  <2> QED
    BY <1>1, <1>2, <2>2 DEF PatchStatus, Accepted, Unmodified
<1>4. recPc = "patch"
  BY <1>1 DEF PatchStatus
<1> QED
  BY <1>1, <1>2, <1>3, <1>4 DEF PhaseMemory, EdgeOrSame

(* Every step of the system is a step of the phase machine or none.        *)
ShownPhase == IF obj.exists THEN obj.phase ELSE "Gone"

LEMMA PhaseSimulation ==
  TypeOK /\ PhaseMemory /\ [Next]_vars => [Phases!Next]_<<ShownPhase, Views>>
<1> SUFFICES ASSUME TypeOK, PhaseMemory, [Next]_vars
             PROVE  Phases!Next
  BY DEF ShownPhase
<1> USE DEF ShownPhase
<1>1. obj'.exists => obj.exists
  BY ObjectStep DEF Survives
<1>2. \A view \in Views' :
        view \in Views \/ (obj'.exists /\ view = obj'.phase)
  BY ViewsStep
<1>3. obj.exists => obj.phase \in Views
  BY DEF Views, Copies
<1>4. CASE ~obj'.exists
  BY <1>2, <1>4 DEF Phases!Next, Phases!Vanish
<1>5. CASE obj'.exists /\ obj'.phase = obj.phase
  BY <1>1, <1>2, <1>3, <1>5 DEF Phases!Next, Phases!Forget
<1>6. CASE obj'.exists /\ obj'.phase # obj.phase
  <2>1. recOrig.exists /\ <<recOrig.phase, obj'.phase>> \in Phases!Edges
    BY <1>6, PhaseEdge
  <2>2. recOrig.phase \in Views
    BY <2>1 DEF Views, Copies
  <2>3. obj.phase # "Gone"
    BY DEF TypeOK, APITypeOK, AutoIndexer, Phase
  <2> QED
    BY <1>1, <1>2, <1>6, <2>1, <2>2, <2>3 DEF Phases!Next, Phases!Advance
<1> QED
  BY <1>4, <1>5, <1>6

(* The reconciler, the detector, the Jobs and the users together implement *)
(* the machine a user who watches status.indexingPhase relies on, however  *)
(* far the informer caches are behind and whatever fails.                  *)
THEOREM PhaseMachineImplemented == Spec => PhasesFollowTheMachine
<1>1. Init => Phases!Init
  <2> SUFFICES ASSUME Init PROVE Phases!Init OBVIOUS
  <2>1. /\ obj.exists /\ obj.phase = "None" /\ objCache = obj
        /\ ~recOrig.exists
    BY DEF Init, APIInit, RecInit, NoObject
  <2> QED
    BY <2>1 DEF Phases!Init, Views, Copies
<1> QED
  BY <1>1, TypeCorrect, PhaseMemoryAtInit, PhaseMemoryPreserved, PhaseSimulation, PTL
  DEF Spec, PhasesFollowTheMachine, Phases!Spec, ShownPhase
=============================================================================
