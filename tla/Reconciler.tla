----------------------------- MODULE Reconciler -----------------------------
(***************************************************************************)
(* AutoIndexerReconciler.  The workqueue gives a key to one worker at a    *)
(* time, so there is one reconcile of the object in flight; it is cut at   *)
(* its calls of the API server and of the RAG engine.                      *)
(*                                                                         *)
(* recOrig is the copy made on entering syncAutoIndexer, recMem the copy   *)
(* being modified, recLocked says that recMem was overwritten by a later   *)
(* response, whose resourceVersion then ends up in the final status patch. *)
(* recMisled is a history variable, read by no guard: has ensureCronJob    *)
(* let the CronJob be, in this reconcile, for one of the cache that the    *)
(* server no longer had?                                                   *)
(***************************************************************************)
EXTENDS AutoIndexerAPI

VARIABLES recPc, recOrig, recMem, recLocked, recMisled

recVars == <<recPc, recOrig, recMem, recLocked, recMisled>>

RecSteps == {"idle", "finalizer", "ensure", "phase", "suspend", "unsuspend",
             "listIndexes", "deleteIndex", "mark", "patch",
             "gcList", "gcDelete", "gcFinalize"}

RecTypeOK ==
  /\ recPc \in RecSteps
  /\ recOrig \in AutoIndexer
  /\ recMem \in AutoIndexer
  /\ recLocked \in BOOLEAN
  /\ recMisled \in BOOLEAN

RecInit ==
  /\ recPc = "idle"
  /\ recOrig = NoObject
  /\ recMem = NoObject
  /\ recLocked = FALSE
  /\ recMisled = FALSE

(* Reconcile returns.  The object is reconciled again because it changed,  *)
(* because the reconcile failed, or at the next resync.                    *)
Return ==
  /\ recPc' = "idle"
  /\ recOrig' = NoObject
  /\ recMem' = NoObject
  /\ recLocked' = FALSE
  /\ recMisled' = FALSE

(* The handler of a phase leaves mem; syncAutoIndexer then sets or clears  *)
(* the AutoIndexerError condition and patches the status.                  *)
FinishPhase(mem, failed) ==
  /\ recMem' = [mem EXCEPT !.errorCond = failed]
  /\ recPc' = "patch"
  /\ UNCHANGED <<recOrig, recMisled>>

Goto(pc) ==
  /\ recPc' = pc
  /\ UNCHANGED <<recOrig, recMem, recLocked, recMisled>>

UnchangedAPI == UNCHANGED <<obj, jobs, cron, index>>

-----------------------------------------------------------------------------
(* Used by no specification: the finalizer is forgotten.                   *)
BeginWithoutFinalizer ==
  /\ recPc = "idle"
  /\ objCache.exists
  /\ recOrig' = objCache
  /\ recMem' = objCache
  /\ recPc' = IF objCache.deleting THEN "gcList" ELSE "ensure"
  /\ UNCHANGED <<recLocked, recMisled>>
  /\ UnchangedAPI

(* Reconcile reads the object from the cache.                              *)
ReconcileBegin ==
  /\ recPc = "idle"
  /\ objCache.exists
  /\ recOrig' = objCache
  /\ recMem' = objCache
  /\ recPc' = IF objCache.deleting THEN "gcList"
              ELSE IF objCache.finalizer THEN "ensure" ELSE "finalizer"
  /\ UNCHANGED <<recLocked, recMisled>>
  /\ UnchangedAPI

(* ensureFinalizer: the response of the patch becomes the copy to sync.    *)
EnsureFinalizer ==
  /\ recPc = "finalizer"
  /\ obj.exists
  /\ obj' = [obj EXCEPT !.finalizer = TRUE]
  /\ recOrig' = obj'
  /\ recMem' = obj'
  /\ recPc' = "ensure"
  /\ UNCHANGED <<recLocked, recMisled, jobs, cron, index>>

EnsureFinalizerFails ==
  /\ recPc = "finalizer"
  /\ ~obj.exists \/ MayFail("reconciler")
  /\ Return
  /\ UnchangedAPI

(* ensureCronJob compares the CronJob in the cache with the one it wants   *)
(* and creates or updates it in the server, which refuses what is made     *)
(* from a stale copy.  The comparison covers the whole specification, with *)
(* what the server filled in, so that an update may be tried, and refused, *)
(* where the suspension alone is as wanted.                                *)
DesiredCronJob == [exists |-> TRUE, suspend |-> recMem.suspend]

CronJobWrite == recMem.scheduled /\ cronCache # DesiredCronJob

(* Used by no specification: the CronJob is created but never updated.     *)
EnsureNeverUpdates ==
  /\ recPc = "ensure"
  /\ cron' = IF recMem.scheduled /\ ~cronCache.exists
             THEN DesiredCronJob
             ELSE cron
  /\ recMem' = [recMem EXCEPT !.errorCond = FALSE]
  /\ recPc' = "phase"
  /\ UNCHANGED <<recOrig, recLocked, recMisled, obj, jobs, index>>

(* ensureRequiredResources: the RAGEngine exists, the service account and  *)
(* its role are in place, and the CronJob mirrors spec.suspend.            *)
EnsureRequiredResources ==
  /\ recPc = "ensure"
  /\ CronJobWrite => cronCache = cron
  /\ cron' = IF CronJobWrite THEN DesiredCronJob ELSE cron
  /\ recMisled' = (recMem.scheduled /\ cronCache # cron)
  /\ recMem' = [recMem EXCEPT !.errorCond = FALSE]
  /\ recPc' = "phase"
  /\ UNCHANGED <<recOrig, recLocked, obj, jobs, index>>

EnsureRequiredResourcesFails ==
  /\ recPc = "ensure"
  /\ MayFail("resources") \/ (recMem.scheduled /\ cronCache # cron)
  /\ FinishPhase(recMem, TRUE)
  /\ UNCHANGED recLocked
  /\ UnchangedAPI

-----------------------------------------------------------------------------
InPhase(phase) == recPc = "phase" /\ recMem.phase = phase

MoveTo(phase) ==
  /\ FinishPhase([recMem EXCEPT !.phase = phase], FALSE)
  /\ UNCHANGED recLocked
  /\ UnchangedAPI

StayInPhase == MoveTo(recMem.phase)

HandleUnknownPhase == InPhase("None") /\ MoveTo("Pending")

HandlePendingScheduled ==
  /\ InPhase("Pending")
  /\ recMem.scheduled
  /\ MoveTo(IF recMem.suspend THEN "Suspended" ELSE "Scheduled")

HasOnceJob(list) == \E i \in 1..Len(list) : list[i].kind = "once"

(* ensureJob looks for the Job in the cache and creates it in the server.  *)
HandlePendingOnce ==
  /\ InPhase("Pending")
  /\ ~recMem.scheduled
  /\ \/ HasOnceJob(jobsCache) /\ UNCHANGED jobs
     \/ /\ ~HasOnceJob(jobsCache)
        /\ ~HasOnceJob(jobs)
        /\ jobs' = Append(jobs, NewJob("once"))
  /\ FinishPhase([recMem EXCEPT !.phase = "Running"], FALSE)
  /\ UNCHANGED <<recLocked, obj, cron, index>>

HandlePendingJobCreationFails ==
  /\ InPhase("Pending")
  /\ ~recMem.scheduled
  /\ ~HasOnceJob(jobsCache)
  /\ HasOnceJob(jobs) \/ MayFail("reconciler")  \* AlreadyExists, or refused
  /\ FinishPhase([recMem EXCEPT !.phase = "Failed"], TRUE)
  /\ UNCHANGED recLocked
  /\ UnchangedAPI

HandleScheduledPhase ==
  /\ InPhase("Scheduled")
  /\ \E status \in JobStatuses(jobsCache) :
       MoveTo(IF recMem.suspend THEN "Suspended"
              ELSE IF status.running > 0 THEN "Running"
              ELSE IF recMem.drift /\ recMem.strategy # "Ignore"
                   THEN "DriftRemediation"
              ELSE "Scheduled")

HandleSuspendedPhase ==
  /\ InPhase("Suspended")
  /\ MoveTo(IF recMem.suspend THEN "Suspended" ELSE "Scheduled")

(* Used by no specification: no failed and no running Job is success.      *)
RunningWithoutCompletedCheck ==
  /\ InPhase("Running")
  /\ \E status \in JobStatuses(jobsCache) :
       MoveTo(IF status.running > 0 THEN "Running"
              ELSE IF status.failed > 0 /\ status.latestJobFailed THEN "Failed"
              ELSE IF recMem.scheduled THEN "Scheduled"
              ELSE "Completed")

(* Used by no specification: an off-by-one in the count of finished Jobs.  *)
RunningOffByOne ==
  /\ InPhase("Running")
  /\ \E status \in JobStatuses(jobsCache) :
       MoveTo(IF status.running > 0 \/ status.completed <= 1 THEN "Running"
              ELSE "Completed")

HandleRunningPhase ==
  /\ InPhase("Running")
  /\ \E status \in JobStatuses(jobsCache) :
       MoveTo(IF status.running > 0 THEN "Running"
              ELSE IF /\ status.failed > 0
                      /\ status.latestJobFailed
                      /\ ~recMem.scheduled THEN "Failed"
              ELSE IF status.completed = 0 THEN "Running"
              ELSE IF recMem.scheduled THEN "Scheduled"
              ELSE "Completed")

(* Used by no specification: a finished AutoIndexer starts over.           *)
FinishedStartsOver ==
  /\ InPhase("Completed") \/ InPhase("Failed")
  /\ MoveTo("Pending")

HandleCompletedOrFailedPhase ==
  /\ InPhase("Completed") \/ InPhase("Failed")
  /\ StayInPhase

-----------------------------------------------------------------------------
(* handleDriftRemediationPhase, one action per way out of it.              *)
RemediationIgnored ==
  /\ InPhase("DriftRemediation")
  /\ recMem.strategy = "Ignore"
  /\ MoveTo("Pending")

RemediationOver ==
  /\ InPhase("DriftRemediation")
  /\ recMem.strategy # "Ignore"
  /\ ~recMem.drift
  /\ IF recMem.suspend
     THEN Goto("unsuspend") /\ UnchangedAPI
     ELSE MoveTo("Pending")

RemediationManual ==
  /\ InPhase("DriftRemediation")
  /\ recMem.strategy = "Manual"
  /\ recMem.drift
  /\ StayInPhase

RemediationSuspend ==
  /\ InPhase("DriftRemediation")
  /\ recMem.strategy = "Auto"
  /\ recMem.drift
  /\ ~recMem.suspend
  /\ Goto("suspend")
  /\ UnchangedAPI

RemediationAct ==
  /\ InPhase("DriftRemediation")
  /\ recMem.strategy = "Auto"
  /\ recMem.drift
  /\ recMem.suspend
  /\ \E status \in JobStatuses(jobsCache) :
       IF recMem.remediated \/ status.running > 0
       THEN StayInPhase
       ELSE Goto("listIndexes") /\ UnchangedAPI

(* Used by no specification: the remediation goes on in the reconcile that *)
(* suspended the AutoIndexer, without the early return.                    *)
SuspendWithoutReturn ==
  /\ recPc \in {"suspend", "unsuspend"}
  /\ obj.exists
  /\ obj' = [obj EXCEPT !.suspend = (recPc = "suspend")]
  /\ recMem' = obj'
  /\ recPc' = IF recPc = "suspend" THEN "listIndexes" ELSE "patch"
  /\ recLocked' = TRUE
  /\ UNCHANGED <<recOrig, recMisled, jobs, cron, index>>

(* setSuspendedState: the response replaces the copy in memory.            *)
SetSuspendedState ==
  /\ recPc \in {"suspend", "unsuspend"}
  /\ obj.exists
  /\ obj' = [obj EXCEPT !.suspend = (recPc = "suspend")]
  /\ FinishPhase(obj', FALSE)
  /\ recLocked' = TRUE
  /\ UNCHANGED <<jobs, cron, index>>

SetSuspendedStateFails ==
  /\ recPc \in {"suspend", "unsuspend"}
  /\ ~obj.exists \/ MayFail("reconciler")
  /\ FinishPhase(recMem, TRUE)
  /\ UNCHANGED recLocked
  /\ UnchangedAPI

(* The reset of LastIndexedCommit and NumOfDocumentInIndex is made in the  *)
(* copy in memory, on the way to the patch of the annotations.             *)
ResetStatus == [recMem EXCEPT !.lastCommit = 0, !.numDocs = 0]

ListIndexes ==
  /\ recPc = "listIndexes"
  /\ recPc' = IF index # {} THEN "deleteIndex" ELSE "mark"
  /\ recMem' = IF index # {} THEN recMem ELSE ResetStatus
  /\ UNCHANGED <<recOrig, recLocked, recMisled>>
  /\ UnchangedAPI

DeleteIndex ==
  /\ recPc = "deleteIndex"
  /\ index' = {}
  /\ recMem' = ResetStatus
  /\ recPc' = "mark"
  /\ UNCHANGED <<recOrig, recLocked, recMisled, obj, jobs, cron>>

(* Every attempt failed; the last one may have deleted the index all the   *)
(* same and its answer was lost.                                           *)
RAGCallFails ==
  /\ recPc \in {"listIndexes", "deleteIndex"}
  /\ MayFail("ragclient")
  /\ index' \in IF recPc = "deleteIndex" THEN {index, {}} ELSE {index}
  /\ FinishPhase(recMem, TRUE)
  /\ UNCHANGED <<recLocked, obj, jobs, cron>>

(* updateAnnotations patches the annotations alone, and its response then  *)
(* replaces the copy in memory, the reset of the status included.          *)
MarkRemediated ==
  /\ recPc = "mark"
  /\ obj.exists
  /\ obj' = [obj EXCEPT !.remediated = ~sameSecond]
  /\ FinishPhase(obj', FALSE)
  /\ recLocked' = TRUE
  /\ UNCHANGED <<jobs, cron, index>>

(* When the annotations cannot be patched the reset stays in memory, and   *)
(* the status patch that reports the error writes it.                      *)
MarkRemediatedFails ==
  /\ recPc = "mark"
  /\ ~obj.exists \/ MayFail("reconciler")
  /\ FinishPhase(recMem, TRUE)
  /\ UNCHANGED recLocked
  /\ UnchangedAPI

-----------------------------------------------------------------------------
(* patchAndReturn.                                                         *)
NothingToPatch ==
  /\ recPc = "patch"
  /\ ~StatusDiffers(recOrig, recMem)
  /\ Return
  /\ UnchangedAPI

(* A locked patch carries the version of the last response, from which     *)
(* recMem differs at most in the error condition.                          *)
Accepted ==
  /\ obj.exists
  /\ recLocked => Unmodified([recMem EXCEPT !.errorCond = obj.errorCond])

PatchStatus ==
  /\ recPc = "patch"
  /\ StatusDiffers(recOrig, recMem)
  /\ Accepted
  /\ obj' = StatusPatch(recOrig, recMem)
  /\ Return
  /\ UNCHANGED <<jobs, cron, index>>

PatchStatusFails ==
  /\ recPc = "patch"
  /\ StatusDiffers(recOrig, recMem)
  /\ ~Accepted \/ MayFail("reconciler")
  /\ Return
  /\ UnchangedAPI

-----------------------------------------------------------------------------
(* garbageCollectAutoIndexer.                                              *)
IsActive(list) == \E i \in 1..Len(list) : list[i].state = "active"

(* Used by no specification: waits for finished Jobs too.                  *)
GcWaitsForAnyJob ==
  /\ recPc = "gcList"
  /\ IF jobsCache # <<>> THEN Return ELSE Goto("gcDelete")
  /\ UnchangedAPI

GcListJobs ==
  /\ recPc = "gcList"
  /\ IF IsActive(jobsCache) THEN Return ELSE Goto("gcDelete")
  /\ UnchangedAPI

GcDeleteIndex ==
  /\ recPc = "gcDelete"
  /\ index' = {}
  /\ Goto("gcFinalize")
  /\ UNCHANGED <<obj, jobs, cron>>

GcDeleteIndexFails ==
  /\ recPc = "gcDelete"
  /\ MayFail("ragclient")
  /\ index' \in {index, {}}
  /\ Return
  /\ UNCHANGED <<obj, jobs, cron>>

(* The finalizer is removed by an Update: the object disappears.           *)
GcRemoveFinalizer ==
  /\ recPc = "gcFinalize"
  /\ Unmodified(recMem)
  /\ obj' = NoObject
  /\ Return
  /\ UNCHANGED <<jobs, cron, index>>

GcRemoveFinalizerFails ==
  /\ recPc = "gcFinalize"
  /\ ~Unmodified(recMem) \/ MayFail("reconciler")
  /\ Return
  /\ UnchangedAPI

-----------------------------------------------------------------------------
HandlePhase ==
  \/ HandleUnknownPhase
  \/ HandlePendingScheduled
  \/ HandlePendingOnce
  \/ HandlePendingJobCreationFails
  \/ HandleScheduledPhase
  \/ HandleSuspendedPhase
  \/ HandleRunningPhase
  \/ HandleCompletedOrFailedPhase
  \/ RemediationIgnored
  \/ RemediationOver
  \/ RemediationManual
  \/ RemediationSuspend
  \/ RemediationAct

RemediationCalls ==
  \/ SetSuspendedState
  \/ SetSuspendedStateFails
  \/ ListIndexes
  \/ DeleteIndex
  \/ RAGCallFails
  \/ MarkRemediated
  \/ MarkRemediatedFails

PatchAndReturn ==
  \/ NothingToPatch
  \/ PatchStatus
  \/ PatchStatusFails

GarbageCollectAutoIndexer ==
  \/ GcListJobs
  \/ GcDeleteIndex
  \/ GcDeleteIndexFails
  \/ GcRemoveFinalizer
  \/ GcRemoveFinalizerFails

ReconcilerNext ==
  /\ \/ ReconcileBegin
     \/ EnsureFinalizer
     \/ EnsureFinalizerFails
     \/ EnsureRequiredResources
     \/ EnsureRequiredResourcesFails
     \/ HandlePhase
     \/ RemediationCalls
     \/ PatchAndReturn
     \/ GarbageCollectAutoIndexer
  /\ UNCHANGED <<head, sameSecond>>
=============================================================================
