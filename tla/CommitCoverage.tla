--------------------------- MODULE CommitCoverage ---------------------------
(***************************************************************************)
(* CommitIsIndexed for every number of commits and restarts, any lag of    *)
(* the caches and any failure but those of the RAG engine, when nothing    *)
(* but the Jobs and the garbage collection of a deleted AutoIndexer        *)
(* touches the index.                                                      *)
(***************************************************************************)
EXTENDS AutoIndexerSafety

(* Nobody else touches the index: drift is ignored and documents stay.     *)
OnlyJobsTouchTheIndex ==
  /\ Strategies = {"Ignore"}
  /\ {"strategy", "lose"} \cap Edits = {}
  /\ "rag" \notin Faults

(* Every copy of the object ignores drift, and a deletion that was seen is *)
(* one that goes on.                                                       *)
Ignores(ai) == ai.exists => ai.strategy = "Ignore"

Deleted(ai) == ~ai.exists \/ ai.deleting

GcSteps == {"gcList", "gcDelete", "gcFinalize"}

NoRemediation ==
  /\ Ignores(obj) /\ Ignores(objCache)
  /\ recPc # "idle" => recMem.strategy = "Ignore"
  /\ recPc \notin {"suspend", "unsuspend", "listIndexes", "deleteIndex", "mark"}
  /\ recPc # "idle" => recMem.lastCommit = recOrig.lastCommit
  /\ Deleted(objCache) => Deleted(obj)
  /\ recPc \in GcSteps => Deleted(obj)

(* What the container of a Job still has to index, and what the documents  *)
(* in the index must already cover of its commit.                          *)
JobCovers(job, docs) ==
  /\ job.state = "pending" => job.pc = "off"
  /\ job.pc \in {"off", "load", "clone"} => job.target = 0
  /\ (job.pc = "clone" /\ ~job.full) => 1..job.from \subseteq docs
  /\ job.pc = "index" => (1..job.target) \ job.todo \subseteq docs
  /\ job.pc = "report" => 1..job.target \subseteq docs

Coverage ==
  Deleted(obj) \/ ( /\ 1..obj.lastCommit \subseteq index
                    /\ \A i \in Indices : JobCovers(jobs[i], index) )

LEMMA CoverageAtInit ==
  ASSUME OnlyJobsTouchTheIndex
  PROVE  Init => NoRemediation /\ Coverage
<1> SUFFICES ASSUME Init
             PROVE  NoRemediation /\ Coverage
  OBVIOUS
<1>1. PICK scheduled \in Scheduled, strategy \in Strategies,
           commit \in Documents : APIInit(scheduled, strategy, commit)
  BY DEF Init
<1>2. /\ obj.strategy = "Ignore" /\ obj.lastCommit = 0 /\ objCache = obj
      /\ obj.exists /\ ~obj.deleting
  BY <1>1 DEF APIInit, NoObject, OnlyJobsTouchTheIndex
<1>3. Indices = {}
  BY <1>1 DEF APIInit, Indices
<1>4. 1..0 = {}
  OBVIOUS
<1> QED
  BY <1>2, <1>3, <1>4
  DEF Init, RecInit, NoRemediation, Ignores, Deleted, GcSteps, Coverage
-----------------------------------------------------------------------------
(* A reconcile of an object that ignores drift never gets to the calls of  *)
(* a remediation, and so never resets the recorded commit.                 *)
QuietReconcile ==
  /\ recPc' # "idle" => recMem'.strategy = "Ignore"
  /\ recPc' \notin {"suspend", "unsuspend", "listIndexes", "deleteIndex", "mark"}
  /\ recPc' # "idle" => recMem'.lastCommit = recOrig'.lastCommit

LEMMA HandlersAreQuiet ==
  ASSUME TypeOK, NoRemediation, HandlePhase
  PROVE  QuietReconcile
<1> USE DEF QuietReconcile
<1>1. /\ recMem \in AutoIndexer
      /\ recPc # "idle" => recMem.strategy = "Ignore"
      /\ recPc # "idle" => recMem.lastCommit = recOrig.lastCommit
  BY DEF TypeOK, RecTypeOK, NoRemediation
<1>2. ASSUME NEW mem \in AutoIndexer, NEW failed, FinishPhase(mem, failed),
             mem.strategy = "Ignore", mem.lastCommit = recOrig.lastCommit
      PROVE  QuietReconcile
  BY <1>2 DEF FinishPhase, AutoIndexer
<1>3. ASSUME NEW phase \in Phase, MoveTo(phase), recPc # "idle"
      PROVE  QuietReconcile
  <2>1. /\ [recMem EXCEPT !.phase = phase] \in AutoIndexer
        /\ [recMem EXCEPT !.phase = phase].strategy = "Ignore"
        /\ [recMem EXCEPT !.phase = phase].lastCommit = recOrig.lastCommit
    BY <1>1, <1>3 DEF AutoIndexer
  <2> QED
    BY <1>2, <1>3, <2>1 DEF MoveTo
<1>4. recPc = "phase" /\ recMem.phase \in Phase
  BY <1>1
  DEF HandlePhase, HandleUnknownPhase, HandlePendingScheduled,
      HandlePendingOnce, HandlePendingJobCreationFails, HandleScheduledPhase,
      HandleSuspendedPhase, HandleRunningPhase, HandleCompletedOrFailedPhase,
      RemediationIgnored, RemediationOver, RemediationManual,
      RemediationSuspend, RemediationAct, InPhase, AutoIndexer
<1>5. CASE HandlePendingOnce \/ HandlePendingJobCreationFails
  <2>1. \A phase \in Phase :
          /\ [recMem EXCEPT !.phase = phase] \in AutoIndexer
          /\ [recMem EXCEPT !.phase = phase].strategy = "Ignore"
          /\ [recMem EXCEPT !.phase = phase].lastCommit = recOrig.lastCommit
    BY <1>1, <1>4 DEF AutoIndexer
  <2> QED
    BY <1>2, <1>5, <2>1
    DEF HandlePendingOnce, HandlePendingJobCreationFails, Phase
<1>6. CASE ~(HandlePendingOnce \/ HandlePendingJobCreationFails)
  <2>1. \E phase \in Phase : MoveTo(phase)
    BY <1>1, <1>4, <1>6
    DEF HandlePhase, HandleUnknownPhase, HandlePendingScheduled,
        HandleScheduledPhase, HandleSuspendedPhase, HandleRunningPhase,
        HandleCompletedOrFailedPhase, RemediationIgnored, RemediationOver,
        RemediationManual, RemediationSuspend, RemediationAct, StayInPhase,
        Phase
  <2> QED
    BY <1>3, <1>4, <2>1
<1> QED
  BY <1>5, <1>6

LEMMA ReconcileIsQuiet ==
  ASSUME TypeOK, NoRemediation, ReconcilerNext
  PROVE  QuietReconcile
<1> USE DEF QuietReconcile
<1>1. /\ recMem \in AutoIndexer /\ obj \in AutoIndexer
      /\ recPc # "idle" => recMem.strategy = "Ignore"
      /\ recPc # "idle" => recMem.lastCommit = recOrig.lastCommit
      /\ Ignores(obj) /\ Ignores(objCache)
  BY DEF TypeOK, APITypeOK, RecTypeOK, NoRemediation
<1>2. CASE ReconcileBegin
  BY <1>1, <1>2 DEF ReconcileBegin, Ignores
<1>3. CASE EnsureFinalizer
  BY <1>1, <1>3 DEF EnsureFinalizer, Ignores, AutoIndexer
<1>4. CASE EnsureRequiredResources \/ EnsureRequiredResourcesFails
  BY <1>1, <1>4
  DEF EnsureRequiredResources, EnsureRequiredResourcesFails, FinishPhase,
      AutoIndexer
<1>5. CASE HandlePhase
  BY <1>5, HandlersAreQuiet
<1>6. ~RemediationCalls
  BY DEF NoRemediation, RemediationCalls, SetSuspendedState,
         SetSuspendedStateFails, ListIndexes, DeleteIndex, RAGCallFails,
         MarkRemediated, MarkRemediatedFails
<1>7. CASE EnsureFinalizerFails \/ PatchAndReturn \/ GarbageCollectAutoIndexer
  BY <1>1, <1>7
  DEF EnsureFinalizerFails, PatchAndReturn, NothingToPatch, PatchStatus,
      PatchStatusFails, GarbageCollectAutoIndexer, GcListJobs, GcDeleteIndex,
      GcDeleteIndexFails, GcRemoveFinalizer, GcRemoveFinalizerFails, Return,
      Goto
<1> QED
  BY <1>2, <1>3, <1>4, <1>5, <1>6, <1>7 DEF ReconcilerNext

(* Garbage collection starts from an object seen deleted.                  *)
LEMMA GcStep ==
  ASSUME NoRemediation, ReconcilerNext, recPc' \in GcSteps
  PROVE  Deleted(obj)
<1>1. CASE ReconcileBegin
  BY <1>1 DEF ReconcileBegin, NoRemediation, Deleted, GcSteps
<1>2. CASE GarbageCollectAutoIndexer
  BY <1>2
  DEF GarbageCollectAutoIndexer, GcListJobs, GcDeleteIndex, GcDeleteIndexFails,
      GcRemoveFinalizer, GcRemoveFinalizerFails, NoRemediation, GcSteps
<1>3. CASE ~ReconcileBegin /\ ~GarbageCollectAutoIndexer
  BY <1>3
  DEF ReconcilerNext, EnsureFinalizer, EnsureFinalizerFails,
      EnsureRequiredResources, EnsureRequiredResourcesFails,
      HandlePhase, HandleUnknownPhase, HandlePendingScheduled,
      HandlePendingOnce, HandlePendingJobCreationFails, HandleScheduledPhase,
      HandleSuspendedPhase, HandleRunningPhase, HandleCompletedOrFailedPhase,
      RemediationIgnored, RemediationOver, RemediationManual,
      RemediationSuspend, RemediationAct, MoveTo, StayInPhase, FinishPhase,
      Goto, Return, RemediationCalls, SetSuspendedState,
      SetSuspendedStateFails, ListIndexes, DeleteIndex, RAGCallFails,
      MarkRemediated, MarkRemediatedFails, PatchAndReturn, NothingToPatch,
      PatchStatus, PatchStatusFails, GcSteps
<1> QED
  BY <1>1, <1>2, <1>3
LEMMA StrategyStays ==
  ASSUME OnlyJobsTouchTheIndex, TypeOK, [Next]_vars, obj'.exists
  PROVE  obj'.strategy = obj.strategy
<1>1. obj.exists /\ obj \in AutoIndexer
  BY ObjectStep DEF Survives, TypeOK, APITypeOK
<1>2. CASE ReconcilerNext \/ DetectorNext \/ JobNext
  BY <1>1, <1>2, ReconcilerWrites, DetectorWrites, JobWrites
  DEF WellBehaved, SpecKept
<1>3. CASE Environment
  BY <1>1, <1>3
  DEF Environment, UserSuspends, UserChangesStrategy, UserSchedules,
      UserDeletes, Edited, PushCommit, LoseDocuments, ClockTick, NoObject,
      May, OnlyJobsTouchTheIndex, AutoIndexer
<1>4. CASE RefreshCaches \/ UNCHANGED vars
  BY <1>4 DEF RefreshCaches, vars, apiVars
<1> QED
  BY <1>2, <1>3, <1>4 DEF Next

LEMMA NoRemediationPreserved ==
  ASSUME OnlyJobsTouchTheIndex, TypeOK, NoRemediation, [Next]_vars
  PROVE  NoRemediation'
<1>1. Survives
  BY ObjectStep
<1>2. Ignores(obj)'
  BY <1>1, StrategyStays DEF Ignores, NoRemediation, Survives
<1>3. Ignores(objCache)'
  BY <1>2, CacheSource DEF Ignores, NoRemediation
<1>4. (Deleted(obj) => Deleted(obj)') /\ (Deleted(objCache)' => Deleted(obj)')
  BY <1>1, CacheSource DEF Deleted, Survives, NoRemediation
<1>5. ReconcilerNext \/ UNCHANGED recVars
  BY DEF Next, RefreshCaches, vars
<1>6. CASE ReconcilerNext
  BY <1>2, <1>3, <1>4, <1>6, ReconcileIsQuiet, GcStep
  DEF QuietReconcile, NoRemediation
<1>7. CASE UNCHANGED recVars
  BY <1>2, <1>3, <1>4, <1>7 DEF recVars, NoRemediation
<1> QED
  BY <1>5, <1>6, <1>7

-----------------------------------------------------------------------------
(* When a container exits, or its pod is lost, the list holds Jobs it held *)
(* before, and what has become of that one.                                *)
LEMMA ExitKeeps ==
  ASSUME TypeOK, NEW i \in Indices, NEW job \in Job,
         jobs' = Trimmed([jobs EXCEPT ![i] = job]),
         NEW k \in Indices'
  PROVE  \/ \E j \in Indices : jobs'[k] = jobs[j]
         \/ jobs'[k] = job
<1> DEFINE list == [jobs EXCEPT ![i] = job]
           once == DropOldest(list, "succeeded", SuccessHistory)
<1>1. jobs \in Seq(Job) /\ jobs[i] \in Job
  BY ListType DEF TypeOK, APITypeOK, Indices
<1>2. list \in Seq(Job) /\ Len(list) = Len(jobs)
  BY <1>1, ListType DEF Indices
<1>3. once \in Seq(Job) /\ jobs' = DropOldest(once, "failed", FailedHistory)
  BY <1>2, DropOldestType, ConstantsAssumption DEF Trimmed
<1> HIDE DEF list
<1>4. PICK m \in 1..Len(once) : jobs'[k] = once[m]
  <2> HIDE DEF once
  <2> QED
    BY <1>3, DropOldestType, ConstantsAssumption DEF Indices
<1>5. PICK n \in 1..Len(list) : once[m] = list[n]
  BY <1>2, DropOldestType, ConstantsAssumption
<1>6. list[n] = IF n = i THEN job ELSE jobs[n]
  BY <1>1, <1>2, <1>5 DEF list, Indices
<1> QED
  BY <1>2, <1>4, <1>5, <1>6 DEF Indices

(* A container that starts has nothing to cover yet.                       *)
LEMMA FreshCovers ==
  /\ \A kind, docs : JobCovers(NewJob(kind), docs)
  /\ \A job \in Job, success \in BOOLEAN :
       \A docs : JobCovers(Exited(job, success), docs)
  /\ \A job \in Job : \A docs : JobCovers(Replaced(job), docs)
<1>1. \A kind, docs : JobCovers(NewJob(kind), docs)
  BY DEF JobCovers, NewJob
<1>2. ASSUME NEW job \in Job, NEW success \in BOOLEAN, NEW docs
      PROVE  JobCovers(Exited(job, success), docs)
  BY DEF JobCovers, Exited, NewJob
<1>3. ASSUME NEW job \in Job, NEW docs
      PROVE  JobCovers(Replaced(job), docs)
  BY DEF JobCovers, Replaced, NewJob
<1> QED
  BY <1>1, <1>2, <1>3

(* With more documents in the index, a recorded commit that is covered,    *)
(* and Jobs that were there before or cover theirs, nothing is missing.    *)
LEMMA CoverageFrom ==
  ASSUME Coverage, ~Deleted(obj), index \subseteq index',
         1..obj'.lastCommit \subseteq index',
         \A k \in Indices' :
           \/ \E j \in Indices : jobs'[k] = jobs[j]
           \/ JobCovers(jobs'[k], index')
  PROVE  Coverage'
<1>1. \A j \in Indices : JobCovers(jobs[j], index')
  BY DEF Coverage, JobCovers
<1>2. \A k \in Indices' : JobCovers(jobs'[k], index')
  BY <1>1
<1> QED
  BY <1>2 DEF Coverage

(* Steps that leave the index and the recorded commit alone.               *)
LEMMA CoverageKept ==
  ASSUME TypeOK, Coverage, ~Deleted(obj), UNCHANGED index,
         obj'.lastCommit = obj.lastCommit,
         UNCHANGED jobs \/ \E kind \in {"once", "cron"} :
                             jobs' = Append(jobs, NewJob(kind))
  PROVE  Coverage'
<1>1. ASSUME NEW k \in Indices'
      PROVE  \/ \E j \in Indices : jobs'[k] = jobs[j]
             \/ JobCovers(jobs'[k], index')
  <2>1. CASE UNCHANGED jobs
    BY <2>1 DEF Indices
  <2>2. ASSUME NEW kind \in {"once", "cron"}, jobs' = Append(jobs, NewJob(kind))
        PROVE  \/ \E j \in Indices : jobs'[k] = jobs[j]
               \/ jobs'[k] = NewJob(kind)
    <3>1. jobs \in Seq(Job)
      BY DEF TypeOK, APITypeOK
    <3>2. k \in 1..(Len(jobs) + 1)
      BY <2>2, <3>1, NewJobType DEF Indices
    <3> QED
      BY <2>2, <3>1, <3>2, NewJobType DEF Indices
  <2> QED
    BY <2>1, <2>2, FreshCovers
<1>2. 1..obj'.lastCommit \subseteq index'
  BY DEF Coverage
<1> QED
  BY <1>1, <1>2, CoverageFrom

(* A container that takes a step, while the others stay as they are.       *)
LEMMA CoverageAfterStep ==
  ASSUME TypeOK, Coverage, ~Deleted(obj), index \subseteq index',
         1..obj'.lastCommit \subseteq index',
         NEW i \in Indices, NEW job \in Job, Step(i, job),
         JobCovers(job, index')
  PROVE  Coverage'
<1>1. jobs \in Seq(Job)
  BY DEF TypeOK, APITypeOK
<1>2. \A k \in Indices' : k \in Indices /\ (jobs'[k] = jobs[k] \/ jobs'[k] = job)
  BY <1>1 DEF Step, Indices
<1> QED
  BY <1>2, CoverageFrom

LEMMA CoverageAfterExit ==
  ASSUME TypeOK, Coverage, ~Deleted(obj), UNCHANGED index,
         obj'.lastCommit = obj.lastCommit,
         NEW i \in Indices,
         \/ \E success \in BOOLEAN : Exit(i, success)
         \/ jobs' = Trimmed([jobs EXCEPT ![i] = Replaced(jobs[i])])
  PROVE  Coverage'
<1>1. jobs[i] \in Job
  BY ListType DEF TypeOK, APITypeOK, Indices
<1>2. PICK job \in Job : /\ jobs' = Trimmed([jobs EXCEPT ![i] = job])
                        /\ \A docs : JobCovers(job, docs)
  BY <1>1, ExitedType, ReplacedType, FreshCovers DEF Exit
<1>3. \A k \in Indices' : \/ \E j \in Indices : jobs'[k] = jobs[j]
                         \/ JobCovers(jobs'[k], index')
  BY <1>2, ExitKeeps
<1>4. 1..obj'.lastCommit \subseteq index'
  BY DEF Coverage
<1> QED
  BY <1>3, <1>4, CoverageFrom
-----------------------------------------------------------------------------
LEMMA RunStepCovers ==
  ASSUME OnlyJobsTouchTheIndex, TypeOK, Coverage, ~Deleted(obj),
         NEW i \in Indices, RunStep(i)
  PROVE  Coverage'
<1> DEFINE job == jobs[i]
<1>1. /\ obj \in AutoIndexer /\ job \in Job /\ head \in Documents
      /\ index \subseteq Documents /\ obj.exists
  BY ListType DEF TypeOK, APITypeOK, Indices, Deleted
<1>2. /\ JobCovers(job, index) /\ 1..obj.lastCommit \subseteq index
      /\ job.state # "pending"
  <2>1. job.pc # "off"
    BY DEF RunStep, LoadConfig, LoadConfigFails, SetupRepository,
           SetupRepositoryFails, IndexDocument, IndexDocumentFails,
           IndexingDone, ReportStatus, ReportStatusFails, FlagErrors,
           CompleteRun, At
  <2> QED
    BY <2>1 DEF Coverage, JobCovers
<1>3. CASE LoadConfig(i)
  <2> DEFINE loaded == [job EXCEPT !.pc = "clone", !.full = FullRun(obj),
                                   !.from = obj.lastCommit]
  <2>1. loaded \in Job
    BY <1>1 DEF Job, AutoIndexer, FullRun
  <2>2. JobCovers(loaded, index')
    BY <1>1, <1>2, <1>3 DEF LoadConfig, At, JobCovers, Job
  <2> QED
    BY <1>2, <1>3, <2>1, <2>2, CoverageAfterStep DEF LoadConfig
<1>4. CASE LoadConfigFails(i)
  BY <1>4, CoverageAfterExit DEF LoadConfigFails
<1>5. CASE SetupRepository(i)
  <2> DEFINE cloned == [job EXCEPT !.pc = "index", !.target = head,
                                   !.todo = ToIndex(job)]
  <2>1. ToIndex(job) \subseteq Documents
    BY <1>1, ConstantsAssumption DEF ToIndex, Documents, Job, CommitOrNone
  <2>2. head \in CommitOrNone
    BY <1>1, ConstantsAssumption DEF Documents, CommitOrNone
  <2>3. cloned \in Job
    BY <1>1, <2>1, <2>2 DEF Job
  <2>4. (1..head) \ ToIndex(job) \subseteq index'
    <3>1. job.from \in Nat /\ head \in Nat
      BY <1>1, <2>2, ConstantsAssumption DEF Job, CommitOrNone
    <3>2. (1..head) \ ((job.from + 1)..head) \subseteq 1..job.from
      BY <3>1
    <3>3. ~job.full => 1..job.from \subseteq index
      BY <1>2, <1>5 DEF SetupRepository, At, JobCovers
    <3> QED
      BY <1>5, <3>2, <3>3 DEF SetupRepository, ToIndex
  <2>5. JobCovers(cloned, index')
    <3>1. /\ cloned.pc = "index" /\ cloned.target = head
          /\ cloned.todo = ToIndex(job) /\ cloned.state = job.state
      BY <1>1 DEF Job
    <3> HIDE DEF cloned
    <3> QED
      BY <1>2, <2>4, <3>1 DEF JobCovers
  <2> QED
    BY <1>2, <1>5, <2>3, <2>5, CoverageAfterStep DEF SetupRepository
<1>6. CASE SetupRepositoryFails(i)
  <2> DEFINE failed == [job EXCEPT !.pc = "report", !.errors = TRUE]
  <2>1. failed \in Job
    BY <1>1 DEF Job
  <2>2. failed.target = 0 /\ 1..0 = {}
    BY <1>1, <1>2, <1>6 DEF SetupRepositoryFails, At, JobCovers, Job
  <2>3. failed.pc = "report" /\ failed.state = job.state
    BY <1>1 DEF Job
  <2>4. JobCovers(failed, index')
    <3> HIDE DEF failed
    <3> QED
      BY <1>2, <2>2, <2>3 DEF JobCovers
  <2> QED
    BY <1>2, <1>6, <2>1, <2>4, CoverageAfterStep DEF SetupRepositoryFails
<1>7. CASE IndexDocument(i)
  <2>1. PICK d \in job.todo :
               /\ index' = index \cup {d}
               /\ Step(i, [job EXCEPT !.todo = @ \ {d}])
    BY <1>7 DEF IndexDocument
  <2> DEFINE indexed == [job EXCEPT !.todo = @ \ {d}]
  <2>2. indexed \in Job
    BY <1>1 DEF Job
  <2>3. JobCovers(indexed, index')
    <3>1. /\ indexed.pc = "index" /\ indexed.target = job.target
          /\ indexed.todo = job.todo \ {d} /\ indexed.state = job.state
      BY <1>1, <1>7 DEF IndexDocument, At, Job
    <3>2. (1..job.target) \ job.todo \subseteq index
      BY <1>2, <1>7 DEF IndexDocument, At, JobCovers
    <3> HIDE DEF indexed
    <3> QED
      BY <1>2, <2>1, <3>1, <3>2 DEF JobCovers
  <2> QED
    BY <1>2, <1>7, <2>1, <2>2, <2>3, CoverageAfterStep DEF IndexDocument
<1>8. ~IndexDocumentFails(i)
  BY DEF IndexDocumentFails, MayFail, OnlyJobsTouchTheIndex
<1>9. CASE IndexingDone(i)
  <2> DEFINE done == [job EXCEPT !.pc = "report"]
  <2>1. done \in Job
    BY <1>1 DEF Job
  <2>2. JobCovers(done, index')
    <3>1. /\ done.pc = "report" /\ done.target = job.target
          /\ done.state = job.state
      BY <1>1 DEF Job
    <3>2. 1..job.target \subseteq index
      BY <1>2, <1>9 DEF IndexingDone, At, JobCovers
    <3> HIDE DEF done
    <3> QED
      BY <1>2, <1>9, <3>1, <3>2 DEF IndexingDone, JobCovers
  <2> QED
    BY <1>2, <1>9, <2>1, <2>2, CoverageAfterStep DEF IndexingDone
<1>10. AfterReport(job) \in Job /\ JobCovers(AfterReport(job), index)
  BY <1>1, <1>2 DEF AfterReport, Job, JobCovers
<1>11. CASE ReportStatus(i)
  <2>1. obj'.lastCommit = IF job.target = 0 THEN obj.lastCommit ELSE job.target
    BY <1>1, <1>11 DEF ReportStatus, AutoIndexer
  <2>2. 1..obj'.lastCommit \subseteq index
    BY <1>2, <1>11, <2>1 DEF ReportStatus, At, JobCovers
  <2> QED
    BY <1>10, <1>11, <2>2, CoverageAfterStep DEF ReportStatus
<1>12. CASE ReportStatusFails(i)
  BY <1>2, <1>10, <1>12, CoverageAfterStep DEF ReportStatusFails
<1>13. CASE FlagErrors(i)
  <2> DEFINE flagged == [job EXCEPT !.pc = "complete"]
  <2>1. flagged \in Job /\ JobCovers(flagged, index)
    BY <1>1, <1>2 DEF Job, JobCovers
  <2>2. obj'.lastCommit = obj.lastCommit
    BY <1>1, <1>13 DEF FlagErrors, AutoIndexer
  <2> QED
    BY <1>2, <1>13, <2>1, <2>2, CoverageAfterStep DEF FlagErrors
<1>14. CASE CompleteRun(i)
  <2>1. obj'.lastCommit = obj.lastCommit
    BY <1>1, <1>14 DEF CompleteRun, AutoIndexer
  <2>2. (~job.errors) \in BOOLEAN
    OBVIOUS
  <2> QED
    BY <1>14, <2>1, <2>2, CoverageAfterExit DEF CompleteRun
<1> QED
  BY <1>3, <1>4, <1>5, <1>6, <1>7, <1>8, <1>9, <1>11, <1>12, <1>13, <1>14
  DEF RunStep

LEMMA JobNextCovers ==
  ASSUME OnlyJobsTouchTheIndex, TypeOK, Coverage, ~Deleted(obj), JobNext
  PROVE  Coverage'
<1>1. CASE CronFires
  BY <1>1, CoverageKept DEF CronFires
<1>2. ~CollectOwned
  BY DEF CollectOwned, Deleted
<1>3. ASSUME NEW i \in Indices, JobStarts(i)
      PROVE  Coverage'
  <2> DEFINE started == [jobs[i] EXCEPT !.state = "active", !.pc = "load"]
  <2>1. jobs[i] \in Job
    BY ListType DEF TypeOK, APITypeOK, Indices
  <2>2. started \in Job
    BY <2>1 DEF Job, JobState
  <2>3. JobCovers(started, index)
    BY <1>3, <2>1 DEF JobStarts, Coverage, JobCovers, Job
  <2>4. 1..obj.lastCommit \subseteq index
    BY DEF Coverage
  <2> QED
    BY <1>3, <2>2, <2>3, <2>4, CoverageAfterStep DEF JobStarts
<1>4. ASSUME NEW i \in Indices, Killed(i) \/ Evicted(i)
      PROVE  Coverage'
  <2>1. FALSE \in BOOLEAN
    OBVIOUS
  <2> QED
    BY <1>4, <2>1, CoverageAfterExit DEF Killed, Evicted
<1> QED
  BY <1>1, <1>2, <1>3, <1>4, RunStepCovers DEF JobNext, JobProgress

LEMMA ReconcilerCovers ==
  ASSUME TypeOK, NoRemediation, Coverage, ~Deleted(obj), ~Deleted(obj)',
         ReconcilerNext
  PROVE  Coverage'
<1>1. obj \in AutoIndexer /\ recMem \in AutoIndexer
  BY DEF TypeOK, APITypeOK, RecTypeOK
<1>2. ~RemediationCalls
  BY DEF NoRemediation, RemediationCalls, SetSuspendedState,
         SetSuspendedStateFails, ListIndexes, DeleteIndex, RAGCallFails,
         MarkRemediated, MarkRemediatedFails
<1>3. ~GarbageCollectAutoIndexer
  BY DEF NoRemediation, GcSteps, GarbageCollectAutoIndexer, GcListJobs,
         GcDeleteIndex, GcDeleteIndexFails, GcRemoveFinalizer,
         GcRemoveFinalizerFails
<1>4. CASE HandlePhase
  <2>1. UNCHANGED <<obj, index>>
    BY <1>4, HandlePhaseType
  <2>2. CASE HandlePendingOnce
    BY <2>1, <2>2, CoverageKept DEF HandlePendingOnce
  <2>3. CASE ~HandlePendingOnce
    <3>1. UNCHANGED jobs
      BY <1>4, <2>3
      DEF HandlePhase, HandleUnknownPhase, HandlePendingScheduled,
          HandlePendingJobCreationFails, HandleScheduledPhase,
          HandleSuspendedPhase, HandleRunningPhase,
          HandleCompletedOrFailedPhase, RemediationIgnored, RemediationOver,
          RemediationManual, RemediationSuspend, RemediationAct, MoveTo,
          StayInPhase, UnchangedAPI
    <3> QED
      BY <2>1, <3>1, CoverageKept
  <2> QED
    BY <2>2, <2>3
<1>5. CASE PatchStatus
  <2>1. recMem.lastCommit = recOrig.lastCommit
    BY <1>5 DEF PatchStatus, NoRemediation
  <2>2. obj'.lastCommit = obj.lastCommit
    BY <1>1, <1>5, <2>1 DEF PatchStatus, StatusPatch, Merged, AutoIndexer
  <2> QED
    BY <1>5, <2>2, CoverageKept DEF PatchStatus
<1>6. CASE EnsureFinalizer
  <2>1. obj'.lastCommit = obj.lastCommit
    BY <1>1, <1>6 DEF EnsureFinalizer, AutoIndexer
  <2> QED
    BY <1>6, <2>1, CoverageKept DEF EnsureFinalizer
<1>7. CASE UNCHANGED <<obj, jobs, index>>
  BY <1>7, CoverageKept
<1>8. \/ HandlePhase \/ PatchStatus \/ EnsureFinalizer
      \/ UNCHANGED <<obj, jobs, index>>
  BY <1>2, <1>3
  DEF ReconcilerNext, ReconcileBegin, EnsureFinalizerFails,
      EnsureRequiredResources, EnsureRequiredResourcesFails, PatchAndReturn,
      NothingToPatch, PatchStatusFails, UnchangedAPI
<1> QED
  BY <1>4, <1>5, <1>6, <1>7, <1>8

LEMMA OthersCover ==
  ASSUME OnlyJobsTouchTheIndex, TypeOK, Coverage, ~Deleted(obj), ~Deleted(obj)',
         \/ DetectorNext \/ Environment \/ RefreshCaches \/ UNCHANGED vars
  PROVE  Coverage'
<1>1. obj \in AutoIndexer
  BY DEF TypeOK, APITypeOK
<1>2. CASE DetectorNext
  <2>1. UNCHANGED <<index, jobs>>
    BY <1>2
    DEF DetectorNext, PerformDriftCheck, SkipDriftCheck, CompareDocumentCount,
        GetDocumentCountFails, SetDriftDetected, SetDriftRemediated,
        NothingToWrite, AnnotationUpdateFails, Checked, DetUnchanged
  <2>2. obj'.lastCommit = obj.lastCommit
    BY <1>1, <1>2
    DEF DetectorNext, PerformDriftCheck, SkipDriftCheck, CompareDocumentCount,
        GetDocumentCountFails, SetDriftDetected, SetDriftRemediated,
        NothingToWrite, AnnotationUpdateFails, Checked, DetUnchanged,
        Unmodified, AutoIndexer
  <2> QED
    BY <2>1, <2>2, CoverageKept
<1>3. CASE Environment
  <2>1. UNCHANGED <<index, jobs>>
    BY <1>3
    DEF Environment, UserSuspends, UserChangesStrategy, UserSchedules,
        UserDeletes, Edited, PushCommit, LoseDocuments, ClockTick, May,
        OnlyJobsTouchTheIndex
  <2>2. obj'.lastCommit = obj.lastCommit
    BY <1>1, <1>3
    DEF Environment, UserSuspends, UserChangesStrategy, UserSchedules,
        UserDeletes, Edited, PushCommit, LoseDocuments, ClockTick, NoObject,
        Deleted, AutoIndexer
  <2> QED
    BY <2>1, <2>2, CoverageKept
<1>4. CASE RefreshCaches \/ UNCHANGED vars
  BY <1>4, CoverageKept DEF RefreshCaches, vars, apiVars
<1> QED
  BY <1>2, <1>3, <1>4

LEMMA CoveragePreserved ==
  ASSUME OnlyJobsTouchTheIndex, TypeOK, NoRemediation, Coverage, [Next]_vars
  PROVE  Coverage'
<1>1. CASE Deleted(obj)'
  BY <1>1 DEF Coverage
<1>2. CASE ~Deleted(obj)'
  <2>1. ~Deleted(obj)
    BY <1>2, ObjectStep DEF Survives, Deleted
  <2> QED
    BY <1>2, <2>1, ReconcilerCovers, JobNextCovers, OthersCover DEF Next
<1> QED
  BY <1>1, <1>2

(* Through kills, restarts, failed clones, refused patches and stale       *)
(* caches, the commit the next incremental run of git_handler starts from  *)
(* is one whose documents are all in the index.                            *)
THEOREM RecordedCommitIsIndexed ==
  ASSUME OnlyJobsTouchTheIndex
  PROVE  Spec => []CommitIsIndexed
<1>1. Init => NoRemediation /\ Coverage
  BY CoverageAtInit
<1>2. TypeOK /\ NoRemediation /\ Coverage /\ [Next]_vars
        => NoRemediation' /\ Coverage'
  BY NoRemediationPreserved, CoveragePreserved
<1>3. Coverage => CommitIsIndexed
  BY DEF Coverage, CommitIsIndexed, Deleted
<1> QED
  BY <1>1, <1>2, <1>3, TypeCorrect, PTL DEF Spec
=============================================================================
