------------------------ MODULE AutoIndexerProperties ------------------------
(***************************************************************************)
(* What AutoIndexerSystem must, and what it is said to, guarantee.         *)
(***************************************************************************)
EXTENDS AutoIndexerSystem

(* The phase, as a user who watches the object sees it, and as the copies  *)
(* say that the cache and the reconcile in flight work on.                 *)
Copies == {ai \in {obj, objCache, recOrig} : ai.exists}
Views == {ai.phase : ai \in Copies}

Phases == INSTANCE PhaseMachine
            WITH phase <- IF obj.exists THEN obj.phase ELSE "Gone",
                 views <- Views

(* The status patches of the reconciler (syncAutoIndexer, patchAndReturn)  *)
(* are computed from a snapshot and merged without a lock into an object   *)
(* the detector, the Jobs and the user write too.  They move the phase     *)
(* along a documented edge from a phase the object, the informer cache or  *)
(* the snapshot still has; once these agree, what has finished stays       *)
(* finished, and no late write brings an older phase back.                 *)
PhasesFollowTheMachine == Phases!Spec

(* From its look at the index on, a remediation of a scheduled AutoIndexer *)
(* has the CronJob suspended: handleDriftRemediationPhase relies on the    *)
(* ensureCronJob of the same reconcile, through the reconciles before it   *)
(* that suspended the AutoIndexer, failed or were overtaken.  The code     *)
(* makes one exception: ensureCronJob was shown a CronJob of the cache     *)
(* that the server no longer had.                                          *)
RemediationQuiescesCron ==
  ( /\ recPc \in {"listIndexes", "deleteIndex", "mark"}
    /\ recMem.scheduled
    /\ cron.exists ) => cron.suspend \/ recMisled

(* No lost update of what the user alone writes: the strategy and the      *)
(* schedule survive the whole-object Updates and status patches of the     *)
(* detector (setDriftDetected, setDriftRemediated), the Jobs and the       *)
(* reconciler, all made from copies read earlier.                          *)
UserSpecIsKept ==
  [][ ( /\ obj.exists /\ obj'.exists
        /\ <<obj.strategy, obj.scheduled>> # <<obj'.strategy, obj'.scheduled>> )
      => UNCHANGED <<recVars, detVars, jobs>> ]_vars

(* Completed means that a Job has succeeded, although handleRunningPhase   *)
(* judges by a list of Jobs that restarts and history limits change.       *)
CompletedHasSucceeded ==
  obj.phase = "Completed" =>
    \E i \in Indices : jobs[i].state = "succeeded"

(* Nothing is created for an AutoIndexer the user can still delete without *)
(* the controller noticing: before the first Job or CronJob, however stale *)
(* the cached object, ensureFinalizer has put the finalizer in place.      *)
NothingIsUnprotected ==
  (obj.exists /\ (jobs # <<>> \/ cron.exists)) => obj.finalizer

(* The commit a Git run records is one whose documents are all in the      *)
(* index, through kills, restarts, failed clones and refused patches: the  *)
(* next incremental run of git_handler starts from there.                  *)
CommitIsIndexed ==
  (obj.exists /\ ~obj.deleting) => 1..obj.lastCommit \subseteq index

-----------------------------------------------------------------------------
(* A deleted AutoIndexer goes away: garbageCollectAutoIndexer gets past    *)
(* running Jobs and past the conflicts of its Update with their reports.   *)
DeletionCompletes == obj.deleting ~> ~obj.exists

(* Remediation under strategy Auto is a detour, not a trap: the suspend,   *)
(* delete, mark, clear and unsuspend steps, spread over several reconciles *)
(* and two actors, lead out of DriftRemediation again.                     *)
RemediationEnds ==
  (obj.phase = "DriftRemediation") ~> (obj.phase # "DriftRemediation")

(* A suspension reaches the CronJob, by whatever reconcile comes next,     *)
(* unless the user takes it, or the schedule, back.                        *)
SuspensionReachesCron ==
  (obj.exists /\ obj.scheduled /\ obj.suspend)
    ~> (cron.suspend \/ ~obj.suspend \/ ~obj.scheduled)

(* A one-time AutoIndexer gets Completed unless its Job fails for good or  *)
(* the user deletes it: restarts of the container and the reconciles that  *)
(* meanwhile find the Job unfinished, or not yet started, do not end it    *)
(* anywhere else.  The code makes one exception: a Job that has lost a pod *)
(* counts as failed, and not as completed, when its next pod succeeds.     *)
OneTimeCompletes ==
  (obj.phase = "Pending") ~>
    \/ obj.phase = "Completed"
    \/ \E i \in Indices : jobs[i].state = "failed" \/ jobs[i].lost
    \/ obj.deleting

-----------------------------------------------------------------------------
(* What follows is said of the code and does not hold of it.               *)

(* git_handler.py performs "full indexing to recover" after a run with     *)
(* errors: an incremental run starts from a commit that is fully indexed.  *)
IncrementalRunHasItsBase ==
  \A i \in Indices :
    (At(i, "index") /\ ~jobs[i].full) => 1..jobs[i].from \subseteq index

(* Auto: "Automatically delete and recreate the index when drift is        *)
(* detected" (README.md): once the old index is deleted the Jobs that      *)
(* follow index every document again.                                      *)
DeletedIndexIsRecreated == (recPc = "mark") ~> (index = 1..head)

(* "Non-scheduled AutoIndexer with failed jobs" becomes Failed             *)
(* (handleRunningPhase).                                                   *)
FailedJobIsReported ==
  (\E i \in Indices : jobs[i].state = "failed") ~> (obj.phase = "Failed")
=============================================================================
