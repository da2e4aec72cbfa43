-------------------------- MODULE AutoIndexerSystem --------------------------
(***************************************************************************)
(* The whole system around one AutoIndexer: the reconciler, the drift      *)
(* detector, the Jobs, the user, the repository and the RAG engine.  They  *)
(* interleave at every call of the API server and of the RAG engine.       *)
(***************************************************************************)
EXTENDS Reconciler, DriftDetector, IndexingJob

CONSTANTS
  Scheduled,   \* the values of spec.schedule # nil at creation
  Strategies,  \* the remediation strategies at creation
  Edits        \* what the user and the outside world may do

ASSUME EditsAssumption ==
  /\ Scheduled \subseteq BOOLEAN
  /\ Strategies \subseteq Strategy
  /\ Edits \subseteq
       {"suspend", "strategy", "schedule", "delete", "commit", "lose"}

vars == <<apiVars, recVars, detVars>>

TypeOK == APITypeOK /\ RecTypeOK /\ DetTypeOK

Init ==
  /\ \E scheduled \in Scheduled, strategy \in Strategies, commit \in Documents :
       APIInit(scheduled, strategy, commit)
  /\ RecInit
  /\ DetInit

-----------------------------------------------------------------------------
May(edit) == edit \in Edits

Edited(object) ==
  /\ obj.exists
  /\ obj' = object
  /\ UNCHANGED <<jobs, cron, index, head, sameSecond>>

UserSuspends ==
  May("suspend") /\ Edited([obj EXCEPT !.suspend = ~@])

UserChangesStrategy ==
  /\ May("strategy")
  /\ \E s \in Strategy \ {obj.strategy} : Edited([obj EXCEPT !.strategy = s])

UserSchedules ==
  May("schedule") /\ Edited([obj EXCEPT !.scheduled = ~@])

(* The finalizer, when it is there already, defers the deletion.           *)
UserDeletes ==
  /\ May("delete")
  /\ ~obj.deleting
  /\ Edited(IF obj.finalizer THEN [obj EXCEPT !.deleting = TRUE] ELSE NoObject)

PushCommit ==
  /\ May("commit")
  /\ head < MaxCommit
  /\ head' = head + 1
  /\ UNCHANGED <<obj, jobs, cron, index, sameSecond>>

(* The RAG engine loses documents behind the back of AutoIndexer.  Bound:  *)
(* it does so again only once the index has been complete again.           *)
LoseDocuments ==
  /\ May("lose")
  /\ index = 1..head
  /\ index' \in SUBSET index \ {index}
  /\ UNCHANGED <<obj, jobs, cron, head, sameSecond>>

ClockTick ==
  /\ sameSecond
  /\ sameSecond' = FALSE
  /\ UNCHANGED <<obj, jobs, cron, index, head>>

Environment ==
  \/ UserSuspends
  \/ UserChangesStrategy
  \/ UserSchedules
  \/ UserDeletes
  \/ PushCommit
  \/ LoseDocuments
  \/ ClockTick

-----------------------------------------------------------------------------
(* With every step the caches follow the API server or, if they may lag,   *)
(* stay as they were.                                                      *)
CacheStep ==
  /\ objCache' \in IF "object" \in Lagging THEN {objCache, obj'} ELSE {obj'}
  /\ jobsCache' \in IF "jobs" \in Lagging THEN {jobsCache, jobs'} ELSE {jobs'}
  /\ cronCache' \in IF "cron" \in Lagging THEN {cronCache, cron'} ELSE {cron'}

RefreshCaches ==
  /\ <<objCache, jobsCache, cronCache>> # <<obj, jobs, cron>>
  /\ objCache' = obj
  /\ jobsCache' = jobs
  /\ cronCache' = cron
  /\ UNCHANGED <<obj, jobs, cron, index, head, sameSecond, recVars, detVars>>

Next ==
  \/ ReconcilerNext /\ UNCHANGED detVars /\ CacheStep
  \/ DetectorNext /\ UNCHANGED recVars /\ CacheStep
  \/ JobNext /\ UNCHANGED <<recVars, detVars>> /\ CacheStep
  \/ Environment /\ UNCHANGED <<recVars, detVars>> /\ CacheStep
  \/ RefreshCaches

Spec == Init /\ [][Next]_vars

(* Fairness: the manager keeps reconciling the object (watch events, rate  *)
(* limited retries, resync) and sweeping for drift, its caches catch up,   *)
(* and Kubernetes starts the Jobs, fires the CronJob and collects garbage. *)
(* Nothing is assumed of the user, the repository or the RAG engine.       *)
Fairness ==
  /\ WF_vars(ReconcilerNext /\ UNCHANGED detVars /\ CacheStep)
  /\ WF_vars(DetectorNext /\ UNCHANGED recVars /\ CacheStep)
  /\ WF_vars(CronFires /\ UNCHANGED <<recVars, detVars>> /\ CacheStep)
  /\ WF_vars(CollectOwned /\ UNCHANGED <<recVars, detVars>> /\ CacheStep)
  /\ WF_vars(JobProgress /\ UNCHANGED <<recVars, detVars>> /\ CacheStep)
  /\ WF_vars(RefreshCaches)
  /\ WF_vars(ClockTick /\ UNCHANGED <<recVars, detVars>> /\ CacheStep)

FairSpec == Spec /\ Fairness
=============================================================================
