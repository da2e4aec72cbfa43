--------------------------- MODULE AutoIndexerAPI ---------------------------
(***************************************************************************)
(* The state the actors of AutoIndexer share: one AutoIndexer object in    *)
(* the API server, the Jobs and the CronJob it owns, the informer caches   *)
(* the manager reads through, and the index in the RAG engine.             *)
(*                                                                         *)
(* The data source is a Git repository whose k-th commit adds document k,  *)
(* so a commit, a document and a document count are all small naturals     *)
(* and 0 is "no commit".                                                   *)
(***************************************************************************)
EXTENDS Integers, Sequences, FiniteSets, JobList

CONSTANTS
  MaxCommit,      \* bound: number of commits of the data source
  BackoffLimit,   \* bound: restarts of a failing job container
  SuccessHistory, \* successfulJobsHistoryLimit of the CronJob
  FailedHistory,  \* failedJobsHistoryLimit of the CronJob
  Lagging,        \* the informer caches that may be behind the API server
  Faults          \* which kinds of failures may happen

ASSUME ConstantsAssumption ==
  /\ MaxCommit \in Nat \ {0}
  /\ BackoffLimit \in Nat
  /\ SuccessHistory \in Nat \ {0}
  /\ FailedHistory \in Nat \ {0}
  /\ Lagging \subseteq {"object", "jobs", "cron"}
  /\ Faults \subseteq
       {"reconciler", "detector", "job",  \* API calls of that actor
        "resources",                      \* ensureRequiredResources
        "ragclient",                      \* calls of the RAG engine, retried
        "report",                         \* a Job's status patch is refused
        "rag", "git", "kill",             \* RAG engine, clone, container
        "evict"}                          \* the pod of a Job is lost

Documents == 1..MaxCommit
CommitOrNone == 0..MaxCommit
Strategy == {"Auto", "Manual", "Ignore"}
Phase == {"None", "Pending", "Scheduled", "Suspended", "Running",
          "Completed", "Failed", "DriftRemediation"}

(* exists, finalizer, deleting: metadata.  scheduled: spec.schedule # nil; *)
(* suspend: spec.suspend is set and true; strategy: the remediation policy *)
(* (the CRD sets it to Manual where the user does not).  drift: the        *)
(* drift-detected annotation is "true"; remediated: the annotation         *)
(* last-drift-remediated is later than last-drift-detected.  The rest is   *)
(* the status; errorCond: the AutoIndexerError condition is True.          *)
AutoIndexer ==
  [exists: BOOLEAN, finalizer: BOOLEAN, deleting: BOOLEAN,
   scheduled: BOOLEAN, suspend: BOOLEAN, strategy: Strategy,
   drift: BOOLEAN, remediated: BOOLEAN,
   phase: Phase, errorCond: BOOLEAN,
   lastCommit: CommitOrNone, numDocs: CommitOrNone]

NoObject ==
  [exists |-> FALSE, finalizer |-> FALSE, deleting |-> FALSE,
   scheduled |-> FALSE, suspend |-> FALSE, strategy |-> "Manual",
   drift |-> FALSE, remediated |-> FALSE,
   phase |-> "None", errorCond |-> FALSE, lastCommit |-> 0, numDocs |-> 0]

JobState == {"pending", "active", "failed", "succeeded"}
Unfinished == {"pending", "active"}

(* A Job, lost when a pod of it was and another took its place, with the   *)
(* local state of its container: the container is at step                  *)
(* pc of main.py, was configured for a full run or from a commit on, has   *)
(* cloned the repository at target, has todo left to index, met errors.    *)
Job ==
  [kind: {"once", "cron"}, state: JobState, lost: BOOLEAN,
   attempt: 0..BackoffLimit,
   pc: {"off", "load", "clone", "index", "report", "flag", "complete"},
   full: BOOLEAN, from: CommitOrNone, target: CommitOrNone,
   todo: SUBSET Documents, errors: BOOLEAN]

NewJob(kind) ==
  [kind |-> kind, state |-> "pending", lost |-> FALSE, attempt |-> 0,
   pc |-> "off", full |-> FALSE, from |-> 0, target |-> 0, todo |-> {}, errors |-> FALSE]

CronJob == [exists: BOOLEAN, suspend: BOOLEAN]
NoCronJob == [exists |-> FALSE, suspend |-> FALSE]

VARIABLES
  obj,        \* the AutoIndexer in the API server
  objCache,   \* the AutoIndexer in the informer cache
  jobs,       \* the Jobs in creation order, which is the order of StartTime
  jobsCache,  \* the Jobs in the informer cache
  cron,       \* the CronJob
  cronCache,  \* the CronJob in the informer cache
  index,      \* the documents of this AutoIndexer in the RAG engine
  head,       \* the HEAD commit of the repository
  sameSecond  \* the clock still shows the second of the last detection

apiVars == <<obj, objCache, jobs, jobsCache, cron, cronCache,
             index, head, sameSecond>>

APITypeOK ==
  /\ obj \in AutoIndexer
  /\ objCache \in AutoIndexer
  /\ jobs \in Seq(Job)
  /\ jobsCache \in Seq(Job)
  /\ cron \in CronJob
  /\ cronCache \in CronJob
  /\ index \subseteq Documents
  /\ head \in Documents
  /\ sameSecond \in BOOLEAN

APIInit(scheduled, strategy, commit) ==
  /\ obj = [NoObject EXCEPT !.exists = TRUE, !.scheduled = scheduled,
                            !.strategy = strategy]
  /\ objCache = obj
  /\ jobs = <<>> /\ jobsCache = <<>>
  /\ cron = NoCronJob /\ cronCache = NoCronJob
  /\ index = {}
  /\ head = commit
  /\ sameSecond = FALSE

-----------------------------------------------------------------------------
(* A merge patch writes the fields in which the modified copy differs from *)
(* the copy the patch is computed from, whatever the server holds by then. *)
Merged(current, original, modified) ==
  IF original = modified THEN current ELSE modified

StatusDiffers(original, modified) ==
  \/ original.phase # modified.phase
  \/ original.errorCond # modified.errorCond
  \/ original.lastCommit # modified.lastCommit
  \/ original.numDocs # modified.numDocs

StatusPatch(original, modified) ==
  [obj EXCEPT
     !.phase      = Merged(@, original.phase, modified.phase),
     !.errorCond  = Merged(@, original.errorCond, modified.errorCond),
     !.lastCommit = Merged(@, original.lastCommit, modified.lastCommit),
     !.numDocs    = Merged(@, original.numDocs, modified.numDocs)]

(* Optimistic locking: a write that carries a resourceVersion succeeds only *)
(* if the object is the one that was read.  The version is represented by  *)
(* the contents, so the model also allows a write the server refuses when  *)
(* the object changed and changed back.                                    *)
Unmodified(copy) == obj.exists /\ obj = copy

(* A call may fail if Faults says so.                                      *)
MayFail(kind) == kind \in Faults

(* The status of a Job.  Failed counts the pods that were lost, and stays  *)
(* above 0 when the pod that took the place of one succeeds; a container   *)
(* that is restarted in its pod is not counted.                            *)
OneIf(condition) == IF condition THEN 1 ELSE 0

HasStarted(job) == job.state # "pending" \/ job.lost

ListedJob(job, start) ==
  [active    |-> OneIf(job.state = "active"),
   failed    |-> OneIf(job.state = "failed" \/ job.lost),
   succeeded |-> OneIf(job.state = "succeeded"),
   start     |-> IF HasStarted(job) THEN start ELSE 0]

(* The jobs of a list in some order, as getJobStatus receives them: the    *)
(* informer cache returns the items of a map.                              *)
Orders(n) == {p \in [1..n -> 1..n] : \A i, j \in 1..n : p[i] = p[j] => i = j}

ListedAs(list, order) ==
  [k \in 1..Len(list) |-> ListedJob(list[order[k]], order[k])]

JobStatuses(list) ==
  {GetJobStatus(ListedAs(list, order)) : order \in Orders(Len(list))}
=============================================================================
