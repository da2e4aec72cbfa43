----------------------------- MODULE IndexingJob -----------------------------
(***************************************************************************)
(* The Jobs: the Kubernetes controllers that start, restart and collect    *)
(* them, and the Python program their container runs (jobs/autoindexer)    *)
(* for a Git data source.  The container reads the AutoIndexer once, when  *)
(* it starts, straight from the API server.                                *)
(***************************************************************************)
EXTENDS AutoIndexerAPI

Indices == 1..Len(jobs)
IsCronJob(job) == job.kind = "cron"

JobUnchanged == UNCHANGED <<cron, head, sameSecond>>

(* The container of job i goes on with the given local state.              *)
Step(i, job) == jobs' = [jobs EXCEPT ![i] = job]

-----------------------------------------------------------------------------
(* Kubernetes.  CronJob: concurrencyPolicy Forbid, nothing while suspended.*)
CronFires ==
  /\ cron.exists
  /\ ~cron.suspend
  /\ \A i \in Indices : IsCronJob(jobs[i]) => jobs[i].state \notin Unfinished
  /\ jobs' = Append(jobs, NewJob("cron"))
  /\ UNCHANGED <<obj, index>>
  /\ JobUnchanged

(* The Job controller creates the pod: startTime is set, active becomes 1. *)
JobStarts(i) ==
  /\ jobs[i].state = "pending"
  /\ Step(i, [jobs[i] EXCEPT !.state = "active", !.pc = "load"])
  /\ UNCHANGED <<obj, index>>
  /\ JobUnchanged

(* The history limits of the CronJob: its oldest finished Job is deleted   *)
(* when there are too many of its kind.                                    *)
Finished(list, state) ==
  {i \in 1..Len(list) : IsCronJob(list[i]) /\ list[i].state = state}

DropOldest(list, state, limit) ==
  LET finished == Finished(list, state)
      oldest == CHOOSE i \in finished : \A j \in finished : i <= j
  IN  IF Cardinality(finished) <= limit THEN list
      ELSE [k \in 1..(Len(list) - 1) |->
              IF k < oldest THEN list[k] ELSE list[k + 1]]

Trimmed(list) ==
  DropOldest(DropOldest(list, "succeeded", SuccessHistory),
             "failed", FailedHistory)

(* Used by no specification: one restart too many.                         *)
ExitedOffByOne(job, success) ==
  IF success
  THEN [NewJob(job.kind) EXCEPT !.state = "succeeded"]
  ELSE IF job.attempt <= BackoffLimit
  THEN [NewJob(job.kind) EXCEPT !.state = "active", !.pc = "load",
                                !.attempt = job.attempt + 1]
  ELSE [NewJob(job.kind) EXCEPT !.state = "failed"]

(* The container exits: the kubelet restarts a failed one, restartPolicy   *)
(* OnFailure, until the backoff limit fails the Job.                       *)
Exited(job, success) ==
  LET stopped == [NewJob(job.kind) EXCEPT !.lost = job.lost, !.attempt = job.attempt]
  IN  IF success
      THEN [stopped EXCEPT !.state = "succeeded", !.attempt = 0]
      ELSE IF job.attempt < BackoffLimit
      THEN [stopped EXCEPT !.state = "active", !.pc = "load", !.attempt = @ + 1]
      ELSE [NewJob(job.kind) EXCEPT !.state = "failed"]

Exit(i, success) ==
  jobs' = Trimmed([jobs EXCEPT ![i] = Exited(jobs[i], success)])

Killed(i) ==
  /\ MayFail("kill")
  /\ jobs[i].state = "active"
  /\ Exit(i, FALSE)
  /\ UNCHANGED <<obj, index>>
  /\ JobUnchanged

(* The pod is lost with its container: evicted, or its node is gone.  Up   *)
(* to the backoff limit the Job controller puts another pod in its place,  *)
(* after a while without any.                                              *)
Replaced(job) ==
  IF job.attempt < BackoffLimit
  THEN [NewJob(job.kind) EXCEPT !.lost = TRUE, !.attempt = job.attempt + 1]
  ELSE [NewJob(job.kind) EXCEPT !.state = "failed"]

Evicted(i) ==
  /\ MayFail("evict")
  /\ jobs[i].state = "active"
  /\ jobs' = Trimmed([jobs EXCEPT ![i] = Replaced(jobs[i])])
  /\ UNCHANGED <<obj, index>>
  /\ JobUnchanged

(* The AutoIndexer is gone: what it owned is collected.                    *)
CollectOwned ==
  /\ ~obj.exists
  /\ jobs # <<>> \/ cron.exists
  /\ jobs' = <<>>
  /\ cron' = NoCronJob
  /\ UNCHANGED <<obj, index, head, sameSecond>>

-----------------------------------------------------------------------------
At(i, pc) == jobs[i].pc = pc

(* The decision git_handler.update_index takes from the conditions and the *)
(* last indexed commit it was configured with.                             *)
FullRun(ai) == ai.lastCommit = 0 \/ ai.errorCond

(* AutoIndexerJob.__init__ and _apply_crd_config.                          *)
LoadConfig(i) ==
  /\ At(i, "load")
  /\ obj.exists
  /\ Step(i, [jobs[i] EXCEPT !.pc = "clone", !.full = FullRun(obj),
                             !.from = obj.lastCommit])
  /\ UNCHANGED <<obj, index>>
  /\ JobUnchanged

(* No configuration, no RAG engine endpoint: the program exits with 1.     *)
LoadConfigFails(i) ==
  /\ At(i, "load")
  /\ ~obj.exists \/ MayFail("job")
  /\ Exit(i, FALSE)
  /\ UNCHANGED <<obj, index>>
  /\ JobUnchanged

(* _setup_repository, then the list of documents of the chosen run.        *)
ToIndex(job) == IF job.full THEN 1..head ELSE (job.from + 1)..head

SetupRepository(i) ==
  /\ At(i, "clone")
  /\ Step(i, [jobs[i] EXCEPT !.pc = "index", !.target = head,
                             !.todo = ToIndex(jobs[i])])
  /\ UNCHANGED <<obj, index>>
  /\ JobUnchanged

SetupRepositoryFails(i) ==
  /\ At(i, "clone")
  /\ MayFail("git")
  /\ Step(i, [jobs[i] EXCEPT !.pc = "report", !.errors = TRUE])
  /\ UNCHANGED <<obj, index>>
  /\ JobUnchanged

(* _index_documents_batch: a batch is one document.                        *)
IndexDocument(i) ==
  /\ At(i, "index")
  /\ \E d \in jobs[i].todo :
       /\ index' = index \cup {d}
       /\ Step(i, [jobs[i] EXCEPT !.todo = @ \ {d}])
  /\ UNCHANGED obj
  /\ JobUnchanged

IndexDocumentFails(i) ==
  /\ At(i, "index")
  /\ MayFail("rag")
  /\ \E d \in jobs[i].todo :
       Step(i, [jobs[i] EXCEPT !.todo = @ \ {d}, !.errors = TRUE])
  /\ UNCHANGED <<obj, index>>
  /\ JobUnchanged

IndexingDone(i) ==
  /\ At(i, "index")
  /\ jobs[i].todo = {}
  /\ Step(i, [jobs[i] EXCEPT !.pc = "report"])
  /\ UNCHANGED <<obj, index>>
  /\ JobUnchanged

(* The document count the job reports: 0 when it cannot list documents.    *)
ReportedCounts ==
  {Cardinality(index)} \cup (IF MayFail("rag") \/ index = {} THEN {0} ELSE {})

AfterReport(job) ==
  [job EXCEPT !.pc = IF job.errors THEN "flag" ELSE "complete"]

(* Used by no specification: the commit recorded is the one the branch has *)
(* moved to in the meantime.                                               *)
ReportLatestCommit(i) ==
  /\ At(i, "report")
  /\ obj.exists
  /\ \E count \in ReportedCounts :
       obj' = [obj EXCEPT !.numDocs = count, !.lastCommit = head,
                          !.errorCond = jobs[i].errors]
  /\ Step(i, AfterReport(jobs[i]))
  /\ UNCHANGED index
  /\ JobUnchanged

(* update_autoindexer_status of the handler: the commit of the clone is    *)
(* recorded whether or not there were errors.                              *)
ReportStatus(i) ==
  /\ At(i, "report")
  /\ obj.exists
  /\ \E count \in ReportedCounts :
       obj' = [obj EXCEPT
                 !.numDocs = count,
                 !.errorCond = jobs[i].errors,
                 !.lastCommit = IF jobs[i].target = 0 THEN @ ELSE jobs[i].target]
  /\ Step(i, AfterReport(jobs[i]))
  /\ UNCHANGED index
  /\ JobUnchanged

(* The object is read and sent back whole: a write in between makes the    *)
(* server refuse the patch, which is logged and not retried.  This holds   *)
(* of the two reports that follow, too.                                    *)
ReportLost == ~obj.exists \/ MayFail("report")

ReportStatusFails(i) ==
  /\ At(i, "report")
  /\ ReportLost
  /\ Step(i, AfterReport(jobs[i]))
  /\ UNCHANGED <<obj, index>>
  /\ JobUnchanged

(* run: with errors the AutoIndexerError condition is set once more.       *)
FlagErrors(i) ==
  /\ At(i, "flag")
  /\ \/ obj.exists /\ obj' = [obj EXCEPT !.errorCond = TRUE]
     \/ ReportLost /\ UNCHANGED obj
  /\ Step(i, [jobs[i] EXCEPT !.pc = "complete"])
  /\ UNCHANGED index
  /\ JobUnchanged

(* update_indexing_completion, and the exit of the program.                *)
CompleteRun(i) ==
  /\ At(i, "complete")
  /\ \/ /\ obj.exists
        /\ \E count \in ReportedCounts : obj' = [obj EXCEPT !.numDocs = count]
     \/ ReportLost /\ UNCHANGED obj
  /\ Exit(i, ~jobs[i].errors)
  /\ UNCHANGED index
  /\ JobUnchanged

-----------------------------------------------------------------------------
RunStep(i) ==
  \/ LoadConfig(i)
  \/ LoadConfigFails(i)
  \/ SetupRepository(i)
  \/ SetupRepositoryFails(i)
  \/ IndexDocument(i)
  \/ IndexDocumentFails(i)
  \/ IndexingDone(i)
  \/ ReportStatus(i)
  \/ ReportStatusFails(i)
  \/ FlagErrors(i)
  \/ CompleteRun(i)

JobProgress == \E i \in Indices : JobStarts(i) \/ RunStep(i)

JobNext ==
  \/ CronFires
  \/ CollectOwned
  \/ JobProgress
  \/ \E i \in Indices : Killed(i) \/ Evicted(i)
=============================================================================
