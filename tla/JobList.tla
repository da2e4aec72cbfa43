------------------------------ MODULE JobList ------------------------------
(***************************************************************************)
(* What the reconciler concludes from a list of Jobs: getJobStatus of      *)
(* pkg/autoindexer/controllers/autoindexer_controller.go.                  *)
(*                                                                         *)
(* A listed job is a record of the three counters of batchv1.JobStatus     *)
(* that the code reads, [active, failed, succeeded], and of start, which   *)
(* abstracts StartTime: 0 stands for "not set", which is also what the     *)
(* zero time.Time of the code compares as.                                 *)
(***************************************************************************)
EXTENDS Integers, Sequences

Zero == [running |-> 0, failed |-> 0, completed |-> 0,
         latestJobFailed |-> FALSE, lastJobTimestamp |-> 0]

(* What a job counts as.  The first counter above 0 decides, whatever the  *)
(* ones after it say.                                                      *)
Verdict(job) ==
  IF job.active > 0 THEN "running"
  ELSE IF job.failed > 0 THEN "failed"
  ELSE IF job.succeeded > 0 THEN "completed"
  ELSE "none"

One(job, verdict) == IF Verdict(job) = verdict THEN 1 ELSE 0

(* One iteration of the loop.  A job that counts becomes the latest one    *)
(* when it started after every job seen so far.  The first started job of  *)
(* the list seeds lastJobTimestamp BEFORE it is compared with it.          *)
CountJob(acc, job) ==
  LET seed == IF acc.lastJobTimestamp = 0 THEN job.start
              ELSE acc.lastJobTimestamp
      latest == Verdict(job) # "none" /\ job.start > seed
  IN  [running   |-> acc.running + One(job, "running"),
       failed    |-> acc.failed + One(job, "failed"),
       completed |-> acc.completed + One(job, "completed"),
       latestJobFailed  |-> IF latest THEN Verdict(job) = "failed"
                            ELSE acc.latestJobFailed,
       lastJobTimestamp |-> IF latest THEN job.start ELSE seed]

(* The loop over the listed jobs: what it has counted after each of them.  *)
Counted(list) ==
  LET counted[k \in 0..Len(list)] ==
        IF k = 0 THEN Zero ELSE CountJob(counted[k - 1], list[k])
  IN  counted

GetJobStatus(list) == Counted(list)[Len(list)]
=============================================================================
