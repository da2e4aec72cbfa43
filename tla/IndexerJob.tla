----------------------------- MODULE IndexerJob -----------------------------
(***************************************************************************)
(* The Python program of a Job, run after run: AutoIndexerJob (main.py)    *)
(* with its data source handler, and the status updates of k8s_client.py,  *)
(* each a read of the whole object and a patch with what was read.         *)
(***************************************************************************)
EXTENDS GitHandler, StaticHandler, KustoHandler

Init ==
  /\ scenario \in Scenarios
  /\ \E tree \in [Paths -> 0..1] : history = <<tree>>
  /\ reachable = {1}
  /\ docs = Others
  /\ status = [error |-> FALSE, stamp |-> 0, commit |-> 0]
  /\ run = NoRun
  /\ copy = "none"
  /\ debt = "none"

-----------------------------------------------------------------------------
(* __init__ and _apply_crd_config: the configuration, with the last commit *)
(* and the conditions as they are now.                                     *)
Start ==
  /\ At("idle")
  /\ run' = [NoRun EXCEPT !.pc = "begin", !.from = status.commit,
                          !.recover = status.error]
  /\ UNCHANGED <<world, docs, status, copy, debt>>

-----------------------------------------------------------------------------
(* The status updates of a run, in order: "begin" and "flag" by            *)
(* add_status_condition, "report" and "complete" by                        *)
(* update_autoindexer_status.  Of the conditions only AutoIndexerError is  *)
(* modelled, so "begin" changes nothing but the version of the object.     *)
Updating == run.pc \in {"begin", "report", "flag", "complete"}

After(pc) ==
  CASE pc = "begin" -> "setup"
    [] pc = "base" -> "report"
    [] pc = "report" -> "flag"
    [] pc = "flag" -> "complete"
    [] pc = "complete" -> "idle"

Onward(r) ==
  IF r.pc = "complete" THEN NoRun ELSE [r EXCEPT !.pc = After(r.pc)]

(* The times matter to Kusto only.                                         *)
Time == IF Source("kusto") THEN Now ELSE 0

(* Used by no specification: the report has a commit without a clone too.  *)
ReportedAlways ==
  [status EXCEPT
     !.error = run.noted, !.stamp = Time,
     !.commit = IF Source("git") THEN run.target ELSE @]

(* _create_base_autoindexer_status_update and the commit of the Git        *)
(* handler.                                                                *)
Reported ==
  [status EXCEPT
     !.error = run.noted, !.stamp = Time,
     !.commit = IF Source("git") /\ run.target # 0 THEN run.target ELSE @]

(* Used by no specification: the report is trusted to have the errors.     *)
WrittenWithoutFlag ==
  CASE At("begin") -> status
    [] At("report") -> Reported
    [] At("flag") -> status
    [] At("complete") -> [status EXCEPT !.stamp = Time]

Written ==
  CASE At("begin") -> status
    [] At("report") -> Reported
    [] At("flag") -> IF run.errors THEN [status EXCEPT !.error = TRUE]
                     ELSE status
    [] At("complete") -> [status EXCEPT !.stamp = Time]

GetStatus ==
  /\ Updating /\ copy = "none"
  /\ copy' = "fresh"
  /\ UNCHANGED <<world, docs, status, run, debt>>

PatchStatus ==
  /\ Updating /\ copy = "fresh"
  /\ status' = Written
  /\ run' = Onward(run)
  /\ copy' = "none"
  /\ UNCHANGED <<world, docs, debt>>

(* A run is past its report and the status does not say that it failed,    *)
(* because the report was lost, or was not told of the query that failed.  *)
(* The update "flag" would say so; the time moves without it.              *)
ErrorsUntold == At("flag") /\ run.errors /\ ~status.error /\ Source("kusto")

(* The server refuses a patch of a copy that is stale.  A failure, of the  *)
(* read too, is logged.                                                    *)
UpdateLost ==
  /\ Updating
  /\ copy = "stale" \/ MayFail("api")
  /\ run' = Onward(run)
  /\ copy' = "none"
  /\ debt' = IF ErrorsUntold THEN Forgotten ELSE debt
  /\ UNCHANGED <<world, docs, status>>

(* The report reads the conditions first, and is skipped when it cannot.   *)
ReadConditions ==
  /\ At("base")
  /\ run' = Onward(run)
  /\ UNCHANGED <<world, docs, status, copy, debt>>

ReadConditionsFails ==
  /\ At("base") /\ MayFail("api")
  /\ run' = [run EXCEPT !.pc = "flag"]
  /\ UNCHANGED <<world, docs, status, copy, debt>>

-----------------------------------------------------------------------------
(* The container is killed.                                                *)
Killed ==
  /\ MayFail("kill") /\ ~At("idle")
  /\ run' = NoRun
  /\ copy' = "none"
  /\ debt' = IF ErrorsUntold THEN Forgotten ELSE debt
  /\ UNCHANGED <<world, docs, status>>

(* The controller patches the status at the end of a reconcile, which the  *)
(* updates of the Job cause as much as anything else: the condition        *)
(* AutoIndexerError is True after a failed one and False after any other,  *)
(* whatever the Job has put there.                                         *)
ControllerWrites ==
  /\ MayFail("writer")
  /\ \E error \in BOOLEAN :
       /\ status' = [status EXCEPT !.error = error]
       /\ debt' = IF status.error /\ ~error THEN Forgotten ELSE debt
  /\ copy' = IF copy = "fresh" THEN "stale" ELSE copy
  /\ UNCHANGED <<world, docs, run>>

RunStep ==
  \/ Start
  \/ GitNext
  \/ StaticNext
  \/ KustoNext
  \/ GetStatus
  \/ PatchStatus
  \/ UpdateLost
  \/ ReadConditions
  \/ ReadConditionsFails

Next ==
  \/ RunStep
  \/ Push
  \/ Killed
  \/ ControllerWrites

Spec == Init /\ [][Next]_vars

(* The CronJob starts one run after the other and a run goes on.           *)
FairSpec == Spec /\ WF_vars(RunStep)
=============================================================================
