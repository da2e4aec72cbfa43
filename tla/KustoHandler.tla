---------------------------- MODULE KustoHandler ----------------------------
(***************************************************************************)
(* data_source_handler/kusto_handler.py: the rows of a query, all of them  *)
(* or those after the time the last run ended.                             *)
(***************************************************************************)
EXTENDS JobWorld

(* _get_last_checkpoint_time: the status as it is now, not as the Job was  *)
(* configured; no time when it cannot be read.                             *)
Checkpoints ==
  {status.stamp} \cup (IF MayFail("api") THEN {0} ELSE {})

(* Used by no specification: errors of the last run make no difference.    *)
FirstTimeOnly(time) == time = 0

(* _build_query; the time is kept in run.from.                             *)
Initial(time) == time = 0 \/ run.recover

Rows(after) == {p \in Paths : Latest[p] > after}

Query(time) ==
  LET after == IF Initial(time) THEN 0 ELSE time
  IN  [run EXCEPT !.pc = "index", !.mode = IF Initial(time) THEN "full" ELSE "diff",
                  !.from = after, !.target = Now,
                  !.todo = {Item("A", p, p) : p \in Rows(after)}]

RunQuery ==
  /\ At("setup") /\ Source("kusto")
  /\ Provider # "none"
  /\ \E time \in Checkpoints :
       /\ Initial(time) \/ scenario.incremental
       /\ run' = Query(time)
  /\ UNCHANGED <<world, docs, status, copy, debt>>

(* An error that is returned, but not noted in self.errors: no token, a    *)
(* query that fails, or no incremental query to substitute the time in.    *)
RunQueryFails ==
  /\ At("setup") /\ Source("kusto")
  /\ \/ MayFail("query") \/ TokenFails \/ Provider = "none"
     \/ ~scenario.incremental /\ \E time \in Checkpoints : ~Initial(time)
  /\ run' = Left([run EXCEPT !.errors = TRUE])
  /\ debt' = Owing
  /\ UNCHANGED <<world, docs, status, copy>>

(* _format_documents: a row without content is skipped.                    *)
FormatRow ==
  /\ At("index") /\ Source("kusto") /\ ~Full
  /\ \E item \in run.todo :
       run' = [run EXCEPT !.todo = @ \ {item},
                 !.create = @ \cup (IF Readable(item.path)
                                    THEN {Doc(item.path, Latest[item.path])} ELSE {})]
  /\ UNCHANGED <<world, docs, status, copy, debt>>

IndexRows ==
  /\ At("index") /\ Source("kusto")
  /\ Full \/ (run.todo = {} /\ run.create # {})
  /\ \E ok \in Outcomes :
       /\ \E applied \in Applied(run.create, ok) : docs' = docs \cup applied
       /\ run' = IF ok THEN [run EXCEPT !.create = {}]
                 ELSE Failed([run EXCEPT !.create = {}])
       /\ debt' = IF ok THEN debt ELSE Owing
  /\ UNCHANGED <<world, status, copy>>

RowsDone ==
  /\ At("index") /\ Source("kusto")
  /\ run.todo = {} /\ run.create = {}
  /\ run' = Left(run)
  /\ debt' = Paid
  /\ UNCHANGED <<world, docs, status, copy>>

KustoNext ==
  \/ RunQuery
  \/ RunQueryFails
  \/ FormatRow
  \/ IndexRows
  \/ RowsDone
=============================================================================
