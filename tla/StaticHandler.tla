---------------------------- MODULE StaticHandler ----------------------------
(***************************************************************************)
(* data_source_handler/static_handler.py: the URLs of the specification,   *)
(* one after the other.  The first failure ends the run, and what is in    *)
(* the current batch is dropped.                                           *)
(***************************************************************************)
EXTENDS JobWorld

SetupURLs ==
  /\ At("setup") /\ Source("static")
  /\ run' = [run EXCEPT !.pc = "index", !.mode = "full", !.target = Now,
                        !.todo = {Item("A", p, p) : p \in Paths}]
  /\ UNCHANGED <<world, docs, status, copy, debt>>

Fetching == At("index") /\ Source("static") /\ ~Full

(* _fetch_content_from_url; nothing is indexed of an empty response.       *)
FetchURL ==
  /\ Fetching
  /\ \E item \in run.todo :
       /\ Latest[item.path] # 0
       /\ \/ /\ Content(item.path) = "text"
             /\ run' = [run EXCEPT !.todo = @ \ {item},
                          !.create = @ \cup {Doc(item.path, Latest[item.path])}]
          \/ /\ Content(item.path) = ""
             /\ run' = [run EXCEPT !.todo = @ \ {item}]
  /\ UNCHANGED <<world, docs, status, copy, debt>>

FetchURLFails ==
  /\ Fetching
  /\ \E item \in run.todo :
       \/ Latest[item.path] = 0
       \/ Content(item.path) = "error"
       \/ MayFail("fetch") \/ TokenFails
  /\ run' = Left(Failed(run))
  /\ UNCHANGED <<world, docs, status, copy, debt>>

IndexURLs ==
  /\ At("index") /\ Source("static")
  /\ Full \/ (run.todo = {} /\ run.create # {})
  /\ \E ok \in Outcomes :
       /\ \E applied \in Applied(run.create, ok) : docs' = docs \cup applied
       /\ run' = IF ok THEN [run EXCEPT !.create = {}] ELSE Left(Failed(run))
  /\ UNCHANGED <<world, status, copy, debt>>

(* Used by no specification: the call after the loop is forgotten.         *)
URLsDoneEarly ==
  /\ At("index") /\ Source("static")
  /\ run.todo = {}
  /\ run' = Left(run)
  /\ UNCHANGED <<world, docs, status, copy, debt>>

URLsDone ==
  /\ At("index") /\ Source("static")
  /\ run.todo = {} /\ run.create = {}
  /\ run' = Left(run)
  /\ UNCHANGED <<world, docs, status, copy, debt>>

StaticNext ==
  \/ SetupURLs
  \/ FetchURL
  \/ FetchURLFails
  \/ IndexURLs
  \/ URLsDone
=============================================================================
