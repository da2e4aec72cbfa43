----------------------------- MODULE GitHandler -----------------------------
(***************************************************************************)
(* data_source_handler/git_handler.py: a clone, then all its files or the  *)
(* difference to the commit indexed last, file by file, into batches.      *)
(***************************************************************************)
EXTENDS JobWorld

(* _should_index_file, with a path list or an exclude list that is absent  *)
(* represented by facts that let every path through.                       *)
ShouldIndex(p) ==
  /\ ~Fact(p).hidden
  /\ ~Fact(p).binary
  /\ ~Fact(p).excluded
  /\ Fact(p).included

(* _get_repository_files: a directory whose name contains ".git" anywhere  *)
(* is passed over, which a diff does not do.                               *)
RepositoryFiles(c) ==
  {p \in Paths : Text(c, p) # 0 /\ ShouldIndex(p) /\ ~Fact(p).dotGit}

AllFiles(c) == {Item("A", p, p) : p \in RepositoryFiles(c)}

-----------------------------------------------------------------------------
(* The diff of two commits.  Which deleted file git pairs with which added *)
(* one, as a rename, depends on how alike they are.                        *)
Changed(b, c) == {p \in Paths : Text(b, p) # Text(c, p)}
Added(b, c) == {p \in Changed(b, c) : Text(b, p) = 0}
Deleted(b, c) == {p \in Changed(b, c) : Text(c, p) = 0}
Modified(b, c) == Changed(b, c) \ (Added(b, c) \cup Deleted(b, c))

(* The ways to give added files an old name, the ones that are no rename   *)
(* their own.                                                              *)
Renames(b, c) ==
  {f \in [Added(b, c) -> Added(b, c) \cup Deleted(b, c)] :
     /\ \A p \in Added(b, c) : f[p] \in Deleted(b, c) \cup {p}
     /\ \A p, q \in Added(b, c) : f[p] = f[q] => p = q}

Diff(b, c, renames) ==
  {Item(IF renames[p] = p THEN "A" ELSE "R", p, renames[p]) : p \in Added(b, c)}
  \cup {Item("M", p, p) : p \in Modified(b, c)}
  \cup {Item("D", p, p) :
          p \in Deleted(b, c) \ {renames[q] : q \in Added(b, c)}}

-----------------------------------------------------------------------------
(* update_index: what to do after _setup_repository has cloned c.          *)
(* Used by no specification: also after a run with errors.                 *)
DiffDespiteErrors == scenario.pin = 0 /\ run.from # 0

DiffPossible == scenario.pin = 0 /\ run.from # 0 /\ ~run.recover

Target == IF scenario.pin # 0 THEN scenario.pin ELSE Now

IndexAllFiles(c) ==
  run' = [run EXCEPT !.pc = "index", !.mode = "full", !.target = c,
                     !.todo = AllFiles(c)]

IndexDiffFiles(c) ==
  \E renames \in Renames(run.from, c) :
    run' = [run EXCEPT !.pc = "index", !.mode = "diff", !.target = c,
                       !.todo = Diff(run.from, c, renames)]

(* Of a base commit that is gone only one of git's exceptions is caught.   *)
SetupRepository ==
  /\ At("setup") /\ Source("git")
  /\ Target \in reachable
  /\ \/ ~DiffPossible /\ IndexAllFiles(Target) /\ debt' = debt
     \/ /\ DiffPossible /\ run.from \in reachable
        /\ IndexDiffFiles(Target) /\ debt' = debt
     \/ /\ DiffPossible /\ run.from \notin reachable
        /\ \/ IndexAllFiles(Target) /\ debt' = debt
           \/ /\ run' = Left(Failed([run EXCEPT !.target = Target]))
              /\ debt' = Owing
  /\ UNCHANGED <<world, docs, status, copy>>

SetupRepositoryFails ==
  /\ At("setup") /\ Source("git")
  /\ MayFail("clone") \/ TokenFails \/ Target \notin reachable
  /\ run' = Left(Failed(run))
  /\ UNCHANGED <<world, docs, status, copy, debt>>

-----------------------------------------------------------------------------
Indexing(source) == At("index") /\ Source(source)

BatchDue ==
  \/ Full
  \/ Cardinality(run.update) >= BatchSize
  \/ Cardinality(run.delete) >= BatchSize

New(p) == Doc(p, Text(run.target, p))

(* One item of the list.  What _should_index_file refuses, and a file that *)
(* cannot be read, is passed over.                                         *)
PassedOver(item) ==
  \/ ~ShouldIndex(item.path)
  \/ item.change # "D" /\ ~Readable(item.path)

(* Used by no specification: the answer of the search is not looked at; a  *)
(* file that is not found is left alone.                                   *)
UpdateUnchecked(item, hit) ==
  [run EXCEPT !.update = @ \cup {[old |-> hit.doc, new |-> New(item.path)]}]

UpdateIfFound(item, hit) ==
  IF hit.doc = NoDoc THEN run
  ELSE [run EXCEPT !.update = @ \cup {[old |-> hit.doc, new |-> New(item.path)]}]

(* A modified or renamed file replaces the document found under its old    *)
(* name; when none is found, or the search fails, it is a new one.         *)
ToUpdate(item, hit) ==
  IF hit.doc = NoDoc
  THEN [run EXCEPT !.create = @ \cup {New(item.path)}]
  ELSE [run EXCEPT !.update = @ \cup {[old |-> hit.doc, new |-> New(item.path)]}]

ToDelete(hit) ==
  IF hit.doc = NoDoc THEN run ELSE [run EXCEPT !.delete = @ \cup {hit.doc}]

Done(item, r) == [r EXCEPT !.todo = @ \ {item}]
Noted(hit, r) == IF hit.failed THEN Failed(r) ELSE r

ProcessFile ==
  /\ Indexing("git")
  /\ ~BatchDue
  /\ \E item \in run.todo :
       \/ PassedOver(item) /\ run' = Done(item, run)
       \/ /\ ~PassedOver(item) /\ item.change = "A"
          /\ run' = Done(item, [run EXCEPT !.create = @ \cup {New(item.path)}])
       \/ /\ ~PassedOver(item) /\ item.change \in {"M", "R"}
          /\ \E hit \in LookUps(item.old) :
               run' = Done(item, Noted(hit, ToUpdate(item, hit)))
       \/ /\ ~PassedOver(item) /\ item.change = "D"
          /\ \E hit \in LookUps(item.path) :
               run' = Done(item, Noted(hit, ToDelete(hit)))
  /\ UNCHANGED <<world, docs, status, copy, debt>>

-----------------------------------------------------------------------------
(* A batch is sent when it is full, and what is left of the three at the   *)
(* end, in this order.  Failures are noted and the run goes on.            *)
Due(batch) == Cardinality(batch) >= BatchSize \/ (run.todo = {} /\ batch # {})

Sent(ok, r) == IF ok THEN r ELSE Failed(r)

IndexBatch ==
  /\ Indexing("git") /\ Due(run.create)
  /\ \E ok \in Outcomes :
       /\ \E applied \in Applied(run.create, ok) : docs' = docs \cup applied
       /\ run' = Sent(ok, [run EXCEPT !.create = {}])
       /\ debt' = IF ok THEN debt ELSE Owing
  /\ UNCHANGED <<world, status, copy>>

UpdateBatch ==
  /\ Indexing("git") /\ Due(run.update) /\ ~Due(run.create)
  /\ \E ok \in Outcomes :
       /\ \E applied \in Applied(run.update, ok) : docs' = Updated(applied)
       /\ run' = Sent(ok, [run EXCEPT !.update = {}])
       /\ debt' = IF ok THEN debt ELSE Owing
  /\ UNCHANGED <<world, status, copy>>

(* _delete_documents_batch calls a method that KAITORAGClient has not.     *)
DeleteBatch ==
  /\ Indexing("git") /\ Due(run.delete)
  /\ ~Due(run.create) /\ ~Due(run.update)
  /\ run' = Failed([run EXCEPT !.delete = {}])
  /\ UNCHANGED <<world, docs, status, copy, debt>>

FilesDone ==
  /\ Indexing("git")
  /\ run.todo = {} /\ run.create = {} /\ run.update = {} /\ run.delete = {}
  /\ run' = Left(run)
  /\ debt' = Paid
  /\ UNCHANGED <<world, docs, status, copy>>

GitNext ==
  \/ SetupRepository
  \/ SetupRepositoryFails
  \/ ProcessFile
  \/ IndexBatch
  \/ UpdateBatch
  \/ DeleteBatch
  \/ FilesDone
=============================================================================
