--------------------------- MODULE IndexerJobTypes ---------------------------
(***************************************************************************)
(* Type correctness of IndexerJob, with the bounds of the version numbers  *)
(* it rests on: the program refers to trees the history has.               *)
(***************************************************************************)
EXTENDS IndexerJobProperties, SequenceTheorems, TLAPS

Bounds ==
  /\ scenario \in Scenarios
  /\ Now \in Nat \ {0}
  /\ reachable \subseteq 1..Now
  /\ status.commit \in 0..Now
  /\ status.stamp \in 0..Now
  /\ run.from \in 0..Now
  /\ run.target \in 0..Now
  /\ At("index") => run.target # 0

TypeInv == TypeOK /\ Bounds

-----------------------------------------------------------------------------
(* What the operators on the program's state give.                         *)
LEMMA LeftIsRun ==
  ASSUME NEW r \in Runs
  PROVE  /\ Left(r) \in Runs
         /\ Left(r).pc = "base"
         /\ Left(r).from = r.from
         /\ Left(r).target = r.target
         /\ Left(r).errors = r.errors
         /\ Left(r).noted = r.noted
         /\ Left(r).mode = r.mode
         /\ Left(r).recover = r.recover
BY DEF Left, Runs

(* An error is noted and returned; nothing else changes.                   *)
LEMMA FailedIsRun ==
  ASSUME NEW r \in Runs
  PROVE  /\ Failed(r) \in Runs
         /\ Failed(r).errors
         /\ Failed(r).noted
         /\ Failed(r).pc = r.pc
         /\ Failed(r).from = r.from
         /\ Failed(r).target = r.target
         /\ Failed(r).mode = r.mode
         /\ Failed(r).recover = r.recover
BY DEF Failed, Runs

(* Between two runs.                                                       *)
LEMMA NoRunIsRun == NoRun \in Runs
BY DEF NoRun, Runs

(* Texts are numbered.                                                     *)
LEMMA TextIsNat ==
  ASSUME TypeInv, NEW c \in 1..Now, NEW p \in Paths
  PROVE  Text(c, p) \in Nat
BY DEF TypeInv, TypeOK, Bounds, Text, Now

(* The latest tree is the last of the history.                             *)
LEMMA LatestIsText ==
  ASSUME TypeInv, NEW p \in Paths
  PROVE  Latest[p] = Text(Now, p) /\ Latest[p] \in Nat
BY TextIsNat DEF TypeInv, Bounds, Text, Latest, Now

(* What can be read of a path does not change.                             *)
LEMMA ReadableIsStable ==
  ASSUME UNCHANGED scenario, NEW p
  PROVE  Readable(p)' = Readable(p)
BY DEF Readable, Content, Fact, Source, GitFile

(* What the program creates is a document.                                 *)
LEMMA DocIsDocument ==
  ASSUME NEW p \in Paths, NEW text \in Nat
  PROVE  Doc(p, text) \in Documents
BY DEF Doc, Documents, Owners

(* What a search finds is a document of the index under that path.         *)
LEMMA FoundIsDocument ==
  ASSUME TypeOK, NEW p \in Paths, NEW hit \in LookUps(p), hit.doc # NoDoc
  PROVE  hit.doc \in docs /\ hit.doc \in Documents /\ hit.doc.path = p
BY DEF TypeOK, LookUps, Holding

-----------------------------------------------------------------------------
(* A run that only differs in its lists, its errors or the end of the list. *)
SameRun(r) ==
  /\ r \in Runs
  /\ r.from = run.from /\ r.target = run.target
  /\ r.pc \in {run.pc, "base"}

(* What an action of the handlers, or of AutoIndexerJob, has to keep.      *)
LEMMA StepKeepsTypeInv ==
  ASSUME TypeInv, debt' \in Debts, UNCHANGED world,
         docs' \subseteq Documents, status' \in Statuses,
         status'.commit \in 0..Now, status'.stamp \in 0..Now,
         run' \in Runs, run'.from \in 0..Now, run'.target \in 0..Now,
         run'.pc = "index" => run'.target # 0,
         copy' \in {"none", "fresh", "stale"}
  PROVE  TypeInv'
<1>1. TypeOK' BY DEF TypeInv, TypeOK, world
<1>2. Bounds' BY DEF TypeInv, Bounds, world, Now, At
<1> QED BY <1>1, <1>2 DEF TypeInv

(* Steps that change the run and the index only.                           *)
LEMMA RunStepKeepsTypeInv ==
  ASSUME TypeInv, debt' \in Debts, UNCHANGED <<world, status, copy>>, docs' \subseteq Documents,
         run' \in Runs, run'.from \in 0..Now, run'.target \in 0..Now,
         run'.pc = "index" => run'.target # 0
  PROVE  TypeInv'
BY StepKeepsTypeInv DEF TypeInv, TypeOK, Bounds

(* Steps within one run.                                                   *)
LEMMA SameRunKeepsTypeInv ==
  ASSUME TypeInv, debt' \in Debts, UNCHANGED <<world, status, copy>>, docs' \subseteq Documents,
         SameRun(run')
  PROVE  TypeInv'
<1>1. run'.pc = "index" => run'.target # 0
  BY DEF SameRun, TypeInv, Bounds, At
<1> QED BY <1>1, RunStepKeepsTypeInv DEF SameRun, TypeInv, Bounds

(* An error does not end the run.                                          *)
LEMMA FailedIsSameRun ==
  ASSUME NEW r, SameRun(r)
  PROVE  SameRun(Failed(r)) /\ SameRun(Left(r)) /\ SameRun(Left(Failed(r)))
BY LeftIsRun, FailedIsRun DEF SameRun

(* Of a batch the engine takes a part.                                     *)
LEMMA AppliedIsPart ==
  ASSUME NEW batch, NEW ok, NEW applied \in Applied(batch, ok)
  PROVE  applied \subseteq batch
BY DEF Applied

(* A diff has entries of the right kind.                                   *)
LEMMA DiffIsItems ==
  ASSUME NEW b, NEW c, NEW renames \in Renames(b, c)
  PROVE  Diff(b, c, renames) \subseteq Items
<1>1. \A p \in Added(b, c) : renames[p] \in Paths /\ p \in Paths
  BY DEF Renames, Added, Deleted, Changed
<1>2. Modified(b, c) \subseteq Paths /\ Deleted(b, c) \subseteq Paths
  BY DEF Modified, Deleted, Changed
<1> QED BY <1>1, <1>2 DEF Diff, Items, Item

-----------------------------------------------------------------------------
(* The Git handler.                                                        *)
LEMMA NewIsDocument ==
  ASSUME TypeInv, At("index"), NEW p \in Paths
  PROVE  New(p) \in Documents
<1>1. run.target \in 1..Now BY DEF TypeInv, Bounds
<1>2. Text(run.target, p) \in Nat BY <1>1, TextIsNat
<1> QED BY <1>2, DocIsDocument DEF New

(* A modified file adds a document or an update.                           *)
LEMMA ToUpdateIsSameRun ==
  ASSUME TypeInv, At("index"),
         NEW item \in Items, NEW hit \in LookUps(item.old)
  PROVE  SameRun(ToUpdate(item, hit))
<1> DEFINE new == New(item.path)
<1>1. item.path \in Paths /\ item.old \in Paths BY DEF Items
<1>2. new \in Documents BY <1>1, NewIsDocument
<1>3. run \in Runs BY DEF TypeInv, TypeOK
<1>4. CASE hit.doc = NoDoc
  BY <1>2, <1>3, <1>4 DEF ToUpdate, SameRun, Runs
<1>5. CASE hit.doc # NoDoc
  <2>1. hit.doc \in Documents BY <1>1, <1>5, FoundIsDocument DEF TypeInv
  <2>2. [old |-> hit.doc, new |-> new] \in [old : Documents, new : Documents]
    BY <1>2, <2>1
  <2> QED BY <1>3, <1>5, <2>2 DEF ToUpdate, SameRun, Runs
<1> QED BY <1>4, <1>5

(* A deleted file adds a deletion.                                         *)
LEMMA ToDeleteIsSameRun ==
  ASSUME TypeInv, NEW p \in Paths, NEW hit \in LookUps(p)
  PROVE  SameRun(ToDelete(hit))
<1>1. run \in Runs BY DEF TypeInv, TypeOK
<1>2. CASE hit.doc = NoDoc BY <1>1, <1>2 DEF ToDelete, SameRun, Runs
<1>3. CASE hit.doc # NoDoc
  <2>1. hit.doc \in Documents BY <1>3, FoundIsDocument DEF TypeInv
  <2> QED BY <1>1, <1>3, <2>1 DEF ToDelete, SameRun, Runs
<1> QED BY <1>2, <1>3

(* An item is taken off the list.                                          *)
LEMMA DoneIsSameRun ==
  ASSUME NEW item, NEW r, SameRun(r)
  PROVE  SameRun(Done(item, r))
BY DEF Done, SameRun, Runs

(* A failed search is noted.                                               *)
LEMMA NotedIsSameRun ==
  ASSUME NEW hit, NEW r, SameRun(r)
  PROVE  SameRun(Noted(hit, r))
BY FailedIsSameRun DEF Noted

(* A run is the same run as itself.                                        *)
LEMMA RunIsSameRun ==
  ASSUME TypeInv
  PROVE  SameRun(run)
BY DEF SameRun, TypeInv, TypeOK

(* _setup_repository.                                                      *)
LEMMA SetupTypes ==
  ASSUME TypeInv, debt' \in Debts, SetupRepository
  PROVE  TypeInv'
<1>1. run \in Runs BY DEF TypeInv, TypeOK
<1>2. Target \in 1..Now /\ Target \in Nat /\ Target # 0
  BY DEF SetupRepository, TypeInv, Bounds
<1>3. CASE IndexAllFiles(Target)
  <2>1. AllFiles(Target) \subseteq Items
    BY DEF AllFiles, RepositoryFiles, Items, Item
  <2>2. run' \in Runs /\ run'.from = run.from /\ run'.target = Target
    BY <1>1, <1>2, <1>3, <2>1 DEF IndexAllFiles, Runs
  <2> QED BY <1>2, <2>2, RunStepKeepsTypeInv
          DEF SetupRepository, TypeInv, TypeOK, Bounds
<1>4. CASE IndexDiffFiles(Target)
  <2>1. PICK renames \in Renames(run.from, Target) :
          run' = [run EXCEPT !.pc = "index", !.mode = "diff", !.target = Target,
                             !.todo = Diff(run.from, Target, renames)]
    BY <1>4 DEF IndexDiffFiles
  <2>2. Diff(run.from, Target, renames) \subseteq Items BY DiffIsItems
  <2>3. run' \in Runs /\ run'.from = run.from /\ run'.target = Target
    BY <1>1, <1>2, <2>1, <2>2 DEF Runs
  <2> QED BY <1>2, <2>3, RunStepKeepsTypeInv
          DEF SetupRepository, TypeInv, TypeOK, Bounds
<1>5. CASE run' = Left(Failed([run EXCEPT !.target = Target]))
  <2> DEFINE r == [run EXCEPT !.target = Target]
  <2>1. r \in Runs /\ r.from = run.from /\ r.target = Target
    BY <1>1, <1>2 DEF Runs
  <2> HIDE DEF r
  <2>2. run' \in Runs /\ run'.from = run.from /\ run'.target = Target /\ run'.pc = "base"
    BY <1>5, <2>1, LeftIsRun, FailedIsRun DEF r
  <2> QED BY <1>2, <2>2, RunStepKeepsTypeInv
          DEF SetupRepository, TypeInv, TypeOK, Bounds
<1> QED BY <1>3, <1>4, <1>5 DEF SetupRepository

(* The loops over files and entries of a diff.                             *)
LEMMA ProcessFileTypes ==
  ASSUME TypeInv, debt' \in Debts, ProcessFile
  PROVE  TypeInv'
<1>1. run \in Runs /\ run.todo \subseteq Items /\ SameRun(run)
  BY RunIsSameRun DEF TypeInv, TypeOK, Runs
<1>2. PICK item \in run.todo :
        \/ run' = Done(item, run)
        \/ run' = Done(item, [run EXCEPT !.create = @ \cup {New(item.path)}])
        \/ \E hit \in LookUps(item.old) :
              run' = Done(item, Noted(hit, ToUpdate(item, hit)))
        \/ \E hit \in LookUps(item.path) :
              run' = Done(item, Noted(hit, ToDelete(hit)))
  BY DEF ProcessFile
<1>3. item \in Items /\ item.path \in Paths BY <1>1 DEF Items
<1>4. At("index") BY DEF ProcessFile, Indexing
<1>5. SameRun([run EXCEPT !.create = @ \cup {New(item.path)}])
  <2>1. New(item.path) \in Documents BY <1>3, <1>4, NewIsDocument
  <2> QED BY <1>1, <2>1 DEF SameRun, Runs
<1>6. SameRun(run')
  <2>1. CASE run' = Done(item, run) BY <1>1, <2>1, DoneIsSameRun
  <2>2. CASE run' = Done(item, [run EXCEPT !.create = @ \cup {New(item.path)}])
    BY <1>5, <2>2, DoneIsSameRun
  <2>3. CASE \E hit \in LookUps(item.old) :
               run' = Done(item, Noted(hit, ToUpdate(item, hit)))
    BY <1>3, <1>4, <2>3, ToUpdateIsSameRun, NotedIsSameRun, DoneIsSameRun
  <2>4. CASE \E hit \in LookUps(item.path) :
               run' = Done(item, Noted(hit, ToDelete(hit)))
    BY <1>3, <2>4, ToDeleteIsSameRun, NotedIsSameRun, DoneIsSameRun
  <2> QED BY <1>2, <2>1, <2>2, <2>3, <2>4
<1> QED BY <1>6, SameRunKeepsTypeInv DEF ProcessFile, TypeInv, TypeOK

(* The steps of GitDataSourceHandler.                                      *)
LEMMA GitTypes ==
  ASSUME TypeInv, debt' \in Debts, GitNext
  PROVE  TypeInv'
<1>1. run \in Runs /\ SameRun(run) /\ docs \subseteq Documents
  BY RunIsSameRun DEF TypeInv, TypeOK
<1>2. CASE SetupRepository BY <1>2, SetupTypes
<1>3. CASE SetupRepositoryFails
  <2>1. SameRun(run') BY <1>1, <1>3, FailedIsSameRun DEF SetupRepositoryFails
  <2> QED BY <1>1, <1>3, <2>1, SameRunKeepsTypeInv DEF SetupRepositoryFails
<1>4. CASE ProcessFile BY <1>4, ProcessFileTypes
<1>5. CASE IndexBatch
  <2>1. SameRun([run EXCEPT !.create = {}]) BY <1>1 DEF SameRun, Runs
  <2>2. SameRun(run') BY <1>5, <2>1, FailedIsSameRun DEF IndexBatch, Sent
  <2>3. docs' \subseteq Documents BY <1>1, <1>5, AppliedIsPart DEF IndexBatch, Runs
  <2> QED BY <1>5, <2>2, <2>3, SameRunKeepsTypeInv DEF IndexBatch
<1>6. CASE UpdateBatch
  <2>1. SameRun([run EXCEPT !.update = {}]) BY <1>1 DEF SameRun, Runs
  <2>2. SameRun(run') BY <1>6, <2>1, FailedIsSameRun DEF UpdateBatch, Sent
  <2>3. PICK ok \in Outcomes :
           \E applied \in Applied(run.update, ok) : docs' = Updated(applied)
    BY <1>6 DEF UpdateBatch
  <2>4. PICK applied \in Applied(run.update, ok) : docs' = Updated(applied)
    BY <2>3
  <2>5. applied \subseteq [old : Documents, new : Documents]
    BY <1>1, AppliedIsPart DEF Runs
  <2>6. docs' \subseteq Documents BY <1>1, <2>4, <2>5 DEF Updated
  <2> QED BY <1>6, <2>2, <2>6, SameRunKeepsTypeInv DEF UpdateBatch
<1>7. CASE DeleteBatch
  <2>1. SameRun([run EXCEPT !.delete = {}]) BY <1>1 DEF SameRun, Runs
  <2>2. SameRun(run') BY <1>7, <2>1, FailedIsSameRun DEF DeleteBatch
  <2> QED BY <1>1, <1>7, <2>2, SameRunKeepsTypeInv DEF DeleteBatch
<1>8. CASE FilesDone
  <2>1. SameRun(run') BY <1>1, <1>8, FailedIsSameRun DEF FilesDone
  <2> QED BY <1>1, <1>8, <2>1, SameRunKeepsTypeInv DEF FilesDone
<1> QED BY <1>2, <1>3, <1>4, <1>5, <1>6, <1>7, <1>8 DEF GitNext

-----------------------------------------------------------------------------
(* The handlers of URLs and of rows, alike but for what they fetch.        *)
LEMMA AllPathsAreItems ==
  ASSUME NEW S \in SUBSET Paths
  PROVE  {Item("A", p, p) : p \in S} \subseteq Items
BY DEF Item, Items

(* The latest text of a path makes a document.                             *)
LEMMA LatestIsDocument ==
  ASSUME TypeInv, NEW p \in Paths
  PROVE  Doc(p, Latest[p]) \in Documents
BY LatestIsText, DocIsDocument

(* A batch of new documents, sent.                                         *)
LEMMA AppliedAreDocuments ==
  ASSUME TypeInv, NEW ok, NEW applied \in Applied(run.create, ok)
  PROVE  docs \cup applied \subseteq Documents
BY AppliedIsPart DEF TypeInv, TypeOK, Runs

(* The steps of StaticDataSourceHandler.                                   *)
LEMMA StaticTypes ==
  ASSUME TypeInv, debt' \in Debts, StaticNext
  PROVE  TypeInv'
<1>1. run \in Runs /\ SameRun(run) /\ docs \subseteq Documents
  BY RunIsSameRun DEF TypeInv, TypeOK
<1>2. CASE SetupURLs
  <2>1. {Item("A", p, p) : p \in Paths} \subseteq Items BY AllPathsAreItems
  <2>2. run' \in Runs /\ run'.from = run.from /\ run'.target = Now
    BY <1>1, <1>2, <2>1 DEF SetupURLs, Runs, TypeInv, Bounds
  <2> QED BY <1>1, <1>2, <2>2, RunStepKeepsTypeInv DEF SetupURLs, TypeInv, Bounds
<1>3. CASE FetchURL
  <2>1. PICK item \in run.todo :
          \/ run' = [run EXCEPT !.todo = @ \ {item},
                       !.create = @ \cup {Doc(item.path, Latest[item.path])}]
          \/ run' = [run EXCEPT !.todo = @ \ {item}]
    BY <1>3 DEF FetchURL
  <2>2. item.path \in Paths BY <1>1 DEF Runs, Items
  <2>3. Doc(item.path, Latest[item.path]) \in Documents BY <2>2, LatestIsDocument
  <2>4. SameRun([run EXCEPT !.todo = @ \ {item}]) BY <1>1 DEF SameRun, Runs
  <2>5. SameRun([run EXCEPT !.todo = @ \ {item},
                   !.create = @ \cup {Doc(item.path, Latest[item.path])}])
    BY <1>1, <2>3 DEF SameRun, Runs
  <2>6. SameRun(run') BY <2>1, <2>4, <2>5
  <2> QED BY <1>1, <1>3, <2>6, SameRunKeepsTypeInv DEF FetchURL
<1>4. CASE FetchURLFails
  <2>1. SameRun(run') BY <1>1, <1>4, FailedIsSameRun DEF FetchURLFails
  <2> QED BY <1>1, <1>4, <2>1, SameRunKeepsTypeInv DEF FetchURLFails
<1>5. CASE IndexURLs
  <2>1. SameRun([run EXCEPT !.create = {}]) BY <1>1 DEF SameRun, Runs
  <2>2. SameRun(run') BY <1>1, <1>5, <2>1, FailedIsSameRun DEF IndexURLs
  <2>3. docs' \subseteq Documents BY <1>5, AppliedAreDocuments DEF IndexURLs
  <2> QED BY <1>5, <2>2, <2>3, SameRunKeepsTypeInv DEF IndexURLs
<1>6. CASE URLsDone
  <2>1. SameRun(run') BY <1>1, <1>6, FailedIsSameRun DEF URLsDone
  <2> QED BY <1>1, <1>6, <2>1, SameRunKeepsTypeInv DEF URLsDone
<1> QED BY <1>2, <1>3, <1>4, <1>5, <1>6 DEF StaticNext

(* The steps of KustoDataSourceHandler.                                    *)
LEMMA KustoTypes ==
  ASSUME TypeInv, debt' \in Debts, KustoNext
  PROVE  TypeInv'
<1>1. run \in Runs /\ SameRun(run) /\ docs \subseteq Documents
  BY RunIsSameRun DEF TypeInv, TypeOK
<1>2. CASE RunQuery
  <2>1. PICK time \in Checkpoints : run' = Query(time) BY <1>2 DEF RunQuery
  <2>2. time \in 0..Now BY DEF Checkpoints, TypeInv, Bounds
  <2> DEFINE after == IF Initial(time) THEN 0 ELSE time
             mode == IF Initial(time) THEN "full" ELSE "diff"
             rows == {Item("A", p, p) : p \in Rows(after)}
  <2>3. after \in 0..Now /\ mode \in {"full", "diff"}
    BY <2>2 DEF TypeInv, Bounds
  <2>4. Rows(after) \in SUBSET Paths BY DEF Rows
  <2>5. run' = [run EXCEPT !.pc = "index", !.mode = mode, !.from = after,
                           !.target = Now, !.todo = rows]
    BY <2>1 DEF Query
  <2> HIDE DEF after, mode
  <2>6. rows \subseteq Items BY <2>4, AllPathsAreItems
  <2> HIDE DEF rows
  <2>7. after \in Nat /\ Now \in Nat BY <2>3 DEF TypeInv, Bounds
  <2>8. run' \in Runs /\ run'.from = after /\ run'.target = Now
    BY <1>1, <2>3, <2>5, <2>6, <2>7 DEF Runs
  <2> QED BY <1>1, <1>2, <2>3, <2>8, RunStepKeepsTypeInv DEF RunQuery, TypeInv, Bounds
<1>3. CASE RunQueryFails
  <2>1. SameRun([run EXCEPT !.errors = TRUE]) BY <1>1 DEF SameRun, Runs
  <2>2. SameRun(run') BY <1>3, <2>1, FailedIsSameRun DEF RunQueryFails
  <2> QED BY <1>1, <1>3, <2>2, SameRunKeepsTypeInv DEF RunQueryFails
<1>4. CASE FormatRow
  <2>1. PICK item \in run.todo :
          run' = [run EXCEPT !.todo = @ \ {item},
                    !.create = @ \cup (IF Readable(item.path)
                                       THEN {Doc(item.path, Latest[item.path])} ELSE {})]
    BY <1>4 DEF FormatRow
  <2>2. item.path \in Paths BY <1>1 DEF Runs, Items
  <2>3. Doc(item.path, Latest[item.path]) \in Documents BY <2>2, LatestIsDocument
  <2>4. SameRun(run') BY <1>1, <2>1, <2>3 DEF SameRun, Runs
  <2> QED BY <1>1, <1>4, <2>4, SameRunKeepsTypeInv DEF FormatRow
<1>5. CASE IndexRows
  <2>1. SameRun([run EXCEPT !.create = {}]) BY <1>1 DEF SameRun, Runs
  <2>2. SameRun(run') BY <1>5, <2>1, FailedIsSameRun DEF IndexRows
  <2>3. docs' \subseteq Documents BY <1>5, AppliedAreDocuments DEF IndexRows
  <2> QED BY <1>5, <2>2, <2>3, SameRunKeepsTypeInv DEF IndexRows
<1>6. CASE RowsDone
  <2>1. SameRun(run') BY <1>1, <1>6, FailedIsSameRun DEF RowsDone
  <2> QED BY <1>1, <1>6, <2>1, SameRunKeepsTypeInv DEF RowsDone
<1> QED BY <1>2, <1>3, <1>4, <1>5, <1>6 DEF KustoNext

-----------------------------------------------------------------------------
(* The status updates and what surrounds the program.                      *)
LEMMA OnwardIsRun ==
  ASSUME TypeInv, Updating \/ At("base")
  PROVE  /\ Onward(run) \in Runs
         /\ Onward(run).from \in 0..Now /\ Onward(run).target \in 0..Now
         /\ Onward(run).pc \in {"setup", "report", "flag", "complete", "idle"}
<1>1. run \in Runs BY DEF TypeInv, TypeOK
<1>2. CASE At("complete")
  BY <1>2, NoRunIsRun DEF Onward, At, NoRun, TypeInv, Bounds
<1>3. CASE ~At("complete")
  <2>1. After(run.pc) \in {"setup", "report", "flag", "complete"}
    BY <1>3 DEF Updating, At, After
  <2> HIDE DEF Runs
  <2>2. Onward(run) = [run EXCEPT !.pc = After(run.pc)] BY <1>3 DEF Onward, At
  <2> QED BY <1>1, <2>1, <2>2 DEF Runs, TypeInv, Bounds
<1> QED BY <1>2, <1>3

(* The report is a status.                                                 *)
LEMMA ReportedIsStatus ==
  ASSUME TypeInv
  PROVE  /\ Reported \in Statuses
         /\ Reported.commit \in 0..Now /\ Reported.stamp \in 0..Now
<1>1. /\ status \in Statuses
      /\ run.noted \in BOOLEAN
  BY DEF TypeInv, TypeOK, Runs
<1>2. Time \in 0..Now /\ Time \in Nat BY DEF Time, TypeInv, Bounds
<1> DEFINE commit == IF Source("git") /\ run.target # 0 THEN run.target
                     ELSE status.commit
<1>3. commit \in 0..Now /\ commit \in Nat BY DEF TypeInv, Bounds
<1>4. Reported = [status EXCEPT !.error = run.noted, !.stamp = Time, !.commit = commit]
  BY <1>1 DEF Reported, Statuses
<1> HIDE DEF commit
<1> QED BY <1>1, <1>2, <1>3, <1>4 DEF Statuses

(* So is what each of the four updates writes.                             *)
LEMMA WrittenIsStatus ==
  ASSUME TypeInv, Updating
  PROVE  /\ Written \in Statuses
         /\ Written.commit \in 0..Now /\ Written.stamp \in 0..Now
<1>1. status \in Statuses /\ Time \in 0..Now
  BY DEF TypeInv, TypeOK, Time, Bounds
<1>2. CASE At("begin") BY <1>1, <1>2 DEF Written, At, Statuses, TypeInv, Bounds
<1>3. CASE At("report")
  <2>1. Written = Reported BY <1>3 DEF Written, At
  <2> QED BY <2>1, ReportedIsStatus
<1>4. CASE At("flag") BY <1>1, <1>4 DEF Written, At, Statuses, TypeInv, Bounds
<1>5. CASE At("complete") BY <1>1, <1>5 DEF Written, At, Statuses, TypeInv, Bounds
<1> QED BY <1>2, <1>3, <1>4, <1>5 DEF Updating, At

(* A push leaves the trees that were there.                                *)
LEMMA PushAppends ==
  ASSUME TypeInv, Push
  PROVE  /\ Now' = Now + 1 /\ Now \in Nat /\ Now # 0
         /\ history' \in Seq([Paths -> Nat])
         /\ \A c \in 1..Now, p \in Paths : Text(c, p)' = Text(c, p)
         /\ \A p \in Paths : Latest'[p] \in Texts(p)
<1>1. history \in Seq([Paths -> Nat]) /\ Now \in Nat /\ Now # 0
  BY DEF TypeInv, TypeOK, Bounds
<1>2. PICK tree \in [Paths -> 0..(Now + 1)] :
        (\A p \in Paths : tree[p] \in Texts(p)) /\ history' = Append(history, tree)
  BY DEF Push
<1>3. tree \in [Paths -> Nat] BY <1>1
<1>4. Now' = Now + 1 /\ history' \in Seq([Paths -> Nat]) BY <1>1, <1>2, <1>3 DEF Now
<1>5. \A c \in 1..Now : history'[c] = history[c] BY <1>1, <1>2, <1>3 DEF Now
<1>6. Latest' = tree BY <1>1, <1>2, <1>3, <1>4 DEF Now, Latest
<1> QED BY <1>1, <1>2, <1>4, <1>5, <1>6 DEF Text

(* The data source moves on.                                               *)
LEMMA PushTypes ==
  ASSUME TypeInv, Push
  PROVE  TypeInv'
<1>1. Now \in Nat /\ Now' = Now + 1 /\ history' \in Seq([Paths -> Nat])
  BY PushAppends
<1>2. reachable' \subseteq 1..(Now + 1)
  BY <1>1 DEF Push, Arrivals, TypeInv, Bounds
<1>3. TypeOK' BY <1>1, <1>2 DEF Push, TypeInv, TypeOK
<1>4. Bounds' BY <1>1, <1>2 DEF Push, TypeInv, Bounds, At
<1> QED BY <1>3, <1>4 DEF TypeInv

(* Before the first run.                                                   *)
LEMMA InitTypes == Init => TypeInv
<1> SUFFICES ASSUME Init PROVE TypeInv
  OBVIOUS
<1>1. PICK tree \in [Paths -> 0..1] : history = <<tree>> BY DEF Init
<1>2. history \in Seq([Paths -> Nat]) /\ Now = 1 BY <1>1 DEF Now
<1>3. TypeOK
  BY <1>2, NoRunIsRun, ScenariosAssumption, OthersAssumption
  DEF Init, TypeOK, Documents, Owners, Statuses, Debts
<1>4. Bounds BY <1>2 DEF Init, Bounds, NoRun, At
<1> QED BY <1>3, <1>4 DEF TypeInv

(* What is said of the failures so far.                                    *)
LEMMA DebtTypes ==
  ASSUME TypeInv, [Next]_vars
  PROVE  debt' \in Debts
<1>1. debt \in Debts BY DEF TypeInv, TypeOK
<1>2. Owing \in Debts /\ Paid \in Debts /\ Forgotten \in Debts
  BY <1>1 DEF Debts, Owing, Paid, Forgotten
<1>3. debt' \in {debt, Owing, Paid, Forgotten}
  BY DEF Next, RunStep, Start, GitNext, SetupRepository, SetupRepositoryFails, ProcessFile,
         IndexBatch, UpdateBatch, DeleteBatch, FilesDone, StaticNext, SetupURLs, FetchURL,
         FetchURLFails, IndexURLs, URLsDone, KustoNext, RunQuery, RunQueryFails, FormatRow,
         IndexRows, RowsDone, GetStatus, PatchStatus, UpdateLost, ReadConditions,
         ReadConditionsFails, Killed, ControllerWrites, Push, vars, world
<1> QED BY <1>1, <1>2, <1>3

(* Every step keeps the types.                                             *)
LEMMA NextTypes ==
  ASSUME TypeInv, [Next]_vars
  PROVE  TypeInv'
<1>1. /\ run \in Runs /\ docs \subseteq Documents /\ status \in Statuses
      /\ copy \in {"none", "fresh", "stale"}
      /\ status.commit \in 0..Now /\ status.stamp \in 0..Now /\ 0 \in 0..Now
      /\ run.from \in 0..Now /\ run.target \in 0..Now
  BY DEF TypeInv, TypeOK, Bounds
<1>0. debt' \in Debts BY DebtTypes
<1>2. CASE Start
  <2>1. run' \in Runs /\ run'.from = status.commit /\ run'.target = 0 /\ run'.pc = "begin"
    BY <1>0, <1>1, <1>2, NoRunIsRun DEF Start, NoRun, Runs, Statuses
  <2> QED BY <1>0, <1>1, <1>2, <2>1, RunStepKeepsTypeInv DEF Start
<1>3. CASE GitNext BY <1>0, <1>3, GitTypes
<1>4. CASE StaticNext BY <1>0, <1>4, StaticTypes
<1>5. CASE KustoNext BY <1>0, <1>5, KustoTypes
<1>6. CASE GetStatus
  BY <1>0, <1>1, <1>6, StepKeepsTypeInv DEF GetStatus, TypeInv, Bounds, At
<1>7. CASE PatchStatus
  BY <1>0, <1>1, <1>7, OnwardIsRun, WrittenIsStatus, StepKeepsTypeInv DEF PatchStatus
<1>8. CASE UpdateLost
  BY <1>0, <1>1, <1>8, OnwardIsRun, StepKeepsTypeInv DEF UpdateLost
<1>9. CASE ReadConditions
  <2>1. run' \in Runs /\ run'.from \in 0..Now /\ run'.target \in 0..Now /\ run'.pc # "index"
    BY <1>0, <1>1, <1>9, OnwardIsRun DEF ReadConditions, Runs, Statuses
  <2> QED BY <1>0, <1>1, <1>9, <2>1, RunStepKeepsTypeInv DEF ReadConditions
<1>10. CASE ReadConditionsFails
  <2>1. run' \in Runs /\ run'.from = run.from /\ run'.target = run.target /\ run'.pc = "flag"
    BY <1>0, <1>1, <1>10 DEF ReadConditionsFails, Runs
  <2> QED BY <1>0, <1>1, <1>10, <2>1, RunStepKeepsTypeInv DEF ReadConditionsFails
<1>11. CASE Push BY <1>11, PushTypes
<1>12. CASE Killed
  BY <1>0, <1>1, <1>12, NoRunIsRun, StepKeepsTypeInv DEF Killed, NoRun
<1>13. CASE ControllerWrites
  <2>1. status' \in Statuses /\ status'.commit = status.commit /\ status'.stamp = status.stamp
    BY <1>0, <1>1, <1>13 DEF ControllerWrites, Statuses
  <2> QED BY <1>0, <1>1, <1>13, <2>1, StepKeepsTypeInv DEF ControllerWrites, TypeInv, Bounds, At
<1>14. CASE UNCHANGED vars
  BY <1>0, <1>1, <1>14, StepKeepsTypeInv DEF vars, world, TypeInv, Bounds, At
<1> QED
  BY <1>2, <1>3, <1>4, <1>5, <1>6, <1>7, <1>8, <1>9, <1>10, <1>11, <1>12,
     <1>13, <1>14
  DEF Next, RunStep

-----------------------------------------------------------------------------
(* The bounds hold with the types: the program never refers to a tree the  *)
(* data source does not have.                                              *)
THEOREM TypeInvariant == Spec => []TypeInv
BY InitTypes, NextTypes, PTL DEF Spec

(* Whatever fails, is killed or is pushed, the program's lists hold items  *)
(* and documents, never a search that found nothing (ToUpdate).            *)
THEOREM TypeCorrect == Spec => []TypeOK
BY TypeInvariant, PTL DEF TypeInv
=============================================================================
