---------------------------- MODULE FetchedIndex ----------------------------
(***************************************************************************)
(* What the runs over URLs and rows leave in the index.  URLsInv is the    *)
(* inductive invariant of the first, RowsInv of the second: what a run has *)
(* left out the status knows of, or has forgotten.  Then what becomes of   *)
(* the text of a file: for every file the encoding it is read with         *)
(* (text_handler.py) and whether it gives a text at all, and from it what  *)
(* the runs over files leave.                                              *)
(***************************************************************************)
EXTENDS IndexerJobTypes, WellFoundedInduction

(* A text the URL has had since the run began, among these documents.      *)
FetchedSince(p, these) ==
  \E c \in 1..Now : run.target <= c /\ Doc(p, Text(c, p)) \in these

(* Until the end of the loop a URL is fetched, or is still to be.          *)
URLsOnTheirWay ==
  At("index") =>
    \A p \in Paths :
      Readable(p) =>
        \/ FetchedSince(p, docs \cup run.create)
        \/ \E item \in run.todo : item.path = p

(* A run without an error leaves every one of them in the index.           *)
URLsIndexed ==
  CleanRun => \A p \in Paths : Readable(p) => FetchedSince(p, docs)

(* The inductive invariant.                                                *)
URLsInv == Source("static") => URLsOnTheirWay /\ URLsIndexed

-----------------------------------------------------------------------------
(* A URL that changes was still fetched with an earlier text.              *)
LEMMA PushURLs ==
  ASSUME TypeInv, Source("static"), URLsOnTheirWay, URLsIndexed, Push
  PROVE  URLsOnTheirWay' /\ URLsIndexed'
<1>1. \A c \in 1..Now, p \in Paths : c \in 1..Now' /\ Text(c, p)' = Text(c, p)
  BY PushAppends
<1>2. UNCHANGED <<scenario, docs, run>> BY DEF Push
<1>3. \A p \in Paths : Readable(p)' = Readable(p) BY <1>2, ReadableIsStable
<1>4. URLsOnTheirWay'
  BY <1>1, <1>2, <1>3 DEF URLsOnTheirWay, FetchedSince, At, Doc
<1>5. URLsIndexed'
  BY <1>1, <1>2, <1>3 DEF URLsIndexed, FetchedSince, CleanRun, Doc
<1> QED BY <1>4, <1>5

(* A run that does not end with a clean list has nothing to show.          *)
LEMMA NoCleanURLs ==
  ASSUME run'.pc \notin {"index", "base", "report", "flag", "complete"} \/ run'.errors,
         run'.pc # "index"
  PROVE  URLsOnTheirWay' /\ URLsIndexed'
BY DEF URLsOnTheirWay, URLsIndexed, CleanRun, At

(* Steps that neither fetch nor index.                                     *)
LEMMA QuietURLs ==
  ASSUME URLsIndexed, UNCHANGED <<world, docs>>,
         run'.pc # "index", CleanRun' => CleanRun /\ run'.target = run.target
  PROVE  URLsOnTheirWay' /\ URLsIndexed'
<1>1. \A p \in Paths : Readable(p)' = Readable(p) BY ReadableIsStable DEF world
<1> QED BY <1>1 DEF URLsOnTheirWay, URLsIndexed, FetchedSince, At, Doc, Text, Now, world

(* The steps of StaticDataSourceHandler.                                   *)
LEMMA StaticURLs ==
  ASSUME TypeInv, URLsOnTheirWay, URLsIndexed, StaticNext
  PROVE  URLsOnTheirWay' /\ URLsIndexed'
<1>1. run \in Runs /\ UNCHANGED world
  BY DEF TypeInv, TypeOK, StaticNext, SetupURLs, FetchURL, FetchURLFails, IndexURLs, URLsDone
<1>2. \A p \in Paths : Readable(p)' = Readable(p) BY <1>1, ReadableIsStable DEF world
<1>3. \A c \in 1..Now, p \in Paths : c \in 1..Now' /\ Doc(p, Text(c, p))' = Doc(p, Text(c, p))
  BY <1>1 DEF world, Text, Now, Doc
<1>4. CASE SetupURLs
  <2>1. run'.pc = "index" /\ run'.todo = {Item("A", p, p) : p \in Paths}
    BY <1>1, <1>4 DEF SetupURLs, Runs
  <2>2. ASSUME NEW p \in Paths PROVE \E item \in run'.todo : item.path = p
    <3>1. Item("A", p, p) \in run'.todo BY <2>1
    <3> QED BY <3>1 DEF Item
  <2> QED BY <2>1, <2>2 DEF URLsOnTheirWay, URLsIndexed, CleanRun
<1>5. CASE FetchURL
  <2>1. PICK item \in run.todo :
          \/ /\ Content(item.path) = "text"
             /\ run' = [run EXCEPT !.todo = @ \ {item},
                          !.create = @ \cup {Doc(item.path, Latest[item.path])}]
          \/ /\ Content(item.path) = ""
             /\ run' = [run EXCEPT !.todo = @ \ {item}]
    BY <1>5 DEF FetchURL
  <2>2. /\ run'.pc = "index" /\ run'.target = run.target /\ run'.todo = run.todo \ {item}
        /\ run.create \subseteq run'.create
        /\ Readable(item.path) => Doc(item.path, Latest[item.path]) \in run'.create
    <3>1. run.pc = "index" BY <1>5 DEF FetchURL, Fetching, At
    <3>2. CASE run' = [run EXCEPT !.todo = @ \ {item},
                         !.create = @ \cup {Doc(item.path, Latest[item.path])}]
      BY <1>1, <3>1, <3>2 DEF Runs
    <3>3. CASE Content(item.path) = "" /\ run' = [run EXCEPT !.todo = @ \ {item}]
      BY <1>1, <3>1, <3>3 DEF Runs, Readable
    <3> QED BY <2>1, <3>2, <3>3
  <2>3. ASSUME NEW p \in Paths, Readable(p)
        PROVE  \/ FetchedSince(p, docs \cup run.create)'
               \/ \E i \in run'.todo : i.path = p
    <3>1. CASE FetchedSince(p, docs \cup run.create)
      BY <1>3, <1>5, <2>2, <3>1 DEF FetchedSince, FetchURL
    <3>2. CASE item.path = p
      <4>1. Now \in 1..Now /\ run.target <= Now BY DEF TypeInv, Bounds
      <4>2. Doc(p, Text(Now, p)) \in run'.create
        BY <2>2, <2>3, <3>2, LatestIsText
      <4>3. Doc(p, Text(Now, p))' = Doc(p, Text(Now, p)) /\ Now' = Now
        BY <1>1 DEF world, Text, Now, Doc
      <4> QED BY <2>2, <4>1, <4>2, <4>3 DEF FetchedSince
    <3>3. CASE ~FetchedSince(p, docs \cup run.create) /\ item.path # p
      BY <1>5, <2>2, <2>3, <3>3 DEF URLsOnTheirWay, FetchURL, Fetching
    <3> QED BY <3>1, <3>2, <3>3
  <2> QED BY <1>2, <2>2, <2>3 DEF URLsOnTheirWay, URLsIndexed, CleanRun
<1>6. CASE FetchURLFails
  <2>1. run'.errors /\ run'.pc = "base"
    BY <1>1, <1>6, FailedIsRun, LeftIsRun DEF FetchURLFails
  <2> QED BY <2>1, NoCleanURLs
<1>7. CASE IndexURLs
  <2>1. PICK ok \in Outcomes :
          /\ \E applied \in Applied(run.create, ok) : docs' = docs \cup applied
          /\ run' = IF ok THEN [run EXCEPT !.create = {}] ELSE Left(Failed(run))
    BY <1>7 DEF IndexURLs
  <2>2. CASE ok
    <3>1. docs' = docs \cup run.create BY <2>1, <2>2 DEF Applied
    <3>2. /\ run'.pc = "index" /\ run'.target = run.target /\ run'.todo = run.todo
          /\ run'.create = {}
      BY <1>1, <1>7, <2>1, <2>2 DEF IndexURLs, At, Runs
    <3>3. \A p \in Paths :
            FetchedSince(p, docs \cup run.create) => FetchedSince(p, docs \cup run.create)'
      BY <1>3, <3>1, <3>2 DEF FetchedSince
    <3> QED BY <1>2, <1>7, <3>2, <3>3 DEF URLsOnTheirWay, URLsIndexed, CleanRun, IndexURLs, At
  <2>3. CASE ~ok
    <3>1. run'.errors /\ run'.pc = "base" BY <1>1, <2>1, <2>3, FailedIsRun, LeftIsRun
    <3> QED BY <3>1, NoCleanURLs
  <2> QED BY <2>2, <2>3
<1>8. CASE URLsDone
  <2>1. run'.pc = "base" /\ run'.target = run.target BY <1>1, <1>8, LeftIsRun DEF URLsDone
  <2>2. \A p \in Paths : Readable(p) => FetchedSince(p, docs)
    <3>1. docs \cup run.create = docs BY <1>8 DEF URLsDone
    <3> QED BY <1>8, <3>1 DEF URLsOnTheirWay, URLsDone
  <2>3. \A p \in Paths : FetchedSince(p, docs) => FetchedSince(p, docs)'
    BY <1>3, <1>8, <2>1 DEF FetchedSince, URLsDone
  <2> QED BY <1>2, <2>1, <2>2, <2>3 DEF URLsOnTheirWay, URLsIndexed, At
<1> QED BY <1>4, <1>5, <1>6, <1>7, <1>8 DEF StaticNext

(* Every step keeps the invariant.                                         *)
LEMMA NextURLs ==
  ASSUME TypeInv, URLsInv, [Next]_vars
  PROVE  URLsInv'
<1> SUFFICES ASSUME Source("static") PROVE URLsOnTheirWay' /\ URLsIndexed'
  <2>1. scenario' = scenario
    BY DEF Next, RunStep, Start, GitNext, SetupRepository, SetupRepositoryFails, ProcessFile,
        IndexBatch, UpdateBatch, DeleteBatch, FilesDone, StaticNext, SetupURLs, FetchURL,
        FetchURLFails, IndexURLs, URLsDone, KustoNext, RunQuery, RunQueryFails, FormatRow,
        IndexRows, RowsDone, GetStatus, PatchStatus, UpdateLost, ReadConditions,
        ReadConditionsFails, Killed, ControllerWrites, Push, vars, world
  <2> QED BY <2>1 DEF URLsInv, Source
<1>1. URLsOnTheirWay /\ URLsIndexed /\ run \in Runs BY DEF URLsInv, TypeInv, TypeOK
<1>2. CASE Push BY <1>1, <1>2, PushURLs
<1>3. CASE StaticNext BY <1>1, <1>3, StaticURLs
<1>4. CASE Start
  BY <1>4, NoCleanURLs DEF Start, NoRun
<1>5. CASE GitNext \/ KustoNext
  BY <1>5 DEF GitNext, SetupRepository, SetupRepositoryFails, ProcessFile, IndexBatch,
      UpdateBatch, DeleteBatch, FilesDone, Indexing, KustoNext, RunQuery, RunQueryFails,
      FormatRow, IndexRows, RowsDone, Source
<1>6. CASE Updating /\ run' = Onward(run) /\ UNCHANGED <<world, docs>>
  <2>1. CASE At("complete")
    BY <1>6, <2>1, NoCleanURLs DEF Onward, NoRun, At
  <2>2. CASE ~At("complete")
    <3>1. run' = [run EXCEPT !.pc = After(run.pc)] BY <1>6, <2>2 DEF Onward, At
    <3>2. /\ After(run.pc) \in {"setup", "flag", "complete"}
          /\ After(run.pc) = "setup" \/ run.pc \in {"report", "flag"}
      BY <1>6, <2>2 DEF After, Updating, At
    <3>3. /\ run'.pc = After(run.pc) /\ run'.errors = run.errors
          /\ run'.target = run.target
      BY <1>1, <3>1 DEF Runs
    <3> QED BY <1>1, <1>6, <3>2, <3>3, QuietURLs DEF CleanRun
  <2> QED BY <2>1, <2>2
<1>7. CASE PatchStatus \/ UpdateLost BY <1>6, <1>7 DEF PatchStatus, UpdateLost
<1>8. CASE ReadConditions \/ ReadConditionsFails
  <2>1. /\ At("base") /\ UNCHANGED <<world, docs>>
        /\ \/ run' = [run EXCEPT !.pc = "report"]
           \/ run' = [run EXCEPT !.pc = "flag"]
    BY <1>1, <1>8 DEF ReadConditions, ReadConditionsFails, Onward, After, At, Runs
  <2>2. run'.pc # "index" /\ (CleanRun' => CleanRun /\ run'.target = run.target)
    BY <1>1, <2>1 DEF CleanRun, At, Runs
  <2> QED BY <1>1, <2>1, <2>2, QuietURLs
<1>9. CASE Killed BY <1>9, NoCleanURLs DEF Killed, NoRun
<1>10. CASE UNCHANGED <<world, docs, run>>
  <2>1. \A p \in Paths : Readable(p)' = Readable(p) BY <1>10, ReadableIsStable DEF world
  <2> QED BY <1>1, <1>10, <2>1
      DEF URLsOnTheirWay, URLsIndexed, FetchedSince, CleanRun, At, Doc, Text, Now, world
<1>11. CASE GetStatus \/ ControllerWrites \/ UNCHANGED vars
  BY <1>10, <1>11 DEF GetStatus, ControllerWrites, vars, world
<1> QED BY <1>2, <1>3, <1>4, <1>5, <1>7, <1>8, <1>9, <1>11 DEF Next, RunStep

-----------------------------------------------------------------------------
(* While a run over the URLs goes on without an error, each URL is still to *)
(* fetch, in the batch, or in the index (update_index of the handler).     *)
THEOREM URLsInvariant == Spec => []URLsInv
<1>1. Init => URLsInv
  BY DEF Init, NoRun, URLsInv, URLsOnTheirWay, URLsIndexed, CleanRun, At
<1>2. TypeInv /\ URLsInv /\ [Next]_vars => URLsInv' BY NextURLs
<1> QED BY <1>1, <1>2, TypeInvariant, PTL DEF Spec

(* A run over the URLs that ends without an error has lost no batch        *)
(* (StaticDataSourceHandler.update_index), whatever else fails.            *)
THEOREM URLRunsAreComplete == Spec => []StaticRunIsComplete
<1>1. TypeInv /\ URLsInv => StaticRunIsComplete
  <2> SUFFICES ASSUME TypeInv, URLsInv, Source("static"), CleanRun,
                      NEW p \in Paths, Readable(p)
               PROVE  \E c \in run.target..Now : Doc(p, Text(c, p)) \in docs
    BY DEF StaticRunIsComplete
  <2>1. PICK c \in 1..Now : run.target <= c /\ Doc(p, Text(c, p)) \in docs
    BY DEF URLsInv, URLsIndexed, FetchedSince
  <2>2. c \in run.target..Now BY <2>1 DEF TypeInv, Bounds
  <2> QED BY <2>1, <2>2
<1> QED BY <1>1, URLsInvariant, TypeInvariant, PTL

-----------------------------------------------------------------------------
(* Rows.  A row that arrived between two runs, if it did by then, is in    *)
(* the index.                                                              *)
CoveredUpTo(p, time) ==
  (Readable(p) /\ Latest[p] \in reachable /\ Latest[p] <= time) =>
    Doc(p, Latest[p]) \in docs

TimeIsCovered == \A p \in Paths : CoveredUpTo(p, status.stamp)

(* A query or a batch that failed is owed.                                 *)
ErrorsAreOwed == run.errors => debt # "none"

(* The last update of a run finds its error in the status, or forgotten.   *)
ErrorIsFlagged ==
  (At("complete") /\ run.errors) =>
    (debt = "owed" /\ status.error) \/ ErrorForgotten

(* If rows up to the time in the status are missing a run failed, and the  *)
(* status says so, or has forgotten it, or the flag is about to say so.    *)
FailuresAreKnown ==
  \/ TimeIsCovered
  \/ ErrorForgotten
  \/ debt = "owed" /\ (status.error \/ (At("flag") /\ run.errors))

(* The same of a run that has read the status and not made its query.      *)
RunKnowsFailures ==
  run.pc \in {"begin", "setup"} =>
    TimeIsCovered \/ ErrorForgotten \/ run.recover

(* A run that has left something out, or asked for too little.             *)
MissesRows == run.errors \/ (run.mode = "diff" /\ ErrorForgotten)

RowsOnTheirWay ==
  (At("index") /\ ~MissesRows) =>
    \A p \in Paths :
      (Readable(p) /\ Latest[p] \in reachable) =>
        \/ Doc(p, Latest[p]) \in docs \cup run.create
        \/ \E item \in run.todo : item.path = p

(* A run that is through has indexed every row it could see.               *)
IsThrough == run.pc \in {"base", "report", "flag", "complete"}

RowsIndexed ==
  (IsThrough /\ ~MissesRows) => \A p \in Paths : CoveredUpTo(p, Now)

(* The inductive invariant: what the status knows, and what the run does.  *)
RowsKnown ==
  /\ ErrorsAreOwed /\ ErrorIsFlagged
  /\ FailuresAreKnown /\ RunKnowsFailures

RowsParts == RowsOnTheirWay /\ RowsIndexed

RowsInv == Source("kusto") => RowsKnown /\ RowsParts

(* Rows that are indexed stay indexed.                                     *)
LEMMA CoverageStays ==
  ASSUME UNCHANGED world, docs \subseteq docs'
  PROVE  /\ \A p \in Paths : \A time : CoveredUpTo(p, time) => CoveredUpTo(p, time)'
         /\ \A p \in Paths : Readable(p)' = Readable(p)
         /\ Latest' = Latest /\ Now' = Now /\ reachable' = reachable
<1>1. \A p \in Paths : Readable(p)' = Readable(p) BY ReadableIsStable DEF world
<1>2. Latest' = Latest /\ Now' = Now /\ reachable' = reachable
  BY DEF world, Latest, Now
<1>3. ASSUME NEW p \in Paths, NEW time, CoveredUpTo(p, time)
      PROVE  CoveredUpTo(p, time)'
  BY <1>1, <1>2, <1>3 DEF CoveredUpTo, Doc
<1> QED BY <1>1, <1>2, <1>3

(* Up to now covers every row there is.                                    *)
LEMMA CoveredByNow ==
  ASSUME TypeInv, NEW p \in Paths, CoveredUpTo(p, Now), NEW time
  PROVE  CoveredUpTo(p, time)
<1>1. Latest[p] \in reachable => Latest[p] \in 1..Now BY DEF TypeInv, Bounds
<1>2. Latest[p] \in reachable => Latest[p] <= Now BY <1>1 DEF TypeInv, Bounds
<1> QED BY <1>2 DEF CoveredUpTo

(* Rows only arrive, and what arrives during a run is not reachable.       *)
LEMMA PushRows ==
  ASSUME TypeInv, Source("kusto"), RowsParts, RowsKnown, Push
  PROVE  RowsParts' /\ RowsKnown'
<1>1. /\ Now' = Now + 1 /\ Now \in Nat
      /\ \A p \in Paths : Latest'[p] \in Texts(p)
  BY PushAppends
<1>2. UNCHANGED <<scenario, docs, run, status, debt>> BY DEF Push
<1>3. \A p \in Paths : Readable(p)' = Readable(p) BY <1>2, ReadableIsStable
<1>4. \A p \in Paths : Latest'[p] = Latest[p] \/ Latest'[p] = Now + 1
  BY <1>1 DEF Texts, Source
<1>5. reachable \subseteq 1..Now /\ status.stamp \in 0..Now
  BY DEF TypeInv, Bounds
<1>6. /\ reachable' \subseteq reachable \cup {Now + 1}
      /\ run.pc \notin {"idle", "begin", "setup"} => reachable' = reachable
  <2>1. reachable' \in Arrivals BY DEF Push
  <2>2. CASE run.pc \notin {"idle", "begin", "setup"} BY <2>1, <2>2 DEF Arrivals
  <2>3. CASE run.pc \in {"idle", "begin", "setup"}
    <3>1. reachable' = reachable \cup {Now + 1} \/ reachable' = {Now + 1}
      BY <2>1, <2>3 DEF Arrivals
    <3> QED BY <2>3, <3>1
  <2> QED BY <2>2, <2>3
<1>7. ASSUME NEW p \in Paths, NEW time \in 0..Now, CoveredUpTo(p, time)
      PROVE  CoveredUpTo(p, time)'
  <2>1. Latest[p] \in Nat BY LatestIsText
  <2> SUFFICES ASSUME Readable(p), Latest'[p] \in reachable', Latest'[p] <= time
               PROVE  Doc(p, Latest'[p]) \in docs
    BY <1>2, <1>3 DEF CoveredUpTo, Doc
  <2>2. Latest'[p] = Latest[p] BY <1>1, <1>4, <1>7
  <2>3. Latest[p] \in reachable BY <1>1, <1>6, <1>7, <2>1, <2>2
  <2> QED BY <1>7, <2>2, <2>3 DEF CoveredUpTo
<1>8. ASSUME run.pc \notin {"idle", "begin", "setup"}, NEW p \in Paths, Latest'[p] \in reachable'
      PROVE  Latest'[p] = Latest[p] /\ Latest[p] \in reachable /\ Latest[p] <= Now
  <2>1. reachable' = reachable BY <1>6, <1>8
  <2>2. Latest'[p] \in 1..Now BY <1>5, <1>8, <2>1
  <2>3. Latest'[p] # Now + 1 /\ Latest'[p] <= Now BY <1>1, <2>2
  <2> QED BY <1>4, <1>8, <2>1, <2>3
<1>9. TimeIsCovered => TimeIsCovered' BY <1>2, <1>5, <1>7 DEF TimeIsCovered
<1>10. RowsOnTheirWay'
  <2> SUFFICES ASSUME At("index"), ~MissesRows, NEW p \in Paths,
                      Readable(p), Latest'[p] \in reachable'
               PROVE  \/ Doc(p, Latest'[p]) \in docs \cup run.create
                      \/ \E item \in run.todo : item.path = p
    BY <1>2, <1>3 DEF RowsOnTheirWay, MissesRows, ErrorForgotten, At, Doc
  <2>1. Latest'[p] = Latest[p] /\ Latest[p] \in reachable BY <1>8 DEF At
  <2> QED BY <2>1 DEF RowsParts, RowsOnTheirWay
<1>11. RowsIndexed'
  <2> SUFFICES ASSUME IsThrough, ~MissesRows, NEW p \in Paths, Readable(p),
                      Latest'[p] \in reachable'
               PROVE  Doc(p, Latest'[p]) \in docs
    BY <1>2, <1>3 DEF RowsIndexed, IsThrough, MissesRows, ErrorForgotten, CoveredUpTo, Doc
  <2>1. Latest'[p] = Latest[p] /\ Latest[p] \in reachable /\ Latest[p] <= Now
    BY <1>8 DEF IsThrough
  <2> QED BY <2>1 DEF RowsParts, RowsIndexed, CoveredUpTo
<1>12. RowsKnown'
  BY <1>2, <1>9 DEF RowsKnown, ErrorsAreOwed, ErrorIsFlagged, FailuresAreKnown,
                    RunKnowsFailures, ErrorForgotten, At
<1> QED BY <1>10, <1>11, <1>12 DEF RowsParts

(* A step of a run before its status updates keeps what is known.          *)
LEMMA KnownStays ==
  ASSUME RowsKnown, UNCHANGED <<world, status>>, docs \subseteq docs',
         run.pc \in {"idle", "begin", "setup", "index", "base"},
         run'.pc \notin {"flag", "complete"} \/ (run'.pc = "flag" /\ run'.errors = run.errors),
         run'.pc \in {"begin", "setup"} =>
           \/ run.pc \in {"begin", "setup"} /\ run'.recover = run.recover
           \/ run.pc = "idle" /\ run'.recover = status.error,
         ErrorForgotten => ErrorForgotten', debt = "owed" => debt' = "owed",
         run'.errors => debt' # "none"
  PROVE  RowsKnown'
<1>1. TimeIsCovered => TimeIsCovered' BY CoverageStays DEF TimeIsCovered
<1>2. ErrorsAreOwed' BY DEF ErrorsAreOwed
<1>3. ErrorIsFlagged' BY DEF ErrorIsFlagged, At
<1>4. FailuresAreKnown' BY <1>1 DEF RowsKnown, FailuresAreKnown, At
<1>5. RunKnowsFailures'
  BY <1>1 DEF RowsKnown, FailuresAreKnown, RunKnowsFailures, At
<1> QED BY <1>2, <1>3, <1>4, <1>5 DEF RowsKnown

(* What is owed or forgotten stays so when a query or a batch fails.       *)
LEMMA OwingKeeps ==
  ASSUME debt' = debt \/ debt' = Owing
  PROVE  /\ ErrorForgotten => ErrorForgotten'
         /\ debt = "owed" => debt' = "owed"
         /\ debt # "none" => debt' # "none"
BY DEF Owing, ErrorForgotten

(* What is missing is to be queried again.                                 *)
LEMMA QueryRows ==
  ASSUME TypeInv, RowsKnown, RowsParts, RunQuery
  PROVE  RowsKnown' /\ RowsParts'
<1>1. /\ run \in Runs /\ UNCHANGED <<world, docs, status, copy, debt>> /\ At("setup")
  BY DEF TypeInv, TypeOK, RunQuery
<1>2. /\ \A p \in Paths : Readable(p)' = Readable(p)
      /\ Latest' = Latest /\ Now' = Now /\ reachable' = reachable
  BY <1>1, CoverageStays
<1>3. PICK time \in Checkpoints : run' = Query(time) BY DEF RunQuery
<1> DEFINE after == IF Initial(time) THEN 0 ELSE time
<1>4. /\ run'.pc = "index" /\ run'.errors = run.errors
      /\ run'.mode = IF Initial(time) THEN "full" ELSE "diff"
      /\ run'.todo = {Item("A", p, p) : p \in Rows(after)}
  BY <1>1, <1>3 DEF Query, Runs
<1>5. ASSUME ~MissesRows', NEW p \in Paths, Readable(p), Latest[p] \in reachable
      PROVE  Doc(p, Latest[p]) \in docs \/ \E item \in run'.todo : item.path = p
  <2>1. Latest[p] \in Nat /\ Latest[p] # 0 /\ time \in Nat
    BY <1>5, LatestIsText DEF TypeInv, Bounds, Checkpoints
  <2>2. CASE Latest[p] > after
    <3>1. Item("A", p, p) \in run'.todo BY <1>4, <2>2 DEF Rows
    <3> QED BY <3>1 DEF Item
  <2>3. CASE ~(Latest[p] > after)
    <3>1. ~Initial(time) /\ Latest[p] <= time BY <2>1, <2>3
    <3>2. time = status.stamp /\ ~run.recover
      BY <3>1 DEF Initial, Checkpoints
    <3>3. ~ErrorForgotten
      BY <1>1, <1>4, <1>5, <3>1 DEF MissesRows, ErrorForgotten
    <3>4. TimeIsCovered
      BY <1>1, <3>2, <3>3 DEF RowsKnown, RunKnowsFailures, At
    <3> QED BY <1>5, <3>1, <3>2, <3>4 DEF TimeIsCovered, CoveredUpTo
  <2> QED BY <2>2, <2>3
<1>6. RowsOnTheirWay'
  BY <1>1, <1>2, <1>5 DEF RowsOnTheirWay, Doc
<1>7. RowsIndexed' BY <1>4 DEF RowsIndexed, IsThrough
<1>8. RowsKnown'
  BY <1>1, <1>4, KnownStays DEF RowsKnown, ErrorsAreOwed, ErrorForgotten, At
<1> QED BY <1>6, <1>7, <1>8 DEF RowsParts

(* With nothing left to format or to send every row is indexed, and a run  *)
(* without errors has paid what the status asked for.                      *)
LEMMA DoneRows ==
  ASSUME TypeInv, RowsKnown, RowsParts, RowsDone
  PROVE  RowsKnown' /\ RowsParts'
<1>1. /\ run \in Runs /\ UNCHANGED <<world, docs, status, copy>> /\ At("index")
      /\ debt' = Paid
  BY DEF TypeInv, TypeOK, RowsDone
<1>2. run'.pc = "base" /\ run'.errors = run.errors /\ run'.mode = run.mode
  BY <1>1, LeftIsRun DEF RowsDone
<1>3. ~MissesRows => \A p \in Paths : CoveredUpTo(p, Now)
  <2>1. docs \cup run.create = docs /\ run.todo = {} BY DEF RowsDone
  <2> QED BY <1>1, <2>1 DEF RowsParts, RowsOnTheirWay, CoveredUpTo
<1>4. MissesRows => debt' = debt
  BY <1>1 DEF MissesRows, Paid, ErrorForgotten
<1>5. RowsOnTheirWay' BY <1>2 DEF RowsOnTheirWay, At
<1>6. RowsIndexed'
  <2>1. ~MissesRows' => ~MissesRows
    BY <1>2, <1>4 DEF MissesRows, ErrorForgotten
  <2> QED BY <1>1, <1>3, <2>1, CoverageStays DEF RowsIndexed
<1>7. CASE debt' = debt
  <2>1. RowsKnown'
    BY <1>1, <1>2, <1>7, KnownStays DEF RowsKnown, ErrorsAreOwed, ErrorForgotten, At
  <2> QED BY <1>5, <1>6, <2>1 DEF RowsParts
<1>8. CASE debt' # debt
  <2>1. ~run.errors BY <1>1, <1>8 DEF Paid
  <2>2. \A p \in Paths : CoveredUpTo(p, status.stamp)
    BY <1>3, <1>4, <1>8, CoveredByNow
  <2>3. TimeIsCovered' BY <1>1, <2>2, CoverageStays DEF TimeIsCovered
  <2>4. RowsKnown'
    BY <1>2, <2>1, <2>3 DEF RowsKnown, ErrorsAreOwed, ErrorIsFlagged, FailuresAreKnown,
                            RunKnowsFailures, At
  <2> QED BY <1>5, <1>6, <2>4 DEF RowsParts
<1> QED BY <1>7, <1>8

(* The steps of KustoDataSourceHandler.                                    *)
LEMMA KustoRows ==
  ASSUME TypeInv, RowsKnown, RowsParts, KustoNext
  PROVE  RowsKnown' /\ RowsParts'
<1>1. /\ run \in Runs /\ UNCHANGED <<world, status, copy>> /\ docs \subseteq docs'
      /\ run.pc \in {"setup", "index"}
  BY DEF TypeInv, TypeOK, KustoNext, RunQuery, RunQueryFails, FormatRow, IndexRows,
         RowsDone, At
<1>2. /\ \A p \in Paths : Readable(p)' = Readable(p)
      /\ Latest' = Latest /\ Now' = Now /\ reachable' = reachable
  BY <1>1, CoverageStays
<1>3. run.errors => debt # "none" BY DEF RowsKnown, ErrorsAreOwed
<1>4. CASE RunQuery BY <1>4, QueryRows
<1>5. CASE RunQueryFails
  <2>1. run'.pc = "base" /\ run'.errors /\ debt' = Owing
    <3>1. [run EXCEPT !.errors = TRUE] \in Runs BY <1>1 DEF Runs
    <3>2. [run EXCEPT !.errors = TRUE].errors BY <1>1 DEF Runs
    <3> QED BY <1>5, <3>1, <3>2, LeftIsRun DEF RunQueryFails
  <2>2. debt' # "none" BY <2>1 DEF Owing
  <2>3. RowsKnown' BY <1>1, <2>1, <2>2, OwingKeeps, KnownStays
  <2> QED BY <2>1, <2>3 DEF RowsParts, RowsOnTheirWay, RowsIndexed, MissesRows, At
<1>6. CASE FormatRow
  <2>1. PICK item \in run.todo :
          run' = [run EXCEPT !.todo = @ \ {item},
                    !.create = @ \cup (IF Readable(item.path)
                                       THEN {Doc(item.path, Latest[item.path])} ELSE {})]
    BY <1>6 DEF FormatRow
  <2>2. /\ run'.pc = "index" /\ run'.errors = run.errors /\ run'.mode = run.mode
        /\ run'.todo = run.todo \ {item} /\ debt' = debt
        /\ run'.create = run.create \cup (IF Readable(item.path)
                                       THEN {Doc(item.path, Latest[item.path])} ELSE {})
    BY <1>1, <1>6, <2>1 DEF FormatRow, At, Runs
  <2>3. ~MissesRows' => ~MissesRows BY <2>2 DEF MissesRows, ErrorForgotten
  <2>4. ASSUME ~MissesRows, NEW p \in Paths, Readable(p), Latest[p] \in reachable
        PROVE  \/ Doc(p, Latest[p]) \in docs \cup run'.create
               \/ \E i \in run'.todo : i.path = p
    BY <1>6, <2>2, <2>4 DEF RowsParts, RowsOnTheirWay, FormatRow
  <2>5. RowsOnTheirWay'
    BY <1>1, <1>2, <1>6, <2>2, <2>3, <2>4 DEF RowsOnTheirWay, FormatRow, Doc
  <2>6. RowsIndexed' BY <2>2 DEF RowsIndexed, IsThrough
  <2>7. RowsKnown' BY <1>1, <1>3, <2>2, OwingKeeps, KnownStays
  <2> QED BY <2>5, <2>6, <2>7 DEF RowsParts
<1>7. CASE IndexRows
  <2>1. PICK ok \in Outcomes :
          /\ \E applied \in Applied(run.create, ok) : docs' = docs \cup applied
          /\ run' = IF ok THEN [run EXCEPT !.create = {}]
                    ELSE Failed([run EXCEPT !.create = {}])
          /\ debt' = IF ok THEN debt ELSE Owing
    BY <1>7 DEF IndexRows
  <2>2. /\ run'.pc = "index" /\ run'.todo = run.todo /\ run'.mode = run.mode
        /\ run'.errors => run.errors \/ ~ok
        /\ ~run'.errors => ok /\ ~run.errors
        /\ run'.create = {}
    <3>1. run.pc = "index" BY <1>7 DEF IndexRows, At
    <3>2. CASE ok
      <4>1. run' = [run EXCEPT !.create = {}] BY <2>1, <3>2
      <4>2. /\ run'.pc = "index" /\ run'.todo = run.todo /\ run'.mode = run.mode
            /\ run'.errors = run.errors /\ run'.create = {}
        BY <1>1, <3>1, <4>1 DEF Runs
      <4> QED BY <3>2, <4>2
    <3>3. CASE ~ok
      <4>1. run' = Failed([run EXCEPT !.create = {}]) BY <2>1, <3>3
      <4>2. /\ run'.pc = "index" /\ run'.todo = run.todo /\ run'.mode = run.mode
            /\ run'.errors /\ run'.create = {}
        BY <1>1, <3>1, <4>1 DEF Runs, Failed
      <4> QED BY <3>3, <4>2
    <3> QED BY <2>1, <3>2, <3>3
  <2>3. ok => docs' = docs \cup run.create BY <2>1 DEF Applied
  <2>4. debt' = debt \/ debt' = Owing BY <2>1
  <2>5. ~MissesRows' => ok /\ ~MissesRows
    BY <2>2, <2>4, OwingKeeps DEF MissesRows
  <2>6. RowsOnTheirWay'
    BY <1>1, <1>2, <1>7, <2>2, <2>3, <2>5
    DEF RowsParts, RowsOnTheirWay, IndexRows, At, Doc
  <2>7. RowsIndexed' BY <2>2 DEF RowsIndexed, IsThrough
  <2>8. run'.errors => debt' # "none" BY <1>3, <2>1, <2>2, <2>4, OwingKeeps DEF Owing
  <2>9. RowsKnown' BY <1>1, <2>2, <2>4, <2>8, OwingKeeps, KnownStays
  <2> QED BY <2>6, <2>7, <2>9 DEF RowsParts
<1>8. CASE RowsDone BY <1>8, DoneRows
<1> QED BY <1>4, <1>5, <1>6, <1>7, <1>8 DEF KustoNext


(* A run that is through and lacks nothing covers the time of its update.  *)
LEMMA TimeMoves ==
  ASSUME TypeInv, RowsParts, UNCHANGED <<world, docs>>, IsThrough,
         ~run.errors, ~ErrorForgotten, status'.stamp = Now
  PROVE  TimeIsCovered'
<1>1. \A p \in Paths : CoveredUpTo(p, Now)
  BY DEF RowsParts, RowsIndexed, MissesRows
<1>2. /\ \A p \in Paths : Readable(p)' = Readable(p)
      /\ Latest' = Latest /\ Now' = Now /\ reachable' = reachable
  BY CoverageStays
<1> QED BY <1>1, <1>2 DEF TimeIsCovered, CoveredUpTo, Doc

(* An update that leaves the time alone leaves alone what it covers.       *)
LEMMA TimeStays ==
  ASSUME TimeIsCovered, UNCHANGED <<world, docs>>, status'.stamp = status.stamp
  PROVE  TimeIsCovered'
<1>1. /\ \A p \in Paths : Readable(p)' = Readable(p)
      /\ Latest' = Latest /\ Now' = Now /\ reachable' = reachable
  BY CoverageStays
<1> QED BY <1>1 DEF TimeIsCovered, CoveredUpTo, Doc

(* What a run has sent stays sent while its status is updated.             *)
LEMMA PartsStay ==
  ASSUME RowsParts, UNCHANGED <<world, docs>>, ~(run'.pc = "index"),
         run'.pc \in {"base", "report", "flag", "complete"} =>
           IsThrough /\ run'.errors = run.errors /\ run'.mode = run.mode,
         ErrorForgotten => ErrorForgotten'
  PROVE  RowsParts'
<1>1. /\ \A p \in Paths : Readable(p)' = Readable(p)
      /\ Latest' = Latest /\ Now' = Now /\ reachable' = reachable
  BY CoverageStays
<1>2. RowsOnTheirWay' BY DEF RowsOnTheirWay, At
<1>3. RowsIndexed'
  <2> SUFFICES ASSUME IsThrough', ~MissesRows'
               PROVE  \A p \in Paths : CoveredUpTo(p, Now)'
    BY DEF RowsIndexed
  <2>1. IsThrough /\ ~MissesRows BY DEF IsThrough, MissesRows
  <2>2. \A p \in Paths : CoveredUpTo(p, Now) BY <2>1 DEF RowsParts, RowsIndexed
  <2> QED BY <1>1, <2>2 DEF CoveredUpTo, Doc
<1> QED BY <1>2, <1>3 DEF RowsParts

(* The updates of the status: the report has the time and may be wrong     *)
(* about the errors, the flag sets them right, the last one has the time   *)
(* of its own.                                                             *)
LEMMA PatchRows ==
  ASSUME TypeInv, Source("kusto"), RowsKnown, RowsParts, PatchStatus
  PROVE  RowsKnown' /\ RowsParts'
<1>1. /\ run \in Runs /\ status \in Statuses /\ debt \in Debts
      /\ UNCHANGED <<world, docs, debt>> /\ docs \subseteq docs'
      /\ status' = Written /\ run' = Onward(run)
      /\ run.pc \in {"begin", "report", "flag", "complete"}
  BY DEF TypeInv, TypeOK, PatchStatus, Updating
<1>2. run.errors => debt = "owed" \/ debt = "forgotten"
  BY <1>1 DEF RowsKnown, ErrorsAreOwed, Debts
<1>3. Time = Now BY DEF Time, Source
<1>4. ErrorsAreOwed'
  <2>1. run'.errors => run.errors
    BY <1>1 DEF Onward, NoRun, Runs
  <2> QED BY <1>1, <2>1 DEF RowsKnown, ErrorsAreOwed
<1>5. CASE At("begin")
  <2>1. status' = status BY <1>1, <1>5 DEF Written, At
  <2>2. run'.pc = "setup" /\ run'.errors = run.errors /\ run'.recover = run.recover
    BY <1>1, <1>5 DEF Onward, After, At, Runs
  <2>3. RowsKnown'
    BY <1>1, <1>5, <2>1, <2>2, KnownStays DEF RowsKnown, ErrorsAreOwed, ErrorForgotten, At
  <2>4. RowsParts' BY <1>1, <2>2, PartsStay DEF ErrorForgotten
  <2> QED BY <2>3, <2>4
<1>6. CASE At("report")
  <2>1. /\ run'.pc = "flag" /\ run'.errors = run.errors /\ run'.mode = run.mode
        /\ status'.stamp = Now
    <3>1. status' = Reported BY <1>1, <1>6 DEF Written, At
    <3>2. status'.stamp = Time BY <1>1, <3>1 DEF Reported, Statuses
    <3> QED BY <1>1, <1>3, <1>6, <3>2 DEF Onward, After, At, Runs
  <2>2. RowsParts' BY <1>1, <1>6, <2>1, PartsStay DEF ErrorForgotten, IsThrough, At
  <2>3. FailuresAreKnown'
    <3>1. CASE ErrorForgotten BY <1>1, <3>1 DEF FailuresAreKnown, ErrorForgotten
    <3>2. CASE run.errors /\ ~ErrorForgotten
      BY <1>1, <1>2, <2>1, <3>2 DEF FailuresAreKnown, ErrorForgotten, At
    <3>3. CASE ~run.errors /\ ~ErrorForgotten
      <4>1. TimeIsCovered' BY <1>1, <1>6, <2>1, <3>3, TimeMoves DEF IsThrough, At
      <4> QED BY <4>1 DEF FailuresAreKnown
    <3> QED BY <3>1, <3>2, <3>3
  <2>4. RowsKnown' BY <1>4, <2>1, <2>3 DEF RowsKnown, ErrorIsFlagged, RunKnowsFailures, At
  <2> QED BY <2>2, <2>4
<1>7. CASE At("flag")
  <2>1. /\ run'.pc = "complete" /\ run'.errors = run.errors /\ run'.mode = run.mode
    BY <1>1, <1>7 DEF Onward, After, At, Runs
  <2>2. /\ status'.stamp = status.stamp /\ (status.error => status'.error)
        /\ (run.errors => status'.error)
    <3>1. status' = IF run.errors THEN [status EXCEPT !.error = TRUE] ELSE status
      BY <1>1, <1>7 DEF Written, At
    <3> QED BY <1>1, <3>1 DEF Statuses
  <2>3. RowsParts' BY <1>1, <1>7, <2>1, PartsStay DEF ErrorForgotten, IsThrough, At
  <2>4. ErrorIsFlagged' BY <1>1, <1>2, <2>1, <2>2 DEF ErrorIsFlagged, ErrorForgotten, At
  <2>5. TimeIsCovered => TimeIsCovered' BY <1>1, <2>2, TimeStays
  <2>6. FailuresAreKnown'
    BY <1>1, <2>2, <2>5 DEF RowsKnown, FailuresAreKnown, ErrorForgotten
  <2>7. RowsKnown' BY <1>4, <2>1, <2>4, <2>6 DEF RowsKnown, RunKnowsFailures
  <2> QED BY <2>3, <2>7
<1>8. CASE At("complete")
  <2>1. run' = NoRun BY <1>1, <1>8 DEF Onward, At
  <2>2. run'.pc = "idle" /\ ~run'.errors BY <2>1 DEF NoRun
  <2>3. status'.stamp = Now /\ status'.error = status.error
    <3>1. status' = [status EXCEPT !.stamp = Time] BY <1>1, <1>8 DEF Written, At
    <3> QED BY <1>1, <1>3, <3>1 DEF Statuses
  <2>4. RowsParts' BY <1>1, <2>2, PartsStay DEF ErrorForgotten
  <2>5. FailuresAreKnown'
    <3>1. CASE ErrorForgotten BY <1>1, <3>1 DEF FailuresAreKnown, ErrorForgotten
    <3>2. CASE run.errors /\ ~ErrorForgotten
      BY <1>1, <1>8, <2>3, <3>2 DEF RowsKnown, ErrorIsFlagged, FailuresAreKnown, ErrorForgotten
    <3>3. CASE ~run.errors /\ ~ErrorForgotten
      <4>1. TimeIsCovered' BY <1>1, <1>8, <2>3, <3>3, TimeMoves DEF IsThrough, At
      <4> QED BY <4>1 DEF FailuresAreKnown
    <3> QED BY <3>1, <3>2, <3>3
  <2>6. RowsKnown'
    BY <1>4, <2>2, <2>5 DEF RowsKnown, ErrorIsFlagged, RunKnowsFailures, At
  <2> QED BY <2>4, <2>6
<1> QED BY <1>1, <1>5, <1>6, <1>7, <1>8 DEF At

(* A lost update or a run that is killed loses the error before the flag,  *)
(* and that is what forgotten says.                                        *)
LEMMA LostRows ==
  ASSUME TypeInv, Source("kusto"), RowsKnown, RowsParts,
         UNCHANGED <<world, docs, status>>,
         debt' = IF ErrorsUntold THEN Forgotten ELSE debt,
         \/ Updating /\ run' = Onward(run)
         \/ run' = NoRun
  PROVE  RowsKnown' /\ RowsParts'
<1>1. run \in Runs /\ status \in Statuses /\ debt \in Debts
  BY DEF TypeInv, TypeOK
<1>2. run.errors => debt = "owed" \/ debt = "forgotten"
  BY <1>1 DEF RowsKnown, ErrorsAreOwed, Debts
<1>3. /\ ErrorForgotten => ErrorForgotten'
      /\ ErrorsUntold => ErrorForgotten'
      /\ ~ErrorsUntold => debt' = debt
      /\ debt # "none" => debt' # "none"
  BY <1>2 DEF Forgotten, ErrorForgotten, ErrorsUntold
<1>4. /\ run'.pc \notin {"index", "base", "begin"}
      /\ run'.pc = "setup" => At("begin")
      /\ run'.pc \in {"report", "flag", "complete"} =>
           IsThrough /\ run'.errors = run.errors /\ run'.mode = run.mode
      /\ run'.pc = "setup" => run'.recover = run.recover
      /\ run'.errors => run.errors
      /\ run'.pc = "flag" => At("report")
      /\ run'.pc = "complete" => At("flag")
  BY <1>1 DEF Updating, Onward, After, NoRun, Runs, At, IsThrough
<1>5. RowsParts' BY <1>3, <1>4, PartsStay
<1>6. TimeIsCovered => TimeIsCovered' BY TimeStays
<1>7. ErrorsAreOwed' BY <1>3, <1>4 DEF RowsKnown, ErrorsAreOwed
<1>8. ErrorIsFlagged'
  <2> SUFFICES ASSUME At("complete")', run'.errors, ~ErrorForgotten'
               PROVE  debt' = "owed" /\ status'.error
    BY DEF ErrorIsFlagged
  <2>1. At("flag") /\ run.errors /\ ~ErrorsUntold /\ debt' = debt
    BY <1>3, <1>4 DEF At
  <2> QED BY <1>2, <1>3, <2>1 DEF ErrorsUntold, ErrorForgotten
<1>9. FailuresAreKnown'
  <2>1. CASE ErrorsUntold \/ ErrorForgotten BY <1>3, <2>1 DEF FailuresAreKnown
  <2>2. CASE ~ErrorsUntold /\ ~ErrorForgotten
    <3>1. TimeIsCovered \/ (debt = "owed" /\ (status.error \/ (At("flag") /\ run.errors)))
      BY <2>2 DEF RowsKnown, FailuresAreKnown
    <3>2. CASE TimeIsCovered BY <1>6, <3>2 DEF FailuresAreKnown
    <3>3. CASE debt = "owed" /\ (status.error \/ (At("flag") /\ run.errors))
      BY <1>3, <2>2, <3>3 DEF FailuresAreKnown, ErrorsUntold
    <3> QED BY <3>1, <3>2, <3>3
  <2> QED BY <2>1, <2>2
<1>10. RunKnowsFailures'
  BY <1>3, <1>4, <1>6 DEF RowsKnown, RunKnowsFailures, At
<1> QED BY <1>5, <1>7, <1>8, <1>9, <1>10 DEF RowsKnown

(* The controller clears an error that is owed, which is forgotten.        *)
LEMMA ControllerRows ==
  ASSUME TypeInv, Source("kusto"), RowsKnown, RowsParts, ControllerWrites
  PROVE  RowsKnown' /\ RowsParts'
<1>1. run \in Runs /\ status \in Statuses /\ debt \in Debts
  BY DEF TypeInv, TypeOK
<1>2. PICK error \in BOOLEAN :
        /\ status' = [status EXCEPT !.error = error]
        /\ debt' = IF status.error /\ ~error THEN Forgotten ELSE debt
  BY DEF ControllerWrites
<1>3. UNCHANGED <<world, docs, run>> BY DEF ControllerWrites
<1>4. status'.stamp = status.stamp /\ status'.error = error
  BY <1>1, <1>2 DEF Statuses
<1>5. /\ ErrorForgotten => ErrorForgotten'
      /\ debt # "none" => debt' # "none"
      /\ debt = "owed" /\ status.error => ErrorForgotten' \/ (debt' = "owed" /\ status'.error)
      /\ debt = "owed" => ErrorForgotten' \/ debt' = "owed"
  BY <1>2, <1>4 DEF Forgotten, ErrorForgotten
<1>6. RowsParts'
  <2>1. RowsOnTheirWay' \/ At("index") BY <1>3 DEF RowsOnTheirWay, At
  <2>2. MissesRows => MissesRows' BY <1>3, <1>5 DEF MissesRows
  <2>3. /\ \A p \in Paths : Readable(p)' = Readable(p)
        /\ Latest' = Latest /\ Now' = Now /\ reachable' = reachable
    BY <1>3, CoverageStays
  <2>4. RowsOnTheirWay'
    BY <1>3, <2>2, <2>3 DEF RowsParts, RowsOnTheirWay, At, Doc
  <2>5. RowsIndexed'
    BY <1>3, <2>2, <2>3 DEF RowsParts, RowsIndexed, IsThrough, CoveredUpTo, Doc
  <2> QED BY <2>4, <2>5 DEF RowsParts
<1>7. TimeIsCovered => TimeIsCovered' BY <1>3, <1>4, TimeStays
<1>8. ErrorsAreOwed' /\ ErrorIsFlagged'
  BY <1>3, <1>5 DEF RowsKnown, ErrorsAreOwed, ErrorIsFlagged, At
<1>9. FailuresAreKnown'
  BY <1>3, <1>5, <1>7 DEF RowsKnown, FailuresAreKnown, At
<1>10. RunKnowsFailures'
  BY <1>3, <1>5, <1>7 DEF RowsKnown, RunKnowsFailures
<1> QED BY <1>6, <1>8, <1>9, <1>10 DEF RowsKnown

(* Every step of a run over the rows, and of what surrounds it.            *)
LEMMA NextRows ==
  ASSUME TypeInv, RowsInv, [Next]_vars
  PROVE  RowsInv'
<1> SUFFICES ASSUME Source("kusto")'
             PROVE  RowsKnown' /\ RowsParts'
  BY DEF RowsInv
<1>1. scenario' = scenario
  BY DEF Next, RunStep, Start, GitNext, SetupRepository, SetupRepositoryFails, ProcessFile,
      IndexBatch, UpdateBatch, DeleteBatch, FilesDone, StaticNext, SetupURLs, FetchURL,
      FetchURLFails, IndexURLs, URLsDone, KustoNext, RunQuery, RunQueryFails, FormatRow,
      IndexRows, RowsDone, GetStatus, PatchStatus, UpdateLost, ReadConditions,
      ReadConditionsFails, Killed, ControllerWrites, Push, vars, world
<1>2. Source("kusto") BY <1>1 DEF Source
<1>3. RowsKnown /\ RowsParts BY <1>2 DEF RowsInv
<1>4. CASE UNCHANGED vars
  BY <1>3, <1>4 DEF vars, RowsKnown, RowsParts, ErrorsAreOwed, ErrorIsFlagged,
    FailuresAreKnown, RunKnowsFailures, RowsOnTheirWay, RowsIndexed, MissesRows,
    IsThrough, TimeIsCovered, CoveredUpTo, ErrorForgotten, At, Doc, Readable, Content,
    Source, Fact, Now, Latest
<1>5. CASE Start
  <2>1. /\ run' = [NoRun EXCEPT !.pc = "begin", !.from = status.commit,
                              !.recover = status.error]
        /\ UNCHANGED <<world, docs, status, debt>> /\ At("idle")
    BY <1>5 DEF Start
  <2>2. run'.pc = "begin" /\ ~run'.errors /\ run'.recover = status.error
    BY <2>1 DEF NoRun
  <2>3. RowsKnown' BY <1>3, <2>1, <2>2, KnownStays DEF ErrorForgotten, At
  <2>4. RowsParts' BY <1>3, <2>1, <2>2, PartsStay DEF ErrorForgotten
  <2> QED BY <2>3, <2>4
<1>6. CASE KustoNext BY <1>3, <1>6, KustoRows
<1>7. CASE GetStatus
  <2>1. UNCHANGED <<world, docs, status, run, debt>> BY <1>7 DEF GetStatus
  <2> QED BY <1>3, <2>1 DEF RowsKnown, RowsParts, ErrorsAreOwed, ErrorIsFlagged,
    FailuresAreKnown, RunKnowsFailures, RowsOnTheirWay, RowsIndexed, MissesRows,
    IsThrough, TimeIsCovered, CoveredUpTo, ErrorForgotten, At, Doc, Readable, Content,
    Source, Fact, Now, Latest, world
<1>8. CASE PatchStatus BY <1>2, <1>3, <1>8, PatchRows
<1>9. CASE UpdateLost BY <1>2, <1>3, <1>9, LostRows DEF UpdateLost
<1>10. CASE ReadConditions \/ ReadConditionsFails
  <2>1. /\ UNCHANGED <<world, docs, status, debt>> /\ At("base") /\ run \in Runs
        /\ run' = Onward(run) \/ run' = [run EXCEPT !.pc = "flag"]
    BY <1>10 DEF ReadConditions, ReadConditionsFails, TypeInv, TypeOK
  <2>2. /\ run'.pc \in {"report", "flag"} /\ run'.errors = run.errors
        /\ run'.mode = run.mode
    BY <2>1 DEF Onward, After, At, Runs
  <2>3. RowsKnown'
    BY <1>3, <2>1, <2>2, KnownStays DEF RowsKnown, ErrorsAreOwed, ErrorForgotten, At
  <2>4. RowsParts' BY <1>3, <2>1, <2>2, PartsStay DEF ErrorForgotten, IsThrough, At
  <2> QED BY <2>3, <2>4
<1>11. CASE Push BY <1>2, <1>3, <1>11, PushRows
<1>12. CASE Killed BY <1>2, <1>3, <1>12, LostRows DEF Killed
<1>13. CASE ControllerWrites BY <1>2, <1>3, <1>13, ControllerRows
<1>14. ~GitNext /\ ~StaticNext
  BY <1>2 DEF GitNext, SetupRepository, SetupRepositoryFails, ProcessFile, IndexBatch,
      UpdateBatch, DeleteBatch, FilesDone, Indexing, StaticNext, SetupURLs,
      FetchURL, FetchURLFails, Fetching, IndexURLs, URLsDone, Source
<1> QED
  BY <1>4, <1>5, <1>6, <1>7, <1>8, <1>9, <1>10, <1>11, <1>12, <1>13, <1>14
  DEF Next, RunStep

-----------------------------------------------------------------------------
(* The rows of a query are on their way to the index until they are there, *)
(* and when some are missing the status knows of the run that failed       *)
(* (update_index of the handler, update_autoindexer_status), or has        *)
(* forgotten it.                                                           *)
THEOREM RowsInvariant == Spec => []RowsInv
<1>1. Init => RowsInv
  <2> SUFFICES ASSUME Init PROVE RowsInv OBVIOUS
  <2>1. /\ run.pc = "idle" /\ ~run.errors /\ status.stamp = 0 /\ reachable = {1}
    BY DEF Init, NoRun
  <2>2. TimeIsCovered BY <2>1 DEF TimeIsCovered, CoveredUpTo
  <2> QED BY <2>1, <2>2 DEF RowsInv, RowsKnown, RowsParts, ErrorsAreOwed, ErrorIsFlagged,
    FailuresAreKnown, RunKnowsFailures, RowsOnTheirWay, RowsIndexed, IsThrough, At
<1>2. TypeInv /\ RowsInv /\ [Next]_vars => RowsInv' BY NextRows
<1> QED BY <1>1, <1>2, TypeInvariant, PTL DEF Spec

(* Between two runs every row that arrived by the time in the status is    *)
(* indexed, or the status has the error of the run that failed, or has     *)
(* lost it (KustoDataSourceHandler.get_query, _get_last_indexing_          *)
(* timestamp), whatever failed, was killed, was lost or was overwritten.   *)
THEOREM StampsCoverRows == Spec => []StampCoversRows
<1>1. TypeInv /\ RowsInv => StampCoversRows
  <2> SUFFICES ASSUME TypeInv, RowsInv, Source("kusto"), At("idle"),
                      ~status.error, ~ErrorForgotten
               PROVE  TimeIsCovered
    BY DEF StampCoversRows, TimeIsCovered, CoveredUpTo
  <2> QED BY DEF RowsInv, RowsKnown, FailuresAreKnown, At
<1> QED BY <1>1, RowsInvariant, TypeInvariant, PTL
-----------------------------------------------------------------------------
(* Whatever the text handler may try a file with.                          *)
Encodings ==
  {"utf-8", "utf-8-sig", "latin1", "cp1252", "iso-8859-1"} \cup Charsets \cup Guesses

(* A set of naturals has a least element, from the well-foundedness of <.  *)
LEMMA LeastElement ==
  ASSUME NEW S, S \subseteq Nat, S # {}
  PROVE  \E n \in S : \A m \in S : n <= m
<1> DEFINE R == {pair \in Nat \X Nat : pair[1] < pair[2]}
<1>1. \A x, y \in Nat : <<y, x>> \in R <=> y < x
  OBVIOUS
<1>2. IsWellFoundedOn(R, Nat)
  BY NatLessThanWellFounded DEF OpToRel
<1> HIDE DEF R
<1>3. PICK n \in S : \A m \in S : ~(<<m, n>> \in R)
  BY <1>2, WFMin
<1>4. ASSUME NEW m \in S
      PROVE  n <= m
  <2>1. m \in Nat /\ n \in Nat /\ ~(m < n)
    BY <1>1, <1>3
  <2> QED
    BY <2>1
<1> QED
  BY <1>4

(* A file as its handlers see it.                                          *)
LEMMA FileFields ==
  ASSUME NEW file \in Files
  PROVE  /\ file.charset \in Charsets /\ file.guess \in Guesses
         /\ file.pages \in Seq(Pages)
BY DEF Files

(* The declared encoding, and the common ones.                             *)
LEMMA ListedEncodings ==
  ASSUME NEW file \in Files, NEW listed, listed = Declared(file) \o CommonEncodings
  PROVE  /\ listed \in Seq(Encodings)
         /\ \/ Len(listed) = 5 /\ listed[3] = "latin1"
            \/ Len(listed) = 6 /\ listed[4] = "latin1"
         /\ file.charset = "" => listed[1] = "utf-8"
<1>1. /\ CommonEncodings \in Seq(Encodings) /\ Len(CommonEncodings) = 5
      /\ CommonEncodings[1] = "utf-8" /\ CommonEncodings[3] = "latin1"
  BY DEF CommonEncodings, Encodings
<1>2. CASE file.charset = ""
  <2>1. listed = CommonEncodings
    BY <1>1, <1>2, ConcatEmptySeq DEF Declared
  <2> QED BY <1>1, <1>2, <2>1
<1>3. CASE file.charset # ""
  <2>1. Declared(file) = <<file.charset>> BY <1>3 DEF Declared
  <2>2. <<file.charset>> \in Seq(Encodings) /\ Len(<<file.charset>>) = 1
    BY FileFields DEF Encodings
  <2>3. \A s \in Seq(Encodings) : Len(s) = 1 =>
          /\ s \o CommonEncodings \in Seq(Encodings)
          /\ Len(s \o CommonEncodings) = 6
          /\ (s \o CommonEncodings)[4] = "latin1"
    <3> SUFFICES ASSUME NEW s \in Seq(Encodings), Len(s) = 1
                 PROVE  /\ s \o CommonEncodings \in Seq(Encodings)
                        /\ Len(s \o CommonEncodings) = 6
                        /\ (s \o CommonEncodings)[4] = "latin1"
      OBVIOUS
    <3>1. /\ s \o CommonEncodings \in Seq(Encodings)
          /\ Len(s \o CommonEncodings) = Len(s) + Len(CommonEncodings)
          /\ \A i \in 1 .. Len(s) + Len(CommonEncodings) :
               (s \o CommonEncodings)[i] =
                  IF i <= Len(s) THEN s[i] ELSE CommonEncodings[i - Len(s)]
      BY <1>1, ConcatProperties
    <3> QED BY <1>1, <3>1
  <2> QED BY <1>3, <2>1, <2>2, <2>3
<1> QED BY <1>2, <1>3

(* The list with the guess in the second place.                            *)
LEMMA GuessIsSecond ==
  ASSUME NEW S, NEW listed \in Seq(S), NEW guess \in S, Len(listed) >= 1,
         NEW tried, tried = <<listed[1], guess>> \o Tail(listed)
  PROVE  /\ tried \in Seq(S) /\ Len(tried) = Len(listed) + 1
         /\ tried[1] = listed[1]
         /\ \A i \in 2..Len(listed) : tried[i + 1] = listed[i]
<1>1. listed # <<>> /\ listed[1] \in S /\ Len(listed) \in Nat
  BY ElementOfSeq, LenProperties
<1>2. /\ Tail(listed) \in Seq(S) /\ Len(Tail(listed)) = Len(listed) - 1
      /\ \A i \in 1..(Len(listed) - 1) : Tail(listed)[i] = listed[i + 1]
  BY <1>1, HeadTailProperties
<1>3. /\ <<listed[1], guess>> \in Seq(S) /\ Len(<<listed[1], guess>>) = 2
      /\ <<listed[1], guess>>[1] = listed[1]
  BY <1>1
<1>4. \A s \in Seq(S) : Len(s) = 2 =>
        /\ s \o Tail(listed) \in Seq(S)
        /\ Len(s \o Tail(listed)) = Len(listed) + 1
        /\ (s \o Tail(listed))[1] = s[1]
        /\ \A i \in 2..Len(listed) : (s \o Tail(listed))[i + 1] = listed[i]
  <2> SUFFICES ASSUME NEW s \in Seq(S), Len(s) = 2
               PROVE  /\ s \o Tail(listed) \in Seq(S)
                      /\ Len(s \o Tail(listed)) = Len(listed) + 1
                      /\ (s \o Tail(listed))[1] = s[1]
                      /\ \A i \in 2..Len(listed) : (s \o Tail(listed))[i + 1] = listed[i]
    OBVIOUS
  <2>1. /\ s \o Tail(listed) \in Seq(S)
        /\ Len(s \o Tail(listed)) = Len(s) + Len(Tail(listed))
        /\ \A i \in 1 .. Len(s) + Len(Tail(listed)) :
             (s \o Tail(listed))[i] =
                IF i <= Len(s) THEN s[i] ELSE Tail(listed)[i - Len(s)]
    BY <1>2, ConcatProperties
  <2> QED BY <1>2, <2>1
<1> QED BY <1>3, <1>4

(* utf-8 comes first unless a charset is declared, and latin1 comes.       *)
LEMMA EncodingsTried ==
  ASSUME NEW file \in Files
  PROVE  /\ EncodingsToTry(file) \in Seq(Encodings)
         /\ 1 \in DOMAIN EncodingsToTry(file)
         /\ file.charset = "" => EncodingsToTry(file)[1] = "utf-8"
         /\ \E i \in DOMAIN EncodingsToTry(file) : EncodingsToTry(file)[i] = "latin1"
<1> DEFINE tried == EncodingsToTry(file)
<1>1. PICK listed : listed = Declared(file) \o CommonEncodings
  OBVIOUS
<1>2. /\ listed \in Seq(Encodings)
      /\ \/ Len(listed) = 5 /\ listed[3] = "latin1"
         \/ Len(listed) = 6 /\ listed[4] = "latin1"
  BY <1>1, ListedEncodings
<1>3. Len(listed) \in {5, 6}
  BY <1>2
<1>4. \E i \in 2..Len(listed) : listed[i] = "latin1"
  BY <1>2
<1>5. file.charset = "" => listed[1] = "utf-8"
  BY <1>1, ListedEncodings
<1>6. /\ tried \in Seq(Encodings) /\ Len(tried) >= 1 /\ tried[1] = listed[1]
      /\ \E i \in 1..Len(tried) : tried[i] = "latin1"
  <2>1. CASE file.guess = Unsure
    <3>1. tried = listed BY <1>1, <2>1 DEF EncodingsToTry
    <3> HIDE DEF tried
    <3> QED BY <1>2, <1>3, <1>4, <3>1
  <2>2. CASE file.guess # Unsure
    <3>1. PICK guess \in Encodings : tried = <<listed[1], guess>> \o Tail(listed)
      BY <1>1, <2>2, FileFields DEF EncodingsToTry, Encodings
    <3>2. Len(listed) >= 1 BY <1>3
    <3> HIDE DEF tried
    <3>3. /\ tried \in Seq(Encodings) /\ Len(tried) = Len(listed) + 1
          /\ tried[1] = listed[1]
          /\ \A i \in 2..Len(listed) : tried[i + 1] = listed[i]
      BY <1>2, <3>1, <3>2, GuessIsSecond
    <3>4. PICK i \in 2..Len(listed) : listed[i] = "latin1" BY <1>4
    <3>5. i + 1 \in 1..(Len(listed) + 1) BY <1>3
    <3> QED BY <1>3, <3>3, <3>4, <3>5
  <2> QED BY <2>1, <2>2
<1> HIDE DEF tried
<1>7. DOMAIN tried = 1..Len(tried)
  BY <1>6, LenProperties
<1>8. 1 \in DOMAIN tried
  BY <1>6, <1>7, LenProperties
<1> QED BY <1>5, <1>6, <1>7, <1>8 DEF tried

(* The encodings that succeed are among those.                             *)
LEMMA SuccessesArePlaces ==
  ASSUME NEW file \in Files
  PROVE  \A i \in Successes(file) :
           i \in Nat /\ i >= 1 /\ EncodingsToTry(file)[i] \in Encodings
<1>1. \A s \in Seq(Encodings) : \A i \in DOMAIN s : i \in Nat /\ i >= 1 /\ s[i] \in Encodings
  BY LenProperties, ElementOfSeq
<1> QED BY <1>1, EncodingsTried DEF Successes

(* The first of them is taken: there is one, for latin1 decodes anything.  *)
LEMMA DecodedAsFirst ==
  ASSUME NEW file \in Files
  PROVE  \E first \in Successes(file) :
           /\ \A j \in Successes(file) : first <= j
           /\ DecodedAs(file) = EncodingsToTry(file)[first]
<1>1. PICK l \in DOMAIN EncodingsToTry(file) : EncodingsToTry(file)[l] = "latin1"
  BY EncodingsTried
<1>2. Decodes(file.bytes, "latin1") BY DEF Decodes
<1>3. l \in Successes(file) BY <1>1, <1>2 DEF Successes
<1>4. Successes(file) \subseteq Nat BY SuccessesArePlaces
<1>5. \E first \in Successes(file) : \A j \in Successes(file) : first <= j
  BY <1>3, <1>4, LeastElement
<1> DEFINE first == CHOOSE i \in Successes(file) : \A j \in Successes(file) : i <= j
<1>6. first \in Successes(file) /\ \A j \in Successes(file) : first <= j
  BY <1>5
<1>7. DecodedAs(file) = EncodingsToTry(file)[first]
  BY <1>3 DEF DecodedAs
<1> QED BY <1>6, <1>7

(* No replacement characters, and UTF-8 for what is UTF-8.                 *)
LEMMA TextIsLegible ==
  ASSUME NEW file \in Files
  PROVE  /\ DecodedAs(file) # "utf-8 with replacements"
         /\ file.charset = "" /\ file.bytes \in Unicode => DecodedAs(file) = "utf-8"
<1>1. PICK first \in Successes(file) :
           /\ \A j \in Successes(file) : first <= j
           /\ DecodedAs(file) = EncodingsToTry(file)[first]
  BY DecodedAsFirst
<1>4. ASSUME file.charset = "", file.bytes \in Unicode PROVE DecodedAs(file) = "utf-8"
  <2>1. Decodes(file.bytes, "utf-8") BY <1>4 DEF Decodes
  <2>2. 1 \in Successes(file) BY <1>4, <2>1, EncodingsTried DEF Successes
  <2>3. first = 1
    <3>1. first <= 1 BY <1>1, <2>2
    <3>2. first \in Nat /\ first >= 1 BY SuccessesArePlaces
    <3> QED BY <3>1, <3>2
  <2> QED BY <1>1, <1>4, <2>3, EncodingsTried
<1>5. DecodedAs(file) \in Encodings
  BY <1>1, SuccessesArePlaces
<1>6. "utf-8 with replacements" \notin Encodings
  BY DEF Encodings, Charsets, Guesses, Unsure
<1> QED BY <1>4, <1>5, <1>6

(* What the handlers see of a file of a repository: a type for its         *)
(* extension and no charset.                                               *)
LEMMA GitFileIsFile ==
  ASSUME NEW file \in Files
  PROVE  GitFile(file) \in Files
BY DEF GitFile, GitContentType, Files, ContentTypes, Charsets

(* Every document the runs over files put into the index, whatever chardet *)
(* takes a file for, is decoded with an encoding that fits it.             *)
THEOREM DocumentsAreAlwaysLegible == Spec => []DocumentsAreLegible
<1>1. TypeOK => DocumentsAreLegible
  <2> SUFFICES ASSUME TypeOK, NEW p \in {d.path : d \in docs \ Others}
               PROVE  LET file == IF Source("git") THEN GitFile(Fact(p).file)
                                  ELSE Fact(p).file
                      IN  /\ DecodedAs(file) # "utf-8 with replacements"
                          /\ file.charset = "" /\ file.bytes \in Unicode
                               => DecodedAs(file) = "utf-8"
    BY DEF DocumentsAreLegible
  <2>1. p \in Paths BY DEF TypeOK, Documents
  <2>2. Fact(p).file \in Files BY <2>1 DEF TypeOK, ScenarioType, Facts, Fact
  <2>3. GitFile(Fact(p).file) \in Files BY <2>2, GitFileIsFile
  <2> QED BY <2>2, <2>3, TextIsLegible
<1> QED BY <1>1, TypeCorrect, PTL

-----------------------------------------------------------------------------
(* A cell with a word keeps its row, and so its table and its page.        *)
LEMMA WordIsPart ==
  ASSUME NEW page, page.text = "blank",
         NEW t \in DOMAIN page.tables, NEW r \in DOMAIN page.tables[t],
         NEW c \in DOMAIN page.tables[t][r], page.tables[t][r][c] = "word"
  PROVE  PageHasPart(page)
<1>1. "word" \in ToSet(page.tables[t][r])
  BY DEF ToSet
<1>2. page.tables[t][r] \in KeptRows(page.tables[t])
  BY <1>1 DEF KeptRows, ToSet
<1>3. TableHasText(page.tables[t])
  BY <1>1, <1>2 DEF TableHasText
<1>4. page.tables[t] \in ToSet(page.tables)
  BY DEF ToSet
<1> QED BY <1>3, <1>4 DEF PageHasPart

(* Files one expects text of give text, whatever else is in them.          *)
LEMMA TextIsExtracted ==
  ASSUME NEW file \in Files, HasText(file)
  PROVE  Extracted(file) = "text"
<1>1. CASE /\ file.type = "text/plain" /\ file.extension = ".txt"
           /\ file.bytes # "empty"
  <2>1. ~PDFCanHandle(file) /\ TextCanHandle(file)
    BY <1>1 DEF PDFCanHandle, TextCanHandle
  <2>2. GetHandler(file) = "Text" BY <2>1 DEF GetHandler
  <2> QED BY <1>1, <2>2 DEF Extracted, NoHandler
<1>2. CASE /\ file.type = "application/pdf" /\ file.extension \in {"", ".pdf"}
           /\ \E i \in DOMAIN file.pages :
                \/ file.pages[i].text = "text"
                \/ /\ file.pages[i].text = "blank"
                   /\ \E t \in DOMAIN file.pages[i].tables :
                        LET table == file.pages[i].tables[t]
                        IN  \E r \in DOMAIN table : \E c \in DOMAIN table[r] :
                              table[r][c] = "word"
  <2>1. GetHandler(file) = "PDF"
    BY <1>2 DEF GetHandler, PDFCanHandle
  <2>2. PICK i \in DOMAIN file.pages : PageHasPart(file.pages[i])
    BY <1>2, WordIsPart DEF PageHasPart
  <2>3. PDFHasText(file) BY <2>2 DEF PDFHasText, ToSet
  <2> QED BY <2>1, <2>3 DEF Extracted, NoHandler
<1> QED BY <1>1, <1>2 DEF HasText

(* All the URLs are there, and hold such files.                            *)
GoodURLs ==
  /\ Source("static") /\ scenario.faults = {}
  /\ \A p \in Paths : HasText(Fact(p).file) /\ \A c \in 1..Now : Text(c, p) # 0

GoodFilesInv == GoodURLs => ~run.errors

(* Such files are text, and a tree that was there stays there.             *)
LEMMA GoodIsReadable ==
  ASSUME TypeInv, GoodURLs, NEW p \in Paths
  PROVE  Content(p) = "text" /\ Readable(p) /\ Latest[p] # 0
<1>1. Fact(p).file \in Files
  BY DEF TypeInv, TypeOK, ScenarioType, Facts, Fact
<1>2. Content(p) = "text"
  BY <1>1, TextIsExtracted DEF GoodURLs, Content, Source
<1>3. Now \in 1..Now BY DEF TypeInv, Bounds
<1> QED BY <1>2, <1>3, LatestIsText DEF GoodURLs, Readable

(* A step that leaves good files has found them.                           *)
LEMMA GoodStays ==
  ASSUME TypeInv, [Next]_vars, GoodURLs'
  PROVE  GoodURLs
<1>1. CASE Push
  <2>1. \A c \in 1..Now, p \in Paths : c \in 1..Now' /\ Text(c, p)' = Text(c, p)
    BY <1>1, PushAppends
  <2> QED BY <1>1, <2>1 DEF GoodURLs, Push, Source, Fact
<1>2. CASE UNCHANGED world
  BY <1>2 DEF GoodURLs, world, Source, Fact, Text, Now
<1> QED
  BY <1>1, <1>2
  DEF Next, RunStep, Start, GitNext, SetupRepository, SetupRepositoryFails, ProcessFile,
      IndexBatch, UpdateBatch, DeleteBatch, FilesDone, StaticNext, SetupURLs, FetchURL,
      FetchURLFails, IndexURLs, URLsDone, KustoNext, RunQuery, RunQueryFails, FormatRow,
      IndexRows, RowsDone, GetStatus, PatchStatus, UpdateLost, ReadConditions,
      ReadConditionsFails, Killed, ControllerWrites, vars, world

(* Nothing fails in such a run.                                            *)
LEMMA NextGood ==
  ASSUME TypeInv, GoodFilesInv, [Next]_vars
  PROVE  GoodFilesInv'
<1> SUFFICES ASSUME GoodURLs' PROVE ~run'.errors
  BY DEF GoodFilesInv
<1>1. /\ GoodURLs /\ ~run.errors /\ run \in Runs
      /\ Source("static") /\ \A fault : ~MayFail(fault)
  BY GoodStays DEF GoodFilesInv, GoodURLs, TypeInv, TypeOK, MayFail
<1>2. \A item \in run.todo : item.path \in Paths
  BY <1>1 DEF Runs, Items
<1>3. CASE Start BY <1>3 DEF Start, NoRun
<1>4. CASE GitNext \/ KustoNext
  BY <1>1, <1>4 DEF GitNext, SetupRepository, SetupRepositoryFails, ProcessFile, IndexBatch,
      UpdateBatch, DeleteBatch, FilesDone, Indexing, KustoNext, RunQuery, RunQueryFails,
      FormatRow, IndexRows, RowsDone, Source
<1>5. CASE SetupURLs BY <1>1, <1>5 DEF SetupURLs, Runs
<1>6. CASE FetchURL BY <1>1, <1>6 DEF FetchURL, Runs
<1>7. CASE FetchURLFails
  <2>1. PICK item \in run.todo : Latest[item.path] = 0 \/ Content(item.path) = "error"
    BY <1>1, <1>7 DEF FetchURLFails, TokenFails
  <2> QED BY <1>1, <1>2, <2>1, GoodIsReadable
<1>8. CASE IndexURLs
  <2>1. PICK ok \in Outcomes :
          run' = IF ok THEN [run EXCEPT !.create = {}] ELSE Left(Failed(run))
    BY <1>8 DEF IndexURLs
  <2>2. ok BY <1>1 DEF Outcomes
  <2> QED BY <1>1, <2>1, <2>2 DEF Runs
<1>9. CASE URLsDone BY <1>1, <1>9, LeftIsRun DEF URLsDone
<1>10. CASE PatchStatus \/ UpdateLost
  <2>1. run' = NoRun \/ run' = [run EXCEPT !.pc = After(run.pc)]
    BY <1>10 DEF PatchStatus, UpdateLost, Onward
  <2> QED BY <1>1, <2>1 DEF NoRun, Runs
<1>11. CASE ReadConditions \/ ReadConditionsFails
  <2>1. \/ run' = [run EXCEPT !.pc = "report"]
        \/ run' = [run EXCEPT !.pc = "flag"]
    BY <1>1, <1>11 DEF ReadConditions, ReadConditionsFails, Onward, After, At, Runs
  <2> QED BY <1>1, <2>1 DEF Runs
<1>12. CASE Killed BY <1>12 DEF Killed, NoRun
<1>13. CASE Push \/ GetStatus \/ ControllerWrites \/ UNCHANGED vars
  BY <1>1, <1>13 DEF Push, GetStatus, ControllerWrites, vars
<1> QED
  BY <1>3, <1>4, <1>5, <1>6, <1>7, <1>8, <1>9, <1>10, <1>11, <1>12, <1>13
  DEF Next, RunStep, StaticNext

(* URLs that hold text, and PDFs with one page or table that can be read,  *)
(* are indexed without an error, whatever their other pages hold           *)
(* (PDFContentHandler.extract_text) and whenever they change.              *)
THEOREM GoodFilesAreAlwaysIndexed == Spec => []GoodFilesAreIndexed
<1>1. Init => GoodFilesInv BY DEF Init, NoRun, GoodFilesInv
<1>2. Spec => []GoodFilesInv
  BY <1>1, NextGood, TypeInvariant, PTL DEF Spec
<1>3. TypeInv /\ URLsInv /\ GoodFilesInv => GoodFilesAreIndexed
  <2> SUFFICES ASSUME TypeInv, URLsInv, GoodFilesInv, GoodURLs
               PROVE  /\ ~run.errors
                      /\ At("complete") => \A p \in Paths :
                           \E c \in 1..Now : Doc(p, Text(c, p)) \in docs
    BY DEF GoodFilesAreIndexed, GoodURLs
  <2>1. ~run.errors BY DEF GoodFilesInv
  <2>2. ASSUME At("complete"), NEW p \in Paths
        PROVE  \E c \in 1..Now : Doc(p, Text(c, p)) \in docs
    <3>1. Readable(p) BY GoodIsReadable
    <3>2. CleanRun BY <2>1, <2>2 DEF CleanRun, At
    <3> QED BY <3>1, <3>2 DEF URLsInv, URLsIndexed, FetchedSince, GoodURLs
  <2> QED BY <2>1, <2>2
<1> QED BY <1>2, <1>3, URLsInvariant, TypeInvariant, PTL
=============================================================================
