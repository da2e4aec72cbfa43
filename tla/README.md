# A verification development of AutoIndexer

AutoIndexer is a Kubernetes operator. A user creates an `AutoIndexer` object that
names a data source, an index of a RAG engine and, optionally, a schedule; the
operator runs Jobs that read the data source and fill the index, watches the
index for drift, and repairs it. This directory holds TLA+ modules that model the
operator's concurrent core and the program its Jobs run, the TLC configurations
that check them on small instances, and theorems about them that TLAPS checks for
every instance.

The project has two halves. The *controller half* follows one `AutoIndexer` object
through everything that happens to it; a Job is a small actor there. The *job half*
follows the Python program of the Jobs, run after run, through what it does to the
index and the status for each kind of data source; the controller is a small actor
there.

Paths below are relative to the root of the repository.

## 1. Inventory

| Component | Where | State it keeps | Operations | Modelled by |
|---|---|---|---|---|
| Reconciler | `pkg/autoindexer/controllers` | none across reconciles; the phase, conditions, commit and count live in the object's status | ensure finalizer, ensure resources, one handler per phase, drift remediation, garbage collection, status patch | `Reconciler`, `JobList` |
| Drift detector | `pkg/autoindexer/driftdetection` | none; writes two annotations | sweep: list, compare counts, set or clear the annotation | `DriftDetector` |
| Indexing job | `jobs/autoindexer/main.py`, `k8s/`, `data_source_handler/handler.py` | local to a container; commit, time, conditions in the object's status | load configuration, run, status updates (each a GET and a PATCH), exit | `IndexingJob` (a Job in the life of the object), `IndexerJob` (the program, run after run) |
| Git handler | `jobs/autoindexer/data_source_handler/git_handler.py` | clone, errors, commit, three batches | full or incremental run, search, index, update, delete | `GitHandler`; `IndexingJob` for a repository that only grows |
| Static handler | `static_handler.py` | errors, one batch | fetch, extract, index | `StaticHandler` |
| Kusto handler | `kusto_handler.py` | time of the last run | initial or incremental query, format, index | `KustoHandler` |
| Content handlers | `jobs/autoindexer/content_handler` | none | choose a handler, decode text, extract pages and tables of a PDF | `ContentHandlers` |
| Credential providers | `jobs/autoindexer/credential_provider` | none | give a token | `Provider`, `TokenFails` of `JobWorld` |
| RAG client of the Job | `jobs/autoindexer/rag/rag_client.py` | none | list, index, update | `JobWorld`, with the handlers that call it |
| RAG engine client of the controller | `pkg/clients/ragengine` | none | count, list, delete, each with retries | calls of `Reconciler` and `DriftDetector`; the retries are not modelled |
| Manifests | `pkg/autoindexer/manifests` | none | Job and CronJob templates | constants and guards of `IndexingJob` |
| API types | `api/v1alpha1` | none | | types in `AutoIndexerAPI` and `JobWorld` |
| Admission, manager wiring, logging, generated code | `webhooks`, `cmd/`, ... | none | | not modelled |

How they interact. The reconciler and the detector run in one manager process and
read the API server through informer caches, which may lag. Jobs run in their own
pods and talk to the API server directly. Nothing coordinates the three writers of
the object but resourceVersions, and these are used unevenly: the detector and the
removal of the finalizer use `Update` (guarded), the reconciler's status patch is a
merge patch without a version - except after `setSuspendedState` or
`updateAnnotations`, whose response replaces the copy in memory so that the patch
then carries the new version - and a Job sends back the whole object it has just
read. The RAG engine is called by all three.

Hard behaviours: snapshots used after slow calls; an object reconciled over several
passes that other actors interrupt; a status condition with two meanings; resets
held in memory over a failing call; a list in arbitrary order folded with a running
maximum; cache lag against direct writes; kills and restarts of a container in the
middle of a run; timestamps with the resolution of a second; two actors that wait
for each other's annotations. `PROJECT.json` lists each at its line.

What makes each component correct:

* Reconciler: phases move along the documented edges; `Completed` only after a Job
  succeeded; nothing is created before the finalizer; remediation works on an index
  nobody fills; suspension reaches the CronJob; deletion, remediation and one-time
  runs come to an end.
* Detector: no user edit and no reconciler write is lost; checks are made of
  indexes at rest; manual remediation waits for the user.
* Job: what the status records - a commit, a time - is something the next run may
  start from; a run after errors is a full one; the index catches up with the data
  source once runs succeed.
* Handlers: a run that ends without an error has indexed everything it was to index,
  whichever way it took; no batch is dropped at a boundary.
* Content handlers: a document is decoded as what it is; a page or table that cannot
  be read does not cost the others.

## 2. Modules

```
 JobList -> AutoIndexerAPI -> Reconciler    \
                              DriftDetector  > AutoIndexerSystem -> AutoIndexerProperties -> MCAutoIndexer
                              IndexingJob   /                             |  ^
                                                                          |  PhaseMachine (INSTANCE, refinement)
              proofs: AutoIndexerTypes, AutoIndexerSafety, JobOutcomes, CommitCoverage

                               GitHandler    \
 ContentHandlers -> JobWorld -> StaticHandler > IndexerJob -> IndexerJobProperties -> MCIndexerJob
                               KustoHandler  /                       |
                                                                     |  Ingestion (INSTANCE, refinement)
              proofs: IndexerJobTypes, IngestionRefinement, GitIndex, FetchedIndex
```

The controller half:

* `JobList` - `getJobStatus` as a function of how many of the listed Jobs the loop
  has seen, bug for bug. `Verdict` is what one Job counts as: its counters are asked in
  the order Active, Failed, Succeeded, and the first above 0 decides. The first started
  Job seeds `lastJobTimestamp` before it is compared with it.
* `AutoIndexerAPI` - the shared state: the object (`obj`), the Jobs in order of
  creation, the CronJob, the three caches (`Lagging` names those that may be behind),
  the index, the repository's HEAD; merge patches (`StatusPatch`), optimistic locking
  (`Unmodified`), fault switches (`MayFail`), the counters a Job shows to those who
  list it (`ListedJob`), and what `getJobStatus` may answer for a list in any order
  (`JobStatuses`).
* `Reconciler` - `Reconcile` cut at its calls. `recPc` is the step in flight;
  `recOrig` is `existingAutoIndexerObj`, `recMem` the copy being modified, `recLocked`
  whether the copy carries the version of a later response. One action per handler
  and per way a call can end. `recMisled` is a history variable: the
  `ensureCronJob` of this reconcile was shown a cached CronJob that differs from the
  server's.
* `DriftDetector` - the sweep as it meets this object: list, check, write.
* `IndexingJob` - the Job and CronJob controllers (external) and the container:
  load, clone, index a document at a time, report, flag errors, complete, exit. A
  container that fails is restarted in its pod; a pod that is lost is replaced by
  another one of the same Job (`Evicted`, `Replaced`).
* `AutoIndexerSystem` - the composition, the user, the repository, the RAG engine's
  own losses, the caches, and the fairness.
* `PhaseMachine` - the abstract specification of the phase a user watches. Its
  variables are `phase` and `views`, the phases that the object and the copies in use
  show: a new phase follows an edge from one of the views, and a phase that has left
  the views does not come back into them but by an edge.
* `AutoIndexerProperties` - everything that is checked, and the refinement mapping.
* `MCAutoIndexer` - names for the values the `.cfg` files use.

The job half:

* `ContentHandlers` - pure functions: which handler takes a file, in which order a
  text handler tries encodings, what of a PDF's pages and tables is text.
* `JobWorld` - the data source, the index, the status, the state of a run, and the
  calls of the RAG client with what is left of them when they fail. `run.pc` is the
  part of the program a run is in; `todo` the files, diff entries, URLs or rows
  ahead of it; `create`, `update`, `delete` the batches it is filling; `errors` what
  `update_index` will return and `noted` what `self.errors` holds - the two are not
  the same for Kusto.
* `GitHandler` - the choice between a diff and a full run, the filters, the diff with
  its renames, the search for the document of a changed file, the three batches.
* `StaticHandler` - the loop over the URLs, which the first failure ends.
* `KustoHandler` - the checkpoint, read from the status as it is when the run begins,
  and the query it leads to.
* `IndexerJob` - a run from its configuration to its last update; a status update as
  a GET and a PATCH with the version read; kills; pushes; the controller's writes.
  `debt` is a history variable: `owed` from the moment something fails that the status
  has to tell, `forgotten` once the status has lost it, `none` again after a full run
  without errors.
* `Ingestion` - the abstract specification of what a run may do to the index and to
  the checkpoint in the status, whatever the data source and whatever fails: only
  texts the data source has held go in; a document goes out only when its file has
  changed since the checkpoint, because it was deleted or against a text of the tree
  it has changed by; the checkpoint - the commit for Git, the time for Kusto - does not
  go back. It has no runs, batches or reports. A Job that deletes the documents of
  deleted files, which this one fails to do, implements it as well.
* `IndexerJobProperties` and `MCIndexerJob` - what is checked, the mapping to
  `Ingestion` (`Permitted`, `Checkpoint`), and the scenarios.

Definitions commented "Used by no specification" are deliberately wrong variants of
the definition that follows. Each property of a passing run is broken by one of
them, which is how we know that the run looks where the property could fail.

### Abstractions of the controller half

* The data source is a Git repository whose commit *k* adds document *k*. A commit,
  a document and a count are naturals up to `MaxCommit`; 0 is "none". A batch is one
  document. The index holds only this AutoIndexer's documents.
* A resourceVersion is represented by the object's contents. The model therefore
  accepts a guarded write the server would refuse when the object changed and
  changed back, or when only a field outside the model changed; such refusals are
  the same as the failures the `reconciler` and `detector` faults allow.
* A failed call of the API server is one that was not applied. The RAG engine fails
  the two processes that call it separately: the manager, through the client that
  retries (`ragclient`), and the Jobs (`rag`). The manager's deletion of the index may
  also be applied with the answer lost. A Job's report races its GET against
  its PATCH; with the fault `report` any report may be refused, which covers every
  such race, and without it a report is one step.
* A Job shows three counters. `Failed` counts lost pods and the Job's final failure,
  not the restarts of a container in its pod (the templates set `OnFailure`). Jobs that
  were deleted count as neither.
* Conditions other than `AutoIndexerError` are left out, with their timestamps. The
  patch of the condition list is treated as a patch of that one condition.
* Caches either follow a write, stay, or jump to the newest state; a cache that
  passes through older versions one at a time shows the reader nothing more than a
  cache that stays, reads and jumps, except between two reads of one reconcile.
* A reconcile may start at any time: watch events, retries and resync are not
  told apart. Several workers never hold the same key. One manager is active.
* The CRD sets `driftRemediationPolicy` to Manual when it is missing, so a missing
  policy is not modelled. A CronJob fires whenever it is not suspended and no Job of
  its own is unfinished (`ForbidConcurrent`).
* `ensureRBACResources` and `validateRAGEngineRef` are a step that may fail.

### Abstractions of the job half

* A data source is a growing `history` of trees; a tree gives each path the version
  its text was last written in, 0 when it is absent. The trees of a repository are
  its commits, on one branch. Documents are identified by owner, path and text, which
  is what their metadata and content come to; a second copy of the same document is
  the same document.
* `scenario` is the specification of the AutoIndexer with its surroundings: the kind
  of source, a pinned commit, incremental queries, credentials, what is known of each
  file, a bound on the history and the faults. It is constant in a behaviour;
  `Scenarios` is the set a run of TLC explores, and any set in the theorems.
* `reachable` are the commits a clone has, which shrink with a forced push; for Kusto,
  the versions of rows that arrived while no run was under way (see `handler.py:68`
  below for the others).
* `copy` says whether the object a status update has read is still the one in the
  API server: the PATCH sends the version back and is refused when it is not.
* A file is a class of bytes, a declared type and charset, chardet's guess, and for
  a PDF its pages with their tables. Files whose encoding is recognised, misspelt,
  cut in the middle of a character by the 1024-byte look, or wrong, are told apart.
* Runs follow one another (`ForbidConcurrent`). A run that is killed leaves nothing
  but what it has sent.
* `ControllerWrites` sets or clears `AutoIndexerError` at any moment, as the end of a
  reconcile does (`autoindexer_controller.go:180-190`); which reconciles succeed is in
  the controller half. So the condition that makes the next run a full one may be lost
  before it is read. The properties that rest on it say so: they except an error that
  is forgotten (`ErrorForgotten`), which `error_recovery` shows to happen.
* Counters, durations, events, the text of queries and the wording of documents are
  left out.

The phase diagram in `docs/images` lacks the edge from Pending to Suspended, which
`handlePendingPhase` takes, and has one from Completed to DriftRemediation, which no
code takes. `PhaseMachine` follows the code.

## 3. What the runs check

The runs of the controller half use `MCAutoIndexer`. A `.cfg` chooses the faults, the
edits and the kind of AutoIndexer; all interleavings of the actors happen in every
run. The runs of the job half use `MCIndexerJob` and choose a set of scenarios.

| Run | Instance | Shows |
|---|---|---|
| `once_lifecycle` | one-time, all caches lagging, failing clones and batches, deletion | types; `CompletedHasSucceeded`; `NothingIsUnprotected`; `PhasesFollowTheMachine` |
| `schedule_edits` | schedule added and removed at any moment | `PhasesFollowTheMachine` |
| `remediation` | Auto, losses, every call of the reconciler fails, RAG engine and CronJob updates included | `RemediationQuiescesCron` |
| `strategy_edits` | losses, strategy edited at any moment, detector's writes fail | `UserSpecIsKept` |
| `remediation_liveness` | Auto, losses, reports refused | `RemediationEnds` |
| `suspension_liveness` | scheduled, suspended and resumed at will, reports refused | `SuspensionReachesCron` |
| `once_liveness` | one-time; pushes; clones, loads, reports fail; kills; lost pods; deletion | `CommitIsIndexed`, `OneTimeCompletes`, `DeletionCompletes` |
| `indexer_job` | the program of a Job, 22 scenarios of what may change and fail and one for every kind of file | see below |

The properties of `indexer_job`:

* `GitRunIsComplete`, `StaticRunIsComplete` - a run that ends without an error has
  indexed all it was to index; for Git, a diff leaves as much as a full run would,
  whatever earlier runs missed.
* `RecordedCommitIsABase`, `StampCoversRows` - what the status records is safe to
  continue from unless the error condition is set, although it is written by failed
  runs as well and commit, time and condition go through separate updates.

  The code makes two exceptions to these, and the properties name them.
  `ErrorForgotten`: something failed, and the status has lost the error that would
  have made the next run a full one - the controller cleared it, or a failed Kusto
  query was killed, or its second update lost, after the report had moved the time.
  `GoneBack`: a file has gone back to an older text, which no diff shows, while
  a run that had put in the text in between was killed or could not report. A full run
  without errors ends the first; without either exception TLC finds the properties
  violated.
* `DocumentsAreLegible`, `GoodFilesAreIndexed` - the order of encodings; pages and
  tables that fail one by one.
* `IndexIsIngested` - the program implements `Ingestion`: nothing is put into the
  index that the source never held or the filters exclude, nothing current is taken
  out, and a run that fails before it knows a commit does not reset the recorded one.
* `IndexCatchesUp` - when runs no longer fail, get to their end and owe no forgotten
  error, the index holds what the data source holds.

The properties of the controller half are about copies that may be old, and two of
them say how far that goes:

* `PhasesFollowTheMachine`: a reconcile that starts from a stale copy takes the phase
  where the copy leads, so a stale Pending can take Completed back to Running
  (`once_lifecycle` finds it when `views` is the object's phase alone). What holds is
  that every phase follows an edge from a phase that the object, the cache or the
  reconcile in flight still shows, and that a phase none of them shows is gone for good.
* `RemediationQuiescesCron`: `ensureCronJob` compares with a cached CronJob. When it is
  an old one, nothing is sent and the schedule goes on during the remediation
  (`recMisled`; TLC finds it with `Lagging = {"cron"}`).

Four runs show that something the repository says does not hold of its code:

| Run | Said | Done |
|---|---|---|
| `error_recovery` | `git_handler.py:124`: a run after errors is a full one | the reconciler clears the condition the decision rests on (`autoindexer_controller.go:188`) |
| `auto_recreation` | `README.md:263`: Auto recreates the index | the reset of the recorded commit is lost to the response of the annotation patch (`:477-488`); later runs are incremental and the index stays empty |
| `failed_job` | `autoindexer_controller.go:361`: failed Job, Failed phase | the failure of an only Job is never the latest (`:210`) |
| `git_deletion` | `git_handler.py:495`: deletes a batch of documents | calls a method the RAG client does not have (`:499`, `rag_client.py`); the documents stay |

More disagreements show in the controller half but have no run of their own:

* `autoindexer_types.go:161` lets Manual wait for user action; the next sweep clears
  the annotation (`SkipDriftCheck`, `detector.go:142`).
* `autoindexer_types.go:67` leaves suspension to the user; on leaving
  DriftRemediation the controller unsuspends whoever suspended, under Manual too
  (`RemediationOver`, `autoindexer_controller.go:404`).
* `detector.go:227` says that running indexers are skipped; the phase in the
  detector's copy is older than the Jobs, so it counts the documents of an index
  that is being written (`CompareDocumentCount` while a Job is active).
* `autoindexer_gc_finalizer.go:19` wants the index gone before the finalizer; a Job
  that is not active yet when the Jobs are listed indexes afterwards (`GcListJobs`,
  `JobStarts`, `IndexDocument`, `GcRemoveFinalizer`).
* `autoindexer_controller.go:739` takes an existing Job for no error; with a cache
  that is behind, AlreadyExists makes the phase Failed for good while the Job runs
  (`HandlePendingJobCreationFails`).
* A Job that lost a pod and then succeeded has both counters above 0;
  `autoindexer_controller.go:219` asks for failures before `:225` asks for successes,
  so it counts as failed, and its one-time AutoIndexer stays Running (`Verdict`,
  `Evicted`; the exception in `OneTimeCompletes`).
* `autoindexer_types.go:73` says that drift detection needs a schedule; the detector
  looks only at the phase (`Skipped`).

And in the job half or while reading for it:

* `autoindexer_types.go:120` says of a pinned commit that only it will be put into the
  index; a full run deletes nothing (`git_handler.py:136`), so whatever was indexed
  before the pin stays (`IndexBatch`).
* `git_handler.py:271` searches the document of a changed file by its path alone, and
  may replace the document of another AutoIndexer (`Holding`, `Others`).
* `git_handler.py:182` takes a branch that cannot be checked out for a warning and
  indexes the default branch.
* `handler.py:68` stamps the end of a run, not of its query; rows that arrive between
  them are in no later incremental query. `StampCoversRows` excepts them (`reachable`).
* `kusto_handler.py:335` does not note a failed query in `self.errors`; the report
  moves the time, and only a second update says that the run failed.
* `text_handler.py:94` says that it defaults to True and returns False;
  `factory.py:87` calls a case impossible that a MIME type without a handler reaches.
* `README.md:180-190` documents a `{last_run}` placeholder; the handler replaces
  `$LAST_INDEXING_TIMESTAMP` (`kusto_handler.py:117`).
* `k8s_client.py:295-305` answers 1 when a counter cannot be read, so a counter of
  successful runs (`autoindexer_types.go:290`) falls back to 1. Counters are not
  modelled.
* `README.md:254` finds drift by comparing counts; a Job that runs between a loss and
  the sweep reports the reduced count, and the two agree.

### Bounds

* `MaxCommit` 1 or 2. Two are needed where an incremental run must differ from a
  full one (`once_liveness`, `error_recovery`) or where part of an index is lost.
* All three caches lag in `once_lifecycle`. With a lagging cache the instance of
  `schedule_edits` has more than six million states and that of `remediation` more
  still, so there the caches keep up, and `remediation` leaves out the user's
  suspensions as well; `PhaseMachineImplemented` and `RemediationQuiesced` are proved for any lag, faults
  and edits.
* `BackoffLimit` 0 or 1: one restart shows that a Job survives an attempt; further
  attempts repeat it.
* `SuccessHistory` and `FailedHistory` are 1 (3 and 1 in the manifests): with 1
  the oldest Job is dropped as soon as there are two, so a list of an active, a
  succeeded and a failed Job, in each order of age, is reached with few states.
* `LoseDocuments` needs a complete index, so losses do not follow on each other.
* User edits and pushes are bounded by the values they can take only.
* `Paths` has two members, so that one file can be renamed to the other, one can fail
  while the other succeeds, and one change can hide in the diff of the other.
* `BatchSize` is 2 (10 and 50 in the code): with two paths a batch that is full at the
  last item and a remainder are reached. One that is full before the last item is not;
  the theorems cover it, for any number of paths and any size.
* Histories have up to three versions: the one recorded, one in between, and the one
  cloned. This is what a lost report, a forced push or a revert needs.
* `Others` holds one document, of a path that is also ours.
* The scenarios combine the faults that meet on one path through the code; all of them
  at once is the same actions in more states. The scenarios about files enumerate
  every kind of text and PDFs of up to two pages, with nothing that can fail and a
  single version, since decoding depends on neither.

Nothing else is bounded. Deadlock is checked wherever the object cannot go away;
after a deletion the system may stop.

### Fairness

Weak fairness of the reconciler (its queue retries failed reconciles, and resyncs),
of the detector (a ticker), of the CronJob (its controller fires it while it may),
of the Jobs together, of the garbage collector, of the caches and of the clock.
None of the user, the repository, losses, kills or individual failures: a call may
always fail where faults allow it, so the liveness runs allow only faults after
which the code tries again. Weak fairness is given to each actor as a whole; it is
never assumed that a particular outcome of an actor's step occurs.

`IndexerJob!FairSpec` is weakly fair to `RunStep`: the CronJob starts a run after the
other and a run goes on. Kills, pushes and failures may go on for ever, so
`IndexCatchesUp` says only what holds when errors stop and runs keep reaching their
end.

## 4. What is proved

TLAPS checks the following for all values of the constants: any number of commits,
any backoff and history limits, any subset of faults, edits and strategies; any
paths, batch size, scenarios and foreign documents.

* `AutoIndexerTypes!TypeCorrect` - `Spec => []TypeOK`. `TypeOK` is inductive; one
  lemma per actor. `JobStatuses` and `Trimmed` need lemmas of their own (a list
  from which the oldest is dropped is a sequence of Jobs).
* `AutoIndexerSafety!NothingUnprotected` - `Spec => []NothingIsUnprotected`, with
  lagging caches. The invariant is strengthened with: a cached object that has the
  finalizer was taken from an object that had it, and the finalizer goes only
  with the object; every reconcile past the finalizer step works on a copy that
  has it. This is why a stale cache cannot do harm here.
* `AutoIndexerSafety!RemediationQuiesced` - `Spec => []RemediationQuiescesCron`, with
  no assumption. The strengthening says that from the end of `ensureRequiredResources`
  on the CronJob agrees with the copy in memory unless the reconcile was misled; only
  another reconcile could change it, and there is one at a time.
* `AutoIndexerSafety!UserSpecKept` - an action property; follows action by action
  from optimistic locking (`Unmodified`) and from the fields patches write.
* `AutoIndexerSafety!PhaseMachineImplemented` - `Spec => PhasesFollowTheMachine`, with
  no assumption. `PhaseMemory` is the inductive core: the phase of the copy a reconcile
  modifies is the one it started from or follows it by an edge - unless a response has
  replaced the copy, and then the patch is refused if the object has changed since -
  and `recOrig`, which is one of the views, stays until the reconcile ends. So every
  status patch is an edge from a view, every deletion is `Vanish`, and everything else
  forgets or stutters.
* `JobOutcomes!CountersAreRight` and `LatestFailureNeedsAnEarlierJob` - what
  `getJobStatus` answers for every list of Jobs in every order the cache may return
  it. Each started Job counts once: as running while a pod is active, whatever failed
  before; otherwise as failed if it failed or ever lost a pod; as completed only if it
  succeeded without. `latestJobFailed` is set exactly when the Job that started last
  counts as failed *and* another started Job comes before it in the list: the
  defect `failed_job` shows, as a characterisation.
* `JobOutcomes!CompletedSucceeded` - `CompletedHasSucceeded`, with no assumption.
  The invariant `Completion` says it of every copy the controller decides by - the
  object, the cached object, the copy a reconcile modifies - and of the cached list of
  Jobs, which shows no success that did not happen. The succeeded Job is still there
  because the history limit drops the older ones of a state and leaves one.
* `JobOutcomes!JobFailuresStayUnreported` - assuming only that there is never a
  schedule (`OneTimeOnly`), for any lag, faults and backoff limit: a reconcile that
  takes the phase to Failed has started from Pending, where it could not create the
  Job. It is never a failed Job that leads there, although `handleRunningPhase`
  documents it: there is one Job, and the failure of an only Job is never the latest.
* `CommitCoverage!RecordedCommitIsIndexed` - assuming `OnlyJobsTouchTheIndex`
  (strategy Ignore, no losses, no edits of the strategy, no failures of the RAG
  engine). The strengthening follows each Job through its run: what it has still to
  do, together with the index and the recorded commit, covers the commit it cloned.
  `error_recovery` and `auto_recreation` show that the assumptions cannot be dropped.

* `IndexerJobTypes!TypeCorrect` - `Spec => []TypeOK` for the program of a Job, with
  `Bounds`: the commits and versions it works with exist in the history.
* `GitIndex!RunsAreComplete` and `RecordedCommitsAreBases` - `GitRunIsComplete` and
  `RecordedCommitIsABase`, with no assumption: any failures, kills, lost reports,
  forced pushes, reverts and writes of the controller; the exceptions are in the
  properties. `IndexInv` is inductive: the recorded commit is indexed or
  overtaken (`RecordedCommitIsIndexed`, `Overtaken`), and `RunInv` follows a run
  through its parts - it starts with empty lists and with the commit and condition of
  the status; each wanted file is in the index, in a batch, or still ahead
  (`NothingIsLost`); the lists hold nothing but texts of the cloned commit
  (`ListsAreSound`). The argument for an incremental run is that a file whose document
  was replaced since the recorded commit, by a run that was killed or whose report was
  lost, differs from that commit and so is in the next diff. A file that has gone back
  to the text of the recorded commit is in no diff, which is the exception `GoneBack`.
* `FetchedIndex!URLRunsAreComplete` - `StaticRunIsComplete`, with no assumption: each
  readable URL is ahead of the run, in its batch or in the index, with a text it has
  had since the run began.
* `FetchedIndex!StampsCoverRows` - `StampCoversRows`, with no assumption. The report
  moves the time of a failed query before the next update sets its error, so a kill or
  a lost update between the two leaves the time ahead of the rows: from then on the
  error is forgotten (`debt`). The errors of batches go with the report, so a kill does
  no harm there. `FailuresAreKnown` says that what the time covers is indexed unless a
  failure is in the condition, about to get there, or forgotten.
* `FetchedIndex!DocumentsAreAlwaysLegible` and `GoodFilesAreAlwaysIndexed` -
  `DocumentsAreLegible` and `GoodFilesAreIndexed`, with no assumption, for files with
  any number of pages and tables. A file is decoded with the first encoding of the
  list that fits, which exists because `latin1` fits everything; the order of the list
  decides the rest. A page or a table that cannot be read leaves the others in.
* `IngestionRefinement!IngestionImplemented` - `Spec => IndexIsIngested`, with no
  assumption. `IngestInv` is what the steps need: all that is in the lists of a run is
  genuine (`ListsHeld`: batches hold texts the source has held, an update replaces the
  document of a file that has changed since the commit the run works from), and that
  commit is the one in the status until the report (`CheckpointBehind`). The calls that index or
  update a batch map to `Index`, the status updates that move the commit or the time
  to `Advance`, a push to `Grow`, all else to stuttering.

Inductions. A theorem about a list needs an induction over it, and the library's
induction theorems are out of the provers' reach. `JobOutcomes` and `FetchedIndex`
prove what they need from the well-foundedness of `<`: a set of naturals has a least
element (`LeastElement`), so what holds of 0 and is carried from each number to the
next holds up to any bound. The loops of `getJobStatus` are therefore written as
functions over `0..Len(list)`, and `CountedSteps` shows that such a function is what
its equations say.

Every invariant and every action property or refinement that a passing run checks is
stated by one of these theorems. Only model-checked: the liveness properties
`RemediationEnds`, `SuspensionReachesCron`, `OneTimeCompletes`, `DeletionCompletes` and
`IndexCatchesUp`, since fairness and ENABLED are out of the prover's reach, and the
four runs that show a disagreement.

## 5. Not modelled, and what could follow

Not modelled, with the reasons:

* Admission: pure predicates over the specification. `validateUpdate` accepts every
  update, so the models let the user make any edit.
* The contents of roles and service accounts, and who owns them
  (`manifests.go:426`): AutoIndexers that share a workload identity overwrite each
  other's owner references. This needs several AutoIndexers.
* Two AutoIndexers on one index in the controller half (`autoindexer_controller.go:469`).
  The job half has the documents of another one in the index.
* The retries inside a call of the RAG engine and the sweep over several objects under
  one deadline (`detector.go:97`).
* Counters, durations and events, which nothing decides by; branches; the text of
  queries; logging; the wiring of the manager; generated code.

In order of importance:

1. `SharedIndex` - two AutoIndexers on one index: deletion and remediation of one.
2. `RAGClient` and `DriftSweep` - the retry loop, shown to implement the one-step calls
   that `Reconciler` and `DriftDetector` use; several objects under one deadline.
3. `Ownership` - the service account shared under one workload identity.
4. Proofs: the coverage of `CommitCoverage` with failures of the RAG engine inside a
   Job that is restarted.
