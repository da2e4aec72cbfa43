------------------------------ MODULE JobWorld ------------------------------
(***************************************************************************)
(* What the Python program of a Job (jobs/autoindexer) works on: the data  *)
(* source, the index of the RAG engine and the status of the AutoIndexer;  *)
(* and the program's own state, `run`.                                     *)
(*                                                                         *)
(* A data source is a growing sequence of trees.  A tree gives each path   *)
(* the version its text was last written in, 0 when it is absent: the      *)
(* files of a repository after each commit, what a server holds under each *)
(* URL, or the rows of a query by the time they arrived.                   *)
(***************************************************************************)
EXTENDS ContentHandlers, FiniteSets

CONSTANTS
  Paths,       \* files, URLs or rows
  Scenarios,   \* specifications of the AutoIndexer, each with its surroundings
  BatchSize,   \* 10 documents for Git and URLs, 50 for Kusto
  Others       \* documents another AutoIndexer has put into the same index

(* Of a path: what it holds, whether a row is blank, and what the checks   *)
(* of _should_index_file and _get_repository_files see in its name.        *)
Facts ==
  [file : Files, blank : BOOLEAN, hidden : BOOLEAN, binary : BOOLEAN,
   excluded : BOOLEAN, included : BOOLEAN, dotGit : BOOLEAN]

AllFaults ==
  {"clone", "fetch", "query", "token", "rag", "api", "kill", "writer", "force", "revert"}

ScenarioType ==
  [source : {"git", "static", "kusto"},
   pin : Nat,                \* spec.dataSource.git.commit, 0 when absent
   incremental : BOOLEAN,    \* spec.dataSource.database.incrementalQuery
   credentials : {"none", "SecretRef", "SecretMissing", "WorkloadIdentity"},
   facts : [Paths -> Facts],
   versions : Nat,           \* bound of the history
   faults : SUBSET AllFaults]

ASSUME ScenariosAssumption == Scenarios \subseteq ScenarioType
ASSUME BatchSizeAssumption == BatchSize \in Nat \ {0}

VARIABLES
  scenario,    \* the one of Scenarios this behaviour is about
  history,     \* the trees of the data source, oldest first
  reachable,   \* Git: the commits a clone has; Kusto: the versions of rows
               \* that did not arrive while a run was under way
  docs,        \* the documents of the index
  status,      \* the status of the AutoIndexer
  run,         \* the program
  copy,        \* the object a status update has read: "none", "fresh", "stale"
  debt         \* history variable, read by no guard: has a batch, a diff or a
               \* query failed ("owed") since a run paid for it ("none"), and
               \* has the status lost the error that says so ("forgotten")

vars == <<scenario, history, reachable, docs, status, run, copy, debt>>
world == <<scenario, history, reachable>>

MayFail(fault) == fault \in scenario.faults
Source(source) == scenario.source = source
Fact(p) == scenario.facts[p]

Now == Len(history)
Latest == history[Now]
Text(c, p) == history[c][p]

(* _create_credential_provider: a reference to a secret that is not there  *)
(* gives no provider; a secret is a token, an identity has to ask for one. *)
Provider ==
  IF scenario.credentials \in {"none", "SecretMissing"} THEN "none"
  ELSE scenario.credentials

TokenFails == Provider = "WorkloadIdentity" /\ MayFail("token")

(* The documents are identified by their text and metadata.                *)
Owners == {"self", "other"}
Documents == [owner : Owners, path : Paths, text : Nat]
Doc(p, text) == [owner |-> "self", path |-> p, text |-> text]

ASSUME OthersAssumption == Others \subseteq [owner : {"other"}, path : Paths, text : Nat]

-----------------------------------------------------------------------------
(* What becomes of a path: "text", "" (nothing to index) or "error".       *)
GitFile(file) ==
  [file EXCEPT !.type = GitContentType(file.extension), !.charset = ""]

Content(p) ==
  CASE Source("git") -> Extracted(GitFile(Fact(p).file))
    [] Source("static") -> Extracted(Fact(p).file)
    [] Source("kusto") -> IF Fact(p).blank THEN "" ELSE "text"

Readable(p) == Content(p) = "text"

-----------------------------------------------------------------------------
(* One thing to process: a file to index, an entry of a diff, a URL, a row.*)
Item(change, p, old) == [change |-> change, path |-> p, old |-> old]
Items == [change : {"A", "M", "D", "R"}, path : Paths, old : Paths]

NoRun ==
  [pc |-> "idle", mode |-> "none", todo |-> {}, create |-> {}, update |-> {},
   delete |-> {}, errors |-> FALSE, noted |-> FALSE, recover |-> FALSE,
   from |-> 0, target |-> 0]

Runs ==
  [pc : {"idle", "begin", "setup", "index", "base", "report", "flag", "complete"},
   mode : {"none", "full", "diff"},
   todo : SUBSET Items,
   create : SUBSET Documents,
   update : SUBSET [old : Documents, new : Documents],
   delete : SUBSET Documents,
   errors : BOOLEAN,     \* what update_index returns
   noted : BOOLEAN,      \* self.errors of the handler
   recover : BOOLEAN,    \* the AutoIndexerError condition, as configured
   from : Nat,           \* lastIndexedCommit, as configured
   target : Nat]         \* current_commit_hash, or the version of the source

Statuses ==
  [error : BOOLEAN, stamp : Nat, commit : Nat]

At(pc) == run.pc = pc

(* update_index ends: whatever is left in the lists is dropped.            *)
Left(r) ==
  [r EXCEPT !.pc = "base", !.todo = {}, !.create = {}, !.update = {}, !.delete = {}]

Failed(r) == [r EXCEPT !.errors = TRUE, !.noted = TRUE]

Full == Cardinality(run.create) >= BatchSize

-----------------------------------------------------------------------------
(* The history of `debt`.  A run without errors pays what the status asks  *)
(* for; what the status has forgotten only a full run pays.                *)
Debts == {"none", "owed", "forgotten"}
Owing == IF debt = "none" THEN "owed" ELSE debt
Paid ==
  IF ~run.errors /\ (run.mode = "full" \/ debt = "owed") THEN "none" ELSE debt
Forgotten == IF debt = "owed" THEN "forgotten" ELSE debt

-----------------------------------------------------------------------------
(* rag_client.py.  A call that fails may have reached the engine, and may  *)
(* have been carried out in part.                                          *)
Applied(batch, ok) == IF ok THEN {batch} ELSE SUBSET batch

Outcomes == {ok \in BOOLEAN : ok \/ MayFail("rag")}

Updated(batch) ==
  (docs \ {u.old : u \in batch}) \cup {u.new : u \in batch}

(* list_documents with the filter file_path and limit 1: any document of   *)
(* that path, whoever put it there.                                        *)
NoDoc == [owner |-> "none"]
Holding(p) == {d \in docs : d.path = p}

LookUps(p) ==
  {[doc |-> d, failed |-> FALSE] :
     d \in IF Holding(p) = {} THEN {NoDoc} ELSE Holding(p)}
  \cup
  (IF MayFail("rag") THEN {[doc |-> NoDoc, failed |-> TRUE]} ELSE {})

-----------------------------------------------------------------------------
(* The data source moves on.  A path changes to a text that was never      *)
(* there before, with the fault "revert" also to an older one; rows only   *)
(* arrive.  A forced push leaves nothing but the new commit to clone.      *)
Texts(p) ==
  {Latest[p]} \cup
  CASE Source("kusto") -> IF Latest[p] = 0 THEN {Now + 1} ELSE {}
    [] ~Source("kusto") /\ MayFail("revert") -> 0..(Now + 1)
    [] OTHER -> {0, Now + 1}

Arrivals ==
  IF Source("kusto") /\ run.pc \notin {"idle", "begin", "setup"} THEN {reachable}
  ELSE {reachable \cup {Now + 1}}
       \cup (IF MayFail("force") THEN {{Now + 1}} ELSE {})

Push ==
  /\ Now < scenario.versions
  /\ \E tree \in [Paths -> 0..(Now + 1)] :
       /\ \A p \in Paths : tree[p] \in Texts(p)
       /\ history' = Append(history, tree)
  /\ reachable' \in Arrivals
  /\ UNCHANGED <<scenario, docs, status, run, copy, debt>>
=============================================================================
