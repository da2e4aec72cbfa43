------------------------ MODULE IndexerJobProperties ------------------------
(***************************************************************************)
(* What the Python program of a Job must guarantee about the index and the *)
(* status it leaves, and what is said of it.                               *)
(***************************************************************************)
EXTENDS IndexerJob

TypeOK ==
  /\ scenario \in ScenarioType
  /\ history \in Seq([Paths -> Nat])
  /\ reachable \subseteq Nat
  /\ docs \subseteq Documents
  /\ status \in Statuses
  /\ run \in Runs
  /\ copy \in {"none", "fresh", "stale"}
  /\ debt \in Debts

(* The run has been through all of its items without an error.             *)
CleanRun ==
  run.pc \in {"base", "report", "flag", "complete"} /\ ~run.errors

(* The files a run must have in the index, whichever way it takes there.   *)
Wanted(p) == ShouldIndex(p) /\ ~Fact(p).dotGit /\ Readable(p)

(* A batch, a diff or a query has failed, the status has lost the error    *)
(* that says so, and no full run without errors has come since.  The       *)
(* controller clears AutoIndexerError after each reconcile that succeeds,  *)
(* and the error of a query that fails comes in an update of its own.      *)
ErrorForgotten == debt = "forgotten"

(* No status update fails or meets a stale copy, and no run is killed.     *)
ReportsArrive == ~MayFail("api") /\ ~MayFail("writer") /\ ~MayFail("kill")

(* The text of a file in commit c is one it had before, with another one   *)
(* in between.                                                             *)
Returned(p, c) ==
  \E a \in 1..c : \E b \in a..c : Text(a, p) = Text(c, p) /\ Text(b, p) # Text(c, p)

(* A run that was killed or could not report may have put the text in      *)
(* between into the index; no diff shows that it went back.                *)
GoneBack(p, c) == ~ReportsArrive /\ Returned(p, c)

(* A run that ends without an error has every file of the commit it has    *)
(* cloned in the index with the text of that commit.  For an incremental   *)
(* one (_index_diff_files) that is whatever earlier runs left out, and     *)
(* whatever was pushed, forced, killed or not reported meanwhile, with two *)
(* exceptions the code makes: the error of an earlier run was forgotten,   *)
(* and a file went back to an old text although not every update arrived.  *)
GitRunIsComplete ==
  (Source("git") /\ CleanRun /\ (run.mode = "diff" => ~ErrorForgotten)) =>
    \A p \in Paths :
      (Wanted(p) /\ Text(run.target, p) # 0) =>
        \/ Doc(p, Text(run.target, p)) \in docs
        \/ run.mode = "diff" /\ GoneBack(p, run.target)

(* The commit in the status is a base an incremental run may start from:   *)
(* unless the last run is known to have failed, a file of that commit is   *)
(* in the index, or changed in a later commit and so in the next diff.     *)
(* The exceptions are those of GitRunIsComplete.                           *)
RecordedCommitIsABase ==
  (Source("git") /\ status.commit # 0 /\ ~status.error /\ ~ErrorForgotten) =>
    \A p \in Paths :
      LET text == Text(status.commit, p)
      IN  (Wanted(p) /\ text # 0) =>
            \/ Doc(p, text) \in docs
            \/ \E c \in (status.commit + 1)..Now : Text(c, p) # text
            \/ GoneBack(p, status.commit)

(* A run over the URLs that ends without an error has indexed every one of *)
(* them that has text, no older than when the run began: no batch is lost  *)
(* between the loop and the call after it.                                 *)
StaticRunIsComplete ==
  (Source("static") /\ CleanRun) =>
    \A p \in Paths :
      Readable(p) =>
        \E c \in run.target..Now : Doc(p, Text(c, p)) \in docs

(* The time in the status is one an incremental query may start from:      *)
(* unless the last run is known to have failed, every row up to then is in *)
(* the index, although failed runs move the time too.  The code makes two  *)
(* exceptions: rows that arrive during a run, and errors that are          *)
(* forgotten - cleared by the controller, or, for a query, lost with the   *)
(* update that follows the report or the run killed before it.             *)
StampCoversRows ==
  (Source("kusto") /\ At("idle") /\ ~status.error /\ ~ErrorForgotten) =>
    \A p \in Paths :
      (Readable(p) /\ Latest[p] \in reachable /\ Latest[p] <= status.stamp) =>
        Doc(p, Latest[p]) \in docs

(* A document without a declared charset that is UTF-8 is read as UTF-8,   *)
(* whatever chardet takes it for, and no document has replacement          *)
(* characters: TextContentHandler gets to an encoding that fits first.     *)
DocumentsAreLegible ==
  (Source("git") \/ Source("static")) =>
    \A p \in {d.path : d \in docs \ Others} :
      LET file == IF Source("git") THEN GitFile(Fact(p).file) ELSE Fact(p).file
      IN  GetHandler(file) = "Text" =>
            /\ DecodedAs(file) # "utf-8 with replacements"
            /\ file.charset = "" /\ file.bytes \in Unicode
                 => DecodedAs(file) = "utf-8"

(* Files anybody would expect text of: text that says so, and PDFs with a  *)
(* page or a table that can be read.                                       *)
HasText(file) ==
  \/ file.type = "text/plain" /\ file.extension = ".txt" /\ file.bytes # "empty"
  \/ /\ file.type = "application/pdf" /\ file.extension \in {"", ".pdf"}
     /\ \E i \in DOMAIN file.pages :
          \/ file.pages[i].text = "text"
          \/ /\ file.pages[i].text = "blank"
             /\ \E t \in DOMAIN file.pages[i].tables :
                  LET table == file.pages[i].tables[t]
                  IN  \E r \in DOMAIN table : \E c \in DOMAIN table[r] :
                        table[r][c] = "word"

(* URLs that are all there and hold such files are indexed without an      *)
(* error: no page or table that cannot be read costs a PDF the others.     *)
GoodFilesAreIndexed ==
  (/\ Source("static") /\ scenario.faults = {}
   /\ \A p \in Paths : HasText(Fact(p).file) /\ \A c \in 1..Now : Text(c, p) # 0) =>
    /\ ~run.errors
    /\ At("complete") => \A p \in Paths : \E c \in 1..Now : Doc(p, Text(c, p)) \in docs

(* What a run may index: a file the specification lets through, or a URL   *)
(* or row, that gives a text.                                              *)
Permitted == {p \in Paths : Readable(p) /\ (Source("git") => ShouldIndex(p))}

Checkpoint == IF Source("git") THEN status.commit ELSE status.stamp

Ingest ==
  INSTANCE Ingestion WITH source <- history, files <- Permitted,
                          checkpoint <- Checkpoint

(* The Job implements Ingestion, with every source and every fault: what   *)
(* goes into the index is a text of a permitted file; a document goes only *)
(* for a new one or because its file was deleted, and not while the file   *)
(* is as it was at the commit in the status; the commit, or the time of    *)
(* the last query, never goes back.                                        *)
IndexIsIngested == Ingest!Spec

(* Once no run fails any more, and runs get to their end, the index        *)
(* catches up with the data source, whatever runs that failed, were killed *)
(* or whose reports were lost have left behind: the next runs repeat or    *)
(* recover what they missed.  The exceptions are those of the properties   *)
(* above: errors that stay forgotten, files that went back to an old text, *)
(* rows that arrived during a run.                                         *)
CaughtUp ==
  CASE Source("git") ->
         scenario.pin = 0 =>
           \A p \in Paths :
             (Wanted(p) /\ Latest[p] # 0) =>
               Doc(p, Latest[p]) \in docs \/ GoneBack(p, Now)
    [] Source("static") ->
         \A p \in Paths : Readable(p) => Doc(p, Latest[p]) \in docs
    [] Source("kusto") ->
         \A p \in Paths :
           (Readable(p) /\ Latest[p] \in reachable) => Doc(p, Latest[p]) \in docs

IndexCatchesUp ==
  (<>[](~run.errors /\ ~ErrorForgotten) /\ []<>At("complete")) => <>[]CaughtUp

-----------------------------------------------------------------------------
(* What follows is said of the code and does not hold of it.               *)

(* "Delete a batch of documents" (_delete_documents_batch): when nothing   *)
(* fails, the documents of the files a diff shows as deleted go.           *)
DeletedFilesLeave ==
  (Source("git") /\ At("complete") /\ run.mode = "diff") =>
    \A p \in Deleted(run.from, run.target) : ShouldIndex(p) => Holding(p) = {}
=============================================================================
