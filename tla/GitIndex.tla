------------------------------ MODULE GitIndex ------------------------------
(***************************************************************************)
(* Why incremental runs are as good as full ones: the index follows a      *)
(* repository through any number of pushes, failed batches, killed runs,   *)
(* lost reports and forced pushes, unless the controller clears the error  *)
(* of a run that left something out, and but for files that go back to a   *)
(* text they had before while updates are lost.  IndexInv is the inductive *)
(* invariant behind it.                                                    *)
(***************************************************************************)
EXTENDS IngestionRefinement

(* A handler for a repository reports its errors both ways.                *)
ErrorsAreNoted == run.errors = run.noted

(* The run works from the commit that is in the status.                    *)
RunFollowsStatus ==
  run.pc \in {"begin", "setup", "index"} => run.from = status.commit

(* Until the report of a run is in, the index is ahead of the status.      *)
Unreported == {"index", "base", "report"}

(* The file is no longer what it was in the recorded commit.  When every   *)
(* report arrives, only the run under way can have replaced it.            *)
Overtaken(p) ==
  IF ReportsArrive
  THEN /\ run.pc \in Unreported
       /\ status.commit < run.target
       /\ Text(run.target, p) # Text(status.commit, p)
  ELSE \E c \in (status.commit + 1)..Now : Text(c, p) # Text(status.commit, p)

(* Of the recorded commit a file is in the index or is no longer current.  *)
RecordedCommitIsIndexed ==
  status.commit # 0 =>
    \A p \in Paths :
      (Wanted(p) /\ Text(status.commit, p) # 0) =>
        \/ Doc(p, Text(status.commit, p)) \in docs
        \/ Overtaken(p)
        \/ GoneBack(p, status.commit)

(* If it is not, a run failed, and the status says so or has forgotten it. *)
FailuresAreKnown ==
  \/ RecordedCommitIsIndexed
  \/ ErrorForgotten
  \/ debt = "owed" /\ status.error

(* The same of a run that has read the status and not begun its work.      *)
RunKnowsFailures ==
  run.pc \in {"begin", "setup"} =>
    RecordedCommitIsIndexed \/ ErrorForgotten \/ run.recover

(* What a modified or renamed file replaces is out of date.                *)
Replaces(old) ==
  /\ run.from # 0 /\ run.from <= run.target
  /\ Text(run.from, old) # Text(run.target, old)

EntryIsSound(item) ==
  item.change \in {"M", "R"} =>
    /\ Replaces(item.old)
    /\ item.old = item.path \/ Text(run.target, item.old) = 0

UpdateIsSound(u) ==
  /\ Replaces(u.old.path)
  /\ u.new = New(u.new.path)
  /\ u.old.path = u.new.path \/ Text(run.target, u.old.path) = 0

ListsAreSound ==
  At("index") =>
    /\ \A item \in run.todo : EntryIsSound(item)
    /\ \A u \in run.update : UpdateIsSound(u)

(* A run that has left something out, and one from a base that may not be  *)
(* indexed.                                                                *)
MissesSomething ==
  \/ run.noted /\ debt # "none"
  \/ run.mode = "diff" /\ ErrorForgotten

(* Nothing else that is wanted falls between the lists.                    *)
OnItsWay(p) ==
  \/ New(p) \in docs
  \/ \E item \in run.todo : item.path = p /\ item.change \in {"A", "M", "R"}
  \/ New(p) \in run.create
  \/ \E u \in run.update : u.new = New(p)

NotShown(p) == run.mode = "diff" /\ GoneBack(p, run.target)

NothingIsLost ==
  (At("index") /\ ~MissesSomething) =>
    \A p \in Paths :
      (Wanted(p) /\ Text(run.target, p) # 0) => OnItsWay(p) \/ NotShown(p)

(* A run that is through has indexed the commit it has cloned.             *)
IsThrough == run.pc \in {"base", "report", "flag", "complete"}

RunHasIndexed ==
  (IsThrough /\ run.target # 0 /\ ~MissesSomething) =>
    \A p \in Paths :
      (Wanted(p) /\ Text(run.target, p) # 0) => New(p) \in docs \/ NotShown(p)

(* Only a run with an error gets that far without a clone.                 *)
CleanRunHasCloned == CleanRun => run.target # 0

(* Nothing is to be replaced before the difference is known.               *)
RunStartsEmpty == run.pc \in {"begin", "setup"} => run.update = {} /\ run.target = 0

RunInv ==
  /\ ErrorsAreNoted
  /\ RunStartsEmpty
  /\ RunFollowsStatus
  /\ ListsAreSound
  /\ NothingIsLost
  /\ RunHasIndexed
  /\ CleanRunHasCloned

CopyIsFresh == ReportsArrive => copy # "stale"

(* The inductive invariant.                                                *)
IndexInv ==
  Source("git") =>
    /\ CopyIsFresh
    /\ FailuresAreKnown
    /\ RunKnowsFailures
    /\ RunInv

-----------------------------------------------------------------------------
(* Before the first run nothing is recorded and nothing is under way.      *)
LEMMA InitIndexed ==
  ASSUME Init
  PROVE  IndexInv
<1>1. RecordedCommitIsIndexed BY DEF Init, RecordedCommitIsIndexed
<1>2. RunInv
  BY DEF Init, NoRun, RunInv, ErrorsAreNoted, RunStartsEmpty, RunFollowsStatus, ListsAreSound,
         NothingIsLost, RunHasIndexed, IsThrough, CleanRunHasCloned, CleanRun, At
<1>3. CopyIsFresh BY DEF Init, CopyIsFresh
<1>4. FailuresAreKnown /\ RunKnowsFailures
  BY <1>1 DEF FailuresAreKnown, RunKnowsFailures
<1> QED BY <1>2, <1>3, <1>4 DEF IndexInv

(* What a file is does not change.                                         *)
LEMMA WantedIsStable ==
  ASSUME UNCHANGED scenario, NEW p
  PROVE  Wanted(p)' = Wanted(p)
BY ReadableIsStable DEF Wanted, ShouldIndex, Fact

(* Nor does the scenario.                                                  *)
LEMMA ScenarioIsStable ==
  ASSUME UNCHANGED scenario
  PROVE  ReportsArrive' = ReportsArrive /\ Source("git")' = Source("git")
BY DEF ReportsArrive, Source, MayFail

(* What was in the repository before a push is there afterwards.           *)
LEMMA PushKeepsPast ==
  ASSUME TypeInv, Push
  PROVE  /\ Now' = Now + 1 /\ Now \in Nat /\ Now # 0
         /\ \A c \in 1..Now, p \in Paths : Text(c, p)' = Text(c, p)
         /\ \A c \in 1..Now, p \in Paths : GoneBack(p, c)' = GoneBack(p, c)
<1>1. /\ Now' = Now + 1 /\ Now \in Nat /\ Now # 0
      /\ \A c \in 1..Now, p \in Paths : Text(c, p)' = Text(c, p)
  BY PushAppends
<1>2. ASSUME NEW c \in 1..Now, NEW p \in Paths
      PROVE  Returned(p, c)' = Returned(p, c)
  <2>1. \A a \in 1..c : a \in 1..Now BY <1>1
  <2>2. \A a \in 1..c : \A b \in a..c : b \in 1..Now BY <1>1
  <2> QED BY <1>1, <2>1, <2>2 DEF Returned
<1>3. ReportsArrive' = ReportsArrive BY ScenarioIsStable DEF Push
<1> QED BY <1>1, <1>2, <1>3 DEF GoneBack

(* A file that was overtaken stays so, any other is where it was.          *)
LEMMA PushKeepsRecorded ==
  ASSUME TypeInv, Push, RecordedCommitIsIndexed
  PROVE  RecordedCommitIsIndexed'
<1>1. /\ Now' = Now + 1 /\ Now \in Nat /\ Now # 0
      /\ \A c \in 1..Now, p \in Paths : Text(c, p)' = Text(c, p)
      /\ \A c \in 1..Now, p \in Paths : GoneBack(p, c)' = GoneBack(p, c)
  BY PushKeepsPast
<1>2. UNCHANGED <<scenario, docs, status, run>> BY DEF Push
<1>3. run.target \in 0..Now BY DEF TypeInv, Bounds
<1> SUFFICES ASSUME (status.commit # 0)', NEW p \in Paths,
                    Wanted(p)', Text(status.commit, p)' # 0,
                    ~GoneBack(p, status.commit)'
             PROVE  \/ Doc(p, Text(status.commit, p))' \in docs'
                    \/ Overtaken(p)'
  BY DEF RecordedCommitIsIndexed
<1>4. status.commit \in 1..Now /\ status.commit \in Nat BY <1>2 DEF TypeInv, Bounds
<1>5. /\ Text(status.commit, p)' = Text(status.commit, p)
      /\ GoneBack(p, status.commit)' = GoneBack(p, status.commit)
  <2>1. PICK b \in 1..Now : b = status.commit BY <1>4
  <2>2. Text(b, p)' = Text(b, p) /\ GoneBack(p, b)' = GoneBack(p, b) BY <1>1
  <2>3. status'.commit = b BY <1>2, <2>1
  <2> QED BY <1>1, <1>2, <2>1, <2>2, <2>3 DEF Text, GoneBack, Returned
<1>6. Wanted(p)
  BY <1>2 DEF Wanted, ShouldIndex, Readable, Content, Fact, Source, GitFile
<1>7. CASE Doc(p, Text(status.commit, p)) \in docs
  BY <1>2, <1>5, <1>7 DEF Doc
<1>8. CASE Overtaken(p)
  <2>1. CASE ReportsArrive
    <3>1. run.pc \in Unreported /\ status.commit < run.target
      BY <1>8, <2>1 DEF Overtaken
    <3>2. run.target \in 1..Now BY <1>1, <1>3, <1>4, <3>1
    <3>3. Text(run.target, p)' = Text(run.target, p)
      BY <1>1, <1>2, <3>2 DEF Text
    <3> QED
      BY <1>2, <1>5, <1>8, <2>1, <3>1, <3>3, ScenarioIsStable DEF Overtaken
  <2>2. CASE ~ReportsArrive
    <3>1. PICK c \in (status.commit + 1)..Now : Text(c, p) # Text(status.commit, p)
      BY <1>8, <2>2 DEF Overtaken
    <3>2. c \in 1..Now /\ c \in (status.commit + 1)..(Now + 1) BY <1>1, <1>4
    <3>3. Text(c, p)' = Text(c, p) BY <1>1, <3>2
    <3> QED
      BY <1>1, <1>2, <1>5, <2>2, <3>1, <3>2, <3>3, ScenarioIsStable DEF Overtaken
  <2> QED BY <2>1, <2>2
<1> QED BY <1>2, <1>4, <1>5, <1>6, <1>7, <1>8 DEF RecordedCommitIsIndexed

(* A run works on its clone, which a push does not reach.                  *)
LEMMA PushKeepsRunInv ==
  ASSUME TypeInv, Push, RunInv
  PROVE  RunInv'
<1>1. /\ Now' = Now + 1 /\ Now \in Nat /\ Now # 0
      /\ \A c \in 1..Now, p \in Paths : Text(c, p)' = Text(c, p)
      /\ \A c \in 1..Now, p \in Paths : GoneBack(p, c)' = GoneBack(p, c)
  BY PushKeepsPast
<1>2. UNCHANGED <<scenario, docs, status, run, debt>> BY DEF Push
<1>3. \A p \in Paths : Wanted(p)' = Wanted(p) BY <1>2, WantedIsStable
<1>4. run.from \in 0..Now /\ run.target \in 0..Now /\ (At("index") => run.target # 0)
  BY DEF TypeInv, Bounds
<1>5. run.from # 0 => \A p \in Paths : Text(run.from, p)' = Text(run.from, p)
  <2>1. run.from # 0 => run.from \in 1..Now BY <1>1, <1>4
  <2> QED BY <1>1, <1>2, <2>1 DEF Text
<1>6. run.target # 0 =>
        \A p \in Paths : /\ Text(run.target, p)' = Text(run.target, p)
                         /\ NotShown(p)' = NotShown(p)
  <2> SUFFICES ASSUME run.target # 0, NEW p \in Paths
               PROVE  /\ Text(run.target, p)' = Text(run.target, p)
                      /\ NotShown(p)' = NotShown(p)
    OBVIOUS
  <2>1. run.target \in 1..Now BY <1>1, <1>4
  <2>2. PICK b \in 1..Now : b = run.target BY <2>1
  <2>3. Text(b, p)' = Text(b, p) /\ GoneBack(p, b)' = GoneBack(p, b) BY <1>1
  <2>4. run'.target = b /\ run'.mode = run.mode BY <1>2, <2>2
  <2>5. Text(run.target, p)' = Text(b, p)' /\ GoneBack(p, run.target)' = GoneBack(p, b)'
    BY <2>4 DEF Text, GoneBack, Returned
  <2> QED BY <2>2, <2>3, <2>4, <2>5 DEF NotShown
<1>7. run.target # 0 => \A p \in Paths : New(p)' = New(p)
  BY <1>2, <1>6 DEF New, Doc
<1>8. run \in Runs BY DEF TypeInv, TypeOK
<1>9. /\ ErrorsAreNoted' /\ RunStartsEmpty' /\ RunFollowsStatus' /\ CleanRunHasCloned'
      /\ MissesSomething' = MissesSomething
  BY <1>2 DEF RunInv, ErrorsAreNoted, RunStartsEmpty, RunFollowsStatus,
              CleanRunHasCloned, CleanRun, MissesSomething, ErrorForgotten
<1>10. ListsAreSound'
  <2> SUFFICES ASSUME At("index")'
               PROVE  /\ \A item \in run.todo : EntryIsSound(item)'
                      /\ \A u \in run.update : UpdateIsSound(u)'
    BY <1>2 DEF ListsAreSound, EntryIsSound, UpdateIsSound, Replaces
  <2>1. At("index") /\ ListsAreSound BY <1>2 DEF At, RunInv
  <2>2. ASSUME NEW item \in run.todo PROVE EntryIsSound(item)'
    <3>1. item.old \in Paths BY <1>8 DEF Runs, Items
    <3>2. EntryIsSound(item) BY <2>1 DEF ListsAreSound
    <3> QED BY <1>2, <1>4, <1>5, <1>6, <2>1, <3>1, <3>2 DEF EntryIsSound, Replaces
  <2>3. ASSUME NEW u \in run.update PROVE UpdateIsSound(u)'
    <3>1. u.old.path \in Paths /\ u.new.path \in Paths BY <1>8 DEF Runs, Documents
    <3>2. UpdateIsSound(u) BY <2>1 DEF ListsAreSound
    <3> QED BY <1>2, <1>4, <1>5, <1>6, <1>7, <2>1, <3>1, <3>2 DEF UpdateIsSound, Replaces
  <2> QED BY <2>2, <2>3
<1>11. NothingIsLost'
  <2> SUFFICES ASSUME (At("index") /\ ~MissesSomething)', NEW p \in Paths,
                      Wanted(p)', Text(run.target, p)' # 0, ~NotShown(p)'
               PROVE  OnItsWay(p)'
    BY DEF NothingIsLost
  <2>1. At("index") /\ ~MissesSomething /\ run.target # 0 BY <1>2, <1>4, <1>9 DEF At
  <2>2. OnItsWay(p) BY <1>3, <1>6, <2>1 DEF RunInv, NothingIsLost
  <2> QED BY <1>2, <1>7, <2>1, <2>2 DEF OnItsWay
<1>12. RunHasIndexed'
  <2> SUFFICES ASSUME (IsThrough /\ run.target # 0 /\ ~MissesSomething)', NEW p \in Paths,
                      Wanted(p)', Text(run.target, p)' # 0, ~NotShown(p)'
               PROVE  New(p)' \in docs'
    BY DEF RunHasIndexed
  <2>1. IsThrough /\ ~MissesSomething /\ run.target # 0 BY <1>2, <1>9 DEF IsThrough
  <2> QED BY <1>2, <1>3, <1>6, <1>7, <2>1 DEF RunInv, RunHasIndexed
<1> QED BY <1>9, <1>10, <1>11, <1>12 DEF RunInv

(* A push keeps the invariant.                                             *)
LEMMA PushIndexed ==
  ASSUME TypeInv, IndexInv, Push
  PROVE  IndexInv'
<1>1. ReportsArrive' = ReportsArrive /\ Source("git")' = Source("git")
  BY ScenarioIsStable DEF Push
<1>2. CopyIsFresh => CopyIsFresh' BY <1>1 DEF CopyIsFresh, Push
<1>3. FailuresAreKnown => FailuresAreKnown'
  BY PushKeepsRecorded DEF FailuresAreKnown, ErrorForgotten, Push
<1>4. RunKnowsFailures => RunKnowsFailures'
  BY PushKeepsRecorded DEF RunKnowsFailures, ErrorForgotten, Push
<1> QED BY <1>1, <1>2, <1>3, <1>4, PushKeepsRunInv DEF IndexInv

-----------------------------------------------------------------------------
(* Steps of the program leave the repository alone.  While a run goes on   *)
(* the terms of its invariant mean the same.                               *)
LEMMA TermsStay ==
  ASSUME UNCHANGED world, run'.from = run.from, run'.target = run.target
  PROVE  /\ \A p : New(p)' = New(p)
         /\ \A p : Text(run.target, p)' = Text(run.target, p)
         /\ \A item : EntryIsSound(item)' = EntryIsSound(item)
         /\ \A u : UpdateIsSound(u)' = UpdateIsSound(u)
         /\ \A p : Wanted(p)' = Wanted(p)
         /\ run'.mode = run.mode => \A p : NotShown(p)' = NotShown(p)
<1>1. \A p : Text(run.target, p)' = Text(run.target, p) BY DEF Text, world
<1>2. \A p : New(p)' = New(p) BY <1>1 DEF New, Doc
<1>3. \A p : Replaces(p)' = Replaces(p) BY DEF Replaces, Text, world
<1>4. \A item : EntryIsSound(item)' = EntryIsSound(item)
  BY <1>1, <1>3 DEF EntryIsSound
<1>5. \A u : UpdateIsSound(u)' = UpdateIsSound(u)
  BY <1>1, <1>2, <1>3 DEF UpdateIsSound
<1>6. \A p : Wanted(p)' = Wanted(p) BY WantedIsStable DEF world
<1>7. run'.mode = run.mode => \A p : NotShown(p)' = NotShown(p)
  BY DEF NotShown, GoneBack, Returned, ReportsArrive, MayFail, Text, world
<1> QED BY <1>1, <1>2, <1>4, <1>5, <1>6, <1>7

(* Documents are only added, and the status records the same commit.       *)
LEMMA RecordedStays ==
  ASSUME UNCHANGED world, status'.commit = status.commit, docs \subseteq docs',
         (ReportsArrive /\ run.pc \in Unreported) =>
           run'.pc \in Unreported /\ run'.target = run.target,
         RecordedCommitIsIndexed
  PROVE  RecordedCommitIsIndexed'
<1>1. \A p \in Paths : Wanted(p)' = Wanted(p) BY WantedIsStable DEF world
<1>2. \A p \in Paths : Text(status.commit, p)' = Text(status.commit, p)
  BY DEF Text, world
<1>3. \A p \in Paths : Overtaken(p) => Overtaken(p)'
  BY <1>2 DEF world, Overtaken, ReportsArrive, MayFail, Text, Now
<1>4. \A p \in Paths : GoneBack(p, status.commit)' = GoneBack(p, status.commit)
  BY DEF world, GoneBack, Returned, ReportsArrive, MayFail, Text
<1> QED BY <1>1, <1>2, <1>3, <1>4 DEF RecordedCommitIsIndexed, Doc

(* What a step that is not a report has to keep of what is known.          *)
LEMMA KnownStays ==
  ASSUME FailuresAreKnown, RunKnowsFailures,
         RecordedCommitIsIndexed => RecordedCommitIsIndexed',
         ErrorForgotten => ErrorForgotten',
         (debt = "owed" /\ status.error) => (debt' = "owed" /\ status'.error) \/ ErrorForgotten',
         run'.pc \in {"begin", "setup"} =>
           run.pc \in {"begin", "setup"} /\ run'.recover = run.recover
  PROVE  FailuresAreKnown' /\ RunKnowsFailures'
BY DEF FailuresAreKnown, RunKnowsFailures

(* A run that ends with an error needs no more than to have noted it, if   *)
(* something is owed or nothing was cloned.                                *)
LEMMA FailedRunInv ==
  ASSUME run'.errors, run'.noted, run'.pc = "base",
         debt' # "none" \/ run'.target = 0
  PROVE  RunInv'
BY DEF RunInv, ErrorsAreNoted, RunStartsEmpty, RunFollowsStatus, ListsAreSound,
       NothingIsLost, RunHasIndexed, MissesSomething, CleanRunHasCloned, CleanRun, At

(* What the setup of a run has to establish.                               *)
LEMMA SetupFull ==
  ASSUME TypeInv, RunInv, At("setup"), UNCHANGED <<world, docs, status>>,
         NEW c \in 1..Now, IndexAllFiles(c)
  PROVE  RunInv'
<1>1. run \in Runs BY DEF TypeInv, TypeOK
<1>2. /\ run'.pc = "index" /\ run'.target = c /\ run'.todo = AllFiles(c)
      /\ run'.from = run.from /\ run'.update = run.update
      /\ run'.errors = run.errors /\ run'.noted = run.noted
  BY <1>1 DEF IndexAllFiles, Runs
<1>3. /\ ErrorsAreNoted' /\ RunStartsEmpty' /\ RunFollowsStatus'
      /\ RunHasIndexed' /\ CleanRunHasCloned'
  BY <1>2 DEF RunInv, ErrorsAreNoted, RunStartsEmpty, RunFollowsStatus,
              RunHasIndexed, IsThrough, CleanRunHasCloned, CleanRun, At
<1>4. ListsAreSound'
  <2>1. \A item \in run'.todo : item.change = "A" BY <1>2 DEF AllFiles, Item
  <2>2. run'.update = {} BY <1>2 DEF RunInv, RunStartsEmpty, At
  <2> QED BY <2>1, <2>2 DEF ListsAreSound, EntryIsSound
<1>5. NothingIsLost'
  <2> SUFFICES ASSUME NEW p \in Paths, Wanted(p)', Text(run.target, p)' # 0
               PROVE  OnItsWay(p)'
    BY DEF NothingIsLost
  <2>1. Text(c, p) # 0 BY <1>2 DEF Text, world
  <2>2. Wanted(p) BY WantedIsStable DEF world
  <2>3. p \in RepositoryFiles(c) BY <2>1, <2>2 DEF RepositoryFiles, Wanted
  <2>4. Item("A", p, p) \in run'.todo BY <1>2, <2>3 DEF AllFiles
  <2> QED BY <2>4 DEF OnItsWay, Item
<1> QED BY <1>3, <1>4, <1>5 DEF RunInv

(* What is not in the diff is indexed, by the recorded commit, if it has   *)
(* not gone back to what it was.                                           *)
LEMMA SetupDiff ==
  ASSUME TypeInv, RunInv, RunKnowsFailures, At("setup"),
         UNCHANGED <<world, docs, status, debt>>,
         DiffPossible, IndexDiffFiles(Target), Target \in 1..Now
  PROVE  RunInv'
<1> DEFINE b == run.from
<1>1. run \in Runs /\ b \in 1..Now /\ Target = Now /\ Now \in Nat
  BY DEF TypeInv, TypeOK, Bounds, DiffPossible, Target
<1>2. PICK renames \in Renames(b, Now) :
        run' = [run EXCEPT !.pc = "index", !.mode = "diff", !.target = Now,
                           !.todo = Diff(b, Now, renames)]
  BY <1>1 DEF IndexDiffFiles
<1>3. /\ run'.pc = "index" /\ run'.target = Now /\ run'.todo = Diff(b, Now, renames)
      /\ run'.from = b /\ run'.mode = "diff" /\ run'.update = run.update
      /\ run'.errors = run.errors /\ run'.noted = run.noted
  BY <1>1, <1>2 DEF Runs
<1>4. /\ ErrorsAreNoted' /\ RunStartsEmpty' /\ RunFollowsStatus'
      /\ RunHasIndexed' /\ CleanRunHasCloned'
  BY <1>3 DEF RunInv, ErrorsAreNoted, RunStartsEmpty, RunFollowsStatus,
              RunHasIndexed, IsThrough, CleanRunHasCloned, CleanRun, At
<1>5. ListsAreSound'
  <2>1. ASSUME NEW item \in Diff(b, Now, renames), item.change \in {"M", "R"}
        PROVE  /\ Text(b, item.old) # Text(Now, item.old)
               /\ item.old = item.path \/ Text(Now, item.old) = 0
    <3>1. CASE \E p \in Added(b, Now) :
                 item = Item(IF renames[p] = p THEN "A" ELSE "R", p, renames[p])
      <4>1. PICK p \in Added(b, Now) :
              item = Item(IF renames[p] = p THEN "A" ELSE "R", p, renames[p])
        BY <3>1
      <4>2. item.old = renames[p] /\ renames[p] # p BY <2>1, <4>1 DEF Item
      <4>3. renames[p] \in Deleted(b, Now) BY <4>2 DEF Renames
      <4> QED BY <4>2, <4>3 DEF Deleted, Changed
    <3>2. CASE \E p \in Modified(b, Now) : item = Item("M", p, p)
      BY <3>2 DEF Modified, Changed, Item
    <3>3. CASE \E p \in Paths : item = Item("D", p, p) BY <2>1, <3>3 DEF Item
    <3> QED BY <3>1, <3>2, <3>3 DEF Diff, Deleted, Changed
  <2>2. run'.update = {} BY <1>3 DEF RunInv, RunStartsEmpty, At
  <2>3. ASSUME NEW item \in run'.todo PROVE EntryIsSound(item)'
    BY <1>1, <1>3, <2>1 DEF EntryIsSound, Replaces, Text, world
  <2> QED BY <2>2, <2>3 DEF ListsAreSound
<1>6. NothingIsLost'
  <2> SUFFICES ASSUME ~MissesSomething', NEW p \in Paths,
                      Wanted(p)', Text(run.target, p)' # 0, ~NotShown(p)'
               PROVE  OnItsWay(p)'
    BY DEF NothingIsLost
  <2>1. Text(Now, p) # 0 BY <1>3 DEF Text, world
  <2>2. Wanted(p) BY WantedIsStable DEF world
  <2>3. New(p)' = Doc(p, Text(Now, p)) BY <1>3 DEF New, Text, Doc, world
  <2>4. CASE Text(b, p) = Text(Now, p)
    <3>1. status.commit = b /\ b # 0 /\ ~run.recover
      BY DEF DiffPossible, RunInv, RunFollowsStatus, At
    <3>2. RecordedCommitIsIndexed
      BY <1>3, <3>1 DEF RunKnowsFailures, At, MissesSomething, ErrorForgotten
    <3>3. ~GoneBack(p, Now)
      BY <1>3 DEF NotShown, GoneBack, Returned, ReportsArrive, MayFail, Text, world
    <3>4. ReportsArrive => ~Overtaken(p) BY DEF Overtaken, Unreported, At
    <3>5. ASSUME ~ReportsArrive, Overtaken(p) PROVE GoneBack(p, Now)
      <4>1. PICK c \in (b + 1)..Now : Text(c, p) # Text(b, p)
        BY <3>1, <3>5 DEF Overtaken
      <4>2. b \in 1..Now /\ c \in b..Now BY <1>1
      <4> QED BY <2>4, <3>5, <4>1, <4>2 DEF GoneBack, Returned
    <3>6. ASSUME GoneBack(p, b) PROVE GoneBack(p, Now)
      <4>1. PICK a \in 1..b : \E c \in a..b : Text(a, p) = Text(b, p) /\ Text(c, p) # Text(b, p)
        BY <3>6 DEF GoneBack, Returned
      <4>2. PICK c \in a..b : Text(a, p) = Text(b, p) /\ Text(c, p) # Text(b, p)
        BY <4>1
      <4>3. a \in 1..Now /\ c \in a..Now BY <1>1
      <4> QED BY <2>4, <3>6, <4>2, <4>3 DEF GoneBack, Returned
    <3>7. Doc(p, Text(Now, p)) \in docs
      BY <2>1, <2>2, <2>4, <3>1, <3>2, <3>3, <3>4, <3>5, <3>6 DEF RecordedCommitIsIndexed
    <3> QED BY <2>3, <3>7 DEF OnItsWay
  <2>5. CASE Text(b, p) # Text(Now, p)
    <3>1. p \in Added(b, Now) \/ p \in Modified(b, Now)
      BY <2>1, <2>5 DEF Added, Modified, Deleted, Changed
    <3>2. CASE p \in Added(b, Now)
      <4>1. Item(IF renames[p] = p THEN "A" ELSE "R", p, renames[p]) \in run'.todo
        BY <1>3, <3>2 DEF Diff
      <4> QED BY <4>1 DEF OnItsWay, Item
    <3>3. CASE p \in Modified(b, Now)
      <4>1. Item("M", p, p) \in run'.todo BY <1>3, <3>3 DEF Diff
      <4> QED BY <4>1 DEF OnItsWay, Item
    <3> QED BY <3>1, <3>2, <3>3
  <2> QED BY <2>4, <2>5
<1> QED BY <1>4, <1>5, <1>6 DEF RunInv

(* _setup_repository and the choice between full and incremental runs.     *)
LEMMA SetupIndexed ==
  ASSUME TypeInv, RunInv, RunKnowsFailures, SetupRepository
  PROVE  RunInv'
<1>1. Target \in 1..Now /\ At("setup") BY DEF SetupRepository, TypeInv, Bounds
<1>2. run \in Runs /\ debt \in Debts BY DEF TypeInv, TypeOK
<1>3. CASE IndexAllFiles(Target) BY <1>1, <1>3, SetupFull DEF SetupRepository
<1>4. CASE DiffPossible /\ IndexDiffFiles(Target) /\ debt' = debt
  BY <1>1, <1>4, SetupDiff DEF SetupRepository
<1>5. CASE run' = Left(Failed([run EXCEPT !.target = Target])) /\ debt' = Owing
  <2> DEFINE r == [run EXCEPT !.target = Target]
  <2>1. r \in Runs BY <1>1, <1>2 DEF Runs, TypeInv, Bounds
  <2> HIDE DEF r
  <2>2. run'.errors /\ run'.noted /\ run'.pc = "base"
    BY <1>5, <2>1, FailedIsRun, LeftIsRun DEF r
  <2>3. debt' # "none" BY <1>5 DEF Owing
  <2> QED BY <2>2, <2>3, FailedRunInv
<1> QED BY <1>3, <1>4, <1>5 DEF SetupRepository

-----------------------------------------------------------------------------
(* A step of the loop over the files: what stays of RunInv by itself.      *)
LEMMA LoopRunInv ==
  ASSUME RunInv, At("index"), UNCHANGED <<world, status>>,
         run'.pc = "index", run'.from = run.from, run'.errors = run'.noted,
         ListsAreSound', NothingIsLost'
  PROVE  RunInv'
BY DEF RunInv, ErrorsAreNoted, RunStartsEmpty, RunFollowsStatus,
       RunHasIndexed, IsThrough, CleanRunHasCloned, CleanRun, At

(* What a run misses it goes on missing.                                   *)
LEMMA MissesStays ==
  ASSUME run'.mode = run.mode, run.noted => run'.noted,
         debt # "none" => debt' # "none", ErrorForgotten => ErrorForgotten',
         MissesSomething
  PROVE  MissesSomething'
BY DEF MissesSomething

(* An item leaves the list for one of the batches.                         *)
LEMMA ItemDone ==
  ASSUME TypeInv, RunInv, At("index"), UNCHANGED <<world, docs, status, debt>>,
         NEW item \in run.todo,
         run'.pc = "index", run'.from = run.from, run'.target = run.target,
         run'.mode = run.mode, run'.errors = run'.noted, run.noted => run'.noted,
         run'.todo = run.todo \ {item},
         run.create \subseteq run'.create, run.update \subseteq run'.update,
         \A u \in run'.update \ run.update : UpdateIsSound(u),
         (item.change # "D" /\ Wanted(item.path)) =>
           \/ New(item.path) \in run'.create
           \/ \E u \in run'.update : u.new = New(item.path)
  PROVE  RunInv'
<1>1. ListsAreSound'
  <2>1. \A i \in run'.todo : EntryIsSound(i) BY DEF RunInv, ListsAreSound
  <2>2. \A u \in run'.update : UpdateIsSound(u) BY DEF RunInv, ListsAreSound
  <2>3. \A i \in run'.todo : EntryIsSound(i)' BY <2>1, TermsStay
  <2>4. \A u \in run'.update : UpdateIsSound(u)' BY <2>2, TermsStay
  <2> QED BY <2>3, <2>4 DEF ListsAreSound
<1>2. NothingIsLost'
  <2> SUFFICES ASSUME ~MissesSomething', NEW p \in Paths, Wanted(p)',
                      Text(run.target, p)' # 0, ~NotShown(p)'
               PROVE  OnItsWay(p)'
    BY DEF NothingIsLost
  <2>1. New(p)' = New(p) /\ Wanted(p) /\ Text(run.target, p) # 0 /\ ~NotShown(p)
    BY TermsStay
  <2>2. ~MissesSomething BY MissesStays DEF ErrorForgotten
  <2>3. OnItsWay(p) BY <2>1, <2>2 DEF RunInv, NothingIsLost
  <2>4. CASE item.path = p /\ item.change # "D" BY <2>1, <2>4 DEF OnItsWay
  <2>5. CASE ~(item.path = p /\ item.change # "D")
    BY <2>1, <2>3, <2>5 DEF OnItsWay
  <2> QED BY <2>4, <2>5
<1> QED BY <1>1, <1>2, LoopRunInv

(* What a search finds under an old name is out of date.                   *)
LEMMA NewUpdateIsSound ==
  ASSUME TypeInv, RunInv, At("index"), NEW item \in run.todo,
         item.change \in {"M", "R"},
         NEW hit \in LookUps(item.old), hit.doc # NoDoc
  PROVE  UpdateIsSound([old |-> hit.doc, new |-> New(item.path)])
<1>1. item.old \in Paths /\ item.path \in Paths
  BY DEF TypeInv, TypeOK, Runs, Items
<1>2. hit.doc.path = item.old BY <1>1, FoundIsDocument DEF TypeInv
<1>3. EntryIsSound(item) BY DEF RunInv, ListsAreSound
<1> QED BY <1>2, <1>3 DEF EntryIsSound, UpdateIsSound, New, Doc

(* The loops over files and entries of a diff.                             *)
LEMMA ProcessFileIndexed ==
  ASSUME TypeInv, RunInv, ProcessFile
  PROVE  RunInv'
<1>1. /\ run \in Runs /\ At("index") /\ UNCHANGED <<world, docs, status, debt>>
      /\ run.errors = run.noted
  BY DEF TypeInv, TypeOK, ProcessFile, Indexing, RunInv, ErrorsAreNoted
<1>2. PICK item \in run.todo :
       \/ PassedOver(item) /\ run' = Done(item, run)
       \/ /\ item.change = "A"
          /\ run' = Done(item, [run EXCEPT !.create = @ \cup {New(item.path)}])
       \/ /\ item.change \in {"M", "R"}
          /\ \E hit \in LookUps(item.old) :
               run' = Done(item, Noted(hit, ToUpdate(item, hit)))
       \/ /\ item.change = "D"
          /\ \E hit \in LookUps(item.path) :
               run' = Done(item, Noted(hit, ToDelete(hit)))
  BY DEF ProcessFile
<1>3. CASE PassedOver(item) /\ run' = Done(item, run)
  <2>1. item.change # "D" => ~Wanted(item.path)
    BY <1>3 DEF PassedOver, Wanted
  <2>2. /\ run'.todo = run.todo \ {item}
        /\ run'.create = run.create /\ run'.update = run.update
        /\ run'.pc = run.pc /\ run'.from = run.from /\ run'.target = run.target
        /\ run'.mode = run.mode
        /\ run'.errors = run.errors /\ run'.noted = run.noted
    BY <1>1, <1>3 DEF Done, Runs
  <2> QED BY <1>1, <2>1, <2>2, ItemDone DEF At
<1>4. CASE /\ item.change = "A"
           /\ run' = Done(item, [run EXCEPT !.create = @ \cup {New(item.path)}])
  <2>1. /\ run'.todo = run.todo \ {item}
        /\ run'.create = run.create \cup {New(item.path)} /\ run'.update = run.update
        /\ run'.pc = run.pc /\ run'.from = run.from /\ run'.target = run.target
        /\ run'.mode = run.mode
        /\ run'.errors = run.errors /\ run'.noted = run.noted
    BY <1>1, <1>4 DEF Done, Runs
  <2> QED BY <1>1, <2>1, ItemDone DEF At
<1>5. CASE /\ item.change \in {"M", "R"}
           /\ \E hit \in LookUps(item.old) :
                run' = Done(item, Noted(hit, ToUpdate(item, hit)))
  <2>1. PICK hit \in LookUps(item.old) :
               run' = Done(item, Noted(hit, ToUpdate(item, hit)))
    BY <1>5
  <2> DEFINE u == [old |-> hit.doc, new |-> New(item.path)]
  <2>2. /\ run'.todo = run.todo \ {item}
        /\ run'.pc = run.pc /\ run'.from = run.from /\ run'.target = run.target
        /\ run'.mode = run.mode
        /\ run'.errors = run'.noted /\ (run.noted => run'.noted)
        /\ run'.create = IF hit.doc = NoDoc THEN run.create \cup {New(item.path)}
                         ELSE run.create
        /\ run'.update = IF hit.doc = NoDoc THEN run.update ELSE run.update \cup {u}
    <3> HIDE DEF u
    <3>1. ToUpdate(item, hit) =
            IF hit.doc = NoDoc
            THEN [run EXCEPT !.create = @ \cup {New(item.path)}]
            ELSE [run EXCEPT !.update = @ \cup {u}]
      BY DEF ToUpdate, u
    <3>2. CASE hit.doc = NoDoc
      BY <1>1, <2>1, <3>1, <3>2 DEF Done, Noted, Failed, Runs
    <3>3. CASE hit.doc # NoDoc
      BY <1>1, <2>1, <3>1, <3>3 DEF Done, Noted, Failed, Runs
    <3> QED BY <3>2, <3>3
  <2>3. hit.doc # NoDoc => UpdateIsSound(u)
    BY <1>1, <1>5, NewUpdateIsSound
  <2>4. \/ New(item.path) \in run'.create
        \/ u \in run'.update /\ u.new = New(item.path)
    BY <2>2
  <2>5. \A v \in run'.update \ run.update : UpdateIsSound(v)
    <3> HIDE DEF u
    <3> QED BY <2>2, <2>3
  <2>6. run.create \subseteq run'.create /\ run.update \subseteq run'.update
    <3> HIDE DEF u
    <3> QED BY <2>2
  <2>7. /\ run'.pc = "index" /\ run'.from = run.from /\ run'.target = run.target
        /\ run'.mode = run.mode
        /\ run'.errors = run'.noted /\ (run.noted => run'.noted)
        /\ run'.todo = run.todo \ {item}
    BY <1>1, <2>2 DEF At
  <2>8. \/ New(item.path) \in run'.create
        \/ \E v \in run'.update : v.new = New(item.path)
    BY <2>4
  <2> QED BY <1>1, <2>5, <2>6, <2>7, <2>8, ItemDone
<1>6. CASE /\ item.change = "D"
           /\ \E hit \in LookUps(item.path) :
                run' = Done(item, Noted(hit, ToDelete(hit)))
  <2>1. PICK hit \in LookUps(item.path) :
               run' = Done(item, Noted(hit, ToDelete(hit)))
    BY <1>6
  <2>2. /\ run'.todo = run.todo \ {item}
        /\ run'.create = run.create /\ run'.update = run.update
        /\ run'.pc = run.pc /\ run'.from = run.from /\ run'.target = run.target
        /\ run'.mode = run.mode
        /\ run'.errors = run'.noted /\ (run.noted => run'.noted)
    BY <1>1, <2>1 DEF Done, Noted, Failed, ToDelete, Runs
  <2> QED BY <1>1, <1>6, <2>2, ItemDone DEF At
<1> QED BY <1>2, <1>3, <1>4, <1>5, <1>6

(* They go on.                                                             *)
LEMMA ProcessFileGoesOn ==
  ASSUME run \in Runs, ProcessFile
  PROVE  /\ run'.pc = run.pc /\ run'.target = run.target
<1>1. PICK item \in run.todo :
       \/ run' = Done(item, run)
       \/ run' = Done(item, [run EXCEPT !.create = @ \cup {New(item.path)}])
       \/ \E hit \in LookUps(item.old) :
            run' = Done(item, Noted(hit, ToUpdate(item, hit)))
       \/ \E hit \in LookUps(item.path) :
            run' = Done(item, Noted(hit, ToDelete(hit)))
  BY DEF ProcessFile
<1> QED BY <1>1 DEF Done, Noted, Failed, ToUpdate, ToDelete, Runs

-----------------------------------------------------------------------------
(* Batches.  A new document replaces only what is out of date.             *)
LEMMA BatchSent ==
  ASSUME RunInv, At("index"), UNCHANGED <<world, status>>,
         run'.pc = "index", run'.from = run.from, run'.target = run.target,
         run'.mode = run.mode, run'.errors = run'.noted, run.noted => run'.noted,
         debt # "none" => debt' # "none", ErrorForgotten => ErrorForgotten',
         run'.todo = run.todo, run'.update \subseteq run.update,
         ~MissesSomething' =>
           \A p \in Paths : (Text(run.target, p) # 0 /\ OnItsWay(p)) =>
             \/ New(p) \in docs'
             \/ \E item \in run.todo : item.path = p /\ item.change \in {"A", "M", "R"}
             \/ New(p) \in run'.create
             \/ \E u \in run'.update : u.new = New(p)
  PROVE  RunInv'
<1>1. ListsAreSound'
  <2>1. /\ \A i \in run'.todo : EntryIsSound(i)'
        /\ \A u \in run'.update : UpdateIsSound(u)'
    BY TermsStay DEF RunInv, ListsAreSound
  <2> QED BY <2>1 DEF ListsAreSound
<1>2. NothingIsLost'
  <2> SUFFICES ASSUME ~MissesSomething', NEW p \in Paths, Wanted(p)',
                      Text(run.target, p)' # 0, ~NotShown(p)'
               PROVE  OnItsWay(p)'
    BY DEF NothingIsLost
  <2>1. New(p)' = New(p) /\ Wanted(p) /\ Text(run.target, p) # 0 /\ ~NotShown(p)
    BY TermsStay
  <2>2. ~MissesSomething BY MissesStays
  <2>3. OnItsWay(p) BY <2>1, <2>2 DEF RunInv, NothingIsLost
  <2> QED BY <2>1, <2>3 DEF OnItsWay
<1> QED BY <1>1, <1>2, LoopRunInv

(* A failed batch is noted, and owed.                                      *)
LEMMA FailedBatchMisses ==
  ASSUME NEW ok, run'.noted, ~ok, debt' = (IF ok THEN debt ELSE Owing)
  PROVE  MissesSomething'
BY DEF MissesSomething, Owing

(* What is owed or forgotten stays so when a batch is sent.                *)
LEMMA OwingKeeps ==
  ASSUME debt' = debt \/ debt' = Owing
  PROVE  /\ debt # "none" => debt' # "none"
         /\ ErrorForgotten => ErrorForgotten'
         /\ debt = "owed" => debt' = "owed"
BY DEF Owing, ErrorForgotten

(* _index_documents_batch, failed or not.                                  *)
LEMMA IndexBatchIndexed ==
  ASSUME TypeInv, RunInv, IndexBatch
  PROVE  /\ RunInv' /\ (RecordedCommitIsIndexed => RecordedCommitIsIndexed')
         /\ run'.pc = "index" /\ (debt' = debt \/ debt' = Owing)
<1>1. run \in Runs /\ At("index") /\ UNCHANGED <<world, status>> /\ run.errors = run.noted
  BY DEF TypeInv, TypeOK, IndexBatch, Indexing, RunInv, ErrorsAreNoted
<1>2. PICK ok \in Outcomes :
        /\ \E applied \in Applied(run.create, ok) : docs' = docs \cup applied
        /\ run' = Sent(ok, [run EXCEPT !.create = {}])
        /\ debt' = IF ok THEN debt ELSE Owing
  BY DEF IndexBatch
<1>3. /\ run'.pc = run.pc /\ run'.from = run.from /\ run'.target = run.target
      /\ run'.mode = run.mode /\ run'.todo = run.todo /\ run'.update = run.update
      /\ run'.errors = run'.noted /\ (run.noted => run'.noted)
      /\ ~ok => run'.noted
  BY <1>1, <1>2 DEF Sent, Failed, Runs
<1>4. docs \subseteq docs' /\ (ok => docs' = docs \cup run.create)
  BY <1>2 DEF Applied
<1>5. debt' = debt \/ debt' = Owing BY <1>2
<1>6. ~MissesSomething' => ok BY <1>2, <1>3, FailedBatchMisses
<1>7. RunInv' BY <1>1, <1>3, <1>4, <1>5, <1>6, OwingKeeps, BatchSent DEF At, OnItsWay
<1> QED BY <1>1, <1>3, <1>4, <1>5, <1>7, RecordedStays DEF Unreported, At

(* An update takes away only documents that are not current any more.      *)
LEMMA UpdatedKeepsRecorded ==
  ASSUME TypeInv, RunInv, RecordedCommitIsIndexed, At("index"), UNCHANGED <<world, status>>,
         run'.pc = run.pc, run'.target = run.target,
         NEW batch \in SUBSET run.update, docs' = Updated(batch)
  PROVE  RecordedCommitIsIndexed'
<1>1. \A p \in Paths : /\ Wanted(p)' = Wanted(p)
                       /\ Text(status.commit, p)' = Text(status.commit, p)
  BY WantedIsStable DEF world, Text
<1>2. \A p \in Paths : Overtaken(p)' = Overtaken(p)
  BY DEF Overtaken, ReportsArrive, MayFail, Text, Now, world
<1>3. \A p \in Paths : GoneBack(p, status.commit)' = GoneBack(p, status.commit)
  BY DEF world, GoneBack, Returned, ReportsArrive, MayFail, Text
<1> SUFFICES ASSUME status.commit # 0, NEW p \in Paths, Wanted(p),
                    Text(status.commit, p) # 0, ~Overtaken(p), ~GoneBack(p, status.commit)
             PROVE  Doc(p, Text(status.commit, p)) \in docs'
  BY <1>1, <1>2, <1>3 DEF RecordedCommitIsIndexed, Doc, world
<1> DEFINE d == Doc(p, Text(status.commit, p))
<1>4. d \in docs BY DEF RecordedCommitIsIndexed
<1>5. ASSUME NEW u \in batch, u.old = d PROVE FALSE
  <2>1. UpdateIsSound(u) BY DEF RunInv, ListsAreSound
  <2>2. u.old.path = p BY <1>5 DEF Doc
  <2>3. run.from = status.commit BY DEF RunInv, RunFollowsStatus, At
  <2>4. run.from <= run.target /\ Text(run.from, p) # Text(run.target, p)
    BY <2>1, <2>2 DEF UpdateIsSound, Replaces
  <2>5. run.from \in 1..Now /\ run.target \in 1..Now /\ Now \in Nat
    BY <2>3 DEF TypeInv, Bounds
  <2>6. run.from < run.target BY <2>4, <2>5
  <2>7. run.target \in (status.commit + 1)..Now BY <2>3, <2>5, <2>6
  <2> QED BY <2>3, <2>4, <2>6, <2>7 DEF Overtaken, Unreported, At
<1> QED BY <1>4, <1>5 DEF Updated

(* _update_documents_batch, failed or not.                                 *)
LEMMA UpdateBatchIndexed ==
  ASSUME TypeInv, RunInv, UpdateBatch
  PROVE  /\ RunInv' /\ (RecordedCommitIsIndexed => RecordedCommitIsIndexed')
         /\ run'.pc = "index" /\ (debt' = debt \/ debt' = Owing)
<1>1. run \in Runs /\ At("index") /\ UNCHANGED <<world, status>> /\ run.errors = run.noted
  BY DEF TypeInv, TypeOK, UpdateBatch, Indexing, RunInv, ErrorsAreNoted
<1>2. PICK ok \in Outcomes :
        /\ \E applied \in Applied(run.update, ok) : docs' = Updated(applied)
        /\ run' = Sent(ok, [run EXCEPT !.update = {}])
        /\ debt' = IF ok THEN debt ELSE Owing
  BY DEF UpdateBatch
<1>3. PICK applied \in Applied(run.update, ok) : docs' = Updated(applied) BY <1>2
<1>4. applied \subseteq run.update /\ (ok => applied = run.update)
  BY DEF Applied
<1>5. /\ run'.pc = run.pc /\ run'.from = run.from /\ run'.target = run.target
      /\ run'.mode = run.mode /\ run'.todo = run.todo
      /\ run'.create = run.create /\ run'.update = {}
      /\ run'.errors = run'.noted /\ (run.noted => run'.noted)
      /\ ~ok => run'.noted
  BY <1>1, <1>2 DEF Sent, Failed, Runs
<1>6. ASSUME ok, NEW p \in Paths, Text(run.target, p) # 0, New(p) \in docs
      PROVE  New(p) \in docs'
  <2>1. CASE \E u \in run.update : u.old = New(p)
    <3>1. PICK u \in run.update : u.old = New(p) BY <2>1
    <3>2. UpdateIsSound(u) BY <1>1 DEF RunInv, ListsAreSound
    <3>3. u.old.path = p BY <3>1 DEF New, Doc
    <3>4. u.new = New(p) BY <1>6, <3>2, <3>3 DEF UpdateIsSound
    <3> QED BY <1>3, <1>4, <1>6, <3>4 DEF Updated
  <2>2. CASE ~\E u \in run.update : u.old = New(p)
    BY <1>3, <1>4, <1>6, <2>2 DEF Updated
  <2> QED BY <2>1, <2>2
<1>7. ASSUME ok, NEW p \in Paths, NEW u \in run.update, u.new = New(p)
      PROVE  New(p) \in docs'
  BY <1>3, <1>4, <1>7 DEF Updated
<1>8. debt' = debt \/ debt' = Owing BY <1>2
<1>9. RunInv'
  <2>1. ~MissesSomething' => ok BY <1>2, <1>5, FailedBatchMisses
  <2> QED BY <1>1, <1>5, <1>6, <1>7, <1>8, <2>1, OwingKeeps, BatchSent DEF At, OnItsWay
<1>10. RecordedCommitIsIndexed => RecordedCommitIsIndexed'
  BY <1>1, <1>3, <1>4, <1>5, UpdatedKeepsRecorded
<1> QED BY <1>1, <1>5, <1>8, <1>9, <1>10 DEF At

(* _delete_documents_batch, which always fails.                            *)
LEMMA DeleteBatchIndexed ==
  ASSUME TypeInv, RunInv, DeleteBatch
  PROVE  RunInv' /\ run'.pc = run.pc /\ run'.target = run.target
<1>1. run \in Runs /\ At("index") /\ UNCHANGED <<world, docs, status, debt>>
  BY DEF TypeInv, TypeOK, DeleteBatch, Indexing
<1>2. /\ run'.pc = run.pc /\ run'.from = run.from /\ run'.target = run.target
      /\ run'.mode = run.mode /\ run'.todo = run.todo /\ run'.update = run.update
      /\ run'.create = run.create /\ run'.errors /\ run'.noted
      /\ run'.errors = run'.noted
  BY <1>1 DEF DeleteBatch, Failed, Runs
<1>3. RunInv' BY <1>1, <1>2, BatchSent DEF At, OnItsWay, ErrorForgotten
<1> QED BY <1>2, <1>3

(* A commit whose files are all indexed makes a record that is.            *)
LEMMA IndexedIsRecorded ==
  ASSUME TypeInv, IngestInv, UNCHANGED <<world, docs>>, Source("git"),
         run.target # 0, run'.target = run.target, run'.pc \in Unreported,
         status'.commit = status.commit,
         \A p \in Paths :
           (Wanted(p) /\ Text(run.target, p) # 0) =>
             New(p) \in docs \/ GoneBack(p, run.target)
  PROVE  RecordedCommitIsIndexed'
<1>1. /\ status.commit <= run.target /\ status.commit \in 0..Now
      /\ run.target \in 1..Now /\ Now \in Nat
  BY DEF TypeInv, Bounds, IngestInv, CheckpointBehind
<1> SUFFICES ASSUME status.commit # 0, NEW p \in Paths, Wanted(p),
                    Text(status.commit, p) # 0
             PROVE  \/ Doc(p, Text(status.commit, p)) \in docs
                    \/ Overtaken(p)'
                    \/ GoneBack(p, status.commit)'
  <2>2. \A p \in Paths : /\ Wanted(p)' = Wanted(p)
                         /\ Text(status.commit, p)' = Text(status.commit, p)
    BY WantedIsStable DEF world, Text
  <2> QED BY <2>2 DEF RecordedCommitIsIndexed, Doc
<1>2. CASE Text(run.target, p) # Text(status.commit, p)
  <2>1. status.commit < run.target BY <1>1, <1>2
  <2>2. run.target \in (status.commit + 1)..Now BY <1>1, <2>1
  <2> QED BY <1>2, <2>1, <2>2 DEF Overtaken, Text, Now, world
<1>3. CASE Text(run.target, p) = Text(status.commit, p)
  <2>1. CASE New(p) \in docs BY <1>3, <2>1 DEF New
  <2>2. CASE GoneBack(p, run.target)
    <3>1. PICK a \in 1..run.target :
            \E c \in a..run.target :
              Text(a, p) = Text(run.target, p) /\ Text(c, p) # Text(run.target, p)
      BY <2>2 DEF GoneBack, Returned
    <3>2. PICK c \in a..run.target :
            Text(a, p) = Text(run.target, p) /\ Text(c, p) # Text(run.target, p)
      BY <3>1
    <3>3. ~ReportsArrive /\ ~ReportsArrive'
      BY <2>2 DEF GoneBack, ReportsArrive, MayFail, world
    <3>4. CASE c <= status.commit
      <4>1. a \in 1..status.commit /\ c \in a..status.commit BY <1>1, <3>4
      <4>2. Returned(p, status.commit) BY <1>3, <3>2, <4>1 DEF Returned
      <4> QED BY <3>3, <4>2 DEF GoneBack, Returned, Text, world
    <3>5. CASE ~(c <= status.commit)
      <4>1. c \in (status.commit + 1)..Now BY <1>1, <3>5
      <4>2. Text(c, p) # Text(status.commit, p) BY <1>3, <3>2
      <4> QED BY <3>3, <4>1, <4>2 DEF Overtaken, Text, Now, world
    <3> QED BY <3>4, <3>5
  <2> QED BY <1>3, <2>1, <2>2 
<1> QED BY <1>2, <1>3

(* With all lists empty what was on its way has arrived, and the run has   *)
(* paid what the status asked for.                                         *)
LEMMA FilesDoneIndexed ==
  ASSUME TypeInv, IngestInv, RunInv, FailuresAreKnown, RunKnowsFailures, FilesDone
  PROVE  RunInv' /\ FailuresAreKnown' /\ RunKnowsFailures'
<1>1. /\ run \in Runs /\ At("index") /\ UNCHANGED <<world, docs, status>>
      /\ run.errors = run.noted /\ run.target # 0 /\ debt' = Paid /\ Source("git")
  BY DEF TypeInv, TypeOK, FilesDone, Indexing, RunInv, ErrorsAreNoted, Bounds
<1>2. /\ run'.pc = "base" /\ run'.from = run.from /\ run'.target = run.target
      /\ run'.errors = run.errors /\ run'.noted = run.noted /\ run'.mode = run.mode
  BY <1>1, LeftIsRun DEF FilesDone
<1>3. ASSUME ~MissesSomething, NEW p \in Paths, Wanted(p), Text(run.target, p) # 0
      PROVE  New(p) \in docs \/ NotShown(p)
  BY <1>1, <1>3 DEF RunInv, NothingIsLost, OnItsWay, FilesDone
<1>4. MissesSomething => MissesSomething' /\ debt' = debt
  BY <1>1, <1>2 DEF MissesSomething, Paid, ErrorForgotten
<1>5. RunHasIndexed'
  <2> SUFFICES ASSUME ~MissesSomething', NEW p \in Paths, Wanted(p)',
                      Text(run.target, p)' # 0
               PROVE  New(p)' \in docs \/ NotShown(p)'
    BY <1>1 DEF RunHasIndexed
  <2>1. /\ New(p)' = New(p) /\ Wanted(p) /\ Text(run.target, p) # 0
        /\ NotShown(p)' = NotShown(p)
    BY <1>1, <1>2, TermsStay
  <2> QED BY <1>3, <1>4, <2>1
<1>6. RunInv'
  BY <1>1, <1>2, <1>5
  DEF RunInv, ErrorsAreNoted, RunStartsEmpty, RunFollowsStatus,
      ListsAreSound, NothingIsLost, CleanRunHasCloned, At
<1>7. RecordedCommitIsIndexed => RecordedCommitIsIndexed'
  BY <1>1, <1>2, RecordedStays DEF Unreported
<1>8. CASE debt' = debt
  BY <1>1, <1>2, <1>6, <1>7, <1>8, KnownStays DEF ErrorForgotten
<1>9. CASE debt' # debt
  <2>1. \A p \in Paths :
          (Wanted(p) /\ Text(run.target, p) # 0) =>
            New(p) \in docs \/ GoneBack(p, run.target)
    BY <1>3, <1>4, <1>9 DEF NotShown
  <2>2. RecordedCommitIsIndexed'
    BY <1>1, <1>2, <2>1, IndexedIsRecorded DEF Unreported
  <2> QED BY <1>2, <1>6, <2>2 DEF FailuresAreKnown, RunKnowsFailures
<1> QED BY <1>8, <1>9

-----------------------------------------------------------------------------
(* A run that goes on without touching its lists.                          *)
LEMMA QuietRunInv ==
  ASSUME RunInv, UNCHANGED <<world, docs, debt>>,
         run'.pc \in {"setup", "base", "report", "flag", "complete"},
         run.pc \in {"begin", "base", "report", "flag"},
         run'.pc = "setup" <=> run.pc = "begin",
         status'.commit = status.commit \/ run.pc # "begin",
         run'.errors = run.errors, run'.noted = run.noted, run'.mode = run.mode,
         run'.from = run.from, run'.target = run.target, run'.update = run.update
  PROVE  RunInv'
<1>1. ErrorsAreNoted' /\ RunStartsEmpty' /\ RunFollowsStatus'
  BY DEF RunInv, ErrorsAreNoted, RunStartsEmpty, RunFollowsStatus
<1>2. ListsAreSound' /\ NothingIsLost' BY DEF ListsAreSound, NothingIsLost, At
<1>3. RunHasIndexed'
  <2> SUFFICES ASSUME IsThrough', run.target # 0, ~MissesSomething', NEW p \in Paths,
                      Wanted(p)', Text(run.target, p)' # 0
               PROVE  New(p)' \in docs \/ NotShown(p)'
    BY DEF RunHasIndexed
  <2>1. IsThrough /\ ~MissesSomething
    BY DEF IsThrough, MissesSomething, ErrorForgotten
  <2>2. /\ New(p)' = New(p) /\ Wanted(p) /\ Text(run.target, p) # 0
        /\ NotShown(p)' = NotShown(p)
    BY TermsStay
  <2> QED BY <2>1, <2>2 DEF RunInv, RunHasIndexed
<1>4. CleanRunHasCloned' BY DEF RunInv, CleanRunHasCloned, CleanRun
<1> QED BY <1>1, <1>2, <1>3, <1>4 DEF RunInv

(* The run does not move, and what it misses it goes on missing.           *)
LEMMA UnmovedRunInv ==
  ASSUME RunInv, UNCHANGED <<world, docs, run>>, status'.commit = status.commit,
         debt = "none" <=> debt' = "none", ErrorForgotten => ErrorForgotten'
  PROVE  RunInv'
<1>1. MissesSomething => MissesSomething' BY MissesStays
<1>2. /\ \A p : New(p)' = New(p) /\ Wanted(p)' = Wanted(p) /\ NotShown(p)' = NotShown(p)
      /\ \A p : Text(run.target, p)' = Text(run.target, p)
      /\ \A item : EntryIsSound(item)' = EntryIsSound(item)
      /\ \A u : UpdateIsSound(u)' = UpdateIsSound(u)
  BY TermsStay
<1>3. NothingIsLost'
  BY <1>1, <1>2 DEF RunInv, NothingIsLost, OnItsWay, At
<1>4. RunHasIndexed'
  BY <1>1, <1>2 DEF RunInv, RunHasIndexed, IsThrough
<1>5. ListsAreSound' BY <1>2 DEF RunInv, ListsAreSound, At
<1> QED
  BY <1>3, <1>4, <1>5
  DEF RunInv, ErrorsAreNoted, RunStartsEmpty, RunFollowsStatus, CleanRunHasCloned, CleanRun

(* Nothing is claimed of a run that is over.                               *)
LEMMA NoRunInv ==
  ASSUME run' = NoRun
  PROVE  RunInv'
BY DEF NoRun, RunInv, ErrorsAreNoted, RunStartsEmpty, RunFollowsStatus,
       ListsAreSound, NothingIsLost, RunHasIndexed, IsThrough, CleanRunHasCloned,
       CleanRun, At

(* From one status update to the next, made or lost.                       *)
LEMMA OnwardRunInv ==
  ASSUME TypeInv, RunInv, UNCHANGED <<world, docs, debt>>, Updating, run' = Onward(run),
         status'.commit = status.commit \/ run.pc # "begin"
  PROVE  /\ RunInv'
         /\ run'.pc \in {"begin", "setup"} =>
              run.pc \in {"begin", "setup"} /\ run'.recover = run.recover
<1>1. run \in Runs BY DEF TypeInv, TypeOK
<1>2. CASE At("complete") BY <1>2, NoRunInv DEF Onward, At, NoRun
<1>3. CASE ~At("complete")
  <2>1. run' = [run EXCEPT !.pc = After(run.pc)] BY <1>3 DEF Onward, At
  <2>2. /\ After(run.pc) \in {"setup", "flag", "complete"}
        /\ After(run.pc) = "setup" <=> run.pc = "begin"
        /\ run.pc \in {"begin", "report", "flag"}
    BY <1>3 DEF Updating, At, After
  <2>3. /\ run'.pc = After(run.pc) /\ run'.mode = run.mode
        /\ run'.errors = run.errors /\ run'.noted = run.noted
        /\ run'.from = run.from /\ run'.recover = run.recover
        /\ run'.target = run.target /\ run'.update = run.update
    BY <1>1, <2>1 DEF Runs
  <2> QED BY <2>2, <2>3, QuietRunInv
<1> QED BY <1>2, <1>3

(* A report records a commit that has been indexed, or the error.          *)
LEMMA ReportKnows ==
  ASSUME TypeInv, RunInv, FailuresAreKnown, PatchStatus, At("report"), Source("git")
  PROVE  FailuresAreKnown'
<1>1. /\ status \in Statuses /\ status' = Reported /\ run' = Onward(run)
      /\ UNCHANGED <<world, docs, debt>>
  BY DEF TypeInv, TypeOK, PatchStatus, Written, At
<1>2. /\ status'.error = run.noted
      /\ status'.commit = IF run.target # 0 THEN run.target ELSE status.commit
  BY <1>1 DEF Reported, Statuses
<1>3. \A p \in Paths : Wanted(p)' = Wanted(p) BY <1>1, WantedIsStable DEF world
<1>4. CASE ErrorForgotten BY <1>1, <1>4 DEF FailuresAreKnown, ErrorForgotten
<1>5. CASE run.noted /\ debt = "owed" BY <1>1, <1>2, <1>5 DEF FailuresAreKnown
<1>6. CASE ~ErrorForgotten /\ ~(run.noted /\ debt = "owed")
  <2>1. ~MissesSomething
    BY <1>6 DEF MissesSomething, ErrorForgotten, TypeInv, TypeOK, Debts
  <2>2. CASE run.target # 0
    <3>1. ASSUME NEW p \in Paths, Wanted(p), Text(run.target, p) # 0
          PROVE  New(p) \in docs \/ GoneBack(p, run.target)
      BY <2>1, <2>2, <3>1 DEF RunInv, RunHasIndexed, IsThrough, NotShown, At
    <3>2. \A p \in Paths : /\ Text(status.commit, p)' = Text(run.target, p)
                           /\ GoneBack(p, status.commit)' = GoneBack(p, run.target)
      BY <1>1, <1>2, <2>2 DEF Text, GoneBack, Returned, ReportsArrive, MayFail, world
    <3>3. RecordedCommitIsIndexed'
      BY <1>1, <1>3, <3>1, <3>2 DEF RecordedCommitIsIndexed, New, Doc
    <3> QED BY <3>3 DEF FailuresAreKnown
  <2>3. CASE run.target = 0
    <3>1. run.errors /\ run.noted
      BY <2>3 DEF RunInv, CleanRunHasCloned, CleanRun, ErrorsAreNoted, At
    <3>2. RecordedCommitIsIndexed BY <1>6, <3>1 DEF FailuresAreKnown
    <3>3. \A p \in Paths : Overtaken(p) => Overtaken(p)'
      BY <1>1, <1>2, <2>3 DEF Overtaken, ReportsArrive, MayFail, Text, Now, world,
                              TypeInv, Bounds
    <3>4. \A p \in Paths : /\ Text(status.commit, p)' = Text(status.commit, p)
                           /\ GoneBack(p, status.commit)' = GoneBack(p, status.commit)
      BY <1>1, <1>2, <2>3 DEF Text, GoneBack, Returned, ReportsArrive, MayFail, world
    <3>5. RecordedCommitIsIndexed'
      BY <1>1, <1>2, <1>3, <2>3, <3>2, <3>3, <3>4 DEF RecordedCommitIsIndexed, Doc
    <3> QED BY <3>5 DEF FailuresAreKnown
  <2> QED BY <2>2, <2>3
<1> QED BY <1>4, <1>5, <1>6

(* Every status update that arrives keeps what is known.                   *)
LEMMA PatchIndexed ==
  ASSUME TypeInv, RunInv, FailuresAreKnown, RunKnowsFailures, PatchStatus, Source("git")
  PROVE  RunInv' /\ FailuresAreKnown' /\ RunKnowsFailures'
<1>1. /\ status \in Statuses /\ status' = Written /\ run' = Onward(run) /\ Updating
      /\ UNCHANGED <<world, docs, debt>>
  BY DEF TypeInv, TypeOK, PatchStatus
<1>2. CASE At("report")
  <2>1. RunInv' /\ RunKnowsFailures'
    BY <1>1, <1>2, OnwardRunInv DEF At, RunKnowsFailures
  <2> QED BY <1>2, <2>1, ReportKnows
<1>3. CASE ~At("report")
  <2>1. status'.commit = status.commit /\ (status.error => status'.error)
    BY <1>1, <1>3 DEF Written, Updating, At, Statuses
  <2>2. run.pc \notin Unreported BY <1>1, <1>3 DEF Updating, Unreported, At
  <2>3. RecordedCommitIsIndexed => RecordedCommitIsIndexed'
    BY <1>1, <2>1, <2>2, RecordedStays
  <2> QED
    BY <1>1, <2>1, <2>3, OnwardRunInv, KnownStays DEF ErrorForgotten
<1> QED BY <1>2, <1>3

(* A run begins with the status as it is.                                  *)
LEMMA StartIndexed ==
  ASSUME TypeInv, RunInv, FailuresAreKnown, Start
  PROVE  RunInv' /\ FailuresAreKnown' /\ RunKnowsFailures'
<1>1. /\ run'.pc = "begin" /\ run'.from = status.commit /\ run'.recover = status.error
      /\ UNCHANGED <<world, docs, status, debt>> /\ run'.update = {} /\ run'.target = 0
      /\ run'.errors = FALSE /\ run'.noted = FALSE
  BY DEF Start, NoRun
<1>2. RunInv'
  BY <1>1
  DEF RunInv, ErrorsAreNoted, RunStartsEmpty, RunFollowsStatus, ListsAreSound,
      NothingIsLost, RunHasIndexed, IsThrough, CleanRunHasCloned, CleanRun, At
<1>3. RecordedCommitIsIndexed => RecordedCommitIsIndexed'
  BY <1>1, RecordedStays DEF Start, Unreported, At
<1> QED
  BY <1>1, <1>2, <1>3 DEF FailuresAreKnown, RunKnowsFailures, ErrorForgotten

(* Only the controller makes a copy stale.                                 *)
LEMMA FreshStays ==
  ASSUME CopyIsFresh, [Next]_vars, ~Push
  PROVE  CopyIsFresh'
BY DEF CopyIsFresh, ReportsArrive, MayFail, Next, RunStep, Start, GitNext,
       SetupRepository, SetupRepositoryFails, ProcessFile, IndexBatch, UpdateBatch,
       DeleteBatch, FilesDone, StaticNext, SetupURLs, FetchURL, FetchURLFails,
       IndexURLs, URLsDone, KustoNext, RunQuery, RunQueryFails, FormatRow,
       IndexRows, RowsDone, GetStatus, PatchStatus, UpdateLost, ReadConditions,
       ReadConditionsFails, Killed, ControllerWrites, vars, world

(* The steps of GitDataSourceHandler.                                      *)
LEMMA GitIndexed ==
  ASSUME TypeInv, IngestInv, RunInv, FailuresAreKnown, RunKnowsFailures, GitNext
  PROVE  RunInv' /\ FailuresAreKnown' /\ RunKnowsFailures'
<1>1. run \in Runs BY DEF TypeInv, TypeOK
<1>2. CASE SetupRepository
  <2>1. /\ UNCHANGED <<world, docs, status>> /\ At("setup")
        /\ debt' = debt \/ debt' = Owing
    BY <1>2 DEF SetupRepository
  <2>2. RunInv' BY <1>2, SetupIndexed
  <2>3. RecordedCommitIsIndexed => RecordedCommitIsIndexed'
    BY <2>1, RecordedStays DEF Unreported, At
  <2>4. run'.pc \notin {"begin", "setup"}
    <3>1. CASE \E c : IndexAllFiles(c) \/ IndexDiffFiles(c)
      BY <1>1, <3>1 DEF IndexAllFiles, IndexDiffFiles, Runs
    <3>2. CASE run' = Left(Failed([run EXCEPT !.target = Target]))
      BY <1>1, <3>2 DEF Left, Failed, Runs
    <3> QED BY <1>2, <3>1, <3>2 DEF SetupRepository
  <2> QED BY <2>1, <2>2, <2>3, <2>4, OwingKeeps, KnownStays
<1>3. CASE SetupRepositoryFails
  <2>1. /\ run'.errors /\ run'.noted /\ run'.pc = "base" /\ run'.target = run.target
        /\ UNCHANGED <<world, docs, status, debt>> /\ At("setup")
    BY <1>1, <1>3, FailedIsRun, LeftIsRun DEF SetupRepositoryFails
  <2>2. run.target = 0 BY <2>1 DEF RunInv, RunStartsEmpty, At
  <2>3. RecordedCommitIsIndexed => RecordedCommitIsIndexed'
    BY <2>1, RecordedStays DEF Unreported, At
  <2> QED BY <2>1, <2>2, <2>3, FailedRunInv, KnownStays DEF ErrorForgotten
<1>4. CASE ProcessFile
  <2>1. /\ run'.pc = run.pc /\ run'.target = run.target /\ run.pc = "index"
        /\ UNCHANGED <<world, docs, status, debt>>
    BY <1>1, <1>4, ProcessFileGoesOn DEF ProcessFile, Indexing, At
  <2>2. RecordedCommitIsIndexed => RecordedCommitIsIndexed' BY <2>1, RecordedStays
  <2> QED BY <1>4, <2>1, <2>2, ProcessFileIndexed, KnownStays DEF ErrorForgotten
<1>5. CASE IndexBatch
  BY <1>5, IndexBatchIndexed, OwingKeeps, KnownStays DEF IndexBatch
<1>6. CASE UpdateBatch
  BY <1>6, UpdateBatchIndexed, OwingKeeps, KnownStays DEF UpdateBatch
<1>7. CASE DeleteBatch
  <2>1. /\ run'.pc = run.pc /\ run'.target = run.target /\ run.pc = "index"
        /\ UNCHANGED <<world, docs, status, debt>>
    BY <1>1, <1>7, DeleteBatchIndexed DEF DeleteBatch, Indexing, At
  <2>2. RecordedCommitIsIndexed => RecordedCommitIsIndexed' BY <2>1, RecordedStays
  <2> QED BY <1>7, <2>1, <2>2, DeleteBatchIndexed, KnownStays DEF ErrorForgotten
<1>8. CASE FilesDone BY <1>8, FilesDoneIndexed
<1> QED BY <1>2, <1>3, <1>4, <1>5, <1>6, <1>7, <1>8 DEF GitNext

(* A kill, a lost update and a report that cannot be made.                 *)
LEMMA LossIndexed ==
  ASSUME TypeInv, CopyIsFresh, RunInv, FailuresAreKnown, RunKnowsFailures, Source("git"),
         UpdateLost \/ ReadConditionsFails \/ Killed
  PROVE  RunInv' /\ FailuresAreKnown' /\ RunKnowsFailures'
<1>1. run \in Runs BY DEF TypeInv, TypeOK
<1>2. ~ReportsArrive
  BY DEF UpdateLost, ReadConditionsFails, Killed, ReportsArrive, CopyIsFresh
<1>3. UNCHANGED <<world, docs, status, debt>>
  BY DEF UpdateLost, ReadConditionsFails, Killed, ErrorsUntold, Source
<1>4. /\ RunInv'
      /\ run'.pc \in {"begin", "setup"} =>
           run.pc \in {"begin", "setup"} /\ run'.recover = run.recover
  <2>1. CASE UpdateLost BY <1>3, <2>1, OnwardRunInv DEF UpdateLost
  <2>2. CASE ReadConditionsFails
    <3>1. /\ run'.pc = "flag" /\ run.pc = "base" /\ run'.mode = run.mode
          /\ run'.errors = run.errors /\ run'.noted = run.noted
          /\ run'.from = run.from /\ run'.target = run.target
          /\ run'.update = run.update
      BY <1>1, <2>2 DEF ReadConditionsFails, At, Runs
    <3> QED BY <1>3, <3>1, QuietRunInv
  <2>3. CASE Killed BY <2>3, NoRunInv DEF Killed, NoRun
  <2> QED BY <2>1, <2>2, <2>3
<1>5. RecordedCommitIsIndexed => RecordedCommitIsIndexed' BY <1>2, <1>3, RecordedStays
<1> QED BY <1>3, <1>4, <1>5, KnownStays DEF ErrorForgotten

(* The conditions are read, or the object is.                              *)
LEMMA ReadIndexed ==
  ASSUME TypeInv, RunInv, FailuresAreKnown, RunKnowsFailures,
         ReadConditions \/ GetStatus \/ UNCHANGED vars
  PROVE  RunInv' /\ FailuresAreKnown' /\ RunKnowsFailures'
<1>1. run \in Runs /\ UNCHANGED <<world, docs, status, debt>>
  BY DEF TypeInv, TypeOK, ReadConditions, GetStatus, vars, world
<1>2. CASE ReadConditions
  <2>1. /\ run'.pc = "report" /\ run.pc = "base" /\ run'.mode = run.mode
        /\ run'.errors = run.errors /\ run'.noted = run.noted
        /\ run'.from = run.from /\ run'.target = run.target
        /\ run'.update = run.update
    BY <1>1, <1>2 DEF ReadConditions, Onward, After, At, Runs
  <2>2. RunInv' BY <1>1, <2>1, QuietRunInv
  <2>3. RecordedCommitIsIndexed => RecordedCommitIsIndexed'
    BY <1>1, <2>1, RecordedStays DEF Unreported
  <2> QED BY <1>1, <2>1, <2>2, <2>3, KnownStays DEF ErrorForgotten
<1>3. CASE UNCHANGED run
  <2>1. RecordedCommitIsIndexed => RecordedCommitIsIndexed' BY <1>1, <1>3, RecordedStays
  <2>2. RunInv' BY <1>1, <1>3, UnmovedRunInv DEF ErrorForgotten
  <2> QED BY <1>1, <1>3, <2>1, <2>2, KnownStays DEF ErrorForgotten
<1> QED BY <1>2, <1>3 DEF GetStatus, vars

(* When the controller takes the error away while something is owed, it is *)
(* forgotten.                                                              *)
LEMMA ControllerIndexed ==
  ASSUME TypeInv, RunInv, FailuresAreKnown, RunKnowsFailures, ControllerWrites
  PROVE  RunInv' /\ FailuresAreKnown' /\ RunKnowsFailures'
<1>1. PICK error \in BOOLEAN :
        /\ status' = [status EXCEPT !.error = error]
        /\ debt' = IF status.error /\ ~error THEN Forgotten ELSE debt
  BY DEF ControllerWrites
<1>2. /\ status'.commit = status.commit /\ status'.error = error
      /\ UNCHANGED <<world, docs, run>>
  BY <1>1 DEF ControllerWrites, TypeInv, TypeOK, Statuses
<1>3. /\ ErrorForgotten => ErrorForgotten'
      /\ debt = "none" <=> debt' = "none"
      /\ debt = "owed" /\ status.error => (debt' = "owed" /\ status'.error) \/ ErrorForgotten'
  BY <1>1, <1>2 DEF Forgotten, ErrorForgotten
<1>4. RecordedCommitIsIndexed => RecordedCommitIsIndexed' BY <1>2, RecordedStays
<1>5. RunInv'
  <2>1. debt = "none" <=> debt' = "none" BY <1>3
  <2>2. ErrorForgotten => ErrorForgotten' BY <1>3
  <2> QED BY <1>2, <2>1, <2>2, UnmovedRunInv
<1> QED BY <1>2, <1>3, <1>4, <1>5, KnownStays

(* Every step keeps the invariant.                                         *)
LEMMA NextIndexed ==
  ASSUME TypeInv, IngestInv, IndexInv, [Next]_vars
  PROVE  IndexInv'
<1>1. CASE Push BY <1>1, PushIndexed
<1>2. CASE ~Push
  <2>1. UNCHANGED scenario
    BY <1>2
    DEF Next, RunStep, Start, GitNext, SetupRepository, SetupRepositoryFails, ProcessFile,
        IndexBatch, UpdateBatch, DeleteBatch, FilesDone, StaticNext, SetupURLs, FetchURL,
        FetchURLFails, IndexURLs, URLsDone, KustoNext, RunQuery, RunQueryFails, FormatRow,
        IndexRows, RowsDone, GetStatus, PatchStatus, UpdateLost, ReadConditions,
        ReadConditionsFails, Killed, ControllerWrites, vars, world
  <2> SUFFICES ASSUME Source("git")
               PROVE  RunInv' /\ FailuresAreKnown' /\ RunKnowsFailures'
    BY <1>2, <2>1, ScenarioIsStable, FreshStays DEF IndexInv
  <2>2. CopyIsFresh /\ RunInv /\ FailuresAreKnown /\ RunKnowsFailures BY DEF IndexInv
  <2>3. CASE Start BY <2>2, <2>3, StartIndexed
  <2>4. CASE GitNext BY <2>2, <2>4, GitIndexed
  <2>5. CASE StaticNext
    BY <2>5 DEF StaticNext, SetupURLs, FetchURL, FetchURLFails, Fetching, IndexURLs,
                URLsDone, Source
  <2>6. CASE KustoNext
    BY <2>6 DEF KustoNext, RunQuery, RunQueryFails, FormatRow, IndexRows, RowsDone, Source
  <2>7. CASE PatchStatus BY <2>2, <2>7, PatchIndexed
  <2>8. CASE UpdateLost \/ ReadConditionsFails \/ Killed BY <2>2, <2>8, LossIndexed
  <2>9. CASE ReadConditions \/ GetStatus \/ UNCHANGED vars BY <2>2, <2>9, ReadIndexed
  <2>10. CASE ControllerWrites BY <2>2, <2>10, ControllerIndexed
  <2> QED
    BY <1>2, <2>3, <2>4, <2>5, <2>6, <2>7, <2>8, <2>9, <2>10 DEF Next, RunStep
<1> QED BY <1>1, <1>2

-----------------------------------------------------------------------------
(* What makes the two properties inductive: a failed batch of              *)
(* GitDataSourceHandler is known to the status or forgotten by it, kills   *)
(* and lost reports leave the recorded commit a base, and a run keeps what *)
(* is wanted in the index, in a list or still to do.                       *)
THEOREM IndexInvariant == Spec => []IndexInv
<1>1. Init => IndexInv BY InitIndexed
<1>2. TypeInv /\ IngestInv /\ IndexInv /\ [Next]_vars => IndexInv' BY NextIndexed
<1> QED BY <1>1, <1>2, TypeInvariant, IngestInvariant, PTL DEF Spec

(* An incremental run that ends without an error leaves the index as       *)
(* complete as a full one (_index_diff_files), for any number of files,    *)
(* commits and runs, and any combination of the faults, unless the         *)
(* controller has cleared the error of an earlier run, and but for a file  *)
(* that went back to an old text where updates are lost or runs killed.    *)
THEOREM RunsAreComplete == Spec => []GitRunIsComplete
<1>1. ASSUME IndexInv, Source("git"), CleanRun, run.mode = "diff" => ~ErrorForgotten,
             NEW p \in Paths, Wanted(p), Text(run.target, p) # 0
      PROVE  \/ Doc(p, Text(run.target, p)) \in docs
             \/ run.mode = "diff" /\ GoneBack(p, run.target)
  <2>1. run.target # 0 /\ IsThrough /\ ~MissesSomething
    BY <1>1 DEF IndexInv, RunInv, ErrorsAreNoted, CleanRunHasCloned, CleanRun, IsThrough,
                MissesSomething
  <2> QED BY <1>1, <2>1 DEF IndexInv, RunInv, RunHasIndexed, New, NotShown
<1>2. IndexInv => GitRunIsComplete BY <1>1 DEF GitRunIsComplete
<1> QED BY <1>2, IndexInvariant, PTL

(* Unless the last run is known to have failed, or its error was cleared   *)
(* by the controller, a diff from the commit in the status misses nothing  *)
(* but files that went back to an old text while updates were lost         *)
(* (_setup_repository, lastIndexedCommit).                                 *)
THEOREM RecordedCommitsAreBases == Spec => []RecordedCommitIsABase
<1>1. ASSUME TypeInv, IndexInv, Source("git"), status.commit # 0, ~status.error,
             ~ErrorForgotten, NEW p \in Paths, Wanted(p), Text(status.commit, p) # 0
      PROVE  \/ Doc(p, Text(status.commit, p)) \in docs
             \/ \E c \in (status.commit + 1)..Now : Text(c, p) # Text(status.commit, p)
             \/ GoneBack(p, status.commit)
  <2>1. RecordedCommitIsIndexed BY <1>1 DEF IndexInv, FailuresAreKnown
  <2>2. \/ Doc(p, Text(status.commit, p)) \in docs
        \/ Overtaken(p)
        \/ GoneBack(p, status.commit)
    BY <1>1, <2>1 DEF RecordedCommitIsIndexed
  <2>3. status.commit \in 0..Now /\ run.target \in 0..Now /\ Now \in Nat
    BY <1>1 DEF TypeInv, Bounds
  <2>4. Overtaken(p) =>
          \E c \in (status.commit + 1)..Now : Text(c, p) # Text(status.commit, p)
    BY <2>3 DEF Overtaken
  <2> QED BY <2>2, <2>4
<1>2. TypeInv /\ IndexInv => RecordedCommitIsABase BY <1>1 DEF RecordedCommitIsABase
<1> QED BY <1>2, TypeInvariant, IndexInvariant, PTL
=============================================================================
