------------------------ MODULE IngestionRefinement ------------------------
(***************************************************************************)
(* IndexerJob implements Ingestion, with every data source and whatever    *)
(* fails.  IngestInv is the inductive invariant the steps need: whatever   *)
(* is in the lists of a run may go into the index, and the run works from  *)
(* the checkpoint in the status.                                           *)
(***************************************************************************)
EXTENDS IndexerJobTypes

(* A text the data source has held, of a file that may be indexed.         *)
Held(doc) == Ingest!Genuine(doc)

(* The file has changed since the commit the run works from.               *)
Passed(p) ==
  /\ 0 < run.from /\ run.from < run.target
  /\ Text(run.target, p) # Text(run.from, p)

(* What is still to be processed: a diff names what changed, and a         *)
(* listing or a query what is there.                                       *)
ItemIsSound(item) ==
  /\ Source("git") =>
       /\ item.change # "D" => Text(run.target, item.path) # 0
       /\ item.change \in {"M", "R"} => Passed(item.old)
  /\ Source("kusto") => Latest[item.path] # 0

(* An update puts the text of the tree the run goes for in the place of    *)
(* one that changed since the last run.                                    *)
UpdateIsDue(u) ==
  /\ Held(u.new) /\ u.new.text = Text(run.target, u.new.path)
  /\ Passed(u.old.path)

(* The lists of a run; the Git handler alone has updates, in its loop.     *)
ListsHeld ==
  /\ \A d \in run.create : Held(d)
  /\ \A u \in run.update : At("index") /\ Source("git") /\ UpdateIsDue(u)
  /\ At("index") => \A item \in run.todo : ItemIsSound(item)

(* Until its report nobody but the run itself writes the commit.           *)
BeforeReport == {"begin", "setup", "index"}

(* A run works from the commit in the status and goes for a later one, or  *)
(* the pinned one, and nothing keeps the time of a run over URLs.          *)
CheckpointBehind ==
  /\ Source("git") =>
       /\ run.pc \in BeforeReport => run.from = status.commit
       /\ run.target # 0 => status.commit <= run.target
       /\ scenario.pin # 0 => /\ status.commit \in {0, scenario.pin}
                              /\ run.target \in {0, scenario.pin}
  /\ Source("static") => status.stamp = 0

(* The inductive invariant.                                                *)
IngestInv == ListsHeld /\ CheckpointBehind

-----------------------------------------------------------------------------
(* What a run may index does not change.                                   *)
LEMMA PermittedStays ==
  ASSUME UNCHANGED scenario
  PROVE  Permitted' = Permitted
<1>1. \A p \in Paths : Readable(p)' = Readable(p) BY ReadableIsStable
<1> QED BY <1>1 DEF Permitted, ShouldIndex, Fact, Source

(* A text a permitted path has had is genuine.                             *)
LEMMA TextIsHeld ==
  ASSUME NEW p \in Permitted, NEW c \in 1..Now, Text(c, p) # 0
  PROVE  Held(Doc(p, Text(c, p)))
BY DEF Held, Ingest!Genuine, Ingest!Now, Doc, Text, Now

(* It stays genuine.                                                       *)
LEMMA HeldStays ==
  ASSUME TypeInv, Push \/ UNCHANGED world, NEW doc, Held(doc)
  PROVE  Held(doc)'
<1>1. Permitted' = Permitted BY PermittedStays DEF Push, world
<1>2. doc.path \in Paths BY DEF Held, Ingest!Genuine, Permitted
<1>3. \A c \in 1..Now : c \in 1..Now' /\ history'[c][doc.path] = history[c][doc.path]
  <2>1. CASE Push BY <1>2, <2>1, PushAppends DEF Text
  <2>2. CASE UNCHANGED world BY <2>2 DEF world, Now
  <2> QED BY <2>1, <2>2
<1> QED BY <1>1, <1>3 DEF Held, Ingest!Genuine, Ingest!Now, Now

-----------------------------------------------------------------------------
(* What is in the lists stays as it is when the data source moves on.      *)
LEMMA SoundStays ==
  ASSUME TypeInv, Push \/ UNCHANGED world, run'.from = run.from,
         run'.target = run.target, run.target # 0
  PROVE  /\ \A p \in Paths : Passed(p) => Passed(p)'
         /\ \A u \in [old : Documents, new : Documents] :
              UpdateIsDue(u) => UpdateIsDue(u)'
         /\ \A item \in Items : ItemIsSound(item) => ItemIsSound(item)'
<1>1. run.target \in 1..Now /\ run.from \in 0..Now /\ Now \in Nat
  BY DEF TypeInv, Bounds
<1>2. \A c \in 1..Now, p \in Paths : Text(c, p)' = Text(c, p)
  BY PushAppends DEF world, Text
<1>3. \A p \in Paths : Text(run.target, p)' = Text(run.target, p)
  BY <1>1, <1>2 DEF Text
<1>4. ASSUME NEW p \in Paths, Passed(p) PROVE Passed(p)'
  <2>1. run.from \in 1..Now BY <1>1, <1>4 DEF Passed
  <2>2. Text(run.from, p)' = Text(run.from, p) BY <1>2, <2>1 DEF Text
  <2> QED BY <1>3, <1>4, <2>2 DEF Passed
<1>5. ASSUME NEW u \in [old : Documents, new : Documents], UpdateIsDue(u)
      PROVE  UpdateIsDue(u)'
  <2>1. u.old.path \in Paths /\ u.new.path \in Paths BY DEF Documents
  <2> QED BY <1>3, <1>4, <1>5, <2>1, HeldStays DEF UpdateIsDue
<1>6. ASSUME NEW item \in Items, ItemIsSound(item) PROVE ItemIsSound(item)'
  <2>1. item.path \in Paths /\ item.old \in Paths BY DEF Items
  <2>2. Source("kusto") => Latest[item.path]' # 0
    <3> SUFFICES ASSUME Source("kusto") PROVE Latest[item.path]' # 0
      OBVIOUS
    <3>1. Latest[item.path] # 0 BY <1>6 DEF ItemIsSound
    <3>2. CASE Push
      <4>1. Texts(item.path) = {Latest[item.path]} BY <3>1 DEF Texts, Source
      <4> QED BY <2>1, <3>1, <3>2, <4>1, PushAppends
    <3>3. CASE UNCHANGED world BY <3>1, <3>3 DEF world, Latest, Now
    <3> QED BY <3>2, <3>3
  <2>3. UNCHANGED scenario BY DEF Push, world
  <2> QED BY <1>3, <1>4, <1>6, <2>1, <2>2, <2>3 DEF ItemIsSound, Source
<1> QED BY <1>4, <1>5, <1>6

(* A step of the loops, or of the data source during one.                  *)
LEMMA LoopHeld ==
  ASSUME TypeInv, ListsHeld, Push \/ UNCHANGED world, At("index"), At("index")',
         run'.from = run.from, run'.target = run.target,
         run'.todo \subseteq run.todo,
         \A d \in run'.create : d \in run.create \/ Held(d),
         run'.update \subseteq [old : Documents, new : Documents],
         \A u \in run'.update :
           u \in run.update \/ (Source("git") /\ UpdateIsDue(u))
  PROVE  ListsHeld'
<1>1. run.target # 0 /\ run.todo \subseteq Items /\ UNCHANGED scenario
  BY DEF TypeInv, TypeOK, Bounds, Runs, Push, world
<1>2. \A d \in run'.create : Held(d)' BY HeldStays DEF ListsHeld
<1>3. \A u \in run'.update : Source("git")' /\ UpdateIsDue(u)'
  BY <1>1, SoundStays DEF ListsHeld, Source
<1>4. \A item \in run'.todo : ItemIsSound(item)'
  BY <1>1, SoundStays DEF ListsHeld
<1> QED BY <1>2, <1>3, <1>4 DEF ListsHeld

(* Elsewhere there is nothing to replace.                                  *)
LEMMA OutsideHeld ==
  ASSUME TypeInv, ListsHeld, Push \/ UNCHANGED world, ~At("index")',
         run'.create \subseteq run.create, run'.update = {}
  PROVE  ListsHeld'
<1>1. \A d \in run'.create : Held(d)' BY HeldStays DEF ListsHeld
<1> QED BY <1>1 DEF ListsHeld

(* update_index ends with empty lists.                                     *)
LEMMA LeftEmpties ==
  ASSUME NEW r \in Runs
  PROVE  /\ Left(r).pc = "base" /\ Left(r).create = {} /\ Left(r).update = {}
         /\ Left(r).from = r.from /\ Left(r).target = r.target
BY DEF Left, Runs

(* A run that goes on from the same commit, ends, or begins.               *)
LEMMA BehindStays ==
  ASSUME CheckpointBehind, UNCHANGED scenario,
         status'.commit = status.commit, status'.stamp = status.stamp,
         run'.target \in {0, run.target},
         run'.pc \in BeforeReport =>
           \/ run'.from = status.commit
           \/ run'.from = run.from /\ run.pc \in BeforeReport
  PROVE  CheckpointBehind'
BY DEF CheckpointBehind, Source

-----------------------------------------------------------------------------
(* GitDataSourceHandler.  What it clones has the texts it goes for, and a  *)
(* diff is one to a later commit than the one in the status.               *)
LEMMA SetupIngest ==
  ASSUME TypeInv, IngestInv, SetupRepository
  PROVE  IngestInv'
<1>1. /\ run \in Runs /\ UNCHANGED <<world, docs, status>> /\ At("setup")
      /\ Source("git") /\ Target \in 1..Now /\ Now \in Nat
      /\ run.from = status.commit /\ run.from \in 0..Now
  BY DEF TypeInv, TypeOK, Bounds, SetupRepository, IngestInv, CheckpointBehind, At, BeforeReport
<1>2. /\ status.commit <= Target
      /\ scenario.pin # 0 => status.commit \in {0, scenario.pin} /\ Target = scenario.pin
  <2>1. CASE scenario.pin = 0 BY <1>1, <2>1 DEF Target
  <2>2. CASE scenario.pin # 0
    <3>1. Target = scenario.pin BY <2>2 DEF Target
    <3>2. status.commit \in {0, scenario.pin}
      BY <1>1, <2>2 DEF IngestInv, CheckpointBehind
    <3> QED BY <1>1, <3>1, <3>2
  <2> QED BY <2>1, <2>2
<1>3. run.update = {} BY <1>1 DEF IngestInv, ListsHeld, At
<1>4. ASSUME run'.target = Target, run'.from = run.from
      PROVE  CheckpointBehind'
  BY <1>1, <1>2, <1>4 DEF CheckpointBehind, world, Source
<1>5. ASSUME run'.target = Target, run'.from = run.from, run'.pc = "index",
             run'.create = run.create, run'.update = run.update,
             \A item \in run'.todo :
               /\ item.change # "D" => Text(Target, item.path) # 0
               /\ item.change \in {"M", "R"} =>
                    run.from # 0 /\ Text(Target, item.old) # Text(run.from, item.old)
             , scenario.pin = 0 \/ \A item \in run'.todo : item.change = "A"
      PROVE  IngestInv'
  <2>1. \A d \in run'.create : Held(d)'
    BY <1>1, <1>5, HeldStays DEF IngestInv, ListsHeld
  <2>2. \A item \in run'.todo : ItemIsSound(item)'
    <3> SUFFICES ASSUME NEW item \in run'.todo PROVE ItemIsSound(item)'
      OBVIOUS
    <3>1. item.change # "D" => Text(run.target, item.path)' # 0
      BY <1>1, <1>5 DEF Text, world
    <3>2. item.change \in {"M", "R"} => Passed(item.old)'
      <4> SUFFICES ASSUME item.change \in {"M", "R"} PROVE Passed(item.old)'
        OBVIOUS
      <4>1. run.from # 0 /\ Text(Target, item.old) # Text(run.from, item.old)
        BY <1>5
      <4>2. run.from < Target BY <1>1, <1>2, <4>1
      <4> QED BY <1>1, <1>5, <4>1, <4>2 DEF Passed, Text, world
    <3> QED BY <1>1, <3>1, <3>2 DEF ItemIsSound, Source, world
  <2>3. ListsHeld' BY <1>3, <1>5, <2>1, <2>2 DEF ListsHeld
  <2> QED BY <1>4, <1>5, <2>3 DEF IngestInv
<1>6. CASE IndexAllFiles(Target)
  <2>1. /\ run'.pc = "index" /\ run'.target = Target /\ run'.todo = AllFiles(Target)
        /\ run'.from = run.from /\ run'.create = run.create /\ run'.update = run.update
    BY <1>1, <1>6 DEF IndexAllFiles, Runs
  <2>2. \A item \in run'.todo : item.change = "A" /\ Text(Target, item.path) # 0
    BY <2>1 DEF AllFiles, RepositoryFiles, Item
  <2> QED BY <1>5, <2>1, <2>2
<1>7. CASE DiffPossible /\ IndexDiffFiles(Target)
  <2> DEFINE b == run.from
  <2>1. PICK renames \in Renames(b, Target) :
          run' = [run EXCEPT !.pc = "index", !.mode = "diff", !.target = Target,
                             !.todo = Diff(b, Target, renames)]
    BY <1>7 DEF IndexDiffFiles
  <2>2. /\ run'.pc = "index" /\ run'.target = Target
        /\ run'.todo = Diff(b, Target, renames)
        /\ run'.from = b /\ run'.create = run.create /\ run'.update = run.update
    BY <1>1, <2>1 DEF Runs
  <2>3. ASSUME NEW item \in Diff(b, Target, renames)
        PROVE  /\ item.change # "D" => Text(Target, item.path) # 0
               /\ item.change \in {"M", "R"} => Text(Target, item.old) # Text(b, item.old)
    <3>1. CASE \E p \in Added(b, Target) :
                 item = Item(IF renames[p] = p THEN "A" ELSE "R", p, renames[p])
      <4>1. PICK p \in Added(b, Target) :
              item = Item(IF renames[p] = p THEN "A" ELSE "R", p, renames[p])
        BY <3>1
      <4>2. Text(Target, p) # 0 BY DEF Added, Changed
      <4>3. renames[p] \in Deleted(b, Target) \cup {p} BY DEF Renames
      <4> QED BY <4>1, <4>2, <4>3 DEF Item, Deleted, Added, Changed
    <3>2. CASE \E p \in Modified(b, Target) : item = Item("M", p, p)
      BY <3>2 DEF Modified, Changed, Deleted, Item
    <3>3. CASE \E p \in Deleted(b, Target) : item = Item("D", p, p)
      BY <3>3 DEF Item
    <3> QED BY <3>1, <3>2, <3>3 DEF Diff
  <2>4. run.from # 0 /\ scenario.pin = 0 BY <1>7 DEF DiffPossible
  <2> QED BY <1>5, <2>2, <2>3, <2>4
<1>8. CASE run' = Left(Failed([run EXCEPT !.target = Target]))
  <2> DEFINE r == [run EXCEPT !.target = Target]
  <2>1. r \in Runs /\ r.from = run.from /\ r.target = Target
    BY <1>1 DEF Runs
  <2> HIDE DEF r
  <2>2. /\ run'.pc = "base" /\ run'.create = {} /\ run'.update = {}
        /\ run'.target = Target /\ run'.from = run.from
    BY <1>8, <2>1, FailedIsRun, LeftEmpties DEF r
  <2>3. ListsHeld' BY <1>1, <2>2, OutsideHeld DEF IngestInv, At
  <2> QED BY <1>4, <2>2, <2>3 DEF IngestInv
<1> QED BY <1>6, <1>7, <1>8 DEF SetupRepository

(* An item leaves the list for one of the batches.                         *)
LEMMA ProcessFileIngest ==
  ASSUME TypeInv, IngestInv, ProcessFile
  PROVE  IngestInv'
<1>1. /\ run \in Runs /\ run.todo \subseteq Items
      /\ At("index") /\ Source("git") /\ UNCHANGED <<world, status>>
      /\ run' \in Runs
  BY ProcessFileTypes DEF TypeInv, TypeOK, ProcessFile, Indexing, Runs
<1>2. PICK item \in run.todo :
       \/ run' = Done(item, run)
       \/ /\ ~PassedOver(item) /\ item.change = "A"
          /\ run' = Done(item, [run EXCEPT !.create = @ \cup {New(item.path)}])
       \/ /\ ~PassedOver(item) /\ item.change \in {"M", "R"}
          /\ \E hit \in LookUps(item.old) :
               run' = Done(item, Noted(hit, ToUpdate(item, hit)))
       \/ \E hit \in LookUps(item.path) :
            run' = Done(item, Noted(hit, ToDelete(hit)))
  BY DEF ProcessFile
<1>3. item \in Items /\ item.path \in Paths /\ item.old \in Paths BY <1>1 DEF Items
<1>4. ItemIsSound(item) BY <1>1 DEF IngestInv, ListsHeld
<1>5. (~PassedOver(item) /\ item.change # "D") => Held(New(item.path))
  <2> SUFFICES ASSUME ~PassedOver(item), item.change # "D" PROVE Held(New(item.path))
    OBVIOUS
  <2>1. item.path \in Permitted BY <1>3 DEF PassedOver, Permitted
  <2>2. run.target \in 1..Now BY <1>1 DEF TypeInv, Bounds
  <2>3. Text(run.target, item.path) # 0 BY <1>1, <1>4 DEF ItemIsSound
  <2> QED BY <2>1, <2>2, <2>3, TextIsHeld DEF New
<1>6. ASSUME run'.pc = run.pc, run'.from = run.from, run'.target = run.target,
             run'.todo = run.todo \ {item},
             \A d \in run'.create : d \in run.create \/ Held(d),
             \A u \in run'.update : u \in run.update \/ UpdateIsDue(u)
      PROVE  IngestInv'
  <2>1. run'.update \subseteq [old : Documents, new : Documents] BY <1>1 DEF Runs
  <2>2. ListsHeld' BY <1>1, <1>6, <2>1, LoopHeld DEF IngestInv, At
  <2>3. CheckpointBehind' BY <1>1, <1>6, BehindStays DEF IngestInv, world
  <2> QED BY <2>2, <2>3 DEF IngestInv
<1>7. CASE run' = Done(item, run)
  <2>1. /\ run'.pc = run.pc /\ run'.from = run.from /\ run'.target = run.target
        /\ run'.todo = run.todo \ {item} /\ run'.create = run.create
        /\ run'.update = run.update
    BY <1>1, <1>7 DEF Done, Runs
  <2> QED BY <1>6, <2>1
<1>8. CASE /\ ~PassedOver(item) /\ item.change = "A"
           /\ run' = Done(item, [run EXCEPT !.create = @ \cup {New(item.path)}])
  <2>1. /\ run'.pc = run.pc /\ run'.from = run.from /\ run'.target = run.target
        /\ run'.todo = run.todo \ {item}
        /\ run'.create = run.create \cup {New(item.path)}
        /\ run'.update = run.update
    BY <1>1, <1>8 DEF Done, Runs
  <2> QED BY <1>5, <1>6, <1>8, <2>1
<1>9. CASE /\ ~PassedOver(item) /\ item.change \in {"M", "R"}
           /\ \E hit \in LookUps(item.old) :
                run' = Done(item, Noted(hit, ToUpdate(item, hit)))
  <2>1. PICK hit \in LookUps(item.old) :
               run' = Done(item, Noted(hit, ToUpdate(item, hit)))
    BY <1>9
  <2> DEFINE u == [old |-> hit.doc, new |-> New(item.path)]
  <2>2. /\ run'.todo = run.todo \ {item}
        /\ run'.pc = run.pc /\ run'.from = run.from /\ run'.target = run.target
        /\ run'.create = IF hit.doc = NoDoc THEN run.create \cup {New(item.path)}
                         ELSE run.create
        /\ run'.update = IF hit.doc = NoDoc THEN run.update ELSE run.update \cup {u}
    <3> HIDE DEF u
    <3>1. ToUpdate(item, hit) =
            IF hit.doc = NoDoc
            THEN [run EXCEPT !.create = @ \cup {New(item.path)}]
            ELSE [run EXCEPT !.update = @ \cup {u}]
      BY DEF ToUpdate, u
    <3>2. CASE hit.doc = NoDoc
      BY <1>1, <2>1, <3>1, <3>2 DEF Done, Noted, Failed, Runs
    <3>3. CASE hit.doc # NoDoc
      BY <1>1, <2>1, <3>1, <3>3 DEF Done, Noted, Failed, Runs
    <3> QED BY <3>2, <3>3
  <2>3. Held(New(item.path)) BY <1>5, <1>9
  <2>4. hit.doc # NoDoc => UpdateIsDue(u)
    <3> SUFFICES ASSUME hit.doc # NoDoc PROVE UpdateIsDue(u)
      OBVIOUS
    <3>1. hit.doc.path = item.old BY <1>3, FoundIsDocument DEF TypeInv
    <3>2. Passed(item.old) BY <1>1, <1>4, <1>9 DEF ItemIsSound
    <3>3. New(item.path).text = Text(run.target, New(item.path).path)
      BY DEF New, Doc
    <3> QED BY <2>3, <3>1, <3>2, <3>3 DEF UpdateIsDue
  <2> HIDE DEF u
  <2> QED BY <1>6, <2>2, <2>3, <2>4
<1>10. CASE \E hit \in LookUps(item.path) :
              run' = Done(item, Noted(hit, ToDelete(hit)))
  <2>1. PICK hit \in LookUps(item.path) :
               run' = Done(item, Noted(hit, ToDelete(hit)))
    BY <1>10
  <2>2. /\ run'.todo = run.todo \ {item}
        /\ run'.create = run.create /\ run'.update = run.update
        /\ run'.pc = run.pc /\ run'.from = run.from /\ run'.target = run.target
    BY <1>1, <2>1 DEF Done, Noted, Failed, ToDelete, Runs
  <2> QED BY <1>6, <2>2
<1> QED BY <1>2, <1>7, <1>8, <1>9, <1>10

(* A batch of new documents, or a part of it, goes in.                     *)
LEMMA CreateIsIndex ==
  ASSUME TypeInv, IngestInv, UNCHANGED <<world, status>>,
         NEW applied, applied \subseteq run.create, docs' = docs \cup applied
  PROVE  Ingest!Index
<1>1. \A doc \in docs' \ docs : Ingest!Genuine(doc)
  BY DEF IngestInv, ListsHeld, Held
<1>2. UNCHANGED <<history, Permitted, Checkpoint>>
  BY PermittedStays DEF Checkpoint, Source, world
<1> QED BY <1>1, <1>2 DEF Ingest!Index

(* What an update takes out is out of date, and its file's text goes in.   *)
LEMMA UpdateIsIndex ==
  ASSUME TypeInv, IngestInv, UNCHANGED <<world, status>>,
         NEW applied, applied \subseteq run.update, docs' = Updated(applied)
  PROVE  Ingest!Index
<1>1. \A u \in applied : At("index") /\ Source("git") /\ UpdateIsDue(u)
  BY DEF IngestInv, ListsHeld
<1>2. \A doc \in docs' \ docs : Ingest!Genuine(doc)
  BY <1>1 DEF Updated, UpdateIsDue, Held
<1>3. ASSUME NEW old \in docs \ docs'
      PROVE  \E c \in 1..Ingest!Now, new \in docs' :
               /\ Ingest!Outdated(old, c)
               /\ Ingest!Genuine(new) /\ new.text = history[c][new.path]
  <2>1. PICK u \in applied : u.old = old BY <1>3 DEF Updated
  <2>2. u.new \in docs' BY DEF Updated
  <2>3. /\ run.target \in 1..Ingest!Now /\ Checkpoint = run.from
    BY <1>1 DEF TypeInv, Bounds, Now, Ingest!Now, IngestInv, CheckpointBehind,
                Checkpoint, BeforeReport, At
  <2>4. /\ Ingest!Genuine(u.new) /\ u.new.text = history[run.target][u.new.path]
        /\ Passed(old.path)
    BY <1>1, <2>1 DEF UpdateIsDue, Held, Text
  <2>5. Ingest!Outdated(old, run.target)
    BY <2>3, <2>4 DEF Passed, Text, Ingest!Outdated
  <2> QED BY <2>2, <2>3, <2>4, <2>5
<1>4. UNCHANGED <<history, Permitted, Checkpoint>>
  BY PermittedStays DEF Checkpoint, Source, world
<1> QED BY <1>2, <1>3, <1>4 DEF Ingest!Index

(* A batch leaves its list.                                                *)
LEMMA SentIngest ==
  ASSUME TypeInv, IngestInv, UNCHANGED <<world, status>>, At("index"),
         NEW r \in Runs, r.pc = "index", r.from = run.from, r.target = run.target,
         r.todo = run.todo, r.create \subseteq run.create,
         r.update \subseteq run.update, run' \in {r, Failed(r)}
  PROVE  IngestInv'
<1>1. /\ run'.pc = "index" /\ run'.from = run.from /\ run'.target = run.target
      /\ run'.todo = run.todo /\ run'.create \subseteq run.create
      /\ run'.update \subseteq run.update
  BY DEF Failed, Runs
<1>2. run.update \subseteq [old : Documents, new : Documents]
  BY DEF TypeInv, TypeOK, Runs
<1>3. ListsHeld' BY <1>1, <1>2, LoopHeld DEF IngestInv, At
<1>4. CheckpointBehind' BY <1>1, BehindStays DEF IngestInv, world, At
<1> QED BY <1>3, <1>4 DEF IngestInv

(* The list of documents is dropped, with all the others, when a run ends. *)
LEMMA EndIngest ==
  ASSUME TypeInv, IngestInv, UNCHANGED <<world, status>>,
         run'.pc \in {"base", "idle"}, run'.create = {}, run'.update = {},
         run'.target \in {0, run.target}
  PROVE  IngestInv'
<1>1. ListsHeld' BY OutsideHeld DEF IngestInv, At
<1>2. CheckpointBehind' BY BehindStays DEF IngestInv, world, BeforeReport
<1> QED BY <1>1, <1>2 DEF IngestInv

(* Nothing that Ingestion is about changes.                                *)
Stutters == UNCHANGED <<history, Permitted, docs, Checkpoint>>

LEMMA StutterSteps ==
  ASSUME UNCHANGED <<world, docs>>,
         status'.commit = status.commit, status'.stamp = status.stamp
  PROVE  Stutters
BY PermittedStays DEF Stutters, Checkpoint, Source, world

(* The steps of GitDataSourceHandler.                                      *)
LEMMA GitIngest ==
  ASSUME TypeInv, IngestInv, GitNext
  PROVE  IngestInv' /\ (Ingest!Index \/ Stutters)
<1>1. run \in Runs BY DEF TypeInv, TypeOK
<1>2. CASE SetupRepository
  BY <1>2, SetupIngest, StutterSteps DEF SetupRepository
<1>3. CASE SetupRepositoryFails
  BY <1>1, <1>3, FailedIsRun, LeftEmpties, EndIngest, StutterSteps
  DEF SetupRepositoryFails
<1>4. CASE ProcessFile
  BY <1>4, ProcessFileIngest, StutterSteps DEF ProcessFile
<1>5. CASE IndexBatch
  <2>1. PICK ok \in Outcomes :
          /\ \E applied \in Applied(run.create, ok) : docs' = docs \cup applied
          /\ run' = Sent(ok, [run EXCEPT !.create = {}])
    BY <1>5 DEF IndexBatch
  <2>2. Ingest!Index BY <1>5, <2>1, AppliedIsPart, CreateIsIndex DEF IndexBatch
  <2> DEFINE r == [run EXCEPT !.create = {}]
  <2>3. /\ r \in Runs /\ r.pc = run.pc /\ r.from = run.from /\ r.target = run.target
        /\ r.todo = run.todo /\ r.create = {} /\ r.update = run.update
    BY <1>1 DEF Runs
  <2>4. run' \in {r, Failed(r)} BY <2>1 DEF Sent
  <2> HIDE DEF r
  <2> QED BY <1>5, <2>2, <2>3, <2>4, SentIngest DEF IndexBatch, Indexing, At
<1>6. CASE UpdateBatch
  <2>1. PICK ok \in Outcomes :
          /\ \E applied \in Applied(run.update, ok) : docs' = Updated(applied)
          /\ run' = Sent(ok, [run EXCEPT !.update = {}])
    BY <1>6 DEF UpdateBatch
  <2>2. Ingest!Index BY <1>6, <2>1, AppliedIsPart, UpdateIsIndex DEF UpdateBatch
  <2> DEFINE r == [run EXCEPT !.update = {}]
  <2>3. /\ r \in Runs /\ r.pc = run.pc /\ r.from = run.from /\ r.target = run.target
        /\ r.todo = run.todo /\ r.create = run.create /\ r.update = {}
    BY <1>1 DEF Runs
  <2>4. run' \in {r, Failed(r)} BY <2>1 DEF Sent
  <2> HIDE DEF r
  <2> QED BY <1>6, <2>2, <2>3, <2>4, SentIngest DEF UpdateBatch, Indexing, At
<1>7. CASE DeleteBatch
  <2> DEFINE r == [run EXCEPT !.delete = {}]
  <2>1. /\ r \in Runs /\ r.pc = run.pc /\ r.from = run.from /\ r.target = run.target
        /\ r.todo = run.todo /\ r.create = run.create /\ r.update = run.update
    BY <1>1 DEF Runs
  <2>2. run' \in {r, Failed(r)} BY <1>7 DEF DeleteBatch
  <2> HIDE DEF r
  <2> QED
    BY <1>7, <2>1, <2>2, SentIngest, StutterSteps DEF DeleteBatch, Indexing, At
<1>8. CASE FilesDone
  BY <1>1, <1>8, LeftEmpties, EndIngest, StutterSteps DEF FilesDone
<1> QED BY <1>2, <1>3, <1>4, <1>5, <1>6, <1>7, <1>8 DEF GitNext

-----------------------------------------------------------------------------
(* The first run over a source without a diff has no update to make.       *)
LEMMA SetupAll ==
  ASSUME TypeInv, IngestInv, UNCHANGED <<world, docs, status>>, ~Source("git"),
         At("setup"), run'.pc = "index", run'.create = run.create,
         run'.update = run.update,
         Source("kusto") => \A item \in run'.todo : Latest[item.path] # 0
  PROVE  IngestInv' /\ Stutters
<1>1. \A d \in run'.create : Held(d)' BY HeldStays DEF IngestInv, ListsHeld
<1>2. run'.update = {} BY DEF IngestInv, ListsHeld, At
<1>3. \A item \in run'.todo : ItemIsSound(item)'
  BY DEF ItemIsSound, Source, Latest, Now, world
<1>4. ListsHeld' BY <1>1, <1>2, <1>3 DEF ListsHeld
<1>5. CheckpointBehind' BY DEF IngestInv, CheckpointBehind, Source, world
<1> QED BY <1>4, <1>5, StutterSteps DEF IngestInv

(* A URL or a row is taken off the list, and may go into the batch.        *)
LEMMA FetchedIngest ==
  ASSUME TypeInv, IngestInv, UNCHANGED <<world, docs, status>>, ~Source("git"),
         At("index"), NEW p \in Paths, Latest[p] # 0,
         run'.pc = run.pc, run'.from = run.from, run'.target = run.target,
         run'.todo \subseteq run.todo, run'.update = run.update,
         \/ run'.create = run.create
         \/ Readable(p) /\ run'.create = run.create \cup {Doc(p, Latest[p])}
  PROVE  IngestInv' /\ Stutters
<1>1. Readable(p) => Held(Doc(p, Latest[p]))
  <2> SUFFICES ASSUME Readable(p) PROVE Held(Doc(p, Latest[p]))
    OBVIOUS
  <2>1. p \in Permitted BY DEF Permitted
  <2>2. Now \in 1..Now BY DEF TypeInv, Bounds
  <2> QED BY <2>1, <2>2, LatestIsText, TextIsHeld
<1>2. run.update \subseteq [old : Documents, new : Documents]
  BY DEF TypeInv, TypeOK, Runs
<1>3. ListsHeld' BY <1>1, <1>2, LoopHeld DEF IngestInv, At
<1>4. CheckpointBehind' BY BehindStays DEF IngestInv, world
<1> QED BY <1>3, <1>4, StutterSteps DEF IngestInv

(* A batch that fails may still have gone in, and ends a run over URLs.    *)
LEMMA BatchIngest ==
  ASSUME TypeInv, IngestInv, UNCHANGED <<world, status>>, At("index"),
         NEW ok \in BOOLEAN, NEW applied \in Applied(run.create, ok),
         docs' = docs \cup applied,
         \/ run' \in {[run EXCEPT !.create = {}], Failed([run EXCEPT !.create = {}])}
         \/ run' = Left(Failed(run))
  PROVE  IngestInv' /\ Ingest!Index
<1>1. run \in Runs BY DEF TypeInv, TypeOK
<1>2. Ingest!Index BY AppliedIsPart, CreateIsIndex
<1>3. CASE run' \in {[run EXCEPT !.create = {}], Failed([run EXCEPT !.create = {}])}
  <2> DEFINE r == [run EXCEPT !.create = {}]
  <2>1. /\ r \in Runs /\ r.pc = run.pc /\ r.from = run.from /\ r.target = run.target
        /\ r.todo = run.todo /\ r.create = {} /\ r.update = run.update
    BY <1>1 DEF Runs
  <2>2. run' \in {r, Failed(r)} BY <1>3
  <2> HIDE DEF r
  <2>3. IngestInv' BY <2>1, <2>2, SentIngest DEF At
  <2> QED BY <1>2, <2>3
<1>4. CASE run' = Left(Failed(run))
  BY <1>1, <1>2, <1>4, FailedIsRun, LeftEmpties, EndIngest
<1> QED BY <1>3, <1>4

(* The steps of StaticDataSourceHandler.                                   *)
LEMMA StaticIngest ==
  ASSUME TypeInv, IngestInv, StaticNext
  PROVE  IngestInv' /\ (Ingest!Index \/ Stutters)
<1>1. run \in Runs BY DEF TypeInv, TypeOK
<1>2. CASE SetupURLs
  <2>1. run'.pc = "index" /\ run'.create = run.create /\ run'.update = run.update
    BY <1>1, <1>2 DEF SetupURLs, Runs
  <2> QED BY <1>2, <2>1, SetupAll DEF SetupURLs, Source
<1>3. CASE FetchURL
  <2>1. PICK item \in run.todo :
          /\ Latest[item.path] # 0
          /\ \/ /\ Readable(item.path)
                /\ run' = [run EXCEPT !.todo = @ \ {item},
                             !.create = @ \cup {Doc(item.path, Latest[item.path])}]
             \/ run' = [run EXCEPT !.todo = @ \ {item}]
    BY <1>3 DEF FetchURL, Readable
  <2> DEFINE p == item.path
             more == run.create \cup {Doc(p, Latest[p])}
  <2>2. p \in Paths BY <1>1 DEF Runs, Items
  <2>3. /\ run'.pc = run.pc /\ run'.from = run.from /\ run'.target = run.target
        /\ run'.todo \subseteq run.todo /\ run'.update = run.update
        /\ \/ run'.create = run.create
           \/ Readable(p) /\ run'.create = more
    <3>1. CASE run' = [run EXCEPT !.todo = @ \ {item}]
      BY <1>1, <3>1 DEF Runs
    <3>2. CASE Readable(p) /\ run' = [run EXCEPT !.todo = @ \ {item}, !.create = more]
      <4> HIDE DEF more, p
      <4> QED BY <1>1, <3>2 DEF Runs
    <3> QED BY <2>1, <3>1, <3>2
  <2>4. ~Source("git") /\ At("index") /\ UNCHANGED <<world, docs, status>>
    BY <1>3 DEF FetchURL, Fetching, Source
  <2> QED BY <2>1, <2>2, <2>3, <2>4, FetchedIngest
<1>4. CASE FetchURLFails
  BY <1>1, <1>4, FailedIsRun, LeftEmpties, EndIngest, StutterSteps DEF FetchURLFails
<1>5. CASE IndexURLs
  <2>1. PICK ok \in BOOLEAN :
          /\ \E applied \in Applied(run.create, ok) : docs' = docs \cup applied
          /\ run' \in {[run EXCEPT !.create = {}], Left(Failed(run))}
    BY <1>5 DEF IndexURLs, Outcomes
  <2> QED BY <1>5, <2>1, BatchIngest DEF IndexURLs
<1>6. CASE URLsDone
  BY <1>1, <1>6, LeftEmpties, EndIngest, StutterSteps DEF URLsDone
<1> QED BY <1>2, <1>3, <1>4, <1>5, <1>6 DEF StaticNext

(* The steps of KustoDataSourceHandler.                                    *)
LEMMA KustoIngest ==
  ASSUME TypeInv, IngestInv, KustoNext
  PROVE  IngestInv' /\ (Ingest!Index \/ Stutters)
<1>1. run \in Runs BY DEF TypeInv, TypeOK
<1>2. CASE RunQuery
  <2>1. PICK time \in Checkpoints : run' = Query(time)
    BY <1>2 DEF RunQuery
  <2> DEFINE after == IF Initial(time) THEN 0 ELSE time
  <2>2. after \in Nat
    BY DEF Checkpoints, TypeInv, TypeOK, Statuses
  <2>3. /\ run'.pc = "index" /\ run'.create = run.create /\ run'.update = run.update
        /\ run'.todo = {Item("A", p, p) : p \in Rows(after)}
    BY <1>1, <2>1 DEF Query, Runs
  <2> HIDE DEF after
  <2>4. \A item \in run'.todo : Latest[item.path] # 0
    <3>1. \A p \in Rows(after) : Latest[p] # 0
      BY <2>2, LatestIsText DEF Rows
    <3> QED BY <2>3, <3>1 DEF Item
  <2> QED BY <1>2, <2>3, <2>4, SetupAll DEF RunQuery, Source
<1>3. CASE RunQueryFails
  <2> DEFINE r == [run EXCEPT !.errors = TRUE]
  <2>1. r \in Runs /\ r.target = run.target BY <1>1 DEF Runs
  <2>2. run' = Left(r) BY <1>3 DEF RunQueryFails
  <2> HIDE DEF r
  <2> QED BY <1>3, <2>1, <2>2, LeftEmpties, EndIngest, StutterSteps DEF RunQueryFails
<1>4. CASE FormatRow
  <2>1. PICK item \in run.todo :
          run' = [run EXCEPT !.todo = @ \ {item},
                    !.create = @ \cup (IF Readable(item.path)
                                       THEN {Doc(item.path, Latest[item.path])} ELSE {})]
    BY <1>4 DEF FormatRow
  <2> DEFINE p == item.path
             more == run.create \cup {Doc(p, Latest[p])}
  <2>2. ~Source("git") /\ Source("kusto") /\ At("index")
        /\ UNCHANGED <<world, docs, status>>
    BY <1>4 DEF FormatRow, Source
  <2>3. p \in Paths BY <1>1 DEF Runs, Items
  <2>4. Latest[p] # 0 BY <2>2 DEF IngestInv, ListsHeld, ItemIsSound
  <2>5. run' = [run EXCEPT !.todo = @ \ {item},
                  !.create = IF Readable(p) THEN more ELSE @]
    BY <1>1, <2>1
  <2>6. /\ run'.pc = run.pc /\ run'.from = run.from /\ run'.target = run.target
        /\ run'.todo \subseteq run.todo /\ run'.update = run.update
        /\ \/ run'.create = run.create
           \/ Readable(p) /\ run'.create = more
    <3> HIDE DEF more, p
    <3> QED BY <1>1, <2>5 DEF Runs
  <2> QED BY <2>2, <2>3, <2>4, <2>6, FetchedIngest
<1>5. CASE IndexRows
  <2>1. PICK ok \in BOOLEAN :
          /\ \E applied \in Applied(run.create, ok) : docs' = docs \cup applied
          /\ run' \in {[run EXCEPT !.create = {}], Failed([run EXCEPT !.create = {}])}
    BY <1>5 DEF IndexRows, Outcomes
  <2> QED BY <1>5, <2>1, BatchIngest DEF IndexRows
<1>6. CASE RowsDone
  BY <1>1, <1>6, LeftEmpties, EndIngest, StutterSteps DEF RowsDone
<1> QED BY <1>2, <1>3, <1>4, <1>5, <1>6 DEF KustoNext

-----------------------------------------------------------------------------
(* A step that leaves the lists alone, or drops them, while no run is in   *)
(* its loop.                                                               *)
LEMMA AroundHeld ==
  ASSUME TypeInv, IngestInv, UNCHANGED world, ~At("index"), ~At("index")',
         run'.create \subseteq run.create, run'.update \subseteq run.update
  PROVE  ListsHeld'
<1>1. run.update = {} BY DEF IngestInv, ListsHeld
<1> QED BY <1>1, OutsideHeld DEF IngestInv

(* The next part of a run.                                                 *)
LEMMA OnwardKeeps ==
  ASSUME TypeInv, Updating \/ At("base")
  PROVE  /\ Onward(run).create \subseteq run.create
         /\ Onward(run).update \subseteq run.update
         /\ Onward(run).target \in {0, run.target}
         /\ Onward(run).pc # "index"
         /\ Onward(run).pc \in BeforeReport =>
              At("begin") /\ Onward(run).from = run.from
<1>1. run \in Runs BY DEF TypeInv, TypeOK
<1>2. CASE At("complete") BY <1>2 DEF Onward, At, NoRun, BeforeReport
<1>3. CASE ~At("complete")
  <2>1. /\ After(run.pc) \in {"setup", "report", "flag", "complete"}
        /\ After(run.pc) = "setup" => At("begin")
    BY <1>3 DEF Updating, At, After
  <2>2. Onward(run) = [run EXCEPT !.pc = After(run.pc)] BY <1>3 DEF Onward, At
  <2> QED BY <1>1, <2>1, <2>2 DEF Runs, BeforeReport
<1> QED BY <1>2, <1>3

(* A report takes the checkpoint forward.                                  *)
LEMMA PatchIngest ==
  ASSUME TypeInv, IngestInv, PatchStatus
  PROVE  IngestInv' /\ (Ingest!Advance \/ Stutters)
<1>1. /\ UNCHANGED <<world, docs>> /\ Updating /\ ~At("index")
      /\ run' = Onward(run) /\ status' = Written /\ status \in Statuses
      /\ run.target \in 0..Now /\ status.commit \in 0..Now
      /\ status.stamp \in 0..Now /\ Now \in Nat
  BY DEF PatchStatus, Updating, At, TypeInv, TypeOK, Bounds
<1>2. ListsHeld' BY <1>1, OnwardKeeps, AroundHeld DEF At
<1>3. ASSUME ~At("report")
      PROVE  /\ status'.commit = status.commit
             /\ status'.stamp \in {status.stamp, Time}
             /\ ~At("complete") => status'.stamp = status.stamp
  BY <1>1, <1>3 DEF Written, Updating, At, Statuses
<1>4. ASSUME At("report")
      PROVE  /\ status'.stamp = Time
             /\ status'.commit = IF Source("git") /\ run.target # 0
                                 THEN run.target ELSE status.commit
  BY <1>1, <1>4 DEF Written, Reported, At, Statuses
<1>5. CheckpointBehind'
  <2>1. CASE At("begin")
    <3>1. run'.target \in {0, run.target} /\ run'.from = run.from
      BY <1>1, <2>1, OnwardKeeps DEF Onward, After, At, TypeInv, TypeOK, Runs
    <3>2. status'.commit = status.commit /\ status'.stamp = status.stamp
      BY <1>3, <2>1 DEF At
    <3> QED BY <1>1, <2>1, <3>1, <3>2, BehindStays
            DEF IngestInv, world, At, BeforeReport
  <2>2. CASE ~At("begin")
    <3>1. run'.pc \notin BeforeReport /\ run'.target \in {0, run.target}
      BY <1>1, <2>2, OnwardKeeps
    <3>2. Source("static") => status'.stamp = 0
      BY <1>3, <1>4 DEF Time, Source, IngestInv, CheckpointBehind
    <3>3. \/ status'.commit = status.commit
          \/ Source("git") /\ run.target # 0 /\ status'.commit = run.target
      BY <1>3, <1>4
    <3> QED BY <1>1, <3>1, <3>2, <3>3
            DEF IngestInv, CheckpointBehind, Source, world
  <2> QED BY <2>1, <2>2
<1>6. \/ Checkpoint' = Checkpoint
      \/ Checkpoint < Checkpoint' /\ Checkpoint' <= Now
  <2>1. CASE Source("git")
    <3>1. \/ status'.commit = status.commit
          \/ run.target # 0 /\ status'.commit = run.target
      BY <1>3, <1>4
    <3>2. run.target # 0 => status.commit <= run.target
      BY <2>1 DEF IngestInv, CheckpointBehind
    <3> QED BY <1>1, <2>1, <3>1, <3>2 DEF Checkpoint, Source, world
  <2>2. CASE ~Source("git")
    <3>1. status'.stamp \in {status.stamp, Time} BY <1>3, <1>4
    <3>2. Source("kusto") => Time = Now BY DEF Time
    <3>3. ~Source("kusto") => Time = 0 /\ status.stamp = 0
      BY <2>2 DEF Time, IngestInv, CheckpointBehind, Source,
                  TypeInv, TypeOK, ScenarioType
    <3> QED BY <1>1, <2>2, <3>1, <3>2, <3>3 DEF Checkpoint, Source, world
  <2> QED BY <2>1, <2>2
<1>7. UNCHANGED <<history, Permitted, docs>> BY <1>1, PermittedStays DEF world
<1>8. Now = Ingest!Now BY DEF Now, Ingest!Now
<1>9. Ingest!Advance \/ Stutters BY <1>6, <1>7, <1>8 DEF Ingest!Advance, Stutters
<1> QED BY <1>2, <1>5, <1>9 DEF IngestInv

(* The data source moves on, during a run or between two.                  *)
LEMMA PushIngest ==
  ASSUME TypeInv, IngestInv, Push
  PROVE  IngestInv' /\ Ingest!Grow
<1>1. /\ history \in Seq([Paths -> Nat]) /\ Now \in Nat
      /\ UNCHANGED <<scenario, docs, status, run>>
  BY DEF TypeInv, TypeOK, Bounds, Push
<1>2. PICK tree \in [Paths -> 0..(Now + 1)] : history' = Append(history, tree)
  BY DEF Push
<1>3. tree \in [Paths -> Nat] BY <1>1
<1>4. /\ Len(history') = Now + 1
      /\ \A c \in 1..Now : history'[c] = history[c]
  BY <1>1, <1>2, <1>3 DEF Now
<1>5. Ingest!Grow
  BY <1>1, <1>4, PermittedStays DEF Ingest!Grow, Ingest!Now, Now, Checkpoint, Source
<1>6. ListsHeld'
  <2>1. CASE At("index")
    <3>1. run.update \subseteq [old : Documents, new : Documents]
      BY DEF TypeInv, TypeOK, Runs
    <3> QED BY <1>1, <2>1, <3>1, LoopHeld DEF IngestInv, At
  <2>2. CASE ~At("index")
    BY <1>1, <2>2, OutsideHeld DEF IngestInv, ListsHeld, At
  <2> QED BY <2>1, <2>2
<1>7. CheckpointBehind' BY <1>1, BehindStays DEF IngestInv
<1> QED BY <1>5, <1>6, <1>7 DEF IngestInv

(* Nothing that matters here changes.                                      *)
LEMMA IdleIngest ==
  ASSUME TypeInv, IngestInv, UNCHANGED <<world, docs, run>>,
         status'.commit = status.commit, status'.stamp = status.stamp
  PROVE  IngestInv' /\ Stutters
<1>1. ListsHeld'
  <2>1. CASE At("index")
    <3>1. run.update \subseteq [old : Documents, new : Documents]
      BY DEF TypeInv, TypeOK, Runs
    <3> QED BY <2>1, <3>1, LoopHeld DEF IngestInv, At
  <2>2. CASE ~At("index") BY <2>2, AroundHeld DEF At
  <2> QED BY <2>1, <2>2
<1>2. CheckpointBehind' BY BehindStays DEF IngestInv, world
<1> QED BY <1>1, <1>2, StutterSteps DEF IngestInv

(* Between the runs, in a loop or during a status update: a step of        *)
(* anybody is one of Ingestion, or nothing happens there.                  *)
LEMMA NextIngest ==
  ASSUME TypeInv, IngestInv, [Next]_vars
  PROVE  IngestInv' /\ (Ingest!Next \/ Stutters)
<1>1. CASE Start
  <2>1. /\ run'.pc = "begin" /\ run'.from = status.commit /\ run'.target = 0
        /\ run'.create = {} /\ run'.update = {} /\ ~At("index")
    BY <1>1 DEF Start, NoRun, At
  <2>2. ListsHeld' BY <1>1, <2>1, AroundHeld DEF Start, At
  <2>3. CheckpointBehind' BY <1>1, <2>1, BehindStays DEF Start, IngestInv, world
  <2> QED BY <1>1, <2>2, <2>3, StutterSteps DEF Start, IngestInv
<1>2. CASE GitNext BY <1>2, GitIngest DEF Ingest!Next
<1>3. CASE StaticNext BY <1>3, StaticIngest DEF Ingest!Next
<1>4. CASE KustoNext BY <1>4, KustoIngest DEF Ingest!Next
<1>5. CASE GetStatus BY <1>5, IdleIngest DEF GetStatus
<1>6. CASE PatchStatus BY <1>6, PatchIngest DEF Ingest!Next
<1>7. ASSUME Updating \/ At("base"), UNCHANGED <<world, docs, status>>,
             run'.pc = Onward(run).pc, run'.from = Onward(run).from,
             run'.target = Onward(run).target, run'.create = Onward(run).create,
             run'.update = Onward(run).update
      PROVE  IngestInv' /\ Stutters
  <2>1. ~At("index") /\ ~At("index")' BY <1>7, OnwardKeeps DEF Updating, At
  <2>2. ListsHeld' BY <1>7, <2>1, OnwardKeeps, AroundHeld
  <2>3. CheckpointBehind'
    BY <1>7, OnwardKeeps, BehindStays DEF IngestInv, world, At, BeforeReport
  <2> QED BY <1>7, <2>2, <2>3, StutterSteps DEF IngestInv
<1>8. CASE UpdateLost BY <1>7, <1>8 DEF UpdateLost
<1>9. CASE ReadConditions
  <2>1. Onward(run) \in Runs BY <1>9, OnwardIsRun DEF ReadConditions
  <2> QED BY <1>7, <1>9, <2>1 DEF ReadConditions, Runs
<1>10. CASE ReadConditionsFails
  <2>1. /\ run'.pc = "flag" /\ run'.target = run.target
        /\ run'.create = run.create /\ run'.update = run.update
    BY <1>10 DEF ReadConditionsFails, TypeInv, TypeOK, Runs
  <2>2. ListsHeld' BY <1>10, <2>1, AroundHeld DEF ReadConditionsFails, At
  <2>3. CheckpointBehind'
    BY <1>10, <2>1, BehindStays DEF ReadConditionsFails, IngestInv, world, BeforeReport
  <2> QED BY <1>10, <2>2, <2>3, StutterSteps DEF ReadConditionsFails, IngestInv
<1>11. CASE Push BY <1>11, PushIngest DEF Ingest!Next
<1>12. CASE Killed
  <2>1. /\ run'.pc = "idle" /\ run'.target = 0 /\ run'.create = {} /\ run'.update = {}
    BY <1>12 DEF Killed, NoRun
  <2> QED BY <1>12, <2>1, EndIngest, StutterSteps DEF Killed
<1>13. CASE ControllerWrites
  <2>1. status'.commit = status.commit /\ status'.stamp = status.stamp
    BY <1>13 DEF ControllerWrites, TypeInv, TypeOK, Statuses
  <2> QED BY <1>13, <2>1, IdleIngest DEF ControllerWrites
<1>14. CASE UNCHANGED vars BY <1>14, IdleIngest DEF vars, world
<1> QED
  BY <1>1, <1>2, <1>3, <1>4, <1>5, <1>6, <1>8, <1>9, <1>10, <1>11, <1>12,
     <1>13, <1>14
  DEF Next, RunStep

(* Before the first run.                                                   *)
LEMMA InitIngest == Init => IngestInv /\ Ingest!Init
<1> SUFFICES ASSUME Init PROVE IngestInv /\ Ingest!Init
  OBVIOUS
<1>1. run = NoRun /\ status.commit = 0 /\ status.stamp = 0 /\ docs = Others
  BY DEF Init
<1>2. IngestInv
  BY <1>1 DEF IngestInv, ListsHeld, CheckpointBehind, NoRun, At, BeforeReport
<1>3. \E tree \in [Paths -> 0..1] : history = <<tree>> BY DEF Init
<1>4. Permitted \subseteq Paths BY DEF Permitted
<1>5. Checkpoint = 0 BY <1>1 DEF Checkpoint
<1> QED BY <1>1, <1>2, <1>3, <1>4, <1>5 DEF Ingest!Init

(* Whatever the lists of a run hold may go into the index, and a run works *)
(* from the commit in the status (lastIndexedCommit) and goes for a later  *)
(* one, or the pinned one.                                                 *)
THEOREM IngestInvariant == Spec => []IngestInv
<1>1. TypeInv /\ IngestInv /\ [Next]_vars => IngestInv'
  BY NextIngest
<1> QED BY <1>1, InitIngest, TypeInvariant, PTL DEF Spec

(* Whatever the data source, and whatever fails, is killed or is pushed,   *)
(* the runs, batches and reports of main.py and its handlers amount to     *)
(* Ingestion: only genuine texts go in, only what is out of date goes out, *)
(* and the checkpoint of the status does not go back.                      *)
THEOREM IngestionImplemented == Spec => IndexIsIngested
<1>1. TypeInv /\ IngestInv /\ [Next]_vars => [Ingest!Next]_(Ingest!ingestion)
  BY NextIngest DEF Stutters, Ingest!ingestion
<1> QED
  BY <1>1, InitIngest, TypeInvariant, IngestInvariant, PTL
  DEF Spec, IndexIsIngested, Ingest!Spec
=============================================================================
