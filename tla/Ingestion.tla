------------------------------ MODULE Ingestion ------------------------------
(***************************************************************************)
(* What a Job promises of the index and of the checkpoint it leaves in the *)
(* status, whatever the data source, and whatever fails on the way: only   *)
(* what the data source has held goes in, nothing is taken out whose file  *)
(* is as it was at the checkpoint, and the checkpoint does not go back.    *)
(* A document may go because its file was deleted: a Job that deletes it   *)
(* implements this as well as one that does not.                           *)
(* No runs, batches or reports: IndexerJob implements this.                *)
(***************************************************************************)
EXTENDS Naturals, Sequences

CONSTANTS
  Paths,       \* files, URLs or rows
  Others       \* documents somebody else has put into the index

VARIABLES
  source,      \* the trees of the data source, oldest first
  files,       \* the paths the specification lets through
  docs,        \* the documents of the index
  checkpoint   \* the tree the next run may start from, 0 for none

ingestion == <<source, files, docs, checkpoint>>

Now == Len(source)

(* A document with a text a path has had.                                  *)
Genuine(doc) ==
  /\ doc.owner = "self"
  /\ doc.path \in files
  /\ doc.text # 0
  /\ \E c \in 1..Now : source[c][doc.path] = doc.text

(* Its file has changed between the checkpoint and the tree c.             *)
Outdated(doc, c) ==
  /\ 0 < checkpoint /\ checkpoint < c
  /\ source[c][doc.path] # source[checkpoint][doc.path]

Init ==
  /\ \E tree \in [Paths -> 0..1] : source = <<tree>>
  /\ files \subseteq Paths
  /\ docs = Others
  /\ checkpoint = 0

Grow ==
  /\ Len(source') = Now + 1
  /\ \A c \in 1..Now : source'[c] = source[c]
  /\ UNCHANGED <<files, docs, checkpoint>>

(* What goes in is genuine.  What goes out has lost its file in a tree, or *)
(* makes room for the text some file has in the tree its own changed by.   *)
Index ==
  /\ \A doc \in docs' \ docs : Genuine(doc)
  /\ \A old \in docs \ docs' :
       \E c \in 1..Now :
         /\ Outdated(old, c)
         /\ \/ source[c][old.path] = 0
            \/ \E new \in docs' : Genuine(new) /\ new.text = source[c][new.path]
  /\ UNCHANGED <<source, files, checkpoint>>

Advance ==
  /\ checkpoint < checkpoint' /\ checkpoint' <= Now
  /\ UNCHANGED <<source, files, docs>>

Next == Grow \/ Index \/ Advance

Spec == Init /\ [][Next]_ingestion
=============================================================================
