---------------------------- MODULE DriftDetector ----------------------------
(***************************************************************************)
(* DriftDetectorImpl: a background loop that lists the AutoIndexers from   *)
(* the cache, compares the document count of each with the status, and     *)
(* writes the result as an annotation with an Update of the whole object.  *)
(* Nothing keeps it apart from the reconciler but the resourceVersion.     *)
(***************************************************************************)
EXTENDS AutoIndexerAPI

VARIABLES
  detPc,     \* step of the check of this object in the sweep
  detSnap,   \* the listed object
  detDrift   \* result.DriftDetected

detVars == <<detPc, detSnap, detDrift>>

DetTypeOK ==
  /\ detPc \in {"idle", "check", "write"}
  /\ detSnap \in AutoIndexer
  /\ detDrift \in BOOLEAN

DetInit ==
  /\ detPc = "idle"
  /\ detSnap = NoObject
  /\ detDrift = FALSE

SweepDone ==
  /\ detPc' = "idle"
  /\ detSnap' = NoObject
  /\ detDrift' = FALSE

DetUnchanged == UNCHANGED <<obj, jobs, cron, index, head, sameSecond>>

(* performDriftCheck lists the objects.                                    *)
PerformDriftCheck ==
  /\ detPc = "idle"
  /\ objCache.exists
  /\ detPc' = "check"
  /\ detSnap' = objCache
  /\ UNCHANGED detDrift
  /\ DetUnchanged

IsStable(ai) == ai.phase = "Scheduled"

Skipped(ai) ==
  \/ ai.strategy = "Ignore"
  \/ ~IsStable(ai)
  \/ ai.numDocs = 0
  \/ ai.suspend

Checked(drift) ==
  /\ detPc' = "write"
  /\ detDrift' = drift
  /\ UNCHANGED detSnap
  /\ DetUnchanged

(* Used by no specification: a skipped object is left alone altogether.    *)
SkipWithoutClearing ==
  /\ detPc = "check"
  /\ Skipped(detSnap)
  /\ SweepDone
  /\ DetUnchanged

(* checkAutoIndexerDrift.  An object that is skipped and one whose count   *)
(* cannot be read are both reported as having no drift.  The RAG engine    *)
(* may answer "not found" for an index that is not there.                  *)
SkipDriftCheck ==
  /\ detPc = "check"
  /\ Skipped(detSnap)
  /\ Checked(FALSE)

CompareDocumentCount ==
  /\ detPc = "check"
  /\ ~Skipped(detSnap)
  /\ Checked(detSnap.numDocs # Cardinality(index))

GetDocumentCountFails ==
  /\ detPc = "check"
  /\ ~Skipped(detSnap)
  /\ MayFail("ragclient") \/ index = {}
  /\ Checked(FALSE)

(* Used by no specification: the Update is made without a resourceVersion. *)
SetDriftUnlocked ==
  /\ detPc = "write"
  /\ detDrift
  /\ obj.exists
  /\ obj' = [detSnap EXCEPT !.drift = TRUE, !.remediated = FALSE]
  /\ sameSecond' = TRUE
  /\ SweepDone
  /\ UNCHANGED <<jobs, cron, index, head>>

(* setDriftDetected.                                                       *)
SetDriftDetected ==
  /\ detPc = "write"
  /\ detDrift
  /\ Unmodified(detSnap)
  /\ obj' = [detSnap EXCEPT !.drift = TRUE, !.remediated = FALSE]
  /\ sameSecond' = TRUE
  /\ SweepDone
  /\ UNCHANGED <<jobs, cron, index, head>>

(* setDriftRemediated.                                                     *)
SetDriftRemediated ==
  /\ detPc = "write"
  /\ ~detDrift
  /\ detSnap.drift
  /\ Unmodified(detSnap)
  /\ obj' = [detSnap EXCEPT !.drift = FALSE]
  /\ SweepDone
  /\ UNCHANGED <<jobs, cron, index, head, sameSecond>>

NothingToWrite ==
  /\ detPc = "write"
  /\ ~detDrift
  /\ ~detSnap.drift
  /\ SweepDone
  /\ DetUnchanged

(* A conflict, or the deadline of the sweep: logged, left to the next one. *)
AnnotationUpdateFails ==
  /\ detPc = "write"
  /\ detDrift \/ detSnap.drift
  /\ ~Unmodified(detSnap) \/ MayFail("detector")
  /\ SweepDone
  /\ DetUnchanged

DetectorNext ==
  \/ PerformDriftCheck
  \/ SkipDriftCheck
  \/ CompareDocumentCount
  \/ GetDocumentCountFails
  \/ SetDriftDetected
  \/ SetDriftRemediated
  \/ NothingToWrite
  \/ AnnotationUpdateFails
=============================================================================
