----------------------------- MODULE JobOutcomes -----------------------------
(***************************************************************************)
(* What the reconciler may conclude from the Jobs: getJobStatus for every  *)
(* list of Jobs, in whatever order the cache returns them, by induction    *)
(* over the list; and from it, what the phases Completed and Failed say    *)
(* of the Jobs.                                                            *)
(***************************************************************************)
EXTENDS AutoIndexerSafety, WellFoundedInduction

(* Induction over the naturals up to n, from the well-foundedness of <.    *)
LEMMA LeastElement ==
  ASSUME NEW S, S \subseteq Nat, S # {}
  PROVE  \E n \in S : \A m \in S : n <= m
<1> DEFINE R == {pair \in Nat \X Nat : pair[1] < pair[2]}
<1>1. \A x, y \in Nat : <<y, x>> \in R <=> y < x
  OBVIOUS
<1>2. IsWellFoundedOn(R, Nat)
  BY NatLessThanWellFounded DEF OpToRel
<1> HIDE DEF R
<1>3. PICK n \in S : \A m \in S : ~(<<m, n>> \in R)
  BY <1>2, WFMin
<1>4. ASSUME NEW m \in S
      PROVE  n <= m
  <2>1. m \in Nat /\ n \in Nat /\ ~(m < n)
    BY <1>1, <1>3
  <2> QED
    BY <2>1
<1> QED
  BY <1>4

(* What holds of 0 and of k + 1 with k holds up to n.                      *)
LEMMA Induction ==
  ASSUME NEW n \in Nat, NEW S,
         0 \in S, \A k \in 0..(n - 1) : k \in S => k + 1 \in S
  PROVE  0..n \subseteq S
<1> SUFFICES ASSUME (0..n) \ S # {}
             PROVE  FALSE
  OBVIOUS
<1>1. PICK k \in (0..n) \ S : \A m \in (0..n) \ S : k <= m
  <2>1. (0..n) \ S \subseteq Nat
    OBVIOUS
  <2> QED
    BY <2>1, LeastElement
<1>2. k - 1 \in 0..(n - 1) /\ k - 1 \in 0..n /\ (k - 1) + 1 = k /\ ~(k <= k - 1)
  BY <1>1
<1>3. k - 1 \in S
  BY <1>1, <1>2
<1> QED
  BY <1>1, <1>2, <1>3

(* After k jobs the loop has counted the first k jobs of the list.         *)
LEMMA CountedSteps ==
  ASSUME NEW list, Len(list) \in Nat
  PROVE  /\ Counted(list)[0] = Zero
         /\ \A k \in 1..Len(list) :
              Counted(list)[k] = CountJob(Counted(list)[k - 1], list[k])
<1> DEFINE n == Len(list)
           Counts(c, k) == IF k = 0 THEN Zero ELSE CountJob(c[k - 1], list[k])
           Upto == {m \in 0..n : \E c : c = [k \in 0..m |-> Counts(c, k)]}
<1>1. 0 \in Upto
  <2> DEFINE c == [k \in 0..0 |-> Zero]
  <2>1. c = [k \in 0..0 |-> Counts(c, k)]
    OBVIOUS
  <2>2. 0 \in 0..n
    OBVIOUS
  <2> HIDE DEF c, Counts
  <2> QED
    BY <2>1, <2>2
<1>2. ASSUME NEW m \in 0..(n - 1), m \in Upto
      PROVE  m + 1 \in Upto
  <2>1. PICK c : c = [k \in 0..m |-> Counts(c, k)]
    BY <1>2
  <2> DEFINE d == [k \in 0..(m + 1) |->
                     IF k <= m THEN c[k] ELSE CountJob(c[m], list[m + 1])]
  <2>2. \A k \in 0..(m + 1) : Counts(d, k) = d[k]
    <3>1. ASSUME NEW k \in 0..(m + 1), k <= m, k # 0
          PROVE  Counts(d, k) = d[k]
      <4>1. k \in 0..m /\ k - 1 \in 0..(m + 1) /\ k - 1 <= m
        BY <3>1
      <4>2. d[k] = c[k] /\ d[k - 1] = c[k - 1] /\ c[k] = Counts(c, k)
        BY <2>1, <3>1, <4>1
      <4> HIDE DEF d
      <4> QED
        BY <3>1, <4>2
    <3>2. ASSUME NEW k \in 0..(m + 1), k = 0
          PROVE  Counts(d, k) = d[k]
      <4>1. 0 \in 0..m /\ 0 \in 0..(m + 1) /\ 0 <= m
        OBVIOUS
      <4>2. d[0] = c[0] /\ c[0] = Counts(c, 0)
        BY <2>1, <4>1
      <4> HIDE DEF d
      <4> QED
        BY <3>2, <4>2
    <3>3. ASSUME NEW k \in 0..(m + 1), ~(k <= m)
          PROVE  Counts(d, k) = d[k]
      <4>1. k = m + 1 /\ k - 1 = m /\ m \in 0..(m + 1) /\ m <= m /\ k # 0
        BY <3>3
      <4>2. d[k] = CountJob(c[m], list[k]) /\ d[m] = c[m]
        BY <3>3, <4>1
      <4> HIDE DEF d
      <4> QED
        BY <4>1, <4>2
    <3> QED
      BY <3>1, <3>2, <3>3
  <2>3. d = [k \in 0..(m + 1) |-> Counts(d, k)]
    <3>1. d = [k \in 0..(m + 1) |-> d[k]]
      OBVIOUS
    <3> HIDE DEF d, Counts
    <3> QED
      BY <2>2, <3>1
  <2>4. m + 1 \in 0..n
    OBVIOUS
  <2> HIDE DEF d, Counts
  <2> QED
    BY <2>3, <2>4
<1>3. n \in Upto
  <2>1. \A m \in 0..(n - 1) : m \in Upto => m + 1 \in Upto
    BY <1>2
  <2>2. n \in 0..n
    OBVIOUS
  <2> HIDE DEF Upto
  <2>3. 0..n \subseteq Upto
    BY <1>1, <2>1, Induction
  <2> QED
    BY <2>2, <2>3
<1>4. \E c : c = [k \in 0..n |-> Counts(c, k)]
  BY <1>3
<1>5. Counted(list) = CHOOSE c : c = [k \in 0..n |-> Counts(c, k)]
  BY DEF Counted
<1>6. Counted(list) = [k \in 0..n |-> Counts(Counted(list), k)]
  BY <1>4, <1>5
<1> QED
  BY <1>6

(* What one iteration does, field by field; Seed is lastJobTimestamp once  *)
(* the first started job has seeded it.                                    *)
Counters == [active : Nat, failed : Nat, succeeded : Nat, start : Nat]

JobCounts ==
  [running : Nat, failed : Nat, completed : Nat,
   latestJobFailed : BOOLEAN, lastJobTimestamp : Nat]

Seed(acc, job) == IF acc.lastJobTimestamp = 0 THEN job.start ELSE acc.lastJobTimestamp

(* One job counted, field by field.                                        *)
LEMMA CountJobForm ==
  ASSUME NEW acc \in JobCounts, NEW job \in Counters
  PROVE  LET next == CountJob(acc, job)
             after == Verdict(job) # "none" /\ job.start > Seed(acc, job)
         IN  /\ next \in JobCounts
             /\ next.running = acc.running + One(job, "running")
             /\ next.failed = acc.failed + One(job, "failed")
             /\ next.completed = acc.completed + One(job, "completed")
             /\ next.lastJobTimestamp =
                  IF after THEN job.start ELSE Seed(acc, job)
             /\ next.latestJobFailed =
                  IF after THEN Verdict(job) = "failed" ELSE acc.latestJobFailed
<1>1. job.start \in Nat
  BY DEF Counters
<1>2. Seed(acc, job) \in Nat /\ \A verdict : One(job, verdict) \in Nat
  BY <1>1 DEF Seed, JobCounts, One
<1> DEFINE after == Verdict(job) # "none" /\ job.start > Seed(acc, job)
           failed == IF after THEN Verdict(job) = "failed" ELSE acc.latestJobFailed
           last == IF after THEN job.start ELSE Seed(acc, job)
<1>3. CountJob(acc, job) =
        [running   |-> acc.running + One(job, "running"),
         failed    |-> acc.failed + One(job, "failed"),
         completed |-> acc.completed + One(job, "completed"),
         latestJobFailed |-> failed, lastJobTimestamp |-> last]
  BY Zenon DEF CountJob, Seed
<1>4. failed \in BOOLEAN /\ last \in Nat
  BY <1>1, <1>2 DEF JobCounts
<1>5. /\ acc.running + One(job, "running") \in Nat
      /\ acc.failed + One(job, "failed") \in Nat
      /\ acc.completed + One(job, "completed") \in Nat
  BY <1>2 DEF JobCounts
<1> HIDE DEF failed, last
<1>6. /\ CountJob(acc, job) \in JobCounts
      /\ CountJob(acc, job).running = acc.running + One(job, "running")
      /\ CountJob(acc, job).failed = acc.failed + One(job, "failed")
      /\ CountJob(acc, job).completed = acc.completed + One(job, "completed")
      /\ CountJob(acc, job).latestJobFailed = failed
      /\ CountJob(acc, job).lastJobTimestamp = last
  BY <1>3, <1>4, <1>5 DEF JobCounts
<1> QED
  BY <1>6 DEF failed, last

(* The counts stay within the list.                                        *)
LEMMA CountedType ==
  ASSUME NEW list, Len(list) \in Nat, \A k \in 1..Len(list) : list[k] \in Counters
  PROVE  \A k \in 0..Len(list) : Counted(list)[k] \in JobCounts
<1> DEFINE S == {k \in 0..Len(list) : Counted(list)[k] \in JobCounts}
<1>1. 0 \in S
  <2>1. Zero \in JobCounts
    BY DEF Zero, JobCounts
  <2>2. 0 \in 0..Len(list) /\ Counted(list)[0] = Zero
    BY CountedSteps
  <2> QED
    BY <2>1, <2>2
<1>2. ASSUME NEW k \in 0..(Len(list) - 1), k \in S
      PROVE  k + 1 \in S
  <2>1. k + 1 \in 1..Len(list) /\ (k + 1) - 1 = k
    OBVIOUS
  <2>2. Counted(list)[k + 1] = CountJob(Counted(list)[k], list[k + 1])
    BY <2>1, CountedSteps
  <2> QED
    BY <1>2, <2>1, <2>2, CountJobForm
<1>3. 0..Len(list) \subseteq S
  <2>1. \A k \in 0..(Len(list) - 1) : k \in S => k + 1 \in S
    BY <1>2
  <2> HIDE DEF S
  <2> QED
    BY <1>1, <2>1, Induction
<1> QED
  BY <1>3

(* The jobs up to the k-th with a verdict.                                 *)
Judged(list, k, verdict) == {i \in 1..k : Verdict(list[i]) = verdict}

(* Each counter is the number of jobs with its verdict.                    *)
LEMMA CountedJobs ==
  ASSUME NEW list, Len(list) \in Nat, \A k \in 1..Len(list) : list[k] \in Counters
  PROVE  \A k \in 0..Len(list) :
           /\ Counted(list)[k].running = Cardinality(Judged(list, k, "running"))
           /\ Counted(list)[k].failed = Cardinality(Judged(list, k, "failed"))
           /\ Counted(list)[k].completed = Cardinality(Judged(list, k, "completed"))
<1> DEFINE Right(k) ==
             /\ Counted(list)[k].running = Cardinality(Judged(list, k, "running"))
             /\ Counted(list)[k].failed = Cardinality(Judged(list, k, "failed"))
             /\ Counted(list)[k].completed = Cardinality(Judged(list, k, "completed"))
           S == {k \in 0..Len(list) : Right(k)}
<1>1. 0 \in S
  <2>1. \A verdict : Judged(list, 0, verdict) = {}
    BY DEF Judged
  <2>2. 0 \in 0..Len(list) /\ Counted(list)[0] = Zero
    BY CountedSteps
  <2>3. /\ Zero.running = 0 /\ Zero.failed = 0 /\ Zero.completed = 0
        /\ Cardinality({}) = 0
    BY FS_EmptySet DEF Zero
  <2>4. Right(0)
    BY <2>1, <2>2, <2>3
  <2> QED
    BY <2>2, <2>4
<1>2. ASSUME NEW k \in 0..(Len(list) - 1), k \in S
      PROVE  k + 1 \in S
  <2>1. k + 1 \in 1..Len(list) /\ k + 1 \in 0..Len(list) /\ (k + 1) - 1 = k
        /\ k \in 0..Len(list)
    OBVIOUS
  <2> DEFINE job == list[k + 1]
  <2>2. \A verdict : Cardinality(Judged(list, k + 1, verdict))
                     = Cardinality(Judged(list, k, verdict)) + One(job, verdict)
    <3> TAKE verdict
    <3>1. IsFiniteSet(Judged(list, k, verdict))
      <4>1. IsFiniteSet(1..k)
        BY FS_Interval
      <4> QED
        BY <4>1, FS_Subset DEF Judged
    <3>2. k + 1 \notin Judged(list, k, verdict)
      BY DEF Judged
    <3>3. CASE Verdict(job) = verdict
      <4>1. Judged(list, k + 1, verdict) = Judged(list, k, verdict) \cup {k + 1}
        BY <3>3 DEF Judged
      <4> QED
        BY <3>1, <3>2, <3>3, <4>1, FS_AddElement DEF One
    <3>4. CASE Verdict(job) # verdict
      <4>1. Judged(list, k + 1, verdict) = Judged(list, k, verdict)
        BY <3>4 DEF Judged
      <4>2. Cardinality(Judged(list, k, verdict)) \in Nat
        BY <3>1, FS_CardinalityType
      <4> QED
        BY <3>4, <4>1, <4>2 DEF One
    <3> QED
      BY <3>3, <3>4
  <2>3. /\ job \in Counters /\ Counted(list)[k] \in JobCounts
        /\ Counted(list)[k + 1] = CountJob(Counted(list)[k], job)
    BY <2>1, CountedSteps, CountedType
  <2>4. /\ Counted(list)[k + 1].running = Counted(list)[k].running + One(job, "running")
        /\ Counted(list)[k + 1].failed = Counted(list)[k].failed + One(job, "failed")
        /\ Counted(list)[k + 1].completed
             = Counted(list)[k].completed + One(job, "completed")
    BY <2>3, CountJobForm
  <2> QED
    BY <1>2, <2>1, <2>2, <2>4
<1>3. 0..Len(list) \subseteq S
  <2>1. \A k \in 0..(Len(list) - 1) : k \in S => k + 1 \in S
    BY <1>2
  <2> HIDE DEF S
  <2> QED
    BY <1>1, <2>1, Induction
<1> QED
  BY <1>3

(* latestJobFailed: the latest job of all failed, and it is not the one    *)
(* that seeded lastJobTimestamp.                                           *)
Before(list, i) == \E j \in 1..(i - 1) : list[j].start # 0

IsLatest(list, i) == \A j \in 1..Len(list) \ {i} : list[j].start < list[i].start

LatestSoFar(list, k, acc) ==
  /\ \A j \in 1..k : Verdict(list[j]) # "none" => list[j].start <= acc.lastJobTimestamp
  /\ (\E j \in 1..k : list[j].start # 0) => acc.lastJobTimestamp # 0
  /\ acc.lastJobTimestamp # 0 =>
       \E j \in 1..k : list[j].start = acc.lastJobTimestamp
  /\ acc.latestJobFailed =>
       /\ acc.lastJobTimestamp # 0
       /\ \E i \in 1..k : /\ Verdict(list[i]) = "failed" /\ Before(list, i)
                          /\ list[i].start = acc.lastJobTimestamp
  /\ \A i \in 1..k :
       (Verdict(list[i]) = "failed" /\ Before(list, i) /\ IsLatest(list, i))
         => acc.latestJobFailed /\ acc.lastJobTimestamp = list[i].start

(* The latest Job seen so far, and whether it is known to have failed.     *)
LEMMA LatestCounted ==
  ASSUME NEW list, Len(list) \in Nat, \A k \in 1..Len(list) : list[k] \in Counters
  PROVE  \A k \in 0..Len(list) : LatestSoFar(list, k, Counted(list)[k])
<1> DEFINE S == {k \in 0..Len(list) : LatestSoFar(list, k, Counted(list)[k])}
<1>1. 0 \in S
  <2>1. 0 \in 0..Len(list) /\ Counted(list)[0] = Zero /\ 1..0 = {}
    BY CountedSteps
  <2> QED
    BY <2>1 DEF Zero, LatestSoFar
<1>2. ASSUME NEW k \in 0..(Len(list) - 1), k \in S
      PROVE  k + 1 \in S
  <2> DEFINE job == list[k + 1]
             acc == Counted(list)[k]
             next == Counted(list)[k + 1]
             after == Verdict(job) # "none" /\ job.start > Seed(acc, job)
  <2>1. k + 1 \in 1..Len(list) /\ k + 1 \in 0..Len(list) /\ (k + 1) - 1 = k
        /\ k \in 0..Len(list)
    OBVIOUS
  <2>2. job \in Counters /\ acc \in JobCounts /\ next = CountJob(acc, job)
    BY <2>1, CountedSteps, CountedType
  <2>3. /\ next.lastJobTimestamp = IF after THEN job.start ELSE Seed(acc, job)
        /\ next.latestJobFailed =
             IF after THEN Verdict(job) = "failed" ELSE acc.latestJobFailed
    BY <2>2, CountJobForm
  <2>4. LatestSoFar(list, k, acc)
    BY <1>2
  <2>5. /\ acc.lastJobTimestamp \in Nat /\ job.start \in Nat /\ Seed(acc, job) \in Nat
        /\ acc.latestJobFailed \in BOOLEAN
        /\ \A j \in 1..Len(list) : list[j].start \in Nat
    BY <2>2 DEF JobCounts, Counters, Seed
  <2>6. \A j \in 1..(k + 1) : j = k + 1 \/ j \in 1..k
    OBVIOUS
  <2>7. 1..k \subseteq 1..(k + 1) /\ k + 1 \in 1..(k + 1) /\ k \in Nat
        /\ 1..(k + 1) \subseteq 1..Len(list)
    OBVIOUS
  <2> HIDE DEF acc, next
  <2>8. LatestSoFar(list, k + 1, next)
    <3>1. \A j \in 1..(k + 1) :
            Verdict(list[j]) # "none" => list[j].start <= next.lastJobTimestamp
      BY <2>3, <2>4, <2>5, <2>6, <2>7 DEF LatestSoFar, Seed
    <3>2. (\E j \in 1..(k + 1) : list[j].start # 0) => next.lastJobTimestamp # 0
      BY <2>3, <2>4, <2>5, <2>6, <2>7 DEF LatestSoFar, Seed
    <3>3. next.lastJobTimestamp # 0 =>
            \E j \in 1..(k + 1) : list[j].start = next.lastJobTimestamp
      BY <2>3, <2>4, <2>5, <2>6, <2>7 DEF LatestSoFar, Seed
    <3>4. ASSUME after
          PROVE  Before(list, k + 1)
      <4>1. acc.lastJobTimestamp # 0
        BY <2>5, <3>4 DEF Seed
      <4> QED
        BY <2>1, <2>4, <4>1 DEF LatestSoFar, Before
    <3>5. ASSUME next.latestJobFailed
          PROVE  /\ next.lastJobTimestamp # 0
                 /\ \E i \in 1..(k + 1) :
                      /\ Verdict(list[i]) = "failed" /\ Before(list, i)
                      /\ list[i].start = next.lastJobTimestamp
      <4>1. CASE after
        <5>1. Verdict(job) = "failed" /\ next.lastJobTimestamp = job.start
          BY <2>3, <3>5, <4>1
        <5>2. job.start # 0
          BY <2>5, <4>1
        <5>3. Before(list, k + 1)
          BY <3>4, <4>1
        <5> QED
          BY <2>7, <5>1, <5>2, <5>3
      <4>2. CASE ~after
        BY <2>3, <2>4, <2>5, <2>7, <3>5, <4>2 DEF LatestSoFar, Seed
      <4> QED
        BY <4>1, <4>2
    <3>6. ASSUME NEW i \in 1..(k + 1), Verdict(list[i]) = "failed",
                 Before(list, i), IsLatest(list, i)
          PROVE  next.latestJobFailed /\ next.lastJobTimestamp = list[i].start
      <4>1. CASE i = k + 1
        <5>1. PICK j \in 1..k : list[j].start # 0
          BY <2>1, <3>6, <4>1 DEF Before
        <5>2. acc.lastJobTimestamp # 0
          BY <2>4, <5>1 DEF LatestSoFar
        <5>3. PICK l \in 1..k : list[l].start = acc.lastJobTimestamp
          BY <2>4, <5>2 DEF LatestSoFar
        <5>4. l # k + 1 /\ l \in 1..Len(list)
          BY <2>7
        <5>5. acc.lastJobTimestamp < job.start
          BY <3>6, <4>1, <5>3, <5>4 DEF IsLatest
        <5>6. after
          BY <2>5, <3>6, <4>1, <5>2, <5>5 DEF Seed
        <5> QED
          BY <2>3, <3>6, <4>1, <5>6
      <4>2. CASE i \in 1..k
        <5>1. acc.latestJobFailed /\ acc.lastJobTimestamp = list[i].start
          BY <2>4, <3>6, <4>2 DEF LatestSoFar
        <5>2. acc.lastJobTimestamp # 0
          BY <2>4, <5>1 DEF LatestSoFar
        <5>3. job.start < list[i].start
          BY <2>1, <2>7, <3>6, <4>2 DEF IsLatest
        <5>4. ~after
          BY <2>5, <5>1, <5>2, <5>3 DEF Seed
        <5> QED
          BY <2>3, <5>1, <5>2, <5>4 DEF Seed
      <4> QED
        BY <2>6, <4>1, <4>2
    <3> QED
      BY <3>1, <3>2, <3>3, <3>5, <3>6 DEF LatestSoFar
  <2> QED
    BY <2>1, <2>8 DEF next
<1>3. 0..Len(list) \subseteq S
  <2>1. \A k \in 0..(Len(list) - 1) : k \in S => k + 1 \in S
    BY <1>2
  <2> HIDE DEF S
  <2> QED
    BY <1>1, <2>1, Induction
<1> QED
  BY <1>3

-----------------------------------------------------------------------------
(* What a Job of the model counts as.  A Job that lost a pod has a failed  *)
(* counter above 0 from then on, which is tested before the one of         *)
(* successes and after the one of active pods.                             *)
FailureCounts(job) == job.state # "active" /\ (job.state = "failed" \/ job.lost)
SuccessCounts(job) == job.state = "succeeded" /\ ~job.lost

LEMMA VerdictOf ==
  ASSUME NEW job \in Job, NEW start \in Nat
  PROVE  /\ ListedJob(job, start) \in Counters
         /\ ListedJob(job, start).start = IF HasStarted(job) THEN start ELSE 0
         /\ Verdict(ListedJob(job, start)) = "running" <=> job.state = "active"
         /\ Verdict(ListedJob(job, start)) = "failed" <=> FailureCounts(job)
         /\ Verdict(ListedJob(job, start)) = "completed" <=> SuccessCounts(job)
         /\ Verdict(ListedJob(job, start)) = "none" <=> ~HasStarted(job)
<1>1. job.state \in {"pending", "active", "failed", "succeeded"}
  BY DEF Job, JobState
<1> DEFINE active == OneIf(job.state = "active")
           failed == OneIf(job.state = "failed" \/ job.lost)
           succeeded == OneIf(job.state = "succeeded")
           first == IF HasStarted(job) THEN start ELSE 0
           listed == ListedJob(job, start)
<1>2. /\ active \in Nat /\ failed \in Nat /\ succeeded \in Nat
      /\ active > 0 <=> job.state = "active"
      /\ failed > 0 <=> (job.state = "failed" \/ job.lost)
      /\ succeeded > 0 <=> job.state = "succeeded"
  BY DEF OneIf
<1>3. first \in Nat
  OBVIOUS
<1>4. listed = [active |-> active, failed |-> failed, succeeded |-> succeeded,
                start |-> first]
  BY DEF ListedJob
<1> HIDE DEF active, failed, succeeded, first, listed
<1>5. /\ listed.active = active /\ listed.failed = failed
      /\ listed.succeeded = succeeded /\ listed.start = first
      /\ listed \in Counters
  BY <1>2, <1>3, <1>4 DEF Counters
<1>6. /\ Verdict(listed) = "running" <=> job.state = "active"
      /\ Verdict(listed) = "failed" <=> FailureCounts(job)
      /\ Verdict(listed) = "completed" <=> SuccessCounts(job)
      /\ Verdict(listed) = "none" <=> ~HasStarted(job)
  <2>1. Verdict(listed) =
          IF active > 0 THEN "running" ELSE IF failed > 0 THEN "failed"
          ELSE IF succeeded > 0 THEN "completed" ELSE "none"
    BY <1>5 DEF Verdict
  <2> QED
    BY <1>1, <1>2, <2>1 DEF FailureCounts, SuccessCounts, HasStarted
<1> QED
  BY <1>5, <1>6 DEF listed, first

(* The cache lists the Jobs in some order; the start of a listed job is    *)
(* its place among the Jobs, 0 while it has not started.                   *)
LEMMA Listed ==
  ASSUME NEW list \in Seq(Job), NEW order \in Orders(Len(list))
  PROVE  LET listed == ListedAs(list, order)
         IN  /\ Len(listed) = Len(list) /\ Len(list) \in Nat
             /\ \A k \in 1..Len(list) :
                  /\ order[k] \in 1..Len(list) /\ list[order[k]] \in Job
                  /\ listed[k] = ListedJob(list[order[k]], order[k])
                  /\ listed[k] \in Counters
             /\ order \in Bijection(1..Len(list), 1..Len(list))
             /\ \A i \in 1..Len(list) : \E k \in 1..Len(list) : order[k] = i
<1>1. Len(list) \in Nat /\ order \in [1..Len(list) -> 1..Len(list)]
  BY DEF Orders
<1>2. \A k \in 1..Len(list) :
        order[k] \in 1..Len(list) /\ order[k] \in Nat /\ list[order[k]] \in Job
  BY <1>1
<1>3. Len(ListedAs(list, order)) = Len(list)
  BY <1>1 DEF ListedAs
<1>4. \A k \in 1..Len(list) :
        ListedAs(list, order)[k] = ListedJob(list[order[k]], order[k])
  BY <1>1 DEF ListedAs
<1>5. \A k \in 1..Len(list) : ListedAs(list, order)[k] \in Counters
  BY <1>2, <1>4, VerdictOf
<1>6. order \in Bijection(1..Len(list), 1..Len(list))
  <2>1. order \in Injection(1..Len(list), 1..Len(list))
    BY <1>1 DEF Orders, Injection, IsInjective
  <2>2. IsFiniteSet(1..Len(list))
    BY <1>1, FS_Interval
  <2>3. order \in Surjection(1..Len(list), 1..Len(list))
    BY <2>1, <2>2, FS_Injection
  <2> QED
    BY <2>1, <2>3 DEF Bijection
<1>7. \A i \in 1..Len(list) : \E k \in 1..Len(list) : order[k] = i
  BY <1>6 DEF Bijection, Surjection
<1> QED
  BY <1>1, <1>2, <1>3, <1>4, <1>5, <1>6, <1>7

(* The record getJobStatus returns.                                        *)
LEMMA StatusType ==
  ASSUME NEW list \in Seq(Job), NEW status \in JobStatuses(list)
  PROVE  status \in JobCounts
<1>1. PICK order \in Orders(Len(list)) : status = GetJobStatus(ListedAs(list, order))
  BY DEF JobStatuses
<1> DEFINE listed == ListedAs(list, order)
<1>2. Len(listed) \in Nat /\ \A k \in 1..Len(listed) : listed[k] \in Counters
  <2>1. /\ Len(listed) = Len(list) /\ Len(list) \in Nat
        /\ \A k \in 1..Len(list) : listed[k] \in Counters
    BY Listed
  <2> QED
    BY <2>1
<1> HIDE DEF listed
<1>3. \A k \in 0..Len(listed) : Counted(listed)[k] \in JobCounts
  BY <1>2, CountedType
<1>4. Len(listed) \in 0..Len(listed)
  BY <1>2
<1> QED
  BY <1>1, <1>3, <1>4 DEF GetJobStatus, listed

(* A set of places has as many elements in one order as in another.        *)
LEMMA SameNumber ==
  ASSUME NEW n \in Nat, NEW order \in Bijection(1..n, 1..n),
         NEW S \in SUBSET (1..n)
  PROVE  Cardinality({k \in 1..n : order[k] \in S}) = Cardinality(S)
<1> DEFINE P == {k \in 1..n : order[k] \in S}
           restricted == [k \in P |-> order[k]]
<1>1. /\ order \in [1..n -> 1..n]
      /\ \A j, k \in 1..n : order[j] = order[k] => j = k
      /\ \A i \in 1..n : \E k \in 1..n : order[k] = i
  BY DEF Bijection, Injection, IsInjective, Surjection
<1>2. restricted \in Bijection(P, S)
  BY <1>1 DEF Bijection, Injection, IsInjective, Surjection
<1>3. IsFiniteSet(S) /\ IsFiniteSet(P)
  <2>1. IsFiniteSet(1..n)
    BY FS_Interval
  <2> QED
    BY <2>1, FS_Subset
<1>4. ExistsBijection(P, S)
  BY <1>2 DEF ExistsBijection
<1> QED
  BY <1>3, <1>4, FS_Bijection

(* The counters of getJobStatus, in whatever order the informer cache      *)
(* lists the Jobs: no Job is missed, none is counted twice or under two    *)
(* counters.  An active Job is running whatever has failed before, and a   *)
(* Job that lost a pod is failed although it may have succeeded, for the   *)
(* code tests Active, Failed and Succeeded in this order.                  *)
THEOREM CountersAreRight ==
  ASSUME NEW list \in Seq(Job), NEW status \in JobStatuses(list)
  PROVE  /\ status.running = Cardinality({i \in 1..Len(list) : list[i].state = "active"})
         /\ status.failed = Cardinality({i \in 1..Len(list) : FailureCounts(list[i])})
         /\ status.completed = Cardinality({i \in 1..Len(list) : SuccessCounts(list[i])})
<1>1. PICK order \in Orders(Len(list)) :
             status = GetJobStatus(ListedAs(list, order))
  BY DEF JobStatuses
<1> DEFINE listed == ListedAs(list, order)
           n == Len(list)
<1>2. /\ Len(listed) = n /\ n \in Nat
      /\ \A k \in 1..n : /\ listed[k] \in Counters
                         /\ order[k] \in 1..n /\ list[order[k]] \in Job
                         /\ listed[k] = ListedJob(list[order[k]], order[k])
      /\ order \in Bijection(1..n, 1..n)
  BY Listed
<1> HIDE DEF listed
<1>3. /\ status.running = Cardinality(Judged(listed, n, "running"))
      /\ status.failed = Cardinality(Judged(listed, n, "failed"))
      /\ status.completed = Cardinality(Judged(listed, n, "completed"))
  <2>1. status = Counted(listed)[n]
    BY <1>1, <1>2 DEF GetJobStatus, listed
  <2>2. /\ Len(listed) \in Nat /\ n \in 0..Len(listed)
        /\ \A k \in 1..Len(listed) : listed[k] \in Counters
    BY <1>2
  <2> HIDE DEF n
  <2> QED
    BY <2>1, <2>2, CountedJobs
<1>4. \A k \in 1..n :
        /\ Verdict(listed[k]) = "running" <=> list[order[k]].state = "active"
        /\ Verdict(listed[k]) = "failed" <=> FailureCounts(list[order[k]])
        /\ Verdict(listed[k]) = "completed" <=> SuccessCounts(list[order[k]])
  <2> TAKE k \in 1..n
  <2>1. order[k] \in Nat
    BY <1>2
  <2> QED
    BY <1>2, <2>1, VerdictOf
<1>5. ASSUME NEW verdict, NEW S \in SUBSET (1..n),
             \A k \in 1..n : Verdict(listed[k]) = verdict <=> order[k] \in S
      PROVE  Cardinality(Judged(listed, n, verdict)) = Cardinality(S)
  <2>1. Judged(listed, n, verdict) = {k \in 1..n : order[k] \in S}
    BY <1>5 DEF Judged
  <2> HIDE DEF n
  <2> QED
    BY <1>2, <2>1, SameNumber
<1>6. status.running = Cardinality({i \in 1..n : list[i].state = "active"})
  <2> DEFINE S == {i \in 1..n : list[i].state = "active"}
  <2>1. \A k \in 1..n : Verdict(listed[k]) = "running" <=> order[k] \in S
    BY <1>2, <1>4
  <2>2. S \in SUBSET (1..n)
    OBVIOUS
  <2> HIDE DEF S, n
  <2>3. Cardinality(Judged(listed, n, "running")) = Cardinality(S)
    BY <1>5, <2>1, <2>2
  <2> QED
    BY <1>3, <2>3 DEF S
<1>7. status.failed = Cardinality({i \in 1..n : FailureCounts(list[i])})
  <2> DEFINE S == {i \in 1..n : FailureCounts(list[i])}
  <2>1. \A k \in 1..n : Verdict(listed[k]) = "failed" <=> order[k] \in S
    BY <1>2, <1>4
  <2>2. S \in SUBSET (1..n)
    OBVIOUS
  <2> HIDE DEF S, n
  <2>3. Cardinality(Judged(listed, n, "failed")) = Cardinality(S)
    BY <1>5, <2>1, <2>2
  <2> QED
    BY <1>3, <2>3 DEF S
<1>8. status.completed = Cardinality({i \in 1..n : SuccessCounts(list[i])})
  <2> DEFINE S == {i \in 1..n : SuccessCounts(list[i])}
  <2>1. \A k \in 1..n : Verdict(listed[k]) = "completed" <=> order[k] \in S
    BY <1>2, <1>4
  <2>2. S \in SUBSET (1..n)
    OBVIOUS
  <2> HIDE DEF S, n
  <2>3. Cardinality(Judged(listed, n, "completed")) = Cardinality(S)
    BY <1>5, <2>1, <2>2
  <2> QED
    BY <1>3, <2>3 DEF S
<1> QED
  BY <1>6, <1>7, <1>8

(* latestJobFailed is set exactly when the Job that started last counts as *)
(* failed AND some other started Job is listed before it: the first        *)
(* started Job of the list seeds lastJobTimestamp and is then not "after"  *)
(* it, so the failure of the only Job, or of one listed first, is missed.  *)
THEOREM LatestFailureNeedsAnEarlierJob ==
  ASSUME NEW list \in Seq(Job), NEW order \in Orders(Len(list))
  PROVE  GetJobStatus(ListedAs(list, order)).latestJobFailed <=>
           \E k \in 1..Len(list) :
             /\ FailureCounts(list[order[k]])
             /\ \A i \in 1..Len(list) : HasStarted(list[i]) => i <= order[k]
             /\ \E j \in 1..(k - 1) : HasStarted(list[order[j]])
<1> DEFINE listed == ListedAs(list, order)
           n == Len(list)
           status == Counted(listed)[n]
<1>1. /\ Len(listed) = n /\ n \in Nat
      /\ \A k \in 1..n : /\ listed[k] \in Counters
                         /\ order[k] \in 1..n /\ list[order[k]] \in Job
                         /\ listed[k] = ListedJob(list[order[k]], order[k])
      /\ \A i \in 1..n : \E k \in 1..n : order[k] = i
  BY Listed
<1>2. \A j, k \in 1..n : order[j] = order[k] => j = k
  BY DEF Orders
<1> HIDE DEF listed
<1>3. LatestSoFar(listed, n, status) /\ status \in JobCounts
  <2>1. /\ Len(listed) \in Nat /\ n \in 0..Len(listed)
        /\ \A k \in 1..Len(listed) : listed[k] \in Counters
    BY <1>1
  <2> HIDE DEF n
  <2> QED
    BY <2>1, LatestCounted, CountedType
<1>4. GetJobStatus(listed) = status
  BY <1>1 DEF GetJobStatus
<1> HIDE DEF status
<1>5. \A k \in 1..n :
        /\ Verdict(listed[k]) = "failed" <=> FailureCounts(list[order[k]])
        /\ Verdict(listed[k]) = "none" <=> ~HasStarted(list[order[k]])
        /\ listed[k].start = IF HasStarted(list[order[k]]) THEN order[k] ELSE 0
        /\ listed[k].start # 0 <=> HasStarted(list[order[k]])
        /\ FailureCounts(list[order[k]]) => HasStarted(list[order[k]])
  <2> TAKE k \in 1..n
  <2>1. order[k] \in Nat /\ order[k] # 0
    <3>1. n \in Nat /\ order[k] \in 1..n
      BY <1>1
    <3> HIDE DEF n
    <3> QED
      BY <3>1
  <2> DEFINE job == list[order[k]]
  <2>2. job \in Job /\ listed[k] = ListedJob(job, order[k])
    BY <1>1
  <2>3. FailureCounts(job) => HasStarted(job)
    BY DEF FailureCounts, HasStarted
  <2> HIDE DEF job
  <2>4. /\ Verdict(listed[k]) = "failed" <=> FailureCounts(job)
        /\ Verdict(listed[k]) = "none" <=> ~HasStarted(job)
        /\ listed[k].start = IF HasStarted(job) THEN order[k] ELSE 0
    BY <2>1, <2>2, VerdictOf
  <2> QED
    BY <2>1, <2>3, <2>4 DEF job
<1>6. \A k \in 1..n : Before(listed, k) <=>
        \E j \in 1..(k - 1) : HasStarted(list[order[j]])
  <2>1. \A k \in 1..n : \A j \in 1..(k - 1) : j \in 1..n
    BY <1>1
  <2> HIDE DEF n
  <2> QED
    BY <1>5, <2>1 DEF Before
<1>7. ASSUME status.latestJobFailed
      PROVE  \E k \in 1..n :
               /\ FailureCounts(list[order[k]])
               /\ \A i \in 1..n : HasStarted(list[i]) => i <= order[k]
               /\ \E j \in 1..(k - 1) : HasStarted(list[order[j]])
  <2>1. PICK k \in 1..n : /\ Verdict(listed[k]) = "failed" /\ Before(listed, k)
                          /\ listed[k].start = status.lastJobTimestamp
    BY <1>3, <1>7 DEF LatestSoFar
  <2>2. listed[k].start = order[k]
    BY <1>5, <2>1
  <2>3. ASSUME NEW i \in 1..n, HasStarted(list[i])
        PROVE  i <= order[k]
    <3>1. PICK j \in 1..n : order[j] = i
      BY <1>1
    <3>2. Verdict(listed[j]) # "none" /\ listed[j].start = i
      BY <1>5, <2>3, <3>1
    <3>3. listed[j].start <= status.lastJobTimestamp
      BY <1>3, <3>2 DEF LatestSoFar
    <3> QED
      BY <2>1, <2>2, <3>2, <3>3
  <2> QED
    BY <1>5, <1>6, <2>1, <2>3
<1>8. ASSUME NEW k \in 1..n,
             FailureCounts(list[order[k]]),
             \A i \in 1..n : HasStarted(list[i]) => i <= order[k],
             \E j \in 1..(k - 1) : HasStarted(list[order[j]])
      PROVE  status.latestJobFailed
  <2>1. /\ Verdict(listed[k]) = "failed" /\ Before(listed, k)
        /\ listed[k].start = order[k]
    BY <1>5, <1>6, <1>8
  <2>2. ASSUME NEW j \in 1..n \ {k}
        PROVE  listed[j].start < listed[k].start
    <3>1. /\ order[j] # order[k] /\ order[j] \in Nat
          /\ order[k] \in Nat /\ order[k] > 0
      <4>1. order[j] \in 1..n /\ order[k] \in 1..n
        BY <1>1
      <4>2. order[j] # order[k]
        BY <1>2
      <4>3. n \in Nat
        BY <1>1
      <4> HIDE DEF n
      <4> QED
        BY <4>1, <4>2, <4>3
    <3>2. CASE ~HasStarted(list[order[j]])
      BY <1>5, <2>1, <3>1, <3>2
    <3>3. CASE HasStarted(list[order[j]])
      <4>1. order[j] <= order[k] /\ listed[j].start = order[j]
        BY <1>1, <1>5, <1>8, <3>3
      <4> QED
        BY <2>1, <3>1, <4>1
    <3> QED
      BY <3>2, <3>3
  <2>3. IsLatest(listed, k)
    BY <1>1, <2>2 DEF IsLatest
  <2> QED
    BY <1>3, <2>1, <2>3 DEF LatestSoFar
<1> QED
  BY <1>4, <1>7, <1>8 DEF listed

-----------------------------------------------------------------------------
(* Some Job of the list has succeeded.                                     *)
HasSucceeded(list) == \E i \in 1..Len(list) : list[i].state = "succeeded"

(* A success is counted only if a Job has succeeded.                       *)
LEMMA CompletedCounts ==
  ASSUME NEW list \in Seq(Job), NEW status \in JobStatuses(list),
         status.completed # 0
  PROVE  HasSucceeded(list)
<1>1. status.completed = Cardinality({i \in 1..Len(list) : SuccessCounts(list[i])})
  BY CountersAreRight
<1>2. {i \in 1..Len(list) : SuccessCounts(list[i])} # {}
  BY <1>1, FS_EmptySet
<1> QED
  BY <1>2 DEF SuccessCounts, HasSucceeded

(* The history limits keep at least one Job that succeeded.                *)
LEMMA DropOldestKeeps ==
  ASSUME NEW list \in Seq(Job), NEW state, NEW limit \in Nat \ {0},
         HasSucceeded(list)
  PROVE  HasSucceeded(DropOldest(list, state, limit))
<1> DEFINE finished == Finished(list, state)
           oldest == CHOOSE i \in finished : \A j \in finished : i <= j
<1>1. CASE Cardinality(finished) <= limit
  BY <1>1 DEF DropOldest
<1>2. CASE ~(Cardinality(finished) <= limit)
  <2>1. finished \subseteq 1..Len(list) /\ Len(list) \in Nat
        /\ finished \subseteq Nat
    BY DEF Finished
  <2>2. IsFiniteSet(finished) /\ Cardinality(finished) \in Nat
    <3>1. IsFiniteSet(1..Len(list))
      BY <2>1, FS_Interval
    <3> QED
      BY <2>1, <3>1, FS_Subset, FS_CardinalityType
  <2>3. Cardinality(finished) # 0 /\ Cardinality(finished) # 1
    BY <1>2, <2>2
  <2>4. finished # {} /\ \A i \in finished : finished # {i}
    <3> HIDE DEF finished
    <3> QED
      BY <2>3, FS_EmptySet, FS_Singleton
  <2>5. \E i \in finished : \A j \in finished : i <= j
    <3> HIDE DEF finished
    <3> QED
      BY <2>1, <2>4, LeastElement
  <2>6. oldest \in finished
    <3> HIDE DEF finished
    <3> QED
      BY <2>5
  <2>7. DropOldest(list, state, limit)
          = [k \in 1..(Len(list) - 1) |->
               IF k < oldest THEN list[k] ELSE list[k + 1]]
    BY <1>2 DEF DropOldest
  <2>8. oldest \in 1..Len(list) /\ list[oldest].state = state
    <3>1. \A i \in finished : i \in 1..Len(list) /\ list[i].state = state
      BY DEF Finished
    <3> HIDE DEF oldest, finished
    <3> QED
      BY <2>6, <3>1
  <2>9. PICK i \in 1..Len(list) : list[i].state = "succeeded" /\ i # oldest
    <3>1. PICK i \in 1..Len(list) : list[i].state = "succeeded"
      BY DEF HasSucceeded
    <3>2. \A j \in finished : j \in 1..Len(list) /\ list[j].state = state
      BY DEF Finished
    <3> HIDE DEF oldest, finished
    <3>3. PICK j \in finished : j # oldest
      BY <2>4, <2>6
    <3> QED
      BY <2>8, <3>1, <3>2, <3>3
  <2> HIDE DEF oldest, finished
  <2> DEFINE dropped == [k \in 1..(Len(list) - 1) |->
                           IF k < oldest THEN list[k] ELSE list[k + 1]]
  <2>10. Len(dropped) = Len(list) - 1
    BY <2>1, <2>8
  <2>11. CASE i < oldest
    <3>1. i \in 1..(Len(list) - 1) /\ dropped[i] = list[i]
      BY <2>1, <2>8, <2>11
    <3> HIDE DEF dropped
    <3> QED
      BY <2>7, <2>9, <2>10, <3>1 DEF HasSucceeded, dropped
  <2>12. CASE ~(i < oldest)
    <3>1. i - 1 \in 1..(Len(list) - 1) /\ ~(i - 1 < oldest) /\ (i - 1) + 1 = i
      BY <2>1, <2>8, <2>9, <2>12
    <3>2. dropped[i - 1] = list[i]
      BY <3>1
    <3> HIDE DEF dropped
    <3> QED
      BY <2>7, <2>9, <2>10, <3>1, <3>2 DEF HasSucceeded, dropped
  <2> QED
    BY <2>11, <2>12
<1> QED
  BY <1>1, <1>2

(* A container exists while its Job is active.                             *)
OffUnlessActive ==
  \A i \in Indices : jobs[i].state # "active" => jobs[i].pc = "off"

(* What a step of the system may do to the Jobs: one is appended, one that *)
(* is not finished moves, the container or the pod of an active one ends,  *)
(* or all of them are collected.                                           *)
JobsMove ==
  \/ UNCHANGED jobs
  \/ ~HasOnceJob(jobs) /\ jobs' = Append(jobs, NewJob("once"))
  \/ cron.exists /\ jobs' = Append(jobs, NewJob("cron"))
  \/ \E i \in Indices :
       /\ jobs[i].state \in Unfinished
       /\ \E job : /\ job.state = "active" /\ job.kind = jobs[i].kind
                   /\ Step(i, job)
  \/ \E i \in Indices, job \in Job :
       /\ jobs[i].state = "active"
       /\ job.kind = jobs[i].kind /\ (job.state # "active" => job.pc = "off")
       /\ jobs' = Trimmed([jobs EXCEPT ![i] = job])
  \/ ~obj.exists /\ jobs' = <<>>

(* The steps of a Job and its container.                                   *)
LEMMA RunMoves ==
  ASSUME TypeOK, OffUnlessActive, NEW i \in Indices,
         JobStarts(i) \/ RunStep(i) \/ Killed(i) \/ Evicted(i)
  PROVE  JobsMove
<1>1. jobs[i] \in Job
  BY ListType DEF TypeOK, APITypeOK, Indices
<1>2. jobs[i].pc # "off" => jobs[i].state = "active"
  BY DEF OffUnlessActive
<1>3. ASSUME NEW job, Step(i, job), job.state = "active",
             job.kind = jobs[i].kind, jobs[i].state \in Unfinished
      PROVE  JobsMove
  BY <1>3 DEF JobsMove
<1>4. CASE JobStarts(i)
  <2> DEFINE job == [jobs[i] EXCEPT !.state = "active", !.pc = "load"]
  <2>1. job.state = "active" /\ job.kind = jobs[i].kind
    BY <1>1 DEF Job
  <2> QED
    BY <1>3, <1>4, <2>1 DEF JobStarts, Unfinished
<1>5. CASE Killed(i) \/ Evicted(i) \/ LoadConfigFails(i) \/ CompleteRun(i)
  <2>1. jobs[i].state = "active"
    BY <1>2, <1>5 DEF Killed, Evicted, LoadConfigFails, CompleteRun, At
  <2>2. \/ jobs' = Trimmed([jobs EXCEPT ![i] = Replaced(jobs[i])])
        \/ \E success \in BOOLEAN :
             jobs' = Trimmed([jobs EXCEPT ![i] = Exited(jobs[i], success)])
    BY <1>5 DEF Killed, Evicted, LoadConfigFails, CompleteRun, Exit
  <2>3. \A success \in BOOLEAN :
          /\ Exited(jobs[i], success) \in Job
          /\ Exited(jobs[i], success).kind = jobs[i].kind
          /\ Exited(jobs[i], success).state # "active"
               => Exited(jobs[i], success).pc = "off"
    BY <1>1, ExitedType DEF Exited, NewJob
  <2>4. /\ Replaced(jobs[i]) \in Job /\ Replaced(jobs[i]).kind = jobs[i].kind
        /\ Replaced(jobs[i]).pc = "off"
    BY <1>1, ReplacedType DEF Replaced, NewJob
  <2> QED
    BY <2>1, <2>2, <2>3, <2>4 DEF JobsMove
<1>6. CASE RunStep(i) /\ ~(LoadConfigFails(i) \/ CompleteRun(i))
  <2>1. jobs[i].state = "active"
    BY <1>2, <1>6
    DEF RunStep, LoadConfig, SetupRepository, SetupRepositoryFails,
        IndexDocument, IndexDocumentFails, IndexingDone, ReportStatus,
        ReportStatusFails, FlagErrors, At
  <2>2. \E job : Step(i, job) /\ job.state = jobs[i].state
                 /\ job.kind = jobs[i].kind
    <3>1. CASE LoadConfig(i)
      <4> DEFINE job == [jobs[i] EXCEPT !.pc = "clone", !.full = FullRun(obj),
                                     !.from = obj.lastCommit]
      <4>1. job.state = jobs[i].state /\ job.kind = jobs[i].kind
        BY <1>1 DEF Job
      <4>2. Step(i, job)
        BY <3>1 DEF LoadConfig
      <4> QED
        BY <4>1, <4>2
    <3>2. CASE SetupRepository(i)
      <4> DEFINE job == [jobs[i] EXCEPT !.pc = "index", !.target = head,
                                     !.todo = ToIndex(jobs[i])]
      <4>1. job.state = jobs[i].state /\ job.kind = jobs[i].kind
        BY <1>1 DEF Job
      <4>2. Step(i, job)
        BY <3>2 DEF SetupRepository
      <4> QED
        BY <4>1, <4>2
    <3>3. CASE SetupRepositoryFails(i)
      <4> DEFINE job == [jobs[i] EXCEPT !.pc = "report", !.errors = TRUE]
      <4>1. job.state = jobs[i].state /\ job.kind = jobs[i].kind
        BY <1>1 DEF Job
      <4>2. Step(i, job)
        BY <3>3 DEF SetupRepositoryFails
      <4> QED
        BY <4>1, <4>2
    <3>4. CASE IndexDocument(i)
      <4> DEFINE job(d) == [jobs[i] EXCEPT !.todo = @ \ {d}]
      <4>1. \A d : job(d).state = jobs[i].state /\ job(d).kind = jobs[i].kind
        BY <1>1 DEF Job
      <4>2. \E d : Step(i, job(d))
        BY <3>4 DEF IndexDocument
      <4> QED
        BY <4>1, <4>2
    <3>5. CASE IndexDocumentFails(i)
      <4> DEFINE job(d) == [jobs[i] EXCEPT !.todo = @ \ {d}, !.errors = TRUE]
      <4>1. \A d : job(d).state = jobs[i].state /\ job(d).kind = jobs[i].kind
        BY <1>1 DEF Job
      <4>2. \E d : Step(i, job(d))
        BY <3>5 DEF IndexDocumentFails
      <4> QED
        BY <4>1, <4>2
    <3>6. CASE IndexingDone(i)
      BY <1>1, <3>6 DEF IndexingDone, Job
    <3>7. CASE ReportStatus(i)
      BY <1>1, <3>7 DEF ReportStatus, AfterReport, Job
    <3>8. CASE ReportStatusFails(i)
      BY <1>1, <3>8 DEF ReportStatusFails, AfterReport, Job
    <3>9. CASE FlagErrors(i)
      BY <1>1, <3>9 DEF FlagErrors, Job
    <3> QED
      BY <1>6, <3>1, <3>2, <3>3, <3>4, <3>5, <3>6, <3>7, <3>8, <3>9 DEF RunStep
  <2> QED
    BY <1>3, <2>1, <2>2 DEF Unfinished
<1> QED
  BY <1>4, <1>5, <1>6 DEF RunStep

(* The steps of the system.                                                *)
LEMMA JobsStep ==
  ASSUME TypeOK, OffUnlessActive, [Next]_vars
  PROVE  JobsMove
<1>1. ASSUME ReconcilerNext
      PROVE  \/ UNCHANGED jobs
             \/ ~HasOnceJob(jobs) /\ jobs' = Append(jobs, NewJob("once"))
  BY <1>1
  DEF ReconcilerNext, ReconcileBegin, EnsureFinalizer, EnsureFinalizerFails,
      EnsureRequiredResources, EnsureRequiredResourcesFails, UnchangedAPI,
      HandlePhase, HandleUnknownPhase, HandlePendingScheduled,
      HandlePendingOnce, HandlePendingJobCreationFails, HandleScheduledPhase,
      HandleSuspendedPhase, HandleRunningPhase, HandleCompletedOrFailedPhase,
      RemediationIgnored, RemediationOver, RemediationManual,
      RemediationSuspend, RemediationAct, MoveTo, StayInPhase,
      RemediationCalls, SetSuspendedState, SetSuspendedStateFails, ListIndexes,
      DeleteIndex, RAGCallFails, MarkRemediated, MarkRemediatedFails,
      PatchAndReturn, NothingToPatch, PatchStatus, PatchStatusFails,
      GarbageCollectAutoIndexer, GcListJobs, GcDeleteIndex, GcDeleteIndexFails,
      GcRemoveFinalizer, GcRemoveFinalizerFails
<1>2. ASSUME DetectorNext PROVE UNCHANGED jobs
  BY <1>2
  DEF DetectorNext, PerformDriftCheck, SkipDriftCheck, CompareDocumentCount,
      GetDocumentCountFails, SetDriftDetected, SetDriftRemediated,
      NothingToWrite, AnnotationUpdateFails, Checked, DetUnchanged
<1>3. ASSUME JobNext PROVE JobsMove
  <2>1. (CronFires \/ CollectOwned) => JobsMove
    BY DEF CronFires, CollectOwned, JobsMove
  <2> QED
    BY <1>3, <2>1, RunMoves DEF JobNext, JobProgress
<1>4. ASSUME Environment PROVE UNCHANGED jobs
  BY <1>4
  DEF Environment, UserSuspends, UserChangesStrategy, UserSchedules,
      UserDeletes, Edited, PushCommit, LoseDocuments, ClockTick
<1>5. (RefreshCaches \/ UNCHANGED vars) => UNCHANGED jobs
  BY DEF RefreshCaches, vars, apiVars
<1> QED
  BY <1>1, <1>2, <1>3, <1>4, <1>5 DEF Next, JobsMove

(* The history limits, of both kinds.                                      *)
LEMMA TrimmedKeeps ==
  ASSUME NEW list \in Seq(Job)
  PROVE  /\ HasSucceeded(list) => HasSucceeded(Trimmed(list))
         /\ \A i \in 1..Len(Trimmed(list)) :
              \E j \in 1..Len(list) : Trimmed(list)[i] = list[j]
<1> DEFINE once == DropOldest(list, "succeeded", SuccessHistory)
<1>1. /\ SuccessHistory \in Nat \ {0} /\ FailedHistory \in Nat \ {0}
      /\ SuccessHistory \in Nat /\ FailedHistory \in Nat
  BY ConstantsAssumption
<1>2. once \in Seq(Job) /\ HasSucceeded(list) => HasSucceeded(once)
  BY <1>1, DropOldestType, DropOldestKeeps
<1>3. \A i \in 1..Len(once) : \E j \in 1..Len(list) : once[i] = list[j]
  BY <1>1, DropOldestType
<1>4. once \in Seq(Job)
  BY <1>1, DropOldestType
<1> HIDE DEF once
<1>5. \A i \in 1..Len(DropOldest(once, "failed", FailedHistory)) :
        \E j \in 1..Len(once) :
          DropOldest(once, "failed", FailedHistory)[i] = once[j]
  BY <1>1, <1>4, DropOldestType
<1>6. HasSucceeded(once) => HasSucceeded(DropOldest(once, "failed", FailedHistory))
  BY <1>1, <1>4, DropOldestKeeps
<1> QED
  BY <1>2, <1>3, <1>5, <1>6, <1>4 DEF Trimmed, once

(* A Job that succeeded goes only with the AutoIndexer.                    *)
LEMMA JobsKeepSucceeded ==
  ASSUME TypeOK, OffUnlessActive, [Next]_vars
  PROVE  /\ OffUnlessActive'
         /\ (obj.exists /\ HasSucceeded(jobs)) => HasSucceeded(jobs')
<1>1. jobs \in Seq(Job) /\ Len(jobs) \in Nat /\ \A i \in Indices : jobs[i] \in Job
  BY ListType DEF TypeOK, APITypeOK, Indices
<1> USE DEF Indices
<1>2. CASE UNCHANGED jobs
  BY <1>2 DEF OffUnlessActive, HasSucceeded
<1>3. ASSUME NEW kind \in {"once", "cron"}, jobs' = Append(jobs, NewJob(kind))
      PROVE  /\ OffUnlessActive'
             /\ HasSucceeded(jobs) => HasSucceeded(jobs')
  <2>1. NewJob(kind).pc = "off" /\ NewJob(kind) \in Job
    BY NewJobType DEF NewJob
  <2>2. /\ Len(jobs') = Len(jobs) + 1 /\ jobs'[Len(jobs) + 1] = NewJob(kind)
        /\ \A i \in 1..Len(jobs) : jobs'[i] = jobs[i]
    BY <1>1, <1>3, <2>1
  <2>3. \A i \in 1..Len(jobs') : i \in 1..Len(jobs) \/ i = Len(jobs) + 1
    BY <1>1, <2>2
  <2>4. 1..Len(jobs) \subseteq 1..Len(jobs')
    BY <1>1, <2>2
  <2> QED
    BY <2>1, <2>2, <2>3, <2>4 DEF OffUnlessActive, HasSucceeded
<1>4. ASSUME NEW i \in Indices, jobs[i].state \in Unfinished,
             NEW job, job.state = "active", Step(i, job)
      PROVE  /\ OffUnlessActive'
             /\ HasSucceeded(jobs) => HasSucceeded(jobs')
  <2>1. /\ Len(jobs') = Len(jobs) /\ jobs'[i] = job
        /\ \A j \in 1..Len(jobs) : j # i => jobs'[j] = jobs[j]
    BY <1>1, <1>4 DEF Step
  <2> QED
    BY <1>4, <2>1 DEF OffUnlessActive, HasSucceeded, Unfinished
<1>5. ASSUME NEW i \in Indices, NEW job \in Job, jobs[i].state = "active",
             job.state # "active" => job.pc = "off",
             jobs' = Trimmed([jobs EXCEPT ![i] = job])
      PROVE  /\ OffUnlessActive'
             /\ HasSucceeded(jobs) => HasSucceeded(jobs')
  <2> DEFINE exited == [jobs EXCEPT ![i] = job]
  <2>2. exited \in Seq(Job)
    BY <1>1, <1>5, ListType
  <2>3. /\ Len(exited) = Len(jobs) /\ exited[i] = job
        /\ \A j \in 1..Len(jobs) : j # i => exited[j] = jobs[j]
    BY <1>1
  <2>4. jobs' = Trimmed(exited)
    BY <1>5
  <2> HIDE DEF exited
  <2>5. HasSucceeded(jobs) => HasSucceeded(exited)
    BY <1>5, <2>3 DEF HasSucceeded
  <2>6. \A j \in 1..Len(exited) :
          exited[j].state # "active" => exited[j].pc = "off"
    BY <1>5, <2>3 DEF OffUnlessActive
  <2> QED
    BY <2>2, <2>4, <2>5, <2>6, TrimmedKeeps DEF OffUnlessActive
<1>6. CASE ~obj.exists /\ jobs' = <<>>
  BY <1>6 DEF OffUnlessActive
<1> QED
  BY <1>2, <1>3, <1>4, <1>5, <1>6, JobsStep DEF JobsMove

(* Every copy that says Completed is vouched for by a Job that succeeded;  *)
(* so is the list a reconcile reads in the cache.                          *)
Vouched(ai) == ai.phase = "Completed" => HasSucceeded(jobs)

Completion ==
  /\ OffUnlessActive
  /\ ~obj.exists => obj.phase # "Completed"
  /\ obj.exists =>
       /\ HasSucceeded(jobsCache) => HasSucceeded(jobs)
       /\ Vouched(obj) /\ Vouched(objCache) /\ Vouched(recMem)

(* At first no phase is Completed.                                         *)
LEMMA CompletionAtInit == Init => Completion
  BY DEF Init, APIInit, RecInit, NoObject, Completion, Vouched,
         OffUnlessActive, HasSucceeded, Indices

(* Where the copy in memory comes from, and which handlers finish it.      *)
KnownCopies == {recMem, objCache, obj', NoObject}

(* Where the phase in the memory of a reconcile comes from: a copy, or a   *)
(* handler; only that of Running, and the Job that cannot be created, give *)
(* it an outcome.                                                          *)
LEMMA MemoryStep ==
  ASSUME TypeOK, ReconcilerNext
  PROVE  /\ \E ai \in KnownCopies : recMem'.scheduled = ai.scheduled
         /\ \/ \E ai \in KnownCopies : recMem'.phase = ai.phase
            \/ recMem'.phase \in Phase \ {"Completed", "Failed"}
            \/ HandleRunningPhase
            \/ HandlePendingJobCreationFails /\ recMem'.phase = "Failed"
<1> USE DEF KnownCopies
<1>1. recMem \in AutoIndexer /\ obj \in AutoIndexer
  BY DEF TypeOK, APITypeOK, RecTypeOK
<1>2. CASE HandlePhase
  <2>1. ASSUME NEW phase, MoveTo(phase)
        PROVE  recMem'.phase = phase /\ recMem'.scheduled = recMem.scheduled
    BY <1>1, <2>1 DEF MoveTo, FinishPhase, AutoIndexer
  <2>2. CASE HandlePendingOnce \/ HandlePendingJobCreationFails
    BY <1>1, <2>2
    DEF HandlePendingOnce, HandlePendingJobCreationFails, FinishPhase,
        AutoIndexer, Phase
  <2>3. CASE \/ HandleCompletedOrFailedPhase \/ RemediationOver
             \/ RemediationManual \/ RemediationSuspend \/ RemediationAct
    BY <2>1, <2>3
    DEF HandleCompletedOrFailedPhase, RemediationOver, RemediationManual,
        RemediationSuspend, RemediationAct, StayInPhase, Goto, Phase
  <2>4. CASE \/ HandleUnknownPhase \/ HandlePendingScheduled
             \/ HandleScheduledPhase \/ HandleSuspendedPhase
             \/ RemediationIgnored
    BY <2>1, <2>4
    DEF HandleUnknownPhase, HandlePendingScheduled, HandleScheduledPhase,
        HandleSuspendedPhase, RemediationIgnored, Phase
  <2>5. CASE HandleRunningPhase
    BY <2>1, <2>5 DEF HandleRunningPhase
  <2> QED
    BY <1>2, <2>2, <2>3, <2>4, <2>5 DEF HandlePhase
<1>3. CASE RemediationCalls
  BY <1>1, <1>3
  DEF RemediationCalls, SetSuspendedState, SetSuspendedStateFails, ListIndexes,
      DeleteIndex, RAGCallFails, MarkRemediated, MarkRemediatedFails,
      FinishPhase, ResetStatus, AutoIndexer
<1>4. CASE ~(HandlePhase \/ RemediationCalls)
  BY <1>1, <1>4
  DEF ReconcilerNext, ReconcileBegin, EnsureFinalizer, EnsureFinalizerFails,
      EnsureRequiredResources, EnsureRequiredResourcesFails, FinishPhase, Goto,
      Return, PatchAndReturn, NothingToPatch, PatchStatus,
      PatchStatusFails, GarbageCollectAutoIndexer, GcListJobs, GcDeleteIndex,
      GcDeleteIndexFails, GcRemoveFinalizer, GcRemoveFinalizerFails, AutoIndexer
<1> QED
  BY <1>2, <1>3, <1>4

(* The handler of Running goes by the list of the cache.                   *)
LEMMA RunningCompletes ==
  ASSUME TypeOK, HandleRunningPhase, recMem'.phase = "Completed"
  PROVE  HasSucceeded(jobsCache)
<1>1. recMem \in AutoIndexer /\ jobsCache \in Seq(Job)
  BY DEF TypeOK, APITypeOK, RecTypeOK
<1>2. \A phase : MoveTo(phase) => recMem'.phase = phase
  BY <1>1 DEF MoveTo, FinishPhase, AutoIndexer
<1>3. PICK status \in JobStatuses(jobsCache) : status.completed # 0
  BY <1>2 DEF HandleRunningPhase
<1> QED
  BY <1>1, <1>3, CompletedCounts

(* Every step keeps the invariant.                                         *)
LEMMA CompletionPreserved ==
  TypeOK /\ Completion /\ [Next]_vars => Completion'
<1> SUFFICES ASSUME TypeOK, Completion, [Next]_vars
             PROVE  Completion'
  OBVIOUS
<1>1. Survives /\ PhasePatched
  BY ObjectStep
<1>2. /\ OffUnlessActive'
      /\ (obj.exists /\ HasSucceeded(jobs)) => HasSucceeded(jobs')
  BY JobsKeepSucceeded DEF Completion
<1>3. CASE ~obj'.exists
  <2> QED
    BY <1>1, <1>2, <1>3 DEF PhasePatched, Completion, NoObject
<1>4. CASE obj'.exists
  <2>1. obj.exists
    BY <1>1, <1>4 DEF Survives
  <2>2. /\ HasSucceeded(jobsCache) => HasSucceeded(jobs)
        /\ Vouched(obj) /\ Vouched(objCache) /\ Vouched(recMem)
    BY <2>1 DEF Completion
  <2>3. HasSucceeded(jobs) => HasSucceeded(jobs')
    BY <1>2, <2>1
  <2>4. obj'.phase \in {obj.phase, recMem.phase}
    BY <1>1, <1>4 DEF PhasePatched, Merged
  <2>5. Vouched(obj)'
    BY <2>2, <2>3, <2>4 DEF Vouched
  <2>6. Vouched(objCache)'
    BY <2>2, <2>3, <2>5, CacheSource DEF Vouched
  <2>7. jobsCache' \in {jobsCache, jobs, jobs'}
    BY DEF Next, CacheStep, RefreshCaches, vars, apiVars
  <2>8. (HasSucceeded(jobsCache) => HasSucceeded(jobs))'
    BY <2>2, <2>3, <2>7
  <2>9. Vouched(recMem)'
    <3>1. CASE UNCHANGED recVars
      BY <2>2, <2>3, <3>1 DEF Vouched, recVars
    <3>2. CASE ReconcilerNext
      BY <2>2, <2>3, <2>5, <3>2, MemoryStep, RunningCompletes
      DEF Vouched, KnownCopies, NoObject
    <3> QED
      BY <3>1, <3>2 DEF Next, RefreshCaches, vars
  <2> QED
    BY <1>2, <1>4, <2>5, <2>6, <2>8, <2>9 DEF Completion
<1> QED
  BY <1>3, <1>4

(* An AutoIndexer is Completed only if a Job of it has succeeded that      *)
(* still exists (handleRunningPhase with getJobStatus), however old the    *)
(* copies are that the controller works on, whatever fails and whatever    *)
(* the user edits: the copies too say Completed only with such a Job.      *)
THEOREM CompletedSucceeded == Spec => []CompletedHasSucceeded
<1>1. Completion => CompletedHasSucceeded
  BY DEF Completion, CompletedHasSucceeded, Vouched, HasSucceeded,
         Indices
<1> QED
  BY <1>1, TypeCorrect, CompletionAtInit, CompletionPreserved, PTL DEF Spec

-----------------------------------------------------------------------------
(* A one-time AutoIndexer has one Job, whose failure is never the one      *)
(* latestJobFailed is set for.                                             *)
OneTimeOnly == Scheduled = {FALSE} /\ "schedule" \notin Edits

OnlyOneJob(list) ==
  /\ Len(list) <= 1
  /\ \A i \in 1..Len(list) : list[i].kind = "once"

OneTime ==
  /\ OffUnlessActive
  /\ OnlyOneJob(jobs) /\ OnlyOneJob(jobsCache) /\ ~cron.exists
  /\ ~obj.scheduled /\ ~objCache.scheduled /\ ~recMem.scheduled

(* The reconcile that is about to report a failure started from Pending.   *)
FailureFromPending ==
  (recPc = "patch" /\ ~recLocked /\ recMem.phase = "Failed")
    => recOrig.phase \in {"Pending", "Failed"}

(* The history limits add no Job.                                          *)
LEMMA TrimmedLength ==
  ASSUME NEW list \in Seq(Job)
  PROVE  Len(Trimmed(list)) <= Len(list) /\ Len(Trimmed(list)) \in Nat
<1>1. ASSUME NEW l \in Seq(Job), NEW state, NEW limit \in Nat
      PROVE  /\ Len(DropOldest(l, state, limit)) <= Len(l)
             /\ Len(DropOldest(l, state, limit)) \in Nat
  <2>1. Len(l) \in Nat
    OBVIOUS
  <2>2. CASE DropOldest(l, state, limit) = l
    BY <2>1, <2>2
  <2>3. CASE DropOldest(l, state, limit) # l
    <3>1. Len(l) - 1 \in Nat
      BY <2>3, DropOldestForm
    <3>2. Len(DropOldest(l, state, limit)) = Len(l) - 1
      BY <2>3, <3>1, DropOldestForm
    <3> QED
      BY <2>1, <3>1, <3>2
  <2> QED
    BY <2>2, <2>3
<1> DEFINE once == DropOldest(list, "succeeded", SuccessHistory)
<1>2. /\ SuccessHistory \in Nat /\ FailedHistory \in Nat
      /\ Len(list) \in Nat
  BY ConstantsAssumption
<1>3. once \in Seq(Job) /\ Len(once) <= Len(list) /\ Len(once) \in Nat
  BY <1>1, <1>2, DropOldestType
<1> HIDE DEF once
<1>4. /\ Len(DropOldest(once, "failed", FailedHistory)) <= Len(once)
      /\ Len(DropOldest(once, "failed", FailedHistory)) \in Nat
  BY <1>1, <1>2, <1>3
<1> QED
  BY <1>2, <1>3, <1>4 DEF Trimmed, once

(* No second Job comes, and no CronJob.                                    *)
LEMMA OneJobStays ==
  ASSUME TypeOK, OffUnlessActive, OnlyOneJob(jobs), ~cron.exists, [Next]_vars
  PROVE  OnlyOneJob(jobs')
<1>1. jobs \in Seq(Job) /\ Len(jobs) \in Nat /\ \A i \in Indices : jobs[i] \in Job
  BY ListType DEF TypeOK, APITypeOK, Indices
<1> USE DEF Indices
<1>2. CASE UNCHANGED jobs
  BY <1>2
<1>3. CASE ~HasOnceJob(jobs) /\ jobs' = Append(jobs, NewJob("once"))
  <2>1. Len(jobs) = 0
    BY <1>1, <1>3 DEF OnlyOneJob, HasOnceJob
  <2>2. NewJob("once").kind = "once" /\ NewJob("once") \in Job
    BY NewJobType DEF NewJob
  <2>3. Len(jobs') = 1 /\ jobs'[1] = NewJob("once")
    BY <1>1, <1>3, <2>1, <2>2
  <2> QED
    BY <2>2, <2>3 DEF OnlyOneJob
<1>4. ASSUME NEW i \in Indices, NEW job, job.kind = jobs[i].kind, Step(i, job)
      PROVE  OnlyOneJob(jobs')
  <2>1. /\ Len(jobs') = Len(jobs) /\ jobs'[i] = job
        /\ \A j \in 1..Len(jobs) : j # i => jobs'[j] = jobs[j]
    BY <1>1, <1>4 DEF Step
  <2> QED
    BY <1>4, <2>1 DEF OnlyOneJob
<1>5. ASSUME NEW i \in Indices, NEW job \in Job, job.kind = jobs[i].kind,
             jobs' = Trimmed([jobs EXCEPT ![i] = job])
      PROVE  OnlyOneJob(jobs')
  <2> DEFINE exited == [jobs EXCEPT ![i] = job]
  <2>2. exited \in Seq(Job)
    BY <1>1, <1>5, ListType
  <2>3. /\ Len(exited) = Len(jobs)
        /\ \A j \in 1..Len(jobs) : exited[j].kind = jobs[j].kind
    BY <1>1, <1>5
  <2>4. jobs' = Trimmed(exited)
    BY <1>5
  <2> HIDE DEF exited
  <2>5. /\ \A j \in 1..Len(jobs') : \E k \in 1..Len(exited) : jobs'[j] = exited[k]
        /\ Len(jobs') <= Len(exited) /\ Len(jobs') \in Nat
    BY <2>2, <2>4, TrimmedKeeps, TrimmedLength
  <2> QED
    BY <1>1, <2>3, <2>5 DEF OnlyOneJob
<1>6. CASE jobs' = <<>>
  BY <1>6 DEF OnlyOneJob
<1> QED
  BY <1>2, <1>3, <1>4, <1>5, <1>6, JobsStep DEF JobsMove

(* Nobody gives the AutoIndexer a schedule.                                *)
LEMMA ScheduleStep ==
  ASSUME OneTimeOnly, TypeOK, [Next]_vars, ~obj.scheduled
  PROVE  ~obj'.scheduled
<1>1. obj \in AutoIndexer /\ ~NoObject.scheduled
  BY DEF TypeOK, APITypeOK, NoObject
<1>2. Survives /\ PhasePatched
  BY ObjectStep
<1>3. CASE ~obj'.exists
  BY <1>1, <1>2, <1>3 DEF PhasePatched
<1>4. CASE obj'.exists /\ obj.exists
  <2>1. CASE ReconcilerNext \/ DetectorNext \/ JobNext
    BY <1>4, <2>1, ReconcilerWrites, DetectorWrites, JobWrites
    DEF WellBehaved, SpecKept
  <2>2. CASE Environment
    BY <1>1, <1>4, <2>2
    DEF Environment, UserSuspends, UserChangesStrategy, UserSchedules,
        UserDeletes, Edited, PushCommit, LoseDocuments, ClockTick, May,
        OneTimeOnly, AutoIndexer
  <2>3. CASE RefreshCaches \/ UNCHANGED vars
    BY <2>3 DEF RefreshCaches, vars, apiVars
  <2> QED
    BY <2>1, <2>2, <2>3 DEF Next
<1> QED
  BY <1>2, <1>3, <1>4 DEF Survives

(* The handler of Running moves to Failed for the latest of two Jobs at    *)
(* least.                                                                  *)
LEMMA RunningNeverFails ==
  ASSUME TypeOK, OnlyOneJob(jobsCache), HandleRunningPhase
  PROVE  recMem'.phase # "Failed"
<1>1. recMem \in AutoIndexer /\ jobsCache \in Seq(Job) /\ Len(jobsCache) \in Nat
  BY DEF TypeOK, APITypeOK, RecTypeOK
<1>2. \A phase : MoveTo(phase) => recMem'.phase = phase
  BY <1>1 DEF MoveTo, FinishPhase, AutoIndexer
<1>3. ASSUME NEW status \in JobStatuses(jobsCache)
      PROVE  ~status.latestJobFailed
  <2>1. PICK order \in Orders(Len(jobsCache)) :
               status = GetJobStatus(ListedAs(jobsCache, order))
    BY DEF JobStatuses
  <2>2. \A k \in 1..Len(jobsCache) : 1..(k - 1) = {}
    BY <1>1 DEF OnlyOneJob
  <2> QED
    BY <1>1, <2>1, <2>2, LatestFailureNeedsAnEarlierJob
<1> QED
  BY <1>2, <1>3 DEF HandleRunningPhase

(* Every step keeps the invariant.                                         *)
LEMMA OneTimePreserved ==
  ASSUME OneTimeOnly
  PROVE  TypeOK /\ OneTime /\ [Next]_vars => OneTime'
<1> SUFFICES ASSUME TypeOK, OneTime, [Next]_vars
             PROVE  OneTime'
  OBVIOUS
<1>1. OnlyOneJob(jobs) /\ OnlyOneJob(jobs') /\ OffUnlessActive'
  BY OneJobStays, JobsKeepSucceeded DEF OneTime
<1>2. jobsCache' \in {jobsCache, jobs, jobs'}
  BY DEF Next, CacheStep, RefreshCaches, vars, apiVars
<1>3. ~cron'.exists
  BY CronStep DEF OneTime, EnsureRequiredResources, CronJobWrite
<1>4. ~obj'.scheduled
  BY ScheduleStep DEF OneTime
<1>5. ~objCache'.scheduled
  BY <1>4, CacheSource DEF OneTime
<1>6. ~recMem'.scheduled
  <2>1. CASE UNCHANGED recVars
    BY <2>1 DEF recVars, OneTime
  <2>2. CASE ReconcilerNext
    <3>1. \A ai \in KnownCopies : ~ai.scheduled
      BY <1>4 DEF KnownCopies, OneTime, NoObject
    <3> QED
      BY <2>2, <3>1, MemoryStep
  <2> QED
    BY <2>1, <2>2 DEF Next, RefreshCaches, vars
<1> QED
  BY <1>1, <1>2, <1>3, <1>4, <1>5, <1>6 DEF OneTime

(* A reconcile comes to its patch with the outcome Failed from the handler *)
(* of Pending, or with the Failed it has read.                             *)
LEMMA FailureStep ==
  ASSUME TypeOK, PhaseMemory, OnlyOneJob(jobsCache), ReconcilerNext,
         recPc' = "patch", ~recLocked', recMem'.phase = "Failed"
  PROVE  recOrig'.phase \in {"Pending", "Failed"}
<1>1. recMem \in AutoIndexer
  BY DEF TypeOK, RecTypeOK
<1>2. CASE HandlePhase
  <2>1. /\ recPc = "phase"
        /\ recMem.phase = "Running" => HandleRunningPhase
    BY <1>2
    DEF HandlePhase, HandleUnknownPhase, HandlePendingScheduled,
        HandlePendingOnce, HandlePendingJobCreationFails, HandleScheduledPhase,
        HandleSuspendedPhase, HandleRunningPhase, HandleCompletedOrFailedPhase,
        RemediationIgnored, RemediationOver, RemediationManual,
        RemediationSuspend, RemediationAct, InPhase
  <2>2. recMem.phase # "Running"
    BY <2>1, RunningNeverFails
  <2>3. UNCHANGED recOrig /\ EdgeOrSame(recMem.phase, "Failed")
    BY <1>1, <1>2, HandlersTakeEdges DEF EdgeTaken
  <2>4. recMem.phase \in {"Pending", "Failed"}
    BY <2>2, <2>3 DEF EdgeOrSame, Phases!Edges
  <2> QED
    BY <2>1, <2>3, <2>4 DEF PhaseMemory
<1>3. CASE ~HandlePhase
  <2>1. /\ UNCHANGED recOrig /\ recMem'.phase = recMem.phase
        /\ recPc \notin {"idle", "patch"}
    BY <1>1, <1>3
    DEF ReconcilerNext, ReconcileBegin, EnsureFinalizer, EnsureFinalizerFails,
        EnsureRequiredResources, EnsureRequiredResourcesFails, FinishPhase, Goto,
        RemediationCalls, SetSuspendedState, SetSuspendedStateFails, ListIndexes,
        DeleteIndex, RAGCallFails, MarkRemediated, MarkRemediatedFails,
        Return, PatchAndReturn, NothingToPatch, PatchStatus,
        PatchStatusFails, GarbageCollectAutoIndexer, GcListJobs, GcDeleteIndex,
        GcDeleteIndexFails, GcRemoveFinalizer, GcRemoveFinalizerFails, AutoIndexer
  <2> QED
    BY <2>1 DEF PhaseMemory
<1> QED
  BY <1>2, <1>3

LEMMA FailureFromPendingPreserved ==
  TypeOK /\ PhaseMemory /\ OneTime /\ FailureFromPending /\ [Next]_vars
    => FailureFromPending'
<1> SUFFICES ASSUME TypeOK, PhaseMemory, OneTime, FailureFromPending, [Next]_vars
             PROVE  FailureFromPending'
  OBVIOUS
<1>1. CASE UNCHANGED recVars
  BY <1>1 DEF recVars, FailureFromPending
<1>2. CASE ReconcilerNext
  BY <1>2, FailureStep DEF OneTime, FailureFromPending
<1> QED
  BY <1>1, <1>2 DEF Next, RefreshCaches, vars

(* handleRunningPhase moves a "non-scheduled AutoIndexer with failed jobs" *)
(* to Failed, it says.  For a one-time AutoIndexer it never does, however  *)
(* often the Job fails, loses pods, or is seen late through the caches:    *)
(* Failed is only ever reached from Pending, by a reconcile that could not *)
(* create the Job.                                                         *)
FailedOnlyFromPending ==
  [][ (obj.phase # "Failed" /\ obj'.phase = "Failed")
        => recPc = "patch" /\ recOrig.phase = "Pending" ]_vars

THEOREM JobFailuresStayUnreported ==
  ASSUME OneTimeOnly
  PROVE  Spec => FailedOnlyFromPending
<1> DEFINE Reported == (obj.phase # "Failed" /\ obj'.phase = "Failed")
                         => recPc = "patch" /\ recOrig.phase = "Pending"
<1>1. Init => OneTime /\ FailureFromPending
  BY DEF Init, APIInit, RecInit, NoObject, NoCronJob, OneTime, FailureFromPending,
         OnlyOneJob, OffUnlessActive, Indices, OneTimeOnly
<1>2. TypeOK /\ OneTime /\ [Next]_vars => OneTime'
  BY OneTimePreserved
<1>3. TypeOK /\ PhaseMemory /\ FailureFromPending /\ [Next]_vars => [Reported]_vars
  <2> SUFFICES ASSUME TypeOK, PhaseMemory, FailureFromPending, [Next]_vars,
                      obj.phase # "Failed", obj'.phase = "Failed"
               PROVE  recPc = "patch" /\ recOrig.phase = "Pending"
    OBVIOUS
  <2>1. obj'.exists
    BY ObjectStep DEF PhasePatched, NoObject
  <2>2. /\ PatchStatus /\ ~recLocked /\ recMem.phase = "Failed"
        /\ <<recOrig.phase, "Failed">> \in Phases!Edges
    BY <2>1, PhaseEdge
  <2>3. recPc = "patch" /\ recOrig.phase # "Failed"
    BY <2>2 DEF PatchStatus, Phases!Edges
  <2> QED
    BY <2>2, <2>3 DEF FailureFromPending
<1> QED
  BY <1>1, <1>2, <1>3, TypeCorrect, PhaseMemoryAtInit, PhaseMemoryPreserved,
     FailureFromPendingPreserved, PTL DEF Spec, FailedOnlyFromPending
=============================================================================
