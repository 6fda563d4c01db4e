--------------------------- MODULE JobQueueProofs ---------------------------
(***************************************************************************)
(* What the operations on a BullMQ job preserve, for the proofs of the     *)
(* queues built from it.                                                   *)
(***************************************************************************)
EXTENDS JobQueue, Integers, FiniteSetTheorems, TLAPS

\* A job with a holder is active, and a job that may still run has attempts left.
Sound(q) ==
  /\ q \in QueuedJob
  /\ q.holder # NoWorker => q.state = "active"
  /\ q.state \in {"waiting", "active"} => q.made < Attempts

\* Queue.add, and the record before it.
LEMMA NewJobSound == Sound(AbsentJob) /\ Sound(Added)
<1>1. /\ AbsentJob \in QueuedJob
      /\ Added \in QueuedJob
  BY JobQueueAssumption DEF AbsentJob, Added, QueuedJob
<1>2. QED
  BY <1>1, JobQueueAssumption DEF Sound, AbsentJob, Added

\* A worker takes a waiting job.
LEMMA TakenSound ==
  ASSUME NEW q, Sound(q), NEW w \in Worker, q.state = "waiting"
  PROVE  /\ Sound(Taken(q, w))
         /\ Taken(q, w).holder = w
BY DEF Sound, Taken, QueuedJob

\* A lock expires.
LEMMA UnlockedSound ==
  ASSUME NEW q, Sound(q)
  PROVE  Sound(Unlocked(q))
BY DEF Sound, Unlocked, QueuedJob

\* A run returns.
LEMMA CompletedSound ==
  ASSUME NEW q, Sound(q)
  PROVE  Sound(Completed(q))
BY DEF Sound, Completed, QueuedJob

\* A run throws: the attempts never exceed the limit, because only the run that
\* holds the lock counts one.
LEMMA ThrownSound ==
  ASSUME NEW q, Sound(q), q.holder # NoWorker
  PROVE  Sound(Thrown(q))
<1>1. q.made \in Nat /\ q.made + 1 <= Attempts
  BY JobQueueAssumption DEF Sound, QueuedJob
<1>2. q.made + 1 \in 0 .. Attempts
  BY <1>1, JobQueueAssumption
<1>3. CASE q.made + 1 < Attempts
  BY <1>2, <1>3 DEF Sound, Thrown, QueuedJob
<1>4. CASE ~(q.made + 1 < Attempts)
  BY <1>2, <1>4 DEF Sound, Thrown, QueuedJob
<1>5. QED
  BY <1>3, <1>4

\* The stalled check puts an unlocked job back or gives it up.
LEMMA StalledSound ==
  ASSUME NEW q, Sound(q), q.state = "active", q.holder = NoWorker
  PROVE  Sound(Stalled(q))
<1>1. CASE q.stalls < MaxStalls
  <2>1. q.stalls + 1 \in 0 .. MaxStalls
    BY <1>1, JobQueueAssumption DEF Sound, QueuedJob
  <2>2. QED
    BY <1>1, <2>1 DEF Sound, Stalled, QueuedJob
<1>2. CASE ~(q.stalls < MaxStalls)
  BY <1>2 DEF Sound, Stalled, QueuedJob
<1>3. QED
  BY <1>1, <1>2

\* What a run makes of its job, whether it kept the lock or not.
LEMMA LeftSound ==
  ASSUME NEW q, Sound(q), NEW w \in Worker
  PROVE  /\ Sound(IfHeld(q, w, Completed(q)))
         /\ Sound(IfHeld(q, w, Thrown(q)))
         /\ Sound(IfHeld(q, w, Unlocked(q)))
BY JobQueueAssumption, CompletedSound, ThrownSound, UnlockedSound DEF IfHeld


-----------------------------------------------------------------------------
(* How many runs a job may still get *)

\* A job is due to run once more, unless it is over or a worker holds it.
Due(q) == IF q.state = "over" \/ q.holder # NoWorker THEN 0 ELSE 1

\* A run takes what was due; a lock that expires and a run that throws make the job
\* due again, and nothing else does.
LEMMA DueChanges ==
  ASSUME NEW q, Sound(q), NEW w \in Worker
  PROVE  /\ Due(q) \in {0, 1}
         /\ Due(AbsentJob) = 1 /\ Due(Added) = 1
         /\ q.state = "waiting" => Due(q) = 1 /\ Due(Taken(q, w)) = 0
         /\ Due(IfHeld(q, w, Completed(q))) <= Due(q)
         /\ Due(IfHeld(q, w, Thrown(q))) <= Due(q) + 1
         /\ Due(IfHeld(q, w, Unlocked(q))) <= Due(q) + 1
         /\ q.state = "active" /\ q.holder = NoWorker => Due(Stalled(q)) <= Due(q)
<1> q \in QueuedJob
  BY DEF Sound
<1>1. \A r : Due(r) \in {0, 1}
  BY DEF Due
<1>2. Due(AbsentJob) = 1 /\ Due(Added) = 1
  BY DEF Due, AbsentJob, Added
<1>3. q.state = "waiting" => Due(q) = 1 /\ Due(Taken(q, w)) = 0
  <2>1. Taken(q, w).holder = w
    BY DEF Taken, QueuedJob
  <2>2. QED
    BY <2>1, JobQueueAssumption DEF Sound, Due
<1>4. Due(IfHeld(q, w, Completed(q))) <= Due(q)
  <2>1. Completed(q).state = "over"
    BY DEF Completed, QueuedJob
  <2>2. CASE q.holder = w
    BY <1>1, <2>1, <2>2 DEF Due, IfHeld
  <2>3. CASE q.holder # w
    BY <1>1, <2>3 DEF IfHeld
  <2>4. QED
    BY <2>2, <2>3
<1>5. \A r : Due(IfHeld(q, w, r)) <= Due(q) + 1
  BY <1>1
<1>6. q.state = "active" /\ q.holder = NoWorker => Due(q) = 1
  BY DEF Due
<1>7. QED
  BY <1>1, <1>2, <1>3, <1>4, <1>5, <1>6

\* At most n runs: said of the finite parts of R, for there may be any number of
\* workers.
AtMost(R, n) == \A S \in SUBSET R : IsFiniteSet(S) => Cardinality(S) <= n

LEMMA AtMostNone ==
  ASSUME NEW R, NEW n, AtMost(R, n)
  PROVE  0 <= n
<1>1. {} \in SUBSET R /\ IsFiniteSet({}) /\ Cardinality({}) = 0
  BY FS_EmptySet
<1>2. QED
  BY <1>1 DEF AtMost

LEMMA AtMostFewer ==
  ASSUME NEW R, NEW T, NEW n \in Int, NEW m \in Int, AtMost(R, n), T \subseteq R, n <= m
  PROVE  AtMost(T, m)
<1> SUFFICES ASSUME NEW S \in SUBSET T, IsFiniteSet(S) PROVE Cardinality(S) <= m
  BY DEF AtMost
<1>1. Cardinality(S) \in Nat
  BY FS_CardinalityType
<1>2. S \in SUBSET R
  OBVIOUS
<1>3. Cardinality(S) <= n
  BY <1>2 DEF AtMost
<1>4. QED
  BY <1>1, <1>3

\* One more, one fewer.
LEMMA AtMostMore ==
  ASSUME NEW R, NEW T, NEW n \in Int, NEW w, AtMost(R, n), T \subseteq R \cup {w}
  PROVE  AtMost(T, n + 1)
<1> SUFFICES ASSUME NEW S \in SUBSET T, IsFiniteSet(S) PROVE Cardinality(S) <= n + 1
  BY DEF AtMost
<1>1. IsFiniteSet(S \ {w}) /\ Cardinality(S) \in Nat
      /\ Cardinality(S \ {w}) = IF w \in S THEN Cardinality(S) - 1 ELSE Cardinality(S)
  BY FS_RemoveElement, FS_CardinalityType
<1>2. S \ {w} \in SUBSET R
  OBVIOUS
<1>3. Cardinality(S \ {w}) <= n
  BY <1>1, <1>2 DEF AtMost
<1>4. QED
  BY <1>1, <1>3

LEMMA AtMostLess ==
  ASSUME NEW R, NEW T, NEW n \in Int, NEW w \in R, AtMost(R, n), T \subseteq R \ {w}
  PROVE  AtMost(T, n - 1)
<1> SUFFICES ASSUME NEW S \in SUBSET T, IsFiniteSet(S) PROVE Cardinality(S) <= n - 1
  BY DEF AtMost
<1>1. IsFiniteSet(S \cup {w}) /\ Cardinality(S) \in Nat /\ w \notin S
      /\ Cardinality(S \cup {w}) = Cardinality(S) + 1
  BY FS_AddElement, FS_CardinalityType
<1>2. S \cup {w} \in SUBSET R
  OBVIOUS
<1>3. Cardinality(S \cup {w}) <= n
  BY <1>1, <1>2 DEF AtMost
<1>4. QED
  BY <1>1, <1>3

=============================================================================
