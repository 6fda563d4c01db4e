------------------------------ MODULE JobQueue ------------------------------
(***************************************************************************)
(* One job of a BullMQ queue, as the workers of apps/worker/src/index.ts   *)
(* use it.  BullMQ promises at-least-once processing: a job is held by one *)
(* worker at a time through a lock that the worker renews; a worker that   *)
(* dies, or whose event loop hangs past the renewal, loses the lock; the   *)
(* job is then stalled and goes back to the queue, while the worker that   *)
(* hung goes on with what it was doing.                                    *)
(*                                                                         *)
(* The library is not part of the repository: attempts is the option given *)
(* where a queue is created, maxStalledCount the one where its worker is.  *)
(***************************************************************************)
EXTENDS Naturals

CONSTANTS
  Worker,      \* jobs a worker process may run at once (its concurrency)
  NoWorker,    \* the holder of a job whose lock has expired
  Attempts,    \* attempts of the queue's defaultJobOptions
  MaxStalls    \* maxStalledCount of the worker

ASSUME JobQueueAssumption ==
  /\ NoWorker \notin Worker
  /\ Attempts \in Nat \ {0}
  /\ MaxStalls \in Nat

QueuedJob == [state  : {"absent", "waiting", "active", "over"},
              made   : 0 .. Attempts,      \* attempts that ended in a throw
              stalls : 0 .. MaxStalls,
              holder : Worker \cup {NoWorker}]

AbsentJob == [state |-> "absent", made |-> 0, stalls |-> 0, holder |-> NoWorker]

Added      == [AbsentJob EXCEPT !.state = "waiting"]
Taken(q, w) == [q EXCEPT !.state = "active", !.holder = w]
Unlocked(q) == [q EXCEPT !.holder = NoWorker]
Completed(q) == [q EXCEPT !.state = "over", !.holder = NoWorker]

\* The processor threw: the job is tried again after its backoff, or given up.
Thrown(q) ==
  [q EXCEPT !.state = IF q.made + 1 < Attempts THEN "waiting" ELSE "over",
            !.made = q.made + 1, !.holder = NoWorker]

\* The stalled check found the lock expired.
Stalled(q) ==
  IF q.stalls < MaxStalls
    THEN [q EXCEPT !.state = "waiting", !.stalls = q.stalls + 1]
    ELSE [q EXCEPT !.state = "over"]

\* What worker w makes of the job counts only while it holds the lock.
IfHeld(q, w, new) == IF q.holder = w THEN new ELSE q

=============================================================================
