------------------------- MODULE AlertDeliveryProofs -------------------------
(***************************************************************************)
(* Theorems about AlertDelivery, for every set of channels, calls and      *)
(* workers, every limit of the queue and any number of mishaps.            *)
(***************************************************************************)
EXTENDS MCAlertDelivery, JobQueueProofs

-----------------------------------------------------------------------------
(* Type correctness *)

\* TypeOK needs to know of the queue that only the holder of a job counts attempts.
TypeInv == TypeOK /\ \A d \in Delivery : Sound(queue[d])

RunStage == {"read", "reject", "start", "send", "deliver", "note", "fail"}

\* A worker that is not idle runs the job of a delivery.
LEMMA Running ==
  ASSUME TypeOK, NEW w \in Worker, worker[w].stage # "idle"
  PROVE  worker[w] \in Run /\ On(w) \in Delivery
<1>1. worker[w] \in Run
  BY DEF TypeOK, Idle
<1>2. QED
  BY <1>1 DEF Run, On

\* A run goes to its next await.
LEMMA GotoType ==
  ASSUME TypeOK, NEW w \in Worker, worker[w].stage # "idle",
         NEW stage \in RunStage, Goto(w, stage)
  PROVE  worker' \in [Worker -> Run \cup {Idle}]
<1>1. [worker[w] EXCEPT !.stage = stage] \in Run
  BY Running DEF Run, RunStage
<1>2. QED
  BY <1>1 DEF Goto, TypeOK

\* A change of one job that keeps it sound keeps the queue sound.
LEMMA QueueType ==
  ASSUME TypeInv, NEW d \in Delivery, NEW q, Sound(q), queue' = [queue EXCEPT ![d] = q]
  PROVE  queue' \in [Delivery -> QueuedJob] /\ \A e \in Delivery : Sound(queue'[e])
<1>1. q \in QueuedJob
  BY DEF Sound
<1>2. QED
  BY <1>1 DEF TypeInv, TypeOK

\* A run ends: it completed, threw, or its worker is gone.
LEMMA LeaveType ==
  ASSUME TypeInv, NEW w \in Worker, worker[w].stage # "idle",
         \/ Leave(w, Completed(queue[On(w)]))
         \/ Leave(w, Thrown(queue[On(w)]))
         \/ LoseLock(w) /\ worker' = [worker EXCEPT ![w] = Idle]
  PROVE  /\ worker' \in [Worker -> Run \cup {Idle}]
         /\ queue' \in [Delivery -> QueuedJob]
         /\ \A d \in Delivery : Sound(queue'[d])
<1>1. On(w) \in Delivery /\ Sound(queue[On(w)])
  BY Running DEF TypeInv
<1>2. worker' = [worker EXCEPT ![w] = Idle]
  BY DEF Leave
<1>3. \E q : Sound(q) /\ queue' = [queue EXCEPT ![On(w)] = q]
  BY <1>1, LeftSound DEF Leave, LoseLock
<1>4. QED
  BY <1>1, <1>2, <1>3, QueueType DEF TypeInv, TypeOK

\* One more mishap, and one more of a counter per delivery.
LEMMA CounterType ==
  /\ \A m \in Mishap : TypeOK /\ GoesWrong(m) => mishaps' \in [Mishap -> Nat]
  /\ \A d \in Delivery : TypeOK /\ Arrive(d) => sent' \in [Delivery -> Nat]
BY DEF TypeOK, GoesWrong, Arrive

\* A dispatcher call goes on.
LEMMA CallType ==
  ASSUME TypeInv, NEW k \in Call, Calling(k) \/ CallDies(k)
  PROVE  TypeInv'
<1> USE DEF CallState, CallStage
<1>r. ASSUME NEW loop \in {"create", "verify"}, NEW todo \in SUBSET Channel,
             Round(k, loop, todo)
      PROVE  call' \in [Call -> CallState]
  BY <1>r DEF Round, TypeInv, TypeOK
<1>h. ASSUME NEW stage \in CallStage, NEW c \in Channel, InHand(k, stage, c)
      PROVE  call' \in [Call -> CallState]
  <2>1. [call[k] EXCEPT !.stage = stage, !.hand = {c}] \in CallState
    BY DEF TypeInv, TypeOK
  <2>2. call' = [call EXCEPT ![k] = [call[k] EXCEPT !.stage = stage, !.hand = {c}]]
    BY <1>h DEF InHand, TypeInv, TypeOK
  <2>3. QED
    BY <2>1, <2>2 DEF TypeInv, TypeOK
<1>t. call[k].todo \in SUBSET Channel /\ call[k].loop \in {"create", "verify"}
  BY DEF TypeInv, TypeOK
<1>1. CASE Dispatch(k)
  <2>1. PICK bound \in SUBSET Channel : Round(k, "create", bound \cap enabled)
    BY <1>1 DEF Dispatch
  <2>2. bound \cap enabled \in SUBSET Channel
    OBVIOUS
  <2>3. QED
    BY <1>1, <2>1, <2>2, <1>r DEF Dispatch, TypeInv, TypeOK
<1>2. CASE DispatchToChannels(k)
  BY <1>2, <1>r DEF DispatchToChannels, TypeInv, TypeOK
<1>3. ASSUME NEW c \in Channel, Verify(k, c) PROVE TypeInv'
  <2>1. call[k].todo \ {c} \in SUBSET Channel
    BY <1>t
  <2>2. call' \in [Call -> CallState]
    BY <1>3, <2>1, <1>r, <1>h DEF Verify
  <2>3. QED
    BY <1>3, <2>2 DEF Verify, TypeInv, TypeOK
<1>4. ASSUME NEW c \in Channel, CreateRow(k, c) PROVE TypeInv'
  <2>1. call' \in [Call -> CallState]
    BY <1>4, <1>h DEF CreateRow
  <2>2. row' \in [Delivery -> RowStatus]
    BY <1>4 DEF CreateRow, TypeInv, TypeOK, RowStatus
  <2>3. QED
    BY <1>4, <2>1, <2>2 DEF CreateRow, TypeInv, TypeOK
<1>5. ASSUME NEW c \in Channel, Add(k, c) PROVE TypeInv'
  <2>1. call[k].todo \ {c} \in SUBSET Channel
    BY <1>t
  <2>2. call' \in [Call -> CallState]
    BY <1>5, <2>1, <1>t, <1>r DEF Add
  <2>3. <<k, c>> \in Delivery
    BY DEF Delivery
  <2>4. queue' \in [Delivery -> QueuedJob] /\ \A d \in Delivery : Sound(queue'[d])
    BY <1>5, <2>3, NewJobSound, QueueType DEF Add
  <2>5. QED
    BY <1>5, <2>2, <2>4 DEF Add, TypeInv, TypeOK
<1>6. CASE CallDies(k)
  <2>1. [call[k] EXCEPT !.stage = "dead", !.todo = {}, !.hand = {}] \in CallState
    BY DEF TypeInv, TypeOK
  <2>2. call' = [call EXCEPT ![k] = [call[k] EXCEPT !.stage = "dead", !.todo = {},
                                                    !.hand = {}]]
    BY <1>6 DEF CallDies, TypeInv, TypeOK
  <2>3. call' \in [Call -> CallState]
    BY <2>1, <2>2 DEF TypeInv, TypeOK
  <2>4. mishaps' \in [Mishap -> Nat]
    BY <1>6, CounterType DEF CallDies, TypeInv, Mishap
  <2>5. QED
    BY <1>6, <2>3, <2>4 DEF CallDies, TypeInv, TypeOK
<1>7. QED
  BY <1>1, <1>2, <1>3, <1>4, <1>5, <1>6 DEF Calling

\* A run of the processor makes its next await.
LEMMA ProcessType ==
  ASSUME TypeInv, NEW w \in Worker, Process(w) \/ DatabaseFails(w)
  PROVE  TypeInv'
<1> worker[w].stage # "idle"
  BY DEF Process, DatabaseFails, Read, Reject, Start, Send, Deliver, Note, GiveUp, At
<1> On(w) \in Delivery
  BY Running DEF TypeInv
<1>g. ASSUME NEW stage \in RunStage, Goto(w, stage)
      PROVE  worker' \in [Worker -> Run \cup {Idle}]
  BY <1>g, GotoType DEF TypeInv
<1>s. ASSUME NEW new \in RowStatus, row' = [row EXCEPT ![On(w)] = new]
      PROVE  row' \in [Delivery -> RowStatus]
  BY <1>s DEF TypeInv, TypeOK
<1>1. CASE Read(w)
  <2>1. CASE row[On(w)] = "DELIVERED"
    BY <1>1, <2>1, LeaveType DEF Read, TypeInv, TypeOK
  <2>2. CASE row[On(w)] # "DELIVERED"
    <3>1. (IF On(w)[2] \in Transportless THEN "reject" ELSE "start") \in RunStage
      BY DEF RunStage
    <3>2. worker' \in [Worker -> Run \cup {Idle}]
      BY <1>1, <2>2, <3>1, <1>g DEF Read
    <3>3. QED
      BY <1>1, <2>2, <3>2 DEF Read, TypeInv, TypeOK
  <2>3. QED
    BY <2>1, <2>2
<1>2. CASE Reject(w)
  BY <1>2, <1>s, LeaveType DEF Reject, TypeInv, TypeOK, RowStatus
<1>3. CASE Start(w)
  BY <1>3, <1>s, <1>g DEF Start, TypeInv, TypeOK, RowStatus, RunStage
<1>4. CASE Send(w)
  <2>1. worker' \in [Worker -> Run \cup {Idle}]
    BY <1>4, <1>g DEF Send, RunStage
  <2>2. sent' \in [Delivery -> Nat] /\ mishaps' \in [Mishap -> Nat]
    BY <1>4, CounterType DEF Send, TypeInv, TypeOK, Mishap
  <2>3. QED
    BY <1>4, <2>1, <2>2 DEF Send, TypeInv, TypeOK
<1>5. CASE Deliver(w)
  BY <1>5, <1>s, <1>g DEF Deliver, TypeInv, TypeOK, RowStatus, RunStage
<1>6. CASE Note(w)
  <2>1. noted' \in [Delivery -> Nat]
    BY <1>6 DEF Note, TypeInv, TypeOK
  <2>2. QED
    BY <1>6, <2>1, LeaveType DEF Note, TypeInv, TypeOK
<1>7. CASE GiveUp(w)
  BY <1>7, <1>s, LeaveType DEF GiveUp, TypeInv, TypeOK, RowStatus
<1>8. CASE DatabaseFails(w)
  <2>1. mishaps' \in [Mishap -> Nat]
    BY <1>8, CounterType DEF DatabaseFails, TypeInv, Mishap
  <2>2. CASE worker[w].stage \in {"deliver", "note"}
    <3>1. worker' \in [Worker -> Run \cup {Idle}]
      BY <1>8, <2>2, <1>g DEF DatabaseFails, RunStage
    <3>2. QED
      BY <1>8, <2>1, <2>2, <3>1 DEF DatabaseFails, TypeInv, TypeOK
  <2>3. CASE worker[w].stage \notin {"deliver", "note"}
    BY <1>8, <2>1, <2>3, LeaveType DEF DatabaseFails, TypeInv, TypeOK
  <2>4. QED
    BY <2>2, <2>3
<1>9. QED
  BY <1>1, <1>2, <1>3, <1>4, <1>5, <1>6, <1>7, <1>8 DEF Process

\* The queue hands a job out, loses a lock, or finds one lost.
LEMMA HandlingType ==
  ASSUME TypeInv
  PROVE  /\ \A w \in Worker, d \in Delivery : Take(w, d) => TypeInv'
         /\ \A w \in Worker : WorkerCrashes(w) \/ WorkerHangs(w) => TypeInv'
         /\ \A d \in Delivery : Recover(d) => TypeInv'
<1>1. ASSUME NEW w \in Worker, NEW d \in Delivery, Take(w, d) PROVE TypeInv'
  <2>1. worker' \in [Worker -> Run \cup {Idle}]
    BY <1>1 DEF Take, TypeInv, TypeOK, Run
  <2>2. Sound(Taken(queue[d], w))
    BY <1>1, TakenSound DEF Take, TypeInv
  <2>3. queue' \in [Delivery -> QueuedJob] /\ \A e \in Delivery : Sound(queue'[e])
    BY <1>1, <2>2, QueueType DEF Take
  <2>4. QED
    BY <1>1, <2>1, <2>3 DEF Take, TypeInv, TypeOK
<1>2. ASSUME NEW w \in Worker, WorkerCrashes(w) PROVE TypeInv'
  <2>1. mishaps' \in [Mishap -> Nat]
    BY <1>2, CounterType DEF WorkerCrashes, TypeInv, Mishap
  <2>2. QED
    BY <1>2, <2>1, LeaveType DEF WorkerCrashes, At, TypeInv, TypeOK
<1>3. ASSUME NEW w \in Worker, WorkerHangs(w) PROVE TypeInv'
  <2>1. mishaps' \in [Mishap -> Nat]
    BY <1>3, CounterType DEF WorkerHangs, TypeInv, Mishap
  <2>2. On(w) \in Delivery
    BY <1>3, Running DEF WorkerHangs, At, TypeInv
  <2>3. Sound(IfHeld(queue[On(w)], w, Unlocked(queue[On(w)])))
    BY <2>2, LeftSound DEF TypeInv
  <2>4. queue' \in [Delivery -> QueuedJob] /\ \A e \in Delivery : Sound(queue'[e])
    BY <1>3, <2>2, <2>3, QueueType DEF WorkerHangs, LoseLock
  <2>5. QED
    BY <1>3, <2>1, <2>4 DEF WorkerHangs, TypeInv, TypeOK
<1>4. ASSUME NEW d \in Delivery, Recover(d) PROVE TypeInv'
  <2>1. Sound(Stalled(queue[d]))
    BY <1>4, StalledSound DEF Recover, TypeInv
  <2>2. queue' \in [Delivery -> QueuedJob] /\ \A e \in Delivery : Sound(queue'[e])
    BY <1>4, <2>1, QueueType DEF Recover
  <2>3. QED
    BY <1>4, <2>2 DEF Recover, TypeInv, TypeOK
<1>5. QED
  BY <1>1, <1>2, <1>3, <1>4

LEMMA TypeInvInit == Init => TypeInv
<1> SUFFICES ASSUME Init PROVE TypeInv
  OBVIOUS
<1>1. call \in [Call -> CallState]
  BY DEF Init, CallState, CallStage
<1>2. queue \in [Delivery -> QueuedJob] /\ \A d \in Delivery : Sound(queue[d])
  BY NewJobSound DEF Init, Sound
<1>3. row \in [Delivery -> RowStatus]
  BY DEF Init, RowStatus
<1>4. QED
  BY <1>1, <1>2, <1>3 DEF Init, TypeInv, TypeOK

LEMMA TypeInvNext == TypeInv /\ [Next]_vars => TypeInv'
<1> SUFFICES ASSUME TypeInv, [Next]_vars PROVE TypeInv'
  OBVIOUS
<1>1. ASSUME NEW c \in Channel, Toggle(c) PROVE TypeInv'
  BY <1>1 DEF Toggle, TypeInv, TypeOK
<1>2. CASE UNCHANGED vars
  BY <1>2 DEF vars, TypeInv, TypeOK
<1>3. QED
  BY <1>1, <1>2, CallType, ProcessType, HandlingType DEF Next

\* Rows, jobs, runs and counters keep to their values; in particular a job is never
\* attempted more often than its queue allows (createAlertQueue).
THEOREM TypeInvariance == Spec => []TypeInv
BY TypeInvInit, TypeInvNext, PTL DEF Spec

THEOREM TypeCorrect == Spec => []TypeOK
BY TypeInvariance, PTL DEF TypeInv

-----------------------------------------------------------------------------
(* The row and the timeline tell the truth *)

\* A run that is about to record a success has seen its message arrive.
SentInv ==
  /\ HonestRow
  /\ \A w \in Worker : worker[w].stage \in {"deliver", "note"} => sent[On(w)] > 0

\* Runs move one at a time.
LEMMA GotoAt ==
  ASSUME TypeOK, NEW w \in Worker, worker[w].stage # "idle", NEW stage, Goto(w, stage)
  PROVE  /\ \A v \in Worker \ {w} : worker'[v] = worker[v]
         /\ worker'[w].stage = stage /\ worker'[w].on = worker[w].on
BY Running DEF Goto, TypeOK, Run

LEMMA LeaveAt ==
  ASSUME TypeOK, NEW w \in Worker, worker' = [worker EXCEPT ![w] = Idle]
  PROVE  /\ \A v \in Worker \ {w} : worker'[v] = worker[v]
         /\ worker'[w].stage = "idle"
BY DEF TypeOK, Idle

\* Messages that arrived stay so: a step that neither writes DELIVERED nor adds to
\* the timeline, and leads no run to where it would, keeps the invariant.
LEMMA SentInvQuiet ==
  ASSUME TypeOK, SentInv,
         sent' = sent, noted' = noted,
         \A d \in Delivery : row'[d] = "DELIVERED" => row[d] = "DELIVERED",
         \A w \in Worker : worker'[w].stage \in {"deliver", "note"}
                             => worker'[w] = worker[w]
  PROVE  SentInv'
BY DEF SentInv, HonestRow, On

LEMMA SentInvNext == TypeOK /\ SentInv /\ [Next]_vars => SentInv'
<1> SUFFICES ASSUME TypeOK, SentInv, [Next]_vars PROVE SentInv'
  OBVIOUS
<1>1. ASSUME NEW k \in Call, Calling(k) \/ CallDies(k) PROVE SentInv'
  <2>1. \A d \in Delivery : row'[d] = "DELIVERED" => row[d] = "DELIVERED"
    BY <1>1 DEF Calling, CallDies, Dispatch, DispatchToChannels, Verify, CreateRow, Add,
                TypeOK
  <2>2. UNCHANGED <<sent, noted, worker>>
    BY <1>1 DEF Calling, CallDies, Dispatch, DispatchToChannels, Verify, CreateRow, Add
  <2>3. QED
    BY <2>1, <2>2, SentInvQuiet
<1>2. ASSUME NEW w \in Worker, NEW d \in Delivery, Take(w, d) PROVE SentInv'
  <2>1. \A v \in Worker : worker'[v].stage \in {"deliver", "note"} => worker'[v] = worker[v]
    BY <1>2 DEF Take, TypeOK
  <2>2. QED
    BY <1>2, <2>1, SentInvQuiet DEF Take
<1>3. ASSUME NEW w \in Worker,
             Read(w) \/ Reject(w) \/ Start(w) \/ GiveUp(w) \/ DatabaseFails(w)
      PROVE  SentInv'
  <2>1. worker[w].stage # "idle"
    BY <1>3 DEF Read, Reject, Start, GiveUp, DatabaseFails, At
  <2>2. On(w) \in Delivery
    BY <2>1, Running
  <2>3. \A d \in Delivery : row'[d] = "DELIVERED" => row[d] = "DELIVERED"
    BY <1>3, <2>2 DEF Read, Reject, Start, GiveUp, DatabaseFails, TypeOK
  <2>4. \/ worker' = [worker EXCEPT ![w] = Idle]
        \/ \E stage \in {"reject", "start", "send", "fail"} : Goto(w, stage)
    BY <1>3 DEF Read, Reject, Start, GiveUp, DatabaseFails, Leave
  <2>5. \A v \in Worker : worker'[v].stage \in {"deliver", "note"} => worker'[v] = worker[v]
    BY <2>1, <2>4, GotoAt, LeaveAt
  <2>6. QED
    BY <1>3, <2>3, <2>5, SentInvQuiet DEF Read, Reject, Start, GiveUp, DatabaseFails
<1>4. ASSUME NEW w \in Worker, Send(w) PROVE SentInv'
  <2>1. worker[w].stage # "idle" /\ On(w) \in Delivery
    BY <1>4, Running DEF Send, At
  <2>2. \A d \in Delivery : sent[d] > 0 => sent'[d] > 0
    BY <1>4 DEF Send, Arrive, TypeOK
  <2>3. \A v \in Worker \ {w} : worker'[v] = worker[v]
    BY <1>4, <2>1, GotoAt DEF Send
  <2>4. worker'[w].stage \in {"deliver", "note"} => sent'[worker'[w].on] > 0
    <3>1. ASSUME worker'[w].stage \in {"deliver", "note"} PROVE Arrive(On(w))
      BY <1>4, <3>1, <2>1, GotoAt DEF Send
    <3>2. Arrive(On(w)) => sent'[On(w)] > 0
      BY <2>1 DEF Arrive, TypeOK
    <3>3. worker'[w].on = On(w)
      BY <1>4, <2>1, GotoAt DEF Send, On
    <3>4. QED
      BY <3>1, <3>2, <3>3
  <2>5. \A v \in Worker \ {w} : worker[v].stage \in {"deliver", "note"} => On(v) \in Delivery
    BY Running
  <2>6. row' = row /\ noted' = noted
    BY <1>4 DEF Send
  <2>7. QED
    BY <2>2, <2>3, <2>4, <2>5, <2>6 DEF SentInv, HonestRow, On
<1>5. ASSUME NEW w \in Worker, Deliver(w) \/ Note(w) PROVE SentInv'
  <2>1. worker[w].stage \in {"deliver", "note"} /\ On(w) \in Delivery /\ sent[On(w)] > 0
    BY <1>5, Running DEF Deliver, Note, At, SentInv
  <2>2. \A d \in Delivery \ {On(w)} : row'[d] = row[d] /\ noted'[d] = noted[d]
    BY <1>5 DEF Deliver, Note, TypeOK
  <2>3. sent' = sent
    BY <1>5 DEF Deliver, Note
  <2>4. HonestRow'
    BY <2>1, <2>2, <2>3 DEF SentInv, HonestRow
  <2>5. \A v \in Worker \ {w} : worker'[v] = worker[v]
    BY <1>5, <2>1, GotoAt, LeaveAt DEF Deliver, Note, Leave
  <2>6. worker'[w].stage \in {"deliver", "note"} => worker'[w].on = worker[w].on
    BY <1>5, <2>1, GotoAt, LeaveAt DEF Deliver, Note, Leave
  <2>7. QED
    BY <2>1, <2>3, <2>4, <2>5, <2>6 DEF SentInv, On
<1>6. ASSUME NEW w \in Worker, WorkerCrashes(w) \/ WorkerHangs(w) PROVE SentInv'
  <2>1. \A v \in Worker : worker'[v].stage \in {"deliver", "note"} => worker'[v] = worker[v]
    BY <1>6, LeaveAt DEF WorkerCrashes, WorkerHangs
  <2>2. QED
    BY <1>6, <2>1, SentInvQuiet DEF WorkerCrashes, WorkerHangs
<1>7. ASSUME NEW d \in Delivery, Recover(d) PROVE SentInv'
  BY <1>7, SentInvQuiet DEF Recover
<1>8. ASSUME NEW c \in Channel, Toggle(c) PROVE SentInv'
  BY <1>8, SentInvQuiet DEF Toggle
<1>9. CASE UNCHANGED vars
  BY <1>9, SentInvQuiet DEF vars
<1>10. QED
  BY <1>1, <1>2, <1>3, <1>4, <1>5, <1>6, <1>7, <1>8, <1>9 DEF Next, Process

\* No alert is marked DELIVERED or listed on the timeline that did not arrive,
\* whatever fails and however often (createAlertProcessor).
THEOREM Honest == Spec => []HonestRow
<1>1. Init => SentInv
  BY DEF Init, SentInv, HonestRow, Idle
<1>2. SentInv => HonestRow
  BY DEF SentInv
<1>3. QED
  BY <1>1, <1>2, SentInvNext, TypeCorrect, PTL DEF Spec

-----------------------------------------------------------------------------
(* A delivered row survives every crash *)

\* A call has not queued yet what it still has to do; and nothing is delivered, or
\* run, before it is queued.
CallInv ==
  /\ \A k \in Call : call[k].hand \subseteq call[k].todo
  /\ \A k \in Call, c \in Channel :
       call[k].stage = "unused" \/ c \in call[k].todo => queue[<<k, c>>].state = "absent"
  /\ \A w \in Worker : worker[w].stage # "idle" => queue[On(w)].state # "absent"
  /\ \A d \in Delivery : row[d] = "DELIVERED" => queue[d].state # "absent"

\* The processor changes no job that is absent, and takes none back to it.
KeepsAbsent == \A d \in Delivery : queue'[d].state = "absent" <=> queue[d].state = "absent"

LEMMA ChangeKeepsAbsent ==
  ASSUME TypeInv, NEW d \in Delivery, NEW q, queue' = [queue EXCEPT ![d] = q],
         queue[d].state # "absent", q.state # "absent"
  PROVE  KeepsAbsent
BY DEF KeepsAbsent, TypeInv, TypeOK

\* What becomes of a job leaves it present.
LEMMA Present ==
  ASSUME NEW q \in QueuedJob, NEW w, q.state # "absent"
  PROVE  /\ Taken(q, w).state # "absent"
         /\ Stalled(q).state # "absent"
         /\ IfHeld(q, w, Completed(q)).state # "absent"
         /\ IfHeld(q, w, Thrown(q)).state # "absent"
         /\ IfHeld(q, w, Unlocked(q)).state # "absent"
<1>1. Taken(q, w).state # "absent"
  BY DEF Taken, QueuedJob
<1>2. Stalled(q).state # "absent"
  <2>1. CASE q.stalls < MaxStalls
    BY <2>1 DEF Stalled, QueuedJob
  <2>2. CASE ~(q.stalls < MaxStalls)
    BY <2>2 DEF Stalled, QueuedJob
  <2>3. QED
    BY <2>1, <2>2
<1>3. Completed(q).state # "absent" /\ Unlocked(q).state # "absent"
  BY DEF Completed, Unlocked, QueuedJob
<1>4. Thrown(q).state # "absent"
  BY DEF Thrown, QueuedJob
<1>5. QED
  BY <1>1, <1>2, <1>3, <1>4 DEF IfHeld

\* The steps of the queue and its workers, as far as CallInv sees them.
LEMMA WorkersKeepAbsent ==
  ASSUME TypeInv, CallInv
  PROVE  /\ \A w \in Worker, d \in Delivery : Take(w, d) => KeepsAbsent
         /\ \A w \in Worker :
              \/ Process(w) \/ DatabaseFails(w) \/ WorkerCrashes(w) \/ WorkerHangs(w)
              => KeepsAbsent
         /\ \A d \in Delivery : Recover(d) => KeepsAbsent
<1>1. ASSUME NEW w \in Worker, NEW d \in Delivery, Take(w, d) PROVE KeepsAbsent
  BY <1>1, Present, ChangeKeepsAbsent DEF Take, TypeInv, TypeOK
<1>2. ASSUME NEW w \in Worker,
             Process(w) \/ DatabaseFails(w) \/ WorkerCrashes(w) \/ WorkerHangs(w)
      PROVE  KeepsAbsent
  <2>1. worker[w].stage # "idle"
    BY <1>2 DEF Process, Read, Reject, Start, Send, Deliver, Note, GiveUp, DatabaseFails,
                WorkerCrashes, WorkerHangs, At
  <2>2. /\ On(w) \in Delivery
        /\ queue[On(w)] \in QueuedJob
        /\ queue[On(w)].state # "absent"
    BY <2>1, Running DEF CallInv, TypeInv, TypeOK
  <2>3. \/ UNCHANGED queue
        \/ Leave(w, Completed(queue[On(w)]))
        \/ Leave(w, Thrown(queue[On(w)]))
        \/ LoseLock(w)
    BY <1>2 DEF Process, Read, Reject, Start, Send, Deliver, Note, GiveUp, DatabaseFails,
                WorkerCrashes, WorkerHangs
  <2>4. CASE UNCHANGED queue
    BY <2>4 DEF KeepsAbsent
  <2>5. CASE ~UNCHANGED queue
    BY <2>2, <2>3, <2>5, Present, ChangeKeepsAbsent DEF Leave, LoseLock
  <2>6. QED
    BY <2>4, <2>5
<1>3. ASSUME NEW d \in Delivery, Recover(d) PROVE KeepsAbsent
  BY <1>3, Present, ChangeKeepsAbsent DEF Recover, TypeInv, TypeOK
<1>4. QED
  BY <1>1, <1>2, <1>3

LEMMA CallInvCalls ==
  ASSUME TypeInv, CallInv, NEW k \in Call, Calling(k) \/ CallDies(k)
  PROVE  CallInv'
<1> DEFINE Claims(m) == /\ call'[m].hand \subseteq call'[m].todo
                        /\ \A c \in Channel :
                             call'[m].stage = "unused" \/ c \in call'[m].todo
                               => queue'[<<m, c>>].state = "absent"
           Rest == /\ \A w \in Worker : worker'[w].stage # "idle"
                                          => queue'[On(w)'].state # "absent"
                   /\ \A d \in Delivery : row'[d] = "DELIVERED" => queue'[d].state # "absent"
<1>0. \A m \in Call : call[m] \in CallState
  BY DEF TypeInv, TypeOK
<1>1. \A m \in Call \ {k} : call'[m] = call[m]
  BY DEF Calling, CallDies, Dispatch, DispatchToChannels, Verify, CreateRow, Add, Round,
         InHand, TypeInv, TypeOK
<1>2. CASE \E c \in Channel : Add(k, c)
  <2>1. PICK c \in Channel : Add(k, c)
    BY <1>2
  <2>2. <<k, c>> \in Delivery
    BY DEF Delivery
  <2>3. queue' = [queue EXCEPT ![<<k, c>>] = Added] /\ c \in call[k].hand
    BY <2>1 DEF Add
  <2>4. queue[<<k, c>>].state = "absent" /\ Added.state = "waiting"
    BY <2>3 DEF CallInv, Added, AbsentJob
  <2>5. /\ \A d \in Delivery \ {<<k, c>>} : queue'[d] = queue[d]
        /\ queue'[<<k, c>>].state = "waiting"
    BY <2>2, <2>3, <2>4 DEF TypeInv, TypeOK
  <2>6. call'[k] = [stage |-> call[k].loop, loop |-> call[k].loop,
                    todo |-> call[k].todo \ {c}, hand |-> call[k].todo \ {c}]
    BY <2>1 DEF Add, Round, TypeInv, TypeOK
  <2>7. call'[k].stage # "unused"
    BY <2>6, <1>0 DEF CallState
  <2>8. Claims(k)
    BY <2>5, <2>6, <2>7 DEF CallInv, Delivery
  <2>9. \A m \in Call \ {k} : Claims(m)
    BY <1>1, <2>5 DEF CallInv, Delivery
  <2>10. worker' = worker /\ row' = row
    BY <2>1 DEF Add
  <2>11. \A w \in Worker : worker[w].stage # "idle" => On(w) \in Delivery
    BY Running DEF TypeInv
  <2>12. Rest
    BY <2>5, <2>10, <2>11 DEF CallInv, On
  <2>13. QED
    BY <2>8, <2>9, <2>12 DEF CallInv
<1>3. CASE ~\E c \in Channel : Add(k, c)
  <2>1. UNCHANGED <<queue, worker>>
    BY <1>3 DEF Calling, CallDies, Dispatch, DispatchToChannels, Verify, CreateRow
  <2>2. Rest
    <3>1. \A d \in Delivery : row'[d] = "DELIVERED" => row[d] = "DELIVERED"
      BY <1>3 DEF Calling, CallDies, Dispatch, DispatchToChannels, Verify, CreateRow,
                  TypeInv, TypeOK
    <3>2. QED
      BY <2>1, <3>1 DEF CallInv, On
  <2> DEFINE Moved == /\ call'[k].hand \subseteq call'[k].todo
                      /\ call'[k].stage # "unused"
                      /\ call[k].stage # "unused" => call'[k].todo \subseteq call[k].todo
                      /\ call'[k].todo \subseteq Channel
  <2>3. Moved
    <3>1. CASE Dispatch(k) \/ DispatchToChannels(k)
      BY <3>1 DEF Dispatch, DispatchToChannels, Round, TypeInv, TypeOK, CallState
    <3>2. ASSUME NEW c \in Channel, Verify(k, c) PROVE Moved
      BY <3>2, <1>0 DEF Verify, Round, InHand, TypeInv, TypeOK, CallState
    <3>3. ASSUME NEW c \in Channel, CreateRow(k, c)
          PROVE  Moved
      BY <3>3, <1>0 DEF CreateRow, InHand, TypeInv, TypeOK, CallState, CallInv
    <3>4. CASE CallDies(k)
      BY <3>4, <1>0 DEF CallDies, TypeInv, TypeOK, CallState
    <3>5. QED
      BY <1>3, <3>1, <3>2, <3>3, <3>4 DEF Calling
  <2>4. Claims(k)
    BY <2>1, <2>3 DEF CallInv
  <2>5. \A m \in Call \ {k} : Claims(m)
    BY <1>1, <2>1 DEF CallInv
  <2>6. QED
    BY <2>2, <2>4, <2>5 DEF CallInv
<1>4. QED
  BY <1>2, <1>3

\* Where a row becomes DELIVERED, and whom a run works for.
LEMMA WorkerMoves ==
  ASSUME TypeInv, CallInv, NEW w \in Worker,
         \/ Process(w) \/ DatabaseFails(w) \/ WorkerCrashes(w) \/ WorkerHangs(w)
  PROVE  /\ worker[w].stage # "idle"
         /\ \A v \in Worker \ {w} : worker'[v] = worker[v]
         /\ worker'[w].stage # "idle" => worker'[w].on = worker[w].on
         /\ \A d \in Delivery \ {On(w)} : row'[d] = row[d] /\ queue'[d] = queue[d]
         /\ call' = call
<1>1. worker[w].stage # "idle"
  BY DEF Process, Read, Reject, Start, Send, Deliver, Note, GiveUp, DatabaseFails,
         WorkerCrashes, WorkerHangs, At
<1>2. \/ UNCHANGED worker
      \/ worker' = [worker EXCEPT ![w] = Idle]
      \/ \E stage \in RunStage : Goto(w, stage)
  <2>1. CASE Read(w)
    BY <2>1 DEF Read, RunStage, Leave
  <2>2. CASE ~Read(w)
    BY <2>2 DEF Process, Reject, Start, Send, Deliver, Note, GiveUp, DatabaseFails,
                WorkerCrashes, WorkerHangs, RunStage, Leave
  <2>3. QED
    BY <2>1, <2>2
<1>3. \A d \in Delivery \ {On(w)} : row'[d] = row[d] /\ queue'[d] = queue[d]
  BY DEF Process, Read, Reject, Start, Send, Deliver, Note, GiveUp, DatabaseFails,
         WorkerCrashes, WorkerHangs, Leave, LoseLock, TypeInv, TypeOK
<1>4. call' = call
  BY DEF Process, Read, Reject, Start, Send, Deliver, Note, GiveUp, DatabaseFails,
         WorkerCrashes, WorkerHangs
<1>5. /\ \A v \in Worker \ {w} : worker'[v] = worker[v]
      /\ worker'[w].stage # "idle" => worker'[w].on = worker[w].on
  BY <1>1, <1>2, GotoAt, LeaveAt DEF TypeInv
<1>6. QED
  BY <1>1, <1>3, <1>4, <1>5

LEMMA CallInvNext == TypeInv /\ CallInv /\ [Next]_vars => CallInv'
<1> SUFFICES ASSUME TypeInv, CallInv, [Next]_vars PROVE CallInv'
  OBVIOUS
<1>0. \A w \in Worker : worker[w].stage # "idle" => On(w) \in Delivery
  BY Running DEF TypeInv
<1>1. ASSUME NEW w \in Worker,
             \/ Process(w) \/ DatabaseFails(w) \/ WorkerCrashes(w) \/ WorkerHangs(w)
      PROVE  CallInv'
  <2>1. KeepsAbsent
    BY <1>1, WorkersKeepAbsent
  <2>2. call' = call
    BY <1>1, WorkerMoves
  <2>3. \A v \in Worker : worker'[v].stage # "idle" => queue'[worker'[v].on].state # "absent"
    BY <1>0, <1>1, <2>1, WorkerMoves DEF KeepsAbsent, CallInv, On
  <2>4. \A d \in Delivery : row'[d] = "DELIVERED" => queue'[d].state # "absent"
    BY <1>0, <1>1, <2>1, WorkerMoves DEF KeepsAbsent, CallInv
  <2>5. QED
    BY <2>1, <2>2, <2>3, <2>4 DEF CallInv, KeepsAbsent, Delivery, On
<1>2. ASSUME NEW w \in Worker, NEW d \in Delivery, Take(w, d) PROVE CallInv'
  <2>1. KeepsAbsent
    BY <1>2, WorkersKeepAbsent
  <2>2. \A v \in Worker : worker'[v].stage # "idle" => queue'[worker'[v].on].state # "absent"
    BY <1>0, <1>2, <2>1 DEF Take, KeepsAbsent, CallInv, On, TypeInv, TypeOK
  <2>3. QED
    BY <1>2, <2>1, <2>2 DEF CallInv, KeepsAbsent, Delivery, Take, On
<1>3. ASSUME NEW d \in Delivery, Recover(d) PROVE CallInv'
  <2>1. KeepsAbsent
    BY <1>3, WorkersKeepAbsent
  <2>2. QED
    BY <1>0, <1>3, <2>1 DEF CallInv, KeepsAbsent, Delivery, Recover, On
<1>4. ASSUME NEW c \in Channel, Toggle(c) PROVE CallInv'
  BY <1>4 DEF Toggle, CallInv, On
<1>5. CASE UNCHANGED vars
  BY <1>5 DEF vars, CallInv, On
<1>6. QED
  BY <1>1, <1>2, <1>3, <1>4, <1>5, CallInvCalls DEF Next

\* As long as workers only crash, each run holds the lock of its job, and a run that
\* may still write the row has not seen it delivered.
CrashInv ==
  OnlyCrashes =>
    \A w \in Worker :
      /\ worker[w].stage # "idle" => queue[On(w)].holder = w
      /\ worker[w].stage \in {"reject", "start", "send", "deliver", "fail"}
           => row[On(w)] # "DELIVERED"

\* Nothing makes up for a mishap; a hang and a failing statement are no crash.
LEMMA MishapsStay ==
  ASSUME TypeOK, [Next]_vars, OnlyCrashes'
  PROVE  /\ OnlyCrashes
         /\ \A w \in Worker : ~DatabaseFails(w) /\ ~WorkerHangs(w)
<1>1. ASSUME NEW m \in Mishap, GoesWrong(m)
      PROVE  OnlyCrashes /\ m \notin {"database", "lock"}
  BY <1>1 DEF GoesWrong, OnlyCrashes, TypeOK, Mishap
<1> DEFINE Counted == mishaps' = mishaps \/ \E m \in Mishap : GoesWrong(m)
<1>2. Counted
  <2>1. ASSUME NEW k \in Call, Calling(k) \/ CallDies(k) PROVE Counted
    BY <2>1 DEF Calling, CallDies, Dispatch, DispatchToChannels, Verify, CreateRow, Add,
                Mishap
  <2>2. ASSUME NEW w \in Worker,
               \/ Process(w) \/ DatabaseFails(w) \/ WorkerCrashes(w) \/ WorkerHangs(w)
        PROVE  Counted
    BY <2>2 DEF Process, Read, Reject, Start, Send, Deliver, Note, GiveUp, DatabaseFails,
                WorkerCrashes, WorkerHangs, Mishap
  <2>3. QED
    BY <2>1, <2>2 DEF Next, Take, Recover, Toggle, vars
<1>3. OnlyCrashes
  BY <1>1, <1>2 DEF OnlyCrashes
<1>4. \A w \in Worker : ~DatabaseFails(w) /\ ~WorkerHangs(w)
  BY <1>1 DEF DatabaseFails, WorkerHangs, Mishap
<1>5. QED
  BY <1>3, <1>4

\* Then no two runs work for the same delivery.
LEMMA Alone ==
  ASSUME CrashInv, OnlyCrashes, NEW v \in Worker, NEW w \in Worker, v # w,
         worker[v].stage # "idle", worker[w].stage # "idle"
  PROVE  On(v) # On(w)
BY DEF CrashInv

\* A run of the processor writes the row only while it is not DELIVERED.
LEMMA WritesUndelivered ==
  ASSUME TypeInv, CrashInv, OnlyCrashes, NEW w \in Worker, Process(w) \/ WorkerCrashes(w)
  PROVE  row[On(w)] = "DELIVERED" => row'[On(w)] = "DELIVERED"
<1>1. worker[w].stage # "idle"
  BY DEF Process, Read, Reject, Start, Send, Deliver, Note, GiveUp, WorkerCrashes, At
<1>2. On(w) \in Delivery
  BY <1>1, Running DEF TypeInv
<1>3. CASE Reject(w) \/ Start(w) \/ GiveUp(w)
  BY <1>3 DEF Reject, Start, GiveUp, At, CrashInv
<1>4. CASE Deliver(w)
  BY <1>2, <1>4 DEF Deliver, TypeInv, TypeOK
<1>5. CASE Read(w) \/ Send(w) \/ Note(w) \/ WorkerCrashes(w)
  BY <1>5 DEF Read, Send, Note, WorkerCrashes
<1>6. QED
  BY <1>3, <1>4, <1>5 DEF Process

\* The same run, seen from its own job.
LEMMA CrashInvRun ==
  ASSUME TypeInv, CallInv, CrashInv, OnlyCrashes, NEW w \in Worker,
         Process(w) \/ WorkerCrashes(w)
  PROVE  /\ worker'[w].stage # "idle" => queue'[On(w)].holder = w
         /\ worker'[w].stage \in {"reject", "start", "send", "deliver", "fail"}
              => row'[On(w)] # "DELIVERED"
<1>1. worker[w].stage # "idle" /\ On(w) \in Delivery /\ queue[On(w)].holder = w
  <2>1. worker[w].stage # "idle"
    BY DEF Process, Read, Reject, Start, Send, Deliver, Note, GiveUp, WorkerCrashes, At
  <2>2. QED
    BY <2>1, Running DEF CrashInv, TypeInv
<1>2. worker' = [worker EXCEPT ![w] = Idle] => worker'[w].stage = "idle"
  BY LeaveAt DEF TypeInv
<1>3. CASE Read(w)
  <2>1. CASE row[On(w)] = "DELIVERED"
    BY <1>2, <1>3, <2>1 DEF Read, Leave
  <2>2. CASE row[On(w)] # "DELIVERED"
    BY <1>1, <1>3, <2>2 DEF Read
  <2>3. QED
    BY <2>1, <2>2
<1>4. CASE Reject(w) \/ Note(w) \/ GiveUp(w) \/ WorkerCrashes(w)
  BY <1>2, <1>4 DEF Reject, Note, GiveUp, WorkerCrashes, Leave
<1>5. CASE Start(w)
  BY <1>1, <1>5 DEF Start, TypeInv, TypeOK
<1>6. CASE Send(w)
  <2>1. row[On(w)] # "DELIVERED"
    BY <1>6 DEF Send, At, CrashInv
  <2>2. QED
    BY <1>1, <1>6, <2>1 DEF Send
<1>7. CASE Deliver(w)
  <2>1. worker'[w].stage = "note"
    BY <1>1, <1>7, GotoAt DEF Deliver, TypeInv
  <2>2. QED
    BY <1>1, <1>7, <2>1 DEF Deliver
<1>8. QED
  BY <1>3, <1>4, <1>5, <1>6, <1>7 DEF Process

LEMMA CrashInvNext ==
  TypeInv /\ CallInv /\ CrashInv /\ [Next]_vars
    => CrashInv' /\ (OnlyCrashes' => \A d \in Delivery : row[d] = "DELIVERED"
                                                           => row'[d] = "DELIVERED")
<1> SUFFICES ASSUME TypeInv, CallInv, CrashInv, [Next]_vars, OnlyCrashes'
             PROVE  /\ \A w \in Worker :
                         /\ worker'[w].stage # "idle" => queue'[worker'[w].on].holder = w
                         /\ worker'[w].stage
                              \in {"reject", "start", "send", "deliver", "fail"}
                              => row'[worker'[w].on] # "DELIVERED"
                    /\ \A d \in Delivery : row[d] = "DELIVERED" => row'[d] = "DELIVERED"
  BY DEF CrashInv, On
<1> DEFINE Kept(w) == /\ worker'[w].stage # "idle" => queue'[worker'[w].on].holder = w
                      /\ worker'[w].stage
                           \in {"reject", "start", "send", "deliver", "fail"}
                           => row'[worker'[w].on] # "DELIVERED"
           Stays == \A d \in Delivery : row[d] = "DELIVERED" => row'[d] = "DELIVERED"
           Goal == (\A w \in Worker : Kept(w)) /\ Stays
<1>0. /\ OnlyCrashes
      /\ \A w \in Worker : ~DatabaseFails(w) /\ ~WorkerHangs(w)
  BY MishapsStay DEF TypeInv
<1>r. \A w \in Worker : worker[w].stage # "idle" => On(w) \in Delivery
  BY Running DEF TypeInv
<1>w. \A w \in Worker : worker[w].stage # "idle" => queue[On(w)].holder = w
  BY <1>0 DEF CrashInv
<1>o. ASSUME NEW w \in Worker, worker'[w] = worker[w],
             worker[w].stage # "idle" => /\ queue'[On(w)] = queue[On(w)]
                                         /\ row'[On(w)] = "DELIVERED"
                                              => row[On(w)] = "DELIVERED"
      PROVE  Kept(w)
  BY <1>0, <1>o DEF CrashInv, On
<1>1. ASSUME NEW w \in Worker, Process(w) \/ WorkerCrashes(w) PROVE Goal
  <2>1. Stays
    BY <1>0, <1>1, WritesUndelivered, WorkerMoves
  <2>2. Kept(w)
    BY <1>0, <1>1, CrashInvRun, WorkerMoves DEF On
  <2>3. ASSUME NEW v \in Worker \ {w} PROVE Kept(v)
    <3>1. worker[v].stage # "idle" => On(v) \in Delivery \ {On(w)}
      BY <1>0, <1>1, <1>r, Alone, WorkerMoves
    <3>2. QED
      BY <1>1, <1>o, <3>1, WorkerMoves
  <2>4. QED
    BY <2>1, <2>2, <2>3
<1>2. ASSUME NEW w \in Worker, NEW d \in Delivery, Take(w, d) PROVE Goal
  <2>1. Stays
    BY <1>2 DEF Take
  <2>2. /\ queue'[d].holder = w
        /\ \A e \in Delivery \ {d} : queue'[e] = queue[e]
    BY <1>2, TakenSound DEF Take, TypeInv, TypeOK
  <2>3. /\ worker'[w] = [stage |-> "read", on |-> d]
        /\ \A v \in Worker \ {w} : worker'[v] = worker[v]
    BY <1>2 DEF Take, TypeInv, TypeOK
  <2>4. \A v \in Worker : worker[v].stage # "idle" => On(v) # d
    BY <1>2, <1>w, JobQueueAssumption DEF Take, TypeInv, Sound
  <2>5. \A v \in Worker \ {w} : Kept(v)
    BY <1>2, <1>o, <1>r, <2>2, <2>3, <2>4 DEF Take
  <2>6. Kept(w)
    BY <2>2, <2>3
  <2>7. QED
    BY <2>1, <2>5, <2>6
<1>3. ASSUME NEW d \in Delivery, Recover(d) PROVE Goal
  <2>1. \A e \in Delivery \ {d} : queue'[e] = queue[e]
    BY <1>3 DEF Recover, TypeInv, TypeOK
  <2>2. \A v \in Worker : worker[v].stage # "idle" => On(v) # d
    BY <1>3, <1>w, JobQueueAssumption DEF Recover
  <2>3. \A v \in Worker : Kept(v)
    BY <1>3, <1>o, <1>r, <2>1, <2>2 DEF Recover
  <2>4. QED
    BY <1>3, <2>3 DEF Recover
<1>4. ASSUME NEW k \in Call, Calling(k) \/ CallDies(k) PROVE Goal
  <2>1. CASE \E c \in Channel : Add(k, c)
    <3>1. PICK c \in Channel : Add(k, c)
      BY <2>1
    <3>2. \A w \in Worker : worker[w].stage # "idle" => On(w) # <<k, c>>
      BY <3>1 DEF Add, CallInv
    <3>3. \A e \in Delivery \ {<<k, c>>} : queue'[e] = queue[e]
      BY <3>1 DEF Add, TypeInv, TypeOK
    <3>4. \A w \in Worker : Kept(w)
      BY <1>o, <1>r, <3>1, <3>2, <3>3 DEF Add
    <3>5. QED
      BY <3>1, <3>4 DEF Add
  <2>2. CASE \E c \in Channel : CreateRow(k, c)
    <3>1. PICK c \in Channel : CreateRow(k, c)
      BY <2>2
    <3>2. <<k, c>> \in Delivery /\ row[<<k, c>>] # "DELIVERED"
      BY <3>1 DEF CreateRow, CallInv, Delivery
    <3>3. /\ Stays
          /\ \A d \in Delivery : row'[d] = "DELIVERED" => row[d] = "DELIVERED"
      BY <3>1, <3>2 DEF CreateRow, TypeInv, TypeOK
    <3>4. \A w \in Worker : Kept(w)
      BY <1>o, <1>r, <3>1, <3>3 DEF CreateRow
    <3>5. QED
      BY <3>3, <3>4
  <2>3. CASE ~\E c \in Channel : Add(k, c) \/ CreateRow(k, c)
    <3>1. UNCHANGED <<row, queue, worker>>
      BY <1>4, <2>3 DEF Calling, CallDies, Dispatch, DispatchToChannels, Verify
    <3>2. \A w \in Worker : Kept(w)
      BY <1>o, <3>1
    <3>3. QED
      BY <3>1, <3>2
  <2>4. QED
    BY <2>1, <2>2, <2>3
<1>5. CASE UNCHANGED vars \/ \E c \in Channel : Toggle(c)
  <2>1. UNCHANGED <<row, queue, worker>>
    BY <1>5 DEF vars, Toggle
  <2>2. \A w \in Worker : Kept(w)
    BY <1>o, <2>1
  <2>3. QED
    BY <2>1, <2>2
<1>6. QED
  BY <1>0, <1>1, <1>2, <1>3, <1>4, <1>5 DEF Next

\* "Idempotent (skips an already-delivered row)": while workers only crash and answers
\* only get lost, no retry and no stalled run touches a delivered row.
THEOREM DeliveredSurvives == Spec => DeliveredSurvivesCrashes
<1>1. Init => CallInv /\ CrashInv
  BY DEF Init, CallInv, CrashInv, Idle, AbsentJob, Delivery
<1>2. TypeInv /\ CallInv /\ CrashInv /\ [Next]_vars
        => [\A d \in Delivery : row[d] = "DELIVERED" /\ OnlyCrashes'
                                  => row'[d] = "DELIVERED"]_vars
  BY CrashInvNext
<1>3. QED
  BY <1>1, <1>2, CallInvNext, CrashInvNext, TypeInvariance, PTL
  DEF Spec, DeliveredSurvivesCrashes


-----------------------------------------------------------------------------
(* The counts are honest *)

\* The runs of a delivery that may still send its message, or have it sent again by
\* throwing; and those whose message has arrived but is not on the timeline yet.
MaySend(d) ==
  {w \in Worker : /\ worker[w].stage \in {"read", "reject", "start", "send", "fail"}
                  /\ worker[w].on = d}
Unnoted(d) == {w \in Worker : worker[w].stage \in {"deliver", "note"} /\ worker[w].on = d}

\* Each run that has sent accounts for one entry still to come; and what was sent,
\* what may still be and what the queue is due to hand out add up to one for the
\* delivery and one for each thing that went wrong.
CountsInv ==
  \A d \in Delivery :
    /\ AtMost(Unnoted(d), sent[d] - noted[d])
    /\ AtMost(MaySend(d), 1 + RunMishaps - sent[d] - Due(queue[d]))

LEMMA CountsTypes ==
  ASSUME TypeInv
  PROVE  /\ RunMishaps \in Nat
         /\ \A d \in Delivery : sent[d] \in Nat /\ noted[d] \in Nat /\ Due(queue[d]) \in {0, 1}
BY DEF TypeInv, TypeOK, RunMishaps, Mishap, Due

\* Only what goes wrong with a run of the processor counts as its mishap.
LEMMA MishapCounts ==
  ASSUME TypeInv
  PROVE  /\ \A m \in {"crash", "lock", "answer", "database"} :
              GoesWrong(m) => RunMishaps' = RunMishaps + 1
         /\ GoesWrong("dispatch") => RunMishaps' = RunMishaps
<1>1. ASSUME NEW m \in Mishap, GoesWrong(m)
      PROVE  /\ mishaps'[m] = mishaps[m] + 1
             /\ \A o \in Mishap \ {m} : mishaps'[o] = mishaps[o]
             /\ \A o \in Mishap : mishaps[o] \in Nat
  BY <1>1 DEF GoesWrong, TypeInv, TypeOK
<1>2. QED
  BY <1>1 DEF RunMishaps, Mishap

\* Steps that no run makes leave the sums alone.
LEMMA CountsQuiet ==
  ASSUME TypeInv, TypeInv', CountsInv, worker' = worker, sent' = sent, noted' = noted,
         RunMishaps <= RunMishaps',
         \A d \in Delivery : Due(queue'[d]) <= Due(queue[d])
  PROVE  CountsInv'
<1> SUFFICES ASSUME NEW d \in Delivery
             PROVE  /\ AtMost(Unnoted(d)', sent'[d] - noted'[d])
                    /\ AtMost(MaySend(d)', 1 + RunMishaps' - sent'[d] - Due(queue'[d]))
  BY DEF CountsInv
<1>1. Unnoted(d)' = Unnoted(d) /\ MaySend(d)' = MaySend(d)
  BY DEF Unnoted, MaySend
<1>2. /\ RunMishaps \in Nat /\ RunMishaps' \in Nat /\ sent[d] \in Nat
      /\ Due(queue[d]) \in {0, 1} /\ Due(queue'[d]) \in {0, 1}
  BY DEF TypeInv, TypeOK, RunMishaps, Mishap, Due
<1> DEFINE n == 1 + RunMishaps - sent[d] - Due(queue[d])
           m == 1 + RunMishaps' - sent[d] - Due(queue'[d])
<1>3. n \in Int /\ m \in Int /\ n <= m
  BY <1>2
<1>4. AtMost(MaySend(d), n) /\ AtMost(Unnoted(d), sent[d] - noted[d])
  BY DEF CountsInv
<1>5. AtMost(MaySend(d), m)
  <2> HIDE DEF n, m
  <2> QED
    BY <1>3, <1>4, AtMostFewer
<1>6. QED
  BY <1>1, <1>4, <1>5

\* A run of a delivery changes the sums of that one alone: what it becomes of the
\* runs that may send, of the messages and of the job must balance.
LEMMA CountsOwn ==
  ASSUME TypeInv, TypeInv', CountsInv, NEW w \in Worker, NEW d \in Delivery,
         NEW moved \in Int, NEW unnoted \in Int,
         worker[w].on = d, worker[w].stage # "idle",
         \A v \in Worker \ {w} : worker'[v] = worker[v],
         worker'[w].stage # "idle" => worker'[w].on = d,
         \A e \in Delivery \ {d} : /\ queue'[e] = queue[e]
                                   /\ sent'[e] = sent[e] /\ noted'[e] = noted[e],
         AtMost(Unnoted(d)', unnoted), unnoted <= sent'[d] - noted'[d],
         AtMost(MaySend(d)', moved),
         moved <= 1 + RunMishaps' - sent'[d] - Due(queue'[d]),
         RunMishaps <= RunMishaps'
  PROVE  CountsInv'
<1> SUFFICES ASSUME NEW e \in Delivery
             PROVE  /\ AtMost(Unnoted(e)', sent'[e] - noted'[e])
                    /\ AtMost(MaySend(e)', 1 + RunMishaps' - sent'[e] - Due(queue'[e]))
  BY DEF CountsInv
<1>1. /\ RunMishaps \in Nat /\ RunMishaps' \in Nat
      /\ \A f \in Delivery : /\ sent[f] \in Nat /\ noted[f] \in Nat
                             /\ sent'[f] \in Nat /\ noted'[f] \in Nat
                             /\ Due(queue[f]) \in {0, 1} /\ Due(queue'[f]) \in {0, 1}
  BY DEF TypeInv, TypeOK, RunMishaps, Mishap, Due
<1> DEFINE goal == 1 + RunMishaps' - sent'[e] - Due(queue'[e])
           left == sent'[e] - noted'[e]
<1>2. goal \in Int /\ left \in Int
  BY <1>1
<1>3. CASE e = d
  <2>1. moved <= goal /\ unnoted <= left
    BY <1>3
  <2> HIDE DEF goal, left
  <2>2. AtMost(Unnoted(e)', left) /\ AtMost(MaySend(e)', goal)
    BY <1>2, <1>3, <2>1, AtMostFewer
  <2>3. QED
    BY <2>2 DEF goal, left
<1>4. CASE e # d
  <2>1. Unnoted(e)' = Unnoted(e) /\ MaySend(e)' = MaySend(e)
    BY <1>4 DEF Unnoted, MaySend
  <2> DEFINE before == 1 + RunMishaps - sent[e] - Due(queue[e])
  <2>2. before \in Int /\ before <= goal /\ left = sent[e] - noted[e]
    BY <1>1, <1>4
  <2>3. AtMost(MaySend(e), before) /\ AtMost(Unnoted(e), sent[e] - noted[e])
    BY DEF CountsInv
  <2>4. AtMost(MaySend(e), goal)
    <3> HIDE DEF before, goal
    <3> QED
      BY <1>2, <2>2, <2>3, AtMostFewer
  <2>5. QED
    BY <2>1, <2>2, <2>3, <2>4
<1>5. QED
  BY <1>3, <1>4

MayStages == {"read", "reject", "start", "send", "fail"}

\* What the two sets of runs become when one run of the delivery moves.
LEMMA RunSets ==
  ASSUME NEW w \in Worker, NEW d, NEW n \in Int, NEW u \in Int,
         worker[w].on = d, worker[w].stage # "idle",
         \A v \in Worker \ {w} : worker'[v] = worker[v],
         worker'[w].stage # "idle" => worker'[w].on = d,
         AtMost(MaySend(d), n), AtMost(Unnoted(d), u)
  PROVE  /\ worker[w].stage \in MayStages /\ worker'[w].stage \in MayStages
              => AtMost(MaySend(d)', n)
         /\ worker[w].stage \in MayStages /\ worker'[w].stage \notin MayStages
              => AtMost(MaySend(d)', n - 1)
         /\ worker[w].stage \notin MayStages /\ worker'[w].stage \notin MayStages
              => AtMost(MaySend(d)', n)
         /\ AtMost(MaySend(d)', n + 1)
         /\ worker[w].stage \in {"deliver", "note"} \/ worker'[w].stage \notin {"deliver", "note"}
              => AtMost(Unnoted(d)', u)
         /\ worker[w].stage \in {"deliver", "note"} /\ worker'[w].stage \notin {"deliver", "note"}
              => AtMost(Unnoted(d)', u - 1)
         /\ AtMost(Unnoted(d)', u + 1)
<1>1. /\ MaySend(d)' \subseteq MaySend(d) \cup {w}
      /\ Unnoted(d)' \subseteq Unnoted(d) \cup {w}
  BY DEF MaySend, Unnoted
<1>2. /\ worker[w].stage \in MayStages => w \in MaySend(d)
      /\ worker'[w].stage \notin MayStages => w \notin MaySend(d)'
      /\ worker[w].stage \in {"deliver", "note"} => w \in Unnoted(d)
      /\ worker'[w].stage \notin {"deliver", "note"} => w \notin Unnoted(d)'
  BY DEF MaySend, Unnoted, MayStages
<1>3. AtMost(MaySend(d)', n + 1) /\ AtMost(Unnoted(d)', u + 1)
  BY <1>1, AtMostMore
<1>4. /\ MaySend(d)' \subseteq MaySend(d) => AtMost(MaySend(d)', n)
      /\ Unnoted(d)' \subseteq Unnoted(d) => AtMost(Unnoted(d)', u)
  BY AtMostFewer
<1>5. /\ w \in MaySend(d) /\ MaySend(d)' \subseteq MaySend(d) \ {w}
           => AtMost(MaySend(d)', n - 1)
      /\ w \in Unnoted(d) /\ Unnoted(d)' \subseteq Unnoted(d) \ {w}
           => AtMost(Unnoted(d)', u - 1)
  BY AtMostLess
<1>6. QED
  BY <1>1, <1>2, <1>3, <1>4, <1>5

\* What a run makes of the sums of its own delivery.
LEMMA CountsRun ==
  ASSUME TypeInv, TypeInv', CallInv, CountsInv, NEW w \in Worker,
         \/ Process(w) \/ DatabaseFails(w) \/ WorkerCrashes(w) \/ WorkerHangs(w)
  PROVE  CountsInv'
<1>1. worker[w].stage # "idle" /\ On(w) \in Delivery
  <2>1. worker[w].stage # "idle"
    BY DEF Process, Read, Reject, Start, Send, Deliver, Note, GiveUp, DatabaseFails,
           WorkerCrashes, WorkerHangs, At
  <2>2. QED
    BY <2>1, Running DEF TypeInv
<1> SUFFICES ASSUME NEW d \in Delivery, worker[w].on = d PROVE CountsInv'
  BY <1>1 DEF On
<1>2. /\ \A v \in Worker \ {w} : worker'[v] = worker[v]
      /\ worker'[w].stage # "idle" => worker'[w].on = d
      /\ \A e \in Delivery \ {d} : queue'[e] = queue[e]
  BY WorkerMoves DEF On
<1>3. \A e \in Delivery \ {d} : sent'[e] = sent[e] /\ noted'[e] = noted[e]
  BY DEF Process, Read, Reject, Start, Send, Deliver, Note, GiveUp, DatabaseFails,
         WorkerCrashes, WorkerHangs, Arrive, On, TypeInv, TypeOK
<1> DEFINE Bal == 1 + RunMishaps - sent[d] - Due(queue[d])
           Left == sent[d] - noted[d]
<1>4. /\ RunMishaps \in Nat /\ RunMishaps' \in Nat
      /\ sent[d] \in Nat /\ noted[d] \in Nat /\ sent'[d] \in Nat /\ noted'[d] \in Nat
      /\ Due(queue[d]) \in {0, 1} /\ Due(queue'[d]) \in {0, 1}
  BY DEF TypeInv, TypeOK, RunMishaps, Mishap, Due
<1>5. Bal \in Int /\ Left \in Int /\ AtMost(MaySend(d), Bal) /\ AtMost(Unnoted(d), Left)
  BY <1>4 DEF CountsInv
<1>6. /\ worker[w].stage \in MayStages /\ worker'[w].stage \in MayStages
           => AtMost(MaySend(d)', Bal)
      /\ worker[w].stage \in MayStages /\ worker'[w].stage \notin MayStages
           => AtMost(MaySend(d)', Bal - 1)
      /\ worker[w].stage \notin MayStages /\ worker'[w].stage \notin MayStages
           => AtMost(MaySend(d)', Bal)
      /\ AtMost(MaySend(d)', Bal + 1)
      /\ worker[w].stage \in {"deliver", "note"} \/ worker'[w].stage \notin {"deliver", "note"}
           => AtMost(Unnoted(d)', Left)
      /\ worker[w].stage \in {"deliver", "note"} /\ worker'[w].stage \notin {"deliver", "note"}
           => AtMost(Unnoted(d)', Left - 1)
      /\ AtMost(Unnoted(d)', Left + 1)
  <2> HIDE DEF Bal, Left
  <2> QED
    BY <1>1, <1>2, <1>5, RunSets
<1>7. ASSUME NEW moved \in Int, NEW unnoted \in Int,
             AtMost(Unnoted(d)', unnoted), unnoted <= sent'[d] - noted'[d],
             AtMost(MaySend(d)', moved),
             moved <= 1 + RunMishaps' - sent'[d] - Due(queue'[d]),
             RunMishaps <= RunMishaps'
      PROVE  CountsInv'
  BY <1>1, <1>2, <1>3, <1>7, CountsOwn
<1>8. /\ Goto(w, "fail") \/ Goto(w, "send") \/ Goto(w, "reject") \/ Goto(w, "start")
           => worker'[w].stage \in MayStages
      /\ Goto(w, "deliver") => worker'[w].stage = "deliver"
      /\ Goto(w, "note") => worker'[w].stage = "note"
      /\ worker' = [worker EXCEPT ![w] = Idle] => worker'[w].stage = "idle"
  BY <1>1, GotoAt, LeaveAt DEF TypeInv, MayStages
<1>9. /\ Leave(w, Completed(queue[On(w)])) => Due(queue'[d]) <= Due(queue[d])
      /\ Leave(w, Thrown(queue[On(w)])) => Due(queue'[d]) <= Due(queue[d]) + 1
      /\ LoseLock(w) => Due(queue'[d]) <= Due(queue[d]) + 1
  BY <1>4, DueChanges DEF Leave, LoseLock, On, TypeInv, TypeOK
<1>10. ASSUME UNCHANGED mishaps PROVE RunMishaps' = RunMishaps
  BY <1>10 DEF RunMishaps
<1>11. /\ \A m \in {"crash", "lock", "answer", "database"} :
            GoesWrong(m) => RunMishaps' = RunMishaps + 1
  BY MishapCounts
<1> HIDE DEF Bal, Left
<1>a. CASE Read(w)
  <2>1. worker[w].stage = "read" /\ worker[w].stage \in MayStages
    BY <1>a DEF Read, At, MayStages
  <2>2. UNCHANGED <<sent, noted, mishaps>>
    BY <1>a DEF Read
  <2>3. AtMost(MaySend(d)', Bal) /\ AtMost(Unnoted(d)', Left)
         /\ Due(queue'[d]) <= Due(queue[d])
    <3>1. CASE row[On(w)] = "DELIVERED"
      <4>1. worker'[w].stage = "idle" /\ Due(queue'[d]) <= Due(queue[d])
        BY <1>a, <3>1, <1>8, <1>9 DEF Read, Leave
      <4>2. AtMost(MaySend(d)', Bal - 1) /\ AtMost(Unnoted(d)', Left)
        BY <2>1, <4>1, <1>6 DEF MayStages
      <4>3. Bal - 1 \in Int /\ Bal - 1 <= Bal
        BY <1>5
      <4>4. AtMost(MaySend(d)', Bal)
        BY <1>5, <4>2, <4>3, AtMostFewer
      <4>5. QED
        BY <4>1, <4>2, <4>4
    <3>2. CASE row[On(w)] # "DELIVERED"
      BY <1>a, <3>2, <2>1, <1>4, <1>6, <1>8 DEF Read, MayStages
    <3>3. QED
      BY <3>1, <3>2
  <2>4. Bal <= 1 + RunMishaps' - sent'[d] - Due(queue'[d]) /\ Left = sent'[d] - noted'[d]
    BY <2>2, <2>3, <1>4, <1>10 DEF Bal, Left
  <2>5. QED
    BY <2>2, <2>3, <2>4, <1>4, <1>5, <1>7, <1>10
<1>b. CASE Reject(w)
  <2>1. worker[w].stage = "reject" /\ worker'[w].stage = "idle"
        /\ Due(queue'[d]) <= Due(queue[d]) /\ UNCHANGED <<sent, noted, mishaps>>
    BY <1>b, <1>8, <1>9 DEF Reject, At, Leave
  <2>2. AtMost(MaySend(d)', Bal - 1) /\ AtMost(Unnoted(d)', Left)
    BY <2>1, <1>6 DEF MayStages
  <2>3. Bal - 1 <= 1 + RunMishaps' - sent'[d] - Due(queue'[d]) /\ Left = sent'[d] - noted'[d]
    BY <2>1, <1>4, <1>10 DEF Bal, Left
  <2>4. QED
    BY <2>1, <2>2, <2>3, <1>4, <1>5, <1>7, <1>10
<1>c. CASE Start(w)
  <2>1. worker[w].stage = "start" /\ worker'[w].stage \in MayStages
        /\ UNCHANGED <<sent, noted, mishaps, queue>>
    BY <1>c, <1>8 DEF Start, At
  <2>2. AtMost(MaySend(d)', Bal) /\ AtMost(Unnoted(d)', Left)
    BY <2>1, <1>6 DEF MayStages
  <2>3. Bal = 1 + RunMishaps' - sent'[d] - Due(queue'[d]) /\ Left = sent'[d] - noted'[d]
    BY <2>1, <1>4, <1>10 DEF Bal, Left
  <2>4. QED
    BY <2>1, <2>2, <2>3, <1>4, <1>5, <1>7, <1>10
<1>d. CASE Send(w)
  <2>1. worker[w].stage = "send" /\ worker[w].stage \in MayStages
        /\ UNCHANGED <<queue, noted>>
    BY <1>d DEF Send, At, MayStages
  <2>2. Arrive(On(w)) => sent'[d] = sent[d] + 1
    BY DEF Arrive, On, TypeInv, TypeOK
  <2>3. CASE Arrive(On(w)) /\ Goto(w, "deliver") /\ UNCHANGED mishaps
    <3>1. AtMost(MaySend(d)', Bal - 1) /\ AtMost(Unnoted(d)', Left + 1)
      BY <2>1, <2>3, <1>6, <1>8 DEF MayStages
    <3>2. Bal - 1 <= 1 + RunMishaps' - sent'[d] - Due(queue'[d])
          /\ Left + 1 = sent'[d] - noted'[d]
      BY <2>1, <2>2, <2>3, <1>4, <1>10 DEF Bal, Left
    <3>3. QED
      BY <2>3, <3>1, <3>2, <1>4, <1>5, <1>7, <1>10
  <2>4. CASE Goto(w, "fail") /\ UNCHANGED <<sent, mishaps>>
    <3>1. AtMost(MaySend(d)', Bal) /\ AtMost(Unnoted(d)', Left)
      BY <2>1, <2>4, <1>6, <1>8 DEF MayStages
    <3>2. Bal = 1 + RunMishaps' - sent'[d] - Due(queue'[d]) /\ Left = sent'[d] - noted'[d]
      BY <2>1, <2>4, <1>4, <1>10 DEF Bal, Left
    <3>3. QED
      BY <2>4, <3>1, <3>2, <1>4, <1>5, <1>7, <1>10
  <2>5. CASE Arrive(On(w)) /\ Goto(w, "fail") /\ GoesWrong("answer")
    <3>1. AtMost(MaySend(d)', Bal) /\ AtMost(Unnoted(d)', Left)
      BY <2>1, <2>5, <1>6, <1>8 DEF MayStages
    <3>2. RunMishaps' = RunMishaps + 1
      BY <2>5, <1>11
    <3>3. Bal <= 1 + RunMishaps' - sent'[d] - Due(queue'[d]) /\ Left <= sent'[d] - noted'[d]
      BY <2>1, <2>2, <2>5, <3>2, <1>4 DEF Bal, Left
    <3>4. QED
      BY <3>1, <3>2, <3>3, <1>4, <1>5, <1>7
  <2>6. QED
    BY <1>d, <2>3, <2>4, <2>5 DEF Send
<1>e. CASE Deliver(w)
  <2>1. worker[w].stage = "deliver" /\ worker'[w].stage = "note"
        /\ UNCHANGED <<sent, noted, mishaps, queue>>
    BY <1>e, <1>8 DEF Deliver, At
  <2>2. AtMost(MaySend(d)', Bal) /\ AtMost(Unnoted(d)', Left)
    BY <2>1, <1>6 DEF MayStages
  <2>3. Bal = 1 + RunMishaps' - sent'[d] - Due(queue'[d]) /\ Left = sent'[d] - noted'[d]
    BY <2>1, <1>4, <1>10 DEF Bal, Left
  <2>4. QED
    BY <2>1, <2>2, <2>3, <1>4, <1>5, <1>7, <1>10
<1>f. CASE Note(w)
  <2>1. worker[w].stage = "note" /\ worker'[w].stage = "idle"
        /\ Due(queue'[d]) <= Due(queue[d]) /\ UNCHANGED <<sent, mishaps>>
    BY <1>f, <1>8, <1>9 DEF Note, At, Leave
  <2>2. noted'[d] = noted[d] + 1
    BY <1>f DEF Note, On, TypeInv, TypeOK
  <2>3. AtMost(MaySend(d)', Bal) /\ AtMost(Unnoted(d)', Left - 1)
    BY <2>1, <1>6 DEF MayStages
  <2>4. Bal <= 1 + RunMishaps' - sent'[d] - Due(queue'[d]) /\ Left - 1 = sent'[d] - noted'[d]
    BY <2>1, <2>2, <1>4, <1>10 DEF Bal, Left
  <2>5. QED
    BY <2>1, <2>3, <2>4, <1>4, <1>5, <1>7, <1>10
<1>g. CASE GiveUp(w)
  <2>1. worker[w].stage = "fail" /\ worker'[w].stage = "idle"
        /\ Due(queue'[d]) <= Due(queue[d]) + 1 /\ UNCHANGED <<sent, noted, mishaps>>
    BY <1>g, <1>8, <1>9 DEF GiveUp, At, Leave
  <2>2. AtMost(MaySend(d)', Bal - 1) /\ AtMost(Unnoted(d)', Left)
    BY <2>1, <1>6 DEF MayStages
  <2>3. Bal - 1 <= 1 + RunMishaps' - sent'[d] - Due(queue'[d]) /\ Left = sent'[d] - noted'[d]
    BY <2>1, <1>4, <1>10 DEF Bal, Left
  <2>4. QED
    BY <2>1, <2>2, <2>3, <1>4, <1>5, <1>7, <1>10
<1>h. CASE DatabaseFails(w)
  <2>1. RunMishaps' = RunMishaps + 1 /\ UNCHANGED <<sent, noted>>
    BY <1>h, <1>11 DEF DatabaseFails
  <2>2. CASE worker[w].stage \in {"deliver", "note"}
    <3>1. worker'[w].stage \in MayStages /\ UNCHANGED queue
      BY <1>h, <2>2, <1>8 DEF DatabaseFails
    <3>2. AtMost(MaySend(d)', Bal + 1) /\ AtMost(Unnoted(d)', Left - 1)
      BY <2>2, <3>1, <1>6 DEF MayStages
    <3>3. Bal + 1 <= 1 + RunMishaps' - sent'[d] - Due(queue'[d])
          /\ Left - 1 <= sent'[d] - noted'[d]
      BY <2>1, <3>1, <1>4 DEF Bal, Left
    <3>4. QED
      BY <2>1, <3>2, <3>3, <1>4, <1>5, <1>7
  <2>3. CASE worker[w].stage \notin {"deliver", "note"}
    <3>1. worker'[w].stage = "idle" /\ Due(queue'[d]) <= Due(queue[d]) + 1
          /\ worker[w].stage \in MayStages
      BY <1>h, <2>3, <1>8, <1>9 DEF DatabaseFails, Leave, MayStages
    <3>2. AtMost(MaySend(d)', Bal - 1) /\ AtMost(Unnoted(d)', Left)
      BY <3>1, <1>6 DEF MayStages
    <3>3. Bal - 1 <= 1 + RunMishaps' - sent'[d] - Due(queue'[d])
          /\ Left <= sent'[d] - noted'[d]
      BY <2>1, <3>1, <1>4 DEF Bal, Left
    <3>4. QED
      BY <2>1, <3>2, <3>3, <1>4, <1>5, <1>7
  <2>4. QED
    BY <2>2, <2>3
<1>i. CASE WorkerCrashes(w) \/ WorkerHangs(w)
  <2>1. RunMishaps' = RunMishaps + 1 /\ UNCHANGED <<sent, noted>>
        /\ Due(queue'[d]) <= Due(queue[d]) + 1
    BY <1>i, <1>9, <1>11 DEF WorkerCrashes, WorkerHangs
  <2>2. worker'[w].stage = "idle" \/ worker'[w] = worker[w]
    BY <1>i, <1>8 DEF WorkerCrashes, WorkerHangs
  <2>3. AtMost(MaySend(d)', Bal) /\ AtMost(Unnoted(d)', Left)
    <3>1. MaySend(d)' \subseteq MaySend(d) /\ Unnoted(d)' \subseteq Unnoted(d)
      BY <1>2, <2>2 DEF MaySend, Unnoted
    <3>2. QED
      BY <3>1, <1>5, AtMostFewer
  <2>4. Bal <= 1 + RunMishaps' - sent'[d] - Due(queue'[d]) /\ Left <= sent'[d] - noted'[d]
    BY <2>1, <1>4 DEF Bal, Left
  <2>5. QED
    BY <2>1, <2>3, <2>4, <1>4, <1>5, <1>7
<1>j. QED
  BY <1>a, <1>b, <1>c, <1>d, <1>e, <1>f, <1>g, <1>h, <1>i DEF Process

\* A worker takes a job that was due: it may send instead.
LEMMA CountsTake ==
  ASSUME TypeInv, TypeInv', CountsInv, NEW w \in Worker, NEW d \in Delivery, Take(w, d)
  PROVE  CountsInv'
<1> SUFFICES ASSUME NEW e \in Delivery
             PROVE  /\ AtMost(Unnoted(e)', sent'[e] - noted'[e])
                    /\ AtMost(MaySend(e)', 1 + RunMishaps' - sent'[e] - Due(queue'[e]))
  BY DEF CountsInv
<1>1. /\ RunMishaps \in Nat /\ RunMishaps' = RunMishaps
      /\ sent[e] \in Nat /\ noted[e] \in Nat /\ Due(queue[e]) \in {0, 1}
      /\ UNCHANGED <<sent, noted>>
  BY DEF Take, TypeInv, TypeOK, RunMishaps, Mishap, Due
<1>2. /\ worker[w].stage = "idle" /\ worker'[w] = [stage |-> "read", on |-> d]
      /\ \A v \in Worker \ {w} : worker'[v] = worker[v]
  BY DEF Take, At, TypeInv, TypeOK
<1>3. AtMost(Unnoted(e), sent[e] - noted[e])
      /\ AtMost(MaySend(e), 1 + RunMishaps - sent[e] - Due(queue[e]))
  BY DEF CountsInv
<1>4. Unnoted(e)' \subseteq Unnoted(e)
  BY <1>2 DEF Unnoted
<1> DEFINE n == 1 + RunMishaps - sent[e] - Due(queue[e])
           m == 1 + RunMishaps' - sent'[e] - Due(queue'[e])
           left == sent[e] - noted[e]
<1>5. n \in Int /\ left \in Int
  BY <1>1
<1>6. AtMost(Unnoted(e)', left)
  <2> HIDE DEF left
  <2> QED
    BY <1>3, <1>4, <1>5, AtMostFewer DEF left
<1>7. AtMost(MaySend(e)', m)
  <2>1. CASE e = d
    <3>1. Due(queue[e]) = 1 /\ Due(queue'[e]) = 0
      BY <2>1, DueChanges DEF Take, TypeInv, TypeOK
    <3>2. MaySend(e)' \subseteq MaySend(e) \cup {w}
      BY <1>2 DEF MaySend
    <3>3. m = n + 1
      BY <1>1, <3>1
    <3> HIDE DEF n, m
    <3>4. QED
      BY <1>3, <1>5, <3>2, <3>3, AtMostMore DEF n
  <2>2. CASE e # d
    <3>1. queue'[e] = queue[e]
      BY <2>2 DEF Take, TypeInv, TypeOK
    <3>2. MaySend(e)' \subseteq MaySend(e)
      BY <1>2, <2>2 DEF MaySend
    <3>3. m = n
      BY <1>1, <3>1
    <3> HIDE DEF n, m
    <3>4. QED
      BY <1>3, <1>5, <3>2, <3>3, AtMostFewer DEF n
  <2>3. QED
    BY <2>1, <2>2
<1>8. QED
  BY <1>1, <1>6, <1>7

LEMMA CountsInvNext ==
  TypeInv /\ TypeInv' /\ CallInv /\ CountsInv /\ [Next]_vars => CountsInv'
<1> SUFFICES ASSUME TypeInv, TypeInv', CallInv, CountsInv, [Next]_vars PROVE CountsInv'
  OBVIOUS
<1>0. /\ RunMishaps \in Nat
      /\ \A d \in Delivery : Due(queue[d]) \in {0, 1}
  BY DEF TypeInv, TypeOK, RunMishaps, Mishap, Due
<1>1. ASSUME NEW w \in Worker,
             \/ Process(w) \/ DatabaseFails(w) \/ WorkerCrashes(w) \/ WorkerHangs(w)
      PROVE  CountsInv'
  BY <1>1, CountsRun
<1>2. ASSUME NEW w \in Worker, NEW d \in Delivery, Take(w, d) PROVE CountsInv'
  BY <1>2, CountsTake
<1>3. ASSUME NEW d \in Delivery, Recover(d) PROVE CountsInv'
  <2>1. Due(queue'[d]) <= Due(queue[d]) /\ \A e \in Delivery \ {d} : queue'[e] = queue[e]
    <3>1. Sound(queue[d]) /\ queue'[d] = Stalled(queue[d])
          /\ \A e \in Delivery \ {d} : queue'[e] = queue[e]
      BY <1>3 DEF Recover, TypeInv, TypeOK
    <3>2. Due(Stalled(queue[d])) \in {0, 1} /\ Due(queue[d]) = 1
      BY <1>3 DEF Recover, Due
    <3>3. QED
      BY <3>1, <3>2
  <2>2. \A e \in Delivery : Due(queue'[e]) <= Due(queue[e])
    BY <1>0, <2>1
  <2>3. UNCHANGED <<worker, sent, noted>> /\ RunMishaps' = RunMishaps
    BY <1>3 DEF Recover, RunMishaps
  <2>4. QED
    BY <1>0, <2>2, <2>3, CountsQuiet
<1>4. ASSUME NEW k \in Call, Calling(k) \/ CallDies(k) PROVE CountsInv'
  <2>1. UNCHANGED <<worker, sent, noted>>
    BY <1>4 DEF Calling, CallDies, Dispatch, DispatchToChannels, Verify, CreateRow, Add
  <2>2. RunMishaps' = RunMishaps
    <3>1. CASE CallDies(k)
      BY <3>1, MishapCounts DEF CallDies
    <3>2. CASE Calling(k)
      BY <3>2 DEF Calling, Dispatch, DispatchToChannels, Verify, CreateRow, Add, RunMishaps
    <3>3. QED
      BY <1>4, <3>1, <3>2
  <2>3. \A e \in Delivery : Due(queue'[e]) <= Due(queue[e])
    <3>1. CASE \E c \in Channel : Add(k, c)
      <4>1. PICK c \in Channel : Add(k, c)
        BY <3>1
      <4>2. <<k, c>> \in Delivery /\ queue[<<k, c>>].state = "absent"
        BY <4>1 DEF Add, CallInv, Delivery
      <4>3. Due(queue[<<k, c>>]) = 1
        BY <4>2 DEF TypeInv, Sound, Due
      <4>4. QED
        BY <1>0, <4>1, <4>2, <4>3 DEF Add, TypeInv, TypeOK, Due
    <3>2. CASE ~\E c \in Channel : Add(k, c)
      <4>1. queue' = queue
        BY <1>4, <3>2 DEF Calling, CallDies, Dispatch, DispatchToChannels, Verify, CreateRow
      <4>2. QED
        BY <1>0, <4>1
    <3>3. QED
      BY <3>1, <3>2
  <2>4. QED
    BY <1>0, <2>1, <2>2, <2>3, CountsQuiet
<1>5. CASE UNCHANGED vars \/ \E c \in Channel : Toggle(c)
  <2>1. UNCHANGED <<queue, worker, sent, noted, mishaps>>
    BY <1>5 DEF vars, Toggle
  <2>2. RunMishaps' = RunMishaps
    BY <2>1 DEF RunMishaps
  <2>3. QED
    BY <1>0, <2>1, <2>2, CountsQuiet
<1>6. QED
  BY <1>1, <1>2, <1>3, <1>4, <1>5 DEF Next

\* createAlertProcessor and the queue's retries: the timeline never lists more messages
\* than arrived, and each message beyond the first has a mishap of its own.
THEOREM CountsHonest == Spec => []CountsAreHonest
<1>1. Init => CountsInv
  <2> SUFFICES ASSUME Init, NEW d \in Delivery
               PROVE  /\ AtMost(Unnoted(d), sent[d] - noted[d])
                      /\ AtMost(MaySend(d), 1 + RunMishaps - sent[d] - Due(queue[d]))
    BY DEF CountsInv
  <2>1. Unnoted(d) = {} /\ MaySend(d) = {}
    BY DEF Init, Idle, Unnoted, MaySend
  <2>2. sent[d] = 0 /\ noted[d] = 0 /\ RunMishaps = 0 /\ Due(queue[d]) = 1
    BY DEF Init, RunMishaps, Mishap, Due, AbsentJob
  <2>3. AtMost({}, 0)
    BY FS_EmptySet DEF AtMost
  <2>4. sent[d] - noted[d] = 0 /\ 1 + RunMishaps - sent[d] - Due(queue[d]) = 0
    BY <2>2
  <2>5. QED
    BY <2>1, <2>3, <2>4
<1>2. TypeInv /\ CountsInv => CountsAreHonest
  <2> SUFFICES ASSUME TypeInv, CountsInv, NEW d \in Delivery
               PROVE  noted[d] <= sent[d] /\ sent[d] <= 1 + RunMishaps
    BY DEF CountsAreHonest
  <2>1. 0 <= sent[d] - noted[d] /\ 0 <= 1 + RunMishaps - sent[d] - Due(queue[d])
    BY AtMostNone DEF CountsInv
  <2>2. QED
    BY <2>1, CountsTypes
<1>3. Init => CallInv
  BY DEF Init, CallInv, Idle, AbsentJob, Delivery
<1>4. QED
  BY <1>1, <1>2, <1>3, CallInvNext, CountsInvNext, TypeInvariance, PTL DEF Spec

-----------------------------------------------------------------------------
(* The integrations beside the alerts *)

Histories ==
  INSTANCE IntegrationDeliveryProofs WITH
    Call <- Told, call <- told, row <- history, queue <- jobs,
    worker <- sender, sent <- accepted, mishaps <- troubles

\* The instance that is checked runs the integrations as IntegrationDelivery specifies
\* them.
LEMMA IntegrationsRun == MCSpec => Histories!Spec
<1>1. MCInit => Histories!Init
  BY DEF MCInit, Integrations!Init, Histories!Init, Integrations!Delivery, Histories!Delivery,
         Integrations!Mishap, Histories!Mishap, Integrations!Unused, Histories!Unused,
         Integrations!Idle, Histories!Idle, Integrations!AbsentJob, Histories!AbsentJob
<1>2. \A t \in Target : Integrations!Managing(t) => Histories!Managing(t)
  BY DEF Integrations!Managing, Histories!Managing, Integrations!SetEnabled,
          Histories!SetEnabled, Integrations!Remove, Histories!Remove
<1>3. \A k \in Told \cup Test : Integrations!Calling(k) => Histories!Calling(k)
  BY DEF Integrations!Calling, Histories!Calling, Integrations!DispatchIncident,
          Histories!DispatchIncident, Integrations!DispatchTest, Histories!DispatchTest,
          Integrations!CreateRow, Histories!CreateRow, Integrations!Add, Histories!Add,
          Integrations!FanOut, Histories!FanOut, Integrations!NextTarget,
          Histories!NextTarget, Integrations!targetsFor, Histories!targetsFor,
          Integrations!Unused, Histories!Unused, Integrations!AbsentJob,
          Histories!AbsentJob, Integrations!Added, Histories!Added
<1>4. \A k \in Told \cup Test : Integrations!CallDies(k) => Histories!CallDies(k)
  BY DEF Integrations!CallDies, Histories!CallDies, Integrations!GoesWrong,
          Histories!GoesWrong, Integrations!AllMishaps, Histories!AllMishaps,
          Integrations!RunMishaps, Histories!RunMishaps
<1>5. \A k \in Told \cup Test, t \in Target : Integrations!CreateFails(k, t) => Histories!CreateFails(k, t)
  BY DEF Integrations!CreateFails, Histories!CreateFails, Integrations!NextTarget,
          Histories!NextTarget, Integrations!GoesWrong, Histories!GoesWrong,
          Integrations!AllMishaps, Histories!AllMishaps, Integrations!RunMishaps,
          Histories!RunMishaps
<1>6. \A w \in Worker, d \in Histories!Delivery : Integrations!Take(w, d) => Histories!Take(w, d)
  BY DEF Integrations!Take, Histories!Take, Integrations!At, Histories!At,
          Integrations!Taken, Histories!Taken
<1>7. \A w \in Worker : Integrations!Process(w) => Histories!Process(w)
  BY DEF Integrations!Process, Histories!Process, Integrations!Start, Histories!Start,
          Integrations!Send, Histories!Send, Integrations!Skip, Histories!Skip,
          Integrations!Succeed, Histories!Succeed, Integrations!Fail, Histories!Fail,
          Integrations!At, Histories!At, Integrations!On, Histories!On,
          Integrations!Goto, Histories!Goto, Integrations!Leave, Histories!Leave,
          Integrations!Accepted, Histories!Accepted, Integrations!isFinal,
          Histories!isFinal, Integrations!Idle, Histories!Idle, Integrations!IfHeld,
          Histories!IfHeld, Integrations!Completed, Histories!Completed,
          Integrations!Thrown, Histories!Thrown, Integrations!GoesWrong,
          Histories!GoesWrong, Integrations!AllMishaps, Histories!AllMishaps,
          Integrations!RunMishaps, Histories!RunMishaps
<1>8. \A w \in Worker : Integrations!DatabaseFails(w) => Histories!DatabaseFails(w)
  BY DEF Integrations!DatabaseFails, Histories!DatabaseFails, Integrations!At,
          Histories!At, Integrations!On, Histories!On, Integrations!Leave,
          Histories!Leave, Integrations!Idle, Histories!Idle, Integrations!IfHeld,
          Histories!IfHeld, Integrations!Thrown, Histories!Thrown,
          Integrations!GoesWrong, Histories!GoesWrong, Integrations!AllMishaps,
          Histories!AllMishaps, Integrations!RunMishaps, Histories!RunMishaps
<1>9. \A w \in Worker : Integrations!WorkerCrashes(w) => Histories!WorkerCrashes(w)
  BY DEF Integrations!WorkerCrashes, Histories!WorkerCrashes, Integrations!At,
          Histories!At, Integrations!On, Histories!On, Integrations!LoseLock,
          Histories!LoseLock, Integrations!Idle, Histories!Idle, Integrations!IfHeld,
          Histories!IfHeld, Integrations!Unlocked, Histories!Unlocked,
          Integrations!GoesWrong, Histories!GoesWrong, Integrations!AllMishaps,
          Histories!AllMishaps, Integrations!RunMishaps, Histories!RunMishaps
<1>10. \A w \in Worker : Integrations!WorkerHangs(w) => Histories!WorkerHangs(w)
  BY DEF Integrations!WorkerHangs, Histories!WorkerHangs, Integrations!At,
          Histories!At, Integrations!On, Histories!On, Integrations!LoseLock,
          Histories!LoseLock, Integrations!IfHeld, Histories!IfHeld,
          Integrations!Unlocked, Histories!Unlocked, Integrations!GoesWrong,
          Histories!GoesWrong, Integrations!AllMishaps, Histories!AllMishaps,
          Integrations!RunMishaps, Histories!RunMishaps
<1>11. \A d \in Histories!Delivery : Integrations!Recover(d) => Histories!Recover(d)
  BY DEF Integrations!Recover, Histories!Recover, Integrations!Stalled,
          Histories!Stalled
<1>12. Integrations!Next => Histories!Next
  BY <1>2, <1>3, <1>4, <1>5, <1>6, <1>7, <1>8, <1>9, <1>10, <1>11
  DEF Integrations!Next, Histories!Next, Integrations!Delivery, Histories!Delivery
<1>13. [MCNext]_<<vars, integrationVars, part>> => [Histories!Next]_Histories!vars
  BY <1>12 DEF MCNext, integrationVars, Histories!vars
<1>14. QED
  BY <1>1, <1>13, PTL DEF MCSpec, Histories!Spec

\* The history of an integration: SUCCESS only for what was accepted, and DEAD only for
\* a job without attempts left, unless a worker hung.
THEOREM HistoryHonest == MCSpec => []HonestHistory
<1>1. Histories!HonestHistory => HonestHistory
  BY DEF HonestHistory, Integrations!HonestHistory, Histories!HonestHistory,
         Integrations!Delivery, Histories!Delivery
<1>2. QED
  BY <1>1, IntegrationsRun, Histories!HistoryHonest, JobQueueAssumption, PTL

\* "replaying the same event never creates ... a second send": a target is sent an
\* event once, and once more for each thing that went wrong with a run.
THEOREM SentOnce == MCSpec => []SentOncePerEvent
<1>1. Histories!SentOncePerEvent => SentOncePerEvent
  BY DEF SentOncePerEvent, Integrations!SentOncePerEvent, Histories!SentOncePerEvent,
         Integrations!Delivery, Histories!Delivery, Integrations!RunMishaps,
         Histories!RunMishaps
<1>2. QED
  BY <1>1, IntegrationsRun, Histories!SentOnce, JobQueueAssumption, PTL

\* dispatchIncident and its replays: while no call dies, an event that nobody is telling
\* any more has a job for every target a fan-out of it has read, whichever call made it.
THEOREM NobodyIsForgotten == MCSpec => []NobodyForgotten
<1>1. Histories!NobodyForgotten => NobodyForgotten
  BY DEF NobodyForgotten, Integrations!NobodyForgotten, Histories!NobodyForgotten,
         Integrations!Telling, Histories!Telling, Integrations!Unused, Histories!Unused
<1>2. QED
  BY <1>1, IntegrationsRun, Histories!NobodyIsForgotten, JobQueueAssumption, PTL

=============================================================================
