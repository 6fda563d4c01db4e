---------------------- MODULE IntegrationDeliveryProofs ----------------------
(***************************************************************************)
(* Theorems about IntegrationDelivery, for every set of integrations,      *)
(* events, calls and workers, every limit of the queue and any number of   *)
(* mishaps.                                                                *)
(***************************************************************************)
EXTENDS IntegrationDelivery, JobQueueProofs

-----------------------------------------------------------------------------
(* Types, and the queue keeps its jobs sound *)

TypeInv ==
  /\ call \in [Call \cup Test -> CallState \cup {Unused}]
  /\ row \in [Delivery -> RowStatus]
  /\ queue \in [Delivery -> QueuedJob]
  /\ worker \in [Worker -> Run \cup {Idle}]
  /\ sent \in [Delivery -> Nat]
  /\ mishaps \in [Mishap -> Nat]
  /\ \A d \in Delivery : Sound(queue[d])

RunStage == {"start", "send", "skipped", "ok", "failed"}

\* What a run does, and what happens to it.
Running(w) == Process(w) \/ DatabaseFails(w) \/ WorkerCrashes(w) \/ WorkerHangs(w)

\* A worker that is not idle runs the job of a delivery.
LEMMA RunType ==
  ASSUME TypeInv, NEW w \in Worker, worker[w].stage # "idle"
  PROVE  worker[w] \in Run /\ On(w) \in Delivery /\ Sound(queue[On(w)])
<1>1. worker[w] \in Run
  BY DEF TypeInv, Idle
<1>2. QED
  BY <1>1 DEF Run, On, TypeInv

\* Runs move one at a time.
LEMMA GotoAt ==
  ASSUME TypeInv, NEW w \in Worker, worker[w].stage # "idle", NEW stage \in RunStage,
         Goto(w, stage)
  PROVE  /\ \A v \in Worker \ {w} : worker'[v] = worker[v]
         /\ worker'[w].stage = stage /\ worker'[w].on = worker[w].on
         /\ worker'[w].attempt = worker[w].attempt
         /\ worker' \in [Worker -> Run \cup {Idle}]
<1>1. worker[w] \in Run
  BY RunType
<1>2. [worker[w] EXCEPT !.stage = stage] \in Run
  BY <1>1 DEF Run, RunStage
<1>3. QED
  BY <1>1, <1>2 DEF Goto, TypeInv, Run

LEMMA LeaveAt ==
  ASSUME TypeInv, NEW w \in Worker, worker' = [worker EXCEPT ![w] = Idle]
  PROVE  /\ \A v \in Worker \ {w} : worker'[v] = worker[v]
         /\ worker'[w].stage = "idle"
         /\ worker' \in [Worker -> Run \cup {Idle}]
BY DEF TypeInv, Idle

\* What becomes of a job that is not absent.
Left(q, w) == {IfHeld(q, w, Completed(q)), IfHeld(q, w, Thrown(q)), IfHeld(q, w, Unlocked(q)), q}

\* A run moves itself and its own job, and nothing of the dispatcher's.
LEMMA RunMoves ==
  ASSUME TypeInv, NEW w \in Worker, Running(w)
  PROVE  /\ worker[w].stage # "idle"
         /\ \A v \in Worker \ {w} : worker'[v] = worker[v]
         /\ worker'[w].stage # "idle" =>
              worker'[w].on = worker[w].on /\ worker'[w].attempt = worker[w].attempt
         /\ worker' \in [Worker -> Run \cup {Idle}]
         /\ \E q \in Left(queue[On(w)], w) : queue' = [queue EXCEPT ![On(w)] = q]
         /\ \A d \in Delivery \ {On(w)} : row'[d] = row[d] /\ sent'[d] = sent[d]
         /\ call' = call
<1>1. worker[w].stage # "idle"
  BY DEF Running, Process, Start, Send, Skip, Succeed, Fail, DatabaseFails,
         WorkerCrashes, WorkerHangs, At
<1>2. \/ UNCHANGED worker
      \/ worker' = [worker EXCEPT ![w] = Idle]
      \/ \E stage \in RunStage : Goto(w, stage)
  <2>1. CASE Send(w)
    BY <2>1 DEF Send, RunStage
  <2>2. CASE ~Send(w)
    BY <2>2 DEF Running, Process, Start, Skip, Succeed, Fail, DatabaseFails,
                WorkerCrashes, WorkerHangs, RunStage, Leave
  <2>3. QED
    BY <2>1, <2>2
<1>3. \E q \in Left(queue[On(w)], w) : queue' = [queue EXCEPT ![On(w)] = q]
  <2>1. queue = [queue EXCEPT ![On(w)] = queue[On(w)]]
    BY DEF TypeInv
  <2>2. CASE Process(w) \/ DatabaseFails(w)
    BY <2>1, <2>2 DEF Process, Start, Send, Skip, Succeed, Fail, DatabaseFails, Leave, Left
  <2>3. CASE WorkerCrashes(w) \/ WorkerHangs(w)
    BY <2>3 DEF WorkerCrashes, WorkerHangs, LoseLock, Left
  <2>4. QED
    BY <2>2, <2>3 DEF Running
<1>4. \A d \in Delivery \ {On(w)} : row'[d] = row[d] /\ sent'[d] = sent[d]
  BY DEF Running, Process, Start, Send, Skip, Succeed, Fail, DatabaseFails,
         WorkerCrashes, WorkerHangs, Accepted, TypeInv
<1>5. call' = call
  BY DEF Running, Process, Start, Send, Skip, Succeed, Fail, DatabaseFails,
         WorkerCrashes, WorkerHangs
<1>6. /\ \A v \in Worker \ {w} : worker'[v] = worker[v]
      /\ worker'[w].stage # "idle" =>
           worker'[w].on = worker[w].on /\ worker'[w].attempt = worker[w].attempt
      /\ worker' \in [Worker -> Run \cup {Idle}]
  <2>1. CASE UNCHANGED worker
    BY <2>1 DEF TypeInv
  <2>2. CASE worker' = [worker EXCEPT ![w] = Idle]
    BY <2>2, LeaveAt
  <2>3. CASE \E stage \in RunStage : Goto(w, stage)
    BY <1>1, <2>3, GotoAt
  <2>4. QED
    BY <1>2, <2>1, <2>2, <2>3
<1>7. QED
  BY <1>1, <1>3, <1>4, <1>5, <1>6

\* The job of a run stays sound, and present.
LEMMA LeftKeeps ==
  ASSUME TypeInv, NEW w \in Worker, NEW d \in Delivery, NEW q \in Left(queue[d], w)
  PROVE  /\ Sound(q)
         /\ queue[d].state # "absent" => q.state # "absent"
<1>1. Sound(queue[d]) /\ queue[d] \in QueuedJob
  BY DEF TypeInv
<1>2. Sound(q)
  BY <1>1, LeftSound DEF Left
<1>3. queue[d].state # "absent" =>
        /\ Completed(queue[d]).state # "absent"
        /\ Thrown(queue[d]).state # "absent"
        /\ Unlocked(queue[d]).state # "absent"
  BY <1>1 DEF Completed, Thrown, Unlocked, QueuedJob
<1>4. QED
  BY <1>2, <1>3 DEF Left, IfHeld

LEMMA CounterType ==
  /\ \A m \in Mishap : TypeInv /\ GoesWrong(m) => mishaps' \in [Mishap -> Nat]
  /\ \A d \in Delivery : TypeInv /\ sent' = [sent EXCEPT ![d] = @ + 1]
                          => sent' \in [Delivery -> Nat]
BY DEF TypeInv, GoesWrong

\* What the dispatcher does.
Dispatching(k) == Calling(k) \/ CallDies(k) \/ \E t \in Target : CreateFails(k, t)

LEMMA CallsType ==
  ASSUME TypeInv, NEW k \in Call \cup Test, Dispatching(k)
  PROVE  TypeInv'
<1>1. UNCHANGED <<worker, sent>>
  BY DEF Dispatching, Calling, DispatchIncident, DispatchTest, CreateRow, Add, CreateFails, CallDies
<1>2. mishaps' \in [Mishap -> Nat]
  <2>1. CASE Calling(k)
    BY <2>1 DEF Calling, DispatchIncident, DispatchTest, CreateRow, Add, TypeInv
  <2>2. CASE ~Calling(k)
    BY <2>2, CounterType DEF Dispatching, CreateFails, CallDies, Mishap
  <2>3. QED
    BY <2>1, <2>2
<1>3. ASSUME call[k] # Unused PROVE call[k] \in CallState
  BY <1>3 DEF TypeInv
<1>4. ASSUME NEW t \in Target, call[k] \in CallState, NextTarget(k, t)
      PROVE  call' \in [Call \cup Test -> CallState \cup {Unused}]
  BY <1>4 DEF NextTarget, TypeInv, CallState
<1>5. ASSUME NEW e \in Event \cup Test, NEW ts \in SUBSET Target, FanOut(k, e, ts)
      PROVE  call' \in [Call \cup Test -> CallState \cup {Unused}]
  BY <1>5 DEF FanOut, TypeInv, CallState
<1>6. CASE DispatchIncident(k)
  <2>1. targetsFor \in SUBSET Target
    BY DEF targetsFor
  <2>2. QED
    BY <1>1, <1>2, <1>5, <1>6, <2>1 DEF DispatchIncident, TypeInv
<1>7. CASE DispatchTest(k)
  BY <1>1, <1>2, <1>5, <1>7 DEF DispatchTest, TypeInv
<1>8. CASE \E t \in Target : CreateRow(k, t)
  <2>1. PICK t \in Target : CreateRow(k, t)
    BY <1>8
  <2>2. call[k] \in CallState
    BY <1>3, <2>1 DEF CreateRow, Unused
  <2>3. call' \in [Call \cup Test -> CallState \cup {Unused}]
    <3>1. CASE NextTarget(k, t)
      BY <1>4, <2>2, <3>1
    <3>2. CASE call' = [call EXCEPT ![k].stage = "add", ![k].hand = {t}]
      BY <2>2, <3>2 DEF TypeInv, CallState
    <3>3. QED
      BY <2>1, <3>1, <3>2 DEF CreateRow
  <2>4. row' \in [Delivery -> RowStatus]
    BY <2>1 DEF CreateRow, TypeInv, RowStatus
  <2>5. QED
    BY <1>1, <1>2, <2>1, <2>3, <2>4 DEF CreateRow, TypeInv
<1>9. CASE \E t \in Target : Add(k, t)
  <2>1. PICK t \in Target : Add(k, t)
    BY <1>9
  <2>2. call[k] \in CallState
    BY <1>3, <2>1 DEF Add, Unused
  <2>3. call' \in [Call \cup Test -> CallState \cup {Unused}]
    BY <1>4, <2>1, <2>2 DEF Add
  <2>4. Sound(Added) /\ Added \in QueuedJob
    BY NewJobSound DEF Sound
  <2>5. /\ queue' \in [Delivery -> QueuedJob]
        /\ \A d \in Delivery : Sound(queue'[d])
    BY <2>1, <2>4 DEF Add, TypeInv
  <2>6. QED
    BY <1>1, <1>2, <2>1, <2>3, <2>5 DEF Add, TypeInv
<1>10. CASE CallDies(k) \/ \E t \in Target : CreateFails(k, t)
  <2>1. UNCHANGED <<row, queue>> /\ call[k].stage # "unused"
    BY <1>10 DEF CallDies, CreateFails
  <2>2. call[k] \in CallState
    BY <1>3, <2>1 DEF Unused
  <2>3. call' \in [Call \cup Test -> CallState \cup {Unused}]
    <3>1. CASE call' = [call EXCEPT ![k].stage = "dead"]
      BY <2>2, <3>1 DEF TypeInv, CallState
    <3>2. CASE \E t \in Target : NextTarget(k, t)
      BY <1>4, <2>2, <3>2
    <3>3. QED
      BY <1>10, <3>1, <3>2 DEF CallDies, CreateFails
  <2>4. QED
    BY <1>1, <1>2, <2>1, <2>3 DEF TypeInv
<1>11. QED
  BY <1>6, <1>7, <1>8, <1>9, <1>10 DEF Dispatching, Calling

LEMMA RunsType ==
  ASSUME TypeInv, NEW w \in Worker, Running(w)
  PROVE  TypeInv'
<1>1. worker[w].stage # "idle" /\ On(w) \in Delivery
  BY RunMoves, RunType
<1>2. worker' \in [Worker -> Run \cup {Idle}] /\ call' = call
  BY RunMoves
<1>3. queue' \in [Delivery -> QueuedJob] /\ \A d \in Delivery : Sound(queue'[d])
  <2>1. PICK q \in Left(queue[On(w)], w) : queue' = [queue EXCEPT ![On(w)] = q]
    BY RunMoves
  <2>2. Sound(q)
    BY <1>1, <2>1, LeftKeeps
  <2>3. q \in QueuedJob
    BY <2>2 DEF Sound
  <2>4. QED
    BY <1>1, <2>1, <2>2, <2>3 DEF TypeInv
<1>4. row' \in [Delivery -> RowStatus]
  BY DEF Running, Process, Start, Send, Skip, Succeed, Fail, DatabaseFails,
         WorkerCrashes, WorkerHangs, TypeInv, RowStatus
<1>5. sent' \in [Delivery -> Nat] /\ mishaps' \in [Mishap -> Nat]
  <2>1. UNCHANGED sent \/ \E d \in Delivery : sent' = [sent EXCEPT ![d] = @ + 1]
    BY <1>1 DEF Running, Process, Start, Send, Skip, Succeed, Fail, DatabaseFails,
                WorkerCrashes, WorkerHangs, Accepted
  <2>2. UNCHANGED mishaps \/ \E m \in Mishap : GoesWrong(m)
    BY DEF Running, Process, Start, Send, Skip, Succeed, Fail, DatabaseFails,
           WorkerCrashes, WorkerHangs, Mishap
  <2>3. QED
    BY <2>1, <2>2, CounterType DEF TypeInv
<1>6. QED
  BY <1>2, <1>3, <1>4, <1>5 DEF TypeInv

\* A worker takes a waiting job: its attempt is one of those the queue allows.
LEMMA TakeType ==
  ASSUME TypeInv, NEW w \in Worker, NEW d \in Delivery, Take(w, d)
  PROVE  /\ TypeInv'
         /\ worker[w].stage = "idle"
         /\ worker'[w].stage = "start" /\ worker'[w].on = d
         /\ worker'[w].attempt = queue[d].made + 1
         /\ \A v \in Worker \ {w} : worker'[v] = worker[v]
         /\ queue'[d] = Taken(queue[d], w)
         /\ \A e \in Delivery \ {d} : queue'[e] = queue[e]
<1>1. Sound(queue[d]) /\ queue[d].state = "waiting" /\ queue[d].made \in Nat
  BY JobQueueAssumption DEF Take, TypeInv, QueuedJob
<1> DEFINE n == queue[d].made + 1
<1>2. n \in 1 .. Attempts
  BY <1>1, JobQueueAssumption DEF Sound
<1>3. worker' = [worker EXCEPT ![w] = [stage |-> "start", on |-> d, attempt |-> n]]
  BY DEF Take
<1> HIDE DEF n
<1>4. [stage |-> "start", on |-> d, attempt |-> n] \in Run
  BY <1>2 DEF Run
<1>5. Sound(Taken(queue[d], w)) /\ Taken(queue[d], w) \in QueuedJob
  BY <1>1, TakenSound DEF Sound
<1>6. /\ queue' \in [Delivery -> QueuedJob]
      /\ \A e \in Delivery : Sound(queue'[e])
      /\ queue'[d] = Taken(queue[d], w)
      /\ \A e \in Delivery \ {d} : queue'[e] = queue[e]
  BY <1>5 DEF Take, TypeInv
<1>7. worker' \in [Worker -> Run \cup {Idle}]
  BY <1>3, <1>4 DEF TypeInv
<1>8. TypeInv'
  BY <1>6, <1>7 DEF Take, TypeInv
<1>9. /\ worker'[w] = [stage |-> "start", on |-> d, attempt |-> n]
      /\ worker[w].stage = "idle"
      /\ \A v \in Worker \ {w} : worker'[v] = worker[v]
  BY <1>3 DEF Take, At, TypeInv
<1>10. worker'[w].attempt = queue[d].made + 1
  BY <1>9 DEF n
<1>11. QED
  BY <1>6, <1>8, <1>9, <1>10

LEMMA RecoverType ==
  ASSUME TypeInv, NEW d \in Delivery, Recover(d)
  PROVE  /\ TypeInv'
         /\ queue'[d] = Stalled(queue[d])
         /\ \A e \in Delivery \ {d} : queue'[e] = queue[e]
<1>1. Sound(Stalled(queue[d])) /\ Stalled(queue[d]) \in QueuedJob
  BY StalledSound DEF Recover, TypeInv, Sound
<1>2. QED
  BY <1>1 DEF Recover, TypeInv

LEMMA TypeInvNext == TypeInv /\ [Next]_vars => TypeInv'
<1> SUFFICES ASSUME TypeInv, [Next]_vars PROVE TypeInv'
  OBVIOUS
<1>1. CASE UNCHANGED vars \/ \E t \in Target : Managing(t)
  BY <1>1 DEF vars, Managing, SetEnabled, Remove, TypeInv
<1>2. QED
  BY <1>1, CallsType, RunsType, TakeType, RecoverType DEF Next, Dispatching, Running

LEMMA TypeInvAlways == Spec => []TypeInv
<1>1. Init => TypeInv
  BY NewJobSound DEF Init, TypeInv, RowStatus, Idle, Unused, Sound
<1>2. QED
  BY <1>1, TypeInvNext, PTL DEF Spec


-----------------------------------------------------------------------------
(* The history is honest *)

\* A run that is about to record a success has seen its message accepted.
SuccessInv ==
  /\ \A d \in Delivery : row[d] = "SUCCESS" => sent[d] > 0
  /\ \A w \in Worker : worker[w].stage = "ok" => sent[On(w)] > 0

\* As long as no worker hangs, each run holds the lock of its job and knows the number
\* of its attempt, and a job is dead-lettered when it has no attempt left.
AttemptInv ==
  mishaps["lock"] = 0 =>
    /\ \A w \in Worker : worker[w].stage # "idle" =>
         queue[On(w)].holder = w /\ worker[w].attempt = queue[On(w)].made + 1
    /\ \A d \in Delivery : row[d] = "DEAD" => queue[d].made = Attempts

LEMMA SuccessInvNext == TypeInv /\ SuccessInv /\ [Next]_vars => SuccessInv'
<1> SUFFICES ASSUME TypeInv, SuccessInv, [Next]_vars PROVE SuccessInv'
  OBVIOUS
<1>1. ASSUME NEW w \in Worker, Running(w) PROVE SuccessInv'
  <2> DEFINE d == On(w)
  <2>1. d \in Delivery /\ worker[w].stage # "idle"
    BY <1>1, RunMoves, RunType
  <2>2. \A e \in Delivery : sent'[e] >= sent[e] /\ sent[e] \in Nat /\ sent'[e] \in Nat
    BY <1>1, <2>1
    DEF Running, Process, Start, Send, Skip, Succeed, Fail, DatabaseFails, WorkerCrashes,
        WorkerHangs, Accepted, TypeInv
  <2>3. worker'[w].stage = "ok" => sent'[d] > 0
    <3>1. CASE Send(w)
      <4>1. CASE Accepted(w)
        BY <2>1, <2>2, <4>1 DEF Accepted, TypeInv
      <4>2. CASE ~Accepted(w)
        <5>1. Goto(w, "skipped") \/ Goto(w, "failed")
          BY <3>1, <4>2 DEF Send
        <5>2. QED
          BY <2>1, <5>1, GotoAt DEF RunStage
      <4>3. QED
        BY <4>1, <4>2
    <3>2. CASE Start(w)
      BY <2>1, <3>2, GotoAt DEF Start, RunStage
    <3>3. CASE Skip(w) \/ Succeed(w) \/ Fail(w) \/ DatabaseFails(w) \/ WorkerCrashes(w)
      BY <3>3, LeaveAt DEF Skip, Succeed, Fail, DatabaseFails, WorkerCrashes, Leave
    <3>4. CASE WorkerHangs(w)
      BY <3>4 DEF WorkerHangs, SuccessInv
    <3>5. QED
      BY <1>1, <3>1, <3>2, <3>3, <3>4 DEF Running, Process
  <2>4. row'[d] = "SUCCESS" => sent'[d] > 0
    <3>1. row'[d] = "SUCCESS" => row[d] = "SUCCESS" \/ worker[w].stage = "ok"
      BY <1>1, <2>1
      DEF Running, Process, Start, Send, Skip, Succeed, Fail, DatabaseFails, WorkerCrashes,
          WorkerHangs, At, TypeInv
    <3>2. QED
      BY <2>1, <2>2, <3>1 DEF SuccessInv
  <2>5. \A e \in Delivery \ {d} : row'[e] = "SUCCESS" => sent'[e] > 0
    BY <1>1, RunMoves DEF SuccessInv
  <2>6. \A v \in Worker : worker'[v].stage = "ok" => sent'[worker'[v].on] > 0
    <3>1. worker'[w].stage = "ok" => worker'[w].on = d
      BY <1>1, RunMoves DEF On
    <3>2. ASSUME NEW v \in Worker \ {w}, worker[v].stage = "ok" PROVE sent'[On(v)] > 0
      BY <2>2, <3>2, RunType DEF SuccessInv
    <3>3. QED
      BY <1>1, <2>3, <3>1, <3>2, RunMoves DEF On
  <2>7. QED
    BY <2>4, <2>5, <2>6 DEF SuccessInv, On
<1>2. ASSUME NEW w \in Worker, NEW d \in Delivery, Take(w, d) PROVE SuccessInv'
  BY <1>2, TakeType DEF SuccessInv, On, Take
<1>3. ASSUME NEW k \in Call \cup Test, Dispatching(k) PROVE SuccessInv'
  <2>1. UNCHANGED <<sent, worker>>
    BY <1>3
    DEF Dispatching, Calling, DispatchIncident, DispatchTest, CreateRow, Add, CreateFails, CallDies
  <2>2. \A d \in Delivery : row'[d] = "SUCCESS" => row[d] = "SUCCESS"
    BY <1>3
    DEF Dispatching, Calling, DispatchIncident, DispatchTest, CreateRow, Add, CreateFails,
        CallDies, TypeInv
  <2>3. QED
    BY <2>1, <2>2 DEF SuccessInv, On
<1>4. ASSUME UNCHANGED <<row, worker, sent>> PROVE SuccessInv'
  BY <1>4 DEF SuccessInv, On
<1>5. QED
  BY <1>1, <1>2, <1>3, <1>4
  DEF Next, Running, Dispatching, vars, Managing, SetEnabled, Remove, Recover

\* A step counts one mishap, or none.
LEMMA OneMishap == [Next]_vars => UNCHANGED mishaps \/ \E m \in Mishap : GoesWrong(m)
<1> DEFINE One == UNCHANGED mishaps \/ \E m \in Mishap : GoesWrong(m)
<1> SUFFICES ASSUME [Next]_vars PROVE One
  OBVIOUS
<1>1. ASSUME NEW w \in Worker, Running(w) PROVE One
  BY <1>1 DEF Running, Process, Start, Send, Skip, Succeed, Fail, DatabaseFails,
              WorkerCrashes, WorkerHangs, Mishap
<1>2. ASSUME NEW k \in Call \cup Test, Dispatching(k) PROVE One
  BY <1>2 DEF Dispatching, Calling, DispatchIncident, DispatchTest, CreateRow, Add,
              CreateFails, CallDies, Mishap
<1>3. QED
  BY <1>1, <1>2 DEF Next, Running, Dispatching, vars, Managing, SetEnabled, Remove,
                    Recover, Take

\* Nothing makes up for a hang.
LEMMA HangsStay ==
  ASSUME TypeInv, [Next]_vars, mishaps'["lock"] = 0
  PROVE  mishaps["lock"] = 0 /\ \A w \in Worker : ~WorkerHangs(w)
<1>1. UNCHANGED mishaps \/ \E m \in Mishap : GoesWrong(m)
  BY OneMishap
<1>2. ASSUME NEW m \in Mishap, GoesWrong(m)
      PROVE  mishaps["lock"] = 0 /\ m # "lock"
  <2>1. mishaps["lock"] \in Nat /\ mishaps[m] \in Nat
    BY DEF TypeInv, Mishap
  <2>2. QED
    BY <1>2, <2>1 DEF GoesWrong, TypeInv, Mishap
<1>3. mishaps["lock"] = 0
  BY <1>1, <1>2
<1>4. \A w \in Worker : ~WorkerHangs(w)
  BY <1>2 DEF WorkerHangs, Mishap
<1>5. QED
  BY <1>3, <1>4

LEMMA AttemptInvNext == TypeInv /\ AttemptInv /\ [Next]_vars => AttemptInv'
<1> SUFFICES ASSUME TypeInv, AttemptInv, [Next]_vars, mishaps'["lock"] = 0
             PROVE  AttemptInv'
  BY DEF AttemptInv
<1>0. mishaps["lock"] = 0 /\ \A w \in Worker : ~WorkerHangs(w)
  BY HangsStay
<1>h. \A w \in Worker : worker[w].stage # "idle" =>
        queue[On(w)].holder = w /\ worker[w].attempt = queue[On(w)].made + 1
  BY <1>0 DEF AttemptInv
<1>d. \A d \in Delivery : row[d] = "DEAD" => queue[d].made = Attempts
  BY <1>0 DEF AttemptInv
<1> DEFINE Holds(v) == worker'[v].stage # "idle" =>
                         /\ queue'[worker'[v].on].holder = v
                         /\ worker'[v].attempt = queue'[worker'[v].on].made + 1
           Dead == \A d \in Delivery : row'[d] = "DEAD" => queue'[d].made = Attempts
<1> SUFFICES (\A v \in Worker : Holds(v)) /\ Dead
  BY DEF AttemptInv, On
<1>o. ASSUME NEW v \in Worker, worker'[v] = worker[v],
             worker[v].stage # "idle" => queue'[On(v)] = queue[On(v)]
      PROVE  Holds(v)
  BY <1>h, <1>o DEF On
<1>1. ASSUME NEW w \in Worker, Running(w) PROVE (\A v \in Worker : Holds(v)) /\ Dead
  <2> DEFINE d == On(w)
             q == queue[d]
  <2>1. d \in Delivery /\ worker[w].stage # "idle" /\ Sound(q) /\ q.holder = w
        /\ worker[w].attempt = q.made + 1 /\ q \in QueuedJob /\ q.state = "active"
    BY <1>1, <1>h, RunMoves, RunType, JobQueueAssumption DEF Sound
  <2>2. \A e \in Delivery \ {d} : queue'[e] = queue[e]
    BY <1>1, RunMoves DEF TypeInv
  <2>3. ASSUME NEW v \in Worker \ {w} PROVE Holds(v)
    <3>1. worker[v].stage # "idle" => On(v) \in Delivery \ {d}
      BY <1>h, <2>1, RunType
    <3>2. QED
      BY <1>1, <1>o, <2>2, <3>1, RunMoves
  <2>4. Holds(w)
    <3>1. CASE UNCHANGED queue
      BY <1>1, <2>1, <3>1, RunMoves DEF On
    <3>2. CASE worker' = [worker EXCEPT ![w] = Idle]
      BY <3>2, LeaveAt
    <3>3. QED
      BY <1>0, <1>1, <3>1, <3>2
      DEF Running, Process, Start, Send, Skip, Succeed, Fail, DatabaseFails, WorkerCrashes, Leave
  <2>5. row[d] # "DEAD"
    BY <1>d, <2>1, JobQueueAssumption DEF Sound
  <2>6. row'[d] = "DEAD" => queue'[d].made = Attempts
    <3>1. ASSUME row'[d] = "DEAD"
          PROVE  Fail(w) /\ isFinal(w)
      BY <1>1, <2>1, <2>5, <3>1
      DEF Running, Process, Start, Send, Skip, Succeed, Fail, DatabaseFails, WorkerCrashes,
          WorkerHangs, TypeInv
    <3>2. ASSUME Fail(w), isFinal(w)
          PROVE  queue'[d].made = Attempts
      <4>1. queue'[d] = Thrown(q)
        BY <2>1, <3>2 DEF Fail, Leave, IfHeld, TypeInv
      <4>2. Thrown(q).made = q.made + 1
        BY <2>1 DEF Thrown, QueuedJob
      <4>3. q.made < Attempts /\ q.made \in Nat /\ q.made + 1 >= Attempts
        BY <2>1, <3>2, JobQueueAssumption DEF Sound, QueuedJob, isFinal
      <4>4. QED
        BY <4>1, <4>2, <4>3, JobQueueAssumption
    <3>3. QED
      BY <3>1, <3>2
  <2>7. Dead
    BY <1>1, <1>d, <2>2, <2>6, RunMoves
  <2>8. QED
    BY <2>3, <2>4, <2>7
<1>2. ASSUME NEW w \in Worker, NEW d \in Delivery, Take(w, d)
      PROVE  (\A v \in Worker : Holds(v)) /\ Dead
  <2>1. /\ queue'[d] = Taken(queue[d], w) /\ queue[d] \in QueuedJob
        /\ Sound(queue[d]) /\ queue[d].state = "waiting"
        /\ \A e \in Delivery \ {d} : queue'[e] = queue[e]
    BY <1>2, TakeType DEF Take, TypeInv
  <2>2. queue'[d].holder = w /\ queue'[d].made = queue[d].made
    BY <2>1 DEF Taken, QueuedJob
  <2>3. Holds(w)
    <3>1. worker'[w].on = d /\ worker'[w].attempt = queue[d].made + 1
      BY <1>2, TakeType
    <3>2. QED
      BY <2>2, <3>1
  <2>4. ASSUME NEW v \in Worker \ {w} PROVE Holds(v)
    <3>1. worker[v].stage # "idle" => On(v) \in Delivery \ {d}
      BY <1>h, <2>1, RunType, JobQueueAssumption DEF Sound
    <3>2. QED
      BY <1>2, <1>o, <2>1, <3>1, TakeType
  <2>5. Dead
    BY <1>2, <1>d, <2>1, <2>2 DEF Take
  <2>6. QED
    BY <2>3, <2>4, <2>5
<1>3. ASSUME NEW d \in Delivery, Recover(d) PROVE (\A v \in Worker : Holds(v)) /\ Dead
  <2>1. /\ queue'[d] = Stalled(queue[d]) /\ queue[d] \in QueuedJob
        /\ queue[d].holder = NoWorker
        /\ \A e \in Delivery \ {d} : queue'[e] = queue[e]
    BY <1>3, RecoverType DEF Recover, TypeInv
  <2>2. queue'[d].made = queue[d].made
    BY <2>1 DEF Stalled, QueuedJob
  <2>3. ASSUME NEW v \in Worker PROVE Holds(v)
    <3>1. worker[v].stage # "idle" => On(v) \in Delivery \ {d}
      BY <1>h, <2>1, RunType, JobQueueAssumption
    <3>2. QED
      BY <1>3, <1>o, <2>1, <3>1 DEF Recover
  <2>4. QED
    BY <1>3, <1>d, <2>1, <2>2, <2>3 DEF Recover
<1>4. ASSUME NEW k \in Call \cup Test, Dispatching(k)
      PROVE  (\A v \in Worker : Holds(v)) /\ Dead
  <2>1. UNCHANGED worker
    BY <1>4
    DEF Dispatching, Calling, DispatchIncident, DispatchTest, CreateRow, Add, CreateFails, CallDies
  <2>2. \A d \in Delivery : row'[d] = "DEAD" => row[d] = "DEAD"
    BY <1>4
    DEF Dispatching, Calling, DispatchIncident, DispatchTest, CreateRow, Add, CreateFails,
        CallDies, TypeInv
  <2>3. \A d \in Delivery : queue'[d] = queue[d] \/ queue[d] = AbsentJob
    BY <1>4
    DEF Dispatching, Calling, DispatchIncident, DispatchTest, CreateRow, Add, CreateFails,
        CallDies, TypeInv
  <2>4. AbsentJob.made = 0 /\ AbsentJob.holder = NoWorker
    BY DEF AbsentJob
  <2>5. Dead
    BY <1>d, <2>2, <2>3, <2>4, JobQueueAssumption
  <2>6. \A v \in Worker : Holds(v)
    BY <1>h, <1>o, <2>1, <2>3, <2>4, RunType, JobQueueAssumption
  <2>7. QED
    BY <2>5, <2>6
<1>5. CASE UNCHANGED vars \/ \E t \in Target : Managing(t)
  <2>1. UNCHANGED <<row, queue, worker>>
    BY <1>5 DEF vars, Managing, SetEnabled, Remove
  <2>2. QED
    BY <1>d, <1>o, <2>1
<1>6. QED
  BY <1>1, <1>2, <1>3, <1>4, <1>5 DEF Next, Running, Dispatching

\* The history of an integration: SUCCESS only for what was accepted, and DEAD only for
\* a job without attempts left, unless a worker hung.
THEOREM HistoryHonest == Spec => []HonestHistory
<1>1. Init => SuccessInv /\ AttemptInv
  BY DEF Init, SuccessInv, AttemptInv, Idle
<1>2. SuccessInv /\ AttemptInv => HonestHistory
  BY DEF SuccessInv, AttemptInv, HonestHistory
<1>3. QED
  BY <1>1, <1>2, SuccessInvNext, AttemptInvNext, TypeInvAlways, PTL DEF Spec


-----------------------------------------------------------------------------
(* One event, one send *)

\* The runs of a delivery that may still send its message, or have it sent again by
\* throwing.
MayStages == {"start", "send", "failed"}
MaySend(d) == {w \in Worker : worker[w].stage \in MayStages /\ worker[w].on = d}

\* What was sent, what may still be and what the queue is due to hand out add up to
\* one for the delivery and one for each thing that went wrong.
SendsInv ==
  \A d \in Delivery : AtMost(MaySend(d), 1 + RunMishaps - sent[d] - Due(queue[d]))

\* Only what goes wrong with a run of the processor counts as its mishap.
LEMMA MishapCounts ==
  ASSUME TypeInv
  PROVE  /\ RunMishaps \in Nat
         /\ \A m \in {"crash", "lock", "answer", "database"} :
              GoesWrong(m) => RunMishaps' = RunMishaps + 1
         /\ GoesWrong("dispatch") => RunMishaps' = RunMishaps
         /\ UNCHANGED mishaps => RunMishaps' = RunMishaps
<1>1. ASSUME NEW m \in Mishap, GoesWrong(m)
      PROVE  /\ mishaps'[m] = mishaps[m] + 1
             /\ \A o \in Mishap \ {m} : mishaps'[o] = mishaps[o]
  BY <1>1 DEF GoesWrong, TypeInv
<1>2. \A o \in Mishap : mishaps[o] \in Nat
  BY DEF TypeInv
<1>3. QED
  BY <1>1, <1>2 DEF RunMishaps, Mishap

\* Steps that no run makes leave the sums alone.
LEMMA SendsQuiet ==
  ASSUME TypeInv, SendsInv, worker' = worker, sent' = sent, RunMishaps' = RunMishaps,
         \A d \in Delivery : Due(queue'[d]) <= Due(queue[d])
  PROVE  SendsInv'
<1> SUFFICES ASSUME NEW d \in Delivery
             PROVE  AtMost(MaySend(d)', 1 + RunMishaps' - sent'[d] - Due(queue'[d]))
  BY DEF SendsInv
<1>1. MaySend(d)' = MaySend(d)
  BY DEF MaySend
<1>2. /\ RunMishaps \in Nat /\ sent[d] \in Nat
      /\ Due(queue[d]) \in {0, 1} /\ Due(queue'[d]) \in {0, 1}
  BY MishapCounts DEF TypeInv, Due
<1> DEFINE n == 1 + RunMishaps - sent[d] - Due(queue[d])
           m == 1 + RunMishaps' - sent'[d] - Due(queue'[d])
<1>3. n \in Int /\ m \in Int /\ n <= m
  BY <1>2
<1>4. AtMost(MaySend(d), n)
  BY DEF SendsInv
<1> HIDE DEF n, m
<1>5. QED
  BY <1>1, <1>3, <1>4, AtMostFewer DEF m

\* A run changes the sum of its own delivery alone, and that one must balance.
LEMMA SendsOwn ==
  ASSUME TypeInv, SendsInv, NEW w \in Worker, Running(w), NEW d \in Delivery, On(w) = d,
         NEW moved \in Int, AtMost(MaySend(d)', moved),
         moved <= 1 + RunMishaps' - sent'[d] - Due(queue'[d]),
         RunMishaps' \in Nat, RunMishaps <= RunMishaps', sent'[d] \in Nat
  PROVE  SendsInv'
<1> SUFFICES ASSUME NEW e \in Delivery
             PROVE  AtMost(MaySend(e)', 1 + RunMishaps' - sent'[e] - Due(queue'[e]))
  BY DEF SendsInv
<1>1. /\ RunMishaps \in Nat /\ sent[e] \in Nat
      /\ Due(queue[e]) \in {0, 1} /\ Due(queue'[e]) \in {0, 1}
      /\ Due(queue'[d]) \in {0, 1}
  BY MishapCounts DEF TypeInv, Due
<1> DEFINE goal == 1 + RunMishaps' - sent'[e] - Due(queue'[e])
           before == 1 + RunMishaps - sent[e] - Due(queue[e])
<1>2. CASE e = d
  <2>1. goal \in Int /\ moved <= goal
    BY <1>1, <1>2
  <2> HIDE DEF goal
  <2>2. AtMost(MaySend(e)', goal)
    BY <1>2, <2>1, AtMostFewer
  <2>3. QED
    BY <2>2 DEF goal
<1>3. CASE e # d
  <2>1. MaySend(e)' = MaySend(e)
    <3>1. /\ worker[w].on = d
          /\ worker'[w].stage # "idle" => worker'[w].on = d
          /\ \A v \in Worker \ {w} : worker'[v] = worker[v]
      BY RunMoves DEF On
    <3>2. QED
      BY <1>3, <3>1 DEF MaySend, MayStages
  <2>2. sent'[e] = sent[e] /\ queue'[e] = queue[e]
    BY <1>3, RunMoves DEF TypeInv
  <2>3. before \in Int /\ goal \in Int /\ before <= goal
    BY <1>1, <2>2
  <2>4. AtMost(MaySend(e), before)
    BY DEF SendsInv
  <2> HIDE DEF goal, before
  <2>5. QED
    BY <2>1, <2>3, <2>4, AtMostFewer DEF goal
<1>4. QED
  BY <1>2, <1>3

\* What a run makes of the sum of its own delivery.
LEMMA SendsRun ==
  ASSUME TypeInv, TypeInv', SendsInv, NEW w \in Worker, Running(w)
  PROVE  SendsInv'
<1>1. worker[w].stage # "idle" /\ On(w) \in Delivery
  BY RunMoves, RunType
<1> SUFFICES ASSUME NEW d \in Delivery, On(w) = d PROVE SendsInv'
  BY <1>1
<1> DEFINE Bal == 1 + RunMishaps - sent[d] - Due(queue[d])
           Goal == 1 + RunMishaps' - sent'[d] - Due(queue'[d])
<1>2. /\ RunMishaps \in Nat /\ RunMishaps' \in Nat
      /\ sent[d] \in Nat /\ sent'[d] \in Nat
      /\ Due(queue[d]) \in {0, 1} /\ Due(queue'[d]) \in {0, 1}
  BY DEF TypeInv, RunMishaps, Mishap, Due
<1>3. Bal \in Int /\ AtMost(MaySend(d), Bal)
  BY <1>2 DEF SendsInv
<1>4. /\ MaySend(d)' \subseteq MaySend(d) \cup {w}
      /\ worker[w].stage \in MayStages <=> w \in MaySend(d)
      /\ worker'[w].stage \notin MayStages => w \notin MaySend(d)'
  BY RunMoves DEF MaySend, On
<1>5. /\ AtMost(MaySend(d)', Bal + 1)
      /\ worker[w].stage \in MayStages \/ worker'[w].stage \notin MayStages
           => AtMost(MaySend(d)', Bal)
      /\ worker[w].stage \in MayStages /\ worker'[w].stage \notin MayStages
           => AtMost(MaySend(d)', Bal - 1)
  <2> HIDE DEF Bal
  <2>1. AtMost(MaySend(d)', Bal + 1)
    BY <1>3, <1>4, AtMostMore
  <2>2. MaySend(d)' \subseteq MaySend(d) => AtMost(MaySend(d)', Bal)
    BY <1>3, AtMostFewer
  <2>3. w \in MaySend(d) /\ MaySend(d)' \subseteq MaySend(d) \ {w}
          => AtMost(MaySend(d)', Bal - 1)
    BY <1>3, AtMostLess
  <2>4. QED
    BY <1>4, <2>1, <2>2, <2>3
<1>6. ASSUME NEW moved \in Int, AtMost(MaySend(d)', moved), moved <= Goal,
             RunMishaps <= RunMishaps'
      PROVE  SendsInv'
  BY <1>2, <1>6, SendsOwn
<1>7. /\ Leave(w, Completed(queue[d])) => Due(queue'[d]) <= Due(queue[d])
      /\ Leave(w, Thrown(queue[d])) => Due(queue'[d]) <= Due(queue[d]) + 1
      /\ LoseLock(w) => Due(queue'[d]) <= Due(queue[d]) + 1
      /\ worker' = [worker EXCEPT ![w] = Idle] => worker'[w].stage = "idle"
  BY <1>2, DueChanges, LeaveAt DEF Leave, LoseLock, TypeInv
<1>8. \A m \in {"crash", "lock", "answer", "database"} :
        GoesWrong(m) => RunMishaps' = RunMishaps + 1
  BY MishapCounts
<1>9. UNCHANGED mishaps => RunMishaps' = RunMishaps
  BY MishapCounts
<1>10. Accepted(w) => sent'[d] = sent[d] + 1
  BY DEF Accepted, TypeInv
<1>11. \A stage \in RunStage : Goto(w, stage) => worker'[w].stage = stage
  BY <1>1, GotoAt
<1> HIDE DEF Bal, Goal
<1>a. CASE Start(w)
  <2>1. /\ worker[w].stage = "start" /\ worker'[w].stage = "send"
        /\ UNCHANGED <<queue, sent, mishaps>>
    BY <1>a, <1>11 DEF Start, At, RunStage
  <2>2. AtMost(MaySend(d)', Bal) /\ Bal <= Goal
    BY <2>1, <1>2, <1>5, <1>9 DEF MayStages, Bal, Goal
  <2>3. QED
    BY <2>1, <2>2, <1>2, <1>3, <1>6, <1>9
<1>b. CASE Send(w)
  <2>1. worker[w].stage = "send" /\ worker[w].stage \in MayStages /\ UNCHANGED queue
    BY <1>b DEF Send, At, MayStages
  <2>2. CASE Goto(w, "skipped") /\ UNCHANGED <<sent, mishaps>>
    <3>1. AtMost(MaySend(d)', Bal) /\ Bal <= Goal
      BY <2>1, <2>2, <1>2, <1>5, <1>9 DEF Bal, Goal
    <3>2. QED
      BY <2>2, <3>1, <1>2, <1>3, <1>6, <1>9
  <2>3. CASE Accepted(w) /\ Goto(w, "ok") /\ UNCHANGED mishaps
    <3>1. worker'[w].stage \notin MayStages
      BY <2>3, <1>11 DEF RunStage, MayStages
    <3>2. AtMost(MaySend(d)', Bal - 1) /\ Bal - 1 <= Goal
      BY <2>1, <2>3, <3>1, <1>2, <1>5, <1>9, <1>10 DEF Bal, Goal
    <3>3. QED
      BY <2>3, <3>2, <1>2, <1>3, <1>6, <1>9
  <2>4. CASE Goto(w, "failed") /\ UNCHANGED <<sent, mishaps>>
    <3>1. AtMost(MaySend(d)', Bal) /\ Bal <= Goal
      BY <2>1, <2>4, <1>2, <1>5, <1>9 DEF Bal, Goal
    <3>2. QED
      BY <2>4, <3>1, <1>2, <1>3, <1>6, <1>9
  <2>5. CASE Accepted(w) /\ Goto(w, "failed") /\ GoesWrong("answer")
    <3>1. RunMishaps' = RunMishaps + 1
      BY <2>5, <1>8
    <3>2. AtMost(MaySend(d)', Bal) /\ Bal <= Goal
      BY <2>1, <2>5, <3>1, <1>2, <1>5, <1>10 DEF Bal, Goal
    <3>3. QED
      BY <3>1, <3>2, <1>2, <1>3, <1>6
  <2>6. QED
    BY <1>b, <2>2, <2>3, <2>4, <2>5 DEF Send
<1>c. CASE Skip(w) \/ Succeed(w)
  <2>1. /\ worker'[w].stage = "idle" /\ Due(queue'[d]) <= Due(queue[d])
        /\ UNCHANGED <<sent, mishaps>>
    BY <1>c, <1>7 DEF Skip, Succeed, Leave
  <2>2. AtMost(MaySend(d)', Bal) /\ Bal <= Goal
    BY <2>1, <1>2, <1>5, <1>9 DEF MayStages, Bal, Goal
  <2>3. QED
    BY <2>1, <2>2, <1>2, <1>3, <1>6, <1>9
<1>d. CASE Fail(w)
  <2>1. /\ worker[w].stage = "failed" /\ worker'[w].stage = "idle"
        /\ Due(queue'[d]) <= Due(queue[d]) + 1 /\ UNCHANGED <<sent, mishaps>>
    BY <1>d, <1>7 DEF Fail, At, Leave
  <2>2. AtMost(MaySend(d)', Bal - 1) /\ Bal - 1 <= Goal
    BY <2>1, <1>2, <1>5, <1>9 DEF MayStages, Bal, Goal
  <2>3. QED
    BY <2>1, <2>2, <1>2, <1>3, <1>6, <1>9
<1>e. CASE DatabaseFails(w) \/ WorkerCrashes(w) \/ WorkerHangs(w)
  <2>1. RunMishaps' = RunMishaps + 1 /\ UNCHANGED sent
    BY <1>e, <1>8 DEF DatabaseFails, WorkerCrashes, WorkerHangs
  <2>2. Due(queue'[d]) <= Due(queue[d]) + 1
    BY <1>e, <1>7 DEF DatabaseFails, WorkerCrashes, WorkerHangs
  <2>3. worker'[w].stage = "idle" \/ worker'[w] = worker[w]
    BY <1>e, <1>7 DEF DatabaseFails, WorkerCrashes, WorkerHangs, Leave
  <2>4. AtMost(MaySend(d)', Bal) /\ Bal <= Goal
    BY <2>1, <2>2, <2>3, <1>2, <1>5 DEF MayStages, Bal, Goal
  <2>5. QED
    BY <2>1, <2>4, <1>2, <1>3, <1>6
<1>f. QED
  BY <1>a, <1>b, <1>c, <1>d, <1>e DEF Running, Process

\* A worker takes a job that was due: it may send instead.
LEMMA SendsTake ==
  ASSUME TypeInv, SendsInv, NEW w \in Worker, NEW d \in Delivery, Take(w, d)
  PROVE  SendsInv'
<1> SUFFICES ASSUME NEW e \in Delivery
             PROVE  AtMost(MaySend(e)', 1 + RunMishaps' - sent'[e] - Due(queue'[e]))
  BY DEF SendsInv
<1>1. /\ RunMishaps \in Nat /\ RunMishaps' = RunMishaps
      /\ sent[e] \in Nat /\ sent' = sent /\ Due(queue[e]) \in {0, 1}
  BY MishapCounts DEF Take, TypeInv, Due
<1> DEFINE n == 1 + RunMishaps - sent[e] - Due(queue[e])
           m == 1 + RunMishaps' - sent'[e] - Due(queue'[e])
<1>2. n \in Int /\ AtMost(MaySend(e), n)
  BY <1>1 DEF SendsInv
<1>3. CASE e = d
  <2>1. Due(queue[e]) = 1 /\ Due(queue'[e]) = 0
    BY <1>3, TakeType, DueChanges DEF Take, TypeInv
  <2>2. m = n + 1
    BY <1>1, <2>1
  <2>3. MaySend(e)' \subseteq MaySend(e) \cup {w}
    BY TakeType DEF MaySend
  <2> HIDE DEF n, m
  <2>4. QED
    BY <1>2, <2>2, <2>3, AtMostMore DEF m
<1>4. CASE e # d
  <2>1. m \in Int /\ n <= m
    BY <1>1, <1>4, TakeType
  <2>2. MaySend(e)' \subseteq MaySend(e)
    BY <1>4, TakeType DEF MaySend
  <2> HIDE DEF n, m
  <2>3. QED
    BY <1>2, <2>1, <2>2, AtMostFewer DEF m
<1>5. QED
  BY <1>3, <1>4

LEMMA SendsInvNext == TypeInv /\ TypeInv' /\ SendsInv /\ [Next]_vars => SendsInv'
<1> SUFFICES ASSUME TypeInv, TypeInv', SendsInv, [Next]_vars PROVE SendsInv'
  OBVIOUS
<1>0. \A d \in Delivery : Due(queue[d]) \in {0, 1} /\ Due(queue'[d]) \in {0, 1}
  BY DEF Due
<1>1. ASSUME NEW d \in Delivery, Recover(d) PROVE SendsInv'
  <2>1. Due(queue[d]) = 1
    BY <1>1 DEF Recover, Due
  <2>2. \A e \in Delivery : Due(queue'[e]) <= Due(queue[e])
    BY <1>0, <1>1, <2>1, RecoverType
  <2>3. UNCHANGED <<worker, sent, mishaps>>
    BY <1>1 DEF Recover
  <2>4. QED
    BY <2>2, <2>3, MishapCounts, SendsQuiet
<1>2. ASSUME NEW k \in Call \cup Test, Dispatching(k) PROVE SendsInv'
  <2>1. UNCHANGED <<worker, sent>>
    BY <1>2
    DEF Dispatching, Calling, DispatchIncident, DispatchTest, CreateRow, Add, CreateFails, CallDies
  <2>2. UNCHANGED mishaps \/ GoesWrong("dispatch")
    BY <1>2
    DEF Dispatching, Calling, DispatchIncident, DispatchTest, CreateRow, Add, CreateFails, CallDies
  <2>3. \A d \in Delivery : queue'[d] = queue[d] \/ queue[d] = AbsentJob
    BY <1>2
    DEF Dispatching, Calling, DispatchIncident, DispatchTest, CreateRow, Add, CreateFails,
        CallDies, TypeInv
  <2>4. Due(AbsentJob) = 1
    BY DEF AbsentJob, Due
  <2>5. \A d \in Delivery : Due(queue'[d]) <= Due(queue[d])
    BY <1>0, <2>3, <2>4
  <2>6. QED
    BY <2>1, <2>2, <2>5, MishapCounts, SendsQuiet
<1>3. CASE UNCHANGED vars \/ \E t \in Target : Managing(t)
  <2>1. UNCHANGED <<queue, worker, sent, mishaps>>
    BY <1>3 DEF vars, Managing, SetEnabled, Remove
  <2>2. QED
    BY <1>0, <2>1, MishapCounts, SendsQuiet
<1>4. QED
  BY <1>1, <1>2, <1>3, SendsRun, SendsTake DEF Next, Running, Dispatching

\* "replaying the same event never creates ... a second send": a target is sent an
\* event once, and once more for each thing that went wrong with a run.
THEOREM SentOnce == Spec => []SentOncePerEvent
<1>1. Init => SendsInv
  <2> SUFFICES ASSUME Init, NEW d \in Delivery
               PROVE  AtMost(MaySend(d), 1 + RunMishaps - sent[d] - Due(queue[d]))
    BY DEF SendsInv
  <2>1. MaySend(d) = {}
    BY DEF Init, Idle, MaySend, MayStages
  <2>2. sent[d] = 0 /\ RunMishaps = 0 /\ Due(queue[d]) = 1
    BY DEF Init, RunMishaps, Mishap, Due, AbsentJob
  <2>3. AtMost({}, 0)
    BY FS_EmptySet DEF AtMost
  <2>4. 1 + RunMishaps - sent[d] - Due(queue[d]) = 0
    BY <2>2
  <2>5. QED
    BY <2>1, <2>3, <2>4
<1>2. TypeInv /\ SendsInv => SentOncePerEvent
  <2> SUFFICES ASSUME TypeInv, SendsInv, NEW d \in Delivery
               PROVE  sent[d] <= 1 + RunMishaps
    BY DEF SentOncePerEvent
  <2>1. 0 <= 1 + RunMishaps - sent[d] - Due(queue[d])
    BY AtMostNone DEF SendsInv
  <2>2. RunMishaps \in Nat /\ sent[d] \in Nat /\ Due(queue[d]) \in {0, 1}
    BY MishapCounts DEF TypeInv, Due
  <2>3. QED
    BY <2>1, <2>2
<1>3. QED
  BY <1>1, <1>2, SendsInvNext, TypeInvAlways, PTL DEF Spec


-----------------------------------------------------------------------------
(* A fan-out forgets nobody *)

\* A call is about to queue the job of a delivery.
Adding(calls, d) ==
  \E j \in Call \cup Test :
    /\ calls[j].stage = "add" /\ d[2] \in calls[j].hand /\ calls[j].event = d[1]

\* A row, or a target that a call has behind it, has its job or is about to get it.
FanOutInv ==
  mishaps["dispatch"] = 0 =>
    /\ \A d \in Delivery : row[d] # "NONE" => queue[d].state # "absent" \/ Adding(call, d)
    /\ \A k \in Call \cup Test :
         /\ call[k].stage # "dead"
         /\ call[k].stage = "done" => call[k].todo = {}
         /\ call[k].stage = "add" => \A s, t \in call[k].hand : s = t
         /\ call[k].stage # "unused" =>
              \A t \in call[k].targets \ call[k].todo :
                queue[<<call[k].event, t>>].state # "absent" \/ Adding(call, <<call[k].event, t>>)

AbsentInv == \A d \in Delivery : queue[d].state = "absent" => queue[d] = AbsentJob

\* What no call does keeps every job that is there, and adds none that is not as new.
LEMMA QueueKeeps ==
  ASSUME TypeInv, AbsentInv, NEW d \in Delivery, Recover(d) \/ \E w \in Worker : Take(w, d)
  PROVE  AbsentInv' /\ \A e \in Delivery : queue[e].state # "absent" => queue'[e].state # "absent"
<1>1. queue[d] \in QueuedJob /\ \A e \in Delivery \ {d} : queue'[e] = queue[e]
  BY RecoverType, TakeType DEF TypeInv
<1>2. queue'[d].state # "absent"
  <2>1. CASE Recover(d)
    <3>1. Stalled(queue[d]).state # "absent"
      BY <1>1 DEF Stalled, QueuedJob
    <3>2. QED
      BY <2>1, <3>1, RecoverType
  <2>2. CASE \E w \in Worker : Take(w, d)
    <3>1. PICK w \in Worker : Take(w, d)
      BY <2>2
    <3>2. Taken(queue[d], w).state # "absent"
      BY <1>1 DEF Taken, QueuedJob
    <3>3. QED
      BY <3>1, <3>2, TakeType
  <2>3. QED
    BY <2>1, <2>2
<1>3. QED
  BY <1>1, <1>2 DEF AbsentInv

LEMMA RunKeeps ==
  ASSUME TypeInv, NEW w \in Worker, Running(w), queue[On(w)].state # "absent"
  PROVE  /\ \A e \in Delivery : queue[e].state # "absent" => queue'[e].state # "absent"
         /\ AbsentInv => AbsentInv'
<1>1. On(w) \in Delivery
  BY RunMoves, RunType
<1>2. \A e \in Delivery \ {On(w)} : queue'[e] = queue[e]
  BY RunMoves DEF TypeInv
<1>3. queue'[On(w)].state # "absent"
  BY <1>1, RunMoves, LeftKeeps DEF TypeInv
<1>4. QED
  BY <1>2, <1>3 DEF AbsentInv

\* A run works for a job that is there; a job that is there stays.
PresentInv ==
  AbsentInv /\ \A w \in Worker : worker[w].stage # "idle" => queue[On(w)].state # "absent"

LEMMA PresentInvNext ==
  TypeInv /\ PresentInv /\ [Next]_vars
    => PresentInv' /\ \A e \in Delivery : queue[e].state # "absent" => queue'[e].state # "absent"
<1> SUFFICES ASSUME TypeInv, PresentInv, [Next]_vars
             PROVE  /\ PresentInv'
                    /\ \A e \in Delivery : queue[e].state # "absent" => queue'[e].state # "absent"
  OBVIOUS
<1> DEFINE Stay == \A e \in Delivery : queue[e].state # "absent" => queue'[e].state # "absent"
<1>r. \A v \in Worker : worker[v].stage # "idle" => On(v) \in Delivery
  BY RunType
<1>1. ASSUME NEW w \in Worker, Running(w) PROVE PresentInv' /\ Stay
  <2>1. AbsentInv' /\ Stay
    BY <1>1, RunKeeps, RunMoves DEF PresentInv
  <2>2. ASSUME NEW v \in Worker, worker'[v].stage # "idle"
        PROVE  queue'[worker'[v].on].state # "absent"
    <3>1. worker[v].stage # "idle" /\ worker'[v].on = On(v)
      BY <1>1, <2>2, RunMoves DEF On
    <3>2. QED
      BY <1>r, <2>1, <3>1 DEF PresentInv
  <2>3. QED
    BY <2>1, <2>2 DEF PresentInv, On
<1>2. ASSUME NEW d \in Delivery, Recover(d) PROVE PresentInv' /\ Stay
  <2>1. AbsentInv' /\ Stay
    BY <1>2, QueueKeeps DEF PresentInv
  <2>2. worker' = worker
    BY <1>2 DEF Recover
  <2>3. QED
    BY <1>r, <2>1, <2>2 DEF PresentInv, On
<1>3. ASSUME NEW w \in Worker, NEW d \in Delivery, Take(w, d) PROVE PresentInv' /\ Stay
  <2>1. AbsentInv' /\ Stay /\ queue[d].state = "waiting"
    BY <1>3, QueueKeeps DEF PresentInv, Take
  <2>2. ASSUME NEW v \in Worker, worker'[v].stage # "idle"
        PROVE  queue'[worker'[v].on].state # "absent"
    <3>1. CASE v = w
      BY <1>3, <2>1, <3>1, TakeType
    <3>2. CASE v # w
      <4>1. worker'[v] = worker[v]
        BY <1>3, <3>2, TakeType
      <4>2. QED
        BY <1>r, <2>1, <2>2, <4>1 DEF PresentInv, On
    <3>3. QED
      BY <3>1, <3>2
  <2>3. QED
    BY <2>1, <2>2 DEF PresentInv, On
<1>4. ASSUME NEW k \in Call \cup Test, Dispatching(k) PROVE PresentInv' /\ Stay
  <2>1. worker' = worker
    BY <1>4
    DEF Dispatching, Calling, DispatchIncident, DispatchTest, CreateRow, Add, CreateFails, CallDies
  <2>2. \A d \in Delivery : queue'[d] = queue[d] \/ queue'[d] = Added
    BY <1>4
    DEF Dispatching, Calling, DispatchIncident, DispatchTest, CreateRow, Add, CreateFails,
        CallDies, TypeInv
  <2>3. Added.state # "absent"
    BY DEF Added, AbsentJob
  <2>4. AbsentInv' /\ Stay
    BY <2>2, <2>3 DEF PresentInv, AbsentInv
  <2>5. QED
    BY <1>r, <2>1, <2>4 DEF PresentInv, On
<1>5. ASSUME UNCHANGED <<queue, worker>> PROVE PresentInv' /\ Stay
  BY <1>5 DEF PresentInv, AbsentInv, On
<1>6. QED
  BY <1>1, <1>2, <1>3, <1>4, <1>5
  DEF Next, Running, Dispatching, vars, Managing, SetEnabled, Remove

\* Steps that leave the calls alone and no row where none was.
LEMMA FanOutQuiet ==
  ASSUME TypeInv, FanOutInv, call' = call,
         mishaps'["dispatch"] = 0 => mishaps["dispatch"] = 0,
         \A d \in Delivery : row'[d] # "NONE" => row[d] # "NONE" \/ queue[d].state # "absent",
         \A d \in Delivery : queue[d].state # "absent" => queue'[d].state # "absent"
  PROVE  FanOutInv'
<1> SUFFICES ASSUME mishaps'["dispatch"] = 0 PROVE FanOutInv'
  BY DEF FanOutInv
<1>1. \A d : Adding(call', d) = Adding(call, d)
  OBVIOUS
<1>2. \A k \in Call \cup Test : call[k].stage # "unused" =>
        \A t \in call[k].targets : <<call[k].event, t>> \in Delivery
  BY DEF TypeInv, CallState, Delivery, Unused
<1>3. \A d \in Delivery : row'[d] # "NONE" => queue'[d].state # "absent" \/ Adding(call', d)
  BY <1>1 DEF FanOutInv
<1>4. \A k \in Call \cup Test : call[k].stage # "unused" =>
        \A t \in call[k].targets \ call[k].todo :
          queue'[<<call[k].event, t>>].state # "absent" \/ Adding(call', <<call'[k].event, t>>)
  BY <1>1, <1>2 DEF FanOutInv
<1>5. \A k \in Call \cup Test :
        /\ call[k].stage # "dead"
        /\ call[k].stage = "done" => call[k].todo = {}
        /\ call[k].stage = "add" => \A s, t \in call[k].hand : s = t
  BY DEF FanOutInv
<1>6. QED
  BY <1>3, <1>4, <1>5 DEF FanOutInv


\* A call that moves leaves a job, or a call about to add one, wherever one was.
LEMMA FanOutMoves ==
  ASSUME TypeInv, TypeInv', FanOutInv, mishaps' = mishaps, NEW k \in Call \cup Test,
         \A j \in (Call \cup Test) \ {k} : call'[j] = call[j],
         \A d \in Delivery : Adding(call, d) => Adding(call', d) \/ queue'[d].state # "absent",
         \A d \in Delivery : row'[d] # "NONE" => row[d] # "NONE" \/ Adding(call', d),
         \A d \in Delivery : queue[d].state # "absent" => queue'[d].state # "absent",
         call'[k].stage # "dead",
         call'[k].stage = "done" => call'[k].todo = {},
         call'[k].stage = "add" => \A s, t \in call'[k].hand : s = t,
         \A t \in call'[k].targets \ call'[k].todo :
           LET d == <<call'[k].event, t>> IN queue'[d].state # "absent" \/ Adding(call', d)
  PROVE  FanOutInv'
<1> SUFFICES ASSUME mishaps["dispatch"] = 0 PROVE FanOutInv'
  BY DEF FanOutInv
<1>1. \A j \in Call \cup Test : call[j].stage # "unused" =>
        \A t \in call[j].targets : <<call[j].event, t>> \in Delivery
  BY DEF TypeInv, CallState, Delivery, Unused
<1>2. \A d \in Delivery : row'[d] # "NONE" => queue'[d].state # "absent" \/ Adding(call', d)
  BY DEF FanOutInv
<1>3. \A j \in Call \cup Test : call'[j].stage # "unused" =>
        \A t \in call'[j].targets \ call'[j].todo :
          queue'[<<call'[j].event, t>>].state # "absent" \/ Adding(call', <<call'[j].event, t>>)
  <2>1. ASSUME NEW j \in (Call \cup Test) \ {k}, call[j].stage # "unused",
               NEW t \in call[j].targets \ call[j].todo
        PROVE  queue'[<<call[j].event, t>>].state # "absent" \/ Adding(call', <<call'[j].event, t>>)
    <3>1. <<call[j].event, t>> \in Delivery /\ call'[j].event = call[j].event
      BY <1>1, <2>1
    <3>2. QED
      BY <2>1, <3>1 DEF FanOutInv
  <2>2. QED
    BY <2>1
<1>4. \A j \in Call \cup Test :
        /\ call'[j].stage # "dead"
        /\ call'[j].stage = "done" => call'[j].todo = {}
        /\ call'[j].stage = "add" => \A s, t \in call'[j].hand : s = t
  BY DEF FanOutInv
<1>5. QED
  BY <1>2, <1>3, <1>4 DEF FanOutInv


\* The calls, one operation at a time.
LEMMA FanOutCalls ==
  ASSUME TypeInv, TypeInv', AbsentInv, FanOutInv, NEW k \in Call \cup Test, Dispatching(k),
         \A d \in Delivery : queue[d].state # "absent" => queue'[d].state # "absent"
  PROVE  FanOutInv'
<1> SUFFICES ASSUME mishaps'["dispatch"] = 0 PROVE FanOutInv'
  BY DEF FanOutInv
<1>1. ~GoesWrong("dispatch")
  <2>1. mishaps["dispatch"] \in Nat
    BY DEF TypeInv, Mishap
  <2>2. QED
    BY <2>1 DEF GoesWrong, TypeInv, Mishap
<1>2. Calling(k)
  BY <1>1 DEF Dispatching, CreateFails, CallDies
<1>3. mishaps' = mishaps
  BY <1>2 DEF Calling, DispatchIncident, DispatchTest, CreateRow, Add
<1>4. CASE DispatchIncident(k) \/ DispatchTest(k)
  <2>1. PICK e, targets : FanOut(k, e, targets)
    BY <1>4 DEF DispatchIncident, DispatchTest
  <2>2. /\ call[k].stage = "unused" /\ UNCHANGED <<row, queue>>
    BY <1>4 DEF DispatchIncident, DispatchTest, Unused
  <2>3. /\ call'[k] = [stage |-> IF targets = {} THEN "done" ELSE "create", event |-> e,
                       todo |-> targets, hand |-> {}, targets |-> targets]
        /\ \A j \in (Call \cup Test) \ {k} : call'[j] = call[j]
    BY <2>1 DEF FanOut, TypeInv
  <2>4. \A d \in Delivery : Adding(call, d) => Adding(call', d)
    BY <2>2, <2>3 DEF Adding
  <2>5. QED
    BY <1>3, <2>2, <2>3, <2>4, FanOutMoves
<1>5. ASSUME NEW t \in Target, CreateRow(k, t) PROVE FanOutInv'
  <2> DEFINE d0 == <<call[k].event, t>>
  <2>1. call[k] \in CallState /\ call[k].stage = "create" /\ d0 \in Delivery /\ queue' = queue
    BY <1>5 DEF CreateRow, TypeInv, Unused, CallState, Delivery
  <2>2. CASE row[d0] = "NONE"
    <3>1. /\ call'[k].stage = "add" /\ call'[k].hand = {t} /\ call'[k].event = call[k].event
          /\ call'[k].todo = call[k].todo /\ call'[k].targets = call[k].targets
          /\ \A j \in (Call \cup Test) \ {k} : call'[j] = call[j]
          /\ \A d \in Delivery \ {d0} : row'[d] = row[d]
      BY <1>5, <2>1, <2>2 DEF CreateRow, TypeInv, CallState
    <3>2. \A d \in Delivery : Adding(call, d) => Adding(call', d)
      BY <2>1, <3>1 DEF Adding
    <3>3. Adding(call', d0)
      BY <3>1 DEF Adding
    <3>4. \A s \in call[k].targets \ call[k].todo :
            queue[<<call[k].event, s>>].state # "absent" \/ Adding(call, <<call[k].event, s>>)
      BY <1>3, <2>1 DEF FanOutInv
    <3>5. \A s \in call[k].targets : <<call[k].event, s>> \in Delivery
      BY <2>1 DEF CallState, Delivery
    <3>6. \A s \in call'[k].targets \ call'[k].todo :
            LET d == <<call'[k].event, s>>
            IN  queue'[d].state # "absent" \/ Adding(call', d)
      BY <2>1, <3>1, <3>2, <3>4, <3>5
    <3>7. QED
      BY <1>3, <2>1, <3>1, <3>2, <3>3, <3>6, FanOutMoves
  <2>3. CASE row[d0] # "NONE"
    <3>1. /\ call'[k].todo = call[k].todo \ {t} /\ call'[k].event = call[k].event
          /\ call'[k].targets = call[k].targets /\ call'[k].stage \in {"done", "create"}
          /\ call'[k].stage = "done" => call'[k].todo = {}
          /\ \A j \in (Call \cup Test) \ {k} : call'[j] = call[j]
          /\ row' = row
      BY <1>5, <2>1, <2>3 DEF CreateRow, NextTarget, TypeInv, CallState
    <3>2. \A d \in Delivery : Adding(call, d) => Adding(call', d)
      BY <2>1, <3>1 DEF Adding
    <3>3. queue[d0].state # "absent" \/ Adding(call, d0)
      BY <1>3, <2>1, <2>3 DEF FanOutInv
    <3>4. \A s \in call[k].targets \ call[k].todo :
            queue[<<call[k].event, s>>].state # "absent" \/ Adding(call, <<call[k].event, s>>)
      BY <1>3, <2>1 DEF FanOutInv
    <3>5. \A s \in call[k].targets : <<call[k].event, s>> \in Delivery
      BY <2>1 DEF CallState, Delivery
    <3>6. \A s \in call'[k].targets \ call'[k].todo :
            LET d == <<call'[k].event, s>>
            IN  queue'[d].state # "absent" \/ Adding(call', d)
      BY <2>1, <3>1, <3>2, <3>3, <3>4, <3>5
    <3>7. QED
      BY <1>3, <2>1, <3>1, <3>2, <3>6, FanOutMoves
  <2>4. QED
    BY <2>2, <2>3
<1>6. ASSUME NEW t \in Target, Add(k, t) PROVE FanOutInv'
  <2> DEFINE d0 == <<call[k].event, t>>
  <2>1. /\ call[k] \in CallState /\ call[k].stage = "add" /\ t \in call[k].hand
        /\ d0 \in Delivery /\ row' = row
    BY <1>6 DEF Add, TypeInv, Unused, CallState, Delivery
  <2>2. /\ call'[k].todo = call[k].todo \ {t} /\ call'[k].event = call[k].event
        /\ call'[k].targets = call[k].targets /\ call'[k].stage \in {"done", "create"}
        /\ call'[k].stage = "done" => call'[k].todo = {}
        /\ \A j \in (Call \cup Test) \ {k} : call'[j] = call[j]
    BY <1>6, <2>1 DEF Add, NextTarget, TypeInv, CallState
  <2>3. queue'[d0].state # "absent"
    <3>1. queue'[d0] = IF queue[d0] = AbsentJob THEN Added ELSE queue[d0]
      BY <1>6, <2>1 DEF Add, TypeInv
    <3>2. Added.state # "absent"
      BY DEF Added, AbsentJob
    <3>3. QED
      BY <2>1, <3>1, <3>2 DEF AbsentInv
  <2>4. \A d \in Delivery : Adding(call, d) => Adding(call', d) \/ queue'[d].state # "absent"
    <3> SUFFICES ASSUME NEW d \in Delivery, d # d0, Adding(call, d) PROVE Adding(call', d)
      BY <2>3
    <3>1. PICK j \in Call \cup Test :
            call[j].stage = "add" /\ d[2] \in call[j].hand /\ call[j].event = d[1]
      BY DEF Adding
    <3>2. j # k
      <4>1. j = k => d[2] = t /\ d[1] = call[k].event
        BY <1>3, <2>1, <3>1 DEF FanOutInv
      <4>2. d = <<d[1], d[2]>>
        BY DEF Delivery
      <4>3. QED
        BY <4>1, <4>2
    <3>3. QED
      BY <2>2, <3>1, <3>2 DEF Adding
  <2>5. \A s \in call[k].targets \ call[k].todo :
          queue[<<call[k].event, s>>].state # "absent" \/ Adding(call, <<call[k].event, s>>)
    BY <1>3, <2>1 DEF FanOutInv
  <2>6. \A s \in call[k].targets : <<call[k].event, s>> \in Delivery
    BY <2>1 DEF CallState, Delivery
  <2>7. \A s \in call'[k].targets \ call'[k].todo :
          LET d == <<call'[k].event, s>>
          IN  queue'[d].state # "absent" \/ Adding(call', d)
    BY <2>2, <2>3, <2>4, <2>5, <2>6
  <2>8. QED
    BY <1>3, <2>1, <2>2, <2>4, <2>7, FanOutMoves
<1>7. QED
  BY <1>2, <1>4, <1>5, <1>6 DEF Calling

LEMMA FanOutInvNext ==
  TypeInv /\ TypeInv' /\ PresentInv /\ FanOutInv /\ [Next]_vars => FanOutInv'
<1> SUFFICES ASSUME TypeInv, TypeInv', PresentInv, FanOutInv, [Next]_vars PROVE FanOutInv'
  OBVIOUS
<1>1. \A d \in Delivery : queue[d].state # "absent" => queue'[d].state # "absent"
  BY PresentInvNext
<1>2. ASSUME NEW k \in Call \cup Test, Dispatching(k) PROVE FanOutInv'
  BY <1>1, <1>2, FanOutCalls DEF PresentInv
<1>3. mishaps'["dispatch"] = 0 => mishaps["dispatch"] = 0
  <2>1. UNCHANGED mishaps \/ \E m \in Mishap : GoesWrong(m)
    BY OneMishap
  <2>2. \A m \in Mishap : mishaps[m] \in Nat
    BY DEF TypeInv
  <2>3. QED
    BY <2>1, <2>2 DEF GoesWrong, TypeInv, Mishap
<1>4. ASSUME call' = call,
             \A d \in Delivery : row'[d] # "NONE" => row[d] # "NONE" \/ queue[d].state # "absent"
      PROVE  FanOutInv'
  BY <1>1, <1>3, <1>4, FanOutQuiet
<1>5. ASSUME NEW w \in Worker, Running(w) PROVE FanOutInv'
  <2>1. queue[On(w)].state # "absent"
    BY <1>5, RunMoves DEF PresentInv
  <2>2. \A d \in Delivery : row'[d] # "NONE" => row[d] # "NONE" \/ queue[d].state # "absent"
    BY <1>5, <2>1, RunMoves
  <2>3. QED
    BY <1>4, <1>5, <2>2, RunMoves
<1>6. QED
  BY <1>2, <1>4, <1>5
  DEF Next, Running, Dispatching, vars, Managing, SetEnabled, Remove, Recover, Take

\* dispatchIncident and its replays: while no call dies, an event that nobody is telling
\* any more has a job for every target a fan-out of it has read, whichever call made it.
THEOREM NobodyIsForgotten == Spec => []NobodyForgotten
<1>1. Init => PresentInv /\ FanOutInv
  <2> SUFFICES ASSUME Init PROVE PresentInv /\ FanOutInv
    OBVIOUS
  <2>1. PresentInv
    BY DEF Init, PresentInv, AbsentInv, Idle
  <2>2. FanOutInv
    BY DEF Init, FanOutInv, Unused
  <2>3. QED
    BY <2>1, <2>2
<1>2. TypeInv /\ FanOutInv => NobodyForgotten
  <2> SUFFICES ASSUME TypeInv, FanOutInv, mishaps["dispatch"] = 0, NEW k \in Call \cup Test,
                      call[k] # Unused, ~Telling(call[k].event), NEW t \in call[k].targets
               PROVE  queue[<<call[k].event, t>>].state # "absent"
    BY DEF NobodyForgotten
  <2>1. call[k].stage = "done"
    BY DEF Telling
  <2>2. call[k].todo = {}
    BY <2>1 DEF FanOutInv
  <2>3. \/ queue[<<call[k].event, t>>].state # "absent"
        \/ Adding(call, <<call[k].event, t>>)
    BY <2>1, <2>2 DEF FanOutInv
  <2>4. ~Adding(call, <<call[k].event, t>>)
    <3> SUFFICES ASSUME NEW j \in Call \cup Test, call[j].stage = "add",
                        call[j].event = call[k].event
                 PROVE  FALSE
      BY DEF Adding
    <3>1. call[j] # Unused
      BY DEF Unused
    <3>2. QED
      BY <3>1 DEF Telling
  <2>5. QED
    BY <2>3, <2>4
<1>3. QED
  BY <1>1, <1>2, PresentInvNext, FanOutInvNext, TypeInvAlways, PTL DEF Spec

=============================================================================
