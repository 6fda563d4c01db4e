---------------------------- MODULE AlertDelivery ----------------------------
(***************************************************************************)
(* How the alerts of one incident reach its channels: the dispatcher of    *)
(* packages/monitoring/src/alerting/dispatcher.ts, which records a         *)
(* NotificationDelivery per channel and queues a job for it, and the alert *)
(* worker (alerting/processor.ts), which sends it.                         *)
(*                                                                         *)
(* A dispatcher call is made by the check pipeline (the channels bound to  *)
(* the monitor) or by an escalation step (an explicit list).  Every await  *)
(* of the two is an action.  What goes wrong is named and counted:         *)
(*                                                                         *)
(*   dispatch   a call dies between two of its awaits                      *)
(*   crash      a worker dies; its job stalls                              *)
(*   lock       a worker hangs past its lock; its job stalls all the same  *)
(*   answer     the channel got the message, the transport threw           *)
(*   database   a statement of the worker throws                           *)
(***************************************************************************)
EXTENDS JobQueue

CONSTANTS
  Channel,        \* alert channels of the organization
  Transportless,  \* those of a type without transport
  Call,           \* calls of the dispatcher
  MaxMishaps      \* bound: how often something goes wrong

ASSUME DeliveryAssumption ==
  /\ Transportless \subseteq Channel
  /\ MaxMishaps \in Nat

VARIABLES
  enabled,    \* the channels that are enabled and not deleted
  call,       \* the calls of the dispatcher
  row,        \* status of the NotificationDelivery of a call for a channel
  queue,      \* its job
  worker,     \* the runs of the alert processor
  sent,       \* how often its message reached the channel
  noted,      \* its NOTIFICATION_SENT events on the incident's timeline
  mishaps     \* how often something went wrong

vars == <<enabled, call, row, queue, worker, sent, noted, mishaps>>

Delivery == Call \X Channel

Mishap == {"dispatch", "crash", "lock", "answer", "database"}

RowStatus == {"NONE", "PENDING", "SENDING", "DELIVERED", "FAILED"}

CallStage == {"unused", "verify", "create", "add", "dead"}
CallState == [stage : CallStage,
              loop  : {"create", "verify"},   \* where each round of its loop begins
              todo  : SUBSET Channel,         \* channels left
              hand  : SUBSET Channel]         \* the one in hand, once it is chosen

Run  == [stage : {"read", "reject", "start", "send", "deliver", "note", "fail"},
         on    : Delivery]
Idle == [stage |-> "idle"]

Init ==
  /\ enabled = Channel
  /\ call = [k \in Call |-> [stage |-> "unused", loop |-> "create",
                           todo |-> {}, hand |-> {}]]
  /\ row = [d \in Delivery |-> "NONE"]
  /\ queue = [d \in Delivery |-> AbsentJob]
  /\ worker = [w \in Worker |-> Idle]
  /\ sent = [d \in Delivery |-> 0]
  /\ noted = [d \in Delivery |-> 0]
  /\ mishaps = [m \in Mishap |-> 0]

\* What went wrong with runs of the processor; with anything.
RunMishaps == mishaps["crash"] + mishaps["lock"] + mishaps["answer"] + mishaps["database"]
AllMishaps == mishaps["dispatch"] + RunMishaps

GoesWrong(m) ==
  /\ AllMishaps < MaxMishaps
  /\ mishaps' = [mishaps EXCEPT ![m] = @ + 1]

-----------------------------------------------------------------------------
(* The dispatcher *)

Round(k, loop, todo) ==
  call' = [call EXCEPT ![k] = [stage |-> loop, loop |-> loop, todo |-> todo, hand |-> todo]]

InHand(k, stage, c) == call' = [call EXCEPT ![k].stage = stage, ![k].hand = {c}]

\* dispatch: the enabled channels among those bound to the monitor by now.
Dispatch(k) ==
  /\ call[k].stage = "unused"
  /\ \E bound \in SUBSET Channel : Round(k, "create", bound \cap enabled)
  /\ UNCHANGED <<enabled, row, queue, worker, sent, noted, mishaps>>

\* dispatchToChannels: an explicit list ...
DispatchToChannels(k) ==
  /\ call[k].stage = "unused"
  /\ \E listed \in SUBSET Channel : Round(k, "verify", listed)
  /\ UNCHANGED <<enabled, row, queue, worker, sent, noted, mishaps>>

\* ... whose channels are looked up one by one, when their turn comes.
Verify(k, c) ==
  /\ call[k].stage = "verify" /\ c \in call[k].todo
  /\ IF c \in enabled THEN InHand(k, "create", c)
                       ELSE Round(k, "verify", call[k].todo \ {c})
  /\ UNCHANGED <<enabled, row, queue, worker, sent, noted, mishaps>>

\* notificationDelivery.create
CreateRow(k, c) ==
  /\ call[k].stage = "create" /\ c \in call[k].hand
  /\ row' = [row EXCEPT ![<<k, c>>] = "PENDING"]
  /\ InHand(k, "add", c)
  /\ UNCHANGED <<enabled, queue, worker, sent, noted, mishaps>>

\* queue.add
Add(k, c) ==
  /\ call[k].stage = "add" /\ c \in call[k].hand
  /\ queue' = [queue EXCEPT ![<<k, c>>] = Added]
  /\ Round(k, call[k].loop, call[k].todo \ {c})
  /\ UNCHANGED <<enabled, row, worker, sent, noted, mishaps>>

\* Nobody resumes a call that died: its caller starts another one, or none.
CallDies(k) ==
  /\ call[k].todo # {}
  /\ GoesWrong("dispatch")
  /\ call' = [call EXCEPT ![k].stage = "dead", ![k].todo = {}, ![k].hand = {}]
  /\ UNCHANGED <<enabled, row, queue, worker, sent, noted>>

\* alertChannelService.enable, disable and remove.
Toggle(c) ==
  /\ enabled' = IF c \in enabled THEN enabled \ {c} ELSE enabled \cup {c}
  /\ UNCHANGED <<call, row, queue, worker, sent, noted, mishaps>>

-----------------------------------------------------------------------------
(* The alert processor *)

At(w, stage) == worker[w].stage = stage
On(w)        == worker[w].on
Goto(w, stage) == worker' = [worker EXCEPT ![w].stage = stage]

\* The run ends, with the job as given if its lock was kept.
Leave(w, new) ==
  /\ worker' = [worker EXCEPT ![w] = Idle]
  /\ queue' = [queue EXCEPT ![On(w)] = IfHeld(@, w, new)]

Take(w, d) ==
  /\ At(w, "idle")
  /\ queue[d].state = "waiting"
  /\ queue' = [queue EXCEPT ![d] = Taken(@, w)]
  /\ worker' = [worker EXCEPT ![w] = [stage |-> "read", on |-> d]]
  /\ UNCHANGED <<enabled, call, row, sent, noted, mishaps>>

\* Mutant of Read: a row that was delivered is sent again.
ReadBlindly(w) ==
  /\ At(w, "read")
  /\ Goto(w, IF On(w)[2] \in Transportless THEN "reject" ELSE "start")
  /\ UNCHANGED <<enabled, call, row, queue, sent, noted, mishaps>>

\* The row is read once; a delivered one is skipped.
Read(w) ==
  /\ At(w, "read")
  /\ IF row[On(w)] = "DELIVERED"
       THEN Leave(w, Completed(queue[On(w)]))
       ELSE /\ Goto(w, IF On(w)[2] \in Transportless THEN "reject" ELSE "start")
            /\ UNCHANGED queue
  /\ UNCHANGED <<enabled, call, row, sent, noted, mishaps>>

\* Mutant of Reject: a catch-all transport that only logs.
RejectQuietly(w) ==
  /\ At(w, "reject")
  /\ row' = [row EXCEPT ![On(w)] = "DELIVERED"]
  /\ Leave(w, Completed(queue[On(w)]))
  /\ UNCHANGED <<enabled, call, sent, noted, mishaps>>

\* No transport: failed for good, without a retry.
Reject(w) ==
  /\ At(w, "reject")
  /\ row' = [row EXCEPT ![On(w)] = "FAILED"]
  /\ Leave(w, Completed(queue[On(w)]))
  /\ UNCHANGED <<enabled, call, sent, noted, mishaps>>

Start(w) ==
  /\ At(w, "start")
  /\ row' = [row EXCEPT ![On(w)] = "SENDING"]
  /\ Goto(w, "send")
  /\ UNCHANGED <<enabled, call, queue, sent, noted, mishaps>>

Arrive(d) == sent' = [sent EXCEPT ![d] = @ + 1]

\* transport(): the message arrives and is answered, or not, or only the first.
Send(w) ==
  /\ At(w, "send")
  /\ \/ Arrive(On(w)) /\ Goto(w, "deliver") /\ UNCHANGED mishaps
     \/ Goto(w, "fail") /\ UNCHANGED <<sent, mishaps>>
     \/ Arrive(On(w)) /\ Goto(w, "fail") /\ GoesWrong("answer")
  /\ UNCHANGED <<enabled, call, row, queue, noted>>

\* Mutant of Deliver: a channel that was disabled meanwhile fails the delivery.
DeliverIfEnabled(w) ==
  /\ At(w, "deliver")
  /\ IF On(w)[2] \in enabled
       THEN row' = [row EXCEPT ![On(w)] = "DELIVERED"] /\ Goto(w, "note")
       ELSE Goto(w, "fail") /\ UNCHANGED row
  /\ UNCHANGED <<enabled, call, queue, sent, noted, mishaps>>

Deliver(w) ==
  /\ At(w, "deliver")
  /\ row' = [row EXCEPT ![On(w)] = "DELIVERED"]
  /\ Goto(w, "note")
  /\ UNCHANGED <<enabled, call, queue, sent, noted, mishaps>>

\* The NOTIFICATION_SENT entry, the last statement of the try.
Note(w) ==
  /\ At(w, "note")
  /\ noted' = [noted EXCEPT ![On(w)] = @ + 1]
  /\ Leave(w, Completed(queue[On(w)]))
  /\ UNCHANGED <<enabled, call, row, sent, mishaps>>

\* Mutant of GiveUp: the error is swallowed, so the queue never tries again.
GiveUpQuietly(w) ==
  /\ At(w, "fail")
  /\ Leave(w, Completed(queue[On(w)]))
  /\ UNCHANGED <<enabled, call, row, sent, noted, mishaps>>

\* The catch: the row is failed whatever it says by now, and the job thrown.
GiveUp(w) ==
  /\ At(w, "fail")
  /\ row' = [row EXCEPT ![On(w)] = "FAILED"]
  /\ Leave(w, Thrown(queue[On(w)]))
  /\ UNCHANGED <<enabled, call, sent, noted, mishaps>>

\* A statement throws: inside the try it is caught, outside it ends the run.
DatabaseFails(w) ==
  /\ worker[w].stage \in {"read", "reject", "start", "deliver", "note", "fail"}
  /\ GoesWrong("database")
  /\ IF worker[w].stage \in {"deliver", "note"}
       THEN Goto(w, "fail") /\ UNCHANGED queue
       ELSE Leave(w, Thrown(queue[On(w)]))
  /\ UNCHANGED <<enabled, call, row, sent, noted>>

-----------------------------------------------------------------------------
(* The queue *)

LoseLock(w) == queue' = [queue EXCEPT ![On(w)] = IfHeld(@, w, Unlocked(@))]

WorkerCrashes(w) ==
  /\ ~At(w, "idle")
  /\ GoesWrong("crash")
  /\ LoseLock(w)
  /\ worker' = [worker EXCEPT ![w] = Idle]
  /\ UNCHANGED <<enabled, call, row, sent, noted>>

WorkerHangs(w) ==
  /\ ~At(w, "idle") /\ queue[On(w)].holder = w
  /\ GoesWrong("lock")
  /\ LoseLock(w)
  /\ UNCHANGED <<enabled, call, row, worker, sent, noted>>

Recover(d) ==
  /\ queue[d].state = "active" /\ queue[d].holder = NoWorker
  /\ queue' = [queue EXCEPT ![d] = Stalled(@)]
  /\ UNCHANGED <<enabled, call, row, worker, sent, noted, mishaps>>

-----------------------------------------------------------------------------
Calling(k) ==
  \/ Dispatch(k)
  \/ DispatchToChannels(k)
  \/ \E c \in Channel : Verify(k, c) \/ CreateRow(k, c) \/ Add(k, c)

Process(w) ==
  \/ Read(w) \/ Reject(w) \/ Start(w) \/ Send(w) \/ Deliver(w) \/ Note(w) \/ GiveUp(w)

Next ==
  \/ \E k \in Call : Calling(k) \/ CallDies(k)
  \/ \E c \in Channel : Toggle(c)
  \/ \E w \in Worker :
        \/ \E d \in Delivery : Take(w, d)
        \/ Process(w) \/ DatabaseFails(w) \/ WorkerCrashes(w) \/ WorkerHangs(w)
  \/ \E d \in Delivery : Recover(d)

Spec == Init /\ [][Next]_vars

\* A worker takes jobs while there are any and finishes what it took; BullMQ
\* looks for stalled jobs every stalledInterval.  Nobody has to dispatch.
Fairness ==
  /\ \A w \in Worker : WF_vars((\E d \in Delivery : Take(w, d)) \/ Process(w))
  /\ \A d \in Delivery : WF_vars(Recover(d))

FairSpec == Spec /\ Fairness

-----------------------------------------------------------------------------
(* What it is checked for *)

\* Rows, jobs and runs keep to the values their columns and stages can hold.
TypeOK ==
  /\ enabled \subseteq Channel
  /\ call \in [Call -> CallState]
  /\ row \in [Delivery -> RowStatus]
  /\ queue \in [Delivery -> QueuedJob]
  /\ worker \in [Worker -> Run \cup {Idle}]
  /\ sent \in [Delivery -> Nat]
  /\ noted \in [Delivery -> Nat]
  /\ mishaps \in [Mishap -> Nat]

\* "it would mark alerts DELIVERED and write a notification-sent timeline entry for
\* a message nobody received": createAlertProcessor never does, whatever fails.
HonestRow ==
  \A d \in Delivery : row[d] = "DELIVERED" \/ noted[d] > 0 => sent[d] > 0

\* The timeline never lists more messages than the channel was sent, and a channel
\* gets a message once more for each thing that went wrong at most: the retries of a
\* transport that throws only when nothing arrived send once.
CountsAreHonest == \A d \in Delivery : noted[d] <= sent[d] /\ sent[d] <= 1 + RunMishaps

\* "Idempotent (skips an already-delivered row)", as far as the code keeps it: workers
\* may die and answers get lost, but no statement throws and no worker hangs.
OnlyCrashes == mishaps["database"] = 0 /\ mishaps["lock"] = 0

DeliveredSurvivesCrashes ==
  [][\A d \in Delivery :
       row[d] = "DELIVERED" /\ OnlyCrashes' => row'[d] = "DELIVERED"]_vars

\* Fewer crashes than it takes to make the queue give a job up: a job given up as
\* stalled leaves its row SENDING, and nobody looks for such rows.
FewCrashes == mishaps["crash"] <= MaxStalls

\* A queued alert is answered for: in the end its row says DELIVERED or FAILED for
\* good, and its job is over, although workers die and transports fail.
DeliveriesSettle ==
  [](OnlyCrashes /\ FewCrashes) =>
    \A d \in Delivery :
      queue[d].state = "waiting" ~>
        [](queue[d].state = "over" /\ row[d] \in {"DELIVERED", "FAILED"})

=============================================================================
