------------------------ MODULE IntegrationDelivery ------------------------
(***************************************************************************)
(* How an incident reaches the integrations of its organization (Slack,    *)
(* Discord, webhooks, Telegram, Teams): the dispatcher of                  *)
(* packages/monitoring/src/integrations/dispatcher.ts, which records an    *)
(* IntegrationDelivery row per target under a unique dedupeKey and queues  *)
(* a job with the row's id, and the worker of integrations/processor.ts.   *)
(*                                                                         *)
(* A delivery is named by what dedupeKey names: the event and the target.  *)
(* A test has no dedupeKey, so each test request is an event of its own.   *)
(* What goes wrong is named and counted as in AlertDelivery.               *)
(***************************************************************************)
EXTENDS JobQueue

CONSTANTS
  Target,      \* integrations of the organization
  Event,       \* opened and resolved transitions of its incidents
  Call,        \* calls of dispatchIncident; several may be about one event
  Test,        \* requests to POST /:id/test
  MaxTroubles   \* bound: how often something goes wrong

VARIABLES
  integration, \* on, off (enabled = false) or deleted
  call,        \* the calls of the dispatcher
  row,         \* status of a delivery's row, NONE while there is none
  queue,       \* its job
  worker,      \* the runs of the processor
  sent,        \* how often its message was accepted by the provider
  mishaps      \* how often something went wrong

vars == <<integration, call, row, queue, worker, sent, mishaps>>

Delivery == (Event \cup Test) \X Target
Mishap   == {"dispatch", "crash", "lock", "answer", "database"}

RowStatus == {"NONE", "PENDING", "SENDING", "SUCCESS", "FAILED", "DEAD"}

Unused == [stage |-> "unused"]
Idle   == [stage |-> "idle"]

CallState == [stage : {"create", "add", "done", "dead"}, event : Event \cup Test,
              todo : SUBSET Target, hand : SUBSET Target, targets : SUBSET Target]
Run == [stage : {"start", "send", "skipped", "ok", "failed"},
        on : Delivery, attempt : 1 .. Attempts]

Init ==
  /\ integration \in [Target -> {"on", "off"}]
  /\ call = [k \in Call \cup Test |-> Unused]
  /\ row = [d \in Delivery |-> "NONE"]
  /\ queue = [d \in Delivery |-> AbsentJob]
  /\ worker = [w \in Worker |-> Idle]
  /\ sent = [d \in Delivery |-> 0]
  /\ mishaps = [m \in Mishap |-> 0]

RunMishaps == mishaps["crash"] + mishaps["lock"] + mishaps["answer"] + mishaps["database"]
AllMishaps == mishaps["dispatch"] + RunMishaps

GoesWrong(m) ==
  /\ AllMishaps < MaxTroubles
  /\ mishaps' = [mishaps EXCEPT ![m] = @ + 1]

-----------------------------------------------------------------------------
(* The service behind the routes: the rows the dispatcher reads *)

\* update: the switch of the form; the other fields change nothing here.
SetEnabled(t, on) ==
  /\ integration[t] # "deleted"
  /\ integration' = [integration EXCEPT ![t] = IF on THEN "on" ELSE "off"]
  /\ UNCHANGED <<call, row, queue, worker, sent, mishaps>>

\* remove: a soft delete, whatever deliveries are under way.
Remove(t) ==
  /\ integration[t] # "deleted"
  /\ integration' = [integration EXCEPT ![t] = "deleted"]
  /\ UNCHANGED <<call, row, queue, worker, sent, mishaps>>

-----------------------------------------------------------------------------
(* The dispatcher *)

targetsFor == {t \in Target : integration[t] = "on"}

FanOut(k, e, targets) ==
  call' = [call EXCEPT ![k] = [stage |-> IF targets = {} THEN "done" ELSE "create",
                               event |-> e, todo |-> targets, hand |-> {},
                               targets |-> targets]]

NextTarget(k, t) ==
  LET rest == call[k].todo \ {t}
  IN  call' = [call EXCEPT ![k].todo = rest, ![k].hand = {},
                           ![k].stage = IF rest = {} THEN "done" ELSE "create"]

\* dispatchIncident: the targets are read once, then served one by one.
DispatchIncident(k) ==
  /\ k \in Call /\ call[k] = Unused
  /\ \E e \in Event : FanOut(k, e, targetsFor)
  /\ UNCHANGED <<integration, row, queue, worker, sent, mishaps>>

\* dispatchTest: one target that exists, enabled or not.
DispatchTest(k) ==
  /\ k \in Test /\ call[k] = Unused
  /\ \E t \in Target : integration[t] # "deleted" /\ FanOut(k, k, {t})
  /\ UNCHANGED <<integration, row, queue, worker, sent, mishaps>>

\* Mutant of CreateRow: no unique dedupeKey, so a replay gets a row and a job of
\* its own.
CreateAnyway(k, t) ==
  LET d == <<call[k].event, t>>
  IN  /\ call[k].stage = "create" /\ t \in call[k].todo
      /\ row' = [row EXCEPT ![d] = "PENDING"]
      /\ queue' = [queue EXCEPT ![d] = AbsentJob]
      /\ call' = [call EXCEPT ![k].stage = "add", ![k].hand = {t}]
      /\ UNCHANGED <<integration, worker, sent, mishaps>>

\* create: a row with that dedupeKey means that the target was served.
CreateRow(k, t) ==
  LET d == <<call[k].event, t>>
  IN  /\ call[k].stage = "create" /\ t \in call[k].todo
      /\ IF row[d] = "NONE"
           THEN /\ row' = [row EXCEPT ![d] = "PENDING"]
                /\ call' = [call EXCEPT ![k].stage = "add", ![k].hand = {t}]
           ELSE NextTarget(k, t) /\ UNCHANGED row
      /\ UNCHANGED <<integration, queue, worker, sent, mishaps>>

\* The catch around create takes every error for a collision; a test has no catch.
CreateFails(k, t) ==
  /\ call[k].stage = "create" /\ t \in call[k].todo
  /\ GoesWrong("dispatch")
  /\ IF k \in Call THEN NextTarget(k, t) ELSE call' = [call EXCEPT ![k].stage = "dead"]
  /\ UNCHANGED <<integration, row, queue, worker, sent>>

\* Mutant of Add: a target that was switched off since its row was made is passed
\* over.
AddIfStillOn(k, t) ==
  LET d == <<call[k].event, t>>
  IN  /\ call[k].stage = "add" /\ t \in call[k].hand
      /\ queue' = [queue EXCEPT ![d] = IF integration[t] = "on" THEN Added ELSE @]
      /\ NextTarget(k, t)
      /\ UNCHANGED <<integration, row, worker, sent, mishaps>>

\* queue.add: the job id is the row's, which a queue that remembers it ignores.
Add(k, t) ==
  LET d == <<call[k].event, t>>
  IN  /\ call[k].stage = "add" /\ t \in call[k].hand
      /\ queue' = [queue EXCEPT ![d] = IF @ = AbsentJob THEN Added ELSE @]
      /\ NextTarget(k, t)
      /\ UNCHANGED <<integration, row, worker, sent, mishaps>>

\* The process dies, or Redis or the lookup of the targets throws, mid-way.
CallDies(k) ==
  /\ call[k].stage \in {"create", "add"}
  /\ GoesWrong("dispatch")
  /\ call' = [call EXCEPT ![k].stage = "dead"]
  /\ UNCHANGED <<integration, row, queue, worker, sent>>

-----------------------------------------------------------------------------
(* The processor *)

At(w, stage)   == worker[w].stage = stage
On(w)          == worker[w].on
Goto(w, stage) == worker' = [worker EXCEPT ![w].stage = stage]

Leave(w, new) ==
  /\ worker' = [worker EXCEPT ![w] = Idle]
  /\ queue' = [queue EXCEPT ![On(w)] = IfHeld(@, w, new)]

Take(w, d) ==
  /\ At(w, "idle")
  /\ queue[d].state = "waiting"
  /\ queue' = [queue EXCEPT ![d] = Taken(@, w)]
  /\ worker' = [worker EXCEPT ![w] = [stage |-> "start", on |-> d,
                                      attempt |-> queue[d].made + 1]]
  /\ UNCHANGED <<integration, call, row, sent, mishaps>>

\* The row goes to SENDING whatever it says: nothing asks if it was a SUCCESS.
Start(w) ==
  /\ At(w, "start")
  /\ row' = [row EXCEPT ![On(w)] = "SENDING"]
  /\ Goto(w, "send")
  /\ UNCHANGED <<integration, call, queue, sent, mishaps>>

Accepted(w) == sent' = [sent EXCEPT ![On(w)] = @ + 1]

\* send: the integration is looked up now; a deleted one is skipped, a disabled
\* one is not.  The notifier turns every failure into ok = false, also the one
\* of an answer that got lost.
Send(w) ==
  /\ At(w, "send")
  /\ IF integration[On(w)[2]] = "deleted"
       THEN Goto(w, "skipped") /\ UNCHANGED <<sent, mishaps>>
       ELSE \/ Accepted(w) /\ Goto(w, "ok") /\ UNCHANGED mishaps
            \/ Goto(w, "failed") /\ UNCHANGED <<sent, mishaps>>
            \/ Accepted(w) /\ Goto(w, "failed") /\ GoesWrong("answer")
  /\ UNCHANGED <<integration, call, row, queue>>

\* A terminal skip: FAILED, and the job is complete.
Skip(w) ==
  /\ At(w, "skipped")
  /\ row' = [row EXCEPT ![On(w)] = "FAILED"]
  /\ Leave(w, Completed(queue[On(w)]))
  /\ UNCHANGED <<integration, call, sent, mishaps>>

Succeed(w) ==
  /\ At(w, "ok")
  /\ row' = [row EXCEPT ![On(w)] = "SUCCESS"]
  /\ Leave(w, Completed(queue[On(w)]))
  /\ UNCHANGED <<integration, call, sent, mishaps>>

isFinal(w) == worker[w].attempt >= Attempts

\* Mutant of Fail: the last attempt is told apart one too early.
FailEarly(w) ==
  /\ At(w, "failed")
  /\ row' = [row EXCEPT ![On(w)] = IF worker[w].attempt >= Attempts - 1 THEN "DEAD" ELSE "FAILED"]
  /\ Leave(w, Thrown(queue[On(w)]))
  /\ UNCHANGED <<integration, call, sent, mishaps>>

\* A failure is recorded and thrown to the queue's retry; the last one is DEAD.
Fail(w) ==
  /\ At(w, "failed")
  /\ row' = [row EXCEPT ![On(w)] = IF isFinal(w) THEN "DEAD" ELSE "FAILED"]
  /\ Leave(w, Thrown(queue[On(w)]))
  /\ UNCHANGED <<integration, call, sent, mishaps>>

\* No statement of the processor is inside a try.
DatabaseFails(w) ==
  /\ ~At(w, "idle")
  /\ GoesWrong("database")
  /\ Leave(w, Thrown(queue[On(w)]))
  /\ UNCHANGED <<integration, call, row, sent>>

-----------------------------------------------------------------------------
(* The queue *)

LoseLock(w) == queue' = [queue EXCEPT ![On(w)] = IfHeld(@, w, Unlocked(@))]

WorkerCrashes(w) ==
  /\ ~At(w, "idle")
  /\ GoesWrong("crash")
  /\ LoseLock(w)
  /\ worker' = [worker EXCEPT ![w] = Idle]
  /\ UNCHANGED <<integration, call, row, sent>>

WorkerHangs(w) ==
  /\ ~At(w, "idle") /\ queue[On(w)].holder = w
  /\ GoesWrong("lock")
  /\ LoseLock(w)
  /\ UNCHANGED <<integration, call, row, worker, sent>>

Recover(d) ==
  /\ queue[d].state = "active" /\ queue[d].holder = NoWorker
  /\ queue' = [queue EXCEPT ![d] = Stalled(@)]
  /\ UNCHANGED <<integration, call, row, worker, sent, mishaps>>

-----------------------------------------------------------------------------
Managing(t) == SetEnabled(t, TRUE) \/ SetEnabled(t, FALSE) \/ Remove(t)

Calling(k) ==
  \/ DispatchIncident(k) \/ DispatchTest(k)
  \/ \E t \in Target : CreateRow(k, t) \/ Add(k, t)

Process(w) == Start(w) \/ Send(w) \/ Skip(w) \/ Succeed(w) \/ Fail(w)

Next ==
  \/ \E t \in Target : Managing(t)
  \/ \E k \in Call \cup Test : Calling(k) \/ CallDies(k) \/ \E t \in Target : CreateFails(k, t)
  \/ \E w \in Worker :
        \/ \E d \in Delivery : Take(w, d)
        \/ Process(w) \/ DatabaseFails(w) \/ WorkerCrashes(w) \/ WorkerHangs(w)
  \/ \E d \in Delivery : Recover(d)

Spec == Init /\ [][Next]_vars

\* Workers finish what they take and take what waits; a call that was made goes
\* on; BullMQ looks for stalled jobs every 30 s.  Nobody has to make calls.
Fairness ==
  /\ \A w \in Worker : WF_vars((\E d \in Delivery : Take(w, d)) \/ Process(w))
  /\ \A k \in Call \cup Test : WF_vars(\E t \in Target : CreateRow(k, t) \/ Add(k, t))
  /\ \A d \in Delivery : WF_vars(Recover(d))

FairSpec == Spec /\ Fairness

-----------------------------------------------------------------------------
(* What it is checked for *)

\* The history shows SUCCESS only for a message the provider has accepted, and
\* dead-letters (processor.ts "the final attempt marks the row DEAD") only a job
\* that has used up its attempts.
HonestHistory ==
  \A d \in Delivery :
    /\ row[d] = "SUCCESS" => sent[d] > 0
    /\ row[d] = "DEAD" /\ mishaps["lock"] = 0 => queue[d].made = Attempts

\* "replaying the same event never creates a second row or a second send": however
\* many calls tell an event, a target is sent it once, and once more per mishap.
SentOncePerEvent == \A d \in Delivery : sent[d] <= 1 + RunMishaps

\* A fan-out reaches every target it has read: while no call dies, an event that
\* nobody is telling any more has a job for each of them, whichever call made it.
Telling(e) == \E k \in Call \cup Test : call[k] # Unused /\ call[k].event = e /\ call[k].stage # "done"

NobodyForgotten ==
  mishaps["dispatch"] = 0 =>
    \A k \in Call \cup Test :
      call[k] # Unused /\ ~Telling(call[k].event) =>
        \A t \in call[k].targets : queue[<<call[k].event, t>>].state # "absent"

=============================================================================
