----------------------------- MODULE Escalation -----------------------------
(***************************************************************************)
(* The escalation of one incident: packages/monitoring/src/escalation/     *)
(* engine.ts, with the responder notifier of the worker and the policy     *)
(* edits of the API.  A chain of delayed jobs, called ticks here, fires    *)
(* one step each and queues its successor; it is never cancelled, but ends *)
(* at the first tick that finds the incident no longer OPEN.               *)
(*                                                                         *)
(* Steps are numbered from 1 here and from 0 in the code (stepIndex and    *)
(* position).  A delay lets anything happen before a tick is taken, so it  *)
(* needs no clock.  What goes wrong is named and counted:                  *)
(*                                                                         *)
(*   throw    an await of the run throws; the queue tries again            *)
(*   crash    a worker dies; its tick stalls                               *)
(*   hang     a worker loses its lock and goes on all the same             *)
(*   page     a responder cannot be paged (caught, and recorded)           *)
(*   expire   the mail queue forgets a finished page after an hour         *)
(***************************************************************************)
EXTENDS JobQueue, Sequences, FiniteSets

CONSTANTS
  User,         \* members who may be responders
  Channel,      \* alert channels that may be targets
  Schedule,     \* the target that stands for whoever is on call
  Nobody,       \* a schedule without a primary responder
  MaxSteps,     \* steps a policy may have
  MaxRepeat,    \* repeatCount a policy may have
  Policies,     \* what the policy may be saved as
  MaxTicks,     \* bound: escalation jobs queued over the incident's life
  MaxMishaps    \* bound: how often something goes wrong

Target == User \cup Channel \cup {Schedule}
Step   == 1 .. MaxSteps
Round  == 0 .. MaxRepeat

ASSUME EscalationAssumption ==
  /\ Nobody \notin User
  /\ User \cap Channel = {} /\ Schedule \notin User \cup Channel
  /\ MaxSteps \in Nat \ {0}
  /\ MaxRepeat \in Nat
  /\ \A p \in Policies : /\ p.repeatCount \in Round
                        /\ p.steps \in Seq(SUBSET Target) /\ Len(p.steps) <= MaxSteps
  /\ MaxTicks \in Nat
  /\ MaxMishaps \in Nat

VARIABLES
  incident,    \* status of the incident
  policy,      \* its escalation policy
  onCall,      \* the primary responder of the schedule, now
  starter,     \* the call of EscalationStarter.start
  tick,        \* the ticks of the escalation queue
  worker,      \* the runs of the escalation processor
  inMailQueue, \* the pages whose job id the mail queue knows
  mails,       \* how many mails of a page were really queued
  claims,      \* how many timeline entries say that the page was made
  alerts,      \* how often a step dispatched to a channel
  fired,       \* how many ESCALATED entries each step of each round has
  mishaps      \* how often something went wrong

outside == <<incident, policy, onCall>>
pages   == <<inMailQueue, mails>>
records == <<claims, fired>>
vars == <<incident, policy, onCall, starter, tick, worker, inMailQueue, mails, claims,
          alerts, fired, mishaps>>

Tick   == 1 .. MaxTicks
Page   == Step \X User      \* the job id of a page: step and user of the incident
Mishap == {"throw", "crash", "hang", "page", "expire"}

TickState == [job : QueuedJob, step : Step, round : Round]
NoTick    == [job |-> AbsentJob, step |-> 1, round |-> 0]

NoPlan == [steps |-> <<>>, repeatCount |-> 0]
Run  == [stage : {"incident", "policy", "resolve", "page", "channels", "event", "next",
                  "return"},
         on    : Tick,
         plan  : Policies \cup {NoPlan},  \* the policy as it was read
         who   : SUBSET User]              \* the responders, then those paged
Idle == [stage |-> "idle"]

Fresh(t) == /\ tick[t].job.state = "absent"
            /\ \A u \in Tick : u < t => tick[u].job.state # "absent"

GoesWrong(m) ==
  /\ mishaps["throw"] + mishaps["crash"] + mishaps["hang"] + mishaps["page"]
       + mishaps["expire"] < MaxMishaps
  /\ mishaps' = [mishaps EXCEPT ![m] = @ + 1]

Init ==
  /\ incident = "OPEN"
  /\ \E p \in Policies : policy = [saved |-> p, deleted |-> FALSE]
  /\ onCall \in User \cup {Nobody}
  /\ starter = "ready"
  /\ tick = [t \in Tick |-> NoTick]
  /\ worker = [w \in Worker |-> Idle]
  /\ inMailQueue = {}
  /\ mails = [g \in Page |-> 0]
  /\ claims = [g \in Page |-> 0]
  /\ alerts = [a \in Step \X Channel |-> 0]
  /\ fired = [f \in Round \X Step |-> 0]
  /\ mishaps = [m \in Mishap |-> 0]

-----------------------------------------------------------------------------
(* The starter, called once for an incident (CheckPipeline) *)

\* The first step is read; the policy's deletedAt is not.
StartReads ==
  /\ starter = "ready"
  /\ starter' = IF policy.saved.steps = <<>> THEN "over" ELSE "add"
  /\ UNCHANGED <<outside, tick, worker, pages, records, alerts, mishaps>>

StartAdds(t) ==
  /\ starter = "add" /\ Fresh(t)
  /\ tick' = [tick EXCEPT ![t] = [job |-> Added, step |-> 1, round |-> 0]]
  /\ starter' = "over"
  /\ UNCHANGED <<outside, worker, pages, records, alerts, mishaps>>

-----------------------------------------------------------------------------
(* The escalation processor *)

At(w, stage) == worker[w].stage = stage
My(w)        == tick[worker[w].on]
Become(w, run) == worker' = [worker EXCEPT ![w] = run]
Goto(w, stage) == Become(w, [worker[w] EXCEPT !.stage = stage])

\* The run ends, with the job as given if its lock was kept.
Leave(w, new) ==
  /\ Become(w, Idle)
  /\ tick' = [tick EXCEPT ![worker[w].on].job = IfHeld(@, w, new)]

Take(w, t) ==
  /\ At(w, "idle")
  /\ tick[t].job.state = "waiting"
  /\ tick' = [tick EXCEPT ![t].job = Taken(@, w)]
  /\ Become(w, [stage |-> "incident", on |-> t, plan |-> NoPlan, who |-> {}])
  /\ UNCHANGED <<outside, starter, pages, records, alerts, mishaps>>

\* Mutant of ReadIncident: only a resolved incident stops the chain.
ReadIncidentResolved(w) ==
  /\ At(w, "incident")
  /\ IF incident = "RESOLVED" THEN Leave(w, Completed(My(w).job))
                              ELSE Goto(w, "policy") /\ UNCHANGED tick
  /\ UNCHANGED <<outside, starter, pages, records, alerts, mishaps>>

\* Mutant of ReadIncident: the tick of a closed incident looks again later.
ReadIncidentWaits(w) ==
  /\ At(w, "incident")
  /\ IF incident # "OPEN" THEN Leave(w, [My(w).job EXCEPT !.state = "waiting"])
                          ELSE Goto(w, "policy") /\ UNCHANGED tick
  /\ UNCHANGED <<outside, starter, pages, records, alerts, mishaps>>

\* The guard that ends the chain: an incident that is not OPEN has no next tick.
ReadIncident(w) ==
  /\ At(w, "incident")
  /\ IF incident # "OPEN" THEN Leave(w, Completed(My(w).job))
                          ELSE Goto(w, "policy") /\ UNCHANGED tick
  /\ UNCHANGED <<outside, starter, pages, records, alerts, mishaps>>

\* The policy is read whole.  Past its last step there is only the next round.
ReadPolicy(w) ==
  /\ At(w, "policy")
  /\ IF policy.deleted \/ policy.saved.steps = <<>>
       THEN Leave(w, Completed(My(w).job))
       ELSE /\ Become(w, [worker[w] EXCEPT
                            !.stage = IF My(w).step <= Len(policy.saved.steps)
                                        THEN "resolve" ELSE "next",
                            !.plan = policy.saved])
            /\ UNCHANGED tick
  /\ UNCHANGED <<outside, starter, pages, records, alerts, mishaps>>

Targets(w) == worker[w].plan.steps[My(w).step]

\* whoIsOnCall: schedules become people; who is reached twice counts once.
ResolveTargets(w) ==
  /\ At(w, "resolve")
  /\ Become(w, [worker[w] EXCEPT
                  !.stage = "page",
                  !.who = (Targets(w) \cap User)
                            \cup (IF Schedule \in Targets(w) THEN {onCall} \ {Nobody} ELSE {})])
  /\ UNCHANGED <<outside, starter, tick, pages, records, alerts, mishaps>>

\* Mutant of Mail: the page has no job id of its own.
MailAgain(step, users) ==
  LET ids == {<<step, u>> : u \in users}
  IN  /\ inMailQueue' = inMailQueue \cup ids
      /\ mails' = [g \in Page |-> IF g \in ids THEN mails[g] + 1 ELSE mails[g]]

\* emailResponderNotifier: the mail queue ignores a job id it knows.
Mail(step, users) ==
  LET ids == {<<step, u>> : u \in users}
  IN  /\ inMailQueue' = inMailQueue \cup ids
      /\ mails' = [g \in Page |-> IF g \in ids \ inMailQueue THEN mails[g] + 1 ELSE mails[g]]

\* The responders are paged side by side; one that fails is recorded, not thrown.
PageResponders(w) ==
  /\ At(w, "page")
  /\ \E paged \in SUBSET worker[w].who :
       /\ Mail(My(w).step, paged)
       /\ IF paged = worker[w].who THEN UNCHANGED mishaps ELSE GoesWrong("page")
       /\ Become(w, [worker[w] EXCEPT !.stage = "channels", !.who = paged])
  /\ UNCHANGED <<outside, starter, tick, records, alerts>>

Alert(step, channels) ==
  alerts' = [a \in Step \X Channel |->
               IF a[1] = step /\ a[2] \in channels THEN alerts[a] + 1 ELSE alerts[a]]

\* dispatchToChannels
AlertChannels(w) ==
  /\ At(w, "channels")
  /\ Alert(My(w).step, Targets(w) \cap Channel)
  /\ Goto(w, "event")
  /\ UNCHANGED <<outside, starter, tick, pages, records, mishaps>>

\* The ESCALATED entry: what the operator reads when asking "was I paged?".
RecordEvent(w) ==
  LET step == My(w).step
  IN
  /\ At(w, "event")
  /\ fired' = [fired EXCEPT ![<<My(w).round, step>>] = @ + 1]
  /\ claims' = [g \in Page |-> IF g[1] = step /\ g[2] \in worker[w].who
                                THEN claims[g] + 1 ELSE claims[g]]
  /\ Goto(w, "next")
  /\ UNCHANGED <<outside, starter, tick, pages, alerts, mishaps>>

NextStepLeft(w)  == My(w).step < Len(worker[w].plan.steps)
NextRoundLeft(w) == My(w).round < worker[w].plan.repeatCount

QueueTick(t, step, round) ==
  tick' = [tick EXCEPT ![t] = [job |-> Added, step |-> step, round |-> round]]

\* Mutant of QueueNext: the `else` between the two is missing.
QueueEither(w, t) ==
  /\ At(w, "next") /\ Fresh(t)
  /\ IF NextStepLeft(w) /\ NextRoundLeft(w) /\ t < MaxTicks
       THEN tick' = [tick EXCEPT
                      ![t] = [job |-> Added, step |-> My(w).step + 1, round |-> My(w).round],
                      ![t + 1] = [job |-> Added, step |-> 1, round |-> My(w).round + 1]]
       ELSE \/ NextStepLeft(w) /\ QueueTick(t, My(w).step + 1, My(w).round)
            \/ NextRoundLeft(w) /\ QueueTick(t, 1, My(w).round + 1)
  /\ Goto(w, "return")
  /\ UNCHANGED <<outside, starter, pages, records, alerts, mishaps>>

\* Mutant of QueueNext: a policy of several steps is not repeated.
QueueStepsOnly(w, t) ==
  /\ At(w, "next") /\ Fresh(t)
  /\ NextStepLeft(w) /\ QueueTick(t, My(w).step + 1, My(w).round)
  /\ Goto(w, "return")
  /\ UNCHANGED <<outside, starter, pages, records, alerts, mishaps>>

\* queue.add: the next step, or the first of the next round.
QueueNext(w, t) ==
  /\ At(w, "next") /\ Fresh(t)
  /\ \/ NextStepLeft(w) /\ QueueTick(t, My(w).step + 1, My(w).round)
     \/ ~NextStepLeft(w) /\ NextRoundLeft(w) /\ QueueTick(t, 1, My(w).round + 1)
  /\ Goto(w, "return")
  /\ UNCHANGED <<outside, starter, pages, records, alerts, mishaps>>

\* The run returns: after its queue.add, or because there is nothing to add.
Return(w) ==
  /\ \/ At(w, "return")
     \/ At(w, "next") /\ ~NextStepLeft(w) /\ ~NextRoundLeft(w)
  /\ Leave(w, Completed(My(w).job))
  /\ UNCHANGED <<outside, starter, pages, records, alerts, mishaps>>

-----------------------------------------------------------------------------
(* What goes wrong with a run *)

\* Some of the channels were dispatched to when the await was cut short.
SomeChannels(w) ==
  IF At(w, "channels") THEN \E S \in SUBSET (Targets(w) \cap Channel) : Alert(My(w).step, S)
                       ELSE UNCHANGED alerts

\* Some of the pages were queued.
SomePages(w) ==
  IF At(w, "page") THEN \E S \in SUBSET worker[w].who : Mail(My(w).step, S)
                   ELSE UNCHANGED pages

Throws(w) ==
  /\ ~At(w, "idle") /\ ~At(w, "return")
  /\ GoesWrong("throw")
  /\ SomeChannels(w)
  /\ Leave(w, Thrown(My(w).job))
  /\ UNCHANGED <<outside, starter, pages, records>>

LoseLock(w) == tick' = [tick EXCEPT ![worker[w].on].job = IfHeld(@, w, Unlocked(@))]

WorkerCrashes(w) ==
  /\ ~At(w, "idle")
  /\ GoesWrong("crash")
  /\ SomeChannels(w) /\ SomePages(w)
  /\ LoseLock(w)
  /\ Become(w, Idle)
  /\ UNCHANGED <<outside, starter, records>>

WorkerHangs(w) ==
  /\ ~At(w, "idle") /\ My(w).job.holder = w
  /\ GoesWrong("hang")
  /\ LoseLock(w)
  /\ UNCHANGED <<outside, starter, worker, pages, records, alerts>>

Recover(t) ==
  /\ tick[t].job.state = "active" /\ tick[t].job.holder = NoWorker
  /\ tick' = [tick EXCEPT ![t].job = Stalled(@)]
  /\ UNCHANGED <<outside, starter, worker, pages, records, alerts, mishaps>>

\* removeOnComplete of the mail queue: the id of a page is forgotten.
PageExpires(g) ==
  /\ g \in inMailQueue
  /\ GoesWrong("expire")
  /\ inMailQueue' = inMailQueue \ {g}
  /\ UNCHANGED <<outside, starter, tick, worker, mails, records, alerts>>

-----------------------------------------------------------------------------
(* Meanwhile *)

\* incidentService.acknowledge, and either way to resolve an incident.
CloseIncident ==
  /\ \/ incident = "OPEN" /\ incident' = "ACKNOWLEDGED"
     \/ incident \in {"OPEN", "ACKNOWLEDGED"} /\ incident' = "RESOLVED"
  /\ UNCHANGED <<policy, onCall, starter, tick, worker, pages, records, alerts, mishaps>>

\* escalationPolicyService.update: the steps are replaced in one transaction.
UpdatePolicy(p) ==
  /\ ~policy.deleted
  /\ policy' = [policy EXCEPT !.saved = p]
  /\ UNCHANGED <<incident, onCall, starter, tick, worker, pages, records, alerts, mishaps>>

\* escalationPolicyService.remove
RemovePolicy ==
  /\ ~policy.deleted
  /\ policy' = [policy EXCEPT !.deleted = TRUE]
  /\ UNCHANGED <<incident, onCall, starter, tick, worker, pages, records, alerts, mishaps>>

\* The rotation hands over, or an override begins or ends.
HandOver(u) ==
  /\ u # onCall
  /\ onCall' = u
  /\ UNCHANGED <<incident, policy, starter, tick, worker, pages, records, alerts, mishaps>>

-----------------------------------------------------------------------------
Start == StartReads \/ \E t \in Tick : StartAdds(t)

Process(w) ==
  \/ \E t \in Tick : Take(w, t)
  \/ ReadIncident(w) \/ ReadPolicy(w) \/ ResolveTargets(w) \/ PageResponders(w)
  \/ AlertChannels(w) \/ RecordEvent(w)
  \/ \E t \in Tick : QueueNext(w, t)
  \/ Return(w)

Next ==
  \/ Start
  \/ \E w \in Worker : Process(w) \/ Throws(w) \/ WorkerCrashes(w) \/ WorkerHangs(w)
  \/ \E t \in Tick : Recover(t)
  \/ \E g \in Page : PageExpires(g)
  \/ CloseIncident
  \/ \E p \in Policies : UpdatePolicy(p)
  \/ RemovePolicy
  \/ \E u \in User \cup {Nobody} : HandOver(u)

Spec == Init /\ [][Next]_vars

\* A worker takes ticks while any is due and finishes what it took; BullMQ looks for
\* stalled jobs; the check job that started the escalation goes on.
Fairness ==
  /\ WF_vars(Start)
  /\ \A w \in Worker : WF_vars(Process(w))
  /\ \A t \in Tick : WF_vars(Recover(t))

FairSpec == Spec /\ Fairness

-----------------------------------------------------------------------------
(* What it is checked for *)

\* "One page per (incident, step, user)": retries, stalls and parallel chains never
\* mail a page again unless the mail queue has forgotten it (responder-notifier), and
\* a page the timeline lists (ESCALATED entry of executeStep) was mailed some time.
PagesAreHonest ==
  \A g \in Page : mails[g] <= 1 + mishaps["expire"] /\ (claims[g] > 0 => mails[g] > 0)

\* No second tick is pending unless a worker died or hung between adding the
\* successor and returning (createEscalationProcessor).
OneChain ==
  mishaps["crash"] = 0 /\ mishaps["hang"] = 0 =>
    \A t, u \in Tick :
      tick[t].job.state \in {"waiting", "active"} /\ tick[u].job.state \in {"waiting", "active"}
        => t = u \/ \E w \in Worker : At(w, "return") /\ worker[w].on \in {t, u}

\* There is one chain per incident, and a step fires only after the step before it in
\* the same round, whatever is edited and whoever dies.
ChainIsInOrder ==
  /\ OneChain
  /\ \A r \in Round, s \in Step : fired[<<r, s>>] > 0 /\ s > 1 => fired[<<r, s - 1>>] > 0

\* No run is past the guard that reads the incident, which is not OPEN any more.
Quiet == /\ incident # "OPEN"
         /\ \A w \in Worker : At(w, "idle") \/ At(w, "incident")

\* "sends nothing, and queues no successor": when the incident is closed and the runs
\* that had read it before are over, nobody is paged or alerted ever again, although
\* ticks are still due, are retried or stall.
ClosedIsQuiet ==
  [][Quiet => Quiet' /\ UNCHANGED <<mails, claims, alerts, fired>>]_vars

\* Less goes wrong than it takes to make the queue give a tick up.
Patient == /\ mishaps["throw"] < Attempts
           /\ mishaps["crash"] + mishaps["hang"] <= MaxStalls

\* While the incident stays OPEN and its policy is left alone, every step of every
\* round fires in the end, although runs throw and workers die.
EveryStepFires ==
  \A p \in Policies :
    [](Patient /\ incident = "OPEN" /\ policy.saved = p /\ ~policy.deleted) =>
      \A r \in 0 .. p.repeatCount, s \in 1 .. Len(p.steps) : <>(fired[<<r, s>>] > 0)

\* Once it is closed, the chain of an incident dies out.
ChainDies ==
  [](incident # "OPEN" => <>[](\A t \in Tick : tick[t].job.state \in {"absent", "over"}))

=============================================================================
