-------------------------- MODULE EscalationProofs --------------------------
(***************************************************************************)
(* Theorems about Escalation, for every policy, every set of responders    *)
(* and workers, every limit of the queue and any number of mishaps.        *)
(***************************************************************************)
EXTENDS Escalation, JobQueueProofs

-----------------------------------------------------------------------------
(* Type correctness *)

TypeOK ==
  /\ incident \in {"OPEN", "ACKNOWLEDGED", "RESOLVED"}
  /\ policy \in [saved : Policies, deleted : BOOLEAN]
  /\ onCall \in User \cup {Nobody}
  /\ starter \in {"ready", "add", "over"}
  /\ tick \in [Tick -> TickState]
  /\ worker \in [Worker -> Run \cup {Idle}]
  /\ inMailQueue \subseteq Page
  /\ mails \in [Page -> Nat] /\ claims \in [Page -> Nat]
  /\ alerts \in [Step \X Channel -> Nat]
  /\ fired \in [Round \X Step -> Nat]
  /\ mishaps \in [Mishap -> Nat]

JobsSound == \A t \in Tick : Sound(tick[t].job)

\* A worker that is not idle runs a tick that was queued.
RunsQueued == \A w \in Worker : ~At(w, "idle") => My(w).job.state # "absent"

TypeInv == TypeOK /\ JobsSound /\ RunsQueued

\* A tick that was queued stays the tick of its step and round.
TicksStay ==
  \A t \in Tick : tick[t].job.state # "absent" =>
    /\ tick'[t].job.state # "absent"
    /\ tick'[t].step = tick[t].step /\ tick'[t].round = tick[t].round

\* A worker that is not idle has a run, and its run a tick.
LEMMA Running ==
  ASSUME TypeOK, NEW w \in Worker, ~At(w, "idle")
  PROVE  worker[w] \in Run /\ worker[w].on \in Tick /\ My(w) \in TickState
<1>1. worker[w] \in Run BY DEF TypeOK, Idle, At
<1>2. QED BY <1>1 DEF TypeOK, Run, My

\* One job changes and stays sound.
LEMMA JobChanges ==
  ASSUME TypeInv, NEW t \in Tick, NEW q, Sound(q),
         tick[t].job.state # "absent" => q.state # "absent",
         tick' = [tick EXCEPT ![t].job = q]
  PROVE  tick' \in [Tick -> TickState] /\ JobsSound' /\ TicksStay
<1>1. q \in QueuedJob BY DEF Sound
<1>2. \A u \in Tick : tick'[u] = IF u = t THEN [tick[t] EXCEPT !.job = q] ELSE tick[u]
  BY DEF TypeInv, TypeOK
<1>3. tick' \in [Tick -> TickState] BY <1>1 DEF TypeInv, TypeOK, TickState
<1>4. tick[t] \in TickState BY DEF TypeInv, TypeOK
<1>5. QED BY <1>2, <1>3, <1>4 DEF TypeInv, JobsSound, TicksStay, TickState

\* A tick is queued.
LEMMA TickQueued ==
  ASSUME TypeInv, NEW t \in Tick, Fresh(t), NEW s \in Step, NEW r \in Round,
         tick' = [tick EXCEPT ![t] = [job |-> Added, step |-> s, round |-> r]]
  PROVE  tick' \in [Tick -> TickState] /\ JobsSound' /\ TicksStay
<1>1. Sound(Added) /\ Added \in QueuedJob BY NewJobSound DEF Sound
<1>2. [job |-> Added, step |-> s, round |-> r] \in TickState BY <1>1 DEF TickState
<1>3. QED BY <1>1, <1>2 DEF TypeInv, TypeOK, JobsSound, TicksStay, Fresh

\* What a run does to its job when it ends, its lock kept or not.
LEMMA JobLeft ==
  ASSUME TypeInv, NEW w \in Worker, ~At(w, "idle"),
         NEW q \in {Completed(My(w).job), Thrown(My(w).job), Unlocked(My(w).job)},
         tick' = [tick EXCEPT ![worker[w].on].job = IfHeld(@, w, q)]
  PROVE  tick' \in [Tick -> TickState] /\ JobsSound' /\ TicksStay
<1> DEFINE job == My(w).job
<1>1. worker[w].on \in Tick /\ Sound(job) /\ job.state # "absent"
  BY Running DEF TypeInv, JobsSound, RunsQueued, My
<1>2. Sound(IfHeld(job, w, q)) BY <1>1, LeftSound
<1>3. IfHeld(job, w, q).state # "absent"
  BY <1>1 DEF IfHeld, Completed, Thrown, Unlocked, Sound, QueuedJob
<1>4. tick' = [tick EXCEPT ![worker[w].on].job = IfHeld(job, w, q)] BY DEF My
<1>5. QED BY <1>1, <1>2, <1>3, <1>4, JobChanges

\* The run of one worker changes, and the tick it is on was queued.
LEMMA WorkerChanges ==
  ASSUME TypeInv, NEW w \in Worker, NEW run \in Run \cup {Idle}, Become(w, run), TicksStay,
         run # Idle => run.on = worker[w].on /\ ~At(w, "idle")
  PROVE  worker' \in [Worker -> Run \cup {Idle}] /\ RunsQueued'
<1>1. \A v \in Worker : worker'[v] = IF v = w THEN run ELSE worker[v]
  BY DEF Become, TypeInv, TypeOK
<1>2. worker' \in [Worker -> Run \cup {Idle}] BY DEF Become, TypeInv, TypeOK
<1>3. \A v \in Worker : ~At(v, "idle") => worker[v].on \in Tick
  BY Running DEF TypeInv
<1>4. ASSUME NEW v \in Worker, ~At(v, "idle")' PROVE (My(v).job.state # "absent")'
  <2>1. ~At(v, "idle") /\ worker'[v].on = worker[v].on
    BY <1>1, <1>4 DEF At, Idle
  <2>2. QED BY <1>3, <2>1 DEF TypeInv, RunsQueued, My, TicksStay
<1>5. QED BY <1>2, <1>4 DEF RunsQueued

\* Nobody's run changes.
LEMMA WorkersStay ==
  ASSUME TypeInv, UNCHANGED worker, TicksStay
  PROVE  RunsQueued'
<1>1. \A v \in Worker : ~At(v, "idle") => worker[v].on \in Tick
  BY Running DEF TypeInv
<1>2. QED BY <1>1 DEF TypeInv, RunsQueued, At, My, TicksStay

\* The counters count.
LEMMA CountersType ==
  ASSUME TypeOK
  PROVE  /\ \A m \in Mishap : GoesWrong(m) => mishaps' \in [Mishap -> Nat]
         /\ \A s \in Step, S \in SUBSET User : Mail(s, S) =>
              inMailQueue' \subseteq Page /\ mails' \in [Page -> Nat]
         /\ \A s, S : Alert(s, S) => alerts' \in [Step \X Channel -> Nat]
BY DEF TypeOK, GoesWrong, Mail, Alert, Page

\* A run makes its next await, or is over.
LEMMA ProcessType ==
  ASSUME TypeInv, NEW w \in Worker, Process(w)
  PROVE  TypeInv' /\ TicksStay
<1>s. UNCHANGED tick => TicksStay /\ JobsSound' BY DEF TicksStay, TypeInv, JobsSound
<1>r. ~At(w, "idle") => worker[w] \in Run /\ worker[w].on \in Tick /\ My(w) \in TickState
  BY Running DEF TypeInv
<1>i. Idle \in Run \cup {Idle} /\ ~(Idle # Idle) OBVIOUS
<1>g. ASSUME NEW stage \in {"policy", "channels", "event", "next", "return"}, ~At(w, "idle"),
             Goto(w, stage), TicksStay
      PROVE  worker' \in [Worker -> Run \cup {Idle}] /\ RunsQueued'
  <2>1. [worker[w] EXCEPT !.stage = stage] \in Run BY <1>r, <1>g DEF Run
  <2>2. [worker[w] EXCEPT !.stage = stage].on = worker[w].on BY <1>r, <1>g DEF Run
  <2>3. QED BY <1>g, <2>1, <2>2, WorkerChanges DEF Goto
<1>l. ASSUME ~At(w, "idle"), Leave(w, Completed(My(w).job))
      PROVE  /\ worker' \in [Worker -> Run \cup {Idle}] /\ RunsQueued'
             /\ tick' \in [Tick -> TickState] /\ JobsSound' /\ TicksStay
  <2>1. tick' \in [Tick -> TickState] /\ JobsSound' /\ TicksStay
    BY <1>l, JobLeft DEF Leave
  <2>2. QED BY <1>l, <1>i, <2>1, WorkerChanges DEF Leave
<1>1. ASSUME NEW t \in Tick, Take(w, t) PROVE TypeInv' /\ TicksStay
  <2> DEFINE run == [stage |-> "incident", on |-> t, plan |-> NoPlan, who |-> {}]
  <2>1. Sound(Taken(tick[t].job, w)) BY <1>1, TakenSound DEF Take, TypeInv, JobsSound
  <2>2. Taken(tick[t].job, w).state = "active"
    BY DEF TypeInv, TypeOK, TickState, QueuedJob, Taken
  <2>3. tick' = [tick EXCEPT ![t].job = Taken(tick[t].job, w)] BY <1>1 DEF Take
  <2>4. tick' \in [Tick -> TickState] /\ JobsSound' /\ TicksStay
    BY <2>1, <2>2, <2>3, JobChanges
  <2>5. run \in Run BY DEF Run
  <2>6. \A v \in Worker : worker'[v] = IF v = w THEN run ELSE worker[v]
    BY <1>1 DEF Take, Become, TypeInv, TypeOK
  <2>7. worker' \in [Worker -> Run \cup {Idle}]
    BY <1>1, <2>5 DEF Take, Become, TypeInv, TypeOK
  <2>8. tick'[t].job.state # "absent"
    BY <2>2, <2>3 DEF TypeInv, TypeOK, TickState
  <2>9. RunsQueued'
    <3>1. \A v \in Worker : ~At(v, "idle") => worker[v].on \in Tick
      BY Running DEF TypeInv
    <3>2. QED BY <2>4, <2>6, <2>8, <3>1 DEF RunsQueued, At, My, TicksStay, TypeInv
  <2>10. QED BY <1>1, <2>4, <2>7, <2>9 DEF Take, TypeInv, TypeOK, outside, pages, records
<1>2. CASE ReadIncident(w)
  <2>1. ~At(w, "idle") BY <1>2 DEF ReadIncident, At
  <2>2. CASE incident # "OPEN"
    BY <1>2, <1>l, <2>1, <2>2 DEF ReadIncident, TypeInv, TypeOK, outside, pages, records
  <2>3. CASE incident = "OPEN"
    BY <1>2, <1>s, <1>g, <2>1, <2>3 DEF ReadIncident, TypeInv, TypeOK, outside, pages, records
  <2>4. QED BY <2>2, <2>3
<1>3. CASE ReadPolicy(w)
  <2>1. ~At(w, "idle") BY <1>3 DEF ReadPolicy, At
  <2>2. CASE policy.deleted \/ policy.saved.steps = <<>>
    BY <1>3, <1>l, <2>1, <2>2 DEF ReadPolicy, TypeInv, TypeOK, outside, pages, records
  <2>3. CASE ~(policy.deleted \/ policy.saved.steps = <<>>)
    <3> DEFINE stage == IF My(w).step <= Len(policy.saved.steps) THEN "resolve" ELSE "next"
               run   == [worker[w] EXCEPT !.stage = stage, !.plan = policy.saved]
    <3>1. Become(w, run) /\ UNCHANGED tick BY <1>3, <2>3 DEF ReadPolicy
    <3>2. run \in Run /\ run.on = worker[w].on
      BY <1>r, <2>1 DEF Run, TypeInv, TypeOK
    <3>3. worker' \in [Worker -> Run \cup {Idle}] /\ RunsQueued'
      BY <1>s, <2>1, <3>1, <3>2, WorkerChanges
    <3>4. QED BY <1>3, <1>s, <3>1, <3>3 DEF ReadPolicy, TypeInv, TypeOK, outside, pages, records
  <2>4. QED BY <2>2, <2>3
<1>4. CASE ResolveTargets(w)
  <2> DEFINE who == (Targets(w) \cap User)
                      \cup (IF Schedule \in Targets(w) THEN {onCall} \ {Nobody} ELSE {})
             run == [worker[w] EXCEPT !.stage = "page", !.who = who]
  <2>1. ~At(w, "idle") /\ Become(w, run) /\ UNCHANGED tick
    BY <1>4 DEF ResolveTargets, At
  <2>2. who \in SUBSET User BY DEF TypeInv, TypeOK
  <2> HIDE DEF who
  <2>3. run \in Run /\ run.on = worker[w].on BY <1>r, <2>1, <2>2 DEF Run
  <2>4. worker' \in [Worker -> Run \cup {Idle}] /\ RunsQueued'
    BY <1>s, <2>1, <2>3, WorkerChanges
  <2>5. QED
    BY <1>4, <1>s, <2>1, <2>4 DEF ResolveTargets, TypeInv, TypeOK, outside, pages, records
<1>5. CASE PageResponders(w)
  <2>1. PICK paged \in SUBSET worker[w].who :
          /\ Mail(My(w).step, paged)
          /\ IF paged = worker[w].who THEN UNCHANGED mishaps ELSE GoesWrong("page")
          /\ Become(w, [worker[w] EXCEPT !.stage = "channels", !.who = paged])
    BY <1>5 DEF PageResponders
  <2> DEFINE run == [worker[w] EXCEPT !.stage = "channels", !.who = paged]
  <2>2. ~At(w, "idle") /\ UNCHANGED tick BY <1>5 DEF PageResponders, At
  <2>3. paged \in SUBSET User /\ My(w).step \in Step BY <1>r, <2>2 DEF Run, TickState
  <2>4. run \in Run /\ run.on = worker[w].on BY <1>r, <2>2, <2>3 DEF Run
  <2>5. worker' \in [Worker -> Run \cup {Idle}] /\ RunsQueued'
    BY <1>s, <2>1, <2>2, <2>4, WorkerChanges
  <2>6. inMailQueue' \subseteq Page /\ mails' \in [Page -> Nat] /\ mishaps' \in [Mishap -> Nat]
    BY <2>1, <2>3, CountersType DEF TypeInv, TypeOK, Mishap
  <2>7. QED
    BY <1>5, <1>s, <2>2, <2>5, <2>6 DEF PageResponders, TypeInv, TypeOK, outside, records
<1>6. CASE AlertChannels(w)
  <2>1. ~At(w, "idle") /\ UNCHANGED tick BY <1>6 DEF AlertChannels, At
  <2>2. alerts' \in [Step \X Channel -> Nat] BY <1>6, CountersType DEF AlertChannels, TypeInv
  <2>3. QED
    BY <1>6, <1>s, <1>g, <2>1, <2>2 DEF AlertChannels, TypeInv, TypeOK, outside, pages, records
<1>7. CASE RecordEvent(w)
  <2>1. ~At(w, "idle") /\ UNCHANGED tick BY <1>7 DEF RecordEvent, At
  <2>2. fired' \in [Round \X Step -> Nat] /\ claims' \in [Page -> Nat]
    <3>1. <<My(w).round, My(w).step>> \in Round \X Step BY <1>r, <2>1 DEF TickState
    <3>2. fired[<<My(w).round, My(w).step>>] + 1 \in Nat BY <3>1 DEF TypeInv, TypeOK
    <3>3. QED BY <1>7, <3>1, <3>2 DEF RecordEvent, TypeInv, TypeOK
  <2>3. QED
    BY <1>7, <1>s, <1>g, <2>1, <2>2 DEF RecordEvent, TypeInv, TypeOK, outside, pages
<1>8. ASSUME NEW t \in Tick, QueueNext(w, t) PROVE TypeInv' /\ TicksStay
  <2>1. ~At(w, "idle") /\ Fresh(t) BY <1>8 DEF QueueNext, At
  <2>2. /\ worker[w].plan \in Policies \cup {NoPlan}
        /\ My(w).step \in Step /\ My(w).round \in Round
    BY <1>r, <2>1 DEF Run, TickState
  <2>3. /\ worker[w].plan.repeatCount \in Round
        /\ Len(worker[w].plan.steps) \in Nat /\ Len(worker[w].plan.steps) <= MaxSteps
    BY <2>2, EscalationAssumption DEF NoPlan, Round
  <2>4. NextStepLeft(w) => My(w).step + 1 \in Step
    BY <2>2, <2>3, EscalationAssumption DEF NextStepLeft, Step
  <2>5. NextRoundLeft(w) => My(w).round + 1 \in Round
    BY <2>2, <2>3, EscalationAssumption DEF NextRoundLeft, Round
  <2>6. 1 \in Step BY EscalationAssumption DEF Step
  <2>7. tick' \in [Tick -> TickState] /\ JobsSound' /\ TicksStay
    BY <1>8, <2>1, <2>2, <2>4, <2>5, <2>6, TickQueued DEF QueueNext, QueueTick
  <2>8. QED
    BY <1>8, <1>g, <2>1, <2>7 DEF QueueNext, TypeInv, TypeOK, outside, pages, records
<1>9. CASE Return(w)
  <2>1. ~At(w, "idle") BY <1>9 DEF Return, At
  <2>2. QED BY <1>9, <1>l, <2>1 DEF Return, TypeInv, TypeOK, outside, pages, records
<1>10. QED
  BY <1>1, <1>2, <1>3, <1>4, <1>5, <1>6, <1>7, <1>8, <1>9 DEF Process

\* A run or a lock is lost, or found lost.
LEMMA FaultType ==
  ASSUME TypeInv
  PROVE  /\ \A w \in Worker :
              Throws(w) \/ WorkerCrashes(w) \/ WorkerHangs(w) => TypeInv' /\ TicksStay
         /\ \A t \in Tick : Recover(t) => TypeInv' /\ TicksStay
<1>1. ASSUME NEW w \in Worker, Throws(w) \/ WorkerCrashes(w) \/ WorkerHangs(w)
      PROVE  TypeInv' /\ TicksStay
  <2>1. ~At(w, "idle") BY <1>1 DEF Throws, WorkerCrashes, WorkerHangs
  <2>2. mishaps' \in [Mishap -> Nat]
    BY <1>1, CountersType DEF Throws, WorkerCrashes, WorkerHangs, TypeInv, Mishap
  <2>3. tick' \in [Tick -> TickState] /\ JobsSound' /\ TicksStay
    BY <1>1, <2>1, JobLeft DEF Throws, WorkerCrashes, WorkerHangs, Leave, LoseLock, My
  <2>4. worker' \in [Worker -> Run \cup {Idle}] /\ RunsQueued'
    <3>1. CASE Throws(w) \/ WorkerCrashes(w)
      BY <2>3, <3>1, WorkerChanges DEF Throws, WorkerCrashes, Leave
    <3>2. CASE WorkerHangs(w)
      BY <2>3, <3>2, WorkersStay DEF WorkerHangs, TypeInv, TypeOK
    <3>3. QED BY <1>1, <3>1, <3>2
  <2>5. alerts' \in [Step \X Channel -> Nat]
    BY <1>1, CountersType
    DEF Throws, WorkerCrashes, WorkerHangs, SomeChannels, TypeInv, TypeOK
  <2>6. inMailQueue' \subseteq Page /\ mails' \in [Page -> Nat]
    <3>1. My(w).step \in Step /\ worker[w].who \subseteq User
      BY <2>1, Running DEF TypeInv, Run, TickState
    <3>2. SomePages(w) => inMailQueue' \subseteq Page /\ mails' \in [Page -> Nat]
      BY <3>1, CountersType DEF SomePages, TypeInv, TypeOK, pages
    <3>3. QED BY <1>1, <3>2 DEF Throws, WorkerCrashes, WorkerHangs, TypeInv, TypeOK, pages
  <2>7. UNCHANGED <<outside, starter, records>>
    BY <1>1 DEF Throws, WorkerCrashes, WorkerHangs
  <2>8. QED
    BY <2>2, <2>3, <2>4, <2>5, <2>6, <2>7 DEF TypeInv, TypeOK, outside, records
<1>2. ASSUME NEW t \in Tick, Recover(t) PROVE TypeInv' /\ TicksStay
  <2>1. Sound(Stalled(tick[t].job)) BY <1>2, StalledSound DEF Recover, TypeInv, JobsSound
  <2>2. Stalled(tick[t].job).state # "absent"
    BY <1>2 DEF Recover, Stalled, TypeInv, JobsSound, Sound, QueuedJob
  <2>3. tick' = [tick EXCEPT ![t].job = Stalled(tick[t].job)] BY <1>2 DEF Recover
  <2>4. tick' \in [Tick -> TickState] /\ JobsSound' /\ TicksStay
    BY <2>1, <2>2, <2>3, JobChanges
  <2>5. QED
    BY <1>2, <2>4, WorkersStay DEF Recover, TypeInv, TypeOK, outside, pages, records
<1>3. QED BY <1>1, <1>2

\* The starter, and whatever happens meanwhile.
LEMMA OthersType ==
  ASSUME TypeInv,
         \/ Start \/ CloseIncident \/ RemovePolicy
         \/ \E g \in Page : PageExpires(g)
         \/ \E p \in Policies : UpdatePolicy(p)
         \/ \E u \in User \cup {Nobody} : HandOver(u)
  PROVE  TypeInv' /\ TicksStay
<1>1. ASSUME NEW t \in Tick, StartAdds(t) PROVE TypeInv' /\ TicksStay
  <2>1. 1 \in Step /\ 0 \in Round BY EscalationAssumption DEF Step, Round
  <2>2. tick' \in [Tick -> TickState] /\ JobsSound' /\ TicksStay
    BY <1>1, <2>1, TickQueued DEF StartAdds
  <2>3. QED
    BY <1>1, <2>2, WorkersStay DEF StartAdds, TypeInv, TypeOK, outside, pages, records
<1>2. ASSUME UNCHANGED <<tick, worker>>, TypeOK' PROVE TypeInv' /\ TicksStay
  BY <1>2 DEF TypeInv, JobsSound, RunsQueued, At, My, TicksStay
<1>3. CASE StartReads
  BY <1>2, <1>3 DEF StartReads, TypeInv, TypeOK, outside, pages, records
<1>4. CASE CloseIncident
  BY <1>2, <1>4 DEF CloseIncident, TypeInv, TypeOK, pages, records
<1>5. ASSUME NEW p \in Policies, UpdatePolicy(p) PROVE TypeInv' /\ TicksStay
  BY <1>2, <1>5 DEF UpdatePolicy, TypeInv, TypeOK, pages, records
<1>6. CASE RemovePolicy
  BY <1>2, <1>6 DEF RemovePolicy, TypeInv, TypeOK, pages, records
<1>7. ASSUME NEW u \in User \cup {Nobody}, HandOver(u) PROVE TypeInv' /\ TicksStay
  BY <1>2, <1>7 DEF HandOver, TypeInv, TypeOK, pages, records
<1>8. ASSUME NEW g \in Page, PageExpires(g) PROVE TypeInv' /\ TicksStay
  <2>1. mishaps' \in [Mishap -> Nat]
    BY <1>8, CountersType DEF PageExpires, TypeInv, Mishap
  <2>2. QED BY <1>2, <1>8, <2>1 DEF PageExpires, TypeInv, TypeOK, outside, records
<1>9. QED BY <1>1, <1>3, <1>4, <1>5, <1>6, <1>7, <1>8 DEF Start

LEMMA TypeInvInit == ASSUME Init PROVE TypeInv
<1>1. /\ NoTick \in TickState /\ Sound(NoTick.job)
  BY NewJobSound, EscalationAssumption DEF NoTick, TickState, Sound, Step, Round
<1>2. TypeOK BY <1>1 DEF Init, TypeOK
<1>3. QED BY <1>1, <1>2 DEF Init, TypeInv, JobsSound, RunsQueued, At, Idle

LEMMA TypeInvNext == ASSUME TypeInv, Next PROVE TypeInv' /\ TicksStay
BY ProcessType, FaultType, OthersType DEF Next

LEMMA TypeInvStutter == ASSUME TypeInv, UNCHANGED vars PROVE TypeInv'
BY DEF vars, TypeInv, TypeOK, JobsSound, RunsQueued, At, My

\* Ticks, runs and counters keep to their values, and no tick is attempted more often
\* than its queue allows, whatever the policy is edited to (createEscalationProcessor).
THEOREM TypeCorrect == Spec => []TypeOK
<1>1. TypeInv /\ [Next]_vars => TypeInv' BY TypeInvNext, TypeInvStutter
<1>2. QED BY TypeInvInit, <1>1, PTL DEF Spec, TypeInv


-----------------------------------------------------------------------------
(* A closed incident *)

\* While every run is before the guard, the guard ends it or something goes wrong with
\* it; neither sends anything.
LEMMA QuietStays ==
  ASSUME TypeInv, Quiet, Next
  PROVE  Quiet' /\ UNCHANGED <<mails, claims, alerts, fired>>
<1> DEFINE same == UNCHANGED <<mails, claims, alerts, fired>>
<1>b. ASSUME NEW w \in Worker, NEW run, Become(w, run), run.stage \in {"idle", "incident"},
             UNCHANGED incident
      PROVE  Quiet'
  <2>1. \A v \in Worker : worker'[v] = IF v = w THEN run ELSE worker[v]
    BY <1>b DEF Become, TypeInv, TypeOK
  <2>2. QED BY <1>b, <2>1 DEF Quiet, At
<1>i. Idle.stage = "idle" BY DEF Idle
<1>1. ASSUME NEW w \in Worker, NEW t \in Tick, Take(w, t) PROVE Quiet' /\ same
  BY <1>1, <1>b DEF Take, outside, pages, records
<1>2. ASSUME NEW w \in Worker, ReadIncident(w) PROVE Quiet' /\ same
  <2>1. Leave(w, Completed(My(w).job)) BY <1>2 DEF ReadIncident, Quiet
  <2>2. QED BY <1>2, <1>b, <1>i, <2>1 DEF Leave, ReadIncident, outside, pages, records
<1>3. ASSUME NEW w \in Worker, Process(w), ~(\E t \in Tick : Take(w, t)), ~ReadIncident(w)
      PROVE  FALSE
  BY <1>3 DEF Process, ReadPolicy, ResolveTargets, PageResponders, AlertChannels, RecordEvent,
              QueueNext, Return, Quiet, At
<1>4. ASSUME NEW w \in Worker, Throws(w) \/ WorkerCrashes(w) PROVE Quiet' /\ same
  <2>1. Become(w, Idle) /\ UNCHANGED incident
    BY <1>4 DEF Throws, WorkerCrashes, Leave, outside
  <2>2. ~At(w, "channels") /\ ~At(w, "page") BY DEF Quiet, At
  <2>3. same BY <1>4, <2>2 DEF Throws, WorkerCrashes, SomeChannels, SomePages, pages, records
  <2>4. QED BY <1>b, <1>i, <2>1, <2>3
<1>5. ASSUME UNCHANGED worker, incident' # "OPEN", same PROVE Quiet' /\ same
  BY <1>5 DEF Quiet, At
<1>6. ASSUME NEW w \in Worker, WorkerHangs(w) PROVE Quiet' /\ same
  BY <1>5, <1>6 DEF WorkerHangs, Quiet, outside, pages, records
<1>7. ASSUME NEW t \in Tick, Recover(t) PROVE Quiet' /\ same
  BY <1>5, <1>7 DEF Recover, Quiet, outside, pages, records
<1>8. ASSUME NEW g \in Page, PageExpires(g) PROVE Quiet' /\ same
  BY <1>5, <1>8 DEF PageExpires, Quiet, outside, records
<1>9. CASE CloseIncident BY <1>5, <1>9 DEF CloseIncident, Quiet, pages, records
<1>10. CASE Start BY <1>5, <1>10 DEF Start, StartReads, StartAdds, Quiet, outside, pages, records
<1>11. ASSUME NEW p \in Policies, UpdatePolicy(p) PROVE Quiet' /\ same
  BY <1>5, <1>11 DEF UpdatePolicy, Quiet, pages, records
<1>12. CASE RemovePolicy BY <1>5, <1>12 DEF RemovePolicy, Quiet, pages, records
<1>13. ASSUME NEW u \in User \cup {Nobody}, HandOver(u) PROVE Quiet' /\ same
  BY <1>5, <1>13 DEF HandOver, Quiet, pages, records
<1>14. QED
  BY <1>1, <1>2, <1>3, <1>4, <1>6, <1>7, <1>8, <1>9, <1>10, <1>11, <1>12, <1>13 DEF Next

\* A closed incident whose runs are over pages and alerts nobody ever again, whatever
\* ticks are due, retried or stall (the guard of executeStep).
THEOREM ClosedQuiet == Spec => ClosedIsQuiet
<1>1. TypeInv /\ [Next]_vars => TypeInv' BY TypeInvNext, TypeInvStutter
<1>2. TypeInv /\ [Next]_vars =>
        [Quiet => Quiet' /\ UNCHANGED <<mails, claims, alerts, fired>>]_vars
  BY QuietStays
<1>3. QED BY TypeInvInit, <1>1, <1>2, PTL DEF Spec, ClosedIsQuiet

-----------------------------------------------------------------------------
(* The pages *)

\* A page that the mail queue knows was mailed, and one it does not know was mailed no
\* more often than ids were forgotten.
PagesCounted ==
  \A g \in Page :
    /\ mails[g] <= 1 + mishaps["expire"]
    /\ g \notin inMailQueue => mails[g] <= mishaps["expire"]
    /\ g \in inMailQueue => mails[g] > 0
    /\ claims[g] > 0 => mails[g] > 0

\* Whom a run lists as paged was.
RunsPaged ==
  \A w \in Worker : worker[w].stage \in {"channels", "event"} =>
    \A u \in worker[w].who : mails[<<My(w).step, u>>] > 0

PageInv == TypeInv /\ PagesCounted /\ RunsPaged

\* Mails are queued, each one the mail queue does not know.
LEMMA MailCounts ==
  ASSUME TypeInv, PagesCounted, NEW step \in Step, NEW S \in SUBSET User, Mail(step, S),
         mishaps'["expire"] = mishaps["expire"], claims' = claims
  PROVE  /\ PagesCounted'
         /\ \A g \in Page : mails[g] > 0 => mails'[g] > 0
         /\ \A u \in S : mails'[<<step, u>>] > 0
<1> DEFINE ids == {<<step, u>> : u \in S}
<1>1. /\ inMailQueue' = inMailQueue \cup ids
      /\ \A g \in Page : mails'[g] = IF g \in ids \ inMailQueue THEN mails[g] + 1 ELSE mails[g]
  BY DEF Mail
<1>2. \A g \in Page : mails[g] \in Nat /\ mishaps["expire"] \in Nat
  BY DEF TypeInv, TypeOK, Mishap
<1>3. \A u \in S : <<step, u>> \in ids /\ <<step, u>> \in Page BY DEF Page
<1> HIDE DEF ids
<1>4. ASSUME NEW g \in Page
      PROVE  /\ mails'[g] <= 1 + mishaps["expire"]
             /\ g \notin inMailQueue' => mails'[g] <= mishaps["expire"]
             /\ g \in inMailQueue' => mails'[g] > 0
             /\ claims[g] > 0 => mails'[g] > 0
             /\ mails[g] > 0 => mails'[g] > 0
             /\ g \in ids => mails'[g] > 0
  BY <1>1, <1>2 DEF PagesCounted
<1>5. QED BY <1>3, <1>4 DEF PagesCounted

\* Nothing is mailed or claimed.
LEMMA PagesStay ==
  ASSUME PagesCounted, UNCHANGED <<mails, inMailQueue, claims>>,
         mishaps'["expire"] = mishaps["expire"]
  PROVE  PagesCounted'
BY DEF PagesCounted

\* No run comes to list anybody, and nothing mailed is taken back.
LEMMA RunsPagedStay ==
  ASSUME TypeInv, RunsPaged, TicksStay, \A g \in Page : mails[g] > 0 => mails'[g] > 0,
         \A w \in Worker : worker'[w].stage \in {"channels", "event"} =>
           /\ worker[w].stage \in {"channels", "event"}
           /\ worker'[w].on = worker[w].on /\ worker'[w].who = worker[w].who
  PROVE  RunsPaged'
<1> SUFFICES ASSUME NEW w \in Worker, worker'[w].stage \in {"channels", "event"},
                    NEW u \in worker'[w].who
             PROVE  mails'[<<tick'[worker'[w].on].step, u>>] > 0
  BY DEF RunsPaged, My
<1>1. ~At(w, "idle") /\ worker'[w].on = worker[w].on BY DEF At
<1>2. worker[w].on \in Tick /\ My(w) \in TickState /\ worker[w] \in Run
  BY <1>1, Running DEF TypeInv
<1>3. tick'[worker'[w].on].step = My(w).step
  BY <1>1, <1>2 DEF TypeInv, RunsQueued, TicksStay, My
<1>4. <<My(w).step, u>> \in Page BY <1>2 DEF Page, Run, TickState
<1>5. QED BY <1>1, <1>3, <1>4 DEF RunsPaged

\* What a step does to the pages, and to the runs that list some.
LEMMA PageInvNext == ASSUME PageInv, Next PROVE PageInv'
<1>t. TypeInv' /\ TicksStay BY TypeInvNext DEF PageInv
<1>w. ASSUME NEW w \in Worker, NEW run, Become(w, run),
             \A g \in Page : mails[g] > 0 => mails'[g] > 0,
             \/ run.stage \notin {"channels", "event"}
             \/ /\ worker[w].stage \in {"channels", "event"}
                /\ run.on = worker[w].on /\ run.who = worker[w].who
      PROVE  RunsPaged'
  <2>1. \A v \in Worker : worker'[v] = IF v = w THEN run ELSE worker[v]
    BY <1>w DEF Become, PageInv, TypeInv, TypeOK
  <2>2. QED BY <1>t, <1>w, <2>1, RunsPagedStay DEF PageInv
<1>u. UNCHANGED <<worker, mails>> => RunsPaged'
  BY <1>t, RunsPagedStay DEF PageInv
<1>c. UNCHANGED <<pages, claims, mishaps>> => PagesCounted'
  BY PagesStay DEF PageInv, pages
<1>m. ASSUME NEW m \in Mishap \ {"expire"}, GoesWrong(m)
      PROVE  mishaps'["expire"] = mishaps["expire"]
  BY <1>m DEF GoesWrong, PageInv, TypeInv, TypeOK, Mishap
<1>r. \A w \in Worker : ~At(w, "idle") =>
        /\ worker[w] \in Run /\ My(w).step \in Step /\ worker[w].who \in SUBSET User
  BY Running DEF PageInv, TypeInv, Run, TickState
<1>i. Idle.stage = "idle" BY DEF Idle
<1>1. ASSUME NEW w \in Worker, NEW t \in Tick, Take(w, t) PROVE PageInv'
  BY <1>1, <1>t, <1>w, <1>c DEF Take, PageInv, pages, records
<1>2. ASSUME NEW w \in Worker, NEW stage \in {"policy", "next", "return"}, ~At(w, "idle"),
             Goto(w, stage), UNCHANGED pages
      PROVE  RunsPaged'
  BY <1>2, <1>w, <1>r DEF Goto, Run, pages
<1>3. ASSUME NEW w \in Worker, Become(w, Idle), UNCHANGED pages PROVE RunsPaged'
  BY <1>3, <1>w, <1>i DEF pages
<1>4. ASSUME NEW w \in Worker, ReadIncident(w) \/ Return(w) PROVE PageInv'
  <2>1. ~At(w, "idle") BY <1>4 DEF ReadIncident, Return, At
  <2>2. QED
    BY <1>4, <1>t, <1>c, <1>2, <1>3, <2>1 DEF ReadIncident, Return, Leave, PageInv, pages, records
<1>5. ASSUME NEW w \in Worker, ReadPolicy(w) PROVE PageInv'
  <2>1. ~At(w, "idle") BY <1>5 DEF ReadPolicy, At
  <2> DEFINE stage == IF My(w).step <= Len(policy.saved.steps) THEN "resolve" ELSE "next"
             run   == [worker[w] EXCEPT !.stage = stage, !.plan = policy.saved]
  <2>2. run.stage \notin {"channels", "event"} BY <1>r, <2>1 DEF Run
  <2>3. RunsPaged'
    BY <1>5, <1>w, <1>3, <2>2 DEF ReadPolicy, Leave, pages
  <2>4. QED BY <1>5, <1>t, <1>c, <2>3 DEF ReadPolicy, PageInv, pages, records
<1>6. ASSUME NEW w \in Worker, ResolveTargets(w) PROVE PageInv'
  <2> DEFINE who == (Targets(w) \cap User)
                      \cup (IF Schedule \in Targets(w) THEN {onCall} \ {Nobody} ELSE {})
             run == [worker[w] EXCEPT !.stage = "page", !.who = who]
  <2>1. Become(w, run) /\ ~At(w, "idle") BY <1>6 DEF ResolveTargets, At
  <2>2. run.stage = "page" BY <1>r, <2>1 DEF Run
  <2>3. RunsPaged' BY <1>6, <1>w, <2>1, <2>2 DEF ResolveTargets, pages
  <2>4. QED BY <1>6, <1>t, <1>c, <2>3 DEF ResolveTargets, PageInv, pages, records
<1>7. ASSUME NEW w \in Worker, PageResponders(w) PROVE PageInv'
  <2>1. PICK paged \in SUBSET worker[w].who :
          /\ Mail(My(w).step, paged)
          /\ IF paged = worker[w].who THEN UNCHANGED mishaps ELSE GoesWrong("page")
          /\ Become(w, [worker[w] EXCEPT !.stage = "channels", !.who = paged])
    BY <1>7 DEF PageResponders
  <2>2. ~At(w, "idle") /\ UNCHANGED <<tick, claims>> BY <1>7 DEF PageResponders, At, records
  <2>3. mishaps'["expire"] = mishaps["expire"] BY <1>m, <2>1 DEF Mishap
  <2>4. paged \in SUBSET User /\ My(w).step \in Step BY <1>r, <2>2
  <2>5. /\ PagesCounted'
        /\ \A g \in Page : mails[g] > 0 => mails'[g] > 0
        /\ \A u \in paged : mails'[<<My(w).step, u>>] > 0
    BY <2>1, <2>2, <2>3, <2>4, MailCounts DEF PageInv
  <2>6. ASSUME NEW v \in Worker, worker'[v].stage \in {"channels", "event"},
               NEW u \in worker'[v].who
        PROVE  mails'[<<tick'[worker'[v].on].step, u>>] > 0
    <3>1. CASE v = w
      <4>1. worker'[w].who = paged /\ worker'[w].on = worker[w].on
        BY <1>r, <2>1, <2>2 DEF Become, PageInv, TypeInv, TypeOK, Run
      <4>2. QED BY <2>2, <2>5, <2>6, <3>1, <4>1 DEF My
    <3>2. CASE v # w
      <4>1. worker'[v] = worker[v] BY <2>1, <3>2 DEF Become, PageInv, TypeInv, TypeOK
      <4>2. ~At(v, "idle") BY <2>6, <4>1 DEF At
      <4>3. <<My(v).step, u>> \in Page BY <1>r, <2>6, <4>1, <4>2 DEF Page
      <4>4. mails[<<My(v).step, u>>] > 0 BY <2>6, <4>1 DEF PageInv, RunsPaged
      <4>5. QED BY <2>2, <2>5, <4>1, <4>3, <4>4 DEF My
    <3>3. QED BY <3>1, <3>2
  <2>7. RunsPaged' BY <2>6 DEF RunsPaged, My
  <2>8. QED BY <1>t, <2>5, <2>7 DEF PageInv
<1>8. ASSUME NEW w \in Worker, AlertChannels(w) PROVE PageInv'
  <2> DEFINE run == [worker[w] EXCEPT !.stage = "event"]
  <2>1. Become(w, run) /\ ~At(w, "idle") /\ worker[w].stage = "channels"
    BY <1>8 DEF AlertChannels, Goto, At
  <2>2. run.on = worker[w].on /\ run.who = worker[w].who BY <1>r, <2>1 DEF Run
  <2>3. RunsPaged' BY <1>8, <1>w, <2>1, <2>2 DEF AlertChannels, pages
  <2>4. QED BY <1>8, <1>t, <1>c, <2>3 DEF AlertChannels, PageInv, pages, records
<1>9. ASSUME NEW w \in Worker, RecordEvent(w) PROVE PageInv'
  <2>1. ~At(w, "idle") /\ worker[w].stage = "event" BY <1>9 DEF RecordEvent, At
  <2>2. \A g \in Page : claims'[g] = IF g[1] = My(w).step /\ g[2] \in worker[w].who
                                       THEN claims[g] + 1 ELSE claims[g]
    BY <1>9 DEF RecordEvent
  <2>3. ASSUME NEW g \in Page, g[1] = My(w).step, g[2] \in worker[w].who PROVE mails[g] > 0
    <3>1. g = <<My(w).step, g[2]>> BY <2>3 DEF Page
    <3>2. QED BY <2>1, <2>3, <3>1 DEF PageInv, RunsPaged
  <2>4. PagesCounted'
    BY <1>9, <2>2, <2>3 DEF RecordEvent, PageInv, PagesCounted, pages
  <2>5. QED BY <1>9, <1>t, <1>2, <2>1, <2>4 DEF RecordEvent, PageInv
<1>10. ASSUME NEW w \in Worker, NEW t \in Tick, QueueNext(w, t) PROVE PageInv'
  <2>1. ~At(w, "idle") BY <1>10 DEF QueueNext, At
  <2>2. QED BY <1>10, <1>t, <1>c, <1>2, <2>1 DEF QueueNext, PageInv, pages, records
<1>11. ASSUME NEW w \in Worker, Throws(w) PROVE PageInv'
  <2>1. RunsPaged' BY <1>11, <1>3 DEF Throws, Leave
  <2>2. mishaps'["expire"] = mishaps["expire"] BY <1>11, <1>m DEF Throws, Mishap
  <2>3. QED BY <1>11, <1>t, <2>1, <2>2, PagesStay DEF Throws, PageInv, pages, records
<1>12. ASSUME NEW w \in Worker, WorkerCrashes(w) PROVE PageInv'
  <2>1. mishaps'["expire"] = mishaps["expire"] /\ claims' = claims
    BY <1>12, <1>m DEF WorkerCrashes, Mishap, records
  <2>2. My(w).step \in Step /\ worker[w].who \in SUBSET User
    BY <1>12, <1>r DEF WorkerCrashes
  <2>3. PagesCounted' /\ \A g \in Page : mails[g] > 0 => mails'[g] > 0
    <3>1. CASE UNCHANGED pages BY <2>1, <3>1, PagesStay DEF pages, PageInv
    <3>2. ASSUME NEW S \in SUBSET worker[w].who, Mail(My(w).step, S)
          PROVE  PagesCounted' /\ \A g \in Page : mails[g] > 0 => mails'[g] > 0
      <4>1. S \in SUBSET User BY <2>2
      <4>2. QED BY <2>1, <2>2, <3>2, <4>1, MailCounts DEF PageInv
    <3>3. QED BY <1>12, <3>1, <3>2 DEF WorkerCrashes, SomePages
  <2>4. RunsPaged' BY <1>12, <1>w, <1>i, <2>3 DEF WorkerCrashes
  <2>5. QED BY <1>t, <2>3, <2>4 DEF PageInv
<1>13. ASSUME NEW w \in Worker, WorkerHangs(w) PROVE PageInv'
  <2>1. mishaps'["expire"] = mishaps["expire"] BY <1>13, <1>m DEF WorkerHangs, Mishap
  <2>2. QED
    BY <1>13, <1>t, <1>u, <2>1, PagesStay DEF WorkerHangs, PageInv, pages, records
<1>14. ASSUME NEW g \in Page, PageExpires(g) PROVE PageInv'
  <2>1. mishaps'["expire"] = mishaps["expire"] + 1 /\ mishaps["expire"] \in Nat
    BY <1>14 DEF PageExpires, GoesWrong, PageInv, TypeInv, TypeOK, Mishap
  <2>2. \A f \in Page : mails[f] \in Nat BY DEF PageInv, TypeInv, TypeOK
  <2>3. PagesCounted'
    BY <1>14, <2>1, <2>2 DEF PageExpires, PageInv, PagesCounted, records
  <2>4. QED BY <1>14, <1>t, <1>u, <2>3 DEF PageExpires, PageInv
<1>15. ASSUME UNCHANGED <<worker, pages, claims, mishaps>> PROVE PageInv'
  BY <1>15, <1>t, <1>u, <1>c DEF PageInv, pages
<1>16. (\E t \in Tick : Recover(t)) => PageInv' BY <1>15 DEF Recover, records
<1>17. Start => PageInv' BY <1>15 DEF Start, StartReads, StartAdds, records
<1>18. CloseIncident \/ RemovePolicy => PageInv' BY <1>15 DEF CloseIncident, RemovePolicy, records
<1>19. (\E p \in Policies : UpdatePolicy(p)) => PageInv' BY <1>15 DEF UpdatePolicy, records
<1>20. (\E u \in User \cup {Nobody} : HandOver(u)) => PageInv' BY <1>15 DEF HandOver, records
<1>21. QED
  BY <1>1, <1>4, <1>5, <1>6, <1>7, <1>8, <1>9, <1>10, <1>11, <1>12, <1>13, <1>14,
     <1>16, <1>17, <1>18, <1>19, <1>20 DEF Next, Process

\* A page is mailed once, and once more for each time the mail queue forgot one, and
\* what the timeline says was paged was (emailResponderNotifier, executeStep).
THEOREM PagesHonest == Spec => []PagesAreHonest
<1>1. ASSUME Init PROVE PageInv
  <2>1. TypeInv BY <1>1, TypeInvInit
  <2>2. mishaps["expire"] = 0 BY <1>1 DEF Init, Mishap
  <2>3. inMailQueue = {} /\ \A g \in Page : mails[g] = 0 /\ claims[g] = 0
    BY <1>1 DEF Init
  <2>4. PagesCounted BY <2>2, <2>3 DEF PagesCounted
  <2>5. \A w \in Worker : worker[w].stage = "idle" BY <1>1 DEF Init, Idle
  <2>6. RunsPaged BY <2>5 DEF RunsPaged
  <2>7. QED BY <2>1, <2>4, <2>6 DEF PageInv
<1>2. ASSUME PageInv, UNCHANGED vars PROVE PageInv'
  BY <1>2, TypeInvStutter DEF vars, PageInv, PagesCounted, RunsPaged, My
<1>3. PageInv /\ [Next]_vars => PageInv' BY <1>2, PageInvNext
<1>4. PageInv => PagesAreHonest BY DEF PageInv, PagesCounted, PagesAreHonest
<1>5. QED BY <1>1, <1>3, <1>4, PTL DEF Spec


-----------------------------------------------------------------------------
(* The order of the steps *)

\* A tick of a later step was queued because the step before it fired, by a run that
\* still knows that its own step did.
Ordered ==
  /\ \A t \in Tick : tick[t].job.state # "absent" /\ tick[t].step > 1 =>
       fired[<<tick[t].round, tick[t].step - 1>>] > 0
  /\ \A w \in Worker : At(w, "next") /\ My(w).step <= Len(worker[w].plan.steps) =>
       fired[<<My(w).round, My(w).step>>] > 0
  /\ \A r \in Round, s \in Step : fired[<<r, s>>] > 0 /\ s > 1 => fired[<<r, s - 1>>] > 0

OrderInv == TypeInv /\ Ordered

\* Nothing fires, no tick is queued, and no run comes to its last await.
LEMMA OrderStays ==
  ASSUME OrderInv, TicksStay, UNCHANGED fired,
         \A t \in Tick : tick[t].job.state = "absent" => tick'[t].job.state = "absent",
         \A w \in Worker : worker'[w].stage = "next" => worker'[w] = worker[w]
  PROVE  Ordered'
<1>1. ASSUME NEW t \in Tick, tick'[t].job.state # "absent", tick'[t].step > 1
      PROVE  fired'[<<tick'[t].round, tick'[t].step - 1>>] > 0
  BY <1>1 DEF OrderInv, Ordered, TicksStay
<1>2. ASSUME NEW w \in Worker, At(w, "next")', (My(w).step <= Len(worker[w].plan.steps))'
      PROVE  (fired[<<My(w).round, My(w).step>>] > 0)'
  <2>1. worker'[w] = worker[w] /\ At(w, "next") BY <1>2 DEF At
  <2>2. ~At(w, "idle") BY <2>1 DEF At
  <2>3. worker[w].on \in Tick BY <2>2, Running DEF OrderInv, TypeInv
  <2>4. tick[worker[w].on].job.state # "absent"
    BY <2>2 DEF OrderInv, TypeInv, RunsQueued, My
  <2>5. /\ (My(w).step)' = My(w).step
        /\ (My(w).round)' = My(w).round
    BY <2>1, <2>3, <2>4 DEF TicksStay, My
  <2>6. My(w).step <= Len(worker[w].plan.steps) BY <1>2, <2>1, <2>5
  <2>7. fired[<<My(w).round, My(w).step>>] > 0 BY <2>1, <2>6 DEF OrderInv, Ordered
  <2>8. QED BY <2>5, <2>7
<1>3. QED BY <1>1, <1>2 DEF OrderInv, Ordered

\* The step of a run fires: the one before it did, or the run would not be.
LEMMA OrderFires ==
  ASSUME OrderInv, TicksStay, NEW w \in Worker, RecordEvent(w)
  PROVE  Ordered'
<1> DEFINE f == <<My(w).round, My(w).step>>
<1>1. ~At(w, "idle") BY DEF RecordEvent, At
<1>2. worker[w] \in Run /\ worker[w].on \in Tick /\ My(w) \in TickState
  BY <1>1, Running DEF OrderInv, TypeInv
<1>3. /\ My(w).job.state # "absent"
      /\ My(w).round \in Round /\ My(w).step \in Step /\ f \in Round \X Step
  BY <1>1, <1>2 DEF OrderInv, TypeInv, RunsQueued, TickState
<1>4. \A g \in Round \X Step : fired'[g] = IF g = f THEN fired[g] + 1 ELSE fired[g]
  BY DEF RecordEvent, OrderInv, TypeInv, TypeOK
<1>5. \A g \in Round \X Step : fired[g] \in Nat BY DEF OrderInv, TypeInv, TypeOK
<1>6. \A g \in Round \X Step : fired[g] > 0 => fired'[g] > 0 BY <1>4, <1>5
<1>7. fired'[f] > 0 BY <1>3, <1>4, <1>5
<1>8. UNCHANGED tick /\ \A v \in Worker :
        worker'[v] = IF v = w THEN [worker[w] EXCEPT !.stage = "next"] ELSE worker[v]
  BY DEF RecordEvent, Goto, Become, OrderInv, TypeInv, TypeOK
<1>9. ASSUME NEW r \in Round, NEW s \in Step, s > 1 PROVE <<r, s - 1>> \in Round \X Step
  BY <1>9, EscalationAssumption DEF Step
<1>10. \A t \in Tick : tick[t].round \in Round /\ tick[t].step \in Step
  BY DEF OrderInv, TypeInv, TypeOK, TickState
<1>11. My(w).step > 1 => fired[<<My(w).round, My(w).step - 1>>] > 0
  BY <1>2, <1>3 DEF OrderInv, Ordered, My
<1>12. ASSUME NEW t \in Tick, tick'[t].job.state # "absent", tick'[t].step > 1
       PROVE  fired'[<<tick'[t].round, tick'[t].step - 1>>] > 0
  <2>1. fired[<<tick[t].round, tick[t].step - 1>>] > 0
    BY <1>8, <1>12 DEF OrderInv, Ordered
  <2>2. QED BY <1>6, <1>8, <1>9, <1>10, <1>12, <2>1
<1>13. ASSUME NEW v \in Worker, At(v, "next")', (My(v).step <= Len(worker[v].plan.steps))'
       PROVE  (fired[<<My(v).round, My(v).step>>] > 0)'
  <2>1. CASE v = w
    <3>1. worker'[w].on = worker[w].on BY <1>2, <1>8 DEF Run
    <3>2. QED BY <1>7, <1>8, <2>1, <3>1 DEF My
  <2>2. CASE v # w
    <3>1. worker'[v] = worker[v] /\ At(v, "next") /\ ~At(v, "idle")
      BY <1>8, <1>13, <2>2 DEF At
    <3>2. worker[v].on \in Tick BY <3>1, Running DEF OrderInv, TypeInv
    <3>3. fired[<<My(v).round, My(v).step>>] > 0
      BY <1>8, <1>13, <3>1 DEF OrderInv, Ordered, My
    <3>4. <<My(v).round, My(v).step>> \in Round \X Step BY <1>10, <3>2 DEF My
    <3>5. QED BY <1>6, <1>8, <3>1, <3>3, <3>4 DEF My
  <2>3. QED BY <2>1, <2>2
<1>14. ASSUME NEW r \in Round, NEW s \in Step, fired'[<<r, s>>] > 0, s > 1
       PROVE  fired'[<<r, s - 1>>] > 0
  <2>1. <<r, s>> \in Round \X Step OBVIOUS
  <2>2. fired[<<r, s - 1>>] > 0
    <3>1. CASE <<r, s>> = f BY <1>11, <1>14, <3>1
    <3>2. CASE <<r, s>> # f BY <1>4, <1>14, <2>1, <3>2 DEF OrderInv, Ordered
    <3>3. QED BY <3>1, <3>2
  <2>3. QED BY <1>6, <1>9, <1>14, <2>2
<1>15. QED BY <1>12, <1>13, <1>14 DEF Ordered


\* A tick is queued: the first of a round, or the one after a step that fired.
LEMMA OrderQueues ==
  ASSUME OrderInv, TicksStay, NEW t \in Tick, Fresh(t), NEW s \in Step, NEW r \in Round,
         tick' = [tick EXCEPT ![t] = [job |-> Added, step |-> s, round |-> r]],
         s > 1 => fired[<<r, s - 1>>] > 0,
         UNCHANGED fired,
         \A w \in Worker : worker'[w].stage = "next" => worker'[w] = worker[w]
  PROVE  Ordered'
<1>1. \A u \in Tick :
        tick'[u] = IF u = t THEN [job |-> Added, step |-> s, round |-> r] ELSE tick[u]
  BY DEF OrderInv, TypeInv, TypeOK
<1>2. ASSUME NEW u \in Tick, tick'[u].job.state # "absent", tick'[u].step > 1
      PROVE  fired'[<<tick'[u].round, tick'[u].step - 1>>] > 0
  <2>1. CASE u = t BY <1>1, <1>2, <2>1
  <2>2. CASE u # t BY <1>1, <1>2, <2>2 DEF OrderInv, Ordered
  <2>3. QED BY <2>1, <2>2
<1>3. ASSUME NEW w \in Worker, At(w, "next")', (My(w).step <= Len(worker[w].plan.steps))'
      PROVE  (fired[<<My(w).round, My(w).step>>] > 0)'
  <2>1. worker'[w] = worker[w] /\ At(w, "next") BY <1>3 DEF At
  <2>2. ~At(w, "idle") BY <2>1 DEF At
  <2>3. worker[w].on \in Tick BY <2>2, Running DEF OrderInv, TypeInv
  <2>4. tick[worker[w].on].job.state # "absent"
    BY <2>2 DEF OrderInv, TypeInv, RunsQueued, My
  <2>5. /\ (My(w).step)' = My(w).step
        /\ (My(w).round)' = My(w).round
    BY <2>1, <2>3, <2>4 DEF TicksStay, My
  <2>6. My(w).step <= Len(worker[w].plan.steps) BY <1>3, <2>1, <2>5
  <2>7. fired[<<My(w).round, My(w).step>>] > 0 BY <2>1, <2>6 DEF OrderInv, Ordered
  <2>8. QED BY <2>5, <2>7
<1>4. QED BY <1>2, <1>3 DEF OrderInv, Ordered

\* A run comes to its last await only by recording the step, or with no step to record.
LEMMA OrderInvNext == ASSUME OrderInv, Next PROVE OrderInv'
<1>t. TypeInv' /\ TicksStay BY TypeInvNext DEF OrderInv
<1>w. ASSUME NEW w \in Worker, NEW run, Become(w, run), run.stage # "next"
      PROVE  \A v \in Worker : worker'[v].stage = "next" => worker'[v] = worker[v]
  BY <1>w DEF Become, OrderInv, TypeInv, TypeOK
<1>r. ASSUME NEW w \in Worker, ~At(w, "idle")
      PROVE  worker[w] \in Run /\ worker[w].on \in Tick /\ My(w) \in TickState
  BY <1>r, Running DEF OrderInv, TypeInv
<1>i. Idle.stage # "next" BY DEF Idle
<1>g. ASSUME NEW w \in Worker, NEW stage \in {"policy", "event", "return"}, ~At(w, "idle"),
             Goto(w, stage)
      PROVE  \A v \in Worker : worker'[v].stage = "next" => worker'[v] = worker[v]
  <2>1. [worker[w] EXCEPT !.stage = stage].stage # "next" BY <1>r, <1>g DEF Run
  <2>2. QED BY <1>w, <1>g, <2>1 DEF Goto
<1>s. ASSUME UNCHANGED <<tick, fired>>,
             \A v \in Worker : worker'[v].stage = "next" => worker'[v] = worker[v]
      PROVE  OrderInv'
  BY <1>s, <1>t, OrderStays DEF OrderInv
<1>o. ASSUME UNCHANGED <<tick, worker, fired>> PROVE OrderInv' BY <1>o, <1>s
<1>j. ASSUME NEW t \in Tick, tick[t].job.state # "absent", UNCHANGED fired,
             \A u \in Tick : u # t => tick'[u] = tick[u],
             \A v \in Worker : worker'[v].stage = "next" => worker'[v] = worker[v]
      PROVE  OrderInv'
  BY <1>j, <1>t, OrderStays DEF OrderInv
<1>l. ASSUME NEW w \in Worker, NEW q, ~At(w, "idle"), Leave(w, q), UNCHANGED fired
      PROVE  OrderInv'
  <2>1. My(w).job.state # "absent" BY <1>l DEF OrderInv, TypeInv, RunsQueued
  <2>2. \A u \in Tick : u # worker[w].on => tick'[u] = tick[u]
    BY <1>l DEF Leave, OrderInv, TypeInv, TypeOK
  <2>3. QED BY <1>l, <1>r, <1>w, <1>i, <1>j, <2>1, <2>2 DEF Leave, My
<1>1. ASSUME NEW w \in Worker, NEW t \in Tick, Take(w, t) PROVE OrderInv'
  <2>1. \A u \in Tick : u # t => tick'[u] = tick[u]
    BY <1>1 DEF Take, OrderInv, TypeInv, TypeOK
  <2>2. QED BY <1>1, <1>w, <1>j, <2>1 DEF Take, records
<1>2. ASSUME NEW w \in Worker, ReadIncident(w) PROVE OrderInv'
  BY <1>2, <1>l, <1>g, <1>s DEF ReadIncident, At, records
<1>3. ASSUME NEW w \in Worker, ReadPolicy(w) PROVE OrderInv'
  <2>1. ~At(w, "idle") /\ UNCHANGED fired BY <1>3 DEF ReadPolicy, At, records
  <2>2. CASE policy.deleted \/ policy.saved.steps = <<>>
    BY <1>3, <1>l, <2>1, <2>2 DEF ReadPolicy
  <2>3. CASE ~(policy.deleted \/ policy.saved.steps = <<>>)
    <3> DEFINE stage == IF My(w).step <= Len(policy.saved.steps) THEN "resolve" ELSE "next"
               run   == [worker[w] EXCEPT !.stage = stage, !.plan = policy.saved]
    <3>1. Become(w, run) /\ UNCHANGED tick BY <1>3, <2>3 DEF ReadPolicy
    <3>2. worker[w] \in Run /\ worker[w].on \in Tick BY <1>r, <2>1
    <3>3. /\ run.stage = stage /\ run.plan = policy.saved /\ run.on = worker[w].on
      BY <3>2 DEF Run
    <3>4. \A v \in Worker : worker'[v] = IF v = w THEN run ELSE worker[v]
      BY <3>1 DEF Become, OrderInv, TypeInv, TypeOK
    <3>5. ASSUME NEW v \in Worker, At(v, "next")', (My(v).step <= Len(worker[v].plan.steps))'
          PROVE  (fired[<<My(v).round, My(v).step>>] > 0)'
      <4>1. v # w
        <5>1. SUFFICES ASSUME v = w PROVE FALSE OBVIOUS
        <5>2. worker'[w].stage = stage /\ worker'[w].plan = policy.saved
              /\ worker'[w].on = worker[w].on
          BY <3>3, <3>4
        <5>3. stage = "next" BY <3>5, <5>1, <5>2 DEF At
        <5>4. ~(My(w).step <= Len(policy.saved.steps)) BY <5>3
        <5>5. QED BY <3>1, <3>5, <5>1, <5>2, <5>4 DEF My
      <4>2. worker'[v] = worker[v] BY <3>4, <4>1
      <4>3. QED BY <2>1, <3>1, <3>5, <4>2 DEF OrderInv, Ordered, My, At
    <3>6. Ordered' BY <2>1, <3>1, <3>5 DEF OrderInv, Ordered
    <3>7. QED BY <1>t, <3>6 DEF OrderInv
  <2>4. QED BY <2>2, <2>3
<1>4. ASSUME NEW w \in Worker, ResolveTargets(w) PROVE OrderInv'
  <2>1. ~At(w, "idle") BY <1>4 DEF ResolveTargets, At
  <2>2. worker[w] \in Run BY <1>r, <2>1
  <2>3. \A who : [worker[w] EXCEPT !.stage = "page", !.who = who].stage # "next"
    BY <2>2 DEF Run
  <2>4. QED BY <1>4, <1>w, <1>s, <2>3 DEF ResolveTargets, records
<1>5. ASSUME NEW w \in Worker, PageResponders(w) PROVE OrderInv'
  <2>1. ~At(w, "idle") BY <1>5 DEF PageResponders, At
  <2>2. worker[w] \in Run BY <1>r, <2>1
  <2>3. \A who : [worker[w] EXCEPT !.stage = "channels", !.who = who].stage # "next"
    BY <2>2 DEF Run
  <2>4. QED BY <1>5, <1>w, <1>s, <2>3 DEF PageResponders, records
<1>6. ASSUME NEW w \in Worker, AlertChannels(w) PROVE OrderInv'
  BY <1>6, <1>g, <1>s DEF AlertChannels, At, records
<1>7. ASSUME NEW w \in Worker, RecordEvent(w) PROVE OrderInv'
  BY <1>7, <1>t, OrderFires DEF OrderInv
<1>8. ASSUME NEW w \in Worker, NEW t \in Tick, QueueNext(w, t) PROVE OrderInv'
  <2>1. ~At(w, "idle") /\ At(w, "next") /\ Fresh(t) BY <1>8 DEF QueueNext, At
  <2>2. /\ worker[w].plan \in Policies \cup {NoPlan}
        /\ My(w).step \in Step /\ My(w).round \in Round
    BY <1>r, <2>1 DEF Run, TickState
  <2>3. /\ worker[w].plan.repeatCount \in Round
        /\ Len(worker[w].plan.steps) \in Nat /\ Len(worker[w].plan.steps) <= MaxSteps
    BY <2>2, EscalationAssumption DEF NoPlan, Round
  <2>4. \A v \in Worker : worker'[v].stage = "next" => worker'[v] = worker[v]
    BY <1>8, <1>g, <2>1 DEF QueueNext
  <2>5. UNCHANGED fired BY <1>8 DEF QueueNext, records
  <2>6. CASE NextStepLeft(w) /\ QueueTick(t, My(w).step + 1, My(w).round)
    <3>1. My(w).step + 1 \in Step
      BY <2>2, <2>3, <2>6, EscalationAssumption DEF NextStepLeft, Step
    <3>2. fired[<<My(w).round, My(w).step>>] > 0
      BY <2>1, <2>2, <2>3, <2>6 DEF OrderInv, Ordered, NextStepLeft, Step
    <3>3. (My(w).step + 1) - 1 = My(w).step BY <2>2 DEF Step
    <3>4. QED
      BY <1>t, <2>1, <2>2, <2>4, <2>5, <2>6, <3>1, <3>2, <3>3, OrderQueues
      DEF QueueTick, OrderInv
  <2>7. CASE NextRoundLeft(w) /\ QueueTick(t, 1, My(w).round + 1)
    <3>1. 1 \in Step /\ My(w).round + 1 \in Round
      BY <2>2, <2>3, <2>7, EscalationAssumption DEF NextRoundLeft, Round, Step
    <3>2. 1 > 1 => fired[<<My(w).round + 1, 1 - 1>>] > 0 OBVIOUS
    <3>3. Ordered'
      BY <1>t, <2>1, <2>4, <2>5, <2>7, <3>1, <3>2, OrderQueues DEF QueueTick
    <3>4. QED BY <1>t, <3>3 DEF OrderInv
  <2>8. QED BY <1>8, <2>6, <2>7 DEF QueueNext
<1>9. ASSUME NEW w \in Worker, Return(w) PROVE OrderInv'
  BY <1>9, <1>l DEF Return, At, records
<1>10. ASSUME NEW w \in Worker, Throws(w) PROVE OrderInv'
  BY <1>10, <1>l DEF Throws, records
<1>11. ASSUME NEW w \in Worker, WorkerCrashes(w) \/ WorkerHangs(w) PROVE OrderInv'
  <2>1. ~At(w, "idle") /\ LoseLock(w) /\ UNCHANGED fired
    BY <1>11 DEF WorkerCrashes, WorkerHangs, records
  <2>2. My(w).job.state # "absent" BY <2>1 DEF OrderInv, TypeInv, RunsQueued
  <2>3. \A u \in Tick : u # worker[w].on => tick'[u] = tick[u]
    BY <2>1 DEF LoseLock, OrderInv, TypeInv, TypeOK
  <2>4. \A v \in Worker : worker'[v].stage = "next" => worker'[v] = worker[v]
    BY <1>11, <1>w, <1>i DEF WorkerCrashes, WorkerHangs
  <2>5. QED BY <1>r, <1>j, <2>1, <2>2, <2>3, <2>4 DEF My
<1>12. ASSUME NEW t \in Tick, Recover(t) PROVE OrderInv'
  <2>1. \A u \in Tick : u # t => tick'[u] = tick[u]
    BY <1>12 DEF Recover, OrderInv, TypeInv, TypeOK
  <2>2. QED BY <1>12, <1>j, <2>1 DEF Recover, records
<1>13. CASE Start
  <2>1. CASE StartReads BY <1>o, <2>1 DEF StartReads, records
  <2>2. ASSUME NEW t \in Tick, StartAdds(t) PROVE OrderInv'
    <3>1. 1 \in Step /\ 0 \in Round BY EscalationAssumption DEF Step, Round
    <3>2. 1 > 1 => fired[<<0, 1 - 1>>] > 0 OBVIOUS
    <3>3. UNCHANGED <<worker, fired>> BY <2>2 DEF StartAdds, records
    <3>4. Ordered' BY <1>t, <2>2, <3>1, <3>2, <3>3, OrderQueues DEF StartAdds
    <3>5. QED BY <1>t, <3>4 DEF OrderInv
  <2>3. QED BY <1>13, <2>1, <2>2 DEF Start
<1>14. CASE CloseIncident \/ RemovePolicy
  BY <1>o, <1>14 DEF CloseIncident, RemovePolicy, records
<1>15. ASSUME NEW g \in Page, PageExpires(g) PROVE OrderInv'
  BY <1>o, <1>15 DEF PageExpires, records
<1>16. ASSUME NEW p \in Policies, UpdatePolicy(p) PROVE OrderInv'
  BY <1>o, <1>16 DEF UpdatePolicy, records
<1>17. ASSUME NEW u \in User \cup {Nobody}, HandOver(u) PROVE OrderInv'
  BY <1>o, <1>17 DEF HandOver, records
<1>18. QED
  BY <1>1, <1>2, <1>3, <1>4, <1>5, <1>6, <1>7, <1>8, <1>9, <1>10, <1>11, <1>12, <1>13,
     <1>14, <1>15, <1>16, <1>17 DEF Next, Process


-----------------------------------------------------------------------------
(* One chain *)

Calm == mishaps["crash"] = 0 /\ mishaps["hang"] = 0

\* A tick that is due or runs, and whose successor is not queued yet.
Pending(t) == /\ tick[t].job.state \in {"waiting", "active"}
              /\ \A w \in Worker : ~(At(w, "return") /\ worker[w].on = t)

\* While no lock was lost, a run holds its tick, nothing was queued before the starter
\* was done, and at most one tick has still to queue its successor.
Held  == \A w \in Worker : ~At(w, "idle") =>
           My(w).job.state = "active" /\ My(w).job.holder = w
Chain == /\ starter # "over" => \A t \in Tick : tick[t].job.state = "absent"
         /\ Held
         /\ \A t, u \in Tick : Pending(t) /\ Pending(u) => t = u

ChainInv == TypeInv /\ (Calm => Chain)

\* A step after which nothing new is pending.
LEMMA ChainStays ==
  ASSUME Chain, Held', starter # "over" \/ starter' = "over",
         \A t \in Tick : tick[t].job.state = "absent" => tick'[t].job.state = "absent",
         \A t \in Tick : Pending(t)' => Pending(t)
  PROVE  Chain'
BY DEF Chain

\* A run makes an await other than the one that queues the successor.
LEMMA RunGoesOn ==
  ASSUME TypeInv, Chain, NEW w \in Worker, ~At(w, "idle"), ~At(w, "return"),
         NEW run, Become(w, run), run.on = worker[w].on, UNCHANGED <<tick, starter>>
  PROVE  run.stage # "return" => Chain'
<1> SUFFICES ASSUME run.stage # "return" PROVE Chain' OBVIOUS
<1>1. \A v \in Worker : worker'[v] = IF v = w THEN run ELSE worker[v]
  BY DEF Become, TypeInv, TypeOK
<1>2. Held' BY <1>1 DEF Chain, Held, At, My
<1>3. \A t \in Tick : Pending(t)' => Pending(t)
  BY <1>1 DEF Pending, At
<1>4. QED BY <1>2, <1>3, ChainStays

\* A run ends and is done with its tick, or the tick is due again.
LEMMA RunEnds ==
  ASSUME TypeInv, Chain, NEW w \in Worker, ~At(w, "idle"), NEW q, q.state # "absent",
         Leave(w, q), UNCHANGED starter, At(w, "return") => q.state = "over"
  PROVE  Chain'
<1> DEFINE x == worker[w].on
<1>1. \A v \in Worker : worker'[v] = IF v = w THEN Idle ELSE worker[v]
  BY DEF Leave, Become, TypeInv, TypeOK
<1>2. x \in Tick /\ My(w) \in TickState BY Running DEF TypeInv
<1>3. My(w).job.state = "active" /\ My(w).job.holder = w BY DEF Chain, Held
<1>4. \A u \in Tick : u # x => tick'[u] = tick[u] BY DEF Leave, TypeInv, TypeOK
<1>5. tick'[x].job = q
  BY <1>2, <1>3 DEF Leave, IfHeld, TypeInv, TypeOK, TickState, My
<1>6. \A v \in Worker : v # w /\ ~At(v, "idle") => worker[v].on \in Tick /\ worker[v].on # x
  BY <1>3, Running DEF Chain, Held, My, TypeInv
<1>7. Held' BY <1>1, <1>4, <1>6 DEF Chain, Held, At, My, Idle
<1>8. ASSUME NEW t \in Tick, Pending(t)' PROVE Pending(t)
  <2>1. CASE t = x
    <3>1. q.state # "over" /\ ~At(w, "return") BY <1>5, <1>8, <2>1 DEF Pending
    <3>2. \A v \in Worker : At(v, "return") => v # w /\ ~At(v, "idle") BY <3>1 DEF At
    <3>3. QED BY <1>3, <1>6, <2>1, <3>2 DEF Pending, My
  <2>2. CASE t # x
    <3>1. ASSUME NEW v \in Worker, At(v, "return"), worker[v].on = t PROVE FALSE
      <4>1. v # w /\ worker'[v] = worker[v] BY <1>1, <2>2, <3>1
      <4>2. QED BY <1>8, <3>1, <4>1 DEF Pending, At
    <3>2. QED BY <1>4, <1>8, <2>2, <3>1 DEF Pending
  <2>3. QED BY <2>1, <2>2
<1>9. \A t \in Tick : tick[t].job.state = "absent" => tick'[t].job.state = "absent"
  BY <1>2, <1>3, <1>4 DEF My
<1>10. QED BY <1>7, <1>8, <1>9, ChainStays

\* The run that holds the one pending tick hands over to its successor.
LEMMA ChainGrows ==
  ASSUME TypeInv, Chain, NEW w \in Worker, NEW t \in Tick, QueueNext(w, t)
  PROVE  Chain'
<1> DEFINE x == worker[w].on
<1>1. ~At(w, "idle") /\ At(w, "next") /\ Fresh(t) BY DEF QueueNext, At
<1>2. worker[w] \in Run /\ x \in Tick BY <1>1, Running DEF TypeInv
<1>3. My(w).job.state = "active" /\ My(w).job.holder = w BY <1>1 DEF Chain, Held
<1>4. x # t BY <1>1, <1>3 DEF Fresh, My
<1>5. \A u \in Tick : u # t => tick'[u] = tick[u]
  BY DEF QueueNext, QueueTick, TypeInv, TypeOK
<1>6. /\ worker'[w].on = x /\ worker'[w].stage = "return"
      /\ \A v \in Worker : v # w => worker'[v] = worker[v]
  BY <1>2 DEF QueueNext, Goto, Become, TypeInv, TypeOK, Run
<1>7. \A v \in Worker : ~At(v, "idle") =>
        My(v).job.state = "active" /\ My(v).job.holder = v /\ worker[v].on \in Tick
  BY Running DEF Chain, Held, TypeInv
<1>8. \A v \in Worker : ~At(v, "idle") => worker[v].on # t
  BY <1>1, <1>7 DEF Fresh, My
<1>9. Pending(x)
  <2>1. ASSUME NEW v \in Worker, At(v, "return"), worker[v].on = x PROVE FALSE
    <3>1. v # w /\ ~At(v, "idle") BY <1>1, <2>1 DEF At
    <3>2. QED BY <1>3, <1>7, <2>1, <3>1 DEF My
  <2>2. QED BY <1>3, <2>1 DEF Pending, My
<1>10. ASSUME NEW v \in Worker, ~At(v, "idle")'
       PROVE  (My(v).job.state = "active" /\ My(v).job.holder = v)'
  <2>1. ~At(v, "idle") /\ worker'[v].on = worker[v].on
    BY <1>1, <1>6, <1>10 DEF At
  <2>2. QED BY <1>5, <1>7, <1>8, <2>1 DEF My
<1>11. ASSUME NEW u \in Tick, Pending(u)' PROVE u = t
  <2>1. SUFFICES ASSUME u # t PROVE FALSE OBVIOUS
  <2>2. u # x BY <1>6, <1>11 DEF Pending, At
  <2>3. ~Pending(u) BY <1>2, <1>9, <2>2 DEF Chain
  <2>4. PICK v \in Worker : At(v, "return") /\ worker[v].on = u
    BY <1>5, <1>11, <2>1, <2>3 DEF Pending
  <2>5. v # w /\ worker'[v] = worker[v] BY <1>6, <2>2, <2>4
  <2>6. QED BY <1>11, <2>4, <2>5 DEF Pending, At
<1>12. starter' = "over"
  BY <1>2, <1>3 DEF QueueNext, Chain, My
<1>13. QED BY <1>10, <1>11, <1>12 DEF Chain, Held


\* A worker that is free takes a tick that is due.
LEMMA ChainTakes ==
  ASSUME TypeInv, Chain, NEW w \in Worker, NEW t \in Tick, Take(w, t)
  PROVE  Chain'
<1>1. \A u \in Tick : u # t => tick'[u] = tick[u] BY DEF Take, TypeInv, TypeOK
<1>2. tick[t] \in TickState BY DEF TypeInv, TypeOK
<1>3. tick'[t].job.state = "active" /\ tick'[t].job.holder = w
  BY <1>2 DEF Take, Taken, TypeInv, TypeOK, TickState, QueuedJob
<1>4. /\ worker'[w].on = t /\ worker'[w].stage = "incident"
      /\ \A v \in Worker : v # w => worker'[v] = worker[v]
  BY DEF Take, Become, TypeInv, TypeOK
<1>5. \A v \in Worker : ~At(v, "idle") => worker[v].on \in Tick /\ worker[v].on # t
  BY Running DEF Chain, Held, My, Take, TypeInv
<1>6. ASSUME NEW v \in Worker, ~At(v, "idle")'
      PROVE  (My(v).job.state = "active" /\ My(v).job.holder = v)'
  <2>1. CASE v = w BY <1>3, <1>4, <2>1 DEF My
  <2>2. CASE v # w
    <3>1. worker'[v] = worker[v] /\ ~At(v, "idle") BY <1>4, <1>6, <2>2 DEF At
    <3>2. QED BY <1>1, <1>5, <3>1 DEF My, Chain, Held
  <2>3. QED BY <2>1, <2>2
<1>7. ASSUME NEW u \in Tick, Pending(u)' PROVE Pending(u)
  <2>1. ASSUME NEW v \in Worker, At(v, "return"), worker[v].on = u PROVE FALSE
    <3>1. v # w BY <2>1 DEF Take, At
    <3>2. QED BY <1>4, <1>7, <2>1, <3>1 DEF Pending, At
  <2>2. tick[u].job.state \in {"waiting", "active"}
    BY <1>1, <1>7 DEF Pending, Take
  <2>3. QED BY <2>1, <2>2 DEF Pending
<1>8. \A u \in Tick : tick[u].job.state = "absent" => tick'[u].job.state = "absent"
  BY <1>1 DEF Take
<1>9. Held' BY <1>6 DEF Held
<1>10. QED BY <1>7, <1>8, <1>9, ChainStays DEF Take

\* The starter queues the first tick, and nobody runs one before.
LEMMA ChainStarts ==
  ASSUME TypeInv, Chain, NEW t \in Tick, StartAdds(t)
  PROVE  Chain'
<1>1. \A u \in Tick : u # t => tick'[u] = tick[u] BY DEF StartAdds, TypeInv, TypeOK
<1>2. \A u \in Tick : tick[u].job.state = "absent" BY DEF StartAdds, Chain
<1>3. \A v \in Worker : At(v, "idle") BY <1>2, Running DEF Chain, Held, My, TypeInv
<1>4. \A v \in Worker : At(v, "idle")' BY <1>3 DEF StartAdds, At
<1>5. \A u \in Tick : Pending(u)' => u = t BY <1>1, <1>2 DEF Pending
<1>6. QED BY <1>4, <1>5 DEF Chain, Held, StartAdds

\* A stalled tick is due again; nobody held it.
LEMMA ChainRecovers ==
  ASSUME TypeInv, Chain, NEW t \in Tick, Recover(t)
  PROVE  Chain'
<1>1. \A u \in Tick : u # t => tick'[u] = tick[u] BY DEF Recover, TypeInv, TypeOK
<1>2. \A v \in Worker : ~At(v, "idle") => worker[v].on \in Tick /\ worker[v].on # t
  BY Running, JobQueueAssumption DEF Chain, Held, My, Recover, TypeInv
<1>3. \A v \in Worker : ~At(v, "return") \/ worker[v].on # t BY <1>2 DEF At
<1>4. Held' BY <1>1, <1>2 DEF Chain, Held, Recover, At, My
<1>5. ASSUME NEW u \in Tick, Pending(u)' PROVE Pending(u)
  BY <1>1, <1>3, <1>5 DEF Pending, Recover, At
<1>6. \A u \in Tick : tick[u].job.state = "absent" => tick'[u].job.state = "absent"
  BY <1>1 DEF Recover
<1>7. QED BY <1>4, <1>5, <1>6, ChainStays DEF Recover

\* What goes wrong is not forgotten.
LEMMA CalmBefore ==
  ASSUME TypeInv, Next, Calm'
  PROVE  Calm /\ \A w \in Worker : ~WorkerCrashes(w) /\ ~WorkerHangs(w)
<1>1. mishaps["crash"] \in Nat /\ mishaps["hang"] \in Nat BY DEF TypeInv, TypeOK, Mishap
<1>2. \A m \in Mishap : GoesWrong(m) =>
        \A n \in Mishap : mishaps'[n] = IF n = m THEN mishaps[n] + 1 ELSE mishaps[n]
  BY DEF GoesWrong, TypeInv, TypeOK
<1>3. "crash" \in Mishap /\ "hang" \in Mishap BY DEF Mishap
<1>4. ~GoesWrong("crash") /\ ~GoesWrong("hang") BY <1>1, <1>2, <1>3 DEF Calm
<1>5. \A w \in Worker : ~WorkerCrashes(w) /\ ~WorkerHangs(w)
  BY <1>4 DEF WorkerCrashes, WorkerHangs
<1>6. UNCHANGED mishaps \/ GoesWrong("throw") \/ GoesWrong("page") \/ GoesWrong("expire")
  <2>1. \A w \in Worker : Process(w) => UNCHANGED mishaps \/ GoesWrong("page")
    BY DEF Process, Take, ReadIncident, ReadPolicy, ResolveTargets, PageResponders,
           AlertChannels, RecordEvent, QueueNext, Return
  <2>2. \A w \in Worker : Throws(w) => GoesWrong("throw") BY DEF Throws
  <2>3. \A g \in Page : PageExpires(g) => GoesWrong("expire") BY DEF PageExpires
  <2>4. Start \/ CloseIncident \/ RemovePolicy => UNCHANGED mishaps
    BY DEF Start, StartReads, StartAdds, CloseIncident, RemovePolicy
  <2>5. \A t \in Tick : Recover(t) => UNCHANGED mishaps BY DEF Recover
  <2>6. \A p \in Policies : UpdatePolicy(p) => UNCHANGED mishaps BY DEF UpdatePolicy
  <2>7. \A u \in User \cup {Nobody} : HandOver(u) => UNCHANGED mishaps BY DEF HandOver
  <2>8. QED BY <1>5, <2>1, <2>2, <2>3, <2>4, <2>5, <2>6, <2>7 DEF Next
<1>7. QED BY <1>2, <1>5, <1>6 DEF Calm, Mishap

LEMMA ChainInvNext == ASSUME ChainInv, Next PROVE ChainInv'
<1>t. TypeInv' BY TypeInvNext DEF ChainInv
<1>c. SUFFICES ASSUME Calm' PROVE Chain' BY <1>t DEF ChainInv
<1>h. TypeInv /\ Chain /\ \A w \in Worker : ~WorkerCrashes(w) /\ ~WorkerHangs(w)
  BY <1>c, CalmBefore DEF ChainInv
<1>r. ASSUME NEW w \in Worker, ~At(w, "idle") PROVE worker[w] \in Run
  BY <1>h, <1>r, Running DEF TypeInv
<1>o. ASSUME UNCHANGED <<tick, worker, starter>> PROVE Chain'
  BY <1>h, <1>o DEF Chain, Held, Pending, At, My
<1>g. ASSUME NEW w \in Worker, NEW stage \in {"policy", "event", "next"}, ~At(w, "idle"),
             ~At(w, "return"), Goto(w, stage), UNCHANGED <<tick, starter>>
      PROVE  Chain'
  <2> DEFINE run == [worker[w] EXCEPT !.stage = stage]
  <2>1. run.stage # "return" /\ run.on = worker[w].on BY <1>r, <1>g DEF Run
  <2>2. Become(w, run) BY <1>g DEF Goto
  <2> HIDE DEF run
  <2>3. QED BY <1>h, <1>g, <2>1, <2>2, RunGoesOn
<1>q. ASSUME NEW w \in Worker, ~At(w, "idle")
      PROVE  /\ Completed(My(w).job).state = "over"
             /\ Thrown(My(w).job).state # "absent"
  <2>1. My(w).job \in QueuedJob BY <1>h, <1>q, Running DEF TypeInv, TickState
  <2>2. QED BY <2>1 DEF Completed, Thrown, QueuedJob
<1>1. ASSUME NEW w \in Worker, NEW t \in Tick, Take(w, t) PROVE Chain'
  BY <1>h, <1>1, ChainTakes
<1>2. ASSUME NEW w \in Worker, ReadIncident(w) PROVE Chain'
  <2>1. ~At(w, "idle") /\ ~At(w, "return") /\ UNCHANGED starter
    BY <1>2 DEF ReadIncident, At
  <2>2. CASE Leave(w, Completed(My(w).job)) BY <1>h, <1>q, <2>1, <2>2, RunEnds
  <2>3. CASE Goto(w, "policy") /\ UNCHANGED tick BY <1>g, <2>1, <2>3
  <2>4. QED BY <1>2, <2>2, <2>3 DEF ReadIncident
<1>3. ASSUME NEW w \in Worker, ReadPolicy(w) PROVE Chain'
  <2>1. ~At(w, "idle") /\ ~At(w, "return") /\ UNCHANGED starter
    BY <1>3 DEF ReadPolicy, At
  <2>2. CASE policy.deleted \/ policy.saved.steps = <<>>
    BY <1>h, <1>q, <1>3, <2>1, <2>2, RunEnds DEF ReadPolicy
  <2>3. CASE ~(policy.deleted \/ policy.saved.steps = <<>>)
    <3> DEFINE stage == IF My(w).step <= Len(policy.saved.steps) THEN "resolve" ELSE "next"
               run   == [worker[w] EXCEPT !.stage = stage, !.plan = policy.saved]
    <3>1. Become(w, run) /\ UNCHANGED tick BY <1>3, <2>3 DEF ReadPolicy
    <3>2. run.stage # "return" /\ run.on = worker[w].on BY <1>r, <2>1 DEF Run
    <3> HIDE DEF run
    <3>3. QED BY <1>h, <2>1, <3>1, <3>2, RunGoesOn
  <2>4. QED BY <2>2, <2>3
<1>4. ASSUME NEW w \in Worker, ResolveTargets(w) PROVE Chain'
  <2>1. ~At(w, "idle") /\ ~At(w, "return") /\ UNCHANGED <<tick, starter>>
    BY <1>4 DEF ResolveTargets, At
  <2>2. PICK who : Become(w, [worker[w] EXCEPT !.stage = "page", !.who = who])
    BY <1>4 DEF ResolveTargets
  <2> DEFINE run == [worker[w] EXCEPT !.stage = "page", !.who = who]
  <2>3. run.stage # "return" /\ run.on = worker[w].on BY <1>r, <2>1 DEF Run
  <2>4. Become(w, run) BY <2>2
  <2> HIDE DEF run
  <2>5. QED BY <1>h, <2>1, <2>3, <2>4, RunGoesOn
<1>5. ASSUME NEW w \in Worker, PageResponders(w) PROVE Chain'
  <2>1. ~At(w, "idle") /\ ~At(w, "return") /\ UNCHANGED <<tick, starter>>
    BY <1>5 DEF PageResponders, At
  <2>2. PICK who : Become(w, [worker[w] EXCEPT !.stage = "channels", !.who = who])
    BY <1>5 DEF PageResponders
  <2> DEFINE run == [worker[w] EXCEPT !.stage = "channels", !.who = who]
  <2>3. run.stage # "return" /\ run.on = worker[w].on BY <1>r, <2>1 DEF Run
  <2>4. Become(w, run) BY <2>2
  <2> HIDE DEF run
  <2>5. QED BY <1>h, <2>1, <2>3, <2>4, RunGoesOn
<1>6. ASSUME NEW w \in Worker, AlertChannels(w) \/ RecordEvent(w) PROVE Chain'
  BY <1>g, <1>6 DEF AlertChannels, RecordEvent, At
<1>7. ASSUME NEW w \in Worker, NEW t \in Tick, QueueNext(w, t) PROVE Chain'
  BY <1>h, <1>7, ChainGrows
<1>8. ASSUME NEW w \in Worker, Return(w) PROVE Chain'
  <2>1. ~At(w, "idle") /\ UNCHANGED starter /\ Leave(w, Completed(My(w).job))
    BY <1>8 DEF Return, At
  <2>2. QED BY <1>h, <1>q, <2>1, RunEnds
<1>9. ASSUME NEW w \in Worker, Throws(w) PROVE Chain'
  <2>1. /\ ~At(w, "idle") /\ ~At(w, "return") /\ UNCHANGED starter
        /\ Leave(w, Thrown(My(w).job))
    BY <1>9 DEF Throws
  <2>2. QED BY <1>h, <1>q, <2>1, RunEnds
<1>10. ASSUME NEW t \in Tick, Recover(t) PROVE Chain'
  BY <1>h, <1>10, ChainRecovers
<1>11. CASE Start
  <2>1. ASSUME StartReads PROVE Chain'
    BY <1>h, <2>1 DEF StartReads, Chain, Held, Pending, At, My
  <2>2. QED BY <1>h, <1>11, <2>1, ChainStarts DEF Start
<1>12. CASE CloseIncident \/ RemovePolicy
  BY <1>o, <1>12 DEF CloseIncident, RemovePolicy
<1>13. ASSUME NEW g \in Page, PageExpires(g) PROVE Chain'
  BY <1>o, <1>13 DEF PageExpires
<1>14. ASSUME NEW p \in Policies, UpdatePolicy(p) PROVE Chain'
  BY <1>o, <1>14 DEF UpdatePolicy
<1>15. ASSUME NEW u \in User \cup {Nobody}, HandOver(u) PROVE Chain'
  BY <1>o, <1>15 DEF HandOver
<1>16. QED
  BY <1>h, <1>1, <1>2, <1>3, <1>4, <1>5, <1>6, <1>7, <1>8, <1>9, <1>10, <1>11, <1>12,
     <1>13, <1>14, <1>15 DEF Next, Process

\* Unless a worker dies or loses its lock there is one chain of ticks for an incident,
\* and a step fires only after the step before it, whatever is edited, thrown or retried
\* (createEscalationProcessor, executeStep).
THEOREM ChainOrdered == Spec => []ChainIsInOrder
<1>1. Init => OrderInv /\ ChainInv
  <2>1. SUFFICES ASSUME Init PROVE OrderInv /\ ChainInv OBVIOUS
  <2>2. TypeInv BY <2>1, TypeInvInit
  <2>3. /\ \A t \in Tick : tick[t].job.state = "absent"
        /\ \A w \in Worker : worker[w].stage = "idle"
        /\ \A r \in Round, s \in Step : fired[<<r, s>>] = 0
    BY <2>1 DEF Init, NoTick, AbsentJob, Idle
  <2>4. Ordered BY <2>3 DEF Ordered, At
  <2>5. Chain BY <2>3 DEF Chain, Held, Pending, At
  <2>6. QED BY <2>2, <2>4, <2>5 DEF OrderInv, ChainInv
<1>2. ASSUME OrderInv, ChainInv, UNCHANGED vars PROVE OrderInv' /\ ChainInv'
  <2>1. TypeInv' BY <1>2, TypeInvStutter DEF OrderInv
  <2>2. Ordered' BY <1>2 DEF vars, OrderInv, Ordered, At, My
  <2>3. (Calm => Chain)' BY <1>2 DEF vars, ChainInv, Calm, Chain, Held, Pending, At, My
  <2>4. QED BY <2>1, <2>2, <2>3 DEF OrderInv, ChainInv
<1>3. OrderInv /\ ChainInv /\ [Next]_vars => OrderInv' /\ ChainInv'
  BY <1>2, OrderInvNext, ChainInvNext
<1>4. OrderInv /\ ChainInv => ChainIsInOrder
  <2>1. ChainInv => OneChain
    BY DEF ChainInv, Calm, Chain, Pending, OneChain
  <2>2. QED BY <2>1 DEF OrderInv, Ordered, ChainIsInOrder
<1>5. QED BY <1>1, <1>3, <1>4, PTL DEF Spec

=============================================================================
