------------------------- MODULE CheckPipelineProofs -------------------------
(***************************************************************************)
(* Theorems about CheckPipeline, for every set of jobs, pings, requests    *)
(* and windows, every threshold and every bound.                           *)
(***************************************************************************)
EXTENDS CheckPipelineProperties, FiniteSetTheorems, TLAPS

\* The counters stay counters: Count, transition()'s increment or reset, never
\* leaves 0 .. CounterCap.
LEMMA CountType ==
  ASSUME NEW n \in Counter, NEW again \in BOOLEAN
  PROVE  Count(n, again) \in Counter
BY CounterCapAssumption DEF Count, Counter

\* What is left in the model of a counter the code lets grow for ever.
Capped(n) == IF n < CounterCap THEN n ELSE CounterCap

\* Count, on capped counters, follows the unbounded ones of transition(), and no
\* comparison with a threshold can tell the two apart.
THEOREM CountingIsExact ==
  ASSUME NEW n \in Nat, NEW again \in BOOLEAN
  PROVE  /\ Count(Capped(n), again) = Capped(IF again THEN n + 1 ELSE 0)
         /\ \A t \in Threshold : Capped(n) >= t <=> n >= t
BY CounterCapAssumption DEF Count, Capped, Threshold

\* transition() of state-machine.ts is closed: it returns a canonical health,
\* counters in range, and one of the four answers.
LEMMA TransitionType ==
  ASSUME NEW s \in MonitorRow, NEW success \in BOOLEAN, NEW inMaintenance \in BOOLEAN
  PROVE  LET d == Transition(s, success, inMaintenance)
         IN  /\ d.health \in MonitorHealth
             /\ d.fails \in Counter
             /\ d.oks \in Counter
             /\ d.incident \in Actions
<1> DEFINE prev  == Normalize(s.health)
           fails == Count(s.fails, ~success)
           oks   == Count(s.oks, success)
           next  == NextHealth(prev, success, fails >= s.failThr, oks >= s.okThr,
                               inMaintenance)
<1>1. fails \in Counter /\ oks \in Counter
  BY CountType DEF MonitorRow
<1>2. next \in CanonicalHealth
  <2>1. prev \in CanonicalHealth
    BY DEF Normalize, CanonicalHealth
  <2> HIDE DEF prev, fails, oks
  <2>2. QED
    BY <2>1 DEF NextHealth, CanonicalHealth, Failing
<1>3. IncidentAction(prev, next) \in Actions
  BY DEF IncidentAction, Actions
<1>4. QED
  BY <1>1, <1>2, <1>3 DEF Transition, MonitorHealth

-----------------------------------------------------------------------------
(* Type correctness *)

\* The null job and the row kept after the decision are jobs and rows.
LEMMA IdleJobType ==
  /\ IdleJob \in Job
  /\ \A row \in MonitorRow : Forget(row) \in MonitorRow
<1>1. \A ft, ot \in Threshold, p \in BOOLEAN : NewRow(ft, ot, p) \in MonitorRow
  BY CounterCapAssumption
  DEF NewRow, MonitorRow, MonitorHealth, CanonicalHealth, Counter
<1>2. 1 \in Threshold
  BY CounterCapAssumption DEF Threshold
<1>3. QED
  BY <1>1, <1>2 DEF IdleJob, Forget, Job, Stage, NoIncident, MonitorRow

LEMMA TypeInit == Init => TypeOK
<1> SUFFICES ASSUME Init PROVE TypeOK
  OBVIOUS
<1>1. mon \in MonitorRow
  BY CounterCapAssumption, PipelineAssumption
  DEF Init, NewRow, MonitorRow, MonitorHealth, CanonicalHealth, Counter
<1>2. badRun \in 0 .. Lookback
  BY PipelineAssumption DEF Init
<1>3. job \in [Proc -> Job]
  BY IdleJobType DEF Init
<1>4. /\ status \in [Incident -> IncidentStatus]
      /\ timeline \in [Incident -> SUBSET EventKind]
      /\ notices \in [Incident -> [Notice -> Nat]]
  BY DEF Init, IncidentStatus
<1>5. /\ windows \in [Window -> WindowRow]
      /\ request \in [Request -> RequestState]
  BY DEF Init, WindowRow, RequestState, IdleRequest
<1>6. QED
  BY <1>1, <1>2, <1>3, <1>4, <1>5, PipelineAssumption DEF Init, TypeOK

\* The updates a step makes to a job keep it a job.
LEMMA JobUpdates ==
  ASSUME NEW r \in Job, NEW stage \in Stage
  PROVE  /\ [r EXCEPT !.stage = stage] \in Job
         /\ \A i \in Incident : [r EXCEPT !.stage = stage, !.held = i] \in Job
         /\ \A b \in BOOLEAN : /\ [r EXCEPT !.stage = stage, !.success = b] \in Job
                              /\ [r EXCEPT !.stage = stage, !.maint = b] \in Job
                              /\ [r EXCEPT !.stage = stage, !.flapping = b] \in Job
         /\ \A row \in MonitorRow : [r EXCEPT !.stage = stage, !.row = row] \in Job
         /\ \A row \in MonitorRow, b \in BOOLEAN :
              [r EXCEPT !.stage = stage, !.row = row, !.success = b] \in Job
BY DEF Job

LEMMA BecomeType ==
  ASSUME job \in [Proc -> Job], NEW j \in Proc, NEW new \in Job, Become(j, new)
  PROVE  job' \in [Proc -> Job]
BY DEF Become

\* Send and Log write a counter and an event, whatever incident they are given.
LEMMA SendType ==
  ASSUME notices \in [Incident -> [Notice -> Nat]], NEW i, NEW n \in Notice, Send(i, n)
  PROVE  notices' \in [Incident -> [Notice -> Nat]]
<1>1. CASE i \in Incident
  <2>1. [notices[i] EXCEPT ![n] = @ + 1] \in [Notice -> Nat]
    BY <1>1
  <2>2. QED
    BY <1>1, <2>1 DEF Send
<1>2. CASE i \notin Incident
  BY <1>2 DEF Send
<1>3. QED
  BY <1>1, <1>2

LEMMA LogType ==
  ASSUME timeline \in [Incident -> SUBSET EventKind], NEW i, NEW e \in EventKind,
         Log(i, e)
  PROVE  timeline' \in [Incident -> SUBSET EventKind]
BY DEF Log

\* The steps of a check job or ping up to the decision of the state machine.
LEMMA DecideType ==
  ASSUME TypeOK, NEW j \in Proc,
         Load(j) \/ Probe(j) \/ Ping(j) \/ Evaluate(j) \/ Record(j) \/ Save(j)
  PROVE  TypeOK'
<1> /\ job \in [Proc -> Job]
    /\ job[j] \in Job
    /\ IdleJob \in Job
  BY IdleJobType DEF TypeOK
<1>1. CASE Load(j)
  <2>1. job' \in [Proc -> Job]
    BY <1>1, JobUpdates, BecomeType DEF Load, Stage, TypeOK
  <2>2. QED
    BY <1>1, <2>1 DEF Load, TypeOK, rowVars, incidentVars
<1>2. CASE Probe(j)
  <2>1. ((Heartbeat => job[j].success) /\ site = "up") \in BOOLEAN
    OBVIOUS
  <2>2. job' \in [Proc -> Job]
    BY <1>2, <2>1, JobUpdates, BecomeType DEF Probe, Stage
  <2>3. QED
    BY <1>2, <2>2 DEF Probe, TypeOK, rowVars, incidentVars
<1>3. CASE Ping(j)
  <2>1. job' \in [Proc -> Job]
    BY <1>3, JobUpdates, BecomeType DEF Ping, Stage, TypeOK
  <2>2. QED
    BY <1>3, <2>1 DEF Ping, TypeOK, rowVars, incidentVars
<1>4. CASE Evaluate(j)
  <2>1. InMaintenance \in BOOLEAN
    BY DEF InMaintenance
  <2>2. job' \in [Proc -> Job]
    BY <1>4, <2>1, JobUpdates, BecomeType DEF Evaluate, Stage
  <2>3. QED
    BY <1>4, <2>2 DEF Evaluate, TypeOK, rowVars, incidentVars
<1>5. CASE Save(j)
  <2> DEFINE d == Transition(job[j].row, job[j].success, job[j].maint)
  <2>1. /\ d.health \in MonitorHealth /\ d.fails \in Counter /\ d.oks \in Counter
        /\ d.incident \in Actions
    BY TransitionType DEF Job
  <2>2. Save(j) => /\ mon' = [mon EXCEPT !.health = d.health, !.fails = d.fails,
                                        !.oks = d.oks]
                   /\ \/ Finish(j)
                      \/ /\ d.incident # "none"
                         /\ Become(j, [IdleJob EXCEPT !.stage = d.incident,
                                                     !.row = Forget(job[j].row)])
    BY DEF Save
  <2> HIDE DEF d
  <2>3. mon' \in MonitorRow
    BY <1>5, <2>1, <2>2 DEF TypeOK, MonitorRow
  <2>4. /\ Forget(job[j].row) \in MonitorRow
        /\ d.incident # "none" => d.incident \in Stage
    BY <2>1, IdleJobType DEF Job, Stage, Actions
  <2>5. job' \in [Proc -> Job]
    BY <1>5, <2>2, <2>4, JobUpdates, BecomeType DEF Finish
  <2>6. QED
    BY <1>5, <2>3, <2>5 DEF Save, TypeOK, incidentVars
<1>6. CASE Record(j)
  <2>1. badRun' \in 0 .. Lookback
    BY <1>6, PipelineAssumption DEF Record, TypeOK
  <2>2. job' \in [Proc -> Job]
    BY <1>6, JobUpdates, BecomeType DEF Record, Goto, Stage
  <2>3. QED
    BY <1>6, <2>1, <2>2 DEF Record, TypeOK, incidentVars
<1>7. QED
  BY <1>1, <1>2, <1>3, <1>4, <1>5, <1>6

\* The steps of a job that act on its decision.
LEMMA ActType ==
  ASSUME TypeOK, NEW j \in Proc, Process(j), ~Evaluate(j), ~Record(j), ~Save(j)
  PROVE  TypeOK'
<1> /\ job \in [Proc -> Job]
    /\ job[j] \in Job
    /\ IdleJob \in Job
    /\ notices \in [Incident -> [Notice -> Nat]]
    /\ timeline \in [Incident -> SUBSET EventKind]
  BY IdleJobType DEF TypeOK
<1>1. CASE DetectFlapping(j)
  <2>1. Flapping \in BOOLEAN
    <3> DEFINE recent == {i \in Incident : status[i] # "NONE" /\ i \notin aged}
    <3>1. IsFiniteSet(recent)
      BY FS_Interval, FS_Subset, PipelineAssumption DEF Incident
    <3>2. QED
      BY <3>1, FS_CardinalityType, PipelineAssumption DEF Flapping
  <2>2. job' \in [Proc -> Job]
    BY <1>1, <2>1, JobUpdates, BecomeType DEF DetectFlapping, Stage, Goto, Finish
  <2>3. QED
    BY <1>1, <2>2 DEF DetectFlapping, TypeOK, rowVars, incidentVars
<1>2. CASE OpenRefused(j)
  <2>1. job' \in [Proc -> Job]
    BY <1>2, JobUpdates, BecomeType DEF OpenRefused, Stage, Goto, Finish
  <2>2. QED
    BY <1>2, <2>1 DEF OpenRefused, TypeOK, rowVars, incidentVars
<1>3. ASSUME NEW i \in Incident, OpenIncident(j, i) PROVE TypeOK'
  <2>1. job' \in [Proc -> Job]
    BY <1>3, JobUpdates, BecomeType DEF OpenIncident, Stage, Goto, Finish
  <2>2. timeline' \in [Incident -> SUBSET EventKind]
    BY <1>3, LogType DEF OpenIncident, EventKind
  <2>3. QED
    BY <1>3, <2>1, <2>2 DEF OpenIncident, TypeOK, rowVars, IncidentStatus
<1>4. CASE SuppressAlert(j)
  <2>1. job' \in [Proc -> Job]
    BY <1>4, JobUpdates, BecomeType DEF SuppressAlert, Stage, Goto, Finish
  <2>2. timeline' \in [Incident -> SUBSET EventKind]
    BY <1>4, LogType DEF SuppressAlert, EventKind
  <2>3. QED
    BY <1>4, <2>1, <2>2 DEF SuppressAlert, TypeOK, rowVars
<1>5. CASE TellOpened(j)
  <2>1. job' \in [Proc -> Job]
    BY <1>5, JobUpdates, BecomeType DEF TellOpened, Stage, Goto, Finish
  <2>2. notices' \in [Incident -> [Notice -> Nat]]
    BY <1>5, SendType DEF TellOpened, Notice
  <2>3. QED
    BY <1>5, <2>1, <2>2 DEF TellOpened, TypeOK, rowVars
<1>6. CASE StartEscalation(j)
  <2>1. job' \in [Proc -> Job]
    BY <1>6, JobUpdates, BecomeType DEF StartEscalation, Stage, Goto, Finish
  <2>2. notices' \in [Incident -> [Notice -> Nat]]
    BY <1>6, SendType DEF StartEscalation, Notice
  <2>3. QED
    BY <1>6, <2>1, <2>2 DEF StartEscalation, TypeOK, rowVars
<1>7. CASE IntegrateOpened(j)
  <2>1. job' \in [Proc -> Job]
    BY <1>7, JobUpdates, BecomeType DEF IntegrateOpened, Stage, Goto, Finish
  <2>2. notices' \in [Incident -> [Notice -> Nat]]
    BY <1>7, SendType DEF IntegrateOpened, Notice
  <2>3. QED
    BY <1>7, <2>1, <2>2 DEF IntegrateOpened, TypeOK, rowVars
<1>8. CASE FindActive(j)
  <2>1. job' \in [Proc -> Job]
    BY <1>8, JobUpdates, BecomeType DEF FindActive, Stage, Goto, Finish
  <2>2. QED
    BY <1>8, <2>1 DEF FindActive, TypeOK, rowVars, incidentVars
<1>9. CASE ResolveIncident(j)
  <2>1. job' \in [Proc -> Job]
    BY <1>9, JobUpdates, BecomeType DEF ResolveIncident, Stage, Goto, Finish
  <2>2. timeline' \in [Incident -> SUBSET EventKind]
    BY <1>9, LogType DEF ResolveIncident, EventKind
  <2>3. QED
    BY <1>9, <2>1, <2>2 DEF ResolveIncident, TypeOK, rowVars, IncidentStatus
<1>10. CASE AnnounceResolved(j)
  <2>1. job' \in [Proc -> Job]
    BY <1>10, JobUpdates, BecomeType DEF AnnounceResolved, Stage, Goto, Finish
  <2>2. notices' \in [Incident -> [Notice -> Nat]]
    BY <1>10, SendType DEF AnnounceResolved, Notice
  <2>3. QED
    BY <1>10, <2>1, <2>2 DEF AnnounceResolved, TypeOK, rowVars
<1>11. CASE IntegrateResolved(j)
  <2>1. job' \in [Proc -> Job]
    BY <1>11, JobUpdates, BecomeType DEF IntegrateResolved, Stage, Goto, Finish
  <2>2. notices' \in [Incident -> [Notice -> Nat]]
    BY <1>11, SendType DEF IntegrateResolved, Notice
  <2>3. QED
    BY <1>11, <2>1, <2>2 DEF IntegrateResolved, TypeOK, rowVars
<1>12. CASE FindRelapsed(j)
  <2>1. job' \in [Proc -> Job]
    BY <1>12, JobUpdates, BecomeType DEF FindRelapsed, Stage, Goto, Finish
  <2>2. QED
    BY <1>12, <2>1 DEF FindRelapsed, TypeOK, rowVars, incidentVars
<1>13. CASE NoteRelapse(j)
  <2>1. job' \in [Proc -> Job]
    BY <1>13, JobUpdates, BecomeType DEF NoteRelapse, Stage, Goto, Finish
  <2>2. timeline' \in [Incident -> SUBSET EventKind]
    BY <1>13, LogType DEF NoteRelapse, EventKind
  <2>3. QED
    BY <1>13, <2>1, <2>2 DEF NoteRelapse, TypeOK, rowVars
<1>14. QED
  BY <1>1, <1>2, <1>3, <1>4, <1>5, <1>6, <1>7, <1>8, <1>9, <1>10, <1>11, <1>12,
     <1>13 DEF Process

\* The API's requests, and what happens by itself.
LEMMA RequestType ==
  ASSUME TypeOK, NEW r \in Request, Api(r)
  PROVE  TypeOK'
<1> /\ request \in [Request -> RequestState]
    /\ timeline \in [Incident -> SUBSET EventKind]
    /\ faults \in Nat
  BY PipelineAssumption DEF TypeOK
<1>a. IdleRequest \in RequestState
  BY DEF IdleRequest, RequestState
<1>b. \A op \in AllApiOps, i \in Incident \cup {NoIncident} :
        Ask(r, op, i) => request' \in [Request -> RequestState]
  BY DEF Ask, RequestState
<1>c. Answered(r) => request' \in [Request -> RequestState]
  BY <1>a DEF Answered
<1>1. ASSUME NEW i \in Incident,
             ReadIncident(r, "acknowledge", i) \/ ReadIncident(r, "resolve", i)
      PROVE  TypeOK'
  BY <1>1, <1>b DEF ReadIncident, AllApiOps, TypeOK, rowVars, incidentVars
<1>2. ASSUME NEW op \in {"pause", "resume", "update"}, ReadMonitor(r, op)
      PROVE  TypeOK'
  BY <1>2, <1>b DEF ReadMonitor, AllApiOps, TypeOK, rowVars, incidentVars
<1>3. CASE Acknowledge(r)
  <2>1. timeline' \in [Incident -> SUBSET EventKind]
    BY <1>3, LogType DEF Acknowledge, EventKind
  <2>2. QED
    BY <1>3, <1>c, <2>1 DEF Acknowledge, TypeOK, rowVars, IncidentStatus
<1>4. CASE ResolveByHand(r)
  <2>1. timeline' \in [Incident -> SUBSET EventKind]
    BY <1>4, LogType DEF ResolveByHand, EventKind
  <2>2. QED
    BY <1>4, <1>c, <2>1 DEF ResolveByHand, TypeOK, rowVars, IncidentStatus
<1>5. CASE Pause(r)
  <2>1. mon' \in MonitorRow
    BY <1>5 DEF Pause, TypeOK, MonitorRow, MonitorHealth
  <2>2. QED
    BY <1>5, <1>c, <2>1 DEF Pause, TypeOK, incidentVars
<1>6. CASE Resume(r)
  <2>1. mon' \in MonitorRow
    <3>1. 0 \in Counter /\ "PENDING" \in MonitorHealth
      BY CounterCapAssumption DEF Counter, MonitorHealth, CanonicalHealth
    <3>2. QED
      BY <1>6, <3>1 DEF Resume, TypeOK, MonitorRow
  <2>2. QED
    BY <1>6, <1>c, <2>1 DEF Resume, TypeOK, incidentVars
<1>7. ASSUME NEW ft \in Thresholds, NEW ot \in Thresholds, NEW p \in Policies,
             UpdateMonitor(r, ft, ot, p)
      PROVE  TypeOK'
  <2>1. mon' \in MonitorRow
    BY <1>7, PipelineAssumption DEF UpdateMonitor, TypeOK, MonitorRow
  <2>2. QED
    BY <1>7, <1>c, <2>1 DEF UpdateMonitor, TypeOK, incidentVars
<1>8. QED
  BY <1>1, <1>2, <1>3, <1>4, <1>5, <1>6, <1>7 DEF Api

LEMMA WorldType ==
  ASSUME TypeOK,
         \/ RemoveMonitor
         \/ \E w \in Window : CreateWindow(w) \/ DeleteWindow(w)
         \/ Elapse
  PROVE  TypeOK'
<1>1. CASE RemoveMonitor
  <2>1. mon' \in MonitorRow
    BY <1>1 DEF RemoveMonitor, TypeOK, MonitorRow
  <2>2. QED
    BY <1>1, <2>1 DEF RemoveMonitor, TypeOK, incidentVars
<1>2. ASSUME NEW w \in Window, CreateWindow(w) \/ DeleteWindow(w) \/ WindowTurns(w)
      PROVE  TypeOK'
  <2>1. windows' \in [Window -> WindowRow]
    <3>1. windows \in [Window -> WindowRow] /\ windows[w] \in WindowRow
      BY DEF TypeOK
    <3>2. \/ \E phase \in {"scheduled", "running", "over"} :
               windows' = [windows EXCEPT ![w] = [@ EXCEPT !.phase = phase]]
          \/ windows' = [windows EXCEPT ![w] = [@ EXCEPT !.deleted = TRUE]]
      BY <1>2 DEF CreateWindow, DeleteWindow, WindowTurns
    <3>3. QED
      BY <3>1, <3>2 DEF WindowRow
  <2>2. QED
    BY <1>2, <2>1 DEF CreateWindow, DeleteWindow, WindowTurns, TypeOK, rowVars,
                      incidentVars
<1>3. ASSUME NEW i \in Incident, AgeOut(i) PROVE TypeOK'
  BY <1>3 DEF AgeOut, TypeOK, rowVars
<1>4. CASE SiteTurns
  BY <1>4 DEF SiteTurns, TypeOK, incidentVars
<1>5. QED
  BY <1>1, <1>2, <1>3, <1>4 DEF Elapse

\* Every value the pipeline and the API store is one its column can hold.
THEOREM TypeCorrect == Spec => []TypeOK
<1>1. TypeOK /\ [Next]_vars => TypeOK'
  <2> SUFFICES ASSUME TypeOK, [Next]_vars PROVE TypeOK'
    OBVIOUS
  <2>1. ASSUME NEW j \in Proc, Process(j) PROVE TypeOK'
    BY <2>1, DecideType, ActType
  <2>2. ASSUME NEW c \in Checker, Check(c) PROVE TypeOK'
    BY <2>1, <2>2, DecideType DEF Check, Proc
  <2>3. ASSUME NEW p \in Pinger, Ping(p) \/ Process(p) PROVE TypeOK'
    BY <2>1, <2>3, DecideType DEF Proc
  <2>4. ASSUME NEW j \in Proc, Fail(j) PROVE TypeOK'
    BY <2>4, BecomeType, IdleJobType, PipelineAssumption
    DEF Fail, Finish, TypeOK, rowVars, incidentVars
  <2>5. CASE UNCHANGED vars
    BY <2>5 DEF vars, TypeOK
  <2>6. QED
    BY <2>2, <2>3, <2>4, <2>5, RequestType, WorldType DEF Next
<1>2. QED
  BY TypeInit, <1>1, PTL DEF Spec

-----------------------------------------------------------------------------
(* The fingerprint *)

\* The unique (monitorId, fingerprint) as the pipeline uses it: it is held by one
\* incident at most, by every OPEN one, and only by active ones.
KeyInv ==
  /\ KeyIsFreed
  /\ \A i \in Incident : status[i] = "OPEN" => i \in keyed
  /\ \A i, k \in keyed : i = k

\* The four writes to the status and the fingerprint of an incident.
LEMMA StatusSteps ==
  ASSUME [Next]_vars
  PROVE  \/ UNCHANGED <<status, keyed>>
         \/ \E j \in Proc, i \in Incident : OpenIncident(j, i)
         \/ \E j \in Proc : ResolveIncident(j)
         \/ \E r \in Request : Acknowledge(r) \/ ResolveByHand(r)
<1>1. ASSUME NEW j \in Proc, Process(j)
      PROVE  \/ UNCHANGED <<status, keyed>>
             \/ \E i \in Incident : OpenIncident(j, i)
             \/ ResolveIncident(j)
  BY <1>1
  DEF Process, incidentVars, Evaluate, Record, Save, DetectFlapping, OpenRefused,
      SuppressAlert, TellOpened, StartEscalation, IntegrateOpened, FindActive, AnnounceResolved,
      IntegrateResolved, FindRelapsed, NoteRelapse
<1>2. ASSUME NEW j \in Proc, Load(j) \/ Probe(j) \/ Ping(j) \/ Fail(j)
      PROVE  UNCHANGED <<status, keyed>>
  BY <1>2 DEF Load, Probe, Ping, Fail, incidentVars
<1>3. ASSUME NEW r \in Request, Api(r)
      PROVE  UNCHANGED <<status, keyed>> \/ Acknowledge(r) \/ ResolveByHand(r)
  BY <1>3 DEF Api, ReadIncident, ReadMonitor, Pause, Resume, UpdateMonitor,
              incidentVars
<1>4. ASSUME \/ RemoveMonitor
             \/ \E w \in Window : CreateWindow(w) \/ DeleteWindow(w)
             \/ Elapse
             \/ UNCHANGED vars
      PROVE  UNCHANGED <<status, keyed>>
  BY <1>4 DEF RemoveMonitor, CreateWindow, DeleteWindow, Elapse, WindowTurns, AgeOut,
              SiteTurns, incidentVars, vars
<1>5. QED
  BY <1>1, <1>2, <1>3, <1>4 DEF Next, Check, Proc

LEMMA KeyInvInit == Init => KeyInv
BY DEF Init, KeyInv, KeyIsFreed

LEMMA KeyInvNext == TypeOK /\ KeyInv /\ [Next]_vars => KeyInv'
<1> SUFFICES ASSUME TypeOK, KeyInv, [Next]_vars PROVE KeyInv'
  OBVIOUS
<1> /\ status \in [Incident -> IncidentStatus]
    /\ keyed \subseteq Incident
  BY DEF TypeOK
<1> USE DEF KeyInv, KeyIsFreed, Active
<1>1. CASE UNCHANGED <<status, keyed>>
  BY <1>1
<1>2. ASSUME NEW j \in Proc, NEW i \in Incident, OpenIncident(j, i) PROVE KeyInv'
  BY <1>2 DEF OpenIncident
<1>3. ASSUME NEW j \in Proc, ResolveIncident(j) PROVE KeyInv'
  BY <1>3 DEF ResolveIncident
<1>4. ASSUME NEW r \in Request, Acknowledge(r) PROVE KeyInv'
  BY <1>4 DEF Acknowledge
<1>5. ASSUME NEW r \in Request, ResolveByHand(r) PROVE KeyInv'
  BY <1>5 DEF ResolveByHand
<1>6. QED
  BY <1>1, <1>2, <1>3, <1>4, <1>5, StatusSteps

THEOREM KeyInvariance == Spec => []KeyInv
BY KeyInvInit, KeyInvNext, TypeCorrect, PTL DEF Spec

\* openIncident is never refused because of an incident that is over: whoever
\* resolves an incident frees its fingerprint, in every interleaving.
THEOREM KeyFreed == Spec => []KeyIsFreed
BY KeyInvariance, PTL DEF KeyInv

\* Of all the jobs that decide to open an incident and all the requests that touch
\* one, none ever leaves the monitor with two OPEN incidents.
THEOREM OneOpen == Spec => []AtMostOneOpen
<1>1. KeyInv => AtMostOneOpen
  BY DEF KeyInv, AtMostOneOpen
<1>2. QED
  BY <1>1, KeyInvariance, PTL

\* An incident whose end is on its timeline was created, is not OPEN, has no key.
EndedInv ==
  \A i \in Incident :
    "RESOLVED" \in timeline[i] => status[i] \notin {"NONE", "OPEN"} /\ i \notin keyed

LEMMA TimelineSteps ==
  ASSUME [Next]_vars
  PROVE  \/ UNCHANGED timeline
         \/ \E j \in Proc : \/ \E i \in Incident : OpenIncident(j, i)
                           \/ ResolveIncident(j) \/ SuppressAlert(j) \/ NoteRelapse(j)
         \/ \E r \in Request : Acknowledge(r) \/ ResolveByHand(r)
<1>1. ASSUME NEW j \in Proc, Process(j)
      PROVE  \/ UNCHANGED timeline
             \/ \E i \in Incident : OpenIncident(j, i)
             \/ ResolveIncident(j) \/ SuppressAlert(j) \/ NoteRelapse(j)
  BY <1>1
  DEF Process, incidentVars, Evaluate, Record, Save, DetectFlapping, OpenRefused,
      TellOpened, StartEscalation, IntegrateOpened, FindActive, AnnounceResolved,
      IntegrateResolved, FindRelapsed
<1>2. ASSUME NEW j \in Proc, Load(j) \/ Probe(j) \/ Ping(j) \/ Fail(j)
      PROVE  UNCHANGED timeline
  BY <1>2 DEF Load, Probe, Ping, Fail, incidentVars
<1>3. ASSUME NEW r \in Request, Api(r)
      PROVE  UNCHANGED timeline \/ Acknowledge(r) \/ ResolveByHand(r)
  BY <1>3 DEF Api, ReadIncident, ReadMonitor, Pause, Resume, UpdateMonitor, incidentVars
<1>4. ASSUME \/ RemoveMonitor
             \/ \E w \in Window : CreateWindow(w) \/ DeleteWindow(w)
             \/ Elapse
             \/ UNCHANGED vars
      PROVE  UNCHANGED timeline
  BY <1>4 DEF RemoveMonitor, CreateWindow, DeleteWindow, Elapse, WindowTurns, AgeOut,
              SiteTurns, incidentVars, vars
<1>5. QED
  BY <1>1, <1>2, <1>3, <1>4 DEF Next, Check, Proc

LEMMA EndedInvNext == TypeOK /\ EndedInv /\ [Next]_vars => EndedInv'
<1> SUFFICES ASSUME TypeOK, EndedInv, [Next]_vars PROVE EndedInv'
  OBVIOUS
<1> /\ status \in [Incident -> IncidentStatus]
    /\ timeline \in [Incident -> SUBSET EventKind]
    /\ keyed \subseteq Incident
  BY DEF TypeOK
<1> USE DEF EndedInv, Log
<1>1. ASSUME NEW j \in Proc, NEW i \in Incident, OpenIncident(j, i) PROVE EndedInv'
  <2>1. status[i] = "NONE"
    BY <1>1 DEF OpenIncident, Fresh
  <2>2. QED
    BY <1>1, <2>1 DEF OpenIncident
<1>2. ASSUME NEW j \in Proc, ResolveIncident(j) PROVE EndedInv'
  BY <1>2 DEF ResolveIncident
<1>3. ASSUME NEW j \in Proc, SuppressAlert(j) \/ NoteRelapse(j) PROVE EndedInv'
  BY <1>3 DEF SuppressAlert, NoteRelapse
<1>4. ASSUME NEW r \in Request, Acknowledge(r) PROVE EndedInv'
  BY <1>4 DEF Acknowledge
<1>5. ASSUME NEW r \in Request, ResolveByHand(r) PROVE EndedInv'
  BY <1>5 DEF ResolveByHand
<1>6. CASE UNCHANGED timeline
  BY <1>1, <1>2, <1>4, <1>5, <1>6, StatusSteps
<1>7. QED
  BY <1>1, <1>2, <1>3, <1>4, <1>5, <1>6, TimelineSteps

\* Whatever acknowledges and resolves are late, an incident that was ended once
\* neither pages nor blocks the next one again.
THEOREM EndedQuiet == Spec => []EndedStaysQuiet
<1>1. Init => EndedInv
  BY DEF Init, EndedInv
<1>2. EndedInv => EndedStaysQuiet
  BY DEF EndedInv, EndedStaysQuiet
<1>3. QED
  BY <1>1, <1>2, EndedInvNext, TypeCorrect, PTL DEF Spec

-----------------------------------------------------------------------------
(* The opening of an incident is told by the job that created it *)

Telling == {"suppress", "tell", "escalate", "integrate"}
Opening == {"alertOpened", "escalation", "integrationOpened"}

\* A job that tells of an incident, or is to close one, holds a created incident.
HeldInv ==
  \A j \in Proc :
    job[j].stage \in Telling \cup {"close"}
      => job[j].held \in Incident /\ status[job[j].held] # "NONE"

\* No two jobs tell of the same incident.
OneTeller ==
  \A j, k \in Proc :
    /\ job[j].stage \in Telling
    /\ job[k].stage \in Telling
    /\ job[j].held = job[k].held
    => j = k

\* What was told of the incident of a job, by the stage the job is at.
ToldSoFar ==
  \A j \in Proc :
    LET i == job[j].held
    IN  /\ job[j].stage \in {"suppress", "tell"} => \A n \in Opening : notices[i][n] = 0
        /\ job[j].stage \in {"tell", "escalate", "integrate"}
             => "FLAPPING" \notin timeline[i]
        /\ job[j].stage = "escalate"
             => notices[i]["alertOpened"] = 1 /\ notices[i]["escalation"] = 0
        /\ job[j].stage \in {"escalate", "integrate"}
             => notices[i]["integrationOpened"] = 0

Untold ==
  \A i \in Incident :
    status[i] = "NONE" => /\ "FLAPPING" \notin timeline[i]
                          /\ \A n \in Opening : notices[i][n] = 0

TellInv == /\ HeldInv /\ OneTeller /\ ToldSoFar /\ Untold
           /\ ToldAtMostOnce /\ FlappingIsSilent

\* A step that tells nothing: it leaves the incidents alone, and the job it moves
\* has nothing to tell next.
Quiet ==
  /\ UNCHANGED <<status, timeline, notices>>
  /\ \/ UNCHANGED job
     \/ \E j \in Proc :
          /\ \A k \in Proc \ {j} : job'[k] = job[k]
          /\ job'[j].stage \notin Telling
          /\ job'[j].stage = "close"
               => job'[j].held \in Incident /\ status[job'[j].held] # "NONE"

LEMMA BecomeAt ==
  ASSUME job \in [Proc -> Job], NEW j \in Proc, NEW new, Become(j, new)
  PROVE  job'[j] = new /\ \A k \in Proc \ {j} : job'[k] = job[k]
BY DEF Become

LEMMA QuietSteps ==
  ASSUME TypeOK, [Next]_vars
  PROVE  \/ Quiet
         \/ \E j \in Proc :
              \/ \E i \in Incident : OpenIncident(j, i)
              \/ SuppressAlert(j) \/ TellOpened(j) \/ StartEscalation(j)
              \/ IntegrateOpened(j) \/ ResolveIncident(j) \/ AnnounceResolved(j)
              \/ IntegrateResolved(j) \/ NoteRelapse(j)
         \/ \E r \in Request : Acknowledge(r) \/ ResolveByHand(r)
<1> /\ job \in [Proc -> Job]
    /\ IdleJob \in Job /\ IdleJob.stage = "idle"
  BY IdleJobType DEF TypeOK, IdleJob
<1> USE DEF Telling
<1>1. ASSUME NEW j \in Proc, NEW new, Become(j, new),
             UNCHANGED <<status, timeline, notices>>,
             new.stage \notin Telling,
             new.stage = "close" => new.held \in Incident /\ status[new.held] # "NONE"
      PROVE  Quiet
  BY <1>1, BecomeAt DEF Quiet
<1>2. ASSUME NEW j \in Proc, Finish(j), UNCHANGED <<status, timeline, notices>>
      PROVE  Quiet
  BY <1>1, <1>2 DEF Finish
<1>3. ASSUME NEW j \in Proc, Load(j) \/ Probe(j) \/ Ping(j) \/ Evaluate(j) \/ Record(j)
      PROVE  Quiet
  <2>1. UNCHANGED <<status, timeline, notices>>
    BY <1>3 DEF Load, Probe, Ping, Evaluate, Record, incidentVars
  <2>2. /\ job'[j].stage \in {"probe", "evaluate", "record", "save"}
        /\ \A k \in Proc \ {j} : job'[k] = job[k]
    <3>1. CASE Load(j)
      BY <3>1 DEF Load, Become, Job
    <3>2. CASE Probe(j)
      BY <3>2 DEF Probe, Become, Job
    <3>3. CASE Ping(j)
      BY <3>3 DEF Ping, Become, Job
    <3>4. CASE Evaluate(j)
      BY <3>4 DEF Evaluate, Become, Job
    <3>5. CASE Record(j)
      BY <3>5 DEF Record, Goto, Become, Job
    <3>6. QED
      BY <1>3, <3>1, <3>2, <3>3, <3>4, <3>5
  <2>3. QED
    BY <2>1, <2>2 DEF Quiet
<1>4. ASSUME NEW j \in Proc, Save(j) PROVE Quiet
  <2> DEFINE s == Transition(job[j].row, job[j].success, job[j].maint).incident
             new == [IdleJob EXCEPT !.stage = s, !.row = Forget(job[j].row)]
  <2>1. s \in Actions
    BY TransitionType DEF Job, TypeOK
  <2>2. Finish(j) \/ Become(j, new)
    BY <1>4 DEF Save
  <2>3. new.stage = s
    BY DEF Job
  <2>4. UNCHANGED <<status, timeline, notices>>
    BY <1>4 DEF Save, incidentVars
  <2> HIDE DEF s, new
  <2>5. QED
    BY <1>1, <1>2, <2>1, <2>2, <2>3, <2>4 DEF Actions
<1>5. ASSUME NEW j \in Proc,
             DetectFlapping(j) \/ OpenRefused(j) \/ FindActive(j) \/ FindRelapsed(j)
      PROVE  Quiet
  <2>1. UNCHANGED <<status, timeline, notices>>
    BY <1>5 DEF DetectFlapping, OpenRefused, FindActive, FindRelapsed, incidentVars
  <2>2. CASE Finish(j)
    BY <1>2, <2>1, <2>2
  <2>3. ASSUME NEW i \in Incident, LatestActive(i),
               Become(j, [job[j] EXCEPT !.stage = "close", !.held = i])
        PROVE  Quiet
    <3>1. /\ job'[j].stage = "close" /\ job'[j].held = i
          /\ \A k \in Proc \ {j} : job'[k] = job[k]
      BY <2>3 DEF Become, Job
    <3>2. QED
      BY <2>1, <2>3, <3>1 DEF Quiet, LatestActive, Active
  <2>4. ASSUME NEW i \in Incident,
               Become(j, [job[j] EXCEPT !.stage = "note", !.held = i])
        PROVE  Quiet
    <3>1. job'[j].stage = "note" /\ \A k \in Proc \ {j} : job'[k] = job[k]
      BY <2>4 DEF Become, Job
    <3>2. QED
      BY <2>1, <3>1 DEF Quiet
  <2>5. CASE DetectFlapping(j)
    <3>1. job'[j].stage = "create" /\ \A k \in Proc \ {j} : job'[k] = job[k]
      BY <2>5 DEF DetectFlapping, Become, Job
    <3>2. QED
      BY <2>1, <3>1 DEF Quiet
  <2>6. QED
    BY <1>5, <2>2, <2>3, <2>4, <2>5 DEF OpenRefused, FindActive, FindRelapsed
<1>6. ASSUME NEW j \in Proc, Fail(j) PROVE Quiet
  BY <1>2, <1>6 DEF Fail, incidentVars
<1>7. ASSUME NEW r \in Request, Api(r)
      PROVE  Quiet \/ Acknowledge(r) \/ ResolveByHand(r)
  BY <1>7 DEF Api, ReadIncident, ReadMonitor, Pause, Resume, UpdateMonitor,
              incidentVars, Quiet
<1>8. ASSUME \/ RemoveMonitor
             \/ \E w \in Window : CreateWindow(w) \/ DeleteWindow(w)
             \/ Elapse
             \/ UNCHANGED vars
      PROVE  Quiet
  BY <1>8 DEF RemoveMonitor, CreateWindow, DeleteWindow, Elapse, WindowTurns, AgeOut,
              SiteTurns, incidentVars, vars, Quiet
<1>9. QED
  BY <1>3, <1>4, <1>5, <1>6, <1>7, <1>8 DEF Next, Check, Process, Proc

LEMMA TellInvInit == Init => TellInv
BY DEF Init, TellInv, HeldInv, OneTeller, ToldSoFar, Untold, ToldAtMostOnce,
       FlappingIsSilent, Telling, Opening, Notice, IdleJob

LEMMA TellInvQuiet == TypeOK /\ TellInv /\ Quiet => TellInv'
<1> SUFFICES ASSUME TypeOK, TellInv, Quiet PROVE TellInv'
  OBVIOUS
<1> USE DEF Quiet, TellInv, Telling
<1>1. HeldInv'
  BY DEF HeldInv
<1>2. OneTeller'
  BY DEF OneTeller
<1>3. ToldSoFar'
  BY DEF ToldSoFar
<1>4. (Untold /\ ToldAtMostOnce /\ FlappingIsSilent)'
  BY DEF Untold, ToldAtMostOnce, FlappingIsSilent
<1>5. QED
  BY <1>1, <1>2, <1>3, <1>4

\* A created incident is told of by nobody yet but the job that created it.
LEMMA TellInvOpen ==
  ASSUME TypeOK, TellInv, NEW j \in Proc, NEW i \in Incident, OpenIncident(j, i)
  PROVE  TellInv'
<1> /\ job \in [Proc -> Job]
    /\ status \in [Incident -> IncidentStatus]
    /\ timeline \in [Incident -> SUBSET EventKind]
  BY DEF TypeOK
<1>1. /\ job'[j].held = i
      /\ job'[j].stage \in {"suppress", "tell"}
      /\ \A k \in Proc \ {j} : job'[k] = job[k]
  BY DEF OpenIncident, Become, Job
<1>2. /\ status[i] = "NONE"
      /\ status' = [status EXCEPT ![i] = "OPEN"]
      /\ UNCHANGED notices
      /\ timeline' = [timeline EXCEPT ![i] = @ \cup {"DETECTED"}]
  BY DEF OpenIncident, Fresh, Log
<1>3. \A k \in Proc : job[k].stage \in Telling => job[k].held # i
  BY <1>2 DEF TellInv, HeldInv
<1>4. /\ "FLAPPING" \notin timeline[i]
      /\ \A n \in Opening : notices[i][n] = 0
  BY <1>2 DEF TellInv, Untold
<1> USE DEF TellInv, Telling
<1>5. HeldInv'
  BY <1>1, <1>2 DEF HeldInv
<1>6. OneTeller'
  BY <1>1, <1>3 DEF OneTeller
<1>7. ToldSoFar'
  BY <1>1, <1>2, <1>3, <1>4 DEF ToldSoFar
<1>8. (Untold /\ ToldAtMostOnce /\ FlappingIsSilent)'
  BY <1>2 DEF Untold, ToldAtMostOnce, FlappingIsSilent
<1>9. QED
  BY <1>5, <1>6, <1>7, <1>8

\* The job that tells: each notice it sends is the first of its kind.
LEMMA TellInvTell ==
  ASSUME TypeOK, TellInv, NEW j \in Proc,
         SuppressAlert(j) \/ TellOpened(j) \/ StartEscalation(j) \/ IntegrateOpened(j)
  PROVE  TellInv'
<1> DEFINE i == job[j].held
<1> /\ job \in [Proc -> Job]
    /\ notices \in [Incident -> [Notice -> Nat]]
    /\ timeline \in [Incident -> SUBSET EventKind]
  BY DEF TypeOK
<1>1. /\ job[j].stage \in Telling
      /\ i \in Incident /\ status[i] # "NONE"
  BY DEF TellInv, HeldInv, Telling, SuppressAlert, TellOpened, StartEscalation,
         IntegrateOpened
<1>2. \A k \in Proc \ {j} : job[k].stage \in Telling => job[k].held # i
  BY <1>1 DEF TellInv, OneTeller
<1>3. /\ UNCHANGED status
      /\ \A k \in Proc \ {j} : job'[k] = job[k]
      /\ \/ job'[j].stage = "idle"
         \/ job'[j].held = i /\ job'[j].stage \in {"escalate", "integrate"}
  <2>1. CASE SuppressAlert(j)
    BY <2>1 DEF SuppressAlert, Finish, Become, IdleJob
  <2>2. CASE TellOpened(j)
    BY <2>2 DEF TellOpened, Goto, Become, Job
  <2>3. CASE StartEscalation(j)
    BY <2>3 DEF StartEscalation, Goto, Become, Job
  <2>4. CASE IntegrateOpened(j)
    BY <2>4 DEF IntegrateOpened, Finish, Become, IdleJob
  <2>5. QED
    BY <2>1, <2>2, <2>3, <2>4
<1>4. /\ \A k \in Incident \ {i} : notices'[k] = notices[k] /\ timeline'[k] = timeline[k]
  BY DEF SuppressAlert, TellOpened, StartEscalation, IntegrateOpened, Send, Log
<1>5. HeldInv'
  BY <1>1, <1>3 DEF TellInv, HeldInv, Telling
<1>6. OneTeller'
  BY <1>1, <1>3 DEF TellInv, OneTeller, Telling
<1>7. Untold'
  BY <1>1, <1>3, <1>4 DEF TellInv, Untold
<1>8. /\ \A n \in Opening : notices'[i][n] <= 1
      /\ notices'[i]["escalation"] <= notices'[i]["alertOpened"]
      /\ "FLAPPING" \in timeline'[i] => \A n \in Opening : notices'[i][n] = 0
      /\ job'[j].stage \in {"escalate", "integrate"} => "FLAPPING" \notin timeline'[i]
      /\ job'[j].stage = "escalate"
           => notices'[i]["alertOpened"] = 1 /\ notices'[i]["escalation"] = 0
      /\ job'[j].stage \in {"escalate", "integrate"} => notices'[i]["integrationOpened"] = 0
  <2>0. /\ \A n \in Opening : notices[i][n] <= 1
        /\ notices[i]["escalation"] <= notices[i]["alertOpened"]
        /\ "FLAPPING" \in timeline[i] => \A n \in Opening : notices[i][n] = 0
    BY <1>1 DEF TellInv, ToldAtMostOnce, FlappingIsSilent, Opening
  <2>1. CASE SuppressAlert(j)
    BY <1>1, <2>0, <2>1
    DEF SuppressAlert, TellInv, ToldSoFar, Finish, Become, IdleJob, Job, Opening, Notice
  <2>2. CASE TellOpened(j)
    BY <1>1, <2>0, <2>2 DEF TellOpened, TellInv, ToldSoFar, Send, Opening, Notice
  <2>3. CASE StartEscalation(j)
    BY <1>1, <2>0, <2>3
    DEF StartEscalation, TellInv, ToldSoFar, Send, Goto, Become, Job, Opening, Notice
  <2>4. CASE IntegrateOpened(j)
    BY <1>1, <2>0, <2>4
    DEF IntegrateOpened, TellInv, ToldSoFar, Send, Finish, Become, IdleJob, Job, Opening,
        Notice
  <2>5. QED
    BY <2>1, <2>2, <2>3, <2>4
<1>9. ToldSoFar'
  BY <1>2, <1>3, <1>4, <1>8 DEF TellInv, ToldSoFar, HeldInv, Telling
<1>10. (ToldAtMostOnce /\ FlappingIsSilent)'
  BY <1>4, <1>8 DEF TellInv, ToldAtMostOnce, FlappingIsSilent, Opening
<1>11. QED
  BY <1>5, <1>6, <1>7, <1>9, <1>10 DEF TellInv

\* Steps that are not about the opening of an incident.
LEMMA TellInvAside ==
  ASSUME TellInv,
         \A i \in Incident, n \in Opening : notices'[i][n] = notices[i][n],
         \A i \in Incident : "FLAPPING" \in timeline'[i] <=> "FLAPPING" \in timeline[i],
         \A i \in Incident : status'[i] = "NONE" => status[i] = "NONE",
         \A j \in Proc : \/ job'[j] = job[j]
                         \/ job'[j].stage \notin Telling \cup {"close"}
  PROVE  TellInv'
<1> USE DEF TellInv, Telling, Opening
<1>1. HeldInv'
  BY DEF HeldInv
<1>2. OneTeller'
  BY DEF OneTeller
<1>3. ToldSoFar'
  BY DEF ToldSoFar, HeldInv
<1>4. Untold'
  BY DEF Untold
<1>5. (ToldAtMostOnce /\ FlappingIsSilent)'
  BY DEF ToldAtMostOnce, FlappingIsSilent
<1>6. QED
  BY <1>1, <1>2, <1>3, <1>4, <1>5

LEMMA TellInvNext == TypeOK /\ TellInv /\ [Next]_vars => TellInv'
<1> SUFFICES ASSUME TypeOK, TellInv, [Next]_vars PROVE TellInv'
  OBVIOUS
<1> /\ job \in [Proc -> Job]
    /\ notices \in [Incident -> [Notice -> Nat]]
    /\ timeline \in [Incident -> SUBSET EventKind]
    /\ status \in [Incident -> IncidentStatus]
  BY DEF TypeOK
<1>1. ASSUME NEW i, NEW e \in EventKind \ {"FLAPPING"}, Log(i, e)
      PROVE  \A k \in Incident : "FLAPPING" \in timeline'[k] <=> "FLAPPING" \in timeline[k]
  BY <1>1 DEF Log
<1>2. ASSUME NEW i, NEW s \in {"ACKNOWLEDGED", "RESOLVED"},
             status' = [status EXCEPT ![i] = s]
      PROVE  \A k \in Incident : status'[k] = "NONE" => status[k] = "NONE"
  BY <1>2
<1>3. ASSUME NEW i, NEW n \in {"alertResolved", "integrationResolved"}, Send(i, n)
      PROVE  \A k \in Incident, m \in Opening : notices'[k][m] = notices[k][m]
  BY <1>3 DEF Send, Opening, Notice
<1>4. ASSUME NEW j \in Proc, ResolveIncident(j) PROVE TellInv'
  <2>1. \A k \in Proc : job'[k] = job[k] \/ job'[k].stage \in {"announce", "idle"}
    <3>1. CASE Goto(j, "announce")
      BY <3>1 DEF Goto, Become, Job
    <3>2. CASE Finish(j)
      BY <3>2 DEF Finish, Become, IdleJob
    <3>3. QED
      BY <1>4, <3>1, <3>2 DEF ResolveIncident
  <2>2. QED
    BY <1>1, <1>2, <1>4, <2>1, TellInvAside DEF ResolveIncident, EventKind, Telling
<1>5. ASSUME NEW j \in Proc, NoteRelapse(j) PROVE TellInv'
  <2>1. \A k \in Proc : job'[k] = job[k] \/ job'[k].stage = "idle"
    BY <1>5 DEF NoteRelapse, Finish, Become, IdleJob
  <2>2. QED
    BY <1>1, <1>5, <2>1, TellInvAside DEF NoteRelapse, EventKind, Telling
<1>6. ASSUME NEW j \in Proc, AnnounceResolved(j) PROVE TellInv'
  <2>1. \A k \in Proc : job'[k] = job[k] \/ job'[k].stage = "announceIntegrations"
    BY <1>6 DEF AnnounceResolved, Goto, Become, Job
  <2>2. QED
    BY <1>3, <1>6, <2>1, TellInvAside DEF AnnounceResolved, Telling
<1>7. ASSUME NEW j \in Proc, IntegrateResolved(j) PROVE TellInv'
  <2>1. \A k \in Proc : job'[k] = job[k] \/ job'[k].stage = "idle"
    BY <1>7 DEF IntegrateResolved, Finish, Become, IdleJob
  <2>2. QED
    BY <1>3, <1>7, <2>1, TellInvAside DEF IntegrateResolved, Telling
<1>8. ASSUME NEW r \in Request, Acknowledge(r) PROVE TellInv'
  BY <1>1, <1>2, <1>8, TellInvAside DEF Acknowledge, EventKind
<1>9. ASSUME NEW r \in Request, ResolveByHand(r) PROVE TellInv'
  BY <1>1, <1>2, <1>9, TellInvAside DEF ResolveByHand, EventKind
<1>10. QED
  BY <1>4, <1>5, <1>6, <1>7, <1>8, <1>9, QuietSteps, TellInvQuiet, TellInvOpen, TellInvTell

THEOREM TellInvariance == Spec => []TellInv
BY TellInvInit, TellInvNext, TypeCorrect, PTL DEF Spec

\* However jobs die, are run again or overlap, the opening of an incident is sent
\* on each way once at most, and no policy escalates what no channel was told.
THEOREM ToldOnce == Spec => []ToldAtMostOnce
BY TellInvariance, PTL DEF TellInv

\* An incident suppressed as flapping is never announced, by any job.
THEOREM FlappingSilent == Spec => []FlappingIsSilent
BY TellInvariance, PTL DEF TellInv

-----------------------------------------------------------------------------
(* Without acknowledgements: the refinement of IncidentBoard *)

\* Where acknowledge is not among the operations, no request to acknowledge is ever
\* in flight; and a request to resolve holds a created incident.
RequestInv ==
  /\ \A r \in Request : request[r].op # "acknowledge"
  /\ \A r \in Request : request[r].op = "resolve"
                          => request[r].on \in Incident /\ status[request[r].on] # "NONE"
  /\ \A i \in Incident : status[i] # "ACKNOWLEDGED"

\* No step takes an incident back to NONE, and only acknowledgements make it
\* ACKNOWLEDGED or take it out of RESOLVED.
LEMMA StatusMoves ==
  ASSUME TypeOK, RequestInv, [Next]_vars
  PROVE  \A i \in Incident : /\ status'[i] = "NONE" => status[i] = "NONE"
                             /\ status[i] = "RESOLVED" => status'[i] = "RESOLVED"
                             /\ status'[i] # "ACKNOWLEDGED"
<1> status \in [Incident -> IncidentStatus]
  BY DEF TypeOK
<1> USE DEF RequestInv
<1>1. CASE UNCHANGED <<status, keyed>>
  BY <1>1
<1>2. ASSUME NEW j \in Proc, NEW i \in Incident, OpenIncident(j, i)
      PROVE  status[i] = "NONE" /\ status' = [status EXCEPT ![i] = "OPEN"]
  BY <1>2 DEF OpenIncident, Fresh
<1>3. ASSUME NEW j \in Proc, ResolveIncident(j)
      PROVE  status' = [status EXCEPT ![job[j].held] = "RESOLVED"]
  BY <1>3 DEF ResolveIncident
<1>4. ASSUME NEW r \in Request, Acknowledge(r) \/ ResolveByHand(r)
      PROVE  status' = [status EXCEPT ![request[r].on] = "RESOLVED"]
  BY <1>4 DEF Acknowledge, ResolveByHand, Asked
<1>5. QED
  BY <1>1, <1>2, <1>3, <1>4, StatusSteps

LEMMA RequestInvNext ==
  ASSUME "acknowledge" \notin ApiOps, TypeOK, RequestInv, [Next]_vars
  PROVE  RequestInv'
<1> /\ request \in [Request -> RequestState]
    /\ status \in [Incident -> IncidentStatus]
  BY DEF TypeOK
<1>1. \A r \in Request :
        \/ request'[r] = request[r]
        \/ request'[r].op \notin {"acknowledge", "resolve"}
        \/ /\ request'[r].op = "resolve"
           /\ request'[r].on \in Incident /\ status[request'[r].on] # "NONE"
  <2>1. ASSUME NEW r \in Request, Api(r)
        PROVE  \/ Answered(r)
               \/ \E op \in {"pause", "resume", "update"} : Ask(r, op, NoIncident)
               \/ \E i \in Incident : status[i] # "NONE" /\ Ask(r, "resolve", i)
    BY <2>1 DEF Api, ReadIncident, ReadMonitor, Acknowledge, ResolveByHand, Pause, Resume,
                UpdateMonitor, Active
  <2>2. CASE \E r \in Request : Api(r)
    BY <2>1, <2>2 DEF Answered, Ask, IdleRequest
  <2>3. CASE UNCHANGED request
    BY <2>3
  <2>4. ASSUME NEW j \in Proc, Load(j) \/ Probe(j) \/ Ping(j) \/ Process(j) \/ Fail(j)
        PROVE  UNCHANGED request
    BY <2>4 DEF Load, Probe, Ping, Process, Fail, Evaluate, Record, Save,
                DetectFlapping, OpenRefused, OpenIncident, SuppressAlert, TellOpened, StartEscalation,
                IntegrateOpened, FindActive, ResolveIncident, AnnounceResolved,
                IntegrateResolved, FindRelapsed, NoteRelapse
  <2>5. QED
    BY <2>2, <2>3, <2>4
    DEF Next, Check, Proc, RemoveMonitor, CreateWindow, DeleteWindow, Elapse, WindowTurns,
        AgeOut, SiteTurns, vars
<1>2. QED
  BY <1>1, StatusMoves DEF RequestInv

LEMMA RequestInvInit == Init => RequestInv
BY DEF Init, RequestInv, IdleRequest

LEMMA BoardStep ==
  ASSUME TypeOK, KeyInv, TellInv, RequestInv, [Next]_vars
  PROVE  [Board!Next]_(Board!boardVars)
<1> DEFINE announced == [i \in Incident |-> notices[i]["alertOpened"]]
           escalated == [i \in Incident |-> notices[i]["escalation"]]
           Stutter   == UNCHANGED <<status, announced, escalated>>
<1> /\ status \in [Incident -> IncidentStatus]
    /\ notices \in [Incident -> [Notice -> Nat]]
  BY DEF TypeOK
<1>1. ASSUME Stutter PROVE [Board!Next]_(Board!boardVars)
  BY <1>1 DEF Board!boardVars
<1>2. CASE Quiet
  BY <1>1, <1>2 DEF Quiet
<1>3. ASSUME NEW j \in Proc, NEW i \in Incident, OpenIncident(j, i)
      PROVE  Board!Next
  <2>1. \A k \in Incident : status[k] \in {"NONE", "RESOLVED"}
    BY <1>3 DEF OpenIncident, KeyInv, RequestInv, IncidentStatus
  <2>2. Board!Open(i)
    BY <1>3, <2>1 DEF OpenIncident, Fresh, Board!Open
  <2>3. QED
    BY <2>2 DEF Board!Next
<1>4. ASSUME NEW j \in Proc, SuppressAlert(j) \/ NoteRelapse(j) PROVE Stutter
  BY <1>4 DEF SuppressAlert, NoteRelapse
<1>5. ASSUME NEW j \in Proc, TellOpened(j) PROVE Board!Next
  <2>1. PICK i \in Incident :
          i = job[j].held /\ status[i] # "NONE" /\ notices[i]["alertOpened"] = 0
    BY <1>5 DEF TellOpened, TellInv, HeldInv, ToldSoFar, Telling, Opening
  <2>2. \A k \in Incident :
          /\ notices'[k]["alertOpened"] = IF k = i THEN 1 ELSE notices[k]["alertOpened"]
          /\ notices'[k]["escalation"] = notices[k]["escalation"]
    BY <1>5, <2>1 DEF TellOpened, Send, Notice
  <2>3. UNCHANGED <<status, escalated>> /\ announced' = [announced EXCEPT ![i] = 1]
    BY <1>5, <2>2 DEF TellOpened
  <2>4. Board!Announce(i)
    BY <2>1, <2>3 DEF Board!Announce
  <2>5. QED
    BY <2>4 DEF Board!Next
<1>6. ASSUME NEW j \in Proc, StartEscalation(j) PROVE Board!Next
  <2>1. PICK i \in Incident : /\ i = job[j].held
                             /\ notices[i]["alertOpened"] = 1
                             /\ notices[i]["escalation"] = 0
    BY <1>6 DEF StartEscalation, TellInv, HeldInv, ToldSoFar, Telling, Opening
  <2>2. \A k \in Incident :
          /\ notices'[k]["escalation"] = IF k = i THEN 1 ELSE notices[k]["escalation"]
          /\ notices'[k]["alertOpened"] = notices[k]["alertOpened"]
    BY <1>6, <2>1 DEF StartEscalation, Send, Notice
  <2>3. UNCHANGED <<status, announced>> /\ escalated' = [escalated EXCEPT ![i] = 1]
    BY <1>6, <2>2 DEF StartEscalation
  <2>4. Board!Escalate(i)
    BY <2>1, <2>3 DEF Board!Escalate
  <2>5. QED
    BY <2>4 DEF Board!Next
<1>7. ASSUME NEW j \in Proc,
             IntegrateOpened(j) \/ AnnounceResolved(j) \/ IntegrateResolved(j)
      PROVE  Stutter
  BY <1>7 DEF IntegrateOpened, AnnounceResolved, IntegrateResolved, Send, Notice
<1>8. ASSUME NEW i \in Incident, status[i] # "NONE", UNCHANGED notices,
             status' = [status EXCEPT ![i] = "RESOLVED"]
      PROVE  [Board!Next]_(Board!boardVars)
  <2>1. CASE status[i] = "RESOLVED"
    BY <1>1, <1>8, <2>1
  <2>2. CASE status[i] = "OPEN"
    BY <1>8, <2>2 DEF Board!Next, Board!Resolve
  <2>3. QED
    BY <1>8, <2>1, <2>2 DEF RequestInv, IncidentStatus
<1>9. ASSUME NEW j \in Proc, ResolveIncident(j) PROVE [Board!Next]_(Board!boardVars)
  BY <1>8, <1>9 DEF ResolveIncident, TellInv, HeldInv
<1>10. ASSUME NEW r \in Request, Acknowledge(r) \/ ResolveByHand(r)
       PROVE  [Board!Next]_(Board!boardVars)
  BY <1>8, <1>10 DEF Acknowledge, ResolveByHand, Asked, RequestInv
<1>11. QED
  BY <1>1, <1>2, <1>3, <1>4, <1>5, <1>6, <1>7, <1>9, <1>10, QuietSteps

\* The pipeline, with every race, fault and bound, keeps the promises of the board:
\* one active incident at a time, resolved for good, announced and escalated once.
THEOREM BoardImplemented ==
  ASSUME "acknowledge" \notin ApiOps
  PROVE  Spec => BoardSpec
<1>1. Init => Board!Init
  BY DEF Init, Board!Init, Notice
<1>2. Init => RequestInv
  BY RequestInvInit
<1>3. TypeOK /\ RequestInv /\ [Next]_vars => RequestInv'
  BY RequestInvNext
<1>4. TypeOK /\ KeyInv /\ TellInv /\ RequestInv /\ [Next]_vars
        => [Board!Next]_(Board!boardVars)
  BY BoardStep
<1>5. QED
  BY <1>1, <1>2, <1>3, <1>4, TypeCorrect, KeyInvariance, TellInvariance, PTL
  DEF Spec, BoardSpec, Board!Spec

-----------------------------------------------------------------------------
(* Without deaths: what one check at a time can promise *)

\* Requests ask for the operations the monitor's users have.
OpsInv == \A r \in Request : request[r].op \in ApiOps \cup {"none"}

\* A step of nobody's check: no job and no incident moves, and the row keeps what the
\* state machine reads of it.
Aside ==
  /\ UNCHANGED <<job, status, keyed, notices, badRun>>
  /\ mon'.health = mon.health
  /\ mon'.fails = mon.fails

LEMMA OpsInvInit == Init => OpsInv
BY DEF Init, OpsInv, IdleRequest

LEMMA OpsInvNext ==
  ASSUME TypeOK, OpsInv, [Next]_vars
  PROVE  OpsInv'
<1> request \in [Request -> RequestState]
  BY DEF TypeOK
<1>1. ASSUME NEW r \in Request, Api(r)
      PROVE  \/ Answered(r)
             \/ \E op \in ApiOps, i \in Incident \cup {NoIncident} : Ask(r, op, i)
  BY <1>1 DEF Api, ReadIncident, ReadMonitor, Acknowledge, ResolveByHand, Pause, Resume,
              UpdateMonitor
<1>2. CASE \E r \in Request : Api(r)
  BY <1>1, <1>2 DEF Answered, Ask, IdleRequest, OpsInv
<1>3. CASE UNCHANGED request
  BY <1>3 DEF OpsInv
<1>4. ASSUME NEW j \in Proc, Load(j) \/ Probe(j) \/ Ping(j) \/ Process(j) \/ Fail(j)
      PROVE  UNCHANGED request
  BY <1>4 DEF Load, Probe, Ping, Process, Fail, Evaluate, Record, Save,
              DetectFlapping, OpenRefused, OpenIncident, SuppressAlert, TellOpened,
              StartEscalation, IntegrateOpened, FindActive, ResolveIncident,
              AnnounceResolved, IntegrateResolved, FindRelapsed, NoteRelapse
<1>5. QED
  BY <1>2, <1>3, <1>4
  DEF Next, Check, Proc, RemoveMonitor, CreateWindow, DeleteWindow, Elapse, WindowTurns,
      AgeOut, SiteTurns, vars

\* Who may take a step while no job dies.
LEMMA StepsOfOthers ==
  ASSUME TypeOK, OpsInv, MaxFaults = 0, [Next]_vars
  PROVE  \/ \E j \in Proc : Process(j)
         \/ \E c \in Checker : Load(c) \/ Probe(c)
         \/ \E p \in Pinger : Ping(p)
         \/ \E r \in Request : \/ "acknowledge" \in ApiOps /\ Acknowledge(r)
                               \/ "resolve" \in ApiOps /\ ResolveByHand(r)
                               \/ "pause" \in ApiOps /\ Pause(r)
                               \/ "resume" \in ApiOps /\ Resume(r)
         \/ Aside
<1> mon \in MonitorRow
  BY DEF TypeOK
<1>1. ASSUME NEW r \in Request, Api(r)
      PROVE  \/ "acknowledge" \in ApiOps /\ Acknowledge(r)
             \/ "resolve" \in ApiOps /\ ResolveByHand(r)
             \/ "pause" \in ApiOps /\ Pause(r)
             \/ "resume" \in ApiOps /\ Resume(r)
             \/ Aside
  <2>1. request[r].op \in ApiOps \cup {"none"}
    BY DEF OpsInv
  <2>2. ASSUME NEW ft \in Thresholds, NEW ot \in Thresholds, NEW p \in Policies,
               UpdateMonitor(r, ft, ot, p)
        PROVE  Aside
    BY <2>2 DEF UpdateMonitor, Aside, incidentVars, MonitorRow
  <2>3. ASSUME NEW i \in Incident, NEW op, ReadIncident(r, op, i) \/ ReadMonitor(r, op)
        PROVE  Aside
    BY <2>3 DEF ReadIncident, ReadMonitor, Aside, incidentVars, rowVars
  <2>4. ASSUME NEW op, ReadMonitor(r, op)
        PROVE  Aside
    BY <2>4 DEF ReadMonitor, Aside, incidentVars, rowVars
  <2>5. QED
    BY <1>1, <2>1, <2>2, <2>3, <2>4 DEF Api, Acknowledge, ResolveByHand, Pause, Resume, Asked
<1>2. CASE RemoveMonitor
  BY <1>2 DEF RemoveMonitor, Aside, incidentVars, MonitorRow
<1>3. ASSUME NEW w \in Window, CreateWindow(w) \/ DeleteWindow(w) PROVE Aside
  BY <1>3 DEF CreateWindow, DeleteWindow, Aside, incidentVars, rowVars
<1>4. CASE Elapse
  BY <1>4 DEF Elapse, WindowTurns, AgeOut, SiteTurns, Aside, incidentVars, rowVars
<1>5. CASE UNCHANGED vars
  BY <1>5 DEF vars, Aside
<1>6. \A j \in Proc : ~Fail(j)
  BY DEF Fail, TypeOK
<1>7. QED
  BY <1>1, <1>2, <1>3, <1>4, <1>5, <1>6 DEF Next, Check, Proc


\* A probed monitor gets no pings, and pings decide to open nothing on any other.
PingInv ==
  \A p \in Pinger :
    /\ job[p].stage \in {"idle", "evaluate", "record", "save", "resolve", "close"}
    /\ job[p].stage \in {"evaluate", "record", "save"} => job[p].success
    /\ ~Heartbeat => job[p].stage = "idle"

\* transition(): a check that succeeds opens nothing and relapses nothing.
LEMMA SuccessOpensNothing ==
  ASSUME NEW s, NEW inMaintenance
  PROVE  Transition(s, TRUE, inMaintenance).incident \in {"none", "resolve"}
BY DEF Transition, NextHealth, IncidentAction, Failing

\* A step of a check moves that check only.
LEMMA OneMoves ==
  ASSUME TypeOK, NEW j \in Proc, Process(j) \/ Load(j) \/ Probe(j) \/ Ping(j)
  PROVE  \A k \in Proc \ {j} : job'[k] = job[k]
<1> job \in [Proc -> Job]
  BY DEF TypeOK
<1>1. \E new : Become(j, new)
  BY DEF Process, Load, Probe, Ping, Evaluate, Record, Save, DetectFlapping, OpenRefused,
         OpenIncident, SuppressAlert, TellOpened, StartEscalation, IntegrateOpened,
         FindActive, ResolveIncident, AnnounceResolved, IntegrateResolved, FindRelapsed,
         NoteRelapse, Goto, Finish
<1>2. QED
  BY <1>1, BecomeAt

\* What the state machine answers is where the job that saves goes.
LEMMA SaveGoes ==
  ASSUME TypeOK, NEW j \in Proc, Save(j)
  PROVE  /\ job[j].stage = "save"
         /\ LET d == Transition(job[j].row, job[j].success, job[j].maint)
            IN  /\ d.incident \in Actions
                /\ mon'.health = d.health
                /\ mon'.fails = d.fails
                /\ job'[j].stage = IF d.incident = "none" THEN "idle" ELSE d.incident
                /\ ~job'[j].flapping
                /\ UNCHANGED <<status, keyed, notices, badRun>>
<1> DEFINE d == Transition(job[j].row, job[j].success, job[j].maint)
<1>1. d.incident \in Actions
  BY TransitionType DEF Job, TypeOK
<1>2. Save(j) <=> /\ job[j].stage = "save"
                  /\ mon' = [mon EXCEPT !.health = d.health, !.fails = d.fails, !.oks = d.oks]
                  /\ site' = IF j \in Pinger THEN "up" ELSE site
                  /\ IF d.incident = "none" THEN Finish(j)
                     ELSE Become(j, [IdleJob EXCEPT !.stage = d.incident,
                                                    !.row = Forget(job[j].row)])
                  /\ UNCHANGED <<badRun, windows, incidentVars, request, faults>>
  BY DEF Save
<1> HIDE DEF d
<1>3. mon'.health = d.health /\ mon'.fails = d.fails
  BY <1>2 DEF TypeOK, MonitorRow
<1>4. /\ job'[j].stage = IF d.incident = "none" THEN "idle" ELSE d.incident
      /\ ~job'[j].flapping
  <2>1. job \in [Proc -> Job] /\ IdleJob \in Job /\ IdleJob.stage = "idle" /\ ~IdleJob.flapping
    BY IdleJobType DEF TypeOK, IdleJob
  <2>2. [IdleJob EXCEPT !.stage = d.incident, !.row = Forget(job[j].row)].stage = d.incident
    BY DEF IdleJob
  <2>3. [IdleJob EXCEPT !.stage = d.incident, !.row = Forget(job[j].row)].flapping = FALSE
    BY DEF IdleJob
  <2> DEFINE new == [IdleJob EXCEPT !.stage = d.incident, !.row = Forget(job[j].row)]
  <2>4. IF d.incident = "none" THEN Become(j, IdleJob) ELSE Become(j, new)
    BY <1>2 DEF Finish
  <2> HIDE DEF new
  <2>5. job'[j] = IF d.incident = "none" THEN IdleJob ELSE new
    BY <2>1, <2>4, BecomeAt
  <2>6. QED
    BY <2>1, <2>2, <2>3, <2>5 DEF new
<1>5. QED
  BY <1>1, <1>2, <1>3, <1>4 DEF incidentVars, d

LEMMA PingInvInit == Init => PingInv
BY DEF Init, PingInv, IdleJob, Proc

LEMMA PingInvNext ==
  ASSUME TypeOK, OpsInv, MaxFaults = 0, PingInv, [Next]_vars
  PROVE  PingInv'
<1> /\ job \in [Proc -> Job]
    /\ IdleJob \in Job /\ IdleJob.stage = "idle"
    /\ Pinger \subseteq Proc /\ Checker \cap Pinger = {}
  BY IdleJobType, PipelineAssumption DEF TypeOK, IdleJob, Proc
<1>1. ASSUME NEW p \in Pinger, Save(p) PROVE job'[p].stage \in {"idle", "resolve"}
  <2>1. job[p].stage = "save" /\ p \in Proc
    BY <1>1 DEF Save
  <2>2. job[p].success = TRUE
    BY <2>1 DEF PingInv, TypeOK, Job
  <2> DEFINE d == Transition(job[p].row, job[p].success, job[p].maint)
  <2>3. job'[p].stage = IF d.incident = "none" THEN "idle" ELSE d.incident
    BY <1>1, <2>1, SaveGoes
  <2>4. d.incident \in {"none", "resolve"}
    BY <2>2, SuccessOpensNothing
  <2> HIDE DEF d
  <2>5. QED
    BY <2>3, <2>4
<1>2. ASSUME NEW p \in Pinger, Process(p)
      PROVE  /\ job'[p].stage \in {"idle", "record", "save", "resolve", "close"}
             /\ job'[p].stage \in {"record", "save"} => job'[p].success
             /\ Heartbeat
  <2>1. /\ job[p].stage \in {"evaluate", "record", "save", "resolve", "close"} /\ Heartbeat
        /\ job[p].stage \in {"evaluate", "record", "save"} => job[p].success
    BY <1>2
    DEF PingInv, Process, Evaluate, Record, Save, DetectFlapping, OpenRefused,
        OpenIncident, SuppressAlert, TellOpened, StartEscalation, IntegrateOpened,
        FindActive, ResolveIncident, AnnounceResolved, IntegrateResolved, FindRelapsed,
        NoteRelapse
  <2>2. Evaluate(p) \/ Record(p) \/ Save(p) \/ FindActive(p) \/ ResolveIncident(p)
    BY <1>2, <2>1
    DEF Process, DetectFlapping, OpenRefused, OpenIncident, SuppressAlert, TellOpened,
        StartEscalation, IntegrateOpened, AnnounceResolved, IntegrateResolved,
        FindRelapsed, NoteRelapse
  <2>3. CASE Evaluate(p)
    BY <2>1, <2>3 DEF Evaluate, Become, Job
  <2>4. CASE Record(p)
    BY <2>1, <2>4 DEF Record, Goto, Become, Job
  <2>5. CASE FindActive(p)
    <3>1. ASSUME NEW i \in Incident,
                 Become(p, [job[p] EXCEPT !.stage = "close", !.held = i])
          PROVE  job'[p].stage = "close"
      BY <3>1 DEF Become, Job
    <3>2. Finish(p) => job'[p].stage = "idle"
      BY DEF Finish, Become
    <3>3. job'[p].stage \in {"close", "idle"}
      BY <2>5, <3>1, <3>2 DEF FindActive
    <3>4. QED
      BY <2>1, <3>3
  <2>6. CASE ResolveIncident(p)
    BY <2>1, <2>6 DEF ResolveIncident, Finish, Become
  <2>7. QED
    BY <1>1, <2>1, <2>2, <2>3, <2>4, <2>5, <2>6
<1>3. ASSUME NEW p \in Pinger, Ping(p)
      PROVE  job'[p].stage = "evaluate" /\ job'[p].success /\ Heartbeat
  BY <1>3 DEF Ping, Become, Job
<1>4. ASSUME NEW j \in Proc, Process(j) \/ Load(j) \/ Probe(j) \/ Ping(j),
             j \in Pinger => Process(j) \/ Ping(j)
      PROVE  PingInv'
  BY <1>2, <1>3, <1>4, OneMoves DEF PingInv
<1>5. ASSUME NEW r \in Request,
             Acknowledge(r) \/ ResolveByHand(r) \/ Pause(r) \/ Resume(r)
      PROVE  PingInv'
  BY <1>5 DEF Acknowledge, ResolveByHand, Pause, Resume, PingInv
<1>6. CASE Aside
  BY <1>6 DEF Aside, PingInv
<1>7. QED
  BY <1>4, <1>5, <1>6, StepsOfOthers DEF Proc


\* A resolved incident is announced as over, or the job that resolved it is about to.
EndInv ==
  \A i \in Incident :
    status[i] = "RESOLVED" =>
      \/ notices[i]["alertResolved"] > 0
      \/ \E j \in Proc : job[j].stage = "announce" /\ job[j].held = i

LEMMA EndInvNext ==
  ASSUME ~Heartbeat, "resolve" \notin ApiOps, MaxFaults = 0,
         TypeOK, OpsInv, PingInv, EndInv, [Next]_vars
  PROVE  EndInv'
<1> /\ job \in [Proc -> Job]
    /\ status \in [Incident -> IncidentStatus]
    /\ notices \in [Incident -> [Notice -> Nat]]
    /\ IdleJob.stage = "idle"
  BY DEF TypeOK, IdleJob
\* What is announced stays announced.
<1>1. ASSUME \A i \in Incident : status'[i] = "RESOLVED" => status[i] = "RESOLVED",
             \A i \in Incident :
               notices[i]["alertResolved"] > 0 => notices'[i]["alertResolved"] > 0,
             NEW j \in Proc, job[j].stage # "announce",
             \A k \in Proc \ {j} : job'[k] = job[k]
      PROVE  EndInv'
  BY <1>1 DEF EndInv
<1>2. ASSUME NEW j \in Proc, NEW n \in Notice, Send(job[j].held, n)
      PROVE  \A i \in Incident :
               notices[i]["alertResolved"] > 0 => notices'[i]["alertResolved"] > 0
  BY <1>2 DEF Send
<1>3. ASSUME NEW j \in Proc, ResolveIncident(j) PROVE EndInv'
  <2>1. j \in Checker
    BY <1>3 DEF PingInv, ResolveIncident, Proc
  <2>2. /\ job'[j].stage = "announce" /\ job'[j].held = job[j].held
        /\ \A k \in Proc \ {j} : job'[k] = job[k]
        /\ job[j].stage = "close"
    BY <1>3, <2>1 DEF ResolveIncident, Goto, Become, Job
  <2>3. UNCHANGED notices /\ \A i \in Incident : i # job[j].held => status'[i] = status[i]
    BY <1>3 DEF ResolveIncident
  <2>4. QED
    BY <2>2, <2>3 DEF EndInv
<1>4. ASSUME NEW j \in Proc, AnnounceResolved(j) PROVE EndInv'
  <2>1. /\ UNCHANGED status
        /\ \A k \in Proc \ {j} : job'[k] = job[k]
    BY <1>4 DEF AnnounceResolved, Goto, Become
  <2>2. job[j].held \in Incident => notices'[job[j].held]["alertResolved"] > 0
    BY <1>4 DEF AnnounceResolved, Send, Notice
  <2>3. \A i \in Incident :
          notices[i]["alertResolved"] > 0 => notices'[i]["alertResolved"] > 0
    BY <1>2, <1>4 DEF AnnounceResolved, Notice
  <2>4. QED
    BY <2>1, <2>2, <2>3 DEF EndInv
<1>5. ASSUME NEW j \in Proc, NEW i \in Incident, OpenIncident(j, i) PROVE EndInv'
  <2>1. \A k \in Incident : status'[k] = "RESOLVED" => status[k] = "RESOLVED"
    BY <1>5 DEF OpenIncident
  <2>2. UNCHANGED notices /\ job[j].stage = "create"
    BY <1>5 DEF OpenIncident
  <2>3. QED
    BY <1>1, <1>5, <2>1, <2>2, OneMoves DEF Process
<1>6. ASSUME NEW j \in Proc, TellOpened(j) \/ StartEscalation(j) \/ IntegrateOpened(j)
                             \/ IntegrateResolved(j)
      PROVE  EndInv'
  <2>1. UNCHANGED status /\ job[j].stage # "announce"
    BY <1>6 DEF TellOpened, StartEscalation, IntegrateOpened, IntegrateResolved
  <2>2. \A i \in Incident :
          notices[i]["alertResolved"] > 0 => notices'[i]["alertResolved"] > 0
    BY <1>2, <1>6
    DEF TellOpened, StartEscalation, IntegrateOpened, IntegrateResolved, Notice
  <2>3. QED
    BY <1>1, <1>6, <2>1, <2>2, OneMoves DEF Process
<1>7. ASSUME NEW j \in Proc,
             \/ Load(j) \/ Probe(j) \/ Ping(j) \/ Evaluate(j) \/ Record(j) \/ Save(j)
             \/ DetectFlapping(j) \/ OpenRefused(j) \/ SuppressAlert(j) \/ FindActive(j)
             \/ FindRelapsed(j) \/ NoteRelapse(j)
      PROVE  EndInv'
  <2>1. UNCHANGED <<status, notices>> /\ job[j].stage # "announce"
    BY <1>7 DEF Load, Probe, Ping, Evaluate, Record, Save, DetectFlapping, OpenRefused,
                SuppressAlert, FindActive, FindRelapsed, NoteRelapse, incidentVars
  <2>2. QED
    BY <1>1, <1>7, <2>1, OneMoves DEF Process
<1>8. ASSUME NEW r \in Request, Acknowledge(r) \/ Pause(r) \/ Resume(r) PROVE EndInv'
  <2>1. UNCHANGED <<job, notices>>
        /\ \A i \in Incident : status'[i] = "RESOLVED" => status[i] = "RESOLVED"
    BY <1>8 DEF Acknowledge, Pause, Resume, incidentVars
  <2>2. QED
    BY <2>1 DEF EndInv
<1>9. CASE Aside
  BY <1>9 DEF Aside, EndInv
<1>10. QED
  BY <1>3, <1>4, <1>5, <1>6, <1>7, <1>8, <1>9, StepsOfOthers DEF Process, Proc

\* Of a probed monitor whose incidents nobody resolves by hand every end is announced:
\* with checks that overlap, incidents acknowledged at any moment, monitors paused,
\* resumed and edited; a job that dies, and a ping, would leave it out.
THEOREM EndAnnounced ==
  ASSUME ~Heartbeat, "resolve" \notin ApiOps, MaxFaults = 0
  PROVE  Spec => []EndIsAnnounced
<1>1. Init => EndInv
  BY DEF Init, EndInv
<1>2. EndInv => EndIsAnnounced
  BY DEF EndInv, EndIsAnnounced, AllIdle
<1>3. TypeOK /\ OpsInv /\ [Next]_vars => OpsInv'
  BY OpsInvNext
<1>4. TypeOK /\ OpsInv /\ PingInv /\ [Next]_vars => PingInv'
  BY PingInvNext
<1>5. TypeOK /\ OpsInv /\ PingInv /\ EndInv /\ [Next]_vars => EndInv'
  BY EndInvNext
<1>6. QED
  BY <1>1, <1>2, <1>3, <1>4, <1>5, OpsInvInit, PingInvInit, TypeCorrect, PTL DEF Spec


\* No check finds the monitor flapping.
Steady == \A j \in Proc : ~job[j].flapping /\ job[j].stage # "suppress"

LEMMA NotFlapping ==
  ASSUME MaxIncidents < FlapThreshold
  PROVE  ~Flapping
<1> DEFINE recent == {i \in Incident : status[i] # "NONE" /\ i \notin aged}
<1>1. IsFiniteSet(Incident) /\ Cardinality(Incident) = MaxIncidents
  <2>1. /\ IsFiniteSet(1 .. MaxIncidents)
        /\ Cardinality(1 .. MaxIncidents) = IF 1 > MaxIncidents THEN 0 ELSE MaxIncidents - 1 + 1
    BY FS_Interval, PipelineAssumption
  <2>2. QED
    BY <2>1, PipelineAssumption DEF Incident
<1>2. IsFiniteSet(recent) /\ Cardinality(recent) <= Cardinality(Incident)
  BY <1>1, FS_Subset
<1>3. Cardinality(recent) \in Nat
  BY <1>2, FS_CardinalityType
<1>4. Flapping <=> Cardinality(recent) >= FlapThreshold
  BY DEF Flapping
<1> HIDE DEF recent
<1>5. QED
  BY <1>1, <1>2, <1>3, <1>4, PipelineAssumption

LEMMA SteadyNext ==
  ASSUME MaxIncidents < FlapThreshold, MaxFaults = 0, TypeOK, OpsInv, Steady, [Next]_vars
  PROVE  Steady'
<1> /\ job \in [Proc -> Job]
    /\ IdleJob \in Job /\ IdleJob.stage = "idle" /\ ~IdleJob.flapping
  BY IdleJobType DEF TypeOK, IdleJob
<1>1. ASSUME NEW j \in Proc, Process(j) \/ Load(j) \/ Probe(j) \/ Ping(j),
             ~job'[j].flapping, job'[j].stage # "suppress"
      PROVE  Steady'
  BY <1>1, OneMoves DEF Steady
<1>2. ASSUME NEW j \in Proc, Finish(j)
      PROVE  ~job'[j].flapping /\ job'[j].stage # "suppress"
  BY <1>2 DEF Finish, Become
<1>3. ASSUME NEW j \in Proc, NEW stage \in Stage \ {"suppress"}, Goto(j, stage)
      PROVE  ~job'[j].flapping /\ job'[j].stage # "suppress"
  BY <1>3 DEF Goto, Become, Job, Steady
<1>4. ASSUME NEW j \in Proc, Save(j) PROVE Steady'
  <2> DEFINE d == Transition(job[j].row, job[j].success, job[j].maint)
  <2>1. /\ ~job'[j].flapping
        /\ job'[j].stage = IF d.incident = "none" THEN "idle" ELSE d.incident
        /\ d.incident \in Actions
    BY <1>4, SaveGoes
  <2> HIDE DEF d
  <2>2. job'[j].stage # "suppress"
    BY <2>1 DEF Actions
  <2>3. QED
    BY <1>1, <1>4, <2>1, <2>2 DEF Process
<1>5. ASSUME NEW j \in Proc, DetectFlapping(j) PROVE Steady'
  <2>1. ~job'[j].flapping /\ job'[j].stage = "create"
    BY <1>5, NotFlapping DEF DetectFlapping, Become, Job
  <2>2. QED
    BY <1>1, <1>5, <2>1 DEF Process
<1>6. ASSUME NEW j \in Proc, NEW i \in Incident, OpenIncident(j, i) PROVE Steady'
  <2>1. ~job'[j].flapping /\ job'[j].stage = "tell"
    BY <1>6 DEF OpenIncident, Become, Job, Steady
  <2>2. QED
    BY <1>1, <1>6, <2>1 DEF Process
<1>7. ASSUME NEW j \in Proc, Load(j) \/ Probe(j) \/ Ping(j) \/ Evaluate(j) PROVE Steady'
  <2>1. ~job'[j].flapping /\ job'[j].stage # "suppress"
    <3>1. CASE Load(j)
      BY <3>1 DEF Load, Become, Job, IdleJob
    <3>2. CASE Probe(j)
      BY <3>2 DEF Probe, Become, Job, Steady
    <3>3. CASE Ping(j)
      BY <3>3 DEF Ping, Become, Job, IdleJob
    <3>4. CASE Evaluate(j)
      BY <3>4 DEF Evaluate, Become, Job, Steady
    <3>5. QED
      BY <1>7, <3>1, <3>2, <3>3, <3>4
  <2>2. QED
    BY <1>1, <1>7, <2>1 DEF Process
<1>8. ASSUME NEW j \in Proc, FindActive(j) \/ FindRelapsed(j) PROVE Steady'
  <2>1. ASSUME NEW i \in Incident, NEW stage \in {"close", "note"},
               Become(j, [job[j] EXCEPT !.stage = stage, !.held = i])
        PROVE  ~job'[j].flapping /\ job'[j].stage # "suppress"
    BY <2>1 DEF Become, Job, Steady
  <2>2. ~job'[j].flapping /\ job'[j].stage # "suppress"
    BY <1>2, <1>8, <2>1 DEF FindActive, FindRelapsed
  <2>3. QED
    BY <1>1, <1>8, <2>2 DEF Process
<1>9. ASSUME NEW j \in Proc,
             \/ Record(j) \/ OpenRefused(j) \/ SuppressAlert(j) \/ TellOpened(j)
             \/ StartEscalation(j) \/ IntegrateOpened(j) \/ ResolveIncident(j)
             \/ AnnounceResolved(j) \/ IntegrateResolved(j) \/ NoteRelapse(j)
      PROVE  Steady'
  <2>1. \/ Finish(j)
        \/ \E stage \in {"save", "escalate", "integrate", "announce", "announceIntegrations"} :
             Goto(j, stage)
    BY <1>9 DEF Record, OpenRefused, SuppressAlert, TellOpened, StartEscalation,
                IntegrateOpened, ResolveIncident, AnnounceResolved, IntegrateResolved,
                NoteRelapse
  <2>2. ~job'[j].flapping /\ job'[j].stage # "suppress"
    BY <1>2, <1>3, <2>1 DEF Stage
  <2>3. QED
    BY <1>1, <1>9, <2>2 DEF Process
<1>10. ASSUME UNCHANGED job PROVE Steady'
  BY <1>10 DEF Steady
<1>11. QED
  BY <1>4, <1>5, <1>6, <1>7, <1>8, <1>9, <1>10, StepsOfOthers
  DEF Process, Proc, Aside, Acknowledge, ResolveByHand, Pause, Resume


\* With one check at a time that never dies and never finds the monitor flapping, an
\* incident is announced by the check that created it before anything else; the end of
\* one is announced by the check that resolved it, which found it active.
RecoveryInv ==
  /\ \A i \in Incident :
       status[i] # "NONE" =>
         \/ notices[i]["alertOpened"] > 0
         \/ \E c \in Checker : job[c].stage = "tell" /\ job[c].held = i
  /\ \A i \in Incident :
       notices[i]["alertResolved"] > 0 => /\ status[i] = "RESOLVED"
                                          /\ notices[i]["alertOpened"] > 0
                                          /\ notices[i]["alertResolved"] = 1
  /\ \A c \in Checker :
       LET i == job[c].held
       IN  /\ job[c].stage \in {"close", "announce"}
                => i \in Incident /\ status[i] # "NONE" /\ notices[i]["alertResolved"] = 0
           /\ job[c].stage = "announce" => status[i] = "RESOLVED"

\* A step that tells nobody leaves the promise as it is.
LEMMA RecoveryQuiet ==
  ASSUME TypeOK, RecoveryInv, UNCHANGED notices,
         \A i \in Incident : /\ status[i] = "NONE" <=> status'[i] = "NONE"
                             /\ status[i] = "RESOLVED" => status'[i] = "RESOLVED",
         NEW j \in Proc, \A k \in Proc \ {j} : job'[k] = job[k],
         j \in Checker => job[j].stage # "tell",
         j \in Checker => job'[j].stage \notin {"close", "announce"}
  PROVE  RecoveryInv'
<1>1. \A i \in Incident : notices'[i] = notices[i]
  OBVIOUS
<1>2. Checker \subseteq Proc
  BY DEF Proc
<1>3. \A c \in Checker : c # j => job'[c] = job[c]
  BY <1>2
<1>4. \A c \in Checker : job[c].stage = "tell" => job'[c] = job[c]
  BY <1>3
<1>5. \A c \in Checker : job'[c].stage \in {"close", "announce"} => job'[c] = job[c]
  BY <1>3
<1>6. QED
  BY <1>1, <1>4, <1>5 DEF RecoveryInv

LEMMA RecoveryInvNext ==
  ASSUME MaxIncidents < FlapThreshold, MaxFaults = 0, "acknowledge" \notin ApiOps,
         \A b, c \in Checker : b = c,
         TypeOK, OpsInv, PingInv, Steady, RequestInv, TellInv, RecoveryInv, [Next]_vars
  PROVE  RecoveryInv'
<1> /\ job \in [Proc -> Job]
    /\ status \in [Incident -> IncidentStatus]
    /\ notices \in [Incident -> [Notice -> Nat]]
    /\ IdleJob \in Job /\ IdleJob.stage = "idle"
    /\ Checker \subseteq Proc
  BY IdleJobType DEF TypeOK, IdleJob, Proc
<1> DEFINE Kept == \A i \in Incident :
                     /\ status[i] = "NONE" <=> status'[i] = "NONE"
                     /\ status[i] = "RESOLVED" => status'[i] = "RESOLVED"
<1>m. \A i \in Incident : /\ status'[i] = "NONE" => status[i] = "NONE"
                          /\ status[i] = "RESOLVED" => status'[i] = "RESOLVED"
  BY StatusMoves
<1>1. ASSUME NEW j \in Proc, NEW i \in Incident, OpenIncident(j, i) PROVE RecoveryInv'
  <2>1. j \in Checker
    BY <1>1 DEF OpenIncident, PingInv, Proc
  <2>2. /\ job'[j].stage = "tell" /\ job'[j].held = i /\ UNCHANGED notices
        /\ status[i] = "NONE" /\ status' = [status EXCEPT ![i] = "OPEN"]
    BY <1>1 DEF OpenIncident, Become, Job, Steady, Fresh
  <2>3. \A c \in Checker : c = j
    BY <2>1
  <2>4. job[j].stage = "create"
    BY <1>1 DEF OpenIncident
  <2>5. notices[i]["alertResolved"] = 0
    BY <2>2 DEF RecoveryInv, Notice
  <2>6. \A k \in Incident : /\ notices'[k] = notices[k]
                            /\ k # i => status'[k] = status[k]
                            /\ k # i /\ status[k] # "NONE" => notices[k]["alertOpened"] > 0
    BY <2>2, <2>3, <2>4 DEF RecoveryInv
  <2>7. \A c \in Checker : job'[c].stage = "tell"
    BY <2>2, <2>3
  <2>8. QED
    BY <2>1, <2>2, <2>5, <2>6, <2>7 DEF RecoveryInv
<1>2. ASSUME NEW j \in Proc, TellOpened(j) PROVE RecoveryInv'
  <2>1. /\ j \in Checker
        /\ job[j].held \in Incident
    BY <1>2 DEF TellOpened, PingInv, Proc, TellInv, HeldInv, Telling
  <2>2. /\ UNCHANGED status /\ job[j].stage = "tell"
        /\ job'[j].stage \in {"escalate", "integrate"}
    BY <1>2 DEF TellOpened, Goto, Become, Job
  <2>3. \A c \in Checker : c = j
    BY <2>1
  <2>4. \A i \in Incident :
          /\ notices'[i]["alertResolved"] = notices[i]["alertResolved"]
          /\ notices[i]["alertOpened"] > 0 => notices'[i]["alertOpened"] > 0
          /\ i = job[j].held => notices'[i]["alertOpened"] > 0
    BY <1>2, <2>1 DEF TellOpened, Send, Notice
  <2>5. \A c \in Checker : job'[c].stage \notin {"close", "announce", "tell"}
    BY <2>2, <2>3
  <2>6. QED
    BY <2>2, <2>3, <2>4, <2>5 DEF RecoveryInv
<1>3. ASSUME NEW j \in Proc, FindActive(j) PROVE RecoveryInv'
  <2>1. UNCHANGED <<status, notices>> /\ job[j].stage = "resolve"
    BY <1>3 DEF FindActive, incidentVars
  <2>2. CASE j \notin Checker
    BY <1>3, <2>1, <2>2, OneMoves, RecoveryQuiet DEF Process
  <2>3. ASSUME j \in Checker, NEW i \in Incident, LatestActive(i),
               Become(j, [job[j] EXCEPT !.stage = "close", !.held = i])
        PROVE  RecoveryInv'
    <3>1. job'[j].stage = "close" /\ job'[j].held = i
      BY <2>3 DEF Become, Job
    <3>2. status[i] \in {"OPEN", "ACKNOWLEDGED"} /\ notices[i]["alertResolved"] = 0
      BY <2>3 DEF LatestActive, Active, RecoveryInv, Notice
    <3>3. \A c \in Checker : c = j
      BY <2>3
    <3>4. \A k \in Incident : /\ notices'[k] = notices[k] /\ status'[k] = status[k]
                              /\ status[k] # "NONE" => notices[k]["alertOpened"] > 0
      BY <2>1, <3>3 DEF RecoveryInv
    <3>5. \A c \in Checker : job'[c].stage = "close" /\ job'[c].held = i
      BY <3>1, <3>3
    <3>6. QED
      BY <3>2, <3>4, <3>5 DEF RecoveryInv
  <2>4. CASE Finish(j)
    <3>1. job'[j].stage = "idle"
      BY <2>4 DEF Finish, Become
    <3>2. QED
      BY <1>3, <2>1, <3>1, OneMoves, RecoveryQuiet DEF Process
  <2>5. QED
    BY <1>3, <2>2, <2>3, <2>4 DEF FindActive
<1>4. ASSUME NEW j \in Proc, ResolveIncident(j) PROVE RecoveryInv'
  <2>1. /\ job[j].stage = "close" /\ UNCHANGED notices
        /\ status' = [status EXCEPT ![job[j].held] = "RESOLVED"]
    BY <1>4 DEF ResolveIncident
  <2>2. job[j].held \in Incident /\ status[job[j].held] # "NONE"
    BY <2>1 DEF TellInv, HeldInv
  <2>3. Kept
    BY <2>1, <2>2, <1>m
  <2>4. CASE j \notin Checker
    BY <1>4, <2>1, <2>3, <2>4, OneMoves, RecoveryQuiet DEF Process
  <2>5. CASE j \in Checker
    <3>1. job'[j].stage = "announce" /\ job'[j].held = job[j].held
      BY <1>4, <2>5 DEF ResolveIncident, Goto, Become, Job
    <3>2. \A c \in Checker : c = j
      BY <2>5
    <3>3. \A k \in Incident : /\ notices'[k] = notices[k]
                              /\ status[k] # "NONE" => notices[k]["alertOpened"] > 0
      BY <2>1, <3>2 DEF RecoveryInv
    <3>4. notices[job[j].held]["alertResolved"] = 0
      BY <2>1, <2>5 DEF RecoveryInv
    <3>5. \A c \in Checker : job'[c].stage = "announce" /\ job'[c].held = job[j].held
      BY <3>1, <3>2
    <3>6. status'[job[j].held] = "RESOLVED"
      BY <2>1, <2>2
    <3>7. QED
      BY <2>2, <2>3, <3>3, <3>4, <3>5, <3>6 DEF RecoveryInv
  <2>6. QED
    BY <2>4, <2>5
<1>5. ASSUME NEW j \in Proc, AnnounceResolved(j) PROVE RecoveryInv'
  <2>1. /\ j \in Checker
        /\ job[j].stage = "announce"
        /\ UNCHANGED status
    BY <1>5 DEF AnnounceResolved, PingInv, Proc
  <2>2. /\ job[j].held \in Incident
        /\ status[job[j].held] = "RESOLVED"
        /\ notices[job[j].held]["alertResolved"] = 0
    BY <2>1 DEF RecoveryInv
  <2>3. \A c \in Checker : c = j
    BY <2>1
  <2>4. job'[j].stage = "announceIntegrations"
    BY <1>5 DEF AnnounceResolved, Goto, Become, Job
  <2>5. \A k \in Incident : status[k] # "NONE" => notices[k]["alertOpened"] > 0
    BY <2>1, <2>3 DEF RecoveryInv
  <2>6. \A k \in Incident :
          /\ notices'[k]["alertOpened"] = notices[k]["alertOpened"]
          /\ notices'[k]["alertResolved"] =
               IF k = job[j].held THEN 1 ELSE notices[k]["alertResolved"]
    BY <1>5, <2>2 DEF AnnounceResolved, Send, Notice
  <2>7. \A c \in Checker : job'[c].stage = "announceIntegrations"
    BY <2>3, <2>4
  <2>8. QED
    BY <2>1, <2>2, <2>5, <2>6, <2>7 DEF RecoveryInv
<1>6. ASSUME NEW j \in Proc, StartEscalation(j) \/ IntegrateOpened(j) \/ IntegrateResolved(j)
      PROVE  RecoveryInv'
  <2>1. /\ UNCHANGED status
        /\ job[j].stage \in {"escalate", "integrate", "announceIntegrations"}
    BY <1>6 DEF StartEscalation, IntegrateOpened, IntegrateResolved
  <2>2. j \in Checker
    BY <2>1 DEF PingInv, Proc
  <2>3. \A c \in Checker : c = j
    BY <2>2
  <2>4. job'[j].stage \in {"integrate", "idle"}
    BY <1>6 DEF StartEscalation, IntegrateOpened, IntegrateResolved, Goto, Finish, Become, Job
  <2>5. \A k \in Incident :
          /\ notices'[k]["alertOpened"] = notices[k]["alertOpened"]
          /\ notices'[k]["alertResolved"] = notices[k]["alertResolved"]
    BY <1>6 DEF StartEscalation, IntegrateOpened, IntegrateResolved, Send, Notice
  <2>6. \A c \in Checker : /\ job[c].stage # "tell"
                           /\ job'[c].stage \notin {"close", "announce"}
    BY <2>1, <2>3, <2>4
  <2>7. QED
    BY <2>1, <2>5, <2>6 DEF RecoveryInv
<1>7. ASSUME NEW j \in Proc,
             \/ Load(j) \/ Probe(j) \/ Ping(j) \/ Evaluate(j) \/ Record(j) \/ Save(j)
             \/ DetectFlapping(j) \/ OpenRefused(j) \/ SuppressAlert(j)
             \/ FindRelapsed(j) \/ NoteRelapse(j)
      PROVE  RecoveryInv'
  <2>1. UNCHANGED <<status, notices>> /\ job[j].stage # "tell"
    BY <1>7 DEF Load, Probe, Ping, Evaluate, Record, Save, DetectFlapping, OpenRefused,
                SuppressAlert, FindRelapsed, NoteRelapse, incidentVars
  <2>2. job'[j].stage \notin {"close", "announce"}
    <3>1. CASE Save(j)
      <4> DEFINE d == Transition(job[j].row, job[j].success, job[j].maint)
      <4>1. /\ job'[j].stage = IF d.incident = "none" THEN "idle" ELSE d.incident
            /\ d.incident \in Actions
        BY <3>1, SaveGoes
      <4> HIDE DEF d
      <4>2. QED
        BY <4>1 DEF Actions
    <3>2. CASE Load(j)
      BY <3>2 DEF Load, Become, IdleJob
    <3>10. CASE Ping(j)
      BY <3>10 DEF Ping, Become, IdleJob
    <3>3. CASE Probe(j)
      BY <3>3 DEF Probe, Become, Job
    <3>9. CASE Evaluate(j)
      BY <3>9 DEF Evaluate, Become, Job
    <3>4. CASE Record(j)
      BY <3>4 DEF Record, Goto, Become, Job
    <3>5. CASE DetectFlapping(j)
      BY <3>5 DEF DetectFlapping, Become, Job
    <3>6. CASE OpenRefused(j) \/ SuppressAlert(j) \/ NoteRelapse(j)
      BY <3>6 DEF OpenRefused, SuppressAlert, NoteRelapse, Finish, Become
    <3>7. CASE FindRelapsed(j)
      <4>1. ASSUME NEW i \in Incident, Become(j, [job[j] EXCEPT !.stage = "note", !.held = i])
            PROVE  job'[j].stage \notin {"close", "announce"}
        BY <4>1 DEF Become, Job
      <4>2. CASE Finish(j)
        BY <4>2 DEF Finish, Become
      <4>3. QED
        BY <3>7, <4>1, <4>2 DEF FindRelapsed
    <3>8. QED
      BY <1>7, <3>1, <3>2, <3>3, <3>4, <3>5, <3>6, <3>7, <3>9, <3>10
  <2>3. QED
    BY <1>7, <2>1, <2>2, OneMoves, RecoveryQuiet DEF Process
<1>8. ASSUME UNCHANGED <<job, notices>>, Kept PROVE RecoveryInv'
  BY <1>8 DEF RecoveryInv
<1>9. ASSUME NEW r \in Request, ResolveByHand(r) PROVE RecoveryInv'
  <2>1. request[r].on \in Incident /\ status[request[r].on] # "NONE"
    BY <1>9 DEF ResolveByHand, Asked, RequestInv
  <2>2. Kept /\ UNCHANGED <<job, notices>>
    BY <1>9, <1>m, <2>1 DEF ResolveByHand
  <2>3. QED
    BY <1>8, <2>2
<1>10. CASE (\E r \in Request : Pause(r) \/ Resume(r)) \/ Aside
  BY <1>8, <1>10 DEF Pause, Resume, Aside, incidentVars
<1>11. QED
  BY <1>1, <1>2, <1>3, <1>4, <1>5, <1>6, <1>7, <1>9, <1>10, StepsOfOthers DEF Process, Proc

\* With one check at a time, nobody who acknowledges and no flapping, a recovery is told
\* once and only of an outage that was told, however pings, requests by hand, pauses and
\* edits come in between.
THEOREM RecoveryHonest ==
  ASSUME \A b, c \in Checker : b = c, "acknowledge" \notin ApiOps,
         MaxIncidents < FlapThreshold, MaxFaults = 0
  PROVE  Spec => []HonestRecovery
<1>1. Init => RecoveryInv /\ Steady
  <2>1. Checker \subseteq Proc
    BY DEF Proc
  <2>2. QED
    BY <2>1 DEF Init, RecoveryInv, Steady, IdleJob, Notice
<1>2. TypeOK /\ RecoveryInv => HonestRecovery
  BY DEF TypeOK, RecoveryInv, HonestRecovery, Notice
<1>3. TypeOK /\ OpsInv /\ [Next]_vars => OpsInv'
  BY OpsInvNext
<1>4. TypeOK /\ OpsInv /\ PingInv /\ [Next]_vars => PingInv'
  BY PingInvNext
<1>5. TypeOK /\ OpsInv /\ Steady /\ [Next]_vars => Steady'
  BY SteadyNext
<1>6. TypeOK /\ RequestInv /\ [Next]_vars => RequestInv'
  BY RequestInvNext
<1>7. TypeOK /\ OpsInv /\ PingInv /\ Steady /\ RequestInv /\ TellInv /\ RecoveryInv
        /\ [Next]_vars => RecoveryInv'
  BY RecoveryInvNext
<1>8. QED
  BY <1>1, <1>2, <1>3, <1>4, <1>5, <1>6, <1>7, OpsInvInit, PingInvInit, RequestInvInit,
     TellInvariance, TypeCorrect, PTL DEF Spec


-----------------------------------------------------------------------------
(* One check at a time of a probed monitor *)

Alone == ~Heartbeat /\ MaxFaults = 0 /\ \A b, c \in Checker : b = c

AnyActive == \E i \in Incident : Active(i)

\* The health agrees with the incidents.
Matching ==
  /\ mon.health \in Failing => AnyActive
  /\ mon.health \in {"PENDING", "UP"} => ~AnyActive

\* What the health and the incidents are at each await of a check: they part when the
\* row is saved, and meet again before the check is done.
OnItsWay(c) ==
  /\ job[c].stage \in {"idle", "probe", "evaluate", "record", "save"} => Matching
  /\ job[c].stage \in {"probe", "evaluate", "record", "save"}
       => job[c].row.health = mon.health
  /\ job[c].stage \in {"open", "create"} => mon.health = "DOWN"
  /\ job[c].stage \in Telling \cup {"relapse", "note"} => mon.health = "DOWN" /\ AnyActive
  /\ job[c].stage \in {"resolve", "close"} => mon.health = "UP"
  /\ job[c].stage = "close" => job[c].held \in Incident /\ Active(job[c].held)
  /\ job[c].stage \in {"announce", "announceIntegrations"}
       => mon.health = "UP" /\ ~AnyActive

HealthInv ==
  /\ mon.health # "PAUSED"
  /\ Checker = {} => Matching
  /\ \A c \in Checker : OnItsWay(c)

\* transition(): what the answer says of the health before and after.
LEMMA HealthDecides ==
  ASSUME NEW s \in MonitorRow, s.health # "PAUSED", NEW success \in BOOLEAN,
         NEW inMaintenance \in BOOLEAN
  PROVE  LET d == Transition(s, success, inMaintenance)
         IN  /\ d.health # "PAUSED"
             /\ d.incident = "open" => d.health = "DOWN"
             /\ d.incident = "resolve" => d.health = "UP"
             /\ d.incident = "relapse" => d.health = "DOWN" /\ s.health \in Failing
             /\ d.incident = "none"
                  => /\ d.health \in Failing => s.health \in Failing
                     /\ d.health \in {"PENDING", "UP"} => s.health \in {"PENDING", "UP"}
<1> DEFINE failing   == Count(s.fails, ~success) >= s.failThr
           passing   == Count(s.oks, success) >= s.okThr
           next      == NextHealth(s.health, success, failing, passing, inMaintenance)
<1>1. s.health \in CanonicalHealth /\ Normalize(s.health) = s.health
  BY DEF MonitorRow, MonitorHealth, Normalize
<1>2. /\ Transition(s, success, inMaintenance).health = next
      /\ Transition(s, success, inMaintenance).incident = IncidentAction(s.health, next)
  BY <1>1 DEF Transition
<1> HIDE DEF failing, passing
<1>3. /\ next \in CanonicalHealth
      /\ next \in Failing => s.health \in Failing \/ next = "DOWN"
      /\ next = "PENDING" => s.health = "PENDING"
  BY <1>1 DEF NextHealth, CanonicalHealth, Failing
<1> HIDE DEF next
<1>4. QED
  BY <1>1, <1>2, <1>3 DEF IncidentAction, CanonicalHealth, Failing

\* With one check at a time, what is to be kept is what is to be kept of that check.
LEMMA HealthKept ==
  ASSUME Alone, NEW c \in Checker, (mon.health # "PAUSED")', OnItsWay(c)'
  PROVE  HealthInv'
BY DEF Alone, HealthInv

LEMMA OnlyActive ==
  ASSUME KeyInv, RequestInv
  PROVE  \A i, k \in Incident : Active(i) /\ Active(k) => i = k
BY DEF KeyInv, RequestInv, Active

LEMMA HealthInvNext ==
  ASSUME Alone, ApiOps \subseteq {"update", "remove"},
         TypeOK, OpsInv, PingInv, KeyInv, RequestInv, TellInv, HealthInv, [Next]_vars
  PROVE  HealthInv'
<1> /\ job \in [Proc -> Job]
    /\ mon \in MonitorRow
    /\ status \in [Incident -> IncidentStatus]
    /\ IdleJob \in Job /\ IdleJob.stage = "idle"
    /\ Checker \subseteq Proc
    /\ MaxFaults = 0
  BY IdleJobType DEF TypeOK, IdleJob, Proc, Alone
<1>1. ASSUME NEW j \in Proc, Process(j)
      PROVE  j \in Checker /\ OnItsWay(j) /\ mon.health # "PAUSED"
  <2>1. job[j].stage # "idle"
    BY <1>1
    DEF Process, Evaluate, Record, Save, DetectFlapping, OpenRefused,
        OpenIncident, SuppressAlert, TellOpened, StartEscalation, IntegrateOpened,
        FindActive, ResolveIncident, AnnounceResolved, IntegrateResolved, FindRelapsed,
        NoteRelapse
  <2>2. QED
    BY <2>1 DEF PingInv, Proc, HealthInv, Alone
<1>2. ASSUME NEW j \in Checker, OnItsWay(j), mon.health # "PAUSED", UNCHANGED status,
             mon'.health = mon.health,
             \/ /\ job[j].stage \in {"idle", "probe", "evaluate", "record", "save"}
                /\ job'[j].stage \in {"probe", "evaluate", "record", "save"}
                /\ job'[j].row.health = mon.health
             \/ /\ job[j].stage = "open" /\ job'[j].stage = "create"
             \/ /\ job[j].stage \in Telling \cup {"relapse", "note"}
                /\ job'[j].stage \in Telling \cup {"idle"}
             \/ /\ job[j].stage \in {"announce", "announceIntegrations"}
                /\ job'[j].stage \in {"announceIntegrations", "idle"}
      PROVE  HealthInv'
  <2>1. AnyActive' <=> AnyActive
    BY <1>2 DEF AnyActive, Active
  <2>2. OnItsWay(j)'
    BY <1>2, <2>1 DEF OnItsWay, Matching, Failing, Telling
  <2>3. QED
    BY <1>2, <2>2, HealthKept
<1>3. ASSUME NEW j \in Checker, Load(j) PROVE HealthInv'
  <2>1. /\ job[j].stage = "idle" /\ job'[j].stage = "probe" /\ job'[j].row = mon
        /\ UNCHANGED <<status, mon>>
    BY <1>3 DEF Load, Become, Job, IdleJob, rowVars, incidentVars
  <2>2. QED
    BY <1>2, <2>1 DEF HealthInv
<1>4. ASSUME NEW j \in Checker, Probe(j) PROVE HealthInv'
  <2>1. /\ job[j].stage = "probe" /\ job'[j].stage = "evaluate" /\ job'[j].row = job[j].row
        /\ UNCHANGED <<status, mon>>
    BY <1>4 DEF Probe, Become, Job, rowVars, incidentVars
  <2>2. OnItsWay(j) /\ mon.health # "PAUSED" /\ job[j].row.health = mon.health
    BY <2>1 DEF HealthInv, OnItsWay
  <2>3. QED
    BY <1>2, <2>1, <2>2
<1>5. ASSUME NEW j \in Proc, Evaluate(j) PROVE HealthInv'
  <2>1. /\ job[j].stage = "evaluate" /\ job'[j].stage = "record"
        /\ job'[j].row = job[j].row /\ UNCHANGED <<status, mon>>
    BY <1>5 DEF Evaluate, Become, Job, rowVars, incidentVars
  <2>2. j \in Checker /\ OnItsWay(j) /\ mon.health # "PAUSED"
    BY <1>1, <1>5 DEF Process
  <2>3. job[j].row.health = mon.health
    BY <2>1, <2>2 DEF OnItsWay
  <2>4. QED
    BY <1>2, <2>1, <2>2, <2>3
<1>6. ASSUME NEW j \in Proc, Record(j) PROVE HealthInv'
  <2>1. /\ job[j].stage = "record" /\ job'[j].stage = "save"
        /\ job'[j].row = job[j].row /\ UNCHANGED <<status, mon>>
    BY <1>6 DEF Record, Goto, Become, Job, incidentVars
  <2>2. j \in Checker /\ OnItsWay(j) /\ mon.health # "PAUSED"
    BY <1>1, <1>6 DEF Process
  <2>3. job[j].row.health = mon.health
    BY <2>1, <2>2 DEF OnItsWay
  <2>4. QED
    BY <1>2, <2>1, <2>2, <2>3
<1>7. ASSUME NEW j \in Proc, Save(j) PROVE HealthInv'
  <2> DEFINE d == Transition(job[j].row, job[j].success, job[j].maint)
  <2>1. j \in Checker /\ OnItsWay(j) /\ mon.health # "PAUSED"
    BY <1>1, <1>7 DEF Process
  <2>2. /\ job[j].stage = "save" /\ d.incident \in Actions /\ mon'.health = d.health
        /\ job'[j].stage = IF d.incident = "none" THEN "idle" ELSE d.incident
        /\ UNCHANGED status
    BY <1>7, SaveGoes
  <2>3. job[j].row.health = mon.health /\ Matching
    BY <2>1, <2>2 DEF OnItsWay
  <2>4. /\ job[j].row \in MonitorRow /\ job[j].success \in BOOLEAN /\ job[j].maint \in BOOLEAN
    BY DEF Job
  <2>5. /\ d.health # "PAUSED"
        /\ d.incident = "open" => d.health = "DOWN"
        /\ d.incident = "resolve" => d.health = "UP"
        /\ d.incident = "relapse" => d.health = "DOWN" /\ mon.health \in Failing
        /\ d.incident = "none"
             => /\ d.health \in Failing => mon.health \in Failing
                /\ d.health \in {"PENDING", "UP"} => mon.health \in {"PENDING", "UP"}
    BY <2>1, <2>3, <2>4, HealthDecides
  <2> HIDE DEF d
  <2>6. AnyActive' <=> AnyActive
    BY <2>2 DEF AnyActive, Active
  <2>7. OnItsWay(j)'
    <3>1. CASE d.incident = "none"
      BY <2>2, <2>3, <2>5, <2>6, <3>1 DEF OnItsWay, Matching, Telling
    <3>2. CASE d.incident \in {"open", "resolve"}
      BY <2>2, <2>5, <3>2 DEF OnItsWay, Telling
    <3>3. CASE d.incident = "relapse"
      BY <2>2, <2>3, <2>5, <2>6, <3>3 DEF OnItsWay, Matching, Telling
    <3>4. QED
      BY <2>2, <3>1, <3>2, <3>3 DEF Actions
  <2>8. QED
    BY <2>1, <2>2, <2>5, <2>7, HealthKept
<1>8. ASSUME NEW j \in Proc, DetectFlapping(j) PROVE HealthInv'
  <2>1. /\ job[j].stage = "open" /\ job'[j].stage = "create" /\ UNCHANGED <<status, mon>>
    BY <1>8 DEF DetectFlapping, Become, Job, rowVars, incidentVars
  <2>2. QED
    BY <1>1, <1>2, <1>8, <2>1 DEF Process
<1>9. ASSUME NEW j \in Proc, OpenRefused(j) PROVE HealthInv'
  <2>1. /\ job[j].stage = "create" /\ job'[j].stage = "idle" /\ UNCHANGED <<status, mon>>
        /\ keyed # {}
    BY <1>9 DEF OpenRefused, Finish, Become, rowVars, incidentVars
  <2>2. j \in Checker /\ OnItsWay(j) /\ mon.health # "PAUSED"
    BY <1>1, <1>9 DEF Process
  <2>3. mon.health = "DOWN"
    BY <2>1, <2>2 DEF OnItsWay
  <2>4. AnyActive'
    BY <2>1 DEF KeyInv, KeyIsFreed, AnyActive, Active, TypeOK
  <2>5. OnItsWay(j)'
    BY <2>1, <2>3, <2>4 DEF OnItsWay, Matching, Telling
  <2>6. QED
    BY <2>1, <2>2, <2>5, HealthKept
<1>10. ASSUME NEW j \in Proc, NEW i \in Incident, OpenIncident(j, i) PROVE HealthInv'
  <2>1. /\ job[j].stage = "create" /\ job'[j].stage \in {"suppress", "tell"} /\ UNCHANGED mon
        /\ status' = [status EXCEPT ![i] = "OPEN"]
    BY <1>10 DEF OpenIncident, Become, Job, rowVars
  <2>2. j \in Checker /\ OnItsWay(j) /\ mon.health # "PAUSED"
    BY <1>1, <1>10 DEF Process
  <2>3. mon.health = "DOWN"
    BY <2>1, <2>2 DEF OnItsWay
  <2>4. AnyActive'
    BY <2>1 DEF AnyActive, Active
  <2>5. OnItsWay(j)'
    BY <2>1, <2>3, <2>4 DEF OnItsWay, Telling
  <2>6. QED
    BY <2>1, <2>2, <2>5, HealthKept
<1>11. ASSUME NEW j \in Proc,
              \/ SuppressAlert(j) \/ TellOpened(j) \/ StartEscalation(j)
              \/ IntegrateOpened(j) \/ NoteRelapse(j)
       PROVE  HealthInv'
  <2>1. /\ job[j].stage \in Telling \cup {"note"}
        /\ job'[j].stage \in {"idle", "escalate", "integrate"}
        /\ UNCHANGED <<status, mon>>
    BY <1>11 DEF SuppressAlert, TellOpened, StartEscalation, IntegrateOpened, NoteRelapse,
                 Goto, Finish, Become, Job, Telling, rowVars
  <2>2. QED
    BY <1>1, <1>2, <1>11, <2>1 DEF Process, Telling
<1>12. ASSUME NEW j \in Proc, AnnounceResolved(j) \/ IntegrateResolved(j) PROVE HealthInv'
  <2>1. /\ job[j].stage \in {"announce", "announceIntegrations"}
        /\ job'[j].stage \in {"idle", "announceIntegrations"}
        /\ UNCHANGED <<status, mon>>
    BY <1>12 DEF AnnounceResolved, IntegrateResolved, Goto, Finish, Become, Job, rowVars
  <2>2. QED
    BY <1>1, <1>2, <1>12, <2>1 DEF Process
<1>13. ASSUME NEW j \in Proc, FindActive(j) PROVE HealthInv'
  <2>1. job[j].stage = "resolve" /\ UNCHANGED <<status, mon>>
    BY <1>13 DEF FindActive, rowVars, incidentVars
  <2>2. j \in Checker /\ OnItsWay(j) /\ mon.health # "PAUSED"
    BY <1>1, <1>13 DEF Process
  <2>3. mon.health = "UP"
    BY <2>1, <2>2 DEF OnItsWay
  <2>4. ASSUME NEW i \in Incident, LatestActive(i),
               Become(j, [job[j] EXCEPT !.stage = "close", !.held = i])
        PROVE  OnItsWay(j)'
    <3>1. job'[j].stage = "close" /\ job'[j].held = i
      BY <2>4 DEF Become, Job
    <3>2. QED
      BY <2>1, <2>3, <2>4, <3>1 DEF OnItsWay, LatestActive, Active, Telling
  <2>5. ASSUME Finish(j), \A i \in Incident : ~Active(i) PROVE OnItsWay(j)'
    <3>1. job'[j].stage = "idle"
      BY <2>5 DEF Finish, Become
    <3>2. ~AnyActive'
      BY <2>1, <2>5 DEF AnyActive, Active
    <3>3. QED
      BY <2>1, <2>3, <3>1, <3>2 DEF OnItsWay, Matching, Failing, Telling
  <2>6. OnItsWay(j)'
    BY <1>13, <2>4, <2>5 DEF FindActive
  <2>7. QED
    BY <2>1, <2>2, <2>6, HealthKept
<1>14. ASSUME NEW j \in Proc, ResolveIncident(j) PROVE HealthInv'
  <2>1. j \in Checker /\ OnItsWay(j) /\ mon.health # "PAUSED"
    BY <1>1, <1>14 DEF Process
  <2>2. /\ job[j].stage = "close" /\ UNCHANGED mon
        /\ job'[j].stage = "announce"
        /\ status' = [status EXCEPT ![job[j].held] = "RESOLVED"]
    BY <1>14, <2>1 DEF ResolveIncident, Goto, Become, Job, rowVars
  <2>3. mon.health = "UP" /\ job[j].held \in Incident /\ Active(job[j].held)
    BY <2>1, <2>2 DEF OnItsWay
  <2>4. ~AnyActive'
    BY <2>2, <2>3, OnlyActive DEF AnyActive, Active
  <2>5. OnItsWay(j)'
    BY <2>2, <2>3, <2>4 DEF OnItsWay, Telling
  <2>6. QED
    BY <2>1, <2>2, <2>5, HealthKept
<1>15. ASSUME NEW j \in Proc, FindRelapsed(j) PROVE HealthInv'
  <2>1. job[j].stage = "relapse" /\ UNCHANGED <<status, mon>>
    BY <1>15 DEF FindRelapsed, rowVars, incidentVars
  <2>2. j \in Checker /\ OnItsWay(j) /\ mon.health # "PAUSED"
    BY <1>1, <1>15 DEF Process
  <2>3. mon.health = "DOWN" /\ AnyActive
    BY <2>1, <2>2 DEF OnItsWay
  <2>4. AnyActive'
    BY <2>1, <2>3 DEF AnyActive, Active
  <2>5. ASSUME NEW i \in Incident, Become(j, [job[j] EXCEPT !.stage = "note", !.held = i])
        PROVE  job'[j].stage = "note"
    BY <2>5 DEF Become, Job
  <2>6. job'[j].stage = "note"
    BY <1>15, <2>3, <2>5 DEF FindRelapsed, AnyActive
  <2>7. OnItsWay(j)'
    BY <2>1, <2>3, <2>4, <2>6 DEF OnItsWay, Telling
  <2>8. QED
    BY <2>1, <2>2, <2>7, HealthKept
<1>16. CASE Aside
  <2>1. AnyActive' <=> AnyActive
    BY <1>16 DEF Aside, AnyActive, Active
  <2>2. Matching' <=> Matching
    BY <1>16, <2>1 DEF Aside, Matching
  <2>3. \A c \in Checker : OnItsWay(c) => OnItsWay(c)'
    BY <1>16, <2>1, <2>2 DEF Aside, OnItsWay, Active
  <2>4. QED
    BY <1>16, <2>2, <2>3 DEF Aside, HealthInv
<1>17. \A p \in Pinger : ~Ping(p)
  BY DEF Ping, Alone
<1>18. QED
  BY <1>3, <1>4, <1>5, <1>6, <1>7, <1>8, <1>9, <1>10, <1>11, <1>12, <1>13, <1>14, <1>15,
     <1>16, <1>17, StepsOfOthers DEF Process

\* One check at a time keeps the denormalized health of a probed monitor and its
\* incidents in agreement, whatever its thresholds and windows are and however they are
\* edited: a failing monitor has an incident to show for it, a passing one none.
THEOREM HealthMatches ==
  ASSUME ~Heartbeat, \A b, c \in Checker : b = c, ApiOps \subseteq {"update", "remove"},
         MaxFaults = 0
  PROVE  Spec => []HealthMatchesIncidents
<1> Alone /\ "acknowledge" \notin ApiOps
  BY DEF Alone
<1>1. Init => HealthInv
  <2>1. Checker \subseteq Proc
    BY DEF Proc
  <2>2. QED
    BY <2>1 DEF Init, HealthInv, OnItsWay, Matching, AnyActive, Active, IdleJob, NewRow,
                Failing, Telling
<1>2. HealthInv => HealthMatchesIncidents
  BY DEF HealthInv, OnItsWay, Matching, AnyActive, HealthMatchesIncidents, AllIdle, Proc
<1>3. TypeOK /\ OpsInv /\ [Next]_vars => OpsInv'
  BY OpsInvNext
<1>4. TypeOK /\ OpsInv /\ PingInv /\ [Next]_vars => PingInv'
  BY PingInvNext
<1>5. TypeOK /\ RequestInv /\ [Next]_vars => RequestInv'
  BY RequestInvNext
<1>6. TypeOK /\ OpsInv /\ PingInv /\ KeyInv /\ RequestInv /\ TellInv /\ HealthInv
        /\ [Next]_vars => HealthInv'
  BY HealthInvNext
<1>7. QED
  BY <1>1, <1>2, <1>3, <1>4, <1>5, <1>6, OpsInvInit, PingInvInit, RequestInvInit,
     KeyInvariance, TellInvariance, TypeCorrect, PTL DEF Spec

-----------------------------------------------------------------------------
(* A blip *)

\* The failures a check has counted, or is about to count, are behind each other at the
\* end of check_results: between its result and its row alone may the row count more.
BlipAt(c) ==
  /\ job[c].stage # "save" => mon.fails <= badRun
  /\ job[c].stage \in {"probe", "evaluate", "record"} => job[c].row.fails <= badRun
  /\ job[c].stage = "save" => Count(job[c].row.fails, ~job[c].success) <= badRun

BlipInv == /\ Checker = {} => mon.fails <= badRun
           /\ \A c \in Checker : BlipAt(c)

\* transition(): an incident is opened on a confirmed failure only.
LEMMA OpenIsConfirmed ==
  ASSUME NEW s \in MonitorRow, NEW success \in BOOLEAN, NEW inMaintenance \in BOOLEAN,
         Transition(s, success, inMaintenance).incident = "open"
  PROVE  Count(s.fails, ~success) >= s.failThr
<1> DEFINE failing == Count(s.fails, ~success) >= s.failThr
           passing == Count(s.oks, success) >= s.okThr
           prev    == Normalize(s.health)
           next    == NextHealth(prev, success, failing, passing, inMaintenance)
<1>1. IncidentAction(prev, next) = "open"
  BY DEF Transition
<1> HIDE DEF failing, passing
<1>2. next = "DOWN" /\ prev \notin Failing
  <2> HIDE DEF prev, next
  <2>1. QED
    BY <1>1 DEF IncidentAction
<1>3. failing
  <2> HIDE DEF prev
  <2>1. QED
    BY <1>2 DEF NextHealth, Failing
<1>4. QED
  BY <1>3 DEF failing

\* With one check at a time, what is to be kept is what is to be kept of that check.
LEMMA BlipKept ==
  ASSUME Alone, NEW c \in Checker, BlipAt(c)'
  PROVE  BlipInv'
BY DEF Alone, BlipInv

LEMMA BlipInvNext ==
  ASSUME Alone, CounterCap <= Lookback, TypeOK, OpsInv, PingInv, BlipInv, [Next]_vars
  PROVE  BlipInv'
<1> /\ job \in [Proc -> Job]
    /\ mon \in MonitorRow
    /\ badRun \in 0 .. Lookback /\ Lookback \in Nat
    /\ Checker \subseteq Proc
    /\ MaxFaults = 0
  BY PipelineAssumption DEF TypeOK, Proc, Alone
<1>1. ASSUME NEW j \in Proc, Process(j)
      PROVE  j \in Checker /\ BlipAt(j)
  <2>1. job[j].stage # "idle"
    BY <1>1
    DEF Process, Evaluate, Record, Save, DetectFlapping, OpenRefused,
        OpenIncident, SuppressAlert, TellOpened, StartEscalation, IntegrateOpened,
        FindActive, ResolveIncident, AnnounceResolved, IntegrateResolved, FindRelapsed,
        NoteRelapse
  <2>2. QED
    BY <2>1 DEF PingInv, Proc, BlipInv, Alone
<1>2. ASSUME NEW j \in Checker, BlipAt(j), UNCHANGED <<mon, badRun>>, job[j].stage # "save",
             job'[j].stage # "save",
             job'[j].stage \in {"probe", "evaluate", "record"}
               => job'[j].row \in {job[j].row, mon},
             job'[j].stage \in {"probe", "evaluate", "record"} /\ job'[j].row = job[j].row
               => job'[j].row = mon \/ job[j].stage \in {"probe", "evaluate", "record"}
      PROVE  BlipInv'
  <2>1. BlipAt(j)'
    BY <1>2 DEF BlipAt
  <2>2. QED
    BY <2>1, BlipKept
<1>3. ASSUME NEW j \in Checker, Load(j) PROVE BlipInv'
  <2>1. /\ job[j].stage = "idle" /\ job'[j].stage = "probe" /\ job'[j].row = mon
        /\ UNCHANGED <<mon, badRun>>
    BY <1>3 DEF Load, Become, Job, IdleJob, rowVars
  <2>2. QED
    BY <1>2, <2>1 DEF BlipInv
<1>4. ASSUME NEW j \in Checker, Probe(j) PROVE BlipInv'
  <2>1. /\ job[j].stage = "probe" /\ job'[j].stage = "evaluate" /\ job'[j].row = job[j].row
        /\ UNCHANGED <<mon, badRun>>
    BY <1>4 DEF Probe, Become, Job, rowVars
  <2>2. QED
    BY <1>2, <2>1 DEF BlipInv
<1>5. ASSUME NEW j \in Proc, Evaluate(j) PROVE BlipInv'
  <2>1. /\ job[j].stage = "evaluate" /\ job'[j].stage = "record" /\ job'[j].row = job[j].row
        /\ UNCHANGED <<mon, badRun>>
    BY <1>5 DEF Evaluate, Become, Job, rowVars
  <2>2. QED
    BY <1>1, <1>2, <1>5, <2>1 DEF Process
<1>6. ASSUME NEW j \in Proc, Record(j) PROVE BlipInv'
  <2>1. /\ job[j].stage = "record" /\ job'[j].stage = "save"
        /\ job'[j].row = job[j].row /\ job'[j].success = job[j].success
        /\ badRun' = IF job[j].success THEN 0
                     ELSE IF badRun < Lookback THEN badRun + 1 ELSE badRun
    BY <1>6 DEF Record, Goto, Become, Job
  <2>2. j \in Checker /\ BlipAt(j)
    BY <1>1, <1>6 DEF Process
  <2>3. /\ job[j].row.fails <= badRun /\ job[j].row.fails \in Nat
        /\ job[j].success \in BOOLEAN /\ CounterCap \in Nat
    BY <2>1, <2>2, CounterCapAssumption DEF BlipAt, Job, MonitorRow, Counter
  <2>4. Count(job[j].row.fails, ~job[j].success) <= badRun'
    <3>1. CASE job[j].success
      BY <2>1, <3>1 DEF Count
    <3>2. CASE ~job[j].success
      BY <2>1, <2>3, <3>2 DEF Count
    <3>3. QED
      BY <2>3, <3>1, <3>2
  <2>5. BlipAt(j)'
    BY <2>1, <2>4 DEF BlipAt
  <2>6. QED
    BY <2>2, <2>5, BlipKept
<1>7. ASSUME NEW j \in Proc, Save(j) PROVE BlipInv'
  <2>1. j \in Checker /\ BlipAt(j)
    BY <1>1, <1>7 DEF Process
  <2>2. /\ job[j].stage = "save" /\ UNCHANGED badRun
        /\ mon'.fails = Count(job[j].row.fails, ~job[j].success)
        /\ job'[j].stage \in Actions \cup {"idle"}
    BY <1>7, SaveGoes DEF Transition
  <2>3. BlipAt(j)'
    BY <2>1, <2>2 DEF BlipAt, Actions
  <2>4. QED
    BY <2>1, <2>3, BlipKept
<1>8. ASSUME NEW j \in Proc,
             \/ DetectFlapping(j) \/ OpenRefused(j) \/ SuppressAlert(j) \/ TellOpened(j)
             \/ StartEscalation(j) \/ IntegrateOpened(j) \/ FindActive(j)
             \/ ResolveIncident(j) \/ AnnounceResolved(j) \/ IntegrateResolved(j)
             \/ FindRelapsed(j) \/ NoteRelapse(j)
             \/ \E i \in Incident : OpenIncident(j, i)
      PROVE  BlipInv'
  <2>1. Process(j)
    BY <1>8 DEF Process
  <2>2. IdleJob \in Job /\ IdleJob.stage = "idle"
    BY IdleJobType DEF IdleJob
  <2>3. /\ job[j].stage # "save" /\ UNCHANGED <<mon, badRun>>
        /\ job'[j].stage \notin {"save", "probe", "evaluate", "record"}
    <3> /\ job[j] \in Job
        /\ \A new : Become(j, new) => job'[j] = new
      BY BecomeAt
    <3>1. ASSUME NEW s, Goto(j, s) PROVE job'[j].stage = s
      BY <3>1 DEF Goto, Job
    <3>2. ASSUME Finish(j) PROVE job'[j].stage = "idle"
      BY <2>2, <3>2 DEF Finish
    <3>3. CASE DetectFlapping(j) \/ \E i \in Incident : OpenIncident(j, i)
      BY <3>3 DEF DetectFlapping, OpenIncident, Job, rowVars
    <3>4. CASE FindActive(j) \/ FindRelapsed(j)
      BY <3>2, <3>4 DEF FindActive, FindRelapsed, Job, rowVars
    <3>5. QED
      BY <1>8, <3>1, <3>2, <3>3, <3>4
      DEF OpenRefused, SuppressAlert, TellOpened, StartEscalation, IntegrateOpened,
          ResolveIncident, AnnounceResolved, IntegrateResolved, NoteRelapse, rowVars
  <2>4. QED
    BY <1>1, <1>2, <2>1, <2>3
<1>9. ASSUME UNCHANGED <<job, badRun>>, mon'.fails = mon.fails \/ mon'.fails = 0
      PROVE  BlipInv'
  BY <1>9 DEF BlipInv, BlipAt
<1>10. ASSUME NEW r \in Request, Acknowledge(r) \/ ResolveByHand(r) \/ Pause(r) \/ Resume(r)
       PROVE  BlipInv'
  BY <1>9, <1>10 DEF Acknowledge, ResolveByHand, Pause, Resume, rowVars, MonitorRow
<1>11. CASE Aside
  BY <1>9, <1>11 DEF Aside
<1>12. \A p \in Pinger : ~Ping(p)
  BY DEF Ping, Alone
<1>13. QED
  BY <1>3, <1>4, <1>5, <1>6, <1>7, <1>8, <1>10, <1>11, <1>12, StepsOfOthers DEF Process

\* One check at a time of a probed monitor, none of which dies between its result and its
\* row: an incident is opened only on as many failing results in a row, in check_results,
\* as the threshold asks for, whatever people do to the monitor while checks are in flight.
THEOREM BlipsOpenNothing ==
  ASSUME ~Heartbeat, \A b, c \in Checker : b = c, MaxFaults = 0, CounterCap <= Lookback
  PROVE  Spec => BlipNeverOpens
<1> Alone
  BY DEF Alone
<1>1. Init => BlipInv
  <2>1. Checker \subseteq Proc
    BY DEF Proc
  <2>2. QED
    BY <2>1 DEF Init, BlipInv, BlipAt, IdleJob, NewRow
<1>2. TypeOK /\ OpsInv /\ [Next]_vars => OpsInv'
  BY OpsInvNext
<1>3. TypeOK /\ OpsInv /\ PingInv /\ [Next]_vars => PingInv'
  BY PingInvNext
<1>4. TypeOK /\ OpsInv /\ PingInv /\ BlipInv /\ [Next]_vars => BlipInv'
  BY BlipInvNext
<1>5. TypeOK /\ OpsInv /\ PingInv /\ BlipInv /\ [Next]_vars
        => [\A j \in Proc : job[j].stage = "save" /\ job'[j].stage = "open"
                              => badRun >= job[j].row.failThr]_vars
  <2> SUFFICES ASSUME TypeOK, OpsInv, PingInv, BlipInv, [Next]_vars,
                      NEW j \in Proc, job[j].stage = "save", job'[j].stage = "open"
               PROVE  badRun >= job[j].row.failThr
    OBVIOUS
  <2>1. /\ j \in Checker /\ BlipAt(j)
        /\ job[j] \in Job /\ badRun \in Nat
    BY PipelineAssumption DEF PingInv, Proc, BlipInv, Alone, TypeOK
  <2>2. Save(j)
    <3>1. job'[j] # job[j]
      OBVIOUS
    <3>2. PICK k \in Proc : Process(k) \/ Load(k) \/ Probe(k) \/ Ping(k)
      BY <3>1, StepsOfOthers
      DEF Aside, Acknowledge, ResolveByHand, Pause, Resume, Proc, Alone
    <3>3. k = j
      BY <3>1, <3>2, OneMoves
    <3>4. QED
      BY <3>2, <3>3
      DEF Process, Load, Probe, Ping, Evaluate, Record, DetectFlapping, OpenRefused,
          OpenIncident, SuppressAlert, TellOpened, StartEscalation, IntegrateOpened,
          FindActive, ResolveIncident, AnnounceResolved, IntegrateResolved, FindRelapsed,
          NoteRelapse
  <2>3. Transition(job[j].row, job[j].success, job[j].maint).incident = "open"
    BY <2>2, SaveGoes
  <2>4. Count(job[j].row.fails, ~job[j].success) >= job[j].row.failThr
    BY <2>1, <2>3, OpenIsConfirmed DEF Job
  <2>5. /\ Count(job[j].row.fails, ~job[j].success) \in Nat
        /\ job[j].row.failThr \in Nat
    <3>1. /\ job[j].row.fails \in Counter /\ job[j].success \in BOOLEAN
          /\ job[j].row.failThr \in Threshold
      BY <2>1 DEF Job, MonitorRow
    <3>2. Count(job[j].row.fails, ~job[j].success) \in Counter
      BY <3>1, CountType
    <3>3. QED
      BY <3>1, <3>2, CounterCapAssumption DEF Counter, Threshold
  <2>6. QED
    BY <2>1, <2>4, <2>5 DEF BlipAt
<1>6. QED
  BY <1>1, <1>2, <1>3, <1>4, <1>5, OpsInvInit, PingInvInit, TypeCorrect, PTL
  DEF Spec, BlipNeverOpens

=============================================================================
