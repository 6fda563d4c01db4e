---------------------------- MODULE CheckPipeline ----------------------------
(***************************************************************************)
(* One monitor of UptimeFlow and everything that writes its row or its     *)
(* incidents while checks of it are in flight:                             *)
(*                                                                         *)
(*   - the check jobs of the worker (packages/monitoring/src/processor.ts, *)
(*     execute.ts and pipeline.ts): one per probe region, and more when a  *)
(*     slow job overlaps the next tick or a stalled one is run again;      *)
(*   - the heartbeat pings of the API (recordHeartbeat of pipeline.ts);    *)
(*   - the API requests that read an incident or the monitor and write it  *)
(*     after another await (incident.service.ts, monitor.service.ts);      *)
(*   - maintenance windows, whose times pass by themselves.                *)
(*                                                                         *)
(* A job works on the SNAPSHOT of the row it loaded before probing: every  *)
(* await of the pipeline between two database accesses is a point where    *)
(* the others run, and is a stage of the job here.  The code has no        *)
(* transaction around two of its statements, so none share an action.  The *)
(* writes to the audit log, which nothing reads back, are left out.        *)
(*                                                                         *)
(* What the alert, escalation and integration dispatchers do with a notice *)
(* is left to other modules: here a dispatch counts as one notice.         *)
(***************************************************************************)
EXTENDS HealthMachine, FiniteSets

CONSTANTS
  Checker,        \* check jobs that may be in flight at once
  Pinger,         \* heartbeat requests that may be in flight at once
  Heartbeat,      \* is the monitor of type HEARTBEAT?
  Request,        \* API requests that may be in flight at once
  ApiOps,         \* the API operations those requests may ask for
  Window,         \* maintenance windows of the monitor
  Thresholds,     \* values of failureThreshold and successThreshold tried
  Policies,       \* may escalationPolicyId be unset, be set?
  FlapThreshold,  \* FLAP_THRESHOLD of flapping.ts
  MaxIncidents,   \* bound: incidents the monitor may have over its life
  MaxFaults,      \* bound: jobs that die halfway
  Lookback        \* bound: raw results a property looks back on

AllApiOps == {"acknowledge", "resolve", "pause", "resume", "remove", "update"}

ASSUME PipelineAssumption ==
  /\ Checker \cap Pinger = {}
  /\ Heartbeat \in BOOLEAN
  /\ ApiOps \subseteq AllApiOps
  /\ Thresholds # {} /\ Thresholds \subseteq Threshold
  /\ Policies # {} /\ Policies \subseteq BOOLEAN
  /\ FlapThreshold \in Nat
  /\ MaxIncidents \in Nat
  /\ MaxFaults \in Nat
  /\ Lookback \in Nat

VARIABLES
  mon,        \* the row of the monitors table
  site,       \* does the target answer (HEARTBEAT: is the last ping fresh)?
  badRun,     \* failing rows at the end of the check_results table
  windows,    \* the maintenance windows and where the clock is in them
  status,     \* status of each incident, NONE for a row not created yet
  keyed,      \* the incidents whose fingerprint is set
  aged,       \* the incidents that started more than FLAP_WINDOW_MS ago
  timeline,   \* kinds of event on the timeline of each incident
  notices,    \* how often each notice of an incident was dispatched
  job,        \* the jobs and pings in flight
  request,    \* the API requests in flight
  faults      \* how many of them died so far

rowVars      == <<mon, site, badRun>>
incidentVars == <<status, keyed, aged, timeline, notices>>
vars == <<mon, site, badRun, windows, status, keyed, aged, timeline, notices,
          job, request, faults>>

Proc     == Checker \cup Pinger
Incident == 1 .. MaxIncidents     \* in the order of startedAt
NoIncident == 0

MonitorRow == [state   : {"ACTIVE", "PAUSED"},
               deleted : BOOLEAN,
               health  : MonitorHealth,
               fails   : Counter,       \* consecutiveFailures
               oks     : Counter,       \* consecutiveSuccesses
               failThr : Threshold,     \* failureThreshold
               okThr   : Threshold,     \* successThreshold
               policy  : BOOLEAN]       \* is escalationPolicyId set?

IncidentStatus == {"NONE", "OPEN", "ACKNOWLEDGED", "RESOLVED"}
EventKind      == {"DETECTED", "FLAPPING", "RELAPSED", "ACKNOWLEDGED", "RESOLVED"}
Notice         == {"alertOpened", "escalation", "integrationOpened",
                   "alertResolved", "integrationResolved"}

\* Where a job is: the await it is about to make.  The stage after the monitor
\* row is saved is the answer of the state machine itself.
Stage == {"idle", "probe", "evaluate", "record", "save",
          "open", "create", "suppress", "tell", "escalate", "integrate",
          "resolve", "close", "announce", "announceIntegrations",
          "relapse", "note"}

Job == [stage    : Stage,
        row      : MonitorRow,               \* the MonitorSnapshot
        success  : BOOLEAN,                  \* the outcome of the probe
        maint    : BOOLEAN,                  \* inMaintenance
        flapping : BOOLEAN,
        held     : Incident \cup {NoIncident}]  \* the id a query returned

NewRow(ft, ot, p) ==
  [state |-> "ACTIVE", deleted |-> FALSE, health |-> "PENDING",
   fails |-> 0, oks |-> 0, failThr |-> ft, okThr |-> ot, policy |-> p]

\* What a job keeps of its snapshot once the state machine has read it: the
\* escalation policy it is routed to.
Forget(row) == NewRow(1, 1, row.policy)

IdleJob == [stage |-> "idle", row |-> NewRow(1, 1, FALSE), success |-> FALSE,
            maint |-> FALSE, flapping |-> FALSE, held |-> NoIncident]

WindowRow == [phase : {"none", "scheduled", "running", "over"}, deleted : BOOLEAN]

\* A request in flight: the operation, and the incident it read.
RequestState == [op : AllApiOps \cup {"none"}, on : Incident \cup {NoIncident}]
IdleRequest  == [op |-> "none", on |-> NoIncident]

-----------------------------------------------------------------------------
Active(i) == status[i] \in {"OPEN", "ACKNOWLEDGED"}

\* findFirst({status: {not: "RESOLVED"}}, orderBy startedAt desc)
LatestActive(i) == Active(i) /\ \A k \in Incident : k > i => ~Active(k)

\* The next incident row to be inserted.
Fresh(i) == status[i] = "NONE" /\ \A k \in Incident : k < i => status[k] # "NONE"

\* isInMaintenance(): the query does not look at deletedAt.
InMaintenance == \E w \in Window : windows[w].phase = "running"

\* detectFlapping(): incidents of the monitor inside the sliding window.
Flapping == Cardinality({i \in Incident : status[i] # "NONE" /\ i \notin aged})
              >= FlapThreshold

Become(j, new) == job' = [job EXCEPT ![j] = new]
Goto(j, stage) == Become(j, [job[j] EXCEPT !.stage = stage])
Finish(j)      == Become(j, IdleJob)
Send(i, n)     == notices' = [notices EXCEPT ![i][n] = @ + 1]
Log(i, e)      == timeline' = [timeline EXCEPT ![i] = @ \cup {e}]

-----------------------------------------------------------------------------
Init ==
  /\ \E ft, ot \in Thresholds, p \in Policies : mon = NewRow(ft, ot, p)
  /\ site \in IF Heartbeat THEN {"down"} ELSE {"up", "down"}
  /\ badRun = 0
  /\ windows = [w \in Window |-> [phase |-> "none", deleted |-> FALSE]]
  /\ status = [i \in Incident |-> "NONE"]
  /\ keyed = {}
  /\ aged = {}
  /\ timeline = [i \in Incident |-> {}]
  /\ notices = [i \in Incident |-> [n \in Notice |-> 0]]
  /\ job = [j \in Proc |-> IdleJob]
  /\ request = [r \in Request |-> IdleRequest]
  /\ faults = 0

(***************************************************************************)
(* The check job                                                           *)
(***************************************************************************)

\* createCheckProcessor: load the row.  A deleted or inactive monitor ends the
\* job here.
Load(c) ==
  /\ job[c].stage = "idle"
  /\ ~mon.deleted
  /\ mon.state = "ACTIVE"
  /\ Become(c, [IdleJob EXCEPT !.stage = "probe", !.row = mon,
                               !.success = (site = "up")])
  /\ UNCHANGED <<rowVars, windows, incidentVars, request, faults>>

\* executeCheck: the verdict after the in-check retries.  That of a heartbeat is on
\* the ping it was loaded with, whatever arrived since.
Probe(c) ==
  /\ job[c].stage = "probe"
  /\ Become(c, [job[c] EXCEPT !.stage = "evaluate",
                              !.success = (Heartbeat => @) /\ site = "up"])
  /\ UNCHANGED <<rowVars, windows, incidentVars, request, faults>>

\* recordHeartbeat: a ping is a successful check, whatever the monitor's state.
Ping(p) ==
  /\ Heartbeat
  /\ job[p].stage = "idle"
  /\ ~mon.deleted
  /\ Become(p, [IdleJob EXCEPT !.stage = "evaluate", !.row = mon, !.success = TRUE])
  /\ UNCHANGED <<rowVars, windows, incidentVars, request, faults>>

\* processCheckResult: the maintenance windows are read before the row is written.
Evaluate(j) ==
  /\ job[j].stage = "evaluate"
  /\ Become(j, [job[j] EXCEPT !.stage = "record", !.maint = InMaintenance])
  /\ UNCHANGED <<rowVars, windows, incidentVars, request, faults>>

\* 1. raw result (firehose, append-only)
Record(j) ==
  /\ job[j].stage = "record"
  /\ badRun' = IF job[j].success THEN 0
               ELSE IF badRun < Lookback THEN badRun + 1 ELSE badRun
  /\ Goto(j, "save")
  /\ UNCHANGED <<mon, site, windows, incidentVars, request, faults>>

\* The state machine runs on the snapshot; health and counters are overwritten
\* whatever the row holds by now.  Only a ping stamps a heartbeat's lastCheckedAt.
Save(j) ==
  LET d == Transition(job[j].row, job[j].success, job[j].maint)
  IN
  /\ job[j].stage = "save"
  /\ mon' = [mon EXCEPT !.health = d.health, !.fails = d.fails, !.oks = d.oks]
  /\ site' = IF j \in Pinger THEN "up" ELSE site
  /\ IF d.incident = "none"
       THEN Finish(j)
       ELSE Become(j, [IdleJob EXCEPT !.stage = d.incident, !.row = Forget(job[j].row)])
  /\ UNCHANGED <<badRun, windows, incidentVars, request, faults>>

DetectFlapping(j) ==
  /\ job[j].stage = "open"
  /\ Become(j, [job[j] EXCEPT !.stage = "create", !.flapping = Flapping])
  /\ UNCHANGED <<rowVars, windows, incidentVars, request, faults>>

\* Mutant of OpenRefused: the insert is an upsert that returns the active incident.
OpenUpserts(j) ==
  /\ job[j].stage = "create"
  /\ \E i \in keyed : Become(j, [job[j] EXCEPT !.stage = "tell", !.held = i])
  /\ UNCHANGED <<rowVars, windows, incidentVars, request, faults>>

\* openIncident, refused by the unique (monitorId, fingerprint).  Any other error
\* of the insert is taken for that one and ends the job the same way: see Fail.
OpenRefused(j) ==
  /\ job[j].stage = "create"
  /\ keyed # {}
  /\ Finish(j)
  /\ UNCHANGED <<rowVars, windows, incidentVars, request, faults>>

\* Mutant of OpenIncident: no unique key on (monitorId, fingerprint).
OpenWithoutKey(j, i) ==
  /\ job[j].stage = "create"
  /\ Fresh(i)
  /\ status' = [status EXCEPT ![i] = "OPEN"]
  /\ keyed' = keyed \cup {i}
  /\ Log(i, "DETECTED")
  /\ Become(j, [job[j] EXCEPT !.stage = IF job[j].flapping THEN "suppress" ELSE "tell",
                              !.held = i])
  /\ UNCHANGED <<rowVars, windows, aged, notices, request, faults>>

\* Mutant of OpenIncident: a resolved incident is opened again.
OpenReuses(j, i) ==
  /\ job[j].stage = "create"
  /\ keyed = {}
  /\ ~Active(i) /\ \A k \in Incident : k < i => status[k] # "NONE"
  /\ status' = [status EXCEPT ![i] = "OPEN"]
  /\ keyed' = keyed \cup {i}
  /\ Log(i, "DETECTED")
  /\ Become(j, [job[j] EXCEPT !.stage = IF job[j].flapping THEN "suppress" ELSE "tell",
                              !.held = i])
  /\ UNCHANGED <<rowVars, windows, aged, notices, request, faults>>

\* openIncident: the row with its fingerprint and its DETECTED event.
OpenIncident(j, i) ==
  /\ job[j].stage = "create"
  /\ keyed = {}
  /\ Fresh(i)
  /\ status' = [status EXCEPT ![i] = "OPEN"]
  /\ keyed' = keyed \cup {i}
  /\ Log(i, "DETECTED")
  /\ Become(j, [job[j] EXCEPT !.stage = IF job[j].flapping THEN "suppress" ELSE "tell",
                              !.held = i])
  /\ UNCHANGED <<rowVars, windows, aged, notices, request, faults>>

\* Mutant of SuppressAlert: the flapping branch falls through to the dispatch.
SuppressFallsThrough(j) ==
  /\ job[j].stage = "suppress"
  /\ Log(job[j].held, "FLAPPING")
  /\ Goto(j, "tell")
  /\ UNCHANGED <<rowVars, windows, status, keyed, aged, notices, request, faults>>

\* A flapping monitor: the incident is recorded, nobody is told.
SuppressAlert(j) ==
  /\ job[j].stage = "suppress"
  /\ Log(job[j].held, "FLAPPING")
  /\ Finish(j)
  /\ UNCHANGED <<rowVars, windows, status, keyed, aged, notices, request, faults>>

\* alerts.dispatch({kind: "opened"})
TellOpened(j) ==
  /\ job[j].stage = "tell"
  /\ Send(job[j].held, "alertOpened")
  /\ Goto(j, IF job[j].row.policy THEN "escalate" ELSE "integrate")
  /\ UNCHANGED <<rowVars, windows, status, keyed, aged, timeline, request, faults>>

\* escalation.start
StartEscalation(j) ==
  /\ job[j].stage = "escalate"
  /\ Send(job[j].held, "escalation")
  /\ Goto(j, "integrate")
  /\ UNCHANGED <<rowVars, windows, status, keyed, aged, timeline, request, faults>>

\* dispatchIntegration({kind: "opened"}) is best effort: its failures are swallowed.
IntegrateOpened(j) ==
  /\ job[j].stage = "integrate"
  /\ \/ Send(job[j].held, "integrationOpened")
     \/ faults < MaxFaults /\ UNCHANGED notices
  /\ Finish(j)
  /\ UNCHANGED <<rowVars, windows, status, keyed, aged, timeline, request, faults>>

\* resolveIncident, first half: which incident?
FindActive(j) ==
  /\ job[j].stage = "resolve"
  /\ \/ \E i \in Incident : /\ LatestActive(i)
                            /\ Become(j, [job[j] EXCEPT !.stage = "close", !.held = i])
     \/ /\ \A i \in Incident : ~Active(i)
        /\ Finish(j)
  /\ UNCHANGED <<rowVars, windows, incidentVars, request, faults>>

\* Mutant of ResolveIncident: a ping announces the recovery, too.
ResolveAnnounces(j) ==
  LET i == job[j].held
  IN
  /\ job[j].stage = "close"
  /\ status' = [status EXCEPT ![i] = "RESOLVED"]
  /\ keyed' = keyed \ {i}
  /\ Log(i, "RESOLVED")
  /\ Goto(j, "announce")
  /\ UNCHANGED <<rowVars, windows, aged, notices, request, faults>>

\* resolveIncident, second half: an update by id, whatever the status is by now.
ResolveIncident(j) ==
  LET i == job[j].held
  IN
  /\ job[j].stage = "close"
  /\ status' = [status EXCEPT ![i] = "RESOLVED"]
  /\ keyed' = keyed \ {i}
  /\ Log(i, "RESOLVED")
  /\ IF j \in Checker THEN Goto(j, "announce") ELSE Finish(j)
  /\ UNCHANGED <<rowVars, windows, aged, notices, request, faults>>

\* Mutant of AnnounceResolved: only the integrations hear of the recovery.
AnnounceToIntegrationsOnly(j) ==
  /\ job[j].stage = "announce"
  /\ Goto(j, "announceIntegrations")
  /\ UNCHANGED <<rowVars, windows, incidentVars, request, faults>>

\* alerts.dispatch({kind: "resolved"}); a ping has no dispatcher to call.
AnnounceResolved(j) ==
  /\ job[j].stage = "announce"
  /\ Send(job[j].held, "alertResolved")
  /\ Goto(j, "announceIntegrations")
  /\ UNCHANGED <<rowVars, windows, status, keyed, aged, timeline, request, faults>>

IntegrateResolved(j) ==
  /\ job[j].stage = "announceIntegrations"
  /\ \/ Send(job[j].held, "integrationResolved")
     \/ faults < MaxFaults /\ UNCHANGED notices
  /\ Finish(j)
  /\ UNCHANGED <<rowVars, windows, status, keyed, aged, timeline, request, faults>>

\* RECOVERING -> DOWN: findOpenIncidentId ...
FindRelapsed(j) ==
  /\ job[j].stage = "relapse"
  /\ \/ \E i \in Incident : /\ LatestActive(i)
                            /\ Become(j, [job[j] EXCEPT !.stage = "note", !.held = i])
     \/ /\ \A i \in Incident : ~Active(i)
        /\ Finish(j)
  /\ UNCHANGED <<rowVars, windows, incidentVars, request, faults>>

\* ... then "Still failing during recovery." on its timeline.
NoteRelapse(j) ==
  /\ job[j].stage = "note"
  /\ Log(job[j].held, "RELAPSED")
  /\ Finish(j)
  /\ UNCHANGED <<rowVars, windows, status, keyed, aged, notices, request, faults>>

\* An await throws or the worker dies.  The job's second attempt, or the next
\* tick, is a new Load: nothing of this attempt is undone or remembered.
Fail(j) ==
  /\ job[j].stage # "idle"
  /\ faults < MaxFaults
  /\ faults' = faults + 1
  /\ Finish(j)
  /\ UNCHANGED <<rowVars, windows, incidentVars, request>>

(***************************************************************************)
(* API requests: a read, then a write that does not look again.  One that  *)
(* dies in between is one that takes no second step.                       *)
(***************************************************************************)

Ask(r, op, i)  == request' = [request EXCEPT ![r] = [op |-> op, on |-> i]]
Answered(r)    == request' = [request EXCEPT ![r] = IdleRequest]
Asked(r, op)   == request[r].op = op

ReadIncident(r, op, i) ==
  /\ Asked(r, "none") /\ op \in ApiOps
  /\ \/ op = "acknowledge" /\ status[i] = "OPEN"
     \/ op = "resolve" /\ Active(i)
  /\ Ask(r, op, i)
  /\ UNCHANGED <<rowVars, windows, incidentVars, job, faults>>

\* incidentService.acknowledge
Acknowledge(r) ==
  LET i == request[r].on
  IN
  /\ Asked(r, "acknowledge")
  /\ status' = [status EXCEPT ![i] = "ACKNOWLEDGED"]
  /\ Log(i, "ACKNOWLEDGED")
  /\ Answered(r)
  /\ UNCHANGED <<rowVars, windows, keyed, aged, notices, job, faults>>

\* Mutant of ResolveByHand: the fingerprint is not cleared.
ResolveKeepsKey(r) ==
  LET i == request[r].on
  IN
  /\ Asked(r, "resolve")
  /\ status' = [status EXCEPT ![i] = "RESOLVED"]
  /\ Log(i, "RESOLVED")
  /\ Answered(r)
  /\ UNCHANGED <<rowVars, windows, keyed, aged, notices, job, faults>>

\* incidentService.resolve: no channel and no integration hears of it.
ResolveByHand(r) ==
  LET i == request[r].on
  IN
  /\ Asked(r, "resolve")
  /\ status' = [status EXCEPT ![i] = "RESOLVED"]
  /\ keyed' = keyed \ {i}
  /\ Log(i, "RESOLVED")
  /\ Answered(r)
  /\ UNCHANGED <<rowVars, windows, aged, notices, job, faults>>

ReadMonitor(r, op) ==
  /\ Asked(r, "none") /\ op \in ApiOps
  /\ ~mon.deleted
  /\ \/ op = "pause" /\ mon.state # "PAUSED"
     \/ op = "resume" /\ mon.state # "ACTIVE"
     \/ op = "update"
  /\ Ask(r, op, NoIncident)
  /\ UNCHANGED <<rowVars, windows, incidentVars, job, faults>>

\* monitorService.pause: an open incident is left as it is.
Pause(r) ==
  /\ Asked(r, "pause")
  /\ mon' = [mon EXCEPT !.state = "PAUSED", !.health = "PAUSED"]
  /\ Answered(r)
  /\ UNCHANGED <<site, badRun, windows, incidentVars, job, faults>>

\* monitorService.resume
Resume(r) ==
  /\ Asked(r, "resume")
  /\ mon' = [mon EXCEPT !.state = "ACTIVE", !.health = "PENDING",
                        !.fails = 0, !.oks = 0]
  /\ Answered(r)
  /\ UNCHANGED <<site, badRun, windows, incidentVars, job, faults>>

\* monitorService.update, as far as the pipeline reads what it writes.
UpdateMonitor(r, ft, ot, p) ==
  /\ Asked(r, "update")
  /\ mon' = [mon EXCEPT !.failThr = ft, !.okThr = ot, !.policy = p]
  /\ Answered(r)
  /\ UNCHANGED <<site, badRun, windows, incidentVars, job, faults>>

\* monitorService.remove: a soft delete in one statement.
RemoveMonitor ==
  /\ "remove" \in ApiOps
  /\ ~mon.deleted
  /\ mon' = [mon EXCEPT !.deleted = TRUE]
  /\ UNCHANGED <<site, badRun, windows, incidentVars, job, request, faults>>

\* maintenanceWindowService.create, whose window has suppressAlerts by default.
CreateWindow(w) ==
  /\ windows[w].phase = "none"
  /\ windows' = [windows EXCEPT ![w].phase = "scheduled"]
  /\ UNCHANGED <<rowVars, incidentVars, job, request, faults>>

\* maintenanceWindowService.delete: a soft delete.
DeleteWindow(w) ==
  /\ windows[w].phase # "none"
  /\ ~windows[w].deleted
  /\ windows' = [windows EXCEPT ![w].deleted = TRUE]
  /\ UNCHANGED <<rowVars, incidentVars, job, request, faults>>

(***************************************************************************)
(* What happens by itself                                                  *)
(***************************************************************************)

\* startsAt or endsAt is passed.
WindowTurns(w) ==
  /\ \/ windows[w].phase = "scheduled"
        /\ windows' = [windows EXCEPT ![w].phase = "running"]
     \/ windows[w].phase = "running"
        /\ windows' = [windows EXCEPT ![w].phase = "over"]
  /\ UNCHANGED <<rowVars, incidentVars, job, request, faults>>

\* An incident leaves the flapping window, the oldest first.
AgeOut(i) ==
  /\ status[i] # "NONE"
  /\ i \notin aged
  /\ \A k \in Incident : k < i => k \in aged
  /\ aged' = aged \cup {i}
  /\ UNCHANGED <<rowVars, windows, status, keyed, timeline, notices, job, request,
                 faults>>

\* The target goes down or the deadline of the last ping passes; only a ping
\* makes a heartbeat fresh again.
SiteTurns ==
  /\ \/ site = "up" /\ site' = "down"
     \/ site = "down" /\ ~Heartbeat /\ site' = "up"
  /\ UNCHANGED <<mon, badRun, windows, incidentVars, job, request, faults>>

-----------------------------------------------------------------------------
Process(j) ==
  \/ Evaluate(j)
  \/ Record(j)
  \/ Save(j)
  \/ DetectFlapping(j)
  \/ OpenRefused(j)
  \/ \E i \in Incident : OpenIncident(j, i)
  \/ SuppressAlert(j)
  \/ TellOpened(j)
  \/ StartEscalation(j)
  \/ IntegrateOpened(j)
  \/ FindActive(j)
  \/ ResolveIncident(j)
  \/ AnnounceResolved(j)
  \/ IntegrateResolved(j)
  \/ FindRelapsed(j)
  \/ NoteRelapse(j)

Check(c) == Load(c) \/ Probe(c) \/ Process(c)

Api(r) ==
  \/ \E i \in Incident : ReadIncident(r, "acknowledge", i) \/ ReadIncident(r, "resolve", i)
  \/ \E op \in {"pause", "resume", "update"} : ReadMonitor(r, op)
  \/ Acknowledge(r)
  \/ ResolveByHand(r)
  \/ Pause(r)
  \/ Resume(r)
  \/ \E ft, ot \in Thresholds, p \in Policies : UpdateMonitor(r, ft, ot, p)

Elapse ==
  \/ \E w \in Window : WindowTurns(w)
  \/ \E i \in Incident : AgeOut(i)
  \/ SiteTurns

Next ==
  \/ \E c \in Checker : Check(c)
  \/ \E p \in Pinger : Ping(p) \/ Process(p)
  \/ \E j \in Proc : Fail(j)
  \/ \E r \in Request : Api(r)
  \/ RemoveMonitor
  \/ \E w \in Window : CreateWindow(w) \/ DeleteWindow(w)
  \/ Elapse

Spec == Init /\ [][Next]_vars

\* The scheduler keeps every active monitor's checks coming and BullMQ hands each
\* to a worker; no one has to ping, ask for anything, or repair the target.
Fairness == \A c \in Checker : WF_vars(Check(c))

FairSpec == Spec /\ Fairness


=============================================================================
