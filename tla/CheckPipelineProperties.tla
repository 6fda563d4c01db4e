----------------------- MODULE CheckPipelineProperties -----------------------
(***************************************************************************)
(* What CheckPipeline is checked for.  The conditions under which each     *)
(* property holds are those of the run that checks it (README, "Runs").    *)
(***************************************************************************)
EXTENDS CheckPipeline

\* Every variable keeps to the values its column or job field can hold: no path
\* through the pipeline or the API stores a health, status or id outside them.
TypeOK ==
  /\ mon \in MonitorRow
  /\ site \in {"up", "down"}
  /\ badRun \in 0 .. Lookback
  /\ windows \in [Window -> WindowRow]
  /\ status \in [Incident -> IncidentStatus]
  /\ keyed \subseteq Incident
  /\ aged \subseteq Incident
  /\ timeline \in [Incident -> SUBSET EventKind]
  /\ notices \in [Incident -> [Notice -> Nat]]
  /\ job \in [Proc -> Job]
  /\ request \in [Request -> RequestState]
  /\ faults \in 0 .. MaxFaults

-----------------------------------------------------------------------------
(* Safety under every race *)

\* openIncident relies on resolveIncident and incidentService.resolve to free the
\* fingerprint: an incident that is over never stands in the way of the next one.
KeyIsFreed == \A i \in keyed : Active(i)

\* Escalation pages for every OPEN incident: whatever jobs and requests interleave,
\* the monitor has at most one (openIncident, acknowledge, resolve).
AtMostOneOpen ==
  \A i, k \in Incident : status[i] = "OPEN" /\ status[k] = "OPEN" => i = k

\* The opening of an incident is dispatched at most once on each way, and escalated
\* only after the bound channels were paged, however often the check job of
\* processCheckResult dies, is retried or overlaps another.
ToldAtMostOnce ==
  \A i \in Incident :
    /\ \A n \in {"alertOpened", "escalation", "integrationOpened"} : notices[i][n] <= 1
    /\ notices[i]["escalation"] <= notices[i]["alertOpened"]

\* An incident recorded as flapping (the suppressed branch of processCheckResult)
\* is never announced, escalated or integrated as opened.
FlappingIsSilent ==
  \A i \in Incident :
    "FLAPPING" \in timeline[i] =>
      \A n \in {"alertOpened", "escalation", "integrationOpened"} : notices[i][n] = 0

\* resolveIncident and incidentService.resolve end an incident for the escalation,
\* which pages for OPEN ones only, and for the fingerprint: a late acknowledge or a
\* second resolve may still write its row, but never makes it page or block again.
EndedStaysQuiet ==
  \A i \in Incident : "RESOLVED" \in timeline[i] => status[i] # "OPEN" /\ i \notin keyed

-----------------------------------------------------------------------------
(* The confirmation thresholds *)

\* "a single blip never opens an incident": a job that decides to open one has seen
\* as many failing results in a row, in the check_results table, as the threshold
\* it was loaded with asks for.  The counters it decides on are the row's.
BlipNeverOpens ==
  [][\A j \in Proc :
       job[j].stage = "save" /\ job'[j].stage = "open"
         => badRun >= job[j].row.failThr]_vars

-----------------------------------------------------------------------------
(* Incidents and what people are told of them *)

\* "only one active down incident per monitor" (openIncident's dedupe key).
AtMostOneActive == \A i, k \in Incident : Active(i) /\ Active(k) => i = k

\* "a recovery notice for an outage nobody was ever told about": processCheckResult
\* announces the end of an incident only if it announced its beginning, and once.
HonestRecovery ==
  \A i \in Incident : /\ notices[i]["alertResolved"] > 0 => notices[i]["alertOpened"] > 0
                      /\ notices[i]["alertResolved"] <= 1

AllIdle == \A j \in Proc : job[j].stage = "idle"

\* Whoever was told that an incident began is told that it is over, once the job
\* that resolved it is done ("fans alerts out to the monitor's channels").
EndIsAnnounced ==
  AllIdle =>
    \A i \in Incident : status[i] = "RESOLVED" /\ notices[i]["alertOpened"] > 0
                          => notices[i]["alertResolved"] > 0

\* Between checks the denormalized health agrees with the incidents table: failing
\* with an incident to show for it, or passing with none left behind.
HealthMatchesIncidents ==
  AllIdle =>
    /\ mon.health \in Failing => \E i \in Incident : Active(i)
    /\ mon.health \in {"PENDING", "UP"} => \A i \in Incident : ~Active(i)

-----------------------------------------------------------------------------
(* Liveness, under the scheduler's fairness *)

\* The scheduler checks the monitor, no window mutes it, and the bound on incidents
\* is not what holds it up.
Watched == /\ ~mon.deleted /\ mon.state = "ACTIVE" /\ ~InMaintenance
           /\ \E i \in Incident : Fresh(i)

\* A target that stays down under a watched monitor is shown DOWN for good in the
\* end, although overlapping jobs overwrite each other's counters (Save).
OutageSurfaces ==
  <>[](site = "down" /\ Watched) => <>[](mon.health = "DOWN")

\* A target that stays up is shown UP for good in the end.
RecoverySurfaces ==
  <>[](site = "up" /\ Watched) => <>[](mon.health = "UP")

\* "Resolve when fully recovered to UP": once the target stays up, the incidents of
\* the monitor are resolved for good in the end.
IncidentsEnd ==
  <>[](site = "up" /\ Watched) => <>[](\A i \in Incident : ~Active(i))

\* incidentAction opens "only when entering DOWN from a state with no open incident":
\* DOWN is taken to mean that there is one, and an attempt that fails to have another
\* ("surfaces the job to BullMQ's retry").  A target that stays down under a watched
\* monitor then has an active incident in the end, for good.
OutageIsRecorded ==
  <>[](site = "down" /\ Watched) => <>[](\E i \in Incident : Active(i))

-----------------------------------------------------------------------------
(* Refinement *)

Board == INSTANCE IncidentBoard
           WITH announced <- [i \in Incident |-> notices[i]["alertOpened"]],
                escalated <- [i \in Incident |-> notices[i]["escalation"]]

\* The incidents keep the promises of IncidentBoard while nobody acknowledges.
BoardSpec == Board!Spec

=============================================================================
