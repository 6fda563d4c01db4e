---------------------------- MODULE HealthMachine ----------------------------
(***************************************************************************)
(* The pure monitor state machine of packages/monitoring/src/              *)
(* state-machine.ts.  Given the persisted health of a monitor, the verdict *)
(* of one check and the two consecutive counters, it says what the health  *)
(* becomes and whether an incident is to be opened or resolved.  It does   *)
(* no I/O: CheckPipeline performs the effects.                             *)
(*                                                                         *)
(* The code's counters are unbounded, but are only ever compared with the  *)
(* thresholds, so here they stop at CounterCap, which no threshold         *)
(* exceeds: CountingIsExact (CheckPipelineProofs) shows that nothing that  *)
(* reads them can tell.                                                    *)
(***************************************************************************)
EXTENDS Naturals

CONSTANT CounterCap     \* where the consecutive counters stop counting

ASSUME CounterCapAssumption == CounterCap \in Nat \ {0}

Threshold == 1 .. CounterCap
Counter   == 0 .. CounterCap

\* MonitorState of state-machine.ts: the states the machine itself produces.
CanonicalHealth == {"PENDING", "UP", "DOWN", "RECOVERING", "MAINTENANCE"}

\* The persisted enum; PAUSED is written by the API.  No code writes DEGRADED.
MonitorHealth == CanonicalHealth \cup {"PAUSED"}

Failing == {"DOWN", "RECOVERING"}

\* normalize(): every non-canonical value behaves like UP.
Normalize(h) == IF h \in CanonicalHealth THEN h ELSE "UP"

\* Mutant of Count: the counter is bumped once too often.
CountTwice(n, again) == IF again THEN n + 2 ELSE 0

\* One more consecutive result of a kind, or none: the counters of transition().
Count(n, again) ==
  IF ~again THEN 0 ELSE IF n < CounterCap THEN n + 1 ELSE CounterCap

\* Mutant of NextHealth: a failure is believed without confirmation.
NextUnconfirmed(prev, success, failureConfirmed, successConfirmed, inMaintenance) ==
  IF inMaintenance THEN "MAINTENANCE" ELSE IF success THEN "UP" ELSE "DOWN"

\* Mutant of NextHealth: the PENDING case has no way to DOWN.
NextStaysPending(prev, success, failureConfirmed, successConfirmed, inMaintenance) ==
  IF inMaintenance THEN "MAINTENANCE"
  ELSE IF success THEN "UP"
  ELSE IF prev = "PENDING" THEN "PENDING"
  ELSE IF failureConfirmed \/ prev \in Failing THEN "DOWN" ELSE "UP"

\* Mutant of NextHealth: recovery asks for one success more than the threshold.
NextNeverRecovers(prev, success, failureConfirmed, successConfirmed, inMaintenance) ==
  IF inMaintenance THEN "MAINTENANCE"
  ELSE IF success THEN IF prev \in Failing THEN "RECOVERING" ELSE "UP"
  ELSE IF failureConfirmed \/ prev \in Failing THEN "DOWN" ELSE prev

\* The switch of transition(), on the normalized health.
NextHealth(prev, success, failureConfirmed, successConfirmed, inMaintenance) ==
  IF inMaintenance THEN "MAINTENANCE"
  ELSE IF prev \in Failing
    THEN IF ~success THEN "DOWN" ELSE IF successConfirmed THEN "UP" ELSE "RECOVERING"
    ELSE IF success THEN "UP"
         ELSE IF failureConfirmed THEN "DOWN"
         ELSE IF prev = "PENDING" THEN "PENDING" ELSE "UP"

\* Mutant of IncidentAction: a recovery straight from DOWN resolves nothing.
ResolveOnlyFromRecovering(prev, next) ==
  IF next = "DOWN" /\ prev \notin Failing THEN "open"
  ELSE IF next = "UP" /\ prev \in {"RECOVERING", "MAINTENANCE"} THEN "resolve"
  ELSE IF next = "DOWN" /\ prev = "RECOVERING" THEN "relapse"
  ELSE "none"

\* incidentAction(), with the relapse that processCheckResult tells apart by
\* `changed && state === "DOWN"` made an answer of its own.
IncidentAction(prev, next) ==
  IF next = "DOWN" /\ prev \notin Failing THEN "open"
  ELSE IF next = "UP" /\ prev \in Failing \cup {"MAINTENANCE"} THEN "resolve"
  ELSE IF next = "DOWN" /\ prev = "RECOVERING" THEN "relapse"
  ELSE "none"

Actions == {"open", "resolve", "relapse", "none"}

\* transition(): s is the snapshot of the monitor row the check started from.
Transition(s, success, inMaintenance) ==
  LET prev  == Normalize(s.health)
      fails == Count(s.fails, ~success)
      oks   == Count(s.oks, success)
      next  == NextHealth(prev, success, fails >= s.failThr, oks >= s.okThr,
                          inMaintenance)
  IN  [health   |-> next,
       fails    |-> fails,
       oks      |-> oks,
       incident |-> IncidentAction(prev, next)]

=============================================================================
