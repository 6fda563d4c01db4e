---------------------------- MODULE MCBackground ----------------------------
(***************************************************************************)
(* An instance for TLC of what works in the background: the daily          *)
(* statistics, the probes, and the job schedulers with the monitors they   *)
(* follow.  They share nothing, so the instance explores each and not      *)
(* their product: "part" says which of them moves.                         *)
(***************************************************************************)
EXTENDS Rollup, Probes, Scheduler

CONSTANTS na, eu, ch     \* model values

VARIABLE part

\* Configurations that between them take every branch of the validations.
Plain(type) ==
  [type |-> type, configured |-> TRUE, retries |-> 1, followRedirects |-> FALSE,
   expectsStatus |-> FALSE, keyword |-> "none", assertions |-> {}]
MCTargets ==
  {[Plain("HTTP") EXCEPT !.followRedirects = TRUE, !.expectsStatus = TRUE,
                         !.assertions = {"RESPONSE_TIME"}],
   [Plain("KEYWORD") EXCEPT !.keyword = "forbidden", !.retries = 0],
   [Plain("DOMAIN") EXCEPT !.assertions = {"DOMAIN_EXPIRY_DAYS"}],
   [Plain("SSL") EXCEPT !.configured = FALSE],
   Plain("PING"), Plain("DNS"), Plain("HEARTBEAT")}

\* A ping monitor was an HTTP monitor before and kept its URL.
Monitoring(t, rs) ==
  [type |-> t, url |-> t # "GRPC", host |-> t = "PING", interval |-> 1, regions |-> rs,
   assertions |-> {"a"}, channels |-> {ch}]

Configs == {Monitoring("HTTP", {na, eu}), Monitoring("PING", {}), Monitoring("GRPC", {})}

Updates ==
  {[type |-> "HTTP"], [type |-> "HEARTBEAT", interval |-> 2], [url |-> FALSE],
   [channels |-> {ch, "foreign"}], [channels |-> {}], [assertions |-> {"b"}, regions |-> {eu}]}

\* One process serves both regions, the others the first alone: all have the same
\* default, the premise of Converges.
SomeRegions(both) == [s \in Sync |-> IF s = both THEN <<na, eu>> ELSE <<na>>]
RegionsServed == SomeRegions(CHOOSE s \in Sync : TRUE)

MCInit ==
  /\ RollupInit /\ ProbesInit /\ SchedulerInit
  /\ part \in {"rollup", "probes", "scheduler"}
  /\ part # "scheduler" => Live = {} /\ Reconciled

MCNext ==
  \/ part = "rollup" /\ RollupNext /\ UNCHANGED <<pvars, schedulerVars, part>>
  \/ part = "probes" /\ ProbesNext /\ UNCHANGED <<vars, schedulerVars, part>>
  \/ part = "scheduler" /\ SchedulerNext /\ UNCHANGED <<vars, pvars, part>>

\* The fairness of Rollup and of Scheduler, of the part that moves.
MCSpec ==
  /\ MCInit /\ [][MCNext]_<<vars, pvars, schedulerVars, part>>
  /\ \A w \in Replicas : /\ WF_vars(part = "rollup" /\ TickBegins(w))
                         /\ WF_vars(part = "rollup" /\ TickEnds(w))
  /\ \A s \in Sync : WF_schedulerVars(part = "scheduler" /\ SyncStep(s))
  /\ \A q \in Request :
       WF_schedulerVars(part = "scheduler" /\ RunStatement(q) /\ UNCHANGED queueVars)

\* ViewsAgree of Rollup, looked at only where the statistics move.
ReadersAgree == part = "rollup" => ViewsAgree
=============================================================================
