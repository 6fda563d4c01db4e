------------------------------ MODULE Scheduler ------------------------------
(***************************************************************************)
(* packages/monitoring/src/scheduler.ts: every worker process reconciles   *)
(* the job schedulers of the region queues it serves with the monitor      *)
(* table, now and on a timer.  A sync reads the table once and then goes   *)
(* from queue to queue; another sync, of this process (the timer does not  *)
(* wait for the last one) or of another, may run at the same time with a   *)
(* different reading of the table.                                         *)
(*                                                                         *)
(* A job scheduler is named by its monitor and its region.                 *)
(***************************************************************************)
EXTENDS MonitorConfig, TLC

CONSTANTS
  Sync,          \* syncs that may be under way at once
  Serves,        \* the regions of the process a sync runs in, the default first
  MaxSyncFailures    \* bound: syncs that end half way

VARIABLES
  schedulers,    \* per region, the interval of each monitor that has one
  sync,          \* the syncs
  syncFailures

queueVars     == <<schedulers, sync, syncFailures>>
schedulerVars == <<configVars, schedulers, sync, syncFailures>>

RegionsOf(s) == {Serves[s][i] : i \in DOMAIN Serves[s]}
Default(s)   == Serves[s][1]

ASSUME SchedulerAssumption ==
  /\ \A s \in Sync : Serves[s] # << >> /\ RegionsOf(s) \subseteq Region
  /\ MaxSyncFailures \in Nat

IdleSync == [stage |-> "idle"]

\* The schedulers a monitor should have among those of the process of s.
WantsIn(s, config, r) ==
  r \in IF config["type"] = "HEARTBEAT" \/ config["regions"] = {} THEN {Default(s)}
                                                                   ELSE config["regions"]

Desired(s, r) ==
  LET wanted == {m \in Live : monitor[m].state = "ACTIVE" /\ WantsIn(s, monitor[m].config, r)}
  IN  [m \in wanted |-> monitor[m].config["interval"]]

\* Whatever the queues hold when the processes start.
SchedulerInit ==
  /\ ConfigInit
  /\ \E ms \in SUBSET Monitor, i \in {c["interval"] : c \in Config} :
       schedulers = [r \in Region |-> [m \in ms |-> i]]
  /\ sync = [s \in Sync |-> IdleSync]
  /\ syncFailures = 0

-----------------------------------------------------------------------------
(* One sync *)

\* findMany, and what is desired for each served region.
ReadMonitors(s) ==
  /\ sync[s].stage = "idle"
  /\ sync' = [sync EXCEPT ![s] =
       [stage |-> "list", regions |-> Serves[s],
        want |-> [r \in RegionsOf(s) |-> Desired(s, r)]]]
  /\ UNCHANGED <<configVars, schedulers, syncFailures>>

\* Mutant of ListSchedulers: a scheduler that is there is taken as it is.
ListSchedulersById(s) ==
  LET r        == Head(sync[s].regions)
      want     == sync[s].want[r]
      existing == schedulers[r]
  IN  /\ sync[s].stage = "list"
      /\ sync' = [sync EXCEPT ![s] =
           [stage |-> "apply", regions |-> @.regions, want |-> @.want,
            upserts |-> DOMAIN want \ DOMAIN existing,
            removals |-> DOMAIN existing \ DOMAIN want]]
      /\ UNCHANGED <<configVars, schedulers, syncFailures>>

\* getJobSchedulers of the next queue, and what has to change there.
ListSchedulers(s) ==
  LET r        == Head(sync[s].regions)
      want     == sync[s].want[r]
      existing == schedulers[r]
  IN  /\ sync[s].stage = "list"
      /\ sync' = [sync EXCEPT ![s] =
           [stage |-> "apply", regions |-> @.regions, want |-> @.want,
            upserts |-> {m \in DOMAIN want : m \in DOMAIN existing => existing[m] # want[m]},
            removals |-> DOMAIN existing \ DOMAIN want]]
      /\ UNCHANGED <<configVars, schedulers, syncFailures>>

UpsertJobScheduler(s, m) ==
  LET r == Head(sync[s].regions)
  IN  /\ sync[s].stage = "apply" /\ m \in sync[s].upserts
      /\ schedulers' = [schedulers EXCEPT ![r] = (m :> sync[s].want[r][m]) @@ @]
      /\ sync' = [sync EXCEPT ![s].upserts = @ \ {m}]
      /\ UNCHANGED <<configVars, syncFailures>>

RemoveJobScheduler(s, m) ==
  LET r == Head(sync[s].regions)
  IN  /\ sync[s].stage = "apply" /\ sync[s].upserts = {} /\ m \in sync[s].removals
      /\ schedulers' = [schedulers EXCEPT ![r] = [n \in DOMAIN @ \ {m} |-> @[n]]]
      /\ sync' = [sync EXCEPT ![s].removals = @ \ {m}]
      /\ UNCHANGED <<configVars, syncFailures>>

FinishRegion(s) ==
  /\ sync[s].stage = "apply" /\ sync[s].upserts = {} /\ sync[s].removals = {}
  /\ sync' = [sync EXCEPT ![s] =
       IF Len(@.regions) = 1 THEN IdleSync
       ELSE [stage |-> "list", regions |-> Tail(@.regions), want |-> @.want]]
  /\ UNCHANGED <<configVars, schedulers, syncFailures>>

\* Postgres or Redis fails it, or its process ends; the timer starts another.
SyncFails(s) ==
  /\ sync[s].stage # "idle" /\ syncFailures < MaxSyncFailures
  /\ sync' = [sync EXCEPT ![s] = IdleSync]
  /\ syncFailures' = syncFailures + 1
  /\ UNCHANGED <<configVars, schedulers>>

-----------------------------------------------------------------------------
SyncStep(s) ==
  \/ ReadMonitors(s) \/ ListSchedulers(s) \/ FinishRegion(s)
  \/ \E m \in Monitor : UpsertJobScheduler(s, m) \/ RemoveJobScheduler(s, m)

SchedulerNext ==
  \/ ConfigNext /\ UNCHANGED queueVars
  \/ \E s \in Sync : SyncStep(s) \/ SyncFails(s)

\* The timer never stops, and a statement that is sent is answered.
SchedulerFairness ==
  /\ \A s \in Sync : WF_schedulerVars(SyncStep(s))
  /\ \A q \in Request : WF_schedulerVars(RunStatement(q) /\ UNCHANGED queueVars)

SchedulerSpec == SchedulerInit /\ [][SchedulerNext]_schedulerVars /\ SchedulerFairness

-----------------------------------------------------------------------------
(* What it is checked for *)

\* The queues hold exactly the schedulers of the active monitors, at their intervals.
Reconciled == \A s \in Sync : \A r \in RegionsOf(s) : schedulers[r] = Desired(s, r)

\* Processes that share a region have the same default.  Others would undo each other's
\* work for ever: each takes the monitors without a region, and the heartbeats, for its
\* own default alone, and removes them from the other's.
OneDefault ==
  \A s, t \in Sync : RegionsOf(s) \cap RegionsOf(t) # {} => Default(s) = Default(t)

\* "safe to run on every instance and converges regardless of prior state": requests
\* come to an end, and then, whatever the queues held, however syncs overlap and
\* whichever fail, the queues come to agree with the table for good.
Converges == OneDefault => <>[]Reconciled

=============================================================================
