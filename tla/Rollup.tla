------------------------------- MODULE Rollup -------------------------------
(***************************************************************************)
(* The daily statistics: check results are counted per monitor, region and *)
(* day by one INSERT .. SELECT .. ON CONFLICT DO UPDATE, which the         *)
(* scheduled tick runs for today and the days before it and the backfill   *)
(* for the whole history, a few days at a time (packages/monitoring/src/   *)
(* rollup, apps/worker/src/rollup-backfill.ts).  The analytics service and *)
(* the public status page read the rows it leaves.                         *)
(*                                                                         *)
(* A statement counts what was there when it began and writes when it      *)
(* ends: two that overlap may write in the other order.  Response times,   *)
(* downtime and percentages are computed from the same rows and left out.  *)
(***************************************************************************)
EXTENDS Integers, FiniteSets, FiniteSetsExt

CONSTANTS Monitors,      \* the monitors of one organization
          Regions,       \* the probe regions
          AllRegions,    \* the NULL region the schema also permits
          Replicas,      \* the worker processes, each one tick at a time
          Backfill,      \* the one-shot backfill
          LastDay,       \* bound: the days are 0 .. LastDay
          Lookback,      \* ROLLUP_LOOKBACK_DAYS
          ChunkDays,     \* --chunk-days
          MaxChecks,     \* bound: checks recorded
          MaxFailures,   \* bound: statements that fail
          MaxBackfills   \* bound: times the backfill is started

ASSUME RollupAssumption ==
  /\ AllRegions \notin Regions /\ Backfill \notin Replicas
  /\ IsFiniteSet(Monitors) /\ IsFiniteSet(Regions)
  /\ {LastDay, Lookback, MaxChecks, MaxFailures, MaxBackfills} \subseteq Nat
  /\ ChunkDays \in Nat \ {0}

VARIABLES today,      \* the day it is
          checks,     \* check_results, counted: what was observed where and when
          rows,       \* monitor_daily_stats
          statement,  \* the statement each writer has under way
          cursor,     \* where the backfill is, NotRunning when it is not
          until,      \* and where it stops
          failures, backfills

vars == <<today, checks, rows, statement, cursor, until, failures, backfills>>

Days == 0 .. LastDay
Groups == Monitors \X Regions \X Days
RowKeys == Monitors \X (Regions \cup {AllRegions}) \X Days
Writers == Replicas \cup {Backfill}

\* A count of checks: those seen up, and those seen down.
Nothing == [up |-> 0, down |-> 0]
NoRow == [up |-> -1, down |-> 0]
Idle == [days |-> {}, counts |-> [g \in Groups |-> Nothing]]
NotRunning == -1

Total(count) == count.up + count.down
\* Observations so far.
SumOver(S, value(_)) == MapThenSumSet(value, S)
Recorded == SumOver({g \in Groups : checks[g] # Nothing}, LAMBDA g : Total(checks[g]))

RollupInit ==
  /\ today = 0
  /\ checks = [g \in Groups |-> Nothing]
  /\ rows = [k \in RowKeys |-> NoRow]
  /\ statement = [w \in Writers |-> Idle]
  /\ cursor = NotRunning /\ until = NotRunning
  /\ failures = 0 /\ backfills = 0

-----------------------------------------------------------------------------
(* The statement of rollupWindow, in its two halves. *)

\* Days from .. to - 1, whole days whatever the instants were.
Window(from, to) == {d \in Days : from <= d /\ d < to}

\* SELECT .. GROUP BY monitor, region, day: the counts of the moment.
Count(w, from, to) ==
  /\ statement[w] = Idle
  /\ from < to
  /\ statement' = [statement EXCEPT ![w] = [days |-> Window(from, to), counts |-> checks]]

\* Mutant: the row of all regions is written beside the regional ones.
UpsertBothShapes(days, counts) ==
  [k \in RowKeys |->
     LET of == {g \in Groups : g[1] = k[1] /\ g[3] = k[3] /\ k[2] \in {g[2], AllRegions}}
         sum == [up |-> SumOver(of, LAMBDA g : counts[g].up),
                 down |-> SumOver(of, LAMBDA g : counts[g].down)]
     IN  IF k[3] \in days /\ Total(sum) > 0 THEN sum ELSE rows[k]]

\* INSERT .. ON CONFLICT DO UPDATE: a group without a check has no row to write.
Upsert(days, counts) ==
  [k \in RowKeys |->
     IF k \in Groups /\ k[3] \in days /\ Total(counts[k]) > 0 THEN counts[k] ELSE rows[k]]

Write(w) ==
  /\ statement[w] # Idle
  /\ rows' = Upsert(statement[w].days, statement[w].counts)
  /\ statement' = [statement EXCEPT ![w] = Idle]

-----------------------------------------------------------------------------
(* The scheduled tick. *)

\* Mutant: only the days that are over.
TickBeginsYesterday(w) ==
  /\ w \in Replicas
  /\ Count(w, today - Lookback, today)
  /\ UNCHANGED <<today, checks, rows, cursor, until, failures, backfills>>

\* rollupRecentDays: today and the Lookback days before it.
TickBegins(w) ==
  /\ w \in Replicas
  /\ Count(w, today - Lookback, today + 1)
  /\ UNCHANGED <<today, checks, rows, cursor, until, failures, backfills>>

TickEnds(w) ==
  /\ w \in Replicas
  /\ Write(w)
  /\ UNCHANGED <<today, checks, cursor, until, failures, backfills>>

\* The statement fails, or its process dies: nothing of it was written.  The
\* job is tried again, and the next tick covers the same days.
TickFails(w) ==
  /\ w \in Replicas /\ statement[w] # Idle /\ failures < MaxFailures
  /\ statement' = [statement EXCEPT ![w] = Idle]
  /\ failures' = failures + 1
  /\ UNCHANGED <<today, checks, rows, cursor, until, backfills>>

-----------------------------------------------------------------------------
(* The backfill: from the earliest day with a check to tomorrow, by chunks. *)

DaysWithChecks == {d \in Days : \E g \in Groups : g[3] = d /\ Total(checks[g]) > 0}

BackfillStarts ==
  /\ cursor = NotRunning /\ backfills < MaxBackfills
  /\ DaysWithChecks # {}
  /\ cursor' = Min(DaysWithChecks) /\ until' = today + 1
  /\ backfills' = backfills + 1
  /\ UNCHANGED <<today, checks, rows, statement, failures>>

ChunkEnd == IF cursor + ChunkDays < until THEN cursor + ChunkDays ELSE until

ChunkBegins ==
  /\ cursor # NotRunning
  /\ Count(Backfill, cursor, ChunkEnd)
  /\ UNCHANGED <<today, checks, rows, cursor, until, failures, backfills>>

ChunkEnds ==
  /\ Write(Backfill)
  /\ IF ChunkEnd < until
       THEN cursor' = ChunkEnd /\ UNCHANGED until
       ELSE cursor' = NotRunning /\ until' = NotRunning
  /\ UNCHANGED <<today, checks, failures, backfills>>

\* Interrupted: what its chunks wrote stays, and running it again resumes.
BackfillDies ==
  /\ cursor # NotRunning
  /\ statement' = [statement EXCEPT ![Backfill] = Idle]
  /\ cursor' = NotRunning /\ until' = NotRunning
  /\ UNCHANGED <<today, checks, rows, failures, backfills>>

-----------------------------------------------------------------------------
(* What goes on around it. *)

\* A check is recorded.  Clocks of workers differ: it may bear yesterday's date.
Check(g, seen) ==
  /\ Recorded < MaxChecks
  /\ g[3] \in {today - 1, today}
  /\ checks' = [checks EXCEPT ![g][seen] = @ + 1]
  /\ UNCHANGED <<today, rows, statement, cursor, until, failures, backfills>>

Midnight ==
  /\ today < LastDay
  /\ today' = today + 1
  /\ UNCHANGED <<checks, rows, statement, cursor, until, failures, backfills>>

RollupNext ==
  \/ \E w \in Replicas : TickBegins(w) \/ TickEnds(w) \/ TickFails(w)
  \/ BackfillStarts \/ ChunkBegins \/ ChunkEnds \/ BackfillDies
  \/ \E g \in Groups, seen \in {"up", "down"} : Check(g, seen)
  \/ Midnight

\* The scheduler keeps ticking and statements end.
RollupFairness == \A w \in Replicas : WF_vars(TickBegins(w)) /\ WF_vars(TickEnds(w))

RollupSpec == RollupInit /\ [][RollupNext]_vars /\ RollupFairness

-----------------------------------------------------------------------------
(* The readers.  Each adds up the rows of the last n days its own way. *)

InRange(k, n) == k[3] > today - n /\ k[3] <= today
Present == {k \in RowKeys : rows[k] # NoRow}

\* resolveScope, scopeSql: the rows per region when there are any.
PerRegion(n) == \E k \in Present : InRange(k, n) /\ k[2] \in Regions
Scope(n) ==
  LET granular == PerRegion(n)
  IN  {k \in Present : InRange(k, n) /\ (k[2] \in Regions <=> granular)}

ChecksOf(S) == SumOver(S, LAMBDA k : Total(rows[k]))
UpOf(S) == SumOver(S, LAMBDA k : rows[k].up)
Reading(S) == <<UpOf(S), ChecksOf(S)>>

\* totals
Totals(n) == Reading(Scope(n))
\* dailySeries: one point a day, days without a row included
Series(n) == [d \in {x \in Days : x > today - n /\ x <= today} |->
                Reading({k \in Scope(n) : k[3] = d})]
\* regionStats: the regional rows, whatever the scope is
ByRegion(n) == [r \in Regions |-> Reading({k \in Present : InRange(k, n) /\ k[2] = r})]
\* perMonitorTotals
ByMonitor(n) == [m \in Monitors |-> Reading({k \in Scope(n) : k[1] = m})]
\* getHistory of the status page: all rows of the monitor, not filtered by region
History(n) == [m \in Monitors |-> Reading({k \in Present : InRange(k, n) /\ k[1] = m})]

\* What a chart's parts come to.
Whole(parts) ==
  <<SumOver(DOMAIN parts, LAMBDA x : parts[x][1]), SumOver(DOMAIN parts, LAMBDA x : parts[x][2])>>

-----------------------------------------------------------------------------
(* The summary, the time series, the regional breakdown, the SLA report and  *)
(* the public history show the same number of checks and successes for the   *)
(* same days: no reader counts a day twice (aggregate.ts:17-24).             *)
ViewsAgree ==
  \A n \in {1, LastDay + 1} :
    \A view \in {Whole(Series(n)), Whole(ByRegion(n)), Whole(ByMonitor(n)), Whole(History(n))} :
      view = Totals(n)

(* Once checks and midnights stop, the rows of the days a tick covers come to *)
(* say exactly what was observed, and stay so: late checks, failed ticks,     *)
(* overlapping statements and an interrupted backfill are all made good       *)
(* (aggregate.ts:128-135).                                                    *)
CaughtUp ==
  \A g \in Groups : g[3] >= today - Lookback /\ Total(checks[g]) > 0 => rows[g] = checks[g]
RowsCatchUp == <>[]CaughtUp
=============================================================================
