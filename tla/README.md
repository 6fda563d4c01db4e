# UptimeFlow: a verification project

UptimeFlow is an uptime monitor: workers probe their customers' targets, a state
machine turns the verdicts into incidents, and alert channels, an escalation chain,
integrations and public status pages tell people about them. Around that core stand
the configuration of monitors, on-call schedules, daily statistics, billing and the
limits of a plan, and a dashboard. This directory holds TLA+ models of these parts, the
TLC configurations that check them on small instances, and theorems about them checked
by TLAPS. Paths are relative to the repository (`src/` in `PROJECT.json`); services are
those of `apps/api/src/services`, and files without a path are in
`packages/monitoring/src`.

    tlc -workers 2 -config settled.cfg MCCheckPipeline     one of the runs
    tlapm CheckPipelineProofs.tla                          proofs (1-3 minutes each)
    tlapm JobQueueProofs.tla, AlertDeliveryProofs.tla, IntegrationDeliveryProofs.tla,
          EscalationProofs.tla, OrganizationProofs.tla, StatusPageProofs.tla,
          BackgroundProofs.tla

## 1. The system

| component | state | operations | hard because |
|---|---|---|---|
| state machine (`state-machine.ts`) | none: health and counters in, health, counters and an effect out | `transition`, `normalize`, `incidentAction` | thresholds edited while counters run; maintenance shares the UP branch |
| check pipeline (`pipeline.ts`, `processor.ts`, `execute.ts`, `flapping.ts`) | `monitors` row, `check_results`, `incidents`, `incident_events` | load, probe, `processCheckResult`, `recordHeartbeat` | no transaction spans two statements; jobs overlap and die between statements |
| incident API (`incident.service.ts`) | `incidents` | acknowledge, resolve, comment | read, then write by id |
| maintenance windows (`maintenance-window.service.ts`) | `maintenance_windows` | create, delete; time passes | read once per check, before the row is saved |
| monitor API (`monitor.service.ts`) | `monitors`, assertions, channel bindings | create, update, pause, resume, remove | an update is validated against a row it read and written in four statements |
| scheduler (`scheduler.ts`) | BullMQ job schedulers | `sync`, started by every worker on a timer | overlapping syncs with different readings of the table |
| probes (`probes/`, `execute.ts`, `assertions.ts`) | the cached registry directory | run, validate, retry | deadlines, redirects, mirrors, a cache checks share |
| alert delivery (`alerting/`) | `notification_deliveries`, timeline, queue | `dispatch`, `dispatchToChannels`, one run per job | row and job are two writes; at-least-once queue, lost answers, errors inside the catch |
| integration delivery (`integrations/`) | `integration_deliveries`, queue | `dispatchEvent`, tests, one run per job | the same event told twice; one row per event and target |
| escalation engine (`escalation/engine.ts`, `apps/worker/src/responder-notifier.ts`) | a chain of delayed jobs, mail queue | start, one tick per step and round | never cancelled; policy, rotation and incident change meanwhile |
| on-call (`oncall/resolve.ts`, `oncall.service.ts`) | schedules, rotations, overrides | `rotationIndex`, `resolveOnCall`, edits | arithmetic at handoffs, daylight saving, overrides |
| rollups and statistics (`rollup/`, `apps/worker/src/rollup-backfill.ts`, `analytics.service.ts`) | `monitor_daily_stats`, backfill cursor | tick, backfill, the readers | results arrive late; tick and backfill write the same rows |
| billing (`billing.service.ts`, `billing-webhook.service.ts`) | `subscriptions`, `billing_events` | checkout, change, cancel, `handleEvent` | events late, repeated, out of order |
| limits (`plan-limits.service.ts`, `packages/auth/src/seat-limits.ts`) | counts of rows | check before insert | check-then-act, changing plans |
| status pages (`status-page.service.ts`, `status-notifier.ts`) | pages, components, incidents, subscribers, mail queue | edit, reorder, post, subscribe, confirm, unsubscribe | read-then-write everywhere; old links |
| custom domains (`custom-domain.service.ts`) | hostnames | create, verify, remove, `resolve` | the DNS changes and fails during a verification |
| permissions and routes (`packages/shared/src/roles.ts`, `apps/api/src/routes`) | none | `hasPermission`, the guards | written apart from the dashboard's gates |
| web application (`apps/web/lib`, `apps/web/app/dashboard`) | query cache | hooks, screens | guesses, fetches overtaken by changes, lost answers, a role that changes |

How they interact: the scheduler follows the monitors table and queues check jobs; a
check job loads the monitor, probes, and runs the pipeline, which writes the row, opens
or resolves incidents and calls the dispatchers in the same process. The dispatchers
write rows and queue jobs their processors take. `escalation.start` queues the first
tick of a chain; a tick reads the incident, the policy and who is on call, queues mails,
calls `dispatchToChannels`, writes the timeline and queues the next tick. Rollups count
what the pipeline recorded. API requests, most of them from the dashboard, write
configuration at any moment, after a guard on the role and, for what a plan limits, a
count. The database and the queues are the only shared state; nothing holds a lock
across two statements, and few statements share a transaction.

What makes it correct: one active incident per monitor, its fingerprint freed when it
ends; health and incidents agree; confirmation thresholds are obeyed; whoever is told of
a beginning is told of the end, once; delivery rows and timelines are truthful; a closed
incident pages nobody; outages and recoveries surface in the end; the job schedulers,
the statistics and the subscription row come to agree with what they follow; nothing
grows past the plan; a page tells one story and mails only who consented; a hostname
resolves only when proven; the dashboard offers what the API accepts and shows what it
did. `PROJECT.json` lists each hazard at its line with the properties that cover it.

## 2. The modules

    HealthMachine <- CheckPipeline <- CheckPipelineProperties <- MCCheckPipeline
                                                 |            \- CheckPipelineProofs
                                                 +-- INSTANCE IncidentBoard (refinement)
    JobQueue <- AlertDelivery <-------- MCAlertDelivery <- AlertDeliveryProofs
       |- IntegrationDelivery <-------INSTANCE-/                     | INSTANCE
       |         \- IntegrationDeliveryProofs <----------------------/
       |- Escalation <- MCEscalation
       |         \- EscalationProofs
       \- JobQueueProofs (extended by the three modules of proofs above)

    MonitorConfig <- Scheduler \
    Rollup ---------------------+- MCBackground
    Probes ---------------------+- BackgroundProofs

    Billing -------------------------------------------\
    PlanLimits -----------------------------------------+- MCOrganization
    OnCall ---------------------------------------------|
    Permissions <- ApiRoutes <- WebHooks <- WebPages <- WebClient   OrganizationProofs

    Page <- StatusPage ---------\
         <- StatusIncidents -----+- MCStatusPage
         <- CustomDomain -------/   StatusPageProofs

**HealthMachine** is `state-machine.ts` as pure operators: `Transition(snapshot,
success, inMaintenance)` returns health, counters and effect. The code's counters are
unbounded but only compared with thresholds, so they stop at `CounterCap`;
`CountingIsExact` proves that no comparison can tell.

**CheckPipeline** is one monitor and whatever writes its row or its incidents. A check
job (`Checker`) or a heartbeat request (`Pinger`) is a record whose `stage` is the
await it is about to make:

| stage | action | code |
|---|---|---|
| idle, probe | `Load`, `Probe`, `Ping` | `createCheckProcessor`, `executeCheck`, `recordHeartbeat` |
| evaluate, record, save | `Evaluate`, `Record`, `Save` | `isInMaintenance`, insert of the raw result, `transition` and update of the row |
| open, create | `DetectFlapping`, `OpenRefused`, `OpenIncident` | `detectFlapping`, `openIncident` |
| suppress, tell, escalate, integrate | `SuppressAlert`, `TellOpened`, `StartEscalation`, `IntegrateOpened` | the open branch |
| resolve, close, announce, announceIntegrations | `FindActive`, `ResolveIncident`, `AnnounceResolved`, `IntegrateResolved` | `resolveIncident`, the resolve branch |
| relapse, note | `FindRelapsed`, `NoteRelapse` | the relapse branch |

The job carries the `MonitorSnapshot` it loaded (`row`), so that what it writes may be
stale. API requests are a read and a write; a request that dies in between is one that
takes no second step. `Fail` ends a job anywhere: a throw and a dead worker are the same
to the database, and the retry is a new `Load`. `SiteTurns`, `WindowTurns` and `AgeOut`
are the passing of time. **CheckPipelineProperties** states the properties, and
**IncidentBoard** is the abstract specification of a monitor's incidents (one active at
a time, resolved for good, announced and then escalated at most once) that CheckPipeline
implements under `status`, `announced <- notices[.]["alertOpened"]`,
`escalated <- notices[.]["escalation"]`.

**JobQueue** is the record of one BullMQ job: attempts, stalls, the lock. The library is
not in the repository; it is modelled from the options and guarantees its users here
rely on. **AlertDelivery** is the alert dispatcher and processor, a run of which is a
record at the await it is about to make; crashes, hangs past the lock, lost answers,
failing statements and dying calls are counted in `mishaps`, so that a property can say
which it survives. **IntegrationDelivery** is the same for integrations: a delivery is
named by what `dedupeKey` names, so two calls that tell one event meet at its row.
**Escalation** is the chain of one incident: the starter, every await of a tick, and
meanwhile a closing incident, policy edits, hand-overs, and the mail queue forgetting a
job id after an hour.

**MonitorConfig** is the configuration of the monitors and the requests that change it,
statement by statement: an update reads the row, validates the merged target, and then
changes assertions, channel bindings and the row. Fields on which nothing branches
behave like `interval`. **Scheduler** extends it by the job schedulers of each region
queue and any number of syncs, a sync being one reading of the table and then, region by
region, a listing and its differences. **Probes** is one check from its start to its
verdict: all probe types, redirects, the assertions (whether one holds is part of what
the probe saw), retries, and the registry directory shared by checks. **Rollup** has the
aggregating statement in two halves (it counts, it writes), the tick of every worker,
the backfill with its cursor, and what each reader adds up.

**Billing** is the subscription row of one organization: checkouts, changes and
cancellations that Stripe carries out in its own time, and its events, delivered late,
again, or batch by batch. **PlanLimits** is both gates, query by query, and the inserts
behind them, under plans that change at any time. **OnCall** is the rotation arithmetic
over instants and a wall clock that moves, overrides, and the transaction of an edit.

**Permissions** is the matrix of roles; **ApiRoutes** the permission each endpoint asks
for, what its answer shows and its handler changes; **WebHooks** the dashboard's cache
keys and what each mutation does to them; **WebPages** what each screen mounts and
offers under which gate. These are tables, read off the code endpoint by endpoint and
hook by hook. **WebClient** is the behaviour over them: one member, one cache entry
(any of them), fetches and a change under way, guesses, lost answers, and a role that
changes on the server.

**Page** is the row of a status page. Beside it stand **StatusPage** (components: create,
reorder, remove, and the status they derive), **StatusIncidents** (an update is inserted,
copied to its incident, and mailed to the subscribers; subscribe, confirm and unsubscribe
each read and then write) and **CustomDomain** (create, verify through a DNS that changes
and fails, remove, resolve).

An MC module that gathers several components has a variable `part` that says which of
them moves. They share no variable but the page's row (which moves with each), and
billing meets the limits only in the plan, which PlanLimits lets change to any tier at
any time; so every behaviour of the product, seen by one part, is one that the run
explores, and the product itself would only multiply states.

## 3. The runs

Every passing run is complete (no state constraint). `CHECK_DEADLOCK FALSE` in all:
the bounds on incidents, faults, events and requests let the system stop.

| run | question | instance |
|---|---|---|
| `api` | Is the fingerprint always freed (`KeyIsFreed`), at most one incident OPEN (`AtMostOneOpen`), and one that was resolved quiet for good (`EndedStaysQuiet`), when requests to acknowledge, resolve and edit race a check that may die anywhere? | 1 checker, 1 request, 1 fault, 2 incidents |
| `overlap_faults` | Two overlapping jobs, two of which die: is an opening told at most once, flapping silent, and IncidentBoard (no acknowledgement, resolved for good) implemented? | 2 checkers (symmetric), `FlapThreshold` 1 so that suppression happens, 2 incidents |
| `heartbeat` | While pings race freshness checks and pause, resume and remove: is a recovery told once, and only of an opening that was told? | 1 checker, 1 pinger, 1 request |
| `settled` | One check at a time, a window that comes, goes and is deleted, thresholds in 1..2 edited while counters run: do health and incidents agree, are thresholds obeyed, does every told beginning get its end, do incidents end? | 1 checker, 1 window, 1 request that edits, fair |
| `fair_overlap` | Although two jobs overwrite each other's counters, is a target that stays down or up shown so in the end? | 2 checkers, thresholds 2, fair |
| `delivery` | Alerts: are rows and timeline truthful, does a duplicate need a mishap, does every queued delivery settle? Integrations: is the history honest, an event sent once, and no target of a fan-out forgotten? | 2 workers, 2 attempts; a channel with and one without transport, 2 mishaps; 1 target, 2 tellings of an event and a test, 1 trouble; fair |
| `escalation` | Do all steps fire in order and in the end, is nobody mailed twice, is there one chain, is a closed incident quiet? | 1 worker, policies of two steps repeated once and of one step, a person, a schedule and a channel as targets, 1 mishap, 3 attempts, fair |
| `background` | Do tick, backfill and every reader agree (`ReadersAgree`) and catch up with the results (`RowsCatchUp`)? Does an alarm mean that every attempt, and every registry asked, failed (`AlarmIsUnanimous`)? Does a monitor stay coherent under updates that die (`ConfigIsCoherent`), and do the schedulers come to agree with the table (`Converges`)? | 3 days, 2 regions, 1 replica and the backfill; 1 check of 7 targets, 2 mirrors; 2 requests, 2 syncs, 1 failure; fair |
| `organization` | Does the subscription row agree with Stripe once its events have arrived (`RowAgreesWithStripe`)? Do limits hold (`LimitsHold`)? Is a handoff to the next in the rotation (`HandoffGoesToBackup`)? Is nothing offered that the API refuses (`NothingOfferedIsRefused`), and does the screen show what was done (`ScreenIsCurrent`)? | 2 checkouts, 6 events; 2 creators, 1 inviter, 3 tiers; 3 people, 2 editors, 2 types, 2 times of handoff, 2 offsets; every query, every mutation beside it, 2 changes in all, at most 1 of them of the role |
| `status_page` | Do components share a position only where somebody asked for it (`NoTies`), does an incident tell one story (`OneStory`), do mails go to those who consented (`Consent`), and does only a proven hostname resolve (`ResolvedIsProven`)? | 3 components, 2 editors, creations with and without a position; 1 incident, 3 posts, 4 visits; 1 hostname, 2 lookups, 3 changes of the DNS |

Two runs expect a violation; each shows that the code does otherwise than a comment says:

| run | what TLC finds |
|---|---|
| `late_acknowledge` | A request reads the incident OPEN; a check resolves it; the request writes ACKNOWLEDGED by id (`incident.service.ts:166`). The incident is active again without a fingerprint, and the next outage opens a second. |
| `lost_outage` | A job writes DOWN and dies before `openIncident` (`pipeline.ts:288`). Its retry and every later check, which fairness keeps coming, start from DOWN, write DOWN and open nothing: the target stays down for good and never has an incident (`OutageIsRecorded`, a liveness property, so that no state between death and retry can break it). Without a fault the property holds. |

The exceptions a property names (`crossed`, `overlapped`, `raced`, `entry.behind`,
`OnlyCrashes`) are what the code does not handle; each is an entry of the list below,
and the property says that nothing else goes wrong.

### Other divergences

Met while modelling, each in one of the modules but in no run of its own.

Checks and incidents:

* Of two overlapping jobs, a success judged on the snapshot UP overwrites DOWN with UP
  and resolves nothing (`pipeline.ts:288`); UP to UP has no effect, so the incident stays
  open while every check passes: `IncidentsEnd` with two checkers. They can also open an
  incident on failures that were not consecutive (`BlipNeverOpens`), and announce a
  recovery twice when both found the incident (`pipeline.ts:219`, `HonestRecovery`).
* A recovery is announced for an incident whose opening was suppressed as flapping
  (`pipeline.ts:383`; compare the comment at 339-342): `HonestRecovery` with
  `FlapThreshold = 3` and four incidents. `heartbeat` has it out of reach (9).
* One success resolves after maintenance, whatever `successThreshold` says
  (`state-machine.ts:101`; schema.prisma:371-372 says "a single OK never clears one").
* Leaving maintenance with a failure asks to open although an incident is active
  (`state-machine.ts:59`); the fingerprint refuses it.
* A deleted window suppresses until its end (`pipeline.ts:109` does not filter on
  `deletedAt`; `maintenance-window.service.ts:101` says "Soft-deletes a window").
* An outage that a ping ends is announced to nobody (`routes/heartbeats.ts:29` passes
  no dispatcher): `EndIsAnnounced` in `heartbeat`.
* A monitor paused during an incident and resumed never resolves it, for PENDING to UP
  has no effect (`monitor.service.ts:713`): `IncidentsEnd` with pause and resume.
* `http.ts:98-99`: a body cut off at the deadline counts as answered; a registry's 404 or
  empty directory is cached for a day, and DOMAIN checks end in ERROR meanwhile.

Telling:

* `incidentEvent.create` throws after the row became DELIVERED
  (`alerting/processor.ts:108`); the catch turns it to FAILED and the retry sends again.
  Line 34 says "Idempotent (skips an already-delivered row)".
* The job id of a page has no round (`responder-notifier.ts:37`); in the second round
  the mail queue ignores it while it remembers the first, and the timeline says the
  responder was paged (`engine.ts:236-237`: "reports what actually happened").
* A failure of any kind at a target is taken for a duplicate
  (`integrations/dispatcher.ts:108`), so that target is skipped without a row.
* `integrations/processor.ts:120` marks a row SENDING whatever it was, so a stalled run
  sends a SUCCESS row again.

Configuration and schedules:

* Two updates, each coherent with the row it read, are not together
  (`monitor.service.ts:364-366`): `ConfigIsCoherent` without `overlapped`. One that dies
  between deleting assertions and creating them leaves none (`monitor.service.ts:623`).
* Processes that share a region and differ in their first one (`apps/worker/src/index.ts:170`)
  undo each other's work for ever, for the default decides where monitors without a region
  and heartbeats go (`scheduler.ts:61-78`): `Converges` without `OneDefault`. Processes
  that share none both schedule them.
* An old subscription event is written over what a newer one said, and the cancellation of
  a subscription over the one bought since (`billing-webhook.service.ts:185`):
  `RowAgreesWithStripe` without `late` and `doubled`.
* Requests for the last seat race: claims exceed the seats by the other requests under
  way, where `seat-limits.ts:55-56` says they cannot. `LimitsHold` bounds by how much.
* Overlapping edits of a schedule merge into one rotation with tied positions; an
  override or a rotation may name somebody who left; a clock put back repeats a handoff.
* An older statement of two that overlap writes an older count (`aggregate.ts:69`) until
  the next tick; a hole older than the lookback is mended by a backfill only.

Pages and the dashboard:

* An update of an incident is two statements (`status-page.service.ts:940`, `944`): two
  that overlap, or one that dies, leave a status that is not that of the latest update.
* A subscribe that read the row before it was confirmed makes the confirmed subscriber
  pending again (`status-page.service.ts:1070-1095`).
* A retried post sends its mails again (`status-notifier.ts:18-20` says it never does):
  the retry inserts another update, which names other jobs.
* Two creations that read the same last position, and a reorder from a dashboard that
  does not know every component, leave two components at one position; and a reorder that
  parts components at one position moves the last of them to the one a creation has read.
  A request may ask for a position somebody has (`status-page.service.ts:620`, `716`, `757`):
  that is a tie by request, and `NoTies` is about the others.
* A verification writes its verdict by id (`custom-domain.service.ts:266`), also on a row
  removed meanwhile, or over what a later look at the DNS found.
* The component of a deleted monitor shows its last health for ever. A removed hostname
  stays taken. `resolve` does not look at a deleted page. A verification that fails for
  want of DNS makes a VERIFIED hostname PENDING.
* The maintenance page has no gate, so `createWindow` and `deleteWindow` are offered to
  viewers and refused (`roles.ts:9`); the members query is made for developers, who may
  not read members; testing an integration does not refresh its deliveries;
  `useUpdateOrgSettings` sets its entry without stopping a fetch under way.
* The enforce-limit middleware is used by no route; the services check by themselves.

### Bounds, and why they are enough

`MaxIncidents` 2: every property relates at most two incidents, and the second shows
what the first left behind. `MaxFaults`, `MaxMishaps`, `MaxTroubles`, `MaxSyncFailures`,
`MaxFailures`: one or two, as each hazard needs one failure at the wrong place, two for
a failure of the retry. `Lookback` of the pipeline is the largest threshold.
`Thresholds` {1} where the property does not concern them, {1, 2} where confirmation
matters. `CounterCap` is the largest threshold, exact by theorem. `Policies` says
whether a monitor may have an escalation policy; edits in `settled` change the thresholds
of a monitor that has one, those in `api` may give it one or take it away. `Attempts` is 2 for deliveries (5 in
the code): a first, a middle and a last attempt differ only in whether another follows.
`escalation` has the code's own limits (3 attempts, `maxStalledCount: 2`); `delivery`
has `MaxStalls` 1, so that two crashes make the queue give the job up. `MaxTicks` 8 is a
chain of four ticks, doubled by one mishap. The run has one worker: ticks of a chain are
sequential, so a second worker matters only after a hang.

`background`: `LastDay` 2 with `Lookback` 1 and `ChunkDays` 1 gives a day that only the
backfill mends and a cursor that moves; two syncs and two requests are one overlap each; one process serves
both regions and the other the first alone, so that syncs overlap in one of them and both
have the same default, as `Converges` supposes (`OneDefault`).
`Targets` has a target for each branch of validation and retry. `organization`: two
checkouts are two subscriptions of one organization, six events enough for both to begin,
one to change and one to end; `MaxUsed` 3 is above every finite limit; periods of 1 and 2 and `LastInstant`
3 have handoffs and instants between, and one rotation of each length is enough to begin
with, people being alike; `watched` ranges over every query and each screen
with it is visited, so one write covers each pair of mutation and query, and two cover what
the answer to one says of the other, whose answer was lost; writes and changes of the role
are two in all (`FewChanges`), the theorems holding for any number. A member demoted to
viewer keeps some of the reads while one removed keeps none. `status_page`: `Place` {0} is a
position the first component has, one that a request may ask for and that a reorder gives;
`Manual` is the one status a fresh component has, as the checked properties tell none apart; three
posts of one incident are two that overlap and one after; four visits are subscribe, confirm, unsubscribe and any of them again.
One incident, address and hostname, since they do not depend on each other: the theorems
hold for any number.

### Fairness

Fair are the check jobs of `Checker` (the scheduler repeats every active monitor's job
and BullMQ hands it to a worker), the runs of workers, the recovery of stalled jobs
(`stalledInterval`), ticks of the statistics, syncs (both on timers that never stop) and
statements that were sent (`RunStatement`: they are answered). All are weak: a step that
stays enabled is taken. Pings, people's requests, dispatcher calls, backfills, the
target, the DNS, Stripe and the clock are not fair. The liveness properties about
monitors are conditioned on `Watched`: the monitor is active, no window runs, and the
bound on incidents is not what blocks it. `DeliveriesSettle` is conditioned on crashes
and lost answers only (`OnlyCrashes`), and on fewer of them than make the queue give a
job up (`FewCrashes`): a job given up as stalled leaves its row SENDING, and nothing
sweeps such rows. `EveryStepFires` has the same premise for a tick (`Patient`).
`RowsCatchUp` speaks of the days a tick covers, and `Converges` of the queues once
requests have ended, as their bound makes them, and of processes with one default.
`OutageIsRecorded` has the premises of `OutageSurfaces`.

### Abstractions

Incident numbers follow `startedAt`. The verdict of a probe, in CheckPipeline, is
whatever the target was when it ended. A dispatch counts as one notice there (its inside
is AlertDelivery). Audit-log writes are left out (nothing reads them back), as are titles,
texts, branding, latency and percentages. Delays need no clock: a queued job may be taken
any time later. In WebClient a version counts this member's own changes, and what others
change is not promised to anybody before the next fetch.

## 4. What is proved

`CheckPipelineProofs`, for every set of jobs, pings, requests and windows, every
threshold and every bound, from the assumptions `CounterCapAssumption` and
`PipelineAssumption` (the kinds of process are disjoint, thresholds are within the cap,
bounds are naturals).

| theorem | states |
|---|---|
| `CountingIsExact` | capped counters meet a threshold exactly when unbounded ones do |
| `TypeCorrect` | `Spec => []TypeOK` |
| `KeyFreed`, `OneOpen` | `KeyIsFreed`, `AtMostOneOpen`, whoever acknowledges |
| `EndedQuiet` | `EndedStaysQuiet`, whoever acknowledges or resolves, and whenever |
| `ToldOnce`, `FlappingSilent` | `ToldAtMostOnce`, `FlappingIsSilent` |
| `BoardImplemented` | CheckPipeline implements IncidentBoard, when "acknowledge" is not among the operations |
| `EndAnnounced` | `EndIsAnnounced`, of a probed monitor, when "resolve" is not among the operations and no job dies |
| `HealthMatches` | `HealthMatchesIncidents`, of a probed monitor, with one check at a time, none of which dies, and edits and removal as the operations |
| `BlipsOpenNothing` | `BlipNeverOpens`, of a probed monitor, with one check at a time, none of which dies, and any operations; `CounterCap <= Lookback`, so that the property looks far enough back |
| `RecoveryHonest` | `HonestRecovery`, of any monitor and any number of pings, with one check at a time, none of which dies, when "acknowledge" is not among the operations and the monitor has too few incidents to flap |

`KeyInv` strengthens `AtMostOneOpen`: an OPEN incident holds the fingerprint, it is
held by one incident, and only active ones hold it. An acknowledgement that revives a
resolved incident makes it ACKNOWLEDGED, not OPEN, which is why `OneOpen` survives the
race that breaks `AtMostOneActive`, and why an incident that ended stays quiet (`EndedInv`:
one with RESOLVED on its timeline is neither unused nor OPEN, and has no fingerprint). `TellInv` strengthens `ToldAtMostOnce`: the job that
created an incident is the only one that tells of it (`OneTeller`), and its stage says
exactly what was told (`ToldSoFar`). A job that dies leaves the telling stages and no
other job enters them for that incident. `RequestInv` says that without acknowledgements
a request can only resolve; with `KeyInv` every active incident is then OPEN and keyed,
and each step is a step of the board or a stutter.

The hypotheses of the last four theorems are the ones their runs set, and each is needed:
section 3 says what breaks without it. `EndInv`: a resolved incident is announced as
over, or the job that resolved it is at that await. It survives any number of overlapping
jobs, for each of them announces what it closed. `HealthInv` follows the one check through its
awaits (`OnItsWay`): the health and the incidents agree until the row is saved; from there
on the stage of the check says which of the two is ahead, and the check ends only where they
agree again. `RecoveryInv`: an incident was told by the check that made it or is about to
be, and the end of one that has a notice of its end was told once. Pings resolve without
announcing, so they may overlap the check. `BlipInv`: the counter of the row is no more
than the failing results at the end of `check_results`, except between the result and the
row, where the one the check is about to write is. Pausing and resuming only lower the
counter.

`AlertDeliveryProofs`, on the lemmas of `JobQueueProofs`, for every set of channels,
calls and workers, every limit of the queue and any number of mishaps, from
`DeliveryAssumption` and the queue's assumption on its limits: `TypeCorrect`, `Honest`
(`HonestRow`), `DeliveredSurvives` (`DeliveredSurvivesCrashes`) and `CountsHonest`
(`CountsAreHonest`). `TypeInv` adds to the
types that every job is `Sound`: one that has a holder is active and has an attempt left.
`SentInv`: a run about to record a success has seen its message arrive. `CallInv`:
nothing runs before it is queued, and a call queues a delivery once. `CrashInv`: as long
as workers only crash, each run holds the lock of its job, so no two runs share a
delivery, and a run that may still write the row read it before it was delivered. A hang
breaks the first half and a failing statement the second, which is why the property
excludes both. `CountsInv` counts: the runs that have sent and not written the timeline
are at most the messages it lacks, and the messages sent, the runs that may still send and
the attempt the queue is due to hand out are together at most one more than the mishaps.

`IntegrationDeliveryProofs`, likewise for every set of targets, calls and workers:
`HonestHistory` (`SuccessInv`, and `AttemptInv`: while no worker hangs a run holds its
lock and knows the number of its attempt), `SentOncePerEvent` (`SendsInv`, the same
count as for alerts) and `NobodyForgotten` (`FanOutInv`: a row, or a target that a call has behind
it, has its job or somebody is at the statement that adds it). The run `delivery` checks
them through the instance of `MCAlertDelivery`, whose behaviours, `IntegrationsRun` of
`AlertDeliveryProofs` shows, are behaviours of IntegrationDelivery: `HistoryHonest`,
`SentOnce` and `NobodyIsForgotten` there state the properties of the run.

`OrganizationProofs` has four parts. *Limits*, for every catalog of plans and any number
of requests and invitations, from `LimitsAssumption` (requests are finite sets, every tier
has a limit of each resource and at least one seat): `LimitsTypeCorrect`, and
`LimitsBounded` (`LimitsHold`). The bound
on the rows is not inductive, for it says nothing of the requests that have passed the
check and not inserted yet. `LimitsInv` counts both: the rows and those requests together
stay below the highest limit so far and the number of all requests less one. A request
joins them only when the rows it counted are fewer than the limit it read, and no limit
anybody goes by is above the highest (`Remembered`). Invitations likewise.

*Billing*, for any number of checkouts, events and deliveries: `RowComesToAgree`
(`RowAgreesWithStripe`). The property speaks of the moment when all is answered;
`BillingInv` of every moment before: unless there were two subscriptions at once, the
latest batch of events says how Stripe stands (`LatestTells`), and once a snapshot of it
is recorded the row says so (`RowFollows`), whatever came of the batches before, again or
out of order.

*On call*, for any people, editors, periods and times of handoff, of which an edit may pick
others: `HandoffSkipsNobody` (`HandoffGoesToBackup`), when offsets are no further apart
than the shortest period, as daylight saving keeps them. A step takes the local time ahead by at most a period (`TimeMoves`), so the number
of whole periods grows by at most one (`NextPeriod`), and with it the place in the rotation,
after the last the first (`NextPlace`). This is for one order of the rows; rows that tie may
come in several, and the property is about schedules that have one answer now. That
`Cardinality` says so takes a proof that the answers are finite (`AnswersAreFinite`).

*The dashboard*, for any set of queries and any number of changes, of the member's and of
their role: `OfferedIsAllowed` (`NothingOfferedIsRefused`) and `ScreensAreCurrent`
(`ScreenIsCurrent`). `WebInv` has three conjuncts: types; what a request or a fetch under
way was offered to, and to whom it was refused (`Offered`); and that nothing shown, on its
way, or kept to fall back on is ahead of the server, but by a guess the server may still
accept, and nothing trusted is behind what the member was told (`Current`). That a settled
screen is current is not inductive: it says nothing of the fetch whose answer the entry
will be, nor of what a refusal falls back on. The tables enter by four lemmas. Every page,
whatever its gates, offers and mounts for a role what the endpoints allow it, except what
no gate protects (`PagesAllowed`). Every hook fetches again, or shows, each query that
shows what its endpoint changes, except `NotRefreshed` and some pairs that no page has
side by side (`HooksRefresh`, `Elsewhere`, `NeverBeside`). What a hook guesses it fetches
again (`GuessesAreFetched`). And a key invalidates what is below it (`ReachesBelow`). They
are proved from the rows of the tables: endpoint by endpoint, query by query, hook by
hook, page by page.

`StatusPageProofs` has three parts. *Hostnames*, for any number of them, of lookups and
changes of the DNS: `DomainTypeCorrect`, and `ResolvedProven` (`ResolvedIsProven`).
`DomainInv` speaks of what may still be written: records, answers on their way and rows,
deleted or not, that say VERIFIED were published; a lookup is about a row that was there.
*Incidents*, for any number of incidents, posts, addresses and visits:
`OneStoryKept` (`OneStory`) and `ConsentKept` (`Consent`). Both properties are about
things at rest. `StoryInv` and `ConsentInv` carry them through the requests: at most one
request is under way about what is not crossed; the update it has inserted and not copied
is the latest, and what a visit is about to write is what the owner asked for last.
*Components*, for any finite set of components, any editors and any positions asked for:
`PositionsDiffer` (`NoTies`). `BoardInv`: until something is overtaken, the rows that no
request placed have distinct positions (`DistinctPositions`), and at most one creation
keeps a position it read, which is none of theirs (`KeptIsFree`). It survives a creation
because the bottom is below every row (`BottomIsFree`), and a reorder because that gives
each component its turn in a list (`Turns`), below the one that a creation keeps.

`EscalationProofs`, on the lemmas of `JobQueueProofs`, for every set of policies,
responders and workers, every limit of the queue and any number of mishaps, from
`EscalationAssumption` and the queue's: `TypeCorrect`, `ClosedQuiet` (`ClosedIsQuiet`),
`PagesHonest` (`PagesAreHonest`) and `ChainOrdered` (`ChainIsInOrder`). `PageInv`: a page
the mail queue knows was mailed, one it does not know was mailed at most as often as ids
were forgotten, and whom a run lists as paged was. `OrderInv`: a queued tick of a later
step was queued because the step before it fired, which its run knew by then. `ChainInv`:
as long as no lock was lost, a run holds its tick, nobody runs before the starter is done,
and of the ticks that are due or running at most one has not queued its successor yet. A
death between adding the successor and returning breaks this, and the property allows it.

`BackgroundProofs` has three parts. *Alarms*, for every monitor configuration and any
number of checks, servers and redirects, from `ProbesAssumption`: `AlarmUnanimous`
(`AlarmIsUnanimous`). `OnItsWay` says
of a check under way that every attempt before the current one failed, and, once a
registry's servers are to blame, that as many were asked as there are. Both count in the
same fields, attempts and hops, that other kinds of check use for something else.
*Configuration*, for any number of monitors, requests, syncs and deaths:
`ConfigStaysCoherent` (`ConfigIsCoherent`). `ConfigInv`: on a monitor that requests have not
overlapped, at most one is at work, its list of statements is one of the lists an update makes, and
whatever it has left to write fits the row that is there (`Prepared`).
*Statistics*, for any regions, days and replicas: `OneScope`. Every reader of the daily
statistics takes the same rows, since the rows of all regions, which the older readers
prefer, are written by nobody. `ReadersCountAlike`
(`ReadersAgree`) goes on to the numbers, over any number of days: the daily series, the
regions, the monitors and the public history add up to the summary. Every row counts
checks (`TallyInv`), so that rows can be added up at all; every view divides the rows of
the days it asks for (`ViewsDivide`); and the parts of a finite sum come to the whole
(`SumOfParts`). The sums are computed by a fold that puts one element aside at a time:
that the fold has a value (`AddsExists`), the same whichever element is put aside
(`SumWithout`), is shown on a least set for which it fails.

Where a proof needs induction over a finite set (a maximum exists, a count goes down), the
theorems of the library that take an operator as a parameter cannot be used; the modules
argue by cardinality (`FS_Subset`, `FS_Surjection`, `FS_AddElement`) or by a subset of the
least size among those without the property. Functions on data that are computed by a
fold are reasoned about in the same way.

Only model-checked: every liveness property (`IncidentsEnd`, `OutageSurfaces`,
`RecoverySurfaces`, `DeliveriesSettle`, `EveryStepFires`, `ChainDies`, `RowsCatchUp`,
`Converges`), since fairness is out of TLAPS's reach here. Every safety property that a
passing run checks is a theorem.

## 5. Not modelled

* **Notifications** (`packages/notifications`): rendering mails and chat messages, and
  handing them to a provider. Pure I/O; that a send may fail, hang or lose its answer is
  in AlertDelivery and IntegrationDelivery.
* **Authentication and API keys**: sessions are kept by a library; the code adds checks
  request by request, with no protocol of its own.
* **Audit log**: append-only; nothing reads it back into a decision.
* **Database schema, infrastructure**: rows and unique keys are in the modules that use
  them; deployment files have no behaviour.

Partly modelled: comments on incidents and settings of the organization are single
statements; how an assertion compares, latencies and percentages are arithmetic without
state; the configuration and test sends of alert channels, the creation of escalation
policies, rate limits and headers, forms and rendering, and the public pages of the web
application are left out.
