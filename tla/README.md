# BetterStatusPage: verification project

TLA+ models of the server of BetterStatusPage (`src/apps/api`) and of the live part
of its status page (`src/apps/status`), the TLC runs that
check them on small instances, and theorems that TLAPS checks for every value of
the constants. Paths below are relative to `src/apps/api/src/` unless they begin
with `docs/` (the repository's documentation) or `tla/`.

Contents: 1 the system, 2 the plan, 3 modules and code, 4 runs and bounds,
5 fairness, 6 theorems, 7 disagreements between code and documentation,
8 what is not modelled.

## 1. The system

One Node process serves the API, the administration console and the status page,
and runs the background work. All state that must survive is in one SQLite
database, reached through one connection; the rest is in module variables that a
restart empties. JavaScript runs one step at a time, so nothing interleaves
inside a synchronous stretch of code; everything interleaves at an `await`.
A transaction (`withImmediateTransaction`) is one step: transactions queue behind
each other on the connection. The models follow that rule: **an action is the
code between two awaits, or one transaction**, with everything that stretch changes.

The SQLite driver is synchronous (`docs/performance.md`), so awaits of the database
alone hardly ever let other requests in. The modules of steps 5 to 8 therefore take a
handler that awaits nothing but the database as one step, and interleave where the code
waits for a network, a timer or a person. The modules of steps 1 to 4 are finer than
that: they allow every interleaving at an await, a superset of what the driver allows,
so what they show holds for a driver that yields as well.

| Component | State | Operations | Interacts with |
|---|---|---|---|
| Check scheduler, `workers/scheduler.ts` | `inFlight`, `slotLimit`, `slotsInUse`, `slotWaiters`, `background` (memory) | cron tick, claim, hand out slots, run or skip a job, "check now", drain | monitors table, probes, shutdown in `index.ts` |
| Observation recording, `workers/scheduler.ts`, `routes/webhook.ts` | `monitors.current_status`, the `alert_*` columns, `failing_since`; `monitor_results` with their `unconfirmed` mark | `performCheck`, `deliverHeartbeat`, `applyDependencies`, `recordObservation` | alert thresholds, notification planning, action runs, automatic incidents, latency alerts |
| Alert thresholds, `services/alertThresholds.ts` | none (a pure function of the `alert_*` columns) | `evaluateAlertTransition` | observation recording |
| Notification planning, `workers/notifier.ts` | rows of the notification engine (external package) | `planNotifications` in the recording transaction | the engine's delivery queue |
| Action runs, `workers/actionRunner.ts`, `routes/actions.ts` | `action_runs`, `monitor_actions`, `actions`; `activeRuns` (memory) | plan, claim, guards, send, retry, approve, reject, expire, cancel | observation recording, retry worker, administrators |
| Automatic incidents, `services/autoIncident.ts` | `incidents` with `auto_monitor_id` | open for an outage, resolve for a recovery | observation recording, `routes/incidents.ts`, subscribers |
| Incidents, `routes/incidents.ts` | `incidents`, `incident_updates`, monitor links | create, edit, publish, post update, delete | subscribers |
| Subscriber notifications, `workers/subscriberNotifier.ts` | `subscriber_deliveries`; a running pass and a wish for another (memory) | queue, pass over due deliveries, retry, cancel | incidents, subscriptions, retry worker |
| Subscriptions, `services/subscriptions.ts` | `subscribers`, tokens | sign up, confirm, unsubscribe, change, pause | subscriber notifications |
| Maintenance windows, `services/maintenanceSchedule.ts` | `maintenance_windows` | schedule, end early, active now | observation recording, action runs |
| Daily results, `db/dailyResults.ts` | `daily_results`, kept by triggers | insert, re-mark, delete | observation recording, purge |
| Latency alerts, `workers/latencyAnomaly.ts` | `latency_*` columns of monitors | judge a window of response times | observation recording |
| Certificate and domain expiry, `workers/certificate.ts`, `workers/domainExpiry.ts` | warned milestones | compare, warn | probes |
| Static mirror, `services/staticMirror.ts` | its settings; the schedule, one push in flight and the memory of what is uploaded (memory); files on a storage | save, apply, push, push now | the private switch |
| Private page, `services/statusPageAccess.ts`, `statusPageGate.ts` | `status_page_access` | switch, let in, cut off | public routes, static mirror, sessions |
| Public page, `routes/public.ts`, `apps/status/src/App.tsx`, `hooks/useSSE.ts` | a cached status, open streams; in the browser the queries, the stream, its fallback | stream, fetch, refetch, poll, sign in | everything that broadcasts |
| Published monitors, `services/publishedMonitors.ts` | a set of ids (memory) | refresh with the layout | page layout, public routes |
| Monitor dependencies, `routes/monitors.ts` | `monitor_dependencies` | replace, refuse cycles | `applyDependencies` |
| Configuration as code, `kit/config/` | the same tables | validate, plan, apply in one transaction | everything above |
| Accounts, tokens, audit; probes; read-only views; front ends | external packages, or no state of their own | | |

What makes them hard, and what makes them correct:

* **Scheduler.** Ticks overlap because a tick lasts as long as its slowest check.
  A monitor must be checked by one of them at a time and yet never be forgotten,
  slots must be neither lost nor used twice, and the shutdown must close the
  database under no check.
* **Recording.** A check works for seconds on a row it read at its start, while a
  heartbeat, "check now", an edit of the thresholds or a deletion overtakes it.
  Alerts must be neither early nor late; the outage clock, the uptime marks and
  the all-clears must agree with the recorded history.
* **Action runs.** A run is sent over the network, so it can hang, fail, be
  cancelled, outlive its lease, be retried by hand, or be cut off by a crash.
  It must be sent by one attempt at a time, never unapproved, and always end.
* **Automatic incidents.** The decision to open or resolve one is made with the
  recorded observation and carried out several awaits later, beside operators who
  work on the same rows. One incident per outage, resolved once, announced to
  subscribers once it is public and never before.
* **Subscriptions and deliveries.** Coalesced passes, retries by hand, unsubscribing and
  crashes meet while a message is being sent. Nothing goes to who did not agree, what was
  delivered is not sent again, and every delivery ends.
* **Static mirror.** Saves of the settings race the schedule they stop and start, and a push
  takes long enough for the page to become private under it.
* **Public page.** Events, cached answers and answers on their way pass each other, streams
  drop, sessions end. What a viewer sees must catch up with the truth, and must stop when
  the right to see it does.
* **Certificates.** What was read over the network is compared with a row that may have
  changed meanwhile; each reminder is due once per certificate.
* **Maintenance windows.** Occurrences are searched for in local dates, across changes of
  clocks, and one that was ended early is known by the instant it began.

The complete list of hazards, each with its line and the properties that cover
it, is in `PROJECT.json`.

## 2. The plan

The order follows the path of an observation, the product's main promise: it is
scheduled, it is recorded, what follows is sent out, and people read about it.

| Step | Modules | State |
|---|---|---|
| 1 | `AlertThresholds`, `Observations` | modelled, checked, proved |
| 2 | `CheckScheduler` with the abstract `CheckSlots` | modelled, checked, proved, refinement proved |
| 3 | `ActionRuns` with the abstract `RunContract` | modelled, checked, proved, refinement proved |
| 4 | `AutoIncidents` | modelled, checked, proved |
| 5 | `SubscriberDeliveries` with the abstract `Outbox` | modelled, checked, proved, refinement proved |
| 6 | `StaticMirror` | modelled, checked, proved |
| 7 | `StatusPage` | modelled, checked, proved |
| 8 | `CertificateReminders`, `MaintenanceWindows` | modelled, checked, proved |
| 9 | `DailyResults`: the triggers keep the roll-up equal to the sum of the results (`db/dailyResults.ts:43-107`) | next |
| 10 | `LatencyAlerts`: the verdict on a window, written to a row that is as it was judged | planned |
| 11 | `MonitorDependencies`: cycles (`routes/monitors.ts:327-353`) | planned |

Each run asks a question of its own, and where one instance answers safety and liveness
they share a run. Every safety property that a run checks is also a theorem (section 6).

## 3. Modules and code

Each definition's lines are in the `map` of `PROJECT.json`. Definitions whose comment
begins "Planted bug" are not part of a model: they are variants of the definition
after them, with which the corresponding property must fail. Each module has one type
invariant, `TypeOK` (`WindowTypeOK` of windows); where a theorem shows it, it is not in a run.

**`AlertThresholds`** holds `evaluateAlertTransition` and its helpers as operators.

**`Observations`** is one monitor and everything that observes it. `observer` is
what each check or heartbeat under way holds between its awaits (`performCheck`'s
attempts, then `applyDependencies`, then recording). `RecordObservation` is the
whole transaction of `recordObservation`: result, mark, re-marking, alert columns,
outage clock and planned notifications. Dependencies and maintenance windows are
inputs of the step that reads them, so they change at any moment. Results are a
sequence, and a position stands for `checked_at`. `HasOpenAlert` is the answer of
the external notification engine, the last event it was given for this monitor
and channel. `failStreak` and `upStreak` are histories that the properties compare
with the code's own counter.

**`CheckScheduler`** is the scheduling of many monitors: `inFlight`, the three slot
variables, `job` (a scheduled job and how far it is), `manual` ("check now"), `tick`
(what each overlapping tick read or still waits for). `TickClaims` is the synchronous
stretch from the read of the monitors to the first await of the jobs; `Release` is
the `finally` of a job. Time is `due`, which the clock fills and observations empty.
Everything is in memory, so a crash is the initial state again. **`CheckSlots`** says
the same without counters: who holds a slot, the line, the limit.

**`ActionRuns`** is the rows of `action_runs` for one monitor with the attempts that
work on them. `ConfirmStatus` is `planActionRuns` in the recording transaction;
`StartAttempt` is the claim; `PassGuard` and `FailGuard` are the four reads before the
request, one step each; `Succeed` and `Fail` are what an answer writes. The notice of an
outcome is begun with that write (`Announce`) and not waited for: `owed` counts the calls
of `sendActionNotifications` under way, `Tell` is the end of one, and a crash in between
loses it (`unsaid`). One channel stands for all, which are told one by one. The edits are
modelled await by await: PUT of links in four steps, deletion of an action in three,
of the monitor in three. `next` abstracts `nextAttemptAt` to never, later, due, and
`ComesDue` lets time pass. `sent`, `lost`, `told`, `unsaid`, `approved` and `retries` are
histories. Ids and calls that are not in use are alike, so the next one is chosen the
same way every time (`NewIds`, `FreeCall`). **`RunContract`** is what a run promises without claims, leases, guards and the
row's counters: who has it in hand, how many requests went out and how many may. A crash
gives back the request it cut off; a retry by hand adds a full allowance, and only to a run
that has none left.

**`AutoIncidents`** is the end of `recordObservation` and the two services it calls,
with the incident routes. `job[a]` is what a recorder or a request still has to do:
`Record` decides, with the row of its own transaction, whether to open, to look for
an incident to resolve, or nothing. `OpenIncident` and `ResolveIncident` are the two
transactions, `LookForIncident` the read before the second: its query has no order, so
when two incidents of the monitor are open it takes either. A request of an operator
is `BeginEdit` (it reads the row) and `FinishEdit` (it writes what it computed from
that row), for PATCH and for posting an update. `Notify` reads the row again, as
`notifyIncidentSubscribers` does. Whether a new incident is a draft depends on
settings that change at any time and is a free choice of `OpenIncident`. Deleting
the monitor or the incident, and a restart, may come between any two steps. Observers and
operators that are idle are alike, so the next one is chosen the same way every time
(`FreePlace`).

**`SubscriberDeliveries`** is the subscriptions of one mailbox and the deliveries to
them. `row` is the table `subscribers`, `delivery` the table `subscriber_deliveries`;
`pass`, `rerun` and `queue` are the module variables and the batch of
`processDueSubscriberDeliveries`, and `sender` is what each of its parallel loops waits
for, so a loop works on the *copy* of the row that the batch read. `ReadBatch` and
`EndBatch` are the loop of a pass, `Attempt` is `attemptDelivery` up to the transport,
`Succeed`, `Fail` and `CancelUndeliverable` are what it writes, `Fail` together with the
pause of `recordWebhookFailure`, and `MailEnds` the mail it waits for then. `SignUp` to
`SaveSettings` are the calls of visitors, owners and administrators. `agreed`, `streak`,
`overlooked` and `begun` are histories. **`Outbox`** is what a delivery promises without passes,
batches, copies, senders and subscriptions: whether it is out, how many attempts began and
how many may. A row that is purged, or that an event did not make, is void there for good,
although a sender may still have an attempt out for it; a copy in the queue whose row was
purged comes to nothing that the contract can see.

**`StaticMirror`** is the saved copy of the page. `applies` and `stopping` are the chain
of promises of `applyStaticMirror`: calls whose turn has not come, and the one that
waits for the runner to stop with the settings it read. `publisher` is the memory of
what is on one storage, `push` the one push in flight: building, then uploading the
files, then the snapshot. `storage` is what each storage really holds. `SaveAccess` is
the switch that makes the page private.

**`StatusPage`** is one open page. Server side: what an observation, an incident, a save of
the layout or of the access broadcasts (`Sent`) and does to the cached status (`cache`) and
to the viewer's stream (`link`, with `wire` for events on their way). Browser side: the
stream with its fallback timer (`useSSE`), `statusMap` (`live`), the status query and the
incident query with what they show, what they wait for and how they last failed, and the
screen. A request is read by the server (`Answer`) and received later (`Receive`), so events
and answers pass each other. An incident's content is a number, the count of changes so far.
What react-query does is modelled from how the page uses it: an invalidation takes the place
of a request in flight unless it is the first one (`Joins`), a failure keeps the data,
a remount asks for what is stale.

**`CertificateReminders`** is one monitor, its endpoints and the certificates they present,
each one the day it expires. A check reads the row (`BeginRead`), and after the network
answered `ReadSucceeds` decides, tells and writes with that row by id; `PatchConfig` may
come in between. `told`, `allClears` and `mixed` are histories.

**`MaintenanceWindows`** is one window of any kind in one timezone whose clocks change once.
The calendar has `HoursPerDay` and `DaysPerWeek`, and an hour is the unit of clock changes and
of the margin between occurrences. `Scanned` is the loop of `windowOccurrences` with its
early exits, `InstantOf` the two-step conversion of a local time, `Selected` the query of
`activeWindows`. The reference definition of the property, `Occurrences`, lists the dates
from before the window's own start to more than a week from the time that is asked for.
The assumption (`Calendars`) says what a calendar is: days of at least two hours, clocks that
change by one of them, and no change over midnight east of UTC (section 7, item 12).

The components compose through shared definitions and inputs rather than in one product:
`Observations` and `AutoIncidents` share `AlertThresholds`, `ActionRuns` takes any confirmed
status, `SubscriberDeliveries` any published event, and `StatusPage` any change; each is
thereby checked against every behaviour of the other, and more.

## 4. Runs and bounds

| Run | Instance | What it shows |
|---|---|---|
| `observations` | a check with 2 attempts, a heartbeat, thresholds 1 and 2 that change at any time, 4 results | debouncing is exact (`ConfirmedByStreak`), an all-clear for every alert and no other (`AllClearOwed`), the outage clock agrees with the alert state, the failures of a confirmed streak count against uptime |
| `check_scheduler` | 3 monitors, 2 overlapping ticks, limits 1 and 2 | one check per monitor, no slot idle while somebody waits, a quiet shutdown, and the refinement of `CheckSlots` |
| `check_scheduler_live` | 2 monitors, 2 ticks | due monitors are checked, the drain ends |
| `action_runs` | 2 runs of one action that needs approval, 2 overlapping attempts, 2 delivery attempts, 1 retry by hand, 1 crash | one attempt per run though its lease is over, every request on record, notices that are true and come once, the refinement of `RunContract` (final outcomes stay, a run fails exactly when its allowance is used, also after a retry), every run ends |
| `action_runs_edits` | 2 runs, approval and cooldown, 2 edits of links, action, window or monitor | nothing is sent unapproved, one run per cooldown |
| `auto_incidents` | check and heartbeat, 2 operators with 2 edits of every kind (1 in the second outage), 6 observations, 2 incidents, 1 restart | one incident per outage, one resolution unless it was reopened, drafts are silent, an edit from a stale row takes nothing back, a recovery resolves the incident that is open, what is public is announced |
| `subscriber_deliveries` | a webhook that follows 2 events, 2 senders, 2 attempts, paused after 2 failures, 2 calls, 1 crash | attempts are on record, nothing without consent, the refinement of `Outbox` (nothing again, a delivery fails only when its round is used up), no pause without failures, every delivery ends |
| `static_mirror` | 2 storages, 3 saves, 1 loss of files, 1 restart | the last save wins, no upload begins on a private page, a storage gets its copy back |
| `static_mirror_private` | 1 storage, 2 saves | a disagreement, section 7 |
| `status_page` | 2 changes, failures or other happenings, 2 events on the wire | a change a viewer heard of is fetched and not hidden by a cache, streams end with the right to read, the page settles on the truth, a signed-out viewer gets the sign-in screen |
| `certificate_reminders` | 2 endpoints, 2 expiries, lead times 0, 2, 3, reminders 1 and 2, 6 days, 3 edits | each step is told once, nobody is left uninformed |
| `maintenance_windows` | days of 4 hours, weeks of 3 days, 16 changes of clocks less those that do not exist, lengths 1, 3 and 11 hours, 12 hours, 1 edit | the search misses and invents nothing, an early end ends one occurrence |

Why the bounds are enough. Two thresholds of 2 make every streak kind occur: unfinished,
just long enough, interrupted, and shortened in the middle; four results hold a
confirmed failure and its recovery with an observation between. Three monitors and two
slots give a holder, a waiter and a newcomer in every order; two ticks are the least
that overlap and a third differs from neither. Two runs are the least that can
share a cooldown, and two delivery attempts separate the first from the last one.
An outage opens its incident with its second failing observation (`Delay` is a minute, or
one observation here), so five observations are the least for two incidents of the monitor
and six for the recovery of the second outage. `auto_incidents` has six and starts after the
third, in two states that `Init` leads to (`Starts` in `AutoIncidentsMC`): one where nothing
happened yet, which leaves both edits to the first outage, and one where the recovery of
a first outage has just been recorded and its incident is still open. From the second one
both incidents are open together when an operator makes the first active again, two
recoveries are under way at once, and the recovery of one outage meets the incident of the
next. Two deliveries of one webhook are the least that fail
and succeed side by side, and two calls let an owner leave and come back during one
attempt. Three saves turn the mirror off, make the page private and turn either back while
a push of the first is still under way; two storages tell their memories apart. Two
happenings are a change and a failure, or a lost connection and a change, and every state
between them; one event may wait on the wire behind another. Two reminders below a lead
time, one endpoint that renews under another's read, and three edits there and back make
every milestone pass a renewal. The clocks go forward and back at each hour of a day, east
and west of UTC; an occurrence of 11 hours lasts longer than two days and is the longest a
weekly window may have. The bounds (`MaxResults`, `MaxRetries`, `MaxCrashes`, `MaxEdits`, `MaxWindowEdits`,
`MaxObservations`, `MaxIncidents`, `MaxRestarts`, `MaxCalls`, `MaxSaves`, `MaxLosses`,
`MaxHappenings`, `MaxSent`, `LastDay`, `LastHour`) are guards of the actions they bound; the
theorems hold whatever they are. Symmetry is used for one safety run only, `check_scheduler`,
over sets whose members the actions treat alike.

Deadlock is not checked: once the bounded steps are used up, or the monitor or the
process is gone, the system may stop.

## 5. Fairness

* `CheckScheduler`: weak fairness of every step of a tick, of a job and of "check
  now", because the database is local and every probe has a timeout, so every await
  resolves or throws; of `TickStarts`, because cron goes on; of `CloseDatabase`, because
  the shutdown runs on. `DueIsChecked` also needs strong fairness of `TickClaims` and
  `StartJob`: their alternatives are errors of the database, and a tick whose read
  fails every time checks nothing. `DrainEnds` does not rest on it.
* `ActionRuns`: weak fairness of the steps of an attempt (a request ends after the
  15 seconds of `workers/actionHttp.ts`), of time, and of the expiry of approvals.
  Strong fairness that a run is attempted: the worker looks every 30 seconds, and a
  run it skips because an attempt is under way is due again later. Nothing makes an
  administrator approve, reject or retry, and no property needs a notice to arrive.
* `AutoIncidents`: weak fairness of the next step of a job, which awaits the local
  database only. A restart forgets jobs; `RecoveryIsApplied` and `PublicIsAnnounced`
  except it, which is their documented limit. `RecoveryIsApplied` speaks of a recovery
  that finds one incident open; section 7 says what happens to two (item 16).
* `SubscriberDeliveries`: weak fairness of a pass and its end (the worker runs every
  minute), of each sender's next step (mail and webhooks have timeouts), and of time.
* `StaticMirror`: weak fairness of the turns of applies, of the interval and of time;
  strong fairness of building and uploading, for `CopyIsRestored` only: a storage that
  refuses for ever is not filled by anything the code could do.
* `StatusPage`: weak fairness of every timer (reconnect, keep-alive, fallback poll, the
  five-minute refetch, the cached status), of requests being answered and answers received,
  and of lost connections being noticed. Nothing makes anyone look at the window, sign in,
  or visit.

`Observations`, `CertificateReminders` and `MaintenanceWindows` have no liveness property:
that a check is made is the scheduler's.

## 6. Theorems

Each proof module states and proves, for every value of the constants that
satisfies the module's one assumption, that the properties hold of `Spec`.
The assumptions say that numbers are natural numbers (positive where the code
forces it: at least one attempt, thresholds of at least one), that the actors of two
kinds are different, where a cardinality is taken that the set is finite, and which
changes of clocks exist.

* **`ObservationsProofs`** (`ObservationsAssumption`). The strengthening `StreakInv`
  ties the code's one counter, `alert_pending_count`, to the two history streaks:
  while no failure is confirmed it is the streak of failing observations, if it counts
  those at all, and while one is confirmed the streak of `up`. It says nothing of the
  thresholds, which change at any time: each observation is judged by those of its own
  moment. From it: `Debouncing`, and separately `AllClears`, `OutageClocks`
  and `ClocksKeepTheirStart`. `StreaksCount` rests on `StreakMarks`: a result of a window
  is marked as such or is an `up` that counts, every failure of an unconfirmed streak waits,
  and if anything counts there is a last result that does (`LastCountedExists`). That
  one is a fact about finite sequences, but it would take an induction over the
  history; carried as a part of the invariant it is preserved step by step. The step
  that confirms re-marks from behind the last result that counts, and no member of the
  streak is before that one unless an `up` of a window lies in between, which is what
  `ConfirmedStreakCounts` excepts.
* **`CheckSchedulerProofs`** (`SchedulerAssumption`). The inductive invariant `IInv` joins
  the type invariant, `SlotsAccounted`, `NoIdleSlot`, `OneCheckPerMonitor`, that a job
  belongs to exactly one checking tick (`JobsOfTicks`), and what closing leaves behind.
  The parts need each other: that a slot is given back once rests on the claim, which
  rests on the jobs of the ticks. Lemmas about serving the front of a queue without
  repetition carry the counting. From it: `MutualExclusion`, `Accounting`,
  `NoLostWakeup`, `QuietShutdown`, and `SlotsImplementContract`, where a claim maps to
  `Join`, the end of a job to `Leave`, and all other steps to stutters.
* **`ActionRunsProofs`** (`ActionRunsAssumption`). `OneAttemptPerRun` is not inductive: it
  needs that every attempt under way has its run in `activeRuns` (`Registered`), and a
  crash ends the attempts and empties the set together. `NothingSentUnapproved` needs that no attempt is under
  way for a run that was never approved (`ApprovedBeforeAttempt`). For `NoticesTruthful` the
  proof counts the notices that were begun (`Begun`): an outcome begins one of its kind
  (`NoticeOfOutcome`), and `Tell` and a crash only move notices from those under way to those
  that were given or lost; a retry needs that an unused row has no history (`Unwritten`). `StatusFits` says that no run waits for
  a status that is over; `Finality` follows from the steps.
  `Requesting` rests on a second invariant, `Accounts`, inductive given the first: the books
  of a run balance up to one request of a cancelled run (`Balanced`), exactly while a
  call works on it (`BalancedAtWork`), and a run that may still send has an attempt left
  even if it was cancelled in between (`Sendable`). The cardinality in the property is a
  number 0 or 1 (`Out`) because of `OneAttemptPerRun`. All steps that are not an attempt's
  move rows in a few ways only (`RowMoves`, `Reopens`), which are compared with the books
  once. `OneRun` is inductive along the same steps: each keeps what counts for a cooldown
  or takes away from it (`CoolsOff`), and planning adds one run of a link that has none.
  `RunsImplementContract` maps a row to `RunOf` and `AllowedOf` and the calls that work on it
  to `HandOf`: the claim maps to `Take`, the last guard to `Send`, the first guard that does
  not hold to `Drop`, the outcome to `Answer`, planning, expiry, cancelling and every edit to
  `Plan`, and the first three guards to stutters. That a retry adds its allowance to a
  run without any left, and that a run fails exactly then, is where `Accounts` is needed.
* **`AutoIncidentsProofs`** (`AutoIncidentsAssumption`). `Inv` adds to the properties that
  ids are given out in order (`IdsInOrder`), that the start of an outage is never 0, the
  mark of a row never stored (`StartsArePositive`), that fresh rows have no history
  (`FreshIsBlank`) and that an open incident has its resolutions spent
  (`ResolutionsSpent`). From it: `OnePerOutage`, `Resolutions`, `Silence`; and
  `NothingTakenBack` from types and steps.
* **`SubscriberDeliveriesProofs`** (`SubscriberDeliveriesAssumption`). The invariant has three
  groups. `Holding`: between passes nothing is held, and every copy a pass holds, in its
  queue or with a sender, is the only one of its delivery and agrees with the row, or the
  row was purged. `Counting`: a pending row has an attempt left, a failed one has none, and
  attempts begun are those on the row and the one that is out. `Subscribed`: what receives
  was agreed to, and a count of failures is backed by deliveries that failed. Copies stay fresh because only the pass
  writes pending rows and there is one pass, which is why the three belong together. From it:
  `OnRecord`, `ConsentKept`, `EndedStays`, `PausesEarned`. `DeliveriesImplementOutbox` looks at a
  step delivery by delivery (`Unmoved`): a fan-out maps to `Post`, an attempt to `Begin`, an
  outcome to `Answer`, a cancellation to `CallOff`, a retry to `Again`, deletions to `Forget`; an
  attempt, an outcome or a cancellation of a delivery whose row is gone maps to a stutter,
  and so does everything that happens to subscriptions and to the batch. That an outcome
  finds the row as the copy has it (`Matches`) is what makes the round exact.
* **`StaticMirrorProofs`** (`StaticMirrorAssumption`). `LastSaveWins` needs `LastRead`: an apply
  whose settings are outdated always has another one behind it. `Memory`, that a push never
  skips a file that was not uploaded to its storage, needs `OneStorage`: the memory is only
  replaced between pushes. From it also `PrivateBegins`.
* **`CalendarProofs`**, of certificates (`CertificateAssumption`). `StepToldOnce` needs that what was
  told of the present endpoint is on the row, as that certificate with a step at least as
  late or as one that came after it (`OnTheRow`); this survives because a read that no change
  of the endpoint overtook still has the row's own values (`Aligned`), and one that was
  overtaken finds nothing told of the new endpoint (`NothingToldYet`). `Informing` needs the
  converse of `OnTheRow`: a step that is on the row was told (`WarningsAreTold`), so what a read
  leaves out because of the row has really been said.
* **`CalendarProofs`**, of maintenance windows (`MaintenanceAssumption`; the same module, for the
  two components that count in dates, which is why the state machine of the windows is
  `WindowInit`, `WindowNext` and `WindowSpec`). There is no induction in the
  search itself: everything follows from what one change of clocks does to local time.
  `Conversion` says that the two steps of `instantOf` are exact but for the skipped hour,
  which falls next to the change; hence the wall clock (`WallClock`), that an occurrence is
  on its date or, where the first hour of a date is skipped, on the last hour before it
  (`Starting`), and that later dates have later occurrences, apart by the dates less an hour
  (`Apart`). `RunningSearched` shows that what runs lies between the first and the last
  date of the search, `ComingDate` that the search holds a chosen date still to come. It uses
  the day that `SCAN_DAYS` has more than a week, for the day that a change of clocks may add to
  the length of a window, and for the hour before the clocks skip the first hour of a date,
  when that date's occurrence has begun already. The early exits are right because
  of `Apart`: what is skipped is past the recurrence's end or later than the next occurrence
  (`SameRunning`, `SameNext`), and the query before the search leaves out nothing that runs
  (`QuerySelects`). `ListIsComplete` justifies the reference: what its list leaves out cannot
  run or come next. For `EndCutsOne` the row must be one that `windowProblem` accepts, and an
  early end be before now and after the start it belongs to (`WindowInv`, which is inductive).
  `Gap` shows by arithmetic on weekdays that chosen dates are at least as far apart as
  `maxOccurrenceMs` takes them to be, `NoOverlap` that the hour it subtracts is the one that
  clocks may take, and `EndedBefore` that an early end which is overwritten belonged to an
  occurrence that is over by its length too.
* **`StatusPageProofs`** (`StatusPageAssumption`). A change that a viewer was told of could hide
  in the cached status, in an answer on its way, in the view a query rests on, and behind an
  event that is still on its way while the cache is filled again; `Refetching` bounds each of
  the four by what was heard. `CacheIsNotBehind` is what the reset of the cache with every
  broadcast gives, `AnswersNotBehind` what the restart of a request by an invalidation gives.
  From it `Refetched`; `AnonymousStreamsEnd` from the steps; and `StreamAndFallback`, an
  invariant of its own (`StreamFitsPage`) of the stream, its timer and what is shown.

Only model-checked: the liveness properties (out of the prover's reach, like `ENABLED`):
`DueIsChecked`, `DrainEnds`, `EveryRunEnds`, `RecoveryIsApplied`, `PublicIsAnnounced`,
`EveryDeliveryEnds`, `CopyIsRestored`, `ExpiredStreamEnds`, `PageSettles` and
`SignedOutLeaves`. No module uses a `RECURSIVE` operator.

## 7. Disagreements between code and documentation

One has a run that shows it:

1. *A private page* (`static_mirror_private`). `docs/static-fallback.md:140` says that a private
   page is never uploaded. A push that has begun to upload goes on after the mirror was turned
   off and the page made private (`services/staticMirror.ts:200, 238`). `NoUploadBeginsPrivate`
   states what does hold.

The others were met while modelling. The properties that hold are stated so that they except
these cases and nothing else.

2. *Streaks across a window.* The comment at `workers/scheduler.ts:236` says that the failures
   waiting for confirmation now count. The scan (line 243) stops at the last counted result,
   and a healthy observation inside a window is one although it leaves the streak alone, so
   the failures before it never count.
3. *Cooldown.* `docs/actions.md:60` says an action does not run again within the cooldown. A run
   that is cancelled by a recovery while its request is out does not count
   (`workers/actionRunner.ts:94`), so both requests are sent.
4. *Five unconfirmed subscriptions.* `docs/subscriptions.md:64` says at most five per address. The
   limit is compared only for a destination without a row (`services/subscriptions.ts:439`); one
   that was unsubscribed, or whose link expired, becomes pending again without it. Likewise the
   ten minutes between confirmation mails do not apply after unsubscribing (lines 420-426).
5. *Failures in a row.* `docs/subscriptions.md:97` says that any successful delivery resets the
   count. A success does so only if the row it read before sending already had failures
   (`workers/subscriberNotifier.ts:314`); a failure counted by another sender meanwhile stays.
   The notice of a pause is sent once, without a retry.
6. *What opens with the stream.* `useSSE.ts:33` and `:66` say that the page polls while the stream is
   down. The first poll comes after 30 seconds, the stream opens again after about two, which
   stops the poll and refetches nothing: an incident announced in between is missing from the
   incident list, which has no interval of its own, until the next event. Deleting an incident
   is never broadcast (`routes/incidents.ts:157`).
7. *Status over the stream.* The status received over the stream covers a refetched one until the
   stream drops; a monitor that was taken off the page and put back keeps the one from before
   (`docs/customizing-the-status-page.md:262` describes the five-minute refetch as the fallback).
   `PageSettles` therefore asks that the monitor stays on the page.
8. *A second refusal.* The effect that takes a viewer back to the sign-in screen runs when the
   refusal is new. If the access check it asks for fails, later refusals do not repeat it
   (`App.tsx:184`); `SignedOutLeaves` speaks of a page that was not refused yet.
9. *Push now* uploads everything at once (`docs/static-fallback.md:53`), but while a push is in
   flight it returns that one (`services/staticMirror.ts:215`).
10. *A new endpoint's certificate.* `docs/monitors.md:784` says a change of the URL forgets what was
    known about the old certificate. A check that was reading the old one writes its expiry,
    milestone and time over the reset (`workers/certificate.ts:135`), which may announce a
    renewal that was none, or hide a warning. `ReadInforms` excepts such a read (`mixed`).
11. *An early end stays* (`docs/incidents-and-maintenance.md:227`, `routes/maintenance.ts:192`), unless
    the window is then changed to one that does not repeat: that branch
    (`services/maintenanceSchedule.ts:90`) does not look at early ends, and the occurrence runs again.
12. *The first date of the search.* The comment at `services/maintenanceSchedule.ts:99` would not hold
    east of UTC for clocks that go forward over midnight, where an occurrence in the skipped hour
    is moved to the date before. No timezone does so with whole hours, and the assumption
    `Calendars` leaves it out (`OverMidnight`); the proofs use it in `Starting` and nowhere else.
13. *A recovery overtakes the opening; an edit clears `resolvedAt`.* With a driver that yields at each
    await, a recovery recorded while the incident of its outage is being written finds nothing to
    resolve (`services/autoIncident.ts:86, 102, 135`; `docs/incidents-and-maintenance.md:163`), and an
    edit without a status that read the row before a recovery clears `resolvedAt` of a resolved
    incident (`routes/incidents.ts:137`, comment at line 30). A process that stops between the
    commit of a recovery and its resolution leaves the incident open with any driver.
14. *Deleting an action* cancels its waiting runs before it removes its links (`routes/actions.ts:164`), so a
    run planned in between would outlive it until its next attempt; and the comment at
    `services/alertThresholds.ts:28` calls the first check after `pending` immediate, but a failing
    first check waits for `failure_threshold` like any other.
15. *Told once.* `docs/actions.md:106` says that each ticked channel is told once, after the last
    attempt has failed. The row is committed first, and the notice is neither awaited nor
    stored (`workers/actionRunner.ts:220, 235`): a process that stops in between, or an action
    deleted in between, leaves the channel untold for good, and so with a success (line 110). After a retry by
    hand a run has a notice of each round, and the one of the first round may come last.
    `NoticesTruthful` counts the notices that were lost so apart from those that were given.
16. *At most one open automatic incident* (`docs/incidents-and-maintenance.md:162`, and the comment at
    `services/autoIncident.ts:81`). What is compared before one is opened is only the start of
    the outage (line 105), so an incident of an earlier outage that an operator made active
    again, or whose recovery a restart lost, does not keep a second one from being opened. The
    recovery then resolves the first row that a query without an order returns (line 76), the
    other one stays open, and no later observation of that recovery resolves it, although line
    163 of the documentation says that it does. This does not depend on the driver.
    `OneIncidentPerOutage` and `RecoveryIsApplied` state what does hold.

## 8. What is not modelled

Planned components are in section 2. Left out for good: probes and channels (network
input and output; their verdicts are inputs), rendering, templates and translations,
read-only views, accounts and tokens (external packages), the front ends except the live
part of the status page, and migrations (one transaction at start). A large part of the
repository is interface code (the page builder, the admin pages, the blocks of the status
page): it draws what the server says and keeps no state that the server relies on.

Inside the modelled components: response times, retention and the purge timers of results,
"test action", changes of `requiresApproval` or a cooldown while runs exist, two PUTs of the
same links at once, incidents created by hand and explicit resolution times; tokens, input
checks and RSS of subscriptions, and maintenance notices, which are queued and sent like
incidents; what a snapshot contains; the layout and maintenance queries of the page (they
behave as the two that are modelled), a second try of a failed request (a failure stands for
both), and timers of background tabs; deletion of a monitor during a certificate read, a
crash between its row and its notices, and renewals to an earlier expiry; errors of the database
in the middle of a delivery pass or of a notice; changes of an action's channels while a notice
is under way, and the notices that ask for an approval; lost connections of a viewer that are
never noticed; timezone edits, minutes (clocks change by whole hours, and by one), and the list
of live windows.
