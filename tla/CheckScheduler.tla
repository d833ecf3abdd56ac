---------------------------- MODULE CheckScheduler ----------------------------
(***************************************************************************)
(* The scheduling of checks (workers/scheduler.ts): cron ticks that        *)
(* overlap, the inFlight set that lets one check of a monitor run at a     *)
(* time, the slots that bound how many scheduled checks run across all     *)
(* ticks, "check now" requests that bypass the slots, heartbeats and       *)
(* deletions that overtake a queued check, and the drain at shutdown.      *)
(*                                                                         *)
(* Time is abstracted to due[m]: getDueMonitors would select m now.  The   *)
(* clock may make a monitor due at any moment; an observation, or a longer *)
(* interval, makes it not due.  What a check does is Observations.  All of *)
(* this state is in memory: a restart begins with Init.                    *)
(***************************************************************************)
EXTENDS Integers, Sequences, FiniteSets

CONSTANTS
  Monitors,   \* monitor ids; ids are never reused
  Ticks,      \* ticks that can be in progress together
  Limits      \* values of checkConcurrency a tick may be given

ASSUME SchedulerAssumption ==
  /\ IsFiniteSet(Monitors)
  /\ Limits \subseteq Nat \ {0}

VARIABLES
  exists,       \* monitors whose row exists
  due,          \* monitors getDueMonitors selects now
  inFlight,     \* the inFlight set
  slotLimit,    \* the module's slotLimit
  slotsInUse,   \* the module's slotsInUse
  slotWaiters,  \* monitors whose job waits for a slot, in queue order
  job,          \* per monitor: its scheduled job
  manual,       \* monitors a "check now" request is checking
  tick,         \* per tick: nothing, the rows it read, or its claimed jobs
  stopped,      \* stopScheduler was called
  closed        \* drainScheduler returned and the database was closed

slots == <<slotLimit, slotsInUse, slotWaiters>>
vars == <<exists, due, inFlight, slots, job, manual, tick, stopped, closed>>

JobStates == {"none", "waiting", "granted", "running"}

Idle == [phase |-> "idle", of |-> {}]

TypeOK ==
  /\ exists \subseteq Monitors
  /\ due \subseteq Monitors
  /\ inFlight \subseteq Monitors
  /\ slotLimit \in Nat \ {0}
  /\ slotsInUse \in Nat
  /\ slotWaiters \in Seq(Monitors)
  /\ job \in [Monitors -> JobStates]
  /\ manual \subseteq Monitors
  /\ tick \in [Ticks -> [phase : {"idle", "reading", "checking"}, of : SUBSET Monitors]]
  /\ stopped \in BOOLEAN
  /\ closed \in BOOLEAN

Init ==
  /\ exists = Monitors
  /\ due \in SUBSET Monitors
  /\ inFlight = {}
  /\ slotLimit = 1
  /\ slotsInUse = 0
  /\ slotWaiters = <<>>
  /\ job = [m \in Monitors |-> "none"]
  /\ manual = {}
  /\ tick = [t \in Ticks |-> Idle]
  /\ stopped = FALSE
  /\ closed = FALSE

-----------------------------------------------------------------------------
(* Slots.                                                                  *)

Least(a, b) == IF a < b THEN a ELSE b

\* Planted bug: a raised limit is not noticed while every slot is taken.
FreeUnlessBusy(limit, inUse) == IF inUse > 0 /\ limit > 1 THEN 0 ELSE 1

\* Planted bug: the last slot is never given.
FreeLeavingOne(limit, inUse) == IF inUse < limit - 1 THEN limit - 1 - inUse ELSE 0

\* How many more checks may start.
Free(limit, inUse) == IF inUse < limit THEN limit - inUse ELSE 0

\* handOutSlots serves this many waiters from the front of the queue.
HandedOut(queue, limit, inUse) == Least(Len(queue), Free(limit, inUse))

Served(queue, limit, inUse) == {queue[i] : i \in 1 .. HandedOut(queue, limit, inUse)}

\* The slots and jobs after the waiters in `queue` were served under `limit`,
\* with `inUse` slots taken and `jobs` the jobs so far.
HandOutSlots(queue, limit, inUse, jobs) ==
  /\ slotLimit' = limit
  /\ slotsInUse' = inUse + HandedOut(queue, limit, inUse)
  /\ slotWaiters' = SubSeq(queue, HandedOut(queue, limit, inUse) + 1, Len(queue))
  /\ job' = [m \in Monitors |->
               IF m \in Served(queue, limit, inUse) THEN "granted" ELSE jobs[m]]

-----------------------------------------------------------------------------
(* Ticks.                                                                  *)

\* Planted bug: cron goes on after stopScheduler.
TickStartsEvenStopped(t) ==
  /\ tick[t].phase = "idle"
  /\ tick' = [tick EXCEPT ![t] = [phase |-> "reading", of |-> due \cap exists]]
  /\ UNCHANGED <<exists, due, inFlight, slots, job, manual, stopped, closed>>

\* A cron tick reads all monitors; it goes on when the read resolves.
TickStarts(t) ==
  /\ ~stopped
  /\ tick[t].phase = "idle"
  /\ tick' = [tick EXCEPT ![t] = [phase |-> "reading", of |-> due \cap exists]]
  /\ UNCHANGED <<exists, due, inFlight, slots, job, manual, stopped, closed>>

\* Planted bug: the checks of a new tick go before those that already wait.
NewcomersFirst(queue, batch) == batch \o queue

\* acquireSlot queues a check behind those that wait.
Line(queue, batch) == queue \o batch

\* The sequences in which the members of S can come, each once.
Orders(S) ==
  {q \in [1 .. Cardinality(S) -> S] : \A i, j \in DOMAIN q : i # j => q[i] # q[j]}

\* Planted bug: monitors whose check is queued or running are claimed again.
ClaimableIgnoringInFlight(t) == tick[t].of

\* Due monitors that no other tick and no "check now" holds.
Claimable(t) == tick[t].of \ inFlight

\* Claiming, setting the limit and queueing for slots is one synchronous step.
TickClaims(t, limit) ==
  /\ tick[t].phase = "reading"
  /\ inFlight' = inFlight \cup Claimable(t)
  /\ tick' = [tick EXCEPT ![t] = [phase |-> "checking", of |-> Claimable(t)]]
  /\ \E order \in Orders(Claimable(t)) :
       HandOutSlots(Line(slotWaiters, order), limit, slotsInUse,
                    [m \in Monitors |-> IF m \in Claimable(t) THEN "waiting" ELSE job[m]])
  /\ UNCHANGED <<exists, due, manual, stopped, closed>>

\* The read of the monitors throws: the tick ends without a claim.
TickFails(t) ==
  /\ tick[t].phase = "reading"
  /\ tick' = [tick EXCEPT ![t] = Idle]
  /\ UNCHANGED <<exists, due, inFlight, slots, job, manual, stopped, closed>>

\* Slots in use once m gave its slot back.
InUseAfter(m) == slotsInUse - 1

\* The end of a job, however it ended: its slot goes on and its claim ends.
Release(m) ==
  /\ HandOutSlots(slotWaiters, slotLimit, InUseAfter(m), [job EXCEPT ![m] = "none"])
  /\ inFlight' = inFlight \ {m}
  /\ tick' = [t \in Ticks |->
                IF m \in tick[t].of /\ tick[t].phase = "checking"
                THEN [tick[t] EXCEPT !.of = @ \ {m}]
                ELSE tick[t]]

\* With its slot the job takes the current row, and runs it if it is still due.
StartJob(m) ==
  /\ job[m] = "granted"
  /\ m \in exists /\ m \in due
  /\ job' = [job EXCEPT ![m] = "running"]
  /\ UNCHANGED <<exists, due, inFlight, slots, manual, tick, stopped, closed>>

\* The monitor was deleted or observed while its job was queued.
SkipJob(m) ==
  /\ job[m] = "granted"
  /\ m \notin exists \/ m \notin due
  /\ Release(m)
  /\ UNCHANGED <<exists, due, manual, stopped, closed>>

\* The check records its observation, if the row is still there.
FinishJob(m) ==
  /\ job[m] = "running"
  /\ due' = due \ {m}
  /\ Release(m)
  /\ UNCHANGED <<exists, manual, stopped, closed>>

\* Reading the row or recording the observation throws.
FailJob(m) ==
  /\ job[m] \in {"granted", "running"}
  /\ Release(m)
  /\ UNCHANGED <<exists, due, manual, stopped, closed>>

\* Promise.all of the tick's jobs has resolved.
TickCompletes(t) ==
  /\ tick[t].phase = "checking"
  /\ tick[t].of = {}
  /\ tick' = [tick EXCEPT ![t] = Idle]
  /\ UNCHANGED <<exists, due, inFlight, slots, job, manual, stopped, closed>>

-----------------------------------------------------------------------------
(* "Check now", heartbeats and the administrator.                          *)

\* runCheck: skipped when a check of the monitor is queued or running.
ManualStarts(m) ==
  /\ ~closed
  /\ m \in exists
  /\ m \notin inFlight
  /\ inFlight' = inFlight \cup {m}
  /\ manual' = manual \cup {m}
  /\ UNCHANGED <<exists, due, slots, job, tick, stopped, closed>>

\* The check recorded its observation, or threw; either way the claim ends.
ManualEnds(m, threw) ==
  /\ m \in manual
  /\ due' = IF threw THEN due ELSE due \ {m}
  /\ inFlight' = inFlight \ {m}
  /\ manual' = manual \ {m}
  /\ UNCHANGED <<exists, slots, job, tick, stopped, closed>>

\* A heartbeat counts as a check, a longer interval postpones the next one.
ObservedOrPostponed(m) ==
  /\ m \in due
  /\ due' = due \ {m}
  /\ UNCHANGED <<exists, inFlight, slots, job, manual, tick, stopped, closed>>

BecomesDue(m) ==
  /\ m \in exists \ due
  /\ due' = due \cup {m}
  /\ UNCHANGED <<exists, inFlight, slots, job, manual, tick, stopped, closed>>

DeleteMonitor(m) ==
  /\ m \in exists
  /\ exists' = exists \ {m}
  /\ due' = due \ {m}
  /\ UNCHANGED <<inFlight, slots, job, manual, tick, stopped, closed>>

-----------------------------------------------------------------------------
(* Shutdown.                                                               *)

StopScheduler ==
  /\ ~stopped
  /\ stopped' = TRUE
  /\ UNCHANGED <<exists, due, inFlight, slots, job, manual, tick, closed>>

\* Planted bug: the drain looks at the slots and not at the ticks.
DrainedSlots == slotsInUse = 0

\* No tick is left in `background`.
Drained == \A t \in Ticks : tick[t].phase = "idle"

\* Requests have ended before the background work is drained.  The process may
\* also be killed (shutdownDeadlineMs): then nothing runs and nothing is left.
CloseDatabase ==
  /\ stopped /\ ~closed
  /\ manual = {}
  /\ Drained
  /\ closed' = TRUE
  /\ UNCHANGED <<exists, due, inFlight, slots, job, manual, tick, stopped>>

-----------------------------------------------------------------------------
JobStep(m) == StartJob(m) \/ SkipJob(m) \/ FinishJob(m) \/ FailJob(m)

TickStep(t) == (\E limit \in Limits : TickClaims(t, limit)) \/ TickFails(t) \/ TickCompletes(t)

Next ==
  \/ \E t \in Ticks : TickStarts(t) \/ TickStep(t)
  \/ \E m \in Monitors : JobStep(m)
  \/ \E m \in Monitors : ManualStarts(m)
  \/ \E m \in Monitors, threw \in BOOLEAN : ManualEnds(m, threw)
  \/ \E m \in Monitors : ObservedOrPostponed(m) \/ BecomesDue(m) \/ DeleteMonitor(m)
  \/ StopScheduler
  \/ CloseDatabase

Spec == Init /\ [][Next]_vars

\* Every await of a tick, a job or a request resolves or throws: the database
\* calls are local and every check has a timeout.  Cron keeps ticking.
Fairness ==
  /\ \A t \in Ticks : WF_vars(TickStep(t)) /\ WF_vars(TickStarts(t))
  /\ \A m \in Monitors : WF_vars(JobStep(m)) /\ WF_vars(\E threw \in BOOLEAN : ManualEnds(m, threw))
  /\ WF_vars(CloseDatabase)

FairSpec == Spec /\ Fairness

\* Reading and recording succeed again and again, for every tick and monitor.
ReliableSpec ==
  /\ FairSpec
  /\ \A t \in Ticks : SF_vars(\E limit \in Limits : TickClaims(t, limit))
  /\ \A m \in Monitors : SF_vars(StartJob(m))

-----------------------------------------------------------------------------
(* Properties.                                                             *)

Queued == {slotWaiters[i] : i \in DOMAIN slotWaiters}

Holding == {m \in Monitors : job[m] \in {"granted", "running"}}

\* One check of a monitor at a time, whatever overlaps: no two ticks hold the
\* same monitor, no "check now" runs beside a queued or running job, and the
\* inFlight set is exactly the monitors with a job or a "check now", so a claim
\* neither leaks nor ends early.
OneCheckPerMonitor ==
  /\ inFlight = {m \in Monitors : job[m] # "none"} \cup manual
  /\ \A m \in manual : job[m] = "none"
  /\ \A t, u \in Ticks :
       t # u /\ tick[t].phase = "checking" /\ tick[u].phase = "checking"
         => tick[t].of \cap tick[u].of = {}

\* The counter and the queue agree with the jobs: slotsInUse counts the jobs
\* that hold a slot, and exactly the waiting jobs are queued, each once.
SlotsAccounted ==
  /\ slotsInUse = Cardinality(Holding)
  /\ Queued = {m \in Monitors : job[m] = "waiting"}
  /\ \A i, j \in DOMAIN slotWaiters : i # j => slotWaiters[i] # slotWaiters[j]

\* No wakeup is lost: a check waits only while every slot is taken, also after
\* a tick raised the limit or a job ended without a check.
NoIdleSlot == slotWaiters # <<>> => slotsInUse >= slotLimit

\* Nothing runs after the database was closed: the drain at shutdown outlasts
\* every tick, queued job and check (drainScheduler).
ClosedQuietly ==
  closed =>
    /\ inFlight = {}
    /\ \A t \in Ticks : tick[t].phase = "idle"

Contract == INSTANCE CheckSlots WITH
  holding <- Holding, line <- slotWaiters, limit <- slotLimit

\* Slots are a bounded first-come-first-served resource across all ticks: the
\* counters, the queue and the two places that hand out slots implement CheckSlots.
ImplementsSlots == Contract!Spec

\* A monitor that stays due is checked, although ticks overlap, slots are
\* scarce, reads may fail now and then and "check now" takes the claim.
DueIsChecked ==
  \A m \in Monitors :
    m \in due ~> m \notin due \/ job[m] = "running" \/ m \in manual \/ stopped

\* Shutdown gets past the drain: after stopScheduler every tick ends and no
\* other one begins.
DrainEnds == stopped ~> [](stopped /\ Drained)
==============================================================================
