---------------------------- MODULE Observations ----------------------------
(***************************************************************************)
(* One monitor and everything that observes it: the scheduled check (or    *)
(* "check now") with its attempts, heartbeats delivered at any moment      *)
(* between its steps, the dependency rule, maintenance windows, and the    *)
(* transaction of recordObservation, which moves the stored result, the    *)
(* alert_* columns, the outage clock, the uptime marks and the planned     *)
(* notifications together.  Translated from workers/scheduler.ts           *)
(* (performCheck, applyDependencies, recordObservation), routes/webhook.ts *)
(* (deliverHeartbeat) and workers/notifier.ts (planNotifications).         *)
(*                                                                         *)
(* Monitors do not share any of this state, so one monitor is modelled.    *)
(* What the code reads of its surroundings is an input of the step that    *)
(* reads it: whether a dependency is failing, and whether a maintenance    *)
(* window covers the monitor.  Every observation has a millisecond of its  *)
(* own, so the position of a result in `results` is its checked_at.        *)
(***************************************************************************)
EXTENDS AlertThresholds, Sequences

CONSTANTS
  Check,         \* the one check of this monitor that inFlight lets run
  Heartbeats,    \* heartbeat requests that can be in progress together
  Retries,       \* monitors.retries: attempts of one check
  MaxThreshold,  \* the largest threshold an administrator sets
  MaxResults     \* bound: observations recorded in one behaviour

ASSUME ObservationsAssumption ==
  /\ Check \notin Heartbeats
  /\ Retries \in Nat \ {0}
  /\ MaxThreshold \in Nat \ {0}
  /\ MaxResults \in Nat

VARIABLES
  exists,         \* the monitors row is there
  currentStatus,  \* monitors.current_status, the public status
  alert,          \* the alert_* columns
  failingSince,   \* monitors.failing_since; 0 when null
  thresholds,     \* failure_threshold and recovery_threshold
  observer,       \* what each check or heartbeat in progress holds
  results,        \* the monitor's monitor_results rows, oldest first
  outbox,         \* events planned for a linked channel, oldest first
  failStreak,     \* history: judged observations in a row that were failing
  upStreak        \* history: judged observations in a row that were up

history == <<failStreak, upStreak>>
rowVars == <<exists, currentStatus, alert, failingSince>>
vars == <<rowVars, thresholds, observer, results, outbox, history>>

Observers == {Check} \cup Heartbeats

\* monitor_results.unconfirmed.
Counted == 0
Unconfirmed == 1
InMaintenance == 2
Marks == {Counted, Unconfirmed, InMaintenance}

\* `judged` is history: whether the observation moved the alert_* columns.
Results == [status : ObservedStatuses, mark : Marks, judged : BOOLEAN]

Events == {"alert", "recovery"}

Idle == [phase |-> "idle", status |-> None, attempt |-> 0]

\* Nothing; the attempts made so far; a result that still has to pass the
\* dependency rule; a result that is ready to be recorded.
ObserverStates ==
  {Idle}
    \cup [phase : {"probing"}, status : {None}, attempt : 0 .. Retries - 1]
    \cup [phase : {"answered", "ready"}, status : ObservedStatuses, attempt : {0}]

TypeOK ==
  /\ exists \in BOOLEAN
  /\ currentStatus \in Statuses
  /\ alert \in AlertStates
  /\ failingSince \in Nat
  /\ thresholds \in [failure : 1 .. MaxThreshold, recovery : 1 .. MaxThreshold]
  /\ observer \in [Observers -> ObserverStates]
  /\ results \in Seq(Results)
  /\ outbox \in Seq(Events)
  /\ failStreak \in Nat
  /\ upStreak \in Nat

\* A monitor as POST /monitors or a first heartbeat stores it.
Init ==
  /\ exists = TRUE
  /\ currentStatus = "pending"
  /\ alert = Settled("pending")
  /\ failingSince = 0
  /\ thresholds \in [failure : 1 .. MaxThreshold, recovery : 1 .. MaxThreshold]
  /\ observer = [o \in Observers |-> Idle]
  /\ results = <<>>
  /\ outbox = <<>>
  /\ failStreak = 0
  /\ upStreak = 0

-----------------------------------------------------------------------------
(* The check and the heartbeat up to their observation.                    *)

Hold(o, phase, status, attempt) ==
  observer' = [observer EXCEPT ![o] = [phase |-> phase, status |-> status, attempt |-> attempt]]

OnlyObserverMoves == UNCHANGED <<rowVars, thresholds, results, outbox, history>>

\* runCheck or a tick starts performCheck with the row it just read.
StartCheck ==
  /\ observer[Check] = Idle
  /\ exists
  /\ Len(results) < MaxResults
  /\ Hold(Check, "probing", None, 0)
  /\ OnlyObserverMoves

\* One turn of the attempt loop: 'down' is tried again while attempts are left.
Attempt(answer) ==
  LET tried == observer[Check].attempt + 1 IN
  /\ observer[Check].phase = "probing"
  /\ IF answer = "down" /\ tried < Retries
     THEN Hold(Check, "probing", None, tried)
     ELSE Hold(Check, "answered", answer, 0)
  /\ OnlyObserverMoves

\* A check that throws leaves the loop: the exception is the failure.
CheckThrows ==
  /\ observer[Check].phase = "probing"
  /\ Hold(Check, "answered", "down", 0)
  /\ OnlyObserverMoves

\* A heartbeat that says 'up' is not subject to the dependency rule.
HeartbeatArrives(h, status) ==
  /\ observer[h] = Idle
  /\ exists
  /\ Len(results) < MaxResults
  /\ Hold(h, IF status = "up" THEN "ready" ELSE "answered", status, 0)
  /\ OnlyObserverMoves

\* applyDependencies: a dependency that is down, degraded or affected
\* overrides the result.
ApplyDependencies(o, hasDownDep) ==
  /\ observer[o].phase = "answered"
  /\ Hold(o, "ready", IF hasDownDep THEN "affected" ELSE observer[o].status, 0)
  /\ OnlyObserverMoves

-----------------------------------------------------------------------------
(* The transaction of recordObservation; `inMaintenance` is the answer of  *)
(* isInMaintenance inside it.                                              *)

\* The alert_* columns after `status`: frozen while a window runs.
NextAlert(status, inMaintenance) ==
  IF inMaintenance THEN alert
  ELSE EvaluateAlertTransition(alert, status, thresholds.failure, thresholds.recovery)

\* The code's `fire`: the observation confirmed a new status.
Fires(status, inMaintenance) == NextAlert(status, inMaintenance).confirmed # alert.confirmed

\* A failure short of its threshold does not count against uptime (yet).
MarkOf(status, inMaintenance) ==
  IF inMaintenance THEN IF status = "up" THEN Counted ELSE InMaintenance
  ELSE IF Failing(status) /\ NextAlert(status, FALSE).confirmed # status THEN Unconfirmed
  ELSE Counted

\* Where the scan for waiting results begins: after the last counted result.
LastCounted ==
  IF \E i \in DOMAIN results : results[i].mark = Counted
  THEN CHOOSE i \in DOMAIN results :
         /\ results[i].mark = Counted
         /\ \A j \in DOMAIN results : j > i => results[j].mark # Counted
  ELSE 0

\* Planted bug: the waiting results are forgotten.
CountNoneWaiting == results

\* A confirmed failure counts the results that waited for its confirmation.
CountWaiting ==
  [i \in DOMAIN results |->
     IF i > LastCounted /\ results[i].mark = Unconfirmed
     THEN [results[i] EXCEPT !.mark = Counted]
     ELSE results[i]]

NextResults(status, inMaintenance) ==
  Append(IF Fires(status, inMaintenance) /\ Failing(status) THEN CountWaiting ELSE results,
         [status |-> status, mark |-> MarkOf(status, inMaintenance), judged |-> ~inMaintenance])

\* Planted bug: the clock starts with the first failure, confirmed or not.
ClockFromFirstFailure(status, inMaintenance) ==
  IF Fires(status, inMaintenance) /\ status = "up" THEN 0
  ELSE IF status = "down" /\ failingSince = 0 THEN Len(results) + 1
       ELSE failingSince

\* The outage clock: starts on a confirmed 'down', stops on a confirmed 'up'.
NextFailingSince(status, inMaintenance) ==
  IF Fires(status, inMaintenance) /\ status = "up" THEN 0
  ELSE IF ~inMaintenance /\ NextAlert(status, FALSE).confirmed = "down" /\ failingSince = 0
       THEN Len(results) + 1
       ELSE failingSince

\* The notification engine's answer for this monitor and channel.
HasOpenAlert == outbox # <<>> /\ outbox[Len(outbox)] = "alert"

\* Planted bug: a recovery by way of 'affected' is always suppressed.
IsDirectRecovery(status, previous) == status = "up" /\ Failing(previous)

IsRecovery(status, previous) ==
  /\ status = "up"
  /\ \/ Failing(previous)
     \/ previous = "affected" /\ HasOpenAlert

\* planNotifications for one enabled channel that hears about recoveries.
PlanNotifications(status, previous) ==
  IF Failing(status) THEN Append(outbox, "alert")
  ELSE IF IsRecovery(status, previous) THEN Append(outbox, "recovery")
  ELSE outbox

\* History: the streaks of judged observations that `status` extends or ends.
CountStreaks(status) ==
  /\ failStreak' = IF Failing(status) THEN failStreak + 1 ELSE 0
  /\ upStreak' = IF status = "up" THEN upStreak + 1 ELSE 0

RecordObservation(o, inMaintenance) ==
  LET status == observer[o].status IN
  /\ observer[o].phase = "ready"
  /\ exists
  /\ observer' = [observer EXCEPT ![o] = Idle]
  /\ results' = NextResults(status, inMaintenance)
  /\ currentStatus' = status
  /\ alert' = NextAlert(status, inMaintenance)
  /\ failingSince' = NextFailingSince(status, inMaintenance)
  /\ outbox' = IF Fires(status, inMaintenance)
               THEN PlanNotifications(status, alert.confirmed)
               ELSE outbox
  /\ IF inMaintenance THEN UNCHANGED history ELSE CountStreaks(status)
  /\ UNCHANGED <<exists, thresholds>>

\* The row was deleted while its check ran: nothing is recorded.
DropObservation(o) ==
  /\ observer[o].phase = "ready"
  /\ ~exists
  /\ observer' = [observer EXCEPT ![o] = Idle]
  /\ OnlyObserverMoves

-----------------------------------------------------------------------------
(* The administrator.                                                      *)

\* PATCH of the thresholds; the alert_* columns are left as they are.
PatchThresholds(failure, recovery) ==
  /\ exists
  /\ thresholds' = [failure |-> failure, recovery |-> recovery]
  /\ UNCHANGED <<rowVars, observer, results, outbox, history>>

\* Deleting the row takes its results with it; checks in progress go on.
DeleteMonitor ==
  /\ exists
  /\ exists' = FALSE
  /\ results' = <<>>
  /\ UNCHANGED <<currentStatus, alert, failingSince, thresholds, observer, outbox, history>>

Next ==
  \/ StartCheck
  \/ \E answer \in {"up", "down", "degraded"} : Attempt(answer)
  \/ CheckThrows
  \/ \E h \in Heartbeats, status \in {"up", "down", "degraded"} : HeartbeatArrives(h, status)
  \/ \E o \in Observers, hasDownDep \in BOOLEAN : ApplyDependencies(o, hasDownDep)
  \/ \E o \in Observers, inMaintenance \in BOOLEAN : RecordObservation(o, inMaintenance)
  \/ \E o \in Observers : DropObservation(o)
  \/ \E failure, recovery \in 1 .. MaxThreshold : PatchThresholds(failure, recovery)
  \/ DeleteMonitor

Spec == Init /\ [][Next]_vars

-----------------------------------------------------------------------------
(* Correctness.                                                            *)

Judges == exists /\ history' # history

\* Debouncing is neither early nor late, whatever checks, heartbeats, windows
\* and changes of the thresholds come between: a failure is confirmed exactly
\* when the last failure_threshold judged observations were failing, and a
\* recovery exactly when the last recovery_threshold were up
\* (evaluateAlertTransition as recordObservation applies it).
StepConfirmsByStreak ==
  /\ ~Failing(alert.confirmed) /\ Failing(alert'.confirmed) => failStreak' >= thresholds.failure
  /\ Failing(alert.confirmed) /\ alert'.confirmed = "up" => upStreak' >= thresholds.recovery
  /\ Judges /\ failStreak' >= thresholds.failure => Failing(alert'.confirmed)
  /\ Judges /\ upStreak' >= thresholds.recovery => alert'.confirmed = "up"
ConfirmedByStreak == [][StepConfirmsByStreak]_vars

\* A channel that was told of an outage is owed exactly one all-clear: while a
\* failure is confirmed the alert is open, once 'up' is confirmed it is closed,
\* and no all-clear is planned for an outage the channel never heard of, also
\* when the monitor was 'affected' in between (planNotifications).
AllClearOwed ==
  /\ Failing(alert.confirmed) => HasOpenAlert
  /\ alert.confirmed \in {"up", "pending"} => ~HasOpenAlert
  /\ \A i \in DOMAIN outbox :
       outbox[i] = "recovery" => i > 1 /\ outbox[i - 1] = "alert"

\* The outage clock agrees with the alert state: it runs during every confirmed
\* 'down', not after a confirmed 'up', and started at a 'down' observation that
\* itself counts against uptime (failingSince in recordObservation; automatic
\* incidents are measured from it).
OutageClock ==
  /\ alert.confirmed = "down" => failingSince # 0
  /\ alert.confirmed \in {"up", "pending"} => failingSince = 0
  /\ exists /\ failingSince # 0 =>
       /\ failingSince \in DOMAIN results
       /\ results[failingSince].status = "down"
       /\ results[failingSince].mark = Counted

\* A running outage clock is never restarted: an escalation, a move to
\* 'degraded' or 'affected', a window and a racing heartbeat keep its start,
\* and only a confirmed recovery clears it.
ClockKeepsItsStart ==
  [][failingSince # 0 /\ failingSince' # failingSince =>
       failingSince' = 0 /\ alert'.confirmed = "up"]_vars

\* Positions of the unbroken run of judged failures the results end with.
OpenStreak(rs) ==
  {i \in DOMAIN rs :
     rs[i].judged /\ \A j \in i .. Len(rs) : rs[j].judged => Failing(rs[j].status)}

\* Once a failure is confirmed, every failure of its streak counts against
\* uptime, back to the last 'up' seen inside a window if there was one (the
\* scan that recordObservation anchors on the last counted result).
ConfirmedStreakCounts ==
  exists /\ Failing(alert.confirmed) =>
    \A i \in OpenStreak(results) :
      (\A j \in i .. Len(results) : results[j].judged \/ results[j].status # "up")
        => results[i].mark = Counted

==============================================================================
