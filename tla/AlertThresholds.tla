--------------------------- MODULE AlertThresholds ---------------------------
(***************************************************************************)
(* The debouncing of alerts: how one observed status is folded into the    *)
(* alert_* columns of a monitor.  Pure operators, no state; translated     *)
(* from services/alertThresholds.ts.  An alert state is a record           *)
(*    [confirmed, pending, count]                                          *)
(* for alertConfirmedStatus, alertPendingStatus (None when null) and       *)
(* alertPendingCount.                                                      *)
(***************************************************************************)
EXTENDS Integers

FailureStatuses == {"down", "degraded"}

\* What a check, a heartbeat or the dependency rule can report.
ObservedStatuses == FailureStatuses \cup {"up", "affected"}

\* 'pending' is only ever stored by the creation of a monitor.
Statuses == ObservedStatuses \cup {"pending"}

None == "none"

Failing(status) == status \in FailureStatuses

AlertStates == [confirmed : Statuses, pending : ObservedStatuses \cup {None}, count : Nat]

AtLeastOne(n) == IF n < 1 THEN 1 ELSE n

\* Consecutive observations of `observed` needed to leave `confirmed`.
ThresholdFor(confirmed, observed, failureThreshold, recoveryThreshold) ==
  IF Failing(observed) /\ ~Failing(confirmed) THEN AtLeastOne(failureThreshold)
  ELSE IF observed = "up" /\ Failing(confirmed) THEN AtLeastOne(recoveryThreshold)
  ELSE 1

\* Planted bug: down and degraded are separate streaks.
SameStatusOnly(state, observed) == state.pending = observed

\* Leaving a healthy state, down and degraded are one failing streak.
SameStreak(state, observed) ==
  \/ state.pending = observed
  \/ Failing(state.pending) /\ Failing(observed) /\ ~Failing(state.confirmed)

StreakCount(state, observed) ==
  IF SameStreak(state, observed) THEN state.count + 1 ELSE 1

Settled(status) == [confirmed |-> status, pending |-> None, count |-> 0]

\* The alert state after `observed`.  A change of .confirmed is what the code
\* returns as `fire`: status = the new one, previousStatus = the old one.
EvaluateAlertTransition(state, observed, failureThreshold, recoveryThreshold) ==
  IF observed = state.confirmed THEN Settled(state.confirmed)
  ELSE IF StreakCount(state, observed) >=
            ThresholdFor(state.confirmed, observed, failureThreshold, recoveryThreshold)
       THEN Settled(observed)
       ELSE [confirmed |-> state.confirmed, pending |-> observed,
             count |-> StreakCount(state, observed)]
==============================================================================
