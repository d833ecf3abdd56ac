-------------------------- MODULE ObservationsProofs --------------------------
(***************************************************************************)
(* Theorems about Observations, for every number of heartbeats, every      *)
(* number of attempts, all thresholds and histories of any length.         *)
(***************************************************************************)
EXTENDS Observations, TLAPS

\* The fold of one observation yields an alert state.
LEMMA TransitionType ==
  ASSUME NEW state \in AlertStates, NEW observed \in ObservedStatuses,
         NEW f \in Nat, NEW r \in Nat
  PROVE  EvaluateAlertTransition(state, observed, f, r) \in AlertStates
<1>1. StreakCount(state, observed) \in Nat
  BY DEF StreakCount, AlertStates
<1>2. observed \in Statuses
  BY DEF Statuses
<1> QED
  BY <1>1, <1>2 DEF EvaluateAlertTransition, Settled, AlertStates

\* Counting the waiting results keeps the list of results well formed.
LEMMA CountWaitingType ==
  ASSUME results \in Seq(Results)
  PROVE  CountWaiting \in Seq(Results)
<1>1. ASSUME NEW result \in Results
      PROVE  [result EXCEPT !.mark = Counted] \in Results
  BY DEF Results, Marks
<1>2. \A i \in 1 .. Len(results) : results[i] \in Results
  OBVIOUS
<1>3. CountWaiting \in [1 .. Len(results) -> Results]
  BY <1>1, <1>2 DEF CountWaiting
<1> QED
  BY <1>3

LEMMA NextResultsType ==
  ASSUME TypeOK, NEW status \in ObservedStatuses, NEW inMaintenance \in BOOLEAN
  PROVE  NextResults(status, inMaintenance) \in Seq(Results)
<1>1. MarkOf(status, inMaintenance) \in Marks
  BY DEF MarkOf, Marks, Counted, Unconfirmed, InMaintenance
<1>2. [status |-> status, mark |-> MarkOf(status, inMaintenance), judged |-> ~inMaintenance]
        \in Results
  BY <1>1 DEF Results
<1> QED
  BY <1>2, CountWaitingType DEF NextResults, TypeOK

LEMMA NextAlertType ==
  ASSUME TypeOK, NEW status \in ObservedStatuses, NEW inMaintenance \in BOOLEAN
  PROVE  NextAlert(status, inMaintenance) \in AlertStates
<1>1. thresholds.failure \in Nat /\ thresholds.recovery \in Nat
  BY ObservationsAssumption DEF TypeOK
<1> QED
  BY <1>1, TransitionType DEF NextAlert, TypeOK

LEMMA HoldType ==
  ASSUME TypeOK, NEW o \in Observers, NEW phase, NEW status, NEW attempt,
         [phase |-> phase, status |-> status, attempt |-> attempt] \in ObserverStates,
         Hold(o, phase, status, attempt),
         OnlyObserverMoves
  PROVE  TypeOK'
BY DEF TypeOK, Hold, OnlyObserverMoves, rowVars, history

\* Every variable keeps its type; in particular a check never starts more
\* attempts than monitors.retries allows.
THEOREM Typing == Spec => []TypeOK
<1> USE ObservationsAssumption
<1>1. Init => TypeOK
  <2> SUFFICES ASSUME Init
               PROVE  TypeOK
    OBVIOUS
  <2>1. alert \in AlertStates /\ currentStatus \in Statuses
    BY DEF Init, Settled, AlertStates, Statuses
  <2>2. results \in Seq(Results) /\ outbox \in Seq(Events)
    BY DEF Init
  <2>3. observer \in [Observers -> ObserverStates]
    BY DEF Init, ObserverStates
  <2> QED
    BY <2>1, <2>2, <2>3 DEF Init, TypeOK
<1>2. TypeOK /\ [Next]_vars => TypeOK'
  <2> SUFFICES ASSUME TypeOK, [Next]_vars
               PROVE  TypeOK'
    OBVIOUS
  <2> USE DEF Observers, ObserverStates, ObservedStatuses, FailureStatuses
  <2>1. CASE StartCheck
    BY <2>1, HoldType DEF StartCheck
  <2>2. ASSUME NEW answer \in {"up", "down", "degraded"}, Attempt(answer)
        PROVE  TypeOK'
    <3>1. observer[Check].attempt \in 0 .. Retries - 1
      BY <2>2 DEF TypeOK, Attempt, Idle
    <3>2. CASE Hold(Check, "answered", answer, 0)
      BY <2>2, <3>2, HoldType DEF Attempt
    <3>3. CASE /\ observer[Check].attempt + 1 < Retries
               /\ Hold(Check, "probing", None, observer[Check].attempt + 1)
      BY <2>2, <3>1, <3>3, HoldType DEF Attempt
    <3> QED
      BY <2>2, <3>2, <3>3 DEF Attempt
  <2>3. CASE CheckThrows
    BY <2>3, HoldType DEF CheckThrows
  <2>4. ASSUME NEW h \in Heartbeats, NEW status \in {"up", "down", "degraded"},
               HeartbeatArrives(h, status)
        PROVE  TypeOK'
    BY <2>4, HoldType DEF HeartbeatArrives
  <2>5. ASSUME NEW o \in Observers, NEW hasDownDep \in BOOLEAN, ApplyDependencies(o, hasDownDep)
        PROVE  TypeOK'
    <3>1. observer[o].status \in ObservedStatuses
      BY <2>5 DEF TypeOK, ApplyDependencies, Idle
    <3> QED
      BY <2>5, <3>1, HoldType DEF ApplyDependencies
  <2>6. ASSUME NEW o \in Observers, NEW inMaintenance \in BOOLEAN,
               RecordObservation(o, inMaintenance)
        PROVE  TypeOK'
    <3> DEFINE status == observer[o].status
    <3>1. status \in ObservedStatuses
      BY <2>6 DEF TypeOK, RecordObservation, Idle
    <3>2. results' \in Seq(Results)
      BY <2>6, <3>1, NextResultsType DEF RecordObservation
    <3>3. alert' \in AlertStates
      BY <2>6, <3>1, NextAlertType DEF RecordObservation
    <3>4. failingSince' \in Nat
      <4>1. Len(results) + 1 \in Nat
        BY DEF TypeOK
      <4> QED
        BY <2>6, <4>1 DEF RecordObservation, NextFailingSince, TypeOK
    <3>5. outbox' \in Seq(Events)
      BY <2>6 DEF RecordObservation, PlanNotifications, TypeOK, Events
    <3>6. failStreak' \in Nat /\ upStreak' \in Nat
      BY <2>6 DEF RecordObservation, CountStreaks, history, TypeOK
    <3>7. observer' \in [Observers -> ObserverStates]
      BY <2>6 DEF RecordObservation, TypeOK
    <3> QED
      BY <2>6, <3>1, <3>2, <3>3, <3>4, <3>5, <3>6, <3>7 DEF RecordObservation, TypeOK, Statuses
  <2>7. ASSUME NEW o \in Observers, DropObservation(o)
        PROVE  TypeOK'
    BY <2>7 DEF DropObservation, OnlyObserverMoves, TypeOK, rowVars, history
  <2>8. ASSUME NEW failure \in 1 .. MaxThreshold, NEW recovery \in 1 .. MaxThreshold,
               PatchThresholds(failure, recovery)
        PROVE  TypeOK'
    BY <2>8 DEF PatchThresholds, TypeOK, rowVars, history
  <2>9. CASE DeleteMonitor
    <3>1. <<>> \in Seq(Results)
      OBVIOUS
    <3> QED
      BY <2>9, <3>1 DEF DeleteMonitor, TypeOK, history
  <2>10. CASE UNCHANGED vars
    BY <2>10 DEF vars, rowVars, history, TypeOK
  <2> QED
    BY <2>1, <2>2, <2>3, <2>4, <2>5, <2>6, <2>7, <2>8, <2>9, <2>10 DEF Next
<1> QED
  BY <1>1, <1>2, PTL DEF Spec

-----------------------------------------------------------------------------
(* Debouncing.                                                             *)

\* What the pending streak of the alert_* columns stands for: while no failure
\* is confirmed it is the run of failing observations, while one is confirmed
\* it is the run of 'up' observations.
StreakInv ==
  /\ ~Failing(alert.confirmed) =>
       failStreak = IF Failing(alert.pending) THEN alert.count ELSE 0
  /\ Failing(alert.confirmed) =>
       upStreak = IF alert.pending = "up" THEN alert.count ELSE 0

\* One judged observation keeps StreakInv and confirms neither early nor late;
\* u and v are the two streaks before it.
LEMMA TransitionCountsStreaks ==
  ASSUME NEW state \in AlertStates, NEW observed \in ObservedStatuses,
         NEW f \in Nat \ {0}, NEW r \in Nat \ {0}, NEW u \in Nat, NEW v \in Nat,
         ~Failing(state.confirmed) => u = IF Failing(state.pending) THEN state.count ELSE 0,
         Failing(state.confirmed) => v = IF state.pending = "up" THEN state.count ELSE 0,
         NEW next, next = EvaluateAlertTransition(state, observed, f, r),
         NEW u1, u1 = IF Failing(observed) THEN u + 1 ELSE 0,
         NEW v1, v1 = IF observed = "up" THEN v + 1 ELSE 0
  PROVE  /\ ~Failing(next.confirmed) =>
              u1 = IF Failing(next.pending) THEN next.count ELSE 0
         /\ Failing(next.confirmed) =>
              v1 = IF next.pending = "up" THEN next.count ELSE 0
         /\ ~Failing(state.confirmed) /\ Failing(next.confirmed) => u1 >= f
         /\ Failing(state.confirmed) /\ next.confirmed = "up" => v1 >= r
         /\ u1 >= f => Failing(next.confirmed)
         /\ v1 >= r => next.confirmed = "up"
<1> USE DEF Failing, FailureStatuses, ObservedStatuses, AlertStates, Statuses, None
<1>1. CASE observed = state.confirmed
  BY <1>1 DEF EvaluateAlertTransition, Settled
<1>2. CASE observed # state.confirmed /\ Failing(state.confirmed)
  <2>1. CASE observed = "up"
    BY <1>2, <2>1 DEF EvaluateAlertTransition, Settled, StreakCount, SameStreak,
                      ThresholdFor, AtLeastOne
  <2>2. CASE observed # "up"
    BY <1>2, <2>2 DEF EvaluateAlertTransition, Settled, StreakCount, SameStreak,
                      ThresholdFor, AtLeastOne
  <2> QED
    BY <2>1, <2>2
<1>3. CASE observed # state.confirmed /\ ~Failing(state.confirmed)
  <2>1. CASE Failing(observed)
    BY <1>3, <2>1 DEF EvaluateAlertTransition, Settled, StreakCount, SameStreak,
                      ThresholdFor, AtLeastOne
  <2>2. CASE ~Failing(observed)
    BY <1>3, <2>2 DEF EvaluateAlertTransition, Settled, StreakCount, SameStreak,
                      ThresholdFor, AtLeastOne
  <2> QED
    BY <2>1, <2>2
<1> QED
  BY <1>1, <1>2, <1>3

\* Everything a step may do to the alert state and the streaks.
LEMMA AlertSteps ==
  ASSUME TypeOK, [Next]_vars
  PROVE  \/ UNCHANGED <<alert, history>>
         \/ \E status \in ObservedStatuses :
              /\ alert' = EvaluateAlertTransition(alert, status, thresholds.failure,
                                                  thresholds.recovery)
              /\ CountStreaks(status)
<1>1. ASSUME NEW o \in Observers, NEW inMaintenance \in BOOLEAN,
             RecordObservation(o, inMaintenance)
      PROVE  \/ UNCHANGED <<alert, history>>
             \/ \E status \in ObservedStatuses :
                  /\ alert' = EvaluateAlertTransition(alert, status, thresholds.failure,
                                                      thresholds.recovery)
                  /\ CountStreaks(status)
  <2>1. observer[o].status \in ObservedStatuses
    BY <1>1 DEF TypeOK, ObserverStates, RecordObservation, Idle
  <2> QED
    BY <1>1, <2>1 DEF RecordObservation, NextAlert
<1> QED
  BY <1>1 DEF Next, vars, rowVars, StartCheck, Attempt, CheckThrows, HeartbeatArrives,
              ApplyDependencies, DropObservation, OnlyObserverMoves, PatchThresholds,
              DeleteMonitor

LEMMA StreakStep ==
  ASSUME TypeOK, StreakInv, [Next]_vars
  PROVE  StreakInv' /\ StepConfirmsByStreak
<1>1. CASE UNCHANGED <<alert, history>>
  <2>1. alert' = alert /\ failStreak' = failStreak /\ upStreak' = upStreak
    BY <1>1 DEF history
  <2>2. ~Judges
    BY <1>1 DEF Judges
  <2> QED
    BY <2>1, <2>2 DEF StreakInv, StepConfirmsByStreak, Failing, FailureStatuses
<1>2. ASSUME NEW status \in ObservedStatuses,
             alert' = EvaluateAlertTransition(alert, status, thresholds.failure,
                                              thresholds.recovery),
             CountStreaks(status)
      PROVE  StreakInv' /\ StepConfirmsByStreak
  <2>1. thresholds.failure \in Nat \ {0} /\ thresholds.recovery \in Nat \ {0}
    BY ObservationsAssumption DEF TypeOK
  <2>2. alert \in AlertStates /\ failStreak \in Nat /\ upStreak \in Nat
    BY DEF TypeOK
  <2> QED
    BY <1>2, <2>1, <2>2, TransitionCountsStreaks
    DEF StreakInv, StepConfirmsByStreak, CountStreaks
<1> QED
  BY <1>1, <1>2, AlertSteps

\* ConfirmedByStreak holds for all thresholds, however often they are changed
\* while a streak is counted.
THEOREM Debouncing == Spec => ConfirmedByStreak
<1>1. Init => StreakInv
  BY DEF Init, StreakInv, Settled, Failing, FailureStatuses, None
<1>2. TypeOK /\ StreakInv /\ [Next]_vars => StreakInv' /\ StepConfirmsByStreak
  BY StreakStep
<1>3. TypeOK /\ StreakInv /\ [Next]_vars => [StepConfirmsByStreak]_vars
  BY <1>2
<1> QED
  BY <1>1, <1>2, <1>3, Typing, PTL DEF Spec, ConfirmedByStreak

-----------------------------------------------------------------------------
(* The all-clear that is owed.                                             *)

\* A transition keeps the confirmed status or moves it to the observed one,
\* and does the latter at once unless a failure or a recovery is debounced.
LEMMA TransitionTarget ==
  ASSUME NEW state \in AlertStates, NEW observed \in ObservedStatuses,
         NEW f \in Nat, NEW r \in Nat
  PROVE  EvaluateAlertTransition(state, observed, f, r).confirmed
           \in {state.confirmed, observed}
BY DEF EvaluateAlertTransition, Settled

\* What an observation that is recorded knows of its step.
LEMMA RecordedStatus ==
  ASSUME TypeOK, NEW o \in Observers, NEW inMaintenance \in BOOLEAN,
         RecordObservation(o, inMaintenance)
  PROVE  /\ observer[o].status \in ObservedStatuses
         /\ alert' = NextAlert(observer[o].status, inMaintenance)
         /\ alert'.confirmed \in {alert.confirmed, observer[o].status}
<1>1. observer[o].status \in ObservedStatuses
  BY DEF TypeOK, ObserverStates, RecordObservation, Idle
<1>2. thresholds.failure \in Nat /\ thresholds.recovery \in Nat
  BY ObservationsAssumption DEF TypeOK
<1>3. alert' = NextAlert(observer[o].status, inMaintenance)
  BY DEF RecordObservation
<1> QED
  BY <1>1, <1>2, <1>3, TransitionTarget DEF NextAlert, TypeOK

\* A step that records nothing leaves the alert, the clock and the outbox.
LEMMA OtherSteps ==
  ASSUME TypeOK, [Next]_vars,
         \A o \in Observers, inMaintenance \in BOOLEAN : ~RecordObservation(o, inMaintenance)
  PROVE  /\ UNCHANGED <<alert, failingSince, outbox>>
         /\ (exists' /\ exists /\ results' = results) \/ (exists' = FALSE)
BY DEF Next, vars, rowVars, StartCheck, Attempt, CheckThrows, HeartbeatArrives,
       ApplyDependencies, DropObservation, OnlyObserverMoves, PatchThresholds,
       DeleteMonitor, TypeOK

LEMMA AllClearStep ==
  ASSUME TypeOK, AllClearOwed, [Next]_vars
  PROVE  AllClearOwed'
<1>1. ASSUME NEW o \in Observers, NEW inMaintenance \in BOOLEAN,
             RecordObservation(o, inMaintenance)
      PROVE  AllClearOwed'
  <2> DEFINE status == observer[o].status
             previous == alert.confirmed
  <2>1. /\ status \in ObservedStatuses
        /\ alert'.confirmed \in {previous, status}
        /\ alert' = NextAlert(status, inMaintenance)
    BY <1>1, RecordedStatus
  <2>2. outbox \in Seq(Events) /\ previous \in Statuses
    BY DEF TypeOK, AlertStates
  <2>3. CASE alert'.confirmed = previous
    <3>1. outbox' = outbox
      BY <1>1, <2>1, <2>3 DEF RecordObservation, Fires
    <3> QED
      BY <2>3, <3>1 DEF AllClearOwed, HasOpenAlert
  <2>4. CASE alert'.confirmed # previous
    <3>1. alert'.confirmed = status /\ outbox' = PlanNotifications(status, previous)
      BY <1>1, <2>1, <2>4 DEF RecordObservation, Fires
    <3>2. CASE Failing(status)
      <4>1. outbox' = Append(outbox, "alert")
        BY <3>1, <3>2 DEF PlanNotifications
      <4>2. HasOpenAlert'
        BY <4>1, <2>2 DEF HasOpenAlert
      <4>3. \A i \in DOMAIN outbox' :
              outbox'[i] = "recovery" => i > 1 /\ outbox'[i - 1] = "alert"
        BY <4>1, <2>2 DEF AllClearOwed
      <4> QED
        BY <3>1, <3>2, <4>2, <4>3 DEF AllClearOwed, Failing, FailureStatuses
    <3>3. CASE ~Failing(status) /\ IsRecovery(status, previous)
      <4>1. outbox' = Append(outbox, "recovery")
        BY <3>1, <3>3 DEF PlanNotifications
      <4>2. HasOpenAlert
        BY <3>3 DEF IsRecovery, AllClearOwed
      <4>3. outbox # <<>> /\ outbox[Len(outbox)] = "alert" /\ Len(outbox) \in Nat
        BY <4>2, <2>2 DEF HasOpenAlert
      <4>4. ~HasOpenAlert'
        BY <4>1, <2>2 DEF HasOpenAlert
      <4>5. \A i \in DOMAIN outbox' :
              outbox'[i] = "recovery" => i > 1 /\ outbox'[i - 1] = "alert"
        BY <4>1, <4>3, <2>2 DEF AllClearOwed
      <4> QED
        BY <3>1, <3>3, <4>4, <4>5 DEF AllClearOwed, Failing, FailureStatuses
    <3>4. CASE ~Failing(status) /\ ~IsRecovery(status, previous)
      <4>1. outbox' = outbox
        BY <3>1, <3>4 DEF PlanNotifications
      <4>2. status = "up" => ~HasOpenAlert
        BY <2>2, <2>4, <3>1, <3>4 DEF IsRecovery, AllClearOwed, Statuses, ObservedStatuses, Failing
      <4>3. status # "pending"
        BY <2>1 DEF ObservedStatuses, FailureStatuses
      <4>4. HasOpenAlert' = HasOpenAlert
        BY <4>1 DEF HasOpenAlert
      <4> QED
        BY <3>1, <3>4, <4>1, <4>2, <4>3, <4>4 DEF AllClearOwed
    <3> QED
      BY <3>2, <3>3, <3>4
  <2> QED
    BY <2>3, <2>4
<1>2. CASE \A o \in Observers, inMaintenance \in BOOLEAN : ~RecordObservation(o, inMaintenance)
  BY <1>2, OtherSteps DEF AllClearOwed, HasOpenAlert
<1> QED
  BY <1>1, <1>2

\* AllClearOwed is inductive: an open alert is exactly what a confirmed failure
\* leaves behind until 'up' is confirmed, by whatever path.
THEOREM AllClears == Spec => []AllClearOwed
<1>1. Init => AllClearOwed
  BY DEF Init, AllClearOwed, HasOpenAlert, Settled, Failing, FailureStatuses
<1>2. TypeOK /\ AllClearOwed /\ [Next]_vars => AllClearOwed'
  BY AllClearStep
<1> QED
  BY <1>1, <1>2, Typing, PTL DEF Spec

-----------------------------------------------------------------------------
(* The outage clock.                                                       *)

LEMMA ClockStep ==
  ASSUME TypeOK, OutageClock, [Next]_vars
  PROVE  /\ OutageClock'
         /\ failingSince # 0 /\ failingSince' # failingSince =>
              failingSince' = 0 /\ alert'.confirmed = "up"
<1>1. ASSUME NEW o \in Observers, NEW inMaintenance \in BOOLEAN,
             RecordObservation(o, inMaintenance)
      PROVE  /\ OutageClock'
             /\ failingSince # 0 /\ failingSince' # failingSince =>
                  failingSince' = 0 /\ alert'.confirmed = "up"
  <2> DEFINE status == observer[o].status
  <2>1. /\ status \in ObservedStatuses
        /\ alert'.confirmed \in {alert.confirmed, status}
        /\ alert' = NextAlert(status, inMaintenance)
    BY <1>1, RecordedStatus
  <2>2. /\ exists
        /\ failingSince' = NextFailingSince(status, inMaintenance)
        /\ results' = NextResults(status, inMaintenance)
    BY <1>1 DEF RecordObservation
  <2>3. results \in Seq(Results) /\ Len(results) \in Nat /\ failingSince \in Nat
    BY DEF TypeOK
  <2>4. /\ results' \in Seq(Results)
        /\ Len(results') = Len(results) + 1
        /\ results'[Len(results) + 1].status = status
        /\ results'[Len(results) + 1].mark = MarkOf(status, inMaintenance)
        /\ \A i \in DOMAIN results :
             /\ results'[i].status = results[i].status
             /\ results[i].mark = Counted => results'[i].mark = Counted
    <3>1. ASSUME NEW i \in DOMAIN results
          PROVE  /\ CountWaiting[i].status = results[i].status
                 /\ results[i].mark = Counted => CountWaiting[i].mark = Counted
      <4>1. results[i] \in Results
        BY <2>3
      <4> QED
        BY <4>1 DEF CountWaiting, Results
    <3>2. CountWaiting \in Seq(Results) /\ Len(CountWaiting) = Len(results)
      BY <2>3, CountWaitingType DEF CountWaiting
    <3>3. results' \in Seq(Results)
      BY <2>1, <2>2, NextResultsType
    <3> DEFINE last == [status |-> status, mark |-> MarkOf(status, inMaintenance),
                        judged |-> ~inMaintenance]
    <3>4. CASE results' = Append(CountWaiting, last)
      BY <2>3, <3>1, <3>2, <3>3, <3>4
    <3>5. CASE results' = Append(results, last)
      BY <2>3, <3>3, <3>5
    <3> QED
      BY <2>2, <3>4, <3>5 DEF NextResults
  <2>5. CASE Fires(status, inMaintenance) /\ status = "up"
    <3>1. failingSince' = 0 /\ alert'.confirmed = "up"
      BY <2>1, <2>2, <2>5 DEF NextFailingSince, Fires
    <3> QED
      BY <3>1 DEF OutageClock
  <2>6. CASE /\ ~(Fires(status, inMaintenance) /\ status = "up")
             /\ ~inMaintenance
             /\ NextAlert(status, FALSE).confirmed = "down"
             /\ failingSince = 0
    <3>1. failingSince' = Len(results) + 1
      BY <2>2, <2>6 DEF NextFailingSince
    <3>2. alert'.confirmed = "down" /\ alert.confirmed # "down" /\ status = "down"
      BY <2>1, <2>6 DEF OutageClock
    <3>3. MarkOf(status, inMaintenance) = Counted
      BY <2>6, <3>2 DEF MarkOf
    <3> QED
      BY <2>3, <2>4, <2>6, <3>1, <3>2, <3>3 DEF OutageClock
  <2>7. CASE /\ ~(Fires(status, inMaintenance) /\ status = "up")
             /\ ~(/\ ~inMaintenance
                  /\ NextAlert(status, FALSE).confirmed = "down"
                  /\ failingSince = 0)
    <3>1. failingSince' = failingSince
      BY <2>2, <2>7 DEF NextFailingSince
    <3>2. alert'.confirmed = "down" => failingSince # 0
      BY <2>1, <2>7 DEF OutageClock, NextAlert
    <3>3. alert'.confirmed \in {"up", "pending"} => alert.confirmed \in {"up", "pending"}
      BY <2>1, <2>7 DEF Fires, ObservedStatuses, FailureStatuses
    <3>4. failingSince # 0 => failingSince \in DOMAIN results'
      BY <2>2, <2>3, <2>4 DEF OutageClock
    <3> QED
      BY <2>2, <2>4, <3>1, <3>2, <3>3, <3>4 DEF OutageClock
  <2> QED
    BY <2>5, <2>6, <2>7
<1>2. CASE \A o \in Observers, inMaintenance \in BOOLEAN : ~RecordObservation(o, inMaintenance)
  BY <1>2, OtherSteps DEF OutageClock
<1> QED
  BY <1>1, <1>2

\* OutageClock is inductive.
THEOREM OutageClocks == Spec => []OutageClock
<1>1. Init => OutageClock
  BY DEF Init, OutageClock, Settled
<1>2. TypeOK /\ OutageClock /\ [Next]_vars => OutageClock'
  BY ClockStep
<1> QED
  BY <1>1, <1>2, Typing, PTL DEF Spec

\* ClockKeepsItsStart: no interleaving restarts the clock of a running outage.
THEOREM ClocksKeepTheirStart == Spec => ClockKeepsItsStart
<1>1. TypeOK /\ OutageClock /\ [Next]_vars =>
        [failingSince # 0 /\ failingSince' # failingSince =>
           failingSince' = 0 /\ alert'.confirmed = "up"]_vars
  BY ClockStep
<1> QED
  BY <1>1, Typing, OutageClocks, PTL DEF Spec, ClockKeepsItsStart

-----------------------------------------------------------------------------
(* The failures that count.                                                *)

\* A result that was not judged counts only when it was 'up'.
UnjudgedCountsUp ==
  \A i \in DOMAIN results :
    ~results[i].judged => results[i].mark = InMaintenance \/ (results[i].mark = Counted /\ results[i].status = "up")

\* If anything counts, one of the results is the last that does: what
\* LastCounted chooses is there.
LastCountedExists ==
  (\E i \in DOMAIN results : results[i].mark = Counted) =>
    \E i \in DOMAIN results :
      /\ results[i].mark = Counted
      /\ \A j \in DOMAIN results : j > i => results[j].mark # Counted

\* As long as no failure is confirmed, every failure of the streak waits.
OpenStreakWaits ==
  ~Failing(alert.confirmed) => \A i \in OpenStreak(results) : results[i].mark = Unconfirmed

StreakMarks ==
  UnjudgedCountsUp /\ LastCountedExists /\ OpenStreakWaits /\ ConfirmedStreakCounts

\* A second failure while one is confirmed needs no streak.
LEMMA FailureAfterFailure ==
  ASSUME TypeOK, NEW status \in ObservedStatuses, Failing(status), Failing(alert.confirmed)
  PROVE  NextAlert(status, FALSE).confirmed = status
<1>1. StreakCount(alert, status) >= 1
  BY DEF StreakCount, TypeOK, AlertStates
<1>2. ThresholdFor(alert.confirmed, status, thresholds.failure, thresholds.recovery) = 1
  BY DEF ThresholdFor, Failing, FailureStatuses
<1> QED
  BY <1>1, <1>2 DEF NextAlert, EvaluateAlertTransition, Settled

\* Results in the order they were recorded, after one more.
LEMMA RecordedResults ==
  ASSUME TypeOK, NEW status \in ObservedStatuses, NEW inMaintenance \in BOOLEAN,
         NEW rs, rs = NextResults(status, inMaintenance)
  PROVE  LET n == Len(results)
             counts == Fires(status, inMaintenance) /\ Failing(status)
         IN /\ rs \in Seq(Results) /\ n \in Nat /\ Len(rs) = n + 1 /\ DOMAIN rs = 1 .. n + 1
            /\ DOMAIN results = 1 .. n
            /\ rs[n + 1] = [status |-> status, mark |-> MarkOf(status, inMaintenance), judged |-> ~inMaintenance]
            /\ \A i \in 1 .. n :
                 /\ results[i] \in Results
                 /\ rs[i].status = results[i].status /\ rs[i].judged = results[i].judged
                 /\ rs[i].mark = IF counts /\ i > LastCounted /\ results[i].mark = Unconfirmed
                                 THEN Counted ELSE results[i].mark
<1> DEFINE n == Len(results)
           last == [status |-> status, mark |-> MarkOf(status, inMaintenance), judged |-> ~inMaintenance]
<1>1. /\ results \in Seq(Results) /\ n \in Nat /\ DOMAIN results = 1 .. n
      /\ \A i \in 1 .. n : results[i] \in Results
  BY DEF TypeOK
<1>2. CASE Fires(status, inMaintenance) /\ Failing(status)
  <2>1. CountWaiting \in Seq(Results) /\ Len(CountWaiting) = n
    BY <1>1, CountWaitingType DEF CountWaiting
  <2>2. rs = Append(CountWaiting, last)
    BY <1>2 DEF NextResults
  <2>3. last \in Results
    BY DEF MarkOf, Results, Marks, Counted, Unconfirmed, InMaintenance
  <2>4. ASSUME NEW i \in 1 .. n
        PROVE  /\ CountWaiting[i].status = results[i].status /\ CountWaiting[i].judged = results[i].judged
               /\ CountWaiting[i].mark = IF i > LastCounted /\ results[i].mark = Unconfirmed
                                         THEN Counted ELSE results[i].mark
    BY <1>1 DEF CountWaiting, Results
  <2>5. /\ rs \in Seq(Results) /\ Len(rs) = n + 1 /\ rs[n + 1] = last
        /\ \A i \in 1 .. n : rs[i] = CountWaiting[i]
    BY <1>1, <2>1, <2>2, <2>3
  <2> QED
    BY <1>1, <1>2, <2>4, <2>5
<1>3. CASE ~(Fires(status, inMaintenance) /\ Failing(status))
  <2>1. rs = Append(results, last)
    BY <1>3 DEF NextResults
  <2>2. last \in Results
    BY DEF MarkOf, Results, Marks, Counted, Unconfirmed, InMaintenance
  <2> QED
    BY <1>1, <1>3, <2>1, <2>2
<1> QED
  BY <1>2, <1>3

\* What LastCounted chooses is the last result that counts.
LEMMA LastCountedIsLast ==
  ASSUME LastCountedExists, NEW i \in DOMAIN results, results[i].mark = Counted
  PROVE  /\ LastCounted \in DOMAIN results
         /\ results[LastCounted].mark = Counted
         /\ \A j \in DOMAIN results : j > LastCounted => results[j].mark # Counted
BY DEF LastCountedExists, LastCounted

\* A failure of the open streak that waits is behind everything that counts,
\* unless an 'up' was seen in a window since: it is what the scan finds.
LEMMA WaitingIsScanned ==
  ASSUME TypeOK, UnjudgedCountsUp, LastCountedExists, OpenStreakWaits, ~Failing(alert.confirmed),
         NEW i \in OpenStreak(results),
         \A j \in i .. Len(results) : results[j].judged \/ results[j].status # "up"
  PROVE  results[i].mark = Unconfirmed /\ i > LastCounted
<1>1. results[i].mark = Unconfirmed
  BY DEF OpenStreakWaits
<1>2. DOMAIN results = 1 .. Len(results) /\ Len(results) \in Nat /\ i \in 1 .. Len(results)
  BY DEF TypeOK, OpenStreak
<1>3. CASE \A j \in DOMAIN results : results[j].mark # Counted
  BY <1>1, <1>2, <1>3 DEF LastCounted
<1>4. ASSUME NEW k \in DOMAIN results, results[k].mark = Counted
      PROVE  i > LastCounted
  <2> DEFINE L == LastCounted
  <2>1. L \in 1 .. Len(results) /\ results[L].mark = Counted
    BY <1>2, <1>4, LastCountedIsLast
  <2>2. SUFFICES ASSUME i <= L
                 PROVE  FALSE
    BY <1>2, <2>1
  <2> HIDE DEF L
  <2>3. CASE results[L].judged
    <3>1. L \in OpenStreak(results)
      BY <1>2, <2>1, <2>2, <2>3 DEF OpenStreak
    <3> QED
      BY <2>1, <3>1 DEF OpenStreakWaits, Counted, Unconfirmed
  <2>4. CASE ~results[L].judged
    <3>1. results[L].status = "up"
      BY <1>2, <2>1, <2>4 DEF UnjudgedCountsUp, Counted, InMaintenance
    <3> QED
      BY <1>2, <2>1, <2>2, <2>4, <3>1
  <2> QED
    BY <2>3, <2>4
<1> QED
  BY <1>1, <1>3, <1>4

LEMMA RecordMarks ==
  ASSUME TypeOK, StreakMarks, exists, NEW o \in Observers, NEW inMaintenance \in BOOLEAN,
         RecordObservation(o, inMaintenance)
  PROVE  StreakMarks'
<1> DEFINE status == observer[o].status
           n == Len(results)
           counts == Fires(status, inMaintenance) /\ Failing(status)
<1>1. /\ status \in ObservedStatuses
      /\ alert' = NextAlert(status, inMaintenance)
      /\ alert'.confirmed \in {alert.confirmed, status}
      /\ exists'
  BY RecordedStatus DEF RecordObservation
<1>2. /\ n \in Nat /\ Len(results') = n + 1
      /\ DOMAIN results = 1 .. n /\ DOMAIN results' = 1 .. n + 1
      /\ results'[n + 1].status = status
      /\ results'[n + 1].mark = MarkOf(status, inMaintenance)
      /\ results'[n + 1].judged = ~inMaintenance
      /\ \A i \in 1 .. n :
           /\ results[i] \in Results
           /\ results'[i].status = results[i].status /\ results'[i].judged = results[i].judged
           /\ results'[i].mark = IF counts /\ i > LastCounted /\ results[i].mark = Unconfirmed
                                 THEN Counted ELSE results[i].mark
  <2>1. results' = NextResults(status, inMaintenance)
    BY DEF RecordObservation
  <2> HIDE DEF status
  <2>2. /\ n \in Nat /\ Len(results') = n + 1
        /\ DOMAIN results = 1 .. n /\ DOMAIN results' = 1 .. n + 1
        /\ results'[n + 1] = [status |-> status, mark |-> MarkOf(status, inMaintenance), judged |-> ~inMaintenance]
        /\ \A i \in 1 .. n :
             /\ results[i] \in Results
             /\ results'[i].status = results[i].status /\ results'[i].judged = results[i].judged
             /\ results'[i].mark = IF counts /\ i > LastCounted /\ results[i].mark = Unconfirmed
                                   THEN Counted ELSE results[i].mark
    BY <1>1, <2>1, RecordedResults
  <2> QED
    BY <2>2
<1> HIDE DEF n
<1>3. ASSUME NEW i \in OpenStreak(results')
      PROVE  /\ ~inMaintenance => Failing(status)
             /\ i = n + 1 => ~inMaintenance
             /\ i # n + 1 => i \in OpenStreak(results)
  <2>1. i \in 1 .. n + 1 /\ results'[i].judged
        /\ \A j \in i .. n + 1 : results'[j].judged => Failing(results'[j].status)
    BY <1>2 DEF OpenStreak
  <2>2. ASSUME ~inMaintenance
        PROVE  Failing(status)
    <3>1. n + 1 \in i .. n + 1
      BY <1>2, <2>1
    <3>2. results'[n + 1].judged
      BY <1>2, <2>2, Zenon
    <3>3. Failing(results'[n + 1].status)
      BY <2>1, <3>1, <3>2
    <3> QED
      BY <1>2, <3>3
  <2>3. ASSUME i # n + 1
        PROVE  i \in OpenStreak(results)
    <3>1. i \in 1 .. n /\ results[i].judged
      BY <1>2, <2>1, <2>3
    <3>2. ASSUME NEW j \in i .. n, results[j].judged
          PROVE  Failing(results[j].status)
      BY <1>2, <2>1, <3>1, <3>2
    <3> QED
      BY <1>2, <3>1, <3>2 DEF OpenStreak, n
  <2> QED
    BY <1>2, <2>1, <2>2, <2>3
<1>4. UnjudgedCountsUp'
  <2>1. inMaintenance => MarkOf(status, inMaintenance) = InMaintenance
                         \/ (MarkOf(status, inMaintenance) = Counted /\ status = "up")
    BY DEF MarkOf
  <2>2. ASSUME NEW i \in 1 .. n, ~results[i].judged
        PROVE  results'[i].mark = results[i].mark
    BY <1>2, <2>2 DEF StreakMarks, UnjudgedCountsUp, InMaintenance, Counted, Unconfirmed
  <2>3. ASSUME NEW i \in 1 .. n + 1, ~results'[i].judged
        PROVE  results'[i].mark = InMaintenance \/ (results'[i].mark = Counted /\ results'[i].status = "up")
    <3>1. CASE i = n + 1
      BY <1>2, <2>1, <2>3, <3>1
    <3>2. CASE i \in 1 .. n
      <4>1. ~results[i].judged
        BY <1>2, <2>3, <3>2
      <4> QED
        BY <1>2, <2>2, <3>2, <4>1 DEF StreakMarks, UnjudgedCountsUp
    <3> QED
      BY <1>2, <3>1, <3>2
  <2> QED
    BY <1>2, <2>3 DEF UnjudgedCountsUp
<1>5. LastCountedExists'
  <2>1. CASE results'[n + 1].mark = Counted
    BY <1>2, <2>1 DEF LastCountedExists
  <2>2. CASE results'[n + 1].mark # Counted
    <3>1. ~counts
      BY <1>1, <1>2, <2>2 DEF Fires, MarkOf, NextAlert
    <3>2. \A i \in 1 .. n : results'[i].mark = results[i].mark
      BY <1>2, <3>1
    <3>3. CASE \E i \in 1 .. n : results[i].mark = Counted
      <4>1. PICK i \in 1 .. n : /\ results[i].mark = Counted
                                /\ \A j \in 1 .. n : j > i => results[j].mark # Counted
        BY <1>2, <3>3 DEF StreakMarks, LastCountedExists
      <4> QED
        BY <1>2, <2>2, <3>2, <4>1 DEF LastCountedExists
    <3> QED
      BY <1>2, <2>2, <3>2, <3>3 DEF LastCountedExists
  <2> QED
    BY <2>1, <2>2
<1>6. OpenStreakWaits'
  <2> SUFFICES ASSUME ~Failing(alert'.confirmed), NEW i \in OpenStreak(results')
               PROVE  results'[i].mark = Unconfirmed
    BY DEF OpenStreakWaits
  <2>1. ~counts /\ ~Failing(alert.confirmed)
    <3>1. CASE inMaintenance
      BY <1>1, <3>1 DEF Fires, NextAlert
    <3>2. CASE ~inMaintenance
      BY <1>1, <1>3, <3>2, FailureAfterFailure DEF Fires
    <3> QED
      BY <3>1, <3>2
  <2>2. CASE i = n + 1
    BY <1>1, <1>2, <1>3, <2>2 DEF MarkOf
  <2>3. CASE i # n + 1
    <3>1. i \in OpenStreak(results) /\ i \in 1 .. n
      BY <1>2, <1>3, <2>3 DEF OpenStreak
    <3> QED
      BY <1>2, <2>1, <3>1 DEF StreakMarks, OpenStreakWaits
  <2> QED
    BY <2>2, <2>3
<1>7. ConfirmedStreakCounts'
  <2> SUFFICES ASSUME Failing(alert'.confirmed), NEW i \in OpenStreak(results'),
                      \A j \in i .. n + 1 : results'[j].judged \/ results'[j].status # "up"
               PROVE  results'[i].mark = Counted
    BY <1>2 DEF ConfirmedStreakCounts
  <2>1. CASE i = n + 1
    <3>1. ~inMaintenance /\ Failing(status)
      BY <1>3, <2>1
    <3>2. NextAlert(status, FALSE).confirmed = status
      BY <1>1, <3>1, FailureAfterFailure
    <3> QED
      BY <1>2, <2>1, <3>1, <3>2 DEF MarkOf
  <2>2. CASE i # n + 1
    <3>1. i \in OpenStreak(results) /\ i \in 1 .. n
      BY <1>2, <1>3, <2>2 DEF OpenStreak
    <3>2. ASSUME NEW j \in i .. n
          PROVE  results[j].judged \/ results[j].status # "up"
      BY <1>2, <3>1
    <3>3. CASE Failing(alert.confirmed)
      <4>1. results[i].mark = Counted
        BY <3>1, <3>2, <3>3 DEF StreakMarks, ConfirmedStreakCounts, n
      <4> QED
        BY <1>2, <3>1, <4>1
    <3>4. CASE ~Failing(alert.confirmed)
      <4>1. results[i].mark = Unconfirmed /\ i > LastCounted
        BY <3>1, <3>2, <3>4, WaitingIsScanned DEF StreakMarks, n
      <4>2. counts
        BY <1>1, <1>3, <3>4 DEF Fires, NextAlert
      <4> QED
        BY <1>2, <3>1, <4>1, <4>2
    <3> QED
      BY <3>3, <3>4
  <2> QED
    BY <2>1, <2>2
<1> QED
  BY <1>4, <1>5, <1>6, <1>7 DEF StreakMarks

LEMMA MarksStep ==
  ASSUME TypeOK, StreakMarks, [Next]_vars
  PROVE  StreakMarks'
<1>1. ASSUME NEW o \in Observers, NEW inMaintenance \in BOOLEAN,
             RecordObservation(o, inMaintenance)
      PROVE  StreakMarks'
  BY <1>1, RecordMarks DEF RecordObservation
<1>2. CASE DeleteMonitor
  <2>1. ~exists' /\ results' = <<>>
    BY <1>2 DEF DeleteMonitor
  <2> QED
    BY <2>1 DEF StreakMarks, UnjudgedCountsUp, LastCountedExists, OpenStreakWaits, OpenStreak,
                ConfirmedStreakCounts
<1>3. CASE UNCHANGED <<exists, alert, results>>
  BY <1>3 DEF StreakMarks, UnjudgedCountsUp, LastCountedExists, OpenStreakWaits, OpenStreak,
              ConfirmedStreakCounts
<1>4. \/ UNCHANGED <<exists, alert, results>> \/ DeleteMonitor
      \/ \E o \in Observers, inMaintenance \in BOOLEAN : RecordObservation(o, inMaintenance)
  BY DEF Next, vars, rowVars, StartCheck, Attempt, CheckThrows, HeartbeatArrives,
         ApplyDependencies, DropObservation, OnlyObserverMoves, PatchThresholds
<1> QED
  BY <1>1, <1>2, <1>3, <1>4

\* A confirmed failure counts its whole streak, however long it waited for its
\* confirmation, through windows that saw no 'up': the scan begins behind the
\* last result that counts, and no failure of the streak is before that one.
THEOREM StreaksCount == Spec => []ConfirmedStreakCounts
<1>1. Init => StreakMarks
  BY DEF Init, StreakMarks, UnjudgedCountsUp, LastCountedExists, OpenStreakWaits, OpenStreak,
         ConfirmedStreakCounts
<1>2. TypeOK /\ StreakMarks /\ [Next]_vars => StreakMarks'
  BY MarksStep
<1>3. StreakMarks => ConfirmedStreakCounts
  BY DEF StreakMarks
<1> QED
  BY <1>1, <1>2, <1>3, Typing, PTL DEF Spec
==============================================================================
