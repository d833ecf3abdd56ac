------------------------- MODULE AutoIncidentsProofs -------------------------
(***************************************************************************)
(* Theorems about AutoIncidents, for any number of checks and heartbeats   *)
(* that overlap, any number of operators, all thresholds and delays, with  *)
(* restarts and deletions at any moment.                                   *)
(***************************************************************************)
EXTENDS AutoIncidents, TLAPS

\* The fold of one observation yields an alert state.
LEMMA TransitionType ==
  ASSUME NEW state \in AlertStates, NEW observed \in ObservedStatuses,
         NEW f \in Nat, NEW r \in Nat
  PROVE  EvaluateAlertTransition(state, observed, f, r) \in AlertStates
<1>1. StreakCount(state, observed) \in Nat
  BY DEF StreakCount, AlertStates
<1>2. observed \in Statuses
  BY DEF Statuses
<1> QED
  BY <1>1, <1>2 DEF EvaluateAlertTransition, Settled, AlertStates

\* What an observation leaves in the alert_* columns.
LEMMA NextAlertType ==
  ASSUME TypeOK, NEW status \in Observed, NEW inMaintenance \in BOOLEAN
  PROVE  NextAlert(status, inMaintenance) \in AlertStates
BY AutoIncidentsAssumption, TransitionType DEF NextAlert, TypeOK

\* An edit leaves a row of the right type.
LEMMA EditedType ==
  ASSUME NEW body \in AllBodies, NEW was \in Rows, NEW row \in Rows
  PROVE  Edited(body, was, row) \in Rows
<1>1. body.status = Unset \/ body.status \in IncidentStatuses
  BY DEF AllBodies
<1>2. ResolvedAtFor(body, was) \in BOOLEAN
  BY DEF ResolvedAtFor
<1> QED
  BY <1>1, <1>2 DEF Edited, Rows

\* What a request still has to do after its edit.
LEMMA AfterEditType ==
  ASSUME NEW i \in Ids, NEW body, NEW was, NEW row
  PROVE  AfterEdit(i, body, was, row) \in Jobs
BY DEF AfterEdit, Announce, Jobs, Idle, SubscriberEvents

\* Every variable keeps its type.
THEOREM Typing == Spec => []TypeOK
<1> USE AutoIncidentsAssumption
<1>1. Init => TypeOK
  BY DEF Init, TypeOK, Settled, AlertStates, Statuses, Rows, NoRow, IncidentStatuses, Jobs, Idle
<1>2. TypeOK /\ [Next]_vars => TypeOK'
  <2> SUFFICES ASSUME TypeOK, [Next]_vars
               PROVE  TypeOK'
    OBVIOUS
  <2> USE DEF TypeOK
  <2>1. ASSUME NEW o \in Observers, NEW status \in Observed,
               NEW inMaintenance \in BOOLEAN, NEW enabled \in BOOLEAN,
               Record(o, status, inMaintenance, enabled)
        PROVE  TypeOK'
    <3>1. alert' \in AlertStates
      BY <2>1, NextAlertType DEF Record
    <3>2. clock' \in Nat /\ failingSince' \in Nat
      BY <2>1 DEF Record, NextFailingSince
    <3>3. job' \in [Actors -> Jobs]
      BY <2>1, <3>2 DEF Record, Do, Jobs, Idle, Actors
    <3> QED
      BY <2>1, <3>1, <3>2, <3>3 DEF Record, history, counters
  <2>2. ASSUME NEW a \in Actors, NEW draft \in BOOLEAN, OpenIncident(a, draft)
        PROVE  TypeOK'
    <3>1. CASE KnowsOutage(job[a].since)
      BY <2>2, <3>1 DEF OpenIncident, Do, Jobs, history, counters, monitorVars
    <3>2. CASE ~KnowsOutage(job[a].since)
      <4>1. PICK i \in Unused :
              /\ incidents' = [incidents EXCEPT ![i] =
                   [stored |-> TRUE, startedAt |-> job[a].since, status |-> "investigating",
                    resolvedAt |-> FALSE, draft |-> draft]]
              /\ Do(a, IF draft THEN Idle ELSE Announce(i, "created"))
        BY <2>2, <3>2 DEF OpenIncident
      <4>2. job[a].since \in Nat
        BY <2>2 DEF OpenIncident, Jobs, Idle
      <4>3. incidents' \in [Ids -> Rows]
        BY <4>1, <4>2 DEF Rows, IncidentStatuses
      <4>4. job' \in [Actors -> Jobs]
        BY <4>1 DEF Do, Announce, Jobs, Idle, SubscriberEvents, Unused
      <4> QED
        BY <2>2, <4>3, <4>4 DEF OpenIncident, history, counters, monitorVars
    <3> QED
      BY <3>1, <3>2
  <2>3. ASSUME NEW a \in Actors, LookForIncident(a)
        PROVE  TypeOK'
    <3>1. job' \in [Actors -> Jobs]
      BY <2>3 DEF LookForIncident, Do, Jobs, Idle
    <3> QED
      BY <2>3, <3>1 DEF LookForIncident, history, counters, monitorVars
  <2>4. ASSUME NEW a \in Actors, ResolveIncident(a)
        PROVE  TypeOK'
    <3>1. job[a].incident \in Ids
      BY <2>4 DEF ResolveIncident, Jobs, Idle
    <3>2. job' \in [Actors -> Jobs]
      BY <2>4, <3>1 DEF ResolveIncident, Do, Announce, Jobs, Idle, SubscriberEvents
    <3>3. incidents' \in [Ids -> Rows]
      <4> DEFINE i == job[a].incident
                 resolved == [incidents[i] EXCEPT !.status = "resolved", !.resolvedAt = TRUE]
      <4>1. incidents[i] \in Rows
        BY <3>1
      <4>2. resolved \in Rows
        BY <4>1 DEF Rows, IncidentStatuses
      <4>3. incidents' = [incidents EXCEPT ![i] = resolved] \/ incidents' = incidents
        BY <2>4 DEF ResolveIncident
      <4> HIDE DEF i, resolved
      <4> QED
        BY <4>2, <4>3
    <3>4. resolutions' \in [Ids -> Nat]
      BY <2>4, <3>1 DEF ResolveIncident
    <3> QED
      BY <2>4, <3>2, <3>3, <3>4 DEF ResolveIncident, counters, monitorVars
  <2>5. ASSUME NEW a \in Actors, FinishEdit(a)
        PROVE  TypeOK'
    <3>1. job[a].incident \in Ids /\ job[a].body \in AllBodies /\ job[a].was \in Rows
      BY <2>5 DEF FinishEdit, Jobs, Idle
    <3>2. Edited(job[a].body, job[a].was, incidents[job[a].incident]) \in Rows
      BY <3>1, EditedType
    <3>3. AfterEdit(job[a].incident, job[a].body, job[a].was,
                    Edited(job[a].body, job[a].was, incidents[job[a].incident])) \in Jobs
      BY <3>1, AfterEditType
    <3>4. job' \in [Actors -> Jobs]
      BY <2>5, <3>3 DEF FinishEdit, Do, Jobs
    <3>5. incidents' \in [Ids -> Rows]
      BY <2>5, <3>1, <3>2 DEF FinishEdit
    <3>6. reopenings' \in [Ids -> Nat] /\ resolutions' \in [Ids -> Nat]
      BY <2>5, <3>1 DEF FinishEdit
    <3> QED
      BY <2>5, <3>4, <3>5, <3>6 DEF FinishEdit, counters, monitorVars
  <2>6. ASSUME NEW a \in Actors, Notify(a)
        PROVE  TypeOK'
    <3>1. job[a].incident \in Ids /\ job[a].event \in SubscriberEvents
      BY <2>6 DEF Notify, Jobs, Idle
    <3>2. announced' \in [Ids -> SUBSET SubscriberEvents]
      BY <2>6, <3>1 DEF Notify
    <3>3. job' \in [Actors -> Jobs]
      BY <2>6 DEF Notify, Do, Jobs
    <3> QED
      BY <2>6, <3>2, <3>3 DEF Notify, counters, monitorVars
  <2>7. ASSUME NEW p \in Operators, NEW i \in Ids, NEW body \in Bodies, BeginEdit(p, i, body)
        PROVE  TypeOK'
    <3>1. job' \in [Actors -> Jobs]
      BY <2>7 DEF BeginEdit, Do, Jobs, Actors
    <3> QED
      BY <2>7, <3>1 DEF BeginEdit, history, monitorVars
  <2>8. ASSUME NEW i \in Ids, DeleteIncident(i)
        PROVE  TypeOK'
    <3>1. incidents' \in [Ids -> Rows]
      BY <2>8 DEF DeleteIncident, Rows
    <3> QED
      BY <2>8, <3>1 DEF DeleteIncident, history, counters, monitorVars
  <2>9. CASE DeleteMonitor
    BY <2>9 DEF DeleteMonitor, history, counters
  <2>10. CASE Restart
    BY <2>10 DEF Restart, history, monitorVars, Jobs
  <2>11. CASE UNCHANGED vars
    BY <2>11 DEF vars, history, counters, monitorVars
  <2> QED
    BY <2>1, <2>2, <2>3, <2>4, <2>5, <2>6, <2>7, <2>8, <2>9, <2>10, <2>11 DEF Next, Continue
<1> QED
  BY <1>1, <1>2, PTL DEF Spec

-----------------------------------------------------------------------------
(* The safety properties.  They do not hold by themselves: that a new      *)
(* incident is the youngest rests on ids being given out in order and on   *)
(* the start of an outage never being 0, the mark of a row that was never  *)
(* stored; and that it starts without resolutions and notices rests on     *)
(* these being kept for stored rows only.                                  *)

StartsArePositive ==
  /\ \A i \in Ids : incidents[i] # NoRow => incidents[i].startedAt > 0
  /\ \A a \in Actors : job[a].phase = "opening" => job[a].since > 0

IdsInOrder == \A i, j \in Ids : i < j /\ incidents[i] = NoRow => incidents[j] = NoRow

FreshIsBlank == \A i \in Ids : incidents[i] = NoRow => resolutions[i] = 0 /\ announced[i] = {}

ResolutionsSpent ==
  \A i \in Ids : resolutions[i] <= (IF Open(i) THEN 0 ELSE 1) + reopenings[i]

Inv ==
  /\ TypeOK
  /\ StartsArePositive
  /\ IdsInOrder
  /\ FreshIsBlank
  /\ OneIncidentPerOutage
  /\ ResolutionsSpent
  /\ DraftsAreSilent

\* Steps that leave the incidents and their histories alone keep the invariant
\* when no observer starts to open an incident of time 0.
LEMMA IncidentsUntouched ==
  ASSUME Inv, TypeOK', UNCHANGED <<incidents, history>>,
         \A a \in Actors : (job[a].phase = "opening")' => job'[a].since > 0
  PROVE  Inv'
BY DEF Inv, StartsArePositive, IdsInOrder, FreshIsBlank, OneIncidentPerOutage,
       ResolutionsSpent, DraftsAreSilent, Open, history

\* So do steps that rewrite one stored row and keep its start, if they hide
\* nothing and account for a resolution or reopening.
LEMMA RowRewritten ==
  ASSUME Inv, TypeOK', NEW i \in Ids, NEW row \in Rows,
         incidents[i].stored,
         incidents' = [incidents EXCEPT ![i] = row],
         row.startedAt = incidents[i].startedAt,
         row.draft => incidents[i].draft,
         \A j \in Ids : j # i => resolutions'[j] = resolutions[j] /\ reopenings'[j] = reopenings[j],
         resolutions'[i] <= (IF row.stored /\ row.status # "resolved" THEN 0 ELSE 1) + reopenings'[i],
         announced' = announced,
         \A a \in Actors : (job[a].phase = "opening")' => job'[a].since > 0
  PROVE  Inv'
<1> USE DEF Inv
<1>1. incidents[i] # NoRow
  BY DEF NoRow
<1>2. row.startedAt > 0 /\ row # NoRow
  BY <1>1 DEF StartsArePositive, NoRow
<1>3. /\ incidents'[i] = row
      /\ \A j \in Ids : j # i => incidents'[j] = incidents[j]
  BY DEF TypeOK
<1>4. StartsArePositive'
  BY <1>2, <1>3 DEF StartsArePositive
<1>5. IdsInOrder'
  BY <1>1, <1>2, <1>3 DEF IdsInOrder
<1>6. FreshIsBlank'
  <2> SUFFICES ASSUME NEW j \in Ids, incidents'[j] = NoRow
               PROVE  resolutions'[j] = 0 /\ announced'[j] = {}
    BY DEF FreshIsBlank
  <2>1. j # i /\ incidents[j] = NoRow
    BY <1>2, <1>3
  <2> QED
    BY <2>1 DEF FreshIsBlank
<1>7. OneIncidentPerOutage'
  BY <1>3 DEF OneIncidentPerOutage
<1>8. ResolutionsSpent'
  <2>1. \A j \in Ids : j # i => (Open(j)' <=> Open(j))
    BY <1>3 DEF Open
  <2>2. Open(i)' <=> row.stored /\ row.status # "resolved"
    <3>1. incidents'[i] = row
      BY <1>3
    <3> QED
      BY <3>1, Zenon DEF Open
  <2> QED
    BY <2>1, <2>2 DEF ResolutionsSpent
<1>9. DraftsAreSilent'
  BY <1>3 DEF DraftsAreSilent
<1> QED
  BY <1>4, <1>5, <1>6, <1>7, <1>8, <1>9

\* A row is inserted with the lowest unused id, for an outage that no stored
\* incident is as young as.
LEMMA IncidentInserted ==
  ASSUME Inv, TypeOK', NEW a \in Actors, NEW draft \in BOOLEAN, OpenIncident(a, draft),
         ~KnowsOutage(job[a].since)
  PROVE  Inv'
<1> USE DEF Inv
<1>1. PICK i \in Unused :
        /\ \A j \in Unused : i <= j
        /\ incidents' = [incidents EXCEPT ![i] =
             [stored |-> TRUE, startedAt |-> job[a].since, status |-> "investigating",
              resolvedAt |-> FALSE, draft |-> draft]]
        /\ Do(a, IF draft THEN Idle ELSE Announce(i, "created"))
  BY DEF OpenIncident
<1> DEFINE row == [stored |-> TRUE, startedAt |-> job[a].since, status |-> "investigating",
                   resolvedAt |-> FALSE, draft |-> draft]
<1>2. i \in Ids /\ incidents[i] = NoRow
  BY DEF Unused
<1>3. /\ incidents'[i] = row
      /\ \A j \in Ids : j # i => incidents'[j] = incidents[j]
  BY <1>1, <1>2 DEF TypeOK
<1>4. job[a].since > 0
  BY DEF OpenIncident, StartsArePositive
<1>5. row.startedAt > 0 /\ row # NoRow /\ row.stored /\ row.status # "resolved"
  BY <1>4 DEF NoRow
<1> HIDE DEF row
<1>6. \A j \in Ids : j < i => incidents[j] # NoRow
  BY <1>1, <1>2 DEF Unused, Ids
<1>7. \A j \in Ids : i < j => incidents[j] = NoRow
  BY <1>2 DEF IdsInOrder
<1>8. StartsArePositive'
  <2>1. \A b \in Actors : (job[b].phase = "opening")' => job'[b].since > 0
    BY <1>1 DEF TypeOK, Do, Idle, Announce, StartsArePositive
  <2> QED
    BY <1>3, <1>5, <2>1 DEF StartsArePositive
<1>9. IdsInOrder'
  BY <1>3, <1>5, <1>6, <1>7 DEF IdsInOrder, Ids
<1>10. FreshIsBlank'
  <2> SUFFICES ASSUME NEW j \in Ids, incidents'[j] = NoRow
               PROVE  resolutions'[j] = 0 /\ announced'[j] = {}
    BY DEF FreshIsBlank
  <2>1. j # i /\ incidents[j] = NoRow
    BY <1>3, <1>5
  <2> QED
    BY <2>1 DEF FreshIsBlank, OpenIncident, history
<1>11. OneIncidentPerOutage'
  <2>1. \A j \in Ids : incidents[j].stored => incidents[j].startedAt < job[a].since
    <3>1. job[a].since \in Nat
      <4>1. job[a] \in Jobs /\ job[a].phase = "opening"
        BY DEF TypeOK, OpenIncident
      <4> QED
        BY <4>1 DEF Jobs, Idle
    <3>2. \A j \in Ids : incidents[j].startedAt \in Nat
      <4>1. \A j \in Ids : incidents[j] \in Rows
        BY DEF TypeOK
      <4> QED
        BY <4>1 DEF Rows
    <3>3. \A j \in Ids : incidents[j].stored => ~(incidents[j].startedAt >= job[a].since)
      BY DEF KnowsOutage
    <3> QED
      BY <3>1, <3>2, <3>3
  <2>2. row.startedAt = job[a].since
    BY DEF row
  <2>3. \A j \in Ids : i < j => ~incidents[j].stored
    BY <1>7 DEF NoRow
  <2> QED
    BY <1>2, <1>3, <2>1, <2>2, <2>3 DEF OneIncidentPerOutage, Ids
<1>12. ResolutionsSpent'
  <2>1. \A j \in Ids : j # i => (Open(j)' <=> Open(j))
    BY <1>3 DEF Open
  <2>2. resolutions[i] = 0 /\ reopenings[i] \in Nat
    BY <1>2 DEF FreshIsBlank, TypeOK
  <2> QED
    BY <1>2, <2>1, <2>2 DEF ResolutionsSpent, OpenIncident, history
<1>13. DraftsAreSilent'
  <2>1. announced[i] = {}
    BY <1>2 DEF FreshIsBlank
  <2> QED
    BY <1>3, <2>1 DEF DraftsAreSilent, OpenIncident, history
<1> QED
  BY <1>8, <1>9, <1>10, <1>11, <1>12, <1>13

\* A notice is queued for an incident that is not a draft.
LEMMA NoticeQueued ==
  ASSUME Inv, TypeOK', NEW a \in Actors, Notify(a)
  PROVE  Inv'
<1> USE DEF Inv
<1> DEFINE i == job[a].incident
<1>1. i \in Ids
  BY DEF Notify, TypeOK, Jobs, Idle
<1>2. incidents' = incidents /\ resolutions' = resolutions /\ reopenings' = reopenings
  BY DEF Notify
<1>3. StartsArePositive'
  BY <1>2 DEF Notify, StartsArePositive, TypeOK, Do, Idle
<1>4. FreshIsBlank'
  <2>1. Announceable(i) => incidents[i] # NoRow
    BY DEF Announceable, NoRow
  <2>2. \A j \in Ids : j # i \/ ~Announceable(i) => announced'[j] = announced[j]
    BY <1>1 DEF Notify, TypeOK
  <2> QED
    BY <1>2, <2>1, <2>2 DEF FreshIsBlank
<1>5. DraftsAreSilent'
  <2>1. \A j \in Ids : j # i \/ ~Announceable(i) => announced'[j] = announced[j]
    BY <1>1 DEF Notify, TypeOK
  <2> QED
    BY <1>2, <2>1 DEF DraftsAreSilent, Announceable
<1>6. IdsInOrder' /\ OneIncidentPerOutage' /\ ResolutionsSpent'
  BY <1>2 DEF IdsInOrder, OneIncidentPerOutage, ResolutionsSpent, Open
<1> QED
  BY <1>3, <1>4, <1>5, <1>6

\* The inductive invariant holds in every reachable state.
THEOREM Invariance == Spec => []Inv
<1> USE AutoIncidentsAssumption
<1>1. Init => Inv
  <2> SUFFICES ASSUME Init
               PROVE  Inv
    OBVIOUS
  <2>1. TypeOK
    BY DEF Init, TypeOK, Settled, AlertStates, Statuses, Rows, NoRow, IncidentStatuses, Jobs, Idle
  <2>2. StartsArePositive /\ IdsInOrder /\ FreshIsBlank
    BY DEF Init, StartsArePositive, IdsInOrder, FreshIsBlank, Idle
  <2>3. OneIncidentPerOutage /\ ResolutionsSpent /\ DraftsAreSilent
    BY DEF Init, OneIncidentPerOutage, ResolutionsSpent, DraftsAreSilent, Open, NoRow
  <2> QED
    BY <2>1, <2>2, <2>3 DEF Inv
<1>2. Inv /\ TypeOK' /\ [Next]_vars => Inv'
  <2> SUFFICES ASSUME Inv, TypeOK', [Next]_vars
               PROVE  Inv'
    OBVIOUS
  <2>0. TypeOK
    BY DEF Inv
  <2>1. ASSUME NEW o \in Observers, NEW status \in Observed,
               NEW inMaintenance \in BOOLEAN, NEW enabled \in BOOLEAN,
               Record(o, status, inMaintenance, enabled)
        PROVE  Inv'
    <3>1. ConfirmedDown(status, inMaintenance) /\ ~ConfirmsRecovery(status, inMaintenance)
            => failingSince' > 0
      BY <2>0, <2>1 DEF TypeOK, Record, NextFailingSince
    <3>2. \A b \in Actors : (job[b].phase = "opening")' => job'[b].since > 0
      BY <2>0, <2>1, <3>1 DEF Inv, StartsArePositive, TypeOK, Record, Do, Idle
    <3> QED
      BY <2>1, <3>2, IncidentsUntouched DEF Record
  <2>2. ASSUME NEW a \in Actors, NEW draft \in BOOLEAN, OpenIncident(a, draft)
        PROVE  Inv'
    <3>1. CASE KnowsOutage(job[a].since)
      <4>1. \A b \in Actors : (job[b].phase = "opening")' => job'[b].since > 0
        BY <2>0, <2>2, <3>1 DEF Inv, StartsArePositive, TypeOK, OpenIncident, Do, Idle
      <4> QED
        BY <2>2, <3>1, <4>1, IncidentsUntouched DEF OpenIncident
    <3> QED
      BY <2>2, <3>1, IncidentInserted
  <2>3. ASSUME NEW a \in Actors, LookForIncident(a)
        PROVE  Inv'
    <3>1. \A b \in Actors : (job[b].phase = "opening")' => job'[b].since > 0
      BY <2>0, <2>3 DEF Inv, StartsArePositive, TypeOK, LookForIncident, Do, Idle
    <3> QED
      BY <2>3, <3>1, IncidentsUntouched DEF LookForIncident
  <2>4. ASSUME NEW a \in Actors, ResolveIncident(a)
        PROVE  Inv'
    <3> DEFINE i == job[a].incident
    <3>1. i \in Ids
      BY <2>0, <2>4 DEF TypeOK, ResolveIncident, Jobs, Idle
    <3>2. \A b \in Actors : (job[b].phase = "opening")' => job'[b].since > 0
      BY <2>0, <2>4 DEF Inv, StartsArePositive, TypeOK, ResolveIncident, Do, Idle, Announce
    <3>3. CASE StillOpen(i)
      <4> DEFINE row == [incidents[i] EXCEPT !.status = "resolved", !.resolvedAt = TRUE]
      <4>1. /\ row \in Rows
            /\ row.startedAt = incidents[i].startedAt
            /\ row.draft = incidents[i].draft
            /\ row.stored = incidents[i].stored
            /\ row.status = "resolved"
        <5>1. incidents[i] \in Rows
          BY <2>0, <3>1 DEF TypeOK
        <5> HIDE DEF i
        <5> QED
          BY <5>1 DEF Rows, IncidentStatuses
      <4>2. incidents' = [incidents EXCEPT ![i] = row]
        BY <2>4, <3>3 DEF ResolveIncident
      <4>3. incidents[i].stored /\ resolutions[i] <= reopenings[i]
        BY <3>1, <3>3, <2>0 DEF StillOpen, Open, Inv, ResolutionsSpent, TypeOK
      <4>4. /\ resolutions'[i] = resolutions[i] + 1
            /\ \A j \in Ids : j # i => resolutions'[j] = resolutions[j]
            /\ reopenings' = reopenings /\ announced' = announced
        BY <2>0, <2>4, <3>1, <3>3 DEF ResolveIncident, TypeOK
      <4>5. resolutions[i] \in Nat /\ reopenings[i] \in Nat
        BY <2>0, <3>1 DEF TypeOK
      <4>6. resolutions'[i] <= (IF row.stored /\ row.status # "resolved" THEN 0 ELSE 1) + reopenings'[i]
        BY <4>1, <4>3, <4>4, <4>5
      <4> HIDE DEF row, i
      <4> QED
        BY <3>1, <3>2, <4>1, <4>2, <4>3, <4>4, <4>6, RowRewritten
    <3>4. CASE ~StillOpen(i)
      BY <2>4, <3>2, <3>4, IncidentsUntouched DEF ResolveIncident, history
    <3> QED
      BY <3>3, <3>4
  <2>5. ASSUME NEW a \in Actors, FinishEdit(a)
        PROVE  Inv'
    <3> DEFINE i == job[a].incident
               body == job[a].body
               was == job[a].was
               row == Edited(body, was, incidents[i])
    <3>1. i \in Ids /\ body \in AllBodies /\ was \in Rows
      BY <2>0, <2>5 DEF TypeOK, FinishEdit, Jobs, Idle
    <3>2. \A b \in Actors : (job[b].phase = "opening")' => job'[b].since > 0
      BY <2>0, <2>5 DEF Inv, StartsArePositive, TypeOK, FinishEdit, Do, Idle, Announce, AfterEdit
    <3>3. CASE incidents[i].stored
      <4>1. incidents[i] \in Rows
        BY <2>0, <3>1 DEF TypeOK
      <4>2. row \in Rows
        BY <3>1, <4>1, EditedType
      <4>3. row.startedAt = incidents[i].startedAt /\ row.stored = incidents[i].stored
        BY <4>1 DEF Edited, Rows
      <4>4. row.draft => incidents[i].draft
        BY <4>1, Zenon DEF Edited, Rows
      <4>5. /\ incidents' = [incidents EXCEPT ![i] = row]
            /\ announced' = announced
        BY <2>5, <3>3 DEF FinishEdit
      <4>6. /\ reopenings'[i] = IF incidents[i].status = "resolved" /\ row.status # "resolved"
                                THEN reopenings[i] + 1 ELSE reopenings[i]
            /\ resolutions'[i] = IF incidents[i].status # "resolved" /\ row.status = "resolved"
                                 THEN resolutions[i] + 1 ELSE resolutions[i]
            /\ \A j \in Ids : j # i => /\ reopenings'[j] = reopenings[j]
                                      /\ resolutions'[j] = resolutions[j]
        BY <2>0, <2>5, <3>1, <3>3 DEF FinishEdit, TypeOK
      <4>7. resolutions[i] \in Nat /\ reopenings[i] \in Nat
        BY <2>0, <3>1 DEF TypeOK
      <4>8. resolutions[i] <= (IF incidents[i].status # "resolved" THEN 0 ELSE 1) + reopenings[i]
        BY <3>1, <3>3 DEF Inv, ResolutionsSpent, Open
      <4> HIDE DEF row, i, body, was
      <4>9. resolutions'[i] <= (IF row.stored /\ row.status # "resolved" THEN 0 ELSE 1) + reopenings'[i]
        BY <3>3, <4>3, <4>5, <4>6, <4>7, <4>8
      <4> QED
        BY <3>1, <3>2, <3>3, <4>2, <4>3, <4>4, <4>5, <4>6, <4>9, RowRewritten
    <3>4. CASE ~incidents[i].stored
      BY <2>5, <3>2, <3>4, IncidentsUntouched DEF FinishEdit, history
    <3> QED
      BY <3>3, <3>4
  <2>6. ASSUME NEW a \in Actors, Notify(a)
        PROVE  Inv'
    BY <2>6, NoticeQueued
  <2>7. ASSUME NEW p \in Operators, NEW i \in Ids, NEW body \in Bodies, BeginEdit(p, i, body)
        PROVE  Inv'
    <3>1. \A b \in Actors : (job[b].phase = "opening")' => job'[b].since > 0
      BY <2>0, <2>7 DEF Inv, StartsArePositive, TypeOK, BeginEdit, Do, Actors
    <3> QED
      BY <2>7, <3>1, IncidentsUntouched DEF BeginEdit
  <2>8. ASSUME NEW i \in Ids, DeleteIncident(i)
        PROVE  Inv'
    <3> DEFINE row == [incidents[i] EXCEPT !.stored = FALSE]
    <3>1. incidents[i] \in Rows
      BY <2>0 DEF TypeOK
    <3>2. /\ row \in Rows
          /\ row.startedAt = incidents[i].startedAt
          /\ row.draft = incidents[i].draft
          /\ ~row.stored
      BY <3>1 DEF Rows
    <3>3. incidents' = [incidents EXCEPT ![i] = row] /\ incidents[i].stored
      BY <2>8 DEF DeleteIncident
    <3>4. job' = job /\ resolutions' = resolutions /\ reopenings' = reopenings /\ announced' = announced
      BY <2>8 DEF DeleteIncident, history
    <3>5. resolutions[i] <= 1 + reopenings[i]
      BY <2>0 DEF Inv, ResolutionsSpent, TypeOK
    <3>6. \A b \in Actors : (job[b].phase = "opening")' => job'[b].since > 0
      BY <3>4 DEF Inv, StartsArePositive
    <3> HIDE DEF row
    <3>7. resolutions'[i] <= (IF row.stored /\ row.status # "resolved" THEN 0 ELSE 1) + reopenings'[i]
      BY <3>2, <3>4, <3>5
    <3> QED
      BY <3>2, <3>3, <3>4, <3>6, <3>7, RowRewritten
  <2>9. CASE DeleteMonitor
    BY <2>9, IncidentsUntouched DEF DeleteMonitor, Inv, StartsArePositive
  <2>10. CASE Restart
    BY <2>10, IncidentsUntouched DEF Restart, Idle
  <2>11. CASE UNCHANGED vars
    BY <2>11, IncidentsUntouched DEF vars, Inv, StartsArePositive
  <2> QED
    BY <2>1, <2>2, <2>3, <2>4, <2>5, <2>6, <2>7, <2>8, <2>9, <2>10, <2>11 DEF Next, Continue
<1> QED
  BY <1>1, <1>2, Typing, PTL DEF Spec

\* An outage opens one incident at most, in the order of the outages.
THEOREM OnePerOutage == Spec => []OneIncidentPerOutage
<1>1. Inv => OneIncidentPerOutage
  BY DEF Inv
<1> QED
  BY <1>1, Invariance, PTL

\* Overlapping resolutions resolve an incident once.
THEOREM Resolutions == Spec => []ResolvedOnce
<1>1. Inv => ResolvedOnce
  BY DEF Inv, TypeOK, ResolutionsSpent, ResolvedOnce
<1> QED
  BY <1>1, Invariance, PTL

\* Subscribers never hear of an incident that is, or becomes, a draft.
THEOREM Silence == Spec => []DraftsAreSilent
<1>1. Inv => DraftsAreSilent
  BY DEF Inv
<1> QED
  BY <1>1, Invariance, PTL

\* An edit that read the row before somebody else wrote it takes nothing back.
THEOREM NothingTakenBack == Spec => EditsTakeNothingBack
<1> USE AutoIncidentsAssumption
<1> DEFINE Kept(i) ==
      incidents[i].stored /\ incidents'[i].stored =>
        /\ incidents'[i].draft => incidents[i].draft
        /\ Open(i)' /\ ~Open(i) => Asked(i, "investigating")
        /\ Open(i) /\ ~Open(i)' => Resolving(i) \/ Asked(i, "resolved")
<1>1. ASSUME TypeOK, [Next]_vars, NEW i \in Ids
      PROVE  Kept(i)
  <2> SUFFICES ASSUME incidents[i].stored, incidents'[i].stored, incidents'[i] # incidents[i]
               PROVE  Kept(i)
    BY DEF Open
  <2>1. ASSUME NEW a \in Actors, NEW draft \in BOOLEAN, OpenIncident(a, draft)
        PROVE  FALSE
    <3>1. incidents[i] # NoRow
      BY DEF NoRow
    <3> QED
      BY <1>1, <2>1, <3>1 DEF OpenIncident, Unused, TypeOK
  <2>2. ASSUME NEW a \in Actors, ResolveIncident(a)
        PROVE  Kept(i)
    <3>1. job[a].incident = i
      BY <1>1, <2>2 DEF ResolveIncident, TypeOK
    <3>2. /\ incidents'[i] = [incidents[i] EXCEPT !.status = "resolved", !.resolvedAt = TRUE]
          /\ Resolving(i)
      BY <1>1, <2>2, <3>1 DEF ResolveIncident, Resolving, TypeOK
    <3>3. incidents[i] \in Rows
      BY <1>1 DEF TypeOK
    <3>4. incidents'[i].draft = incidents[i].draft /\ incidents'[i].status = "resolved"
      BY <3>2, <3>3 DEF Rows
    <3> QED
      BY <3>2, <3>3, <3>4 DEF Open
  <2>3. ASSUME NEW a \in Actors, FinishEdit(a)
        PROVE  Kept(i)
    <3> DEFINE body == job[a].body
               was == job[a].was
    <3>1. job[a].incident = i
      BY <1>1, <2>3 DEF FinishEdit, TypeOK
    <3>2. incidents'[i] = Edited(body, was, incidents[i])
      BY <1>1, <2>3, <3>1 DEF FinishEdit, TypeOK
    <3>3. incidents[i] \in Rows /\ body \in AllBodies
      BY <1>1, <2>3 DEF TypeOK, FinishEdit, Jobs, Idle
    <3>4. incidents'[i].draft => incidents[i].draft
      BY <3>2, <3>3, Zenon DEF Edited, Rows
    <3>5. incidents'[i].status = IF body.status = Unset THEN incidents[i].status ELSE body.status
      BY <3>2, <3>3 DEF Edited, Rows
    <3>6. body.status \in IncidentStatuses \cup {Unset}
      BY <3>3 DEF AllBodies
    <3>7. incidents[i].status # incidents'[i].status => Asked(i, incidents'[i].status)
      BY <2>3, <3>1, <3>5 DEF Asked, FinishEdit
    <3> QED
      BY <3>3, <3>4, <3>5, <3>6, <3>7 DEF Open, IncidentStatuses, Rows
  <2>4. ASSUME NEW j \in Ids, DeleteIncident(j)
        PROVE  FALSE
    BY <1>1, <2>4 DEF DeleteIncident, TypeOK, Rows
  <2> QED
    BY <1>1, <2>1, <2>2, <2>3, <2>4
       DEF Next, Continue, Record, LookForIncident, Notify, BeginEdit, DeleteMonitor, Restart, vars
<1>2. TypeOK /\ [Next]_vars => [\A i \in Ids : Kept(i)]_vars
  BY <1>1
<1> QED
  BY <1>2, Typing, PTL DEF Spec, EditsTakeNothingBack
==============================================================================
