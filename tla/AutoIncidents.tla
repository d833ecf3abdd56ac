---------------------------- MODULE AutoIncidents ----------------------------
(***************************************************************************)
(* The incidents a monitor opens by itself: the decision that follows a    *)
(* recorded observation, the transaction that opens the incident, the one  *)
(* that resolves it after a recovery, the operator who edits the same rows *)
(* and the notices subscribers get.  Translated from the end of            *)
(* recordObservation (workers/scheduler.ts), services/autoIncident.ts and  *)
(* routes/incidents.ts.                                                    *)
(*                                                                         *)
(* One monitor is modelled; incidents of different monitors never meet.    *)
(* Every observation has a millisecond of its own, so time is the number   *)
(* of observations recorded.  Words are left out (templates, titles,       *)
(* translations, impact), so the awaits that fetch them are the time       *)
(* between two steps.  Whether a new incident is a draft depends on the    *)
(* mode and on the page layout, which may change at any time: it is an     *)
(* input of the step that stores it.                                       *)
(***************************************************************************)
EXTENDS AlertThresholds, FiniteSets

CONSTANTS
  Observers,         \* checks and heartbeats of the monitor under way together
  Operators,         \* requests of the admin console under way together
  Observed,          \* the statuses that are observed
  Bodies,            \* what the operators send
  FailureThreshold,  \* monitors.failure_threshold
  RecoveryThreshold, \* monitors.recovery_threshold
  Delay,             \* monitors.auto_incident_minutes
  MaxObservations,   \* bound: observations recorded
  MaxIncidents,      \* bound: incidents ever stored
  MaxEdits,          \* bound: requests of the operators
  MaxRestarts        \* bound: restarts of the process

\* Everything short of resolved is 'investigating' here.
IncidentStatuses == {"investigating", "resolved"}

Unset == "unset"

\* PATCH /incidents/:id (a body without a status edits the title or impact)
\* and POST /incidents/:id/updates, which always has one.
AllBodies ==
  [kind : {"patch"}, status : IncidentStatuses \cup {Unset}, publish : BOOLEAN]
    \cup [kind : {"update"}, status : IncidentStatuses, publish : {FALSE}]

ASSUME AutoIncidentsAssumption ==
  /\ Observers \cap Operators = {}
  /\ Observed \subseteq ObservedStatuses
  /\ Bodies \subseteq AllBodies
  /\ {FailureThreshold, RecoveryThreshold, Delay} \subseteq Nat \ {0}
  /\ {MaxObservations, MaxIncidents, MaxEdits, MaxRestarts} \subseteq Nat

VARIABLES
  exists,        \* the monitors row is there
  alert,         \* its alert_* columns
  failingSince,  \* its outage clock; 0 when null
  clock,         \* observations recorded so far, the present time
  incidents,     \* incidents with this auto_monitor_id, by the order of their ids
  job,           \* what each observer or operator under way still has to do
  edits,         \* requests of the operators so far
  restarts,      \* restarts so far
  resolutions,   \* history: times a recovery or an operator resolved the incident
  reopenings,    \* history: times an operator made it active again
  announced      \* history: the subscriber events queued for it

monitorVars == <<exists, alert, failingSince, clock>>
history == <<resolutions, reopenings, announced>>
counters == <<edits, restarts>>
vars == <<monitorVars, incidents, job, counters, history>>

Actors == Observers \cup Operators
Ids == 1 .. MaxIncidents

SubscriberEvents == {"created", "updated", "resolved"}

\* `stored` is FALSE before the row is inserted and after it is deleted;
\* `resolvedAt` says whether the column has a time.
Rows == [stored : BOOLEAN, startedAt : Nat, status : IncidentStatuses,
         resolvedAt : BOOLEAN, draft : BOOLEAN]

NoRow == [stored |-> FALSE, startedAt |-> 0, status |-> "resolved",
          resolvedAt |-> FALSE, draft |-> FALSE]

Idle == [phase |-> "idle"]

Jobs ==
  {Idle}
    \cup [phase : {"opening"}, since : Nat]
    \cup [phase : {"looking"}]
    \cup [phase : {"resolving"}, incident : Ids]
    \cup [phase : {"announcing"}, incident : Ids, event : SubscriberEvents]
    \cup [phase : {"editing"}, incident : Ids, body : Bodies, was : Rows]

TypeOK ==
  /\ exists \in BOOLEAN
  /\ alert \in AlertStates
  /\ failingSince \in Nat
  /\ clock \in Nat
  /\ incidents \in [Ids -> Rows]
  /\ job \in [Actors -> Jobs]
  /\ edits \in Nat
  /\ restarts \in Nat
  /\ resolutions \in [Ids -> Nat]
  /\ reopenings \in [Ids -> Nat]
  /\ announced \in [Ids -> SUBSET SubscriberEvents]

Init ==
  /\ exists = TRUE
  /\ alert = Settled("pending")
  /\ failingSince = 0
  /\ clock = 0
  /\ incidents = [i \in Ids |-> NoRow]
  /\ job = [a \in Actors |-> Idle]
  /\ edits = 0
  /\ restarts = 0
  /\ resolutions = [i \in Ids |-> 0]
  /\ reopenings = [i \in Ids |-> 0]
  /\ announced = [i \in Ids |-> {}]

Open(i) == incidents[i].stored /\ incidents[i].status # "resolved"

\* AUTOINCREMENT: the id of a deleted incident is not given out again.
Unused == {i \in Ids : incidents[i] = NoRow}

\* Places are alike: whoever comes next takes the same free one.
FreePlace(places) == CHOOSE a \in places : job[a] = Idle

Do(a, next) == job' = [job EXCEPT ![a] = next]

Announce(i, event) == [phase |-> "announcing", incident |-> i, event |-> event]

-----------------------------------------------------------------------------
(* An observation is recorded; once it is committed, its recorder goes on  *)
(* with what it read and wrote in the transaction.                         *)

NextAlert(status, inMaintenance) ==
  IF inMaintenance THEN alert
  ELSE EvaluateAlertTransition(alert, status, FailureThreshold, RecoveryThreshold)

\* fireStatus === 'up'.
ConfirmsRecovery(status, inMaintenance) ==
  /\ status = "up"
  /\ NextAlert(status, inMaintenance).confirmed # alert.confirmed

ConfirmedDown(status, inMaintenance) ==
  ~inMaintenance /\ NextAlert(status, inMaintenance).confirmed = "down"

NextFailingSince(status, inMaintenance) ==
  IF ConfirmsRecovery(status, inMaintenance) THEN 0
  ELSE IF ConfirmedDown(status, inMaintenance) /\ failingSince = 0 THEN clock'
       ELSE failingSince

\* The early returns of openIncidentForOutage; `enabled` stands for
\* autoIncidentMinutes not being null.
LastedLongEnough(enabled) ==
  enabled /\ failingSince' # 0 /\ clock' - failingSince' >= Delay

Record(o, status, inMaintenance, enabled) ==
  /\ job[o] = Idle
  /\ o = FreePlace(Observers)
  /\ exists
  /\ clock < MaxObservations
  /\ clock' = clock + 1
  /\ alert' = NextAlert(status, inMaintenance)
  /\ failingSince' = NextFailingSince(status, inMaintenance)
  /\ Do(o, IF ConfirmsRecovery(status, inMaintenance) THEN [phase |-> "looking"]
           ELSE IF ConfirmedDown(status, inMaintenance) /\ LastedLongEnough(enabled)
                THEN [phase |-> "opening", since |-> failingSince']
                ELSE Idle)
  /\ UNCHANGED <<exists, incidents, counters, history>>

\* Planted bug: only open incidents are looked for.
KnowsOpenOutage(since) == \E i \in Ids : Open(i) /\ incidents[i].startedAt >= since

KnowsOutage(since) == \E i \in Ids : incidents[i].stored /\ incidents[i].startedAt >= since

\* The transaction of openIncidentForOutage, after the template, the published
\* monitors and the translations were read.
OpenIncident(o, draft) ==
  /\ job[o].phase = "opening"
  /\ IF KnowsOutage(job[o].since)
     THEN Do(o, Idle) /\ UNCHANGED incidents
     ELSE \E i \in Unused :
            /\ \A j \in Unused : i <= j
            /\ incidents' = [incidents EXCEPT ![i] =
                 [stored |-> TRUE, startedAt |-> job[o].since, status |-> "investigating",
                  resolvedAt |-> FALSE, draft |-> draft]]
            /\ Do(o, IF draft THEN Idle ELSE Announce(i, "created"))
  /\ UNCHANGED <<monitorVars, counters, history>>

\* Planted bug: drafts are not found.
PublicAutoIncident(i) == Open(i) /\ ~incidents[i].draft

\* openAutoIncident takes the first row of a SELECT that asks for no order:
\* when two incidents of the monitor are open, it is either.
OpenAutoIncident(i) == Open(i)

\* resolveIncidentForRecovery looks for the incident and reads the template.
LookForIncident(o) ==
  /\ job[o].phase = "looking"
  /\ \/ \E i \in Ids : OpenAutoIncident(i) /\ Do(o, [phase |-> "resolving", incident |-> i])
     \/ (\A i \in Ids : ~OpenAutoIncident(i)) /\ Do(o, Idle)
  /\ UNCHANGED <<monitorVars, incidents, counters, history>>

\* Planted bug: the status is not looked at again.
StillThere(i) == incidents[i].stored

StillOpen(i) == Open(i)

\* The transaction of resolveIncidentForRecovery.
ResolveIncident(o) ==
  LET i == job[o].incident IN
  /\ job[o].phase = "resolving"
  /\ IF StillOpen(i)
     THEN /\ incidents' = [incidents EXCEPT ![i].status = "resolved", ![i].resolvedAt = TRUE]
          /\ resolutions' = [resolutions EXCEPT ![i] = @ + 1]
          /\ Do(o, Announce(i, "resolved"))
     ELSE Do(o, Idle) /\ UNCHANGED <<incidents, resolutions>>
  /\ UNCHANGED <<monitorVars, counters, reopenings, announced>>

\* Planted bug: whoever asks for a notice gets one.
Stored(i) == incidents[i].stored

\* A draft has not been announced yet, so nobody subscribed hears about it.
Announceable(i) == incidents[i].stored /\ ~incidents[i].draft

\* notifyIncidentSubscribers reads the row again.
Notify(a) ==
  LET i == job[a].incident IN
  /\ job[a].phase = "announcing"
  /\ announced' = [announced EXCEPT ![i] = IF Announceable(i) THEN @ \cup {job[a].event} ELSE @]
  /\ Do(a, Idle)
  /\ UNCHANGED <<monitorVars, incidents, counters, resolutions, reopenings>>

-----------------------------------------------------------------------------
(* The operator, and what else happens.                                    *)

\* A request reads the row it is about to change.
BeginEdit(p, i, body) ==
  /\ job[p] = Idle
  /\ p = FreePlace(Operators)
  /\ incidents[i].stored
  /\ edits < MaxEdits
  /\ edits' = edits + 1
  /\ Do(p, [phase |-> "editing", incident |-> i, body |-> body, was |-> incidents[i]])
  /\ UNCHANGED <<monitorVars, incidents, restarts, history>>

\* resolvedAtFor, of the status that was sent or else of the row that was read;
\* which time the column gets, the operator's or the present, is left out.
ResolvedAtFor(body, was) ==
  (IF body.status = Unset THEN was.status ELSE body.status) = "resolved"

Publishing(body, was) == was.draft /\ body.publish

\* Planted bug: the status of an edit comes from the row that was read.
WriteBack(body, was, row) ==
  [row EXCEPT !.status = IF body.status = Unset THEN was.status ELSE body.status,
              !.resolvedAt = ResolvedAtFor(body, was),
              !.draft = IF Publishing(body, was) THEN FALSE ELSE was.draft]

\* The row after the UPDATE, which leaves alone what the body does not name.
Edited(body, was, row) ==
  [row EXCEPT !.status = IF body.status = Unset THEN @ ELSE body.status,
              !.resolvedAt = ResolvedAtFor(body, was),
              !.draft = IF Publishing(body, was) THEN FALSE ELSE @]

\* Planted bug: the notice of a publication is that of an ordinary edit.
AfterPlainEdit(i, body, was, row) ==
  IF body.kind = "patch" /\ was.status # "resolved" /\ row.status = "resolved"
    THEN Announce(i, "resolved")
  ELSE IF body.kind = "update" /\ body.status # "resolved" THEN Announce(i, "updated")
  ELSE Idle

\* The notice an edit asks for (without notifySubscribers: false); `row` is
\* what it left stored.
AfterEdit(i, body, was, row) ==
  IF body.kind = "update"
    THEN Announce(i, IF body.status = "resolved" /\ was.status # "resolved"
                     THEN "resolved" ELSE "updated")
  ELSE IF Publishing(body, was)
    THEN Announce(i, IF row.status = "resolved" THEN "resolved" ELSE "created")
  ELSE IF was.status # "resolved" /\ row.status = "resolved" THEN Announce(i, "resolved")
  ELSE Idle

\* The request writes; for a row that was deleted meanwhile it fails.
FinishEdit(p) ==
  LET i == job[p].incident
      body == job[p].body
      was == job[p].was
      row == Edited(body, was, incidents[i])
  IN
  /\ job[p].phase = "editing"
  /\ IF incidents[i].stored
     THEN /\ incidents' = [incidents EXCEPT ![i] = row]
          /\ reopenings' = [reopenings EXCEPT ![i] =
               IF incidents[i].status = "resolved" /\ row.status # "resolved" THEN @ + 1 ELSE @]
          /\ resolutions' = [resolutions EXCEPT ![i] =
               IF incidents[i].status # "resolved" /\ row.status = "resolved" THEN @ + 1 ELSE @]
          /\ Do(p, AfterEdit(i, body, was, row))
     ELSE Do(p, Idle) /\ UNCHANGED <<incidents, resolutions, reopenings>>
  /\ UNCHANGED <<monitorVars, counters, announced>>

\* DELETE /incidents/:id.
DeleteIncident(i) ==
  /\ incidents[i].stored
  /\ incidents' = [incidents EXCEPT ![i].stored = FALSE]
  /\ UNCHANGED <<monitorVars, job, counters, history>>

\* DELETE /monitors/:id leaves the incidents as they are.
DeleteMonitor ==
  /\ exists
  /\ exists' = FALSE
  /\ UNCHANGED <<alert, failingSince, clock, incidents, job, counters, history>>

\* The process stops and starts again: what was still to be done is forgotten.
Restart ==
  /\ restarts < MaxRestarts
  /\ restarts' = restarts + 1
  /\ job' = [a \in Actors |-> Idle]
  /\ UNCHANGED <<monitorVars, incidents, edits, history>>

Continue(a) ==
  \/ \E draft \in BOOLEAN : OpenIncident(a, draft)
  \/ LookForIncident(a)
  \/ ResolveIncident(a)
  \/ FinishEdit(a)
  \/ Notify(a)

Next ==
  \/ \E o \in Observers, status \in Observed, inMaintenance, enabled \in BOOLEAN :
       Record(o, status, inMaintenance, enabled)
  \/ \E a \in Actors : Continue(a)
  \/ \E p \in Operators, i \in Ids, body \in Bodies : BeginEdit(p, i, body)
  \/ \E i \in Ids : DeleteIncident(i)
  \/ DeleteMonitor
  \/ Restart

Spec == Init /\ [][Next]_vars

\* Nothing but the local database is awaited between the steps of a job.
Fairness == \A a \in Actors : WF_vars(Continue(a))

FairSpec == Spec /\ Fairness

-----------------------------------------------------------------------------
(* Properties.                                                             *)

\* Every outage opens one incident at most, in the order of the outages,
\* whichever of the overlapping observations gets to it first, and also after
\* an operator has resolved it ("is not reopened by the next check").
OneIncidentPerOutage ==
  \A i, j \in Ids :
    i < j /\ incidents[i].stored /\ incidents[j].stored =>
      incidents[i].startedAt < incidents[j].startedAt

\* However recoveries and operators overlap, an incident is resolved once: it
\* takes an operator who makes it active again for a second resolution.
ResolvedOnce == \A i \in Ids : resolutions[i] <= 1 + reopenings[i]

\* Subscribers never hear of a draft, and an announced incident never becomes
\* one again, whatever an edit that started before the announcement writes.
DraftsAreSilent == \A i \in Ids : announced[i] # {} => ~incidents[i].draft

Asked(i, status) ==
  \E a \in Actors : /\ job[a].phase = "editing"
                   /\ job[a].incident = i
                   /\ job[a].body.status = status

Resolving(i) == \E a \in Actors : job[a].phase = "resolving" /\ job[a].incident = i

\* A request that read the row before somebody else wrote it takes nothing
\* back: an incident becomes active again only when that status was sent, is
\* resolved only by a recovery or when that status was sent, and is never
\* hidden again.
EditsTakeNothingBack ==
  [][\A i \in Ids : incidents[i].stored /\ incidents'[i].stored =>
       /\ incidents'[i].draft => incidents[i].draft
       /\ Open(i)' /\ ~Open(i) => Asked(i, "investigating")
       /\ Open(i) /\ ~Open(i)' => Resolving(i) \/ Asked(i, "resolved")]_vars

OnlyOpen(i) == Open(i) /\ \A j \in Ids : Open(j) => j = i

\* A recovery that is recorded while one incident is open resolves it, also
\* when the next outage has begun before it gets there, unless somebody else
\* resolves or deletes it first, another one becomes active, by an operator
\* or for that next outage, or the process stops.
RecoveryIsApplied ==
  \A i \in Ids :
    OnlyOpen(i) /\ (\E o \in Observers : job[o].phase = "looking") /\ restarts = 0
    ~> ~OnlyOpen(i) \/ restarts > 0

\* An incident that visitors can see is announced to the subscribers, unless
\* it is deleted first or the process stops before.
PublicIsAnnounced ==
  \A i \in Ids :
    incidents[i].stored /\ ~incidents[i].draft /\ restarts = 0
    ~> announced[i] # {} \/ ~incidents[i].stored \/ restarts > 0
=============================================================================
