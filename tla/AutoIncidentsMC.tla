-------------------------- MODULE AutoIncidentsMC --------------------------
(* What is observed and what the operators send in the run of AutoIncidents,  *)
(* and where it starts.  A second incident of the monitor takes five          *)
(* observations and its recovery a sixth.  From Init that is too long for TLC *)
(* with two operators, so the run starts after the third observation, from    *)
(* two states that Spec reaches: one leaves all edits to the first outage,    *)
(* the other one leads through a second outage.                               *)
EXTENDS AutoIncidents

Patch(status, publish) == [kind |-> "patch", status |-> status, publish |-> publish]
Update(status) == [kind |-> "update", status |-> status, publish |-> FALSE]

\* Edit the title and publish what is a draft, resolve, make active again, post
\* an update.
EveryBody ==
  {Patch(Unset, TRUE), Patch("resolved", FALSE),
   Patch("investigating", FALSE), Update("resolved")}

UpAndDown == {"up", "down"}

\* A new monitor was observed three times in a maintenance window.
FirstOutageAhead ==
  /\ alert = Settled("pending")
  /\ incidents = [i \in Ids |-> NoRow]
  /\ job = [a \in Actors |-> Idle]
  /\ announced = [i \in Ids |-> {}]
  /\ edits = 0

\* Two observations found it down and the second one opened an incident, which
\* an operator edited without a change to its status; the third one has just
\* recorded the recovery.
SecondOutageAhead ==
  /\ alert = Settled("up")
  /\ \E draft \in BOOLEAN :
       /\ incidents = [i \in Ids |->
            IF i = 1 THEN [stored |-> TRUE, startedAt |-> 1, status |-> "investigating",
                           resolvedAt |-> FALSE, draft |-> draft]
            ELSE NoRow]
       /\ announced = [i \in Ids |-> IF i = 1 /\ ~draft THEN {"created"} ELSE {}]
  /\ job = [a \in Actors |->
       IF a = CHOOSE o \in Observers : TRUE THEN [phase |-> "looking"] ELSE Idle]
  /\ edits = 1

Starts ==
  /\ exists = TRUE
  /\ failingSince = 0
  /\ clock = 3
  /\ restarts = 0
  /\ resolutions = [i \in Ids |-> 0]
  /\ reopenings = [i \in Ids |-> 0]
  /\ FirstOutageAhead \/ SecondOutageAhead

LaterSpec == Starts /\ [][Next]_vars /\ Fairness
=============================================================================
