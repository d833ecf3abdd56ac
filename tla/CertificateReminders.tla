------------------------- MODULE CertificateReminders -------------------------
(***************************************************************************)
(* Warnings of TLS certificates that expire (workers/certificate.ts): the  *)
(* certificate of a monitor's endpoint is read after a check, over the     *)
(* network and at most every few hours, and what was read is compared with *)
(* the row as it was when the check began, while the administrator may     *)
(* have changed the endpoint or the warning in between.                    *)
(*                                                                         *)
(* One monitor, which is checked by one check at a time (CheckScheduler).  *)
(* Time is counted in days; that the interval between two reads is over is *)
(* a step of its own.  A certificate is the day it expires on.             *)
(***************************************************************************)
EXTENDS Integers

CONSTANTS
  Urls,       \* endpoints of the monitor
  Expiries,   \* days on which certificates expire
  Leads,      \* lead times that may be configured; 0: warnings are off
  Reminders,  \* CERT_REMINDER_DAYS
  LastDay,    \* bound: days that pass
  MaxEdits    \* bound: edits of the monitor

None == 0

ASSUME CertificateAssumption ==
  /\ Expiries \subseteq Nat \ {None}
  /\ Leads \subseteq Nat
  /\ Reminders \subseteq Nat \ {None}
  /\ {LastDay, MaxEdits} \subseteq Nat

VARIABLES
  today,      \* the day
  serves,     \* per endpoint: the certificate it presents
  row,        \* the monitor's row
  check,      \* the check that reads the certificate
  told,       \* history: warnings per certificate and milestone since the endpoint was chosen
  allClears,  \* history: notices of a renewal
  mixed,      \* history: a read was overtaken by a change of the endpoint
  edits       \* edits so far

world == <<today, serves>>
history == <<told, allClears, mixed>>
vars == <<world, row, check, history, edits>>

Milestones == Reminders \cup (Leads \ {0})

Rows ==
  [url : Urls, verified : BOOLEAN, lead : Leads,
   fresh : BOOLEAN,                      \* certCheckedAt forbids another read
   expiresAt : Expiries \cup {None},     \* certExpiresAt
   warnedDays : Milestones \cup {None}]  \* certWarnedDays

Idle == [at |-> "idle"]

TypeOK ==
  /\ today \in 0 .. LastDay
  /\ serves \in [Urls -> Expiries]
  /\ row \in Rows
  /\ check \in {Idle} \cup [at : {"reading"}, monitor : Rows, now : 0 .. LastDay, overtaken : BOOLEAN]
  /\ told \in [Urls \X Expiries \X Milestones -> Nat]
  /\ allClears \in Nat
  /\ mixed \in BOOLEAN
  /\ edits \in 0 .. MaxEdits

ToldNothing == [step \in Urls \X Expiries \X Milestones |-> 0]

Init ==
  /\ today = 0
  /\ serves \in [Urls -> Expiries]
  /\ row \in [url : Urls, verified : {TRUE}, lead : Leads, fresh : {FALSE}, expiresAt : {None}, warnedDays : {None}]
  /\ check = Idle
  /\ told = ToldNothing
  /\ allClears = 0
  /\ mixed = FALSE
  /\ edits = 0

-----------------------------------------------------------------------------
(* What is decided about a certificate that was read.                      *)

\* The smallest milestone reached: the lead time or a reminder below it.
CertMilestone(daysLeft, lead) ==
  LET reached == {days \in {lead} \cup {r \in Reminders : r < lead} : daysLeft <= days}
      smallest == {days \in reached : \A other \in reached : days <= other}
  IN IF smallest = {} THEN None ELSE CHOOSE days \in smallest : TRUE

\* A later expiry means a new certificate: its milestones start over.
Renewed(monitor, expiresAt) == monitor.expiresAt # None /\ expiresAt > monitor.expiresAt

PreviouslyWarned(monitor, expiresAt) ==
  IF Renewed(monitor, expiresAt) THEN None ELSE monitor.warnedDays

Milestone(monitor, expiresAt, now) ==
  IF monitor.lead = 0 \/ expiresAt <= now THEN None ELSE CertMilestone(expiresAt - now, monitor.lead)

Warns(monitor, expiresAt, now) ==
  LET milestone == Milestone(monitor, expiresAt, now)
      previous == PreviouslyWarned(monitor, expiresAt)
  IN milestone # None /\ (previous = None \/ milestone < previous)

\* Planted bug: a read without a warning forgets the warnings before it.
WarnedOnlyNow(monitor, expiresAt, now) ==
  IF Warns(monitor, expiresAt, now) THEN Milestone(monitor, expiresAt, now) ELSE None

\* certWarnedDays after the read.
WarnedAfter(monitor, expiresAt, now) ==
  IF Warns(monitor, expiresAt, now) THEN Milestone(monitor, expiresAt, now)
  ELSE PreviouslyWarned(monitor, expiresAt)

\* Only a certificate someone was warned about owes an all-clear.
GivesAllClear(monitor, expiresAt) ==
  monitor.lead # 0 /\ Renewed(monitor, expiresAt) /\ monitor.warnedDays # None

-----------------------------------------------------------------------------
(* checkCertificateExpiry, at the end of a check.                          *)

\* The row is the one the check began with.
BeginRead ==
  /\ check = Idle
  /\ row.verified /\ ~row.fresh
  /\ check' = [at |-> "reading", monitor |-> row, now |-> today, overtaken |-> FALSE]
  /\ UNCHANGED <<world, row, history, edits>>

\* No handshake: the last known expiry stays, the read is repeated soon.
ReadFails ==
  /\ check # Idle
  /\ row' = [row EXCEPT !.fresh = TRUE]
  /\ check' = Idle
  /\ UNCHANGED <<world, history, edits>>

\* The row is written by its id, whatever became of it meanwhile.
ReadSucceeds ==
  LET monitor == check.monitor
      cert == serves[monitor.url]
      step == <<monitor.url, cert, Milestone(monitor, cert, check.now)>> IN
  /\ check # Idle
  /\ row' = [row EXCEPT !.fresh = TRUE, !.expiresAt = cert,
                        !.warnedDays = WarnedAfter(monitor, cert, check.now)]
  /\ told' = IF Warns(monitor, cert, check.now) THEN [told EXCEPT ![step] = @ + 1] ELSE told
  /\ allClears' = IF GivesAllClear(monitor, cert) THEN allClears + 1 ELSE allClears
  /\ mixed' = (mixed \/ check.overtaken)
  /\ check' = Idle
  /\ UNCHANGED <<world, edits>>

-----------------------------------------------------------------------------
(* The administrator, the endpoints and the clock.                         *)

\* Planted bug: a change of the endpoint only asks for another read.
ResetsOnlyFresh(url, verified, entry) == [entry EXCEPT !.fresh = FALSE]

\* certResetsFor: another endpoint forgets what was known about the old one.
CertResetsFor(url, verified, entry) ==
  IF url = row.url /\ verified = row.verified
  THEN [entry EXCEPT !.fresh = FALSE]
  ELSE [entry EXCEPT !.fresh = FALSE, !.expiresAt = None, !.warnedDays = None]

\* PATCH of the monitor's configuration.
PatchConfig(url, verified, lead) ==
  /\ edits < MaxEdits
  /\ edits' = edits + 1
  /\ row' = CertResetsFor(url, verified, [row EXCEPT !.url = url, !.verified = verified, !.lead = lead])
  /\ IF url = row.url /\ verified = row.verified
     THEN UNCHANGED <<told, mixed, check>>
     ELSE /\ told' = ToldNothing
          /\ mixed' = FALSE
          /\ check' = IF check = Idle THEN Idle ELSE [check EXCEPT !.overtaken = TRUE]
  /\ UNCHANGED <<world, allClears>>

\* Six hours after a read, a quarter of an hour after one that failed.
IntervalElapses ==
  /\ row.fresh
  /\ row' = [row EXCEPT !.fresh = FALSE]
  /\ UNCHANGED <<world, check, history, edits>>

DayPasses ==
  /\ today < LastDay
  /\ today' = today + 1
  /\ UNCHANGED <<serves, row, check, history, edits>>

\* An endpoint presents a certificate that expires later.
Renew(url, expiresAt) ==
  /\ expiresAt > serves[url]
  /\ serves' = [serves EXCEPT ![url] = expiresAt]
  /\ UNCHANGED <<today, row, check, history, edits>>

Next ==
  \/ BeginRead \/ ReadFails \/ ReadSucceeds
  \/ \E url \in Urls, verified \in BOOLEAN, lead \in Leads : PatchConfig(url, verified, lead)
  \/ IntervalElapses
  \/ DayPasses
  \/ \E url \in Urls, expiresAt \in Expiries : Renew(url, expiresAt)

Spec == Init /\ [][Next]_vars

-----------------------------------------------------------------------------
(* Properties.                                                             *)

\* Each step of a certificate is told once, whatever reads, failures, changed
\* lead times and warnings that were switched off come between
\* (checkCertificateExpiry; docs/monitors.md "Each step is sent once").
StepToldOnce ==
  \A url \in Urls, cert \in Expiries, days \in Milestones : told[<<url, cert, days>>] <= 1

WarnedOf(url, cert) == \E days \in Milestones : told[<<url, cert, days>>] > 0

\* A read that no change of the endpoint overtakes leaves nobody uninformed: a
\* certificate inside the window has been warned of at its nearest step or a
\* later one, and one that replaces a certificate that was warned of, and only
\* such a one, is announced (checkCertificateExpiry and certResetsFor together).
ReadInforms ==
  [][ReadSucceeds /\ ~mixed' =>
       LET monitor == check.monitor
           cert == serves[monitor.url]
           nearest == Milestone(monitor, cert, check.now) IN
       /\ nearest # None => \E days \in Milestones : days <= nearest /\ told'[<<monitor.url, cert, days>>] > 0
       /\ monitor.lead # 0 =>
            (allClears' > allClears <=>
               monitor.expiresAt # None /\ cert > monitor.expiresAt /\ WarnedOf(monitor.url, monitor.expiresAt))]_vars
===============================================================================
