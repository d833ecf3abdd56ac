--------------------------- MODULE ActionRunsProofs ---------------------------
(***************************************************************************)
(* Theorems about ActionRuns, for any runs, actions and overlapping        *)
(* attempts, any number of attempts per run, retries, crashes and edits.   *)
(***************************************************************************)
EXTENDS ActionRuns, FiniteSetTheorems, TLAPS

Used(r) == Status(r) # "none"

\* What became of the notices, without which actions the channel hears of.
said == <<owed, told, unsaid>>

\* A row is an unused one or has all its fields.
LEMMA RowFields ==
  ASSUME TypeOK, NEW r \in Runs
  PROVE  /\ Used(r) => row[r] \in Rows
         /\ ~Used(r) => row[r] = NoRow
         /\ Status(r) \in {"none"} \cup Waiting \cup Finished
BY DEF TypeOK, Used, Status, NoRow, Rows, Waiting, Finished

LEMMA EndedType ==
  ASSUME NEW entry \in Rows, NEW status \in Finished
  PROVE  /\ Ended(entry, status) \in Rows
         /\ Ended(entry, status).status = status
         /\ Ended(entry, status).link = entry.link
         /\ Ended(entry, status).attempts = entry.attempts
BY DEF Ended, Rows, Finished, Waiting

\* Cancelling touches only runs that wait, and only ends them.
LEMMA CancelRows ==
  ASSUME TypeOK, NEW S
  PROVE  /\ Cancel(S) \in [Runs -> {NoRow} \cup Rows]
         /\ \A r \in Runs :
              \/ Cancel(S)[r] = row[r] /\ (r \notin S \/ Status(r) \notin Waiting)
              \/ /\ r \in S /\ Status(r) \in Waiting
                 /\ Cancel(S)[r].status = "cancelled"
                 /\ Cancel(S)[r].link = row[r].link
<1>1. ASSUME NEW r \in Runs, Status(r) \in Waiting
      PROVE  /\ Ended(row[r], "cancelled") \in Rows
             /\ Ended(row[r], "cancelled").status = "cancelled"
             /\ Ended(row[r], "cancelled").link = row[r].link
  <2>1. row[r] \in Rows
    BY <1>1, RowFields DEF Used, Waiting
  <2> QED
    BY <2>1, EndedType DEF Finished
<1>2. row \in [Runs -> {NoRow} \cup Rows]
  BY DEF TypeOK
<1> QED
  BY <1>1, <1>2 DEF Cancel

\* Attempts are registered in activeRuns, one per run, and only for real rows.
Registered ==
  \A c \in Attempts : attempt[c].at # "idle" => attempt[c].run \in activeRuns /\ Used(attempt[c].run)

\* Unused rows have no history.
Unwritten ==
  \A r \in Runs : ~Used(r) => sent[r] = 0 /\ retries[r] = 0

\* Approval precedes everything an attempt can see.
ApprovedBeforeAttempt ==
  /\ \A r \in Runs :
       Status(r) \in {"pending", "succeeded", "failed"} /\ ActionOf(r) \in ApprovalActions => r \in approved
  /\ \A c \in Attempts :
       attempt[c].at # "idle" /\ ActionOf(attempt[c].run) \in ApprovalActions => attempt[c].run \in approved

IInv ==
  /\ TypeOK
  /\ Registered
  /\ OneAttemptPerRun
  /\ Unwritten
  /\ NoticesTruthful
  /\ WaitingFitsStatus
  /\ ApprovedBeforeAttempt
  /\ NothingSentUnapproved

LEMMA InitInvariant == Init => IInv
<1> SUFFICES ASSUME Init
             PROVE  IInv
  OBVIOUS
<1>1. \A r \in Runs : Status(r) = "none"
  BY DEF Init, Status, NoRow
<1>2. \A c \in Attempts : attempt[c].at = "idle"
  BY DEF Init, NoAttempt
<1>3. TypeOK
  <2>1. row \in [Runs -> {NoRow} \cup Rows] /\ attempt \in [Attempts -> AttemptStates]
    BY DEF Init, AttemptStates
  <2>2. sent \in [Runs -> Nat] /\ lost \in [Runs -> Nat]
    BY DEF Init
  <2>3. {owed, told, unsaid} \subseteq [Runs -> Tallies]
    BY DEF Init, Tallies, NoNotices
  <2>4. retries \in [Runs -> 0 .. MaxRetries] /\ crashes \in 0 .. MaxCrashes /\ edits \in 0 .. MaxEdits
    BY ActionRunsAssumption DEF Init
  <2>5. /\ activeRuns \subseteq Runs /\ confirmed \in Statuses /\ window \in BOOLEAN
        /\ monitor \in {"there", "deleted", "abandoned", "runs_cancelled", "gone"}
        /\ action \in [Actions -> {"enabled", "disabled", "deleted"}]
        /\ deleting \in [Actions -> {"no", "runs_cancelled", "unlinked"}]
        /\ links \subseteq Links /\ editor \in EditorStates
        /\ approving \subseteq Runs /\ approved \subseteq Runs /\ ticked \subseteq Actions
    BY DEF Init, Statuses, EditorStates
  <2> QED
    BY <2>1, <2>2, <2>3, <2>4, <2>5 DEF TypeOK
<1>4. Registered /\ OneAttemptPerRun
  BY <1>2 DEF Registered, OneAttemptPerRun
<1>5. Unwritten
  BY DEF Init, Unwritten
<1>6. NoticesTruthful
  <2>1. \A r \in Runs, kind \in Kinds : told[r][kind] = 0 /\ owed[r][kind] = 0 /\ unsaid[r][kind] = 0
    BY DEF Init, NoNotices
  <2>2. \A r \in Runs, kind \in Kinds : OnRecord(r)[kind] = 0
    BY <1>1 DEF Init, OnRecord, Kinds
  <2> QED
    BY <2>1, <2>2 DEF NoticesTruthful
<1>7. WaitingFitsStatus
  BY <1>1 DEF WaitingFitsStatus, WaitingRuns, Waiting
<1>8. ApprovedBeforeAttempt /\ NothingSentUnapproved
  BY <1>1, <1>2 DEF ApprovedBeforeAttempt, NothingSentUnapproved
<1> QED
  BY <1>3, <1>4, <1>5, <1>6, <1>7, <1>8 DEF IInv

-----------------------------------------------------------------------------
(* Type correctness.                                                       *)

\* The ways in which a step changes a row that waits.
LEMMA WaitingRowUpdates ==
  ASSUME NEW entry \in Rows, entry.status \in Waiting, NEW next \in {"later", "due"}
  PROVE  /\ [entry EXCEPT !.next = next] \in Rows
         /\ [entry EXCEPT !.status = "pending", !.next = next] \in Rows
         /\ Postponed(entry) \in Rows
         /\ \A status \in Finished : Concluded(entry, status) \in Rows
<1>1. [entry EXCEPT !.next = next] \in Rows
  BY DEF Rows, Waiting, Finished
<1>2. [entry EXCEPT !.status = "pending", !.next = next] \in Rows
  BY DEF Rows, Waiting, Finished
<1>3. Postponed(entry) \in Rows
  <2>1. [entry EXCEPT !.next = "later"] \in Rows /\ entry.attempts + 1 \in Nat
    BY DEF Rows, Waiting, Finished
  <2>2. [[entry EXCEPT !.next = "later"] EXCEPT !.attempts = entry.attempts + 1] \in Rows
    BY <2>1 DEF Rows
  <2>3. Postponed(entry) = [[entry EXCEPT !.next = "later"] EXCEPT !.attempts = entry.attempts + 1]
    BY DEF Rows, Postponed
  <2> QED
    BY <2>2, <2>3
<1>4. ASSUME NEW status \in Finished
      PROVE  Concluded(entry, status) \in Rows
  <2>1. Ended(entry, status) \in Rows
    BY EndedType
  <2> QED
    BY <2>1 DEF Concluded, Rows
<1> QED
  BY <1>1, <1>2, <1>3, <1>4

LEMMA OtherRowUpdates ==
  ASSUME NEW entry \in Rows
  PROVE  /\ [entry EXCEPT !.cooling = FALSE] \in Rows
         /\ MaxDeliveryAttempts \in Nat =>
              [entry EXCEPT !.status = "pending", !.next = "due",
                            !.maxAttempts = entry.attempts + MaxDeliveryAttempts] \in Rows
<1>1. [entry EXCEPT !.cooling = FALSE] \in Rows
  BY DEF Rows
<1>2. ASSUME MaxDeliveryAttempts \in Nat
      PROVE  [entry EXCEPT !.status = "pending", !.next = "due",
                           !.maxAttempts = entry.attempts + MaxDeliveryAttempts] \in Rows
  <2>1. entry.attempts + MaxDeliveryAttempts \in Nat
    BY <1>2 DEF Rows
  <2> QED
    BY <2>1 DEF Rows, Waiting, Finished
<1> QED
  BY <1>1, <1>2

LEMMA NewRowType ==
  ASSUME NEW a \in Actions, NEW status \in Triggers, NEW delayed
  PROVE  /\ NewRow(a, status, delayed) \in Rows
         /\ NewRow(a, status, delayed).link = <<a, status>>
         /\ NewRow(a, status, delayed).status =
              IF a \in ApprovalActions THEN "awaiting_approval" ELSE "pending"
BY ActionRunsAssumption DEF NewRow, Rows, Links, Waiting

\* An attempt under way has a run.
LEMMA AttemptFields ==
  ASSUME TypeOK, NEW c \in Attempts, attempt[c].at # "idle"
  PROVE  attempt[c].run \in Runs /\ attempt[c].at \in Guards \cup {"sending"}
BY DEF TypeOK, AttemptStates, NoAttempt

\* Steps that leave alone everything but what an administrator sets.
LEMMA TypeOfSettings ==
  ASSUME TypeOK,
         \/ \E new \in SUBSET Links : BeginPutLinks(new)
         \/ PutLinks \/ SelectUnlinked
         \/ \E a \in Actions : EnableOrDisable(a) \/ DeleteLinksOfAction(a) \/ DeleteActionRow(a)
         \/ DeleteMonitorRow \/ DeleteLinksOfMonitor \/ WindowOpensOrCloses
  PROVE  TypeOK' /\ UNCHANGED <<row, attempt, activeRuns, confirmed, history, said>>
<1>1. ASSUME NEW new \in SUBSET Links, BeginPutLinks(new)
      PROVE  TypeOK' /\ UNCHANGED <<row, attempt, activeRuns, confirmed, history, said>>
  BY <1>1, ActionRunsAssumption DEF TypeOK, BeginPutLinks, Edit, history, notices, said, EditorStates
<1>9. CASE PutLinks
  <2>1. editor' \in EditorStates /\ links' \subseteq Links
    BY <1>9 DEF TypeOK, PutLinks, EditorStates, NoEdit
  <2> QED
    BY <1>9, <2>1 DEF TypeOK, PutLinks, history, notices, said
<1>2. CASE SelectUnlinked
  BY <1>2 DEF TypeOK, SelectUnlinked, history, notices, said, EditorStates, WaitingRuns
<1>3. ASSUME NEW a \in Actions, EnableOrDisable(a)
      PROVE  TypeOK' /\ UNCHANGED <<row, attempt, activeRuns, confirmed, history, said>>
  BY <1>3, ActionRunsAssumption DEF TypeOK, EnableOrDisable, Edit, history, notices, said
<1>4. ASSUME NEW a \in Actions, DeleteLinksOfAction(a)
      PROVE  TypeOK' /\ UNCHANGED <<row, attempt, activeRuns, confirmed, history, said>>
  BY <1>4 DEF TypeOK, DeleteLinksOfAction, history, notices, said
<1>5. ASSUME NEW a \in Actions, DeleteActionRow(a)
      PROVE  TypeOK' /\ UNCHANGED <<row, attempt, activeRuns, confirmed, history, said>>
  BY <1>5 DEF TypeOK, DeleteActionRow, history, notices, said
<1>6. CASE DeleteMonitorRow
  BY <1>6, ActionRunsAssumption DEF TypeOK, DeleteMonitorRow, Edit, history, notices, said
<1>7. CASE DeleteLinksOfMonitor
  BY <1>7 DEF TypeOK, DeleteLinksOfMonitor, history, notices, said
<1>8. CASE WindowOpensOrCloses
  BY <1>8, ActionRunsAssumption DEF TypeOK, WindowOpensOrCloses, Edit, history, notices, said
<1> QED
  BY <1>1, <1>2, <1>3, <1>4, <1>5, <1>6, <1>7, <1>8, <1>9

\* Steps that cancel runs that wait.
LEMMA TypeOfCancelling ==
  ASSUME TypeOK,
         \/ CancelUnlinked \/ CancelRunsOfMonitor \/ ExpireApprovals
         \/ \E a \in Actions : DeleteAction(a)
         \/ \E r \in Runs : Reject(r)
  PROVE  /\ TypeOK'
         /\ \E S : row' = Cancel(S)
         /\ UNCHANGED <<attempt, activeRuns, confirmed, history, said>>
<1>1. \A S : Cancel(S) \in [Runs -> {NoRow} \cup Rows]
  BY CancelRows
<1>2. CASE CancelUnlinked
  <2>1. row' \in [Runs -> {NoRow} \cup Rows] /\ \E S : row' = Cancel(S)
    BY <1>1, <1>2 DEF CancelUnlinked
  <2>2. editor' \in EditorStates
    BY <1>2 DEF CancelUnlinked, EditorStates
  <2>3. UNCHANGED <<attempt, activeRuns, confirmed, monitor, window, action, deleting, links,
                    approving, history, notices, crashes, edits>>
    BY <1>2 DEF CancelUnlinked
  <2>4. TypeOK'
    BY <2>1, <2>2, <2>3 DEF TypeOK, history, notices, said
  <2> QED
    BY <2>1, <2>3, <2>4 DEF history, notices, said
<1>3. CASE CancelRunsOfMonitor
  BY <1>1, <1>3 DEF TypeOK, CancelRunsOfMonitor, history, notices, said
<1>4. CASE ExpireApprovals
  BY <1>1, <1>4 DEF TypeOK, ExpireApprovals, settings, history, notices, said
<1>5. ASSUME NEW a \in Actions, DeleteAction(a)
      PROVE  /\ TypeOK'
             /\ \E S : row' = Cancel(S)
             /\ UNCHANGED <<attempt, activeRuns, confirmed, history, said>>
  <2>1. row' \in [Runs -> {NoRow} \cup Rows] /\ \E S : row' = Cancel(S)
    BY <1>1, <1>5 DEF DeleteAction
  <2>2. deleting' \in [Actions -> {"no", "runs_cancelled", "unlinked"}] /\ edits' \in 0 .. MaxEdits
    BY <1>5, ActionRunsAssumption DEF DeleteAction, Edit, TypeOK
  <2>3. UNCHANGED <<attempt, activeRuns, confirmed, monitor, window, action, links, editor,
                    approving, history, notices, crashes>>
    BY <1>5 DEF DeleteAction
  <2>4. TypeOK'
    BY <2>1, <2>2, <2>3 DEF TypeOK, history, notices, said
  <2> QED
    BY <2>1, <2>3, <2>4 DEF history, notices, said
<1>6. ASSUME NEW r \in Runs, Reject(r)
      PROVE  /\ TypeOK'
             /\ \E S : row' = Cancel(S)
             /\ UNCHANGED <<attempt, activeRuns, confirmed, history, said>>
  BY <1>1, <1>6 DEF TypeOK, Reject, settings, history, notices, said
<1> QED
  BY <1>2, <1>3, <1>4, <1>5, <1>6

\* The clock.
LEMMA TypeOfTime ==
  ASSUME TypeOK, NEW r \in Runs, ComesDue(r) \/ CooldownEnds(r)
  PROVE  /\ TypeOK'
         /\ \A s \in Runs : row'[s].status = row[s].status
         /\ \A s \in Runs : Used(s) => row'[s].link = row[s].link
         /\ UNCHANGED <<attempt, activeRuns, confirmed, history, said>>
<1> DEFINE entry == IF ComesDue(r) THEN [row[r] EXCEPT !.next = "due"] ELSE [row[r] EXCEPT !.cooling = FALSE]
<1>1. row[r] \in Rows
  BY RowFields DEF ComesDue, CooldownEnds, Used, Waiting
<1>2. entry \in Rows /\ entry.status = row[r].status /\ entry.link = row[r].link
  BY <1>1, WaitingRowUpdates, OtherRowUpdates DEF ComesDue, Status, Rows
<1>3. row' = [row EXCEPT ![r] = entry] /\ UNCHANGED <<attempt, activeRuns, confirmed, settings, approving, history, notices, crashes, edits>>
  BY DEF ComesDue, CooldownEnds
<1>4. row' \in [Runs -> {NoRow} \cup Rows]
  BY <1>2, <1>3 DEF TypeOK
<1>5. TypeOK'
  BY <1>3, <1>4 DEF TypeOK, settings, history, notices
<1>6. row \in [Runs -> {NoRow} \cup Rows]
  BY DEF TypeOK
<1> QED
  BY <1>2, <1>3, <1>5, <1>6 DEF notices, said

\* An administrator approves a run or asks for it again.
LEMMA TypeOfDecisions ==
  ASSUME TypeOK, NEW r \in Runs, BeginApprove(r) \/ ApproveStep(r) \/ Retry(r)
  PROVE  TypeOK'
<1>1. CASE BeginApprove(r)
  BY <1>1 DEF TypeOK, BeginApprove, settings, history, notices, said
<1>2. ASSUME NEW next \in {"later", "due"}, FinishApprove(r, next)
      PROVE  TypeOK'
  <2>1. CASE StillAwaits(r)
    <3>1. row[r] \in Rows /\ row[r].status \in Waiting
      BY <2>1, RowFields DEF StillAwaits, Status, Used, Waiting
    <3>2. [row[r] EXCEPT !.status = "pending", !.next = next] \in Rows
      BY <3>1, WaitingRowUpdates
    <3>3. row' = [row EXCEPT ![r] = [row[r] EXCEPT !.status = "pending", !.next = next]]
      BY <1>2, <2>1 DEF FinishApprove, TypeOK
    <3>4. row' \in [Runs -> {NoRow} \cup Rows]
      BY <3>2, <3>3 DEF TypeOK
    <3> QED
      BY <1>2, <2>1, <3>4 DEF TypeOK, FinishApprove, settings, notices, said
  <2>2. CASE ~StillAwaits(r)
    BY <1>2, <2>2 DEF TypeOK, FinishApprove, settings, notices, said
  <2> QED
    BY <2>1, <2>2
<1>3. CASE Retry(r)
  <2>1. row[r] \in Rows
    BY <1>3, RowFields DEF Retry, Used
  <2> DEFINE again == [row[r] EXCEPT !.status = "pending", !.next = "due",
                                     !.maxAttempts = row[r].attempts + MaxDeliveryAttempts]
  <2>2. again \in Rows
    BY <2>1, OtherRowUpdates, ActionRunsAssumption
  <2>3. row' = [row EXCEPT ![r] = again]
    BY <1>3 DEF Retry, TypeOK
  <2>4. row' \in [Runs -> {NoRow} \cup Rows]
    BY <2>2, <2>3 DEF TypeOK
  <2>5. retries' \in [Runs -> 0 .. MaxRetries]
    BY <1>3, ActionRunsAssumption DEF TypeOK, Retry
  <2> QED
    BY <1>3, <2>4, <2>5 DEF TypeOK, Retry, settings, notices, said
<1> QED
  BY <1>1, <1>2, <1>3 DEF ApproveStep

\* Attempts.
LEMMA AnnounceType ==
  ASSUME TypeOK, NEW r \in Runs, NEW kind \in Kinds, Announce(r, kind)
  PROVE  owed' \in [Runs -> Tallies]
<1>1. [owed[r] EXCEPT ![kind] = @ + 1] \in Tallies
  BY DEF TypeOK, Tallies
<1> QED
  BY <1>1 DEF TypeOK, Announce

\* A notice is given to the channel.
LEMMA TypeOfTelling ==
  ASSUME TypeOK, NEW r \in Runs, NEW kind \in Kinds, Tell(r, kind)
  PROVE  TypeOK'
<1>1. /\ owed[r][kind] \in Nat /\ told[r][kind] \in Nat /\ unsaid[r][kind] \in Nat
      /\ owed[r][kind] > 0
  BY DEF Tell, TypeOK, Tallies
<1>2. owed' \in [Runs -> Tallies]
  BY <1>1 DEF Tell, TypeOK, Tallies
<1>3. told' \in [Runs -> Tallies] /\ unsaid' \in [Runs -> Tallies]
  <2>1. told \in [Runs -> Tallies] /\ unsaid \in [Runs -> Tallies]
    BY DEF TypeOK
  <2>2. /\ [told EXCEPT ![r][kind] = @ + 1] \in [Runs -> Tallies]
        /\ [unsaid EXCEPT ![r][kind] = @ + 1] \in [Runs -> Tallies]
    BY <1>1, <2>1 DEF Tallies
  <2> QED
    BY <2>1, <2>2 DEF Tell
<1> QED
  BY <1>2, <1>3 DEF Tell, TypeOK, settings, history

LEMMA TypeOfAttempts ==
  ASSUME TypeOK, NEW c \in Attempts,
         (\E r \in Runs : StartAttempt(c, r)) \/ AttemptStep(c)
  PROVE  TypeOK'
<1>1. ASSUME NEW r \in Runs, StartAttempt(c, r)
      PROVE  TypeOK'
  <2>1. row[r] \in Rows /\ row[r].status \in Waiting
    BY <1>1, RowFields DEF StartAttempt, Claimable, Status, Used, Waiting
  <2>2. Claimed(row[r]) \in Rows
    BY <2>1, WaitingRowUpdates DEF Claimed
  <2>3. row' \in [Runs -> {NoRow} \cup Rows]
    BY <1>1, <2>2 DEF StartAttempt, TypeOK
  <2>4. attempt' \in [Attempts -> AttemptStates]
    BY <1>1 DEF StartAttempt, TypeOK, AttemptStates, Guards
  <2> QED
    BY <1>1, <2>3, <2>4 DEF StartAttempt, TypeOK, settings, history, notices, said
<1>2. CASE PassGuard(c)
  <2> DEFINE r == attempt[c].run
  <2>1. r \in Runs /\ attempt[c] \in [at : Guards \cup {"sending"}, run : Runs]
    BY <1>2 DEF PassGuard, TypeOK, AttemptStates, NoAttempt, Guards
  <2>2. [attempt[c] EXCEPT !.at = After(@)] \in [at : Guards \cup {"sending"}, run : Runs]
    BY <1>2, <2>1 DEF PassGuard, After, Guards
  <2>3. attempt' \in [Attempts -> AttemptStates]
    BY <1>2, <2>2 DEF PassGuard, TypeOK, AttemptStates
  <2>4. sent' \in [Runs -> Nat]
    BY <1>2, <2>1 DEF PassGuard, TypeOK
  <2> QED
    BY <1>2, <2>3, <2>4 DEF PassGuard, TypeOK, settings, notices, said
<1>3. ASSUME attempt[c].at # "idle", EndAttempt(c)
      PROVE  attempt' \in [Attempts -> AttemptStates] /\ activeRuns' \subseteq Runs
  BY <1>3 DEF EndAttempt, TypeOK, AttemptStates
<1>4. CASE FailGuard(c)
  <2>1. attempt[c].at # "idle"
    BY <1>4 DEF FailGuard, Guards
  <2>2. row' \in [Runs -> {NoRow} \cup Rows]
    BY <1>4, CancelRows DEF FailGuard, TypeOK
  <2> QED
    BY <1>3, <1>4, <2>1, <2>2 DEF FailGuard, TypeOK, settings, history, notices, said
<1>5. CASE Succeed(c)
  <2> DEFINE r == attempt[c].run
  <2>1. r \in Runs
    BY <1>5, AttemptFields DEF Succeed
  <2>2. CASE RecordsOutcome(r)
    <3>1. row[r] \in Rows /\ row[r].status \in Waiting
      BY <2>1, <2>2, RowFields DEF RecordsOutcome, Status, Used, Waiting
    <3>2. Concluded(row[r], "succeeded") \in Rows
      BY <3>1, WaitingRowUpdates DEF Finished
    <3>3. row' = [row EXCEPT ![r] = Concluded(row[r], "succeeded")]
      BY <1>5, <2>2 DEF Succeed
    <3>4. row' \in [Runs -> {NoRow} \cup Rows]
      BY <3>2, <3>3 DEF TypeOK
    <3>5. owed' \in [Runs -> Tallies]
      BY <1>5, <2>1, <2>2, AnnounceType DEF Succeed, Kinds
    <3> QED
      BY <1>3, <1>5, <3>4, <3>5 DEF Succeed, TypeOK, settings, history
  <2>3. CASE ~RecordsOutcome(r)
    BY <1>3, <1>5, <2>3 DEF Succeed, TypeOK, settings, history
  <2> QED
    BY <2>2, <2>3
<1>6. CASE Fail(c)
  <2> DEFINE r == attempt[c].run
             entry == IF Exhausted(r) THEN Concluded(row[r], "failed") ELSE Postponed(row[r])
  <2>1. r \in Runs
    BY <1>6, AttemptFields DEF Fail
  <2>2. row' \in [Runs -> {NoRow} \cup Rows]
    <3>1. CASE RecordsOutcome(r)
      <4>1. row[r] \in Rows /\ row[r].status \in Waiting
        BY <2>1, <3>1, RowFields DEF RecordsOutcome, Status, Used, Waiting
      <4>2. entry \in Rows
        BY <4>1, WaitingRowUpdates DEF Finished
      <4>3. row' = [row EXCEPT ![r] = entry]
        BY <1>6, <3>1 DEF Fail
      <4> QED
        BY <4>2, <4>3 DEF TypeOK
    <3>2. CASE ~RecordsOutcome(r)
      BY <1>6, <3>2 DEF Fail, TypeOK
    <3> QED
      BY <3>1, <3>2
  <2>3. owed' \in [Runs -> Tallies]
    BY <1>6, <2>1, AnnounceType DEF Fail, TypeOK, Kinds
  <2> QED
    BY <1>3, <1>6, <2>2, <2>3 DEF Fail, TypeOK, settings, history
<1> QED
  BY <1>1, <1>2, <1>4, <1>5, <1>6 DEF AttemptStep

LEMMA TypeOfCrash ==
  ASSUME TypeOK, Crash
  PROVE  TypeOK'
<1>1. \A r \in Runs : Cardinality({c \in Attempts : attempt[c].at = "sending" /\ attempt[c].run = r}) \in Nat
  BY ActionRunsAssumption, FS_Subset, FS_CardinalityType
<1>2. lost' \in [Runs -> Nat]
  <2>1. lost \in [Runs -> Nat]
    BY DEF TypeOK
  <2> QED
    BY <1>1, <2>1 DEF Crash
<1>3. attempt' \in [Attempts -> AttemptStates] /\ crashes' \in 0 .. MaxCrashes
  BY ActionRunsAssumption DEF Crash, TypeOK, AttemptStates
<1>4. /\ monitor' \in {"there", "deleted", "abandoned", "runs_cancelled", "gone"}
      /\ deleting' \in [Actions -> {"no", "runs_cancelled", "unlinked"}]
      /\ editor' \in EditorStates
  BY DEF Crash, TypeOK, EditorStates
<1>5. owed' \in [Runs -> Tallies] /\ unsaid' \in [Runs -> Tallies]
  BY DEF Crash, TypeOK, Tallies, NoNotices
<1> QED
  BY <1>2, <1>3, <1>4, <1>5 DEF Crash, TypeOK

\* The rows after a status was confirmed: new ones where there were none,
\* cancelled ones that wait for another status, and the others.
LEMMA ConfirmedRows ==
  ASSUME TypeOK, NEW status \in Statuses \ {"pending"}, ConfirmStatus(status)
  PROVE  /\ row' \in [Runs -> {NoRow} \cup Rows]
         /\ \A r \in Runs :
              \/ /\ ~Used(r)
                 /\ \E a \in Actions :
                      /\ row'[r].link = <<a, status>>
                      /\ row'[r].status = IF a \in ApprovalActions THEN "awaiting_approval" ELSE "pending"
              \/ row'[r] = Cancel(Mismatched(status))[r]
<1>1. PICK new \in [Planned(status, confirmed) -> Unused], delayed \in SUBSET Actions :
        row' = [r \in Runs |->
                  IF \E a \in Planned(status, confirmed) : new[a] = r
                  THEN NewRow(CHOOSE a \in Planned(status, confirmed) : new[a] = r, status, delayed)
                  ELSE Cancel(Mismatched(status))[r]]
  BY DEF ConfirmStatus
<1>2. ASSUME NEW r \in Runs, \E a \in Planned(status, confirmed) : new[a] = r
      PROVE  /\ ~Used(r)
             /\ row'[r] \in Rows
             /\ \E a \in Actions :
                  /\ row'[r].link = <<a, status>>
                  /\ row'[r].status = IF a \in ApprovalActions THEN "awaiting_approval" ELSE "pending"
  <2> DEFINE a == CHOOSE a \in Planned(status, confirmed) : new[a] = r
  <2>1. a \in Planned(status, confirmed) /\ new[a] = r
    BY <1>2
  <2>2. a \in Actions /\ status \in Triggers
    BY <2>1 DEF Planned, Triggers
  <2>3. ~Used(r)
    BY <2>1 DEF Unused, Used
  <2>4. row'[r] = NewRow(a, status, delayed)
    BY <1>1, <1>2
  <2> HIDE DEF a
  <2> QED
    BY <2>2, <2>3, <2>4, NewRowType
<1>3. ASSUME NEW r \in Runs, ~\E a \in Planned(status, confirmed) : new[a] = r
      PROVE  row'[r] = Cancel(Mismatched(status))[r] /\ row'[r] \in {NoRow} \cup Rows
  BY <1>1, <1>3, CancelRows
<1>4. row' \in [Runs -> {NoRow} \cup Rows]
  <2>1. \A r \in Runs : row'[r] \in {NoRow} \cup Rows
    BY <1>2, <1>3
  <2> QED
    BY <1>1, <2>1
<1> QED
  BY <1>2, <1>3, <1>4

LEMMA TypeNext == TypeOK /\ [Next]_vars => TypeOK'
<1> SUFFICES ASSUME TypeOK, [Next]_vars
             PROVE  TypeOK'
  OBVIOUS
<1>1. ASSUME NEW status \in Statuses \ {"pending"}, ConfirmStatus(status)
      PROVE  TypeOK'
  BY <1>1, ConfirmedRows DEF ConfirmStatus, TypeOK, settings, history, notices, said
<1>2. CASE UNCHANGED vars
  BY <1>2 DEF TypeOK, vars, settings, history, notices, said
<1> QED
  BY <1>1, <1>2, TypeOfSettings, TypeOfCancelling, TypeOfTime, TypeOfDecisions, TypeOfAttempts, TypeOfTelling,
     TypeOfCrash
  DEF Next, EditorStep, DeletionStep

-----------------------------------------------------------------------------
(* The invariant.                                                          *)

\* The notices of a run that were begun, whatever became of them.
Begun(r, kind) == told[r][kind] + owed[r][kind] + unsaid[r][kind]

LEMMA SameNotices ==
  ASSUME NoticesTruthful, UNCHANGED <<owed, told, unsaid, retries>>,
         \A r \in Runs : /\ Status(r)' = "succeeded" <=> Status(r) = "succeeded"
                         /\ Status(r)' = "failed" <=> Status(r) = "failed"
  PROVE  NoticesTruthful'
BY DEF NoticesTruthful, OnRecord

LEMMA OneNoticeBegun ==
  ASSUME TypeOK, NEW r \in Runs, NEW kind \in Kinds, Announce(r, kind), UNCHANGED <<told, unsaid>>
  PROVE  /\ Begun(r, kind)' = Begun(r, kind) + 1
         /\ \A s \in Runs, k \in Kinds : s # r \/ k # kind => Begun(s, k)' = Begun(s, k)
<1>1. /\ owed'[r][kind] = owed[r][kind] + 1
      /\ \A s \in Runs, k \in Kinds : s # r \/ k # kind => owed'[s][k] = owed[s][k]
  BY DEF Announce, TypeOK, Tallies
<1>2. told[r][kind] \in Nat /\ owed[r][kind] \in Nat /\ unsaid[r][kind] \in Nat
  BY DEF TypeOK, Tallies
<1> QED
  BY <1>1, <1>2 DEF Begun

LEMMA Truth ==
  /\ NoticesTruthful <=>
       \A r \in Runs :
         /\ Begun(r, "success") = IF Status(r) = "succeeded" THEN 1 ELSE 0
         /\ Begun(r, "failure") = retries[r] + (IF Status(r) = "failed" THEN 1 ELSE 0)
  /\ NoticesTruthful' <=>
       \A r \in Runs :
         /\ Begun(r, "success")' = IF Status(r)' = "succeeded" THEN 1 ELSE 0
         /\ Begun(r, "failure")' = retries'[r] + (IF Status(r)' = "failed" THEN 1 ELSE 0)
BY DEF NoticesTruthful, OnRecord, Begun, Kinds

\* A pending run ends and its notice is begun.
LEMMA NoticeOfOutcome ==
  ASSUME TypeOK, NoticesTruthful, NEW r \in Runs, Status(r) = "pending",
         NEW kind \in Kinds, Announce(r, kind), UNCHANGED <<told, unsaid, retries>>,
         row'[r].status = IF kind = "success" THEN "succeeded" ELSE "failed",
         \A s \in Runs : s # r => row'[s] = row[s]
  PROVE  NoticesTruthful'
<1>1. /\ Begun(r, kind)' = Begun(r, kind) + 1
      /\ \A s \in Runs, k \in Kinds : s # r \/ k # kind => Begun(s, k)' = Begun(s, k)
  BY OneNoticeBegun
<1>2. /\ Status(r)' = IF kind = "success" THEN "succeeded" ELSE "failed"
      /\ \A s \in Runs : s # r => Status(s)' = Status(s)
  BY DEF Status
<1>3. /\ Begun(r, "success") = 0 /\ Begun(r, "failure") = retries[r]
      /\ \A s \in Runs : retries[s] \in Int
  BY Truth DEF TypeOK
<1>4. ASSUME NEW s \in Runs
      PROVE  /\ Begun(s, "success")' = IF Status(s)' = "succeeded" THEN 1 ELSE 0
             /\ Begun(s, "failure")' = retries'[s] + (IF Status(s)' = "failed" THEN 1 ELSE 0)
  <2>1. CASE s # r
    BY <1>1, <1>2, <2>1, Truth DEF Kinds
  <2>2. CASE s = r /\ kind = "success"
    BY <1>1, <1>2, <1>3, <2>2 DEF Kinds
  <2>3. CASE s = r /\ kind = "failure"
    BY <1>1, <1>2, <1>3, <2>3 DEF Kinds
  <2> QED
    BY <2>1, <2>2, <2>3 DEF Kinds
<1> QED
  BY <1>4, Truth

\* A step that at most cancels runs that wait, whoever takes it.
LEMMA RowsOnlyCancelled ==
  ASSUME IInv, TypeOK',
         UNCHANGED <<attempt, activeRuns, confirmed, history, said>>,
         \A r \in Runs : \/ row'[r].status = row[r].status
                         \/ Status(r) \in Waiting /\ row'[r].status = "cancelled",
         \A r \in Runs : Used(r) => row'[r].link = row[r].link
  PROVE  IInv'
<1>1. UNCHANGED <<attempt, activeRuns, confirmed, sent, owed, told, unsaid, approved, retries>>
  BY DEF history, notices, said
<1>2. \A r \in Runs : Used(r)' <=> Used(r)
  BY DEF Used, Status, Waiting
<1>3. \A c \in Attempts : attempt[c].at # "idle" => attempt[c].run \in Runs /\ Used(attempt[c].run)
  BY AttemptFields DEF IInv, Registered
<1>4. Registered' /\ OneAttemptPerRun'
  BY <1>1, <1>2, <1>3 DEF IInv, Registered, OneAttemptPerRun
<1>5. Unwritten'
  BY <1>1, <1>2 DEF IInv, Unwritten
<1>6. NoticesTruthful'
  <2>1. ASSUME NEW r \in Runs
        PROVE  /\ Status(r)' = "succeeded" <=> Status(r) = "succeeded"
               /\ Status(r)' = "failed" <=> Status(r) = "failed"
    BY DEF Status, Waiting
  <2> QED
    BY <1>1, <2>1, SameNotices DEF IInv
<1>7. WaitingFitsStatus'
  BY <1>1 DEF IInv, WaitingFitsStatus, WaitingRuns, Waiting, Trigger, Status, Used
<1>8. ApprovedBeforeAttempt'
  <2>1. \A r \in Runs : Used(r) => ActionOf(r)' = ActionOf(r)
    BY DEF ActionOf
  <2>2. \A r \in Runs :
          Status(r)' \in {"pending", "succeeded", "failed"} => Used(r) /\ Status(r)' = Status(r)
    BY DEF Status, Used, Waiting
  <2> QED
    BY <1>1, <1>3, <2>1, <2>2 DEF IInv, ApprovedBeforeAttempt
<1>9. NothingSentUnapproved'
  <2>1. \A r \in Runs : Used(r) => ActionOf(r)' = ActionOf(r)
    BY DEF ActionOf
  <2> QED
    BY <1>1, <1>2, <2>1 DEF IInv, NothingSentUnapproved, Used
<1> QED
  BY <1>4, <1>5, <1>6, <1>7, <1>8, <1>9 DEF IInv

\* Administrators, deletions, maintenance windows and the clock.
LEMMA SettingsKeepInvariant ==
  ASSUME IInv, TypeOK',
         \/ \E new \in SUBSET Links : BeginPutLinks(new)
         \/ EditorStep \/ DeletionStep
         \/ \E a \in Actions : EnableOrDisable(a) \/ DeleteAction(a)
         \/ DeleteMonitorRow \/ WindowOpensOrCloses \/ ExpireApprovals
         \/ \E r \in Runs : ComesDue(r) \/ CooldownEnds(r) \/ Reject(r)
  PROVE  IInv'
<1>1. \/ UNCHANGED <<row, attempt, activeRuns, confirmed, history, said>>
      \/ (\E S : row' = Cancel(S)) /\ UNCHANGED <<attempt, activeRuns, confirmed, history, said>>
      \/ /\ \A s \in Runs : row'[s].status = row[s].status
         /\ \A s \in Runs : Used(s) => row'[s].link = row[s].link
         /\ UNCHANGED <<attempt, activeRuns, confirmed, history, said>>
  BY TypeOfSettings, TypeOfCancelling, TypeOfTime DEF IInv, EditorStep, DeletionStep
<1>2. CASE UNCHANGED <<row, attempt, activeRuns, confirmed, history, said>>
  BY <1>2, RowsOnlyCancelled
<1>3. ASSUME NEW S, row' = Cancel(S), UNCHANGED <<attempt, activeRuns, confirmed, history, said>>
      PROVE  IInv'
  <2>1. \A r \in Runs :
          \/ row'[r] = row[r]
          \/ Status(r) \in Waiting /\ row'[r].status = "cancelled" /\ row'[r].link = row[r].link
    BY <1>3, CancelRows DEF IInv
  <2> QED
    BY <1>3, <2>1, RowsOnlyCancelled
<1>4. CASE /\ \A s \in Runs : row'[s].status = row[s].status
           /\ \A s \in Runs : Used(s) => row'[s].link = row[s].link
           /\ UNCHANGED <<attempt, activeRuns, confirmed, history, said>>
  BY <1>4, RowsOnlyCancelled
<1> QED
  BY <1>1, <1>2, <1>3, <1>4

\* An attempt starts: its run was free, so no other attempt works on it.
LEMMA StartKeepsInvariant ==
  ASSUME IInv, TypeOK', NEW c \in Attempts, NEW r \in Runs, StartAttempt(c, r)
  PROVE  IInv'
<1>1. /\ Status(r) = "pending" /\ r \notin activeRuns /\ attempt[c].at = "idle"
      /\ activeRuns' = activeRuns \cup {r}
      /\ row' = [row EXCEPT ![r] = Claimed(@)]
      /\ attempt' = [attempt EXCEPT ![c] = [at |-> "action", run |-> r]]
      /\ UNCHANGED <<confirmed, sent, owed, told, unsaid, approved, retries>>
  BY DEF StartAttempt, FreeForAttempt, Claimable, history, notices, said
<1>2. \A s \in Runs : Status(s)' = Status(s) /\ (Used(s) => row'[s].link = row[s].link) /\ (Used(s)' <=> Used(s))
  <2>1. row[r] \in Rows
    BY <1>1, RowFields DEF IInv, Used
  <2>2. Claimed(row[r]).status = row[r].status /\ Claimed(row[r]).link = row[r].link
    BY <2>1 DEF Claimed, Rows
  <2> QED
    BY <1>1, <2>2 DEF IInv, TypeOK, Status, Used
<1>3. \A d \in Attempts : d # c => attempt'[d] = attempt[d]
  BY <1>1 DEF IInv, TypeOK
<1>4. attempt'[c] = [at |-> "action", run |-> r]
  BY <1>1 DEF IInv, TypeOK
<1>5. \A d \in Attempts : attempt[d].at # "idle" => attempt[d].run \in Runs
  BY AttemptFields DEF IInv
<1>6. Registered'
  BY <1>1, <1>2, <1>3, <1>4, <1>5 DEF IInv, Registered, Used
<1>7. OneAttemptPerRun'
  BY <1>1, <1>3, <1>4 DEF IInv, Registered, OneAttemptPerRun
<1>8. Unwritten' /\ NoticesTruthful'
  BY <1>1, <1>2, SameNotices DEF IInv, Unwritten
<1>9. WaitingFitsStatus'
  BY <1>1, <1>2 DEF IInv, WaitingFitsStatus, WaitingRuns, Waiting, Trigger, Used, Status
<1>10. \A s \in Runs : Used(s) => ActionOf(s)' = ActionOf(s)
  BY <1>2 DEF ActionOf
<1>11. ApprovedBeforeAttempt'
  <2>1. \A s \in Runs :
          Status(s)' \in {"pending", "succeeded", "failed"} /\ ActionOf(s)' \in ApprovalActions => s \in approved'
    BY <1>1, <1>2, <1>10 DEF IInv, ApprovedBeforeAttempt, Used
  <2>2. ASSUME NEW d \in Attempts, attempt'[d].at # "idle",
               row'[attempt'[d].run].link[1] \in ApprovalActions
        PROVE  attempt'[d].run \in approved'
    <3>1. CASE d = c
      <4>1. attempt'[d].run = r /\ Status(r)' = "pending"
        BY <1>1, <1>2, <1>4, <3>1
      <4>2. ActionOf(r)' \in ApprovalActions
        BY <2>2, <4>1 DEF ActionOf
      <4> QED
        BY <2>1, <4>1, <4>2
    <3>2. CASE d # c
      <4>1. attempt[d].run \in Runs /\ Used(attempt[d].run)
        BY <1>3, <1>5, <2>2, <3>2 DEF IInv, Registered
      <4>2. attempt'[d] = attempt[d] /\ ActionOf(attempt[d].run) \in ApprovalActions
        BY <1>2, <1>3, <2>2, <3>2, <4>1 DEF ActionOf
      <4> QED
        BY <1>1, <2>2, <4>2 DEF IInv, ApprovedBeforeAttempt
    <3> QED
      BY <3>1, <3>2
  <2> QED
    BY <2>1, <2>2 DEF ApprovedBeforeAttempt, ActionOf
<1>12. NothingSentUnapproved'
  BY <1>1, <1>2, <1>10 DEF IInv, NothingSentUnapproved, Used
<1> QED
  BY <1>6, <1>7, <1>8, <1>9, <1>11, <1>12 DEF IInv

\* A guard holds.  What goes out after the last one was approved before.
LEMMA PassKeepsInvariant ==
  ASSUME IInv, TypeOK', NEW c \in Attempts, PassGuard(c)
  PROVE  IInv'
<1> DEFINE r == attempt[c].run
<1>1. /\ attempt[c].at \in Guards
      /\ attempt' = [attempt EXCEPT ![c].at = After(@)]
      /\ sent' = IF attempt[c].at = "link" THEN [sent EXCEPT ![r] = @ + 1] ELSE sent
      /\ UNCHANGED <<row, activeRuns, confirmed, owed, told, unsaid, approved, retries>>
  BY DEF PassGuard, notices, said
<1>2. attempt[c].at # "idle"
  BY <1>1 DEF Guards
<1>3. r \in Runs /\ Used(r)
  BY <1>2, AttemptFields DEF IInv, Registered
<1>4. \A d \in Attempts : (attempt'[d].at # "idle" => attempt[d].at # "idle") /\ attempt'[d].run = attempt[d].run
  BY <1>1, <1>2 DEF IInv, TypeOK, AttemptStates, NoAttempt
<1>5. \A s \in Runs : s # r => sent'[s] = sent[s]
  BY <1>1 DEF IInv, TypeOK
<1>6. Registered' /\ OneAttemptPerRun'
  BY <1>1, <1>4 DEF IInv, Registered, OneAttemptPerRun, Used, Status
<1>7. Unwritten'
  BY <1>1, <1>3, <1>5 DEF IInv, Unwritten, Used, Status
<1>8. NoticesTruthful' /\ WaitingFitsStatus'
  BY <1>1, SameNotices DEF IInv, WaitingFitsStatus, WaitingRuns, Trigger, Status
<1>9. ApprovedBeforeAttempt'
  BY <1>1, <1>4 DEF IInv, ApprovedBeforeAttempt, Status, ActionOf
<1>10. NothingSentUnapproved'
  <2>1. ActionOf(r) \in ApprovalActions => r \in approved
    BY <1>2 DEF IInv, ApprovedBeforeAttempt
  <2> QED
    BY <1>1, <1>5, <2>1 DEF IInv, NothingSentUnapproved, Status, ActionOf
<1> QED
  BY <1>6, <1>7, <1>8, <1>9, <1>10 DEF IInv

\* An attempt ends: all of the invariant but what the channels are told.
LEMMA EndOfAttempt ==
  ASSUME IInv, NEW c \in Attempts, attempt[c].at # "idle", EndAttempt(c),
         UNCHANGED <<confirmed, sent, approved, retries>>,
         \A s \in Runs : s # attempt[c].run => row'[s] = row[s],
         row'[attempt[c].run].link = row[attempt[c].run].link,
         \/ row'[attempt[c].run].status = row[attempt[c].run].status
         \/ Status(attempt[c].run) = "pending" /\ row'[attempt[c].run].status \in Finished
  PROVE  /\ Registered' /\ OneAttemptPerRun' /\ Unwritten'
         /\ WaitingFitsStatus' /\ ApprovedBeforeAttempt' /\ NothingSentUnapproved'
<1> DEFINE r == attempt[c].run
<1>1. r \in Runs /\ Used(r)
  BY AttemptFields DEF IInv, Registered
<1>2. attempt'[c].at = "idle" /\ \A d \in Attempts : d # c => attempt'[d] = attempt[d]
  BY DEF EndAttempt, NoAttempt, IInv, TypeOK
<1>3. activeRuns' = activeRuns \ {r}
  BY DEF EndAttempt
<1>4. \A s \in Runs : row'[s].link = row[s].link /\ (Used(s)' <=> Used(s))
  BY DEF Used, Status, Finished
<1>5. \A d \in Attempts : attempt[d].at # "idle" => attempt[d].run \in Runs /\ Used(attempt[d].run)
  BY AttemptFields DEF IInv, Registered
<1>6. Registered' /\ OneAttemptPerRun'
  BY <1>2, <1>3, <1>4, <1>5 DEF IInv, Registered, OneAttemptPerRun
<1>7. Unwritten'
  BY <1>4 DEF IInv, Unwritten
<1>8. WaitingFitsStatus'
  BY <1>4 DEF IInv, WaitingFitsStatus, WaitingRuns, Waiting, Finished, Trigger, Status
<1>9. ApprovedBeforeAttempt'
  <2>1. \A s \in Runs :
          Status(s)' \in {"pending", "succeeded", "failed"} /\ ActionOf(s)' \in ApprovalActions => s \in approved'
    BY <1>1, <1>4 DEF IInv, ApprovedBeforeAttempt, Status, ActionOf
  <2>2. ASSUME NEW d \in Attempts, attempt'[d].at # "idle",
               row'[attempt'[d].run].link[1] \in ApprovalActions
        PROVE  attempt'[d].run \in approved'
    <3>1. d # c /\ attempt'[d] = attempt[d]
      BY <1>2, <2>2
    <3>2. ActionOf(attempt[d].run) \in ApprovalActions
      BY <1>4, <1>5, <2>2, <3>1 DEF ActionOf
    <3> QED
      BY <2>2, <3>1, <3>2 DEF IInv, ApprovedBeforeAttempt
  <2> QED
    BY <2>1, <2>2 DEF ApprovedBeforeAttempt, ActionOf
<1>10. NothingSentUnapproved'
  BY <1>4 DEF IInv, NothingSentUnapproved, Used, ActionOf
<1> QED
  BY <1>6, <1>7, <1>8, <1>9, <1>10

\* An attempt ends at a guard: the run is cancelled, if it still waits.
LEMMA FailGuardKeepsInvariant ==
  ASSUME IInv, TypeOK', NEW c \in Attempts, FailGuard(c)
  PROVE  IInv'
<1> DEFINE r == attempt[c].run
<1>1. attempt[c].at # "idle" /\ EndAttempt(c) /\ UNCHANGED <<confirmed, sent, owed, told, unsaid, approved, retries>>
  BY DEF FailGuard, Guards, history, notices, said
<1>2. r \in Runs
  BY <1>1, AttemptFields DEF IInv
<1>3. \A s \in Runs :
        \/ row'[s] = row[s]
        \/ s = r /\ Status(s) = "pending" /\ row'[s].status = "cancelled" /\ row'[s].link = row[s].link
  BY CancelRows DEF FailGuard, IInv
<1>4. NoticesTruthful'
  BY <1>1, <1>3, SameNotices DEF IInv, Status
<1> QED
  BY <1>1, <1>2, <1>3, <1>4, EndOfAttempt DEF IInv, Finished

LEMMA AfterAttempt ==
  ASSUME NEW entry \in Rows
  PROVE  /\ \A status \in Finished :
              Concluded(entry, status).status = status /\ Concluded(entry, status).link = entry.link
         /\ Postponed(entry).status = entry.status /\ Postponed(entry).link = entry.link
<1>1. ASSUME NEW status \in Finished
      PROVE  Concluded(entry, status).status = status /\ Concluded(entry, status).link = entry.link
  BY EndedType DEF Concluded, Rows
<1>2. Postponed(entry).status = entry.status /\ Postponed(entry).link = entry.link
  BY DEF Postponed, Rows
<1> QED
  BY <1>1, <1>2

\* A success is announced when it is recorded, and only then.
LEMMA SucceedKeepsInvariant ==
  ASSUME IInv, TypeOK', NEW c \in Attempts, Succeed(c)
  PROVE  IInv'
<1> DEFINE r == attempt[c].run
<1>1. attempt[c].at # "idle" /\ EndAttempt(c) /\ UNCHANGED <<confirmed, sent, told, unsaid, approved, retries>>
  BY DEF Succeed, history
<1>2. r \in Runs
  BY <1>1, AttemptFields DEF IInv
<1>3. CASE RecordsOutcome(r)
  <2>1. row' = [row EXCEPT ![r] = Concluded(row[r], "succeeded")] /\ Announce(r, "success")
    BY <1>3 DEF Succeed
  <2>2. row[r] \in Rows /\ Status(r) = "pending"
    BY <1>2, <1>3, RowFields DEF RecordsOutcome, Used, IInv
  <2>3. /\ row'[r].status = "succeeded" /\ row'[r].link = row[r].link
        /\ \A s \in Runs : s # r => row'[s] = row[s]
    BY <1>2, <2>1, <2>2, AfterAttempt DEF IInv, TypeOK, Finished
  <2>4. NoticesTruthful'
    BY <1>1, <1>2, <2>1, <2>2, <2>3, NoticeOfOutcome DEF IInv, Kinds
  <2> QED
    BY <1>1, <1>2, <2>2, <2>3, <2>4, EndOfAttempt DEF IInv, Finished
<1>4. CASE ~RecordsOutcome(r)
  <2>1. UNCHANGED <<row, owed>>
    BY <1>4 DEF Succeed
  <2>2. NoticesTruthful'
    BY <1>1, <2>1, SameNotices DEF IInv, Status
  <2> QED
    BY <1>1, <2>1, <2>2, EndOfAttempt DEF IInv
<1> QED
  BY <1>3, <1>4

\* ... and of a failure once no attempt is left.
LEMMA FailKeepsInvariant ==
  ASSUME IInv, TypeOK', NEW c \in Attempts, Fail(c)
  PROVE  IInv'
<1> DEFINE r == attempt[c].run
<1>1. attempt[c].at # "idle" /\ EndAttempt(c) /\ UNCHANGED <<confirmed, sent, told, unsaid, approved, retries>>
  BY DEF Fail, history
<1>2. r \in Runs
  BY <1>1, AttemptFields DEF IInv
<1>3. CASE RecordsOutcome(r) /\ Exhausted(r)
  <2>1. row' = [row EXCEPT ![r] = Concluded(row[r], "failed")] /\ Announce(r, "failure")
    BY <1>3 DEF Fail, TellsFailure
  <2>2. row[r] \in Rows /\ Status(r) = "pending"
    BY <1>2, <1>3, RowFields DEF RecordsOutcome, Used, IInv
  <2>3. /\ row'[r].status = "failed" /\ row'[r].link = row[r].link
        /\ \A s \in Runs : s # r => row'[s] = row[s]
    BY <1>2, <2>1, <2>2, AfterAttempt DEF IInv, TypeOK, Finished
  <2>4. NoticesTruthful'
    BY <1>1, <1>2, <2>1, <2>2, <2>3, NoticeOfOutcome DEF IInv, Kinds
  <2> QED
    BY <1>1, <1>2, <2>2, <2>3, <2>4, EndOfAttempt DEF IInv, Finished
<1>4. CASE RecordsOutcome(r) /\ ~Exhausted(r)
  <2>1. row' = [row EXCEPT ![r] = Postponed(row[r])] /\ owed' = owed
    BY <1>4 DEF Fail, TellsFailure
  <2>2. row[r] \in Rows /\ Status(r) = "pending"
    BY <1>2, <1>4, RowFields DEF RecordsOutcome, Used, IInv
  <2>3. /\ row'[r].status = row[r].status /\ row'[r].link = row[r].link
        /\ \A s \in Runs : s # r => row'[s] = row[s]
    BY <1>2, <2>1, <2>2, AfterAttempt DEF IInv, TypeOK
  <2>4. NoticesTruthful'
    BY <1>1, <2>1, <2>3, SameNotices DEF IInv, Status
  <2> QED
    BY <1>1, <1>2, <2>3, <2>4, EndOfAttempt DEF IInv
<1>5. CASE ~RecordsOutcome(r)
  <2>1. UNCHANGED <<row, owed>>
    BY <1>5 DEF Fail, TellsFailure
  <2>2. NoticesTruthful'
    BY <1>1, <2>1, SameNotices DEF IInv, Status
  <2> QED
    BY <1>1, <2>1, <2>2, EndOfAttempt DEF IInv
<1> QED
  BY <1>3, <1>4, <1>5

\* A notice that is given to the channel, or to nobody, was on its way before.
LEMMA TellKeepsInvariant ==
  ASSUME IInv, TypeOK', NEW r \in Runs, NEW kind \in Kinds, Tell(r, kind)
  PROVE  IInv'
<1>1. UNCHANGED <<row, attempt, activeRuns, confirmed, sent, approved, retries>>
  BY DEF Tell, history
<1>2. Registered' /\ OneAttemptPerRun' /\ Unwritten' /\ WaitingFitsStatus' /\ NothingSentUnapproved'
  BY <1>1 DEF IInv, Registered, OneAttemptPerRun, Unwritten, WaitingFitsStatus, NothingSentUnapproved,
              Used, Status, WaitingRuns, Trigger, ActionOf
<1>3. ApprovedBeforeAttempt'
  BY <1>1 DEF IInv, ApprovedBeforeAttempt, Status, ActionOf
<1>4. \A s \in Runs, k \in Kinds : Begun(s, k)' = Begun(s, k)
  <2>1. \A s \in Runs, k \in Kinds : told[s][k] \in Nat /\ owed[s][k] \in Nat /\ unsaid[s][k] \in Nat
    BY DEF IInv, TypeOK, Tallies
  <2>2. /\ \A s \in Runs, k \in Kinds : s # r \/ k # kind => owed'[s][k] = owed[s][k]
        /\ owed'[r][kind] = owed[r][kind] - 1
    BY DEF IInv, TypeOK, Tallies, Tell
  <2>3. CASE ActionOf(r) \in ticked
    <3>1. /\ \A s \in Runs, k \in Kinds : s # r \/ k # kind => told'[s][k] = told[s][k]
          /\ told'[r][kind] = told[r][kind] + 1
          /\ unsaid' = unsaid
      BY <2>3 DEF IInv, TypeOK, Tallies, Tell
    <3> QED
      BY <2>1, <2>2, <3>1 DEF Begun
  <2>4. CASE ActionOf(r) \notin ticked
    <3>1. /\ \A s \in Runs, k \in Kinds : s # r \/ k # kind => unsaid'[s][k] = unsaid[s][k]
          /\ unsaid'[r][kind] = unsaid[r][kind] + 1
          /\ told' = told
      BY <2>4 DEF IInv, TypeOK, Tallies, Tell
    <3> QED
      BY <2>1, <2>2, <3>1 DEF Begun
  <2> QED
    BY <2>3, <2>4
<1>5. \A s \in Runs : OnRecord(s)' = OnRecord(s)
  BY <1>1 DEF OnRecord, Status
<1>6. NoticesTruthful'
  BY <1>4, <1>5 DEF IInv, NoticesTruthful, Begun
<1> QED
  BY <1>2, <1>3, <1>6 DEF IInv

\* A crash ends all attempts and notices and touches no row.
LEMMA CrashKeepsInvariant ==
  ASSUME IInv, TypeOK', Crash
  PROVE  IInv'
<1>1. UNCHANGED <<row, confirmed, sent, told, approved, retries>> /\ \A c \in Attempts : attempt'[c].at = "idle"
  BY DEF Crash, NoAttempt
<1>2. Registered' /\ OneAttemptPerRun'
  BY <1>1 DEF Registered, OneAttemptPerRun
<1>3. Unwritten' /\ WaitingFitsStatus' /\ NothingSentUnapproved'
  BY <1>1 DEF IInv, Unwritten, WaitingFitsStatus, NothingSentUnapproved,
              Used, Status, WaitingRuns, Trigger, ActionOf
<1>4. ApprovedBeforeAttempt'
  BY <1>1 DEF IInv, ApprovedBeforeAttempt, Status, ActionOf
<1>5. \A r \in Runs, kind \in Kinds : Begun(r, kind)' = Begun(r, kind)
  <2>1. \A r \in Runs, kind \in Kinds :
          told[r][kind] \in Nat /\ owed[r][kind] \in Nat /\ unsaid[r][kind] \in Nat
    BY DEF IInv, TypeOK, Tallies
  <2>2. \A r \in Runs, kind \in Kinds :
          owed'[r][kind] = 0 /\ unsaid'[r][kind] = unsaid[r][kind] + owed[r][kind]
    BY DEF Crash, NoNotices
  <2> QED
    BY <1>1, <2>1, <2>2 DEF Begun
<1>6. \A r \in Runs : OnRecord(r)' = OnRecord(r)
  BY <1>1 DEF OnRecord, Status
<1>7. NoticesTruthful'
  BY <1>5, <1>6 DEF IInv, NoticesTruthful, Begun
<1> QED
  BY <1>2, <1>3, <1>4, <1>7 DEF IInv

\* A decision: the run that was approved or retried is pending now.
LEMMA PendingAgain ==
  ASSUME IInv, NEW r \in Runs, Used(r), r \in approved' \/ ActionOf(r) \notin ApprovalActions,
         UNCHANGED <<attempt, activeRuns, confirmed, sent, owed, told, unsaid>>,
         \A s \in Runs : s # r => row'[s] = row[s],
         row'[r].status = "pending", row'[r].link = row[r].link,
         approved \subseteq approved',
         \A s \in Runs : s # r => retries'[s] = retries[s]
  PROVE  /\ Registered' /\ OneAttemptPerRun' /\ Unwritten'
         /\ ApprovedBeforeAttempt' /\ NothingSentUnapproved'
<1>1. \A s \in Runs : row'[s].link = row[s].link /\ (Used(s)' <=> Used(s))
  BY DEF Used, Status
<1>2. \A c \in Attempts : attempt[c].at # "idle" => attempt[c].run \in Runs /\ Used(attempt[c].run)
  BY AttemptFields DEF IInv, Registered
<1>3. Registered' /\ OneAttemptPerRun'
  BY <1>1, <1>2 DEF IInv, Registered, OneAttemptPerRun
<1>4. Unwritten'
  BY <1>1 DEF IInv, Unwritten
<1>5. ApprovedBeforeAttempt'
  <2>1. \A s \in Runs : s # r => (Status(s)' = Status(s) /\ ActionOf(s)' = ActionOf(s))
    BY DEF Status, ActionOf
  <2>2. ActionOf(r)' = ActionOf(r)
    BY DEF ActionOf
  <2>3. \A c \in Attempts : attempt[c].at # "idle" => ActionOf(attempt[c].run)' = ActionOf(attempt[c].run)
    BY <1>1, <1>2 DEF ActionOf
  <2> QED
    BY <2>1, <2>2, <2>3 DEF IInv, ApprovedBeforeAttempt
<1>6. NothingSentUnapproved'
  BY <1>1 DEF IInv, NothingSentUnapproved, Used, ActionOf
<1> QED
  BY <1>3, <1>4, <1>5, <1>6

LEMMA ApproveKeepsInvariant ==
  ASSUME IInv, TypeOK', NEW r \in Runs, BeginApprove(r) \/ ApproveStep(r)
  PROVE  IInv'
<1>1. CASE BeginApprove(r)
  BY <1>1, RowsOnlyCancelled DEF BeginApprove, history, notices, said
<1>2. ASSUME NEW next \in {"later", "due"}, FinishApprove(r, next), StillAwaits(r)
      PROVE  IInv'
  <2>1. /\ row' = [row EXCEPT ![r].status = "pending", ![r].next = next]
        /\ approved' = approved \cup {r}
        /\ UNCHANGED <<attempt, activeRuns, confirmed, sent, owed, told, unsaid, retries>>
    BY <1>2 DEF FinishApprove, notices, said
  <2>2. Status(r) = "awaiting_approval" /\ row[r] \in Rows /\ Used(r)
    BY <1>2, RowFields DEF StillAwaits, Used, IInv
  <2>3. /\ row'[r].status = "pending" /\ row'[r].link = row[r].link
        /\ \A s \in Runs : s # r => row'[s] = row[s]
    BY <2>1, <2>2 DEF IInv, TypeOK, Rows
  <2>4. NoticesTruthful'
    BY <2>1, <2>2, <2>3, SameNotices DEF IInv, Status
  <2>5. WaitingFitsStatus'
    <3>1. ASSUME NEW s \in Runs, Status(s)' \in Waiting
          PROVE  Status(s) \in Waiting /\ Trigger(s)' = Trigger(s)
      BY <2>2, <2>3, <3>1 DEF Status, Trigger, Waiting
    <3> QED
      BY <2>1, <3>1 DEF IInv, WaitingFitsStatus, WaitingRuns
  <2> QED
    BY <2>1, <2>2, <2>3, <2>4, <2>5, PendingAgain DEF IInv
<1>3. ASSUME NEW next \in {"later", "due"}, FinishApprove(r, next), ~StillAwaits(r)
      PROVE  IInv'
  <2>1. UNCHANGED <<row, attempt, activeRuns, confirmed, history, said>>
    BY <1>3 DEF FinishApprove, history, notices, said
  <2> QED
    BY <2>1, RowsOnlyCancelled
<1> QED
  BY <1>1, <1>2, <1>3 DEF ApproveStep

LEMMA RetryKeepsInvariant ==
  ASSUME IInv, TypeOK', NEW r \in Runs, Retry(r)
  PROVE  IInv'
<1>1. /\ row' = [row EXCEPT ![r].status = "pending", ![r].next = "due",
                           ![r].maxAttempts = row[r].attempts + MaxDeliveryAttempts]
      /\ retries' = [retries EXCEPT ![r] = @ + 1]
      /\ UNCHANGED <<attempt, activeRuns, confirmed, sent, owed, told, unsaid, approved>>
  BY DEF Retry, notices, said
<1>2. Status(r) = "failed" /\ row[r] \in Rows /\ Used(r)
  BY RowFields DEF Retry, Used, IInv
<1>3. /\ row'[r].status = "pending" /\ row'[r].link = row[r].link
      /\ \A s \in Runs : s # r => row'[s] = row[s]
  BY <1>1, <1>2 DEF IInv, TypeOK, Rows
<1>4. /\ retries'[r] = retries[r] + 1 /\ retries[r] \in Nat
      /\ \A s \in Runs : s # r => retries'[s] = retries[s]
  BY <1>1, ActionRunsAssumption DEF IInv, TypeOK
<1>5. NoticesTruthful'
  <2>1. Begun(r, "failure") = retries[r] + 1 /\ Begun(r, "success") = 0
    BY <1>2, Truth DEF IInv
  <2>2. \A s \in Runs, kind \in Kinds : Begun(s, kind)' = Begun(s, kind)
    BY <1>1 DEF Begun
  <2>3. Status(r)' = "pending" /\ \A s \in Runs : s # r => Status(s)' = Status(s)
    BY <1>3 DEF Status
  <2> QED
    BY <1>1, <1>4, <2>1, <2>2, <2>3, Truth DEF IInv, Kinds
<1>6. WaitingFitsStatus'
  <2>1. retries'[r] # 0
    BY <1>4
  <2>2. ASSUME NEW s \in Runs, Status(s)' \in Waiting, s # r
        PROVE  Status(s) \in Waiting /\ Trigger(s)' = Trigger(s)
    BY <1>3, <2>2 DEF Status, Trigger
  <2> QED
    BY <1>1, <1>4, <2>1, <2>2 DEF IInv, WaitingFitsStatus, WaitingRuns
<1>7. r \in approved' \/ ActionOf(r) \notin ApprovalActions
  BY <1>1, <1>2 DEF IInv, ApprovedBeforeAttempt
<1> QED
  BY <1>1, <1>2, <1>3, <1>4, <1>5, <1>6, <1>7, PendingAgain DEF IInv

\* A status is confirmed: new runs wait for it, runs for other statuses do not.
LEMMA ConfirmKeepsInvariant ==
  ASSUME IInv, TypeOK', NEW status \in Statuses \ {"pending"}, ConfirmStatus(status)
  PROVE  IInv'
<1>1. confirmed' = status /\ UNCHANGED <<attempt, activeRuns, sent, owed, told, unsaid, approved, retries>>
  BY DEF ConfirmStatus, history, notices, said
<1>2. \A r \in Runs :
        \/ /\ ~Used(r)
           /\ \E a \in Actions :
                /\ row'[r].link = <<a, status>>
                /\ row'[r].status = IF a \in ApprovalActions THEN "awaiting_approval" ELSE "pending"
        \/ row'[r] = row[r] /\ (Status(r) \in Waiting => Trigger(r) = status)
        \/ Status(r) \in Waiting /\ row'[r].status = "cancelled" /\ row'[r].link = row[r].link
  <2>1. \A r \in Runs :
          \/ Cancel(Mismatched(status))[r] = row[r] /\ (r \notin Mismatched(status) \/ Status(r) \notin Waiting)
          \/ /\ Status(r) \in Waiting
             /\ Cancel(Mismatched(status))[r].status = "cancelled"
             /\ Cancel(Mismatched(status))[r].link = row[r].link
    BY CancelRows DEF IInv
  <2>2. \A r \in Runs : r \notin Mismatched(status) /\ Status(r) \in Waiting => Trigger(r) = status
    BY DEF Mismatched, WaitingRuns
  <2> QED
    BY <2>1, <2>2, ConfirmedRows DEF IInv
<1>3. \A r \in Runs : Used(r) => Used(r)' /\ row'[r].link = row[r].link
  BY <1>2 DEF Used, Status
<1>4. \A c \in Attempts : attempt[c].at # "idle" => attempt[c].run \in Runs /\ Used(attempt[c].run)
  BY AttemptFields DEF IInv, Registered
<1>5. Registered' /\ OneAttemptPerRun'
  BY <1>1, <1>3, <1>4 DEF IInv, Registered, OneAttemptPerRun
<1>6. Unwritten'
  BY <1>1, <1>3 DEF IInv, Unwritten
<1>7. NoticesTruthful'
  <2>1. ASSUME NEW r \in Runs
        PROVE  /\ Status(r)' = "succeeded" <=> Status(r) = "succeeded"
               /\ Status(r)' = "failed" <=> Status(r) = "failed"
    BY <1>2 DEF Status, Used, Waiting
  <2> QED
    BY <1>1, <2>1, SameNotices DEF IInv
<1>8. WaitingFitsStatus'
  <2>1. ASSUME NEW r \in Runs, Status(r)' \in Waiting
        PROVE  Trigger(r)' = status
    BY <1>2, <2>1 DEF Status, Trigger, Used, Waiting
  <2> QED
    BY <1>1, <2>1 DEF WaitingFitsStatus, WaitingRuns
<1>9. \A r \in Runs :
        Status(r)' \in {"pending", "succeeded", "failed"} /\ ActionOf(r)' \in ApprovalActions => r \in approved
  <2>1. ASSUME NEW r \in Runs, ~Used(r), NEW a \in Actions, row'[r].link = <<a, status>>,
               row'[r].status = IF a \in ApprovalActions THEN "awaiting_approval" ELSE "pending"
        PROVE  ~(Status(r)' \in {"pending", "succeeded", "failed"} /\ ActionOf(r)' \in ApprovalActions)
    BY <2>1 DEF Status, ActionOf
  <2>2. ASSUME NEW r \in Runs, row'[r] = row[r],
               Status(r)' \in {"pending", "succeeded", "failed"}, ActionOf(r)' \in ApprovalActions
        PROVE  r \in approved
    BY <2>2 DEF IInv, ApprovedBeforeAttempt, Status, ActionOf
  <2>3. ASSUME NEW r \in Runs, row'[r].status = "cancelled"
        PROVE  Status(r)' \notin {"pending", "succeeded", "failed"}
    BY <2>3 DEF Status
  <2> QED
    BY <1>2, <2>1, <2>2, <2>3
<1>10. ApprovedBeforeAttempt'
  <2>1. \A c \in Attempts : attempt[c].at # "idle" => ActionOf(attempt[c].run)' = ActionOf(attempt[c].run)
    BY <1>1, <1>3, <1>4 DEF ActionOf
  <2> QED
    BY <1>1, <1>9, <2>1 DEF IInv, ApprovedBeforeAttempt
<1>11. NothingSentUnapproved'
  <2>1. \A r \in Runs : Used(r) => ActionOf(r)' = ActionOf(r)
    BY <1>3 DEF ActionOf
  <2>2. \A r \in Runs : sent[r] > 0 => Used(r)
    BY DEF IInv, Unwritten, TypeOK
  <2> QED
    BY <1>1, <2>1, <2>2 DEF IInv, NothingSentUnapproved, Used
<1> QED
  BY <1>5, <1>6, <1>7, <1>8, <1>10, <1>11 DEF IInv

LEMMA NextInvariant == IInv /\ [Next]_vars => IInv'
<1> SUFFICES ASSUME IInv, [Next]_vars
             PROVE  IInv'
  OBVIOUS
<1>1. TypeOK'
  BY TypeNext DEF IInv
<1>2. CASE UNCHANGED vars
  BY <1>1, <1>2, RowsOnlyCancelled DEF vars, notices, said
<1>3. CASE Next
  BY <1>1, <1>3, SettingsKeepInvariant, StartKeepsInvariant, PassKeepsInvariant, FailGuardKeepsInvariant,
     SucceedKeepsInvariant, FailKeepsInvariant, TellKeepsInvariant, CrashKeepsInvariant, ApproveKeepsInvariant,
     RetryKeepsInvariant, ConfirmKeepsInvariant
  DEF Next, AttemptStep
<1> QED
  BY <1>2, <1>3

LEMMA Invariance == Spec => []IInv
BY InitInvariant, NextInvariant, PTL DEF Spec

-----------------------------------------------------------------------------
(* Every request is on record, and one run counts per cooldown.            *)

\* Whether a request of the run is out, as a number.
Out(r) == IF \E c \in Attempts : attempt[c].at = "sending" /\ attempt[c].run = r THEN 1 ELSE 0

Recorded(r) == row[r].attempts + lost[r] + Out(r)

Unspent == \A r \in Runs : ~Used(r) => lost[r] = 0

\* A request may still go out, also for a run that was cancelled in between.
Sendable == Waiting \cup {"cancelled"}

Balanced ==
  \A r \in Runs : Used(r) =>
    /\ sent[r] - Recorded(r) \in 0 .. (IF Status(r) = "cancelled" THEN 1 ELSE 0)
    /\ row[r].attempts <= row[r].maxAttempts
    /\ Status(r) \in Sendable => row[r].attempts < row[r].maxAttempts
    /\ Status(r) = "failed" => row[r].attempts = row[r].maxAttempts

\* While a call works on a run, the run has not ended but by a cancellation,
\* and no request of it is missing from the record yet.
BalancedAtWork ==
  \A c \in Attempts : attempt[c].at # "idle" =>
    /\ Status(attempt[c].run) \in {"pending", "cancelled"}
    /\ sent[attempt[c].run] = Recorded(attempt[c].run)

Accounts == Unspent /\ Balanced /\ BalancedAtWork

\* The run takes up its link's cooldown.
Counts(r) == Status(r) \notin {"none", "cancelled"} /\ row[r].cooling

LEMMA RequestsOut ==
  ASSUME TypeOK, OneAttemptPerRun, NEW r \in Runs
  PROVE  Cardinality(Requests(r)) = Out(r)
<1>1. CASE \E c \in Attempts : attempt[c].at = "sending" /\ attempt[c].run = r
  <2>1. PICK c \in Attempts : attempt[c].at = "sending" /\ attempt[c].run = r
    BY <1>1
  <2>2. Requests(r) = {c}
    BY <2>1 DEF Requests, OneAttemptPerRun
  <2> QED
    BY <1>1, <2>2, FS_Singleton DEF Out
<1>2. CASE ~\E c \in Attempts : attempt[c].at = "sending" /\ attempt[c].run = r
  <2>1. Requests(r) = {}
    BY <1>2 DEF Requests
  <2> QED
    BY <1>2, <2>1, FS_EmptySet DEF Out
<1> QED
  BY <1>1, <1>2

LEMMA Numbers ==
  ASSUME TypeOK, NEW r \in Runs
  PROVE  /\ sent[r] \in Nat /\ lost[r] \in Nat /\ Out(r) \in {0, 1}
         /\ Used(r) => row[r].attempts \in Nat /\ row[r].maxAttempts \in Nat
<1>1. Used(r) => row[r] \in Rows
  BY RowFields
<1> QED
  BY <1>1 DEF TypeOK, Out, Rows

\* What the books and the cooldown read of a row.
SameEntry(entry, before) ==
  /\ entry.link = before.link /\ entry.attempts = before.attempts
  /\ entry.maxAttempts = before.maxAttempts /\ entry.cooling = before.cooling

LEMMA UpdatedFields ==
  ASSUME NEW entry \in Rows
  PROVE  /\ \A status : Ended(entry, status).status = status /\ SameEntry(Ended(entry, status), entry)
         /\ \A next : LET later == [entry EXCEPT !.next = next]
                      IN later.status = entry.status /\ SameEntry(later, entry)
         /\ \A next : LET pending == [entry EXCEPT !.status = "pending", !.next = next]
                      IN pending.status = "pending" /\ SameEntry(pending, entry)
<1>1. ASSUME NEW status
      PROVE  Ended(entry, status).status = status /\ SameEntry(Ended(entry, status), entry)
  BY DEF Ended, SameEntry, Rows
<1>2. ASSUME NEW next
      PROVE  LET later == [entry EXCEPT !.next = next]
             IN later.status = entry.status /\ SameEntry(later, entry)
  BY DEF SameEntry, Rows
<1>3. ASSUME NEW next
      PROVE  LET pending == [entry EXCEPT !.status = "pending", !.next = next]
             IN pending.status = "pending" /\ SameEntry(pending, entry)
  BY DEF SameEntry, Rows
<1> QED
  BY <1>1, <1>2, <1>3

\* What a step that is not an attempt's does to a row, as far as the books go.
RowMoves(r) ==
  \/ /\ Used(r) /\ row'[r].attempts = row[r].attempts
     /\ row'[r].maxAttempts = row[r].maxAttempts
     /\ row'[r].status = row[r].status \/ (Status(r) \in Waiting /\ row'[r].status \in {"pending", "cancelled"})
  \/ ~Used(r) /\ row'[r] = row[r]
  \/ ~Used(r) /\ row'[r].status \in Waiting /\ row'[r].attempts = 0 /\ row'[r].maxAttempts = MaxDeliveryAttempts

\* A failed run is tried again.
Reopens(r) ==
  /\ Status(r) = "failed" /\ row'[r].status = "pending"
  /\ row'[r].attempts = row[r].attempts /\ row'[r].maxAttempts = row[r].attempts + MaxDeliveryAttempts

\* ... and to what counts for its cooldown.
CoolsOff(r) == Counts(r)' => Counts(r) /\ row'[r].link = row[r].link

LEMMA MovesKeepAccounts ==
  ASSUME IInv, TypeOK', Accounts, UNCHANGED <<attempt, sent, lost>>, \A r \in Runs : RowMoves(r) \/ Reopens(r)
  PROVE  Accounts'
<1>1. \A r \in Runs : Out(r)' = Out(r)
  BY DEF Out
<1>2. Unspent'
  <2>1. \A r \in Runs : ~Used(r)' => ~Used(r)
    BY DEF RowMoves, Reopens, Used, Status
  <2> QED
    BY <2>1 DEF Accounts, Unspent
<1>3. \A c \in Attempts : attempt[c].at # "idle" => attempt[c].run \in Runs /\ Used(attempt[c].run)
  BY AttemptFields DEF IInv, Registered
<1>4. Balanced'
  <2> SUFFICES ASSUME NEW r \in Runs, Used(r)'
               PROVE  /\ sent'[r] - Recorded(r)' \in 0 .. (IF Status(r)' = "cancelled" THEN 1 ELSE 0)
                      /\ row'[r].attempts <= row'[r].maxAttempts
                      /\ Status(r)' \in Sendable => row'[r].attempts < row'[r].maxAttempts
                      /\ Status(r)' = "failed" => row'[r].attempts = row'[r].maxAttempts
    BY DEF Balanced
  <2>1. /\ sent[r] \in Nat /\ lost[r] \in Nat /\ Out(r) \in {0, 1}
        /\ row'[r].attempts \in Nat /\ row'[r].maxAttempts \in Nat
        /\ Used(r) => row[r].attempts \in Nat
    <3>1. row'[r] \in Rows
      BY DEF TypeOK, Used, Status, NoRow
    <3> QED
      BY <3>1, Numbers DEF IInv, Rows
  <2>2. Recorded(r)' = row'[r].attempts + lost[r] + Out(r)
    BY <1>1 DEF Recorded
  <2>3. CASE Used(r)
    <3>1. /\ sent[r] - Recorded(r) \in 0 .. (IF Status(r) = "cancelled" THEN 1 ELSE 0)
          /\ row[r].attempts <= row[r].maxAttempts
          /\ Status(r) \in Sendable => row[r].attempts < row[r].maxAttempts
          /\ Status(r) = "failed" => row[r].attempts = row[r].maxAttempts
      BY <2>3 DEF Accounts, Balanced
    <3>2. row'[r].attempts = row[r].attempts /\ Recorded(r)' = Recorded(r)
      BY <2>2, <2>3 DEF RowMoves, Reopens, Recorded
    <3>3. CASE RowMoves(r) /\ row'[r].status = row[r].status
      <4>1. row'[r].maxAttempts = row[r].maxAttempts
        BY <2>3, <3>3 DEF RowMoves
      <4> QED
        BY <3>1, <3>2, <3>3, <4>1 DEF Status
    <3>4. CASE RowMoves(r) /\ row'[r].status # row[r].status
      <4>1. /\ Status(r) \in Waiting /\ row'[r].status \in {"pending", "cancelled"}
            /\ row'[r].maxAttempts = row[r].maxAttempts
        BY <2>3, <3>4 DEF RowMoves
      <4>2. sent[r] - Recorded(r) \in 0 .. 0 /\ row[r].attempts < row[r].maxAttempts
        BY <3>1, <4>1 DEF Waiting, Sendable
      <4> QED
        BY <2>1, <3>2, <4>1, <4>2 DEF Status
    <3>5. CASE Reopens(r)
      <4>1. sent[r] - Recorded(r) \in 0 .. 0 /\ row'[r].attempts < row'[r].maxAttempts
        BY <2>1, <2>3, <3>1, <3>5, ActionRunsAssumption DEF Reopens
      <4> QED
        BY <2>1, <3>2, <3>5, <4>1 DEF Reopens, Status
    <3> QED
      BY <3>3, <3>4, <3>5
  <2>4. CASE ~Used(r)
    <3>1. row'[r].status \in Waiting /\ row'[r].attempts = 0 /\ row'[r].maxAttempts = MaxDeliveryAttempts
      BY <2>4 DEF RowMoves, Reopens, Used, Status
    <3>2. sent[r] = 0 /\ lost[r] = 0 /\ Out(r) = 0
      BY <1>3, <2>4 DEF IInv, Unwritten, Accounts, Unspent, Out
    <3> QED
      BY <2>2, <3>1, <3>2, ActionRunsAssumption DEF Status, Waiting
  <2> QED
    BY <2>3, <2>4
<1>5. BalancedAtWork'
  <2> SUFFICES ASSUME NEW c \in Attempts, attempt[c].at # "idle"
               PROVE  /\ row'[attempt[c].run].status \in {"pending", "cancelled"}
                      /\ sent[attempt[c].run] = row'[attempt[c].run].attempts + lost[attempt[c].run] + Out(attempt[c].run)
    BY <1>1, <1>3 DEF BalancedAtWork, Recorded, Status
  <2> DEFINE r == attempt[c].run
  <2>1. r \in Runs /\ Used(r) /\ Status(r) \in {"pending", "cancelled"} /\ sent[r] = Recorded(r)
    BY <1>3 DEF Accounts, BalancedAtWork
  <2>2. row'[r].attempts = row[r].attempts
    BY <2>1 DEF RowMoves, Reopens
  <2>3. row'[r].status \in {"pending", "cancelled"}
    BY <2>1 DEF RowMoves, Reopens, Status
  <2> QED
    BY <2>1, <2>2, <2>3 DEF Recorded
<1> QED
  BY <1>2, <1>4, <1>5 DEF Accounts

LEMMA CoolingOff ==
  ASSUME OneRunPerCooldown, \A r \in Runs : CoolsOff(r)
  PROVE  OneRunPerCooldown'
BY DEF OneRunPerCooldown, CoolsOff, Counts, Status

LEMMA RowsAlone ==
  ASSUME row' = row
  PROVE  \A r \in Runs : RowMoves(r) /\ CoolsOff(r)
BY DEF RowMoves, CoolsOff, Counts, Used, Status

LEMMA CancelMoves ==
  ASSUME IInv, NEW S, row' = Cancel(S)
  PROVE  \A r \in Runs : RowMoves(r) /\ CoolsOff(r)
<1> SUFFICES ASSUME NEW r \in Runs
             PROVE  RowMoves(r) /\ CoolsOff(r)
  OBVIOUS
<1>1. CASE r \in S /\ Status(r) \in Waiting
  <2>1. Used(r) /\ row[r] \in Rows
    BY <1>1, RowFields DEF IInv, Used, Waiting
  <2>2. row'[r] = Ended(row[r], "cancelled")
    BY <1>1 DEF Cancel
  <2>3. row'[r].status = "cancelled" /\ SameEntry(row'[r], row[r])
    <3>1. LET ended == Ended(row[r], "cancelled")
          IN ended.status = "cancelled" /\ SameEntry(ended, row[r])
      BY <2>1, UpdatedFields
    <3> QED
      BY <2>2, <3>1
  <2> QED
    BY <1>1, <2>1, <2>3 DEF RowMoves, CoolsOff, Counts, SameEntry, Status
<1>2. CASE ~(r \in S /\ Status(r) \in Waiting)
  <2>1. row'[r] = row[r]
    BY <1>2 DEF Cancel
  <2> QED
    BY <2>1 DEF RowMoves, CoolsOff, Counts, Used, Status
<1> QED
  BY <1>1, <1>2

\* One row changes.
LEMMA OneRowMoves ==
  ASSUME NEW r \in Runs, RowMoves(r), CoolsOff(r), \A s \in Runs : s # r => row'[s] = row[s]
  PROVE  \A s \in Runs : RowMoves(s) /\ CoolsOff(s)
<1>1. ASSUME NEW s \in Runs, s # r
      PROVE  RowMoves(s) /\ CoolsOff(s)
  <2>1. row'[s] = row[s]
    BY <1>1
  <2> QED
    BY <2>1 DEF RowMoves, CoolsOff, Counts, Used, Status
<1> QED
  BY <1>1

LEMMA TimeMoves ==
  ASSUME IInv, NEW r \in Runs, ComesDue(r) \/ CooldownEnds(r)
  PROVE  \A s \in Runs : RowMoves(s) /\ CoolsOff(s)
<1>1. Used(r) /\ row[r] \in Rows
  BY RowFields DEF IInv, ComesDue, CooldownEnds, Used, Waiting
<1>2. CASE ComesDue(r)
  <2>1. row' = [row EXCEPT ![r] = [row[r] EXCEPT !.next = "due"]]
    BY <1>2 DEF ComesDue, IInv, TypeOK
  <2>2. row'[r].status = row[r].status /\ SameEntry(row'[r], row[r]) /\ \A s \in Runs : s # r => row'[s] = row[s]
    BY <1>1, <2>1, UpdatedFields DEF IInv, TypeOK
  <2>3. RowMoves(r) /\ CoolsOff(r)
    BY <1>1, <2>2 DEF RowMoves, CoolsOff, Counts, SameEntry, Status
  <2> QED
    BY <2>2, <2>3, OneRowMoves
<1>3. CASE CooldownEnds(r)
  <2>1. row' = [row EXCEPT ![r] = [row[r] EXCEPT !.cooling = FALSE]]
    BY <1>3 DEF CooldownEnds, IInv, TypeOK
  <2>2. /\ row'[r].status = row[r].status /\ row'[r].attempts = row[r].attempts
        /\ row'[r].maxAttempts = row[r].maxAttempts /\ row'[r].cooling = FALSE
        /\ \A s \in Runs : s # r => row'[s] = row[s]
    BY <1>1, <2>1 DEF IInv, TypeOK, Rows
  <2>3. RowMoves(r) /\ CoolsOff(r)
    BY <1>1, <2>2 DEF RowMoves, CoolsOff, Counts
  <2> QED
    BY <2>2, <2>3, OneRowMoves
<1> QED
  BY <1>2, <1>3

LEMMA ApprovalMoves ==
  ASSUME IInv, NEW r \in Runs, BeginApprove(r) \/ ApproveStep(r)
  PROVE  (\A s \in Runs : RowMoves(s) /\ CoolsOff(s)) /\ UNCHANGED <<attempt, sent, lost>>
<1>1. CASE BeginApprove(r)
  BY <1>1, RowsAlone DEF BeginApprove, history, notices, said
<1>2. ASSUME NEW next \in {"later", "due"}, FinishApprove(r, next), ~StillAwaits(r)
      PROVE  (\A s \in Runs : RowMoves(s) /\ CoolsOff(s)) /\ UNCHANGED <<attempt, sent, lost>>
  BY <1>2, RowsAlone DEF FinishApprove
<1>3. ASSUME NEW next \in {"later", "due"}, FinishApprove(r, next), StillAwaits(r)
      PROVE  (\A s \in Runs : RowMoves(s) /\ CoolsOff(s)) /\ UNCHANGED <<attempt, sent, lost>>
  <2>1. Status(r) = "awaiting_approval" /\ Used(r) /\ row[r] \in Rows
    BY <1>3, RowFields DEF StillAwaits, Used, IInv
  <2>2. row' = [row EXCEPT ![r] = [row[r] EXCEPT !.status = "pending", !.next = next]]
    BY <1>3 DEF FinishApprove, IInv, TypeOK
  <2>3. row'[r].status = "pending" /\ SameEntry(row'[r], row[r]) /\ \A s \in Runs : s # r => row'[s] = row[s]
    <3>1. LET pending == [row[r] EXCEPT !.status = "pending", !.next = next]
          IN pending.status = "pending" /\ SameEntry(pending, row[r])
      BY <2>1, UpdatedFields
    <3> QED
      BY <2>2, <3>1 DEF IInv, TypeOK
  <2>4. RowMoves(r) /\ CoolsOff(r)
    BY <2>1, <2>3 DEF RowMoves, CoolsOff, Counts, SameEntry, Status, Waiting
  <2> QED
    BY <1>3, <2>3, <2>4, OneRowMoves DEF FinishApprove
<1> QED
  BY <1>1, <1>2, <1>3 DEF ApproveStep

LEMMA RetryMoves ==
  ASSUME IInv, NEW r \in Runs, Retry(r)
  PROVE  /\ Reopens(r) /\ \A s \in Runs : s # r => row'[s] = row[s]
         /\ \A s \in Runs : (RowMoves(s) \/ Reopens(s)) /\ CoolsOff(s)
         /\ UNCHANGED <<attempt, sent, lost>>
<1>1. Status(r) = "failed" /\ row[r] \in Rows
  BY RowFields DEF Retry, Used, IInv
<1>2. row' = [row EXCEPT ![r] = [row[r] EXCEPT !.status = "pending", !.next = "due",
                                               !.maxAttempts = row[r].attempts + MaxDeliveryAttempts]]
  BY DEF Retry, IInv, TypeOK
<1>3. /\ row'[r].status = "pending" /\ row'[r].link = row[r].link /\ row'[r].cooling = row[r].cooling
      /\ row'[r].attempts = row[r].attempts
      /\ row'[r].maxAttempts = row[r].attempts + MaxDeliveryAttempts
      /\ \A s \in Runs : s # r => row'[s] = row[s]
  BY <1>1, <1>2 DEF IInv, TypeOK, Rows
<1>4. Reopens(r) /\ CoolsOff(r)
  BY <1>1, <1>3 DEF Reopens, CoolsOff, Counts, Status
<1>5. \A s \in Runs : s # r => RowMoves(s) /\ CoolsOff(s)
  BY <1>3 DEF RowMoves, CoolsOff, Counts, Used, Status
<1> QED
  BY <1>3, <1>4, <1>5 DEF Retry

\* New runs are planned only for links that are not in their cooldown, at most
\* one for a link.
LEMMA ConfirmMoves ==
  ASSUME IInv, OneRunPerCooldown, NEW status \in Statuses \ {"pending"}, ConfirmStatus(status)
  PROVE  (\A r \in Runs : RowMoves(r)) /\ OneRunPerCooldown'
<1>1. PICK new \in [Planned(status, confirmed) -> Unused], delayed \in SUBSET Actions :
        row' = [r \in Runs |->
                  IF \E a \in Planned(status, confirmed) : new[a] = r
                  THEN NewRow(CHOOSE a \in Planned(status, confirmed) : new[a] = r, status, delayed)
                  ELSE Cancel(Mismatched(status))[r]]
  BY DEF ConfirmStatus
<1> DEFINE New(r, a) == a \in Planned(status, confirmed) /\ new[a] = r /\ row'[r] = NewRow(a, status, delayed)
<1>2. \A r \in Runs : (\E a : New(r, a)) \/ (RowMoves(r) /\ CoolsOff(r))
  <2> SUFFICES ASSUME NEW r \in Runs
               PROVE  (\E a : New(r, a)) \/ (RowMoves(r) /\ CoolsOff(r))
    OBVIOUS
  <2>1. CASE \E a \in Planned(status, confirmed) : new[a] = r
    <3> DEFINE a == CHOOSE a \in Planned(status, confirmed) : new[a] = r
    <3>1. a \in Planned(status, confirmed) /\ new[a] = r
      BY <2>1
    <3>2. row'[r] = NewRow(a, status, delayed)
      BY <1>1, <2>1
    <3> HIDE DEF a
    <3> QED
      BY <3>1, <3>2
  <2>2. CASE ~\E a \in Planned(status, confirmed) : new[a] = r
    <3>1. row'[r] = Cancel(Mismatched(status))[r]
      BY <1>1, <2>2
    <3>2. CASE Cancel(Mismatched(status))[r] = row[r]
      BY <3>1, <3>2 DEF RowMoves, CoolsOff, Counts, Used, Status
    <3>3. CASE Cancel(Mismatched(status))[r] # row[r]
      <4>1. Status(r) \in Waiting /\ row'[r] = Ended(row[r], "cancelled")
        BY <3>1, <3>3 DEF Cancel
      <4>2. Used(r) /\ row[r] \in Rows
        BY <4>1, RowFields DEF IInv, Used, Waiting
      <4>3. row'[r].status = "cancelled" /\ SameEntry(row'[r], row[r])
        <5>1. LET ended == Ended(row[r], "cancelled")
              IN ended.status = "cancelled" /\ SameEntry(ended, row[r])
          BY <4>2, UpdatedFields
        <5> QED
          BY <4>1, <5>1
      <4> QED
        BY <4>1, <4>2, <4>3 DEF RowMoves, CoolsOff, Counts, SameEntry, Status
    <3> QED
      BY <3>2, <3>3
  <2> QED
    BY <2>1, <2>2
<1>3. ASSUME NEW r \in Runs, NEW a, New(r, a)
      PROVE  /\ ~Used(r) /\ row'[r].link = <<a, status>> /\ row'[r].cooling = (a \in CooledActions)
             /\ row'[r].status \in Waiting /\ row'[r].attempts = 0 /\ row'[r].maxAttempts = MaxDeliveryAttempts
             /\ a \in CooledActions => ~Cooling(<<a, status>>)
  <2>1. ~Used(r)
    BY <1>3 DEF Unused, Used
  <2>2. a \in CooledActions => ~Cooling(<<a, status>>)
    BY <1>3 DEF Planned
  <2> QED
    BY <1>3, <2>1, <2>2 DEF NewRow, Waiting
<1>4. \A r \in Runs : RowMoves(r)
  BY <1>2, <1>3 DEF RowMoves
<1>5. ASSUME NEW r \in Runs, NEW s \in Runs, r # s, Counts(r)', Counts(s)', row'[r].link = row'[s].link,
             NEW a, New(r, a)
      PROVE  FALSE
  <2>1. a \in CooledActions /\ row'[r].link = <<a, status>> /\ ~Cooling(<<a, status>>)
    BY <1>3, <1>5 DEF Counts
  <2>2. ASSUME NEW b, New(s, b)
        PROVE  FALSE
    <3>1. row'[s].link = <<b, status>>
      BY <1>3, <2>2
    <3>2. a = b
      BY <1>5, <2>1, <3>1
    <3> QED
      BY <1>5, <2>2, <3>2
  <2>3. CASE CoolsOff(s)
    BY <1>5, <2>1, <2>3 DEF CoolsOff, Counts, Cooling
  <2> QED
    BY <1>2, <2>2, <2>3
<1>6. ASSUME NEW r \in Runs, NEW s \in Runs, r # s, Counts(r)', Counts(s)', row'[r].link = row'[s].link,
             CoolsOff(r), CoolsOff(s)
      PROVE  FALSE
  BY <1>6 DEF CoolsOff, Counts, OneRunPerCooldown
<1>7. \A r, s \in Runs : r # s /\ Counts(r)' /\ Counts(s)' => row'[r].link # row'[s].link
  BY <1>2, <1>5, <1>6
<1>8. OneRunPerCooldown'
  BY <1>7 DEF OneRunPerCooldown, Counts, Status
<1> QED
  BY <1>4, <1>8

\* Every step but those of attempts, a retry and the crash.
OtherStep ==
  \/ \E new \in SUBSET Links : BeginPutLinks(new)
  \/ EditorStep \/ DeletionStep
  \/ \E a \in Actions : EnableOrDisable(a) \/ DeleteAction(a)
  \/ DeleteMonitorRow \/ WindowOpensOrCloses \/ ExpireApprovals
  \/ \E r \in Runs : ComesDue(r) \/ CooldownEnds(r) \/ BeginApprove(r) \/ ApproveStep(r) \/ Reject(r)
  \/ \E status \in Statuses \ {"pending"} : ConfirmStatus(status)
  \/ \E r \in Runs, kind \in Kinds : Tell(r, kind)

LEMMA OthersMove ==
  ASSUME IInv, OneRunPerCooldown, OtherStep
  PROVE  (\A r \in Runs : RowMoves(r)) /\ OneRunPerCooldown' /\ UNCHANGED <<attempt, sent, lost>>
<1>1. CASE \/ \E new \in SUBSET Links : BeginPutLinks(new)
           \/ PutLinks \/ SelectUnlinked
           \/ \E a \in Actions : EnableOrDisable(a) \/ DeleteLinksOfAction(a) \/ DeleteActionRow(a)
           \/ DeleteMonitorRow \/ DeleteLinksOfMonitor \/ WindowOpensOrCloses
  <2>1. row' = row /\ UNCHANGED <<attempt, sent, lost>>
    BY <1>1, TypeOfSettings DEF IInv, history, notices, said
  <2> QED
    BY <2>1, RowsAlone, CoolingOff
<1>2. CASE \/ CancelUnlinked \/ CancelRunsOfMonitor \/ ExpireApprovals
           \/ \E a \in Actions : DeleteAction(a)
           \/ \E r \in Runs : Reject(r)
  <2>1. (\E S : row' = Cancel(S)) /\ UNCHANGED <<attempt, sent, lost>>
    BY <1>2, TypeOfCancelling DEF IInv, history, notices, said
  <2> QED
    BY <2>1, CancelMoves, CoolingOff
<1>3. ASSUME NEW r \in Runs, ComesDue(r) \/ CooldownEnds(r)
      PROVE  (\A s \in Runs : RowMoves(s)) /\ OneRunPerCooldown' /\ UNCHANGED <<attempt, sent, lost>>
  <2>1. UNCHANGED <<attempt, sent, lost>>
    BY <1>3 DEF ComesDue, CooldownEnds, history, notices, said
  <2> QED
    BY <1>3, <2>1, TimeMoves, CoolingOff
<1>4. ASSUME NEW r \in Runs, BeginApprove(r) \/ ApproveStep(r)
      PROVE  (\A s \in Runs : RowMoves(s)) /\ OneRunPerCooldown' /\ UNCHANGED <<attempt, sent, lost>>
  BY <1>4, ApprovalMoves, CoolingOff
<1>5. ASSUME NEW status \in Statuses \ {"pending"}, ConfirmStatus(status)
      PROVE  (\A s \in Runs : RowMoves(s)) /\ OneRunPerCooldown' /\ UNCHANGED <<attempt, sent, lost>>
  <2>1. UNCHANGED <<attempt, sent, lost>>
    BY <1>5 DEF ConfirmStatus, history, notices, said
  <2> QED
    BY <1>5, <2>1, ConfirmMoves
<1>6. ASSUME NEW r \in Runs, NEW kind \in Kinds, Tell(r, kind)
      PROVE  (\A s \in Runs : RowMoves(s)) /\ OneRunPerCooldown' /\ UNCHANGED <<attempt, sent, lost>>
  <2>1. row' = row /\ UNCHANGED <<attempt, sent, lost>>
    BY <1>6 DEF Tell, history
  <2> QED
    BY <2>1, RowsAlone, CoolingOff
<1> QED
  BY <1>1, <1>2, <1>3, <1>4, <1>5, <1>6 DEF OtherStep, EditorStep, DeletionStep

LEMMA OthersKeepAccounts ==
  ASSUME IInv, TypeOK', Accounts, OneRunPerCooldown, OtherStep \/ \E r \in Runs : Retry(r)
  PROVE  Accounts' /\ OneRunPerCooldown'
<1>1. CASE OtherStep
  BY <1>1, OthersMove, MovesKeepAccounts
<1>2. CASE \E r \in Runs : Retry(r)
  BY <1>2, RetryMoves, MovesKeepAccounts, CoolingOff
<1> QED
  BY <1>1, <1>2

LEMMA OutOfOthers ==
  ASSUME NEW c \in Attempts, \A d \in Attempts : d # c => attempt'[d] = attempt[d],
         NEW s \in Runs,
         attempt[c].at = "sending" => attempt[c].run # s,
         attempt'[c].at = "sending" => attempt'[c].run # s
  PROVE  Out(s)' = Out(s)
BY DEF Out

\* One run's books change and balance, the others are left alone.
LEMMA OneRunsBooks ==
  ASSUME IInv, Accounts, NEW r \in Runs, Used(r), Used(r)', lost' = lost,
         \A s \in Runs : s # r => row'[s] = row[s] /\ sent'[s] = sent[s] /\ Out(s)' = Out(s),
         sent'[r] - Recorded(r)' \in 0 .. (IF Status(r)' = "cancelled" THEN 1 ELSE 0),
         row'[r].attempts <= row'[r].maxAttempts,
         Status(r)' \in Sendable => row'[r].attempts < row'[r].maxAttempts,
         Status(r)' = "failed" => row'[r].attempts = row'[r].maxAttempts,
         \A d \in Attempts : attempt'[d].at # "idle" =>
           \/ /\ attempt'[d].run = r
              /\ Status(r)' \in {"pending", "cancelled"} /\ sent'[r] = Recorded(r)'
           \/ attempt'[d].run # r /\ attempt'[d] = attempt[d]
  PROVE  Accounts'
<1>1. \A s \in Runs : s # r => Status(s)' = Status(s) /\ Recorded(s)' = Recorded(s) /\ (Used(s)' <=> Used(s))
  BY DEF Status, Recorded, Used
<1>2. Unspent'
  BY <1>1 DEF Accounts, Unspent
<1>3. Balanced'
  BY <1>1 DEF Accounts, Balanced
<1>4. BalancedAtWork'
  <2> SUFFICES ASSUME NEW d \in Attempts, attempt'[d].at # "idle", NEW q, q = attempt'[d].run
               PROVE  row'[q].status \in {"pending", "cancelled"} /\ sent'[q] = Recorded(q)'
    BY DEF BalancedAtWork, Recorded, Out, Status
  <2>1. CASE q = r
    BY <2>1 DEF Status
  <2>2. CASE q # r
    <3>1. attempt'[d] = attempt[d] /\ q \in Runs
      BY <2>2, AttemptFields DEF IInv
    <3>2. row[q].status \in {"pending", "cancelled"} /\ sent[q] = Recorded(q)
      BY <3>1 DEF Accounts, BalancedAtWork, Status, Recorded, Out
    <3> QED
      BY <1>1, <2>2, <3>1, <3>2
  <2> QED
    BY <2>1, <2>2
<1> QED
  BY <1>2, <1>3, <1>4 DEF Accounts

LEMMA StartAccounts ==
  ASSUME IInv, Accounts, NEW c \in Attempts, NEW r \in Runs, StartAttempt(c, r)
  PROVE  Accounts' /\ \A s \in Runs : CoolsOff(s)
<1>1. Status(r) = "pending" /\ Used(r) /\ row[r] \in Rows /\ attempt[c].at = "idle" /\ r \notin activeRuns
  BY RowFields DEF StartAttempt, Claimable, FreeForAttempt, Used, IInv
<1>2. row' = [row EXCEPT ![r] = [row[r] EXCEPT !.next = "later"]] /\ UNCHANGED <<sent, lost>>
  BY DEF StartAttempt, Claimed, history, notices, said
<1>3. row'[r].status = row[r].status /\ SameEntry(row'[r], row[r]) /\ \A s \in Runs : s # r => row'[s] = row[s]
  BY <1>1, <1>2, UpdatedFields DEF IInv, TypeOK
<1>4. attempt'[c] = [at |-> "action", run |-> r] /\ \A d \in Attempts : d # c => attempt'[d] = attempt[d]
  BY DEF StartAttempt, IInv, TypeOK
<1>5. \A s \in Runs : Out(s)' = Out(s)
  BY <1>1, <1>4, OutOfOthers
<1>6. /\ Used(r)' /\ Status(r)' = "pending" /\ Recorded(r)' = Recorded(r)
      /\ sent[r] = Recorded(r) /\ Recorded(r) \in Nat
      /\ row[r].attempts < row[r].maxAttempts /\ row[r].attempts \in Nat /\ row[r].maxAttempts \in Nat
  <2>1. Used(r)' /\ Status(r)' = "pending" /\ Recorded(r)' = Recorded(r)
    BY <1>1, <1>2, <1>3, <1>5 DEF Used, Status, Recorded, SameEntry
  <2>2. sent[r] - Recorded(r) \in 0 .. 0 /\ row[r].attempts < row[r].maxAttempts
    BY <1>1 DEF Accounts, Balanced, Sendable, Waiting
  <2>3. /\ sent[r] \in Nat /\ Recorded(r) \in Nat
        /\ row[r].attempts \in Nat /\ row[r].maxAttempts \in Nat
    BY <1>1, Numbers DEF IInv, Recorded
  <2> QED
    BY <2>1, <2>2, <2>3
<1>7. \A d \in Attempts : d # c /\ attempt[d].at # "idle" => attempt[d].run # r
  BY <1>1 DEF IInv, Registered
<1>8. Accounts'
  BY <1>1, <1>2, <1>3, <1>4, <1>5, <1>6, <1>7, OneRunsBooks DEF SameEntry
<1>9. \A s \in Runs : CoolsOff(s)
  BY <1>3 DEF CoolsOff, Counts, SameEntry, Status
<1> QED
  BY <1>8, <1>9

\* The request that goes out is on record as the one that is out.
LEMMA PassAccounts ==
  ASSUME IInv, Accounts, NEW c \in Attempts, NEW r, r = attempt[c].run, PassGuard(c)
  PROVE  Accounts' /\ \A s \in Runs : CoolsOff(s)
<1>1. attempt[c].at \in Guards /\ attempt[c].at # "idle" /\ attempt[c].at # "sending"
  BY DEF PassGuard, Guards
<1>2. r \in Runs /\ Used(r) /\ Status(r) \in {"pending", "cancelled"} /\ sent[r] = Recorded(r)
  BY <1>1, AttemptFields DEF IInv, Registered, Accounts, BalancedAtWork
<1>3. /\ attempt'[c].at = After(attempt[c].at) /\ attempt'[c].run = r
      /\ \A d \in Attempts : d # c => attempt'[d] = attempt[d]
  BY <1>1, <1>2 DEF PassGuard, IInv, TypeOK, AttemptStates, NoAttempt
<1>4. \A d \in Attempts : d # c /\ attempt[d].at # "idle" => attempt[d].run # r
  BY <1>1 DEF IInv, OneAttemptPerRun
<1>5. row' = row /\ lost' = lost
      /\ sent' = IF attempt[c].at = "link" THEN [sent EXCEPT ![r] = @ + 1] ELSE sent
  BY DEF PassGuard
<1>6. \A s \in Runs : s # r => Out(s)' = Out(s) /\ sent'[s] = sent[s]
  <2>1. ASSUME NEW s \in Runs, s # r
        PROVE  Out(s)' = Out(s)
    BY <1>3, <2>1, OutOfOthers
  <2> QED
    BY <1>5, <2>1 DEF IInv, TypeOK
<1>7. Out(r) = 0
  BY <1>1, <1>4 DEF Out
<1>8. Out(r)' = (IF attempt[c].at = "link" THEN 1 ELSE 0)
  <2>1. CASE attempt[c].at = "link"
    BY <1>3, <2>1 DEF Out, After
  <2>2. CASE attempt[c].at # "link"
    <3>1. attempt'[c].at # "sending"
      BY <1>1, <1>3, <2>2 DEF After, Guards
    <3> QED
      BY <1>3, <1>4, <2>2, <3>1 DEF Out
  <2> QED
    BY <2>1, <2>2
<1>9. sent[r] \in Nat /\ lost[r] \in Nat /\ row[r].attempts \in Nat
  BY <1>2, Numbers DEF IInv
<1>10. sent'[r] = Recorded(r)' /\ sent'[r] \in Nat
  <2>1. sent[r] = row[r].attempts + lost[r]
    BY <1>2, <1>7, <1>9 DEF Recorded
  <2>2. sent'[r] = sent[r] + (IF attempt[c].at = "link" THEN 1 ELSE 0)
    BY <1>2, <1>5, <1>9 DEF IInv, TypeOK
  <2> QED
    BY <1>5, <1>8, <1>9, <2>1, <2>2 DEF Recorded
<1>11. /\ Used(r)' /\ Status(r)' = Status(r)
       /\ row[r].attempts <= row[r].maxAttempts
       /\ Status(r) \in Sendable => row[r].attempts < row[r].maxAttempts
       /\ Status(r) = "failed" => row[r].attempts = row[r].maxAttempts
  BY <1>2, <1>3, <1>5 DEF Used, Status, Accounts, Balanced
<1>12. Accounts'
  BY <1>2, <1>3, <1>4, <1>5, <1>6, <1>10, <1>11, OneRunsBooks
<1> QED
  BY <1>5, <1>12, RowsAlone

\* One more attempt is on record.
LEMMA CountedAttempt ==
  ASSUME NEW entry \in Rows
  PROVE  /\ \A status \in Finished :
              LET after == Concluded(entry, status)
              IN /\ after.status = status /\ after.link = entry.link /\ after.cooling = entry.cooling
                 /\ after.attempts = entry.attempts + 1 /\ after.maxAttempts = entry.maxAttempts
         /\ LET after == Postponed(entry)
            IN /\ after.status = entry.status /\ after.link = entry.link /\ after.cooling = entry.cooling
               /\ after.attempts = entry.attempts + 1 /\ after.maxAttempts = entry.maxAttempts
<1>1. ASSUME NEW status \in Finished
      PROVE  LET after == Concluded(entry, status)
             IN /\ after.status = status /\ after.link = entry.link /\ after.cooling = entry.cooling
                /\ after.attempts = entry.attempts + 1 /\ after.maxAttempts = entry.maxAttempts
  <2>1. LET ended == Ended(entry, status)
        IN ended \in Rows /\ ended.status = status /\ SameEntry(ended, entry)
    BY EndedType, UpdatedFields
  <2> QED
    BY <2>1 DEF Concluded, SameEntry, Rows
<1>2. LET after == Postponed(entry)
      IN /\ after.status = entry.status /\ after.link = entry.link /\ after.cooling = entry.cooling
         /\ after.attempts = entry.attempts + 1 /\ after.maxAttempts = entry.maxAttempts
  BY DEF Postponed, Rows
<1> QED
  BY <1>1, <1>2

\* What the end of an attempt does to the row of its run: a guard cancelled it,
\* it had been cancelled meanwhile, or the attempt is on record.
EndsRun(r, sending) ==
  \/ ~sending /\ row'[r].attempts = row[r].attempts /\ row'[r].status = "cancelled"
  \/ /\ sending /\ row'[r].attempts = row[r].attempts
     /\ Status(r) = "cancelled" /\ row'[r].status = "cancelled"
  \/ /\ sending /\ row'[r].attempts = row[r].attempts + 1
     /\ Status(r) = "pending"
     /\ row'[r].status \in {"succeeded", IF row[r].attempts + 1 = row[r].maxAttempts THEN "failed" ELSE "pending"}

LEMMA EndOfRun ==
  ASSUME IInv, Accounts, NEW c \in Attempts, NEW r, r = attempt[c].run,
         FailGuard(c) \/ Succeed(c) \/ Fail(c)
  PROVE  /\ \A s \in Runs : s # r => row'[s] = row[s]
         /\ row'[r].link = row[r].link /\ row'[r].cooling = row[r].cooling
         /\ row'[r].maxAttempts = row[r].maxAttempts
         /\ EndsRun(r, attempt[c].at = "sending")
<1>1. attempt[c].at # "idle"
  BY DEF FailGuard, Succeed, Fail, Guards
<1>2. r \in Runs /\ row[r] \in Rows /\ Status(r) \in {"pending", "cancelled"}
  BY <1>1, AttemptFields, RowFields DEF IInv, Registered, Accounts, BalancedAtWork
<1>3. CASE FailGuard(c)
  <2>1. attempt[c].at # "sending"
    BY <1>3 DEF FailGuard, Guards
  <2>2. CASE Status(r) = "pending"
    <3>1. row' = [row EXCEPT ![r] = Ended(row[r], "cancelled")]
      BY <1>2, <1>3, <2>2 DEF FailGuard, Cancel, Waiting, IInv, TypeOK
    <3>2. LET ended == Ended(row[r], "cancelled")
          IN ended.status = "cancelled" /\ SameEntry(ended, row[r])
      BY <1>2, UpdatedFields
    <3>3. row'[r] = Ended(row[r], "cancelled") /\ \A s \in Runs : s # r => row'[s] = row[s]
      BY <1>2, <3>1 DEF IInv, TypeOK
    <3> QED
      BY <2>1, <3>2, <3>3 DEF SameEntry, EndsRun
  <2>3. CASE Status(r) # "pending"
    BY <1>2, <1>3, <2>1, <2>3 DEF FailGuard, Status, EndsRun
  <2> QED
    BY <2>2, <2>3
<1>4. CASE Succeed(c) /\ Status(r) = "pending"
  <2>1. attempt[c].at = "sending" /\ row' = [row EXCEPT ![r] = Concluded(row[r], "succeeded")]
    BY <1>4 DEF Succeed, RecordsOutcome
  <2>2. row'[r] = Concluded(row[r], "succeeded") /\ \A s \in Runs : s # r => row'[s] = row[s]
    BY <1>2, <2>1 DEF IInv, TypeOK
  <2> QED
    BY <1>2, <1>4, <2>1, <2>2, CountedAttempt DEF Finished, EndsRun
<1>5. CASE Fail(c) /\ Status(r) = "pending"
  <2>1. row[r].attempts \in Nat /\ row[r].maxAttempts \in Nat /\ row[r].attempts < row[r].maxAttempts
    BY <1>2, <1>5, Numbers DEF IInv, Accounts, Balanced, Used, Sendable, Waiting
  <2>2. Exhausted(r) <=> row[r].attempts + 1 = row[r].maxAttempts
    BY <2>1 DEF Exhausted
  <2>3. attempt[c].at = "sending" /\ RecordsOutcome(r)
    BY <1>5 DEF Fail, RecordsOutcome
  <2>4. CASE Exhausted(r)
    <3>1. row' = [row EXCEPT ![r] = Concluded(row[r], "failed")]
      BY <1>5, <2>3, <2>4 DEF Fail
    <3>2. row'[r] = Concluded(row[r], "failed") /\ \A s \in Runs : s # r => row'[s] = row[s]
      BY <1>2, <3>1 DEF IInv, TypeOK
    <3> QED
      BY <1>2, <1>5, <2>2, <2>3, <2>4, <3>2, CountedAttempt DEF Finished, EndsRun
  <2>5. CASE ~Exhausted(r)
    <3>1. row' = [row EXCEPT ![r] = Postponed(row[r])]
      BY <1>5, <2>3, <2>5 DEF Fail
    <3>2. row'[r] = Postponed(row[r]) /\ \A s \in Runs : s # r => row'[s] = row[s]
      BY <1>2, <3>1 DEF IInv, TypeOK
    <3> QED
      BY <1>2, <1>5, <2>2, <2>3, <2>5, <3>2, CountedAttempt DEF Status, EndsRun
  <2> QED
    BY <2>4, <2>5
<1>6. CASE (Succeed(c) \/ Fail(c)) /\ Status(r) # "pending"
  <2>1. row' = row /\ Status(r) = "cancelled" /\ attempt[c].at = "sending"
    BY <1>2, <1>6 DEF Succeed, Fail, RecordsOutcome
  <2> QED
    BY <2>1 DEF Status, EndsRun
<1> QED
  BY <1>3, <1>4, <1>5, <1>6

\* An attempt that ends: its request is on record, unless its run was
\* cancelled meanwhile.
LEMMA EndAccounts ==
  ASSUME IInv, Accounts, NEW c \in Attempts, NEW r, r = attempt[c].run,
         FailGuard(c) \/ Succeed(c) \/ Fail(c)
  PROVE  Accounts' /\ \A s \in Runs : CoolsOff(s)
<1>1. attempt[c].at # "idle" /\ EndAttempt(c) /\ sent' = sent /\ lost' = lost
  BY DEF FailGuard, Succeed, Fail, Guards, history, notices, said
<1>2. /\ r \in Runs /\ Used(r) /\ row[r] \in Rows
      /\ Status(r) \in {"pending", "cancelled"} /\ sent[r] = Recorded(r)
  BY <1>1, AttemptFields, RowFields DEF IInv, Registered, Accounts, BalancedAtWork
<1>3. attempt'[c].at = "idle" /\ \A d \in Attempts : d # c => attempt'[d] = attempt[d]
  BY <1>1 DEF EndAttempt, NoAttempt, IInv, TypeOK
<1>4. \A d \in Attempts : d # c /\ attempt[d].at # "idle" => attempt[d].run # r
  BY <1>1 DEF IInv, OneAttemptPerRun
<1>5. \A s \in Runs : s # r => Out(s)' = Out(s)
  BY <1>3, OutOfOthers
<1>6. Out(r)' = 0 /\ Out(r) = (IF attempt[c].at = "sending" THEN 1 ELSE 0)
  BY <1>1, <1>2, <1>3, <1>4 DEF Out
<1>7. /\ sent[r] \in Nat /\ lost[r] \in Nat /\ row[r].attempts \in Nat /\ row[r].maxAttempts \in Nat
      /\ row[r].attempts < row[r].maxAttempts
  BY <1>2, Numbers DEF IInv, Accounts, Balanced, Sendable, Waiting
<1>8. sent[r] = row[r].attempts + lost[r] + (IF attempt[c].at = "sending" THEN 1 ELSE 0)
  BY <1>2, <1>6 DEF Recorded
<1>9. /\ \A s \in Runs : s # r => row'[s] = row[s]
      /\ row'[r].link = row[r].link /\ row'[r].cooling = row[r].cooling
      /\ row'[r].maxAttempts = row[r].maxAttempts
      /\ EndsRun(r, attempt[c].at = "sending")
  BY EndOfRun
<1>10. Recorded(r)' = row'[r].attempts + lost[r]
  <2>1. Recorded(r)' = row'[r].attempts + lost'[r] + Out(r)'
    BY DEF Recorded
  <2>2. row'[r].attempts \in Nat
    BY <1>7, <1>9 DEF EndsRun
  <2> QED
    BY <1>1, <1>6, <1>7, <2>1, <2>2
<1>11. /\ Used(r)' /\ sent'[r] - Recorded(r)' \in 0 .. (IF Status(r)' = "cancelled" THEN 1 ELSE 0)
       /\ row'[r].attempts <= row'[r].maxAttempts
       /\ Status(r)' \in Sendable => row'[r].attempts < row'[r].maxAttempts
       /\ Status(r)' = "failed" => row'[r].attempts = row'[r].maxAttempts
  <2>1. CASE row'[r].attempts = row[r].attempts
    <3>1. row'[r].status = "cancelled"
      BY <1>7, <1>9, <2>1 DEF EndsRun
    <3>2. sent[r] - (row[r].attempts + lost[r]) = IF attempt[c].at = "sending" THEN 1 ELSE 0
      BY <1>7, <1>8
    <3> QED
      BY <1>1, <1>7, <1>9, <1>10, <2>1, <3>1, <3>2 DEF Used, Status
  <2>2. CASE row'[r].attempts # row[r].attempts
    <3>1. /\ attempt[c].at = "sending" /\ row'[r].attempts = row[r].attempts + 1
          /\ row'[r].status \in {"succeeded", IF row[r].attempts + 1 = row[r].maxAttempts THEN "failed" ELSE "pending"}
      BY <1>9, <2>2 DEF EndsRun
    <3>2. sent[r] - (row[r].attempts + 1 + lost[r]) = 0 /\ row[r].attempts + 1 <= row[r].maxAttempts
      BY <1>7, <1>8, <3>1
    <3> QED
      BY <1>1, <1>7, <1>9, <1>10, <3>1, <3>2 DEF Used, Status, Sendable, Waiting
  <2> QED
    BY <2>1, <2>2
<1>12. Accounts'
  BY <1>1, <1>2, <1>3, <1>4, <1>5, <1>9, <1>11, OneRunsBooks
<1>13. \A s \in Runs : CoolsOff(s)
  BY <1>2, <1>9 DEF CoolsOff, Counts, Status, EndsRun
<1> QED
  BY <1>12, <1>13

\* A crash puts what was out on the account of the crash.
LEMMA CrashAccounts ==
  ASSUME IInv, Accounts, Crash
  PROVE  Accounts' /\ \A s \in Runs : CoolsOff(s)
<1>1. row' = row /\ sent' = sent /\ \A c \in Attempts : attempt'[c].at = "idle"
  BY DEF Crash, NoAttempt
<1>2. ASSUME NEW r \in Runs
      PROVE  lost'[r] = lost[r] + Out(r) /\ Out(r)' = 0
  <2>1. lost'[r] = lost[r] + Cardinality(Requests(r))
    BY DEF Crash, Requests
  <2> QED
    BY <1>1, <2>1, RequestsOut DEF IInv, Out
<1>3. ASSUME NEW r \in Runs
      PROVE  Status(r)' = Status(r) /\ (Used(r)' <=> Used(r)) /\ (Used(r) => Recorded(r)' = Recorded(r))
  <2>1. Used(r) => row[r].attempts \in Nat /\ lost[r] \in Nat /\ Out(r) \in {0, 1}
    BY Numbers DEF IInv
  <2> QED
    BY <1>1, <1>2, <2>1 DEF Status, Used, Recorded
<1>4. Unspent'
  <2>1. \A r \in Runs : ~Used(r) => Out(r) = 0
    BY DEF Out, IInv, Registered
  <2> QED
    BY <1>2, <1>3, <2>1 DEF Accounts, Unspent
<1>5. Balanced'
  BY <1>1, <1>3 DEF Accounts, Balanced
<1>6. BalancedAtWork'
  BY <1>1 DEF BalancedAtWork
<1> QED
  BY <1>1, <1>4, <1>5, <1>6, RowsAlone DEF Accounts

LEMMA AccountsNext == IInv /\ Accounts /\ OneRunPerCooldown /\ [Next]_vars => Accounts' /\ OneRunPerCooldown'
<1> SUFFICES ASSUME IInv, Accounts, OneRunPerCooldown, [Next]_vars
             PROVE  Accounts' /\ OneRunPerCooldown'
  OBVIOUS
<1>1. TypeOK'
  BY TypeNext DEF IInv
<1>2. CASE UNCHANGED vars
  BY <1>1, <1>2, RowsAlone, MovesKeepAccounts, CoolingOff DEF vars, history, notices, said
<1>3. ASSUME NEW c \in Attempts, (\E r \in Runs : StartAttempt(c, r)) \/ AttemptStep(c)
      PROVE  Accounts' /\ OneRunPerCooldown'
  BY <1>3, StartAccounts, PassAccounts, EndAccounts, CoolingOff DEF AttemptStep
<1>4. CASE Crash
  BY <1>4, CrashAccounts, CoolingOff
<1>5. CASE Next
  BY <1>1, <1>3, <1>4, <1>5, OthersKeepAccounts DEF Next, OtherStep
<1> QED
  BY <1>2, <1>5

LEMMA AccountsInvariance == Spec => [](Accounts /\ OneRunPerCooldown)
<1>1. Init => Accounts /\ OneRunPerCooldown
  <2> SUFFICES ASSUME Init
               PROVE  Accounts /\ OneRunPerCooldown
    OBVIOUS
  <2>1. \A r \in Runs : Status(r) = "none" /\ lost[r] = 0
    BY DEF Init, Status, NoRow
  <2>2. \A c \in Attempts : attempt[c].at = "idle"
    BY DEF Init, NoAttempt
  <2> QED
    BY <2>1, <2>2 DEF Accounts, Unspent, Balanced, BalancedAtWork, Used, OneRunPerCooldown
<1> QED
  BY <1>1, AccountsNext, Invariance, PTL DEF Spec

-----------------------------------------------------------------------------
(* The rows and the calls implement RunContract.                           *)

\* The hand that `calls` have on a run; HandOf for the calls of a state.
HandIn(calls, r) ==
  IF \E c \in Attempts : calls[c].at = "sending" /\ calls[c].run = r THEN "out"
  ELSE IF \E c \in Attempts : calls[c].at # "idle" /\ calls[c].run = r THEN "held" ELSE "free"

LEMMA HandsOfCalls == \A r : HandOf(r) = HandIn(attempt, r) /\ HandOf(r)' = HandIn(attempt', r)
BY DEF HandOf, HandIn, Requests

LEMMA FreeHand ==
  ASSUME NEW calls, NEW r, \A c \in Attempts : calls[c].at # "idle" => calls[c].run # r
  PROVE  HandIn(calls, r) = "free"
BY DEF HandIn

LEMMA BusyHand ==
  ASSUME NEW calls, NEW r, NEW c \in Attempts, calls[c].at # "idle", calls[c].run = r,
         \A d \in Attempts : d # c /\ calls[d].at # "idle" => calls[d].run # r
  PROVE  HandIn(calls, r) = IF calls[c].at = "sending" THEN "out" ELSE "held"
BY DEF HandIn

LEMMA OtherHands ==
  ASSUME NEW c \in Attempts, \A d \in Attempts : d # c => attempt'[d] = attempt[d], NEW s,
         attempt[c].at # "idle" => attempt[c].run # s, attempt'[c].at # "idle" => attempt'[c].run # s
  PROVE  HandOf(s)' = HandOf(s)
BY HandsOfCalls DEF HandIn

\* What a row tells the contract.
LEMMA OtherRuns ==
  ASSUME NEW s \in Runs, row'[s] = row[s], lost'[s] = lost[s]
  PROVE  RunOf(s)' = RunOf(s) /\ AllowedOf(s)' = AllowedOf(s)
BY DEF RunOf, AllowedOf, Status

LEMMA OthersImplement ==
  ASSUME IInv, Accounts, TypeOK', \A r \in Runs : RowMoves(r), UNCHANGED <<attempt, sent, lost>>
  PROVE  Contract!Plan
<1> DEFINE new == {r \in Runs : ~Used(r) /\ row'[r].status # "none"}
           off == {r \in Runs : Status(r) \in Waiting /\ row'[r].status = "cancelled"}
<1>1. \A r \in Runs : r \in new => RunOf(r) = "none" /\ RunOf(r)' = "open" /\ AllowedOf(r)' = MaxDeliveryAttempts
  <2> SUFFICES ASSUME NEW r \in Runs, ~Used(r), row'[r].status # "none"
               PROVE  RunOf(r) = "none" /\ RunOf(r)' = "open" /\ AllowedOf(r)' = MaxDeliveryAttempts
    OBVIOUS
  <2>1. row'[r].status \in Waiting /\ row'[r].maxAttempts = MaxDeliveryAttempts
    BY DEF RowMoves, Used, Status
  <2>2. lost[r] = 0
    BY DEF Accounts, Unspent
  <2> QED
    BY <2>1, <2>2, ActionRunsAssumption DEF RunOf, AllowedOf, Used, Status, Waiting
<1>2. \A r \in Runs : r \in off => RunOf(r) = "open" /\ RunOf(r)' = "cancelled" /\ r \notin new
  BY DEF RunOf, Used, Status, Waiting
<1>3. \A r \in Runs : r \notin new => AllowedOf(r)' = AllowedOf(r)
  BY DEF RowMoves, AllowedOf, Used, Status, Waiting
<1>4. \A r \in Runs : r \notin new /\ r \notin off => RunOf(r)' = RunOf(r)
  BY DEF RowMoves, RunOf, Used, Status, Waiting
<1>5. \A r \in Runs : HandOf(r)' = HandOf(r)
  BY HandsOfCalls
<1>6. new \in SUBSET {r \in Runs : RunOf(r) = "none"} /\ off \in SUBSET {r \in Runs : RunOf(r) = "open"}
  BY <1>1, <1>2
<1> HIDE DEF new, off
<1> QED
  BY <1>1, <1>2, <1>3, <1>4, <1>5, <1>6 DEF Contract!Plan

LEMMA StartImplements ==
  ASSUME IInv, NEW c \in Attempts, NEW r \in Runs, StartAttempt(c, r)
  PROVE  Contract!Take(r)
<1>1. Status(r) = "pending" /\ row[r] \in Rows /\ attempt[c].at = "idle" /\ r \notin activeRuns
  BY RowFields DEF StartAttempt, Claimable, FreeForAttempt, Used, IInv
<1>2. row' = [row EXCEPT ![r] = [row[r] EXCEPT !.next = "later"]] /\ UNCHANGED <<sent, lost>>
  BY DEF StartAttempt, Claimed, history, notices, said
<1>3. row'[r].status = row[r].status /\ SameEntry(row'[r], row[r]) /\ \A s \in Runs : s # r => row'[s] = row[s]
  <2>1. row \in [Runs -> {NoRow} \cup Rows]
    BY DEF IInv, TypeOK
  <2> QED
    BY <1>1, <1>2, <2>1, UpdatedFields
<1>4. attempt'[c] = [at |-> "action", run |-> r] /\ \A d \in Attempts : d # c => attempt'[d] = attempt[d]
  BY DEF StartAttempt, IInv, TypeOK
<1>5. \A d \in Attempts : attempt[d].at # "idle" => attempt[d].run # r
  BY <1>1 DEF IInv, Registered
<1>6. HandOf(r) = "free"
  BY <1>5, FreeHand, HandsOfCalls
<1>7. HandOf(r)' = "held"
  <2>1. attempt'[c].at = "action" /\ attempt'[c].run = r
    BY <1>4
  <2>2. \A d \in Attempts : d # c /\ attempt'[d].at # "idle" => attempt'[d].run # r
    BY <1>4, <1>5
  <2>3. HandIn(attempt', r) = "held"
    BY <2>1, <2>2, BusyHand
  <2> QED
    BY <2>3, HandsOfCalls
<1>8. \A s \in Runs : s # r => HandOf(s)' = HandOf(s)
  BY <1>1, <1>4, OtherHands
<1>9. \A s \in Runs : RunOf(s)' = RunOf(s) /\ AllowedOf(s)' = AllowedOf(s)
  BY <1>2, <1>3 DEF SameEntry, RunOf, AllowedOf, Status
<1>10. RunOf(r) = "open"
  BY <1>1 DEF RunOf, Waiting
<1> QED
  BY <1>2, <1>6, <1>7, <1>8, <1>9, <1>10 DEF Contract!Take

\* The last guard lets the request out; the others are not seen.
LEMMA PassImplements ==
  ASSUME IInv, Accounts, NEW c \in Attempts, NEW r, r = attempt[c].run, PassGuard(c)
  PROVE  Contract!Send(r) \/ UNCHANGED Contract!vars
<1>1. attempt[c].at \in Guards /\ attempt[c].at # "idle" /\ attempt[c].at # "sending"
  BY DEF PassGuard, Guards
<1>2. r \in Runs /\ Used(r) /\ Status(r) \in {"pending", "cancelled"} /\ sent[r] = Recorded(r)
  BY <1>1, AttemptFields DEF IInv, Registered, Accounts, BalancedAtWork
<1>3. /\ attempt'[c].at = After(attempt[c].at) /\ attempt'[c].run = r
      /\ \A d \in Attempts : d # c => attempt'[d] = attempt[d]
  BY <1>1, <1>2 DEF PassGuard, IInv, TypeOK, AttemptStates, NoAttempt
<1>4. \A d \in Attempts : d # c /\ attempt[d].at # "idle" => attempt[d].run # r
  BY <1>1 DEF IInv, OneAttemptPerRun
<1>5. row' = row /\ lost' = lost
      /\ sent' = IF attempt[c].at = "link" THEN [sent EXCEPT ![r] = @ + 1] ELSE sent
  BY DEF PassGuard
<1>6. \A s \in Runs : RunOf(s)' = RunOf(s) /\ AllowedOf(s)' = AllowedOf(s)
  BY <1>5, OtherRuns
<1>7. \A s \in Runs : s # r => HandOf(s)' = HandOf(s)
  BY <1>1, <1>3, OtherHands
<1>8. HandOf(r) = "held"
  <2>1. HandIn(attempt, r) = "held"
    BY <1>1, <1>4, BusyHand
  <2> QED
    BY <2>1, HandsOfCalls
<1>9. HandOf(r)' = IF attempt[c].at = "link" THEN "out" ELSE "held"
  <2>1. attempt'[c].at # "idle" /\ (attempt'[c].at = "sending" <=> attempt[c].at = "link")
    BY <1>1, <1>3 DEF After, Guards
  <2>2. HandIn(attempt', r) = IF attempt'[c].at = "sending" THEN "out" ELSE "held"
    BY <1>3, <1>4, <2>1, BusyHand
  <2> QED
    BY <2>1, <2>2, HandsOfCalls
<1>10. sent[r] < AllowedOf(r)
  <2>1. Out(r) = 0
    BY <1>1, <1>4 DEF Out
  <2>2. sent[r] \in Nat /\ lost[r] \in Nat /\ row[r].attempts \in Nat /\ row[r].maxAttempts \in Nat
    BY <1>2, Numbers DEF IInv
  <2>3. row[r].attempts < row[r].maxAttempts
    BY <1>2 DEF Accounts, Balanced, Sendable, Waiting
  <2> QED
    BY <1>2, <2>1, <2>2, <2>3 DEF Recorded, AllowedOf, Used
<1>11. CASE attempt[c].at = "link"
  BY <1>2, <1>5, <1>6, <1>7, <1>8, <1>9, <1>10, <1>11 DEF Contract!Send
<1>12. CASE attempt[c].at # "link"
  <2>1. \A s \in Runs : HandOf(s)' = HandOf(s)
    BY <1>7, <1>8, <1>9, <1>12
  <2> QED
    BY <1>5, <1>6, <1>12, <2>1 DEF Contract!vars
<1> QED
  BY <1>11, <1>12

LEMMA EndImplements ==
  ASSUME IInv, Accounts, NEW c \in Attempts, NEW r, r = attempt[c].run,
         FailGuard(c) \/ Succeed(c) \/ Fail(c)
  PROVE  Contract!Drop(r) \/ Contract!Answer(r)
<1>1. attempt[c].at # "idle" /\ EndAttempt(c) /\ sent' = sent /\ lost' = lost
  BY DEF FailGuard, Succeed, Fail, Guards, history, notices, said
<1>2. /\ r \in Runs /\ Used(r) /\ row[r] \in Rows
      /\ Status(r) \in {"pending", "cancelled"} /\ sent[r] = Recorded(r)
  BY <1>1, AttemptFields, RowFields DEF IInv, Registered, Accounts, BalancedAtWork
<1>3. attempt'[c].at = "idle" /\ \A d \in Attempts : d # c => attempt'[d] = attempt[d]
  BY <1>1 DEF EndAttempt, NoAttempt, IInv, TypeOK
<1>4. \A d \in Attempts : d # c /\ attempt[d].at # "idle" => attempt[d].run # r
  BY <1>1 DEF IInv, OneAttemptPerRun
<1>5. HandOf(r) = IF attempt[c].at = "sending" THEN "out" ELSE "held"
  <2>1. HandIn(attempt, r) = IF attempt[c].at = "sending" THEN "out" ELSE "held"
    BY <1>1, <1>4, BusyHand
  <2> QED
    BY <2>1, HandsOfCalls
<1>6. HandOf(r)' = "free"
  <2>1. HandIn(attempt', r) = "free"
    BY <1>3, <1>4, FreeHand
  <2> QED
    BY <2>1, HandsOfCalls
<1>7. \A s \in Runs : s # r => HandOf(s)' = HandOf(s)
  BY <1>1, <1>3, OtherHands
<1>8. /\ \A s \in Runs : s # r => row'[s] = row[s]
      /\ row'[r].maxAttempts = row[r].maxAttempts
      /\ EndsRun(r, attempt[c].at = "sending")
  BY EndOfRun
<1>9. \A s \in Runs : s # r => RunOf(s)' = RunOf(s)
  BY <1>1, <1>8, OtherRuns
<1>10. \A s \in Runs : AllowedOf(s)' = AllowedOf(s)
  <2>1. AllowedOf(r)' = AllowedOf(r)
    BY <1>1, <1>2, <1>8 DEF AllowedOf, Used, Status, EndsRun
  <2> QED
    BY <1>1, <1>8, <2>1, OtherRuns
<1>11. RunOf(r) = IF Status(r) = "pending" THEN "open" ELSE "cancelled"
  BY <1>2 DEF RunOf, Waiting
<1>12. CASE attempt[c].at # "sending"
  <2>1. RunOf(r)' = "cancelled"
    BY <1>8, <1>12 DEF EndsRun, RunOf, Status, Waiting
  <2>2. Contract!Become(r, "cancelled")
    BY <1>2, <1>9, <1>11, <2>1 DEF Contract!Become
  <2> QED
    BY <1>1, <1>2, <1>5, <1>6, <1>7, <1>10, <1>12, <2>2 DEF Contract!Drop
<1>13. CASE attempt[c].at = "sending"
  <2>1. sent[r] = AllowedOf(r) <=> row[r].attempts + 1 = row[r].maxAttempts
    <3>1. Out(r) = 1
      BY <1>2, <1>13 DEF Out
    <3>2. lost[r] \in Nat /\ row[r].attempts \in Nat /\ row[r].maxAttempts \in Nat
      BY <1>2, Numbers DEF IInv
    <3> QED
      BY <1>2, <3>1, <3>2 DEF Recorded, AllowedOf, Used
  <2>2. CASE Status(r) = "cancelled"
    <3>1. RunOf(r)' = "cancelled"
      BY <1>8, <1>13, <2>2 DEF EndsRun, RunOf, Status, Waiting
    <3>2. Contract!Become(r, "succeeded")
      BY <1>2, <1>9, <1>11, <2>2, <3>1 DEF Contract!Become
    <3> QED
      BY <1>1, <1>2, <1>5, <1>6, <1>7, <1>10, <1>13, <3>2 DEF Contract!Answer
  <2>3. CASE Status(r) = "pending"
    <3> DEFINE ending == IF sent[r] = AllowedOf(r) THEN "failed" ELSE "open"
    <3>1. row'[r].status \in {"succeeded", IF row[r].attempts + 1 = row[r].maxAttempts THEN "failed" ELSE "pending"}
      BY <1>8, <1>13, <2>3 DEF EndsRun
    <3>2. RunOf(r)' \in {"succeeded", ending}
      BY <2>1, <3>1 DEF RunOf, Status, Waiting
    <3>3. Contract!Become(r, "succeeded") \/ Contract!Become(r, ending)
      BY <1>2, <1>9, <1>11, <2>3, <3>2 DEF Contract!Become
    <3> QED
      BY <1>1, <1>2, <1>5, <1>6, <1>7, <1>10, <1>13, <3>3 DEF Contract!Answer
  <2> QED
    BY <1>2, <2>2, <2>3
<1> QED
  BY <1>12, <1>13

\* Nobody works on a run that failed, and it has used up what it was allowed.
LEMMA RetryImplements ==
  ASSUME IInv, Accounts, NEW r \in Runs, Retry(r)
  PROVE  Contract!Again(r)
<1>1. Reopens(r) /\ (\A s \in Runs : s # r => row'[s] = row[s]) /\ UNCHANGED <<attempt, sent, lost>>
  BY RetryMoves
<1>2. \A d \in Attempts : attempt[d].at # "idle" => attempt[d].run # r
  BY <1>1 DEF Accounts, BalancedAtWork, Reopens
<1>3. HandOf(r) = "free"
  BY <1>2, FreeHand, HandsOfCalls
<1>4. \A s \in Runs : HandOf(s)' = HandOf(s)
  BY <1>1, HandsOfCalls
<1>5. RunOf(r) = "failed" /\ RunOf(r)' = "open"
  BY <1>1 DEF Reopens, RunOf, Status, Waiting
<1>6. AllowedOf(r)' = AllowedOf(r) + MaxDeliveryAttempts
  <2>1. Used(r) /\ row[r].attempts = row[r].maxAttempts
    BY <1>1 DEF Reopens, Accounts, Balanced, Used
  <2>2. row[r].maxAttempts \in Nat /\ lost[r] \in Nat
    BY <2>1, Numbers DEF IInv
  <2> QED
    BY <1>1, <2>1, <2>2, ActionRunsAssumption DEF AllowedOf, Reopens, Used, Status
<1>7. \A s \in Runs : s # r => RunOf(s)' = RunOf(s) /\ AllowedOf(s)' = AllowedOf(s)
  BY <1>1, OtherRuns
<1> QED
  BY <1>1, <1>3, <1>4, <1>5, <1>6, <1>7 DEF Contract!Again

LEMMA CrashImplements ==
  ASSUME IInv, Crash
  PROVE  Contract!Crash
<1>1. row' = row /\ sent' = sent /\ \A c \in Attempts : attempt'[c].at = "idle"
  BY DEF Crash, NoAttempt
<1>2. \A r \in Runs : HandOf(r)' = "free"
  BY <1>1, FreeHand, HandsOfCalls
<1>3. ASSUME NEW r \in Runs
      PROVE  AllowedOf(r)' = IF HandOf(r) = "out" THEN AllowedOf(r) + 1 ELSE AllowedOf(r)
  <2>1. lost'[r] = lost[r] + Out(r)
    BY RequestsOut DEF Crash, Requests, IInv
  <2>2. Out(r) = (IF HandOf(r) = "out" THEN 1 ELSE 0) /\ (Out(r) = 1 => Used(r))
    BY DEF Out, HandOf, Requests, IInv, Registered
  <2>3. lost[r] \in Nat /\ (Used(r) => row[r].maxAttempts \in Nat)
    BY Numbers DEF IInv
  <2> QED
    BY <1>1, <2>1, <2>2, <2>3 DEF AllowedOf, Used, Status
<1>4. \A r \in Runs : RunOf(r)' = RunOf(r)
  BY <1>1 DEF RunOf, Status
<1> QED
  BY <1>1, <1>2, <1>3, <1>4 DEF Contract!Crash

-----------------------------------------------------------------------------
(* The theorems.                                                           *)

\* Rows, attempts and the settings of administrators have their types.
THEOREM Typing == Spec => []TypeOK
BY Invariance, PTL DEF IInv

\* Two calls of attemptActionRun never work on one run, however long a
\* request hangs and however often its lease runs out.
THEOREM OneAttempt == Spec => []OneAttemptPerRun
BY Invariance, PTL DEF IInv

\* What a channel was told of a run, is about to be told and lost in a crash
\* between the row and its notice is what is on record: its success and one
\* failure per round of attempts, each once and nothing else, whatever is
\* cancelled, answered too late or retried meanwhile.
THEOREM Notices == Spec => []NoticesTruthful
BY Invariance, PTL DEF IInv

\* No run waits for a status that the monitor has left.
THEOREM StatusFits == Spec => []WaitingFitsStatus
BY Invariance, PTL DEF IInv

\* An action with requiresApproval sends nothing before it was approved.
THEOREM Approval == Spec => []NothingSentUnapproved
BY Invariance, PTL DEF IInv

\* Every request is on record: a run's requests are its attempts, the one that
\* is out, those a crash cut off and at most one that was out when the run was
\* cancelled, and no row has more attempts than it was allowed.
THEOREM Requesting == Spec => []RequestsAccounted
<1>1. IInv /\ Accounts => RequestsAccounted
  <2> SUFFICES ASSUME IInv, Accounts, NEW r \in Runs, Status(r) # "none"
               PROVE  LET recorded == row[r].attempts + lost[r] + Cardinality(Requests(r)) IN
                      /\ sent[r] - recorded \in 0 .. (IF Status(r) = "cancelled" THEN 1 ELSE 0)
                      /\ row[r].attempts <= row[r].maxAttempts
                      /\ Status(r) \in Waiting => row[r].attempts < row[r].maxAttempts
    BY DEF RequestsAccounted
  <2>1. Cardinality(Requests(r)) = Out(r)
    BY RequestsOut DEF IInv
  <2> QED
    BY <2>1 DEF Accounts, Balanced, Recorded, Used, Sendable
<1> QED
  BY <1>1, Invariance, AccountsInvariance, PTL

\* No link has two uncancelled runs within one cooldown, whatever became of
\* the first one and however often the monitor left the status and came back.
THEOREM OneRun == Spec => []OneRunPerCooldown
BY AccountsInvariance, PTL

\* The runner implements RunContract, with the approvals, delays, leases and
\* guards left out: one worker at a time per run, no request beyond the
\* allowance, and a run is given up only when the allowance is used.
THEOREM RunsImplementContract == Spec => ImplementsRuns
<1>1. Init => Contract!Init
  <2> SUFFICES ASSUME Init
               PROVE  Contract!Init
    OBVIOUS
  <2>1. \A r \in Runs : RunOf(r) = "none" /\ AllowedOf(r) = 0
    BY DEF Init, RunOf, AllowedOf, Status, NoRow, Waiting
  <2>2. \A r \in Runs : HandOf(r) = "free"
    BY DEF Init, HandOf, Requests, NoAttempt
  <2> QED
    BY <2>1, <2>2 DEF Init, Contract!Init
<1>2. IInv /\ Accounts /\ OneRunPerCooldown /\ [Next]_vars => [Contract!Next]_(Contract!vars)
  <2> SUFFICES ASSUME IInv, Accounts, OneRunPerCooldown, [Next]_vars
               PROVE  [Contract!Next]_(Contract!vars)
    OBVIOUS
  <2>1. CASE UNCHANGED vars
    BY <2>1 DEF vars, history, notices, said, RunOf, HandOf, AllowedOf, Status, Requests, Contract!vars
  <2>2. CASE OtherStep
    <3>1. TypeOK'
      BY TypeNext DEF IInv
    <3> QED
      BY <2>2, <3>1, OthersMove, OthersImplement DEF Contract!Next
  <2>3. ASSUME NEW c \in Attempts, NEW r \in Runs, StartAttempt(c, r)
        PROVE  Contract!Next
    BY <2>3, StartImplements DEF Contract!Next
  <2>4. ASSUME NEW c \in Attempts, AttemptStep(c)
        PROVE  [Contract!Next]_(Contract!vars)
    <3>1. attempt[c].run \in Runs
      BY <2>4, AttemptFields DEF IInv, AttemptStep, PassGuard, FailGuard, Succeed, Fail, Guards
    <3>2. CASE PassGuard(c)
      BY <3>1, <3>2, PassImplements DEF Contract!Next
    <3>3. CASE FailGuard(c) \/ Succeed(c) \/ Fail(c)
      BY <3>1, <3>3, EndImplements DEF Contract!Next
    <3> QED
      BY <2>4, <3>2, <3>3 DEF AttemptStep
  <2>5. ASSUME NEW r \in Runs, Retry(r)
        PROVE  Contract!Next
    BY <2>5, RetryImplements DEF Contract!Next
  <2>6. CASE Crash
    BY <2>6, CrashImplements DEF Contract!Next
  <2> QED
    BY <2>1, <2>2, <2>3, <2>4, <2>5, <2>6 DEF Next, OtherStep
<1> QED
  BY <1>1, <1>2, Invariance, AccountsInvariance, PTL DEF Spec, ImplementsRuns, Contract!Spec

\* What succeeded or was cancelled stays that way: an answer, an approval or a
\* retry that comes too late changes nothing.
THEOREM Finality == Spec => FinalStays
<1> DEFINE Final(r) == Status(r) \in {"succeeded", "cancelled"}
           Kept(r) == row'[r].status = Status(r) /\ row'[r].attempts = row[r].attempts
<1>1. ASSUME TypeOK, Next, NEW r \in Runs, Final(r)
      PROVE  Kept(r)
  <2>1. Status(r) \notin Waiting \cup {"none", "failed"}
    BY <1>1 DEF Waiting
  <2>2. \A S : Cancel(S)[r] = row[r]
    BY <1>1, <2>1 DEF Cancel
  <2>3. ASSUME NEW status \in Statuses \ {"pending"}, ConfirmStatus(status)
        PROVE  Kept(r)
    BY <1>1, <2>1, <2>2, <2>3, ConfirmedRows DEF Used, Status
  <2>4. ASSUME NEW c \in Attempts, NEW s \in Runs, StartAttempt(c, s)
        PROVE  Kept(r)
    BY <1>1, <2>4 DEF StartAttempt, Claimable, Status, TypeOK
  <2>5. ASSUME NEW c \in Attempts, AttemptStep(c)
        PROVE  Kept(r)
    <3>1. CASE PassGuard(c)
      BY <3>1 DEF PassGuard, Status
    <3>2. CASE FailGuard(c)
      BY <2>2, <3>2 DEF FailGuard, Status
    <3>3. CASE Succeed(c)
      BY <1>1, <3>3 DEF Succeed, RecordsOutcome, Status, TypeOK
    <3>4. CASE Fail(c)
      BY <1>1, <3>4 DEF Fail, RecordsOutcome, Status, TypeOK
    <3> QED
      BY <2>5, <3>1, <3>2, <3>3, <3>4 DEF AttemptStep
  <2>6. ASSUME NEW s \in Runs,
               ComesDue(s) \/ CooldownEnds(s) \/ BeginApprove(s) \/ ApproveStep(s) \/ Reject(s) \/ Retry(s)
        PROVE  Kept(r)
    <3>1. CASE ComesDue(s)
      BY <1>1, <2>1, <3>1 DEF ComesDue, Status, TypeOK
    <3>2. CASE CooldownEnds(s)
      <4>1. row[s] \in Rows
        BY <1>1, <3>2, RowFields DEF CooldownEnds, Used
      <4> QED
        BY <1>1, <3>2, <4>1 DEF CooldownEnds, Status, TypeOK, Rows
    <3>3. CASE BeginApprove(s)
      BY <3>3 DEF BeginApprove, Status
    <3>4. CASE ApproveStep(s)
      BY <1>1, <3>4 DEF ApproveStep, FinishApprove, StillAwaits, Status, TypeOK
    <3>5. CASE Reject(s)
      BY <2>2, <3>5 DEF Reject, Status
    <3>6. CASE Retry(s)
      BY <1>1, <3>6 DEF Retry, Status, TypeOK
    <3> QED
      BY <2>6, <3>1, <3>2, <3>3, <3>4, <3>5, <3>6
  <2>7. CASE ExpireApprovals \/ CancelUnlinked \/ CancelRunsOfMonitor \/ \E a \in Actions : DeleteAction(a)
    BY <2>2, <2>7 DEF ExpireApprovals, CancelUnlinked, CancelRunsOfMonitor, DeleteAction, Status
  <2>8. CASE Crash
    BY <2>8 DEF Crash, Status
  <2>9. CASE \/ \E new \in SUBSET Links : BeginPutLinks(new)
             \/ PutLinks \/ SelectUnlinked
             \/ \E a \in Actions : EnableOrDisable(a) \/ DeleteLinksOfAction(a) \/ DeleteActionRow(a)
             \/ DeleteMonitorRow \/ DeleteLinksOfMonitor \/ WindowOpensOrCloses
    BY <1>1, <2>9, TypeOfSettings DEF Status
  <2>10. ASSUME NEW s \in Runs, NEW kind \in Kinds, Tell(s, kind)
         PROVE  Kept(r)
    BY <2>10 DEF Tell, Status
  <2> QED
    BY <1>1, <2>3, <2>4, <2>5, <2>6, <2>7, <2>8, <2>9, <2>10 DEF Next, EditorStep, DeletionStep
<1>2. TypeOK /\ [Next]_vars => [\A r \in Runs : Final(r) => Kept(r)]_vars
  BY <1>1
<1>3. Spec => [][\A r \in Runs : Final(r) => Kept(r)]_vars
  BY <1>2, Typing, PTL DEF Spec
<1> QED
  BY <1>3 DEF FinalStays
==============================================================================
