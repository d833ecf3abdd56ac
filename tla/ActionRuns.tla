------------------------------ MODULE ActionRuns ------------------------------
(***************************************************************************)
(* The runs of actions (workers/actionRunner.ts, routes/actions.ts): HTTP  *)
(* requests that are queued when a monitor's status is confirmed, wait for *)
(* a delay or for an administrator, are sent by attempts that overlap, are *)
(* retried, and survive a crash of the process.                            *)
(*                                                                         *)
(* One monitor.  A row's nextAttemptAt is "never" (null), "later" or "due" *)
(* and the clock turns "later" into "due" at any moment; what it means     *)
(* (delay, lease, retry delay, expiry of a request for approval) is the    *)
(* row's status.  Requests are counted where they go out.  Notices go to   *)
(* one channel here, enabled, set to hear of successes and ticked on every *)
(* action until that is deleted; sendActionNotifications tells each        *)
(* channel by itself.  Notices of requests for approval are left out.      *)
(***************************************************************************)
EXTENDS Integers, FiniteSets

CONSTANTS
  Runs,                 \* ids of rows of action_runs; ids are never reused
  Actions,              \* ids of actions
  Attempts,             \* calls of attemptActionRun that may overlap
  MaxDeliveryAttempts,  \* MAX_DELIVERY_ATTEMPTS
  ApprovalActions,      \* actions with requiresApproval
  CooledActions,        \* actions whose links have a cooldown
  MaxRetries,           \* bound: manual retries of one run
  MaxCrashes,           \* bound: crashes of the process
  MaxEdits              \* bound: changes by administrators and of windows

ASSUME ActionRunsAssumption ==
  /\ IsFiniteSet(Attempts)
  /\ MaxDeliveryAttempts \in Nat \ {0}
  /\ {MaxRetries, MaxCrashes, MaxEdits} \subseteq Nat

VARIABLES
  row,         \* the rows of action_runs
  attempt,     \* per call of attemptActionRun: its run and how far it is
  activeRuns,  \* the activeRuns set of this process
  confirmed,   \* alertConfirmedStatus of the monitor
  monitor,     \* the monitor's row and its deletion
  window,      \* a maintenance window of the monitor is open
  action,      \* per action: enabled, disabled or deleted
  deleting,    \* per action: how far the handler is that deletes it
  links,       \* the monitor's action links, pairs <<action, status>>
  editor,      \* the PUT of the monitor's links
  approving,   \* runs an administrator is approving
  sent,        \* history: requests that went out, per run
  lost,        \* history: requests cut off by a crash, per run
  ticked,      \* actions the channel hears of (action_notification_channels)
  owed,        \* calls of sendActionNotifications under way, per run and kind
  told,        \* history: notices the channel was given, per run and kind
  unsaid,      \* history: notices nobody was given, per run and kind
  approved,    \* history: runs that were approved
  retries,     \* history: manual retries, per run
  crashes,     \* crashes so far
  edits        \* changes by administrators and of windows so far

settings == <<monitor, window, action, deleting, links, editor>>
notices == <<ticked, owed, told, unsaid>>
history == <<sent, lost, approved, retries>>
vars == <<row, attempt, activeRuns, confirmed, settings, approving, history, notices, crashes, edits>>

Triggers == {"down", "up"}
Links == Actions \X Triggers

\* 'degraded' stands for 'affected' as well: both are outages without runs.
Statuses == {"pending", "up", "down", "degraded"}
OutageStatuses == {"down", "degraded"}

Waiting == {"pending", "awaiting_approval"}
Finished == {"succeeded", "failed", "cancelled"}

\* nextAttemptAt is null exactly when the run has ended.
Rows ==
  [link : Links, status : Waiting, attempts : Nat, maxAttempts : Nat, next : {"later", "due"},
   cooling : BOOLEAN]
  \cup
  [link : Links, status : Finished, attempts : Nat, maxAttempts : Nat, next : {"never"},
   cooling : BOOLEAN]

NoRow == [status |-> "none"]

\* The checks an attempt makes in turn, each with a read of its own.
Guards == {"action", "monitor", "window", "link"}

NoAttempt == [at |-> "idle"]
AttemptStates == {NoAttempt} \cup [at : Guards \cup {"sending"}, run : Runs]

Kinds == {"success", "failure"}
Tallies == [Kinds -> Nat]
NoNotices == [kind \in Kinds |-> 0]

NoEdit == [at |-> "idle"]
EditorStates ==
  {NoEdit} \cup [at : {"checked", "committed"}, links : SUBSET Links] \cup [at : {"selected"}, stale : SUBSET Runs]

TypeOK ==
  /\ row \in [Runs -> {NoRow} \cup Rows]
  /\ attempt \in [Attempts -> AttemptStates]
  /\ activeRuns \subseteq Runs
  /\ confirmed \in Statuses
  /\ monitor \in {"there", "deleted", "abandoned", "runs_cancelled", "gone"}
  /\ window \in BOOLEAN
  /\ action \in [Actions -> {"enabled", "disabled", "deleted"}]
  /\ deleting \in [Actions -> {"no", "runs_cancelled", "unlinked"}]
  /\ links \subseteq Links
  /\ editor \in EditorStates
  /\ approving \subseteq Runs
  /\ sent \in [Runs -> Nat]
  /\ lost \in [Runs -> Nat]
  /\ ticked \subseteq Actions
  /\ {owed, told, unsaid} \subseteq [Runs -> Tallies]
  /\ approved \subseteq Runs
  /\ retries \in [Runs -> 0 .. MaxRetries]
  /\ crashes \in 0 .. MaxCrashes
  /\ edits \in 0 .. MaxEdits

Init ==
  /\ row = [r \in Runs |-> NoRow]
  /\ attempt = [c \in Attempts |-> NoAttempt]
  /\ activeRuns = {}
  /\ confirmed = "pending"
  /\ monitor = "there"
  /\ window = FALSE
  /\ action = [a \in Actions |-> "enabled"]
  /\ deleting = [a \in Actions |-> "no"]
  /\ links = Links
  /\ editor = NoEdit
  /\ approving = {}
  /\ sent = [r \in Runs |-> 0]
  /\ lost = [r \in Runs |-> 0]
  /\ ticked = Actions
  /\ owed = [r \in Runs |-> NoNotices]
  /\ told = [r \in Runs |-> NoNotices]
  /\ unsaid = [r \in Runs |-> NoNotices]
  /\ approved = {}
  /\ retries = [r \in Runs |-> 0]
  /\ crashes = 0
  /\ edits = 0

-----------------------------------------------------------------------------
(* Planning and cancelling.                                                *)

Status(r) == row[r].status
ActionOf(r) == row[r].link[1]
Trigger(r) == row[r].link[2]

WaitingRuns == {r \in Runs : Status(r) \in Waiting}
Unused == {r \in Runs : Status(r) = "none"}

Ended(entry, status) == [entry EXCEPT !.status = status, !.next = "never"]

\* An attempt is counted: it was the last one, or another one follows later.
Concluded(entry, status) == [Ended(entry, status) EXCEPT !.attempts = @ + 1]
Postponed(entry) == [entry EXCEPT !.attempts = @ + 1, !.next = "later"]

\* The rows after the runs S were cancelled, the ones that still wait.
Cancel(S) == [r \in Runs |-> IF r \in S /\ Status(r) \in Waiting THEN Ended(row[r], "cancelled") ELSE row[r]]

\* Planted bug: a failed run does not count for the cooldown.
CoolingUnlessFailed(link) ==
  \E r \in Runs : Status(r) \in Waiting \cup {"succeeded"} /\ row[r].link = link /\ row[r].cooling

\* The link has a run within its cooldown, not counting cancelled ones.
Cooling(link) ==
  \E r \in Runs : Status(r) \notin {"none", "cancelled"} /\ row[r].link = link /\ row[r].cooling

\* The actions that get a run when `status` is confirmed after `previous`.
Planned(status, previous) ==
  {a \in Actions :
     /\ status = "down" \/ (status = "up" /\ previous \in OutageStatuses)
     /\ <<a, status>> \in links
     /\ action[a] = "enabled"
     /\ a \in CooledActions => ~Cooling(<<a, status>>)}

\* A run that needs approval expires later; the others run at once or delayed.
NewRow(a, status, delayed) ==
  [link |-> <<a, status>>,
   status |-> IF a \in ApprovalActions THEN "awaiting_approval" ELSE "pending",
   attempts |-> 0, maxAttempts |-> MaxDeliveryAttempts,
   next |-> IF a \in ApprovalActions \cup delayed THEN "later" ELSE "due",
   cooling |-> a \in CooledActions]

\* Ids for the runs of the actions A.  Ids that were not given out are alike:
\* the same ones are taken every time.
NewIds(A) == CHOOSE new \in [A -> Unused] : \A a, b \in A : new[a] = new[b] => a = b

Mismatched(status) == {r \in WaitingRuns : Trigger(r) # status}

\* planActionRuns, in the transaction that confirms the new status.
ConfirmStatus(status) ==
  /\ monitor = "there"
  /\ ~window
  /\ status # confirmed
  /\ confirmed' = status
  /\ \E new \in [Planned(status, confirmed) -> Unused], delayed \in SUBSET Actions :
       /\ \A a, b \in Planned(status, confirmed) : new[a] = new[b] => a = b
       /\ new = NewIds(Planned(status, confirmed))
       /\ row' = [r \in Runs |->
                    IF \E a \in Planned(status, confirmed) : new[a] = r
                    THEN NewRow(CHOOSE a \in Planned(status, confirmed) : new[a] = r, status, delayed)
                    ELSE Cancel(Mismatched(status))[r]]
  /\ UNCHANGED <<attempt, activeRuns, settings, approving, history, notices, crashes, edits>>

-----------------------------------------------------------------------------
(* Attempts (attemptActionRun).                                            *)

\* Planted bug: a claim does not set when the run is due again.
ClaimedWithoutLease(entry) == [entry EXCEPT !.next = "never"]

\* The claim holds the run for CLAIM_LEASE_MS.
Claimed(entry) == [entry EXCEPT !.next = "later"]

\* Planted bug: a call does not look at the other calls of this process.
FreeForAttemptAnyway(r) == TRUE

FreeForAttempt(r) == r \notin activeRuns

\* Planted bug: the claim takes what is due, also an expired request for approval.
ClaimableWhileWaiting(r) == Status(r) \in Waiting /\ row[r].next = "due"

Claimable(r) == Status(r) = "pending" /\ row[r].next = "due"

\* Calls that do not run are alike: the next one takes the same place every time.
FreeCall == CHOOSE c \in Attempts : attempt[c].at = "idle"

\* Started at once after a commit, an approval or a retry, or by the worker.
StartAttempt(c, r) ==
  /\ attempt[c].at = "idle"
  /\ c = FreeCall
  /\ FreeForAttempt(r)
  /\ Claimable(r)
  /\ activeRuns' = activeRuns \cup {r}
  /\ row' = [row EXCEPT ![r] = Claimed(@)]
  /\ attempt' = [attempt EXCEPT ![c] = [at |-> "action", run |-> r]]
  /\ UNCHANGED <<confirmed, settings, approving, history, notices, crashes, edits>>

GuardHolds(guard, r) ==
  CASE guard = "action" -> action[ActionOf(r)] = "enabled"
    [] guard = "monitor" -> monitor = "there" /\ confirmed = Trigger(r)
    [] guard = "window" -> ~window
    [] guard = "link" -> row[r].link \in links

After(guard) ==
  CASE guard = "action" -> "monitor"
    [] guard = "monitor" -> "window"
    [] guard = "window" -> "link"
    [] guard = "link" -> "sending"

\* A guard holds; after the last one the request goes out.
PassGuard(c) ==
  /\ attempt[c].at \in Guards
  /\ GuardHolds(attempt[c].at, attempt[c].run)
  /\ attempt' = [attempt EXCEPT ![c].at = After(@)]
  /\ sent' = IF attempt[c].at = "link" THEN [sent EXCEPT ![attempt[c].run] = @ + 1] ELSE sent
  /\ UNCHANGED <<row, activeRuns, confirmed, settings, approving, lost, notices, approved, retries,
                 crashes, edits>>

EndAttempt(c) ==
  /\ attempt' = [attempt EXCEPT ![c] = NoAttempt]
  /\ activeRuns' = activeRuns \ {attempt[c].run}

\* A guard does not hold: the run is cancelled, if it is still pending.
FailGuard(c) ==
  /\ attempt[c].at \in Guards
  /\ ~GuardHolds(attempt[c].at, attempt[c].run)
  /\ row' = IF Status(attempt[c].run) = "pending" THEN Cancel({attempt[c].run}) ELSE row
  /\ EndAttempt(c)
  /\ UNCHANGED <<confirmed, settings, approving, history, notices, crashes, edits>>

\* A run that was cancelled while it was sending stays cancelled.
RecordsOutcome(r) == Status(r) = "pending"

\* Planted bug: one attempt more than the row allows.
ExhaustedLate(r) == row[r].attempts >= row[r].maxAttempts

\* Planted bug: a retried run fails as if it had not been given new attempts.
ExhaustedByFirstRound(r) == row[r].attempts + 1 >= MaxDeliveryAttempts

Exhausted(r) == row[r].attempts + 1 >= row[r].maxAttempts

\* Planted bug: every failed attempt is announced.
TellsEveryFailure(r) == RecordsOutcome(r)

TellsFailure(r) == RecordsOutcome(r) /\ Exhausted(r)

\* The row is committed; the notice of it is begun and not waited for.
Announce(r, kind) == owed' = [owed EXCEPT ![r][kind] = @ + 1]

\* A 2xx answer.
Succeed(c) ==
  LET r == attempt[c].run IN
  /\ attempt[c].at = "sending"
  /\ IF RecordsOutcome(r)
     THEN /\ row' = [row EXCEPT ![r] = Concluded(@, "succeeded")]
          /\ Announce(r, "success")
     ELSE UNCHANGED <<row, owed>>
  /\ EndAttempt(c)
  /\ UNCHANGED <<confirmed, settings, approving, history, ticked, told, unsaid, crashes, edits>>

\* Any other answer, or none in time: another attempt later, or failed for good.
Fail(c) ==
  LET r == attempt[c].run IN
  /\ attempt[c].at = "sending"
  /\ row' = IF ~RecordsOutcome(r) THEN row
            ELSE IF Exhausted(r)
                 THEN [row EXCEPT ![r] = Concluded(@, "failed")]
                 ELSE [row EXCEPT ![r] = Postponed(@)]
  /\ IF TellsFailure(r) THEN Announce(r, "failure") ELSE owed' = owed
  /\ EndAttempt(c)
  /\ UNCHANGED <<confirmed, settings, approving, history, ticked, told, unsaid, crashes, edits>>

\* The channels of the action were read, if it has any, and the notice is
\* dispatched to them.
Tell(r, kind) ==
  /\ owed[r][kind] > 0
  /\ owed' = [owed EXCEPT ![r][kind] = @ - 1]
  /\ IF ActionOf(r) \in ticked
     THEN told' = [told EXCEPT ![r][kind] = @ + 1] /\ UNCHANGED unsaid
     ELSE unsaid' = [unsaid EXCEPT ![r][kind] = @ + 1] /\ UNCHANGED told
  /\ UNCHANGED <<row, attempt, activeRuns, confirmed, settings, approving, history, ticked,
                 crashes, edits>>

-----------------------------------------------------------------------------
(* Time and crashes.                                                       *)

\* A delay, a lease, a retry delay or the time for an approval is over.
ComesDue(r) ==
  /\ Status(r) \in Waiting /\ row[r].next = "later"
  /\ row' = [row EXCEPT ![r].next = "due"]
  /\ UNCHANGED <<attempt, activeRuns, confirmed, settings, approving, history, notices, crashes, edits>>

CooldownEnds(r) ==
  /\ Status(r) # "none" /\ row[r].cooling
  /\ row' = [row EXCEPT ![r].cooling = FALSE]
  /\ UNCHANGED <<attempt, activeRuns, confirmed, settings, approving, history, notices, crashes, edits>>

\* processDueActionRuns first cancels what was not approved in time.
ExpireApprovals ==
  LET expired == {r \in Runs : Status(r) = "awaiting_approval" /\ row[r].next = "due"} IN
  /\ expired # {}
  /\ row' = Cancel(expired)
  /\ UNCHANGED <<attempt, activeRuns, confirmed, settings, approving, history, notices, crashes, edits>>

\* The process dies and is started again: what was in memory is gone.
Crash ==
  /\ crashes < MaxCrashes
  /\ crashes' = crashes + 1
  /\ attempt' = [c \in Attempts |-> NoAttempt]
  /\ activeRuns' = {}
  /\ approving' = {}
  /\ editor' = NoEdit
  /\ lost' = [r \in Runs |->
                lost[r] + Cardinality({c \in Attempts : attempt[c].at = "sending" /\ attempt[c].run = r})]
  /\ owed' = [r \in Runs |-> NoNotices]
  /\ unsaid' = [r \in Runs |-> [kind \in Kinds |-> unsaid[r][kind] + owed[r][kind]]]
  /\ monitor' = IF monitor = "deleted" THEN "abandoned"
                ELSE IF monitor = "runs_cancelled" THEN "gone" ELSE monitor
  /\ deleting' = [a \in Actions |-> "no"]
  /\ UNCHANGED <<row, confirmed, window, action, links, sent, ticked, told, approved, retries, edits>>

-----------------------------------------------------------------------------
(* Administrators and maintenance windows.                                 *)

\* approveActionRun reads the run, and its link's delay, before it writes.
BeginApprove(r) ==
  /\ Status(r) = "awaiting_approval" /\ row[r].next = "later"
  /\ approving' = approving \cup {r}
  /\ UNCHANGED <<row, attempt, activeRuns, confirmed, settings, history, notices, crashes, edits>>

StillAwaits(r) == Status(r) = "awaiting_approval"

\* Approved: the delay of the link, if it has one, counts from now.
FinishApprove(r, next) ==
  /\ r \in approving
  /\ approving' = approving \ {r}
  /\ IF StillAwaits(r)
     THEN /\ row' = [row EXCEPT ![r].status = "pending", ![r].next = next]
          /\ approved' = approved \cup {r}
     ELSE UNCHANGED <<row, approved>>
  /\ UNCHANGED <<attempt, activeRuns, confirmed, settings, sent, lost, notices, retries, crashes, edits>>

Reject(r) ==
  /\ Status(r) = "awaiting_approval"
  /\ row' = Cancel({r})
  /\ UNCHANGED <<attempt, activeRuns, confirmed, settings, approving, history, notices, crashes, edits>>

\* retryActionRun: another round of attempts for a failed run.
Retry(r) ==
  /\ retries[r] < MaxRetries
  /\ Status(r) = "failed"
  /\ row' = [row EXCEPT ![r].status = "pending", ![r].next = "due",
                       ![r].maxAttempts = row[r].attempts + MaxDeliveryAttempts]
  /\ retries' = [retries EXCEPT ![r] = @ + 1]
  /\ UNCHANGED <<attempt, activeRuns, confirmed, settings, approving, sent, lost, notices, approved,
                 crashes, edits>>

Edit == edits < MaxEdits /\ edits' = edits + 1

\* PUT of the monitor's links: the monitor and the actions are looked up, ...
BeginPutLinks(new) ==
  /\ Edit
  /\ editor.at = "idle" /\ monitor = "there"
  /\ \A link \in new : action[link[1]] # "deleted"
  /\ editor' = [at |-> "checked", links |-> new]
  /\ UNCHANGED <<row, attempt, activeRuns, confirmed, monitor, window, action, deleting, links,
                 approving, history, notices, crashes>>

\* ... then the links are replaced in a transaction, ...
PutLinks ==
  /\ editor.at = "checked"
  /\ links' = editor.links
  /\ editor' = [editor EXCEPT !.at = "committed"]
  /\ UNCHANGED <<row, attempt, activeRuns, confirmed, monitor, window, action, deleting, approving,
                 history, notices, crashes, edits>>

\* ... the waiting runs are read, and those without a link ...
SelectUnlinked ==
  /\ editor.at = "committed"
  /\ editor' = [at |-> "selected", stale |-> {r \in WaitingRuns : row[r].link \notin editor.links}]
  /\ UNCHANGED <<row, attempt, activeRuns, confirmed, monitor, window, action, deleting, links,
                 approving, history, notices, crashes, edits>>

\* ... are cancelled if they still wait.
CancelUnlinked ==
  /\ editor.at = "selected"
  /\ row' = Cancel(editor.stale)
  /\ editor' = NoEdit
  /\ UNCHANGED <<attempt, activeRuns, confirmed, monitor, window, action, deleting, links,
                 approving, history, notices, crashes, edits>>

EnableOrDisable(a) ==
  /\ Edit
  /\ action[a] # "deleted"
  /\ action' = [action EXCEPT ![a] = IF @ = "enabled" THEN "disabled" ELSE "enabled"]
  /\ UNCHANGED <<row, attempt, activeRuns, confirmed, monitor, window, deleting, links, editor,
                 approving, history, notices, crashes>>

\* DELETE of an action: its waiting runs are cancelled, its links removed and
\* then the action itself.
DeleteAction(a) ==
  /\ Edit
  /\ action[a] # "deleted" /\ deleting[a] = "no"
  /\ row' = Cancel({r \in WaitingRuns : ActionOf(r) = a})
  /\ deleting' = [deleting EXCEPT ![a] = "runs_cancelled"]
  /\ UNCHANGED <<attempt, activeRuns, confirmed, monitor, window, action, links, editor,
                 approving, history, notices, crashes>>

DeleteLinksOfAction(a) ==
  /\ deleting[a] = "runs_cancelled"
  /\ links' = {link \in links : link[1] # a}
  /\ ticked' = ticked \ {a}
  /\ deleting' = [deleting EXCEPT ![a] = "unlinked"]
  /\ UNCHANGED <<row, attempt, activeRuns, confirmed, monitor, window, action, editor,
                 approving, history, owed, told, unsaid, crashes, edits>>

DeleteActionRow(a) ==
  /\ deleting[a] = "unlinked"
  /\ action' = [action EXCEPT ![a] = "deleted"]
  /\ deleting' = [deleting EXCEPT ![a] = "no"]
  /\ UNCHANGED <<row, attempt, activeRuns, confirmed, monitor, window, links, editor,
                 approving, history, notices, crashes, edits>>

\* DELETE of the monitor: its row, then its waiting runs, then its links.
DeleteMonitorRow ==
  /\ Edit
  /\ monitor = "there"
  /\ monitor' = "deleted"
  /\ UNCHANGED <<row, attempt, activeRuns, confirmed, window, action, deleting, links, editor,
                 approving, history, notices, crashes>>

CancelRunsOfMonitor ==
  /\ monitor = "deleted"
  /\ row' = Cancel(WaitingRuns)
  /\ monitor' = "runs_cancelled"
  /\ UNCHANGED <<attempt, activeRuns, confirmed, window, action, deleting, links, editor,
                 approving, history, notices, crashes, edits>>

DeleteLinksOfMonitor ==
  /\ monitor = "runs_cancelled"
  /\ links' = {}
  /\ monitor' = "gone"
  /\ UNCHANGED <<row, attempt, activeRuns, confirmed, window, action, deleting, editor,
                 approving, history, notices, crashes, edits>>

WindowOpensOrCloses ==
  /\ Edit
  /\ window' = ~window
  /\ UNCHANGED <<row, attempt, activeRuns, confirmed, monitor, action, deleting, links, editor,
                 approving, history, notices, crashes>>

-----------------------------------------------------------------------------
AttemptStep(c) == PassGuard(c) \/ FailGuard(c) \/ Succeed(c) \/ Fail(c)

ApproveStep(r) == \E next \in {"later", "due"} : FinishApprove(r, next)

EditorStep == PutLinks \/ SelectUnlinked \/ CancelUnlinked

DeletionStep ==
  \/ \E a \in Actions : DeleteLinksOfAction(a) \/ DeleteActionRow(a)
  \/ CancelRunsOfMonitor \/ DeleteLinksOfMonitor

Next ==
  \/ \E status \in Statuses \ {"pending"} : ConfirmStatus(status)
  \/ \E c \in Attempts, r \in Runs : StartAttempt(c, r)
  \/ \E c \in Attempts : AttemptStep(c)
  \/ \E r \in Runs, kind \in Kinds : Tell(r, kind)
  \/ \E r \in Runs : ComesDue(r) \/ CooldownEnds(r) \/ BeginApprove(r) \/ ApproveStep(r) \/ Reject(r)
  \/ \E r \in Runs : Retry(r)
  \/ ExpireApprovals
  \/ Crash
  \/ \E new \in SUBSET Links : BeginPutLinks(new)
  \/ EditorStep
  \/ \E a \in Actions : EnableOrDisable(a) \/ DeleteAction(a)
  \/ DeleteMonitorRow
  \/ DeletionStep
  \/ WindowOpensOrCloses

Spec == Init /\ [][Next]_vars

\* The worker looks for due runs every 30 seconds, a request ends after 15
\* seconds at the latest, reads and writes resolve, and time passes.
Fairness ==
  /\ \A r \in Runs : SF_vars(\E c \in Attempts : StartAttempt(c, r)) /\ WF_vars(ComesDue(r))
  /\ \A c \in Attempts : WF_vars(AttemptStep(c))
  /\ WF_vars(ExpireApprovals)

FairSpec == Spec /\ Fairness

-----------------------------------------------------------------------------
(* Properties.                                                             *)

Requests(r) == {c \in Attempts : attempt[c].at = "sending" /\ attempt[c].run = r}

\* Two calls never work on the same run, although its lease may be over while
\* its request still hangs: the claim and activeRuns together exclude it.
OneAttemptPerRun ==
  \A c, d \in Attempts :
    attempt[c].at # "idle" /\ attempt[d].at # "idle" /\ c # d => attempt[c].run # attempt[d].run

\* Every request is on record: a run's requests are its attempts, the one that
\* is out, those a crash cut off and at most one that was out when the run was
\* cancelled.  So a run sends no more than it was allowed plus one per crash.
RequestsAccounted ==
  \A r \in Runs : Status(r) # "none" =>
    LET recorded == row[r].attempts + lost[r] + Cardinality(Requests(r)) IN
    /\ sent[r] - recorded \in 0 .. (IF Status(r) = "cancelled" THEN 1 ELSE 0)
    /\ row[r].attempts <= row[r].maxAttempts
    /\ Status(r) \in Waiting => row[r].attempts < row[r].maxAttempts

\* A run that still waits is for the status the monitor is in, unless a person
\* asked for it again: planning drops the others in the same transaction.
WaitingFitsStatus ==
  \A r \in WaitingRuns : retries[r] = 0 => Trigger(r) = confirmed

\* What the channel should hear of a run: its success, and one failure for
\* each round of attempts that was used up.
OnRecord(r) ==
  [success |-> IF Status(r) = "succeeded" THEN 1 ELSE 0,
   failure |-> retries[r] + (IF Status(r) = "failed" THEN 1 ELSE 0)]

\* Channels are told the truth, and each once: what they were told, what they
\* are about to be told and what nobody was given, because a crash came between
\* the row and its notice or the action was deleted, are together exactly what
\* is on record.  So nothing is announced that did not happen or was called
\* off, nothing twice, and without such a loss nothing is left out, also over a
\* retry by hand.
NoticesTruthful ==
  \A r \in Runs, kind \in Kinds :
    told[r][kind] + owed[r][kind] + unsaid[r][kind] = OnRecord(r)[kind]

\* An action that needs approval sends nothing that nobody approved, whatever
\* expiry, rejection, recovery or a second click came between.
NothingSentUnapproved ==
  \A r \in Runs : Status(r) # "none" /\ ActionOf(r) \in ApprovalActions /\ sent[r] > 0 => r \in approved

\* One uncancelled run per link and cooldown, whatever became of the first one
\* and however often the monitor left the status and came back.
OneRunPerCooldown ==
  \A r, s \in Runs :
    Status(r) \notin {"none", "cancelled"} /\ Status(s) \notin {"none", "cancelled"} /\ r # s =>
      ~(row[r].link = row[s].link /\ row[r].cooling /\ row[s].cooling)

\* What RunContract sees of the rows and the calls.
RunOf(r) == IF Status(r) \in Waiting THEN "open" ELSE Status(r)

HandOf(r) ==
  IF Requests(r) # {} THEN "out"
  ELSE IF \E c \in Attempts : attempt[c].at # "idle" /\ attempt[c].run = r THEN "held" ELSE "free"

AllowedOf(r) == IF Status(r) = "none" THEN 0 ELSE row[r].maxAttempts + lost[r]

Contract == INSTANCE RunContract WITH
  run <- [r \in Runs |-> RunOf(r)], hand <- [r \in Runs |-> HandOf(r)],
  allowed <- [r \in Runs |-> AllowedOf(r)]

\* Claims, leases, activeRuns, guards and the attempts on the row implement
\* RunContract: one worker at a time, no request beyond the allowance, a run
\* that failed has used all of it, also in a later round, and one that
\* succeeded or was called off stays that way, whatever comes too late.
ImplementsRuns == Contract!Spec

\* What succeeded or was cancelled stays that way, its attempts included: an
\* answer, an approval or a retry that comes too late changes nothing.
FinalStays ==
  [][\A r \in Runs :
       Status(r) \in {"succeeded", "cancelled"} =>
         row'[r].status = Status(r) /\ row'[r].attempts = row[r].attempts]_vars

\* Every run comes to an end: it is sent, given up, cancelled or expires, also
\* after a crash between its claim and its outcome (the lease).
EveryRunEnds == \A r \in Runs : Status(r) \in Waiting ~> Status(r) \in Finished

==============================================================================
