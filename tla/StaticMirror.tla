---------------------------- MODULE StaticMirror ----------------------------
(***************************************************************************)
(* The saved copy of the status page on static hosting                     *)
(* (services/staticMirror.ts, routes/staticMirror.ts) and the switch that  *)
(* makes the page private (services/statusPageAccess.ts).                  *)
(*                                                                         *)
(* Saves of the settings start and stop a schedule, one after another;     *)
(* the schedule and "Push now" start pushes, of which one is in flight at  *)
(* a time; a push uploads the files its memory of the storage says are     *)
(* missing there, and the snapshot last.  The publisher, the transport and *)
(* the interval runner come from a library.                                *)
(***************************************************************************)
EXTENDS Integers

CONSTANTS
  Targets,    \* storages: endpoint, bucket and key (the fingerprint)
  MaxSaves,   \* bound: saves of the settings and of the access
  MaxLosses,  \* bound: times a storage loses its files
  MaxCrashes  \* bound: restarts of the process

ASSUME StaticMirrorAssumption ==
  /\ Targets # {}
  /\ {MaxSaves, MaxLosses, MaxCrashes} \subseteq Nat

VARIABLES
  settings,   \* the row of static_mirror_settings
  private,    \* the row of status_page_access
  applies,    \* calls of applyStaticMirror whose turn has not come
  stopping,   \* the one whose turn it is: whether the settings it read are on
  running,    \* the interval runner is started
  publisher,  \* what is remembered of the storage, for one target
  push,       \* the push in flight
  storage,    \* what each storage holds
  saves,      \* saves so far
  losses,     \* losses so far
  crashes     \* restarts so far

admin == <<settings, private, saves>>
schedule == <<applies, stopping, running>>
vars == <<admin, schedule, publisher, push, storage, losses, crashes>>

Settings == [enabled : BOOLEAN, target : Targets]

NoPublisher == [at |-> "none"]
Publishers == {NoPublisher} \cup [at : {"target"}, target : Targets, known : BOOLEAN, old : BOOLEAN]

NoPush == [at |-> "idle"]
Pushes ==
  {NoPush} \cup [at : {"building"}, target : Targets] \cup [at : {"files", "snapshot"}, target : Targets, known : BOOLEAN]

\* files: never uploaded, all of them there, or lost since.
Contents == [files : {"never", "whole", "lost"}, snapshot : BOOLEAN]

TypeOK ==
  /\ settings \in Settings
  /\ private \in BOOLEAN
  /\ applies \in Nat
  /\ stopping \subseteq BOOLEAN
  /\ running \in BOOLEAN
  /\ publisher \in Publishers
  /\ push \in Pushes
  /\ storage \in [Targets -> Contents]
  /\ saves \in 0 .. MaxSaves
  /\ losses \in 0 .. MaxLosses
  /\ crashes \in 0 .. MaxCrashes

\* startStaticMirror applies the stored settings once.
Init ==
  /\ settings \in Settings
  /\ private \in BOOLEAN
  /\ ~(private /\ settings.enabled)
  /\ applies = 1
  /\ stopping = {}
  /\ running = FALSE
  /\ publisher = NoPublisher
  /\ push = NoPush
  /\ storage = [t \in Targets |-> [files |-> "never", snapshot |-> FALSE]]
  /\ saves = 0
  /\ losses = 0
  /\ crashes = 0

-----------------------------------------------------------------------------
(* What administrators save. *)

SaveSettings ==
  /\ saves < MaxSaves
  /\ saves' = saves + 1
  /\ \E new \in Settings :
       /\ new.enabled => ~private
       /\ settings' = new
  /\ applies' = applies + 1
  /\ UNCHANGED <<private, stopping, running, publisher, push, storage, losses, crashes>>

SaveAccess ==
  /\ saves < MaxSaves
  /\ saves' = saves + 1
  /\ \E new \in BOOLEAN :
       /\ new => ~settings.enabled
       /\ private' = new
  /\ UNCHANGED <<settings, schedule, publisher, push, storage, losses, crashes>>

-----------------------------------------------------------------------------
(* The schedule: applies run one after another (applyStaticMirror). *)

\* Planted bug: an apply does not wait for the one before it.
TurnAtOnce == applies > 0

Turn == applies > 0 /\ stopping = {}

\* The memory is dropped, and the runner is asked to stop.
BeginApply ==
  /\ Turn
  /\ applies' = applies - 1
  /\ stopping' = stopping \cup {settings.enabled}
  /\ publisher' = NoPublisher
  /\ UNCHANGED <<admin, running, push, storage, losses, crashes>>

EndApply ==
  /\ \E enabled \in stopping :
       /\ running' = enabled
       /\ stopping' = stopping \ {enabled}
  /\ UNCHANGED <<admin, applies, publisher, push, storage, losses, crashes>>

-----------------------------------------------------------------------------
(* Pushes (runStaticMirror, mirrorOnce). *)

KeepsMemory(memory, target) == memory # NoPublisher /\ ~memory.old /\ memory.target = target

\* A private page ends the push before it begins; settings are not consulted.
BeginPush(memory) ==
  /\ push = NoPush
  /\ ~private
  /\ publisher' = IF KeepsMemory(memory, settings.target) THEN memory
                  ELSE [at |-> "target", target |-> settings.target, known |-> FALSE, old |-> FALSE]
  /\ push' = [at |-> "building", target |-> settings.target]
  /\ UNCHANGED <<admin, schedule, storage, losses, crashes>>

\* While a push is in flight the runner's call returns that push.
IntervalElapses == running /\ BeginPush(publisher)

PushNow == settings.enabled /\ BeginPush(NoPublisher)

\* Planted bug: the page is not looked at again once the snapshot is built.
MayPublishBuilt == publisher # NoPublisher

MayPublish == publisher # NoPublisher /\ ~private

EndBuild ==
  /\ push.at = "building"
  /\ push' = IF MayPublish THEN [at |-> "files", target |-> push.target, known |-> publisher.known] ELSE NoPush
  /\ UNCHANGED <<admin, schedule, publisher, storage, losses, crashes>>

\* The publisher of a push is forgotten when settings are applied meanwhile.
Remembering(memory) == IF memory = NoPublisher THEN memory ELSE [memory EXCEPT !.known = TRUE]

UploadFiles ==
  /\ push.at = "files"
  /\ storage' = IF push.known THEN storage ELSE [storage EXCEPT ![push.target].files = "whole"]
  /\ push' = [push EXCEPT !.at = "snapshot", !.known = TRUE]
  /\ publisher' = Remembering(publisher)
  /\ UNCHANGED <<admin, schedule, losses, crashes>>

UploadSnapshot ==
  /\ push.at = "snapshot"
  /\ storage' = [storage EXCEPT ![push.target].snapshot = TRUE]
  /\ push' = NoPush
  /\ UNCHANGED <<admin, schedule, publisher, losses, crashes>>

\* Building or uploading fails; the failure is recorded and the push is over.
PushFails ==
  /\ push # NoPush
  /\ push' = NoPush
  /\ UNCHANGED <<admin, schedule, publisher, storage, losses, crashes>>

\* Planted bug: the memory is kept for as long as the settings are not saved.
NeverOld(memory) == FALSE

GrowsOld(memory) == memory # NoPublisher /\ ~memory.old

\* FULL_UPLOAD_EVERY_MS after a publisher was created.
MemoryGrowsOld ==
  /\ GrowsOld(publisher)
  /\ publisher' = [publisher EXCEPT !.old = TRUE]
  /\ UNCHANGED <<admin, schedule, push, storage, losses, crashes>>

-----------------------------------------------------------------------------
(* Outside the code. *)

\* A lifecycle rule, or an administrator who removes the copy.
LoseFiles(t) ==
  /\ losses < MaxLosses
  /\ losses' = losses + 1
  /\ storage[t].files = "whole"
  /\ storage' = [storage EXCEPT ![t] = [files |-> "lost", snapshot |-> FALSE]]
  /\ UNCHANGED <<admin, schedule, publisher, push, crashes>>

Restart ==
  /\ crashes < MaxCrashes
  /\ crashes' = crashes + 1
  /\ applies' = 1
  /\ stopping' = {}
  /\ running' = FALSE
  /\ publisher' = NoPublisher
  /\ push' = NoPush
  /\ UNCHANGED <<admin, storage, losses>>

Next ==
  \/ SaveSettings
  \/ SaveAccess
  \/ BeginApply
  \/ EndApply
  \/ IntervalElapses
  \/ PushNow
  \/ EndBuild
  \/ UploadFiles
  \/ UploadSnapshot
  \/ PushFails
  \/ MemoryGrowsOld
  \/ \E t \in Targets : LoseFiles(t)
  \/ Restart

Spec == Init /\ [][Next]_vars

\* The process takes its turns, the interval and the clock go on, and the
\* storage does not refuse for ever.  Nobody has to save or to push by hand.
Fairness ==
  /\ WF_vars(BeginApply)
  /\ WF_vars(EndApply)
  /\ WF_vars(IntervalElapses)
  /\ SF_vars(EndBuild)
  /\ SF_vars(UploadFiles)
  /\ SF_vars(UploadSnapshot)
  /\ WF_vars(MemoryGrowsOld)

FairSpec == Spec /\ Fairness

-----------------------------------------------------------------------------
\* When no apply is left, the schedule is what the last save asked for, however
\* the saves came (applyStaticMirror: "the last save wins").
LastSaveWins ==
  applies = 0 /\ stopping = {} => running = settings.enabled

\* What is remembered as uploaded was uploaded to that storage, also when the
\* target was changed under a push (publisher.fingerprint).
MemoryTruthful ==
  /\ publisher # NoPublisher /\ publisher.known => storage[publisher.target].files # "never"
  /\ push.at \in {"files", "snapshot"} /\ push.known => storage[push.target].files # "never"

\* No upload begins while the page is private, also when it was made private
\* while the snapshot was built (mirrorOnce looks again before it publishes).
NoUploadBeginsPrivate ==
  [][private => ~(push.at = "building" /\ push'.at = "files")]_vars

\* A storage that is to hold the copy and does not, or lost it, is filled
\* (the memory is dropped on every save and every few hours).
CopyIsRestored ==
  \A t \in Targets :
    settings = [enabled |-> TRUE, target |-> t] /\ storage[t].files # "whole"
      ~> settings # [enabled |-> TRUE, target |-> t] \/ storage[t].files = "whole"

\* What docs/static-fallback.md:140 says: "A private page is never uploaded".
NeverUploadedPrivate ==
  [][private => \A t \in Targets : storage'[t].snapshot => storage[t].snapshot]_vars
=============================================================================
