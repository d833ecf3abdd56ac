------------------------- MODULE StaticMirrorProofs -------------------------
(***************************************************************************)
(* Theorems of StaticMirror, for any storages and any number of saves,     *)
(* losses and restarts.  The inductive invariant adds to the properties:   *)
(* the one settings row that has been read but not applied is the last one *)
(* saved, unless another apply is due; and a push in flight and the memory *)
(* are of one storage.                                                     *)
(***************************************************************************)
EXTENDS StaticMirror, TLAPS

\* An apply that has read the settings is outdated only if another one is due.
LastRead == applies = 0 => \A enabled \in stopping : enabled = settings.enabled

\* The memory is only replaced between pushes; under one it is at most dropped.
OneStorage == push # NoPush /\ publisher # NoPublisher => push.target = publisher.target

IInv == TypeOK /\ LastRead /\ LastSaveWins /\ OneStorage /\ MemoryTruthful

USE StaticMirrorAssumption

\* A publisher is none, or has the fields of one.
LEMMA PublisherCases ==
  ASSUME NEW p \in Publishers, p # NoPublisher
  PROVE  /\ p.at = "target" /\ p.target \in Targets /\ p.known \in BOOLEAN /\ p.old \in BOOLEAN
         /\ p = [at |-> "target", target |-> p.target, known |-> p.known, old |-> p.old]
         /\ [p EXCEPT !.known = TRUE] = [at |-> "target", target |-> p.target, known |-> TRUE, old |-> p.old]
         /\ [p EXCEPT !.old = TRUE] = [at |-> "target", target |-> p.target, known |-> p.known, old |-> TRUE]
<1>1. p \in [at : {"target"}, target : Targets, known : BOOLEAN, old : BOOLEAN]
  BY DEF Publishers, NoPublisher
<1>2. p.at = "target" /\ p.target \in Targets /\ p.known \in BOOLEAN /\ p.old \in BOOLEAN
  BY <1>1
<1>3. p = [at |-> "target", target |-> p.target, known |-> p.known, old |-> p.old]
  BY <1>1
<1>4. [p EXCEPT !.known = TRUE] = [at |-> "target", target |-> p.target, known |-> TRUE, old |-> p.old]
  <2> DEFINE q == [p EXCEPT !.known = TRUE]
  <2>1. q \in [at : {"target"}, target : Targets, known : BOOLEAN, old : BOOLEAN]
    BY <1>1
  <2>2. q.target = p.target /\ q.known = TRUE /\ q.old = p.old
    BY <1>1
  <2>3. q = [at |-> "target", target |-> q.target, known |-> q.known, old |-> q.old]
    <3> HIDE DEF q
    <3> QED
      BY <2>1
  <2> QED
    BY <2>2, <2>3
<1>5. [p EXCEPT !.old = TRUE] = [at |-> "target", target |-> p.target, known |-> p.known, old |-> TRUE]
  <2> DEFINE q == [p EXCEPT !.old = TRUE]
  <2>1. q \in [at : {"target"}, target : Targets, known : BOOLEAN, old : BOOLEAN]
    BY <1>1
  <2>2. q.target = p.target /\ q.old = TRUE /\ q.known = p.known
    BY <1>1
  <2>3. q = [at |-> "target", target |-> q.target, known |-> q.known, old |-> q.old]
    <3> HIDE DEF q
    <3> QED
      BY <2>1
  <2> QED
    BY <2>2, <2>3
<1> QED
  BY <1>2, <1>3, <1>4, <1>5

LEMMA PushCases ==
  ASSUME NEW p \in Pushes
  PROVE  \/ p = NoPush /\ p.at = "idle"
         \/ p # NoPush /\ p.at = "building" /\ p.target \in Targets /\ p = [at |-> "building", target |-> p.target]
         \/ /\ p # NoPush /\ p.at \in {"files", "snapshot"} /\ p.target \in Targets /\ p.known \in BOOLEAN
            /\ p = [at |-> p.at, target |-> p.target, known |-> p.known]
BY DEF Pushes, NoPush

\* The invariant holds in the initial states.
LEMMA Initially == Init => IInv
<1> SUFFICES ASSUME Init PROVE IInv
  OBVIOUS
<1>1. TypeOK
  <2>1. storage \in [Targets -> Contents]
    BY DEF Init, Contents
  <2>2. publisher \in Publishers /\ push \in Pushes
    BY DEF Init, Publishers, Pushes
  <2>3. 0 \in 0 .. MaxSaves /\ 0 \in 0 .. MaxLosses /\ 0 \in 0 .. MaxCrashes
    OBVIOUS
  <2> QED
    BY <2>1, <2>2, <2>3 DEF Init, TypeOK
<1>2. LastRead /\ LastSaveWins
  BY DEF Init, LastRead, LastSaveWins
<1>3. OneStorage
  BY DEF Init, OneStorage
<1>4. MemoryTruthful
  BY DEF Init, MemoryTruthful, NoPush
<1> QED
  BY <1>1, <1>2, <1>3, <1>4 DEF IInv

\* Every step keeps the types.
LEMMA TypesKept == TypeOK /\ [Next]_vars => TypeOK'
<1> SUFFICES ASSUME TypeOK, [Next]_vars PROVE TypeOK'
  OBVIOUS
<1> USE DEF TypeOK
<1>1. CASE SaveSettings
  BY <1>1 DEF SaveSettings
<1>2. CASE SaveAccess
  BY <1>2 DEF SaveAccess, schedule
<1>3. CASE BeginApply
  <2>1. settings.enabled \in BOOLEAN
    BY DEF Settings
  <2>2. applies' \in Nat
    BY <1>3 DEF BeginApply, Turn
  <2> QED
    BY <1>3, <2>1, <2>2 DEF BeginApply, Publishers, admin
<1>4. CASE EndApply
  BY <1>4 DEF EndApply, admin
<1>5. CASE IntervalElapses \/ PushNow
  <2>1. PICK memory \in {publisher, NoPublisher} : BeginPush(memory)
    BY <1>5 DEF IntervalElapses, PushNow
  <2>2. settings.target \in Targets
    BY DEF Settings
  <2>3. memory \in Publishers
    BY <2>1 DEF Publishers
  <2>4. publisher' \in Publishers
    BY <2>1, <2>2, <2>3 DEF BeginPush, Publishers
  <2>5. push' \in Pushes
    BY <2>1, <2>2 DEF BeginPush, Pushes
  <2> QED
    BY <2>1, <2>4, <2>5 DEF BeginPush, admin, schedule
<1>6. CASE EndBuild
  <2>1. push' \in Pushes
    <3>1. CASE ~MayPublish
      BY <1>6, <3>1 DEF EndBuild, Pushes
    <3>2. CASE MayPublish
      <4>1. push.target \in Targets
        BY <1>6, PushCases DEF EndBuild
      <4>2. publisher.known \in BOOLEAN
        BY <3>2, PublisherCases DEF MayPublish
      <4> QED
        BY <1>6, <3>2, <4>1, <4>2 DEF EndBuild, Pushes
    <3> QED
      BY <3>1, <3>2
  <2> QED
    BY <1>6, <2>1 DEF EndBuild, admin, schedule
<1>7. CASE UploadFiles
  <2>1. push.target \in Targets /\ push.known \in BOOLEAN /\ push = [at |-> "files", target |-> push.target, known |-> push.known]
    BY <1>7, PushCases DEF UploadFiles
  <2>2. push' = [at |-> "snapshot", target |-> push.target, known |-> TRUE]
    BY <1>7, <2>1 DEF UploadFiles
  <2>3. push' \in Pushes
    BY <2>1, <2>2 DEF Pushes
  <2>4. publisher' \in Publishers
    <3>1. CASE publisher = NoPublisher
      BY <1>7, <3>1 DEF UploadFiles, Remembering
    <3>2. CASE publisher # NoPublisher
      <4>1. publisher' = [at |-> "target", target |-> publisher.target, known |-> TRUE, old |-> publisher.old]
        BY <1>7, <3>2, PublisherCases DEF UploadFiles, Remembering
      <4> QED
        BY <3>2, <4>1, PublisherCases DEF Publishers
    <3> QED
      BY <3>1, <3>2
  <2>5. storage' \in [Targets -> Contents]
    BY <1>7, <2>1 DEF UploadFiles, Contents
  <2> QED
    BY <1>7, <2>3, <2>4, <2>5 DEF UploadFiles, admin, schedule
<1>8. CASE UploadSnapshot
  <2>1. push.target \in Targets
    BY <1>8, PushCases DEF UploadSnapshot
  <2>2. storage' \in [Targets -> Contents]
    BY <1>8, <2>1 DEF UploadSnapshot, Contents
  <2> QED
    BY <1>8, <2>2 DEF UploadSnapshot, admin, schedule, Pushes
<1>9. CASE PushFails
  BY <1>9 DEF PushFails, Pushes, admin, schedule
<1>10. CASE MemoryGrowsOld
  <2>1. publisher' = [at |-> "target", target |-> publisher.target, known |-> publisher.known, old |-> TRUE]
    BY <1>10, PublisherCases DEF MemoryGrowsOld, GrowsOld
  <2>2. publisher' \in Publishers
    BY <1>10, <2>1, PublisherCases DEF MemoryGrowsOld, GrowsOld, Publishers
  <2> QED
    BY <1>10, <2>2 DEF MemoryGrowsOld, admin, schedule
<1>11. ASSUME NEW t \in Targets, LoseFiles(t) PROVE TypeOK'
  <2>1. storage' \in [Targets -> Contents]
    BY <1>11 DEF LoseFiles, Contents
  <2> QED
    BY <1>11, <2>1 DEF LoseFiles, admin, schedule
<1>12. CASE Restart
  <2>1. publisher' \in Publishers /\ push' \in Pushes
    BY <1>12 DEF Restart, Publishers, Pushes
  <2>2. crashes' \in 0 .. MaxCrashes
    BY <1>12 DEF Restart
  <2> QED
    BY <1>12, <2>1, <2>2 DEF Restart, admin
<1>13. CASE UNCHANGED vars
  BY <1>13 DEF vars, admin, schedule
<1> QED
  BY <1>1, <1>2, <1>3, <1>4, <1>5, <1>6, <1>7, <1>8, <1>9, <1>10, <1>11, <1>12, <1>13 DEF Next

\* Applies follow the saves: only they, a save and a restart touch the schedule.
LEMMA ScheduleKept == IInv /\ [Next]_vars => LastRead' /\ LastSaveWins'
<1> SUFFICES ASSUME IInv, [Next]_vars PROVE LastRead' /\ LastSaveWins'
  OBVIOUS
<1> USE DEF IInv, TypeOK, LastRead, LastSaveWins
<1>1. CASE SaveSettings
  BY <1>1 DEF SaveSettings
<1>2. CASE SaveAccess
  BY <1>2 DEF SaveAccess, schedule
<1>3. CASE BeginApply
  BY <1>3 DEF BeginApply, Turn, admin
<1>4. CASE EndApply
  BY <1>4 DEF EndApply, admin
<1>5. CASE Restart
  BY <1>5 DEF Restart, admin
<1>6. ASSUME UNCHANGED <<admin, schedule>> PROVE LastRead' /\ LastSaveWins'
  BY <1>6 DEF admin, schedule
<1>7. CASE IntervalElapses \/ PushNow
  BY <1>6, <1>7 DEF IntervalElapses, PushNow, BeginPush
<1>8. CASE EndBuild \/ UploadFiles \/ UploadSnapshot \/ PushFails \/ MemoryGrowsOld
  BY <1>6, <1>8 DEF EndBuild, UploadFiles, UploadSnapshot, PushFails, MemoryGrowsOld
<1>9. ASSUME NEW t \in Targets, LoseFiles(t) PROVE LastRead' /\ LastSaveWins'
  BY <1>6, <1>9 DEF LoseFiles
<1>10. CASE UNCHANGED vars
  BY <1>6, <1>10 DEF vars
<1> QED
  BY <1>1, <1>2, <1>3, <1>4, <1>5, <1>7, <1>8, <1>9, <1>10 DEF Next

\* A push begins with a memory of the storage it is for, and no step but the
\* begin of a push makes a new memory.
LEMMA OneStorageKept == IInv /\ [Next]_vars => OneStorage'
<1> SUFFICES ASSUME IInv, [Next]_vars PROVE OneStorage'
  OBVIOUS
<1> USE DEF IInv, TypeOK, OneStorage
<1>1. ASSUME UNCHANGED <<publisher, push>> PROVE OneStorage'
  BY <1>1
<1>2. CASE SaveSettings \/ SaveAccess \/ EndApply
  BY <1>1, <1>2 DEF SaveSettings, SaveAccess, EndApply
<1>3. CASE BeginApply
  BY <1>3 DEF BeginApply
<1>4. CASE IntervalElapses \/ PushNow
  <2>1. PICK memory \in {publisher, NoPublisher} : BeginPush(memory)
    BY <1>4 DEF IntervalElapses, PushNow
  <2>2. push'.target = settings.target
    BY <2>1 DEF BeginPush
  <2>3. publisher'.target = settings.target
    BY <2>1 DEF BeginPush, KeepsMemory
  <2> QED
    BY <2>2, <2>3
<1>5. CASE EndBuild
  <2>1. CASE MayPublish
    BY <1>5, <2>1, PushCases DEF EndBuild
  <2>2. CASE ~MayPublish
    BY <1>5, <2>2 DEF EndBuild
  <2> QED
    BY <2>1, <2>2
<1>6. CASE UploadFiles
  <2>1. push # NoPush /\ push'.target = push.target
    BY <1>6, PushCases DEF UploadFiles
  <2>2. CASE publisher = NoPublisher
    BY <1>6, <2>2 DEF UploadFiles, Remembering
  <2>3. CASE publisher # NoPublisher
    <3>1. publisher'.target = publisher.target
      BY <1>6, <2>3, PublisherCases DEF UploadFiles, Remembering
    <3> QED
      BY <2>1, <2>3, <3>1
  <2> QED
    BY <2>2, <2>3
<1>7. CASE UploadSnapshot \/ PushFails \/ Restart
  BY <1>7 DEF UploadSnapshot, PushFails, Restart
<1>8. CASE MemoryGrowsOld
  <2>1. publisher # NoPublisher /\ publisher'.target = publisher.target
    BY <1>8, PublisherCases DEF MemoryGrowsOld, GrowsOld
  <2> QED
    BY <1>8, <2>1 DEF MemoryGrowsOld
<1>9. ASSUME NEW t \in Targets, LoseFiles(t) PROVE OneStorage'
  BY <1>1, <1>9 DEF LoseFiles
<1>10. CASE UNCHANGED vars
  BY <1>1, <1>10 DEF vars
<1> QED
  BY <1>2, <1>3, <1>4, <1>5, <1>6, <1>7, <1>8, <1>9, <1>10 DEF Next

\* What a storage once held it held: files are uploaded or lost, never unmade.
LEMMA NeverNeverAgain ==
  ASSUME TypeOK, [Next]_vars, NEW t \in Targets, storage[t].files # "never"
  PROVE  storage'[t].files # "never"
<1> USE DEF TypeOK, Contents
<1>1. CASE UploadFiles
  BY <1>1, PushCases DEF UploadFiles
<1>2. CASE UploadSnapshot
  BY <1>2, PushCases DEF UploadSnapshot
<1>3. ASSUME NEW u \in Targets, LoseFiles(u) PROVE storage'[t].files # "never"
  BY <1>3 DEF LoseFiles
<1>4. CASE UNCHANGED storage
  BY <1>4
<1> QED
  BY <1>1, <1>2, <1>3, <1>4
  DEF Next, SaveSettings, SaveAccess, BeginApply, EndApply, IntervalElapses, PushNow, BeginPush, EndBuild,
      PushFails, MemoryGrowsOld, Restart, vars, admin

\* What is known of a storage is learnt by uploading to it.
LEMMA MemoryKept == IInv /\ [Next]_vars => MemoryTruthful'
<1> SUFFICES ASSUME IInv, [Next]_vars PROVE MemoryTruthful'
  OBVIOUS
<1> DEFINE Remembered(p) == p # NoPublisher /\ p.known
<1> DEFINE Knows(p) == p.at \in {"files", "snapshot"} /\ p.known
<1>1. SUFFICES /\ Remembered(publisher') => storage'[publisher'.target].files # "never"
               /\ Knows(push') => storage'[push'.target].files # "never"
  BY DEF MemoryTruthful
<1>2. /\ Remembered(publisher) => publisher.target \in Targets /\ storage[publisher.target].files # "never"
      /\ Knows(push) => push.target \in Targets /\ storage[push.target].files # "never"
  BY PublisherCases, PushCases DEF IInv, MemoryTruthful, TypeOK
<1>3. /\ Remembered(publisher) => storage'[publisher.target].files # "never"
      /\ Knows(push) => storage'[push.target].files # "never"
  BY <1>2, NeverNeverAgain DEF IInv
<1>4. CASE UNCHANGED <<publisher, push>>
  BY <1>3, <1>4
<1>5. CASE BeginApply
  BY <1>3, <1>5 DEF BeginApply
<1>6. CASE IntervalElapses \/ PushNow
  <2>1. PICK memory \in {publisher, NoPublisher} : BeginPush(memory)
    BY <1>6 DEF IntervalElapses, PushNow
  <2>2. ~Knows(push')
    BY <2>1 DEF BeginPush
  <2>3. Remembered(publisher') => Remembered(publisher) /\ publisher' = publisher
    BY <2>1 DEF BeginPush, KeepsMemory
  <2> QED
    BY <1>3, <2>2, <2>3
<1>7. CASE EndBuild
  <2>1. CASE ~MayPublish
    BY <1>3, <1>7, <2>1 DEF EndBuild, NoPush
  <2>2. CASE MayPublish
    <3>1. push # NoPush
      BY <1>7 DEF EndBuild, NoPush
    <3>2. push.target = publisher.target /\ publisher # NoPublisher
      BY <2>2, <3>1 DEF MayPublish, IInv, OneStorage
    <3>3. push' = [at |-> "files", target |-> publisher.target, known |-> publisher.known] /\ publisher' = publisher
      BY <1>7, <2>2, <3>2 DEF EndBuild
    <3>4. Knows(push') => Remembered(publisher) /\ push'.target = publisher.target
      BY <3>2, <3>3
    <3> QED
      BY <1>3, <3>3, <3>4
  <2> QED
    BY <2>1, <2>2
<1>8. CASE UploadFiles
  <2>1. /\ push # NoPush /\ push.target \in Targets /\ push.at = "files"
        /\ push'.target = push.target
    BY <1>8, PushCases DEF UploadFiles, IInv, TypeOK
  <2>2. storage'[push.target].files # "never"
    BY <1>3, <1>8, <2>1 DEF UploadFiles, IInv, TypeOK, Contents
  <2>3. Remembered(publisher') => publisher'.target = push.target
    <3>1. CASE publisher = NoPublisher
      BY <1>8, <3>1 DEF UploadFiles, Remembering
    <3>2. CASE publisher # NoPublisher
      BY <1>8, <2>1, <3>2, PublisherCases DEF UploadFiles, Remembering, IInv, TypeOK, OneStorage
    <3> QED
      BY <3>1, <3>2
  <2> QED
    BY <2>1, <2>2, <2>3
<1>9. CASE UploadSnapshot \/ PushFails
  BY <1>3, <1>9 DEF UploadSnapshot, PushFails, NoPush
<1>10. CASE MemoryGrowsOld
  <2>1. publisher # NoPublisher /\ publisher'.target = publisher.target /\ publisher'.known = publisher.known
    BY <1>10, PublisherCases DEF MemoryGrowsOld, GrowsOld, IInv, TypeOK
  <2> QED
    BY <1>3, <1>10, <2>1 DEF MemoryGrowsOld
<1>11. CASE Restart
  BY <1>11 DEF Restart, NoPush
<1> QED
  BY <1>4, <1>5, <1>6, <1>7, <1>8, <1>9, <1>10, <1>11
  DEF Next, SaveSettings, SaveAccess, EndApply, LoseFiles, vars

LEMMA Inductive == IInv /\ [Next]_vars => IInv'
BY TypesKept, ScheduleKept, OneStorageKept, MemoryKept DEF IInv

\* The invariant holds in every behaviour.
THEOREM Invariance == Spec => []IInv
<1>1. Init => IInv
  BY Initially
<1>2. IInv /\ [Next]_vars => IInv'
  BY Inductive
<1> QED
  BY <1>1, <1>2, PTL DEF Spec

\* The types of services/staticMirror.ts: one push at a time, of one storage,
\* and settings that always name a storage.
THEOREM Typing == Spec => []TypeOK
<1>1. IInv => TypeOK
  BY DEF IInv
<1> QED
  BY <1>1, Invariance, PTL

\* applyStaticMirror: "the last save wins", however many saves and restarts
\* came and however late their turns were.
THEOREM LastSave == Spec => []LastSaveWins
<1>1. IInv => LastSaveWins
  BY DEF IInv
<1> QED
  BY <1>1, Invariance, PTL

\* mirrorOnce never skips a file it did not upload to that very storage.
THEOREM Memory == Spec => []MemoryTruthful
<1>1. IInv => MemoryTruthful
  BY DEF IInv
<1> QED
  BY <1>1, Invariance, PTL

\* mirrorOnce looks at the page again after the snapshot is built: no upload
\* begins on a private page.
THEOREM PrivateBegins == Spec => NoUploadBeginsPrivate
<1>1. IInv /\ [Next]_vars => [private => ~(push.at = "building" /\ push'.at = "files")]_vars
  <2> SUFFICES ASSUME IInv, Next, private, push.at = "building", push'.at = "files" PROVE FALSE
    OBVIOUS
  <2>1. CASE EndBuild
    BY <2>1 DEF EndBuild, MayPublish, NoPush
  <2>2. CASE UNCHANGED push
    BY <2>2
  <2>3. push' # NoPush
    BY DEF NoPush
  <2>4. push # NoPush
    BY DEF NoPush
  <2> QED
    BY <2>1, <2>2, <2>3, <2>4
    DEF Next, SaveSettings, SaveAccess, BeginApply, EndApply, IntervalElapses, PushNow, BeginPush, UploadFiles,
        UploadSnapshot, PushFails, MemoryGrowsOld, LoseFiles, Restart
<1> QED
  BY <1>1, Invariance, PTL DEF Spec, NoUploadBeginsPrivate
=============================================================================
