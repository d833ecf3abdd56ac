---------------------------- MODULE CalendarProofs ----------------------------
(* The two components that count in dates.                                     *)
(*                                                                             *)
(* Type correctness of CertificateReminders, that each step of a certificate   *)
(* is told once, and that a read informs, for any endpoints, expiries, lead    *)
(* times, reminders and numbers of edits.                                      *)
(*                                                                             *)
(* That the search of MaintenanceWindows finds every occurrence and that       *)
(* ending one ends no other, for any lengths of a day and a week, any change   *)
(* of clocks, windows, and numbers of hours and edits.                         *)
EXTENDS CertificateReminders, MaintenanceWindows, WellFoundedInduction, TLAPS

\* A read that no change of the endpoint overtook has the row as it still is:
\* nothing but a check writes what is known of the certificate.
Aligned ==
  check # Idle /\ ~check.overtaken =>
    /\ check.monitor.url = row.url
    /\ check.monitor.expiresAt = row.expiresAt
    /\ check.monitor.warnedDays = row.warnedDays

\* While an overtaken read is out, nothing was told of the new endpoint.
NothingToldYet ==
  check # Idle /\ check.overtaken =>
    \A url \in Urls, cert \in Expiries, days \in Milestones : told[<<url, cert, days>>] = 0

\* What was told of the monitor's endpoint is on its row: the row knows that
\* certificate and a step at least as late, or a certificate that came after it
\* and that the endpoint presents or has replaced.
OnTheRow ==
  \A cert \in Expiries, days \in Milestones :
    told[<<row.url, cert, days>>] > 0 =>
      /\ cert <= row.expiresAt /\ row.expiresAt <= serves[row.url]
      /\ cert = row.expiresAt => row.warnedDays # None /\ row.warnedDays <= days

IInv == TypeOK /\ Aligned /\ NothingToldYet /\ OnTheRow /\ StepToldOnce

-----------------------------------------------------------------------------
\* A milestone is one that may be told.
LEMMA MilestoneType ==
  ASSUME NEW monitor \in Rows, NEW cert \in Expiries, NEW date \in Nat
  PROVE  Milestone(monitor, cert, date) \in Milestones \cup {None}
<1> DEFINE reached == {days \in {monitor.lead} \cup {r \in Reminders : r < monitor.lead} : cert - date <= days}
           smallest == {days \in reached : \A other \in reached : days <= other}
<1>1. monitor.lead \in Leads
  BY DEF Rows
<1>2. CASE monitor.lead = 0 \/ cert <= date
  BY <1>2 DEF Milestone
<1>3. CASE ~(monitor.lead = 0 \/ cert <= date)
  <2>1. Milestone(monitor, cert, date) = IF smallest = {} THEN None ELSE CHOOSE days \in smallest : TRUE
    BY <1>3 DEF Milestone, CertMilestone
  <2>2. smallest \subseteq Milestones
    BY <1>1, <1>3 DEF Milestones
  <2>3. smallest # {} => (CHOOSE days \in smallest : TRUE) \in smallest
    OBVIOUS
  <2> QED
    BY <2>1, <2>2, <2>3
<1> QED
  BY <1>2, <1>3

\* What a read leaves as certWarnedDays.
LEMMA WarnedType ==
  ASSUME NEW monitor \in Rows, NEW cert \in Expiries, NEW date \in Nat
  PROVE  /\ WarnedAfter(monitor, cert, date) \in Milestones \cup {None}
         /\ Warns(monitor, cert, date) => Milestone(monitor, cert, date) \in Milestones
<1>1. Milestone(monitor, cert, date) \in Milestones \cup {None}
  BY MilestoneType
<1>2. monitor.warnedDays \in Milestones \cup {None}
  BY DEF Rows
<1>3. PreviouslyWarned(monitor, cert) \in Milestones \cup {None}
  BY <1>2 DEF PreviouslyWarned
<1>4. Warns(monitor, cert, date) => Milestone(monitor, cert, date) # None
  BY DEF Warns
<1> QED
  BY <1>1, <1>3, <1>4 DEF WarnedAfter

LEMMA MilestonesAreNat == Milestones \subseteq Nat /\ None \notin Milestones /\ None \in Nat
  BY CertificateAssumption DEF Milestones, None

\* The initial states.
LEMMA InitIInv == Init => IInv
<1> SUFFICES ASSUME Init PROVE IInv
  OBVIOUS
<1>1. TypeOK
  <2>1. row \in Rows
    BY DEF Init, Rows
  <2>2. today \in 0 .. LastDay /\ edits \in 0 .. MaxEdits
    BY CertificateAssumption DEF Init
  <2> QED
    BY <2>1, <2>2 DEF Init, TypeOK, ToldNothing
<1>2. \A url \in Urls, cert \in Expiries, days \in Milestones : told[<<url, cert, days>>] = 0
  BY DEF Init, ToldNothing
<1>3. row.url \in Urls
  BY DEF Init
<1> QED
  BY <1>1, <1>2, <1>3 DEF Init, IInv, Aligned, NothingToldYet, OnTheRow, StepToldOnce, Idle

-----------------------------------------------------------------------------
\* The end of a read.  Its own case: the only step that tells anything.
LEMMA ReadSucceedsIInv == IInv /\ ReadSucceeds => IInv'
<1> SUFFICES ASSUME IInv, ReadSucceeds PROVE IInv'
  OBVIOUS
<1> DEFINE monitor == check.monitor
           cert == serves[check.monitor.url]
           milestone == Milestone(monitor, cert, check.now)
           warned == WarnedAfter(monitor, cert, check.now)
<1>1. /\ check \in [at : {"reading"}, monitor : Rows, now : 0 .. LastDay, overtaken : BOOLEAN]
      /\ monitor \in Rows /\ monitor.url \in Urls /\ check.now \in Nat /\ cert \in Expiries
      /\ check.overtaken \in BOOLEAN
  BY DEF ReadSucceeds, IInv, TypeOK, Rows
<1>2. cert \in Nat /\ cert # None /\ Expiries \subseteq Nat /\ Milestones \subseteq Nat /\ None \notin Milestones
  BY <1>1, MilestonesAreNat, CertificateAssumption
<1>3. warned \in Milestones \cup {None} /\ (Warns(monitor, cert, check.now) => milestone \in Milestones)
  BY <1>1, WarnedType
<1>4. row \in Rows /\ row.url \in Urls
  BY DEF IInv, TypeOK, Rows
<1>5. /\ row' = [row EXCEPT !.fresh = TRUE, !.expiresAt = cert, !.warnedDays = warned]
      /\ check' = Idle /\ UNCHANGED <<today, serves, edits>>
      /\ told' = IF Warns(monitor, cert, check.now)
                 THEN [told EXCEPT ![<<monitor.url, cert, milestone>>] = @ + 1] ELSE told
      /\ mixed' = (mixed \/ check.overtaken)
      /\ allClears' = IF GivesAllClear(monitor, cert) THEN allClears + 1 ELSE allClears
  BY DEF ReadSucceeds, world
<1>6. row' \in Rows /\ row'.url = row.url /\ row'.expiresAt = cert /\ row'.warnedDays = warned
  BY <1>1, <1>3, <1>4, <1>5 DEF Rows
<1>7. told \in [Urls \X Expiries \X Milestones -> Nat] /\ told' \in [Urls \X Expiries \X Milestones -> Nat]
  <2>1. told \in [Urls \X Expiries \X Milestones -> Nat]
    BY DEF IInv, TypeOK
  <2> QED
    BY <2>1, <1>1, <1>3, <1>5
<1>8. TypeOK'
  BY <1>5, <1>6, <1>7 DEF IInv, TypeOK
<1>9. Aligned' /\ NothingToldYet'
  BY <1>5 DEF Aligned, NothingToldYet
\* A warning is the first one of its step.
<1>10. Warns(monitor, cert, check.now) => told[<<monitor.url, cert, milestone>>] = 0
  <2> SUFFICES ASSUME Warns(monitor, cert, check.now), told[<<monitor.url, cert, milestone>>] # 0
               PROVE  FALSE
    OBVIOUS
  <2>1. milestone \in Milestones /\ told[<<monitor.url, cert, milestone>>] \in Nat
    BY <1>1, <1>3, <1>7
  <2>2. told[<<monitor.url, cert, milestone>>] > 0
    BY <2>1
  <2>3. check # Idle
    BY DEF ReadSucceeds
  <2>4. ~check.overtaken
    BY <2>2, <2>1, <2>3, <1>1 DEF IInv, NothingToldYet
  <2>5. monitor.url = row.url /\ monitor.expiresAt = row.expiresAt /\ monitor.warnedDays = row.warnedDays
    BY <2>3, <2>4 DEF IInv, Aligned
  <2>6. /\ cert <= row.expiresAt /\ row.expiresAt <= cert
        /\ cert = row.expiresAt => row.warnedDays # None /\ row.warnedDays <= milestone
    BY <2>1, <2>2, <2>5, <1>1 DEF IInv, OnTheRow
  <2>7. row.expiresAt \in Nat /\ row.warnedDays \in Milestones \cup {None}
    BY <1>4, <1>2 DEF Rows, None
  <2>8. row.expiresAt = cert
    BY <2>6, <2>7, <1>2
  <2>9. ~Renewed(monitor, cert)
    BY <2>8, <2>5, <1>2 DEF Renewed
  <2>10. PreviouslyWarned(monitor, cert) = row.warnedDays
    BY <2>9, <2>5 DEF PreviouslyWarned
  <2>11. milestone < row.warnedDays
    BY <2>10, <2>6, <2>8 DEF Warns
  <2>12. row.warnedDays \in Nat /\ milestone \in Nat /\ row.warnedDays <= milestone
    BY <2>6, <2>8, <2>7, <2>1, <1>2, MilestonesAreNat
  <2> HIDE DEF milestone
  <2> QED
    BY <2>11, <2>12
<1>11. StepToldOnce'
  <2> SUFFICES ASSUME NEW u \in Urls, NEW c \in Expiries, NEW d \in Milestones
               PROVE  told'[<<u, c, d>>] <= 1
    BY DEF StepToldOnce
  <2>1. told[<<u, c, d>>] <= 1 /\ told[<<u, c, d>>] \in Nat
    BY <1>7 DEF IInv, StepToldOnce
  <2>2. CASE ~Warns(monitor, cert, check.now)
    BY <2>1, <2>2, <1>5
  <2>3. CASE Warns(monitor, cert, check.now)
    <3>1. told'[<<u, c, d>>] = IF <<u, c, d>> = <<monitor.url, cert, milestone>>
                              THEN told[<<monitor.url, cert, milestone>>] + 1 ELSE told[<<u, c, d>>]
      BY <2>3, <1>5, <1>7
    <3> QED
      BY <3>1, <2>1, <2>3, <1>10
  <2> QED
    BY <2>2, <2>3
<1>12. OnTheRow'
  <2> SUFFICES ASSUME NEW c \in Expiries, NEW d \in Milestones, told'[<<row.url, c, d>>] > 0
               PROVE  /\ c <= cert /\ cert <= serves[row.url]
                      /\ c = cert => warned # None /\ warned <= d
    BY <1>5, <1>6 DEF OnTheRow
  <2>1. told[<<row.url, c, d>>] \in Nat /\ c \in Nat /\ d \in Nat /\ serves[row.url] \in Nat
    BY <1>2, <1>4, <1>7 DEF IInv, TypeOK
  \* The read was of the endpoint the monitor has.
  <2>2. monitor.url = row.url
    <3>1. CASE check.overtaken
      <4>1. told[<<row.url, c, d>>] = 0
        BY <3>1, <1>4 DEF IInv, NothingToldYet, ReadSucceeds
      <4>2. Warns(monitor, cert, check.now)
        BY <4>1, <1>5
      <4>3. <<row.url, c, d>> = <<monitor.url, cert, milestone>>
        BY <4>1, <4>2, <1>5, <1>7, <1>4
      <4> QED
        BY <4>3
    <3>2. CASE ~check.overtaken
      BY <3>2 DEF IInv, Aligned, ReadSucceeds
    <3> QED
      BY <3>1, <3>2, <1>1
  <2>3. CASE told[<<row.url, c, d>>] > 0
    \* Told before: then the read was not overtaken, and it continues the row.
    <3>1. ~check.overtaken
      BY <2>3, <1>4, <1>1 DEF IInv, NothingToldYet, ReadSucceeds
    <3>2. monitor.expiresAt = row.expiresAt /\ monitor.warnedDays = row.warnedDays
      BY <3>1 DEF IInv, Aligned, ReadSucceeds
    <3>3. /\ c <= row.expiresAt /\ row.expiresAt <= cert
          /\ c = row.expiresAt => row.warnedDays # None /\ row.warnedDays <= d
      BY <2>3, <2>2 DEF IInv, OnTheRow
    <3>4. row.expiresAt \in Nat /\ row.warnedDays \in Nat
      BY <1>4, <1>2, MilestonesAreNat DEF Rows, None
    <3>5. c <= cert /\ cert <= serves[row.url]
      BY <3>3, <3>4, <2>1, <2>2, <1>2
    <3>6. ASSUME c = cert PROVE warned # None /\ warned <= d
      <4>1. row.expiresAt = cert /\ row.warnedDays # None /\ row.warnedDays <= d
        BY <3>6, <3>3, <3>4, <1>2
      <4>2. ~Renewed(monitor, cert)
        BY <4>1, <3>2, <1>2 DEF Renewed
      <4>3. PreviouslyWarned(monitor, cert) = row.warnedDays
        BY <4>2, <3>2 DEF PreviouslyWarned
      <4>4. CASE Warns(monitor, cert, check.now)
        <5>1. warned = milestone /\ milestone # None /\ milestone < row.warnedDays /\ milestone \in Nat
          BY <4>4, <4>3, <4>1, <1>3, <1>2 DEF Warns, WarnedAfter
        <5> QED
          BY <5>1, <4>1, <3>4, <2>1
      <4>5. CASE ~Warns(monitor, cert, check.now)
        BY <4>5, <4>3, <4>1 DEF WarnedAfter
      <4> QED
        BY <4>4, <4>5
    <3> QED
      BY <3>5, <3>6
  <2>4. CASE told[<<row.url, c, d>>] = 0
    \* Told by this read.
    <3>1. Warns(monitor, cert, check.now)
      BY <2>4, <1>5
    <3>2. <<row.url, c, d>> = <<monitor.url, cert, milestone>>
      BY <2>4, <3>1, <1>5, <1>7, <1>4
    <3>3. warned = milestone /\ milestone # None
      BY <3>1 DEF WarnedAfter, Warns
    <3> QED
      BY <3>2, <3>3, <2>1, <2>2
  <2> QED
    BY <2>1, <2>3, <2>4
<1> QED
  BY <1>8, <1>9, <1>11, <1>12 DEF IInv

\* A change of the configuration.
LEMMA PatchConfigIInv ==
  ASSUME NEW url \in Urls, NEW verified \in BOOLEAN, NEW lead \in Leads,
         IInv, PatchConfig(url, verified, lead)
  PROVE  IInv'
<1> DEFINE entry == [row EXCEPT !.url = url, !.verified = verified, !.lead = lead]
<1>1. row \in Rows /\ entry \in Rows /\ None \in Expiries \cup {None}
  BY DEF IInv, TypeOK, Rows
<1>2. edits' \in 0 .. MaxEdits
  BY CertificateAssumption DEF IInv, TypeOK, PatchConfig
<1>3. CASE url = row.url /\ verified = row.verified
  <2>1. row' = [entry EXCEPT !.fresh = FALSE]
    BY <1>3 DEF PatchConfig, CertResetsFor
  <2>2. row' \in Rows /\ row'.url = row.url /\ row'.expiresAt = row.expiresAt /\ row'.warnedDays = row.warnedDays
    BY <1>1, <1>3, <2>1 DEF Rows
  <2>3. UNCHANGED <<told, mixed, check, today, serves, allClears>>
    BY <1>3 DEF PatchConfig, world
  <2>4. TypeOK'
    BY <2>2, <2>3, <1>2 DEF IInv, TypeOK
  <2> QED
    BY <2>2, <2>3, <2>4 DEF IInv, Aligned, NothingToldYet, OnTheRow, StepToldOnce
<1>4. CASE ~(url = row.url /\ verified = row.verified)
  <2>1. row' = [entry EXCEPT !.fresh = FALSE, !.expiresAt = None, !.warnedDays = None]
    BY <1>4 DEF PatchConfig, CertResetsFor
  <2>2. row' \in Rows /\ row'.url = url
    BY <1>1, <2>1 DEF Rows
  <2>3. /\ told' = ToldNothing /\ mixed' = FALSE /\ UNCHANGED <<today, serves, allClears>>
        /\ check' = IF check = Idle THEN Idle ELSE [check EXCEPT !.overtaken = TRUE]
    BY <1>4 DEF PatchConfig, world
  <2>4. \A u \in Urls, c \in Expiries, d \in Milestones : told'[<<u, c, d>>] = 0
    BY <2>3 DEF ToldNothing
  <2>5. check' \in {Idle} \cup [at : {"reading"}, monitor : Rows, now : 0 .. LastDay, overtaken : BOOLEAN]
        /\ (check' # Idle => check'.overtaken)
    BY <2>3 DEF IInv, TypeOK, Idle
  <2>6. TypeOK'
    BY <2>2, <2>3, <2>5, <1>2 DEF IInv, TypeOK, ToldNothing
  <2> QED
    BY <2>2, <2>4, <2>5, <2>6 DEF IInv, Aligned, NothingToldYet, OnTheRow, StepToldOnce
<1> QED
  BY <1>3, <1>4

\* Every step.
LEMMA NextIInv == IInv /\ [Next]_vars => IInv'
<1> SUFFICES ASSUME IInv, [Next]_vars PROVE IInv'
  OBVIOUS
<1>1. CASE BeginRead
  <2>1. row \in Rows /\ today \in 0 .. LastDay
    BY DEF IInv, TypeOK
  <2>2. /\ check' = [at |-> "reading", monitor |-> row, now |-> today, overtaken |-> FALSE]
        /\ UNCHANGED <<today, serves, row, told, allClears, mixed, edits>>
    BY <1>1 DEF BeginRead, world, history
  <2>3. TypeOK'
    BY <2>1, <2>2 DEF IInv, TypeOK
  <2> QED
    BY <2>2, <2>3 DEF IInv, Aligned, NothingToldYet, OnTheRow, StepToldOnce
<1>2. CASE ReadFails
  <2>1. /\ row' = [row EXCEPT !.fresh = TRUE] /\ check' = Idle
        /\ UNCHANGED <<today, serves, told, allClears, mixed, edits>>
    BY <1>2 DEF ReadFails, world, history
  <2>2. row' \in Rows /\ row'.url = row.url /\ row'.expiresAt = row.expiresAt /\ row'.warnedDays = row.warnedDays
    BY <2>1 DEF IInv, TypeOK, Rows
  <2>3. TypeOK'
    BY <2>1, <2>2 DEF IInv, TypeOK
  <2> QED
    BY <2>1, <2>2, <2>3 DEF IInv, Aligned, NothingToldYet, OnTheRow, StepToldOnce
<1>3. CASE ReadSucceeds
  BY <1>3, ReadSucceedsIInv
<1>4. CASE \E url \in Urls, verified \in BOOLEAN, lead \in Leads : PatchConfig(url, verified, lead)
  BY <1>4, PatchConfigIInv
<1>5. CASE IntervalElapses
  <2>1. row' = [row EXCEPT !.fresh = FALSE] /\ UNCHANGED <<today, serves, check, told, allClears, mixed, edits>>
    BY <1>5 DEF IntervalElapses, world, history
  <2>2. row' \in Rows /\ row'.url = row.url /\ row'.expiresAt = row.expiresAt /\ row'.warnedDays = row.warnedDays
    BY <2>1 DEF IInv, TypeOK, Rows
  <2>3. TypeOK'
    BY <2>1, <2>2 DEF IInv, TypeOK
  <2> QED
    BY <2>1, <2>2, <2>3 DEF IInv, Aligned, NothingToldYet, OnTheRow, StepToldOnce
<1>6. CASE DayPasses
  <2>1. today' \in 0 .. LastDay
    BY <1>6, CertificateAssumption DEF DayPasses, IInv, TypeOK
  <2> QED
    BY <1>6, <2>1 DEF DayPasses, history, IInv, TypeOK, Aligned, NothingToldYet, OnTheRow, StepToldOnce
<1>7. CASE \E url \in Urls, expiresAt \in Expiries : Renew(url, expiresAt)
  <2>1. PICK url \in Urls, expiresAt \in Expiries : Renew(url, expiresAt)
    BY <1>7
  <2>2. /\ serves' = [serves EXCEPT ![url] = expiresAt] /\ expiresAt > serves[url]
        /\ UNCHANGED <<today, row, check, told, allClears, mixed, edits>>
    BY <2>1 DEF Renew, history
  <2>3. serves \in [Urls -> Expiries] /\ serves' \in [Urls -> Expiries] /\ row.url \in Urls
    BY <2>2 DEF IInv, TypeOK, Rows
  <2>4. TypeOK'
    BY <2>2, <2>3 DEF IInv, TypeOK
  <2>5. serves[row.url] \in Nat /\ serves'[row.url] \in Nat /\ serves[row.url] <= serves'[row.url]
    <3>1. serves[row.url] \in Nat /\ expiresAt \in Nat
      BY <2>3, CertificateAssumption
    <3>2. serves'[row.url] = IF row.url = url THEN expiresAt ELSE serves[row.url]
      BY <2>2, <2>3
    <3> QED
      BY <2>2, <3>1, <3>2
  <2>6. row.expiresAt \in Nat
    <3>1. row.expiresAt \in Expiries \cup {None}
      BY DEF IInv, TypeOK, Rows
    <3> QED
      BY <3>1, CertificateAssumption, MilestonesAreNat
  <2>7. OnTheRow'
    BY <2>2, <2>5, <2>6 DEF IInv, OnTheRow
  <2> QED
    BY <2>2, <2>4, <2>7 DEF IInv, Aligned, NothingToldYet, StepToldOnce
<1>8. CASE UNCHANGED vars
  BY <1>8 DEF vars, world, history, IInv, TypeOK, Aligned, NothingToldYet, OnTheRow, StepToldOnce
<1> QED
  BY <1>1, <1>2, <1>3, <1>4, <1>5, <1>6, <1>7, <1>8 DEF Next

\* The inductive invariant holds in every state.
THEOREM Invariance == Spec => []IInv
  BY InitIInv, NextIInv, PTL DEF Spec

\* TypeOK: every variable keeps its type.
THEOREM Typing == Spec => []TypeOK
<1>1. IInv => TypeOK
  BY DEF IInv
<1> QED
  BY <1>1, Invariance, PTL

\* StepToldOnce: no interleaving of reads, edits of the endpoint or the warning
\* and renewals tells a step of a certificate twice.
THEOREM ToldOnce == Spec => []StepToldOnce
<1>1. IInv => StepToldOnce
  BY DEF IInv
<1> QED
  BY <1>1, Invariance, PTL

-----------------------------------------------------------------------------
(* Nobody is left uninformed.                                              *)

\* The converse of OnTheRow: a warning on the row was sent for the certificate
\* on the row, as long as no overtaken read has written there.
WarningsAreTold ==
  ~mixed /\ row.warnedDays # None =>
    row.expiresAt # None /\ told[<<row.url, row.expiresAt, row.warnedDays>>] > 0

\* A read that is not overtaken and that has not found a new certificate
\* continues the warnings on the row, and the row's certificate is the one it read.
LEMMA ReadContinuesRow ==
  ASSUME IInv, WarningsAreTold, ReadSucceeds, ~mixed'
  PROVE  /\ ~mixed /\ check.monitor.url = row.url
         /\ check.monitor.expiresAt = row.expiresAt /\ check.monitor.warnedDays = row.warnedDays
         /\ row \in Rows /\ check.monitor \in Rows /\ check.now \in Nat /\ serves[row.url] \in Expiries
         /\ LET previous == PreviouslyWarned(check.monitor, serves[row.url])
            IN previous # None =>
                 /\ previous \in Milestones /\ previous = row.warnedDays
                 /\ told[<<row.url, serves[row.url], previous>>] > 0
<1> DEFINE cert == serves[row.url]
           previous == PreviouslyWarned(check.monitor, cert)
<1>1. check \in [at : {"reading"}, monitor : Rows, now : 0 .. LastDay, overtaken : BOOLEAN] /\ check # Idle
  BY DEF ReadSucceeds, IInv, TypeOK
<1>2. mixed' = (mixed \/ check.overtaken)
  BY DEF ReadSucceeds
<1>3. ~mixed /\ ~check.overtaken
  BY <1>1, <1>2 DEF IInv, TypeOK
<1>4. /\ check.monitor.url = row.url
      /\ check.monitor.expiresAt = row.expiresAt /\ check.monitor.warnedDays = row.warnedDays
  BY <1>1, <1>3 DEF IInv, Aligned
<1>5. row \in Rows /\ check.monitor \in Rows /\ check.now \in Nat /\ row.url \in Urls /\ cert \in Expiries
  BY <1>1 DEF IInv, TypeOK, Rows
<1>6. ASSUME previous # None
      PROVE  /\ previous \in Milestones /\ previous = row.warnedDays
             /\ told[<<row.url, cert, previous>>] > 0
  <2>1. ~Renewed(check.monitor, cert) /\ previous = row.warnedDays
    BY <1>4, <1>6 DEF PreviouslyWarned
  <2>2. previous \in Milestones
    BY <1>5, <1>6, <2>1 DEF Rows
  <2>3. row.expiresAt # None /\ told[<<row.url, row.expiresAt, previous>>] > 0
    BY <1>3, <1>6, <2>1 DEF WarningsAreTold
  <2>4. row.expiresAt \in Expiries /\ row.expiresAt \in Nat /\ cert \in Nat
    BY <1>5, <2>3, CertificateAssumption DEF Rows
  <2>5. row.expiresAt <= cert
    BY <1>5, <2>2, <2>3, <2>4 DEF IInv, OnTheRow
  <2>6. ~(cert > row.expiresAt)
    BY <1>4, <2>1, <2>3 DEF Renewed
  <2>7. row.expiresAt = cert
    BY <2>4, <2>5, <2>6
  <2> QED
    BY <2>1, <2>2, <2>3, <2>7
<1> QED
  BY <1>3, <1>4, <1>5, <1>6

\* A step of a read that warns is told; otherwise nothing is told.
LEMMA ReadTells ==
  ASSUME IInv, WarningsAreTold, ReadSucceeds, ~mixed'
  PROVE  LET cert == serves[row.url]
             monitor == check.monitor
         IN IF Warns(monitor, cert, check.now)
            THEN /\ Milestone(monitor, cert, check.now) \in Milestones
                 /\ told'[<<row.url, cert, Milestone(monitor, cert, check.now)>>] > 0
            ELSE told' = told
<1> DEFINE cert == serves[row.url]
           monitor == check.monitor
           milestone == Milestone(monitor, cert, check.now)
<1>1. monitor.url = row.url /\ monitor \in Rows /\ check.now \in Nat /\ cert \in Expiries /\ row.url \in Urls
  BY ReadContinuesRow DEF Rows
<1>2. told' = IF Warns(monitor, cert, check.now)
              THEN [told EXCEPT ![<<row.url, cert, milestone>>] = @ + 1] ELSE told
  BY <1>1 DEF ReadSucceeds
<1>3. CASE Warns(monitor, cert, check.now)
  <2>1. milestone \in Milestones
    BY <1>1, <1>3, WarnedType
  <2>2. told \in [Urls \X Expiries \X Milestones -> Nat]
    BY DEF IInv, TypeOK
  <2> HIDE DEF milestone, cert
  <2>3. told'[<<row.url, cert, milestone>>] = told[<<row.url, cert, milestone>>] + 1
        /\ told[<<row.url, cert, milestone>>] \in Nat
    BY <1>1, <1>2, <1>3, <2>1, <2>2
  <2>4. told'[<<row.url, cert, milestone>>] > 0
    BY <2>3
  <2> QED
    BY <1>3, <2>1, <2>4 DEF milestone, cert
<1>4. CASE ~Warns(monitor, cert, check.now)
  BY <1>2, <1>4
<1> QED
  BY <1>3, <1>4

LEMMA WarningsNext == IInv /\ WarningsAreTold /\ [Next]_vars => WarningsAreTold'
<1> SUFFICES ASSUME IInv, WarningsAreTold, [Next]_vars
             PROVE  WarningsAreTold'
  OBVIOUS
<1>1. CASE ReadSucceeds
  <2> SUFFICES ASSUME ~mixed', row'.warnedDays # None
               PROVE  row'.expiresAt # None /\ told'[<<row'.url, row'.expiresAt, row'.warnedDays>>] > 0
    BY DEF WarningsAreTold
  <2> DEFINE cert == serves[row.url]
             monitor == check.monitor
  <2>1. /\ monitor.url = row.url /\ row \in Rows /\ cert \in Expiries
        /\ LET previous == PreviouslyWarned(monitor, cert)
           IN previous # None => told[<<row.url, cert, previous>>] > 0
    BY <1>1, ReadContinuesRow
  <2>2. row'.url = row.url /\ row'.expiresAt = cert /\ row'.warnedDays = WarnedAfter(monitor, cert, check.now)
    BY <1>1, <2>1 DEF ReadSucceeds, Rows
  <2>3. cert # None
    BY <2>1, CertificateAssumption
  <2>4. CASE Warns(monitor, cert, check.now)
    <3>1. told'[<<row.url, cert, Milestone(monitor, cert, check.now)>>] > 0
      BY <1>1, <2>4, ReadTells
    <3> QED
      BY <2>2, <2>3, <2>4, <3>1 DEF WarnedAfter
  <2>5. CASE ~Warns(monitor, cert, check.now)
    <3>1. told' = told
      BY <1>1, <2>5, ReadTells
    <3>2. row'.warnedDays = PreviouslyWarned(monitor, cert)
      BY <2>2, <2>5 DEF WarnedAfter
    <3> QED
      BY <2>1, <2>2, <2>3, <3>1, <3>2
  <2> QED
    BY <2>4, <2>5
<1>2. ASSUME NEW url \in Urls, NEW verified \in BOOLEAN, NEW lead \in Leads, PatchConfig(url, verified, lead)
      PROVE  WarningsAreTold'
  <2>1. CASE url = row.url /\ verified = row.verified
    <3>1. /\ row' = [[row EXCEPT !.url = url, !.verified = verified, !.lead = lead] EXCEPT !.fresh = FALSE]
          /\ told' = told /\ mixed' = mixed
      BY <1>2, <2>1 DEF PatchConfig, CertResetsFor
    <3>2. row'.url = row.url /\ row'.expiresAt = row.expiresAt /\ row'.warnedDays = row.warnedDays
      BY <2>1, <3>1 DEF IInv, TypeOK, Rows
    <3> QED
      BY <3>1, <3>2 DEF WarningsAreTold
  <2>2. CASE ~(url = row.url /\ verified = row.verified)
    <3>1. row'.warnedDays = None
      BY <1>2, <2>2 DEF PatchConfig, CertResetsFor, IInv, TypeOK, Rows
    <3> QED
      BY <3>1 DEF WarningsAreTold
  <2> QED
    BY <2>1, <2>2
<1>3. CASE ReadFails \/ IntervalElapses
  <2>1. /\ row' = [row EXCEPT !.fresh = TRUE] \/ row' = [row EXCEPT !.fresh = FALSE]
        /\ told' = told /\ mixed' = mixed
    BY <1>3 DEF ReadFails, IntervalElapses, history
  <2>2. row'.url = row.url /\ row'.expiresAt = row.expiresAt /\ row'.warnedDays = row.warnedDays
    BY <2>1 DEF IInv, TypeOK, Rows
  <2> QED
    BY <2>1, <2>2 DEF WarningsAreTold
<1>4. CASE BeginRead \/ DayPasses \/ (\E url \in Urls, expiresAt \in Expiries : Renew(url, expiresAt)) \/ UNCHANGED vars
  BY <1>4 DEF BeginRead, DayPasses, Renew, vars, history, WarningsAreTold
<1> QED
  BY <1>1, <1>2, <1>3, <1>4 DEF Next

LEMMA WarningsInvariance == Spec => []WarningsAreTold
<1>1. Init => WarningsAreTold
  BY DEF Init, WarningsAreTold
<1> QED
  BY <1>1, WarningsNext, Invariance, PTL DEF Spec

\* ReadInforms: a read that nothing overtakes leaves a certificate inside the
\* window warned of at its nearest step or a later one, and announces a renewal
\* exactly when the certificate before was warned of.
THEOREM Informing == Spec => ReadInforms
<1> DEFINE step == Milestone(check.monitor, serves[check.monitor.url], check.now)
           Warned == step # None =>
             \E days \in Milestones :
               days <= step /\ told'[<<check.monitor.url, serves[check.monitor.url], days>>] > 0
           Announced == check.monitor.lead # 0 =>
             (allClears' > allClears <=>
                /\ check.monitor.expiresAt # None /\ serves[check.monitor.url] > check.monitor.expiresAt
                /\ WarnedOf(check.monitor.url, check.monitor.expiresAt))
<1>1. ASSUME IInv, WarningsAreTold, ReadSucceeds, ~mixed'
      PROVE  Warned /\ Announced
  <2> DEFINE cert == serves[row.url]
             monitor == check.monitor
             previous == PreviouslyWarned(monitor, cert)
  <2>1. /\ ~mixed /\ monitor.url = row.url
        /\ monitor.expiresAt = row.expiresAt /\ monitor.warnedDays = row.warnedDays
        /\ row \in Rows /\ monitor \in Rows /\ check.now \in Nat /\ cert \in Expiries
        /\ previous # None => previous \in Milestones /\ told[<<row.url, cert, previous>>] > 0
    BY <1>1, ReadContinuesRow
  <2>2. Warned
    <3>1. CASE Warns(monitor, cert, check.now)
      <4>1. /\ Milestone(monitor, cert, check.now) \in Milestones
            /\ told'[<<row.url, cert, Milestone(monitor, cert, check.now)>>] > 0
        BY <1>1, <3>1, ReadTells
      <4>2. step = Milestone(monitor, cert, check.now)
        BY <2>1
      <4> HIDE DEF step
      <4>3. step \in Milestones
        BY <4>1, <4>2
      <4>4. step <= step
        BY <4>3, MilestonesAreNat
      <4> QED
        BY <2>1, <4>1, <4>2, <4>3, <4>4
    <3>2. CASE ~Warns(monitor, cert, check.now)
      <4>1. told' = told
        BY <1>1, <3>2, ReadTells
      <4>2. ASSUME step # None
            PROVE  previous # None /\ ~(step < previous) /\ step \in Nat /\ previous \in Nat
        <5>1. step = Milestone(monitor, cert, check.now) /\ step \in Nat
          BY <2>1, MilestoneType, MilestonesAreNat
        <5>2. previous # None /\ ~(step < previous)
          BY <3>2, <4>2, <5>1 DEF Warns
        <5> QED
          BY <2>1, <5>1, <5>2, MilestonesAreNat
      <4> HIDE DEF step, previous
      <4>3. step # None => previous <= step
        BY <4>2
      <4> QED
        BY <2>1, <4>1, <4>2, <4>3 DEF step
    <3> QED
      BY <3>1, <3>2
  <2>3. Announced
    <3>1. allClears' > allClears <=> GivesAllClear(monitor, cert)
      BY <1>1, <2>1 DEF ReadSucceeds, IInv, TypeOK
    <3>2. ASSUME row.expiresAt # None
          PROVE  WarnedOf(row.url, row.expiresAt) <=> row.warnedDays # None
      <4>1. row.url \in Urls /\ row.expiresAt \in Expiries /\ row.warnedDays \in Milestones \cup {None}
        BY <2>1, <3>2 DEF Rows
      <4>2. WarnedOf(row.url, row.expiresAt) => row.warnedDays # None
        BY <1>1, <4>1 DEF WarnedOf, IInv, OnTheRow
      <4>3. row.warnedDays # None => WarnedOf(row.url, row.expiresAt)
        BY <1>1, <2>1, <4>1 DEF WarnedOf, WarningsAreTold
      <4> QED
        BY <4>2, <4>3
    <3>3. ASSUME monitor.lead # 0
          PROVE  GivesAllClear(monitor, cert) <=>
                   row.expiresAt # None /\ cert > row.expiresAt /\ WarnedOf(row.url, row.expiresAt)
      BY <2>1, <3>2, <3>3 DEF GivesAllClear, Renewed
    <3> QED
      BY <2>1, <3>1, <3>3
  <2> QED
    BY <2>2, <2>3
<1>2. IInv /\ WarningsAreTold /\ [Next]_vars =>
        [ReadSucceeds /\ ~mixed' =>
           LET monitor == check.monitor
               cert == serves[monitor.url]
               nearest == Milestone(monitor, cert, check.now) IN
           /\ nearest # None => \E days \in Milestones : days <= nearest /\ told'[<<monitor.url, cert, days>>] > 0
           /\ monitor.lead # 0 =>
                (allClears' > allClears <=>
                   monitor.expiresAt # None /\ cert > monitor.expiresAt /\ WarnedOf(monitor.url, monitor.expiresAt))]_vars
  BY <1>1
<1> QED
  BY <1>2, Invariance, WarningsInvariance, PTL DEF ReadInforms, Spec

-----------------------------------------------------------------------------
(* Maintenance windows.                                                    *)

\* The timezone is one of those that there are.
Sound == clocks \in Clocks

\* What the clocks read, counted in hours, and the first hour of a date.
Wall(t) == t + Offset(t)
Midnight(day) == day * HoursPerDay

\* What the assumption says of the constants, in numbers.
LEMMA Constants ==
  ASSUME Sound
  PROVE  /\ HoursPerDay \in Nat /\ HoursPerDay > 1
         /\ DaysPerWeek \in Nat /\ DaysPerWeek > 0
         /\ clocks.at \in Nat /\ clocks.before \in Int /\ clocks.after \in Int
         /\ clocks.after = clocks.before + 1 \/ clocks.after = clocks.before - 1
         /\ clocks.before >= 0 /\ clocks.after > clocks.before => (clocks.at + clocks.after) % HoursPerDay # 0
BY MaintenanceAssumption DEF Sound, Calendars, OverMidnight

\* The offset is the one before the change of clocks or the one after it.
LEMMA Offsets ==
  ASSUME Sound, NEW t \in Int
  PROVE  /\ Offset(t) \in {clocks.before, clocks.after} /\ Offset(t) \in Int
         /\ t < clocks.at => Offset(t) = clocks.before
         /\ t >= clocks.at => Offset(t) = clocks.after
BY Constants DEF Offset

\* Division by a positive number.
LEMMA Quotient ==
  ASSUME NEW x \in Int, NEW n \in Nat, n > 0
  PROVE  x \div n \in Int /\ x % n \in 0 .. n - 1 /\ x = (x \div n) * n + (x % n)
OBVIOUS

\* A week later is the same day of the week.
LEMMA OneQuotient ==
  ASSUME NEW n \in Nat, n > 0, NEW q \in Int, NEW r \in 0 .. n - 1, NEW p \in Int, NEW s \in 0 .. n - 1,
         q * n + r = p * n + s
  PROVE  q = p /\ r = s
<1>1. q * n \in Int /\ p * n \in Int
  OBVIOUS
<1>2. ASSUME q < p PROVE FALSE
  <2>1. q * n + n <= p * n
    BY <1>2
  <2> QED
    BY <1>1, <2>1
<1>3. ASSUME p < q PROVE FALSE
  <2>1. p * n + n <= q * n
    BY <1>3
  <2> QED
    BY <1>1, <2>1
<1>4. q = p
  BY <1>2, <1>3
<1> QED
  BY <1>1, <1>4

\* Sets of natural numbers have a least one, and bounded ones a greatest.
LEMMA LeastExists ==
  ASSUME NEW S \in SUBSET Nat, S # {}
  PROVE  Least(S) \in S /\ \A x \in S : Least(S) <= x
<1> DEFINE smaller == OpToRel(<, Nat)
<1>1. \A x \in Nat, y \in Nat : y < x => <<y, x>> \in smaller
  BY Zenon DEF OpToRel
<1>2. IsWellFoundedOn(smaller, Nat)
  BY NatLessThanWellFounded
<1> HIDE DEF smaller
<1>3. \E x \in S : \A y \in S : ~(<<y, x>> \in smaller)
  BY <1>2, WFMin
<1>4. \E x \in S : \A y \in S : x <= y
  <2>1. PICK x \in S : \A y \in S : ~(<<y, x>> \in smaller)
    BY <1>3
  <2>2. ASSUME NEW y \in S PROVE x <= y
    <3>1. ~(<<y, x>> \in smaller)
      BY <2>1
    <3>2. ~(y < x)
      BY <1>1, <3>1, Zenon
    <3> QED
      BY <3>2
  <2> QED
    BY <2>2
<1> QED
  BY <1>4 DEF Least

\* The same, counted down from the bound.
LEMMA GreatestExists ==
  ASSUME NEW S \in SUBSET Int, S # {}, NEW bound \in Int, \A x \in S : x <= bound
  PROVE  Greatest(S) \in S /\ \A x \in S : x <= Greatest(S)
<1> DEFINE below == {bound - x : x \in S}
<1>1. below \in SUBSET Nat /\ below # {}
  <2>1. \A x \in S : bound - x \in Nat
    OBVIOUS
  <2>2. PICK x \in S : TRUE
    OBVIOUS
  <2>3. bound - x \in below
    OBVIOUS
  <2> QED
    BY <2>1, <2>3
<1>2. Least(below) \in below /\ \A y \in below : Least(below) <= y
  <2> HIDE DEF below
  <2> QED
    BY <1>1, LeastExists
<1>3. PICK x \in S : Least(below) = bound - x
  BY <1>2
<1>4. ASSUME NEW y \in S PROVE y <= x
  <2>1. bound - y \in below
    OBVIOUS
  <2>2. bound - x <= bound - y
    BY <1>2, <1>3, <2>1
  <2> QED
    BY <2>2
<1> QED
  BY <1>4 DEF Greatest

\* The greater and the smaller of two.
LEMMA Pairs ==
  ASSUME NEW x \in Int, NEW y \in Int
  PROVE  /\ Greatest({x, y}) = IF x <= y THEN y ELSE x
         /\ Least({x, y}) = IF x <= y THEN x ELSE y
BY DEF Greatest, Least

\* Midnights are as many hours apart as the days between them have.
LEMMA Midnights ==
  ASSUME Sound, NEW d \in Int, NEW e \in Int
  PROVE  /\ Midnight(d) \in Int
         /\ Midnight(d + e) = Midnight(d) + Midnight(e)
         /\ Midnight(1) = HoursPerDay /\ Midnight(0) = 0
         /\ d < e => Midnight(d) + HoursPerDay <= Midnight(e)
         /\ d <= e => Midnight(d) <= Midnight(e)
BY Constants DEF Midnight

-----------------------------------------------------------------------------
(* Local time.                                                             *)

\* The date and the hour that the clocks read.
LEMMA LocalTime ==
  ASSUME Sound, NEW t \in Int
  PROVE  /\ Wall(t) \in Int /\ LocalDay(t) \in Int /\ LocalHour(t) \in 0 .. HoursPerDay - 1
         /\ Wall(t) = Midnight(LocalDay(t)) + LocalHour(t)
<1>1. Wall(t) \in Int
  BY Offsets DEF Wall
<1>2. LocalDay(t) = Wall(t) \div HoursPerDay /\ LocalHour(t) = Wall(t) % HoursPerDay
  BY DEF Wall, LocalDay, LocalHour
<1>3. HoursPerDay \in Nat /\ HoursPerDay > 0
  BY Constants
<1>4. /\ Wall(t) \div HoursPerDay \in Int /\ Wall(t) % HoursPerDay \in 0 .. HoursPerDay - 1
      /\ Wall(t) = (Wall(t) \div HoursPerDay) * HoursPerDay + (Wall(t) % HoursPerDay)
  BY <1>1, <1>3, Quotient
<1> QED
  BY <1>1, <1>2, <1>4 DEF Midnight

\* They read one date and one hour.
LEMMA LocalTimeOf ==
  ASSUME Sound, NEW t \in Int, NEW day \in Int, NEW h \in 0 .. HoursPerDay - 1, Wall(t) = Midnight(day) + h
  PROVE  LocalDay(t) = day /\ LocalHour(t) = h
<1> DEFINE d == LocalDay(t)
           r == LocalHour(t)
<1>1. d \in Int /\ r \in 0 .. HoursPerDay - 1 /\ d * HoursPerDay + r = day * HoursPerDay + h
  BY LocalTime DEF Midnight
<1> HIDE DEF d, r
<1>2. HoursPerDay \in Nat /\ HoursPerDay > 0
  BY Constants
<1>3. d = day /\ r = h
  BY <1>1, <1>2, OneQuotient
<1> QED
  BY <1>3 DEF d, r

\* The clocks go on, but for the hour they go back.
LEMMA Onward ==
  ASSUME Sound, NEW t \in Int, NEW u \in Int, t <= u
  PROVE  /\ Wall(t) <= Wall(u) /\ Wall(u) - Wall(t) <= u - t + 1
         /\ LocalDay(t) <= LocalDay(u)
<1>1. Wall(t) <= Wall(u) /\ Wall(u) - Wall(t) <= u - t + 1
  BY Constants, Offsets DEF Wall
<1>2. ASSUME LocalDay(u) < LocalDay(t) PROVE FALSE
  <2>1. Midnight(LocalDay(u)) + HoursPerDay <= Midnight(LocalDay(t))
    BY <1>2, LocalTime, Midnights
  <2>2. HoursPerDay \in Nat /\ LocalHour(t) \in 0 .. HoursPerDay - 1 /\ LocalHour(u) \in 0 .. HoursPerDay - 1
    BY LocalTime, Constants
  <2>3. /\ Wall(t) = Midnight(LocalDay(t)) + LocalHour(t)
        /\ Wall(u) = Midnight(LocalDay(u)) + LocalHour(u)
    BY LocalTime
  <2>4. Midnight(LocalDay(u)) \in Int /\ Midnight(LocalDay(t)) \in Int
    BY LocalTime, Midnights
  <2> QED
    BY <1>1, <2>1, <2>2, <2>3, <2>4
<1> QED
  BY <1>1, <1>2, LocalTime

\* One day further is one day of hours further.
LEMMA MidnightFacts ==
  ASSUME Sound, NEW day \in Int
  PROVE  /\ Midnight(day) \in Int
         /\ Midnight(day + 1) = Midnight(day) + HoursPerDay
         /\ Midnight(day) = Midnight(day - 1) + HoursPerDay
BY Constants DEF Midnight

\* The two steps from a local time to an instant, and the hour that is skipped.
Converted(wall) == wall - Offset(wall - Offset(wall))
Skipped(wall) == clocks.after > clocks.before /\ wall = clocks.at + clocks.before

\* The two steps are exact, but for the hour that the clocks skip: that one is
\* read as the hour of the change or the one before it.
LEMMA Conversion ==
  ASSUME Sound, NEW wall \in Int
  PROVE  /\ Converted(wall) \in Int
         /\ Converted(wall) \in {wall - clocks.before, wall - clocks.after}
         /\ ~Skipped(wall) => Wall(Converted(wall)) = wall
         /\ Skipped(wall) /\ clocks.before >= 0 => Converted(wall) = clocks.at
         /\ Skipped(wall) /\ clocks.before < 0 => Converted(wall) = clocks.at - 1
<1> DEFINE guess == wall - Offset(wall)
<1>1. Offset(wall) \in {clocks.before, clocks.after} /\ guess \in Int
  BY Offsets, Constants
<1>2. /\ wall < clocks.at => guess = wall - clocks.before
      /\ wall >= clocks.at => guess = wall - clocks.after
  BY Offsets
<1> HIDE DEF guess
<1>3. /\ guess < clocks.at => Offset(guess) = clocks.before
      /\ guess >= clocks.at => Offset(guess) = clocks.after
  BY <1>1, Offsets
<1>4. Converted(wall) = wall - Offset(guess)
  BY DEF Converted, guess
<1> DEFINE t == Converted(wall)
<1>5. t \in Int /\ t \in {wall - clocks.before, wall - clocks.after}
  BY <1>1, <1>3, <1>4, Constants
<1> HIDE DEF t
<1>6. /\ t < clocks.at => Offset(t) = clocks.before
      /\ t >= clocks.at => Offset(t) = clocks.after
  BY <1>5, Offsets
<1>7. t = wall - Offset(guess)
  BY <1>4 DEF t
<1>8. ~Skipped(wall) => t + Offset(t) = wall
  BY <1>1, <1>2, <1>3, <1>6, <1>7, Constants DEF Skipped
<1>9. /\ Skipped(wall) /\ clocks.before >= 0 => t = clocks.at
      /\ Skipped(wall) /\ clocks.before < 0 => t = clocks.at - 1
  BY <1>1, <1>2, <1>3, <1>6, <1>7, Constants DEF Skipped
<1> QED
  BY <1>5, <1>8, <1>9 DEF t, Wall

\* The clocks never read an hour they skip.
LEMMA NeverRead ==
  ASSUME Sound, NEW t \in Int
  PROVE  ~Skipped(Wall(t))
BY Offsets, Constants DEF Skipped, Wall

\* instantOf is this conversion.
LEMMA Instants ==
  ASSUME Sound, NEW day \in Int, NEW h \in 0 .. HoursPerDay - 1
  PROVE  /\ Midnight(day) + h \in Int
         /\ InstantOf(day, h) = Converted(Midnight(day) + h)
<1>1. Midnight(day) \in Int /\ HoursPerDay \in Nat
  BY MidnightFacts, Constants
<1> QED
  BY <1>1 DEF InstantOf, Converted, Midnight

\* A window begins at the hour of its start on each date, or next to it; where
\* that is the date before, the clocks skip the first hour of the date.
LEMMA Starting ==
  ASSUME Sound, NEW w, w.startsAt \in Int, NEW day \in Int
  PROVE  /\ StartOn(w, day) \in Int
         /\ StartOn(w, day) \in {(Midnight(day) + LocalHour(w.startsAt)) - clocks.before,
                                   (Midnight(day) + LocalHour(w.startsAt)) - clocks.after}
         /\ \/ LocalDay(StartOn(w, day)) = day
            \/ /\ LocalDay(StartOn(w, day)) = day - 1
               /\ StartOn(w, day) = clocks.at - 1 /\ LocalDay(clocks.at) = day
<1> DEFINE h == LocalHour(w.startsAt)
           wall == Midnight(day) + h
           start == StartOn(w, day)
           near == \/ LocalDay(start) = day
                   \/ LocalDay(start) = day - 1 /\ start = clocks.at - 1 /\ LocalDay(clocks.at) = day
<1>1. /\ HoursPerDay \in Nat /\ HoursPerDay > 1 /\ h \in 0 .. HoursPerDay - 1
      /\ Midnight(day) \in Int /\ wall \in Int /\ wall = Midnight(day) + h
      /\ Midnight(day + 1) = Midnight(day) + HoursPerDay /\ Midnight(day) = Midnight(day - 1) + HoursPerDay
      /\ Midnight(day - 1) \in Int
      /\ clocks.at \in Int /\ clocks.before \in Int /\ clocks.after \in Int
  <2>1. h \in 0 .. HoursPerDay - 1
    BY LocalTime
  <2>2. day - 1 \in Int
    OBVIOUS
  <2>3. /\ Midnight(day) \in Int /\ Midnight(day - 1) \in Int
        /\ Midnight(day + 1) = Midnight(day) + HoursPerDay /\ Midnight(day) = Midnight(day - 1) + HoursPerDay
    BY <2>2, MidnightFacts
  <2> HIDE DEF h
  <2> QED
    BY <2>1, <2>3, Constants
<1>2. ASSUME day = LocalDay(w.startsAt)
      PROVE  start \in Int /\ start \in {wall - clocks.before, wall - clocks.after} /\ near
  <2>1. start = w.startsAt /\ Wall(start) = wall
    BY <1>2, LocalTime DEF StartOn
  <2>2. LocalDay(start) = day
    BY <1>2, <2>1
  <2> HIDE DEF wall, start, h
  <2>3. start \in {wall - clocks.before, wall - clocks.after}
    BY <1>1, <2>1, Offsets DEF Wall
  <2> QED
    BY <2>1, <2>2, <2>3
<1>3. ASSUME day # LocalDay(w.startsAt)
      PROVE  start \in Int /\ start \in {wall - clocks.before, wall - clocks.after} /\ near
  <2>1. start = Converted(wall)
    BY <1>1, <1>3, Instants DEF StartOn
  <2> HIDE DEF wall, start, h
  <2>2. start \in Int /\ start \in {wall - clocks.before, wall - clocks.after}
    BY <1>1, <2>1, Conversion
  <2>3. CASE ~Skipped(wall)
    <3>1. Wall(start) = Midnight(day) + h
      BY <1>1, <2>1, <2>3, Conversion
    <3> QED
      BY <1>1, <2>2, <3>1, LocalTimeOf
  <2>4. CASE Skipped(wall) /\ clocks.before >= 0
    <3>1. start = clocks.at /\ clocks.after = clocks.before + 1 /\ wall = clocks.at + clocks.before
      BY <1>1, <2>1, <2>4, Conversion, Constants DEF Skipped
    <3>2. Wall(start) = wall + 1
      BY <1>1, <2>2, <3>1, Offsets DEF Wall
    <3>3. h # HoursPerDay - 1
      <4> SUFFICES ASSUME h = HoursPerDay - 1 PROVE FALSE
        OBVIOUS
      <4>1. Wall(start) = Midnight(day + 1) + 0
        BY <1>1, <3>2
      <4>2. day + 1 \in Int /\ 0 \in 0 .. HoursPerDay - 1
        BY <1>1
      <4>3. LocalHour(start) = 0
        BY <2>2, <4>1, <4>2, LocalTimeOf
      <4>4. LocalHour(start) = (clocks.at + clocks.after) % HoursPerDay
        BY <1>1, <3>1 DEF LocalHour, Offset
      <4>5. clocks.after > clocks.before
        BY <1>1, <3>1
      <4> QED
        BY <2>4, <4>3, <4>4, <4>5, Constants
    <3>4. h + 1 \in 0 .. HoursPerDay - 1 /\ Wall(start) = Midnight(day) + (h + 1)
      BY <1>1, <3>2, <3>3
    <3> QED
      BY <2>2, <3>4, LocalTimeOf
  <2>5. CASE Skipped(wall) /\ clocks.before < 0
    <3>1. start = clocks.at - 1 /\ clocks.after = clocks.before + 1 /\ wall = clocks.at + clocks.before
      BY <1>1, <2>1, <2>5, Conversion, Constants DEF Skipped
    <3>2. Wall(start) = wall - 1 /\ Wall(clocks.at) = wall + 1
      BY <1>1, <2>2, <3>1, Offsets DEF Wall
    <3>3. CASE h = 0
      <4>1. /\ Wall(start) = Midnight(day - 1) + (HoursPerDay - 1)
            /\ Wall(clocks.at) = Midnight(day) + 1
        BY <1>1, <3>2, <3>3
      <4>2. day - 1 \in Int /\ HoursPerDay - 1 \in 0 .. HoursPerDay - 1 /\ 1 \in 0 .. HoursPerDay - 1
        BY <1>1
      <4>3. LocalDay(start) = day - 1
        BY <2>2, <4>1, <4>2, LocalTimeOf
      <4>4. LocalDay(clocks.at) = day
        BY <1>1, <4>1, <4>2, LocalTimeOf
      <4> QED
        BY <2>2, <3>1, <4>3, <4>4
    <3>4. CASE h > 0
      <4>1. h - 1 \in 0 .. HoursPerDay - 1 /\ Wall(start) = Midnight(day) + (h - 1)
        BY <1>1, <3>2, <3>4
      <4> QED
        BY <2>2, <4>1, LocalTimeOf
    <3> QED
      BY <1>1, <3>3, <3>4
  <2> QED
    BY <1>1, <2>3, <2>4, <2>5
<1> QED
  BY <1>2, <1>3

\* Later dates have later occurrences, apart by the dates less an hour.
LEMMA Apart ==
  ASSUME Sound, NEW w, w.startsAt \in Int, NEW d \in Int, NEW e \in Int, d < e
  PROVE  /\ StartOn(w, e) - StartOn(w, d) >= Midnight(e) - Midnight(d) - 1
         /\ StartOn(w, d) < StartOn(w, e)
<1> DEFINE h == LocalHour(w.startsAt)
           x == StartOn(w, d)
           y == StartOn(w, e)
           m == Midnight(d)
           n == Midnight(e)
<1>1. x \in Int /\ y \in Int /\ x \in {(m + h) - clocks.before, (m + h) - clocks.after}
      /\ y \in {(n + h) - clocks.before, (n + h) - clocks.after}
  BY Starting
<1>2. h \in 0 .. HoursPerDay - 1 /\ m \in Int /\ n \in Int
  BY LocalTime, MidnightFacts
<1>3. m + HoursPerDay <= n
  BY Midnights
<1>4. /\ HoursPerDay \in Nat /\ HoursPerDay > 1 /\ clocks.before \in Int
      /\ clocks.after = clocks.before + 1 \/ clocks.after = clocks.before - 1
  BY Constants
<1> HIDE DEF h, x, y, m, n
<1>5. y - x >= n - m - 1 /\ x < y
  BY <1>1, <1>2, <1>3, <1>4
<1> QED
  BY <1>5 DEF x, y, m, n

-----------------------------------------------------------------------------
(* Every hour that the clocks read is found.                               *)

\* A date and an hour that the clocks read at some time are converted to such a
\* time; one that they skip becomes an hour next to the change of clocks.
LEMMA WallClock ==
  ASSUME Sound
  PROVE  KeepsWallClock
<1> DEFINE turn == LocalDay(clocks.at)
<1> SUFFICES ASSUME NEW day \in turn - 2 .. turn + 2, NEW h \in 0 .. HoursPerDay - 1
             PROVE  IF \E u \in clocks.at - 4 * HoursPerDay .. clocks.at + 4 * HoursPerDay : Reads(u, day, h)
                    THEN Reads(InstantOf(day, h), day, h)
                    ELSE InstantOf(day, h) - clocks.at \in -1 .. 1
  BY DEF KeepsWallClock
<1> DEFINE wall == Midnight(day) + h
           instant == InstantOf(day, h)
<1>1. turn \in Int /\ clocks.at \in Int
  BY Constants, LocalTime
<1> HIDE DEF turn
<1>2. day \in Int
  BY <1>1
<1>3. wall \in Int /\ instant = Converted(wall)
  BY <1>2, Instants
<1>4. instant \in Int
  BY <1>3, Conversion
<1>5. ASSUME ~Skipped(wall) PROVE Reads(instant, day, h)
  <2>1. Wall(instant) = wall
    BY <1>3, <1>5, Conversion
  <2> HIDE DEF instant
  <2> QED
    BY <1>2, <1>4, <2>1, LocalTimeOf DEF Reads
<1>6. CASE \E u \in clocks.at - 4 * HoursPerDay .. clocks.at + 4 * HoursPerDay : Reads(u, day, h)
  <2>1. PICK u \in clocks.at - 4 * HoursPerDay .. clocks.at + 4 * HoursPerDay : Reads(u, day, h)
    BY <1>6
  <2>2. u \in Int
    BY Constants
  <2>3. Wall(u) = wall
    BY <2>1, <2>2, LocalTime DEF Reads
  <2>4. ~Skipped(wall)
    BY <2>2, <2>3, NeverRead
  <2> QED
    BY <1>5, <1>6, <2>4
<1>7. CASE ~\E u \in clocks.at - 4 * HoursPerDay .. clocks.at + 4 * HoursPerDay : Reads(u, day, h)
  <2>1. ASSUME ~Skipped(wall) PROVE FALSE
    <3>1. Wall(instant) = wall
      BY <1>3, <2>1, Conversion
    <3>2. /\ Midnight(turn) \in Int /\ Midnight(day) \in Int
          /\ Midnight(day) - Midnight(turn) \in -2 * HoursPerDay .. 2 * HoursPerDay
      <4>1. day \in {turn - 2, turn - 1, turn, turn + 1, turn + 2}
        BY <1>1, <1>2
      <4> QED
        BY <1>1, <4>1, Constants DEF Midnight
    <3>3. /\ Wall(clocks.at) = Midnight(turn) + LocalHour(clocks.at)
          /\ LocalHour(clocks.at) \in 0 .. HoursPerDay - 1
      BY <1>1, LocalTime DEF turn
    <3>4. /\ Offset(instant) - Offset(clocks.at) \in -1 .. 1
          /\ Offset(instant) \in Int /\ Offset(clocks.at) \in Int
      BY <1>1, <1>4, Offsets, Constants
    <3>5. HoursPerDay \in Nat /\ HoursPerDay > 1
      BY Constants
    <3>6. instant + Offset(instant) = Midnight(day) + h
      BY <3>1 DEF Wall
    <3>7. clocks.at + Offset(clocks.at) = Midnight(turn) + LocalHour(clocks.at)
      BY <3>3 DEF Wall
    <3> HIDE DEF instant, wall
    <3>8. instant \in clocks.at - 4 * HoursPerDay .. clocks.at + 4 * HoursPerDay
      BY <1>1, <1>4, <3>2, <3>3, <3>4, <3>5, <3>6, <3>7
    <3> QED
      BY <1>5, <1>7, <2>1, <3>8
  <2>2. instant = clocks.at \/ instant = clocks.at - 1
    BY <1>3, <2>1, Conversion, Constants
  <2>3. instant - clocks.at \in -1 .. 1
    <3> HIDE DEF instant
    <3> QED
      BY <1>1, <2>2
  <2> QED
    BY <1>7, <2>3
<1> QED
  BY <1>6, <1>7

-----------------------------------------------------------------------------
(* The search for the occurrences of a repeating win.                   *)

\* The least of a set of hours that is bounded below.
LEMMA LeastBounded ==
  ASSUME NEW S \in SUBSET Int, S # {}, NEW bound \in Int, \A x \in S : bound <= x
  PROVE  \E x \in S : \A y \in S : x <= y
<1> DEFINE above == {x - bound : x \in S}
<1>1. above \in SUBSET Nat /\ above # {}
  <2>1. \A x \in S : x - bound \in Nat
    OBVIOUS
  <2>2. PICK x \in S : TRUE
    OBVIOUS
  <2>3. x - bound \in above
    OBVIOUS
  <2> QED
    BY <2>1, <2>3
<1>2. Least(above) \in above /\ \A y \in above : Least(above) <= y
  <2> HIDE DEF above
  <2> QED
    BY <1>1, LeastExists
<1>3. PICK x \in S : Least(above) = x - bound
  BY <1>2
<1>4. ASSUME NEW y \in S PROVE x <= y
  <2>1. y - bound \in above
    OBVIOUS
  <2>2. x - bound <= y - bound
    BY <1>2, <1>3, <2>1
  <2> QED
    BY <2>2
<1> QED
  BY <1>4

\* What is in a set and not above any of it is the least.
LEMMA LeastIs ==
  ASSUME NEW S \in SUBSET Int, NEW x \in S, \A y \in S : x <= y
  PROVE  Least(S) = x
<1>1. \A z \in S : (\A y \in S : z <= y) => z = x
  OBVIOUS
<1> QED
  BY <1>1 DEF Least

\* The rows that windowProblem lets pass, and those of them that repeat.
Window(w) == w \in Windows /\ Acceptable(w)
Repeating(w) == Window(w) /\ w.recurrence # "none"

\* The types of a row and of what is computed from it.
LEMMA WindowFacts ==
  ASSUME Sound, NEW w, Window(w)
  PROVE  /\ w.startsAt \in Nat /\ w.endsAt \in Nat /\ w.endedStart \in Int /\ w.endedAt \in Int
         /\ w.until \in Nat \cup {Null} /\ w.until \in Int /\ w.days \in SUBSET (0 .. DaysPerWeek - 1)
         /\ w.recurrence \in {"none", "daily", "weekly"}
         /\ Length(w) \in Nat /\ Length(w) > 0 /\ w.endsAt = w.startsAt + Length(w)
         /\ LocalDay(w.startsAt) \in Int
<1>1. /\ w.startsAt \in Nat /\ w.endsAt \in Nat /\ w.endedStart \in Int /\ w.endedAt \in Int
      /\ w.until \in Nat \cup {Null} /\ w.days \in SUBSET (0 .. DaysPerWeek - 1)
      /\ w.recurrence \in {"none", "daily", "weekly"} /\ w.endsAt > w.startsAt
  BY DEF Window, Windows, Recurrences, Acceptable
<1>2. LocalDay(w.startsAt) \in Int
  BY <1>1, LocalTime
<1> QED
  BY <1>1, <1>2 DEF Length, Null

\* An occurrence ends with its length at the latest, and as early as it was ended.
LEMMA EndFacts ==
  ASSUME Sound, NEW w, Window(w), NEW s \in Int
  PROVE  /\ End(w, s) \in Int /\ End(w, s) <= s + Length(w)
         /\ s # w.endedStart \/ w.recurrence = "none" => End(w, s) = s + Length(w)
         /\ s = w.endedStart /\ w.recurrence # "none" => End(w, s) <= w.endedAt
<1> DEFINE l == Length(w)
<1>1. w.endedAt \in Int /\ l \in Int /\ s + l \in Int
  BY WindowFacts
<1> HIDE DEF l
<1>2. Least({w.endedAt, s + l}) = IF w.endedAt <= s + l THEN w.endedAt ELSE s + l
  BY <1>1, Pairs
<1>3. End(w, s) = IF w.recurrence # "none" /\ s = w.endedStart THEN Least({w.endedAt, s + l}) ELSE s + l
  BY DEF End, l
<1>4. /\ End(w, s) \in Int /\ End(w, s) <= s + l
      /\ s # w.endedStart \/ w.recurrence = "none" => End(w, s) = s + l
      /\ s = w.endedStart /\ w.recurrence # "none" => End(w, s) <= w.endedAt
  BY <1>1, <1>2, <1>3
<1> QED
  BY <1>4 DEF l

\* As many days as the length needs are at least as long as it.
LEMMA EnoughDays ==
  ASSUME Sound, NEW l \in Nat
  PROVE  DaysFor(l) \in Nat /\ Midnight(DaysFor(l)) >= l
<1>1. HoursPerDay \in Nat /\ HoursPerDay > 0
  BY Constants
<1> DEFINE x == (l + HoursPerDay) - 1
           q == x \div HoursPerDay
           r == x % HoursPerDay
<1>2. x \in Int
  BY <1>1
<1>3. q \in Int /\ r \in 0 .. HoursPerDay - 1 /\ x = q * HoursPerDay + r
  <2> HIDE DEF x
  <2> QED
    BY <1>1, <1>2, Quotient
<1>4. q * HoursPerDay >= l
  <2>1. q * HoursPerDay \in Int /\ x = (l + HoursPerDay) - 1
    BY <1>1, <1>3
  <2> HIDE DEF x, q, r
  <2> QED
    BY <1>1, <1>3, <2>1
<1>5. q >= 0
  <2> HIDE DEF x, q, r
  <2>1. ASSUME q < 0 PROVE FALSE
    <3>1. Midnight(q) + HoursPerDay <= Midnight(0) /\ Midnight(0) = 0
      BY <1>3, <2>1, Midnights
    <3> QED
      BY <1>1, <1>3, <1>4, <3>1 DEF Midnight
  <2> QED
    BY <1>3, <2>1
<1>6. DaysFor(l) = q
  BY <1>1 DEF DaysFor
<1> QED
  BY <1>3, <1>4, <1>5, <1>6 DEF Midnight

\* The date of an hour is at most the days of a length, and one for the change
\* of clocks, after the date that length ago.
LEMMA DatesApart ==
  ASSUME Sound, NEW u \in Int, NEW l \in Nat
  PROVE  /\ LocalDay(u - l) \in Int /\ LocalDay(u) \in Int
         /\ LocalDay(u - l) <= LocalDay(u)
         /\ LocalDay(u) <= LocalDay(u - l) + DaysFor(l) + 1
         /\ Offset(u) = Offset(u - l) => LocalDay(u) <= LocalDay(u - l) + DaysFor(l)
<1> DEFINE t == u - l
           d == LocalDay(t)
           e == LocalDay(u)
           n == DaysFor(l)
<1>1. t \in Int /\ t <= u
  OBVIOUS
<1>2. n \in Nat /\ Midnight(n) >= l
  BY EnoughDays
<1> HIDE DEF n
<1>3. d \in Int /\ e \in Int /\ d <= e
  BY <1>1, LocalTime, Onward
<1>4. Wall(u) - Wall(t) <= l + 1 /\ (Offset(u) = Offset(t) => Wall(u) - Wall(t) = l)
  <2>1. Offset(u) \in Int /\ Offset(t) \in Int /\ Wall(u) = u + Offset(u) /\ Wall(t) = t + Offset(t)
    BY <1>1, Offsets DEF Wall
  <2>2. Wall(u) - Wall(t) <= u - t + 1 /\ u - t = l
    BY <1>1, Onward
  <2> QED
    BY <1>1, <2>1, <2>2
<1>5. /\ Wall(t) = Midnight(d) + LocalHour(t) /\ LocalHour(t) \in 0 .. HoursPerDay - 1
      /\ Wall(u) = Midnight(e) + LocalHour(u) /\ LocalHour(u) \in 0 .. HoursPerDay - 1
  BY <1>1, LocalTime
<1> HIDE DEF t, d, e
<1>6. /\ HoursPerDay \in Nat /\ Midnight(d) \in Int /\ Midnight(e) \in Int /\ Midnight(n) \in Int
      /\ Midnight(d + n) = Midnight(d) + Midnight(n)
      /\ Midnight((d + n) + 1) = Midnight(d + n) + HoursPerDay
  <2>1. d + n \in Int /\ n \in Int
    BY <1>2, <1>3
  <2>2. Midnight(d + n) = Midnight(d) + Midnight(n)
    BY <1>3, <2>1, Midnights
  <2>3. Midnight((d + n) + 1) = Midnight(d + n) + HoursPerDay
    BY <2>1, MidnightFacts
  <2> QED
    BY <1>3, <2>1, <2>2, <2>3, MidnightFacts, Constants
<1>7. ASSUME e > d + n + 1 PROVE FALSE
  <2>1. Midnight((d + n) + 1) + HoursPerDay <= Midnight(e)
    BY <1>2, <1>3, <1>7, Midnights
  <2> QED
    BY <1>2, <1>4, <1>5, <1>6, <2>1
<1>8. ASSUME Offset(u) = Offset(t), e > d + n PROVE FALSE
  <2>1. Midnight(d + n) + HoursPerDay <= Midnight(e)
    BY <1>2, <1>3, <1>8, Midnights
  <2> QED
    BY <1>2, <1>4, <1>5, <1>6, <1>8, <2>1
<1>9. e <= d + n + 1 /\ (Offset(u) = Offset(t) => e <= d + n)
  BY <1>2, <1>3, <1>7, <1>8
<1> QED
  BY <1>3, <1>9 DEF t, d, e, n

\* The dates that the search looks at, the dates on which the window begins, and
\* those on which that is past the end of its recurrence.
Searched(w, at) == FirstDay(w, at) .. FirstDay(w, at) + DaysFor(Length(w)) + ScanDays
Begins(w, day) == Chosen(w, day) /\ StartOn(w, day) >= w.startsAt
Past(w, day) == w.until # Null /\ StartOn(w, day) > w.until

\* What the loop comes to, unfolded.
LEMMA ScannedIs ==
  ASSUME NEW w, NEW at, NEW s
  PROVE  s \in Scanned(w, at) <=>
           \E day \in Searched(w, at) :
             /\ Begins(w, day) /\ s = StartOn(w, day) /\ ~Past(w, day)
             /\ \A earlier \in Searched(w, at) :
                  Begins(w, earlier) /\ earlier < day => ~Past(w, earlier) /\ StartOn(w, earlier) <= at
BY DEF Scanned, Searched, Begins, Past

\* A window begins on the date of its start at its start, and on no date before.
LEMMA OwnDate ==
  ASSUME Sound, NEW w, Window(w), NEW day \in Int
  PROVE  /\ StartOn(w, LocalDay(w.startsAt)) = w.startsAt
         /\ StartOn(w, day) \in Int
         /\ StartOn(w, day) >= w.startsAt => day >= LocalDay(w.startsAt)
         /\ day >= LocalDay(w.startsAt) => StartOn(w, day) >= w.startsAt
         /\ LocalDay(StartOn(w, day)) \in {day - 1, day}
<1> DEFINE x == LocalDay(w.startsAt)
<1>1. w.startsAt \in Int /\ x \in Int
  BY WindowFacts
<1>2. StartOn(w, x) = w.startsAt
  BY DEF StartOn
<1>3. StartOn(w, day) \in Int /\ LocalDay(StartOn(w, day)) \in {day - 1, day}
  BY <1>1, Starting
<1> HIDE DEF x
<1>4. ASSUME day < x PROVE StartOn(w, day) < w.startsAt
  BY <1>1, <1>2, <1>4, Apart
<1>5. ASSUME x < day PROVE w.startsAt < StartOn(w, day)
  BY <1>1, <1>2, <1>5, Apart
<1>6. /\ StartOn(w, day) >= w.startsAt => day >= x
      /\ day >= x => StartOn(w, day) >= w.startsAt
  BY <1>1, <1>2, <1>3, <1>4, <1>5
<1> QED
  BY <1>2, <1>3, <1>6 DEF x

\* The dates of the search, and those of a list of all occurrences.
LEMMA SearchRange ==
  ASSUME Sound, NEW w, Window(w), NEW at \in Int
  PROVE  /\ FirstDay(w, at) \in Int /\ DaysFor(Length(w)) \in Nat /\ ScanDays = DaysPerWeek + 1
         /\ LocalDay(at - Length(w)) <= FirstDay(w, at) /\ LocalDay(w.startsAt) <= FirstDay(w, at)
         /\ FirstDay(w, at) \in {LocalDay(at - Length(w)), LocalDay(w.startsAt)}
         /\ \A day \in Int : /\ day >= LocalDay(w.startsAt)
                             /\ \/ day <= LocalDay(at) + DaysPerWeek + 2
                                \/ day <= LocalDay(w.startsAt) + DaysPerWeek + 2
                             => day \in Dates(w, at)
         /\ Dates(w, at) \subseteq Int
<1> DEFINE x == LocalDay(w.startsAt)
           y == LocalDay(at - Length(w))
           z == LocalDay(at)
<1>1. x \in Int /\ y \in Int /\ z \in Int
  BY WindowFacts, LocalTime, DatesApart
<1>2. DaysFor(Length(w)) \in Nat
  BY WindowFacts, EnoughDays
<1>3. FirstDay(w, at) = Greatest({y, x}) /\ Dates(w, at) = x - 2 .. Greatest({z, x}) + DaysPerWeek + 2
  BY DEF FirstDay, Dates
<1> HIDE DEF x, y, z
<1>4. Greatest({y, x}) = (IF y <= x THEN x ELSE y) /\ Greatest({z, x}) = IF z <= x THEN x ELSE z
  BY <1>1, Pairs
<1>5. FirstDay(w, at) \in Int /\ y <= FirstDay(w, at) /\ x <= FirstDay(w, at) /\ FirstDay(w, at) \in {y, x}
  BY <1>1, <1>3, <1>4
<1>6. ASSUME NEW day \in Int, day >= x, day <= z + DaysPerWeek + 2 \/ day <= x + DaysPerWeek + 2
      PROVE  day \in Dates(w, at)
  BY <1>1, <1>3, <1>4, <1>6, Constants
<1>7. Dates(w, at) \subseteq Int
  BY <1>1, <1>3
<1> QED
  BY <1>2, <1>5, <1>6, <1>7 DEF x, y, z, ScanDays

\* What a list of all occurrences shows, unfolded.
LEMMA OccurrencesAre ==
  ASSUME Sound, NEW w, Repeating(w), NEW at \in Int, NEW s
  PROVE  s \in Occurrences(w, at) <=>
           \E day \in Dates(w, at) : Begins(w, day) /\ s = StartOn(w, day) /\ ~Past(w, day)
<1>1. Dates(w, at) \subseteq Int /\ w.startsAt \in Int /\ w.until \in Int
  BY SearchRange, WindowFacts DEF Repeating
<1>2. \A day \in Dates(w, at) : StartOn(w, day) \in Int
  BY <1>1, OwnDate DEF Repeating
<1>3. \A day \in Dates(w, at) :
        /\ Begins(w, day) <=> Chosen(w, day) /\ w.startsAt <= StartOn(w, day)
        /\ ~Past(w, day) <=> (w.until # Null => StartOn(w, day) <= w.until)
  BY <1>1, <1>2 DEF Begins, Past
<1>4. Occurrences(w, at) =
        {start \in {StartOn(w, day) : day \in {d \in Dates(w, at) : Chosen(w, d)}} :
           w.startsAt <= start /\ (w.until # Null => start <= w.until)}
  BY DEF Occurrences, Repeating
<1>5. ASSUME s \in Occurrences(w, at)
      PROVE  \E day \in Dates(w, at) : Begins(w, day) /\ s = StartOn(w, day) /\ ~Past(w, day)
  <2>1. PICK day \in Dates(w, at) : Chosen(w, day) /\ s = StartOn(w, day)
    BY <1>4, <1>5
  <2>2. w.startsAt <= s /\ (w.until # Null => s <= w.until)
    BY <1>4, <1>5
  <2> QED
    BY <1>3, <2>1, <2>2
<1>6. ASSUME NEW day \in Dates(w, at), Begins(w, day), s = StartOn(w, day), ~Past(w, day)
      PROVE  s \in Occurrences(w, at)
  BY <1>3, <1>4, <1>6
<1> QED
  BY <1>5, <1>6

\* An occurrence that has begun and is not over is on a date the search looks at.
LEMMA RunningSearched ==
  ASSUME Sound, NEW w, Window(w), NEW at \in Int, NEW day \in Int,
         StartOn(w, day) >= w.startsAt, StartOn(w, day) <= at, at <= StartOn(w, day) + Length(w)
  PROVE  day \in Searched(w, at) /\ day \in Dates(w, at)
<1> DEFINE s == StartOn(w, day)
           l == Length(w)
           x == LocalDay(w.startsAt)
           y == LocalDay(at - l)
           z == LocalDay(at)
           n == DaysFor(l)
           first == FirstDay(w, at)
<1>1. s \in Int /\ day >= x /\ LocalDay(s) \in {day - 1, day} /\ s <= at /\ at <= s + l
  BY OwnDate
<1>2. l \in Nat /\ x \in Int
  BY WindowFacts
<1>3. y \in Int /\ z \in Int /\ z <= y + n + 1
  BY <1>2, DatesApart
<1>4. y <= LocalDay(s) /\ LocalDay(s) <= z
  <2>1. at - l \in Int /\ at - l <= s
    <3> HIDE DEF s, l
    <3> QED
      BY <1>1, <1>2
  <2> QED
    BY <1>1, <2>1, Onward
<1>5. first \in Int /\ n \in Nat /\ y <= first /\ x <= first /\ first \in {y, x} /\ ScanDays = DaysPerWeek + 1
  BY SearchRange
<1>6. \A d \in Int : d >= x /\ d <= z + DaysPerWeek + 2 => d \in Dates(w, at)
  BY SearchRange
<1>7. Searched(w, at) = first .. first + n + ScanDays
  BY DEF Searched
<1>8. DaysPerWeek \in Nat /\ DaysPerWeek > 0
  BY Constants
<1> HIDE DEF s, l, x, y, z, n, first
<1> QED
  BY <1>1, <1>3, <1>4, <1>5, <1>6, <1>7, <1>8

\* None that is still to come is on a date before those.
LEMMA ComingSearched ==
  ASSUME Sound, NEW w, Window(w), NEW at \in Int, NEW day \in Int,
         StartOn(w, day) >= w.startsAt, StartOn(w, day) > at
  PROVE  day >= FirstDay(w, at)
<1> DEFINE s == StartOn(w, day)
           l == Length(w)
           x == LocalDay(w.startsAt)
           y == LocalDay(at - l)
<1>1. s \in Int /\ day >= x /\ LocalDay(s) \in {day - 1, day} /\ s > at
  BY OwnDate
<1>2. l \in Nat /\ x \in Int
  BY WindowFacts
<1>3. y \in Int /\ y <= LocalDay(s)
  <2>1. at - l \in Int /\ at - l <= s
    <3> HIDE DEF s, l
    <3> QED
      BY <1>1, <1>2
  <2> QED
    BY <1>1, <2>1, Onward, LocalTime
<1>4. FirstDay(w, at) \in {y, x}
  BY SearchRange
<1> HIDE DEF s, l, x, y
<1> QED
  BY <1>1, <1>2, <1>3, <1>4

\* Every week has a date that is chosen.
LEMMA ChosenDate ==
  ASSUME Sound, NEW w, Repeating(w), NEW x \in Int
  PROVE  \E day \in x .. x + DaysPerWeek - 1 : Chosen(w, day)
<1>1. DaysPerWeek \in Nat /\ DaysPerWeek > 0
  BY Constants
<1>2. CASE w.recurrence # "weekly"
  BY <1>1, <1>2 DEF Chosen
<1>3. CASE w.recurrence = "weekly"
  <2>1. w.days # {} /\ w.days \subseteq 0 .. DaysPerWeek - 1
    BY <1>3, WindowFacts DEF Repeating, Window, Acceptable
  <2>2. PICK k \in 0 .. DaysPerWeek - 1 : k \in w.days
    BY <2>1
  <2> DEFINE rest == (k - x) % DaysPerWeek
             weeks == (k - x) \div DaysPerWeek
             day == x + rest
  <2>3. k - x \in Int
    BY <1>1
  <2>4. rest \in 0 .. DaysPerWeek - 1 /\ weeks \in Int /\ k - x = weeks * DaysPerWeek + rest
    BY <1>1, <2>3, Quotient
  <2> HIDE DEF rest, weeks
  <2>5. day \in x .. x + DaysPerWeek - 1 /\ day \in Int /\ day = (0 - weeks) * DaysPerWeek + k
    BY <1>1, <2>4
  <2> HIDE DEF day
  <2>6. /\ day % DaysPerWeek \in 0 .. DaysPerWeek - 1 /\ day \div DaysPerWeek \in Int
        /\ day = (day \div DaysPerWeek) * DaysPerWeek + (day % DaysPerWeek)
    BY <1>1, <2>5, Quotient
  <2>7. 0 - weeks \in Int
    BY <2>4
  <2>8. day % DaysPerWeek = k
    BY <1>1, <2>5, <2>6, <2>7, OneQuotient
  <2> QED
    BY <2>2, <2>5, <2>8 DEF Chosen
<1> QED
  BY <1>2, <1>3

\* Dates within a week and two days of a time or of the window's own start.
InWeek(w, at, day) ==
  day <= LocalDay(at) + DaysPerWeek + 2 \/ day <= LocalDay(w.startsAt) + DaysPerWeek + 2

\* Among the dates that the search looks at, one is chosen and still to come.
\* On the last hour before a change of clocks that skips the first hour of the
\* next date, that date may have begun its occurrence already; the search looks
\* one day further than a week for it.
LEMMA ComingDate ==
  ASSUME Sound, NEW w, Repeating(w), NEW at \in Int
  PROVE  \E day \in Searched(w, at) : Begins(w, day) /\ StartOn(w, day) > at /\ InWeek(w, at, day)
<1> DEFINE l == Length(w)
           x == LocalDay(w.startsAt)
           y == LocalDay(at - l)
           z == LocalDay(at)
           n == DaysFor(l)
           first == FirstDay(w, at)
<1>1. Window(w)
  BY DEF Repeating
<1>2. l \in Nat /\ x \in Int /\ w.startsAt \in Int /\ at - l \in Int /\ l > 0
  <2>1. l \in Nat /\ x \in Int /\ w.startsAt \in Int /\ l > 0
    BY <1>1, WindowFacts
  <2> HIDE DEF l
  <2> QED
    BY <2>1
<1>3. /\ y \in Int /\ z \in Int /\ y <= z /\ z <= y + n + 1
      /\ Offset(at) = Offset(at - l) => z <= y + n
  BY <1>2, DatesApart
<1>4. first \in Int /\ n \in Nat /\ y <= first /\ x <= first /\ first \in {y, x} /\ ScanDays = DaysPerWeek + 1
  BY <1>1, SearchRange
<1>5. Searched(w, at) = first .. first + n + ScanDays
  BY DEF Searched
<1>6. DaysPerWeek \in Nat /\ DaysPerWeek > 0
  BY Constants
<1> HIDE DEF x, y, z, n, first
<1>7. CASE at < w.startsAt
  <2>1. PICK day \in x .. x + DaysPerWeek - 1 : Chosen(w, day)
    BY <1>2, ChosenDate
  <2>2. day \in Int /\ day >= x
    BY <1>2, <2>1
  <2>3. StartOn(w, day) \in Int /\ StartOn(w, day) >= w.startsAt
    BY <1>1, <2>2, OwnDate DEF x
  <2>4. y <= x
    <3>1. at - l <= w.startsAt
      <4> HIDE DEF l
      <4> QED
        BY <1>2, <1>7
    <3> QED
      BY <1>2, <3>1, Onward DEF x, y
  <2>5. day \in Searched(w, at)
    BY <1>2, <1>3, <1>4, <1>5, <1>6, <2>1, <2>4
  <2>6. StartOn(w, day) > at
    BY <1>2, <1>7, <2>3
  <2>7. InWeek(w, at, day)
    BY <1>2, <1>6, <2>1 DEF InWeek, x
  <2> QED
    BY <2>1, <2>3, <2>5, <2>6, <2>7 DEF Begins
<1>8. CASE at >= w.startsAt
  <2>1. x <= z
    BY <1>2, <1>8, Onward DEF x, z
  <2> SUFFICES \E day \in Searched(w, at) : Chosen(w, day) /\ StartOn(w, day) > at /\ InWeek(w, at, day)
    <3>1. ASSUME NEW day \in Searched(w, at), Chosen(w, day), StartOn(w, day) > at PROVE Begins(w, day)
      <4>1. day \in Int
        BY <1>4, <1>5, <3>1
      <4>2. StartOn(w, day) \in Int
        BY <1>1, <4>1, OwnDate
      <4>3. StartOn(w, day) >= w.startsAt
        BY <1>2, <1>8, <3>1, <4>2
      <4> QED
        BY <3>1, <4>3 DEF Begins
    <3> QED
      BY <3>1
  <2>2. \A day \in Int : StartOn(w, day) <= at => LocalDay(StartOn(w, day)) <= z
    BY <1>1, OwnDate, Onward DEF z
  <2>3. z + 1 \in Int /\ z + 2 \in Int
    BY <1>3
  <2>4. CASE StartOn(w, z + 1) > at
    <3>1. PICK day \in z + 1 .. (z + 1) + DaysPerWeek - 1 : Chosen(w, day)
      BY <2>3, ChosenDate
    <3>2. day \in Int /\ day >= z + 1
      BY <1>3, <3>1
    <3>3. /\ StartOn(w, day) \in Int /\ StartOn(w, z + 1) \in Int
          /\ day = z + 1 \/ StartOn(w, z + 1) < StartOn(w, day)
      BY <1>1, <1>2, <1>3, <2>3, <3>2, OwnDate, Apart
    <3>4. StartOn(w, day) > at
      BY <2>4, <3>3
    <3>5. day \in Searched(w, at)
      BY <1>2, <1>3, <1>4, <1>5, <1>6, <2>1, <3>1, <3>2
    <3>6. InWeek(w, at, day)
      BY <1>3, <1>6, <3>1 DEF InWeek, z
    <3> QED
      BY <3>1, <3>4, <3>5, <3>6
  <2>5. CASE ~(StartOn(w, z + 1) > at)
    <3>1. StartOn(w, z + 1) \in Int /\ StartOn(w, z + 1) <= at
      BY <1>1, <2>3, <2>5, OwnDate
    <3>2. LocalDay(StartOn(w, z + 1)) <= z
      BY <2>2, <2>3, <3>1
    <3>3. StartOn(w, z + 1) = clocks.at - 1 /\ LocalDay(clocks.at) = z + 1
      <4>1. LocalDay(StartOn(w, z + 1)) # z + 1
        BY <1>3, <3>2
      <4> QED
        BY <1>2, <2>3, <4>1, Starting
    <3>4. at < clocks.at /\ at - l < clocks.at
      <4>1. ~(clocks.at <= at)
        <5>1. clocks.at \in Int
          BY Constants
        <5>2. clocks.at <= at => LocalDay(clocks.at) <= z
          BY <5>1, Onward DEF z
        <5> QED
          BY <1>3, <3>3, <5>2
      <4> HIDE DEF l
      <4> QED
        BY <1>2, <4>1, Constants
    <3>5. Offset(at) = Offset(at - l)
      BY <3>4 DEF Offset
    <3>6. PICK day \in z + 2 .. (z + 2) + DaysPerWeek - 1 : Chosen(w, day)
      BY <2>3, ChosenDate
    <3>7. day \in Int /\ day >= z + 2
      BY <1>3, <3>6
    <3>8. StartOn(w, day) \in Int /\ LocalDay(StartOn(w, day)) \in {day - 1, day}
      BY <1>1, <3>7, OwnDate
    <3>9. StartOn(w, day) > at
      <4>1. ~(LocalDay(StartOn(w, day)) <= z)
        BY <1>3, <3>7, <3>8
      <4>2. ~(StartOn(w, day) <= at)
        BY <2>2, <3>7, <4>1
      <4> QED
        BY <3>8, <4>2
    <3>10. day \in Searched(w, at)
      BY <1>2, <1>3, <1>4, <1>5, <1>6, <2>1, <3>5, <3>6, <3>7
    <3>11. InWeek(w, at, day)
      BY <1>3, <1>6, <3>6 DEF InWeek, z
    <3> QED
      BY <3>6, <3>9, <3>10, <3>11
  <2> QED
    BY <2>4, <2>5
<1> QED
  BY <1>2, <1>7, <1>8

\* The occurrences that run are the same in the search and in a list of all.
LEMMA SameRunning ==
  ASSUME Sound, NEW w, Repeating(w), NEW at \in Int
  PROVE  Running(w, Scanned(w, at), at) = Running(w, Occurrences(w, at), at)
<1>1. Window(w)
  BY DEF Repeating
<1>2. Searched(w, at) \subseteq Int /\ Dates(w, at) \subseteq Int
  BY <1>1, SearchRange DEF Searched
<1>3. w.startsAt \in Int /\ w.until \in Int /\ Length(w) \in Nat
  BY <1>1, WindowFacts
<1>4. ASSUME NEW day \in Int, Begins(w, day), StartOn(w, day) <= at, at <= End(w, StartOn(w, day))
      PROVE  day \in Searched(w, at) /\ day \in Dates(w, at)
  <2>1. StartOn(w, day) \in Int
    BY <1>1, OwnDate
  <2>2. End(w, StartOn(w, day)) \in Int /\ End(w, StartOn(w, day)) <= StartOn(w, day) + Length(w)
    BY <1>1, <2>1, EndFacts
  <2>3. at <= StartOn(w, day) + Length(w)
    BY <1>3, <1>4, <2>1, <2>2
  <2> QED
    BY <1>1, <1>4, <2>3, RunningSearched DEF Begins
<1>5. ASSUME NEW s \in Scanned(w, at), s <= at, at <= End(w, s)
      PROVE  s \in Occurrences(w, at)
  <2>1. PICK day \in Searched(w, at) : Begins(w, day) /\ s = StartOn(w, day) /\ ~Past(w, day)
    BY <1>5, ScannedIs
  <2>2. day \in Dates(w, at)
    BY <1>2, <1>4, <1>5, <2>1
  <2> QED
    BY <2>1, <2>2, OccurrencesAre
<1>6. ASSUME NEW s \in Occurrences(w, at), s <= at, at <= End(w, s)
      PROVE  s \in Scanned(w, at)
  <2>1. PICK day \in Dates(w, at) : Begins(w, day) /\ s = StartOn(w, day) /\ ~Past(w, day)
    BY <1>6, OccurrencesAre
  <2>2. day \in Int /\ day \in Searched(w, at)
    BY <1>2, <1>4, <1>6, <2>1
  <2>3. ASSUME NEW earlier \in Searched(w, at), earlier < day
        PROVE  ~Past(w, earlier) /\ StartOn(w, earlier) <= at
    <3>1. earlier \in Int
      BY <1>2
    <3>2. /\ StartOn(w, earlier) \in Int /\ StartOn(w, day) \in Int
          /\ StartOn(w, earlier) < StartOn(w, day)
      BY <1>1, <1>3, <2>2, <2>3, <3>1, OwnDate, Apart
    <3>3. StartOn(w, earlier) <= at
      BY <1>6, <2>1, <3>2
    <3>4. ~Past(w, earlier)
      BY <1>3, <2>1, <3>2 DEF Past
    <3> QED
      BY <3>3, <3>4
  <2> QED
    BY <2>1, <2>2, <2>3, ScannedIs
<1> QED
  BY <1>5, <1>6 DEF Running

\* So is the next one to come.
LEMMA SameNext ==
  ASSUME Sound, NEW w, Repeating(w), NEW at \in Int
  PROVE  FirstOf({start \in Scanned(w, at) : start > at}) = FirstOf({start \in Occurrences(w, at) : start > at})
<1> DEFINE coming == {day \in Searched(w, at) : Begins(w, day) /\ StartOn(w, day) > at}
           found == {start \in Scanned(w, at) : start > at}
           all == {start \in Occurrences(w, at) : start > at}
<1>1. Window(w)
  BY DEF Repeating
<1>2. /\ Searched(w, at) = FirstDay(w, at) .. FirstDay(w, at) + DaysFor(Length(w)) + ScanDays
      /\ FirstDay(w, at) \in Int /\ DaysFor(Length(w)) \in Nat /\ ScanDays \in Int
      /\ Dates(w, at) \subseteq Int
  BY <1>1, SearchRange, Constants DEF Searched
<1>3. Searched(w, at) \subseteq Int /\ \A day \in Searched(w, at) : FirstDay(w, at) <= day
  BY <1>2
<1>4. w.startsAt \in Int /\ w.until \in Int
  BY <1>1, WindowFacts
<1>5. \A day \in Int : StartOn(w, day) \in Int
  BY <1>1, OwnDate
<1>6. \E first \in coming : \A day \in coming : first <= day
  <2>1. coming \in SUBSET Int /\ coming # {} /\ \A day \in coming : FirstDay(w, at) <= day
    BY <1>3, ComingDate
  <2> HIDE DEF coming
  <2> QED
    BY <1>2, <2>1, LeastBounded
<1>7. PICK first \in coming : \A day \in coming : first <= day
  BY <1>6
<1>8. first \in Searched(w, at) /\ first \in Int /\ Begins(w, first) /\ StartOn(w, first) > at
  BY <1>3, <1>7
<1>9. ASSUME NEW day \in Int, Begins(w, day), StartOn(w, day) > at
      PROVE  day >= first /\ StartOn(w, day) >= StartOn(w, first)
  <2>1. day >= FirstDay(w, at)
    BY <1>1, <1>9, ComingSearched DEF Begins
  <2>2. day >= first
    <3> SUFFICES ASSUME day < first PROVE FALSE
      BY <1>8
    <3>1. day \in Searched(w, at)
      BY <1>2, <1>8, <2>1
    <3> QED
      BY <1>7, <1>8, <1>9, <3>1
  <2>3. day = first \/ StartOn(w, first) < StartOn(w, day)
    BY <1>4, <1>8, <2>2, Apart
  <2> QED
    BY <1>5, <1>8, <2>2, <2>3
<1>10. ASSUME NEW s \in found PROVE s = StartOn(w, first) /\ ~Past(w, first)
  <2>1. s \in Scanned(w, at) /\ s > at
    OBVIOUS
  <2>2. PICK day \in Searched(w, at) :
          /\ Begins(w, day) /\ s = StartOn(w, day) /\ ~Past(w, day)
          /\ \A earlier \in Searched(w, at) :
               Begins(w, earlier) /\ earlier < day => ~Past(w, earlier) /\ StartOn(w, earlier) <= at
    BY <2>1, ScannedIs
  <2>3. day \in Int /\ day >= first
    BY <1>3, <1>9, <2>1, <2>2
  <2>4. ~(first < day)
    BY <1>5, <1>8, <2>2
  <2>5. day = first
    BY <1>8, <2>3, <2>4
  <2> QED
    BY <2>2, <2>5
<1>11. ASSUME NEW s \in all PROVE s >= StartOn(w, first) /\ s \in Int /\ ~Past(w, first)
  <2>1. s \in Occurrences(w, at) /\ s > at
    OBVIOUS
  <2>2. PICK day \in Dates(w, at) : Begins(w, day) /\ s = StartOn(w, day) /\ ~Past(w, day)
    BY <2>1, OccurrencesAre
  <2>3. day \in Int /\ s >= StartOn(w, first)
    BY <1>2, <1>9, <2>1, <2>2
  <2>4. s \in Int
    BY <1>5, <2>2, <2>3
  <2>5. ~Past(w, first)
    BY <1>4, <1>5, <1>8, <2>2, <2>3 DEF Past
  <2> QED
    BY <2>3, <2>4, <2>5
<1>12. CASE Past(w, first)
  <2>1. found = {} /\ all = {}
    BY <1>10, <1>11, <1>12
  <2> QED
    BY <2>1
<1>13. CASE ~Past(w, first)
  <2>1. StartOn(w, first) \in found
    <3>1. ASSUME NEW earlier \in Searched(w, at), Begins(w, earlier), earlier < first
          PROVE  ~Past(w, earlier) /\ StartOn(w, earlier) <= at
      <4>1. earlier \in Int
        BY <1>3
      <4>2. StartOn(w, earlier) <= at
        BY <1>5, <1>8, <1>9, <3>1, <4>1
      <4>3. StartOn(w, earlier) < StartOn(w, first)
        BY <1>4, <1>8, <3>1, <4>1, Apart
      <4>4. ~Past(w, earlier)
        BY <1>4, <1>5, <1>8, <1>13, <4>1, <4>3 DEF Past
      <4> QED
        BY <4>2, <4>4
    <3>2. StartOn(w, first) \in Scanned(w, at)
      BY <1>8, <1>13, <3>1, ScannedIs
    <3> QED
      BY <1>8, <3>2
  <2>2. StartOn(w, first) \in all
    <3>1. first \in Dates(w, at)
      <4>1. PICK day \in coming : InWeek(w, at, day)
        BY ComingDate
      <4>2. first <= day /\ day \in Int
        BY <1>3, <1>7, <4>1
      <4>3. /\ LocalDay(at) \in Int /\ LocalDay(w.startsAt) \in Int /\ DaysPerWeek \in Nat
        BY <1>4, LocalTime, Constants
      <4>4. InWeek(w, at, first)
        BY <1>8, <4>1, <4>2, <4>3 DEF InWeek
      <4>5. first >= LocalDay(w.startsAt)
        BY <1>1, <1>8, OwnDate DEF Begins
      <4> QED
        BY <1>1, <1>8, <4>4, <4>5, SearchRange DEF InWeek
    <3>2. StartOn(w, first) \in Occurrences(w, at)
      BY <1>8, <1>13, <3>1, OccurrencesAre
    <3> QED
      BY <1>8, <3>2
  <2>3. found = {StartOn(w, first)}
    BY <1>10, <2>1
  <2>4. all \in SUBSET Int /\ found \in SUBSET Int /\ \A s \in all : StartOn(w, first) <= s
    BY <1>5, <1>8, <1>11, <2>3
  <2> HIDE DEF found, all
  <2>5. Least(all) = StartOn(w, first)
    BY <2>2, <2>4, LeastIs
  <2>6. Least(found) = StartOn(w, first)
    <3>1. StartOn(w, first) \in found /\ \A s \in found : StartOn(w, first) <= s
      BY <1>5, <1>8, <2>3
    <3> QED
      BY <2>4, <3>1, LeastIs
  <2>7. FirstOf(found) = FirstOf(all)
    BY <2>1, <2>2, <2>5, <2>6 DEF FirstOf
  <2> QED
    BY <2>7 DEF found, all
<1> QED
  BY <1>12, <1>13

\* The list is bounded, but nothing beyond it matters: whatever date a window
\* begins on, an occurrence that runs is on the list, and before one that is
\* still to come there is none that is not, or it is on the list itself.
THEOREM ListIsComplete ==
  ASSUME Sound, NEW w, Repeating(w), NEW at \in Int, NEW day \in Int, Begins(w, day), ~Past(w, day)
  PROVE  /\ StartOn(w, day) <= at /\ at <= End(w, StartOn(w, day)) =>
              StartOn(w, day) \in Occurrences(w, at)
         /\ StartOn(w, day) > at =>
              \E s \in Occurrences(w, at) : at < s /\ s <= StartOn(w, day)
<1>1. Window(w)
  BY DEF Repeating
<1>2. StartOn(w, day) \in Int /\ day >= LocalDay(w.startsAt)
  BY <1>1, OwnDate DEF Begins
<1>3. w.startsAt \in Int /\ w.until \in Int /\ Length(w) \in Nat /\ LocalDay(w.startsAt) \in Int
  BY <1>1, WindowFacts
<1>4. day \in Dates(w, at) => StartOn(w, day) \in Occurrences(w, at)
  BY OccurrencesAre
<1>5. ASSUME StartOn(w, day) <= at, at <= End(w, StartOn(w, day))
      PROVE  day \in Dates(w, at)
  <2>1. End(w, StartOn(w, day)) \in Int /\ End(w, StartOn(w, day)) <= StartOn(w, day) + Length(w)
    BY <1>1, <1>2, EndFacts
  <2>2. at <= StartOn(w, day) + Length(w)
    BY <1>2, <1>3, <1>5, <2>1
  <2> QED
    BY <1>1, <1>5, <2>2, RunningSearched DEF Begins
<1>6. ASSUME StartOn(w, day) > at
      PROVE  \E s \in Occurrences(w, at) : at < s /\ s <= StartOn(w, day)
  <2>1. CASE day \in Dates(w, at)
    BY <1>2, <1>4, <1>6, <2>1
  <2>2. CASE day \notin Dates(w, at)
    <3>1. PICK next \in Searched(w, at) : Begins(w, next) /\ StartOn(w, next) > at /\ InWeek(w, at, next)
      BY ComingDate
    <3>2. next \in Int
      BY <1>1, SearchRange DEF Searched
    <3>3. next >= LocalDay(w.startsAt) /\ StartOn(w, next) \in Int
      BY <1>1, <3>1, <3>2, OwnDate DEF Begins
    <3>4. next \in Dates(w, at)
      BY <1>1, <3>1, <3>2, <3>3, SearchRange DEF InWeek
    <3>5. ~InWeek(w, at, day)
      BY <1>1, <1>2, <2>2, SearchRange DEF InWeek
    <3>6. next < day
      <4>1. LocalDay(at) \in Int /\ DaysPerWeek \in Nat
        BY LocalTime, Constants
      <4> QED
        BY <1>3, <3>1, <3>2, <3>5, <4>1 DEF InWeek
    <3>7. StartOn(w, next) < StartOn(w, day)
      BY <1>3, <3>2, <3>6, Apart
    <3>8. ~Past(w, next)
      BY <1>2, <1>3, <3>3, <3>7 DEF Past
    <3>9. StartOn(w, next) \in Occurrences(w, at)
      BY <3>1, <3>4, <3>8, OccurrencesAre
    <3> QED
      BY <1>2, <3>1, <3>3, <3>7, <3>9
  <2> QED
    BY <2>1, <2>2
<1> QED
  BY <1>4, <1>5, <1>6

-----------------------------------------------------------------------------
(* The row: windowProblem accepts what it holds, and an occurrence that was *)
(* ended early had begun when it was, which was before now.                *)

WindowOK ==
  win # NoWindow =>
    Window(win) /\ win.endedStart <= win.endedAt /\ win.endedAt <= now

WindowInv == WindowTypeOK /\ WindowOK

\* What the search finds are hours from the start of the window on.
LEMMA FoundStarts ==
  ASSUME Sound, NEW w, Window(w), NEW at \in Int, NEW s \in Found(w, at)
  PROVE  s \in Nat /\ s >= w.startsAt
<1>1. CASE w.recurrence = "none"
  BY <1>1, WindowFacts DEF Found
<1>2. CASE w.recurrence # "none"
  <2>1. s \in Scanned(w, at)
    BY <1>2 DEF Found
  <2>2. PICK day \in Searched(w, at) : Begins(w, day) /\ s = StartOn(w, day)
    BY <2>1, ScannedIs
  <2>3. day \in Int
    BY SearchRange, Constants DEF Searched
  <2>4. s \in Int /\ s >= w.startsAt
    BY <2>2, <2>3, OwnDate DEF Begins
  <2> QED
    BY <2>4, WindowFacts
<1> QED
  BY <1>1, <1>2

\* The occurrence that runs is the last of those that do.
LEMMA CurrentIs ==
  ASSUME Sound, NEW w, Window(w), NEW at \in Int, Current(w, at) # Null
  PROVE  /\ Current(w, at) \in Running(w, Found(w, at), at)
         /\ Current(w, at) \in Nat /\ Current(w, at) >= w.startsAt /\ Current(w, at) <= at
         /\ \A s \in Running(w, Found(w, at), at) : s <= Current(w, at)
<1> DEFINE running == Running(w, Found(w, at), at)
           c == Current(w, at)
<1>1. c = LastOf(running)
  BY DEF Current
<1>2. \A s \in running : s \in Found(w, at) /\ s <= at
  BY DEF Running
<1>3. \A s \in running : s \in Nat /\ s >= w.startsAt
  BY <1>2, FoundStarts
<1> HIDE DEF running
<1>4. running # {} /\ c = Greatest(running)
  BY <1>1 DEF LastOf
<1>5. running \in SUBSET Int /\ \A s \in running : s <= at
  BY <1>2, <1>3
<1>6. c \in running /\ \A s \in running : s <= c
  BY <1>4, <1>5, GreatestExists
<1> HIDE DEF c
<1>7. c \in Nat /\ c >= w.startsAt /\ c <= at
  BY <1>3, <1>5, <1>6
<1> QED
  BY <1>6, <1>7 DEF c, running

\* What a typed state gives the lemmas above.
LEMMA SoundTyped ==
  ASSUME WindowTypeOK
  PROVE  Sound /\ now \in Nat /\ windowEdits \in Nat
BY MaintenanceAssumption DEF Sound, WindowTypeOK, Calendars

\* Without a window there is nothing to check.
LEMMA WindowInitially ==
  ASSUME WindowInit
  PROVE  WindowInv
BY MaintenanceAssumption DEF WindowInv, WindowOK, WindowInit, WindowTypeOK, Calendars

\* A new window has not been ended.
LEMMA WindowCreated ==
  ASSUME WindowInv, NEW startsAt \in Starts, NEW length \in Lengths, NEW recurrence \in Recurrences,
         NEW days \in WeekdaySets, NEW until \in Untils \cup {Null},
         Create(startsAt, length, recurrence, days, until)
  PROVE  WindowInv'
<1>1. startsAt \in Nat /\ startsAt + length \in Nat
  <2>1. Starts \subseteq Nat /\ Lengths \subseteq Nat
    BY MaintenanceAssumption DEF Calendars
  <2>2. startsAt \in Nat /\ length \in Nat
    BY <2>1
  <2> QED
    BY <2>2
<1>2. Null \in Int /\ Null = -1
  BY DEF Null
<1>3. /\ win' = WithEnd(Columns(startsAt, startsAt + length, recurrence, days, until), Null, Null)
      /\ Acceptable(win')
      /\ clocks' = clocks /\ now' = now /\ windowEdits' = windowEdits
  BY DEF Create
<1>4. win' \in Windows /\ win'.endedStart = Null /\ win'.endedAt = Null
  <2> DEFINE new == WithEnd(Columns(startsAt, startsAt + length, recurrence, days, until), Null, Null)
  <2>1. days \in SUBSET (0 .. DaysPerWeek - 1) /\ until \in Nat \cup {Null}
    BY MaintenanceAssumption DEF Calendars
  <2>2. new \in Windows /\ new.endedStart = Null /\ new.endedAt = Null
    BY <1>1, <1>2, <2>1 DEF WithEnd, Columns, Windows
  <2> QED
    BY <1>3, <2>2, Zenon
<1>5. now \in Nat
  BY SoundTyped DEF WindowInv
<1>6. WindowTypeOK'
  BY <1>3, <1>4 DEF WindowInv, WindowTypeOK
<1>7. WindowOK'
  BY <1>2, <1>3, <1>4, <1>5 DEF WindowOK, Window
<1> QED
  BY <1>6, <1>7 DEF WindowInv

\* An edit keeps the early end, and what it writes is accepted.
LEMMA WindowPatched ==
  ASSUME WindowInv, NEW startsAt \in Nat, NEW endsAt \in Nat, NEW recurrence \in Recurrences,
         NEW days \in WeekdaySets, NEW until \in Untils \cup {Null},
         Patch(startsAt, endsAt, recurrence, days, until)
  PROVE  WindowInv'
<1>1. /\ win' = WithEnd(Columns(startsAt, endsAt, recurrence, days, until), win.endedStart, win.endedAt)
      /\ Acceptable(win')
      /\ clocks' = clocks /\ now' = now /\ windowEdits' = windowEdits + 1
      /\ win # NoWindow /\ windowEdits < MaxWindowEdits
  BY DEF Patch
<1>2. Window(win) /\ win.endedStart <= win.endedAt /\ win.endedAt <= now
  BY <1>1 DEF WindowInv, WindowOK
<1>3. win.endedStart \in Int /\ win.endedAt \in Int
  BY <1>2, SoundTyped, WindowFacts DEF WindowInv
<1>4. win' \in Windows /\ win'.endedStart = win.endedStart /\ win'.endedAt = win.endedAt
  <2> DEFINE new == WithEnd(Columns(startsAt, endsAt, recurrence, days, until), win.endedStart, win.endedAt)
  <2>1. days \in SUBSET (0 .. DaysPerWeek - 1) /\ until \in Nat \cup {Null}
    BY MaintenanceAssumption DEF Calendars
  <2>2. new \in Windows /\ new.endedStart = win.endedStart /\ new.endedAt = win.endedAt
    BY <1>3, <2>1 DEF WithEnd, Columns, Windows
  <2> QED
    BY <1>1, <2>2, Zenon
<1>5. MaxWindowEdits \in Nat /\ windowEdits \in 0 .. MaxWindowEdits
  BY MaintenanceAssumption DEF WindowInv, WindowTypeOK, Calendars
<1>6. windowEdits' \in 0 .. MaxWindowEdits
  BY <1>1, <1>5
<1>7. WindowTypeOK'
  BY <1>1, <1>4, <1>6 DEF WindowInv, WindowTypeOK
<1>8. WindowOK'
  BY <1>1, <1>2, <1>4 DEF WindowOK, Window
<1> QED
  BY <1>7, <1>8 DEF WindowInv

\* What is ended had begun, and ends now.
LEMMA WindowEnded ==
  ASSUME WindowInv, EndNow
  PROVE  WindowInv'
<1> DEFINE c == Current(win, now)
<1>1. /\ win # NoWindow /\ c # Null /\ win' = Ended(win, c, now)
      /\ clocks' = clocks /\ now' = now /\ windowEdits' = windowEdits
  BY DEF EndNow
<1>2. Window(win)
  BY <1>1 DEF WindowInv, WindowOK
<1>3. Sound /\ now \in Nat
  BY SoundTyped DEF WindowInv
<1>4. c \in Nat /\ c <= now
  BY <1>1, <1>2, <1>3, CurrentIs
<1>5. win.startsAt \in Nat
  BY <1>2, <1>3, WindowFacts
<1>6. win \in Windows /\ Acceptable(win)
  BY <1>2 DEF Window
<1> HIDE DEF c
<1>7. win' \in Windows /\ Acceptable(win') /\ win'.endedStart <= win'.endedAt /\ win'.endedAt <= now
  <2>1. CASE win.recurrence = "none"
    <3> DEFINE last == Greatest({now, win.startsAt + 1})
    <3>1. last \in Nat /\ last > win.startsAt
      BY <1>3, <1>5, Pairs
    <3> HIDE DEF last
    <3>2. win' = [win EXCEPT !.endsAt = last]
      BY <1>1, <2>1 DEF Ended, last
    <3>3. win' \in Windows
      BY <1>6, <3>1, <3>2 DEF Windows
    <3>4. /\ win'.endsAt = last /\ win'.startsAt = win.startsAt /\ win'.recurrence = win.recurrence
          /\ win'.days = win.days /\ win'.until = win.until
          /\ win'.endedStart = win.endedStart /\ win'.endedAt = win.endedAt
      BY <1>6, <3>2 DEF Windows
    <3>5. Acceptable(win')
      BY <1>6, <2>1, <3>1, <3>4 DEF Acceptable
    <3> QED
      BY <1>1, <3>3, <3>4, <3>5 DEF WindowInv, WindowOK
  <2>2. CASE win.recurrence # "none"
    <3>1. win' = [win EXCEPT !.endedStart = c, !.endedAt = now]
      BY <1>1, <2>2 DEF Ended
    <3>2. win' \in Windows
      <4> DEFINE begun == [win EXCEPT !.endedStart = c]
      <4>1. c \in Int /\ now \in Int
        BY <1>3, <1>4
      <4>2. begun \in Windows
        BY <1>6, <4>1 DEF Windows
      <4>3. win' = [begun EXCEPT !.endedAt = now]
        BY <1>6, <3>1 DEF Windows
      <4> HIDE DEF begun
      <4> QED
        BY <4>1, <4>2, <4>3 DEF Windows
    <3>3. /\ win'.endsAt = win.endsAt /\ win'.startsAt = win.startsAt
          /\ win'.recurrence = win.recurrence
          /\ win'.days = win.days /\ win'.until = win.until
          /\ win'.endedStart = c /\ win'.endedAt = now
      BY <1>6, <3>1 DEF Windows
    <3>4. Acceptable(win')
      BY <1>6, <3>3 DEF Acceptable, Length
    <3> QED
      BY <1>3, <1>4, <3>2, <3>3, <3>4
  <2> QED
    BY <2>1, <2>2
<1>8. WindowTypeOK'
  BY <1>1, <1>7 DEF WindowInv, WindowTypeOK
<1>9. WindowOK'
  BY <1>1, <1>7 DEF WindowOK, Window
<1> QED
  BY <1>8, <1>9 DEF WindowInv

\* Every action keeps the row as it should be.
LEMMA WindowSteps ==
  ASSUME WindowInv, [WindowNext]_windowVars
  PROVE  WindowInv'
<1>1. Starts \subseteq Nat /\ Lengths \subseteq Nat
  BY MaintenanceAssumption DEF Calendars
<1>2. ASSUME NEW startsAt \in Starts, NEW length \in Lengths, NEW recurrence \in Recurrences,
             NEW days \in WeekdaySets, NEW until \in Untils \cup {Null},
             Patch(startsAt, startsAt + length, recurrence, days, until)
      PROVE  WindowInv'
  BY <1>1, <1>2, WindowPatched
<1>3. ASSUME NEW startsAt \in Starts, NEW length \in Lengths, NEW recurrence \in Recurrences,
             NEW days \in WeekdaySets, NEW until \in Untils \cup {Null},
             win # NoWindow, Patch(startsAt, win.endsAt, recurrence, days, until)
      PROVE  WindowInv'
  <2>1. win.endsAt \in Nat
    BY <1>3, SoundTyped, WindowFacts DEF WindowInv, WindowOK
  <2> QED
    BY <1>1, <1>3, <2>1, WindowPatched
<1>4. CASE Delete
  <2>1. /\ win' = NoWindow /\ clocks' = clocks /\ now' = now /\ windowEdits' = windowEdits + 1
        /\ windowEdits < MaxWindowEdits
    BY <1>4 DEF Delete
  <2>2. windowEdits' \in 0 .. MaxWindowEdits
    BY <2>1, MaintenanceAssumption DEF WindowInv, WindowTypeOK, Calendars
  <2> QED
    BY <2>1, <2>2 DEF WindowInv, WindowOK, WindowTypeOK
<1>5. CASE HourPasses
  <2>1. now < LastHour /\ now' = now + 1 /\ win' = win /\ clocks' = clocks /\ windowEdits' = windowEdits
    BY <1>5 DEF HourPasses
  <2>2. now \in Nat /\ LastHour \in Nat /\ now' \in 0 .. LastHour
    BY <2>1, MaintenanceAssumption DEF WindowInv, WindowTypeOK, Calendars
  <2>3. WindowTypeOK'
    BY <2>1, <2>2 DEF WindowInv, WindowTypeOK
  <2>4. WindowOK'
    <3>1. win # NoWindow => win.endedAt \in Int
      BY SoundTyped, WindowFacts DEF WindowInv, WindowOK
    <3> QED
      BY <2>1, <2>2, <3>1 DEF WindowInv, WindowOK
  <2> QED
    BY <2>3, <2>4 DEF WindowInv
<1>6. CASE UNCHANGED windowVars
  BY <1>6 DEF WindowInv, WindowOK, WindowTypeOK, windowVars
<1> QED
  BY <1>2, <1>3, <1>4, <1>5, <1>6, WindowCreated, WindowEnded DEF WindowNext

\* The win's row has its type, and is one that the handlers accept.
THEOREM WindowTyped == WindowSpec => []WindowInv
<1>1. WindowInit => WindowInv
  BY WindowInitially
<1>2. WindowInv /\ [WindowNext]_windowVars => WindowInv'
  BY WindowSteps
<1> QED
  BY <1>1, <1>2, PTL DEF WindowSpec

-----------------------------------------------------------------------------
(* The search finds the occurrence that runs and the next one.             *)

\* The query before the search leaves out no window with an occurrence running.
LEMMA QuerySelects ==
  ASSUME Sound, NEW w, Window(w), NEW at \in Int, NEW s \in Running(w, Occurrences(w, at), at)
  PROVE  Selected(w, at)
<1>1. w.startsAt \in Int /\ w.endsAt \in Int /\ w.until \in Int /\ Length(w) \in Nat
      /\ w.endsAt = w.startsAt + Length(w)
  BY WindowFacts
<1>2. s \in Occurrences(w, at) /\ s <= at /\ at <= End(w, s)
  BY DEF Running
<1>3. CASE w.recurrence = "none"
  <2>1. s = w.startsAt
    BY <1>2, <1>3 DEF Occurrences
  <2>2. End(w, s) = s + Length(w)
    BY <1>1, <1>3, <2>1, EndFacts
  <2> QED
    BY <1>1, <1>2, <2>1, <2>2 DEF Selected
<1>4. CASE w.recurrence # "none"
  <2>1. PICK day \in Dates(w, at) : Begins(w, day) /\ s = StartOn(w, day) /\ ~Past(w, day)
    BY <1>2, <1>4, OccurrencesAre DEF Repeating
  <2>2. s \in Int
    BY <2>1, SearchRange, OwnDate
  <2>3. End(w, s) \in Int /\ End(w, s) <= s + Length(w)
    BY <2>2, EndFacts
  <2>4. w.startsAt <= at /\ (w.until = Null \/ w.until + Length(w) >= at)
    BY <1>1, <1>2, <2>1, <2>2, <2>3 DEF Begins, Past
  <2> QED
    BY <1>4, <2>4 DEF Selected
<1> QED
  BY <1>3, <1>4

\* At any time the search answers as a list of all occurrences.
LEMMA SearchFinds ==
  ASSUME Sound, NEW w, Window(w), NEW at \in Int
  PROVE  /\ Running(w, Found(w, at), at) = Running(w, Occurrences(w, at), at)
         /\ ActiveWindow(w, at) = LastOf(Running(w, Occurrences(w, at), at))
         /\ Upcoming(w, at) = FirstOf({start \in Occurrences(w, at) : start > at})
<1> DEFINE running == Running(w, Occurrences(w, at), at)
<1>1. Running(w, Found(w, at), at) = running
  BY SameRunning DEF Found, Occurrences, Repeating
<1>2. ActiveWindow(w, at) = LastOf(running)
  <2>1. CASE Selected(w, at)
    BY <1>1, <2>1 DEF ActiveWindow, Current
  <2>2. CASE ~Selected(w, at)
    <3>1. running = {}
      BY <2>2, QuerySelects
    <3> QED
      BY <2>2, <3>1 DEF ActiveWindow, LastOf
  <2> QED
    BY <2>1, <2>2
<1>3. Upcoming(w, at) = FirstOf({start \in Occurrences(w, at) : start > at})
  <2>1. CASE w.recurrence = "none"
    BY <2>1 DEF Upcoming, Found, Occurrences
  <2>2. CASE w.recurrence # "none"
    <3>1. Found(w, at) = Scanned(w, at)
      BY <2>2 DEF Found
    <3>2. Repeating(w)
      BY <2>2 DEF Repeating
    <3> QED
      BY <3>1, <3>2, SameNext DEF Upcoming
  <2> QED
    BY <2>1, <2>2
<1> QED
  BY <1>1, <1>2, <1>3

\* For every change of clocks that is not over midnight, every length of a day
\* and a week and every window the handlers accept, the search that begins with
\* a date, looks at so many dates and stops early answers as a list of all
\* occurrences does, and each begins at its hour (windowOccurrences,
\* activeWindows, instantOf).
THEOREM AllOccurrencesFound == WindowSpec => []OccurrencesFound
<1>1. WindowSpec => []WindowInv
  BY WindowTyped
<1>2. WindowInv => OccurrencesFound
  <2> SUFFICES ASSUME WindowInv PROVE OccurrencesFound
    OBVIOUS
  <2>1. Sound /\ now \in Int
    BY SoundTyped DEF WindowInv
  <2>2. KeepsWallClock
    BY <2>1, WallClock
  <2>3. ASSUME win # NoWindow
        PROVE  /\ ActiveWindow(win, now) = LastOf(Running(win, Occurrences(win, now), now))
               /\ Upcoming(win, now) = FirstOf({start \in Occurrences(win, now) : start > now})
    <3>1. Window(win)
      BY <2>3 DEF WindowInv, WindowOK
    <3> QED
      BY <2>1, <3>1, SearchFinds
  <2> QED
    BY <2>2, <2>3 DEF OccurrencesFound
<1> QED
  BY <1>1, <1>2, PTL

-----------------------------------------------------------------------------
(* Ending one occurrence.                                                  *)

\* Two dates that are chosen are as far apart as maxOccurrenceMs takes them to be.
LEMMA Gap ==
  ASSUME Sound, NEW w, Repeating(w), NEW d \in Int, NEW e \in Int, d < e, Chosen(w, d), Chosen(w, e)
  PROVE  Length(w) <= Midnight(e - d) - 1
<1>1. /\ Window(w) /\ w.recurrence \in {"daily", "weekly"} /\ Length(w) \in Nat
      /\ Length(w) <= MaxOccurrence(w.recurrence, w.days)
      /\ w.days \in SUBSET (0 .. DaysPerWeek - 1)
  <2>1. Window(w) /\ w.recurrence # "none" /\ Acceptable(w)
    BY DEF Repeating, Window
  <2>2. Length(w) <= MaxOccurrence(w.recurrence, w.days)
    BY <2>1 DEF Acceptable
  <2> QED
    BY <2>1, <2>2, WindowFacts
<1>2. /\ HoursPerDay \in Nat /\ HoursPerDay > 1 /\ DaysPerWeek \in Nat /\ DaysPerWeek > 0
      /\ e - d \in Nat /\ e - d >= 1
  BY Constants
<1>3. CASE w.recurrence = "daily"
  <2>1. Length(w) <= HoursPerDay - 1
    BY <1>1, <1>3 DEF MaxOccurrence
  <2>2. Midnight(e - d) >= HoursPerDay /\ Midnight(e - d) \in Int
    <3> DEFINE n == e - d
    <3>1. n \in Int /\ 1 \in Int /\ 1 <= n
      BY <1>2
    <3> HIDE DEF n
    <3>2. Midnight(1) <= Midnight(n) /\ Midnight(1) = HoursPerDay /\ Midnight(n) \in Int
      BY <3>1, Midnights
    <3> QED
      BY <1>2, <3>2 DEF n
  <2> QED
    BY <1>1, <1>2, <2>1, <2>2
<1>4. CASE w.recurrence = "weekly"
  <2> DEFINE gaps == {DaysPerWeek} \cup ({(p - q) % DaysPerWeek : q, p \in w.days} \ {0})
             gap == Least(gaps)
             rest == (e - d) % DaysPerWeek
  <2>1. gaps \in SUBSET Nat /\ gaps # {}
    <3>1. \A p \in w.days, q \in w.days : (p - q) % DaysPerWeek \in 0 .. DaysPerWeek - 1
      <4> TAKE p \in w.days, q \in w.days
      <4>1. p - q \in Int
        BY <1>1, <1>2
      <4> QED
        BY <1>2, <4>1, Quotient
    <3> QED
      BY <1>2, <3>1
  <2>2. gap \in gaps /\ \A x \in gaps : gap <= x
    <3> HIDE DEF gaps
    <3> QED
      BY <2>1, LeastExists
  <2>3. Length(w) <= HoursPerDay * gap - 1
    BY <1>1, <1>4 DEF MaxOccurrence
  <2>4. /\ d % DaysPerWeek \in w.days /\ e % DaysPerWeek \in w.days
    BY <1>4 DEF Chosen
  <2>5. /\ e % DaysPerWeek \in 0 .. DaysPerWeek - 1 /\ e \div DaysPerWeek \in Int
        /\ e = (e \div DaysPerWeek) * DaysPerWeek + (e % DaysPerWeek)
        /\ d % DaysPerWeek \in 0 .. DaysPerWeek - 1 /\ d \div DaysPerWeek \in Int
        /\ d = (d \div DaysPerWeek) * DaysPerWeek + (d % DaysPerWeek)
    BY <1>2, Quotient
  <2>6. rest = ((e % DaysPerWeek) - (d % DaysPerWeek)) % DaysPerWeek
    <3> DEFINE x == (e % DaysPerWeek) - (d % DaysPerWeek)
               a == e \div DaysPerWeek
               b == d \div DaysPerWeek
    <3>1. x \in Int /\ a \in Int /\ b \in Int /\ e - d = (a * DaysPerWeek + x) - b * DaysPerWeek
      BY <1>2, <2>5
    <3> HIDE DEF x, a, b
    <3>2. e - d = (a - b) * DaysPerWeek + x /\ a - b \in Int
      BY <1>2, <3>1
    <3>3. x % DaysPerWeek \in 0 .. DaysPerWeek - 1 /\ x \div DaysPerWeek \in Int
          /\ x = (x \div DaysPerWeek) * DaysPerWeek + (x % DaysPerWeek)
      BY <1>2, <3>1, Quotient
    <3> DEFINE c == x \div DaysPerWeek
               m == x % DaysPerWeek
    <3>4. c \in Int /\ m \in 0 .. DaysPerWeek - 1 /\ x = c * DaysPerWeek + m
      BY <3>3
    <3>5. rest \in 0 .. DaysPerWeek - 1 /\ (e - d) \div DaysPerWeek \in Int
          /\ e - d = ((e - d) \div DaysPerWeek) * DaysPerWeek + rest
      BY <1>2, Quotient
    <3> DEFINE f == (e - d) \div DaysPerWeek
    <3>6. f \in Int /\ e - d = f * DaysPerWeek + rest
      BY <3>5
    <3> HIDE DEF c, m, f, rest
    <3> DEFINE g == (a - b) + c
    <3>7. g * DaysPerWeek + m = f * DaysPerWeek + rest /\ g \in Int
      BY <1>2, <3>1, <3>2, <3>4, <3>6
    <3> HIDE DEF g
    <3>8. m = rest
      BY <1>2, <3>4, <3>5, <3>6, <3>7, OneQuotient
    <3> QED
      BY <3>8 DEF m, x
  <2>7. gap <= e - d
    <3> DEFINE f == (e - d) \div DaysPerWeek
    <3>1. rest \in 0 .. DaysPerWeek - 1 /\ f \in Int /\ e - d = f * DaysPerWeek + rest
      BY <1>2, Quotient
    <3>2. gap \in Nat
      BY <2>1, <2>2
    <3>3. rest # 0 => rest \in gaps
      BY <2>4, <2>6
    <3>4. DaysPerWeek \in gaps
      OBVIOUS
    <3> HIDE DEF f, rest, gap, gaps
    <3>5. ASSUME f < 0 PROVE FALSE
      <4>1. f * DaysPerWeek <= 0 - DaysPerWeek
        BY <1>2, <3>1, <3>5
      <4> QED
        BY <1>2, <3>1, <4>1
    <3>6. f * DaysPerWeek >= 0 /\ (f > 0 => f * DaysPerWeek >= DaysPerWeek)
      BY <1>2, <3>1, <3>5
    <3>7. CASE rest = 0
      <4>1. f > 0
        BY <1>2, <3>1, <3>5, <3>7
      <4>2. gap <= DaysPerWeek
        BY <2>2, <3>4
      <4> QED
        BY <1>2, <3>1, <3>2, <3>6, <4>1, <4>2
    <3>8. CASE rest # 0
      <4>1. gap <= rest
        BY <2>2, <3>3, <3>8
      <4> QED
        BY <1>2, <3>1, <3>2, <3>6, <4>1
    <3> QED
      BY <3>7, <3>8
  <2>8. HoursPerDay * gap <= Midnight(e - d) /\ HoursPerDay * gap \in Int /\ Midnight(e - d) \in Int
    <3>1. gap \in Nat
      BY <2>1, <2>2
    <3> DEFINE n == e - d
    <3> HIDE DEF gap
    <3>2. n \in Int /\ gap \in Int /\ gap <= n
      BY <1>2, <2>7, <3>1
    <3> HIDE DEF n
    <3>3. Midnight(gap) <= Midnight(n) /\ Midnight(n) \in Int /\ Midnight(gap) \in Int
      BY <3>2, Midnights
    <3>4. Midnight(gap) <= Midnight(e - d) /\ Midnight(e - d) \in Int /\ Midnight(gap) \in Int
      BY <3>3 DEF n
    <3>5. HoursPerDay * gap = Midnight(gap)
      BY <1>2, <3>1 DEF Midnight
    <3> QED
      BY <3>4, <3>5
  <2> HIDE DEF gap
  <2> QED
    BY <1>1, <2>3, <2>8
<1> QED
  BY <1>1, <1>3, <1>4

\* So one occurrence is over when the next begins, also where the clocks go forward.
LEMMA NoOverlap ==
  ASSUME Sound, NEW w, Repeating(w), NEW d \in Int, NEW e \in Int, d < e, Chosen(w, d), Chosen(w, e)
  PROVE  StartOn(w, d) + Length(w) <= StartOn(w, e)
<1>1. Window(w) /\ w.startsAt \in Int /\ Length(w) \in Nat
  BY WindowFacts DEF Repeating
<1>2. /\ StartOn(w, e) - StartOn(w, d) >= Midnight(e) - Midnight(d) - 1
      /\ StartOn(w, e) \in Int /\ StartOn(w, d) \in Int
  BY <1>1, Apart, OwnDate
<1>3. /\ Midnight(e) = Midnight(d) + Midnight(e - d)
      /\ Midnight(e) \in Int /\ Midnight(d) \in Int /\ Midnight(e - d) \in Int
  <2>1. e - d \in Int /\ d + (e - d) = e
    OBVIOUS
  <2> QED
    BY <2>1, Midnights
<1> QED
  BY <1>1, <1>2, <1>3, Gap

\* An occurrence that ended early before the one that runs now is over, with its
\* early end and without it.
LEMMA EndedBefore ==
  ASSUME Sound, NEW w, Repeating(w), NEW at \in Int, w.endedStart <= w.endedAt, w.endedAt <= at,
         Current(w, at) # Null, w.endedStart # Current(w, at),
         NEW day \in Int, Begins(w, day), ~Past(w, day), StartOn(w, day) = w.endedStart
  PROVE  w.endedStart + Length(w) <= at
<1> DEFINE c == Current(w, at)
           s == w.endedStart
           l == Length(w)
<1>1. Window(w)
  BY DEF Repeating
<1>2. s \in Int /\ w.endedAt \in Int /\ l \in Nat /\ l > 0
  BY <1>1, WindowFacts
<1>3. Running(w, Found(w, at), at) = Running(w, Occurrences(w, at), at)
  BY <1>1, SearchFinds
<1>4. /\ c \in Running(w, Occurrences(w, at), at) /\ c \in Nat
      /\ \A r \in Running(w, Occurrences(w, at), at) : r <= c
  BY <1>1, <1>3, CurrentIs
<1>5. c \in Occurrences(w, at) /\ c <= at /\ at <= End(w, c)
  BY <1>4 DEF Running
<1>6. PICK date \in Dates(w, at) : Begins(w, date) /\ c = StartOn(w, date)
  BY <1>5, OccurrencesAre
<1>7. date \in Int
  BY <1>1, SearchRange
<1>8. End(w, c) \in Int /\ End(w, c) <= c + l
  BY <1>1, <1>4, EndFacts
<1> HIDE DEF c, s, l
<1>9. at <= c + l
  BY <1>2, <1>4, <1>5, <1>8
<1>10. CASE day < date
  <2>1. s + l <= c
    BY <1>6, <1>7, <1>10, NoOverlap DEF Begins, s, l
  <2> QED
    BY <1>2, <1>4, <1>5, <2>1 DEF s, l
<1>11. CASE day = date
  BY <1>6, <1>11 DEF c
<1>12. CASE date < day
  <2>1. c + l <= s
    BY <1>6, <1>7, <1>12, NoOverlap DEF Begins, s, l
  <2>2. s = at /\ w.endedAt = at
    BY <1>2, <1>4, <1>9, <2>1 DEF s
  <2>3. at <= s + l
    BY <1>2, <2>2
  <2>4. day \in Dates(w, at)
    BY <1>1, <2>2, <2>3, RunningSearched DEF Begins, s, l
  <2>5. s \in Occurrences(w, at)
    BY <2>4, OccurrencesAre DEF s
  <2>6. End(w, s) = at
    <3>1. End(w, s) = Least({w.endedAt, s + l})
      BY DEF End, s, l, Repeating
    <3>2. s + l \in Int
      BY <1>2
    <3>3. Least({w.endedAt, s + l}) = IF w.endedAt <= s + l THEN w.endedAt ELSE s + l
      BY <1>2, <3>2, Pairs
    <3> QED
      BY <2>2, <2>3, <3>1, <3>3
  <2>7. s \in Running(w, Occurrences(w, at), at)
    BY <2>2, <2>5, <2>6 DEF Running
  <2>8. s <= c
    BY <1>4, <2>7
  <2> QED
    BY <1>2, <1>4, <2>1, <2>8
<1> QED
  BY <1>7, <1>10, <1>11, <1>12

\* From two hours later on, the occurrence that was ended is missing and no other.
LEMMA EndsOne ==
  ASSUME WindowInv, EndNow, NEW at \in Int, at >= now + 2
  PROVE  Running(win', Occurrences(win', at), at)
           = Running(win, Occurrences(win, at), at) \ {Current(win, now)}
<1> DEFINE c == Current(win, now)
           l == Length(win)
<1>1. win # NoWindow /\ c # Null /\ win' = Ended(win, c, now)
  BY DEF EndNow
<1>2. Window(win) /\ win.endedStart <= win.endedAt /\ win.endedAt <= now
  BY <1>1 DEF WindowInv, WindowOK
<1>3. Sound /\ now \in Nat
  BY SoundTyped DEF WindowInv
<1>4. c \in Nat /\ c <= now /\ c \in Found(win, now)
  BY <1>1, <1>2, <1>3, CurrentIs DEF Running
<1>5. /\ win.startsAt \in Nat /\ win.endsAt \in Nat /\ l \in Nat /\ win.endedStart \in Int
      /\ win.endedAt \in Int
  BY <1>2, <1>3, WindowFacts
<1>6. win \in Windows /\ WindowInv'
  BY <1>2, WindowEnded DEF Window
<1>7. win' \in Windows /\ Acceptable(win')
  <2>1. win' # NoWindow
    <3>1. Ended(win, c, now).recurrence = win.recurrence
      BY <1>6 DEF Ended, Windows
    <3>2. win.recurrence \in {"none", "daily", "weekly"}
      BY <1>6 DEF Windows, Recurrences
    <3>3. NoWindow.recurrence = "no window"
      BY DEF NoWindow
    <3>4. "no window" \notin {"none", "daily", "weekly"}
      OBVIOUS
    <3> QED
      BY <1>1, <3>1, <3>2, <3>3, <3>4
  <2> QED
    BY <1>6, <2>1 DEF WindowInv, WindowOK, Window
<1>8. CASE win.recurrence = "none"
  <2> DEFINE last == Greatest({now, win.startsAt + 1})
  <2>1. c = win.startsAt
    BY <1>4, <1>8 DEF Found
  <2>2. last \in Int /\ last < at
    BY <1>3, <1>4, <1>5, <2>1, Pairs
  <2> HIDE DEF last
  <2>3. win'.startsAt = win.startsAt /\ win'.recurrence = "none" /\ win'.endsAt = last
    BY <1>1, <1>6, <1>8 DEF Ended, Windows, last
  <2>4. End(win', win.startsAt) = last
    BY <1>5, <2>2, <2>3 DEF End, Length
  <2>5. Occurrences(win', at) = {win.startsAt} /\ Occurrences(win, at) = {win.startsAt}
    BY <1>8, <2>3 DEF Occurrences
  <2>6. ~(at <= End(win', win.startsAt))
    BY <2>2, <2>4
  <2>7. Running(win', Occurrences(win', at), at) = {}
    BY <2>5, <2>6 DEF Running
  <2>8. Running(win, Occurrences(win, at), at) \subseteq {c}
    BY <2>1, <2>5 DEF Running
  <2> QED
    BY <2>7, <2>8
<1>9. CASE win.recurrence # "none"
  <2> DEFINE all == Occurrences(win, at)
  <2>1. win' = [win EXCEPT !.endedStart = c, !.endedAt = now]
    BY <1>1, <1>9 DEF Ended
  <2>2. /\ win'.startsAt = win.startsAt /\ win'.endsAt = win.endsAt
        /\ win'.recurrence = win.recurrence
        /\ win'.days = win.days /\ win'.until = win.until
        /\ win'.endedStart = c /\ win'.endedAt = now
    BY <1>6, <2>1 DEF Windows
  <2>3. Repeating(win) /\ Repeating(win') /\ Window(win')
    BY <1>2, <1>7, <1>9, <2>2 DEF Repeating, Window
  <2>4. Length(win') = l
    BY <2>2 DEF Length
  <2>5. Occurrences(win', at) = all
    BY <2>2 DEF Occurrences, Dates, Chosen, StartOn
  <2>6. ASSUME NEW s \in all PROVE s \in Int
    BY <1>2, <1>3, <2>3, <2>6, OccurrencesAre, SearchRange, OwnDate
  <2>7. ASSUME NEW s \in all, s <= at, at <= End(win', s)
        PROVE  s # c /\ at <= End(win, s)
    <3>1. s \in Int
      BY <2>6, <2>7
    <3>2. /\ End(win', s) \in Int /\ End(win', s) <= s + l
          /\ s = c => End(win', s) <= now
      BY <1>3, <2>2, <2>3, <2>4, <3>1, <1>9, EndFacts
    <3>3. s # c
      BY <1>3, <2>7, <3>2
    <3>4. s # win.endedStart
      <4> SUFFICES ASSUME s = win.endedStart PROVE FALSE
        OBVIOUS
      <4>1. PICK day \in Dates(win, at) : Begins(win, day) /\ s = StartOn(win, day) /\ ~Past(win, day)
        BY <1>3, <2>3, <2>7, OccurrencesAre
      <4>2. day \in Int
        BY <1>2, <1>3, SearchRange
      <4>3. win.endedStart + l <= now
        <5>1. now \in Int /\ StartOn(win, day) = win.endedStart /\ win.endedStart # c
          BY <1>3, <3>3, <4>1
        <5> QED
          BY <1>1, <1>2, <1>3, <2>3, <4>1, <4>2, <5>1, EndedBefore
      <4> HIDE DEF l, c
      <4> QED
        BY <1>3, <1>5, <2>7, <3>1, <3>2, <4>3
    <3>5. End(win, s) = s + l
      BY <1>2, <1>3, <3>1, <3>4, EndFacts
    <3> QED
      BY <1>5, <2>7, <3>1, <3>2, <3>3, <3>5
  <2>8. ASSUME NEW s \in all, s <= at, at <= End(win, s), s # c
        PROVE  at <= End(win', s)
    <3>1. s \in Int
      BY <2>6, <2>8
    <3>2. End(win, s) \in Int /\ End(win, s) <= s + l
      BY <1>2, <1>3, <3>1, EndFacts
    <3>3. End(win', s) = s + l
      BY <1>3, <2>2, <2>3, <2>4, <2>8, <3>1, EndFacts
    <3> QED
      BY <1>5, <2>8, <3>1, <3>2, <3>3
  <2> HIDE DEF all
  <2>9. Running(win', all, at) = Running(win, all, at) \ {c}
    BY <2>7, <2>8 DEF Running
  <2> QED
    BY <2>5, <2>9 DEF all
<1> QED
  BY <1>8, <1>9

\* From then on the occurrence that was ended does not run, every other does as
\* before, and one that had been ended earlier does not come back when its early
\* end is overwritten: the length that windowProblem allows keeps two
\* occurrences apart across every change of clocks (POST /maintenance/:id/end).
THEOREM EndingCutsOne == WindowSpec => EndCutsOne
<1> DEFINE Cut == EndNow =>
             \A at \in now + 2 .. LastHour + 2 * HoursPerDay :
               Running(win', Occurrences(win', at), at)
                 = Running(win, Occurrences(win, at), at) \ {Current(win, now)}
<1>1. WindowSpec => []WindowInv
  BY WindowTyped
<1>2. ASSUME WindowInv, [WindowNext]_windowVars PROVE [Cut]_windowVars
  <2> SUFFICES ASSUME EndNow, NEW at \in now + 2 .. LastHour + 2 * HoursPerDay
               PROVE  Running(win', Occurrences(win', at), at)
                        = Running(win, Occurrences(win, at), at) \ {Current(win, now)}
    OBVIOUS
  <2>1. now \in Int /\ LastHour \in Int /\ HoursPerDay \in Int
    BY <1>2, SoundTyped, MaintenanceAssumption DEF WindowInv, Calendars
  <2>2. at \in Int /\ at >= now + 2
    BY <2>1
  <2> QED
    BY <1>2, <2>2, EndsOne
<1>3. EndCutsOne <=> [][Cut]_windowVars
  BY DEF EndCutsOne
<1> HIDE DEF Cut
<1> QED
  BY <1>1, <1>2, <1>3, PTL DEF WindowSpec
===============================================================================
