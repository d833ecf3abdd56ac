------------------------- MODULE CheckSchedulerProofs -------------------------
(***************************************************************************)
(* Theorems about CheckScheduler, for every finite set of monitors, any    *)
(* number of overlapping ticks and any limits.                             *)
(***************************************************************************)
EXTENDS CheckScheduler, FiniteSetTheorems, SequenceTheorems, TLAPS

Distinct(q) == \A i, j \in DOMAIN q : i # j => q[i] # q[j]

Elems(q) == {q[i] : i \in DOMAIN q}

\* The monitors that hold a slot according to `jobs`.
HoldingIn(jobs) == {m \in Monitors : jobs[m] \in {"granted", "running"}}

WaitingIn(jobs) == {m \in Monitors : jobs[m] = "waiting"}

\* The number of checks that are let in is in range, respects the limit and
\* leaves no slot free while somebody waits.
LEMMA HandedOutBounds ==
  ASSUME NEW q \in Seq(Monitors), NEW limit \in Nat \ {0}, NEW inUse \in Nat
  PROVE  /\ HandedOut(q, limit, inUse) \in 0 .. Len(q)
         /\ HandedOut(q, limit, inUse) > 0 => inUse + HandedOut(q, limit, inUse) <= limit
         /\ HandedOut(q, limit, inUse) < Len(q) => inUse + HandedOut(q, limit, inUse) >= limit
BY LenProperties DEF HandedOut, Least, Free

\* A queue cut in two: the front and the rest are disjoint and together the queue.
LEMMA CutQueue ==
  ASSUME NEW q \in Seq(Monitors), Distinct(q), NEW n \in 0 .. Len(q)
  PROVE  LET rest == SubSeq(q, n + 1, Len(q))
             front == {q[i] : i \in 1 .. n}
         IN  /\ rest \in Seq(Monitors)
             /\ Len(rest) = Len(q) - n
             /\ Distinct(rest)
             /\ Elems(rest) = Elems(q) \ front
             /\ front \subseteq Elems(q)
             /\ IsFiniteSet(front)
             /\ Cardinality(front) = n
<1> DEFINE rest == SubSeq(q, n + 1, Len(q))
           front == {q[i] : i \in 1 .. n}
<1>1. Len(q) \in Nat /\ DOMAIN q = 1 .. Len(q)
  BY LenProperties
<1>2. /\ rest \in Seq(Monitors)
      /\ Len(rest) = Len(q) - n
      /\ DOMAIN rest = 1 .. Len(q) - n
      /\ \A i \in 1 .. Len(q) - n : rest[i] = q[n + i]
  <2>1. CASE n = Len(q)
    <3>1. rest = << >>
      BY <1>1, <2>1, SubSeqEmpty
    <3> QED
      BY <1>1, <2>1, <3>1
  <2>2. CASE n # Len(q)
    <3>1. n + 1 \in 1 .. Len(q)
      <4>1. Len(q) \in Nat
        BY <1>1
      <4> QED
        BY <2>2, <4>1
    <3> QED
      BY <1>1, <3>1, SubSeqProperties, LenProperties
  <2> QED
    BY <2>1, <2>2
<1>3. Distinct(rest)
  <2> SUFFICES ASSUME NEW i \in 1 .. Len(q) - n, NEW j \in 1 .. Len(q) - n, i # j
               PROVE  q[n + i] # q[n + j]
    BY <1>2 DEF Distinct
  <2>1. n + i \in DOMAIN q /\ n + j \in DOMAIN q /\ n + i # n + j
    BY <1>1
  <2> QED
    BY <2>1 DEF Distinct
<1>4. Elems(rest) = Elems(q) \ front
  <2>1. ASSUME NEW i \in 1 .. Len(q) - n
        PROVE  rest[i] \in Elems(q) \ front
    <3>1. n + i \in DOMAIN q /\ \A j \in 1 .. n : j \in DOMAIN q /\ j # n + i
      BY <1>1
    <3> QED
      BY <1>2, <3>1 DEF Distinct, Elems
  <2>2. ASSUME NEW k \in DOMAIN q, q[k] \notin front
        PROVE  q[k] \in Elems(rest)
    <3>1. k \notin 1 .. n
      BY <2>2
    <3>2. k - n \in 1 .. Len(q) - n /\ n + (k - n) = k
      BY <1>1, <3>1
    <3>3. rest[k - n] = q[k]
      BY <1>2, <3>2
    <3> QED
      BY <1>2, <3>2, <3>3 DEF Elems
  <2> QED
    BY <1>2, <2>1, <2>2 DEF Elems
<1>5. front \subseteq Elems(q)
  BY <1>1 DEF Elems
<1>6. IsFiniteSet(front) /\ Cardinality(front) = n
  <2> DEFINE f == [i \in 1 .. n |-> q[i]]
  <2>1. f \in Surjection(1 .. n, front)
    BY DEF Surjection
  <2>2. f \in Injection(1 .. n, front)
    <3>1. \A i, j \in 1 .. n : i # j => q[i] # q[j]
      BY <1>1 DEF Distinct
    <3> QED
      BY <3>1 DEF Injection, IsInjective
  <2>3. IsFiniteSet(1 .. n) /\ Cardinality(1 .. n) = n
    BY FS_Interval
  <2> HIDE DEF f, front
  <2> QED
    BY <2>1, <2>2, <2>3, FS_Surjection
<1> QED
  BY <1>2, <1>3, <1>4, <1>5, <1>6

LEMMA SameCardinality == \A S : Contract!Cardinality(S) = Cardinality(S)
BY DEF Contract!Cardinality, Cardinality

\* What handing out slots establishes from a queue of exactly the waiting jobs.
LEMMA HandOut ==
  ASSUME NEW q \in Seq(Monitors), NEW limit \in Nat \ {0}, NEW inUse \in Nat,
         NEW jobs \in [Monitors -> JobStates],
         Distinct(q), Elems(q) = WaitingIn(jobs),
         inUse = Cardinality(HoldingIn(jobs)),
         HandOutSlots(q, limit, inUse, jobs)
  PROVE  /\ slotLimit' = limit
         /\ slotsInUse' \in Nat
         /\ slotWaiters' \in Seq(Monitors)
         /\ job' \in [Monitors -> JobStates]
         /\ SlotsAccounted'
         /\ NoIdleSlot'
         /\ \A m \in Monitors : job'[m] = "none" <=> jobs[m] = "none"
         /\ Contract!Serve(HoldingIn(jobs), q)
<1> DEFINE n == HandedOut(q, limit, inUse)
           front == {q[i] : i \in 1 .. n}
           rest == SubSeq(q, n + 1, Len(q))
<1>1. /\ n \in 0 .. Len(q)
      /\ n > 0 => inUse + n <= limit
      /\ n < Len(q) => inUse + n >= limit
  BY HandedOutBounds
<1>2. /\ rest \in Seq(Monitors)
      /\ Len(rest) = Len(q) - n
      /\ Distinct(rest)
      /\ Elems(rest) = Elems(q) \ front
      /\ front \subseteq Elems(q)
      /\ IsFiniteSet(front)
      /\ Cardinality(front) = n
  BY <1>1, CutQueue
<1>3. Served(q, limit, inUse) = front
  BY DEF Served
<1> HIDE DEF n, front, rest
<1>4. /\ slotLimit' = limit
      /\ slotsInUse' = inUse + n
      /\ slotWaiters' = rest
      /\ job' = [m \in Monitors |-> IF m \in front THEN "granted" ELSE jobs[m]]
  BY <1>3 DEF HandOutSlots, n, rest
<1>5. front \subseteq WaitingIn(jobs)
  BY <1>2
<1>6. Holding' = HoldingIn(jobs) \cup front
  BY <1>4, <1>5 DEF Holding, HoldingIn, WaitingIn
<1>7. Cardinality(Holding') = inUse + n
  <2>1. IsFiniteSet(HoldingIn(jobs))
    BY SchedulerAssumption, FS_Subset DEF HoldingIn
  <2>2. HoldingIn(jobs) \cap front = {}
    BY <1>5 DEF HoldingIn, WaitingIn
  <2>3. Cardinality(HoldingIn(jobs) \cap front) = 0
    BY <2>2, FS_EmptySet
  <2>4. Cardinality(Holding') = inUse + n - 0
    BY <1>2, <1>6, <2>1, <2>3, FS_Union
  <2> QED
    BY <1>1, <2>4
<1>8. Queued' = {m \in Monitors : job'[m] = "waiting"}
  <2>1. Queued' = WaitingIn(jobs) \ front
    BY <1>2, <1>4 DEF Queued, Elems
  <2> QED
    BY <1>4, <2>1 DEF WaitingIn
<1>9. NoIdleSlot'
  <2>1. slotWaiters' # << >> => n < Len(q)
    BY <1>1, <1>2, <1>4, LenProperties, EmptySeq
  <2> QED
    BY <1>1, <1>4, <2>1 DEF NoIdleSlot
<1>10. /\ job' \in [Monitors -> JobStates]
       /\ \A m \in Monitors : job'[m] = "none" <=> jobs[m] = "none"
  BY <1>4, <1>5 DEF JobStates, WaitingIn
<1>11. slotsInUse' \in Nat
  BY <1>1, <1>4, LenProperties
<1>12. \A i, j \in DOMAIN slotWaiters' : i # j => slotWaiters'[i] # slotWaiters'[j]
  BY <1>2, <1>4 DEF Distinct
<1>13. SlotsAccounted'
  BY <1>4, <1>7, <1>8, <1>12 DEF SlotsAccounted
<1>14. Contract!Serve(HoldingIn(jobs), q)
  <2>1. /\ Holding' = HoldingIn(jobs) \cup Contract!First(n, q)
        /\ slotWaiters' = SubSeq(q, n + 1, Len(q))
    BY <1>4, <1>6 DEF Contract!First, front, rest
  <2> QED
    BY <1>1, <1>4, <1>7, <2>1, SameCardinality DEF Contract!Serve
<1> QED
  BY <1>2, <1>4, <1>9, <1>10, <1>11, <1>13, <1>14

\* Every job belongs to a tick that is checking, and such a tick holds only jobs.
JobsOfTicks ==
  \A m \in Monitors :
    job[m] # "none" <=> \E t \in Ticks : tick[t].phase = "checking" /\ m \in tick[t].of

\* After the database was closed, requests and ticks stay ended.
Ended == closed => stopped /\ manual = {} /\ Drained

IInv ==
  /\ TypeOK
  /\ SlotsAccounted
  /\ NoIdleSlot
  /\ OneCheckPerMonitor
  /\ JobsOfTicks
  /\ Ended

\* A job that holds a slot ends; the slot accounting carries over.
LEMMA ReleaseStep ==
  ASSUME IInv, NEW m \in Monitors, job[m] \in {"granted", "running"}, Release(m)
  PROVE  /\ slotLimit' = slotLimit
         /\ slotsInUse' \in Nat
         /\ slotWaiters' \in Seq(Monitors)
         /\ job' \in [Monitors -> JobStates]
         /\ SlotsAccounted'
         /\ NoIdleSlot'
         /\ \A p \in Monitors : job'[p] = "none" <=> p = m \/ job[p] = "none"
         /\ tick' \in [Ticks -> [phase : {"idle", "reading", "checking"}, of : SUBSET Monitors]]
         /\ \A t \in Ticks : tick'[t].phase = tick[t].phase
         /\ \A t \in Ticks : tick[t].phase = "checking" => tick'[t].of = tick[t].of \ {m}
         /\ Contract!Leave
<1> DEFINE jobs == [job EXCEPT ![m] = "none"]
<1>1. jobs \in [Monitors -> JobStates]
  BY DEF IInv, TypeOK, JobStates
<1>2. HoldingIn(jobs) = Holding \ {m} /\ m \in Holding /\ WaitingIn(jobs) = WaitingIn(job)
  BY DEF HoldingIn, WaitingIn, Holding, IInv, TypeOK
<1>3. IsFiniteSet(Holding)
  BY SchedulerAssumption, FS_Subset DEF Holding
<1>4. slotsInUse - 1 = Cardinality(HoldingIn(jobs))
  BY <1>2, <1>3, FS_RemoveElement DEF IInv, SlotsAccounted
<1>5. slotsInUse - 1 \in Nat
  <2>1. IsFiniteSet(HoldingIn(jobs))
    BY <1>2, <1>3, FS_Subset
  <2> QED
    BY <1>4, <2>1, FS_CardinalityType
<1>6. Distinct(slotWaiters) /\ Elems(slotWaiters) = WaitingIn(jobs)
  BY <1>2 DEF IInv, SlotsAccounted, Distinct, Elems, Queued, WaitingIn
<1>7. HandOutSlots(slotWaiters, slotLimit, slotsInUse - 1, jobs)
  BY DEF Release, InUseAfter
<1>8. slotWaiters \in Seq(Monitors) /\ slotLimit \in Nat \ {0}
  BY DEF IInv, TypeOK
<1> HIDE DEF jobs
<1>9. /\ slotLimit' = slotLimit
      /\ slotsInUse' \in Nat
      /\ slotWaiters' \in Seq(Monitors)
      /\ job' \in [Monitors -> JobStates]
      /\ SlotsAccounted'
      /\ NoIdleSlot'
      /\ \A p \in Monitors : job'[p] = "none" <=> jobs[p] = "none"
      /\ Contract!Serve(HoldingIn(jobs), slotWaiters)
  BY <1>1, <1>4, <1>5, <1>6, <1>7, <1>8, HandOut
<1>10. \A p \in Monitors : jobs[p] = "none" <=> p = m \/ job[p] = "none"
  BY DEF jobs, IInv, TypeOK
<1>11. /\ tick' \in [Ticks -> [phase : {"idle", "reading", "checking"}, of : SUBSET Monitors]]
       /\ \A t \in Ticks : tick'[t].phase = tick[t].phase
       /\ \A t \in Ticks : tick[t].phase = "checking" => tick'[t].of = tick[t].of \ {m}
  <2>1. tick \in [Ticks -> [phase : {"idle", "reading", "checking"}, of : SUBSET Monitors]]
    BY DEF IInv, TypeOK
  <2>2. tick' = [t \in Ticks |->
                   IF m \in tick[t].of /\ tick[t].phase = "checking"
                   THEN [tick[t] EXCEPT !.of = @ \ {m}]
                   ELSE tick[t]]
    BY DEF Release
  <2> QED
    BY <2>1, <2>2
<1>12. Contract!Leave
  BY <1>2, <1>9 DEF Contract!Leave
<1> QED
  BY <1>9, <1>10, <1>11, <1>12

\* The three ways in which a job ends keep the invariant.
LEMMA JobEnds ==
  ASSUME IInv, NEW m \in Monitors, job[m] \in {"granted", "running"}, Release(m),
         due' \subseteq Monitors, UNCHANGED <<exists, manual, stopped, closed>>
  PROVE  IInv'
<1>1. /\ slotLimit' = slotLimit
      /\ slotsInUse' \in Nat
      /\ slotWaiters' \in Seq(Monitors)
      /\ job' \in [Monitors -> JobStates]
      /\ SlotsAccounted'
      /\ NoIdleSlot'
      /\ \A p \in Monitors : job'[p] = "none" <=> p = m \/ job[p] = "none"
      /\ tick' \in [Ticks -> [phase : {"idle", "reading", "checking"}, of : SUBSET Monitors]]
      /\ \A t \in Ticks : tick'[t].phase = tick[t].phase
      /\ \A t \in Ticks : tick[t].phase = "checking" => tick'[t].of = tick[t].of \ {m}
  BY ReleaseStep
<1>2. inFlight' = inFlight \ {m}
  BY DEF Release
<1>3. TypeOK'
  BY <1>1, <1>2 DEF IInv, TypeOK
<1>4. OneCheckPerMonitor'
  <2>1. m \notin manual
    BY DEF IInv, OneCheckPerMonitor
  <2>2. /\ inFlight = {p \in Monitors : job[p] # "none"} \cup manual
        /\ \A p \in manual : p \in Monitors /\ job[p] = "none"
    BY DEF IInv, OneCheckPerMonitor, TypeOK
  <2>3. inFlight' = {p \in Monitors : job'[p] # "none"} \cup manual
    BY <1>1, <1>2, <2>1, <2>2
  <2>4. \A t, u \in Ticks :
          t # u /\ tick'[t].phase = "checking" /\ tick'[u].phase = "checking"
            => tick'[t].of \cap tick'[u].of = {}
    <3>1. \A t, u \in Ticks :
            t # u /\ tick[t].phase = "checking" /\ tick[u].phase = "checking"
              => tick[t].of \cap tick[u].of = {}
      BY DEF IInv, OneCheckPerMonitor
    <3> QED
      BY <1>1, <3>1
  <2> QED
    BY <1>1, <2>2, <2>3, <2>4 DEF OneCheckPerMonitor
<1>5. JobsOfTicks'
  BY <1>1 DEF IInv, JobsOfTicks
<1>6. Ended'
  BY <1>1 DEF IInv, Ended, Drained
<1> QED
  BY <1>1, <1>3, <1>4, <1>5, <1>6 DEF IInv

\* The due monitors of a tick come in some order, each once.
LEMMA OrderOf ==
  ASSUME NEW S \in SUBSET Monitors, NEW q \in Orders(S)
  PROVE  q \in Seq(Monitors) /\ Distinct(q) /\ Elems(q) = S
<1> DEFINE n == Cardinality(S)
<1>1. IsFiniteSet(S) /\ n \in Nat
  BY SchedulerAssumption, FS_Subset, FS_CardinalityType
<1>2. q \in [1 .. n -> S] /\ \A i, j \in DOMAIN q : i # j => q[i] # q[j]
  BY DEF Orders
<1>3. q \in Injection(1 .. n, S)
  BY <1>2 DEF Injection, IsInjective
<1>4. Cardinality(1 .. n) = n
  BY <1>1, FS_Interval
<1>5. q \in Surjection(1 .. n, S)
  BY <1>1, <1>3, <1>4, FS_Injection
<1>6. Elems(q) = S
  BY <1>2, <1>5 DEF Surjection, Elems
<1>7. q \in Seq(Monitors)
  BY <1>1, <1>2, IsASeq
<1> QED
  BY <1>2, <1>6, <1>7 DEF Distinct

\* Two disjoint lines one after the other.
LEMMA JoinLines ==
  ASSUME NEW p \in Seq(Monitors), NEW q \in Seq(Monitors), Distinct(p), Distinct(q),
         Elems(p) \cap Elems(q) = {}
  PROVE  p \o q \in Seq(Monitors) /\ Distinct(p \o q) /\ Elems(p \o q) = Elems(p) \cup Elems(q)
<1>1. Len(p) \in Nat /\ Len(q) \in Nat
  BY LenProperties
<1>2. DOMAIN p = 1 .. Len(p) /\ DOMAIN q = 1 .. Len(q)
  BY LenProperties
<1>3. /\ p \o q \in Seq(Monitors)
      /\ DOMAIN (p \o q) = 1 .. Len(p) + Len(q)
      /\ \A i \in 1 .. Len(p) + Len(q) :
           (p \o q)[i] = IF i <= Len(p) THEN p[i] ELSE q[i - Len(p)]
  BY ConcatProperties, LenProperties
<1>4. \A i \in 1 .. Len(p) + Len(q) :
        \/ i \in DOMAIN p /\ (p \o q)[i] = p[i]
        \/ i - Len(p) \in DOMAIN q /\ (p \o q)[i] = q[i - Len(p)]
  BY <1>1, <1>2, <1>3
<1>5. Distinct(p \o q)
  <2> SUFFICES ASSUME NEW i \in 1 .. Len(p) + Len(q), NEW j \in 1 .. Len(p) + Len(q), i # j
               PROVE  (p \o q)[i] # (p \o q)[j]
    BY <1>3 DEF Distinct
  <2>1. i - Len(p) # j - Len(p)
    BY <1>1
  <2>2. \A k \in DOMAIN p, l \in DOMAIN q : p[k] # q[l]
    BY DEF Elems
  <2>3. CASE (p \o q)[i] = p[i] /\ i \in DOMAIN p
    <3>1. CASE (p \o q)[j] = p[j] /\ j \in DOMAIN p
      BY <2>3, <3>1 DEF Distinct
    <3>2. CASE (p \o q)[j] = q[j - Len(p)] /\ j - Len(p) \in DOMAIN q
      BY <2>2, <2>3, <3>2
    <3> QED
      BY <1>4, <3>1, <3>2
  <2>4. CASE (p \o q)[i] = q[i - Len(p)] /\ i - Len(p) \in DOMAIN q
    <3>1. CASE (p \o q)[j] = p[j] /\ j \in DOMAIN p
      BY <2>2, <2>4, <3>1
    <3>2. CASE (p \o q)[j] = q[j - Len(p)] /\ j - Len(p) \in DOMAIN q
      BY <2>1, <2>4, <3>2 DEF Distinct
    <3> QED
      BY <1>4, <3>1, <3>2
  <2> QED
    BY <1>4, <2>3, <2>4
<1>6. Elems(p) \cup Elems(q) \subseteq Elems(p \o q)
  <2>1. ASSUME NEW i \in DOMAIN p
        PROVE  p[i] \in Elems(p \o q)
    <3>1. i \in 1 .. Len(p) + Len(q) /\ i <= Len(p)
      BY <1>1, <1>2
    <3> QED
      BY <1>3, <3>1 DEF Elems
  <2>2. ASSUME NEW i \in DOMAIN q
        PROVE  q[i] \in Elems(p \o q)
    <3>1. Len(p) + i \in 1 .. Len(p) + Len(q) /\ ~(Len(p) + i <= Len(p))
             /\ (Len(p) + i) - Len(p) = i
      BY <1>1, <1>2
    <3>2. (p \o q)[Len(p) + i] = q[i]
      BY <1>3, <3>1
    <3> QED
      BY <1>3, <3>1, <3>2 DEF Elems
  <2> QED
    BY <2>1, <2>2 DEF Elems
<1>7. Elems(p \o q) \subseteq Elems(p) \cup Elems(q)
  BY <1>3, <1>4 DEF Elems
<1> QED
  BY <1>3, <1>5, <1>6, <1>7

\* A tick claims: the slot accounting carries over.
LEMMA ClaimStep ==
  ASSUME IInv, NEW t \in Ticks, NEW limit \in Limits, TickClaims(t, limit)
  PROVE  IInv' /\ Contract!Join
<1> DEFINE C == Claimable(t)
           jobs == [m \in Monitors |-> IF m \in C THEN "waiting" ELSE job[m]]
<1>1. /\ tick[t].phase = "reading"
      /\ inFlight' = inFlight \cup C
      /\ tick' = [tick EXCEPT ![t] = [phase |-> "checking", of |-> C]]
      /\ UNCHANGED <<exists, due, manual, stopped, closed>>
  BY DEF TickClaims
<1>2. PICK order \in Orders(C) : HandOutSlots(slotWaiters \o order, limit, slotsInUse, jobs)
  BY DEF TickClaims, Line
<1>3. C \subseteq Monitors /\ C \cap inFlight = {}
  BY DEF Claimable, IInv, TypeOK
<1>4. \A m \in C : job[m] = "none"
  BY <1>3 DEF IInv, OneCheckPerMonitor
<1>5. jobs \in [Monitors -> JobStates]
  BY DEF IInv, TypeOK, JobStates
<1> HIDE DEF C
<1>6. HoldingIn(jobs) = Holding /\ WaitingIn(jobs) = Queued \cup C
  BY <1>3, <1>4 DEF HoldingIn, WaitingIn, Holding, IInv, SlotsAccounted
<1>7. order \in Seq(Monitors) /\ Distinct(order) /\ Elems(order) = C
  BY <1>3, OrderOf
<1>8. slotWaiters \in Seq(Monitors) /\ Distinct(slotWaiters) /\ Elems(slotWaiters) = Queued
  BY DEF IInv, TypeOK, SlotsAccounted, Distinct, Elems, Queued
<1>9. Queued \cap C = {}
  BY <1>4 DEF IInv, SlotsAccounted
<1>10. /\ slotWaiters \o order \in Seq(Monitors)
       /\ Distinct(slotWaiters \o order)
       /\ Elems(slotWaiters \o order) = WaitingIn(jobs)
  BY <1>6, <1>7, <1>8, <1>9, JoinLines
<1>11. /\ slotsInUse \in Nat
       /\ slotsInUse = Cardinality(HoldingIn(jobs))
       /\ limit \in Nat \ {0}
  BY <1>6, SchedulerAssumption DEF IInv, TypeOK, SlotsAccounted
<1>12. /\ slotLimit' = limit
       /\ slotsInUse' \in Nat
       /\ slotWaiters' \in Seq(Monitors)
       /\ job' \in [Monitors -> JobStates]
       /\ SlotsAccounted'
       /\ NoIdleSlot'
       /\ \A m \in Monitors : job'[m] = "none" <=> jobs[m] = "none"
       /\ Contract!Serve(Holding, slotWaiters \o order)
  <2> HIDE DEF jobs
  <2> QED
    BY <1>2, <1>5, <1>6, <1>10, <1>11, HandOut
<1>13. \A m \in Monitors : job'[m] # "none" <=> m \in C \/ job[m] # "none"
  BY <1>12
<1>14. /\ tick' \in [Ticks -> [phase : {"idle", "reading", "checking"}, of : SUBSET Monitors]]
       /\ tick'[t] = [phase |-> "checking", of |-> C]
       /\ \A u \in Ticks : u # t => tick'[u] = tick[u]
  BY <1>1, <1>3 DEF IInv, TypeOK
<1>15. TypeOK'
  BY <1>1, <1>3, <1>11, <1>12, <1>14 DEF IInv, TypeOK
<1>16. JobsOfTicks'
  <2> SUFFICES ASSUME NEW m \in Monitors
               PROVE  job'[m] # "none" <=>
                        \E u \in Ticks : tick'[u].phase = "checking" /\ m \in tick'[u].of
    BY DEF JobsOfTicks
  <2>1. job[m] # "none" <=> \E u \in Ticks : tick[u].phase = "checking" /\ m \in tick[u].of
    BY DEF IInv, JobsOfTicks
  <2> QED
    BY <1>1, <1>13, <1>14, <2>1
<1>17. OneCheckPerMonitor'
  <2>1. inFlight' = {m \in Monitors : job'[m] # "none"} \cup manual'
    BY <1>1, <1>3, <1>13 DEF IInv, OneCheckPerMonitor
  <2>2. \A m \in manual' : job'[m] = "none"
    BY <1>1, <1>3, <1>13 DEF IInv, OneCheckPerMonitor, TypeOK
  <2>3. \A u \in Ticks : tick[u].phase = "checking" => tick[u].of \cap C = {}
    BY <1>3, <1>4 DEF IInv, JobsOfTicks
  <2>4. ASSUME NEW u \in Ticks, NEW v \in Ticks, u # v,
               tick'[u].phase = "checking", tick'[v].phase = "checking"
        PROVE  tick'[u].of \cap tick'[v].of = {}
    BY <1>14, <2>3, <2>4 DEF IInv, OneCheckPerMonitor
  <2> QED
    BY <2>1, <2>2, <2>4 DEF OneCheckPerMonitor
<1>18. Ended'
  BY <1>1 DEF IInv, Ended, Drained
<1>19. Contract!Join
  <2> DEFINE n == Cardinality(C)
  <2>1. /\ n \in 0 .. Cardinality(Monitors)
        /\ Cardinality(Monitors) = Contract!Cardinality(Monitors)
    BY <1>3, SchedulerAssumption, FS_Subset, FS_CardinalityType, SameCardinality
  <2>2. Contract!First(Len(slotWaiters), slotWaiters) = Queued
    BY <1>8, LenProperties DEF Contract!First, Queued
  <2>3. C \subseteq Monitors \ (Holding \cup Queued)
    BY <1>3, <1>4, <1>9 DEF Holding
  <2>4. /\ order \in [1 .. n -> C]
        /\ \A i, j \in 1 .. n : i # j => order[i] # order[j]
    BY DEF Orders
  <2>5. order \in Contract!Batches(n)
    <3>1. order \in [1 .. n -> Monitors \ (Holding \cup Queued)]
      BY <2>3, <2>4
    <3> QED
      BY <2>2, <2>4, <3>1 DEF Contract!Batches
  <2> HIDE DEF n
  <2> QED
    BY <1>12, <2>1, <2>5 DEF Contract!Join
<1> QED
  BY <1>12, <1>15, <1>16, <1>17, <1>18, <1>19 DEF IInv

\* The slots are not touched, neither are the jobs.
SlotsRest == UNCHANGED <<slots, job>>

LEMMA Untouched == IInv /\ SlotsRest => SlotsAccounted' /\ NoIdleSlot'
BY DEF SlotsRest, slots, IInv, SlotsAccounted, NoIdleSlot, Holding, Queued

\* The first state satisfies the invariant.
LEMMA InitInvariant == Init => IInv
<1> SUFFICES ASSUME Init
             PROVE  IInv
  OBVIOUS
<1>1. TypeOK
  <2>1. slotWaiters \in Seq(Monitors)
    BY DEF Init
  <2>2. job \in [Monitors -> JobStates]
    BY DEF Init, JobStates
  <2>3. tick \in [Ticks -> [phase : {"idle", "reading", "checking"}, of : SUBSET Monitors]]
    BY DEF Init, Idle
  <2>4. slotLimit \in Nat \ {0} /\ slotsInUse \in Nat
    BY DEF Init
  <2>5. /\ exists \subseteq Monitors /\ due \subseteq Monitors
        /\ inFlight \subseteq Monitors /\ manual \subseteq Monitors
        /\ stopped \in BOOLEAN /\ closed \in BOOLEAN
    BY DEF Init
  <2> QED
    BY <2>1, <2>2, <2>3, <2>4, <2>5 DEF TypeOK
<1>2. SlotsAccounted
  <2>1. Holding = {} /\ Cardinality({}) = 0
    BY FS_EmptySet DEF Init, Holding
  <2>2. slotWaiters = << >> /\ DOMAIN << >> = {}
    BY DEF Init
  <2>3. Queued = {} /\ {m \in Monitors : job[m] = "waiting"} = {}
    BY <2>2 DEF Init, Queued
  <2> QED
    BY <2>1, <2>2, <2>3 DEF Init, SlotsAccounted
<1>3. NoIdleSlot
  BY DEF Init, NoIdleSlot
<1>4. OneCheckPerMonitor /\ JobsOfTicks
  BY DEF Init, OneCheckPerMonitor, JobsOfTicks, Idle
<1>5. Ended
  BY DEF Init, Ended
<1> QED
  BY <1>1, <1>2, <1>3, <1>4, <1>5 DEF IInv

\* Every step keeps the invariant.
LEMMA NextInvariant == IInv /\ [Next]_vars => IInv'
<1> SUFFICES ASSUME IInv, [Next]_vars
             PROVE  IInv'
  OBVIOUS
<1> USE DEF slots
<1>1. ASSUME NEW t \in Ticks, TickStarts(t)
      PROVE  IInv'
  <2>1. SlotsAccounted' /\ NoIdleSlot'
    BY <1>1, Untouched DEF SlotsRest, TickStarts
  <2>2. /\ tick' \in [Ticks -> [phase : {"idle", "reading", "checking"}, of : SUBSET Monitors]]
        /\ tick'[t].phase = "reading" /\ tick[t].phase = "idle"
        /\ \A u \in Ticks : u # t => tick'[u] = tick[u]
    BY <1>1 DEF TickStarts, IInv, TypeOK
  <2>3. TypeOK'
    BY <1>1, <2>2 DEF TickStarts, IInv, TypeOK
  <2>4. OneCheckPerMonitor' /\ JobsOfTicks'
    BY <1>1, <2>2 DEF TickStarts, IInv, OneCheckPerMonitor, JobsOfTicks
  <2>5. Ended'
    BY <1>1 DEF TickStarts, IInv, Ended
  <2> QED
    BY <2>1, <2>3, <2>4, <2>5 DEF IInv
<1>2. ASSUME NEW t \in Ticks, TickFails(t) \/ TickCompletes(t)
      PROVE  IInv'
  <2>1. SlotsAccounted' /\ NoIdleSlot'
    BY <1>2, Untouched DEF SlotsRest, TickFails, TickCompletes
  <2>2. /\ tick' \in [Ticks -> [phase : {"idle", "reading", "checking"}, of : SUBSET Monitors]]
        /\ tick'[t].phase = "idle"
        /\ tick[t].phase = "reading" \/ tick[t].of = {}
        /\ \A u \in Ticks : u # t => tick'[u] = tick[u]
    BY <1>2 DEF TickFails, TickCompletes, IInv, TypeOK, Idle
  <2>3. TypeOK'
    BY <1>2, <2>2 DEF TickFails, TickCompletes, IInv, TypeOK
  <2>4. OneCheckPerMonitor' /\ JobsOfTicks'
    BY <1>2, <2>2 DEF TickFails, TickCompletes, IInv, OneCheckPerMonitor, JobsOfTicks
  <2>5. Ended'
    BY <1>2, <2>2 DEF TickFails, TickCompletes, IInv, Ended, Drained
  <2> QED
    BY <2>1, <2>3, <2>4, <2>5 DEF IInv
<1>3. ASSUME NEW m \in Monitors, StartJob(m)
      PROVE  IInv'
  <2>1. job' = [job EXCEPT ![m] = "running"] /\ job[m] = "granted"
    BY <1>3 DEF StartJob
  <2>2. Holding' = Holding
    BY <2>1 DEF Holding, IInv, TypeOK
  <2>3. \A p \in Monitors : /\ job'[p] = "none" <=> job[p] = "none"
                           /\ job'[p] = "waiting" <=> job[p] = "waiting"
    BY <2>1 DEF IInv, TypeOK
  <2>4. SlotsAccounted'
    BY <1>3, <2>2, <2>3 DEF StartJob, IInv, SlotsAccounted, Queued
  <2>5. NoIdleSlot' /\ Ended'
    BY <1>3 DEF StartJob, IInv, NoIdleSlot, Ended, Drained
  <2>6. TypeOK'
    BY <1>3 DEF StartJob, IInv, TypeOK, JobStates
  <2>7. OneCheckPerMonitor' /\ JobsOfTicks'
    BY <1>3, <2>3 DEF StartJob, IInv, TypeOK, OneCheckPerMonitor, JobsOfTicks
  <2> QED
    BY <2>4, <2>5, <2>6, <2>7 DEF IInv
<1>4. ASSUME NEW m \in Monitors, SkipJob(m) \/ FinishJob(m) \/ FailJob(m)
      PROVE  IInv'
  <2>1. job[m] \in {"granted", "running"} /\ Release(m)
    BY <1>4 DEF SkipJob, FinishJob, FailJob
  <2>2. due' \subseteq Monitors /\ UNCHANGED <<exists, manual, stopped, closed>>
    BY <1>4 DEF SkipJob, FinishJob, FailJob, IInv, TypeOK
  <2> QED
    BY <2>1, <2>2, JobEnds
<1>5. ASSUME NEW m \in Monitors, ManualStarts(m)
      PROVE  IInv'
  <2>1. SlotsAccounted' /\ NoIdleSlot'
    BY <1>5, Untouched DEF SlotsRest, ManualStarts
  <2>2. job[m] = "none"
    BY <1>5 DEF ManualStarts, IInv, OneCheckPerMonitor
  <2>3. TypeOK'
    BY <1>5 DEF ManualStarts, IInv, TypeOK
  <2>4. OneCheckPerMonitor' /\ JobsOfTicks' /\ Ended'
    BY <1>5, <2>2 DEF ManualStarts, IInv, OneCheckPerMonitor, JobsOfTicks, Ended
  <2> QED
    BY <2>1, <2>3, <2>4 DEF IInv
<1>6. ASSUME NEW m \in Monitors, NEW threw \in BOOLEAN, ManualEnds(m, threw)
      PROVE  IInv'
  <2>1. SlotsAccounted' /\ NoIdleSlot'
    BY <1>6, Untouched DEF SlotsRest, ManualEnds
  <2>2. TypeOK'
    BY <1>6 DEF ManualEnds, IInv, TypeOK
  <2>3. OneCheckPerMonitor' /\ JobsOfTicks' /\ Ended'
    BY <1>6 DEF ManualEnds, IInv, OneCheckPerMonitor, JobsOfTicks, Ended, Drained
  <2> QED
    BY <2>1, <2>2, <2>3 DEF IInv
<1>7. ASSUME NEW m \in Monitors, ObservedOrPostponed(m) \/ BecomesDue(m) \/ DeleteMonitor(m)
      PROVE  IInv'
  <2>1. SlotsAccounted' /\ NoIdleSlot'
    BY <1>7, Untouched DEF SlotsRest, ObservedOrPostponed, BecomesDue, DeleteMonitor
  <2>2. TypeOK'
    BY <1>7 DEF ObservedOrPostponed, BecomesDue, DeleteMonitor, IInv, TypeOK
  <2>3. UNCHANGED <<inFlight, job, manual, tick, stopped, closed>>
    BY <1>7 DEF ObservedOrPostponed, BecomesDue, DeleteMonitor
  <2>4. OneCheckPerMonitor' /\ JobsOfTicks' /\ Ended'
    BY <2>3 DEF IInv, OneCheckPerMonitor, JobsOfTicks, Ended, Drained
  <2> QED
    BY <2>1, <2>2, <2>4 DEF IInv
<1>8. ASSUME StopScheduler \/ CloseDatabase \/ UNCHANGED vars
      PROVE  IInv'
  <2>1. SlotsAccounted' /\ NoIdleSlot'
    BY <1>8, Untouched DEF SlotsRest, StopScheduler, CloseDatabase, vars
  <2>2. TypeOK'
    BY <1>8 DEF StopScheduler, CloseDatabase, vars, IInv, TypeOK
  <2>3. OneCheckPerMonitor' /\ JobsOfTicks' /\ Ended'
    BY <1>8 DEF StopScheduler, CloseDatabase, vars, IInv, OneCheckPerMonitor, JobsOfTicks, Ended, Drained
  <2> QED
    BY <2>1, <2>2, <2>3 DEF IInv
<1> QED
  BY <1>1, <1>2, <1>3, <1>4, <1>5, <1>6, <1>7, <1>8, ClaimStep DEF Next, TickStep, JobStep

\* The invariant holds in every reachable state.
LEMMA Invariance == Spec => []IInv
BY InitInvariant, NextInvariant, PTL DEF Spec

\* Every variable keeps its type; in particular slotsInUse never goes below zero.
THEOREM Typing == Spec => []TypeOK
<1>1. IInv => TypeOK
  BY DEF IInv
<1> QED
  BY <1>1, Invariance, PTL

\* A monitor is checked by one tick or one "check now" at a time, and inFlight
\* is exactly what is being checked or queued.
THEOREM MutualExclusion == Spec => []OneCheckPerMonitor
<1>1. IInv => OneCheckPerMonitor
  BY DEF IInv
<1> QED
  BY <1>1, Invariance, PTL

\* slotsInUse and the queue agree with the jobs.
THEOREM Accounting == Spec => []SlotsAccounted
<1>1. IInv => SlotsAccounted
  BY DEF IInv
<1> QED
  BY <1>1, Invariance, PTL

\* No check waits while a slot is free.
THEOREM NoLostWakeup == Spec => []NoIdleSlot
<1>1. IInv => NoIdleSlot
  BY DEF IInv
<1> QED
  BY <1>1, Invariance, PTL

\* The database is closed under no tick, queued job or check.
THEOREM QuietShutdown == Spec => []ClosedQuietly
<1>1. IInv => ClosedQuietly
  <2> SUFFICES ASSUME IInv, closed
               PROVE  inFlight = {} /\ \A t \in Ticks : tick[t].phase = "idle"
    BY DEF ClosedQuietly
  <2>1. manual = {} /\ \A t \in Ticks : tick[t].phase = "idle"
    BY DEF IInv, Ended, Drained
  <2>2. \A m \in Monitors : job[m] = "none"
    BY <2>1 DEF IInv, JobsOfTicks
  <2> QED
    BY <2>1, <2>2 DEF IInv, OneCheckPerMonitor
<1> QED
  BY <1>1, Invariance, PTL

\* The scheduler's counters and queue implement the bounded first-come-first-
\* served resource of CheckSlots: a claim is Join, the end of a job is Leave.
THEOREM SlotsImplementContract == Spec => ImplementsSlots
<1>1. Init => Contract!Init
  <2>1. Init => Holding = {}
    BY DEF Init, Holding
  <2> QED
    BY <2>1 DEF Init, Contract!Init
<1>2. IInv /\ [Next]_vars => [Contract!Next]_Contract!vars
  <2> SUFFICES ASSUME IInv, [Next]_vars
               PROVE  Contract!Next \/ UNCHANGED <<Holding, slotWaiters, slotLimit>>
    BY DEF Contract!vars
  <2>1. ASSUME NEW t \in Ticks, NEW limit \in Limits, TickClaims(t, limit)
        PROVE  Contract!Next
    BY <2>1, ClaimStep DEF Contract!Next
  <2>2. ASSUME NEW m \in Monitors, SkipJob(m) \/ FinishJob(m) \/ FailJob(m)
        PROVE  Contract!Next
    <3>1. job[m] \in {"granted", "running"} /\ Release(m)
      BY <2>2 DEF SkipJob, FinishJob, FailJob
    <3> QED
      BY <3>1, ReleaseStep DEF Contract!Next
  <2>3. ASSUME NEW m \in Monitors, StartJob(m)
        PROVE  UNCHANGED <<Holding, slotWaiters, slotLimit>>
    BY <2>3 DEF StartJob, slots, Holding, IInv, TypeOK
  <2>4. ASSUME UNCHANGED <<slots, job>>
        PROVE  UNCHANGED <<Holding, slotWaiters, slotLimit>>
    BY <2>4 DEF slots, Holding
  <2>5. ASSUME NEW t \in Ticks, TickStarts(t) \/ TickFails(t) \/ TickCompletes(t)
        PROVE  UNCHANGED <<slots, job>>
    BY <2>5 DEF TickStarts, TickFails, TickCompletes
  <2>6. ASSUME NEW m \in Monitors,
               \/ ManualStarts(m)
               \/ \E threw \in BOOLEAN : ManualEnds(m, threw)
               \/ ObservedOrPostponed(m) \/ BecomesDue(m) \/ DeleteMonitor(m)
        PROVE  UNCHANGED <<slots, job>>
    BY <2>6 DEF ManualStarts, ManualEnds, ObservedOrPostponed, BecomesDue, DeleteMonitor
  <2>7. ASSUME StopScheduler \/ CloseDatabase \/ UNCHANGED vars
        PROVE  UNCHANGED <<slots, job>>
    BY <2>7 DEF StopScheduler, CloseDatabase, vars
  <2> QED
    BY <2>1, <2>2, <2>3, <2>4, <2>5, <2>6, <2>7 DEF Next, TickStep, JobStep
<1> QED
  BY <1>1, <1>2, Invariance, PTL DEF Spec, ImplementsSlots, Contract!Spec
==============================================================================
