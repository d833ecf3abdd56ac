--------------------- MODULE SubscriberDeliveriesProofs ---------------------
(***************************************************************************)
(* Theorems of SubscriberDeliveries, for any subscribers, events, senders, *)
(* limits, calls and crashes.                                              *)
(*                                                                         *)
(* The inductive invariant says of every copy a pass holds, in its queue   *)
(* or with a sender, that it is the only one of its delivery and that the  *)
(* row still is as it was read, unless it was purged; of every row, that a *)
(* pending one has an attempt left; and of every subscription, that it     *)
(* receives only with its owner's consent and that its count of failures   *)
(* is backed by deliveries that failed.                                    *)
(***************************************************************************)
EXTENDS SubscriberDeliveries, FiniteSetTheorems, TLAPS

\* Between passes nothing is held.
Quiet == ~pass => queue = {} /\ \A w \in Senders : sender[w] = Idle

Matches(c) ==
  /\ c.id[2] \in published
  /\ delivery[c.id].status # "none" =>
       /\ delivery[c.id].status = "pending"
       /\ delivery[c.id].attempts = c.attempts
       /\ delivery[c.id].max = c.max

Fresh ==
  /\ \A c \in queue : Matches(c)
  /\ \A w \in Senders : Sending(w) => Matches(sender[w].copy)

Distinct ==
  /\ \A c \in queue, o \in queue : c.id = o.id => c = o
  /\ \A w \in Senders, c \in queue : Sending(w) => sender[w].copy.id # c.id
  /\ \A w \in Senders, v \in Senders : Sending(w) /\ Sending(v) /\ sender[w].copy.id = sender[v].copy.id => w = v

Rounds ==
  \A d \in Deliveries :
    /\ delivery[d].status = "none" => delivery[d].attempts = 0
    /\ delivery[d].status # "none" => d[2] \in published /\ delivery[d].attempts <= delivery[d].max
    /\ delivery[d].status = "pending" => delivery[d].attempts < delivery[d].max
    /\ delivery[d].status = "failed" => delivery[d].attempts = delivery[d].max

Unbegun == \A d \in Deliveries : d[2] \notin published => begun[d] = 0

Counted ==
  \A d \in Deliveries : delivery[d].status # "none" =>
    begun[d] = IF Out(d) THEN delivery[d].attempts + 1 ELSE delivery[d].attempts

\* What is sent to, or was paused while it was, its owner agreed to.
Consent == \A s \in Subscribers : row[s].status \in {"active", "disabled"} => s \in agreed

Patience == \A s \in Subscribers : row[s].status \in {"none", "pending", "active"} => row[s].failures < DisableAfter

Backed == \A s \in Subscribers : s \in overlooked \/ row[s].failures <= streak[s]

Holding == Quiet /\ Fresh /\ Distinct
Counting == Rounds /\ Unbegun /\ Counted
Subscribed == Consent /\ Patience /\ Backed
IInv == TypeOK /\ Holding /\ Counting /\ Subscribed

USE SubscriberDeliveriesAssumption

-----------------------------------------------------------------------------
(* Lemmas about the data. *)

LEMMA Ids == ASSUME NEW d \in Deliveries PROVE d[1] \in Subscribers /\ d[2] \in Events
BY DEF Deliveries

\* A copy is a delivery with the counts it was read with.
LEMMA CopyFields ==
  ASSUME NEW c \in Copies
  PROVE  c.id \in Deliveries /\ c.attempts \in Nat /\ c.max \in Nat
BY DEF Copies

LEMMA CopyMade ==
  ASSUME TypeOK, NEW d \in Deliveries
  PROVE  /\ Copy(d) \in Copies
         /\ Copy(d).id = d /\ Copy(d).attempts = delivery[d].attempts /\ Copy(d).max = delivery[d].max
<1>1. delivery[d].attempts \in Nat /\ delivery[d].max \in Nat
  BY DEF TypeOK, DeliveryRows
<1> QED
  BY <1>1 DEF Copy, Copies

\* A sender that sends holds a copy; one that rests or mails does not send.
LEMMA SenderFields ==
  ASSUME NEW x \in SenderStates, x.at = "sending"
  PROVE  x.copy \in Copies /\ x.failing \in BOOLEAN /\ x.owner \in BOOLEAN
BY DEF SenderStates, Idle, Mailing

LEMMA Resting == Idle.at # "sending" /\ Mailing.at # "sending" /\ Idle \in SenderStates /\ Mailing \in SenderStates
BY DEF SenderStates, Idle, Mailing

LEMMA Held ==
  ASSUME TypeOK, NEW w \in Senders, Sending(w)
  PROVE  /\ sender[w].copy \in Copies
         /\ sender[w].copy.id \in Deliveries
         /\ sender[w].copy.attempts \in Nat /\ sender[w].copy.max \in Nat
         /\ sender[w].copy.id[1] \in Subscribers
<1>1. sender[w] \in SenderStates /\ sender[w].at = "sending"
  BY DEF TypeOK, Sending
<1>2. sender[w].copy \in Copies
  BY <1>1, SenderFields
<1> QED
  BY <1>2, CopyFields, Ids

LEMMA Queued ==
  ASSUME TypeOK, NEW c \in queue
  PROVE  /\ c \in Copies /\ c.id \in Deliveries /\ c.attempts \in Nat /\ c.max \in Nat
         /\ c.id[1] \in Subscribers
<1>1. c \in Copies
  BY DEF TypeOK
<1> QED
  BY <1>1, CopyFields, Ids

\* What a read of the due deliveries leaves, whichever it takes.
LEMMA BatchRead ==
  ASSUME TypeOK, ReadBatch, queue = {}
  PROVE  \E batch \in SUBSET Deliveries :
           /\ queue' = {Copy(d) : d \in batch}
           /\ \A d \in batch : delivery[d].status = "pending"
           /\ pass' \in BOOLEAN /\ rerun' \in BOOLEAN
           /\ ~pass' => queue' = {}
<1>1. CASE Due = {} /\ pass' = FALSE /\ rerun' = FALSE /\ UNCHANGED queue
  <2> WITNESS {} \in SUBSET Deliveries
  <2> QED
    BY <1>1
<1>2. ASSUME NEW batch \in (SUBSET Due) \ {{}},
             pass' = TRUE, rerun' = (Cardinality(batch) = BatchSize), queue' = {Copy(d) : d \in batch}
      PROVE  \E b \in SUBSET Deliveries :
               /\ queue' = {Copy(d) : d \in b}
               /\ \A d \in b : delivery[d].status = "pending"
               /\ pass' \in BOOLEAN /\ rerun' \in BOOLEAN
               /\ ~pass' => queue' = {}
  <2> batch \in SUBSET Deliveries
    BY DEF Due
  <2>1. \A d \in batch : delivery[d].status = "pending"
    BY DEF Due
  <2>2. rerun' \in BOOLEAN
    BY <1>2
  <2> WITNESS batch \in SUBSET Deliveries
  <2> QED
    BY <1>2, <2>1, <2>2
<1> QED
  BY <1>1, <1>2 DEF ReadBatch

\* An outcome is written to the row if it is still there, and to no other.
LEMMA Written ==
  ASSUME TypeOK, NEW d \in Deliveries, NEW status \in {"pending", "delivered", "failed", "cancelled"}, NEW n \in Nat,
         Write(d, status, n)
  PROVE  /\ delivery' \in [Deliveries -> DeliveryRows]
         /\ \A o \in Deliveries \ {d} : delivery'[o] = delivery[o]
         /\ delivery[d].status = "none" => delivery'[d] = delivery[d]
         /\ delivery[d].status # "none" =>
              /\ delivery'[d].status = status
              /\ delivery'[d].attempts = n
              /\ delivery'[d].max = delivery[d].max
<1>1. delivery[d] \in DeliveryRows
  BY DEF TypeOK
<1>2. [delivery[d] EXCEPT !.status = status, !.attempts = n, !.due = FALSE] \in DeliveryRows
  BY <1>1 DEF DeliveryRows
<1> QED
  BY <1>1, <1>2 DEF Write, TypeOK

-----------------------------------------------------------------------------
(* Types. *)

\* What a caller does to a subscription keeps the types of its row.
LEMMA CallsTyped ==
  ASSUME TypeOK, NEW s \in Subscribers,
         \/ SignUp(s) \/ Remind(s) \/ Confirm(s) \/ Unsubscribe(s) \/ Resubscribe(s) \/ CooldownEnds(s) \/ LinkExpires(s)
  PROVE  TypeOK'
<1>1. row' \in [Subscribers -> SubscriberRows]
  <2>1. \E r \in SubscriberRows : row' = [row EXCEPT ![s] = r]
    <3>1. row[s] \in SubscriberRows
      BY DEF TypeOK
    <3>2. CASE SignUp(s)
      <4>1. [status |-> "pending", link |-> "live", recent |-> TRUE, failures |-> 0] \in SubscriberRows
        BY DEF SubscriberRows, RowStatuses
      <4> QED
        BY <3>2, <4>1 DEF SignUp
    <3>3. CASE Remind(s)
      <4>1. [row[s] EXCEPT !.recent = TRUE] \in SubscriberRows
        BY <3>1 DEF SubscriberRows
      <4> QED
        BY <3>3, <4>1 DEF Remind
    <3>4. CASE Confirm(s)
      <4>1. [row[s] EXCEPT !.status = "active", !.link = "none"] \in SubscriberRows
        BY <3>1 DEF SubscriberRows, RowStatuses
      <4>2. row' = [row EXCEPT ![s] = [row[s] EXCEPT !.status = "active", !.link = "none"]]
        BY <3>4 DEF Confirm
      <4> QED
        BY <4>1, <4>2
    <3>5. CASE Unsubscribe(s)
      <4>1. [row[s] EXCEPT !.status = "unsubscribed"] \in SubscriberRows
        BY <3>1 DEF SubscriberRows, RowStatuses
      <4> QED
        BY <3>5, <4>1 DEF Unsubscribe
    <3>6. CASE Resubscribe(s)
      <4>1. 0 \in 0 .. DisableAfter
        OBVIOUS
      <4>2. [row[s] EXCEPT !.status = "active", !.failures = 0] \in SubscriberRows
        BY <3>1, <4>1 DEF SubscriberRows, RowStatuses
      <4> QED
        BY <3>6, <4>2 DEF Resubscribe, Reactivated
    <3>7. CASE CooldownEnds(s)
      <4>1. [row[s] EXCEPT !.recent = FALSE] \in SubscriberRows
        BY <3>1 DEF SubscriberRows
      <4> QED
        BY <3>7, <4>1 DEF CooldownEnds
    <3>8. CASE LinkExpires(s)
      <4>1. [row[s] EXCEPT !.link = "expired"] \in SubscriberRows
        BY <3>1 DEF SubscriberRows
      <4> QED
        BY <3>8, <4>1 DEF LinkExpires
    <3> QED
      BY <3>2, <3>3, <3>4, <3>5, <3>6, <3>7, <3>8
  <2> QED
    BY <2>1 DEF TypeOK
<1>2. agreed' \subseteq Subscribers
  BY DEF TypeOK, SignUp, Remind, Confirm, Unsubscribe, Resubscribe, CooldownEnds, LinkExpires
<1>3. overlooked' \subseteq Subscribers /\ streak' \in [Subscribers -> Nat]
  BY DEF TypeOK, StartOver, SignUp, Remind, Confirm, Unsubscribe, Resubscribe, CooldownEnds, LinkExpires
<1>4. calls' \in 0 .. MaxCalls
  BY DEF TypeOK, Call, SignUp, Remind, Confirm, Unsubscribe, Resubscribe, CooldownEnds, LinkExpires
<1>5. UNCHANGED <<allowed, Elsewhere>>
  BY DEF SignUp, Remind, Confirm, Unsubscribe, Resubscribe, CooldownEnds, LinkExpires
<1> QED
  BY <1>1, <1>2, <1>3, <1>4, <1>5 DEF TypeOK, Elsewhere, engine

LEMMA DropTyped ==
  ASSUME TypeOK, NEW s \in Subscribers, DropRow(s), calls' \in 0 .. MaxCalls
  PROVE  TypeOK'
<1>1. NoRow \in SubscriberRows /\ NoDelivery \in DeliveryRows
  BY DEF NoRow, SubscriberRows, RowStatuses, NoDelivery, DeliveryRows
<1>2. row' \in [Subscribers -> SubscriberRows] /\ delivery' \in [Deliveries -> DeliveryRows]
  BY <1>1 DEF DropRow, TypeOK
<1>3. sender' \in [Senders -> SenderStates]
  <2> SUFFICES ASSUME NEW w \in Senders
               PROVE  (IF Sending(w) /\ sender[w].copy.id[1] = s THEN [sender[w] EXCEPT !.owner = FALSE] ELSE sender[w])
                         \in SenderStates
    BY DEF DropRow
  <2>1. sender[w] \in SenderStates
    BY DEF TypeOK
  <2>2. CASE Sending(w)
    <3>1. sender[w] \in [at : {"sending"}, copy : Copies, failing : BOOLEAN, owner : BOOLEAN]
      BY <2>1, <2>2 DEF SenderStates, Sending, Idle, Mailing
    <3>2. [sender[w] EXCEPT !.owner = FALSE] \in [at : {"sending"}, copy : Copies, failing : BOOLEAN, owner : BOOLEAN]
      BY <3>1
    <3> QED
      BY <2>1, <3>2 DEF SenderStates
  <2> QED
    BY <2>1, <2>2
<1> QED
  BY <1>2, <1>3 DEF DropRow, StartOver, TypeOK

\* A pass, its senders and the deliveries.
LEMMA PassTyped ==
  ASSUME TypeOK, Quiet, ProcessDue \/ EndBatch
  PROVE  TypeOK'
<1>1. CASE pass' \in BOOLEAN /\ rerun' \in BOOLEAN /\ UNCHANGED queue
  BY <1>1 DEF ProcessDue, EndBatch, TypeOK, subscription
<1>2. CASE ReadBatch /\ queue = {}
  <2>1. PICK batch \in SUBSET Deliveries :
          queue' = {Copy(d) : d \in batch} /\ pass' \in BOOLEAN /\ rerun' \in BOOLEAN
    BY <1>2, BatchRead
  <2>2. queue' \subseteq Copies
    BY <2>1, CopyMade
  <2> QED
    BY <2>1, <2>2 DEF ProcessDue, EndBatch, TypeOK, subscription
<1> QED
  BY <1>1, <1>2 DEF ProcessDue, EndBatch, Quiet, TypeOK

LEMMA AttemptTyped ==
  ASSUME TypeOK, NEW w \in Senders, NEW c \in queue, Attempt(w, c)
  PROVE  TypeOK'
<1>1. c \in Copies /\ c.id \in Deliveries
  BY Queued
<1>2. [at |-> "sending", copy |-> c, failing |-> row[c.id[1]].failures > 0, owner |-> TRUE] \in SenderStates
  BY <1>1 DEF SenderStates
<1>3. sender' \in [Senders -> SenderStates]
  BY <1>2 DEF Attempt, TypeOK
<1>4. begun' \in [Deliveries -> Nat]
  BY <1>1 DEF Attempt, TypeOK
<1> QED
  BY <1>3, <1>4 DEF Attempt, TypeOK, subscription

LEMMA CancelTyped ==
  ASSUME TypeOK, NEW w \in Senders, NEW c \in queue, CancelUndeliverable(w, c)
  PROVE  TypeOK'
<1>1. c.id \in Deliveries /\ c.attempts \in Nat
  BY Queued
<1>2. delivery' \in [Deliveries -> DeliveryRows]
  BY <1>1, Written DEF CancelUndeliverable, CallOff
<1> QED
  BY <1>2 DEF CancelUndeliverable, TypeOK, subscription

LEMMA SucceedTyped ==
  ASSUME TypeOK, NEW w \in Senders, Succeed(w)
  PROVE  TypeOK'
<1> DEFINE c == sender[w].copy
<1> DEFINE s == c.id[1]
<1>1. c.id \in Deliveries /\ c.attempts + 1 \in Nat /\ s \in Subscribers
  <2>1. Sending(w)
    BY DEF Succeed
  <2>2. sender[w].copy.id \in Deliveries /\ sender[w].copy.attempts \in Nat
        /\ sender[w].copy.id[1] \in Subscribers
    BY <2>1, Held
  <2> QED
    BY <2>2
<1>2. Write(c.id, "delivered", c.attempts + 1)
  BY DEF Succeed
<1>3. delivery' \in [Deliveries -> DeliveryRows]
  <2> HIDE DEF c
  <2> QED
    BY <1>1, <1>2, Written
<1>4. row' \in [Subscribers -> SubscriberRows]
  <2>1. row' = row \/ row' = [row EXCEPT ![s].failures = 0]
    BY DEF Succeed
  <2> QED
    BY <1>1, <2>1 DEF TypeOK, SubscriberRows
<1>5. streak' \in [Subscribers -> Nat] /\ overlooked' \subseteq Subscribers
  <2>1. streak' = streak \/ streak' = [streak EXCEPT ![s] = 0]
    BY DEF Succeed
  <2>2. overlooked' \subseteq overlooked \cup {s}
    BY DEF Succeed
  <2> QED
    BY <1>1, <2>1, <2>2 DEF TypeOK
<1>6. sender' \in [Senders -> SenderStates]
  BY Resting DEF Succeed, TypeOK
<1> QED
  BY <1>3, <1>4, <1>5, <1>6 DEF Succeed, TypeOK

\* What a failed attempt writes to the subscription, if it counts.
LEMMA Failing ==
  ASSUME NEW w \in Senders, NEW blamed \in BOOLEAN, Fail(w, blamed), TypeOK, Patience
  PROVE  LET c == sender[w].copy
             s == c.id[1]
         IN /\ s \in Subscribers
            /\ Write(c.id, IF Exhausted(c) THEN "failed" ELSE "pending", c.attempts + 1)
            /\ sender' \in [Senders -> SenderStates] /\ sender'[w] \in {Idle, Mailing}
            /\ \A v \in Senders \ {w} : sender'[v] = sender[v]
            /\ \/ row' = row /\ streak' = streak
               \/ /\ row[s].status = "active" /\ row[s].failures < DisableAfter
                  /\ row' = [row EXCEPT ![s].failures = row[s].failures + 1,
                                        ![s].status = IF row[s].failures + 1 >= DisableAfter THEN "disabled" ELSE "active"]
                  /\ streak' = [streak EXCEPT ![s] = streak[s] + 1]
<1> DEFINE c == sender[w].copy
<1> DEFINE s == c.id[1]
<1>1. s \in Subscribers
  <2>1. Sending(w)
    BY DEF Fail
  <2>2. sender[w].copy.id \in Deliveries /\ sender[w].copy.attempts \in Nat
        /\ sender[w].copy.id[1] \in Subscribers
    BY <2>1, Held
  <2> QED
    BY <2>2
<1>2. CASE Counts(w, blamed)
  <2>1. row[s].status = "active" /\ row[s].failures < DisableAfter
    BY <1>1, <1>2 DEF Counts, Patience
  <2>2. PICK mails \in {Mailing, Idle} : sender' = [sender EXCEPT ![w] = mails]
    BY <1>2 DEF Fail
  <2>3. sender' \in [Senders -> SenderStates] /\ sender'[w] \in {Idle, Mailing}
        /\ \A v \in Senders \ {w} : sender'[v] = sender[v]
    BY <2>2, Resting DEF TypeOK
  <2> QED
    BY <1>1, <1>2, <2>1, <2>3 DEF Fail
<1>3. CASE ~Counts(w, blamed)
  <2>1. sender' = [sender EXCEPT ![w] = Idle]
    BY <1>3 DEF Fail
  <2>2. sender' \in [Senders -> SenderStates] /\ sender'[w] \in {Idle, Mailing}
        /\ \A v \in Senders \ {w} : sender'[v] = sender[v]
    BY <2>1, Resting DEF TypeOK
  <2> QED
    BY <1>1, <1>3, <2>2 DEF Fail
<1> QED
  BY <1>2, <1>3

LEMMA FailTyped ==
  ASSUME TypeOK, Patience, NEW w \in Senders, NEW blamed \in BOOLEAN, Fail(w, blamed)
  PROVE  TypeOK'
<1> DEFINE c == sender[w].copy
<1> DEFINE s == c.id[1]
<1>1. c.id \in Deliveries /\ c.attempts + 1 \in Nat /\ s \in Subscribers
  <2>1. Sending(w)
    BY DEF Fail
  <2>2. sender[w].copy.id \in Deliveries /\ sender[w].copy.attempts \in Nat
        /\ sender[w].copy.id[1] \in Subscribers
    BY <2>1, Held
  <2> QED
    BY <2>2
<1>2. delivery' \in [Deliveries -> DeliveryRows]
  <2>1. PICK status \in {"failed", "pending"} : Write(c.id, status, c.attempts + 1)
    BY Failing
  <2> HIDE DEF c
  <2> QED
    BY <1>1, <2>1, Written
<1>3. row' \in [Subscribers -> SubscriberRows] /\ streak' \in [Subscribers -> Nat]
  <2>1. \/ row' = row /\ streak' = streak
        \/ /\ row[s].failures < DisableAfter
           /\ row' = [row EXCEPT ![s].failures = row[s].failures + 1,
                                 ![s].status = IF row[s].failures + 1 >= DisableAfter THEN "disabled" ELSE "active"]
           /\ streak' = [streak EXCEPT ![s] = streak[s] + 1]
    BY Failing
  <2> HIDE DEF s
  <2>2. row[s].failures + 1 \in 0 .. DisableAfter \/ ~(row[s].failures < DisableAfter)
    BY <1>1 DEF TypeOK, SubscriberRows
  <2> QED
    BY <1>1, <2>1, <2>2 DEF TypeOK, SubscriberRows, RowStatuses
<1>4. sender' \in [Senders -> SenderStates]
  BY Failing
<1> QED
  BY <1>2, <1>3, <1>4 DEF Fail, TypeOK

LEMMA DeliveriesTyped ==
  ASSUME TypeOK, NEW d \in Deliveries, ComesDue(d) \/ Retry(d) \/ PurgeDelivery(d)
  PROVE  TypeOK'
<1>1. delivery[d] \in DeliveryRows /\ NoDelivery \in DeliveryRows
  BY DEF TypeOK, NoDelivery, DeliveryRows
<1>2. delivery' \in [Deliveries -> DeliveryRows]
  <2>1. CASE ComesDue(d)
    BY <1>1, <2>1 DEF ComesDue, TypeOK, DeliveryRows
  <2>2. CASE Retry(d)
    <3> DEFINE r == [delivery[d] EXCEPT !.status = "pending", !.max = delivery[d].attempts + MaxAttempts, !.due = TRUE]
    <3>1. r \in DeliveryRows
      <4>1. delivery[d].attempts \in Nat /\ MaxAttempts \in Nat
        BY <1>1 DEF DeliveryRows
      <4>2. delivery[d].attempts + MaxAttempts \in Nat
        BY <4>1
      <4> QED
        BY <1>1, <4>2 DEF DeliveryRows
    <3>2. delivery' = [delivery EXCEPT ![d] = r]
      BY <2>2 DEF Retry
    <3> HIDE DEF r
    <3> QED
      BY <3>1, <3>2 DEF TypeOK
  <2>3. CASE PurgeDelivery(d)
    BY <1>1, <2>3 DEF PurgeDelivery, TypeOK
  <2> QED
    BY <2>1, <2>2, <2>3
<1>3. calls' \in 0 .. MaxCalls
  BY DEF ComesDue, Retry, PurgeDelivery, Call, TypeOK
<1> QED
  BY <1>2, <1>3 DEF ComesDue, Retry, PurgeDelivery, TypeOK, subscription, engine

LEMMA TypesKept == TypeOK /\ Quiet /\ Patience /\ [Next]_vars => TypeOK'
<1> SUFFICES ASSUME TypeOK, Quiet, Patience, [Next]_vars PROVE TypeOK'
  OBVIOUS
<1>1. CASE Lifecycle
  <2>1. ASSUME NEW s \in Subscribers, DeleteSubscriber(s) \/ PurgeUnconfirmed(s) PROVE TypeOK'
    <3>1. DropRow(s) /\ calls' \in 0 .. MaxCalls
      BY <2>1 DEF DeleteSubscriber, PurgeUnconfirmed, Call, TypeOK
    <3> QED
      BY <3>1, DropTyped
  <2>2. CASE SaveSettings
    BY <2>2 DEF SaveSettings, Call, Elsewhere, engine, subscription, TypeOK
  <2> QED
    BY <1>1, <2>1, <2>2, CallsTyped DEF Lifecycle
<1>2. ASSUME NEW e \in Events, Publish(e) PROVE TypeOK'
  <2>1. NewDelivery \in DeliveryRows
    BY DEF NewDelivery, DeliveryRows
  <2> QED
    BY <1>2, <2>1 DEF Publish, TypeOK, subscription, engine
<1>3. ASSUME NEW w \in Senders, Work(w) PROVE TypeOK'
  <2>1. CASE MailEnds(w)
    BY <2>1, Resting DEF MailEnds, TypeOK, subscription
  <2> QED
    BY <1>3, <2>1, AttemptTyped, CancelTyped, SucceedTyped, FailTyped DEF Work
<1>4. CASE Crash
  <2>1. begun' \in [Deliveries -> Nat]
    BY <1>4 DEF Crash, TypeOK, DeliveryRows
  <2>2. crashes' \in 0 .. MaxCrashes
    BY <1>4 DEF Crash, TypeOK
  <2> QED
    BY <1>4, <2>1, <2>2, Resting DEF Crash, TypeOK, subscription
<1>5. CASE UNCHANGED vars
  BY <1>5 DEF vars, subscription, engine, TypeOK
<1> QED
  BY <1>1, <1>2, <1>3, <1>4, <1>5, PassTyped, DeliveriesTyped DEF Next

-----------------------------------------------------------------------------
(* Subscriptions: consent, patience and the failures behind a count. *)

\* What one row has to satisfy for the whole to be kept.
LEMMA OneRow ==
  ASSUME Subscribed, NEW s \in Subscribers,
         \A t \in Subscribers \ {s} : /\ row'[t] = row[t] /\ streak'[t] = streak[t]
                                      /\ t \in agreed => t \in agreed'
                                      /\ t \in overlooked => t \in overlooked',
         row'[s].status \in {"active", "disabled"} => s \in agreed',
         row'[s].status \in {"none", "pending", "active"} => row'[s].failures < DisableAfter,
         s \in overlooked' \/ row'[s].failures <= streak'[s]
  PROVE  Subscribed'
<1>1. Consent'
  BY DEF Subscribed, Consent
<1>2. Patience'
  BY DEF Subscribed, Patience
<1>3. Backed'
  BY DEF Subscribed, Backed
<1> QED
  BY <1>1, <1>2, <1>3 DEF Subscribed

LEMMA CallsSubscribed ==
  ASSUME TypeOK, Subscribed, NEW s \in Subscribers,
         \/ SignUp(s) \/ Remind(s) \/ Confirm(s) \/ Unsubscribe(s) \/ Resubscribe(s) \/ CooldownEnds(s) \/ LinkExpires(s)
  PROVE  Subscribed'
<1>1. row[s] \in SubscriberRows
  BY DEF TypeOK
<1>2. \A t \in Subscribers \ {s} : /\ row'[t] = row[t] /\ streak'[t] = streak[t]
                                   /\ t \in agreed => t \in agreed'
                                   /\ t \in overlooked => t \in overlooked'
  BY DEF TypeOK, StartOver, SignUp, Remind, Confirm, Unsubscribe, Resubscribe, CooldownEnds, LinkExpires
<1>3. row'[s].status \in {"active", "disabled"} => s \in agreed'
  BY <1>1 DEF TypeOK, Subscribed, Consent, SubscriberRows, Reactivated,
       SignUp, Remind, Confirm, Unsubscribe, Resubscribe, CooldownEnds, LinkExpires
<1>4. \/ row'[s].failures = 0
      \/ /\ row'[s].failures = row[s].failures
         /\ row'[s].status \in {"none", "pending", "active"} => row[s].status \in {"none", "pending", "active"}
         /\ streak' = streak /\ overlooked' = overlooked
  <2>1. CASE SignUp(s)
    BY <2>1 DEF SignUp, TypeOK
  <2>2. CASE Resubscribe(s)
    BY <1>1, <2>2 DEF Resubscribe, Reactivated, SubscriberRows, TypeOK
  <2>3. CASE Remind(s) \/ Unsubscribe(s) \/ CooldownEnds(s) \/ LinkExpires(s)
    BY <1>1, <2>3 DEF Remind, Unsubscribe, CooldownEnds, LinkExpires, SubscriberRows, TypeOK
  <2>4. CASE Confirm(s)
    BY <1>1, <2>4 DEF Confirm, SubscriberRows, TypeOK
  <2> QED
    BY <2>1, <2>2, <2>3, <2>4
<1>5. row'[s].status \in {"none", "pending", "active"} => row'[s].failures < DisableAfter
  BY <1>4 DEF Subscribed, Patience
<1>6. streak'[s] \in Nat
  BY DEF TypeOK, StartOver, SignUp, Remind, Confirm, Unsubscribe, Resubscribe, CooldownEnds, LinkExpires
<1>7. s \in overlooked' \/ row'[s].failures <= streak'[s]
  BY <1>4, <1>6 DEF Subscribed, Backed
<1> QED
  BY <1>2, <1>3, <1>5, <1>7, OneRow

LEMMA DropSubscribed ==
  ASSUME TypeOK, Subscribed, NEW s \in Subscribers, DropRow(s)
  PROVE  Subscribed'
<1>1. row'[s] = NoRow /\ streak'[s] = 0
  BY DEF DropRow, StartOver, TypeOK
<1>2. \A t \in Subscribers \ {s} : /\ row'[t] = row[t] /\ streak'[t] = streak[t]
                                   /\ t \in agreed => t \in agreed'
                                   /\ t \in overlooked => t \in overlooked'
  BY DEF DropRow, StartOver, TypeOK
<1>3. NoRow.status = "none" /\ NoRow.failures = 0
  BY DEF NoRow
<1> QED
  BY <1>1, <1>2, <1>3, OneRow

\* A success that clears nothing leaves its mark if there was something to clear.
LEMMA SucceedSubscribed ==
  ASSUME TypeOK, Subscribed, NEW w \in Senders, Succeed(w)
  PROVE  Subscribed'
<1> DEFINE s == sender[w].copy.id[1]
<1>1. s \in Subscribers
  <2>1. Sending(w)
    BY DEF Succeed
  <2>2. sender[w].copy.id \in Deliveries /\ sender[w].copy.attempts \in Nat
        /\ sender[w].copy.id[1] \in Subscribers
    BY <2>1, Held
  <2> QED
    BY <2>2
<1>2. CASE sender[w].owner /\ sender[w].failing
  <2>1. row' = [row EXCEPT ![s].failures = 0] /\ streak' = [streak EXCEPT ![s] = 0]
        /\ overlooked' = overlooked \ {s} /\ agreed' = agreed
    BY <1>2 DEF Succeed
  <2> HIDE DEF s
  <2>2. row'[s].status = row[s].status /\ row'[s].failures = 0 /\ streak'[s] = 0
    BY <1>1, <2>1 DEF TypeOK, SubscriberRows
  <2>3. \A t \in Subscribers \ {s} : row'[t] = row[t] /\ streak'[t] = streak[t]
    BY <2>1 DEF TypeOK
  <2> QED
    BY <1>1, <2>1, <2>2, <2>3, OneRow DEF Subscribed, Consent
<1>3. CASE sender[w].owner /\ ~sender[w].failing
  <2>1. row' = row /\ streak' = [streak EXCEPT ![s] = 0] /\ agreed' = agreed
        /\ overlooked' = IF row[s].failures > 0 THEN overlooked \cup {s} ELSE overlooked
    BY <1>3 DEF Succeed
  <2> HIDE DEF s
  <2>2. s \in overlooked' \/ row'[s].failures <= streak'[s]
    BY <1>1, <2>1 DEF TypeOK, SubscriberRows
  <2>3. \A t \in Subscribers \ {s} : streak'[t] = streak[t]
    BY <2>1 DEF TypeOK
  <2> QED
    BY <1>1, <2>1, <2>2, <2>3, OneRow DEF Subscribed, Consent, Patience
<1>4. CASE ~sender[w].owner
  BY <1>4 DEF Succeed, Subscribed, Consent, Patience, Backed
<1> QED
  BY <1>2, <1>3, <1>4

LEMMA FailSubscribed ==
  ASSUME TypeOK, Subscribed, NEW w \in Senders, NEW blamed \in BOOLEAN, Fail(w, blamed)
  PROVE  Subscribed'
<1> DEFINE s == sender[w].copy.id[1]
<1>1. agreed' = agreed /\ overlooked' = overlooked
  BY DEF Fail
<1>2. s \in Subscribers
      /\ \/ row' = row /\ streak' = streak
         \/ /\ row[s].status = "active" /\ row[s].failures < DisableAfter
            /\ row' = [row EXCEPT ![s].failures = row[s].failures + 1,
                                  ![s].status = IF row[s].failures + 1 >= DisableAfter THEN "disabled" ELSE "active"]
            /\ streak' = [streak EXCEPT ![s] = streak[s] + 1]
  BY Failing DEF Subscribed
<1> HIDE DEF s
<1>3. CASE row' = row /\ streak' = streak
  BY <1>1, <1>3 DEF Subscribed, Consent, Patience, Backed
<1>4. CASE /\ row[s].status = "active" /\ row[s].failures < DisableAfter
           /\ row' = [row EXCEPT ![s].failures = row[s].failures + 1,
                                 ![s].status = IF row[s].failures + 1 >= DisableAfter THEN "disabled" ELSE "active"]
           /\ streak' = [streak EXCEPT ![s] = streak[s] + 1]
  <2>1. row'[s].failures = row[s].failures + 1 /\ streak'[s] = streak[s] + 1
        /\ row'[s].status = IF row[s].failures + 1 >= DisableAfter THEN "disabled" ELSE "active"
    BY <1>2, <1>4 DEF TypeOK, SubscriberRows
  <2>2. \A t \in Subscribers \ {s} : row'[t] = row[t] /\ streak'[t] = streak[t]
    BY <1>4 DEF TypeOK
  <2>3. row[s].failures \in Nat /\ streak[s] \in Nat /\ DisableAfter \in Nat
    BY <1>2 DEF TypeOK, SubscriberRows
  <2>4. s \in agreed'
    BY <1>1, <1>2, <1>4 DEF Subscribed, Consent
  <2>5. s \in overlooked' \/ row'[s].failures <= streak'[s]
    BY <1>1, <1>2, <2>1, <2>3 DEF Subscribed, Backed
  <2> QED
    BY <1>1, <1>2, <2>1, <2>2, <2>3, <2>4, <2>5, OneRow
<1> QED
  BY <1>2, <1>3, <1>4

LEMMA SubscribedKept == TypeOK /\ Subscribed /\ [Next]_vars => Subscribed'
<1> SUFFICES ASSUME TypeOK, Subscribed, [Next]_vars PROVE Subscribed'
  OBVIOUS
<1>1. CASE UNCHANGED subscription
  BY <1>1 DEF subscription, Subscribed, Consent, Patience, Backed
<1>2. CASE Lifecycle
  <2>1. CASE SaveSettings
    BY <1>1, <2>1 DEF SaveSettings
  <2> QED
    BY <1>2, <2>1, CallsSubscribed, DropSubscribed DEF Lifecycle, DeleteSubscriber, PurgeUnconfirmed
<1>3. ASSUME NEW w \in Senders, Work(w) PROVE Subscribed'
  BY <1>1, <1>3, SucceedSubscribed, FailSubscribed DEF Work, Attempt, CancelUndeliverable, MailEnds
<1>4. CASE (\E e \in Events : Publish(e)) \/ ProcessDue \/ EndBatch \/ Crash \/ UNCHANGED vars
  BY <1>1, <1>4 DEF Publish, ProcessDue, EndBatch, Crash, vars
<1>5. CASE \E d \in Deliveries : ComesDue(d) \/ Retry(d) \/ PurgeDelivery(d)
  BY <1>1, <1>5 DEF ComesDue, Retry, PurgeDelivery
<1> QED
  BY <1>2, <1>3, <1>4, <1>5 DEF Next

-----------------------------------------------------------------------------
(* What a pass holds. *)

\* A step that takes nothing up keeps it, if the rows of what stays held match.
LEMMA Shrinks ==
  ASSUME Holding, pass' = pass, queue' \subseteq queue,
         \A w \in Senders : sender'[w].at = "sending" => Sending(w) /\ sender'[w].copy = sender[w].copy,
         ~pass => \A w \in Senders : sender'[w] = sender[w],
         \A c \in queue' : Matches(c)',
         \A w \in Senders : sender'[w].at = "sending" => Matches(sender[w].copy)'
  PROVE  Holding'
<1>1. Quiet'
  BY DEF Holding, Quiet
<1>2. Fresh'
  BY DEF Fresh, Sending, Matches
<1>3. Distinct'
  BY DEF Holding, Distinct, Sending
<1> QED
  BY <1>1, <1>2, <1>3 DEF Holding

\* A row that a step leaves alone, or removes, still matches its copy.
LEMMA StillMatches ==
  ASSUME NEW c, Matches(c), published \subseteq published',
         delivery'[c.id] = delivery[c.id] \/ delivery'[c.id].status = "none"
  PROVE  Matches(c)'
BY DEF Matches

LEMMA SendersAtWork ==
  ASSUME Quiet, NEW w \in Senders, sender[w] # Idle \/ queue # {}
  PROVE  pass
BY DEF Quiet

LEMMA ReadHolding ==
  ASSUME TypeOK, Holding, Rounds, ProcessDue \/ EndBatch
  PROVE  Holding'
<1>1. CASE UNCHANGED queue /\ (pass' \/ (queue = {} /\ \A w \in Senders : sender[w] = Idle))
  BY <1>1 DEF ProcessDue, EndBatch, Holding, Quiet, Fresh, Matches, Distinct, Sending
<1>2. CASE ReadBatch /\ queue = {} /\ \A w \in Senders : sender[w] = Idle
  <2>1. PICK batch \in SUBSET Deliveries :
          /\ queue' = {Copy(d) : d \in batch}
          /\ \A d \in batch : delivery[d].status = "pending"
          /\ ~pass' => queue' = {}
    BY <1>2, BatchRead
  <2>2. sender' = sender /\ delivery' = delivery /\ published' = published
    BY DEF ProcessDue, EndBatch
  <2>3. \A w \in Senders : ~Sending(w) /\ sender'[w].at # "sending"
    BY <1>2, <2>2, Resting DEF Sending
  <2>4. \A c \in queue' : c.id \in batch /\ c = Copy(c.id) /\ Matches(c)'
    <3> SUFFICES ASSUME NEW d \in batch
                 PROVE  Copy(d).id = d /\ Matches(Copy(d))
      BY <2>1, <2>2 DEF Matches
    <3>1. Copy(d).id = d /\ Copy(d).attempts = delivery[d].attempts /\ Copy(d).max = delivery[d].max
      BY CopyMade
    <3>2. d[2] \in published
      BY <2>1 DEF Rounds
    <3> QED
      BY <2>1, <3>1, <3>2 DEF Matches
  <2>5. Quiet'
    BY <1>2, <2>1, <2>2 DEF Quiet
  <2>6. Fresh'
    BY <2>3, <2>4 DEF Fresh, Sending
  <2>7. Distinct'
    BY <2>3, <2>4 DEF Distinct, Sending
  <2> QED
    BY <2>5, <2>6, <2>7 DEF Holding
<1> QED
  BY <1>1, <1>2 DEF ProcessDue, EndBatch, Holding, Quiet

LEMMA AttemptHolding ==
  ASSUME TypeOK, Holding, NEW w \in Senders, NEW c \in queue, Attempt(w, c)
  PROVE  Holding'
<1>1. pass
  BY SendersAtWork DEF Holding
<1>2. pass' = pass /\ queue' = queue \ {c} /\ published' = published /\ delivery' = delivery
  BY DEF Attempt
<1>3. sender'[w].at = "sending" /\ sender'[w].copy = c /\ ~Sending(w)
  BY Resting DEF Attempt, TypeOK, Sending
<1>4. \A v \in Senders \ {w} : sender'[v] = sender[v]
  BY DEF Attempt, TypeOK
<1>5. Quiet'
  BY <1>1, <1>2 DEF Quiet
<1>6. Fresh'
  BY <1>2, <1>3, <1>4 DEF Holding, Fresh, Matches, Sending
<1>7. Distinct'
  <2>1. \A d \in queue', o \in queue' : d.id = o.id => d = o
    BY <1>2 DEF Holding, Distinct
  <2>2. \A d \in queue' : c.id # d.id
    BY <1>2 DEF Holding, Distinct
  <2>3. \A v \in Senders, d \in queue' : sender'[v].at = "sending" => sender'[v].copy.id # d.id
    BY <1>2, <1>3, <1>4, <2>2 DEF Holding, Distinct, Sending
  <2>4. \A v \in Senders \ {w} : sender'[v].at = "sending" => sender'[v].copy.id # c.id
    BY <1>4 DEF Holding, Distinct, Sending
  <2>5. \A u \in Senders, v \in Senders :
          sender'[u].at = "sending" /\ sender'[v].at = "sending" /\ sender'[u].copy.id = sender'[v].copy.id => u = v
    <3> TAKE u \in Senders, v \in Senders
    <3>1. CASE u # w /\ v # w
      BY <1>4, <3>1 DEF Holding, Distinct, Sending
    <3>2. CASE u = w \/ v = w
      BY <1>3, <2>4, <3>2
    <3> QED
      BY <3>1, <3>2
  <2> QED
    BY <2>1, <2>3, <2>5 DEF Distinct, Sending
<1> QED
  BY <1>5, <1>6, <1>7 DEF Holding

LEMMA CancelHolding ==
  ASSUME TypeOK, Holding, NEW w \in Senders, NEW c \in queue, CancelUndeliverable(w, c)
  PROVE  Holding'
<1>1. c.id \in Deliveries /\ c.attempts \in Nat
  BY Queued
<1>2. pass' = pass /\ queue' = queue \ {c} /\ published' = published /\ sender' = sender
  BY DEF CancelUndeliverable
<1>3. \A o \in Deliveries \ {c.id} : delivery'[o] = delivery[o]
  BY <1>1, Written DEF CancelUndeliverable, CallOff
<1>4. \A o \in queue' : Matches(o)'
  <2> TAKE o \in queue'
  <2>1. o \in queue /\ o.id # c.id /\ o.id \in Deliveries
    BY <1>2, Queued DEF Holding, Distinct
  <2> QED
    BY <1>2, <1>3, <2>1, StillMatches DEF Holding, Fresh
<1>5. \A v \in Senders : sender'[v].at = "sending" => Matches(sender[v].copy)'
  <2> SUFFICES ASSUME NEW v \in Senders, sender[v].at = "sending"
               PROVE  Matches(sender[v].copy)'
    BY <1>2
  <2>1. Sending(v) /\ sender[v].copy.id # c.id /\ sender[v].copy.id \in Deliveries
    BY Held DEF Sending, Holding, Distinct
  <2> DEFINE o == sender[v].copy
  <2>2. Matches(o) /\ delivery'[o.id] = delivery[o.id] /\ o' = o
    BY <1>2, <1>3, <2>1 DEF Holding, Fresh
  <2> QED
    BY <1>2, <2>2 DEF Matches
<1> QED
  BY <1>2, <1>4, <1>5, Shrinks DEF Sending

\* An attempt is over: its sender holds nothing, the others as before.
LEMMA AttemptOver ==
  ASSUME TypeOK, Holding, NEW w \in Senders, Sending(w), NEW status \in {"delivered", "failed", "pending"},
         Write(sender[w].copy.id, status, sender[w].copy.attempts + 1),
         sender'[w] \in {Idle, Mailing}, \A v \in Senders \ {w} : sender'[v] = sender[v],
         UNCHANGED <<pass, queue, published>>
  PROVE  Holding'
<1> DEFINE c == sender[w].copy
<1>1. c.id \in Deliveries /\ c.attempts + 1 \in Nat
  BY Held
<1>2. \A o \in Deliveries \ {c.id} : delivery'[o] = delivery[o]
  <2> HIDE DEF c
  <2> QED
    BY <1>1, Written DEF c
<1>3. pass
  BY Resting, SendersAtWork DEF Holding, Sending
<1>4. sender'[w].at # "sending"
  BY Resting
<1>5. \A o \in queue' : Matches(o)'
  <2> TAKE o \in queue'
  <2>1. o \in queue /\ o.id # c.id /\ o.id \in Deliveries
    BY Queued DEF Holding, Distinct
  <2> QED
    BY <1>2, <2>1, StillMatches DEF Holding, Fresh
<1>6. \A v \in Senders : sender'[v].at = "sending" => Matches(sender[v].copy)'
  <2> SUFFICES ASSUME NEW v \in Senders, sender'[v].at = "sending"
               PROVE  Matches(sender[v].copy)'
    OBVIOUS
  <2>1. v # w /\ sender'[v] = sender[v] /\ Sending(v)
    BY <1>4 DEF Sending
  <2>2. sender[v].copy.id # c.id /\ sender[v].copy.id \in Deliveries
    BY <2>1, Held DEF Holding, Distinct
  <2> DEFINE o == sender[v].copy
  <2>3. Matches(o) /\ delivery'[o.id] = delivery[o.id] /\ o' = o
    BY <1>2, <2>1, <2>2 DEF Holding, Fresh
  <2> QED
    BY <2>3 DEF Matches
<1> QED
  BY <1>3, <1>4, <1>5, <1>6, Shrinks DEF Sending

LEMMA DropHolding ==
  ASSUME TypeOK, Holding, NEW s \in Subscribers, DropRow(s)
  PROVE  Holding'
<1>1. pass' = pass /\ queue' = {c \in queue : c.id[1] # s} /\ published' = published
  BY DEF DropRow
<1>2. \A o \in Deliveries : delivery'[o] = delivery[o] \/ delivery'[o].status = "none"
  BY DEF DropRow, NoDelivery
<1>3. \A v \in Senders : /\ sender'[v].at = sender[v].at
                         /\ Sending(v) => sender'[v].copy = sender[v].copy
                         /\ ~Sending(v) => sender'[v] = sender[v]
  <2> TAKE v \in Senders
  <2>1. CASE Sending(v) /\ sender[v].copy.id[1] = s
    <3>1. sender'[v] = [sender[v] EXCEPT !.owner = FALSE]
      BY <2>1 DEF DropRow
    <3>2. sender[v] \in [at : {"sending"}, copy : Copies, failing : BOOLEAN, owner : BOOLEAN]
      BY <2>1 DEF TypeOK, SenderStates, Sending, Idle, Mailing
    <3> QED
      BY <2>1, <3>1, <3>2
  <2>2. CASE ~(Sending(v) /\ sender[v].copy.id[1] = s)
    BY <2>2 DEF DropRow
  <2> QED
    BY <2>1, <2>2
<1>4. \A o \in queue' : Matches(o)'
  BY <1>1, <1>2, Queued, StillMatches DEF Holding, Fresh
<1>5. \A v \in Senders : sender'[v].at = "sending" => Matches(sender[v].copy)'
  <2> SUFFICES ASSUME NEW v \in Senders, sender'[v].at = "sending"
               PROVE  Matches(sender[v].copy)'
    OBVIOUS
  <2>1. Sending(v) /\ sender[v].copy.id \in Deliveries
    BY <1>3, Held DEF Sending
  <2> DEFINE o == sender[v].copy
  <2>2. Matches(o) /\ (delivery'[o.id] = delivery[o.id] \/ delivery'[o.id].status = "none") /\ o' = o
    BY <1>2, <1>3, <2>1 DEF Holding, Fresh
  <2> QED
    BY <1>1, <2>2 DEF Matches
<1>6. ~pass => \A v \in Senders : sender'[v] = sender[v]
  BY <1>3, Resting DEF Holding, Quiet, Sending
<1> QED
  BY <1>1, <1>3, <1>4, <1>5, <1>6, Shrinks DEF Sending

\* A step on the rows of deliveries that leaves what is held alone.
LEMMA RowsHolding ==
  ASSUME TypeOK, Holding, UNCHANGED engine, published \subseteq published',
         \A o \in Deliveries :
           \/ delivery'[o] = delivery[o]
           \/ delivery'[o].status = "none"
           \/ o[2] \notin published
           \/ /\ delivery[o].status \notin {"none", "pending"}
           \/ /\ delivery'[o].status = delivery[o].status
              /\ delivery'[o].attempts = delivery[o].attempts
              /\ delivery'[o].max = delivery[o].max
  PROVE  Holding'
<1>1. pass' = pass /\ queue' = queue /\ sender' = sender
  BY DEF engine
<1>2. \A c : c.id \in Deliveries /\ Matches(c) => Matches(c)'
  BY DEF Matches
<1>3. Fresh'
  <2>1. \A c \in queue' : Matches(c)'
    BY <1>1, <1>2, Queued DEF Holding, Fresh
  <2>2. \A v \in Senders : Sending(v)' => Matches(sender[v].copy)'
    <3> SUFFICES ASSUME NEW v \in Senders, Sending(v)
                 PROVE  Matches(sender[v].copy)'
      BY <1>1 DEF Sending
    <3> DEFINE o == sender[v].copy
    <3>1. o.id \in Deliveries /\ Matches(o) /\ o' = o
      BY <1>1, Held DEF Holding, Fresh
    <3> QED
      BY <3>1 DEF Matches
  <2> QED
    BY <2>1, <2>2 DEF Fresh
<1> QED
  BY <1>1, <1>3 DEF Holding, Quiet, Distinct, Sending

LEMMA HoldingKept == TypeOK /\ Holding /\ Rounds /\ Patience /\ [Next]_vars => Holding'
<1> SUFFICES ASSUME TypeOK, Holding, Rounds, Patience, [Next]_vars PROVE Holding'
  OBVIOUS
<1>1. CASE UNCHANGED <<engine, delivery, published>>
  BY <1>1, RowsHolding
<1>2. CASE Lifecycle
  <2>1. ASSUME NEW s \in Subscribers, DeleteSubscriber(s) \/ PurgeUnconfirmed(s) PROVE Holding'
    BY <2>1, DropHolding DEF DeleteSubscriber, PurgeUnconfirmed
  <2> QED
    BY <1>1, <1>2, <2>1 DEF Lifecycle, SignUp, Remind, Confirm, Unsubscribe, Resubscribe, CooldownEnds, LinkExpires,
         SaveSettings, Elsewhere
<1>3. ASSUME NEW e \in Events, Publish(e) PROVE Holding'
  <2>1. \A o \in Deliveries : delivery'[o] = delivery[o] \/ o[2] \notin published
    BY <1>3 DEF Publish
  <2>2. published \subseteq published' /\ UNCHANGED engine
    BY <1>3 DEF Publish
  <2> QED
    BY <2>1, <2>2, RowsHolding
<1>4. ASSUME NEW w \in Senders, Work(w) PROVE Holding'
  <2>1. CASE Succeed(w)
    <3>1. sender'[w] = Idle /\ \A v \in Senders \ {w} : sender'[v] = sender[v]
      BY <2>1 DEF Succeed, TypeOK
    <3> QED
      BY <2>1, <3>1, AttemptOver DEF Succeed
  <2>2. ASSUME NEW blamed \in BOOLEAN, Fail(w, blamed) PROVE Holding'
    BY <2>2, Failing, AttemptOver DEF Fail
  <2>3. CASE MailEnds(w)
    <3>1. pass
      BY <2>3, Resting, SendersAtWork DEF MailEnds, Holding, Idle, Mailing
    <3>2. \A v \in Senders : sender'[v].at = "sending" => sender'[v] = sender[v]
      BY <2>3, Resting DEF MailEnds, TypeOK
    <3>3. UNCHANGED <<pass, queue, published, delivery>>
      BY <2>3 DEF MailEnds
    <3>4. \A v \in Senders : sender'[v].at = "sending" => Matches(sender[v].copy)'
      BY <3>2, <3>3 DEF Holding, Fresh, Matches, Sending
    <3>5. \A c \in queue' : Matches(c)'
      BY <3>3 DEF Holding, Fresh, Matches
    <3> QED
      BY <3>1, <3>2, <3>3, <3>4, <3>5, Shrinks DEF Sending
  <2> QED
    BY <1>4, <2>1, <2>2, <2>3, AttemptHolding, CancelHolding DEF Work
<1>5. ASSUME NEW d \in Deliveries, ComesDue(d) \/ Retry(d) \/ PurgeDelivery(d) PROVE Holding'
  <2>1. UNCHANGED <<engine, published>>
    BY <1>5 DEF ComesDue, Retry, PurgeDelivery
  <2>2. \A o \in Deliveries \ {d} : delivery'[o] = delivery[o]
    BY <1>5 DEF ComesDue, Retry, PurgeDelivery, TypeOK
  <2>3. delivery[d] \in DeliveryRows
    BY DEF TypeOK
  <2>4. CASE ComesDue(d)
    BY <2>1, <2>2, <2>3, <2>4, RowsHolding DEF ComesDue, TypeOK, DeliveryRows
  <2>5. CASE Retry(d)
    BY <2>1, <2>2, <2>5, RowsHolding DEF Retry, Failed
  <2>6. CASE PurgeDelivery(d)
    BY <2>1, <2>2, <2>6, RowsHolding DEF PurgeDelivery, NoDelivery, TypeOK
  <2> QED
    BY <1>5, <2>4, <2>5, <2>6
<1>6. CASE Crash
  <2>1. queue' = {} /\ \A w \in Senders : sender'[w] = Idle
    BY <1>6 DEF Crash
  <2> QED
    BY <2>1, Resting DEF Holding, Quiet, Fresh, Distinct, Sending
<1>7. CASE UNCHANGED vars
  BY <1>1, <1>7 DEF vars
<1> QED
  BY <1>2, <1>3, <1>4, <1>5, <1>6, <1>7, ReadHolding DEF Next

-----------------------------------------------------------------------------
(* Attempts and their counts. *)

\* A row, the attempts that began, whether one is out, whether its event is known.
Fits(r, b, out, known) ==
  /\ r.status = "none" => r.attempts = 0
  /\ r.status # "none" => known /\ r.attempts <= r.max /\ b = IF out THEN r.attempts + 1 ELSE r.attempts
  /\ r.status = "pending" => r.attempts < r.max
  /\ r.status = "failed" => r.attempts = r.max
  /\ ~known => b = 0

\* What a step has to say of each delivery.
LEMMA EachCounted ==
  ASSUME \A d \in Deliveries : Fits(delivery'[d], begun'[d], Out(d)', d[2] \in published')
  PROVE  Counting'
<1>1. Rounds'
  BY DEF Rounds, Fits
<1>2. Unbegun'
  BY DEF Unbegun, Fits
<1>3. Counted'
  BY DEF Counted, Fits
<1> QED
  BY <1>1, <1>2, <1>3 DEF Counting

\* A delivery whose row, attempts and senders a step leaves alone.
LEMMA StillCounted ==
  ASSUME Counting, NEW d \in Deliveries,
         delivery'[d] = delivery[d], begun'[d] = begun[d],
         d[2] \in published' <=> d[2] \in published,
         Out(d)' <=> Out(d)
  PROVE  Fits(delivery'[d], begun'[d], Out(d)', d[2] \in published')
BY DEF Counting, Rounds, Unbegun, Counted, Fits

\* Who is deleted takes the deliveries along; senders go on with what they hold.
LEMMA DropEffect ==
  ASSUME TypeOK, NEW s \in Subscribers, DropRow(s)
  PROVE  /\ begun' = begun /\ published' = published
         /\ \A d \in Deliveries : Out(d)' <=> Out(d)
         /\ \A d \in Deliveries : d[1] # s => delivery'[d] = delivery[d]
         /\ \A d \in Deliveries : d[1] = s => delivery'[d] = NoDelivery
<1>1. begun' = begun /\ published' = published
  BY DEF DropRow
<1>2. \A v \in Senders : sender'[v].at = sender[v].at /\ (Sending(v) => sender'[v].copy = sender[v].copy)
  <2> TAKE v \in Senders
  <2>1. CASE Sending(v) /\ sender[v].copy.id[1] = s
    <3>1. sender'[v] = [sender[v] EXCEPT !.owner = FALSE]
      BY <2>1 DEF DropRow
    <3>2. sender[v] \in [at : {"sending"}, copy : Copies, failing : BOOLEAN, owner : BOOLEAN]
      BY <2>1 DEF TypeOK, SenderStates, Sending, Idle, Mailing
    <3> QED
      BY <2>1, <3>1, <3>2
  <2>2. CASE ~(Sending(v) /\ sender[v].copy.id[1] = s)
    BY <2>2 DEF DropRow
  <2> QED
    BY <2>1, <2>2
<1>3. ASSUME NEW d \in Deliveries PROVE Out(d)' <=> Out(d)
  BY <1>2 DEF Out, Sending
<1>4. ASSUME NEW d \in Deliveries, d[1] # s PROVE delivery'[d] = delivery[d]
  BY <1>4 DEF DropRow
<1>5. ASSUME NEW d \in Deliveries, d[1] = s
      PROVE  delivery'[d] = NoDelivery
  BY <1>5 DEF DropRow
<1> QED
  BY <1>1, <1>3, <1>4, <1>5

LEMMA DropCounting ==
  ASSUME TypeOK, Counting, NEW s \in Subscribers, DropRow(s)
  PROVE  Counting'
<1>1. \A d \in Deliveries : d[2] \notin published' => begun'[d] = 0
  BY DropEffect DEF Counting, Unbegun
<1> QED
  BY <1>1, DropEffect, StillCounted, EachCounted DEF Fits, NoDelivery

\* An event is fanned out to deliveries of which nothing is known yet.
LEMMA PublishEffect ==
  ASSUME TypeOK, Fresh, Counting, NEW e \in Events, Publish(e)
  PROVE  /\ begun' = begun /\ e \in published'
         /\ \A d \in Deliveries : Out(d)' <=> Out(d)
         /\ \A d \in Deliveries : d[2] # e =>
              delivery'[d] = delivery[d] /\ (d[2] \in published' <=> d[2] \in published)
         /\ \A d \in Deliveries : d[2] = e =>
              /\ begun[d] = 0 /\ ~Out(d) /\ delivery[d].status = "none" /\ delivery[d].attempts = 0
              /\ d[2] \notin published
              /\ delivery'[d] = IF d[1] \in Recipients(e) THEN NewDelivery ELSE delivery[d]
<1>1. begun' = begun /\ sender' = sender /\ published' = published \cup {e} /\ e \notin published
  BY DEF Publish, engine
<1>2. ASSUME NEW d \in Deliveries, d[2] # e
      PROVE  delivery'[d] = delivery[d] /\ (d[2] \in published' <=> d[2] \in published)
  BY <1>1, <1>2 DEF Publish
<1>3. ASSUME NEW d \in Deliveries, d[2] = e
      PROVE  begun[d] = 0 /\ ~Out(d) /\ delivery[d].status = "none" /\ delivery[d].attempts = 0
  <2>1. begun[d] = 0
    BY <1>1, <1>3 DEF Counting, Unbegun
  <2>2. ~Out(d)
    BY <1>1, <1>3 DEF Fresh, Matches, Out
  <2>3. delivery[d].status = "none"
    BY <1>1, <1>3 DEF Counting, Rounds
  <2> QED
    BY <2>1, <2>2, <2>3 DEF Counting, Rounds
<1>4. ASSUME NEW d \in Deliveries, d[2] = e
      PROVE  delivery'[d] = IF d[1] \in Recipients(e) THEN NewDelivery ELSE delivery[d]
  BY <1>4 DEF Publish
<1>5. \A d \in Deliveries : Out(d)' <=> Out(d)
  BY <1>1 DEF Out, Sending
<1> QED
  BY <1>1, <1>2, <1>3, <1>4, <1>5

LEMMA NewFields ==
  /\ NewDelivery.status = "pending" /\ NewDelivery.attempts = 0 /\ NewDelivery.max = MaxAttempts
  /\ MaxAttempts \in Nat \ {0}
BY DEF NewDelivery

LEMMA PublishCounting ==
  ASSUME TypeOK, Fresh, Counting, NEW e \in Events, Publish(e)
  PROVE  Counting'
<1>1. \A d \in Deliveries : d[2] = e => Fits(delivery'[d], begun'[d], Out(d)', d[2] \in published')
  BY PublishEffect, NewFields DEF Fits
<1>2. \A d \in Deliveries : d[2] # e => Fits(delivery'[d], begun'[d], Out(d)', d[2] \in published')
  BY PublishEffect, StillCounted
<1> QED
  BY <1>1, <1>2, EachCounted

LEMMA AttemptCounting ==
  ASSUME TypeOK, Holding, Counting, NEW w \in Senders, NEW c \in queue, Attempt(w, c)
  PROVE  Counting'
<1>1. c.id \in Deliveries /\ Matches(c)
  BY Queued DEF Holding, Fresh
<1>2. delivery' = delivery /\ published' = published /\ begun' = [begun EXCEPT ![c.id] = begun[c.id] + 1]
  BY DEF Attempt
<1>3. sender'[w].at = "sending" /\ sender'[w].copy = c /\ ~Sending(w)
  BY Resting DEF Attempt, TypeOK, Sending
<1>4. \A v \in Senders \ {w} : sender'[v] = sender[v]
  BY DEF Attempt, TypeOK
<1>5. ASSUME NEW d \in Deliveries, d # c.id
      PROVE  begun'[d] = begun[d] /\ (Out(d)' <=> Out(d))
  <2>1. begun'[d] = begun[d]
    BY <1>2, <1>5 DEF TypeOK
  <2>2. Out(d)' <=> Out(d)
    BY <1>3, <1>4, <1>5 DEF Out, Sending
  <2> QED
    BY <2>1, <2>2
<1>6. ~Out(c.id) /\ Out(c.id)'
  BY <1>3 DEF Holding, Distinct, Out, Sending
<1>7. begun'[c.id] = begun[c.id] + 1
  BY <1>1, <1>2 DEF TypeOK
<1>8. Fits(delivery[c.id], begun'[c.id], Out(c.id)', c.id[2] \in published)
  BY <1>1, <1>6, <1>7 DEF Fits, Matches, Counting, Rounds, Counted
<1> QED
  BY <1>1, <1>2, <1>5, <1>8, StillCounted, EachCounted

\* The outcome of an attempt, or that there will be none, goes on record.
LEMMA CancelCounting ==
  ASSUME TypeOK, Holding, Counting, NEW w \in Senders, NEW c \in queue, CancelUndeliverable(w, c)
  PROVE  Counting'
<1>1. c.id \in Deliveries /\ c.attempts \in Nat /\ Matches(c)
  BY Queued DEF Holding, Fresh
<1>2. sender' = sender /\ published' = published /\ begun' = begun
  BY DEF CancelUndeliverable
<1>3. /\ \A o \in Deliveries \ {c.id} : delivery'[o] = delivery[o]
      /\ delivery[c.id].status = "none" => delivery'[c.id] = delivery[c.id]
      /\ delivery[c.id].status # "none" =>
           /\ delivery'[c.id].status = "cancelled"
           /\ delivery'[c.id].attempts = c.attempts
           /\ delivery'[c.id].max = delivery[c.id].max
  BY <1>1, Written DEF CancelUndeliverable, CallOff
<1>4. \A d \in Deliveries : Out(d)' <=> Out(d)
  BY <1>2 DEF Out, Sending
<1>5. Fits(delivery'[c.id], begun'[c.id], Out(c.id)', c.id[2] \in published')
  BY <1>1, <1>2, <1>3, <1>4 DEF Fits, Matches, Counting, Rounds, Counted, Unbegun
<1> QED
  BY <1>2, <1>3, <1>4, <1>5, StillCounted, EachCounted

LEMMA OverEffect ==
  ASSUME TypeOK, Holding, NEW w \in Senders, Sending(w), NEW c \in Copies, c = sender[w].copy,
         NEW status \in {"delivered", "failed", "pending"},
         Write(c.id, status, c.attempts + 1),
         sender'[w] \in {Idle, Mailing}, \A v \in Senders \ {w} : sender'[v] = sender[v]
  PROVE  /\ c.id \in Deliveries /\ c.attempts \in Nat /\ c.max \in Nat /\ Matches(c)
         /\ Out(c.id) /\ ~Out(c.id)'
         /\ \A d \in Deliveries \ {c.id} : delivery'[d] = delivery[d] /\ (Out(d)' <=> Out(d))
         /\ delivery[c.id].status = "none" => delivery'[c.id] = delivery[c.id]
         /\ delivery[c.id].status # "none" =>
              /\ delivery'[c.id].status = status
              /\ delivery'[c.id].attempts = c.attempts + 1
              /\ delivery'[c.id].max = delivery[c.id].max
<1>1. c.id \in Deliveries /\ c.attempts \in Nat /\ c.max \in Nat /\ c.attempts + 1 \in Nat /\ Matches(c)
  BY Held DEF Holding, Fresh
<1>2. Out(c.id)
  BY DEF Out
<1>3. sender'[w].at # "sending"
  BY Resting
<1>4. ~Out(c.id)'
  <2> SUFFICES ASSUME NEW v \in Senders, sender'[v].at = "sending", sender'[v].copy.id = c.id
               PROVE  FALSE
    BY DEF Out, Sending
  <2>1. v # w /\ sender'[v] = sender[v]
    BY <1>3
  <2> QED
    BY <2>1 DEF Holding, Distinct, Sending
<1>5. ASSUME NEW d \in Deliveries, d # c.id PROVE Out(d)' <=> Out(d)
  BY <1>3, <1>5 DEF Out, Sending
<1>6. /\ \A o \in Deliveries \ {c.id} : delivery'[o] = delivery[o]
      /\ delivery[c.id].status = "none" => delivery'[c.id] = delivery[c.id]
      /\ delivery[c.id].status # "none" =>
           /\ delivery'[c.id].status = status
           /\ delivery'[c.id].attempts = c.attempts + 1
           /\ delivery'[c.id].max = delivery[c.id].max
  BY <1>1, Written
<1> QED
  BY <1>1, <1>2, <1>4, <1>5, <1>6

LEMMA OverCounting ==
  ASSUME TypeOK, Holding, Counting, NEW w \in Senders, Sending(w), NEW c \in Copies, c = sender[w].copy,
         NEW status \in {"delivered", IF Exhausted(c) THEN "failed" ELSE "pending"},
         Write(c.id, status, c.attempts + 1),
         sender'[w] \in {Idle, Mailing}, \A v \in Senders \ {w} : sender'[v] = sender[v],
         UNCHANGED <<published, begun>>
  PROVE  Counting'
<1>1. c.id \in Deliveries /\ c.attempts \in Nat /\ c.max \in Nat /\ Matches(c) /\ Out(c.id) /\ ~Out(c.id)'
  BY OverEffect
<1>2. /\ status = "pending" => c.attempts + 1 < c.max
      /\ status = "failed" => c.attempts + 1 >= c.max
  BY <1>1 DEF Exhausted
<1>3. /\ delivery[c.id].status = "none" => delivery'[c.id] = delivery[c.id]
      /\ delivery[c.id].status # "none" =>
           /\ delivery'[c.id].status = status
           /\ delivery'[c.id].attempts = c.attempts + 1
           /\ delivery'[c.id].max = delivery[c.id].max
  BY OverEffect
<1>4. Fits(delivery'[c.id], begun'[c.id], Out(c.id)', c.id[2] \in published')
  <2>1. CASE delivery[c.id].status = "none"
    BY <1>1, <1>3, <2>1 DEF Fits, Matches, Counting, Rounds
  <2>2. CASE delivery[c.id].status # "none"
    <3>1. begun[c.id] = c.attempts + 1 /\ c.attempts < c.max /\ delivery[c.id].max = c.max
      BY <1>1, <2>2 DEF Matches, Counting, Counted, Rounds
    <3>2. status # "none"
      OBVIOUS
    <3>3. /\ begun'[c.id] = c.attempts + 1 /\ c.id[2] \in published'
          /\ delivery'[c.id].status = status /\ delivery'[c.id].attempts = c.attempts + 1 /\ delivery'[c.id].max = c.max
      BY <1>1, <1>3, <2>2, <3>1 DEF Matches
    <3>4. c.attempts + 1 <= c.max /\ (status = "failed" => c.attempts + 1 = c.max)
      BY <1>1, <1>2, <3>1
    <3> QED
      BY <1>1, <1>2, <3>2, <3>3, <3>4 DEF Fits
  <2> QED
    BY <2>1, <2>2
<1>5. \A d \in Deliveries \ {c.id} : delivery'[d] = delivery[d] /\ (Out(d)' <=> Out(d))
  BY OverEffect
<1> QED
  BY <1>4, <1>5, StillCounted, EachCounted

LEMMA CountingKept == TypeOK /\ Holding /\ Counting /\ Patience /\ [Next]_vars => Counting'
<1> SUFFICES ASSUME TypeOK, Holding, Counting, Patience, [Next]_vars PROVE Counting'
  OBVIOUS
<1>1. CASE UNCHANGED <<delivery, published, begun, sender>>
  BY <1>1 DEF Counting, Rounds, Unbegun, Counted, Out, Sending
<1>2. CASE Lifecycle
  <2>1. ASSUME NEW s \in Subscribers, DeleteSubscriber(s) \/ PurgeUnconfirmed(s) PROVE Counting'
    BY <2>1, DropCounting DEF DeleteSubscriber, PurgeUnconfirmed
  <2> QED
    BY <1>1, <1>2, <2>1 DEF Lifecycle, SignUp, Remind, Confirm, Unsubscribe, Resubscribe, CooldownEnds, LinkExpires,
         SaveSettings, Elsewhere, engine
<1>3. ASSUME NEW e \in Events, Publish(e) PROVE Counting'
  BY <1>3, PublishCounting DEF Holding
<1>4. ASSUME NEW w \in Senders, Work(w) PROVE Counting'
  <2>1. CASE Succeed(w)
    <3>1. sender'[w] = Idle /\ \A v \in Senders \ {w} : sender'[v] = sender[v]
      BY <2>1 DEF Succeed, TypeOK
    <3>2. PICK c \in Copies : c = sender[w].copy
      BY <2>1, Held DEF Succeed
    <3> QED
      BY <2>1, <3>1, <3>2, OverCounting DEF Succeed
  <2>2. ASSUME NEW blamed \in BOOLEAN, Fail(w, blamed) PROVE Counting'
    <3>1. Sending(w) /\ UNCHANGED <<published, begun>>
      BY <2>2 DEF Fail
    <3>2. PICK status \in {"delivered", IF Exhausted(sender[w].copy) THEN "failed" ELSE "pending"} :
            Write(sender[w].copy.id, status, sender[w].copy.attempts + 1)
      BY <2>2, Failing
    <3>3. sender'[w] \in {Idle, Mailing} /\ \A v \in Senders \ {w} : sender'[v] = sender[v]
      BY <2>2, Failing
    <3>4. PICK c \in Copies : c = sender[w].copy
      BY <3>1, Held
    <3> QED
      BY <3>1, <3>2, <3>3, <3>4, OverCounting
  <2>3. CASE MailEnds(w)
    <3>1. \A v \in Senders : sender'[v].at = "sending" <=> Sending(v)
      BY <2>3, Resting DEF MailEnds, TypeOK, Sending
    <3>2. \A v \in Senders : Sending(v) => sender'[v] = sender[v]
      BY <2>3, Resting DEF MailEnds, TypeOK, Sending
    <3>3. \A d \in Deliveries : Out(d)' <=> Out(d)
      BY <3>1, <3>2 DEF Out, Sending
    <3> QED
      BY <2>3, <3>3, StillCounted, EachCounted DEF MailEnds
  <2> QED
    BY <1>4, <2>1, <2>2, <2>3, AttemptCounting, CancelCounting DEF Work
<1>5. ASSUME NEW d \in Deliveries, ComesDue(d) \/ Retry(d) \/ PurgeDelivery(d) PROVE Counting'
  <2>1. published' = published /\ begun' = begun /\ \A o \in Deliveries : Out(o)' <=> Out(o)
    BY <1>5 DEF ComesDue, Retry, PurgeDelivery, engine, Out, Sending
  <2>2. \A o \in Deliveries \ {d} : delivery'[o] = delivery[o]
    BY <1>5 DEF ComesDue, Retry, PurgeDelivery, TypeOK
  <2>3. delivery[d] \in DeliveryRows
    BY DEF TypeOK
  <2>4. Fits(delivery'[d], begun'[d], Out(d)', d[2] \in published')
    <3>1. CASE ComesDue(d)
      BY <2>1, <2>3, <3>1 DEF ComesDue, TypeOK, DeliveryRows, Fits, Counting, Rounds, Counted, Unbegun
    <3>2. CASE Retry(d)
      <4>1. delivery[d].attempts \in Nat /\ MaxAttempts \in Nat \ {0}
        BY <2>3 DEF DeliveryRows
      <4>2. /\ delivery'[d].status = "pending" /\ delivery'[d].attempts = delivery[d].attempts
            /\ delivery'[d].max = delivery[d].attempts + MaxAttempts /\ delivery[d].status = "failed"
        BY <2>3, <3>2 DEF Retry, Failed, TypeOK, DeliveryRows
      <4>3. delivery'[d].attempts < delivery'[d].max
        BY <4>1, <4>2
      <4> QED
        BY <2>1, <4>1, <4>2, <4>3 DEF Fits, Counting, Rounds, Counted, Unbegun
    <3>3. CASE PurgeDelivery(d)
      BY <2>1, <3>3 DEF PurgeDelivery, NoDelivery, TypeOK, Fits, Counting, Unbegun
    <3> QED
      BY <1>5, <3>1, <3>2, <3>3
  <2> QED
    BY <2>1, <2>2, <2>4, StillCounted, EachCounted
<1>6. CASE Crash
  <2>1. \A d \in Deliveries : ~Out(d)' /\ begun'[d] = delivery[d].attempts
    BY <1>6, Resting DEF Crash, Out, Sending
  <2>2. delivery' = delivery /\ published' = published
    BY <1>6 DEF Crash
  <2> QED
    BY <2>1, <2>2, EachCounted DEF Fits, Counting, Rounds
<1>7. CASE ProcessDue \/ EndBatch \/ UNCHANGED vars
  BY <1>1, <1>7 DEF ProcessDue, EndBatch, vars, engine
<1> QED
  BY <1>2, <1>3, <1>4, <1>5, <1>6, <1>7 DEF Next

-----------------------------------------------------------------------------
(* The invariant. *)

LEMMA Initially == Init => IInv
<1> SUFFICES ASSUME Init PROVE IInv
  OBVIOUS
<1>1. 0 \in 0 .. DisableAfter /\ 0 \in 0 .. MaxCalls /\ 0 \in 0 .. MaxCrashes /\ 0 < DisableAfter
  OBVIOUS
<1>2. PICK known \in SUBSET Subscribers :
        row = [s \in Subscribers |-> IF s \in known THEN Confirmed ELSE NoRow] /\ agreed = known
  BY DEF Init
<1>3. NoRow \in SubscriberRows /\ Confirmed \in SubscriberRows
  BY <1>1 DEF NoRow, Confirmed, SubscriberRows, RowStatuses
<1>4. NoDelivery \in DeliveryRows
  BY DEF NoDelivery, DeliveryRows
<1>5. TypeOK
  <2>1. row \in [Subscribers -> SubscriberRows] /\ agreed \subseteq Subscribers
    BY <1>2, <1>3
  <2>2. delivery \in [Deliveries -> DeliveryRows]
    BY <1>4 DEF Init
  <2> QED
    BY <1>1, <2>1, <2>2, Resting DEF Init, TypeOK
<1>6. Holding
  BY Resting DEF Init, Holding, Quiet, Fresh, Distinct, Sending
<1>7. Counting
  BY DEF Init, Counting, Rounds, Unbegun, Counted, NoDelivery
<1>8. Subscribed
  <2>1. Consent
    BY <1>2 DEF Consent, NoRow
  <2>2. \A s \in Subscribers : row[s].failures = 0
    BY <1>2 DEF NoRow, Confirmed
  <2> QED
    BY <1>1, <2>1, <2>2 DEF Subscribed, Patience, Backed, Init
<1> QED
  BY <1>5, <1>6, <1>7, <1>8 DEF IInv

LEMMA Inductive == IInv /\ [Next]_vars => IInv'
<1> SUFFICES ASSUME IInv, [Next]_vars PROVE IInv'
  OBVIOUS
<1>1. TypeOK /\ Holding /\ Counting /\ Subscribed
  BY DEF IInv
<1>2. Quiet /\ Rounds /\ Patience
  BY <1>1 DEF Holding, Counting, Subscribed
<1> QED
  BY <1>1, <1>2, TypesKept, SubscribedKept, HoldingKept, CountingKept DEF IInv

\* What a pass holds, what is on record and what a subscription allows fit
\* together in every state (processDueSubscriberDeliveries, attemptDelivery).
THEOREM Invariance == Spec => []IInv
<1>1. Init => IInv
  BY Initially
<1>2. IInv /\ [Next]_vars => IInv'
  BY Inductive
<1> QED
  BY <1>1, <1>2, PTL DEF Spec

\* The variables keep their types.
THEOREM Typing == Spec => []TypeOK
<1>1. IInv => TypeOK
  BY DEF IInv
<1> QED
  BY <1>1, Invariance, PTL

\* Every attempt that began is on record or still out, one at a time and
\* within its round (attemptDelivery).
THEOREM OnRecord == Spec => []AttemptsOnRecord
<1>1. IInv => AttemptsOnRecord
  <2> SUFFICES ASSUME IInv, NEW d \in Deliveries, delivery[d].status # "none"
               PROVE  /\ begun[d] = delivery[d].attempts + Cardinality(InFlight(d))
                      /\ Cardinality(InFlight(d)) <= 1
                      /\ begun[d] <= delivery[d].max
    BY DEF AttemptsOnRecord
  <2>1. delivery[d].attempts \in Nat /\ delivery[d].max \in Nat /\ delivery[d].attempts <= delivery[d].max
    BY DEF IInv, TypeOK, DeliveryRows, Counting, Rounds
  <2>2. CASE Out(d)
    <3>1. PICK w \in Senders : Sending(w) /\ sender[w].copy.id = d
      BY <2>2 DEF Out
    <3>2. InFlight(d) = {w}
      BY <3>1 DEF InFlight, IInv, Holding, Distinct
    <3>3. Cardinality(InFlight(d)) = 1
      BY <3>2, FS_Singleton
    <3>4. delivery[d].status = "pending"
      BY <3>1 DEF IInv, Holding, Fresh, Matches
    <3>5. begun[d] = delivery[d].attempts + 1 /\ delivery[d].attempts < delivery[d].max
      BY <2>2, <3>4 DEF IInv, Counting, Counted, Rounds
    <3> QED
      BY <2>1, <3>3, <3>5
  <2>3. CASE ~Out(d)
    <3>1. InFlight(d) = {}
      BY <2>3 DEF InFlight, Out
    <3>2. Cardinality(InFlight(d)) = 0
      BY <3>1, FS_EmptySet
    <3>3. begun[d] = delivery[d].attempts
      BY <2>3 DEF IInv, Counting, Counted
    <3> QED
      BY <2>1, <3>2, <3>3
  <2> QED
    BY <2>2, <2>3
<1> QED
  BY <1>1, Invariance, PTL

\* Where the count of begun attempts can change.
LEMMA Begins ==
  ASSUME [Next]_vars
  PROVE  \/ begun' = begun
         \/ Crash
         \/ \E w \in Senders : \E c \in queue : Attempt(w, c)
<1>1. CASE Lifecycle
  BY <1>1 DEF Lifecycle, SignUp, Remind, Confirm, Unsubscribe, Resubscribe, CooldownEnds, LinkExpires, SaveSettings,
       DeleteSubscriber, PurgeUnconfirmed, DropRow, Elsewhere
<1>2. ASSUME NEW w \in Senders, Work(w), ~\E c \in queue : Attempt(w, c) PROVE begun' = begun
  BY <1>2 DEF Work, CancelUndeliverable, Succeed, Fail, MailEnds
<1>3. CASE \/ (\E e \in Events : Publish(e)) \/ ProcessDue \/ EndBatch \/ UNCHANGED vars
           \/ \E d \in Deliveries : ComesDue(d) \/ Retry(d) \/ PurgeDelivery(d)
  BY <1>3 DEF Publish, ProcessDue, EndBatch, vars, ComesDue, Retry, PurgeDelivery
<1> QED
  BY <1>1, <1>2, <1>3 DEF Next

\* Nothing is sent without the consent of the owner (attemptDelivery).
THEOREM ConsentKept == Spec => OnlyAgreed
<1>1. IInv /\ [Next]_vars => \A d \in Deliveries : begun'[d] > begun[d] => d[1] \in agreed
  <2> SUFFICES ASSUME IInv, [Next]_vars, NEW d \in Deliveries, begun'[d] > begun[d]
               PROVE  d[1] \in agreed
    OBVIOUS
  <2>1. begun[d] \in Nat /\ delivery[d].attempts \in Nat
    BY DEF IInv, TypeOK, DeliveryRows
  <2>2. CASE begun' = begun
    BY <2>1, <2>2
  <2>3. CASE Crash
    <3>1. begun'[d] = delivery[d].attempts
      BY <2>3 DEF Crash
    <3>2. CASE delivery[d].status = "none"
      BY <2>1, <3>1, <3>2 DEF IInv, Counting, Rounds
    <3>3. CASE delivery[d].status # "none"
      BY <2>1, <3>1, <3>3 DEF IInv, Counting, Counted
    <3> QED
      BY <3>2, <3>3
  <2>4. ASSUME NEW w \in Senders, NEW c \in queue, Attempt(w, c)
        PROVE  d[1] \in agreed
    <3>1. c.id \in Deliveries /\ c.id[1] \in Subscribers
      BY Queued DEF IInv
    <3>2. d = c.id
      BY <2>1, <2>4 DEF Attempt, IInv, TypeOK
    <3> QED
      BY <2>4, <3>1, <3>2 DEF Attempt, Deliverable, IInv, Subscribed, Consent
  <2> QED
    BY <2>2, <2>3, <2>4, Begins
<1> QED
  BY <1>1, Invariance, PTL DEF Spec, OnlyAgreed

\* What was delivered or called off stays so until it is purged
\* (retrySubscriberDelivery, processDueSubscriberDeliveries).
THEOREM EndedStays == Spec => NeverAgain
<1>1. IInv /\ [Next]_vars =>
        \A d \in Deliveries : delivery[d].status \in {"delivered", "cancelled"} =>
          /\ delivery'[d].status \in {delivery[d].status, "none"}
          /\ begun'[d] = begun[d]
  <2> SUFFICES ASSUME IInv, [Next]_vars, NEW d \in Deliveries, delivery[d].status \in {"delivered", "cancelled"}
               PROVE  delivery'[d].status \in {delivery[d].status, "none"} /\ begun'[d] = begun[d]
    OBVIOUS
  <2> USE DEF IInv
  <2>1. \A c \in queue : c.id # d
    BY DEF Holding, Fresh, Matches
  <2>2. ~Out(d)
    BY DEF Holding, Fresh, Matches, Out
  <2>3. begun'[d] = begun[d]
    <3>1. CASE Crash
      BY <2>2, <3>1 DEF Crash, Counting, Counted
    <3>2. ASSUME NEW w \in Senders, NEW c \in queue, Attempt(w, c)
          PROVE  begun'[d] = begun[d]
      BY <2>1, <3>2 DEF Attempt, TypeOK
    <3> QED
      BY <3>1, <3>2, Begins
  <2>4. delivery'[d].status \in {delivery[d].status, "none"}
    <3>1. CASE delivery' = delivery
      BY <3>1
    <3>2. CASE Lifecycle
      <4>1. ASSUME NEW s \in Subscribers, DropRow(s)
            PROVE  delivery'[d].status \in {delivery[d].status, "none"}
        BY <4>1 DEF DropRow, NoDelivery
      <4>2. delivery' = delivery \/ \E s \in Subscribers : DropRow(s)
        BY <3>2 DEF Lifecycle, SignUp, Remind, Confirm, Unsubscribe, Resubscribe, CooldownEnds, LinkExpires,
             SaveSettings, DeleteSubscriber, PurgeUnconfirmed, Elsewhere
      <4> QED
        BY <3>1, <4>1, <4>2
    <3>3. ASSUME NEW e \in Events, Publish(e) PROVE delivery'[d] = delivery[d]
      BY <3>3 DEF Publish, Counting, Rounds
    <3>4. ASSUME NEW w \in Senders, Work(w) PROVE delivery'[d] = delivery[d]
      <4>1. ASSUME NEW c \in queue, CancelUndeliverable(w, c) PROVE delivery'[d] = delivery[d]
        BY <2>1, <4>1, Queued, Written DEF CancelUndeliverable, CallOff
      <4>2. CASE Succeed(w)
        <5>1. Sending(w) /\ sender[w].copy.id # d
          BY <2>2, <4>2 DEF Succeed, Out
        <5> QED
          BY <4>2, <5>1 DEF Succeed, Write, TypeOK
      <4>3. ASSUME NEW blamed \in BOOLEAN, Fail(w, blamed) PROVE delivery'[d] = delivery[d]
        <5>1. Sending(w) /\ sender[w].copy.id # d
          BY <2>2, <4>3 DEF Fail, Out
        <5> QED
          BY <4>3, <5>1 DEF Fail, Write, TypeOK
      <4> QED
        BY <3>4, <4>1, <4>2, <4>3 DEF Work, Attempt, MailEnds
    <3>5. ASSUME NEW o \in Deliveries, ComesDue(o) \/ Retry(o) \/ PurgeDelivery(o)
          PROVE  delivery'[d].status \in {delivery[d].status, "none"}
      <4>1. CASE o # d \/ PurgeDelivery(o)
        BY <3>5, <4>1 DEF ComesDue, Retry, PurgeDelivery, NoDelivery, TypeOK
      <4>2. ~ComesDue(d) /\ ~Retry(d)
        BY DEF ComesDue, Retry, Failed
      <4> QED
        BY <3>5, <4>1, <4>2
    <3> QED
      BY <3>1, <3>2, <3>3, <3>4, <3>5 DEF Next, ProcessDue, EndBatch, Crash, vars
  <2> QED
    BY <2>3, <2>4
<1> QED
  BY <1>1, Invariance, PTL DEF Spec, NeverAgain

-----------------------------------------------------------------------------
(* The deliveries implement Outbox.  Each step is looked at delivery by     *)
(* delivery: what the contract sees of it, before and after.                *)

InOut(d) == Exists(d) /\ Out(d)

\* Nothing the contract sees of a delivery changes.
Unmoved(d) ==
  LetterOf(d)' = LetterOf(d) /\ TriesOf(d)' = TriesOf(d) /\ QuotaOf(d)' = QuotaOf(d) /\ (InOut(d)' <=> InOut(d))

\* A delivery whose row, attempts and senders a step leaves alone, or whose row
\* is gone and stays so.
LEMMA SameDelivery ==
  ASSUME NEW d \in Deliveries,
         \/ delivery'[d] = delivery[d] /\ begun'[d] = begun[d] /\ (Out(d)' <=> Out(d))
         \/ ~Exists(d) /\ ~Exists(d)',
         d[2] \in published' <=> d[2] \in published
  PROVE  Unmoved(d)
BY DEF Unmoved, InOut, LetterOf, TriesOf, QuotaOf, Exists

LEMMA NoneMoves ==
  ASSUME \A d \in Deliveries : Unmoved(d)
  PROVE  UNCHANGED Contract!vars
<1>1. [d \in Deliveries |-> LetterOf(d)]' = [d \in Deliveries |-> LetterOf(d)]
  BY DEF Unmoved
<1>2. {d \in Deliveries : Exists(d) /\ Out(d)}' = {d \in Deliveries : Exists(d) /\ Out(d)}
  BY DEF Unmoved, InOut
<1>3. /\ [d \in Deliveries |-> TriesOf(d)]' = [d \in Deliveries |-> TriesOf(d)]
      /\ [d \in Deliveries |-> QuotaOf(d)]' = [d \in Deliveries |-> QuotaOf(d)]
  BY DEF Unmoved
<1> QED
  BY <1>1, <1>2, <1>3 DEF Contract!vars

LEMMA PublishImplements ==
  ASSUME IInv, NEW e \in Events, Publish(e)
  PROVE  Contract!Post
<1> DEFINE new == {d \in Deliveries : d[2] = e /\ d[1] \in Recipients(e)}
           omitted == {d \in Deliveries : d[2] = e /\ d[1] \notin Recipients(e)}
<1> USE DEF IInv, Holding
<1>1. \A d \in Deliveries : d[2] # e => Unmoved(d)
  BY PublishEffect, SameDelivery
<1>2. \A d \in Deliveries : d[2] = e =>
        /\ LetterOf(d) = "none" /\ TriesOf(d) = 0 /\ QuotaOf(d) = 0 /\ ~InOut(d)
        /\ TriesOf(d)' = 0 /\ ~InOut(d)'
        /\ d \in new => LetterOf(d)' = "pending" /\ QuotaOf(d)' = MaxAttempts
        /\ d \in omitted => LetterOf(d)' = "void" /\ QuotaOf(d)' = 0
  BY PublishEffect, NewFields DEF LetterOf, TriesOf, QuotaOf, InOut, Exists
<1>3. /\ \A d \in new : LetterOf(d) = "none" /\ LetterOf(d)' = "pending" /\ QuotaOf(d)' = MaxAttempts
      /\ \A d \in omitted : LetterOf(d) = "none" /\ LetterOf(d)' = "void" /\ QuotaOf(d)' = QuotaOf(d) /\ d \notin new
  BY <1>2
<1>4. \A d \in Deliveries : TriesOf(d)' = TriesOf(d) /\ (InOut(d)' <=> InOut(d))
  BY <1>1, <1>2 DEF Unmoved
<1>5. \A d \in Deliveries : d \notin new /\ d \notin omitted => LetterOf(d)' = LetterOf(d) /\ QuotaOf(d)' = QuotaOf(d)
  BY <1>1 DEF Unmoved
<1>6. new \in SUBSET Deliveries /\ omitted \in SUBSET Deliveries
  OBVIOUS
<1> HIDE DEF new, omitted, IInv, Holding
<1>7. {d \in Deliveries : Exists(d) /\ Out(d)}' = {d \in Deliveries : Exists(d) /\ Out(d)}
  BY <1>4 DEF InOut
<1>8. /\ [d \in Deliveries |-> LetterOf(d)]' =
           [d \in Deliveries |-> IF d \in new THEN "pending" ELSE IF d \in omitted THEN "void" ELSE [o \in Deliveries |-> LetterOf(o)][d]]
      /\ [d \in Deliveries |-> QuotaOf(d)]' =
           [d \in Deliveries |-> IF d \in new THEN MaxAttempts ELSE [o \in Deliveries |-> QuotaOf(o)][d]]
      /\ [d \in Deliveries |-> TriesOf(d)]' = [d \in Deliveries |-> TriesOf(d)]
  BY <1>3, <1>4, <1>5
<1> QED
  BY <1>3, <1>6, <1>7, <1>8 DEF Contract!Post

\* Rows that are deleted, one by one or with their subscriber.
LEMMA GoneImplements ==
  ASSUME NEW gone \in SUBSET Deliveries,
         \A d \in gone : LetterOf(d) # "none" /\ ~Exists(d)' /\ d[2] \in published',
         \A d \in Deliveries : d \notin gone => Unmoved(d)
  PROVE  Contract!Forget
<1>1. \A d \in gone : LetterOf(d)' = "void" /\ TriesOf(d)' = 0 /\ QuotaOf(d)' = 0 /\ ~InOut(d)'
  BY DEF LetterOf, TriesOf, QuotaOf, InOut
<1>2. {d \in Deliveries : Exists(d) /\ Out(d)}' = {d \in Deliveries : Exists(d) /\ Out(d)} \ gone
  BY <1>1 DEF Unmoved, InOut
<1>3. /\ [d \in Deliveries |-> LetterOf(d)]' =
           [d \in Deliveries |-> IF d \in gone THEN "void" ELSE [o \in Deliveries |-> LetterOf(o)][d]]
      /\ [d \in Deliveries |-> TriesOf(d)]' =
           [d \in Deliveries |-> IF d \in gone THEN 0 ELSE [o \in Deliveries |-> TriesOf(o)][d]]
      /\ [d \in Deliveries |-> QuotaOf(d)]' =
           [d \in Deliveries |-> IF d \in gone THEN 0 ELSE [o \in Deliveries |-> QuotaOf(o)][d]]
  BY <1>1 DEF Unmoved
<1> QED
  BY <1>2, <1>3 DEF Contract!Forget

LEMMA DropImplements ==
  ASSUME IInv, NEW s \in Subscribers, DropRow(s)
  PROVE  Contract!Forget
<1> DEFINE gone == {d \in Deliveries : d[1] = s /\ d[2] \in published}
<1>1. TypeOK /\ Counting
  BY DEF IInv
<1>2. published' = published
  BY <1>1, DropEffect
<1>3. \A d \in Deliveries : d \notin gone => Unmoved(d)
  <2> SUFFICES ASSUME NEW d \in Deliveries, d \notin gone PROVE Unmoved(d)
    OBVIOUS
  <2>1. CASE d[1] # s
    BY <1>1, <2>1, DropEffect, SameDelivery
  <2>2. CASE d[1] = s /\ d[2] \notin published
    <3>1. ~Exists(d)
      BY <1>1, <2>2 DEF Counting, Rounds, Exists
    <3>2. ~Exists(d)'
      BY <1>1, <2>2, DropEffect DEF Exists, NoDelivery
    <3> QED
      BY <1>2, <3>1, <3>2, SameDelivery
  <2> QED
    BY <2>1, <2>2
<1>4. \A d \in gone : LetterOf(d) # "none" /\ ~Exists(d)' /\ d[2] \in published'
  BY <1>1, <1>2, DropEffect DEF LetterOf, Exists, NoDelivery
<1> HIDE DEF gone
<1>5. gone \in SUBSET Deliveries
  BY DEF gone
<1> QED
  BY <1>3, <1>4, <1>5, GoneImplements

LEMMA PurgeImplements ==
  ASSUME IInv, NEW d \in Deliveries, PurgeDelivery(d)
  PROVE  Contract!Forget
<1>1. TypeOK /\ Exists(d) /\ d[2] \in published
  BY DEF IInv, Counting, Rounds, PurgeDelivery, Exists
<1>2. \A o \in Deliveries : begun'[o] = begun[o] /\ (Out(o)' <=> Out(o)) /\ (o[2] \in published' <=> o[2] \in published)
  BY DEF PurgeDelivery, engine, Out, Sending
<1>3. \A o \in Deliveries : o \notin {d} => Unmoved(o)
  BY <1>1, <1>2, SameDelivery DEF PurgeDelivery, TypeOK
<1>4. LetterOf(d) # "none" /\ ~Exists(d)' /\ d[2] \in published'
  BY <1>1, <1>2 DEF PurgeDelivery, TypeOK, LetterOf, Exists, NoDelivery
<1>5. {d} \in SUBSET Deliveries
  OBVIOUS
<1> QED
  BY <1>3, <1>4, <1>5, GoneImplements

\* A copy whose row was purged is taken up, or called off, for nothing.
LEMMA AttemptImplements ==
  ASSUME IInv, NEW w \in Senders, NEW c \in queue, Attempt(w, c)
  PROVE  Contract!Begin(c.id) \/ UNCHANGED Contract!vars
<1> DEFINE d == c.id
<1>1. TypeOK /\ Holding /\ Counting
  BY DEF IInv
<1>2. d \in Deliveries /\ Matches(c)
  BY <1>1, Queued DEF Holding, Fresh
<1>3. delivery' = delivery /\ published' = published /\ begun' = [begun EXCEPT ![d] = begun[d] + 1]
  BY DEF Attempt
<1>4. sender'[w].at = "sending" /\ sender'[w].copy = c /\ ~Sending(w)
  BY <1>1, Resting DEF Attempt, TypeOK, Sending
<1>5. \A v \in Senders \ {w} : sender'[v] = sender[v]
  BY <1>1 DEF Attempt, TypeOK
<1>6. \A o \in Deliveries : o # d => Unmoved(o)
  <2> SUFFICES ASSUME NEW o \in Deliveries, o # d PROVE Unmoved(o)
    OBVIOUS
  <2>1. begun'[o] = begun[o]
    BY <1>1, <1>3 DEF TypeOK
  <2>2. Out(o)' <=> Out(o)
    BY <1>4, <1>5 DEF Out, Sending
  <2> QED
    BY <1>3, <2>1, <2>2, SameDelivery
<1>7. ~Out(d) /\ Out(d)'
  BY <1>1, <1>4 DEF Holding, Distinct, Out, Sending
<1>8. CASE ~Exists(d)
  <2>1. Unmoved(d)
    BY <1>2, <1>3, <1>8, SameDelivery DEF Exists
  <2> QED
    BY <1>6, <2>1, NoneMoves
<1>9. CASE Exists(d)
  <2>1. /\ LetterOf(d) = "pending" /\ LetterOf(d)' = LetterOf(d) /\ ~InOut(d) /\ InOut(d)'
        /\ QuotaOf(d)' = QuotaOf(d) /\ TriesOf(d) < QuotaOf(d) /\ TriesOf(d)' = TriesOf(d) + 1
    BY <1>1, <1>2, <1>3, <1>7, <1>9 DEF Matches, Counting, Counted, Rounds, TypeOK, LetterOf, TriesOf, QuotaOf, InOut, Exists
  <2> HIDE DEF d
  <2>2. {o \in Deliveries : Exists(o) /\ Out(o)}' = {o \in Deliveries : Exists(o) /\ Out(o)} \cup {d}
    BY <1>2, <1>6, <2>1 DEF Unmoved, InOut
  <2>3. /\ [o \in Deliveries |-> LetterOf(o)]' = [o \in Deliveries |-> LetterOf(o)]
        /\ [o \in Deliveries |-> QuotaOf(o)]' = [o \in Deliveries |-> QuotaOf(o)]
        /\ [o \in Deliveries |-> TriesOf(o)]' = [[o \in Deliveries |-> TriesOf(o)] EXCEPT ![d] = @ + 1]
    BY <1>2, <1>6, <2>1 DEF Unmoved
  <2>4. Contract!Begin(d)
    BY <1>2, <2>1, <2>2, <2>3 DEF Contract!Begin, InOut
  <2> QED
    BY <2>4 DEF d
<1> QED
  BY <1>8, <1>9

LEMMA CancelImplements ==
  ASSUME IInv, NEW w \in Senders, NEW c \in queue, CancelUndeliverable(w, c)
  PROVE  Contract!CallOff(c.id) \/ UNCHANGED Contract!vars
<1> DEFINE d == c.id
<1>1. TypeOK /\ Holding /\ Counting
  BY DEF IInv
<1>2. d \in Deliveries /\ c.attempts \in Nat /\ Matches(c)
  BY <1>1, Queued DEF Holding, Fresh
<1>3. sender' = sender /\ published' = published /\ begun' = begun
  BY DEF CancelUndeliverable
<1>4. /\ \A o \in Deliveries \ {d} : delivery'[o] = delivery[o]
      /\ delivery[d].status = "none" => delivery'[d] = delivery[d]
      /\ delivery[d].status # "none" => delivery'[d].status = "cancelled" /\ delivery'[d].max = delivery[d].max
  BY <1>1, <1>2, Written DEF CancelUndeliverable, CallOff
<1>5. \A o \in Deliveries : Out(o)' <=> Out(o)
  BY <1>3 DEF Out, Sending
<1>6. \A o \in Deliveries : o # d => Unmoved(o)
  BY <1>3, <1>4, <1>5, SameDelivery
<1>7. ~Out(d)
  BY <1>1 DEF Holding, Distinct, Out
<1>8. CASE ~Exists(d)
  <2>1. Unmoved(d)
    BY <1>2, <1>3, <1>4, <1>5, <1>8, SameDelivery DEF Exists
  <2> QED
    BY <1>6, <2>1, NoneMoves
<1>9. CASE Exists(d)
  <2>1. /\ LetterOf(d) = "pending" /\ LetterOf(d)' = "cancelled" /\ ~InOut(d) /\ ~InOut(d)'
        /\ QuotaOf(d)' = QuotaOf(d) /\ TriesOf(d)' = TriesOf(d)
    BY <1>2, <1>3, <1>4, <1>5, <1>7, <1>9 DEF Matches, LetterOf, TriesOf, QuotaOf, InOut, Exists
  <2> HIDE DEF d
  <2>2. {o \in Deliveries : Exists(o) /\ Out(o)}' = {o \in Deliveries : Exists(o) /\ Out(o)}
    BY <1>6, <2>1 DEF Unmoved, InOut
  <2>3. /\ [o \in Deliveries |-> LetterOf(o)]' = [[o \in Deliveries |-> LetterOf(o)] EXCEPT ![d] = "cancelled"]
        /\ [o \in Deliveries |-> QuotaOf(o)]' = [o \in Deliveries |-> QuotaOf(o)]
        /\ [o \in Deliveries |-> TriesOf(o)]' = [o \in Deliveries |-> TriesOf(o)]
    BY <1>2, <1>6, <2>1 DEF Unmoved
  <2>4. Contract!CallOff(d)
    BY <1>2, <2>1, <2>2, <2>3 DEF Contract!CallOff, InOut
  <2> QED
    BY <2>4 DEF d
<1> QED
  BY <1>8, <1>9

\* The answer of a mail server or an endpoint, also one that finds no row.
LEMMA OverImplements ==
  ASSUME IInv, NEW w \in Senders, Sending(w), NEW c \in Copies, c = sender[w].copy,
         NEW status \in {"delivered", IF Exhausted(c) THEN "failed" ELSE "pending"},
         Write(c.id, status, c.attempts + 1),
         sender'[w] \in {Idle, Mailing}, \A v \in Senders \ {w} : sender'[v] = sender[v],
         UNCHANGED <<published, begun>>
  PROVE  Contract!Answer(c.id) \/ UNCHANGED Contract!vars
<1> DEFINE d == c.id
<1>1. TypeOK /\ Holding /\ Counting
  BY DEF IInv
<1>2. status \in {"delivered", "failed", "pending"}
  OBVIOUS
<1>3. d \in Deliveries /\ c.attempts \in Nat /\ c.max \in Nat /\ Matches(c) /\ Out(d) /\ ~Out(d)'
  BY <1>1, <1>2, OverEffect
<1>4. \A o \in Deliveries \ {d} : delivery'[o] = delivery[o] /\ (Out(o)' <=> Out(o))
  BY <1>1, <1>2, OverEffect
<1>5. /\ delivery[d].status = "none" => delivery'[d] = delivery[d]
      /\ delivery[d].status # "none" => delivery'[d].status = status /\ delivery'[d].max = delivery[d].max
  BY <1>1, <1>2, OverEffect
<1>6. \A o \in Deliveries : o # d => Unmoved(o)
  BY <1>4, SameDelivery
<1>7. CASE ~Exists(d)
  <2>1. Unmoved(d)
    BY <1>3, <1>5, <1>7, SameDelivery DEF Exists
  <2> QED
    BY <1>6, <2>1, NoneMoves
<1>8. CASE Exists(d)
  <2>1. delivery[d].attempts = c.attempts /\ delivery[d].max = c.max /\ c.attempts < c.max /\ begun[d] = c.attempts + 1
    BY <1>1, <1>3, <1>8 DEF Matches, Counting, Counted, Rounds, Exists
  <2>2. Exhausted(c) <=> TriesOf(d) = QuotaOf(d)
    BY <1>3, <1>8, <2>1 DEF Exhausted, TriesOf, QuotaOf
  <2>3. /\ LetterOf(d)' = status /\ InOut(d) /\ ~InOut(d)'
        /\ QuotaOf(d)' = QuotaOf(d) /\ TriesOf(d)' = TriesOf(d)
    BY <1>2, <1>3, <1>5, <1>8 DEF LetterOf, TriesOf, QuotaOf, InOut, Exists
  <2>4. status \in {"delivered", IF TriesOf(d) = QuotaOf(d) THEN "failed" ELSE "pending"}
    BY <2>2
  <2> HIDE DEF d
  <2>5. {o \in Deliveries : Exists(o) /\ Out(o)}' = {o \in Deliveries : Exists(o) /\ Out(o)} \ {d}
    BY <1>3, <1>6, <2>3 DEF Unmoved, InOut
  <2>6. /\ [o \in Deliveries |-> LetterOf(o)]' = [[o \in Deliveries |-> LetterOf(o)] EXCEPT ![d] = status]
        /\ [o \in Deliveries |-> QuotaOf(o)]' = [o \in Deliveries |-> QuotaOf(o)]
        /\ [o \in Deliveries |-> TriesOf(o)]' = [o \in Deliveries |-> TriesOf(o)]
    BY <1>3, <1>6, <2>3 DEF Unmoved
  <2>7. Contract!Answer(d)
    BY <1>3, <2>3, <2>4, <2>5, <2>6 DEF Contract!Answer, InOut
  <2> QED
    BY <2>7 DEF d
<1> QED
  BY <1>7, <1>8

LEMMA RetryImplements ==
  ASSUME IInv, NEW d \in Deliveries, Retry(d)
  PROVE  Contract!Again(d)
<1>1. TypeOK /\ Holding /\ Counting
  BY DEF IInv
<1>2. delivery[d] \in DeliveryRows /\ delivery[d].status = "failed"
  BY <1>1 DEF TypeOK, Retry, Failed
<1>3. UNCHANGED <<published, begun>> /\ \A o \in Deliveries : Out(o)' <=> Out(o)
  BY DEF Retry, engine, Out, Sending
<1>4. ~Out(d) /\ begun[d] = delivery[d].attempts
  BY <1>1, <1>2 DEF Holding, Fresh, Matches, Counting, Counted, Out
<1>5. \A o \in Deliveries : o # d => Unmoved(o)
  BY <1>1, <1>3, SameDelivery DEF Retry, TypeOK
<1>6. delivery'[d].status = "pending" /\ delivery'[d].max = delivery[d].attempts + MaxAttempts
  BY <1>1, <1>2 DEF Retry, TypeOK, DeliveryRows
<1>7. delivery[d].max = delivery[d].attempts
  BY <1>1, <1>2 DEF Counting, Rounds
<1>8. /\ LetterOf(d) = "failed" /\ LetterOf(d)' = "pending" /\ ~InOut(d) /\ ~InOut(d)'
      /\ QuotaOf(d)' = QuotaOf(d) + MaxAttempts /\ TriesOf(d)' = TriesOf(d)
  BY <1>2, <1>3, <1>4, <1>6, <1>7 DEF LetterOf, TriesOf, QuotaOf, InOut, Exists
<1>9. {o \in Deliveries : Exists(o) /\ Out(o)}' = {o \in Deliveries : Exists(o) /\ Out(o)}
  BY <1>5, <1>8 DEF Unmoved, InOut
<1>10. /\ [o \in Deliveries |-> LetterOf(o)]' = [[o \in Deliveries |-> LetterOf(o)] EXCEPT ![d] = "pending"]
       /\ [o \in Deliveries |-> QuotaOf(o)]' = [[o \in Deliveries |-> QuotaOf(o)] EXCEPT ![d] = @ + MaxAttempts]
       /\ [o \in Deliveries |-> TriesOf(o)]' = [o \in Deliveries |-> TriesOf(o)]
  BY <1>5, <1>8 DEF Unmoved
<1> QED
  BY <1>8, <1>9, <1>10 DEF Contract!Again, InOut

LEMMA CrashImplements ==
  ASSUME IInv, Crash
  PROVE  Contract!Crash
<1>1. TypeOK /\ Counting
  BY DEF IInv
<1>2. \A d \in Deliveries : ~Out(d)' /\ begun'[d] = delivery[d].attempts
  BY Resting DEF Crash, Out, Sending
<1>3. delivery' = delivery /\ published' = published
  BY DEF Crash
<1>4. \A d \in Deliveries : delivery[d].attempts \in Nat
  BY <1>1 DEF TypeOK, DeliveryRows
<1>5. \A d \in Deliveries :
        /\ LetterOf(d)' = LetterOf(d) /\ QuotaOf(d)' = QuotaOf(d) /\ ~InOut(d)'
        /\ TriesOf(d)' = IF InOut(d) THEN TriesOf(d) - 1 ELSE TriesOf(d)
  BY <1>1, <1>2, <1>3, <1>4 DEF Counting, Counted, LetterOf, TriesOf, QuotaOf, InOut, Exists
<1>6. {d \in Deliveries : Exists(d) /\ Out(d)}' = {}
  BY <1>5 DEF InOut
<1>7. /\ [d \in Deliveries |-> LetterOf(d)]' = [d \in Deliveries |-> LetterOf(d)]
      /\ [d \in Deliveries |-> QuotaOf(d)]' = [d \in Deliveries |-> QuotaOf(d)]
      /\ [d \in Deliveries |-> TriesOf(d)]' =
           [d \in Deliveries |-> IF d \in {o \in Deliveries : Exists(o) /\ Out(o)}
                                   THEN [o \in Deliveries |-> TriesOf(o)][d] - 1 ELSE [o \in Deliveries |-> TriesOf(o)][d]]
  BY <1>5 DEF InOut
<1> QED
  BY <1>6, <1>7 DEF Contract!Crash

\* What a sender does.
LEMMA WorkImplements ==
  ASSUME IInv, NEW w \in Senders, Work(w)
  PROVE  [Contract!Next]_(Contract!vars)
<1>1. TypeOK /\ Patience
  BY DEF IInv, Subscribed
<1>2. ASSUME NEW c \in queue, Attempt(w, c) \/ CancelUndeliverable(w, c)
      PROVE  [Contract!Next]_(Contract!vars)
  <2>1. c.id \in Deliveries
    BY <1>1, Queued
  <2> QED
    BY <1>2, <2>1, AttemptImplements, CancelImplements DEF Contract!Next
<1>3. ASSUME Sending(w),
             NEW status \in {"delivered", IF Exhausted(sender[w].copy) THEN "failed" ELSE "pending"},
             Write(sender[w].copy.id, status, sender[w].copy.attempts + 1),
             sender'[w] \in {Idle, Mailing}, \A v \in Senders \ {w} : sender'[v] = sender[v],
             UNCHANGED <<published, begun>>
      PROVE  [Contract!Next]_(Contract!vars)
  <2>1. PICK c \in Copies : c = sender[w].copy
    BY <1>1, <1>3, Held
  <2>2. c.id \in Deliveries
    BY <2>1, CopyFields
  <2> QED
    BY <1>3, <2>1, <2>2, OverImplements DEF Contract!Next
<1>4. CASE Succeed(w)
  <2>1. sender'[w] = Idle /\ \A v \in Senders \ {w} : sender'[v] = sender[v]
    BY <1>1, <1>4 DEF Succeed, TypeOK
  <2> QED
    BY <1>3, <1>4, <2>1 DEF Succeed
<1>5. ASSUME NEW blamed \in BOOLEAN, Fail(w, blamed)
      PROVE  [Contract!Next]_(Contract!vars)
  <2>1. Sending(w) /\ UNCHANGED <<published, begun>>
    BY <1>5 DEF Fail
  <2>2. /\ Write(sender[w].copy.id, IF Exhausted(sender[w].copy) THEN "failed" ELSE "pending", sender[w].copy.attempts + 1)
        /\ sender'[w] \in {Idle, Mailing} /\ \A v \in Senders \ {w} : sender'[v] = sender[v]
    BY <1>1, <1>5, Failing
  <2> QED
    BY <1>3, <2>1, <2>2
<1>6. CASE MailEnds(w)
  <2>1. \A v \in Senders : (sender'[v].at = "sending" <=> Sending(v)) /\ (Sending(v) => sender'[v] = sender[v])
    BY <1>1, <1>6, Resting DEF MailEnds, TypeOK, Sending
  <2>2. \A d \in Deliveries : Out(d)' <=> Out(d)
    BY <2>1 DEF Out, Sending
  <2>3. \A d \in Deliveries : Unmoved(d)
    BY <1>6, <2>2, SameDelivery DEF MailEnds
  <2> QED
    BY <2>3, NoneMoves
<1> QED
  BY <1>2, <1>4, <1>5, <1>6 DEF Work

\* The sender, the batches it reads ahead, retries by hand, deletions and
\* crashes implement Outbox: one attempt at a time and none beyond the round;
\* what ended well, was called off or was purged stays that way.
THEOREM DeliveriesImplementOutbox == Spec => ImplementsOutbox
<1>1. Init => Contract!Init
  <2> SUFFICES ASSUME Init PROVE Contract!Init
    OBVIOUS
  <2>1. \A d \in Deliveries : LetterOf(d) = "none" /\ TriesOf(d) = 0 /\ QuotaOf(d) = 0 /\ ~Exists(d)
    BY DEF Init, NoDelivery, LetterOf, TriesOf, QuotaOf, Exists
  <2> QED
    BY <2>1 DEF Contract!Init
<1>2. IInv /\ [Next]_vars => [Contract!Next]_(Contract!vars)
  <2> SUFFICES ASSUME IInv, [Next]_vars PROVE [Contract!Next]_(Contract!vars)
    OBVIOUS
  <2>1. CASE UNCHANGED <<delivery, published, begun, sender>>
    <3>1. \A d \in Deliveries : Unmoved(d)
      BY <2>1, SameDelivery DEF Out, Sending
    <3> QED
      BY <3>1, NoneMoves
  <2>2. CASE Lifecycle
    <3>1. ASSUME NEW s \in Subscribers, DropRow(s) PROVE [Contract!Next]_(Contract!vars)
      BY <3>1, DropImplements DEF Contract!Next
    <3> QED
      BY <2>1, <2>2, <3>1 DEF Lifecycle, SignUp, Remind, Confirm, Unsubscribe, Resubscribe, CooldownEnds, LinkExpires,
           SaveSettings, DeleteSubscriber, PurgeUnconfirmed, Elsewhere, engine
  <2>3. ASSUME NEW d \in Deliveries, ComesDue(d) PROVE [Contract!Next]_(Contract!vars)
    <3>1. UNCHANGED <<published, begun, sender>>
      BY <2>3 DEF ComesDue, engine
    <3>2. /\ \A o \in Deliveries \ {d} : delivery'[o] = delivery[o]
          /\ delivery'[d].status = delivery[d].status /\ delivery'[d].max = delivery[d].max
      BY <2>3 DEF ComesDue, IInv, TypeOK, DeliveryRows
    <3>3. \A o \in Deliveries : Unmoved(o)
      BY <3>1, <3>2 DEF Unmoved, InOut, Out, Sending, LetterOf, TriesOf, QuotaOf, Exists
    <3> QED
      BY <3>3, NoneMoves
  <2>4. ASSUME NEW d \in Deliveries, Retry(d) \/ PurgeDelivery(d) PROVE [Contract!Next]_(Contract!vars)
    BY <2>4, RetryImplements, PurgeImplements DEF Contract!Next
  <2>5. ASSUME NEW e \in Events, Publish(e) PROVE [Contract!Next]_(Contract!vars)
    BY <2>5, PublishImplements DEF Contract!Next
  <2>6. CASE Crash
    BY <2>6, CrashImplements DEF Contract!Next
  <2>7. CASE ProcessDue \/ EndBatch \/ UNCHANGED vars
    BY <2>1, <2>7 DEF ProcessDue, EndBatch, vars, engine
  <2> QED
    BY <2>2, <2>3, <2>4, <2>5, <2>6, <2>7, WorkImplements DEF Next
<1> QED
  BY <1>1, <1>2, Invariance, PTL DEF Spec, ImplementsOutbox, Contract!Spec

\* A subscription is paused for what its endpoint did, as far as the code
\* took notice of its successes (recordWebhookFailure).
THEOREM PausesEarned == Spec => PauseEarned
<1>1. IInv /\ [Next]_vars =>
        \A s \in Subscribers : row[s].status # "disabled" /\ row'[s].status = "disabled" =>
          streak'[s] >= DisableAfter \/ s \in overlooked
  <2> SUFFICES ASSUME IInv, [Next]_vars, NEW s \in Subscribers,
                      row[s].status # "disabled", row'[s].status = "disabled"
               PROVE  streak'[s] >= DisableAfter \/ s \in overlooked
    OBVIOUS
  <2> USE DEF IInv
  <2>1. ASSUME NEW w \in Senders, NEW blamed \in BOOLEAN, Fail(w, blamed)
        PROVE  streak'[s] >= DisableAfter \/ s \in overlooked
    <3>1. PICK t \in Subscribers :
            /\ row[t].status = "active"
            /\ row' = [row EXCEPT ![t].failures = row[t].failures + 1,
                                  ![t].status = IF row[t].failures + 1 >= DisableAfter THEN "disabled" ELSE "active"]
            /\ streak' = [streak EXCEPT ![t] = streak[t] + 1]
      BY <2>1, Failing DEF Subscribed
    <3>2. t = s
      BY <3>1 DEF TypeOK
    <3>3. row[s].failures \in Nat /\ streak[s] \in Nat /\ DisableAfter \in Nat
      BY DEF TypeOK, SubscriberRows
    <3>4. row[s].failures + 1 >= DisableAfter /\ streak'[s] = streak[s] + 1
      BY <3>1, <3>2 DEF TypeOK, SubscriberRows
    <3> QED
      BY <3>3, <3>4 DEF Subscribed, Backed
  <2>2. CASE row' = row
    BY <2>2
  <2>3. CASE Lifecycle
    <3>1. row[s] \in SubscriberRows
      BY DEF TypeOK
    <3>2. ASSUME NEW t \in Subscribers,
                 \/ SignUp(t) \/ Remind(t) \/ Confirm(t) \/ Unsubscribe(t) \/ Resubscribe(t)
                 \/ CooldownEnds(t) \/ LinkExpires(t) \/ DropRow(t)
          PROVE  FALSE
      <4>1. row'[s].status \in {row[s].status, "none", "pending", "active", "unsubscribed"}
        <5>1. CASE SignUp(t)
          BY <5>1 DEF SignUp, TypeOK
        <5>2. CASE Remind(t) \/ CooldownEnds(t) \/ LinkExpires(t)
          BY <3>1, <5>2 DEF Remind, CooldownEnds, LinkExpires, TypeOK, SubscriberRows
        <5>3. CASE Confirm(t)
          BY <3>1, <5>3 DEF Confirm, TypeOK, SubscriberRows
        <5>4. CASE Unsubscribe(t)
          BY <3>1, <5>4 DEF Unsubscribe, TypeOK, SubscriberRows
        <5>5. CASE Resubscribe(t)
          BY <3>1, <5>5 DEF Resubscribe, Reactivated, TypeOK, SubscriberRows
        <5>6. CASE DropRow(t)
          BY <5>6 DEF DropRow, NoRow, TypeOK
        <5> QED
          BY <3>2, <5>1, <5>2, <5>3, <5>4, <5>5, <5>6
      <4> QED
        BY <4>1
    <3> QED
      BY <2>2, <2>3, <3>2 DEF Lifecycle, DeleteSubscriber, PurgeUnconfirmed, SaveSettings, subscription
  <2>4. ASSUME NEW w \in Senders, Succeed(w)
        PROVE  row'[s].status = row[s].status
    BY <2>4 DEF Succeed, TypeOK, SubscriberRows
  <2> QED
    BY <2>1, <2>2, <2>3, <2>4 DEF Next, Publish, ProcessDue, EndBatch, Work, Attempt, CancelUndeliverable, MailEnds,
         ComesDue, Retry, PurgeDelivery, Crash, vars, subscription
<1> QED
  BY <1>1, Invariance, PTL DEF Spec, PauseEarned
=============================================================================
