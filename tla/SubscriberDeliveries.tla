------------------------ MODULE SubscriberDeliveries ------------------------
(***************************************************************************)
(* Subscriptions of one mailbox and what is sent to them                   *)
(* (services/subscriptions.ts, workers/subscriberNotifier.ts).             *)
(*                                                                         *)
(* A visitor signs up, confirms by email, unsubscribes and comes back; an  *)
(* event is fanned out to the active subscriptions as one delivery each;   *)
(* passes send what is due with a few senders side by side and retry what  *)
(* failed; an endpoint that keeps failing pauses its subscription.         *)
(*                                                                         *)
(* The database driver is synchronous, so a handler that awaits only       *)
(* queries is one step here; steps interleave where the code waits for a   *)
(* mail server, an endpoint or a timer.                                    *)
(***************************************************************************)
EXTENDS Integers, FiniteSets

CONSTANTS
  Subscribers,   \* destinations (target_key) that mail the same address
  Webhooks,      \* those of type 'webhook'; the others are emails
  Events,        \* public events, each published once
  Follows,       \* per subscriber: the events its types and scope select
  Senders,       \* SEND_CONCURRENCY loops of a pass
  MaxAttempts,   \* MAX_ATTEMPTS of one round
  BatchSize,     \* BATCH_SIZE
  DisableAfter,  \* WEBHOOK_DISABLE_AFTER_FAILURES
  MaxPending,    \* MAX_PENDING_PER_EMAIL
  MaxCalls,      \* bound: calls by visitors, owners and administrators
  MaxCrashes     \* bound: crashes of the process

ASSUME SubscriberDeliveriesAssumption ==
  /\ IsFiniteSet(Subscribers) /\ IsFiniteSet(Events) /\ IsFiniteSet(Senders)
  /\ Webhooks \subseteq Subscribers
  /\ Follows \in [Subscribers -> SUBSET Events]
  /\ {MaxAttempts, BatchSize, DisableAfter} \subseteq Nat \ {0}
  /\ {MaxPending, MaxCalls, MaxCrashes} \subseteq Nat

VARIABLES
  row,         \* the rows of subscribers
  allowed,     \* the channels the settings allow; none when switched off
  delivery,    \* the rows of subscriber_deliveries
  published,   \* events fanned out so far
  pass,        \* processing: a pass is running
  rerun,       \* rerunRequested
  queue,       \* the rows of the batch nobody has taken yet, as they were read
  sender,      \* per sender of the pass: what it waits for
  agreed,      \* history: subscriptions their owner asked for and did not end
  streak,      \* history: deliveries that failed for good since the last success
  overlooked,  \* history: subscriptions a success did not clear
  begun,       \* history: attempts of a delivery that began
  calls,       \* calls by visitors, owners and administrators so far
  crashes      \* crashes so far

subscription == <<row, agreed, streak, overlooked>>
engine == <<pass, rerun, queue, sender>>
vars == <<subscription, allowed, delivery, published, engine, begun, calls, crashes>>

Channels == {"email", "webhook"}
Channel(s) == IF s \in Webhooks THEN "webhook" ELSE "email"

\* link: the confirmation link of the last sign-up; recent: a confirmation or
\* a reminder went out within the cooldown (confirmationSentAt).
RowStatuses == {"none", "pending", "active", "unsubscribed", "disabled"}
SubscriberRows ==
  [status : RowStatuses, link : {"none", "live", "expired"}, recent : BOOLEAN, failures : 0 .. DisableAfter]
NoRow == [status |-> "none", link |-> "none", recent |-> FALSE, failures |-> 0]
Confirmed == [status |-> "active", link |-> "none", recent |-> FALSE, failures |-> 0]

Deliveries == {d \in Subscribers \X Events : d[2] \in Follows[d[1]]}
DeliveryRows ==
  [status : {"none", "pending", "delivered", "failed", "cancelled"},
   attempts : Nat, max : Nat, due : BOOLEAN]
NoDelivery == [status |-> "none", attempts |-> 0, max |-> 0, due |-> FALSE]
NewDelivery == [status |-> "pending", attempts |-> 0, max |-> MaxAttempts, due |-> TRUE]

\* What a pass keeps of a delivery it has read.
Copies == [id : Deliveries, attempts : Nat, max : Nat]
Copy(d) == [id |-> d, attempts |-> delivery[d].attempts, max |-> delivery[d].max]

\* failing: the subscriber read for the attempt had failures on record;
\* owner: that subscriber has not been deleted since.
Idle == [at |-> "idle"]
Mailing == [at |-> "mailing"]
SenderStates == {Idle, Mailing} \cup [at : {"sending"}, copy : Copies, failing : BOOLEAN, owner : BOOLEAN]
Sending(w) == sender[w].at = "sending"

TypeOK ==
  /\ row \in [Subscribers -> SubscriberRows]
  /\ allowed \subseteq Channels
  /\ delivery \in [Deliveries -> DeliveryRows]
  /\ published \subseteq Events
  /\ pass \in BOOLEAN
  /\ rerun \in BOOLEAN
  /\ queue \subseteq Copies
  /\ sender \in [Senders -> SenderStates]
  /\ agreed \subseteq Subscribers
  /\ streak \in [Subscribers -> Nat]
  /\ overlooked \subseteq Subscribers
  /\ begun \in [Deliveries -> Nat]
  /\ calls \in 0 .. MaxCalls
  /\ crashes \in 0 .. MaxCrashes

Init ==
  /\ \E known \in SUBSET Subscribers :
       /\ row = [s \in Subscribers |-> IF s \in known THEN Confirmed ELSE NoRow]
       /\ agreed = known
  /\ allowed = Channels
  /\ delivery = [d \in Deliveries |-> NoDelivery]
  /\ published = {}
  /\ pass = FALSE
  /\ rerun = FALSE
  /\ queue = {}
  /\ sender = [w \in Senders |-> Idle]
  /\ streak = [s \in Subscribers |-> 0]
  /\ overlooked = {}
  /\ begun = [d \in Deliveries |-> 0]
  /\ calls = 0
  /\ crashes = 0

-----------------------------------------------------------------------------
(* The life of a subscription. *)

Elsewhere == <<delivery, published, engine, begun, crashes>>

Call ==
  /\ calls < MaxCalls
  /\ calls' = calls + 1

\* A confirmation followed by an unsubscribe has been used up.
CooledDown == \A s \in Subscribers : row[s].recent => row[s].status = "unsubscribed"

Waiting == {s \in Subscribers : row[s].status = "pending" /\ row[s].link = "live"}

\* The failure count starts over, and with it the history of the endpoint.
StartOver(s) ==
  /\ streak' = [streak EXCEPT ![s] = 0]
  /\ overlooked' = overlooked \ {s}

SignUp(s) ==
  /\ Call
  /\ Channel(s) \in allowed
  /\ CooledDown
  /\ row[s].status \in {"none", "pending", "unsubscribed"}
  /\ row[s].status = "none" => Cardinality(Waiting) < MaxPending
  /\ row' = [row EXCEPT ![s] = [status |-> "pending", link |-> "live", recent |-> TRUE, failures |-> 0]]
  /\ StartOver(s)
  /\ UNCHANGED <<agreed, allowed, Elsewhere>>

\* Someone signs up a destination that is subscribed: its owner gets a mail.
Remind(s) ==
  /\ Call
  /\ Channel(s) \in allowed
  /\ CooledDown
  /\ row[s].status \in {"active", "disabled"}
  /\ row' = [row EXCEPT ![s].recent = TRUE]
  /\ UNCHANGED <<agreed, streak, overlooked, allowed, Elsewhere>>

Confirm(s) ==
  /\ Call
  /\ row[s].status = "pending"
  /\ row[s].link = "live"
  /\ row' = [row EXCEPT ![s].status = "active", ![s].link = "none"]
  /\ agreed' = agreed \cup {s}
  /\ UNCHANGED <<streak, overlooked, allowed, Elsewhere>>

Unsubscribe(s) ==
  /\ Call
  /\ row[s].status \in {"active", "disabled"}
  /\ row' = [row EXCEPT ![s].status = "unsubscribed"]
  /\ agreed' = agreed \ {s}
  /\ UNCHANGED <<streak, overlooked, allowed, Elsewhere>>

\* Planted bug: coming back does not clear the count.
ReactivatedAsIs(r) == [r EXCEPT !.status = "active"]

Reactivated(r) == [r EXCEPT !.status = "active", !.failures = 0]

\* The manage page does nothing for a pending row.
Resubscribe(s) ==
  /\ Call
  /\ row[s].status \in {"unsubscribed", "disabled"}
  /\ row' = [row EXCEPT ![s] = Reactivated(row[s])]
  /\ agreed' = agreed \cup {s}
  /\ StartOver(s)
  /\ UNCHANGED <<allowed, Elsewhere>>

CooldownEnds(s) ==
  /\ row[s].recent
  /\ row' = [row EXCEPT ![s].recent = FALSE]
  /\ UNCHANGED <<agreed, streak, overlooked, allowed, calls, Elsewhere>>

LinkExpires(s) ==
  /\ row[s].status = "pending"
  /\ row[s].link = "live"
  /\ row' = [row EXCEPT ![s].link = "expired"]
  /\ UNCHANGED <<agreed, streak, overlooked, allowed, calls, Elsewhere>>

\* Deliveries go with their subscriber (ON DELETE CASCADE).  A copy in the
\* queue finds no subscriber any more and comes to nothing; an attempt that
\* is out finds no row to write to.
DropRow(s) ==
  /\ row' = [row EXCEPT ![s] = NoRow]
  /\ agreed' = agreed \ {s}
  /\ StartOver(s)
  /\ delivery' = [d \in Deliveries |-> IF d[1] = s THEN NoDelivery ELSE delivery[d]]
  /\ queue' = {c \in queue : c.id[1] # s}
  /\ sender' = [w \in Senders |->
       IF Sending(w) /\ sender[w].copy.id[1] = s THEN [sender[w] EXCEPT !.owner = FALSE] ELSE sender[w]]
  /\ UNCHANGED <<allowed, published, pass, rerun, begun, crashes>>

DeleteSubscriber(s) ==
  /\ Call
  /\ row[s].status # "none"
  /\ DropRow(s)

PurgeUnconfirmed(s) ==
  /\ row[s].status = "pending"
  /\ row[s].link = "expired"
  /\ DropRow(s)
  /\ UNCHANGED calls

SaveSettings ==
  /\ Call
  /\ \E channels \in SUBSET Channels : allowed' = channels
  /\ UNCHANGED <<subscription, Elsewhere>>

-----------------------------------------------------------------------------
(* Deliveries. *)

Recipients(e) ==
  {s \in Subscribers : row[s].status = "active" /\ Channel(s) \in allowed /\ e \in Follows[s]}

Publish(e) ==
  /\ e \notin published
  /\ published' = published \cup {e}
  /\ delivery' = [d \in Deliveries |-> IF d[2] = e /\ d[1] \in Recipients(e) THEN NewDelivery ELSE delivery[d]]
  /\ UNCHANGED <<subscription, allowed, engine, begun, calls, crashes>>

Due == {d \in Deliveries : delivery[d].status = "pending" /\ delivery[d].due}

\* A full batch means more may be waiting.
ReadBatch ==
  \/ /\ Due = {}
     /\ pass' = FALSE
     /\ rerun' = FALSE
     /\ UNCHANGED queue
  \/ \E batch \in (SUBSET Due) \ {{}} :
       /\ Cardinality(batch) = IF Cardinality(Due) < BatchSize THEN Cardinality(Due) ELSE BatchSize
       /\ pass' = TRUE
       /\ rerun' = (Cardinality(batch) = BatchSize)
       /\ queue' = {Copy(d) : d \in batch}

\* Planted bug: a call starts a pass of its own beside the running one.
ProcessDueBeside ==
  /\ ReadBatch
  /\ UNCHANGED <<subscription, allowed, delivery, published, sender, begun, calls, crashes>>

\* Called every minute, and right after a fan-out or a retry by hand.
ProcessDue ==
  /\ \/ /\ pass
        /\ rerun' = TRUE
        /\ UNCHANGED <<pass, queue>>
     \/ /\ ~pass
        /\ ReadBatch
  /\ UNCHANGED <<subscription, allowed, delivery, published, sender, begun, calls, crashes>>

EndBatch ==
  /\ pass
  /\ queue = {}
  /\ \A w \in Senders : sender[w] = Idle
  /\ \/ /\ rerun
        /\ ReadBatch
     \/ /\ ~rerun
        /\ pass' = FALSE
        /\ UNCHANGED <<rerun, queue>>
  /\ UNCHANGED <<subscription, allowed, delivery, published, sender, begun, calls, crashes>>

\* Planted bug: only the settings are read again, not the subscription.
DeliverableUnread(s) == row[s].status # "none" /\ Channel(s) \in allowed

Deliverable(s) == row[s].status = "active" /\ Channel(s) \in allowed

\* An attempt by a sender: it reads the subscriber and hands the message over.
Attempt(w, c) ==
  /\ sender[w] = Idle
  /\ c \in queue
  /\ Deliverable(c.id[1])
  /\ queue' = queue \ {c}
  /\ sender' = [sender EXCEPT ![w] =
       [at |-> "sending", copy |-> c, failing |-> row[c.id[1]].failures > 0, owner |-> TRUE]]
  /\ begun' = [begun EXCEPT ![c.id] = @ + 1]
  /\ UNCHANGED <<subscription, allowed, delivery, published, pass, rerun, calls, crashes>>

\* Outcomes are written by id; a row that was deleted takes nothing.
Write(d, status, attempts) ==
  delivery' = [delivery EXCEPT ![d] =
    IF delivery[d].status = "none" THEN delivery[d]
    ELSE [delivery[d] EXCEPT !.status = status, !.attempts = attempts, !.due = FALSE]]

\* Planted bug: what cannot be delivered is passed over and stays pending.
PassOver(c) == UNCHANGED delivery

CallOff(c) == Write(c.id, "cancelled", c.attempts)

CancelUndeliverable(w, c) ==
  /\ sender[w] = Idle
  /\ c \in queue
  /\ ~Deliverable(c.id[1])
  /\ queue' = queue \ {c}
  /\ CallOff(c)
  /\ UNCHANGED <<subscription, allowed, published, pass, rerun, sender, begun, calls, crashes>>

Succeed(w) ==
  /\ Sending(w)
  /\ LET c == sender[w].copy
         s == c.id[1]
         counted == sender[w].failing
     IN /\ Write(c.id, "delivered", c.attempts + 1)
        /\ IF sender[w].owner
             THEN /\ row' = IF counted THEN [row EXCEPT ![s].failures = 0] ELSE row
                  /\ streak' = [streak EXCEPT ![s] = 0]
                  /\ overlooked' = IF counted THEN overlooked \ {s}
                                   ELSE IF row[s].failures > 0 THEN overlooked \cup {s} ELSE overlooked
             ELSE UNCHANGED <<row, streak, overlooked>>
  /\ sender' = [sender EXCEPT ![w] = Idle]
  /\ UNCHANGED <<agreed, allowed, published, pass, rerun, queue, begun, calls, crashes>>

Exhausted(c) == c.attempts + 1 >= c.max

\* The owner of an unread manage token is not blamed for it.
Counts(w, blamed) ==
  LET s == sender[w].copy.id[1]
  IN blamed /\ Exhausted(sender[w].copy) /\ s \in Webhooks /\ sender[w].owner /\ row[s].status = "active"

\* The sender that counted a failure may still have to mail the owner.
Fail(w, blamed) ==
  /\ Sending(w)
  /\ LET c == sender[w].copy
         s == c.id[1]
         failures == row[s].failures + 1
         pauses == failures >= DisableAfter
     IN /\ Write(c.id, IF Exhausted(c) THEN "failed" ELSE "pending", c.attempts + 1)
        /\ IF Counts(w, blamed)
             THEN /\ row' = [row EXCEPT ![s].failures = failures,
                                        ![s].status = IF pauses THEN "disabled" ELSE "active"]
                  /\ streak' = [streak EXCEPT ![s] = @ + 1]
                  /\ \E mails \in {Mailing, Idle} :
                       /\ pauses => mails = Mailing
                       /\ sender' = [sender EXCEPT ![w] = mails]
             ELSE /\ UNCHANGED <<row, streak>>
                  /\ sender' = [sender EXCEPT ![w] = Idle]
  /\ UNCHANGED <<agreed, overlooked, allowed, published, pass, rerun, queue, begun, calls, crashes>>

MailEnds(w) ==
  /\ sender[w] = Mailing
  /\ sender' = [sender EXCEPT ![w] = Idle]
  /\ UNCHANGED <<subscription, allowed, delivery, published, pass, rerun, queue, begun, calls, crashes>>

ComesDue(d) ==
  /\ delivery[d].status = "pending"
  /\ ~delivery[d].due
  /\ delivery' = [delivery EXCEPT ![d].due = TRUE]
  /\ UNCHANGED <<subscription, allowed, published, engine, begun, calls, crashes>>

\* Planted bug: a retry by hand takes deliveries that were called off as well.
EndedUnsent(d) == delivery[d].status \in {"failed", "cancelled"}

Failed(d) == delivery[d].status = "failed"

\* A failed delivery gets another full round, and with it a call of ProcessDue.
Retry(d) ==
  /\ Call
  /\ Failed(d)
  /\ delivery' = [delivery EXCEPT ![d].status = "pending", ![d].max = delivery[d].attempts + MaxAttempts, ![d].due = TRUE]
  /\ UNCHANGED <<subscription, allowed, published, engine, begun, crashes>>

PurgeDelivery(d) ==
  /\ delivery[d].status # "none"
  /\ delivery' = [delivery EXCEPT ![d] = NoDelivery]
  /\ UNCHANGED <<subscription, allowed, published, engine, begun, calls, crashes>>

\* The rows stay, the pass is gone; attempts that were out are not on record.
Crash ==
  /\ crashes < MaxCrashes
  /\ crashes' = crashes + 1
  /\ pass' = FALSE
  /\ rerun' = FALSE
  /\ queue' = {}
  /\ sender' = [w \in Senders |-> Idle]
  /\ begun' = [d \in Deliveries |-> delivery[d].attempts]
  /\ UNCHANGED <<subscription, allowed, delivery, published, calls>>

-----------------------------------------------------------------------------
Lifecycle ==
  \/ \E s \in Subscribers :
       \/ SignUp(s) \/ Remind(s) \/ Confirm(s) \/ Unsubscribe(s) \/ Resubscribe(s)
       \/ CooldownEnds(s) \/ LinkExpires(s) \/ DeleteSubscriber(s) \/ PurgeUnconfirmed(s)
  \/ SaveSettings

Work(w) ==
  \/ \E c \in queue : Attempt(w, c) \/ CancelUndeliverable(w, c)
  \/ Succeed(w)
  \/ \E blamed \in BOOLEAN : Fail(w, blamed)
  \/ MailEnds(w)

Next ==
  \/ Lifecycle
  \/ \E e \in Events : Publish(e)
  \/ ProcessDue
  \/ EndBatch
  \/ \E w \in Senders : Work(w)
  \/ \E d \in Deliveries : ComesDue(d) \/ Retry(d) \/ PurgeDelivery(d)
  \/ Crash

Spec == Init /\ [][Next]_vars

\* The cron tick every minute; timeouts of the mail server and the endpoint;
\* the clock.  Nothing is assumed of visitors, owners and administrators.
Fairness ==
  /\ WF_vars(ProcessDue)
  /\ WF_vars(EndBatch)
  /\ \A w \in Senders : WF_vars(Work(w))
  /\ \A d \in Deliveries : WF_vars(ComesDue(d))

FairSpec == Spec /\ Fairness
-----------------------------------------------------------------------------
InFlight(d) == {w \in Senders : Sending(w) /\ sender[w].copy.id = d}

\* Every attempt that began is on record or still out, never two of a delivery
\* at a time, and a round is never exceeded, whatever passes, retries by hand,
\* purges and crashes come together (subscriberNotifier.ts attemptDelivery).
AttemptsOnRecord ==
  \A d \in Deliveries : delivery[d].status # "none" =>
    /\ begun[d] = delivery[d].attempts + Cardinality(InFlight(d))
    /\ Cardinality(InFlight(d)) <= 1
    /\ begun[d] <= delivery[d].max

\* Nothing is sent to a subscription that its owner has not confirmed or has
\* ended, also when a batch was read before and the sign-up was renewed
\* (attemptDelivery reads the subscriber again).
OnlyAgreed ==
  [][\A d \in Deliveries : begun'[d] > begun[d] => d[1] \in agreed]_vars

\* A delivery that was made or called off is never attempted again
\* (retrySubscriberDelivery, processDueSubscriberDeliveries).
NeverAgain ==
  [][\A d \in Deliveries : delivery[d].status \in {"delivered", "cancelled"} =>
       /\ delivery'[d].status \in {delivery[d].status, "none"}
       /\ begun'[d] = begun[d]]_vars

\* The refinement mapping: a row that is gone, or that an event did not make, is
\* void, whatever a sender still has out for it.
Out(d) == \E w \in Senders : Sending(w) /\ sender[w].copy.id = d

Exists(d) == delivery[d].status # "none"

LetterOf(d) == IF Exists(d) THEN delivery[d].status ELSE IF d[2] \in published THEN "void" ELSE "none"

TriesOf(d) == IF Exists(d) THEN begun[d] ELSE 0

QuotaOf(d) == IF Exists(d) THEN delivery[d].max ELSE 0

Contract == INSTANCE Outbox WITH
  letter <- [d \in Deliveries |-> LetterOf(d)], out <- {d \in Deliveries : Exists(d) /\ Out(d)},
  tries <- [d \in Deliveries |-> TriesOf(d)], quota <- [d \in Deliveries |-> QuotaOf(d)]

\* Batches read ahead, senders side by side, retries by hand, deletions and
\* crashes implement Outbox: one attempt at a time and none beyond the round, a
\* delivery fails only when its round is used up, and one that was made, called
\* off or purged is never attempted or posted again, whatever comes too late
\* (processDueSubscriberDeliveries, retrySubscriberDelivery).
ImplementsOutbox == Contract!Spec

\* A subscription is paused only after DisableAfter deliveries in a row failed
\* for good, unless a success in between had read the row before the first of
\* them was counted (recordWebhookFailure, attemptDelivery).
PauseEarned ==
  [][\A s \in Subscribers : row[s].status # "disabled" /\ row'[s].status = "disabled" =>
       streak'[s] >= DisableAfter \/ s \in overlooked]_vars

\* Every delivery is made, fails for good, is called off or purged: none is
\* left in the queue by a pass, a retry or a crash (processDueSubscriberDeliveries).
EveryDeliveryEnds ==
  \A d \in Deliveries : delivery[d].status = "pending" ~> delivery[d].status # "pending"

=============================================================================
