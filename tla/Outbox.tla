-------------------------------- MODULE Outbox --------------------------------
(***************************************************************************)
(* What the deliveries to subscribers promise, said without passes,        *)
(* batches, copies, senders and what happens to subscriptions: a delivery  *)
(* is out with one attempt at a time, has a quota of them and fails when   *)
(* it is used up; what was made or called off is not taken up again, and   *)
(* what was forgotten never comes back.                                    *)
(***************************************************************************)
EXTENDS Naturals

CONSTANTS Deliveries, MaxAttempts

VARIABLES
  letter,  \* "none" before it is posted; "void": not posted, or forgotten
  out,     \* deliveries with an attempt under way
  tries,   \* attempts that began
  quota    \* attempts that may begin

vars == <<letter, out, tries, quota>>

Init ==
  /\ letter = [d \in Deliveries |-> "none"]
  /\ out = {}
  /\ tries = [d \in Deliveries |-> 0]
  /\ quota = [d \in Deliveries |-> 0]

\* Some deliveries are posted, and for others it is decided not to.
Post ==
  \E new \in SUBSET Deliveries, omitted \in SUBSET Deliveries :
    /\ \A d \in new \cup omitted : letter[d] = "none"
    /\ new \cap omitted = {}
    /\ letter' = [d \in Deliveries |-> IF d \in new THEN "pending" ELSE IF d \in omitted THEN "void" ELSE letter[d]]
    /\ quota' = [d \in Deliveries |-> IF d \in new THEN MaxAttempts ELSE quota[d]]
    /\ UNCHANGED <<out, tries>>

Begin(d) ==
  /\ letter[d] = "pending" /\ d \notin out /\ tries[d] < quota[d]
  /\ out' = out \cup {d}
  /\ tries' = [tries EXCEPT ![d] = @ + 1]
  /\ UNCHANGED <<letter, quota>>

Answer(d) ==
  /\ d \in out
  /\ out' = out \ {d}
  /\ \E outcome \in {"delivered", IF tries[d] = quota[d] THEN "failed" ELSE "pending"} :
       letter' = [letter EXCEPT ![d] = outcome]
  /\ UNCHANGED <<tries, quota>>

CallOff(d) ==
  /\ letter[d] = "pending" /\ d \notin out
  /\ letter' = [letter EXCEPT ![d] = "cancelled"]
  /\ UNCHANGED <<out, tries, quota>>

\* A failed delivery, and no other, is taken up again.
Again(d) ==
  /\ letter[d] = "failed" /\ d \notin out
  /\ letter' = [letter EXCEPT ![d] = "pending"]
  /\ quota' = [quota EXCEPT ![d] = @ + MaxAttempts]
  /\ UNCHANGED <<out, tries>>

\* Also those that are out.
Forget ==
  \E gone \in SUBSET Deliveries :
    /\ \A d \in gone : letter[d] # "none"
    /\ letter' = [d \in Deliveries |-> IF d \in gone THEN "void" ELSE letter[d]]
    /\ out' = out \ gone
    /\ tries' = [d \in Deliveries |-> IF d \in gone THEN 0 ELSE tries[d]]
    /\ quota' = [d \in Deliveries |-> IF d \in gone THEN 0 ELSE quota[d]]

\* Attempts that were out are not on record.
Crash ==
  /\ out' = {}
  /\ tries' = [d \in Deliveries |-> IF d \in out THEN tries[d] - 1 ELSE tries[d]]
  /\ UNCHANGED <<letter, quota>>

Next ==
  \/ Post \/ Forget \/ Crash
  \/ \E d \in Deliveries : Begin(d) \/ Answer(d) \/ CallOff(d) \/ Again(d)

Spec == Init /\ [][Next]_vars
===============================================================================
