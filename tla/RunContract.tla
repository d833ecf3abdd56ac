------------------------------ MODULE RunContract ------------------------------
(***************************************************************************)
(* What the action runner promises about the requests of a run, said       *)
(* without leases, claims, guards and calls that overlap: one worker at a  *)
(* time has the run in hand, each request uses up one of those the run is  *)
(* allowed, and a run fails when none is left.  A crash gives back what it *)
(* cut off, a person who retries a failed run gives it a new allowance.    *)
(***************************************************************************)
EXTENDS Naturals

CONSTANTS Runs, MaxDeliveryAttempts

VARIABLES
  run,      \* "none", "open" or how the run ended
  hand,     \* "free", "held" by a worker, or its request is "out"
  sent,     \* requests that went out
  allowed   \* requests that may go out

vars == <<run, hand, sent, allowed>>

Init ==
  /\ run = [r \in Runs |-> "none"]
  /\ hand = [r \in Runs |-> "free"]
  /\ sent = [r \in Runs |-> 0]
  /\ allowed = [r \in Runs |-> 0]

\* Runs are planned and others called off, also those that are in hand.
Plan ==
  \E new \in SUBSET {r \in Runs : run[r] = "none"}, off \in SUBSET {r \in Runs : run[r] = "open"} :
    /\ run' = [r \in Runs |-> IF r \in new THEN "open" ELSE IF r \in off THEN "cancelled" ELSE run[r]]
    /\ allowed' = [r \in Runs |-> IF r \in new THEN MaxDeliveryAttempts ELSE allowed[r]]
    /\ UNCHANGED <<hand, sent>>

Take(r) ==
  /\ run[r] = "open" /\ hand[r] = "free"
  /\ hand' = [hand EXCEPT ![r] = "held"]
  /\ UNCHANGED <<run, sent, allowed>>

\* A run that was called off while it was held may still send its request.
Send(r) ==
  /\ hand[r] = "held" /\ sent[r] < allowed[r]
  /\ hand' = [hand EXCEPT ![r] = "out"]
  /\ sent' = [sent EXCEPT ![r] = @ + 1]
  /\ UNCHANGED <<run, allowed>>

\* What an open run becomes; a run that was called off stays that way.
Become(r, outcome) == run' = IF run[r] = "open" THEN [run EXCEPT ![r] = outcome] ELSE run

\* The worker lets go of the run without a request ...
Drop(r) ==
  /\ hand[r] = "held"
  /\ hand' = [hand EXCEPT ![r] = "free"]
  /\ Become(r, "cancelled")
  /\ UNCHANGED <<sent, allowed>>

\* ... or with the answer to it.
Answer(r) ==
  /\ hand[r] = "out"
  /\ hand' = [hand EXCEPT ![r] = "free"]
  /\ Become(r, "succeeded") \/ Become(r, IF sent[r] = allowed[r] THEN "failed" ELSE "open")
  /\ UNCHANGED <<sent, allowed>>

\* A failed run, and no other, is opened again.
Again(r) ==
  /\ run[r] = "failed" /\ hand[r] = "free"
  /\ run' = [run EXCEPT ![r] = "open"]
  /\ allowed' = [allowed EXCEPT ![r] = @ + MaxDeliveryAttempts]
  /\ UNCHANGED <<hand, sent>>

Crash ==
  /\ hand' = [r \in Runs |-> "free"]
  /\ allowed' = [r \in Runs |-> IF hand[r] = "out" THEN allowed[r] + 1 ELSE allowed[r]]
  /\ UNCHANGED <<run, sent>>

Next ==
  \/ Plan
  \/ \E r \in Runs : Take(r) \/ Send(r) \/ Drop(r) \/ Answer(r) \/ Again(r)
  \/ Crash

Spec == Init /\ [][Next]_vars
===============================================================================
