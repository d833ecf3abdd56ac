------------------------------ MODULE CheckSlots ------------------------------
(***************************************************************************)
(* What the scheduler promises about the number of checks that run at the  *)
(* same time, said without its counters: the checks that hold a slot, the  *)
(* line of those that wait, and the limit given with the last tick.        *)
(***************************************************************************)
EXTENDS Integers, Sequences, FiniteSets

CONSTANTS Monitors, Limits

VARIABLES
  holding,   \* monitors whose check holds a slot
  line,      \* monitors whose check waits, first come first served
  limit      \* slots there are

vars == <<holding, line, limit>>

Init ==
  /\ holding = {}
  /\ line = <<>>
  /\ limit = 1

\* The first n of the line.
First(n, q) == {q[i] : i \in 1 .. n}

\* The front of line q joins those who hold a slot: never beyond the limit, and
\* never fewer than the limit allows.
Serve(held, q) ==
  \E n \in 0 .. Len(q) :
    /\ holding' = held \cup First(n, q)
    /\ line' = SubSeq(q, n + 1, Len(q))
    /\ n > 0 => Cardinality(holding') <= limit'
    /\ n < Len(q) => Cardinality(holding') >= limit'

\* Sequences of n different monitors without a check.
Batches(n) ==
  {q \in [1 .. n -> Monitors \ (holding \cup First(Len(line), line))] :
     \A i, j \in 1 .. n : i # j => q[i] # q[j]}

\* A tick sets the limit and brings the checks that are due.
Join ==
  \E newLimit \in Limits, n \in 0 .. Cardinality(Monitors) :
    \E batch \in Batches(n) :
      /\ limit' = newLimit
      /\ Serve(holding, line \o batch)

\* A check ends, whatever its outcome.
Leave ==
  \E m \in holding :
    /\ limit' = limit
    /\ Serve(holding \ {m}, line)

Next == Join \/ Leave

Spec == Init /\ [][Next]_vars
==============================================================================
