--------------------------- MODULE CheckSchedulerMC ---------------------------
(* Symmetry for the safety run of CheckScheduler: the actions treat monitors   *)
(* and ticks alike.                                                            *)
EXTENDS CheckScheduler, TLC

Symmetry == Permutations(Monitors) \cup Permutations(Ticks)
==============================================================================
