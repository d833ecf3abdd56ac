------------------------- MODULE MaintenanceWindowsMC -------------------------
(* Clocks that go forward or back by an hour, east and west of UTC, at each    *)
(* hour of a day, less those that do not exist (OverMidnight).                 *)
EXTENDS MaintenanceWindows

ForwardAndBack ==
  {change \in [at : 5 .. 8, before : {1}, after : {0, 2}] : ~OverMidnight(change)}
    \cup [at : 5 .. 8, before : {-2}, after : {-1, -3}]
===============================================================================
