SPECIFICATION Spec
CONSTANTS
  Monitors = {m1, m2, m3}
  Ticks = {t1, t2}
  Limits = {1, 2}
SYMMETRY Symmetry
INVARIANTS
  OneCheckPerMonitor
  NoIdleSlot
  ClosedQuietly
PROPERTIES
  ImplementsSlots
CHECK_DEADLOCK FALSE
