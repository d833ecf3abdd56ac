SPECIFICATION ReliableSpec
CONSTANTS
  Monitors = {m1, m2}
  Ticks = {t1, t2}
  Limits = {1, 2}
PROPERTIES
  DueIsChecked
  DrainEnds
CHECK_DEADLOCK FALSE
