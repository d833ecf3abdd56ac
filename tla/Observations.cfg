SPECIFICATION Spec
CONSTANTS
  Check = check
  Heartbeats = {beat}
  Retries = 2
  MaxThreshold = 2
  MaxResults = 4
INVARIANTS
  AllClearOwed
  OutageClock
  ConfirmedStreakCounts
PROPERTIES
  ConfirmedByStreak
CHECK_DEADLOCK FALSE
