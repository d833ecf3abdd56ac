SPECIFICATION WindowSpec
CONSTANTS
  HoursPerDay = 4
  DaysPerWeek = 3
  Clocks <- ForwardAndBack
  Starts = {1, 4}
  Lengths = {1, 3, 11}
  WeekdaySets = {{0}, {1, 2}}
  Untils = {9}
  LastHour = 12
  MaxWindowEdits = 1
INVARIANTS
  OccurrencesFound
PROPERTIES
  EndCutsOne
CHECK_DEADLOCK FALSE
