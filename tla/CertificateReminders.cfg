SPECIFICATION Spec
CONSTANTS
  Urls = {u1, u2}
  Expiries = {4, 7}
  Leads = {0, 2, 3}
  Reminders = {1, 2}
  LastDay = 6
  MaxEdits = 3
INVARIANTS
  StepToldOnce
PROPERTIES
  ReadInforms
CHECK_DEADLOCK FALSE
