SPECIFICATION Spec
CONSTANTS
  Runs = {r1, r2}
  Actions = {a}
  Attempts = {c1, c2}
  MaxDeliveryAttempts = 1
  ApprovalActions = {a}
  CooledActions = {a}
  MaxRetries = 0
  MaxCrashes = 0
  MaxEdits = 2
INVARIANTS
  NothingSentUnapproved
  OneRunPerCooldown
CHECK_DEADLOCK FALSE
