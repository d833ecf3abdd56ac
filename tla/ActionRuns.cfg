SPECIFICATION FairSpec
CONSTANTS
  Runs = {r1, r2}
  Actions = {a}
  Attempts = {c1, c2}
  MaxDeliveryAttempts = 2
  ApprovalActions = {a}
  CooledActions = {}
  MaxRetries = 1
  MaxCrashes = 1
  MaxEdits = 0
INVARIANTS
  OneAttemptPerRun
  RequestsAccounted
  NoticesTruthful
PROPERTIES
  ImplementsRuns
  EveryRunEnds
CHECK_DEADLOCK FALSE
