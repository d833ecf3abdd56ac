SPECIFICATION FairSpec
CONSTANTS
  hook = hook
  e1 = e1
  e2 = e2
  Subscribers <- Hook
  Webhooks = {hook}
  Events <- Happenings
  Follows <- BothEvents
  Senders = {w1, w2}
  MaxAttempts = 2
  BatchSize = 2
  DisableAfter = 2
  MaxPending = 1
  MaxCalls = 2
  MaxCrashes = 1
INVARIANTS
  AttemptsOnRecord
PROPERTIES
  OnlyAgreed
  ImplementsOutbox
  PauseEarned
  EveryDeliveryEnds
CHECK_DEADLOCK FALSE
