SPECIFICATION LaterSpec
CONSTANTS
  Observers = {check, beat}
  Operators = {admin, editor}
  Observed <- UpAndDown
  Bodies <- EveryBody
  FailureThreshold = 1
  RecoveryThreshold = 1
  Delay = 1
  MaxObservations = 6
  MaxIncidents = 2
  MaxEdits = 2
  MaxRestarts = 1
INVARIANTS
  OneIncidentPerOutage
  ResolvedOnce
  DraftsAreSilent
PROPERTIES
  EditsTakeNothingBack
  RecoveryIsApplied
  PublicIsAnnounced
CHECK_DEADLOCK FALSE
