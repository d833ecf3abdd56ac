SPECIFICATION FairSpec
CONSTANTS
  MaxHappenings = 2
  MaxSent = 2
INVARIANTS
  ChangeRefetched
  AnonymousIsCut
PROPERTIES
  ExpiredStreamEnds
  PageSettles
  SignedOutLeaves
CHECK_DEADLOCK FALSE
