SPECIFICATION FairSpec
CONSTANTS
  Destinations = {"default"}
  EventCapacity = 1
  MaxMutations = 3
  MaxForeign = 2
  MaxLost = 1
CHECK_DEADLOCK FALSE
INVARIANTS
  NothingStale
  OwnWritesAbsorbed
  ForeignChangesSurface
PROPERTIES
  WriteReturns
  SubscriptionCloses
