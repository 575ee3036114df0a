SPECIFICATION Spec
CONSTANTS
  InitialDelay = 1
  MaximumDelay = 5
  MaxChanges = 3
  MaxFaults = 4
INVARIANT UnmarkedChangeInFlight
PROPERTIES EveryChangeIsMarked WatchEndsWithContext
CHECK_DEADLOCK FALSE
