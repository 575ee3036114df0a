SPECIFICATION Spec
CONSTANTS
  Links = {"tun0", "tun1"}
  ProbeInterval = 1
  ProbeValidity = 2
  SuccessThreshold = 2
  FailureThreshold = 2
  MaxTime = 5
  MaxLog = 5
INVARIANTS
  SnapshotValid
  ConcludesFromHistory
  ActiveIsBacked
  InactiveIsReported
