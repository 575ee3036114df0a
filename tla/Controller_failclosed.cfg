SPECIFICATION Spec
CONSTANTS
  MaxEpoch = 2
  Sources = {"network"}
INVARIANTS
  NotReadyWhileFailingClosed
