\* The start-up MarkDirty and two kernel events: the second one can find the
\* trigger channel full.  The safety properties are proved for every number of
\* events and both collectors in ControllerProofs.
SPECIFICATION FairSpec
CONSTANTS
  MaxEpoch = 3
  Sources = {"network"}
INVARIANTS
  RegistrationRaceClosed
  GaugeSettles
PROPERTIES
  StoppingIsFinal
  EveryEventReachesAPass
  NewestEpochIsVerified
  ShutdownCompletes
