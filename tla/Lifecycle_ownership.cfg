SPECIFICATION FairSpec
CONSTANT Modes = {"run", "supervise-containerboot"}
INVARIANT ReturnsQuiescent
INVARIANT ShutdownAfterController
 
PROPERTY SupervisorReturns
