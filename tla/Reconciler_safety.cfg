SPECIFICATION Spec
CONSTANTS
  Subnets = {"lan"}
  NameServers = {"dns"}
  LocalEgress = TRUE
  AdvertiseExitNode = TRUE
  ProxyLinks <- MCProxyLinks
  TailnetLinks <- MCRecreatedTailnet
  MaxDisturbances = 3
INVARIANTS
  TypeOK
  NoFallThrough
  MarkedTrafficIsSelected
  FailClosedEstablished
  ConvergedMeansServing
  OpenGateHasSelectors
PROPERTIES
  PublishOnlyBacked
  WithdrawBeforeLastRoute
  DeactivateBeforeActivate
  GateOpensOverConvergedRouting
