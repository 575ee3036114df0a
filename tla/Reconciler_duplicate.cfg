SPECIFICATION Spec
CONSTANTS
  Subnets = {"lan"}
  NameServers = {"dns"}
  LocalEgress = TRUE
  AdvertiseExitNode = FALSE
  ProxyLinks <- MCOneProxy
  TailnetLinks <- MCRenamedTailnet
  MaxDisturbances = 2
INVARIANTS
  OwnershipReadsUnambiguous
