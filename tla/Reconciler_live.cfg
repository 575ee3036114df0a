\* A pure Exit Node with local egress: with no family active there is nothing
\* to advertise, so the last pass may find its preferences in place already.
SPECIFICATION FairSpec
CONSTANTS
  Subnets = {}
  NameServers = {"dns"}
  LocalEgress = TRUE
  AdvertiseExitNode = TRUE
  ProxyLinks <- MCOneProxy
  TailnetLinks <- MCRecreatedTailnet
  MaxDisturbances = 2
PROPERTIES
  EventuallyServing
