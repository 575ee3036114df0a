SPECIFICATION Spec
CONSTANTS
  Domains <- MCDomains
  Answers <- MCAnswers
  Usable <- MCAddresses
  Accepted <- MCAccepted
  ResolvConfs <- MCResolvConfs
  InvalidLines = {"bad"}
  MaximumNameServers = 2
  MaximumResolved = 1
  LookupTimeout = 2
  RefreshInterval = 1
  MaximumStaleness = 2
  Reliable = {"ns2"}
  MaxPassTime = 1
  MaxOutages = 1
  Addresses <- MCAddresses
  IPv4Addresses = {"a4", "b4", "zero", "ns1", "ns2"}
  ValidAddresses <- MCAccepted
  Interfaces = {"eth0"}
  Protocols = {"tcp"}
  Ports = {443}
  MaxInterference = 1
  MaxFilterErrors = 1
  MaxFailures = 1
  MaxDisturbances = 2
INVARIANTS ResultIsFresh VerifiedMeansEnforced ServedMarksAreFresh
PROPERTIES EveryServerIsAsked ForeignTableSurvives ImplementsEnforcedPolicy EventuallyServed
