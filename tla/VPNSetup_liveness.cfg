SPECIFICATION FairSpec
CONSTANTS
  Addrs = {"a"}
  Networks <- OneAddr
  Devs = {"eth"}
  DevType <- Types
  DevPrefixes <- OneSingle
  StaticExcludes <- NoPrefix
  Gateway <- NoPrefix
  ExcludeLocal = TRUE
  VirtualOnly = FALSE
  MaxTTL = 0
  Queries = {"q1"}
  CmdsFail = FALSE
  MonitorsFail = FALSE
  Drifts = {"servers", "domains"}
PROPERTIES TeardownReturns QueryAnswered DNSRepaired
CHECK_DEADLOCK FALSE
