SPECIFICATION Spec
CONSTANTS
  Addrs = {"a", "b"}
  Networks <- TwoAddrs
  Devs = {"eth"}
  DevType <- Types
  DevPrefixes <- Nets
  StaticExcludes <- GatewayPrefix
  Gateway <- GatewayPrefix
  ExcludeLocal = TRUE
  VirtualOnly = FALSE
  MaxTTL = 1
  Queries = {}
  CmdsFail = FALSE
  MonitorsFail = FALSE
  Drifts = {}
INVARIANT LocalsExcluded
CHECK_DEADLOCK FALSE
