SPECIFICATION Spec
CONSTANTS
  Addrs = {"a", "b"}
  Networks <- TwoAddrs
  Devs = {"br", "eth"}
  DevType <- Types
  DevPrefixes <- EthBr
  StaticExcludes <- GatewayPrefix
  Gateway <- GatewayPrefix
  ExcludeLocal = TRUE
  VirtualOnly = TRUE
  MaxTTL = 1
  Queries = {"q1"}
  CmdsFail = TRUE
  MonitorsFail = TRUE
  Drifts = {}
INVARIANTS StaticDisjoint LocalsCurrent KernelComplete NothingLeft
PROPERTY TTLRespected
CHECK_DEADLOCK FALSE
