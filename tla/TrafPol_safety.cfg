SPECIFICATION Spec
CONSTANTS
  Names = {n1}
  IPs = {i1, i2}
  Answers = {{i1}, {i2}}
  ResolveTries = 1
  ResolveTTL = 2
  NamesPerWorker = 1
  AllowedAddrs = {}
  ServerAddrs = {i2}
  Devs = {lo, tun}
  Lo = lo
  CmdsFail = {"hosts", "rules"}
  MonitorsFail = TRUE
INVARIANTS FilterExact PortalExact ResolveNotLost
  StoppedIsQuiet
CHECK_DEADLOCK FALSE
