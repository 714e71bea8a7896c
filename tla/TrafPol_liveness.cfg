SPECIFICATION FairSpec
CONSTANTS
  Names = {n1}
  IPs = {i1, i2}
  Answers = {{i1}}
  ResolveTries = 1
  ResolveTTL = 1
  NamesPerWorker = 1
  AllowedAddrs = {}
  ServerAddrs = {}
  Devs = {lo}
  Lo = lo
  CmdsFail = {}
  MonitorsFail = FALSE
PROPERTIES StopReturns DNSUpdateHandled PortalReported
CHECK_DEADLOCK FALSE
