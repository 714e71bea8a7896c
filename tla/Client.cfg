SPECIFICATION FairSpec
CONSTANTS
  Callers = {c1}
  NoCaller = NoCaller
  MaxLives = 2
  Trusts = {"Trusted"}
  SignalBuffer = 1
  MaxLater = 1
  MaxReconnectTries = 2
  Commands = {"connect", "disconnect", "reconnect", "dump"}
  Watched = {"VPNConfig"}
  MaxActive = 1
INVARIANTS SettledStatusExact IgnoredOnlyForOthers
PROPERTIES CommandReturns CloseReturns
CHECK_DEADLOCK FALSE
