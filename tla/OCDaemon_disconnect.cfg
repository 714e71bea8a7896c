SPECIFICATION FairSpec
CONSTANTS
  MaxSessions = 1
  Hosts = {h1}
  NoAddr = NoAddr
  AllowedHosts = {}
  OCPids = {1}
  Profiles <- ProfileOff
  StartFails = {}
  DisableFlags = {FALSE}
  OCCrashes = FALSE
  ReadFails = FALSE
  ListenerFails = FALSE
PROPERTY DisconnectCompletes
CHECK_DEADLOCK FALSE
