SPECIFICATION FairSpec
CONSTANTS
  MaxSessions = 1
  Hosts = {}
  NoAddr = NoAddr
  AllowedHosts = {}
  OCPids = {1}
  Profiles <- ProfileOn
  StartFails = {"trafpol"}
  DisableFlags = {FALSE}
  OCCrashes = FALSE
  ReadFails = FALSE
  ListenerFails = FALSE
PROPERTY MainLoopTerminates
CHECK_DEADLOCK FALSE
