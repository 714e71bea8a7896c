SPECIFICATION FairSpec
CONSTANTS
  MaxSessions = 1
  Hosts = {}
  NoAddr = NoAddr
  AllowedHosts = {}
  OCPids = {1}
  Profiles <- ProfileOn
  StartFails = {"trafpol"}
  DisableFlags = {FALSE}
  OCCrashes = TRUE
  ReadFails = TRUE
  ListenerFails = TRUE
PROPERTIES StopTerminates ExitCleanedUp DisconnectEnds
CHECK_DEADLOCK FALSE
