SPECIFICATION Spec
CONSTANTS
  MaxSessions = 2
  Hosts = {h1}
  NoAddr = NoAddr
  AllowedHosts = {}
  OCPids = {1, 2}
  Profiles <- ProfileOn
  StartFails = {"trafpol"}
  DisableFlags = {FALSE}
  OCCrashes = TRUE
  ReadFails = FALSE
  ListenerFails = TRUE
INVARIANTS NoProcessLost ConnectAccepted NotRunningMeansGone ReportedPIDIsCurrent
  StoppedMeansGone SessionConfigured
PROPERTY ImplementsSession
CHECK_DEADLOCK FALSE
