SPECIFICATION LifeSpec
CONSTANTS
  Hosts = {h1, h2}
  NoAddr = NoAddr
  AllowedHosts = {h2}
  OCPids = {1, 2}
  Profiles <- MCProfiles
  StartFails = {"trafpol", "tnd"}
  MaxLives = 3
INVARIANTS PolicedAddrsExact DisconnectedIsClean ReportedConfigIsActive
 PolicingJustified PolicingStatusTruthful CleanShutdown
 RestartIsClean LeftoverInterrupted ConfigOfThisLife
CHECK_DEADLOCK FALSE
