SPECIFICATION Spec
CONSTANTS
  s1 = s1
  NoServer = NoServer
  Servers <- MCServers
  Kinds <- MCBackupKinds
  MaxJobs = 1
  DefaultMax = 2
  AttemptCap = 3
  HoldLimit = 1
  StaleAfter = 2
  ScrubAfter = 3
  TzAhead = 0
  MaxAge = 4
PROPERTIES DeferredOnlyForAnother
