SPECIFICATION FairSpec
CONSTANTS
  s1 = s1
  NoServer = NoServer
  Servers <- MCServers
  Kinds <- MCSiteKinds
  MaxJobs = 2
  DefaultMax = 2
  AttemptCap = 3
  HoldLimit = 1
  StaleAfter = 1
  ScrubAfter = 1
  TzAhead = 0
  MaxAge = 2
PROPERTIES RunningEnds 
