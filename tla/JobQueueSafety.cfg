SPECIFICATION Spec
CONSTANTS
  s1 = s1
  NoServer = NoServer
  Servers <- MCServers
  Kinds <- MCQueueKinds
  MaxJobs = 2
  DefaultMax = 2
  AttemptCap = 3
  HoldLimit = 1
  StaleAfter = 1
  ScrubAfter = 1
  TzAhead = 0
  MaxAge = 2
INVARIANTS TypeOK HeldJobIsRunning DispatchBound PayloadKeptWhileActive
PROPERTIES NoResurrection ImplementsContract
