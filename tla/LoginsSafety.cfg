SPECIFICATION Spec
CONSTANTS
  r1 = r1
  r2 = r2
  q1 = q1
  Reqs <- MCReqs
  Settings <- MCSettings
  FailLimit = 1
  FailWindow = 2
  Memory = 4
  MaxSessions = 1
  TTLs <- MCTTLs
  NCodes = 1
  MaxTime = 2
  MaxRows = 2
  MaxSecret = 1
  MaxBatch = 1
SYMMETRY MCSymmetry
INVARIANTS RecoveryCodeOnce  SessionLimit NewestSurvive FailureBound
