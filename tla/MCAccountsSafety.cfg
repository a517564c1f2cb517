CONSTANTS
  a1 = a1
  r1 = r1
  r2 = r2
  Accounts <- OneAccount
  NoAccount = noAccount
  Requests <- TwoRequests
  Supervisor = supervisor
  Operations <- AllOperations
  MaxSessions = 2
  MaxMishaps <- OneOfEach
  MaxInAll = 1
SPECIFICATION LifecycleSpec
SYMMETRY MCSymmetry
INVARIANTS OneClientPerAccount ConnectedHasAdapter StoppedStaysStopped DeletedLeavesNothing ConnectingIsPassing ExecutorsAdvance
