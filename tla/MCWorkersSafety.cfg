CONSTANTS
  w1 = w1
  w2 = w2
  noWorker = noWorker
  noRequest = noRequest
  Workers <- MCWorkers
  NoWorker <- noWorker
  Requests <- OneConversation
  NoRequest <- noRequest
  MaxJobs = 2
  MaxAttempts = 2
  HandlerErrors <- MCHandlerErrors
  StatementErrors <- MCStatementErrors
  MaxMishaps <- OneOfEach
  RestartAfterLease = FALSE
SPECIFICATION PoolSpec
INVARIANTS LeaseNamesAttempt OneHandlerPerLease UnknownIsParked
PROPERTIES ImplementsQueue
SYMMETRY MCSymmetry
