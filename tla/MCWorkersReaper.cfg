CONSTANTS
  w1 = w1
  w2 = w2
  noWorker = noWorker
  noRequest = noRequest
  Workers <- MCWorkers
  NoWorker <- noWorker
  Requests <- OneEvent
  NoRequest <- noRequest
  MaxJobs = 1
  MaxAttempts = 2
  HandlerErrors <- MCHandlerErrors
  StatementErrors <- MCStatementErrors
  MaxMishaps <- CrashesOnly
  RestartAfterLease = FALSE
SPECIFICATION FairSpec
PROPERTIES AbandonedReturns
