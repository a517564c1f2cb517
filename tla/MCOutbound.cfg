CONSTANTS
  w1 = w1
  w2 = w2
  m1 = m1
  m2 = m2
  noWorker = noWorker
  noRequest = noRequest
  Workers <- MCWorkers
  NoWorker <- noWorker
  Requests <- MCRequests
  NoRequest <- noRequest
  MaxJobs = 2
  MaxAttempts = 2
  HandlerErrors <- MCHandlerErrors
  StatementErrors <- MCStatementErrors
  ResolveErrors <- MCResolveErrors
  SendErrors <- MCSendErrors
  MaxSends = 2
  MaxMishaps <- EverythingOnce
  RestartAfterLease = FALSE
SPECIFICATION OutSpec
INVARIANTS SentOnceUnlessLeaseLost NoAutomaticResend CompletedWasDelivered UnresolvedIsOnRecord
PROPERTIES UnknownNeedsConfirmation ImplementsPool SendsInOrder
CONSTRAINT MCMishapsFit
SYMMETRY MCSymmetry
