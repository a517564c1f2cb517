CONSTANTS
  a1 = a1
  r1 = r1
  r2 = r2
  Accounts <- OneAccount
  NoAccount = noAccount
  Requests <- OneRequest
  Supervisor = supervisor
  Operations <- Reauthorize
  MaxSessions = 2
  MaxMishaps <- OneRevoked
  MaxInAll = 2
SPECIFICATION LifecycleSpec
PROPERTIES ConnectsStoredSession
