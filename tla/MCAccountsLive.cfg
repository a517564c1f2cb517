CONSTANTS
  a1 = a1
  r1 = r1
  r2 = r2
  Accounts <- OneAccount
  NoAccount = noAccount
  Requests <- TwoRequests
  Supervisor = supervisor
  Operations <- NoPassword
  MaxSessions = 1
  MaxMishaps <- OnlyNetwork
  MaxInAll = 2
SPECIFICATION LifecycleFairSpec
PROPERTIES RequestsAnswered AutoReconnect
