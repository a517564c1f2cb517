CONSTANTS
  read = read
  write = write
  sourceWrite = sourceWrite
  NoRequest = NoRequest
  Requests <- MCRequests
  Reads <- MCReads
  SourceRequests <- MCSourceRequests
  MaxIssued = 3
  MaxMishaps = 2
SPECIFICATION TokensSpec
INVARIANTS StoredPairIsUsable RefusedOnlyIfOvertaken WritesAtMostOnce
PROPERTIES RefreshIsShared
CHECK_DEADLOCK FALSE
