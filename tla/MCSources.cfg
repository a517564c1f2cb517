CONSTANTS
  a1 = a1
  r1 = r1
  r2 = r2
  r3 = r3
  Accounts <- OneAccount
  NoAccount = noAccount
  Requests <- ThreeRequests
  NoRequest = noRequest
  MaxSources = 12
  MaxMishaps = 2
SPECIFICATION SourcesSpec
SYMMETRY MCSymmetry
INVARIANTS EnsureAddsOne DeletedLeavesNoSource
PROPERTIES EnsureKeepsScope CreationIsShared
