CONSTANTS
  w1 = w1
  w2 = w2
  noWorker = noWorker
  noRequest = noRequest
  Workers <- MCWorkers
  NoWorker <- noWorker
  Requests <- MCRequests
  NoRequest <- noRequest
  MaxJobs = 3
  MaxAttempts = 2
SPECIFICATION QueueSpec
INVARIANTS AttemptBudget PartitionOrder DedupeSound RunnableHasPayload
SYMMETRY MCSymmetry
