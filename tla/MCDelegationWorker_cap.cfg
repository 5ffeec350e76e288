\* The sibling cap is reached by the orphan itself (one of one, three of three).
CONSTANTS
  c1 = c1
  Parent = parent
  Child = {c1}
  RemoteChild = {}
  Outcomes = {"succeeded"}
  MaxChildren = 1
  MaxRunning = 1
  MaxParallelChildren = 1
  MaxDelegations = 1
  MaxAttempts = 2
  MaxGeneration = 1
  MaxRevision = 1
  LateNow = FALSE
  MaxLosses = 1
  MaxPublications = 1
  Cancellable = {}
SPECIFICATION WorkerSpec
PROPERTY OrphanReclaimed
CHECK_DEADLOCK FALSE
