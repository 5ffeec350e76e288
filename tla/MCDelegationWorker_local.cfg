\* A parent and a local child; the user may cancel the parent; one lease is lost.
CONSTANTS
  c1 = c1
  Parent = parent
  Child = {c1}
  RemoteChild = {}
  Outcomes = {"succeeded"}
  MaxChildren = 1
  MaxRunning = 2
  MaxParallelChildren = 1
  MaxDelegations = 1
  MaxAttempts = 2
  MaxGeneration = 1
  MaxRevision = 1
  LateNow = FALSE
  MaxLosses = 1
  MaxPublications = 1
  Cancellable = {parent}
SPECIFICATION WorkerSpec
PROPERTIES
  ParentResumed
  ParentEnds
  OrphanReclaimed
\* Every run may end.
CHECK_DEADLOCK FALSE
