\* A parent and a remote child, which may wait for ever for its user or its agent.
CONSTANTS
  c1 = c1
  Parent = parent
  Child = {c1}
  RemoteChild = {c1}
  Outcomes = {"succeeded"}
  MaxChildren = 1
  MaxRunning = 2
  MaxParallelChildren = 1
  MaxDelegations = 1
  MaxAttempts = 2
  MaxGeneration = 1
  MaxRevision = 1
  LateNow = FALSE
  MaxLosses = 1
  MaxPublications = 1
  Cancellable = {}
SPECIFICATION WorkerSpec
PROPERTIES
  IdleChildEnds
  QueuedStarts
\* Every run may end.
CHECK_DEADLOCK FALSE
