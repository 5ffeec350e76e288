\* A parent and a remote child with everything that may happen to them.
CONSTANTS
  c1 = c1
  Parent = parent
  Child = {c1}
  RemoteChild = {c1}
  Outcomes = {"succeeded"}
  MaxChildren = 1
  MaxRunning = 2
  MaxParallelChildren = 1
  MaxDelegations = 1
  MaxAttempts = 2
  MaxGeneration = 1
  MaxRevision = 2
  LateNow = FALSE
  MaxLosses = 1
  MaxPublications = 2
  Cancellable = {parent}
SPECIFICATION WorkerSpec
PROPERTIES
  ImplementsLifecycle
  DispatchKept
\* Every run may end.
CHECK_DEADLOCK FALSE
