\* The constants of MCAgentRuns_remote.cfg, for the one claim that fails.
CONSTANTS
  c1 = c1
  c2 = c2
  Parent = parent
  Child = {c1}
  RemoteChild = {c1}
  Outcomes = {"succeeded"}
  MaxChildren = 1
  MaxRunning = 2
  MaxParallelChildren = 1
  MaxDelegations = 1
  MaxAttempts = 2
  MaxGeneration = 2
  MaxRevision = 2
  LateNow = FALSE
SPECIFICATION Spec
INVARIANT RemoteTaskIsCancelled
CHECK_DEADLOCK FALSE
