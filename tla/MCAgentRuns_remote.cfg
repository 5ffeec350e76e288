\* One remote child that waits, is deferred, is cancelled at its agent and is
\* claimed again; transactions may carry an old `now`; the goal is revised.
CONSTANTS
  c1 = c1
  c2 = c2
  Parent = parent
  Child = {c1}
  RemoteChild = {c1}
  Outcomes = {"succeeded"}
  MaxChildren = 1
  MaxRunning = 2
  MaxParallelChildren = 1
  MaxDelegations = 1
  MaxAttempts = 2
  MaxGeneration = 2
  MaxRevision = 2
  LateNow = TRUE
SPECIFICATION Spec
INVARIANTS
  TypeOK
  LeaseDiscipline
  ChildSettlement
  GoalBoundary
  CancelledNeverSucceeds
PROPERTIES
  LeaseNotStolen
  TerminalIsFinal
  ImplementsLifecycle
\* Every run may end.
CHECK_DEADLOCK FALSE
