\* Two local children and a cap of one running sibling: budgets, joins, the
\* sibling cap and the barrier over two checkpoint generations.
CONSTANTS
  c1 = c1
  c2 = c2
  Parent = parent
  Child = {c1, c2}
  RemoteChild = {}
  Outcomes = {"succeeded"}
  MaxChildren = 2
  MaxRunning = 1
  MaxParallelChildren = 2
  MaxDelegations = 2
  MaxAttempts = 2
  MaxGeneration = 2
  MaxRevision = 1
  LateNow = FALSE
SPECIFICATION Spec
SYMMETRY ChildSymmetry
INVARIANTS
  BudgetExact
  RunningCap
  ParentWakeup
PROPERTY ImplementsBarrier
\* Every run may end.
CHECK_DEADLOCK FALSE
