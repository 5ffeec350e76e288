\* One job, one worker, one publisher, a plan of two steps: a call that reads and
\* one that writes, then one more.  Another client of the root run reserves,
\* settles or charges beside it.
CONSTANTS
  c1 = c1
  c2 = c2
  c3 = c3
  w1 = w1
  p1 = p1
  t1 = t1
  s1 = s1
  Worker = {w1}
  Publisher = {p1}
  MaxDeliver = 2
  MaxFaults = 1
  Token = {c1, c2, c3, t1}
  Settler = {s1}
  Limit = 3
  Call = {c1, c2, c3}
  Exclusive = {c2}
  Steps = 2
  StepOf <- MCStepOf
  MaxParallel = 2
SPECIFICATION Spec
INVARIANTS
  TypeOK
  CallOnce
  ExclusiveAlone
  RunsWithinBudget
  PlanKept
  BudgetExact
PROPERTIES
  Promise
  CallsSettle
\* Every job may end.
CHECK_DEADLOCK FALSE
