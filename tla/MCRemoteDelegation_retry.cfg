\* One transient failure, the retries of the code, an agent that completes every
\* task; nobody dies, nobody cancels.
CONSTANTS
  e1 = e1
  e2 = e2
  a1 = a1
  a2 = a2
  w1 = w1
  r1 = r1
  Exec = {e1}
  Canceller = {w1}
  Key = {a1}
  Reaper = {r1}
  MaxTries = 1
  Asks = {"input_required"}
  Outcomes = {"completed"}
  Files = FALSE
  Deadline = FALSE
  Cancelled = FALSE
  MaxRetries = 5
  MaxTasks = 1
  MaxAnswers = 1
  MaxFailures = 1
  MaxLosses = 0
SPECIFICATION Spec
INVARIANTS
  FailedForCause
\* Every run may end.
CHECK_DEADLOCK FALSE
