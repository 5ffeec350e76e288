\* Two executions of a child and a cancellation; the agent may ask once and may
\* take a repeated submission for a new one.  No artifacts, no failing calls.
CONSTANTS
  e1 = e1
  e2 = e2
  a1 = a1
  a2 = a2
  w1 = w1
  r1 = r1
  Exec = {e1, e2}
  Canceller = {w1}
  Key = {a1}
  Reaper = {r1}
  MaxTries = 1
  Asks = {"input_required"}
  Outcomes = {"completed", "failed"}
  Files = FALSE
  Deadline = FALSE
  Cancelled = TRUE
  MaxRetries = 1
  MaxTasks = 2
  MaxAnswers = 1
  MaxFailures = 0
  MaxLosses = 1
SPECIFICATION Spec
INVARIANTS
  OneSubmission
  AnswerDelivered
  CancelConfirmed
  TransientNeedsFault
PROPERTIES
  TaskKept
  CancelSettles
  ImplementsLifecycle
\* Every run may end.
CHECK_DEADLOCK FALSE
