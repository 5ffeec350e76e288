\* A child whose completed task carries an artifact; the agent may ask once, and
\* there is one transient failure, one death, a deadline and a storage that may
\* refuse.
CONSTANTS
  e1 = e1
  e2 = e2
  a1 = a1
  a2 = a2
  w1 = w1
  r1 = r1
  Exec = {e1}
  Canceller = {w1}
  Key = {a1, a2}
  Reaper = {r1}
  MaxTries = 1
  Asks = {"auth_required"}
  Outcomes = {"completed"}
  Files = TRUE
  Deadline = TRUE
  Cancelled = FALSE
  MaxRetries = 1
  MaxTasks = 1
  MaxAnswers = 1
  MaxFailures = 1
  MaxLosses = 1
SPECIFICATION Spec
INVARIANTS
  TypeOK
  SucceededIsDone
  LiveContent
  ContentOwned
PROPERTIES
  ChildEnds
  ContentReaped
\* Every run may end.
CHECK_DEADLOCK FALSE
