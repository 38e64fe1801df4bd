CONSTANTS
  e1 = e1
  e2 = e2
  e3 = e3
  Emails <- MCTwoEmails
  Priority <- MCTwoPriority
  MaxRetries <- MCTwoMaxRetries
  MaxConcurrent = 2
  BatchSize = 2
  MaxStarts = 2
CHECK_DEADLOCK FALSE
SPECIFICATION Spec
INVARIANTS
  RunningHasWorker
