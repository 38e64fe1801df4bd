CONSTANTS
  e1 = e1
  e2 = e2
  e3 = e3
  Emails <- MCEmails
  Priority <- MCPriority
  MaxRetries <- MCMaxRetries
  MaxConcurrent = 2
  BatchSize = 2
  MaxStarts = 1
CHECK_DEADLOCK FALSE
SPECIFICATION Spec
INVARIANTS
  TypeOK
  AcceptedBounded
  NoneForgotten
PROPERTIES
  FirstTriesInOrder
