CONSTANTS
  p1 = p1
  p2 = p2
  r1 = r1
  r2 = r2
  emp = emp
  boss = boss
  skip = skip
  NoOne = NoOne
  Pods <- MCPods
  Requests <- MCRequests
  Employees <- MCEmployees
  DefaultManager = boss
  Owner <- MCOwner
  Approver <- MCApprover
  Manager <- MCManager
SPECIFICATION Spec
INVARIANTS
  DecidedOnce
CHECK_DEADLOCK FALSE
