------------------------ MODULE MCApprovalManagement ------------------------
(* ApprovalManagement for TLC: an employee with two requests, one of them    *)
(* assigned to an approver, and the managers above.                          *)
EXTENDS ApprovalManagement, TLC

CONSTANTS p1, p2, r1, r2, emp, boss, skip

MCPods == {p1, p2}
MCRequests == {r1, r2}
MCEmployees == {emp, boss, skip}
MCOwner == [r \in Requests |-> emp]
MCApprover == (r1 :> skip) @@ (r2 :> NoOne)
MCManager == (emp :> boss) @@ (boss :> skip) @@ (skip :> NoOne)
=============================================================================
