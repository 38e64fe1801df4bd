------------------------------ MODULE MCRecords ------------------------------
(***************************************************************************)
(* Records for TLC, each component on a small instance of its own.         *)
(***************************************************************************)
EXTENDS Records, TLC

\* ApprovalManagement: an employee with two requests, one assigned to an
\* approver, and two managers above.
MCEmployees == {"emp", "boss", "skip"}
MCOwner == [r \in Requests |-> "emp"]
MCApprover == [r1 |-> "skip", r2 |-> "nobody"]
MCManager == [emp |-> "boss", boss |-> "skip", skip |-> "nobody"]
\* Envelope: two recipients in two routing orders.
MCOrder == [r \in Recipients |-> IF r = "a" THEN 1 ELSE 2]
\* Policies: lists in order and out of it, with a gap, an overlap, an open end.
MCTier(min, max) == [min |-> min, max |-> max]
MCTierLists == {<<MCTier(0, 2), MCTier(2, 0)>>, <<MCTier(0, 3), MCTier(2, 4)>>,
                <<MCTier(2, 0), MCTier(0, 2)>>, <<MCTier(0, 0), MCTier(1, 2)>>,
                <<MCTier(0, 1), MCTier(3, 5), MCTier(2, 3)>>}
\* ImportExecution: good rows only, none, and bad ones at the end and between.
MCFiles == {<<TRUE>>, <<FALSE>>, <<TRUE, TRUE, FALSE>>, <<TRUE, FALSE, TRUE>>}

MCSymmetry == {p @@ i : p \in Permutations(Pods), i \in Permutations(Ids)}
=============================================================================
