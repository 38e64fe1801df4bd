------------------------- MODULE ApprovalManagement -------------------------
(***************************************************************************)
(* src/api/approval_management.py: managers approve and deny rows of       *)
(* time_off_request.  A handler reads the row, checks it, and commits; it  *)
(* takes no lock and the model has no version column, so handlers of       *)
(* different application processes ("pods") interleave between the two.    *)
(* Inside one pod a handler has no await and runs as a whole.              *)
(* The Faulty... operators are mistakes the properties must notice.        *)
(***************************************************************************)
EXTENDS Naturals, Processes

CONSTANTS Requests,        \* rows of time_off_request, all submitted
          Employees,       \* employee ids
          NoOne,           \* NULL in a reference to an employee, no employee header
          DefaultManager,  \* the employee a caller without an id acts as
          Owner,           \* Owner[r]: employee_id
          Approver,        \* Approver[r]: current_approver_id, or NoOne
          Manager          \* Manager[e]: manager_id, or NoOne

ASSUME ApprovalAssumption ==
    /\ NoOne \notin Employees
    /\ DefaultManager \in Employees
    /\ Owner \in [Requests -> Employees]
    /\ Approver \in [Requests -> Employees \cup {NoOne}]
    /\ Manager \in [Employees -> Employees \cup {NoOne}]

VARIABLES
    row,      \* row[r]: the committed columns of request r
    pod,      \* pod[p]: the handler that runs in p
    answers,  \* answers[r]: the audit entries, which exist only in the responses
    lost,     \* history: requests decided by a handler whose pod died before it answered
    raced     \* history: requests two handlers had loaded at the same time

vars == <<row, pod, answers, lost, raced>>

Status == {"pending_approval", "approved", "rejected"}
Row == [status : Status, approved_at : BOOLEAN, rejected_at : BOOLEAN]
Op == {"approve", "deny"}
Handler == [op : Op, request : Requests, by : Employees, at : {"loaded", "committed"}]
Idle == [at |-> "idle"]
Entry == [by : Employees, previous : Status, new : Status]

TypeOK == /\ row \in [Requests -> Row]
          /\ pod \in [Pods -> Handler \cup {Idle}]
          /\ answers \in [Requests -> SUBSET Entry]
          /\ lost \subseteq Requests
          /\ raced \subseteq Requests

Pending == [status |-> "pending_approval", approved_at |-> FALSE, rejected_at |-> FALSE]

Init == /\ row = [r \in Requests |-> Pending]
        /\ pod = [p \in Pods |-> Idle]
        /\ answers = [r \in Requests |-> {}]
        /\ lost = {}
        /\ raced = {}

-----------------------------------------------------------------------------
\* current_user.employee_id or 2
ActsAs(caller) == IF caller = NoOne THEN DefaultManager ELSE caller

\* validate_approval_authority(): the assigned approver, the direct manager or
\* the manager's manager.
HasAuthority(m, r) ==
    \/ Approver[r] = m
    \/ Manager[Owner[r]] = m
    \/ Manager[Owner[r]] # NoOne /\ Manager[Manager[Owner[r]]] = m

FaultyDecidable(r) == TRUE   \* no check of the status

\* "Validate request is pending": what the handler read decides.
Decidable(r) == row[r].status = "pending_approval"

LoadedBy(p, r) == pod[p].at = "loaded" /\ pod[p].request = r

\* What both handlers do first: load the row and check it.  The override for
\* HR and ADMIN never happens: UserRole has no member HR, so evaluating the list
\* of the two raises AttributeError and the handler ends without a change.
Load(p, op, r, caller) ==
    /\ pod[p] = Idle
    /\ Decidable(r)
    /\ HasAuthority(ActsAs(caller), r)
    /\ pod' = [pod EXCEPT ![p] =
                  [op |-> op, request |-> r, by |-> ActsAs(caller), at |-> "loaded"]]
    /\ raced' = IF \E q \in Pods : LoadedBy(q, r) THEN raced \cup {r} ELSE raced
    /\ UNCHANGED <<row, answers, lost>>

\* approve_request() up to its commit.  get_team_conflicts() always reports a
\* conflict, so the approval goes on only when conflicts were acknowledged.
Approve(p, r, caller, acknowledged) ==
    /\ acknowledged
    /\ Load(p, "approve", r, caller)

\* deny_request() up to its commit.
Deny(p, r, caller) == Load(p, "deny", r, caller)

FaultyUpdated(columns, op) ==   \* an approval forgets a denial; the name of the call as status
    IF op = "approve"
    THEN [columns EXCEPT !.status = "approved", !.approved_at = TRUE, !.rejected_at = FALSE]
    ELSE [columns EXCEPT !.status = "denied", !.rejected_at = TRUE]

\* The UPDATE of session.commit() writes the columns the handler assigned, by
\* primary key alone.
Updated(columns, op) ==
    IF op = "approve" THEN [columns EXCEPT !.status = "approved", !.approved_at = TRUE]
                      ELSE [columns EXCEPT !.status = "rejected", !.rejected_at = TRUE]

Commit(p) ==
    /\ pod[p].at = "loaded"
    /\ row' = [row EXCEPT ![pod[p].request] = Updated(@, pod[p].op)]
    /\ pod' = [pod EXCEPT ![p].at = "committed"]
    /\ UNCHANGED <<answers, lost, raced>>

FaultyAuditEntry(h) ==   \* the new status read before the row was written
    [by |-> h.by, previous |-> "pending_approval", new |-> "pending_approval"]

\* create_audit_trail_entry(): what the handler read and what it wrote.
AuditEntry(h) == [by |-> h.by, previous |-> "pending_approval",
                  new |-> IF h.op = "approve" THEN "approved" ELSE "rejected"]

\* After the commit: the audit entry, the notifications and the response.
Answer(p) ==
    /\ pod[p].at = "committed"
    /\ answers' = [answers EXCEPT ![pod[p].request] = @ \cup {AuditEntry(pod[p])}]
    /\ pod' = [pod EXCEPT ![p] = Idle]
    /\ UNCHANGED <<row, lost, raced>>

\* A pod dies and is restarted; an uncommitted transaction is rolled back.
Crash(p) ==
    /\ pod[p] # Idle
    /\ lost' = IF pod[p].at = "committed" THEN lost \cup {pod[p].request} ELSE lost
    /\ pod' = [pod EXCEPT ![p] = Idle]
    /\ UNCHANGED <<row, answers, raced>>

Next ==
    \/ \E p \in Pods, r \in Requests, caller \in Employees \cup {NoOne},
          acknowledged \in BOOLEAN : Approve(p, r, caller, acknowledged)
    \/ \E p \in Pods, r \in Requests, caller \in Employees \cup {NoOne} :
          Deny(p, r, caller)
    \/ \E p \in Pods : Commit(p)
    \/ \E p \in Pods : Answer(p)
    \/ \E p \in Pods : Crash(p)

Spec == Init /\ [][Next]_vars

-----------------------------------------------------------------------------
(* Properties. *)

\* The row tells every decision that was ever answered: whoever was told
\* "approved" or "denied" finds its time stamp in the row, whichever handlers
\* of approve_request() and deny_request() interleaved.
StampsCoverAnswers ==
    \A r \in Requests : \A e \in answers[r] :
        IF e.new = "approved" THEN row[r].approved_at ELSE row[r].rejected_at

\* A decided row has an audit entry of the decision it shows, unless a pod is
\* still to answer it or died between the commit and the answer.
DecidedIsAudited ==
    \A r \in Requests : row[r].status # "pending_approval" =>
        \/ \E e \in answers[r] : e.new = row[r].status
        \/ \E p \in Pods : /\ pod[p].at = "committed" /\ pod[p].request = r
                           /\ AuditEntry(pod[p]).new = row[r].status
        \/ r \in lost

\* "Validate request is pending": a request is decided once, so no one is told
\* "approved" of a request another one was told is denied.
DecidedTwice(r) == row[r].approved_at /\ row[r].rejected_at
DecidedOnce == \A r \in Requests : ~DecidedTwice(r)

\* What the check of approve_request() and deny_request() does give: only two
\* handlers that had the pending request loaded at the same time decide it twice.
TwiceOnlyIfRaced == \A r \in Requests : DecidedTwice(r) => r \in raced
=============================================================================
