--------------------------- MODULE TimeOffApproval --------------------------
(***************************************************************************)
(* src/api/time_off_approval.py: the approval and the escalation of a      *)
(* request kept in the memory of one process (every process has its own    *)
(* copy).  Handlers do not yield, but a handler may fail half-way when a   *)
(* query fails.  The reporting line is another component's and changes.    *)
(* UserRole.HR does not exist, so the override of an unauthorized caller   *)
(* raises and decides nothing.                                             *)
(* unlogged is history.                                                    *)
(***************************************************************************)
EXTENDS Naturals, Sequences

CONSTANTS Staff,     \* employees who may act; the requester is not one of them
          MaxEntries   \* bound on the audit trail

ASSUME TimeOffAssumption == 2 \in Staff /\ MaxEntries \in Nat

VARIABLES
    request,    \* the entry of _mock_requests
    line,       \* line.manager, line.skip: who is above the requester, 0 if nobody
    auditLog,   \* _audit_log
    unlogged    \* history: positions after which an escalation left no entry

workflowVars == <<request, line, auditLog, unlogged>>

HR == 999
RequestStatus == {"pending_approval", "pending_info", "escalated", "approved", "rejected"}
Levels == {"first", "second", "hr", "executive"}
Triggers == {"balance_issue", "other"}

WorkflowTypeOK ==
    /\ request \in [status : RequestStatus, approver : Staff \cup {HR}, level : 1..3]
    /\ line \in [manager : Staff \cup {0}, skip : Staff \cup {0}]
    /\ auditLog \in Seq([from : RequestStatus, to : RequestStatus])
    /\ unlogged \subseteq 0..MaxEntries

WorkflowInit == /\ request = [status |-> "pending_approval", approver |-> 2, level |-> 1]
                /\ line \in [manager : Staff \cup {0}, skip : Staff \cup {0}]
                /\ auditLog = <<>>
                /\ unlogged = {}

-----------------------------------------------------------------------------
\* validate_approver_authorization()
Authorized(who) == who = request.approver \/ (who # 0 /\ who = line.manager)

Outcome == [approve |-> "approved", deny |-> "rejected", request_info |-> "pending_info"]

FaultyAuditLine(from, to) == [from |-> to, to |-> to]   \* reads the status after the update

\* create_audit_entry()
AuditLine(from, to) == [from |-> from, to |-> to]

\* process_approval(); get_next_approver() is always None.
Decide(who, decision) ==
    /\ Len(auditLog) < MaxEntries
    /\ request.status \in {"pending_approval", "escalated"}
    /\ Authorized(who)
    /\ request' = [request EXCEPT !.status = Outcome[decision]]
    /\ auditLog' = Append(auditLog, AuditLine(request.status, Outcome[decision]))
    /\ UNCHANGED <<line, unlogged>>

\* determine_escalation_level()
Determined(level, trigger) ==
    CASE level = 1 /\ trigger = "balance_issue" -> "hr"
      [] level = 1 /\ trigger # "balance_issue" -> "first"
      [] level = 2 -> "second"
      [] OTHER     -> "executive"

\* get_escalation_target(): nobody for second and executive.  (hr asked for at
\* level 3, or first at level 3, is granted: a request may go down.)
Targets(level) ==
    CASE level = "first" /\ line.manager # 0 /\ line.skip # 0 ->
             {[approver |-> line.skip, level |-> 2]}
      [] level = "hr" -> {[approver |-> HR, level |-> 3]}
      [] OTHER        -> {}

\* escalate_request(); asked is the level of the request body, "none" if not
\* given.  After the update the stakeholders are looked up; a query that fails
\* ends the handler before the audit entry.
Escalate(asked, trigger, fails) ==
    /\ Len(auditLog) < MaxEntries
    /\ request.status \in {"pending_approval", "pending_info", "escalated"}
    /\ \E t \in Targets(IF asked = "none" THEN Determined(request.level, trigger) ELSE asked) :
           request' = [status |-> "escalated",
                       approver |-> t.approver, level |-> t.level]
    /\ IF fails
       THEN /\ unlogged' = unlogged \cup {Len(auditLog)}
            /\ UNCHANGED auditLog
       ELSE /\ auditLog' = Append(auditLog, AuditLine(request.status, "escalated"))
            /\ UNCHANGED unlogged
    /\ UNCHANGED line

\* The reporting line changes (ReportingLines).
Reorganize(l) ==
    /\ line' = l
    /\ line' # line
    /\ UNCHANGED <<request, auditLog, unlogged>>

WorkflowNext == \/ \E who \in Staff \cup {0, HR}, d \in DOMAIN Outcome : Decide(who, d)
                \/ \E asked \in Levels \cup {"none"}, t \in Triggers, fails \in BOOLEAN :
                       Escalate(asked, t, fails)
                \/ \E l \in [manager : Staff \cup {0}, skip : Staff \cup {0}] : Reorganize(l)

WorkflowSpec == WorkflowInit /\ [][WorkflowNext]_workflowVars

-----------------------------------------------------------------------------
(* Properties. *)

\* The audit trail leads from the first status to the present one without a
\* gap, except where an escalation failed after its update.
TrailLeadsToStatus ==
    LET path == <<[from |-> "none", to |-> "pending_approval"]>> \o auditLog
                \o <<[from |-> request.status, to |-> "none"]>>
    IN  \A i \in 0..Len(auditLog) :
            i \notin unlogged => path[i + 1].to = path[i + 2].from
=============================================================================
