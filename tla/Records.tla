------------------------------ MODULE Records -------------------------------
(***************************************************************************)
(* The components that share nothing but the processes they run in, side   *)
(* by side.  A behaviour is one of one component, chosen at the start; the *)
(* others stay as they begin.                                              *)
(***************************************************************************)
EXTENDS ApprovalManagement, Envelope, ProfileUpdates, SessionStore, WorkSchedules,
        DepartmentTree, Policies, TimeOffApproval, EmployeeImport, TimeOffRequests,
        ImportExecution, TokenBucket, ReportingLines

VARIABLE component   \* the one that moves

recordVars == <<component, vars, envelopeVars, profileVars, sessionVars, scheduleVars,
                departmentVars, policyVars, workflowVars, importVars, requestVars,
                executionVars, bucketVars, lineVars>>

RecordsInit ==
    /\ component \in {"bucket", "decision", "envelope", "profile", "workflow", "import",
                      "session", "schedule", "department", "policy", "request", "execution",
                      "lines"}
    /\ Init /\ EnvelopeInit /\ ProfileInit /\ SessionInit /\ ScheduleInit
    /\ DepartmentInit /\ PolicyInit /\ WorkflowInit /\ ImportInit /\ RequestInit
    /\ ExecutionInit /\ BucketInit /\ LinesInit
    \* where a component begins that does not move is of no interest
    /\ component # "profile" => profile = [f \in Fields |-> "v1"]
    /\ component # "workflow" => line = [manager |-> 0, skip |-> 0]
    /\ component # "import" => staff = {}

RecordsNext ==
    /\ \/ component = "decision"   /\ Next
       \/ component = "envelope"   /\ EnvelopeNext
       \/ component = "profile"    /\ ProfileNext
       \/ component = "session"    /\ SessionNext
       \/ component = "schedule"   /\ ScheduleNext
       \/ component = "department" /\ DepartmentNext
       \/ component = "policy"     /\ PolicyNext
       \/ component = "bucket"     /\ BucketNext
       \/ component = "workflow"   /\ WorkflowNext
       \/ component = "import"     /\ ImportNext
       \/ component = "request"    /\ RequestNext
       \/ component = "execution"  /\ ExecutionNext
       \/ component = "lines"      /\ LinesNext
    /\ component # "decision"   => UNCHANGED vars
    /\ component # "envelope"   => UNCHANGED envelopeVars
    /\ component # "profile"    => UNCHANGED profileVars
    /\ component # "session"    => UNCHANGED sessionVars
    /\ component # "schedule"   => UNCHANGED scheduleVars
    /\ component # "department" => UNCHANGED departmentVars
    /\ component # "policy"     => UNCHANGED policyVars
    /\ component # "bucket"     => UNCHANGED bucketVars
    /\ component # "workflow"   => UNCHANGED workflowVars
    /\ component # "import"     => UNCHANGED importVars
    /\ component # "request"    => UNCHANGED requestVars
    /\ component # "execution"  => UNCHANGED executionVars
    /\ component # "lines"      => UNCHANGED lineVars
    /\ UNCHANGED component

RecordsSpec == RecordsInit /\ [][RecordsNext]_recordVars

-----------------------------------------------------------------------------
(* Properties: those of the extended modules, and this one. *)

\* Every variable keeps its type.
TypesOK == /\ TypeOK /\ EnvelopeTypeOK /\ ProfileTypeOK /\ SessionTypeOK /\ ScheduleTypeOK
           /\ DepartmentTypeOK /\ PolicyTypeOK /\ BucketTypeOK /\ WorkflowTypeOK
           /\ ImportTypeOK /\ RequestTypeOK /\ ExecutionTypeOK /\ LinesTypeOK
=============================================================================
