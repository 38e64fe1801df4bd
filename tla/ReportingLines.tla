--------------------------- MODULE ReportingLines ---------------------------
(***************************************************************************)
(* Who reports to whom: Employee.manager_id as src/services/               *)
(* employee_service.py and src/api/admin_org_structure.py write it and as  *)
(* the manager chain of src/services/employee_org_service.py reads it.     *)
(* The processes (pods) share one database.  A handler reads the rows it   *)
(* needs one by one and its session keeps each as it was first read (the   *)
(* identity map), so seen[p] may differ from the table when it is used.    *)
(* blame and crossed are history, for the properties only.                 *)
(* The Faulty... operators are mistakes the properties must notice.        *)
(***************************************************************************)
EXTENDS Integers, Processes

CONSTANTS People,     \* ids of employee rows that may be created
          MaxWrites   \* bound on the commits of a run

ASSUME ReportingAssumption == People \subseteq Nat \ {0} /\ MaxWrites \in Nat

VARIABLES
    manager,    \* manager[e]: the committed manager_id, None, or NotHired (no row)
    isActive,   \* isActive[e]: is_active and not terminated
    req,        \* req[p]: the request p works on
    seen,       \* seen[p][e]: manager_id of e in p's session, or Unread
    blame,      \* history: how manager[e] was last written
    crossed,    \* history: moving pods with a commit of another since they began
    writes      \* commits so far

lineVars == <<manager, isActive, req, seen, blame, crossed, writes>>

None == 0
NotHired == -1
Unread == -1
NoRequest == [op |-> "idle"]
Move == [op : {"move"}, employee : People, to : People,
         fit : BOOLEAN, at : People \cup {None}, visited : SUBSET People]
Chart == [op : {"chart"}, at : People]

Hired == {e \in People : manager[e] # NotHired}
Nothing == [e \in People |-> Unread]

LinesTypeOK == /\ manager \in [People -> People \cup {None, NotHired}]
               /\ isActive \in [People -> BOOLEAN]
               /\ req \in [Pods -> Move \cup Chart \cup {NoRequest}]
               /\ seen \in [Pods -> [People -> People \cup {None, Unread}]]
               /\ blame \in [People -> {"checked", "unchecked", "overtaken"}]
               /\ crossed \subseteq Pods
               /\ writes \in Nat

LinesInit == /\ manager = [e \in People |-> NotHired]
             /\ isActive = [e \in People |-> TRUE]
             /\ req = [p \in Pods |-> NoRequest]
             /\ seen = [p \in Pods |-> Nothing]
             /\ blame = [e \in People |-> "checked"]
             /\ crossed = {}
             /\ writes = 0

-----------------------------------------------------------------------------
(* Sessions *)

\* session.get(Employee, x): the row, unless the session already has it.
Got(known, x) == [known EXCEPT ![x] = IF @ = Unread THEN manager[x] ELSE @]

\* _get_employee_with_relations(x): the SELECT joins the row of the manager.
GotWithManager(known, x) ==
    IF manager[x] \in People THEN Got(Got(known, x), manager[x]) ELSE Got(known, x)

\* Changed rows are committed: the other open sessions may hold them.
Committed(p) == /\ writes' = writes + 1
                /\ crossed' = (crossed \cup {q \in Pods : req[q].op = "move"}) \ {p}

Respond(p) == /\ req' = [req EXCEPT ![p] = NoRequest]
              /\ seen' = [seen EXCEPT ![p] = Nothing]

\* p is free; the bound is on what begins, so that what began can end.
Ready(p) == req[p] = NoRequest /\ writes < MaxWrites

-----------------------------------------------------------------------------
(* employee_service.py: nothing it writes depends on the rows it read, so  *)
(* each of these handlers is one step.                                     *)

\* create_employee(): the next id, under a manager who exists.
HireUnder(p, e, m) ==
    /\ req[p] = NoRequest
    /\ e \notin Hired /\ \A d \in People : d < e => d \in Hired
    /\ m \in Hired \cup {None}
    /\ manager' = [manager EXCEPT ![e] = m]
    /\ UNCHANGED <<isActive, req, seen, blame, crossed, writes>>

\* update_employee() given manager_id: it must exist and is written as it is.
UpdateManager(p, e, m) ==
    /\ Ready(p)
    /\ e \in Hired
    /\ m \in Hired \cup {None}
    /\ m # manager[e]
    /\ manager' = [manager EXCEPT ![e] = m]
    /\ blame' = [blame EXCEPT ![e] = "unchecked"]
    /\ Committed(p)
    /\ UNCHANGED <<isActive, req, seen>>

\* update_employee() given is_active or employment_status.
UpdateActive(p, e) ==
    /\ Ready(p)
    /\ e \in Hired
    /\ isActive' = [isActive EXCEPT ![e] = ~@]
    /\ Committed(p)
    /\ UNCHANGED <<manager, req, seen, blame>>

\* terminate_employee(): who reports to e still does afterwards.
Terminate(p, e) ==
    /\ Ready(p)
    /\ e \in Hired
    /\ isActive[e]
    /\ isActive' = [isActive EXCEPT ![e] = FALSE]
    /\ Committed(p)
    /\ UNCHANGED <<manager, req, seen, blame>>

-----------------------------------------------------------------------------
(* update_reporting_relationship() *)

\* Reads the employee, its manager (for the name) and the new manager.
StartMove(p, e, m) ==
    /\ Ready(p)
    /\ e \in Hired /\ m \in Hired
    /\ req' = [req EXCEPT ![p] = [op |-> "move", employee |-> e, to |-> m,
                                  fit |-> isActive[m], at |-> m, visited |-> {}]]
    /\ seen' = [seen EXCEPT ![p] = Got(GotWithManager(Nothing, e), m)]
    /\ UNCHANGED <<manager, isActive, blame, crossed, writes>>

\* The same without a new manager, in one step: it checks nothing.
ClearManager(p, e) ==
    /\ Ready(p)
    /\ e \in Hired
    /\ manager[e] # None
    /\ manager' = [manager EXCEPT ![e] = None]
    /\ blame' = [blame EXCEPT ![e] = "checked"]
    /\ Committed(p)
    /\ UNCHANGED <<isActive, req, seen>>

FaultyCircular(r) == r.at \in r.visited         \* looks for old cycles only
FaultyUnvisited(r) == r.at = r.employee

\* check_circular_reporting_dependency() gives up the walk.
Circular(r) == r.at = r.employee \/ r.at \in r.visited

\* ... or goes one manager up.
Climb(p) ==
    /\ req[p].op = "move"
    /\ req[p].at # None
    /\ ~Circular(req[p])
    /\ LET known == Got(seen[p], req[p].at)
       IN  /\ seen' = [seen EXCEPT ![p] = known]
           /\ req' = [req EXCEPT ![p].at = known[req[p].at],
                                 ![p].visited = @ \cup {req[p].at}]
    /\ UNCHANGED <<manager, isActive, blame, crossed, writes>>

FaultyRefused(r) == r.at # None /\ Circular(r)   \* no look at the manager's state

\* The ValidationErrors after the walk.
Refused(r) == IF r.at = None THEN ~r.fit ELSE Circular(r)

RefuseMove(p) ==
    /\ req[p].op = "move"
    /\ Refused(req[p])
    /\ Respond(p)
    /\ crossed' = crossed \ {p}
    /\ UNCHANGED <<manager, isActive, blame, writes>>

\* An UPDATE is sent only if the value differs from the one that was read.
CommitMove(p) ==
    /\ req[p].op = "move"
    /\ req[p].at = None
    /\ ~Refused(req[p])
    /\ LET e == req[p].employee
       IN  IF seen[p][e] = req[p].to
           THEN /\ crossed' = crossed \ {p}
                /\ UNCHANGED <<manager, blame, writes>>
           ELSE /\ manager' = [manager EXCEPT ![e] = req[p].to]
                /\ blame' = [blame EXCEPT ![e] =
                                IF p \in crossed THEN "overtaken" ELSE "checked"]
                /\ Committed(p)
    /\ Respond(p)
    /\ UNCHANGED isActive

-----------------------------------------------------------------------------
(* get_org_chart(): _build_manager_chain() *)

StartChart(p, e) ==
    /\ req[p] = NoRequest
    /\ e \in Hired
    /\ req' = [req EXCEPT ![p] = [op |-> "chart", at |-> e]]
    /\ seen' = [seen EXCEPT ![p] = GotWithManager(Nothing, e)]
    /\ UNCHANGED <<manager, isActive, blame, crossed, writes>>

\* while current.manager_id is not None
ChainUp(p) ==
    /\ req[p].op = "chart"
    /\ seen[p][req[p].at] \in People
    /\ LET m == seen[p][req[p].at]
       IN  /\ seen' = [seen EXCEPT ![p] = GotWithManager(@, m)]
           /\ req' = [req EXCEPT ![p].at = m]
    /\ UNCHANGED <<manager, isActive, blame, crossed, writes>>

ChartDone(p) ==
    /\ req[p].op = "chart"
    /\ seen[p][req[p].at] = None
    /\ Respond(p)
    /\ crossed' = crossed \ {p}
    /\ UNCHANGED <<manager, isActive, blame, writes>>

\* The pod dies or the database fails: get_db() rolls the session back.
AbortRequest(p) ==
    /\ req[p] # NoRequest
    /\ Respond(p)
    /\ crossed' = crossed \ {p}
    /\ UNCHANGED <<manager, isActive, blame, writes>>

Work(p) == Climb(p) \/ RefuseMove(p) \/ CommitMove(p) \/ ChainUp(p) \/ ChartDone(p)

LinesNext == \E p \in Pods :
                 \/ \E e \in People, m \in People \cup {None} :
                        HireUnder(p, e, m) \/ UpdateManager(p, e, m)
                 \/ \E e, m \in People : StartMove(p, e, m)
                 \/ \E e \in People : \/ UpdateActive(p, e) \/ Terminate(p, e)
                                      \/ ClearManager(p, e) \/ StartChart(p, e)
                 \/ Work(p)
                 \/ AbortRequest(p)

LinesSpec == LinesInit /\ [][LinesNext]_lineVars

\* A pod keeps working on the request it has; nobody need send one.
LinesFairness == \A p \in Pods : WF_lineVars(Work(p))

-----------------------------------------------------------------------------
(* Properties. *)

\* Every member reports to a member: T holds a reporting cycle.
Loop(line, T) == T # {} /\ \A e \in T : line[e] \in T

\* The check of update_reporting_relationship() is good as long as nothing is
\* written beside it: every reporting cycle goes through an edge that the
\* unchecked PUT /employees/{id} wrote, or a move that others overtook.
CyclesAreExplained ==
    \A T \in SUBSET People :
        Loop(manager, T) => \E e \in T : blame[e] \in {"unchecked", "overtaken"}

\* A move nobody overtook puts the employee under a manager who is active at
\* that moment, though that was read before the walk.
MovedUnderActive ==
    [][\A p \in Pods, e \in People :
           CommitMove(p) /\ p \notin crossed /\ manager'[e] # manager[e]
               => isActive[manager'[e]]]_lineVars

\* A pod is done with every request in the end, except for an org chart whose
\* session has read a reporting cycle: that walk has no way out, even if the
\* cycle is repaired, and holds the pod's event loop.
Answered ==
    \A p \in Pods :
        req[p] # NoRequest ~> \/ req[p] = NoRequest
                         \/ /\ req[p].op = "chart"
                            /\ \E T \in SUBSET People : Loop(seen[p], T)
=============================================================================
