--------------------------- MODULE DepartmentTree ---------------------------
(***************************************************************************)
(* Department.parent_department_id as src/api/admin_org_structure.py       *)
(* writes it.  A request reads the rows it needs one by one and keeps each *)
(* as first read (identity map); processes share the database.             *)
(* passed is history.                                                      *)
(* The Faulty... operator is a mistake the property must notice.           *)
(***************************************************************************)
EXTENDS Integers, Processes

CONSTANTS Departments  \* ids of department rows that may be created

ASSUME DepartmentAssumption == /\ Departments \subseteq Nat \ {0}
                               /\ Departments \cap Pods = {}

VARIABLES
    parent,   \* parent[d]: parent_department_id, Top, or Missing (no row)
    change,   \* change[p]: the update p works on
    passed    \* history: pods with a commit of another since they read,
              \* and departments such a pod has moved

departmentVars == <<parent, change, passed>>

Top == 0
Missing == -1
NoChange == [dept |-> Top]
Rows == {d \in Departments : parent[d] # Missing}

DepartmentTypeOK == /\ parent \in [Departments -> Departments \cup {Top, Missing}]
                    /\ change \in [Pods -> [dept : Departments, to : Departments,
                                            at : Departments \cup {Top}, known : SUBSET Departments,
                                            had : Departments \cup {Top}] \cup {NoChange}]
                    /\ passed \subseteq Pods \cup Departments

DepartmentInit == /\ parent = [d \in Departments |-> Missing]
                  /\ change = [p \in Pods |-> NoChange]
                  /\ passed = {}

-----------------------------------------------------------------------------
Free(p) == change[p] = NoChange
Others(p) == {q \in Pods \ {p} : ~Free(q)}

\* create_department(): the parent must exist and be active (is_active is left
\* out: only this guard reads it).  The new row is nobody's parent.
CreateDepartment(d, m) ==
    /\ d \notin Rows /\ \A c \in Departments : c < d => c \in Rows
    /\ m \in Rows \cup {Top}
    /\ parent' = [parent EXCEPT ![d] = m]
    /\ UNCHANGED <<change, passed>>

\* update_department() with 0 for the parent: "or None"
ToTop(p, d) ==
    /\ Free(p)
    /\ d \in Rows
    /\ parent[d] # Top
    /\ parent' = [parent EXCEPT ![d] = Top]
    /\ passed' = (passed \cup Others(p)) \ {d}
    /\ UNCHANGED change

\* update_department() with a parent, active or not: reads the department
StartChange(p, d, m) ==
    /\ Free(p)
    /\ d \in Rows /\ m \in Rows
    /\ change' = [change EXCEPT ![p] = [dept |-> d, to |-> m, at |-> m, known |-> {d},
                                        had |-> parent[d]]]
    /\ UNCHANGED <<parent, passed>>

FaultyRound(c) == c.dept = c.to   \* looks at the new parent only

\* check_circular_department_dependency(): the walk is back at the department
\* or at one it has seen.
Round(c) == c.at \in c.known

WalkUp(p) ==
    /\ ~Free(p)
    /\ change[p].at # Top
    /\ ~Round(change[p])
    /\ change' = [change EXCEPT ![p].at = parent[change[p].at],
                                ![p].known = @ \cup {change[p].at}]
    /\ UNCHANGED <<parent, passed>>

Done(p) == change' = [change EXCEPT ![p] = NoChange]

\* ValidationError, or the session is lost
Refuse(p) ==
    /\ ~Free(p)
    /\ Done(p)
    /\ passed' = passed \ {p}
    /\ UNCHANGED parent

CommitChange(p) ==
    /\ ~Free(p)
    /\ change[p].at = Top
    /\ LET d == change[p].dept
           same == change[p].to = change[p].had   \* no UPDATE is sent
       IN  /\ parent' = IF same THEN parent ELSE [parent EXCEPT ![d] = change[p].to]
           /\ passed' = IF same THEN passed \ {p}
                        ELSE (passed \cup Others(p) \cup (IF p \in passed THEN {d} ELSE {}))
                                \ ({p} \cup (IF p \in passed THEN {} ELSE {d}))
    /\ Done(p)

DepartmentNext == \/ \E d \in Departments, m \in Departments \cup {Top} : CreateDepartment(d, m)
                  \/ \E p \in Pods : \/ \E d, m \in Departments : StartChange(p, d, m)
                                     \/ \E d \in Departments : ToTop(p, d)
                                     \/ WalkUp(p) \/ Refuse(p) \/ CommitChange(p)

DepartmentSpec == DepartmentInit /\ [][DepartmentNext]_departmentVars

-----------------------------------------------------------------------------
\* The departments form a tree ("Prevents circular dependencies", docstring of
\* update_department): all their writers check the whole chain of parents, so a
\* cycle takes a move that another one overtook between its check and its
\* commit.
CyclesNeedARace ==
    \A T \in SUBSET Departments :
        T # {} /\ (\A d \in T : parent[d] \in T) => T \cap passed # {}
=============================================================================
