---------------------------- MODULE WorkSchedules ---------------------------
(***************************************************************************)
(* One work schedule of src/services/work_schedule_service.py.  Requests   *)
(* of several processes read the row, check labour law and commit the      *)
(* columns they changed.  Hours are thousandths of an hour, which stand    *)
(* for the float of a request; the column keeps hundredths.                *)
(* doubtful and rounded are history.                                       *)
(* The Faulty... operator is a mistake the property must notice.           *)
(***************************************************************************)
EXTENDS Integers, Processes

CONSTANTS Hours,   \* values of hours_per_week in a request
          Days,    \* values of days_per_week
          Breaks   \* values of break_duration_minutes

Hour == 1000   \* thousandths

ASSUME ScheduleAssumption == /\ Hours \subseteq 0..168 * Hour /\ Days \subseteq 1..7
                             /\ Breaks \subseteq 0..180

VARIABLES
    schedule, \* the committed row, or NoRow
    edit,     \* edit[p]: the request p works on and the columns it will send
    stale,    \* history: pods with a commit of another since they read
    doubtful, \* history: the last check did not see what is stored now
    rounded   \* history: the hours of the last check were rounded up in the row

scheduleVars == <<schedule, edit, stale, doubtful, rounded>>

Keep == -1
NoRow == [hours |-> Keep]
NoEdit == [op |-> "idle"]

\* Decimal(str(hours)) in a Numeric(4, 2), rounded half up
Stored(h) == 10 * ((h + 5) \div 10)

ScheduleRow == [hours : {Stored(h) : h \in Hours}, days : Days, break : Breaks, active : {0, 1}]
Changes == [hours : Hours \cup {Keep}, days : Days \cup {Keep},
            break : Breaks \cup {Keep}, active : {0, 1, Keep}]

ScheduleTypeOK == /\ schedule \in ScheduleRow \cup {NoRow}
                  /\ edit \in [Pods -> [op : {"update", "deactivate"}, sent : Changes] \cup {NoEdit}]
                  /\ stale \subseteq Pods
                  /\ doubtful \in BOOLEAN /\ rounded \in BOOLEAN

ScheduleInit == /\ schedule = NoRow
                /\ edit = [p \in Pods |-> NoEdit]
                /\ stale = {}
                /\ doubtful = FALSE /\ rounded = FALSE

-----------------------------------------------------------------------------
\* validate_labor_compliance(): 10 hours a day, 48 a week, a break from 6 on
Compliant(hours, days, break) == /\ hours <= 10 * Hour * days
                                 /\ hours <= 48 * Hour
                                 /\ hours >= 6 * Hour * days => break >= 30

\* create_schedule()
CreateSchedule(h, d, b) ==
    /\ schedule = NoRow
    /\ Compliant(h, d, b)
    /\ schedule' = [hours |-> Stored(h), days |-> d, break |-> b, active |-> 1]
    /\ rounded' = (Stored(h) > h)
    /\ UNCHANGED <<edit, stale, doubtful>>

FaultyGiven(new, old) == old   \* checks what is stored already

\* request.x or schedule.x: a 0 counts as not given
Given(new, old) == IF new \in {Keep, 0} THEN old ELSE new

\* request.x if request.x is not None; the UPDATE names a column only if its
\* value, not yet rounded, differs from what was read.
Sent(new, old) == [c \in DOMAIN new |-> IF new[c] = old[c] THEN Keep ELSE new[c]]

Begin(p, op, new) ==
    /\ schedule # NoRow
    /\ edit[p] = NoEdit
    /\ edit' = [edit EXCEPT ![p] = [op |-> op, sent |-> Sent(new, schedule)]]
    /\ UNCHANGED <<schedule, stale, doubtful, rounded>>

\* update_schedule(): reads the row and checks
StartEdit(p, new) ==
    /\ Begin(p, "update", new)
    /\ Compliant(Given(new.hours, schedule.hours), Given(new.days, schedule.days),
                 Given(new.break, schedule.break))

\* deactivate_schedule(): employees may still be on it
StartDeactivate(p) ==
    /\ Begin(p, "deactivate", [hours |-> Keep, days |-> Keep, break |-> Keep, active |-> 0])
    /\ schedule.active = 1

CommitEdit(p) ==
    /\ edit[p] # NoEdit
    /\ LET sent == edit[p].sent
           row == [c \in DOMAIN schedule |-> CASE sent[c] = Keep -> schedule[c]
                                             [] sent[c] # Keep /\ c = "hours" -> Stored(sent[c])
                                             [] OTHER -> sent[c]]
       IN  /\ schedule' = row
           /\ stale' = (IF row = schedule THEN stale
                        ELSE stale \cup {q \in Pods : edit[q] # NoEdit}) \ {p}
           /\ doubtful' = IF edit[p].op = "update" THEN p \in stale \/ sent.break = 0
                                                   ELSE doubtful
           /\ rounded' = IF edit[p].op = "update"
                         THEN sent.hours # Keep /\ Stored(sent.hours) > sent.hours
                         ELSE rounded
    /\ edit' = [edit EXCEPT ![p] = NoEdit]

\* The database fails or the pod dies: rolled back.
Abort(p) ==
    /\ edit[p] # NoEdit
    /\ edit' = [edit EXCEPT ![p] = NoEdit]
    /\ stale' = stale \ {p}
    /\ UNCHANGED <<schedule, doubtful, rounded>>

ScheduleNext == \/ \E h \in Hours, d \in Days, b \in Breaks : CreateSchedule(h, d, b)
                \/ \E p \in Pods : \/ \E new \in Changes : StartEdit(p, new)
                                   \/ StartDeactivate(p) \/ CommitEdit(p) \/ Abort(p)

ScheduleSpec == ScheduleInit /\ [][ScheduleNext]_scheduleVars

-----------------------------------------------------------------------------
(* Properties. *)

\* The stored schedule keeps labour law after any series of updates, each of
\* which may change one of the three columns the law ties together; the
\* exceptions are an update that another overtook (both were checked against
\* the row as it was), one with a break of 0 (the old break is checked), and
\* hours just under 6 a day that the column rounds to 6.
StaysLawful ==
    schedule # NoRow /\ ~doubtful =>
        \/ Compliant(schedule.hours, schedule.days, schedule.break)
        \/ rounded /\ schedule.hours = 6 * Hour * schedule.days
=============================================================================
