--------------------------- MODULE EmployeeImport ---------------------------
(***************************************************************************)
(* One import job of src/services/employee_import_service.py, processed by *)
(* application processes on one database.  The first flush of a handler    *)
(* updates the job and waits for its row lock.  A flush that fails leaves  *)
(* the session unusable: the except branch reads an expired attribute of   *)
(* the job, that raises, and get_db() rolls everything back.               *)
(* counted, missed, left and the field since of a run are history.         *)
(* The Faulty... operators are mistakes the properties must notice.        *)
(***************************************************************************)
EXTENDS Naturals, Sequences, FiniteSets, Processes

CONSTANTS Ids,      \* employee ids that occur in files
          MaxRows   \* bound on the rows of a file

ASSUME ImportAssumption == MaxRows \in Nat /\ Ids \cap {"invalid"} = {}

VARIABLES
    job,       \* the committed row of import_jobs
    staff,     \* employee_id's in the committed table employee
    run,       \* run[p]: the process_import() of p
    counted,   \* history: rows of the files of the committed runs
    missed,    \* history: a run committed counters it had read before another's commit
    left       \* history: some process_import() left out a valid new row

importVars == <<job, staff, run, counted, missed, left>>

File == UNION {[1..n -> Ids \cup {"invalid"}] : n \in 0..MaxRows}
Job == [status : {"pending", "mapping", "completed", "failed"},
        processed : Nat, successful : Nat, errors : Nat]
NoRun == [at |-> "idle"]
Run == [at : {"waiting", "rows"}, file : File, next : Nat, job : Job,
        added : SUBSET Ids, queued : BOOLEAN, since : Nat]

ImportTypeOK == /\ job \in Job
                /\ staff \subseteq Ids
                /\ run \in [Pods -> Run \cup {NoRun}]
                /\ counted \in Nat
                /\ missed \in BOOLEAN
                /\ left \in BOOLEAN

ImportInit == /\ job = [status |-> "pending", processed |-> 0, successful |-> 0, errors |-> 0]
              /\ staff \in SUBSET Ids
              /\ run = [p \in Pods |-> NoRun]
              /\ counted = 0
              /\ missed = FALSE
              /\ left = FALSE

-----------------------------------------------------------------------------
Locked == \E p \in Pods : run[p].at = "rows"

\* EmployeeService.create_employee() of one of the ids; the unique index makes
\* it wait for a session that has inserted the id.
Hire(id) ==
    /\ id \notin staff
    /\ \A p \in Pods : run[p] # NoRun => id \notin run[p].added
    /\ staff' = staff \cup {id}
    /\ UNCHANGED <<job, run, counted, missed, left>>

\* validate_import(): from every status; the file is not kept.
Validate ==
    /\ ~Locked
    /\ job' = [job EXCEPT !.status = "mapping"]
    /\ UNCHANGED <<staff, run, counted, missed, left>>

\* process_import() of an uploaded file, which need not be the validated one.
Process(p, file) ==
    /\ run[p] = NoRun
    /\ job.status \in {"mapping", "pending"}
    /\ run' = [run EXCEPT ![p] = [at |-> "waiting", file |-> file, next |-> 1, job |-> job,
                                  added |-> {}, queued |-> FALSE, since |-> counted]]
    /\ UNCHANGED <<job, staff, counted, missed, left>>

TakeLock(p) ==
    /\ run[p].at = "waiting"
    /\ ~Locked
    /\ run' = [run EXCEPT ![p].at = "rows"]
    /\ UNCHANGED <<job, staff, counted, missed, left>>

\* What a flush sends: the employee of the row, after the ImportRow of the row
\* before.  An ImportRow holds a date (hire_date is required) in a JSONB
\* column, which json.dumps refuses.
FlushFails(r, id) == r.queued \/ id \in staff \cup r.added

Counted(r, outcome) ==
    [r EXCEPT !.next = @ + 1, !.job.processed = @ + 1,
              !.job.successful = @ + (IF outcome = "success" THEN 1 ELSE 0),
              !.job.errors = @ + (IF outcome = "error" THEN 1 ELSE 0)]

InvalidRow(p) ==
    /\ run[p].at = "rows" /\ run[p].next <= Len(run[p].file)
    /\ run[p].file[run[p].next] = "invalid"
    /\ run' = [run EXCEPT ![p] = Counted(@, "error")]
    /\ UNCHANGED <<job, staff, counted, missed, left>>

ValidRow(p) ==
    /\ run[p].at = "rows" /\ run[p].next <= Len(run[p].file)
    /\ run[p].file[run[p].next] \in Ids
    /\ LET r == run[p]
           id == r.file[r.next]
       IN  /\ ~FlushFails(r, id)
           /\ run' = [run EXCEPT ![p] = [Counted(r, "success") EXCEPT !.added = @ \cup {id},
                                                                      !.queued = TRUE]]
    /\ UNCHANGED <<job, staff, counted, missed, left>>

NewRows(r) == {r.file[i] : i \in DOMAIN r.file} \ ({"invalid"} \cup staff)

FaultyFailed(p) ==   \* goes on: the counters of this run are committed
    /\ job' = [run[p].job EXCEPT !.status = "completed"]
    /\ UNCHANGED <<staff, counted, missed>>

\* get_db() rolls back
Failed(p) == UNCHANGED <<job, staff, counted, missed>>

\* A flush fails, in a row or at the end.
FailedFlush(p) ==
    /\ run[p].at = "rows"
    /\ \/ run[p].next > Len(run[p].file) /\ run[p].queued
       \/ /\ run[p].next <= Len(run[p].file)
          /\ run[p].file[run[p].next] \in Ids
          /\ FlushFails(run[p], run[p].file[run[p].next])
    /\ Failed(p)
    /\ left' = (left \/ NewRows(run[p]) # {})
    /\ run' = [run EXCEPT ![p] = NoRun]

\* The final status, the last flush and get_db()'s commit.  The UPDATE names the
\* columns the run changed: without a row that is the status alone.
Finish(p) ==
    /\ run[p].at = "rows"
    /\ run[p].next > Len(run[p].file)
    /\ ~run[p].queued
    /\ LET r == run[p]
           errors == \E i \in DOMAIN r.file : r.file[i] = "invalid"
       IN  /\ job' = [IF r.file = <<>> THEN job ELSE r.job EXCEPT !.status =
                         IF errors /\ r.added = {} THEN "failed" ELSE "completed"]
           /\ staff' = staff \cup r.added
           /\ counted' = counted + Len(r.file)
           /\ missed' = (missed \/ (r.file # <<>> /\ r.since # counted))
           /\ left' = (left \/ NewRows(r) \ r.added # {})
    /\ run' = [run EXCEPT ![p] = NoRun]

\* The pod dies or the database fails: rolled back.
Die(p) ==
    /\ run[p] # NoRun
    /\ run' = [run EXCEPT ![p] = NoRun]
    /\ UNCHANGED <<job, staff, counted, missed, left>>

ImportNext == \/ \E id \in Ids : Hire(id)
              \/ Validate
              \/ \E p \in Pods : \/ /\ counted < 2 * MaxRows
                                    /\ \E file \in File : Process(p, file)
                                 \/ TakeLock(p) \/ InvalidRow(p) \/ ValidRow(p)
                                 \/ FailedFlush(p) \/ Finish(p) \/ Die(p)

ImportSpec == ImportInit /\ [][ImportNext]_importVars

-----------------------------------------------------------------------------
(* Properties. *)

\* Over runs that fail, die, wait for each other and try again, the job counts
\* each row of a committed run once, as imported or as an error, and no row of a
\* run rolled back; short of that it can only be when a run commits the counters
\* it had read before another run's commit.
RowsAreCounted == /\ job.successful + job.errors = job.processed
                  /\ job.processed <= counted
                  /\ job.processed = counted \/ missed

\* "Supports partial imports - valid records are imported even if some fail"
\* (process_import): no call leaves out a valid row whose id is new.
ValidRowsImported == ~left
=============================================================================
