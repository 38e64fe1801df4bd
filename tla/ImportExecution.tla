--------------------------- MODULE ImportExecution --------------------------
(***************************************************************************)
(* An upload on its way through src/api/employee_import_upload.py and      *)
(* employee_import_execute.py.  The uploaded file is in a directory that   *)
(* the workers of a host share; the job of an import is in the memory of   *)
(* the worker that executed it.  No handler waits for anything, so each is *)
(* one step, and nobody ever sees a job that is being executed.  (POST     *)
(* /rollback of employee_import_errors.py has the same path and is         *)
(* registered later: it is never reached.)  Rows are good or bad.          *)
(* handedOut, reverted and kept are history.                               *)
(* The Faulty... operators are mistakes the properties must notice.        *)
(***************************************************************************)
EXTENDS Naturals, Sequences, FiniteSets, Processes

CONSTANTS Files,    \* files that may be uploaded: sequences of TRUE (good row)
          MaxRuns   \* bound on the executions

ASSUME ExecutionAssumption == MaxRuns \in Nat /\ Files \subseteq Seq(BOOLEAN) \ {<<>>}

VARIABLES
    upload,    \* the stored file, or NoFile
    importJob, \* importJob[w]: the job of the import in w, or NoJob
    runs,      \* executions so far; the n-th makes token n
    handedOut, \* history: handedOut[n] is what the n-th execution answered
    reverted   \* history: the answers of the rollbacks

executionVars == <<upload, importJob, runs, handedOut, reverted>>

NoFile == <<>>
NoJob == [status |-> "none"]
NoToken == 0
ImportStatus == {"completed", "completed_with_errors", "failed", "rolled_back"}
ImportJob == [status : ImportStatus, good : Nat, token : Nat]
ExecuteResponse == [status : ImportStatus, kept : Nat, token : Nat]

ExecutionTypeOK == /\ upload \in Files \cup {NoFile}
                   /\ importJob \in [Pods -> ImportJob \cup {NoJob}]
                   /\ runs = Len(handedOut)
                   /\ handedOut \in Seq(ExecuteResponse)
                   /\ reverted \in Seq([token : Nat, count : Nat])

ExecutionInit == /\ upload = NoFile
                 /\ importJob = [w \in Pods |-> NoJob]
                 /\ runs = 0
                 /\ handedOut = <<>>
                 /\ reverted = <<>>

-----------------------------------------------------------------------------
\* upload_import_file(): every upload has an id of its own; this is about one.
UploadFile(f) ==
    /\ upload = NoFile /\ runs = 0
    /\ upload' = f
    /\ UNCHANGED <<importJob, runs, handedOut, reverted>>

\* cancel_upload(): also of a file that has been executed
CancelUpload ==
    /\ upload # NoFile
    /\ upload' = NoFile
    /\ UNCHANGED <<importJob, runs, handedOut, reverted>>

Good(rows) == Cardinality({i \in DOMAIN rows : rows[i]})

\* The rows that are looked at: not allow_partial, up to the first bad one
Seen(rows, partial) ==
    IF partial \/ Good(rows) = Len(rows) THEN rows
    ELSE SubSeq(rows, 1, CHOOSE i \in DOMAIN rows : ~rows[i] /\ Good(SubSeq(rows, 1, i - 1)) = i - 1)

StopsEarly(rows, partial) == ~partial /\ Good(rows) < Len(rows)

\* Full batches before a failure were committed, unless it was a dry run.
Kept(rows, partial, dry, batch) ==
    IF dry THEN 0
    ELSE IF StopsEarly(rows, partial)
         THEN LET n == Len(Seen(rows, partial)) - 1 IN n - (n % batch)
         ELSE Good(rows)

Result(rows, partial) ==
    IF StopsEarly(rows, partial) \/ Good(rows) = 0 THEN "failed"
    ELSE IF Good(rows) = Len(rows) THEN "completed" ELSE "completed_with_errors"

\* A token if a row succeeded, even if it was rolled back
Token(n, good, dry) == IF good > 0 /\ ~dry THEN n ELSE NoToken

\* execute_import(): anew for an upload that was executed before; the job in
\* this worker, with its token, is forgotten.
Execute(w, partial, dry, batch) ==
    /\ upload # NoFile
    /\ runs < MaxRuns
    /\ LET good == Good(Seen(upload, partial))
           token == Token(runs + 1, good, dry)
           status == Result(upload, partial)
       IN  /\ importJob' = [importJob EXCEPT ![w] =
                               [status |-> status, good |-> good, token |-> token]]
           /\ handedOut' = Append(handedOut, [status |-> status, token |-> token,
                                    kept |-> Kept(upload, partial, dry, batch)])
    /\ runs' = runs + 1
    /\ UNCHANGED <<upload, reverted>>

FaultyReverted(job) == job

\* rollback_import() is done: the records are only counted
Reverted(job) == [job EXCEPT !.status = "rolled_back", !.token = NoToken]

\* rollback_import() with a token that was handed out
RollBackImport(w, n) ==
    /\ importJob[w] # NoJob
    /\ n # NoToken
    /\ importJob[w].token = n
    /\ importJob[w].status # "rolled_back"
    /\ importJob' = [importJob EXCEPT ![w] = Reverted(@)]
    /\ reverted' = Append(reverted, [token |-> n, count |-> importJob[w].good])
    /\ UNCHANGED <<upload, runs, handedOut>>

RestartWorker(w) ==
    /\ importJob[w] # NoJob
    /\ importJob' = [importJob EXCEPT ![w] = NoJob]
    /\ UNCHANGED <<upload, runs, handedOut, reverted>>

ExecutionNext == \/ \E f \in Files : UploadFile(f)
                 \/ CancelUpload
                 \/ \E w \in Pods : \/ \E partial, dry \in BOOLEAN, batch \in 1..2 :
                                           Execute(w, partial, dry, batch)
                                    \/ \E n \in 1..MaxRuns : RollBackImport(w, n)
                                    \/ RestartWorker(w)

ExecutionSpec == ExecutionInit /\ [][ExecutionNext]_executionVars

-----------------------------------------------------------------------------
(* Properties. *)

\* A rollback reverts what an execution imported, once: no execution is rolled
\* back twice and the count a rollback answers is the rows its execution kept,
\* unless that execution failed (its token counts rows it had rolled back
\* itself).
RevertsWhatWasKept ==
    /\ \A i, j \in DOMAIN reverted : reverted[i].token = reverted[j].token => i = j
    /\ \A i \in DOMAIN reverted :
           LET run == handedOut[reverted[i].token]
           IN  run.status = "failed" \/ reverted[i].count = run.kept
=============================================================================
