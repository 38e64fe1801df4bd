----------------------------- MODULE EmailQueue -----------------------------
(***************************************************************************)
(* EmailQueueManager of src/services/email/queue_manager.py: a queue, the  *)
(* e-mails being processed, the "completed" ones, and the background task  *)
(* that /queue/start creates and /queue/stop waits for.  Everything runs   *)
(* on one event loop, so a step here is the code between two awaits.       *)
(* The Faulty... operators are mistakes the properties must notice.        *)
(***************************************************************************)
EXTENDS Naturals, FiniteSets, FiniteSetsExt

CONSTANTS Emails,         \* the e-mails that may be queued
          Priority,       \* Priority[e]: the QueuePriority the caller asked for
          MaxRetries,     \* MaxRetries[e]: its max_retries (an attempt count)
          MaxConcurrent,  \* QueueConfig.max_concurrent
          BatchSize,      \* QueueConfig.batch_size
          MaxStarts       \* bound on the number of calls of start()

ASSUME QueueAssumption ==
    /\ IsFiniteSet(Emails)
    /\ Priority \in [Emails -> Nat]
    /\ MaxRetries \in [Emails -> Nat \ {0}]   \* "max_retries or config.max_retries"
    /\ MaxConcurrent \in Nat \ {0}
    /\ BatchSize \in Nat \ {0}
    /\ MaxStarts \in Nat

VARIABLES
    status,      \* status[e]: QueuedEmail.status, "absent" before enqueue()
    retryCount,  \* retryCount[e]: QueuedEmail.retry_count
    born,        \* born[e]: its rank by created_at
    queue,       \* the members of _queue ...
    seat,        \* ... and their order: 0 where the last sort put it, k when appended k-th since
    future,      \* e-mails whose scheduled_at or next_retry_at is still to come
    processing,  \* the keys of _processing
    completed,   \* the keys of _completed
    phase,       \* phase[e]: where the _process_email task of e is suspended
    running,     \* _running
    worker,      \* _worker_task, 0 for None
    loop,        \* loop[l]: the state of the l-th _process_loop task
    batch,       \* batch[l]: the e-mails whose tasks the gather of loop l still awaits
    stops,       \* stops[l]: a stop() call that waits for loop l
    accepted,    \* history: accepted[e] counts the times the provider took e
    cancelled    \* history: e-mails for which cancel() returned True

vars == <<status, retryCount, born, queue, seat, future, processing, completed,
          phase, running, worker, loop, batch, stops, accepted, cancelled>>

Loops == 1..MaxStarts
Terminal == {"sent", "max_retries_exceeded"}
Statuses == {"absent", "pending", "processing", "retry_scheduled"} \cup Terminal

TypeOK ==
    /\ status \in [Emails -> Statuses]
    /\ retryCount \in [Emails -> Nat]
    /\ born \in [Emails -> Nat]
    /\ queue \subseteq Emails
    /\ seat \in [Emails -> Nat]
    /\ future \subseteq Emails
    /\ processing \subseteq Emails
    /\ completed \subseteq Emails
    /\ phase \in [Emails -> {"idle", "token", "sending"}]
    /\ running \in BOOLEAN
    /\ worker \in 0..MaxStarts
    /\ loop \in [Loops -> {"none", "live", "ended"}]
    /\ batch \in [Loops -> SUBSET Emails]
    /\ stops \in [Loops -> {"none", "waiting", "timed_out"}]
    /\ accepted \in [Emails -> Nat]
    /\ cancelled \subseteq Emails

Init ==
    /\ status = [e \in Emails |-> "absent"]
    /\ retryCount = [e \in Emails |-> 0]
    /\ born = [e \in Emails |-> 0]
    /\ queue = {}
    /\ seat = [e \in Emails |-> 0]
    /\ future = {}
    /\ processing = {}
    /\ completed = {}
    /\ phase = [e \in Emails |-> "idle"]
    /\ running = FALSE
    /\ worker = 0
    /\ loop = [l \in Loops |-> "none"]
    /\ batch = [l \in Loops |-> {}]
    /\ stops = [l \in Loops |-> "none"]
    /\ accepted = [e \in Emails |-> 0]
    /\ cancelled = {}

-----------------------------------------------------------------------------
(* The callers' operations, each under _lock. *)

\* enqueue(): the whole deque is sorted again, retried e-mails included.
Enqueue(e, scheduled) ==
    /\ status[e] = "absent"
    /\ status' = [status EXCEPT ![e] = "pending"]
    /\ born' = [born EXCEPT ![e] = 1 + Cardinality({f \in Emails : status[f] # "absent"})]
    /\ queue' = queue \cup {e}
    /\ seat' = [f \in Emails |-> 0]
    /\ future' = IF scheduled THEN future \cup {e} ELSE future
    /\ UNCHANGED <<retryCount, processing, completed, phase, running, worker,
                   loop, batch, stops, accepted, cancelled>>

\* cancel(): only what waits in _queue can be cancelled; _completed is not looked at.
Cancel(e) ==
    /\ e \in queue
    /\ queue' = queue \ {e}
    /\ seat' = [seat EXCEPT ![e] = 0]
    /\ future' = future \ {e}
    /\ cancelled' = cancelled \cup {e}
    /\ UNCHANGED <<status, retryCount, born, processing, completed, phase,
                   running, worker, loop, batch, stops, accepted>>

\* cleanup_old_entries(): drops the entries created before the cut-off,
\* whatever their status.
CleanUp(cutoff) ==
    /\ \E e \in completed : born[e] < cutoff
    /\ completed' = {e \in completed : born[e] >= cutoff}
    /\ UNCHANGED <<status, retryCount, born, queue, seat, future, processing,
                   phase, running, worker, loop, batch, stops, accepted, cancelled>>

\* The clock reaches scheduled_at or next_retry_at of e.
ComesDue(e) ==
    /\ e \in future
    /\ future' = future \ {e}
    /\ UNCHANGED <<status, retryCount, born, queue, seat, processing, completed,
                   phase, running, worker, loop, batch, stops, accepted, cancelled>>

-----------------------------------------------------------------------------
(* The background task. *)

\* start(): a no-op while _running; otherwise a new task, whatever became of
\* the tasks of earlier starts.
Start ==
    /\ ~running
    /\ \E l \in Loops :
        /\ loop[l] = "none"
        /\ \A k \in Loops : k < l => loop[k] # "none"
        /\ running' = TRUE
        /\ worker' = l
        /\ loop' = [loop EXCEPT ![l] = "live"]
    /\ UNCHANGED <<status, retryCount, born, queue, seat, future, processing,
                   completed, phase, batch, stops, accepted, cancelled>>

\* stop(): clear _running and wait up to 30 s for the current task.
Stop ==
    /\ running' = FALSE
    /\ stops' = IF worker \in Loops THEN [stops EXCEPT ![worker] = "waiting"] ELSE stops
    /\ UNCHANGED <<status, retryCount, born, queue, seat, future, processing,
                   completed, phase, worker, loop, batch, accepted, cancelled>>

\* The task stop() waits for has ended in time.
StopReturns(l) ==
    /\ stops[l] = "waiting"
    /\ loop[l] = "ended"
    /\ stops' = [stops EXCEPT ![l] = "none"]
    /\ UNCHANGED <<status, retryCount, born, queue, seat, future, processing,
                   completed, phase, running, worker, loop, batch, accepted, cancelled>>

\* A cancelled task takes the gather and every e-mail task under it along:
\* CancelledError is no Exception, so only the finally clause of
\* _process_email runs.  A send cut short may have reached the provider.
CancelTask(l) ==
    /\ loop' = IF loop[l] = "live" THEN [loop EXCEPT ![l] = "ended"] ELSE loop
    /\ \E reached \in SUBSET {e \in batch[l] : phase[e] = "sending"} :
        accepted' = [e \in Emails |-> IF e \in reached THEN accepted[e] + 1 ELSE accepted[e]]
    /\ processing' = processing \ batch[l]
    /\ completed' = completed \cup batch[l]
    /\ phase' = [e \in Emails |-> IF e \in batch[l] THEN "idle" ELSE phase[e]]
    /\ batch' = [batch EXCEPT ![l] = {}]

\* asyncio.wait_for() gives up after 30 s and cancels the task it waited for.
StopTimesOut(l) ==
    /\ stops[l] = "waiting"
    /\ loop[l] = "live"
    /\ CancelTask(l)
    /\ stops' = [stops EXCEPT ![l] = "timed_out"]
    /\ UNCHANGED <<status, retryCount, born, queue, seat, future, running, worker, cancelled>>

\* The handler of that TimeoutError cancels _worker_task as it is then.
StopCancelsWorker(l) ==
    /\ stops[l] = "timed_out"
    /\ CancelTask(worker)
    /\ stops' = [stops EXCEPT ![l] = "none"]
    /\ UNCHANGED <<status, retryCount, born, queue, seat, future, running, worker, cancelled>>

\* _get_next_batch(): the first e-mails in queue order that are due, as many as
\* slots are free.
Outranks(a, b) == \/ Priority[a] > Priority[b]
                  \/ Priority[a] = Priority[b] /\ born[a] < born[b]
FaultyBefore(a, b) == born[a] < born[b]   \* first come, first served
Before(a, b) == \/ seat[a] < seat[b]
                \/ seat[a] = seat[b] /\ Outranks(a, b)
Due == queue \ future
FaultyLimit ==   \* as if nothing was in work yet
    Min({MaxConcurrent, BatchSize, Cardinality(Due)})
Limit == LET slots == IF Cardinality(processing) < MaxConcurrent
                      THEN MaxConcurrent - Cardinality(processing) ELSE 0
         IN  Min({slots, BatchSize, Cardinality(Due)})
NextBatch(B) == /\ B \subseteq Due
                /\ Cardinality(B) = Limit
                /\ \A b \in B, d \in Due \ B : Before(b, d)

\* One round of _process_loop, once the gather of the round before is done.
TakeBatch(l) ==
    /\ loop[l] = "live"
    /\ batch[l] = {}
    /\ running
    /\ \E B \in SUBSET Due :
        /\ B # {}
        /\ NextBatch(B)
        /\ status' = [e \in Emails |-> IF e \in B THEN "processing" ELSE status[e]]
        /\ processing' = processing \cup B
        /\ queue' = queue \ B
        /\ seat' = [e \in Emails |-> IF e \in B THEN 0 ELSE seat[e]]
        /\ batch' = [batch EXCEPT ![l] = B]
        /\ phase' = [e \in Emails |-> IF e \in B THEN "token" ELSE phase[e]]
    /\ UNCHANGED <<retryCount, born, future, completed, running, worker, loop,
                   stops, accepted, cancelled>>

LoopEnds(l) ==
    /\ loop[l] = "live"
    /\ batch[l] = {}
    /\ ~running
    /\ loop' = [loop EXCEPT ![l] = "ended"]
    /\ UNCHANGED <<status, retryCount, born, queue, seat, future, processing,
                   completed, phase, running, worker, batch, stops, accepted, cancelled>>

-----------------------------------------------------------------------------
(* The task of one e-mail. *)

\* wait_for_token() returns and provider.send() is called.
BeginSend(e) ==
    /\ phase[e] = "token"
    /\ phase' = [phase EXCEPT ![e] = "sending"]
    /\ UNCHANGED <<status, retryCount, born, queue, seat, future, processing,
                   completed, running, worker, loop, batch, stops, accepted, cancelled>>

FaultyLeave(e) ==   \* the slot is not given back
    /\ UNCHANGED processing
    /\ completed' = completed \cup {e}
    /\ phase' = [phase EXCEPT ![e] = "idle"]
    /\ batch' = [l \in Loops |-> batch[l] \ {e}]

\* The finally clause: out of _processing, into _completed, and the task is over.
Leave(e) ==
    /\ processing' = processing \ {e}
    /\ completed' = completed \cup {e}
    /\ phase' = [phase EXCEPT ![e] = "idle"]
    /\ batch' = [l \in Loops |-> batch[l] \ {e}]

Sent(e) ==
    /\ phase[e] = "sending"
    /\ accepted' = [accepted EXCEPT ![e] = @ + 1]
    /\ status' = [status EXCEPT ![e] = "sent"]
    /\ Leave(e)
    /\ UNCHANGED <<retryCount, born, queue, seat, future, running, worker, loop,
                   stops, cancelled>>

FaultyHandleFailure(e) ==   \* the first failure is the last
    /\ retryCount' = [retryCount EXCEPT ![e] = @ + 1]
    /\ status' = [status EXCEPT ![e] = "failed"]
    /\ UNCHANGED <<queue, seat, future>>

FaultyMayRetry(e) == retryCount[e] + 1 <= MaxRetries[e]   \* one attempt too many

\* _handle_failure(): put back at the end of _queue while attempts are left.
MayRetry(e) == retryCount[e] + 1 < MaxRetries[e]
HandleFailure(e) ==
    /\ retryCount' = [retryCount EXCEPT ![e] = @ + 1]
    /\ IF MayRetry(e)
       THEN /\ status' = [status EXCEPT ![e] = "retry_scheduled"]
            /\ queue' = queue \cup {e}
            /\ seat' = [seat EXCEPT ![e] = 1 + Max({0} \cup {seat[f] : f \in queue})]
            /\ future' = future \cup {e}
       ELSE /\ status' = [status EXCEPT ![e] = "max_retries_exceeded"]
            /\ UNCHANGED <<queue, seat, future>>

\* The provider refuses, or raises; in the second case it may have taken the
\* message before the answer was lost.
Failed(e) ==
    /\ phase[e] = "sending"
    /\ \E n \in {0, 1} : accepted' = [accepted EXCEPT ![e] = @ + n]
    /\ HandleFailure(e)
    /\ Leave(e)
    /\ UNCHANGED <<born, running, worker, loop, stops, cancelled>>

-----------------------------------------------------------------------------
Next ==
    \/ \E e \in Emails, scheduled \in BOOLEAN : Enqueue(e, scheduled)
    \/ \E e \in Emails : Cancel(e)
    \/ \E cutoff \in 1..(Cardinality(Emails) + 1) : CleanUp(cutoff)
    \/ \E e \in Emails : ComesDue(e)
    \/ Start
    \/ Stop
    \/ \E l \in Loops : StopReturns(l)
    \/ \E l \in Loops : StopTimesOut(l)
    \/ \E l \in Loops : StopCancelsWorker(l)
    \/ \E l \in Loops : TakeBatch(l)
    \/ \E l \in Loops : LoopEnds(l)
    \/ \E e \in Emails : BeginSend(e)
    \/ \E e \in Emails : Sent(e)
    \/ \E e \in Emails : Failed(e)

Spec == Init /\ [][Next]_vars

\* The event loop runs every ready task, the clock advances, and a provider
\* call ends (the HTTP and SMTP clients have timeouts).
Fairness ==
    /\ \A e \in Emails : /\ WF_vars(ComesDue(e))
                         /\ WF_vars(BeginSend(e))
                         /\ WF_vars(Sent(e) \/ Failed(e))
    /\ \A l \in Loops : /\ WF_vars(TakeBatch(l))
                        /\ WF_vars(LoopEnds(l))
                        /\ WF_vars(StopReturns(l) \/ StopTimesOut(l))
                        /\ WF_vars(StopCancelsWorker(l))

-----------------------------------------------------------------------------
(* Properties. *)

\* The slots of _get_next_batch hold across loops: even when a restart leaves
\* two processing loops alive, no more than max_concurrent e-mails are in work.
SlotsRespected == Cardinality(processing) <= MaxConcurrent

\* The provider takes an e-mail at most max_retries times, whatever answers are
\* lost, retried or cut short by stop().
AcceptedBounded == \A e \in Emails : accepted[e] <= MaxRetries[e]

\* An e-mail handed to enqueue() and not cancelled is never forgotten: it waits
\* in _queue, or a task works on it, or it has its final status.  The only way
\* out is a task cancelled by stop(), which leaves it "processing" for ever.
Abandoned(e) == status[e] = "processing" /\ phase[e] = "idle"
Forgotten(e) == /\ status[e] # "absent"
                /\ e \notin queue \cup processing \cup cancelled
                /\ status[e] \notin Terminal
NoneForgotten == \A e \in Emails : Forgotten(e) => Abandoned(e)

\* An e-mail is in at most one of the hands that could send it: the queue or
\* one gather of one loop, and a finished or cancelled one is in none.
SingleHolder ==
    \A e \in Emails :
        /\ \A k, l \in Loops : e \in batch[k] /\ e \in batch[l] => k = l
        /\ e \in processing <=> \E l \in Loops : e \in batch[l]
        /\ e \in queue => e \notin processing
        /\ status[e] \in Terminal \/ e \in cancelled => e \notin queue \cup processing

\* First attempts leave the queue in the order of QueuedEmail.__lt__: of two
\* due e-mails that were never tried, the one that outranks goes first.
FirstTriesInOrder ==
    [][\A a, b \in Due : /\ retryCount[a] = 0 /\ retryCount[b] = 0
                          /\ Outranks(a, b)
                          /\ b \in processing'
                         => a \notin queue']_vars

\* After start() there is a task that processes the queue as long as _running
\* says so.
RunningHasWorker == running => \E l \in Loops : loop[l] = "live"

\* Every e-mail handed over is sent, given up, cancelled or abandoned by a
\* stop(), unless the processor is left without a task.
Settles ==
    \A e \in Emails :
        status[e] # "absent" ~> \/ status[e] \in Terminal \/ e \in cancelled \/ Abandoned(e)
                               \/ \A l \in Loops : loop[l] # "live"

\* The promise to callers, and how this state realises it.
Outcome(e) == CASE status[e] = "absent" -> "absent"
                [] status[e] = "sent" -> "sent"
                [] status[e] = "max_retries_exceeded" -> "failed"
                [] Abandoned(e) -> "abandoned"
                [] e \in cancelled -> "cancelled"
                [] OTHER -> "open"

Promise == INSTANCE MailPromise WITH outcome <- [e \in Emails |-> Outcome(e)]

\* The queue implements MailPromise: one final outcome per e-mail, and the
\* provider is never asked again after it.
KeepsPromise == Promise!Spec
=============================================================================
