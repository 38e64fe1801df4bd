# TLA+ models of embrTimeOff

This directory holds TLA+ models of the employee time-off service in `src/`,
the TLC configurations that check them on small instances, and TLAPS proofs of
what holds for every instance. `PROJECT.json` is the machine-readable index:
components, runs, mutants (mistakes each property must notice), the map from
definitions to source lines, findings, hazards and theorems.

    tlc -config MCEmailQueue_queue.cfg MCEmailQueue.tla     # one run
    tlapm EmailQueueProofs.tla                              # one proof module

Paths below are under `src/src/`.

## 1. The system

A FastAPI application (`main.py`, some 50 routers under `api/`) over SQLAlchemy
and PostgreSQL, with Redis for sessions and cache, Celery for background tasks,
several subsystems that live in the memory of one process (the e-mail queue,
webhooks, import jobs, update requests, stored documents, the audit log), and a
React front end.

Facts that decide what can interleave:

* *Inside one process* everything runs on one event loop. Handlers are
  `async def`, but the database code in them is synchronous, so a handler
  without an `await` runs as a whole. What interleaves is code on the two sides
  of an `await` (the e-mail queue's tasks, a webhook test call and its
  deliveries) and threads (the cleanup of stored documents, callers of the audit
  log).
* *Several processes* share the database (the restoration procedures,
  `infrastructure/backup/RESTORATION_PROCEDURES.md:129`, restart "application
  pods/instances"). `get_db` (`database/database.py:96`) gives each request a
  session of its own with `autoflush=False` and `expire_on_commit=False`; there is no
  `with_for_update` and no version column anywhere. So a handler's reads and its
  commit are separate steps, a row stays in the session as it was first read (the
  identity map), and the UPDATE names the primary key alone and only the columns
  whose value differs from the one read.
* *In the browser* a callback works with the values of the render it was made
  in, effects run after the render, and answers of the server come in any order.

### Inventory

| Component | State | Operations | Hard behaviours | What makes it correct |
|---|---|---|---|---|
| E-mail queue `services/email/queue_manager.py` | `_queue`, `_processing`, `_completed`, `_running`, `_worker_task` | enqueue, cancel, start, stop, loop, task per e-mail, retry, cleanup | two loops after a restart, stop's timeout, lost answers, retry racing the `finally` | nothing lost or in two hands, bounded attempts, slots, priority, everything settles |
| E-mail rate limiter (same file) | tokens, last_update | acquire, wait_for_token | a token taken while another task slept for it | the rate |
| Approval management `api/approval_management.py` | `time_off_request` rows | approve, deny | check and commit apart, crash before the audit entry | a request is decided once and the decision is reported |
| Envelopes `services/envelope_service.py` | envelope, recipients, audit trail | create, send, change status | check and commit apart, rollback | legal transitions, the trail is the history |
| Webhooks `infrastructure/webhooks/`, `api/webhooks.py` | endpoints, deliveries, statistics | register, update, delete, test, dispatch, retry | configuration saved before an await and written back after it; shared semaphore | subscriptions right, every call answered |
| Reporting lines `services/employee_service.py`, `employee_org_service.py`, `api/admin_org_structure.py` | `manager_id`, active flag | hire, update, terminate, move, org chart | a walk that reads row by row while others write; writers that do not walk | no cycles, active managers, requests end |
| Departments `api/admin_org_structure.py` | `parent_department_id` | create, update | two moves checked before either is written | a tree |
| Profile updates `api/employee_profile_update.py` | a row; tickets in one process | update, submit, review, cancel | commit before the ticket is marked, restarts, other processes | effect and decision agree |
| Time-off workflow `api/time_off_approval.py` | request, level, approver, audit log in memory | decide, escalate | failures half-way, repeated escalation | the trail leads to the status |
| Employee import `services/employee_import_service.py` | job, rows, employees | validate, process | a failing flush in the middle, duplicate ids | what committed runs did is counted once, partial imports |
| Import execution `api/employee_import_execute.py`, `_upload.py` | uploaded file, job and token per worker | upload, execute, roll back, cancel | executed again, batches of a failed run, restart | a rollback reverts what was kept |
| Redis sessions `infrastructure/redis/caching_service.py` | a key per session, a hash per user | create, update, touch, delete, delete all | command by command, two expiries and many lifetimes, swallowed errors | deleted stays deleted, log-out finds all |
| Work schedules `services/work_schedule_service.py` | a row | create, update, deactivate | partial updates checked against the row read; hours rounded after the check | labour law |
| Policies `api/policy_management.py`, `services/policy_engine_service.py` | row, version rows | create, update, archive, tier look-up | version from a stale read; neighbours compared, all looked up | versions are the history, one tier holds |
| Time-off requests `api/time_off_requests.py` | list and counter per worker | create | several workers, restarts, days at the ends | no day booked twice |
| Document storage `services/document_generation/file_storage_manager.py` | records in memory, contents outside | store, retrieve, copy, delete, keep, cleanup | ids chosen under the lock and deleted later; two cleanup threads | permanent files stay, records and contents together |
| Audit log `services/comprehensive_audit_service.py` | entries, last checksum | log, query, report | threads between stamp, signature and append | the chain verifies |
| Front end `components/`, `hooks/` | React state, refs, storage, cache | edit, save, load, upload, navigate | stale closures, delayed saves, answers out of order | what is typed is kept, what is asked is shown |
| Not modelled (section 5) | | | | |

Interactions. `api/email.py` calls the queue through `EmailService` (enqueue at
`email_service.py:224`, start and stop at 482-490); the queue's tasks call the
rate limiter and then a provider. `api/webhooks.py` is the only caller of
`WebhookService.dispatch`. Handlers of different processes meet only in database
rows: in `ReportingLines` three services write the same column and are modelled
together; the time-off workflow reads the reporting line, which therefore changes
under it (`Reorganize`). The import service, the employee service and a second
import meet in the unique employee id (`Hire`, `TakeLock`). The remaining
components share no state, which is why they can be checked side by side.

### Premises about code that does not run as it stands

The models describe what the code does, exceptions included. Three premises:

1. `models/time_off_request.py:125` names a relationship `time_off_requests` that
   `Employee` does not have, so SQLAlchemy cannot configure the mappers at all.
   The models describe the handlers with that one mapping completed.
2. `UserRole.HR` does not exist (`utils/auth.py:13`). Whatever evaluates it raises
   AttributeError: the override in approvals (`approval_management.py:449`, 589) and
   in the workflow (`time_off_approval.py:502`), requests for other people and all
   reading of requests (`time_off_requests.py:452`, 623, 693), and more (section 5).
   These paths are absent from the models because they change nothing.
3. The routers of webhooks and audit logs are not mounted in `main.py`; nothing
   starts the cleanup of stored documents or calls `move_to_permanent`; of the front
   end, `App.jsx` imports the directory, the search and the profile view. The other
   modelled parts are written to be used that way and are checked as such.

## 2. Modules

| Module | What it is |
|---|---|
| `EmailQueue`, `MailPromise` | the queue, its loops and tasks; what it promises its callers |
| `TokenBucket` | the rate limiter |
| `ApprovalManagement` | approve and deny on a shared database |
| `Envelope` | envelopes, recipients and trail on a shared database |
| `Webhooks` | endpoints, test calls, deliveries |
| `ReportingLines` | who reports to whom: three writers, two walks |
| `DepartmentTree` | parents of departments |
| `ProfileUpdates` | a profile and the requests to change it |
| `TimeOffApproval` | decisions and escalations of one request |
| `EmployeeImport`, `ImportExecution` | the rows of an import; uploads, executions and rollbacks |
| `SessionStore` | Redis sessions of a user |
| `WorkSchedules` | a schedule and labour law |
| `Policies` | a policy, its versions and tenure tiers |
| `TimeOffRequests` | requests in the memory of each worker |
| `FileStorage` | stored documents and their cleanup |
| `AuditChain` | the chained audit log and its verification |
| `FormDraft`, `FormSteps`, `FileUploader`, `ProfileEditor`, `Directory`, `SearchBox`, `DirectoryCache` | the front end's state |
| `Records`, `Services` | thirteen and ten of the components side by side, those of the database and of memory, and those of services and pages |
| `Processes` | the processes that run the application, a constant of the modules they share |
| `EmailQueueProofs`, `ApprovalManagementProofs`, `ReportingLinesProofs`, `SessionStoreProofs` | theorems about the module of that name |
| `RowsProofs` | theorems about `Envelope`, `DepartmentTree`, `WorkSchedules`, `Policies` and `EmployeeImport` |
| `MemoryProofs` | theorems about `ProfileUpdates`, `TimeOffApproval`, `TimeOffRequests`, `ImportExecution` and `TokenBucket` |
| `ServicesProofs` | theorems about each component of `Services`, and about `Services` |
| `RecordsProofs` | theorems about `Records`, from those of its components |
| `MCAnswers` | the e-mail queue, the webhooks and the reporting lines side by side, with their fairness |
| `MC...` | instances for TLC, with their `.cfg` files |

Operators named `Faulty...` are mistakes a maintainer could make in the
definition that follows them; no specification uses them. They are there to
show that a property would notice. Variables called history in a module's
declarations have no counterpart in the code; no guard reads them.

### EmailQueue

A step is the code between two awaits. `queue` holds the members of the deque
and `seat` their order: `enqueue()` sorts the whole deque (seat 0, order by
`Before`), a retry is appended behind it (seats 1, 2, ...). `phase[e]` says where
the `_process_email` task of e is suspended: before its token, or in
`provider.send()`. `loop[l]` is the l-th task made by `start()` and `batch[l]`
the e-mails its `gather` waits for; `worker` is `_worker_task`. `stops[l]` is a
`stop()` that waits for loop l.

| Action | Code |
|---|---|
| `Enqueue`, `Cancel`, `CleanUp` | `enqueue` and `enqueue_batch`, `cancel`, `cleanup_old_entries`; each under `_lock` |
| `ComesDue` | the clock reaches `scheduled_at` or `next_retry_at` |
| `Start` | `start()`: a no-op while running |
| `Stop`, `StopReturns`, `StopTimesOut`, `StopCancelsWorker` | `stop()`: clear the flag and wait; the loop ends in time; or `wait_for` gives up, cancels the task it waited for, and the handler cancels `_worker_task` as it then is |
| `TakeBatch`, `LoopEnds` | a round of `_process_loop` with `_get_next_batch`; the loop's end |
| `BeginSend`, `Sent`, `Failed` | the e-mail's task: token, answer of the provider, `_handle_failure`, and the `finally` clause in the same step, as there is no await in between |

A provider is the environment: it accepts, it refuses, or it raises, and in that
case may have accepted. A cancelled task takes its `gather` and the tasks under
it along; CancelledError is not an `Exception`, so `_handle_failure` does not run
and the e-mail stays "processing". The rate limiter appears only as the step
`BeginSend`; how long it waits is the subject of `TokenBucket`. Two
simplifications: a cancelled e-mail task has taken its first step (before it, it
would not reach its `finally` clause), and several `stop()` calls that wait for
the same loop count as one. `stop(wait=False)` has no caller.

`MailPromise` has no queue, loops or clock: an e-mail is open until it gets one
outcome (sent, failed, cancelled, or abandoned by a stop), and is accepted by the
provider at most `max_retries` times and never after its outcome. `KeepsPromise`
is the refinement, with `Outcome` as the mapping.

### TokenBucket

Time is in ticks; the bucket is in units of a tick's refill, and a token is
`Grain` units, so that all values are integers. `TakeNow` and `FallAsleep` are the
two results of the first `acquire()` in `wait_for_token()`; `WakeUp` is the second,
whose result the code ignores.

### Handlers on the database: ApprovalManagement, Envelope, ReportingLines, DepartmentTree, WorkSchedules, Policies

Each has the committed rows and, per process, the handler at work with what it
read. A handler is cut where it reads and where it commits; a crash or rollback
drops it.

* `ApprovalManagement`: `Approve` and `Deny` are the handlers up to the commit,
  `Commit` the UPDATE, `Answer` what follows it, `Crash` the death of a process.
  `HasAuthority` is the chain of `validate_approval_authority`. Two facts of the code
  show: `get_team_conflicts` always reports a conflict, so an approval needs
  `acknowledged`, and a caller without an employee id acts as a fixed manager.
* `Envelope`: `CreateEnvelope` is a whole transaction, `LoadEnvelope` the reads and
  checks of `update_envelope_status`, `CommitEnvelope` its flush and commit (recipients and trail
  included), `RollBack` the failure of either.
* `ReportingLines`: `seen[p]` is the identity map of process p. `StartMove` makes the
  reads of `update_reporting_relationship()` before the walk, `Climb` reads one more
  manager of `check_circular_reporting_dependency`, `RefuseMove` and `CommitMove` end
  it. `UpdateManager` is PUT `/employees/{id}`, which does not walk. `StartChart`,
  `ChainUp` and `ChartDone` are the walk of the org chart, which has no visited set;
  a process that runs it does nothing else, as nothing in it awaits.
* `DepartmentTree`: `StartChange`, `WalkUp`, `CommitChange` in the same way. The level
  of a new department (`organizational_level or 2`, whatever the parent's) and
  `is_active` are left out.
* `WorkSchedules`: hours are thousandths of an hour. The law is checked with them as
  they come, a float in the code, and `Stored` is what the column `Numeric(4, 2)` makes of
  them. `Sent` is the set of columns that differ from those read, `Given`
  the value the law is checked with; a new break of 0 counts as not given there, so
  that the old break is checked while 0 is stored.
* `Policies`: the snapshot of a version is the request, not the policy. `Evaluate` is
  the AttributeError at `Employee.status` after the commit of a new policy. An
  update never validates tiers and also changes an archived policy; a request with
  dates fails in `json.dumps` and is rolled back.

### State in one process: ProfileUpdates, TimeOffApproval, TimeOffRequests, ImportExecution, EmployeeImport

* `ProfileUpdates`: tickets live in the process that took them, the row in the
  database. `StartReview` and `CommitReview` are the two sides of the review's read;
  `Restart` empties a process. `update_my_profile` creates no tickets: the fields that
  would need approval are not writable for those who could ask.
* `TimeOffApproval`: one request. `get_next_approver()` is always None, so a decision
  is final; an escalation with `fails` is the failing look-up after the update and
  before the audit entry. An explicit level may lower 3 to 2.
* `TimeOffRequests`: each worker has a list and a counter of its own; `Restart` empties
  them.
* `ImportExecution`: no handler waits, so each is one step, and a job "executing" is
  never seen: cancel cannot meet it. Rows are simulated by the code itself. The
  `/rollback` of `employee_import_errors.py` has the same path as the one modelled and is
  registered later.
* `EmployeeImport`: `ValidRow` adds an employee and queues its `ImportRow`, whose source
  data hold a date that JSONB refuses, so that the next flush fails; after a failed
  flush the except branch reads an expired attribute of the job, which raises, and
  `get_db` rolls everything back. A job is completed only by a file without a valid
  row; `allow_partial_import` makes no difference. `Finish` writes the counters of the
  run, which began with those the job had when the run read it. The history `counted` is
  the number of rows in the files of committed runs, the field `since` of a run is what it
  was when the run read the job, and `missed` says that another run committed in between.

### SessionStore, FileStorage, AuditChain

* `SessionStore`: one action per Redis command of a method (`Create`, `Track`,
  `ExpireIndex` are the three of `create_session`), time in ticks, any command may
  fail. A session is created for `default_ttl` or for a time of its own, shorter or
  longer (the class lists 7 days of "remember me"); the index gets twice that time, and an update
  gives the session the longer of `default_ttl` and what is left. Errors do not end
  every method: `get_session` answers None, so that `delete_session` deletes without
  knowing whose session it was (`known`), and `delete_session` answers False, so that the
  loop of `delete_user_sessions` goes on and deletes the index with the session still
  there (`FailsInLoop`). `listed` is what a call of that method found in the index.
* `FileStorage`: a step ends where the lock is released or a content is touched.
  `Look`, `Judge`, `Read`, `Discard` are `retrieve` and `copy`; `Collect`, `Clean`,
  `CleanContent` the cleanup. `StopWorker` gives up after five seconds of a sleep of
  an hour, so that a later start makes a second thread and revives the first. `Life` is
  what `store` makes of `ttl_hours`: None is the default, 0 is for ever. `unstated` are the
  files stored with None.
* `AuditChain`: `Create`, `Sign`, `Link`, `StoreEntry` are the four places of `log()` at which
  another thread may run; `Reported` is the order of `query()`, newest first and stably:
  an entry has the place after those that are `Ahead` of it, and a report is the first
  page of 10000.

### The front end

* `FormDraft` (`useFormPersistence`): `form` is what is typed (`data`), `ref` follows it only after a render; `timer`
  is the delayed save; `handle` stays set when the timer is cleared, so that leaving
  the form saves again, also after `clear()` (the header's "Clear saved data on
  submit", `hooks/useFormPersistence.js:7`, is then undone).
* `FormSteps` (`MultiStepForm`): `pending` holds the callbacks that await a validation,
  each with the step, data and visited steps of its render.
* `FileUploader` (`S3FileUploader`): `delayed[f]` is the list the delayed `uploadFile(f)`
  knows from its closure.
* `ProfileEditor` (`useEmployeeProfile`): `saves` are the calls of `saveProfile()` under
  way, with the changes and the original of their render; `versionRef` is a ref and always
  the present one. `Visible` is what an answer shows of a profile's version: the server
  sends `updated_at` to administrators and HR only (`versioned`, either way from the
  start); for others it is undefined (`NoVersion`).
* `Directory` (`EmployeeDirectory`): `Effects` is the fetch of a render and the return to
  page 1; `AnswerPage` takes any request under way.
* `SearchBox` (`EmployeeSearch`): `Debounce` is the timer of `useDebounce` and the effect
  that follows it. `suggestions` names the query whose list is shown and `Hits` says how
  long that list is, which is all that `index`, the highlight, depends on. `Execute` is
  `executeSearch()` with the filters of its render, `Repeat` a recent or saved search,
  which replaces them in the same event.
* `DirectoryCache` (`useEmployeeDirectory`): `Load` is the effect of a new view or page;
  `Hit` answers from the cache and leaves the request under way alone, `Send` aborts it,
  and `AbortedEnds` is the `finally` clause of the aborted one.

## 3. What the runs show

| Run | Properties | Instance |
|---|---|---|
| `email_queue` | `TypeOK`, `AcceptedBounded`, `NoneForgotten`, `FirstTriesInOrder` | 3 e-mails of 3 priorities, attempts 2/2/1, 2 slots, 1 start |
| `answers` | `SlotsRespected`, `SingleHolder`, `KeepsPromise`, `Settles`; `CallsAnswered`; `Answered` | with fairness, three components side by side: 2 e-mails, 2 attempts, 1 slot, 2 starts; 1 endpoint, 2 test calls, 2 attempts, 1 slot; 2 employees, 2 processes, 2 commits after hiring |
| `records` | 21 properties of 13 components | below |
| `services` | 9 properties of 10 components | below |
| `email_worker` | `RunningHasWorker`: violated | 2 e-mails, 2 starts |
| `token_rate` | `SentWithinRate`: violated | 3 tasks, a bucket of 2 tokens, 10 ticks |
| `approvals_race` | `DecidedOnce`: violated | 2 processes, 2 requests |
| `import_partial` | `ValidRowsImported`: violated | 1 process, 2 ids, files of up to 2 rows |
| `form_submit` | `SubmittedIsValid`: violated | 3 steps, 2 callbacks at once |
| `uploader` | `UploadingIsUnderWay`: violated | 2 files |
| `profile_conflict` | `FindsConflicts`: violated | as in `services` below |
| `storage_ttl` | `StoredForGood`: violated | 1 file, 1 cleanup thread |

`Records`, `Services` and `MCAnswers` hold components that share nothing. Checking them
as one product would multiply their states to no purpose; so a behaviour chooses a
component at the start and moves it alone. (In `MCAnswers` the others satisfy their
fairness all the same: no fair action is enabled where they begin.) Every property of a component appears in
the run under its own name, and what TLC visits is the sum of the instances. That
nothing is lost is a theorem for `Records` and `Services` (section 4): a behaviour of the composition is
one of every component's own specification. All three extend their modules, whose
`Init`, `Next` and `Spec` therefore carry the component's name (`EnvelopeInit`,
`WebhookInit`, ...): what the proofs are about is the very definition the run checks.

| `records` | Instance | What is shown |
|---|---|---|
| TokenBucket | 3 tasks, 2 1/3 tokens, 10 ticks | `SentWithinShares`: the burst, plus the rate once per waiting task, plus what the capacity is more than whole tokens once for each other task |
| ApprovalManagement | 2 processes, 2 requests, 3 employees in a chain | `StampsCoverAnswers`, `DecidedIsAudited`, `TwiceOnlyIfRaced` |
| Envelope | 2 processes, 2 recipients in 2 orders, trails of 6 | `TrailIsHistory`, `LegalUnlessRaced` |
| ProfileUpdates | 2 processes, 1 field, 2 values, 2 tickets | `DecisionsMatchEffects`: a ticket still held was applied once if it is approved and otherwise not at all; `ApprovedValueStands`: the commit of a review nobody overtook leaves the requested value in the row |
| TimeOffApproval | 2 employees above the requester, trails of 4 | `TrailLeadsToStatus`: no gap in the trail except behind a failed look-up |
| EmployeeImport | 2 processes, 2 ids, files of up to 2 rows | `RowsAreCounted`: over runs that overlap, fail, die and are repeated the job counts each row of a committed run once and none of a run rolled back, unless a run commits counters it had read before another's commit |
| SessionStore | 2 processes, 2 sessions, life of 2 ticks or the default of 1 | `DeletedStaysDeleted` unless an update had read it; `LiveIsTracked` unless the session was written back, the index was made to expire before it by a shorter one, or a log-out listed it and could not delete it, or took the index away without having listed it |
| WorkSchedules | 2 processes, 29.999 or 44 hours, 4 or 5 days, breaks of 0 or 60 | `StaysLawful` unless overtaken, a break of 0, or hours just under 6 a day rounded to 6 |
| DepartmentTree | 2 processes, 3 departments | `CyclesNeedARace` |
| Policies | 2 processes, 3 versions, 5 lists of tiers | `VersionsAreHistory` unless two updates read the same version; `OneTierHolds` unless the tiers came unchecked or have an early open end |
| TimeOffRequests | 2 workers, 2 employees, 4 days, 2 requests | `BookedOnce` within a worker and one start of it |
| ImportExecution | 2 workers, 4 files, 3 runs, batches of 1 or 2 | `RevertsWhatWasKept` except for failed runs |
| ReportingLines | 2 processes, 3 employees, 2 commits after hiring | `CyclesAreExplained`; `MovedUnderActive` for a move nobody overtook |

| `services` | Instance | What is shown |
|---|---|---|
| Webhooks | 2 endpoints, 2 calls, 1 slot, 1 update | `RestoredUnlessDisturbed` |
| FormDraft | 2 fields, 3 changes | `DraftHoldsWhatWasTyped` with three exceptions |
| ProfileEditor | 1 field, 2 values, 3 versions, 1 save, 1 load, versions visible or not | `ChecksAreSound`: for a user who is sent versions; `profile_conflict` is the other half |
| Directory | 2 filters, 2 orders, 2 pages, 4 requests | `ShowsWhatIsAsked` unless an older answer came last |
| SearchBox | 3 queries with 0, 2 and 1 suggestions, 1 set of filters, 3 requests | `ShowsWhatIsAsked` unless an older answer came last or replaced filters were merged in; `EnterTakesAListed` unless the highlight was set while another list was to come, or outlived its query |
| DirectoryCache | 2 views of 2 pages and 1 | `ShowsWhatIsAsked` unless the cache answered while a request was under way |
| FormSteps, FileUploader | 3 steps; 2 files | types only; the rest are the runs `form_submit` and `uploader` |
| FileStorage | 2 files, 2 cleanup threads | `PermanentStays`, `RecordsHaveContents` |
| AuditChain | 2 threads, 4 entries, 3 instants | `ReportsReadBackwards` |

`TypesOK` of `records` and of `services` is the conjunction of the components' type invariants.

Many of these properties have an exception written into them. It is found by
checking the property without it: the counterexample is a race or a failure of
the code, and the exception names exactly that history. So `CyclesAreExplained`
says where "Prevents circular reporting dependencies" (docstring of
`update_reporting_relationship`) fails: only through the PUT that does not check, and through
a move that another write overtook; and `ReportsReadBackwards` says when a
compliance report calls an intact log broken: whenever it covers two instants.

Why the bounds are enough. *E-mail*: three e-mails are the least at which a batch
of two leaves someone out, a retry is seated between others, and one e-mail has
no retry at all; two starts are the least at which a `stop()` meets another task
than the one it waits for; one slot makes the two loops compete. *Token bucket*:
three tasks can all sleep for one token; ten ticks are more than three refills.
*Handlers on the database*: a race is between two handlers; a third would be one
more that overtakes. Three employees or departments make cycles of length one to
three, of which one is made by a single unchecked write and one by two
checked ones, and two commits are as many as those take; a walk that never ends
needs a cycle of one or two, so that `answers` has two employees. *Lists and files*: the
instances contain at least one case on either side of each comparison (tiers in and
out of order, with a gap, an overlap and an open end; batches that end with and
without the failing row). *Front end*: two changes in one event, two answers out
of order, a second list of suggestions that is shorter than the first, an upload that is added while another is listed. Symmetry is used where
the members are interchangeable and only safety is checked. Deadlock is not
checked: each system may stop when everything is decided, sent or at its bound.

Fairness. `EmailQueue` and `Webhooks` assume that the event loop runs what is
ready, that time passes, and that a call of a provider or a post ends: the
clients have timeouts. `ReportingLines` assumes that a process goes on with the
request it has (`WF_lineVars(Work(p))`). Nothing is assumed of the callers: nobody need
call `start`, so `Settles` allows for a system with no live loop, which
is also where the run `email_worker` leads.

### What the code does not do

Eight runs end in a counterexample to something the code's own comments say:

1. `RunningHasWorker` (`queue_manager.py:323`). `stop()` waits; meanwhile `start()`
   makes a new task; after 30 s the old task is cancelled, and the handler of the
   timeout cancels `_worker_task`, which is the new one. `_running` stays True, so
   `start()` refuses to make another.
2. `SentWithinRate` (`queue_manager.py:115`). Tasks that sleep for the same token all
   send when they wake. What holds is `SentWithinShares`: the rate once per
   task, for a bucket that holds at least one token. (At 2.5 e-mails per second, a
   capacity of two tokens and a half, each further task sends up to that half more.) At a rate below one per
   second `capacity` is below one token and even that is lost.
3. `DecidedOnce` (`approval_management.py:436`). Two processes decide the same
   request; both callers get a success. `TwiceOnlyIfRaced` is what holds.
4. `ValidRowsImported` (`employee_import_service.py:380`). One row whose flush fails
   takes the whole call down; of what is committed `RowsAreCounted` holds.
5. `SubmittedIsValid` (`MultiStepForm.jsx:172`). A step is left with data that were
   changed after their validation began, and only the last step is validated again.
6. `UploadingIsUnderWay` (`S3FileUploader.jsx:348`). The automatic upload looks for the
   file in the list of the render before, does not find it and returns, after having
   marked it as uploading; Retry is offered for failed files only.
7. `FindsConflicts` (`useEmployeeProfile.js:362`). The server sends `updated_at` neither to
   managers nor to employees (`utils/auth.py:44`), so that the hook compares undefined with
   undefined, finds no conflict and overwrites. `ChecksAreSound` is what holds, for the
   other roles.
8. `StoredForGood` (`file_storage_manager.py:175`). "None for permanent" says `store`, and
   gives such a file 24 hours; it is permanent with a `ttl_hours` of 0. `PermanentStays` is
   about those and about `move_to_permanent`.

Three more are stated inside passing properties: a terminal envelope may be left by
a race (`LegalUnlessRaced`; the table says "Terminal state",
`envelope_service.py:93`); a webhook test writes back saved events over an update
made meanwhile (`RestoredUnlessDisturbed`; "Restore original events",
`api/webhooks.py:358`); and 29.999 hours in 5 days are under 6 a day and pass without a
break, while the column stores 30.00, which need one (`StaysLawful`; "Validates labor
law compliance before creation.", `work_schedule_service.py:121`).

## 4. What is proved

`EmailQueueProofs` proves, for every finite set of e-mails, every priority, limit,
batch size and number of starts (`QueueAssumption`): `TypeOK`, `AcceptedBounded`,
`NoneForgotten`, `SingleHolder`, `SlotsRespected`, the action property
`FirstTriesInOrder` and the refinement `KeepsPromise`. The invariant `IInv` is needed because none of these is inductive
alone: that an e-mail is accepted at most `max_retries` times follows only from
what is known while it may still be tried (`accepted <= retryCount < MaxRetries`
in the queue or in work), and that it is in one hand only from the agreement of
`phase`, `processing` and the batches of all loops. `MaxOfNats` gives the facts
about the maximum of the seats. `BatchFits` says a batch has no more members than
free slots, which bounds the cardinality in `SlotsRespected`. For the refinement,
`StepKeepsPromise` maps each action to a step of the promise, e-mail by e-mail, or to
a stutter, using the invariant. The order of first attempts needs one fact more,
`FirstTriesAreSorted`: a retry is appended and an e-mail never tried is where the last
sort put it, so that between two of them the sort's order decides.

`ApprovalManagementProofs` proves, for any number of processes, requests and
employees (`ApprovalAssumption`): `TypeOK`, `StampsCoverAnswers`,
`DecidedIsAudited`, `TwiceOnlyIfRaced`. `ApprovalRowInv` adds what a handler may rely
on between its steps: a request it has loaded is still pending unless another
handler had it too, and after its commit its stamp is in the row.

`ReportingLinesProofs` proves, for any set of processes and any employees, and so for
cycles of any length (`ReportingAssumption`): `LinesTypeOK`, `CyclesAreExplained` and
`MovedUnderActive`. `LinesInv` adds that managers and what sessions hold of them are rows
(`RowsExist`), and that the walk of a move nobody overtook is true of the table
(`WalksAreTrue`): what its session holds is stored, and every employee it visited
reports to one it visited or to where it is. When the walk arrives at the top, the
visited set is closed except for its end and does not hold the employee
(`CommitCycles`); so a cycle through the new edge has a part in that set from which
no edge leaves, and that part is a cycle which was there before (`OtherCycles`).

`RowsProofs` is about rows that several processes read, check and write.

* *Envelopes* (any number of handlers, envelopes and recipients): `TrailIsHistory` and the
  action property `LegalUnlessRaced`. Both need that what a handler has loaded is
  still the status of the row, and the transition checked, unless two have had the
  envelope loaded at a time (`LoadsAreCurrent`, `TwoLoadsContend`).
* *Departments* (`DepartmentAssumption`: ids are positive numbers and no process is
  one). `DepartmentInv` adds that parents and what a request works with are rows
  (`DepartmentsExist`) and that the walk of a move nobody overtook has followed
  every edge from the new parent to where it is and has not met the department
  (`WalksFollowTree`). When the walk is at the top, the chain it has followed is closed
  except at the top and does not hold the department (`CommitChangeInv`): a cycle
  through the new edge would have a part in the chain, a cycle that was there before.
  Hence `CyclesNeedARace` for cycles of any length.
* *Work schedules* (any hours to the thousandth, days and breaks; `ScheduleAssumption`).
  What an update nobody overtook will make of the row has been checked (`EditsAreChecked`),
  and the lemma `CheckedIsLawful` shows that the check of what is sent or else
  stored is the law for the row that results, except for a break of 0, which counts
  as not given, and for the rounding. `RoundedIsLawful` says what rounding can do:
  the bounds of 10 hours a day and 48 a week are hundredths, which no lawful value is
  rounded beyond, and only what was under 6 hours a day and becomes 6 changes sides.
  Hence `StaysLawful`. Thousandths are enough to stand for a float, as rounding and law
  tell no more of it apart than on which side of a multiple of 0.005 it is.
* *Policies* (lists of tiers of any length, the bounds natural numbers).
  `VersionsAreHistory` needs that an update nobody overtook carries the number that
  comes next (`RevisionsFollow`). `OneTierHolds` rests on `ValidTiersAreDisjoint`:
  `validate_policy_config` compares each tier with the next by `min_years` only, while
  `calculate_tenure_tier` looks at all of them. `NextTier` finds, with the principle of
  the least number (`LeastNatural`), the tier that comes next after one before another;
  if the two overlap, so do these neighbours.
* *Employee import* (any ids, files of any length, any processes): `RowsAreCounted`. A
  run that will commit has counted its rows on top of what it read of the job, and
  that is still what the job says unless another has committed since (`SoundRun`,
  `SoundCount`). A run that has added an employee has an `ImportRow` queued that no later
  flush can send, so it never commits, and the job counts errors alone.

`MemoryProofs` is about what a process keeps in its memory.

* *Profile updates* (any pods, columns, values and tickets): `DecisionsMatchEffects` and
  the action property `ApprovedValueStands`. `ProfileInv` adds that a ticket is in one
  pod's memory, that what no pod has made was never applied, and that a ticket under
  review is pending and its row as it was read unless another commit came in between
  (`ReviewsArePending`).
* *Approval workflow* (any staff, trails of any length): `TrailLeadsToStatus`. `NoGaps` says
  the same entry by entry, and `PathSteps` that this is what the property, which
  puts the two ends of the trail around it, reads.
* *Time-off requests* (any requesters, days, workers and restarts): `BookedOnce`.
  `BooksHoldAccepted` ties the history to the memory: what the present start of a worker
  accepted is in its book, under its id, so `detect_conflicts` sees it.
* *Import execution* (any files, not empty): `RevertsWhatWasKept`. A job that has a token counts what
  the execution of that token kept, or that execution failed, and no rollback had the
  token before (`JobMatchesExecution`); no other worker has the token (`TokensApart`). That
  an execution that did not stop has seen every row, and one that stopped has a
  first bad row where it did, is `SeenRows` (with `LeastNumber` for the first one).
* *Rate limiter* (any finite set of tasks, any rate, any capacity; `BucketAssumption`):
  `SentWithinShares`. The bound itself is not inductive: what was sent is bounded only
  together with what can still be sent without a refill. `Surplus` counts that: the
  tokens in the bucket, one for every task whose sleep is over, and the remainder of
  the bucket once more for each other task, since all of them will sleep for the rest
  of the same token; one token less if all are awake to send and the bucket can pay
  one of them. `WithinShares` bounds the sum, and `SleepersWaitForAToken` says that a sleep ends
  when the bucket holds one token: a tick that ends sleeps is one that turns the
  remainder to 0 (`SurplusRefilled`), and so pays for those that wake.

`SessionStoreProofs` proves, for any processes and sessions, every `default_ttl` and
lifetimes below and above it (`SessionAssumption`), `DeletedStaysDeleted` and
`LiveIsTracked`, whichever commands fail. The first needs that
whoever will write a deleted session back overlapped the deletion
(`WritersOverlap`, `OnlyCreated`). The second needs that the index does not only hold a
session that is to be found but lives as long (`IndexOutlives`); that what
`delete_session` removes from the index was deleted before, and if it came back
since counts among the exceptions (`DeletedFirst`); and that of the sessions
`delete_user_sessions` has listed and passed those still alive are exceptions too
(`PassedAreExcused`), so that it may delete the index.

`ServicesProofs` is about the services and pages whose steps are cut at an await, a
thread switch or a render.

* *Webhooks* (any finite sets of endpoints and calls, any events): `RestoredUnlessDisturbed`.
  While a test call is out, the endpoint's events are not those its owner configured,
  so the property says nothing then; `SavedIsConfigured` does: what the call of an
  undisturbed endpoint saved is what is configured, and no other call holds it.
* *Stored documents* (any files and cleanup threads): `PermanentStays` and
  `RecordsHaveContents`. `StorageInv` adds the order the methods keep: a content goes
  after its record (`RecordsGoFirst`), an id handed out is nobody else's
  (`KnownFilesAreUsed`, `RegisteredIsNew`), and what a cleanup has chosen and was made
  permanent since is known to be lost (`ChosenAreDoomed`).
* *Form drafts* (any fields and contents): `DraftHoldsWhatWasTyped`, from
  `ShowsWhatWasTyped`, which says what the mounted form holds.
* *Profile editor* (any fields, values, number of saves and loads): `ChecksAreSound`, for a
  user who is sent versions. The check compares a version number and the property compares
  contents; between them
  stand `OneProfilePerVersion`, for all the profiles anybody holds (`Held`: the server,
  the cache, the editor, the loads and the saves), and `BasesAreSeen`.
* *Directory, search and cached directory* (any queries, filters, orders, pages, number of
  requests): `ShowsWhatIsAsked` for the three side by side, and
  `EnterTakesAListed`. An answer drops no other request, so what is shown last depends on
  the order of all answers; `Numbering` says that each request under way has a
  number of its own, not the newest answered. So the last request is either under
  way (`LastIsForWhatWasSeen` and its like) or the newest answered, and then any
  answer still to come is older and marked as such (`NumberingAnswered`). The
  highlight of the search box is within its list, or blind, or none
  (`HighlightIsListed`).
* *Form steps, uploader* (any steps and callbacks, any finite set of files): their types. What
  else their code promises is refuted by `form_submit` and `uploader`.
* *Audit log* (any threads, logs of any length, any number of instants): `ReportsReadBackwards`.
  As long as no two calls of `log()` overlapped, the log is a chain
  (`ChainUnlessOverlapped`, from `OneCallFollows`: what the only call under way has of the
  newest entry at each of its four places) and its entries are in the order of their
  times (`BegunInOrder`). The report is then a question of its order alone. `Place`
  counts the entries ahead of an entry, so different entries have different places
  (`PlacesOrder`) and each place of the page is taken (`PlacesFilled`, the least number
  that is not a place leading to a contradiction). Neighbours in a report that
  verifies are neighbours in the log (`VerifiedNeighbours`), the newer one behind, which
  newest first allows only at one instant; and a report of one instant is a
  stretch of the log.

The last part of `ServicesProofs`, and all of `RecordsProofs`, is about the compositions.
`ServicesRunTheirComponents` and `RecordsRunTheirComponents` say that the composition
implements the specification of each of its components: every step is one of the
component's, or leaves its variables alone. `ServicesTypes`, `RecordsTypes`
(`TypesOK`) and `ServicesKeepTheirPromises`, `RecordsKeepTheirPromises` carry the components'
theorems over to what the runs `services` and `records` check.

The type invariant of each of the twenty-four state machines is a theorem of its own,
listed or not. Assumptions on constants are those of the modules, which TLC
evaluates on the instances; none bounds the number of processes, rows or messages.

Only model-checked: liveness (`Settles`, `CallsAnswered`, `Answered`), as the prover knows
neither fairness nor ENABLED. Every invariant and every action property of a passing
run is a theorem.

What a recursive definition computes for every input is out of the prover's reach
too; the models declare none. Where a proof would go by induction over data, it
takes the least number with a property instead (`LeastNatural`, `LeastNumber`).

## 5. What is not modelled

The map covers about a twelfth of the implementation's lines. Most of the rest
has no behaviour to model: response schemas, columns, documentation strings,
sample data, layout, and read-only endpoints that filter and format. The parts
with logic that were left out, and why:

* *Never reached*: `services/organizational_validation_service.py`,
  `services/time_off_validation_service.py`, `services/time_off_submission_validator.py`,
  `services/backup_management_service.py`, `tasks/employee_import_tasks.py`, and the models
  `calendar_feed`, `audit_partition`, `report_tasks` have no importer that uses them;
  `middleware/rate_limiting.py` and the router of `api/auth.py` are not registered.
* *Raises before it changes anything*: `api/delegate_management.py` (creation reads
  `delegate.status`, :95), `api/admin_locations.py` (:397), `api/employment_types.py` (:512),
  `api/department_assignments.py` (:477), parts of `api/privacy_controls.py`,
  `api/directory_analytics.py` (:427, 635, 743) and `api/balance_inquiry.py` (:100), at
  `UserRole.HR` or at columns that are not there; `api/time_off_management.py` always
  answers 404 to a withdrawal.
* *Placeholders and sample data*: `api/balance_projections.py`, `api/holiday_calendar.py`,
  `tasks/accrual_tasks.py`, `tasks/base.py`, `services/task_monitoring_service.py`.
* *Read-only computations*: `services/balance_analytics_service.py`,
  `services/setup_wizard_estimation_service.py`, `services/fulltext_search_service.py`,
  the dashboards and analytics.
* *Others' work*: Celery, S3, rendering, templates, providers, Terraform; tokens and
  OAuth, which are protocol and cryptography.
* *Front end*: `useOrganizationalChart` (its node cache is never cleared, :65, and
  `refresh()` loads from it, :424), wizards and portals that repeat the patterns of `FormSteps` and `FormDraft`.

Within the modelled components: message contents, templates and callbacks;
delivery signatures, delivery history and `regenerate_secret`; a merge of profile
conflicts keeps the local change among the pending ones and a finished save drops
changes made meanwhile (both are in `ProfileEditor`, no property is about them); the
exact lengths of back-offs and timeouts (a time that is to come does come);
read-only endpoints. The queue and the webhooks live in memory and are gone after
a restart of the process, so their models have no restart; the others have one where
something outlives it.

## 6. Plan

Done: the components with the most concurrency first (the e-mail queue with its
abstract specification, approvals, envelopes, webhooks), then the shared rows
(reporting lines with proofs, departments, schedules, policies), the state kept in
processes (profile updates, workflow, requests, imports, sessions, documents,
audit log) and the front end.

Proved: every invariant and action property of the passing runs, for each component
and for the compositions `Records` and `Services`, and the refinement of `MailPromise`.

What is left is liveness, which the prover cannot state, and the parts listed in
section 5.
