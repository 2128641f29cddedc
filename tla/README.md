# Exe ERP: a TLA+ model of its concurrent core

This directory models the parts of Exe ERP (the Frappe framework in
`src/frappe`, the ERP application in `src/apps/erpnext`, the Exe additions in
`company_session.py`, `exe_auth`, `exe_bridge`) where several processes work on
the same state: saving a document, submitting it in the background, sending
queued mail, running background jobs, tasks and scheduled jobs, reposting the
stock ledger, limiting concurrency, allocating a private site. Everything here
is translated from the source; the map in `PROJECT.json` names the lines of
every definition.

Contents: [the system](#1-the-system), [inventory](#2-inventory),
[the modules](#3-the-modules), [the runs](#4-the-runs),
[fairness](#5-fairness), [what is proved](#6-what-is-proved),
[what disagrees with the docs](#7-where-the-code-disagrees-with-its-documentation),
[what is left out](#8-what-is-not-modelled), [the plan](#9-the-plan).

## 1. The system

A deployment has four kinds of actors and four kinds of shared state.

| Actor | What it runs |
|---|---|
| web workers | one request at a time: `app.py` opens a transaction, runs the handler, commits or rolls back (`sync_database`), then runs the after-commit callbacks |
| RQ workers | one job at a time: `execute_job` connects, runs the method, commits or rolls back |
| the scheduler | every minute enqueues the `Scheduled Job Type`s that are due |
| outside services | SMTP, the company authority, the database that `exe_bridge` writes to |

| Shared state | Its rules |
|---|---|
| PostgreSQL | one transaction per request or job at REPEATABLE READ (`database/postgres/database.py:196`): reads come from one snapshot; an update or `SELECT ... FOR UPDATE` of a row that changed after the snapshot fails |
| Redis (queue) | RQ's queues and job hashes; never part of a database transaction |
| Redis (cache) | the semaphore's list and key, deferred inserts, locks of the rate limiter |
| lock files | `utils/file_lock.py`: a file per locked document, found by its existence and age |

Almost every hard behaviour comes from one of three gaps: *between the check
and the act* (a form loaded before somebody else's save, a job looked up before
it is queued), *between two stores* (a row and its RQ job, the SMTP server and
the recipient's row, a lock file and the transaction), and *between two
commits* (a mail is "Sending" in one transaction and "Sent" in another, and the
worker may die in between).

## 2. Inventory

For each component: its state, its operations, whom it talks to, what is hard,
what makes it correct. Components with a module come first; their hazards and
the lines where they bite are in `PROJECT.json`.

### Document lifecycle (`model/document.py`, `model/docstatus.py`, `desk/form/save.py`, `utils/file_lock.py`)

- *State*: the row (`modified`, `docstatus`, the other columns), its row lock,
  the lock file, the copies in clients and in the memory of requests.
- *Operations*: open a form; `savedocs` (save, submit, update), `cancel`,
  `discard`; `db_set`; `queue_action` and the job `execute_action`;
  `unlock_document`; expiry of lock files.
- *Interactions*: PostgreSQL transactions, lock files, RQ.
- *Hard*: a save writes the whole object, so a stale object overwrites what
  others wrote; only `check_if_latest` under `FOR UPDATE` stands in the way, and
  it compares one column. The lock file is tested and created in two steps, not
  rolled back with the request, removed by whoever runs first.
- *Correct when*: no edit is lost; docstatus only goes Draft -> Submitted ->
  Cancelled or Draft -> Cancelled; a save ends; a document does not stay locked.

### Email Queue (`email/doctype/email_queue`, `email/queue.py`)

- *State*: status, retry and `modified` of the record, the status of each
  recipient's row, the suspend switch.
- *Operations*: `flush`, `send` with `SendMailContext`, `send_now`, forced
  sends, `retry_sending`, the reaper `retry_sending_emails`, suspend/resume.
- *Hard*: the record is handed to SMTP between transactions; the sender works
  on a copy; the reaper cannot tell a slow sender from a dead one.
- *Correct when*: Sent means delivered to everybody; nobody gets a mail twice
  without one of the unavoidable reasons; retries are bounded; no record
  remains in the queue for ever.

### Background Task (`utils/task_queue.py`, `core/doctype/background_task`)

- *State*: the row's status; the RQ job with its own status and retry count;
  the stop commands on their way.
- *Operations*: `enqueue_task`, `execute_task` with retries, `stop_task`,
  `retry_task`.
- *Hard*: row and job are changed in two steps in every operation, and in a
  different order in each.
- *Correct when*: Cancelled stays Cancelled; Completed if and only if the work
  was committed once; every task ends.

### Background jobs (`utils/background_jobs.py`)

- *State*: the queue, the RQ job under a `job_id`, the retry count.
- *Operations*: `enqueue` with `deduplicate`, `execute_job`.
- *Hard*: look up, delete and enqueue are separate commands; the retry is a
  recursive call; the worker may die, also between taking the job from the
  queue and marking it started.
- *Correct when*: a deduplicated job is queued or running once; retries are
  bounded and happen for the errors they are meant for; an id is released.

### Redis semaphore (`utils/redis_semaphore.py`, `concurrency_limiter.py`)

- *State*: a list of tokens, a capacity key that expires.
- *Operations*: `acquire` (with `_ensure_tokens`), `release`, fallback without
  Redis.
- *Hard*: initialisation takes several commands and may be done by several
  requests, be interrupted, or happen again while tokens are in use; the
  commands of `RedisWrapper` that it uses swallow a lost connection.
- *Correct when*: at most `limit` holders; leaked tokens come back.

### Native site allocation (`exe_auth/native_*.py`)

- *State*: per action a first-writer file that is never removed; the install
  lock; the site's directory; the binding row and the observer's role in the
  new database; each container's deadline and the creator it saw.
- *Operations*: `allocate` (check, lock, marker, install, bind, commit), the
  observer's `setup`, `observe`, the supervisor `native_receiver`.
- *Interactions*: the parent dispatches containers through a pipe and believes
  only what comes back in time; Core owns the action and its lease, and is
  asked before every effect and after every commit.
- *Hard*: effects commit one by one and cannot be undone; a commit may happen
  after its process was killed; Core may renew, transfer or revoke meanwhile.
- *Correct when*: a site is allocated at most once; what is reported was
  committed for the owner who was observed, within the original lease; a
  container that hangs ends.

### Submission Queue and event bridge (`core/doctype/submission_queue`, `exe_bridge/events.py`)

- *State*: a row per submission (Queued, Finished, Failed) beside the document,
  its lock file and the RQ job; an event row per document and type in another
  database.
- *Operations*: `queue_submission`, `insert` and `after_insert`,
  `background_submission` inside `execute_action`, `notify`, `unlock_doc`,
  `clear_old_logs`; `_emit_event` from the document's hooks.
- *Interactions*: the lock file of the document, RQ, the transaction of the
  job, the bridge's database, which commits at once.
- *Hard*: the test for a Queued row and its insertion are far apart, and so are
  the test for the lock file and its creation; the status
  is written in the transaction that the outer `execute_action` may roll back;
  an event is visible before its document is committed.
- *Correct when*: a change is Finished once, and only if it was committed; one
  job waits at a time; no row stays Queued; an event tells of a committed change.

### Scheduler, Scheduled Job Type, deferred insert (`utils/scheduler.py`, `scheduled_job_type.py`, `deferred_insert.py`)

- *State*: `last_execution`, the RQ job of the type; the lists of deferred
  records in Redis.
- *Operations*: `enqueue_events`, `enqueue`, `execute` with `log_status`,
  Execute and Skip in the form; `deferred_insert`, `save_to_db`.
- *Hard*: the scheduler reads all types before it looks at the first; records
  are popped before they are inserted, inserted before they are committed, and
  errors in between are swallowed.
- *Correct when*: a due job runs, not twice in a period; a deferred record is
  stored once, and what a failure can lose is bounded.

### Stock ledger, Repost Item Valuation (`stock_ledger.py`, `stock_controller.py`, `bin.py`, `repost_item_valuation`)

- *State*: the entries with their running balance and value, the Bin, the
  records of Repost Item Valuation with the file that says where to resume.
- *Operations*: submit and cancel a voucher, with the shift of later balances;
  `repost_entries`, which values later entries again, in several transactions;
  failure, resumption, `restart_reposting`.
- *Hard*: the job goes on from copies that it read transactions ago, and
  vouchers are posted meanwhile; the file is written outside the transaction;
  PostgreSQL refuses some of the statements in the middle of a repost.
- *Correct when*: balances are running totals and never negative, the Bin is the
  last of them, and every wrong value is valued again or a repost that is not
  over shows that it has to be.

### Without a module

- *Company session* (`company_session.py`): introspect, read, introspect again.
  No state between requests; the session may be revoked at any point. *Correct
  when*: an answer contains only what both introspections allowed.
- *Prepared Report*: a status against an RQ job and its expiry. *Correct when*:
  a report does not stay Queued.
- *BOM cost update* (`bom_update_log`): batches run by parallel jobs, level by
  level. *Correct when*: a level starts when the level below is committed, once.
- *Stock valuation, general ledger* (`valuation.py`, `general_ledger.py`):
  sequential algorithms inside one transaction. *Correct when*: FIFO and LIFO
  bins keep quantity and value; debit equals credit.

### Others

Payment reconciliation, transaction deletion and period closing (chains of
jobs), stock reservation (quantities guarded by reads), sessions and rate
limiter, OAuth, naming, nested sets, workflow, the health and installation code
of `exe_monitor`, `exe_setup`, `exe_templates`, `exe_dashboards`, the websocket
server, the user interface, translations and patches. They are listed in
`PROJECT.json` with the reason why each is not modelled (yet).

## 3. The modules

| Module | What it is |
|---|---|
| `AtomicDocument` | abstract specification: a row that changes by atomic edits |
| `Document` | one document under concurrent requests and jobs; refines `AtomicDocument` |
| `SubmissionQueue` | background submissions of one document, its lock file, its jobs and its events: the composition of the Submission Queue, `execute_action` and the bridge |
| `EmailQueue` | one Email Queue record, its senders and the reaper |
| `BackgroundTask` | one Background Task row and its RQ job |
| `BackgroundJob` | one `job_id`: deduplication, execution and retries |
| `Scheduler` | one Scheduled Job Type from the tick to the end of its run, composed with the deferred records the run empties |
| `StockLedger` | the entries of one item in one warehouse, and the job that reposts them |
| `RedisSemaphore` | the semaphore, one Redis command per step |
| `NativeSite` | the containers that allocate, set up and observe one site, their supervisor, changes in Core |
| `<Module>Proofs` | the theorems about `<Module>` |
| `RedisProofs` | the theorems about the two whose state is in Redis, `RedisSemaphore` and `BackgroundJob` |
| `MC<Module>` | the same modules on small instances |

Definitions whose name starts with `M` next to one without it (`MMayRetry`,
`MayRetry`) are plausible mistakes in the definition that follows; no run uses
them. They exist to show that each property fails when the code is wrong.

### Document

The data of a row is abstracted to the set `edits` of the changes that are in
it: every change is named by the `modified` stamp it was given, and a save that
overwrites somebody else's change produces a row whose `edits` misses a stamp.
That is all the properties need to tell apart. `docstatus` is kept.

| In the model | In the code |
|---|---|
| `db`, `rowLock` | the row; the lock that `load_doc_before_save`/`check_if_latest` take with `for_update` |
| `snap[p]` | the snapshot of `p`'s transaction |
| `doc[p]`, `orig[p]` | the Document object and its `_original_modified` |
| `form[s]` | the copy in the browser |
| `lock` | the lock file: absent, counted, or older than `DOCUMENT_LOCK_EXPIRY` |
| `jobs` | queued `execute_action` jobs |
| `orphaned` | history: the last one who was to remove the lock file (`Owed`) was rolled back or died; a new file starts over |
| `Open`, `SaveDocs`, `CancelDoc`, `DiscardDoc`, `BeginDbSet` | the request begins: checks before the row lock, `set_user_and_timestamp` |
| `WriteRow` | `FOR UPDATE`, `check_if_latest`, the docstatus transition, the UPDATE |
| `Commit`, `Refuse`, `Abort` | commit; an error of the checks; any other error, from a hook or a dead worker |
| `QueueAction`, `CreateLock`, `CommitQueued` | `queue_action`: test the lock file, create it, enqueue after commit |
| `LoadJob`, `UnlockJob`, `RunJob` | `execute_action` |
| `UnlockDocument`, `LockExpires` | the button; the age of the file |

Between any two of these another process may take any step.

A lock file has no owner. `LockGoesWithItsJob` says that it goes all the same:
however many requests pass the test together, and whoever removes the file
first, the last job that unlocks comes after the last file that was created,
without the expiry or the button. What can leave it behind is that a request is
rolled back after `lock()` or a job dies before `unlock()`.

### SubmissionQueue

One document and its rows. A save in a request is one step here (`Document` has
its steps); the one of a job is open from `Act` to `Conclude`.

| In the model | In the code |
|---|---|
| `version`, `docstatus`, `latest` | the committed document; `latest` remembers the last change of each type |
| `lock` | the lock file, as in `Document` |
| `row`, `jobs` | rows of the Submission Queue, the ones that have an RQ job |
| `AskFor` | `queue_submission` finds no Queued row |
| `TestLock`/`Refuse`, `DeleteLock`, `CreateLock` | `lock()`: the file is looked for; one that is too old, or the one made since, is deleted; `create_lock` makes it, or finds it and says nothing (`Abort` if it is old again) |
| `Commit`, `CommitOnly` | the request commits its row and then queues the job, or cannot |
| `Save`, `SaveFails` | a save in a request, and one that fails between its event and its commit |
| `Start` | `execute_action` removes the lock file, `update_job_id` commits |
| `Act`, `ActFails` | submit or cancel with its events, or an exception |
| `Conclude` | `set_value`, `notify`, the commit of the job |
| `NotifyFails`, `Crash` | everything since `Start` is rolled back, except the event |
| `Emit` | `_emit_event`: one row per type, overwritten, committed at once, or lost |

`causes` names what may explain a surprise: two requests between the test for
the lock file and its creation (`raced`), a lock that expired or was removed by
hand, a job not queued, a crash, a failed notification, a change undone after
its event, an event lost. `WaitsAlone` says that there is no other way to have
two jobs wait.

### EmailQueue

One record and its recipients. A send is `FlushPick` or `SendNow` (both commit
"Sending"), then `Deliver` (SMTP accepts one recipient's mail) and `RecordSent`
(the recipient's row is committed) for each recipient, then `Succeed` or `Fail`
(`SendMailContext.__exit__`). `Crash` may happen at each step: what is not
committed is lost, what SMTP accepted is not. A web transaction reads the
record (`ReadRecord`, `ReadForced`) and writes it later (`SendNow`), or fails
because it changed (`SendNowConflict`). The reaper reads and writes in two
steps (`ReaperLists`, `ReaperGivesBack`). `Age` lets 15 minutes pass; with
`MayOverrun` they may pass while the sender is alive.

`causes` is a history variable: it collects the three events that make a
duplicate unavoidable or accepted - a sender interrupted between SMTP's answer
and its commit, a forced send of a record being sent, a reaper that took a
record from a sender still alive. `DuplicatesHaveACause` says there is no
fourth.

### BackgroundTask

The row (`status`) and the job (`jobs` queue entries, `rq` status,
`retriesLeft`) are separate; no action changes both at once unless the code does
(none does). `phase[p]` is where a worker or a request is between its commands.
`Invalidated` is REPEATABLE READ: who read the row before it changed cannot
write it. A stop command is sent (`StopJob`) and delivered later (`Stopped`).
`causes` collects the races that lose a task or run it twice; the properties
say what holds when none of them happened, and that nothing else breaks them.
After `MarkFailed` the job is over: `execute_job` would run it again only for
`RetryBackgroundJobError`, which one function raises (`create_contact` of
`user.py`) that no task has as its target.

### BackgroundJob

`LookUp` reads the job by its id; `DeleteJob` removes a finished one;
`EnqueueCall` queues; `GiveUp` is a refusal (queue too long) or a rolled-back
request. `Raise` is an exception of the method, `Retry` the recursive call,
`FailJob` the second handler. `WorkerDies` leaves the job its status: started,
until `Abandon`, or queued, if the worker had popped the job and not marked it
started (`dropped`). Workers that listen to several queues pop with a plain
BLPOP, so RQ has no other list in which such a job would be found; it stays
queued by its status alone (`Stranded`), and `JobIdIsReleased` names this as the
one way to lose an id. `raced` records that two calls of `enqueue`
overlapped. `JobInit`, `JobNext`, `JobSpec` and the like have the prefix so that
one module can extend this one and `RedisSemaphore`.

### Scheduler

Time is the number of boundaries of the cron expression before the next
execution: `PeriodPasses` is one boundary, 0 is due. `Load` and `Check` are
`enqueue_events`, which compares a copy read earlier; `Enqueue` queues the job
without looking again; `ExecuteEvent` is the button. `Pop`, `Start`, `Finish`
and `Fail` are the worker's `execute`, `Look`, `Take` and `Insert` the loops of
`save_to_db`, with the commit at every hundredth record (`IsCommitTime`), which
the `continue` for single dicts skips. `Crash` leaves the RQ job started until
`Abandon`; `Drop` is a death before that mark, after which the job is queued for
ever (`Stranded`, as in `BackgroundJob`). A record is a number, its lists are sequences of numbers; `broken`
is a PostgreSQL transaction that a swallowed error has aborted. `PushFails` is
the fallback without Redis, which takes the keys of a dict for records.
`causes` names the stale copy, the user, the dropped job, and the four ways to
lose a record. `LossIsBounded` is about one doctype: `save_to_db` handles all of
them in one transaction with a count for each, so what is left uncommitted of
each adds up.

### StockLedger

A voucher has a time and a quantity. Its entry stores the balance after it, as
in the code, and instead of the value the set of vouchers the value was computed
from (`basis`), which is right when it is the set of those up to it.

| In the model | In the code |
|---|---|
| `Submit`, `Cancel` | the whole transaction: `make_sl_entries`, `update_entries_after` for one voucher, `update_qty_in_future_sle`, the Bin, `repost_future_sle_and_gle`. One step, as two of them conflict in the Bin's row |
| `riv` | the records, `file` their reposting data file |
| `RepostItem` | a user asks for a repost of the item and the warehouse (the form, or the report that finds wrong entries) |
| `ListReposts`, `PickRepost` | `repost_entries` lists, `execute_reposting_entry` looks again |
| `Refuse` | the two statements before and after the entries that PostgreSQL refuses, below |
| `TakeSnapshot` | the first query of the transaction: what the entries say in its snapshot |
| `LockRows` | `get_future_entries_to_repost` FOR UPDATE, a few queries later: an entry that is newer than the snapshot is not seen, one that changed since fails the job (`FailOnConflict`) |
| `WriteFile`, `CommitChunk`, `NextTransaction` | after `Chunk` entries the file is written, then the transaction commits; the next one has a new snapshot, and `queue`, `mem` are the old copies |
| `FinishEntries`, `NextItem`, `Complete` | the last entries and the Bin, committed; the index of the next item, committed; the accounting entries and Completed |
| `FailOnConflict`, `FailAnyhow`, `Crash`, `Restart` | an update of a row changed since the snapshot; errors and timeouts; a dead worker; the button |

`causes` has two members: `overlap`, vouchers posted between the snapshot of one
transaction of a repost and that of the next, whose rows the job then writes
back from old copies, or whose entries it does not know; and `resumed`, a job
that died between writing an existing file and committing what it speaks of. In
the last transaction of a repost a voucher that was posted since the snapshot
does no harm: it changed the Bin, the job's update of the Bin conflicts, and the
job fails with everything rolled back.

**What PostgreSQL refuses.** The code has statements for MariaDB in the path of
a repost.

- `get_items_to_be_repost` (`stock_ledger.py:381`) groups by fewer columns than
  it selects. Every voucher-wise repost ends Failed there, before its first
  entry (`Refuse`), also after `Restart`. With `item_based_reposting` the same
  query runs in the transaction of the voucher, which is rolled back; so a
  voucher that needs a repost can only be posted where reposting is
  voucher-wise, and no step of the model posts it otherwise.
- `get_future_stock_vouchers` (`accounts/utils.py:1769`) is SELECT DISTINCT ...
  FOR UPDATE. It runs if the company has perpetual inventory; `Complete` and
  `Refuse` at `gl` are the two kinds of company.
- `deduplicate_similar_repost` (`repost_item_valuation.py:338`) uses
  `TIMESTAMP(date, time)`, for records based on Item and Warehouse only. It
  raises after such a repost, whatever became of it, and the job ends with the
  other records it listed (`Rest`). They are listed again the next time, so
  nothing is lost but time; a voucher-wise record does not get there.

So only the reposts that users ask for by item value anything, and the
voucher-wise ones are what says that something is wrong. That is why
`StaleIsCovered` counts a Failed record as one that covers, until a newer
item-wise repost went over the same entries (`Newer`, `Passed`), and why
`ValuesSettle` has two ends: the value becomes right, or a Failed record that no
newer repost made up for shows that it is not (`ShownWrong`).

`StaleIsCovered` also allows for an entry that is in the chunk about to be
committed (`AboutToCommit`): the file may already point past it. With a commit
after every entry, as in the run, the file never does, because it names a time
and reposting goes on at that time; with `Chunk` = 2 and five vouchers it does.
The proof needs the disjunct, the run does not.

### RedisSemaphore

`Check`, `SetCapacity`, `Clear`, `Push` are the commands of `_ensure_tokens`;
`Acquire`/`Reject` the pop; `Release` the push; `CapacityExpires` the hour.
`exists`, `set_value` and `delete_value` of `RedisWrapper` swallow a lost
connection, and the code goes on as if they had been done: `CheckLost` begins a
fill although the key is there, `SetLost` fills without a key, `ClearLost`
pushes on top of the old list. A push that fails, and any other error of Redis,
raises and is logged (`FillFails`); `Fallback` and `Crash` are lost connections
outside the fill and dead workers. A command takes effect once at most: the
client is made with `from_url` and does not retry. `clean` is a history variable:
the last fill began with every token at home and on an empty list, and was done
by one request. With a lost delete the list may have up to twice the limit, and
is not clean; the next fill repairs it.

### NativeSite

One site and database, several actions that want it, several containers that
may be dispatched for the same action. A container's `pc` runs through the
steps of `allocate`, of `setup` or of `observe`; each step that asks Core is
guarded by `Observe`, which is `CurrentOwner.observe` over `bounded_owner_read`:
the creator is the one seen first, the deadline `end[c]` shrinks to the lease,
never beyond the original one, and time is left for the step and its cleanup.

| In the model | In the code |
|---|---|
| `owner`, `expiry` | what `core.read_native_action_owner` returns; `MoveLease`, `ChangeOwner` are Core's |
| `Dispatch`, `HasReported` | the parent (external): later phases follow the success of the one before |
| `end`, `Admit`, `TimeOut` | `AdmissionBudget`: startup, then the end of work, shrunk by every read; the kill |
| `marker` | the file under `.exe-native-first-writers`, with its `O_EXCL` |
| `site` | the directory that `_new_site` makes and `validate_config` refuses |
| `tx`, `CommitHappens`, `CommitFails` | a COMMIT that was sent is decided by PostgreSQL, also after `Stop` |
| `binding`, `role` | `__exe_native_binding`, the observer's role |
| `reported` | results that reached the parent |

`Stop` is any refusal, exception, crash or kill; it may come at every step. Of
the many reads of the owner inside one transaction (permissions, grants) the
model keeps one: those left out only make more containers stop. A read takes no
time in the model, and time is counted in units of the 30 s reserved for
cleanup. `ownerAt`, `writers` and `issued` are history.

The parent's order of phases is taken from what the modules in `exe_auth` say of
it ("Only the live original-success parent may start this distinct fixed
child"); the parent itself is not in this repository. So is that a transfer
names a creator who did not own the action before.

The supervisor of `native_receiver` runs as PID 1 for the worker that allocates.
For `setup` and `observe`, `Admit` and `TimeOut` are the parent's, who holds
their deadlines: that a container of these kinds ends (`ContainersEnd`) rests on
the parent, not on code of this repository.

## 4. The runs

| Run | Instance | Distinct states | Shows |
|---|---|---|---|
| `document` | 2 sessions, 1 worker, 2 stamps after the first, 2 queued actions | 104 k | the inductive invariant, the refinement of `AtomicDocument`, saves end, the lock file of an action goes with its job |
| `submission_queue` | 2 sessions, 2 workers, 2 rows, 2 changes, 1 fault | 969 k | one job waits, one row is Finished, events are exact, rows end |
| `email` | 2 recipients, 1 flush, 1 web worker, retry limit 1, 4 attempts, 1 manual action; overruns and forced sends | 150 k | delivery, duplicates, retry budget, records leave the queue |
| `task` | 2 workers, 2 web workers, 1 retry, 3 calls of stop or retry | 371 k | cancellation is final, completion is exact, tasks end |
| `job` | 2 callers, 2 workers, 2 retries, 4 calls | 4.6 k | one job at a time, ids are released unless a worker drops the job |
| `job_dedup` | the same | (violation) | the same job queued twice |
| `job_deadlock` | the same | (violation) | a deadlock victim is not retried |
| `scheduler` | 1 user, 2 workers, a commit every 2 records, limit 1, 3 records in lists of at most 2, 1 fault | 326 k | records are stored once or lost for a cause, losses are bounded, one run in a period, records arrive unless a worker drops the job |
| `stock_ledger` | 3 vouchers (a receipt, then an issue and a receipt at one time), a commit after every entry, 1 repost by item, 1 fault | 1.54 M | balances are running totals, wrong values are covered by a repost, values settle or are shown |
| `semaphore` | 3 requests, limit 2, 3 failures | 34 k | the clean pool, and that the pool heals; deadlock checked |
| `semaphore_limit` | 2 requests, limit 1, no failures | (violation) | two holders of one token |
| `native_site` | 3 containers, 1 action, lease 4, end of work 5, 1 change in Core | 744 k | one allocation, results that are owned, backed and in time, containers end |

**Why the bounds are enough to be interesting.** A lost update needs two
processes that read one version; `document` has three processes and two stamps
on top of the inserted one, so a stale save can follow a save, and one more
stamp only repeats that (the safety properties are proved for any number). Two
queued actions are the fewest that can share one lock file, and two rows of the
Submission Queue the fewest that can be queued for one change; two changes are a
draft saved and submitted, or submitted and cancelled; with three the safety
properties hold in TLC too, and they are proved for any number. For mail, two recipients make a partial
send possible; a retry limit of 1 makes the last retry and the first different;
four attempts exceed what the limit allows (`RetryLimit + 1 + manual` = 3), so
`RetryBudget` is not true because the model stops counting. For tasks, two
workers are needed for a run that overlaps a retry, three calls for stop,
retry, stop. For the scheduler, a commit every two records and a limit of one
make each run stop in the middle, inside a list and after a commit, and leave
records to the next; two workers overlap after Execute or when the copy is
stale. For the stock ledger, a commit after every entry gives a repost of three
entries three transactions, and two vouchers at one time reach the order by
creation; of three vouchers one can be backdated before, between and after the
others; one repost by item is what can make up for the voucher-wise ones, and it
can be asked for before, between and after the vouchers. For the semaphore, three requests and limit 2 let one request fill
while two hold a token. For the site, three containers are one per phase, or
three that compete to allocate; the times are the smallest with which all three
phases fit in the lease and a renewal beyond it would be seen (`WorkEnd >
Lease`); one change of the owner anywhere is what the checks after the commit
are for.

**Counters that are bounded.** `MaxStamp` (calls of `now()`), `MaxQueued`,
`MaxRows`, `MaxAttempts`, `MaxManual`, `MaxCalls`, `MaxRecords`, `MaxList`,
`MaxAhead`, `MaxReposts`, `MaxFailures`, `MaxFaults` and `MaxChanges` appear only in guards
of actions that clients, schedulers or failures start (and `MaxStamp` in those
of a save and of `Act`, which may fail instead). When they are used up a behaviour may
end, which is why most configurations set `CHECK_DEADLOCK FALSE`; the semaphore
has no such end and is checked for deadlock.

**Symmetry** is used only in the violation runs `semaphore_limit` and
`job_dedup`, which check an invariant; the other runs check liveness too.

## 5. Fairness

Each specification `FairSpec` (`JobFairSpec`) assumes only what the scheduling of the code
gives.

- A process that is inside a save, a send, an `acquire` or a job goes on until
  it commits, fails, or is ended: Python code without unbounded waits, a request
  timeout for web workers, RQ's job timeout for workers. A crash is not fair.
- In `Document` a request that has called `queue_action` ends, workers take the
  jobs that wait, and a job comes to its save or ends. That the lock file expires
  is not assumed, nor is it in `SubmissionQueue`.
- Time passes: `modified` and the capacity key get old, and periods of a cron
  expression end.
- The scheduler ticks again and again: it runs the flush, the reaper, what is due,
  the daily removal of old rows, the hourly repost. RQ pops what is queued and
  cleans up jobs whose worker died.
- The clock of the native allocation ticks, and the supervisor, or the parent,
  kills what outlives its deadline; nothing is assumed of what runs inside.
- The semaphore's clients keep calling (`PoolHeals` is about a service that is
  used).
- Nobody has to press a button: stop, retry, force, restart and unlock are not
  fair, nor are hooks that raise, queues that refuse, crashes or failures.

Some properties say what they need beyond this: `EmailSettles` that sending is
not suspended for ever and that senders do not overlap, `ValuesSettle` that
neither race happens, the second part of `RowsEnd` that nothing fails.
`LockGoesWithItsJob`, `JobIdIsReleased` and `RecordsArrive` name the one event
that may keep what they promise from happening. Nothing is assumed of SMTP: deliveries may
fail every time.

## 6. What is proved

Eight modules of proofs are checked by TLAPS, for every value of the constants:
all safety properties that the runs check. Each has one inductive invariant
`IInv` (`JobInv` for the jobs), lemmas for each action that preserves it, and the
theorems; each invariant holds in TLC's small instance too. The named
assumptions are those of the modules (finite sets, natural numbers, distinct
roles); the bounds on counters are arbitrary natural numbers.

**Document.** `TypeCorrect`, `InvariantHolds`, `ModifiedIdentifies`,
`LockHasAnOwner`, `DocumentImplementsAtomic`, from `DocumentAssumption` only (sessions and workers
are disjoint, `NoProc` is neither). That a save loses no edit is not inductive
by itself. The argument needs, in this order:

1. `StampsAreFresh`: `now()` never returns a stamp twice, so a save that did not
   commit has a stamp that nobody else has and that is not in the row.
2. `ModifiedIdentifiesVersion`: a copy (form or snapshot) whose `modified` is
   the row's is equal to the row. It is preserved because every write stamps
   the row, and because the stamp is fresh the copies that existed before differ.
   For copies that are not current, `CopiesAreCommitted` keeps their `modified`
   among the stamps in the row, which the fresh stamp is not.
3. `ObjectsExtendTheirBase`: hence an object that passes `check_if_latest`
   contains all edits of the row plus its own.
4. `WriterHoldsRow`: between the UPDATE and the commit nobody else changes the
   row, and what was written is one legal change of it.

The lock file needs its own argument (`LockIsOwed`): while the file counts, a
request that is past `lock()`, a job that waits or a job before its `unlock()`
will remove it, unless the last of them is gone. `CreateLock` makes the file and
its own request owes it; every step that takes one of these away hands over to
the next, removes the file, or is an `Abort`, which says so. It needs
`ActionsFit`: what a request queues is an action that a job can wait for.

The refinement follows: a step that changes `db` is a `Commit`, and 4. says that
it is an edit of `AtomicDocument`; every other step stutters.

That `now()` never returns a stamp twice is an assumption of the model. The
clock has microseconds; two objects stamped in the same one would be one version
to `check_if_latest`, and the second save would pass it.

**NativeSite.** `InvariantHolds`, `TypeCorrect`, `OneAllocation`,
`CommittedByOwner`, `Backed`, `LeaseHolds`: all its safety properties, for any
number of containers, actions and changes in Core and any deadlines, from
`NativeAssumption` (`None` is not a container, number or record). The parts of
the invariant, and what each is for:

1. `PhaseOfKind`: which phases a kind goes through, and who may hold the lock.
2. `OwnersAreFresh`: owners are numbered by the change that named them. An
   owner observed now and at the start therefore owned the action in between,
   also at the moment of a commit nobody was watching. With a Core that gives
   an action back to an earlier owner the theorem would be false.
3. `MarkerNamesWriter`: the file names the one writer; whoever is further is
   that writer, and the site exists once somebody installs.
4. `CommitsAreDecidedOnce`: what an undecided commit will write, and that a
   decided one whose owner has not changed was made under him.
5. `PhasesAreBacked`: what a later phase read of the binding stays true, as
   neither the marker nor the binding changes any more.

`MCNativeSite` checks the same `IInv` on the small instance.

**RedisSemaphore** (in `RedisProofs`). `TypeCorrect`, `InvariantHolds`,
`CleanPool`, for any limit and any finite set of requests. The list alone is not
inductive while it is filled: `CleanFill` counts the tokens the filling request
has still to push, and says that it is alone. A fill whose delete was lost counts
as clean only if the list was empty, and a second fill, also one begun because
`exists` could not reach Redis, ends what was clean before it or starts anew.

**EmailQueue.** `InvariantHolds`, `TypeCorrect`, `Truthful`
(`SentMeansDelivered`), `DuplicatesExplained`, `BoundedRetries`. A sender works
on a copy, so the invariant speaks of copies:

1. `DeliveriesAreKept`: whoever is not on a sender's list any more was delivered
   to. This alone gives `SentMeansDelivered`, with any overlap.
2. `OneSender`: without a forced send or an overrun there is one live sender,
   the record says Sending, and its retry count is the record's. A web request
   that read the record earlier can only write if the record has not changed.
3. `SentOnce`: without any cause a delivery is in the recipient's row or in the
   hands of the live sender, who does not have it on his list.
4. `SendsAreCounted`: every attempt is paid for by a retry, by a manual action
   or by being the last; a forced one is paid for when it is read.

**BackgroundTask.** `InvariantHolds`, `TypeCorrect`, `CompletedOnce`
(`CompletedIffDone`), `CancelledStays` (`CancelIsFinal`, an action property).
`CopiesFit`: what a process read of the row is still so while it may write it
(REPEATABLE READ). `OneRun`: without an overlapping retry the job is queued
once or run by one worker. `StopsReach`: a stop command is on its way to whoever
runs a cancelled task. `DoneOnce`: the effects agree with the status, and a
Completed task has no job left.

**BackgroundJob** (in `RedisProofs`). `JobInvariantHolds`, `JobTypeCorrect`,
`Deduplicated` (`OneJobAtATime`). What the queue and the workers hold is not
enough: a caller past `get_job` relies on nobody having the job (`OneCaller`),
and on the status that `get_job` reads being right (`StatusIsRight`).

**SubmissionQueue.** `InvariantHolds`, `TypeCorrect`, `OneWaits`
(`WaitsAlone`), `OneFinished` (`FinishedOnce`), `ExactEvents`. For
`FinishedOnce`, `WishesAreOld`: what anybody wants was possible once, so a row
to submit carries the version of a draft; once the document was submitted that
version is old (`StampsGrow`), and `check_if_latest` refuses it. `OneWriter`:
the row lock lets one job write. `LockedAlone`: the lock file has one owner, a
request or the job it queued, and while it is there nobody is between the test
and the creation, until two requests pass the test together (`raced`), or it
expires or is removed. `EventsFit`: an
event is the latest change or what the one writer is about to commit.

**Scheduler.** `InvariantHolds`, `TypeCorrect`, `Periodic` (`OncePerPeriod`),
`Accounted` (`NothingLost`), `BoundedLoss` (`LossIsBounded`). `OneHolder` as in
`BackgroundJob`, with the scheduler as the only caller. `Counted`: a job that is
due has not begun in this period; the copy the scheduler holds may have seen one
run begin, which is where the second run of a stale copy comes from. `Traced`:
a record is in one list, one run or one table. `Counting`: what a run has
inserted and not committed is at most its count modulo `Every` (with a lemma on
multiples), or, for single dicts, the count itself.

**StockLedger.** `InvariantHolds`, `TypeCorrect`, `ExactLedger`
(`LedgerIsExact`), `StaleCovered` (`StaleIsCovered`), for any finite set of
vouchers, any quantities and times, any size of a chunk and any number of
faults, from `StockAssumption`. Neither property is inductive; the argument is
about what the job has in memory while others post:

1. `OrderFits`: time and `creation` order the entries totally. A set of entries
   then has a last one, whose balance is the sum up to it (`ClosedUpTo`,
   `BalanceBefore`).
2. `RecordsFit`: a record, its file and the queue start at the record's time or
   later, whoever posts touches the Bin, and the file is written only for a chunk
   that does not conflict.
3. `MemoryFits`: for an entry of the queue that nobody has touched since the
   snapshot, the balance in the row is the one that the job is going to write,
   and so is the Bin. A commit that does not conflict therefore changes no
   balance (`WriteKeeps`). With vouchers posted since the snapshot the next
   transaction's snapshot hides what was touched, which is the cause `overlap`.
4. `JobCovers`: for such an entry the value that the job is going to write is
   the right one, or another record that the job's does not make up for covers
   it (`CoveredByOther`); and an entry that is stale now is covered by another
   record or still lags (`Lags`): it is in the queue, or others changed the Bin,
   so that the job will fail with its last chunk, and what it can still write is
   not after that entry. So when the job's own record is done, it leaves nothing
   stale behind (`FinishStale`); when it fails, is refused or dies, it still
   covers from where the file says (`StopStale`), but for the cause `resumed`.

That a newer repost makes up for an older record (`Newer`) is what makes covering
not monotone: each step shows which records it passes (`CoveredMonotone`,
`NewRecordCovers`, `AppendCovers`).

A balance is a sum over a set, and `MapThenSumSet` is a CHOOSE of a recursive
function. That there is exactly one such function (`FoldsExists`, `FoldsUnique`)
and that a sum does not depend on the order (`SumAdd`, `SumUnion`) is proved by
a least counterexample, from the strict subsets of a finite set being well
founded: it needs no induction theorem with an operator as a parameter.

**Model-checked only.** Liveness under fairness is out of the prover's reach:
`SavesEnd`, `LockGoesWithItsJob`, `EmailSettles`, `TaskEnds`, `JobIdIsReleased`,
`RowsEnd`, `RecordsArrive`, `ValuesSettle`, `PoolHeals` and `ContainersEnd` are
what TLC checks. The `violation` runs are counterexamples and need no proof.

## 7. Where the code disagrees with its documentation

1. `redis_semaphore.py:12` promises "up to *limit* concurrent holders". Two
   first requests may both fill the list, and the capacity key expires after an
   hour whether or not tokens are in use (`semaphore_limit`). What holds is
   `CleanPoolIsBounded`.
2. `background_jobs.py:112` promises "do not re-queue job if it's already
   queued". Two overlapping calls both find no job (`job_dedup`). What holds is
   `OneJobAtATime`, for calls that do not overlap.
3. `background_jobs.py:288` says that deadlocks and lock timeouts are retried.
   They are raised as `QueryDeadlockError` and `QueryTimeoutError`, which the
   handler does not catch (`job_deadlock`).

## 8. What is not modelled

In the modelled components: inserting, deleting, renaming and amending
documents; child tables (written in the transaction of their parent);
`db_set(update_modified=False)`, which `check_if_latest` cannot see; locking
several documents in one request; "Update" as a queued action; events of
insertion and deletion, and their payload; building mails, attachments and the
failure threshold of a flush; progress, stages and callbacks of tasks; worker
pools and queue starvation; job types with a log, cron parsing and the lock of
the scheduler process; the loop over doctypes and the flush of deferred inserts
in a migration; Stock Reconciliation, serial and batch numbers, dependent
entries of other items, parallel reposting, the conversion of waiting records to
item-wise ones and the accounting entries of a repost; the identity of users; frames, pipes and their ceilings, the catalog
checks and the cleanup ledger of the native allocation. In each case the model
would say nothing, rather than something wrong: no property is stated about them.

Hazards that were considered and have no module:

- `company_session.py:713` reads business data between two introspections of a
  session that may be revoked meanwhile: the authority shares no state with the
  database, so a model would have only the authority's answers in it.
- `bom_update_log.py:213` starts a level from counts that a parallel batch may
  be about to change.
- `background_jobs.py:132` deletes the old job before the check of the queue's
  size refuses the new one.
- `native_allocate_worker.py:116`: 1,024 bytes of budget are about 32 reads of
  the owner; it is arithmetic on lengths, not on steps.
- `scheduled_job_type.py:143` adds the maintenance offset to a value it does not
  return.
- `file_lock.py:73` (`release_document_locks`) iterates over the list it removes
  from; it matters for requests that lock several documents, which are not modelled.

The rest of the inventory is out of reach or without interleavings: I/O
(websockets, health probes), presentation, parsing and cryptography, and the
domain rules of the ledgers, which are sequential. Most of the repository is of
this kind - forms, reports, controllers and their tests, each inside one
transaction - so the map covers a small share of its lines, however much of its
concurrent core is modelled.

## 9. The plan

What is left, most important first.

1. `CompanySession`: the protocol around a read; an abstract specification with
   an atomic authorised read.
2. `BomCostUpdate`: levels and batches in parallel jobs, and the cron job that
   continues them; `PreparedReport` against its expiry.
3. `NativeReceiver`: the supervisor's pipes and byte ceilings. The worker
   refuses after 1,024 bytes of budget (`native_allocate_worker.py:116`), while
   `docs/private-native-output-supervisor.md` speaks of 2,048 bytes shared with
   the result.
4. Several documents locked by one request, for `release_document_locks`.
5. `StockValuation`: FIFO and LIFO as functions against a reference definition.
