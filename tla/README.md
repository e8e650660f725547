# Formal model of AgentP

AgentP is a document service. An API process (FastAPI) takes uploads and job requests; RQ workers run
PDF operations on the documents; Postgres holds the rows, Redis the queue, an S3 bucket the bytes.
This directory holds TLA+ models of the parts whose correctness depends on how these interleave and
fail, the TLC runs that check them, and the proofs that TLAPS checks.

## The system

| Component | State it keeps | Operations | Hard behaviour | What makes it correct |
|---|---|---|---|---|
| Job service (`app/services/jobs.py`) | `jobs`, `job_inputs` | create, replay, resume, cancel, list | creators race for a key; a call is up to four transactions; rows are read without locks and written later | one job per key and request, no foreign replay, a settled job stays settled |
| Quotas (`app/services/usage.py`) | none; locks the workspace row | admit a job, reserve document space | count and insert are two statements | limits hold under races |
| RQ queue (`worker/queue.py`) | entries in Redis | enqueue, cancel, take | Redis is down, or its reply is lost | a job is delivered while it is wanted, once |
| Worker (`worker/runner.py`) | row status, staged objects | run a job: read, mark, execute, stage, register, announce | crash, double delivery, error after commit | success means registered outputs |
| Documents, retention (`app/services/documents.py`, `worker/retention.py`) | `documents` | delete, sweep, purge | row and bytes are in two stores; the sweep's candidates are stale, and no more than it has places | inputs of unfinished jobs stay, expired documents go |
| Uploads (`app/api/files.py`), storage (`app/services/storage.py`) | objects in S3 | upload, discard, download | crash or lost reply between object and row; runs on the event loop | rows and bytes agree |
| Webhooks (`app/services/webhooks.py`) | `webhook_endpoints`, `webhook_deliveries` | queue, deliver, retry, disable | deliveries, failures to enqueue and disabling race; crash in an attempt | deliveries tell the truth and end |
| Workspaces, keys (`app/services/workspaces.py`, `auth.py`, `provision.py`) | `workspaces`, `api_keys` | create, rotate, revoke, bootstrap | racing revocations, racing starts | an active key always remains, one administrator is seeded |
| API process (`app/main.py`, `app/api/*`) | sessions, event loop | run endpoints, close sessions | sync endpoints in threads, one coroutine that blocks | it does not hang |
| Migrations (`app/db.py`, `migrations/`) | the schema and its revision | inspect, patch, stamp, upgrade | three transactions without a lock; a process dies between two, or another starts meanwhile | who serves has the whole schema |
| PDF operations (`app/operations/*`), validation (`app/services/validation.py`) | none | split, merge, packets, OCR, compress, extract | page arithmetic at its edges; tools that report success and lose pages | a success has every page, in order |
| Client (`agentp_client`) | the output directory | upload, submit, poll, download | deadlines, temporary errors, interrupted downloads | one job per key, no torn files, true reports |
| MCP server (`app/mcp_server.py`), evaluation harness (`evals/`) | none | front to the same services; measurements | | |

The components meet in five places. **The workspace row**: job admission, document quotas and every
key change take its `FOR UPDATE` lock, and the foreign key of an audit event waits for it. **The
document rows**: creation of a job, delete and sweep lock them. **The job row**: nobody locks it; API
calls and workers read it, work, and write it back. **The queue**: an entry is only a job id (or
delivery id), the rest is read again. **The API**: a client sees of a job only its phase and outputs.

## The modules

| Module | Models | Size of a step |
|---|---|---|
| `JobLifecycle` | job service, job admission, queue and worker for the jobs of one workspace | one transaction or one call to Redis |
| `JobContract` | what the job service promises a client | one visible change of a job |
| `JobRefinement` | the mapping of `JobLifecycle` onto `JobContract` | |
| `JobCrashes` | `JobLifecycle` with a memory of which jobs a crash took out of somebody's hands | as there |
| `JobLifecycleProofs` | theorems about `JobLifecycle`, and about its refinement of `JobContract` | |
| `PacketClient` | `agentp packet` against `JobContract` | one call to the service, or one step of a download |
| `PacketClientProofs` | theorems about `PacketClient` | |
| `DocumentStore` | uploads, registration of outputs, document quota, delete, sweep, and jobs as far as they hold inputs | one transaction, one lock wait or one call to S3 |
| `DocumentStoreProofs` | theorems about `DocumentStore` | |
| `ApiProcess` | the event loop, request threads and the workspace lock of one API process | one step of a request between two waits |
| `WebhookDelivery` | the deliveries of a workspace's events | one session or one call to Redis or the receiver |
| `WebhookDeliveryProofs` | theorems about `WebhookDelivery` | |
| `ApiKeys` | the keys of the default workspace and the bootstrap of replicas | reading under the lock, and the commit |
| `ApiKeysProofs` | theorems about `ApiKeys` | |
| `SchemaAdoption` | the schema of a database under starting API processes | one transaction |
| `SchemaAdoptionProofs` | theorems about `SchemaAdoption` | |
| `PageRanges`, `PacketManifest` | page ranges of a split; labels and sections of a packet, as operators | |
| `PdfOperations` | one request through its checks, the operation and the validation of the result | one input, one tool, or one group of checks |
| `PdfOperationsProofs` | theorems about `PdfOperations` | |
| `SequenceLemmas` | what `FlattenSeq` yields, for sequences of any number and length | |
| `MCJobs`, `MCDocuments`, `MCWebhooks`, `MCApiKeys`, `MCClient`, `MCPdf`, `MCSchema` | TLC's constants, symmetry and inputs | |

A definition whose name is that of another with `_` and a word appended is a variant with a plausible
bug (a lock not taken, a column forgotten). It is used by no specification; putting it in place of the
original shows that a property notices.

### JobLifecycle

`rows` are the committed columns of `jobs` that decide control (status, fingerprint, `queue_job_id`,
error code, whether output rows exist). `api[h]` is a call in flight: where it is, and its ORM object
`seen`, which is what later statements use although the row may have moved on. `run[w]` is a run of
`process_job` likewise. A job is named by its idempotency key; a request without a key is one that is
never repeated.

`create_job` is `MatchExisting` (unlocked look), `EnforceJobQuota` (lock, count), `RecheckUnderLock`,
`RejectInputs` or `InsertJob`, then `EnqueueJob` or `EnqueueRefused`, then `RecordEnqueued` or
`RecordRefused`; a replay takes `ResumeExistingJob` instead of the insert. `cancel_job` is `CancelJob`,
`CancelQueuedRqJob`, `CommitCancel`, `AnnounceCancel`. `process_job` is `StartRun`, `MarkRunning`,
`CompleteOperation`, then `RegisterOutputs`, or `DuplicateOutputs` or `RunRaises` and `MarkFailed`, then
`AnnounceOutcome`. Requests that change nothing (a refused replay, a cancel of a running job) have no
action. The ORM writes only changed columns: `RecordEnqueued` writes `qid` alone, while `RecordRefused`,
`CommitCancel` and `MarkFailed` overwrite the status, whatever it has become.

Abstracted: the hourly limit (it may refuse at any time), the inputs of the job (see `DocumentStore`),
what an operation computes (any outcome, see `PdfOperations`), audit events (their foreign key may delay a
step, and a model without the delay has more behaviours). An exception of an API call, such as a
transaction that Postgres aborts, has the effect of `CrashHandler`.

`JobCrashes` counts crashes and remembers in `abandoned` the job that the dead process had in hand: a call
between the commit of the row and its last word to the queue (`CallHolds`), a run between the taking of the
entry and its outcome (`RunHolds`). `JobsFinish` excepts these and no others.

### JobContract and JobRefinement

`JobContract` has one variable, the phase of each job: absent, pending, unqueued (refused by the queue,
to be resumed), or settled. `JobRefinement` computes it from `rows`: the three active statuses are one
phase, and a failure with `QUEUE_UNAVAILABLE` is "unqueued". `PacketClient` in turn instantiates the
contract as the other side of its calls, so what it shows of the client rests on what the job service
is shown to do.

### DocumentStore

`row`, `stored` and the two kinds of lock (`dlock`, `wlock`) against processes in `proc`. Callers upload
(`UploadFile`, `ReserveQuota`, `CommitDocuments`, and on any failure `DiscardObjects`), delete
(`DeleteFile`, `LockDocument`, `DeleteObject`, `RetireDocument`) and create jobs (`CreateJob`,
`LockInput`, `AttachInputs`). The worker's staging and registration share the upload's steps, since
`process_job` follows the same order; the sweep shares those of a delete. A mishap (`CommitFails`,
`CommitReplyLost`, `DiscardFails`, `PurgeFails`, `StagingFails`, `Crash`) marks in `struck` the documents
it hit half way: the code has no repair for them and the properties say what holds for all others.
`RetireBlocked`, `Deadlocked` and `CreatorAborted` model what Postgres does when a purge's audit event
waits for the workspace row whose holder waits for the document. `Jobs` are places for unfinished
jobs; the life of a job is reduced to what its inputs see, with cancel as one step (its race is in
`JobLifecycle`). The byte quota takes the path of the count quota. A sweep takes the first `SweepLimit`
(500 in the code) expired rows in the order `Rank` of `(created_at, id)`; `Rank` is a parameter, so a
document created late may come first, which gives more behaviours than the code has.

### ApiProcess

`loop` is the request that blocks the event loop, `wlock` who holds the workspace row. A sync endpoint
(`ThreadLocks`, `ThreadCommits`, `ThreadLeaves`) may return with its transaction open; `CloseSession`
needs the loop. `upload_file` is a coroutine: after its last await (`UploadRuns`, `UploadLocks`,
`UploadEnds`) it keeps the loop, the wait for the lock included.

### WebhookDelivery

`status` and `attempts` are the rows, `caller` the call that queues an event, `run` a worker's
`deliver_webhook_delivery`. No session is open while the receiver is called, hence `RecordAttempt`,
`Post` and the recording of the outcome are separate. The vetting of the target's address is a refusal
at any time; which endpoints listen is any subset; `posts` and `accepted` are what the receivers saw. A refused
enqueue is recorded (`RecordEnqueueFailure`), or its record fails too, is logged and leaves the delivery
pending (`FailureUnrecorded`). A delivery that a mishap struck is excepted where a property says so.

### ApiKeys

`key` are the rows, `call` what a call holding the lock is about to commit, `boot` where a replica's
`ensure_bootstrap_identity` is. `exists` is whether the workspace row is committed: with migration 0005 it is
from the start, else starting replicas race to insert it, and `wlock` also stands for the uncommitted
insert another insert waits for. `heirs` is history.

### PacketClient

`run` is one run of the command: where it is, its uploads, its job, whether its deadline has passed, what
it has saved. `run_packet` is `CheckRun`, `UploadFile`, `SubmitJob` (or `SubmitConflicts`, `SubmitFails`),
`Submitted`; `wait_for_job` is `PollPending`, `PollFails`, `PollEnds`, `PollSucceeds`, with `DeadlinePasses`
for its clock; `download_output` is `ReceiveOutput` into a temporary file and `SaveOutput`, the move over
the destination. `Interrupt` ends a run anywhere, and the next run finds the directory, the key and the
service as they then are. A call may be lost before or after it has its effect. A 200 answer that is
no JSON escapes the retry loop, which `Interrupt` covers.

### SchemaAdoption

`schema` is a set of items (table, column or constraint), `version` the revision in `alembic_version`.
`init_db` is `Inspect` and `ApplyPatch` (one transaction in the code, two steps here: another process may
commit between), `Stamp`, `ReadRevision` and `Migrate` (Alembic plans from the revision it read; a loser of two
fails on a table that exists), on a database that is empty, at a revision, made by `create_all`
of an older release (and perhaps opened once by a later one), or one of these with a table or column
missing. `overtaken` is history: a stamp came down on a newer revision.

### PdfOperations

A document is a sequence of pages, each named by its input and place, with the facts the checks can see (how
much text: on every page, enough on average, or little; whether it opens; its dimensions). A request goes
through `Refuse` or `Admit` (`_validate_job_request`), `InspectInput`, `StartOperation`, `OcrInput` or
`PassInput` for each input, one action for the operation, and `ValidateResult`. A tool may fail (`ToolFails`),
or report success and have lost any page, left a file that does not open, changed a dimension or read no text;
a split may damage several outputs. The order of checks and their codes are the code's, except that the
several checks of a packet's report, metadata and order are one group (`PacketError`).

## The runs

Bounds are small sets in the `.cfg` files. `MaxTickets` bounds the entries the queue accepts, `MaxMishaps` and
`MaxCrashes` the failures of a behaviour, `MaxRuns` the runs of the client; all are in guards. Deadlock is not
checked where clients may stop calling and bounds run out; `ApiKeys` and `SchemaAdoption` always have a step
and are checked for it.

| Run | Shows | Bounds and why they do |
|---|---|---|
| `job_races` | inserts never conflict, no foreign replay, success is registered and announced once, a settled job stays settled | one job, two calls with two bodies, two workers, two entries, all faults: every pair of steps of two actors on one row |
| `job_contract` | with one client, no lost reply and no crash the service implements `JobContract`, safety and liveness, and delivers no job twice at a time | two jobs, two workers, Redis up and down |
| `job_crashes` | the jobs an admission counted stay within the limit; every admitted job ends, unless a process died with this very job in hand | two creators, two jobs, limit 1, one worker, two entries, one crash at any step, an unreachable queue: a race for the last place, with places freed and taken back. One job with cancels, lost replies and late errors as well (513,000 states) passes too |
| `documents` | inputs of unfinished jobs are kept, the document limit holds, rows and bytes agree | three documents and two places, one caller, one sweep, one worker, one mishap: each kind of writer against each other |
| `documents_sweep` | every expired document is retired in the end, unless jobs need it or fill the places of the sweeps | two documents, sweeps of one place, one mishap, fair steps: a place can be used up by a held, a retired or a half purged document |
| `api_hang` | **violated**: an upload and a refused request hang the process, and the workers with it | two requests, one worker |
| `webhooks` | truthful outcomes, bounded and recorded attempts, silence after disabling, every delivery decided | one event, two endpoints, two workers, two attempts, two mishaps |
| `api_keys` | the last active key stays, rotation does not multiply keys, one administrator, no reseeding, no failed start | four keys, two calls, two replicas, with and without the workspace row |
| `pdf_operations` | successes are whole and in order, honest work is not refused late, splits are as written, scans are reported | some 8,000 requests: ranges of up to two parts over three pages with every kind of bound, manifests of up to two sections over two or three inputs, every operation with every kind of wrong parameter; documents with text on every, some and no page; all tool faults |
| `client` | reports are true, one job per key, files are replaced whole, a run ends | two documents, two runs, so the second meets whatever the first left; three runs (843,000 states) pass as well |
| `client_retry` | **violated**: the retry the client suggests is refused | the same |
| `schema` | who serves has the whole schema, no revision is ahead of the schema, a database is adopted in the end | two processes, two mishaps, every kind of database |

### What the violated runs mean

* `api_hang`: `upload_file` (files.py:110) is `async def` and waits for the workspace lock on the event
  loop. A sync endpoint that raised under the lock has released nothing yet: `get_session` closes its session
  when the event loop resumes it. Each waits for the other; Postgres sees no deadlock.
* `client_retry`: on `QUEUE_UNAVAILABLE` the client says to retry with the same key (cli.py:117). Running the
  command again uploads the documents again, so the request has new file ids and another fingerprint, and
  the service answers `IDEMPOTENCY_KEY_CONFLICT`: `resume` is out of the command's reach.

### Behaviours of the code that no property excludes

The models reach these; each property above is worded so as to be true of the code, and says so.

* `cancel_job` (jobs.py:494) tests the status it read before its call to Redis. A worker may start the job in
  between; the cancel then writes `canceled` over `running`, and the worker its outcome over `canceled`.
* `_resume_existing_job` (jobs.py:300) decides on a row it read without a lock, so two replays at once may both
  enqueue a refused job, though the README says that jobs that reached the queue are never enqueued twice:
  `OneDeliveryPerJob` is checked with one client. `RegisterOutputs` still registers once.
* A resumed job is active again without an admission (jobs.py:334 returns before `enforce_job_quota`), against
  the README's "transaction-safe" limit. `AdmissionBound` leaves such jobs out and says that nothing else
  exceeds the limit.
* A refused job is `failed`, so its inputs may be purged (documents.py:144), and a replay that resumes it locks
  none of them: a purge that has passed its check then removes the bytes of a queued job's input, and the
  run fails. `InputsKept` speaks of the other jobs.
* `is_likely_scanned` (pdf_utils.py:131) compares the average number of characters per page with 40. A document
  of a dense and a scanned page is neither given to OCR nor named in a warning, so a packet that succeeded
  without warnings may have a page nobody can search. `NoSilentScan` speaks of whole documents.
* If the API process dies between the commit of a job and its enqueue (jobs.py:441), the job is `queued`
  without an RQ id for good: a replay resumes only `QUEUE_UNAVAILABLE` failures. A worker that dies leaves its
  job `running` (runner.py:152). Both are what `JobsFinish` excepts.
* A deadlock of `cancel_job` with a registration (jobs.py:502; both wait for the workspace row and the job
  row) ends with an abort, which has the effect of `CrashHandler` or `RunRaises`. RQ's timeout of a
  delivery leaves out the backoff between attempts (worker/queue.py:37) and has that of `CrashWorker`.
* A delivery whose failure to enqueue could not be recorded (webhooks.py:443) stays pending; one whose success
  could not be recorded may be called again, or read failed.
* With as many old documents held by unfinished jobs as a sweep has places, nothing younger is ever retired.
* "²" is a digit to `isdigit()` and not to `int()`, so such a page range ends as `UNEXPECTED_WORKER_ERROR`; the
  language "+" passes admission and fails only when an input needs OCR. `HonestWorkSucceeds` excepts
  both, inputs past the page limit (a job's outputs are not held to it when they are named as inputs),
  and JSON outputs named as inputs.
* A run of the client whose second download fails leaves the first artifact; the next run without
  `--overwrite` is refused with `OUTPUT_EXISTS`.
* Of two replicas that start on an unversioned database the slower may stamp revision 2 over the other's 5;
  every later upgrade then fails on a table that exists. `AdoptionSucceeds` excepts this (`overtaken`).
  With one process it holds without the exception. A database of an older release that release 5 opened
  once with `create_all` is refused for good.

### Fairness

`JobLifecycle` and `JobCrashes`: weak fairness of a call's and a run's own steps, since processes run on, and
strong fairness of `RegisterOutputs`, which waits for the workspace lock that Postgres grants in the order of
arrival. `DocumentStore`: strong fairness of each process's steps for the same reason, and weak fairness of
`StartSweep`, which an operator schedules. `ApiProcess` is given strong fairness for everything so that the
hang is no matter of scheduling. `WebhookDelivery`: weak fairness of calls and runs; a call to a receiver has
a timeout. `PacketClient`: weak fairness of the command's own steps, since each call has a timeout of 60
seconds, and of the passing of the deadline; nothing is assumed of the service, the network or the user.
`SchemaAdoption`: weak fairness of each process, which whoever runs it is taken to start again
(docker-compose.yml has no restart policy). No fairness is assumed of clients, failures or the ends of jobs.

## The proofs

TLAPS checks the theorems for every value of the constants, under the assumptions each module names
(ids are disjoint from `None`, limits are naturals, sets that are counted are finite; `RequestsAssumption` and
`ManifestAssumption` say of what kind a request's parameters are, not which are good). Every safety
property that a passing run checks is stated by a theorem, for any number of jobs, documents, processes,
inputs and pages.

**JobLifecycle.** `TypeInv` adds to `TypeOK` where a call or run may be with which job. `JobInv` adds
`CallsBacked`, `RunsBacked` and `ClaimsBacked`: a call past the insert refers to an existing row of its
own body, a call about to insert holds the lock and finds no row, a run refers to an existing row, and a
success in a row, in a run about to announce or among the events has registered outputs. None of the
safety properties is inductive without these, because the code writes rows from what it read earlier. The
key lemma `RowsKept` says that rows neither vanish nor change their body, so what a call relies on
survives the steps of others. `AdmissionInv` adds that the holder of the lock that is past the count
has found the number of active jobs below the limit, which only grows by an insert under the lock.

**DocumentStore.** `StoreInv` says who holds which lock (a purge its document, a creator those it has
locked, an insert the workspace row), that a purge's document is held by no unfinished job except a
resumed one, that documents about to get a row have bytes and no row, that no two uploads or runs hold
the same document, and that a live row without bytes is one whose purge goes on. `Frame(q)` says what a
step of `q` leaves to the others; `FrameKeeps` proves once that this is enough for `StoreInv`, and each
action needs only to be within its frame. `AttachInputs` is proved by itself, since it alone makes new
needs. `InputsKept` is part of `StoreInv`. The document limit adds `CountInv`: whoever is about to
insert has found room, and holds the workspace row since. `BytesMatchRows` adds `BytesInv`: which documents
a process has in its hands at each step, and that bytes without a row are in somebody's.

**ApiKeys.** `KeysInv` says that whoever is about to commit holds the lock, and that what it decided on
still holds: the key to rotate is active, the key to revoke has another active one beside it, the
workspace to seed has no key. The theorems follow from it.

**Refinement.** `JobLifecycleProofs` also shows, under `OneClient` (one handler, which creates and replays but does
not cancel, and no lost reply), that `Spec` implements the initial states and steps of `JobContract`, and
`OneDeliveryPerJob`. Crashes of the API and of workers, an unreachable queue and failing webhooks
are allowed. `ContractInv` is `JobInv` with `DeliveriesMatch` (a job
has at most one entry or run, none before its enqueue or after a refusal, and its row fits where that
is) and `CallsMatch` (what the call in flight saw of its row is still so). The second is what fails with
a second client, and why the contract is one for a single client.

**WebhookDelivery.** `DeliveryInv` says that a delivery is with the call that made it, in the queue, or with
one run, that a delivery no run has had yet is as it was inserted, and what a run knows of its row. `CallerMoves`,
`RunKeeps` and `CallKeeps` state once what each kind of step leaves alone. The theorems cover all
safety properties of the run.

**PacketClient.** `ClientInv` adds to `TypeOK` that what a run has saved is in the directory and of its
job, that a run replaces a file only with `--overwrite`, and that a keyed run's job holds the key.

**SchemaAdoption.** `SchemaInv` says that a process about to patch, or to stamp, still finds what its
inspection found: what the revision it chose needs is in the schema, but for the columns it is about to add,
and that one that has read the newest revision has the whole model (`MigrateFits`). It is kept by the steps
of others because an item of the model never leaves the schema, and what leaves (`KeyUnique`) the model does
not have: `Owned` says that it leaves only with the step that brings the workspaces.

**PdfOperations.** `PdfInv` follows the pages. `FilesFit`: the file held of an input has that input's pages
or fewer, in their order, and all of them while no tool has lied. `MadeFits` says the same of each output
and what the operation should have made of the files (`MadeFrom`), and `Validated` that a success has passed
the checks and nothing has changed since. That a success is whole then needs an argument about numbers: the
validation compares only page counts, and a packet's count is a sum, but each file is at most as long as its
original, so an equal sum leaves no page missing (`NoPageMissing`). `HonestWorkSucceeds` is a conjunct: the
checks after admission are shown to find nothing, one by one (`FirstError` turns a list of checks into
conditions). Two more arguments concern order and ranges: ranking each input by how many precede it is a
permutation that sorts them (`SortedPlaces`), so a packet is in the order of its sections, and the ranges of
a split name as many pages as their parts have (`FlattenCounts`).

**SequenceLemmas.** `FlattenSeq` is defined by recursion over its argument, and the library's induction takes
an operator. The lemmas use induction over a set instead: the numbers of which the claim holds have
no least one missing, since `<` on the naturals is well-founded.

Model-checked only: liveness (`JobsFinish` of `JobCrashes`, `ExpiredAreRetired`, `DeliveriesDecided`, `RunsEnd`,
`AdoptionSucceeds`, and the liveness half of `ImplementsContract`), which is out of the prover's
reach.

## Not modelled

* What the PDF tools do inside a page, storage and database internals, HTTP and JSON: external or data.
* `app/mcp_server.py`: another front to the same services, without state. Listings and usage reports:
  they only read. The evaluation harness and examples: development tooling outside the system.
* `create_workspace` and the creation of webhook endpoints are one insert each; token hashing and the
  vetting of receivers' addresses decide on data alone.
* The downgrade scripts of the migrations, which are run by hand; constraints that adoption does not look at.
* Two runs of the client at once in one output directory, a job of the client canceled by somebody else, and
  temporary files a killed client leaves behind.

## Next steps

1. The row locks of `cancel_job`, `_enqueue_or_fail` and the registration with their audit events, in a module
   of their own at the size of single statements.
2. The contract for several clients, once a resume takes the lock it decides under.
