---------------------------- MODULE JobLifecycle ----------------------------
(***************************************************************************)
(* The life of a job of one workspace: the API calls that create, replay   *)
(* and cancel it (app/services/jobs.py), admission under the workspace     *)
(* lock (app/services/usage.py), the RQ queue (worker/queue.py) and the    *)
(* worker that runs it (worker/runner.py).                                 *)
(*                                                                         *)
(* Every call and every run is a sequence of short transactions.  What it  *)
(* read in one of them (its ORM object) is used in the next, and other     *)
(* calls and runs step in between; an action is one transaction or one     *)
(* call to Redis.  A job is named by its idempotency key, which is unique  *)
(* in a workspace; a request without a key is one that is never repeated.  *)
(***************************************************************************)
EXTENDS Integers, FiniteSets

CONSTANTS
  Keys,            \* idempotency keys, and so jobs
  Bodies,          \* what a request asks for, as its fingerprint tells it apart
  Handlers,        \* API calls that can be in flight at once
  Workers,         \* worker processes
  None,            \* no value: a free lock, an absent body
  ActiveJobLimit,  \* settings.workspace_active_job_limit
  MaxTickets,      \* bound: entries the queue accepts in a behaviour
  Operations,      \* the calls clients make: "create", "cancel"
  Faults           \* what may go wrong around the code, a subset of AllFaults

AllFaults ==
  { "queueDown",     \* Redis refuses an enqueue or a cancel
    "replyLost",     \* Redis accepts an enqueue and the caller sees an error
    "apiCrash",      \* the API process dies inside a call
    "workerCrash",   \* the worker dies inside a run; RQ does not retry it
    "lateError",     \* a run raises after its registration has committed
    "webhookError" } \* queueing the webhooks raises; the error is swallowed

ASSUME ConstantsAssumption ==
  /\ IsFiniteSet(Keys)
  /\ None \notin Handlers \cup Bodies \cup Keys
  /\ ActiveJobLimit \in Nat
  /\ MaxTickets \in Nat
  /\ Operations \subseteq {"create", "cancel"}
  /\ Faults \subseteq AllFaults

Active   == {"queued", "running", "validating"}
Success  == {"succeeded", "completed_with_warnings"}
Terminal == Success \cup {"failed", "canceled"}
Status   == {"absent"} \cup Active \cup Terminal

\* The columns of a row of table jobs that the code decides by; outputs says
\* whether the job's output rows exist.  qid 0 is a null queue_job_id.
Row ==
  [ status  : Status,
    body    : Bodies \cup {None},
    qid     : 0 .. MaxTickets,
    error   : {"none", "QUEUE_UNAVAILABLE", "worker"},
    outputs : BOOLEAN ]

AbsentRow ==
  [ status |-> "absent", body |-> None, qid |-> 0, error |-> "none",
    outputs |-> FALSE ]

VARIABLES
  rows,     \* Keys -> Row: the committed rows
  wlock,    \* who holds the FOR UPDATE lock on the workspace row, or None
  api,      \* Handlers -> a call: where it is, its job, body and ORM object
  queue,    \* entries waiting in RQ; the lowest id is the oldest
  tickets,  \* how many entries RQ has accepted
  run,      \* Workers -> a run of process_job: where it is and what it read
  events,   \* <<job, s>>: event "job.s" was handed to the webhook service
  revived   \* history: jobs whose row has left a terminal status

vars == <<rows, wlock, api, queue, tickets, run, events, revived>>

ApiPC == {"idle", "admit", "recheck", "insert", "resume", "enqueue", "record",
          "refused", "unqueue", "cancel", "announce"}
RunPC == {"idle", "mark", "working", "validating", "failing", "announce"}

Call(pc, k, b, r) == [pc |-> pc, job |-> k, body |-> b, seen |-> r]
IdleCall == Call("idle", None, None, AbsentRow)
IdleRun  == [pc |-> "idle", job |-> None, seen |-> "absent"]

Calls == [pc : ApiPC, job : Keys \cup {None}, body : Bodies \cup {None}, seen : Row]
Runs  == [pc : RunPC, job : Keys \cup {None}, seen : Status]

TypeOK ==
  /\ rows \in [Keys -> Row]
  /\ wlock \in Handlers \cup {None}
  /\ api \in [Handlers -> Calls]
  /\ tickets \in 0 .. MaxTickets
  /\ queue \subseteq [job : Keys, id : 1 .. tickets]
  /\ run \in [Workers -> Runs]
  /\ events \subseteq Keys \X Terminal
  /\ revived \subseteq Keys

Init ==
  /\ rows = [k \in Keys |-> AbsentRow]
  /\ wlock = None
  /\ api = [h \in Handlers |-> IdleCall]
  /\ queue = {}
  /\ tickets = 0
  /\ run = [w \in Workers |-> IdleRun]
  /\ events = {}
  /\ revived = {}

-----------------------------------------------------------------------------
(* What the code computes from a row and writes to it.  A name that ends   *)
(* in _ and a word is the definition above it with a bug put in; the runs  *)
(* use it to show that the properties notice.                              *)

Exists(k) == rows[k].status # "absent"

\* _idempotent_match: the stored fingerprint must be the request's.
SameRequest_Ignored(r, b) == TRUE
SameRequest(r, b) == r.body = b

\* Only a job whose enqueue failed and that has no RQ id may be enqueued again.
NeverReachedQueue_AnyFailure(r) == r.status = "failed"
NeverReachedQueue(r) ==
  /\ r.qid = 0
  /\ r.status = "failed"
  /\ r.error = "QUEUE_UNAVAILABLE"

NewRow(b) == [AbsentRow EXCEPT !.status = "queued", !.body = b]

ResumedRow(r) == [r EXCEPT !.status = "queued", !.error = "none"]

\* queue_job_id is the only column the second commit has to write.
EnqueuedRow_WholeRow(r, seen) == seen
EnqueuedRow(r, seen) == [r EXCEPT !.qid = seen.qid]

RefusedRow_StillQueued(r) == [r EXCEPT !.error = "QUEUE_UNAVAILABLE"]
RefusedRow(r) ==
  [r EXCEPT !.status = "failed", !.error = "QUEUE_UNAVAILABLE"]

Cancelable(r) == r.status = "queued"

\* A run does not start on a job that is already over.
SkipsRun_SuccessOnly(r) == r.status \in Success
SkipsRun(r) == r.status \in Terminal

\* The ORM writes the status only if it differs from the one it loaded.
RunningRow(r, loaded) ==
  IF loaded = "running" THEN r ELSE [r EXCEPT !.status = "running"]

RegisteredRow_NoOutputs(r, s) == [r EXCEPT !.status = s]
RegisteredRow(r, s) == [r EXCEPT !.status = s, !.outputs = TRUE]

MarkedFailedRow_BadCode(r) == [r EXCEPT !.status = "failed", !.error = "failed"]
MarkedFailedRow(r) == [r EXCEPT !.status = "failed", !.error = "worker"]

\* The workspace's active jobs, as the quota check counts them.
ActiveJobs == {k \in Keys : rows[k].status \in Active}

WithinJobQuota == Cardinality(ActiveJobs) < ActiveJobLimit

\* Commit r as the row of k; revived remembers a row that leaves a terminal
\* status.
Commit(k, r) ==
  /\ rows' = [rows EXCEPT ![k] = r]
  /\ revived' = IF rows[k].status \in Terminal /\ r.status \in Active
                  THEN revived \cup {k} ELSE revived

Go(h, c) == api' = [api EXCEPT ![h] = c]
Holding(h, pc, r) == Call(pc, api[h].job, api[h].body, r)
At(h, pc) == Holding(h, pc, api[h].seen)
Work(w, pc, s) ==
  run' = [run EXCEPT ![w] = [pc |-> pc, job |-> run[w].job, seen |-> s]]

\* The end of a transaction, by commit or rollback, frees its locks.
Unlock(h) == wlock' = IF wlock = h THEN None ELSE wlock

-----------------------------------------------------------------------------
(* create_job                                                              *)

\* The first look, without a lock.  A replay of a job that is or was on the
\* queue returns it, and one with another body is refused: neither changes
\* anything.
MatchExisting(h, k, b) ==
  /\ "create" \in Operations
  /\ api[h].pc = "idle"
  /\ \/ ~Exists(k) /\ Go(h, Call("admit", k, b, rows[k]))
     \/ /\ SameRequest(rows[k], b) /\ NeverReachedQueue(rows[k])
        /\ Go(h, Call("resume", k, b, rows[k]))
  /\ UNCHANGED <<rows, wlock, queue, tickets, run, events, revived>>

\* enforce_job_quota: lock the workspace, then count.  The hourly limit is a
\* count over a moving window: it may refuse at any time.
EnforceJobQuota_NoLock(h) ==
  /\ api[h].pc = "admit"
  /\ Go(h, IF WithinJobQuota THEN At(h, "recheck") ELSE IdleCall)
  /\ UNCHANGED <<rows, wlock, queue, tickets, run, events, revived>>
EnforceJobQuota(h) ==
  /\ api[h].pc = "admit"
  /\ wlock = None
  /\ \/ WithinJobQuota /\ Go(h, At(h, "recheck")) /\ wlock' = h
     \/ Go(h, IdleCall) /\ UNCHANGED wlock
  /\ UNCHANGED <<rows, queue, tickets, run, events, revived>>

\* The second look, under the lock: a concurrent creator may have committed.
RecheckUnderLock_Skipped(h) ==
  /\ api[h].pc = "recheck"
  /\ Go(h, At(h, "insert"))
  /\ UNCHANGED <<rows, wlock, queue, tickets, run, events, revived>>
RecheckUnderLock(h) ==
  LET k == api[h].job  r == rows[k] IN
  /\ api[h].pc = "recheck"
  /\ \/ ~Exists(k) /\ Go(h, At(h, "insert")) /\ UNCHANGED wlock
     \/ /\ Exists(k) /\ SameRequest(r, api[h].body) /\ NeverReachedQueue(r)
        /\ Go(h, Call("resume", k, api[h].body, r)) /\ UNCHANGED wlock
     \/ /\ Exists(k)
        /\ ~(SameRequest(r, api[h].body) /\ NeverReachedQueue(r))
        /\ Go(h, IdleCall) /\ Unlock(h)
  /\ UNCHANGED <<rows, queue, tickets, run, events, revived>>

\* A document is missing or not validated, or the request is not valid.
RejectInputs(h) ==
  /\ api[h].pc = "insert"
  /\ Go(h, IdleCall) /\ Unlock(h)
  /\ UNCHANGED <<rows, queue, tickets, run, events, revived>>

\* Insert the job and its inputs.  The unique index cannot refuse the row
\* (InsertNeverConflicts), so the handler of IntegrityError has no action.
InsertJob(h) ==
  LET k == api[h].job  r == NewRow(api[h].body) IN
  /\ api[h].pc = "insert"
  /\ Commit(k, r)
  /\ Go(h, Holding(h, "enqueue", r)) /\ Unlock(h)
  /\ UNCHANGED <<queue, tickets, run, events>>

\* _resume_existing_job: back to queued, with what the row is now unread.
ResumeExistingJob(h) ==
  LET k == api[h].job IN
  /\ api[h].pc = "resume"
  /\ Commit(k, ResumedRow(rows[k]))
  /\ Go(h, Holding(h, "enqueue", ResumedRow(api[h].seen)))
  /\ Unlock(h)
  /\ UNCHANGED <<queue, tickets, run, events>>

\* enqueue_job: Redis takes the entry; the caller may not hear of it.
EnqueueJob(h) ==
  /\ api[h].pc = "enqueue"
  /\ tickets < MaxTickets
  /\ tickets' = tickets + 1
  /\ queue' = queue \cup {[job |-> api[h].job, id |-> tickets + 1]}
  /\ \/ Go(h, Holding(h, "record", [api[h].seen EXCEPT !.qid = tickets + 1]))
     \/ "replyLost" \in Faults /\ Go(h, At(h, "refused"))
  /\ UNCHANGED <<rows, wlock, run, events, revived>>

EnqueueRefused(h) ==
  /\ api[h].pc = "enqueue"
  /\ "queueDown" \in Faults
  /\ Go(h, At(h, "refused"))
  /\ UNCHANGED <<rows, wlock, queue, tickets, run, events, revived>>

\* The two ends of _enqueue_or_fail.  The first writes queue_job_id only, the
\* second the status too, whatever it has become.
RecordEnqueued(h) ==
  LET k == api[h].job IN
  /\ api[h].pc = "record"
  /\ Commit(k, EnqueuedRow(rows[k], api[h].seen))
  /\ Go(h, IdleCall)
  /\ UNCHANGED <<wlock, queue, tickets, run, events>>

RecordRefused(h) ==
  LET k == api[h].job IN
  /\ api[h].pc = "refused"
  /\ Commit(k, RefusedRow(rows[k]))
  /\ Go(h, IdleCall)
  /\ UNCHANGED <<wlock, queue, tickets, run, events>>

-----------------------------------------------------------------------------
(* cancel_job                                                              *)

\* Reads without a lock.  A canceled job is returned, another that is not
\* queued is refused: neither changes anything.
CancelJob(h, k) ==
  /\ "cancel" \in Operations
  /\ api[h].pc = "idle"
  /\ Cancelable(rows[k])
  /\ Go(h, Call("unqueue", k, None, rows[k]))
  /\ UNCHANGED <<rows, wlock, queue, tickets, run, events, revived>>

\* cancel_queued_rq_job: nothing to do without an RQ id, or when the entry is
\* gone.  An error ends the call: Redis is down, or RQ says that another call
\* has canceled the entry already.
CancelQueuedRqJob(h) ==
  /\ api[h].pc = "unqueue"
  /\ \/ /\ queue' = {e \in queue : e.id # api[h].seen.qid}
        /\ Go(h, At(h, "cancel"))
     \/ /\ api[h].seen.qid # 0
        /\ "queueDown" \in Faults \/ \A e \in queue : e.id # api[h].seen.qid
        /\ Go(h, IdleCall) /\ UNCHANGED queue
  /\ UNCHANGED <<rows, wlock, tickets, run, events, revived>>

CommitCancel(h) ==
  LET k == api[h].job IN
  /\ api[h].pc = "cancel"
  /\ Commit(k, [rows[k] EXCEPT !.status = "canceled"])
  /\ Go(h, At(h, "announce"))
  /\ UNCHANGED <<wlock, queue, tickets, run, events>>

AnnounceCancel(h) ==
  /\ api[h].pc = "announce"
  /\ \/ events' = events \cup {<<api[h].job, "canceled">>}
     \/ "webhookError" \in Faults /\ UNCHANGED events
  /\ Go(h, IdleCall)
  /\ UNCHANGED <<rows, wlock, queue, tickets, run, revived>>

\* The process dies: the open transaction is rolled back.
CrashHandler(h) ==
  /\ "apiCrash" \in Faults
  /\ api[h].pc # "idle"
  /\ Go(h, IdleCall) /\ Unlock(h)
  /\ UNCHANGED <<rows, queue, tickets, run, events, revived>>

-----------------------------------------------------------------------------
(* process_job                                                             *)

\* Take the oldest entry and read its job.
StartRun(w) ==
  /\ run[w].pc = "idle"
  /\ \E e \in queue :
       /\ \A f \in queue : e.id <= f.id
       /\ queue' = queue \ {e}
       /\ run' = [run EXCEPT ![w] =
            IF SkipsRun(rows[e.job]) THEN IdleRun
            ELSE [pc |-> "mark", job |-> e.job, seen |-> rows[e.job].status]]
  /\ UNCHANGED <<rows, wlock, api, tickets, events, revived>>

\* Each of these commits what follows from its own read, not from the row.
MarkRunning(w) ==
  LET k == run[w].job IN
  /\ run[w].pc = "mark"
  /\ Commit(k, RunningRow(rows[k], run[w].seen))
  /\ Work(w, "working", run[w].seen)
  /\ UNCHANGED <<wlock, api, queue, tickets, events>>

\* Download, validate and execute; then the job is validating.
CompleteOperation(w) ==
  LET k == run[w].job IN
  /\ run[w].pc = "working"
  /\ Commit(k, [rows[k] EXCEPT !.status = "validating"])
  /\ Work(w, "validating", run[w].seen)
  /\ UNCHANGED <<wlock, api, queue, tickets, events>>

\* Validate and stage the outputs, then register them and end the job in one
\* transaction under the workspace lock.
RegisterOutputs(w) ==
  LET k == run[w].job IN
  /\ run[w].pc = "validating"
  /\ wlock = None
  /\ ~rows[k].outputs
  /\ \E s \in Success :
       /\ Commit(k, RegisteredRow(rows[k], s))
       /\ Work(w, "announce", s)
  /\ UNCHANGED <<wlock, api, queue, tickets, events>>

\* Another run has registered outputs: the unique index of job_outputs.
DuplicateOutputs(w) ==
  /\ run[w].pc = "validating"
  /\ rows[run[w].job].outputs
  /\ Work(w, "failing", run[w].seen)
  /\ UNCHANGED <<rows, wlock, api, queue, tickets, events, revived>>

\* Any exception of the run: a bad input, a failed operation or assertion, a
\* quota, storage; and one raised after the registration.
RunRaises(w) ==
  /\ \/ run[w].pc \in {"mark", "working", "validating"}
     \/ /\ "lateError" \in Faults
        /\ run[w].pc = "announce" /\ run[w].seen \in Success
  /\ Work(w, "failing", run[w].seen)
  /\ UNCHANGED <<rows, wlock, api, queue, tickets, events, revived>>

\* _mark_failed, whatever the status is now.
MarkFailed(w) ==
  LET k == run[w].job IN
  /\ run[w].pc = "failing"
  /\ Commit(k, MarkedFailedRow(rows[k]))
  /\ Work(w, "announce", "failed")
  /\ UNCHANGED <<wlock, api, queue, tickets, events>>

AnnounceOutcome(w) ==
  /\ run[w].pc = "announce"
  /\ \/ events' = events \cup {<<run[w].job, run[w].seen>>}
     \/ "webhookError" \in Faults /\ UNCHANGED events
  /\ run' = [run EXCEPT ![w] = IdleRun]
  /\ UNCHANGED <<rows, wlock, api, queue, tickets, revived>>

CrashWorker(w) ==
  /\ "workerCrash" \in Faults
  /\ run[w].pc # "idle"
  /\ run' = [run EXCEPT ![w] = IdleRun]
  /\ UNCHANGED <<rows, wlock, api, queue, tickets, events, revived>>

-----------------------------------------------------------------------------
\* A client may call at any time.
ClientCalls(h) ==
  \E k \in Keys : CancelJob(h, k) \/ \E b \in Bodies : MatchExisting(h, k, b)

\* The steps a call in flight goes on with.
CallStep(h) ==
  \/ EnforceJobQuota(h) \/ RecheckUnderLock(h) \/ RejectInputs(h)
  \/ InsertJob(h) \/ ResumeExistingJob(h)
  \/ EnqueueJob(h) \/ EnqueueRefused(h) \/ RecordEnqueued(h) \/ RecordRefused(h)
  \/ CancelQueuedRqJob(h) \/ CommitCancel(h) \/ AnnounceCancel(h)

\* The steps a worker goes on with when nothing raises.
RunStep(w) ==
  \/ StartRun(w) \/ MarkRunning(w) \/ CompleteOperation(w) \/ DuplicateOutputs(w)
  \/ MarkFailed(w) \/ AnnounceOutcome(w)

Next ==
  \/ \E h \in Handlers : ClientCalls(h) \/ CallStep(h) \/ CrashHandler(h)
  \/ \E w \in Workers :
       RunStep(w) \/ RegisterOutputs(w) \/ RunRaises(w) \/ CrashWorker(w)

Spec == Init /\ [][Next]_vars

\* A call in flight and a worker with work go on; a worker that waits for the
\* workspace lock gets it, since Postgres grants row locks in order.
Fairness ==
  /\ \A h \in Handlers : WF_vars(CallStep(h))
  /\ \A w \in Workers : WF_vars(RunStep(w)) /\ SF_vars(RegisterOutputs(w))

FairSpec == Spec /\ Fairness

-----------------------------------------------------------------------------
(* Safety                                                                  *)

\* The unique index on (workspace, idempotency key) never refuses an insert:
\* a call that is about to insert holds the workspace lock and has looked
\* under it, so the winner of a race has committed or cannot exist.  The
\* IntegrityError branch of create_job is dead code in one database.
InsertNeverConflicts ==
  \A h \in Handlers : api[h].pc = "insert" => ~Exists(api[h].job)

\* A call that goes on with a job somebody else created asked for the same
\* thing, even when both raced through the unlocked look.
NoForeignReplay ==
  \A h \in Handlers :
    api[h].pc \in {"resume", "enqueue", "record", "refused"} =>
      rows[api[h].job].body = api[h].body

\* A job says it succeeded, in its row or in a webhook, only when its outputs
\* are registered, and only one of the two kinds of success is ever
\* announced, however often the job was enqueued or run.
SuccessIsRegisteredOnce ==
  \A k \in Keys :
    LET announced == {s \in Success : <<k, s>> \in events} IN
    /\ rows[k].status \in Success \/ announced # {} => rows[k].outputs
    /\ Cardinality(announced) <= 1

\* Nobody is at work on a finished job: no call in flight and no run past its
\* first read.  Entries of it may still wait in the queue.
Settled(k) ==
  /\ rows[k].status \in Terminal
  /\ ~NeverReachedQueue(rows[k])
  /\ \A h \in Handlers : api[h].job # k
  /\ \A w \in Workers : run[w].job # k

\* Once settled, forever settled: no replay, cancel or entry left in the
\* queue brings the job back to life or changes its outcome, under any of
\* the faults.  Whatever rewrites a terminal status began before it.
SettledStep ==
  \A k \in Keys : Settled(k) => Settled(k)' /\ rows'[k].status = rows[k].status
SettledStays == [][SettledStep]_vars

\* Admission holds the limit for the jobs it admitted: leaving aside jobs that
\* came back from a terminal status (which no admission counted), the active
\* jobs never exceed the limit, however many creators race.
CountedJobs == {k \in Keys : rows[k].status \in Active /\ k \notin revived}
AdmissionBound == Cardinality(CountedJobs) <= ActiveJobLimit

\* A job is in the queue or in a worker at most once, replays included:
\* "Jobs that already reached the queue are never enqueued twice" (README).
\* So it is with one client at a time and no lost reply.  Two replays at once
\* both find the job refused and both enqueue it.
OneDeliveryPerJob ==
  \A k \in Keys :
    Cardinality({e \in queue : e.job = k})
      + Cardinality({w \in Workers : run[w].job = k}) <= 1
=============================================================================
