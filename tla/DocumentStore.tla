---------------------------- MODULE DocumentStore ----------------------------
(***************************************************************************)
(* The documents of one workspace: a row in Postgres and an object in S3   *)
(* for each, written and removed by uploads (app/api/files.py), by the     *)
(* worker that registers a job's outputs (worker/runner.py), by deletes    *)
(* and the retention sweep (app/services/documents.py), and held by the    *)
(* jobs that need them as inputs (app/services/jobs.py).                   *)
(*                                                                         *)
(* No transaction spans the two stores.  The code orders its steps (the    *)
(* bytes before the row, whether it adds or removes) and locks rows: the   *)
(* workspace's to reserve quota, a document's to attach or purge it.  An   *)
(* action is one transaction, one lock wait or one call to S3.             *)
(* Storage keys hold a fresh uuid, so a document names its object too.     *)
(***************************************************************************)
EXTENDS Integers, FiniteSets

CONSTANTS
  Docs,        \* document ids, and so storage keys
  Jobs,        \* how many jobs can be unfinished at once
  Callers,     \* API requests that can be in flight at once
  Sweepers,    \* runs of worker.retention that can be in flight at once
  Workers,
  None,        \* a free lock
  DocLimit,    \* settings.workspace_document_limit
  SweepLimit,  \* the parameter limit of purge_expired_documents
  Rank,        \* Docs -> the place of a document in the order (created_at, id)
  MaxMishaps   \* bound: crashes and errors of Postgres or S3 in a behaviour

ASSUME ConstantsAssumption ==
  /\ IsFiniteSet(Docs)
  /\ None \notin Callers \cup Sweepers \cup Workers
  /\ DocLimit \in Nat
  /\ SweepLimit \in Nat
  /\ Rank \in [Docs -> Nat]
  /\ MaxMishaps \in Nat

Procs == Callers \cup Sweepers \cup Workers

\* A job as its inputs see it; "unqueued" is failed with QUEUE_UNAVAILABLE,
\* which a replay can take back.  A job that is over needs nothing any more:
\* its place is free for another.
JobStatus == {"none", "queued", "running", "unqueued"}
NoJob == [status |-> "none", inputs |-> {}]

PC == {"idle",
       "run", "reserve", "insert", "discard",   \* upload, and a worker's run
       "lock", "purge", "retire",               \* delete, and the sweep
       "attach"}                                \* create_job

Idle == [pc |-> "idle", docs |-> {}, left |-> {}, job |-> None]

VARIABLES
  row,      \* Docs -> "absent", "validated" or "deleted": the committed rows
  stored,   \* the documents whose bytes are in the bucket
  old,      \* the documents past the retention window
  dlock,    \* Docs -> who holds the FOR UPDATE lock on the row, or None
  wlock,    \* who holds the FOR UPDATE lock on the workspace row, or None
  job,      \* Jobs -> its status and inputs
  made,     \* the documents that a job produced (source_job_id is set)
  proc,     \* Procs -> what it does: the documents it is at and those left
  mishaps,  \* how many mishaps there have been
  struck,   \* history: documents that a mishap hit half way
  revived   \* history: jobs resumed by a replay

vars == <<row, stored, old, dlock, wlock, job, made, proc, mishaps, struck, revived>>

TypeOK ==
  /\ row \in [Docs -> {"absent", "validated", "deleted"}]
  /\ stored \subseteq Docs
  /\ old \subseteq Docs
  /\ dlock \in [Docs -> Procs \cup {None}]
  /\ wlock \in Procs \cup {None}
  /\ job \in [Jobs -> [status : JobStatus, inputs : SUBSET Docs]]
  /\ made \subseteq Docs
  /\ proc \in [Procs -> [pc : PC, docs : SUBSET Docs, left : SUBSET Docs,
                         job : Jobs \cup {None}]]
  /\ mishaps \in 0 .. MaxMishaps
  /\ struck \subseteq Docs
  /\ revived \subseteq Jobs

Init ==
  /\ row = [d \in Docs |-> "absent"]
  /\ stored = {}
  /\ old = {}
  /\ dlock = [d \in Docs |-> None]
  /\ wlock = None
  /\ job = [j \in Jobs |-> NoJob]
  /\ made = {}
  /\ proc = [p \in Procs |-> Idle]
  /\ mishaps = 0
  /\ struck = {}
  /\ revived = {}

-----------------------------------------------------------------------------
\* A name that ends in _ and a word is the definition above it with a bug.

Live == {d \in Docs : row[d] = "validated"}

\* enforce_document_quota: count, add, compare.
WithinDocumentQuota_Full(n) == Cardinality(Live) <= DocLimit
WithinDocumentQuota(n) == Cardinality(Live) + n <= DocLimit

\* The status purge_document gives a row.
Retired_Renamed == "retired"
Retired == "deleted"

ActiveJobStatuses == {"queued", "running"}

InActiveJob_QueuedOnly(d) ==
  \E j \in Jobs : job[j].status = "queued" /\ d \in job[j].inputs
InActiveJob(d) ==
  \E j \in Jobs : job[j].status \in ActiveJobStatuses /\ d \in job[j].inputs

\* An id no row, object or process has: new_id and uuid4.
Fresh(d) == row[d] = "absent" /\ d \notin stored /\ \A p \in Procs : d \notin proc[p].docs

At(p, pc) == proc[p].pc = pc
Go(p, s) == proc' = [proc EXCEPT ![p] = s]
GoAt(p, pc) == Go(p, [proc[p] EXCEPT !.pc = pc])

\* The end of a transaction frees the locks it took.
UnlockDocs(p) == dlock' = [d \in Docs |-> IF dlock[d] = p THEN None ELSE dlock[d]]
UnlockWorkspace(p) == wlock' = IF wlock = p THEN None ELSE wlock

EndRun(p) ==
  job' = [j \in Jobs |-> IF j = proc[p].job THEN NoJob ELSE job[j]]

Mishap == mishaps < MaxMishaps /\ mishaps' = mishaps + 1

-----------------------------------------------------------------------------
(* upload_file, and the worker's staging and registration of outputs: the  *)
(* object first, then quota and row in one transaction, then, if that      *)
(* raised, the object is dropped again.                                    *)

UploadFile(p) ==
  /\ p \in Callers /\ At(p, "idle")
  /\ \E d \in Docs :
       /\ Fresh(d)
       /\ stored' = stored \cup {d}
       /\ struck' = struck \ {d}
       /\ Go(p, [Idle EXCEPT !.pc = "reserve", !.docs = {d}])
  /\ UNCHANGED <<row, old, dlock, wlock, job, made, mishaps, revived>>

StartRun(p) ==
  /\ p \in Workers /\ At(p, "idle")
  /\ \E j \in Jobs :
       /\ job[j].status = "queued"
       /\ job' = [job EXCEPT ![j].status = "running"]
       /\ Go(p, [Idle EXCEPT !.pc = "run", !.job = j])
  /\ UNCHANGED <<row, stored, old, dlock, wlock, made, mishaps, struck, revived>>

\* The inputs are downloaded, the operation runs and its outputs pass: their
\* bytes are staged.
StageOutputs(p) ==
  /\ At(p, "run")
  /\ job[proc[p].job].inputs \subseteq stored
  /\ \E ds \in SUBSET Docs :
       /\ ds # {} /\ \A d \in ds : Fresh(d)
       /\ stored' = stored \cup ds
       /\ made' = made \cup ds
       /\ struck' = struck \ ds
       /\ Go(p, [proc[p] EXCEPT !.pc = "reserve", !.docs = ds])
  /\ UNCHANGED <<row, old, dlock, wlock, job, mishaps, revived>>

\* An upload fails half way through several outputs.  process_job has not
\* been told of those already stored and discards none of them.
StagingFails(p) ==
  /\ At(p, "run")
  /\ job[proc[p].job].inputs \subseteq stored
  /\ Mishap
  /\ \E ds \in SUBSET Docs :
       /\ ds # {} /\ \A d \in ds : Fresh(d)
       /\ stored' = stored \cup ds
       /\ struck' = struck \cup ds
  /\ EndRun(p) /\ Go(p, Idle)
  /\ UNCHANGED <<row, old, dlock, wlock, made, revived>>

\* Anything that fails before an output is staged, a missing input first.
RunFails(p) ==
  /\ At(p, "run")
  /\ EndRun(p) /\ Go(p, Idle)
  /\ UNCHANGED <<row, stored, old, dlock, wlock, made, mishaps, struck, revived>>

ReserveQuota_LeavesObject(p) ==
  /\ At(p, "reserve") /\ wlock = None
  /\ IF WithinDocumentQuota(Cardinality(proc[p].docs))
       THEN wlock' = p /\ GoAt(p, "insert") /\ UNCHANGED job
       ELSE Go(p, Idle) /\ EndRun(p) /\ UNCHANGED wlock
  /\ UNCHANGED <<row, stored, old, dlock, made, mishaps, struck, revived>>
ReserveQuota(p) ==
  /\ At(p, "reserve") /\ wlock = None
  /\ \/ /\ WithinDocumentQuota(Cardinality(proc[p].docs))
        /\ wlock' = p /\ GoAt(p, "insert")
     \/ /\ ~WithinDocumentQuota(Cardinality(proc[p].docs))
        /\ GoAt(p, "discard") /\ UNCHANGED wlock
  /\ UNCHANGED <<row, stored, old, dlock, job, made, mishaps, struck, revived>>

\* Rows of the documents, and the end of the job if there is one.
WriteRows(p) ==
  /\ row' = [d \in Docs |-> IF d \in proc[p].docs THEN "validated" ELSE row[d]]
  /\ EndRun(p)

CommitDocuments(p) ==
  /\ At(p, "insert")
  /\ WriteRows(p)
  /\ UnlockWorkspace(p) /\ Go(p, Idle)
  /\ UNCHANGED <<stored, old, dlock, made, mishaps, struck, revived>>

CommitFails(p) ==
  /\ At(p, "insert")
  /\ Mishap
  /\ UnlockWorkspace(p) /\ GoAt(p, "discard")
  /\ UNCHANGED <<row, stored, old, dlock, job, made, struck, revived>>

\* Postgres commits and the connection drops before the answer: the code sees
\* an exception and discards the bytes of rows that exist.
CommitReplyLost(p) ==
  /\ At(p, "insert")
  /\ Mishap
  /\ WriteRows(p)
  /\ struck' = struck \cup proc[p].docs
  /\ UnlockWorkspace(p) /\ GoAt(p, "discard")
  /\ UNCHANGED <<stored, old, dlock, made, revived>>

\* _discard_stored_object, and _discard_staged_outputs with _mark_failed.
DiscardObjects(p) ==
  /\ At(p, "discard")
  /\ stored' = stored \ proc[p].docs
  /\ EndRun(p) /\ Go(p, Idle)
  /\ UNCHANGED <<row, old, dlock, wlock, made, mishaps, struck, revived>>

\* S3 refuses some of the deletes: logged, and the objects stay.
DiscardFails(p) ==
  /\ At(p, "discard")
  /\ Mishap
  /\ \E kept \in SUBSET proc[p].docs :
       /\ kept # {}
       /\ stored' = stored \ (proc[p].docs \ kept)
       /\ struck' = struck \cup kept
  /\ EndRun(p) /\ Go(p, Idle)
  /\ UNCHANGED <<row, old, dlock, wlock, made, revived>>

-----------------------------------------------------------------------------
(* delete_document and purge_expired_documents: one locked document at a   *)
(* time through purge_document, the bytes before the row.                  *)

DeleteFile(p) ==
  /\ p \in Callers /\ At(p, "idle")
  /\ \E d \in Live : Go(p, [Idle EXCEPT !.pc = "lock", !.left = {d}])
  /\ UNCHANGED <<row, stored, old, dlock, wlock, job, made, mishaps, struck, revived>>

\* The documents a sweep is for.
Expired_DeletedToo == {d \in old : row[d] # "absent"}
Expired == Live \cap old

\* order_by(created_at, id).limit(limit)
Oldest(ds) == {d \in ds : Cardinality({e \in ds : Rank[e] < Rank[d]}) < SweepLimit}

\* The candidates are read once, without locks.
StartSweep(p) ==
  /\ p \in Sweepers /\ At(p, "idle")
  /\ Oldest(Expired) # {}
  /\ Go(p, [Idle EXCEPT !.pc = "lock", !.left = Oldest(Expired)])
  /\ UNCHANGED <<row, stored, old, dlock, wlock, job, made, mishaps, struck, revived>>

\* What p does after it is done with d: the next candidate or the end.
AfterDocument(p, d) ==
  IF proc[p].left \ {d} = {} THEN Idle
  ELSE [Idle EXCEPT !.pc = "lock", !.left = proc[p].left \ {d}]

\* Once the row is locked its status and the jobs are read again.
LockDocument(p) ==
  /\ At(p, "lock")
  /\ \E d \in proc[p].left :
       /\ dlock[d] = None
       /\ \/ /\ row[d] = "deleted" \/ InActiveJob(d)
             /\ Go(p, AfterDocument(p, d)) /\ UNCHANGED dlock
          \/ /\ row[d] # "deleted" /\ ~InActiveJob(d)
             /\ dlock' = [dlock EXCEPT ![d] = p]
             /\ Go(p, [proc[p] EXCEPT !.pc = "purge", !.docs = {d}, !.left = @ \ {d}])
  /\ UNCHANGED <<row, stored, old, wlock, job, made, mishaps, struck, revived>>

\* Deleting an absent key is not an error in S3.
DeleteObject_AbsentIsError(p) ==
  /\ At(p, "purge")
  /\ IF proc[p].docs \subseteq stored
       THEN stored' = stored \ proc[p].docs /\ GoAt(p, "retire") /\ UNCHANGED dlock
       ELSE UNCHANGED stored /\ UnlockDocs(p) /\ Go(p, Idle)
  /\ UNCHANGED <<row, old, wlock, job, made, mishaps, struck, revived>>
DeleteObject(p) ==
  /\ At(p, "purge")
  /\ stored' = stored \ proc[p].docs
  /\ GoAt(p, "retire")
  /\ UNCHANGED <<row, old, dlock, wlock, job, made, mishaps, struck, revived>>

\* The audit event of a produced document refers to the workspace, so its
\* insert waits for the lock on the workspace row.
RetireBlocked(p) == At(p, "retire") /\ proc[p].docs \cap made # {} /\ wlock # None

RetireDocument(p) ==
  /\ At(p, "retire") /\ ~RetireBlocked(p)
  /\ row' = [d \in Docs |-> IF d \in proc[p].docs THEN Retired ELSE row[d]]
  /\ UnlockDocs(p)
  /\ \E d \in proc[p].docs : Go(p, AfterDocument(p, d))
  /\ UNCHANGED <<stored, old, wlock, job, made, mishaps, struck, revived>>

\* S3 fails, with the object gone or not, or the transaction does (Postgres
\* may pick it to break a deadlock): the call or the whole sweep ends, and
\* the row is as it was.
PurgeFails(p) ==
  /\ At(p, "purge") \/ At(p, "retire")
  /\ Mishap
  /\ stored' \in {stored, stored \ proc[p].docs}
  /\ struck' = struck \cup proc[p].docs
  /\ UnlockDocs(p) /\ Go(p, Idle)
  /\ UNCHANGED <<row, old, wlock, job, made, revived>>

-----------------------------------------------------------------------------
(* create_job, from its admission on: lock every input, look at their      *)
(* status, and hold the locks until the job's inputs are committed.        *)

CreateJob(p) ==
  /\ p \in Callers /\ At(p, "idle") /\ wlock = None
  /\ \E j \in Jobs, ds \in SUBSET {d \in Docs : row[d] # "absent"} :
       /\ job[j] = NoJob /\ ds # {}
       /\ \A q \in Procs : proc[q].job # j
       /\ Go(p, [pc |-> "attach", docs |-> {}, left |-> ds, job |-> j])
  /\ wlock' = p
  /\ UNCHANGED <<row, stored, old, dlock, job, made, mishaps, struck, revived>>

LockInput(p) ==
  /\ At(p, "attach")
  /\ \E d \in proc[p].left :
       /\ dlock[d] = None
       /\ dlock' = [dlock EXCEPT ![d] = p]
       /\ Go(p, [proc[p] EXCEPT !.left = @ \ {d}, !.docs = @ \cup {d}])
  /\ UNCHANGED <<row, stored, old, wlock, job, made, mishaps, struck, revived>>

AttachInputs(p) ==
  /\ At(p, "attach") /\ proc[p].left = {}
  /\ \/ /\ proc[p].docs \subseteq Live
        /\ job' = [job EXCEPT ![proc[p].job] =
                     [status |-> "queued", inputs |-> proc[p].docs]]
     \/ ~(proc[p].docs \subseteq Live) /\ UNCHANGED job
  /\ revived' = revived \ {proc[p].job}
  /\ UnlockDocs(p) /\ UnlockWorkspace(p) /\ Go(p, Idle)
  /\ UNCHANGED <<row, stored, old, made, mishaps, struck>>

\* A purge that waits for the workspace lock holds a document its holder
\* waits for: Postgres aborts one of the two.
Deadlocked(p, q) ==
  /\ RetireBlocked(p) /\ wlock = q /\ At(q, "attach")
  /\ proc[q].left \cap proc[p].docs # {}

CreatorAborted(q) ==
  /\ \E p \in Procs : Deadlocked(p, q)
  /\ UnlockDocs(q) /\ UnlockWorkspace(q) /\ Go(q, Idle)
  /\ UNCHANGED <<row, stored, old, job, made, mishaps, struck, revived>>

\* What else can become of a job (JobLifecycle has the details): canceled
\* while it is queued, refused by the queue, and resumed by a replay, which
\* looks at none of its documents.
CancelJob(j) ==
  /\ job[j].status = "queued"
  /\ job' = [job EXCEPT ![j] = NoJob]
  /\ UNCHANGED <<row, stored, old, dlock, wlock, made, proc, mishaps, struck, revived>>

EnqueueRefused(j) ==
  /\ job[j].status = "queued"
  /\ job' = [job EXCEPT ![j].status = "unqueued"]
  /\ UNCHANGED <<row, stored, old, dlock, wlock, made, proc, mishaps, struck, revived>>

ResumeExistingJob(j) ==
  /\ job[j].status = "unqueued"
  /\ job' = [job EXCEPT ![j].status = "queued"]
  /\ revived' = revived \cup {j}
  /\ UNCHANGED <<row, stored, old, dlock, wlock, made, proc, mishaps, struck>>

-----------------------------------------------------------------------------
Expire(d) ==
  /\ row[d] = "validated" /\ d \notin old
  /\ old' = old \cup {d}
  /\ UNCHANGED <<row, stored, dlock, wlock, job, made, proc, mishaps, struck, revived>>

\* A process dies: its transaction is rolled back, its objects stay.
Crash(p) ==
  /\ ~At(p, "idle")
  /\ Mishap
  /\ struck' = IF At(p, "attach") THEN struck ELSE struck \cup proc[p].docs
  /\ UnlockDocs(p) /\ UnlockWorkspace(p) /\ Go(p, Idle)
  /\ UNCHANGED <<row, stored, old, job, made, revived>>

\* The steps a process goes on with.
Step(p) ==
  \/ StageOutputs(p) \/ RunFails(p) \/ ReserveQuota(p)
  \/ CommitDocuments(p) \/ DiscardObjects(p)
  \/ LockDocument(p) \/ DeleteObject(p) \/ RetireDocument(p)
  \/ LockInput(p) \/ AttachInputs(p) \/ CreatorAborted(p)

Starts(p) == UploadFile(p) \/ StartRun(p) \/ DeleteFile(p) \/ CreateJob(p)

Fails(p) ==
  \/ StagingFails(p) \/ CommitFails(p) \/ CommitReplyLost(p) \/ DiscardFails(p)
  \/ PurgeFails(p) \/ Crash(p)

Next ==
  \/ \E p \in Procs : Starts(p) \/ StartSweep(p) \/ Step(p) \/ Fails(p)
  \/ \E j \in Jobs : CancelJob(j) \/ EnqueueRefused(j) \/ ResumeExistingJob(j)
  \/ \E d \in Docs : Expire(d)

Spec == Init /\ [][Next]_vars

\* A process goes on, and gets the row lock it waits for in the end; the
\* operator schedules the sweep again and again.
Fairness ==
  /\ \A p \in Procs : SF_vars(Step(p))
  /\ \A p \in Sweepers : WF_vars(StartSweep(p))

FairSpec == Spec /\ Fairness

-----------------------------------------------------------------------------
\* The inputs of an unfinished job stay: from the commit of the job on no
\* delete and no sweep, whenever they looked, takes a row or (mishaps aside)
\* the bytes away.  Replayed jobs are the exception: nobody looks at their inputs.
InputsKept ==
  \A j \in Jobs \ revived :
    job[j].status \in ActiveJobStatuses =>
      \A d \in job[j].inputs : d \in Live /\ d \in stored \cup struck

\* Uploads and registrations that race for the last places never overrun the
\* workspace's document limit.
DocumentLimitHolds == Cardinality(Live) <= DocLimit

\* Rows and bytes agree on every document that no mishap has hit: a live row
\* has its bytes unless a purge that holds its lock has removed them, a
\* retired row has none, and bytes without a row belong to someone at work.
BytesMatchRows ==
  \A d \in Docs \ struck :
    /\ d \in Live /\ d \notin stored =>
         \E p \in Procs : At(p, "retire") /\ proc[p].docs = {d} /\ dlock[d] = p
    /\ row[d] = "deleted" => d \notin stored
    /\ d \in stored /\ row[d] = "absent" => \E p \in Procs : d \in proc[p].docs

\* Whatever went wrong with earlier sweeps and deletes, an expired document
\* is retired in the end unless an unfinished job needs it, or unfinished jobs
\* need so many older ones that these take all the places of a sweep.
ExpiredAreRetired ==
  \A d \in Docs :
    d \in Live \cap old ~>
      \/ row[d] = "deleted" \/ InActiveJob(d)
      \/ Cardinality({e \in Docs : Rank[e] < Rank[d] /\ InActiveJob(e)}) >= SweepLimit
=============================================================================
