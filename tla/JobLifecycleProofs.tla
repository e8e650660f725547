------------------------ MODULE JobLifecycleProofs -------------------------
(***************************************************************************)
(* Theorems about JobLifecycle for every number of jobs, calls and workers *)
(* and every set of faults; and that it implements the steps of            *)
(* JobContract as long as one client at a time creates and replays jobs.   *)
(***************************************************************************)
EXTENDS JobRefinement, FiniteSetTheorems, TLAPS

\* A call or a run that is not idle is about a job.
ApiOK == /\ api \in [Handlers -> Calls]
         /\ \A h \in Handlers : api[h].pc # "idle" => api[h].job \in Keys
RunOK == /\ run \in [Workers -> Runs]
         /\ \A w \in Workers :
              /\ run[w].pc # "idle" => run[w].job \in Keys
              /\ run[w].pc = "announce" => run[w].seen \in Terminal

TypeInv == TypeOK /\ ApiOK /\ RunOK

\* The row a step commits is a row.
LEMMA RowsTyped ==
  ASSUME NEW r \in Row, NEW b \in Bodies \cup {None}, NEW s \in Success,
         NEW q \in Row, NEW l
  PROVE  /\ AbsentRow \in Row
         /\ NewRow(b) \in Row
         /\ ResumedRow(r) \in Row
         /\ RefusedRow(r) \in Row
         /\ EnqueuedRow(r, q) \in Row
         /\ RunningRow(r, l) \in Row
         /\ RegisteredRow(r, s) \in Row
         /\ MarkedFailedRow(r) \in Row
         /\ [r EXCEPT !.status = "canceled"] \in Row
         /\ [r EXCEPT !.status = "validating"] \in Row
<1> USE DEF Row, Status, Active, Success, Terminal
<1>1. AbsentRow \in Row
  BY ConstantsAssumption DEF AbsentRow
<1>2. NewRow(b) \in Row
  BY <1>1 DEF NewRow
<1>3. ResumedRow(r) \in Row
  BY DEF ResumedRow
<1>4. RefusedRow(r) \in Row
  BY DEF RefusedRow
<1>5. EnqueuedRow(r, q) \in Row
  BY DEF EnqueuedRow
<1>6. RunningRow(r, l) \in Row
  BY DEF RunningRow
<1>7. RegisteredRow(r, s) \in Row
  BY DEF RegisteredRow
<1>8. MarkedFailedRow(r) \in Row
  BY DEF MarkedFailedRow
<1>9. [r EXCEPT !.status = "canceled"] \in Row
  OBVIOUS
<1>10. [r EXCEPT !.status = "validating"] \in Row
  OBVIOUS
<1> QED
  BY <1>1, <1>2, <1>3, <1>4, <1>5, <1>6, <1>7, <1>8, <1>9, <1>10

LEMMA InitTyped == Init => TypeInv
<1>1. AbsentRow \in Row
  BY RowsTyped, ConstantsAssumption DEF Row, AbsentRow, Status
<1> QED
  BY <1>1, ConstantsAssumption
     DEF Init, TypeInv, TypeOK, ApiOK, RunOK, IdleCall, IdleRun, Call, Calls, Runs,
         ApiPC, RunPC, Status

-----------------------------------------------------------------------------
(* What the actions share: a commit keeps the rows typed, and a call or a  *)
(* run moves to a typed state.                                             *)

LEMMA CommitTyped ==
  ASSUME TypeInv, NEW k \in Keys, NEW r \in Row, Commit(k, r)
  PROVE  rows' \in [Keys -> Row] /\ revived' \subseteq Keys
BY DEF TypeInv, TypeOK, Commit

LEMMA GoTyped ==
  ASSUME TypeInv, NEW h \in Handlers, NEW pc \in ApiPC, NEW k \in Keys,
         NEW b \in Bodies \cup {None}, NEW r \in Row,
         Go(h, Call(pc, k, b, r))
  PROVE  ApiOK'
BY DEF TypeInv, ApiOK, Calls, Go, Call

LEMMA IdleTyped ==
  ASSUME TypeInv, NEW h \in Handlers, Go(h, IdleCall)
  PROVE  ApiOK'
<1>1. AbsentRow \in Row
  BY ConstantsAssumption DEF Row, AbsentRow, Status
<1> QED
  BY <1>1 DEF TypeInv, ApiOK, Calls, Go, IdleCall, Call, ApiPC

LEMMA CallTyped ==
  ASSUME TypeInv, NEW h \in Handlers, api[h].pc # "idle"
  PROVE  /\ api[h].job \in Keys
         /\ api[h].body \in Bodies \cup {None}
         /\ api[h].seen \in Row
         /\ rows[api[h].job] \in Row
BY DEF TypeInv, TypeOK, ApiOK, Calls

\* A call that moves on keeps its job and body.
LEMMA HoldingTyped ==
  ASSUME TypeInv, NEW h \in Handlers, NEW pc \in ApiPC, NEW r \in Row,
         api[h].pc # "idle", Go(h, Holding(h, pc, r))
  PROVE  ApiOK'
BY CallTyped, GoTyped DEF Holding

LEMMA AtTyped ==
  ASSUME TypeInv, NEW h \in Handlers, NEW pc \in ApiPC,
         api[h].pc # "idle", Go(h, At(h, pc))
  PROVE  ApiOK'
BY CallTyped, HoldingTyped DEF At

LEMMA WorkTyped ==
  ASSUME TypeInv, NEW w \in Workers, NEW pc \in RunPC, NEW s \in Status,
         run[w].pc # "idle", pc = "announce" => s \in Terminal, Work(w, pc, s)
  PROVE  RunOK'
BY DEF TypeInv, RunOK, Runs, Work

LEMMA IdleRunTyped ==
  ASSUME TypeInv, NEW w \in Workers, run' = [run EXCEPT ![w] = IdleRun]
  PROVE  RunOK'
BY DEF TypeInv, RunOK, Runs, IdleRun, RunPC, Status

LEMMA UnlockTyped ==
  ASSUME TypeInv, NEW h \in Handlers, Unlock(h)
  PROVE  wlock' \in Handlers \cup {None}
BY DEF TypeInv, TypeOK, Unlock

LEMMA CallStepTyped ==
  ASSUME TypeInv, NEW h \in Handlers, CallStep(h)
  PROVE  TypeInv'
<1> USE DEF TypeInv
<1>1. CASE EnforceJobQuota(h)
  <2>1. ApiOK'
    BY <1>1, AtTyped, IdleTyped DEF EnforceJobQuota, ApiPC
  <2> QED
    BY <1>1, <2>1 DEF EnforceJobQuota, TypeOK, ApiOK, RunOK
<1>2. CASE RecheckUnderLock(h)
  <2>1. ApiOK'
    BY <1>2, AtTyped, GoTyped, IdleTyped, CallTyped DEF RecheckUnderLock, ApiPC
  <2> QED
    BY <1>2, <2>1, UnlockTyped DEF RecheckUnderLock, TypeOK, ApiOK, RunOK
<1>3. CASE RejectInputs(h)
  BY <1>3, IdleTyped, UnlockTyped DEF RejectInputs, TypeOK, ApiOK, RunOK
<1>4. CASE InsertJob(h)
  <2>1. NewRow(api[h].body) \in Row
    BY <1>4, CallTyped, RowsTyped DEF InsertJob, Success
  <2>2. ApiOK'
    BY <1>4, <2>1, HoldingTyped DEF InsertJob, ApiPC
  <2> QED
    BY <1>4, <2>1, <2>2, CallTyped, CommitTyped, UnlockTyped
       DEF InsertJob, TypeOK, ApiOK, RunOK
<1>5. CASE ResumeExistingJob(h)
  <2>1. ResumedRow(rows[api[h].job]) \in Row /\ ResumedRow(api[h].seen) \in Row
    BY <1>5, CallTyped, RowsTyped DEF ResumeExistingJob, Success
  <2>2. ApiOK'
    BY <1>5, <2>1, HoldingTyped DEF ResumeExistingJob, ApiPC
  <2> QED
    BY <1>5, <2>1, <2>2, CallTyped, CommitTyped, UnlockTyped
       DEF ResumeExistingJob, TypeOK, ApiOK, RunOK
<1>6. CASE EnqueueJob(h)
  <2>1. /\ tickets + 1 \in 0 .. MaxTickets /\ tickets \in Nat
        /\ [api[h].seen EXCEPT !.qid = tickets + 1] \in Row
    BY <1>6, CallTyped, ConstantsAssumption DEF EnqueueJob, TypeOK, Row
  <2>2. ApiOK'
    BY <1>6, <2>1, HoldingTyped, AtTyped DEF EnqueueJob, ApiPC
  <2>3. queue' \subseteq [job : Keys, id : 1 .. tickets']
    BY <1>6, <2>1, CallTyped DEF EnqueueJob, TypeOK
  <2> QED
    BY <1>6, <2>1, <2>2, <2>3 DEF EnqueueJob, TypeOK, ApiOK, RunOK
<1>7. CASE EnqueueRefused(h)
  BY <1>7, AtTyped DEF EnqueueRefused, ApiPC, TypeOK, ApiOK, RunOK
<1>8. CASE RecordEnqueued(h)
  <2>1. EnqueuedRow(rows[api[h].job], api[h].seen) \in Row
    BY <1>8, CallTyped, RowsTyped DEF RecordEnqueued, Success
  <2> QED
    BY <1>8, <2>1, CallTyped, CommitTyped, IdleTyped
       DEF RecordEnqueued, TypeOK, ApiOK, RunOK
<1>9. CASE RecordRefused(h)
  <2>1. RefusedRow(rows[api[h].job]) \in Row
    BY <1>9, CallTyped, RowsTyped DEF RecordRefused, Success
  <2> QED
    BY <1>9, <2>1, CallTyped, CommitTyped, IdleTyped
       DEF RecordRefused, TypeOK, ApiOK, RunOK
<1>10. CASE CancelQueuedRqJob(h)
  <2>1. ApiOK'
    BY <1>10, AtTyped, IdleTyped DEF CancelQueuedRqJob, ApiPC
  <2> QED
    BY <1>10, <2>1 DEF CancelQueuedRqJob, TypeOK, ApiOK, RunOK
<1>11. CASE CommitCancel(h)
  <2>1. [rows[api[h].job] EXCEPT !.status = "canceled"] \in Row
    BY <1>11, CallTyped, RowsTyped DEF CommitCancel, Success
  <2>2. ApiOK'
    BY <1>11, AtTyped DEF CommitCancel, ApiPC
  <2> QED
    BY <1>11, <2>1, <2>2, CallTyped, CommitTyped DEF CommitCancel, TypeOK, ApiOK, RunOK
<1>12. CASE AnnounceCancel(h)
  <2>1. <<api[h].job, "canceled">> \in Keys \X Terminal
    BY <1>12, CallTyped DEF AnnounceCancel, Terminal
  <2> QED
    BY <1>12, <2>1, IdleTyped DEF AnnounceCancel, TypeOK, ApiOK, RunOK
<1> QED
  BY <1>1, <1>2, <1>3, <1>4, <1>5, <1>6, <1>7, <1>8, <1>9, <1>10, <1>11, <1>12
     DEF CallStep

LEMMA WorkerStepTyped ==
  ASSUME TypeInv, NEW w \in Workers,
         RunStep(w) \/ RegisterOutputs(w) \/ RunRaises(w) \/ CrashWorker(w)
  PROVE  TypeInv'
<1> USE DEF TypeInv
<1>0. /\ run[w].pc # "idle" => run[w].job \in Keys /\ rows[run[w].job] \in Row
      /\ run[w].seen \in Status
      /\ "failed" \in Terminal /\ Success \subseteq Terminal /\ Terminal \subseteq Status
  BY DEF TypeOK, RunOK, Runs, Status, Success, Terminal
<1>1. CASE StartRun(w)
  <2>1. PICK e \in queue :
          run' = [run EXCEPT ![w] =
            IF SkipsRun(rows[e.job]) THEN IdleRun
            ELSE [pc |-> "mark", job |-> e.job, seen |-> rows[e.job].status]]
    BY <1>1 DEF StartRun
  <2>2. e.job \in Keys /\ rows[e.job].status \in Status
    BY DEF TypeOK, Row
  <2>3. RunOK'
    BY <2>1, <2>2 DEF RunOK, Runs, IdleRun, RunPC, Status
  <2> QED
    BY <1>1, <2>3 DEF StartRun, TypeOK, ApiOK, RunOK
<1>2. CASE MarkRunning(w)
  <2>1. RunningRow(rows[run[w].job], run[w].seen) \in Row
    BY <1>0, <1>2, RowsTyped DEF MarkRunning, Success
  <2> QED
    BY <1>0, <1>2, <2>1, CommitTyped, WorkTyped DEF MarkRunning, RunPC, TypeOK, ApiOK, RunOK
<1>3. CASE CompleteOperation(w)
  <2>1. [rows[run[w].job] EXCEPT !.status = "validating"] \in Row
    BY <1>0, <1>3, RowsTyped DEF CompleteOperation, Success
  <2> QED
    BY <1>0, <1>3, <2>1, CommitTyped, WorkTyped
       DEF CompleteOperation, RunPC, TypeOK, ApiOK, RunOK
<1>4. CASE DuplicateOutputs(w)
  BY <1>0, <1>4, WorkTyped DEF DuplicateOutputs, RunPC, TypeOK, ApiOK, RunOK
<1>5. CASE MarkFailed(w)
  <2>1. MarkedFailedRow(rows[run[w].job]) \in Row
    BY <1>0, <1>5, RowsTyped DEF MarkFailed, Success
  <2> QED
    BY <1>0, <1>5, <2>1, CommitTyped, WorkTyped DEF MarkFailed, RunPC, TypeOK, ApiOK, RunOK
<1>6. CASE AnnounceOutcome(w)
  <2>1. RunOK'
    BY <1>6, IdleRunTyped DEF AnnounceOutcome
  <2>2. run[w].seen \in Terminal
    BY <1>6 DEF AnnounceOutcome, RunOK
  <2> QED
    BY <1>0, <1>6, <2>1, <2>2 DEF AnnounceOutcome, TypeOK, ApiOK, RunOK
<1>7. CASE RegisterOutputs(w)
  <2>1. PICK s \in Success : Commit(run[w].job, RegisteredRow(rows[run[w].job], s))
                             /\ Work(w, "announce", s)
    BY <1>7 DEF RegisterOutputs
  <2>2. RegisteredRow(rows[run[w].job], s) \in Row
    BY <1>0, <1>7, RowsTyped DEF RegisterOutputs
  <2>3. RunOK'
    BY <1>0, <1>7, <2>1, WorkTyped DEF RegisterOutputs, RunPC
  <2> QED
    BY <1>0, <1>7, <2>1, <2>2, <2>3, CommitTyped DEF RegisterOutputs, TypeOK, ApiOK, RunOK
<1>8. CASE RunRaises(w)
  BY <1>0, <1>8, WorkTyped DEF RunRaises, RunPC, TypeOK, ApiOK, RunOK
<1>9. CASE CrashWorker(w)
  BY <1>9, IdleRunTyped DEF CrashWorker, TypeOK, ApiOK, RunOK
<1> QED
  BY <1>1, <1>2, <1>3, <1>4, <1>5, <1>6, <1>7, <1>8, <1>9 DEF RunStep

LEMMA NextTyped == TypeInv /\ [Next]_vars => TypeInv'
<1> SUFFICES ASSUME TypeInv, [Next]_vars PROVE TypeInv'
  OBVIOUS
<1> USE DEF TypeInv
<1>1. ASSUME NEW h \in Handlers, NEW k \in Keys, NEW b \in Bodies, MatchExisting(h, k, b)
      PROVE  TypeInv'
  <2>1. rows[k] \in Row
    BY DEF TypeOK
  <2>2. ApiOK'
    BY <1>1, <2>1, GoTyped DEF MatchExisting, ApiPC
  <2> QED
    BY <1>1, <2>2 DEF MatchExisting, TypeOK, ApiOK, RunOK
<1>2. ASSUME NEW h \in Handlers, NEW k \in Keys, CancelJob(h, k)
      PROVE  TypeInv'
  <2>1. rows[k] \in Row
    BY DEF TypeOK
  <2>2. ApiOK'
    BY <1>2, <2>1, GoTyped DEF CancelJob, ApiPC
  <2> QED
    BY <1>2, <2>2 DEF CancelJob, TypeOK, ApiOK, RunOK
<1>3. ASSUME NEW h \in Handlers, CrashHandler(h)
      PROVE  TypeInv'
  BY <1>3, IdleTyped, UnlockTyped DEF CrashHandler, TypeOK, ApiOK, RunOK
<1>4. CASE UNCHANGED vars
  BY <1>4 DEF vars, TypeOK, ApiOK, RunOK
<1> QED
  BY <1>1, <1>2, <1>3, <1>4, CallStepTyped, WorkerStepTyped DEF Next, ClientCalls

\* Type correctness, for every size of the system and every set of faults.
THEOREM TypeCorrect == Spec => []TypeInv
<1>1. Init => TypeInv
  BY InitTyped
<1>2. TypeInv /\ [Next]_vars => TypeInv'
  BY NextTyped
<1> QED
  BY <1>1, <1>2, PTL DEF Spec

THEOREM TypesHold == Spec => []TypeOK
<1>1. TypeInv => TypeOK
  BY DEF TypeInv
<1> QED
  BY <1>1, TypeCorrect, PTL

-----------------------------------------------------------------------------
(* The inductive invariant behind the safety invariants.  InsertNeverCon-  *)
(* flicts needs the workspace lock, NoForeignReplay needs the job to exist *)
(* and its body never to change, and SuccessIsRegisteredOnce needs the     *)
(* announcements that runs still owe.                                      *)

OwnsRow == {"resume", "enqueue", "record", "refused", "unqueue", "cancel", "announce"}

\* Where a call stands is backed by the lock and by the row.
CallsBacked ==
  /\ \A h \in Handlers :
       /\ api[h].pc \in {"recheck", "insert"} => wlock = h
       /\ api[h].pc \in OwnsRow => Exists(api[h].job)
  /\ InsertNeverConflicts
  /\ NoForeignReplay

\* Entries and runs are about jobs that exist.
RunsBacked ==
  /\ \A e \in queue : Exists(e.job)
  /\ \A w \in Workers : run[w].pc # "idle" => Exists(run[w].job)

\* A success is claimed for k by an event sent or one a run is about to send.
Claimed(k, s) ==
  \/ <<k, s>> \in events
  \/ \E w \in Workers : run[w] = [pc |-> "announce", job |-> k, seen |-> s]

ClaimsBacked ==
  \A k \in Keys :
    /\ ~Exists(k) => ~rows[k].outputs
    /\ rows[k].status \in Success => rows[k].outputs
    /\ \A s \in Success : Claimed(k, s) => rows[k].outputs
    /\ \A s, t \in Success : Claimed(k, s) /\ Claimed(k, t) => s = t

JobInv == TypeInv /\ CallsBacked /\ RunsBacked /\ ClaimsBacked

\* What every commit but an insert leaves of the rows.
RowsKept ==
  \A k \in Keys :
    /\ ~Exists(k) => rows'[k] = rows[k]
    /\ Exists(k) => rows'[k].status # "absent" /\ rows'[k].body = rows[k].body
    /\ rows[k].outputs => rows'[k].outputs
    /\ rows'[k].status \in Success => rows'[k].outputs

LEMMA CommitKeepsRows ==
  ASSUME JobInv, NEW k \in Keys, NEW r, Exists(k), Commit(k, r),
         r.status # "absent", r.body = rows[k].body,
         rows[k].outputs => r.outputs, r.status \in Success => r.outputs
  PROVE  RowsKept
BY DEF JobInv, TypeInv, TypeOK, ClaimsBacked, RowsKept, Commit, Exists

LEMMA SameRowsKept == ASSUME JobInv, UNCHANGED rows PROVE RowsKept
BY DEF JobInv, ClaimsBacked, RowsKept, Exists

LEMMA InitSafe == Init => JobInv
<1> SUFFICES ASSUME Init PROVE JobInv
  OBVIOUS
<1>1. TypeInv
  BY InitTyped
<1>2. CallsBacked /\ RunsBacked
  BY DEF Init, CallsBacked, RunsBacked, InsertNeverConflicts, NoForeignReplay, OwnsRow,
         IdleCall, IdleRun, Call
<1>3. ClaimsBacked
  BY DEF Init, ClaimsBacked, Claimed, AbsentRow, Exists, Success, IdleRun
<1> QED
  BY <1>1, <1>2, <1>3 DEF JobInv

\* An update of the status alone keeps the body and the outputs.
LEMMA UpdatesKeep ==
  ASSUME NEW r \in Row, NEW s
  PROVE  /\ [r EXCEPT !.status = s].status = s
         /\ [r EXCEPT !.status = s].body = r.body
         /\ [r EXCEPT !.status = s].outputs = r.outputs
         /\ ResumedRow(r).status = "queued"
         /\ ResumedRow(r).body = r.body
         /\ ResumedRow(r).outputs = r.outputs
         /\ RefusedRow(r).status = "failed"
         /\ RefusedRow(r).body = r.body
         /\ RefusedRow(r).outputs = r.outputs
         /\ MarkedFailedRow(r).status = "failed"
         /\ MarkedFailedRow(r).body = r.body
         /\ MarkedFailedRow(r).outputs = r.outputs
BY DEF Row, ResumedRow, RefusedRow, MarkedFailedRow

\* Rows of the calls' steps.
LEMMA CallStepRows ==
  ASSUME JobInv, NEW h \in Handlers, CallStep(h), ~InsertJob(h)
  PROVE  RowsKept
<1> DEFINE k == api[h].job
<1>0. api[h].pc \in OwnsRow => k \in Keys /\ rows[k] \in Row /\ Exists(k)
                               /\ (rows[k].status \in Success => rows[k].outputs)
  BY CallTyped DEF JobInv, CallsBacked, ClaimsBacked, OwnsRow
<1> USE DEF OwnsRow, Success
<1>1. CASE ResumeExistingJob(h)
  BY <1>0, <1>1, CommitKeepsRows, UpdatesKeep DEF ResumeExistingJob
<1>2. CASE RecordEnqueued(h)
  BY <1>0, <1>2, CommitKeepsRows DEF RecordEnqueued, EnqueuedRow, Row, Exists
<1>3. CASE RecordRefused(h)
  BY <1>0, <1>3, CommitKeepsRows, UpdatesKeep DEF RecordRefused
<1>4. CASE CommitCancel(h)
  <2> DEFINE r == [rows[k] EXCEPT !.status = "canceled"]
  <2>1. r.status = "canceled" /\ r.body = rows[k].body /\ r.outputs = rows[k].outputs
    BY <1>0, <1>4, UpdatesKeep DEF CommitCancel
  <2>2. Commit(k, r) /\ k \in Keys /\ Exists(k)
    BY <1>0, <1>4 DEF CommitCancel
  <2> HIDE DEF r, k
  <2> QED
    BY <2>1, <2>2, CommitKeepsRows
<1> QED
  BY <1>1, <1>2, <1>3, <1>4, SameRowsKept
     DEF CallStep, EnforceJobQuota, RecheckUnderLock, RejectInputs, EnqueueJob,
         EnqueueRefused, CancelQueuedRqJob, AnnounceCancel

LEMMA WorkerStepRows ==
  ASSUME JobInv, NEW w \in Workers,
         RunStep(w) \/ RegisterOutputs(w) \/ RunRaises(w) \/ CrashWorker(w)
  PROVE  RowsKept
<1> DEFINE k == run[w].job
<1>0. run[w].pc # "idle" => k \in Keys /\ rows[k] \in Row /\ Exists(k)
                            /\ (rows[k].status \in Success => rows[k].outputs)
  BY DEF JobInv, TypeInv, TypeOK, RunOK, RunsBacked, ClaimsBacked
<1> USE DEF Success
<1>1. CASE MarkRunning(w)
  BY <1>0, <1>1, CommitKeepsRows DEF MarkRunning, RunningRow, Row, Exists
<1>2. CASE CompleteOperation(w)
  <2> DEFINE r == [rows[k] EXCEPT !.status = "validating"]
  <2>1. r.status = "validating" /\ r.body = rows[k].body /\ r.outputs = rows[k].outputs
    BY <1>0, <1>2, UpdatesKeep DEF CompleteOperation
  <2>2. Commit(k, r) /\ k \in Keys /\ Exists(k)
    BY <1>0, <1>2 DEF CompleteOperation
  <2> HIDE DEF r, k
  <2> QED
    BY <2>1, <2>2, CommitKeepsRows
<1>3. CASE MarkFailed(w)
  <2> DEFINE r == MarkedFailedRow(rows[k])
  <2>1. r.status = "failed" /\ r.body = rows[k].body /\ r.outputs = rows[k].outputs
    BY <1>0, <1>3, UpdatesKeep DEF MarkFailed
  <2>2. Commit(k, r) /\ k \in Keys /\ Exists(k)
    BY <1>0, <1>3 DEF MarkFailed
  <2> HIDE DEF r, k
  <2> QED
    BY <2>1, <2>2, CommitKeepsRows
<1>4. CASE RegisterOutputs(w)
  <2>1. PICK s \in Success : Commit(k, RegisteredRow(rows[k], s))
    BY <1>4 DEF RegisterOutputs
  <2> DEFINE r == RegisteredRow(rows[k], s)
  <2>2. r.status = s /\ r.body = rows[k].body /\ r.outputs
    BY <1>0, <1>4 DEF RegisterOutputs, RegisteredRow, Row
  <2>3. Commit(k, r) /\ k \in Keys /\ Exists(k)
    BY <1>0, <1>4, <2>1 DEF RegisterOutputs
  <2> HIDE DEF r, k
  <2> QED
    BY <2>2, <2>3, CommitKeepsRows
<1> QED
  BY <1>1, <1>2, <1>3, <1>4, SameRowsKept
     DEF RunStep, StartRun, DuplicateOutputs, AnnounceOutcome, RunRaises, CrashWorker

\* A step of a run leaves the calls backed: it keeps the rows.
LEMMA KeptRowsBackCalls ==
  ASSUME JobInv, RowsKept, UNCHANGED <<wlock, api>>
  PROVE  CallsBacked'
BY DEF JobInv, TypeInv, ApiOK, CallsBacked, RowsKept, Exists, InsertNeverConflicts,
       NoForeignReplay, OwnsRow

\* A step of a call leaves the runs backed, if it adds only entries of jobs
\* that exist.
LEMMA KeptRowsBackRuns ==
  ASSUME JobInv, RowsKept, UNCHANGED run,
         \A e \in queue' : e \in queue \/ (e.job \in Keys /\ Exists(e.job))
  PROVE  RunsBacked'
BY DEF JobInv, TypeInv, TypeOK, RunOK, RunsBacked, RowsKept, Exists

\* Claims stay backed when no new one is made.
LEMMA KeptRowsBackClaims ==
  ASSUME JobInv, RowsKept,
         \A k \in Keys : \A s \in Success : Claimed(k, s)' => Claimed(k, s)
  PROVE  ClaimsBacked'
<1>1. ASSUME NEW k \in Keys
      PROVE  /\ ~Exists(k)' => ~rows'[k].outputs
             /\ rows'[k].status \in Success => rows'[k].outputs
  BY DEF JobInv, ClaimsBacked, RowsKept, Exists
<1>2. ASSUME NEW k \in Keys, NEW s \in Success, Claimed(k, s)'
      PROVE  rows'[k].outputs
  BY <1>2 DEF JobInv, ClaimsBacked, RowsKept
<1>3. ASSUME NEW k \in Keys, NEW s \in Success, NEW t \in Success,
             Claimed(k, s)', Claimed(k, t)'
      PROVE  s = t
  BY <1>3 DEF JobInv, ClaimsBacked
<1> QED
  BY <1>1, <1>2, <1>3 DEF ClaimsBacked

LEMMA WorkerStepSafe ==
  ASSUME JobInv, NEW w \in Workers,
         RunStep(w) \/ RegisterOutputs(w) \/ RunRaises(w) \/ CrashWorker(w)
  PROVE  CallsBacked' /\ RunsBacked' /\ ClaimsBacked'
<1>0. RowsKept
  BY WorkerStepRows
<1>1. CallsBacked'
  BY <1>0, KeptRowsBackCalls DEF RunStep, StartRun, MarkRunning, CompleteOperation,
     DuplicateOutputs, MarkFailed, AnnounceOutcome, RegisterOutputs, RunRaises, CrashWorker
<1>2. RunsBacked'
  <2>1. /\ queue' \subseteq queue
        /\ \/ UNCHANGED run
           \/ run' = [run EXCEPT ![w] = IdleRun]
           \/ run[w].pc # "idle" /\ \E pc, s : Work(w, pc, s)
           \/ \E e \in queue : \E s :
                run' = [run EXCEPT ![w] = [pc |-> "mark", job |-> e.job, seen |-> s]]
    BY DEF RunStep, StartRun, MarkRunning, CompleteOperation, DuplicateOutputs,
       MarkFailed, AnnounceOutcome, RegisterOutputs, RunRaises, CrashWorker
  <2> QED
    BY <1>0, <2>1 DEF JobInv, TypeInv, TypeOK, RunOK, RunsBacked, RowsKept, Exists, Work,
       IdleRun
<1>3. ClaimsBacked'
  <2>1. CASE RegisterOutputs(w)
    <3>1. PICK s \in Success : /\ Commit(run[w].job, RegisteredRow(rows[run[w].job], s))
                               /\ Work(w, "announce", s)
      BY <2>1 DEF RegisterOutputs
    <3> DEFINE j == run[w].job
    <3>2. /\ j \in Keys /\ ~rows[j].outputs /\ rows'[j].outputs
          /\ UNCHANGED events
      <4>1. j \in Keys /\ rows \in [Keys -> Row] /\ ~rows[j].outputs /\ UNCHANGED events
        BY <2>1 DEF RegisterOutputs, JobInv, TypeInv, TypeOK, RunOK
      <4>2. RegisteredRow(rows[j], s).outputs
        BY <4>1 DEF RegisteredRow, Row
      <4> HIDE DEF j
      <4> QED
        BY <3>1, <4>1, <4>2 DEF Commit, j
    <3>3. \A t \in Success : ~Claimed(j, t)
      BY <3>2 DEF JobInv, ClaimsBacked
    <3>4. \A k \in Keys : \A t \in Success :
            Claimed(k, t)' => Claimed(k, t) \/ (k = j /\ t = s)
      BY <3>1, <3>2 DEF Claimed, Work, JobInv, TypeInv, RunOK, Runs
    <3>5. \A k \in Keys : /\ ~Exists(k)' => ~rows'[k].outputs
                          /\ rows'[k].status \in Success => rows'[k].outputs
                          /\ rows[k].outputs => rows'[k].outputs
      BY <1>0, <2>1 DEF JobInv, ClaimsBacked, RowsKept, Exists
    <3> HIDE DEF j
    <3> QED
      BY <3>2, <3>3, <3>4, <3>5 DEF JobInv, ClaimsBacked
  <2>2. CASE ~RegisterOutputs(w)
    <3>1. \A k \in Keys : \A s \in Success : Claimed(k, s)' => Claimed(k, s)
      <4>1. CASE AnnounceOutcome(w)
        <5>1. run[w] = [pc |-> "announce", job |-> run[w].job, seen |-> run[w].seen]
          BY <4>1 DEF AnnounceOutcome, JobInv, TypeInv, RunOK, Runs
        <5>2. \A k, s : <<k, s>> \in events' =>
                <<k, s>> \in events \/ (k = run[w].job /\ s = run[w].seen)
          BY <4>1 DEF AnnounceOutcome
        <5>3. \A v \in Workers : run'[v] = run[v] \/ run'[v].pc = "idle"
          BY <4>1 DEF AnnounceOutcome, IdleRun, JobInv, TypeInv, RunOK
        <5> QED
          BY <5>1, <5>2, <5>3 DEF Claimed
      <4>2. CASE ~AnnounceOutcome(w)
        <5>1. /\ UNCHANGED events
              /\ \/ run' = [run EXCEPT ![w] = IdleRun]
                 \/ \E pc, s : /\ Work(w, pc, s) 
                               /\ pc # "announce" \/ s = "failed"
                 \/ \E k, s :
                      run' = [run EXCEPT ![w] = [pc |-> "mark", job |-> k, seen |-> s]]
          BY <2>2, <4>2 DEF RunStep, StartRun, MarkRunning, CompleteOperation,
             DuplicateOutputs, MarkFailed, RunRaises, CrashWorker
        <5> QED
          BY <5>1 DEF Claimed, Work, IdleRun, Success, JobInv, TypeInv, RunOK, Runs
      <4> QED
        BY <4>1, <4>2
    <3> QED
      BY <1>0, <3>1, KeptRowsBackClaims
  <2> QED
    BY <2>1, <2>2
<1> QED
  BY <1>1, <1>2, <1>3

\* A call that moves changes no other call.
LEMMA OthersStand ==
  ASSUME JobInv, NEW h \in Handlers, NEW c, Go(h, c)
  PROVE  api'[h] = c /\ \A g \in Handlers \ {h} : api'[g] = api[g]
BY DEF JobInv, TypeInv, ApiOK, Go

\* A step of one call, where the rows are kept: the calls stay backed if that
\* one is, and if the lock is not taken from another.
LEMMA KeptRowsBackOthers ==
  ASSUME JobInv, RowsKept, NEW h \in Handlers, NEW c, Go(h, c),
         wlock # h => UNCHANGED wlock \/ wlock = None,
         c.pc \in {"recheck", "insert"} => wlock' = h,
         c.pc = "insert" => rows'[c.job].status = "absent",
         c.pc \in OwnsRow => rows'[c.job].status # "absent",
         c.pc \in {"resume", "enqueue", "record", "refused"} =>
           rows'[c.job].body = c.body
  PROVE  CallsBacked'
<1>1. api'[h] = c /\ \A g \in Handlers \ {h} : api'[g] = api[g]
  BY OthersStand
<1>2. ASSUME NEW g \in Handlers \ {h}
      PROVE  /\ api'[g].pc \in {"recheck", "insert"} => wlock' = g
             /\ api'[g].pc = "insert" => rows'[api'[g].job].status = "absent"
             /\ api'[g].pc \in OwnsRow => rows'[api'[g].job].status # "absent"
             /\ api'[g].pc \in {"resume", "enqueue", "record", "refused"} =>
                  rows'[api'[g].job].body = api'[g].body
  BY <1>1, ConstantsAssumption DEF JobInv, TypeInv, ApiOK, CallsBacked, RowsKept, Exists,
     InsertNeverConflicts, NoForeignReplay, OwnsRow
<1> QED
  BY <1>1, <1>2 DEF CallsBacked, InsertNeverConflicts, NoForeignReplay, Exists, OwnsRow

LEMMA CallStepSafe ==
  ASSUME JobInv, NEW h \in Handlers, CallStep(h), ~InsertJob(h)
  PROVE  CallsBacked' /\ RunsBacked' /\ ClaimsBacked'
<1>0. RowsKept
  BY CallStepRows
<1>1. RunsBacked'
  <2>1. /\ UNCHANGED run
        /\ \A e \in queue' : e \in queue \/ (EnqueueJob(h) /\ e.job = api[h].job)
    BY DEF CallStep, EnforceJobQuota, RecheckUnderLock, RejectInputs, ResumeExistingJob,
       EnqueueJob, EnqueueRefused, RecordEnqueued, RecordRefused, CancelQueuedRqJob,
       CommitCancel, AnnounceCancel
  <2>2. EnqueueJob(h) => api[h].job \in Keys /\ Exists(api[h].job)
    BY DEF EnqueueJob, JobInv, TypeInv, ApiOK, CallsBacked, OwnsRow
  <2> QED
    BY <1>0, <2>1, <2>2, KeptRowsBackRuns
<1>2. ClaimsBacked'
  <2>1. UNCHANGED run /\ (UNCHANGED events \/ events' = events \cup {<<api[h].job, "canceled">>})
    BY DEF CallStep, EnforceJobQuota, RecheckUnderLock, RejectInputs, ResumeExistingJob,
       EnqueueJob, EnqueueRefused, RecordEnqueued, RecordRefused, CancelQueuedRqJob,
       CommitCancel, AnnounceCancel
  <2>2. \A k \in Keys : \A s \in Success : Claimed(k, s)' => Claimed(k, s)
    BY <2>1 DEF Claimed, Success
  <2> QED
    BY <1>0, <2>2, KeptRowsBackClaims
<1>3. CallsBacked'
  <2>0. /\ api[h].pc # "idle" => api[h].job \in Keys
        /\ api[h].pc \in OwnsRow => Exists(api[h].job) /\ rows'[api[h].job].status # "absent"
        /\ api[h].pc \in {"recheck", "insert"} => wlock = h
        /\ api[h].pc \in {"resume", "enqueue", "record", "refused"} =>
             rows'[api[h].job].body = api[h].body
    BY <1>0 DEF JobInv, TypeInv, ApiOK, CallsBacked, NoForeignReplay, RowsKept, OwnsRow,
       Exists
  <2>1. CASE Go(h, IdleCall) /\ (UNCHANGED wlock \/ Unlock(h))
    BY <1>0, <2>1, KeptRowsBackOthers DEF IdleCall, Call, OwnsRow, Unlock
  <2>2. CASE EnforceJobQuota(h) /\ Go(h, At(h, "recheck"))
    <3>1. wlock = None /\ wlock' = h
      BY <2>2, ConstantsAssumption DEF EnforceJobQuota, Go, At, Holding, Call, IdleCall,
         JobInv, TypeInv, ApiOK
    <3> QED
      BY <1>0, <2>2, <3>1, KeptRowsBackOthers DEF At, Holding, Call, OwnsRow
  <2>3. CASE RecheckUnderLock(h) /\ ~Go(h, IdleCall)
    <3>1. UNCHANGED <<wlock, rows>> /\ wlock = h
      BY <2>0, <2>3 DEF RecheckUnderLock
    <3>2. CASE ~Exists(api[h].job) /\ Go(h, At(h, "insert"))
      <4>1. rows'[api[h].job].status = "absent"
        BY <3>1, <3>2 DEF Exists
      <4> QED
        BY <1>0, <3>1, <3>2, <4>1, KeptRowsBackOthers DEF At, Holding, Call, OwnsRow
    <3>3. CASE /\ Exists(api[h].job) /\ rows[api[h].job].body = api[h].body
               /\ Go(h, Call("resume", api[h].job, api[h].body, rows[api[h].job]))
      <4>1. rows'[api[h].job].status # "absent" /\ rows'[api[h].job].body = api[h].body
        BY <3>1, <3>3 DEF Exists
      <4> QED
        BY <1>0, <3>1, <3>3, <4>1, KeptRowsBackOthers DEF Call, OwnsRow
    <3> QED
      BY <2>3, <3>2, <3>3 DEF RecheckUnderLock, SameRequest
  <2>4. CASE ResumeExistingJob(h)
    BY <1>0, <2>0, <2>4, KeptRowsBackOthers
       DEF ResumeExistingJob, Holding, Call, OwnsRow, Unlock
  <2>5. CASE \/ EnqueueJob(h) /\ ~Go(h, At(h, "refused"))
    BY <1>0, <2>0, <2>5, KeptRowsBackOthers DEF EnqueueJob, Holding, Call, OwnsRow
  <2>6. CASE (EnqueueJob(h) \/ EnqueueRefused(h)) /\ Go(h, At(h, "refused"))
    BY <1>0, <2>0, <2>6, KeptRowsBackOthers
       DEF EnqueueJob, EnqueueRefused, At, Holding, Call, OwnsRow
  <2>7. CASE CancelQueuedRqJob(h) /\ Go(h, At(h, "cancel"))
    BY <1>0, <2>0, <2>7, KeptRowsBackOthers
       DEF CancelQueuedRqJob, At, Holding, Call, OwnsRow
  <2>8. CASE CommitCancel(h)
    BY <1>0, <2>0, <2>8, KeptRowsBackOthers DEF CommitCancel, At, Holding, Call, OwnsRow
  <2> QED
    BY <2>1, <2>2, <2>3, <2>4, <2>5, <2>6, <2>7, <2>8
       DEF CallStep, EnforceJobQuota, RecheckUnderLock, RejectInputs, EnqueueRefused,
           RecordEnqueued, RecordRefused, CancelQueuedRqJob, AnnounceCancel
<1> QED
  BY <1>1, <1>2, <1>3

\* The insert: the row was absent, so nothing yet hangs on it.
LEMMA InsertSafe ==
  ASSUME JobInv, NEW h \in Handlers, InsertJob(h)
  PROVE  CallsBacked' /\ RunsBacked' /\ ClaimsBacked'
<1> DEFINE k == api[h].job
           r == NewRow(api[h].body)
<1>1. /\ k \in Keys /\ ~Exists(k) /\ wlock = h
      /\ rows' = [rows EXCEPT ![k] = r]
      /\ Go(h, Holding(h, "enqueue", r)) /\ wlock' = None
      /\ UNCHANGED <<queue, run, events>>
  BY DEF InsertJob, Commit, Unlock, JobInv, TypeInv, ApiOK, CallsBacked,
     InsertNeverConflicts
<1>2. /\ r.status = "queued" /\ r.body = api[h].body /\ ~r.outputs
  BY DEF NewRow, AbsentRow
<1>3. rows \in [Keys -> Row] /\ rows'[k] = r /\ \A j \in Keys \ {k} : rows'[j] = rows[j]
  BY <1>1 DEF JobInv, TypeInv, TypeOK
<1>4. CallsBacked'
  <2>1. /\ api'[h] = Holding(h, "enqueue", r)
        /\ \A g \in Handlers \ {h} : api'[g] = api[g]
    BY <1>1, OthersStand
  <2>2. ASSUME NEW g \in Handlers \ {h}
        PROVE  /\ api'[g].pc \notin {"recheck", "insert"}
               /\ api'[g].pc \in OwnsRow =>
                    rows'[api'[g].job].status # "absent" /\ api'[g].job # k
               /\ api'[g].pc \in {"resume", "enqueue", "record", "refused"} =>
                    rows'[api'[g].job].body = api'[g].body
    BY <1>1, <1>3, <2>1 DEF JobInv, TypeInv, ApiOK, CallsBacked, NoForeignReplay, Exists,
       OwnsRow
  <2>3. /\ api'[h].pc = "enqueue" /\ api'[h].job = k /\ api'[h].body = api[h].body
    BY <2>1 DEF Holding, Call
  <2> HIDE DEF k, r
  <2> QED
    BY <1>2, <1>3, <2>2, <2>3
       DEF CallsBacked, InsertNeverConflicts, NoForeignReplay, Exists, OwnsRow
<1>5. RunsBacked'
  BY <1>1, <1>2, <1>3 DEF JobInv, TypeInv, TypeOK, RunOK, RunsBacked, Exists
<1>6. ClaimsBacked'
  <2>1. \A j \in Keys : \A s \in Success : Claimed(j, s)' <=> Claimed(j, s)
    BY <1>1 DEF Claimed
  <2>2. \A s \in Success : ~Claimed(k, s)
    BY <1>1 DEF JobInv, ClaimsBacked
  <2>3. "queued" \notin Success
    BY DEF Success
  <2> HIDE DEF k, r
  <2> QED
    BY <1>1, <1>2, <1>3, <2>1, <2>2, <2>3 DEF JobInv, ClaimsBacked, Exists
<1> QED
  BY <1>4, <1>5, <1>6

LEMMA NextSafe == JobInv /\ [Next]_vars => JobInv'
<1> SUFFICES ASSUME JobInv, [Next]_vars PROVE JobInv'
  OBVIOUS
<1>1. TypeInv'
  BY NextTyped DEF JobInv
<1>2. ASSUME NEW h \in Handlers, ClientCalls(h)
      PROVE  CallsBacked' /\ RunsBacked' /\ ClaimsBacked'
  <2>1. RowsKept /\ UNCHANGED <<rows, wlock, queue, run, events>>
    BY <1>2, SameRowsKept DEF ClientCalls, CancelJob, MatchExisting
  <2>2. \A k \in Keys : \A s \in Success : Claimed(k, s)' => Claimed(k, s)
    BY <2>1 DEF Claimed
  <2>3. PICK k \in Keys, pc \in ApiPC, b \in Bodies \cup {None} :
          /\ Go(h, Call(pc, k, b, rows[k]))
          /\ \/ pc = "admit"
             \/ pc = "unqueue" /\ Exists(k)
             \/ pc = "resume" /\ Exists(k) /\ rows[k].body = b
    BY <1>2 DEF ClientCalls, CancelJob, MatchExisting, Cancelable, SameRequest, Exists,
       NeverReachedQueue, ApiPC
  <2>4. CallsBacked'
    BY <2>1, <2>3, KeptRowsBackOthers DEF Call, Exists, OwnsRow
  <2> QED
    BY <2>1, <2>2, <2>4, KeptRowsBackRuns, KeptRowsBackClaims
<1>3. ASSUME NEW h \in Handlers, CrashHandler(h)
      PROVE  CallsBacked' /\ RunsBacked' /\ ClaimsBacked'
  <2>1. RowsKept /\ UNCHANGED <<rows, queue, run, events>>
    BY <1>3, SameRowsKept DEF CrashHandler
  <2>2. \A k \in Keys : \A s \in Success : Claimed(k, s)' => Claimed(k, s)
    BY <2>1 DEF Claimed
  <2>3. CallsBacked'
    <3>1. Go(h, IdleCall) /\ Unlock(h)
      BY <1>3 DEF CrashHandler
    <3> QED
      BY <2>1, <3>1, KeptRowsBackOthers DEF IdleCall, Call, Unlock, OwnsRow
  <2> QED
    BY <2>1, <2>2, <2>3, KeptRowsBackRuns, KeptRowsBackClaims
<1>4. CASE UNCHANGED vars
  <2>1. RowsKept
    BY <1>4, SameRowsKept DEF vars
  <2>2. \A k \in Keys : \A s \in Success : Claimed(k, s)' => Claimed(k, s)
    BY <1>4 DEF vars, Claimed
  <2> QED
    BY <1>1, <1>4, <2>1, <2>2, KeptRowsBackCalls, KeptRowsBackRuns, KeptRowsBackClaims
       DEF vars, JobInv
<1> QED
  BY <1>1, <1>2, <1>3, <1>4, CallStepSafe, InsertSafe, WorkerStepSafe DEF Next, JobInv

\* The invariant, and from it the three safety invariants of the runs.
THEOREM JobsSafe == Spec => []JobInv
<1>1. JobInv /\ [Next]_vars => JobInv'
  BY NextSafe
<1> QED
  BY <1>1, InitSafe, PTL DEF Spec

\* The IntegrityError branch of create_job is never taken, for any number of
\* racing creators.
THEOREM InsertsNeverConflict == Spec => []InsertNeverConflicts
<1>1. JobInv => InsertNeverConflicts
  BY DEF JobInv, CallsBacked
<1> QED
  BY <1>1, JobsSafe, PTL

\* No call ever goes on with a job another request asked for.
THEOREM ReplaysAreNotForeign == Spec => []NoForeignReplay
<1>1. JobInv => NoForeignReplay
  BY DEF JobInv, CallsBacked
<1> QED
  BY <1>1, JobsSafe, PTL

\* Success is said only of registered outputs, and only once.
THEOREM SuccessRegisteredOnce == Spec => []SuccessIsRegisteredOnce
<1>1. JobInv => SuccessIsRegisteredOnce
  <2> SUFFICES ASSUME JobInv, NEW k \in Keys
               PROVE LET announced == {s \in Success : <<k, s>> \in events} IN
                     /\ rows[k].status \in Success \/ announced # {} => rows[k].outputs
                     /\ Cardinality(announced) <= 1
    BY DEF SuccessIsRegisteredOnce
  <2> DEFINE announced == {s \in Success : <<k, s>> \in events}
  <2>1. \A s \in announced : Claimed(k, s) /\ s \in Success
    BY DEF Claimed
  <2>2. \A s, t \in announced : s = t
    BY <2>1 DEF JobInv, ClaimsBacked
  <2> HIDE DEF announced
  <2>3. Cardinality(announced) <= 1
    <3>1. CASE announced = {}
      BY <3>1, FS_EmptySet
    <3>2. CASE announced # {}
      <4>1. PICK s \in announced : announced = {s}
        BY <2>2, <3>2
      <4> QED
        BY <4>1, FS_Singleton
    <3> QED
      BY <3>1, <3>2
  <2>4. rows[k].status \in Success \/ announced # {} => rows[k].outputs
    BY <2>1 DEF JobInv, ClaimsBacked
  <2> QED
    BY <2>3, <2>4 DEF announced
<1> QED
  BY <1>1, JobsSafe, PTL

-----------------------------------------------------------------------------
(* Admission: the jobs an admission counted stay within the limit.         *)

\* What the count under the lock allows, while the lock is held.
AdmissionInv ==
  /\ JobInv
  /\ AdmissionBound
  /\ \A h \in Handlers :
       api[h].pc \in {"recheck", "insert"} => Cardinality(CountedJobs) < ActiveJobLimit

LEMMA CountedFinite ==
  /\ IsFiniteSet(CountedJobs) /\ Cardinality(CountedJobs) \in Nat
  /\ IsFiniteSet(ActiveJobs) /\ Cardinality(ActiveJobs) \in Nat
  /\ Cardinality(CountedJobs) <= Cardinality(ActiveJobs)
<1>1. CountedJobs \subseteq ActiveJobs /\ ActiveJobs \subseteq Keys
  BY DEF CountedJobs, ActiveJobs
<1>2. IsFiniteSet(ActiveJobs)
  BY <1>1, ConstantsAssumption, FS_Subset
<1>3. IsFiniteSet(CountedJobs) /\ Cardinality(CountedJobs) <= Cardinality(ActiveJobs)
  BY <1>1, <1>2, FS_Subset
<1> QED
  BY <1>2, <1>3, FS_CardinalityType

\* A commit to a job that exists counts no new job: either it was counted, or
\* it came back from a terminal status.
LEMMA CommitCountsNone ==
  ASSUME JobInv, NEW k \in Keys, NEW r, Exists(k), Commit(k, r)
  PROVE  CountedJobs' \subseteq CountedJobs
<1>1. rows[k].status \in Active \cup Terminal
  BY DEF JobInv, TypeInv, TypeOK, Row, Status, Exists
<1>2. rows'[k] = r /\ \A j \in Keys \ {k} : rows'[j] = rows[j]
  BY DEF Commit, JobInv, TypeInv, TypeOK
<1>3. revived \subseteq revived' /\ (rows[k].status \in Terminal /\ r.status \in Active
                                     => k \in revived')
  BY DEF Commit
<1> QED
  BY <1>1, <1>2, <1>3 DEF CountedJobs

\* Only an insert counts a job.
LEMMA OnlyInsertCounts ==
  ASSUME JobInv, [Next]_vars, ~(\E h \in Handlers : InsertJob(h))
  PROVE  CountedJobs' \subseteq CountedJobs
<1>1. ASSUME NEW k \in Keys, NEW r, Exists(k), Commit(k, r)
      PROVE  CountedJobs' \subseteq CountedJobs
  BY <1>1, CommitCountsNone
<1>2. CASE UNCHANGED <<rows, revived>>
  BY <1>2 DEF CountedJobs
<1>3. ASSUME NEW h \in Handlers, CallStep(h), ~InsertJob(h)
      PROVE  CountedJobs' \subseteq CountedJobs
  <2>1. api[h].pc \in OwnsRow => api[h].job \in Keys /\ Exists(api[h].job)
    BY DEF JobInv, TypeInv, ApiOK, CallsBacked, OwnsRow
  <2> QED
    BY <1>1, <1>2, <1>3, <2>1
       DEF CallStep, EnforceJobQuota, RecheckUnderLock, RejectInputs, ResumeExistingJob,
           EnqueueJob, EnqueueRefused, RecordEnqueued, RecordRefused, CancelQueuedRqJob,
           CommitCancel, AnnounceCancel, OwnsRow
<1>4. ASSUME NEW w \in Workers,
             RunStep(w) \/ RegisterOutputs(w) \/ RunRaises(w) \/ CrashWorker(w)
      PROVE  CountedJobs' \subseteq CountedJobs
  <2>1. run[w].pc # "idle" => run[w].job \in Keys /\ Exists(run[w].job)
    BY DEF JobInv, TypeInv, RunOK, RunsBacked
  <2> QED
    BY <1>1, <1>2, <1>4, <2>1
       DEF RunStep, StartRun, MarkRunning, CompleteOperation, DuplicateOutputs,
           MarkFailed, AnnounceOutcome, RegisterOutputs, RunRaises, CrashWorker
<1>5. ASSUME NEW h \in Handlers, ClientCalls(h) \/ CrashHandler(h)
      PROVE  CountedJobs' \subseteq CountedJobs
  BY <1>2, <1>5 DEF ClientCalls, CancelJob, MatchExisting, CrashHandler
<1> QED
  BY <1>2, <1>3, <1>4, <1>5 DEF Next, vars

LEMMA NextAdmits == AdmissionInv /\ [Next]_vars => AdmissionInv'
<1> SUFFICES ASSUME AdmissionInv, [Next]_vars PROVE AdmissionInv'
  OBVIOUS
<1> DEFINE n == Cardinality(CountedJobs)
<1>0. JobInv /\ JobInv' /\ n \in Nat /\ n' \in Nat /\ n <= ActiveJobLimit
      /\ ActiveJobLimit \in Nat /\ IsFiniteSet(CountedJobs)
  <2>1. IsFiniteSet(CountedJobs') /\ Cardinality(CountedJobs') \in Nat
    <3>1. CountedJobs' \subseteq Keys
      BY DEF CountedJobs
    <3> QED
      BY <3>1, ConstantsAssumption, FS_Subset, FS_CardinalityType
  <2> QED
    BY <2>1, NextSafe, CountedFinite, ConstantsAssumption DEF AdmissionInv, AdmissionBound
<1>1. ASSUME NEW h \in Handlers, InsertJob(h) PROVE AdmissionInv'
  <2> DEFINE k == api[h].job
  <2>1. n < ActiveJobLimit /\ wlock = h
    BY <1>1 DEF InsertJob, AdmissionInv, JobInv, CallsBacked
  <2>2. CountedJobs' \subseteq CountedJobs \cup {k}
    BY <1>0, <1>1 DEF InsertJob, Commit, CountedJobs, JobInv, TypeInv, TypeOK, ApiOK
  <2>3. /\ IsFiniteSet(CountedJobs \cup {k})
        /\ Cardinality(CountedJobs \cup {k}) \in {n, n + 1}
    BY <1>0, FS_AddElement
  <2>4. n' <= n + 1
    BY <1>0, <2>2, <2>3, FS_Subset
  <2>5. \A g \in Handlers : api'[g].pc \notin {"recheck", "insert"}
    <3>1. /\ api'[h] = Holding(h, "enqueue", NewRow(api[h].body))
          /\ \A g \in Handlers \ {h} : api'[g] = api[g]
      BY <1>0, <1>1, OthersStand DEF InsertJob
    <3> QED
      BY <1>0, <2>1, <3>1 DEF Holding, Call, JobInv, CallsBacked
  <2> HIDE DEF n
  <2>6. n' <= ActiveJobLimit
    BY <1>0, <2>1, <2>4
  <2> QED
    BY <1>0, <2>5, <2>6 DEF AdmissionInv, AdmissionBound, n
<1>2. ASSUME ~(\E h \in Handlers : InsertJob(h)) PROVE AdmissionInv'
  <2>1. n' <= n
    BY <1>0, <1>2, OnlyInsertCounts, FS_Subset
  <2>2. ASSUME NEW g \in Handlers, api'[g].pc \in {"recheck", "insert"}
        PROVE  n < ActiveJobLimit
    <3>1. CASE api[g].pc \in {"recheck", "insert"}
      BY <3>1 DEF AdmissionInv
    <3>2. CASE EnforceJobQuota(g) /\ Go(g, At(g, "recheck"))
      <4>1. CASE WithinJobQuota
        <5>1. /\ Cardinality(ActiveJobs) \in Nat /\ n <= Cardinality(ActiveJobs)
              /\ Cardinality(ActiveJobs) < ActiveJobLimit
          BY <4>1, CountedFinite DEF WithinJobQuota
        <5> HIDE DEF n
        <5> QED
          BY <1>0, <5>1
      <4>2. CASE ~WithinJobQuota
        BY <1>0, <2>2, <3>2, <4>2, OthersStand DEF EnforceJobQuota, IdleCall, Call
      <4> QED
        BY <4>1, <4>2
    <3>3. api[g].pc \in {"recheck", "insert"}
          \/ (EnforceJobQuota(g) /\ Go(g, At(g, "recheck")))
      <4>1. ASSUME NEW h \in Handlers, NEW c, Go(h, c), c.pc \notin {"recheck", "insert"}
            PROVE  api[g].pc \in {"recheck", "insert"}
        BY <1>0, <2>2, <4>1, OthersStand
      <4>2. ASSUME NEW h \in Handlers, Go(h, At(h, "insert")), api[h].pc = "recheck"
            PROVE  api[g].pc \in {"recheck", "insert"}
        BY <1>0, <2>2, <4>2, OthersStand
      <4>3. ASSUME NEW h \in Handlers, EnforceJobQuota(h), Go(h, At(h, "recheck"))
            PROVE  api[g].pc \in {"recheck", "insert"} \/ g = h
        BY <1>0, <2>2, <4>3, OthersStand
      <4>4. ASSUME NEW h \in Handlers, ClientCalls(h) \/ CallStep(h) \/ CrashHandler(h)
            PROVE  \/ \E c : Go(h, c) /\ c.pc \notin {"recheck", "insert"}
                   \/ Go(h, At(h, "insert")) /\ api[h].pc = "recheck"
                   \/ EnforceJobQuota(h) /\ Go(h, At(h, "recheck"))
        <5>1. ASSUME NEW pc, NEW k, NEW b, NEW r, Go(h, Call(pc, k, b, r)),
                     pc \notin {"recheck", "insert"}
              PROVE  \E c : Go(h, c) /\ c.pc \notin {"recheck", "insert"}
          <6>1. Call(pc, k, b, r).pc = pc
            BY DEF Call
          <6> QED
            BY <5>1, <6>1
        <5>2. CASE ClientCalls(h) \/ CrashHandler(h)
          BY <5>1, <5>2 DEF ClientCalls, CancelJob, MatchExisting, CrashHandler, IdleCall
        <5>3. CASE EnforceJobQuota(h)
          BY <5>1, <5>3 DEF EnforceJobQuota, IdleCall
        <5>4. CASE RecheckUnderLock(h)
          BY <5>1, <5>4 DEF RecheckUnderLock, IdleCall
        <5>5. CASE RejectInputs(h) \/ ResumeExistingJob(h) \/ EnqueueJob(h)
                   \/ EnqueueRefused(h) \/ RecordEnqueued(h) \/ RecordRefused(h)
          BY <5>1, <5>5 DEF RejectInputs, ResumeExistingJob, EnqueueJob, EnqueueRefused,
             RecordEnqueued, RecordRefused, At, Holding, IdleCall
        <5>6. CASE CancelQueuedRqJob(h) \/ CommitCancel(h) \/ AnnounceCancel(h)
          BY <5>1, <5>6 DEF CancelQueuedRqJob, CommitCancel, AnnounceCancel, At, Holding,
             IdleCall
        <5> QED
          BY <1>2, <4>4, <5>2, <5>3, <5>4, <5>5, <5>6 DEF CallStep
      <4>5. CASE UNCHANGED api
        BY <2>2, <4>5
      <4>6. ASSUME NEW w \in Workers,
                   RunStep(w) \/ RegisterOutputs(w) \/ RunRaises(w) \/ CrashWorker(w)
            PROVE  UNCHANGED api
        BY <4>6 DEF RunStep, StartRun, MarkRunning, CompleteOperation, DuplicateOutputs,
           MarkFailed, AnnounceOutcome, RegisterOutputs, RunRaises, CrashWorker
      <4> QED
        BY <4>1, <4>2, <4>3, <4>4, <4>5, <4>6 DEF Next, vars
    <3> QED
      BY <3>1, <3>2, <3>3
  <2> HIDE DEF n
  <2>3. n' <= ActiveJobLimit
    BY <1>0, <2>1
  <2>4. ASSUME NEW g \in Handlers, api'[g].pc \in {"recheck", "insert"}
        PROVE  n' < ActiveJobLimit
    BY <1>0, <2>1, <2>2, <2>4
  <2> QED
    BY <1>0, <2>3, <2>4 DEF AdmissionInv, AdmissionBound, n
<1> QED
  BY <1>1, <1>2

\* However many creators race, the jobs admission counted stay within
\* workspace_active_job_limit.
THEOREM AdmissionHolds == Spec => []AdmissionBound
<1>1. Init => AdmissionInv
  <2> SUFFICES ASSUME Init PROVE AdmissionInv
    OBVIOUS
  <2>1. CountedJobs = {}
    BY DEF Init, CountedJobs, AbsentRow, Active
  <2>2. Cardinality(CountedJobs) = 0
    BY <2>1, FS_EmptySet
  <2>3. \A h \in Handlers : api[h].pc = "idle"
    BY DEF Init, IdleCall, Call
  <2> QED
    BY <2>2, <2>3, InitSafe, ConstantsAssumption DEF AdmissionInv, AdmissionBound
<1>2. AdmissionInv /\ [Next]_vars => AdmissionInv'
  BY NextAdmits
<1>3. AdmissionInv => AdmissionBound
  BY DEF AdmissionInv
<1> QED
  BY <1>1, <1>2, <1>3, PTL DEF Spec

-----------------------------------------------------------------------------
(* A settled job stays settled.                                            *)

\* A step that neither writes the row of a settled job nor takes it up leaves
\* it settled.
LEMMA UntouchedStays ==
  ASSUME NEW k \in Keys, Settled(k), rows'[k] = rows[k],
         \A h \in Handlers : api'[h].job # k,
         \A w \in Workers : run'[w].job # k
  PROVE  Settled(k)' /\ rows'[k].status = rows[k].status
BY DEF Settled, NeverReachedQueue

LEMMA StepSettles ==
  ASSUME TypeInv, [Next]_vars
  PROVE  SettledStep
<1> SUFFICES ASSUME NEW k \in Keys, Settled(k)
             PROVE  Settled(k)' /\ rows'[k].status = rows[k].status
  BY DEF SettledStep
<1> USE DEF TypeInv
<1>0. /\ rows[k].status \in Terminal /\ ~NeverReachedQueue(rows[k])
      /\ rows[k].status # "absent" /\ rows[k].status # "queued"
      /\ \A h \in Handlers : api[h].job # k
      /\ \A w \in Workers : run[w].job # k
      /\ None # k
  BY ConstantsAssumption DEF Settled, Terminal, Success
<1>1. ASSUME NEW j, j # k, \/ UNCHANGED rows \/ \E r : Commit(j, r)
      PROVE  rows'[k] = rows[k]
  BY <1>1 DEF Commit, TypeOK
<1>2. ASSUME NEW h \in Handlers, NEW j, j # k,
             \E pc, b, r : Go(h, Call(pc, j, b, r))
      PROVE  \A g \in Handlers : api'[g].job # k
  BY <1>0, <1>2 DEF Go, Call, ApiOK
<1>3. ASSUME NEW w \in Workers, NEW j, j # k,
             \E pc, s : run' = [run EXCEPT ![w] = [pc |-> pc, job |-> j, seen |-> s]]
      PROVE  \A v \in Workers : run'[v].job # k
  BY <1>0, <1>3 DEF RunOK
<1>4. ASSUME NEW h \in Handlers, CallStep(h) \/ CrashHandler(h)
      PROVE  Settled(k)' /\ rows'[k].status = rows[k].status
  <2> DEFINE j == api[h].job
  <2>1. UNCHANGED run /\ (UNCHANGED rows \/ \E r : Commit(j, r))
    BY <1>4 DEF CallStep, CrashHandler, EnforceJobQuota, RecheckUnderLock, RejectInputs,
       InsertJob, ResumeExistingJob, EnqueueJob, EnqueueRefused, RecordEnqueued,
       RecordRefused, CancelQueuedRqJob, CommitCancel, AnnounceCancel
  <2>2. \/ \E pc, b, r : Go(h, Call(pc, j, b, r))
        \/ \E pc, b, r : Go(h, Call(pc, None, b, r))
    BY <1>4 DEF CallStep, CrashHandler, EnforceJobQuota, RecheckUnderLock, RejectInputs,
       InsertJob, ResumeExistingJob, EnqueueJob, EnqueueRefused, RecordEnqueued,
       RecordRefused, CancelQueuedRqJob, CommitCancel, AnnounceCancel, At, Holding,
       IdleCall
  <2>3. j # k
    BY <1>0
  <2> HIDE DEF j
  <2>4. rows'[k] = rows[k] /\ \A g \in Handlers : api'[g].job # k
    BY <1>0, <1>1, <1>2, <2>1, <2>2, <2>3
  <2> QED
    BY <1>0, <2>1, <2>4, UntouchedStays
<1>5. ASSUME NEW w \in Workers,
             RunStep(w) \/ RegisterOutputs(w) \/ RunRaises(w) \/ CrashWorker(w)
      PROVE  Settled(k)' /\ rows'[k].status = rows[k].status
  <2> DEFINE j == run[w].job
  <2>1. UNCHANGED api /\ (UNCHANGED rows \/ \E r : Commit(j, r))
    BY <1>5 DEF RunStep, StartRun, MarkRunning, CompleteOperation, DuplicateOutputs,
       MarkFailed, AnnounceOutcome, RegisterOutputs, RunRaises, CrashWorker
  <2>2. j # k
    BY <1>0
  <2>3. \A v \in Workers : run'[v].job # k
    <3>1. CASE StartRun(w)
      <4>1. PICK e \in queue :
              run' = [run EXCEPT ![w] =
                IF SkipsRun(rows[e.job]) THEN IdleRun
                ELSE [pc |-> "mark", job |-> e.job, seen |-> rows[e.job].status]]
        BY <3>1 DEF StartRun
      <4>2. CASE e.job = k
        BY <1>0, <1>3, <4>1, <4>2 DEF SkipsRun, IdleRun
      <4>3. CASE e.job # k
        BY <1>0, <1>3, <4>1, <4>3 DEF IdleRun
      <4> QED
        BY <4>2, <4>3
    <3>2. CASE ~StartRun(w)
      <4>1. \/ \E pc, s : Work(w, pc, s)
            \/ run' = [run EXCEPT ![w] = IdleRun]
        BY <1>5, <3>2 DEF RunStep, MarkRunning, CompleteOperation, DuplicateOutputs,
           MarkFailed, AnnounceOutcome, RegisterOutputs, RunRaises, CrashWorker
      <4> QED
        BY <1>0, <1>3, <4>1 DEF Work, IdleRun
    <3> QED
      BY <3>1, <3>2
  <2> HIDE DEF j
  <2>4. rows'[k] = rows[k]
    BY <1>1, <2>1, <2>2
  <2> QED
    BY <1>0, <2>1, <2>3, <2>4, UntouchedStays
<1>6. ASSUME NEW h \in Handlers, ClientCalls(h)
      PROVE  Settled(k)' /\ rows'[k].status = rows[k].status
  <2>1. UNCHANGED <<rows, run>>
    BY <1>6 DEF ClientCalls, CancelJob, MatchExisting
  <2>2. \E j : j # k /\ \E pc, b, r : Go(h, Call(pc, j, b, r))
    BY <1>0, <1>6 DEF ClientCalls, CancelJob, MatchExisting, Cancelable, Exists
  <2>3. \A g \in Handlers : api'[g].job # k
    BY <1>2, <2>2
  <2> QED
    BY <1>0, <2>1, <2>3, UntouchedStays
<1>7. CASE UNCHANGED vars
  BY <1>0, <1>7, UntouchedStays DEF vars
<1> QED
  BY <1>4, <1>5, <1>6, <1>7 DEF Next

\* Nothing that starts after a job has settled changes its outcome.
THEOREM SettledJobsStay == Spec => SettledStays
<1>1. TypeInv /\ [Next]_vars => [SettledStep]_vars
  BY StepSettles
<1> QED
  BY <1>1, TypeCorrect, PTL DEF Spec, SettledStays

-----------------------------------------------------------------------------
(***************************************************************************)
(* The refinement of JobContract.  An entry is added to the queue only     *)
(* from a call that has just made its job queued and undelivered, so at    *)
(* most one entry or run of a job exists; while one does the job is        *)
(* active, until that run ends it.  Two calls at once, or an enqueue whose *)
(* reply is lost, break this.                                              *)
(***************************************************************************)
\* No second call in flight and no cancel; the process of the API, a worker and
\* the webhooks may fail, the reply to an enqueue and a registered run may not.
OneClient ==
  /\ \A g, h \in Handlers : g = h
  /\ Operations \subseteq {"create"}
  /\ Faults \cap {"replyLost", "lateError"} = {}

Unannounced(r) == r.error = "QUEUE_UNAVAILABLE"

Undelivered(k) ==
  /\ \A e \in queue : e.job # k
  /\ \A w \in Workers : run[w].job # k

AtMostOne(k) ==
  /\ \A e, f \in queue : e.job = k /\ f.job = k => e = f
  /\ \A v, w \in Workers : run[v].job = k /\ run[w].job = k => v = w
  /\ \A e \in queue : \A w \in Workers : e.job = k => run[w].job # k

KeyMatches(k) ==
  /\ AtMostOne(k)
  /\ Unannounced(rows[k]) => NeverReachedQueue(rows[k])
  /\ Unannounced(rows[k]) \/ ~Exists(k) => Undelivered(k)
  /\ \A e \in queue : e.job = k => rows[k].status \in Active
  /\ \A w \in Workers : run[w].job = k =>
       /\ run[w].pc # "idle"
       /\ run[w].pc # "announce" => rows[k].status \in Active
       /\ run[w].pc = "announce" => rows[k].status \in Terminal

CallMatches(c) ==
  LET r == rows[c.job] IN
  /\ c.pc \notin {"unqueue", "cancel", "announce"}
  /\ c.pc = "resume" => NeverReachedQueue(r)
  /\ c.pc \in {"enqueue", "refused"} =>
       r.status = "queued" /\ r.qid = 0 /\ Undelivered(c.job)
  /\ c.pc = "record" => Exists(c.job) /\ ~Unannounced(r)

DeliveriesMatch == \A k \in Keys : KeyMatches(k)
CallsMatch == \A h \in Handlers : CallMatches(api[h])

ContractInv == JobInv /\ DeliveriesMatch /\ CallsMatch

LEMMA InitMatches == Init => ContractInv
<1> SUFFICES ASSUME Init PROVE ContractInv
  OBVIOUS
<1>1. \A k \in Keys : k # None
  BY ConstantsAssumption
<1>2. DeliveriesMatch
  BY <1>1 DEF Init, DeliveriesMatch, KeyMatches, AtMostOne, Unannounced, Undelivered,
              AbsentRow, IdleRun
<1>3. CallsMatch
  BY DEF Init, CallsMatch, CallMatches, IdleCall, Call
<1>4. QED
  BY <1>2, <1>3, InitSafe DEF ContractInv

-----------------------------------------------------------------------------
(* What the phase of a job does when its row changes.                      *)

LEMMA CommitMovesPhase ==
  ASSUME TypeInv, NEW k \in Keys, NEW r, rows' = [rows EXCEPT ![k] = r]
  PROVE  /\ phase[k] = PhaseOf(rows[k])
         /\ phase' = [phase EXCEPT ![k] = PhaseOf(r)]
         /\ PhaseOf(r) = PhaseOf(rows[k]) => phase' = phase
BY DEF TypeInv, TypeOK, phase

LEMMA SameRowsSamePhase == ASSUME rows' = rows PROVE phase' = phase
BY DEF phase

\* The moves of the contract, by what the row of k says before and after.
LEMMA PhaseSteps ==
  ASSUME TypeInv, NEW k \in Keys, NEW r \in Row, rows' = [rows EXCEPT ![k] = r],
         \/ PhaseOf(r) = PhaseOf(rows[k])
         \/ PhaseOf(rows[k]) = "absent" /\ PhaseOf(r) = "pending"
         \/ PhaseOf(rows[k]) = "pending" /\ PhaseOf(r) \in Success \cup {"failed", "unqueued"}
         \/ PhaseOf(rows[k]) = "unqueued" /\ PhaseOf(r) = "pending"
  PROVE  [Contract!Next]_phase
<1>1. CASE PhaseOf(r) = PhaseOf(rows[k])
  BY <1>1, CommitMovesPhase
<1>2. CASE PhaseOf(rows[k]) = "absent" /\ PhaseOf(r) = "pending"
  <2>1. Contract!Admit(k)
    BY <1>2, CommitMovesPhase DEF Contract!Admit, Contract!Move
  <2>2. QED
    BY <2>1 DEF Contract!Next
<1>3. CASE PhaseOf(rows[k]) = "pending" /\ PhaseOf(r) \in Success \cup {"failed"}
  <2>1. PhaseOf(r) \in Contract!Decision
    BY <1>3 DEF Contract!Decision, Success
  <2>2. phase[k] = "pending" /\ phase' = [phase EXCEPT ![k] = PhaseOf(r)]
    BY <1>3, CommitMovesPhase
  <2>3. Contract!Decide(k)
    BY <2>1, <2>2 DEF Contract!Decide, Contract!Move
  <2>4. QED
    BY <2>3 DEF Contract!Next
<1>4. CASE PhaseOf(rows[k]) = "pending" /\ PhaseOf(r) = "unqueued"
  <2>1. Contract!Refuse(k)
    BY <1>4, CommitMovesPhase DEF Contract!Refuse, Contract!Move
  <2>2. QED
    BY <2>1 DEF Contract!Next
<1>5. CASE PhaseOf(rows[k]) = "unqueued" /\ PhaseOf(r) = "pending"
  <2>1. Contract!Retry(k)
    BY <1>5, CommitMovesPhase DEF Contract!Retry, Contract!Move
  <2>2. QED
    BY <2>1 DEF Contract!Next
<1>6. QED
  BY <1>1, <1>2, <1>3, <1>4, <1>5

-----------------------------------------------------------------------------
(* Steps of the call.                                                      *)

\* A job whose row, entries and runs a step leaves alone.
SameFor(k) ==
  /\ rows'[k] = rows[k]
  /\ \A e \in queue \cup queue' : e.job = k => (e \in queue <=> e \in queue')
  /\ \A w \in Workers : run[w].job = k \/ run'[w].job = k => run'[w] = run[w]

LEMMA SameForKeeps ==
  ASSUME NEW k \in Keys, KeyMatches(k), SameFor(k)
  PROVE  KeyMatches(k)'
<1>1. AtMostOne(k)'
  BY DEF KeyMatches, AtMostOne, SameFor
<1>2. Undelivered(k) => Undelivered(k)'
  BY DEF Undelivered, SameFor
<1>3. QED
  BY <1>1, <1>2 DEF KeyMatches, SameFor, Exists

\* A commit by a call: of a job nobody delivers, or that keeps its status.
LEMMA CommitKeeps ==
  ASSUME ContractInv, NEW k \in Keys, NEW r \in Row, Commit(k, r),
         UNCHANGED <<queue, run>>, r.status # "absent",
         Unannounced(r) => NeverReachedQueue(r) /\ Undelivered(k),
         Undelivered(k) \/ r.status = rows[k].status
  PROVE  DeliveriesMatch'
<1>1. rows' = [rows EXCEPT ![k] = r] /\ rows'[k] = r
  BY DEF Commit, ContractInv, JobInv, TypeInv, TypeOK
<1>2. \A j \in Keys \ {k} : KeyMatches(j)'
  BY <1>1, SameForKeeps DEF SameFor, ContractInv, DeliveriesMatch, JobInv, TypeInv, TypeOK
<1>3. KeyMatches(k)'
  <2>1. AtMostOne(k)' /\ (Undelivered(k) => Undelivered(k)')
    BY DEF ContractInv, DeliveriesMatch, KeyMatches, AtMostOne, Undelivered
  <2>2. QED
    BY <1>1, <2>1 DEF ContractInv, DeliveriesMatch, KeyMatches, Undelivered, Exists
<1>4. QED
  BY <1>2, <1>3 DEF DeliveriesMatch

LEMMA SameKeysKeep ==
  ASSUME ContractInv, UNCHANGED <<rows, queue, run>>
  PROVE  DeliveriesMatch'
BY SameForKeeps DEF ContractInv, DeliveriesMatch, SameFor

\* With one client the call that moves is the only one.
LEMMA OnlyCall ==
  ASSUME OneClient, NEW h \in Handlers, CallMatches(api[h])'
  PROVE  CallsMatch'
BY DEF OneClient, CallsMatch

LEMMA GoesTo ==
  ASSUME TypeInv, NEW h \in Handlers, NEW c, Go(h, c)
  PROVE  api'[h] = c
BY DEF TypeInv, ApiOK, Go

LEMMA ClientCallMatches ==
  ASSUME OneClient, ContractInv, NEW h \in Handlers, ClientCalls(h)
  PROVE  DeliveriesMatch' /\ CallsMatch' /\ rows' = rows
<1>1. PICK k \in Keys, b \in Bodies : MatchExisting(h, k, b)
  BY DEF ClientCalls, CancelJob, OneClient
<1>2. UNCHANGED <<rows, queue, run>>
  BY <1>1 DEF MatchExisting
<1>3. PICK pc \in {"admit", "resume"} :
        /\ api'[h] = Call(pc, k, b, rows[k])
        /\ pc = "resume" => NeverReachedQueue(rows[k])
  BY <1>1, GoesTo DEF MatchExisting, ContractInv, JobInv
<1>4. CallMatches(api[h])'
  BY <1>2, <1>3 DEF CallMatches, Call
<1>5. QED
  BY <1>2, <1>4, SameKeysKeep, OnlyCall

LEMMA IdleMatches ==
  ASSUME OneClient, TypeInv, NEW h \in Handlers, Go(h, IdleCall)
  PROVE  CallsMatch'
<1>1. api'[h].pc = "idle"
  BY GoesTo DEF IdleCall, Call
<1>2. QED
  BY <1>1, OnlyCall DEF CallMatches

LEMMA NewJobMatches ==
  ASSUME OneClient, ContractInv, NEW h \in Handlers,
         InsertJob(h) \/ ResumeExistingJob(h)
  PROVE  DeliveriesMatch' /\ CallsMatch' /\ [Contract!Next]_phase
<1>1. PICK k : k = api[h].job
  OBVIOUS
<1>2. /\ TypeInv /\ api[h].pc \in {"insert", "resume"}
      /\ k \in Keys /\ rows[k] \in Row /\ api[h].body \in Bodies \cup {None}
      /\ UNCHANGED <<queue, run>>
  BY <1>1, CallTyped DEF ContractInv, JobInv, InsertJob, ResumeExistingJob
<1>3. PICK r :
        /\ r \in Row /\ r.status = "queued" /\ r.qid = 0 /\ ~Unannounced(r)
        /\ Commit(k, r) /\ Undelivered(k)
        /\ api'[h].pc = "enqueue" /\ api'[h].job = k
        /\ PhaseOf(rows[k]) \in {"absent", "unqueued"}
  <2>1. CASE InsertJob(h)
    <3>1. rows[k].status = "absent" /\ Undelivered(k)
      BY <1>1, <1>2, <2>1 DEF InsertJob, ContractInv, JobInv, CallsBacked, InsertNeverConflicts,
         DeliveriesMatch, KeyMatches, Exists
    <3>2. PhaseOf(rows[k]) = "absent"
      BY <3>1 DEF PhaseOf, Active, NeverReachedQueue
    <3>3. NewRow(api[h].body) \in Row
      BY <1>2, RowsTyped DEF Success
    <3>4. api'[h] = Holding(h, "enqueue", NewRow(api[h].body))
      BY <1>2, <2>1, GoesTo DEF InsertJob
    <3>5. LET r == NewRow(api[h].body) IN r.status = "queued" /\ r.qid = 0 /\ r.error = "none"
      BY DEF NewRow, AbsentRow
    <3>6. Commit(k, NewRow(api[h].body))
      BY <1>1, <2>1 DEF InsertJob
    <3>7. QED
      BY <1>1, <3>1, <3>2, <3>3, <3>4, <3>5, <3>6 DEF Unannounced, Holding, Call
  <2>2. CASE ResumeExistingJob(h)
    <3>1. NeverReachedQueue(rows[k]) /\ Undelivered(k)
      BY <1>1, <1>2, <2>2 DEF ResumeExistingJob, ContractInv, CallsMatch, CallMatches,
         NeverReachedQueue, Unannounced, DeliveriesMatch, KeyMatches
    <3>2. PhaseOf(rows[k]) = "unqueued"
      BY <3>1 DEF PhaseOf, Active, NeverReachedQueue
    <3>3. ResumedRow(rows[k]) \in Row
      BY <1>2, RowsTyped DEF Success
    <3>4. api'[h] = Holding(h, "enqueue", ResumedRow(api[h].seen))
      BY <1>2, <2>2, GoesTo DEF ResumeExistingJob
    <3>5. /\ ResumedRow(rows[k]).status = "queued" /\ ResumedRow(rows[k]).qid = 0
          /\ ResumedRow(rows[k]).error = "none"
      BY <1>2, <3>1 DEF ResumedRow, NeverReachedQueue, Row
    <3>6. QED
      BY <1>1, <2>2, <3>1, <3>2, <3>3, <3>4, <3>5
         DEF ResumeExistingJob, Unannounced, Holding, Call
  <2>3. QED
    BY <2>1, <2>2
<1>4. DeliveriesMatch'
  BY <1>2, <1>3, CommitKeeps
<1>5. rows'[k] = r /\ rows' = [rows EXCEPT ![k] = r]
  BY <1>2, <1>3 DEF Commit, TypeInv, TypeOK
<1>6. CallMatches(api[h])'
  BY <1>2, <1>3, <1>5 DEF CallMatches, Undelivered
<1>7. [Contract!Next]_phase
  <2>1. PhaseOf(r) = "pending"
    BY <1>3 DEF PhaseOf, Active
  <2>2. QED
    BY <1>2, <1>3, <1>5, <2>1, PhaseSteps
<1>8. QED
  BY <1>4, <1>6, <1>7, OnlyCall

\* The entry of a job that nobody delivers is its only one.
LEMMA EnqueueMatches ==
  ASSUME OneClient, ContractInv, NEW h \in Handlers, EnqueueJob(h)
  PROVE  DeliveriesMatch' /\ CallsMatch' /\ rows' = rows
<1>1. PICK k, e : k = api[h].job /\ e = [job |-> k, id |-> tickets + 1]
  OBVIOUS
<1>2. /\ TypeInv /\ api[h].pc = "enqueue" /\ k \in Keys
      /\ queue' = queue \cup {e} /\ e.job = k /\ UNCHANGED <<rows, run>>
  BY <1>1, CallTyped DEF ContractInv, JobInv, EnqueueJob
<1>3. rows[k].status = "queued" /\ Undelivered(k)
  BY <1>1, <1>2 DEF ContractInv, CallsMatch, CallMatches
<1>4. DeliveriesMatch'
  <2>1. \A j \in Keys \ {k} : KeyMatches(j)'
    BY <1>2, SameForKeeps DEF SameFor, ContractInv, DeliveriesMatch
  <2>2. AtMostOne(k)'
    BY <1>2, <1>3 DEF AtMostOne, Undelivered
  <2>3. KeyMatches(k)'
    BY <1>2, <1>3, <2>2 DEF ContractInv, DeliveriesMatch, KeyMatches, Undelivered, Exists, Active,
       NeverReachedQueue
  <2>4. QED
    BY <2>1, <2>3 DEF DeliveriesMatch
<1>5. api'[h].pc = "record" /\ api'[h].job = k
  <2>1. Go(h, Holding(h, "record", [api[h].seen EXCEPT !.qid = tickets + 1]))
    BY DEF EnqueueJob, OneClient
  <2>2. QED
    BY <1>1, <1>2, <2>1, GoesTo DEF Holding, Call
<1>6. ~Unannounced(rows[k]) /\ Exists(k)
  BY <1>2, <1>3 DEF ContractInv, DeliveriesMatch, KeyMatches, NeverReachedQueue, Exists
<1>7. CallMatches(api[h])'
  BY <1>2, <1>5, <1>6 DEF CallMatches, Exists
<1>8. QED
  BY <1>2, <1>4, <1>7, OnlyCall

LEMMA CallStepMatches ==
  ASSUME OneClient, ContractInv, NEW h \in Handlers, CallStep(h)
  PROVE  DeliveriesMatch' /\ CallsMatch' /\ [Contract!Next]_phase
<1> DEFINE k == api[h].job
<1>1. TypeInv /\ (api[h].pc # "idle" => k \in Keys /\ rows[k] \in Row /\ api[h].seen \in Row)
  BY CallTyped DEF ContractInv, JobInv
<1>2. CASE EnforceJobQuota(h) \/ RejectInputs(h)
  <2>1. UNCHANGED <<rows, queue, run>>
    BY <1>2 DEF EnforceJobQuota, RejectInputs
  <2>2. CASE Go(h, IdleCall)
    BY <1>1, <2>1, <2>2, SameKeysKeep, SameRowsSamePhase, IdleMatches
  <2>3. CASE Go(h, At(h, "recheck"))
    <3>1. api'[h].pc = "recheck"
      BY <1>1, <2>3, GoesTo DEF At, Holding, Call
    <3>2. QED
      BY <2>1, <3>1, SameKeysKeep, SameRowsSamePhase, OnlyCall DEF CallMatches
  <2>4. QED
    BY <1>2, <2>2, <2>3 DEF EnforceJobQuota, RejectInputs
<1>3. CASE RecheckUnderLock(h)
  <2>1. UNCHANGED <<rows, queue, run>>
    BY <1>3 DEF RecheckUnderLock
  <2>2. CASE Go(h, IdleCall)
    BY <1>1, <2>1, <2>2, SameKeysKeep, SameRowsSamePhase, IdleMatches
  <2>3. CASE Go(h, At(h, "insert"))
    <3>1. api'[h].pc = "insert"
      BY <1>1, <2>3, GoesTo DEF At, Holding, Call
    <3>2. QED
      BY <2>1, <3>1, SameKeysKeep, SameRowsSamePhase, OnlyCall DEF CallMatches
  <2>4. CASE NeverReachedQueue(rows[k]) /\ Go(h, Call("resume", k, api[h].body, rows[k]))
    <3>1. api'[h].pc = "resume" /\ api'[h].job = k
      BY <1>1, <2>4, GoesTo DEF Call
    <3>2. CallMatches(api[h])'
      BY <2>1, <2>4, <3>1 DEF CallMatches
    <3>3. QED
      BY <2>1, <3>2, SameKeysKeep, SameRowsSamePhase, OnlyCall
  <2>5. QED
    BY <1>3, <2>2, <2>3, <2>4 DEF RecheckUnderLock
<1>4. CASE InsertJob(h) \/ ResumeExistingJob(h)
  BY <1>4, NewJobMatches
<1>5. CASE EnqueueJob(h)
  BY <1>5, EnqueueMatches, SameRowsSamePhase
<1>6. CASE EnqueueRefused(h)
  <2>1. UNCHANGED <<rows, queue, run>> /\ api[h].pc = "enqueue" /\ Go(h, At(h, "refused"))
    BY <1>6 DEF EnqueueRefused
  <2>2. api'[h].pc = "refused" /\ api'[h].job = k
    BY <1>1, <2>1, GoesTo DEF At, Holding, Call
  <2>3. rows[k].status = "queued" /\ rows[k].qid = 0 /\ Undelivered(k)
    BY <2>1 DEF ContractInv, CallsMatch, CallMatches
  <2>4. CallMatches(api[h])'
    BY <2>1, <2>2, <2>3 DEF CallMatches, Undelivered
  <2>5. QED
    BY <2>1, <2>4, SameKeysKeep, SameRowsSamePhase, OnlyCall
<1>7. CASE RecordEnqueued(h)
  <2>1. /\ api[h].pc = "record" /\ Commit(k, EnqueuedRow(rows[k], api[h].seen))
        /\ Go(h, IdleCall) /\ UNCHANGED <<queue, run>>
    BY <1>7 DEF RecordEnqueued
  <2>2. Exists(k) /\ ~Unannounced(rows[k])
    BY <2>1 DEF ContractInv, CallsMatch, CallMatches
  <2>3. /\ EnqueuedRow(rows[k], api[h].seen) \in Row
        /\ EnqueuedRow(rows[k], api[h].seen).status = rows[k].status
        /\ EnqueuedRow(rows[k], api[h].seen).error = rows[k].error
    BY <1>1, <2>1, RowsTyped DEF EnqueuedRow, Row
  <2>4. PICK r \in Row : r = EnqueuedRow(rows[k], api[h].seen)
    BY <2>3
  <2>5. DeliveriesMatch'
    BY <1>1, <2>1, <2>2, <2>3, <2>4, CommitKeeps DEF Unannounced, Exists
  <2>6. PhaseOf(r) = PhaseOf(rows[k])
    BY <2>2, <2>3, <2>4 DEF PhaseOf, NeverReachedQueue, Unannounced
  <2>7. QED
    BY <1>1, <2>1, <2>4, <2>5, <2>6, PhaseSteps, IdleMatches DEF Commit
<1>8. CASE RecordRefused(h)
  <2>1. /\ api[h].pc = "refused" /\ Commit(k, RefusedRow(rows[k]))
        /\ Go(h, IdleCall) /\ UNCHANGED <<queue, run>>
    BY <1>8 DEF RecordRefused
  <2>2. rows[k].status = "queued" /\ rows[k].qid = 0 /\ Undelivered(k)
    BY <2>1 DEF ContractInv, CallsMatch, CallMatches
  <2>3. PICK r \in Row : /\ r = RefusedRow(rows[k])
                         /\ r.status = "failed" /\ r.qid = 0 /\ r.error = "QUEUE_UNAVAILABLE"
    <3>1. RefusedRow(rows[k]) \in Row
      BY <1>1, <2>1, RowsTyped DEF Success
    <3>2. QED
      BY <1>1, <2>1, <2>2, <3>1 DEF RefusedRow, Row
  <2>4. DeliveriesMatch'
    BY <1>1, <2>1, <2>2, <2>3, CommitKeeps DEF NeverReachedQueue
  <2>5. PhaseOf(rows[k]) = "pending" /\ PhaseOf(r) = "unqueued"
    BY <2>2, <2>3 DEF PhaseOf, NeverReachedQueue, Active
  <2>6. QED
    BY <1>1, <2>1, <2>3, <2>4, <2>5, PhaseSteps, IdleMatches DEF Commit
<1>9. CASE CancelQueuedRqJob(h) \/ CommitCancel(h) \/ AnnounceCancel(h)
  BY <1>9 DEF ContractInv, CallsMatch, CallMatches, CancelQueuedRqJob, CommitCancel, AnnounceCancel
<1>10. QED
  BY <1>2, <1>3, <1>4, <1>5, <1>6, <1>7, <1>8, <1>9 DEF CallStep

-----------------------------------------------------------------------------
(* Steps of the workers.                                                   *)

\* A run starts only from an entry, and a job that is not delivered keeps its
\* row: the calls still match.
LEMMA WorkersLeaveCalls ==
  ASSUME ContractInv, UNCHANGED api, queue' \subseteq queue,
         \A w \in Workers : \/ run'[w].job \in {run[w].job, None}
                            \/ \E e \in queue : run'[w].job = e.job,
         \A k \in Keys :
           \/ rows'[k] = rows[k]
           \/ ~Undelivered(k) /\ rows'[k].status # "absent" /\ ~Unannounced(rows'[k])
  PROVE  CallsMatch'
<1> SUFFICES ASSUME NEW h \in Handlers PROVE CallMatches(api[h])'
  BY DEF CallsMatch
<1>1. PICK k : k = api[h].job
  OBVIOUS
<1>2. CallMatches(api[h]) /\ (api[h].pc # "idle" => k \in Keys)
  BY <1>1, CallTyped DEF ContractInv, JobInv, CallsMatch
<1>3. ASSUME k \in Keys, Undelivered(k) PROVE Undelivered(k)' /\ rows'[k] = rows[k]
  <2>1. k # None
    BY <1>3, ConstantsAssumption
  <2>2. QED
    BY <1>3, <2>1 DEF Undelivered
<1>4. CASE api[h].pc = "resume"
  <2>1. k \in Keys /\ Undelivered(k)
    BY <1>1, <1>2, <1>4 DEF CallMatches, ContractInv, DeliveriesMatch, KeyMatches,
       NeverReachedQueue, Unannounced
  <2>2. QED
    BY <1>1, <1>2, <1>3, <1>4, <2>1 DEF CallMatches, NeverReachedQueue
<1>5. CASE api[h].pc \in {"enqueue", "refused"}
  BY <1>1, <1>2, <1>3, <1>5 DEF CallMatches
<1>6. CASE api[h].pc = "record"
  BY <1>1, <1>2, <1>6 DEF CallMatches, Exists, Unannounced
<1>7. CASE api[h].pc \notin {"resume", "enqueue", "refused", "record"}
  BY <1>2, <1>7 DEF CallMatches
<1>8. QED
  BY <1>4, <1>5, <1>6, <1>7

LEMMA RunTyped ==
  ASSUME ContractInv, NEW w \in Workers, run[w].pc # "idle"
  PROVE  LET k == run[w].job IN
         /\ TypeInv /\ k \in Keys /\ rows[k] \in Row /\ ~Undelivered(k) /\ k # None
         /\ Exists(k) /\ ~Unannounced(rows[k])
         /\ run[w].pc # "announce" => rows[k].status \in Active
         /\ run[w].pc = "announce" => rows[k].status \in Terminal
         /\ \A e \in queue : e.job # k
         /\ \A v \in Workers \ {w} : run[v].job # k
BY ConstantsAssumption
   DEF ContractInv, JobInv, TypeInv, TypeOK, RunOK, DeliveriesMatch, KeyMatches, AtMostOne,
       Undelivered

\* A run goes on and commits r.
LEMMA WorkKeeps ==
  ASSUME ContractInv, NEW w \in Workers, run[w].pc # "idle",
         NEW pc \in RunPC \ {"idle"}, NEW s, Work(w, pc, s),
         NEW r \in Row, rows' = [rows EXCEPT ![run[w].job] = r],
         UNCHANGED <<api, queue>>, ~Unannounced(r),
         pc # "announce" => r.status \in Active, pc = "announce" => r.status \in Terminal
  PROVE  DeliveriesMatch' /\ CallsMatch'
<1>1. PICK k : k = run[w].job
  OBVIOUS
<1>2. /\ TypeInv /\ k \in Keys /\ ~Undelivered(k) /\ \A e \in queue : e.job # k
      /\ \A v \in Workers \ {w} : run[v].job # k
  BY <1>1, RunTyped
<1>3. /\ run'[w] = [pc |-> pc, job |-> k, seen |-> s]
      /\ \A v \in Workers \ {w} : run'[v] = run[v]
      /\ rows'[k] = r /\ \A j \in Keys \ {k} : rows'[j] = rows[j]
  BY <1>1, <1>2 DEF Work, TypeInv, TypeOK, RunOK
<1>4. r.status # "absent"
  BY DEF Active, Terminal, Success
<1>5. \A j \in Keys \ {k} : KeyMatches(j)'
  BY <1>1, <1>3, SameForKeeps DEF SameFor, ContractInv, DeliveriesMatch
<1>6. KeyMatches(k)'
  <2>1. AtMostOne(k)'
    BY <1>2, <1>3 DEF AtMostOne
  <2>2. QED
    BY <1>2, <1>3, <1>4, <2>1 DEF KeyMatches, Exists
<1>7. CallsMatch'
  BY <1>1, <1>2, <1>3, <1>4, WorkersLeaveCalls
<1>8. QED
  BY <1>5, <1>6, <1>7 DEF DeliveriesMatch

\* A run ends and leaves its job as it is.
LEMMA EndKeeps ==
  ASSUME ContractInv, NEW w \in Workers, run[w].pc # "idle",
         run' = [run EXCEPT ![w] = IdleRun], UNCHANGED <<rows, api, queue>>
  PROVE  DeliveriesMatch' /\ CallsMatch'
<1>1. PICK k : k = run[w].job
  OBVIOUS
<1>2. /\ TypeInv /\ k \in Keys /\ k # None /\ Exists(k) /\ ~Unannounced(rows[k])
      /\ \A e \in queue : e.job # k
      /\ \A v \in Workers \ {w} : run[v].job # k
  BY <1>1, RunTyped
<1>3. /\ run'[w].job = None /\ \A v \in Workers \ {w} : run'[v] = run[v]
  BY <1>2 DEF IdleRun, TypeInv, TypeOK, RunOK
<1>4. \A j \in Keys : j # None
  BY ConstantsAssumption
<1>5. \A j \in Keys \ {k} : KeyMatches(j)'
  BY <1>1, <1>3, <1>4, SameForKeeps DEF SameFor, ContractInv, DeliveriesMatch
<1>6. KeyMatches(k)'
  BY <1>2, <1>3 DEF KeyMatches, AtMostOne, Exists, Unannounced
<1>7. CallsMatch'
  BY <1>3, WorkersLeaveCalls
<1>8. QED
  BY <1>5, <1>6, <1>7 DEF DeliveriesMatch

\* An entry becomes a run, or is dropped.
LEMMA StartKeeps ==
  ASSUME ContractInv, NEW w \in Workers, StartRun(w)
  PROVE  DeliveriesMatch' /\ CallsMatch' /\ rows' = rows
<1>1. PICK e \in queue :
        /\ queue' = queue \ {e}
        /\ \/ run' = [run EXCEPT ![w] = IdleRun]
           \/ run' = [run EXCEPT ![w] =
                       [pc |-> "mark", job |-> e.job, seen |-> rows[e.job].status]]
  BY DEF StartRun
<1>2. run[w].pc = "idle" /\ UNCHANGED <<rows, api>>
  BY DEF StartRun
<1>3. PICK k : k = e.job
  OBVIOUS
<1>4. /\ TypeInv /\ k \in Keys /\ k # None /\ KeyMatches(k) /\ ~Undelivered(k)
      /\ \A j \in Keys : j # None /\ run[w].job # j
  BY <1>2, <1>3, ConstantsAssumption
     DEF ContractInv, JobInv, TypeInv, TypeOK, DeliveriesMatch, KeyMatches, Undelivered
<1>5. /\ \A v \in Workers \ {w} : run'[v] = run[v]
      /\ \/ run'[w].job = None
         \/ run'[w].job = k /\ run'[w].pc = "mark"
  BY <1>1, <1>3, <1>4 DEF IdleRun, TypeInv, TypeOK, RunOK
<1>6. \A j \in Keys \ {k} : KeyMatches(j)'
  <2>1. \A j \in Keys \ {k} : SameFor(j)
    BY <1>1, <1>2, <1>3, <1>4, <1>5 DEF SameFor
  <2>2. QED
    BY <2>1, SameForKeeps DEF ContractInv, DeliveriesMatch
<1>7. KeyMatches(k)'
  <2>1. (\A f \in queue' : f.job # k) /\ (\A v \in Workers \ {w} : run'[v].job # k)
    BY <1>1, <1>3, <1>4, <1>5 DEF KeyMatches, AtMostOne
  <2>2. rows[k].status \in Active /\ ~Unannounced(rows[k]) /\ Exists(k)
    BY <1>3, <1>4 DEF KeyMatches
  <2>3. AtMostOne(k)'
    BY <2>1 DEF AtMostOne
  <2>4. QED
    BY <1>2, <1>4, <1>5, <2>1, <2>2, <2>3 DEF KeyMatches, Exists, Unannounced
<1>8. CallsMatch'
  BY <1>1, <1>2, <1>3, <1>5, WorkersLeaveCalls
<1>9. QED
  BY <1>2, <1>6, <1>7, <1>8 DEF DeliveriesMatch

LEMMA WorkerStepMatches ==
  ASSUME OneClient, ContractInv, NEW w \in Workers,
         RunStep(w) \/ RegisterOutputs(w) \/ RunRaises(w) \/ CrashWorker(w)
  PROVE  DeliveriesMatch' /\ CallsMatch' /\ [Contract!Next]_phase
<1> DEFINE k == run[w].job
<1>1. run[w].pc # "idle" => TypeInv /\ k \in Keys /\ rows[k] \in Row /\ ~Unannounced(rows[k])
  BY RunTyped
<1>2. CASE StartRun(w)
  BY <1>2, StartKeeps, SameRowsSamePhase
<1>3. CASE MarkRunning(w) \/ CompleteOperation(w)
  <2>1. /\ run[w].pc \in {"mark", "working"} /\ UNCHANGED <<api, queue>>
        /\ \E pc \in {"working", "validating"} : Work(w, pc, run[w].seen)
    BY <1>3 DEF MarkRunning, CompleteOperation
  <2>2. rows[k].status \in Active
    BY <2>1, RunTyped
  <2>3. PICK r \in Row :
          /\ rows' = [rows EXCEPT ![k] = r] /\ r.status \in Active /\ ~Unannounced(r)
    <3>1. CASE MarkRunning(w)
      <4>1. RunningRow(rows[k], run[w].seen) \in Row
        BY <1>1, <2>1, RowsTyped DEF Success
      <4>2. /\ RunningRow(rows[k], run[w].seen).status \in Active
            /\ RunningRow(rows[k], run[w].seen).error = rows[k].error
        BY <1>1, <2>1, <2>2 DEF RunningRow, Row, Active
      <4>3. QED
        BY <1>1, <2>1, <3>1, <4>1, <4>2 DEF MarkRunning, Commit, Unannounced
    <3>2. CASE CompleteOperation(w)
      <4>1. [rows[k] EXCEPT !.status = "validating"] \in Row
        BY <1>1, <2>1, RowsTyped DEF Success
      <4>2. /\ [rows[k] EXCEPT !.status = "validating"].status = "validating"
            /\ [rows[k] EXCEPT !.status = "validating"].error = rows[k].error
        BY <1>1, <2>1 DEF Row
      <4>3. QED
        BY <1>1, <2>1, <3>2, <4>1, <4>2 DEF CompleteOperation, Commit, Unannounced, Active
    <3>3. QED
      BY <1>3, <3>1, <3>2
  <2>4. PhaseOf(r) = PhaseOf(rows[k])
    BY <2>2, <2>3 DEF PhaseOf
  <2>5. DeliveriesMatch' /\ CallsMatch'
    BY <2>1, <2>3, WorkKeeps DEF RunPC
  <2>6. QED
    BY <1>1, <2>1, <2>3, <2>4, <2>5, PhaseSteps
<1>4. CASE RegisterOutputs(w) \/ MarkFailed(w)
  <2>1. run[w].pc \in {"validating", "failing"} /\ UNCHANGED <<api, queue>>
    BY <1>4 DEF RegisterOutputs, MarkFailed
  <2>2. rows[k].status \in Active
    BY <2>1, RunTyped
  <2>3. PICK r \in Row, s \in Success \cup {"failed"} :
          /\ rows' = [rows EXCEPT ![k] = r] /\ Work(w, "announce", s)
          /\ r.status = s /\ ~Unannounced(r)
    <3>1. CASE RegisterOutputs(w)
      <4>1. PICK s \in Success : Commit(k, RegisteredRow(rows[k], s)) /\ Work(w, "announce", s)
        BY <3>1 DEF RegisterOutputs
      <4>2. RegisteredRow(rows[k], s) \in Row
        BY <1>1, <2>1, RowsTyped
      <4>3. /\ RegisteredRow(rows[k], s).status = s
            /\ RegisteredRow(rows[k], s).error = rows[k].error
        BY <1>1, <2>1 DEF RegisteredRow, Row
      <4>4. QED
        BY <1>1, <2>1, <4>1, <4>2, <4>3 DEF Commit, Unannounced
    <3>2. CASE MarkFailed(w)
      <4>1. MarkedFailedRow(rows[k]) \in Row
        BY <1>1, <2>1, RowsTyped DEF Success
      <4>2. /\ MarkedFailedRow(rows[k]).status = "failed"
            /\ MarkedFailedRow(rows[k]).error = "worker"
        BY <1>1, <2>1 DEF MarkedFailedRow, Row
      <4>3. QED
        BY <3>2, <4>1, <4>2 DEF MarkFailed, Commit, Unannounced
    <3>3. QED
      BY <1>4, <3>1, <3>2
  <2>4. PhaseOf(rows[k]) = "pending"
    BY <2>2 DEF PhaseOf
  <2>5. PhaseOf(r) = s
    BY <2>3 DEF PhaseOf, NeverReachedQueue, Unannounced, Success, Active
  <2>6. DeliveriesMatch' /\ CallsMatch'
    BY <2>1, <2>3, WorkKeeps DEF RunPC, Terminal
  <2>7. QED
    BY <1>1, <2>1, <2>3, <2>4, <2>5, <2>6, PhaseSteps
<1>5. CASE DuplicateOutputs(w) \/ RunRaises(w)
  <2>1. /\ run[w].pc \notin {"idle", "announce"} /\ UNCHANGED <<rows, api, queue>>
        /\ Work(w, "failing", run[w].seen)
    BY <1>5 DEF DuplicateOutputs, RunRaises, OneClient
  <2>2. PICK r \in Row : r = rows[k]
    BY <1>1, <2>1
  <2>3. r.status \in Active /\ ~Unannounced(r) /\ rows' = [rows EXCEPT ![k] = r]
    BY <1>1, <2>1, <2>2, RunTyped DEF TypeInv, TypeOK
  <2>4. "failing" \in RunPC \ {"idle"} /\ "failing" # "announce"
    BY DEF RunPC
  <2>5. run[w].pc # "idle" /\ UNCHANGED <<api, queue>> /\ UNCHANGED rows
    BY <2>1
  <2>6. DeliveriesMatch' /\ CallsMatch'
    BY <2>1, <2>3, <2>4, <2>5, WorkKeeps
  <2>7. QED
    BY <2>5, <2>6, SameRowsSamePhase
<1>6. CASE AnnounceOutcome(w) \/ CrashWorker(w)
  BY <1>6, EndKeeps, SameRowsSamePhase DEF AnnounceOutcome, CrashWorker
<1>7. QED
  BY <1>2, <1>3, <1>4, <1>5, <1>6 DEF RunStep

LEMMA StepMatches ==
  ASSUME OneClient, ContractInv, [Next]_vars
  PROVE  ContractInv' /\ [Contract!Next]_phase
<1>1. JobInv'
  BY NextSafe DEF ContractInv
<1>2. ASSUME NEW h \in Handlers, ClientCalls(h) \/ CallStep(h)
      PROVE  DeliveriesMatch' /\ CallsMatch' /\ [Contract!Next]_phase
  BY <1>2, ClientCallMatches, CallStepMatches, SameRowsSamePhase
<1>3. ASSUME NEW h \in Handlers, CrashHandler(h)
      PROVE  DeliveriesMatch' /\ CallsMatch' /\ [Contract!Next]_phase
  <2>1. UNCHANGED <<rows, queue, run>> /\ Go(h, IdleCall)
    BY <1>3 DEF CrashHandler
  <2>2. QED
    BY <2>1, SameKeysKeep, IdleMatches, SameRowsSamePhase DEF ContractInv, JobInv
<1>4. CASE UNCHANGED vars
  <2>1. UNCHANGED <<rows, queue, run, api>>
    BY <1>4 DEF vars
  <2>2. CallsMatch'
    BY <2>1 DEF ContractInv, CallsMatch, CallMatches, Undelivered, Exists
  <2>3. QED
    BY <1>1, <2>1, <2>2, SameKeysKeep, SameRowsSamePhase DEF ContractInv
<1>5. QED
  BY <1>1, <1>2, <1>3, <1>4, WorkerStepMatches DEF Next, ContractInv

LEMMA InitMapped == Init => Contract!Init
<1> SUFFICES ASSUME Init PROVE Contract!Init
  OBVIOUS
<1>1. PhaseOf(AbsentRow) = "absent"
  BY DEF PhaseOf, AbsentRow, Active, NeverReachedQueue
<1>2. QED
  BY <1>1 DEF Init, phase, Contract!Init

LEMMA AtMostOneCounted ==
  ASSUME ContractInv PROVE OneDeliveryPerJob
<1> SUFFICES ASSUME NEW k \in Keys
             PROVE  Cardinality({e \in queue : e.job = k})
                      + Cardinality({w \in Workers : run[w].job = k}) <= 1
  BY DEF OneDeliveryPerJob
<1> DEFINE Waiting == {e \in queue : e.job = k}
<1> DEFINE Doing == {w \in Workers : run[w].job = k}
<1>1. AtMostOne(k)
  BY DEF ContractInv, DeliveriesMatch, KeyMatches
<1>2. Cardinality(Waiting) = 0 \/ Cardinality(Waiting) = 1
  <2>1. CASE Waiting = {}
    BY <2>1, FS_EmptySet
  <2>2. CASE Waiting # {}
    <3>1. PICK e \in Waiting : Waiting = {e}
      BY <1>1, <2>2 DEF AtMostOne
    <3>2. QED
      BY <3>1, FS_Singleton
  <2>3. QED
    BY <2>1, <2>2
<1>3. Cardinality(Doing) = 0 \/ Cardinality(Doing) = 1
  <2>1. CASE Doing = {}
    BY <2>1, FS_EmptySet
  <2>2. CASE Doing # {}
    <3>1. PICK w \in Doing : Doing = {w}
      BY <1>1, <2>2 DEF AtMostOne
    <3>2. QED
      BY <3>1, FS_Singleton
  <2>3. QED
    BY <2>1, <2>2
<1>4. Waiting = {} \/ Doing = {}
  BY <1>1 DEF AtMostOne
<1>5. /\ Waiting = {} => Cardinality(Waiting) = 0
      /\ Doing = {} => Cardinality(Doing) = 0
  BY FS_EmptySet
<1> HIDE DEF Waiting, Doing
<1>6. Cardinality(Waiting) + Cardinality(Doing) <= 1
  BY <1>2, <1>3, <1>4, <1>5
<1>7. QED
  BY <1>6 DEF Waiting, Doing

-----------------------------------------------------------------------------
\* The invariant behind the refinement: entries, runs and the call in flight
\* are where the rows say they are.
THEOREM DeliveriesTracked == ASSUME OneClient PROVE Spec => []ContractInv
<1>1. Init => ContractInv
  BY InitMatches
<1>2. ContractInv /\ [Next]_vars => ContractInv'
  BY OneClient, StepMatches
<1>3. QED
  BY <1>1, <1>2, PTL DEF Spec

\* With one client at a time no job is in the queue or in a worker twice, for
\* any number of jobs, replays, workers and crashes.
THEOREM JobsDeliveredOnce == ASSUME OneClient PROVE Spec => []OneDeliveryPerJob
<1>1. ContractInv => OneDeliveryPerJob
  BY AtMostOneCounted
<1>2. QED
  BY <1>1, DeliveriesTracked, PTL

\* Every behaviour of the job service is one of the contract: a job is decided
\* once, and only a job that never reached the queue is taken up again.
THEOREM ContractSteps == ASSUME OneClient PROVE Spec => Contract!Init /\ [][Contract!Next]_phase
<1>1. ContractInv /\ [Next]_vars => [Contract!Next]_phase
  BY OneClient, StepMatches
<1>2. QED
  BY <1>1, InitMapped, DeliveriesTracked, PTL DEF Spec
=============================================================================
