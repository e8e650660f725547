----------------------------- MODULE ApiProcess -----------------------------
(***************************************************************************)
(* One API process: uvicorn's event loop, the threads that run its sync    *)
(* endpoints, and the workspace lock both take (app/api/files.py,          *)
(* app/api/jobs.py, app/db.py, app/services/usage.py).                     *)
(*                                                                         *)
(* A sync endpoint runs in a thread.  Its session is a dependency of the   *)
(* request (get_session): when the endpoint raises without a commit or a   *)
(* rollback, its row locks last until the session is closed, which the     *)
(* event loop does after the endpoint has returned.  upload_file is a      *)
(* coroutine: from its last await on it runs on the event loop, the wait   *)
(* for the workspace lock included, and nothing else runs there meanwhile. *)
(***************************************************************************)
CONSTANTS
  Requests,  \* requests that can be in flight at once
  Workers,   \* RQ workers, which register outputs under the same lock
  None       \* a free lock, an event loop that is not blocked

VARIABLES
  loop,   \* the request whose code blocks the event loop, or None
  wlock,  \* the request that holds the FOR UPDATE lock on the workspace row
  req,    \* Requests -> "idle"; "thread", "locked" (a sync endpoint);
          \* "reading", "reserving", "inserting" (upload_file); "returned"
  run     \* Workers -> "idle" or "registering"

vars == <<loop, wlock, req, run>>

Init ==
  /\ loop = None
  /\ wlock = None
  /\ req = [r \in Requests |-> "idle"]
  /\ run = [w \in Workers |-> "idle"]

Move(r, from, to) == req[r] = from /\ req' = [req EXCEPT ![r] = to]
Unlock(r) == wlock' = IF wlock = r THEN None ELSE wlock

-----------------------------------------------------------------------------
\* The event loop authenticates a request and hands it to a thread, or runs
\* it itself up to the awaits that read the file.
Accept(r) ==
  /\ loop = None
  /\ Move(r, "idle", "thread") \/ Move(r, "idle", "reading")
  /\ UNCHANGED <<loop, wlock, run>>

\* create_job and the key endpoints, in a thread: lock, then work.
ThreadLocks(r) ==
  /\ Move(r, "thread", "locked")
  /\ wlock = None /\ wlock' = r
  /\ UNCHANGED <<loop, run>>

ThreadCommits(r) ==
  /\ Move(r, "locked", "returned")
  /\ Unlock(r)
  /\ UNCHANGED <<loop, run>>

\* A limit is reached, an input is missing, a replay is found under the lock:
\* the endpoint raises or returns, and its transaction stays open.
ThreadLeaves(r) ==
  /\ Move(r, "locked", "returned")
  /\ UNCHANGED <<loop, wlock, run>>

\* get_session closes the session, on the event loop's account.
CloseSession(r) ==
  /\ loop = None
  /\ Move(r, "returned", "idle")
  /\ Unlock(r)
  /\ UNCHANGED <<loop, run>>

-----------------------------------------------------------------------------
\* upload_file after its last await: validate, store, wait for the lock,
\* insert, commit or roll back, all on the event loop.
UploadRuns(r) ==
  /\ Move(r, "reading", "reserving")
  /\ loop = None /\ loop' = r
  /\ UNCHANGED <<wlock, run>>

UploadLocks(r) ==
  /\ Move(r, "reserving", "inserting")
  /\ wlock = None /\ wlock' = r
  /\ UNCHANGED <<loop, run>>

UploadEnds(r) ==
  /\ Move(r, "inserting", "returned")
  /\ Unlock(r) /\ loop' = None
  /\ UNCHANGED run

-----------------------------------------------------------------------------
\* process_job has staged its outputs and reserves quota for them; its
\* transaction ends by itself.
WantRegister(w) ==
  /\ run[w] = "idle"
  /\ run' = [run EXCEPT ![w] = "registering"]
  /\ UNCHANGED <<loop, wlock, req>>

Register(w) ==
  /\ run[w] = "registering"
  /\ wlock = None
  /\ run' = [run EXCEPT ![w] = "idle"]
  /\ UNCHANGED <<loop, wlock, req>>

RequestStep(r) ==
  \/ ThreadLocks(r) \/ ThreadCommits(r) \/ ThreadLeaves(r) \/ CloseSession(r)
  \/ UploadRuns(r) \/ UploadLocks(r) \/ UploadEnds(r)

Next ==
  \/ \E r \in Requests : Accept(r) \/ RequestStep(r)
  \/ \E w \in Workers : WantRegister(w) \/ Register(w)

\* Threads and the event loop run on, and a row lock is granted to who waits.
FairSpec ==
  /\ Init /\ [][Next]_vars
  /\ \A r \in Requests : SF_vars(RequestStep(r))
  /\ \A w \in Workers : SF_vars(Register(w))

\* "Wait for an active job to finish or cancel a queued job." (usage.py:129):
\* what a refused request is told to wait for happens.
ActiveJobsFinish == \A w \in Workers : run[w] = "registering" ~> run[w] = "idle"
=============================================================================
