----------------------------- MODULE JobCrashes -----------------------------
(***************************************************************************)
(* JobLifecycle with a memory of crashes: which jobs a process that died   *)
(* may have left without anybody to go on with them.  Its steps are those  *)
(* of JobLifecycle.                                                        *)
(***************************************************************************)
EXTENDS JobLifecycle

CONSTANT MaxCrashes   \* bound: crashes in a behaviour

ASSUME CrashesAssumption == MaxCrashes \in Nat

VARIABLES
  crashes,    \* how many there have been
  abandoned   \* history: jobs that a crash took out of somebody's hands

crashVars == <<rows, wlock, api, queue, tickets, run, events, revived, crashes, abandoned>>

\* An API call has its job in hand from the commit of the row to the enqueue
\* (or to the record that the queue refused it), and again once a cancel has
\* taken the entry from the queue.
CallHolds(h) == api[h].pc \in {"enqueue", "refused", "cancel"}

\* A run has it from the taking of the entry to the commit of the outcome.
RunHolds(w) == run[w].pc \in {"mark", "working", "validating", "failing"}

Crashes(ks) ==
  /\ crashes < MaxCrashes
  /\ crashes' = crashes + 1
  /\ abandoned' = abandoned \cup ks

CrashInit == Init /\ crashes = 0 /\ abandoned = {}

CrashNext ==
  \/ /\ \/ \E h \in Handlers : ClientCalls(h) \/ CallStep(h)
        \/ \E w \in Workers : RunStep(w) \/ RegisterOutputs(w) \/ RunRaises(w)
     /\ UNCHANGED <<crashes, abandoned>>
  \/ \E h \in Handlers :
       CrashHandler(h) /\ Crashes(IF CallHolds(h) THEN {api[h].job} ELSE {})
  \/ \E w \in Workers :
       CrashWorker(w) /\ Crashes(IF RunHolds(w) THEN {run[w].job} ELSE {})

CrashSpec == CrashInit /\ [][CrashNext]_crashVars /\ Fairness

-----------------------------------------------------------------------------
\* Every admitted job comes to an end, with clients that race for jobs and for
\* places and replay what was refused, a queue that is down, and calls and
\* workers that die.  The one way out: a process died with this very job in
\* hand (_enqueue_or_fail, cancel_job, process_job), since no code looks for such
\* jobs.  A crash anywhere else, under the workspace lock too, costs no job.
JobsFinish ==
  \A k \in Keys :
    rows[k].status \in Active ~> rows[k].status \in Terminal \/ k \in abandoned
=============================================================================
