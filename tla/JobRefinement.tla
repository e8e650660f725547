--------------------------- MODULE JobRefinement ----------------------------
(***************************************************************************)
(* The mapping under which JobLifecycle implements JobContract when one    *)
(* client creates and replays jobs.                                        *)
(***************************************************************************)
EXTENDS JobLifecycle

\* A client sees the three active statuses as one, and a job that never
\* reached the queue apart from one that failed.
PhaseOf(r) ==
  IF r.status \in Active THEN "pending"
  ELSE IF NeverReachedQueue(r) THEN "unqueued"
  ELSE r.status

phase == [k \in Keys |-> PhaseOf(rows[k])]

Contract == INSTANCE JobContract WITH Keys <- Keys, phase <- phase

\* One client at a time, no cancel, no lost reply and no crash of the API or a
\* worker: every behaviour of the job service is one of the contract, liveness
\* included.
ImplementsContract == Contract!Spec
=============================================================================
