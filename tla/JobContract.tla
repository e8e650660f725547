---------------------------- MODULE JobContract -----------------------------
(***************************************************************************)
(* What the job service promises a client that creates a job and polls it: *)
(* an admitted job is decided exactly once and the decision stands.  The   *)
(* one outcome that may be taken back is that the queue was unavailable,   *)
(* which a replay of the request retries.                                  *)
(***************************************************************************)
CONSTANT Keys
VARIABLE phase   \* Keys -> the phase a client sees

Decision == {"succeeded", "completed_with_warnings", "failed"}

Init == phase = [k \in Keys |-> "absent"]

Move(k, from, to) == phase[k] = from /\ phase' = [phase EXCEPT ![k] = to]

Admit(k)  == Move(k, "absent", "pending")
Decide(k) == \E d \in Decision : Move(k, "pending", d)
Refuse(k) == Move(k, "pending", "unqueued")
Retry(k)  == Move(k, "unqueued", "pending")

Next == \E k \in Keys : Admit(k) \/ Decide(k) \/ Refuse(k) \/ Retry(k)

\* A pending job does not stay pending.
Spec == /\ Init /\ [][Next]_phase
        /\ \A k \in Keys : WF_phase(Decide(k) \/ Refuse(k))
=============================================================================
