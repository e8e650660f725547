--------------------------- MODULE WebhookDelivery ---------------------------
(***************************************************************************)
(* Webhooks of one workspace (app/services/webhooks.py): the event of a    *)
(* finished job becomes one delivery for every endpoint that listens,      *)
(* deliveries are put on the RQ queue (worker/queue.py) and a worker posts *)
(* each of them until the receiver accepts it or the attempts run out.     *)
(*                                                                         *)
(* Every state change of a delivery opens a session of its own and none is *)
(* open while the receiver is called, so the call that queued a delivery,  *)
(* the run that posts it and a client that disables the endpoint take      *)
(* their steps in any order.                                               *)
(***************************************************************************)
EXTENDS Integers, FiniteSets

CONSTANTS
  Events,       \* <<job, event>> pairs that are announced
  Endpoints,
  Workers,
  None,         \* no delivery
  MaxAttempts,  \* settings.webhook_max_attempts
  MaxMishaps    \* bound: crashes, lost replies and errors in a behaviour

ASSUME ConstantsAssumption ==
  /\ MaxAttempts \in Nat \ {0}
  /\ MaxMishaps \in Nat
  /\ None \notin Events \X Endpoints

\* The delivery of an event to an endpoint.
Deliveries == Events \X Endpoints
EndpointOf(d) == d[2]

Attempts == 0 .. MaxAttempts
DeliveryStatus == {"pending", "succeeded", "failed"}

VARIABLES
  active,   \* the endpoints that are not disabled
  status,   \* Deliveries -> "absent" or a DeliveryStatus: the rows
  attempts, \* Deliveries -> the column attempts
  caller,   \* Events -> the queueing call: its step and the deliveries left
  queue,    \* the deliveries waiting in RQ
  run,      \* Workers -> a run: its step, delivery and attempt
  posts,    \* history, Deliveries -> how often the receiver was called
  accepted, \* history: deliveries the receiver answered with a 2xx
  mishaps,  \* how many mishaps there have been
  struck    \* history: deliveries that a mishap hit half way

vars == <<active, status, attempts, caller, queue, run, posts, accepted, mishaps, struck>>

IdleRun == [pc |-> "idle", at |-> None, attempt |-> 0]

TypeOK ==
  /\ active \subseteq Endpoints
  /\ status \in [Deliveries -> {"absent"} \cup DeliveryStatus]
  /\ attempts \in [Deliveries -> Attempts]
  /\ caller \in [Events -> [pc : {"new", "enqueue", "refused", "done"},
                            left : SUBSET Deliveries, at : Deliveries \cup {None}]]
  /\ queue \subseteq Deliveries
  /\ run \in [Workers -> [pc : {"idle", "attempt", "post", "accepted", "rejected"},
                          at : Deliveries \cup {None}, attempt : Attempts]]
  /\ posts \in [Deliveries -> Nat]
  /\ accepted \subseteq Deliveries
  /\ mishaps \in 0 .. MaxMishaps
  /\ struck \subseteq Deliveries

Init ==
  /\ active = Endpoints
  /\ status = [d \in Deliveries |-> "absent"]
  /\ attempts = [d \in Deliveries |-> 0]
  /\ caller = [e \in Events |-> [pc |-> "new", left |-> {}, at |-> None]]
  /\ queue = {}
  /\ run = [w \in Workers |-> IdleRun]
  /\ posts = [d \in Deliveries |-> 0]
  /\ accepted = {}
  /\ mishaps = 0
  /\ struck = {}

Mishap(ds) ==
  /\ mishaps < MaxMishaps
  /\ mishaps' = mishaps + 1
  /\ struck' = struck \cup ds

NoMishap == UNCHANGED <<mishaps, struck>>

\* A name that ends in _ and a word is the definition above it with a bug.

-----------------------------------------------------------------------------
(* queue_terminal_job_webhooks                                             *)

Calls(e, pc, ds, d) == caller' = [caller EXCEPT ![e] = [pc |-> pc, left |-> ds, at |-> d]]

\* One pending row for each active endpoint that listens, in one commit.
QueueTerminalJobWebhooks(e) ==
  /\ caller[e].pc = "new"
  /\ \E listening \in SUBSET active :
       LET ds == {e} \X listening IN
       /\ status' = [d \in Deliveries |-> IF d \in ds THEN "pending" ELSE status[d]]
       /\ Calls(e, "enqueue", ds, None)
  /\ UNCHANGED <<active, attempts, queue, run, posts, accepted>> /\ NoMishap

\* The job's own call died, or its webhooks raised: the event is lost.
EventLost(e) ==
  /\ caller[e].pc = "new"
  /\ Mishap({})
  /\ Calls(e, "done", {}, None)
  /\ UNCHANGED <<active, status, attempts, queue, run, posts, accepted>>

EnqueueDelivery(e) ==
  /\ caller[e].pc = "enqueue"
  /\ \E d \in caller[e].left :
       /\ queue' = queue \cup {d}
       /\ Calls(e, "enqueue", caller[e].left \ {d}, None)
  /\ UNCHANGED <<active, status, attempts, run, posts, accepted>> /\ NoMishap

\* Redis refuses, or accepts and its reply is lost.
EnqueueFails(e) ==
  /\ caller[e].pc = "enqueue"
  /\ \E d \in caller[e].left :
       /\ Mishap({d})
       /\ queue' \in {queue, queue \cup {d}}
       /\ Calls(e, "refused", caller[e].left \ {d}, d)
  /\ UNCHANGED <<active, status, attempts, run, posts, accepted>>

\* _record_enqueue_failure, whatever the delivery has come to since.
RecordEnqueueFailure(e) ==
  /\ caller[e].pc = "refused"
  /\ status' = [status EXCEPT ![caller[e].at] = "failed"]
  /\ Calls(e, "enqueue", caller[e].left, None)
  /\ UNCHANGED <<active, attempts, queue, run, posts, accepted>> /\ NoMishap

\* ... whose own commit may fail, which it only logs.
FailureUnrecorded(e) ==
  /\ caller[e].pc = "refused"
  /\ Mishap({caller[e].at})
  /\ Calls(e, "enqueue", caller[e].left, None)
  /\ UNCHANGED <<active, status, attempts, queue, run, posts, accepted>>

CrashCaller(e) ==
  /\ caller[e].pc \in {"enqueue", "refused"} /\ caller[e].left # {}
  /\ Mishap(caller[e].left)
  /\ Calls(e, "done", {}, None)
  /\ UNCHANGED <<active, status, attempts, queue, run, posts, accepted>>

-----------------------------------------------------------------------------
(* deliver_webhook_delivery                                                *)

Works(w, pc, d, n) == run' = [run EXCEPT ![w] = [pc |-> pc, at |-> d, attempt |-> n]]
SetStatus(w, s) == status' = [status EXCEPT ![run[w].at] = s]

\* _start_delivery: an endpoint that is inactive, or that resolves to a
\* private address by now, is refused; else the run knows all it needs.
StartDelivery_Unguarded(w) ==
  /\ run[w].pc = "idle"
  /\ \E d \in queue :
       /\ queue' = queue \ {d}
       /\ Works(w, "attempt", d, attempts[d] + 1) /\ UNCHANGED status
  /\ UNCHANGED <<active, attempts, caller, posts, accepted>> /\ NoMishap
StartDelivery(w) ==
  /\ run[w].pc = "idle"
  /\ \E d \in queue :
       /\ queue' = queue \ {d}
       /\ \/ status' = [status EXCEPT ![d] = "failed"] /\ UNCHANGED run
          \/ /\ EndpointOf(d) \in active
             /\ Works(w, "attempt", d, attempts[d] + 1) /\ UNCHANGED status
  /\ UNCHANGED <<active, attempts, caller, posts, accepted>> /\ NoMishap

\* The attempt is on record before the receiver is called.
RecordAttempt_AfterwardsOnly(w) ==
  /\ run[w].pc = "attempt"
  /\ Works(w, "post", run[w].at, run[w].attempt)
  /\ UNCHANGED <<active, status, attempts, caller, queue, posts, accepted>> /\ NoMishap
RecordAttempt(w) ==
  /\ run[w].pc = "attempt"
  /\ SetStatus(w, "pending")
  /\ attempts' = [attempts EXCEPT ![run[w].at] = run[w].attempt]
  /\ Works(w, "post", run[w].at, run[w].attempt)
  /\ UNCHANGED <<active, caller, queue, posts, accepted>> /\ NoMishap

Called(d) == posts' = [posts EXCEPT ![d] = @ + 1]

\* The receiver is called; it accepts, or it refuses, cannot be reached or
\* does not answer in time.
Post(w) ==
  LET d == run[w].at IN
  /\ run[w].pc = "post"
  /\ \/ /\ accepted' = accepted \cup {d}
        /\ Called(d)
        /\ Works(w, "accepted", d, run[w].attempt)
     \/ /\ Called(d) \/ UNCHANGED posts
        /\ Works(w, "rejected", d, run[w].attempt)
        /\ UNCHANGED accepted
  /\ UNCHANGED <<active, status, attempts, caller, queue>> /\ NoMishap

SuccessStatus_Pending == "pending"
SuccessStatus == "succeeded"

RecordSuccess(w) ==
  /\ run[w].pc = "accepted"
  /\ SetStatus(w, SuccessStatus)
  /\ run' = [run EXCEPT ![w] = IdleRun]
  /\ UNCHANGED <<active, attempts, caller, queue, posts, accepted>> /\ NoMishap

\* The commit of the success is inside the try of the call: an error there
\* counts as a failed attempt.
CaughtError(w) ==
  /\ run[w].pc = "accepted"
  /\ Mishap({run[w].at})
  /\ Works(w, "rejected", run[w].at, run[w].attempt)
  /\ UNCHANGED <<active, status, attempts, caller, queue, posts, accepted>>

Exhausted_Never(n) == FALSE
Exhausted(n) == n >= MaxAttempts

ExhaustedStatus_Pending == "pending"
ExhaustedStatus == "failed"

\* Failed after the last attempt, else pending, and after the backoff again.
RecordFailedAttempt(w) ==
  LET d == run[w].at  n == run[w].attempt IN
  /\ run[w].pc = "rejected"
  /\ \/ /\ Exhausted(n)
        /\ SetStatus(w, ExhaustedStatus) /\ run' = [run EXCEPT ![w] = IdleRun]
     \/ /\ ~Exhausted(n)
        /\ SetStatus(w, "pending") /\ Works(w, "attempt", d, n + 1)
  /\ UNCHANGED <<active, attempts, caller, queue, posts, accepted>> /\ NoMishap

\* The worker dies, maybe during the call, or raises where nothing catches it
\* (RQ's timeout during the backoff): RQ does not run the delivery again.
CrashWorker(w) ==
  /\ run[w].pc # "idle"
  /\ Mishap({run[w].at})
  /\ \/ run[w].pc = "post" /\ Called(run[w].at)
     \/ UNCHANGED posts
  /\ run' = [run EXCEPT ![w] = IdleRun]
  /\ UNCHANGED <<active, status, attempts, caller, queue, accepted>>

DisableEndpoint(p) ==
  /\ p \in active
  /\ active' = active \ {p}
  /\ UNCHANGED <<status, attempts, caller, queue, run, posts, accepted>> /\ NoMishap

-----------------------------------------------------------------------------
CallStep(e) ==
  QueueTerminalJobWebhooks(e) \/ EnqueueDelivery(e) \/ RecordEnqueueFailure(e)

RunStep(w) ==
  \/ StartDelivery(w) \/ RecordAttempt(w) \/ Post(w)
  \/ RecordSuccess(w) \/ RecordFailedAttempt(w)

Next ==
  \/ \E e \in Events :
       CallStep(e) \/ EventLost(e) \/ EnqueueFails(e) \/ FailureUnrecorded(e) \/ CrashCaller(e)
  \/ \E w \in Workers : RunStep(w) \/ CaughtError(w) \/ CrashWorker(w)
  \/ \E p \in Endpoints : DisableEndpoint(p)

Spec == Init /\ [][Next]_vars

\* Calls and workers go on; a call to a receiver ends, since it has a timeout.
FairSpec ==
  /\ Spec
  /\ \A e \in Events : WF_vars(CallStep(e))
  /\ \A w \in Workers : WF_vars(RunStep(w))

-----------------------------------------------------------------------------
Running(d) == \E w \in Workers : run[w].at = d

\* What a delivery says of its receiver is true: it has succeeded only if the
\* receiver accepted it and, mishaps aside, as soon as no run is at it.
SucceededMeansAccepted ==
  \A d \in Deliveries :
    /\ status[d] = "succeeded" => d \in accepted
    /\ d \in accepted \ struck /\ ~Running(d) => status[d] = "succeeded"

\* The attempts on record cover every call the receiver has seen and never
\* exceed the maximum, through crashes, retries and lost replies.
AttemptsCoverPosts ==
  \A d \in Deliveries : posts[d] <= attempts[d] /\ attempts[d] <= MaxAttempts

\* A disabled endpoint falls silent once the runs that started before have
\* ended: nothing that waits in the queue reaches it any more.
Quiet(p) == p \notin active /\ \A d \in Deliveries : EndpointOf(d) = p => ~Running(d)
DisabledStaysQuiet ==
  [][\A p \in Endpoints :
       Quiet(p) => Quiet(p)' /\ \A d \in Deliveries : EndpointOf(d) = p => posts'[d] = posts[d]]_vars

\* Every delivery is decided, unless a mishap hit it.
DeliveriesDecided ==
  \A d \in Deliveries :
    status[d] = "pending" ~> status[d] \in {"succeeded", "failed"} \/ d \in struck
=============================================================================
