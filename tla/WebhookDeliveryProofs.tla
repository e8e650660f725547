------------------------ MODULE WebhookDeliveryProofs ------------------------
(***************************************************************************)
(* What WebhookDelivery keeps for any number of events, endpoints, workers *)
(* and mishaps.                                                            *)
(*                                                                         *)
(* A delivery is in one place at a time: with the call that queues it, in  *)
(* the queue, or with one run.  As long as no run has had it, it is clean: *)
(* no attempt on record, no call to its receiver.  A run's own attempt is  *)
(* the one on record, so no call goes unrecorded and none is forgotten.    *)
(***************************************************************************)
EXTENDS WebhookDelivery, TLAPS

OfEvent(e) == {e} \X Endpoints

Clean(d) == attempts[d] = 0 /\ posts[d] = 0 /\ d \notin accepted /\ ~Running(d)

CallsConsistent ==
  \A e \in Events :
    /\ caller[e].left \subseteq OfEvent(e)
    /\ caller[e].pc = "new" => \A d \in OfEvent(e) : status[d] = "absent"
    /\ caller[e].pc = "refused" =>
         /\ caller[e].at \in (OfEvent(e) \cap struck) \ caller[e].left
         /\ status[caller[e].at] # "absent"

WaitingAreClean ==
  \A d \in Deliveries :
    /\ status[d] = "absent" => Clean(d) /\ d \notin queue
    /\ d \in queue => Clean(d)
    /\ \A e \in Events : d \in caller[e].left => Clean(d) /\ d \notin queue /\ status[d] # "absent"

\* A run that is at d with attempt n.
RunAt(pc, d, n) ==
  /\ status[d] # "absent" /\ d \notin queue
  /\ pc = "attempt" => n = attempts[d] + 1
  /\ pc # "attempt" => n = attempts[d]
  /\ pc = "post" => posts[d] < attempts[d]
  /\ pc = "accepted" => d \in accepted
  /\ pc # "accepted" /\ d \in accepted => d \in struck

RunsConsistent ==
  \A w \in Workers :
    /\ run[w].pc = "idle" <=> run[w].at = None
    /\ run[w].pc # "idle" => RunAt(run[w].pc, run[w].at, run[w].attempt)
    /\ \A v \in Workers \ {w} : run[v].at = run[w].at => run[w].at = None

DeliveryInv ==
  /\ TypeOK /\ CallsConsistent /\ WaitingAreClean /\ RunsConsistent
  /\ SucceededMeansAccepted /\ AttemptsCoverPosts

LEMMA EventsApart ==
  /\ \A e \in Events : OfEvent(e) \subseteq Deliveries
  /\ \A e, f \in Events : \A d \in OfEvent(e) : d \in OfEvent(f) => e = f
  /\ None \notin Deliveries
BY ConstantsAssumption DEF OfEvent, Deliveries

LEMMA InitInv == Init => DeliveryInv
<1> SUFFICES ASSUME Init PROVE DeliveryInv
  OBVIOUS
<1>1. TypeOK
  BY ConstantsAssumption DEF Init, TypeOK, IdleRun, Attempts
<1>2. \A d \in Deliveries : ~Running(d)
  BY EventsApart DEF Init, Running, IdleRun
<1>3. CallsConsistent /\ WaitingAreClean /\ RunsConsistent
  BY <1>2, EventsApart DEF Init, CallsConsistent, WaitingAreClean, RunsConsistent, Clean, IdleRun
<1>4. SucceededMeansAccepted /\ AttemptsCoverPosts
  BY ConstantsAssumption DEF Init, SucceededMeansAccepted, AttemptsCoverPosts
<1>5. QED
  BY <1>1, <1>3, <1>4 DEF DeliveryInv

\* A step of the run of worker w, which is at delivery d and stays there or ends.
LEMMA RunKeeps ==
  ASSUME DeliveryInv, NEW w \in Workers, NEW d \in Deliveries, run[w].at = d,
         UNCHANGED <<active, caller, queue>>,
         TypeOK',
         \A c \in Deliveries \ {d} :
           /\ status'[c] = status[c] /\ attempts'[c] = attempts[c] /\ posts'[c] = posts[c]
           /\ (c \in accepted' <=> c \in accepted) /\ (c \in struck' <=> c \in struck),
         d \in struck => d \in struck',
         \A v \in Workers \ {w} : run'[v] = run[v],
         status'[d] # "absent", posts'[d] <= attempts'[d], attempts'[d] <= MaxAttempts,
         status'[d] = "succeeded" => d \in accepted',
         \/ /\ run'[w] = IdleRun
            /\ d \in accepted' \ struck' => status'[d] = "succeeded"
         \/ /\ run'[w].pc # "idle" /\ run'[w].at = d
            /\ RunAt(run[w].pc, d, run[w].attempt) =>
                 RunAt(run[w].pc, d, run[w].attempt)'
  PROVE  DeliveryInv'
<1> USE DEF DeliveryInv
<1>1. /\ run[w].pc # "idle" /\ RunAt(run[w].pc, d, run[w].attempt)
      /\ \A v \in Workers \ {w} : run[v].at # d
  BY EventsApart DEF RunsConsistent
<1>2. \A c \in Deliveries \ {d} : Running(c)' <=> Running(c)
  BY EventsApart DEF Running, IdleRun
<1>3. d \notin queue /\ \A e \in Events : d \notin caller[e].left
  BY <1>1 DEF RunAt, WaitingAreClean, Clean, Running
<1>4. CallsConsistent'
  <2> SUFFICES ASSUME NEW e \in Events
               PROVE  /\ caller[e].left \subseteq OfEvent(e)
                      /\ caller[e].pc = "new" => \A c \in OfEvent(e) : status'[c] = "absent"
                      /\ caller[e].pc = "refused" =>
                           /\ caller[e].at \in (OfEvent(e) \cap struck') \ caller[e].left
                           /\ status'[caller[e].at] # "absent"
    BY DEF CallsConsistent
  <2>1. caller[e].pc = "new" => d \notin OfEvent(e)
    BY <1>1 DEF CallsConsistent, RunAt
  <2>2. caller[e].pc = "refused" => status'[caller[e].at] # "absent"
    BY EventsApart DEF CallsConsistent
  <2>3. QED
    BY <2>1, <2>2, EventsApart DEF CallsConsistent
<1>5. WaitingAreClean'
  BY <1>2, <1>3 DEF WaitingAreClean, Clean
<1>6. RunsConsistent'
  <2>1. ASSUME NEW v \in Workers \ {w}
        PROVE  /\ run'[v].pc = "idle" <=> run'[v].at = None
               /\ run'[v].pc # "idle" => RunAt(run[v].pc, run[v].at, run[v].attempt)'
    <3>1. run'[v] = run[v] /\ run[v].at # d
      BY <1>1
    <3>2. CASE run[v].pc # "idle"
      <4>1. run[v].at \in Deliveries \ {d} /\ RunAt(run[v].pc, run[v].at, run[v].attempt)
        BY <3>1, <3>2 DEF RunsConsistent, TypeOK
      <4>2. QED
        BY <3>1, <3>2, <4>1, EventsApart DEF RunAt
    <3>3. QED
      BY <3>1, <3>2 DEF RunsConsistent
  <2>2. /\ run'[w].pc = "idle" <=> run'[w].at = None
        /\ run'[w].pc # "idle" => RunAt(run[w].pc, run[w].at, run[w].attempt)'
    BY <1>1, EventsApart DEF IdleRun
  <2>3. \A u \in Workers : \A v \in Workers \ {u} : run'[v].at = run'[u].at => run'[u].at = None
    BY <1>1 DEF RunsConsistent, IdleRun
  <2>4. QED
    BY <2>1, <2>2, <2>3 DEF RunsConsistent
<1>7. SucceededMeansAccepted'
  <2>1. ASSUME NEW c \in Deliveries \ {d}
        PROVE  /\ status'[c] = "succeeded" => c \in accepted'
               /\ c \in accepted' \ struck' /\ ~Running(c)' => status'[c] = "succeeded"
    BY <1>2 DEF SucceededMeansAccepted
  <2>2. run'[w] # IdleRun => Running(d)'
    BY DEF Running
  <2>3. /\ status'[d] = "succeeded" => d \in accepted'
        /\ d \in accepted' \ struck' /\ ~Running(d)' => status'[d] = "succeeded"
    BY <2>2 DEF IdleRun
  <2>4. QED
    BY <2>1, <2>3 DEF SucceededMeansAccepted
<1>8. AttemptsCoverPosts'
  BY DEF AttemptsCoverPosts
<1>9. QED
  BY <1>4, <1>5, <1>6, <1>7, <1>8

\* What a step of a run reads of its own state.
LEMMA BusyRun ==
  ASSUME DeliveryInv, NEW w \in Workers, run[w].pc # "idle"
  PROVE  /\ run[w].at \in Deliveries /\ run[w].attempt \in Attempts
         /\ RunAt(run[w].pc, run[w].at, run[w].attempt)
         /\ posts[run[w].at] <= attempts[run[w].at] /\ attempts[run[w].at] <= MaxAttempts
         /\ posts[run[w].at] \in Nat /\ attempts[run[w].at] \in Nat
<1>1. run[w].at \in Deliveries /\ RunAt(run[w].pc, run[w].at, run[w].attempt)
  BY DEF DeliveryInv, RunsConsistent, TypeOK
<1>2. QED
  BY <1>1, ConstantsAssumption DEF DeliveryInv, TypeOK, AttemptsCoverPosts, Attempts

LEMMA RecordAttemptKeeps ==
  ASSUME DeliveryInv, NEW w \in Workers, RecordAttempt(w)
  PROVE  DeliveryInv'
<1>1. PICK d, n : d = run[w].at /\ n = run[w].attempt
  OBVIOUS
<1>2. /\ run[w].pc = "attempt"
      /\ status' = [status EXCEPT ![d] = "pending"]
      /\ attempts' = [attempts EXCEPT ![d] = n]
      /\ run' = [run EXCEPT ![w] = [pc |-> "post", at |-> d, attempt |-> n]]
      /\ UNCHANGED <<active, caller, queue, posts, accepted, mishaps, struck>>
  BY <1>1 DEF RecordAttempt, SetStatus, Works, NoMishap
<1>3. /\ d \in Deliveries /\ n \in Attempts /\ RunAt("attempt", d, n) /\ n = attempts[d] + 1
      /\ posts[d] <= attempts[d] /\ posts[d] \in Nat /\ attempts[d] \in Nat
  BY <1>1, <1>2, BusyRun DEF RunAt
<1>4. TypeOK'
  BY <1>2, <1>3 DEF DeliveryInv, TypeOK, DeliveryStatus
<1>5. /\ run'[w] = [pc |-> "post", at |-> d, attempt |-> n]
      /\ \A v \in Workers \ {w} : run'[v] = run[v]
      /\ status'[d] = "pending" /\ attempts'[d] = n
      /\ \A c \in Deliveries \ {d} : status'[c] = status[c] /\ attempts'[c] = attempts[c]
  BY <1>2, <1>3 DEF DeliveryInv, TypeOK
<1>6. posts'[d] <= attempts'[d] /\ attempts'[d] <= MaxAttempts
  BY <1>2, <1>3, <1>5, ConstantsAssumption DEF Attempts
<1>7. RunAt(run[w].pc, d, run[w].attempt)'
  BY <1>2, <1>3, <1>5 DEF RunAt
<1>8. QED
  BY <1>1, <1>2, <1>3, <1>4, <1>5, <1>6, <1>7, RunKeeps

LEMMA PostKeeps ==
  ASSUME DeliveryInv, NEW w \in Workers, Post(w)
  PROVE  DeliveryInv'
<1>1. PICK d, n : d = run[w].at /\ n = run[w].attempt
  OBVIOUS
<1>2. run[w].pc = "post" /\ UNCHANGED <<active, status, attempts, caller, queue, mishaps, struck>>
  BY DEF Post, NoMishap
<1>3. /\ d \in Deliveries /\ n \in Attempts /\ RunAt("post", d, n)
      /\ n = attempts[d] /\ posts[d] < attempts[d] /\ attempts[d] <= MaxAttempts
      /\ posts[d] \in Nat /\ attempts[d] \in Nat
  BY <1>1, <1>2, BusyRun DEF RunAt
<1>4. PICK pc \in {"accepted", "rejected"} :
        /\ run' = [run EXCEPT ![w] = [pc |-> pc, at |-> d, attempt |-> n]]
        /\ accepted' = IF pc = "accepted" THEN accepted \cup {d} ELSE accepted
        /\ posts' = [posts EXCEPT ![d] = @ + 1] \/ posts' = posts
  BY <1>1 DEF Post, Called, Works
<1>5. TypeOK'
  BY <1>2, <1>3, <1>4 DEF DeliveryInv, TypeOK
<1>6. /\ run'[w] = [pc |-> pc, at |-> d, attempt |-> n]
      /\ \A v \in Workers \ {w} : run'[v] = run[v]
      /\ posts'[d] \in {posts[d], posts[d] + 1}
      /\ \A c \in Deliveries \ {d} : posts'[c] = posts[c]
  BY <1>3, <1>4 DEF DeliveryInv, TypeOK
<1>7. posts'[d] <= attempts'[d] /\ attempts'[d] <= MaxAttempts
  BY <1>2, <1>3, <1>6
<1>8. RunAt(run[w].pc, d, run[w].attempt)'
  BY <1>2, <1>3, <1>4, <1>6 DEF RunAt
<1>9. status'[d] # "absent" /\ (status'[d] = "succeeded" => d \in accepted')
  BY <1>2, <1>3, <1>4 DEF DeliveryInv, RunAt, SucceededMeansAccepted
<1>10. \A c \in Deliveries \ {d} : c \in accepted' <=> c \in accepted
  BY <1>4
<1>11. QED
  BY <1>1, <1>2, <1>3, <1>5, <1>6, <1>7, <1>8, <1>9, <1>10, RunKeeps

LEMMA RecordSuccessKeeps ==
  ASSUME DeliveryInv, NEW w \in Workers, RecordSuccess(w)
  PROVE  DeliveryInv'
<1>1. PICK d : d = run[w].at
  OBVIOUS
<1>2. /\ run[w].pc = "accepted"
      /\ status' = [status EXCEPT ![d] = "succeeded"]
      /\ run' = [run EXCEPT ![w] = IdleRun]
      /\ UNCHANGED <<active, attempts, caller, queue, posts, accepted, mishaps, struck>>
  BY <1>1 DEF RecordSuccess, SetStatus, SuccessStatus, NoMishap
<1>3. /\ d \in Deliveries /\ d \in accepted
      /\ posts[d] <= attempts[d] /\ attempts[d] <= MaxAttempts
  BY <1>1, <1>2, BusyRun DEF RunAt
<1>4. IdleRun \in [pc : {"idle", "attempt", "post", "accepted", "rejected"},
                   at : Deliveries \cup {None}, attempt : Attempts]
  BY ConstantsAssumption DEF IdleRun, Attempts
<1>5. TypeOK'
  BY <1>2, <1>3, <1>4 DEF DeliveryInv, TypeOK, DeliveryStatus
<1>6. /\ run'[w] = IdleRun /\ \A v \in Workers \ {w} : run'[v] = run[v]
      /\ status'[d] = "succeeded" /\ \A c \in Deliveries \ {d} : status'[c] = status[c]
  BY <1>2, <1>3 DEF DeliveryInv, TypeOK
<1>7. QED
  BY <1>1, <1>2, <1>3, <1>5, <1>6, RunKeeps

LEMMA CaughtErrorKeeps ==
  ASSUME DeliveryInv, NEW w \in Workers, CaughtError(w)
  PROVE  DeliveryInv'
<1>1. PICK d, n : d = run[w].at /\ n = run[w].attempt
  OBVIOUS
<1>2. /\ run[w].pc = "accepted" /\ mishaps < MaxMishaps
      /\ mishaps' = mishaps + 1 /\ struck' = struck \cup {d}
      /\ run' = [run EXCEPT ![w] = [pc |-> "rejected", at |-> d, attempt |-> n]]
      /\ UNCHANGED <<active, status, attempts, caller, queue, posts, accepted>>
  BY <1>1 DEF CaughtError, Mishap, Works
<1>3. /\ d \in Deliveries /\ n \in Attempts /\ RunAt("accepted", d, n)
      /\ posts[d] <= attempts[d] /\ attempts[d] <= MaxAttempts
  BY <1>1, <1>2, BusyRun
<1>4. TypeOK'
  BY <1>2, <1>3, ConstantsAssumption DEF DeliveryInv, TypeOK
<1>5. /\ run'[w] = [pc |-> "rejected", at |-> d, attempt |-> n]
      /\ \A v \in Workers \ {w} : run'[v] = run[v]
  BY <1>2 DEF DeliveryInv, TypeOK
<1>6. RunAt(run[w].pc, d, run[w].attempt)'
  BY <1>2, <1>3, <1>5 DEF RunAt
<1>7. status'[d] # "absent" /\ (status'[d] = "succeeded" => d \in accepted')
  BY <1>2, <1>3 DEF RunAt
<1>8. \A c \in Deliveries \ {d} : c \in struck' <=> c \in struck
  BY <1>2
<1>9. QED
  BY <1>1, <1>2, <1>3, <1>4, <1>5, <1>6, <1>7, <1>8, RunKeeps

LEMMA RecordFailureKeeps ==
  ASSUME DeliveryInv, NEW w \in Workers, RecordFailedAttempt(w)
  PROVE  DeliveryInv'
<1>1. PICK d, n : d = run[w].at /\ n = run[w].attempt
  OBVIOUS
<1>2. /\ run[w].pc = "rejected"
      /\ UNCHANGED <<active, attempts, caller, queue, posts, accepted, mishaps, struck>>
  BY DEF RecordFailedAttempt, NoMishap
<1>3. /\ d \in Deliveries /\ n \in Attempts /\ RunAt("rejected", d, n) /\ n = attempts[d]
      /\ posts[d] <= attempts[d] /\ attempts[d] <= MaxAttempts /\ attempts[d] \in Nat
      /\ (d \in accepted => d \in struck)
  BY <1>1, <1>2, BusyRun DEF RunAt
<1>4. CASE status' = [status EXCEPT ![d] = "failed"] /\ run' = [run EXCEPT ![w] = IdleRun]
  <2>1. IdleRun \in [pc : {"idle", "attempt", "post", "accepted", "rejected"},
                     at : Deliveries \cup {None}, attempt : Attempts]
    BY ConstantsAssumption DEF IdleRun, Attempts
  <2>2. TypeOK'
    BY <1>2, <1>3, <1>4, <2>1 DEF DeliveryInv, TypeOK, DeliveryStatus
  <2>3. /\ run'[w] = IdleRun /\ \A v \in Workers \ {w} : run'[v] = run[v]
        /\ status'[d] = "failed" /\ \A c \in Deliveries \ {d} : status'[c] = status[c]
    BY <1>3, <1>4 DEF DeliveryInv, TypeOK
  <2>4. QED
    BY <1>1, <1>2, <1>3, <2>2, <2>3, RunKeeps
<1>5. CASE /\ n < MaxAttempts /\ status' = [status EXCEPT ![d] = "pending"]
           /\ run' = [run EXCEPT ![w] = [pc |-> "attempt", at |-> d, attempt |-> n + 1]]
  <2>1. n + 1 \in Attempts
    BY <1>3, <1>5, ConstantsAssumption DEF Attempts
  <2>2. TypeOK'
    BY <1>2, <1>3, <1>5, <2>1 DEF DeliveryInv, TypeOK, DeliveryStatus
  <2>3. /\ run'[w] = [pc |-> "attempt", at |-> d, attempt |-> n + 1]
        /\ \A v \in Workers \ {w} : run'[v] = run[v]
        /\ status'[d] = "pending" /\ \A c \in Deliveries \ {d} : status'[c] = status[c]
    BY <1>3, <1>5 DEF DeliveryInv, TypeOK
  <2>4. RunAt(run[w].pc, d, run[w].attempt)'
    BY <1>2, <1>3, <2>3 DEF RunAt
  <2>5. QED
    BY <1>1, <1>2, <1>3, <2>2, <2>3, <2>4, RunKeeps
<1>6. n \in Nat /\ MaxAttempts \in Nat
  BY <1>3, ConstantsAssumption
<1>7. QED
  BY <1>1, <1>4, <1>5, <1>6 DEF RecordFailedAttempt, Exhausted, ExhaustedStatus, SetStatus, Works

LEMMA CrashWorkerKeeps ==
  ASSUME DeliveryInv, NEW w \in Workers, CrashWorker(w)
  PROVE  DeliveryInv'
<1>1. PICK d : d = run[w].at
  OBVIOUS
<1>2. /\ run[w].pc # "idle" /\ mishaps < MaxMishaps
      /\ mishaps' = mishaps + 1 /\ struck' = struck \cup {d}
      /\ \/ run[w].pc = "post" /\ posts' = [posts EXCEPT ![d] = @ + 1]
         \/ posts' = posts
      /\ run' = [run EXCEPT ![w] = IdleRun]
      /\ UNCHANGED <<active, status, attempts, caller, queue, accepted>>
  BY <1>1 DEF CrashWorker, Mishap, Called
<1>3. /\ d \in Deliveries /\ RunAt(run[w].pc, d, run[w].attempt)
      /\ posts[d] <= attempts[d] /\ attempts[d] <= MaxAttempts
      /\ posts[d] \in Nat /\ attempts[d] \in Nat
  BY <1>1, <1>2, BusyRun
<1>4. IdleRun \in [pc : {"idle", "attempt", "post", "accepted", "rejected"},
                   at : Deliveries \cup {None}, attempt : Attempts]
  BY ConstantsAssumption DEF IdleRun, Attempts
<1>5. TypeOK'
  <2>1. mishaps' \in 0 .. MaxMishaps
    BY <1>2, ConstantsAssumption DEF DeliveryInv, TypeOK
  <2>2. QED
    BY <1>2, <1>3, <1>4, <2>1 DEF DeliveryInv, TypeOK
<1>6. /\ run'[w] = IdleRun /\ \A v \in Workers \ {w} : run'[v] = run[v]
      /\ \A c \in Deliveries \ {d} : posts'[c] = posts[c] /\ (c \in struck' <=> c \in struck)
      /\ d \in struck'
  BY <1>2, <1>3 DEF DeliveryInv, TypeOK
<1>7. posts'[d] <= attempts'[d] /\ attempts'[d] <= MaxAttempts
  <2>1. run[w].pc = "post" => posts[d] < attempts[d]
    BY <1>3 DEF RunAt
  <2>2. posts' = [posts EXCEPT ![d] = @ + 1] => posts'[d] = posts[d] + 1
    BY <1>3 DEF DeliveryInv, TypeOK
  <2>3. QED
    BY <1>2, <1>3, <2>1, <2>2
<1>8. status'[d] # "absent" /\ (status'[d] = "succeeded" => d \in accepted')
  BY <1>2, <1>3 DEF DeliveryInv, RunAt, SucceededMeansAccepted
<1>9. QED
  BY <1>1, <1>2, <1>3, <1>5, <1>6, <1>7, <1>8, RunKeeps

\* A step that no run and no receiver takes part in.
LEMMA CallKeeps ==
  ASSUME DeliveryInv, UNCHANGED <<attempts, run, posts, accepted>>,
         TypeOK', CallsConsistent', WaitingAreClean', struck \subseteq struck',
         \A d \in Deliveries :
           \/ status'[d] = status[d]
           \/ status[d] = "absent" /\ status'[d] = "pending"
           \/ /\ status[d] # "absent" /\ status'[d] = "failed"
              /\ d \in accepted => d \in struck
  PROVE  DeliveryInv'
<1> USE DEF DeliveryInv
<1>1. \A d \in Deliveries : Running(d)' <=> Running(d)
  BY DEF Running
<1>2. \A d \in Deliveries : Running(d) => status'[d] # "absent" /\ d \notin queue'
  BY <1>1 DEF WaitingAreClean, Clean
<1>3. RunsConsistent'
  <2> SUFFICES ASSUME NEW w \in Workers, run[w].pc # "idle"
               PROVE  RunAt(run[w].pc, run[w].at, run[w].attempt)'
    BY DEF RunsConsistent
  <2>1. run[w].at \in Deliveries /\ RunAt(run[w].pc, run[w].at, run[w].attempt)
    BY BusyRun
  <2>2. Running(run[w].at)
    BY DEF Running
  <2>3. QED
    BY <1>2, <2>1, <2>2 DEF RunAt
<1>4. SucceededMeansAccepted'
  <2> SUFFICES ASSUME NEW d \in Deliveries
               PROVE  /\ status'[d] = "succeeded" => d \in accepted
                      /\ d \in accepted \ struck' /\ ~Running(d) => status'[d] = "succeeded"
    BY <1>1 DEF SucceededMeansAccepted
  <2>1. status[d] = "absent" => d \notin accepted
    BY DEF WaitingAreClean, Clean
  <2>2. QED
    BY <2>1 DEF SucceededMeansAccepted
<1>5. AttemptsCoverPosts'
  BY DEF AttemptsCoverPosts
<1>6. QED
  BY <1>3, <1>4, <1>5

LEMMA QueueWebhooksKeeps ==
  ASSUME DeliveryInv, NEW e \in Events, QueueTerminalJobWebhooks(e)
  PROVE  DeliveryInv'
<1> USE DEF DeliveryInv
<1>1. PICK listening \in SUBSET active :
        /\ status' = [d \in Deliveries |-> IF d \in {e} \X listening THEN "pending" ELSE status[d]]
        /\ caller' = [caller EXCEPT ![e] = [pc |-> "enqueue", left |-> {e} \X listening, at |-> None]]
  BY DEF QueueTerminalJobWebhooks, Calls
<1> DEFINE ds == {e} \X listening
<1>2. ds \subseteq OfEvent(e) /\ ds \subseteq Deliveries
  BY EventsApart DEF OfEvent, TypeOK
<1>3. /\ UNCHANGED <<active, attempts, queue, run, posts, accepted, mishaps, struck>>
      /\ caller[e].pc = "new"
      /\ caller'[e].pc = "enqueue" /\ caller'[e].left = ds
      /\ \A f \in Events \ {e} : caller'[f] = caller[f]
      /\ \A d \in Deliveries : status'[d] = IF d \in ds THEN "pending" ELSE status[d]
  BY <1>1 DEF QueueTerminalJobWebhooks, NoMishap, TypeOK
<1>4. \A d \in ds : status[d] = "absent" /\ Clean(d) /\ d \notin queue
  BY <1>2, <1>3 DEF CallsConsistent, WaitingAreClean
<1> HIDE DEF ds
<1>5. TypeOK'
  <2>1. caller' \in [Events -> [pc : {"new", "enqueue", "refused", "done"},
                                left : SUBSET Deliveries, at : Deliveries \cup {None}]]
    BY <1>1, <1>2 DEF TypeOK, ds
  <2>2. status' \in [Deliveries -> {"absent"} \cup DeliveryStatus]
    BY <1>1 DEF TypeOK, DeliveryStatus
  <2>3. QED
    BY <1>3, <2>1, <2>2 DEF TypeOK
<1>6. CallsConsistent'
  <2>1. \A f \in Events \ {e} : \A d \in OfEvent(f) : status'[d] = status[d]
    BY <1>2, <1>3, EventsApart
  <2>2. QED
    BY <1>2, <1>3, <2>1 DEF CallsConsistent
<1>7. WaitingAreClean'
  <2>1. \A d \in Deliveries : Clean(d)' <=> Clean(d)
    BY <1>3 DEF Clean, Running
  <2>2. QED
    BY <1>3, <1>4, <2>1 DEF WaitingAreClean
<1>8. QED
  BY <1>3, <1>4, <1>5, <1>6, <1>7, CallKeeps

\* The call of event e goes on with the deliveries left, d among those it had.
LEMMA CallerMoves ==
  ASSUME DeliveryInv, NEW e \in Events, NEW pc \in {"enqueue", "refused", "done"},
         NEW left \in SUBSET caller[e].left, NEW at,
         Calls(e, pc, left, at), at \in Deliveries \cup {None},
         UNCHANGED <<active, attempts, run, posts, accepted>>,
         queue' \subseteq queue \cup (caller[e].left \ left),
         struck \subseteq struck', struck' \subseteq Deliveries, mishaps' \in 0 .. MaxMishaps,
         pc = "refused" => at \in (OfEvent(e) \cap struck') \ left /\ status[at] # "absent",
         status' \in [Deliveries -> {"absent"} \cup DeliveryStatus],
         \A d \in Deliveries :
           \/ status'[d] = status[d]
           \/ d \notin left /\ status[d] # "absent" /\ status'[d] = "failed" /\ d \in struck
  PROVE  DeliveryInv'
<1> USE DEF DeliveryInv
<1>1. /\ caller' = [caller EXCEPT ![e] = [pc |-> pc, left |-> left, at |-> at]]
      /\ caller'[e] = [pc |-> pc, left |-> left, at |-> at]
      /\ \A f \in Events \ {e} : caller'[f] = caller[f]
  BY DEF Calls, TypeOK
<1>2. caller[e].left \subseteq OfEvent(e) /\ caller[e].left \subseteq Deliveries
  BY EventsApart DEF CallsConsistent
<1>3. TypeOK'
  <2>1. caller' \in [Events -> [pc : {"new", "enqueue", "refused", "done"},
                                left : SUBSET Deliveries, at : Deliveries \cup {None}]]
    BY <1>1, <1>2 DEF TypeOK
  <2>2. queue' \subseteq Deliveries
    BY <1>2 DEF TypeOK
  <2>3. QED
    BY <2>1, <2>2 DEF TypeOK
<1>4. CallsConsistent'
  <2> SUFFICES ASSUME NEW f \in Events
               PROVE  /\ caller'[f].left \subseteq OfEvent(f)
                      /\ caller'[f].pc = "new" => \A d \in OfEvent(f) : status'[d] = "absent"
                      /\ caller'[f].pc = "refused" =>
                           /\ caller'[f].at \in (OfEvent(f) \cap struck') \ caller'[f].left
                           /\ status'[caller'[f].at] # "absent"
    BY DEF CallsConsistent
  <2>1. CASE f = e
    BY <1>1, <1>2, <2>1
  <2>2. CASE f # e
    BY <1>1, <2>2, EventsApart DEF CallsConsistent
  <2>3. QED
    BY <2>1, <2>2
<1>5. WaitingAreClean'
  <2>1. \A d \in Deliveries : Clean(d)' <=> Clean(d)
    BY DEF Clean, Running
  <2>2. \A d \in Deliveries : status'[d] = "absent" <=> status[d] = "absent"
    OBVIOUS
  <2>3. \A d \in caller[e].left : Clean(d) /\ d \notin queue /\ status[d] # "absent"
    BY <1>2 DEF WaitingAreClean
  <2>4. \A d \in queue' : Clean(d) /\ status[d] # "absent"
    BY <1>2, <2>3 DEF WaitingAreClean, TypeOK
  <2>5. ASSUME NEW d \in Deliveries, NEW f \in Events, d \in caller'[f].left
        PROVE  Clean(d) /\ d \notin queue' /\ status[d] # "absent"
    <3>1. d \in caller[f].left
      BY <1>1, <2>5
    <3>2. Clean(d) /\ d \notin queue /\ status[d] # "absent"
      BY <3>1 DEF WaitingAreClean
    <3>3. CASE f = e
      BY <1>1, <2>5, <3>2, <3>3
    <3>4. CASE f # e
      BY <1>2, <3>1, <3>2, <3>4, EventsApart DEF CallsConsistent
    <3>5. QED
      BY <3>3, <3>4
  <2>6. QED
    BY <2>1, <2>2, <2>4, <2>5 DEF WaitingAreClean
<1>6. QED
  BY <1>3, <1>4, <1>5, CallKeeps

\* A mishap of the call of event e.
LEMMA MishapCounted ==
  ASSUME TypeOK, NEW ds \in SUBSET Deliveries, Mishap(ds)
  PROVE  /\ mishaps' \in 0 .. MaxMishaps /\ struck' = struck \cup ds
         /\ struck \subseteq struck' /\ struck' \subseteq Deliveries
<1>1. mishaps' \in 0 .. MaxMishaps
  BY ConstantsAssumption DEF Mishap, TypeOK
<1>2. QED
  BY <1>1 DEF Mishap, TypeOK

\* What a call has left, or is at, is of its event.
LEMMA CallAt ==
  ASSUME DeliveryInv, NEW e \in Events
  PROVE  /\ caller[e].left \subseteq OfEvent(e) /\ caller[e].left \subseteq Deliveries
         /\ \A d \in caller[e].left : status[d] # "absent"
BY EventsApart DEF DeliveryInv, CallsConsistent, WaitingAreClean

LEMMA CallStepsKeep ==
  ASSUME DeliveryInv, NEW e \in Events,
         \/ EventLost(e) \/ EnqueueDelivery(e) \/ EnqueueFails(e)
         \/ FailureUnrecorded(e) \/ CrashCaller(e)
  PROVE  DeliveryInv'
<1>1. TypeOK /\ status \in [Deliveries -> {"absent"} \cup DeliveryStatus]
  BY DEF DeliveryInv, TypeOK
<1>2. CASE EventLost(e)
  <2>1. mishaps' \in 0 .. MaxMishaps /\ struck' = struck /\ struck' \subseteq Deliveries
    BY <1>1, <1>2, MishapCounted DEF EventLost
  <2>2. Calls(e, "done", {}, None)
        /\ UNCHANGED <<active, status, attempts, queue, run, posts, accepted>>
    BY <1>2 DEF EventLost
  <2>3. {} \in SUBSET caller[e].left
    OBVIOUS
  <2>4. QED
    BY <1>1, <2>1, <2>2, <2>3, CallerMoves
<1>3. CASE EnqueueDelivery(e)
  <2>1. PICK d \in caller[e].left :
          /\ queue' = queue \cup {d}
          /\ Calls(e, "enqueue", caller[e].left \ {d}, None)
    BY <1>3 DEF EnqueueDelivery
  <2>2. UNCHANGED <<active, status, attempts, run, posts, accepted, mishaps, struck>>
    BY <1>3 DEF EnqueueDelivery, NoMishap
  <2>3. mishaps' \in 0 .. MaxMishaps /\ struck' \subseteq Deliveries
    BY <1>1, <2>2 DEF TypeOK
  <2>4. queue' \subseteq queue \cup (caller[e].left \ (caller[e].left \ {d}))
    BY <2>1
  <2>5. caller[e].left \ {d} \in SUBSET caller[e].left
    OBVIOUS
  <2>6. QED
    BY <1>1, <2>1, <2>2, <2>3, <2>4, <2>5, CallerMoves
<1>4. CASE EnqueueFails(e)
  <2>1. PICK d \in caller[e].left :
          /\ Mishap({d}) /\ queue' \in {queue, queue \cup {d}}
          /\ Calls(e, "refused", caller[e].left \ {d}, d)
    BY <1>4 DEF EnqueueFails
  <2>2. UNCHANGED <<active, status, attempts, run, posts, accepted>>
    BY <1>4 DEF EnqueueFails
  <2>3. d \in OfEvent(e) /\ d \in Deliveries /\ status[d] # "absent"
    BY CallAt
  <2>4. /\ mishaps' \in 0 .. MaxMishaps /\ struck' = struck \cup {d}
        /\ struck \subseteq struck' /\ struck' \subseteq Deliveries
    BY <1>1, <2>1, <2>3, MishapCounted
  <2>5. queue' \subseteq queue \cup (caller[e].left \ (caller[e].left \ {d}))
    BY <2>1
  <2>6. d \in (OfEvent(e) \cap struck') \ (caller[e].left \ {d})
    BY <2>3, <2>4
  <2>7. caller[e].left \ {d} \in SUBSET caller[e].left
    OBVIOUS
  <2>8. QED
    BY <1>1, <2>1, <2>2, <2>3, <2>4, <2>5, <2>6, <2>7, CallerMoves
<1>5. CASE CrashCaller(e)
  <2>1. /\ Mishap(caller[e].left) /\ Calls(e, "done", {}, None)
        /\ UNCHANGED <<active, status, attempts, queue, run, posts, accepted>>
    BY <1>5 DEF CrashCaller
  <2>2. /\ mishaps' \in 0 .. MaxMishaps
        /\ struck \subseteq struck' /\ struck' \subseteq Deliveries
    BY <1>1, <2>1, CallAt, MishapCounted
  <2>3. {} \in SUBSET caller[e].left
    OBVIOUS
  <2>4. QED
    BY <1>1, <2>1, <2>2, <2>3, CallerMoves
<1>6. CASE FailureUnrecorded(e)
  <2>1. /\ Mishap({caller[e].at}) /\ Calls(e, "enqueue", caller[e].left, None)
        /\ UNCHANGED <<active, status, attempts, queue, run, posts, accepted>>
        /\ caller[e].pc = "refused"
    BY <1>6 DEF FailureUnrecorded
  <2>2. caller[e].at \in Deliveries
    BY <2>1, EventsApart DEF DeliveryInv, CallsConsistent
  <2>3. /\ mishaps' \in 0 .. MaxMishaps
        /\ struck \subseteq struck' /\ struck' \subseteq Deliveries
    BY <1>1, <2>1, <2>2, MishapCounted
  <2>4. caller[e].left \in SUBSET caller[e].left
    OBVIOUS
  <2>5. QED
    BY <1>1, <2>1, <2>3, <2>4, CallerMoves
<1>7. QED
  BY <1>2, <1>3, <1>4, <1>5, <1>6

LEMMA RecordEnqueueFailureKeeps ==
  ASSUME DeliveryInv, NEW e \in Events, RecordEnqueueFailure(e)
  PROVE  DeliveryInv'
<1>1. PICK d : d = caller[e].at
  OBVIOUS
<1>2. /\ caller[e].pc = "refused" /\ Calls(e, "enqueue", caller[e].left, None)
      /\ status' = [status EXCEPT ![d] = "failed"]
      /\ UNCHANGED <<active, attempts, queue, run, posts, accepted, mishaps, struck>>
  BY <1>1 DEF RecordEnqueueFailure, NoMishap
<1>3. /\ d \in Deliveries /\ d \in struck \ caller[e].left /\ status[d] # "absent"
  BY <1>1, <1>2, EventsApart DEF DeliveryInv, CallsConsistent
<1>4. /\ status' \in [Deliveries -> {"absent"} \cup DeliveryStatus]
      /\ status'[d] = "failed" /\ \A c \in Deliveries \ {d} : status'[c] = status[c]
  BY <1>2, <1>3 DEF DeliveryInv, TypeOK, DeliveryStatus
<1>5. mishaps' \in 0 .. MaxMishaps /\ struck' \subseteq Deliveries
  BY <1>2 DEF DeliveryInv, TypeOK
<1>6. caller[e].left \in SUBSET caller[e].left
  OBVIOUS
<1>7. QED
  BY <1>2, <1>3, <1>4, <1>5, <1>6, CallerMoves

LEMMA StartDeliveryKeeps ==
  ASSUME DeliveryInv, NEW w \in Workers, StartDelivery(w)
  PROVE  DeliveryInv'
<1> USE DEF DeliveryInv
<1>1. PICK d \in queue :
        /\ queue' = queue \ {d}
        /\ \/ status' = [status EXCEPT ![d] = "failed"] /\ UNCHANGED run
           \/ Works(w, "attempt", d, attempts[d] + 1) /\ UNCHANGED status
  BY DEF StartDelivery
<1>2. /\ run[w].pc = "idle" /\ run[w].at = None
      /\ UNCHANGED <<active, attempts, caller, posts, accepted, mishaps, struck>>
  BY DEF StartDelivery, NoMishap, RunsConsistent
<1>3. /\ d \in Deliveries /\ Clean(d) /\ status[d] # "absent" /\ d # None
      /\ \A e \in Events : d \notin caller[e].left
  BY EventsApart DEF WaitingAreClean, TypeOK
<1>4. CASE status' = [status EXCEPT ![d] = "failed"] /\ UNCHANGED run
  <2>1. status'[d] = "failed" /\ \A c \in Deliveries \ {d} : status'[c] = status[c]
    BY <1>3, <1>4 DEF TypeOK
  <2>2. TypeOK'
    BY <1>1, <1>2, <1>3, <1>4 DEF TypeOK, DeliveryStatus
  <2>3. \A c \in Deliveries : Clean(c)' <=> Clean(c)
    BY <1>2, <1>4 DEF Clean, Running
  <2>4. \A c \in Deliveries : status'[c] = "absent" <=> status[c] = "absent"
    BY <1>3, <2>1
  <2>5. CallsConsistent'
    BY <1>2, <2>4, EventsApart DEF CallsConsistent
  <2>6. WaitingAreClean'
    BY <1>1, <1>2, <2>3, <2>4 DEF WaitingAreClean
  <2>7. d \notin accepted
    BY <1>3 DEF Clean
  <2>8. QED
    BY <1>2, <1>3, <1>4, <2>1, <2>2, <2>5, <2>6, <2>7, CallKeeps
<1>5. CASE Works(w, "attempt", d, attempts[d] + 1) /\ UNCHANGED status
  <2>1. attempts[d] = 0 /\ posts[d] = 0 /\ d \notin accepted /\ ~Running(d)
    BY <1>3 DEF Clean
  <2>2. 1 \in Attempts
    BY ConstantsAssumption DEF Attempts
  <2>3. /\ run' = [run EXCEPT ![w] = [pc |-> "attempt", at |-> d, attempt |-> 1]]
        /\ run'[w] = [pc |-> "attempt", at |-> d, attempt |-> 1]
        /\ \A v \in Workers \ {w} : run'[v] = run[v]
    BY <1>5, <2>1 DEF Works, TypeOK
  <2>4. TypeOK'
    BY <1>1, <1>2, <1>3, <1>5, <2>2, <2>3 DEF TypeOK
  <2>5. \A c \in Deliveries \ {d} : Running(c)' <=> Running(c)
    BY <1>2, <2>3, EventsApart DEF Running
  <2>6. Running(d)'
    BY <2>3 DEF Running
  <2>7. CallsConsistent'
    BY <1>2, <1>5 DEF CallsConsistent
  <2>8. WaitingAreClean'
    <3>1. \A c \in Deliveries \ {d} : Clean(c)' <=> Clean(c)
      BY <1>2, <2>5 DEF Clean
    <3>2. QED
      BY <1>1, <1>2, <1>3, <1>5, <3>1 DEF WaitingAreClean
  <2>9. RunsConsistent'
    <3>1. \A v \in Workers : run[v].at # d
      BY <2>1 DEF Running
    <3>2. ASSUME NEW v \in Workers, v # w, run[v].pc # "idle"
          PROVE  RunAt(run[v].pc, run[v].at, run[v].attempt)'
      <4>1. run[v].at \in Deliveries /\ RunAt(run[v].pc, run[v].at, run[v].attempt)
        BY <3>2, BusyRun
      <4>2. QED
        BY <1>1, <1>2, <1>5, <2>3, <3>2, <4>1 DEF RunAt
    <3>3. RunAt(run[w].pc, run[w].at, run[w].attempt)'
      BY <1>1, <1>2, <1>3, <1>5, <2>1, <2>3 DEF RunAt
    <3>4. QED
      BY <1>3, <2>3, <3>1, <3>2, <3>3 DEF RunsConsistent
  <2>10. SucceededMeansAccepted' /\ AttemptsCoverPosts'
    BY <1>2, <1>5, <2>1, <2>5 DEF SucceededMeansAccepted, AttemptsCoverPosts
  <2>11. QED
    BY <2>4, <2>7, <2>8, <2>9, <2>10
<1>6. QED
  BY <1>1, <1>4, <1>5

LEMMA DisableEndpointKeeps ==
  ASSUME DeliveryInv, NEW p \in Endpoints, DisableEndpoint(p)
  PROVE  DeliveryInv'
<1> USE DEF DeliveryInv
<1>1. UNCHANGED <<status, attempts, caller, queue, run, posts, accepted, mishaps, struck>>
      /\ active' \subseteq Endpoints
  BY DEF DisableEndpoint, NoMishap, TypeOK
<1>2. TypeOK'
  BY <1>1 DEF TypeOK
<1>3. CallsConsistent'
  BY <1>1 DEF CallsConsistent
<1>4. WaitingAreClean'
  BY <1>1 DEF WaitingAreClean, Clean, Running
<1>5. QED
  BY <1>1, <1>2, <1>3, <1>4, CallKeeps

LEMMA StepKeeps == DeliveryInv /\ [Next]_vars => DeliveryInv'
<1> SUFFICES ASSUME DeliveryInv, [Next]_vars PROVE DeliveryInv'
  OBVIOUS
<1>1. CASE \E e \in Events :
             CallStep(e) \/ EventLost(e) \/ EnqueueFails(e) \/ FailureUnrecorded(e) \/ CrashCaller(e)
  BY <1>1, QueueWebhooksKeeps, CallStepsKeep, RecordEnqueueFailureKeeps DEF CallStep
<1>2. CASE \E w \in Workers : RunStep(w) \/ CaughtError(w) \/ CrashWorker(w)
  BY <1>2, StartDeliveryKeeps, RecordAttemptKeeps, PostKeeps, RecordSuccessKeeps,
     RecordFailureKeeps, CaughtErrorKeeps, CrashWorkerKeeps DEF RunStep
<1>3. CASE \E p \in Endpoints : DisableEndpoint(p)
  BY <1>3, DisableEndpointKeeps
<1>4. CASE UNCHANGED vars
  <2> USE <1>4 DEF DeliveryInv, vars
  <2>1. TypeOK' /\ CallsConsistent'
    BY DEF TypeOK, CallsConsistent
  <2>2. WaitingAreClean'
    BY DEF WaitingAreClean, Clean, Running
  <2>3. QED
    BY <2>1, <2>2, CallKeeps
<1>5. QED
  BY <1>1, <1>2, <1>3, <1>4 DEF Next

-----------------------------------------------------------------------------
\* Queueing calls, runs, crashes and lost replies in any order keep every
\* delivery in one place and its row in step with what its receiver has seen.
THEOREM DeliveriesConsistent == Spec => []DeliveryInv
BY InitInv, StepKeeps, PTL DEF Spec

\* The rows, the calls and the runs keep their types; no run goes past the
\* maximum of attempts.
THEOREM DeliveriesTyped == Spec => []TypeOK
<1>1. DeliveryInv => TypeOK
  BY DEF DeliveryInv
<1>2. QED
  BY <1>1, DeliveriesConsistent, PTL

\* A delivery that reads "succeeded" was accepted by its receiver, and one that
\* was accepted reads so once no run is at it, unless a mishap hit it.
THEOREM StatusTellsTheTruth == Spec => []SucceededMeansAccepted
<1>1. DeliveryInv => SucceededMeansAccepted
  BY DEF DeliveryInv
<1>2. QED
  BY <1>1, DeliveriesConsistent, PTL

\* The receiver is never called more often than the attempts on record, and
\* these never exceed the maximum.
THEOREM NoUnrecordedPost == Spec => []AttemptsCoverPosts
<1>1. DeliveryInv => AttemptsCoverPosts
  BY DEF DeliveryInv
<1>2. QED
  BY <1>1, DeliveriesConsistent, PTL

-----------------------------------------------------------------------------
\* A step starts a run only for an endpoint that is active, and calls a
\* receiver only for a delivery that a run is at.
LEMMA RunStepShape ==
  ASSUME DeliveryInv, NEW w \in Workers, RunStep(w) \/ CaughtError(w) \/ CrashWorker(w)
  PROVE  /\ active' = active
         /\ \A v \in Workers :
              \/ run'[v].at \in {run[v].at, None}
              \/ run'[v].at \in Deliveries /\ EndpointOf(run'[v].at) \in active
         /\ \A d \in Deliveries : posts'[d] = posts[d] \/ Running(d)
<1> USE DEF DeliveryInv, TypeOK
<1>1. CASE StartDelivery(w)
  BY <1>1 DEF StartDelivery, Works, NoMishap
<1>2. CASE RecordAttempt(w)
  BY <1>2 DEF RecordAttempt, Works, NoMishap
<1>3. CASE Post(w)
  <2>1. active' = active
    BY <1>3 DEF Post
  <2>2. \A v \in Workers : run'[v].at = run[v].at
    BY <1>3 DEF Post, Works
  <2>3. \A d \in Deliveries \ {run[w].at} : posts'[d] = posts[d]
    BY <1>3 DEF Post, Called
  <2>4. QED
    BY <2>1, <2>2, <2>3 DEF Running
<1>4. CASE RecordSuccess(w)
  BY <1>4 DEF RecordSuccess, IdleRun
<1>5. CASE RecordFailedAttempt(w)
  BY <1>5 DEF RecordFailedAttempt, Works, IdleRun
<1>6. CASE CaughtError(w)
  BY <1>6 DEF CaughtError, Works
<1>7. CASE CrashWorker(w)
  <2>1. active' = active
    BY <1>7 DEF CrashWorker
  <2>2. \A v \in Workers : run'[v].at \in {run[v].at, None}
    BY <1>7 DEF CrashWorker, IdleRun
  <2>3. \A d \in Deliveries \ {run[w].at} : posts'[d] = posts[d]
    BY <1>7 DEF CrashWorker, Called
  <2>4. QED
    BY <2>1, <2>2, <2>3 DEF Running
<1>8. QED
  BY <1>1, <1>2, <1>3, <1>4, <1>5, <1>6, <1>7 DEF RunStep

LEMMA StepShape ==
  ASSUME DeliveryInv, [Next]_vars
  PROVE  /\ active' \subseteq active
         /\ \A v \in Workers :
              \/ run'[v].at \in {run[v].at, None}
              \/ run'[v].at \in Deliveries /\ EndpointOf(run'[v].at) \in active
         /\ \A d \in Deliveries : posts'[d] = posts[d] \/ Running(d)
<1>1. CASE \E e \in Events :
             CallStep(e) \/ EventLost(e) \/ EnqueueFails(e) \/ FailureUnrecorded(e) \/ CrashCaller(e)
  <2>1. active' = active /\ run' = run /\ posts' = posts
    BY <1>1 DEF CallStep, QueueTerminalJobWebhooks, EnqueueDelivery, RecordEnqueueFailure,
                EventLost, EnqueueFails, FailureUnrecorded, CrashCaller
  <2>2. QED
    BY <2>1
<1>2. CASE \E w \in Workers : RunStep(w) \/ CaughtError(w) \/ CrashWorker(w)
  BY <1>2, RunStepShape
<1>3. CASE \E p \in Endpoints : DisableEndpoint(p)
  BY <1>3 DEF DisableEndpoint
<1>4. CASE UNCHANGED vars
  BY <1>4 DEF vars
<1>5. QED
  BY <1>1, <1>2, <1>3, <1>4 DEF Next

LEMMA QuietKept ==
  ASSUME DeliveryInv, [Next]_vars, NEW p \in Endpoints, Quiet(p)
  PROVE  Quiet(p)' /\ \A d \in Deliveries : EndpointOf(d) = p => posts'[d] = posts[d]
<1>1. p \notin active' /\ p \notin active
  BY StepShape DEF Quiet
<1>2. \A d \in Deliveries : EndpointOf(d) = p => posts'[d] = posts[d]
  BY StepShape DEF Quiet
<1>3. ASSUME NEW d \in Deliveries, EndpointOf(d) = p, NEW w \in Workers, run'[w].at = d
      PROVE  FALSE
  <2>1. run[w].at # d /\ d # None
    BY <1>3, EventsApart DEF Quiet, Running
  <2>2. QED
    BY <1>1, <1>3, <2>1, StepShape
<1>4. QED
  BY <1>1, <1>2, <1>3 DEF Quiet, Running

\* Once the runs of a disabled endpoint have ended, no delivery that was still
\* queued, or is queued by a late call, reaches its receiver.
THEOREM DisabledEndpointsAreSilent == Spec => DisabledStaysQuiet
<1>1. DeliveryInv /\ [Next]_vars =>
        \A p \in Endpoints :
          Quiet(p) => Quiet(p)' /\ \A d \in Deliveries : EndpointOf(d) = p => posts'[d] = posts[d]
  BY QuietKept
<1>2. QED
  BY <1>1, DeliveriesConsistent, PTL DEF Spec, DisabledStaysQuiet
=============================================================================
