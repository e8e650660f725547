------------------------- MODULE PacketClientProofs -------------------------
(***************************************************************************)
(* What PacketClient keeps for any number of documents and of runs.        *)
(*                                                                         *)
(* The inductive invariant ties a run's progress to the service and to the *)
(* output directory: what a run has saved is there and is of its job, the  *)
(* job of a run that downloads has succeeded for good, and a file that is  *)
(* about to be replaced may be.                                            *)
(***************************************************************************)
EXTENDS PacketClient, TLAPS

Phases == {"absent", "pending", "unqueued", "succeeded", "completed_with_warnings", "failed"}

ServiceTyped ==
  /\ phase \in [JobIds -> Phases]
  /\ body \in [JobIds -> Seq(Nat)]

RunConsistent ==
  /\ run.pc # "ended" => run.verdict = "none" /\ run.number \in JobIds
  /\ run.pc \in {"check", "upload"} => run.job = 0
  /\ run.pc \in {"submit", "poll", "download"} => run.job # 0
  /\ run.job = 0 => run.saved = {}
  /\ run.pc = "download" => phase[run.job] \in SuccessStatuses
  /\ run.verdict \in {"success", "JOB_FAILED"} => run.job # 0

SavedIsThere == \A a \in run.saved : out[a] = run.job

MayReplace == run.part \in Artifacts => out[run.part] = Nothing \/ run.overwrite

ClientInv ==
  TypeOK /\ VerdictHolds /\ OneJobPerKey
    /\ ServiceTyped /\ RunConsistent /\ SavedIsThere /\ MayReplace

LEMMA InitInv == Init => ClientInv
<1> SUFFICES ASSUME Init PROVE ClientInv
  OBVIOUS
<1> USE ClientAssumption
<1>1. TypeOK
  <2>1. IdleRun \in Progress
    <3>1. <<>> \in Seq(Nat) /\ 0 \in 0 .. MaxRuns
      OBVIOUS
    <3>2. QED
      BY <3>1 DEF IdleRun, Progress, Verdicts
  <2>2. IdleRun.job = 0
    BY DEF IdleRun
  <2>3. out \in [Artifacts -> {Nothing, Foreign, Torn} \cup JobIds]
    BY DEF Init
  <2>4. QED
    BY <2>1, <2>2, <2>3 DEF Init, TypeOK
<1>2. ServiceTyped
  BY DEF Init, Service!Init, ServiceTyped, Phases, JobIds
<1>3. VerdictHolds /\ OneJobPerKey /\ RunConsistent /\ SavedIsThere /\ MayReplace
  BY DEF Init, IdleRun, VerdictHolds, OneJobPerKey, RunConsistent, SavedIsThere, MayReplace,
         Artifacts
<1>4. QED
  BY <1>1, <1>2, <1>3 DEF ClientInv

\* A run may end anywhere, with any verdict that says nothing of the job.
LEMMA EndKeeps ==
  ASSUME ClientInv, NEW v \in Verdicts, run' = [run EXCEPT !.pc = "ended", !.verdict = v],
         UNCHANGED <<phase, body, keyHolder, out>>, fileCount' \in Nat, up' \in BOOLEAN,
         v = "success" => /\ run.job # 0 /\ phase[run.job] \in SuccessStatuses
                          /\ \A a \in Artifacts : out[a] = run.job,
         v = "JOB_FAILED" => run.job # 0 /\ phase[run.job] = "failed"
  PROVE  ClientInv'
<1> USE DEF ClientInv
<1>1. run' \in Progress
  BY DEF TypeOK, Progress
<1>2. /\ run'.verdict = v /\ run'.pc = "ended" /\ run'.job = run.job /\ run'.saved = run.saved
      /\ run'.uploads = run.uploads /\ run'.part = run.part /\ run'.keyed = run.keyed
      /\ run'.overwrite = run.overwrite
  BY DEF TypeOK, Progress
<1>3. TypeOK'
  BY <1>1, <1>2 DEF TypeOK
<1>4. VerdictHolds' /\ OneJobPerKey'
  BY <1>2 DEF VerdictHolds, OneJobPerKey
<1>5. ServiceTyped' /\ RunConsistent' /\ SavedIsThere' /\ MayReplace'
  BY <1>2 DEF ServiceTyped, RunConsistent, SavedIsThere, MayReplace
<1>6. QED
  BY <1>3, <1>4, <1>5

LEMMA EndSays ==
  ASSUME ClientInv, NEW v \in Verdicts \ {"success", "JOB_FAILED"}, EndWith(v),
         UNCHANGED <<phase, body, keyHolder, out>>, fileCount' \in Nat, up' \in BOOLEAN
  PROVE  ClientInv'
<1>1. v \in Verdicts /\ v # "success" /\ v # "JOB_FAILED"
  OBVIOUS
<1>2. QED
  BY <1>1, EndKeeps DEF EndWith

\* A step that moves the run on without a verdict and leaves service and
\* output directory as they are.
LEMMA MoveKeeps ==
  ASSUME ClientInv, UNCHANGED <<phase, body, keyHolder, out>>, fileCount' \in Nat, up' \in BOOLEAN,
         run' \in Progress, RunConsistent',
         run'.verdict = run.verdict, run'.job = run.job, run'.keyed = run.keyed,
         run'.saved = run.saved, run'.overwrite = run.overwrite,
         run.job # 0 => run'.uploads = run.uploads,
         run'.part = run.part \/ MayReplace'
  PROVE  ClientInv'
<1> USE DEF ClientInv
<1>1. TypeOK'
  BY DEF TypeOK
<1>2. VerdictHolds' /\ OneJobPerKey'
  BY DEF VerdictHolds, OneJobPerKey
<1>3. ServiceTyped' /\ SavedIsThere' /\ MayReplace'
  BY DEF ServiceTyped, SavedIsThere, MayReplace
<1>4. QED
  BY <1>1, <1>2, <1>3

LEMMA StartKeeps == ClientInv /\ StartRun => ClientInv'
<1> SUFFICES ASSUME ClientInv, StartRun PROVE ClientInv'
  OBVIOUS
<1> USE ClientAssumption DEF ClientInv
<1>1. PICK overwrite, keyed \in BOOLEAN :
        run' = [IdleRun EXCEPT !.number = run.number + 1, !.pc = "check",
                               !.overwrite = overwrite, !.keyed = keyed]
  BY DEF StartRun
<1>2. run.number \in 0 .. MaxRuns /\ run.number < MaxRuns
  BY DEF StartRun, TypeOK, Progress
<1>3. /\ run'.number = run.number + 1 /\ run'.pc = "check" /\ run'.verdict = "none"
      /\ run'.job = 0 /\ run'.saved = {} /\ run'.part = "none"
  BY <1>1 DEF IdleRun
<1>4. run' \in Progress
  <2>1. run' = [number |-> run.number + 1, pc |-> "check", overwrite |-> overwrite,
                keyed |-> keyed, uploads |-> <<>>, job |-> 0, late |-> FALSE, listed |-> {},
                saved |-> {}, part |-> "none", verdict |-> "none"]
    BY <1>1 DEF IdleRun
  <2>2. run.number + 1 \in 0 .. MaxRuns
    BY <1>2
  <2>3. <<>> \in Seq(Nat)
    OBVIOUS
  <2>4. QED
    BY <2>1, <2>2, <2>3 DEF Progress, Verdicts
<1>5. UNCHANGED <<phase, body, keyHolder, fileCount, out, up>>
  BY DEF StartRun, service
<1>6. TypeOK'
  BY <1>3, <1>4, <1>5 DEF TypeOK
<1>7. RunConsistent'
  BY <1>2, <1>3 DEF RunConsistent, JobIds
<1>8. VerdictHolds' /\ OneJobPerKey' /\ ServiceTyped' /\ SavedIsThere' /\ MayReplace'
  BY <1>3, <1>5 DEF VerdictHolds, OneJobPerKey, ServiceTyped, SavedIsThere, MayReplace, Artifacts
<1>9. QED
  BY <1>6, <1>7, <1>8

LEMMA CheckKeeps == ClientInv /\ CheckRun => ClientInv'
<1> SUFFICES ASSUME ClientInv, CheckRun PROVE ClientInv'
  OBVIOUS
<1>1. UNCHANGED <<phase, body, keyHolder, fileCount, out, up>> /\ fileCount \in Nat /\ up \in BOOLEAN
  BY DEF CheckRun, service, ClientInv, TypeOK
<1>2. CASE \E code \in ArgumentErrors : EndWith(code)
  <2>1. PICK code \in ArgumentErrors : EndWith(code)
    BY <1>2
  <2>2. code \in Verdicts \ {"success", "JOB_FAILED"}
    BY DEF ArgumentErrors, Verdicts
  <2>3. QED
    BY <1>1, <2>1, <2>2, EndSays
<1>3. CASE EndWith("OUTPUT_EXISTS")
  BY <1>1, <1>3, EndSays DEF Verdicts
<1>4. CASE run' = [run EXCEPT !.pc = "upload"]
  <2>1. run' \in Progress /\ run'.pc = "upload" /\ run'.verdict = run.verdict /\ run'.job = run.job
        /\ run'.number = run.number /\ run'.saved = run.saved
    BY <1>4 DEF ClientInv, TypeOK, Progress
  <2>2. RunConsistent'
    BY <2>1 DEF CheckRun, ClientInv, RunConsistent
  <2>3. QED
    BY <1>1, <1>4, <2>1, <2>2, MoveKeeps DEF ClientInv, TypeOK, Progress
<1>5. QED
  BY <1>2, <1>3, <1>4 DEF CheckRun

\* Any of the answers a call may get instead of its own ends the run in silence.
LEMMA CallErrorsSayNothing ==
  CallErrors \cup RetryableErrors \subseteq Verdicts \ {"success", "JOB_FAILED"}
BY DEF CallErrors, RetryableErrors, Verdicts

LEMMA UploadKeeps == ClientInv /\ (UploadFile \/ UploadFails) => ClientInv'
<1> SUFFICES ASSUME ClientInv, UploadFile \/ UploadFails PROVE ClientInv'
  OBVIOUS
<1>1. /\ UNCHANGED <<phase, body, keyHolder, out, up>> /\ run.pc = "upload"
      /\ fileCount' \in Nat /\ up' \in BOOLEAN /\ fileCount + 1 \in Nat
  BY DEF UploadFile, UploadFails, service, ClientInv, TypeOK
<1>2. CASE run' = [run EXCEPT !.uploads = Append(@, fileCount + 1)]
  <2>1. run.uploads \in Seq(Nat) /\ Append(run.uploads, fileCount + 1) \in Seq(Nat)
    BY <1>1 DEF ClientInv, TypeOK, Progress
  <2>2. /\ run' \in Progress
        /\ run'.pc = run.pc /\ run'.verdict = run.verdict /\ run'.job = run.job
        /\ run'.number = run.number /\ run'.saved = run.saved /\ run'.keyed = run.keyed
        /\ run'.overwrite = run.overwrite /\ run'.part = run.part
    BY <1>2, <2>1 DEF ClientInv, TypeOK, Progress
  <2>3. RunConsistent' /\ run.job = 0
    BY <1>1, <2>2 DEF ClientInv, RunConsistent
  <2>4. QED
    BY <1>1, <2>2, <2>3, MoveKeeps
<1>3. CASE EndWith("NETWORK_ERROR")
  BY <1>1, <1>3, EndSays DEF Verdicts, RetryableErrors
<1>4. CASE \E code \in CallErrors \cup {"FILE_READ_FAILED"} : EndWith(code)
  <2>1. PICK code \in CallErrors \cup {"FILE_READ_FAILED"} : EndWith(code)
    BY <1>4
  <2>2. code \in Verdicts \ {"success", "JOB_FAILED"}
    BY CallErrorsSayNothing DEF Verdicts
  <2>3. QED
    BY <1>1, <2>1, <2>2, EndSays
<1>5. QED
  BY <1>2, <1>3, <1>4 DEF UploadFile, UploadFails

LEMMA SubmitKeeps == ClientInv /\ SubmitJob => ClientInv'
<1> SUFFICES ASSUME ClientInv, SubmitJob PROVE ClientInv'
  OBVIOUS
<1> USE DEF ClientInv
<1>1. /\ UNCHANGED <<fileCount, out, up>>
      /\ run.pc = "upload" /\ Len(run.uploads) = Documents
      /\ phase[run.number] = "absent"
      /\ phase' = [phase EXCEPT ![run.number] = "pending"]
      /\ body' = [body EXCEPT ![run.number] = run.uploads]
      /\ keyHolder' = IF run.keyed THEN run.number ELSE keyHolder
      /\ run' = [run EXCEPT !.pc = "submit", !.job = run.number]
  BY DEF SubmitJob, Uploaded, SendsKey, Service!Admit, Service!Move
<1>2. /\ run.number \in JobIds /\ run.number \in 0 .. MaxRuns /\ run.number # 0
      /\ run.verdict = "none" /\ run.job = 0 /\ run.saved = {}
  BY <1>1 DEF RunConsistent, JobIds, TypeOK, Progress
<1>3. /\ run' \in Progress
      /\ run'.pc = "submit" /\ run'.verdict = "none" /\ run'.job = run.number
      /\ run'.number = run.number /\ run'.saved = {} /\ run'.keyed = run.keyed
      /\ run'.overwrite = run.overwrite /\ run'.part = run.part /\ run'.uploads = run.uploads
  BY <1>1, <1>2 DEF TypeOK, Progress
<1>4. /\ phase' \in [JobIds -> Phases] /\ phase'[run.number] = "pending"
      /\ body' \in [JobIds -> Seq(Nat)] /\ body'[run.number] = run.uploads
  BY <1>1, <1>2 DEF ServiceTyped, Phases, TypeOK, Progress
<1>5. TypeOK'
  BY <1>1, <1>2, <1>3, <1>4 DEF TypeOK
<1>6. VerdictHolds' /\ OneJobPerKey' /\ ServiceTyped'
  BY <1>1, <1>3, <1>4 DEF VerdictHolds, OneJobPerKey, ServiceTyped
<1>7. RunConsistent' /\ SavedIsThere' /\ MayReplace'
  BY <1>1, <1>2, <1>3 DEF RunConsistent, SavedIsThere, MayReplace
<1>8. QED
  BY <1>5, <1>6, <1>7

LEMMA RefusalKeeps == ClientInv /\ (SubmitConflicts \/ SubmitFails \/ Interrupt) => ClientInv'
<1> SUFFICES ASSUME ClientInv, SubmitConflicts \/ SubmitFails \/ Interrupt PROVE ClientInv'
  OBVIOUS
<1>1. UNCHANGED <<phase, body, keyHolder, out>> /\ fileCount' \in Nat /\ up' \in BOOLEAN
  BY DEF SubmitConflicts, SubmitFails, Interrupt, service, ClientInv, TypeOK
<1>2. CASE EndWith("IDEMPOTENCY_KEY_CONFLICT") \/ EndWith("interrupted")
  BY <1>1, <1>2, EndSays DEF Verdicts
<1>3. CASE \E code \in CallErrors : EndWith(code)
  BY <1>1, <1>3, EndSays, CallErrorsSayNothing
<1>4. QED
  BY <1>2, <1>3 DEF SubmitConflicts, SubmitFails, Interrupt

LEMMA WaitKeeps ==
  ClientInv /\ (Submitted \/ DeadlinePasses \/ PollPending \/ PollFails) => ClientInv'
<1> SUFFICES ASSUME ClientInv, Submitted \/ DeadlinePasses \/ PollPending \/ PollFails
             PROVE  ClientInv'
  OBVIOUS
<1>1. /\ UNCHANGED <<phase, body, keyHolder, out>> /\ fileCount' \in Nat /\ up' \in BOOLEAN
      /\ run.pc \in {"submit", "poll"}
  BY DEF Submitted, DeadlinePasses, PollPending, PollFails, service, ClientInv, TypeOK
<1>2. CASE \E code \in {"QUEUE_UNAVAILABLE", "JOB_TIMEOUT", "UNKNOWN_JOB_STATUS"}
                      \cup CallErrors \cup RetryableErrors : EndWith(code)
  <2>1. PICK code \in {"QUEUE_UNAVAILABLE", "JOB_TIMEOUT", "UNKNOWN_JOB_STATUS"}
                      \cup CallErrors \cup RetryableErrors : EndWith(code)
    BY <1>2
  <2>2. code \in Verdicts \ {"success", "JOB_FAILED"}
    BY CallErrorsSayNothing DEF Verdicts
  <2>3. QED
    BY <1>1, <2>1, <2>2, EndSays
<1>3. CASE run' = run
  <2>1. run' \in Progress /\ RunConsistent'
    BY <1>1, <1>3 DEF ClientInv, TypeOK, RunConsistent
  <2>2. QED
    BY <1>1, <1>3, <2>1, MoveKeeps
<1>4. CASE run' = [run EXCEPT !.pc = "poll"] \/ run' = [run EXCEPT !.late = TRUE]
  <2>1. /\ run' \in Progress
        /\ run'.pc \in {"submit", "poll"} /\ run'.verdict = run.verdict /\ run'.job = run.job
        /\ run'.number = run.number /\ run'.saved = run.saved /\ run'.keyed = run.keyed
        /\ run'.overwrite = run.overwrite /\ run'.part = run.part /\ run'.uploads = run.uploads
    BY <1>1, <1>4 DEF ClientInv, TypeOK, Progress
  <2>2. RunConsistent'
    BY <1>1, <2>1 DEF ClientInv, RunConsistent
  <2>3. QED
    BY <1>1, <2>1, <2>2, MoveKeeps
<1>5. QED
  BY <1>2, <1>3, <1>4 DEF Submitted, DeadlinePasses, PollPending, PollFails, RetryableErrors

LEMMA DecisionKeeps == ClientInv /\ (PollSucceeds \/ PollEnds) => ClientInv'
<1> SUFFICES ASSUME ClientInv, PollSucceeds \/ PollEnds PROVE ClientInv'
  OBVIOUS
<1>1. /\ UNCHANGED <<phase, body, keyHolder, out>> /\ fileCount' \in Nat /\ up' \in BOOLEAN
      /\ run.pc = "poll" /\ run.job # 0
  BY DEF PollSucceeds, PollEnds, service, ClientInv, TypeOK, RunConsistent
<1>2. CASE EndWith("PACKET_OUTPUTS_MISSING") \/ EndWith("QUEUE_UNAVAILABLE")
  BY <1>1, <1>2, EndSays DEF Verdicts
<1>3. CASE phase[run.job] = "failed" /\ EndWith("JOB_FAILED")
  <2>1. "JOB_FAILED" \in Verdicts
    BY DEF Verdicts
  <2>2. QED
    BY <1>1, <1>3, <2>1, EndKeeps DEF EndWith
<1>4. CASE /\ phase[run.job] \in SuccessStatuses
           /\ \E listed \in {Artifacts, {"packet.pdf"}} :
                run' = [run EXCEPT !.pc = "download", !.listed = listed]
  <2>1. PICK listed \in {Artifacts, {"packet.pdf"}} :
          run' = [run EXCEPT !.pc = "download", !.listed = listed]
    BY <1>4
  <2>2. listed \in SUBSET Artifacts
    BY DEF Artifacts
  <2>3. /\ run' \in Progress
        /\ run'.pc = "download" /\ run'.verdict = run.verdict /\ run'.job = run.job
        /\ run'.number = run.number /\ run'.saved = run.saved /\ run'.keyed = run.keyed
        /\ run'.overwrite = run.overwrite /\ run'.part = run.part /\ run'.uploads = run.uploads
    BY <2>1, <2>2 DEF ClientInv, TypeOK, Progress
  <2>4. RunConsistent'
    BY <1>1, <1>4, <2>3 DEF ClientInv, RunConsistent
  <2>5. QED
    BY <1>1, <2>3, <2>4, MoveKeeps
<1>5. QED
  BY <1>2, <1>3, <1>4 DEF PollSucceeds, PollEnds

LEMMA ReceiveKeeps == ASSUME NEW a \in Artifacts PROVE ClientInv /\ ReceiveOutput(a) => ClientInv'
<1> SUFFICES ASSUME ClientInv, ReceiveOutput(a) PROVE ClientInv'
  OBVIOUS
<1>1. /\ UNCHANGED <<phase, body, keyHolder, out>> /\ fileCount' \in Nat /\ up' \in BOOLEAN
      /\ run.pc = "download"
  BY DEF ReceiveOutput, Destination, Partial, service, ClientInv, TypeOK
<1>2. CASE EndWith("OUTPUT_EXISTS") \/ \E code \in CallErrors : EndWith(code)
  BY <1>1, <1>2, EndSays, CallErrorsSayNothing DEF Verdicts
<1>3. CASE (out[a] = Nothing \/ run.overwrite) /\ run' = [run EXCEPT !.part = a]
  <2>1. /\ run' \in Progress
        /\ run'.pc = run.pc /\ run'.verdict = run.verdict /\ run'.job = run.job
        /\ run'.number = run.number /\ run'.saved = run.saved /\ run'.keyed = run.keyed
        /\ run'.overwrite = run.overwrite /\ run'.part = a /\ run'.uploads = run.uploads
    BY <1>3 DEF ClientInv, TypeOK, Progress
  <2>2. RunConsistent' /\ MayReplace'
    BY <1>1, <1>3, <2>1 DEF ClientInv, RunConsistent, MayReplace
  <2>3. QED
    BY <1>1, <2>1, <2>2, MoveKeeps
<1>4. QED
  BY <1>2, <1>3 DEF ReceiveOutput

LEMMA SaveKeeps == ASSUME NEW a \in Artifacts PROVE ClientInv /\ SaveOutput(a) => ClientInv'
<1> SUFFICES ASSUME ClientInv, SaveOutput(a) PROVE ClientInv'
  OBVIOUS
<1>1. /\ UNCHANGED <<phase, body, keyHolder, fileCount, up>> /\ fileCount' \in Nat /\ up' \in BOOLEAN
      /\ run.pc = "download" /\ run.job # 0 /\ run.part = a /\ run.job \in JobIds
  BY DEF SaveOutput, Destination, service, ClientInv, TypeOK, RunConsistent, Progress, JobIds
<1>2. CASE EndWith("OUTPUT_WRITE_FAILED") /\ UNCHANGED out
  BY <1>1, <1>2, EndSays DEF Verdicts
<1>3. CASE /\ out' = [out EXCEPT ![a] = run.job]
           /\ run' = [run EXCEPT !.part = "none", !.saved = @ \cup {a}]
  <2> USE DEF ClientInv
  <2>1. /\ run' \in Progress
        /\ run'.pc = run.pc /\ run'.verdict = run.verdict /\ run'.job = run.job
        /\ run'.number = run.number /\ run'.saved = run.saved \cup {a} /\ run'.keyed = run.keyed
        /\ run'.overwrite = run.overwrite /\ run'.part = "none" /\ run'.uploads = run.uploads
    BY <1>3 DEF TypeOK, Progress
  <2>2. /\ out' \in [Artifacts -> {Nothing, Foreign, Torn} \cup JobIds]
        /\ out'[a] = run.job
        /\ \A b \in Artifacts \ {a} : out'[b] = out[b]
    BY <1>1, <1>3 DEF TypeOK
  <2>3. TypeOK'
    BY <1>1, <2>1, <2>2 DEF TypeOK
  <2>4. VerdictHolds' /\ OneJobPerKey' /\ ServiceTyped'
    BY <1>1, <2>1 DEF VerdictHolds, OneJobPerKey, ServiceTyped, RunConsistent
  <2>5. SavedIsThere'
    BY <2>1, <2>2 DEF SavedIsThere, TypeOK, Progress
  <2>6. RunConsistent' /\ MayReplace'
    BY <1>1, <2>1 DEF RunConsistent, MayReplace, Artifacts
  <2>7. QED
    BY <2>3, <2>4, <2>5, <2>6
<1>4. QED
  BY <1>2, <1>3 DEF SaveOutput

LEMMA FinishKeeps == ClientInv /\ Finish => ClientInv'
<1> SUFFICES ASSUME ClientInv, Finish PROVE ClientInv'
  OBVIOUS
<1>1. /\ UNCHANGED <<phase, body, keyHolder, out>> /\ fileCount' \in Nat /\ up' \in BOOLEAN
      /\ run.pc = "download" /\ run.job # 0
  BY DEF Finish, service, ClientInv, TypeOK, RunConsistent
<1>2. CASE Missing = {} /\ EndWith("success")
  <2>1. "success" \in Verdicts
    BY DEF Verdicts
  <2>2. \A a \in Artifacts : out[a] = run.job
    BY <1>2 DEF Missing, ClientInv, SavedIsThere
  <2>3. phase[run.job] \in SuccessStatuses
    BY <1>1 DEF ClientInv, RunConsistent
  <2>4. QED
    BY <1>1, <1>2, <2>1, <2>2, <2>3, EndKeeps DEF EndWith
<1>3. CASE EndWith("PACKET_OUTPUTS_INCOMPLETE")
  BY <1>1, <1>3, EndSays DEF Verdicts
<1>4. QED
  BY <1>2, <1>3 DEF Finish

\* The service decides pending jobs only: what a run has learnt of its job stands.
LEMMA ServiceKeeps == ClientInv /\ ServiceStep => ClientInv'
<1> SUFFICES ASSUME ClientInv, ServiceStep PROVE ClientInv'
  OBVIOUS
<1> USE DEF ClientInv
<1>1. PICK j \in JobIds : Service!Decide(j) \/ Service!Refuse(j)
  BY DEF ServiceStep
<1>2. UNCHANGED <<body, keyHolder, fileCount, out, up, run>>
  BY DEF ServiceStep
<1>3. PICK to \in Phases \ {"absent"} :
        phase[j] = "pending" /\ phase' = [phase EXCEPT ![j] = to]
  BY <1>1 DEF Service!Decide, Service!Refuse, Service!Move, Service!Decision, Phases
<1>4. run.job # 0 => run.job \in JobIds
  BY DEF TypeOK, Progress, JobIds
<1>5. /\ phase' \in [JobIds -> Phases]
      /\ \A k \in JobIds : phase[k] # "pending" => phase'[k] = phase[k]
      /\ \A k \in JobIds : phase[k] # "absent" => phase'[k] # "absent"
  BY <1>3 DEF ServiceTyped
<1>6. TypeOK'
  BY <1>2, <1>4, <1>5 DEF TypeOK
<1>7. VerdictHolds' /\ RunConsistent'
  <2>1. run.job # 0 /\ phase[run.job] # "pending" => phase'[run.job] = phase[run.job]
    BY <1>4, <1>5
  <2>2. "pending" \notin SuccessStatuses
    BY DEF SuccessStatuses
  <2>3. VerdictHolds'
    BY <1>2, <2>1, <2>2 DEF VerdictHolds, RunConsistent
  <2>4. RunConsistent'
    BY <1>2, <2>1, <2>2 DEF RunConsistent
  <2>5. QED
    BY <2>3, <2>4
<1>8. OneJobPerKey' /\ ServiceTyped' /\ SavedIsThere' /\ MayReplace'
  BY <1>2, <1>5 DEF OneJobPerKey, ServiceTyped, SavedIsThere, MayReplace
<1>9. QED
  BY <1>6, <1>7, <1>8

LEMMA StillKeeps ==
  ASSUME ClientInv, UNCHANGED <<phase, body, keyHolder, fileCount, out, run>>, up' \in BOOLEAN
  PROVE  ClientInv'
<1>1. fileCount' \in Nat /\ run' \in Progress /\ RunConsistent'
  BY DEF ClientInv, TypeOK, RunConsistent
<1>2. QED
  BY <1>1, MoveKeeps

LEMMA StepKeeps == ClientInv /\ [Next]_vars => ClientInv'
<1> SUFFICES ASSUME ClientInv, [Next]_vars PROVE ClientInv'
  OBVIOUS
<1>1. CASE StartRun \/ CheckRun
  BY <1>1, StartKeeps, CheckKeeps
<1>2. CASE UploadFile \/ UploadFails
  BY <1>2, UploadKeeps
<1>3. CASE SubmitJob
  BY <1>3, SubmitKeeps
<1>4. CASE SubmitConflicts \/ SubmitFails \/ Interrupt
  BY <1>4, RefusalKeeps
<1>5. CASE Submitted \/ DeadlinePasses \/ PollPending \/ PollFails
  BY <1>5, WaitKeeps
<1>6. CASE PollSucceeds \/ PollEnds
  BY <1>6, DecisionKeeps
<1>7. CASE \E a \in Artifacts : ReceiveOutput(a) \/ SaveOutput(a)
  BY <1>7, ReceiveKeeps, SaveKeeps
<1>8. CASE Finish
  BY <1>8, FinishKeeps
<1>9. CASE ServiceStep
  BY <1>9, ServiceKeeps
<1>10. CASE Outage
  BY <1>10, StillKeeps DEF Outage, service, ClientInv, TypeOK
<1>11. CASE UNCHANGED vars
  BY <1>11, StillKeeps DEF vars, service, ClientInv, TypeOK
<1>12. QED
  BY <1>1, <1>2, <1>3, <1>4, <1>5, <1>6, <1>7, <1>8, <1>9, <1>10, <1>11 DEF Next, ClientStep

\* Run, service and output directory stay consistent in every reachable state.
THEOREM ClientConsistent == Spec => []ClientInv
<1>1. QED
  BY InitInv, StepKeeps, PTL DEF Spec

\* The type invariant, for any number of documents and runs.
THEOREM ClientTyped == Spec => []TypeOK
<1>1. ClientInv => TypeOK
  BY DEF ClientInv
<1>2. QED
  BY <1>1, ClientConsistent, PTL

\* What the command reports of its job and its artifacts is so.
THEOREM ReportsAreTrue == Spec => []VerdictHolds
<1>1. ClientInv => VerdictHolds
  BY DEF ClientInv
<1>2. QED
  BY <1>1, ClientConsistent, PTL

\* However often a command is run with a key, the key has one job.
THEOREM KeysHaveOneJob == Spec => []OneJobPerKey
<1>1. ClientInv => OneJobPerKey
  BY DEF ClientInv
<1>2. QED
  BY <1>1, ClientConsistent, PTL

\* Only SaveOutput writes to the output directory, and only what may be replaced.
LEMMA ReplacedStep ==
  ClientInv /\ [Next]_vars =>
    [\A a \in Artifacts :
       out'[a] # out[a] => /\ out'[a] = run.job
                           /\ out[a] = Nothing \/ run.overwrite]_vars
<1> SUFFICES ASSUME ClientInv, [Next]_vars, NEW a \in Artifacts, out'[a] # out[a]
             PROVE  out'[a] = run.job /\ (out[a] = Nothing \/ run.overwrite)
  OBVIOUS
<1>1. PICK b \in Artifacts : SaveOutput(b)
  BY DEF Next, ClientStep, StartRun, CheckRun, UploadFile, UploadFails, SubmitJob, SubmitConflicts,
         SubmitFails, Submitted, DeadlinePasses, PollSucceeds, PollEnds, PollPending, PollFails,
         ReceiveOutput, Partial, Finish, Interrupt, ServiceStep, Outage, vars
<1>2. run.part = b /\ out' = [out EXCEPT ![b] = run.job]
  BY <1>1 DEF SaveOutput
<1>3. out \in [Artifacts -> {Nothing, Foreign, Torn} \cup JobIds]
  BY DEF ClientInv, TypeOK
<1>4. a = b
  BY <1>2, <1>3
<1>5. QED
  BY <1>2, <1>3, <1>4 DEF ClientInv, MayReplace

\* A destination is only ever replaced by a whole artifact, where it may be.
THEOREM FilesReplacedWhole == Spec => ReplacedWhole
<1>1. QED
  BY InitInv, StepKeeps, ReplacedStep, PTL DEF Spec, ReplacedWhole
=============================================================================
