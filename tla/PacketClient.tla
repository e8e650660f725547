---------------------------- MODULE PacketClient ----------------------------
(***************************************************************************)
(* `agentp packet` (agentp_client/client.py, cli.py): upload the documents,*)
(* create the job, poll it until a deadline, download both artifacts.  One *)
(* user runs one command again and again, with the same documents, output  *)
(* directory and idempotency key, and may interrupt it anywhere.           *)
(*                                                                         *)
(* The other side is JobContract, which JobLifecycle is shown to implement:*)
(* the service moves a job only by the contract's actions.  A call is lost *)
(* on the way there or on the way back, or answered with an error.         *)
(***************************************************************************)
EXTENDS Integers, Sequences, FiniteSets

CONSTANTS
  Documents,   \* number of PDFs of the command
  MaxRuns      \* bound: how often the command is run

ASSUME ClientAssumption == Documents \in Nat /\ Documents >= 2 /\ MaxRuns \in Nat

Artifacts == {"packet.pdf", "packet-audit-report.json"}   \* EXPECTED_PACKET_FILENAMES
JobIds == 1 .. MaxRuns
SuccessStatuses == {"succeeded", "completed_with_warnings"}

\* What is at a destination: nothing, a file from before, half a file, or the
\* artifact of a job.
Nothing == 0
Foreign == -1
Torn    == -2

VARIABLES
  phase,      \* service: the phase of every job, as in JobContract
  body,       \* service: the file ids a job was created with
  keyHolder,  \* service: the job of the command's idempotency key, or 0
  fileCount,  \* service: file ids given out
  out,        \* the output directory
  up,         \* whether the service can be reached
  run         \* the run of the command: its number, flags, progress, verdict

Service == INSTANCE JobContract WITH Keys <- JobIds

service == <<phase, body, keyHolder, fileCount>>
vars == <<service, out, up, run>>

IdleRun == [number |-> 0, pc |-> "ended", overwrite |-> FALSE, keyed |-> FALSE,
            uploads |-> <<>>, job |-> 0, late |-> FALSE, listed |-> {}, saved |-> {},
            part |-> "none", verdict |-> "none"]

Init ==
  /\ Service!Init
  /\ body = [j \in JobIds |-> <<>>] /\ keyHolder = 0 /\ fileCount = 0
  /\ out \in [Artifacts -> {Nothing, Foreign}]
  /\ up \in BOOLEAN
  /\ run = IdleRun

Running == run.pc # "ended"

\* The run ends: a result, or an AgentPClientError with this code.
EndWith(verdict) == run' = [run EXCEPT !.pc = "ended", !.verdict = verdict]

\* What a call may get instead of its answer; HTTP_4xx stands for authorisation,
\* limits and vanished files.  During an outage there is nothing but the first.
RetryableErrors == {"NETWORK_ERROR", "HTTP_5xx", "MALFORMED_API_RESPONSE"}
CallErrors == IF up THEN {"NETWORK_ERROR", "HTTP_5xx", "HTTP_4xx"} ELSE {"NETWORK_ERROR"}

ArgumentErrors ==
  {"NOT_ENOUGH_INPUTS", "INPUT_FILE_NOT_FOUND", "INVALID_PACKET_LABELS",
   "INVALID_PACKET_MANIFEST", "PACKET_MANIFEST_NOT_ENABLED"}

Collisions(overwrite) == ~overwrite /\ \E a \in Artifacts : out[a] # Nothing

(***************************************************************************)
(* run_packet: checks, uploads, submission.                                *)
(***************************************************************************)
StartRun ==
  /\ ~Running /\ run.number < MaxRuns
  /\ \E overwrite, keyed \in BOOLEAN :
       run' = [IdleRun EXCEPT !.number = run.number + 1, !.pc = "check",
                              !.overwrite = overwrite, !.keyed = keyed]
  /\ UNCHANGED <<service, out, up>>

CheckRun ==
  /\ run.pc = "check"
  /\ \/ \E code \in ArgumentErrors : EndWith(code)
     \/ Collisions(run.overwrite) /\ EndWith("OUTPUT_EXISTS")
     \/ ~Collisions(run.overwrite) /\ run' = [run EXCEPT !.pc = "upload"]
  /\ UNCHANGED <<service, out, up>>

\* Every upload is a new file to the service, whatever it contains.
UploadFile ==
  /\ up /\ run.pc = "upload" /\ Len(run.uploads) < Documents
  /\ fileCount' = fileCount + 1
  /\ \/ run' = [run EXCEPT !.uploads = Append(@, fileCount + 1)]
     \/ EndWith("NETWORK_ERROR")      \* the reply is lost
  /\ UNCHANGED <<phase, body, keyHolder, out, up>>

UploadFails ==
  /\ run.pc = "upload" /\ Len(run.uploads) < Documents
  /\ \E code \in CallErrors \cup {"FILE_READ_FAILED"} : EndWith(code)
  /\ UNCHANGED <<service, out, up>>

\* Mutant: the job is created as soon as there is an upload.
Uploaded_First == run.pc = "upload" /\ Len(run.uploads) >= 1

Uploaded == run.pc = "upload" /\ Len(run.uploads) = Documents

\* Mutant: the header is left out.
SendsKey_Never == FALSE

\* The Idempotency-Key header of the request.
SendsKey == run.keyed

\* create_job on the other side.  Its own replay of an equal request cannot be
\* reached from here: the file ids of a run are new.
SubmitJob ==
  /\ up /\ Uploaded /\ (SendsKey => keyHolder = 0)
  /\ LET j == run.number
     IN  /\ Service!Admit(j)
         /\ body' = [body EXCEPT ![j] = run.uploads]
         /\ keyHolder' = IF SendsKey THEN j ELSE keyHolder
         /\ run' = [run EXCEPT !.pc = "submit", !.job = j]
  /\ UNCHANGED <<fileCount, out, up>>

SubmitConflicts ==
  /\ up /\ Uploaded /\ SendsKey /\ keyHolder # 0 /\ body[keyHolder] # run.uploads
  /\ EndWith("IDEMPOTENCY_KEY_CONFLICT")
  /\ UNCHANGED <<service, out, up>>

SubmitFails ==
  /\ Uploaded
  /\ \E code \in CallErrors : EndWith(code)
  /\ UNCHANGED <<service, out, up>>

\* The answer to the submission: a job id, or that the queue was unavailable.
Submitted ==
  /\ run.pc = "submit"
  /\ \/ up /\ phase[run.job] = "unqueued" /\ EndWith("QUEUE_UNAVAILABLE")
     \/ up /\ phase[run.job] # "unqueued" /\ run' = [run EXCEPT !.pc = "poll"]
     \/ EndWith("NETWORK_ERROR")
  /\ UNCHANGED <<service, out, up>>

(***************************************************************************)
(* wait_for_job.  Only the passing of the deadline matters of its clock.   *)
(***************************************************************************)
DeadlinePasses ==
  /\ run.pc = "poll" /\ ~run.late
  /\ run' = [run EXCEPT !.late = TRUE]
  /\ UNCHANGED <<service, out, up>>

\* The service lists both outputs of a packet; one of another version, or a
\* proxy, may list less.
PollSucceeds ==
  /\ up /\ run.pc = "poll" /\ phase[run.job] \in SuccessStatuses
  /\ \/ EndWith("PACKET_OUTPUTS_MISSING")
     \/ \E listed \in {Artifacts, {"packet.pdf"}} :
          run' = [run EXCEPT !.pc = "download", !.listed = listed]
  /\ UNCHANGED <<service, out, up>>

PollEnds ==
  /\ up /\ run.pc = "poll"
  /\ \/ phase[run.job] = "failed" /\ EndWith("JOB_FAILED")
     \/ phase[run.job] = "unqueued" /\ EndWith("QUEUE_UNAVAILABLE")
  /\ UNCHANGED <<service, out, up>>

PollPending ==
  /\ up /\ run.pc = "poll" /\ phase[run.job] = "pending"
  /\ IF run.late THEN EndWith("JOB_TIMEOUT") ELSE UNCHANGED run
  /\ UNCHANGED <<service, out, up>>

\* Mutant: a temporary error is retried whatever the time.
GivesUp_NotWhenRetryable(code) == code \notin RetryableErrors

GivesUp(code) == code \notin RetryableErrors \/ run.late

PollFails ==
  /\ run.pc = "poll"
  /\ \/ \E code \in CallErrors \cup (IF up THEN {"MALFORMED_API_RESPONSE"} ELSE {}) :
          IF GivesUp(code) THEN EndWith(code) ELSE UNCHANGED run
     \/ up /\ EndWith("UNKNOWN_JOB_STATUS")
  /\ UNCHANGED <<service, out, up>>

\* Mutant: the artifact is written in place.
Partial_InPlace(a) == [out EXCEPT ![a] = Torn]

\* The output directory while artifact a is being received.
Partial(a) == out

\* Mutant: whatever the job lists will do.
Missing_Nothing == {}

Missing == Artifacts \ run.saved

(***************************************************************************)
(* download_output, once for every output the job lists, then the result.  *)
(***************************************************************************)
Destination(a) == run.pc = "download" /\ a \in run.listed \ run.saved

\* The bytes of an artifact go to a temporary file beside its destination ...
ReceiveOutput(a) ==
  /\ Destination(a) /\ run.part = "none"
  /\ \/ out[a] # Nothing /\ ~run.overwrite /\ EndWith("OUTPUT_EXISTS") /\ UNCHANGED out
     \/ \E code \in CallErrors : EndWith(code) /\ UNCHANGED out
     \/ /\ up /\ (out[a] = Nothing \/ run.overwrite)
        /\ run' = [run EXCEPT !.part = a]
        /\ out' = Partial(a)
  /\ UNCHANGED <<service, up>>

\* ... which is moved over the destination when it is complete.
SaveOutput(a) ==
  /\ Destination(a) /\ run.part = a
  /\ \/ /\ out' = [out EXCEPT ![a] = run.job]
        /\ run' = [run EXCEPT !.part = "none", !.saved = @ \cup {a}]
     \/ EndWith("OUTPUT_WRITE_FAILED") /\ UNCHANGED out
  /\ UNCHANGED <<service, up>>

Finish ==
  /\ run.pc = "download" /\ run.saved = run.listed
  /\ EndWith(IF Missing = {} THEN "success" ELSE "PACKET_OUTPUTS_INCOMPLETE")
  /\ UNCHANGED <<service, out, up>>

\* Ctrl-C, or the end of the machine: the job goes on without its client.
Interrupt ==
  /\ Running /\ EndWith("interrupted")
  /\ UNCHANGED <<service, out, up>>

(***************************************************************************)
(* The service, meanwhile.                                                 *)
(***************************************************************************)
ServiceStep ==
  /\ \E j \in JobIds : Service!Decide(j) \/ Service!Refuse(j)
  /\ UNCHANGED <<body, keyHolder, fileCount, out, up, run>>

Outage == up' = ~up /\ UNCHANGED <<service, out, run>>

ClientStep ==
  \/ CheckRun \/ UploadFile \/ UploadFails
  \/ SubmitJob \/ SubmitConflicts \/ SubmitFails \/ Submitted
  \/ PollSucceeds \/ PollEnds \/ PollPending \/ PollFails
  \/ \E a \in Artifacts : ReceiveOutput(a) \/ SaveOutput(a)
  \/ Finish

Next == StartRun \/ ClientStep \/ DeadlinePasses \/ Interrupt \/ ServiceStep \/ Outage

Spec == Init /\ [][Next]_vars

\* A command that was started runs on, and time passes.  Nothing is assumed of
\* the service, of the network, or of the user.
FairSpec == Spec /\ WF_vars(ClientStep) /\ WF_vars(DeadlinePasses)

-----------------------------------------------------------------------------
Verdicts ==
  {"none", "success", "interrupted", "HTTP_4xx", "FILE_READ_FAILED", "OUTPUT_EXISTS",
   "IDEMPOTENCY_KEY_CONFLICT", "QUEUE_UNAVAILABLE", "JOB_FAILED", "JOB_TIMEOUT",
   "UNKNOWN_JOB_STATUS", "PACKET_OUTPUTS_MISSING", "PACKET_OUTPUTS_INCOMPLETE",
   "OUTPUT_WRITE_FAILED"} \cup RetryableErrors \cup ArgumentErrors

Progress == [number : 0 .. MaxRuns, overwrite : BOOLEAN, keyed : BOOLEAN, late : BOOLEAN,
             pc : {"check", "upload", "submit", "poll", "download", "ended"},
             uploads : Seq(Nat), job : 0 .. MaxRuns, listed : SUBSET Artifacts,
             saved : SUBSET Artifacts, part : Artifacts \cup {"none"}, verdict : Verdicts]

\* Type of the state, and what holds between a run's progress and the service:
\* a run names a job only when the service has it, and made it of the run's
\* own uploads (run_packet passes what it collected itself).
TypeOK ==
  /\ run \in Progress
  /\ out \in [Artifacts -> {Nothing, Foreign, Torn} \cup JobIds]
  /\ keyHolder \in 0 .. MaxRuns /\ fileCount \in Nat /\ up \in BOOLEAN
  /\ run.job # 0 => /\ phase[run.job] # "absent"
                    /\ Len(run.uploads) = Documents /\ body[run.job] = run.uploads

\* What the command reports is so.  After "Packet ready" both artifacts are in
\* the output directory, both of the job of this run, and the service holds that
\* job for successful; after JOB_FAILED the job has failed for good.
VerdictHolds ==
  /\ run.verdict = "success" =>
       /\ phase[run.job] \in SuccessStatuses
       /\ \A a \in Artifacts : out[a] = run.job
  /\ run.verdict = "JOB_FAILED" => phase[run.job] = "failed"

\* Runs with the same idempotency key share one job, whatever calls or answers
\* were lost and wherever the runs before were interrupted: create_packet_job
\* never gets a second job created for the key.
OneJobPerKey == run.keyed /\ run.job # 0 => keyHolder = run.job

\* An interrupted or failed download leaves what was there: a destination only
\* changes to a whole artifact of the run's job, and a file that exists only
\* with --overwrite (download_output's temporary file and os.replace).
ReplacedWhole ==
  [][\A a \in Artifacts :
       out'[a] # out[a] => /\ out'[a] = run.job
                           /\ out[a] = Nothing \/ run.overwrite]_vars

\* A run ends, whatever the service and the network do: the deadline bounds the
\* retries of wait_for_job as well as its polls.
RunsEnd == Running ~> ~Running

\* The retry the client suggests for QUEUE_UNAVAILABLE works ("retry with the same
\* key"): when the key's job was refused by the queue, the same command with the
\* same key is not told that the key belongs to another request.
SuggestedRetryWorks ==
  [][Running /\ run'.verdict = "IDEMPOTENCY_KEY_CONFLICT" => phase[keyHolder] # "unqueued"]_vars
=============================================================================
