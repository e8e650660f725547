------------------------- MODULE DocumentStoreProofs -------------------------
(***************************************************************************)
(* Theorems about DocumentStore, for every number of documents, jobs and   *)
(* processes.  The invariant says what a process may rely on at each step: *)
(* the locks it holds, and what these and the uploads' fresh ids keep      *)
(* others from doing.                                                      *)
(***************************************************************************)
EXTENDS DocumentStore, FiniteSetTheorems, TLAPS

\* An unfinished job, other than one a replay has resumed, has d as an input.
Needed(d) ==
  \E j \in Jobs \ revived : job[j].status \in ActiveJobStatuses /\ d \in job[j].inputs

InHand == {"reserve", "insert", "discard"}
Purging == {"purge", "retire"}

\* What is true while p is at its step.
StepOK(p) ==
  /\ At(p, "insert") => wlock = p
  /\ At(p, "attach") =>
       /\ wlock = p
       /\ proc[p].job \in Jobs /\ job[proc[p].job] = NoJob
       /\ \A d \in proc[p].docs : dlock[d] = p
  /\ proc[p].pc \in Purging =>
       \A d \in proc[p].docs : dlock[d] = p /\ row[d] = "validated" /\ ~Needed(d)
  /\ proc[p].pc \in {"reserve", "insert"} =>
       \A d \in proc[p].docs : row[d] = "absent" /\ d \in stored
  /\ At(p, "discard") => \A d \in proc[p].docs : row[d] = "absent" \/ d \in struck
  /\ proc[p].pc \in Purging \cup {"lock"} => \A d \in proc[p].left : row[d] # "absent"

StepsOK == \A p \in Procs : StepOK(p)

\* No two processes have the same document in their hands.
HandsDisjoint ==
  \A p, q \in Procs :
    p # q /\ proc[p].pc \in InHand /\ proc[q].pc \in InHand =>
      proc[p].docs \cap proc[q].docs = {}

\* The bytes of a live row are there, or were hit by a mishap, or its purge
\* is between the bytes and the row.
BytesHold ==
  \A d \in Docs :
    row[d] = "validated" /\ d \notin stored \cup struck =>
      \E p \in Procs : At(p, "retire") /\ d \in proc[p].docs

\* Whoever is about to insert has found room.
RoomHolds ==
  \A p \in Procs :
    At(p, "insert") => Cardinality(Live) + Cardinality(proc[p].docs) <= DocLimit

\* What every step of q but AttachInputs leaves to the others, and what it
\* may take from the document it is at.
Frame(q) ==
  /\ \A p \in Procs \ {q} : proc'[p] = proc[p]
  /\ wlock' = wlock \/ wlock \in {None, q}
  /\ \A d \in Docs : dlock'[d] = dlock[d] \/ dlock[d] \in {None, q}
  /\ \A d \in Docs :
       \/ row'[d] = row[d]
       \/ /\ d \in proc[q].docs
          /\ \/ At(q, "insert") /\ row'[d] = "validated"
             \/ At(q, "retire") /\ row'[d] = "deleted"
  /\ \A d \in stored \ stored' :
       d \in proc[q].docs /\ proc[q].pc \in Purging \cup {"discard"}
  /\ \A d \in struck \ struck' : Fresh(d)
  /\ \A j \in Jobs \ revived' :
       /\ j \notin revived
       /\ job'[j].status \in ActiveJobStatuses =>
            job[j].status \in ActiveJobStatuses /\ job'[j].inputs = job[j].inputs
  /\ \A j \in Jobs : job[j] = NoJob => job'[j] = NoJob
  /\ proc'[q].pc \in InHand =>
       \/ proc[q].pc \in InHand /\ proc'[q].docs = proc[q].docs
       \/ \A d \in proc'[q].docs : Fresh(d)
  /\ proc[q].pc \in Purging =>
       \A d \in proc[q].docs :
         \/ row'[d] = "deleted" \/ d \in struck'
         \/ proc'[q].pc = "retire" /\ d \in proc'[q].docs

StoreInv ==
  TypeOK /\ StepsOK /\ HandsDisjoint /\ BytesHold /\ InputsKept

CountInv == RoomHolds /\ DocumentLimitHolds

-----------------------------------------------------------------------------
LEMMA NobodyIsNone == None \notin Procs
  BY ConstantsAssumption DEF Procs

LEMMA InitStore == Init => StoreInv
<1> SUFFICES ASSUME Init PROVE StoreInv
  OBVIOUS
<1>1. TypeOK
  BY ConstantsAssumption DEF Init, TypeOK, Idle, NoJob, PC, JobStatus, Procs
<1>2. \A p \in Procs : proc[p].pc = "idle"
  BY DEF Init, Idle
<1>3. StepsOK
  BY <1>2 DEF StepsOK, StepOK, At, Purging
<1>4. HandsDisjoint
  BY <1>2 DEF HandsDisjoint, InHand
<1>5. BytesHold /\ InputsKept
  BY DEF Init, BytesHold, InputsKept, NoJob, ActiveJobStatuses
<1> QED
  BY <1>1, <1>3, <1>4, <1>5 DEF StoreInv

LEMMA FrameKeeps ==
  ASSUME StoreInv, NEW q \in Procs, Frame(q), TypeOK', StepOK(q)'
  PROVE  StoreInv'
<1> USE DEF StoreInv
<1>1. \A d \in Docs : Needed(d)' => Needed(d)
  BY DEF Frame, Needed
<1>2. ASSUME NEW p \in Procs, p # q PROVE StepOK(p)'
  <2>1. StepOK(p) /\ StepOK(q) /\ proc'[p] = proc[p] /\ p # None
    BY <1>2, NobodyIsNone DEF StepsOK, Frame
  <2>2. proc[p].docs \subseteq Docs /\ proc[p].left \subseteq Docs
    BY DEF TypeOK
  <2>3. At(p, "insert") \/ At(p, "attach") => wlock' = p
    BY <1>2, <2>1 DEF Frame, StepOK
  <2>4. At(p, "attach") =>
          job'[proc[p].job] = NoJob /\ \A d \in proc[p].docs : dlock'[d] = p
    BY <1>2, <2>1, <2>2 DEF Frame, StepOK
  <2>5. ASSUME proc[p].pc \in Purging, NEW d \in proc[p].docs
        PROVE  dlock'[d] = p /\ row'[d] = "validated" /\ ~Needed(d)'
    BY <1>1, <1>2, <2>1, <2>2, <2>5 DEF Frame, StepOK, Purging, At
  <2>6. ASSUME proc[p].pc \in {"reserve", "insert"}, NEW d \in proc[p].docs
        PROVE  row'[d] = "absent" /\ d \in stored'
    <3>1. row[d] = "absent" /\ d \in stored /\ d \in Docs
      BY <2>1, <2>2, <2>6 DEF StepOK
    <3>2. ~(proc[q].pc \in InHand /\ d \in proc[q].docs)
      BY <1>2, <2>6 DEF HandsDisjoint, InHand
    <3>3. ~(proc[q].pc \in Purging /\ d \in proc[q].docs)
      BY <2>1, <3>1 DEF StepOK
    <3> QED
      BY <3>1, <3>2, <3>3 DEF Frame, InHand, Purging, At
  <2>7. ASSUME At(p, "discard"), NEW d \in proc[p].docs
        PROVE  row'[d] = "absent" \/ d \in struck'
    <3>1. d \in Docs /\ (row[d] = "absent" \/ d \in struck) /\ ~Fresh(d)
      BY <2>1, <2>2, <2>7 DEF StepOK, Fresh
    <3>2. ~(proc[q].pc \in InHand /\ d \in proc[q].docs)
      BY <1>2, <2>7 DEF HandsDisjoint, InHand, At
    <3>3. d \in struck => d \in struck'
      BY <3>1 DEF Frame
    <3>4. row[d] = "absent" => row'[d] = "absent"
      BY <2>1, <3>1, <3>2 DEF Frame, InHand, Purging, At, StepOK
    <3> QED
      BY <3>1, <3>3, <3>4
  <2>8. \A d \in proc[p].left : row[d] # "absent" => row'[d] # "absent"
    BY <2>2 DEF Frame
  <2> QED
    BY <2>1, <2>3, <2>4, <2>5, <2>6, <2>7, <2>8 DEF StepOK, At
<1>3. StepsOK'
  BY <1>2 DEF StepsOK
<1>4. HandsDisjoint'
  <2> SUFFICES ASSUME NEW p \in Procs, p # q, proc[p].pc \in InHand,
                      proc'[q].pc \in InHand
               PROVE  proc[p].docs \cap proc'[q].docs = {}
    BY DEF HandsDisjoint, Frame
  <2> QED
    BY DEF HandsDisjoint, Frame, Fresh
<1>5. BytesHold'
  <2> SUFFICES ASSUME NEW d \in Docs, row'[d] = "validated", d \notin stored' \cup struck'
               PROVE  \E p \in Procs : At(p, "retire")' /\ d \in proc'[p].docs
    BY DEF BytesHold
  <2>1. StepOK(q)
    BY DEF StepsOK
  <2>2. CASE row[d] # "validated"
    BY <2>1, <2>2 DEF Frame, StepOK, At, Purging
  <2>3. CASE d \in struck
    BY <2>1, <2>3 DEF Frame, StepOK, At, Fresh
  <2>4. CASE row[d] = "validated" /\ d \notin struck /\ d \in stored
    BY <2>1, <2>4 DEF Frame, StepOK, At, Purging
  <2>5. CASE row[d] = "validated" /\ d \notin struck /\ d \notin stored
    <3>1. PICK p \in Procs : At(p, "retire") /\ d \in proc[p].docs
      BY <2>5 DEF BytesHold
    <3> QED
      BY <3>1 DEF Frame, At, Purging
  <2> QED
    BY <2>2, <2>3, <2>4, <2>5
<1>6. InputsKept'
  <2> SUFFICES ASSUME NEW j \in Jobs \ revived', job'[j].status \in ActiveJobStatuses,
                      NEW d \in job'[j].inputs
               PROVE  d \in Live' /\ d \in stored' \cup struck'
    BY DEF InputsKept
  <2>1. /\ j \in Jobs \ revived /\ job[j].status \in ActiveJobStatuses
        /\ d \in job[j].inputs /\ d \in Docs
    BY DEF Frame, TypeOK
  <2>2. Needed(d) /\ row[d] = "validated" /\ d \in stored \cup struck
    BY <2>1 DEF Needed, InputsKept, Live
  <2>3. StepOK(q)
    BY DEF StepsOK
  <2>4. ~(proc[q].pc \in Purging /\ d \in proc[q].docs) /\ ~Fresh(d)
    BY <2>2, <2>3 DEF StepOK, Fresh
  <2>5. row'[d] = "validated"
    BY <2>1, <2>2, <2>4 DEF Frame, Purging, At
  <2>6. d \in struck => d \in struck'
    BY <2>4 DEF Frame
  <2>7. d \notin struck => d \in stored'
    BY <2>2, <2>3, <2>4 DEF Frame, StepOK, At
  <2> QED
    BY <2>1, <2>5, <2>6, <2>7 DEF Live
<1> QED
  BY <1>3, <1>4, <1>5, <1>6

\* The steps around a job that no process of this model takes.
LEMMA JobsMoveKeeps ==
  ASSUME StoreInv, UNCHANGED <<row, stored, dlock, wlock, proc, struck>>, TypeOK',
         \A j \in Jobs \ revived' :
           /\ j \notin revived
           /\ job'[j].status \in ActiveJobStatuses =>
                job[j].status \in ActiveJobStatuses /\ job'[j].inputs = job[j].inputs,
         \A j \in Jobs : job[j] = NoJob => job'[j] = NoJob
  PROVE  StoreInv'
<1> USE DEF StoreInv
<1>1. \A d \in Docs : Needed(d)' => Needed(d)
  BY DEF Needed
<1>2. StepsOK'
  <2> SUFFICES ASSUME NEW p \in Procs PROVE StepOK(p)'
    BY DEF StepsOK
  <2>1. StepOK(p) /\ proc[p].docs \subseteq Docs
    BY DEF StepsOK, TypeOK
  <2> QED
    BY <1>1, <2>1 DEF StepOK, At
<1>3. HandsDisjoint' /\ BytesHold'
  BY DEF HandsDisjoint, BytesHold, At
<1>4. InputsKept'
  BY DEF InputsKept, Live
<1> QED
  BY <1>2, <1>3, <1>4

LEMMA AttachInputsKeeps ==
  ASSUME StoreInv, NEW q \in Procs, AttachInputs(q)
  PROVE  StoreInv'
<1> DEFINE j == proc[q].job
<1> USE DEF StoreInv
<1>1. /\ At(q, "attach") /\ wlock = q /\ j \in Jobs /\ job[j] = NoJob
      /\ \A d \in proc[q].docs : dlock[d] = q
  BY DEF AttachInputs, StepsOK, StepOK
<1>2. /\ proc' = [proc EXCEPT ![q] = Idle] /\ wlock' = None
      /\ dlock' = [d \in Docs |-> IF dlock[d] = q THEN None ELSE dlock[d]]
      /\ revived' = revived \ {j}
      /\ row' = row /\ stored' = stored /\ struck' = struck /\ made' = made
      /\ old' = old /\ mishaps' = mishaps
      /\ \/ proc[q].docs \subseteq Live
            /\ job' = [job EXCEPT ![j] = [status |-> "queued", inputs |-> proc[q].docs]]
         \/ job' = job
  BY <1>1 DEF AttachInputs, UnlockDocs, UnlockWorkspace, Go
<1>3. TypeOK'
  BY <1>1, <1>2 DEF TypeOK, Idle, PC, JobStatus
<1>4. \A d \in Docs : Needed(d)' => Needed(d) \/ dlock[d] = q
  BY <1>1, <1>2 DEF TypeOK, Needed, NoJob, ActiveJobStatuses
<1>5. ASSUME NEW p \in Procs PROVE StepOK(p)'
  <2>1. CASE p = q
    BY <1>2, <2>1 DEF StepOK, At, Idle, Purging, TypeOK
  <2>2. CASE p # q
    <3>1. proc'[p] = proc[p] /\ \A d \in Docs : dlock[d] = p => dlock'[d] = p
      BY <1>2, <2>2 DEF TypeOK
    <3>2. StepOK(p)
      BY DEF StepsOK
    <3>3. ~At(p, "insert") /\ ~At(p, "attach")
      BY <1>1, <2>2, <3>2 DEF StepOK, At
    <3>4. proc[p].docs \subseteq Docs
      BY DEF TypeOK
    <3> QED
      BY <1>2, <1>4, <2>2, <3>1, <3>2, <3>3, <3>4 DEF StepOK, At, Purging
  <2> QED
    BY <2>1, <2>2
<1>6. HandsDisjoint'
  BY <1>2 DEF HandsDisjoint, InHand, Idle, TypeOK
<1>7. BytesHold'
  BY <1>1, <1>2 DEF BytesHold, At, TypeOK
<1>8. \A d \in proc[q].docs : d \in Live => d \in stored \cup struck
  <2> SUFFICES ASSUME NEW d \in proc[q].docs, row[d] = "validated", d \notin stored \cup struck
               PROVE  FALSE
    BY DEF Live
  <2>1. PICK p \in Procs : At(p, "retire") /\ d \in proc[p].docs
    BY DEF BytesHold, TypeOK
  <2>2. dlock[d] = p
    BY <2>1 DEF StepsOK, StepOK, At, Purging
  <2> QED
    BY <1>1, <2>1, <2>2 DEF At
<1>9. InputsKept'
  BY <1>1, <1>2, <1>8 DEF InputsKept, Live, TypeOK, NoJob, ActiveJobStatuses
<1> QED
  BY <1>3, <1>5, <1>6, <1>7, <1>9 DEF StepsOK

-----------------------------------------------------------------------------
\* One lemma per part of the life of a document: what each action of q does
\* is within q's frame.
Kept(q) == Frame(q) /\ TypeOK' /\ StepOK(q)'

LEMMA UploadSteps ==
  ASSUME StoreInv, NEW q \in Procs
  PROVE  /\ UploadFile(q) => Kept(q)
         /\ StartRun(q) => Kept(q)
         /\ StageOutputs(q) => Kept(q)
         /\ StagingFails(q) => Kept(q)
         /\ RunFails(q) => Kept(q)
<1> USE DEF StoreInv, Kept
<1>0. StepOK(q) /\ q # None
  BY NobodyIsNone DEF StepsOK
<1>1. ASSUME UploadFile(q) PROVE Kept(q)
  <2>1. PICK d \in Docs :
          /\ Fresh(d) /\ stored' = stored \cup {d} /\ struck' = struck \ {d}
          /\ proc' = [proc EXCEPT ![q] = [Idle EXCEPT !.pc = "reserve", !.docs = {d}]]
    BY <1>1 DEF UploadFile, Go
  <2>2. UNCHANGED <<row, old, dlock, wlock, job, made, mishaps, revived>> /\ At(q, "idle")
    BY <1>1 DEF UploadFile
  <2>3. proc'[q] = [pc |-> "reserve", docs |-> {d}, left |-> {}, job |-> None]
    BY <2>1 DEF TypeOK, Idle
  <2>4. TypeOK'
    BY <2>1, <2>2 DEF TypeOK, Idle, PC
  <2>5. Frame(q)
    BY <2>1, <2>2, <2>3 DEF Frame, TypeOK, At, Purging
  <2>6. StepOK(q)'
    BY <2>1, <2>2, <2>3 DEF StepOK, At, Purging, Fresh
  <2> QED
    BY <2>4, <2>5, <2>6
<1>2. ASSUME StartRun(q) PROVE Kept(q)
  <2>1. PICK j \in Jobs :
          /\ job[j].status = "queued"
          /\ job' = [job EXCEPT ![j].status = "running"]
          /\ proc' = [proc EXCEPT ![q] = [Idle EXCEPT !.pc = "run", !.job = j]]
    BY <1>2 DEF StartRun, Go
  <2>2. /\ UNCHANGED <<row, stored, old, dlock, wlock, made, mishaps, struck, revived>>
        /\ At(q, "idle")
    BY <1>2 DEF StartRun
  <2>3. proc'[q] = [pc |-> "run", docs |-> {}, left |-> {}, job |-> j]
    BY <2>1 DEF TypeOK, Idle
  <2>4. TypeOK'
    BY <2>1, <2>2 DEF TypeOK, Idle, PC, JobStatus
  <2>5. \A i \in Jobs :
          \/ i # j /\ job'[i] = job[i]
          \/ /\ i = j /\ job[i] # NoJob /\ job[i].status \in ActiveJobStatuses
             /\ job'[i].inputs = job[i].inputs
    BY <2>1 DEF TypeOK, NoJob, ActiveJobStatuses
  <2>6. Frame(q)
    BY <2>1, <2>2, <2>3, <2>5 DEF Frame, TypeOK, At, Purging, InHand
  <2>7. StepOK(q)'
    BY <2>3 DEF StepOK, At, Purging
  <2> QED
    BY <2>4, <2>6, <2>7
<1>3. ASSUME StageOutputs(q) PROVE Kept(q)
  <2>1. PICK ds \in SUBSET Docs :
          /\ \A d \in ds : Fresh(d)
          /\ stored' = stored \cup ds /\ made' = made \cup ds /\ struck' = struck \ ds
          /\ proc' = [proc EXCEPT ![q] = [proc[q] EXCEPT !.pc = "reserve", !.docs = ds]]
    BY <1>3 DEF StageOutputs, Go
  <2>2. /\ UNCHANGED <<row, old, dlock, wlock, job, mishaps, revived>>
        /\ At(q, "run")
    BY <1>3 DEF StageOutputs
  <2>3. proc'[q].pc = "reserve" /\ proc'[q].docs = ds
    BY <2>1 DEF TypeOK
  <2>4. TypeOK'
    <3>1. stored' \subseteq Docs /\ made' \subseteq Docs /\ struck' \subseteq Docs
      BY <2>1 DEF TypeOK
    <3>2. [proc[q] EXCEPT !.pc = "reserve", !.docs = ds] \in
            [pc : PC, docs : SUBSET Docs, left : SUBSET Docs, job : Jobs \cup {None}]
      <4>1. proc[q] \in [pc : PC, docs : SUBSET Docs, left : SUBSET Docs,
                         job : Jobs \cup {None}]
        BY DEF TypeOK
      <4> QED
        BY <4>1 DEF PC
    <3> QED
      BY <2>1, <2>2, <3>1, <3>2 DEF TypeOK
  <2>5. Frame(q)
    BY <2>1, <2>2, <2>3 DEF Frame, TypeOK, At, Purging
  <2>6. StepOK(q)'
    BY <2>1, <2>2, <2>3 DEF StepOK, At, Purging, Fresh
  <2> QED
    BY <2>4, <2>5, <2>6
<1> DEFINE Over == job' = [j \in Jobs |-> IF j = proc[q].job THEN NoJob ELSE job[j]]
           Rests == proc' = [proc EXCEPT ![q] = Idle]
<1>4. ASSUME StagingFails(q) PROVE Kept(q)
  <2>1. PICK ds \in SUBSET Docs : stored' = stored \cup ds /\ struck' = struck \cup ds
    BY <1>4 DEF StagingFails
  <2>2. /\ UNCHANGED <<row, old, dlock, wlock, made, revived>> /\ Over /\ Rests
        /\ mishaps < MaxMishaps /\ mishaps' = mishaps + 1 /\ At(q, "run")
    BY <1>4 DEF StagingFails, EndRun, Go, Mishap
  <2>3. proc'[q] = Idle
    BY <2>2 DEF TypeOK
  <2>4. TypeOK'
    BY <2>1, <2>2, ConstantsAssumption DEF TypeOK, PC, Idle, NoJob, JobStatus
  <2>5. Frame(q)
    BY <2>1, <2>2, <2>3 DEF Frame, TypeOK, At, Purging, InHand, NoJob, ActiveJobStatuses, Idle
  <2>6. StepOK(q)'
    BY <2>3 DEF StepOK, At, Purging, Idle
  <2> QED
    BY <2>4, <2>5, <2>6
<1>5. ASSUME RunFails(q) PROVE Kept(q)
  <2>2. /\ UNCHANGED <<row, stored, old, dlock, wlock, made, mishaps, struck, revived>>
        /\ Over /\ Rests /\ At(q, "run")
    BY <1>5 DEF RunFails, EndRun, Go
  <2>3. proc'[q] = Idle
    BY <2>2 DEF TypeOK
  <2>4. TypeOK'
    BY <2>2 DEF TypeOK, PC, Idle, NoJob, JobStatus
  <2>5. Frame(q)
    BY <2>2, <2>3 DEF Frame, TypeOK, At, Purging, InHand, NoJob, ActiveJobStatuses, Idle
  <2>6. StepOK(q)'
    BY <2>3 DEF StepOK, At, Purging, Idle
  <2> QED
    BY <2>4, <2>5, <2>6
<1> QED
  BY <1>1, <1>2, <1>3, <1>4, <1>5

\* A process that moves on within the same work.
LEMMA GoAtEffect ==
  ASSUME TypeOK, NEW q \in Procs, NEW pc \in PC, GoAt(q, pc)
  PROVE  /\ proc'[q].pc = pc /\ proc'[q].docs = proc[q].docs
         /\ proc'[q].left = proc[q].left /\ proc'[q].job = proc[q].job
         /\ \A p \in Procs \ {q} : proc'[p] = proc[p]
         /\ proc' \in [Procs -> [pc : PC, docs : SUBSET Docs, left : SUBSET Docs,
                                 job : Jobs \cup {None}]]
<1>1. proc[q] \in [pc : PC, docs : SUBSET Docs, left : SUBSET Docs,
                   job : Jobs \cup {None}]
  BY DEF TypeOK
<1>2. [proc[q] EXCEPT !.pc = pc] \in
        [pc : PC, docs : SUBSET Docs, left : SUBSET Docs, job : Jobs \cup {None}]
  BY <1>1
<1>3. proc' = [proc EXCEPT ![q] = [proc[q] EXCEPT !.pc = pc]]
  BY DEF GoAt, Go
<1> QED
  BY <1>1, <1>2, <1>3 DEF TypeOK

\* A process whose call or transaction is over.
LEMMA RestEffect ==
  ASSUME TypeOK, NEW q \in Procs, Go(q, Idle)
  PROVE  /\ proc'[q] = Idle
         /\ \A p \in Procs \ {q} : proc'[p] = proc[p]
         /\ proc' \in [Procs -> [pc : PC, docs : SUBSET Docs, left : SUBSET Docs,
                                 job : Jobs \cup {None}]]
         /\ StepOK(q)'
         /\ proc'[q].pc \notin InHand \cup Purging
<1>1. proc' = [proc EXCEPT ![q] = Idle]
  BY DEF Go
<1>2. Idle \in [pc : PC, docs : SUBSET Docs, left : SUBSET Docs, job : Jobs \cup {None}]
  BY DEF Idle, PC
<1>3. proc'[q] = Idle
  BY <1>1 DEF TypeOK
<1> QED
  BY <1>1, <1>2, <1>3 DEF TypeOK, StepOK, At, Idle, Purging, InHand

\* The end of a run leaves its job with no needs.
LEMMA EndRunEffect ==
  ASSUME TypeOK, NEW q \in Procs, EndRun(q)
  PROVE  /\ job' \in [Jobs -> [status : JobStatus, inputs : SUBSET Docs]]
         /\ \A j \in Jobs : job[j] = NoJob => job'[j] = NoJob
         /\ \A j \in Jobs : job'[j].status \in ActiveJobStatuses => job'[j] = job[j]
BY DEF TypeOK, EndRun, NoJob, JobStatus, ActiveJobStatuses

LEMMA UnlockEffect ==
  ASSUME TypeOK, NEW q \in Procs
  PROVE  /\ UnlockDocs(q) =>
              /\ dlock' \in [Docs -> Procs \cup {None}]
              /\ \A d \in Docs : dlock'[d] = dlock[d] \/ dlock[d] = q
         /\ UnlockWorkspace(q) =>
              /\ wlock' \in Procs \cup {None}
              /\ wlock' = wlock \/ wlock = q
BY DEF TypeOK, UnlockDocs, UnlockWorkspace

LEMMA RegisterSteps ==
  ASSUME StoreInv, NEW q \in Procs
  PROVE  /\ ReserveQuota(q) => Kept(q)
         /\ CommitDocuments(q) => Kept(q)
         /\ CommitFails(q) => Kept(q)
         /\ CommitReplyLost(q) => Kept(q)
         /\ DiscardObjects(q) => Kept(q)
         /\ DiscardFails(q) => Kept(q)
<1> USE DEF StoreInv, Kept
<1>0. StepOK(q) /\ q # None /\ proc[q].docs \subseteq Docs
  BY NobodyIsNone DEF StepsOK, TypeOK
<1>1. ASSUME ReserveQuota(q) PROVE Kept(q)
  <2>1. /\ UNCHANGED <<row, stored, old, dlock, job, made, mishaps, struck, revived>>
        /\ At(q, "reserve") /\ wlock = None
        /\ \/ GoAt(q, "insert") /\ wlock' = q
           \/ GoAt(q, "discard") /\ wlock' = wlock
    BY <1>1 DEF ReserveQuota
  <2>2. /\ proc'[q].docs = proc[q].docs
        /\ \/ proc'[q].pc = "insert" /\ wlock' = q
           \/ proc'[q].pc = "discard" /\ wlock' = wlock
        /\ \A p \in Procs \ {q} : proc'[p] = proc[p]
        /\ proc' \in [Procs -> [pc : PC, docs : SUBSET Docs, left : SUBSET Docs,
                                job : Jobs \cup {None}]]
    BY <2>1, GoAtEffect DEF PC
  <2>3. TypeOK'
    BY <2>1, <2>2 DEF TypeOK
  <2>4. Frame(q)
    BY <2>1, <2>2 DEF Frame, At, Purging, InHand
  <2>5. StepOK(q)'
    BY <1>0, <2>1, <2>2 DEF StepOK, At, Purging
  <2> QED
    BY <2>3, <2>4, <2>5
<1> DEFINE Written ==
      row' = [d \in Docs |-> IF d \in proc[q].docs THEN "validated" ELSE row[d]]
<1>2. ASSUME CommitDocuments(q) PROVE Kept(q)
  <2>1. /\ UNCHANGED <<stored, old, dlock, made, mishaps, struck, revived>>
        /\ At(q, "insert") /\ Written /\ EndRun(q) /\ UnlockWorkspace(q) /\ Go(q, Idle)
    BY <1>2 DEF CommitDocuments, WriteRows
  <2>2. TypeOK'
    BY <2>1, RestEffect, EndRunEffect, UnlockEffect DEF TypeOK
  <2>3. Frame(q)
    BY <1>0, <2>1, RestEffect, EndRunEffect, UnlockEffect
    DEF Frame, At, Purging, InHand
  <2> QED
    BY <2>1, <2>2, <2>3, RestEffect
<1>3. ASSUME CommitFails(q) PROVE Kept(q)
  <2>1. /\ UNCHANGED <<row, stored, old, dlock, job, made, struck, revived>>
        /\ At(q, "insert") /\ UnlockWorkspace(q) /\ GoAt(q, "discard")
        /\ mishaps < MaxMishaps /\ mishaps' = mishaps + 1
    BY <1>3 DEF CommitFails, Mishap
  <2>2. "discard" \in PC
    BY DEF PC
  <2>3. TypeOK'
    BY <2>1, <2>2, GoAtEffect, UnlockEffect, ConstantsAssumption DEF TypeOK
  <2>4. Frame(q)
    BY <2>1, <2>2, GoAtEffect, UnlockEffect DEF Frame, At, Purging, InHand
  <2>5. StepOK(q)'
    BY <1>0, <2>1, <2>2, GoAtEffect DEF StepOK, At, Purging
  <2> QED
    BY <2>3, <2>4, <2>5
<1>4. ASSUME CommitReplyLost(q) PROVE Kept(q)
  <2>1. /\ UNCHANGED <<stored, old, dlock, made, revived>>
        /\ struck' = struck \cup proc[q].docs
        /\ At(q, "insert") /\ Written /\ EndRun(q) /\ UnlockWorkspace(q) /\ GoAt(q, "discard")
        /\ mishaps < MaxMishaps /\ mishaps' = mishaps + 1
    BY <1>4 DEF CommitReplyLost, Mishap, WriteRows
  <2>2. "discard" \in PC
    BY DEF PC
  <2>3. TypeOK'
    BY <1>0, <2>1, <2>2, GoAtEffect, EndRunEffect, UnlockEffect, ConstantsAssumption
    DEF TypeOK
  <2>4. Frame(q)
    BY <1>0, <2>1, <2>2, GoAtEffect, EndRunEffect, UnlockEffect
    DEF Frame, At, Purging, InHand
  <2>5. StepOK(q)'
    BY <1>0, <2>1, <2>2, GoAtEffect DEF StepOK, At, Purging
  <2> QED
    BY <2>3, <2>4, <2>5
<1>5. ASSUME DiscardObjects(q) PROVE Kept(q)
  <2>1. /\ UNCHANGED <<row, old, dlock, wlock, made, mishaps, struck, revived>>
        /\ At(q, "discard") /\ stored' = stored \ proc[q].docs
        /\ EndRun(q) /\ Go(q, Idle)
    BY <1>5 DEF DiscardObjects
  <2>2. TypeOK'
    BY <2>1, RestEffect, EndRunEffect DEF TypeOK
  <2>3. Frame(q)
    BY <2>1, RestEffect, EndRunEffect DEF Frame, At, Purging, InHand
  <2> QED
    BY <2>1, <2>2, <2>3, RestEffect
<1>6. ASSUME DiscardFails(q) PROVE Kept(q)
  <2>1. /\ UNCHANGED <<row, old, dlock, wlock, made, revived>>
        /\ At(q, "discard") /\ EndRun(q) /\ Go(q, Idle)
        /\ mishaps < MaxMishaps /\ mishaps' = mishaps + 1
    BY <1>6 DEF DiscardFails, Mishap
  <2>2. PICK kept \in SUBSET proc[q].docs :
          stored' = stored \ (proc[q].docs \ kept) /\ struck' = struck \cup kept
    BY <1>6 DEF DiscardFails
  <2>3. TypeOK'
    BY <1>0, <2>1, <2>2, RestEffect, EndRunEffect, ConstantsAssumption DEF TypeOK
  <2>4. Frame(q)
    BY <2>1, <2>2, RestEffect, EndRunEffect DEF Frame, At, Purging, InHand
  <2> QED
    BY <2>1, <2>3, <2>4, RestEffect
<1> QED
  BY <1>1, <1>2, <1>3, <1>4, <1>5, <1>6

\* After one document the sweep is at its next candidate, or over.
LEMMA NextCandidate ==
  ASSUME TypeOK, NEW q \in Procs, NEW d \in Docs, Go(q, AfterDocument(q, d))
  PROVE  /\ proc'[q].pc \in {"idle", "lock"} /\ proc'[q].docs = {}
         /\ proc'[q].left \subseteq proc[q].left
         /\ \A p \in Procs \ {q} : proc'[p] = proc[p]
         /\ proc' \in [Procs -> [pc : PC, docs : SUBSET Docs, left : SUBSET Docs,
                                 job : Jobs \cup {None}]]
<1>1. proc[q].left \subseteq Docs
  BY DEF TypeOK
<1>2. PICK s : s = AfterDocument(q, d)
  OBVIOUS
<1>3. /\ s \in [pc : PC, docs : SUBSET Docs, left : SUBSET Docs, job : Jobs \cup {None}]
      /\ s.pc \in {"idle", "lock"} /\ s.docs = {} /\ s.left \subseteq proc[q].left
  BY <1>1, <1>2 DEF AfterDocument, Idle, PC
<1>4. proc' = [proc EXCEPT ![q] = s]
  BY <1>2 DEF Go
<1> QED
  BY <1>3, <1>4 DEF TypeOK

LEMMA PurgeSteps ==
  ASSUME StoreInv, NEW q \in Procs
  PROVE  /\ DeleteFile(q) => Kept(q)
         /\ StartSweep(q) => Kept(q)
         /\ LockDocument(q) => Kept(q)
         /\ DeleteObject(q) => Kept(q)
         /\ RetireDocument(q) => Kept(q)
         /\ PurgeFails(q) => Kept(q)
<1> USE DEF StoreInv, Kept
<1>0. /\ StepOK(q) /\ q # None
      /\ proc[q].docs \subseteq Docs /\ proc[q].left \subseteq Docs
      /\ Live \subseteq Docs
  BY NobodyIsNone DEF StepsOK, TypeOK, Live
<1> DEFINE Picks(ds) == Go(q, [Idle EXCEPT !.pc = "lock", !.left = ds])
<1>1. ASSUME NEW ds \in SUBSET Live, Picks(ds), At(q, "idle"),
             UNCHANGED <<row, stored, old, dlock, wlock, job, made, mishaps, struck, revived>>
      PROVE  Kept(q)
  <2>1. PICK s : s = [Idle EXCEPT !.pc = "lock", !.left = ds]
    OBVIOUS
  <2>2. /\ s \in [pc : PC, docs : SUBSET Docs, left : SUBSET Docs, job : Jobs \cup {None}]
        /\ s.pc = "lock" /\ s.docs = {} /\ s.left = ds
    BY <1>0, <2>1 DEF Idle, PC
  <2>3. proc' = [proc EXCEPT ![q] = s] /\ proc'[q] = s
    BY <1>1, <2>1 DEF Go, TypeOK
  <2>4. TypeOK'
    BY <1>1, <2>2, <2>3 DEF TypeOK
  <2>5. Frame(q)
    BY <1>1, <2>2, <2>3 DEF Frame, TypeOK, At, Purging, InHand
  <2>6. StepOK(q)'
    BY <1>1, <2>2, <2>3 DEF StepOK, At, Purging, Live
  <2> QED
    BY <2>4, <2>5, <2>6
<1>2. DeleteFile(q) => Kept(q)
  BY <1>1 DEF DeleteFile
<1>3. StartSweep(q) => Kept(q)
  <2>1. Oldest(Expired) \subseteq Live
    BY DEF Oldest, Expired
  <2> QED
    BY <1>1, <2>1 DEF StartSweep
<1>4. ASSUME LockDocument(q) PROVE Kept(q)
  <2>1. PICK d \in proc[q].left :
          /\ dlock[d] = None
          /\ \/ Go(q, AfterDocument(q, d)) /\ dlock' = dlock
             \/ /\ row[d] # "deleted" /\ ~InActiveJob(d)
                /\ dlock' = [dlock EXCEPT ![d] = q]
                /\ Go(q, [proc[q] EXCEPT !.pc = "purge", !.docs = {d}, !.left = @ \ {d}])
    BY <1>4 DEF LockDocument
  <2>2. /\ UNCHANGED <<row, stored, old, wlock, job, made, mishaps, struck, revived>>
        /\ At(q, "lock") /\ d \in Docs /\ \A e \in proc[q].left : row[e] # "absent"
    BY <1>0, <1>4 DEF LockDocument, StepOK, At
  <2>3. CASE Go(q, AfterDocument(q, d)) /\ dlock' = dlock
    <3>1. TypeOK'
      BY <2>2, <2>3, NextCandidate DEF TypeOK
    <3>2. Frame(q)
      BY <2>2, <2>3, NextCandidate DEF Frame, At, Purging, InHand
    <3>3. StepOK(q)'
      BY <2>2, <2>3, NextCandidate DEF StepOK, At, Purging
    <3> QED
      BY <3>1, <3>2, <3>3
  <2>4. CASE /\ row[d] # "deleted" /\ ~InActiveJob(d)
             /\ dlock' = [dlock EXCEPT ![d] = q]
             /\ Go(q, [proc[q] EXCEPT !.pc = "purge", !.docs = {d}, !.left = @ \ {d}])
    <3>1. PICK s : s = [proc[q] EXCEPT !.pc = "purge", !.docs = {d}, !.left = @ \ {d}]
      OBVIOUS
    <3>2. /\ s \in [pc : PC, docs : SUBSET Docs, left : SUBSET Docs, job : Jobs \cup {None}]
          /\ s.pc = "purge" /\ s.docs = {d} /\ s.left = proc[q].left \ {d}
      <4>1. proc[q] \in [pc : PC, docs : SUBSET Docs, left : SUBSET Docs,
                         job : Jobs \cup {None}]
        BY DEF TypeOK
      <4> QED
        BY <2>2, <3>1, <4>1 DEF PC
    <3>3. proc' = [proc EXCEPT ![q] = s] /\ proc'[q] = s
      BY <2>4, <3>1 DEF Go, TypeOK
    <3>4. TypeOK'
      BY <2>2, <2>4, <3>2, <3>3 DEF TypeOK
    <3>5. Frame(q)
      BY <2>1, <2>2, <2>4, <3>2, <3>3 DEF Frame, TypeOK, At, Purging, InHand
    <3>6. row'[d] = "validated" /\ dlock'[d] = q /\ ~Needed(d)'
      BY <2>1, <2>2, <2>4 DEF TypeOK, Needed, InActiveJob
    <3>7. StepOK(q)'
      BY <2>2, <3>2, <3>3, <3>6 DEF StepOK, At, Purging
    <3> QED
      BY <3>4, <3>5, <3>7
  <2> QED
    BY <2>1, <2>3, <2>4
<1>5. ASSUME DeleteObject(q) PROVE Kept(q)
  <2>1. /\ UNCHANGED <<row, old, dlock, wlock, job, made, mishaps, struck, revived>>
        /\ At(q, "purge") /\ stored' = stored \ proc[q].docs /\ GoAt(q, "retire")
        /\ "retire" \in PC
    BY <1>5 DEF DeleteObject, PC
  <2>2. TypeOK'
    BY <2>1, GoAtEffect DEF TypeOK
  <2>3. Frame(q)
    BY <2>1, GoAtEffect DEF Frame, At, Purging, InHand
  <2>4. \A d \in Docs : Needed(d)' = Needed(d)
    BY <2>1 DEF Needed
  <2>5. StepOK(q)'
    BY <1>0, <2>1, <2>4, GoAtEffect DEF StepOK, At, Purging
  <2> QED
    BY <2>2, <2>3, <2>5
<1>6. ASSUME RetireDocument(q) PROVE Kept(q)
  <2>1. /\ UNCHANGED <<stored, old, wlock, job, made, mishaps, struck, revived>>
        /\ At(q, "retire") /\ UnlockDocs(q)
        /\ row' = [d \in Docs |-> IF d \in proc[q].docs THEN "deleted" ELSE row[d]]
    BY <1>6 DEF RetireDocument, Retired
  <2>2. PICK d \in Docs : Go(q, AfterDocument(q, d))
    BY <1>0, <1>6 DEF RetireDocument
  <2>3. TypeOK'
    BY <2>1, <2>2, NextCandidate, UnlockEffect DEF TypeOK
  <2>4. Frame(q)
    BY <1>0, <2>1, <2>2, NextCandidate, UnlockEffect DEF Frame, At, Purging, InHand
  <2>5. StepOK(q)'
    BY <1>0, <2>1, <2>2, NextCandidate DEF StepOK, At, Purging
  <2> QED
    BY <2>3, <2>4, <2>5
<1>7. ASSUME PurgeFails(q) PROVE Kept(q)
  <2>1. /\ UNCHANGED <<row, old, wlock, job, made, revived>>
        /\ At(q, "purge") \/ At(q, "retire")
        /\ mishaps < MaxMishaps /\ mishaps' = mishaps + 1
        /\ stored' \in {stored, stored \ proc[q].docs}
        /\ struck' = struck \cup proc[q].docs
        /\ UnlockDocs(q) /\ Go(q, Idle)
    BY <1>7 DEF PurgeFails, Mishap
  <2>2. TypeOK'
    BY <1>0, <2>1, RestEffect, UnlockEffect, ConstantsAssumption DEF TypeOK
  <2>3. Frame(q)
    BY <2>1, RestEffect, UnlockEffect DEF Frame, At, Purging, InHand
  <2> QED
    BY <2>1, <2>2, <2>3, RestEffect
<1> QED
  BY <1>2, <1>3, <1>4, <1>5, <1>6, <1>7

LEMMA CreateSteps ==
  ASSUME StoreInv, NEW q \in Procs
  PROVE  /\ CreateJob(q) => Kept(q)
         /\ LockInput(q) => Kept(q)
         /\ CreatorAborted(q) => Kept(q)
         /\ Crash(q) => Kept(q)
<1> USE DEF StoreInv, Kept
<1>0. /\ StepOK(q) /\ q # None
      /\ proc[q].docs \subseteq Docs /\ proc[q].left \subseteq Docs
  BY NobodyIsNone DEF StepsOK, TypeOK
<1>1. ASSUME CreateJob(q) PROVE Kept(q)
  <2>1. PICK j \in Jobs, ds \in SUBSET Docs :
          /\ job[j] = NoJob
          /\ Go(q, [pc |-> "attach", docs |-> {}, left |-> ds, job |-> j])
    BY <1>1 DEF CreateJob
  <2>2. /\ UNCHANGED <<row, stored, old, dlock, job, made, mishaps, struck, revived>>
        /\ At(q, "idle") /\ wlock = None /\ wlock' = q
    BY <1>1 DEF CreateJob
  <2>3. /\ proc' = [proc EXCEPT ![q] =
                     [pc |-> "attach", docs |-> {}, left |-> ds, job |-> j]]
        /\ proc'[q] = [pc |-> "attach", docs |-> {}, left |-> ds, job |-> j]
    BY <2>1 DEF Go, TypeOK
  <2>4. TypeOK'
    BY <2>2, <2>3 DEF TypeOK, PC
  <2>5. Frame(q)
    BY <2>2, <2>3 DEF Frame, TypeOK, At, Purging, InHand
  <2>6. StepOK(q)'
    BY <2>1, <2>2, <2>3 DEF StepOK, At, Purging
  <2> QED
    BY <2>4, <2>5, <2>6
<1>2. ASSUME LockInput(q) PROVE Kept(q)
  <2>1. PICK d \in proc[q].left :
          /\ dlock[d] = None /\ dlock' = [dlock EXCEPT ![d] = q]
          /\ Go(q, [proc[q] EXCEPT !.left = @ \ {d}, !.docs = @ \cup {d}])
    BY <1>2 DEF LockInput
  <2>2. /\ UNCHANGED <<row, stored, old, wlock, job, made, mishaps, struck, revived>>
        /\ At(q, "attach") /\ d \in Docs
    BY <1>0, <1>2 DEF LockInput
  <2>3. PICK s : s = [proc[q] EXCEPT !.left = @ \ {d}, !.docs = @ \cup {d}]
    OBVIOUS
  <2>4. /\ s \in [pc : PC, docs : SUBSET Docs, left : SUBSET Docs, job : Jobs \cup {None}]
        /\ s.pc = "attach" /\ s.docs = proc[q].docs \cup {d} /\ s.job = proc[q].job
    <3>1. proc[q] \in [pc : PC, docs : SUBSET Docs, left : SUBSET Docs,
                       job : Jobs \cup {None}]
      BY DEF TypeOK
    <3> QED
      BY <2>2, <2>3, <3>1 DEF At
  <2>5. proc' = [proc EXCEPT ![q] = s] /\ proc'[q] = s
    BY <2>1, <2>3 DEF Go, TypeOK
  <2>6. TypeOK'
    BY <2>1, <2>2, <2>4, <2>5 DEF TypeOK
  <2>7. Frame(q)
    BY <2>1, <2>2, <2>4, <2>5 DEF Frame, TypeOK, At, Purging, InHand
  <2>8. \A e \in s.docs : dlock'[e] = q
    BY <1>0, <2>1, <2>2, <2>4 DEF StepOK, TypeOK
  <2>9. StepOK(q)'
    BY <1>0, <2>2, <2>4, <2>5, <2>8 DEF StepOK, At, Purging
  <2> QED
    BY <2>6, <2>7, <2>9
<1>3. ASSUME CreatorAborted(q) PROVE Kept(q)
  <2>1. /\ UNCHANGED <<row, stored, old, job, made, mishaps, struck, revived>>
        /\ UnlockDocs(q) /\ UnlockWorkspace(q) /\ Go(q, Idle) /\ At(q, "attach")
    BY <1>3 DEF CreatorAborted, Deadlocked
  <2>2. TypeOK'
    BY <2>1, RestEffect, UnlockEffect DEF TypeOK
  <2>3. Frame(q)
    BY <2>1, RestEffect, UnlockEffect DEF Frame, At, Purging, InHand
  <2> QED
    BY <2>1, <2>2, <2>3, RestEffect
<1>4. ASSUME Crash(q) PROVE Kept(q)
  <2>1. /\ UNCHANGED <<row, stored, old, job, made, revived>>
        /\ UnlockDocs(q) /\ UnlockWorkspace(q) /\ Go(q, Idle)
        /\ mishaps < MaxMishaps /\ mishaps' = mishaps + 1
        /\ struck' = IF At(q, "attach") THEN struck ELSE struck \cup proc[q].docs
    BY <1>4 DEF Crash, Mishap
  <2>2. TypeOK'
    BY <1>0, <2>1, RestEffect, UnlockEffect, ConstantsAssumption DEF TypeOK
  <2>3. Frame(q)
    BY <2>1, RestEffect, UnlockEffect DEF Frame, At, Purging, InHand
  <2> QED
    BY <2>1, <2>2, <2>3, RestEffect
<1> QED
  BY <1>1, <1>2, <1>3, <1>4

-----------------------------------------------------------------------------
Acts(q) == Starts(q) \/ StartSweep(q) \/ Step(q) \/ Fails(q)

LEMMA ActsKeep ==
  ASSUME StoreInv, NEW q \in Procs, Acts(q)
  PROVE  StoreInv' /\ (Kept(q) \/ AttachInputs(q))
<1>1. Kept(q) \/ AttachInputs(q)
  BY UploadSteps, RegisterSteps, PurgeSteps, CreateSteps DEF Acts, Starts, Step, Fails
<1>2. Kept(q) => StoreInv'
  BY FrameKeeps DEF Kept
<1> QED
  BY <1>1, <1>2, AttachInputsKeeps

LEMMA JobStepsKeep ==
  ASSUME StoreInv, NEW j \in Jobs, CancelJob(j) \/ EnqueueRefused(j) \/ ResumeExistingJob(j)
  PROVE  StoreInv'
<1>1. UNCHANGED <<row, stored, old, dlock, wlock, made, proc, mishaps, struck>>
  BY DEF CancelJob, EnqueueRefused, ResumeExistingJob
<1>2. \/ job' = [job EXCEPT ![j] = NoJob] /\ revived' = revived
      \/ /\ job[j].status = "queued" /\ revived' = revived
         /\ job' = [job EXCEPT ![j].status = "unqueued"]
      \/ /\ job[j].status = "unqueued" /\ revived' = revived \cup {j}
         /\ job' = [job EXCEPT ![j].status = "queued"]
  BY DEF CancelJob, EnqueueRefused, ResumeExistingJob
<1>3. /\ job' \in [Jobs -> [status : JobStatus, inputs : SUBSET Docs]]
      /\ revived' \subseteq Jobs
  BY <1>2 DEF StoreInv, TypeOK, NoJob, JobStatus
<1>4. ASSUME NEW i \in Jobs, job[i] = NoJob PROVE job'[i] = NoJob
  <2>1. job[i].status = "none"
    BY <1>4 DEF NoJob
  <2> QED
    BY <1>2, <1>4, <2>1 DEF StoreInv, TypeOK
<1>5. \A i \in Jobs \ revived' :
        /\ i \notin revived
        /\ job'[i].status \in ActiveJobStatuses =>
             job[i].status \in ActiveJobStatuses /\ job'[i].inputs = job[i].inputs
  BY <1>2 DEF StoreInv, TypeOK, NoJob, ActiveJobStatuses
<1>6. TypeOK'
  BY <1>1, <1>3 DEF StoreInv, TypeOK
<1> QED
  BY <1>1, <1>4, <1>5, <1>6, JobsMoveKeeps

LEMMA ExpireKeeps ==
  ASSUME StoreInv, NEW d \in Docs, Expire(d)
  PROVE  StoreInv'
<1>1. /\ UNCHANGED <<row, stored, dlock, wlock, job, made, proc, mishaps, struck, revived>>
      /\ old' \subseteq Docs
  BY DEF Expire, StoreInv, TypeOK
<1>2. TypeOK'
  BY <1>1 DEF StoreInv, TypeOK
<1> QED
  BY <1>1, <1>2, JobsMoveKeeps

LEMMA StoreStep == StoreInv /\ [Next]_vars => StoreInv'
<1> SUFFICES ASSUME StoreInv, [Next]_vars PROVE StoreInv'
  OBVIOUS
<1>1. CASE UNCHANGED vars
  <2>1. TypeOK'
    BY <1>1 DEF vars, StoreInv, TypeOK
  <2> QED
    BY <1>1, <2>1, JobsMoveKeeps DEF vars
<1>2. CASE Next
  BY <1>2, ActsKeep, JobStepsKeep, ExpireKeeps DEF Next, Acts
<1> QED
  BY <1>1, <1>2

\* Every behaviour keeps the invariant: TypeOK, what the steps rely on, and
\* InputsKept.
THEOREM StoreSafe == Spec => []StoreInv
BY InitStore, StoreStep, PTL DEF Spec

\* The rows, objects, locks and processes keep their types.
THEOREM StoreTyped == Spec => []TypeOK
<1>1. StoreInv => TypeOK
  BY DEF StoreInv
<1> QED
  BY <1>1, StoreSafe, PTL

\* From the commit of a job on, no delete, no sweep and no failed
\* registration (purge_document, _discard_staged_outputs) takes one of its
\* inputs away while it is queued or running.
THEOREM InputsSafe == Spec => []InputsKept
<1>1. StoreInv => InputsKept
  BY DEF StoreInv
<1> QED
  BY <1>1, StoreSafe, PTL

-----------------------------------------------------------------------------
\* The document limit.  Only ReserveQuota lets a process on to its insert.
LEMMA OnlyReserveInserts ==
  ASSUME TypeOK, NEW q \in Procs, Acts(q), At(q, "insert")'
  PROVE  ReserveQuota(q)
<1>1. ~Go(q, Idle)
  BY RestEffect DEF At, Idle
<1>2. ~GoAt(q, "discard") /\ ~GoAt(q, "retire")
  BY GoAtEffect DEF At, PC
<1>3. ASSUME NEW d \in Docs PROVE ~Go(q, AfterDocument(q, d))
  BY <1>3, NextCandidate DEF At
<1>4. /\ proc[q].docs \subseteq Docs /\ proc[q].left \subseteq Docs
      /\ proc[q] \in [pc : PC, docs : SUBSET Docs, left : SUBSET Docs, job : Jobs \cup {None}]
      /\ proc'[q].pc = "insert"
  BY DEF TypeOK, At
<1>5. ASSUME NEW s, s.pc # "insert", proc' = [proc EXCEPT ![q] = s] PROVE FALSE
  BY <1>4, <1>5 DEF TypeOK
<1>6. ~UploadFile(q) /\ ~StartRun(q) /\ ~DeleteFile(q) /\ ~CreateJob(q) /\ ~StartSweep(q)
  <2>1. ASSUME UploadFile(q) PROVE FALSE
    <3>1. PICK d : proc' = [proc EXCEPT ![q] = [Idle EXCEPT !.pc = "reserve", !.docs = {d}]]
      BY <2>1 DEF UploadFile, Go
    <3> QED
      BY <1>5, <3>1 DEF Idle
  <2>2. ASSUME StartRun(q) PROVE FALSE
    <3>1. PICK j : proc' = [proc EXCEPT ![q] = [Idle EXCEPT !.pc = "run", !.job = j]]
      BY <2>2 DEF StartRun, Go
    <3> QED
      BY <1>5, <3>1 DEF Idle
  <2>3. ASSUME DeleteFile(q) \/ StartSweep(q) PROVE FALSE
    <3>1. PICK ds : proc' = [proc EXCEPT ![q] = [Idle EXCEPT !.pc = "lock", !.left = ds]]
      BY <2>3 DEF DeleteFile, StartSweep, Go
    <3> QED
      BY <1>5, <3>1 DEF Idle
  <2>4. ASSUME CreateJob(q) PROVE FALSE
    <3>1. PICK j, ds : proc' = [proc EXCEPT ![q] =
                         [pc |-> "attach", docs |-> {}, left |-> ds, job |-> j]]
      BY <2>4 DEF CreateJob, Go
    <3> QED
      BY <1>5, <3>1
  <2> QED
    BY <2>1, <2>2, <2>3, <2>4
<1>7. ~StageOutputs(q) /\ ~LockInput(q)
  <2>1. ASSUME StageOutputs(q) PROVE FALSE
    <3>1. PICK ds : Go(q, [proc[q] EXCEPT !.pc = "reserve", !.docs = ds])
      BY <2>1 DEF StageOutputs
    <3>2. PICK s : s = [proc[q] EXCEPT !.pc = "reserve", !.docs = ds]
      OBVIOUS
    <3>3. s.pc = "reserve"
      BY <1>4, <3>2
    <3> QED
      BY <1>5, <3>1, <3>2, <3>3 DEF Go
  <2>2. ASSUME LockInput(q) PROVE FALSE
    <3>1. PICK s : proc' = [proc EXCEPT ![q] = s] /\ s.pc = "attach"
      BY <1>4, <2>2 DEF LockInput, Go, At
    <3> QED
      BY <1>5, <3>1
  <2> QED
    BY <2>1, <2>2
<1>8. ~LockDocument(q) /\ ~RetireDocument(q)
  <2>1. ASSUME LockDocument(q) PROVE FALSE
    <3>1. PICK d \in Docs :
            Go(q, [proc[q] EXCEPT !.pc = "purge", !.docs = {d}, !.left = @ \ {d}])
      BY <1>3, <1>4, <2>1 DEF LockDocument
    <3>2. PICK s : s = [proc[q] EXCEPT !.pc = "purge", !.docs = {d}, !.left = @ \ {d}]
      OBVIOUS
    <3>3. s.pc = "purge"
      BY <1>4, <3>2
    <3> QED
      BY <1>5, <3>1, <3>2, <3>3 DEF Go
  <2> QED
    BY <1>3, <1>4, <2>1 DEF RetireDocument
<1>9. ~AttachInputs(q) /\ ~RunFails(q) /\ ~CommitDocuments(q) /\ ~DiscardObjects(q)
      /\ ~DeleteObject(q) /\ ~CreatorAborted(q) /\ ~Fails(q)
  BY <1>1, <1>2
  DEF AttachInputs, RunFails, CommitDocuments, DiscardObjects, DeleteObject, CreatorAborted,
      Fails, StagingFails, CommitFails, CommitReplyLost, DiscardFails, PurgeFails, Crash
<1> QED
  BY <1>6, <1>7, <1>8, <1>9 DEF Acts, Starts, Step

LEMMA LiveFinite == IsFiniteSet(Live) /\ Cardinality(Live) \in Nat
<1>1. Live \subseteq Docs
  BY DEF Live
<1> QED
  BY <1>1, ConstantsAssumption, FS_Subset, FS_CardinalityType

LEMMA FrameKeepsCount ==
  ASSUME StoreInv, CountInv, NEW q \in Procs, Frame(q), TypeOK',
         At(q, "insert")' => ReserveQuota(q)
  PROVE  CountInv'
<1> USE DEF StoreInv, CountInv
<1>1. StepOK(q) /\ proc[q].docs \subseteq Docs
  BY DEF StepsOK, TypeOK
<1>2. CASE At(q, "insert")
  <2>1. \A p \in Procs : ~At(p, "insert")'
    BY <1>1, <1>2 DEF StepsOK, StepOK, Frame, ReserveQuota, At
  <2>2. Live' \subseteq Live \cup proc[q].docs
    BY DEF Frame, Live
  <2>3. IsFiniteSet(proc[q].docs)
    BY <1>1, ConstantsAssumption, FS_Subset
  <2>4. Cardinality(proc[q].docs) \in Nat
    BY <2>3, FS_CardinalityType
  <2>5. /\ IsFiniteSet(Live \cup proc[q].docs)
        /\ Cardinality(Live \cup proc[q].docs) <= Cardinality(Live) + Cardinality(proc[q].docs)
    <3>1. /\ IsFiniteSet(Live \cap proc[q].docs)
          /\ Cardinality(Live \cap proc[q].docs) \in Nat
      BY LiveFinite, FS_Subset, FS_CardinalityType
    <3>2. /\ IsFiniteSet(Live \cup proc[q].docs)
          /\ Cardinality(Live \cup proc[q].docs) =
               Cardinality(Live) + Cardinality(proc[q].docs)
                 - Cardinality(Live \cap proc[q].docs)
      BY <2>3, LiveFinite, FS_Union
    <3> QED
      BY <2>4, <3>1, <3>2, LiveFinite
  <2>6. Cardinality(Live') <= Cardinality(Live \cup proc[q].docs)
    BY <2>2, <2>5, FS_Subset
  <2>7. /\ Cardinality(Live \cup proc[q].docs) \in Nat /\ Cardinality(Live') \in Nat
    BY <2>2, <2>5, FS_Subset, FS_CardinalityType
  <2>8. Cardinality(Live') <= DocLimit
    BY <1>2, <2>4, <2>5, <2>6, <2>7, LiveFinite, ConstantsAssumption DEF RoomHolds
  <2> QED
    BY <2>1, <2>8 DEF RoomHolds, DocumentLimitHolds
<1>3. CASE ~At(q, "insert")
  <2>1. Live' \subseteq Live
    BY <1>3 DEF Frame, Live
  <2>2. Cardinality(Live') <= Cardinality(Live) /\ Cardinality(Live') \in Nat
    BY <2>1, LiveFinite, FS_Subset, FS_CardinalityType
  <2>3. ASSUME NEW p \in Procs, At(p, "insert")'
        PROVE  /\ Cardinality(Live) + Cardinality(proc'[p].docs) <= DocLimit
               /\ Cardinality(proc'[p].docs) \in Nat
    <3>1. proc'[p].docs \subseteq Docs
      BY DEF TypeOK
    <3>2. Cardinality(proc'[p].docs) \in Nat
      BY <3>1, ConstantsAssumption, FS_Subset, FS_CardinalityType
    <3>3. CASE p = q
      <4>1. ReserveQuota(q)
        BY <2>3, <3>3
      <4>2. ~GoAt(q, "discard")
        BY <2>3, <3>3, GoAtEffect DEF At, PC
      <4>3. Cardinality(Live) + Cardinality(proc[q].docs) <= DocLimit /\ GoAt(q, "insert")
        BY <4>1, <4>2 DEF ReserveQuota, WithinDocumentQuota
      <4>4. proc'[q].docs = proc[q].docs
        BY <4>3, GoAtEffect DEF PC
      <4> QED
        BY <3>2, <3>3, <4>3, <4>4
    <3>4. CASE p # q
      BY <2>3, <3>2, <3>4 DEF Frame, RoomHolds, At
    <3> QED
      BY <3>3, <3>4
  <2>4. RoomHolds'
    <3> SUFFICES ASSUME NEW p \in Procs, At(p, "insert")'
                 PROVE  Cardinality(Live') + Cardinality(proc'[p].docs) <= DocLimit
      BY DEF RoomHolds
    <3> QED
      BY <2>2, <2>3, LiveFinite, ConstantsAssumption
  <2>5. DocumentLimitHolds'
    BY <2>2, LiveFinite, ConstantsAssumption DEF DocumentLimitHolds
  <2> QED
    BY <2>4, <2>5
<1> QED
  BY <1>2, <1>3

LEMMA SameRowsKeepCount ==
  ASSUME CountInv, row' = row,
         \A p \in Procs : At(p, "insert")' => proc'[p] = proc[p]
  PROVE  CountInv'
<1>1. Live' = Live
  BY DEF Live
<1> QED
  BY <1>1 DEF CountInv, RoomHolds, DocumentLimitHolds, At

LEMMA CountStep == StoreInv /\ CountInv /\ [Next]_vars => CountInv'
<1> SUFFICES ASSUME StoreInv, CountInv, [Next]_vars PROVE CountInv'
  OBVIOUS
<1>1. ASSUME NEW q \in Procs, Acts(q) PROVE CountInv'
  <2>1. At(q, "insert")' => ReserveQuota(q)
    BY <1>1, OnlyReserveInserts DEF StoreInv
  <2>2. CASE Kept(q)
    BY <2>1, <2>2, FrameKeepsCount DEF Kept
  <2>3. CASE AttachInputs(q)
    <3>1. row' = row /\ Go(q, Idle)
      BY <2>3 DEF AttachInputs
    <3>2. \A p \in Procs : At(p, "insert")' => proc'[p] = proc[p]
      BY <3>1, RestEffect DEF StoreInv, At, Idle
    <3> QED
      BY <3>1, <3>2, SameRowsKeepCount
  <2> QED
    BY <1>1, <2>2, <2>3, ActsKeep
<1>2. ASSUME NEW j \in Jobs, CancelJob(j) \/ EnqueueRefused(j) \/ ResumeExistingJob(j)
      PROVE  CountInv'
  BY <1>2, SameRowsKeepCount DEF CancelJob, EnqueueRefused, ResumeExistingJob
<1>3. ASSUME NEW d \in Docs, Expire(d) PROVE CountInv'
  BY <1>3, SameRowsKeepCount DEF Expire
<1>4. CASE UNCHANGED vars
  BY <1>4, SameRowsKeepCount DEF vars
<1> QED
  BY <1>1, <1>2, <1>3, <1>4 DEF Next, Acts

LEMMA InitCount == Init => CountInv
<1> SUFFICES ASSUME Init PROVE CountInv
  OBVIOUS
<1>1. Live = {}
  BY DEF Init, Live
<1>2. Cardinality(Live) <= DocLimit
  BY <1>1, FS_EmptySet, ConstantsAssumption
<1> QED
  BY <1>2 DEF Init, CountInv, RoomHolds, DocumentLimitHolds, At, Idle

\* Uploads and registrations that race never overrun the workspace's limit:
\* whoever inserts holds the workspace row since it counted
\* (enforce_document_quota).
THEOREM LimitSafe == Spec => []DocumentLimitHolds
<1>1. CountInv => DocumentLimitHolds
  BY DEF CountInv
<1> QED
  BY <1>1, InitCount, CountStep, StoreSafe, PTL DEF Spec

-----------------------------------------------------------------------------
(* BytesMatchRows, from the invariant above and two more facts: which      *)
(* documents a process has in its hands at each step, and that bytes       *)
(* without a row are in somebody's.                                        *)

HandsExact(p) ==
  /\ proc[p].pc \in {"idle", "run", "lock"} => proc[p].docs = {}
  /\ proc[p].pc \in Purging => \E d \in Docs : proc[p].docs = {d}
  /\ At(p, "retire") => proc[p].docs \cap stored = {}
  /\ At(p, "attach") => \A d \in proc[p].docs \cup proc[p].left : row[d] # "absent"

NoStrayBytes ==
  \A d \in Docs \ struck :
    /\ row[d] = "deleted" => d \notin stored
    /\ d \in stored /\ row[d] = "absent" => \E p \in Procs : d \in proc[p].docs

BytesInv == NoStrayBytes /\ \A p \in Procs : HandsExact(p)

\* What every step of q, AttachInputs too, leaves to the others.
Spares(q) ==
  /\ \A p \in Procs \ {q} : proc'[p] = proc[p]
  /\ \A d \in Docs : row[d] # "absent" => row'[d] # "absent"
  /\ \A d \in Docs : row'[d] = "deleted" =>
       row[d] = "deleted" \/ (At(q, "retire") /\ d \in proc[q].docs)
  /\ \A d \in struck \ struck' : Fresh(d)

\* The bytes q adds stay in its hands, and it lets go of none that nobody
\* knows of, mishaps aside.
Minds(q) ==
  /\ \A d \in stored' \ stored : Fresh(d) /\ d \in proc'[q].docs \cup struck'
  /\ \A d \in proc[q].docs \ proc'[q].docs :
       d \notin stored' \/ d \in struck' \/ row'[d] # "absent"

-----------------------------------------------------------------------------
LEMMA MindingKeeps ==
  ASSUME StoreInv, BytesInv, NEW q \in Procs, Spares(q), Minds(q), HandsExact(q)'
  PROVE  BytesInv'
<1> USE DEF StoreInv, BytesInv
<1>1. ASSUME NEW p \in Procs, p # q PROVE HandsExact(p)'
  <2>1. proc'[p] = proc[p] /\ HandsExact(p)
    BY <1>1 DEF Spares
  <2>2. proc[p].docs \subseteq Docs /\ proc[p].left \subseteq Docs
    BY DEF TypeOK
  <2>3. At(p, "retire") => proc[p].docs \cap stored' = {}
    BY <2>1 DEF HandsExact, Minds, Fresh
  <2> QED
    BY <2>1, <2>2, <2>3 DEF HandsExact, Spares, At
<1>2. ASSUME NEW d \in Docs \ struck', row'[d] = "deleted" PROVE d \notin stored'
  <2>1. d \in struck => row[d] = "absent"
    BY DEF Spares, Fresh
  <2>2. CASE row[d] = "deleted"
    BY <2>1, <2>2 DEF NoStrayBytes, Minds, Fresh
  <2>3. CASE At(q, "retire") /\ d \in proc[q].docs
    BY <2>3 DEF HandsExact, Minds, Fresh
  <2> QED
    BY <1>2, <2>2, <2>3 DEF Spares
<1>3. ASSUME NEW d \in Docs \ struck', d \in stored', row'[d] = "absent"
      PROVE  \E p \in Procs : d \in proc'[p].docs
  <2>1. CASE d \in proc'[q].docs
    BY <2>1
  <2>2. CASE d \notin proc'[q].docs
    <3>1. d \in stored /\ d \notin struck /\ row[d] = "absent" /\ d \notin proc[q].docs
      BY <1>3, <2>2 DEF Minds, Spares, Fresh
    <3>2. PICK p \in Procs : d \in proc[p].docs
      BY <3>1 DEF NoStrayBytes
    <3> QED
      BY <3>1, <3>2 DEF Spares
  <2> QED
    BY <2>1, <2>2
<1> QED
  BY <1>1, <1>2, <1>3 DEF NoStrayBytes

LEMMA FrameSpares ==
  ASSUME StoreInv, NEW q \in Procs, Frame(q)
  PROVE  Spares(q)
<1>1. StepOK(q)
  BY DEF StoreInv, StepsOK
<1> QED
  BY <1>1 DEF Frame, Spares, StepOK, At, Purging

\* Nothing is added, and what q lets go of is accounted for.
LEMMA GoAtMinds ==
  ASSUME TypeOK, NEW q \in Procs, stored' \subseteq stored,
         proc'[q].docs = proc[q].docs
  PROVE  Minds(q)
BY DEF Minds

LEMMA RestMinds ==
  ASSUME TypeOK, NEW q \in Procs, stored' \subseteq stored, Go(q, Idle),
         \A d \in proc[q].docs : d \notin stored' \/ d \in struck' \/ row'[d] # "absent"
  PROVE  Minds(q) /\ HandsExact(q)'
<1>1. proc'[q] = Idle
  BY RestEffect
<1> QED
  BY <1>1 DEF Minds, HandsExact, Idle, At, Purging

Tidy(q) == Minds(q) /\ HandsExact(q)'

LEMMA UploadTidy ==
  ASSUME StoreInv, BytesInv, NEW q \in Procs
  PROVE  /\ UploadFile(q) => Tidy(q)
         /\ StartRun(q) => Tidy(q)
         /\ StageOutputs(q) => Tidy(q)
         /\ StagingFails(q) => Tidy(q)
         /\ RunFails(q) => Tidy(q)
<1> USE DEF StoreInv, BytesInv, Tidy
<1>0. HandsExact(q) /\ TypeOK
  OBVIOUS
<1>1. ASSUME UploadFile(q) PROVE Tidy(q)
  <2>1. PICK d \in Docs :
          /\ Fresh(d) /\ stored' = stored \cup {d}
          /\ proc' = [proc EXCEPT ![q] = [Idle EXCEPT !.pc = "reserve", !.docs = {d}]]
    BY <1>1 DEF UploadFile, Go
  <2>2. proc'[q].pc = "reserve" /\ proc'[q].docs = {d} /\ proc[q].docs = {}
    BY <1>0, <1>1, <2>1 DEF TypeOK, Idle, UploadFile, At, HandsExact
  <2> QED
    BY <2>1, <2>2 DEF Minds, HandsExact, At, Purging
<1>2. ASSUME StartRun(q) PROVE Tidy(q)
  <2>1. PICK j : proc' = [proc EXCEPT ![q] = [Idle EXCEPT !.pc = "run", !.job = j]]
    BY <1>2 DEF StartRun, Go
  <2>2. /\ proc'[q].pc = "run" /\ proc'[q].docs = {} /\ proc[q].docs = {}
        /\ stored' = stored
    BY <1>0, <1>2, <2>1 DEF TypeOK, Idle, StartRun, At, HandsExact
  <2> QED
    BY <2>2 DEF Minds, HandsExact, At, Purging
<1>3. ASSUME StageOutputs(q) PROVE Tidy(q)
  <2>1. PICK ds \in SUBSET Docs :
          /\ \A d \in ds : Fresh(d)
          /\ stored' = stored \cup ds
          /\ proc' = [proc EXCEPT ![q] = [proc[q] EXCEPT !.pc = "reserve", !.docs = ds]]
    BY <1>3 DEF StageOutputs, Go
  <2>2. proc'[q].pc = "reserve" /\ proc'[q].docs = ds
    BY <2>1 DEF TypeOK
  <2>3. proc[q].docs = {}
    BY <1>0, <1>3 DEF StageOutputs, At, HandsExact
  <2> QED
    BY <2>1, <2>2, <2>3 DEF Minds, HandsExact, At, Purging
<1>4. ASSUME StagingFails(q) PROVE Tidy(q)
  <2>1. PICK ds \in SUBSET Docs :
          /\ \A d \in ds : Fresh(d)
          /\ stored' = stored \cup ds /\ struck' = struck \cup ds
    BY <1>4 DEF StagingFails
  <2>2. proc'[q] = Idle /\ proc[q].docs = {}
    BY <1>0, <1>4, RestEffect DEF StagingFails, At, HandsExact
  <2> QED
    BY <2>1, <2>2 DEF Minds, HandsExact, At, Purging, Idle
<1>5. ASSUME RunFails(q) PROVE Tidy(q)
  <2>1. stored' = stored /\ Go(q, Idle) /\ proc[q].docs = {}
    BY <1>0, <1>5 DEF RunFails, At, HandsExact
  <2> QED
    BY <2>1, RestMinds
<1> QED
  BY <1>1, <1>2, <1>3, <1>4, <1>5

LEMMA RegisterTidy ==
  ASSUME StoreInv, BytesInv, NEW q \in Procs
  PROVE  /\ ReserveQuota(q) => Tidy(q)
         /\ CommitDocuments(q) => Tidy(q)
         /\ CommitFails(q) => Tidy(q)
         /\ CommitReplyLost(q) => Tidy(q)
         /\ DiscardObjects(q) => Tidy(q)
         /\ DiscardFails(q) => Tidy(q)
<1> USE DEF StoreInv, Tidy
<1>0. proc[q].docs \subseteq Docs /\ TypeOK /\ "insert" \in PC /\ "discard" \in PC
  BY DEF TypeOK, PC
<1>1. ASSUME stored' = stored, GoAt(q, "insert") \/ GoAt(q, "discard") PROVE Tidy(q)
  <2>1. proc'[q].pc \in {"insert", "discard"} /\ proc'[q].docs = proc[q].docs
    BY <1>0, <1>1, GoAtEffect
  <2> QED
    BY <1>1, <2>1, GoAtMinds DEF HandsExact, At, Purging
<1>2. ReserveQuota(q) => Tidy(q)
  BY <1>1 DEF ReserveQuota
<1>3. CommitFails(q) => Tidy(q)
  BY <1>1 DEF CommitFails
<1>4. CommitReplyLost(q) => Tidy(q)
  BY <1>1 DEF CommitReplyLost
<1>5. ASSUME CommitDocuments(q) PROVE Tidy(q)
  <2>1. stored' = stored /\ Go(q, Idle) /\ \A d \in proc[q].docs : row'[d] # "absent"
    BY <1>0, <1>5 DEF CommitDocuments, WriteRows
  <2> QED
    BY <2>1, RestMinds
<1>6. ASSUME DiscardObjects(q) PROVE Tidy(q)
  <2>1. stored' = stored \ proc[q].docs /\ Go(q, Idle)
    BY <1>6 DEF DiscardObjects
  <2> QED
    BY <2>1, RestMinds
<1>7. ASSUME DiscardFails(q) PROVE Tidy(q)
  <2>1. PICK kept \in SUBSET proc[q].docs :
          stored' = stored \ (proc[q].docs \ kept) /\ struck' = struck \cup kept
    BY <1>7 DEF DiscardFails
  <2>2. Go(q, Idle)
    BY <1>7 DEF DiscardFails
  <2> QED
    BY <2>1, <2>2, RestMinds
<1> QED
  BY <1>2, <1>3, <1>4, <1>5, <1>6, <1>7

LEMMA PurgeTidy ==
  ASSUME StoreInv, BytesInv, NEW q \in Procs
  PROVE  /\ DeleteFile(q) => Tidy(q)
         /\ StartSweep(q) => Tidy(q)
         /\ LockDocument(q) => Tidy(q)
         /\ DeleteObject(q) => Tidy(q)
         /\ RetireDocument(q) => Tidy(q)
         /\ PurgeFails(q) => Tidy(q)
<1> USE DEF StoreInv, BytesInv, Tidy
<1>0. /\ HandsExact(q) /\ TypeOK /\ StepOK(q)
      /\ proc[q].docs \subseteq Docs /\ proc[q].left \subseteq Docs
  BY DEF TypeOK, StepsOK
<1>1. ASSUME NEW ds, Go(q, [Idle EXCEPT !.pc = "lock", !.left = ds]), At(q, "idle"),
             stored' = stored
      PROVE  Tidy(q)
  <2>1. proc'[q].pc = "lock" /\ proc'[q].docs = {} /\ proc[q].docs = {}
    BY <1>0, <1>1 DEF Go, TypeOK, Idle, HandsExact, At
  <2> QED
    BY <1>1, <2>1 DEF Minds, HandsExact, At, Purging
<1>2. ASSUME DeleteFile(q) \/ StartSweep(q) PROVE Tidy(q)
  <2>1. PICK ds : Go(q, [Idle EXCEPT !.pc = "lock", !.left = ds])
    BY <1>2 DEF DeleteFile, StartSweep
  <2> QED
    BY <1>1, <1>2, <2>1 DEF DeleteFile, StartSweep
<1>3. ASSUME NEW d \in Docs, Go(q, AfterDocument(q, d)) PROVE HandsExact(q)'
  BY <1>0, <1>3, NextCandidate DEF HandsExact, At, Purging
<1>4. ASSUME LockDocument(q) PROVE Tidy(q)
  <2>1. PICK d \in Docs :
          \/ Go(q, AfterDocument(q, d))
          \/ Go(q, [proc[q] EXCEPT !.pc = "purge", !.docs = {d}, !.left = @ \ {d}])
    BY <1>0, <1>4 DEF LockDocument
  <2>2. stored' = stored /\ proc[q].docs = {}
    BY <1>0, <1>4 DEF LockDocument, HandsExact, At
  <2>3. Minds(q)
    BY <2>2 DEF Minds
  <2>4. CASE Go(q, [proc[q] EXCEPT !.pc = "purge", !.docs = {d}, !.left = @ \ {d}])
    <3>1. proc'[q].pc = "purge" /\ proc'[q].docs = {d}
      BY <1>0, <2>4 DEF Go, TypeOK
    <3> QED
      BY <2>3, <3>1 DEF HandsExact, At, Purging
  <2> QED
    BY <1>3, <2>1, <2>3, <2>4
<1>5. ASSUME DeleteObject(q) PROVE Tidy(q)
  <2>1. At(q, "purge") /\ stored' = stored \ proc[q].docs /\ GoAt(q, "retire")
    BY <1>5 DEF DeleteObject
  <2>2. proc'[q].pc = "retire" /\ proc'[q].docs = proc[q].docs
    BY <1>0, <2>1, GoAtEffect DEF PC
  <2>3. Minds(q)
    BY <1>0, <2>1, <2>2, GoAtMinds
  <2> QED
    BY <1>0, <2>1, <2>2, <2>3 DEF HandsExact, At, Purging
<1>6. ASSUME RetireDocument(q) PROVE Tidy(q)
  <2>1. /\ stored' = stored
        /\ row' = [d \in Docs |-> IF d \in proc[q].docs THEN "deleted" ELSE row[d]]
    BY <1>6 DEF RetireDocument, Retired
  <2>2. PICK d \in Docs : Go(q, AfterDocument(q, d))
    BY <1>0, <1>6 DEF RetireDocument
  <2>3. Minds(q)
    BY <1>0, <2>1 DEF Minds
  <2> QED
    BY <1>3, <2>2, <2>3
<1>7. ASSUME PurgeFails(q) PROVE Tidy(q)
  <2>1. /\ stored' \subseteq stored /\ struck' = struck \cup proc[q].docs /\ Go(q, Idle)
    BY <1>7 DEF PurgeFails
  <2> QED
    BY <1>0, <2>1, RestMinds
<1> QED
  BY <1>2, <1>4, <1>5, <1>6, <1>7

LEMMA CreateTidy ==
  ASSUME StoreInv, BytesInv, NEW q \in Procs
  PROVE  /\ CreateJob(q) => Tidy(q)
         /\ LockInput(q) => Tidy(q)
         /\ AttachInputs(q) => Tidy(q)
         /\ CreatorAborted(q) => Tidy(q)
         /\ Crash(q) => Tidy(q)
<1> USE DEF StoreInv, BytesInv, Tidy
<1>0. /\ HandsExact(q) /\ TypeOK
      /\ proc[q].docs \subseteq Docs /\ proc[q].left \subseteq Docs
  BY DEF TypeOK
<1>1. ASSUME CreateJob(q) PROVE Tidy(q)
  <2>1. PICK j \in Jobs, ds \in SUBSET {d \in Docs : row[d] # "absent"} :
          Go(q, [pc |-> "attach", docs |-> {}, left |-> ds, job |-> j])
    BY <1>1 DEF CreateJob
  <2>2. /\ proc'[q].pc = "attach" /\ proc'[q].docs = {} /\ proc'[q].left = ds
        /\ proc[q].docs = {} /\ stored' = stored /\ row' = row
    BY <1>0, <1>1, <2>1 DEF Go, TypeOK, CreateJob, HandsExact, At
  <2> QED
    BY <2>1, <2>2 DEF Minds, HandsExact, At, Purging
<1>2. ASSUME LockInput(q) PROVE Tidy(q)
  <2>1. PICK d \in proc[q].left :
          Go(q, [proc[q] EXCEPT !.left = @ \ {d}, !.docs = @ \cup {d}])
    BY <1>2 DEF LockInput
  <2>2. stored' = stored /\ row' = row /\ proc[q].pc = "attach"
    BY <1>2 DEF LockInput, At
  <2>3. /\ proc'[q].pc = "attach" /\ proc'[q].docs = proc[q].docs \cup {d}
        /\ proc'[q].left = proc[q].left \ {d}
    BY <1>0, <2>1, <2>2 DEF Go, TypeOK
  <2> QED
    BY <1>0, <2>2, <2>3 DEF Minds, HandsExact, At, Purging
<1>3. ASSUME AttachInputs(q) \/ CreatorAborted(q) PROVE Tidy(q)
  <2>1. stored' = stored /\ row' = row /\ At(q, "attach") /\ Go(q, Idle)
    BY <1>3 DEF AttachInputs, CreatorAborted, Deadlocked
  <2> QED
    BY <1>0, <2>1, RestMinds DEF HandsExact
<1>4. ASSUME Crash(q) PROVE Tidy(q)
  <2>1. /\ stored' = stored /\ row' = row /\ Go(q, Idle)
        /\ At(q, "attach") \/ struck' = struck \cup proc[q].docs
    BY <1>4 DEF Crash
  <2> QED
    BY <1>0, <2>1, RestMinds DEF HandsExact
<1> QED
  BY <1>1, <1>2, <1>3, <1>4

-----------------------------------------------------------------------------
LEMMA ActsKeepBytes ==
  ASSUME StoreInv, BytesInv, NEW q \in Procs, Acts(q)
  PROVE  BytesInv'
<1>1. Tidy(q)
  BY UploadTidy, RegisterTidy, PurgeTidy, CreateTidy DEF Acts, Starts, Step, Fails
<1>2. Spares(q)
  <2>1. CASE Kept(q)
    BY <2>1, FrameSpares DEF Kept
  <2>2. CASE AttachInputs(q)
    <3>1. row' = row /\ struck' = struck /\ Go(q, Idle) /\ TypeOK
      BY <2>2 DEF AttachInputs, StoreInv
    <3> QED
      BY <3>1, RestEffect DEF Spares
  <2> QED
    BY <2>1, <2>2, ActsKeep
<1> QED
  BY <1>1, <1>2, MindingKeeps DEF Tidy

LEMMA SameKeepsBytes ==
  ASSUME BytesInv, UNCHANGED <<row, stored, proc, struck>>
  PROVE  BytesInv'
BY DEF BytesInv, NoStrayBytes, HandsExact, At

LEMMA BytesStep == StoreInv /\ BytesInv /\ [Next]_vars => BytesInv'
<1> SUFFICES ASSUME StoreInv, BytesInv, [Next]_vars PROVE BytesInv'
  OBVIOUS
<1>1. ASSUME NEW j \in Jobs, CancelJob(j) \/ EnqueueRefused(j) \/ ResumeExistingJob(j)
      PROVE  BytesInv'
  BY <1>1, SameKeepsBytes DEF CancelJob, EnqueueRefused, ResumeExistingJob
<1>2. ASSUME NEW d \in Docs, Expire(d) PROVE BytesInv'
  BY <1>2, SameKeepsBytes DEF Expire
<1>3. CASE UNCHANGED vars
  BY <1>3, SameKeepsBytes DEF vars
<1> QED
  BY <1>1, <1>2, <1>3, ActsKeepBytes DEF Next, Acts

LEMMA InitBytes == Init => BytesInv
<1> SUFFICES ASSUME Init PROVE BytesInv
  OBVIOUS
<1>1. \A p \in Procs : proc[p].pc = "idle" /\ proc[p].docs = {}
  BY DEF Init, Idle
<1>2. \A d \in Docs : row[d] = "absent" /\ d \notin stored
  BY DEF Init
<1> QED
  BY <1>1, <1>2 DEF BytesInv, NoStrayBytes, HandsExact, At, Purging

\* Rows and bytes agree on every document that no mishap has hit: the order
\* of the steps of upload_file, process_job and purge_document, and their
\* locks, make up for the transaction that Postgres and S3 do not share.
THEOREM BytesSafe == Spec => []BytesMatchRows
<1>1. StoreInv /\ BytesInv => BytesMatchRows
  <2> SUFFICES ASSUME StoreInv, BytesInv, NEW d \in Docs \ struck,
                      row[d] = "validated", d \notin stored
               PROVE  \E p \in Procs :
                        At(p, "retire") /\ proc[p].docs = {d} /\ dlock[d] = p
    BY DEF BytesMatchRows, BytesInv, NoStrayBytes, Live
  <2>1. PICK p \in Procs : At(p, "retire") /\ d \in proc[p].docs
    BY DEF StoreInv, BytesHold
  <2>2. dlock[d] = p
    BY <2>1 DEF StoreInv, StepsOK, StepOK, At, Purging
  <2>3. proc[p].docs = {d}
    BY <2>1 DEF BytesInv, HandsExact, At, Purging
  <2> QED
    BY <2>1, <2>2, <2>3
<1> QED
  BY <1>1, InitBytes, BytesStep, StoreSafe, PTL DEF Spec
==============================================================================
