------------------------ MODULE SchemaAdoptionProofs ------------------------
(***************************************************************************)
(* Theorems about SchemaAdoption, for any number of processes that start   *)
(* at once.  What a process decides when it inspects the database is still *)
(* right when it acts on it, because every item of the model a database    *)
(* once has stays.                                                         *)
(***************************************************************************)
EXTENDS SchemaAdoption, TLAPS

States == {"down", "inspect", "patch", "stamp", "upgrade", "migrate", "up", "failed"}

StartTyped ==
  start \in [Starters -> [pc : States, columns : SUBSET AdoptableColumns, stamp : 0 .. Head]]

\* The workspace of a job came with the constraint on its keys, which took the
\* place of the older one.
Owned(s) == <<"jobs", "workspace_id">> \in s => OwnedKeyUnique \in s /\ KeyUnique \notin s

\* A process that is about to patch, or to stamp, knows what the database has.
PatchFits(r) ==
  start[r].pc = "patch" =>
    AtRevision(start[r].stamp) \cap Model \subseteq schema \cup start[r].columns \cup {QueueIndex}

StampFits(r) ==
  start[r].pc = "stamp" => AtRevision(start[r].stamp) \cap Model \subseteq schema

\* One that has read the newest revision has the whole model before it.
MigrateFits(r) ==
  start[r].pc = "migrate" =>
    start[r].stamp \in 0 .. Head /\ (start[r].stamp = Head => schema = Model)

StartsFit == \A r \in Starters : PatchFits(r) /\ StampFits(r) /\ MigrateFits(r)

SchemaInv ==
  /\ TypeOK /\ StartTyped /\ Owned(schema) /\ NeverAhead /\ UpMeansComplete /\ StartsFit

-----------------------------------------------------------------------------
(* Schemas.                                                                *)

LEMMA Revision ==
  /\ AtRevision(0) = {}
  /\ AtRevision(1) = InitialSchema
  /\ AtRevision(2) = InitialSchema \cup JobQueueId
  /\ AtRevision(3) = InitialSchema \cup JobQueueId \cup Webhooks
  /\ AtRevision(4) = InitialSchema \cup JobQueueId \cup Webhooks \cup DocumentDeletion
  /\ Model = (InitialSchema \cup JobQueueId \cup Webhooks \cup DocumentDeletion \cup Workspaces)
               \ {KeyUnique}
<1>1. /\ Adds[1] = InitialSchema /\ Adds[2] = JobQueueId /\ Adds[3] = Webhooks
      /\ Adds[4] = DocumentDeletion /\ Adds[5] = Workspaces
  BY DEF Adds
<1>2. /\ 1 .. 0 = {} /\ 1 .. 1 = {1} /\ 1 .. 2 = {1, 2} /\ 1 .. 3 = {1, 2, 3}
      /\ 1 .. 4 = {1, 2, 3, 4} /\ 1 .. 5 = {1, 2, 3, 4, 5}
  OBVIOUS
<1>3. Drops(0) = {} /\ Drops(1) = {} /\ Drops(2) = {} /\ Drops(3) = {} /\ Drops(4) = {}
        /\ Drops(5) = {KeyUnique}
  BY DEF Drops
<1>4. AtRevision(0) = {}
  BY <1>2, <1>3 DEF AtRevision
<1>5. AtRevision(1) = InitialSchema
  BY <1>1, <1>2, <1>3 DEF AtRevision
<1>6. AtRevision(2) = InitialSchema \cup JobQueueId
  BY <1>1, <1>2, <1>3 DEF AtRevision
<1>7. AtRevision(3) = InitialSchema \cup JobQueueId \cup Webhooks
  BY <1>1, <1>2, <1>3 DEF AtRevision
<1>8. AtRevision(4) = InitialSchema \cup JobQueueId \cup Webhooks \cup DocumentDeletion
  BY <1>1, <1>2, <1>3 DEF AtRevision
<1>9. Model = (InitialSchema \cup JobQueueId \cup Webhooks \cup DocumentDeletion \cup Workspaces)
               \ {KeyUnique}
  <2>1. Model = (UNION {Adds[i] : i \in {1, 2, 3, 4, 5}}) \ {KeyUnique}
    BY <1>2, <1>3 DEF AtRevision, Model, Head
  <2> QED
    BY <1>1, <2>1
<1> QED
  BY <1>4, <1>5, <1>6, <1>7, <1>8, <1>9

\* The migrations that are pending complete the model if what they add is not
\* there yet.
LEMMA UpgradeCompletes ==
  ASSUME NEW s, NEW v \in 0 .. Head,
         s \subseteq Model \cup {KeyUnique}, Owned(s), AtRevision(v) \cap Model \subseteq s,
         (UNION {Adds[m] : m \in Pending(v)}) \cap s = {}
  PROVE  (s \cup (UNION {Adds[m] : m \in Pending(v)})) \ UNION {Drops(m) : m \in Pending(v)}
           = Model
<1> DEFINE added   == UNION {Adds[m] : m \in Pending(v)}
           dropped == UNION {Drops(m) : m \in Pending(v)}
<1>1. /\ AtRevision(v) = (UNION {Adds[m] : m \in 1 .. v}) \ Drops(v)
      /\ Model = (UNION {Adds[m] : m \in 1 .. 5}) \ {KeyUnique}
  BY DEF AtRevision, Model, Head, Drops
<1>2. \A m \in Revisions : Drops(m) \subseteq {KeyUnique}
  BY DEF Drops
<1>3. CASE v < 5
  <2>1. 5 \in Pending(v) /\ KeyUnique \in Drops(5)
    BY <1>3 DEF Pending, Revisions, Drops
  <2>2. dropped = {KeyUnique}
    BY <1>2, <2>1 DEF Pending
  <2>3. AtRevision(v) = UNION {Adds[m] : m \in 1 .. v}
    BY <1>1, <1>3 DEF Drops
  <2>4. added \subseteq UNION {Adds[m] : m \in 1 .. 5}
    BY DEF Pending, Revisions
  <2>5. ASSUME NEW x \in Model PROVE x \in s \cup added
    <3>1. PICK m \in 1 .. 5 : x \in Adds[m]
      BY <1>1
    <3>2. CASE m <= v
      BY <2>3, <3>1, <3>2 DEF Head
    <3>3. CASE m > v
      BY <3>1, <3>3 DEF Pending, Revisions
    <3> QED
      BY <3>2, <3>3 DEF Head
  <2>6. s \cup added \subseteq Model \cup {KeyUnique}
    BY <1>1, <2>4
  <2> QED
    BY <1>1, <2>2, <2>5, <2>6
<1>4. CASE v = 5
  <2>1. Pending(v) = {}
    BY <1>4 DEF Pending, Revisions
  <2>2. Model \subseteq s
    BY <1>4 DEF Model, Head
  <2>3. <<"jobs", "workspace_id">> \in Workspaces
    BY DEF Workspaces, WorkspaceIds, OwnedTables
  <2>4. <<"jobs", "workspace_id">> # KeyUnique
    BY DEF KeyUnique
  <2>5. KeyUnique \notin s
    BY Revision, <2>2, <2>3, <2>4 DEF Owned
  <2>6. added = {} /\ dropped = {}
    BY <2>1
  <2> QED
    BY <1>1, <2>2, <2>5, <2>6
<1> QED
  BY <1>3, <1>4 DEF Head

\* What the migrations add, table by table: nothing but the last one has to do
\* with workspaces, and only the fourth with the deletion of documents.
LEMMA Items ==
  /\ \A x \in InitialSchema \cup JobQueueId :
       x[1] \in LegacyTables /\ x[2] # "workspace_id" /\ x # DeletedAt /\ x # OwnedKeyUnique
  /\ \A x \in Webhooks :
       x[1] \in WebhookTables /\ x[2] # "workspace_id" /\ x # DeletedAt /\ x # OwnedKeyUnique
  /\ DeletedAt[1] \in LegacyTables /\ DeletedAt[2] # "workspace_id" /\ DeletedAt # OwnedKeyUnique
  /\ \A x \in Workspaces : x[1] \in ModelTables
  /\ \A x \in WorkspaceIds : x[2] = "workspace_id"
<1>1. \A x \in InitialSchema \cup JobQueueId :
        x[1] \in LegacyTables /\ x[2] # "workspace_id" /\ x # DeletedAt /\ x # OwnedKeyUnique
  BY DEF InitialSchema, JobQueueId, NewTables, LegacyTables, Fingerprint, KeyUnique, QueueId,
         QueueIndex, DeletedAt, OwnedKeyUnique
<1>2. \A x \in Webhooks :
        x[1] \in WebhookTables /\ x[2] # "workspace_id" /\ x # DeletedAt /\ x # OwnedKeyUnique
  BY DEF Webhooks, NewTables, WebhookTables, DeletedAt, OwnedKeyUnique
<1>3. DeletedAt[1] \in LegacyTables /\ DeletedAt[2] # "workspace_id" /\ DeletedAt # OwnedKeyUnique
  BY DEF DeletedAt, LegacyTables, OwnedKeyUnique
<1>4. \A x \in Workspaces : x[1] \in ModelTables
  BY DEF Workspaces, NewTables, WorkspaceIds, OwnedTables, WorkspaceTables, OwnedKeyUnique,
         ModelTables, LegacyTables
<1>5. \A x \in WorkspaceIds : x[2] = "workspace_id"
  BY DEF WorkspaceIds
<1> QED
  BY <1>1, <1>2, <1>3, <1>4, <1>5

\* The constraint on the keys of a job is the owner's in the model, the older
\* one in what a revision below the last has.
LEMMA Keys ==
  /\ KeyUnique \notin Model /\ OwnedKeyUnique \in Model
  /\ KeyUnique \in InitialSchema /\ QueueIndex \in Model /\ AdoptableColumns \subseteq Model
  /\ AdoptableColumns \cap {KeyUnique, OwnedKeyUnique, QueueIndex, <<"jobs", "workspace_id">>} = {}
  /\ QueueIndex \notin {KeyUnique, OwnedKeyUnique, <<"jobs", "workspace_id">>}
  /\ <<"jobs", "workspace_id">> \in ModelColumns
<1>1. /\ KeyUnique # OwnedKeyUnique /\ KeyUnique # QueueIndex /\ OwnedKeyUnique # QueueIndex
      /\ <<"jobs", "workspace_id">> \notin {KeyUnique, OwnedKeyUnique, QueueIndex}
  BY DEF KeyUnique, OwnedKeyUnique, QueueIndex
<1>2. /\ KeyUnique \in InitialSchema /\ Fingerprint \in InitialSchema
      /\ QueueId \in JobQueueId /\ QueueIndex \in JobQueueId /\ DeletedAt \in DocumentDeletion
      /\ OwnedKeyUnique \in Workspaces /\ <<"jobs", "workspace_id">> \in Workspaces
  BY DEF InitialSchema, JobQueueId, DocumentDeletion, Workspaces, WorkspaceIds, OwnedTables
<1>3. AdoptableColumns \cap {KeyUnique, OwnedKeyUnique, QueueIndex, <<"jobs", "workspace_id">>} = {}
  BY DEF AdoptableColumns, Fingerprint, QueueId, DeletedAt, KeyUnique, OwnedKeyUnique, QueueIndex
<1>4. AdoptableColumns \subseteq Model
  BY Revision, <1>2, <1>3 DEF AdoptableColumns
<1>5. <<"jobs", "workspace_id">> \notin NotColumns
  BY <1>1 DEF NotColumns
<1> QED
  BY Revision, <1>1, <1>2, <1>3, <1>4, <1>5 DEF ModelColumns

-----------------------------------------------------------------------------
(* The databases there are at the start.                                   *)

LEMMA ReleaseModels ==
  ASSUME NEW r \in 0 .. Head
  PROVE  /\ ReleaseModel(r) \subseteq Model \cup {KeyUnique} /\ Owned(ReleaseModel(r))
         /\ AtRevision(r) \subseteq Model \cup {KeyUnique} /\ Owned(AtRevision(r))
         /\ "jobs" \in Tables(ReleaseModel(r))
<1>1. r \in {0, 1, 2, 3, 4, 5}
  BY DEF Head
<1>2. /\ AtRevision(r) \subseteq Model \cup {KeyUnique}
      /\ r = 0 => AtRevision(1) \subseteq Model \cup {KeyUnique}
  BY Revision, <1>1 DEF Model, Head
<1>3. ASSUME NEW v \in {0, 1, 2, 3, 4} PROVE <<"jobs", "workspace_id">> \notin AtRevision(v)
  <2>1. ASSUME NEW x \in AtRevision(v) PROVE x[2] # "workspace_id"
    BY Revision, Items, <2>1 DEF DocumentDeletion
  <2> QED
    BY <2>1
<1>4. Owned(AtRevision(5))
  BY Keys DEF Owned, Model, Head
<1>5. Owned(AtRevision(r)) /\ Owned(ReleaseModel(r))
  BY <1>1, <1>3, <1>4 DEF Owned, ReleaseModel
<1>6. <<"jobs", "table">> \in InitialSchema /\ "jobs" \in ModelTables
  BY DEF InitialSchema, NewTables, LegacyTables, ModelTables
<1>7. <<"jobs", "table">> # Fingerprint /\ <<"jobs", "table">> # KeyUnique
  BY DEF Fingerprint, KeyUnique
<1>8. <<"jobs", "table">> \in ReleaseModel(r)
  BY Revision, <1>1, <1>6, <1>7 DEF ReleaseModel, Model, Head
<1> QED
  BY <1>2, <1>5, <1>6, <1>8 DEF ReleaseModel, Tables

LEMMA InitialDatabases ==
  ASSUME NEW s \in {{}} \cup Unversioned \cup UNION {Damaged(u) : u \in Unversioned}
  PROVE  s \subseteq Model \cup {KeyUnique} /\ Owned(s)
<1>1. ASSUME NEW u \in Unversioned PROVE u \subseteq Model \cup {KeyUnique} /\ Owned(u)
  <2>1. PICK first \in 0 .. Head, next \in 0 .. Head :
          u = CreateAll(CreateAll({}, first), next)
    BY <1>1 DEF Unversioned
  <2>2. CreateAll({}, first) = ReleaseModel(first)
    BY DEF CreateAll, Tables
  <2>3. u = ReleaseModel(first)
              \cup {i \in ReleaseModel(next) : i[1] \notin Tables(ReleaseModel(first))}
    BY <2>1, <2>2 DEF CreateAll
  <2>4. \A i \in u : i[1] = "jobs" => i \in ReleaseModel(first)
    BY <2>3, ReleaseModels
  <2>5. /\ <<"jobs", "workspace_id">>[1] = "jobs" /\ KeyUnique[1] = "jobs"
        /\ OwnedKeyUnique[1] = "jobs"
    BY DEF KeyUnique, OwnedKeyUnique
  <2>6. Owned(u)
    BY <2>3, <2>4, <2>5, ReleaseModels DEF Owned
  <2> QED
    BY <2>3, <2>6, ReleaseModels
<1>2. ASSUME NEW u \in Unversioned, s \in Damaged(u)
      PROVE  s \subseteq Model \cup {KeyUnique} /\ Owned(s)
  <2>1. CASE \E i \in u : i \notin NotColumns /\ s = u \ {i}
    BY <1>1, <2>1 DEF Owned, NotColumns
  <2>2. CASE \E t \in Tables(u) : s = {i \in u : i[1] # t}
    <3>1. PICK t \in Tables(u) : s = {i \in u : i[1] # t}
      BY <2>2
    <3>2. /\ <<"jobs", "workspace_id">>[1] = "jobs" /\ KeyUnique[1] = "jobs"
          /\ OwnedKeyUnique[1] = "jobs"
      BY DEF KeyUnique, OwnedKeyUnique
    <3> QED
      BY <1>1, <3>1, <3>2 DEF Owned
  <2> QED
    BY <1>2, <2>1, <2>2 DEF Damaged
<1>3. CASE s = {}
  BY <1>3 DEF Owned
<1> QED
  BY <1>1, <1>2, <1>3

-----------------------------------------------------------------------------
(* Adoption.                                                               *)

\* A database that is not refused has, once the patch is applied, all of the
\* revision it is going to be stamped with.
LEMMA Adopted ==
  ASSUME NEW s, s \subseteq Model \cup {KeyUnique}, Owned(s), ~Refused(s)
  PROVE  /\ StampRevision(s) \in 2 .. Head /\ MissingColumns(s) \subseteq AdoptableColumns
         /\ AtRevision(StampRevision(s)) \cap Model
              \subseteq s \cup MissingColumns(s) \cup {QueueIndex}
<1> DEFINE v == StampRevision(s)
<1>1. v \in 2 .. Head /\ (v = 5 <=> AdoptsWholeModel(s))
  BY DEF StampRevision, Head
<1>2. LegacyTables \subseteq Tables(s) /\ MissingColumns(s) \subseteq AdoptableColumns
  BY DEF Refused
<1>3. SUFFICES ASSUME NEW x \in AtRevision(v) \cap Model, x \notin s, x # QueueIndex
               PROVE  x \in MissingColumns(s)
  BY <1>1, <1>2
<1>4. \A t \in Tables(s) : <<t, "table">> \in s
  BY DEF Tables
<1>5. x[1] \in TablesToCheck(s)
  <2>1. CASE v = 5
    <3>1. x[1] \in ModelTables
      BY Items, Revision DEF ModelTables, DocumentDeletion
    <3> QED
      BY <1>1, <2>1, <3>1 DEF TablesToCheck
  <2>2. CASE v = 2
    BY <2>2, Items, Revision DEF TablesToCheck, ModelTables
  <2>3. CASE v \in {3, 4}
    <3>1. HasWebhooks(s)
      BY <2>3 DEF StampRevision, Head
    <3>2. x[1] \in LegacyTables \cup WebhookTables
      BY <2>3, Items, Revision DEF DocumentDeletion
    <3> QED
      BY <3>1, <3>2 DEF TablesToCheck, ModelTables
  <2> QED
    BY <1>1, <2>1, <2>2, <2>3 DEF Head
<1>6. x \notin PostRevisionColumns(v)
  <2>1. CASE v = 5
    BY <2>1 DEF PostRevisionColumns, Head
  <2>2. CASE v \in {2, 3}
    <3>1. x[2] # "workspace_id" /\ x # DeletedAt
      BY <2>2, Items, Revision
    <3> QED
      BY <2>2, <3>1, Items DEF PostRevisionColumns, Head
  <2>3. CASE v = 4
    <3>1. x[2] # "workspace_id"
      BY <2>3, Items, Revision DEF DocumentDeletion
    <3> QED
      BY <2>3, <3>1, Items DEF PostRevisionColumns, Head
  <2> QED
    BY <1>1, <2>1, <2>2, <2>3 DEF Head
<1>7. x \notin NotColumns
  <2>1. CASE x \in ModelTables \X {"table"}
    <3>1. x[1] \in Tables(s) /\ x = <<x[1], "table">>
      <4>1. x[1] \in ModelTables /\ x = <<x[1], "table">>
        BY <2>1
      <4>2. TablesToCheck(s) \subseteq Tables(s)
        BY <1>2 DEF TablesToCheck, AdoptsWholeModel, HasWebhooks
      <4> QED
        BY <1>5, <4>1, <4>2
    <3> QED
      BY <1>3, <1>4, <3>1
  <2>2. CASE x = OwnedKeyUnique
    <3>1. v = 5
      <4>1. CASE v \in {2, 3, 4}
        BY <2>2, <4>1, Items, Revision DEF DocumentDeletion
      <4> QED
        BY <1>1, <4>1 DEF Head
    <3>2. <<"jobs", "workspace_id">> \in s
      <4>1. TablesToCheck(s) = ModelTables /\ PostRevisionColumns(v) = {}
        BY <1>1, <3>1 DEF TablesToCheck, PostRevisionColumns, Head
      <4>2. "jobs" \in ModelTables
        BY DEF ModelTables, LegacyTables
      <4> QED
        BY <1>2, <4>1, <4>2, Keys DEF MissingColumns
    <3> QED
      BY <1>3, <2>2, <3>2 DEF Owned
  <2>3. x # KeyUnique
    BY Keys
  <2> QED
    BY <1>3, <2>1, <2>2, <2>3 DEF NotColumns
<1> QED
  BY <1>3, <1>5, <1>6, <1>7 DEF MissingColumns, ModelColumns

-----------------------------------------------------------------------------
(* The invariant.                                                          *)

LEMMA SchemaInit == Init => SchemaInv
<1> SUFFICES ASSUME Init PROVE SchemaInv
  OBVIOUS
<1> USE ConstantsAssumption DEF Init
<1>1. version \in 0 .. Head /\ version \in {0} \cup Revisions
  BY DEF Revisions, Head
<1>2. schema \subseteq Model \cup {KeyUnique} /\ Owned(schema)
  BY <1>1, InitialDatabases, ReleaseModels
<1>3. NeverAhead
  BY Revision DEF NeverAhead
<1>4. \A r \in Starters : start[r] = Idle("down")
  OBVIOUS
<1>5. Idle("down") \in [pc : States, columns : SUBSET AdoptableColumns, stamp : 0 .. Head]
  BY DEF Idle, States, Head
<1>6. StartTyped
  BY <1>5 DEF StartTyped
<1>7. TypeOK
  BY <1>1, <1>2, <1>4 DEF TypeOK, Idle
<1>8. UpMeansComplete /\ StartsFit
  BY <1>4 DEF UpMeansComplete, StartsFit, PatchFits, StampFits, MigrateFits, Idle
<1> QED
  BY <1>2, <1>3, <1>6, <1>7, <1>8 DEF SchemaInv

\* A process that goes to a state where it has decided nothing keeps the
\* invariant if the database does.
LEMMA Returns ==
  ASSUME SchemaInv, NEW r \in Starters, NEW pc \in {"down", "inspect", "upgrade", "failed"},
         Goes(r, pc), UNCHANGED <<schema, version>>, mishaps' \in 0 .. MaxMishaps
  PROVE  SchemaInv'
<1> USE DEF SchemaInv
<1>1. Idle(pc) \in [pc : States, columns : SUBSET AdoptableColumns, stamp : 0 .. Head]
  BY DEF Idle, States, Head
<1>2. start'[r] = Idle(pc) /\ \A q \in Starters : q # r => start'[q] = start[q]
  BY DEF Goes, StartTyped
<1>3. StartTyped'
  BY <1>1 DEF Goes, StartTyped
<1>4. TypeOK'
  BY <1>2 DEF TypeOK, Idle
<1>5. Owned(schema)' /\ NeverAhead'
  BY DEF Owned, NeverAhead
<1>6. UpMeansComplete' /\ StartsFit'
  BY <1>2 DEF UpMeansComplete, StartsFit, PatchFits, StampFits, MigrateFits, Idle
<1> QED
  BY <1>3, <1>4, <1>5, <1>6

LEMMA InspectKeepsInv ==
  ASSUME SchemaInv, NEW r \in Starters, Inspect(r)
  PROVE  SchemaInv'
<1>1. CASE Goes(r, "upgrade") \/ Goes(r, "failed")
  BY <1>1, Returns DEF Inspect, SchemaInv, TypeOK
<1>2. CASE /\ ~Refused(schema)
           /\ start' = [start EXCEPT ![r] = [pc |-> "patch", columns |-> MissingColumns(schema),
                                             stamp |-> StampRevision(schema)]]
  <2> USE DEF SchemaInv
  <2>1. /\ StampRevision(schema) \in 2 .. Head /\ MissingColumns(schema) \subseteq AdoptableColumns
        /\ AtRevision(StampRevision(schema)) \cap Model
             \subseteq schema \cup MissingColumns(schema) \cup {QueueIndex}
    BY <1>2, Adopted DEF TypeOK
  <2>2. /\ start'[r] = [pc |-> "patch", columns |-> MissingColumns(schema),
                        stamp |-> StampRevision(schema)]
        /\ \A q \in Starters : q # r => start'[q] = start[q]
    BY <1>2 DEF StartTyped
  <2>3. [pc |-> "patch", columns |-> MissingColumns(schema), stamp |-> StampRevision(schema)]
          \in [pc : States, columns : SUBSET AdoptableColumns, stamp : 0 .. Head]
    BY <2>1 DEF States, Head
  <2>4. StartTyped'
    BY <1>2, <2>3 DEF StartTyped
  <2>5. TypeOK'
    BY <2>1, <2>2 DEF TypeOK, Inspect, Head
  <2>6. Owned(schema)' /\ NeverAhead'
    BY DEF Owned, NeverAhead, Inspect
  <2>7. UpMeansComplete'
    BY <2>2 DEF UpMeansComplete, Inspect
  <2>8. StartsFit'
    BY <2>1, <2>2 DEF StartsFit, PatchFits, StampFits, MigrateFits, Inspect
  <2> QED
    BY <2>4, <2>5, <2>6, <2>7, <2>8
<1> QED
  BY <1>1, <1>2 DEF Inspect

LEMMA ApplyPatchKeepsInv ==
  ASSUME SchemaInv, NEW r \in Starters, ApplyPatch(r)
  PROVE  SchemaInv'
<1>1. CASE Goes(r, "failed") /\ UNCHANGED schema
  BY <1>1, Returns DEF ApplyPatch, SchemaInv, TypeOK
<1>2. CASE /\ schema' = schema \cup start[r].columns \cup {QueueIndex}
           /\ start' = [start EXCEPT ![r].pc = "stamp"]
  <2> USE DEF SchemaInv
  <2>1. /\ start[r].pc = "patch" /\ UNCHANGED <<version, mishaps>>
        /\ start[r] \in [pc : States, columns : SUBSET AdoptableColumns, stamp : 0 .. Head]
    BY DEF ApplyPatch, StartTyped
  <2>2. /\ start'[r] = [start[r] EXCEPT !.pc = "stamp"]
        /\ \A q \in Starters : q # r => start'[q] = start[q]
    BY <1>2 DEF StartTyped
  <2>3. /\ start'[r].pc = "stamp" /\ start'[r].stamp = start[r].stamp
        /\ start'[r].columns = start[r].columns
    BY <2>1, <2>2
  <2>4. StartTyped'
    BY <1>2, <2>1 DEF StartTyped, States
  <2>5. start[r].columns \cup {QueueIndex} \subseteq Model
    BY <2>1, Keys
  <2>6. TypeOK'
    BY <1>2, <2>1, <2>2, <2>3, <2>5 DEF TypeOK
  <2>7. Owned(schema)'
    BY <1>2, <2>1, Keys DEF Owned
  <2>8. NeverAhead'
    BY <1>2, <2>1 DEF NeverAhead
  <2>9. UpMeansComplete'
    BY <1>2, <2>2, <2>3, <2>5 DEF UpMeansComplete
  <2>10. StartsFit'
    BY <1>2, <2>1, <2>2, <2>3, <2>5 DEF StartsFit, PatchFits, StampFits, MigrateFits
  <2> QED
    BY <2>4, <2>6, <2>7, <2>8, <2>9, <2>10
<1> QED
  BY <1>1, <1>2 DEF ApplyPatch

LEMMA StampKeepsInv ==
  ASSUME SchemaInv, NEW r \in Starters, Stamp(r)
  PROVE  SchemaInv'
<1> USE DEF SchemaInv
<1>1. Idle("upgrade") \in [pc : States, columns : SUBSET AdoptableColumns, stamp : 0 .. Head]
  BY DEF Idle, States, Head
<1>2. start'[r] = Idle("upgrade") /\ \A q \in Starters : q # r => start'[q] = start[q]
  BY DEF Goes, Stamp, StartTyped
<1>3. StartTyped'
  BY <1>1 DEF Goes, Stamp, StartTyped
<1>4. version' \in {0} \cup Revisions
  BY DEF Stamp, StartTyped, Head, Revisions
<1>5. TypeOK'
  BY <1>2, <1>4 DEF TypeOK, Idle, Stamp
<1>6. Owned(schema)' /\ NeverAhead'
  BY DEF Owned, NeverAhead, Stamp, StartsFit, StampFits
<1>7. UpMeansComplete' /\ StartsFit'
  BY <1>2 DEF UpMeansComplete, StartsFit, PatchFits, StampFits, MigrateFits, Idle, Stamp
<1> QED
  BY <1>3, <1>5, <1>6, <1>7

LEMMA ReadRevisionKeepsInv ==
  ASSUME SchemaInv, NEW r \in Starters, ReadRevision(r)
  PROVE  SchemaInv'
<1> USE DEF SchemaInv
<1> DEFINE plan == [Idle("migrate") EXCEPT !.stamp = version]
<1>1. version \in 0 .. Head
  BY DEF TypeOK, Revisions, Head
<1>2. plan = [pc |-> "migrate", columns |-> {}, stamp |-> version]
  BY DEF Idle
<1>3. plan \in [pc : States, columns : SUBSET AdoptableColumns, stamp : 0 .. Head]
  BY <1>1, <1>2 DEF States
<1>4. start'[r] = plan /\ \A q \in Starters : q # r => start'[q] = start[q]
  BY DEF ReadRevision, StartTyped
<1>5. UNCHANGED <<schema, version, mishaps>>
  BY DEF ReadRevision
<1>6. StartTyped'
  BY <1>3 DEF StartTyped, ReadRevision
<1>7. TypeOK'
  BY <1>2, <1>4, <1>5 DEF TypeOK
<1>8. Owned(schema)' /\ NeverAhead' /\ UpMeansComplete'
  BY <1>2, <1>4, <1>5 DEF Owned, NeverAhead, UpMeansComplete
<1>9. version = Head => schema = Model
  <2>1. SUFFICES ASSUME version = Head PROVE schema = Model
    OBVIOUS
  <2>2. Pending(version) = {}
    BY <2>1 DEF Pending, Revisions, Head
  <2>3. /\ UNION {Adds[m] : m \in Pending(version)} = {}
        /\ UNION {Drops(m) : m \in Pending(version)} = {}
    BY <2>2
  <2>4. (schema \cup {}) \ {} = Model
    <3>1. /\ schema \subseteq Model \cup {KeyUnique} /\ Owned(schema)
          /\ AtRevision(version) \cap Model \subseteq schema
      BY DEF TypeOK, NeverAhead
    <3>2. (UNION {Adds[m] : m \in Pending(version)}) \cap schema = {}
      BY <2>3
    <3>3. (schema \cup (UNION {Adds[m] : m \in Pending(version)}))
            \ UNION {Drops(m) : m \in Pending(version)} = Model
      BY <1>1, <3>1, <3>2, UpgradeCompletes
    <3> QED
      BY <2>3, <3>3, Zenon
  <2> QED
    BY <2>4
<1>10. StartsFit'
  BY <1>1, <1>2, <1>4, <1>5, <1>9 DEF StartsFit, PatchFits, StampFits, MigrateFits
<1> QED
  BY <1>6, <1>7, <1>8, <1>10

LEMMA MigrateKeepsInv ==
  ASSUME SchemaInv, NEW r \in Starters, Migrate(r)
  PROVE  SchemaInv'
<1> DEFINE read    == start[r].stamp
           added   == UNION {Adds[m] : m \in Pending(read)}
           dropped == UNION {Drops(m) : m \in Pending(read)}
<1>1. read \in 0 .. Head /\ (read = Head => schema = Model)
  BY DEF Migrate, SchemaInv, StartsFit, MigrateFits
<1>2. CASE Goes(r, "failed") /\ UNCHANGED <<schema, version>>
  BY <1>2, Returns DEF Migrate, SchemaInv, TypeOK
<1>3. ASSUME schema' = Model, Goes(r, "up"), version' \in {0} \cup Revisions
      PROVE  SchemaInv'
  <2> USE DEF SchemaInv
  <2>1. Idle("up") \in [pc : States, columns : SUBSET AdoptableColumns, stamp : 0 .. Head]
    BY DEF Idle, States, Head
  <2>2. start'[r] = Idle("up") /\ \A q \in Starters : q # r => start'[q] = start[q]
    BY <1>3 DEF Goes, StartTyped
  <2>3. StartTyped'
    BY <1>3, <2>1 DEF Goes, StartTyped
  <2>4. TypeOK'
    BY <1>3, <2>2 DEF TypeOK, Idle, Migrate
  <2>5. Owned(schema)'
    BY <1>3, Keys DEF Owned
  <2>6. NeverAhead' /\ UpMeansComplete'
    BY <1>3 DEF NeverAhead, UpMeansComplete
  <2>7. StartsFit'
    BY <1>3, <2>2 DEF StartsFit, PatchFits, StampFits, MigrateFits, Idle
  <2> QED
    BY <2>3, <2>4, <2>5, <2>6, <2>7
<1>4. CASE Pending(read) = {} /\ Goes(r, "up") /\ UNCHANGED <<schema, version>>
  <2>1. read = Head
    BY <1>1, <1>4 DEF Pending, Revisions, Head
  <2> QED
    BY <1>1, <1>3, <1>4, <2>1 DEF SchemaInv, TypeOK
<1>5. CASE /\ version = read /\ added \cap schema = {}
           /\ schema' = (schema \cup added) \ dropped /\ version' = Head /\ Goes(r, "up")
  <2>1. schema' = Model
    BY <1>1, <1>5, UpgradeCompletes DEF SchemaInv, TypeOK, NeverAhead
  <2> QED
    BY <1>3, <1>5, <2>1 DEF Head, Revisions
<1> QED
  BY <1>2, <1>4, <1>5 DEF Migrate

LEMMA SchemaStep ==
  ASSUME SchemaInv, [Next]_vars
  PROVE  SchemaInv'
<1>1. CASE UNCHANGED vars
  BY <1>1 DEF vars, SchemaInv, TypeOK, StartTyped, Owned, NeverAhead, UpMeansComplete, StartsFit,
              PatchFits, StampFits, MigrateFits
<1>2. ASSUME NEW r \in Starters, StartUp(r) PROVE SchemaInv'
  BY <1>2, Returns DEF StartUp, SchemaInv, TypeOK
<1>3. ASSUME NEW r \in Starters, Stop(r) PROVE SchemaInv'
  BY <1>3, Returns DEF Stop, SchemaInv, TypeOK
<1>4. ASSUME NEW r \in Starters, Mishap(r) PROVE SchemaInv'
  <2>1. mishaps' \in 0 .. MaxMishaps
    BY <1>4, ConstantsAssumption DEF Mishap, SchemaInv, TypeOK
  <2> QED
    BY <1>4, <2>1, Returns DEF Mishap
<1> QED
  BY <1>1, <1>2, <1>3, <1>4, InspectKeepsInv, ApplyPatchKeepsInv, StampKeepsInv,
     ReadRevisionKeepsInv, MigrateKeepsInv DEF Next, Advance

LEMMA SchemaInvHolds == Spec => []SchemaInv
<1>1. Init => SchemaInv
  BY SchemaInit
<1>2. SchemaInv /\ [Next]_vars => SchemaInv'
  BY SchemaStep
<1> QED
  BY <1>1, <1>2, PTL DEF Spec

\* The schema has nothing the migrations do not know, and a process that has
\* decided on a patch knows the revision it is going to stamp.
THEOREM SchemaTyped == Spec => []TypeOK
<1>1. SchemaInv => TypeOK
  BY DEF SchemaInv
<1> QED
  BY <1>1, SchemaInvHolds, PTL

\* Whatever processes stamp, in whatever order, and wherever one dies: the
\* database has all of its revision (_legacy_schema_patch and the stamp in
\* init_db, which may act on an inspection another process has outdated).
THEOREM RevisionIsCovered == Spec => []NeverAhead
<1>1. SchemaInv => NeverAhead
  BY DEF SchemaInv
<1> QED
  BY <1>1, SchemaInvHolds, PTL

\* A process that serves has the whole model under it, whatever release made
\* the database and however many processes started with it (init_db).
THEOREM ServersHaveTheModel == Spec => []UpMeansComplete
<1>1. SchemaInv => UpMeansComplete
  BY DEF SchemaInv
<1> QED
  BY <1>1, SchemaInvHolds, PTL
=============================================================================
