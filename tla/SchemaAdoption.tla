--------------------------- MODULE SchemaAdoption ---------------------------
(***************************************************************************)
(* The database schema when an API process starts (init_db, app/db.py and  *)
(* migrations/): Alembic upgrades a database that carries a revision; one  *)
(* that carries none, made by create_all of some release, is adopted first:*)
(* inspected and patched, then stamped with the revision it resembles.     *)
(*                                                                         *)
(* Inspection and patch share a transaction, the stamp and the upgrade have*)
(* one each, and there is no lock: a process may die in between, and other *)
(* processes start at the same time.                                       *)
(***************************************************************************)
EXTENDS Integers, FiniteSets

CONSTANTS
  Starters,    \* API processes
  MaxMishaps   \* bound: deaths of a starting process, and lost databases

ASSUME ConstantsAssumption == MaxMishaps \in Nat

VARIABLES
  schema,     \* the tables, columns and constraints the database has
  version,    \* the revision in alembic_version, 0 without that table
  start,      \* Starters -> how far init_db is, the patch it decided on, and the
              \* revision it is going to stamp or has read
  mishaps,    \* how many there were
  overtaken   \* history: a stamp replaced a revision another process had set

vars == <<schema, version, start, mishaps, overtaken>>

-----------------------------------------------------------------------------
(* Schemas.  An item is a pair of a table and what of the table it is:     *)
(* "table" for its existence, "rest" for the columns no code treats apart. *)

LegacyTables    == {"jobs", "documents", "audit_events", "job_inputs", "job_outputs"}
WebhookTables   == {"webhook_endpoints", "webhook_deliveries"}
WorkspaceTables == {"workspaces", "api_keys"}
OwnedTables     == {"jobs", "documents", "audit_events"} \cup WebhookTables
ModelTables     == LegacyTables \cup WebhookTables \cup WorkspaceTables

Fingerprint == <<"jobs", "idempotency_fingerprint">>
QueueId     == <<"jobs", "queue_job_id">>
QueueIndex  == <<"jobs", "ix_jobs_queue_job_id">>
DeletedAt   == <<"documents", "deleted_at">>
KeyUnique   == <<"jobs", "uq_jobs_idempotency_key">>
OwnedKeyUnique == <<"jobs", "uq_jobs_workspace_idempotency_key">>
WorkspaceIds   == OwnedTables \X {"workspace_id"}
NotColumns     == (ModelTables \X {"table"}) \cup {QueueIndex, KeyUnique, OwnedKeyUnique}

NewTables(tables) == tables \X {"table", "rest"}

Revisions == 1 .. 5
Head == 5

\* What upgrade() of each migration adds.
InitialSchema    == NewTables(LegacyTables) \cup {Fingerprint, KeyUnique}
JobQueueId       == {QueueId, QueueIndex}
Webhooks         == NewTables(WebhookTables)
DocumentDeletion == {DeletedAt}
Workspaces       == NewTables(WorkspaceTables) \cup WorkspaceIds \cup {OwnedKeyUnique}

Adds == <<InitialSchema, JobQueueId, Webhooks, DocumentDeletion, Workspaces>>

\* What it drops.
Drops(v) == IF v = 5 THEN {KeyUnique} ELSE {}

AtRevision(v) == (UNION {Adds[i] : i \in 1 .. v}) \ Drops(v)
Model == AtRevision(Head)
ModelColumns == Model \ NotColumns

Tables(s) == {t \in ModelTables : <<t, "table">> \in s}

\* The models of an unversioned release: the first had no fingerprint yet.
ReleaseModel(r) == IF r = 0 THEN AtRevision(1) \ {Fingerprint} ELSE AtRevision(r)

\* create_all adds the tables that are missing, and nothing to those that exist.
CreateAll(s, r) == s \cup {i \in ReleaseModel(r) : i[1] \notin Tables(s)}

Unversioned == {CreateAll(CreateAll({}, first), next) : first, next \in 0 .. Head}

\* Somebody dropped a table or a column by hand.
Damaged(s) ==
  {s \ {i} : i \in {j \in s : j \notin NotColumns}}
    \cup {{i \in s : i[1] # t} : t \in Tables(s)}

-----------------------------------------------------------------------------
(* _legacy_schema_patch.  A name that ends in _ and a word is the          *)
(* definition below it with a bug.                                         *)

AdoptsWholeModel(s) == ModelTables \subseteq Tables(s)

HasWebhooks(s) == WebhookTables \subseteq Tables(s)

StampRevision(s) ==
  IF AdoptsWholeModel(s) THEN Head
  ELSE IF HasWebhooks(s) THEN IF DeletedAt \in s THEN 4 ELSE 3
  ELSE 2

TablesToCheck(s) ==
  IF AdoptsWholeModel(s) THEN ModelTables
  ELSE LegacyTables \cup (IF HasWebhooks(s) THEN WebhookTables ELSE {})

\* Mutant: columns of later migrations are excused where none will run.
PostRevisionColumns_Always(v) == WorkspaceIds \cup (IF v < 4 THEN {DeletedAt} ELSE {})

\* Mutant: a column of a later migration counts as missing now.
PostRevisionColumns_NotDeletedAt(v) == IF v = Head THEN {} ELSE WorkspaceIds

\* Columns of the migrations that will run after the stamp.
PostRevisionColumns(v) ==
  IF v = Head THEN {} ELSE WorkspaceIds \cup (IF v < 4 THEN {DeletedAt} ELSE {})

MissingColumns(s) ==
  {c \in ModelColumns \ s : c[1] \in TablesToCheck(s)} \ PostRevisionColumns(StampRevision(s))

AdoptableColumns == {Fingerprint, QueueId, DeletedAt}

\* Mutant: only the tables are looked at.
Refused_TablesOnly(s) == ~ LegacyTables \subseteq Tables(s)

\* RuntimeError: the start ends, and so does every later one.
Refused(s) ==
  \/ ~ LegacyTables \subseteq Tables(s)
  \/ /\ ~AdoptsWholeModel(s)
     /\ \/ WorkspaceTables \cap Tables(s) # {}
        \/ ~HasWebhooks(s) /\ WebhookTables \cap Tables(s) # {}
        \/ ~HasWebhooks(s) /\ DeletedAt \in s
  \/ ~ MissingColumns(s) \subseteq AdoptableColumns

-----------------------------------------------------------------------------
Idle(pc) == [pc |-> pc, columns |-> {}, stamp |-> 0]

Init ==
  /\ \/ version = 0 /\ schema \in {{}} \cup Unversioned \cup UNION {Damaged(s) : s \in Unversioned}
     \/ version \in Revisions /\ schema = AtRevision(version)
  /\ start = [r \in Starters |-> Idle("down")]
  /\ mishaps = 0
  /\ overtaken = FALSE

Goes(r, pc) == start' = [start EXCEPT ![r] = Idle(pc)]

\* A process is started, or started again after it failed.
StartUp(r) ==
  /\ start[r].pc \in {"down", "failed"}
  /\ Goes(r, "inspect")
  /\ UNCHANGED <<schema, version, mishaps, overtaken>>

\* A start that runs into an error other than OperationalError gives up.
Inspect(r) ==
  /\ start[r].pc = "inspect"
  /\ \/ (version # 0 \/ Tables(schema) = {}) /\ Goes(r, "upgrade")
     \/ version = 0 /\ Tables(schema) # {} /\ Refused(schema) /\ Goes(r, "failed")
     \/ /\ version = 0 /\ Tables(schema) # {} /\ ~Refused(schema)
        /\ start' = [start EXCEPT ![r] = [pc |-> "patch", columns |-> MissingColumns(schema),
                                          stamp |-> StampRevision(schema)]]
  /\ UNCHANGED <<schema, version, mishaps, overtaken>>

\* ADD COLUMN fails on a column that another process has added since the
\* inspection; CREATE INDEX IF NOT EXISTS does not mind.  The index is always
\* due: a database whose jobs lack queue_job_id is given it first.
ApplyPatch(r) ==
  /\ start[r].pc = "patch"
  /\ \/ /\ start[r].columns \cap schema = {}
        /\ schema' = schema \cup start[r].columns \cup {QueueIndex}
        /\ start' = [start EXCEPT ![r].pc = "stamp"]
     \/ start[r].columns \cap schema # {} /\ Goes(r, "failed") /\ UNCHANGED schema
  /\ UNCHANGED <<version, mishaps, overtaken>>

\* The stamp is what the inspection found, whatever has happened since.
Stamp(r) ==
  /\ start[r].pc = "stamp"
  /\ version' = start[r].stamp
  /\ overtaken' = (overtaken \/ version > start[r].stamp)
  /\ Goes(r, "upgrade")
  /\ UNCHANGED <<schema, mishaps>>

\* Mutant: off by one.
Pending_SkipsOne(v) == {m \in Revisions : m > v + 1}

Pending(v) == {m \in Revisions : m > v}

\* Alembic reads the revision and plans its migrations from it ...
ReadRevision(r) ==
  /\ start[r].pc = "upgrade"
  /\ start' = [start EXCEPT ![r] = [Idle("migrate") EXCEPT !.stamp = version]]
  /\ UNCHANGED <<schema, version, mishaps, overtaken>>

\* ... which share its transaction.  A CREATE TABLE or ADD COLUMN of what
\* exists, a DROP of what does not, or a revision that is no more the one read
\* when it is to be replaced fails and undoes them all.
Migrate(r) ==
  LET read    == start[r].stamp
      added   == UNION {Adds[m] : m \in Pending(read)}
      dropped == UNION {Drops(m) : m \in Pending(read)}
      works   == version = read /\ added \cap schema = {} /\ dropped \subseteq schema \cup added
  IN  /\ start[r].pc = "migrate"
      /\ \/ Pending(read) = {} /\ Goes(r, "up") /\ UNCHANGED <<schema, version>>
         \/ /\ Pending(read) # {} /\ works
            /\ schema' = (schema \cup added) \ dropped
            /\ version' = Head
            /\ Goes(r, "up")
         \/ Pending(read) # {} /\ ~works /\ Goes(r, "failed") /\ UNCHANGED <<schema, version>>
      /\ UNCHANGED <<mishaps, overtaken>>

Starting(r) == start[r].pc \in {"inspect", "patch", "stamp", "upgrade", "migrate"}

\* The process dies, or the database is lost (OperationalError): init_db begins
\* again with create_schema, and after its last attempt gives up.
Mishap(r) ==
  /\ Starting(r) /\ mishaps < MaxMishaps
  /\ mishaps' = mishaps + 1
  /\ Goes(r, "inspect") \/ Goes(r, "down")
  /\ UNCHANGED <<schema, version, overtaken>>

Stop(r) ==
  /\ start[r].pc = "up"
  /\ Goes(r, "down")
  /\ UNCHANGED <<schema, version, mishaps, overtaken>>

Advance(r) ==
  \/ StartUp(r) \/ Inspect(r) \/ ApplyPatch(r) \/ Stamp(r) \/ ReadRevision(r) \/ Migrate(r)

Next == \E r \in Starters : Advance(r) \/ Mishap(r) \/ Stop(r)

Spec == Init /\ [][Next]_vars

\* A process that was started runs, and one that ended is started again.
FairSpec == Spec /\ \A r \in Starters : WF_vars(Advance(r))

-----------------------------------------------------------------------------
\* Type of the state; a process that has decided on a patch knows the revision
\* it is going to stamp.
TypeOK ==
  /\ schema \subseteq Model \cup {KeyUnique}
  /\ version \in {0} \cup Revisions
  /\ \A r \in Starters :
       /\ start[r].pc \in {"down", "inspect", "patch", "stamp", "upgrade", "migrate", "up", "failed"}
       /\ start[r].columns \subseteq AdoptableColumns
       /\ start[r].pc \in {"patch", "stamp"} => start[r].stamp # 0
       /\ start[r].stamp # 0 => start[r].pc \in {"patch", "stamp", "migrate"}
  /\ mishaps \in 0 .. MaxMishaps

\* The database is never stamped too far ahead: it has every table, column and
\* constraint of its revision and of those before that no later one has dropped.
NeverAhead == AtRevision(version) \cap Model \subseteq schema

\* An API process that serves has the whole model under it, whatever database it
\* found, wherever starts before it ended and whoever started with it.
UpMeansComplete == \A r \in Starters : start[r].pc = "up" => schema = Model

\* A database is adopted, patched and upgraded in the end, however often a start
\* was cut off: unless it is refused for what it lacks, or a slower process has
\* put back its older stamp, some process serves.
Hopeless == version = 0 /\ Tables(schema) # {} /\ Refused(schema)
AdoptionSucceeds == []<>(Hopeless \/ overtaken \/ \E r \in Starters : start[r].pc = "up")
=============================================================================
