------------------------------- MODULE ApiKeys -------------------------------
(***************************************************************************)
(* The API keys of the default workspace: how a starting API process seeds *)
(* the first one (app/services/auth.py) and how calls and the command line *)
(* create, rotate and revoke them (app/services/workspaces.py).            *)
(*                                                                         *)
(* Every one of these locks the workspace row, decides on what it then     *)
(* reads, and commits what it decided in a later action.  A refused call   *)
(* changes nothing and has no action.  Without migration 0005's seed row   *)
(* there is nothing to lock yet, and starting processes race to insert it. *)
(***************************************************************************)
EXTENDS Integers, FiniteSets

CONSTANTS
  Keys,      \* key ids
  Callers,   \* API calls and command lines that can be in flight at once
  Replicas,  \* API processes
  None       \* a free lock, no key

ASSUME ConstantsAssumption ==
  /\ IsFiniteSet(Keys)
  /\ Callers \cap Replicas = {}
  /\ None \notin Callers \cup Replicas \cup Keys

VARIABLES
  exists,  \* the workspace row is committed
  wlock,   \* who holds the lock on the row, or is inserting it, or None
  key,     \* Keys -> the row: its status, and whether it is an administrator's
  call,    \* Callers -> what a call that has the lock is about to commit
  boot,    \* Replicas -> where ensure_bootstrap_identity is
  heirs    \* history, Keys -> the keys that replaced it in a rotation

vars == <<exists, wlock, key, call, boot, heirs>>

AbsentKey == [status |-> "absent", admin |-> FALSE]
IdleCall == [pc |-> "idle", target |-> None]

BootPC == {"start", "insert", "seed", "keep", "conflict", "up", "failed"}

TypeOK ==
  /\ exists \in BOOLEAN
  /\ wlock \in Callers \cup Replicas \cup {None}
  /\ key \in [Keys -> [status : {"absent", "active", "revoked"}, admin : BOOLEAN]]
  /\ call \in [Callers -> [pc : {"idle", "create", "rotate", "revoke"},
                           target : Keys \cup {None}]]
  /\ boot \in [Replicas -> BootPC]
  /\ heirs \in [Keys -> SUBSET Keys]

Init ==
  /\ exists \in BOOLEAN
  /\ wlock = None
  /\ key = [k \in Keys |-> AbsentKey]
  /\ call = [c \in Callers |-> IdleCall]
  /\ boot = [r \in Replicas |-> "start"]
  /\ heirs = [k \in Keys |-> {}]

-----------------------------------------------------------------------------
\* A name that ends in _ and a word is the definition above it with a bug.

Known  == {k \in Keys : key[k].status # "absent"}
Active == {k \in Keys : key[k].status = "active"}

\* A key that is an administrator's is only managed by one, or by an operator.
MayManage(k, allowed) == key[k].admin => allowed

Rotatable_Again(k, allowed) == k \in Known /\ MayManage(k, allowed)
Rotatable(k, allowed) == k \in Active /\ MayManage(k, allowed)

Revocable(k, allowed) ==
  k \in Active /\ MayManage(k, allowed) /\ Cardinality(Active) > 1

\* The workspace has had no key at all.
SeedNeeded_NoAdmin == \A k \in Active : ~key[k].admin
SeedNeeded == Known = {}

LockFor(p) == wlock = None /\ wlock' = p

\* allow_platform_admin: that of the key the call was authenticated with, or
\* an operator's at the command line.
Allowances == {TRUE} \cup {key[k].admin : k \in Active}

Begins(c, pc, k) == call' = [call EXCEPT ![c] = [pc |-> pc, target |-> k]]

Ends(c) == /\ call' = [call EXCEPT ![c] = IdleCall]
           /\ wlock' = None
           /\ UNCHANGED <<exists, boot>>

\* is_platform_admin is never left null.
NewKey_NullAdmin(k, admin) == [key EXCEPT ![k] = [status |-> "active", admin |-> None]]
NewKey(k, admin) == [key EXCEPT ![k] = [status |-> "active", admin |-> admin]]

-----------------------------------------------------------------------------
(* The calls                                                               *)

CreateApiKey(c) ==
  /\ call[c].pc = "idle" /\ exists
  /\ LockFor(c) /\ Begins(c, "create", None)
  /\ UNCHANGED <<exists, key, boot, heirs>>

RotateApiKey(c) ==
  /\ call[c].pc = "idle" /\ exists
  /\ \E k \in Keys, allowed \in Allowances :
       Rotatable(k, allowed) /\ LockFor(c) /\ Begins(c, "rotate", k)
  /\ UNCHANGED <<exists, key, boot, heirs>>

RevokeApiKey_NoLock(c) ==
  /\ call[c].pc = "idle" /\ exists
  /\ \E k \in Keys, allowed \in Allowances :
       Revocable(k, allowed) /\ Begins(c, "revoke", k)
  /\ UNCHANGED <<exists, wlock, key, boot, heirs>>
RevokeApiKey(c) ==
  /\ call[c].pc = "idle" /\ exists
  /\ \E k \in Keys, allowed \in Allowances :
       Revocable(k, allowed) /\ LockFor(c) /\ Begins(c, "revoke", k)
  /\ UNCHANGED <<exists, key, boot, heirs>>

CommitCreate(c) ==
  /\ call[c].pc = "create"
  /\ \E n \in Keys \ Known : key' = NewKey(n, FALSE)
  /\ Ends(c)
  /\ UNCHANGED heirs

\* The replacement has the rights of the key it replaces.
CommitRotate(c) ==
  LET k == call[c].target IN
  /\ call[c].pc = "rotate"
  /\ \E n \in Keys \ Known :
       /\ key' = [NewKey(n, key[k].admin) EXCEPT ![k].status = "revoked"]
       /\ heirs' = [heirs EXCEPT ![k] = @ \cup {n}]
  /\ Ends(c)

CommitRevoke(c) ==
  /\ call[c].pc = "revoke"
  /\ key' = [key EXCEPT ![call[c].target].status = "revoked"]
  /\ Ends(c)
  /\ UNCHANGED heirs

\* A call dies or its transaction fails: it is rolled back.
AbortCall(c) ==
  /\ call[c].pc # "idle"
  /\ Ends(c)
  /\ UNCHANGED <<key, heirs>>

-----------------------------------------------------------------------------
(* ensure_bootstrap_identity                                               *)

Boots(r, pc) == boot' = [boot EXCEPT ![r] = pc]

\* Lock the workspace row and look for a key; or find no row to lock.
LookForKey_NoLock(r) ==
  /\ boot[r] = "start"
  /\ Boots(r, IF ~exists THEN "insert" ELSE IF SeedNeeded THEN "seed" ELSE "keep")
  /\ UNCHANGED <<exists, wlock, key, call, heirs>>
LookForKey(r) ==
  /\ boot[r] = "start"
  /\ \/ ~exists /\ Boots(r, "insert") /\ UNCHANGED wlock
     \/ /\ exists /\ LockFor(r)
        /\ Boots(r, IF SeedNeeded THEN "seed" ELSE "keep")
  /\ UNCHANGED <<exists, key, call, heirs>>

\* An insert waits for one that is under way and conflicts if that commits.
InsertWorkspace_CommitsFirst(r) ==
  /\ boot[r] = "insert" /\ wlock = None
  /\ Boots(r, IF exists THEN "conflict" ELSE "start")
  /\ exists' = TRUE
  /\ UNCHANGED <<wlock, key, call, heirs>>
InsertWorkspace(r) ==
  /\ boot[r] = "insert"
  /\ \/ exists /\ wlock = None /\ Boots(r, "conflict") /\ UNCHANGED wlock
     \/ ~exists /\ LockFor(r) /\ Boots(r, "seed")
  /\ UNCHANGED <<exists, key, call, heirs>>

\* The key, and the workspace if it is new, in one commit.
SeedKey(r) ==
  /\ boot[r] = "seed"
  /\ \E n \in Keys \ Known : key' = NewKey(n, TRUE)
  /\ exists' = TRUE /\ wlock' = None /\ Boots(r, "up")
  /\ UNCHANGED <<call, heirs>>

KeepKeys(r) ==
  /\ boot[r] = "keep"
  /\ wlock' = None /\ Boots(r, "up")
  /\ UNCHANGED <<exists, key, call, heirs>>

\* The conflict is ignored if whoever won has created a key, else raised.
ResolveConflict(r) ==
  /\ boot[r] = "conflict"
  /\ Boots(r, IF Known # {} THEN "up" ELSE "failed")
  /\ UNCHANGED <<exists, wlock, key, call, heirs>>

\* The process dies or is replaced at any time, its transaction rolled back.
Restart(r) ==
  /\ boot[r] # "start"
  /\ Boots(r, "start")
  /\ wlock' = IF wlock = r THEN None ELSE wlock
  /\ UNCHANGED <<exists, key, call, heirs>>

-----------------------------------------------------------------------------
Next ==
  \/ \E c \in Callers :
       \/ CreateApiKey(c) \/ RotateApiKey(c) \/ RevokeApiKey(c)
       \/ CommitCreate(c) \/ CommitRotate(c) \/ CommitRevoke(c) \/ AbortCall(c)
  \/ \E r \in Replicas :
       \/ LookForKey(r) \/ InsertWorkspace(r) \/ SeedKey(r) \/ KeepKeys(r)
       \/ ResolveConflict(r) \/ Restart(r)

Spec == Init /\ [][Next]_vars

-----------------------------------------------------------------------------
\* Once it has a key the workspace always has an active one: revocations and
\* rotations that race never take away the last.
ActiveKeyRemains == Known # {} => Active # {}

\* A key is replaced at most once and an active one has not been: racing
\* rotations do not multiply a key.
OneHeir ==
  \A k \in Keys :
    /\ k \in Active => heirs[k] = {}
    /\ \A m, n \in heirs[k] : m = n

\* There is at most one active administrator key: replicas that start
\* together seed one, and rotations hand it on.
OneAdministrator ==
  \A k, l \in Active : key[k].admin /\ key[l].admin => k = l

\* "Provision the default workspace and its first administrator key, once."
\* (auth.py:130): when the administrator key of a workspace with keys is
\* revoked, no start, whatever its environment says, makes another.
Administrators == {k \in Active : key[k].admin}
NoReseedStep == Known # {} /\ Administrators = {} => Administrators' = {}
NeverReseeded == [][NoReseedStep]_vars

\* No start fails because another one was faster.
NoStartFails == \A r \in Replicas : boot[r] # "failed"
=============================================================================
