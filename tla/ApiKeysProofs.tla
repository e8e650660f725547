--------------------------- MODULE ApiKeysProofs ----------------------------
(***************************************************************************)
(* Theorems about ApiKeys, for every number of keys, calls and replicas.   *)
(* The invariant ties who is about to commit to the workspace lock, and    *)
(* what was read under the lock to what is still true.                     *)
(***************************************************************************)
EXTENDS ApiKeys, FiniteSetTheorems, TLAPS

\* Whoever is about to commit holds the lock, so nobody else is.
HoldersHold ==
  /\ \A c \in Callers : call[c].pc # "idle" => wlock = c /\ exists
  /\ \A r \in Replicas : boot[r] \in {"seed", "keep"} => wlock = r

\* What a call decided on still holds when it commits.
DecisionsHold ==
  \A c \in Callers :
    /\ call[c].pc = "rotate" => call[c].target \in Active
    /\ call[c].pc = "revoke" =>
         call[c].target \in Active /\ \E k \in Active : k # call[c].target

\* The workspace is committed together with its first key, or was there.
StartsHold ==
  /\ ~exists => Known = {}
  /\ \A r \in Replicas :
       /\ boot[r] = "seed" => Known = {}
       /\ boot[r] = "insert" => ~exists \/ Known # {}
       /\ boot[r] = "conflict" => Known # {}

HeirsHold == \A k \in Keys : heirs[k] # {} => key[k].status = "revoked"

KeysInv ==
  /\ TypeOK
  /\ HoldersHold /\ DecisionsHold /\ StartsHold /\ HeirsHold
  /\ ActiveKeyRemains /\ OneHeir /\ OneAdministrator /\ NoStartFails

-----------------------------------------------------------------------------
\* Two or more active keys: one besides any of them.
LEMMA AnotherActive ==
  ASSUME TypeOK, NEW k \in Active, Cardinality(Active) > 1
  PROVE  \E l \in Active : l # k
<1>1. IsFiniteSet(Active)
  <2>1. Active \subseteq Keys  BY DEF Active
  <2> QED  BY <2>1, ConstantsAssumption, FS_Subset
<1>2. SUFFICES ASSUME Active = {k} PROVE FALSE
  OBVIOUS
<1>3. Cardinality({k}) = 1
  BY FS_Singleton
<1> QED
  BY <1>2, <1>3

\* A new key is known and active, and changes nothing about the others.
LEMMA NewKeyIsActive ==
  ASSUME TypeOK, NEW n \in Keys \ Known, NEW a \in BOOLEAN, key' = NewKey(n, a)
  PROVE  /\ Known' = Known \cup {n} /\ Active' = Active \cup {n}
         /\ n \notin Active
         /\ key'[n].admin = a /\ \A k \in Keys \ {n} : key'[k] = key[k]
         /\ key' \in [Keys -> [status : {"absent", "active", "revoked"}, admin : BOOLEAN]]
  BY DEF TypeOK, NewKey, Known, Active

THEOREM InitKeys == Init => KeysInv
  BY DEF Init, KeysInv, TypeOK, HoldersHold, DecisionsHold, StartsHold, HeirsHold,
     ActiveKeyRemains, OneHeir, OneAdministrator, NoStartFails, Known, Active,
     AbsentKey, IdleCall, BootPC

\* A call that starts takes the lock and writes nothing else.
LEMMA BeginsKeep ==
  ASSUME KeysInv, NEW c \in Callers, exists, LockFor(c),
         NEW pc \in {"create", "rotate", "revoke"}, NEW k \in Keys \cup {None},
         Begins(c, pc, k), UNCHANGED <<exists, key, boot, heirs>>,
         pc = "rotate" => k \in Active,
         pc = "revoke" => k \in Active /\ \E l \in Active : l # k
  PROVE  KeysInv'
<1> USE DEF KeysInv, Begins
<1>0. Known' = Known /\ Active' = Active
  BY DEF Known, Active
<1>1. TypeOK'
  BY DEF TypeOK, LockFor
<1>2. HoldersHold'
  BY ConstantsAssumption DEF HoldersHold, LockFor, TypeOK
<1>3. DecisionsHold'
  BY <1>0 DEF DecisionsHold, TypeOK
<1>4. StartsHold' /\ HeirsHold' /\ ActiveKeyRemains' /\ OneHeir' /\ OneAdministrator' /\ NoStartFails'
  BY <1>0 DEF StartsHold, HeirsHold, ActiveKeyRemains, OneHeir, OneAdministrator, NoStartFails
<1> QED
  BY <1>1, <1>2, <1>3, <1>4

\* A call that ends was the only one about to commit.
LEMMA EndsHold ==
  ASSUME KeysInv, NEW c \in Callers, call[c].pc # "idle", Ends(c)
  PROVE  /\ HoldersHold' /\ DecisionsHold' /\ NoStartFails'
         /\ exists /\ exists' /\ wlock' = None /\ boot' = boot
         /\ wlock' \in Callers \cup Replicas \cup {None}
         /\ call' \in [Callers -> [pc : {"idle", "create", "rotate", "revoke"},
                                   target : Keys \cup {None}]]
         /\ \A r \in Replicas : boot[r] \notin {"seed", "keep"}
<1> USE DEF KeysInv, Ends, IdleCall
<1>1. wlock = c /\ exists /\ \A d \in Callers : call'[d].pc = "idle"
  BY DEF HoldersHold, TypeOK
<1>2. \A r \in Replicas : boot[r] \notin {"seed", "keep"}
  BY <1>1, ConstantsAssumption DEF HoldersHold
<1> QED
  BY <1>1, <1>2 DEF HoldersHold, DecisionsHold, NoStartFails, TypeOK

LEMMA CommitCreateKeeps ==
  ASSUME KeysInv, NEW c \in Callers, CommitCreate(c)
  PROVE  KeysInv'
<1>1. PICK n \in Keys \ Known : key' = NewKey(n, FALSE)
  BY DEF CommitCreate
<1>2. call[c].pc # "idle" /\ Ends(c) /\ heirs' = heirs
  BY DEF CommitCreate
<1> USE DEF KeysInv
<1>3. /\ Known' = Known \cup {n} /\ Active' = Active \cup {n} /\ n \notin Active
      /\ key'[n].admin = FALSE /\ \A k \in Keys \ {n} : key'[k] = key[k]
      /\ key' \in [Keys -> [status : {"absent", "active", "revoked"}, admin : BOOLEAN]]
  BY <1>1, NewKeyIsActive
<1>4. TypeOK'
  BY <1>2, <1>3, EndsHold DEF TypeOK
<1>5. StartsHold'
  BY <1>2, <1>3, EndsHold DEF StartsHold
<1>6. heirs[n] = {}
  BY <1>1 DEF HeirsHold, Known, TypeOK
<1>7. HeirsHold' /\ OneHeir'
  BY <1>1, <1>2, <1>3, <1>6 DEF HeirsHold, OneHeir, TypeOK
<1>8. ActiveKeyRemains' /\ OneAdministrator'
  BY <1>3 DEF ActiveKeyRemains, OneAdministrator, Active
<1> QED
  BY <1>2, <1>4, <1>5, <1>7, <1>8, EndsHold

\* The two ends of a rotation are one commit: the new key is active and the
\* old one is not.
LEMMA RotationMoves ==
  ASSUME KeysInv, NEW c \in Callers, call[c].pc = "rotate",
         NEW k, k = call[c].target, NEW n \in Keys \ Known,
         key' = [NewKey(n, key[k].admin) EXCEPT ![k].status = "revoked"]
  PROVE  /\ k \in Active /\ k # n
         /\ Known' = Known \cup {n} /\ Active' = (Active \ {k}) \cup {n}
         /\ key'[n].admin = key[k].admin /\ key'[k].status = "revoked"
         /\ \A l \in Keys \ {n, k} : key'[l] = key[l]
         /\ key' \in [Keys -> [status : {"absent", "active", "revoked"}, admin : BOOLEAN]]
<1>1. k \in Active /\ k \in Keys
  BY DEF KeysInv, DecisionsHold, Active
<1>2. k \in Known /\ k # n /\ key[k].admin \in BOOLEAN
  BY <1>1 DEF Active, Known, KeysInv, TypeOK
<1> QED
  BY <1>1, <1>2 DEF KeysInv, TypeOK, NewKey, Known, Active

LEMMA CommitRotateKeeps ==
  ASSUME KeysInv, NEW c \in Callers, CommitRotate(c)
  PROVE  KeysInv'
<1> DEFINE k == call[c].target
<1>1. PICK n \in Keys \ Known :
        /\ key' = [NewKey(n, key[k].admin) EXCEPT ![k].status = "revoked"]
        /\ heirs' = [heirs EXCEPT ![k] = @ \cup {n}]
  BY DEF CommitRotate
<1>2. call[c].pc = "rotate" /\ call[c].pc # "idle" /\ Ends(c)
  BY DEF CommitRotate
<1>3. /\ k \in Active /\ k # n
      /\ Known' = Known \cup {n} /\ Active' = (Active \ {k}) \cup {n}
      /\ key'[n].admin = key[k].admin /\ key'[k].status = "revoked"
      /\ \A l \in Keys \ {n, k} : key'[l] = key[l]
      /\ key' \in [Keys -> [status : {"absent", "active", "revoked"}, admin : BOOLEAN]]
  BY <1>1, <1>2, RotationMoves
<1> HIDE DEF k
<1> USE DEF KeysInv
<1>4. k \in Keys /\ heirs[k] = {} /\ heirs[n] = {}
  BY <1>1, <1>3 DEF HeirsHold, OneHeir, Known, Active, TypeOK
<1>5. TypeOK'
  BY <1>1, <1>2, <1>3, <1>4, EndsHold DEF TypeOK
<1>6. StartsHold'
  BY <1>2, <1>3, EndsHold DEF StartsHold
<1>7. \A l \in Keys : heirs'[l] = IF l = k THEN {n} ELSE heirs[l]
  BY <1>1, <1>4 DEF TypeOK
<1>8. HeirsHold' /\ OneHeir'
  BY <1>1, <1>3, <1>4, <1>7 DEF HeirsHold, OneHeir, Active
<1>9. ActiveKeyRemains' /\ OneAdministrator'
  BY <1>3, <1>4 DEF ActiveKeyRemains, OneAdministrator, Active
<1> QED
  BY <1>2, <1>5, <1>6, <1>8, <1>9, EndsHold

LEMMA CommitRevokeKeeps ==
  ASSUME KeysInv, NEW c \in Callers, CommitRevoke(c)
  PROVE  KeysInv'
<1> DEFINE k == call[c].target
<1>1. call[c].pc # "idle" /\ Ends(c) /\ heirs' = heirs
  BY DEF CommitRevoke
<1> USE DEF KeysInv
<1>2. k \in Active /\ k \in Keys /\ \E l \in Active : l # k
  BY DEF CommitRevoke, DecisionsHold, Active
<1>3. key' = [key EXCEPT ![k].status = "revoked"]
  BY DEF CommitRevoke
<1> HIDE DEF k
<1>4. /\ Known' = Known /\ Active' = Active \ {k} /\ key'[k].status = "revoked"
      /\ \A l \in Keys \ {k} : key'[l] = key[l]
      /\ key' \in [Keys -> [status : {"absent", "active", "revoked"}, admin : BOOLEAN]]
  BY <1>2, <1>3 DEF TypeOK, Known, Active
<1>5. TypeOK'
  BY <1>1, <1>4, EndsHold DEF TypeOK
<1>6. StartsHold'
  BY <1>1, <1>4, EndsHold DEF StartsHold
<1>7. HeirsHold' /\ OneHeir' /\ ActiveKeyRemains' /\ OneAdministrator'
  BY <1>1, <1>2, <1>4
  DEF HeirsHold, OneHeir, ActiveKeyRemains, OneAdministrator, Active
<1> QED
  BY <1>1, <1>5, <1>6, <1>7, EndsHold

LEMMA AbortCallKeeps ==
  ASSUME KeysInv, NEW c \in Callers, AbortCall(c)
  PROVE  KeysInv'
<1>1. call[c].pc # "idle" /\ Ends(c) /\ key' = key /\ heirs' = heirs
  BY DEF AbortCall
<1>2. Known' = Known /\ Active' = Active
  BY <1>1 DEF Known, Active
<1> QED
  BY <1>1, <1>2, EndsHold
  DEF KeysInv, TypeOK, StartsHold, HeirsHold, ActiveKeyRemains, OneHeir, OneAdministrator

LEMMA CallsKeep ==
  ASSUME KeysInv, NEW c \in Callers,
         \/ CreateApiKey(c) \/ RotateApiKey(c) \/ RevokeApiKey(c)
         \/ CommitCreate(c) \/ CommitRotate(c) \/ CommitRevoke(c) \/ AbortCall(c)
  PROVE  KeysInv'
<1>1. CASE CreateApiKey(c)
  <2>1. None \in Keys \cup {None}  OBVIOUS
  <2> QED  BY <1>1, <2>1, BeginsKeep DEF CreateApiKey
<1>2. CASE RotateApiKey(c)
  <2>1. PICK k \in Keys, allowed \in Allowances :
          Rotatable(k, allowed) /\ LockFor(c) /\ Begins(c, "rotate", k)
    BY <1>2 DEF RotateApiKey
  <2> QED
    BY <1>2, <2>1, BeginsKeep DEF RotateApiKey, Rotatable
<1>3. CASE RevokeApiKey(c)
  <2>1. PICK k \in Keys, allowed \in Allowances :
          Revocable(k, allowed) /\ LockFor(c) /\ Begins(c, "revoke", k)
    BY <1>3 DEF RevokeApiKey
  <2>2. k \in Active /\ \E l \in Active : l # k
    BY <2>1, AnotherActive DEF Revocable, KeysInv
  <2> QED
    BY <1>3, <2>1, <2>2, BeginsKeep DEF RevokeApiKey
<1> QED
  BY <1>1, <1>2, <1>3, CommitCreateKeeps, CommitRotateKeeps, CommitRevokeKeeps,
     AbortCallKeeps

-----------------------------------------------------------------------------
\* A start moves on and writes no key.
LEMMA BootsKeep ==
  ASSUME KeysInv, NEW r \in Replicas, NEW pc \in BootPC \ {"failed"}, Boots(r, pc),
         UNCHANGED <<exists, key, call, heirs>>,
         \/ LockFor(r)
         \/ wlock' = wlock /\ pc \notin {"seed", "keep"}
         \/ /\ wlock' = (IF wlock = r THEN None ELSE wlock) /\ pc \notin {"seed", "keep"},
         pc = "seed" => Known = {},
         pc = "insert" => ~exists \/ Known # {},
         pc = "conflict" => Known # {}
  PROVE  KeysInv'
<1> USE DEF KeysInv, Boots
<1>1. Known' = Known /\ Active' = Active
  BY DEF Known, Active
<1>2. TypeOK'
  BY DEF TypeOK, LockFor
<1>3. HoldersHold'
  BY ConstantsAssumption DEF HoldersHold, LockFor, TypeOK
<1>4. StartsHold' /\ NoStartFails'
  BY <1>1 DEF StartsHold, NoStartFails, TypeOK
<1>5. DecisionsHold' /\ HeirsHold' /\ ActiveKeyRemains' /\ OneHeir' /\ OneAdministrator'
  BY <1>1 DEF DecisionsHold, HeirsHold, ActiveKeyRemains, OneHeir, OneAdministrator
<1> QED
  BY <1>2, <1>3, <1>4, <1>5

LEMMA SeedKeyKeeps ==
  ASSUME KeysInv, NEW r \in Replicas, SeedKey(r)
  PROVE  KeysInv'
<1> USE DEF KeysInv
<1>1. PICK n \in Keys \ Known : key' = NewKey(n, TRUE)
  BY DEF SeedKey
<1>2. Known = {} /\ Active = {} /\ wlock = r
  BY DEF SeedKey, StartsHold, HoldersHold, Known, Active
<1>3. /\ Known' = {n} /\ Active' = {n}
      /\ \A k \in Keys \ {n} : key'[k] = key[k]
      /\ key' \in [Keys -> [status : {"absent", "active", "revoked"}, admin : BOOLEAN]]
  BY <1>1, <1>2, NewKeyIsActive
<1>4. /\ \A c \in Callers : call[c].pc = "idle"
      /\ \A q \in Replicas \ {r} : boot[q] \notin {"seed", "keep"}
  BY <1>2, ConstantsAssumption DEF HoldersHold, TypeOK
<1>5. /\ exists' = TRUE /\ wlock' = None /\ call' = call /\ heirs' = heirs
      /\ boot' = [boot EXCEPT ![r] = "up"]
  BY DEF SeedKey, Boots
<1>6. TypeOK'
  BY <1>3, <1>5 DEF TypeOK, BootPC
<1>7. HoldersHold' /\ DecisionsHold'
  BY <1>4, <1>5 DEF HoldersHold, DecisionsHold, TypeOK
<1>8. StartsHold' /\ NoStartFails'
  BY <1>3, <1>4, <1>5 DEF StartsHold, NoStartFails, TypeOK
<1>9. \A k \in Keys : heirs[k] = {}
  BY <1>2 DEF HeirsHold, Known, TypeOK
<1>10. HeirsHold' /\ OneHeir' /\ ActiveKeyRemains' /\ OneAdministrator'
  BY <1>3, <1>5, <1>9 DEF HeirsHold, OneHeir, ActiveKeyRemains, OneAdministrator
<1> QED
  BY <1>6, <1>7, <1>8, <1>10

LEMMA StartsKeep ==
  ASSUME KeysInv, NEW r \in Replicas,
         \/ LookForKey(r) \/ InsertWorkspace(r) \/ SeedKey(r) \/ KeepKeys(r)
         \/ ResolveConflict(r) \/ Restart(r)
  PROVE  KeysInv'
<1>1. CASE LookForKey(r)
  <2>1. CASE ~exists
    BY <1>1, <2>1, BootsKeep DEF LookForKey, BootPC
  <2>2. CASE exists /\ SeedNeeded
    BY <1>1, <2>2, BootsKeep DEF LookForKey, BootPC, SeedNeeded
  <2>3. CASE exists /\ ~SeedNeeded
    BY <1>1, <2>3, BootsKeep DEF LookForKey, BootPC
  <2> QED  BY <2>1, <2>2, <2>3
<1>2. CASE InsertWorkspace(r)
  <2>1. CASE exists
    <3>1. Known # {}  BY <1>2, <2>1 DEF InsertWorkspace, KeysInv, StartsHold
    <3> QED  BY <1>2, <2>1, <3>1, BootsKeep DEF InsertWorkspace, BootPC
  <2>2. CASE ~exists
    <3>1. Known = {}  BY <2>2 DEF KeysInv, StartsHold
    <3> QED  BY <1>2, <2>2, <3>1, BootsKeep DEF InsertWorkspace, BootPC
  <2> QED  BY <2>1, <2>2
<1>3. CASE KeepKeys(r)
  <2>1. wlock = r
    BY <1>3 DEF KeepKeys, KeysInv, HoldersHold
  <2> QED
    BY <1>3, <2>1, BootsKeep DEF KeepKeys, BootPC
<1>4. CASE ResolveConflict(r)
  <2>1. Known # {}
    BY <1>4 DEF ResolveConflict, KeysInv, StartsHold
  <2> QED
    BY <1>4, <2>1, BootsKeep DEF ResolveConflict, BootPC
<1>5. CASE Restart(r)
  BY <1>5, BootsKeep DEF Restart, BootPC
<1> QED
  BY <1>1, <1>2, <1>3, <1>4, <1>5, SeedKeyKeeps

LEMMA StutterKeeps == KeysInv /\ UNCHANGED vars => KeysInv'
  BY DEF vars, KeysInv, TypeOK, HoldersHold, DecisionsHold, StartsHold, HeirsHold,
     ActiveKeyRemains, OneHeir, OneAdministrator, NoStartFails, Known, Active

\* The inductive invariant holds in every reachable state.
THEOREM KeysSafe == Spec => []KeysInv
<1>1. KeysInv /\ [Next]_vars => KeysInv'
  BY CallsKeep, StartsKeep, StutterKeeps DEF Next
<1> QED
  BY InitKeys, <1>1, PTL DEF Spec

-----------------------------------------------------------------------------
\* The type invariant of ApiKeys.
THEOREM KeyTypesHold == Spec => []TypeOK
<1>1. KeysInv => TypeOK  BY DEF KeysInv
<1> QED  BY <1>1, KeysSafe, PTL

\* Racing revocations and rotations never take the last active key away.
THEOREM ActiveKeysRemain == Spec => []ActiveKeyRemains
<1>1. KeysInv => ActiveKeyRemains  BY DEF KeysInv
<1> QED  BY <1>1, KeysSafe, PTL

\* Racing rotations never give a key two replacements.
THEOREM HeirsAreUnique == Spec => []OneHeir
<1>1. KeysInv => OneHeir  BY DEF KeysInv
<1> QED  BY <1>1, KeysSafe, PTL

\* However many replicas start together, one administrator key is seeded.
THEOREM AdministratorIsUnique == Spec => []OneAdministrator
<1>1. KeysInv => OneAdministrator  BY DEF KeysInv
<1> QED  BY <1>1, KeysSafe, PTL

\* No replica loses the race to start.
THEOREM StartsSucceed == Spec => []NoStartFails
<1>1. KeysInv => NoStartFails  BY DEF KeysInv
<1> QED  BY <1>1, KeysSafe, PTL

\* Once its administrator key is revoked, a workspace with keys never gets
\* another one from a start or a call.
THEOREM KeysNeverReseeded == Spec => NeverReseeded
<1>1. KeysInv /\ [Next]_vars => [NoReseedStep]_vars
  <2> SUFFICES ASSUME KeysInv, [Next]_vars, Known # {}, Administrators = {}
               PROVE  Administrators' = {}
    BY DEF NoReseedStep
  <2>1. CASE key' = key
    BY <2>1 DEF Administrators, Active
  <2>2. CASE \E c \in Callers : CommitCreate(c)
    <3>1. PICK n \in Keys \ Known : key' = NewKey(n, FALSE)
      BY <2>2 DEF CommitCreate
    <3> QED
      BY <3>1, NewKeyIsActive DEF Administrators, KeysInv, Active
  <2>3. CASE \E c \in Callers : CommitRotate(c)
    <3>1. PICK c \in Callers : CommitRotate(c)
      BY <2>3
    <3> DEFINE k == call[c].target
    <3>2. PICK n \in Keys \ Known :
            key' = [NewKey(n, key[k].admin) EXCEPT ![k].status = "revoked"]
      BY <3>1 DEF CommitRotate
    <3>3. call[c].pc = "rotate"
      BY <3>1 DEF CommitRotate
    <3>4. /\ k \in Active /\ k # n
          /\ Known' = Known \cup {n} /\ Active' = (Active \ {k}) \cup {n}
          /\ key'[n].admin = key[k].admin /\ key'[k].status = "revoked"
          /\ \A l \in Keys \ {n, k} : key'[l] = key[l]
          /\ key' \in [Keys -> [status : {"absent", "active", "revoked"}, admin : BOOLEAN]]
      BY <3>2, <3>3, RotationMoves
    <3> HIDE DEF k
    <3> QED
      BY <3>4 DEF Administrators, Active
  <2>4. CASE \E c \in Callers : CommitRevoke(c)
    BY <2>4 DEF CommitRevoke, Administrators, Active, KeysInv, TypeOK
  <2>5. ~\E r \in Replicas : SeedKey(r)
    BY DEF SeedKey, KeysInv, StartsHold
  <2>6. CASE \E c \in Callers : CreateApiKey(c) \/ RotateApiKey(c) \/ RevokeApiKey(c) \/ AbortCall(c)
    BY <2>1, <2>6 DEF CreateApiKey, RotateApiKey, RevokeApiKey, AbortCall
  <2>7. CASE \E r \in Replicas : \/ LookForKey(r) \/ InsertWorkspace(r) \/ KeepKeys(r)
                                \/ ResolveConflict(r) \/ Restart(r)
    BY <2>1, <2>7 DEF LookForKey, InsertWorkspace, KeepKeys, ResolveConflict, Restart
  <2>8. CASE UNCHANGED vars
    BY <2>1, <2>8 DEF vars
  <2> QED
    BY <2>2, <2>3, <2>4, <2>5, <2>6, <2>7, <2>8 DEF Next
<1> QED
  BY <1>1, KeysSafe, PTL DEF Spec, NeverReseeded
=============================================================================
