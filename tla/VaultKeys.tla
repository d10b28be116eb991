----------------------------- MODULE VaultKeys -----------------------------
(***************************************************************************)
(* The credential vault (vault.rs, vault_api.rs) while servers with        *)
(* different keys serve one profile: a rolling change of the master key.   *)
(* A server has a current key and may have the previous one.  Requests     *)
(* are transactions with row locks: creation takes the row of              *)
(* vault_key_state, replacement the secret and then that row, rotation     *)
(* that row and then every secret under another key, so that replacement   *)
(* and rotation can wait for each other; the database then aborts one.     *)
(***************************************************************************)
EXTENDS Naturals, FiniteSets

CONSTANTS Secrets,       \* ids, numbers: rotation locks them in this order
          VaultServers,
          CurrentKey,    \* CurrentKey[i]: key version a server encrypts with
          PreviousKey,   \* PreviousKey[i]: its other key version, or 0
          VaultRequests, \* requests in progress at a time
          MaxVaultOps    \* bound: requests accepted

\* 0 stands for no key; a lock that nobody has is "free".
ASSUME VaultAssumption == /\ CurrentKey \in [VaultServers -> Nat \ {0}]
                          /\ PreviousKey \in [VaultServers -> Nat]
                          /\ "free" \notin VaultRequests

VARIABLES secret,     \* secret[s]: version (0: no row), purpose and hosts
          keyState,   \* current_key_version, 0 when there is no row
          stateLock, secretLock,   \* who holds a row lock
          vreq,       \* the transactions
          rotated,    \* history: a rotation has committed
          vaultOps

vvars == <<secret, keyState, stateLock, secretLock, vreq, rotated, vaultOps>>
vlocks == <<stateLock, secretLock>>

NoSecret == [version |-> 0, purpose |-> "none", hosts |-> {}]
NoTx     == [pc |-> "idle"]

\* Secrets written before vault_key_state existed have no state row.
VaultInit ==
    /\ \E v \in {0} \cup {CurrentKey[i] : i \in VaultServers} :
          secret = [s \in Secrets |-> IF v # 0 /\ s = 1
                       THEN [version |-> v, purpose |-> "provider", hosts |-> {"public"}] ELSE NoSecret]
    /\ keyState = 0 /\ stateLock = "free" /\ secretLock = [s \in Secrets |-> "free"]
    /\ vreq = [h \in VaultRequests |-> NoTx] /\ rotated = FALSE /\ vaultOps = 0

\* from_settings: the current key and, if there is one, the previous key.
ServerKeys(i) == {CurrentKey[i], PreviousKey[i]} \ {0}
CipherFor(i, version) == version \in ServerKeys(i)
\* resolve_for_provider: purpose and host, then the envelope.
ReadableSecret(i, s, host) ==
    /\ secret[s].purpose = "provider" /\ host \in secret[s].hosts
    /\ CipherFor(i, secret[s].version)

\* Host names are canonical public ones ("public") or not ("private").  MCP
\* purposes take exactly one public host, the others any list.
MetadataOk(purpose, hosts) == purpose = "mcp" => hosts = {"public"}
Inputs == [purpose : {"provider", "mcp"}, hosts : {{"public"}, {"public", "private"}}]

-----------------------------------------------------------------------------
\* Mutant: the row of vault_key_state is read without FOR UPDATE.
StateFreeAlways(h) == TRUE
StateFree(h) == stateLock = "free"

Begin(h, tx) ==
    /\ vreq[h].pc = "idle" /\ vaultOps < MaxVaultOps
    /\ vaultOps' = vaultOps + 1
    /\ vreq' = [vreq EXCEPT ![h] = tx]

\* Commit or rollback: the locks go.
Release(h) ==
    /\ vreq' = [vreq EXCEPT ![h] = NoTx]
    /\ stateLock' = IF stateLock = h THEN "free" ELSE stateLock
    /\ secretLock' = [s \in Secrets |-> IF secretLock[s] = h THEN "free" ELSE secretLock[s]]

RollBack(h) == Release(h) /\ UNCHANGED <<secret, keyState, rotated, vaultOps>>

CreateSecret(h, i, s, in) ==
    /\ secret[s].version = 0 /\ \A g \in VaultRequests : vreq[g].pc # "idle" => vreq[g].s # s
    /\ MetadataOk(in.purpose, in.hosts)
    /\ Begin(h, [pc |-> "fence", i |-> i, s |-> s, value |-> in])
    /\ UNCHANGED <<secret, keyState, vlocks, rotated>>

\* SELECT ... FOR UPDATE of the secret, then the hosts (given or kept).
ReplaceSecret(h, i, s, hosts) ==
    /\ secret[s].version # 0 /\ secretLock[s] = "free"
    /\ MetadataOk(secret[s].purpose, hosts)
    /\ Begin(h, [pc |-> "fence", i |-> i, s |-> s,
                 value |-> [purpose |-> secret[s].purpose, hosts |-> hosts]])
    /\ secretLock' = [secretLock EXCEPT ![s] = h]
    /\ UNCHANGED <<secret, keyState, stateLock, rotated>>

\* fence_current_key: the row is made when there is none, and held.
FenceCurrentKey(h) ==
    /\ vreq[h].pc = "fence" /\ StateFree(h)
    /\ IF keyState \in {0, CurrentKey[vreq[h].i]}
       THEN /\ stateLock' = h
            /\ vreq' = [vreq EXCEPT ![h].pc = "store"]
            /\ UNCHANGED <<secret, keyState, secretLock, rotated, vaultOps>>
       ELSE RollBack(h)

\* The envelope under the current key, the audit row, commit.
StoreSecret(h) ==
    /\ vreq[h].pc = "store"
    /\ secret' = [secret EXCEPT ![vreq[h].s] =
          [version |-> CurrentKey[vreq[h].i], purpose |-> vreq[h].value.purpose,
           hosts |-> vreq[h].value.hosts]]
    /\ keyState' = IF keyState = 0 THEN CurrentKey[vreq[h].i] ELSE keyState
    /\ Release(h)
    /\ UNCHANGED <<rotated, vaultOps>>

\* One statement and the audit row.
DeleteSecret(h, s) ==
    /\ vreq[h].pc = "idle" /\ secret[s].version # 0 /\ secretLock[s] = "free"
    /\ vaultOps < MaxVaultOps /\ vaultOps' = vaultOps + 1
    /\ secret' = [secret EXCEPT ![s] = NoSecret]
    /\ UNCHANGED <<keyState, vlocks, vreq, rotated>>

-----------------------------------------------------------------------------
Stored == {s \in Secrets : secret[s].version # 0}
Lowest == CHOOSE v \in {secret[s].version : s \in Stored} :
              \A s \in Stored : v <= secret[s].version

\* rotate_profile: without a row the oldest stored version stands for it.
RotateSecrets(h, i) ==
    /\ keyState = 0 \/ stateLock = "free"
    /\ Begin(h, [pc |-> IF keyState = 0 THEN "insert" ELSE "check", i |-> i, s |-> 0,
                 from |-> IF keyState # 0 THEN keyState
                          ELSE IF Stored = {} THEN CurrentKey[i] ELSE Lowest])
    /\ stateLock' = IF keyState = 0 THEN stateLock ELSE h
    /\ UNCHANGED <<secret, keyState, secretLock, rotated>>

\* INSERT waits for another transaction's row and fails when that commits.
InsertKeyState(h) ==
    /\ vreq[h].pc = "insert" /\ stateLock = "free"
    /\ IF keyState = 0
       THEN /\ stateLock' = h /\ vreq' = [vreq EXCEPT ![h].pc = "check"]
            /\ UNCHANGED <<secret, keyState, secretLock, rotated, vaultOps>>
       ELSE RollBack(h)

\* The rows under another key, as this statement sees them.
SelectOldSecrets(h) ==
    /\ vreq[h].pc = "check"
    /\ IF CipherFor(vreq[h].i, vreq[h].from)
       THEN /\ vreq' = [vreq EXCEPT ![h] = [pc |-> "lock", i |-> @.i, s |-> 0, from |-> @.from,
                  rows |-> {s \in Stored : secret[s].version # CurrentKey[@.i]}]]
            /\ UNCHANGED <<secret, keyState, vlocks, rotated, vaultOps>>
       ELSE RollBack(h)

\* The next row in the order of the ids; one that went away is skipped, one
\* whose key is not configured ends the rotation.
LockOldSecret(h) ==
    /\ vreq[h].pc = "lock"
    /\ \E s \in {r \in vreq[h].rows : secretLock[r] # h} :
          /\ \A r \in vreq[h].rows : secretLock[r] # h => s <= r
          /\ secretLock[s] = "free"
          /\ IF secret[s].version \in {0, CurrentKey[vreq[h].i]}
             THEN /\ vreq' = [vreq EXCEPT ![h].rows = @ \ {s}]
                  /\ UNCHANGED <<secret, keyState, vlocks, rotated, vaultOps>>
             ELSE IF CipherFor(vreq[h].i, secret[s].version)
             THEN /\ secretLock' = [secretLock EXCEPT ![s] = h]
                  /\ UNCHANGED <<secret, keyState, stateLock, vreq, rotated, vaultOps>>
             ELSE RollBack(h)

\* Every locked row is encrypted again; all of it commits at once.
RotationCommit(h) ==
    /\ vreq[h].pc = "lock" /\ \A s \in vreq[h].rows : secretLock[s] = h
    /\ secret' = [s \in Secrets |-> IF s \in vreq[h].rows
                     THEN [secret[s] EXCEPT !.version = CurrentKey[vreq[h].i]] ELSE secret[s]]
    /\ keyState' = CurrentKey[vreq[h].i] /\ rotated' = TRUE
    /\ Release(h)
    /\ UNCHANGED vaultOps

\* PostgreSQL finds a replacement and a rotation that wait for each other and
\* ends one of them: the caller sees an internal error.
Deadlocked(h, g) ==
    /\ vreq[h].pc = "fence" /\ stateLock = g /\ vreq[g].pc = "lock"
    /\ vreq[h].s \in vreq[g].rows /\ secretLock[vreq[h].s] = h
BreakDeadlock(h) ==
    /\ \E g \in VaultRequests : Deadlocked(h, g) \/ Deadlocked(g, h)
    /\ RollBack(h)

VaultNext ==
    \E h \in VaultRequests :
        \/ FenceCurrentKey(h) \/ StoreSecret(h) \/ InsertKeyState(h) \/ SelectOldSecrets(h)
        \/ LockOldSecret(h) \/ RotationCommit(h) \/ BreakDeadlock(h)
        \/ \E s \in Secrets : DeleteSecret(h, s)
        \/ \E i \in VaultServers :
              \/ RotateSecrets(h, i)
              \/ \E s \in Secrets, in \in Inputs :
                    CreateSecret(h, i, s, in) \/ ReplaceSecret(h, i, s, in.hosts)

VaultSpec == VaultInit /\ [][VaultNext]_vvars

-----------------------------------------------------------------------------
VaultTypeOK ==
    /\ keyState \in {0} \cup {CurrentKey[i] : i \in VaultServers}
    /\ \A s \in Secrets : secretLock[s] \in VaultRequests \cup {"free"}
    /\ stateLock \in VaultRequests \cup {"free"}

(***************************************************************************)
(* From the first rotation on, every secret is under the key version that  *)
(* vault_key_state names, although servers with the older key keep writing *)
(* secrets during and after the rotation: a server that has that key can   *)
(* resolve all of them for a provider.  An MCP secret keeps its one public *)
(* host throughout.                                                        *)
(***************************************************************************)
OneKeyAfterRotation ==
    /\ rotated => \A s \in Stored : secret[s].version = keyState
    /\ rotated => \A i \in VaultServers, s \in Stored :
          CipherFor(i, keyState) /\ secret[s].purpose = "provider" => ReadableSecret(i, s, "public")
    /\ \A s \in Stored : MetadataOk(secret[s].purpose, secret[s].hosts)
=============================================================================
