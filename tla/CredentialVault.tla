-------------------------- MODULE CredentialVault --------------------------
(***************************************************************************)
(* backend/app/auth/vault.py: one encrypted file holding three namespaces, *)
(* each owned by one in-memory store (auth/store.py,                       *)
(* auth/provider_sessions.py, services/ai_settings.py).  An owner, under   *)
(* its own lock, computes its next content, has the vault write the whole  *)
(* file and only then changes its memory.                                  *)
(*                                                                         *)
(* A write is split at the points where another thread, an I/O error, a    *)
(* crash or a power loss makes a difference: waiting for the vault lock,   *)
(* temporary file staged, file replaced, directory synced.  A content of   *)
(* the file is a function from namespaces to values.                       *)
(***************************************************************************)
EXTENDS Naturals, FiniteSets

CONSTANTS
    Namespaces,   \* source_credentials, provider_sessions, ai_credential
    Values,       \* contents of a namespace, told apart only by equality
    Blank,        \* the content of a namespace that was never written
    Idle,         \* nobody holds the vault lock
    Observed      \* an arbitrary namespace, the one the refinement looks at

ASSUME VaultAssumption ==
    /\ Blank \in Values
    /\ Idle \notin Namespaces
    /\ Observed \in Namespaces

VARIABLES
    state,        \* CredentialVault._state
    failed,       \* CredentialVault._failed
    holder,       \* the namespace whose write holds CredentialVault.lock
    disk,         \* the content a new process would read
    durable,      \* the contents storage may come back with after a power loss
    owner,        \* the memory of each owning store
    pc,           \* where each owner's operation stands
    pending,      \* the value that operation installs
    inDoubt,      \* history: replaced on disk since the owner last agreed with it
    process       \* alternates with every new process

vars == <<state, failed, holder, disk, durable, owner, pc, pending, inDoubt, process>>

Contents == [Namespaces -> Values]

TypeOK ==
    /\ state \in Contents
    /\ failed \in BOOLEAN
    /\ process \in BOOLEAN
    /\ holder \in Namespaces \union {Idle}
    /\ disk \in Contents
    /\ durable \in SUBSET Contents
    /\ owner \in Contents
    /\ pc \in [Namespaces -> {"idle", "waiting", "staged", "replaced", "synced"}]
    /\ pending \in Contents
    /\ inDoubt \in [Namespaces -> BOOLEAN]

Init ==
    /\ state = [n \in Namespaces |-> Blank]
    /\ failed = FALSE
    /\ process = FALSE
    /\ holder = Idle
    /\ disk = state
    /\ durable = {state}
    /\ owner = state
    /\ pc = [n \in Namespaces |-> "idle"]
    /\ pending = state
    /\ inDoubt = [n \in Namespaces |-> FALSE]

-----------------------------------------------------------------------------
(* An owner's operation. *)

Begin(n, v) ==
    /\ pc[n] = "idle"
    /\ pc' = [pc EXCEPT ![n] = "waiting"]
    /\ pending' = [pending EXCEPT ![n] = v]
    /\ UNCHANGED <<state, failed, holder, disk, durable, owner, inDoubt>>

(* write() checks the seal first; a sealed vault raises VaultError. *)
MayWrite == ~failed

Refuse(n) ==
    /\ pc[n] = "waiting"
    /\ holder = Idle
    /\ ~MayWrite
    /\ pc' = [pc EXCEPT ![n] = "idle"]
    /\ UNCHANGED <<state, failed, holder, disk, durable, owner, pending, inDoubt>>

(* The new content is built from the vault's memory and staged in a file.  *)
Stage(n) ==
    /\ pc[n] = "waiting"
    /\ holder = Idle
    /\ MayWrite
    /\ holder' = n
    /\ pc' = [pc EXCEPT ![n] = "staged"]
    /\ UNCHANGED <<state, failed, disk, durable, owner, pending, inDoubt>>

Updated(n) == [state EXCEPT ![n] = pending[n]]

(* Size limit, no space, temporary file not synced: nothing was replaced.  *)
AbortStaged(n) ==
    /\ pc[n] = "staged"
    /\ pc' = [pc EXCEPT ![n] = "idle"]
    /\ holder' = Idle
    /\ UNCHANGED <<state, failed, disk, durable, owner, pending, inDoubt>>

Replace(n) ==
    /\ pc[n] = "staged"
    /\ disk' = Updated(n)
    /\ durable' = durable \union {Updated(n)}
    /\ inDoubt' = [inDoubt EXCEPT ![n] = TRUE]
    /\ pc' = [pc EXCEPT ![n] = "replaced"]
    /\ UNCHANGED <<state, failed, holder, owner, pending>>

SyncDirectory(n) ==
    /\ pc[n] = "replaced"
    /\ durable' = {disk}
    /\ state' = Updated(n)
    /\ pc' = [pc EXCEPT ![n] = "synced"]
    /\ holder' = Idle
    /\ UNCHANGED <<failed, disk, owner, pending, inDoubt>>

(* Seeded: the owner's memory changes although write() raised. *)
SyncFailsButServes(n) ==
    /\ pc[n] = "replaced"
    /\ failed' = TRUE
    /\ owner' = [owner EXCEPT ![n] = pending[n]]
    /\ pc' = [pc EXCEPT ![n] = "idle"]
    /\ holder' = Idle
    /\ UNCHANGED <<state, disk, durable, pending, inDoubt>>

(* The directory could not be synced after the replace: seal the vault.    *)
SyncFails(n) ==
    /\ pc[n] = "replaced"
    /\ failed' = TRUE
    /\ pc' = [pc EXCEPT ![n] = "idle"]
    /\ holder' = Idle
    /\ UNCHANGED <<state, disk, durable, owner, pending, inDoubt>>

(* write() returned: the owner changes its memory and releases its lock.   *)
Publish(n) ==
    /\ pc[n] = "synced"
    /\ owner' = [owner EXCEPT ![n] = pending[n]]
    /\ inDoubt' = [inDoubt EXCEPT ![n] = FALSE]
    /\ pc' = [pc EXCEPT ![n] = "idle"]
    /\ UNCHANGED <<state, failed, holder, disk, durable, pending>>

-----------------------------------------------------------------------------
(* A new process loads d and hands every owner its namespace. *)
Load(d) ==
    /\ state' = d
    /\ owner' = d
    /\ disk' = d
    /\ failed' = FALSE
    /\ holder' = Idle
    /\ pc' = [n \in Namespaces |-> "idle"]
    /\ process' = ~process
    /\ UNCHANGED pending

ProcessRestart ==
    /\ Load(disk)
    /\ inDoubt' = [n \in Namespaces |-> \E d \in durable : d[n] # disk[n]]
    /\ UNCHANGED durable

PowerLoss ==
    \E d \in durable :
        /\ Load(d)
        /\ durable' = {d}
        /\ inDoubt' = [n \in Namespaces |-> FALSE]

Write(n) ==
    \/ \E v \in Values : Begin(n, v)
    \/ Refuse(n) \/ Stage(n) \/ AbortStaged(n)
    \/ Replace(n) \/ SyncDirectory(n) \/ SyncFails(n) \/ Publish(n)

Next == \/ (\E n \in Namespaces : Write(n)) /\ UNCHANGED process
        \/ ProcessRestart
        \/ PowerLoss

Spec == Init /\ [][Next]_vars

-----------------------------------------------------------------------------
(* An acknowledged write survives: a namespace with no write replaced on   *)
(* disk since its owner last agreed with it reads the same from the disk   *)
(* and from everything a power loss may leave, even while writes of other  *)
(* namespaces are in flight or have failed (vault.py:90-133).              *)
AckedSurvives ==
    \A n \in Namespaces : ~inDoubt[n] =>
        /\ disk[n] = owner[n]
        /\ \A d \in durable : d[n] = owner[n]

(* "Never overwrite that newer disk state from the old RAM snapshot"       *)
(* (vault.py:125-126): replacing the file for one namespace leaves on disk *)
(* what every other namespace has there, also after a failed sync.         *)
OtherNamespacesKept ==
    [][\A n \in Namespaces : Replace(n) =>
          \A m \in Namespaces \ {n} : disk'[m] = disk[m]]_vars

(* The owner of any one namespace sees a durable register, whatever the    *)
(* other owners, the disk and restarts do (vault.py:84-133).               *)
Register == INSTANCE DurableRegister WITH
    value <- owner[Observed],
    survivors <- {d[Observed] : d \in durable}

RefinesRegister == Register!Spec
=============================================================================
