-------------------------- MODULE TenantLifecycle --------------------------
(***************************************************************************)
(* The accounts of the multi-user gateway (identity-gateway/aw_gateway/    *)
(* store.py and main.py) and the tenants behind them, which a root job     *)
(* creates, starts, stops and purges (ops/azure/aw_provision.py).  The     *)
(* gateway, the job started every 20 seconds and an operator's purge are   *)
(* three processes; they share the identity database and the host's file   *)
(* systems, /etc/fstab and service units, and nothing else orders them.    *)
(*                                                                         *)
(* An account takes an invitation, a slot and a row; a slot has a file     *)
(* system image, a mount, secrets and a unit.  Left out: the owner's slot, *)
(* preview accounts (they have no tenant), names, the tenant's own code.   *)
(***************************************************************************)
EXTENDS Naturals, FiniteSets

CONSTANTS
    Accounts,   \* invited people; each registers once
    Slots,      \* the slots from 2 on
    None,       \* no slot, no account
    MaxBoots,   \* bound on reboots
    MayFail     \* a tenant may fail to start, or not answer within 180 s

ASSUME TenantAssumption ==
    /\ None \notin Slots
    /\ None \notin Accounts
    /\ MaxBoots \in Nat
    /\ MayFail \in BOOLEAN

VARIABLES
    status,     \* users.status; before: none, invited; afterwards: purged
    slotOf,     \* users.slot
    verifying,  \* accounts whose password was just verified
    sessions,   \* accounts with a normal session
    image,      \* slots whose image file exists
    mount,      \* what is mounted: nothing, the image, or one since unlinked
    data,       \* accounts whose data the slot's image holds
    orphan,     \* and those whose data an unlinked but mounted image holds
    fstab,      \* slots with an entry in /etc/fstab
    secrets,    \* slots with a master key
    enabled,    \* units enabled
    running,    \* units active
    todo,       \* reconcile: rows read and not yet looked at
    row,        \* reconcile: the row it is at
    step,       \* reconcile: the next thing it does for that row
    purging,    \* purge: its account, its slot and the next thing it does
    rewritten,  \* purge: the fstab it is about to write
    boots       \* reboots so far

accounts == <<status, slotOf, verifying, sessions>>
disks == <<image, mount, data, orphan, fstab>>
units == <<enabled, running>>
reconciler == <<todo, row, step>>
purger == <<purging, rewritten>>
vars == <<accounts, disks, secrets, units, reconciler, purger, boots>>

Existing == {"pending", "active", "disabled"}
Rows == [id : Accounts, status : Existing, slot : Slots]
NoRow == [id |-> None]
NoPurge == [id |-> None, slot |-> None, step |-> "idle"]

TypeOK ==
    /\ status \in [Accounts -> Existing \union {"none", "invited", "purged"}]
    /\ slotOf \in [Accounts -> Slots \union {None}]
    /\ verifying \in SUBSET Accounts
    /\ sessions \in SUBSET Accounts
    /\ image \in SUBSET Slots
    /\ mount \in [Slots -> {"none", "image", "orphan"}]
    /\ data \in [Slots -> SUBSET Accounts]
    /\ orphan \in [Slots -> SUBSET Accounts]
    /\ fstab \in SUBSET Slots
    /\ secrets \in SUBSET Slots
    /\ enabled \in SUBSET Slots
    /\ running \in SUBSET Slots
    /\ todo \in SUBSET Rows
    /\ step \in {"idle", "image", "fstab", "mount", "start", "activate"}
    /\ row \in IF step = "idle" THEN {NoRow} ELSE Rows
    /\ purging \in {NoPurge} \union
                   [id : Accounts, slot : Slots,
                    step : {"stop", "check", "umount", "read", "write", "unlink", "remove", "commit"}]
    /\ rewritten \in SUBSET Slots
    /\ boots \in 0..MaxBoots

Init ==
    /\ status = [a \in Accounts |-> "none"]
    /\ slotOf = [a \in Accounts |-> None]
    /\ verifying = {}
    /\ sessions = {}
    /\ image = {}
    /\ mount = [s \in Slots |-> "none"]
    /\ data = [s \in Slots |-> {}]
    /\ orphan = [s \in Slots |-> {}]
    /\ fstab = {}
    /\ secrets = {}
    /\ enabled = {}
    /\ running = {}
    /\ todo = {}
    /\ row = NoRow
    /\ step = "idle"
    /\ purging = NoPurge
    /\ rewritten = {}
    /\ boots = 0

-----------------------------------------------------------------------------
(* The gateway.  Each of its store's methods is one transaction.           *)

Registered == {a \in Accounts : status[a] \in Existing}
TakenByServed ==  \* seeded: disabling an account frees its slot
    {slotOf[a] : a \in {b \in Registered : status[b] # "disabled"}}
Taken == {slotOf[a] : a \in Registered}

CreateInvitation(a) ==
    /\ status[a] = "none"
    /\ Cardinality(Registered) < Cardinality(Slots)
    /\ status' = [status EXCEPT ![a] = "invited"]
    /\ UNCHANGED <<slotOf, verifying, sessions, disks, secrets, units, reconciler, purger, boots>>

InvitationExpires(a) ==
    /\ status[a] = "invited"
    /\ status' = [status EXCEPT ![a] = "none"]
    /\ UNCHANGED <<slotOf, verifying, sessions, disks, secrets, units, reconciler, purger, boots>>

(* The code takes the lowest free slot; no property depends on which.      *)
RedeemInvitation(a, s) ==
    /\ status[a] = "invited"
    /\ s \notin Taken
    /\ status' = [status EXCEPT ![a] = "pending"]
    /\ slotOf' = [slotOf EXCEPT ![a] = s]
    /\ UNCHANGED <<verifying, sessions, disks, secrets, units, reconciler, purger, boots>>

(* POST /login reads the row and verifies the password ... *)
VerifyPassword(a) ==
    /\ status[a] = "active"
    /\ verifying' = verifying \union {a}
    /\ UNCHANGED <<status, slotOf, sessions, disks, secrets, units, reconciler, purger, boots>>

(* ... and create_session looks at the row again. *)
AvailableAnyway(a) == TRUE  \* seeded: the row is not read again
Available(a) == status[a] = "active"

CreateSession(a) ==
    /\ a \in verifying
    /\ verifying' = verifying \ {a}
    /\ sessions' = IF Available(a) THEN sessions \union {a} ELSE sessions
    /\ UNCHANGED <<status, slotOf, disks, secrets, units, reconciler, purger, boots>>

RevokeSession(a) ==
    /\ a \in sessions
    /\ sessions' = sessions \ {a}
    /\ UNCHANGED <<status, slotOf, verifying, disks, secrets, units, reconciler, purger, boots>>

DisableUser(a) ==
    /\ status[a] \in {"pending", "active"}
    /\ status' = [status EXCEPT ![a] = "disabled"]
    /\ sessions' = sessions \ {a}
    /\ UNCHANGED <<slotOf, verifying, disks, secrets, units, reconciler, purger, boots>>

(* A request with a session reaches the instance of the user's slot, which *)
(* writes to whatever is mounted there.                                    *)
Use(a) ==
    LET s == slotOf[a]
    IN /\ a \in sessions
       /\ status[a] = "active"
       /\ s \in running
       /\ data' = IF mount[s] = "image" THEN [data EXCEPT ![s] = @ \union {a}] ELSE data
       /\ orphan' = IF mount[s] = "orphan" THEN [orphan EXCEPT ![s] = @ \union {a}] ELSE orphan
       /\ UNCHANGED <<accounts, image, mount, fstab, secrets, units, reconciler, purger, boots>>

-----------------------------------------------------------------------------
(* Units.  A unit needs its secrets and its mount, which systemd makes     *)
(* from fstab; without either, starting it fails.                          *)

Mountable(s) == s \in fstab /\ s \in image
Startable(s) == s \in secrets /\ (mount[s] # "none" \/ Mountable(s))

StartTenant(s) ==
    /\ enabled' = enabled \union {s}
    /\ \/ /\ Startable(s)
          /\ running' = running \union {s}
          /\ mount' = IF mount[s] = "none" THEN [mount EXCEPT ![s] = "image"] ELSE mount
       \/ /\ ~Startable(s) \/ MayFail
          /\ UNCHANGED <<running, mount>>

StopTenant(s) ==
    /\ enabled' = enabled \ {s}
    /\ running' = running \ {s}

-----------------------------------------------------------------------------
(* reconcile: it reads the rows once, then goes through them.              *)

ReadUsers ==
    /\ step = "idle"
    /\ todo = {}
    /\ todo' = {[id |-> a, status |-> status[a], slot |-> slotOf[a]] : a \in Registered}
    /\ UNCHANGED <<accounts, disks, secrets, units, row, step, purger, boots>>

StopDisabledNever(r) == UNCHANGED units  \* seeded: a disabled tenant is left running
StopDisabled(r) == IF r.slot \in running THEN StopTenant(r.slot) ELSE UNCHANGED units

(* reconcile_user. *)
Reconcile(r) ==
    /\ step = "idle"
    /\ r \in todo
    /\ todo' = todo \ {r}
    /\ \/ /\ r.status = "disabled"
          /\ StopDisabled(r)
          /\ UNCHANGED <<mount, row, step>>
       \/ /\ r.status = "active"
          /\ IF r.slot \notin running /\ r.slot \in secrets
             THEN StartTenant(r.slot) ELSE UNCHANGED <<mount, units>>
          /\ UNCHANGED <<row, step>>
       \/ /\ r.status = "pending"
          /\ row' = r
          /\ step' = "image"
          /\ UNCHANGED <<mount, units>>
    /\ UNCHANGED <<accounts, image, data, orphan, fstab, secrets, purger, boots>>

Goes(to) == step' = to /\ UNCHANGED <<todo, row>>
Leaves == step' = "idle" /\ row' = NoRow /\ UNCHANGED todo

MakeImage == IF row.slot \in image THEN data ELSE [data EXCEPT ![row.slot] = {}]

(* prepare_slot for a pending account: the image, its fstab entry, the     *)
(* mount with its directories, and the secrets.                            *)
PrepareImage ==
    /\ step = "image"
    /\ image' = image \union {row.slot}
    /\ data' = MakeImage
    /\ Goes("fstab")
    /\ UNCHANGED <<accounts, mount, orphan, fstab, secrets, units, purger, boots>>

PrepareFstab ==
    /\ step = "fstab"
    /\ fstab' = fstab \union {row.slot}
    /\ Goes("mount")
    /\ UNCHANGED <<accounts, image, mount, data, orphan, secrets, units, purger, boots>>

PrepareMount ==
    LET s == row.slot
    IN /\ step = "mount"
       /\ IF mount[s] # "none" \/ Mountable(s)
          THEN /\ mount' = IF mount[s] = "none" THEN [mount EXCEPT ![s] = "image"] ELSE mount
               /\ secrets' = secrets \union {s}
               /\ Goes("start")
          ELSE Leaves /\ UNCHANGED <<mount, secrets>>
       /\ UNCHANGED <<accounts, image, data, orphan, fstab, units, purger, boots>>

StartPending ==
    /\ step = "start"
    /\ StartTenant(row.slot)
    /\ \/ row.slot \in running' /\ Goes("activate")
       \/ (row.slot \notin running' \/ MayFail) /\ Leaves
    /\ UNCHANGED <<accounts, image, data, orphan, fstab, secrets, purger, boots>>

Activates(a) == status[a] = "pending"

Activate ==
    /\ step = "activate"
    /\ status' = IF Activates(row.id) THEN [status EXCEPT ![row.id] = "active"] ELSE status
    /\ Leaves
    /\ UNCHANGED <<slotOf, verifying, sessions, disks, secrets, units, purger, boots>>

-----------------------------------------------------------------------------
(* purge: the operator frees the slot of a disabled account.               *)

Purges(at) == purging.step = at
PurgeGoes(to) == purging' = [purging EXCEPT !.step = to]

MayPurgeAny(a) == status[a] \in Existing  \* seeded: active accounts are purged as well
MayPurge(a) == status[a] = "disabled"

Purge(a) ==
    /\ Purges("idle")
    /\ MayPurge(a)
    /\ purging' = [id |-> a, slot |-> slotOf[a], step |-> "stop"]
    /\ UNCHANGED <<accounts, disks, secrets, units, reconciler, rewritten, boots>>

PurgeStop ==
    /\ Purges("stop")
    /\ StopTenant(purging.slot)
    /\ PurgeGoes("check")
    /\ UNCHANGED <<accounts, disks, secrets, reconciler, rewritten, boots>>

(* Stopped after all?  Else nothing is removed. *)
PurgeCheck ==
    /\ Purges("check")
    /\ IF purging.slot \in running THEN purging' = NoPurge ELSE PurgeGoes("umount")
    /\ UNCHANGED <<accounts, disks, secrets, units, reconciler, rewritten, boots>>

(* A mount that is in use again is busy, and nothing is removed. *)
PurgeUmount ==
    LET s == purging.slot
    IN /\ Purges("umount")
       /\ IF mount[s] # "none" /\ s \in running
          THEN purging' = NoPurge /\ UNCHANGED <<mount, orphan>>
          ELSE /\ mount' = [mount EXCEPT ![s] = "none"]
               /\ orphan' = [orphan EXCEPT ![s] = {}]
               /\ PurgeGoes("read")
       /\ UNCHANGED <<accounts, image, data, fstab, secrets, units, reconciler, rewritten, boots>>

PurgeReadFstab ==
    /\ Purges("read")
    /\ rewritten' = fstab \ {purging.slot}
    /\ PurgeGoes("write")
    /\ UNCHANGED <<accounts, disks, secrets, units, reconciler, boots>>

PurgeWriteFstab ==
    /\ Purges("write")
    /\ fstab' = rewritten
    /\ rewritten' = {}
    /\ PurgeGoes("unlink")
    /\ UNCHANGED <<accounts, image, mount, data, orphan, secrets, units, reconciler, boots>>

(* An image that was mounted again lives on until it is unmounted. *)
PurgeUnlink ==
    LET s == purging.slot
    IN /\ Purges("unlink")
       /\ image' = image \ {s}
       /\ data' = [data EXCEPT ![s] = {}]
       /\ mount' = IF mount[s] = "image" THEN [mount EXCEPT ![s] = "orphan"] ELSE mount
       /\ orphan' = IF mount[s] = "image" THEN [orphan EXCEPT ![s] = data[s]] ELSE orphan
       /\ PurgeGoes("remove")
       /\ UNCHANGED <<accounts, fstab, secrets, units, reconciler, rewritten, boots>>

(* rm -rf empties what is mounted, and then fails on the mount point. *)
PurgeRemove ==
    LET s == purging.slot
    IN /\ Purges("remove")
       /\ secrets' = secrets \ {s}
       /\ data' = IF mount[s] = "image" THEN [data EXCEPT ![s] = {}] ELSE data
       /\ orphan' = [orphan EXCEPT ![s] = {}]
       /\ IF mount[s] = "none" THEN PurgeGoes("commit") ELSE purging' = NoPurge
       /\ UNCHANGED <<accounts, image, mount, fstab, units, reconciler, rewritten, boots>>

(* The row goes last, and with it the slot is free. *)
PurgeCommit ==
    LET a == purging.id
    IN /\ Purges("commit")
       /\ IF status[a] = "disabled"
          THEN /\ status' = [status EXCEPT ![a] = "purged"]
               /\ slotOf' = [slotOf EXCEPT ![a] = None]
          ELSE UNCHANGED <<status, slotOf>>
       /\ purging' = NoPurge
       /\ UNCHANGED <<verifying, sessions, disks, secrets, units, reconciler, rewritten, boots>>

(* The host reboots: what is in fstab is mounted, what is enabled starts.  *)
Reboot ==
    /\ boots < MaxBoots
    /\ boots' = boots + 1
    /\ mount' = [s \in Slots |-> IF Mountable(s) THEN "image" ELSE "none"]
    /\ orphan' = [s \in Slots |-> {}]
    /\ running' = {s \in enabled : s \in secrets /\ Mountable(s)}
    /\ todo' = {} /\ row' = NoRow /\ step' = "idle"
    /\ purging' = NoPurge /\ rewritten' = {}
    /\ verifying' = {}
    /\ UNCHANGED <<status, slotOf, sessions, image, data, fstab, secrets, enabled>>

-----------------------------------------------------------------------------
Gateway ==
    \E a \in Accounts :
        \/ CreateInvitation(a) \/ InvitationExpires(a)
        \/ \E s \in Slots : RedeemInvitation(a, s)
        \/ VerifyPassword(a) \/ CreateSession(a) \/ RevokeSession(a)
        \/ DisableUser(a) \/ Use(a)

Reconciler ==
    \/ ReadUsers
    \/ \E r \in todo : Reconcile(r)
    \/ PrepareImage \/ PrepareFstab \/ PrepareMount \/ StartPending \/ Activate

Purger ==
    \/ \E a \in Accounts : Purge(a)
    \/ PurgeStop \/ PurgeCheck \/ PurgeUmount \/ PurgeReadFstab \/ PurgeWriteFstab
    \/ PurgeUnlink \/ PurgeRemove \/ PurgeCommit

Next == Gateway \/ Reconciler \/ Purger \/ Reboot

Spec == Init /\ [][Next]_vars

(* The timer starts reconcile again and again, and it comes to an end. *)
FairSpec == Spec /\ WF_vars(Reconciler)

-----------------------------------------------------------------------------
(* "The slot is only released once nothing of the previous tenant can      *)
(* still be mounted or running, so a new invitation never inherits it"     *)
(* (aw_provision.py:360-361), though reconcile works from rows it read     *)
(* before the purge: a slot holds no data but its account's.               *)
NothingInherited ==
    \A a \in Registered : data[slotOf[a]] \union orphan[slotOf[a]] \subseteq {a}

(* "Disabled accounts have their instance stopped; data is kept"           *)
(* (aw_provision.py:8): only the purge of a disabled account, whatever     *)
(* reconcile, other purges and reboots do meanwhile, removes its data.     *)
DataKept ==
    \A a \in Registered : a \in data[slotOf[a]] =>
        \/ a \in data'[slotOf[a]]
        \/ status[a] = "disabled" /\ purging.id = a

DataIsKept == [][DataKept]_vars

(* "waits for the instance to answer over its private socket and only then *)
(* activates the account" (aw_provision.py:6-8): an active account's slot  *)
(* has its own image and secrets, also after purges of the slot's former   *)
(* accounts and reboots.                                                   *)
ActiveHasTenant ==
    \A a \in Accounts : status[a] = "active" => slotOf[a] \in image /\ slotOf[a] \in secrets

(* A login that was being verified when the account was disabled, or even  *)
(* purged, opens no session (store.py:263-272, 382-399).                   *)
SessionsAreActive == \A a \in sessions : status[a] = "active"

(* "Disabled accounts have their instance stopped" (aw_provision.py:8),    *)
(* though reconcile may just be starting it from an older row.             *)
DisabledStops ==
    \A a \in Accounts, s \in Slots :
        status[a] = "disabled" /\ slotOf[a] = s ~> s \notin running \/ slotOf[a] # s

(* The job "creates the isolated tenant (system user, 5 GiB loop           *)
(* filesystem, ...)" (aw_provision.py:4-8): an active account's file       *)
(* system is in fstab, so that it is there after a reboot.                 *)
ActiveIsInFstab == \A a \in Accounts : status[a] = "active" => slotOf[a] \in fstab
=============================================================================
