---------------------------- MODULE OwnerAccess ----------------------------
(* The owner of a deployment: the operator imports the data set of an       *)
(* earlier single-user installation into the first slot                     *)
(* (ops/azure/import_owner.py), any step of which may fail or be cut short  *)
(* by a reboot; reconcile and systemd start the slot's unit; and the owner  *)
(* signs in with the old password and a code, once, and sets a new password *)
(* (identity-gateway). File names, permissions and counts are abstracted.   *)
EXTENDS Integers, Sequences

CONSTANTS Passwords, \* new ones
          MaxRuns,   \* bound on imports
          MaxReboots

VARIABLES
    at,        \* the next step of import_slot, or idle
    replace,   \* it was started with --replace
    source,    \* the import directory: whole, without the old key, or gone
    data,      \* of the slot: none, another whole data set, part of the import's, leftovers
               \* of another among what there is, the import's, or the import's among leftovers
    database,  \* the slot has a database file
    vault,     \* the key that opens its vault: old, or the slot's own
    env,       \* tenant.env: base, or the owner's
    lock,      \* import-incomplete
    secrets, enabled, running, \* of the unit
    unstopped, \* history: it runs on although it was to be stopped for an import
    timer,     \* aw-provision.timer is active
    starting,  \* reconcile is about to start the unit
    runs, reboots,
    owner,     \* the owner's row: none, new, claimed, or done
    codeKnown, \* the code file was written
    session,   \* the owner's: none, bootstrap, expired or normal
    changing,  \* forms with a new password that are being read
    passwords  \* history: those that were set

slot == <<data, database, vault, env>>
unit == <<secrets, enabled, running, unstopped>>
import == <<at, replace, source, lock, runs>>
gateway == <<owner, codeKnown, session, changing, passwords>>
vars == <<slot, unit, import, gateway, timer, starting, reboots>>

(* The owner may have used the slot before, or a rehearsal filled it.       *)
Init ==
    /\ at = "idle" /\ replace = FALSE /\ source = "whole" /\ lock = FALSE /\ runs = 0
    /\ data \in {"none", "other"}
    /\ database = (data = "other") /\ vault = "own" /\ env = "base"
    /\ secrets = (data = "other") /\ enabled = secrets /\ running = secrets /\ unstopped = FALSE
    /\ timer = TRUE /\ starting = FALSE /\ reboots = 0
    /\ owner \in (IF data = "other" THEN {"none", "done"} ELSE {"none"})
    /\ codeKnown = FALSE /\ session = "none"
    /\ changing = {} /\ passwords = <<>>

-----------------------------------------------------------------------------
(* Units *)

\* ConditionPathExists=!.../import-incomplete: starting it then does nothing.
StartableAnyway == secrets  \* seeded: the unit does not look for the lock
Startable == secrets /\ ~lock

Start ==
    /\ enabled' = TRUE
    /\ running' = (running \/ Startable)
    /\ UNCHANGED <<secrets, unstopped>>

Stop == running' = FALSE /\ unstopped' = FALSE

\* reconcile_user: a locked slot is held stopped, an active owner's unit started.
Reconcile ==
    /\ timer /\ ~starting /\ owner # "none"
    /\ IF lock
       THEN running /\ Stop /\ enabled' = FALSE /\ UNCHANGED starting
       ELSE ~running /\ secrets /\ starting' = TRUE /\ UNCHANGED <<enabled, running, unstopped>>
    /\ UNCHANGED <<slot, import, gateway, secrets, timer, reboots>>

ReconcileStarts ==
    /\ starting /\ Start /\ starting' = FALSE
    /\ UNCHANGED <<slot, import, gateway, timer, reboots>>

Reboot ==
    /\ reboots < MaxReboots /\ reboots' = reboots + 1
    /\ at' = "idle" /\ replace' = FALSE /\ starting' = FALSE /\ timer' = TRUE
    /\ running' = (enabled /\ Startable) /\ unstopped' = FALSE
    /\ changing' = {}
    /\ UNCHANGED <<slot, source, lock, runs, secrets, enabled, owner, codeKnown, session, passwords>>

-----------------------------------------------------------------------------
(* The import *)

\* The next step, of those that leave the rest alone.
Goes(to) == at' = to /\ UNCHANGED <<replace, runs>>
Leaves == replace' = FALSE /\ at' = "idle" /\ UNCHANGED runs

Import(discard) ==
    /\ at = "idle" /\ runs < MaxRuns /\ source = "whole"
    /\ at' = "prepare" /\ replace' = discard /\ runs' = runs + 1
    /\ timer' = FALSE /\ starting' = FALSE
    /\ UNCHANGED <<slot, source, lock, unit, gateway, reboots>>

PrepareSlot ==
    /\ at = "prepare" /\ Goes("stop")
    /\ secrets' = TRUE
    /\ UNCHANGED <<slot, source, lock, enabled, running, unstopped, gateway, timer, starting, reboots>>

\* Whether systemd stopped it is not looked at.
StopUnit ==
    /\ at = "stop" /\ Goes("lock")
    /\ \/ Stop
       \/ running /\ unstopped' = TRUE /\ UNCHANGED running
    /\ UNCHANGED <<slot, source, lock, secrets, enabled, gateway, timer, starting, reboots>>

Lock ==
    /\ at = "lock" /\ lock' = TRUE
    /\ Goes(IF database THEN "remove" ELSE "extract")
    /\ UNCHANGED <<slot, source, unit, gateway, timer, starting, reboots>>

(* Files go, or come, one by one, the database sooner or later. Without     *)
(* --replace none is removed: the import fails, and the slot stays locked.  *)
(* If a removal is cut short after the database went, the next import finds *)
(* none, removes nothing, and extracts over what is left.                   *)
RemoveSome ==
    /\ at \in {"remove", "extract"} /\ ~(at = "remove" /\ ~replace) /\ UNCHANGED <<at, replace, runs>>
    /\ data' = IF data \in {"other", "mixed", "leftovers"} THEN "leftovers" ELSE "part"
    /\ vault' = IF at = "extract" THEN "old" ELSE vault
    /\ database' \in {database, at = "extract"}
    /\ UNCHANGED <<env, source, lock, unit, gateway, timer, starting, reboots>>

Removed ==
    /\ at = "remove" /\ replace /\ Goes("extract")
    /\ data' = "none" /\ database' = FALSE
    /\ UNCHANGED <<vault, env, source, lock, unit, gateway, timer, starting, reboots>>

Extracted ==
    /\ at = "extract" /\ Goes("rekey")
    /\ data' = (IF data = "leftovers" THEN "mixed" ELSE "import") /\ database' = TRUE /\ vault' = "old"
    /\ UNCHANGED <<env, source, lock, unit, gateway, timer, starting, reboots>>

\* It fails if the old key does not open the vault.
RekeyVault ==
    /\ at = "rekey" /\ vault = "old" /\ Goes("env")
    /\ vault' = "own"
    /\ UNCHANGED <<data, database, env, source, lock, unit, gateway, timer, starting, reboots>>

WriteOwnerEnv ==
    /\ at = "env" /\ Goes("check")
    /\ env' = "owner"
    /\ UNCHANGED <<data, database, vault, source, lock, unit, gateway, timer, starting, reboots>>

\* Google's tokens, permissions and the database are in order, or the import fails.
CheckDatabase ==
    /\ at = "check" /\ Goes("seed")
    /\ UNCHANGED <<slot, source, lock, unit, gateway, timer, starting, reboots>>

\* create_owner, unless there is an account, and then the file with the code.
SeedOwner ==
    /\ at = "seed" /\ Goes(IF owner = "none" THEN "code" ELSE "shred")
    /\ owner' = IF owner = "none" THEN "new" ELSE owner
    /\ UNCHANGED <<slot, source, lock, unit, codeKnown, session, changing, passwords, timer, starting, reboots>>

WriteCode ==
    /\ at = "code" /\ Goes("shred")
    /\ codeKnown' = TRUE
    /\ UNCHANGED <<slot, source, lock, unit, owner, session, changing, passwords, timer, starting, reboots>>

Shred ==
    /\ at \in {"shred", "rmtree"} /\ Goes(IF at = "shred" THEN "rmtree" ELSE "unlock")
    /\ source' = IF at = "shred" THEN "no key" ELSE "gone"
    /\ UNCHANGED <<slot, lock, unit, gateway, timer, starting, reboots>>

Unlock ==
    /\ at = "unlock" /\ Goes("start")
    /\ lock' = FALSE
    /\ UNCHANGED <<slot, source, unit, gateway, timer, starting, reboots>>

StartUnit ==
    /\ at = "start" /\ Leaves
    /\ Start /\ timer' = TRUE
    /\ UNCHANGED <<slot, source, lock, gateway, starting, reboots>>

\* main: the unit is disabled, if systemd does so, and the timer started again.
ImportFails ==
    /\ at # "idle" /\ Leaves
    /\ \/ enabled' = FALSE /\ Stop
       \/ running /\ UNCHANGED <<enabled, running, unstopped>>
    /\ timer' = TRUE
    /\ UNCHANGED <<slot, source, lock, secrets, gateway, starting, reboots>>

-----------------------------------------------------------------------------
(* The first sign-in, with the old password and the code                    *)

\* claim_owner
MayClaim == owner = "new"

Claim ==
    /\ codeKnown /\ MayClaim
    /\ owner' = "claimed" /\ session' = "bootstrap"
    /\ UNCHANGED <<slot, unit, import, codeKnown, changing, passwords, timer, starting, reboots>>

\* The bootstrap session is over after ten minutes.
Expire ==
    /\ session = "bootstrap" /\ session' = "expired"
    /\ UNCHANGED <<slot, unit, import, owner, codeKnown, changing, passwords, timer, starting, reboots>>

\* POST /change-password looks at the session, reads the form, and looks again.
ChangePassword(p) ==
    /\ session = "bootstrap" /\ changing' = changing \union {p}
    /\ UNCHANGED <<slot, unit, import, owner, codeKnown, session, passwords, timer, starting, reboots>>

StillBootstrap == session = "bootstrap" /\ owner = "claimed"

FinishPasswordChange(p) ==
    /\ p \in changing /\ changing' = changing \ {p}
    /\ IF StillBootstrap
       THEN owner' = "done" /\ session' = "normal" /\ passwords' = Append(passwords, p)
       ELSE UNCHANGED <<owner, session, passwords>>
    /\ UNCHANGED <<slot, unit, import, codeKnown, timer, starting, reboots>>

Next ==
    \/ Reconcile \/ ReconcileStarts \/ Reboot
    \/ \E discard \in BOOLEAN : Import(discard)
    \/ PrepareSlot \/ StopUnit \/ Lock \/ RemoveSome \/ Removed \/ Extracted \/ RekeyVault
    \/ WriteOwnerEnv \/ CheckDatabase \/ SeedOwner \/ WriteCode \/ Shred \/ Unlock \/ StartUnit \/ ImportFails
    \/ Claim \/ Expire \/ \E p \in Passwords : ChangePassword(p) \/ FinishPasswordChange(p)

Spec == Init /\ [][Next]_vars

-----------------------------------------------------------------------------
Whole == data \in {"import", "mixed"} => vault = "own" /\ env = "owner"

(* "A partially imported slot must not boot by any path (provisioner,       *)
(* restart, manual start)" (systemd/aw-tenant@.service:6): whatever step of *)
(* an import fails or is cut short by a reboot, and however often it is     *)
(* repeated, the unit runs on a whole data set, whose vault it can open and *)
(* whose settings came with it, or not at all; the old key is not destroyed *)
(* before that; and of the forms the owner sends with a new password one is *)
(* accepted. Out of it is an instance that systemd did not stop when it was *)
(* told to, which import_owner.py does not look at; and files of a data set *)
(* whose removal was cut short may be left among those of the import.       *)
ImportIsWhole ==
    /\ running /\ ~unstopped => data \notin {"part", "leftovers"} /\ Whole
    /\ source # "whole" => data \in {"import", "mixed"} /\ Whole /\ owner # "none"
    /\ Len(passwords) <= 1
=============================================================================
