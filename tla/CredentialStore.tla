-------------------------- MODULE CredentialStore --------------------------
(***************************************************************************)
(* backend/app/auth/store.py for one Canvas credential id: up to one       *)
(* secret per authentication mode, a generation that fences late answers,  *)
(* the preferred mode, the effective credential requests are routed to,    *)
(* and the block that keeps a removed PAT from coming back from the        *)
(* environment.  Every operation runs under the store's lock and persists  *)
(* the whole namespace before it changes memory, so it is one step whose   *)
(* outcome is the vault's (CredentialVault): acknowledged, refused, or     *)
(* replaced on disk but not acknowledged, which seals the vault.           *)
(*                                                                         *)
(* Left out: the fallback record and timestamps shown to the user, the     *)
(* account fingerprint, NTLM values (they use other credential ids).       *)
(***************************************************************************)
EXTENDS Naturals, FiniteSets

CONSTANTS
    Secrets,             \* tokens and cookie jars, told apart by equality
    None,                \* no secret, no mode
    Holders,             \* requests that captured a slot and its generation
    RemovalStates,       \* why a slot was removed: INVALID, EXPIRED, REVOKED, DISABLED
    PersistenceEnabled,  \* CREDENTIAL_PERSISTENCE_ENABLED
    MaxGeneration,       \* bound on the generation counters
    MaxSurvivors         \* bound on the contents in doubt at one time

Modes == {"oauth", "pat", "browser_session"}

ASSUME StoreAssumption ==
    /\ None \notin Secrets \union Modes
    /\ PersistenceEnabled \in BOOLEAN
    /\ MaxGeneration \in Nat \ {0}
    /\ MaxSurvivors \in Nat \ {0}

(* CanvasAuthMode: the order in which modes are tried after the preferred. *)
Rank == [m \in Modes |-> CASE m = "oauth" -> 1
                           [] m = "pat" -> 2
                           [] m = "browser_session" -> 3]

States == {"MISSING", "VALID", "RESTORED", "INVALID"} \union RemovalStates

VARIABLES
    slot,        \* _canvas_slots
    generation,  \* _generations
    status,      \* _slot_status, its "state"
    effective,   \* _credentials: the mode and secret get_canvas returns
    canvasMode,  \* _canvas_modes
    preferred,   \* _preferred_modes, through preferred_mode()
    blocked,     \* membership in _blocked_canvas
    disk,        \* the namespace as a new process would read it
    durable,     \* the contents a power loss may leave
    sealed,      \* CredentialVault._failed
    held,        \* what each holder captured under the lock
    process      \* alternates with every new process

served == <<slot, generation, status, effective, canvasMode, preferred, blocked>>
stored == <<disk, durable, sealed>>
vars == <<served, stored, held, process>>

Slots == [Modes -> Secrets \union {None}]
Effective == [mode : Modes, secret : Secrets] \union {[mode |-> None, secret |-> None]}
Content == [slots : Slots, preferred : Modes, blocked : BOOLEAN]
Capture == [mode : Modes, generation : Nat, secret : Secrets]

TypeOK ==
    /\ slot \in Slots
    /\ generation \in [Modes -> 0..MaxGeneration]
    /\ status \in [Modes -> States]
    /\ effective \in Effective
    /\ canvasMode \in Modes \union {None}
    /\ preferred \in Modes
    /\ blocked \in BOOLEAN
    /\ disk \in Content
    /\ durable \in SUBSET Content
    /\ sealed \in BOOLEAN
    /\ process \in BOOLEAN
    /\ held \in [Holders -> Capture \union {None}]

Empty == [slots |-> [m \in Modes |-> None], preferred |-> "oauth", blocked |-> FALSE]

Present(s) == {m \in Modes : s[m] # None}

(* _activate_best: the preferred mode when present, else the first in order. *)
Best(s, p) == IF p \in Present(s) THEN p
              ELSE CHOOSE m \in Present(s) : \A o \in Present(s) : Rank[m] <= Rank[o]

Activate(s, p) ==
    IF Present(s) = {}
    THEN /\ effective' = [mode |-> None, secret |-> None]
         /\ UNCHANGED canvasMode
    ELSE /\ effective' = [mode |-> Best(s, p), secret |-> s[Best(s, p)]]
         /\ canvasMode' = Best(s, p)

(* _snapshot *)
Snapshot == [slots |-> slot, preferred |-> preferred, blocked |-> blocked]

Init ==
    /\ slot = Empty.slots
    /\ generation = [m \in Modes |-> 0]
    /\ status = [m \in Modes |-> "MISSING"]
    /\ effective = [mode |-> None, secret |-> None]
    /\ canvasMode = None
    /\ preferred = "oauth"
    /\ blocked = FALSE
    /\ disk = Empty
    /\ durable = {Empty}
    /\ sealed = FALSE
    /\ process = FALSE
    /\ held = [h \in Holders |-> None]

-----------------------------------------------------------------------------
(* _persist_change: the vault's answers.  A refusal raises VaultError and  *)
(* changes nothing, so it is no step.                                      *)
AcknowledgedInMemory(c) ==  \* seeded: a sealed vault is silently skipped
    IF PersistenceEnabled /\ ~sealed
    THEN disk' = c /\ durable' = {c} /\ UNCHANGED sealed
    ELSE UNCHANGED stored

Acknowledged(c) ==
    IF PersistenceEnabled
    THEN /\ ~sealed
         /\ disk' = c
         /\ durable' = {c}
         /\ UNCHANGED sealed
    ELSE UNCHANGED stored

Unacknowledged(c) ==
    /\ PersistenceEnabled
    /\ ~sealed
    /\ Cardinality(durable) < MaxSurvivors
    /\ disk' = c
    /\ durable' = durable \union {c}
    /\ sealed' = TRUE
    /\ UNCHANGED served

AdvanceNot(m) == generation  \* seeded: a replacement keeps the generation
Advance(m) == [generation EXCEPT ![m] = @ + 1]

(* set_canvas, set_canvas_session, set_canvas_oauth through _install_slot: *)
(* only a PAT, which the user enters, lifts the block.                     *)
WithSlot(m, c, b) ==
    [slots |-> [slot EXCEPT ![m] = c], preferred |-> preferred, blocked |-> b]

Installed(m, c) == WithSlot(m, c, blocked /\ m # "pat")

Install(m, c) ==
    /\ generation[m] < MaxGeneration
    /\ \/ /\ Acknowledged(Installed(m, c))
          /\ slot' = Installed(m, c).slots
          /\ generation' = Advance(m)
          /\ status' = [status EXCEPT ![m] = "VALID"]
          /\ blocked' = Installed(m, c).blocked
          /\ Activate(Installed(m, c).slots, preferred)
          /\ UNCHANGED preferred
       \/ Unacknowledged(Installed(m, c))
    /\ UNCHANGED held

(* remove_canvas_slot: the generation advances and the state is recorded   *)
(* even when there was nothing to remove; the route changes only if there  *)
(* was.                                                                    *)
RerouteNever(m, s) == UNCHANGED <<effective, canvasMode>>  \* seeded: no fallback
Reroute(m, s) == IF slot[m] = None THEN UNCHANGED <<effective, canvasMode>>
                 ELSE Activate(s, preferred)

Dropped(m) == WithSlot(m, None, blocked \/ m = "pat")

Remove(m, why) ==
    /\ generation[m] < MaxGeneration
    /\ \/ /\ Acknowledged(Dropped(m))
          /\ slot' = Dropped(m).slots
          /\ generation' = Advance(m)
          /\ status' = [status EXCEPT ![m] = why]
          /\ blocked' = Dropped(m).blocked
          /\ Reroute(m, Dropped(m).slots)
          /\ UNCHANGED preferred
       \/ Unacknowledged(Dropped(m))
    /\ UNCHANGED held

(* The same with an expected generation: False, and no step, on a mismatch. *)
FenceAgrees(c) == generation[c.mode] = c.generation

RemoveHeld(h, why) ==
    /\ held[h] # None
    /\ FenceAgrees(held[h])
    /\ Remove(held[h].mode, why)

(* select_canvas_mode: an absent mode is preferred but not routed to. *)
Routed(m) == IF slot[m] = None THEN effective ELSE [mode |-> m, secret |-> slot[m]]

Select(m) ==
    /\ LET next == [Snapshot EXCEPT !.preferred = m]
       IN \/ /\ Acknowledged(next)
             /\ preferred' = m
             /\ canvasMode' = m
             /\ effective' = Routed(m)
             /\ UNCHANGED <<slot, generation, status, blocked>>
          \/ Unacknowledged(next)
    /\ UNCHANGED held

(* clear and block_canvas empty every slot, one after the other; a cleared  *)
(* PAT blocks.  Each removal that leaves a slot reroutes, so that the last  *)
(* slot's mode stays behind: the slots' order is that of their insertion.   *)
LastRouted == IF Cardinality(Present(slot)) > 1 THEN Present(slot) ELSE {canvasMode}

Wipe(next) ==
    /\ \A m \in Present(slot) : generation[m] < MaxGeneration
    /\ \/ /\ Acknowledged(next)
          /\ slot' = next.slots
          /\ generation' = [m \in Modes |-> IF slot[m] = None THEN generation[m]
                                            ELSE generation[m] + 1]
          /\ status' = [m \in Modes |-> IF slot[m] = None THEN status[m] ELSE "INVALID"]
          /\ blocked' = next.blocked
          /\ effective' = [mode |-> None, secret |-> None]
          /\ canvasMode' \in LastRouted
          /\ UNCHANGED preferred
       \/ Unacknowledged(next)
    /\ UNCHANGED held

Clear == Wipe([slots |-> Empty.slots, preferred |-> preferred,
               blocked |-> blocked \/ slot["pat"] # None])

Block == Wipe([slots |-> Empty.slots, preferred |-> preferred, blocked |-> TRUE])

(* A routed read or a refresh remembers the slot it is about to use. *)
Hold(h, m) ==
    /\ slot[m] # None
    /\ held' = [held EXCEPT ![h] =
                   [mode |-> m, generation |-> generation[m], secret |-> slot[m]]]
    /\ UNCHANGED <<served, stored>>

-----------------------------------------------------------------------------
(* configure_persistence in a new process: what was read becomes the       *)
(* memory, restored slots get a random positive generation, and requests   *)
(* in flight are gone.  Without persistence the process starts empty.      *)
Load(c) ==
    /\ slot' = c.slots
    /\ generation' \in {g \in [Modes -> 0..MaxGeneration] :
                           \A m \in Modes : g[m] = 0 <=> c.slots[m] = None}
    /\ status' = [m \in Modes |-> IF c.slots[m] = None THEN "MISSING" ELSE "RESTORED"]
    /\ preferred' = c.preferred
    /\ blocked' = c.blocked
    /\ IF Present(c.slots) = {}
       THEN /\ effective' = [mode |-> None, secret |-> None]
            /\ canvasMode' = None
       ELSE /\ effective' = [mode |-> Best(c.slots, c.preferred),
                             secret |-> c.slots[Best(c.slots, c.preferred)]]
            /\ canvasMode' = Best(c.slots, c.preferred)
    /\ sealed' = FALSE
    /\ process' = ~process
    /\ held' = [h \in Holders |-> None]

Restart ==
    /\ Load(IF PersistenceEnabled THEN disk ELSE Empty)
    /\ UNCHANGED <<disk, durable>>

PowerLoss ==
    /\ PersistenceEnabled
    /\ \E c \in durable : Load(c) /\ disk' = c /\ durable' = {c}

Operation ==
    \/ \E m \in Modes, c \in Secrets : Install(m, c)
    \/ \E m \in Modes, why \in RemovalStates : Remove(m, why)
    \/ \E h \in Holders, why \in RemovalStates : RemoveHeld(h, why)
    \/ \E m \in Modes : Select(m)
    \/ Clear
    \/ Block
    \/ \E h \in Holders, m \in Modes : Hold(h, m)

Next ==
    \/ Operation /\ UNCHANGED process
    \/ Restart
    \/ PowerLoss

Spec == Init /\ [][Next]_vars

-----------------------------------------------------------------------------
(* Requests are routed to a secret that is installed now, and there is a   *)
(* route as long as any method has one (store.py:192-201, 269-326).        *)
EffectiveIsInstalled ==
    IF Present(slot) = {} THEN effective.mode = None
    ELSE effective.mode \in Modes /\ slot[effective.mode] = effective.secret

(* Whatever was installed, removed, selected or restored, the preferred    *)
(* mode is the one routed to whenever it has a secret (store.py:192-201,   *)
(* 316-326).                                                               *)
PreferenceHonoured == slot[preferred] # None => effective.mode = preferred

(* Both: requests go where the methods that are left and the user's choice *)
(* say (store.py:192-201, 269-326).                                        *)
RouteIsRight == EffectiveIsInstalled /\ PreferenceHonoured

(* A blocked id has no PAT: the block and the slot never contradict each   *)
(* other, so a PAT is used if and only if the user's last word was to set  *)
(* one (store.py:171-175, 206-216, 269-305, 332-348).                      *)
BlockedMeansNoPat == blocked => slot["pat"] = None

(* "Late failure cannot remove replacement" (tests/test_v061_auth.py:60):  *)
(* while a captured generation still matches, the slot still holds the     *)
(* captured secret, through any installs, removals, wipes and failures in  *)
(* between (store.py:206-216, 265-305).                                    *)
HeldIsCurrent ==
    \A h \in Holders : held[h] # None =>
        (FenceAgrees(held[h]) => slot[held[h].mode] = held[h].secret)

(* What is served may survive a power loss, and unless a write was left    *)
(* unacknowledged it is exactly what a restart reads (store.py:65-141,     *)
(* vault.py:90-133).                                                       *)
MemoryIsDurable ==
    PersistenceEnabled => /\ Snapshot \in durable
                          /\ ~sealed => disk = Snapshot

(* A removed PAT stays removed: the block is lifted only by entering a PAT, *)
(* not by another method, a wipe, a restart or a power loss - unless the    *)
(* block itself never became durable (store.py:171-216, 332-348).           *)
BlockStays ==
    blocked /\ ~blocked' => \/ \E c \in Secrets : Install("pat", c)
                            \/ \E d \in durable : ~d.blocked
                            \/ ~PersistenceEnabled

BlockIsSticky == [][BlockStays]_vars

(* The persisted part is the register the vault promises its owner. *)
Register == INSTANCE DurableRegister WITH
    Values <- Content,
    value <- IF PersistenceEnabled THEN Snapshot ELSE Empty,
    survivors <- IF PersistenceEnabled THEN durable ELSE {Empty}

RefinesRegister == Register!Spec
=============================================================================
