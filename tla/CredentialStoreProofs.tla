----------------------- MODULE CredentialStoreProofs -----------------------
(***************************************************************************)
(* Theorems about CredentialStore, for any secrets, holders and bounds,    *)
(* with and without persistence, and about the files of a course, for any  *)
(* items and documents.                                                    *)
(***************************************************************************)
EXTENDS MCCredentialStore, SequenceTheorems, TLAPS

(* What a process could read back never has a PAT behind the block. *)
Consistent(c) == c.blocked => c.slots["pat"] = None

(* A captured generation never runs ahead of the store's. *)
HeldIsPast ==
    \A h \in Holders : held[h] # None =>
        held[h].generation <= generation[held[h].mode]

IInv ==
    /\ TypeOK
    /\ EffectiveIsInstalled
    /\ PreferenceHonoured
    /\ BlockedMeansNoPat
    /\ HeldIsPast
    /\ HeldIsCurrent
    /\ MemoryIsDurable
    /\ disk \in durable
    /\ \A c \in durable : Consistent(c)

-----------------------------------------------------------------------------
(* Choosing a route: among the installed modes, the preferred one first.   *)
LEMMA BestIsPresent ==
    ASSUME NEW s \in Slots, NEW p \in Modes, Present(s) # {}
    PROVE  /\ Best(s, p) \in Present(s)
           /\ p \in Present(s) => Best(s, p) = p
<1> DEFINE First(m) == m \in Present(s) /\ \A o \in Present(s) : Rank[m] <= Rank[o]
<1>1. /\ Rank["oauth"] = 1 /\ Rank["pat"] = 2 /\ Rank["browser_session"] = 3
      /\ Modes = {"oauth", "pat", "browser_session"}
  BY DEF Rank, Modes
<1>2. Present(s) \subseteq Modes
  BY DEF Present
<1>3. \E m \in Present(s) : \A o \in Present(s) : Rank[m] <= Rank[o]
  <2>1. CASE "oauth" \in Present(s)
    BY <2>1, <1>1, <1>2
  <2>2. CASE "oauth" \notin Present(s) /\ "pat" \in Present(s)
    BY <2>2, <1>1, <1>2
  <2>3. CASE "oauth" \notin Present(s) /\ "pat" \notin Present(s)
    BY <2>3, <1>1, <1>2
  <2> QED
    BY <2>1, <2>2, <2>3
<1>4. (CHOOSE m \in Present(s) : \A o \in Present(s) : Rank[m] <= Rank[o]) \in Present(s)
  BY <1>3
<1> QED
  BY <1>4 DEF Best

(* Where a route comes from after any change of the slots. *)
LEMMA ActivateRoutes ==
    ASSUME NEW s \in Slots, NEW p \in Modes, canvasMode \in Modes \union {None},
           Activate(s, p)
    PROVE  /\ effective' \in Effective
           /\ canvasMode' \in Modes \union {None}
           /\ IF Present(s) = {} THEN effective'.mode = None
              ELSE effective'.mode \in Modes /\ s[effective'.mode] = effective'.secret
           /\ s[p] # None => effective'.mode = p
<1>1. CASE Present(s) = {}
  <2>1. effective' = [mode |-> None, secret |-> None] /\ canvasMode' = canvasMode
    BY <1>1 DEF Activate
  <2>2. s[p] = None
    BY <1>1 DEF Present
  <2> QED
    BY <1>1, <2>1, <2>2 DEF Effective
<1>2. CASE Present(s) # {}
  <2>1. /\ Best(s, p) \in Modes
        /\ s[Best(s, p)] \in Secrets
        /\ s[p] # None => Best(s, p) = p
    BY <1>2, BestIsPresent DEF Present, Slots
  <2>2. /\ effective' = [mode |-> Best(s, p), secret |-> s[Best(s, p)]]
        /\ canvasMode' = Best(s, p)
    BY <1>2 DEF Activate
  <2> QED
    BY <1>2, <2>1, <2>2 DEF Effective
<1> QED
  BY <1>1, <1>2

(* A write that is not acknowledged changes nothing that is served. *)
LEMMA UnacknowledgedKeeps ==
    ASSUME IInv, NEW c \in Content, Consistent(c), Unacknowledged(c),
           UNCHANGED <<held, process>>
    PROVE  IInv'
<1> USE DEF IInv, Unacknowledged, served
<1>1. TypeOK'
  BY DEF TypeOK, Effective, Content
<1>2. EffectiveIsInstalled' /\ PreferenceHonoured' /\ BlockedMeansNoPat'
  BY DEF EffectiveIsInstalled, PreferenceHonoured, BlockedMeansNoPat, Present
<1>3. HeldIsPast' /\ HeldIsCurrent'
  BY DEF HeldIsPast, HeldIsCurrent, FenceAgrees
<1>4. MemoryIsDurable'
  BY DEF MemoryIsDurable, Snapshot
<1>5. disk' \in durable' /\ \A d \in durable' : Consistent(d)
  BY DEF Consistent
<1> QED
  BY <1>1, <1>2, <1>3, <1>4, <1>5

(* What an acknowledged write of c leaves of the stored part. *)
LEMMA AcknowledgedStores ==
    ASSUME IInv, NEW c \in Content, Consistent(c), Acknowledged(c), Snapshot' = c
    PROVE  /\ disk' \in Content /\ durable' \in SUBSET Content /\ sealed' \in BOOLEAN
           /\ MemoryIsDurable'
           /\ disk' \in durable'
           /\ \A d \in durable' : Consistent(d)
  BY DEF IInv, TypeOK, Acknowledged, MemoryIsDurable, stored, Consistent

(* A slot is changed only together with its generation: captures stay good. *)
LEMMA FenceKeeps ==
    ASSUME IInv, UNCHANGED held,
           generation' \in [Modes -> Nat],
           \A m \in Modes : \/ generation'[m] = generation[m] + 1
                            \/ generation'[m] = generation[m] /\ slot'[m] = slot[m]
    PROVE  HeldIsPast' /\ HeldIsCurrent'
<1> SUFFICES ASSUME NEW h \in Holders, held'[h] # None
             PROVE  /\ held'[h].generation <= generation'[held'[h].mode]
                    /\ FenceAgrees(held[h])' => slot'[held'[h].mode] = held'[h].secret
  BY DEF HeldIsPast, HeldIsCurrent
<1>1. /\ held'[h] = held[h]
      /\ held[h].mode \in Modes /\ held[h].generation \in Nat
      /\ held[h].generation <= generation[held[h].mode]
      /\ FenceAgrees(held[h]) => slot[held[h].mode] = held[h].secret
      /\ generation \in [Modes -> Nat]
  BY DEF IInv, TypeOK, HeldIsPast, HeldIsCurrent, Capture
<1> QED
  BY <1>1 DEF FenceAgrees

-----------------------------------------------------------------------------
LEMMA InitIInv == Init => IInv
<1> SUFFICES ASSUME Init PROVE IInv
  OBVIOUS
<1>1. /\ slot = [m \in Modes |-> None] /\ Present(slot) = {} /\ slot \in Slots
      /\ "pat" \in Modes /\ "oauth" \in Modes
  BY DEF Init, Empty, Present, Slots, Modes
<1>2. Empty \in Content
  BY <1>1 DEF Init, Empty, Content
<1>3. TypeOK
  <2>1. generation \in [Modes -> 0..MaxGeneration] /\ status \in [Modes -> States]
    BY StoreAssumption DEF Init, States
  <2>2. effective \in Effective /\ canvasMode \in Modes \union {None}
    BY DEF Init, Effective
  <2>3. preferred \in Modes /\ blocked \in BOOLEAN /\ sealed \in BOOLEAN
        /\ process \in BOOLEAN /\ held \in [Holders -> Capture \union {None}]
    BY <1>1 DEF Init
  <2>4. disk \in Content /\ durable \in SUBSET Content
    BY <1>2 DEF Init
  <2> QED
    BY <1>1, <2>1, <2>2, <2>3, <2>4 DEF TypeOK
<1> QED
  BY <1>1, <1>2, <1>3 DEF Init, IInv, EffectiveIsInstalled, PreferenceHonoured, Empty,
     BlockedMeansNoPat, HeldIsPast, HeldIsCurrent, MemoryIsDurable, Snapshot, Consistent

LEMMA InstallKeeps ==
    ASSUME IInv, NEW m \in Modes, NEW c \in Secrets, Install(m, c), UNCHANGED process
    PROVE  IInv'
<1> DEFINE next == Installed(m, c)
<1>1. /\ next.slots = [slot EXCEPT ![m] = c] /\ next.preferred = preferred
      /\ next.blocked = (blocked /\ m # "pat")
      /\ next = [slots |-> next.slots, preferred |-> next.preferred, blocked |-> next.blocked]
  BY DEF Installed, WithSlot
<1>2. next \in Content /\ next.slots \in Slots
  BY <1>1 DEF IInv, TypeOK, Content, Slots
<1>3. Consistent(next)
  BY <1>1 DEF IInv, TypeOK, Slots, BlockedMeansNoPat, Consistent, Modes
<1> HIDE DEF next
<1>4. CASE Unacknowledged(next)
  BY <1>2, <1>3, <1>4, UnacknowledgedKeeps DEF Install, next
<1>5. CASE /\ Acknowledged(next) /\ slot' = next.slots /\ generation' = Advance(m)
           /\ status' = [status EXCEPT ![m] = "VALID"] /\ blocked' = next.blocked
           /\ Activate(next.slots, preferred) /\ UNCHANGED preferred
  <2>1. /\ preferred \in Modes /\ canvasMode \in Modes \union {None}
        /\ generation \in [Modes -> Nat] /\ generation[m] < MaxGeneration
    BY DEF IInv, TypeOK, Install
  <2>2. Snapshot' = next
    BY <1>1, <1>5 DEF Snapshot
  <2>3. /\ disk' \in Content /\ durable' \in SUBSET Content /\ sealed' \in BOOLEAN
        /\ MemoryIsDurable' /\ disk' \in durable' /\ \A d \in durable' : Consistent(d)
    BY <1>2, <1>3, <1>5, <2>2, AcknowledgedStores
  <2>4. /\ effective' \in Effective
        /\ canvasMode' \in Modes \union {None}
        /\ EffectiveIsInstalled' /\ PreferenceHonoured'
    BY <1>2, <1>5, <2>1, ActivateRoutes DEF EffectiveIsInstalled, PreferenceHonoured, Present
  <2>5. /\ generation' \in [Modes -> 0..MaxGeneration]
        /\ generation'[m] = generation[m] + 1
        /\ \A o \in Modes \ {m} : generation'[o] = generation[o] /\ slot'[o] = slot[o]
    BY <1>1, <1>5, <2>1, StoreAssumption DEF Advance, IInv, TypeOK, Slots
  <2>6. HeldIsPast' /\ HeldIsCurrent'
    BY <2>5, StoreAssumption, FenceKeeps DEF Install
  <2>7. TypeOK'
    BY <1>1, <1>2, <1>5, <2>1, <2>3, <2>4, <2>5 DEF IInv, TypeOK, Install, States
  <2>8. BlockedMeansNoPat'
    BY <1>3, <1>5 DEF Consistent, BlockedMeansNoPat
  <2> QED
    BY <2>3, <2>4, <2>6, <2>7, <2>8 DEF IInv
<1> QED
  BY <1>4, <1>5 DEF Install, next

LEMMA RemoveKeeps ==
    ASSUME IInv, NEW m \in Modes, NEW why \in RemovalStates, Remove(m, why),
           UNCHANGED process
    PROVE  IInv'
<1> DEFINE next == Dropped(m)
<1>1. /\ next.slots = [slot EXCEPT ![m] = None] /\ next.preferred = preferred
      /\ next.blocked = (blocked \/ m = "pat")
      /\ next = [slots |-> next.slots, preferred |-> next.preferred, blocked |-> next.blocked]
  BY DEF Dropped, WithSlot
<1>2. next \in Content /\ next.slots \in Slots
  BY <1>1 DEF IInv, TypeOK, Content, Slots
<1>3. Consistent(next)
  BY <1>1 DEF IInv, TypeOK, Slots, BlockedMeansNoPat, Consistent, Modes
<1> HIDE DEF next
<1>4. CASE Unacknowledged(next)
  BY <1>2, <1>3, <1>4, UnacknowledgedKeeps DEF Remove, next
<1>5. CASE /\ Acknowledged(next) /\ slot' = next.slots /\ generation' = Advance(m)
           /\ status' = [status EXCEPT ![m] = why] /\ blocked' = next.blocked
           /\ Reroute(m, next.slots) /\ UNCHANGED preferred
  <2>1. /\ preferred \in Modes /\ canvasMode \in Modes \union {None} /\ slot \in Slots
        /\ generation \in [Modes -> Nat] /\ generation[m] < MaxGeneration
    BY DEF IInv, TypeOK, Remove
  <2>2. Snapshot' = next
    BY <1>1, <1>5 DEF Snapshot
  <2>3. /\ disk' \in Content /\ durable' \in SUBSET Content /\ sealed' \in BOOLEAN
        /\ MemoryIsDurable' /\ disk' \in durable' /\ \A d \in durable' : Consistent(d)
    BY <1>2, <1>3, <1>5, <2>2, AcknowledgedStores
  <2>4. /\ effective' \in Effective
        /\ canvasMode' \in Modes \union {None}
        /\ EffectiveIsInstalled' /\ PreferenceHonoured'
    <3>1. CASE slot[m] # None
      BY <3>1, <1>2, <1>5, <2>1, ActivateRoutes
         DEF Reroute, EffectiveIsInstalled, PreferenceHonoured, Present
    <3>2. CASE slot[m] = None
      <4>1. slot' = slot /\ UNCHANGED <<effective, canvasMode, preferred>>
        BY <3>2, <1>1, <1>5, <2>1 DEF Reroute, Slots
      <4> QED
        BY <4>1 DEF IInv, TypeOK, EffectiveIsInstalled, PreferenceHonoured, Present
    <3> QED
      BY <3>1, <3>2
  <2>5. /\ generation' \in [Modes -> 0..MaxGeneration]
        /\ generation'[m] = generation[m] + 1
        /\ \A o \in Modes \ {m} : generation'[o] = generation[o] /\ slot'[o] = slot[o]
    BY <1>1, <1>5, <2>1, StoreAssumption DEF Advance, IInv, TypeOK, Slots
  <2>6. HeldIsPast' /\ HeldIsCurrent'
    BY <2>5, StoreAssumption, FenceKeeps DEF Remove
  <2>7. TypeOK'
    BY <1>1, <1>2, <1>5, <2>1, <2>3, <2>4, <2>5 DEF IInv, TypeOK, Remove, States
  <2>8. BlockedMeansNoPat'
    BY <1>3, <1>5 DEF Consistent, BlockedMeansNoPat
  <2> QED
    BY <2>3, <2>4, <2>6, <2>7, <2>8 DEF IInv
<1> QED
  BY <1>4, <1>5 DEF Remove, next

LEMMA SelectKeeps ==
    ASSUME IInv, NEW m \in Modes, Select(m), UNCHANGED process
    PROVE  IInv'
<1> DEFINE next == [Snapshot EXCEPT !.preferred = m]
<1>1. next = [slots |-> slot, preferred |-> m, blocked |-> blocked]
  BY DEF Snapshot
<1>2. next \in Content /\ Consistent(next)
  BY <1>1 DEF IInv, TypeOK, Content, BlockedMeansNoPat, Consistent
<1>3. CASE Unacknowledged(next)
  BY <1>2, <1>3, UnacknowledgedKeeps DEF Select
<1>4. CASE /\ Acknowledged(next) /\ preferred' = m /\ canvasMode' = m
           /\ effective' = Routed(m)
           /\ UNCHANGED <<slot, generation, status, blocked>>
  <2>1. Snapshot' = next
    BY <1>1, <1>4 DEF Snapshot
  <2>2. /\ disk' \in Content /\ durable' \in SUBSET Content /\ sealed' \in BOOLEAN
        /\ MemoryIsDurable' /\ disk' \in durable' /\ \A d \in durable' : Consistent(d)
    BY <1>2, <1>4, <2>1, AcknowledgedStores
  <2>3. /\ effective' \in Effective
        /\ EffectiveIsInstalled' /\ PreferenceHonoured'
    BY <1>4 DEF IInv, TypeOK, Routed, Effective, Slots, Present, EffectiveIsInstalled,
       PreferenceHonoured
  <2>4. TypeOK'
    BY <1>4, <2>2, <2>3 DEF IInv, TypeOK, Select
  <2>5. HeldIsPast' /\ HeldIsCurrent' /\ BlockedMeansNoPat'
    BY <1>4 DEF IInv, Select, HeldIsPast, HeldIsCurrent, FenceAgrees, BlockedMeansNoPat
  <2> QED
    BY <2>2, <2>3, <2>4, <2>5 DEF IInv
<1> QED
  BY <1>3, <1>4 DEF Select

LEMMA WipeKeeps ==
    ASSUME IInv, NEW b \in BOOLEAN,
           Wipe([slots |-> Empty.slots, preferred |-> preferred, blocked |-> b]),
           UNCHANGED process
    PROVE  IInv'
<1> DEFINE next == [slots |-> Empty.slots, preferred |-> preferred, blocked |-> b]
<1>1. /\ Empty.slots = [m \in Modes |-> None] /\ Empty.slots \in Slots
      /\ Present(Empty.slots) = {} /\ "pat" \in Modes
  BY DEF Empty, Slots, Present, Modes
<1>2. next \in Content /\ Consistent(next)
  BY <1>1 DEF IInv, TypeOK, Content, Consistent
<1>3. CASE Unacknowledged(next)
  BY <1>2, <1>3, UnacknowledgedKeeps DEF Wipe
<1>4. CASE /\ Acknowledged(next) /\ slot' = next.slots
           /\ generation' = [m \in Modes |-> IF slot[m] = None THEN generation[m]
                                             ELSE generation[m] + 1]
           /\ status' = [m \in Modes |-> IF slot[m] = None THEN status[m] ELSE "INVALID"]
           /\ blocked' = next.blocked
           /\ effective' = [mode |-> None, secret |-> None]
           /\ canvasMode' \in LastRouted
           /\ UNCHANGED preferred
  <2>1. Snapshot' = next
    BY <1>4 DEF Snapshot
  <2>2. /\ disk' \in Content /\ durable' \in SUBSET Content /\ sealed' \in BOOLEAN
        /\ MemoryIsDurable' /\ disk' \in durable' /\ \A d \in durable' : Consistent(d)
    BY <1>2, <1>4, <2>1, AcknowledgedStores
  <2>3. /\ effective' \in Effective
        /\ EffectiveIsInstalled' /\ PreferenceHonoured' /\ BlockedMeansNoPat'
    BY <1>1, <1>4 DEF IInv, TypeOK, Effective, Present, EffectiveIsInstalled,
       PreferenceHonoured, BlockedMeansNoPat
  <2>4. /\ generation' \in [Modes -> 0..MaxGeneration]
        /\ \A m \in Modes : \/ generation'[m] = generation[m] + 1
                            \/ generation'[m] = generation[m] /\ slot'[m] = slot[m]
    BY <1>1, <1>4, StoreAssumption DEF IInv, TypeOK, Wipe, Present
  <2>5. HeldIsPast' /\ HeldIsCurrent'
    BY <2>4, StoreAssumption, FenceKeeps DEF Wipe
  <2>6. TypeOK'
    BY <1>1, <1>4, <2>2, <2>3, <2>4 DEF IInv, TypeOK, Wipe, States, LastRouted, Present
  <2> QED
    BY <2>2, <2>3, <2>5, <2>6 DEF IInv
<1> QED
  BY <1>3, <1>4 DEF Wipe

LEMMA LoadKeeps ==
    ASSUME IInv, NEW c \in Content, Consistent(c), Load(c),
           IF PersistenceEnabled THEN c = disk' ELSE TRUE,
           disk' \in durable', durable' \subseteq durable
    PROVE  IInv'
<1>1. c.slots \in Slots /\ c.preferred \in Modes /\ c.blocked \in BOOLEAN
      /\ c = [slots |-> c.slots, preferred |-> c.preferred, blocked |-> c.blocked]
  BY DEF Content
<1>2. Snapshot' = c
  BY <1>1 DEF Load, Snapshot
<1>3. /\ effective' \in Effective
      /\ canvasMode' \in Modes \union {None}
      /\ EffectiveIsInstalled' /\ PreferenceHonoured'
  <2>1. CASE Present(c.slots) = {}
    BY <1>1, <2>1 DEF Load, Effective, EffectiveIsInstalled, PreferenceHonoured, Present
  <2>2. CASE Present(c.slots) # {}
    <3>1. /\ Best(c.slots, c.preferred) \in Modes
          /\ c.slots[Best(c.slots, c.preferred)] \in Secrets
          /\ c.slots[c.preferred] # None => Best(c.slots, c.preferred) = c.preferred
      BY <1>1, <2>2, BestIsPresent DEF Present, Slots
    <3>2. /\ effective' = [mode |-> Best(c.slots, c.preferred),
                           secret |-> c.slots[Best(c.slots, c.preferred)]]
          /\ canvasMode' = Best(c.slots, c.preferred)
          /\ slot' = c.slots /\ preferred' = c.preferred
      BY <2>2 DEF Load
    <3>3. Present(slot') # {}
      BY <2>2, <3>2
    <3> QED
      BY <3>1, <3>2, <3>3 DEF Effective, EffectiveIsInstalled, PreferenceHonoured, Present
  <2> QED
    BY <2>1, <2>2
<1>4. TypeOK'
  BY <1>1, <1>3 DEF Load, IInv, TypeOK, States
<1>5. MemoryIsDurable' /\ BlockedMeansNoPat' /\ \A d \in durable' : Consistent(d)
  BY <1>1, <1>2 DEF Load, IInv, MemoryIsDurable, BlockedMeansNoPat, Consistent
<1>6. HeldIsPast' /\ HeldIsCurrent'
  BY DEF Load, HeldIsPast, HeldIsCurrent
<1> QED
  BY <1>3, <1>4, <1>5, <1>6 DEF IInv

LEMMA NextIInv == IInv /\ [Next]_vars => IInv'
<1> SUFFICES ASSUME IInv, [Next]_vars PROVE IInv'
  OBVIOUS
<1>1. ASSUME NEW m \in Modes, NEW c \in Secrets, Install(m, c),
             UNCHANGED process PROVE IInv'
  BY <1>1, InstallKeeps
<1>2. ASSUME NEW m \in Modes, NEW why \in RemovalStates, Remove(m, why),
             UNCHANGED process PROVE IInv'
  BY <1>2, RemoveKeeps
<1>3. ASSUME NEW h \in Holders, NEW why \in RemovalStates, RemoveHeld(h, why),
             UNCHANGED process PROVE IInv'
  BY <1>3, RemoveKeeps DEF RemoveHeld, IInv, TypeOK, Capture
<1>4. ASSUME NEW m \in Modes, Select(m),
             UNCHANGED process PROVE IInv'
  BY <1>4, SelectKeeps
<1>5. CASE Clear /\ UNCHANGED process
  BY <1>5, WipeKeeps DEF Clear, IInv, TypeOK
<1>6. CASE Block /\ UNCHANGED process
  BY <1>6, WipeKeeps DEF Block
<1>7. ASSUME NEW h \in Holders, NEW m \in Modes, Hold(h, m),
             UNCHANGED process PROVE IInv'
  <2>1. /\ UNCHANGED <<slot, generation, status, effective, canvasMode, preferred, blocked,
                       disk, durable, sealed, process>>
        /\ held' = [held EXCEPT ![h] =
                       [mode |-> m, generation |-> generation[m], secret |-> slot[m]]]
        /\ slot[m] \in Secrets /\ generation[m] \in Nat
    BY <1>7 DEF Hold, served, stored, IInv, TypeOK, Slots
  <2>2. TypeOK'
    BY <2>1 DEF IInv, TypeOK, Capture
  <2>3. HeldIsPast' /\ HeldIsCurrent'
    BY <2>1 DEF IInv, TypeOK, HeldIsPast, HeldIsCurrent, FenceAgrees
  <2>4. EffectiveIsInstalled' /\ PreferenceHonoured' /\ BlockedMeansNoPat' /\ MemoryIsDurable'
    BY <2>1 DEF IInv, EffectiveIsInstalled, PreferenceHonoured, BlockedMeansNoPat,
       MemoryIsDurable, Snapshot, Present
  <2> QED
    BY <2>1, <2>2, <2>3, <2>4 DEF IInv, Consistent
<1>8. CASE Restart
  <2>1. Empty \in Content /\ Consistent(Empty)
    BY DEF Empty, Content, Slots, Modes, Consistent
  <2> QED
    BY <1>8, <2>1, LoadKeeps DEF Restart, IInv, TypeOK
<1>9. CASE PowerLoss
  <2>1. PICK c \in durable : Load(c) /\ disk' = c /\ durable' = {c}
    BY <1>9 DEF PowerLoss
  <2> QED
    BY <2>1, LoadKeeps DEF IInv, TypeOK
<1>10. CASE UNCHANGED vars
  BY <1>10 DEF vars, served, stored, IInv, TypeOK, EffectiveIsInstalled, PreferenceHonoured,
     BlockedMeansNoPat, HeldIsPast, HeldIsCurrent, FenceAgrees, MemoryIsDurable, Snapshot,
     Present, Consistent
<1> QED
  BY <1>1, <1>2, <1>3, <1>4, <1>5, <1>6, <1>7, <1>8, <1>9, <1>10 DEF Next, Operation

LEMMA SpecIInv == Spec => []IInv
  BY InitIInv, NextIInv, PTL DEF Spec

-----------------------------------------------------------------------------
(* Type correctness. *)
THEOREM StoreTypeCorrect == Spec => []TypeOK
<1>1. IInv => TypeOK
  BY DEF IInv
<1> QED
  BY <1>1, SpecIInv, PTL

(* The route always points at a secret that is installed, and at the       *)
(* preferred one when it is there (_activate_best, select_canvas_mode).    *)
THEOREM RouteIsInstalledAndPreferred == Spec => []RouteIsRight
<1>1. IInv => RouteIsRight
  BY DEF IInv, RouteIsRight
<1> QED
  BY <1>1, SpecIInv, PTL

(* A matching generation proves that the captured secret is the installed  *)
(* one, so a fenced removal never hits a replacement (_install_slot,       *)
(* remove_canvas_slot).                                                    *)
THEOREM GenerationFencesReplacement == Spec => []HeldIsCurrent
<1>1. IInv => HeldIsCurrent
  BY DEF IInv
<1> QED
  BY <1>1, SpecIInv, PTL

(* A block and a PAT exclude each other, also across restarts and failed   *)
(* writes (set_canvas, remove_canvas_slot, block_canvas).                  *)
THEOREM BlockExcludesPat == Spec => []BlockedMeansNoPat
<1>1. IInv => BlockedMeansNoPat
  BY DEF IInv
<1> QED
  BY <1>1, SpecIInv, PTL

(* What the store serves is among what a power loss leaves (_persist_change). *)
THEOREM ServedIsDurable == Spec => []MemoryIsDurable
<1>1. IInv => MemoryIsDurable
  BY DEF IInv
<1> QED
  BY <1>1, SpecIInv, PTL

-----------------------------------------------------------------------------
(* A block can end in three ways only. *)
LEMMA BlockStep ==
    ASSUME IInv, [Next]_vars, blocked, ~blocked'
    PROVE  \/ \E c \in Secrets : Install("pat", c)
           \/ \E d \in durable : ~d.blocked
           \/ ~PersistenceEnabled
<1>1. ASSUME NEW m \in Modes, NEW c \in Secrets, Install(m, c), m # "pat" PROVE FALSE
  BY <1>1 DEF Install, Unacknowledged, served, Installed, WithSlot
<1>2. ASSUME NEW m \in Modes, NEW why \in RemovalStates, Remove(m, why) PROVE FALSE
  BY <1>2 DEF Remove, Unacknowledged, served, Dropped, WithSlot
<1>3. ASSUME NEW m \in Modes, Select(m) PROVE FALSE
  BY <1>3 DEF Select, Unacknowledged, served
<1>4. CASE Clear \/ Block
  BY <1>4 DEF Clear, Block, Wipe, Unacknowledged, served
<1>5. ASSUME NEW h \in Holders, NEW m \in Modes, Hold(h, m) PROVE FALSE
  BY <1>5 DEF Hold, served
<1>6. CASE Restart
  BY <1>6 DEF Restart, Load, IInv
<1>7. CASE PowerLoss
  BY <1>7 DEF PowerLoss, Load
<1>8. CASE UNCHANGED vars
  BY <1>8 DEF vars, served
<1>9. ASSUME NEW h \in Holders, NEW why \in RemovalStates, RemoveHeld(h, why) PROVE FALSE
  BY <1>2, <1>9 DEF RemoveHeld, IInv, TypeOK, Capture
<1> QED
  BY <1>1, <1>2, <1>3, <1>4, <1>5, <1>6, <1>7, <1>8, <1>9 DEF Next, Operation

(* A removed PAT does not come back by itself (set_canvas, block_canvas,   *)
(* clear, remove_canvas_slot).                                             *)
THEOREM BlockEndsOnlyWithAPat == Spec => BlockIsSticky
<1>1. IInv /\ [Next]_vars => [BlockStays]_vars
  BY BlockStep DEF BlockStays
<1> QED
  BY <1>1, SpecIInv, PTL DEF Spec, BlockIsSticky

-----------------------------------------------------------------------------
(* The refinement: each write is one step of the register.                 *)
LEMMA AcknowledgedIsWrite ==
    ASSUME PersistenceEnabled, NEW c \in Content, Acknowledged(c), Snapshot' = c,
           UNCHANGED process
    PROVE  Register!Next
<1>1. Register!Write(c)
  BY DEF Acknowledged, Register!Write
<1> QED
  BY <1>1 DEF Acknowledged, Register!Next

LEMMA UnacknowledgedIsExpose ==
    ASSUME PersistenceEnabled, NEW c \in Content, Unacknowledged(c), UNCHANGED process
    PROVE  Register!Next
<1>1. Register!Expose(c)
  BY DEF Unacknowledged, Register!Expose, served, Snapshot
<1> QED
  BY <1>1 DEF Unacknowledged, Register!Next

LEMMA LoadIsRecover ==
    ASSUME PersistenceEnabled, NEW c \in Content, c \in durable, Load(c),
           durable' \in {durable, {c}}
    PROVE  Register!Next
<1>1. c = [slots |-> c.slots, preferred |-> c.preferred, blocked |-> c.blocked]
  BY DEF Content
<1>2. Register!Recover(c)
  BY <1>1 DEF Load, Snapshot, Register!Recover
<1> QED
  BY <1>2 DEF Register!Next

LEMMA RegisterInit == Init => Register!Init
<1>1. Empty \in Content /\ (Init => Snapshot = Empty)
  BY DEF Empty, Content, Slots, Modes, Init, Snapshot
<1> QED
  BY <1>1 DEF Init, Register!Init

LEMMA RegisterStep == IInv /\ [Next]_vars => [Register!Next]_(Register!registerVars)
<1> SUFFICES ASSUME IInv, [Next]_vars
             PROVE  [Register!Next]_(Register!registerVars)
  OBVIOUS
<1>0. CASE ~PersistenceEnabled
  <2>1. Empty \in Content
    BY DEF Empty, Content, Slots, Modes
  <2>2. process' = process \/ process' = ~process
    BY DEF Next, Restart, PowerLoss, Load, vars
  <2>3. CASE process' = ~process
    <3>1. Register!Recover(Empty)
      BY <1>0, <2>3 DEF Register!Recover
    <3> QED
      BY <1>0, <2>1, <3>1 DEF Register!Next
  <2> QED
    BY <1>0, <2>2, <2>3 DEF Register!registerVars
<1>1. CASE PersistenceEnabled
  <2> USE <1>1
  <2>1. ASSUME NEW m \in Modes, NEW c \in Secrets, Install(m, c), UNCHANGED process
        PROVE  Register!Next
    <3>1. PICK next \in Content : next = Installed(m, c)
      BY DEF IInv, TypeOK, Content, Slots, Installed, WithSlot
    <3>2. CASE Unacknowledged(next)
      BY <2>1, <3>2, UnacknowledgedIsExpose
    <3>3. CASE Acknowledged(next) /\ slot' = next.slots /\ blocked' = next.blocked
               /\ preferred' = preferred
      BY <2>1, <3>1, <3>3, AcknowledgedIsWrite DEF Snapshot, Installed, WithSlot
    <3> QED
      BY <2>1, <3>1, <3>2, <3>3 DEF Install
  <2>2. ASSUME NEW m \in Modes, NEW why \in RemovalStates, Remove(m, why), UNCHANGED process
        PROVE  Register!Next
    <3>1. PICK next \in Content : next = Dropped(m)
      BY DEF IInv, TypeOK, Content, Slots, Dropped, WithSlot
    <3>2. CASE Unacknowledged(next)
      BY <2>2, <3>2, UnacknowledgedIsExpose
    <3>3. CASE Acknowledged(next) /\ slot' = next.slots /\ blocked' = next.blocked
               /\ preferred' = preferred
      BY <2>2, <3>1, <3>3, AcknowledgedIsWrite DEF Snapshot, Dropped, WithSlot
    <3> QED
      BY <2>2, <3>1, <3>2, <3>3 DEF Remove
  <2>3. ASSUME NEW h \in Holders, NEW why \in RemovalStates, RemoveHeld(h, why),
               UNCHANGED process
        PROVE  Register!Next
    BY <2>2, <2>3 DEF RemoveHeld, IInv, TypeOK, Capture
  <2>4. ASSUME NEW m \in Modes, Select(m), UNCHANGED process
        PROVE  Register!Next
    <3>1. PICK next \in Content : next = [slots |-> slot, preferred |-> m, blocked |-> blocked]
      BY DEF IInv, TypeOK, Content
    <3>2. [Snapshot EXCEPT !.preferred = m] = next
      BY <3>1 DEF Snapshot
    <3>3. CASE Unacknowledged(next)
      BY <2>4, <3>3, UnacknowledgedIsExpose
    <3>4. CASE Acknowledged(next) /\ preferred' = m /\ UNCHANGED <<slot, blocked>>
      BY <2>4, <3>1, <3>4, AcknowledgedIsWrite DEF Snapshot
    <3> QED
      BY <2>4, <3>2, <3>3, <3>4 DEF Select
  <2>5. ASSUME NEW b \in BOOLEAN,
               Wipe([slots |-> Empty.slots, preferred |-> preferred, blocked |-> b]),
               UNCHANGED process
        PROVE  Register!Next
    <3>1. PICK next \in Content :
             next = [slots |-> Empty.slots, preferred |-> preferred, blocked |-> b]
      BY DEF IInv, TypeOK, Content, Empty, Slots
    <3>2. CASE Unacknowledged(next)
      BY <2>5, <3>2, UnacknowledgedIsExpose
    <3>3. CASE Acknowledged(next) /\ slot' = next.slots /\ blocked' = next.blocked
               /\ preferred' = preferred
      BY <2>5, <3>1, <3>3, AcknowledgedIsWrite DEF Snapshot
    <3> QED
      BY <2>5, <3>1, <3>2, <3>3 DEF Wipe
  <2>6. CASE (Clear \/ Block) /\ UNCHANGED process
    BY <2>5, <2>6 DEF Clear, Block, IInv, TypeOK
  <2>7. ASSUME NEW h \in Holders, NEW m \in Modes, Hold(h, m), UNCHANGED process
        PROVE  UNCHANGED Register!registerVars
    BY <2>7 DEF Hold, served, stored, Snapshot, Register!registerVars
  <2>8. CASE Restart
    BY <2>8, LoadIsRecover DEF Restart, IInv, TypeOK
  <2>9. CASE PowerLoss
    <3>1. PICK c \in durable : Load(c) /\ durable' = {c}
      BY <2>9 DEF PowerLoss
    <3> QED
      BY <3>1, LoadIsRecover DEF IInv, TypeOK
  <2>10. CASE UNCHANGED vars
    BY <2>10 DEF vars, served, stored, Snapshot, Register!registerVars
  <2> QED
    BY <2>1, <2>2, <2>3, <2>4, <2>6, <2>7, <2>8, <2>9, <2>10 DEF Next, Operation
<1> QED
  BY <1>0, <1>1, StoreAssumption

(* The persisted part of the store is a durable register: it composes with *)
(* what CredentialVaultProofs shows of any namespace of the vault.         *)
THEOREM StoreIsDurableRegister == Spec => RefinesRegister
  BY RegisterInit, RegisterStep, SpecIInv, PTL DEF Spec, RefinesRegister, Register!Spec

-----------------------------------------------------------------------------
(* The files of a course. *)
FolderTyped ==
    /\ files \in Seq(Course!Record)
    /\ \/ step = Course!Idle
       \/ /\ step \in [kind : {"audit", "audit export", "export", "commit"}, next : Nat \ {0}]
          /\ draft \in Seq(Course!Record)
    /\ folder \in [Course!Paths -> Documents \union {Mine, None}]

Unkept == {None, Course!Legacy}  \* the paths of records that may have no file

(* A record and the disk: a name that was given is never taken away or given *)
(* again; only a legacy name is taken away, when it is corrected.            *)
RowFits(rows, on, gone, k) ==
    LET r == rows[k]
    IN /\ r.path = None => r.status = "INVALID_DOWNLOAD"
       /\ r.path # None => r.content \in Documents /\ r.path \notin Course!Exports
       /\ r.path \notin Unkept => on[r.path] = r.content
       /\ r.path = Course!Legacy => on[Course!Legacy] \in {None, r.content} /\ k = 1
       /\ r.current => r.path \notin Unkept /\ r.export # None
       /\ r.export \in {None, Course!Title, Course!TitleOf(r.item)}
       /\ r.status = "MISSING" => k \in gone

RowsFit(rows, on, gone) == \A k \in DOMAIN rows : RowFits(rows, on, gone, k)
ValidIsKept(rows, k) == rows[k].status = "VALID" => rows[k].path \notin Unkept
DigestsFit(on) == \A d \in Documents : on[Course!WithDigest(d)] \in {None, d}

(* A legacy name that is gone from the disk was corrected by the audit that *)
(* is going on, or by one that was interrupted.                             *)
LegacyIsKnown ==
    \A k \in DOMAIN files : files[k].path = Course!Legacy /\ folder[Course!Legacy] = None =>
        k \in interrupted \/ (~Course!Running /\ draft[k].path # Course!Legacy)
KnownGone(rows, on, gone) ==
    \A k \in DOMAIN rows : rows[k].path = Course!Legacy /\ on[Course!Legacy] = None => k \in gone

IsLast(rows, k) == k \in Course!Latest(rows, rows[k].item)

\* What is shown as current is there, unless two items came to share it.
Shows(rows, on, k) ==
    rows[k].current /\ ~Course!Shared(rows, rows[k].export) => on[rows[k].export] \in {rows[k].content, Mine}

AuditFits ==
    /\ DOMAIN draft = DOMAIN files
    /\ step.next \in DOMAIN draft \/ (step.kind = "audit" /\ step.next = Len(draft) + 1)
    /\ \A k \in DOMAIN draft :
          /\ draft[k].item = files[k].item /\ draft[k].content = files[k].content
          /\ k > step.next \/ (k = step.next /\ step.kind = "audit") => draft[k] = files[k]
          /\ k >= step.next \/ ~IsLast(draft, k) =>
                draft[k].export = files[k].export /\ draft[k].current = files[k].current
          /\ k < step.next \/ step.kind = "audit export" => ValidIsKept(draft, k) \/ k > step.next
          /\ k < step.next /\ IsLast(draft, k) => Shows(draft, folder, k)
    /\ step.kind = "audit export" => draft[step.next].path \notin Unkept /\ IsLast(draft, step.next)

SaveFits ==
    /\ DOMAIN files \subseteq DOMAIN draft /\ DOMAIN draft \subseteq DOMAIN files \union {step.next}
    /\ step.next \in DOMAIN draft /\ IsLast(draft, step.next)
    /\ \A k \in DOMAIN files \ {step.next} : draft[k] = files[k]
    /\ step.next \in DOMAIN files =>
          /\ draft[step.next].item = files[step.next].item
          /\ draft[step.next].path = files[step.next].path
          /\ files[step.next].export = Course!Title => draft[step.next].export = Course!Title
    /\ \A k \in DOMAIN draft : ValidIsKept(draft, k)
    /\ step.kind = "export" =>
          /\ draft[step.next].path \notin Unkept
          /\ step.next \notin DOMAIN files => draft[step.next].export = None
          /\ step.next \in DOMAIN files => draft[step.next] = files[step.next]
    /\ step.kind = "commit" => Shows(draft, folder, step.next)

FilesInv ==
    /\ FolderTyped
    /\ RowsFit(files, folder, interrupted) /\ DigestsFit(folder) /\ LegacyIsKnown
    /\ ~Course!Running => RowsFit(draft, folder, interrupted) /\ KnownGone(draft, folder, interrupted)
    /\ step.kind \notin {"audit", "audit export"} => \A k \in DOMAIN files : ValidIsKept(files, k)
    /\ step.kind \in {"audit", "audit export"} => AuditFits
    /\ step.kind \in {"export", "commit"} => SaveFits
    /\ \A k \in DOMAIN files :
          IsLast(files, k) /\ files[k].item \notin torn \union Course!Touched => Shows(files, folder, k)

LEMMA PathFacts ==
    /\ Course!Name \in Course!Paths /\ Course!Legacy \in Course!Paths
    /\ Course!Stamped \subseteq Course!Paths /\ Course!Exports \subseteq Course!Paths
    /\ Course!Title \in Course!Exports
    /\ \A i \in Items : Course!TitleOf(i) \in Course!Exports /\ Course!TitleOf(i) # Course!Title
    /\ \A i, j : Course!TitleOf(i) = Course!TitleOf(j) => i = j
    /\ \A d \in Documents : Course!WithDigest(d) \in Course!Paths /\ Course!WithDigest(d) \notin Course!Exports
                            /\ Course!WithDigest(d) \notin {Course!Name, Course!Legacy}
                            /\ Course!WithDigest(d) \notin Course!Stamped
    /\ \A d, e : Course!WithDigest(d) = Course!WithDigest(e) => d = e
    /\ Course!Name \notin Course!Exports /\ Course!Legacy \notin Course!Exports
    /\ Course!Name # Course!Legacy
    /\ \A s \in Course!Stamped : s \notin Course!Exports /\ s # Course!Name /\ s # Course!Legacy
    /\ None \notin Course!Paths
<1>1. \A s \in Course!Stamped : \E n \in 1..MaxStamps : s = <<"stamp", n>>
  BY DEF Course!Stamped
<1>2. \A e \in Course!Exports : e = Course!Title \/ \E i \in Items : e = Course!TitleOf(i)
  BY DEF Course!Exports
<1>3. \A e \in Course!Exports : e[1] = "title"
  BY <1>2 DEF Course!Title, Course!TitleOf
<1>4. /\ Course!Name[1] = "name" /\ Course!Legacy[1] = "legacy"
      /\ (\A d : Course!WithDigest(d)[1] = "name" /\ Course!WithDigest(d)[2] = d)
      /\ Course!Name[2] = 0 /\ Course!Title[2] = 0 /\ \A i : Course!TitleOf(i)[2] = i
  BY DEF Course!Name, Course!Legacy, Course!WithDigest, Course!Title, Course!TitleOf
<1>5. \A s \in Course!Stamped : s[1] = "stamp"
  BY <1>1
<1>6. Course!Exports = {Course!Title} \union {Course!TitleOf(i) : i \in Items}
  BY DEF Course!Exports
<1>7. Course!Paths = {Course!Name, Course!Legacy} \union Course!Stamped
                     \union {Course!WithDigest(d) : d \in Documents} \union Course!Exports
  BY DEF Course!Paths
<1> QED
  BY <1>3, <1>4, <1>5, <1>6, <1>7, FolderAssumption

LEMMA RowChanges ==
    ASSUME NEW rows \in Seq(Course!Record), NEW k \in DOMAIN rows, NEW r \in Course!Record,
           NEW new, new = [rows EXCEPT ![k] = r]
    PROVE  /\ new \in Seq(Course!Record) /\ DOMAIN new = DOMAIN rows /\ Len(new) = Len(rows)
           /\ new[k] = r /\ \A j \in DOMAIN rows \ {k} : new[j] = rows[j]
<1>1. k \in 1..Len(rows) /\ DOMAIN rows = 1..Len(rows)
  OBVIOUS
<1> QED
  BY <1>1, ExceptSeq

LEMMA LastIsOne ==
    ASSUME NEW rows \in Seq(Course!Record), NEW j \in DOMAIN rows, NEW k \in DOMAIN rows,
           IsLast(rows, j), IsLast(rows, k), rows[j].item = rows[k].item
    PROVE  j = k
<1>1. j \in Nat /\ k \in Nat /\ j <= k /\ k <= j
  BY DEF IsLast, Course!Latest, Course!Of
<1> QED
  BY <1>1

LEMMA LastIsSame ==
    ASSUME NEW a, NEW b, DOMAIN a = DOMAIN b, \A k \in DOMAIN a : a[k].item = b[k].item
    PROVE  \A k \in DOMAIN a : IsLast(a, k) <=> IsLast(b, k)
  BY DEF IsLast, Course!Latest, Course!Of

LEMMA ExportEffect ==
    ASSUME FolderTyped, draft \in Seq(Course!Record), RowsFit(draft, folder, interrupted),
           NEW k \in DOMAIN draft,
           draft[k].path \notin Unkept, Course!Exported(k)
    PROVE  /\ draft' \in Seq(Course!Record) /\ DOMAIN draft' = DOMAIN draft
           /\ Len(draft') = Len(draft)
           /\ draft'[k] = [draft[k] EXCEPT !.export = Course!Target(k), !.current = TRUE]
           /\ \A j \in DOMAIN draft \ {k} : draft'[j] = draft[j]
           /\ folder' \in [Course!Paths -> Documents \union {Mine, None}]
           /\ folder'[Course!Target(k)] = draft[k].content
           /\ \A p \in Course!Paths \ {Course!Target(k)} : folder'[p] = folder[p]
           /\ Course!Target(k) \in {Course!Title, Course!TitleOf(draft[k].item)}
           /\ Course!Target(k) \in Course!Exports
           /\ draft[k].export = Course!Title => Course!Target(k) = Course!Title
           /\ Course!Target(k) = Course!Title => \/ folder[Course!Title] = None \/ folder[Course!Title] = draft[k].content
                                                 \/ Course!Managed(draft[k].item, Course!Title)
<1>0. draft[k] \in Course!Record
  OBVIOUS
<1>1. draft[k] \in Course!Record /\ draft[k].item \in Items
  BY <1>0 DEF Course!Record
<1>2. draft[k].content \in Documents
  BY DEF RowsFit, RowFits, Unkept
<1>3. /\ Course!Target(k) \in {Course!Title, Course!TitleOf(draft[k].item)}
      /\ Course!Target(k) = Course!Title => \/ folder[Course!Title] = None \/ folder[Course!Title] = draft[k].content
                                            \/ Course!Managed(draft[k].item, Course!Title)
  <2> DEFINE taken == /\ folder[Course!Title] # None
                      /\ ~Course!Managed(draft[k].item, Course!Title)
                      /\ folder[Course!Title] # draft[k].content
  <2>1. Course!Target(k) = IF taken THEN Course!TitleOf(draft[k].item) ELSE Course!Title
    BY DEF Course!Target
  <2>2. CASE taken
    <3>1. Course!TitleOf(draft[k].item) # Course!Title
      BY <1>1, PathFacts
    <3> QED  BY <2>1, <2>2, <3>1
  <2>3. CASE ~taken
    BY <2>1, <2>3
  <2> QED  BY <2>2, <2>3
<1>4. draft[k].export = Course!Title => Course!Target(k) = Course!Title
  BY DEF Course!Target, Course!Managed, Course!Of
<1>5. Course!Target(k) \in Course!Exports /\ Course!Target(k) \in Course!Paths
  BY <1>1, <1>3, PathFacts
<1> DEFINE r == [draft[k] EXCEPT !.export = Course!Target(k), !.current = TRUE]
<1>6. r \in Course!Record
  BY <1>1, <1>5 DEF Course!Record
<1>7. draft' = [draft EXCEPT ![k] = r]
  BY DEF Course!Exported
<1> HIDE DEF r
<1>8. /\ draft' \in Seq(Course!Record) /\ DOMAIN draft' = DOMAIN draft /\ Len(draft') = Len(draft)
      /\ draft'[k] = r /\ \A j \in DOMAIN draft \ {k} : draft'[j] = draft[j]
  BY <1>6, <1>7, RowChanges
<1>9. folder' = [folder EXCEPT ![Course!Target(k)] = draft[k].content]
  BY DEF Course!Exported
<1> QED
  BY <1>2, <1>3, <1>4, <1>5, <1>8, <1>9 DEF FolderTyped, r

(* Two items can share only the title. *)
LEMMA SharedTitle ==
    ASSUME NEW rows,
           \A k \in DOMAIN rows : /\ rows[k].item \in Items
                                  /\ rows[k].export \in {None, Course!Title, Course!TitleOf(rows[k].item)},
           NEW p, p # None, Course!Shared(rows, p)
    PROVE  p = Course!Title
<1>1. PICK k, l \in DOMAIN rows : /\ rows[k].export = p /\ rows[l].export = p
                                  /\ rows[k].item # rows[l].item
  BY DEF Course!Shared
<1>2. Course!TitleOf(rows[k].item) # Course!TitleOf(rows[l].item)
  BY <1>1, PathFacts
<1> QED
  BY <1>1, <1>2

LEMMA ExportsOfRows ==
    ASSUME NEW rows \in Seq(Course!Record), NEW on, NEW gone, RowsFit(rows, on, gone)
    PROVE  \A k \in DOMAIN rows : /\ rows[k] \in Course!Record /\ rows[k].item \in Items
                                  /\ rows[k].export \in {None, Course!Title, Course!TitleOf(rows[k].item)}
                                  /\ rows[k].current => rows[k].export # None
                                  /\ rows[k].path \in Course!Paths \union {None}
<1>1. \A k \in DOMAIN rows : rows[k] \in Course!Record
  OBVIOUS
<1> QED
  BY <1>1 DEF RowsFit, RowFits, Course!Record

(* An export keeps what another item's record shows, in any records that      *)
(* know what the item manages.                                               *)
LEMMA ExportShows ==
    ASSUME FolderTyped, draft \in Seq(Course!Record), RowsFit(draft, folder, interrupted),
           NEW k \in DOMAIN draft,
           draft[k].path \notin Unkept, Course!Exported(k),
           NEW rows \in Seq(Course!Record), NEW j \in DOMAIN rows, RowsFit(rows, folder, interrupted),
           Shows(rows, folder, j),
           rows[j].item # draft[k].item \/ rows[j].content = draft[k].content,
           Course!Managed(draft[k].item, Course!Title) =>
               \E l \in DOMAIN rows : rows[l].item = draft[k].item /\ rows[l].export = Course!Title
    PROVE  Shows(rows, folder', j)
<1> SUFFICES ASSUME rows[j].current, ~Course!Shared(rows, rows[j].export)
             PROVE  folder'[rows[j].export] \in {rows[j].content, Mine}
  BY DEF Shows
<1> DEFINE e == rows[j].export
<1>1. /\ folder[e] \in {rows[j].content, Mine} /\ e \in {Course!Title, Course!TitleOf(rows[j].item)}
      /\ rows[j].item \in Items /\ rows[j].content \in Documents
  <2>1. RowFits(rows, folder, interrupted, j)
    BY DEF RowsFit
  <2>2. rows[j].path # None
    BY <2>1 DEF RowFits, Unkept
  <2>3. rows[j].content \in Documents
    BY <2>1, <2>2 DEF RowFits
  <2>4. folder[e] \in {rows[j].content, Mine}
    BY DEF Shows
  <2>5. e \in {Course!Title, Course!TitleOf(rows[j].item)} /\ rows[j].item \in Items
    BY ExportsOfRows
  <2> QED
    BY <2>3, <2>4, <2>5
<1>2. e \in Course!Paths
  BY <1>1, PathFacts
<1>3. /\ folder'[Course!Target(k)] = draft[k].content
      /\ \A p \in Course!Paths \ {Course!Target(k)} : folder'[p] = folder[p]
      /\ Course!Target(k) \in {Course!Title, Course!TitleOf(draft[k].item)}
      /\ Course!Target(k) = Course!Title => \/ folder[Course!Title] = None \/ folder[Course!Title] = draft[k].content
                                            \/ Course!Managed(draft[k].item, Course!Title)
  BY ExportEffect
<1>4. CASE e # Course!Target(k)
  BY <1>1, <1>2, <1>3, <1>4
<1>5. CASE e = Course!Target(k) /\ rows[j].item # draft[k].item
  <2>1. /\ Course!TitleOf(rows[j].item) # Course!TitleOf(draft[k].item)
        /\ Course!TitleOf(rows[j].item) # Course!Title
    BY <1>1, <1>5, PathFacts
  <2>2. e = Course!Title
    BY <1>1, <1>3, <1>5, <2>1
  <2>3. ~Course!Managed(draft[k].item, Course!Title)
    BY <1>5, <2>2 DEF Course!Shared
  <2>4. folder[Course!Title] # None
    BY <1>1, <2>2, FolderAssumption
  <2> QED
    BY <1>1, <1>3, <1>5, <2>2, <2>3, <2>4
<1>6. CASE e = Course!Target(k) /\ rows[j].content = draft[k].content
  BY <1>3, <1>6
<1> QED
  BY <1>4, <1>5, <1>6

(* And it keeps what the transaction itself shows. *)
LEMMA ExportShowsDraft ==
    ASSUME FolderTyped, draft \in Seq(Course!Record), RowsFit(draft, folder, interrupted),
           NEW k \in DOMAIN draft,
           draft[k].path \notin Unkept, Course!Exported(k),
           NEW j \in DOMAIN draft, draft[j].item # draft[k].item, Shows(draft, folder, j)
    PROVE  Shows(draft', folder', j)
<1>1. /\ DOMAIN draft' = DOMAIN draft /\ draft'[j] = draft[j] /\ j # k
      /\ \A l \in DOMAIN draft \ {k} : draft'[l] = draft[l]
      /\ draft'[k].item = draft[k].item /\ draft'[k].export = Course!Target(k)
      /\ draft[k].export = Course!Title => Course!Target(k) = Course!Title
      /\ folder'[Course!Target(k)] = draft[k].content
      /\ \A p \in Course!Paths \ {Course!Target(k)} : folder'[p] = folder[p]
      /\ Course!Target(k) \in {Course!Title, Course!TitleOf(draft[k].item)}
  <2>1. draft[k] \in Course!Record
    OBVIOUS
  <2>2. draft'[k] = [draft[k] EXCEPT !.export = Course!Target(k), !.current = TRUE]
    BY ExportEffect
  <2>3. draft'[k].item = draft[k].item /\ draft'[k].export = Course!Target(k)
    BY <2>1, <2>2 DEF Course!Record
  <2> QED
    BY <2>3, ExportEffect
<1> SUFFICES ASSUME draft[j].current, ~Course!Shared(draft', draft[j].export)
             PROVE  folder'[draft[j].export] \in {draft[j].content, Mine}
  BY <1>1 DEF Shows
<1> DEFINE e == draft[j].export
<1>2. e \in {Course!Title, Course!TitleOf(draft[j].item)} /\ draft[j].item \in Items /\ e # None
  BY ExportsOfRows
<1>3. e \in Course!Paths
  BY <1>2, PathFacts
<1>4. e # Course!Target(k)
  <2> SUFFICES ASSUME e = Course!Target(k) PROVE FALSE
    OBVIOUS
  <2>1. Course!Shared(draft', e)
    BY <1>1 DEF Course!Shared
  <2> QED  BY <2>1
<1>5. ~Course!Shared(draft, e)
  <2> SUFFICES ASSUME Course!Shared(draft, e) PROVE FALSE
    OBVIOUS
  <2>1. e = Course!Title
    BY <1>2, ExportsOfRows, SharedTitle
  <2>2. draft[k].export # e
    BY <1>1, <1>4, <2>1
  <2>3. Course!Shared(draft', e)
    BY <1>1, <2>2 DEF Course!Shared
  <2> QED  BY <2>3
<1>6. folder[e] \in {draft[j].content, Mine}
  BY <1>5 DEF Shows
<1> QED
  BY <1>1, <1>3, <1>4, <1>6

(* What happens in the export folder does not touch the records' own files. *)
LEMMA RowsOffExports ==
    ASSUME NEW rows \in Seq(Course!Record), NEW on, NEW new, NEW gone, NEW more, gone \subseteq more,
           RowsFit(rows, on, gone), \A p \in Course!Paths \ Course!Exports : new[p] = on[p]
    PROVE  /\ RowsFit(rows, new, more)
           /\ KnownGone(rows, on, gone) => KnownGone(rows, new, more)
<1>1. Course!Legacy \in Course!Paths \ Course!Exports
  BY PathFacts
<1>2. ASSUME NEW k \in DOMAIN rows PROVE RowFits(rows, new, more, k)
  <2>1. RowFits(rows, on, gone, k) /\ rows[k].path \in Course!Paths \union {None}
    BY ExportsOfRows DEF RowsFit
  <2>2. rows[k].path \notin Unkept => rows[k].path \in Course!Paths \ Course!Exports
    BY <2>1 DEF RowFits, Unkept
  <2> QED
    BY <1>1, <2>1, <2>2 DEF RowFits
<1> QED
  BY <1>1, <1>2 DEF RowsFit, KnownGone

LEMMA StepFacts ==
    ASSUME FolderTyped
    PROVE  /\ Course!Running <=> step.kind = "idle"
           /\ ~Course!Running => /\ step.kind \in {"audit", "audit export", "export", "commit"}
                                 /\ step.next \in Nat \ {0} /\ draft \in Seq(Course!Record)
           /\ files \in Seq(Course!Record)
           /\ folder \in [Course!Paths -> Documents \union {Mine, None}]
<1>1. Course!Idle.kind = "idle"
  BY DEF Course!Idle
<1>2. CASE step = Course!Idle
  BY <1>1, <1>2 DEF FolderTyped, Course!Running
<1>3. CASE /\ step \in [kind : {"audit", "audit export", "export", "commit"}, next : Nat \ {0}]
           /\ draft \in Seq(Course!Record)
  <2>1. step.kind \in {"audit", "audit export", "export", "commit"} /\ step.next \in Nat \ {0}
    BY <1>3
  <2> QED
    BY <1>1, <1>3, <2>1 DEF FolderTyped, Course!Running
<1> QED
  BY <1>2, <1>3 DEF FolderTyped

LEMMA FilesStart == Course!Init => FilesInv
<1> SUFFICES ASSUME Course!Init PROVE FilesInv
  OBVIOUS
<1> DEFINE Start == /\ files \in Seq(Course!Record)
                    /\ folder \in [Course!Paths -> Documents \union {Mine, None}]
                    /\ RowsFit(files, folder, interrupted) /\ DigestsFit(folder)
                    /\ KnownGone(files, folder, interrupted)
                    /\ \A k \in DOMAIN files : ~files[k].current
                    /\ Len(files) \in Nat /\ DOMAIN files = 1..Len(files)
<1>1. Start
  <2>1. CASE files = <<>> /\ folder = [p \in Course!Paths |-> None]
    <3>1. DOMAIN files = {} /\ Len(files) = 0 /\ files \in Seq(Course!Record)
      BY <2>1
    <3>2. DigestsFit(folder)
      BY <2>1, PathFacts DEF DigestsFit
    <3> QED
      BY <2>1, <3>1, <3>2 DEF RowsFit, KnownGone
  <2>2. ASSUME NEW i \in Items, NEW d \in Documents,
               files = <<[item |-> i, content |-> d, path |-> Course!Legacy, status |-> "VALID",
                          export |-> None, current |-> FALSE]>>,
               folder = [p \in Course!Paths |-> IF p = Course!Legacy THEN d ELSE None]
        PROVE  Start
    <3> DEFINE r == [item |-> i, content |-> d, path |-> Course!Legacy, status |-> "VALID",
                     export |-> None, current |-> FALSE]
    <3>1. r \in Course!Record
      BY PathFacts DEF Course!Record
    <3>2. /\ r.path = Course!Legacy /\ r.content = d /\ r.status = "VALID" /\ ~r.current
          /\ r.export = None
      OBVIOUS
    <3> HIDE DEF r
    <3>3. files = <<r>>
      BY <2>2 DEF r
    <3>4. /\ files \in Seq(Course!Record) /\ DOMAIN files = {1} /\ Len(files) = 1 /\ files[1] = r
          /\ 1..1 = {1}
      BY <3>1, <3>3
    <3>5. /\ folder[Course!Legacy] = d /\ d # None
          /\ folder \in [Course!Paths -> Documents \union {Mine, None}]
      BY <2>2, PathFacts, FolderAssumption
    <3>6. DigestsFit(folder)
      BY <2>2, PathFacts DEF DigestsFit
    <3>7. RowFits(files, folder, interrupted, 1)
      BY <3>2, <3>4, <3>5, PathFacts DEF RowFits, Unkept
    <3> QED
      BY <3>2, <3>4, <3>5, <3>6, <3>7 DEF RowsFit, KnownGone
  <2> QED
    BY <2>1, <2>2 DEF Course!Init
<1>2. draft = files /\ step = [kind |-> "audit", next |-> 1] /\ ~Course!Running
  BY DEF Course!Init, Course!Running, Course!Idle
<1>3. FolderTyped
  BY <1>1, <1>2 DEF FolderTyped
<1>4. AuditFits
  BY <1>1, <1>2 DEF AuditFits
<1>5. LegacyIsKnown
  BY <1>1 DEF LegacyIsKnown, KnownGone
<1>6. \A k \in DOMAIN files : Shows(files, folder, k)
  BY <1>1 DEF Shows
<1> QED
  BY <1>1, <1>2, <1>3, <1>4, <1>5, <1>6 DEF FilesInv

LEMMA SaveAgainKeeps ==
    ASSUME FilesInv, NEW i \in Items, Course!SaveAgain(i)
    PROVE  FilesInv'
<1>1. /\ Course!Running /\ draft' = files /\ files' = files /\ folder' = folder
      /\ torn' = torn /\ interrupted' = interrupted
  BY DEF Course!SaveAgain
<1>2. PICK k \in Course!Latest(files, i) : /\ files[k].status = "VALID"
                                           /\ step' = [kind |-> "export", next |-> k]
  BY DEF Course!SaveAgain
<1>3. k \in DOMAIN files /\ files[k].item = i /\ IsLast(files, k)
  BY <1>2 DEF IsLast, Course!Latest, Course!Of
<1>4. /\ files \in Seq(Course!Record) /\ folder \in [Course!Paths -> Documents \union {Mine, None}]
      /\ k \in Nat \ {0} /\ step.kind = "idle"
  <2>1. FolderTyped
    BY DEF FilesInv
  <2>2. /\ step.kind = "idle" /\ files \in Seq(Course!Record)
        /\ folder \in [Course!Paths -> Documents \union {Mine, None}]
    BY <1>1, <2>1, StepFacts
  <2>3. k \in 1..Len(files) /\ Len(files) \in Nat
    BY <1>3, <2>2
  <2> QED
    BY <2>2, <2>3
<1>5. \A j \in DOMAIN files : ValidIsKept(files, j)
  BY <1>4 DEF FilesInv
<1>6. FolderTyped' /\ ~Course!Running'
  BY <1>1, <1>2, <1>4 DEF FolderTyped, Course!Running, Course!Idle
<1>7. /\ RowsFit(files, folder, interrupted)' /\ RowsFit(draft, folder, interrupted)'
      /\ DigestsFit(folder)'
      /\ KnownGone(draft, folder, interrupted)' /\ LegacyIsKnown'
  BY <1>1 DEF FilesInv, RowsFit, RowFits, DigestsFit, LegacyIsKnown, KnownGone
<1>8. (\A j \in DOMAIN files : ValidIsKept(files, j))'
  BY <1>1, <1>5
<1>9. SaveFits'
  BY <1>1, <1>2, <1>3, <1>5 DEF SaveFits, ValidIsKept
<1>10. (\A j \in DOMAIN files :
          IsLast(files, j) /\ files[j].item \notin torn \union Course!Touched => Shows(files, folder, j))'
  BY <1>1, <1>2, <1>4 DEF FilesInv, Course!Touched
<1> QED
  BY <1>2, <1>6, <1>7, <1>8, <1>9, <1>10 DEF FilesInv

LEMMA SaveKeeps ==
    ASSUME FilesInv, NEW i \in Items, NEW d \in Documents \union {Invalid}, Course!Save(i, d)
    PROVE  FilesInv'
<1>1. /\ Course!Running /\ files' = files /\ torn' = torn /\ interrupted' = interrupted
  BY DEF Course!Save
<1>2. PICK path \in IF d = Invalid THEN {None} ELSE Course!FreshFor(Course!NextVersion(i)) :
          /\ draft' = Append(files, [item |-> i, content |-> d, path |-> path,
                                     status |-> IF d = Invalid THEN "INVALID_DOWNLOAD" ELSE "VALID",
                                     export |-> None, current |-> FALSE])
          /\ folder' = IF d = Invalid THEN folder ELSE [folder EXCEPT ![path] = d]
          /\ step' = [kind |-> IF d = Invalid THEN "commit" ELSE "export", next |-> Len(files) + 1]
  BY DEF Course!Save
<1> DEFINE r == [item |-> i, content |-> d, path |-> path,
                 status |-> IF d = Invalid THEN "INVALID_DOWNLOAD" ELSE "VALID",
                 export |-> None, current |-> FALSE]
           n == Len(files) + 1
<1>3. /\ files \in Seq(Course!Record) /\ folder \in [Course!Paths -> Documents \union {Mine, None}]
      /\ step.kind = "idle" /\ Len(files) \in Nat /\ DOMAIN files = 1..Len(files)
  <2>1. FolderTyped
    BY DEF FilesInv
  <2> QED
    BY <1>1, <2>1, StepFacts
<1>4. d # Invalid => path \in {Course!Name} \union Course!Stamped /\ folder[path] = None /\ d \in Documents
  BY <1>2 DEF Course!FreshFor, Course!NextStamp
<1>5. /\ d # Invalid => path \in Course!Paths \ Course!Exports /\ path \notin Unkept
      /\ d = Invalid => path = None
  BY <1>2, <1>4, PathFacts DEF Unkept
<1>6. r \in Course!Record
  BY <1>5 DEF Course!Record
<1>7. /\ r.item = i /\ r.content = d /\ r.path = path /\ r.export = None /\ ~r.current
      /\ r.status = IF d = Invalid THEN "INVALID_DOWNLOAD" ELSE "VALID"
  OBVIOUS
<1> HIDE DEF r
<1>8. /\ draft' \in Seq(Course!Record) /\ DOMAIN draft' = DOMAIN files \union {n} /\ draft'[n] = r
      /\ \A k \in DOMAIN files : draft'[k] = files[k]
      /\ n \notin DOMAIN files /\ n \in Nat \ {0} /\ \A k \in DOMAIN files : k <= n
  <2>1. draft' = Append(files, r)
    BY <1>2 DEF r
  <2>2. /\ draft' \in Seq(Course!Record) /\ Len(draft') = n /\ draft'[n] = r
        /\ \A k \in 1..Len(files) : draft'[k] = files[k]
    BY <1>3, <1>6, <2>1
  <2>3. DOMAIN draft' = 1..n
    BY <2>2
  <2>4. 1..n = 1..Len(files) \union {n}
    BY <1>3
  <2> QED
    BY <1>3, <2>2, <2>3, <2>4
<1>9. /\ step'.next = n /\ step'.kind = (IF d = Invalid THEN "commit" ELSE "export")
      /\ step' \in [kind : {"audit", "audit export", "export", "commit"}, next : Nat \ {0}]
  BY <1>2, <1>8
<1>10. /\ folder' \in [Course!Paths -> Documents \union {Mine, None}]
       /\ \A p \in Course!Paths : p # path => folder'[p] = folder[p]
       /\ d # Invalid => folder'[path] = d
  BY <1>2, <1>3, <1>4, <1>5
<1>11. FolderTyped' /\ ~Course!Running'
  BY <1>1, <1>3, <1>8, <1>9, <1>10 DEF FolderTyped, Course!Running, Course!Idle
<1>12. RowsFit(files, folder', interrupted)
  <2> SUFFICES ASSUME NEW k \in DOMAIN files PROVE RowFits(files, folder', interrupted, k)
    BY DEF RowsFit
  <2>1. RowFits(files, folder, interrupted, k) /\ files[k].path \in Course!Paths \union {None}
    BY <1>3, ExportsOfRows DEF FilesInv, RowsFit
  <2>2. files[k].path \notin Unkept => files[k].path # path \/ d = Invalid
    BY <1>4, <2>1, FolderAssumption DEF RowFits, Unkept
  <2>3. files[k].path \notin Unkept => folder'[files[k].path] = folder[files[k].path]
    BY <1>5, <1>10, <2>1, <2>2 DEF Unkept
  <2>4. folder'[Course!Legacy] = folder[Course!Legacy]
    BY <1>5, <1>10, PathFacts DEF Unkept
  <2> QED
    BY <2>1, <2>3, <2>4 DEF RowFits
<1>13. RowFits(draft', folder', interrupted, n)
  <2>1. CASE d = Invalid
    BY <1>5, <1>7, <1>8, <2>1, PathFacts DEF RowFits, Unkept
  <2>2. CASE d # Invalid
    <3>1. /\ path # None /\ path # Course!Legacy /\ path \notin Course!Exports /\ d \in Documents
          /\ folder'[path] = d
      BY <1>4, <1>5, <1>10, <2>2 DEF Unkept
    <3> QED
      BY <1>7, <1>8, <2>2, <3>1 DEF RowFits
  <2> QED  BY <2>1, <2>2
<1>14. RowsFit(draft', folder', interrupted)
  BY <1>8, <1>12, <1>13 DEF RowsFit, RowFits
<1>15. DigestsFit(folder')
  <2>1. DigestsFit(folder)
    BY DEF FilesInv
  <2>2. \A e \in Documents : Course!WithDigest(e) \in Course!Paths /\ Course!WithDigest(e) # path
    BY <1>4, <1>5, PathFacts
  <2> QED
    BY <1>10, <2>1, <2>2 DEF DigestsFit
<1>16. folder'[Course!Legacy] = folder[Course!Legacy]
  BY <1>5, <1>10, PathFacts DEF Unkept
<1>17. KnownGone(files, folder', interrupted)
  BY <1>1, <1>16 DEF FilesInv, LegacyIsKnown, KnownGone
<1>18. KnownGone(draft', folder', interrupted)
  BY <1>5, <1>7, <1>8, <1>17, PathFacts DEF KnownGone, Unkept
<1>19. \A k \in DOMAIN files : ValidIsKept(files, k)
  BY <1>3 DEF FilesInv
<1>20. SaveFits'
  <2>1. IsLast(draft', n)
    BY <1>8 DEF IsLast, Course!Latest, Course!Of
  <2>2. \A k \in DOMAIN draft' : ValidIsKept(draft', k)
    BY <1>5, <1>7, <1>8, <1>19 DEF ValidIsKept
  <2>3. Shows(draft', folder', n)
    BY <1>7, <1>8 DEF Shows
  <2>4. d # Invalid => draft'[n].path \notin Unkept /\ draft'[n].export = None
    BY <1>5, <1>7, <1>8
  <2>5. step'.kind = "export" => d # Invalid
    BY <1>9
  <2> QED
    BY <1>1, <1>8, <1>9, <2>1, <2>2, <2>3, <2>4, <2>5 DEF SaveFits
<1>21. \A k \in DOMAIN files : Shows(files, folder, k) => Shows(files, folder', k)
  <2> SUFFICES ASSUME NEW k \in DOMAIN files, files[k].current
               PROVE  folder'[files[k].export] = folder[files[k].export]
    BY DEF Shows
  <2>1. files[k].export \in Course!Exports
    BY <1>3, ExportsOfRows, PathFacts DEF FilesInv
  <2> QED
    BY <1>5, <1>10, <2>1, PathFacts
<1>22. (\A j \in DOMAIN files :
          IsLast(files, j) /\ files[j].item \notin torn \union Course!Touched => Shows(files, folder, j))'
  BY <1>1, <1>3, <1>21 DEF FilesInv, Course!Touched
<1> QED
  BY <1>1, <1>9, <1>11, <1>12, <1>14, <1>15, <1>17, <1>18, <1>20, <1>19, <1>22
     DEF FilesInv, LegacyIsKnown, KnownGone

(* What renewing an export, or failing to, does to the records. *)
LEMMA ExportKeeps ==
    ASSUME FilesInv, ~Course!Running, NEW k \in DOMAIN draft, draft[k].path \notin Unkept,
           Course!Exported(k) \/ Course!Unavailable(k)
    PROVE  /\ draft' \in Seq(Course!Record) /\ DOMAIN draft' = DOMAIN draft
           /\ Len(draft') = Len(draft)
           /\ folder' \in [Course!Paths -> Documents \union {Mine, None}]
           /\ \A p \in Course!Paths \ Course!Exports : folder'[p] = folder[p]
           /\ \A j \in DOMAIN draft \ {k} : draft'[j] = draft[j]
           /\ draft'[k].item = draft[k].item /\ draft'[k].content = draft[k].content
           /\ draft'[k].path = draft[k].path /\ draft'[k].status = draft[k].status
           /\ draft[k].export = Course!Title => draft'[k].export = Course!Title
           /\ RowsFit(files, folder', interrupted) /\ RowsFit(draft', folder', interrupted)
           /\ DigestsFit(folder') /\ KnownGone(draft', folder', interrupted)
           /\ folder'[Course!Legacy] = folder[Course!Legacy]
           /\ Shows(draft', folder', k)
           /\ \A j \in DOMAIN draft :
                 draft[j].item # draft[k].item /\ Shows(draft, folder, j) => Shows(draft', folder', j)
           /\ (Course!Managed(draft[k].item, Course!Title) =>
                  \E l \in DOMAIN files : files[l].item = draft[k].item /\ files[l].export = Course!Title)
              => \A j \in DOMAIN files :
                    /\ files[j].item # draft[k].item \/ files[j].content = draft[k].content
                    /\ Shows(files, folder, j)
                    => Shows(files, folder', j)
<1>1. /\ FolderTyped /\ draft \in Seq(Course!Record) /\ files \in Seq(Course!Record)
      /\ folder \in [Course!Paths -> Documents \union {Mine, None}]
      /\ RowsFit(draft, folder, interrupted) /\ RowsFit(files, folder, interrupted)
      /\ DigestsFit(folder) /\ KnownGone(draft, folder, interrupted)
  <2>1. FolderTyped
    BY DEF FilesInv
  <2> QED
    BY <2>1, StepFacts DEF FilesInv
<1>2. /\ draft[k] \in Course!Record /\ draft[k].item \in Items
      /\ draft[k].export \in {None, Course!Title, Course!TitleOf(draft[k].item)}
  BY <1>1, ExportsOfRows
<1> DEFINE Changed ==
             /\ draft' \in Seq(Course!Record) /\ DOMAIN draft' = DOMAIN draft
             /\ Len(draft') = Len(draft)
             /\ folder' \in [Course!Paths -> Documents \union {Mine, None}]
             /\ \A p \in Course!Paths \ Course!Exports : folder'[p] = folder[p]
             /\ \A j \in DOMAIN draft \ {k} : draft'[j] = draft[j]
             /\ draft'[k].item = draft[k].item /\ draft'[k].content = draft[k].content
             /\ draft'[k].path = draft[k].path /\ draft'[k].status = draft[k].status
             /\ draft[k].export = Course!Title => draft'[k].export = Course!Title
             /\ draft'[k].export \in {None, Course!Title, Course!TitleOf(draft[k].item)}
             /\ draft'[k].current => draft'[k].export # None
             /\ Shows(draft', folder', k)
           Others ==
             /\ \A j \in DOMAIN draft :
                   draft[j].item # draft[k].item /\ Shows(draft, folder, j) => Shows(draft', folder', j)
             /\ (Course!Managed(draft[k].item, Course!Title) =>
                    \E l \in DOMAIN files : files[l].item = draft[k].item /\ files[l].export = Course!Title)
                => \A j \in DOMAIN files :
                      /\ files[j].item # draft[k].item \/ files[j].content = draft[k].content
                      /\ Shows(files, folder, j)
                      => Shows(files, folder', j)
<1>3. ASSUME Course!Exported(k) PROVE Changed /\ Others
  <2>1. /\ draft' \in Seq(Course!Record) /\ DOMAIN draft' = DOMAIN draft /\ Len(draft') = Len(draft)
        /\ draft'[k] = [draft[k] EXCEPT !.export = Course!Target(k), !.current = TRUE]
        /\ \A j \in DOMAIN draft \ {k} : draft'[j] = draft[j]
        /\ folder' \in [Course!Paths -> Documents \union {Mine, None}]
        /\ folder'[Course!Target(k)] = draft[k].content
        /\ \A p \in Course!Paths \ {Course!Target(k)} : folder'[p] = folder[p]
        /\ Course!Target(k) \in {Course!Title, Course!TitleOf(draft[k].item)}
        /\ Course!Target(k) \in Course!Exports
        /\ draft[k].export = Course!Title => Course!Target(k) = Course!Title
    BY <1>1, <1>3, ExportEffect
  <2>2. /\ draft'[k].item = draft[k].item /\ draft'[k].content = draft[k].content
        /\ draft'[k].path = draft[k].path /\ draft'[k].status = draft[k].status
        /\ draft'[k].export = Course!Target(k)
    BY <1>2, <2>1 DEF Course!Record
  <2>3. Shows(draft', folder', k)
    BY <2>1, <2>2 DEF Shows
  <2>4. Course!Target(k) # None
    BY <2>1, PathFacts
  <2>5. Changed
    BY <2>1, <2>2, <2>3, <2>4
  <2>6. \A j \in DOMAIN draft :
           draft[j].item # draft[k].item /\ Shows(draft, folder, j) => Shows(draft', folder', j)
    BY <1>1, <1>3, ExportShowsDraft
  <2>7. (Course!Managed(draft[k].item, Course!Title) =>
            \E l \in DOMAIN files : files[l].item = draft[k].item /\ files[l].export = Course!Title)
        => \A j \in DOMAIN files :
              /\ files[j].item # draft[k].item \/ files[j].content = draft[k].content
              /\ Shows(files, folder, j)
              => Shows(files, folder', j)
    BY <1>1, <1>3, ExportShows
  <2> QED  BY <2>5, <2>6, <2>7
<1>4. ASSUME Course!Unavailable(k) PROVE Changed /\ Others
  <2> DEFINE r == [draft[k] EXCEPT !.current = FALSE]
  <2>1. /\ r \in Course!Record /\ r.item = draft[k].item /\ r.content = draft[k].content
        /\ r.path = draft[k].path /\ r.status = draft[k].status /\ r.export = draft[k].export
        /\ ~r.current
    BY <1>2 DEF Course!Record
  <2>2. draft' = [draft EXCEPT ![k] = r] /\ folder' = folder
    BY <1>4 DEF Course!Unavailable
  <2> HIDE DEF r
  <2>3. /\ draft' \in Seq(Course!Record) /\ DOMAIN draft' = DOMAIN draft /\ Len(draft') = Len(draft)
        /\ draft'[k] = r /\ \A j \in DOMAIN draft \ {k} : draft'[j] = draft[j]
    BY <1>1, <2>1, <2>2, RowChanges
  <2>4. Shows(draft', folder', k)
    BY <2>1, <2>3 DEF Shows
  <2>5. Changed
    BY <1>1, <1>2, <2>1, <2>2, <2>3, <2>4
  <2>6. \A j \in DOMAIN draft :
           draft[j].item # draft[k].item /\ Shows(draft, folder, j) => Shows(draft', folder', j)
    <3>1. \A p : Course!Shared(draft, p) => Course!Shared(draft', p)
      BY <2>1, <2>3 DEF Course!Shared
    <3> QED
      BY <2>2, <2>3, <3>1 DEF Shows
  <2> QED  BY <2>2, <2>5, <2>6
<1>6. Changed /\ Others
  BY <1>3, <1>4
<1>7. RowsFit(files, folder', interrupted)
  BY <1>1, <1>6, RowsOffExports
<1>8. RowsFit(draft', folder', interrupted)
  <2>1. RowsFit(draft, folder', interrupted)
    BY <1>1, <1>6, RowsOffExports
  <2> SUFFICES ASSUME NEW j \in DOMAIN draft PROVE RowFits(draft', folder', interrupted, j)
    BY <1>6 DEF RowsFit
  <2>2. RowFits(draft, folder', interrupted, j)
    BY <2>1 DEF RowsFit
  <2>3. CASE j = k
    BY <1>6, <2>2, <2>3 DEF RowFits
  <2>4. CASE j # k
    BY <1>6, <2>2, <2>4 DEF RowFits
  <2> QED  BY <2>3, <2>4
<1>9. folder'[Course!Legacy] = folder[Course!Legacy] /\ DigestsFit(folder')
  <2>1. /\ Course!Legacy \in Course!Paths \ Course!Exports
        /\ \A d \in Documents : Course!WithDigest(d) \in Course!Paths \ Course!Exports
    BY PathFacts
  <2> QED
    BY <1>1, <1>6, <2>1 DEF DigestsFit
<1>10. KnownGone(draft', folder', interrupted)
  <2>1. \A j \in DOMAIN draft : draft'[j].path = draft[j].path
    BY <1>6
  <2> QED
    BY <1>1, <1>6, <1>9, <2>1 DEF KnownGone
<1> QED
  BY <1>6, <1>7, <1>8, <1>9, <1>10

LEMMA ExportStepKeeps ==
    ASSUME FilesInv, Course!Export
    PROVE  FilesInv'
<1> DEFINE k == step.next
<1>1. /\ step.kind = "export" /\ (Course!Exported(k) \/ Course!Unavailable(k))
      /\ step' = [step EXCEPT !.kind = "commit"]
      /\ files' = files /\ torn' = torn /\ interrupted' = interrupted
  BY DEF Course!Export
<1>2. /\ FolderTyped /\ ~Course!Running /\ draft \in Seq(Course!Record)
      /\ files \in Seq(Course!Record) /\ SaveFits
  <2>1. FolderTyped
    BY DEF FilesInv
  <2> QED
    BY <1>1, <2>1, StepFacts DEF FilesInv
<1>3. /\ step'.kind = "commit" /\ step'.next = k /\ k \in Nat \ {0}
      /\ step' \in [kind : {"audit", "audit export", "export", "commit"}, next : Nat \ {0}]
  <2>1. step \in [kind : {"audit", "audit export", "export", "commit"}, next : Nat \ {0}]
    BY <1>2 DEF FolderTyped, Course!Running
  <2> QED
    BY <1>1, <2>1
<1>4. /\ DOMAIN files \subseteq DOMAIN draft /\ DOMAIN draft \subseteq DOMAIN files \union {k}
      /\ k \in DOMAIN draft /\ IsLast(draft, k) /\ draft[k].path \notin Unkept
      /\ \A j \in DOMAIN files \ {k} : draft[j] = files[j]
      /\ \A j \in DOMAIN draft : ValidIsKept(draft, j)
      /\ k \notin DOMAIN files => draft[k].export = None
      /\ k \in DOMAIN files => draft[k] = files[k]
  BY <1>1, <1>2 DEF SaveFits
<1> HIDE DEF k
<1>5. /\ draft' \in Seq(Course!Record) /\ DOMAIN draft' = DOMAIN draft
      /\ folder' \in [Course!Paths -> Documents \union {Mine, None}]
      /\ \A j \in DOMAIN draft \ {k} : draft'[j] = draft[j]
      /\ draft'[k].item = draft[k].item /\ draft'[k].content = draft[k].content
      /\ draft'[k].path = draft[k].path /\ draft'[k].status = draft[k].status
      /\ draft[k].export = Course!Title => draft'[k].export = Course!Title
      /\ RowsFit(files, folder', interrupted) /\ RowsFit(draft', folder', interrupted)
      /\ DigestsFit(folder') /\ KnownGone(draft', folder', interrupted)
      /\ folder'[Course!Legacy] = folder[Course!Legacy]
      /\ Shows(draft', folder', k)
      /\ (Course!Managed(draft[k].item, Course!Title) =>
             \E l \in DOMAIN files : files[l].item = draft[k].item /\ files[l].export = Course!Title)
         => \A j \in DOMAIN files :
               /\ files[j].item # draft[k].item \/ files[j].content = draft[k].content
               /\ Shows(files, folder, j)
               => Shows(files, folder', j)
  BY <1>1, <1>2, <1>4, ExportKeeps
<1>6. /\ FolderTyped' /\ ~Course!Running' /\ step'.kind # "idle"
  BY <1>1, <1>2, <1>3, <1>5 DEF FolderTyped, Course!Running, Course!Idle
<1>7. LegacyIsKnown'
  <2>1. \A j \in DOMAIN files : files[j].path = Course!Legacy /\ folder[Course!Legacy] = None => j \in interrupted
    BY <1>4 DEF FilesInv, LegacyIsKnown, ValidIsKept
  <2> QED
    BY <1>1, <1>5, <2>1 DEF LegacyIsKnown
<1>8. \A j \in DOMAIN files : ValidIsKept(files, j)
  BY <1>1 DEF FilesInv
<1>9. SaveFits'
  <2>1. IsLast(draft', k)
    BY <1>4, <1>5 DEF IsLast, Course!Latest, Course!Of
  <2>2. \A j \in DOMAIN draft : ValidIsKept(draft', j)
    BY <1>4, <1>5 DEF ValidIsKept
  <2>3. k \in DOMAIN files => /\ draft'[k].item = files[k].item /\ draft'[k].path = files[k].path
                              /\ files[k].export = Course!Title => draft'[k].export = Course!Title
    BY <1>4, <1>5
  <2>4. \A j \in DOMAIN files \ {k} : draft'[j] = files[j]
    BY <1>4, <1>5
  <2>5. /\ DOMAIN files \subseteq DOMAIN draft' /\ DOMAIN draft' \subseteq DOMAIN files \union {k}
        /\ k \in DOMAIN draft' /\ Shows(draft', folder', k) /\ step'.kind # "export"
        /\ \A j \in DOMAIN draft' : ValidIsKept(draft', j)
    BY <1>3, <1>4, <1>5, <2>2
  <2> QED
    BY <1>1, <1>3, <2>1, <2>3, <2>4, <2>5 DEF SaveFits
<1>10. ASSUME NEW j \in DOMAIN files, IsLast(files, j), files[j].item \notin torn \union Course!Touched'
       PROVE  Shows(files, folder', j)
  <2>1. Course!Touched = {} /\ Course!Touched' = {draft[k].item}
    BY <1>1, <1>3, <1>5 DEF Course!Touched
  <2>2. Shows(files, folder, j) /\ files[j].item # draft[k].item
    BY <1>10, <2>1 DEF FilesInv
  <2>3. Course!Managed(draft[k].item, Course!Title) =>
            \E l \in DOMAIN files : files[l].item = draft[k].item /\ files[l].export = Course!Title
    <3> SUFFICES ASSUME Course!Managed(draft[k].item, Course!Title)
                 PROVE  \E l \in DOMAIN files : files[l].item = draft[k].item /\ files[l].export = Course!Title
      OBVIOUS
    <3>1. PICK l \in DOMAIN draft : draft[l].item = draft[k].item /\ draft[l].export = Course!Title
      BY DEF Course!Managed, Course!Of
    <3>2. Course!Title # None
      BY PathFacts
    <3> QED
      BY <1>4, <3>1, <3>2
  <2> QED
    BY <1>5, <2>2, <2>3
<1> QED
  BY <1>1, <1>3, <1>5, <1>6, <1>7, <1>8, <1>9, <1>10 DEF FilesInv

LEMMA CommitKeeps ==
    ASSUME FilesInv, Course!Commit
    PROVE  FilesInv'
<1> DEFINE k == step.next
<1>1. /\ step.kind = "commit" /\ files' = draft /\ draft' = None /\ step' = Course!Idle
      /\ torn' = torn \ {draft[k].item} /\ folder' = folder /\ interrupted' = interrupted
  BY DEF Course!Commit
<1>2. /\ ~Course!Running /\ draft \in Seq(Course!Record) /\ files \in Seq(Course!Record) /\ SaveFits
      /\ folder \in [Course!Paths -> Documents \union {Mine, None}]
      /\ RowsFit(files, folder, interrupted) /\ RowsFit(draft, folder, interrupted)
      /\ KnownGone(draft, folder, interrupted) /\ DigestsFit(folder)
  <2>1. FolderTyped
    BY DEF FilesInv
  <2> QED
    BY <1>1, <2>1, StepFacts DEF FilesInv
<1>3. /\ DOMAIN files \subseteq DOMAIN draft /\ DOMAIN draft \subseteq DOMAIN files \union {k}
      /\ k \in DOMAIN draft /\ IsLast(draft, k)
      /\ \A j \in DOMAIN files \ {k} : draft[j] = files[j]
      /\ \A j \in DOMAIN draft : ValidIsKept(draft, j)
      /\ k \in DOMAIN files => /\ draft[k].item = files[k].item
                               /\ files[k].export = Course!Title => draft[k].export = Course!Title
      /\ Shows(draft, folder, k)
  BY <1>1, <1>2 DEF SaveFits
<1> HIDE DEF k
<1>4. FolderTyped' /\ Course!Running' /\ step'.kind = "idle"
  BY <1>1, <1>2 DEF FolderTyped, Course!Running, Course!Idle
<1>5. LegacyIsKnown'
  BY <1>1, <1>2 DEF LegacyIsKnown, KnownGone
<1>6. ASSUME NEW j \in DOMAIN draft, IsLast(draft, j), draft[j].item \notin torn \ {draft[k].item}
      PROVE  Shows(draft, folder, j)
  <2>1. CASE j = k
    BY <1>3, <2>1
  <2>2. CASE j # k
    <3>1. draft[j].item # draft[k].item
      BY <1>2, <1>3, <1>6, <2>2, LastIsOne
    <3>2. j \in DOMAIN files /\ draft[j] = files[j]
      BY <1>3, <2>2
    <3>3. IsLast(files, j)
      BY <1>3, <1>6, <3>1, <3>2 DEF IsLast, Course!Latest, Course!Of
    <3>4. Course!Touched = {draft[k].item}
      BY <1>1 DEF Course!Touched, k
    <3>5. Shows(files, folder, j)
      BY <1>6, <3>1, <3>2, <3>3, <3>4 DEF FilesInv
    <3>6. ASSUME files[j].current, ~Course!Shared(draft, files[j].export) PROVE ~Course!Shared(files, files[j].export)
      <4> SUFFICES ASSUME Course!Shared(files, files[j].export) PROVE FALSE
        OBVIOUS
      <4>1. files[j].export = Course!Title
        BY <1>2, <3>2, <3>6, ExportsOfRows, SharedTitle
      <4>2. Course!Shared(draft, Course!Title)
        <5>1. PICK a, b \in DOMAIN files : /\ files[a].export = Course!Title /\ files[b].export = Course!Title
                                          /\ files[a].item # files[b].item
          BY <4>1 DEF Course!Shared
        <5>2. /\ a \in DOMAIN draft /\ b \in DOMAIN draft
              /\ draft[a].export = Course!Title /\ draft[b].export = Course!Title
              /\ draft[a].item = files[a].item /\ draft[b].item = files[b].item
          BY <1>3, <5>1
        <5> QED
          BY <5>1, <5>2 DEF Course!Shared
      <4> QED
        BY <3>6, <4>1, <4>2
    <3> QED
      BY <3>2, <3>5, <3>6 DEF Shows
  <2> QED  BY <2>1, <2>2
<1>7. Course!Touched' = {}
  BY <1>4 DEF Course!Touched
<1> QED
  BY <1>1, <1>2, <1>3, <1>4, <1>5, <1>6, <1>7 DEF FilesInv

LEMMA SaveFailsKeeps ==
    ASSUME FilesInv, Course!SaveFails
    PROVE  FilesInv'
<1>1. /\ step.kind \in {"export", "commit"} /\ draft' = None /\ step' = Course!Idle
      /\ torn' = torn \union Course!Touched /\ files' = files /\ folder' = folder
      /\ interrupted' = interrupted
  BY DEF Course!SaveFails
<1>2. /\ FolderTyped /\ SaveFits /\ files \in Seq(Course!Record)
      /\ folder \in [Course!Paths -> Documents \union {Mine, None}]
  <2>1. FolderTyped
    BY DEF FilesInv
  <2> QED
    BY <1>1, <2>1, StepFacts DEF FilesInv
<1>3. FolderTyped' /\ Course!Running' /\ step'.kind = "idle"
  BY <1>1, <1>2 DEF FolderTyped, Course!Running, Course!Idle
<1>4. \A j \in DOMAIN files : draft[j].path = files[j].path
  BY <1>2 DEF SaveFits
<1>5. LegacyIsKnown'
  BY <1>1, <1>4 DEF FilesInv, LegacyIsKnown
<1>6. Course!Touched' = {}
  BY <1>3 DEF Course!Touched
<1>7. /\ RowsFit(files, folder, interrupted)' /\ DigestsFit(folder)'
      /\ (\A j \in DOMAIN files : ValidIsKept(files, j))'
  BY <1>1 DEF FilesInv, RowsFit, RowFits, DigestsFit, ValidIsKept
<1>8. (\A j \in DOMAIN files :
          IsLast(files, j) /\ files[j].item \notin torn \union Course!Touched => Shows(files, folder, j))'
  BY <1>1, <1>6 DEF FilesInv
<1> QED
  BY <1>3, <1>5, <1>7, <1>8 DEF FilesInv

LEMMA RowNumbers ==
    ASSUME NEW rows \in Seq(Course!Record)
    PROVE  /\ Len(rows) \in Nat /\ DOMAIN rows = 1..Len(rows)
           /\ \A j \in DOMAIN rows : j \in Nat \ {0} /\ j <= Len(rows)
  OBVIOUS

LEMMA AuditFacts ==
    ASSUME FilesInv, step.kind \in {"audit", "audit export"}
    PROVE  /\ FolderTyped /\ ~Course!Running /\ AuditFits /\ Course!Touched = {}
           /\ draft \in Seq(Course!Record) /\ files \in Seq(Course!Record)
           /\ step.next \in Nat \ {0}
           /\ step \in [kind : {"audit", "audit export", "export", "commit"}, next : Nat \ {0}]
           /\ folder \in [Course!Paths -> Documents \union {Mine, None}]
           /\ RowsFit(files, folder, interrupted) /\ RowsFit(draft, folder, interrupted)
           /\ DigestsFit(folder) /\ KnownGone(draft, folder, interrupted)
           /\ \A k \in DOMAIN files : IsLast(files, k) /\ files[k].item \notin torn => Shows(files, folder, k)
           /\ \A k \in DOMAIN draft : IsLast(draft, k) <=> IsLast(files, k)
<1>1. FolderTyped
  BY DEF FilesInv
<1>2. ~Course!Running /\ Course!Touched = {}
  BY <1>1, StepFacts DEF Course!Touched
<1>3. AuditFits
  BY DEF FilesInv
<1>4. step \in [kind : {"audit", "audit export", "export", "commit"}, next : Nat \ {0}]
  BY <1>1, <1>2 DEF FolderTyped, Course!Running
<1>5. /\ draft \in Seq(Course!Record) /\ files \in Seq(Course!Record) /\ step.next \in Nat \ {0}
      /\ folder \in [Course!Paths -> Documents \union {Mine, None}]
  BY <1>1, <1>2, StepFacts
<1>6. \A k \in DOMAIN draft : IsLast(draft, k) <=> IsLast(files, k)
  <2>1. DOMAIN draft = DOMAIN files /\ \A k \in DOMAIN draft : draft[k].item = files[k].item
    BY <1>3 DEF AuditFits
  <2> QED
    BY <2>1, LastIsSame
<1> QED
  BY <1>1, <1>2, <1>3, <1>4, <1>5, <1>6 DEF FilesInv

LEMMA RowOrder ==
    ASSUME NEW rows \in Seq(Course!Record), NEW k \in Nat \ {0}
    PROVE  /\ \A j \in DOMAIN rows :
                 /\ j \in Nat /\ (j < k + 1 => j <= k) /\ (j >= k + 1 => j > k)
                 /\ (j <= k /\ j # k => j < k) /\ (j > k => j >= k) /\ (j < k => ~(j > k))
                 /\ (j > k + 1 => j >= k + 1) /\ (j = k => j >= k /\ ~(j >= k + 1) /\ ~(j < k))
                 /\ (j >= k + 1 => j # k) /\ (j < k => j < k + 1)
           /\ k \in DOMAIN rows => k + 1 \in DOMAIN rows \/ k + 1 = Len(rows) + 1
           /\ k + 1 \in Nat \ {0}
<1>1. /\ Len(rows) \in Nat /\ DOMAIN rows = 1..Len(rows) /\ \A j \in DOMAIN rows : j \in Nat
  BY RowNumbers
<1> QED
  BY <1>1

(* What the invariant says of an audit that has reached record k. *)
LEMMA AuditRows ==
    ASSUME AuditFits, draft \in Seq(Course!Record), NEW k \in Nat \ {0}, k = step.next,
           step.kind \in {"audit", "audit export"}
    PROVE  /\ DOMAIN draft = DOMAIN files
           /\ k \in DOMAIN draft \/ (step.kind = "audit" /\ k = Len(draft) + 1)
           /\ \A j \in DOMAIN draft :
                 /\ draft[j].item = files[j].item /\ draft[j].content = files[j].content
                 /\ j > k => draft[j] = files[j]
                 /\ j >= k \/ ~IsLast(draft, j) =>
                       draft[j].export = files[j].export /\ draft[j].current = files[j].current
                 /\ j < k => ValidIsKept(draft, j)
                 /\ j < k /\ IsLast(draft, j) => Shows(draft, folder, j)
           /\ step.kind = "audit" /\ k \in DOMAIN draft => draft[k] = files[k]
           /\ step.kind = "audit export" =>
                 ValidIsKept(draft, k) /\ draft[k].path \notin Unkept /\ IsLast(draft, k)
<1>1. \A j \in DOMAIN draft : (j < k => ~(j > k)) /\ (j = k => j >= k)
  BY RowOrder
<1> QED
  BY <1>1 DEF AuditFits

(* A record without its file. *)
LEMMA AuditMissingKeeps ==
    ASSUME FilesInv, Course!AuditMissing
    PROVE  FilesInv'
<1>0. PICK k \in Nat \ {0} : k = step.next
  BY AuditFacts DEF Course!AuditMissing
<1>1. /\ step.kind = "audit" /\ k \in DOMAIN draft /\ ~Course!Present(draft[k])
      /\ draft' = IF draft[k].status = "INVALID_DOWNLOAD" THEN draft
                  ELSE [draft EXCEPT ![k].status = "MISSING"]
  BY <1>0 DEF Course!AuditMissing
<1>2. /\ step' = [step EXCEPT !.next = @ + 1]
      /\ files' = files /\ torn' = torn /\ interrupted' = interrupted /\ folder' = folder
  BY DEF Course!AuditMissing
<1>3. /\ ~Course!Running /\ AuditFits /\ draft \in Seq(Course!Record)
      /\ files \in Seq(Course!Record)
      /\ folder \in [Course!Paths -> Documents \union {Mine, None}]
      /\ RowsFit(files, folder, interrupted) /\ RowsFit(draft, folder, interrupted)
      /\ DigestsFit(folder) /\ KnownGone(draft, folder, interrupted)
      /\ \A j \in DOMAIN files : IsLast(files, j) /\ files[j].item \notin torn => Shows(files, folder, j)
  BY <1>1, AuditFacts
<1>4. /\ step'.kind = "audit" /\ step'.next = k + 1
      /\ step' \in [kind : {"audit", "audit export", "export", "commit"}, next : Nat \ {0}]
  <2>1. step = [kind |-> "audit", next |-> k]
    BY <1>0, <1>1, AuditFacts
  <2>2. step' = [kind |-> "audit", next |-> k + 1]
    BY <1>2, <2>1
  <2>3. k + 1 \in Nat \ {0}
    BY <1>3, RowOrder
  <2> QED
    BY <2>2, <2>3
<1>5. /\ DOMAIN draft = DOMAIN files
      /\ \A j \in DOMAIN draft :
            /\ draft[j].item = files[j].item /\ draft[j].content = files[j].content
            /\ j > k => draft[j] = files[j]
            /\ j >= k \/ ~IsLast(draft, j) =>
                  draft[j].export = files[j].export /\ draft[j].current = files[j].current
            /\ j < k => ValidIsKept(draft, j)
            /\ j < k /\ IsLast(draft, j) => Shows(draft, folder, j)
  BY <1>0, <1>1, <1>3, AuditRows
<1>k. \A j \in DOMAIN draft : /\ j \in Nat /\ (j < k + 1 => j <= k) /\ (j >= k + 1 => j > k)
                              /\ (j <= k /\ j # k => j < k) /\ (j > k => j >= k)
                              /\ (j = k => j >= k /\ ~(j >= k + 1)) /\ (j > k + 1 => j >= k + 1)
  BY <1>3, RowOrder
<1>l. k + 1 \in DOMAIN draft \/ k + 1 = Len(draft) + 1
  BY <1>1, <1>3, RowOrder
<1>6. RowFits(draft, folder, interrupted, k) /\ draft[k] \in Course!Record
  <2>1. \A j \in DOMAIN draft : draft[j] \in Course!Record
    BY <1>3
  <2> QED
    BY <1>1, <1>3, <2>1 DEF RowsFit
<1>7. draft[k].path \in Unkept
  <2> SUFFICES ASSUME draft[k].path \notin Unkept PROVE FALSE
    OBVIOUS
  <2>1. /\ draft[k].path # None /\ folder[draft[k].path] = draft[k].content
        /\ draft[k].content \in Documents
    BY <1>6 DEF RowFits, Unkept
  <2> QED
    BY <1>1, <2>1, FolderAssumption DEF Course!Present
<1>8. ~draft[k].current
  BY <1>6, <1>7 DEF RowFits
<1>9. draft[k].status # "INVALID_DOWNLOAD" => k \in interrupted
  <2> SUFFICES ASSUME draft[k].status # "INVALID_DOWNLOAD" PROVE k \in interrupted
    OBVIOUS
  <2>1. draft[k].path = Course!Legacy /\ Course!Legacy # None
    BY <1>6, <1>7, PathFacts DEF RowFits, Unkept
  <2>2. folder[Course!Legacy] = None
    BY <1>1, <2>1 DEF Course!Present
  <2> QED
    BY <1>1, <1>3, <2>1, <2>2 DEF KnownGone
<1> DEFINE r == IF draft[k].status = "INVALID_DOWNLOAD" THEN draft[k]
                ELSE [draft[k] EXCEPT !.status = "MISSING"]
<1>10. /\ r \in Course!Record /\ r.item = draft[k].item /\ r.content = draft[k].content
       /\ r.path = draft[k].path /\ r.export = draft[k].export /\ r.current = draft[k].current
       /\ r.status # "VALID" \/ draft[k].status = "INVALID_DOWNLOAD"
       /\ r.status = "MISSING" => k \in interrupted
       /\ draft[k].status = "INVALID_DOWNLOAD" => r.status = "INVALID_DOWNLOAD"
  BY <1>6, <1>7, <1>9 DEF Course!Record
<1>11. draft' = [draft EXCEPT ![k] = r]
  <2>1. CASE draft[k].status = "INVALID_DOWNLOAD"
    <3>1. draft = [draft EXCEPT ![k] = draft[k]]
      BY <1>1, <1>3
    <3> QED  BY <1>1, <2>1, <3>1
  <2>2. CASE draft[k].status # "INVALID_DOWNLOAD"
    BY <1>1, <2>2
  <2> QED  BY <2>1, <2>2
<1> HIDE DEF r
<1>12. /\ draft' \in Seq(Course!Record) /\ DOMAIN draft' = DOMAIN draft /\ Len(draft') = Len(draft)
       /\ draft'[k] = r /\ \A j \in DOMAIN draft \ {k} : draft'[j] = draft[j]
  <2>1. draft \in Seq(Course!Record) /\ r \in Course!Record /\ k \in DOMAIN draft
    BY <1>1, <1>3, <1>10
  <2> QED
    BY <1>11, <2>1, RowChanges
<1>13. FolderTyped' /\ ~Course!Running' /\ Course!Touched' = {}
  BY <1>2, <1>3, <1>4, <1>12 DEF FolderTyped, Course!Running, Course!Idle, Course!Touched
<1>14. \A j \in DOMAIN draft :
          /\ draft'[j].item = draft[j].item /\ draft'[j].content = draft[j].content
          /\ draft'[j].path = draft[j].path /\ draft'[j].export = draft[j].export
          /\ draft'[j].current = draft[j].current
  BY <1>10, <1>12
<1>15. RowsFit(draft', folder, interrupted)
  <2> SUFFICES ASSUME NEW j \in DOMAIN draft PROVE RowFits(draft', folder, interrupted, j)
    BY <1>12 DEF RowsFit
  <2>1. RowFits(draft, folder, interrupted, j)
    BY <1>3 DEF RowsFit
  <2>2. /\ draft[j].status = "INVALID_DOWNLOAD" => draft'[j].status = "INVALID_DOWNLOAD"
        /\ draft'[j].status = "MISSING" => j \in interrupted
    BY <1>10, <1>12, <2>1 DEF RowFits
  <2> QED
    BY <1>14, <2>1, <2>2 DEF RowFits
<1>16. KnownGone(draft', folder, interrupted) /\ LegacyIsKnown'
  BY <1>2, <1>3, <1>5, <1>12, <1>13, <1>14 DEF FilesInv, KnownGone, LegacyIsKnown
<1>17. \A j \in DOMAIN draft : IsLast(draft', j) <=> IsLast(draft, j)
  BY <1>12, <1>14 DEF IsLast, Course!Latest, Course!Of
<1>18. \A j \in DOMAIN draft : Shows(draft, folder, j) => Shows(draft', folder, j)
  BY <1>12, <1>14 DEF Shows, Course!Shared
<1>19. AuditFits'
  <2>1. ASSUME NEW j \in DOMAIN draft
        PROVE  /\ draft'[j].item = files[j].item /\ draft'[j].content = files[j].content
               /\ j >= k + 1 => draft'[j] = files[j]
               /\ j >= k + 1 \/ ~IsLast(draft', j) =>
                     draft'[j].export = files[j].export /\ draft'[j].current = files[j].current
               /\ j < k + 1 => ValidIsKept(draft', j)
               /\ j < k + 1 /\ IsLast(draft', j) => Shows(draft', folder, j)
    <3>1. CASE j = k
      <4>1. ValidIsKept(draft', j)
        BY <1>10, <1>12, <3>1 DEF ValidIsKept
      <4>2. Shows(draft', folder, j)
        BY <1>8, <1>14, <3>1 DEF Shows
      <4>3. ~(j >= k + 1) /\ j >= k
        BY <1>k, <3>1
      <4>4. draft'[j].export = files[j].export /\ draft'[j].current = files[j].current
        BY <1>5, <1>14, <4>3
      <4> QED
        BY <1>5, <1>14, <4>1, <4>2, <4>3, <4>4
    <3>2. CASE j # k
      <4>1. draft'[j] = draft[j]
        BY <1>12, <3>2
      <4>2. (j < k + 1 => j < k) /\ (j >= k + 1 => j > k /\ j >= k)
        BY <1>k, <3>2
      <4>3. j < k => ValidIsKept(draft', j)
        BY <1>5, <4>1 DEF ValidIsKept
      <4> QED
        BY <1>5, <1>17, <1>18, <4>1, <4>2, <4>3
    <3> QED  BY <3>1, <3>2
  <2>2. \A j \in DOMAIN draft : (j > k + 1 \/ (j = k + 1 /\ TRUE)) => j >= k + 1
    BY <1>k
  <2> QED
    BY <1>2, <1>4, <1>5, <1>12, <1>l, <2>1, <2>2 DEF AuditFits
<1> QED
  BY <1>2, <1>3, <1>4, <1>13, <1>15, <1>16, <1>19 DEF FilesInv, RowsFit, RowFits, DigestsFit

(* A record whose name is corrected, in the records and on the disk. *)
LEMMA RenameKeeps ==
    ASSUME FilesInv, step.kind = "audit", NEW k \in DOMAIN draft, draft[k] = files[k], Course!Present(draft[k]),
           draft' = Course!Checked(k), files' = files, interrupted' = interrupted,
           folder' = IF Course!Renamed(k) = draft[k].path THEN folder
                   ELSE [folder EXCEPT ![Course!Renamed(k)] = draft[k].content, ![draft[k].path] = None]
    PROVE  /\ draft' \in Seq(Course!Record) /\ DOMAIN draft' = DOMAIN draft
           /\ Len(draft') = Len(draft)
           /\ folder' \in [Course!Paths -> Documents \union {Mine, None}]
           /\ \A p \in Course!Exports : folder'[p] = folder[p]
           /\ \A j \in DOMAIN draft \ {k} : draft'[j] = draft[j]
           /\ draft'[k].item = draft[k].item /\ draft'[k].content = draft[k].content
           /\ draft'[k].export = draft[k].export /\ draft'[k].current = draft[k].current
           /\ draft'[k].path \notin Unkept
           /\ RowsFit(files, folder', interrupted) /\ RowsFit(draft', folder', interrupted)
           /\ DigestsFit(folder') /\ KnownGone(draft', folder', interrupted)
           /\ \A j \in DOMAIN files : files[j].path = Course!Legacy /\ folder'[Course!Legacy] = None =>
                 j \in interrupted \/ draft'[j].path # Course!Legacy
<1>1. /\ draft \in Seq(Course!Record) /\ files \in Seq(Course!Record)
      /\ folder \in [Course!Paths -> Documents \union {Mine, None}]
      /\ RowsFit(files, folder, interrupted) /\ RowsFit(draft, folder, interrupted)
      /\ DigestsFit(folder) /\ KnownGone(draft, folder, interrupted)
      /\ DOMAIN draft = DOMAIN files
      /\ \A j \in DOMAIN files : files[j].path = Course!Legacy /\ folder[Course!Legacy] = None =>
            j \in interrupted \/ draft[j].path # Course!Legacy
  <2>1. ~Course!Running /\ AuditFits
    BY AuditFacts
  <2> QED
    BY <2>1, AuditFacts DEF FilesInv, LegacyIsKnown, AuditFits
<1>2. /\ draft[k] \in Course!Record /\ draft[k].path \in Course!Paths \union {None}
      /\ RowFits(draft, folder, interrupted, k)
  <2>1. \A j \in DOMAIN draft : draft[j] \in Course!Record
    BY <1>1
  <2> QED
    BY <1>1, <2>1, ExportsOfRows DEF RowsFit
<1>3. draft[k].path \in Course!Paths /\ draft[k].path # None /\ folder[draft[k].path] # None
  BY <1>2 DEF Course!Present
<1>4. draft[k].content \in Documents
  BY <1>2, <1>3 DEF RowFits
<1> DEFINE to == Course!Renamed(k)
           from == draft[k].path
           r == [draft[k] EXCEPT !.path = to, !.status = "VALID"]
<1>5. /\ from # Course!Legacy => to = from
      /\ from = Course!Legacy => \/ to = Course!Name /\ folder[Course!Name] = None
                                 \/ to = Course!WithDigest(draft[k].content)
  BY DEF Course!Renamed
<1>6. to \in Course!Paths /\ to \notin Unkept /\ to \notin Course!Exports
  <2>1. CASE from # Course!Legacy
    BY <1>2, <1>3, <1>5, <2>1 DEF RowFits, Unkept
  <2>2. CASE from = Course!Legacy
    BY <1>4, <1>5, <2>2, PathFacts DEF Unkept
  <2> QED  BY <2>1, <2>2
<1>7. /\ r \in Course!Record /\ r.item = draft[k].item /\ r.content = draft[k].content
      /\ r.path = to
      /\ r.export = draft[k].export /\ r.current = draft[k].current /\ r.status = "VALID"
  BY <1>2, <1>6 DEF Course!Record
<1>8. draft' = [draft EXCEPT ![k] = r]
  BY DEF Course!Checked
<1>9. folder' = IF to = from THEN folder ELSE [folder EXCEPT ![to] = draft[k].content, ![from] = None]
  OBVIOUS
<1> HIDE DEF r, to
<1>10. /\ draft' \in Seq(Course!Record) /\ DOMAIN draft' = DOMAIN draft /\ Len(draft') = Len(draft)
       /\ draft'[k] = r /\ \A j \in DOMAIN draft \ {k} : draft'[j] = draft[j]
  BY <1>1, <1>7, <1>8, RowChanges
<1>11. CASE from # Course!Legacy
  <2>1. folder' = folder
    BY <1>5, <1>9, <1>11
  <2>2. RowFits(draft', folder, interrupted, k)
    BY <1>2, <1>3, <1>5, <1>7, <1>10, <1>11 DEF RowFits
  <2>3. RowsFit(draft', folder, interrupted)
    <3> SUFFICES ASSUME NEW j \in DOMAIN draft, j # k PROVE RowFits(draft', folder, interrupted, j)
      BY <1>10, <2>2 DEF RowsFit
    <3>1. RowFits(draft, folder, interrupted, j) /\ draft'[j] = draft[j]
      BY <1>1, <1>10 DEF RowsFit
    <3> QED
      BY <3>1 DEF RowFits
  <2>4. \A j \in DOMAIN draft : draft'[j].path = draft[j].path
    BY <1>5, <1>7, <1>10, <1>11
  <2>5. KnownGone(draft', folder, interrupted)
    BY <1>1, <1>10, <2>4 DEF KnownGone
  <2>6. \A j \in DOMAIN files : files[j].path = Course!Legacy /\ folder[Course!Legacy] = None =>
           j \in interrupted \/ draft'[j].path # Course!Legacy
    BY <1>1, <2>4
  <2> QED
    BY <1>1, <1>6, <1>7, <1>10, <2>1, <2>3, <2>5, <2>6
<1>12. CASE from = Course!Legacy
  <2>1. folder[Course!Legacy] = draft[k].content /\ k = 1 /\ ~draft[k].current
    BY <1>2, <1>3, <1>12 DEF RowFits, Unkept
  <2>2. to # Course!Legacy /\ Course!Legacy \in Course!Paths /\ to \in Course!Paths
    BY <1>6, PathFacts DEF Unkept
  <2>3. /\ folder' \in [Course!Paths -> Documents \union {Mine, None}]
        /\ folder'[to] = draft[k].content /\ folder'[Course!Legacy] = None
        /\ \A p \in Course!Paths : p # to /\ p # Course!Legacy => folder'[p] = folder[p]
    BY <1>1, <1>4, <1>9, <1>12, <2>2
  <2>4. folder[to] \in {None, draft[k].content}
    BY <1>1, <1>4, <1>5, <1>12 DEF DigestsFit
  <2>5. \A j \in DOMAIN draft : draft[j].path = Course!Legacy => j = k
    <3>1. \A j \in DOMAIN draft : draft[j].path = Course!Legacy => j = 1
      BY <1>1, PathFacts DEF RowsFit, RowFits
    <3> QED  BY <2>1, <3>1
  <2>6. \A j \in DOMAIN files : files[j].path = Course!Legacy => j = k
    <3>1. \A j \in DOMAIN files : files[j].path = Course!Legacy => j = 1
      BY <1>1, PathFacts DEF RowsFit, RowFits
    <3> QED  BY <2>1, <3>1
  <2>7. ASSUME NEW rows \in Seq(Course!Record), RowsFit(rows, folder, interrupted), NEW j \in DOMAIN rows
        PROVE  RowFits(rows, folder', interrupted, j)
    <3>1. RowFits(rows, folder, interrupted, j) /\ rows[j].path \in Course!Paths \union {None}
      BY <2>7, ExportsOfRows DEF RowsFit
    <3>2. rows[j].path \notin Unkept => folder'[rows[j].path] = rows[j].content
      <4> SUFFICES ASSUME rows[j].path \notin Unkept PROVE folder'[rows[j].path] = rows[j].content
        OBVIOUS
      <4>1. /\ folder[rows[j].path] = rows[j].content /\ rows[j].content \in Documents
            /\ rows[j].path \in Course!Paths /\ rows[j].path # Course!Legacy
        BY <3>1 DEF RowFits, Unkept
      <4>2. rows[j].content # None
        BY <4>1, FolderAssumption
      <4>3. CASE rows[j].path = to
        BY <2>3, <2>4, <4>1, <4>2, <4>3
      <4>4. CASE rows[j].path # to
        BY <2>3, <4>1, <4>4
      <4> QED  BY <4>3, <4>4
    <3> QED
      BY <2>3, <3>1, <3>2 DEF RowFits
  <2>8. RowsFit(files, folder', interrupted)
    BY <1>1, <2>7 DEF RowsFit
  <2>9. RowsFit(draft, folder', interrupted)
    BY <1>1, <2>7 DEF RowsFit
  <2>10. RowFits(draft', folder', interrupted, k)
    BY <1>2, <1>4, <1>6, <1>7, <1>10, <2>1, <2>3 DEF RowFits, Unkept
  <2>11. RowsFit(draft', folder', interrupted)
    <3> SUFFICES ASSUME NEW j \in DOMAIN draft, j # k PROVE RowFits(draft', folder', interrupted, j)
      BY <1>10, <2>10 DEF RowsFit
    <3>1. RowFits(draft, folder', interrupted, j) /\ draft'[j] = draft[j]
      BY <1>10, <2>9 DEF RowsFit
    <3> QED
      BY <3>1 DEF RowFits
  <2>12. DigestsFit(folder')
    <3> SUFFICES ASSUME NEW d \in Documents PROVE folder'[Course!WithDigest(d)] \in {None, d}
      BY DEF DigestsFit
    <3>1. /\ Course!WithDigest(d) \in Course!Paths /\ Course!WithDigest(d) # Course!Legacy
          /\ Course!WithDigest(d) # Course!Name
      BY PathFacts
    <3>2. CASE Course!WithDigest(d) = to
      <4>1. d = draft[k].content
        BY <1>5, <1>12, <3>1, <3>2, PathFacts
      <4> QED  BY <2>3, <3>2, <4>1
    <3>3. CASE Course!WithDigest(d) # to
      BY <1>1, <2>3, <3>1, <3>3 DEF DigestsFit
    <3> QED  BY <3>2, <3>3
  <2>13. draft'[k].path # Course!Legacy
    BY <1>7, <1>10, <2>2
  <2>14. KnownGone(draft', folder', interrupted)
    BY <1>10, <2>5, <2>13 DEF KnownGone
  <2>15. \A j \in DOMAIN files : files[j].path = Course!Legacy => draft'[j].path # Course!Legacy
    BY <2>6, <2>13
  <2>16. \A p \in Course!Exports : folder'[p] = folder[p]
    BY <1>6, <2>3, PathFacts
  <2> QED
    BY <1>6, <1>7, <1>10, <2>3, <2>8, <2>11, <2>12, <2>14, <2>15, <2>16
<1> QED
  BY <1>11, <1>12

LEMMA AuditPresentKeeps ==
    ASSUME FilesInv, Course!AuditPresent
    PROVE  FilesInv'
<1>0. PICK k \in Nat \ {0} : k = step.next
  BY AuditFacts DEF Course!AuditPresent
<1>1. /\ step.kind = "audit" /\ k \in DOMAIN draft /\ Course!Present(draft[k])
      /\ draft' = Course!Checked(k)
      /\ folder' = IF Course!Renamed(k) = draft[k].path THEN folder
                 ELSE [folder EXCEPT ![Course!Renamed(k)] = draft[k].content, ![draft[k].path] = None]
  BY <1>0 DEF Course!AuditPresent
<1>2. /\ step' = IF Course!IsLatest(k) THEN [step EXCEPT !.kind = "audit export"]
                 ELSE [step EXCEPT !.next = @ + 1]
      /\ files' = files /\ torn' = torn /\ interrupted' = interrupted
  BY <1>0 DEF Course!AuditPresent
<1>3. /\ ~Course!Running /\ AuditFits /\ draft \in Seq(Course!Record)
      /\ files \in Seq(Course!Record)
      /\ RowsFit(files, folder, interrupted) /\ RowsFit(draft, folder, interrupted)
      /\ \A j \in DOMAIN files : IsLast(files, j) /\ files[j].item \notin torn => Shows(files, folder, j)
  BY <1>1, AuditFacts
<1>4. /\ step'.kind = (IF IsLast(draft, k) THEN "audit export" ELSE "audit")
      /\ step'.next = (IF IsLast(draft, k) THEN k ELSE k + 1)
      /\ step' \in [kind : {"audit", "audit export", "export", "commit"}, next : Nat \ {0}]
  <2>1. step = [kind |-> "audit", next |-> k]
    BY <1>0, <1>1, AuditFacts
  <2>2. step' = IF IsLast(draft, k) THEN [step EXCEPT !.kind = "audit export"]
                ELSE [step EXCEPT !.next = @ + 1]
    BY <1>2 DEF Course!IsLatest, IsLast
  <2>3. step \in [kind : {"audit", "audit export", "export", "commit"}, next : Nat \ {0}]
    BY <1>1, AuditFacts
  <2>4. CASE IsLast(draft, k)
    <3>1. step' = [step EXCEPT !.kind = "audit export"]
      BY <2>2, <2>4
    <3>2. /\ step'.kind = "audit export" /\ step'.next = step.next
          /\ step' \in [kind : {"audit", "audit export", "export", "commit"}, next : Nat \ {0}]
      BY <2>3, <3>1
    <3> QED
      BY <1>0, <2>4, <3>2
  <2>5. CASE ~IsLast(draft, k)
    <3>1. step' = [kind |-> "audit", next |-> k + 1]
      BY <2>1, <2>2, <2>5
    <3>2. k + 1 \in Nat \ {0}
      BY <1>3, RowOrder
    <3> QED
      BY <2>5, <3>1, <3>2
  <2> QED  BY <2>4, <2>5
<1>5. /\ DOMAIN draft = DOMAIN files /\ draft[k] = files[k]
      /\ \A j \in DOMAIN draft :
            /\ draft[j].item = files[j].item /\ draft[j].content = files[j].content
            /\ j > k => draft[j] = files[j]
            /\ j >= k \/ ~IsLast(draft, j) =>
                  draft[j].export = files[j].export /\ draft[j].current = files[j].current
            /\ j < k => ValidIsKept(draft, j)
            /\ j < k /\ IsLast(draft, j) => Shows(draft, folder, j)
  BY <1>0, <1>1, <1>3, AuditRows
<1>6. /\ draft' \in Seq(Course!Record) /\ DOMAIN draft' = DOMAIN draft /\ Len(draft') = Len(draft)
      /\ folder' \in [Course!Paths -> Documents \union {Mine, None}]
      /\ \A p \in Course!Exports : folder'[p] = folder[p]
      /\ \A j \in DOMAIN draft \ {k} : draft'[j] = draft[j]
      /\ draft'[k].item = draft[k].item /\ draft'[k].content = draft[k].content
      /\ draft'[k].export = draft[k].export /\ draft'[k].current = draft[k].current
      /\ draft'[k].path \notin Unkept
      /\ RowsFit(files, folder', interrupted) /\ RowsFit(draft', folder', interrupted)
      /\ DigestsFit(folder') /\ KnownGone(draft', folder', interrupted)
      /\ \A j \in DOMAIN files : files[j].path = Course!Legacy /\ folder'[Course!Legacy] = None =>
            j \in interrupted \/ draft'[j].path # Course!Legacy
  BY <1>1, <1>2, <1>5, RenameKeeps
<1>7. FolderTyped' /\ ~Course!Running' /\ Course!Touched' = {}
  BY <1>2, <1>3, <1>4, <1>6 DEF FolderTyped, Course!Running, Course!Idle, Course!Touched
<1>8. LegacyIsKnown'
  BY <1>2, <1>6, <1>7 DEF LegacyIsKnown
<1>9. /\ \A j \in DOMAIN draft : /\ draft'[j].item = draft[j].item /\ draft'[j].content = draft[j].content
                                 /\ draft'[j].export = draft[j].export
                                 /\ draft'[j].current = draft[j].current
      /\ \A j \in DOMAIN draft : IsLast(draft', j) <=> IsLast(draft, j)
  <2>1. \A j \in DOMAIN draft : /\ draft'[j].item = draft[j].item /\ draft'[j].content = draft[j].content
                                /\ draft'[j].export = draft[j].export
                                /\ draft'[j].current = draft[j].current
    BY <1>6
  <2> QED
    BY <1>6, <2>1 DEF IsLast, Course!Latest, Course!Of
<1>10. \A j \in DOMAIN draft : Shows(draft, folder, j) => Shows(draft', folder', j)
  <2> SUFFICES ASSUME NEW j \in DOMAIN draft, draft[j].current
               PROVE  Shows(draft, folder, j) => Shows(draft', folder', j)
    BY <1>9 DEF Shows
  <2>1. draft[j].export \in Course!Exports
    BY <1>3, ExportsOfRows, PathFacts
  <2>2. \A p : Course!Shared(draft, p) => Course!Shared(draft', p)
    BY <1>6, <1>9 DEF Course!Shared
  <2> QED
    BY <1>6, <1>9, <2>1, <2>2 DEF Shows
<1>11. \A j \in DOMAIN files : Shows(files, folder, j) => Shows(files, folder', j)
  <2> SUFFICES ASSUME NEW j \in DOMAIN files, files[j].current
               PROVE  Shows(files, folder, j) => Shows(files, folder', j)
    BY DEF Shows
  <2>1. files[j].export \in Course!Exports
    BY <1>3, ExportsOfRows, PathFacts
  <2> QED
    BY <1>6, <2>1 DEF Shows
<1>12. \A j \in DOMAIN draft : /\ (j < k + 1 => j <= k) /\ (j >= k + 1 => j > k)
                               /\ (j <= k /\ j # k => j < k) /\ (j > k => j >= k)
                               /\ (j = k => j >= k /\ ~(j >= k + 1) /\ ~(j < k))
                               /\ (j > k + 1 => j >= k + 1)
                               /\ (j >= k + 1 => j # k) /\ (j < k => ~(j > k))
  BY <1>3, RowOrder
<1>13. ASSUME NEW j \in DOMAIN draft
       PROVE  /\ j > k => draft'[j] = files[j]
              /\ j >= k \/ ~IsLast(draft', j) =>
                    draft'[j].export = files[j].export /\ draft'[j].current = files[j].current
              /\ j < k \/ j = k => ValidIsKept(draft', j)
              /\ j < k /\ IsLast(draft', j) => Shows(draft', folder', j)
  <2>1. j > k => draft'[j] = files[j]
    BY <1>5, <1>6, <1>12
  <2>2. j >= k \/ ~IsLast(draft', j) =>
            draft'[j].export = files[j].export /\ draft'[j].current = files[j].current
    BY <1>5, <1>9
  <2>3. j < k => ValidIsKept(draft', j)
    BY <1>5, <1>6, <1>12 DEF ValidIsKept
  <2>4. j = k => ValidIsKept(draft', j)
    BY <1>6 DEF ValidIsKept
  <2>5. j < k /\ IsLast(draft', j) => Shows(draft', folder', j)
    BY <1>5, <1>9, <1>10
  <2> QED  BY <2>1, <2>2, <2>3, <2>4, <2>5
<1>14. AuditFits'
  <2>1. CASE IsLast(draft, k)
    <3>1. step'.kind = "audit export" /\ step'.next = k
      BY <1>4, <2>1
    <3>2. IsLast(draft', k)
      BY <1>1, <1>9, <2>1
    <3>3. ASSUME NEW j \in DOMAIN draft
          PROVE  /\ draft'[j].item = files[j].item /\ draft'[j].content = files[j].content
                 /\ j > k => draft'[j] = files[j]
                 /\ j >= k \/ ~IsLast(draft', j) =>
                       draft'[j].export = files[j].export /\ draft'[j].current = files[j].current
                 /\ ValidIsKept(draft', j) \/ j > k
                 /\ j < k /\ IsLast(draft', j) => Shows(draft', folder', j)
      <4>1. j > k \/ j < k \/ j = k
        BY <1>3, RowNumbers
      <4> QED
        BY <1>5, <1>9, <1>13, <4>1
    <3>4. k \in DOMAIN draft /\ draft'[k].path \notin Unkept
      BY <1>1, <1>6
    <3>5. files' = files /\ DOMAIN draft' = DOMAIN draft /\ DOMAIN draft = DOMAIN files
      BY <1>2, <1>5, <1>6
    <3> QED
      BY <3>1, <3>2, <3>3, <3>4, <3>5 DEF AuditFits
  <2>2. CASE ~IsLast(draft, k)
    <3>1. step'.kind = "audit" /\ step'.next = k + 1
      BY <1>4, <2>2
    <3>2. ~IsLast(draft', k)
      BY <1>1, <1>9, <2>2
    <3>3. k + 1 \in DOMAIN draft \/ k + 1 = Len(draft) + 1
      BY <1>1, <1>3, RowOrder
    <3>4. ASSUME NEW j \in DOMAIN draft
          PROVE  /\ draft'[j].item = files[j].item /\ draft'[j].content = files[j].content
                 /\ j > k + 1 \/ j = k + 1 => draft'[j] = files[j]
                 /\ j >= k + 1 \/ ~IsLast(draft', j) =>
                       draft'[j].export = files[j].export /\ draft'[j].current = files[j].current
                 /\ j < k + 1 => ValidIsKept(draft', j)
                 /\ j < k + 1 /\ IsLast(draft', j) => Shows(draft', folder', j)
      <4>1. /\ (j > k + 1 \/ j = k + 1 => j > k) /\ (j >= k + 1 => j >= k)
            /\ (j < k + 1 => j < k \/ j = k)
        <5>1. j \in Nat
          BY <1>3, RowNumbers
        <5> QED  BY <5>1
      <4> QED
        BY <1>5, <1>9, <1>13, <3>2, <4>1
    <3>5. /\ files' = files /\ DOMAIN draft' = DOMAIN draft /\ DOMAIN draft = DOMAIN files
          /\ Len(draft') = Len(draft)
      BY <1>2, <1>5, <1>6
    <3> QED
      BY <3>1, <3>3, <3>4, <3>5 DEF AuditFits
  <2> QED  BY <2>1, <2>2
<1> QED
  BY <1>2, <1>3, <1>4, <1>6, <1>7, <1>8, <1>11, <1>14 DEF FilesInv

LEMMA AuditExportKeeps ==
    ASSUME FilesInv, Course!AuditExport
    PROVE  FilesInv'
<1>0. PICK k \in Nat \ {0} : k = step.next
  BY AuditFacts DEF Course!AuditExport
<1>1. /\ step.kind = "audit export" /\ (Course!Exported(k) \/ Course!Unavailable(k))
      /\ step' = [kind |-> "audit", next |-> k + 1]
      /\ files' = files /\ torn' = torn /\ interrupted' = interrupted
  BY <1>0 DEF Course!AuditExport
<1>2. /\ ~Course!Running /\ AuditFits /\ draft \in Seq(Course!Record)
      /\ files \in Seq(Course!Record) /\ Course!Touched = {}
      /\ \A j \in DOMAIN files : IsLast(files, j) /\ files[j].item \notin torn => Shows(files, folder, j)
      /\ \A j \in DOMAIN draft : IsLast(draft, j) <=> IsLast(files, j)
  BY <1>1, AuditFacts
<1>3. /\ DOMAIN draft = DOMAIN files /\ k \in DOMAIN draft
      /\ \A j \in DOMAIN draft :
            /\ draft[j].item = files[j].item /\ draft[j].content = files[j].content
            /\ j > k => draft[j] = files[j]
            /\ j >= k \/ ~IsLast(draft, j) =>
                  draft[j].export = files[j].export /\ draft[j].current = files[j].current
            /\ j < k => ValidIsKept(draft, j)
            /\ j < k /\ IsLast(draft, j) => Shows(draft, folder, j)
      /\ ValidIsKept(draft, k) /\ draft[k].path \notin Unkept /\ IsLast(draft, k)
  BY <1>0, <1>1, <1>2, AuditRows
<1>4. /\ draft' \in Seq(Course!Record) /\ DOMAIN draft' = DOMAIN draft /\ Len(draft') = Len(draft)
      /\ folder' \in [Course!Paths -> Documents \union {Mine, None}]
      /\ \A j \in DOMAIN draft \ {k} : draft'[j] = draft[j]
      /\ draft'[k].item = draft[k].item /\ draft'[k].content = draft[k].content
      /\ draft'[k].path = draft[k].path /\ draft'[k].status = draft[k].status
      /\ RowsFit(files, folder', interrupted) /\ RowsFit(draft', folder', interrupted)
      /\ DigestsFit(folder') /\ KnownGone(draft', folder', interrupted)
      /\ folder'[Course!Legacy] = folder[Course!Legacy]
      /\ Shows(draft', folder', k)
      /\ \A j \in DOMAIN draft :
            draft[j].item # draft[k].item /\ Shows(draft, folder, j) => Shows(draft', folder', j)
      /\ (Course!Managed(draft[k].item, Course!Title) =>
             \E l \in DOMAIN files : files[l].item = draft[k].item /\ files[l].export = Course!Title)
         => \A j \in DOMAIN files :
               /\ files[j].item # draft[k].item \/ files[j].content = draft[k].content
               /\ Shows(files, folder, j)
               => Shows(files, folder', j)
  BY <1>1, <1>2, <1>3, ExportKeeps
<1>5. /\ k + 1 \in Nat \ {0} /\ (k + 1 \in DOMAIN draft \/ k + 1 = Len(draft) + 1)
      /\ \A j \in DOMAIN draft : /\ j \in Nat /\ (j < k + 1 => j <= k) /\ (j >= k + 1 => j > k)
                                 /\ (j <= k /\ j # k => j < k) /\ (j > k => j >= k)
                                 /\ (j = k => j >= k /\ ~(j >= k + 1)) /\ (j > k + 1 => j >= k + 1)
                                 /\ (j >= k + 1 => j # k) /\ (j < k => ~(j > k))
  BY <1>2, <1>3, RowOrder
<1>6. step'.kind = "audit" /\ step'.next = k + 1
      /\ step' \in [kind : {"audit", "audit export", "export", "commit"}, next : Nat \ {0}]
  BY <1>1, <1>5
<1>7. FolderTyped' /\ ~Course!Running' /\ Course!Touched' = {}
  BY <1>1, <1>2, <1>4, <1>6 DEF FolderTyped, Course!Running, Course!Idle, Course!Touched
<1>8. LegacyIsKnown'
  <2>1. \A j \in DOMAIN draft : draft'[j].path = draft[j].path
    BY <1>4
  <2> QED
    BY <1>1, <1>2, <1>3, <1>4, <1>7, <2>1 DEF FilesInv, LegacyIsKnown
<1>9. \A j \in DOMAIN draft : IsLast(draft', j) <=> IsLast(draft, j)
  <2>1. \A j \in DOMAIN draft : draft'[j].item = draft[j].item
    BY <1>4
  <2> QED
    BY <1>4, <2>1 DEF IsLast, Course!Latest, Course!Of
<1>10. \A j \in DOMAIN draft : IsLast(draft, j) /\ j # k => draft[j].item # draft[k].item
  BY <1>2, <1>3, LastIsOne
<1>11. AuditFits'
  <2>1. ASSUME NEW j \in DOMAIN draft
        PROVE  /\ draft'[j].item = files[j].item /\ draft'[j].content = files[j].content
               /\ j >= k + 1 => draft'[j] = files[j]
               /\ j >= k + 1 \/ ~IsLast(draft', j) =>
                     draft'[j].export = files[j].export /\ draft'[j].current = files[j].current
               /\ j < k + 1 => ValidIsKept(draft', j)
               /\ j < k + 1 /\ IsLast(draft', j) => Shows(draft', folder', j)
    <3>1. CASE j = k
      <4>1. ValidIsKept(draft', j)
        BY <1>3, <1>4, <3>1 DEF ValidIsKept
      <4>2. ~(j >= k + 1) /\ IsLast(draft', j)
        BY <1>3, <1>5, <1>9, <3>1
      <4> QED
        BY <1>3, <1>4, <3>1, <4>1, <4>2
    <3>2. CASE j # k
      <4>1. draft'[j] = draft[j]
        BY <1>4, <3>2
      <4>2. (j < k + 1 => j < k) /\ (j >= k + 1 => j > k /\ j >= k)
        BY <1>5, <3>2
      <4>3. j < k => ValidIsKept(draft', j)
        BY <1>3, <4>1 DEF ValidIsKept
      <4>4. j < k /\ IsLast(draft, j) => Shows(draft', folder', j)
        BY <1>3, <1>4, <1>10, <3>2
      <4> QED
        BY <1>3, <1>9, <4>1, <4>2, <4>3, <4>4
    <3> QED  BY <3>1, <3>2
  <2>2. \A j \in DOMAIN draft : (j > k + 1 \/ j = k + 1) => j >= k + 1
    BY <1>5
  <2> QED
    BY <1>1, <1>3, <1>4, <1>5, <1>6, <2>1, <2>2 DEF AuditFits
<1>12. ASSUME NEW j \in DOMAIN files, Shows(files, folder, j), IsLast(files, j)
       PROVE  Shows(files, folder', j)
  <2>1. Course!Managed(draft[k].item, Course!Title) =>
            \E l \in DOMAIN files : files[l].item = draft[k].item /\ files[l].export = Course!Title
    <3> SUFFICES ASSUME Course!Managed(draft[k].item, Course!Title)
                 PROVE  \E l \in DOMAIN files : files[l].item = draft[k].item /\ files[l].export = Course!Title
      OBVIOUS
    <3>1. PICK l \in DOMAIN draft : draft[l].item = draft[k].item /\ draft[l].export = Course!Title
      BY DEF Course!Managed, Course!Of
    <3>2. l >= k \/ ~IsLast(draft, l)
      <4>1. l = k => l >= k
        BY <1>5
      <4> QED  BY <1>10, <3>1, <4>1
    <3> QED
      BY <1>3, <3>1, <3>2
  <2>2. files[j].item # draft[k].item \/ files[j].content = draft[k].content
    <3>1. j \in DOMAIN draft /\ IsLast(draft, j)
      BY <1>2, <1>3, <1>12
    <3> QED
      BY <1>3, <1>10, <3>1
  <2> QED
    BY <1>4, <1>12, <2>1, <2>2
<1> QED
  BY <1>1, <1>2, <1>4, <1>6, <1>7, <1>8, <1>11, <1>12 DEF FilesInv

LEMMA AuditEndsKeeps ==
    ASSUME FilesInv, Course!AuditEnds
    PROVE  FilesInv'
<1>0. PICK k \in Nat \ {0} : k = step.next
  BY AuditFacts DEF Course!AuditEnds
<1>1. /\ step.kind = "audit" /\ k \notin DOMAIN draft
      /\ files' = draft /\ draft' = None /\ step' = Course!Idle /\ folder' = folder
      /\ interrupted' = interrupted
  BY <1>0 DEF Course!AuditEnds
<1>2. /\ ~Course!Running /\ AuditFits /\ draft \in Seq(Course!Record)
      /\ folder \in [Course!Paths -> Documents \union {Mine, None}]
      /\ RowsFit(draft, folder, interrupted) /\ DigestsFit(folder)
      /\ KnownGone(draft, folder, interrupted)
  BY <1>1, AuditFacts
<1>3. /\ k = Len(draft) + 1
      /\ \A j \in DOMAIN draft : /\ j < k => ValidIsKept(draft, j)
                                 /\ j < k /\ IsLast(draft, j) => Shows(draft, folder, j)
  BY <1>0, <1>1, <1>2, AuditRows
<1>4. \A j \in DOMAIN draft : j < k
  <2>1. Len(draft) \in Nat /\ \A j \in DOMAIN draft : j \in Nat /\ j <= Len(draft)
    BY <1>2, RowNumbers
  <2> QED
    BY <1>3, <2>1
<1>5. FolderTyped' /\ Course!Running' /\ step'.kind = "idle" /\ Course!Touched' = {}
  BY <1>1, <1>2 DEF FolderTyped, Course!Running, Course!Idle, Course!Touched
<1>6. LegacyIsKnown'
  BY <1>1, <1>2 DEF LegacyIsKnown, KnownGone
<1> QED
  BY <1>1, <1>2, <1>3, <1>4, <1>5, <1>6 DEF FilesInv

LEMMA RestartKeeps ==
    ASSUME FilesInv, Course!Restart
    PROVE  FilesInv'
<1>1. /\ draft' = files /\ step' = [kind |-> "audit", next |-> 1] /\ files' = files
      /\ folder' = folder
      /\ torn' = torn \union Course!Touched
      /\ interrupted' = interrupted \union
             (IF Course!Running THEN {} ELSE {k \in DOMAIN files : files[k].path # draft[k].path})
  BY DEF Course!Restart
<1>2. /\ files \in Seq(Course!Record) /\ folder \in [Course!Paths -> Documents \union {Mine, None}]
      /\ RowsFit(files, folder, interrupted) /\ DigestsFit(folder) /\ LegacyIsKnown
      /\ \A k \in DOMAIN files :
            IsLast(files, k) /\ files[k].item \notin torn \union Course!Touched => Shows(files, folder, k)
  BY DEF FilesInv, FolderTyped
<1>3. RowsFit(files, folder, interrupted')
  BY <1>1, <1>2, RowsOffExports
<1>4. KnownGone(files, folder, interrupted')
  <2> SUFFICES ASSUME NEW k \in DOMAIN files, files[k].path = Course!Legacy, folder[Course!Legacy] = None
               PROVE  k \in interrupted'
    BY DEF KnownGone
  <2> QED
    BY <1>1, <1>2 DEF LegacyIsKnown
<1>5. /\ FolderTyped' /\ ~Course!Running' /\ Course!Touched' = {} /\ step'.kind = "audit"
      /\ step'.next = 1
  BY <1>1, <1>2 DEF FolderTyped, Course!Running, Course!Idle, Course!Touched
<1>6. LegacyIsKnown'
  BY <1>1, <1>4 DEF LegacyIsKnown, KnownGone
<1>7. AuditFits'
  <2>1. 1 \in DOMAIN files \/ 1 = Len(files) + 1
    BY <1>2
  <2>2. \A k \in DOMAIN files : ~(k < 1)
    BY <1>2
  <2> QED
    BY <1>1, <1>5, <2>1, <2>2 DEF AuditFits
<1> QED
  BY <1>1, <1>2, <1>3, <1>4, <1>5, <1>6, <1>7 DEF FilesInv

LEMMA UserWritesKeeps ==
    ASSUME FilesInv, NEW p \in Course!Exports, Course!UserWrites(p)
    PROVE  FilesInv'
<1>1. /\ folder' = [folder EXCEPT ![p] = Mine] /\ files' = files /\ draft' = draft /\ step' = step
      /\ torn' = torn /\ interrupted' = interrupted
  BY DEF Course!UserWrites
<1>2. FolderTyped
  BY DEF FilesInv
<1>3. /\ folder' \in [Course!Paths -> Documents \union {Mine, None}] /\ folder'[p] = Mine
      /\ \A q \in Course!Paths : q # p => folder'[q] = folder[q]
  BY <1>1, <1>2, PathFacts DEF FolderTyped
<1>4. \A q \in Course!Paths \ Course!Exports : folder'[q] = folder[q]
  BY <1>3
<1>5. /\ folder'[Course!Legacy] = folder[Course!Legacy]
      /\ \A d \in Documents : folder'[Course!WithDigest(d)] = folder[Course!WithDigest(d)]
  BY <1>4, PathFacts
<1>6. ASSUME NEW rows \in Seq(Course!Record), RowsFit(rows, folder, interrupted)
      PROVE  \A k \in DOMAIN rows : Shows(rows, folder, k) => Shows(rows, folder', k)
  <2> SUFFICES ASSUME NEW k \in DOMAIN rows, rows[k].current
               PROVE  Shows(rows, folder, k) => Shows(rows, folder', k)
    BY DEF Shows
  <2>1. rows[k].export \in Course!Paths
    BY <1>6, ExportsOfRows, PathFacts
  <2> QED
    BY <1>3, <2>1 DEF Shows
<1>7. FolderTyped' /\ (Course!Running <=> Course!Running') /\ Course!Touched' = Course!Touched
  BY <1>1, <1>2, <1>3 DEF FolderTyped, Course!Running, Course!Touched
<1>8. files \in Seq(Course!Record) /\ (~Course!Running => draft \in Seq(Course!Record))
  BY <1>2, StepFacts
<1>9. RowsFit(files, folder', interrupted) /\ DigestsFit(folder') /\ LegacyIsKnown'
  <2>1. RowsFit(files, folder', interrupted)
    BY <1>4, <1>8, RowsOffExports DEF FilesInv
  <2>2. DigestsFit(folder')
    BY <1>5 DEF FilesInv, DigestsFit
  <2>3. LegacyIsKnown'
    BY <1>1, <1>5, <1>7 DEF FilesInv, LegacyIsKnown
  <2> QED  BY <2>1, <2>2, <2>3
<1>10. ~Course!Running => RowsFit(draft, folder', interrupted) /\ KnownGone(draft, folder', interrupted)
  BY <1>4, <1>8, RowsOffExports DEF FilesInv
<1>11. step.kind \in {"audit", "audit export"} => AuditFits'
  <2> SUFFICES ASSUME step.kind \in {"audit", "audit export"} PROVE AuditFits'
    OBVIOUS
  <2>1. AuditFits /\ \A k \in DOMAIN draft : Shows(draft, folder, k) => Shows(draft, folder', k)
    BY <1>6, AuditFacts
  <2> QED
    BY <1>1, <2>1 DEF AuditFits
<1>12. step.kind \in {"export", "commit"} => SaveFits'
  <2> SUFFICES ASSUME step.kind \in {"export", "commit"} PROVE SaveFits'
    OBVIOUS
  <2>1. /\ SaveFits /\ ~Course!Running /\ draft \in Seq(Course!Record)
        /\ RowsFit(draft, folder, interrupted)
    BY <1>2, StepFacts DEF FilesInv
  <2>2. \A k \in DOMAIN draft : Shows(draft, folder, k) => Shows(draft, folder', k)
    BY <1>6, <2>1
  <2>3. /\ step.next \in DOMAIN draft
        /\ step.kind = "commit" => Shows(draft, folder', step.next)
    BY <2>1, <2>2 DEF SaveFits
  <2> QED
    BY <1>1, <2>1, <2>3 DEF SaveFits
<1>13. \A k \in DOMAIN files :
          IsLast(files, k) /\ files[k].item \notin torn \union Course!Touched => Shows(files, folder', k)
  BY <1>6, <1>8 DEF FilesInv
<1>14. step.kind \notin {"audit", "audit export"} => \A k \in DOMAIN files : ValidIsKept(files, k)
  BY DEF FilesInv
<1> QED
  BY <1>1, <1>7, <1>9, <1>10, <1>11, <1>12, <1>13, <1>14 DEF FilesInv

LEMMA FilesInvHolds == Course!Spec => []FilesInv
<1>1. ASSUME FilesInv, [Course!Next]_Course!vars PROVE FilesInv'
  <2>1. ASSUME NEW i \in Items, Course!SaveAgain(i) \/ \E d \in Documents \union {Invalid} : Course!Save(i, d)
        PROVE  FilesInv'
    BY <1>1, <2>1, SaveAgainKeeps, SaveKeeps
  <2>2. CASE Course!Export \/ Course!Commit \/ Course!SaveFails
    BY <1>1, <2>2, ExportStepKeeps, CommitKeeps, SaveFailsKeeps
  <2>3. CASE Course!AuditMissing \/ Course!AuditPresent \/ Course!AuditExport \/ Course!AuditEnds
    BY <1>1, <2>3, AuditMissingKeeps, AuditPresentKeeps, AuditExportKeeps, AuditEndsKeeps
  <2>4. CASE Course!Restart
    BY <1>1, <2>4, RestartKeeps
  <2>5. ASSUME NEW p \in Course!Exports, Course!UserWrites(p) PROVE FilesInv'
    BY <1>1, <2>5, UserWritesKeeps
  <2>6. CASE UNCHANGED Course!vars
    <3>1. /\ files' = files /\ draft' = draft /\ step' = step /\ folder' = folder
          /\ torn' = torn /\ interrupted' = interrupted
      BY <2>6 DEF Course!vars
    <3>2. /\ (FolderTyped' <=> FolderTyped) /\ (Course!Running' <=> Course!Running)
          /\ Course!Touched' = Course!Touched
      BY <3>1 DEF FolderTyped, Course!Running, Course!Touched
    <3>3. (AuditFits' <=> AuditFits) /\ (SaveFits' <=> SaveFits)
      BY <3>1 DEF AuditFits, SaveFits
    <3>4. LegacyIsKnown' <=> LegacyIsKnown
      BY <3>1, <3>2 DEF LegacyIsKnown
    <3> QED
      BY <1>1, <3>1, <3>2, <3>3, <3>4 DEF FilesInv
  <2> QED
    BY <1>1, <2>1, <2>2, <2>3, <2>4, <2>5, <2>6 DEF Course!Next
<1> QED
  BY <1>1, FilesStart, PTL DEF Course!Spec

(* FilesAreKept: whatever fails, whenever the backend stops and whatever the  *)
(* user does to the export folder, a file that is served is the version that *)
(* was recorded; one is missing only if an audit that renamed it was          *)
(* interrupted; and what is shown as current is the item's latest version or  *)
(* the user's, unless it is shared or its last renewal failed                 *)
(* (downloader.py:301-544, sync.py:699-708): for any number of items,         *)
(* versions, failures and restarts.                                           *)
THEOREM FilesStayKept == Course!Spec => []FilesAreKept
<1>1. FilesInv => FilesAreKept
  <2> SUFFICES ASSUME FilesInv, Course!Running PROVE FilesAreKept
    BY DEF FilesAreKept, Course!FilesAreKept
  <2>1. /\ step.kind = "idle" /\ Course!Touched = {} /\ RowsFit(files, folder, interrupted)
        /\ \A k \in DOMAIN files : ValidIsKept(files, k)
        /\ \A k \in DOMAIN files : IsLast(files, k) /\ files[k].item \notin torn => Shows(files, folder, k)
    <3>1. step.kind = "idle"
      BY StepFacts DEF FilesInv
    <3>2. Course!Touched = {}
      BY <3>1 DEF Course!Touched
    <3> QED
      BY <3>1, <3>2 DEF FilesInv
  <2>2. ASSUME NEW k \in DOMAIN files
        PROVE  /\ files[k].status = "VALID" => Course!Served(k) = files[k].content
               /\ files[k].status = "MISSING" => k \in interrupted
    BY <2>1 DEF RowsFit, RowFits, ValidIsKept, Course!Served
  <2>3. ASSUME NEW i \in Items \ torn PROVE Course!LatestExported(files, i)
    <3>1. \A k \in Course!Latest(files, i) : k \in DOMAIN files /\ IsLast(files, k) /\ files[k].item = i
      BY DEF IsLast, Course!Latest, Course!Of
    <3> QED
      BY <2>1, <3>1 DEF Course!LatestExported, Shows
  <2> QED
    BY <2>2, <2>3 DEF FilesAreKept, Course!FilesAreKept
<1> QED
  BY <1>1, FilesInvHolds, PTL
=============================================================================
