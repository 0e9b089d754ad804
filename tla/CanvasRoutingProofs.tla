------------------------ MODULE CanvasRoutingProofs ------------------------
(***************************************************************************)
(* Theorems about CanvasRouting, for any methods, secrets and readers, and *)
(* about the components that are checked beside it: which tasks are linked *)
(* (ProviderTasks), and the study calendar's free time and imports.        *)
(***************************************************************************)
EXTENDS MCCanvasRouting, FiniteSetTheorems, WellFoundedInduction, TLAPS

Captured == {"sent", "rejected", "checking", "probing", "trusting", "probing_backup"}
Reading == {"reading", "numbering", "reading_backup", "numbering_backup"}

(* What is known of one reader between any two steps: what it captured is  *)
(* still installed while the generation is, and a refusal of the profile   *)
(* endpoint that it believes is Canvas's verdict on the captured secret.   *)
ReaderOK(r) ==
    /\ pc[r] \in Captured \union Reading => mode[r] \in Modes
    /\ pc[r] \in Captured \union {"numbering", "numbering_backup"} => secret[r] \in Secrets
    /\ pc[r] \in Reading \union {"trusting"} => Preemptive
    /\ pc[r] \in Captured /\ ~Preemptive =>
          /\ fence[r] <= generation[mode[r]]
          /\ generation[mode[r]] = fence[r] => slot[mode[r]] = secret[r]
    /\ pc[r] \in {"rejected", "checking"} /\ profile[r] /\ ~Preemptive =>
          (generation[mode[r]] = fence[r] => quality[secret[r]] # "good")

RouteIsPresent == effective # None => slot[effective] # None

IInv ==
    /\ TypeOK
    /\ RouteIsPresent
    /\ LockIsHeldBySwitcher
    /\ \A r \in Readers : ReaderOK(r)

-----------------------------------------------------------------------------
LEMMA BestIsPresent ==
    ASSUME NEW s \in [Modes -> Secrets \union {None}], NEW p \in Modes, Present(s) # {}
    PROVE  Best(s, p) \in Present(s)
<1>1. /\ Rank["oauth"] = 1 /\ Rank["pat"] = 2 /\ Rank["browser_session"] = 3
      /\ DOMAIN Rank = {"oauth", "pat", "browser_session"}
  BY DEF Rank
<1>2. Present(s) \subseteq {"oauth", "pat", "browser_session"}
  BY <1>1, RoutingAssumption DEF Present
<1>3. \E m \in Present(s) : \A o \in Present(s) : Rank[m] <= Rank[o]
  <2>1. CASE "oauth" \in Present(s)
    BY <2>1, <1>1, <1>2
  <2>2. CASE "oauth" \notin Present(s) /\ "pat" \in Present(s)
    BY <2>2, <1>1, <1>2
  <2>3. CASE "oauth" \notin Present(s) /\ "pat" \notin Present(s)
    BY <2>3, <1>1, <1>2
  <2> QED
    BY <2>1, <2>2, <2>3
<1>4. (CHOOSE m \in Present(s) : \A o \in Present(s) : Rank[m] <= Rank[o]) \in Present(s)
  BY <1>3
<1> QED
  BY <1>4 DEF Best

LEMMA RouteType ==
    ASSUME NEW s \in [Modes -> Secrets \union {None}], preferred \in Modes
    PROVE  Route(s) \in Modes \union {None} /\ (Route(s) # None => s[Route(s)] # None)
  BY BestIsPresent DEF Route, Present

(* How the store and Canvas may move under a reader that does not step.    *)
Moves ==
    /\ \A m \in Modes : \/ generation'[m] = generation[m] /\ slot'[m] = slot[m]
                        \/ generation'[m] = generation[m] + 1
    /\ \A s \in Secrets : quality'[s] = quality[s] \/ quality'[s] = "bad"

LEMMA ReaderStays ==
    ASSUME TypeOK, NEW r \in Readers, ReaderOK(r), Moves, UNCHANGED profile,
           pc'[r] = pc[r], mode'[r] = mode[r], secret'[r] = secret[r], fence'[r] = fence[r]
    PROVE  ReaderOK(r)'
<1>1. CASE pc[r] \in Captured
  <2>1. /\ mode[r] \in Modes /\ secret[r] \in Secrets
        /\ generation[mode[r]] \in Nat /\ fence[r] \in Nat
    BY <1>1 DEF ReaderOK, TypeOK
  <2>2. \/ generation'[mode[r]] = generation[mode[r]] /\ slot'[mode[r]] = slot[mode[r]]
        \/ generation'[mode[r]] = generation[mode[r]] + 1
    BY <2>1 DEF Moves
  <2>3. quality'[secret[r]] = quality[secret[r]] \/ quality'[secret[r]] = "bad"
    BY <2>1 DEF Moves
  <2> QED
    BY <1>1, <2>1, <2>2, <2>3 DEF ReaderOK, Captured, Reading
<1>2. CASE pc[r] \notin Captured
  BY <1>2 DEF ReaderOK, Captured, Reading
<1> QED
  BY <1>1, <1>2

(* What a reader's step may do to the store. *)
StoreStep ==
    /\ slot' \in [Modes -> Secrets \union {None}]
    /\ generation' \in [Modes -> Nat]
    /\ effective' \in Modes \union {None}
    /\ preferred' = preferred
    /\ status' \in [Modes -> {"VALID", "STALE", "INVALID", "DISABLED"}]
    /\ RouteIsPresent'
    /\ \A o \in Modes : \/ generation'[o] = generation[o] /\ slot'[o] = slot[o]
                        \/ generation'[o] = generation[o] + 1

LEMMA StoreStays == ASSUME IInv, UNCHANGED store PROVE StoreStep
  BY DEF IInv, TypeOK, store, RouteIsPresent, StoreStep

LEMMA MarkKeeps == ASSUME IInv, NEW m \in Modes, MarkVerified(m) PROVE StoreStep
  BY DEF IInv, TypeOK, MarkVerified, RouteIsPresent, StoreStep

LEMMA InvalidateKeeps ==
    ASSUME IInv, NEW m \in Modes, NEW g \in Nat, Invalidate(m, g)
    PROVE  StoreStep
<1> USE DEF IInv
<1>1. CASE MayRemove(m, g)
  <2>1. /\ slot' = [slot EXCEPT ![m] = None]
        /\ generation' = [generation EXCEPT ![m] = @ + 1]
        /\ effective' = IF slot[m] = None THEN effective ELSE Route(slot')
        /\ status' = [status EXCEPT ![m] = "INVALID"]
        /\ UNCHANGED preferred
    BY <1>1 DEF Invalidate
  <2>2. slot' \in [Modes -> Secrets \union {None}] /\ generation' \in [Modes -> Nat]
        /\ status' \in [Modes -> {"VALID", "STALE", "INVALID", "DISABLED"}]
    BY <2>1 DEF TypeOK
  <2>3. effective' \in Modes \union {None} /\ RouteIsPresent'
    <3>1. CASE slot[m] = None
      BY <3>1, <2>1 DEF TypeOK, RouteIsPresent
    <3>2. CASE slot[m] # None
      BY <3>2, <2>1, <2>2, RouteType DEF TypeOK, RouteIsPresent
    <3> QED
      BY <3>1, <3>2
  <2> QED
    BY <1>1, <2>1, <2>2, <2>3 DEF TypeOK, StoreStep
<1>2. CASE ~MayRemove(m, g)
  BY <1>2, StoreStays DEF Invalidate
<1> QED
  BY <1>1, <1>2

LEMMA InitIInv == Init => IInv
<1> SUFFICES ASSUME Init PROVE IInv
  OBVIOUS
<1>1. effective \in Modes \union {None} /\ RouteIsPresent
  BY RouteType DEF Init, RouteIsPresent
<1>2. TypeOK
  BY <1>1 DEF Init, TypeOK
<1> QED
  BY <1>1, <1>2, RoutingAssumption DEF Init, IInv, LockIsHeldBySwitcher, ReaderOK, Captured, Reading, Locked

(* A step of the user or of Canvas. *)
LEMMA WorldKeeps ==
    ASSUME IInv, UNCHANGED <<readers, routing, profile>>, TypeOK', RouteIsPresent', Moves
    PROVE  IInv'
<1>1. \A r \in Readers : ReaderOK(r)'
  BY ReaderStays DEF IInv, readers
<1> QED
  BY <1>1 DEF IInv, LockIsHeldBySwitcher, readers

LEMMA ChangesKeep ==
    ASSUME IInv,
           \/ \E m \in Modes, s \in Secrets : Install(m, s)
           \/ \E m \in Modes : Disconnect(m) \/ Select(m) \/ Forget(m)
           \/ \E s \in Secrets : Revoke(s)
    PROVE  IInv'
<1> USE DEF IInv
<1>1. ASSUME NEW m \in Modes, NEW s \in Secrets, Install(m, s) PROVE IInv'
  <2>1. slot' \in [Modes -> Secrets \union {None}]
    BY <1>1 DEF Install, TypeOK
  <2>2. effective' \in Modes \union {None} /\ RouteIsPresent'
    BY <1>1, <2>1, RouteType DEF Install, TypeOK, RouteIsPresent
  <2>3. TypeOK'
    BY <1>1, <2>1, <2>2 DEF Install, TypeOK, Disturb, readers
  <2>4. Moves
    <3>1. ASSUME NEW o \in Modes
          PROVE  \/ generation'[o] = generation[o] /\ slot'[o] = slot[o]
                 \/ generation'[o] = generation[o] + 1
      BY <1>1 DEF Install, TypeOK
    <3> QED
      BY <1>1, <3>1 DEF Install, Moves
  <2> QED
    BY <1>1, <2>2, <2>3, <2>4, WorldKeeps DEF Install
<1>2. ASSUME NEW m \in Modes, Disconnect(m) PROVE IInv'
  <2>1. slot' \in [Modes -> Secrets \union {None}]
    BY <1>2 DEF Disconnect, TypeOK
  <2>2. effective' \in Modes \union {None} /\ RouteIsPresent'
    <3>1. CASE slot[m] = None
      BY <3>1, <1>2 DEF Disconnect, TypeOK, RouteIsPresent
    <3>2. CASE slot[m] # None
      BY <3>2, <1>2, <2>1, RouteType DEF Disconnect, TypeOK, RouteIsPresent
    <3> QED
      BY <3>1, <3>2
  <2>3. TypeOK' /\ Moves
    BY <1>2, <2>1, <2>2 DEF Disconnect, TypeOK, Moves, Disturb, readers
  <2> QED
    BY <1>2, <2>2, <2>3, WorldKeeps DEF Disconnect
<1>3. ASSUME NEW m \in Modes, Select(m) \/ Forget(m) PROVE IInv'
  <2>1. Moves /\ RouteIsPresent'
    BY <1>3 DEF Select, Forget, TypeOK, Moves, RouteIsPresent
  <2>2. CASE Select(m)
    <3>1. TypeOK'
      BY <2>2 DEF Select, TypeOK, Disturb, readers
    <3> QED
      BY <2>1, <2>2, <3>1, WorldKeeps DEF Select
  <2>3. CASE Forget(m)
    <3>1. TypeOK'
      BY <2>3 DEF Forget, TypeOK, readers
    <3> QED
      BY <2>1, <2>3, <3>1, WorldKeeps DEF Forget
  <2> QED
    BY <1>3, <2>2, <2>3
<1>4. ASSUME NEW s \in Secrets, Revoke(s) PROVE IInv'
  <2>1. TypeOK' /\ Moves /\ RouteIsPresent'
    BY <1>4 DEF Revoke, TypeOK, Moves, readers, store, RouteIsPresent
  <2> QED
    BY <1>4, <2>1, WorldKeeps DEF Revoke
<1> QED
  BY <1>1, <1>2, <1>3, <1>4

(* A step of one reader, once its own part is settled. *)
LEMMA ReaderKeeps ==
    ASSUME IInv, NEW r \in Readers, UNCHANGED <<quality, profile>>, TypeOK', RouteIsPresent',
           \A m \in Modes : \/ generation'[m] = generation[m] /\ slot'[m] = slot[m]
                            \/ generation'[m] = generation[m] + 1,
           \A q \in Readers \ {r} : /\ pc'[q] = pc[q] /\ mode'[q] = mode[q]
                                    /\ secret'[q] = secret[q] /\ fence'[q] = fence[q],
           \/ routing' = routing /\ (pc[r] \in Locked <=> pc'[r] \in Locked)
           \/ routing = None /\ routing' = r /\ pc'[r] \in Locked
           \/ routing' = (IF routing = r THEN None ELSE routing) /\ pc'[r] \notin Locked,
           ReaderOK(r)'
    PROVE  IInv'
<1>1. \A q \in Readers : ReaderOK(q)'
  BY ReaderStays DEF IInv, Moves
<1>2. LockIsHeldBySwitcher'
  BY RoutingAssumption DEF IInv, LockIsHeldBySwitcher
<1> QED
  BY <1>1, <1>2 DEF IInv

(* What a step of reader r does to the locals of all. *)
LocalStep(r) ==
    /\ attempted' \in [Readers -> SUBSET Modes]
    /\ mode' \in [Readers -> Modes \union {None}]
    /\ secret' \in [Readers -> Secrets \union {None}]
    /\ fence' \in [Readers -> Nat]
    /\ \A q \in Readers \ {r} :
          mode'[q] = mode[q] /\ secret'[q] = secret[q] /\ fence'[q] = fence[q]

LEMMA LocalsStay ==
    ASSUME IInv, NEW r \in Readers, UNCHANGED <<attempted, mode, secret, fence>>
    PROVE  LocalStep(r)
  BY DEF LocalStep, IInv, TypeOK

(* A step after which reader r stands at another place. *)
LEMMA AdvanceKeeps ==
    ASSUME IInv, NEW r \in Readers, NEW to \in Waiting \union {"done"}, Go(r, to),
           StoreStep, LocalStep(r), UNCHANGED <<quality, profile, disturbed>>,
           outcome' \in [Readers -> {"none", "answered", "auth_required", "denied", "other"}],
           \/ routing' = routing /\ (pc[r] \in Locked <=> to \in Locked)
           \/ routing = None /\ routing' = r /\ to \in Locked
           \/ routing' = (IF routing = r THEN None ELSE routing) /\ to \notin Locked,
           ReaderOK(r)'
    PROVE  IInv'
<1>1. TypeOK'
  BY DEF IInv, TypeOK, Go, StoreStep, LocalStep
<1>2. /\ pc'[r] = to
      /\ \A q \in Readers \ {r} : pc'[q] = pc[q]
  BY DEF IInv, TypeOK, Go
<1> QED
  BY <1>1, <1>2, ReaderKeeps DEF StoreStep, LocalStep

LEMMA EndKeeps ==
    ASSUME IInv, NEW r \in Readers,
           NEW o \in {"answered", "auth_required", "denied", "other"}, End(r, o),
           StoreStep, UNCHANGED <<quality, profile, disturbed>>
    PROVE  IInv'
<1>1. Go(r, "done") /\ pc'[r] = "done" /\ routing' = IF routing = r THEN None ELSE routing
  BY DEF End, Go, Release, IInv, TypeOK
<1>2. LocalStep(r)
  BY DEF End, Drop, LocalStep, IInv, TypeOK
<1>3. outcome' \in [Readers -> {"none", "answered", "auth_required", "denied", "other"}]
  BY DEF End, IInv, TypeOK
<1>4. ReaderOK(r)'
  BY <1>1 DEF ReaderOK, Captured, Reading
<1> QED
  BY <1>1, <1>2, <1>3, <1>4, AdvanceKeeps DEF Locked

LEMMA AgainKeeps ==
    ASSUME IInv, NEW r \in Readers, Again(r), routing = r,
           attempted' \in [Readers -> SUBSET Modes],
           StoreStep, UNCHANGED <<quality, profile, disturbed>>
    PROVE  IInv'
<1>1. Go(r, "choosing") /\ pc'[r] = "choosing" /\ routing' = None /\ outcome' = outcome
  BY DEF Again, Go, IInv, TypeOK
<1>2. LocalStep(r)
  BY DEF Again, Drop, LocalStep, IInv, TypeOK
<1>3. ReaderOK(r)'
  BY <1>1 DEF ReaderOK, Captured, Reading
<1>4. outcome' \in [Readers -> {"none", "answered", "auth_required", "denied", "other"}]
  BY <1>1 DEF IInv, TypeOK
<1> QED
  BY <1>1, <1>2, <1>3, <1>4, AdvanceKeeps DEF Locked, Waiting

LEMMA OutcomeStays ==
    ASSUME IInv, UNCHANGED outcome
    PROVE  outcome' \in [Readers -> {"none", "answered", "auth_required", "denied", "other"}]
  BY DEF IInv, TypeOK

LEMMA StartKeeps == ASSUME IInv, NEW r \in Readers, Start(r) PROVE IInv'
<1>1. pc[r] = "ready" /\ Go(r, "choosing") /\ pc'[r] = "choosing" /\ StoreStep /\ LocalStep(r)
      /\ UNCHANGED <<outcome, routing, quality, profile, disturbed>>
  BY StoreStays, LocalsStay DEF IInv, TypeOK, Start, Go
<1>2. ReaderOK(r)'
  BY <1>1 DEF ReaderOK, Captured, Reading
<1> QED
  BY <1>1, <1>2, OutcomeStays, AdvanceKeeps DEF Locked, Waiting

LEMMA ChooseKeeps == ASSUME IInv, NEW r \in Readers, Choose(r) PROVE IInv'
<1>0. StoreStep /\ UNCHANGED <<quality, profile, disturbed>>
  BY StoreStays DEF Choose
<1>1. CASE End(r, "auth_required")
  BY <1>0, <1>1, EndKeeps
<1>2. CASE ~(effective \in attempted[r] \union {None} \/ attempted[r] = Modes)
  <2>1. /\ effective \in Modes /\ slot[effective] \in Secrets /\ generation[effective] \in Nat
        /\ pc[r] = "choosing"
    BY <1>2 DEF IInv, TypeOK, RouteIsPresent, Choose
  <2>2. /\ UNCHANGED <<store, routing, outcome>>
        /\ mode' = [mode EXCEPT ![r] = effective]
        /\ attempted' = [attempted EXCEPT ![r] = @ \union {effective}]
    BY <1>2 DEF Choose
  <2>3. CASE Preemptive
    <3>1. Go(r, "reading") /\ UNCHANGED <<secret, fence>>
      BY <1>2, <2>3 DEF Choose
    <3>2. LocalStep(r) /\ pc'[r] = "reading" /\ mode'[r] = effective
      BY <2>1, <2>2, <3>1 DEF LocalStep, Go, IInv, TypeOK
    <3>3. ReaderOK(r)'
      BY <2>1, <2>3, <3>2 DEF ReaderOK, Captured, Reading
    <3> QED
      BY <1>0, <2>1, <2>2, <3>1, <3>2, <3>3, OutcomeStays, AdvanceKeeps DEF Locked, Waiting
  <2>4. CASE ~Preemptive
    <3>1. /\ Go(r, "sent")
          /\ secret' = [secret EXCEPT ![r] = slot[effective]]
          /\ fence' = [fence EXCEPT ![r] = generation[effective]]
      BY <1>2, <2>4 DEF Choose
    <3>2. LocalStep(r) /\ pc'[r] = "sent" /\ mode'[r] = effective
          /\ secret'[r] = slot[effective] /\ fence'[r] = generation[effective]
      BY <2>1, <2>2, <3>1 DEF LocalStep, Go, IInv, TypeOK
    <3>3. ReaderOK(r)'
      BY <2>1, <2>2, <2>4, <3>2 DEF ReaderOK, Captured, Reading, store
    <3> QED
      BY <1>0, <2>1, <2>2, <3>1, <3>2, <3>3, OutcomeStays, AdvanceKeeps DEF Locked, Waiting
  <2> QED
    BY <2>3, <2>4
<1> QED
  BY <1>1, <1>2 DEF Choose

LEMMA ReadKeeps ==
    ASSUME IInv, NEW r \in Readers, ReadSlot(r) \/ ReadGeneration(r) PROVE IInv'
<1>0. /\ ReaderOK(r) /\ mode[r] \in Modes /\ Preemptive /\ pc[r] \in Reading
      /\ StoreStep /\ UNCHANGED <<quality, profile, disturbed>>
  BY StoreStays DEF IInv, ReadSlot, ReadGeneration, ReaderOK, Reading
<1>1. CASE End(r, "auth_required")
  BY <1>0, <1>1, EndKeeps
<1>2. CASE ReadSlot(r) /\ slot[mode[r]] # None
  <2>1. slot[mode[r]] \in Secrets
    BY <1>0, <1>2 DEF IInv, TypeOK
  <2>2. PICK to \in {"numbering", "numbering_backup"} :
           /\ Go(r, to) /\ UNCHANGED <<attempted, mode, fence, outcome, routing>>
           /\ secret' = [secret EXCEPT ![r] = slot[mode[r]]]
           /\ pc[r] \in Locked <=> to \in Locked
    BY <1>2 DEF ReadSlot, Locked
  <2>3. /\ LocalStep(r) /\ pc'[r] = to /\ mode'[r] = mode[r]
        /\ secret'[r] = slot[mode[r]]
    BY <2>1, <2>2 DEF LocalStep, Go, IInv, TypeOK
  <2>4. ReaderOK(r)'
    BY <1>0, <2>1, <2>3 DEF ReaderOK, Captured, Reading
  <2> QED
    BY <1>0, <2>2, <2>3, <2>4, OutcomeStays, AdvanceKeeps DEF Waiting
<1>3. CASE ReadGeneration(r)
  <2>1. PICK to \in {"sent", "trusting"} :
           /\ Go(r, to) /\ UNCHANGED <<attempted, mode, secret, outcome, routing>>
           /\ fence' = [fence EXCEPT ![r] = generation[mode[r]]]
           /\ pc[r] \in Locked <=> to \in Locked
    BY <1>3 DEF ReadGeneration, Locked
  <2>2. LocalStep(r) /\ pc'[r] = to /\ mode'[r] = mode[r] /\ secret'[r] = secret[r]
    BY <1>0, <2>1 DEF LocalStep, Go, IInv, TypeOK
  <2>3. ReaderOK(r)'
    BY <1>0, <1>3, <2>2 DEF ReaderOK, Captured, Reading, ReadGeneration
  <2> QED
    BY <1>0, <2>1, <2>2, <2>3, OutcomeStays, AdvanceKeeps DEF Waiting
<1> QED
  BY <1>1, <1>2, <1>3 DEF ReadSlot

(* A refusal by the profile endpoint is Canvas's verdict, or the secret is *)
(* not installed any more.                                                 *)
LEMMA RefusalIsVerdict ==
    ASSUME NEW m \in Modes, NEW s \in Secrets,
           "rejected" \in ProbeAnswers(m, s) \/ "foreign" \in ProbeAnswers(m, s)
    PROVE  quality[s] # "good" \/ slot[m] # s
  BY DEF ProbeAnswers

LEMMA ReceiveKeeps == ASSUME IInv, NEW r \in Readers, Receive(r) PROVE IInv'
<1>0. /\ ReaderOK(r) /\ mode[r] \in Modes /\ secret[r] \in Secrets /\ pc[r] = "sent"
      /\ StoreStep /\ UNCHANGED <<store, quality, profile, disturbed>>
  BY StoreStays DEF IInv, Receive, ReaderOK, Captured, Reading
<1>1. CASE End(r, "answered")
  BY <1>0, <1>1, EndKeeps
<1>2. CASE "rejected" \in Answers(r) /\ Go(r, "rejected")
           /\ UNCHANGED <<outcome, routing, attempted, mode, secret, fence>>
  <2>1. LocalStep(r) /\ pc'[r] = "rejected"
    BY <1>2, LocalsStay DEF Go, IInv, TypeOK
  <2>2. profile[r] => quality[secret[r]] # "good" \/ slot[mode[r]] # secret[r]
    BY <1>0, <1>2, RefusalIsVerdict DEF Answers
  <2>3. ReaderOK(r)'
    BY <1>0, <1>2, <2>1, <2>2 DEF ReaderOK, Captured, Reading, store
  <2> QED
    BY <1>0, <1>2, <2>1, <2>3, OutcomeStays, AdvanceKeeps DEF Locked, Waiting
<1> QED
  BY <1>1, <1>2 DEF Receive

LEMMA AcquireKeeps == ASSUME IInv, NEW r \in Readers, Acquire(r) PROVE IInv'
<1>1. /\ ReaderOK(r) /\ pc[r] = "rejected" /\ Go(r, "checking") /\ pc'[r] = "checking"
      /\ routing = None /\ routing' = r /\ StoreStep /\ LocalStep(r)
      /\ UNCHANGED <<store, mode, secret, fence, outcome, quality, profile, disturbed>>
  BY StoreStays, LocalsStay DEF Acquire, IInv, TypeOK, Go
<1>2. ReaderOK(r)'
  BY <1>1 DEF ReaderOK, Captured, Reading, store
<1> QED
  BY <1>1, <1>2, OutcomeStays, AdvanceKeeps DEF Locked, Waiting

LEMMA CheckKeeps == ASSUME IInv, NEW r \in Readers, Check(r) PROVE IInv'
<1>0. /\ ReaderOK(r) /\ mode[r] \in Modes /\ fence[r] \in Nat /\ pc[r] = "checking"
      /\ UNCHANGED <<quality, profile, disturbed>>
  BY DEF IInv, TypeOK, Check, ReaderOK, Captured, Reading
<1>1. StoreStep
  BY <1>0, StoreStays, InvalidateKeeps DEF Check
<1>2. CASE End(r, "other")
  BY <1>0, <1>1, <1>2, EndKeeps
<1>3. CASE /\ Go(r, "switching") \/ (Go(r, "probing") /\ UNCHANGED store)
           /\ UNCHANGED <<routing, attempted, mode, secret, fence, outcome>>
  <2>1. LocalStep(r)
    BY <1>3, LocalsStay
  <2>2. CASE Go(r, "switching")
    <3>1. pc'[r] = "switching"
      BY <2>2 DEF Go, IInv, TypeOK
    <3>2. ReaderOK(r)'
      BY <3>1 DEF ReaderOK, Captured, Reading
    <3> QED
      BY <1>0, <1>1, <1>3, <2>1, <2>2, <3>2, OutcomeStays, AdvanceKeeps DEF Locked, Waiting
  <2>3. CASE Go(r, "probing") /\ UNCHANGED store
    <3>1. pc'[r] = "probing"
      BY <2>3 DEF Go, IInv, TypeOK
    <3>2. ReaderOK(r)'
      BY <1>0, <1>3, <2>3, <3>1 DEF ReaderOK, Captured, Reading, store
    <3> QED
      BY <1>0, <1>1, <1>3, <2>1, <2>3, <3>2, OutcomeStays, AdvanceKeeps DEF Locked, Waiting
  <2> QED
    BY <1>3, <2>2, <2>3
<1>4. CASE Overtaken(r)
  BY <1>2, <1>4 DEF Check
<1>5. CASE ~Overtaken(r)
  <2>1. UNCHANGED <<routing, attempted, mode, secret, fence, outcome>>
    BY <1>5 DEF Check
  <2>2. CASE slot[mode[r]] = None
    BY <1>3, <1>5, <2>1, <2>2 DEF Check
  <2>3. CASE slot[mode[r]] # None /\ profile[r]
    <3>1. Go(r, "switching") /\ Invalidate(mode[r], fence[r])
      BY <1>5, <2>3, Zenon DEF Check
    <3> QED
      BY <1>3, <2>1, <3>1
  <2>4. CASE slot[mode[r]] # None /\ ~profile[r]
    BY <1>3, <1>5, <2>1, <2>4 DEF Check
  <2> QED
    BY <2>2, <2>3, <2>4
<1> QED
  BY <1>4, <1>5

LEMMA ProbeKeeps == ASSUME IInv, NEW r \in Readers, Probe(r) PROVE IInv'
<1>0. /\ ReaderOK(r) /\ mode[r] \in Modes /\ fence[r] \in Nat /\ pc[r] = "probing"
      /\ UNCHANGED <<quality, profile, disturbed>>
  BY DEF IInv, TypeOK, Probe, ReaderOK, Captured, Reading
<1>1. StoreStep
  BY <1>0, MarkKeeps, InvalidateKeeps DEF Probe
<1>2. CASE End(r, "denied")
  BY <1>0, <1>1, <1>2, EndKeeps
<1>3. CASE Go(r, "switching") /\ UNCHANGED <<routing, attempted, mode, secret, fence, outcome>>
  <2>1. LocalStep(r) /\ pc'[r] = "switching"
    BY <1>3, LocalsStay DEF Go, IInv, TypeOK
  <2>2. ReaderOK(r)'
    BY <2>1 DEF ReaderOK, Captured, Reading
  <2> QED
    BY <1>0, <1>1, <1>3, <2>1, <2>2, OutcomeStays, AdvanceKeeps DEF Locked, Waiting
<1> QED
  BY <1>2, <1>3 DEF Probe

LEMMA SwitchKeeps == ASSUME IInv, NEW r \in Readers, Switch(r) PROVE IInv'
<1>0. /\ pc[r] = "switching" /\ routing = r /\ StoreStep
      /\ UNCHANGED <<store, quality, profile, disturbed>>
  BY StoreStays DEF IInv, Switch, LockIsHeldBySwitcher, Locked
<1>1. CASE End(r, "auth_required")
  BY <1>0, <1>1, EndKeeps
<1>2. CASE Again(r) /\ UNCHANGED attempted
  BY <1>0, <1>2, AgainKeeps DEF IInv, TypeOK
<1>3. CASE /\ effective \notin attempted[r] \union {None}
           /\ Go(r, "probing_backup")
           /\ mode' = [mode EXCEPT ![r] = effective]
           /\ secret' = [secret EXCEPT ![r] = slot[effective]]
           /\ fence' = [fence EXCEPT ![r] = generation[effective]]
           /\ UNCHANGED <<attempted, routing, outcome>>
  <2>1. effective \in Modes /\ slot[effective] \in Secrets /\ generation[effective] \in Nat
    BY <1>3 DEF IInv, TypeOK, RouteIsPresent
  <2>2. /\ LocalStep(r) /\ pc'[r] = "probing_backup" /\ mode'[r] = effective
        /\ secret'[r] = slot[effective] /\ fence'[r] = generation[effective]
    BY <1>3, <2>1 DEF LocalStep, Go, IInv, TypeOK
  <2>3. ReaderOK(r)'
    BY <1>0, <2>1, <2>2 DEF ReaderOK, Captured, Reading, store
  <2> QED
    BY <1>0, <1>3, <2>2, <2>3, OutcomeStays, AdvanceKeeps DEF Locked, Waiting
<1>4. CASE /\ effective \notin attempted[r] \union {None} /\ Preemptive
           /\ Go(r, "reading_backup")
           /\ mode' = [mode EXCEPT ![r] = effective]
           /\ UNCHANGED <<attempted, secret, fence, routing, outcome>>
  <2>1. effective \in Modes
    BY <1>4 DEF IInv, TypeOK
  <2>2. LocalStep(r) /\ pc'[r] = "reading_backup" /\ mode'[r] = effective
    BY <1>4, <2>1 DEF LocalStep, Go, IInv, TypeOK
  <2>3. ReaderOK(r)'
    BY <1>4, <2>1, <2>2 DEF ReaderOK, Captured, Reading
  <2> QED
    BY <1>0, <1>4, <2>2, <2>3, OutcomeStays, AdvanceKeeps DEF Locked, Waiting
<1> QED
  BY <1>1, <1>2, <1>3, <1>4 DEF Switch

LEMMA TrustKeeps == ASSUME IInv, NEW r \in Readers, Trust(r) PROVE IInv'
<1>0. /\ ReaderOK(r) /\ pc[r] = "trusting" /\ routing = r /\ StoreStep
      /\ mode[r] \in Modes /\ secret[r] \in Secrets /\ Preemptive
      /\ UNCHANGED <<store, quality, profile, disturbed>>
  BY StoreStays DEF IInv, Trust, LockIsHeldBySwitcher, Locked, ReaderOK, Captured, Reading
<1>1. CASE Again(r) /\ UNCHANGED attempted
  BY <1>0, <1>1, AgainKeeps DEF IInv, TypeOK
<1>2. CASE Go(r, "probing_backup") /\ UNCHANGED <<attempted, mode, secret, fence, routing, outcome>>
  <2>1. LocalStep(r) /\ pc'[r] = "probing_backup"
    BY <1>2, LocalsStay DEF Go, IInv, TypeOK
  <2>2. ReaderOK(r)'
    BY <1>0, <1>2, <2>1 DEF ReaderOK, Captured, Reading
  <2> QED
    BY <1>0, <1>2, <2>1, <2>2, OutcomeStays, AdvanceKeeps DEF Locked, Waiting
<1> QED
  BY <1>1, <1>2 DEF Trust

LEMMA ProbeBackupKeeps == ASSUME IInv, NEW r \in Readers, ProbeBackup(r) PROVE IInv'
<1>0. /\ ReaderOK(r) /\ mode[r] \in Modes /\ fence[r] \in Nat /\ routing = r
      /\ UNCHANGED <<quality, profile, disturbed>>
  BY DEF IInv, TypeOK, ProbeBackup, ReaderOK, Captured, Reading, LockIsHeldBySwitcher, Locked
<1>1. StoreStep
  BY <1>0, StoreStays, MarkKeeps, InvalidateKeeps DEF ProbeBackup
<1>2. CASE End(r, "denied") \/ End(r, "other")
  BY <1>0, <1>1, <1>2, EndKeeps
<1>3. CASE /\ Again(r)
           /\ UNCHANGED attempted \/ attempted' = [attempted EXCEPT ![r] = @ \union {mode[r]}]
  <2>1. attempted' \in [Readers -> SUBSET Modes]
    BY <1>0, <1>3 DEF IInv, TypeOK
  <2> QED
    BY <1>0, <1>1, <1>3, <2>1, AgainKeeps
<1> QED
  BY <1>2, <1>3 DEF ProbeBackup

LEMMA NextIInv == IInv /\ [Next]_vars => IInv'
<1> SUFFICES ASSUME IInv, [Next]_vars PROVE IInv'
  OBVIOUS
<1>1. CASE \/ \E m \in Modes, s \in Secrets : Install(m, s)
           \/ \E m \in Modes : Disconnect(m) \/ Select(m) \/ Forget(m)
           \/ \E s \in Secrets : Revoke(s)
  BY <1>1, ChangesKeep
<1>2. ASSUME NEW r \in Readers, Start(r) \/ Read(r) PROVE IInv'
  BY <1>2, StartKeeps, ChooseKeeps, ReadKeeps, ReceiveKeeps, AcquireKeeps, CheckKeeps,
     ProbeKeeps, SwitchKeeps, TrustKeeps, ProbeBackupKeeps DEF Read
<1>3. ASSUME NEW r \in Readers, GiveUp(r) PROVE IInv'
  BY <1>3, StoreStays, EndKeeps DEF GiveUp
<1>4. CASE UNCHANGED vars
  BY <1>4 DEF vars, store, readers, IInv, TypeOK, RouteIsPresent, LockIsHeldBySwitcher, ReaderOK
<1> QED
  BY <1>1, <1>2, <1>3, <1>4 DEF Next, AllDone

LEMMA SpecIInv == Spec => []IInv
  BY InitIInv, NextIInv, PTL DEF Spec

-----------------------------------------------------------------------------
(* Every reachable state is well typed: whatever is removed under a        *)
(* reader, it never tries a method or a secret that does not exist.        *)
THEOREM RoutingTypeCorrect == Spec => []TypeOK
<1>1. IInv => TypeOK
  BY DEF IInv
<1> QED
  BY <1>1, SpecIInv, PTL

(* The routing lock is held exactly by the reader that switches, on every  *)
(* path through the loop, the failing and cancelled ones included          *)
(* (canvas_routing.py:23-32, 72-116).                                      *)
THEOREM LockNeverLeaks == Spec => []LockIsHeldBySwitcher
<1>1. IInv => LockIsHeldBySwitcher
  BY DEF IInv
<1> QED
  BY <1>1, SpecIInv, PTL

(* A reader that takes a method away names the method and generation it    *)
(* captured.                                                               *)
LEMMA RemovalIsInvalidate ==
    ASSUME IInv, NEW r \in Readers, Read(r), NEW m \in Modes, slot[m] # None, slot'[m] = None
    PROVE  /\ m = mode[r] /\ generation[m] = fence[r]
           /\ \/ Check(r) /\ profile[r] /\ Invalidate(mode[r], fence[r])
              \/ Probe(r) /\ Invalidate(mode[r], fence[r])
                  /\ ("rejected" \in SameProbe(r) \/ "foreign" \in SameProbe(r))
              \/ ProbeBackup(r) /\ Invalidate(mode[r], fence[r])
                  /\ ("rejected" \in SameProbe(r) \/ "foreign" \in SameProbe(r))
<1>1. UNCHANGED slot => FALSE
  OBVIOUS
<1>2. ~UNCHANGED store
  BY <1>1 DEF store
<1>3. ~MarkVerified(mode[r])
  BY <1>1 DEF MarkVerified
<1>4. \/ Check(r) /\ profile[r] /\ Invalidate(mode[r], fence[r])
      \/ Probe(r) /\ Invalidate(mode[r], fence[r])
          /\ ("rejected" \in SameProbe(r) \/ "foreign" \in SameProbe(r))
      \/ ProbeBackup(r) /\ Invalidate(mode[r], fence[r])
          /\ ("rejected" \in SameProbe(r) \/ "foreign" \in SameProbe(r))
  BY <1>2, <1>3 DEF Read, Choose, ReadSlot, ReadGeneration, Receive, Acquire, Check, Probe, Switch, Trust,
     ProbeBackup, SameProbe
<1>5. Invalidate(mode[r], fence[r])
  BY <1>4
<1>6. m = mode[r] /\ generation[m] = fence[r]
  BY <1>2, <1>5 DEF Invalidate, MayRemove, IInv, TypeOK
<1> QED
  BY <1>4, <1>6

(* As long as threads switch only where a reader awaits, a reader removes  *)
(* a method only if Canvas refuses the very secret that is installed then. *)
(* Nothing else is needed than that slot and generation are read together: *)
(* the run CanvasPreempted shows that it is needed.                        *)
THEOREM HealthyMethodsStay == ASSUME ~Preemptive PROVE Spec => NoHealthyRemoved
<1>1. IInv /\ [Next]_vars => [HealthyStays]_vars
  <2> SUFFICES ASSUME IInv, Next PROVE HealthyStays
    OBVIOUS
  <2> SUFFICES ASSUME NEW r \in Readers, NEW m \in Modes, Read(r), slot[m] # None, slot'[m] = None
               PROVE  quality[slot[m]] # "good"
    BY DEF HealthyStays
  <2>1. /\ m = mode[r] /\ generation[m] = fence[r]
        /\ \/ Check(r) /\ profile[r]
           \/ (Probe(r) \/ ProbeBackup(r))
               /\ ("rejected" \in SameProbe(r) \/ "foreign" \in SameProbe(r))
    BY RemovalIsInvalidate
  <2>2. ReaderOK(r) /\ pc[r] \in Captured
    BY <2>1 DEF IInv, Check, Probe, ProbeBackup, Captured
  <2>3. slot[m] = secret[r] /\ secret[r] \in Secrets
    BY <2>1, <2>2 DEF ReaderOK
  <2>4. CASE Check(r) /\ profile[r]
    BY <2>1, <2>2, <2>3, <2>4 DEF ReaderOK, Check
  <2>5. CASE "rejected" \in SameProbe(r) \/ "foreign" \in SameProbe(r)
    BY <2>1, <2>3, <2>5, RefusalIsVerdict DEF SameProbe
  <2> QED
    BY <2>1, <2>4, <2>5
<1>2. Init => IInv
  BY InitIInv
<1>3. IInv /\ [Next]_vars => IInv'
  BY NextIInv
<1> QED
  BY <1>1, SpecIInv, PTL DEF Spec, NoHealthyRemoved

-----------------------------------------------------------------------------
(* Failover.  What an undisturbed reader has tried is not installed any    *)
(* more, except for the method it is trying, and a method that it probes   *)
(* cannot be replaced under it.                                            *)
EmptyRoute == effective = None => \A m \in Modes : slot[m] = None

Trying == {"sent", "rejected", "checking", "probing"}

Tried(r) ==
    /\ pc[r] = "ready" => attempted[r] = {}
    /\ pc[r] \in Waiting /\ ~disturbed[r] =>
          /\ \A m \in attempted[r] : slot[m] = None \/ (m = mode[r] /\ pc[r] \in Trying)
          /\ pc[r] \in {"probing", "probing_backup"} => generation[mode[r]] = fence[r]

FInv ==
    /\ IInv
    /\ EmptyRoute
    /\ \A r \in Readers : Tried(r)

LEMMA RouteIsComplete ==
    ASSUME NEW s \in [Modes -> Secrets \union {None}], preferred \in Modes, Route(s) = None
    PROVE  \A m \in Modes : s[m] = None
<1>1. CASE Present(s) = {}
  BY <1>1 DEF Present
<1>2. CASE Present(s) # {}
  BY <1>2, BestIsPresent, RoutingAssumption DEF Route, Present
<1> QED
  BY <1>1, <1>2

LEMMA InitFInv == Init => FInv
<1> SUFFICES ASSUME Init PROVE FInv
  OBVIOUS
<1>1. EmptyRoute
  BY RouteIsComplete DEF Init, EmptyRoute
<1>2. \A r \in Readers : Tried(r)
  BY DEF Init, Tried, Waiting
<1> QED
  BY <1>1, <1>2, InitIInv DEF FInv

LEMMA TriedStays ==
    ASSUME FInv, NEW r \in Readers,
           pc'[r] = pc[r], attempted'[r] = attempted[r], mode'[r] = mode[r], fence'[r] = fence[r],
           \/ disturbed'[r]
           \/ pc[r] \notin Waiting
           \/ /\ disturbed'[r] = disturbed[r]
              /\ \A m \in Modes : slot'[m] \in {slot[m], None}
              /\ generation' = generation \/ pc[r] \notin Locked
    PROVE  Tried(r)'
<1>1. attempted[r] \subseteq Modes
  BY DEF FInv, IInv, TypeOK
<1>2. Tried(r)
  BY DEF FInv
<1> QED
  BY <1>1, <1>2 DEF Tried, Locked

(* What the user and Canvas do. *)
LEMMA ChangesKeepTried ==
    ASSUME FInv,
           \/ \E m \in Modes, s \in Secrets : Install(m, s)
           \/ \E m \in Modes : Disconnect(m) \/ Select(m) \/ Forget(m)
           \/ \E s \in Secrets : Revoke(s)
    PROVE  FInv'
<1>1. IInv'
  BY ChangesKeep DEF FInv
<1>2. EmptyRoute'
  <2>1. slot' \in [Modes -> Secrets \union {None}] /\ preferred' \in Modes
    BY <1>1 DEF IInv, TypeOK
  <2>2. ASSUME preferred' = preferred, effective' = Route(slot') PROVE EmptyRoute'
    BY <2>1, <2>2, RouteIsComplete DEF EmptyRoute
  <2>3. ASSUME effective' \in {effective} \union Modes, slot' = slot PROVE EmptyRoute'
    BY <2>3, RoutingAssumption DEF FInv, EmptyRoute
  <2>4. ASSUME NEW m \in Modes, Disconnect(m), slot[m] = None PROVE EmptyRoute'
    BY <2>4 DEF Disconnect, FInv, IInv, TypeOK, EmptyRoute
  <2> QED
    BY <2>2, <2>3, <2>4 DEF Install, Disconnect, Select, Forget, Revoke, store
<1>3. \A r \in Readers : Tried(r)'
  <2> SUFFICES ASSUME NEW r \in Readers PROVE Tried(r)'
    OBVIOUS
  <2>1. pc'[r] = pc[r] /\ attempted'[r] = attempted[r] /\ mode'[r] = mode[r] /\ fence'[r] = fence[r]
    BY DEF Install, Disconnect, Select, Forget, Revoke, readers
  <2>2. \/ disturbed'[r]
        \/ pc[r] \notin Waiting
        \/ UNCHANGED <<disturbed, slot, generation>>
    BY DEF Install, Disconnect, Select, Forget, Revoke, Disturb, store
  <2> QED
    BY <2>1, <2>2, TriedStays
<1> QED
  BY <1>1, <1>2, <1>3 DEF FInv

(* Only the reader that holds the lock takes methods away. *)
Takes(r) ==
    /\ routing = r
    /\ generation[mode[r]] = fence[r]
    /\ mode[r] \in Modes
    /\ slot' = [slot EXCEPT ![mode[r]] = None]
    /\ effective' = IF slot[mode[r]] = None THEN effective ELSE Route(slot')
    /\ UNCHANGED preferred

LEMMA OnlyTakes ==
    ASSUME IInv, NEW r \in Readers, Start(r) \/ Read(r) \/ GiveUp(r)
    PROVE  UNCHANGED <<slot, generation, effective>> \/ Takes(r)
<1>1. \/ UNCHANGED store
      \/ MarkVerified(mode[r])
      \/ Invalidate(mode[r], fence[r]) /\ pc[r] \in {"checking", "probing", "probing_backup"}
  BY DEF Start, Read, GiveUp, Choose, ReadSlot, ReadGeneration, Receive, Acquire, Check, Probe,
     Switch, Trust, ProbeBackup
<1>2. ASSUME Invalidate(mode[r], fence[r]), pc[r] \in {"checking", "probing", "probing_backup"},
             ~UNCHANGED store
      PROVE  Takes(r)
  <2>1. routing = r /\ mode[r] \in Modes
    BY <1>2 DEF IInv, LockIsHeldBySwitcher, Locked, ReaderOK, Captured, Reading
  <2>2. MayRemove(mode[r], fence[r])
    BY <1>2 DEF Invalidate
  <2> QED
    BY <1>2, <2>1, <2>2 DEF Invalidate, MayRemove, Takes
<1> QED
  BY <1>1, <1>2 DEF MarkVerified, store

LEMMA OnlyOwn ==
    ASSUME IInv, NEW r \in Readers, Start(r) \/ Read(r) \/ GiveUp(r), NEW q \in Readers \ {r}
    PROVE  /\ pc'[q] = pc[q] /\ attempted'[q] = attempted[q]
           /\ mode'[q] = mode[q] /\ fence'[q] = fence[q] /\ disturbed' = disturbed
<1>1. /\ pc \in [Readers -> Waiting \union {"ready", "done"}]
      /\ attempted \in [Readers -> SUBSET Modes]
      /\ mode \in [Readers -> Modes \union {None}]
      /\ fence \in [Readers -> Nat]
  BY DEF IInv, TypeOK
<1>2. \A to : Go(r, to) => pc'[q] = pc[q]
  BY <1>1 DEF Go
<1>3. Drop(r) => mode'[q] = mode[q] /\ fence'[q] = fence[q]
  BY <1>1 DEF Drop
<1>4. \A o : End(r, o) => pc'[q] = pc[q] /\ attempted'[q] = attempted[q]
                          /\ mode'[q] = mode[q] /\ fence'[q] = fence[q]
  BY <1>1, <1>2, <1>3 DEF End
<1>5. Again(r) => pc'[q] = pc[q] /\ mode'[q] = mode[q] /\ fence'[q] = fence[q]
  BY <1>2, <1>3 DEF Again
<1>6. CASE Choose(r) \/ ReadSlot(r) \/ ReadGeneration(r) \/ Receive(r) \/ Acquire(r) \/ Start(r)
  BY <1>1, <1>2, <1>4, <1>6 DEF Choose, ReadSlot, ReadGeneration, Receive, Acquire, Start
<1>7. CASE Check(r) \/ Probe(r) \/ GiveUp(r)
  BY <1>1, <1>2, <1>4, <1>7 DEF Check, Probe, GiveUp
<1>8. CASE Switch(r) \/ Trust(r) \/ ProbeBackup(r)
  BY <1>1, <1>2, <1>4, <1>5, <1>8 DEF Switch, Trust, ProbeBackup
<1> QED
  BY <1>6, <1>7, <1>8 DEF Read

LEMMA EndTried == ASSUME FInv, NEW r \in Readers, NEW o, End(r, o) PROVE Tried(r)'
<1>1. pc'[r] = "done"
  BY DEF End, Go, FInv, IInv, TypeOK
<1> QED
  BY <1>1 DEF Tried, Waiting

(* A reader that goes on to another place, with what it has tried.         *)
LEMMA GoTried ==
    ASSUME FInv, NEW r \in Readers, NEW to \in Waiting, Go(r, to), UNCHANGED disturbed,
           ~disturbed[r] =>
               /\ \A m \in attempted'[r] : slot'[m] = None \/ (m = mode'[r] /\ to \in Trying)
               /\ to \in {"probing", "probing_backup"} => generation'[mode'[r]] = fence'[r]
    PROVE  Tried(r)'
<1>1. pc'[r] = to /\ to # "ready"
  BY DEF Go, FInv, IInv, TypeOK, Waiting
<1> QED
  BY <1>1 DEF Tried

(* What a reader has tried is still gone when nothing changed, or when it  *)
(* took its own method away.                                               *)
LEMMA StillGone ==
    ASSUME FInv, NEW r \in Readers, pc[r] \in Waiting, ~disturbed[r],
           UNCHANGED slot \/ slot' = [slot EXCEPT ![mode[r]] = None]
    PROVE  \A m \in attempted[r] : slot'[m] = None \/ (m = mode[r] /\ pc[r] \in Trying)
<1>1. slot \in [Modes -> Secrets \union {None}] /\ attempted[r] \subseteq Modes
  BY DEF FInv, IInv, TypeOK
<1>2. \A m \in attempted[r] : slot[m] = None \/ (m = mode[r] /\ pc[r] \in Trying)
  BY DEF FInv, Tried
<1> QED
  BY <1>1, <1>2

LEMMA StartTried == ASSUME FInv, NEW r \in Readers, Start(r) PROVE Tried(r)'
<1>1. attempted'[r] = {} /\ Go(r, "choosing") /\ UNCHANGED disturbed
  BY DEF Start, FInv, Tried
<1> QED
  BY <1>1, GoTried DEF Waiting

LEMMA ChooseTried ==
    ASSUME FInv, ~Preemptive, NEW r \in Readers, Choose(r) PROVE Tried(r)'
<1>1. CASE End(r, "auth_required")
  BY <1>1, EndTried
<1>2. CASE ~(effective \in attempted[r] \union {None} \/ attempted[r] = Modes)
  <2>1. /\ attempted' = [attempted EXCEPT ![r] = @ \union {effective}]
        /\ mode' = [mode EXCEPT ![r] = effective]
        /\ Go(r, "sent") /\ UNCHANGED <<slot, disturbed>> /\ pc[r] = "choosing"
    BY <1>2 DEF Choose, store
  <2>2. attempted'[r] = attempted[r] \union {effective} /\ mode'[r] = effective
    BY <2>1 DEF FInv, IInv, TypeOK
  <2>3. ~disturbed[r] => \A m \in attempted[r] : slot[m] = None
    BY <2>1 DEF FInv, Tried, Waiting, Trying
  <2> QED
    BY <2>1, <2>2, <2>3, GoTried DEF Waiting, Trying
<1> QED
  BY <1>1, <1>2 DEF Choose

LEMMA ReceiveTried ==
    ASSUME FInv, NEW r \in Readers, Receive(r) \/ Acquire(r) PROVE Tried(r)'
<1>1. CASE End(r, "answered")
  BY <1>1, EndTried
<1>2. ASSUME NEW to \in {"rejected", "checking"}, Go(r, to),
             UNCHANGED <<store, attempted, mode, disturbed>>, pc[r] \in {"sent", "rejected"}
      PROVE  Tried(r)'
  <2>1. ~disturbed[r] => \A m \in attempted[r] : slot'[m] = None \/ m = mode[r]
    BY <1>2, StillGone DEF store, Waiting
  <2> QED
    BY <1>2, <2>1, GoTried DEF Waiting, Trying
<1> QED
  BY <1>1, <1>2 DEF Receive, Acquire

LEMMA CheckTried ==
    ASSUME FInv, ~Preemptive, NEW r \in Readers, Check(r) PROVE Tried(r)'
<1>1. CASE End(r, "other")
  BY <1>1, EndTried
<1>2. CASE ~Overtaken(r)
  <2>1. /\ pc[r] = "checking" /\ mode[r] \in Modes
        /\ UNCHANGED <<attempted, mode, fence, disturbed>>
    BY <1>2 DEF Check, FInv, IInv, ReaderOK, Captured, Reading
  <2>2. slot[mode[r]] # None => generation[mode[r]] = fence[r]
    BY <1>2 DEF Overtaken
  <2>3. CASE slot[mode[r]] = None
    <3>1. Go(r, "switching") /\ UNCHANGED slot
      BY <1>2, <2>3 DEF Check, store
    <3>2. ~disturbed[r] => \A m \in attempted[r] : slot'[m] = None
      BY <2>1, <2>3, <3>1, StillGone DEF Waiting
    <3> QED
      BY <2>1, <3>1, <3>2, GoTried DEF Waiting
  <2>4. CASE slot[mode[r]] # None /\ profile[r]
    <3>1. Go(r, "switching")
      BY <1>2, <2>4, Zenon DEF Check
    <3>2. Invalidate(mode[r], fence[r])
      BY <1>2, <2>4, Zenon DEF Check
    <3>3. slot' = [slot EXCEPT ![mode[r]] = None]
      BY <2>2, <2>4, <3>2 DEF Invalidate, MayRemove
    <3>4. slot'[mode[r]] = None
      BY <2>1, <3>3 DEF FInv, IInv, TypeOK
    <3>5. ~disturbed[r] => \A m \in attempted[r] : slot'[m] = None
      BY <2>1, <3>3, <3>4, StillGone DEF Waiting
    <3> QED
      BY <2>1, <3>1, <3>5, GoTried DEF Waiting
  <2>5. CASE slot[mode[r]] # None /\ ~profile[r]
    <3>1. Go(r, "probing") /\ UNCHANGED <<slot, generation>>
      BY <1>2, <2>5 DEF Check, store
    <3>2. ~disturbed[r] => \A m \in attempted[r] : slot'[m] = None \/ m = mode[r]
      BY <2>1, <3>1, StillGone DEF Waiting
    <3> QED
      BY <2>1, <2>2, <2>5, <3>1, <3>2, GoTried DEF Waiting, Trying
  <2> QED
    BY <2>3, <2>4, <2>5
<1> QED
  BY <1>1, <1>2 DEF Check

LEMMA ProbeTried == ASSUME FInv, NEW r \in Readers, Probe(r) PROVE Tried(r)'
<1>1. CASE End(r, "denied")
  BY <1>1, EndTried
<1>2. CASE Invalidate(mode[r], fence[r]) /\ Go(r, "switching") /\ UNCHANGED attempted
  <2>1. pc[r] = "probing" /\ mode[r] \in Modes /\ UNCHANGED disturbed
    BY DEF Probe, FInv, IInv, ReaderOK, Captured, Reading
  <2>2. ~disturbed[r] => generation[mode[r]] = fence[r]
    BY <2>1 DEF FInv, Tried, Waiting
  <2>3. ~disturbed[r] => slot' = [slot EXCEPT ![mode[r]] = None] /\ slot'[mode[r]] = None
    BY <1>2, <2>1, <2>2 DEF Invalidate, MayRemove, FInv, IInv, TypeOK
  <2>4. ~disturbed[r] => \A m \in attempted[r] : slot'[m] = None
    BY <2>1, <2>3, StillGone DEF Waiting
  <2> QED
    BY <1>2, <2>1, <2>4, GoTried DEF Waiting
<1> QED
  BY <1>1, <1>2 DEF Probe

LEMMA SwitchTried == ASSUME FInv, ~Preemptive, NEW r \in Readers, Switch(r) PROVE Tried(r)'
<1>1. CASE End(r, "auth_required")
  BY <1>1, EndTried
<1>2. pc[r] = "switching" /\ UNCHANGED <<slot, generation, disturbed>>
  BY DEF Switch, store
<1>3. ~disturbed[r] => \A m \in attempted[r] : slot'[m] = None
  BY <1>2, StillGone DEF Waiting, Trying
<1>4. CASE Again(r) /\ UNCHANGED attempted
  BY <1>2, <1>3, <1>4, GoTried DEF Again, Waiting
<1>5. CASE /\ Go(r, "probing_backup")
           /\ mode' = [mode EXCEPT ![r] = effective]
           /\ fence' = [fence EXCEPT ![r] = generation[effective]]
           /\ UNCHANGED attempted
  <2>1. mode'[r] = effective /\ fence'[r] = generation[effective]
    BY <1>5 DEF FInv, IInv, TypeOK
  <2> QED
    BY <1>2, <1>3, <1>5, <2>1, GoTried DEF Waiting
<1> QED
  BY <1>1, <1>4, <1>5 DEF Switch

LEMMA ProbeBackupTried == ASSUME FInv, NEW r \in Readers, ProbeBackup(r) PROVE Tried(r)'
<1>1. CASE End(r, "denied") \/ End(r, "other")
  BY <1>1, EndTried
<1>2. pc[r] = "probing_backup" /\ mode[r] \in Modes /\ UNCHANGED disturbed
  BY DEF ProbeBackup, FInv, IInv, ReaderOK, Captured, Reading
<1>3. CASE /\ Invalidate(mode[r], fence[r])
           /\ attempted' = [attempted EXCEPT ![r] = @ \union {mode[r]}]
           /\ Again(r)
  <2>1. attempted'[r] = attempted[r] \union {mode[r]}
    BY <1>3 DEF FInv, IInv, TypeOK
  <2>2. ~disturbed[r] => generation[mode[r]] = fence[r]
    BY <1>2 DEF FInv, Tried, Waiting
  <2>3. ~disturbed[r] => slot' = [slot EXCEPT ![mode[r]] = None] /\ slot'[mode[r]] = None
    BY <1>2, <1>3, <2>2 DEF Invalidate, MayRemove, FInv, IInv, TypeOK
  <2>4. ~disturbed[r] => \A m \in attempted[r] : slot'[m] = None
    BY <1>2, <2>3, StillGone DEF Waiting, Trying
  <2> QED
    BY <1>2, <1>3, <2>1, <2>3, <2>4, GoTried DEF Again, Waiting
<1>4. CASE MarkVerified(mode[r]) /\ Again(r) /\ UNCHANGED attempted
  <2>1. ~disturbed[r] => \A m \in attempted[r] : slot'[m] = None
    BY <1>2, <1>4, StillGone DEF MarkVerified, Waiting, Trying
  <2> QED
    BY <1>2, <1>4, <2>1, GoTried DEF Again, Waiting
<1> QED
  BY <1>1, <1>3, <1>4 DEF ProbeBackup

LEMMA ReadersKeepTried ==
    ASSUME FInv, ~Preemptive, NEW r \in Readers, Start(r) \/ Read(r) \/ GiveUp(r)
    PROVE  FInv'
<1>1. IInv'
  BY NextIInv DEF FInv, Next
<1>2. UNCHANGED <<slot, generation, effective>> \/ Takes(r)
  BY OnlyTakes DEF FInv
<1>3. EmptyRoute'
  <2>1. CASE Takes(r)
    <3>1. slot' \in [Modes -> Secrets \union {None}] /\ preferred' \in Modes
      BY <1>1 DEF IInv, TypeOK
    <3>2. CASE slot[mode[r]] = None
      BY <2>1, <3>2 DEF Takes, FInv, IInv, TypeOK, EmptyRoute
    <3>3. CASE slot[mode[r]] # None
      BY <2>1, <3>1, <3>3, RouteIsComplete DEF Takes, EmptyRoute
    <3> QED
      BY <3>2, <3>3
  <2> QED
    BY <1>2, <2>1 DEF FInv, EmptyRoute
<1>4. Tried(r)'
  <2>1. ~ReadSlot(r) /\ ~ReadGeneration(r) /\ ~Trust(r)
    BY DEF FInv, IInv, ReaderOK, Reading, ReadSlot, ReadGeneration, Trust
  <2>2. CASE GiveUp(r)
    BY <2>2, EndTried DEF GiveUp
  <2> QED
    BY <2>1, <2>2, StartTried, ChooseTried, ReceiveTried, CheckTried, ProbeTried, SwitchTried,
       ProbeBackupTried DEF Read
<1>5. ASSUME NEW q \in Readers \ {r} PROVE Tried(q)'
  <2>1. /\ pc'[q] = pc[q] /\ attempted'[q] = attempted[q]
        /\ mode'[q] = mode[q] /\ fence'[q] = fence[q] /\ disturbed'[q] = disturbed[q]
    BY OnlyOwn DEF FInv
  <2>2. \A m \in Modes : slot'[m] \in {slot[m], None}
    BY <1>2 DEF Takes, FInv, IInv, TypeOK
  <2>3. generation' = generation \/ pc[q] \notin Locked
    BY <1>2 DEF Takes, FInv, IInv, LockIsHeldBySwitcher
  <2> QED
    BY <2>1, <2>2, <2>3, TriedStays
<1> QED
  BY <1>1, <1>3, <1>4, <1>5 DEF FInv

LEMMA NextFInv == ASSUME ~Preemptive, FInv, [Next]_vars PROVE FInv'
<1>1. CASE UNCHANGED vars
  BY <1>1, NextIInv DEF vars, store, readers, FInv, EmptyRoute, Tried
<1> QED
  BY <1>1, ChangesKeepTried, ReadersKeepTried DEF Next, AllDone

(* Authentication is reported as required to a reader during whose read    *)
(* the user changed nothing only when no method is left that is good: none *)
(* is left at all, as each was tried, refused and removed, by this reader  *)
(* or by another one, before the next was chosen                           *)
(* (canvas_routing.py:46-116).                                             *)
THEOREM FailoverTriesAll == ASSUME ~Preemptive PROVE Spec => FailoverIsComplete
<1>1. ASSUME FInv, Next PROVE NothingGoodIsLeft
  <2> SUFFICES ASSUME NEW r \in Readers, outcome[r] = "none", outcome'[r] = "auth_required",
                      ~disturbed[r]
               PROVE  \A m \in Modes : slot[m] = None
    BY DEF NothingGoodIsLeft
  <2>1. PICK q \in Readers : Start(q) \/ Read(q) \/ GiveUp(q)
    BY <1>1 DEF Next, AllDone, Install, Disconnect, Select, Forget, Revoke, readers, vars
  <2>2. outcome \in [Readers -> {"none", "answered", "auth_required", "denied", "other"}]
    BY <1>1 DEF FInv, IInv, TypeOK
  <2>3. \A o : End(q, o) => /\ r # q => outcome'[r] = outcome[r]
                            /\ r = q => outcome'[r] = o
    BY <2>2 DEF End
  <2>4. ~ReadSlot(q) /\ ~ReadGeneration(q) /\ ~Trust(q)
    BY <1>1 DEF FInv, IInv, ReaderOK, Reading, ReadSlot, ReadGeneration, Trust
  <2>5. /\ q = r
        /\ \/ Choose(r) /\ (effective \in attempted[r] \union {None} \/ attempted[r] = Modes)
           \/ Switch(r) /\ effective \in attempted[r] \union {None}
    <3>1. CASE Start(q) \/ GiveUp(q) \/ Receive(q) \/ Acquire(q) \/ Check(q) \/ Probe(q)
               \/ ProbeBackup(q)
      BY <2>3, <3>1 DEF Start, GiveUp, Receive, Acquire, Check, Probe, ProbeBackup, Again
    <3>2. CASE Choose(q)
      BY <2>3, <3>2 DEF Choose
    <3>3. CASE Switch(q)
      BY <2>3, <3>3 DEF Switch, Again
    <3> QED
      BY <2>1, <2>4, <3>1, <3>2, <3>3 DEF Read
  <2>6. \A m \in attempted[r] : slot[m] = None
    BY <1>1, <2>5 DEF FInv, Tried, Choose, Switch, Waiting, Trying
  <2>7. effective # None => slot[effective] # None
    BY <1>1 DEF FInv, IInv, RouteIsPresent
  <2>8. effective = None => \A m \in Modes : slot[m] = None
    BY <1>1 DEF FInv, EmptyRoute
  <2> QED
    BY <2>5, <2>6, <2>7, <2>8
<1>2. FInv /\ [Next]_vars => [NothingGoodIsLeft]_vars
  BY <1>1
<1>3. FInv /\ [Next]_vars => FInv'
  BY NextFInv
<1> QED
  BY <1>2, <1>3, InitFInv, PTL DEF Spec, FailoverIsComplete

-----------------------------------------------------------------------------
(* Tasks that assignments are linked to. A task that exists is its own      *)
(* assignment's, so no way leads an assignment without a task to a task of  *)
(* its own name; and only its own assignment, or a homework's number, is    *)
(* its key.                                                                 *)

LinkTypes ==
    /\ task \in [Linking!Assignments -> Linking!Assignments \union {None}]
    /\ title \in [Linking!Assignments -> Titles \union {None}]
    /\ DOMAIN key = Linking!Assignments

TasksAreOwn ==
    /\ \A i \in Linking!Assignments : task[i] # None => task[i] \in Linking!Existing
    /\ \A t \in Linking!Existing :
          /\ task[t] = t
          /\ key[t] \in Linking!Assignments => key[t] = t

ToolsAreNamed ==
    /\ DOMAIN tool = Canvas
    /\ \A c \in Canvas : tool[c] # None => <<c, tool[c]>> \in named

\* Whoever holds bindings, of whatever time, holds what the user confirmed.
Known(b) ==
    /\ b \in [Gradescope -> Linking!Existing \union {"separate", None}]
    /\ \A g \in Gradescope : b[g] # None => <<g, b[g]>> \in confirmed

ChoicesAreKnown ==
    /\ Known(binding)
    /\ DOMAIN form = Clicks
    /\ \A k \in Clicks : form[k].of # None => form[k].of \in Gradescope /\ Known(form[k].saw)
    /\ run = [pc |-> run.pc, bindings |-> run.bindings, rows |-> run.rows]
    /\ run.pc # "idle" => Known(run.bindings)
    /\ run.pc = "importing" => run.rows \in Seq(Gradescope)

LinkInv ==
    /\ LinkTypes /\ TasksAreOwn /\ ToolsAreNamed /\ ChoicesAreKnown
    /\ Linking!JoinedOnPurpose

LEMMA FirstWay ==
    ASSUME NEW S \in SUBSET (1..4), S # {}
    PROVE  Linking!Min(S) \in S /\ \A n \in S : Linking!Min(S) <= n
<1>1. \E x \in S : \A y \in S : x =< y
  <2>0. \A n \in S : n \in {1, 2, 3, 4}
    OBVIOUS
  <2>1. CASE 1 \in S
    BY <2>0, <2>1
  <2>2. CASE 1 \notin S /\ 2 \in S
    BY <2>0, <2>2
  <2>3. CASE 1 \notin S /\ 2 \notin S /\ 3 \in S
    BY <2>0, <2>3
  <2>4. CASE 1 \notin S /\ 2 \notin S /\ 3 \notin S
    <3>1. \A n \in S : n = 4
      BY <2>0, <2>4
    <3>2. 4 \in S
      BY <3>1
    <3> QED
      BY <3>1, <3>2
  <2> QED
    BY <2>1, <2>2, <2>3, <2>4
<1> QED
  BY <1>1 DEF Linking!Min

LEMMA KnownStays ==
    ASSUME NEW b, Known(b), Linking!Existing \subseteq Linking!Existing', confirmed \subseteq confirmed'
    PROVE  /\ b \in [Gradescope -> Linking!Existing' \union {"separate", None}]
           /\ \A g \in Gradescope : b[g] # None => <<g, b[g]>> \in confirmed'
  BY DEF Known

(* What linking an assignment to a task does, if there is a reason for it.  *)
LEMMA JoinKeeps ==
    ASSUME LinkInv, NEW i \in Linking!Assignments, NEW t, NEW name \in Titles,
           Linking!Join(i, t, name), task[i] # None => t = task[i],
           t \in Linking!Existing \/ t = i,
           named \subseteq named', UNCHANGED confirmed,
           \/ t \in {i, task[i]} \/ <<i, t>> \in confirmed
           \/ \E j \in Linking!Assignments : task[j] = t /\ {<<i, j>>, <<j, i>>} \intersect named' # {}
           \/ i \in Canvas /\ t \in Linking!Existing /\ key[t] \in Homework
    PROVE  /\ LinkTypes' /\ TasksAreOwn' /\ Linking!JoinedOnPurpose'
           /\ Linking!Existing \subseteq Linking!Existing'
<1>1. /\ t \in Linking!Assignments
      /\ i # None /\ t # None /\ name # None
  BY LinkingAssumption DEF Linking!Assignments, Linking!Existing
<1>2. /\ DOMAIN task' = Linking!Assignments
      /\ \A j \in Linking!Assignments : task'[j] = IF j = i THEN t ELSE task[j]
  BY DEF Linking!Join, LinkInv, LinkTypes
<1>3. /\ DOMAIN title' = Linking!Assignments
      /\ \A j \in Linking!Assignments : title'[j] = IF j = t THEN name ELSE title[j]
  BY DEF Linking!Join, LinkInv, LinkTypes
<1>4. /\ DOMAIN key' = Linking!Assignments
      /\ \A j \in Linking!Existing : key'[j] = key[j]
      /\ t \notin Linking!Existing => key'[t] = Linking!SourceKey(i, name)
      /\ \A j \in Linking!Assignments : j # t => key'[j] = key[j]
  BY <1>1 DEF Linking!Join, LinkInv, LinkTypes, Linking!Existing
<1>5. Linking!Existing' = Linking!Existing \union {t}
  BY <1>1, <1>3 DEF Linking!Existing
<1>6. TasksAreOwn'
  <2>1. ASSUME NEW j \in Linking!Assignments, task'[j] # None PROVE task'[j] \in Linking!Existing'
    BY <1>2, <1>5, <2>1 DEF LinkInv, TasksAreOwn
  <2>2. ASSUME NEW u \in Linking!Existing'
        PROVE  task'[u] = u /\ (key'[u] \in Linking!Assignments => key'[u] = u)
    <3>1. CASE u \in Linking!Existing
      <4>1. u \in Linking!Assignments /\ task[u] = u /\ u # None
        BY <3>1, LinkingAssumption DEF LinkInv, TasksAreOwn, Linking!Existing, Linking!Assignments
      <4>2. task'[u] = u
        BY <1>2, <4>1
      <4> QED
        BY <1>4, <3>1, <4>2 DEF LinkInv, TasksAreOwn
    <3>2. CASE u \notin Linking!Existing
      <4>1. u = t /\ t = i /\ key'[t] = Linking!SourceKey(i, name)
        BY <1>4, <1>5, <3>2
      <4>2. Linking!SourceKey(i, name) \in Linking!Assignments => Linking!SourceKey(i, name) = i
        BY LinkingAssumption DEF Linking!SourceKey, Linking!Assignments
      <4> QED
        BY <1>1, <1>2, <4>1, <4>2
    <3> QED
      BY <3>1, <3>2
  <2> QED
    BY <2>1, <2>2 DEF TasksAreOwn, Linking!Existing, Linking!Assignments
<1>7. Linking!JoinedOnPurpose'
  <2> SUFFICES ASSUME NEW j \in Linking!Assignments, task'[j] \notin {None, j}
               PROVE  \/ <<j, task'[j]>> \in confirmed'
                      \/ \E h \in Linking!Assignments :
                            task'[h] = task'[j] /\ {<<j, h>>, <<h, j>>} \intersect named' # {}
                      \/ j \in Canvas /\ key'[task'[j]] \in Homework
    BY DEF Linking!JoinedOnPurpose, Linking!Assignments
  <2>1. ASSUME NEW u, task[j] = u, task'[j] = u, u \notin {None, j}
        PROVE  \/ <<j, u>> \in confirmed'
               \/ \E h \in Linking!Assignments : task'[h] = u /\ {<<j, h>>, <<h, j>>} \intersect named' # {}
               \/ j \in Canvas /\ key'[u] \in Homework
    <3>1. u \in Linking!Existing
      BY <2>1 DEF LinkInv, TasksAreOwn
    <3>2. ASSUME NEW h \in Linking!Assignments, task[h] = u PROVE task'[h] = u
      <4>1. u # None
        BY <2>1
      <4> QED
        BY <1>2, <3>2, <4>1
    <3> QED
      BY <1>4, <2>1, <3>1, <3>2 DEF LinkInv, Linking!JoinedOnPurpose
  <2>2. CASE j # i \/ t = task[i]
    <3>1. task'[j] = task[j]
      BY <1>2, <2>2
    <3> QED
      BY <2>1, <3>1
  <2>3. CASE j = i /\ t # task[i]
    <3>1. task'[j] = t /\ t # i
      BY <1>2, <2>3
    <3>2. ASSUME NEW h \in Linking!Assignments, task[h] = t PROVE task'[h] = t
      BY <1>2, <3>2
    <3> QED
      BY <1>4, <2>3, <3>1, <3>2
  <2> QED
    BY <2>2, <2>3
<1>8. LinkTypes'
  <2>1. /\ task' = [task EXCEPT ![i] = t] /\ title' = [title EXCEPT ![t] = name]
        /\ task \in [Linking!Assignments -> Linking!Assignments \union {None}]
        /\ title \in [Linking!Assignments -> Titles \union {None}]
    BY DEF Linking!Join, LinkInv, LinkTypes
  <2>2. task' \in [Linking!Assignments -> Linking!Assignments \union {None}]
    BY <1>1, <2>1
  <2>3. title' \in [Linking!Assignments -> Titles \union {None}]
    BY <1>1, <2>1
  <2> QED
    BY <1>4, <2>2, <2>3 DEF LinkTypes, Linking!Assignments
<1> QED
  BY <1>5, <1>6, <1>7, <1>8

\* The row of a Canvas assignment.
LEMMA CanvasJoins ==
    ASSUME LinkInv, NEW c \in Canvas, NEW name \in Titles, NEW g \in Gradescope \union {None},
           Linking!CanvasRow(c, name, g)
    PROVE  LinkInv' /\ \A h \in Gradescope : task'[h] = task[h]
<1> DEFINE ways == <<Linking!Linked(c), Linking!Strong(Linking!Launched(g)), Linking!SameKey(c, name)>>
           open == {n \in DOMAIN ways : ways[n] # {}}
<1>1. /\ Linking!Import(c, ways, name) /\ c \in Linking!Assignments
      /\ tool' = [tool EXCEPT ![c] = g]
      /\ named' = named \union ({c} \X ({g} \ {None}))
      /\ UNCHANGED <<binding, form, confirmed, run>>
  BY DEF Linking!CanvasRow, Linking!Assignments, Linking!choices
<1>2. PICK t : /\ Linking!Join(c, t, name)
               /\ t \in IF open = {} THEN {c} ELSE ways[Linking!Min(open)]
  BY <1>1 DEF Linking!Import
<1>3. \/ t \in Linking!Linked(c)
      \/ Linking!Linked(c) = {} /\ t \in Linking!Launched(g)
      \/ Linking!Linked(c) = {} /\ t \in Linking!SameKey(c, name)
      \/ Linking!Linked(c) = {} /\ t = c
  <2>1. open \in SUBSET (1..4) /\ DOMAIN ways = 1..3
    OBVIOUS
  <2>2. CASE open = {}
    BY <1>2, <2>1, <2>2
  <2>3. CASE open # {}
    <3>1. /\ Linking!Min(open) \in {1, 2, 3} /\ t \in ways[Linking!Min(open)]
          /\ 1 \in open => Linking!Min(open) <= 1
      BY <1>2, <2>1, <2>3, FirstWay
    <3>2. Linking!Min(open) # 1 => ways[1] = {}
      BY <3>1, <2>1
    <3>3. Linking!Strong(Linking!Launched(g)) \subseteq Linking!Launched(g)
      BY DEF Linking!Strong
    <3> QED
      BY <3>1, <3>2, <3>3
  <2> QED
    BY <2>2, <2>3
<1> HIDE DEF ways, open
<1>4. task[c] # None => t = task[c]
  BY <1>3 DEF Linking!Linked
<1>5. ASSUME task[c] = None, t \in Linking!Launched(g)
      PROVE  /\ t \in Linking!Existing
             /\ \E j \in Linking!Assignments : task[j] = t /\ {<<c, j>>, <<j, c>>} \intersect named' # {}
  <2>1. g \in Gradescope /\ t = task[g] /\ t # None /\ g # None
    BY <1>5, LinkingAssumption DEF Linking!Launched
  <2>2. <<c, g>> \in named'
    BY <1>1, <2>1
  <2> QED
    BY <2>1, <2>2 DEF LinkInv, TasksAreOwn, Linking!Assignments
<1>6. ASSUME t \in Linking!SameKey(c, name)
      PROVE  t \in Linking!Existing /\ (t = c \/ key[t] \in Homework)
  BY <1>6, <1>1 DEF Linking!SameKey, Linking!SourceKey, LinkInv, TasksAreOwn
<1>7. ASSUME task[c] # None PROVE task[c] \in Linking!Existing
  BY <1>7, <1>1 DEF LinkInv, TasksAreOwn
<1>8. named \subseteq named' /\ confirmed' = confirmed
  BY <1>1
<1>9. /\ LinkTypes' /\ TasksAreOwn' /\ Linking!JoinedOnPurpose'
      /\ Linking!Existing \subseteq Linking!Existing'
  <2>1. t \in Linking!Existing \/ t = c
    BY <1>3, <1>4, <1>5, <1>6, <1>7 DEF Linking!Linked
  <2>2. \/ t \in {c, task[c]}
        \/ \E j \in Linking!Assignments : task[j] = t /\ {<<c, j>>, <<j, c>>} \intersect named' # {}
        \/ c \in Canvas /\ t \in Linking!Existing /\ key[t] \in Homework
    BY <1>1, <1>3, <1>5, <1>6 DEF Linking!Linked
  <2> QED
    BY <1>1, <1>2, <1>4, <1>8, <2>1, <2>2, JoinKeeps
<1>10. ToolsAreNamed'
  BY <1>1 DEF LinkInv, ToolsAreNamed
<1>11. ChoicesAreKnown'
  BY <1>1, <1>8, <1>9, KnownStays DEF LinkInv, ChoicesAreKnown, Known
<1>12. \A h \in Gradescope : task'[h] = task[h]
  BY <1>2, LinkingAssumption DEF Linking!Join, LinkInv, LinkTypes
<1> QED
  BY <1>9, <1>10, <1>11, <1>12 DEF LinkInv

(* The row of a Gradescope assignment: a task that looks like it belongs to *)
(* another one only if the user said that it is separate.                   *)
LEMMA GradescopeJoins ==
    ASSUME LinkInv, NEW name \in Titles, Linking!GradescopeRow(name)
    PROVE  LinkInv' /\ Linking!SplitOnPurpose
<1> DEFINE g == Head(run.rows)
           ways == <<Linking!Linked(g), Linking!Strong(Linking!Claimed(g)),
                     Linking!Confirmed(g), Linking!SameKey(g, name)>>
           open == {n \in DOMAIN ways : ways[n] # {}}
<1>1. /\ run.pc = "importing" /\ run.rows # <<>>
      /\ ~Linking!MustAsk(g, name) /\ Linking!Import(g, ways, name)
      /\ run' = [run EXCEPT !.rows = Tail(@)]
      /\ UNCHANGED <<tool, gone, named, binding, form, confirmed>>
  BY DEF Linking!GradescopeRow, Linking!seen, Linking!choices
<1>2. /\ run.rows \in Seq(Gradescope) /\ g \in Gradescope /\ Tail(run.rows) \in Seq(Gradescope)
      /\ g \in Linking!Assignments /\ g \notin Canvas
  BY <1>1, LinkingAssumption DEF LinkInv, ChoicesAreKnown, Linking!Assignments
<1>3. PICK t : /\ Linking!Join(g, t, name)
               /\ t \in IF open = {} THEN {g} ELSE ways[Linking!Min(open)]
  BY <1>1 DEF Linking!Import
<1>4. /\ \/ t \in Linking!Linked(g)
         \/ Linking!Linked(g) = {} /\ t \in Linking!Claimed(g)
         \/ Linking!Linked(g) = {} /\ t \in Linking!Confirmed(g)
         \/ Linking!Linked(g) = {} /\ t \in Linking!SameKey(g, name)
         \/ Linking!Linked(g) = {} /\ t = g
      /\ Linking!Linked(g) = {} /\ Linking!Strong(Linking!Claimed(g)) # {} => t \in Linking!Claimed(g)
      /\ Linking!Linked(g) = {} /\ Linking!Strong(Linking!Claimed(g)) = {}
            /\ Linking!Confirmed(g) # {} => t \in Linking!Confirmed(g)
  <2>1. open \in SUBSET (1..4) /\ DOMAIN ways = 1..4
    OBVIOUS
  <2>2. Linking!Strong(Linking!Claimed(g)) \subseteq Linking!Claimed(g)
    BY DEF Linking!Strong
  <2>3. CASE open = {}
    BY <1>3, <2>1, <2>3
  <2>4. CASE open # {}
    <3>1. /\ Linking!Min(open) \in {1, 2, 3, 4} /\ Linking!Min(open) \in open
          /\ t \in ways[Linking!Min(open)]
          /\ \A n \in open : Linking!Min(open) <= n
      BY <1>3, <2>1, <2>4, FirstWay
    <3>2. \A n \in 1..4 : n < Linking!Min(open) => ways[n] = {}
      BY <3>1, <2>1
    <3>3. CASE Linking!Min(open) = 1
      BY <3>1, <3>3
    <3>4. CASE Linking!Min(open) = 2
      BY <3>1, <3>2, <3>4, <2>2
    <3>5. CASE Linking!Min(open) \in {3, 4}
      BY <3>1, <3>2, <3>5, <2>2
    <3> QED
      BY <3>1, <3>3, <3>4, <3>5
  <2> QED
    BY <2>3, <2>4
<1> HIDE DEF ways, open
<1>5. task[g] # None => t = task[g] /\ t \in Linking!Existing
  BY <1>2, <1>4 DEF Linking!Linked, LinkInv, TasksAreOwn
<1>6. task[g] = None => g \notin Linking!Existing
  BY <1>2, LinkingAssumption DEF LinkInv, TasksAreOwn, Linking!Existing, Linking!Assignments
<1>7. ASSUME t \in Linking!Claimed(g)
      PROVE  /\ t \in Linking!Existing
             /\ \E j \in Linking!Assignments : task[j] = t /\ {<<g, j>>, <<j, g>>} \intersect named' # {}
  <2>1. PICK c \in Canvas \ gone : tool[c] = g /\ t = task[c] /\ t # None
    BY <1>7 DEF Linking!Claimed
  <2>2. <<c, g>> \in named' /\ c \in Linking!Assignments
    BY <1>1, <1>2, <2>1, LinkingAssumption DEF LinkInv, ToolsAreNamed, Linking!Assignments
  <2> QED
    BY <2>1, <2>2 DEF LinkInv, TasksAreOwn
<1>8. Known(run.bindings)
  BY <1>1 DEF LinkInv, ChoicesAreKnown
<1>9. ASSUME t \in Linking!Confirmed(g)
      PROVE  t \in Linking!Existing /\ <<g, t>> \in confirmed
  <2>1. t = run.bindings[g] /\ t \in Linking!Assignments
    BY <1>9 DEF Linking!Confirmed
  <2>2. t # None /\ t # "separate"
    BY <2>1, LinkingAssumption DEF Linking!Assignments
  <2> QED
    BY <1>2, <1>8, <2>1, <2>2 DEF Known
<1>10. ASSUME t \in Linking!SameKey(g, name)
       PROVE  t = g /\ t \in Linking!Existing
  BY <1>2, <1>10 DEF Linking!SameKey, Linking!SourceKey, LinkInv, TasksAreOwn
<1>11. /\ LinkTypes' /\ TasksAreOwn' /\ Linking!JoinedOnPurpose'
       /\ Linking!Existing \subseteq Linking!Existing'
  <2>1. t \in Linking!Existing \/ t = g
    BY <1>4, <1>5, <1>7, <1>9, <1>10 DEF Linking!Linked
  <2>2. \/ t \in {g, task[g]} \/ <<g, t>> \in confirmed
        \/ \E j \in Linking!Assignments : task[j] = t /\ {<<g, j>>, <<j, g>>} \intersect named' # {}
    BY <1>4, <1>7, <1>9, <1>10 DEF Linking!Linked
  <2>3. named \subseteq named' /\ confirmed' = confirmed
    BY <1>1
  <2> HIDE DEF g
  <2> QED
    BY <1>2, <1>3, <1>5, <2>1, <2>2, <2>3, JoinKeeps
<1>12. ToolsAreNamed'
  BY <1>1 DEF LinkInv, ToolsAreNamed
<1>13. ChoicesAreKnown'
  <2>1. /\ Known(binding)' /\ Known(run.bindings)'
        /\ \A k \in Clicks : form[k].of # None => Known(form[k].saw)'
    BY <1>1, <1>8, <1>11, KnownStays DEF LinkInv, ChoicesAreKnown, Known
  <2>2. /\ run'.pc = run.pc /\ run'.bindings = run.bindings /\ run'.rows = Tail(run.rows)
        /\ run' = [pc |-> run'.pc, bindings |-> run'.bindings, rows |-> run'.rows]
    BY <1>1 DEF LinkInv, ChoicesAreKnown
  <2> QED
    BY <1>1, <1>2, <2>1, <2>2 DEF LinkInv, ChoicesAreKnown
<1>14. Linking!SplitOnPurpose
  <2> SUFFICES ASSUME NEW h \in Gradescope, task[h] = None, task'[h] = h,
                      Linking!WeakCandidates(title'[h]) # {}
               PROVE  <<h, "separate">> \in confirmed
    BY DEF Linking!SplitOnPurpose
  <2>1. h = g /\ t = g
    BY <1>2, <1>3, LinkingAssumption DEF Linking!Join, LinkInv, LinkTypes, Linking!Assignments
  <2>2. title'[h] = name
    BY <1>2, <1>3, <2>1 DEF Linking!Join, LinkInv, LinkTypes
  <2>3. g \notin Linking!Existing /\ Linking!Linked(g) = {}
    BY <1>6, <2>1 DEF Linking!Linked
  <2>4. Linking!Strong(Linking!Claimed(g)) = {} /\ Linking!Confirmed(g) = {}
    BY <1>4, <1>7, <1>9, <2>1, <2>3
  <2>5. run.bindings[g] # None
    BY <1>1, <2>1, <2>2, <2>4 DEF Linking!MustAsk
  <2>6. run.bindings[g] = "separate"
    <3>1. run.bindings[g] \notin Linking!Assignments
      BY <2>4 DEF Linking!Confirmed
    <3> QED
      BY <1>2, <1>8, <2>5, <3>1 DEF Known, Linking!Existing
  <2> QED
    BY <1>2, <1>8, <2>1, <2>5, <2>6 DEF Known
<1> QED
  BY <1>11, <1>12, <1>13, <1>14 DEF LinkInv

\* What the run and the user's forms do to what is known.
LEMMA OthersKeep ==
    ASSUME LinkInv,
           \/ \E c \in Canvas : Linking!CanvasDrops(c)
           \/ Linking!MapCourse \/ Linking!BeginSync \/ Linking!RunEnds
           \/ \E rows \in Linking!Pages : Linking!Fetch(rows)
           \/ \E name \in Titles : Linking!RowIsRefused(name)
           \/ \E k \in Clicks :
               \/ \E g \in Gradescope, choice \in Linking!Existing \union {"separate"} :
                     Linking!OpenForm(k, g, choice)
               \/ Linking!Confirm(k) \/ Linking!Refuse(k)
           \/ UNCHANGED Linking!vars
    PROVE  LinkInv' /\ task' = task
<1> USE DEF Linking!tasks, Linking!seen, Linking!choices
<1>1. /\ UNCHANGED <<task, title, key, tool, named>> /\ confirmed \subseteq confirmed'
  BY DEF Linking!CanvasDrops, Linking!MapCourse, Linking!BeginSync, Linking!RunEnds, Linking!Fetch,
         Linking!RowIsRefused, Linking!OpenForm, Linking!Confirm, Linking!Refuse, Linking!vars
<1>2. LinkTypes' /\ TasksAreOwn' /\ ToolsAreNamed' /\ Linking!Existing' = Linking!Existing
  BY <1>1 DEF LinkInv, LinkTypes, TasksAreOwn, ToolsAreNamed, Linking!Existing
<1>3. Linking!JoinedOnPurpose'
  BY <1>1 DEF LinkInv, Linking!JoinedOnPurpose
<1>4. /\ Known(binding) => binding \in [Gradescope -> Linking!Existing' \union {"separate", None}]
                              /\ \A g \in Gradescope : binding[g] # None => <<g, binding[g]>> \in confirmed'
      /\ \A k \in Clicks : Known(form[k].saw) =>
            /\ form[k].saw \in [Gradescope -> Linking!Existing' \union {"separate", None}]
            /\ \A g \in Gradescope : form[k].saw[g] # None => <<g, form[k].saw[g]>> \in confirmed'
      /\ Known(run.bindings) =>
            /\ run.bindings \in [Gradescope -> Linking!Existing' \union {"separate", None}]
            /\ \A g \in Gradescope : run.bindings[g] # None => <<g, run.bindings[g]>> \in confirmed'
  BY <1>1, <1>2, KnownStays
<1>5. ChoicesAreKnown'
  <2>1. CASE UNCHANGED <<binding, form, run, confirmed>>
    BY <1>2, <2>1 DEF LinkInv, ChoicesAreKnown, Known
  <2>2. CASE Linking!BeginSync
    <3>1. run' = [pc |-> "fetching", bindings |-> binding, rows |-> <<>>]
      BY <2>2 DEF Linking!BeginSync, Linking!Idle
    <3> QED
      BY <1>2, <2>2, <3>1 DEF Linking!BeginSync, LinkInv, ChoicesAreKnown, Known
  <2>3. CASE Linking!RunEnds \/ \E name \in Titles : Linking!RowIsRefused(name)
    <3>1. run' = [pc |-> "idle", bindings |-> <<>>, rows |-> <<>>]
      BY <2>3 DEF Linking!RunEnds, Linking!RowIsRefused, Linking!Idle
    <3> QED
      BY <1>2, <2>3, <3>1 DEF Linking!RunEnds, Linking!RowIsRefused, LinkInv, ChoicesAreKnown, Known
  <2>4. ASSUME NEW rows \in Linking!Pages, Linking!Fetch(rows) PROVE ChoicesAreKnown'
    <3>1. rows \in Seq(Gradescope)
      <4>1. PICK shown \in SUBSET Gradescope : rows \in Linking!SetToSeqs(shown)
        BY DEF Linking!Pages
      <4>2. Linking!Cardinality(shown) = Cardinality(shown)
        BY Zenon DEF Linking!Cardinality, Cardinality
      <4>3. Cardinality(shown) \in Nat
        BY FS_Subset, FS_CardinalityType, LinkingAssumption
      <4>4. rows \in [1..Cardinality(shown) -> shown]
        BY <4>1, <4>2 DEF Linking!SetToSeqs
      <4>5. rows \in Seq(shown)
        BY <4>3, <4>4
      <4> QED
        BY <4>5
    <3>2. /\ run'.pc = "importing" /\ run'.bindings = run.bindings /\ run'.rows = rows
          /\ run' = [pc |-> run'.pc, bindings |-> run'.bindings, rows |-> run'.rows]
      BY <2>4 DEF Linking!Fetch, LinkInv, ChoicesAreKnown
    <3>3. run.pc = "fetching" /\ UNCHANGED <<binding, form, confirmed>>
      BY <2>4 DEF Linking!Fetch
    <3> QED
      BY <1>2, <3>1, <3>2, <3>3 DEF LinkInv, ChoicesAreKnown, Known
  <2>5. ASSUME NEW k \in Clicks, NEW g \in Gradescope, NEW choice,
               choice \in Linking!Existing \union {"separate"}, Linking!OpenForm(k, g, choice)
        PROVE  ChoicesAreKnown'
    <3>1. /\ form' = [form EXCEPT ![k] = [of |-> g, choice |-> choice, saw |-> binding]]
          /\ UNCHANGED <<binding, confirmed, run>>
      BY <2>5 DEF Linking!OpenForm
    <3> QED
      BY <1>2, <3>1 DEF LinkInv, ChoicesAreKnown, Known
  <2>6. ASSUME NEW k \in Clicks, Linking!Refuse(k) PROVE ChoicesAreKnown'
    <3>1. form' = [form EXCEPT ![k] = Linking!Used] /\ UNCHANGED <<binding, confirmed, run>>
      BY <2>6 DEF Linking!Refuse
    <3>2. Linking!Used.of = None
      BY DEF Linking!Used, Linking!Unopened
    <3> QED
      BY <1>2, <3>1, <3>2 DEF LinkInv, ChoicesAreKnown, Known
  <2>7. ASSUME NEW k \in Clicks, Linking!Confirm(k) PROVE ChoicesAreKnown'
    <3> DEFINE g == form[k].of
               choice == form[k].choice
    <3>1. /\ g \in Gradescope /\ Known(form[k].saw)
          /\ choice \in Linking!Existing \union {"separate"}
          /\ binding' = [form[k].saw EXCEPT ![g] = choice]
          /\ confirmed' = confirmed \union {<<g, choice>>}
          /\ form' = [form EXCEPT ![k] = Linking!Used] /\ UNCHANGED run
      BY <2>7 DEF Linking!Confirm, LinkInv, ChoicesAreKnown
    <3>2. Linking!Used.of = None
      BY DEF Linking!Used, Linking!Unopened
    <3>3. Known(binding)'
      BY <1>2, <3>1 DEF Known
    <3>4. Known(run.bindings) => Known(run.bindings)'
      BY <1>4, <3>1 DEF Known
    <3>5. \A l \in Clicks : form'[l].of # None => form'[l].of \in Gradescope /\ Known(form[l].saw)' 
                                                  /\ form'[l].saw = form[l].saw
      BY <1>4, <3>1, <3>2 DEF LinkInv, ChoicesAreKnown, Known
    <3> QED
      BY <3>1, <3>3, <3>4, <3>5 DEF LinkInv, ChoicesAreKnown, Known
  <2> QED
    BY <2>1, <2>2, <2>3, <2>4, <2>5, <2>6, <2>7
    DEF Linking!CanvasDrops, Linking!MapCourse, Linking!vars
<1> QED
  BY <1>1, <1>2, <1>3, <1>5 DEF LinkInv

(* Whoever joined the other's task was named, or the user said so; and work *)
(* that looks like a known task becomes another one only if the user says   *)
(* that it is separate (task_providers.py:12-108, task_engine.py:66-122).   *)
THEOREM LinksAreEarned == Linking!Spec => TitlesDecideNothing
<1>1. Linking!Init => LinkInv
  BY LinkingAssumption DEF Linking!Init, LinkInv, LinkTypes, TasksAreOwn, ToolsAreNamed, ChoicesAreKnown,
     Known, Linking!JoinedOnPurpose, Linking!Existing, Linking!Unopened, Linking!Idle
<1>2. LinkInv /\ [Linking!Next]_(Linking!vars) => LinkInv' /\ [Linking!SplitOnPurpose]_(Linking!vars)
  <2> SUFFICES ASSUME LinkInv, [Linking!Next]_(Linking!vars)
               PROVE  LinkInv' /\ [Linking!SplitOnPurpose]_(Linking!vars)
    OBVIOUS
  <2>1. ASSUME NEW c \in Canvas, NEW name \in Titles, NEW g \in Gradescope \union {None},
               Linking!CanvasRow(c, name, g)
        PROVE  LinkInv' /\ Linking!SplitOnPurpose
    <3>1. LinkInv' /\ \A h \in Gradescope : task'[h] = task[h]
      BY <2>1, CanvasJoins
    <3>2. None \notin Gradescope
      BY LinkingAssumption
    <3> QED
      BY <3>1, <3>2 DEF Linking!SplitOnPurpose
  <2>2. ASSUME NEW name \in Titles, Linking!GradescopeRow(name) PROVE LinkInv' /\ Linking!SplitOnPurpose
    BY <2>2, GradescopeJoins
  <2>3. task' = task => Linking!SplitOnPurpose
    BY LinkingAssumption DEF Linking!SplitOnPurpose
  <2> QED
    BY <2>1, <2>2, <2>3, OthersKeep DEF Linking!Next
<1>3. LinkInv => Linking!JoinedOnPurpose
  BY DEF LinkInv
<1> QED
  BY <1>1, <1>2, <1>3, PTL DEF Linking!Spec, TitlesDecideNothing, Linking!TitlesDecideNothing

-----------------------------------------------------------------------------
(* What the folds of the study calendar compute.                            *)

\* What fails for some number fails for a least one.
LEMMA LeastNumber ==
    ASSUME NEW T \in SUBSET Nat, T # {}
    PROVE  \E n \in T : \A m \in T : n <= m
<1>1. PICK n \in T : \A m \in T : ~ (<<m, n>> \in OpToRel(<, Nat))
  BY NatLessThanWellFounded, WFMin
<1>2. \A m \in T : ~ (m < n)
  BY <1>1 DEF OpToRel
<1> QED
  BY <1>2

\* Induction, about a set of numbers.
LEMMA CountingUp ==
    ASSUME NEW n \in Nat, NEW T, 0 \in T, \A k \in 1..n : k - 1 \in T => k \in T
    PROVE  \A k \in 0..n : k \in T
<1> DEFINE Others == {k \in 0..n : k \notin T}
<1> SUFFICES ASSUME Others # {} PROVE FALSE
  OBVIOUS
<1>1. PICK k \in Others : \A m \in Others : k <= m
  <2>1. Others \in SUBSET Nat
    OBVIOUS
  <2> HIDE DEF Others
  <2> QED
    BY <2>1, LeastNumber
<1>2. k \in 1..n /\ k - 1 \in 0..n /\ ~(k <= k - 1)
  BY <1>1
<1> QED
  BY <1>1, <1>2

IsFold(V, base, k, op, f) ==
    /\ f \in [SUBSET (1..k) -> V]
    /\ f = [s \in SUBSET (1..k) |->
              IF s = {} THEN base ELSE op[<<f[s \ {Calendar!Max(s)}], Calendar!Max(s)>>]]

\* A fold over 1..n has what its equation defines.
LEMMA FoldExists ==
    ASSUME NEW V, NEW base \in V, NEW n \in Nat, NEW op \in [V \X (1..n) -> V]
    PROVE  \E f : IsFold(V, base, n, op, f)
<1> DEFINE T == {k \in 0..n : \E f : IsFold(V, base, k, op, f)}
<1>1. 0 \in T
  <2>1. SUBSET (1..0) = {{}}
    OBVIOUS
  <2>2. IsFold(V, base, 0, op, [s \in SUBSET (1..0) |-> base])
    BY <2>1 DEF IsFold
  <2> QED
    BY <2>2
<1>2. ASSUME NEW k \in 1..n, k - 1 \in T PROVE k \in T
  <2>3. k - 1 \in 0..n /\ k \in 0..n
    OBVIOUS
  <2>4. PICK g : IsFold(V, base, k - 1, op, g)
    BY <1>2
  <2> DEFINE f == [s \in SUBSET (1..k) |-> IF k \in s THEN op[<<g[s \ {k}], k>>] ELSE g[s]]
  <2>5. ASSUME NEW s \in SUBSET (1..k), k \in s
        PROVE  s \ {k} \in SUBSET (1..(k - 1)) /\ Calendar!Max(s) = k
    <3>1. \A x \in s : k >= x
      BY <2>3
    <3>2. Calendar!Max(s) \in s /\ \A y \in s : Calendar!Max(s) >= y
      BY <2>5, <3>1 DEF Calendar!Max
    <3>3. Calendar!Max(s) \in 1..k /\ k >= Calendar!Max(s) /\ Calendar!Max(s) >= k
      BY <2>5, <3>1, <3>2
    <3> QED
      BY <2>3, <3>3
  <2>6. \A s \in SUBSET (1..k) : k \notin s => s \in SUBSET (1..(k - 1))
    BY <2>3
  <2>7. f \in [SUBSET (1..k) -> V]
    BY <2>3, <2>4, <2>5, <2>6 DEF IsFold
  <2>8. ASSUME NEW s \in SUBSET (1..k)
        PROVE  f[s] = IF s = {} THEN base ELSE op[<<f[s \ {Calendar!Max(s)}], Calendar!Max(s)>>]
    <3>1. CASE k \in s
      <4>1. s \ {k} \in SUBSET (1..k) /\ k \notin s \ {k} /\ f[s \ {k}] = g[s \ {k}]
        BY <2>5, <3>1
      <4> QED
        BY <2>5, <3>1, <4>1
    <3>2. CASE k \notin s
      <4>1. s \in SUBSET (1..(k - 1)) /\ f[s] = g[s]
        BY <2>6, <3>2
      <4>2. g[s] = IF s = {} THEN base ELSE op[<<g[s \ {Calendar!Max(s)}], Calendar!Max(s)>>]
        BY <2>4, <4>1 DEF IsFold
      <4>3. /\ s \ {Calendar!Max(s)} \in SUBSET (1..k)
            /\ f[s \ {Calendar!Max(s)}] = g[s \ {Calendar!Max(s)}]
        BY <3>2, <4>1
      <4> QED
        BY <4>1, <4>2, <4>3
    <3> QED
      BY <3>1, <3>2
  <2>9. IsFold(V, base, k, op, f)
    BY <2>7, <2>8 DEF IsFold
  <2> QED
    BY <2>3, <2>9
<1>3. n \in 0..n /\ n \in T
  <2> HIDE DEF T
  <2> QED
    BY <1>1, <1>2, CountingUp
<1> QED
  BY <1>3

LEMMA MaxIsIn ==
    ASSUME NEW n \in Nat, NEW s \in SUBSET (1..n), s # {}
    PROVE  Calendar!Max(s) \in s
<1> DEFINE Bounds == {b \in 0..n : \A x \in s : x <= b}
<1>1. Bounds # {} /\ Bounds \in SUBSET Nat
  BY n \in Bounds
<1>2. PICK b \in Bounds : \A c \in Bounds : b <= c
  BY <1>1, LeastNumber
<1>3. b \in s
  <2>1. SUFFICES ASSUME b \notin s PROVE FALSE
    OBVIOUS
  <2>2. PICK x \in s : x <= b
    BY <1>2
  <2>3. \A y \in s : y <= b - 1
    BY <1>2, <2>1
  <2>4. b - 1 \in Bounds
    BY <2>2, <2>3
  <2> QED
    BY <1>1, <1>2, <2>4
<1>4. b \in s /\ \A y \in s : b >= y
  BY <1>2, <1>3
<1> QED
  BY <1>4 DEF Calendar!Max

LEMMA MaxOfPrefix ==
    ASSUME NEW n \in Nat, NEW k \in 1..n
    PROVE  /\ Calendar!Max(1..k) = k /\ (1..k) \ {k} = 1..(k - 1)
           /\ 1..k # {} /\ 1..k \in SUBSET (1..n)
<1>1. k \in 1..k /\ \A y \in 1..k : k >= y
  OBVIOUS
<1>2. Calendar!Max(1..k) \in 1..k /\ \A y \in 1..k : Calendar!Max(1..k) >= y
  BY <1>1 DEF Calendar!Max
<1> QED
  BY <1>1, <1>2

Span == {i \in [start : Int, end : Int, class : BOOLEAN] : i.start < i.end}

LEMMA BeforeIsOrder ==
    ASSUME classFirst \in BOOLEAN
    PROVE  /\ \A i, j \in Span : i # j => (Calendar!Before(i, j) <=> ~Calendar!Before(j, i))
           /\ \A i \in Span : ~Calendar!Before(i, i)
           /\ \A i, j, k \in Span : Calendar!Before(i, j) /\ Calendar!Before(j, k) => Calendar!Before(i, k)
           /\ \A i, j \in Span : Calendar!Before(i, j) => i.start <= j.start
<1> USE DEF Span
<1>1. \A i, j \in Span : i.start = j.start /\ i.end = j.end /\ i.class = j.class => i = j
  OBVIOUS
<1>2. ASSUME NEW i \in Span, NEW j \in Span, i # j
      PROVE  Calendar!Before(i, j) <=> ~Calendar!Before(j, i)
  <2>1. CASE i.start # j.start \/ i.end # j.end
    BY <2>1 DEF Calendar!Before
  <2>2. CASE i.start = j.start /\ i.end = j.end
    <3>1. i.class # j.class /\ (i.class = classFirst <=> j.class # classFirst)
      BY <1>1, <1>2, <2>2
    <3> QED
      BY <2>2, <3>1 DEF Calendar!Before
  <2> QED
    BY <2>1, <2>2
<1>3. \A i, j, k \in Span : Calendar!Before(i, j) /\ Calendar!Before(j, k) => Calendar!Before(i, k)
  BY DEF Calendar!Before
<1> QED
  BY <1>2, <1>3 DEF Calendar!Before

LEMMA CardinalityIsOne == \A S : Calendar!Cardinality(S) = Cardinality(S)
  BY DEF Calendar!Cardinality, Cardinality

(* sorted() lists every interval, each after those that come before it.      *)
LEMMA InOrderIsSorted ==
    ASSUME NEW S \in SUBSET Span, IsFiniteSet(S), classFirst \in BOOLEAN
    PROVE  LET q == Calendar!InOrder(S)
               n == Cardinality(S)
           IN /\ n \in Nat /\ q \in [1..n -> S]
              /\ \A i \in S : \E k \in 1..n : q[k] = i
              /\ \A k, m \in 1..n : k < m => Calendar!Before(q[k], q[m])
<1> DEFINE n == Cardinality(S)
           Earlier(i) == {j \in S : Calendar!Before(j, i)}
           rank == [i \in S |-> Cardinality(Earlier(i))]
           q == Calendar!InOrder(S)
<1>1. n \in Nat
  BY FS_CardinalityType
<1> HIDE DEF n
<1>2. ASSUME NEW i \in S PROVE IsFiniteSet(Earlier(i)) /\ rank[i] \in 0..(n - 1)
  <2>1. Earlier(i) \in SUBSET S /\ i \in S \ Earlier(i)
    BY BeforeIsOrder
  <2>2. IsFiniteSet(Earlier(i)) /\ Cardinality(Earlier(i)) <= n /\ Cardinality(Earlier(i)) # n
    BY <2>1, FS_Subset DEF n
  <2>3. Cardinality(Earlier(i)) \in Nat
    BY <2>2, FS_CardinalityType
  <2> QED
    BY <1>1, <2>2, <2>3
<1>r. \A i \in S : rank[i] \in 0..(n - 1)
  BY <1>2
<1>n. Cardinality(S) = n /\ rank = [i \in S |-> Cardinality(Earlier(i))]
  BY DEF n, rank
<1> HIDE DEF rank
<1>3. ASSUME NEW i \in S, NEW j \in S, Calendar!Before(i, j)
      PROVE  rank[i] < rank[j]
  <2>1. Earlier(i) \in SUBSET Earlier(j) /\ i \in Earlier(j) \ Earlier(i)
    BY <1>3, BeforeIsOrder
  <2>2. Cardinality(Earlier(i)) <= Cardinality(Earlier(j)) /\ Cardinality(Earlier(i)) # Cardinality(Earlier(j))
    BY <1>2, <2>1, FS_Subset
  <2>3. rank[i] = Cardinality(Earlier(i)) /\ rank[j] = Cardinality(Earlier(j))
    BY <1>n
  <2>4. Cardinality(Earlier(i)) \in Nat /\ Cardinality(Earlier(j)) \in Nat
    BY <1>2, FS_CardinalityType
  <2> QED
    BY <2>2, <2>3, <2>4
<1>4. rank \in Injection(S, 0..(n - 1))
  <2>1. \A i, j \in S : rank[i] = rank[j] => i = j
    BY <1>1, <1>r, <1>3, BeforeIsOrder
  <2> QED
    BY <1>r, <1>n, <2>1 DEF Injection, IsInjective
<1>5. rank \in Surjection(S, 0..(n - 1))
  <2>1. 0 \in Int /\ n - 1 \in Int
    BY <1>1
  <2>2. IsFiniteSet(0..(n - 1)) /\ Cardinality(0..(n - 1)) = n
    BY <1>1, <2>1, FS_Interval
  <2> QED
    BY <1>4, <1>n, <2>2, FS_Injection
<1>q. q = [k \in 1..n |-> CHOOSE i \in S : Calendar!Cardinality({j \in S : Calendar!Before(j, i)}) = k - 1]
  <2>1. Calendar!Cardinality(S) = n
    BY <1>n, CardinalityIsOne
  <2> QED
    BY <2>1 DEF Calendar!InOrder
<1> HIDE DEF q
<1>6. ASSUME NEW k \in 1..n PROVE q[k] \in S /\ rank[q[k]] = k - 1
  <2>1. k - 1 \in 0..(n - 1)
    BY <1>1
  <2>2. \E i \in S : Calendar!Cardinality({j \in S : Calendar!Before(j, i)}) = k - 1
    BY <1>5, <1>n, <2>1, CardinalityIsOne DEF Surjection
  <2>3. q[k] = CHOOSE i \in S : Calendar!Cardinality({j \in S : Calendar!Before(j, i)}) = k - 1
    BY <1>q
  <2>4. q[k] \in S /\ Calendar!Cardinality(Earlier(q[k])) = k - 1
    BY <2>2, <2>3
  <2> QED
    BY <1>n, <2>4, CardinalityIsOne
<1>7. q \in [1..n -> S]
  BY <1>6, <1>q
<1>8. ASSUME NEW i \in S PROVE \E k \in 1..n : q[k] = i
  <2>1. rank[i] + 1 \in 1..n
    BY <1>1, <1>r
  <2>2. q[rank[i] + 1] \in S /\ rank[q[rank[i] + 1]] = rank[i]
    BY <1>1, <1>r, <1>6, <2>1
  <2> QED
    BY <1>4, <2>1, <2>2 DEF Injection, IsInjective
<1>9. ASSUME NEW k \in 1..n, NEW m \in 1..n, k < m PROVE Calendar!Before(q[k], q[m])
  <2>1. q[k] # q[m] /\ ~Calendar!Before(q[m], q[k])
    BY <1>1, <1>3, <1>6, <1>9
  <2> QED
    BY <1>6, <2>1, BeforeIsOrder
<1> QED
  BY <1>1, <1>7, <1>8, <1>9 DEF n, q

LEMMA MaxMin ==
    ASSUME NEW a \in Int, NEW b \in Int
    PROVE  /\ Calendar!Max({a, b}) = IF a >= b THEN a ELSE b
           /\ Calendar!Min({a, b}) = IF a <= b THEN a ELSE b
<1>1. \E x \in {a, b} : \A y \in {a, b} : x >= y
  OBVIOUS
<1>2. \E x \in {a, b} : \A y \in {a, b} : x <= y
  OBVIOUS
<1>3. Calendar!Max({a, b}) \in {a, b} /\ \A y \in {a, b} : Calendar!Max({a, b}) >= y
  BY <1>1 DEF Calendar!Max
<1>4. Calendar!Min({a, b}) \in {a, b} /\ \A y \in {a, b} : Calendar!Min({a, b}) <= y
  BY <1>2 DEF Calendar!Min
<1> QED
  BY <1>3, <1>4

\* An interval joins the last block if it touches it, or a short gap parts two classes.
Joins(last, i) ==
    i.start <= last.end \/ (last.class /\ i.class /\ i.start - last.end < Calendar!Gap)
Later(a, b) == IF a >= b THEN a ELSE b

LEMMA JoinEffect ==
    ASSUME NEW m \in Seq(Span), NEW i \in Span
    PROVE  LET last == m[Len(m)]
               wide == [start |-> last.start, end |-> Later(last.end, i.end), class |-> last.class /\ i.class]
           IN /\ Calendar!Join(m, i) \in Seq(Span)
              /\ m = <<>> => Calendar!Join(m, i) = <<i>>
              /\ m # <<>> =>
                   /\ last \in Span /\ Len(m) \in 1..Len(m)
                   /\ Joins(last, i) => wide \in Span /\ Calendar!Join(m, i) = [m EXCEPT ![Len(m)] = wide]
                   /\ ~Joins(last, i) => Calendar!Join(m, i) = Append(m, i)
<1> DEFINE last == m[Len(m)]
           wide == [start |-> last.start, end |-> Later(last.end, i.end), class |-> last.class /\ i.class]
<1>1. CASE m = <<>>
  BY <1>1 DEF Calendar!Join
<1>2. CASE m # <<>>
  <2>1. Len(m) \in 1..Len(m) /\ last \in Span
    BY <1>2
  <2>2. Calendar!Max({last.end, i.end}) = Later(last.end, i.end)
    BY <2>1, MaxMin DEF Span, Later
  <2>3. Joins(last, i) => wide \in Span
    BY <2>1 DEF Span, Later, Joins
  <2>4. Joins(last, i) => Calendar!Join(m, i) = [m EXCEPT ![Len(m)] = wide]
    BY <1>2, <2>2 DEF Calendar!Join, Joins, Calendar!Interval
  <2>5. ~Joins(last, i) => Calendar!Join(m, i) = Append(m, i)
    BY <1>2 DEF Calendar!Join, Joins
  <2> HIDE DEF wide
  <2>6. Calendar!Join(m, i) \in Seq(Span)
    BY <2>1, <2>3, <2>4, <2>5
  <2> QED
    BY <1>2, <2>1, <2>3, <2>4, <2>5, <2>6 DEF wide
<1> QED
  BY <1>1, <1>2

\* merge_busy takes the intervals one by one.
LEMMA MergeIsFold ==
    ASSUME NEW n \in Nat, NEW q \in [1..n -> Span]
    PROVE  \E acc \in [0..n -> Seq(Span)] :
              /\ acc[0] = <<>>
              /\ \A k \in 1..n : acc[k] = Calendar!Join(acc[k - 1], q[k])
              /\ Calendar!FoldLeft(Calendar!Join, <<>>, q) = acc[n]
<1> DEFINE Body(f) == [s \in SUBSET (1..n) |->
                         IF s = {} THEN <<>>
                         ELSE Calendar!Join(f[s \ {Calendar!Max(s)}], q[Calendar!Max(s)])]
           iter == CHOOSE f : f = Body(f)
           op == [p \in Seq(Span) \X (1..n) |-> Calendar!Join(p[1], q[p[2]])]
           acc == [k \in 0..n |-> iter[1..k]]
<1>1. Calendar!FoldLeft(Calendar!Join, <<>>, q) = iter[1..n]
  BY DEF Calendar!FoldLeft, Calendar!MapThenFoldSet
<1>2. \E f : f = Body(f)
  <2>1. op \in [Seq(Span) \X (1..n) -> Seq(Span)]
    BY JoinEffect
  <2>2. PICK f : IsFold(Seq(Span), <<>>, n, op, f)
    <3>1. <<>> \in Seq(Span)
      OBVIOUS
    <3> HIDE DEF op
    <3> QED
      BY <2>1, <3>1, FoldExists
  <2>3. ASSUME NEW s \in SUBSET (1..n), s # {} PROVE Calendar!Max(s) \in 1..n
    BY <2>3, MaxIsIn
  <2>4. ASSUME NEW s \in SUBSET (1..n), s # {}
        PROVE  op[<<f[s \ {Calendar!Max(s)}], Calendar!Max(s)>>]
                 = Calendar!Join(f[s \ {Calendar!Max(s)}], q[Calendar!Max(s)])
    BY <2>2, <2>3, <2>4 DEF IsFold
  <2>5. f = Body(f)
    <3> HIDE DEF op
    <3> QED
      BY <2>2, <2>4 DEF IsFold
  <2> QED
    BY <2>5
<1>3. iter = Body(iter)
  BY <1>2
<1> HIDE DEF iter
<1>4. acc[0] = <<>>
  <2>1. 1..0 = {} /\ 0 \in 0..n
    OBVIOUS
  <2>2. iter[{}] = <<>>
    BY <1>3
  <2> QED
    BY <2>1, <2>2
<1>5. ASSUME NEW k \in 1..n PROVE acc[k] = Calendar!Join(acc[k - 1], q[k])
  <2>1. Calendar!Max(1..k) = k /\ (1..k) \ {k} = 1..(k - 1) /\ 1..k # {} /\ 1..k \in SUBSET (1..n)
    BY MaxOfPrefix
  <2>2. iter[1..k] = Calendar!Join(iter[1..(k - 1)], q[k])
    BY <1>3, <2>1
  <2> QED
    BY <2>2
<1> DEFINE T == {k \in 0..n : acc[k] \in Seq(Span)}
<1>6. \A k \in 0..n : k \in T
  <2>1. <<>> \in Seq(Span) /\ 0 \in 0..n
    OBVIOUS
  <2>0. 0 \in T
    BY <1>4, <2>1
  <2>2. \A k \in 1..n : k - 1 \in T => k \in T
    BY <1>5, JoinEffect
  <2> HIDE DEF T
  <2> QED
    BY <2>0, <2>2, CountingUp
<1>7. acc \in [0..n -> Seq(Span)]
  BY <1>6
<1>8. Calendar!FoldLeft(Calendar!Join, <<>>, q) = acc[n]
  BY <1>1
<1> HIDE DEF acc
<1> QED
  BY <1>4, <1>5, <1>7, <1>8

Covers(m, c) == \E x \in 1..Len(m) : m[x].start <= c /\ c < m[x].end
LastOf(m) == m[Len(m)]

\* What a join adds: the interval and, if it bridges a short gap, the gap.
LEMMA JoinCovers ==
    ASSUME NEW m \in Seq(Span), m # <<>>, NEW i \in Span, LastOf(m).start <= i.start
    PROVE  LET last == LastOf(m)
               joined == Calendar!Join(m, i)
           IN /\ joined \in Seq(Span) /\ joined # <<>>
              /\ LastOf(joined).start <= i.start
              /\ LastOf(joined).end = Later(last.end, i.end)
              /\ LastOf(joined).class = IF Joins(last, i) THEN last.class /\ i.class ELSE i.class
              /\ \A c \in Int : Covers(joined, c) <=> \/ Covers(m, c)
                                                      \/ i.start <= c /\ c < i.end
                                                      \/ Joins(last, i) /\ last.end <= c /\ c < i.start
<1> DEFINE last == LastOf(m)
           joined == Calendar!Join(m, i)
           wide == [start |-> last.start, end |-> Later(last.end, i.end), class |-> last.class /\ i.class]
<1>1. /\ joined \in Seq(Span) /\ last \in Span /\ Len(m) \in 1..Len(m)
      /\ Joins(last, i) => wide \in Span /\ joined = [m EXCEPT ![Len(m)] = wide]
      /\ ~Joins(last, i) => joined = Append(m, i)
  BY JoinEffect DEF LastOf
<1>2. CASE Joins(last, i)
  <2> HIDE DEF joined, wide
  <2>1. /\ Len(joined) = Len(m) /\ LastOf(joined) = wide
        /\ \A x \in 1..Len(m) : joined[x] = IF x = Len(m) THEN wide ELSE m[x]
    BY <1>1, <1>2 DEF LastOf
  <2>2. ASSUME NEW c \in Int
        PROVE  Covers(joined, c) <=> \/ Covers(m, c)
                                     \/ i.start <= c /\ c < i.end
                                     \/ Joins(last, i) /\ last.end <= c /\ c < i.start
    <3>1. Covers(joined, c) <=> \/ \E x \in 1..Len(m) : x # Len(m) /\ m[x].start <= c /\ c < m[x].end
                                \/ wide.start <= c /\ c < wide.end
      BY <1>1, <2>1 DEF Covers
    <3>2. Covers(m, c) <=> \/ \E x \in 1..Len(m) : x # Len(m) /\ m[x].start <= c /\ c < m[x].end
                           \/ last.start <= c /\ c < last.end
      BY <1>1 DEF Covers, LastOf
    <3>3. wide.start <= c /\ c < wide.end <=> \/ last.start <= c /\ c < last.end
                                              \/ i.start <= c /\ c < i.end
                                              \/ last.end <= c /\ c < i.start
      BY <1>1 DEF wide, Later, Span
    <3> QED
      BY <1>2, <3>1, <3>2, <3>3
  <2>3. joined # <<>>
    BY <1>1, <2>1
  <2>4. LastOf(joined).start <= i.start /\ LastOf(joined).end = Later(last.end, i.end)
        /\ LastOf(joined).class = (last.class /\ i.class)
    BY <1>1, <2>1 DEF wide
  <2> QED
    BY <1>1, <1>2, <2>2, <2>3, <2>4 DEF joined
<1>3. CASE ~Joins(last, i)
  <2> HIDE DEF joined, wide
  <2>1. /\ Len(joined) = Len(m) + 1 /\ LastOf(joined) = i
        /\ \A x \in 1..Len(m) : joined[x] = m[x]
        /\ joined[Len(m) + 1] = i
    BY <1>1, <1>3 DEF LastOf
  <2>2. ASSUME NEW c \in Int
        PROVE  Covers(joined, c) <=> Covers(m, c) \/ (i.start <= c /\ c < i.end)
    BY <1>1, <2>1 DEF Covers
  <2>3. Later(last.end, i.end) = i.end
    BY <1>1, <1>3 DEF Joins, Later, Span
  <2>4. joined # <<>>
    BY <1>1, <2>1
  <2>5. i.start <= i.start
    BY DEF Span
  <2> QED
    BY <1>1, <1>3, <2>1, <2>2, <2>3, <2>4, <2>5 DEF joined
<1> QED
  BY <1>2, <1>3

(* The state of merge_busy after k intervals: its last block ends where the *)
(* last of them does and is a class if all of them are that lie in the run  *)
(* without gaps before that end; and it has covered these intervals and the *)
(* gaps it bridged.                                                         *)
Within(q, k, c) == \E x \in 1..k : q[x].start <= c /\ c < q[x].end
Run(q, k, r, e) ==
    /\ \E x \in 1..k : q[x].start = r
    /\ r < e /\ (\A d \in r..(e - 1) : Within(q, k, d)) /\ ~Within(q, k, r - 1)
Gapped(acc, q, k, c) ==
    Joins(LastOf(acc[k - 1]), q[k]) /\ LastOf(acc[k - 1]).end <= c /\ c < q[k].start
Merged(acc, q, k) ==
    LET last == LastOf(acc[k])
    IN /\ acc[k] # <<>> /\ last.start <= q[k].start
       /\ \A x \in 1..k : q[x].end <= last.end
       /\ \E x \in 1..k : q[x].end = last.end
       /\ \E r \in Int : /\ Run(q, k, r, last.end) /\ r <= q[k].start
                         /\ last.class <=> \A x \in 1..k : q[x].end >= r => q[x].class
       /\ \A c \in Int : Covers(acc[k], c) <=> Within(q, k, c) \/ \E x \in 2..k : Gapped(acc, q, x, c)
Merging(n, q, acc) ==
    /\ n \in Nat /\ q \in [1..n -> Span] /\ acc \in [0..n -> Seq(Span)] /\ acc[0] = <<>>
    /\ \A x, y \in 1..n : x < y => q[x].start <= q[y].start
    /\ \A k \in 1..n : acc[k] = Calendar!Join(acc[k - 1], q[k])

LEMMA MergeBegins ==
    ASSUME NEW n, NEW q, NEW acc, Merging(n, q, acc), 1 \in 1..n
    PROVE  Merged(acc, q, 1)
<1>1. acc[1] = <<q[1]>> /\ q[1] \in Span
  <2>1. acc[1] = Calendar!Join(<<>>, q[1]) /\ q[1] \in Span /\ <<>> \in Seq(Span)
    BY DEF Merging
  <2> QED
    BY <2>1, JoinEffect
<1>2. LastOf(acc[1]) = q[1] /\ acc[1] # <<>> /\ Len(acc[1]) = 1 /\ acc[1][1] = q[1]
  BY <1>1 DEF LastOf
<1>3. \A c \in Int : Within(q, 1, c) <=> q[1].start <= c /\ c < q[1].end
  BY DEF Within
<1>4. \A c \in Int : Covers(acc[1], c) <=> Within(q, 1, c)
  BY <1>2, <1>3 DEF Covers
<1>5. Run(q, 1, q[1].start, q[1].end) /\ q[1].start \in Int
  BY <1>1, <1>3 DEF Run, Span
<1>6. q[1].end >= q[1].start
  BY <1>1 DEF Span
<1> QED
  BY <1>1, <1>2, <1>4, <1>5, <1>6 DEF Merged, Span

LEMMA MergeGoesOn ==
    ASSUME NEW n, NEW q, NEW acc, Merging(n, q, acc), NEW k \in 1..n, k + 1 \in 1..n, Merged(acc, q, k)
    PROVE  Merged(acc, q, k + 1)
<1> DEFINE i == q[k + 1]
           last == LastOf(acc[k])
           next == LastOf(acc[k + 1])
<1>1. /\ n \in Nat /\ k \in Nat /\ acc[k] \in Seq(Span) /\ acc[k] # <<>> /\ last \in Span
      /\ \A x \in 1..(k + 1) : q[x] \in Span /\ q[x].start <= i.start
      /\ acc[k + 1] = Calendar!Join(acc[k], i)
  <2>1. acc[k] \in Seq(Span) /\ acc[k] # <<>>
    BY DEF Merging, Merged
  <2>2. n \in Nat /\ k \in Nat /\ \A x \in 1..(k + 1) : x \in 1..n /\ (x = k + 1 \/ x < k + 1)
    <3>1. n \in Nat
      BY DEF Merging
    <3> QED
      BY <3>1
  <2>3. \A x \in 1..n : q[x] \in Span
    BY DEF Merging
  <2>4. i.start \in Int
    BY <2>3 DEF Span
  <2>5. \A x \in 1..(k + 1) : q[x].start <= i.start
    <3>1. \A x, y \in 1..n : x < y => q[x].start <= q[y].start
      BY DEF Merging
    <3>2. ASSUME NEW x \in 1..(k + 1) PROVE q[x].start <= i.start
      BY <2>2, <2>4, <3>1
    <3> QED
      BY <3>2
  <2>6. acc[k + 1] = Calendar!Join(acc[(k + 1) - 1], i) /\ (k + 1) - 1 = k
    BY <2>2 DEF Merging
  <2>7. last \in Span
    BY <2>1 DEF LastOf
  <2> HIDE DEF i, last
  <2> QED
    BY <2>1, <2>2, <2>3, <2>5, <2>6, <2>7
<1>2. last.start <= i.start
  BY <1>1 DEF Merged, Span
<1>3. /\ acc[k + 1] # <<>> /\ next.start <= i.start /\ next.end = Later(last.end, i.end)
      /\ next.class = IF Joins(last, i) THEN last.class /\ i.class ELSE i.class
      /\ next \in Span
      /\ \A c \in Int : Covers(acc[k + 1], c) <=> \/ Covers(acc[k], c)
                                                  \/ i.start <= c /\ c < i.end
                                                  \/ Joins(last, i) /\ last.end <= c /\ c < i.start
  <2>1. i \in Span
    BY <1>1
  <2> QED
    BY <1>1, <1>2, <2>1, JoinCovers DEF LastOf
<1> HIDE DEF last, next, i
<1>4. \A c \in Int : Within(q, k + 1, c) <=> Within(q, k, c) \/ (i.start <= c /\ c < i.end)
  BY <1>1 DEF Within, i
<1>5. \A x \in 1..(k + 1) : q[x].end <= next.end
  <2>1. \A x \in 1..k : q[x].end <= last.end
    BY DEF Merged, last
  <2>2. q[k + 1] = i /\ \A x \in 1..(k + 1) : x = k + 1 \/ x \in 1..k
    BY <1>1 DEF i
  <2>3. \A x \in 1..(k + 1) : q[x].end \in Int
    BY <1>1 DEF Span
  <2>4. last.end <= next.end /\ i.end <= next.end
    BY <1>1, <1>3, <2>2, <2>3 DEF Later, Span
  <2> QED
    BY <1>1, <1>3, <2>1, <2>2, <2>3, <2>4 DEF Span
<1>6. \E x \in 1..(k + 1) : q[x].end = next.end
  <2>1. \E x \in 1..k : q[x].end = last.end
    BY DEF Merged, last
  <2> QED
    BY <1>1, <1>3, <2>1 DEF Later, i
<1>7. \A c \in Int : Covers(acc[k + 1], c) <=> \/ Within(q, k + 1, c)
                                               \/ \E x \in 2..(k + 1) : Gapped(acc, q, x, c)
  <2>1. \A c \in Int : Covers(acc[k], c) <=> Within(q, k, c) \/ \E x \in 2..k : Gapped(acc, q, x, c)
    BY DEF Merged
  <2>2. \A c \in Int : Gapped(acc, q, k + 1, c) <=> Joins(last, i) /\ last.end <= c /\ c < i.start
    BY <1>1 DEF Gapped, last, i
  <2>3. \A x \in 2..(k + 1) : x \in 2..k \/ x = k + 1
    BY <1>1
  <2>4. k + 1 \in 2..(k + 1) /\ \A x \in 2..k : x \in 2..(k + 1)
    BY <1>1
  <2> QED
    BY <1>3, <1>4, <2>1, <2>2, <2>3, <2>4
<1>8. \E r \in Int : /\ Run(q, k + 1, r, next.end) /\ r <= i.start
                     /\ next.class <=> \A x \in 1..(k + 1) : q[x].end >= r => q[x].class
  <2>1. PICK r \in Int : /\ Run(q, k, r, last.end) /\ r <= q[k].start
                         /\ last.class <=> \A x \in 1..k : q[x].end >= r => q[x].class
    BY DEF Merged, last
  <2>2. i \in Span /\ q[k] \in Span /\ q[k].start <= i.start /\ r <= i.start /\ i = q[k + 1]
    BY <1>1, <2>1 DEF Span, i
  <2>3. \A x \in 1..(k + 1) : x \in 1..k \/ x = k + 1
    BY <1>1
  <2>4. \A x \in 1..k : q[x].end <= last.end /\ q[x].end \in Int
    BY <1>1 DEF Merged, last, Span
  <2>5. CASE i.start <= last.end
    <3>1. \A d \in r..(next.end - 1) : Within(q, k + 1, d)
      <4>1. ASSUME NEW d \in r..(next.end - 1) PROVE Within(q, k, d) \/ (i.start <= d /\ d < i.end)
        <5>1. last.end \in Int /\ next.end \in Int /\ i.start \in Int /\ i.end \in Int /\ d \in Int
              /\ r <= d /\ d < next.end /\ (next.end = last.end \/ next.end = i.end)
          BY <1>1, <1>3, <2>2 DEF Span, Later
        <5>2. d < last.end => d \in r..(last.end - 1)
          BY <5>1
        <5> QED
          BY <2>1, <2>5, <5>1, <5>2 DEF Run
      <4> QED
        BY <1>4, <4>1
    <3>2. ~Within(q, k + 1, r - 1)
      BY <1>4, <2>1, <2>2 DEF Run, Span
    <3>3. r < next.end /\ \E x \in 1..(k + 1) : q[x].start = r
      <4>1. r < next.end
        BY <1>1, <1>3, <2>1, <2>2 DEF Run, Later, Span
      <4>2. \E x \in 1..k : q[x].start = r
        BY <2>1 DEF Run
      <4> QED
        BY <1>1, <4>1, <4>2
    <3>4. next.class = (last.class /\ i.class) /\ i.end >= r
      BY <1>3, <2>2, <2>5 DEF Joins, Span
    <3>5. next.class <=> \A x \in 1..(k + 1) : q[x].end >= r => q[x].class
      BY <1>1, <2>1, <2>2, <2>3, <3>4 DEF Span
    <3> QED
      BY <2>2, <3>1, <3>2, <3>3, <3>5 DEF Run
  <2>6. CASE ~(i.start <= last.end)
    <3>1. next.end = i.end /\ i.start > last.end
      BY <1>1, <1>3, <2>2, <2>6 DEF Later, Span
    <3>2. \A d \in i.start..(i.end - 1) : Within(q, k + 1, d)
      BY <1>4, <2>2 DEF Span
    <3>3. ~Within(q, k + 1, i.start - 1)
      <4>1. ~Within(q, k, i.start - 1)
        BY <1>1, <2>2, <2>4, <3>1 DEF Within, Span
      <4> QED
        BY <1>4, <2>2, <4>1 DEF Span
    <3>4. next.class = i.class
      BY <1>1, <1>3, <2>2, <2>6 DEF Joins, Span
    <3>5. \A x \in 1..k : ~(q[x].end >= i.start)
      BY <1>1, <2>2, <2>4, <3>1 DEF Span
    <3>6. next.class <=> \A x \in 1..(k + 1) : q[x].end >= i.start => q[x].class
      BY <1>1, <2>2, <2>3, <3>4, <3>5 DEF Span
    <3>7. Run(q, k + 1, i.start, next.end) /\ i.start \in Int /\ i.start <= i.start
      BY <1>1, <2>2, <3>1, <3>2, <3>3 DEF Run, Span
    <3> QED
      BY <3>6, <3>7
  <2> QED
    BY <2>5, <2>6
<1> QED
  BY <1>3, <1>5, <1>6, <1>7, <1>8 DEF Merged, next, i

LEMMA MergeHolds ==
    ASSUME NEW n, NEW q, NEW acc, Merging(n, q, acc)
    PROVE  \A k \in 1..n : Merged(acc, q, k)
<1> DEFINE T == {k \in 0..n : k = 0 \/ Merged(acc, q, k)}
<1>1. n \in Nat
  BY DEF Merging
<1>2. 0 \in T
  BY <1>1
<1>3. ASSUME NEW k \in 1..n, k - 1 \in T PROVE k \in T
  <2>1. CASE k = 1
    BY <2>1, MergeBegins
  <2>2. CASE k # 1
    <3>1. k - 1 \in 1..n /\ (k - 1) + 1 = k /\ Merged(acc, q, k - 1)
      BY <1>1, <1>3, <2>2
    <3> QED
      BY <1>1, <3>1, MergeGoesOn
  <2> QED
    BY <2>1, <2>2
<1>4. \A k \in 0..n : k \in T
  <2> HIDE DEF T
  <2> QED
    BY <1>1, <1>2, <1>3, CountingUp
<1> QED
  BY <1>1, <1>4

Listing(S, n, q) ==
    /\ S \in SUBSET Span /\ \A i \in S : \E x \in 1..n : q[x] = i
    /\ \A x \in 1..n : q[x] \in S
    /\ \A x, y \in 1..n : x < y => Calendar!Before(q[x], q[y])

LEMMA TakenMeans ==
    ASSUME NEW S \in SUBSET Span, NEW c \in Int
    PROVE  c \in Calendar!Taken(S) <=> \E i \in S : i.start <= c /\ c < i.end
<1>1. \A i \in S : c \in Calendar!Slot(i) <=> i.start <= c /\ c < i.end
  BY DEF Span, Calendar!Slot
<1> QED
  BY <1>1 DEF Calendar!Taken

LEMMA BridgedMeans ==
    ASSUME NEW S \in SUBSET Span, NEW c \in Int
    PROVE  c \in Calendar!Bridged(S) <=>
              \E first \in {i.end : i \in S}, next \in Int :
                  /\ first <= c /\ c < next /\ next - first < Calendar!Gap
                  /\ first - 1 \in Calendar!Taken(S) /\ next \in Calendar!Taken(S)
                  /\ \A d \in first..(next - 1) : d \notin Calendar!Taken(S)
                  /\ ~Calendar!Mixed(S, Calendar!RunBefore(S, first), first)
                  /\ Calendar!BeginsWithClass(S, next)
<1> DEFINE Short(first, next) ==
              /\ first - 1 \in Calendar!Taken(S) /\ next \in Calendar!Taken(S)
              /\ first..(next - 1) \cap Calendar!Taken(S) = {}
              /\ ~Calendar!Mixed(S, Calendar!RunBefore(S, first), first)
              /\ Calendar!BeginsWithClass(S, next)
           Ends == {i.end : i \in S}
<1>1. \A first \in Ends : first \in Int
  BY DEF Span
<1>2. c \in Calendar!Bridged(S) <=>
         \E g \in Ends \X (1..Calendar!Gap - 1) : Short(g[1], g[1] + g[2]) /\ c \in g[1]..(g[1] + g[2] - 1)
  BY DEF Calendar!Bridged
<1> HIDE DEF Short, Ends
<1>3. (\E g \in Ends \X (1..Calendar!Gap - 1) : Short(g[1], g[1] + g[2]) /\ c \in g[1]..(g[1] + g[2] - 1))
      <=> \E first \in Ends, next \in Int : /\ first <= c /\ c < next /\ next - first < Calendar!Gap
                                            /\ Short(first, next)
  <2>1. ASSUME NEW g \in Ends \X (1..Calendar!Gap - 1), Short(g[1], g[1] + g[2]), c \in g[1]..(g[1] + g[2] - 1)
        PROVE  \E first \in Ends, next \in Int : /\ first <= c /\ c < next /\ next - first < Calendar!Gap
                                                 /\ Short(first, next)
    <3>1. g[1] \in Ends /\ g[1] \in Int /\ g[2] \in 1..(Calendar!Gap - 1) /\ g[1] + g[2] \in Int
      BY <1>1 DEF Calendar!Gap
    <3>2. g[1] <= c /\ c < g[1] + g[2] /\ (g[1] + g[2]) - g[1] < Calendar!Gap
      BY <2>1, <3>1 DEF Calendar!Gap
    <3> QED
      BY <2>1, <3>1, <3>2
  <2>2. ASSUME NEW first \in Ends, NEW next \in Int, first <= c, c < next, next - first < Calendar!Gap,
               Short(first, next)
        PROVE  \E g \in Ends \X (1..Calendar!Gap - 1) : Short(g[1], g[1] + g[2]) /\ c \in g[1]..(g[1] + g[2] - 1)
    <3>1. /\ next - first \in 1..(Calendar!Gap - 1) /\ first + (next - first) = next /\ first \in Int
          /\ c \in first..(first + (next - first) - 1)
      BY <1>1, <2>2 DEF Calendar!Gap
    <3>2. <<first, next - first>> \in Ends \X (1..Calendar!Gap - 1)
      BY <3>1
    <3> QED
      BY <2>2, <3>1, <3>2
  <2> QED
    BY <2>1, <2>2
<1>4. \A first \in Ends, next \in Int :
         (first..(next - 1) \cap Calendar!Taken(S) = {})
           <=> \A d \in first..(next - 1) : d \notin Calendar!Taken(S)
  OBVIOUS
<1> QED
  BY <1>2, <1>3, <1>4 DEF Short, Ends

(* At a gap that no interval fills, the last block is a class exactly if    *)
(* nothing but classes lies in the run before the gap.                      *)
LEMMA RunsAgree ==
    ASSUME NEW S, NEW n, NEW q, NEW acc, Merging(n, q, acc), Listing(S, n, q),
           NEW j \in 2..n, LastOf(acc[j - 1]).end < q[j].start
    PROVE  LET first == LastOf(acc[j - 1]).end
           IN /\ first \in Int /\ \E x \in 1..(j - 1) : q[x].end = first
              /\ \A x \in 1..(j - 1) : q[x].end <= first
              /\ \A x \in j..n : q[x].start >= q[j].start
              /\ ~Calendar!Mixed(S, Calendar!RunBefore(S, first), first) <=> LastOf(acc[j - 1]).class
<1> DEFINE last == LastOf(acc[j - 1])
           first == last.end
<1>0. /\ n \in Nat /\ j - 1 \in 1..n /\ j \in 1..n /\ S \in SUBSET Span
      /\ \A x \in 1..(j - 1) : x \in 1..n
      /\ \A x \in j..n : x \in 1..n /\ (x = j \/ j < x)
      /\ \A x \in 1..n : x \in 1..(j - 1) \/ x \in j..n
  <2>1. n \in Nat
    BY DEF Merging
  <2>2. S \in SUBSET Span
    BY DEF Listing
  <2> QED
    BY <2>1, <2>2
<1>1. \A x \in 1..n : q[x] \in Span /\ q[x] \in S
  BY DEF Merging, Listing
<1>2. Merged(acc, q, j - 1)
  BY <1>0, MergeHolds
<1>3. \A x \in 1..(j - 1) : q[x].end <= first
  BY <1>2 DEF Merged
<1>4. PICK z \in 1..(j - 1) : q[z].end = first
  BY <1>2 DEF Merged
<1>5. first \in Int
  BY <1>0, <1>1, <1>4 DEF Span
<1>6. ASSUME NEW x \in j..n PROVE q[x].start >= q[j].start
  <2>1. x \in 1..n /\ (x = j \/ j < x) /\ q[j].start \in Int
    BY <1>0, <1>1 DEF Span
  <2>2. \A y \in 1..n : j < y => q[j].start <= q[y].start
    BY <1>0 DEF Merging
  <2>3. q[x].start \in Int
    BY <1>1, <2>1 DEF Span
  <2> QED
    BY <2>1, <2>2, <2>3
<1>7. PICK r \in Int : /\ Run(q, j - 1, r, first)
                       /\ last.class <=> \A x \in 1..(j - 1) : q[x].end >= r => q[x].class
  BY <1>2 DEF Merged
<1> HIDE DEF first, last
<1>h. first < q[j].start
  BY DEF first, last
<1>8. ASSUME NEW d \in Int, d <= first PROVE d \in Calendar!Taken(S) <=> Within(q, j - 1, d)
  <2>1. d \in Calendar!Taken(S) <=> \E i \in S : i.start <= d /\ d < i.end
    BY <1>0, TakenMeans
  <2>2. (\E i \in S : i.start <= d /\ d < i.end) <=> \E x \in 1..n : q[x].start <= d /\ d < q[x].end
    BY <1>1 DEF Listing
  <2>3. \A x \in j..n : ~(q[x].start <= d)
    BY <1>0, <1>1, <1>5, <1>6, <1>8, <1>h DEF Span
  <2>4. (\E x \in 1..n : q[x].start <= d /\ d < q[x].end) <=> Within(q, j - 1, d)
    BY <1>0, <2>3 DEF Within
  <2> QED
    BY <2>1, <2>2, <2>4
<1> DEFINE IsRun(s) == s < first /\ (\A d \in s..(first - 1) : d \in Calendar!Taken(S)) /\ s - 1 \notin Calendar!Taken(S)
<1>9. r \in {i.start : i \in S} /\ IsRun(r)
  <2>1. r \in {i.start : i \in S}
    BY <1>0, <1>1, <1>7 DEF Run
  <2>2. r < first /\ (\A d \in r..(first - 1) : Within(q, j - 1, d)) /\ ~Within(q, j - 1, r - 1)
    BY <1>7 DEF Run
  <2>3. r - 1 \in Int /\ r - 1 <= first /\ \A d \in r..(first - 1) : d \in Int /\ d <= first
    BY <1>5, <2>2
  <2> QED
    BY <1>8, <2>1, <2>2, <2>3
<1>10. ASSUME NEW s \in Int, IsRun(s) PROVE s = r
  <2>1. CASE s < r
    <3>1. r - 1 \in s..(first - 1)
      BY <1>5, <1>9, <2>1
    <3> QED
      BY <1>9, <1>10, <3>1
  <2>2. CASE r < s
    <3>1. s - 1 \in r..(first - 1)
      BY <1>5, <1>10, <2>2
    <3> QED
      BY <1>9, <1>10, <3>1
  <2> QED
    BY <2>1, <2>2
<1>11. Calendar!RunBefore(S, first) = r
  <2>1. Calendar!RunBefore(S, first) = CHOOSE s \in {i.start : i \in S} : IsRun(s)
    BY DEF Calendar!RunBefore
  <2>2. \A s \in {i.start : i \in S} : s \in Int
    BY <1>0 DEF Span
  <2> HIDE DEF IsRun
  <2>3. Calendar!RunBefore(S, first) \in {i.start : i \in S} /\ IsRun(Calendar!RunBefore(S, first))
    BY <1>9, <2>1
  <2> QED
    BY <1>10, <2>2, <2>3
<1>12. ~Calendar!Mixed(S, r, first) <=> last.class
  <2>1. ASSUME last.class, NEW i \in S, i.start <= first, i.end >= r PROVE i.class
    <3>1. PICK x \in 1..n : q[x] = i
      BY DEF Listing
    <3>2. x \in 1..(j - 1)
      BY <1>0, <1>1, <1>5, <1>6, <1>h, <2>1, <3>1 DEF Span
    <3> QED
      BY <1>7, <2>1, <3>1, <3>2
  <2>2. ASSUME ~last.class PROVE Calendar!Mixed(S, r, first)
    <3>1. PICK x \in 1..(j - 1) : q[x].end >= r /\ ~q[x].class
      BY <1>7, <2>2
    <3>2. q[x] \in S /\ q[x].start <= first
      BY <1>0, <1>1, <1>3, <1>5 DEF Span
    <3> QED
      BY <3>1, <3>2 DEF Calendar!Mixed
  <2> QED
    BY <2>1, <2>2 DEF Calendar!Mixed
<1> QED
  BY <1>3, <1>4, <1>5, <1>6, <1>11, <1>12 DEF first, last

LEMMA MergeOf ==
    ASSUME NEW S \in SUBSET Span, IsFiniteSet(S), classFirst \in BOOLEAN
    PROVE  \E n, q, acc : Merging(n, q, acc) /\ Listing(S, n, q) /\ Calendar!MergeBusy(S) = acc[n]
<1> DEFINE n == Cardinality(S)
           q == Calendar!InOrder(S)
<1>1. /\ n \in Nat /\ q \in [1..n -> S]
      /\ \A i \in S : \E k \in 1..n : q[k] = i
      /\ \A k, m \in 1..n : k < m => Calendar!Before(q[k], q[m])
  BY InOrderIsSorted
<1>2. Calendar!MergeBusy(S) = Calendar!FoldLeft(Calendar!Join, <<>>, q)
  BY DEF Calendar!MergeBusy
<1> HIDE DEF n, q
<1>3. q \in [1..n -> Span]
  BY <1>1
<1>4. PICK acc \in [0..n -> Seq(Span)] :
         /\ acc[0] = <<>>
         /\ \A k \in 1..n : acc[k] = Calendar!Join(acc[k - 1], q[k])
         /\ Calendar!FoldLeft(Calendar!Join, <<>>, q) = acc[n]
  BY <1>1, <1>3, MergeIsFold
<1>5. ASSUME NEW k \in 1..n, NEW m \in 1..n, k < m PROVE q[k].start <= q[m].start
  BY <1>1, <1>3, <1>5, BeforeIsOrder
<1>6. Merging(n, q, acc)
  BY <1>1, <1>3, <1>4, <1>5 DEF Merging
<1>7. Listing(S, n, q)
  BY <1>1 DEF Listing
<1> QED
  BY <1>2, <1>4, <1>6, <1>7

\* What merge_busy bridges is a short gap between classes, ...
LEMMA GapIsBridged ==
    ASSUME NEW S, NEW n, NEW q, NEW acc, Merging(n, q, acc), Listing(S, n, q), classFirst \in BOOLEAN,
           NEW j \in 2..n, NEW c \in Int, Gapped(acc, q, j, c)
    PROVE  c \in Calendar!Bridged(S)
<1> DEFINE last == LastOf(acc[j - 1])
           first == last.end
           next == q[j].start
<1>1. n \in Nat /\ \A x \in 1..n : q[x] \in Span
  BY DEF Merging
<1>2. S \in SUBSET Span /\ \A x \in 1..n : q[x] \in S
  BY DEF Listing
<1>3. j \in 1..n /\ next \in Int /\ q[j] \in S /\ q[j] \in Span
  BY <1>1, <1>2 DEF Span
<1>4. first <= c /\ c < next /\ Joins(last, q[j])
  BY DEF Gapped
<1>5. \E x \in 1..(j - 1) : q[x].end = first /\ first \in Int
  <2>1. Merged(acc, q, j - 1)
    BY <1>1, <1>3, MergeHolds
  <2>2. PICK x \in 1..(j - 1) : q[x].end = first
    BY <2>1 DEF Merged
  <2>3. x \in 1..n
    BY <1>1, <1>3
  <2> QED
    BY <1>1, <2>2, <2>3 DEF Span
<1>6. first < next
  BY <1>3, <1>4, <1>5
<1>7. /\ \A x \in 1..(j - 1) : q[x].end <= first
      /\ \A x \in j..n : q[x].start >= next
      /\ ~Calendar!Mixed(S, Calendar!RunBefore(S, first), first) <=> last.class
  BY <1>6, RunsAgree
<1>8. last.class /\ q[j].class /\ next - first < Calendar!Gap
  BY <1>3, <1>4, <1>5, <1>6 DEF Joins
<1> HIDE DEF first, last, next
<1>9. first \in {i.end : i \in S} /\ first - 1 \in Calendar!Taken(S)
  <2>1. PICK x \in 1..(j - 1) : q[x].end = first
    BY <1>5
  <2>2. x \in 1..n /\ q[x] \in S /\ q[x] \in Span
    BY <1>1, <1>2, <1>3
  <2>3. q[x].start <= first - 1 /\ first - 1 < q[x].end
    BY <2>1, <2>2 DEF Span
  <2>4. first - 1 \in Int
    BY <1>5
  <2> QED
    BY <1>2, <2>1, <2>2, <2>3, <2>4, TakenMeans
<1>10. next \in Calendar!Taken(S)
  <2>1. q[j].start <= next /\ next < q[j].end
    BY <1>3 DEF Span, next
  <2> QED
    BY <1>2, <1>3, <2>1, TakenMeans
<1>11. ASSUME NEW i \in S PROVE \/ \E x \in 1..(j - 1) : i = q[x]
                                \/ \E x \in j..n : i = q[x]
  <2>1. PICK x \in 1..n : q[x] = i
    BY DEF Listing
  <2>2. x \in 1..(j - 1) \/ x \in j..n
    BY <1>1
  <2> QED
    BY <2>1, <2>2
<1>12. ASSUME NEW d \in first..(next - 1) PROVE d \notin Calendar!Taken(S)
  <2>0. d \in Int /\ first <= d /\ d < next
    BY <1>3, <1>5
  <2>1. ASSUME NEW i \in S, i.start <= d, d < i.end PROVE FALSE
    <3>1. i \in Span
      BY <1>2
    <3>2. CASE \E x \in 1..(j - 1) : i = q[x]
      BY <1>5, <1>7, <2>0, <2>1, <3>1, <3>2 DEF Span
    <3>3. CASE \E x \in j..n : i = q[x]
      BY <1>3, <1>7, <2>0, <2>1, <3>1, <3>3 DEF Span
    <3> QED
      BY <1>11, <3>2, <3>3
  <2> QED
    BY <1>2, <2>0, <2>1, TakenMeans
<1>13. Calendar!BeginsWithClass(S, next)
  <2>1. ASSUME NEW i \in S, i.start = next PROVE ~Calendar!Before(i, q[j])
    <3>1. i \in Span
      BY <1>2
    <3>2. CASE \E x \in 1..(j - 1) : i = q[x]
      BY <1>3, <1>5, <1>6, <1>7, <2>1, <3>1, <3>2 DEF Span
    <3>3. CASE \E x \in j..n : i = q[x]
      <4>1. PICK x \in j..n : i = q[x]
        BY <3>3
      <4>2. x = j \/ (j < x /\ x \in 1..n)
        BY <1>1, <1>3
      <4>3. x # j => Calendar!Before(q[j], i)
        BY <1>3, <4>1, <4>2 DEF Listing
      <4> QED
        BY <1>3, <3>1, <4>1, <4>3, BeforeIsOrder
    <3> QED
      BY <1>11, <3>2, <3>3
  <2> QED
    BY <1>3, <1>8, <2>1 DEF Calendar!BeginsWithClass, next
<1> QED
  BY <1>2, <1>3, <1>4, <1>7, <1>8, <1>9, <1>10, <1>12, <1>13, BridgedMeans

\* ... and every such gap is bridged.
LEMMA BridgedIsGap ==
    ASSUME NEW S, NEW n, NEW q, NEW acc, Merging(n, q, acc), Listing(S, n, q), classFirst \in BOOLEAN,
           NEW c \in Int, c \in Calendar!Bridged(S)
    PROVE  \E j \in 2..n : Gapped(acc, q, j, c)
<1>1. n \in Nat /\ \A x \in 1..n : q[x] \in Span
  BY DEF Merging
<1>2. S \in SUBSET Span /\ \A x \in 1..n : q[x] \in S
  BY DEF Listing
<1>3. PICK first \in {i.end : i \in S}, next \in Int :
                  /\ first <= c /\ c < next /\ next - first < Calendar!Gap
                  /\ first - 1 \in Calendar!Taken(S) /\ next \in Calendar!Taken(S)
                  /\ \A d \in first..(next - 1) : d \notin Calendar!Taken(S)
                  /\ ~Calendar!Mixed(S, Calendar!RunBefore(S, first), first)
                  /\ Calendar!BeginsWithClass(S, next)
  BY <1>2, BridgedMeans
<1>4. first \in Int /\ first < next
  BY <1>2, <1>3 DEF Span
<1>5. PICK i \in S : i.start = next /\ i.class /\ \A k \in S : k.start = next => ~Calendar!Before(k, i)
  BY <1>3 DEF Calendar!BeginsWithClass
<1>6. PICK j \in 1..n : q[j] = i
  BY DEF Listing
<1>7. ASSUME NEW x \in 1..(j - 1) PROVE x \in 1..n /\ q[x].end <= first
  <2>1. x \in 1..n /\ x < j /\ q[x] \in S /\ q[x] \in Span
    BY <1>1, <1>2
  <2>2. q[x].start <= q[j].start
    BY <2>1 DEF Merging
  <2>3. q[x].start # next
    <3>1. Calendar!Before(q[x], i)
      BY <1>6, <2>1 DEF Listing
    <3> QED
      BY <1>5, <2>1, <3>1
  <2>4. q[x].start < next
    BY <1>3, <1>5, <1>6, <2>1, <2>2, <2>3 DEF Span
  <2>5. SUFFICES ASSUME q[x].end > first PROVE FALSE
    BY <1>4, <2>1 DEF Span
  <2> DEFINE d == IF q[x].start >= first THEN q[x].start ELSE first
  <2>6. d \in first..(next - 1) /\ d \in Int /\ q[x].start <= d /\ d < q[x].end
    BY <1>3, <1>4, <2>1, <2>4, <2>5 DEF Span
  <2> HIDE DEF d
  <2>7. d \in Calendar!Taken(S)
    BY <1>2, <2>1, <2>6, TakenMeans
  <2> QED
    BY <1>3, <2>6, <2>7
<1>8. PICK y \in 1..n : q[y].start <= first - 1 /\ first - 1 < q[y].end
  <2>1. first - 1 \in Int
    BY <1>4
  <2>2. PICK k \in S : k.start <= first - 1 /\ first - 1 < k.end
    BY <1>2, <1>3, <2>1, TakenMeans
  <2>3. PICK y \in 1..n : q[y] = k
    BY DEF Listing
  <2> QED
    BY <2>2, <2>3
<1>9. y < j
  <2>1. SUFFICES ASSUME ~(y < j) PROVE FALSE
    OBVIOUS
  <2>2. y = j \/ j < y
    BY <1>1, <2>1
  <2>3. q[j].start <= q[y].start
    <3>1. j < y => q[j].start <= q[y].start
      BY DEF Merging
    <3>2. q[j].start \in Int
      BY <1>1 DEF Span
    <3> QED
      BY <2>2, <3>1, <3>2
  <2> QED
    BY <1>1, <1>4, <1>5, <1>6, <1>8, <2>3 DEF Span
<1>10. y \in 1..(j - 1) /\ j \in 2..n /\ j - 1 \in 1..n
  BY <1>1, <1>9
<1>11. q[y].end = first
  <2>1. q[y].end \in Int /\ q[y].end <= first
    BY <1>1, <1>7, <1>10 DEF Span
  <2> QED
    BY <1>4, <1>8, <2>1
<1>12. LastOf(acc[j - 1]).end = first
  <2>1. Merged(acc, q, j - 1)
    BY <1>10, MergeHolds
  <2>2. q[y].end <= LastOf(acc[j - 1]).end
    BY <1>10, <2>1 DEF Merged
  <2>3. PICK x \in 1..(j - 1) : q[x].end = LastOf(acc[j - 1]).end
    BY <2>1 DEF Merged
  <2>4. q[x].end \in Int /\ q[x].end <= first
    BY <1>1, <1>7 DEF Span
  <2> QED
    BY <1>4, <1>11, <2>2, <2>3, <2>4
<1>13. LastOf(acc[j - 1]).end < q[j].start
  BY <1>4, <1>5, <1>6, <1>12
<1>14. LastOf(acc[j - 1]).class
  BY <1>3, <1>10, <1>12, <1>13, RunsAgree
<1> QED
  BY <1>3, <1>5, <1>6, <1>10, <1>12, <1>14 DEF Gapped, Joins

\* The blocks of merge_busy cover what is taken and the short gaps between classes.
LEMMA MergeCovers ==
    ASSUME NEW S \in SUBSET Span, IsFiniteSet(S), classFirst \in BOOLEAN
    PROVE  LET blocks == Calendar!MergeBusy(S)
           IN /\ blocks \in Seq(Span)
              /\ \A c \in Int : Covers(blocks, c) <=> c \in Calendar!Taken(S) \union Calendar!Bridged(S)
<1> DEFINE blocks == Calendar!MergeBusy(S)
<1>1. PICK n, q, acc : Merging(n, q, acc) /\ Listing(S, n, q) /\ blocks = acc[n]
  BY MergeOf
<1>2. n \in Nat /\ acc[n] \in Seq(Span) /\ acc[0] = <<>>
  <2>1. n \in Nat /\ acc \in [0..n -> Seq(Span)] /\ acc[0] = <<>>
    BY <1>1 DEF Merging
  <2> QED
    BY <2>1
<1> HIDE DEF blocks
<1>3. \A c \in Int : c \in Calendar!Taken(S) <=> Within(q, n, c)
  <2>1. ASSUME NEW c \in Int PROVE (\E i \in S : i.start <= c /\ c < i.end) <=> Within(q, n, c)
    BY <1>1 DEF Listing, Within
  <2> QED
    BY <2>1, TakenMeans
<1>4. \A c \in Int : c \in Calendar!Bridged(S) <=> \E j \in 2..n : Gapped(acc, q, j, c)
  BY <1>1, GapIsBridged, BridgedIsGap
<1>5. ASSUME NEW c \in Int
      PROVE  Covers(blocks, c) <=> Within(q, n, c) \/ \E j \in 2..n : Gapped(acc, q, j, c)
  <2>1. CASE n = 0
    BY <1>1, <1>2, <2>1 DEF Covers, Within
  <2>2. CASE n # 0
    <3>1. Merged(acc, q, n)
      BY <1>1, <1>2, <2>2, MergeHolds
    <3> QED
      BY <1>1, <3>1 DEF Merged
  <2> QED
    BY <2>1, <2>2
<1> QED
  BY <1>1, <1>2, <1>3, <1>4, <1>5 DEF blocks

(* Cutting a block out of intervals.                                        *)
Apart(R) == \A p, i \in R : p # i => p.end <= i.start \/ i.end <= p.start
Slotted(R, c) == \E p \in R : p.start <= c /\ c < p.end

LEMMA CutEffect ==
    ASSUME NEW R \in SUBSET Span, NEW block \in Span
    PROVE  LET cut == Calendar!Cut(R, block)
           IN /\ cut \in SUBSET Span
              /\ \A p \in cut : \E i \in R : i.start <= p.start /\ p.end <= i.end
              /\ Apart(R) => Apart(cut)
              /\ \A c \in Int : Slotted(cut, c) <=> Slotted(R, c) /\ ~(block.start <= c /\ c < block.end)
<1> DEFINE cut == Calendar!Cut(R, block)
           Fore(i) == [start |-> i.start, end |-> IF block.start <= i.end THEN block.start ELSE i.end, class |-> FALSE]
           Aft(i) == [start |-> IF block.end >= i.start THEN block.end ELSE i.start, end |-> i.end, class |-> FALSE]
<1>1. \A i \in R : /\ Calendar!Interval(i.start, Calendar!Min({block.start, i.end}), FALSE) = Fore(i)
                   /\ Calendar!Interval(Calendar!Max({block.end, i.start}), i.end, FALSE) = Aft(i)
  BY MaxMin DEF Calendar!Interval, Span
<1> HIDE DEF Fore, Aft
<1>2. cut = UNION {{p \in {Fore(i), Aft(i)} : p.start < p.end} : i \in R}
  BY <1>1 DEF Calendar!Cut
<1>3. \A p \in cut : \E i \in R : (p = Fore(i) \/ p = Aft(i)) /\ p.start < p.end
  BY <1>2
<1>4. \A i \in R : /\ Fore(i).start < Fore(i).end => Fore(i) \in cut
                   /\ Aft(i).start < Aft(i).end => Aft(i) \in cut
  BY <1>2
<1> HIDE DEF cut
<1> USE DEF Fore, Aft
<1>5. ASSUME NEW p \in cut
      PROVE  p \in Span /\ \E i \in R : /\ p = Fore(i) \/ p = Aft(i)
                                        /\ i.start <= p.start /\ p.end <= i.end /\ i \in Span
  <2>1. PICK i \in R : (p = Fore(i) \/ p = Aft(i)) /\ p.start < p.end
    BY <1>3
  <2>2. CASE p = Fore(i)
    <3>1. i \in Span /\ p \in Span
      BY <2>1, <2>2 DEF Span
    <3>2. i.start <= p.start /\ p.end <= i.end
      BY <2>1, <2>2 DEF Span
    <3> HIDE DEF Fore, Aft
    <3> QED
      BY <2>1, <3>1, <3>2
  <2>3. CASE p = Aft(i)
    <3>1. i \in Span /\ p \in Span
      BY <2>1, <2>3 DEF Span
    <3>2. i.start <= p.start /\ p.end <= i.end
      BY <2>1, <2>3 DEF Span
    <3> HIDE DEF Fore, Aft
    <3> QED
      BY <2>1, <3>1, <3>2
  <2> QED
    BY <2>1, <2>2, <2>3
<1>6. ASSUME Apart(R), NEW p \in cut, NEW o \in cut, p # o
      PROVE  p.end <= o.start \/ o.end <= p.start
  <2>1. PICK i \in R : /\ p = Fore(i) \/ p = Aft(i)
                       /\ i.start <= p.start /\ p.end <= i.end /\ i \in Span
    BY <1>5
  <2>2. PICK j \in R : /\ o = Fore(j) \/ o = Aft(j)
                       /\ j.start <= o.start /\ o.end <= j.end /\ j \in Span
    BY <1>5
  <2>3. p \in Span /\ o \in Span
    BY <1>5
  <2>4. CASE i # j
    <3>1. i.end <= j.start \/ j.end <= i.start
      BY <1>6, <2>4 DEF Apart
    <3> HIDE DEF Fore, Aft
    <3> QED
      BY <2>1, <2>2, <2>3, <3>1 DEF Span
  <2>5. CASE i = j
    <3>1. (p = Fore(i) /\ o = Aft(i)) \/ (p = Aft(i) /\ o = Fore(i))
      <4> HIDE DEF Fore, Aft
      <4> QED
        BY <1>6, <2>1, <2>2, <2>5
    <3>2. Fore(i).end <= Aft(i).start
      BY <2>1 DEF Span
    <3> QED
      BY <3>1, <3>2
  <2> QED
    BY <2>4, <2>5
<1>7. ASSUME NEW c \in Int
      PROVE  Slotted(cut, c) <=> Slotted(R, c) /\ ~(block.start <= c /\ c < block.end)
  <2>1. ASSUME NEW i \in R
        PROVE  i.start <= c /\ c < i.end /\ ~(block.start <= c /\ c < block.end)
               <=> \/ Fore(i).start <= c /\ c < Fore(i).end
                   \/ Aft(i).start <= c /\ c < Aft(i).end
    BY DEF Span
  <2>2. ASSUME NEW i \in R
        PROVE  /\ Fore(i).start <= c /\ c < Fore(i).end => Fore(i) \in cut
               /\ Aft(i).start <= c /\ c < Aft(i).end => Aft(i) \in cut
    BY <1>4 DEF Span
  <2>3. \A p \in cut : \E i \in R : p = Fore(i) \/ p = Aft(i)
    BY <1>3
  <2> HIDE DEF Fore, Aft
  <2> QED
    BY <2>1, <2>2, <2>3 DEF Slotted
<1> HIDE DEF Fore, Aft
<1>8. cut \in SUBSET Span /\ \A p \in cut : \E i \in R : i.start <= p.start /\ p.end <= i.end
  BY <1>5
<1> QED
  BY <1>6, <1>7, <1>8 DEF Apart, cut

LEMMA CutsAreFold ==
    ASSUME NEW n \in Nat, NEW q \in [1..n -> Span], NEW span \in Span
    PROVE  \E acc \in [0..n -> SUBSET Span] :
              /\ acc[0] = {span}
              /\ \A k \in 1..n : acc[k] = Calendar!Cut(acc[k - 1], q[k])
              /\ Calendar!FoldLeft(Calendar!Cut, {span}, q) = acc[n]
<1> DEFINE Body(f) == [s \in SUBSET (1..n) |->
                         IF s = {} THEN {span}
                         ELSE Calendar!Cut(f[s \ {Calendar!Max(s)}], q[Calendar!Max(s)])]
           iter == CHOOSE f : f = Body(f)
           op == [p \in (SUBSET Span) \X (1..n) |-> Calendar!Cut(p[1], q[p[2]])]
           acc == [k \in 0..n |-> iter[1..k]]
<1>1. Calendar!FoldLeft(Calendar!Cut, {span}, q) = iter[1..n]
  BY DEF Calendar!FoldLeft, Calendar!MapThenFoldSet
<1>2. \E f : f = Body(f)
  <2>1. op \in [(SUBSET Span) \X (1..n) -> SUBSET Span]
    <3>1. \A p \in (SUBSET Span) \X (1..n) : Calendar!Cut(p[1], q[p[2]]) \in SUBSET Span
      BY CutEffect
    <3> QED
      BY <3>1
  <2>2. PICK f : IsFold(SUBSET Span, {span}, n, op, f)
    <3>1. {span} \in SUBSET Span
      OBVIOUS
    <3> HIDE DEF op
    <3> QED
      BY <2>1, <3>1, FoldExists
  <2>3. ASSUME NEW s \in SUBSET (1..n), s # {} PROVE Calendar!Max(s) \in 1..n
    BY <2>3, MaxIsIn
  <2>4. ASSUME NEW s \in SUBSET (1..n), s # {}
        PROVE  op[<<f[s \ {Calendar!Max(s)}], Calendar!Max(s)>>]
                 = Calendar!Cut(f[s \ {Calendar!Max(s)}], q[Calendar!Max(s)])
    BY <2>2, <2>3, <2>4 DEF IsFold
  <2>5. f = Body(f)
    <3> HIDE DEF op
    <3> QED
      BY <2>2, <2>4 DEF IsFold
  <2> QED
    BY <2>5
<1>3. iter = Body(iter)
  BY <1>2
<1> HIDE DEF iter
<1>4. acc[0] = {span}
  <2>1. 1..0 = {} /\ 0 \in 0..n
    OBVIOUS
  <2>2. iter[{}] = {span}
    BY <1>3
  <2> QED
    BY <2>1, <2>2
<1>5. ASSUME NEW k \in 1..n PROVE acc[k] = Calendar!Cut(acc[k - 1], q[k])
  <2>1. Calendar!Max(1..k) = k /\ (1..k) \ {k} = 1..(k - 1) /\ 1..k # {} /\ 1..k \in SUBSET (1..n)
    BY MaxOfPrefix
  <2>2. iter[1..k] = Calendar!Cut(iter[1..(k - 1)], q[k])
    BY <1>3, <2>1
  <2> QED
    BY <2>2
<1> DEFINE T == {k \in 0..n : acc[k] \in SUBSET Span}
<1>6. \A k \in 0..n : k \in T
  <2>1. {span} \in SUBSET Span /\ 0 \in 0..n
    OBVIOUS
  <2>0. 0 \in T
    BY <1>4, <2>1
  <2>2. ASSUME NEW k \in 1..n, k - 1 \in T PROVE k \in T
    <3>1. acc[k - 1] \in SUBSET Span /\ q[k] \in Span /\ k \in 0..n
      BY <2>2
    <3>2. Calendar!Cut(acc[k - 1], q[k]) \in SUBSET Span
      BY <3>1, CutEffect
    <3> HIDE DEF acc
    <3> QED
      BY <1>5, <3>1, <3>2
  <2> HIDE DEF T
  <2> QED
    BY <2>0, <2>2, CountingUp
<1>7. acc \in [0..n -> SUBSET Span]
  BY <1>6
<1>8. Calendar!FoldLeft(Calendar!Cut, {span}, q) = acc[n]
  BY <1>1
<1> HIDE DEF acc
<1> QED
  BY <1>4, <1>5, <1>7, <1>8

\* What is left of a slot: pieces of it, apart, that no block covers.
Left(R, span, n, q) ==
    /\ Apart(R)
    /\ \A p \in R : span.start <= p.start /\ p.end <= span.end
    /\ \A c \in Int : Slotted(R, c) <=> /\ span.start <= c /\ c < span.end
                                        /\ \A x \in 1..n : ~(q[x].start <= c /\ c < q[x].end)

LEMMA CutsLeave ==
    ASSUME NEW n \in Nat, NEW q \in [1..n -> Span], NEW span \in Span
    PROVE  LET R == Calendar!FoldLeft(Calendar!Cut, {span}, q)
           IN R \in SUBSET Span /\ Left(R, span, n, q)
<1>1. PICK acc \in [0..n -> SUBSET Span] :
         /\ acc[0] = {span}
         /\ \A k \in 1..n : acc[k] = Calendar!Cut(acc[k - 1], q[k])
         /\ Calendar!FoldLeft(Calendar!Cut, {span}, q) = acc[n]
  BY CutsAreFold
<1> DEFINE T == {k \in 0..n : Left(acc[k], span, k, q)}
<1>2. 0 \in T
  <2>1. Apart({span}) /\ \A c \in Int : Slotted({span}, c) <=> span.start <= c /\ c < span.end
    BY DEF Apart, Slotted
  <2>2. span.start <= span.start /\ span.end <= span.end
    BY DEF Span
  <2>3. 1..0 = {} /\ 0 \in 0..n
    OBVIOUS
  <2>4. Left({span}, span, 0, q)
    BY <2>1, <2>2, <2>3 DEF Left
  <2> QED
    BY <1>1, <2>3, <2>4
<1>3. ASSUME NEW k \in 1..n, k - 1 \in T PROVE k \in T
  <2>1. /\ acc[k - 1] \in SUBSET Span /\ q[k] \in Span /\ acc[k] = Calendar!Cut(acc[k - 1], q[k])
        /\ Left(acc[k - 1], span, k - 1, q)
    BY <1>1, <1>3
  <2>2. /\ acc[k] \in SUBSET Span
        /\ \A p \in acc[k] : \E i \in acc[k - 1] : i.start <= p.start /\ p.end <= i.end
        /\ Apart(acc[k])
        /\ \A c \in Int : Slotted(acc[k], c) <=> Slotted(acc[k - 1], c) /\ ~(q[k].start <= c /\ c < q[k].end)
    BY <2>1, CutEffect DEF Left
  <2>3. \A p \in acc[k] : span.start <= p.start /\ p.end <= span.end
    <3>1. ASSUME NEW p \in acc[k] PROVE span.start <= p.start /\ p.end <= span.end
      <4>1. PICK i \in acc[k - 1] : i.start <= p.start /\ p.end <= i.end
        BY <2>2
      <4>2. p \in Span /\ i \in Span /\ span.start <= i.start /\ i.end <= span.end
        BY <2>1, <2>2 DEF Left
      <4> QED
        BY <4>1, <4>2 DEF Span
    <3> QED
      BY <3>1
  <2>4. ASSUME NEW c \in Int
        PROVE  (\A x \in 1..k : ~(q[x].start <= c /\ c < q[x].end))
                 <=> /\ \A x \in 1..(k - 1) : ~(q[x].start <= c /\ c < q[x].end)
                     /\ ~(q[k].start <= c /\ c < q[k].end)
    <3>1. \A x \in 1..k : x \in 1..(k - 1) \/ x = k
      OBVIOUS
    <3>2. k \in 1..k /\ \A x \in 1..(k - 1) : x \in 1..k
      OBVIOUS
    <3> QED
      BY <3>1, <3>2
  <2>5. Left(acc[k], span, k, q)
    BY <2>1, <2>2, <2>3, <2>4 DEF Left
  <2> QED
    BY <2>5
<1>4. \A k \in 0..n : k \in T
  <2> HIDE DEF T
  <2> QED
    BY <1>2, <1>3, CountingUp
<1> QED
  BY <1>1, <1>4

\* _subtract: of a slot there remains what is neither taken nor a short gap.
LEMMA SubtractLeaves ==
    ASSUME NEW S \in SUBSET Span, IsFiniteSet(S), classFirst \in BOOLEAN, NEW span \in Span
    PROVE  LET R == Calendar!Subtract(span, S)
           IN /\ R \in SUBSET Span /\ Apart(R)
              /\ \A p \in R : span.start <= p.start /\ p.end <= span.end
              /\ \A c \in Int : Slotted(R, c) <=> /\ span.start <= c /\ c < span.end
                                                  /\ c \notin Calendar!Taken(S) \union Calendar!Bridged(S)
<1> DEFINE M == Calendar!MergeBusy(S)
<1>1. /\ M \in Seq(Span)
      /\ \A c \in Int : Covers(M, c) <=> c \in Calendar!Taken(S) \union Calendar!Bridged(S)
  BY MergeCovers
<1>2. Calendar!Subtract(span, S) = Calendar!FoldLeft(Calendar!Cut, {span}, M)
  BY DEF Calendar!Subtract
<1> HIDE DEF M
<1>3. Len(M) \in Nat /\ M \in [1..Len(M) -> Span]
  BY <1>1
<1>4. /\ Calendar!Subtract(span, S) \in SUBSET Span
      /\ Left(Calendar!Subtract(span, S), span, Len(M), M)
  BY <1>2, <1>3, CutsLeave
<1>5. \A c \in Int : Covers(M, c) <=> ~\A x \in 1..Len(M) : ~(M[x].start <= c /\ c < M[x].end)
  BY DEF Covers
<1> QED
  BY <1>1, <1>4, <1>5 DEF Left

(* Sums over sets.                                                          *)
SlotsOf(R) == UNION {Calendar!Slot(p) : p \in R}

\* Two functions that satisfy the equation of a sum are one.
LEMMA SumIsUnique ==
    ASSUME NEW R, IsFiniteSet(R), NEW f, NEW g,
           \A s \in SUBSET R : s = {} => f[s] = g[s],
           \A s \in SUBSET R : s # {} =>
              \E x \in s : f[s \ {x}] = g[s \ {x}] => f[s] = g[s]
    PROVE  f[R] = g[R]
<1> DEFINE Bad == {s \in SUBSET R : f[s] # g[s]}
           Sizes == {Cardinality(s) : s \in Bad}
<1>1. \A s \in SUBSET R : IsFiniteSet(s) /\ Cardinality(s) \in Nat
  BY FS_Subset, FS_CardinalityType
<1>2. SUFFICES ASSUME Bad # {} PROVE FALSE
  OBVIOUS
<1>3. Sizes \in SUBSET Nat /\ Sizes # {}
  BY <1>1, <1>2
<1>4. PICK m \in Sizes : \A k \in Sizes : m <= k
  <2> HIDE DEF Sizes
  <2> QED
    BY <1>3, LeastNumber
<1>5. PICK s \in Bad : Cardinality(s) = m
  BY <1>4
<1>6. PICK x \in s : f[s \ {x}] # g[s \ {x}]
  BY <1>5
<1>7. s \ {x} \in Bad
  BY <1>5, <1>6
<1>8. Cardinality(s \ {x}) = Cardinality(s) - 1 /\ Cardinality(s) \in Nat /\ IsFiniteSet(s)
  <2>1. IsFiniteSet(s) /\ Cardinality(s) \in Nat
    BY <1>1, <1>5
  <2> QED
    BY <1>6, <2>1, FS_RemoveElement
<1>9. m <= Cardinality(s \ {x})
  BY <1>4, <1>7
<1> QED
  BY <1>5, <1>8, <1>9

\* The sizes of intervals that are apart add up to the number of their slots.
LEMMA SizesAddUp ==
    ASSUME NEW R \in SUBSET Span, Apart(R), NEW lo \in Int, NEW hi \in Int,
           \A p \in R : lo <= p.start /\ p.end <= hi
    PROVE  Calendar!MapThenSumSet(Calendar!Size, R) = Cardinality(SlotsOf(R))
<1> DEFINE Body(f) == [s \in SUBSET R |-> IF s = {} THEN 0
                         ELSE Calendar!Size(CHOOSE x \in s : TRUE) + f[s \ {CHOOSE x \in s : TRUE}]]
           iter == CHOOSE f : f = Body(f)
           g == [s \in SUBSET R |-> Cardinality(SlotsOf(s))]
<1>1. Calendar!MapThenSumSet(Calendar!Size, R) = iter[R]
  BY DEF Calendar!MapThenSumSet, Calendar!MapThenFoldSet
<1>2. ASSUME NEW p \in Span PROVE Calendar!Slot(p) = p.start..(p.end - 1) /\ Calendar!Size(p) = p.end - p.start
                                  /\ IsFiniteSet(Calendar!Slot(p)) /\ Cardinality(Calendar!Slot(p)) = p.end - p.start
  <2>1. p.start \in Int /\ p.end - 1 \in Int /\ p.start < p.end /\ p.end \in Int
    BY DEF Span
  <2>2. Calendar!Slot(p) = p.start..(p.end - 1) /\ Calendar!Size(p) = p.end - p.start
    BY DEF Calendar!Slot, Calendar!Size
  <2>3. IsFiniteSet(p.start..(p.end - 1))
        /\ Cardinality(p.start..(p.end - 1)) = IF p.start > p.end - 1 THEN 0 ELSE (p.end - 1) - p.start + 1
    BY <2>1, FS_Interval
  <2> QED
    BY <2>1, <2>2, <2>3
<1>3. ASSUME NEW s \in SUBSET R PROVE IsFiniteSet(SlotsOf(s)) /\ Cardinality(SlotsOf(s)) \in Nat
  <2>1. SlotsOf(s) \in SUBSET (lo..hi)
    <3>1. ASSUME NEW p \in s PROVE Calendar!Slot(p) \in SUBSET (lo..hi)
      <4>1. p \in Span /\ lo <= p.start /\ p.end <= hi
        OBVIOUS
      <4> QED
        BY <1>2, <4>1 DEF Span
    <3> QED
      BY <3>1 DEF SlotsOf
  <2>2. IsFiniteSet(lo..hi)
    BY FS_Interval
  <2> QED
    BY <2>1, <2>2, FS_Subset, FS_CardinalityType
<1>4. ASSUME NEW s \in SUBSET R, NEW x \in s
      PROVE  g[s] = Calendar!Size(x) + g[s \ {x}]
  <2>0. s \ {x} \in SUBSET R /\ x \in Span
    OBVIOUS
  <2>1. SlotsOf(s) = Calendar!Slot(x) \union SlotsOf(s \ {x})
    BY DEF SlotsOf
  <2>2. Calendar!Slot(x) \intersect SlotsOf(s \ {x}) = {}
    <3>1. ASSUME NEW p \in s \ {x} PROVE Calendar!Slot(x) \intersect Calendar!Slot(p) = {}
      <4>1. p \in Span /\ (p.end <= x.start \/ x.end <= p.start)
        BY DEF Apart
      <4> QED
        BY <1>2, <2>0, <4>1 DEF Span
    <3> QED
      BY <3>1 DEF SlotsOf
  <2>3. Cardinality(SlotsOf(s)) = Cardinality(Calendar!Slot(x)) + Cardinality(SlotsOf(s \ {x}))
                                     - Cardinality(Calendar!Slot(x) \intersect SlotsOf(s \ {x}))
    BY <1>2, <1>3, <2>0, <2>1, FS_Union
  <2>4. Cardinality(Calendar!Slot(x) \intersect SlotsOf(s \ {x})) = 0
    BY <2>2, FS_EmptySet
  <2>5. Cardinality(Calendar!Slot(x)) = Calendar!Size(x) /\ Calendar!Size(x) \in Int
    BY <1>2, <2>0 DEF Span
  <2>6. Cardinality(SlotsOf(s \ {x})) \in Nat
    BY <1>3, <2>0
  <2> QED
    BY <2>0, <2>3, <2>4, <2>5, <2>6
<1>5. g[{}] = 0
  <2>1. SlotsOf({}) = {}
    BY DEF SlotsOf
  <2> QED
    BY <2>1, FS_EmptySet
<1> HIDE DEF g
<1>6. g = Body(g)
  <2>1. g = [s \in SUBSET R |-> g[s]]
    BY DEF g
  <2>2. \A s \in SUBSET R : g[s] = IF s = {} THEN 0
                         ELSE Calendar!Size(CHOOSE x \in s : TRUE) + g[s \ {CHOOSE x \in s : TRUE}]
    BY <1>4, <1>5
  <2> QED
    BY <2>1, <2>2
<1>7. iter = Body(iter)
  BY <1>6
<1> HIDE DEF iter
<1>8. IsFiniteSet(R)
  <2> DEFINE begin == [p \in R |-> p.start]
  <2>1. begin \in Injection(R, lo..hi)
    <3>1. \A p \in R : begin[p] \in lo..hi
      BY DEF Span
    <3>2. \A p, x \in R : begin[p] = begin[x] => p = x
      BY DEF Apart, Span
    <3>3. begin \in [R -> lo..hi]
      BY <3>1
    <3> HIDE DEF begin
    <3> QED
      BY <3>2, <3>3 DEF Injection, IsInjective
  <2>2. IsFiniteSet(lo..hi)
    BY FS_Interval
  <2> HIDE DEF begin
  <2> QED
    BY <2>1, <2>2, FS_Injection
<1>9. iter[R] = g[R]
  <2>1. \A s \in SUBSET R : s = {} => iter[s] = g[s]
    BY <1>5, <1>7
  <2>2. ASSUME NEW s \in SUBSET R, s # {}
        PROVE  \E x \in s : iter[s \ {x}] = g[s \ {x}] => iter[s] = g[s]
    <3> DEFINE x == CHOOSE y \in s : TRUE
    <3>1. x \in s
      BY <2>2
    <3>2. iter[s] = Calendar!Size(x) + iter[s \ {x}]
      BY <1>7, <2>2
    <3>3. g[s] = Calendar!Size(x) + g[s \ {x}]
      BY <1>4, <3>1
    <3> HIDE DEF x
    <3> QED
      BY <3>1, <3>2, <3>3
  <2> QED
    BY <1>8, <2>1, <2>2, SumIsUnique
<1> QED
  BY <1>1, <1>9 DEF g

-----------------------------------------------------------------------------
(* The study calendar: its types.                                           *)

EventTypes ==
    /\ \A e \in events : e.source \in {Calendar!Manual} \union Calendar!SourceIds /\ Timed(e.entry)
    /\ DOMAIN sources = Calendar!SourceIds /\ DOMAIN imported = Calendar!SourceIds
    /\ now \in 1..2

DayTypes ==
    /\ IsFiniteSet(events)
    /\ rules \in [{"day", "other"} -> Seq(HourRows)]
    /\ override = None \/ override \in Seq(HourRows)
    /\ commute \in Nat /\ classFirst \in BOOLEAN

CalendarTypes == EventTypes /\ DayTypes

-----------------------------------------------------------------------------
(* The study calendar: free time.                                           *)

LEMMA ImageFinite ==
    ASSUME NEW X, IsFiniteSet(X), NEW f
    PROVE  IsFiniteSet({f[x] : x \in X})
<1> DEFINE g == [x \in X |-> f[x]]
<1>1. g \in Surjection(X, {f[x] : x \in X})
  BY DEF Surjection
<1> HIDE DEF g
<1> QED
  BY <1>1, FS_Surjection

LEMMA SpreadFinite ==
    ASSUME NEW X, IsFiniteSet(X), NEW f, \A x \in X : IsFiniteSet(f[x])
    PROVE  IsFiniteSet(UNION {f[x] : x \in X})
<1>1. IsFiniteSet({f[x] : x \in X})
  BY ImageFinite
<1> QED
  BY <1>1, FS_UNION

LEMMA ExpandSpans ==
    ASSUME NEW e, Timed(e), NEW lo \in Int, NEW hi \in Int, e.repeats # "unsupported" \/ lo < hi
    PROVE  Calendar!Expand(e, lo, hi) \in SUBSET Span /\ IsFiniteSet(Calendar!Expand(e, lo, hi))
<1>1. Slots \in Nat /\ Period \in Int
  BY CalendarAssumption
<1>2. CASE e.repeats = "unsupported"
  <2>1. Calendar!Expand(e, lo, hi) = {[start |-> lo, end |-> hi, class |-> FALSE]}
    BY <1>2 DEF Calendar!Expand, Calendar!Interval
  <2>2. [start |-> lo, end |-> hi, class |-> FALSE] \in Span
    BY <1>2 DEF Span
  <2> QED
    BY <2>1, <2>2, FS_Singleton
<1>3. CASE e.repeats # "unsupported"
  <2> DEFINE N == IF e.repeats = "no" THEN {0} ELSE 0..Slots
             at == [n \in N |-> [start |-> e.start + n * Period, end |-> e.end + n * Period, class |-> e.class]]
  <2>1. IsFiniteSet(N) /\ N \in SUBSET Int
    <3>1. 0 \in Int /\ Slots \in Int /\ 0..Slots \in SUBSET Int /\ {0} \in SUBSET Int
      BY <1>1
    <3>2. IsFiniteSet(0..Slots)
      BY <3>1, FS_Interval
    <3>3. IsFiniteSet({0})
      BY FS_Singleton
    <3> QED
      BY <3>1, <3>2, <3>3
  <2>2. Calendar!Expand(e, lo, hi) \in SUBSET {at[n] : n \in N}
    BY <1>3 DEF Calendar!Expand, Calendar!Interval
  <2> HIDE DEF N
  <2>3. ASSUME NEW n \in N PROVE at[n] \in Span
    <3>1. n \in Int /\ n * Period \in Int
      BY <1>1, <2>1
    <3> QED
      BY <3>1 DEF Timed, Span
  <2> HIDE DEF at
  <2>4. IsFiniteSet({at[n] : n \in N})
    BY <2>1, ImageFinite
  <2>5. {at[n] : n \in N} \in SUBSET Span
    BY <2>3
  <2> QED
    BY <2>2, <2>4, <2>5, FS_Subset
<1> QED
  BY <1>2, <1>3

\* What is busy for a set of entries.
LEMMA BusySpans ==
    ASSUME NEW X, IsFiniteSet(X), \A e \in X : Timed(e), commute \in Nat, NEW lo \in Int, NEW hi \in Int,
           \A e \in X : e.repeats # "unsupported" \/ lo < hi
    PROVE  LET busy == {Calendar!WithCommute(i) : i \in UNION {Calendar!Expand(e, lo, hi) : e \in X}}
           IN busy \in SUBSET Span /\ IsFiniteSet(busy)
<1> DEFINE spread == [e \in X |-> Calendar!Expand(e, lo, hi)]
           U == UNION {Calendar!Expand(e, lo, hi) : e \in X}
           wide == [i \in U |-> Calendar!WithCommute(i)]
<1>1. U = UNION {spread[e] : e \in X}
  OBVIOUS
<1>2. \A e \in X : spread[e] \in SUBSET Span /\ IsFiniteSet(spread[e])
  BY ExpandSpans
<1> HIDE DEF spread
<1>3. IsFiniteSet(U) /\ U \in SUBSET Span
  <2>1. U \in SUBSET Span
    BY <1>1, <1>2
  <2>2. \A e \in X : IsFiniteSet(spread[e])
    BY <1>2
  <2> HIDE DEF U
  <2>3. IsFiniteSet(UNION {spread[e] : e \in X})
    BY <2>2, SpreadFinite
  <2> QED
    BY <1>1, <2>1, <2>3
<1> HIDE DEF U
<1>4. {Calendar!WithCommute(i) : i \in U} = {wide[i] : i \in U}
  OBVIOUS
<1>5. ASSUME NEW i \in U PROVE wide[i] \in Span
  BY <1>3 DEF Calendar!WithCommute, Calendar!Interval, Span
<1> HIDE DEF wide
<1>6. IsFiniteSet({wide[i] : i \in U})
  BY <1>3, ImageFinite
<1> QED
  BY <1>4, <1>5, <1>6 DEF U

LEMMA ListedEntries ==
    ASSUME CalendarTypes, NEW lo, NEW hi
    PROVE  /\ IsFiniteSet(Calendar!Listed(lo, hi))
           /\ \A e \in Calendar!Listed(lo, hi) : Timed(e)
<1> DEFINE entry == [e \in events |-> e.entry]
<1>1. Calendar!Listed(lo, hi) \in SUBSET {entry[e] : e \in events}
  BY DEF Calendar!Listed
<1>2. \A e \in events : Timed(entry[e])
  BY DEF CalendarTypes, EventTypes, DayTypes
<1> HIDE DEF entry
<1>3. IsFiniteSet({entry[e] : e \in events})
  BY ImageFinite DEF CalendarTypes, EventTypes, DayTypes
<1> QED
  BY <1>1, <1>2, <1>3, FS_Subset

LEMMA BusyOfWindow ==
    ASSUME CalendarTypes, NEW lo \in Int, NEW hi \in Int, lo < hi
    PROVE  LET busy == Calendar!Busy(Calendar!Listed(lo, hi), lo, hi)
           IN busy \in SUBSET Span /\ IsFiniteSet(busy)
<1> DEFINE L == Calendar!Listed(lo, hi)
           X == {v \in {e \in L : e.repeats # "no" \/ Calendar!Overlaps(e, lo, hi)} : v.opaque}
<1>1. X \in SUBSET L /\ IsFiniteSet(L) /\ \A e \in L : Timed(e)
  BY ListedEntries
<1>2. Calendar!Busy(L, lo, hi) = {Calendar!WithCommute(i) : i \in UNION {Calendar!Expand(e, lo, hi) : e \in X}}
  BY DEF Calendar!Busy
<1> HIDE DEF X, L
<1>3. IsFiniteSet(X) /\ (\A e \in X : Timed(e)) /\ commute \in Nat
  BY <1>1, FS_Subset DEF CalendarTypes, EventTypes, DayTypes
<1> QED
  BY <1>2, <1>3, BusySpans DEF L

LEMMA FreeIsFree ==
    ASSUME CalendarTypes, NEW lo \in Int, NEW hi \in Int, lo < hi, NEW hour \in HourRows
    PROVE  Calendar!Free(hour, Calendar!Busy(Calendar!Listed(lo, hi), lo, hi), lo, hi)
             = Cardinality(Calendar!FreeSlots(hour, lo, hi))
<1> DEFINE busy == Calendar!Busy(Calendar!Listed(lo, hi), lo, hi)
           from == IF hour.start >= lo THEN hour.start ELSE lo
           to == IF hour.end <= hi THEN hour.end ELSE hi
           clipped == [start |-> from, end |-> to, class |-> FALSE]
           R == Calendar!Subtract(clipped, busy)
<1>0. hour.start \in Int /\ hour.end \in Int /\ from \in Int /\ to \in Int
  BY DEF HourRows
<1>1. busy \in SUBSET Span /\ IsFiniteSet(busy) /\ classFirst \in BOOLEAN
  BY BusyOfWindow DEF CalendarTypes, EventTypes, DayTypes
<1>2. Calendar!Clipped(hour, lo, hi) = clipped
  BY <1>0, MaxMin DEF Calendar!Clipped, Calendar!Interval
<1>3. Calendar!Free(hour, busy, lo, hi)
        = IF to - from <= 0 THEN 0 ELSE Calendar!MapThenSumSet(Calendar!Size, R)
  <2>1. Calendar!Size(clipped) = to - from
    BY DEF Calendar!Size
  <2> HIDE DEF clipped, busy
  <2> QED
    BY <1>2, <2>1 DEF Calendar!Free
<1> HIDE DEF R
<1>4. \A c : c \in Calendar!FreeSlots(hour, lo, hi) <=>
               /\ c \in Int /\ from <= c /\ c < to
               /\ c \notin Calendar!Taken(busy) \union Calendar!Bridged(busy)
  <2>1. Calendar!FreeSlots(hour, lo, hi) = ((hour.start..(hour.end - 1)) \intersect (lo..(hi - 1)))
                                             \ (Calendar!Taken(busy) \union Calendar!Bridged(busy))
    BY DEF Calendar!FreeSlots, Calendar!Slot
  <2> HIDE DEF busy
  <2> QED
    BY <1>0, <2>1
<1> HIDE DEF busy, from, to
<1>5. CASE to - from <= 0
  <2>1. Calendar!FreeSlots(hour, lo, hi) = {}
    BY <1>0, <1>4, <1>5
  <2> QED
    BY <1>3, <1>5, <2>1, FS_EmptySet DEF busy
<1>6. CASE ~(to - from <= 0)
  <2>1. clipped \in Span /\ clipped.start = from /\ clipped.end = to
    BY <1>0, <1>6 DEF Span
  <2> HIDE DEF clipped
  <2>2. /\ R \in SUBSET Span /\ Apart(R)
        /\ \A p \in R : from <= p.start /\ p.end <= to
        /\ \A c \in Int : Slotted(R, c) <=> /\ from <= c /\ c < to
                                            /\ c \notin Calendar!Taken(busy) \union Calendar!Bridged(busy)
    BY <1>1, <2>1, SubtractLeaves DEF R
  <2>3. Calendar!MapThenSumSet(Calendar!Size, R) = Cardinality(SlotsOf(R))
    BY <1>0, <2>2, SizesAddUp
  <2>4. \A c : c \in SlotsOf(R) <=> c \in Int /\ Slotted(R, c)
    <3>1. \A p \in R : \A c : c \in Calendar!Slot(p) <=> c \in Int /\ p.start <= c /\ c < p.end
      BY <2>2 DEF Calendar!Slot, Span
    <3> QED
      BY <3>1 DEF SlotsOf, Slotted
  <2>5. SlotsOf(R) = Calendar!FreeSlots(hour, lo, hi)
    BY <1>4, <2>2, <2>4
  <2> QED
    BY <1>3, <1>6, <2>3, <2>5 DEF busy
<1> QED
  BY <1>5, <1>6

LEMMA HoursAreRows ==
    ASSUME CalendarTypes, Calendar!HoursOfDay # None
    PROVE  \A h \in Calendar!HoursOfDay : h[2] \in HourRows
<1>1. \A hours \in Seq(HourRows) : \A h \in Calendar!Numbered(hours) : h[2] \in HourRows
  BY DEF Calendar!Numbered
<1>2. rules["day"] \in Seq(HourRows) /\ (override # None => override \in Seq(HourRows))
  BY DEF CalendarTypes, EventTypes, DayTypes
<1> QED
  BY <1>1, <1>2 DEF Calendar!HoursOfDay

LEMMA CountsWhatIsFree == CalendarTypes => Calendar!CapacityIsFree
<1> SUFFICES ASSUME CalendarTypes, Calendar!HoursOfDay # None, NEW w \in Calendar!Windows
             PROVE  Calendar!Between(Calendar!Listed(w[1], w[2]), w[1], w[2])
                      = Calendar!MapThenSumSet(LAMBDA h : Calendar!Cardinality(Calendar!FreeSlots(h[2], w[1], w[2])),
                                               Calendar!HoursOfDay)
  BY DEF Calendar!CapacityIsFree
<1> DEFINE lo == w[1]
           hi == w[2]
           H == Calendar!HoursOfDay
           busy == Calendar!Busy(Calendar!Listed(lo, hi), lo, hi)
           F(f) == [s \in SUBSET H |-> IF s = {} THEN 0
                      ELSE Calendar!Free((CHOOSE x \in s : TRUE)[2], busy, lo, hi) + f[s \ {CHOOSE x \in s : TRUE}]]
           G(f) == [s \in SUBSET H |-> IF s = {} THEN 0
                      ELSE Calendar!Cardinality(Calendar!FreeSlots((CHOOSE x \in s : TRUE)[2], lo, hi))
                             + f[s \ {CHOOSE x \in s : TRUE}]]
<1>1. lo \in Int /\ hi \in Int /\ lo < hi
  BY CalendarAssumption DEF Calendar!Windows
<1>2. Calendar!Between(Calendar!Listed(lo, hi), lo, hi) = (CHOOSE f : f = F(f))[H]
  BY DEF Calendar!Between, Calendar!FreeBeside, Calendar!MapThenSumSet, Calendar!MapThenFoldSet
<1>3. Calendar!MapThenSumSet(LAMBDA h : Calendar!Cardinality(Calendar!FreeSlots(h[2], lo, hi)), H)
        = (CHOOSE f : f = G(f))[H]
  BY DEF Calendar!MapThenSumSet, Calendar!MapThenFoldSet
<1>4. \A h \in H : Calendar!Free(h[2], busy, lo, hi) = Calendar!Cardinality(Calendar!FreeSlots(h[2], lo, hi))
  BY <1>1, HoursAreRows, FreeIsFree, CardinalityIsOne
<1> HIDE DEF lo, hi, H, busy
<1>5. \A s \in SUBSET H : s # {} => (CHOOSE x \in s : TRUE) \in H
  OBVIOUS
<1>6. \A f : F(f) = G(f)
  BY <1>4, <1>5
<1> HIDE DEF F, G
<1>7. (CHOOSE f : f = F(f)) = (CHOOSE f : f = G(f))
  BY <1>6
<1> QED
  BY <1>2, <1>3, <1>7 DEF lo, hi, H

LEMMA ClassesSpans ==
    ASSUME CalendarTypes
    PROVE  Calendar!Classes \in SUBSET Span /\ IsFiniteSet(Calendar!Classes)
<1> DEFINE L == Calendar!Listed(0, Slots)
           X == {v \in L : v.opaque /\ v.class /\ v.repeats # "unsupported"}
<1>1. X \in SUBSET L /\ IsFiniteSet(L) /\ (\A e \in L : Timed(e)) /\ \A e \in X : e.repeats # "unsupported"
  BY ListedEntries
<1>2. Calendar!Classes = {Calendar!WithCommute(i) : i \in UNION {Calendar!Expand(e, 0, Slots) : e \in X}}
  BY DEF Calendar!Classes
<1> HIDE DEF X, L
<1>3. IsFiniteSet(X) /\ (\A e \in X : Timed(e)) /\ commute \in Nat /\ 0 \in Int /\ Slots \in Int
  BY <1>1, FS_Subset, CalendarAssumption DEF CalendarTypes, EventTypes, DayTypes
<1> QED
  BY <1>1, <1>2, <1>3, BusySpans

\* Where everything busy is a class, what is busy is what is drawn as a class.
LEMMA OnlyClasses ==
    ASSUME CalendarTypes, \A i \in Calendar!Busy(Calendar!Listed(0, Slots), 0, Slots) : i.class
    PROVE  Calendar!Busy(Calendar!Listed(0, Slots), 0, Slots) = Calendar!Classes
<1> DEFINE L == Calendar!Listed(0, Slots)
           X == {v \in L : v.opaque}
           C == {v \in L : v.opaque /\ v.class /\ v.repeats # "unsupported"}
           near == {e \in L : e.repeats # "no" \/ Calendar!Overlaps(e, 0, Slots)}
<1>1. near = L
  BY DEF Calendar!Listed
<1>2. Calendar!Busy(L, 0, Slots) = {Calendar!WithCommute(i) : i \in UNION {Calendar!Expand(e, 0, Slots) : e \in X}}
  BY <1>1 DEF Calendar!Busy
<1>3. Calendar!Classes = {Calendar!WithCommute(i) : i \in UNION {Calendar!Expand(e, 0, Slots) : e \in C}}
  BY DEF Calendar!Classes
<1>4. \A e \in L : Timed(e)
  BY ListedEntries
<1>5. C \in SUBSET X /\ \A e \in X : e \in L /\ (e \notin C => ~e.class \/ e.repeats = "unsupported")
  OBVIOUS
<1> HIDE DEF X, C
<1>6. ASSUME NEW e \in X, NEW i \in Calendar!Expand(e, 0, Slots) PROVE e \in C
  <2>1. SUFFICES ASSUME e \notin C PROVE FALSE
    OBVIOUS
  <2>2. i.class = FALSE
    <3>1. CASE e.repeats = "unsupported"
      BY <1>6, <3>1 DEF Calendar!Expand, Calendar!Interval
    <3>2. CASE e.repeats # "unsupported"
      <4>1. i.class = e.class
        BY <1>6, <3>2 DEF Calendar!Expand, Calendar!Interval
      <4>2. ~e.class /\ e.class \in BOOLEAN
        BY <1>4, <1>5, <2>1, <3>2 DEF Timed
      <4> QED
        BY <4>1, <4>2
    <3> QED
      BY <3>1, <3>2
  <2>3. Calendar!WithCommute(i) = i
    BY <2>2 DEF Calendar!WithCommute
  <2>4. i \in Calendar!Busy(L, 0, Slots)
    BY <1>2, <1>6, <2>3
  <2> QED
    BY <2>2, <2>4
<1>7. UNION {Calendar!Expand(e, 0, Slots) : e \in X} = UNION {Calendar!Expand(e, 0, Slots) : e \in C}
  BY <1>5, <1>6
<1> QED
  BY <1>2, <1>3, <1>7

LEMMA ShownGapsAreBridged == CalendarTypes => Calendar!GapsAgree
<1> DEFINE all == Calendar!Busy(Calendar!Listed(0, Slots), 0, Slots)
           bare == {[c EXCEPT !.class = FALSE] : c \in Calendar!Classes}
           blocks == Calendar!MergeBusy(Calendar!Classes)
<1> SUFFICES ASSUME CalendarTypes, NEW g \in Calendar!GapsShown, NEW c \in 0..(Slots - 1), c \in Calendar!Slot(g),
                    \A i \in all : i.class
             PROVE  c \in Calendar!Taken(all) \union Calendar!Bridged(all)
  BY DEF Calendar!GapsAgree
<1>1. all = Calendar!Classes
  BY OnlyClasses
<1>2. Calendar!Classes \in SUBSET Span /\ IsFiniteSet(Calendar!Classes) /\ classFirst \in BOOLEAN
  BY ClassesSpans DEF CalendarTypes, EventTypes, DayTypes
<1>3. bare \in SUBSET Span /\ IsFiniteSet(bare)
  <2> DEFINE plain == [i \in Calendar!Classes |-> [i EXCEPT !.class = FALSE]]
  <2>1. bare = {plain[i] : i \in Calendar!Classes}
    OBVIOUS
  <2>2. \A i \in Calendar!Classes : plain[i] \in Span
    BY <1>2 DEF Span
  <2> HIDE DEF plain, bare
  <2> QED
    BY <1>2, <2>1, <2>2, ImageFinite
<1>4. /\ blocks \in Seq(Span)
      /\ \A d \in Int : Covers(blocks, d) <=> d \in Calendar!Taken(Calendar!Classes)
                                                     \union Calendar!Bridged(Calendar!Classes)
  BY <1>2, MergeCovers
<1>5. PICK x \in 1..Len(blocks) : g \in Calendar!Subtract(blocks[x], bare)
  <2>1. PICK b \in Calendar!Range(blocks) : g \in Calendar!Subtract(b, bare)
    BY DEF Calendar!GapsShown
  <2>2. DOMAIN blocks = 1..Len(blocks)
    BY <1>4
  <2> HIDE DEF blocks
  <2> QED
    BY <2>1, <2>2 DEF Calendar!Range
<1> HIDE DEF bare, blocks, all
<1>6. blocks[x] \in Span /\ c \in Int
  BY <1>4
<1>7. /\ Calendar!Subtract(blocks[x], bare) \in SUBSET Span
      /\ Slotted(Calendar!Subtract(blocks[x], bare), c) => blocks[x].start <= c /\ c < blocks[x].end
  BY <1>2, <1>3, <1>6, SubtractLeaves
<1>8. g.start <= c /\ c < g.end
  BY <1>5, <1>7 DEF Calendar!Slot, Span
<1>9. Covers(blocks, c)
  BY <1>5, <1>7, <1>8 DEF Slotted, Covers
<1> QED
  BY <1>1, <1>4, <1>6, <1>9

(* What is near a window is so whether it was loaded for it or for the day. *)
LEMMA WindowsLoadTheSame == CalendarTypes => Calendar!WindowsAgree
<1> SUFFICES ASSUME CalendarTypes, NEW w \in Calendar!Windows
             PROVE  Calendar!Between(Calendar!Listed(0, Slots), w[1], w[2])
                      = Calendar!Between(Calendar!Listed(w[1], w[2]), w[1], w[2])
  BY DEF Calendar!WindowsAgree
<1> DEFINE lo == w[1]
           hi == w[2]
<1>1. lo \in 0..Slots /\ hi \in 0..Slots /\ Slots \in Nat
  BY CalendarAssumption DEF Calendar!Windows
<1>2. \A e \in events : e.entry.start \in Int /\ e.entry.end \in Int
  BY DEF CalendarTypes, EventTypes, Timed
<1> HIDE DEF lo, hi
<1>3. {e \in Calendar!Listed(0, Slots) : e.repeats # "no" \/ Calendar!Overlaps(e, lo, hi)}
        = {e \in Calendar!Listed(lo, hi) : e.repeats # "no" \/ Calendar!Overlaps(e, lo, hi)}
  <2>1. \A e \in events : Calendar!Overlaps(e.entry, lo, hi) => Calendar!Overlaps(e.entry, 0, Slots)
    BY <1>1, <1>2 DEF Calendar!Overlaps
  <2> QED
    BY <2>1 DEF Calendar!Listed
<1>4. Calendar!Busy(Calendar!Listed(0, Slots), lo, hi) = Calendar!Busy(Calendar!Listed(lo, hi), lo, hi)
  BY <1>3 DEF Calendar!Busy
<1> QED
  BY <1>4 DEF Calendar!Between, lo, hi

-----------------------------------------------------------------------------
(* The study calendar. A removal that nothing overlapped knows all events of *)
(* its source, so that none is left.                                         *)

RemovalKnowsAll ==
    removing # None =>
        /\ removing.source \in Calendar!SourceIds
        /\ removing.source \notin raced => Calendar!Uids(Calendar!Rows(removing.source)) \subseteq removing.found

ImportInv == EventTypes /\ RemovalKnowsAll /\ Calendar!ImportsAreWhole

LEMMA OwnEventsKeep ==
    ASSUME ImportInv, UNCHANGED <<sources, removing, now, imported, raced>>,
           \A e \in events' : \/ e \in events
                              \/ e.source = Calendar!Manual /\ Timed(e.entry),
           \A e \in events : e \in events' \/ e.source = Calendar!Manual
    PROVE  ImportInv'
<1>1. \A s \in Calendar!SourceIds : Calendar!Rows(s)' = Calendar!Rows(s)
  BY DEF Calendar!Rows, Calendar!Manual, Calendar!SourceIds
<1>2. EventTypes'
  BY DEF ImportInv, EventTypes
<1>3. RemovalKnowsAll'
  BY <1>1 DEF ImportInv, RemovalKnowsAll, Calendar!Uids
<1>4. Calendar!ImportsAreWhole'
  BY <1>1 DEF ImportInv, Calendar!ImportsAreWhole
<1> QED
  BY <1>2, <1>3, <1>4 DEF ImportInv

LEMMA StoreKeeps ==
    ASSUME ImportInv, NEW s \in Calendar!SourceIds, NEW f \in CalendarFiles, Calendar!Store(s, f)
    PROVE  ImportInv'
<1> DEFINE stored == Calendar!Parsed(f, s)
<1>1. \A e \in stored : e.source = s /\ Timed(e.entry)
  BY CalendarAssumption DEF Calendar!Parsed, Calendar!Event, ImportInv, EventTypes
<1>2. /\ events' = (events \ Calendar!Rows(s)) \union stored
      /\ sources' = [sources EXCEPT ![s] = f]
      /\ imported' = [imported EXCEPT ![s] = stored]
      /\ raced' = IF removing # None /\ removing.source = s THEN raced \union {s} ELSE raced \ {s}
      /\ UNCHANGED <<removing, now>>
  BY DEF Calendar!Store
<1> HIDE DEF stored
<1>3. /\ Calendar!Rows(s)' = stored
      /\ \A o \in Calendar!SourceIds \ {s} : Calendar!Rows(o)' = Calendar!Rows(o)
  BY <1>1, <1>2 DEF Calendar!Rows
<1>4. EventTypes'
  BY <1>1, <1>2 DEF ImportInv, EventTypes
<1>5. RemovalKnowsAll'
  BY <1>2, <1>3 DEF ImportInv, RemovalKnowsAll, Calendar!Uids
<1>6. Calendar!ImportsAreWhole'
  <2>1. f # None
    BY CalendarAssumption
  <2>2. \A o \in Calendar!SourceIds : /\ sources'[o] = IF o = s THEN f ELSE sources[o]
                                      /\ imported'[o] = IF o = s THEN stored ELSE imported[o]
    BY <1>2 DEF ImportInv, EventTypes
  <2>3. ASSUME NEW o \in Calendar!SourceIds, sources'[o] # None, o \notin raced'
        PROVE  Calendar!Rows(o)' = imported'[o]
    <3>1. CASE o = s
      BY <1>3, <2>2, <3>1
    <3>2. CASE o # s
      BY <1>2, <1>3, <2>2, <2>3, <3>2 DEF ImportInv, Calendar!ImportsAreWhole
    <3> QED
      BY <3>1, <3>2
  <2>4. ASSUME NEW e \in events', e.source # Calendar!Manual, sources'[e.source] = None
        PROVE  e.source \in raced'
    <3>1. e.source \in Calendar!SourceIds /\ e.source # s /\ e \in events
      BY <1>1, <1>2, <1>4, <2>1, <2>2, <2>4 DEF EventTypes
    <3> QED
      BY <1>2, <2>2, <2>4, <3>1 DEF ImportInv, Calendar!ImportsAreWhole
  <2> QED
    BY <2>3, <2>4 DEF Calendar!ImportsAreWhole
<1> QED
  BY <1>4, <1>5, <1>6 DEF ImportInv

LEMMA RemovalKeeps ==
    ASSUME ImportInv, Calendar!EndRemoval \/ \E s \in Calendar!SourceIds : Calendar!BeginRemoval(s)
    PROVE  ImportInv'
<1>1. ASSUME NEW s \in Calendar!SourceIds, Calendar!BeginRemoval(s) PROVE ImportInv'
  <2>1. /\ removing' = [source |-> s, found |-> Calendar!Uids(Calendar!Rows(s))]
        /\ UNCHANGED <<events, sources, now, imported, raced>>
    BY <1>1 DEF Calendar!BeginRemoval, Calendar!calendar
  <2> QED
    BY <2>1 DEF ImportInv, EventTypes, RemovalKnowsAll, Calendar!ImportsAreWhole, Calendar!Uids,
                Calendar!Rows
<1>2. CASE Calendar!EndRemoval
  <2> DEFINE s == removing.source
  <2>1. /\ removing # None /\ removing' = None
        /\ events' = {e \in events : ~(e.source = s /\ e.uid \in removing.found)}
        /\ sources' = [sources EXCEPT ![s] = None]
        /\ UNCHANGED <<now, imported, raced>>
    BY <1>2 DEF Calendar!EndRemoval
  <2>2. s \in Calendar!SourceIds /\ (s \notin raced => \A e \in events' : e.source # s)
    BY <2>1 DEF ImportInv, RemovalKnowsAll, Calendar!Uids, Calendar!Rows
  <2>3. \A o \in Calendar!SourceIds \ {s} : Calendar!Rows(o)' = Calendar!Rows(o) /\ sources'[o] = sources[o]
    BY <2>1 DEF Calendar!Rows, ImportInv, EventTypes
  <2>4. sources'[s] = None /\ DOMAIN sources' = Calendar!SourceIds
    BY <2>1, <2>2 DEF ImportInv, EventTypes
  <2>5. EventTypes' /\ RemovalKnowsAll'
    BY <2>1, <2>4 DEF ImportInv, EventTypes, RemovalKnowsAll
  <2>6. Calendar!ImportsAreWhole'
    <3>1. ASSUME NEW o \in Calendar!SourceIds, sources'[o] # None, o \notin raced'
          PROVE  Calendar!Rows(o)' = imported'[o]
      BY <2>1, <2>3, <2>4, <3>1 DEF ImportInv, Calendar!ImportsAreWhole
    <3>2. ASSUME NEW e \in events', e.source # Calendar!Manual, sources'[e.source] = None
          PROVE  e.source \in raced'
      BY <2>1, <2>2, <2>3, <2>5, <3>2 DEF ImportInv, EventTypes, Calendar!ImportsAreWhole
    <3> QED
      BY <3>1, <3>2 DEF Calendar!ImportsAreWhole
  <2> QED
    BY <2>5, <2>6 DEF ImportInv
<1> QED
  BY <1>1, <1>2

-----------------------------------------------------------------------------
(* What holds of the study calendar between any two steps.                  *)
CalendarInv == ImportInv /\ DayTypes

LEMMA ImportsKeep ==
    ASSUME ImportInv, [Calendar!Next]_(Calendar!vars)
    PROVE  ImportInv'
<1> USE DEF Calendar!imports, Calendar!calendar
<1>1. ASSUME NEW e \in Entries,
             \/ Calendar!CreateEvent(e)
             \/ \E old \in events : Calendar!UpdateEvent(old, e)
      PROVE  ImportInv'
  <2>1. /\ Calendar!Event(Calendar!Manual, None, e).source = Calendar!Manual
        /\ Timed(Calendar!Event(Calendar!Manual, None, e).entry)
    BY CalendarAssumption DEF Calendar!Event
  <2> QED
    BY <1>1, <2>1, OwnEventsKeep DEF Calendar!CreateEvent, Calendar!UpdateEvent
<1>2. CASE \E old \in events : Calendar!DeleteEvent(old)
  BY <1>2, OwnEventsKeep DEF Calendar!DeleteEvent
<1>3. CASE UNCHANGED <<events, sources, removing, now, imported, raced>>
  BY <1>3, OwnEventsKeep
<1>4. ASSUME NEW f \in CalendarFiles,
             Calendar!Import(f) \/ \E s \in Calendar!SourceIds, yes \in BOOLEAN : Calendar!Reimport(s, f, yes)
      PROVE  ImportInv'
  BY <1>4, StoreKeeps DEF Calendar!Import, Calendar!Reimport
<1>5. CASE Calendar!EndRemoval \/ \E s \in Calendar!SourceIds : Calendar!BeginRemoval(s)
  BY <1>5, RemovalKeeps
<1>6. CASE Calendar!Later
  BY <1>6 DEF Calendar!Later, ImportInv, EventTypes, RemovalKnowsAll, Calendar!ImportsAreWhole,
              Calendar!Rows, Calendar!Uids
<1>7. CASE \/ \E h, o \in Hours : Calendar!ReplaceRules(h, o)
           \/ \E h \in Hours, d \in {"day", "other"} : Calendar!SetWeekday(d, h)
           \/ \E h \in Hours \union {None} : Calendar!SetOverride(h)
           \/ \E m \in Commutes : Calendar!SetCommute(m)
           \/ UNCHANGED Calendar!vars
  BY <1>3, <1>7
  DEF Calendar!ReplaceRules, Calendar!SetWeekday, Calendar!SetOverride, Calendar!SetCommute, Calendar!vars
<1> QED
  BY <1>1, <1>2, <1>3, <1>4, <1>5, <1>6, <1>7 DEF Calendar!Next

LEMMA DayTypesKeep ==
    ASSUME EventTypes, DayTypes, [Calendar!Next]_(Calendar!vars)
    PROVE  DayTypes'
<1> USE DEF Calendar!imports, Calendar!calendar
<1>1. ASSUME NEW rows, IsFiniteSet(rows), events' \in SUBSET (events \union rows),
             UNCHANGED <<rules, override, commute, classFirst>>
      PROVE  DayTypes'
  <2>1. IsFiniteSet(events \union rows)
    BY <1>1, FS_Union DEF DayTypes
  <2>2. IsFiniteSet(events')
    BY <1>1, <2>1, FS_Subset
  <2> QED
    BY <1>1, <2>2 DEF DayTypes
<1>2. ASSUME NEW e \in Entries,
             \/ Calendar!CreateEvent(e)
             \/ \E old \in events : Calendar!UpdateEvent(old, e)
      PROVE  DayTypes'
  <2>1. IsFiniteSet({Calendar!Event(Calendar!Manual, None, e)})
    BY FS_Singleton
  <2> QED
    BY <1>1, <1>2, <2>1 DEF Calendar!CreateEvent, Calendar!UpdateEvent
<1>3. ASSUME events' \in SUBSET events, UNCHANGED <<rules, override, commute, classFirst>> PROVE DayTypes'
  BY <1>1, <1>3, FS_EmptySet
<1>4. ASSUME NEW f \in CalendarFiles,
             Calendar!Import(f) \/ \E s \in Calendar!SourceIds, yes \in BOOLEAN : Calendar!Reimport(s, f, yes)
      PROVE  DayTypes'
  <2>1. PICK s \in Calendar!SourceIds : Calendar!Store(s, f)
    BY <1>4 DEF Calendar!Import, Calendar!Reimport
  <2> DEFINE row == [p \in Expansion[f][now] |-> Calendar!Event(s, p.uid, p.entry)]
  <2>2. Calendar!Parsed(f, s) = {row[p] : p \in Expansion[f][now]}
    BY DEF Calendar!Parsed
  <2>3. IsFiniteSet(Expansion[f][now])
    BY CalendarAssumption DEF EventTypes
  <2> HIDE DEF row
  <2>4. IsFiniteSet(Calendar!Parsed(f, s))
    BY <2>2, <2>3, ImageFinite
  <2> QED
    BY <1>1, <2>1, <2>4 DEF Calendar!Store
<1>5. CASE Calendar!EndRemoval \/ \E s \in Calendar!SourceIds : Calendar!BeginRemoval(s)
  BY <1>3, <1>5 DEF Calendar!EndRemoval, Calendar!BeginRemoval
<1>6. ASSUME NEW h \in Hours, NEW o \in Hours,
             Calendar!ReplaceRules(h, o) \/ \E d \in {"day", "other"} : Calendar!SetWeekday(d, h)
      PROVE  DayTypes'
  <2>1. h \in Seq(HourRows) /\ o \in Seq(HourRows)
    BY CalendarAssumption
  <2>2. rules' \in [{"day", "other"} -> Seq(HourRows)] /\ UNCHANGED <<events, override, commute, classFirst>>
    BY <1>6, <2>1 DEF Calendar!ReplaceRules, Calendar!SetWeekday, DayTypes
  <2> QED
    BY <2>2 DEF DayTypes
<1>7. CASE \/ \E h \in Hours \union {None} : Calendar!SetOverride(h)
           \/ \E m \in Commutes : Calendar!SetCommute(m)
  BY <1>7, CalendarAssumption DEF Calendar!SetOverride, Calendar!SetCommute, DayTypes
<1>8. CASE \/ \E old \in events : Calendar!DeleteEvent(old)
           \/ Calendar!Later \/ UNCHANGED Calendar!vars
  BY <1>3, <1>8 DEF Calendar!DeleteEvent, Calendar!Later, Calendar!vars
<1> QED
  BY <1>1, <1>2, <1>4, <1>5, <1>6, <1>7, <1>8 DEF Calendar!Next

(* Whatever the user enters and whichever files are imported, imported anew *)
(* and removed: the minutes offered for study are those that are free, and  *)
(* the same for a window whatever it was loaded with; what is drawn as a    *)
(* short gap between classes is not offered where nothing but classes is    *)
(* entered; and an imported calendar is whole or gone, but for the sources  *)
(* whose removal overlapped an import (services/calendar_capacity.py,       *)
(* calendar_view.py, ics_calendar.py).                                      *)
THEOREM FreeTimeStaysReal == Calendar!Spec => []FreeTimeIsReal
<1>1. Calendar!Init => CalendarInv
  <2> SUFFICES ASSUME Calendar!Init PROVE CalendarInv
    OBVIOUS
  <2>1. ImportInv
    BY DEF Calendar!Init, ImportInv, EventTypes, RemovalKnowsAll, Calendar!ImportsAreWhole, Calendar!Rows
  <2>2. rules \in [{"day", "other"} -> Seq(HourRows)]
    <3>1. <<>> \in Seq(HourRows)
      OBVIOUS
    <3> QED
      BY <3>1 DEF Calendar!Init
  <2>3. DayTypes
    BY <2>2, CalendarAssumption, FS_EmptySet DEF Calendar!Init, DayTypes
  <2> QED
    BY <2>1, <2>3 DEF CalendarInv
<1>2. CalendarInv /\ [Calendar!Next]_(Calendar!vars) => CalendarInv'
  BY ImportsKeep, DayTypesKeep DEF CalendarInv, ImportInv
<1>3. CalendarInv => FreeTimeIsReal
  BY CountsWhatIsFree, WindowsLoadTheSame, ShownGapsAreBridged
  DEF CalendarInv, ImportInv, CalendarTypes, FreeTimeIsReal, Calendar!FreeTimeIsReal
<1> QED
  BY <1>1, <1>2, <1>3, PTL DEF Calendar!Spec
============================================================================
