--------------------------- MODULE CanvasRouting ---------------------------
(***************************************************************************)
(* backend/app/sources/canvas_routing.py: a read of the Canvas API that is *)
(* routed to the effective credential of one credential id and fails over  *)
(* to the other installed methods.  Readers run in the scheduler's and in  *)
(* the API's event loop; while they wait for Canvas, the user replaces,    *)
(* removes and selects methods, secrets are revoked at Canvas, and other   *)
(* readers fail over.                                                      *)
(*                                                                         *)
(* The store is CredentialStore reduced to what a reader sees.  Preemptive *)
(* says whether threads may switch between the reads of the store by which *)
(* a reader takes up a method, each of which takes the store's lock anew   *)
(* (get_canvas, canvas_slot, generation, recently_verified); when it is    *)
(* FALSE they switch only where the reader awaits.  Check is one step      *)
(* either way: the removal that follows it compares the generation again.  *)
(***************************************************************************)
EXTENDS Naturals, FiniteSets

CONSTANTS
    Modes,         \* the methods in use, among those of Rank
    Secrets,       \* tokens and cookie jars
    Readers,       \* reads, each made once
    None,          \* no secret, mode or reader
    MaxGeneration, \* bound on the user's changes, per method
    Preemptive

(* CanvasAuthMode: the order in which methods are tried. *)
Rank == [oauth |-> 1, pat |-> 2, browser_session |-> 3]

ASSUME RoutingAssumption ==
    /\ Modes \subseteq DOMAIN Rank
    /\ None \notin Modes \union Secrets \union Readers
    /\ MaxGeneration \in Nat \ {0}
    /\ Preemptive \in BOOLEAN

VARIABLES
    slot, generation, effective, preferred,   \* of the store
    status,      \* VALID is also recently verified, STALE is not
    quality,     \* what Canvas thinks of each secret
    routing,     \* the reader that holds the routing lock
    pc,          \* where each reader stands
    attempted,   \* the methods it tried
    mode,        \* the method it is trying ...
    secret,      \* ... with this secret ...
    fence,       \* ... of this generation
    profile,     \* it reads the user's profile, which is itself a probe
    outcome,     \* how it ended
    disturbed    \* history: the user changed or selected a method meanwhile

store == <<slot, generation, effective, preferred, status>>
readers == <<pc, attempted, mode, secret, fence, outcome>>
vars == <<store, quality, routing, readers, profile, disturbed>>

Waiting == {"choosing", "reading", "numbering", "sent", "rejected", "checking",
            "probing", "switching", "reading_backup", "numbering_backup", "trusting",
           "probing_backup"}
Locked == {"checking", "probing", "switching", "reading_backup", "numbering_backup", "trusting",
           "probing_backup"}

TypeOK ==
    /\ slot \in [Modes -> Secrets \union {None}]
    /\ generation \in [Modes -> Nat]
    /\ effective \in Modes \union {None}
    /\ preferred \in Modes
    /\ status \in [Modes -> {"VALID", "STALE", "INVALID", "DISABLED"}]
    /\ quality \in [Secrets -> {"good", "bad", "foreign"}]
    /\ routing \in Readers \union {None}
    /\ pc \in [Readers -> Waiting \union {"ready", "done"}]
    /\ attempted \in [Readers -> SUBSET Modes]
    /\ mode \in [Readers -> Modes \union {None}]
    /\ secret \in [Readers -> Secrets \union {None}]
    /\ fence \in [Readers -> Nat]
    /\ profile \in [Readers -> BOOLEAN]
    /\ outcome \in [Readers -> {"none", "answered", "auth_required", "denied", "other"}]
    /\ disturbed \in [Readers -> BOOLEAN]

Present(s) == {m \in Modes : s[m] # None}
Best(s, p) == IF p \in Present(s) THEN p
              ELSE CHOOSE m \in Present(s) : \A o \in Present(s) : Rank[m] <= Rank[o]
RoutePreferred(s) == IF preferred \in Present(s) THEN preferred ELSE None  \* seeded
Route(s) == IF Present(s) = {} THEN None ELSE Best(s, preferred)

(* A start after restored credentials: nothing is verified yet. *)
Init ==
    /\ slot \in [Modes -> Secrets \union {None}]
    /\ generation = [m \in Modes |-> IF slot[m] = None THEN 0 ELSE 1]
    /\ preferred \in Modes
    /\ effective = Route(slot)
    /\ status = [m \in Modes |-> "STALE"]
    /\ quality \in [Secrets -> {"good", "bad", "foreign"}]
    /\ routing = None
    /\ pc = [r \in Readers |-> "ready"]
    /\ attempted = [r \in Readers |-> {}]
    /\ mode = [r \in Readers |-> None]
    /\ secret = [r \in Readers |-> None]
    /\ fence = [r \in Readers |-> 0]
    /\ profile \in [Readers -> BOOLEAN]
    /\ outcome = [r \in Readers |-> "none"]
    /\ disturbed = [r \in Readers |-> FALSE]

-----------------------------------------------------------------------------
(* The user and Canvas. *)

Disturb == disturbed' = [r \in Readers |-> pc[r] \in Waiting]

(* A method is installed after its probe succeeded, for the same account. *)
Install(m, s) ==
    /\ generation[m] < MaxGeneration
    /\ quality[s] # "foreign"
    /\ slot' = [slot EXCEPT ![m] = s]
    /\ generation' = [generation EXCEPT ![m] = @ + 1]
    /\ effective' = Route(slot')
    /\ status' = [status EXCEPT ![m] = "VALID"]
    /\ Disturb
    /\ UNCHANGED <<preferred, quality, routing, readers, profile>>

Disconnect(m) ==
    /\ generation[m] < MaxGeneration
    /\ slot' = [slot EXCEPT ![m] = None]
    /\ generation' = [generation EXCEPT ![m] = @ + 1]
    /\ effective' = IF slot[m] = None THEN effective ELSE Route(slot')
    /\ status' = [status EXCEPT ![m] = "DISABLED"]
    /\ Disturb
    /\ UNCHANGED <<preferred, quality, routing, readers, profile>>

Select(m) ==
    /\ preferred' = m
    /\ effective' = IF slot[m] = None THEN effective ELSE m
    /\ Disturb
    /\ UNCHANGED <<slot, generation, status, quality, routing, readers, profile>>

Revoke(s) ==
    /\ quality[s] = "good"
    /\ quality' = [quality EXCEPT ![s] = "bad"]
    /\ UNCHANGED <<store, routing, readers, profile, disturbed>>

(* recently_verified: 900 seconds pass. *)
Forget(m) ==
    /\ status[m] = "VALID"
    /\ status' = [status EXCEPT ![m] = "STALE"]
    /\ UNCHANGED <<slot, generation, effective, preferred, quality, routing,
                   readers, profile, disturbed>>

-----------------------------------------------------------------------------
(* The steps of a reader. *)

(* What the profile endpoint answers.  A removed credential is emptied in  *)
(* place, so whoever still holds it is told to authenticate.               *)
ProbeAnswers(m, s) ==
    (IF quality[s] = "good" THEN {"same"} ELSE IF quality[s] = "bad" THEN {"rejected"} ELSE {"foreign"})
    \union (IF slot[m] = s THEN {} ELSE {"rejected"})

(* Any endpoint may answer with a sign-in page; a revoked secret only that. *)
Answers(r) ==
    IF profile[r] THEN ProbeAnswers(mode[r], secret[r])
    ELSE {"rejected"} \union IF quality[secret[r]] = "bad" THEN {} ELSE {"same"}

Go(r, to) == pc' = [pc EXCEPT ![r] = to]
Release(r) == routing' = IF routing = r THEN None ELSE routing

(* The locals of a pass through the loop, and of the read. *)
Drop(r) ==
    /\ mode' = [mode EXCEPT ![r] = None]
    /\ secret' = [secret EXCEPT ![r] = None]
    /\ fence' = [fence EXCEPT ![r] = 0]

End(r, o) ==
    /\ Go(r, "done")
    /\ outcome' = [outcome EXCEPT ![r] = o]
    /\ attempted' = [attempted EXCEPT ![r] = {}]
    /\ Drop(r)
    /\ Release(r)

AgainHolding(r) ==  \* seeded: continue skips the release
    /\ Go(r, "choosing")
    /\ Drop(r)
    /\ UNCHANGED <<routing, outcome>>
Again(r) ==
    /\ Go(r, "choosing")
    /\ routing' = None
    /\ Drop(r)
    /\ UNCHANGED outcome

Start(r) ==
    /\ pc[r] = "ready"
    /\ Go(r, "choosing")
    /\ UNCHANGED <<store, quality, routing, attempted, mode, secret, fence, outcome,
                   profile, disturbed>>

(* get_canvas, and _client unless other threads may come in between. *)
Choose(r) ==
    /\ pc[r] = "choosing"
    /\ IF effective \in attempted[r] \union {None} \/ attempted[r] = Modes
       THEN End(r, "auth_required")
       ELSE /\ attempted' = [attempted EXCEPT ![r] = @ \union {effective}]
            /\ mode' = [mode EXCEPT ![r] = effective]
            /\ IF Preemptive
               THEN Go(r, "reading") /\ UNCHANGED <<secret, fence>>
               ELSE /\ Go(r, "sent")
                    /\ secret' = [secret EXCEPT ![r] = slot[effective]]
                    /\ fence' = [fence EXCEPT ![r] = generation[effective]]
            /\ UNCHANGED <<outcome, routing>>
    /\ UNCHANGED <<store, quality, profile, disturbed>>

(* _client *)
ReadSlot(r) ==
    /\ pc[r] \in {"reading", "reading_backup"}
    /\ IF slot[mode[r]] = None
       THEN End(r, "auth_required")
       ELSE /\ secret' = [secret EXCEPT ![r] = slot[mode[r]]]
            /\ Go(r, IF pc[r] = "reading" THEN "numbering" ELSE "numbering_backup")
            /\ UNCHANGED <<attempted, mode, fence, outcome, routing>>
    /\ UNCHANGED <<store, quality, profile, disturbed>>

ReadGeneration(r) ==
    /\ pc[r] \in {"numbering", "numbering_backup"}
    /\ fence' = [fence EXCEPT ![r] = generation[mode[r]]]
    /\ Go(r, IF pc[r] = "numbering" THEN "sent" ELSE "trusting")
    /\ UNCHANGED <<store, quality, routing, attempted, mode, secret, outcome, profile, disturbed>>

Receive(r) ==
    /\ pc[r] = "sent"
    /\ \/ "rejected" \in Answers(r) /\ Go(r, "rejected") /\ UNCHANGED <<outcome, routing,
                                                                      attempted, mode, secret, fence>>
       \/ Answers(r) # {"rejected"} /\ End(r, "answered")
    /\ UNCHANGED <<store, quality, profile, disturbed>>

Acquire(r) ==
    /\ pc[r] = "rejected"
    /\ routing = None
    /\ routing' = r
    /\ Go(r, "checking")
    /\ UNCHANGED <<store, quality, attempted, mode, secret, fence, outcome, profile, disturbed>>

(* The method was replaced, unless another reader just invalidated it. *)
Overtaken(r) ==
    /\ generation[mode[r]] # fence[r]
    /\ ~ /\ generation[mode[r]] = fence[r] + 1
         /\ slot[mode[r]] = None
         /\ status[mode[r]] = "INVALID"

RemovedAnyway(m, g) == TRUE  \* seeded: the generation is not compared
MayRemove(m, g) == generation[m] = g

(* remove_canvas_slot(mode, generation), state INVALID *)
Invalidate(m, g) ==
    IF MayRemove(m, g)
    THEN /\ slot' = [slot EXCEPT ![m] = None]
         /\ generation' = [generation EXCEPT ![m] = @ + 1]
         /\ effective' = IF slot[m] = None THEN effective ELSE Route(slot')
         /\ status' = [status EXCEPT ![m] = "INVALID"]
         /\ UNCHANGED preferred
    ELSE UNCHANGED store

MarkVerified(m) ==
    /\ status' = [status EXCEPT ![m] = "VALID"]
    /\ UNCHANGED <<slot, generation, effective, preferred>>

Check(r) ==
    /\ pc[r] = "checking"
    /\ \/ Overtaken(r) /\ End(r, "other") /\ UNCHANGED store
       \/ /\ ~Overtaken(r)
          /\ IF slot[mode[r]] = None
             THEN Go(r, "switching") /\ UNCHANGED store
             ELSE IF profile[r]
             THEN Go(r, "switching") /\ Invalidate(mode[r], fence[r])
             ELSE Go(r, "probing") /\ UNCHANGED store
          /\ UNCHANGED <<routing, attempted, mode, secret, fence, outcome>>
    /\ UNCHANGED <<quality, profile, disturbed>>

(* The failure is believed only if the same credential fails a probe. *)
SameProbe(r) == ProbeAnswers(mode[r], secret[r])

Probe(r) ==
    /\ pc[r] = "probing"
    /\ \/ /\ "rejected" \in SameProbe(r)
          /\ Invalidate(mode[r], fence[r])
          /\ Go(r, "switching")
          /\ UNCHANGED <<routing, attempted, mode, secret, fence, outcome>>
       \/ "foreign" \in SameProbe(r) /\ Invalidate(mode[r], fence[r]) /\ End(r, "denied")
       \/ "same" \in SameProbe(r) /\ MarkVerified(mode[r]) /\ End(r, "denied")
    /\ UNCHANGED <<quality, profile, disturbed>>

(* The backup is trusted if it was verified lately, else probed first. *)
Switch(r) ==
    /\ pc[r] = "switching"
    /\ IF effective \in attempted[r] \union {None}
       THEN End(r, "auth_required")
       ELSE IF Preemptive
       THEN /\ Go(r, "reading_backup")
            /\ mode' = [mode EXCEPT ![r] = effective]
            /\ UNCHANGED <<attempted, secret, fence, routing, outcome>>
       ELSE IF status[effective] = "VALID"
       THEN Again(r) /\ UNCHANGED attempted
       ELSE /\ Go(r, "probing_backup")
            /\ mode' = [mode EXCEPT ![r] = effective]
            /\ secret' = [secret EXCEPT ![r] = slot[effective]]
            /\ fence' = [fence EXCEPT ![r] = generation[effective]]
            /\ UNCHANGED <<attempted, routing, outcome>>
    /\ UNCHANGED <<store, quality, profile, disturbed>>

Trust(r) ==
    /\ pc[r] = "trusting"
    /\ \/ status[mode[r]] = "VALID" /\ Again(r) /\ UNCHANGED attempted
       \/ /\ status[mode[r]] # "VALID" /\ Go(r, "probing_backup")
          /\ UNCHANGED <<attempted, mode, secret, fence, routing, outcome>>
    /\ UNCHANGED <<store, quality, profile, disturbed>>

ProbeBackup(r) ==
    /\ pc[r] = "probing_backup"
    /\ \/ /\ "rejected" \in ProbeAnswers(mode[r], secret[r])
          /\ Invalidate(mode[r], fence[r])
          /\ attempted' = [attempted EXCEPT ![r] = @ \union {mode[r]}]
          /\ Again(r)
       \/ /\ "foreign" \in ProbeAnswers(mode[r], secret[r])
          /\ Invalidate(mode[r], fence[r])
          /\ End(r, "denied")
       \/ /\ "same" \in ProbeAnswers(mode[r], secret[r])
          /\ IF generation[mode[r]] # fence[r]
             THEN End(r, "other") /\ UNCHANGED store
             ELSE /\ MarkVerified(mode[r])
                  /\ Again(r)
                  /\ UNCHANGED attempted
    /\ UNCHANGED <<quality, profile, disturbed>>

(* Network errors, a vault that does not take the removal, and cancelling  *)
(* end the read with the lock released and the store unchanged.            *)
GiveUp(r) ==
    /\ pc[r] \in Waiting
    /\ End(r, "other")
    /\ UNCHANGED <<store, quality, profile, disturbed>>

Read(r) ==
    \/ Choose(r) \/ ReadSlot(r) \/ ReadGeneration(r) \/ Receive(r) \/ Acquire(r)
    \/ Check(r) \/ Probe(r) \/ Switch(r) \/ Trust(r) \/ ProbeBackup(r)

AllDone == (\A r \in Readers : pc[r] = "done") /\ UNCHANGED vars

Next ==
    \/ \E m \in Modes, s \in Secrets : Install(m, s)
    \/ \E m \in Modes : Disconnect(m) \/ Select(m) \/ Forget(m)
    \/ \E s \in Secrets : Revoke(s)
    \/ \E r \in Readers : Start(r) \/ Read(r) \/ GiveUp(r)
    \/ AllDone

Spec == Init /\ [][Next]_vars

(* Canvas answers or the client times out, and a free lock is taken. *)
FairSpec == Spec /\ \A r \in Readers : WF_vars(Read(r))

-----------------------------------------------------------------------------
(* "Never clear a replacement or a healthy backup" (auth.py:556-557), and  *)
(* test_late_failure_cannot_remove_replacement (test_v061_auth.py:60): a   *)
(* reader removes a method only if Canvas refuses, or assigns to another   *)
(* account, the very secret that is installed then.                        *)
HealthyStays ==
    \A r \in Readers, m \in Modes :
        Read(r) /\ slot[m] # None /\ slot'[m] = None => quality[slot[m]] # "good"

NoHealthyRemoved == [][HealthyStays]_vars

(* Failover is complete: without a change by the user, authentication is   *)
(* reported as required only when no installed method is good              *)
(* (canvas_routing.py:46-116).                                             *)
NothingGoodIsLeft ==
    \A r \in Readers :
        outcome[r] = "none" /\ outcome'[r] = "auth_required" /\ ~disturbed[r] =>
            \A m \in Modes : slot[m] = None \/ quality[slot[m]] # "good"

FailoverIsComplete == [][NothingGoodIsLeft]_vars

(* The routing lock is held exactly by the reader that switches: it is     *)
(* never leaked, and a switch is never made by two (canvas_routing.py:23-32). *)
LockIsHeldBySwitcher ==
    \A r \in Readers : pc[r] \in Locked <=> routing = r

(* Every read ends, however methods fail and whoever else is switching. *)
EveryReadEnds == \A r \in Readers : pc[r] = "choosing" ~> pc[r] = "done"
=============================================================================
