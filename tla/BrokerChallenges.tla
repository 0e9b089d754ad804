-------------------------- MODULE BrokerChallenges --------------------------
(***************************************************************************)
(* backend/app/auth/broker_challenges.py and its handlers in               *)
(* backend/app/api/broker.py: single-use capabilities with which a browser *)
(* sign-in on the user's desktop logs a profile in, clears it, or clears   *)
(* every profile.  The challenge store's methods run under its lock; a     *)
(* completing request gives that lock up while it probes the provider, so  *)
(* cancels, newer attempts, the deadline, other changes of the session and *)
(* a restart all fall between its first and its last step.                 *)
(*                                                                         *)
(* The tokens are abstracted to the right to take the step they authorise; *)
(* a session to the challenge that installed it.  Left out: the profile's  *)
(* row in the database, launch URLs, failure reasons.                      *)
(***************************************************************************)
EXTENDS Naturals, FiniteSets

CONSTANTS
    Challenges,     \* challenge ids
    Profiles,       \* profiles with a browser session, Canvas or provider
    All,            \* the target of clear_all
    Other,          \* whoever else installs a session
    None,           \* no session
    Limit,          \* rows the store holds at most (64 in the code)
    MaxGeneration   \* bound on the generation counters

ASSUME BrokerAssumption ==
    /\ All \notin Profiles
    /\ {Other, None} \cap Challenges = {}
    /\ Other # None
    /\ Limit \in Nat \ {0}
    /\ MaxGeneration \in Nat \ {0}

VARIABLES
    listed,      \* the challenges in ChallengeStore.rows
    state,       \* Challenge.state; DRAFT before create, UNUSED before that
    claimed,     \* Challenge.claimed
    finishing,   \* Challenge.finishing
    age,         \* deadline passed (overdue), and passed by 300 s (stale)
    target,      \* the target's credential id
    operation,   \* the target's operation
    known,       \* the target's generations
    request,     \* the completing request: waiting for the probe, or raised
    session,     \* who installed each profile's session
    generation,  \* credential_store / provider_sessions generations
    touched,     \* history: profiles changed since a challenge captured them
    published    \* history: the challenges whose publication took effect

rows == <<listed, state, claimed, finishing, age, target, operation, known>>
slots == <<session, generation, touched>>
vars == <<rows, request, slots, published>>

LiveStates == {"WAITING_FOR_USER", "LOGIN_OPENED"}
FinalStates == {"AUTHENTICATED", "CANCELLED", "TIMED_OUT", "FAILED"}

TypeOK ==
    /\ listed \in SUBSET Challenges
    /\ state \in [Challenges -> {"UNUSED", "DRAFT"} \union LiveStates \union FinalStates]
    /\ claimed \in [Challenges -> BOOLEAN]
    /\ finishing \in [Challenges -> BOOLEAN]
    /\ age \in [Challenges -> {"fresh", "overdue", "stale"}]
    /\ target \in [Challenges -> Profiles \union {All}]
    /\ operation \in [Challenges -> {"login", "clear", "clear_all"}]
    /\ known \in [Challenges -> [Profiles -> 0..MaxGeneration]]
    /\ request \in [Challenges -> {"none", "probing", "raised"}]
    /\ session \in [Profiles -> Challenges \union {Other, None}]
    /\ generation \in [Profiles -> 0..MaxGeneration]
    /\ touched \in [Challenges -> SUBSET Profiles]
    /\ published \in SUBSET Challenges

Init ==
    /\ listed = {}
    /\ state = [c \in Challenges |-> "UNUSED"]
    /\ claimed = [c \in Challenges |-> FALSE]
    /\ finishing = [c \in Challenges |-> FALSE]
    /\ age = [c \in Challenges |-> "fresh"]
    /\ target = [c \in Challenges |-> All]
    /\ operation = [c \in Challenges |-> "clear_all"]
    /\ known = [c \in Challenges |-> [p \in Profiles |-> 0]]
    /\ request = [c \in Challenges |-> "none"]
    /\ session = [p \in Profiles |-> None]
    /\ generation = [p \in Profiles |-> 0]
    /\ touched = [c \in Challenges |-> {}]
    /\ published = {}

-----------------------------------------------------------------------------
(* A session changes: its generation advances, and whoever captured the    *)
(* old one is behind.                                                      *)
Change(P, who) ==
    /\ \A p \in P : generation[p] < MaxGeneration
    /\ session' = [p \in Profiles |-> IF p \in P THEN who ELSE session[p]]
    /\ generation' = [p \in Profiles |-> IF p \in P THEN generation[p] + 1
                                         ELSE generation[p]]
    /\ touched' = [c \in Challenges |-> IF state[c] = "UNUSED" THEN touched[c]
                                        ELSE touched[c] \union P]

(* Elsewhere in the backend a session is set or removed. *)
Elsewhere(p) ==
    /\ \E who \in {Other, None} : Change({p}, who)
    /\ UNCHANGED <<rows, request, published>>

-----------------------------------------------------------------------------
(* POST /challenges reads the generations first ... *)
Prepare(c, t, op) ==
    /\ state[c] = "UNUSED"
    /\ (t = All) <=> (op = "clear_all")
    /\ state' = [state EXCEPT ![c] = "DRAFT"]
    /\ target' = [target EXCEPT ![c] = t]
    /\ operation' = [operation EXCEPT ![c] = op]
    /\ known' = [known EXCEPT ![c] =
                     [p \in Profiles |-> IF t \in {p, All} THEN generation[p] ELSE 0]]
    /\ touched' = [touched EXCEPT ![c] = {}]
    /\ UNCHANGED <<listed, claimed, finishing, age, request, session, generation, published>>

(* ... and creates the row: long expired rows go, and a pending attempt    *)
(* for the same target is superseded.                                      *)
Kept == {d \in listed : age[d] # "stale"}

SupersedesAny(c, d) == d \in Kept /\ target[d] = target[c]  \* seeded: state not looked at
Supersedes(c, d) == d \in Kept /\ target[d] = target[c] /\ state[d] \in LiveStates

Create(c) ==
    /\ state[c] = "DRAFT"
    /\ Cardinality(Kept) < Limit
    /\ listed' = Kept \union {c}
    /\ state' = [d \in Challenges |-> IF d = c THEN "WAITING_FOR_USER"
                                      ELSE IF Supersedes(c, d) THEN "CANCELLED"
                                      ELSE state[d]]
    /\ UNCHANGED <<claimed, finishing, age, target, operation, known, request, slots, published>>

(* AUTH_BROKER_BUSY *)
CreateBusy(c) ==
    /\ state[c] = "DRAFT"
    /\ Cardinality(Kept) >= Limit
    /\ listed' = Kept
    /\ state' = [state EXCEPT ![c] = "UNUSED"]
    /\ UNCHANGED <<claimed, finishing, age, target, operation, known, request, slots, published>>

(* _row: every method that looks a challenge up first notices its deadline. *)
SeenIfWaiting(c) ==  \* seeded: an opened login does not time out
    IF age[c] # "fresh" /\ state[c] = "WAITING_FOR_USER" THEN "TIMED_OUT" ELSE state[c]
Seen(c) == IF age[c] # "fresh" /\ state[c] \in LiveStates THEN "TIMED_OUT" ELSE state[c]

Passed(c, s) == state' = [state EXCEPT ![c] = s]

(* control, and any other method that only notices the deadline *)
Status(c) ==
    /\ c \in listed
    /\ Passed(c, Seen(c))
    /\ UNCHANGED <<listed, claimed, finishing, age, target, operation, known,
                   request, slots, published>>

Cancel(c) ==
    /\ c \in listed
    /\ Passed(c, IF Seen(c) \in LiveStates THEN "CANCELLED" ELSE Seen(c))
    /\ UNCHANGED <<listed, claimed, finishing, age, target, operation, known,
                   request, slots, published>>

Claim(c) ==
    /\ c \in listed
    /\ Seen(c) \in LiveStates
    /\ ~claimed[c]
    /\ claimed' = [claimed EXCEPT ![c] = TRUE]
    /\ Passed(c, "LOGIN_OPENED")
    /\ UNCHANGED <<listed, finishing, age, target, operation, known, request, slots, published>>

(* begin_completion: to complete, which probes first, or to report failure. *)
BeginCompletion(c) ==
    /\ c \in listed
    /\ Seen(c) \in LiveStates
    /\ claimed[c]
    /\ ~finishing[c]
    /\ finishing' = [finishing EXCEPT ![c] = TRUE]
    /\ \E r \in {"probing", "raised"} : request' = [request EXCEPT ![c] = r]
    /\ UNCHANGED <<listed, state, claimed, age, target, operation, known, slots, published>>

(* The probe fails, or the wrong account answers. *)
ProbeFails(c) ==
    /\ request[c] = "probing"
    /\ request' = [request EXCEPT ![c] = "raised"]
    /\ UNCHANGED <<rows, slots, published>>

(* The client went away: the handler is cancelled and the row left behind. *)
Drop(c) ==
    /\ request[c] = "probing"
    /\ request' = [request EXCEPT ![c] = "none"]
    /\ UNCHANGED <<rows, slots, published>>

-----------------------------------------------------------------------------
(* finish: the row is looked up again and must still be live. *)
StillLive(c) == c \in listed /\ Seen(c) \in LiveStates

FinishLate(c) ==
    /\ request[c] = "probing"
    /\ ~StillLive(c)
    /\ request' = [request EXCEPT ![c] = "none"]
    /\ IF c \in listed THEN Passed(c, Seen(c)) ELSE UNCHANGED state
    /\ UNCHANGED <<listed, claimed, finishing, age, target, operation, known, slots, published>>

(* publish, under the session's lock *)
FenceOpen(c, p) == TRUE  \* seeded: the generation is not compared
FenceHolds(c, p) == generation[p] = known[c][p]

Targets(c) == IF target[c] = All THEN Profiles ELSE {target[c]}
ClearedIfAllHold(c) ==  \* seeded: one replaced session stops the loop
    IF \A p \in Targets(c) : FenceHolds(c, p) THEN Targets(c) ELSE {}
Cleared(c) == {p \in Targets(c) : FenceHolds(c, p)}

Publish(c) ==
    /\ request[c] = "probing"
    /\ StillLive(c)
    /\ target[c] # All => FenceHolds(c, target[c])
    /\ IF operation[c] = "login" THEN Change({target[c]}, c) ELSE Change(Cleared(c), None)
    /\ published' = published \union {c}
    /\ Passed(c, "AUTHENTICATED")
    /\ request' = [request EXCEPT ![c] = "none"]
    /\ UNCHANGED <<listed, claimed, finishing, age, target, operation, known>>

(* publish raises: the session was replaced, or the vault or the database  *)
(* did not take the change; what was to be cleared may be gone by then.    *)
PublishRaises(c) ==
    /\ request[c] = "probing"
    /\ StillLive(c)
    /\ \/ UNCHANGED slots
       \/ operation[c] # "login" /\ \E P \in SUBSET Cleared(c) : Change(P, None)
    /\ request' = [request EXCEPT ![c] = "raised"]
    /\ UNCHANGED <<rows, published>>

(* The handler's except clause, with the lock taken anew. *)
Failed(c) == IF state[c] \in LiveStates THEN "FAILED" ELSE state[c]

Fail(c) ==
    /\ request[c] = "raised"
    /\ Passed(c, Failed(c))
    /\ request' = [request EXCEPT ![c] = "none"]
    /\ UNCHANGED <<listed, claimed, finishing, age, target, operation, known, slots, published>>

-----------------------------------------------------------------------------
Age(c) ==
    /\ c \in listed
    /\ age[c] # "stale"
    /\ age' = [age EXCEPT ![c] = IF @ = "fresh" THEN "overdue" ELSE "stale"]
    /\ UNCHANGED <<listed, state, claimed, finishing, target, operation, known,
                   request, slots, published>>

(* A new process has no rows and another instance id; the sessions it      *)
(* restores get new generations.                                           *)
Restart ==
    /\ listed' = {}
    /\ state' = [c \in Challenges |-> "UNUSED"]
    /\ claimed' = [c \in Challenges |-> FALSE]
    /\ finishing' = [c \in Challenges |-> FALSE]
    /\ age' = [c \in Challenges |-> "fresh"]
    /\ request' = [c \in Challenges |-> "none"]
    /\ session' = [p \in Profiles |-> IF session[p] = None THEN None ELSE Other]
    /\ generation' \in {g \in [Profiles -> 0..MaxGeneration] :
                           \A p \in Profiles : g[p] = 0 <=> session[p] = None}
    /\ touched' = [c \in Challenges |-> {}]
    /\ published' = {}
    /\ target' = [c \in Challenges |-> All]
    /\ operation' = [c \in Challenges |-> "clear_all"]
    /\ known' = [c \in Challenges |-> [p \in Profiles |-> 0]]

Step(c) ==
    \/ \E t \in Profiles \union {All}, op \in {"login", "clear", "clear_all"} : Prepare(c, t, op)
    \/ Create(c) \/ CreateBusy(c)
    \/ Status(c) \/ Cancel(c) \/ Claim(c) \/ BeginCompletion(c)
    \/ ProbeFails(c) \/ Drop(c) \/ FinishLate(c)
    \/ Publish(c) \/ PublishRaises(c) \/ Fail(c)
    \/ Age(c)

Next ==
    \/ \E c \in Challenges : Step(c)
    \/ \E p \in Profiles : Elsewhere(p)
    \/ Restart

Spec == Init /\ [][Next]_vars

(* Time passes, and the page that shows a challenge polls its status. *)
FairSpec == Spec /\ \A c \in Challenges : WF_vars(Age(c)) /\ WF_vars(Status(c))

-----------------------------------------------------------------------------
(* "Late completion cannot resurrect or replace account"                   *)
(* (tests/test_v070_broker_api.py:113): a login installs its session only  *)
(* if, from the moment it was asked for, nobody changed that profile's     *)
(* session, the user did not cancel, no newer attempt was made and the     *)
(* deadline did not pass, however long the probe took                      *)
(* (broker_challenges.py:95-100, broker.py:161-242).                       *)
LoginIsTimely ==
    \A c \in Challenges, p \in Profiles :
        session'[p] = c /\ session[p] # c =>
            /\ p \notin touched[c]
            /\ age[c] = "fresh"
            /\ state[c] \in LiveStates

NoLateLogin == [][LoginIsTimely]_vars

(* The user is told the truth: AUTHENTICATED exactly when the operation    *)
(* took effect, and never CANCELLED, TIMED_OUT or FAILED while its session *)
(* is installed (broker_challenges.py:43-59, 95-114).                      *)
VerdictIsTrue ==
    \A c \in Challenges :
        /\ c \in published <=> state[c] = "AUTHENTICATED"
        /\ \A p \in Profiles : session[p] = c => state[c] = "AUTHENTICATED"

(* A verdict is final, whatever request arrives late                       *)
(* (broker_challenges.py:61-114).                                          *)
VerdictStays ==
    \A c \in Challenges :
        state[c] \in FinalStates => state'[c] = state[c] \/ Restart

VerdictIsFinal == [][VerdictStays]_vars

(* "A newer attempt supersedes the same profile's pending attempt"         *)
(* (broker_challenges.py:48): at most one attempt per target can complete. *)
OnePendingPerTarget ==
    \A c, d \in listed :
        state[c] \in LiveStates /\ state[d] \in LiveStates /\ target[c] = target[d] => c = d

(* A clear_all that reports success leaves only sessions that were changed *)
(* after it was asked for (broker.py:166-184).                             *)
NothingOldIsLeft ==
    \A c \in Challenges :
        operation[c] = "clear_all" /\ state[c] # "AUTHENTICATED" /\ state'[c] = "AUTHENTICATED" =>
            \A p \in Profiles \ touched[c] : session'[p] = None

ClearAllIsComplete == [][NothingOldIsLeft]_vars

(* No attempt stays pending, also when its completing request vanished     *)
(* between begin_completion and finish (broker_challenges.py:61-67, 86-93). *)
EveryAttemptEnds ==
    \A c \in Challenges :
        (c \in listed /\ state[c] \in LiveStates)
            ~> ~(c \in listed /\ state[c] \in LiveStates)
=============================================================================
