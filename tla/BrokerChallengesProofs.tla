----------------------- MODULE BrokerChallengesProofs -----------------------
(***************************************************************************)
(* Theorems about BrokerChallenges, for any number of challenges and       *)
(* profiles and any limit on the rows; and about WebsiteAccess, for any    *)
(* number of addresses and requests.                                       *)
(***************************************************************************)
EXTENDS MCSignIns, TLAPS

(* What a challenge captured is behind the store exactly for the profiles  *)
(* whose session changed since.                                            *)
CaptureIsExact ==
    \A c \in Challenges : state[c] # "UNUSED" =>
        \A p \in Targets(c) : /\ known[c][p] <= generation[p]
                              /\ p \in touched[c] <=> known[c][p] # generation[p]

OperationFits == \A c \in Challenges : target[c] = All <=> operation[c] = "clear_all"

ListedIsCreated == \A c \in listed : state[c] \in LiveStates \union FinalStates

IInv ==
    /\ TypeOK
    /\ CaptureIsExact
    /\ OperationFits
    /\ ListedIsCreated
    /\ VerdictIsTrue
    /\ OnePendingPerTarget

-----------------------------------------------------------------------------
LEMMA TargetsType ==
    ASSUME TypeOK, NEW c \in Challenges
    PROVE  Targets(c) \in SUBSET Profiles
  BY DEF TypeOK, Targets

LEMMA CapturedIsNat ==
    ASSUME TypeOK, NEW c \in Challenges, NEW p \in Profiles
    PROVE  known[c][p] \in Nat /\ generation[p] \in Nat
  BY DEF TypeOK

(* A change of some sessions keeps the captures exact. *)
LEMMA ChangeKeepsCaptures ==
    ASSUME TypeOK, CaptureIsExact, NEW P \in SUBSET Profiles,
           NEW who \in Challenges \union {Other, None}, Change(P, who),
           UNCHANGED <<target, known>>,
           \A c \in Challenges : state'[c] = "UNUSED" <=> state[c] = "UNUSED"
    PROVE  /\ session' \in [Profiles -> Challenges \union {Other, None}]
           /\ generation' \in [Profiles -> 0..MaxGeneration]
           /\ touched' \in [Challenges -> SUBSET Profiles]
           /\ CaptureIsExact'
<1>1. session' \in [Profiles -> Challenges \union {Other, None}]
  BY DEF TypeOK, Change
<1>2. generation' \in [Profiles -> 0..MaxGeneration]
  BY BrokerAssumption DEF TypeOK, Change
<1>3. touched' \in [Challenges -> SUBSET Profiles]
  BY DEF TypeOK, Change
<1>4. CaptureIsExact'
  <2> SUFFICES ASSUME NEW c \in Challenges, state[c] # "UNUSED", NEW p \in Targets(c)
               PROVE  /\ known[c][p] <= generation'[p]
                      /\ p \in touched'[c] <=> known[c][p] # generation'[p]
    BY DEF CaptureIsExact, Targets
  <2>1. /\ p \in Profiles /\ known[c][p] \in Nat /\ generation[p] \in Nat
        /\ known[c][p] <= generation[p]
        /\ p \in touched[c] <=> known[c][p] # generation[p]
    BY TargetsType, CapturedIsNat DEF CaptureIsExact
  <2>2. touched'[c] = touched[c] \union P
    BY DEF Change
  <2>3. generation'[p] = IF p \in P THEN generation[p] + 1 ELSE generation[p]
    BY <2>1 DEF Change
  <2> QED
    BY <2>1, <2>2, <2>3
<1> QED
  BY <1>1, <1>2, <1>3, <1>4

LEMMA InitIInv == Init => IInv
<1> SUFFICES ASSUME Init PROVE IInv
  OBVIOUS
<1>1. TypeOK
  BY BrokerAssumption DEF Init, TypeOK
<1> QED
  BY <1>1, BrokerAssumption DEF Init, IInv, CaptureIsExact, OperationFits, ListedIsCreated,
     VerdictIsTrue, OnePendingPerTarget

(* The handlers that leave the sessions alone and move one challenge from a *)
(* state to one it may follow.                                             *)
LEMMA MoveKeeps ==
    ASSUME IInv, NEW c \in Challenges, NEW s \in LiveStates \union FinalStates,
           state' = [state EXCEPT ![c] = s], state[c] \in LiveStates \union FinalStates,
           s = "AUTHENTICATED" <=> state[c] = "AUTHENTICATED",
           s \in LiveStates => state[c] \in LiveStates,
           UNCHANGED <<listed, target, operation, known, slots, published>>
    PROVE  /\ state' \in [Challenges -> {"UNUSED", "DRAFT"} \union LiveStates \union FinalStates]
           /\ CaptureIsExact' /\ OperationFits' /\ ListedIsCreated'
           /\ VerdictIsTrue' /\ OnePendingPerTarget'
<1> USE DEF IInv, slots
<1>1. state' \in [Challenges -> {"UNUSED", "DRAFT"} \union LiveStates \union FinalStates]
  BY DEF TypeOK
<1>2. \A d \in Challenges : state'[d] = IF d = c THEN s ELSE state[d]
  BY DEF TypeOK
<1>3. CaptureIsExact' /\ OperationFits'
  BY <1>2 DEF CaptureIsExact, OperationFits, Targets, LiveStates, FinalStates
<1>4. ListedIsCreated'
  BY <1>2 DEF ListedIsCreated, TypeOK
<1>5. VerdictIsTrue'
  BY <1>2 DEF VerdictIsTrue
<1>6. OnePendingPerTarget'
  BY <1>2 DEF OnePendingPerTarget, TypeOK
<1> QED
  BY <1>1, <1>3, <1>4, <1>5, <1>6

LEMMA PrepareKeeps ==
    ASSUME IInv, NEW c \in Challenges, NEW t \in Profiles \union {All},
           NEW op \in {"login", "clear", "clear_all"}, Prepare(c, t, op)
    PROVE  IInv'
<1> USE DEF IInv, Prepare
<1>1. TypeOK'
  BY BrokerAssumption DEF TypeOK
<1>2. \A d \in Challenges \ {c} : /\ state'[d] = state[d] /\ target'[d] = target[d]
                                  /\ operation'[d] = operation[d]
                                  /\ known'[d] = known[d] /\ touched'[d] = touched[d]
  BY DEF TypeOK
<1>3. /\ state'[c] = "DRAFT" /\ target'[c] = t /\ operation'[c] = op /\ touched'[c] = {}
      /\ known'[c] = [p \in Profiles |-> IF t \in {p, All} THEN generation[p] ELSE 0]
  BY DEF TypeOK
<1>4. CaptureIsExact'
  <2> SUFFICES ASSUME NEW d \in Challenges, state'[d] # "UNUSED", NEW p \in Targets(d)'
               PROVE  /\ known'[d][p] <= generation[p]
                      /\ p \in touched'[d] <=> known'[d][p] # generation[p]
    BY DEF CaptureIsExact
  <2>1. CASE d # c
    BY <2>1, <1>2 DEF CaptureIsExact, Targets
  <2>2. CASE d = c
    <3>1. p \in Profiles /\ t \in {p, All}
      BY <2>2, <1>1, <1>3, TargetsType DEF Targets, TypeOK
    <3>2. known'[d][p] = generation[p] /\ generation[p] \in Nat
      BY <2>2, <1>3, <3>1 DEF TypeOK
    <3> QED
      BY <2>2, <1>3, <3>2
  <2> QED
    BY <2>1, <2>2
<1>5. OperationFits'
  BY <1>2, <1>3 DEF OperationFits
<1>6. c \notin listed
  BY DEF ListedIsCreated, LiveStates, FinalStates
<1>7. ListedIsCreated' /\ OnePendingPerTarget'
  BY <1>2, <1>6 DEF ListedIsCreated, OnePendingPerTarget, TypeOK
<1>8. VerdictIsTrue'
  BY <1>2, <1>3 DEF VerdictIsTrue
<1> QED
  BY <1>1, <1>4, <1>5, <1>7, <1>8

LEMMA CreateKeeps ==
    ASSUME IInv, NEW c \in Challenges, Create(c)
    PROVE  IInv'
<1> USE DEF IInv, Create, slots
<1>1. TypeOK'
  BY DEF TypeOK, Kept, LiveStates, FinalStates
<1>2. \A d \in Challenges : state'[d] = IF d = c THEN "WAITING_FOR_USER"
                                        ELSE IF Supersedes(c, d) THEN "CANCELLED"
                                        ELSE state[d]
  OBVIOUS
<1>3. c \notin listed /\ c \notin published
  BY DEF ListedIsCreated, LiveStates, FinalStates, VerdictIsTrue
<1>4. CaptureIsExact' /\ OperationFits'
  BY <1>2 DEF CaptureIsExact, OperationFits, Targets, Supersedes, LiveStates
<1>5. ListedIsCreated'
  BY <1>2 DEF ListedIsCreated, Kept, TypeOK, LiveStates, FinalStates
<1>6. VerdictIsTrue'
  BY <1>2, <1>3 DEF VerdictIsTrue, Supersedes, LiveStates
<1>7. OnePendingPerTarget'
  <2> SUFFICES ASSUME NEW d \in listed', NEW e \in listed',
                      state'[d] \in LiveStates, state'[e] \in LiveStates, target[d] = target[e]
               PROVE  d = e
    BY DEF OnePendingPerTarget
  <2>1. \A f \in listed' : f # c => /\ f \in Kept /\ f \in listed /\ f \in Challenges
                                    /\ state'[f] \in LiveStates =>
                                          ~Supersedes(c, f) /\ state[f] \in LiveStates
    BY <1>2 DEF Kept, TypeOK, LiveStates
  <2>2. \A f \in listed' : f # c /\ state'[f] \in LiveStates => target[f] # target[c]
    BY <2>1 DEF Supersedes
  <2> QED
    BY <2>1, <2>2 DEF OnePendingPerTarget
<1> QED
  BY <1>1, <1>4, <1>5, <1>6, <1>7

LEMMA CreateBusyKeeps ==
    ASSUME IInv, NEW c \in Challenges, CreateBusy(c)
    PROVE  IInv'
<1> USE DEF IInv, CreateBusy, slots
<1>1. TypeOK'
  BY DEF TypeOK, Kept
<1>2. \A d \in Challenges : state'[d] = IF d = c THEN "UNUSED" ELSE state[d]
  BY DEF TypeOK
<1>3. c \notin listed /\ listed' \subseteq listed
  BY DEF ListedIsCreated, LiveStates, FinalStates, Kept
<1> QED
  BY <1>1, <1>2, <1>3 DEF CaptureIsExact, OperationFits, Targets, ListedIsCreated,
     VerdictIsTrue, OnePendingPerTarget, TypeOK

LEMMA PublishKeeps ==
    ASSUME IInv, NEW c \in Challenges, Publish(c)
    PROVE  IInv'
<1> USE DEF IInv, Publish
<1>1. /\ \A d \in Challenges : state'[d] = IF d = c THEN "AUTHENTICATED" ELSE state[d]
      /\ state[c] \in LiveStates /\ c \in listed
  BY DEF TypeOK, Passed, StillLive, Seen, LiveStates
<1>2. PICK P \in SUBSET Profiles, who \in {c, None} : Change(P, who)
  <2>1. CASE operation[c] = "login"
    <3>1. target[c] \in Profiles
      BY <2>1 DEF OperationFits, TypeOK
    <3> QED
      BY <2>1, <3>1
  <2>2. CASE operation[c] # "login"
    BY <2>2, TargetsType DEF Cleared
  <2> QED
    BY <2>1, <2>2
<1>3. /\ session' \in [Profiles -> Challenges \union {Other, None}]
      /\ generation' \in [Profiles -> 0..MaxGeneration]
      /\ touched' \in [Challenges -> SUBSET Profiles]
      /\ CaptureIsExact'
  BY <1>1, <1>2, ChangeKeepsCaptures DEF LiveStates
<1>4. TypeOK'
  BY <1>3 DEF TypeOK, Passed, FinalStates
<1>5. OperationFits' /\ ListedIsCreated' /\ OnePendingPerTarget'
  <2>1. UNCHANGED <<listed, target, operation>> /\ listed \subseteq Challenges
    BY DEF TypeOK
  <2>2. OperationFits'
    BY <2>1 DEF OperationFits
  <2>3. ListedIsCreated'
    BY <1>1, <2>1 DEF ListedIsCreated, FinalStates
  <2>4. OnePendingPerTarget'
    BY <1>1, <2>1 DEF OnePendingPerTarget, LiveStates
  <2> QED
    BY <2>2, <2>3, <2>4
<1>6. \A p \in Profiles : session'[p] \in {c, None, session[p]}
  BY <1>2 DEF Change
<1>7. None \notin Challenges
  BY BrokerAssumption
<1>8. VerdictIsTrue'
  BY <1>1, <1>6, <1>7 DEF VerdictIsTrue
<1> QED
  BY <1>3, <1>4, <1>5, <1>8

(* Sessions change and no challenge does. *)
LEMMA SessionsKeep ==
    ASSUME IInv, UNCHANGED <<rows, published>>, request' \in [Challenges -> {"none", "probing", "raised"}],
           NEW P \in SUBSET Profiles, NEW who \in {Other, None}, Change(P, who)
    PROVE  IInv'
<1> USE DEF IInv, rows
<1>1. /\ session' \in [Profiles -> Challenges \union {Other, None}]
      /\ generation' \in [Profiles -> 0..MaxGeneration]
      /\ touched' \in [Challenges -> SUBSET Profiles]
      /\ CaptureIsExact'
  BY ChangeKeepsCaptures
<1>2. TypeOK'
  BY <1>1 DEF TypeOK
<1>3. \A p \in Profiles : session'[p] \in {who, session[p]}
  BY DEF Change
<1>4. who \notin Challenges
  BY BrokerAssumption
<1>5. VerdictIsTrue'
  BY <1>3, <1>4 DEF VerdictIsTrue
<1> QED
  BY <1>1, <1>2, <1>5 DEF OperationFits, ListedIsCreated, OnePendingPerTarget

LEMMA RestartKeeps == ASSUME IInv, Restart PROVE IInv'
<1> USE DEF IInv, Restart
<1>1. TypeOK'
  BY BrokerAssumption DEF TypeOK
<1>2. \A p \in Profiles : session'[p] \notin Challenges
  BY BrokerAssumption
<1>3. \A c \in Challenges : /\ state'[c] = "UNUSED" /\ target'[c] = All
                            /\ operation'[c] = "clear_all" /\ c \notin published'
  OBVIOUS
<1>4. CaptureIsExact' /\ OperationFits' /\ VerdictIsTrue'
  BY <1>2, <1>3 DEF CaptureIsExact, OperationFits, VerdictIsTrue
<1> QED
  BY <1>1, <1>4 DEF ListedIsCreated, OnePendingPerTarget

LEMMA StepKeeps == ASSUME IInv, NEW c \in Challenges, Step(c) PROVE IInv'
<1>0. /\ TypeOK
      /\ c \in listed => state[c] \in LiveStates \union FinalStates
      /\ Seen(c) # state[c] => Seen(c) = "TIMED_OUT" /\ state[c] \in LiveStates
  BY DEF IInv, ListedIsCreated, Seen
<1> USE <1>0 DEF Passed
<1>1. ASSUME NEW t \in Profiles \union {All}, NEW op \in {"login", "clear", "clear_all"},
             Prepare(c, t, op)
      PROVE  IInv'
  BY <1>1, PrepareKeeps
<1>2. CASE Create(c)
  BY <1>2, CreateKeeps
<1>3. CASE CreateBusy(c)
  BY <1>3, CreateBusyKeeps
<1>4. CASE Status(c)
  <2>1. TypeOK'
    BY <1>4 DEF Status, TypeOK, slots, LiveStates, FinalStates
  <2>2. /\ Seen(c) \in LiveStates \union FinalStates
        /\ Seen(c) = "AUTHENTICATED" <=> state[c] = "AUTHENTICATED"
        /\ Seen(c) \in LiveStates => state[c] \in LiveStates
    BY <1>4 DEF Status, LiveStates, FinalStates
  <2> QED
    BY <1>4, <2>1, <2>2, MoveKeeps DEF Status, IInv
<1>5. CASE Cancel(c)
  <2> DEFINE s == IF Seen(c) \in LiveStates THEN "CANCELLED" ELSE Seen(c)
  <2>1. TypeOK'
    BY <1>5 DEF Cancel, TypeOK, slots, LiveStates, FinalStates
  <2>2. /\ s \in LiveStates \union FinalStates
        /\ s = "AUTHENTICATED" <=> state[c] = "AUTHENTICATED"
        /\ s \in LiveStates => state[c] \in LiveStates
    BY <1>5 DEF Cancel, LiveStates, FinalStates
  <2> QED
    BY <1>5, <2>1, <2>2, MoveKeeps DEF Cancel, IInv
<1>6. CASE Claim(c)
  <2>1. TypeOK'
    BY <1>6 DEF Claim, TypeOK, slots, LiveStates, FinalStates
  <2>2. state[c] \in LiveStates
    BY <1>6 DEF Claim, LiveStates
  <2> QED
    BY <1>6, <2>1, <2>2, MoveKeeps DEF Claim, IInv, LiveStates
<1>7. CASE BeginCompletion(c)
  <2>1. TypeOK'
    BY <1>7 DEF BeginCompletion, TypeOK, slots
  <2> QED
    BY <1>7, <2>1 DEF BeginCompletion, slots, IInv, CaptureIsExact, Targets, OperationFits,
       ListedIsCreated, VerdictIsTrue, OnePendingPerTarget
<1>8. CASE ProbeFails(c) \/ Drop(c)
  <2>1. TypeOK'
    BY <1>8 DEF ProbeFails, Drop, TypeOK, slots, rows
  <2> QED
    BY <1>8, <2>1 DEF ProbeFails, Drop, slots, rows, IInv, CaptureIsExact, Targets,
       OperationFits, ListedIsCreated, VerdictIsTrue, OnePendingPerTarget
<1>9. CASE FinishLate(c)
  <2>1. CASE c \in listed
    <3>1. TypeOK'
      BY <1>9, <2>1 DEF FinishLate, TypeOK, slots, LiveStates, FinalStates
    <3>2. /\ Seen(c) \in LiveStates \union FinalStates
          /\ Seen(c) = "AUTHENTICATED" <=> state[c] = "AUTHENTICATED"
          /\ Seen(c) \in LiveStates => state[c] \in LiveStates
      BY <2>1 DEF LiveStates, FinalStates
    <3> QED
      BY <1>9, <2>1, <3>1, <3>2, MoveKeeps DEF FinishLate, IInv
  <2>2. CASE c \notin listed
    <3>1. TypeOK'
      BY <1>9, <2>2 DEF FinishLate, TypeOK, slots
    <3> QED
      BY <1>9, <2>2, <3>1 DEF FinishLate, slots, IInv, CaptureIsExact, Targets,
         OperationFits, ListedIsCreated, VerdictIsTrue, OnePendingPerTarget
  <2> QED
    BY <2>1, <2>2
<1>10. CASE Publish(c)
  BY <1>10, PublishKeeps
<1>11. CASE PublishRaises(c)
  <2>1. request' \in [Challenges -> {"none", "probing", "raised"}]
    BY <1>11 DEF PublishRaises, TypeOK
  <2>2. CASE \E P \in SUBSET Cleared(c) : Change(P, None)
    <3>1. PICK P \in SUBSET Profiles : Change(P, None)
      BY <2>2, TargetsType DEF Cleared
    <3> QED
      BY <1>11, <2>1, <3>1, SessionsKeep DEF PublishRaises
  <2>3. CASE UNCHANGED slots
    <3>1. TypeOK'
      BY <1>11, <2>1, <2>3 DEF PublishRaises, TypeOK, slots, rows
    <3> QED
      BY <1>11, <2>3, <3>1 DEF PublishRaises, slots, rows, IInv, CaptureIsExact, Targets,
         OperationFits, ListedIsCreated, VerdictIsTrue, OnePendingPerTarget
  <2> QED
    BY <1>11, <2>2, <2>3 DEF PublishRaises
<1>12. CASE Fail(c)
  <2>1. TypeOK'
    BY <1>12 DEF Fail, Failed, TypeOK, slots, LiveStates, FinalStates
  <2>2. CASE state[c] \in LiveStates \union FinalStates
    <3>1. /\ Failed(c) \in LiveStates \union FinalStates
          /\ Failed(c) = "AUTHENTICATED" <=> state[c] = "AUTHENTICATED"
          /\ Failed(c) \in LiveStates => state[c] \in LiveStates
      BY <2>2 DEF Failed, LiveStates, FinalStates
    <3> QED
      BY <1>12, <2>1, <2>2, <3>1, MoveKeeps DEF Fail, IInv
  <2>3. CASE state[c] \notin LiveStates \union FinalStates
    <3>1. state' = state
      BY <1>12, <2>3 DEF Fail, Failed, TypeOK
    <3> QED
      BY <1>12, <2>1, <3>1 DEF Fail, slots, IInv, CaptureIsExact, Targets,
         OperationFits, ListedIsCreated, VerdictIsTrue, OnePendingPerTarget
  <2> QED
    BY <2>2, <2>3
<1>13. CASE Age(c)
  <2>1. TypeOK'
    BY <1>13 DEF Age, TypeOK, slots
  <2> QED
    BY <1>13, <2>1 DEF Age, slots, IInv, CaptureIsExact, Targets, OperationFits,
       ListedIsCreated, VerdictIsTrue, OnePendingPerTarget
<1> QED
  BY <1>1, <1>2, <1>3, <1>4, <1>5, <1>6, <1>7, <1>8, <1>9, <1>10, <1>11, <1>12, <1>13 DEF Step

LEMMA NextIInv == IInv /\ [Next]_vars => IInv'
<1> SUFFICES ASSUME IInv, [Next]_vars PROVE IInv'
  OBVIOUS
<1>1. ASSUME NEW c \in Challenges, Step(c) PROVE IInv'
  BY <1>1, StepKeeps
<1>2. ASSUME NEW p \in Profiles, Elsewhere(p) PROVE IInv'
  BY <1>2, SessionsKeep DEF Elsewhere, IInv, TypeOK
<1>3. CASE Restart
  BY <1>3, RestartKeeps
<1>4. CASE UNCHANGED vars
  BY <1>4 DEF vars, rows, slots, IInv, TypeOK, CaptureIsExact, Targets, OperationFits,
     ListedIsCreated, VerdictIsTrue, OnePendingPerTarget
<1> QED
  BY <1>1, <1>2, <1>3, <1>4 DEF Next

LEMMA SpecIInv == Spec => []IInv
  BY InitIInv, NextIInv, PTL DEF Spec

-----------------------------------------------------------------------------
(* Type correctness. *)
THEOREM BrokerTypeCorrect == Spec => []TypeOK
<1>1. IInv => TypeOK
  BY DEF IInv
<1> QED
  BY <1>1, SpecIInv, PTL

(* What the user is told is what happened (ChallengeStore.finish, fail). *)
THEOREM VerdictsAreTrue == Spec => []VerdictIsTrue
<1>1. IInv => VerdictIsTrue
  BY DEF IInv
<1> QED
  BY <1>1, SpecIInv, PTL

(* One attempt per target can still complete (ChallengeStore.create). *)
THEOREM AttemptsSupersede == Spec => []OnePendingPerTarget
<1>1. IInv => OnePendingPerTarget
  BY DEF IInv
<1> QED
  BY <1>1, SpecIInv, PTL

-----------------------------------------------------------------------------
(* The steps that can report AUTHENTICATED or install a challenge's session. *)
LEMMA OnlyPublishPublishes ==
    ASSUME IInv, [Next]_vars, NEW c \in Challenges, ~Publish(c)
    PROVE  /\ state'[c] = "AUTHENTICATED" => state[c] = "AUTHENTICATED"
           /\ \A p \in Profiles : session'[p] = c => session[p] = c
<1> USE DEF IInv, TypeOK
<1>1. ASSUME NEW d \in Challenges, Step(d)
      PROVE  /\ state'[c] = "AUTHENTICATED" => state[c] = "AUTHENTICATED"
             /\ \A p \in Profiles : session'[p] = c => session[p] = c
  <2>1. CASE Publish(d)
    <3>1. d # c /\ state'[c] = state[c]
      BY <2>1 DEF Publish, Passed
    <3>2. \A p \in Profiles : session'[p] \in {d, None, session[p]}
      BY <2>1 DEF Publish, Change
    <3> QED
      BY <3>1, <3>2, BrokerAssumption
  <2>2. CASE PublishRaises(d)
    BY <2>2, BrokerAssumption DEF PublishRaises, Change, rows, slots
  <2>3. CASE \E t \in Profiles \union {All}, op \in {"login", "clear", "clear_all"} : Prepare(d, t, op)
    BY <2>3 DEF Prepare
  <2>4. CASE Create(d) \/ CreateBusy(d)
    BY <2>4 DEF Create, CreateBusy, slots
  <2>5. CASE Status(d) \/ Cancel(d) \/ Claim(d)
    BY <2>5 DEF Status, Cancel, Claim, slots, Passed, Seen
  <2>6. CASE BeginCompletion(d) \/ ProbeFails(d) \/ Drop(d) \/ Age(d)
    BY <2>6 DEF BeginCompletion, ProbeFails, Drop, Age, slots, rows
  <2>7. CASE FinishLate(d) \/ Fail(d)
    BY <2>7 DEF FinishLate, Fail, slots, Passed, Seen, Failed
  <2> QED
    BY <1>1, <2>1, <2>2, <2>3, <2>4, <2>5, <2>6, <2>7 DEF Step
<1>2. CASE (\E p \in Profiles : Elsewhere(p)) \/ UNCHANGED vars
  BY <1>2, BrokerAssumption DEF Elsewhere, Change, rows, slots, vars
<1>3. CASE Restart
  BY <1>3, BrokerAssumption DEF Restart
<1> QED
  BY <1>1, <1>2, <1>3 DEF Next

LEMMA PublishIsTimely ==
    ASSUME IInv, NEW c \in Challenges, Publish(c)
    PROVE  /\ age[c] = "fresh" /\ state[c] \in LiveStates
           /\ \A p \in Profiles : session'[p] # session[p] => p \notin touched[c]
           /\ target[c] = All => \A p \in Profiles \ touched[c] : session'[p] = None
<1>1. age[c] = "fresh" /\ state[c] \in LiveStates
  BY DEF Publish, StillLive, Seen, LiveStates
<1>2. \A p \in Targets(c) : p \in touched[c] <=> known[c][p] # generation[p]
  BY <1>1 DEF IInv, CaptureIsExact, LiveStates
<1>3. CASE operation[c] = "login"
  <2>1. target[c] # All /\ Targets(c) = {target[c]} /\ FenceHolds(c, target[c])
    BY <1>3 DEF IInv, OperationFits, Targets, Publish
  <2>2. \A p \in Profiles : session'[p] # session[p] => p = target[c]
    BY <1>3 DEF Publish, Change
  <2> QED
    BY <1>1, <1>2, <2>1, <2>2 DEF FenceHolds
<1>4. CASE operation[c] # "login"
  <2>1. \A p \in Profiles : session'[p] = IF p \in Cleared(c) THEN None ELSE session[p]
    BY <1>4 DEF Publish, Change
  <2>2. \A p \in Cleared(c) : p \in Targets(c) /\ known[c][p] = generation[p]
    BY DEF Cleared, FenceHolds
  <2>3. \A p \in Targets(c) \ touched[c] : p \in Cleared(c)
    BY <1>2 DEF Cleared, FenceHolds
  <2>4. \A p \in Profiles : session'[p] # session[p] => p \notin touched[c]
    BY <1>2, <2>1, <2>2
  <2>5. target[c] = All => \A p \in Profiles \ touched[c] : session'[p] = None
    BY <2>1, <2>3 DEF Targets
  <2> QED
    BY <1>1, <2>4, <2>5
<1> QED
  BY <1>3, <1>4

(* A late completion cannot resurrect or replace a session (complete,      *)
(* ChallengeStore.finish, and the generations they compare).               *)
THEOREM LateLoginsNeverPublish == Spec => NoLateLogin
<1>1. IInv /\ [Next]_vars => [LoginIsTimely]_vars
  <2> SUFFICES ASSUME IInv, [Next]_vars, NEW c \in Challenges, NEW p \in Profiles,
                      session'[p] = c, session[p] # c
               PROVE  /\ p \notin touched[c]
                      /\ age[c] = "fresh"
                      /\ state[c] \in LiveStates
    BY DEF LoginIsTimely
  <2> QED
    BY OnlyPublishPublishes, PublishIsTimely
<1> QED
  BY <1>1, SpecIInv, PTL DEF Spec, NoLateLogin

(* A successful clear_all leaves nothing it was asked to clear (complete). *)
THEOREM ClearAllLeavesNothingOld == Spec => ClearAllIsComplete
<1>1. IInv /\ [Next]_vars => [NothingOldIsLeft]_vars
  <2> SUFFICES ASSUME IInv, [Next]_vars, NEW c \in Challenges, operation[c] = "clear_all",
                      state[c] # "AUTHENTICATED", state'[c] = "AUTHENTICATED"
               PROVE  \A p \in Profiles \ touched[c] : session'[p] = None
    BY DEF NothingOldIsLeft
  <2>1. Publish(c)
    BY OnlyPublishPublishes
  <2> QED
    BY <2>1, PublishIsTimely DEF IInv, OperationFits
<1> QED
  BY <1>1, SpecIInv, PTL DEF Spec, ClearAllIsComplete

(* A verdict never changes while the process lives (ChallengeStore). *)
THEOREM VerdictsAreFinal == Spec => VerdictIsFinal
<1>1. IInv /\ [Next]_vars => [VerdictStays]_vars
  <2> SUFFICES ASSUME IInv, [Next]_vars, NEW c \in Challenges, state[c] \in FinalStates, ~Restart
               PROVE  state'[c] = state[c]
    BY DEF VerdictStays
  <2> USE DEF IInv, TypeOK, FinalStates, LiveStates
  <2>1. ASSUME NEW d \in Challenges, Step(d) PROVE state'[c] = state[c]
    <3>1. CASE \E t \in Profiles \union {All}, op \in {"login", "clear", "clear_all"} : Prepare(d, t, op)
      BY <3>1 DEF Prepare
    <3>2. CASE Create(d) \/ CreateBusy(d)
      BY <3>2 DEF Create, CreateBusy, Supersedes
    <3>3. CASE Status(d) \/ Cancel(d) \/ Claim(d) \/ FinishLate(d) \/ Fail(d)
      BY <3>3 DEF Status, Cancel, Claim, FinishLate, Fail, Passed, Seen, Failed
    <3>4. CASE BeginCompletion(d) \/ ProbeFails(d) \/ Drop(d) \/ PublishRaises(d) \/ Age(d)
      BY <3>4 DEF BeginCompletion, ProbeFails, Drop, PublishRaises, Age, rows
    <3>5. CASE Publish(d)
      BY <3>5 DEF Publish, Passed, StillLive, Seen
    <3> QED
      BY <2>1, <3>1, <3>2, <3>3, <3>4, <3>5 DEF Step
  <2>2. CASE (\E p \in Profiles : Elsewhere(p)) \/ UNCHANGED vars
    BY <2>2 DEF Elsewhere, rows, vars
  <2> QED
    BY <2>1, <2>2 DEF Next
<1> QED
  BY <1>1, SpecIInv, PTL DEF Spec, VerdictIsFinal

-----------------------------------------------------------------------------
(* The web site. What is written about a request holds while it is probing *)
(* (or waits to install) and, for an edit, until it commits.               *)
Objects == Bases \union Requests \union {None}

Rows == [base : Bases \union {None}, cid : Bases \union {None},
         config : [base : Bases \union {None}, method : {"none", "ntlm"}]]

Asked == [pc : {"unmade", "probing", "probed", "installed", "asking", "loaded", "sent", "done"},
          kind : {"none", "save", "set", "sync", "verify"},
          base : Bases \union {None}, method : {"none", "ntlm"}, cid : Bases \union {None},
          seen : Rows, previous : Objects, candidate : Objects, came : BOOLEAN]

SiteTyped ==
    /\ conn \in Rows /\ (conn = Websites!NoConn \/ conn.base \in Bases)
    /\ profile \in [Bases -> Bases \union {None}]
    /\ slot \in [Bases -> Objects]
    /\ req \in [Requests -> Asked]
    /\ overlapped \in BOOLEAN

\* What a slot may hold: the credentials whose entry is remembered.
Stored(x) ==
    \/ x \in Bases \union {None}
    \/ x \in Requests /\ (req[x].pc = "done" \/ (req[x].pc = "installed" /\ req[x].candidate = x))

InUse(x, base) == x \in {None} \union mixed \/ Origin[Websites!EnteredFor(x)] = Origin[base]

\* The credential of a slot is the site's, for its origin; or not a credential to speak of.
SlotFits(x, b) ==
    x \in {None} \union mixed \/ (conn.cid = b /\ Origin[Websites!EnteredFor(x)] = Origin[conn.base])

RowsAgree ==
    /\ conn.cid # None => /\ source = [base |-> conn.base, cid |-> conn.cid, method |-> "ntlm"]
                          /\ conn # Websites!NoConn /\ profile[conn.cid] = conn.base
    /\ conn.cid = None => source.method = "none"

Probing(q, kind) == req[q].pc \in {"probing", "probed"} /\ req[q].kind = kind

(* An edit that was not refused: without a password the credential that was *)
(* there is taken, which fits the new address as well as the old.           *)
EditFits(q) ==
    LET r == req[q]
    IN /\ r.base \in Bases /\ r.cid = (IF r.seen.cid # None THEN r.seen.cid ELSE r.base)
       /\ r.candidate = None <=> r.method = "none"
       /\ r.candidate \in {None, q, r.previous}
       /\ Stored(r.previous) /\ r.previous # q
       /\ ~overlapped /\ r.candidate # q => InUse(r.candidate, r.base)
       /\ r.candidate \notin {None, q} /\ r.seen # Websites!NoConn => Origin[r.base] = Origin[r.seen.base]

(* A credential that is set for a site whose slot nobody touched is for the *)
(* site as it is, or the site stopped to use a slot that was empty.         *)
SetFits(q) ==
    LET r == req[q]
    IN /\ r.base \in Bases /\ r.cid \in Bases
       /\ r.candidate \in {q, r.previous} /\ Stored(r.previous)
       /\ ~r.came => slot[r.cid] = r.previous
       /\ ~r.came /\ ~overlapped => \/ conn.cid = r.cid /\ Origin[r.base] = Origin[conn.base]
                                    \/ conn.cid # r.cid /\ r.previous = None

CommitFits(p) ==
    LET r == req[p]
    IN /\ IF Websites!InstallChanges(p) THEN slot[r.cid] \in {None, r.candidate}
          ELSE r.candidate = None /\ slot[r.cid] = None
       /\ ~overlapped => SlotFits(r.previous, r.cid)
       /\ \A q \in Requests : Probing(q, "set") /\ req[q].cid = r.cid /\ ~req[q].came =>
             r.candidate = r.previous /\ req[q].previous = r.previous

RequestFits(q) ==
    /\ Probing(q, "save") => EditFits(q)
    /\ Probing(q, "set") => SetFits(q)
    /\ req[q].pc \in {"probing", "probed"} => req[q].kind \in {"save", "set"}
    /\ req[q].pc = "installed" => req[q].kind = "save" /\ EditFits(q) /\ CommitFits(q)
    /\ req[q].pc \in {"asking", "loaded", "sent"} => req[q].cid \in Bases

SlotsFit == \A b \in Bases : SlotFits(slot[b], b) \/ \E p \in Websites!Committing : req[p].cid = b

SiteInv ==
    /\ SiteTyped
    /\ \A p, q \in Websites!Committing : p = q
    /\ \A b \in Bases : Stored(slot[b])
    /\ ~overlapped => RowsAgree /\ SlotsFit
    /\ \A q \in Requests : RequestFits(q)

(* A step that is not the request's own at most tells it that its slot was  *)
(* changed.                                                                 *)
LeftAlone(p) ==
    /\ \/ req'[p] = req[p]
       \/ /\ req[p].pc \in {"probing", "probed"} /\ req[p].cid \in Bases
          /\ req'[p] = [req[p] EXCEPT !.came = TRUE]
    /\ ~req'[p].came /\ req[p].pc \in {"probing", "probed"} /\ req[p].cid \in Bases =>
          slot'[req[p].cid] = slot[req[p].cid]

\* What a request that ended, or saved to the store, entered is not forgotten.
Remembers ==
    \A p \in Requests :
        /\ req[p].pc = "done" => req'[p] = req[p]
        /\ req[p].pc = "installed" => req'[p] \in {req[p], Websites!Done(p)}

LEMMA KeptFields ==
    ASSUME SiteTyped, NEW p \in Requests, LeftAlone(p)
    PROVE  /\ req'[p].pc = req[p].pc /\ req'[p].kind = req[p].kind /\ req'[p].base = req[p].base
           /\ req'[p].method = req[p].method /\ req'[p].cid = req[p].cid
           /\ req'[p].seen = req[p].seen /\ req'[p].previous = req[p].previous
           /\ req'[p].candidate = req[p].candidate
           /\ req[p].came => req'[p].came
           /\ req'[p] \in Asked
<1>1. req[p] \in Asked
  BY DEF SiteTyped
<1> QED
  BY <1>1 DEF LeftAlone, Asked

(* Nobody starts to set a credential, or knows less of a change of its slot. *)
SetStays(q) ==
    Probing(q, "set")' => /\ Probing(q, "set") /\ req'[q].cid = req[q].cid
                          /\ req'[q].previous = req[q].previous /\ (req[q].came => req'[q].came)

LEMMA UnmadeIsAsked == Websites!NoConn \in Rows /\ Websites!Unmade \in Asked
<1>1. Websites!NoConn \in Rows
  BY DEF Websites!NoConn, Rows
<1> QED
  BY <1>1 DEF Websites!Unmade, Asked, Objects

LEMMA DoneFields ==
    ASSUME SiteTyped, NEW p \in Requests
    PROVE  /\ Websites!Done(p) \in Asked /\ Websites!Done(p).pc = "done" /\ Websites!Done(p).came = FALSE
           /\ req[p].candidate = p => Websites!Done(p).base = req[p].base
<1>1. req[p].base \in Bases \union {None}
  BY DEF SiteTyped, Asked
<1>2. Websites!Unmade \in Asked
  BY UnmadeIsAsked
<1>3. DEFINE base == IF req[p].candidate = p THEN req[p].base ELSE None
<1>4. base \in Bases \union {None}
  BY <1>1
<1>5. Websites!Done(p) = [Websites!Unmade EXCEPT !.pc = "done", !.base = base]
  BY DEF Websites!Done
<1> HIDE DEF base
<1>6. Websites!Done(p) \in Asked /\ Websites!Done(p).pc = "done" /\ Websites!Done(p).base = base
  BY <1>2, <1>4, <1>5 DEF Asked
<1>7. Websites!Done(p).came = FALSE
  BY <1>2, <1>5 DEF Asked, Websites!Unmade
<1> QED
  BY <1>6, <1>7 DEF base

LEMMA Remembered ==
    ASSUME SiteTyped, Remembers
    PROVE  \A x : Stored(x) => Stored(x)' /\ (x # None => Websites!EnteredFor(x)' = Websites!EnteredFor(x))
<1> SUFFICES ASSUME NEW x, x \in Requests, x \notin Bases, Stored(x)
             PROVE  Stored(x)' /\ req'[x].base = req[x].base
  BY WebsitesAssumption DEF Stored, Websites!EnteredFor
<1>1. CASE req[x].pc = "done"
  BY <1>1 DEF Remembers, Stored
<1>2. CASE req[x].pc = "installed" /\ req[x].candidate = x
  BY <1>2, DoneFields DEF Remembers, Stored
<1> QED
  BY <1>1, <1>2, WebsitesAssumption DEF Stored

LEMMA InUseStays ==
    ASSUME SiteTyped, Remembers, mixed \subseteq mixed'
    PROVE  \A x, b : Stored(x) /\ InUse(x, b) => InUse(x, b)'
  BY Remembered DEF InUse, Stored, Websites!EnteredFor

LEMMA EditKeeps ==
    ASSUME SiteTyped, Remembers, mixed \subseteq mixed', overlapped => overlapped',
           NEW p \in Requests, LeftAlone(p), EditFits(p)
    PROVE  EditFits(p)'
<1> DEFINE r == req[p]
<1>1. \A x : Stored(x) => Stored(x)'
  BY Remembered
<1>2. \A x, b : Stored(x) /\ InUse(x, b) => InUse(x, b)'
  BY InUseStays
<1>3. /\ req'[p].base = r.base /\ req'[p].method = r.method /\ req'[p].cid = r.cid
      /\ req'[p].seen = r.seen /\ req'[p].previous = r.previous /\ req'[p].candidate = r.candidate
  BY KeptFields
<1>4. r.candidate # p => Stored(r.candidate)
  BY DEF EditFits, Stored
<1> QED
  BY <1>1, <1>2, <1>3, <1>4 DEF EditFits, Stored, InUse, Websites!EnteredFor

LEMMA SetKeeps ==
    ASSUME SiteTyped, Remembers, overlapped => overlapped', conn' = conn,
           NEW p \in Requests, LeftAlone(p), SetFits(p), req[p].pc \in {"probing", "probed"}
    PROVE  SetFits(p)'
<1>1. \A x : Stored(x) => Stored(x)'
  BY Remembered
<1> QED
  BY <1>1, KeptFields DEF SetFits, LeftAlone, Stored

LEMMA CommitKeeps ==
    ASSUME SiteTyped, Remembers, mixed \subseteq mixed', overlapped => overlapped', conn' = conn,
           NEW p \in Requests, req'[p] = req[p], CommitFits(p), req[p].cid \in Bases,
           Stored(req[p].previous), slot'[req[p].cid] \in {slot[req[p].cid], None},
           \A q \in Requests : SetStays(q)
    PROVE  CommitFits(p)'
<1>1. Websites!InstallChanges(p)' <=> Websites!InstallChanges(p)
  BY DEF Websites!InstallChanges, Websites!KnownTo, Websites!Exists, Websites!NewRow
<1>2. IF Websites!InstallChanges(p) THEN slot'[req[p].cid] \in {None, req[p].candidate}
      ELSE req[p].candidate = None /\ slot'[req[p].cid] = None
  BY DEF CommitFits
<1>3. ~overlapped' => SlotFits(req[p].previous, req[p].cid)
  BY DEF CommitFits
<1>4. ~overlapped' => \/ req'[p].previous \in {None} \union mixed'
                      \/ /\ conn'.cid = req'[p].cid
                         /\ Origin[Websites!EnteredFor(req[p].previous)'] = Origin[conn'.base]
  BY <1>3, Remembered DEF SlotFits
<1>5. ASSUME NEW q \in Requests, Probing(q, "set")', req'[q].cid = req[p].cid, ~req'[q].came
      PROVE  req[p].candidate = req[p].previous /\ req'[q].previous = req[p].previous
  BY <1>5 DEF CommitFits, SetStays
<1> QED
  BY <1>1, <1>2, <1>4, <1>5 DEF CommitFits, SlotFits, Websites!EnteredFor

(* What a step leaves of the others, if it leaves the rows alone: it is not *)
(* in their way, or nobody waits for a commit.                              *)
LEMMA OthersFit ==
    ASSUME SiteInv, Remembers, UNCHANGED <<Websites!rows, overlapped>>, mixed \subseteq mixed',
           NEW who, \A p \in Requests \ {who} : LeftAlone(p),
           \/ Websites!Committing = {}
           \/ /\ \A b \in Bases : slot'[b] \in {slot[b], None}
              /\ who \in Requests => SetStays(who)
    PROVE  \A p \in Requests \ {who} : RequestFits(p)'
<1> SUFFICES ASSUME NEW p \in Requests, p # who PROVE RequestFits(p)'
  OBVIOUS
<1>1. SiteTyped /\ RequestFits(p) /\ LeftAlone(p) /\ conn' = conn /\ (overlapped => overlapped')
  BY DEF SiteInv, Websites!rows
<1>2. /\ req'[p].pc = req[p].pc /\ req'[p].kind = req[p].kind /\ req'[p].cid = req[p].cid
      /\ req'[p].candidate = req[p].candidate /\ req'[p].previous = req[p].previous
  BY <1>1, KeptFields
<1>3. EditFits(p) => EditFits(p)'
  BY <1>1, EditKeeps
<1>4. Probing(p, "set") => SetFits(p)'
  BY <1>1, SetKeeps DEF RequestFits, Probing
<1>5. ASSUME req[p].pc = "installed" PROVE CommitFits(p)'
  <2>1. Websites!Committing # {}
    BY <1>5 DEF Websites!Committing
  <2>2. \A b \in Bases : slot'[b] \in {slot[b], None}
    BY <2>1
  <2>3. CommitFits(p) /\ EditFits(p) /\ req'[p] = req[p]
    BY <1>1, <1>5 DEF RequestFits, LeftAlone
  <2>4. req[p].cid \in Bases /\ Stored(req[p].previous)
    BY <1>1, <2>3 DEF EditFits, SiteTyped, Asked, Rows
  <2>5. \A q \in Requests : SetStays(q)
    BY <1>1, <2>1, KeptFields DEF SetStays, Probing
  <2> QED
    BY <1>1, <2>2, <2>3, <2>4, <2>5, CommitKeeps
<1> QED
  BY <1>1, <1>2, <1>3, <1>4, <1>5 DEF RequestFits, Probing

LEMMA SlotsStay ==
    ASSUME SiteInv, Remembers, UNCHANGED <<Websites!rows, overlapped>>, mixed \subseteq mixed',
           NEW b \in Bases, slot'[b] \in {slot[b], None} \union mixed', ~overlapped
    PROVE  SlotFits(slot[b], b)' \/ \E p \in Websites!Committing : req[p].cid = b
<1>1. Stored(slot[b]) /\ (SlotFits(slot[b], b) \/ \E p \in Websites!Committing : req[p].cid = b)
  BY DEF SiteInv, SlotsFit
<1>2. SiteTyped /\ conn' = conn
  BY DEF SiteInv, Websites!rows
<1> QED
  BY <1>1, <1>2, Remembered DEF SlotFits, Websites!EnteredFor

(* A request that changes nothing but itself. *)
LEMMA RequestSteps ==
    ASSUME SiteInv, NEW q \in Requests, UNCHANGED <<Websites!rows, slot, Websites!history>>,
           req[q].pc \notin {"installed", "done"},
           NEW r \in Asked, Websites!Set(q, r), r.pc # "installed",
           Websites!Committing = {} \/ SetStays(q)
    PROVE  /\ Remembers
           /\ RequestFits(q)' => SiteInv'
<1>1. req' \in [Requests -> Asked] /\ req'[q] = r /\ \A p \in Requests \ {q} : req'[p] = req[p]
  BY DEF SiteInv, SiteTyped, Websites!Set
<1>2. Remembers
  BY <1>1 DEF Remembers
<1>3. \A p \in Requests \ {q} : LeftAlone(p)
  BY <1>1 DEF LeftAlone
<1>4. mixed' = mixed /\ overlapped' = overlapped /\ slot' = slot /\ UNCHANGED <<Websites!rows, overlapped>>
  BY DEF Websites!history, Websites!rows
<1>5. \A p \in Requests \ {q} : RequestFits(p)'
  BY <1>1, <1>2, <1>3, <1>4, OthersFit
<1>6. Websites!Committing' = Websites!Committing
  BY <1>1 DEF Websites!Committing
<1>7. SiteTyped'
  BY <1>1, <1>4 DEF SiteInv, SiteTyped, Websites!rows
<1>8. \A b \in Bases : Stored(slot[b])'
  BY <1>2, <1>4, Remembered DEF SiteInv, Stored
<1>9. ~overlapped' => RowsAgree'
  BY <1>4 DEF SiteInv, RowsAgree, Websites!rows
<1>10. ~overlapped' => \A b \in Bases : SlotFits(slot[b], b)' \/ \E p \in Websites!Committing : req[p].cid = b
  BY <1>2, <1>4, SlotsStay
<1>11. ~overlapped' => SlotsFit'
  BY <1>1, <1>6, <1>10 DEF SlotsFit, Websites!Committing
<1> QED
  BY <1>2, <1>4, <1>5, <1>6, <1>7, <1>8, <1>9, <1>11 DEF SiteInv

LEMMA RefuseKeeps ==
    ASSUME SiteInv, NEW q \in Requests, UNCHANGED <<Websites!rows, slot, Websites!history>>,
           req[q].pc \notin {"installed", "done"},
           Websites!Refuse(q) \/ Websites!Set(q, Websites!Done(q))
    PROVE  SiteInv'
<1>1. PICK r \in Asked : Websites!Set(q, r) /\ r.pc = "done" /\ r.kind = "none"
  <2>1. Websites!Unmade \in Asked
    BY UnmadeIsAsked
  <2>2. [Websites!Unmade EXCEPT !.pc = "done"] \in Asked /\ [Websites!Unmade EXCEPT !.pc = "done"].pc = "done"
        /\ [Websites!Unmade EXCEPT !.pc = "done"].kind = "none"
    BY <2>1 DEF Asked, Websites!Unmade
  <2>3. Websites!Done(q) \in Asked /\ Websites!Done(q).pc = "done"
    BY DoneFields DEF SiteInv
  <2>4. Websites!Done(q).kind = "none"
    BY <2>1 DEF Websites!Done, Websites!Unmade
  <2> QED
    BY <2>2, <2>3, <2>4 DEF Websites!Refuse
<1>2. req'[q] = r
  BY <1>1 DEF SiteInv, SiteTyped, Websites!Set
<1>3. RequestFits(q)'
  BY <1>1, <1>2 DEF RequestFits, Probing
<1>4. SetStays(q)
  BY <1>1, <1>2 DEF SetStays, Probing
<1> QED
  BY <1>1, <1>3, <1>4, RequestSteps

LEMMA BeginKeeps ==
    ASSUME SiteInv, NEW q \in Requests, NEW base \in Bases, NEW method \in {"none", "ntlm"},
           NEW with \in Websites!Logins, Websites!Begin(q, base, method, with)
    PROVE  SiteInv'
<1> USE DEF SiteInv
<1>1. /\ req[q] = Websites!Unmade /\ req[q].pc = "unmade" /\ Websites!Committing = {}
      /\ UNCHANGED <<Websites!rows, slot, Websites!history>>
  <2>1. req[q] = Websites!Unmade /\ Websites!Committing = {} /\ UNCHANGED <<Websites!rows, slot, Websites!history>>
    BY DEF Websites!Begin
  <2> QED
    BY <2>1 DEF Websites!Unmade
<1> DEFINE cid == Websites!Named(base)
           candidate == IF method # "ntlm" THEN None ELSE IF with = "password" THEN q ELSE slot[cid]
           r == [Websites!Unmade EXCEPT
                    !.pc = "probing", !.kind = "save", !.base = base, !.method = method,
                    !.cid = cid, !.seen = conn, !.previous = slot[cid], !.candidate = candidate]
<1>2. CASE Websites!Refuse(q)
  BY <1>1, <1>2, RefuseKeeps
<1>3. CASE /\ Websites!Set(q, r)
           /\ method = "ntlm" /\ with # "password" => slot[cid] # None
           /\ method = "ntlm" /\ with # "password" /\ conn # Websites!NoConn => Origin[base] = Origin[conn.base]
  <2>1. cid \in Bases
    BY DEF Websites!Named, SiteTyped, Rows
  <2>2. slot[cid] \in Objects /\ candidate \in Objects /\ conn \in Rows /\ Stored(slot[cid])
    BY <2>1 DEF SiteTyped, Objects
  <2>3. /\ r \in Asked /\ r.pc = "probing" /\ r.kind = "save" /\ r.base = base /\ r.method = method
        /\ r.cid = cid /\ r.seen = conn /\ r.previous = slot[cid] /\ r.candidate = candidate
    <3> HIDE DEF cid, candidate
    <3>1. Websites!Unmade \in Asked
      BY UnmadeIsAsked
    <3> QED
      BY <2>1, <2>2, <3>1 DEF Asked
  <2> HIDE DEF r
  <2>4. Remembers /\ (RequestFits(q)' => SiteInv')
    BY <1>1, <1>3, <2>3, RequestSteps
  <2>5. req'[q] = r /\ mixed' = mixed /\ overlapped' = overlapped
    BY <1>1, <1>3 DEF SiteTyped, Websites!Set, Websites!history
  <2>6. q # None /\ q \notin Bases /\ slot[cid] # q
    BY <1>1, <2>2, WebsitesAssumption DEF Stored
  <2>7. ~overlapped /\ candidate # q => InUse(candidate, base)
    <3> SUFFICES ASSUME ~overlapped, candidate # q, candidate # None PROVE InUse(candidate, base)
      BY DEF InUse
    <3>1. method = "ntlm" /\ with # "password" /\ candidate = slot[cid]
      OBVIOUS
    <3>2. SlotFits(slot[cid], cid)
      BY <1>1, <2>1 DEF SlotsFit
    <3>3. conn.cid = cid => conn # Websites!NoConn
      BY <2>1, WebsitesAssumption DEF Websites!NoConn
    <3> QED
      BY <1>3, <3>1, <3>2, <3>3 DEF SlotFits, InUse
  <2>8. Stored(slot[cid])' /\ (~overlapped /\ candidate # q => InUse(candidate, base)')
    <3>1. Stored(candidate) \/ candidate = q
      BY <2>2 DEF Stored
    <3>2. \A x : Stored(x) => Stored(x)'
      BY <2>4, Remembered
    <3>3. \A x, b : Stored(x) /\ InUse(x, b) => InUse(x, b)'
      BY <2>4, <2>5, InUseStays
    <3>4. UNCHANGED cid /\ UNCHANGED candidate
      BY <1>1 DEF Websites!Named, Websites!rows
    <3> HIDE DEF cid, candidate
    <3> QED
      BY <1>1, <2>2, <2>7, <3>1, <3>2, <3>3, <3>4 DEF Stored, InUse, Websites!EnteredFor
  <2>9. EditFits(q)'
    BY <1>1, <1>3, <2>3, <2>5, <2>6, <2>8 DEF EditFits, Websites!Named, Stored, InUse, Websites!EnteredFor, Websites!rows
  <2>10. RequestFits(q)'
    BY <2>3, <2>5, <2>9 DEF RequestFits, Probing
  <2> QED
    BY <2>4, <2>10
<1> QED
  BY <1>1, <1>2, <1>3 DEF Websites!Begin

LEMMA BeginSetKeeps ==
    ASSUME SiteInv, NEW q \in Requests, NEW cid \in Bases, NEW password \in BOOLEAN,
           Websites!BeginSet(q, cid, password)
    PROVE  SiteInv'
<1> USE DEF SiteInv
<1>1. /\ req[q] = Websites!Unmade /\ req[q].pc = "unmade" /\ Websites!Committing = {}
      /\ UNCHANGED <<Websites!rows, slot, Websites!history>> /\ profile[cid] \in Bases
  BY DEF Websites!BeginSet, Websites!Unmade, SiteTyped
<1> DEFINE candidate == IF password THEN q ELSE slot[cid]
           r == [Websites!Unmade EXCEPT
                    !.pc = "probing", !.kind = "set", !.base = profile[cid], !.method = "ntlm",
                    !.cid = cid, !.previous = slot[cid], !.came = (conn.cid # cid),
                    !.candidate = candidate]
<1>2. CASE Websites!Refuse(q)
  BY <1>1, <1>2, RefuseKeeps
<1>3. CASE Websites!Set(q, r)
  <2>1. slot[cid] \in Objects /\ candidate \in Objects /\ Stored(slot[cid])
    BY DEF SiteTyped, Objects
  <2>2. /\ r \in Asked /\ r.pc = "probing" /\ r.kind = "set" /\ r.base = profile[cid]
        /\ r.cid = cid /\ r.previous = slot[cid] /\ r.candidate = candidate /\ (r.came <=> conn.cid # cid)
    <3> HIDE DEF candidate
    <3>1. Websites!Unmade \in Asked
      BY UnmadeIsAsked
    <3> QED
      BY <1>1, <2>1, <3>1 DEF Asked
  <2> HIDE DEF r
  <2>3. Remembers /\ (RequestFits(q)' => SiteInv')
    BY <1>1, <1>3, <2>2, RequestSteps
  <2>4. req'[q] = r /\ conn' = conn /\ overlapped' = overlapped /\ slot' = slot
    BY <1>1, <1>3 DEF SiteTyped, Websites!Set, Websites!history, Websites!rows
  <2>5. \A x : Stored(x) => Stored(x)'
    BY <2>3, Remembered
  <2>6. conn.cid = cid /\ ~overlapped => profile[cid] = conn.base
    BY WebsitesAssumption DEF RowsAgree
  <2>7. SetFits(q)'
    BY <1>1, <2>1, <2>2, <2>4, <2>5, <2>6 DEF SetFits, Stored
  <2>8. RequestFits(q)'
    BY <2>2, <2>4, <2>7 DEF RequestFits, Probing
  <2> QED
    BY <2>3, <2>8
<1> QED
  BY <1>1, <1>2, <1>3 DEF Websites!BeginSet

LEMMA ProbedKeeps ==
    ASSUME SiteInv, NEW q \in Requests, NEW verified \in BOOLEAN, Websites!Probed(q, verified)
    PROVE  SiteInv'
<1>1. /\ req[q].pc = "probing" /\ req[q] \in Asked /\ UNCHANGED <<Websites!rows, slot, Websites!history>>
      /\ RequestFits(q) /\ SiteTyped
  BY DEF Websites!Probed, SiteInv, SiteTyped
<1> DEFINE r == [req[q] EXCEPT !.pc = "probed"]
<1>2. CASE Websites!Refuse(q)
  BY <1>1, <1>2, RefuseKeeps
<1>3. CASE Websites!Set(q, r)
  <2>1. /\ r \in Asked /\ r.pc = "probed" /\ r.kind = req[q].kind /\ r.base = req[q].base
        /\ r.method = req[q].method /\ r.cid = req[q].cid /\ r.seen = req[q].seen
        /\ r.previous = req[q].previous /\ r.candidate = req[q].candidate /\ r.came = req[q].came
    BY <1>1 DEF Asked
  <2> HIDE DEF r
  <2>2. req' = [req EXCEPT ![q] = r] /\ req'[q] = r
    BY <1>1, <1>3 DEF Websites!Set, SiteTyped
  <2>3. Remembers
    BY <1>1, <2>2 DEF Remembers
  <2>4. \A x : Stored(x) => Stored(x)'
    BY <1>1, <2>3, Remembered
  <2>5. \A x, b : Stored(x) /\ InUse(x, b) => InUse(x, b)'
    BY <1>1, <2>3, InUseStays DEF Websites!history
  <2>6. slot' = slot /\ conn' = conn /\ mixed' = mixed /\ overlapped' = overlapped
    BY <1>1 DEF Websites!history, Websites!rows
  <2>7. EditFits(q) => EditFits(q)'
    BY <2>1, <2>2, <2>4, <2>5, <2>6 DEF EditFits, Stored, InUse, Websites!EnteredFor
  <2>8. SetFits(q) => SetFits(q)'
    BY <2>1, <2>2, <2>4, <2>6 DEF SetFits, Stored
  <2>9. RequestFits(q)'
    BY <1>1, <2>1, <2>2, <2>7, <2>8 DEF RequestFits, Probing
  <2>10. SetStays(q)
    BY <1>1, <2>1, <2>2 DEF SetStays, Probing
  <2> QED
    BY <1>1, <1>3, <2>1, <2>9, <2>10, RequestSteps DEF SiteInv
<1> QED
  BY <1>2, <1>3 DEF Websites!Probed

(* Refused probes and installations, and fetches. *)
LEMMA FailsKeep ==
    ASSUME SiteInv, NEW q \in Requests, Websites!ProbeFails(q) \/ Websites!InstallFails(q)
    PROVE  SiteInv'
  BY RefuseKeeps DEF Websites!ProbeFails, Websites!InstallFails

LEMMA BeginFetchKeeps ==
    ASSUME SiteInv, NEW q \in Requests, NEW kind \in {"sync", "verify"}, NEW cid \in Bases,
           Websites!BeginFetch(q, kind, cid)
    PROVE  SiteInv'
<1> DEFINE r == [Websites!Unmade EXCEPT !.pc = "asking", !.kind = kind, !.cid = cid]
<1>1. /\ req[q].pc = "unmade" /\ Websites!Set(q, r) /\ UNCHANGED <<Websites!rows, slot, Websites!history>> /\ SiteTyped
  BY DEF Websites!BeginFetch, Websites!Unmade, SiteInv
<1>2. r \in Asked /\ r.pc = "asking" /\ r.kind = kind /\ r.cid = cid
  <2>1. Websites!Unmade \in Asked
    BY UnmadeIsAsked
  <2> QED
    BY <2>1 DEF Asked
<1> HIDE DEF r
<1>3. req'[q] = r
  BY <1>1 DEF Websites!Set, SiteTyped
<1>4. RequestFits(q)'
  BY <1>2, <1>3 DEF RequestFits, Probing
<1>5. SetStays(q)
  BY <1>2, <1>3 DEF SetStays, Probing
<1> QED
  BY <1>1, <1>2, <1>4, <1>5, RequestSteps

LEMMA ChallengedKeeps ==
    ASSUME SiteInv, NEW q \in Requests, Websites!Challenged(q)
    PROVE  SiteInv'
<1> DEFINE r == [req[q] EXCEPT !.pc = "loaded", !.previous = slot[req[q].cid]]
<1>1. /\ req[q].pc = "asking" /\ req[q] \in Asked /\ UNCHANGED <<Websites!rows, slot, Websites!history>>
      /\ req[q].cid \in Bases /\ SiteTyped
  BY DEF Websites!Challenged, SiteInv, SiteTyped, RequestFits
<1>2. CASE Websites!Refuse(q) \/ Websites!Set(q, Websites!Done(q))
  BY <1>1, <1>2, RefuseKeeps
<1>3. CASE Websites!Set(q, r)
  <2>1. slot[req[q].cid] \in Objects
    BY <1>1 DEF SiteTyped
  <2>2. r \in Asked /\ r.pc = "loaded" /\ r.cid = req[q].cid /\ r.kind = req[q].kind
    BY <1>1, <2>1 DEF Asked
  <2> HIDE DEF r
  <2>3. req'[q] = r
    BY <1>1, <1>3 DEF Websites!Set, SiteTyped
  <2>4. RequestFits(q)'
    BY <1>1, <2>2, <2>3 DEF RequestFits, Probing
  <2>5. SetStays(q)
    BY <2>2, <2>3 DEF SetStays, Probing
  <2> QED
    BY <1>1, <1>3, <2>2, <2>4, <2>5, RequestSteps
<1> QED
  BY <1>2, <1>3 DEF Websites!Challenged

LEMMA SendKeeps ==
    ASSUME SiteInv, NEW q \in Requests, Websites!Send(q)
    PROVE  SiteInv'
<1> DEFINE r == [req[q] EXCEPT !.pc = "sent"]
<1>1. /\ req[q].pc = "loaded" /\ req[q] \in Asked /\ UNCHANGED <<Websites!rows, slot, Websites!history>>
      /\ req[q].cid \in Bases /\ SiteTyped
  BY DEF Websites!Send, SiteInv, SiteTyped, RequestFits
<1>2. /\ r \in Asked /\ r.pc = "sent" /\ r.cid = req[q].cid /\ r.kind = req[q].kind
  BY <1>1 DEF Asked
<1>3. Websites!Set(q, r)
  BY DEF Websites!Send
<1> HIDE DEF r
<1>4. req'[q] = r
  BY <1>1, <1>3 DEF Websites!Set, SiteTyped
<1>5. RequestFits(q)'
  BY <1>1, <1>2, <1>4 DEF RequestFits, Probing
<1>6. SetStays(q)
  BY <1>2, <1>4 DEF SetStays, Probing
<1> QED
  BY <1>1, <1>2, <1>3, <1>5, <1>6, RequestSteps

LEMMA NoticeKept ==
    ASSUME SiteTyped, NEW cid \in Bases, NEW x, Websites!Store(cid, x)
    PROVE  /\ slot'[cid] = x /\ \A b \in Bases \ {cid} : slot'[b] = slot[b]
           /\ Websites!Notice(cid, req) \in [Requests -> Asked]
           /\ \A p \in Requests : req'[p] = Websites!Notice(cid, req)[p] => LeftAlone(p)
           /\ \A p \in Requests : req[p].pc \notin {"probing", "probed"} => Websites!Notice(cid, req)[p] = req[p]
<1>1. slot'[cid] = x /\ \A b \in Bases \ {cid} : slot'[b] = slot[b]
  BY DEF SiteTyped, Websites!Store
<1>2. \A p \in Requests : [req[p] EXCEPT !.came = TRUE] \in Asked /\ [req[p] EXCEPT !.came = TRUE].came = TRUE
  BY DEF SiteTyped, Asked
<1>3. ASSUME NEW p \in Requests, req'[p] = Websites!Notice(cid, req)[p] PROVE LeftAlone(p)
  <2>1. req'[p] = IF slot'[cid] # slot[cid] /\ req[p].cid = cid /\ req[p].pc \in {"probing", "probed"}
                  THEN [req[p] EXCEPT !.came = TRUE] ELSE req[p]
    BY <1>3 DEF Websites!Notice
  <2> QED
    BY <1>1, <1>2, <2>1 DEF LeftAlone
<1>4. Websites!Notice(cid, req) \in [Requests -> Asked]
  BY <1>2 DEF Websites!Notice, SiteTyped
<1> QED
  BY <1>1, <1>3, <1>4 DEF Websites!Notice

(* A credential is stored or cleared, and the rows are left alone. *)
LEMMA StoreKeeps ==
    ASSUME SiteInv, NEW cid \in Bases, NEW x \in Objects, Websites!Store(cid, x),
           UNCHANGED <<Websites!rows, overlapped>>, mixed \subseteq mixed',
           NEW who, \A p \in Requests \ {who} : req'[p] = Websites!Notice(cid, req)[p],
           req' \in [Requests -> Asked], Remembers,
           x = None \/ Websites!Committing = {},
           who \in Requests => SetStays(who) /\ (req[who].pc = "installed" => req'[who] = req[who])
                               /\ RequestFits(who)',
           Stored(x)',
           Websites!Committing \subseteq Websites!Committing', \A p, q \in Websites!Committing' : p = q,
           ~overlapped' => SlotFits(x, cid)' \/ \E p \in Websites!Committing' : req'[p].cid = cid
    PROVE  SiteInv'
<1> USE DEF SiteInv
<1>1. /\ slot'[cid] = x /\ \A b \in Bases \ {cid} : slot'[b] = slot[b]
      /\ \A p \in Requests \ {who} : LeftAlone(p)
  BY NoticeKept
<1>2. SiteTyped'
  BY <1>1 DEF SiteTyped, Websites!Store, Websites!rows
<1>3. \A p \in Requests : RequestFits(p)'
  BY <1>1, OthersFit
<1>4. ASSUME NEW b \in Bases PROVE Stored(slot[b])'
  BY <1>1, Remembered DEF Stored
<1>5. ~overlapped' => RowsAgree'
  BY DEF RowsAgree, Websites!rows
<1>5a. \A p \in Websites!Committing : p \in Websites!Committing' /\ req'[p].cid = req[p].cid
  BY <1>1, KeptFields DEF Websites!Committing
<1>6. ASSUME ~overlapped', NEW b \in Bases
      PROVE  SlotFits(slot[b], b)' \/ \E p \in Websites!Committing' : req'[p].cid = b
  <2>1. CASE b = cid
    BY <1>1, <1>6, <2>1 DEF SlotFits, Websites!EnteredFor
  <2>2. CASE b # cid
    BY <1>1, <1>5a, <1>6, <2>2, SlotsStay
  <2> QED
    BY <2>1, <2>2
<1>8. ~overlapped' => SlotsFit'
  BY <1>6 DEF SlotsFit
<1> QED
  BY <1>2, <1>3, <1>4, <1>5, <1>8

LEMMA ClearKeeps ==
    ASSUME SiteInv, NEW cid \in Bases, Websites!Clear(cid)
    PROVE  SiteInv'
<1>1. SiteTyped /\ Websites!Store(cid, None) /\ UNCHANGED <<Websites!rows, overlapped>> /\ mixed' = mixed
      /\ req' = Websites!Notice(cid, req)
  BY DEF Websites!Clear, Websites!history, SiteInv
<1>2. \A p \in Requests : LeftAlone(p)
  BY <1>1, NoticeKept
<1>3. req' \in [Requests -> Asked]
  BY <1>1, NoticeKept
<1>4. Remembers
  BY <1>1, NoticeKept DEF Remembers
<1>5. Websites!Committing' = Websites!Committing
  BY <1>1, <1>2, KeptFields DEF Websites!Committing
<1>6. None \notin Requests /\ Stored(None)' /\ SlotFits(None, cid)' /\ None \in Objects
  BY WebsitesAssumption DEF Stored, SlotFits, Objects
<1> QED
  BY <1>1, <1>3, <1>4, <1>5, <1>6, StoreKeeps DEF SiteInv

LEMMA AnsweredKeeps ==
    ASSUME SiteInv, NEW q \in Requests, NEW refused \in BOOLEAN, Websites!Answered(q, refused)
    PROVE  SiteInv'
<1>0. PICK cid \in Bases : cid = req[q].cid
  BY DEF Websites!Answered, SiteInv, RequestFits
<1>1. /\ req[q].pc = "sent" /\ SiteTyped
      /\ UNCHANGED <<Websites!rows, overlapped>> /\ mixed' = mixed /\ UNCHANGED <<Websites!rows, Websites!history>>
  BY DEF Websites!Answered, SiteInv, RequestFits, Websites!history
<1>2. CASE Websites!Set(q, Websites!Done(q)) /\ UNCHANGED slot
  BY <1>1, <1>2, RefuseKeeps
<1>3. CASE Websites!Store(cid, None) /\ req' = [Websites!Notice(cid, req) EXCEPT ![q] = Websites!Done(q)]
  <2>1. \A p \in Requests : Websites!Notice(cid, req)[p] \in Asked
    BY <1>1, <1>3, NoticeKept
  <2>2. req' \in [Requests -> Asked] /\ req'[q] = Websites!Done(q)
        /\ \A p \in Requests \ {q} : req'[p] = Websites!Notice(cid, req)[p]
    BY <1>1, <1>3, DoneFields, NoticeKept
  <2>3. req'[q].pc = "done"
    BY <1>1, <2>2, DoneFields
  <2>4. \A p \in Requests \ {q} : LeftAlone(p)
    BY <1>1, <1>3, <2>2, NoticeKept
  <2>5. Remembers
    BY <1>1, <1>3, <2>2, NoticeKept DEF Remembers
  <2>6. Websites!Committing' = Websites!Committing
    BY <1>1, <2>3, <2>4, KeptFields DEF Websites!Committing
  <2>7. SetStays(q) /\ RequestFits(q)'
    BY <2>3 DEF SetStays, RequestFits, Probing
  <2>8. Stored(None)' /\ SlotFits(None, cid)' /\ None \in Objects
    BY DEF Stored, SlotFits, Objects
  <2> QED
    BY <1>1, <1>3, <2>2, <2>3, <2>5, <2>6, <2>7, <2>8, StoreKeeps DEF SiteInv
<1> QED
  BY <1>0, <1>2, <1>3 DEF Websites!Answered

LEMMA InstallKeeps ==
    ASSUME SiteInv, NEW q \in Requests, Websites!Install(q)
    PROVE  SiteInv'
<1> DEFINE r == req[q]
<1>0. PICK cid \in Bases, x \in Objects : cid = req[q].cid /\ x = req[q].candidate
  BY DEF Websites!Install, SiteInv, SiteTyped, RequestFits, Probing, EditFits, Asked, Rows
<1> USE DEF SiteInv
<1>1. /\ r \in Asked /\ r.pc = "probed" /\ r.kind = "save" /\ Websites!Committing = {} /\ EditFits(q)
      /\ UNCHANGED <<Websites!rows, overlapped>> /\ mixed' = mixed /\ conn' = conn
  BY DEF Websites!Install, SiteTyped, RequestFits, Probing, Websites!history, Websites!rows
<1>3. /\ slot[cid] = r.previous /\ Websites!Store(cid, x)
      /\ req' = [Websites!Notice(cid, req) EXCEPT ![q].pc = "installed"]
      /\ \/ Websites!InstallChanges(q)
         \/ x = None /\ slot[cid] = None /\ ~Websites!InstallChanges(q)
  <2>1. CASE Websites!InstallChanges(q) /\ Websites!Replace(cid, r.previous, x)
             /\ req' = [Websites!Notice(cid, req) EXCEPT ![q].pc = "installed"]
    BY <1>0, <2>1 DEF Websites!Replace, Websites!Same
  <2>2. CASE /\ x = None /\ r.previous = None /\ Websites!Same(cid, None)
             /\ Websites!Set(q, [req[q] EXCEPT !.pc = "installed"]) /\ UNCHANGED slot
    <3>1. Websites!Store(cid, x)
      BY <1>0, <2>2 DEF Websites!Same, Websites!Store, SiteTyped
    <3>2. Websites!Notice(cid, req) = req
      BY <1>0, <2>2 DEF Websites!Notice, SiteTyped
    <3>3. ~Websites!InstallChanges(q)
      BY <1>0, <2>2 DEF Websites!InstallChanges
    <3> QED
      BY <1>0, <2>2, <3>1, <3>2, <3>3 DEF Websites!Same, Websites!Set
  <2> QED
    BY <1>0, <2>1, <2>2 DEF Websites!Install
<1>4. /\ slot'[cid] = x /\ Websites!Notice(cid, req) \in [Requests -> Asked]
      /\ \A p \in Requests : req'[p] = Websites!Notice(cid, req)[p] => LeftAlone(p)
      /\ \A p \in Requests : req[p].pc \notin {"probing", "probed"} => Websites!Notice(cid, req)[p] = req[p]
  BY <1>0, <1>3, NoticeKept
<1>5. Websites!Notice(cid, req)[q] \in {r, [r EXCEPT !.came = TRUE]}
  BY <1>0 DEF Websites!Notice
<1>6. /\ req' \in [Requests -> Asked] /\ req'[q] = [Websites!Notice(cid, req)[q] EXCEPT !.pc = "installed"]
      /\ \A p \in Requests \ {q} : req'[p] = Websites!Notice(cid, req)[p]
  <2>1. [Websites!Notice(cid, req)[q] EXCEPT !.pc = "installed"] \in Asked
    BY <1>0, <1>4 DEF Asked
  <2> QED
    BY <1>0, <1>3, <1>4, <2>1
<1>7. /\ req'[q].pc = "installed" /\ req'[q].kind = "save" /\ req'[q].base = r.base
      /\ req'[q].method = r.method /\ req'[q].cid = cid /\ req'[q].seen = r.seen
      /\ req'[q].previous = r.previous /\ req'[q].candidate = x
  BY <1>0, <1>1, <1>5, <1>6 DEF Asked
<1>8. Remembers
  BY <1>0, <1>1, <1>4, <1>6 DEF Remembers, Websites!Committing
<1>9. Websites!Committing' = {q}
  <2>1. \A p \in Requests \ {q} : req'[p].pc = req[p].pc
    BY <1>0, <1>4, <1>6, KeptFields
  <2> QED
    BY <1>0, <1>1, <1>7, <2>1 DEF Websites!Committing
<1>10. (\A o : Stored(o) => Stored(o)') /\ (\A o, b : Stored(o) /\ InUse(o, b) => InUse(o, b)')
  BY <1>0, <1>1, <1>8, Remembered, InUseStays
<1>11. x # q => Stored(x)
  BY <1>0, <1>1 DEF EditFits, Stored
<1>12. EditFits(q)'
  <2>1. ~overlapped /\ x # q => InUse(x, r.base)
    BY <1>0, <1>1 DEF EditFits
  <2>2. ~overlapped' /\ x # q => InUse(x, req[q].base)'
    BY <1>1, <1>7, <1>10, <1>11, <2>1 DEF InUse, Websites!EnteredFor
  <2>3. Stored(req[q].previous)'
    BY <1>1, <1>7, <1>10 DEF EditFits, Stored
  <2> QED
    BY <1>0, <1>1, <1>7, <2>2, <2>3 DEF EditFits, InUse, Websites!EnteredFor
<1>13. CommitFits(q)'
  <2>1. Websites!InstallChanges(q)' <=> Websites!InstallChanges(q)
    BY <1>0, <1>1, <1>7 DEF Websites!InstallChanges, Websites!KnownTo, Websites!Exists, Websites!NewRow
  <2>2. ~overlapped => SlotFits(r.previous, cid)
    BY <1>1, <1>0, <1>3 DEF SlotsFit
  <2>3. Stored(r.previous)
    BY <1>0, <1>1 DEF EditFits
  <2>4. ~overlapped' => SlotFits(r.previous, cid)'
    BY <1>0, <1>1, <1>7, <1>8, <2>2, <2>3, Remembered DEF SlotFits, Websites!EnteredFor
  <2>5. ASSUME NEW p \in Requests, Probing(p, "set")', req'[p].cid = cid, ~req'[p].came
        PROVE  x = r.previous /\ req'[p].previous = r.previous
    <3>1. p # q
      BY <1>0, <1>7, <2>5 DEF Probing
    <3>2. LeftAlone(p)
      BY <1>0, <1>4, <1>6, <3>1
    <3>3. /\ Probing(p, "set") /\ req[p].cid = cid /\ ~req[p].came
          /\ req'[p].previous = req[p].previous
      BY <1>0, <2>5, <3>2, KeptFields DEF Probing
    <3>4. SetFits(p)
      BY <3>3 DEF RequestFits
    <3>5. slot'[cid] = slot[cid]
      BY <1>0, <2>5, <3>2, <3>3 DEF LeftAlone, Probing
    <3> QED
      BY <1>0, <1>3, <1>4, <3>3, <3>4, <3>5 DEF SetFits
  <2> QED
    BY <1>0, <1>3, <1>4, <1>7, <2>1, <2>4, <2>5 DEF CommitFits, SlotFits, Websites!EnteredFor
<1>14. RequestFits(q)' /\ SetStays(q) /\ Stored(x)'
  BY <1>0, <1>7, <1>10, <1>11, <1>12, <1>13, WebsitesAssumption DEF RequestFits, Probing, SetStays, Stored
<1> QED
  BY <1>1, <1>0, <1>3, <1>6, <1>7, <1>8, <1>9, <1>14, StoreKeeps DEF Websites!Committing

LEMMA InstallSetKeeps ==
    ASSUME SiteInv, NEW q \in Requests, Websites!InstallSet(q)
    PROVE  SiteInv'
<1> DEFINE r == req[q]
<1>0. PICK cid \in Bases, x \in Objects : cid = req[q].cid /\ x = req[q].candidate
  BY DEF Websites!InstallSet, SiteInv, SiteTyped, RequestFits, Probing, SetFits, Asked
<1> USE DEF SiteInv
<1>1. /\ r \in Asked /\ r.pc = "probed" /\ Websites!Committing = {} /\ SetFits(q) /\ q # None
      /\ UNCHANGED <<Websites!rows, overlapped>> /\ mixed \subseteq mixed' /\ conn' = conn
      /\ (x = q /\ (r.came \/ conn.cid # cid) => q \in mixed')
      /\ slot[cid] = r.previous /\ Websites!Store(cid, x)
      /\ req' = [Websites!Notice(cid, req) EXCEPT ![q] = Websites!Done(q)]
  BY <1>0, WebsitesAssumption DEF Websites!InstallSet, Websites!Replace, Websites!Same, SiteTyped, RequestFits, Probing, Websites!rows
<1>3. /\ Websites!Notice(cid, req) \in [Requests -> Asked]
      /\ \A p \in Requests : req'[p] = Websites!Notice(cid, req)[p] => LeftAlone(p)
      /\ \A p \in Requests : req[p].pc \notin {"probing", "probed"} => Websites!Notice(cid, req)[p] = req[p]
  BY <1>1, <1>0, NoticeKept
<1>4. /\ req' \in [Requests -> Asked] /\ req'[q] = Websites!Done(q)
      /\ \A p \in Requests \ {q} : req'[p] = Websites!Notice(cid, req)[p]
  BY <1>0, <1>1, <1>3, DoneFields
<1>5. req'[q].pc = "done" /\ (x = q => req'[q].base = r.base)
  BY <1>0, <1>4, DoneFields
<1>6. Remembers
  BY <1>0, <1>1, <1>3, <1>4 DEF Remembers
<1>7. Websites!Committing' = {}
  <2>1. \A p \in Requests \ {q} : req'[p].pc = req[p].pc
    BY <1>0, <1>3, <1>4, KeptFields
  <2> QED
    BY <1>0, <1>1, <1>5, <2>1 DEF Websites!Committing
<1>8. RequestFits(q)' /\ SetStays(q)
  BY <1>0, <1>5 DEF RequestFits, Probing, SetStays
<1>9. Stored(r.previous) /\ x \in {q, r.previous}
  BY <1>0, <1>1 DEF SetFits
<1>10. Stored(x)'
  BY <1>0, <1>5, <1>6, <1>9, Remembered DEF Stored
<1>11. ASSUME ~overlapped' PROVE SlotFits(x, cid)'
  <2>1. CASE x = q /\ q \notin mixed'
    <3>1. conn.cid = cid /\ Origin[r.base] = Origin[conn.base]
      BY <1>0, <1>1, <1>11, <2>1 DEF SetFits
    <3>2. q \notin Bases
      BY <1>0, WebsitesAssumption
    <3> QED
      BY <1>0, <1>1, <1>4, <1>5, <1>11, <2>1, <3>1, <3>2 DEF SlotFits, Websites!EnteredFor
  <2>2. CASE x = q /\ q \in mixed'
    BY <1>0, <2>2 DEF SlotFits
  <2>3. CASE x = r.previous
    <3>1. SlotFits(slot[cid], cid)
      BY <1>1, <1>0, <1>11 DEF SlotsFit
    <3> QED
      BY <1>0, <1>1, <1>6, <1>9, <2>3, <3>1, Remembered DEF SlotFits, Websites!EnteredFor
  <2> QED
    BY <1>0, <1>9, <2>1, <2>2, <2>3
<1> QED
  BY <1>1, <1>0, <1>4, <1>6, <1>7, <1>8, <1>10, <1>11, StoreKeeps

(* A commit that saw the site as it is: the row and the source are the      *)
(* edit's, and the slot holds what it installed, or was cleared.            *)
LEMMA CommitWrites ==
    ASSUME SiteInv, NEW q \in Requests, Websites!Commit(q), ~overlapped'
    PROVE  /\ conn' = Websites!NewRow(q) /\ conn = req[q].seen /\ ~overlapped
           /\ source' = [base |-> Websites!NewRow(q).base, cid |-> Websites!NewRow(q).cid, method |-> req[q].method]
           /\ Websites!NewRow(q).cid # None => profile' = [profile EXCEPT ![Websites!NewRow(q).cid] = req[q].base]
<1>1. /\ conn = req[q].seen /\ ~overlapped /\ ~Websites!Exists(q) /\ (Websites!Added(q) \/ Websites!Edited(q))
  BY DEF Websites!Commit, Websites!Exists
<1>2. CASE Websites!Added(q)
  BY <1>1, <1>2 DEF Websites!Added, Websites!Follows
<1>3. CASE Websites!Edited(q)
  <2>1. conn = [base |-> conn.base, cid |-> conn.cid, config |-> conn.config]
    BY DEF SiteInv, SiteTyped, Rows
  <2>2. \A f \in DOMAIN conn : (IF Websites!NewRow(q)[f] = conn[f] THEN conn[f] ELSE Websites!NewRow(q)[f]) = Websites!NewRow(q)[f]
    OBVIOUS
  <2>3. conn' = [f \in DOMAIN conn |-> Websites!NewRow(q)[f]]
    BY <1>1, <1>3, <2>2 DEF Websites!Edited, Websites!Written
  <2>4. DOMAIN conn = {"base", "cid", "config"}
    BY <2>1
  <2>5. conn' = [f \in {"base", "cid", "config"} |-> Websites!NewRow(q)[f]]
    BY <2>3, <2>4
  <2>6. conn' = [base |-> Websites!NewRow(q).base, cid |-> Websites!NewRow(q).cid, config |-> Websites!NewRow(q).config]
    BY <2>5
  <2>7. conn' = Websites!NewRow(q)
    BY <2>6 DEF Websites!NewRow
  <2> QED
    BY <1>1, <1>3, <2>7 DEF Websites!Edited, Websites!Follows
<1> QED
  BY <1>1, <1>2, <1>3

LEMMA NewRowFields ==
    ASSUME SiteInv, NEW q \in Requests, req[q].pc = "installed"
    PROVE  /\ Websites!NewRow(q) \in Rows /\ Websites!NewRow(q).base = req[q].base /\ req[q].base \in Bases
           /\ req[q].method = "none" => Websites!NewRow(q).cid = None
           /\ req[q].method = "ntlm" => Websites!NewRow(q).cid = req[q].cid
           /\ req[q].method \in {"none", "ntlm"} /\ req[q].cid \in Bases
           /\ req[q].seen \in Rows /\ EditFits(q) /\ CommitFits(q)
<1>1. req[q] \in Asked /\ EditFits(q) /\ CommitFits(q)
  BY DEF SiteInv, SiteTyped, RequestFits
<1> QED
  BY <1>1 DEF Websites!NewRow, Rows, Asked, EditFits

LEMMA CommitTyped ==
    ASSUME SiteInv, NEW q \in Requests, Websites!Commit(q)
    PROVE  /\ SiteTyped' /\ Remembers /\ slot' = slot /\ mixed' = mixed /\ Websites!Committing' = {}
           /\ req[q].pc = "installed" /\ req'[q].pc = "done"
           /\ req[q].candidate = q => req'[q].base = req[q].base
           /\ overlapped => overlapped'
           /\ \A p \in Requests \ {q} : req'[p] = req[p]
<1>1. /\ req[q].pc = "installed" /\ SiteTyped /\ Websites!Set(q, Websites!Done(q)) /\ slot' = slot /\ mixed' = mixed
      /\ overlapped' = (overlapped \/ conn # req[q].seen)
  BY DEF Websites!Commit, SiteInv
<1>2. req' \in [Requests -> Asked] /\ req'[q] = Websites!Done(q) /\ \A p \in Requests \ {q} : req'[p] = req[p]
  BY <1>1, DoneFields DEF Websites!Set, SiteTyped
<1>3. req'[q].pc = "done" /\ (req[q].candidate = q => req'[q].base = req[q].base)
  BY <1>1, <1>2, DoneFields
<1>4. Websites!Committing' = {}
  BY <1>1, <1>2, <1>3 DEF SiteInv, Websites!Committing
<1>5. conn' \in Rows /\ (conn' = Websites!NoConn \/ conn'.base \in Bases)
      /\ profile' \in [Bases -> Bases \union {None}]
  <2>1. CASE UNCHANGED Websites!rows
    BY <1>1, <2>1 DEF SiteTyped, Websites!rows
  <2>2. CASE Websites!Added(q)
    BY <1>1, <2>2, NewRowFields DEF Websites!Added, Websites!Follows, SiteTyped, Rows
  <2>3. CASE Websites!Edited(q)
    <3>1. conn \in Rows /\ conn.base \in Bases /\ DOMAIN conn = {"base", "cid", "config"}
      BY <1>1, <2>3 DEF SiteTyped, Rows, Websites!Edited
    <3>2. /\ conn'.base \in {conn.base, Websites!NewRow(q).base} /\ conn'.cid \in {conn.cid, Websites!NewRow(q).cid}
          /\ conn'.config \in {conn.config, Websites!NewRow(q).config}
      BY <2>3, <3>1 DEF Websites!Edited, Websites!Written
    <3>3. conn' = [base |-> conn'.base, cid |-> conn'.cid, config |-> conn'.config]
      BY <2>3, <3>1 DEF Websites!Edited, Websites!Written
    <3>4. conn' \in Rows /\ conn'.base \in Bases
      BY <1>1, <3>1, <3>2, <3>3, NewRowFields DEF Rows
    <3>5. profile' \in [Bases -> Bases \union {None}]
      BY <1>1, <2>3, NewRowFields DEF Websites!Edited, Websites!Follows, SiteTyped, Rows
    <3> QED
      BY <3>4, <3>5
  <2> QED
    BY <2>1, <2>2, <2>3 DEF Websites!Commit
<1> QED
  BY <1>1, <1>2, <1>3, <1>4, <1>5 DEF SiteTyped, Remembers

\* After a commit, too, what a slot holds is for the site as it then is.
LEMMA CommitSlots ==
    ASSUME SiteInv, NEW q \in Requests, Websites!Commit(q), ~overlapped', NEW b \in Bases
    PROVE  SlotFits(slot[b], b)'
<1>1. /\ conn' = Websites!NewRow(q) /\ conn = req[q].seen /\ ~overlapped
  BY CommitWrites
<1>2. /\ Remembers /\ slot' = slot /\ mixed' = mixed /\ req[q].pc = "installed"
      /\ (req[q].candidate = q => req'[q].base = req[q].base)
  BY CommitTyped
<1>3. /\ Websites!NewRow(q).base = req[q].base /\ req[q].cid \in Bases
      /\ req[q].method = "ntlm" => Websites!NewRow(q).cid = req[q].cid
      /\ req[q].method \in {"none", "ntlm"} /\ EditFits(q) /\ CommitFits(q) /\ req[q].seen \in Rows
  BY <1>2, NewRowFields
<1>4. Stored(slot[b]) /\ (slot[b] # None => Websites!EnteredFor(slot[b])' = Websites!EnteredFor(slot[b]))
  BY <1>2, Remembered DEF SiteInv, Websites!EnteredFor
<1>5. CASE b # req[q].cid
  <2>1. SlotFits(slot[b], b)
    BY <1>1, <1>2, <1>5 DEF SiteInv, SlotsFit, Websites!Committing
  <2>2. conn.cid # b
    BY <1>1, <1>3, <1>5, WebsitesAssumption DEF EditFits
  <2> QED
    BY <1>2, <2>1, <2>2 DEF SlotFits
<1>6. CASE b = req[q].cid
  <2>1. slot[b] \in {None, req[q].candidate}
    BY <1>3, <1>6 DEF CommitFits
  <2>2. CASE slot[b] = None
    BY <1>2, <2>2 DEF SlotFits
  <2>3. CASE slot[b] # None /\ slot[b] = q
    <3>1. conn'.cid = b /\ conn'.base = req[q].base
      BY <1>1, <1>3, <1>6, <2>1, <2>3 DEF EditFits
    <3>2. req'[q].base = req[q].base /\ q \notin Bases
      BY <1>2, <2>1, <2>3, WebsitesAssumption
    <3> QED
      BY <1>2, <2>3, <3>1, <3>2 DEF SlotFits, Websites!EnteredFor
  <2>4. CASE slot[b] # None /\ slot[b] # q
    <3>1. conn'.cid = b /\ conn'.base = req[q].base
      BY <1>1, <1>3, <1>6, <2>1, <2>4 DEF EditFits
    <3>2. InUse(slot[b], req[q].base)
      BY <1>1, <1>3, <2>1, <2>4 DEF EditFits
    <3> QED
      BY <1>2, <1>4, <2>4, <3>1, <3>2 DEF SlotFits, InUse, Websites!EnteredFor
  <2> QED
    BY <2>2, <2>3, <2>4
<1> QED
  BY <1>5, <1>6

(* What is being set meanwhile is for the site as it now is, or for a slot  *)
(* that the commit left empty.                                              *)
LEMMA CommitSets ==
    ASSUME SiteInv, NEW q \in Requests, Websites!Commit(q), NEW p \in Requests, p # q, Probing(p, "set")
    PROVE  SetFits(p)'
<1>1. /\ Remembers /\ slot' = slot /\ req[q].pc = "installed" /\ (overlapped => overlapped')
      /\ req'[p] = req[p]
  BY CommitTyped
<1>2. SetFits(p) /\ Stored(req[p].previous)'
  BY <1>1, Remembered DEF SiteInv, RequestFits, SetFits, Stored
<1>3. ASSUME ~req[p].came, ~overlapped'
      PROVE  \/ conn'.cid = req[p].cid /\ Origin[req[p].base] = Origin[conn'.base]
             \/ conn'.cid # req[p].cid /\ req[p].previous = None
  <2>1. conn' = Websites!NewRow(q) /\ conn = req[q].seen /\ ~overlapped
    BY <1>3, CommitWrites
  <2>2. /\ Websites!NewRow(q).base = req[q].base
        /\ req[q].method = "none" => Websites!NewRow(q).cid = None
        /\ req[q].method = "ntlm" => Websites!NewRow(q).cid = req[q].cid
        /\ req[q].method \in {"none", "ntlm"} /\ EditFits(q) /\ CommitFits(q) /\ req[q].seen \in Rows
    BY <1>1, NewRowFields
  <2>3. slot[req[p].cid] = req[p].previous /\ req[p].cid \in Bases
    BY <1>2, <1>3 DEF SetFits
  <2>4. CASE req[p].cid = req[q].cid
    <3>1. req[q].candidate = req[q].previous /\ req[p].previous = req[q].previous
      BY <1>3, <2>2, <2>4 DEF CommitFits
    <3>2. CASE req[q].method = "none"
      BY <2>1, <2>2, <2>3, <3>1, <3>2, WebsitesAssumption DEF EditFits
    <3>3. CASE req[q].method = "ntlm"
      <4>1. req[q].candidate \notin {None, q} /\ conn'.cid = req[p].cid /\ conn'.base = req[q].base
        BY <2>1, <2>2, <2>4, <3>1, <3>3 DEF EditFits
      <4>2. conn.cid = req[p].cid /\ Origin[req[p].base] = Origin[conn.base]
        BY <1>2, <1>3, <2>1, <3>1, <4>1 DEF SetFits
      <4>3. conn # Websites!NoConn
        BY <2>3, <4>2, WebsitesAssumption DEF Websites!NoConn
      <4> QED
        BY <2>1, <2>2, <4>1, <4>2, <4>3 DEF EditFits
    <3> QED
      BY <2>2, <3>2, <3>3
  <2>5. CASE req[p].cid # req[q].cid
    <3>1. conn.cid # req[p].cid
      BY <2>1, <2>2, <2>3, <2>5, WebsitesAssumption DEF EditFits
    <3>2. conn'.cid # req[p].cid
      BY <2>1, <2>2, <2>3, <2>5, WebsitesAssumption
    <3> QED
      BY <1>2, <1>3, <2>1, <3>1, <3>2 DEF SetFits
  <2> QED
    BY <2>4, <2>5
<1> QED
  BY <1>1, <1>2, <1>3 DEF SetFits, Stored

LEMMA CommitStep ==
    ASSUME SiteInv, NEW q \in Requests, Websites!Commit(q)
    PROVE  SiteInv'
<1>1. /\ SiteTyped' /\ SiteTyped /\ Remembers /\ slot' = slot /\ mixed' = mixed /\ Websites!Committing' = {}
      /\ req[q].pc = "installed" /\ req'[q].pc = "done" /\ (overlapped => overlapped')
      /\ \A p \in Requests \ {q} : req'[p] = req[p] /\ LeftAlone(p)
  BY CommitTyped DEF SiteInv, LeftAlone
<1>2. \A b \in Bases : Stored(slot[b])'
  BY <1>1, Remembered DEF SiteInv, Stored
<1>3. ASSUME ~overlapped' PROVE RowsAgree'
  <2>1. /\ conn' = Websites!NewRow(q)
        /\ source' = [base |-> Websites!NewRow(q).base, cid |-> Websites!NewRow(q).cid, method |-> req[q].method]
        /\ Websites!NewRow(q).cid # None => profile' = [profile EXCEPT ![Websites!NewRow(q).cid] = req[q].base]
    BY <1>3, CommitWrites
  <2>2. /\ Websites!NewRow(q).base = req[q].base /\ req[q].base \in Bases
        /\ req[q].method = "none" => Websites!NewRow(q).cid = None
        /\ req[q].method = "ntlm" => Websites!NewRow(q).cid = req[q].cid
        /\ req[q].method \in {"none", "ntlm"} /\ req[q].cid \in Bases
    BY <1>1, NewRowFields
  <2>3. conn' # Websites!NoConn
    BY <2>1, <2>2, WebsitesAssumption DEF Websites!NoConn
  <2>4. CASE req[q].method = "none"
    BY <2>1, <2>2, <2>4 DEF RowsAgree
  <2>5. CASE req[q].method = "ntlm"
    BY <1>1, <2>1, <2>2, <2>3, <2>5, WebsitesAssumption DEF RowsAgree, SiteTyped
  <2> QED
    BY <2>2, <2>4, <2>5
<1>4. ~overlapped' => SlotsFit'
  BY <1>1, CommitSlots DEF SlotsFit, SlotFits, Websites!EnteredFor
<1>5. ASSUME NEW p \in Requests, p # q PROVE RequestFits(p)'
  <2>1. req'[p] = req[p] /\ RequestFits(p) /\ req[p].pc # "installed"
    BY <1>1, <1>5 DEF SiteInv, Websites!Committing
  <2>2. EditFits(p) => EditFits(p)'
    BY <1>1, <1>5, EditKeeps
  <2>3. Probing(p, "set") => SetFits(p)'
    BY <1>5, CommitSets
  <2> QED
    BY <2>1, <2>2, <2>3 DEF RequestFits, Probing
<1>6. RequestFits(q)'
  BY <1>1 DEF RequestFits, Probing
<1> QED
  BY <1>1, <1>2, <1>3, <1>4, <1>5, <1>6 DEF SiteInv

LEMMA CommitFailsStep ==
    ASSUME SiteInv, NEW q \in Requests, Websites!CommitFails(q)
    PROVE  SiteInv'
<1> USE DEF SiteInv
<1>1. /\ req[q].pc = "installed" /\ SiteTyped /\ Websites!Set(q, Websites!Done(q)) /\ UNCHANGED <<Websites!rows, overlapped>>
      /\ mixed \subseteq mixed' /\ conn' = conn /\ Websites!Committing = {q}
  BY DEF Websites!CommitFails, Websites!Rollback, Websites!rows, Websites!Committing
<1>2. EditFits(q) /\ CommitFits(q) /\ req[q] \in Asked
  BY <1>1 DEF RequestFits, SiteTyped
<1>3. PICK cid \in Bases, previous \in Objects : cid = req[q].cid /\ previous = req[q].previous
  BY <1>1, NewRowFields, <1>2 DEF Asked
<1>4. \/ slot[cid] = req[q].candidate /\ Websites!Store(cid, previous) /\ Websites!InstallChanges(q)
      \/ /\ slot' = slot
         /\ slot[cid] \in {None} \union mixed'
  BY <1>1, <1>2, <1>3 DEF Websites!CommitFails, Websites!Rollback, CommitFits
<1>5. /\ \A b \in Bases \ {cid} : slot'[b] = slot[b]
      /\ slot' \in [Bases -> Objects] /\ slot'[cid] \in {slot[cid], previous}
  BY <1>1, <1>3, <1>4 DEF Websites!Store, SiteTyped
<1>6. req' \in [Requests -> Asked] /\ req'[q] = Websites!Done(q) /\ \A p \in Requests \ {q} : req'[p] = req[p]
  BY <1>1, DoneFields DEF Websites!Set, SiteTyped
<1>7. req'[q].pc = "done"
  BY <1>1, <1>6, DoneFields
<1>8. Remembers /\ Websites!Committing' = {}
  BY <1>1, <1>6, <1>7 DEF Remembers, Websites!Committing
<1>9. SiteTyped'
  BY <1>1, <1>5, <1>6 DEF SiteTyped, Websites!rows
<1>10. ASSUME NEW p \in Requests, p # q PROVE RequestFits(p)'
  <2>1. req'[p] = req[p] /\ RequestFits(p) /\ req[p].pc # "installed"
    BY <1>1, <1>6, <1>10 DEF Websites!Committing
  <2>2. ASSUME EditFits(p) PROVE EditFits(p)'
    <3>1. CASE req[p].pc \in {"probing", "probed"} /\ req[p].cid = cid /\ slot'[cid] # slot[cid]
      <4>1. \A x : Stored(x) => Stored(x)'
        BY <1>1, <1>8, Remembered
      <4>2. \A x, b : Stored(x) /\ InUse(x, b) => InUse(x, b)'
        BY <1>1, <1>8, InUseStays
      <4>3. req[p].candidate # p => Stored(req[p].candidate)
        BY <2>2 DEF EditFits, Stored
      <4> QED
        BY <1>1, <2>1, <2>2, <4>1, <4>2, <4>3 DEF EditFits, Stored, InUse, Websites!EnteredFor
    <3>2. CASE ~(req[p].pc \in {"probing", "probed"} /\ req[p].cid = cid /\ slot'[cid] # slot[cid])
      <4>1. LeftAlone(p)
        BY <1>5, <2>1, <3>2 DEF LeftAlone
      <4> QED
        BY <1>1, <1>8, <2>2, <4>1, EditKeeps
    <3> QED
      BY <3>1, <3>2
  <2>3. ASSUME Probing(p, "set") PROVE SetFits(p)'
    <3>1. SetFits(p) /\ req[p].cid \in Bases
      BY <2>1, <2>3 DEF RequestFits, SetFits
    <3>2. req[p].cid = cid /\ ~req[p].came => req[q].candidate = previous
      BY <1>2, <1>3, <2>3 DEF CommitFits
    <3>3. ~req[p].came => slot'[req[p].cid] = slot[req[p].cid]
      BY <1>3, <1>4, <1>5, <3>1, <3>2 DEF Websites!Store, SiteTyped
    <3>4. LeftAlone(p)
      BY <2>1, <3>3 DEF LeftAlone
    <3> QED
      BY <1>1, <1>8, <2>3, <3>1, <3>4, SetKeeps DEF Probing
  <2> QED
    BY <2>1, <2>2, <2>3 DEF RequestFits, Probing
<1>11. RequestFits(q)'
  BY <1>7 DEF RequestFits, Probing
<1>12. Stored(previous)' /\ (previous # None => Websites!EnteredFor(previous)' = Websites!EnteredFor(previous))
  BY <1>1, <1>2, <1>3, <1>8, Remembered DEF EditFits
<1>13. ASSUME NEW b \in Bases PROVE Stored(slot[b])'
  BY <1>1, <1>3, <1>5, <1>8, <1>12, Remembered DEF Stored
<1>14. ~overlapped' => RowsAgree'
  BY <1>1 DEF RowsAgree, Websites!rows
<1>15. ASSUME ~overlapped', NEW b \in Bases PROVE SlotFits(slot[b], b)'
  <2>1. CASE b = cid
    <3>1. CASE slot'[cid] = previous
      <4>1. SlotFits(previous, cid)
        BY <1>1, <1>2, <1>3, <1>15 DEF CommitFits
      <4> QED
        BY <1>1, <1>12, <2>1, <3>1, <4>1 DEF SlotFits, Websites!EnteredFor
    <3>2. CASE slot' = slot /\ slot[cid] \in {None} \union mixed'
      BY <2>1, <3>2 DEF SlotFits
    <3> QED
      BY <1>1, <1>3, <1>4, <3>1, <3>2 DEF Websites!Store, SiteTyped
  <2>2. CASE b # cid
    BY <1>1, <1>3, <1>5, <1>8, <1>15, <2>2, SlotsStay DEF SlotFits, Websites!EnteredFor
  <2> QED
    BY <2>1, <2>2
<1>16. ~overlapped' => SlotsFit'
  BY <1>15 DEF SlotsFit
<1> QED
  BY <1>8, <1>9, <1>10, <1>11, <1>13, <1>14, <1>16

LEMMA RestartStep ==
    ASSUME SiteInv, Websites!Restart
    PROVE  SiteInv'
<1> USE DEF SiteInv
<1>1. /\ SiteTyped /\ UNCHANGED <<Websites!rows, overlapped>> /\ mixed \subseteq mixed' /\ conn' = conn
      /\ \/ slot' = slot
         \/ slot' = [b \in Bases |-> None]
      /\ \A p \in Websites!Committing : Websites!InstallChanges(p) => slot[req[p].cid] \in mixed'
      /\ req' = [q \in Requests |-> IF req[q] = Websites!Unmade THEN Websites!Unmade
                                    ELSE IF req[q].pc = "done" THEN req[q] ELSE Websites!Done(q)]
  BY DEF Websites!Restart, Websites!rows
<1>2. \A p \in Requests : req'[p] \in Asked /\ req'[p].pc \in {"unmade", "done"}
  BY <1>1, DoneFields, UnmadeIsAsked DEF SiteTyped, Websites!Unmade
<1>3. Remembers
  BY <1>1 DEF Remembers, Websites!Unmade
<1>4. Websites!Committing' = {} /\ \A p \in Requests : RequestFits(p)'
  BY <1>2 DEF Websites!Committing, RequestFits, Probing
<1>5. SiteTyped'
  BY <1>1, <1>2 DEF SiteTyped, Objects, Websites!rows
<1>6. \A b \in Bases : Stored(slot[b])'
  BY <1>1, <1>3, Remembered DEF Stored
<1>7. ~overlapped' => RowsAgree'
  BY <1>1 DEF RowsAgree, Websites!rows
<1>8. ASSUME ~overlapped', NEW b \in Bases PROVE SlotFits(slot[b], b)'
  <2>1. CASE slot'[b] = None
    BY <2>1 DEF SlotFits
  <2>2. CASE slot'[b] # None
    <3>1. slot' = slot
      BY <1>1, <2>2
    <3>2. SlotFits(slot[b], b)' \/ \E p \in Websites!Committing : req[p].cid = b
      BY <1>1, <1>3, <1>8, <3>1, SlotsStay
    <3>3. ASSUME NEW p \in Websites!Committing, req[p].cid = b PROVE slot[b] \in {None} \union mixed'
      BY <1>1, <3>3 DEF Websites!Committing, RequestFits, CommitFits
    <3> QED
      BY <3>1, <3>2, <3>3 DEF SlotFits
  <2> QED
    BY <2>1, <2>2
<1>9. ~overlapped' => SlotsFit'
  BY <1>8 DEF SlotsFit
<1> QED
  BY <1>4, <1>5, <1>6, <1>7, <1>9

LEMMA SiteInit == Websites!Init => SiteInv
<1> SUFFICES ASSUME Websites!Init PROVE SiteInv
  OBVIOUS
<1>1. \A q \in Requests : req[q] = Websites!Unmade /\ req[q] \in Asked /\ req[q].pc = "unmade"
  BY UnmadeIsAsked DEF Websites!Init, Websites!Unmade
<1>2. SiteTyped
  <2>1. conn \in Rows /\ (conn = Websites!NoConn \/ conn.base \in Bases)
    BY UnmadeIsAsked DEF Websites!Init, Rows
  <2>2. profile \in [Bases -> Bases \union {None}] /\ slot \in [Bases -> Objects]
    BY DEF Websites!Init, Objects
  <2>3. req \in [Requests -> Asked] /\ overlapped \in BOOLEAN
    BY UnmadeIsAsked DEF Websites!Init
  <2> QED
    BY <2>1, <2>2, <2>3 DEF SiteTyped
<1>3. Websites!Committing = {} /\ \A q \in Requests : RequestFits(q)
  BY <1>1 DEF Websites!Committing, RequestFits, Probing
<1>4. \A b \in Bases : Stored(slot[b])
  BY DEF Websites!Init, Stored
<1>5. RowsAgree
  BY WebsitesAssumption DEF Websites!Init, RowsAgree, Websites!NoConn, Websites!NoSource
<1>6. SlotsFit
  BY WebsitesAssumption DEF Websites!Init, SlotsFit, SlotFits, Websites!EnteredFor
<1> QED
  BY <1>2, <1>3, <1>4, <1>5, <1>6 DEF SiteInv

LEMMA SiteNext == SiteInv /\ [Websites!Next]_(Websites!vars) => SiteInv'
<1> SUFFICES ASSUME SiteInv, [Websites!Next]_(Websites!vars) PROVE SiteInv'
  OBVIOUS
<1>1. CASE UNCHANGED Websites!vars
  BY <1>1 DEF Websites!vars, Websites!rows, Websites!history, SiteInv, SiteTyped, Stored, InUse, SlotFits, RowsAgree, Probing,
     EditFits, SetFits, CommitFits, RequestFits, SlotsFit, Websites!Committing, Websites!EnteredFor, Websites!InstallChanges,
     Websites!KnownTo, Websites!Exists, Websites!NewRow
<1>2. ASSUME NEW q \in Requests, NEW b \in Bases,
             \/ \E m \in {"none", "ntlm"}, with \in Websites!Logins : Websites!Begin(q, b, m, with)
             \/ \E p \in BOOLEAN : Websites!BeginSet(q, b, p)
      PROVE  SiteInv'
  BY <1>2, BeginKeeps, BeginSetKeeps
<1>3. ASSUME NEW q \in Requests,
             \/ \E yes \in BOOLEAN : Websites!Probed(q, yes) \/ Websites!Answered(q, yes)
             \/ Websites!ProbeFails(q) \/ Websites!Install(q) \/ Websites!InstallFails(q) \/ Websites!Commit(q) \/ Websites!CommitFails(q)
             \/ Websites!InstallSet(q) \/ Websites!Challenged(q) \/ Websites!Send(q)
      PROVE  SiteInv'
  BY <1>3, ProbedKeeps, AnsweredKeeps, FailsKeep, InstallKeeps, CommitStep, CommitFailsStep,
     InstallSetKeeps, ChallengedKeeps, SendKeeps
<1>4. ASSUME NEW q \in Requests, NEW b \in Bases, NEW k \in {"sync", "verify"}, Websites!BeginFetch(q, k, b)
      PROVE  SiteInv'
  BY <1>4, BeginFetchKeeps
<1>5. ASSUME NEW b \in Bases, Websites!Clear(b) PROVE SiteInv'
  BY <1>5, ClearKeeps
<1> QED
  BY <1>1, <1>2, <1>3, <1>4, <1>5, RestartStep DEF Websites!Next

(* The sessions: what is cached for an id logs in with the credential that   *)
(* it is cached with, and a fetch is sent in a session that logs in with the *)
(* credential that it loaded, whatever the slot holds by then.               *)
Cached == [credential : Objects, session : [auth : Objects]]

SessionInv ==
    /\ sessions \in [Bases -> Cached] /\ within \in [Requests -> [auth : Objects]]
    /\ \A b \in Bases : sessions[b].session.auth = sessions[b].credential
    /\ Websites!SessionsAreFresh

\* A step that sends nothing: at most a session is taken out of the cache, or a fetch ends.
SessionsStay ==
    /\ sessions' \in [Bases -> Cached] /\ within' \in [Requests -> [auth : Objects]]
    /\ \A b \in Bases : sessions'[b] \in {sessions[b], Websites!NotCached}
    /\ \A q \in Requests : req'[q].pc = "sent" =>
          req[q].pc = "sent" /\ req'[q].previous = req[q].previous /\ within'[q] = within[q]

LEMMA NotCachedTyped ==
    /\ Websites!NotCached \in Cached /\ Websites!SessionOf(None) \in [auth : Objects]
    /\ Websites!NotCached.session.auth = Websites!NotCached.credential
BY DEF Websites!NotCached, Websites!SessionOf, Cached, Objects

LEMMA StayingKeeps == ASSUME SessionInv, SessionsStay PROVE SessionInv'
<1>1. \A b \in Bases : sessions'[b].session.auth = sessions'[b].credential
  BY NotCachedTyped DEF SessionInv, SessionsStay
<1>2. Websites!SessionsAreFresh'
  BY DEF SessionInv, SessionsStay, Websites!SessionsAreFresh
<1> QED
  BY <1>1, <1>2 DEF SessionInv, SessionsStay

LEMMA SendIsFresh ==
    ASSUME SiteInv, SessionInv, NEW q \in Requests, Websites!Send(q)
    PROVE  SessionInv'
<1> DEFINE cid == req[q].cid
           previous == req[q].previous
<1>1. /\ req[q].pc = "loaded" /\ cid \in Bases /\ previous \in Objects /\ req \in [Requests -> Asked]
      /\ req' = [req EXCEPT ![q] = [req[q] EXCEPT !.pc = "sent"]]
  BY DEF Websites!Send, Websites!Set, SiteInv, SiteTyped, RequestFits, Asked, Objects
<1>2. \A p \in Requests \ {q} : req'[p] = req[p]
  BY <1>1
<1>3. req'[q].previous = previous
  BY <1>1 DEF Asked
<1>4. CASE Websites!Mine(q)
  <2>1. sessions' = sessions /\ within' = [within EXCEPT ![q] = sessions[cid].session]
    BY <1>4 DEF Websites!Send
  <2>2. sessions[cid].session.auth = previous /\ sessions[cid].session \in [auth : Objects]
    BY <1>1, <1>4 DEF SessionInv, Websites!Mine, Cached
  <2>3. within' \in [Requests -> [auth : Objects]] /\ within'[q].auth = previous
        /\ \A p \in Requests \ {q} : within'[p] = within[p]
    BY <2>1, <2>2 DEF SessionInv
  <2>4. Websites!SessionsAreFresh'
    BY <1>2, <1>3, <2>3 DEF SessionInv, Websites!SessionsAreFresh
  <2> QED
    BY <2>1, <2>3, <2>4 DEF SessionInv
<1>5. CASE ~Websites!Mine(q)
  <2> DEFINE entry == [credential |-> previous, session |-> Websites!SessionOf(previous)]
  <2>1. /\ sessions' = [sessions EXCEPT ![cid] = entry]
        /\ within' = [within EXCEPT ![q] = Websites!SessionOf(previous)]
    BY <1>5 DEF Websites!Send
  <2>2. /\ entry \in Cached /\ entry.session.auth = entry.credential
        /\ Websites!SessionOf(previous) \in [auth : Objects] /\ Websites!SessionOf(previous).auth = previous
    BY <1>1 DEF Cached, Websites!SessionOf
  <2> HIDE DEF entry
  <2>3. within' \in [Requests -> [auth : Objects]] /\ within'[q].auth = previous
        /\ \A p \in Requests \ {q} : within'[p] = within[p]
    BY <2>1, <2>2 DEF SessionInv
  <2>4. sessions' \in [Bases -> Cached] /\ \A b \in Bases : sessions'[b].session.auth = sessions'[b].credential
    BY <1>1, <2>1, <2>2 DEF SessionInv
  <2>5. Websites!SessionsAreFresh'
    BY <1>2, <1>3, <2>3 DEF SessionInv, Websites!SessionsAreFresh
  <2> QED
    BY <2>3, <2>4, <2>5 DEF SessionInv
<1> QED
  BY <1>4, <1>5

\* All other steps: one request at most changes on its own, and is not sent by it.
LEMMA OneStays ==
    ASSUME SiteInv, SessionInv, NEW q \in Requests, req'[q].pc # "sent",
           \A p \in Requests \ {q} : req'[p] = req[p] \/ LeftAlone(p),
           \/ UNCHANGED sessions
           \/ sessions' \in [Bases -> Cached] /\ \A b \in Bases : sessions'[b] \in {sessions[b], Websites!NotCached},
           \/ UNCHANGED within
           \/ within' = [within EXCEPT ![q] = Websites!SessionOf(None)]
    PROVE  SessionsStay
<1>1. \A p \in Requests \ {q} : req'[p].pc = req[p].pc /\ req'[p].previous = req[p].previous
  BY KeptFields DEF SiteInv
<1>2. within' \in [Requests -> [auth : Objects]] /\ \A p \in Requests \ {q} : within'[p] = within[p]
  BY NotCachedTyped DEF SessionInv
<1> QED
  BY <1>1, <1>2 DEF SessionInv, SessionsStay

LEMMA InvalidateTyped ==
    ASSUME SessionInv, NEW cid, Websites!Invalidate(cid)
    PROVE  sessions' \in [Bases -> Cached] /\ \A b \in Bases : sessions'[b] \in {sessions[b], Websites!NotCached}
BY NotCachedTyped DEF SessionInv, Websites!Invalidate

LEMMA QuietSteps ==
    ASSUME SiteInv, SessionInv, NEW q \in Requests,
           NEW base \in Bases, NEW method \in {"none", "ntlm"}, NEW with \in Websites!Logins,
           NEW yes \in BOOLEAN, NEW kind \in {"sync", "verify"},
           \/ Websites!Begin(q, base, method, with) \/ Websites!BeginSet(q, base, yes)
           \/ Websites!BeginFetch(q, kind, base) \/ Websites!Probed(q, yes)
           \/ Websites!ProbeFails(q) \/ Websites!InstallFails(q) \/ Websites!Challenged(q)
           \/ Websites!CommitFails(q)
    PROVE  SessionsStay
<1>1. req \in [Requests -> Asked] /\ req[q] \in Asked /\ Websites!Unmade \in Asked
  BY UnmadeIsAsked DEF SiteInv, SiteTyped
<1>2. UNCHANGED Websites!fetches
  BY DEF Websites!Begin, Websites!BeginSet, Websites!BeginFetch, Websites!Probed, Websites!ProbeFails,
         Websites!InstallFails, Websites!Challenged, Websites!CommitFails
<1>3. \E r : Websites!Set(q, r) /\ r.pc # "sent"
  <2>1. [Websites!Unmade EXCEPT !.pc = "done"].pc = "done"
    BY <1>1 DEF Asked
  <2>2. Websites!Done(q).pc = "done"
    BY DoneFields DEF SiteInv
  <2>3. Websites!Refuse(q) \/ Websites!Set(q, Websites!Done(q)) => \E r : Websites!Set(q, r) /\ r.pc # "sent"
    BY <2>1, <2>2 DEF Websites!Refuse
  <2>4. CASE Websites!Begin(q, base, method, with)
    <3> DEFINE r == [Websites!Unmade EXCEPT
                        !.pc = "probing", !.kind = "save", !.base = base, !.method = method,
                        !.cid = Websites!Named(base), !.seen = conn, !.previous = slot[Websites!Named(base)],
                        !.candidate = IF method # "ntlm" THEN None
                                      ELSE IF with = "password" THEN q ELSE slot[Websites!Named(base)]]
    <3>1. r.pc = "probing"
      BY DEF Websites!Unmade
    <3>2. Websites!Refuse(q) \/ Websites!Set(q, r)
      BY <2>4 DEF Websites!Begin
    <3> HIDE DEF r
    <3> QED
      BY <2>3, <3>1, <3>2
  <2>5. CASE Websites!BeginSet(q, base, yes)
    <3> DEFINE r == [Websites!Unmade EXCEPT
                        !.pc = "probing", !.kind = "set", !.base = profile[base], !.method = "ntlm",
                        !.cid = base, !.previous = slot[base], !.came = (conn.cid # base),
                        !.candidate = IF yes THEN q ELSE slot[base]]
    <3>1. r.pc = "probing"
      BY DEF Websites!Unmade
    <3>2. Websites!Refuse(q) \/ Websites!Set(q, r)
      BY <2>5 DEF Websites!BeginSet
    <3> HIDE DEF r
    <3> QED
      BY <2>3, <3>1, <3>2
  <2>6. CASE Websites!BeginFetch(q, kind, base)
    <3> DEFINE r == [Websites!Unmade EXCEPT !.pc = "asking", !.kind = kind, !.cid = base]
    <3>1. r.pc = "asking"
      BY DEF Websites!Unmade
    <3>2. Websites!Set(q, r)
      BY <2>6 DEF Websites!BeginFetch
    <3> HIDE DEF r
    <3> QED
      BY <3>1, <3>2
  <2>7. CASE Websites!Probed(q, yes)
    <3>1. [req[q] EXCEPT !.pc = "probed"].pc = "probed"
      BY <1>1 DEF Asked
    <3> QED
      BY <2>3, <2>7, <3>1 DEF Websites!Probed
  <2>8. CASE Websites!Challenged(q)
    <3>1. [req[q] EXCEPT !.pc = "loaded", !.previous = slot[req[q].cid]].pc = "loaded"
      BY <1>1 DEF Asked
    <3> QED
      BY <2>3, <2>8, <3>1 DEF Websites!Challenged
  <2> QED
    BY <2>3, <2>4, <2>5, <2>6, <2>7, <2>8 DEF Websites!ProbeFails, Websites!InstallFails, Websites!CommitFails
<1>4. req'[q].pc # "sent" /\ \A p \in Requests \ {q} : req'[p] = req[p]
  BY <1>1, <1>3 DEF Websites!Set
<1> QED
  BY <1>2, <1>4, OneStays DEF Websites!fetches

LEMMA ChangingSteps ==
    ASSUME SiteInv, SessionInv, NEW q \in Requests, NEW yes \in BOOLEAN,
           \/ Websites!Install(q) \/ Websites!InstallSet(q) \/ Websites!Commit(q) \/ Websites!Answered(q, yes)
    PROVE  SessionsStay
<1>1. /\ SiteTyped /\ req \in [Requests -> Asked] /\ req[q] \in Asked
      /\ Websites!Done(q) \in Asked /\ Websites!Done(q).pc = "done"
  BY DoneFields DEF SiteInv, SiteTyped
<1>2. ASSUME Websites!Set(q, Websites!Done(q))
      PROVE  req'[q].pc # "sent" /\ \A p \in Requests \ {q} : req'[p] = req[p]
  BY <1>1, <1>2 DEF Websites!Set
<1>3. ASSUME NEW cid \in Bases, NEW x, Websites!Store(cid, x),
             req' = [Websites!Notice(cid, req) EXCEPT ![q] = Websites!Done(q)]
      PROVE  req'[q].pc # "sent" /\ \A p \in Requests \ {q} : LeftAlone(p)
  BY <1>1, <1>3, NoticeKept
<1>4. CASE Websites!Install(q)
  <2>1. req[q].cid \in Bases /\ UNCHANGED Websites!fetches
    BY <1>4 DEF Websites!Install, SiteInv, SiteTyped, RequestFits, Probing, EditFits, Asked, Rows
  <2>2. CASE Websites!Set(q, [req[q] EXCEPT !.pc = "installed"])
    <3>1. req'[q].pc # "sent" /\ \A p \in Requests \ {q} : req'[p] = req[p]
      BY <1>1, <2>2 DEF Websites!Set, Asked
    <3> QED
      BY <2>1, <3>1, OneStays DEF Websites!fetches
  <2>3. CASE /\ Websites!Store(req[q].cid, req[q].candidate)
             /\ req' = [Websites!Notice(req[q].cid, req) EXCEPT ![q].pc = "installed"]
    <3> DEFINE noticed == Websites!Notice(req[q].cid, req)
    <3>1. /\ noticed \in [Requests -> Asked]
          /\ \A p \in Requests : req'[p] = noticed[p] => LeftAlone(p)
      BY <1>1, <2>1, <2>3, NoticeKept
    <3>2. req' = [noticed EXCEPT ![q].pc = "installed"]
      BY <2>3
    <3> HIDE DEF noticed
    <3>3. req'[q].pc = "installed" /\ \A p \in Requests \ {q} : req'[p] = noticed[p]
      BY <3>1, <3>2 DEF Asked
    <3> QED
      BY <2>1, <3>1, <3>3, OneStays DEF Websites!fetches
  <2> QED
    BY <1>4, <2>2, <2>3 DEF Websites!Install, Websites!Replace
<1>5. CASE Websites!InstallSet(q)
  <2>1. req[q].cid \in Bases
    BY <1>5 DEF Websites!InstallSet, SiteInv, RequestFits, Probing, SetFits
  <2>2. /\ Websites!Store(req[q].cid, req[q].candidate) /\ Websites!Invalidate(req[q].cid) /\ UNCHANGED within
        /\ req' = [Websites!Notice(req[q].cid, req) EXCEPT ![q] = Websites!Done(q)]
    BY <1>5 DEF Websites!InstallSet, Websites!Replace
  <2> QED
    BY <1>3, <2>1, <2>2, InvalidateTyped, OneStays
<1>6. CASE Websites!Commit(q)
  <2>1. /\ Websites!Set(q, Websites!Done(q)) /\ UNCHANGED within
        /\ Websites!Invalidate(req[q].cid) \/ UNCHANGED sessions
    BY <1>6 DEF Websites!Commit
  <2> QED
    BY <1>2, <2>1, InvalidateTyped, OneStays
<1>7. CASE Websites!Answered(q, yes)
  <2>1. req[q].cid \in Bases /\ within' = [within EXCEPT ![q] = Websites!SessionOf(None)]
    BY <1>7 DEF Websites!Answered, SiteInv, RequestFits
  <2>2. CASE Websites!Set(q, Websites!Done(q)) /\ UNCHANGED sessions
    BY <1>2, <2>1, <2>2, OneStays
  <2>3. CASE /\ Websites!Store(req[q].cid, None) /\ Websites!Invalidate(req[q].cid)
             /\ req' = [Websites!Notice(req[q].cid, req) EXCEPT ![q] = Websites!Done(q)]
    BY <1>3, <2>1, <2>3, InvalidateTyped, OneStays
  <2> QED
    BY <1>7, <2>2, <2>3 DEF Websites!Answered
<1> QED
  BY <1>4, <1>5, <1>6, <1>7

LEMMA ClearStays == ASSUME SiteInv, SessionInv, NEW cid \in Bases, Websites!Clear(cid) PROVE SessionInv'
<1>1. SiteTyped /\ Websites!Store(cid, None) /\ Websites!Invalidate(cid) /\ req' = Websites!Notice(cid, req) /\ within' = within
  BY DEF Websites!Clear, SiteInv
<1>2. \A p \in Requests : req'[p].pc = req[p].pc /\ req'[p].previous = req[p].previous
  BY <1>1, NoticeKept, KeptFields
<1>3. SessionsStay
  BY <1>1, <1>2, InvalidateTyped DEF SessionsStay, SessionInv
<1> QED
  BY <1>3, StayingKeeps

LEMMA RestartStays == ASSUME SiteInv, SessionInv, Websites!Restart PROVE SessionInv'
<1>1. /\ sessions' = [b \in Bases |-> Websites!NotCached] /\ within' = [q \in Requests |-> Websites!SessionOf(None)]
      /\ req' = [q \in Requests |-> IF req[q] = Websites!Unmade THEN Websites!Unmade
                                    ELSE IF req[q].pc = "done" THEN req[q] ELSE Websites!Done(q)]
  BY DEF Websites!Restart
<1>2. \A q \in Requests : req'[q].pc # "sent"
  BY <1>1, DoneFields DEF SiteInv, Websites!Unmade
<1>3. SessionsStay
  BY <1>1, <1>2, NotCachedTyped DEF SessionsStay
<1> QED
  BY <1>3, StayingKeeps

LEMMA SessionInit == Websites!Init => SessionInv
<1> SUFFICES ASSUME Websites!Init PROVE SessionInv
  OBVIOUS
<1>1. sessions = [b \in Bases |-> Websites!NotCached] /\ within = [q \in Requests |-> Websites!SessionOf(None)]
      /\ \A q \in Requests : req[q].pc # "sent"
  BY DEF Websites!Init, Websites!Unmade
<1> QED
  BY <1>1, NotCachedTyped DEF SessionInv, Websites!SessionsAreFresh

LEMMA SessionNext == SiteInv /\ SessionInv /\ [Websites!Next]_(Websites!vars) => SessionInv'
<1> SUFFICES ASSUME SiteInv, SessionInv, [Websites!Next]_(Websites!vars) PROVE SessionInv'
  OBVIOUS
<1>1. CASE UNCHANGED Websites!vars
  BY <1>1 DEF Websites!vars, Websites!fetches, SessionInv, Websites!SessionsAreFresh
<1>2. ASSUME NEW q \in Requests, NEW b \in Bases,
             \/ \E m \in {"none", "ntlm"}, with \in Websites!Logins : Websites!Begin(q, b, m, with)
             \/ \E p \in BOOLEAN : Websites!BeginSet(q, b, p)
             \/ \E k \in {"sync", "verify"} : Websites!BeginFetch(q, k, b)
      PROVE  SessionInv'
  <2>1. "none" \in {"none", "ntlm"} /\ "password" \in Websites!Logins /\ "sync" \in {"sync", "verify"} /\ TRUE \in BOOLEAN
    BY DEF Websites!Logins
  <2> QED
    BY <1>2, <2>1, QuietSteps, StayingKeeps
<1>3. ASSUME NEW q \in Requests,
             \/ \E yes \in BOOLEAN : Websites!Probed(q, yes)
             \/ Websites!ProbeFails(q) \/ Websites!InstallFails(q) \/ Websites!Challenged(q) \/ Websites!CommitFails(q)
      PROVE  SessionInv'
  <2>1. "none" \in {"none", "ntlm"} /\ "password" \in Websites!Logins /\ "sync" \in {"sync", "verify"} /\ TRUE \in BOOLEAN
    BY DEF Websites!Logins
  <2>2. req[q].pc \in {"probing", "probed", "asking", "installed"}
    BY <1>3 DEF Websites!Probed, Websites!ProbeFails, Websites!InstallFails, Websites!Challenged, Websites!CommitFails
  <2>3. req[q].cid \in Bases
    BY <2>2 DEF SiteInv, SiteTyped, RequestFits, Probing, EditFits, SetFits, Asked, Rows
  <2> QED
    BY <1>3, <2>1, <2>3, QuietSteps, StayingKeeps
<1>4. ASSUME NEW q \in Requests,
             \/ \E yes \in BOOLEAN : Websites!Answered(q, yes)
             \/ Websites!Install(q) \/ Websites!InstallSet(q) \/ Websites!Commit(q)
      PROVE  SessionInv'
  <2>1. TRUE \in BOOLEAN
    OBVIOUS
  <2> QED
    BY <1>4, <2>1, ChangingSteps, StayingKeeps
<1> QED
  BY <1>1, <1>2, <1>3, <1>4, SendIsFresh, ClearStays, RestartStays DEF Websites!Next

LEMMA SiteFits == SiteInv /\ SessionInv => AccessFits
<1> SUFFICES ASSUME SiteInv, SessionInv PROVE Websites!SiteIsWhole /\ Websites!SessionsAreFresh
  BY DEF AccessFits, Websites!AccessFits
<1>1. Websites!SessionsAreFresh
  BY DEF SessionInv
<1>2. Websites!SiteIsWhole
  <2> SUFFICES ASSUME Websites!Committing = {}, ~overlapped, source.method = "ntlm",
                      slot[source.cid] \notin {None} \union mixed
               PROVE  Origin[Websites!EnteredFor(slot[source.cid])] = Origin[source.base]
    BY DEF Websites!SiteIsWhole
  <2>1. conn.cid # None /\ source.base = conn.base /\ source.cid = conn.cid
    BY DEF SiteInv, RowsAgree
  <2>2. conn.cid \in Bases
    BY <2>1 DEF SiteInv, SiteTyped, Rows
  <2> QED
    BY <2>1, <2>2 DEF SiteInv, SlotsFit, SlotFits
<1> QED
  BY <1>1, <1>2

(* AccessFits, for any number of requests and addresses: whatever fails, is  *)
(* cleared or is saved meanwhile, the site is not left at one origin with a  *)
(* credential that was entered for another (website_access.py:118-192,       *)
(* source_connections.py:239-535). Exempt are the edits that overlap another *)
(* they have not seen, a crash or a second failure between the store and     *)
(* the commit, and a credential set by its profile for a site that does not  *)
(* use it, as the definition of mixed and overlapped says. And however       *)
(* fetches, replacements and invalidations interleave, each fetch is sent in *)
(* a session that logs in with the credential that it loaded                 *)
(* (fetchers.py:96-138).                                                     *)
THEOREM CredentialsFitTheSite == Websites!Spec => []AccessFits
<1>1. Websites!Init => SiteInv /\ SessionInv
  BY SiteInit, SessionInit
<1>2. SiteInv /\ SessionInv /\ [Websites!Next]_(Websites!vars) => (SiteInv /\ SessionInv)'
  BY SiteNext, SessionNext
<1>3. Websites!Spec => [](SiteInv /\ SessionInv)
  BY <1>1, <1>2, PTL DEF Websites!Spec
<1> QED
  BY <1>3, SiteFits, PTL
=============================================================================
