------------------------------ MODULE MCEndings ------------------------------
(* What must end: a sign-in's attempt, a read of Canvas that fails over, the *)
(* claim of an estimate.  A behaviour exercises one of them; fairness is     *)
(* that of each component's own specification, for the steps of the one      *)
(* exercised.                                                                *)
EXTENDS AnalysisQueue

CONSTANTS Challenges, Profiles, All, Other, Room, MaxGeneration
CONSTANTS Modes, Secrets, Readers, Preemptive

VARIABLES focus,
    listed, state, claimed, finishing, age, target, operation, known,
    request, session, generation, touched, published,
    slot, version, effective, preferred, status, quality, routing,
    reading, attempted, mode, secret, fence, profile, outcome, disturbed

Broker == INSTANCE BrokerChallenges WITH Limit <- Room
Routing == INSTANCE CanvasRouting WITH generation <- version, pc <- reading

brokerVars == <<listed, state, claimed, finishing, age, target, operation, known,
                request, session, generation, touched, published>>
routingVars == <<slot, version, effective, preferred, status, quality, routing,
                 reading, attempted, mode, secret, fence, profile, outcome, disturbed>>

\* Those that are not exercised keep to one of their initial states; readers are
\* interchangeable, so the one that may read the user's profile is fixed.
Unexercised ==
    /\ \A r \in Readers : profile[r] => r = CHOOSE q \in Readers : TRUE
    /\ focus # "queue" => ~enabled /\ ~chatReady
    /\ focus # "reads" => /\ preferred = "pat" /\ \A m \in Modes : slot[m] = None
                           /\ \A s \in Secrets : quality[s] = "good"
                           /\ \A r \in Readers : ~profile[r]

MCInit ==
    /\ focus \in {"sign_in", "queue", "reads"}
    /\ Init /\ Broker!Init /\ Routing!Init
    /\ Unexercised

MCNext ==
    /\ UNCHANGED focus
    /\ \/ focus = "sign_in" /\ Broker!Next /\ UNCHANGED <<vars, routingVars>>
       \/ focus = "queue" /\ Next /\ UNCHANGED <<brokerVars, routingVars>>
       \/ focus = "reads" /\ Routing!Next /\ UNCHANGED <<vars, brokerVars>>

(* Time passes, a page polls its attempt; the scheduler triggers a run every *)
(* 30 seconds, and provider calls time out; Canvas answers or times out.     *)
Fairness ==
    /\ \A c \in Challenges : /\ WF_brokerVars(focus = "sign_in" /\ Broker!Age(c))
                             /\ WF_brokerVars(focus = "sign_in" /\ Broker!Status(c))
    /\ \A j \in Jobs : WF_vars(focus = "queue" /\ Age(j))
    /\ WF_vars(focus = "queue" /\ \E w \in Workers : Run(w))
    /\ \A w \in Workers : WF_vars(focus = "queue" /\ Step(w))
    /\ \A r \in Readers : WF_routingVars(focus = "reads" /\ Routing!Read(r))

MCFairSpec == MCInit /\ [][MCNext]_<<focus, vars, brokerVars, routingVars>> /\ Fairness

EveryAttemptEnds == Broker!EveryAttemptEnds
EveryReadEnds == Routing!EveryReadEnds
=============================================================================
