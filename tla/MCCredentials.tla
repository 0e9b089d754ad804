---------------------------- MODULE MCCredentials ----------------------------
(* How credentials come in and how they are kept: the browser sign-in across *)
(* its processes, the Canvas connection, and the vault on disk.  A behaviour *)
(* exercises one of them.                                                    *)
EXTENDS CredentialVault, TLC

CONSTANTS Accounts, Environment, Requests, MaxGeneration, MaxBegun, None
CONSTANTS Forms, Attempts, MaxFaults

\* What is not there is no account, and no attempt.
ASSUME NoneIsApart == None \notin Accounts \union Attempts

VARIABLES focus,
    slot, gen, blocked, bound, profileState, grant, req, begun,
    gateway, sameTarget, maker, chal, outer, mounted, starting, ticket, busy,
    at, value, mine, toBackend, toDesktop, gate, job, lost, faults

Canvas == INSTANCE CanvasConnection WITH state <- profileState
Browser == INSTANCE BrowserSignIn WITH owner <- maker, pc <- at

canvasVars == <<slot, gen, blocked, bound, profileState, grant, req, begun>>
browserVars == <<gateway, sameTarget, maker, chal, outer, mounted, starting, ticket, busy,
                 at, value, mine, toBackend, toDesktop, gate, job, lost, faults>>

\* The vault's refinement looks at one of its namespaces; a process serves either requests or forms.
Symmetry == Permutations(Namespaces \ {Observed}) \union Permutations(Requests)
            \union Permutations(Attempts)

\* One form whose requests may be lost, or two forms of one profile behind a gateway.
PageInit ==
    \/ Cardinality(mounted) = 1 /\ faults = 0 /\ ~sameTarget
    \/ mounted = Forms /\ faults = MaxFaults /\ gateway /\ sameTarget

MCInit ==
    /\ focus \in {"vault", "canvas", "browser"}
    /\ Init /\ Canvas!Init /\ Browser!Init
    /\ IF focus = "browser" THEN PageInit
       ELSE ~gateway /\ ~sameTarget /\ mounted = {} /\ faults = 0

\* What the bounds admit was asked for, and has ended.
Quiet ==
    \/ focus = "canvas" /\ \A q \in Requests : req[q].kind = "idle"
    \/ focus = "browser" /\ \A f \in Forms : at[f] \in {"idle", "creating"} /\ ticket[f] = None

MCNext ==
    /\ UNCHANGED focus
    /\ \/ focus = "vault" /\ Next /\ UNCHANGED <<canvasVars, browserVars>>
       \/ focus = "canvas" /\ Canvas!Next /\ UNCHANGED <<vars, browserVars>>
       \/ focus = "browser" /\ Browser!Next /\ UNCHANGED <<vars, canvasVars>>
       \/ Quiet /\ UNCHANGED <<vars, canvasVars, browserVars>>

MCSpec == MCInit /\ [][MCNext]_<<focus, vars, canvasVars, browserVars>>

GrantIsCurrent == Canvas!GrantIsCurrent
OneLogin == Browser!OneLogin
NoStrayAttempt == Browser!NoStrayAttempt
SuccessIsShown == Browser!SuccessIsShown
=============================================================================
