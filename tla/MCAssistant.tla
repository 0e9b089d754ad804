----------------------------- MODULE MCAssistant -----------------------------
(* What is asked of the AI: reviews, the rules that save some of them, and   *)
(* estimates, summaries, the chat and the settings all of them depend on.  A *)
(* behaviour exercises one of the components, and of the queue reviews or    *)
(* estimates; its workers and events are interchangeable.                    *)
EXTENDS AnalysisQueue, FiniteSets, TLC

CONSTANTS Clouds, Local, Models, Keys, Probes, MaxSaves, MaxGeneration
CONSTANTS Proposals, Awaiting, Clicks, MaxToolRounds, MaxCalls, MaxEffects
CONSTANTS Hashes, PerRun
CONSTANTS Candidates, Families, Texts, Needed, MaxRules

\* What is missing is no input, provider, model, key, test, proposal or request; no cloud runs
\* locally; changes are few.
ASSUME AssistantAssumption ==
    /\ None \notin Hashes \union Clouds \union {Local} \union Models \union Keys
    /\ None \notin Proposals \union Clicks
    /\ None \notin [base : Clouds \union {Local}, model : Models, revision : Nat]
    /\ Local \notin Clouds
    /\ IsFiniteSet(Candidates) /\ Needed \in Nat

VARIABLES focus,
    setting, secret, generation, disk, probe, passed,
    turn, cards, kept, reply, status, click, running, effects, unmarked,
    input, ready, jobs, summaries, step, left, current, asked, since,
    rule, verdict, context, cause, switch

Settings == INSTANCE AISettings WITH answered <- passed
Chat == INSTANCE AIChat WITH Nobody <- None
Summaries == INSTANCE AssignmentSummaries WITH Inputs <- Hashes
Filters == INSTANCE ChangeFilters WITH review <- verdict, asked <- switch

settingsVars == <<setting, secret, generation, disk, probe, passed>>
chatVars == <<turn, cards, kept, reply, status, click, running, effects, unmarked>>
summaryVars == <<input, ready, jobs, summaries, step, left, current, asked, since>>
filterVars == <<rule, verdict, context, cause, switch>>

Symmetry == Permutations(Workers) \union Permutations(Events)

MCInit ==
    /\ focus \in {"reviews", "estimates", "settings", "chat", "summaries", "filters"}
    /\ Init /\ Settings!Init /\ Chat!Init /\ Summaries!Init /\ Filters!Init
    /\ focus # "summaries" => input = None /\ ~ready
    /\ focus # "estimates" => \A t \in Tasks : facts[t] = CHOOSE i \in Inputs : TRUE
    /\ focus \notin {"reviews", "estimates"} => ~enabled /\ ~chatReady

\* No task is observed, or no change is; one worker is enough for the estimates.
OneKind ==
    /\ focus = "reviews" => UNCHANGED effort
    /\ focus = "estimates" => UNCHANGED review /\ Cardinality({w \in Workers : seen'[w] # Expired}) <= 1

\* Every change is decided, and no rule came of it.
NothingLeft == focus = "filters" /\ \A e \in Candidates : verdict[e] \in {"REJECTED", "NOTIFY"}

\* The settings' bounds may be reached where only they keep the next save, key or test out.
BoundsReached == focus = "settings" /\ generation = MaxGeneration

MCNext ==
    /\ UNCHANGED focus
    /\ \/ focus \in {"reviews", "estimates"} /\ Next /\ OneKind /\ UNCHANGED <<settingsVars, chatVars, summaryVars, filterVars>>
       \/ focus = "settings" /\ Settings!Next /\ UNCHANGED <<vars, chatVars, summaryVars, filterVars>>
       \/ focus = "chat" /\ Chat!Next /\ UNCHANGED <<vars, settingsVars, summaryVars, filterVars>>
       \/ focus = "summaries" /\ Summaries!Next /\ UNCHANGED <<vars, settingsVars, chatVars, filterVars>>
       \/ focus = "filters" /\ Filters!Next /\ UNCHANGED <<vars, settingsVars, chatVars, summaryVars>>
       \/ (BoundsReached \/ NothingLeft) /\ UNCHANGED <<vars, settingsVars, chatVars, summaryVars, filterVars>>

MCSpec == MCInit /\ [][MCNext]_<<focus, vars, settingsVars, chatVars, summaryVars, filterVars>>

ReadyMeansTested == Settings!ReadyMeansTested
HistoryStays == Chat!HistoryStays
SummariesAreCurrent == Summaries!SummariesAreCurrent
SuppressionIsEarned == Filters!SuppressionIsEarned
=============================================================================
