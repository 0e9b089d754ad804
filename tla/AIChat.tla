------------------------------- MODULE AIChat -------------------------------
(***************************************************************************)
(* The conversation with the AI (services/ai_chat.py): a turn asks the     *)
(* provider, runs the lookups it calls for, and asks again, a bounded      *)
(* number of rounds.  A call that would change something becomes a         *)
(* proposal, which a request of the user's confirms or cancels later.      *)
(* All of it runs on the event loop, so that only an await lets another    *)
(* request act; what a round has looked up, and what a confirmed tool has  *)
(* done, is committed before the rest, and the process may stop between.   *)
(***************************************************************************)
EXTENDS Integers

CONSTANTS Proposals,       \* bound on the changes proposed
          Awaiting,        \* those among them whose tool awaits (edit_source_metadata)
          Clicks,          \* requests of the user's that may be under way at a time
          MaxToolRounds, MaxCalls,
          MaxEffects,      \* bound on how often a proposal is carried out
          Nobody

VARIABLES
    turn,      \* the provider is being asked, and how
    cards,     \* lookups the user is shown
    kept,      \* lookups of the turn in the conversation's history
    reply,     \* how the last turn ended
    status,    \* of each proposal
    click,     \* where each request stands
    running,   \* the request that holds the event loop
    effects,   \* history: how often each proposal's tool has done its work
    unmarked   \* history: how often it was not marked afterwards

chatVars == <<turn, cards, kept, reply, status, click, running, effects, unmarked>>

NoTurn == [asking |-> FALSE, round |-> 0, native |-> TRUE]
NoClick == [phase |-> "idle", proposal |-> Nobody]

Init ==
    /\ turn = NoTurn
    /\ cards = 0 /\ kept = 0
    /\ reply = "none"
    /\ status = [p \in Proposals |-> "NONE"]
    /\ click = [c \in Clicks |-> NoClick]
    /\ running = Nobody
    /\ effects = [p \in Proposals |-> 0]
    /\ unmarked = [p \in Proposals |-> 0]

-----------------------------------------------------------------------------
(* A turn.                                                                 *)

FinalOnly == turn.round = MaxToolRounds
Ends(how) == turn' = NoTurn /\ reply' = how

Ask ==
    /\ ~turn.asking
    /\ turn' = [NoTurn EXCEPT !.asking = TRUE]
    /\ cards' = 0 /\ kept' = 0 /\ reply' = "none"
    /\ UNCHANGED <<status, effects>>

\* The endpoint has no native tools (HTTP 400): it is asked again for strict JSON.
FallBack ==
    /\ turn.asking /\ turn.native
    /\ turn' = [turn EXCEPT !.native = FALSE]
    /\ UNCHANGED <<cards, kept, reply, status, effects>>

Answer ==
    /\ turn.asking
    /\ Ends("answer")
    /\ UNCHANGED <<cards, kept, status, effects>>

\* Calls, or an empty answer, where only a final answer may come.
RunOut ==
    /\ turn.asking /\ FinalOnly
    /\ Ends("limit")
    /\ UNCHANGED <<cards, kept, status, effects>>

\* Any other error rolls back what the round has not committed.
Break ==
    /\ turn.asking
    /\ Ends("error")
    /\ UNCHANGED <<cards, kept, status, effects>>

KeptWith(n) == cards + n

LookUp(n) ==
    /\ turn.asking /\ ~FinalOnly /\ n > 0
    /\ cards' = cards + n /\ kept' = KeptWith(n)
    /\ turn' = [turn EXCEPT !.round = @ + 1]
    /\ UNCHANGED <<reply, status, effects>>

\* After some lookups a call is unknown, malformed or fails.
LookUpBreaks(n) ==
    /\ turn.asking /\ ~FinalOnly /\ n < MaxCalls
    /\ cards' = cards + n
    /\ Ends("error")
    /\ UNCHANGED <<kept, status, effects>>

\* After some lookups a call would change something: it is proposed, the rest is dropped.
Propose(n, p) ==
    /\ turn.asking /\ ~FinalOnly /\ n < MaxCalls
    /\ status[p] = "NONE"
    /\ status' = [status EXCEPT ![p] = "PENDING"]
    /\ cards' = cards + n /\ kept' = cards + n
    /\ Ends("proposal")
    /\ UNCHANGED effects

Turn ==
    /\ running = Nobody
    /\ \/ Ask \/ FallBack \/ Answer \/ RunOut \/ Break
       \/ \E n \in 1 .. MaxCalls : LookUp(n)
       \/ \E n \in 0 .. MaxCalls : LookUpBreaks(n)
       \/ \E n \in 0 .. MaxCalls, p \in Proposals : Propose(n, p)
    /\ UNCHANGED <<click, running, unmarked>>

-----------------------------------------------------------------------------
(* POST /ai/chat/confirm                                                   *)

turnVars == <<turn, cards, kept, reply>>

MayResolveAgain(p) == status[p] # "NONE"  \* seeded: the status is not looked at
MayResolve(p) == status[p] = "PENDING"

Cancel(p) ==
    /\ MayResolve(p)
    /\ status' = [status EXCEPT ![p] = "CANCELLED"]
    /\ UNCHANGED <<turnVars, click, running, effects, unmarked>>

\* The tool is called; unless it awaits, nothing else runs until the request has ended.
Confirm(c, p) ==
    /\ click[c] = NoClick
    /\ MayResolve(p) /\ effects[p] < MaxEffects
    /\ click' = [click EXCEPT ![c] = [phase |-> "tool", proposal |-> p]]
    /\ running' = IF p \in Awaiting THEN Nobody ELSE c
    /\ UNCHANGED <<turnVars, status, effects, unmarked>>

\* The tool commits its own work; the proposal is pending as before.
ToolCommits(c) ==
    /\ click[c].phase = "tool"
    /\ effects' = [effects EXCEPT ![click[c].proposal] = @ + 1]
    /\ click' = [click EXCEPT ![c].phase = "record"]
    /\ running' = c
    /\ UNCHANGED <<turnVars, status, unmarked>>

Record(c) ==
    /\ click[c].phase = "record"
    /\ status' = [status EXCEPT ![click[c].proposal] = "APPLIED"]
    /\ click' = [click EXCEPT ![c] = NoClick]
    /\ running' = Nobody
    /\ UNCHANGED <<turnVars, effects, unmarked>>

Unmarked(p) == \E c \in Clicks : click[c].phase = "record" /\ click[c].proposal = p
LeftUnmarked(some) ==
    [p \in Proposals |-> IF p \in some /\ Unmarked(p) THEN unmarked[p] + 1 ELSE unmarked[p]]

\* The tool, the rebuild of the plan or the last commit raises.
ConfirmFails(c) ==
    /\ click[c] # NoClick
    /\ click' = [click EXCEPT ![c] = NoClick]
    /\ running' = Nobody
    /\ unmarked' = IF click[c].phase = "record"
                   THEN LeftUnmarked({click[c].proposal}) ELSE unmarked
    /\ UNCHANGED <<turnVars, status, effects>>

Click ==
    \/ running = Nobody /\ \E p \in Proposals : Cancel(p)
    \/ running = Nobody /\ \E c \in Clicks, p \in Proposals : Confirm(c, p)
    \/ \E c \in Clicks : running \in {c, Nobody} /\ (ToolCommits(c) \/ Record(c) \/ ConfirmFails(c))

\* The process stops: what is committed stays.
Restart ==
    /\ turn' = NoTurn /\ reply' = "none"
    /\ click' = [c \in Clicks |-> NoClick]
    /\ running' = Nobody
    /\ unmarked' = LeftUnmarked(Proposals)
    /\ UNCHANGED <<cards, kept, status, effects>>

Next == Turn \/ Click \/ Restart

Spec == Init /\ [][Next]_chatVars

-----------------------------------------------------------------------------

\* "The collected evidence is preserved" (ai_chat.py:855): when the lookups are used up, all
\* of those shown are in the conversation's history, whatever happened in earlier rounds.
LimitKeepsEvidence == reply = "limit" => kept = cards

\* "Confirmation was already resolved": once a proposal was applied or cancelled, and no
\* request for it is under way, it is neither carried out again nor resolved otherwise.
Settled(p) ==
    /\ status[p] \in {"APPLIED", "CANCELLED"}
    /\ \A c \in Clicks : click[c].proposal # p
ResolvedStays ==
    \A p \in Proposals : Settled(p) => status'[p] = status[p] /\ effects'[p] = effects[p]

\* Nothing a user confirmed is carried out more often than it was confirmed: once, and again
\* only for each time a failure or the end of the process came between the tool's own commit
\* and the mark (ai_chat.py:1046-1055). Tools that await are exempt: of those, requests that
\* overlap are all carried out.
CarriedOutOnce == \A p \in Proposals \ Awaiting : effects[p] <= 1 + unmarked[p]

\* What was shown to the user and what the user decided both stay.
HistoryStays ==
    []LimitKeepsEvidence /\ []CarriedOutOnce /\ [][ResolvedStays]_chatVars
=============================================================================
