------------------------- MODULE AssignmentSummaries -------------------------
(***************************************************************************)
(* The summary of one assignment's description that the provider writes    *)
(* (services/assignment_summaries.py), a kind of job that AnalysisWorker   *)
(* runs after the others, under the same lock (ai/queue.py).  A job is     *)
(* made for the hash of an input: the description with the provider and    *)
(* the model.  Synchronisation and the settings change the input on other  *)
(* threads between any two steps of a run.                                 *)
(***************************************************************************)
EXTENDS Naturals

CONSTANTS Inputs,       \* what the item's description and the settings can be
          None,         \* no description, or the item was deleted
          MaxAttempts,  \* AnalysisWorker.max_attempts
          PerRun        \* jobs taken by one run (2 in the code)

VARIABLES
    input,     \* the input now
    ready,     \* get_ai_probe_settings()["chat_ready"]
    jobs,      \* the job of each input: state and attempts
    summaries, \* inputs with a successful AIRun
    step,      \* where the run stands
    left,      \* jobs it may still take
    current,   \* the input of the job it works on
    asked,     \* history: provider calls for each input
    since      \* history: the item's inputs since the provider answered

summaryVars == <<input, ready, jobs, summaries, step, left, current, asked, since>>
World == <<input, ready>>

Init ==
    /\ input \in Inputs \union {None}
    /\ ready \in BOOLEAN
    /\ jobs = [i \in Inputs |-> [state |-> "NONE", attempts |-> 0]]
    /\ summaries = {}
    /\ step = "idle"
    /\ left = 0
    /\ current = None
    /\ asked = [i \in Inputs |-> 0]
    /\ since = {}

Exhausted(i) == jobs[i].attempts >= MaxAttempts
Retried(i) == IF Exhausted(i) THEN "FAILED" ELSE "PENDING"
Put(i, s) == jobs' = [jobs EXCEPT ![i].state = s]
Rests == step' = "next" /\ current' = None /\ since' = {}

\* The description is edited, removed or restored, or another model is chosen.
Change ==
    /\ input' \in Inputs \union {None}
    /\ since' = IF step = "answered" THEN since \union {input'} ELSE since
    /\ UNCHANGED <<ready, jobs, summaries, step, left, current, asked>>

\* The connection is tested, or its verification is lost.
Configure ==
    /\ ready' = ~ready
    /\ UNCHANGED <<input, jobs, summaries, step, left, current, asked, since>>

\* A run first takes back the claims of runs that died more than five minutes ago.
TakenBack(dead) ==
    [i \in Inputs |-> IF i \in dead THEN [jobs[i] EXCEPT !.state = Retried(i)] ELSE jobs[i]]
Start ==
    /\ step = "idle"
    /\ \E dead \in SUBSET {i \in Inputs : jobs[i].state = "REVIEWING"} : jobs' = TakenBack(dead)
    /\ step' = "enqueue"
    /\ UNCHANGED <<World, summaries, left, current, asked, since>>

\* enqueue_visible_summaries: a restored input uses its job again, with its attempts.
Enqueued(i) ==
    CASE jobs[i].state = "NONE" -> [state |-> "PENDING", attempts |-> 0]
      [] jobs[i].state \in {"SUPERSEDED", "READY", "PENDING"} -> [jobs[i] EXCEPT !.state = Retried(i)]
      [] OTHER -> jobs[i]

Enqueue ==
    /\ step = "enqueue" /\ ready
    /\ jobs' = IF input = None \/ input \in summaries THEN jobs
               ELSE [jobs EXCEPT ![input] = Enqueued(input)]
    /\ step' = "next" /\ left' = PerRun
    /\ UNCHANGED <<World, summaries, current, asked, since>>

Claim(i) ==
    /\ step = "next" /\ left > 0
    /\ jobs[i].state = "PENDING" /\ ~Exhausted(i)
    /\ jobs' = [jobs EXCEPT ![i] = [state |-> "REVIEWING", attempts |-> @.attempts + 1]]
    /\ step' = "claimed" /\ current' = i /\ left' = left - 1
    /\ UNCHANGED <<World, summaries, asked, since>>

\* generate_summary: the job's input must be the item's.
Obsolete ==
    /\ step = "claimed" /\ input # current
    /\ Put(current, "SUPERSEDED") /\ Rests
    /\ UNCHANGED <<World, summaries, left, asked>>

AskProvider ==
    /\ step = "claimed" /\ input = current /\ ready
    /\ asked' = [asked EXCEPT ![current] = @ + 1]
    /\ step' = "asking"
    /\ UNCHANGED <<World, jobs, summaries, left, current, since>>

AnswerArrives ==
    /\ step = "asking"
    /\ step' = "answered" /\ since' = {input}
    /\ UNCHANGED <<World, jobs, summaries, left, current, asked>>

\* The provider is not connected, does not answer or its answer is no summary.
GenerateFails ==
    /\ step \in {"claimed", "asking"}
    /\ step = "claimed" => ~ready
    /\ Put(current, Retried(current)) /\ Rests
    /\ UNCHANGED <<World, summaries, left, asked>>

\* The input is looked at again before anything is published.
StillWantedAnyway == TRUE  \* seeded: the input is not looked at again
StillWanted == ready /\ input = current

Recheck ==
    /\ step = "answered"
    /\ IF StillWanted THEN step' = "checked" /\ UNCHANGED <<jobs, current, since>>
       ELSE Put(current, "SUPERSEDED") /\ Rests
    /\ UNCHANGED <<World, summaries, left, asked>>

Publish ==
    /\ step = "checked"
    /\ summaries' = summaries \union {current}
    /\ Put(current, "READY") /\ Rests
    /\ UNCHANGED <<World, left, asked>>

\* The run is over, is not wanted, or stops with its claim in the table.
End ==
    /\ step # "idle"
    /\ step' = "idle" /\ current' = None /\ since' = {} /\ left' = 0
    /\ UNCHANGED <<World, jobs, summaries, asked>>

Next ==
    \/ Change \/ Configure \/ Start \/ Enqueue
    \/ \E i \in Inputs : Claim(i)
    \/ Obsolete \/ AskProvider \/ AnswerArrives \/ GenerateFails \/ Recheck \/ Publish \/ End

Spec == Init /\ [][Next]_summaryVars

-----------------------------------------------------------------------------

\* "Repeated credential/input flips must stay bounded" (assignment_summaries.py:150): the
\* provider is asked about an input at most MaxAttempts times, however often the item or
\* the settings change there and back and runs die with a claim.
SummariesAreBounded == \A i \in Inputs : asked[i] <= MaxAttempts

\* "Never publish output against obsolete input" (assignment_summaries.py:182): what is
\* published was the item's input at some time after the provider had answered.
PublishedWasCurrent == summaries' \ summaries \subseteq since
NothingObsolete == [][PublishedWasCurrent]_summaryVars

\* The jobs that keep the calls bounded are used again for an input that comes back, and
\* must not publish what they were claimed for earlier: both of the above.
SummariesAreCurrent == []SummariesAreBounded /\ NothingObsolete
=============================================================================
