---------------------------- MODULE TaskSources ----------------------------
(***************************************************************************)
(* One task that several sources report (Canvas, Gradescope, a course web  *)
(* site): task_from_assignment of services/task_engine.py with the read    *)
(* model of services/task_providers.py.  An observation is stored first    *)
(* (its snapshot holds the provider's facts) and then imported into the    *)
(* task; a run may stop in between.  A source has a rank, the smaller the  *)
(* more authoritative; a deadline is an instant or a local date, here a    *)
(* model value.                                                            *)
(***************************************************************************)
EXTENDS Integers

CONSTANTS Sources, Dates, None,
          Rank,          \* the rank of each source
          Providers,     \* the sources that know of submissions (Canvas, Gradescope)
          Retracting     \* those that say when a deadline was removed (Canvas)

VARIABLES
    due, dueRank,    \* the task's deadline and the rank it was taken from
    deadline,        \* the deadline row of each source; None: no row, or cleared
    facts,           \* what each source's latest snapshot says of the submission
    gone,            \* sources whose item was removed upstream
    submission,      \* the task's submission state
    observed         \* the observation that is stored and not yet imported

sourceVars == <<due, dueRank, deadline, facts, gone, submission, observed>>

Terminal == {"submitted", "graded"}
Submissions == Terminal \union {"unknown"}
Deadlines == Dates \union {None}
\* What a source says of the deadline: an instant, nothing, or that it was removed.
Says == Dates \union {"nothing", "removed"}
Reports == [source : Sources, date : Says, submission : Submissions]
NoReport == [source |-> None, date |-> "nothing", submission |-> "unknown"]

Init ==
    /\ due = None /\ dueRank = None
    /\ deadline = [s \in Sources |-> None]
    /\ facts = [s \in Sources |-> "unknown"]
    /\ gone = {}
    /\ submission = "unknown"
    /\ observed = NoReport

\* A snapshot of what the source says is stored; its facts can be read from now on.
Observe(s) ==
    /\ observed = NoReport
    /\ \E r \in Reports :
         /\ r.source = s
         /\ s \notin Providers => r.submission = "unknown"
         /\ s \notin Retracting => r.date # "removed"
         /\ observed' = r
         /\ facts' = [facts EXCEPT ![s] = r.submission]
    /\ gone' = gone \ {s}
    /\ UNCHANGED <<due, dueRank, deadline, submission>>

\* The item is no longer listed: it is marked deleted, its rows stay.
Disappear(s) ==
    /\ observed = NoReport
    /\ gone' = gone \union {s}
    /\ UNCHANGED <<due, dueRank, deadline, facts, submission, observed>>

Outranks(s) == dueRank = None \/ Rank[s] <= dueRank

\* The source names a deadline.
Take(s, d) ==
    /\ deadline' = [deadline EXCEPT ![s] = d]
    /\ IF Outranks(s)
       THEN due' = d /\ dueRank' = Rank[s]
       ELSE UNCHANGED <<due, dueRank>>

\* The deadline with the smallest rank among the other sources', if there is one.
Alternates(s) == {t \in Sources \ {s} : deadline[t] # None}
Fallback(s, d, r) ==
    IF Alternates(s) = {} THEN d = None /\ r = None
    ELSE \E t \in Alternates(s) :
           /\ \A u \in Alternates(s) : Rank[t] <= Rank[u]
           /\ d = deadline[t] /\ r = Rank[t]

\* The source says that its deadline was removed: only its own evidence is cleared.
Owned(s) == due # None /\ due = deadline[s]
Withdraw(s) ==
    /\ deadline' = [deadline EXCEPT ![s] = None]
    /\ IF Owned(s) /\ Outranks(s)
       THEN \E d \in Deadlines, r \in {None} \union {Rank[t] : t \in Sources} :
              Fallback(s, d, r) /\ due' = d /\ dueRank' = r
       ELSE UNCHANGED <<due, dueRank>>

\* The terminal state any live provider reports, graded before submitted.
Reported == {facts[s] : s \in Providers \ gone}
OwnOnly(own) == own  \* seeded: the last provider that reports has its way
Effective(own) ==
    IF "graded" \in Reported THEN "graded"
    ELSE IF "submitted" \in Reported THEN "submitted" ELSE own

Import(s) ==
    LET r == observed IN
    /\ r.source = s
    /\ CASE r.date \in Dates -> Take(s, r.date)
         [] r.date = "removed" /\ deadline[s] # None -> Withdraw(s)
         [] OTHER -> UNCHANGED <<due, dueRank, deadline>>
    /\ submission' = Effective(IF s \in Providers THEN r.submission ELSE submission)
    /\ observed' = NoReport
    /\ UNCHANGED <<facts, gone>>

\* The run stops after it has stored the observation; the next one observes again.
Stop ==
    /\ observed # NoReport
    /\ observed' = NoReport
    /\ UNCHANGED <<due, dueRank, deadline, facts, gone, submission>>

Next == Stop \/ \E s \in Sources : Observe(s) \/ Disappear(s) \/ Import(s)
Spec == Init /\ [][Next]_sourceVars

-----------------------------------------------------------------------------

TypeOK ==
    /\ due \in Deadlines /\ dueRank \in {None} \union {Rank[s] : s \in Sources}
    /\ deadline \in [Sources -> Deadlines]
    /\ facts \in [Sources -> Submissions]
    /\ gone \subseteq Sources
    /\ submission \in Submissions
    /\ observed \in Reports \union {NoReport}

\* In whatever order sources name, change and remove their deadlines, the task has the
\* deadline of one of the most authoritative sources that has one, and none if no source has.
Best(s) == deadline[s] # None /\ \A t \in Sources : deadline[t] # None => Rank[s] <= Rank[t]
DeadlineIsBest ==
    IF \A s \in Sources : deadline[s] = None
    THEN due = None /\ dueRank = None
    ELSE \E s \in Sources : Best(s) /\ due = deadline[s] /\ dueRank = Rank[s]

\* What one provider has graded or received is not undone by another that knows nothing
\* of it: a task stops to be handed in only when no live provider says that it is.
HandsBack == submission \in Terminal /\ submission' \notin Terminal
HandedInStays == [][HandsBack => Reported \intersect Terminal = {}]_sourceVars

\* No source wins because it came first or last: neither by its deadline nor by what it
\* says of the submission.
EvidenceIsRanked == []DeadlineIsBest /\ HandedInStays
=============================================================================
