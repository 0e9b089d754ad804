---------------------------- MODULE MCCourseWork ----------------------------
(* What is synchronised, from Canvas and from Google, and what is made of   *)
(* it.  A behaviour exercises one of the components, on an instance of its  *)
(* own; the others keep still.                                              *)
EXTENDS SyncEngine, TLC

CONSTANTS Sources, Dates, Rank, Providers, Retracting
CONSTANTS Tasks, Requests, MaxTime, MaxCalls
CONSTANTS Entries, Values, Actors, MaxRevision, MaxBegun

\* The rank of a source is a number, and no number or date stands for none.
ASSUME CourseWorkAssumption ==
    /\ Rank \in [Sources -> Nat]
    /\ None \notin Nat \union Dates
    /\ MaxRevision \in Nat

VARIABLES focus,
    due, dueRank, deadline, facts, gone, submission, observed,
    task, archived, timer, plan, clock, req, interrupted, calls,
    remote, changed, conn, row, copy, work, begun, left, repaired

Merging == INSTANCE TaskSources
Progress == INSTANCE TaskProgress WITH NoTask <- None
Google == INSTANCE GoogleCalendar WITH Events <- Entries, events <- copy

sourceVars == <<due, dueRank, deadline, facts, gone, submission, observed>>
progressVars == <<task, archived, timer, plan, clock, req, interrupted, calls>>
calendarVars == <<remote, changed, conn, row, copy, work, begun, left, repaired>>

\* Gradescope (gradescope.py:32), Canvas (canvas.py:517), a course's web site (website.py:320).
MCRank == [s \in Sources |-> IF s \in Retracting THEN 1 ELSE IF s \in Providers THEN 0 ELSE 3]

\* Whoever synchronises the calendar or sends a request is one of the same two.
Symmetry == Permutations(Requests)

MCInit ==
    /\ focus \in {"sync", "sources", "progress", "calendar"}
    /\ Init /\ Merging!Init /\ Progress!Init /\ Google!Init
    /\ focus # "sync" => listed = {} /\ graded = {} /\ \A a \in Assignments : body[a] = {}

\* One actor at a time asks for a token or a list; what they fetch and commit overlaps.
OneAsks == Cardinality({a \in Actors : work'[a].step \in {"exchange", "token", "list"}}) <= 1

\* Every request that the bound admits was made, and answered.
Exhausted ==
    /\ focus = "progress" /\ calls = MaxCalls /\ \A q \in Requests : req[q].phase = "idle"
    /\ UNCHANGED <<vars, sourceVars, progressVars, calendarVars>>

MCNext ==
    /\ UNCHANGED focus
    /\ \/ focus = "sync" /\ Next /\ UNCHANGED <<sourceVars, progressVars, calendarVars>>
       \/ focus = "sources" /\ Merging!Next /\ UNCHANGED <<vars, progressVars, calendarVars>>
       \/ focus = "progress" /\ Progress!Next /\ UNCHANGED <<vars, sourceVars, calendarVars>>
       \/ focus = "calendar" /\ Google!Next /\ OneAsks /\ UNCHANGED <<vars, sourceVars, progressVars>>
       \/ Exhausted

MCSpec == MCInit /\ [][MCNext]_<<focus, vars, sourceVars, progressVars, calendarVars>>

EvidenceIsRanked == Merging!EvidenceIsRanked
PlanFollowsTasks == Progress!PlanFollowsTasks
CopyCatchesUp == Google!CopyCatchesUp
DisconnectedIsEmpty == Google!DisconnectedIsEmpty
ProgressIsFenced == Progress!ProgressIsFenced
=============================================================================
