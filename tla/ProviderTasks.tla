----------------------------- MODULE ProviderTasks -----------------------------
(* Which task an assignment of Canvas or Gradescope is linked to, when both   *)
(* may show the same work: task_from_assignment with services/                *)
(* task_providers.py, and the user's mappings in api/provider_sources.py.     *)
(* Only an address in the Canvas assignment, the user's word or, within       *)
(* Canvas, the homework's number may join two assignments.  A title stands    *)
(* for all that makes assignments look alike: the words and the day it is     *)
(* due.  A task has the name of the assignment it was created for.  Sessions, *)
(* deadlines (TaskSources) and snapshots (SyncEngine) are left out; one       *)
(* Gradescope run at a time, of one course.                                   *)
EXTENDS FiniteSets, Sequences, SequencesExt

CONSTANTS Canvas, Gradescope, \* assignments
          Titles, Homework,   \* titles, and those that hold a homework's number
          Clicks,             \* bound: the requests that map an assignment
          None

VARIABLES mapped,    \* the Gradescope course has a CourseSource
          task,      \* TaskSourceLink of each assignment
          title,     \* Task.title; None: there is no such task
          key,       \* Task.source_key
          tool,      \* the Gradescope assignment that the Canvas one launches
          gone,      \* SourceItem.is_deleted
          binding,   \* CourseSource.config_json["assignment_bindings"]
          form,      \* map_task: what the user says, and the bindings as it read them
          run,       \* the Gradescope run: its bindings, and the rows to import
          named, confirmed  \* history: what Canvas ever named, what the user ever confirmed

seen == <<tool, gone, named>>
choices == <<binding, form, confirmed>>
tasks == <<task, title, key>>
vars == <<mapped, tasks, seen, choices, run>>

Assignments == Canvas \union Gradescope
Existing == {t \in Assignments : title[t] # None}
Unopened == [of |-> None, choice |-> None, saw |-> <<>>]
Used == [Unopened EXCEPT !.choice = "done"]
Idle == [pc |-> "idle", bindings |-> <<>>, rows |-> <<>>]

Init ==
    /\ mapped = FALSE
    /\ task = [i \in Assignments |-> None]
    /\ title = [i \in Assignments |-> None] /\ key = title
    /\ tool = [c \in Canvas |-> None] /\ gone = {} /\ named = {}
    /\ binding = [g \in Gradescope |-> None] /\ confirmed = {}
    /\ form = [k \in Clicks |-> Unopened]
    /\ run = Idle

-----------------------------------------------------------------------------
(* task_from_assignment. *)

SourceKey(i, name) == IF i \in Canvas /\ name \in Homework THEN name ELSE i

SameKey(i, name) == {t \in Existing : key[t] = SourceKey(i, name)}

\* strongly_bound_task, if there is exactly one.
Claimed(g) == {task[c] : c \in {d \in Canvas \ gone : tool[d] = g}} \ {None}
Launched(g) == {task[f] : f \in Gradescope \intersect {g}} \ {None}
Strong(claims) == IF Cardinality(claims) = 1 THEN claims ELSE {}

WeakCandidates(name) == {t \in Existing : title[t] = name}

\* The task that is there gets the assignment's title.
Join(i, t, name) ==
    /\ task' = [task EXCEPT ![i] = t]
    /\ title' = [title EXCEPT ![t] = name]
    /\ key' = [key EXCEPT ![t] = IF t \in Existing THEN @ ELSE SourceKey(i, name)]

(* The first of the ways that leads to a task; else a new one. *)
Import(i, ways, name) ==
    LET open == {n \in DOMAIN ways : ways[n] # {}}
    IN \E t \in (IF open = {} THEN {i} ELSE ways[Min(open)]) : Join(i, t, name)

Linked(i) == {task[i]} \ {None}

-----------------------------------------------------------------------------
(* Canvas: a row is stored and imported in one commit. *)

CanvasRow(c, name, g) ==
    /\ Import(c, <<Linked(c), Strong(Launched(g)), SameKey(c, name)>>, name)
    /\ tool' = [tool EXCEPT ![c] = g]
    /\ named' = named \union ({c} \X ({g} \ {None}))
    /\ gone' = gone \ {c}
    /\ UNCHANGED <<mapped, choices, run>>

CanvasDrops(c) ==
    /\ task[c] # None /\ c \notin gone /\ gone' = gone \union {c}
    /\ UNCHANGED <<mapped, tasks, tool, named, choices, run>>

-----------------------------------------------------------------------------
(* Gradescope: a run has the bindings of the moment the user asked for it. *)

MapCourse ==
    /\ ~mapped /\ mapped' = TRUE
    /\ UNCHANGED <<tasks, seen, choices, run>>

BeginSync ==
    /\ mapped /\ run = Idle
    /\ run' = [Idle EXCEPT !.pc = "fetching", !.bindings = binding]
    /\ UNCHANGED <<mapped, tasks, seen, choices>>

\* The rows of the page in their order.
Fetch(rows) ==
    /\ run.pc = "fetching"
    /\ run' = [run EXCEPT !.pc = "importing", !.rows = rows]
    /\ UNCHANGED <<mapped, tasks, seen, choices>>

\* The page cannot be read or parsed, or all rows are imported.
RunEnds ==
    /\ run.pc = "fetching" \/ (run.pc = "importing" /\ run.rows = <<>>)
    /\ run' = Idle
    /\ UNCHANGED <<mapped, tasks, seen, choices>>

Confirmed(g) == {run.bindings[g]} \intersect Assignments

MustAskOfSameKey(g, name) ==  \* seeded: a task of the same title is not asked about
    /\ task[g] = None /\ Strong(Claimed(g)) = {} /\ run.bindings[g] = None
    /\ SameKey(g, name) # {}
MustAsk(g, name) ==
    /\ task[g] = None /\ Strong(Claimed(g)) = {} /\ run.bindings[g] = None
    /\ WeakCandidates(name) # {}

GradescopeRow(name) ==
    /\ run.pc = "importing" /\ run.rows # <<>>
    /\ LET g == Head(run.rows)
       IN ~MustAsk(g, name)
          /\ Import(g, <<Linked(g), Strong(Claimed(g)), Confirmed(g), SameKey(g, name)>>, name)
    /\ run' = [run EXCEPT !.rows = Tail(@)]
    /\ UNCHANGED <<mapped, seen, choices>>

\* PROVIDER_TASK_MAPPING_REQUIRED: neither this row nor a later one is stored.
RowIsRefused(name) ==
    /\ run.pc = "importing" /\ run.rows # <<>> /\ MustAsk(Head(run.rows), name)
    /\ run' = Idle
    /\ UNCHANGED <<mapped, tasks, seen, choices>>

-----------------------------------------------------------------------------
(* map_task: the source is read, then the page is fetched. *)

OpenForm(k, g, choice) ==
    /\ mapped /\ form[k] = Unopened
    /\ form' = [form EXCEPT ![k] = [of |-> g, choice |-> choice, saw |-> binding]]
    /\ UNCHANGED <<mapped, tasks, seen, binding, confirmed, run>>

Bound(g, choice) == task[g] # None /\ task[g] # choice

Confirm(k) ==
    /\ form[k].of # None
    /\ form[k].choice \in Existing \union {"separate"} /\ ~Bound(form[k].of, form[k].choice)
    /\ binding' = [form[k].saw EXCEPT ![form[k].of] = form[k].choice]
    /\ confirmed' = confirmed \union {<<form[k].of, form[k].choice>>}
    /\ form' = [form EXCEPT ![k] = Used]
    /\ UNCHANGED <<mapped, tasks, seen, run>>

\* Not visible any more, no such task, already bound, or the page was not read.
Refuse(k) ==
    /\ form[k].of # None
    /\ form' = [form EXCEPT ![k] = Used]
    /\ UNCHANGED <<mapped, tasks, seen, binding, confirmed, run>>

Pages == UNION {SetToSeqs(shown) : shown \in SUBSET Gradescope}

Next ==
    \/ \E c \in Canvas, name \in Titles, g \in Gradescope \union {None} : CanvasRow(c, name, g)
    \/ \E c \in Canvas : CanvasDrops(c)
    \/ MapCourse \/ BeginSync \/ RunEnds
    \/ \E rows \in Pages : Fetch(rows)
    \/ \E name \in Titles : GradescopeRow(name) \/ RowIsRefused(name)
    \/ \E k \in Clicks :
        \/ \E g \in Gradescope, choice \in Existing \union {"separate"} : OpenForm(k, g, choice)
        \/ Confirm(k) \/ Refuse(k)

Spec == Init /\ [][Next]_vars

-----------------------------------------------------------------------------
(* Whoever joined the other's task was named, or the user said so: also when *)
(* runs use old bindings and requests overwrite each other's.                *)
JoinedOnPurpose ==
    \A i \in Assignments : task[i] \notin {None, i} =>
        \/ <<i, task[i]>> \in confirmed
        \/ \E j \in Assignments : task[j] = task[i] /\ {<<i, j>>, <<j, i>>} \intersect named # {}
        \/ i \in Canvas /\ key[task[i]] \in Homework

(* Work that looks like a known task becomes another one only if it is named *)
(* by none or by several, and the user said that it is separate.             *)
SplitOnPurpose ==
    \A g \in Gradescope :
        task[g] = None /\ task'[g] = g /\ WeakCandidates(title'[g]) # {} => <<g, "separate">> \in confirmed

(* "weak similar titles do not auto merge": test_v070_reconciliation.py:62.  *)
TitlesDecideNothing == []JoinedOnPurpose /\ [][SplitOnPurpose]_vars
=============================================================================
