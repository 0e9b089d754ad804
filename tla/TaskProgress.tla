---------------------------- MODULE TaskProgress ----------------------------
(***************************************************************************)
(* What the user says about the tasks of a course, and the study plan that *)
(* is derived from it: services/completion.py, services/work_tracking.py,  *)
(* the rebuild of services/planner.py, and the endpoints of api/routes.py  *)
(* that call them.  The endpoints are synchronous, so each request runs on *)
(* a thread of its own: it loads the task, looks at other rows, claims the *)
(* task's revision and commits, and rebuilds the plan, and other requests  *)
(* act between any two of these.  SQLite admits one writer at a time, so   *)
(* what is read after the first write of a transaction is current.         *)
(***************************************************************************)
EXTENDS Integers

CONSTANTS Tasks, Requests, NoTask,
          MaxTime,       \* bound on the clock
          MaxCalls       \* bound on the requests that are made, and so on a task's revision

VARIABLES task, archived, timer, plan, clock, req, interrupted, calls

progressVars == <<task, archived, timer, plan, clock, req, interrupted, calls>>

Percents == {0, 50, 100}
Idle == [phase |-> "idle"]
NoTimer == [task |-> NoTask, since |-> 0]
AnyRevision == -1
Never == -1            \* no progress was recorded, nothing was reported yet

Untouched == [done |-> FALSE, rev |-> 0, percent |-> 0, at |-> Never, reported |-> Never,
              ignored |-> FALSE, submitted |-> FALSE, terminal |-> FALSE]

Init ==
    /\ task = [t \in Tasks |-> Untouched]
    /\ archived = FALSE
    /\ timer = NoTimer
    /\ plan = Tasks
    /\ clock = 0
    /\ req = [q \in Requests |-> Idle]
    /\ interrupted = FALSE
    /\ calls = 0

\* The tasks a plan is made for.
Open(t) == ~archived /\ ~task[t].done /\ ~task[t].ignored /\ ~task[t].terminal
\* A free worker takes up a request.
Takes(q) == req[q] = Idle /\ calls < MaxCalls /\ calls' = calls + 1
GoesOnly(q, phase) == req' = [req EXCEPT ![q] = Idle]  \* seeded: the plan is left as it was
Goes(q, phase) == req' = [req EXCEPT ![q].phase = phase]
Ends(q) == req' = [req EXCEPT ![q] = Idle]

-----------------------------------------------------------------------------
(* Progress: POST /tasks/{id}/progress, a confirmed action of the chat     *)
(* (which expects the revision it loads, and may reopen), the heartbeat.   *)

\* What is used later of the row a request has loaded.
Loaded(t) == [rev |-> task[t].rev, done |-> task[t].done, submitted |-> task[t].submitted]

\* apply_progress refuses on the loaded row before it looks at anything else.
Refused(row, r) ==
    \/ r.expected \notin {AnyRevision, row.rev}
    \/ row.done /\ (r.percent = 100 \/ ~r.reopen)
    \/ row.done /\ r.expected = AnyRevision

Report(q) ==
    /\ Takes(q)
    /\ \E t \in Tasks, p \in Percents, e \in {AnyRevision} \cup 0 .. MaxCalls,
          a \in 0 .. clock, again \in BOOLEAN :
         LET r == [phase |-> "loaded", kind |-> "progress", task |-> t, percent |-> p,
                   expected |-> e, at |-> a, reopen |-> again, seen |-> Loaded(t)]
         IN  ~Refused(task[t], r) /\ req' = [req EXCEPT ![q] = r]
    /\ UNCHANGED <<task, archived, timer, plan, clock, interrupted>>

ChatReport(q) ==
    /\ Takes(q)
    /\ \E t \in Tasks, p \in Percents :
         LET r == [phase |-> "loaded", kind |-> "progress", task |-> t, percent |-> p,
                   expected |-> task[t].rev, at |-> clock, reopen |-> TRUE, seen |-> Loaded(t)]
         IN  ~Refused(task[t], r) /\ req' = [req EXCEPT ![q] = r]
    /\ UNCHANGED <<task, archived, timer, plan, clock, interrupted>>

\* An action older than the last recorded progress, or one that repeats it, changes nothing.
Outdated(t, r) ==
    \/ r.at < task[t].at
    \/ task[t].at # Never /\ task[t].percent = r.percent /\ r.percent < 100 /\ ~r.seen.done
Predates(r, session) == r.percent = 100 /\ session.task = r.task /\ r.at < session.since

\* The latest progress and, for a completion, the open timer are read.
Look(q) ==
    LET r == req[q] IN
    /\ r.phase = "loaded" /\ r.kind = "progress"
    /\ IF Outdated(r.task, r) \/ Predates(r, timer)
       THEN Ends(q)
       ELSE req' = [req EXCEPT ![q] = [phase |-> "looked", kind |-> "progress", task |-> r.task,
                        percent |-> r.percent, at |-> r.at, seen |-> r.seen,
                        session |-> IF r.percent = 100 /\ timer.task = r.task
                                    THEN timer ELSE NoTimer]]
    /\ UNCHANGED <<task, archived, timer, plan, clock, interrupted, calls>>

\* The conditional UPDATE that claims the revision the request has loaded.
ClaimsBlindly(t, seen) == ~task[t].done  \* seeded: the revision is not compared
Claims(t, seen) == task[t].rev = seen.rev /\ task[t].done = seen.done

\* The status follows the submission as it was loaded.
Progressed(t, r) ==
    [task[t] EXCEPT !.done = r.percent = 100, !.rev = r.seen.rev + 1, !.percent = r.percent,
                    !.at = r.at,
                    !.reported = IF r.percent < 100 THEN Never ELSE @,
                    !.terminal = IF r.seen.submitted THEN @ ELSE FALSE]

Apply(q) ==
    LET r == req[q] IN
    /\ r.phase = "looked"
    /\ IF Claims(r.task, r.seen)
       THEN /\ task' = [task EXCEPT ![r.task] = Progressed(r.task, r)]
            /\ timer' = IF r.session # NoTimer /\ timer = r.session THEN NoTimer ELSE timer
            /\ Goes(q, "rebuild")
       ELSE Ends(q) /\ UNCHANGED <<task, timer>>
    /\ UNCHANGED <<archived, plan, clock, interrupted, calls>>

\* A heartbeat needs the open timer; without a percentage it only reports.
Heartbeat(q) ==
    /\ Takes(q)
    /\ \E t \in Tasks, p \in Percents \cup {Never}, e \in {AnyRevision} \cup 0 .. MaxCalls,
          a \in 0 .. clock :
         /\ timer.task = t /\ ~task[t].done
         /\ e \in {AnyRevision, task[t].rev}
         /\ a >= task[t].reported
         /\ req' = [req EXCEPT ![q] = [phase |-> "loaded", kind |-> "heartbeat", task |-> t,
                        percent |-> p, at |-> a, session |-> timer, seen |-> Loaded(t)]]
    /\ UNCHANGED <<task, archived, timer, plan, clock, interrupted>>

\* The heartbeat's own claim takes the write lock, so the rest of it is one step.
HeartbeatApply(q) ==
    LET r == req[q]
        t == r.task
        fenced == Claims(t, r.seen) /\ r.at >= task[t].at
        counts == r.percent # Never /\ ~Outdated(t, r)
    IN
    /\ r.phase = "loaded" /\ r.kind = "heartbeat"
    /\ IF ~fenced \/ (counts /\ Predates(r, timer))
       THEN Ends(q) /\ UNCHANGED <<task, timer>>
       ELSE IF counts
       THEN /\ task' = [task EXCEPT ![t] = [Progressed(t, r) EXCEPT !.reported = r.at]]
            /\ timer' = IF r.percent = 100 /\ timer.task = t THEN NoTimer ELSE timer
            /\ Goes(q, "rebuild")
       ELSE /\ task' = [task EXCEPT ![t].reported = r.at]
            /\ Ends(q) /\ UNCHANGED timer
    /\ UNCHANGED <<archived, plan, clock, interrupted, calls>>

-----------------------------------------------------------------------------
(* The timer.  A unique index of the table admits one open session.        *)

StartWork(q) ==
    /\ Takes(q)
    /\ \E t \in Tasks :
         /\ ~task[t].done /\ timer.task # t
         /\ req' = [req EXCEPT ![q] = [phase |-> "start", task |-> t, session |-> timer]]
    /\ UNCHANGED <<task, archived, timer, plan, clock, interrupted>>

\* The session that was open at the read is closed and a new one inserted; if another
\* was opened meanwhile the insertion fails and nothing is changed.
StartCommit(q) ==
    /\ req[q].phase = "start"
    /\ timer' = IF timer \in {req[q].session, NoTimer}
                THEN [task |-> req[q].task, since |-> clock] ELSE timer
    /\ Ends(q)
    /\ UNCHANGED <<task, archived, plan, clock, interrupted, calls>>

Stopped(t) == IF timer.task = t THEN NoTimer ELSE timer

StopWork(t) ==
    /\ timer.task = t
    /\ timer' = Stopped(t)
    /\ UNCHANGED <<task, archived, plan, clock, req, interrupted, calls>>

-----------------------------------------------------------------------------
(* The other changes a plan depends on.                                    *)

\* Each commits and then rebuilds, as POST /plan/rebuild does alone.
Rebuilding == [phase |-> "rebuild"]

Ignore(q, t) ==
    /\ Takes(q) /\ ~task[t].ignored
    /\ task' = [task EXCEPT ![t].ignored = TRUE]
    /\ timer' = Stopped(t)
    /\ req' = [req EXCEPT ![q] = Rebuilding]
    /\ UNCHANGED <<archived, plan, clock, interrupted>>

Unignore(q, t) ==
    /\ Takes(q) /\ task[t].ignored
    /\ task' = [task EXCEPT ![t].ignored = FALSE]
    /\ req' = [req EXCEPT ![q] = Rebuilding]
    /\ UNCHANGED <<archived, timer, plan, clock, interrupted>>

Archive(q) ==
    /\ Takes(q)
    /\ archived' = TRUE
    /\ req' = [req EXCEPT ![q] = Rebuilding]
    /\ UNCHANGED <<task, timer, plan, clock, interrupted>>

Restore(q) ==
    /\ Takes(q) /\ archived
    /\ archived' = FALSE
    /\ req' = [req EXCEPT ![q] = Rebuilding]
    /\ UNCHANGED <<task, timer, plan, clock, interrupted>>

\* A sync run learns from the provider that the task was handed in.
Import(q, t) ==
    /\ Takes(q)
    /\ task' = [task EXCEPT ![t].submitted = TRUE, ![t].terminal = TRUE]
    /\ req' = [req EXCEPT ![q] = Rebuilding]
    /\ UNCHANGED <<archived, timer, plan, clock, interrupted>>

\* The plan is inserted first, which takes the write lock, and the tasks are read then.
Rebuild(q) ==
    /\ req[q].phase = "rebuild"
    /\ plan' = {t \in Tasks : Open(t)}
    /\ interrupted' = FALSE
    /\ Ends(q)
    /\ UNCHANGED <<task, archived, timer, clock, calls>>

\* The process stops, or the rebuild raises, after the change was committed.
Interrupt(q) ==
    /\ req[q].phase = "rebuild"
    /\ interrupted' = TRUE
    /\ Ends(q)
    /\ UNCHANGED <<task, archived, timer, plan, clock, calls>>

Tick ==
    /\ clock < MaxTime
    /\ clock' = clock + 1
    /\ UNCHANGED <<task, archived, timer, plan, req, interrupted, calls>>

Handle(q) ==
    \/ Report(q) \/ ChatReport(q) \/ Look(q) \/ Apply(q) \/ Heartbeat(q) \/ HeartbeatApply(q)
    \/ StartWork(q) \/ StartCommit(q) \/ Archive(q) \/ Restore(q) \/ Rebuild(q) \/ Interrupt(q)
    \/ \E t \in Tasks : Ignore(q, t) \/ Unignore(q, t) \/ Import(q, t)
Next == (\E q \in Requests : Handle(q)) \/ (\E t \in Tasks : StopWork(t)) \/ Tick
Spec == Init /\ [][Next]_progressVars

-----------------------------------------------------------------------------

TypeOK ==
    /\ \A t \in Tasks : /\ task[t].rev \in 0 .. MaxCalls /\ task[t].percent \in Percents
                        /\ task[t].at \in Never .. MaxTime /\ task[t].reported \in Never .. MaxTime
    /\ timer.task \in Tasks \cup {NoTask} /\ timer.since \in 0 .. MaxTime
    /\ plan \subseteq Tasks
    /\ \A q \in Requests : req[q].phase \in {"idle", "loaded", "looked", "start", "rebuild"}

\* However the requests interleave, each change of a task's progress moves its revision on
\* by one: no command given on an older state overwrites a change it has not seen, which
\* is what the revision a client sends back relies on.
ProgressIsFenced ==
    [][\A t \in Tasks :
         <<task[t].done, task[t].percent, task[t].at>>'
             # <<task[t].done, task[t].percent, task[t].at>>
         => task'[t].rev = task[t].rev + 1]_progressVars

\* When no request stands between its commit and its rebuild, the newest plan is made of
\* exactly the tasks that are still to do, unless a rebuild was interrupted and none followed.
PlanFollowsTasks ==
    (~interrupted /\ \A q \in Requests : req[q].phase # "rebuild")
        => plan = {t \in Tasks : Open(t)}

\* A completed task has no running timer ("Reopen completed work before starting a timer").
DoneHasNoTimer == \A t \in Tasks : task[t].done => timer.task # t

=============================================================================
