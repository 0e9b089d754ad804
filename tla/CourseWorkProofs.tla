-------------------------- MODULE CourseWorkProofs --------------------------
(***************************************************************************)
(* What MCCourseWork checks of the components that make something of what  *)
(* was synchronised, for every instance of each: the progress of tasks and *)
(* the plan, the evidence that sources give, the copy of a Google          *)
(* calendar.  The sync itself is in SyncEngineProofs.                      *)
(***************************************************************************)
EXTENDS MCCourseWork, TLAPS

-----------------------------------------------------------------------------
(* Progress and the plan.  What matters of a request is the task it is     *)
(* about, and that one that stands before the rebuild shows it.            *)

Loads == [rev : Int, done : BOOLEAN, submitted : BOOLEAN]
Tracked == [done : BOOLEAN, rev : Int, percent : Int, at : Int, reported : Int,
            ignored : BOOLEAN, submitted : BOOLEAN, terminal : BOOLEAN]

Request(r) ==
    /\ "phase" \in DOMAIN r
    /\ r.phase \in {"loaded", "looked"} =>
         r.task \in Tasks /\ r.seen \in Loads /\ r.percent \in Int /\ r.at \in Int

TaskInv ==
    /\ task \in [Tasks -> Tracked]
    /\ clock \in Int
    /\ DOMAIN req = Requests
    /\ \A q \in Requests : Request(req[q])

Kept == UNCHANGED <<task, archived, plan, interrupted>>
Fenced ==
    \A t \in Tasks :
        <<task[t].done, task[t].percent, task[t].at>>' # <<task[t].done, task[t].percent, task[t].at>>
            => task'[t].rev = task[t].rev + 1

PlanFollows == Progress!PlanFollowsTasks
Goal == TaskInv' /\ PlanFollows' /\ Fenced

LEMMA RequestOnly ==
    ASSUME TaskInv, PlanFollows, Kept, clock' \in Int,
           NEW q \in Requests, NEW r, Request(r), req' = [req EXCEPT ![q] = r],
           req[q].phase # "rebuild"
    PROVE  Goal
<1>1. TaskInv'
  BY DEF TaskInv, Kept
<1>2. PlanFollows'
  <2>1. SUFFICES ASSUME ~interrupted, \A p \in Requests : req'[p].phase # "rebuild"
                 PROVE  plan = {t \in Tasks : Progress!Open(t)}
    BY DEF PlanFollows, Progress!PlanFollowsTasks, Progress!Open, Kept
  <2>2. \A p \in Requests : req[p].phase # "rebuild"
    BY <2>1 DEF TaskInv
  <2> QED
    BY <2>1, <2>2 DEF PlanFollows, Progress!PlanFollowsTasks
<1>3. Fenced
  BY DEF Fenced, Kept
<1> QED
  BY <1>1, <1>2, <1>3 DEF Goal

LEMMA ToRebuild ==
    ASSUME TaskInv, clock' \in Int, task' \in [Tasks -> Tracked], Fenced,
           NEW q \in Requests, NEW r, "phase" \in DOMAIN r, r.phase = "rebuild",
           req' = [req EXCEPT ![q] = r]
    PROVE  Goal
<1>1. TaskInv'
  BY DEF TaskInv, Request
<1>2. req'[q].phase = "rebuild"
  BY DEF TaskInv
<1>3. PlanFollows'
  BY <1>2 DEF PlanFollows, Progress!PlanFollowsTasks
<1> QED
  BY <1>1, <1>3 DEF Goal

LEMMA Tracks ==
    ASSUME NEW s \in [Tasks -> Tracked], NEW t \in Tasks, NEW x \in Tracked
    PROVE  /\ [s EXCEPT ![t] = x] \in [Tasks -> Tracked]
           /\ [s EXCEPT ![t] = x][t] = x
           /\ \A u \in Tasks \ {t} : [s EXCEPT ![t] = x][u] = s[u]
  OBVIOUS

LEMMA PhaseOnly ==
    ASSUME TaskInv, NEW q \in Requests, Progress!Goes(q, "rebuild")
    PROVE  \E r : /\ "phase" \in DOMAIN r /\ r.phase = "rebuild"
                  /\ req' = [req EXCEPT ![q] = r]
<1> DEFINE r == [req[q] EXCEPT !.phase = "rebuild"]
<1>1. "phase" \in DOMAIN r /\ r.phase = "rebuild"
  BY DEF TaskInv, Request
<1>2. req' = [req EXCEPT ![q] = r]
  BY DEF Progress!Goes
<1> QED
  BY <1>1, <1>2

LEMMA Starts ==
    ASSUME TaskInv, PlanFollows, NEW q \in Requests,
           \/ Progress!Report(q) \/ Progress!ChatReport(q)
           \/ Progress!Heartbeat(q) \/ Progress!StartWork(q)
    PROVE  Goal
<1>1. req[q].phase # "rebuild"
  BY DEF Progress!Report, Progress!ChatReport, Progress!Heartbeat, Progress!StartWork,
         Progress!Takes, Progress!Idle
<1>2. Kept /\ clock' \in Int
  BY DEF Progress!Report, Progress!ChatReport, Progress!Heartbeat, Progress!StartWork, Kept, TaskInv
<1>3. \A t \in Tasks : Progress!Loaded(t) \in Loads
  BY DEF Progress!Loaded, Loads, TaskInv, Tracked
<1>4. \E r : Request(r) /\ req' = [req EXCEPT ![q] = r]
  <2>1. CASE Progress!Report(q)
    <3>1. PICK t \in Tasks, p \in Progress!Percents, e \in {Progress!AnyRevision} \cup 0 .. MaxCalls,
               a \in 0 .. clock, again \in BOOLEAN :
            req' = [req EXCEPT ![q] =
                [phase |-> "loaded", kind |-> "progress", task |-> t, percent |-> p,
                 expected |-> e, at |-> a, reopen |-> again, seen |-> Progress!Loaded(t)]]
      BY <2>1 DEF Progress!Report
    <3>2. Request([phase |-> "loaded", kind |-> "progress", task |-> t, percent |-> p,
                   expected |-> e, at |-> a, reopen |-> again, seen |-> Progress!Loaded(t)])
      BY <1>3 DEF Request, Progress!Percents
    <3> QED
      BY <3>1, <3>2
  <2>2. CASE Progress!ChatReport(q)
    <3>1. PICK t \in Tasks, p \in Progress!Percents :
            req' = [req EXCEPT ![q] =
                [phase |-> "loaded", kind |-> "progress", task |-> t, percent |-> p,
                 expected |-> task[t].rev, at |-> clock, reopen |-> TRUE,
                 seen |-> Progress!Loaded(t)]]
      BY <2>2 DEF Progress!ChatReport
    <3>2. Request([phase |-> "loaded", kind |-> "progress", task |-> t, percent |-> p,
                   expected |-> task[t].rev, at |-> clock, reopen |-> TRUE,
                   seen |-> Progress!Loaded(t)])
      BY <1>3 DEF Request, Progress!Percents, TaskInv
    <3> QED
      BY <3>1, <3>2
  <2>3. CASE Progress!Heartbeat(q)
    <3>1. PICK t \in Tasks, p \in Progress!Percents \cup {Progress!Never},
               a \in 0 .. clock :
            req' = [req EXCEPT ![q] =
                [phase |-> "loaded", kind |-> "heartbeat", task |-> t,
                 percent |-> p, at |-> a, session |-> timer, seen |-> Progress!Loaded(t)]]
      BY <2>3 DEF Progress!Heartbeat
    <3>2. Request([phase |-> "loaded", kind |-> "heartbeat", task |-> t,
                   percent |-> p, at |-> a, session |-> timer, seen |-> Progress!Loaded(t)])
      BY <1>3 DEF Request, Progress!Percents, Progress!Never
    <3> QED
      BY <3>1, <3>2
  <2>4. CASE Progress!StartWork(q)
    BY <2>4 DEF Progress!StartWork, Request
  <2> QED
    BY <2>1, <2>2, <2>3, <2>4
<1> QED
  BY <1>1, <1>2, <1>4, RequestOnly

LEMMA IdleIsRequest == Request(Progress!Idle) /\ Request(Progress!Rebuilding)
  BY DEF Request, Progress!Idle, Progress!Rebuilding

LEMMA Looks ==
    ASSUME TaskInv, PlanFollows, NEW q \in Requests, Progress!Look(q)
    PROVE  Goal
<1>1. Kept /\ clock' \in Int /\ req[q].phase # "rebuild"
  BY DEF Progress!Look, Kept, TaskInv
<1>2. \E r : Request(r) /\ req' = [req EXCEPT ![q] = r]
  <2>1. CASE Progress!Ends(q)
    BY <2>1, IdleIsRequest DEF Progress!Ends
  <2>2. CASE ~Progress!Ends(q)
    <3> DEFINE r == [phase |-> "looked", kind |-> "progress", task |-> req[q].task,
                     percent |-> req[q].percent, at |-> req[q].at, seen |-> req[q].seen,
                     session |-> IF req[q].percent = 100 /\ timer.task = req[q].task
                                 THEN timer ELSE Progress!NoTimer]
    <3>1. req' = [req EXCEPT ![q] = r]
      BY <2>2 DEF Progress!Look
    <3>2. Request(r)
      BY DEF Progress!Look, TaskInv, Request
    <3> QED
      BY <3>1, <3>2
  <2> QED
    BY <2>1, <2>2
<1> QED
  BY <1>1, <1>2, RequestOnly

LEMMA Ending ==
    ASSUME TaskInv, PlanFollows, Kept, clock' \in Int, NEW q \in Requests,
           Progress!Ends(q), req[q].phase # "rebuild"
    PROVE  Goal
  BY IdleIsRequest, RequestOnly DEF Progress!Ends

\* A claim that holds moves the revision on by one.
LEMMA Advances ==
    ASSUME TaskInv, NEW q \in Requests, req[q].phase \in {"loaded", "looked"},
           Progress!Claims(req[q].task, req[q].seen)
    PROVE  /\ Progress!Progressed(req[q].task, req[q]) \in Tracked
           /\ Progress!Progressed(req[q].task, req[q]).rev = task[req[q].task].rev + 1
<1> DEFINE r == req[q]
<1>1. r.task \in Tasks /\ r.seen \in Loads /\ r.percent \in Int /\ r.at \in Int
  BY DEF TaskInv, Request
<1>2. task[r.task] \in Tracked /\ r.seen.rev \in Int
  BY <1>1 DEF TaskInv, Loads
<1> HIDE DEF r
<1>3. Progress!Progressed(r.task, r) \in Tracked /\ Progress!Progressed(r.task, r).rev = r.seen.rev + 1
  <2> DEFINE x == task[r.task]
             d == r.percent = 100
             n == r.seen.rev + 1
             y == Progress!Progressed(r.task, r)
             s == IF r.percent < 100 THEN Progress!Never ELSE x.reported
             e == IF r.seen.submitted THEN x.terminal ELSE FALSE
  <2>1. x \in Tracked /\ x.reported \in Int /\ x.terminal \in BOOLEAN
    BY <1>2 DEF Tracked
  <2>2. y =
          [x EXCEPT !.done = d, !.rev = n, !.percent = r.percent,
                    !.at = r.at, !.reported = s, !.terminal = e]
    BY DEF Progress!Progressed
  <2>3. d \in BOOLEAN /\ n \in Int
    BY <1>2
  <2> HIDE DEF x
  <2>4. s \in Int
    BY <2>1 DEF Progress!Never
  <2>5. e \in BOOLEAN
    BY <2>1, Zenon
  <2> HIDE DEF s, e, d, n, y
  <2>6. y \in Tracked /\ y.rev = n
    <3>1. /\ x \in Tracked /\ d \in BOOLEAN /\ n \in Int /\ r.percent \in Int /\ r.at \in Int
          /\ s \in Int /\ e \in BOOLEAN
      BY <1>1, <2>1, <2>3, <2>4, <2>5
    <3> QED
      BY <2>2, <3>1 DEF Tracked
  <2> QED
    BY <2>6 DEF n, y
<1>4. r.seen.rev = task[r.task].rev
  BY DEF Progress!Claims, r
<1> QED
  BY <1>3, <1>4 DEF r

LEMMA Applies ==
    ASSUME TaskInv, PlanFollows, NEW q \in Requests, Progress!Apply(q)
    PROVE  Goal
<1>1. clock' \in Int /\ req[q].phase = "looked"
  BY DEF Progress!Apply, TaskInv
<1>2. CASE Progress!Claims(req[q].task, req[q].seen)
  <2> DEFINE t == req[q].task
             x == Progress!Progressed(t, req[q])
  <2>1. x \in Tracked /\ x.rev = task[t].rev + 1 /\ t \in Tasks
    BY <1>1, <1>2, Advances DEF TaskInv, Request
  <2>2. task' = [task EXCEPT ![t] = x] /\ Progress!Goes(q, "rebuild")
    BY <1>2 DEF Progress!Apply
  <2> HIDE DEF x, t
  <2>3. task' \in [Tasks -> Tracked] /\ task'[t] = x /\ \A u \in Tasks \ {t} : task'[u] = task[u]
    BY <2>1, <2>2, Tracks DEF TaskInv
  <2>4. Fenced
    BY <2>1, <2>3 DEF Fenced
  <2> QED
    BY <1>1, <2>2, <2>3, <2>4, PhaseOnly, ToRebuild
<1>3. CASE ~Progress!Claims(req[q].task, req[q].seen)
  <2>1. Kept /\ Progress!Ends(q)
    BY <1>3 DEF Progress!Apply, Kept
  <2> QED
    BY <1>1, <2>1, Ending
<1> QED
  BY <1>2, <1>3

LEMMA Beats ==
    ASSUME TaskInv, PlanFollows, NEW q \in Requests, Progress!HeartbeatApply(q)
    PROVE  Goal
<1> DEFINE t == req[q].task
           x == Progress!Progressed(t, req[q])
           y == [x EXCEPT !.reported = req[q].at]
           z == [task[t] EXCEPT !.reported = req[q].at]
<1>1. clock' \in Int /\ req[q].phase = "loaded" /\ archived' = archived /\ plan' = plan
      /\ interrupted' = interrupted
  BY DEF Progress!HeartbeatApply, TaskInv
<1>2. t \in Tasks /\ req[q].at \in Int /\ task[t] \in Tracked
  BY <1>1 DEF TaskInv, Request
<1>3. CASE Progress!Ends(q) /\ task' = task
  BY <1>1, <1>3, Ending DEF Kept
<1>4. CASE /\ Progress!Claims(t, req[q].seen) /\ task' = [task EXCEPT ![t] = y]
           /\ Progress!Goes(q, "rebuild")
  <2>1. x \in Tracked /\ x.rev = task[t].rev + 1
    BY <1>1, <1>4, Advances
  <2>2. y \in Tracked /\ y.rev = task[t].rev + 1
    <3> HIDE DEF x
    <3> QED
      BY <1>2, <2>1 DEF Tracked
  <2> HIDE DEF x, y, t
  <2>3. task' \in [Tasks -> Tracked] /\ task'[t] = y /\ \A u \in Tasks \ {t} : task'[u] = task[u]
    BY <1>2, <1>4, <2>2, Tracks DEF TaskInv
  <2>4. Fenced
    BY <2>2, <2>3 DEF Fenced
  <2> QED
    BY <1>1, <1>4, <2>3, <2>4, PhaseOnly, ToRebuild
<1>5. CASE task' = [task EXCEPT ![t].reported = req[q].at] /\ Progress!Ends(q)
  <2>1. task' = [task EXCEPT ![t] = z]
    BY <1>5
  <2>2. /\ z \in Tracked
        /\ z.done = task[t].done /\ z.ignored = task[t].ignored /\ z.terminal = task[t].terminal
        /\ z.percent = task[t].percent /\ z.at = task[t].at
    BY <1>2 DEF Tracked
  <2> HIDE DEF z, t
  <2>3. task' \in [Tasks -> Tracked] /\ task'[t] = z /\ \A u \in Tasks \ {t} : task'[u] = task[u]
    BY <1>2, <2>1, <2>2, Tracks DEF TaskInv
  <2>4. Fenced
    BY <2>2, <2>3 DEF Fenced
  <2>5. req' = [req EXCEPT ![q] = Progress!Idle]
    BY <1>5 DEF Progress!Ends
  <2>6. TaskInv'
    BY <1>1, <2>3, <2>5, IdleIsRequest DEF TaskInv
  <2>7. PlanFollows'
    <3>1. SUFFICES ASSUME ~interrupted, \A p \in Requests : req'[p].phase # "rebuild"
                   PROVE  plan = {u \in Tasks : Progress!Open(u)'}
      BY <1>1 DEF PlanFollows, Progress!PlanFollowsTasks
    <3>2. \A p \in Requests : req[p].phase # "rebuild"
      BY <1>1, <2>5, <3>1 DEF TaskInv
    <3>3. \A u \in Tasks : Progress!Open(u)' = Progress!Open(u)
      BY <1>1, <2>2, <2>3 DEF Progress!Open
    <3> QED
      BY <3>1, <3>2, <3>3 DEF PlanFollows, Progress!PlanFollowsTasks
  <2> QED
    BY <2>4, <2>6, <2>7 DEF Goal
<1> QED
  BY <1>3, <1>4, <1>5 DEF Progress!HeartbeatApply

LEMMA Changes ==
    ASSUME TaskInv, PlanFollows, NEW q \in Requests,
           \/ Progress!Archive(q) \/ Progress!Restore(q)
           \/ \E t \in Tasks : Progress!Ignore(q, t) \/ Progress!Unignore(q, t) \/ Progress!Import(q, t)
    PROVE  Goal
<1>1. clock' \in Int /\ req' = [req EXCEPT ![q] = Progress!Rebuilding]
  BY DEF Progress!Archive, Progress!Restore, Progress!Ignore, Progress!Unignore, Progress!Import,
         TaskInv
<1>2. "phase" \in DOMAIN Progress!Rebuilding /\ Progress!Rebuilding.phase = "rebuild"
  BY DEF Progress!Rebuilding
<1>3. task' \in [Tasks -> Tracked] /\ Fenced
  <2>1. CASE task' = task
    BY <2>1 DEF TaskInv, Fenced
  <2>2. ASSUME NEW t \in Tasks, NEW b \in BOOLEAN, task' = [task EXCEPT ![t].ignored = b]
        PROVE  task' \in [Tasks -> Tracked] /\ Fenced
    <3> DEFINE x == [task[t] EXCEPT !.ignored = b]
    <3>1. task' = [task EXCEPT ![t] = x] /\ task[t] \in Tracked
      BY <2>2 DEF TaskInv
    <3>2. x \in Tracked /\ x.done = task[t].done /\ x.percent = task[t].percent /\ x.at = task[t].at
      BY <3>1 DEF Tracked
    <3> HIDE DEF x
    <3>3. task' \in [Tasks -> Tracked] /\ task'[t] = x /\ \A u \in Tasks \ {t} : task'[u] = task[u]
      BY <3>1, <3>2, Tracks DEF TaskInv
    <3> QED
      BY <3>2, <3>3 DEF Fenced
  <2>3. ASSUME NEW t \in Tasks, task' = [task EXCEPT ![t].submitted = TRUE, ![t].terminal = TRUE]
        PROVE  task' \in [Tasks -> Tracked] /\ Fenced
    <3> DEFINE x == [task[t] EXCEPT !.submitted = TRUE, !.terminal = TRUE]
    <3>1. task' = [task EXCEPT ![t] = x] /\ task[t] \in Tracked
      BY <2>3 DEF TaskInv
    <3>2. x \in Tracked /\ x.done = task[t].done /\ x.percent = task[t].percent /\ x.at = task[t].at
      BY <3>1 DEF Tracked
    <3> HIDE DEF x
    <3>3. task' \in [Tasks -> Tracked] /\ task'[t] = x /\ \A u \in Tasks \ {t} : task'[u] = task[u]
      BY <3>1, <3>2, Tracks DEF TaskInv
    <3> QED
      BY <3>2, <3>3 DEF Fenced
  <2> QED
    BY <2>1, <2>2, <2>3 DEF Progress!Archive, Progress!Restore, Progress!Ignore, Progress!Unignore,
       Progress!Import
<1> QED
  BY <1>1, <1>2, <1>3, ToRebuild

LEMMA Rebuilds ==
    ASSUME TaskInv, PlanFollows, NEW q \in Requests, Progress!Rebuild(q) \/ Progress!Interrupt(q)
    PROVE  Goal
<1>1. TaskInv'
  BY IdleIsRequest DEF Progress!Rebuild, Progress!Interrupt, Progress!Ends, TaskInv
<1>2. Fenced
  BY DEF Progress!Rebuild, Progress!Interrupt, Fenced
<1>3. PlanFollows'
  BY DEF Progress!Rebuild, Progress!Interrupt, PlanFollows, Progress!PlanFollowsTasks, Progress!Open
<1> QED
  BY <1>1, <1>2, <1>3 DEF Goal

LEMMA ProgressStep ==
    ASSUME TaskInv, PlanFollows, [Progress!Next]_(Progress!progressVars)
    PROVE  Goal
<1>1. CASE UNCHANGED <<task, archived, plan, req, interrupted>> /\ clock' \in Int
  BY <1>1 DEF Goal, TaskInv, PlanFollows, Progress!PlanFollowsTasks, Progress!Open, Fenced
<1>2. ASSUME NEW q \in Requests, Progress!Handle(q)
      PROVE  Goal
  <2>1. CASE Progress!StartCommit(q)
    BY <2>1, Ending DEF Progress!StartCommit, Kept, TaskInv
  <2> QED
    BY <1>2, <2>1, Starts, Looks, Applies, Beats, Changes, Rebuilds DEF Progress!Handle
<1>3. CASE \E t \in Tasks : Progress!StopWork(t)
  BY <1>1, <1>3 DEF Progress!StopWork, TaskInv
<1>4. CASE Progress!Tick
  BY <1>1, <1>4 DEF Progress!Tick, TaskInv
<1>5. CASE UNCHANGED Progress!progressVars
  BY <1>1, <1>5 DEF Progress!progressVars, TaskInv
<1> QED
  BY <1>2, <1>3, <1>4, <1>5 DEF Progress!Next

LEMMA ProgressInit ==
    ASSUME Progress!Init
    PROVE  TaskInv /\ PlanFollows
<1>1. TaskInv
  BY IdleIsRequest DEF Progress!Init, Progress!Untouched, Progress!Never, TaskInv, Tracked
<1>2. PlanFollows
  BY DEF Progress!Init, Progress!Untouched, PlanFollows, Progress!PlanFollowsTasks, Progress!Open
<1> QED
  BY <1>1, <1>2

(* The newest plan is made of the tasks that are still to do, however many  *)
(* requests change them and rebuild it at a time (services/planner.py).     *)
THEOREM PlanIsNeverStale == Progress!Spec => []PlanFollowsTasks
<1>1. TaskInv /\ PlanFollows /\ [Progress!Next]_(Progress!progressVars) => TaskInv' /\ PlanFollows'
  BY ProgressStep DEF Goal
<1>2. PlanFollows => PlanFollowsTasks
  BY DEF PlanFollows, PlanFollowsTasks
<1> QED
  BY <1>1, <1>2, ProgressInit, PTL DEF Progress!Spec

(* No report overwrites progress that it has not seen: the conditional      *)
(* UPDATE of services/completion.py is what every change goes through.      *)
THEOREM ReportsAreFenced == Progress!Spec => ProgressIsFenced
<1>1. TaskInv /\ PlanFollows /\ [Progress!Next]_(Progress!progressVars) => TaskInv' /\ PlanFollows'
  BY ProgressStep DEF Goal
<1>2. TaskInv /\ PlanFollows /\ [Progress!Next]_(Progress!progressVars)
        => [Fenced]_(Progress!progressVars)
  BY ProgressStep DEF Goal
<1>3. ProgressIsFenced <=> [][Fenced]_(Progress!progressVars)
  BY DEF ProgressIsFenced, Progress!ProgressIsFenced, Fenced
<1> QED
  BY <1>1, <1>2, <1>3, ProgressInit, PTL DEF Progress!Spec

-----------------------------------------------------------------------------
(* The evidence of several sources.                                        *)

Ranked ==
    /\ deadline \in [Sources -> Dates \union {None}]
    /\ Merging!DeadlineIsBest

Winner(s) == Merging!Best(s) /\ due = deadline[s] /\ dueRank = Rank[s]

LEMMA RankedMeans ==
    ASSUME Ranked
    PROVE  \/ (\A s \in Sources : deadline[s] = None) /\ due = None /\ dueRank = None
           \/ \E s \in Sources : Winner(s)
  BY DEF Ranked, Merging!DeadlineIsBest, Winner

LEMMA WinnerRanks ==
    ASSUME deadline' \in [Sources -> Dates \union {None}], NEW s \in Sources, Winner(s)'
    PROVE  Ranked'
  BY DEF Ranked, Merging!DeadlineIsBest, Winner, Merging!Best

LEMMA TakeRanks ==
    ASSUME Ranked, NEW s \in Sources, NEW d \in Dates, Merging!Take(s, d)
    PROVE  Ranked'
<1>1. deadline' = [deadline EXCEPT ![s] = d] /\ deadline' \in [Sources -> Dates \union {None}]
  BY DEF Merging!Take, Ranked
<1>2. deadline'[s] = d /\ d # None /\ \A t \in Sources \ {s} : deadline'[t] = deadline[t]
  BY <1>1, CourseWorkAssumption DEF Ranked
<1>3. \A t \in Sources : Rank[t] \in Nat
  BY CourseWorkAssumption
<1>4. CASE Merging!Outranks(s)
  <2>1. due' = d /\ dueRank' = Rank[s]
    BY <1>4 DEF Merging!Take
  <2>2. ASSUME NEW t \in Sources, deadline[t] # None
        PROVE  Rank[s] <= Rank[t]
    <3>1. PICK u \in Sources : Winner(u)
      BY <2>2, RankedMeans
    <3>2. Rank[u] <= Rank[t] /\ dueRank = Rank[u] /\ dueRank # None
      BY <1>3, <2>2, <3>1, CourseWorkAssumption DEF Winner, Merging!Best
    <3> QED
      BY <1>3, <1>4, <3>2 DEF Merging!Outranks
  <2>3. Winner(s)'
    <3>1. \A t \in Sources : deadline'[t] # None => Rank[s] <= Rank[t]
      BY <1>2, <1>3, <2>2
    <3> QED
      BY <1>2, <2>1, <3>1 DEF Winner, Merging!Best
  <2> QED
    BY <1>1, <2>3, WinnerRanks
<1>5. CASE ~Merging!Outranks(s)
  <2>1. due' = due /\ dueRank' = dueRank /\ dueRank # None /\ ~(Rank[s] <= dueRank)
    BY <1>5 DEF Merging!Take, Merging!Outranks
  <2>2. PICK u \in Sources : Winner(u)
    BY <2>1, RankedMeans
  <2>3. u # s /\ Rank[u] <= Rank[s]
    BY <1>3, <2>1, <2>2 DEF Winner
  <2>4. Winner(u)'
    <3>1. deadline'[u] = deadline[u] /\ deadline[u] # None
      BY <1>2, <2>2, <2>3 DEF Winner, Merging!Best
    <3>2. \A t \in Sources : deadline'[t] # None => Rank[u] <= Rank[t]
      BY <1>2, <2>2, <2>3 DEF Winner, Merging!Best
    <3> QED
      BY <2>1, <2>2, <3>1, <3>2 DEF Winner, Merging!Best
  <2> QED
    BY <1>1, <2>4, WinnerRanks
<1> QED
  BY <1>4, <1>5

LEMMA WithdrawRanks ==
    ASSUME Ranked, NEW s \in Sources, deadline[s] # None, Merging!Withdraw(s)
    PROVE  Ranked'
<1>1. deadline' = [deadline EXCEPT ![s] = None] /\ deadline' \in [Sources -> Dates \union {None}]
  BY DEF Merging!Withdraw, Ranked
<1>2. deadline'[s] = None /\ \A t \in Sources \ {s} : deadline'[t] = deadline[t]
  BY <1>1 DEF Ranked
<1>3. CASE Merging!Owned(s) /\ Merging!Outranks(s)
  <2>1. Merging!Fallback(s, due', dueRank')
    BY <1>3 DEF Merging!Withdraw
  <2>2. CASE Merging!Alternates(s) = {}
    BY <1>1, <1>2, <2>1, <2>2 DEF Merging!Fallback, Merging!Alternates, Ranked, Merging!DeadlineIsBest
  <2>3. CASE Merging!Alternates(s) # {}
    <3>1. PICK t \in Merging!Alternates(s) :
            /\ \A u \in Merging!Alternates(s) : Rank[t] <= Rank[u]
            /\ due' = deadline[t] /\ dueRank' = Rank[t]
      BY <2>1, <2>3 DEF Merging!Fallback
    <3>2. t \in Sources /\ Winner(t)'
      BY <1>2, <3>1 DEF Merging!Alternates, Winner, Merging!Best
    <3> QED
      BY <1>1, <3>2, WinnerRanks
  <2> QED
    BY <2>2, <2>3
<1>4. CASE ~(Merging!Owned(s) /\ Merging!Outranks(s))
  <2>1. due' = due /\ dueRank' = dueRank
    BY <1>4 DEF Merging!Withdraw
  <2>2. PICK u \in Sources : Winner(u)
    BY RankedMeans
  <2>3. u # s
    <3>1. Rank[s] \in Nat
      BY CourseWorkAssumption
    <3> QED
      BY <1>4, <2>2, <3>1 DEF Winner, Merging!Owned, Merging!Outranks
  <2>4. Winner(u)'
    BY <1>2, <2>1, <2>2, <2>3 DEF Winner, Merging!Best
  <2> QED
    BY <1>1, <2>4, WinnerRanks
<1> QED
  BY <1>3, <1>4

LEMMA SourcesStep ==
    ASSUME Ranked, [Merging!Next]_(Merging!sourceVars)
    PROVE  Ranked' /\ (Merging!HandsBack => Merging!Reported \intersect Merging!Terminal = {})
<1>1. CASE UNCHANGED <<due, dueRank, deadline, submission>>
  BY <1>1 DEF Ranked, Merging!DeadlineIsBest, Merging!Best, Merging!HandsBack
<1>2. ASSUME NEW s \in Sources, Merging!Import(s)
      PROVE  Ranked' /\ (Merging!HandsBack => Merging!Reported \intersect Merging!Terminal = {})
  <2>1. \/ observed.date \in Dates /\ Merging!Take(s, observed.date)
        \/ deadline[s] # None /\ Merging!Withdraw(s)
        \/ UNCHANGED <<due, dueRank, deadline>>
    BY <1>2 DEF Merging!Import
  <2>2. ASSUME UNCHANGED <<due, dueRank, deadline>>
        PROVE  Ranked'
    BY <2>2 DEF Ranked, Merging!DeadlineIsBest, Merging!Best
  <2>3. Ranked'
    BY <2>1, <2>2, TakeRanks, WithdrawRanks
  <2>4. Merging!HandsBack => Merging!Reported \intersect Merging!Terminal = {}
    BY <1>2 DEF Merging!Import, Merging!HandsBack, Merging!Effective, Merging!Terminal
  <2> QED
    BY <2>3, <2>4
<1>3. CASE UNCHANGED Merging!sourceVars
  BY <1>1, <1>3 DEF Merging!sourceVars
<1>4. CASE Merging!Stop \/ \E s \in Sources : Merging!Observe(s) \/ Merging!Disappear(s)
  BY <1>1, <1>4 DEF Merging!Stop, Merging!Observe, Merging!Disappear
<1> QED
  BY <1>2, <1>3, <1>4 DEF Merging!Next

(* The order in which sources report decides nothing: the task's deadline   *)
(* is that of a most authoritative source, and what a provider received     *)
(* stays received (services/task_engine.py).                                *)
THEOREM SourcesAreRanked == Merging!Spec => EvidenceIsRanked
<1>1. Merging!Init => Ranked
  BY DEF Merging!Init, Ranked, Merging!DeadlineIsBest
<1>2. Ranked /\ [Merging!Next]_(Merging!sourceVars) => Ranked'
  BY SourcesStep
<1>3. Ranked /\ [Merging!Next]_(Merging!sourceVars)
        => [Merging!HandsBack => Merging!Reported \intersect Merging!Terminal = {}]_(Merging!sourceVars)
  BY SourcesStep
<1>4. Ranked => Merging!DeadlineIsBest
  BY DEF Ranked
<1> QED
  BY <1>1, <1>2, <1>3, <1>4, PTL
     DEF Merging!Spec, EvidenceIsRanked, Merging!EvidenceIsRanked, Merging!HandedInStays

-----------------------------------------------------------------------------
(* The copy of a Google calendar.                                          *)

Vals == Values \union {None}
Times == Nat \union {None}
States == {"DISCONNECTED", "CONNECTING", "ERROR", "AUTH_REQUIRED", "DEGRADED", "ACTIVE"}
Purposes == {"finish", "sync", "refresh", "select"}
Grants == [state : States, token : BOOLEAN]

\* What an actor holds between two of its steps.
Asks == [step : {"exchange", "token", "list"}, for : Purposes, conn : Grants, alone : BOOLEAN]
Fetches == [step : {"fetch"}, conn : Grants, alone : BOOLEAN, cursor : Times, base : Times]
Answers == [step : {"answered"}, conn : Grants, alone : BOOLEAN, cursor : Times, full : BOOLEAN,
            next : Nat, items : UNION {[S -> Vals] : S \in SUBSET Entries}]
Commits == [step : {"commit"}, conn : Grants, alone : BOOLEAN, cursor : Times, full : BOOLEAN,
            next : Nat, loaded : [Entries -> Vals], wanted : [Entries -> Vals]]
Works == {Google!Idle} \union Asks \union Fetches \union Answers \union Commits

ConnRow == [state : States, token : BOOLEAN, attempt : Nat \union {None}]
CalendarRow == [present : BOOLEAN, selected : BOOLEAN, cursor : Times]

CalendarTypes ==
    /\ remote \in [Entries -> Vals] /\ copy \in [Entries -> Vals]
    /\ changed \in [Entries -> 0 .. MaxRevision]
    /\ conn \in ConnRow /\ row \in CalendarRow
    /\ work \in [Actors -> Works]
    /\ begun \in Nat

\* The revision is that of the last change, and no token is of a later one.
Latest == \E m \in Entries : \A e \in Entries : changed[e] <= changed[m]
NotAfter(n) == n = None \/ \E e \in Entries : n <= changed[e]

\* An answer has what Google has, but for what changed since.  What an incremental answer
\* does not have did not change between the two tokens.
Untouched(w, e) == w.cursor # None /\ (changed[e] <= w.cursor \/ changed[e] > w.next)
AnswerFits(w) ==
    /\ NotAfter(w.next)
    /\ \A e \in Entries :
        /\ e \in DOMAIN w.items => (w.items[e] # remote[e] => changed[e] > w.next)
        /\ e \notin DOMAIN w.items /\ w.full => (remote[e] # None => changed[e] > w.next)
        /\ e \notin DOMAIN w.items /\ ~w.full => Untouched(w, e)
CommitFits(w) ==
    /\ NotAfter(w.next)
    /\ \A e \in Entries :
        \/ w.wanted[e] # remote[e] => changed[e] > w.next
        \/ ~w.full /\ w.wanted[e] = w.loaded[e] /\ Untouched(w, e)

\* Who was not overlapped has the row's token, and has loaded the copy as it is.
Fits(w) ==
    /\ w.step = "fetch" => w.base \in {None, w.cursor}
    /\ w.step = "answered" => AnswerFits(w)
    /\ w.step = "commit" => CommitFits(w)
    /\ w.step \in {"fetch", "answered", "commit"} /\ w.alone => w.cursor = row.cursor
    /\ w.step = "commit" /\ w.alone => w.loaded = copy

CatchesUp == Google!CopyCatchesUp
CalendarInv ==
    /\ CalendarTypes
    /\ Latest
    /\ NotAfter(row.cursor)
    /\ \A a \in Actors : Fits(work[a])
    /\ CatchesUp

LEMMA StepsOfWorks ==
    ASSUME NEW w \in Works
    PROVE  /\ w.step \in {"exchange", "token", "list"} => w \in Asks
           /\ w.step = "fetch" => w \in Fetches
           /\ w.step = "answered" => w \in Answers
           /\ w.step = "commit" => w \in Commits
           /\ w.step \notin {"exchange", "token", "list", "fetch", "answered", "commit"} =>
                w = Google!Idle
<1>1. CASE w = Google!Idle
  BY <1>1 DEF Google!Idle
<1>2. CASE w \in Asks
  BY <1>2 DEF Asks
<1>3. CASE w \in Fetches
  BY <1>3 DEF Fetches
<1>4. CASE w \in Answers
  BY <1>4 DEF Answers
<1>5. CASE w \in Commits
  BY <1>5 DEF Commits
<1> QED
  BY <1>1, <1>2, <1>3, <1>4, <1>5 DEF Works

\* What an actor holds after another has written.
Late(w) == IF w = Google!Idle THEN Google!Idle ELSE [w EXCEPT !.alone = FALSE]

LEMMA LateIsWork ==
    ASSUME NEW w \in Works
    PROVE  /\ Late(w) \in Works /\ Late(w).step = w.step
           /\ w # Google!Idle => ~Late(w).alone
           /\ w \in Fetches => Late(w).base = w.base /\ Late(w).cursor = w.cursor
           /\ w \in Answers => /\ Late(w).items = w.items /\ Late(w).cursor = w.cursor
                               /\ Late(w).full = w.full /\ Late(w).next = w.next
           /\ w \in Commits => /\ Late(w).loaded = w.loaded /\ Late(w).wanted = w.wanted
                               /\ Late(w).cursor = w.cursor
                               /\ Late(w).full = w.full /\ Late(w).next = w.next
<1>1. CASE w = Google!Idle
  <2>1. w \notin Fetches /\ w \notin Answers /\ w \notin Commits
    BY <1>1 DEF Google!Idle, Fetches, Answers, Commits
  <2> QED
    BY <1>1, <2>1 DEF Late, Works
<1>2. CASE w \in Asks
  <2>1. w # Google!Idle /\ w \notin Fetches /\ w \notin Answers /\ w \notin Commits
    BY <1>2 DEF Google!Idle, Asks, Fetches, Answers, Commits
  <2>2. Late(w) = [w EXCEPT !.alone = FALSE]
    BY <2>1 DEF Late
  <2>3. Late(w) \in Asks /\ Late(w).step = w.step /\ ~Late(w).alone
    BY <1>2, <2>2 DEF Asks
  <2> QED
    BY <2>1, <2>3 DEF Works
<1>3. CASE w \in Fetches
  <2>1. w # Google!Idle /\ w \notin Answers /\ w \notin Commits
    BY <1>3 DEF Google!Idle, Fetches, Answers, Commits
  <2>2. Late(w) = [w EXCEPT !.alone = FALSE]
    BY <2>1 DEF Late
  <2>3. /\ Late(w) \in Fetches /\ Late(w).step = w.step /\ ~Late(w).alone
        /\ Late(w).base = w.base /\ Late(w).cursor = w.cursor
    BY <1>3, <2>2 DEF Fetches
  <2> QED
    BY <2>1, <2>3 DEF Works
<1>4. CASE w \in Answers
  <2>1. w # Google!Idle /\ w \notin Fetches /\ w \notin Commits
    BY <1>4 DEF Google!Idle, Fetches, Answers, Commits
  <2>2. Late(w) = [w EXCEPT !.alone = FALSE]
    BY <2>1 DEF Late
  <2>3. /\ Late(w) \in Answers /\ Late(w).step = w.step /\ ~Late(w).alone
        /\ Late(w).items = w.items /\ Late(w).cursor = w.cursor
        /\ Late(w).full = w.full /\ Late(w).next = w.next
    BY <1>4, <2>2 DEF Answers
  <2> QED
    BY <2>1, <2>3 DEF Works
<1>5. CASE w \in Commits
  <2>1. w # Google!Idle /\ w \notin Fetches /\ w \notin Answers
    BY <1>5 DEF Google!Idle, Fetches, Answers, Commits
  <2>2. Late(w) = [w EXCEPT !.alone = FALSE]
    BY <2>1 DEF Late
  <2>3. /\ Late(w) \in Commits /\ Late(w).step = w.step /\ ~Late(w).alone
        /\ Late(w).loaded = w.loaded /\ Late(w).wanted = w.wanted /\ Late(w).cursor = w.cursor
        /\ Late(w).full = w.full /\ Late(w).next = w.next
    BY <1>5, <2>2 DEF Commits
  <2> QED
    BY <2>1, <2>3 DEF Works
<1> QED
  BY <1>1, <1>2, <1>3, <1>4, <1>5 DEF Works

LEMMA LateFits ==
    ASSUME NEW w \in Works, Fits(w), UNCHANGED <<remote, changed>>
    PROVE  Late(w) \in Works /\ Fits(Late(w))'
<1> DEFINE x == Late(w)
<1>1. x \in Works /\ x.step = w.step
  BY LateIsWork
<1>2. x.step = "fetch" => x.base \in {None, x.cursor}
  BY <1>1, LateIsWork, StepsOfWorks DEF Fits
<1>3. x.step = "answered" => AnswerFits(x)'
  <2>1. SUFFICES ASSUME x.step = "answered" PROVE AnswerFits(x)'
    OBVIOUS
  <2>2. /\ AnswerFits(w)
        /\ x.items = w.items /\ x.cursor = w.cursor /\ x.full = w.full /\ x.next = w.next
    BY <1>1, <2>1, LateIsWork, StepsOfWorks DEF Fits
  <2> HIDE DEF x
  <2> QED
    BY <2>2 DEF AnswerFits, NotAfter, Untouched
<1>4. x.step = "commit" => CommitFits(x)'
  <2>1. SUFFICES ASSUME x.step = "commit" PROVE CommitFits(x)'
    OBVIOUS
  <2>2. /\ CommitFits(w) /\ x.loaded = w.loaded /\ x.wanted = w.wanted
        /\ x.cursor = w.cursor /\ x.full = w.full /\ x.next = w.next
    BY <1>1, <2>1, LateIsWork, StepsOfWorks DEF Fits
  <2> HIDE DEF x
  <2> QED
    BY <2>2 DEF CommitFits, NotAfter, Untouched
<1>5. x.step \in {"fetch", "answered", "commit"} => ~x.alone
  <2>1. x.step \in {"fetch", "answered", "commit"} => w # Google!Idle
    BY <1>1 DEF Google!Idle
  <2> QED
    BY <2>1, LateIsWork
<1> HIDE DEF x
<1>6. Fits(x)'
  BY <1>2, <1>3, <1>4, <1>5 DEF Fits
<1> QED
  BY <1>1, <1>6 DEF x

LEMMA LatestRevision ==
    ASSUME changed \in [Entries -> 0 .. MaxRevision], Latest
    PROVE  /\ Google!Revision \in 0 .. MaxRevision
           /\ \E e \in Entries : changed[e] = Google!Revision
           /\ \A e \in Entries : changed[e] <= Google!Revision
<1>1. PICK m \in Entries : \A e \in Entries : changed[e] <= changed[m]
  BY DEF Latest
<1>2. changed[m] \in 0 .. MaxRevision
  BY <1>1
<1>3. \E r \in 0 .. MaxRevision :
        (\E e \in Entries : changed[e] = r) /\ \A e \in Entries : changed[e] <= r
  BY <1>1, <1>2
<1> QED
  BY <1>3 DEF Google!Revision

\* An actor goes on, and writes neither the calendar nor its events.
LEMMA GoesOn ==
    ASSUME CalendarInv, UNCHANGED <<remote, changed, row, copy, repaired>>,
           conn' \in ConnRow, begun' \in Nat,
           NEW a \in Actors, NEW x \in Works, Fits(x)', work' = [work EXCEPT ![a] = x]
    PROVE  CalendarInv'
<1>1. CalendarTypes'
  BY DEF CalendarInv, CalendarTypes
<1>2. Latest' /\ NotAfter(row.cursor)' /\ CatchesUp'
  BY DEF CalendarInv, Latest, NotAfter, CatchesUp, Google!CopyCatchesUp
<1>3. ASSUME NEW b \in Actors PROVE Fits(work[b])'
  <2>1. CASE b = a
    BY <2>1 DEF CalendarInv, CalendarTypes
  <2>2. CASE b # a
    <3>1. work'[b] = work[b]
      BY <2>2 DEF CalendarInv, CalendarTypes
    <3>2. Fits(work[b])
      BY DEF CalendarInv
    <3> QED
      BY <3>1, <3>2 DEF Fits, AnswerFits, CommitFits, NotAfter, Untouched
  <2> QED
    BY <2>1, <2>2
<1> QED
  BY <1>1, <1>2, <1>3 DEF CalendarInv

\* An actor writes the calendar or its events.
LEMMA WritesOn ==
    ASSUME CalendarInv, UNCHANGED <<remote, changed>>,
           conn' \in ConnRow, begun' \in Nat, row' \in CalendarRow, copy' \in [Entries -> Vals],
           NotAfter(row'.cursor), CatchesUp',
           NEW a \in Actors, NEW x \in Works, Fits(x)', Google!WritesAndGoes(a, x)
    PROVE  CalendarInv'
<1>1. work' = [b \in Actors |-> IF b = a THEN x ELSE Late(work[b])]
  BY DEF Google!WritesAndGoes, Google!Overlapped, Late
<1>2. \A b \in Actors : work[b] \in Works /\ Fits(work[b])
  BY DEF CalendarInv, CalendarTypes
<1>4. \A b \in Actors : work'[b] \in Works /\ Fits(work[b])'
  <2>1. ASSUME NEW b \in Actors PROVE work'[b] \in Works /\ Fits(work[b])'
    <3>1. CASE b = a
      BY <1>1, <3>1
    <3>2. CASE b # a
      <4>1. PICK w \in Works : w = work[b] /\ Fits(w)
        BY <1>2
      <4>2. Late(w) \in Works /\ Fits(Late(w))'
        BY <4>1, LateFits
      <4>3. work'[b] = Late(w)
        BY <1>1, <3>2, <4>1
      <4> QED
        BY <4>2, <4>3
    <3> QED
      BY <3>1, <3>2
  <2> QED
    BY <2>1
<1>5. CalendarTypes'
  BY <1>1, <1>4 DEF CalendarInv, CalendarTypes
<1>6. Latest' /\ NotAfter(row.cursor)'
  BY DEF CalendarInv, Latest, NotAfter
<1> QED
  BY <1>4, <1>5, <1>6 DEF CalendarInv

LEMMA IdleFits == Google!Idle \in Works /\ Fits(Google!Idle) /\ Fits(Google!Idle)'
<1>1. Google!Idle \in Works /\ Google!Idle.step = "idle"
  BY DEF Works, Google!Idle
<1> QED
  BY <1>1 DEF Fits

LEMMA ConnIsLoaded ==
    ASSUME CalendarInv, NEW a \in Actors, work[a] # Google!Idle
    PROVE  work[a].conn \in Grants
<1>1. work[a] \in Works
  BY DEF CalendarInv, CalendarTypes
<1> QED
  BY <1>1 DEF Works, Asks, Fetches, Answers, Commits

LEMMA ConnIsWritten ==
    ASSUME CalendarInv, NEW a \in Actors, work[a] # Google!Idle, NEW s \in States
    PROVE  /\ Google!Written(work[a], s, work[a].conn.token) \in ConnRow
           /\ Google!Written(work[a], s, FALSE) \in ConnRow
           /\ Google!Written(work[a], s, TRUE) \in ConnRow
<1>1. work[a].conn \in Grants /\ conn \in ConnRow
  BY ConnIsLoaded DEF CalendarInv, CalendarTypes
<1>2. ASSUME NEW b \in BOOLEAN PROVE Google!Written(work[a], s, b) \in ConnRow
  BY <1>1 DEF Google!Written, ConnRow
<1>3. work[a].conn.token \in BOOLEAN
  BY <1>1 DEF Grants
<1> DEFINE b == work[a].conn.token
<1>4. Google!Written(work[a], s, b) \in ConnRow
  BY <1>2, <1>3, Zenon
<1> QED
  BY <1>2, <1>4

LEMMA AttemptEnds ==
    ASSUME NEW c \in ConnRow
    PROVE  [c EXCEPT !.attempt = None] \in ConnRow
  BY DEF ConnRow

\* Something changes in Google.
LEMMA Edits ==
    ASSUME CalendarInv, NEW e \in Entries, NEW v \in Vals, Google!Edit(e, v)
    PROVE  CalendarInv'
<1> DEFINE n == Google!Revision + 1
<1>1. /\ remote' = [remote EXCEPT ![e] = v] /\ changed' = [changed EXCEPT ![e] = n]
      /\ UNCHANGED <<conn, row, copy, work, begun, left, repaired>>
      /\ Google!Revision < MaxRevision
  BY DEF Google!Edit
<1>2. /\ changed \in [Entries -> 0 .. MaxRevision] /\ remote \in [Entries -> Vals]
      /\ work \in [Actors -> Works] /\ row \in CalendarRow
  BY DEF CalendarInv, CalendarTypes
<1>3. Google!Revision \in 0 .. MaxRevision /\ \A x \in Entries : changed[x] <= Google!Revision
  BY <1>2, LatestRevision DEF CalendarInv
<1>4. n \in 0 .. MaxRevision /\ \A x \in Entries : changed[x] < n
  BY <1>1, <1>2, <1>3, CourseWorkAssumption
<1> HIDE DEF n
<1>5. /\ changed' \in [Entries -> 0 .. MaxRevision] /\ remote' \in [Entries -> Vals]
      /\ changed'[e] = n /\ remote'[e] = v
      /\ \A x \in Entries \ {e} : changed'[x] = changed[x] /\ remote'[x] = remote[x]
  BY <1>1, <1>2, <1>4
<1>6. CalendarTypes'
  BY <1>1, <1>5 DEF CalendarInv, CalendarTypes
<1>7. Latest'
  <2>1. \A x \in Entries : changed'[x] <= changed'[e]
    BY <1>2, <1>4, <1>5
  <2> QED
    BY <2>1 DEF Latest
<1>8. ASSUME NEW t \in Times, NotAfter(t), t # None
      PROVE  NotAfter(t)' /\ changed'[e] > t
  BY <1>2, <1>4, <1>5, <1>8 DEF NotAfter, Times
<1>9. NotAfter(row.cursor)'
  <2>1. row.cursor \in Times /\ NotAfter(row.cursor)
    BY <1>2 DEF CalendarInv, CalendarRow
  <2> QED
    BY <1>1, <1>8, <2>1 DEF NotAfter
<1>10. CatchesUp'
  <2>1. SUFFICES ASSUME repaired, row.present, row.cursor # None, NEW x \in Entries,
                        copy[x] # remote'[x]
                 PROVE  changed'[x] > row.cursor
    BY <1>1 DEF CatchesUp, Google!CopyCatchesUp
  <2>2. row.cursor \in Times /\ NotAfter(row.cursor)
    BY <1>2 DEF CalendarInv, CalendarRow
  <2>3. copy[x] # remote[x] => changed[x] > row.cursor
    BY <2>1 DEF CalendarInv, CatchesUp, Google!CopyCatchesUp
  <2> QED
    BY <1>5, <1>8, <2>1, <2>2, <2>3
<1>11. ASSUME NEW w \in Works, Fits(w) PROVE Fits(w)'
  <2>2. w.step = "answered" => AnswerFits(w)'
    <3>1. SUFFICES ASSUME w.step = "answered" PROVE AnswerFits(w)'
      OBVIOUS
    <3>2. w.next \in Nat /\ w.cursor \in Times /\ AnswerFits(w) /\ w.next # None
      BY <1>11, <3>1, StepsOfWorks, CourseWorkAssumption DEF Answers, Fits
    <3>3. NotAfter(w.next)' /\ changed'[e] > w.next
      BY <1>8, <3>2 DEF AnswerFits, Times
    <3>5. ASSUME NEW x \in Entries
          PROVE  /\ x \in DOMAIN w.items => (w.items[x] # remote'[x] => changed'[x] > w.next)
                 /\ x \notin DOMAIN w.items /\ w.full => (remote'[x] # None => changed'[x] > w.next)
                 /\ x \notin DOMAIN w.items /\ ~w.full => Untouched(w, x)'
      <4>1. CASE x = e
        <5>1. ~w.full /\ x \notin DOMAIN w.items => w.cursor # None
          BY <3>2 DEF AnswerFits, Untouched
        <5> QED
          BY <3>3, <4>1, <5>1 DEF Untouched
      <4>2. CASE x # e
        BY <1>5, <3>2, <4>2 DEF AnswerFits, Untouched
      <4> QED
        BY <4>1, <4>2
    <3> QED
      BY <3>3, <3>5 DEF AnswerFits
  <2>3. w.step = "commit" => CommitFits(w)'
    <3>1. SUFFICES ASSUME w.step = "commit" PROVE CommitFits(w)'
      OBVIOUS
    <3>2. w.next \in Nat /\ w.cursor \in Times /\ CommitFits(w) /\ w.next # None
      BY <1>11, <3>1, StepsOfWorks, CourseWorkAssumption DEF Commits, Fits
    <3>3. NotAfter(w.next)' /\ changed'[e] > w.next
      BY <1>8, <3>2 DEF CommitFits, Times
    <3>5. ASSUME NEW x \in Entries
          PROVE  \/ w.wanted[x] # remote'[x] => changed'[x] > w.next
                 \/ ~w.full /\ w.wanted[x] = w.loaded[x] /\ Untouched(w, x)'
      <4>1. CASE x = e
        BY <3>3, <4>1
      <4>2. CASE x # e
        BY <1>5, <3>2, <4>2 DEF CommitFits, Untouched
      <4> QED
        BY <4>1, <4>2
    <3> QED
      BY <3>3, <3>5 DEF CommitFits
  <2> QED
    BY <1>1, <1>11, <2>2, <2>3 DEF Fits
<1>12. ASSUME NEW a \in Actors PROVE Fits(work[a])'
  <2>1. PICK w \in Works : w = work[a] /\ Fits(w)
    BY <1>2 DEF CalendarInv
  <2>2. work'[a] = w
    BY <1>1, <2>1
  <2> QED
    BY <1>11, <2>1, <2>2
<1> QED
  BY <1>6, <1>7, <1>9, <1>10, <1>12 DEF CalendarInv

LEMMA Moves ==
    ASSUME CalendarInv, UNCHANGED <<remote, changed, row, copy, repaired>>,
           conn' \in ConnRow, begun' \in Nat, NEW a \in Actors,
           \E x \in Works : Fits(x) /\ Google!Goes(a, x)
    PROVE  CalendarInv'
<1>1. PICK x \in Works : Fits(x) /\ work' = [work EXCEPT ![a] = x]
  BY DEF Google!Goes
<1>2. Fits(x)'
  BY <1>1 DEF Fits, AnswerFits, CommitFits, NotAfter, Untouched
<1> QED
  BY <1>1, <1>2, GoesOn

\* The steps that only ask, or give up.
LEMMA Asking ==
    ASSUME CalendarInv, NEW a \in Actors,
           \/ Google!Callback(a) \/ Google!ExchangeFails(a)
           \/ \E r \in BOOLEAN : Google!Exchanged(a, r)
           \/ \E for \in {"sync", "refresh", "select"} : Google!Ask(a, for)
           \/ Google!AccessRefused(a) \/ Google!Degrade(a) \/ Google!Abort(a)
    PROVE  CalendarInv'
<1> USE DEF Google!World
<1>1. work[a] \in Works /\ conn \in ConnRow /\ begun \in Nat
  BY DEF CalendarInv, CalendarTypes
<1>2. UNCHANGED <<remote, changed, row, copy, repaired>> /\ begun' \in Nat
  BY <1>1 DEF Google!Callback, Google!ExchangeFails, Google!Exchanged, Google!Ask,
              Google!AccessRefused, Google!Degrade, Google!Abort
<1>3. \A for \in Purposes, step \in {"exchange", "token"} :
        Google!Start(for, step) \in Asks /\ Google!Start(for, step).step = step
  BY <1>1 DEF Google!Start, Google!Loaded, Asks, Grants, ConnRow
<1>4. \A x \in Asks : x \in Works /\ Fits(x)
  BY DEF Asks, Works, Fits
<1>5. CASE Google!Callback(a)
  <2>1. Google!Start("finish", "exchange") \in Works /\ Fits(Google!Start("finish", "exchange"))
    BY <1>3, <1>4 DEF Purposes
  <2>2. conn' \in ConnRow /\ Google!Goes(a, Google!Start("finish", "exchange"))
    BY <1>1, <1>5 DEF Google!Callback
  <2> QED
    BY <1>2, <2>1, <2>2, Moves
<1>6. CASE \E for \in {"sync", "refresh", "select"} : Google!Ask(a, for)
  <2>1. PICK for \in {"sync", "refresh", "select"} : Google!Ask(a, for)
    BY <1>6
  <2>2. Google!Start(for, "token") \in Works /\ Fits(Google!Start(for, "token"))
    BY <1>3, <1>4 DEF Purposes
  <2>3. conn' \in ConnRow /\ Google!Goes(a, Google!Start(for, "token"))
    BY <1>1, <2>1 DEF Google!Ask
  <2> QED
    BY <1>2, <2>2, <2>3, Moves
<1>7. CASE Google!ExchangeFails(a)
  <2>1. work[a] # Google!Idle
    BY <1>7 DEF Google!ExchangeFails, Google!Idle
  <2>2. Google!Written(work[a], "ERROR", work[a].conn.token) \in ConnRow
    BY <2>1, ConnIsWritten DEF States
  <2>3. conn' \in ConnRow /\ Google!Ends(a)
    BY <1>7, <2>2, AttemptEnds DEF Google!ExchangeFails
  <2> QED
    BY <1>2, <2>3, IdleFits, Moves DEF Google!Ends
<1>8. CASE \E r \in BOOLEAN : Google!Exchanged(a, r)
  <2>1. work[a] # Google!Idle /\ work[a].step = "exchange"
    BY <1>8 DEF Google!Exchanged, Google!Idle
  <2>2. CASE Google!Goes(a, [work[a] EXCEPT !.step = "list"]) /\ UNCHANGED conn
    <3>1. work[a] \in Asks
      BY <1>1, <2>1, StepsOfWorks
    <3>2. [work[a] EXCEPT !.step = "list"] \in Asks
      BY <3>1 DEF Asks
    <3> QED
      BY <1>1, <1>2, <1>4, <2>2, <3>2, Moves
  <2>3. CASE /\ conn' = [Google!Written(work[a], "AUTH_REQUIRED", FALSE) EXCEPT !.attempt = None]
             /\ Google!Ends(a)
    <3>1. conn' \in ConnRow
      <4>1. Google!Written(work[a], "AUTH_REQUIRED", FALSE) \in ConnRow
        BY <2>1, ConnIsWritten DEF States
      <4> QED
        BY <2>3, <4>1, AttemptEnds
    <3> QED
      BY <1>2, <2>3, <3>1, IdleFits, Moves DEF Google!Ends
  <2> QED
    BY <1>8, <2>2, <2>3 DEF Google!Exchanged
<1>9. CASE Google!AccessRefused(a)
  <2>1. work[a] # Google!Idle
    BY <1>9 DEF Google!AccessRefused, Google!Idle
  <2>2. \A s \in {"AUTH_REQUIRED", "DEGRADED"} :
          Google!Written(work[a], s, work[a].conn.token) \in ConnRow
    BY <2>1, ConnIsWritten DEF States
  <2>3. conn' \in ConnRow /\ Google!Ends(a)
    BY <1>9, <2>2 DEF Google!AccessRefused
  <2> QED
    BY <1>2, <2>3, IdleFits, Moves DEF Google!Ends
<1>10. CASE Google!Degrade(a) \/ Google!Abort(a)
  <2>1. conn' \in ConnRow /\ Google!Goes(a, Google!Idle)
    BY <1>1, <1>10 DEF Google!Degrade, Google!Abort, Google!Ends, ConnRow, States
  <2> QED
    BY <1>2, <2>1, IdleFits, Moves
<1> QED
  BY <1>5, <1>6, <1>7, <1>8, <1>9, <1>10

LEMMA FetchingFits ==
    ASSUME NEW w \in Asks, NEW r \in CalendarRow
    PROVE  LET x == Google!Fetching(w, r)
           IN  /\ x \in Works /\ x.step = "fetch" /\ x.alone = w.alone
               /\ x.cursor = r.cursor /\ x.base = r.cursor
<1> DEFINE x == Google!Fetching(w, r)
<1>1. w.conn \in Grants /\ w.alone \in BOOLEAN /\ r.cursor \in Times
  BY DEF Asks, CalendarRow
<1>2. x \in Fetches
  BY <1>1 DEF Google!Fetching, Fetches
<1>3. x.step = "fetch" /\ x.alone = w.alone /\ x.cursor = r.cursor /\ x.base = r.cursor
  BY DEF Google!Fetching
<1> QED
  BY <1>2, <1>3 DEF Works

LEMMA Accesses ==
    ASSUME CalendarInv, NEW a \in Actors, Google!Access(a)
    PROVE  CalendarInv'
<1>1. /\ work[a] \in Works /\ conn \in ConnRow /\ begun \in Nat /\ row \in CalendarRow
      /\ work[a].step = "token"
  BY DEF CalendarInv, CalendarTypes, Google!Access
<1>2. work[a] \in Asks /\ work[a] # Google!Idle
  BY <1>1, StepsOfWorks DEF Google!Idle
<1>3. UNCHANGED <<remote, changed, row, copy, repaired>> /\ begun' \in Nat
  BY <1>1 DEF Google!Access, Google!World
<1>4. CASE Google!Goes(a, Google!Fetching(work[a], row)) /\ UNCHANGED conn
  <2> DEFINE x == Google!Fetching(work[a], row)
  <2>1. /\ x \in Works /\ x.step = "fetch" /\ x.cursor = row.cursor /\ x.base = row.cursor
    BY <1>1, <1>2, FetchingFits
  <2> HIDE DEF x
  <2>2. Fits(x)
    BY <2>1 DEF Fits
  <2> QED
    BY <1>1, <1>3, <1>4, <2>1, <2>2, Moves DEF x
<1>5. CASE conn' = Google!Written(work[a], "ACTIVE", work[a].conn.token) /\ Google!Ends(a)
  <2>1. conn' \in ConnRow
    BY <1>2, <1>5, ConnIsWritten DEF States
  <2> QED
    BY <1>3, <1>5, <2>1, IdleFits, Moves DEF Google!Ends
<1>6. CASE Google!Goes(a, [work[a] EXCEPT !.step = "list"]) /\ UNCHANGED conn
  <2> DEFINE x == [work[a] EXCEPT !.step = "list"]
  <2>1. x \in Asks /\ x.step = "list"
    BY <1>2 DEF Asks
  <2> HIDE DEF x
  <2>2. x \in Works /\ Fits(x)
    BY <2>1 DEF Works, Fits
  <2> QED
    BY <1>1, <1>3, <1>6, <2>2, Moves DEF x
<1> QED
  BY <1>4, <1>5, <1>6 DEF Google!Access, Google!SyncRow

LEMMA Gones ==
    ASSUME CalendarInv, NEW a \in Actors, Google!Gone(a)
    PROVE  CalendarInv'
<1> DEFINE x == [work[a] EXCEPT !.base = None]
<1>1. /\ work[a] \in Works /\ conn' \in ConnRow /\ begun' \in Nat /\ work[a].step = "fetch"
      /\ UNCHANGED <<remote, changed, row, copy, repaired>> /\ Google!Goes(a, x)
      /\ Fits(work[a])
  BY DEF CalendarInv, CalendarTypes, Google!Gone, Google!World
<1>2. work[a] \in Fetches
  BY <1>1, StepsOfWorks
<1>3. /\ x \in Fetches /\ x.step = "fetch" /\ x.alone = work[a].alone /\ x.base = None
      /\ x.cursor = work[a].cursor
  BY <1>2 DEF Fetches, Times
<1> HIDE DEF x
<1>4. x \in Works /\ Fits(x)
  BY <1>1, <1>3 DEF Works, Fits
<1> QED
  BY <1>1, <1>4, Moves


\* The steps that only write the connection.
LEMMA ConnOnly ==
    ASSUME CalendarInv,
           Google!Begin \/ Google!RejectCallback \/ Google!Denied \/ Google!Unauthorized
    PROVE  CalendarInv'
<1>1. conn \in ConnRow /\ begun \in Nat
  BY DEF CalendarInv, CalendarTypes
<1>2. UNCHANGED <<remote, changed, row, copy, work, repaired>>
  BY DEF Google!Begin, Google!RejectCallback, Google!Denied, Google!Unauthorized, Google!World
<1>3. conn' \in ConnRow /\ begun' \in Nat
  <2>1. CASE Google!Begin
    <3>1. begun + 1 \in Nat /\ conn' = [conn EXCEPT !.state = "CONNECTING", !.attempt = begun + 1]
          /\ begun' = begun + 1
      BY <1>1, <2>1 DEF Google!Begin
    <3> QED
      BY <1>1, <3>1 DEF ConnRow, States
  <2>2. CASE Google!RejectCallback
    BY <1>1, <2>2 DEF Google!RejectCallback, Google!World, ConnRow, States
  <2>3. CASE Google!Denied
    BY <1>1, <2>3 DEF Google!Denied, Google!World, ConnRow, States
  <2>4. CASE Google!Unauthorized
    BY <1>1, <2>4 DEF Google!Unauthorized, Google!World, ConnRow, States
  <2> QED
    BY <2>1, <2>2, <2>3, <2>4
<1>4. CalendarTypes' /\ Latest' /\ NotAfter(row.cursor)' /\ CatchesUp'
  BY <1>2, <1>3 DEF CalendarInv, CalendarTypes, Latest, NotAfter, CatchesUp, Google!CopyCatchesUp
<1>5. ASSUME NEW b \in Actors PROVE Fits(work[b])'
  <2>1. Fits(work[b])
    BY DEF CalendarInv
  <2> QED
    BY <1>2, <2>1 DEF Fits, AnswerFits, CommitFits, NotAfter, Untouched
<1> QED
  BY <1>4, <1>5 DEF CalendarInv

LEMMA Disconnects ==
    ASSUME CalendarInv, Google!Disconnect
    PROVE  CalendarInv'
<1>1. /\ conn' = [state |-> "DISCONNECTED", token |-> FALSE, attempt |-> None]
      /\ row' = Google!NoRow /\ copy' = [e \in Entries |-> None]
      /\ work' = [b \in Actors |-> Late(work[b])]
      /\ UNCHANGED <<remote, changed, begun, repaired>>
  BY DEF Google!Disconnect, Google!World, Google!Overlapped, Late
<1>2. ~row'.present /\ row'.cursor = None /\ row' \in CalendarRow
  BY <1>1 DEF Google!NoRow, CalendarRow, Times
<1>3. conn' \in ConnRow /\ copy' \in [Entries -> Vals] /\ begun' \in Nat
  BY <1>1 DEF ConnRow, States, Vals, CalendarInv, CalendarTypes
<1>4. ASSUME NEW b \in Actors PROVE work'[b] \in Works /\ Fits(work[b])'
  <2>1. PICK w \in Works : w = work[b] /\ Fits(w)
    BY DEF CalendarInv, CalendarTypes
  <2>2. Late(w) \in Works /\ Fits(Late(w))'
    BY <1>1, <2>1, LateFits
  <2>3. work'[b] = Late(w)
    BY <1>1, <2>1
  <2> QED
    BY <2>2, <2>3
<1>5. CalendarTypes'
  BY <1>1, <1>2, <1>3, <1>4 DEF CalendarInv, CalendarTypes
<1>6. Latest' /\ NotAfter(row.cursor)' /\ CatchesUp'
  BY <1>1, <1>2 DEF CalendarInv, Latest, NotAfter, CatchesUp, Google!CopyCatchesUp
<1> QED
  BY <1>4, <1>5, <1>6 DEF CalendarInv

\* A listed calendar keeps its token, unless it is new or its selection changed.
LEMMA ListedRow ==
    ASSUME CalendarInv, NEW l \in BOOLEAN
    PROVE  LET r == Google!Listed(l)
           IN  r \in CalendarRow /\ (r = row \/ r.cursor = None)
<1>1. row \in CalendarRow
  BY DEF CalendarInv, CalendarTypes
<1>2. Google!NoRow \in CalendarRow /\ Google!NoRow.cursor = None
  BY DEF Google!NoRow, CalendarRow, Times
<1>3. Google!NewRow \in CalendarRow /\ Google!NewRow.cursor = None
  BY DEF Google!NewRow, Google!NoRow, CalendarRow, Times
<1> QED
  BY <1>1, <1>2, <1>3 DEF Google!Listed

LEMMA SelectedRow ==
    ASSUME NEW r \in CalendarRow, NEW want \in BOOLEAN
    PROVE  /\ Google!Selected(r, want) \in CalendarRow
           /\ Google!Selected(r, want) = r \/ Google!Selected(r, want).cursor = None
<1>1. [r EXCEPT !.selected = want, !.cursor = None] \in CalendarRow
  BY DEF CalendarRow, Times
<1>2. [r EXCEPT !.selected = want, !.cursor = None].cursor = None
  BY DEF CalendarRow
<1> QED
  BY <1>1, <1>2 DEF Google!Selected

LEMMA RowWritten ==
    ASSUME CalendarInv, UNCHANGED <<remote, changed, copy, repaired>>,
           row' = row \/ row'.cursor = None
    PROVE  NotAfter(row'.cursor) /\ CatchesUp'
  BY DEF CalendarInv, NotAfter, CatchesUp, Google!CopyCatchesUp

LEMMA ListsCalendars ==
    ASSUME CalendarInv, NEW a \in Actors, NEW l \in BOOLEAN,
           Google!FinishList(a, l) \/ Google!RefreshList(a, l)
    PROVE  CalendarInv'
<1>1. /\ work[a] # Google!Idle /\ row' = Google!Listed(l)
      /\ UNCHANGED <<remote, changed, begun, copy, repaired>>
      /\ Google!WritesAndGoes(a, Google!Idle)
  <2>1. work[a].step = "list"
    BY DEF Google!FinishList, Google!RefreshList
  <2>2. work[a] # Google!Idle
    BY <2>1 DEF Google!Idle
  <2> QED
    BY <2>2 DEF Google!FinishList, Google!RefreshList, Google!World
<1>2. row' \in CalendarRow /\ (row' = row \/ row'.cursor = None)
  BY <1>1, ListedRow
<1>3. conn' \in ConnRow
  <2>1. CASE Google!FinishList(a, l)
    <3>1. Google!Written(work[a], "ACTIVE", TRUE) \in ConnRow
      BY <1>1, ConnIsWritten DEF States
    <3> QED
      BY <2>1, <3>1, AttemptEnds DEF Google!FinishList
  <2>2. CASE Google!RefreshList(a, l)
    <3>1. Google!Written(work[a], "ACTIVE", work[a].conn.token) \in ConnRow
      BY <1>1, ConnIsWritten DEF States
    <3> QED
      BY <2>2, <3>1 DEF Google!RefreshList
  <2> QED
    BY <2>1, <2>2
<1>4. NotAfter(row'.cursor) /\ CatchesUp'
  BY <1>1, <1>2, RowWritten
<1>5. copy' \in [Entries -> Vals] /\ begun' \in Nat
  BY <1>1 DEF CalendarInv, CalendarTypes
<1> QED
  BY <1>1, <1>2, <1>3, <1>4, <1>5, IdleFits, WritesOn

LEMMA SelectsCalendars ==
    ASSUME CalendarInv, NEW a \in Actors, NEW l \in BOOLEAN, NEW want \in BOOLEAN,
           Google!SelectList(a, l, want)
    PROVE  CalendarInv'
<1>1. /\ work[a] # Google!Idle /\ work[a].step = "list"
      /\ row' = Google!Selected(Google!Listed(l), want)
      /\ UNCHANGED <<remote, changed, begun, copy, repaired>>
  <2>1. work[a].step = "list"
    BY DEF Google!SelectList
  <2>2. work[a] # Google!Idle
    BY <2>1 DEF Google!Idle
  <2> QED
    BY <2>1, <2>2 DEF Google!SelectList, Google!World
<1>2. row' \in CalendarRow /\ (row' = row \/ row'.cursor = None)
  BY <1>1, ListedRow, SelectedRow
<1>3. NotAfter(row'.cursor) /\ CatchesUp'
  BY <1>1, <1>2, RowWritten
<1>4. copy' \in [Entries -> Vals] /\ begun' \in Nat /\ conn \in ConnRow
  BY <1>1 DEF CalendarInv, CalendarTypes
<1>5. CASE Google!WritesAndGoes(a, Google!Fetching(work[a], row')) /\ UNCHANGED conn
  <2>1. PICK w \in Works : w = work[a]
    BY DEF CalendarInv, CalendarTypes
  <2>2. w \in Asks
    BY <1>1, <2>1, StepsOfWorks
  <2>3. PICK r \in CalendarRow : r = row'
    BY <1>2
  <2>4. PICK x \in Works : /\ x = Google!Fetching(w, r) /\ x.step = "fetch"
                           /\ x.cursor = r.cursor /\ x.base = r.cursor
    BY <2>2, FetchingFits
  <2>5. Fits(x)'
    BY <2>3, <2>4 DEF Fits
  <2>6. Google!WritesAndGoes(a, x)
    BY <1>5, <2>1, <2>3, <2>4
  <2> QED
    BY <1>1, <1>2, <1>3, <1>4, <1>5, <2>5, <2>6, WritesOn
<1>6. CASE /\ conn' = IF work[a].conn.state = "DISCONNECTED" THEN conn
                      ELSE Google!Written(work[a], "ACTIVE", work[a].conn.token)
           /\ Google!WritesAndGoes(a, Google!Idle)
  <2>1. Google!Written(work[a], "ACTIVE", work[a].conn.token) \in ConnRow
    BY <1>1, ConnIsWritten DEF States
  <2>2. conn' \in ConnRow
    BY <1>4, <1>6, <2>1
  <2> QED
    BY <1>1, <1>2, <1>3, <1>4, <1>6, <2>2, IdleFits, WritesOn
<1> QED
  BY <1>5, <1>6 DEF Google!SelectList

\* What Google answers is as the events are, up to the revision it names.
LEMMA AnswersFit ==
    ASSUME CalendarInv, NEW a \in Actors, Google!Answer(a)
    PROVE  CalendarInv'
<1>1. /\ conn' \in ConnRow /\ begun' \in Nat /\ work[a].step = "fetch"
      /\ UNCHANGED <<remote, changed, row, copy, repaired>>
  BY DEF CalendarInv, CalendarTypes, Google!Answer, Google!World
<1>2. PICK w \in Works : w = work[a] /\ Fits(w)
  BY DEF CalendarInv, CalendarTypes
<1>3. w \in Fetches
  BY <1>1, <1>2, StepsOfWorks
<1>4. /\ w.conn \in Grants /\ w.alone \in BOOLEAN /\ w.cursor \in Times /\ w.base \in {None, w.cursor}
      /\ w.alone => w.cursor = row.cursor
  BY <1>1, <1>2, <1>3 DEF Fetches, Fits
<1>5. remote \in [Entries -> Vals] /\ changed \in [Entries -> 0 .. MaxRevision] /\ Latest
  BY DEF CalendarInv, CalendarTypes
<1>6. PICK n \in 0 .. MaxRevision :
        n = Google!Revision /\ \E e \in Entries : changed[e] = n
  BY <1>5, LatestRevision
<1> DEFINE S == {e \in Entries : IF w.base = None THEN remote[e] # None ELSE changed[e] > w.base}
           i == [e \in S |-> remote[e]]
           f == w.base = None
           x == [step |-> "answered", conn |-> w.conn, alone |-> w.alone, cursor |-> w.cursor,
                 full |-> f, next |-> n, items |-> i]
<1>7. Google!Goes(a, x)
  BY <1>2, <1>6 DEF Google!Answer
<1>8. /\ i \in UNION {[T -> Vals] : T \in SUBSET Entries}
      /\ DOMAIN i = S /\ \A e \in S : i[e] = remote[e]
  <2>1. S \in SUBSET Entries /\ i \in [S -> Vals]
    BY <1>5
  <2> QED
    BY <2>1
<1>9. n \in Nat /\ f \in BOOLEAN
  BY CourseWorkAssumption
<1>10. \A e \in Entries : /\ e \notin S /\ f => remote[e] = None
                          /\ e \notin S /\ ~f => w.cursor # None /\ changed[e] <= w.cursor
  <2>1. ASSUME NEW e \in Entries, e \notin S, ~f PROVE w.cursor # None /\ changed[e] <= w.cursor
    <3>1. w.base = w.cursor /\ w.cursor \in Nat /\ w.base # None
      BY <1>4, <2>1 DEF Times
    <3>2. ~(changed[e] > w.base) /\ changed[e] \in 0 .. MaxRevision
      BY <1>5, <2>1
    <3> QED
      BY <3>1, <3>2, CourseWorkAssumption
  <2> QED
    BY <2>1
<1> HIDE DEF S, i, f
<1>11. /\ x \in Answers /\ x.step = "answered" /\ x.alone = w.alone /\ x.cursor = w.cursor
       /\ x.full = f /\ x.next = n /\ x.items = i
  BY <1>4, <1>8, <1>9 DEF Answers
<1> HIDE DEF x
<1>12. AnswerFits(x)
  BY <1>6, <1>8, <1>10, <1>11 DEF AnswerFits, NotAfter, Untouched
<1>13. x \in Works /\ Fits(x)
  BY <1>4, <1>11, <1>12 DEF Fits, Works
<1> QED
  BY <1>1, <1>7, <1>13, Moves

\* What is loaded of the copy is merged with the answer.
LEMMA UpsertsFit ==
    ASSUME CalendarInv, NEW a \in Actors, Google!Upsert(a)
    PROVE  CalendarInv'
<1>1. /\ conn' \in ConnRow /\ begun' \in Nat /\ work[a].step = "answered"
      /\ UNCHANGED <<remote, changed, row, copy, repaired>>
  BY DEF CalendarInv, CalendarTypes, Google!Upsert, Google!World
<1>2. PICK w \in Works : w = work[a] /\ Fits(w)
  BY DEF CalendarInv, CalendarTypes
<1>3. w \in Answers
  BY <1>1, <1>2, StepsOfWorks
<1>4. /\ w.conn \in Grants /\ w.alone \in BOOLEAN /\ w.cursor \in Times /\ w.full \in BOOLEAN
      /\ w.next \in Nat
      /\ w.alone => w.cursor = row.cursor
  BY <1>1, <1>2, <1>3 DEF Answers, Fits
<1>5. AnswerFits(w) /\ copy \in [Entries -> Vals]
  BY <1>1, <1>2 DEF Fits, CalendarInv, CalendarTypes
<1>6. \A e \in DOMAIN w.items : w.items[e] \in Vals
  BY <1>3 DEF Answers
<1> DEFINE m == [e \in Entries |-> Google!Merged(w, e)]
           x == [step |-> "commit", conn |-> w.conn, alone |-> w.alone, cursor |-> w.cursor,
                 full |-> w.full, next |-> w.next, loaded |-> copy, wanted |-> m]
<1>7. Google!Goes(a, x)
  BY <1>2 DEF Google!Upsert
<1>8. m \in [Entries -> Vals]
  BY <1>5, <1>6 DEF Google!Merged, Vals
<1>9. \A e \in Entries : \/ m[e] # remote[e] => changed[e] > w.next
                         \/ ~w.full /\ m[e] = copy[e] /\ Untouched(w, e)
  BY <1>5 DEF Google!Merged, AnswerFits
<1> HIDE DEF m
<1>10. /\ x \in Commits /\ x.step = "commit" /\ x.alone = w.alone /\ x.cursor = w.cursor
       /\ x.full = w.full /\ x.next = w.next /\ x.loaded = copy /\ x.wanted = m
  BY <1>4, <1>5, <1>8 DEF Commits
<1> HIDE DEF x
<1>11. CommitFits(x)
  BY <1>5, <1>9, <1>10 DEF CommitFits, AnswerFits, NotAfter, Untouched
<1>12. x \in Works /\ Fits(x)
  BY <1>4, <1>10, <1>11 DEF Fits, Works
<1> QED
  BY <1>1, <1>7, <1>12, Moves

LEMMA CommitsFit ==
    ASSUME CalendarInv, NEW a \in Actors, Google!Commit(a)
    PROVE  CalendarInv'
<1>1. work[a].step = "commit" /\ UNCHANGED <<remote, changed, begun>>
  BY DEF Google!Commit, Google!World
<1>2. PICK w \in Works : w = work[a] /\ Fits(w)
  BY DEF CalendarInv, CalendarTypes
<1>3. w \in Commits /\ work[a] # Google!Idle
  <2>1. Google!Idle.step # "commit"
    BY DEF Google!Idle
  <2> QED
    BY <1>1, <1>2, <2>1, StepsOfWorks
<1>4. begun' \in Nat /\ conn \in ConnRow /\ row \in CalendarRow /\ copy \in [Entries -> Vals]
  BY <1>1 DEF CalendarInv, CalendarTypes
<1>5. CASE Google!Conflict(w)
  <2>1. Google!Goes(a, Google!Idle) /\ UNCHANGED <<conn, row, copy, repaired>>
    BY <1>2, <1>5 DEF Google!Commit
  <2> QED
    BY <1>1, <1>4, <2>1, IdleFits, Moves
<1>6. CASE ~Google!Conflict(w)
  <2>1. /\ copy' = [e \in Entries |-> IF e \in Google!Writes(w) THEN w.wanted[e] ELSE copy[e]]
        /\ row' = [row EXCEPT !.cursor = IF w.next # w.cursor THEN w.next ELSE @]
        /\ conn' = Google!Written(w, "ACTIVE", w.conn.token)
        /\ repaired' = (w.alone /\ (w.full \/ repaired))
        /\ Google!WritesAndGoes(a, Google!Idle)
    BY <1>2, <1>6 DEF Google!Commit
  <2>2. /\ w.next \in Nat /\ w.cursor \in Times
        /\ w.loaded \in [Entries -> Vals] /\ w.wanted \in [Entries -> Vals]
    BY <1>3 DEF Commits
  <2>3. /\ CommitFits(w)
        /\ w.alone => w.cursor = row.cursor
        /\ w.alone => w.loaded = copy
    BY <1>1, <1>2 DEF Fits
  <2>4. conn' \in ConnRow
    BY <1>2, <1>3, <2>1, ConnIsWritten DEF States
  <2>5. copy' \in [Entries -> Vals]
    BY <1>4, <2>1, <2>2
  <2>6. /\ row' \in CalendarRow
        /\ row'.cursor = IF w.next # w.cursor THEN w.next ELSE row.cursor
    BY <1>4, <2>1, <2>2 DEF CalendarRow, Times
  <2>7. NotAfter(row'.cursor)
    BY <2>3, <2>6 DEF CommitFits, CalendarInv
  <2>8. CatchesUp'
    <3>1. SUFFICES ASSUME repaired', row'.cursor # None, NEW e \in Entries, copy'[e] # remote[e]
                   PROVE  changed[e] > row'.cursor
      BY <1>1 DEF CatchesUp, Google!CopyCatchesUp
    <3>2. w.alone /\ (w.full \/ repaired)
      BY <2>1, <3>1
    <3>3. w.loaded = copy /\ w.cursor = row.cursor /\ row'.cursor = w.next
      BY <2>3, <2>6, <3>2
    <3>4. copy'[e] = w.wanted[e]
      BY <2>1, <3>3 DEF Google!Writes
    <3>5. CASE w.wanted[e] # remote[e] => changed[e] > w.next
      BY <3>1, <3>3, <3>4, <3>5
    <3>6. CASE ~w.full /\ w.wanted[e] = w.loaded[e] /\ Untouched(w, e)
      <4>1. repaired /\ copy[e] # remote[e] /\ row.cursor # None
        BY <3>1, <3>2, <3>3, <3>4, <3>6 DEF Untouched
      <4>2. row.present
        BY <1>6 DEF Google!Conflict
      <4>3. changed[e] > row.cursor
        BY <4>1, <4>2 DEF CalendarInv, CatchesUp, Google!CopyCatchesUp
      <4>4. changed[e] \in Nat /\ row.cursor \in Nat
        BY <1>4, <4>1, CourseWorkAssumption DEF CalendarInv, CalendarTypes, CalendarRow, Times
      <4> QED
        BY <3>3, <3>6, <4>3, <4>4 DEF Untouched
    <3> QED
      BY <2>3, <3>5, <3>6 DEF CommitFits
  <2> QED
    BY <1>1, <1>4, <2>1, <2>4, <2>5, <2>6, <2>7, <2>8, IdleFits, WritesOn
<1> QED
  BY <1>5, <1>6

LEMMA CalendarInit == Entries # {} /\ Google!Init => CalendarInv
<1> SUFFICES ASSUME Entries # {}, Google!Init PROVE CalendarInv
  OBVIOUS
<1>1. /\ remote = [e \in Entries |-> None] /\ changed = [e \in Entries |-> 0]
      /\ conn = [state |-> "DISCONNECTED", token |-> FALSE, attempt |-> None]
      /\ row = Google!NoRow /\ copy = [e \in Entries |-> None]
      /\ work = [a \in Actors |-> Google!Idle] /\ begun = 0 /\ repaired = FALSE
  BY DEF Google!Init
<1>2. row \in CalendarRow /\ row.cursor = None /\ conn \in ConnRow
  BY <1>1 DEF Google!NoRow, CalendarRow, ConnRow, States, Times
<1>3. CalendarTypes
  BY <1>1, <1>2, IdleFits, CourseWorkAssumption DEF CalendarTypes, Vals
<1>4. Latest /\ NotAfter(row.cursor) /\ CatchesUp
  BY <1>1, <1>2 DEF Latest, NotAfter, CatchesUp, Google!CopyCatchesUp
<1>5. \A a \in Actors : Fits(work[a])
  BY <1>1, IdleFits
<1> QED
  BY <1>3, <1>4, <1>5 DEF CalendarInv

LEMMA CalendarStep == CalendarInv /\ [Google!Next]_(Google!googleVars) => CalendarInv'
<1> SUFFICES ASSUME CalendarInv, [Google!Next]_(Google!googleVars) PROVE CalendarInv'
  OBVIOUS
<1>1. CASE UNCHANGED Google!googleVars
  <2>1. UNCHANGED <<remote, changed, conn, row, copy, work, begun, repaired>>
    BY <1>1 DEF Google!googleVars
  <2>2. CalendarTypes' /\ Latest' /\ NotAfter(row.cursor)' /\ CatchesUp'
    BY <2>1 DEF CalendarInv, CalendarTypes, Latest, NotAfter, CatchesUp, Google!CopyCatchesUp
  <2>3. ASSUME NEW b \in Actors PROVE Fits(work[b])'
    <3>1. Fits(work[b])
      BY DEF CalendarInv
    <3> QED
      BY <2>1, <3>1 DEF Fits, AnswerFits, CommitFits, NotAfter, Untouched
  <2> QED
    BY <2>2, <2>3 DEF CalendarInv
<1>2. ASSUME NEW e \in Entries, NEW v \in Values \union {None}, Google!Edit(e, v) PROVE CalendarInv'
  BY <1>2, Edits DEF Vals
<1>3. CASE Google!Begin \/ Google!RejectCallback \/ Google!Denied \/ Google!Unauthorized
  BY <1>3, ConnOnly
<1>4. CASE Google!Disconnect
  BY <1>4, Disconnects
<1>5. ASSUME NEW a \in Actors, Google!Act(a) PROVE CalendarInv'
  <2>1. CASE \/ Google!Callback(a) \/ Google!ExchangeFails(a)
             \/ \E r \in BOOLEAN : Google!Exchanged(a, r)
             \/ \E for \in {"sync", "refresh", "select"} : Google!Ask(a, for)
             \/ Google!AccessRefused(a) \/ Google!Degrade(a) \/ Google!Abort(a)
    BY <2>1, Asking
  <2>2. CASE Google!Access(a)
    BY <2>2, Accesses
  <2>3. ASSUME NEW l \in BOOLEAN, Google!FinishList(a, l) \/ Google!RefreshList(a, l)
        PROVE  CalendarInv'
    BY <2>3, ListsCalendars
  <2>4. ASSUME NEW l \in BOOLEAN, NEW w \in BOOLEAN, Google!SelectList(a, l, w) PROVE CalendarInv'
    BY <2>4, SelectsCalendars
  <2>5. CASE Google!Gone(a)
    BY <2>5, Gones
  <2>6. CASE Google!Answer(a)
    BY <2>6, AnswersFit
  <2>7. CASE Google!Upsert(a)
    BY <2>7, UpsertsFit
  <2>8. CASE Google!Commit(a)
    BY <2>8, CommitsFit
  <2> QED
    BY <1>5, <2>1, <2>2, <2>3, <2>4, <2>5, <2>6, <2>7, <2>8 DEF Google!Act
<1> QED
  BY <1>1, <1>2, <1>3, <1>4, <1>5 DEF Google!Next

\* After a full sync, and as long as no sync was overlapped, what the copy does not have as
\* Google does has changed since the sync token, whichever calls failed, answered late or found
\* the token expired (_sync_calendar, google_calendar.py:492-544).
THEOREM CopyIsNeverBehind == Google!Spec => []CopyCatchesUp
<1>1. CASE Entries = {}
  <2>1. CopyCatchesUp
    BY <1>1 DEF CopyCatchesUp, Google!CopyCatchesUp
  <2> QED
    BY <2>1, PTL
<1>2. CASE Entries # {}
  <2>1. Google!Init => CalendarInv
    BY <1>2, CalendarInit
  <2>2. CalendarInv => CopyCatchesUp
    BY DEF CalendarInv, CatchesUp, CopyCatchesUp
  <2> QED
    BY <2>1, <2>2, CalendarStep, PTL DEF Google!Spec
<1> QED
  BY <1>1, <1>2
=============================================================================
