--------------------------- MODULE AnalysisQueue ---------------------------
(***************************************************************************)
(* backend/app/ai/queue.py, with the parts of ai/service.py and            *)
(* services/notifier.py that write to the database: the queue of AI work.  *)
(* A task is estimated per input (its facts); a change event is reviewed   *)
(* once, and an approving review creates a notification.  The scheduler    *)
(* and the HTTP trigger run the queue from different threads; a run claims *)
(* jobs, commits the claim, asks the provider and commits the answer, and  *)
(* it may be cancelled or crash at any of these points.  Meanwhile the     *)
(* sync observes tasks and changes, and the user forces new estimates and  *)
(* connects or disconnects the provider.                                   *)
(*                                                                         *)
(* Left out: estimates' numbers, prompts, filter rules (a rule may drop a  *)
(* change at any time), the assignment summaries run after a batch.        *)
(***************************************************************************)
EXTENDS Naturals, Sequences

CONSTANTS
    Tasks,        \* tasks whose effort is estimated
    Inputs,       \* what an estimate depends on: task_input_hash
    Events,       \* change events
    Workers,      \* the scheduler's thread and the API
    None,         \* nobody, nothing
    MaxAttempts,  \* AnalysisWorker.max_attempts
    Limit         \* jobs claimed by one run (10 in the code)

Efforts == Tasks \X Inputs   \* jobs of kind task_effort
Jobs == Efforts \union Events  \* and change_importance

ASSUME QueueAssumption ==
    /\ Efforts \cap Events = {}
    /\ None \notin Workers
    /\ MaxAttempts \in Nat \ {0}
    /\ Limit \in Nat \ {0}

VARIABLES
    job,        \* AnalysisJob.state, NONE before the row exists
    attempts,   \* AnalysisJob.attempts
    queue,      \* the jobs, in the order of created_at and id
    stale,      \* jobs not updated for five minutes
    effort,     \* TaskAnalysis: status and input_hash
    facts,      \* the input computed from a task's facts now
    answered,   \* effort jobs with a successful AIRun
    review,     \* ChangeAnalysis.analysis_status; READY split by notify_user
    notice,     \* events with a Notification row
    enabled,    \* AIService.enabled, fixed when the process starts
    chatReady,  \* get_ai_probe_settings()["chat_ready"]
    lock,       \* _worker_lock
    pc,         \* where each worker's run stands
    batch,      \* the jobs its run still has to take, the current one first
    seen,       \* attempts as its session loaded them, None once expired
    calls,      \* history: provider calls for a job since it was forced
    pushes,     \* history: pushes of an event that ntfy took
    lost,       \* history: events with a push that was taken, and whose answer was lost
    stopped     \* history: a run was cancelled, crashed or could not commit

rows == <<job, attempts, queue, stale>>
analyses == <<effort, facts, answered, review, notice>>
config == <<enabled, chatReady>>
runs == <<lock, pc, batch, seen>>
history == <<calls, pushes, lost, stopped>>
vars == <<rows, analyses, config, runs, history>>

Delivering == {"delivering", "retrying", "delivered"}
Busy == {"asking", "claimed", "reviewing"} \union Delivering

TypeOK ==
    /\ job \in [Jobs -> {"NONE", "PENDING", "REVIEWING", "READY", "FAILED", "WAITING_AI"}]
    /\ attempts \in [Jobs -> Nat]
    /\ queue \in Seq(Jobs)
    /\ stale \in SUBSET Jobs
    /\ effort \in [Tasks -> [status : {"NONE", "PENDING", "READY", "FAILED"},
                             input : Inputs \union {None}]]
    /\ facts \in [Tasks -> Inputs]
    /\ answered \in SUBSET Efforts
    /\ review \in [Events -> {"NONE", "PENDING", "REVIEWING", "APPROVED", "REJECTED",
                              "SUPPRESSED", "FAILED"}]
    /\ notice \in SUBSET Events
    /\ enabled \in BOOLEAN
    /\ chatReady \in BOOLEAN
    /\ lock \in Workers \union {None}
    /\ pc \in [Workers -> {"idle", "picking"} \union Busy]
    /\ batch \in [Workers -> Seq(Jobs)]
    /\ seen \in [Workers -> [Jobs -> Nat \union {None}]]
    /\ calls \in [Jobs -> Nat]
    /\ pushes \in [Events -> Nat]
    /\ lost \in SUBSET Events
    /\ stopped \in BOOLEAN

Expired == [j \in Jobs |-> None]

Init ==
    /\ job = [j \in Jobs |-> "NONE"]
    /\ attempts = [j \in Jobs |-> 0]
    /\ queue = <<>>
    /\ stale = {}
    /\ effort = [t \in Tasks |-> [status |-> "NONE", input |-> None]]
    /\ facts \in [Tasks -> Inputs]
    /\ answered = {}
    /\ review = [e \in Events |-> "NONE"]
    /\ notice = {}
    /\ enabled \in BOOLEAN
    /\ chatReady \in BOOLEAN
    /\ lock = None
    /\ pc = [w \in Workers |-> "idle"]
    /\ batch = [w \in Workers |-> <<>>]
    /\ seen = [w \in Workers |-> Expired]
    /\ calls = [j \in Jobs |-> 0]
    /\ pushes = [e \in Events |-> 0]
    /\ lost = {}
    /\ stopped = FALSE

-----------------------------------------------------------------------------
(* Enqueueing, in the transaction of the sync or of a request.             *)

CreateJob(j) ==
    /\ job' = [job EXCEPT ![j] = "PENDING"]
    /\ queue' = Append(queue, j)
    /\ UNCHANGED <<attempts, stale>>

(* enqueue_task_analysis: nothing to do if this input was analysed last;   *)
(* a job that exists for another input is reused as it stands.             *)
Observe(t, h) ==
    /\ facts' = [facts EXCEPT ![t] = h]
    /\ IF effort[t].input = h
       THEN UNCHANGED <<rows, effort>>
       ELSE /\ effort' = [effort EXCEPT ![t] = [status |-> "PENDING", input |-> h]]
            /\ IF job[<<t, h>>] = "NONE" THEN CreateJob(<<t, h>>) ELSE UNCHANGED rows
    /\ UNCHANGED <<answered, review, notice, config, runs, history>>

(* The same with force, from POST /tasks/{task_id}/reestimate. *)
ForceEstimate(t) ==
    LET j == <<t, facts[t]>>
    IN /\ effort' = [effort EXCEPT ![t] = [status |-> "PENDING", input |-> facts[t]]]
       /\ IF job[j] = "NONE"
          THEN CreateJob(j)
          ELSE /\ job' = [job EXCEPT ![j] = "PENDING"]
               /\ attempts' = [attempts EXCEPT ![j] = 0]
               /\ UNCHANGED <<queue, stale>>
       /\ calls' = [calls EXCEPT ![j] = 0]
       /\ UNCHANGED <<facts, answered, review, notice, config, runs, pushes, lost,
                      stopped>>

(* enqueue_change_analysis; the prefilter may drop the change.  The call of *)
(* notify_change that follows in the same transaction (sync.py:516-521)     *)
(* finds the analysis created here, without a verdict, and does nothing.    *)
Detect(e) ==
    /\ review[e] = "NONE"
    /\ \/ review' = [review EXCEPT ![e] = "SUPPRESSED"] /\ UNCHANGED rows
       \/ review' = [review EXCEPT ![e] = "PENDING"] /\ CreateJob(e)
    /\ UNCHANGED <<effort, facts, answered, notice, config, runs, history>>

Configure ==
    /\ chatReady' = ~chatReady
    /\ UNCHANGED <<rows, analyses, enabled, runs, history>>

(* Five minutes pass without an update of a claimed job. *)
Age(j) ==
    /\ job[j] = "REVIEWING"
    /\ j \notin stale
    /\ stale' = stale \union {j}
    /\ UNCHANGED <<job, attempts, queue, analyses, config, runs, history>>

-----------------------------------------------------------------------------
(* One run of the queue. *)

Ready == enabled \/ chatReady

RunAnyway(w) == TRUE  \* seeded: a run does not wait for another
MayRun(w) == lock = None

(* Claims nobody updated for five minutes were stranded by a crash. *)
StrandedKept == {}  \* seeded: nothing is recovered
Stranded == {j \in stale : job[j] = "REVIEWING"}

RecoveredAlways(j) == "PENDING"  \* seeded: attempts are not looked at
Recovered(j) == IF attempts[j] >= MaxAttempts THEN "FAILED" ELSE "PENDING"

(* Reviews are parked while no provider is configured. *)
Parked(j, s) ==
    IF j \notin Events THEN s
    ELSE IF Ready /\ s = "WAITING_AI" THEN "PENDING"
    ELSE IF ~Ready /\ s = "PENDING" THEN "WAITING_AI"
    ELSE s

Recovery == [j \in Jobs |-> IF j \in Stranded THEN Recovered(j) ELSE job[j]]
GivenUp == {j \in Stranded : Recovered(j) = "FAILED"}

FailEffort(t) == [effort[t] EXCEPT !.status = "FAILED"]

(* The first Limit of the pending jobs in the order of the queue; at are   *)
(* their places.                                                           *)
Picks(at) ==
    LET pending == {p \in DOMAIN queue : job'[queue[p]] = "PENDING"}
    IN /\ \A i \in DOMAIN at : at[i] \in pending
       /\ \A i, k \in DOMAIN at : i < k => at[i] < at[k]
       /\ \A p \in pending : \/ \E i \in DOMAIN at : at[i] = p
                             \/ Limit \in DOMAIN at /\ at[Limit] < p

(* Everything before the loop: there is no await in it. *)
Run(w) ==
    /\ pc[w] = "idle"
    /\ MayRun(w)
    /\ job' = [j \in Jobs |-> Parked(j, Recovery[j])]
    /\ stale' = stale \ Stranded
    /\ effort' = [t \in Tasks |-> IF \E h \in Inputs : <<t, h>> \in GivenUp
                                  THEN FailEffort(t) ELSE effort[t]]
    /\ review' = [e \in Events |-> IF e \in GivenUp THEN "FAILED" ELSE review[e]]
    /\ \E n \in 0..Limit : \E at \in [1..n -> DOMAIN queue] :
          /\ Picks(at)
          /\ batch' = [batch EXCEPT ![w] = [i \in 1..n |-> queue[at[i]]]]
          /\ seen' = [seen EXCEPT ![w] = [j \in Jobs |-> IF \E i \in 1..n : queue[at[i]] = j
                                                         THEN attempts[j] ELSE None]]
          /\ IF n = 0 THEN UNCHANGED <<lock, pc>>
             ELSE lock' = w /\ pc' = [pc EXCEPT ![w] = "picking"]
    /\ UNCHANGED <<attempts, queue, facts, answered, notice, config, history>>

Current(w) == Head(batch[w])

(* The loop goes on, or the run ends. *)
Advance(w) ==
    /\ batch' = [batch EXCEPT ![w] = Tail(@)]
    /\ IF Tail(batch[w]) = <<>>
       THEN pc' = [pc EXCEPT ![w] = "idle"] /\ lock' = None
       ELSE pc' = [pc EXCEPT ![w] = "picking"] /\ UNCHANGED lock

\* What the session of a run had loaded goes with the run.
Finish(w) ==
    /\ Advance(w)
    /\ seen' = IF Tail(batch[w]) = <<>> THEN [seen EXCEPT ![w] = Expired] ELSE seen

Terminal(j) == attempts[j] >= MaxAttempts \/ (j \in Efforts /\ ~enabled)

EffortGivenUp(j) == Terminal(j)

(* The except clause: rollback expires the session, a retry or the end is  *)
(* recorded, and _mark_failed.                                             *)
Fail(w) ==
    LET j == Current(w)
    IN /\ job' = [job EXCEPT ![j] = IF Terminal(j) THEN "FAILED" ELSE "PENDING"]
       /\ IF j \in Events
          THEN review' = [review EXCEPT ![j] = "FAILED"] /\ UNCHANGED effort
          ELSE /\ effort' = [effort EXCEPT ![j[1]] = IF EffortGivenUp(j) THEN FailEffort(j[1])
                                                     ELSE @]
               /\ UNCHANGED review
       /\ seen' = [seen EXCEPT ![w] = Expired]
       /\ Advance(w)

Claim(w, to) ==
    LET j == Current(w)
        loaded == IF seen[w][j] = None THEN attempts[j] ELSE seen[w][j]
    IN /\ job' = [job EXCEPT ![j] = "REVIEWING"]
       /\ attempts' = [attempts EXCEPT ![j] = loaded + 1]
       /\ seen' = [seen EXCEPT ![w][j] = loaded + 1]
       /\ stale' = stale \ {j}
       /\ pc' = [pc EXCEPT ![w] = to]
       /\ UNCHANGED <<lock, batch>>

TakeEffort(w) ==
    /\ pc[w] = "picking"
    /\ Current(w) \in Efforts
    /\ IF enabled
       THEN /\ Claim(w, "asking")
            /\ calls' = [calls EXCEPT ![Current(w)] = IF Current(w) \in answered THEN @ ELSE @ + 1]
            /\ UNCHANGED <<effort, review>>
       ELSE Fail(w) /\ UNCHANGED <<attempts, stale, calls>>
    /\ UNCHANGED <<queue, facts, answered, notice, config, pushes, lost, stopped>>

TakeReview(w) ==
    /\ pc[w] = "picking"
    /\ Current(w) \in Events
    /\ IF Ready
       THEN Claim(w, "claimed")
       ELSE /\ job' = [job EXCEPT ![Current(w)] = "WAITING_AI"]
            /\ Finish(w)
            /\ UNCHANGED <<attempts, stale>>
    /\ UNCHANGED <<queue, analyses, config, history>>

(* analyze_effort's answer, from an earlier AIRun if there is one. *)
Estimated(j) ==
    /\ effort' = [effort EXCEPT ![j[1]] = [status |-> "READY", input |-> j[2]]]
    /\ answered' = answered \union {j}

Estimate(w) ==
    /\ pc[w] = "asking"
    /\ \/ /\ Estimated(Current(w))
          /\ job' = [job EXCEPT ![Current(w)] = "READY"]
          /\ Finish(w)
          /\ UNCHANGED review
       \/ Current(w) \notin answered /\ Fail(w) /\ UNCHANGED answered
    /\ UNCHANGED <<attempts, queue, stale, facts, notice, config, history>>

(* _change up to the provider call: the course may be inactive, a filter   *)
(* may drop the change by now, the provider may be gone.                   *)
Consider(w) ==
    /\ pc[w] = "claimed"
    /\ \/ Fail(w) /\ UNCHANGED calls
       \/ /\ review' = [review EXCEPT ![Current(w)] = "SUPPRESSED"]
          /\ job' = [job EXCEPT ![Current(w)] = "READY"]
          /\ Finish(w)
          /\ UNCHANGED <<effort, calls>>
       \/ /\ Ready
          /\ review' = [review EXCEPT ![Current(w)] = "REVIEWING"]
          /\ calls' = [calls EXCEPT ![Current(w)] = @ + 1]
          /\ pc' = [pc EXCEPT ![w] = "reviewing"]
          /\ UNCHANGED <<job, effort, lock, batch, seen>>
    /\ UNCHANGED <<attempts, queue, stale, facts, answered, notice, config, pushes, lost, stopped>>

NoticeLate(e) == notice  \* seeded: delivered before the row is committed
NoticeWith(e) == notice \union {e}

Approves(e, verdict) == verdict = "APPROVED"

(* The provider answers; analyze_change and notify_change up to the commit *)
(* of the notification, which also commits the analysis.  No notification  *)
(* is created twice, or while the course is inactive.                      *)
Decide(w) ==
    /\ pc[w] = "reviewing"
    /\ LET e == Current(w)
       IN \E verdict \in {"APPROVED", "REJECTED"} :
            /\ review' = [review EXCEPT ![e] = verdict]
            /\ \/ /\ job' = [job EXCEPT ![e] = "READY"]
                  /\ Finish(w)
                  /\ UNCHANGED notice
               \/ /\ Approves(e, verdict)
                  /\ e \notin notice
                  /\ notice' = NoticeWith(e)
                  /\ pc' = [pc EXCEPT ![w] = "delivering"]
                  /\ UNCHANGED <<job, lock, batch, seen>>
    /\ UNCHANGED <<attempts, queue, stale, effort, facts, answered, config, history>>

ReviewFails(w) ==
    /\ pc[w] = "reviewing"
    /\ Fail(w)
    /\ UNCHANGED <<attempts, queue, stale, facts, answered, notice, config, history>>

DeliveredOrFailed(w) == Fail(w)  \* seeded: an outage fails the review

Tried(w, heard) == heard \/ pc[w] = "retrying"

(* A message is posted, and once more unless its answer says that ntfy took *)
(* it; that answer may be lost. With no address it is as if both failed.    *)
Push(w) ==
    /\ pc[w] \in {"delivering", "retrying"}
    /\ LET e == Current(w)
       IN \E taken, heard \in BOOLEAN :
            /\ heard => taken
            /\ pushes' = IF taken THEN [pushes EXCEPT ![e] = @ + 1] ELSE pushes
            /\ lost' = IF taken /\ ~heard THEN lost \union {e} ELSE lost
            /\ pc' = [pc EXCEPT ![w] = IF Tried(w, heard) THEN "delivered" ELSE "retrying"]
    /\ UNCHANGED <<rows, analyses, config, lock, batch, seen, calls, stopped>>

(* Either way the review is done. *)
Delivered(w) ==
    /\ job' = [job EXCEPT ![Current(w)] = "READY"]
    /\ Finish(w)
    /\ UNCHANGED <<effort, review>>

Deliver(w) ==
    /\ pc[w] = "delivered"
    /\ Delivered(w)
    /\ UNCHANGED <<attempts, queue, stale, facts, answered, notice, config, history>>

(* The commit of the delivery's result fails. *)
DeliverRaises(w) ==
    /\ pc[w] = "delivered"
    /\ Fail(w)
    /\ stopped' = TRUE
    /\ UNCHANGED <<attempts, queue, stale, facts, answered, notice, config, calls, pushes, lost>>

(* Cancelled, or a commit outside the try fails: the claim stays.          *)
Interrupt(w) ==
    /\ pc[w] # "idle"
    /\ pc' = [pc EXCEPT ![w] = "idle"]
    /\ batch' = [batch EXCEPT ![w] = <<>>]
    /\ seen' = [seen EXCEPT ![w] = Expired]
    /\ lock' = None
    /\ stopped' = TRUE
    /\ UNCHANGED <<rows, analyses, config, calls, pushes, lost>>

Crash ==
    /\ pc' = [w \in Workers |-> "idle"]
    /\ batch' = [w \in Workers |-> <<>>]
    /\ seen' = [w \in Workers |-> Expired]
    /\ lock' = None
    /\ enabled' \in BOOLEAN
    /\ stopped' = TRUE
    /\ UNCHANGED <<rows, analyses, chatReady, calls, pushes, lost>>

Step(w) ==
    \/ TakeEffort(w) \/ TakeReview(w)
    \/ Estimate(w)
    \/ Consider(w) \/ Decide(w) \/ ReviewFails(w) \/ Push(w) \/ Deliver(w)

Next ==
    \/ \E t \in Tasks, h \in Inputs : Observe(t, h)
    \/ \E t \in Tasks : ForceEstimate(t)
    \/ \E e \in Events : Detect(e)
    \/ \E j \in Jobs : Age(j)
    \/ Configure
    \/ \E w \in Workers : Run(w) \/ Step(w) \/ DeliverRaises(w) \/ Interrupt(w)
    \/ Crash

Spec == Init /\ [][Next]_vars

(* Time passes, the scheduler triggers a run every 30 seconds, and a run   *)
(* that is neither cancelled nor crashed goes on: provider calls time out. *)
FairSpec ==
    /\ Spec
    /\ \A j \in Jobs : WF_vars(Age(j))
    /\ WF_vars(\E w \in Workers : Run(w))
    /\ \A w \in Workers : WF_vars(Step(w))

-----------------------------------------------------------------------------
(* "Scheduler and HTTP trigger can run in separate threads/event loops"    *)
(* (queue.py:161): no two runs work on the same job.                       *)
ReviewIsExclusive ==
    \A v, w \in Workers :
        pc[v] \in Busy /\ pc[w] \in Busy /\ Current(v) = Current(w) => v = w

(* "test_provider_http_errors_remain_bounded" (test_v071_changes.py:168):  *)
(* the provider is asked about one job at most MaxAttempts times, also     *)
(* when runs are interrupted after every claim, and again only if the user *)
(* forces it (queue.py:171-176, 207-229).                                  *)
CallsAreBounded == \A j \in Jobs : calls[j] <= MaxAttempts

(* "All change notifications require the persisted AI gate" (sync.py:516): *)
(* at the moment of each push, also of the repeated one and whatever other  *)
(* runs, recoveries and settings did since the decision, the review that is *)
(* stored approves it.                                                      *)
PushIsApproved == \A e \in Events : pushes'[e] > pushes[e] => review[e] = "APPROVED"

PushesAreApproved == [][PushIsApproved]_vars

(* A change is pushed once, however often its review is repeated after a    *)
(* failure or a crash, and a second time only if the answer to the first    *)
(* push was lost (notifier.py:34-58).                                       *)
PushesAreBounded == \A e \in Events : pushes[e] <= IF e \in lost THEN 2 ELSE 1

(* A finished review has left its verdict, whatever failed or was repeated *)
(* (queue.py:207-239, 271-303).                                            *)
FinishedIsDecided ==
    \A e \in Events : job[e] = "READY" => review[e] \in {"APPROVED", "REJECTED", "SUPPRESSED"}

(* A task is shown as failed only once a job of it was given up, never by a *)
(* failure after which the same job is tried again (queue.py:219-229,       *)
(* 314-338; test_v051.py:381-386). It says no more: _mark_failed does not   *)
(* compare inputs, so the job of an older input that is given up shows the  *)
(* task as failed while the job of a newer one is due.                      *)
FailureIsEarned ==
    \A t \in Tasks : effort[t].status = "FAILED" => \E h \in Inputs : job[<<t, h>>] = "FAILED"

(* Attempts are neither exceeded nor given up early: both of the above, for *)
(* the one counter that failures, recoveries and forced retries share.      *)
AttemptsAreCounted == CallsAreBounded /\ FailureIsEarned

(* "Approval and local visibility survive external delivery failures"      *)
(* (notifier.py:44), while only deliveries and provider calls fail.        *)
ApprovalStays ==
    ~stopped' => \A e \in notice : review[e] = "APPROVED" => review'[e] = "APPROVED"

ApprovalSurvives == [][ApprovalStays]_vars

(* "A crash must not strand a claimed candidate forever" (queue.py:170).   *)
ClaimsEnd == \A j \in Jobs : job[j] = "REVIEWING" ~> job[j] # "REVIEWING"
=============================================================================
