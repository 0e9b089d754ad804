------------------------ MODULE AnalysisQueueProofs ------------------------
(***************************************************************************)
(* For any number of workers, tasks and events: runs never work on the     *)
(* same job, what is pushed is approved, and pushed once unless an answer   *)
(* is lost, a finished review has its verdict, calls are bounded by the     *)
(* attempts and a failure is shown only after a job was given up, and an    *)
(* approval is not overwritten by a later failure.                          *)
(***************************************************************************)
EXTENDS MCAssistant, FiniteSetTheorems, TLAPS

(* The shapes the arguments below need. *)
Shape ==
    /\ job = [j \in Jobs |-> job[j]]
    /\ pc = [w \in Workers |-> pc[w]]
    /\ batch = [w \in Workers |-> batch[w]]
    /\ review = [e \in Events |-> review[e]]
    /\ pushes \in [Events -> Nat]

(* Whoever is in the middle of a run holds _worker_lock. *)
LockHeld == \A w \in Workers : pc[w] # "idle" => lock = w

(* A claim stands at an unfinished job of the kind its branch handles. *)
Reviewing == {"claimed", "reviewing"} \union Delivering

ClaimKind ==
    \A w \in Workers : /\ pc[w] = "asking" => Current(w) \in Efforts
                       /\ pc[w] \in Reviewing => /\ Current(w) \in Events
                                                 /\ job[Current(w)] # "READY"

(* While an approved change is pushed, the approval and the row stand; it  *)
(* was not pushed before the first attempt, and not heard of before the    *)
(* second.                                                                 *)
DeliveryStands ==
    \A w \in Workers :
        pc[w] \in Delivering =>
            LET e == Current(w)
            IN /\ review[e] = "APPROVED"
               /\ e \in notice
               /\ pc[w] = "delivering" => pushes[e] = 0
               /\ pc[w] = "retrying" => pushes[e] <= IF e \in lost THEN 1 ELSE 0

(* A push follows the row that stands for it. *)
PushedIsNoticed == \A e \in Events : pushes[e] > 0 => e \in notice

IInv ==
    /\ Shape
    /\ LockHeld
    /\ ClaimKind
    /\ DeliveryStands
    /\ PushedIsNoticed
    /\ PushesAreBounded
    /\ FinishedIsDecided

USE QueueAssumption

LEMMA Initially == Init => IInv
  <1> SUFFICES ASSUME Init PROVE IInv
    OBVIOUS
  <1>1. Shape /\ LockHeld
    BY DEF Init, Shape, LockHeld
  <1>2. ClaimKind /\ DeliveryStands
    BY DEF Init, ClaimKind, Reviewing, DeliveryStands, Delivering
  <1>3. PushedIsNoticed /\ PushesAreBounded
    BY DEF Init, PushedIsNoticed, PushesAreBounded
  <1>4. FinishedIsDecided
    BY DEF Init, FinishedIsDecided, Jobs
  <1> QED BY <1>1, <1>2, <1>3, <1>4 DEF IInv

(* What the steps outside a run leave alone. *)
OutsideStep ==
    /\ UNCHANGED <<lock, pc, batch, notice, pushes, lost>>
    /\ job' = [j \in Jobs |-> job'[j]]
    /\ review' = [e \in Events |-> review'[e]]
    /\ \A e \in Events : review[e] # "NONE" => review'[e] = review[e]
    /\ \A e \in Events : job'[e] = "READY" => job[e] = "READY"

LEMMA OutsideSteps ==
    ASSUME Shape, \/ \E t \in Tasks, h \in Inputs : Observe(t, h)
                  \/ \E t \in Tasks : ForceEstimate(t)
                  \/ \E e \in Events : Detect(e)
                  \/ \E j \in Jobs : Age(j)
                  \/ Configure
    PROVE  OutsideStep
  <1>1. ASSUME NEW t \in Tasks, NEW h \in Inputs, Observe(t, h) PROVE OutsideStep
    <2>1. <<t, h>> \in Efforts /\ \A e \in Events : e # <<t, h>>
      BY DEF Efforts
    <2> QED
      BY <1>1, <2>1 DEF OutsideStep, Observe, CreateJob, rows, config, runs, history, Shape, Jobs
  <1>2. ASSUME NEW t \in Tasks, ForceEstimate(t) PROVE OutsideStep
    <2> DEFINE j == <<t, facts[t]>>
    <2>1. CASE j \in Events
      BY <1>2, <2>1 DEF OutsideStep, ForceEstimate, CreateJob, rows, config, runs, history, Shape, Jobs
    <2>2. CASE j \notin Events
      BY <1>2, <2>2 DEF OutsideStep, ForceEstimate, CreateJob, rows, config, runs, history, Shape, Jobs
    <2> QED BY <2>1, <2>2
  <1>3. ASSUME NEW e \in Events, Detect(e) PROVE OutsideStep
    BY <1>3 DEF OutsideStep, Detect, CreateJob, rows, config, runs, history, Shape, Jobs
  <1>4. ASSUME NEW j \in Jobs, Age(j) PROVE OutsideStep
    BY <1>4 DEF OutsideStep, Age, analyses, config, runs, history, Shape
  <1>5. ASSUME Configure PROVE OutsideStep
    BY <1>5 DEF OutsideStep, Configure, rows, analyses, runs, history, Shape
  <1> QED BY <1>1, <1>2, <1>3, <1>4, <1>5

LEMMA OutsideKeeps == ASSUME IInv, OutsideStep PROVE IInv'
  <1> USE DEF IInv, OutsideStep
  <1>1. Shape'
    BY DEF Shape
  <1>2. LockHeld' /\ ClaimKind'
    BY DEF LockHeld, ClaimKind, Current
  <1>3. DeliveryStands'
    <2>1. ASSUME NEW w \in Workers, pc[w] \in Delivering
          PROVE  /\ Current(w)' = Current(w) /\ Current(w) \in Events
                 /\ review[Current(w)] = "APPROVED" /\ review'[Current(w)] = "APPROVED"
      BY <2>1 DEF ClaimKind, Reviewing, DeliveryStands, Current
    <2> QED BY <2>1 DEF DeliveryStands
  <1>4. PushedIsNoticed' /\ PushesAreBounded'
    BY DEF PushedIsNoticed, PushesAreBounded
  <1>5. FinishedIsDecided'
    BY DEF FinishedIsDecided
  <1> QED BY <1>1, <1>2, <1>3, <1>4, <1>5
-----------------------------------------------------------------------------
(* Of two workers one is idle. *)
LEMMA Alone ==
    ASSUME IInv, NEW w \in Workers, pc[w] # "idle", NEW v \in Workers \ {w}
    PROVE  pc[v] = "idle"
  BY DEF IInv, LockHeld

(* A run that starts finds everybody idle. *)
LEMMA RunKeeps == ASSUME IInv, NEW w \in Workers, Run(w) PROVE IInv'
  <1> USE DEF IInv
  <1>1. \A v \in Workers : pc[v] = "idle"
    BY DEF LockHeld, Run, MayRun
  <1>2. /\ \A v \in Workers : pc'[v] \in {"idle", "picking"}
        /\ \A v \in Workers : pc'[v] # "idle" => lock' = v
        /\ pc' = [v \in Workers |-> pc'[v]]
        /\ batch' = [v \in Workers |-> batch'[v]]
    <2>1. PICK n \in 0..Limit : \E at \in [1..n -> DOMAIN queue] :
            /\ batch' = [batch EXCEPT ![w] = [i \in 1..n |-> queue[at[i]]]]
            /\ IF n = 0 THEN UNCHANGED <<lock, pc>>
               ELSE lock' = w /\ pc' = [pc EXCEPT ![w] = "picking"]
      BY DEF Run
    <2>2. PICK at \in [1..n -> DOMAIN queue] :
            /\ batch' = [batch EXCEPT ![w] = [i \in 1..n |-> queue[at[i]]]]
            /\ IF n = 0 THEN UNCHANGED <<lock, pc>>
               ELSE lock' = w /\ pc' = [pc EXCEPT ![w] = "picking"]
      BY <2>1
    <2>3. batch' = [v \in Workers |-> batch'[v]]
      BY <2>2 DEF Shape
    <2>4. CASE n = 0
      BY <1>1, <2>2, <2>3, <2>4 DEF Shape
    <2>5. CASE n # 0
      BY <1>1, <2>2, <2>3, <2>5 DEF Shape
    <2> QED BY <2>4, <2>5
  <1>3. UNCHANGED <<notice, pushes, lost>>
    BY DEF Run, history
  <1>4. Shape'
    BY <1>2, <1>3 DEF Run, Shape
  <1>5. LockHeld' /\ ClaimKind' /\ DeliveryStands'
    BY <1>2 DEF LockHeld, ClaimKind, Reviewing, DeliveryStands, Delivering
  <1>6. PushedIsNoticed' /\ PushesAreBounded'
    BY <1>3 DEF PushedIsNoticed, PushesAreBounded
  <1>7. FinishedIsDecided'
    <2> SUFFICES ASSUME NEW e \in Events, job'[e] = "READY"
                 PROVE  review'[e] \in {"APPROVED", "REJECTED", "SUPPRESSED"}
      BY DEF FinishedIsDecided
    <2>1. e \in Jobs /\ job'[e] = Parked(e, Recovery[e])
      BY DEF Run, Jobs
    <2>2. Recovery[e] = "READY"
      BY <2>1 DEF Parked
    <2>3. job[e] = "READY" /\ e \notin Stranded
      BY <2>1, <2>2 DEF Recovery, Recovered, Stranded
    <2>4. review'[e] = review[e]
      BY <2>3 DEF Run, GivenUp
    <2> QED BY <2>3, <2>4 DEF FinishedIsDecided
  <1> QED BY <1>4, <1>5, <1>6, <1>7

(* A step of w's run that ends its current job, or the run. *)
Moves(w) ==
    /\ pc' = [v \in Workers |-> pc'[v]]
    /\ batch' = [v \in Workers |-> batch'[v]]
    /\ \A v \in Workers \ {w} : pc'[v] = pc[v]
    /\ pc'[w] \in {"idle", "picking"}
    /\ pc'[w] # "idle" => lock' = lock

LEMMA AdvanceMoves == ASSUME Shape, NEW w \in Workers, Advance(w) PROVE Moves(w)
  BY DEF Shape, Advance, Moves

(* So nobody is in the middle of a job afterwards. *)
LEMMA MovesKeep ==
    ASSUME IInv, NEW w \in Workers, pc[w] # "idle", Moves(w)
    PROVE  LockHeld' /\ ClaimKind' /\ DeliveryStands'
  <1>1. \A v \in Workers : pc'[v] \in {"idle", "picking"}
    BY Alone DEF Moves
  <1>2. \A v \in Workers : pc'[v] # "idle" => v = w
    BY Alone DEF Moves
  <1>3. LockHeld'
    BY <1>2 DEF LockHeld, Moves, IInv
  <1> QED BY <1>1, <1>3 DEF ClaimKind, Reviewing, DeliveryStands, Delivering

(* What a step that ends a job leaves of the reviews: a verdict for what   *)
(* is finished, and nothing new about notifications.                       *)
Ends(w) ==
    /\ Moves(w)
    /\ job' = [j \in Jobs |-> job'[j]]
    /\ review' = [e \in Events |-> review'[e]]
    /\ UNCHANGED <<notice, pushes, lost>>
    /\ \A e \in Events : \/ job'[e] # "READY"
                          \/ review'[e] \in {"APPROVED", "REJECTED", "SUPPRESSED"}

LEMMA EndsKeep ==
    ASSUME IInv, NEW w \in Workers, pc[w] # "idle", Ends(w) PROVE IInv'
  <1>1. LockHeld' /\ ClaimKind' /\ DeliveryStands'
    BY MovesKeep DEF Ends
  <1>2. Shape'
    BY DEF Ends, Moves, Shape, IInv
  <1>3. PushedIsNoticed' /\ PushesAreBounded' /\ FinishedIsDecided'
    BY DEF Ends, PushedIsNoticed, PushesAreBounded, FinishedIsDecided, IInv
  <1> QED BY <1>1, <1>2, <1>3 DEF IInv

(* A failure ends the current job, and leaves it unfinished. *)
LEMMA FailEnds ==
    ASSUME IInv, NEW w \in Workers, pc[w] # "idle", Fail(w),
           UNCHANGED <<notice, pushes, lost>>
    PROVE  Ends(w)
  <1> DEFINE c == Current(w)
  <1>1. Moves(w)
    BY AdvanceMoves DEF Fail, IInv
  <1>2. job' = [j \in Jobs |-> job'[j]] /\ review' = [e \in Events |-> review'[e]]
    BY DEF Fail, Shape, IInv
  <1>3. ASSUME NEW e \in Events, job'[e] = "READY"
        PROVE  review'[e] \in {"APPROVED", "REJECTED", "SUPPRESSED"}
    <2>1. e # c
      BY <1>3 DEF Fail, Shape, IInv, Jobs
    <2>2. job'[e] = job[e] /\ review'[e] = review[e]
      BY <2>1 DEF Fail, Shape, IInv, Jobs
    <2> QED BY <1>3, <2>2 DEF FinishedIsDecided, IInv
  <1> QED BY <1>1, <1>2, <1>3 DEF Ends

-----------------------------------------------------------------------------
(* A claim takes the current job on, and decides nothing. *)
LEMMA ClaimKeeps ==
    ASSUME IInv, NEW w \in Workers, pc[w] = "picking", NEW to, Claim(w, to),
           \/ to = "asking" /\ Current(w) \in Efforts
           \/ to = "claimed" /\ Current(w) \in Events,
           UNCHANGED <<review, notice, pushes, lost>>
    PROVE  IInv'
  <1> USE DEF IInv
  <1>1. /\ UNCHANGED <<lock, batch>>
        /\ pc' = [pc EXCEPT ![w] = to]
        /\ job' = [job EXCEPT ![Current(w)] = "REVIEWING"]
    BY DEF Claim
  <1>2. Shape'
    BY <1>1 DEF Shape
  <1>3. LockHeld'
    BY <1>1 DEF LockHeld, Shape
  <1>4. ClaimKind' /\ DeliveryStands'
    <2>1. \A v \in Workers : Current(v)' = Current(v)
      BY <1>1 DEF Current
    <2>2. \A v \in Workers \ {w} : pc'[v] = "idle" /\ pc'[w] = to
      BY <1>1, Alone DEF Shape
    <2>3. pc'[w] = to
      BY <1>1 DEF Shape
    <2>4. Current(w) \in Jobs
      BY DEF Jobs
    <2>5. job'[Current(w)] = "REVIEWING"
      BY <1>1, <2>4 DEF Shape
    <2> QED BY <2>1, <2>2, <2>3, <2>5 DEF ClaimKind, Reviewing, DeliveryStands, Delivering
  <1>5. PushedIsNoticed' /\ PushesAreBounded'
    BY DEF PushedIsNoticed, PushesAreBounded
  <1>6. FinishedIsDecided'
    BY <1>1 DEF FinishedIsDecided, Shape, Jobs
  <1> QED BY <1>2, <1>3, <1>4, <1>5, <1>6

LEMMA TakeKeeps ==
    ASSUME IInv, NEW w \in Workers, TakeEffort(w) \/ TakeReview(w) PROVE IInv'
  <1>1. CASE TakeEffort(w)
    <2>1. pc[w] = "picking" /\ Current(w) \in Efforts /\ UNCHANGED <<notice, pushes, lost>>
      BY <1>1 DEF TakeEffort
    <2>2. CASE enabled
      <3>1. Claim(w, "asking") /\ UNCHANGED review
        BY <1>1, <2>2 DEF TakeEffort
      <3> QED BY <2>1, <3>1, ClaimKeeps
    <2>3. CASE ~enabled
      <3>1. Fail(w)
        BY <1>1, <2>3 DEF TakeEffort
      <3> QED BY <2>1, <3>1, FailEnds, EndsKeep
    <2> QED BY <2>2, <2>3
  <1>2. CASE TakeReview(w)
    <2>1. /\ pc[w] = "picking" /\ Current(w) \in Events
          /\ UNCHANGED <<review, notice, pushes, lost>>
      BY <1>2 DEF TakeReview, analyses, history
    <2>2. CASE Ready
      <3>1. Claim(w, "claimed")
        BY <1>2, <2>2 DEF TakeReview
      <3> QED BY <2>1, <3>1, ClaimKeeps
    <2>3. CASE ~Ready
      <3>1. job' = [job EXCEPT ![Current(w)] = "WAITING_AI"] /\ Advance(w)
        BY <1>2, <2>3 DEF TakeReview, Finish
      <3>2. Ends(w)
        BY <2>1, <3>1, AdvanceMoves DEF Ends, IInv, Shape, FinishedIsDecided, Jobs
      <3> QED BY <2>1, <3>2, EndsKeep
    <2> QED BY <2>2, <2>3
  <1> QED BY <1>1, <1>2

LEMMA EstimateKeeps == ASSUME IInv, NEW w \in Workers, Estimate(w) PROVE IInv'
  <1>1. /\ pc[w] = "asking" /\ Current(w) \in Efforts
        /\ UNCHANGED <<notice, pushes, lost>>
    BY DEF Estimate, IInv, ClaimKind, history
  <1>2. CASE Fail(w)
    BY <1>1, <1>2, FailEnds, EndsKeep
  <1>3. CASE ~Fail(w)
    <2>1. /\ job' = [job EXCEPT ![Current(w)] = "READY"]
          /\ Advance(w)
          /\ UNCHANGED review
      BY <1>3 DEF Estimate, Finish
    <2>2. \A e \in Events : e # Current(w)
      BY <1>1 DEF Efforts
    <2>3. Ends(w)
      BY <1>1, <2>1, <2>2, AdvanceMoves DEF Ends, IInv, Shape, FinishedIsDecided, Jobs
    <2> QED BY <1>1, <2>3, EndsKeep
  <1> QED BY <1>2, <1>3

LEMMA ConsiderKeeps == ASSUME IInv, NEW w \in Workers, Consider(w) PROVE IInv'
  <1>1. /\ pc[w] = "claimed" /\ Current(w) \in Events
        /\ UNCHANGED <<notice, pushes, lost>>
    BY DEF Consider, IInv, ClaimKind, Reviewing
  <1>2. CASE Fail(w)
    BY <1>1, <1>2, FailEnds, EndsKeep
  <1>3. CASE /\ review' = [review EXCEPT ![Current(w)] = "SUPPRESSED"]
             /\ job' = [job EXCEPT ![Current(w)] = "READY"]
             /\ Finish(w)
    <2>1. Ends(w)
      BY <1>1, <1>3, AdvanceMoves DEF Ends, Finish, IInv, Shape, FinishedIsDecided, Jobs
    <2> QED BY <1>1, <2>1, EndsKeep
  <1>4. CASE /\ review' = [review EXCEPT ![Current(w)] = "REVIEWING"]
             /\ pc' = [pc EXCEPT ![w] = "reviewing"]
             /\ UNCHANGED <<job, lock, batch>>
    <2> USE DEF IInv
    <2>1. Shape' /\ LockHeld'
      BY <1>1, <1>4 DEF Shape, LockHeld
    <2>2. \A v \in Workers : Current(v)' = Current(v)
      BY <1>4 DEF Current
    <2>3. \A v \in Workers \ {w} : pc'[v] = "idle"
      BY <1>1, <1>4, Alone DEF Shape
    <2>4. ClaimKind' /\ DeliveryStands'
      BY <1>1, <1>4, <2>2, <2>3 DEF Shape, ClaimKind, Reviewing, DeliveryStands, Delivering
    <2>5. PushedIsNoticed' /\ PushesAreBounded'
      BY <1>1 DEF PushedIsNoticed, PushesAreBounded
    <2>6. FinishedIsDecided'
      <3>1. job[Current(w)] # "READY"
        BY <1>1 DEF ClaimKind, Reviewing
      <3> QED BY <1>4, <3>1 DEF FinishedIsDecided, Shape
    <2> QED BY <2>1, <2>4, <2>5, <2>6
  <1> QED BY <1>2, <1>3, <1>4 DEF Consider

(* An approval and its row are one commit, before anything is pushed. *)
LEMMA DecideKeeps == ASSUME IInv, NEW w \in Workers, Decide(w) PROVE IInv'
  <1> DEFINE e == Current(w)
  <1>1. /\ pc[w] = "reviewing" /\ e \in Events /\ e \in Jobs /\ job[e] # "READY"
        /\ UNCHANGED <<pushes, lost>>
    BY DEF Decide, IInv, ClaimKind, Reviewing, Jobs, history
  <1>2. PICK decision \in {"APPROVED", "REJECTED"} :
          /\ review' = [review EXCEPT ![e] = decision]
          /\ \/ /\ job' = [job EXCEPT ![e] = "READY"]
                /\ Finish(w)
                /\ UNCHANGED notice
             \/ /\ decision = "APPROVED"
                /\ e \notin notice
                /\ notice' = notice \union {e}
                /\ pc' = [pc EXCEPT ![w] = "delivering"]
                /\ UNCHANGED <<job, lock, batch>>
    BY DEF Decide, Approves, NoticeWith
  <1>3. CASE /\ job' = [job EXCEPT ![e] = "READY"]
             /\ Finish(w)
             /\ UNCHANGED notice
    <2>1. Moves(w)
      BY <1>3, AdvanceMoves DEF Finish, IInv
    <2>2. \A f \in Events : \/ job'[f] # "READY"
                           \/ review'[f] \in {"APPROVED", "REJECTED", "SUPPRESSED"}
      BY <1>1, <1>2, <1>3 DEF IInv, Shape, FinishedIsDecided, Jobs
    <2>3. Ends(w)
      BY <1>1, <1>2, <1>3, <2>1, <2>2 DEF Ends, IInv, Shape
    <2> QED BY <1>1, <2>3, EndsKeep
  <1>4. CASE /\ decision = "APPROVED"
             /\ e \notin notice
             /\ notice' = notice \union {e}
             /\ pc' = [pc EXCEPT ![w] = "delivering"]
             /\ UNCHANGED <<job, lock, batch>>
    <2> USE DEF IInv
    <2>1. Shape' /\ LockHeld'
      BY <1>1, <1>2, <1>4 DEF Shape, LockHeld
    <2>2. \A v \in Workers : Current(v)' = Current(v)
      BY <1>4 DEF Current
    <2>3. \A v \in Workers \ {w} : pc'[v] = "idle"
      BY <1>1, <1>4, Alone DEF Shape
    <2>4. pc'[w] = "delivering" /\ review'[e] = "APPROVED" /\ e \in notice'
      BY <1>1, <1>2, <1>4 DEF Shape
    <2>5. pushes[e] = 0
      BY <1>1, <1>4 DEF Shape, PushedIsNoticed
    <2>6. ClaimKind' /\ DeliveryStands'
      BY <1>1, <1>4, <2>2, <2>3, <2>4, <2>5
         DEF ClaimKind, Reviewing, DeliveryStands, Delivering
    <2>7. PushedIsNoticed' /\ PushesAreBounded'
      BY <1>1, <1>4 DEF PushedIsNoticed, PushesAreBounded
    <2>8. FinishedIsDecided'
      BY <1>1, <1>2, <1>4 DEF FinishedIsDecided, Shape
    <2> QED BY <2>1, <2>6, <2>7, <2>8
  <1> QED BY <1>2, <1>3, <1>4

(* What one attempt to push does to the counts, and where it leads. *)
LEMMA PushStep ==
    ASSUME IInv, NEW w \in Workers, Push(w)
    PROVE  LET e == Current(w)
           IN /\ pc[w] \in {"delivering", "retrying"} /\ e \in Events /\ job[e] # "READY"
              /\ UNCHANGED <<rows, analyses, config, lock, batch, seen, calls, stopped>>
              /\ \E p \in {"retrying", "delivered"} :
                    /\ pc' = [pc EXCEPT ![w] = p]
                    /\ p = "retrying" => pc[w] = "delivering"
              /\ \A f \in Events \ {e} : pushes'[f] = pushes[f]
              /\ pushes' \in [Events -> Nat]
              /\ lost \subseteq lost' /\ lost' \subseteq lost \union {e}
              /\ pushes'[e] \in {pushes[e], pushes[e] + 1}
              /\ pc'[w] = "retrying" /\ pushes'[e] # pushes[e] => e \in lost'
  <1> DEFINE e == Current(w)
  <1>1. pc[w] \in {"delivering", "retrying"} /\ e \in Events /\ job[e] # "READY"
    BY DEF Push, IInv, ClaimKind, Reviewing, Delivering
  <1>2. PICK taken \in BOOLEAN, heard \in BOOLEAN :
          /\ heard => taken
          /\ pushes' = IF taken THEN [pushes EXCEPT ![e] = @ + 1] ELSE pushes
          /\ lost' = IF taken /\ ~heard THEN lost \union {e} ELSE lost
          /\ pc' = [pc EXCEPT ![w] = IF Tried(w, heard) THEN "delivered" ELSE "retrying"]
    BY DEF Push
  <1>3. \E p \in {"retrying", "delivered"} :
          /\ pc' = [pc EXCEPT ![w] = p]
          /\ p = "retrying" => pc[w] = "delivering"
    BY <1>1, <1>2 DEF Tried
  <1>4. /\ \A f \in Events \ {e} : pushes'[f] = pushes[f]
        /\ pushes' \in [Events -> Nat]
        /\ pushes'[e] \in {pushes[e], pushes[e] + 1}
    BY <1>1, <1>2 DEF IInv, Shape
  <1>5. lost \subseteq lost' /\ lost' \subseteq lost \union {e}
    BY <1>2
  <1>6. ASSUME pc'[w] = "retrying", pushes'[e] # pushes[e] PROVE e \in lost'
    <2>1. ~heard
      BY <1>2, <1>6 DEF IInv, Shape, Tried
    <2> QED BY <1>2, <1>6, <2>1
  <1> QED BY <1>1, <1>3, <1>4, <1>5, <1>6 DEF Push

LEMMA PushKeeps == ASSUME IInv, NEW w \in Workers, Push(w) PROVE IInv'
  <1> USE DEF IInv
  <1> DEFINE e == Current(w)
  <1>1. /\ pc[w] \in {"delivering", "retrying"} /\ e \in Events /\ job[e] # "READY"
        /\ UNCHANGED <<job, review, notice, lock, batch>>
    BY PushStep DEF rows, analyses
  <1>2. PICK p \in {"retrying", "delivered"} :
          /\ pc' = [pc EXCEPT ![w] = p]
          /\ p = "retrying" => pc[w] = "delivering"
    BY PushStep
  <1>3. /\ \A f \in Events \ {e} : pushes'[f] = pushes[f]
        /\ pushes' \in [Events -> Nat]
        /\ lost \subseteq lost' /\ lost' \subseteq lost \union {e}
        /\ pushes'[e] \in {pushes[e], pushes[e] + 1}
        /\ pc'[w] = "retrying" /\ pushes'[e] # pushes[e] => e \in lost'
    BY PushStep
  <1>4. pc'[w] = p /\ \A v \in Workers \ {w} : pc'[v] = "idle"
    BY <1>1, <1>2, Alone DEF Shape
  <1>5. Shape' /\ LockHeld'
    BY <1>1, <1>2, <1>3 DEF Shape, LockHeld
  <1>6. \A v \in Workers : Current(v)' = Current(v)
    BY <1>1 DEF Current
  <1>7. /\ review[e] = "APPROVED" /\ e \in notice
        /\ pc[w] = "delivering" => pushes[e] = 0
        /\ pc[w] = "retrying" => pushes[e] <= IF e \in lost THEN 1 ELSE 0
    BY <1>1 DEF DeliveryStands, Delivering
  <1>8. pushes[e] \in Nat /\ pushes'[e] \in Nat
    BY <1>1, <1>3 DEF Shape
  <1>9. p = "retrying" => pushes'[e] <= IF e \in lost' THEN 1 ELSE 0
    BY <1>2, <1>3, <1>4, <1>7, <1>8
  <1>10. ClaimKind' /\ DeliveryStands'
    BY <1>1, <1>4, <1>6, <1>7, <1>9 DEF ClaimKind, Reviewing, DeliveryStands, Delivering
  <1>11. PushedIsNoticed'
    BY <1>1, <1>3, <1>7 DEF PushedIsNoticed
  <1>12. PushesAreBounded'
    <2>1. pushes'[e] <= IF e \in lost' THEN 2 ELSE 1
      BY <1>1, <1>3, <1>7, <1>8
    <2>2. \A f \in Events \ {e} : pushes'[f] <= IF f \in lost' THEN 2 ELSE 1
      BY <1>3 DEF PushesAreBounded
    <2> QED BY <2>1, <2>2 DEF PushesAreBounded
  <1>13. FinishedIsDecided'
    BY <1>1 DEF FinishedIsDecided
  <1> QED BY <1>5, <1>10, <1>11, <1>12, <1>13

LEMMA DeliverKeeps ==
    ASSUME IInv, NEW w \in Workers, Deliver(w) \/ DeliverRaises(w) \/ ReviewFails(w)
    PROVE  IInv'
  <1>1. CASE Deliver(w)
    <2>1. /\ pc[w] = "delivered" /\ review[Current(w)] = "APPROVED"
          /\ job' = [job EXCEPT ![Current(w)] = "READY"]
          /\ Advance(w)
          /\ UNCHANGED <<review, notice, pushes, lost>>
      BY <1>1 DEF Deliver, Delivered, Finish, IInv, DeliveryStands, Delivering, history
    <2>2. Ends(w)
      BY <2>1, AdvanceMoves DEF Ends, IInv, Shape, FinishedIsDecided, Jobs
    <2> QED BY <2>1, <2>2, EndsKeep
  <1>2. CASE DeliverRaises(w) \/ ReviewFails(w)
    <2>1. pc[w] # "idle" /\ Fail(w) /\ UNCHANGED <<notice, pushes, lost>>
      BY <1>2 DEF DeliverRaises, ReviewFails, history
    <2> QED BY <2>1, FailEnds, EndsKeep
  <1> QED BY <1>1, <1>2

(* After an interruption or a crash the rows are as they were, and nobody  *)
(* is in the middle of a job.                                              *)
LEMMA StopKeeps ==
    ASSUME IInv, Crash \/ \E w \in Workers : Interrupt(w) PROVE IInv'
  <1>1. /\ UNCHANGED <<job, review, notice, pushes, lost>>
        /\ pc' = [v \in Workers |-> pc'[v]]
        /\ batch' = [v \in Workers |-> batch'[v]]
        /\ \A v \in Workers : pc'[v] = "idle"
    <2>1. CASE Crash
      BY <2>1 DEF Crash, rows, analyses, history
    <2>2. ASSUME NEW w \in Workers, Interrupt(w) PROVE <1>1!:
      <3>1. \A v \in Workers \ {w} : pc[v] = "idle"
        BY <2>2, Alone DEF Interrupt
      <3> QED BY <2>2, <3>1 DEF Interrupt, rows, analyses, history, IInv, Shape
    <2> QED BY <2>1, <2>2
  <1>2. Shape' /\ LockHeld' /\ ClaimKind' /\ DeliveryStands'
    BY <1>1 DEF IInv, Shape, LockHeld, ClaimKind, Reviewing, DeliveryStands, Delivering
  <1>3. PushedIsNoticed' /\ PushesAreBounded' /\ FinishedIsDecided'
    BY <1>1 DEF IInv, PushedIsNoticed, PushesAreBounded, FinishedIsDecided
  <1> QED BY <1>2, <1>3 DEF IInv

LEMMA StutterKeeps == ASSUME IInv, UNCHANGED vars PROVE IInv'
  <1>1. UNCHANGED <<job, review, notice, pushes, lost, pc, batch, lock>>
    BY DEF vars, rows, analyses, runs, history
  <1>2. Shape' /\ LockHeld' /\ ClaimKind' /\ DeliveryStands'
    BY <1>1 DEF IInv, Shape, LockHeld, ClaimKind, Current, DeliveryStands
  <1>3. PushedIsNoticed' /\ PushesAreBounded' /\ FinishedIsDecided'
    BY <1>1 DEF IInv, PushedIsNoticed, PushesAreBounded, FinishedIsDecided
  <1> QED BY <1>2, <1>3 DEF IInv

LEMMA Inductive == ASSUME IInv, [Next]_vars PROVE IInv'
  <1>1. CASE \/ \E t \in Tasks, h \in Inputs : Observe(t, h)
             \/ \E t \in Tasks : ForceEstimate(t)
             \/ \E e \in Events : Detect(e)
             \/ \E j \in Jobs : Age(j)
             \/ Configure
    BY <1>1, OutsideSteps, OutsideKeeps DEF IInv
  <1>2. ASSUME NEW w \in Workers, Run(w) \/ Step(w) \/ DeliverRaises(w) PROVE IInv'
    BY <1>2, RunKeeps, TakeKeeps, EstimateKeeps, ConsiderKeeps, DecideKeeps,
       PushKeeps, DeliverKeeps DEF Step
  <1>3. CASE Crash \/ \E w \in Workers : Interrupt(w)
    BY <1>3, StopKeeps
  <1>4. CASE UNCHANGED vars
    BY <1>4, StutterKeeps
  <1> QED BY <1>1, <1>2, <1>3, <1>4 DEF Next

LEMMA Invariance == Spec => []IInv
  <1>1. Init => IInv
    BY Initially
  <1>2. IInv /\ [Next]_vars => IInv'
    BY Inductive
  <1> QED BY <1>1, <1>2, PTL DEF Spec

-----------------------------------------------------------------------------
(* Types.  The prover needs to know that a run that is under way has a     *)
(* current job.                                                            *)
Standing == \A w \in Workers : pc[w] # "idle" => batch[w] # <<>>

JobStates == {"NONE", "PENDING", "REVIEWING", "READY", "FAILED", "WAITING_AI"}
Reviews == {"NONE", "PENDING", "REVIEWING", "APPROVED", "REJECTED", "SUPPRESSED", "FAILED"}
Analysis == [status : {"NONE", "PENDING", "READY", "FAILED"}, input : Inputs \union {None}]

RowTypes ==
    /\ job \in [Jobs -> JobStates]
    /\ attempts \in [Jobs -> Nat]
    /\ queue \in Seq(Jobs)
    /\ stale \in SUBSET Jobs

AnalysisTypes ==
    /\ effort \in [Tasks -> Analysis]
    /\ facts \in [Tasks -> Inputs]
    /\ answered \in SUBSET Efforts
    /\ review \in [Events -> Reviews]
    /\ notice \in SUBSET Events

RunTypes ==
    /\ lock \in Workers \union {None}
    /\ pc \in [Workers -> {"idle", "picking"} \union Busy]
    /\ batch \in [Workers -> Seq(Jobs)]
    /\ seen \in [Workers -> [Jobs -> Nat \union {None}]]

HistoryTypes ==
    /\ calls \in [Jobs -> Nat]
    /\ pushes \in [Events -> Nat]
    /\ lost \in SUBSET Events
    /\ stopped \in BOOLEAN

ConfigTypes == enabled \in BOOLEAN /\ chatReady \in BOOLEAN

TInv == RowTypes /\ AnalysisTypes /\ ConfigTypes /\ RunTypes /\ HistoryTypes /\ Standing

LEMMA TypesOK == TInv => TypeOK
  BY DEF TInv, RowTypes, AnalysisTypes, ConfigTypes, RunTypes, HistoryTypes, TypeOK, JobStates,
         Reviews, Analysis

LEMMA Pairs == \A j \in Efforts : j[1] \in Tasks /\ j[2] \in Inputs /\ j = <<j[1], j[2]>>
  BY DEF Efforts

LEMMA Analyses ==
    ASSUME effort \in [Tasks -> Analysis]
    PROVE  /\ \A h \in Inputs : /\ [status |-> "PENDING", input |-> h] \in Analysis
                                /\ [status |-> "READY", input |-> h] \in Analysis
           /\ \A t \in Tasks : FailEffort(t) \in Analysis
  <1>1. \A h \in Inputs : /\ [status |-> "PENDING", input |-> h] \in Analysis
                         /\ [status |-> "READY", input |-> h] \in Analysis
    BY DEF Analysis
  <1>2. ASSUME NEW t \in Tasks PROVE FailEffort(t) \in Analysis
    <2>1. effort[t] \in Analysis
      OBVIOUS
    <2> QED BY <2>1 DEF Analysis, FailEffort
  <1> QED BY <1>1, <1>2

LEMMA CurrentIsJob ==
    ASSUME TInv, NEW w \in Workers, pc[w] # "idle"
    PROVE  Current(w) \in Jobs /\ Tail(batch[w]) \in Seq(Jobs)
  BY DEF TInv, RunTypes, Standing, Current

LEMMA AdvanceTypes ==
    ASSUME TInv, NEW w \in Workers, pc[w] # "idle", Advance(w),
           seen' \in [Workers -> [Jobs -> Nat \union {None}]]
    PROVE  RunTypes' /\ Standing'
  <1>1. Tail(batch[w]) \in Seq(Jobs)
    BY CurrentIsJob
  <1>2. lock' \in Workers \union {None} /\ pc' \in [Workers -> {"idle", "picking"} \union Busy]
    BY DEF TInv, RunTypes, Advance
  <1>3. batch' \in [Workers -> Seq(Jobs)]
    BY <1>1 DEF TInv, RunTypes, Advance
  <1>4. Standing'
    BY DEF TInv, RunTypes, Standing, Advance
  <1> QED BY <1>2, <1>3, <1>4 DEF RunTypes

(* What is left of a step that ends the current job. *)
LEMMA FinishTypes ==
    ASSUME TInv, NEW w \in Workers, pc[w] # "idle", Finish(w),
           NEW s \in JobStates, job' = [job EXCEPT ![Current(w)] = s],
           UNCHANGED <<attempts, queue, stale>>
    PROVE  RowTypes' /\ RunTypes' /\ Standing'
  <1>1. RunTypes' /\ Standing'
    BY AdvanceTypes DEF Finish, Expired, TInv, RunTypes
  <1> QED BY <1>1 DEF TInv, RowTypes

LEMMA FailTypes ==
    ASSUME TInv, NEW w \in Workers, pc[w] # "idle", Fail(w),
           UNCHANGED <<attempts, queue, stale, facts, answered, notice>>
    PROVE  RowTypes' /\ AnalysisTypes' /\ RunTypes' /\ Standing'
  <1>1. Current(w) \in Jobs
    BY CurrentIsJob
  <1>2. seen' \in [Workers -> [Jobs -> Nat \union {None}]]
    BY DEF Fail, Expired, TInv, RunTypes
  <1>3. RunTypes' /\ Standing'
    BY <1>2, AdvanceTypes DEF Fail
  <1>4. RowTypes'
    BY <1>1 DEF Fail, TInv, RowTypes, JobStates
  <1>5. CASE Current(w) \in Events
    BY <1>3, <1>4, <1>5 DEF Fail, TInv, AnalysisTypes, Reviews
  <1>6. CASE Current(w) \notin Events
    <2>1. Current(w)[1] \in Tasks
      BY <1>1, <1>6, Pairs DEF Jobs
    <2>2. FailEffort(Current(w)[1]) \in Analysis
      BY <2>1, Analyses DEF TInv, AnalysisTypes
    <2>3. effort' \in [Tasks -> Analysis] /\ UNCHANGED review
      BY <1>6, <2>1, <2>2 DEF Fail, TInv, AnalysisTypes
    <2> QED BY <1>3, <1>4, <2>3 DEF TInv, AnalysisTypes
  <1> QED BY <1>5, <1>6

LEMMA ClaimTypes ==
    ASSUME TInv, NEW w \in Workers, pc[w] # "idle", NEW to \in Busy, Claim(w, to),
           UNCHANGED queue
    PROVE  RowTypes' /\ RunTypes' /\ Standing'
  <1>1. Current(w) \in Jobs
    BY CurrentIsJob
  <1>2. (IF seen[w][Current(w)] = None THEN attempts[Current(w)] ELSE seen[w][Current(w)]) \in Nat
    BY <1>1 DEF TInv, RowTypes, RunTypes
  <1>3. seen' \in [Workers -> [Jobs -> Nat \union {None}]] /\ attempts' \in [Jobs -> Nat]
    BY <1>1, <1>2 DEF Claim, TInv, RowTypes, RunTypes
  <1>4. Standing'
    BY DEF Claim, TInv, RunTypes, Standing
  <1>5. RunTypes'
    BY <1>3 DEF Claim, RunTypes, TInv
  <1> QED BY <1>3, <1>4, <1>5 DEF Claim, TInv, RowTypes, JobStates

LEMMA InitTypes == Init => TInv
  <1> SUFFICES ASSUME Init PROVE TInv
    OBVIOUS
  <1>1. RowTypes
    BY DEF Init, RowTypes, JobStates
  <1>4. HistoryTypes
    BY DEF Init, HistoryTypes
  <1>5. ConfigTypes
    BY DEF Init, ConfigTypes
  <1>2. AnalysisTypes
    <2>1. [status |-> "NONE", input |-> None] \in Analysis
      BY DEF Analysis
    <2>2. effort \in [Tasks -> Analysis]
      BY <2>1 DEF Init
    <2> QED BY <2>2 DEF Init, AnalysisTypes, Reviews
  <1>3. RunTypes /\ Standing
    BY DEF Init, RunTypes, Standing, Expired
  <1> QED BY <1>1, <1>2, <1>3, <1>4, <1>5 DEF TInv

LEMMA CreateTypes == ASSUME TInv, NEW j \in Jobs, CreateJob(j) PROVE RowTypes'
  BY DEF TInv, RowTypes, CreateJob, JobStates

LEMMA OutsideTypes ==
    ASSUME TInv, \/ \E t \in Tasks, h \in Inputs : Observe(t, h)
                 \/ \E t \in Tasks : ForceEstimate(t)
                 \/ \E e \in Events : Detect(e)
                 \/ \E j \in Jobs : Age(j)
                 \/ Configure
    PROVE  TInv'
  <1> USE DEF TInv
  <1>1. ASSUME NEW t \in Tasks, NEW h \in Inputs, Observe(t, h) PROVE TInv'
    <2>1. <<t, h>> \in Jobs
      BY DEF Jobs, Efforts
    <2>2. RowTypes'
      BY <1>1, <2>1, CreateTypes DEF Observe, rows, RowTypes
    <2>3. AnalysisTypes'
      BY <1>1, Analyses DEF Observe, AnalysisTypes
    <2> QED BY <1>1, <2>2, <2>3 DEF Observe, RunTypes, ConfigTypes, HistoryTypes, Standing,
               config, runs, history
  <1>2. ASSUME NEW t \in Tasks, ForceEstimate(t) PROVE TInv'
    <2>1. facts[t] \in Inputs /\ <<t, facts[t]>> \in Jobs
      BY DEF Jobs, Efforts, AnalysisTypes
    <2>2. RowTypes'
      <3>1. CASE CreateJob(<<t, facts[t]>>)
        BY <2>1, <3>1, CreateTypes
      <3>2. CASE /\ job' = [job EXCEPT ![<<t, facts[t]>>] = "PENDING"]
                 /\ attempts' = [attempts EXCEPT ![<<t, facts[t]>>] = 0]
                 /\ UNCHANGED <<queue, stale>>
        BY <2>1, <3>2 DEF RowTypes, JobStates
      <3> QED BY <1>2, <3>1, <3>2 DEF ForceEstimate
    <2>3. AnalysisTypes'
      BY <1>2, <2>1, Analyses DEF ForceEstimate, AnalysisTypes
    <2> QED BY <1>2, <2>1, <2>2, <2>3 DEF ForceEstimate, RunTypes, ConfigTypes, HistoryTypes,
               Standing, config, runs
  <1>3. ASSUME NEW e \in Events, Detect(e) PROVE TInv'
    <2>1. RowTypes'
      BY <1>3, CreateTypes DEF Detect, rows, RowTypes, Jobs
    <2>2. AnalysisTypes'
      BY <1>3 DEF Detect, AnalysisTypes, Reviews
    <2> QED BY <1>3, <2>1, <2>2 DEF Detect, RunTypes, ConfigTypes, HistoryTypes, Standing,
               config, runs, history
  <1>4. ASSUME NEW j \in Jobs, Age(j) PROVE TInv'
    BY <1>4 DEF Age, RowTypes, AnalysisTypes, RunTypes, ConfigTypes, HistoryTypes, Standing,
       analyses, config, runs, history
  <1>5. ASSUME Configure PROVE TInv'
    BY <1>5 DEF Configure, RowTypes, AnalysisTypes, RunTypes, ConfigTypes, HistoryTypes, Standing,
       rows, analyses, runs, history
  <1> QED BY <1>1, <1>2, <1>3, <1>4, <1>5

(* The batch a run chooses, by its places in the queue. *)
Chosen(w, n, at) ==
    /\ at \in [1..n -> DOMAIN queue]
    /\ Picks(at)
    /\ batch' = [batch EXCEPT ![w] = [i \in 1..n |-> queue[at[i]]]]
    /\ seen' = [seen EXCEPT ![w] = [j \in Jobs |-> IF \E i \in 1..n : queue[at[i]] = j
                                                   THEN attempts[j] ELSE None]]
    /\ IF n = 0 THEN UNCHANGED <<lock, pc>>
       ELSE lock' = w /\ pc' = [pc EXCEPT ![w] = "picking"]

LEMMA RunChooses == ASSUME NEW w, Run(w) PROVE \E n \in 0..Limit : \E at : Chosen(w, n, at)
  <1>1. PICK n \in 0..Limit : \E at \in [1..n -> DOMAIN queue] :
          /\ Picks(at)
          /\ batch' = [batch EXCEPT ![w] = [i \in 1..n |-> queue[at[i]]]]
          /\ seen' = [seen EXCEPT ![w] = [j \in Jobs |-> IF \E i \in 1..n : queue[at[i]] = j
                                                         THEN attempts[j] ELSE None]]
          /\ IF n = 0 THEN UNCHANGED <<lock, pc>>
             ELSE lock' = w /\ pc' = [pc EXCEPT ![w] = "picking"]
    BY DEF Run
  <1>2. PICK at \in [1..n -> DOMAIN queue] : Chosen(w, n, at)
    BY <1>1 DEF Chosen
  <1> QED BY <1>2

LEMMA RunTypesKept == ASSUME TInv, NEW w \in Workers, Run(w) PROVE TInv'
  <1> USE DEF TInv
  <1>1. PICK n \in 0..Limit : \E at : Chosen(w, n, at)
    BY RunChooses
  <1>2. PICK at : Chosen(w, n, at)
    BY <1>1
  <1> DEFINE b == [i \in 1..n |-> queue[at[i]]]
  <1>3. b \in Seq(Jobs) /\ (n # 0 => b # <<>>)
    <2>1. \A i \in 1..n : at[i] \in DOMAIN queue /\ queue[at[i]] \in Jobs
      BY <1>2 DEF Chosen, RowTypes
    <2>2. n \in Nat /\ b \in [1..n -> Jobs]
      BY <2>1
    <2>4. b \in Seq(Jobs)
      BY <2>2
    <2>3. n # 0 => b # <<>>
      OBVIOUS
    <2> QED BY <2>3, <2>4
  <1>4. lock' \in Workers \union {None} /\ pc' \in [Workers -> {"idle", "picking"} \union Busy]
    BY <1>2 DEF Chosen, RunTypes
  <1>5. batch' \in [Workers -> Seq(Jobs)]
    BY <1>2, <1>3 DEF Chosen, RunTypes
  <1>6. seen' \in [Workers -> [Jobs -> Nat \union {None}]]
    <2>1. [j \in Jobs |-> IF \E i \in 1..n : queue[at[i]] = j THEN attempts[j] ELSE None]
            \in [Jobs -> Nat \union {None}]
      BY DEF RowTypes
    <2> QED BY <1>2, <2>1 DEF Chosen, RunTypes
  <1>7. Standing'
    <2>1. batch'[w] = b /\ \A v \in Workers \ {w} : batch'[v] = batch[v]
      BY <1>2 DEF Chosen, RunTypes
    <2>2. pc[w] = "idle"
      BY DEF Run
    <2>3. \A v \in Workers \ {w} : pc'[v] = pc[v]
      BY <1>2 DEF Chosen, RunTypes
    <2>4. n = 0 => pc'[w] = "idle"
      BY <1>2, <2>2 DEF Chosen
    <2> QED BY <1>3, <2>1, <2>3, <2>4 DEF Standing
  <1>8. RowTypes'
    <2>1. \A j \in Jobs : Recovery[j] \in JobStates
      BY DEF Recovery, Recovered, RowTypes, JobStates
    <2>2. \A j \in Jobs : Parked(j, Recovery[j]) \in JobStates
      BY <2>1 DEF Parked, JobStates
    <2> QED BY <2>2 DEF Run, RowTypes
  <1>9. AnalysisTypes'
    <2>1. effort' \in [Tasks -> Analysis]
      BY Analyses DEF Run, AnalysisTypes
    <2>2. review' \in [Events -> Reviews]
      BY DEF Run, AnalysisTypes, Reviews
    <2> QED BY <2>1, <2>2 DEF Run, AnalysisTypes
  <1> QED BY <1>4, <1>5, <1>6, <1>7, <1>8, <1>9
          DEF Run, RunTypes, ConfigTypes, HistoryTypes, config, history

LEMMA StepTypes ==
    ASSUME IInv, TInv, NEW w \in Workers, Step(w) \/ DeliverRaises(w) PROVE TInv'
  <1> DEFINE c == Current(w)
  <1>1. c \in Jobs /\ pc[w] # "idle"
    BY CurrentIsJob DEF Step, TakeEffort, TakeReview, Estimate, Consider, Decide, ReviewFails,
       Push, Deliver, DeliverRaises
  <1>2. [calls EXCEPT ![c] = @ + 1] \in [Jobs -> Nat]
    BY <1>1 DEF TInv, HistoryTypes
  <1>3. CASE TakeEffort(w)
    <2>1. calls' \in [Jobs -> Nat]
      BY <1>2, <1>3 DEF TakeEffort, TInv, HistoryTypes
    <2>2. RowTypes' /\ AnalysisTypes' /\ RunTypes' /\ Standing'
      BY <1>1, <1>3, ClaimTypes, FailTypes DEF TakeEffort, TInv, AnalysisTypes, Busy
    <2> QED BY <1>3, <2>1, <2>2 DEF TakeEffort, TInv, HistoryTypes, ConfigTypes, config
  <1>4. CASE TakeReview(w)
    <2>1. RowTypes' /\ RunTypes' /\ Standing'
      BY <1>1, <1>4, ClaimTypes, FinishTypes DEF TakeReview, Busy, JobStates
    <2> QED BY <1>4, <2>1 DEF TakeReview, TInv, AnalysisTypes, HistoryTypes, ConfigTypes,
               analyses, config, history
  <1>5. CASE Estimate(w)
    <2>1. CASE Fail(w) /\ UNCHANGED answered
      BY <1>1, <1>5, <2>1, FailTypes DEF Estimate, TInv, HistoryTypes, ConfigTypes, config, history
    <2>2. CASE /\ Estimated(c)
               /\ job' = [job EXCEPT ![c] = "READY"]
               /\ Finish(w)
               /\ UNCHANGED review
      <3>1. c \in Efforts
        BY <1>5 DEF Estimate, IInv, ClaimKind
      <3>2. effort' \in [Tasks -> Analysis] /\ answered' \in SUBSET Efforts
        BY <2>2, <3>1, Pairs, Analyses DEF Estimated, TInv, AnalysisTypes
      <3>3. RowTypes' /\ RunTypes' /\ Standing'
        BY <1>1, <1>5, <2>2, FinishTypes DEF Estimate, JobStates
      <3> QED BY <1>5, <2>2, <3>2, <3>3 DEF Estimate, TInv, AnalysisTypes, HistoryTypes,
                 ConfigTypes, config, history
    <2> QED BY <1>5, <2>1, <2>2 DEF Estimate
  <1>6. CASE Consider(w)
    <2>1. c \in Events
      BY <1>6 DEF Consider, IInv, ClaimKind, Reviewing
    <2>2. CASE Fail(w) /\ UNCHANGED calls
      BY <1>1, <1>6, <2>2, FailTypes DEF Consider, TInv, HistoryTypes, ConfigTypes, config
    <2>3. CASE /\ review' = [review EXCEPT ![c] = "SUPPRESSED"]
               /\ job' = [job EXCEPT ![c] = "READY"]
               /\ Finish(w)
               /\ UNCHANGED <<effort, calls>>
      <3>1. RowTypes' /\ RunTypes' /\ Standing'
        BY <1>1, <1>6, <2>3, FinishTypes DEF Consider, JobStates
      <3> QED BY <1>6, <2>1, <2>3, <3>1 DEF Consider, TInv, AnalysisTypes, Reviews, HistoryTypes,
                 ConfigTypes, config
    <2>4. CASE /\ review' = [review EXCEPT ![c] = "REVIEWING"]
               /\ calls' = [calls EXCEPT ![c] = @ + 1]
               /\ pc' = [pc EXCEPT ![w] = "reviewing"]
               /\ UNCHANGED <<job, effort, lock, batch, seen>>
      <3>1. RunTypes' /\ Standing'
        BY <1>1, <2>4 DEF TInv, RunTypes, Standing, Busy
      <3>2. AnalysisTypes' /\ HistoryTypes'
        BY <1>2, <1>6, <2>1, <2>4 DEF Consider, TInv, AnalysisTypes, Reviews, HistoryTypes
      <3> QED BY <1>6, <2>4, <3>1, <3>2 DEF Consider, TInv, RowTypes, ConfigTypes, config
    <2> QED BY <1>6, <2>2, <2>3, <2>4 DEF Consider
  <1>7. CASE Decide(w)
    <2>1. c \in Events
      BY <1>7 DEF Decide, IInv, ClaimKind, Reviewing
    <2>2. PICK decision \in {"APPROVED", "REJECTED"} :
            /\ review' = [review EXCEPT ![c] = decision]
            /\ \/ /\ job' = [job EXCEPT ![c] = "READY"]
                  /\ Finish(w)
                  /\ UNCHANGED notice
               \/ /\ notice' = NoticeWith(c)
                  /\ pc' = [pc EXCEPT ![w] = "delivering"]
                  /\ UNCHANGED <<job, lock, batch, seen>>
      BY <1>7 DEF Decide
    <2>3. AnalysisTypes'
      BY <1>7, <2>1, <2>2 DEF Decide, NoticeWith, TInv, AnalysisTypes, Reviews
    <2>4. HistoryTypes'
      BY <1>7 DEF Decide, TInv, HistoryTypes, history
    <2>5. RowTypes' /\ RunTypes' /\ Standing'
      <3>1. CASE job' = [job EXCEPT ![c] = "READY"] /\ Finish(w)
        BY <1>1, <1>7, <3>1, FinishTypes DEF Decide, JobStates
      <3>2. CASE pc' = [pc EXCEPT ![w] = "delivering"] /\ UNCHANGED <<job, lock, batch, seen>>
        BY <1>1, <1>7, <3>2 DEF Decide, TInv, RowTypes, RunTypes, Standing, Busy,
           Delivering
      <3> QED BY <2>2, <3>1, <3>2
    <2> QED BY <1>7, <2>3, <2>4, <2>5 DEF Decide, TInv, ConfigTypes, config
  <1>8. CASE ReviewFails(w) \/ DeliverRaises(w)
    <2>1. RowTypes' /\ AnalysisTypes' /\ RunTypes' /\ Standing'
      BY <1>1, <1>8, FailTypes DEF ReviewFails, DeliverRaises
    <2> QED BY <1>8, <2>1 DEF ReviewFails, DeliverRaises, TInv, HistoryTypes, ConfigTypes, config,
               history
  <1>9. CASE Deliver(w)
    <2>1. RowTypes' /\ RunTypes' /\ Standing'
      BY <1>1, <1>9, FinishTypes DEF Deliver, Delivered, JobStates
    <2> QED BY <1>9, <2>1 DEF Deliver, Delivered, TInv, AnalysisTypes, HistoryTypes, ConfigTypes,
               config, history
  <1>10. CASE Push(w)
    <2>1. PICK p \in {"retrying", "delivered"} : pc' = [pc EXCEPT ![w] = p]
      BY <1>10, PushStep
    <2>2. /\ UNCHANGED <<rows, analyses, config, lock, batch, seen, calls, stopped>>
          /\ c \in Events /\ pushes' \in [Events -> Nat] /\ lost' \subseteq lost \union {c}
      BY <1>10, PushStep
    <2>3. RunTypes' /\ Standing'
      BY <1>1, <2>1, <2>2 DEF TInv, RunTypes, Standing, Busy, Delivering
    <2>4. HistoryTypes'
      BY <2>2 DEF TInv, HistoryTypes
    <2> QED BY <2>2, <2>3, <2>4 DEF TInv, RowTypes, AnalysisTypes, ConfigTypes, rows, analyses,
               config
  <1> QED BY <1>3, <1>4, <1>5, <1>6, <1>7, <1>8, <1>9, <1>10 DEF Step

LEMMA StopTypes == ASSUME TInv, Crash \/ \E w \in Workers : Interrupt(w) PROVE TInv'
  <1>1. CASE Crash
    BY <1>1 DEF Crash, TInv, RowTypes, AnalysisTypes, RunTypes, Standing, HistoryTypes, ConfigTypes,
       Expired, rows, analyses
  <1>2. ASSUME NEW w \in Workers, Interrupt(w) PROVE TInv'
    BY <1>2 DEF Interrupt, TInv, RowTypes, AnalysisTypes, RunTypes, Standing, HistoryTypes,
       ConfigTypes, Expired, rows, analyses, config
  <1> QED BY <1>1, <1>2

LEMMA StutterTypes == ASSUME TInv, UNCHANGED vars PROVE TInv'
  BY DEF vars, rows, analyses, config, runs, history, TInv, RowTypes, AnalysisTypes, RunTypes,
         Standing, HistoryTypes, ConfigTypes

LEMMA TypesKept == ASSUME IInv, TInv, [Next]_vars PROVE TInv'
  BY OutsideTypes, RunTypesKept, StepTypes, StopTypes, StutterTypes DEF Next

LEMMA TypeInvariance == Spec => [](IInv /\ TInv)
  <1>1. Init => IInv /\ TInv
    BY Initially, InitTypes
  <1>2. IInv /\ TInv /\ [Next]_vars => IInv' /\ TInv'
    BY Inductive, TypesKept
  <1> QED BY <1>1, <1>2, PTL DEF Spec

(* The queue's rows, analyses and runs keep their types. *)
THEOREM QueueIsTyped == Spec => []TypeOK
  BY TypeInvariance, TypesOK, PTL

-----------------------------------------------------------------------------
(* Attempts.  A run claims what it loaded: a job further down its batch is *)
(* still pending, and the attempts its session remembers are no fewer than *)
(* the row's, a forced retry apart, and below the limit.                   *)
Queued ==
    /\ \A p \in DOMAIN queue : job[queue[p]] # "NONE"
    /\ \A p, q \in DOMAIN queue : queue[p] = queue[q] => p = q
    /\ \A e \in Events : review[e] = "NONE" => job[e] = "NONE"

Once(w) == \A i, k \in DOMAIN batch[w] : batch[w][i] = batch[w][k] => i = k

Loaded(w, j) ==
    /\ job[j] = "PENDING"
    /\ seen[w][j] # None => attempts[j] <= seen[w][j] /\ seen[w][j] < MaxAttempts

Lined ==
    \A w \in Workers : pc[w] # "idle" =>
        /\ Once(w)
        /\ \A i \in DOMAIN batch[w] : pc[w] = "picking" \/ i > 1 => Loaded(w, batch[w][i])

Counted ==
    \A j \in Jobs : /\ calls[j] <= attempts[j]
                    /\ attempts[j] <= MaxAttempts
                    /\ job[j] \in {"NONE", "PENDING", "WAITING_AI"} => attempts[j] < MaxAttempts

Claimed ==
    \A w \in Workers : /\ pc[w] = "claimed" => calls[Current(w)] < attempts[Current(w)]
                       /\ pc[w] \in Busy => job[Current(w)] \in {"PENDING", "REVIEWING"}

CInv == IInv /\ TInv /\ Queued /\ Lined /\ Counted /\ Claimed /\ FailureIsEarned

LEMMA InitCounts == Init => Queued /\ Lined /\ Counted /\ Claimed /\ FailureIsEarned
  BY DEF Init, Queued, Lined, Counted, Claimed, FailureIsEarned, Busy, Jobs, Efforts, Delivering

(* While a run is under way its current job is pending or claimed, and so  *)
(* not the one that makes a task's estimate fail.                          *)
LEMMA CurrentOpen ==
    ASSUME CInv, NEW w \in Workers, pc[w] # "idle"
    PROVE  /\ Current(w) \in Jobs
           /\ Current(w) = batch[w][1] /\ 1 \in DOMAIN batch[w]
           /\ job[Current(w)] \in {"PENDING", "REVIEWING"}
           /\ pc[w] = "picking" => Loaded(w, Current(w))
  <1>1. Current(w) \in Jobs /\ batch[w] \in Seq(Jobs) /\ batch[w] # <<>>
    BY CurrentIsJob DEF CInv, TInv, RunTypes, Standing
  <1>2. Current(w) = batch[w][1] /\ 1 \in DOMAIN batch[w]
    BY <1>1 DEF Current
  <1>3. CASE pc[w] = "picking"
    BY <1>1, <1>2, <1>3 DEF CInv, Lined, Loaded
  <1>4. CASE pc[w] \in Busy
    BY <1>1, <1>2, <1>4 DEF CInv, Claimed, Busy, Delivering
  <1> QED BY <1>3, <1>4 DEF CInv, TInv, RunTypes

(* The run that ends its current job leaves the rest of its batch as it    *)
(* was loaded, or forgets what it loaded.                                  *)
LEMMA RestIsLined ==
    ASSUME CInv, NEW w \in Workers, pc[w] # "idle", Advance(w), TInv',
           NEW s, job' = [job EXCEPT ![Current(w)] = s], UNCHANGED attempts,
           \A j \in Jobs : seen'[w][j] \in {None, seen[w][j]}
    PROVE  Lined'
  <1>1. \A v \in Workers \ {w} : pc'[v] = "idle"
    BY Alone DEF Advance, CInv, TInv, RunTypes
  <1> DEFINE b == batch[w]
  <1>2. b \in Seq(Jobs) /\ b # <<>> /\ batch'[w] = Tail(b)
    BY DEF Advance, CInv, TInv, RunTypes, Standing
  <1>3. \A i \in DOMAIN Tail(b) : i + 1 \in DOMAIN b /\ i + 1 > 1 /\ Tail(b)[i] = b[i + 1]
    BY <1>2
  <1>4. Once(w)
    BY DEF CInv, Lined
  <1>5. Once(w)'
    <2> SUFFICES ASSUME NEW i \in DOMAIN Tail(b), NEW k \in DOMAIN Tail(b), Tail(b)[i] = Tail(b)[k]
                 PROVE  i = k
      BY <1>2 DEF Once
    <2>1. i + 1 = k + 1
      BY <1>3, <1>4 DEF Once
    <2>2. i \in Nat /\ k \in Nat
      BY <1>2
    <2> QED BY <2>1, <2>2
  <1>6. ASSUME NEW i \in DOMAIN Tail(b), NEW j \in Jobs, j = Tail(b)[i] PROVE Loaded(w, j)'
    <2>1. j = b[i + 1] /\ i + 1 \in DOMAIN b /\ i + 1 > 1
      BY <1>3, <1>6
    <2>2. Loaded(w, j)
      BY <2>1 DEF CInv, Lined
    <2>3. j # b[1]
      <3>1. 1 \in DOMAIN b /\ i + 1 # 1
        BY <1>2, <2>1
      <3> QED BY <1>2, <1>4, <2>1, <3>1 DEF Once
    <2>4. Current(w) = b[1]
      BY CurrentOpen
    <2>5. job'[j] = job[j]
      BY <2>3, <2>4 DEF CInv, TInv, RowTypes
    <2> QED BY <2>1, <2>2, <2>3, <2>5 DEF Loaded
  <1>7. ASSUME NEW i \in DOMAIN batch'[w] PROVE Loaded(w, batch[w][i])'
    <2>1. PICK j \in Jobs : j = Tail(b)[i]
      BY <1>2
    <2>2. Loaded(w, j)' /\ j = batch'[w][i]
      BY <1>2, <1>6, <2>1
    <2> QED BY <2>2 DEF Loaded
  <1> QED BY <1>1, <1>5, <1>7 DEF Lined

LEMMA EndCounts ==
    ASSUME CInv, NEW w \in Workers, pc[w] # "idle", Advance(w), TInv',
           NEW s \in JobStates \ {"NONE"}, job' = [job EXCEPT ![Current(w)] = s],
           s \in {"PENDING", "WAITING_AI"} => attempts[Current(w)] < MaxAttempts,
           UNCHANGED <<attempts, queue, calls>>,
           \A j \in Jobs : seen'[w][j] \in {None, seen[w][j]},
           \A e \in Events : review'[e] = "NONE" => review[e] = "NONE"
    PROVE  Queued' /\ Lined' /\ Counted' /\ Claimed'
  <1>1. Current(w) \in Jobs /\ job[Current(w)] # "NONE"
    BY CurrentOpen
  <1>2. Lined'
    BY RestIsLined
  <1>3. \A j \in Jobs : job'[j] = IF j = Current(w) THEN s ELSE job[j]
    BY DEF CInv, TInv, RowTypes
  <1>4. Queued'
    BY <1>1, <1>3 DEF CInv, Queued, Jobs, TInv, RowTypes
  <1>5. Counted'
    BY <1>1, <1>3 DEF CInv, Counted
  <1>6. Claimed'
    <2>1. \A v \in Workers : pc'[v] \notin Busy
      <3>1. \A v \in Workers \ {w} : pc'[v] = pc[v] /\ pc[v] = "idle"
        BY Alone DEF Advance, CInv, TInv, RunTypes
      <3>2. pc'[w] \in {"idle", "picking"}
        BY DEF Advance, CInv, TInv, RunTypes
      <3> QED BY <3>1, <3>2 DEF Busy, Delivering
    <2> QED BY <2>1 DEF Claimed, Busy
  <1> QED BY <1>2, <1>4, <1>5, <1>6

(* A job that is not failed can change without a failure being unearned.   *)
LEMMA StillEarned ==
    ASSUME CInv, NEW w \in Workers, pc[w] # "idle",
           NEW s, job' = [job EXCEPT ![Current(w)] = s],
           \A t \in Tasks : effort'[t].status = "FAILED" =>
              effort[t].status = "FAILED" \/ \E h \in Inputs : job'[<<t, h>>] = "FAILED"
    PROVE  FailureIsEarned'
  <1> SUFFICES ASSUME NEW t \in Tasks, effort'[t].status = "FAILED"
               PROVE  \E h \in Inputs : job'[<<t, h>>] = "FAILED"
    BY DEF FailureIsEarned
  <1>1. CASE effort[t].status = "FAILED"
    <2>1. PICK h \in Inputs : job[<<t, h>>] = "FAILED"
      BY <1>1 DEF CInv, FailureIsEarned
    <2>2. <<t, h>> # Current(w)
      BY <2>1, CurrentOpen
    <2>3. job'[<<t, h>>] = job[<<t, h>>]
      BY <2>2 DEF CInv, TInv, RowTypes
    <2> QED BY <2>1, <2>3
  <1> QED BY <1>1

LEMMA FailCounts ==
    ASSUME CInv, NEW w \in Workers, pc[w] # "idle", Fail(w), TInv',
           UNCHANGED <<attempts, queue, calls>>
    PROVE  Queued' /\ Lined' /\ Counted' /\ Claimed' /\ FailureIsEarned'
  <1> DEFINE c == Current(w)
             s == IF Terminal(c) THEN "FAILED" ELSE "PENDING"
  <1>1. c \in Jobs
    BY CurrentOpen
  <1>2. job' = [job EXCEPT ![c] = s] /\ s \in JobStates \ {"NONE"}
    BY DEF Fail, JobStates
  <1>3. s \in {"PENDING", "WAITING_AI"} => attempts[c] < MaxAttempts
    BY <1>1 DEF Terminal, CInv, TInv, RowTypes
  <1>4. \A j \in Jobs : seen'[w][j] \in {None, seen[w][j]}
    BY DEF Fail, Expired, CInv, TInv, RunTypes
  <1>5. \A e \in Events : review'[e] = "NONE" => review[e] = "NONE"
    BY DEF Fail, CInv, TInv, AnalysisTypes
  <1>6. Queued' /\ Lined' /\ Counted' /\ Claimed'
    <2>1. Advance(w)
      BY DEF Fail
    <2> HIDE DEF s
    <2> QED BY <1>2, <1>3, <1>4, <1>5, <2>1, EndCounts
  <1>7. FailureIsEarned'
    <2>1. ASSUME NEW t \in Tasks, effort'[t].status = "FAILED", effort[t].status # "FAILED"
          PROVE  \E h \in Inputs : job'[<<t, h>>] = "FAILED"
      <3>1. c \in Efforts /\ t = c[1] /\ Terminal(c)
        BY <1>1, <2>1 DEF Fail, EffortGivenUp, CInv, TInv, AnalysisTypes, Jobs
      <3>2. c = <<t, c[2]>> /\ c[2] \in Inputs
        BY <3>1, Pairs
      <3>3. job'[c] = "FAILED"
        BY <1>1, <1>2, <3>1 DEF CInv, TInv, RowTypes
      <3> QED BY <3>2, <3>3
    <2> QED BY <1>2, <2>1, StillEarned
  <1> QED BY <1>6, <1>7

LEMMA ClaimCounts ==
    ASSUME CInv, NEW w \in Workers, pc[w] = "picking", NEW to \in {"asking", "claimed"}, Claim(w, to), TInv',
           UNCHANGED <<queue, effort, review>>,
           \A j \in Jobs : calls'[j] \in {calls[j], IF j = Current(w) /\ to = "asking" THEN calls[j] + 1 ELSE calls[j]}
    PROVE  Queued' /\ Lined' /\ Counted' /\ Claimed' /\ FailureIsEarned'
  <1> DEFINE c == Current(w)
             loaded == IF seen[w][c] = None THEN attempts[c] ELSE seen[w][c]
  <1>1. /\ c \in Jobs /\ c = batch[w][1] /\ 1 \in DOMAIN batch[w]
        /\ job[c] = "PENDING" /\ attempts[c] < MaxAttempts
        /\ seen[w][c] # None => attempts[c] <= seen[w][c] /\ seen[w][c] < MaxAttempts
    BY CurrentOpen DEF Loaded, CInv, Counted
  <1>2. loaded \in Nat /\ attempts[c] <= loaded /\ loaded < MaxAttempts
    BY <1>1 DEF CInv, TInv, RowTypes, RunTypes
  <1>3. /\ \A j \in Jobs \ {c} : job'[j] = job[j] /\ attempts'[j] = attempts[j] /\ seen'[w][j] = seen[w][j]
        /\ job'[c] = "REVIEWING" /\ attempts'[c] = loaded + 1
        /\ UNCHANGED <<lock, batch>>
        /\ pc'[w] = to /\ \A v \in Workers \ {w} : pc'[v] = "idle"
    BY <1>1, Alone DEF Claim, CInv, TInv, RowTypes, RunTypes
  <1> HIDE DEF loaded
  <1>4. Queued'
    BY <1>1, <1>3 DEF CInv, Queued, Jobs, TInv, RowTypes
  <1>5. Counted'
    <2> SUFFICES ASSUME NEW j \in Jobs
                 PROVE  /\ calls'[j] <= attempts'[j]
                        /\ attempts'[j] <= MaxAttempts
                        /\ job'[j] \in {"NONE", "PENDING", "WAITING_AI"} => attempts'[j] < MaxAttempts
      BY DEF Counted
    <2>1. calls[j] \in Nat /\ attempts[j] \in Nat /\ calls[j] <= attempts[j]
      BY DEF CInv, Counted, TInv, RowTypes, HistoryTypes
    <2>2. CASE j = c
      BY <1>2, <1>3, <2>1, <2>2
    <2>3. CASE j # c
      BY <1>3, <2>1, <2>3 DEF CInv, Counted
    <2> QED BY <2>2, <2>3
  <1>6. Lined'
    <2>1. Once(w) /\ batch[w] \in Seq(Jobs)
      BY DEF CInv, Lined, TInv, RunTypes
    <2>2. ASSUME NEW i \in DOMAIN batch[w], i > 1 PROVE Loaded(w, batch[w][i])'
      <3>1. batch[w][i] # c /\ batch[w][i] \in Jobs
        BY <1>1, <2>1, <2>2 DEF Once
      <3>2. Loaded(w, batch[w][i])
        BY <2>2 DEF CInv, Lined
      <3> QED BY <1>3, <3>1, <3>2 DEF Loaded
    <2> QED BY <1>3, <2>1, <2>2 DEF Lined, Once
  <1>7. Claimed'
    <2>1. Current(w)' = c
      BY <1>3 DEF Current
    <2>2. to = "claimed" => calls'[c] = calls[c]
      BY <1>1
    <2>3. calls[c] \in Nat /\ calls[c] <= attempts[c] /\ attempts[c] \in Nat
      BY <1>1 DEF CInv, Counted, TInv, RowTypes, HistoryTypes
    <2>4. to = "claimed" => calls'[c] < attempts'[c]
      BY <1>2, <1>3, <2>2, <2>3
    <2> QED BY <1>3, <2>1, <2>4 DEF Claimed, Busy, Delivering
  <1>8. FailureIsEarned'
    BY StillEarned DEF Claim
  <1> QED BY <1>4, <1>5, <1>6, <1>7, <1>8

LEMMA OutsideCounts ==
    ASSUME CInv, TInv', \/ \E t \in Tasks, h \in Inputs : Observe(t, h)
                        \/ \E t \in Tasks : ForceEstimate(t)
                        \/ \E e \in Events : Detect(e)
                        \/ \E j \in Jobs : Age(j)
                        \/ Configure
    PROVE  Queued' /\ Lined' /\ Counted' /\ Claimed' /\ FailureIsEarned'
  <1>1. ASSUME NEW j \in Jobs, job[j] = "NONE", CreateJob(j), UNCHANGED runs,
               \A e \in Events : review'[e] = "NONE" => review[e] = "NONE" /\ e # j
        PROVE  Queued' /\ Lined' /\ (UNCHANGED calls => Counted' /\ Claimed')
    <2>1. \A i \in Jobs : job'[i] = IF i = j THEN "PENDING" ELSE job[i]
      BY <1>1 DEF CreateJob, CInv, TInv, RowTypes
    <2>2. Queued'
      <3>1. /\ DOMAIN queue' = 1..(Len(queue) + 1) /\ Len(queue) \in Nat
            /\ \A p \in DOMAIN queue : p <= Len(queue) /\ queue'[p] = queue[p] /\ queue[p] \in Jobs
            /\ queue'[Len(queue) + 1] = j
            /\ \A p \in DOMAIN queue' : p \in DOMAIN queue \/ p = Len(queue) + 1
        BY <1>1 DEF CreateJob, CInv, TInv, RowTypes
      <3>2. \A p \in DOMAIN queue : queue[p] # j /\ job[queue[p]] # "NONE"
        BY <1>1 DEF CInv, Queued
      <3>3. \A p \in DOMAIN queue' : job'[queue'[p]] # "NONE"
        BY <2>1, <3>1, <3>2
      <3>4. ASSUME NEW p \in DOMAIN queue', NEW q \in DOMAIN queue', queue'[p] = queue'[q]
            PROVE  p = q
        BY <3>1, <3>2, <3>4 DEF CInv, Queued
      <3>5. \A e \in Events : review'[e] = "NONE" => job'[e] = "NONE"
        BY <1>1, <2>1 DEF CInv, Queued, Jobs
      <3> QED BY <3>3, <3>4, <3>5 DEF Queued
    <2>3. UNCHANGED calls => Counted'
      BY <1>1, <2>1 DEF CInv, Counted, CreateJob
    <2>4. UNCHANGED calls => Claimed'
      <3>1. \A w \in Workers : pc[w] # "idle" => Current(w) \in Jobs /\ Current(w) # j /\ Current(w)' = Current(w)
        BY <1>1, CurrentOpen DEF runs, Current
      <3> QED BY <1>1, <2>1, <3>1 DEF CInv, Claimed, Busy, CreateJob, runs, Delivering
    <2>5. Lined'
      <3>1. ASSUME NEW w \in Workers, pc[w] # "idle", NEW i \in DOMAIN batch[w],
                   Loaded(w, batch[w][i])
            PROVE  Loaded(w, batch[w][i])'
        BY <1>1, <2>1, <3>1 DEF CInv, TInv, RunTypes, Loaded, CreateJob, runs
      <3> QED BY <1>1, <3>1 DEF CInv, Lined, Once, runs
    <2> QED BY <2>2, <2>3, <2>4, <2>5
  <1>2. ASSUME UNCHANGED <<rows, runs, calls>>,
               \A e \in Events : review'[e] = "NONE" => review[e] = "NONE"
        PROVE  Queued' /\ Lined' /\ Counted' /\ Claimed'
    BY <1>2 DEF CInv, Queued, Lined, Once, Loaded, Counted, Claimed, Current, rows, runs
  <1>3. ASSUME NEW t \in Tasks, NEW h \in Inputs, Observe(t, h)
        PROVE  Queued' /\ Lined' /\ Counted' /\ Claimed' /\ FailureIsEarned'
    <2>1. <<t, h>> \in Jobs /\ \A e \in Events : e # <<t, h>>
      BY DEF Jobs, Efforts
    <2>2. Queued' /\ Lined' /\ Counted' /\ Claimed'
      <3>1. CASE CreateJob(<<t, h>>) /\ job[<<t, h>>] = "NONE"
        BY <1>1, <1>3, <2>1, <3>1 DEF Observe, history
      <3>2. CASE UNCHANGED rows
        BY <1>2, <1>3, <3>2 DEF Observe, history
      <3> QED BY <1>3, <3>1, <3>2 DEF Observe
    <2>3. \A i \in Jobs : job[i] = "FAILED" => job'[i] = "FAILED"
      BY <1>3, <2>1 DEF Observe, CreateJob, rows, CInv, TInv, RowTypes
    <2>4. \A u \in Tasks, i \in Inputs : <<u, i>> \in Jobs
      BY DEF Jobs, Efforts
    <2>5. \A u \in Tasks : effort'[u].status = "FAILED" => effort[u].status = "FAILED"
      BY <1>3 DEF Observe, CInv, TInv, AnalysisTypes
    <2> QED BY <2>2, <2>3, <2>4, <2>5 DEF CInv, FailureIsEarned
  <1>4. ASSUME NEW t \in Tasks, ForceEstimate(t)
        PROVE  Queued' /\ Lined' /\ Counted' /\ Claimed' /\ FailureIsEarned'
    <2> DEFINE j == <<t, facts[t]>>
    <2>1. j \in Efforts /\ j \in Jobs /\ j \notin Events
      BY DEF CInv, TInv, AnalysisTypes, Jobs, Efforts
    <2> HIDE DEF j
    <2>2. /\ UNCHANGED <<runs, review>> /\ calls' = [calls EXCEPT ![j] = 0]
          /\ effort' = [effort EXCEPT ![t] = [status |-> "PENDING", input |-> facts[t]]]
          /\ \/ job[j] = "NONE" /\ CreateJob(j)
             \/ /\ job[j] # "NONE"
                /\ job' = [job EXCEPT ![j] = "PENDING"]
                /\ attempts' = [attempts EXCEPT ![j] = 0]
                /\ UNCHANGED <<queue, stale>>
      BY <1>4 DEF ForceEstimate, j
    <2>3. /\ \A i \in Jobs : job'[i] = IF i = j THEN "PENDING" ELSE job[i]
          /\ \A i \in Jobs : calls'[i] = IF i = j THEN 0 ELSE calls[i]
          /\ \A i \in Jobs \ {j} : attempts'[i] = attempts[i]
      BY <2>1, <2>2 DEF CreateJob, CInv, TInv, RowTypes, HistoryTypes
    <2>4. Counted'
      BY <2>1, <2>2, <2>3 DEF CInv, Counted, TInv, RowTypes, CreateJob
    <2>5. Claimed'
      <3>1. \A w \in Workers : pc[w] # "idle" => Current(w) \in Jobs /\ Current(w)' = Current(w)
        BY <2>2, CurrentOpen DEF runs, Current
      <3>2. \A w \in Workers : pc[w] = "claimed" => Current(w) # j
        BY <2>1 DEF CInv, IInv, ClaimKind, Reviewing
      <3> QED BY <2>2, <2>3, <3>1, <3>2 DEF CInv, Claimed, Busy, runs, Delivering
    <2>6. FailureIsEarned'
      <3> SUFFICES ASSUME NEW u \in Tasks, effort'[u].status = "FAILED"
                   PROVE  \E i \in Inputs : job'[<<u, i>>] = "FAILED"
        BY DEF FailureIsEarned
      <3>1. u # t /\ effort[u].status = "FAILED"
        BY <2>2 DEF CInv, TInv, AnalysisTypes
      <3>2. PICK i \in Inputs : job[<<u, i>>] = "FAILED"
        BY <3>1 DEF CInv, FailureIsEarned
      <3>3. <<u, i>> # j /\ <<u, i>> \in Jobs
        BY <3>1 DEF j, Jobs, Efforts
      <3> QED BY <2>3, <3>2, <3>3
    <2>7. Queued' /\ Lined'
      <3>1. CASE job[j] = "NONE" /\ CreateJob(j)
        <4>1. \A e \in Events : review'[e] = "NONE" => review[e] = "NONE" /\ e # j
          BY <2>1, <2>2
        <4> QED BY <1>1, <2>1, <2>2, <3>1, <4>1
      <3>2. CASE UNCHANGED queue /\ attempts' = [attempts EXCEPT ![j] = 0]
        <4>1. Queued'
          BY <2>1, <2>2, <2>3, <3>2 DEF CInv, Queued, TInv, RowTypes, Jobs
        <4>2. ASSUME NEW w \in Workers, pc[w] # "idle", NEW i \in DOMAIN batch[w],
                     Loaded(w, batch[w][i])
              PROVE  Loaded(w, batch[w][i])'
          <5>1. batch[w][i] \in Jobs
            BY <4>2 DEF CInv, TInv, RunTypes
          <5>2. CASE batch[w][i] = j
            BY <2>1, <2>2, <2>3, <3>2, <4>2, <5>2
               DEF CInv, TInv, RowTypes, RunTypes, Loaded, runs
          <5>3. CASE batch[w][i] # j
            BY <2>2, <2>3, <4>2, <5>1, <5>3 DEF Loaded, runs
          <5> QED BY <5>2, <5>3
        <4>3. Lined'
          BY <2>2, <4>2 DEF CInv, Lined, Once, runs
        <4> QED BY <4>1, <4>3
      <3> QED BY <2>2, <3>1, <3>2
    <2> QED BY <2>4, <2>5, <2>6, <2>7
  <1>5. ASSUME NEW e \in Events, Detect(e)
        PROVE  Queued' /\ Lined' /\ Counted' /\ Claimed' /\ FailureIsEarned'
    <2>1. e \in Jobs /\ job[e] = "NONE"
      BY <1>5 DEF Detect, CInv, Queued, Jobs
    <2>2. Queued' /\ Lined' /\ Counted' /\ Claimed'
      <3>1. CASE CreateJob(e) /\ review' = [review EXCEPT ![e] = "PENDING"]
        <4>1. \A f \in Events : review'[f] = "NONE" => review[f] = "NONE" /\ f # e
          BY <3>1 DEF CInv, TInv, AnalysisTypes
        <4> QED BY <1>1, <1>5, <2>1, <3>1, <4>1 DEF Detect, history
      <3>2. CASE UNCHANGED rows
        <4>1. \A f \in Events : review'[f] = "NONE" => review[f] = "NONE"
          BY <1>5 DEF Detect, CInv, TInv, AnalysisTypes
        <4> QED BY <1>2, <1>5, <3>2, <4>1 DEF Detect, history
      <3> QED BY <1>5, <3>1, <3>2 DEF Detect
    <2>3. \A t \in Tasks, h \in Inputs : <<t, h>> \in Jobs /\ <<t, h>> # e
      BY DEF Jobs, Efforts
    <2>4. \A t \in Tasks, h \in Inputs : job'[<<t, h>>] = job[<<t, h>>]
      BY <1>5, <2>3 DEF Detect, CreateJob, rows, CInv, TInv, RowTypes
    <2> QED BY <1>5, <2>2, <2>4 DEF Detect, CInv, FailureIsEarned
  <1>6. ASSUME NEW j \in Jobs, Age(j)
        PROVE  Queued' /\ Lined' /\ Counted' /\ Claimed' /\ FailureIsEarned'
    BY <1>6 DEF Age, CInv, Queued, Lined, Once, Loaded, Counted, Claimed, Current, FailureIsEarned,
       analyses, runs, history
  <1>7. ASSUME Configure
        PROVE  Queued' /\ Lined' /\ Counted' /\ Claimed' /\ FailureIsEarned'
    <2>1. Queued' /\ Lined' /\ Counted' /\ Claimed'
      BY <1>2, <1>7 DEF Configure, analyses, history
    <2> QED BY <1>7, <2>1 DEF Configure, CInv, FailureIsEarned, rows, analyses
  <1> QED BY <1>3, <1>4, <1>5, <1>6, <1>7

(* A run that starts sorts the rows anew and loads pending ones. *)
LEMMA RunCounts ==
    ASSUME CInv, TInv', NEW w \in Workers, Run(w)
    PROVE  Queued' /\ Lined' /\ Counted' /\ Claimed' /\ FailureIsEarned'
  <1>1. \A v \in Workers : pc[v] = "idle"
    BY DEF CInv, IInv, LockHeld, Run, MayRun
  <1>2. PICK n \in 0..Limit : \E at : Chosen(w, n, at)
    BY RunChooses
  <1>3. PICK at : Chosen(w, n, at)
    BY <1>2
  <1>4. \A j \in Jobs : job'[j] = Parked(j, Recovery[j])
    BY DEF Run
  <1>5. \A j \in Jobs : /\ job[j] = "NONE" <=> job'[j] = "NONE"
                        /\ job[j] = "FAILED" => job'[j] = "FAILED"
                        /\ job'[j] \in {"NONE", "PENDING", "WAITING_AI"} => attempts[j] < MaxAttempts
    <2> SUFFICES ASSUME NEW j \in Jobs
                 PROVE  /\ job[j] = "NONE" <=> job'[j] = "NONE"
                        /\ job[j] = "FAILED" => job'[j] = "FAILED"
                        /\ job'[j] \in {"NONE", "PENDING", "WAITING_AI"} => attempts[j] < MaxAttempts
      OBVIOUS
    <2>1. CASE j \in Stranded
      <3>1. job[j] = "REVIEWING"
        BY <2>1 DEF Stranded
      <3>2. Recovery[j] = IF attempts[j] >= MaxAttempts THEN "FAILED" ELSE "PENDING"
        BY <2>1 DEF Recovery, Recovered
      <3>3. attempts[j] \in Nat
        BY DEF CInv, TInv, RowTypes
      <3>4. attempts[j] >= MaxAttempts \/ attempts[j] < MaxAttempts
        BY <3>3
      <3> QED BY <1>4, <3>1, <3>2, <3>4 DEF Parked
    <2>2. CASE j \notin Stranded
      BY <1>4, <2>2 DEF Recovery, Parked, CInv, Counted
    <2> QED BY <2>1, <2>2
  <1>6. Queued'
    <2>1. UNCHANGED queue /\ \A p \in DOMAIN queue : queue[p] \in Jobs
      BY DEF Run, CInv, TInv, RowTypes
    <2>2. \A e \in Events : review'[e] = "NONE" => review[e] = "NONE"
      BY DEF Run, CInv, TInv, AnalysisTypes
    <2> QED BY <1>5, <2>1, <2>2 DEF CInv, Queued, Jobs
  <1>7. Counted'
    BY <1>5 DEF Run, CInv, Counted, history
  <1>8. \A v \in Workers : pc'[v] \in {"idle", "picking"} /\ (v # w => pc'[v] = "idle")
    BY <1>1, <1>3 DEF Chosen, CInv, TInv, RunTypes
  <1>9. Claimed'
    BY <1>8 DEF Claimed, Busy, Delivering
  <1>10. FailureIsEarned'
    <2> SUFFICES ASSUME NEW t \in Tasks, effort'[t].status = "FAILED"
                 PROVE  \E h \in Inputs : job'[<<t, h>>] = "FAILED"
      BY DEF FailureIsEarned
    <2>1. \A h \in Inputs : <<t, h>> \in Efforts /\ <<t, h>> \in Jobs /\ <<t, h>> \notin Events
      BY DEF Jobs, Efforts
    <2>2. CASE \E h \in Inputs : <<t, h>> \in GivenUp
      BY <1>4, <2>1, <2>2 DEF GivenUp, Recovery, Parked
    <2>3. CASE ~\E h \in Inputs : <<t, h>> \in GivenUp
      <3>1. effort[t].status = "FAILED"
        BY <2>3 DEF Run
      <3> QED BY <1>5, <2>1, <3>1 DEF CInv, FailureIsEarned
    <2> QED BY <2>2, <2>3
  <1>11. Lined'
    <2> DEFINE b == [i \in 1..n |-> queue[at[i]]]
    <2>1. batch'[w] = b /\ DOMAIN b = 1..n /\ n \in Nat
      BY <1>3 DEF Chosen, CInv, TInv, RunTypes
    <2>2. \A i \in 1..n : /\ at[i] \in DOMAIN queue
                          /\ queue[at[i]] \in Jobs
                          /\ job'[queue[at[i]]] = "PENDING"
      BY <1>3 DEF Chosen, Picks, CInv, TInv, RowTypes
    <2>3. ASSUME NEW i \in 1..n, NEW k \in 1..n, b[i] = b[k] PROVE i = k
      <3>1. at[i] = at[k]
        BY <2>2, <2>3 DEF CInv, Queued
      <3>2. \A l, m \in 1..n : l < m => at[l] < at[m]
        BY <1>3 DEF Chosen, Picks
      <3>3. at[i] \in Nat
        BY <2>2 DEF CInv, TInv, RowTypes
      <3> QED BY <2>1, <3>1, <3>2, <3>3
    <2>4. ASSUME NEW i \in 1..n, NEW j, j = queue[at[i]] PROVE Loaded(w, j)'
      <3>1. j \in Jobs /\ job'[j] = "PENDING"
        BY <2>2, <2>4
      <3>2. attempts'[j] = attempts[j] /\ attempts[j] < MaxAttempts /\ attempts[j] \in Nat
        BY <1>5, <3>1 DEF Run, CInv, TInv, RowTypes
      <3>3. seen'[w][j] = attempts[j]
        BY <1>3, <2>4, <3>1 DEF Chosen, CInv, TInv, RunTypes
      <3> QED BY <3>1, <3>2, <3>3 DEF Loaded
    <2>5. ASSUME NEW i \in DOMAIN batch'[w] PROVE Loaded(w, batch[w][i])'
      <3>1. i \in 1..n /\ batch'[w][i] = queue[at[i]]
        BY <2>1, <2>5
      <3>2. PICK j : j = queue[at[i]]
        OBVIOUS
      <3>3. Loaded(w, j)'
        BY <2>4, <3>1, <3>2
      <3> QED BY <3>1, <3>2, <3>3 DEF Loaded
    <2>6. Once(w)'
      BY <2>1, <2>3 DEF Once
    <2> QED BY <1>8, <2>5, <2>6 DEF Lined
  <1> QED BY <1>6, <1>7, <1>9, <1>10, <1>11

LEMMA StepCounts ==
    ASSUME CInv, TInv', NEW w \in Workers, Step(w) \/ DeliverRaises(w)
    PROVE  Queued' /\ Lined' /\ Counted' /\ Claimed' /\ FailureIsEarned'
  <1> DEFINE c == Current(w)
  <1>1. c \in Jobs /\ pc[w] # "idle" /\ job[c] \in {"PENDING", "REVIEWING"}
    BY CurrentOpen DEF Step, TakeEffort, TakeReview, Estimate, Consider, Decide, ReviewFails,
       Push, Deliver, DeliverRaises
  <1>2. ASSUME NEW s \in JobStates \ {"NONE", "PENDING"}, job' = [job EXCEPT ![c] = s], Finish(w),
               s = "WAITING_AI" => attempts[c] < MaxAttempts,
               UNCHANGED <<attempts, queue, calls>>,
               \A e \in Events : review'[e] = "NONE" => review[e] = "NONE",
               \A t \in Tasks : effort'[t].status = "FAILED" => effort[t].status = "FAILED"
        PROVE  Queued' /\ Lined' /\ Counted' /\ Claimed' /\ FailureIsEarned'
    <2>1. \A j \in Jobs : seen'[w][j] \in {None, seen[w][j]}
      BY <1>1, <1>2 DEF Finish, Expired, CInv, TInv, RunTypes
    <2>2. Queued' /\ Lined' /\ Counted' /\ Claimed'
      BY <1>1, <1>2, <2>1, EndCounts DEF Finish
    <2>3. FailureIsEarned'
      BY <1>1, <1>2, StillEarned
    <2> QED BY <2>2, <2>3
  <1>3. CASE TakeEffort(w)
    <2>1. CASE enabled
      <3>1. Claim(w, "asking") /\ UNCHANGED <<queue, effort, review>> /\ pc[w] = "picking"
        BY <1>3, <2>1 DEF TakeEffort
      <3>2. \A j \in Jobs : calls'[j] \in {calls[j], IF j = Current(w) /\ "asking" = "asking"
                                                     THEN calls[j] + 1 ELSE calls[j]}
        BY <1>3, <2>1 DEF TakeEffort, CInv, TInv, HistoryTypes
      <3> QED BY <3>1, <3>2, ClaimCounts
    <2>2. CASE ~enabled
      BY <1>1, <1>3, <2>2, FailCounts DEF TakeEffort
    <2> QED BY <2>1, <2>2
  <1>4. CASE TakeReview(w)
    <2>1. CASE Ready
      <3>1. Claim(w, "claimed") /\ UNCHANGED <<queue, effort, review, calls>> /\ pc[w] = "picking"
        BY <1>4, <2>1 DEF TakeReview, analyses, history
      <3>2. \A j \in Jobs : calls'[j] \in {calls[j], IF j = Current(w) /\ "claimed" = "asking"
                                                     THEN calls[j] + 1 ELSE calls[j]}
        BY <3>1
      <3> QED BY <3>1, <3>2, ClaimCounts
    <2>2. CASE ~Ready
      <3>1. attempts[c] < MaxAttempts
        BY <1>1, <1>4, CurrentOpen DEF TakeReview, Loaded, CInv, Counted
      <3>2. "WAITING_AI" \in JobStates \ {"NONE", "PENDING"}
        BY DEF JobStates
      <3> QED BY <1>2, <1>4, <2>2, <3>1, <3>2 DEF TakeReview, analyses, history
    <2> QED BY <2>1, <2>2
  <1>5. "READY" \in JobStates \ {"NONE", "PENDING"} /\ "READY" # "WAITING_AI"
    BY DEF JobStates
  <1>6. CASE Estimate(w)
    <2>1. CASE Fail(w)
      BY <1>1, <1>6, <2>1, FailCounts DEF Estimate, history
    <2>2. CASE Estimated(c) /\ job' = [job EXCEPT ![c] = "READY"] /\ Finish(w) /\ UNCHANGED review
      <3>1. \A t \in Tasks : effort'[t].status = "FAILED" => effort[t].status = "FAILED"
        BY <2>2 DEF Estimated, CInv, TInv, AnalysisTypes
      <3> QED BY <1>2, <1>5, <1>6, <2>2, <3>1 DEF Estimate, history
    <2> QED BY <1>6, <2>1, <2>2 DEF Estimate
  <1>7. CASE Consider(w)
    <2>1. CASE Fail(w) /\ UNCHANGED calls
      BY <1>1, <1>7, <2>1, FailCounts DEF Consider
    <2>2. CASE /\ review' = [review EXCEPT ![c] = "SUPPRESSED"]
               /\ job' = [job EXCEPT ![c] = "READY"]
               /\ Finish(w)
               /\ UNCHANGED <<effort, calls>>
      <3>1. \A e \in Events : review'[e] = "NONE" => review[e] = "NONE"
        BY <2>2 DEF CInv, TInv, AnalysisTypes
      <3> QED BY <1>2, <1>5, <1>7, <2>2, <3>1 DEF Consider
    <2>3. CASE /\ review' = [review EXCEPT ![c] = "REVIEWING"]
               /\ calls' = [calls EXCEPT ![c] = @ + 1]
               /\ pc' = [pc EXCEPT ![w] = "reviewing"]
               /\ UNCHANGED <<job, effort, lock, batch, seen>>
      <3>1. pc[w] = "claimed" /\ UNCHANGED <<attempts, queue>>
        BY <1>7 DEF Consider
      <3>2. calls[c] < attempts[c] /\ calls[c] \in Nat /\ attempts[c] \in Nat
        BY <1>1, <3>1 DEF CInv, Claimed, TInv, RowTypes, HistoryTypes
      <3>3. Queued'
        BY <2>3, <3>1 DEF CInv, Queued, TInv, AnalysisTypes
      <3>4. \A j \in Jobs : calls'[j] = IF j = c THEN calls[c] + 1 ELSE calls[j]
        BY <2>3 DEF CInv, TInv, HistoryTypes
      <3>5. Counted'
        BY <2>3, <3>1, <3>2, <3>4 DEF CInv, Counted
      <3>6. \A v \in Workers : pc'[v] = IF v = w THEN "reviewing" ELSE "idle"
        BY <1>1, <2>3, Alone DEF CInv, TInv, RunTypes
      <3>7. Claimed'
        <4>1. Current(w)' = c
          BY <2>3 DEF Current
        <4> QED BY <1>1, <2>3, <3>6, <4>1 DEF Claimed, Busy, Delivering
      <3>8. Lined'
        BY <2>3, <3>1, <3>6 DEF CInv, Lined, Once, Loaded
      <3>9. FailureIsEarned'
        BY <2>3 DEF CInv, FailureIsEarned
      <3> QED BY <3>3, <3>5, <3>7, <3>8, <3>9
    <2> QED BY <1>7, <2>1, <2>2, <2>3 DEF Consider
  <1>8. CASE Decide(w)
    <2>1. \A e \in Events : review'[e] = "NONE" => review[e] = "NONE"
      BY <1>8 DEF Decide, CInv, TInv, AnalysisTypes
    <2>2. CASE job' = [job EXCEPT ![c] = "READY"] /\ Finish(w)
      BY <1>2, <1>5, <1>8, <2>1, <2>2 DEF Decide, history
    <2>3. CASE pc' = [pc EXCEPT ![w] = "delivering"] /\ UNCHANGED <<job, lock, batch, seen>>
      <3>1. UNCHANGED <<attempts, queue, effort, calls>>
        BY <1>8 DEF Decide, history
      <3>2. Queued' /\ Counted' /\ FailureIsEarned'
        BY <2>1, <2>3, <3>1 DEF CInv, Queued, Counted, FailureIsEarned
      <3>3. \A v \in Workers : pc'[v] = IF v = w THEN "delivering" ELSE "idle"
        BY <1>1, <2>3, Alone DEF CInv, TInv, RunTypes
      <3>4. Claimed'
        <4>1. Current(w)' = c
          BY <2>3 DEF Current
        <4> QED BY <1>1, <2>3, <3>3, <4>1 DEF Claimed, Busy, Delivering
      <3>5. Lined'
        BY <1>8, <2>3, <3>1, <3>3 DEF Decide, CInv, Lined, Once, Loaded
      <3> QED BY <3>2, <3>4, <3>5
    <2> QED BY <1>8, <2>2, <2>3 DEF Decide
  <1>9. CASE ReviewFails(w) \/ DeliverRaises(w)
    BY <1>1, <1>9, FailCounts DEF ReviewFails, DeliverRaises, history
  <1>10. CASE Deliver(w)
    BY <1>2, <1>5, <1>10 DEF Deliver, Delivered, history
  <1>11. CASE Push(w)
    <2>1. PICK p \in {"retrying", "delivered"} : pc' = [pc EXCEPT ![w] = p]
      BY <1>11, PushStep DEF CInv
    <2>2. /\ pc[w] \in {"delivering", "retrying"}
          /\ UNCHANGED <<job, attempts, queue, effort, review, calls, batch, seen>>
      BY <1>11 DEF Push, rows, analyses
    <2>3. Queued' /\ Counted' /\ FailureIsEarned'
      BY <2>2 DEF CInv, Queued, Counted, FailureIsEarned
    <2>4. \A v \in Workers : pc'[v] = IF v = w THEN p ELSE "idle"
      BY <1>1, <2>1, Alone DEF CInv, TInv, RunTypes
    <2>5. Claimed'
      <3>1. Current(w)' = c
        BY <2>2 DEF Current
      <3> QED BY <1>1, <2>2, <2>4, <3>1 DEF Claimed, Busy, Delivering
    <2>6. Lined'
      BY <2>2, <2>4 DEF CInv, Lined, Once, Loaded
    <2> QED BY <2>3, <2>5, <2>6
  <1> QED BY <1>3, <1>4, <1>6, <1>7, <1>8, <1>9, <1>10, <1>11 DEF Step

LEMMA StopCounts ==
    ASSUME CInv, TInv', Crash \/ \E w \in Workers : Interrupt(w)
    PROVE  Queued' /\ Lined' /\ Counted' /\ Claimed' /\ FailureIsEarned'
  <1>1. UNCHANGED <<job, attempts, queue, effort, review, calls>>
    BY DEF Crash, Interrupt, rows, analyses
  <1>2. \A v \in Workers : pc'[v] = "idle"
    <2>1. CASE Crash
      BY <2>1 DEF Crash
    <2>2. ASSUME NEW w \in Workers, Interrupt(w) PROVE \A v \in Workers : pc'[v] = "idle"
      BY <2>2, Alone DEF Interrupt, CInv, TInv, RunTypes
    <2> QED BY <2>1, <2>2
  <1> QED BY <1>1, <1>2 DEF CInv, Queued, Lined, Counted, Claimed, FailureIsEarned, Busy, Delivering

LEMMA StutterCounts ==
    ASSUME CInv, UNCHANGED vars PROVE Queued' /\ Lined' /\ Counted' /\ Claimed' /\ FailureIsEarned'
  BY DEF vars, rows, analyses, runs, history, CInv, Queued, Lined, Once, Loaded, Counted, Claimed,
         Current, FailureIsEarned

LEMMA CountsKept == ASSUME CInv, [Next]_vars PROVE CInv'
  <1>1. IInv' /\ TInv'
    BY Inductive, TypesKept DEF CInv
  <1>2. Queued' /\ Lined' /\ Counted' /\ Claimed' /\ FailureIsEarned'
    BY <1>1, OutsideCounts, RunCounts, StepCounts, StopCounts, StutterCounts DEF Next
  <1> QED BY <1>1, <1>2 DEF CInv

LEMMA CountInvariance == Spec => []CInv
  <1>1. Init => CInv
    BY Initially, InitTypes, InitCounts DEF CInv
  <1> QED BY <1>1, CountsKept, PTL DEF Spec

(* Attempts are neither exceeded nor given up early, whichever of failed   *)
(* calls, interrupted runs, recoveries and forced retries meet on a job    *)
(* (ai/queue.py:171-176, 207-229, 314-338).                                *)
THEOREM AttemptsAreBounded == Spec => []AttemptsAreCounted
  <1>1. CInv => AttemptsAreCounted
    <2> SUFFICES ASSUME CInv, NEW j \in Jobs PROVE calls[j] <= MaxAttempts
      BY DEF CInv, AttemptsAreCounted, CallsAreBounded
    <2>1. /\ calls[j] \in Nat /\ attempts[j] \in Nat
          /\ calls[j] <= attempts[j] /\ attempts[j] <= MaxAttempts
      BY DEF CInv, Counted, TInv, RowTypes, HistoryTypes
    <2> QED BY <2>1
  <1> QED BY <1>1, CountInvariance, PTL

-----------------------------------------------------------------------------
(* Approvals.  Unless a run was cut short, a claimed job is being worked   *)
(* on, and an event with a notification is done or being delivered.        *)
Worked == \A j \in Jobs : job[j] = "REVIEWING" => \E w \in Workers : pc[w] \in Busy /\ Current(w) = j
Settled ==
    \A e \in notice : \/ job[e] = "READY"
                      \/ \E w \in Workers : pc[w] \in Delivering /\ Current(w) = e
Claims == ~stopped => Worked /\ Settled

(* So the job a run stands at is the only one claimed, and before its      *)
(* delivery it has no notification.                                        *)
LEMMA OnlyCurrent ==
    ASSUME CInv, Worked, Settled, NEW w \in Workers, pc[w] # "idle"
    PROVE  /\ \A j \in Jobs \ {Current(w)} : job[j] # "REVIEWING"
           /\ \A e \in notice \ {Current(w)} : job[e] = "READY"
           /\ pc[w] \notin Delivering => Current(w) \notin notice
  <1>1. \A v \in Workers \ {w} : pc[v] = "idle"
    BY Alone DEF CInv
  <1>2. job[Current(w)] # "READY"
    BY CurrentOpen
  <1> QED BY <1>1, <1>2 DEF Worked, Settled, Busy, Delivering

LEMMA NobodyClaims ==
    ASSUME CInv, Worked, Settled, \A w \in Workers : pc[w] = "idle"
    PROVE  /\ \A j \in Jobs : job[j] # "REVIEWING"
           /\ \A e \in notice : job[e] = "READY"
  BY DEF Worked, Settled, Busy, Delivering

(* A step outside the runs changes rows that are neither claimed nor done. *)
LEMMA OutsideClaims ==
    ASSUME CInv, Worked, Settled,
           \/ \E t \in Tasks, h \in Inputs : Observe(t, h)
           \/ \E t \in Tasks : ForceEstimate(t)
           \/ \E e \in Events : Detect(e)
           \/ \E j \in Jobs : Age(j)
           \/ Configure
    PROVE  Worked' /\ Settled' /\ ApprovalStays
  <1>1. UNCHANGED <<pc, batch, notice>>
    BY DEF Observe, ForceEstimate, Detect, Age, Configure, runs, analyses
  <1>2. \A j \in Jobs : job'[j] = "REVIEWING" => job[j] = "REVIEWING"
    BY DEF Observe, ForceEstimate, Detect, Age, Configure, CreateJob, rows, CInv, TInv, RowTypes
  <1>3. \A e \in Events : job[e] = "READY" => job'[e] = "READY"
    <2>1. ASSUME NEW t \in Tasks, NEW h \in Inputs, Observe(t, h), NEW e \in Events, job[e] = "READY"
          PROVE  job'[e] = "READY"
      <3>1. e # <<t, h>> /\ e \in Jobs
        BY DEF Jobs, Efforts
      <3> QED BY <2>1, <3>1 DEF Observe, CreateJob, rows, CInv, TInv, RowTypes
    <2>2. ASSUME NEW t \in Tasks, ForceEstimate(t), NEW e \in Events, job[e] = "READY"
          PROVE  job'[e] = "READY"
      <3>1. e # <<t, facts[t]>> /\ e \in Jobs
        BY DEF Jobs, Efforts, CInv, TInv, AnalysisTypes
      <3> QED BY <2>2, <3>1 DEF ForceEstimate, CreateJob, CInv, TInv, RowTypes
    <2>3. ASSUME NEW d \in Events, Detect(d), NEW e \in Events, job[e] = "READY"
          PROVE  job'[e] = "READY"
      <3>1. job[d] = "NONE" /\ e \in Jobs
        BY <2>3 DEF Detect, CInv, Queued, Jobs
      <3> QED BY <2>3, <3>1 DEF Detect, CreateJob, rows, CInv, TInv, RowTypes
    <2> QED BY <2>1, <2>2, <2>3 DEF Age, Configure, rows
  <1>4. \A e \in Events : review[e] = "APPROVED" => review'[e] = "APPROVED"
    BY DEF Observe, ForceEstimate, Detect, Age, Configure, analyses, CInv, TInv, AnalysisTypes
  <1>5. notice \subseteq Events
    BY DEF CInv, TInv, AnalysisTypes
  <1>6. Worked'
    BY <1>1, <1>2 DEF Worked, Current
  <1>7. Settled'
    BY <1>1, <1>3, <1>5 DEF Settled, Current
  <1> QED BY <1>4, <1>5, <1>6, <1>7 DEF ApprovalStays

LEMMA RunClaims ==
    ASSUME CInv, Worked, Settled, NEW w \in Workers, Run(w)
    PROVE  Worked' /\ Settled' /\ ApprovalStays
  <1>1. \A v \in Workers : pc[v] = "idle"
    BY DEF CInv, IInv, LockHeld, Run, MayRun
  <1>2. /\ \A j \in Jobs : job[j] # "REVIEWING"
        /\ \A e \in notice : job[e] = "READY"
    BY <1>1, NobodyClaims
  <1>3. Stranded = {} /\ GivenUp = {}
    BY <1>2 DEF Stranded, GivenUp, CInv, TInv, RowTypes
  <1>4. \A j \in Jobs : job'[j] = Parked(j, job[j])
    BY <1>3 DEF Run, Recovery
  <1>5. Worked'
    BY <1>2, <1>4 DEF Parked, Worked
  <1>6. notice' = notice /\ notice \subseteq Jobs
    BY DEF Run, CInv, TInv, AnalysisTypes, Jobs
  <1>7. Settled'
    BY <1>2, <1>4, <1>6 DEF Parked, Settled
  <1>8. \A e \in Events : review'[e] = review[e]
    BY <1>3 DEF Run
  <1> QED BY <1>5, <1>7, <1>8 DEF ApprovalStays, CInv, TInv, AnalysisTypes

(* A step that ends a job claims none and, unless its delivery is over,    *)
(* concerns no notification.                                               *)
LEMMA EndClaims ==
    ASSUME CInv, Worked, Settled, NEW w \in Workers, pc[w] # "idle",
           NEW s, s # "REVIEWING", job' = [job EXCEPT ![Current(w)] = s],
           UNCHANGED notice, pc[w] \in Delivering => s = "READY"
    PROVE  Worked' /\ Settled'
  <1>1. /\ \A j \in Jobs \ {Current(w)} : job[j] # "REVIEWING"
        /\ \A e \in notice \ {Current(w)} : job[e] = "READY"
        /\ pc[w] \notin Delivering => Current(w) \notin notice
    BY OnlyCurrent
  <1>2. \A j \in Jobs : job'[j] = IF j = Current(w) THEN s ELSE job[j]
    BY DEF CInv, TInv, RowTypes
  <1>3. notice \subseteq Jobs
    BY DEF CInv, TInv, AnalysisTypes, Jobs
  <1>4. Worked'
    BY <1>1, <1>2 DEF Worked
  <1>5. \A e \in notice : job'[e] = "READY"
    BY <1>1, <1>2, <1>3
  <1> QED BY <1>4, <1>5 DEF Settled

LEMMA StepClaims ==
    ASSUME CInv, Worked, Settled, NEW w \in Workers, Step(w)
    PROVE  Worked' /\ Settled' /\ ApprovalStays
  <1> DEFINE c == Current(w)
  <1>1. c \in Jobs /\ pc[w] # "idle" /\ notice \subseteq Events
    BY CurrentOpen DEF Step, TakeEffort, TakeReview, Estimate, Consider, Decide, ReviewFails,
       Push, Deliver, CInv, TInv, AnalysisTypes
  <1>2. ASSUME pc[w] \notin Delivering, \A e \in Events \ {c} : review'[e] = review[e]
        PROVE  ApprovalStays
    BY <1>1, <1>2, OnlyCurrent DEF ApprovalStays
  <1>3. ASSUME Fail(w), pc[w] \notin Delivering, UNCHANGED notice
        PROVE  Worked' /\ Settled' /\ ApprovalStays
    <2>1. job' = [job EXCEPT ![c] = IF Terminal(c) THEN "FAILED" ELSE "PENDING"]
      BY <1>3 DEF Fail
    <2>2. \A e \in Events \ {c} : review'[e] = review[e]
      BY <1>3 DEF Fail, CInv, TInv, AnalysisTypes
    <2> QED BY <1>1, <1>2, <1>3, <2>1, <2>2, EndClaims
  <1>4. ASSUME NEW to \in Busy, Claim(w, to), pc[w] = "picking", UNCHANGED <<review, notice>>
        PROVE  Worked' /\ Settled' /\ ApprovalStays
    <2>1. /\ \A j \in Jobs : job'[j] = IF j = c THEN "REVIEWING" ELSE job[j]
          /\ pc'[w] = to /\ UNCHANGED batch
      BY <1>4 DEF Claim, CInv, TInv, RowTypes, RunTypes
    <2>2. Worked'
      BY <1>1, <1>4, <2>1, OnlyCurrent DEF Worked, Current
    <2>3. Settled'
      BY <1>1, <1>4, <2>1, OnlyCurrent DEF Settled, Jobs, Delivering
    <2> QED BY <1>4, <2>2, <2>3 DEF ApprovalStays
  <1>5. CASE TakeEffort(w) \/ TakeReview(w)
    <2>1. pc[w] = "picking" /\ UNCHANGED notice
      BY <1>5 DEF TakeEffort, TakeReview, analyses
    <2>2. \/ Fail(w)
          \/ UNCHANGED review /\ (Claim(w, "asking") \/ Claim(w, "claimed"))
          \/ UNCHANGED review /\ job' = [job EXCEPT ![c] = "WAITING_AI"]
      BY <1>5 DEF TakeEffort, TakeReview, analyses
    <2>3. CASE UNCHANGED review /\ job' = [job EXCEPT ![c] = "WAITING_AI"]
      BY <1>1, <2>1, <2>3, EndClaims DEF ApprovalStays, Delivering
    <2> QED BY <1>3, <1>4, <2>1, <2>2, <2>3 DEF Busy, Delivering
  <1>6. CASE Estimate(w)
    <2>1. pc[w] = "asking" /\ UNCHANGED notice
      BY <1>6 DEF Estimate
    <2>2. CASE UNCHANGED review /\ job' = [job EXCEPT ![c] = "READY"]
      BY <1>1, <2>1, <2>2, EndClaims DEF ApprovalStays
    <2> QED BY <1>3, <1>6, <2>1, <2>2 DEF Estimate, Delivering
  <1>7. CASE Consider(w)
    <2>1. pc[w] = "claimed" /\ UNCHANGED notice
      BY <1>7 DEF Consider
    <2>2. CASE review' = [review EXCEPT ![c] = "SUPPRESSED"] /\ job' = [job EXCEPT ![c] = "READY"]
      <3>1. \A e \in Events \ {c} : review'[e] = review[e]
        BY <2>2 DEF CInv, TInv, AnalysisTypes
      <3> QED BY <1>1, <1>2, <2>1, <2>2, <3>1, EndClaims DEF Delivering
    <2>3. CASE /\ review' = [review EXCEPT ![c] = "REVIEWING"]
               /\ pc' = [pc EXCEPT ![w] = "reviewing"]
               /\ UNCHANGED <<job, batch>>
      <3>1. \A e \in Events \ {c} : review'[e] = review[e]
        BY <2>3 DEF CInv, TInv, AnalysisTypes
      <3>2. pc'[w] = "reviewing" /\ Current(w)' = c
        BY <2>3 DEF CInv, TInv, RunTypes, Current
      <3>3. Worked'
        BY <1>1, <2>3, <3>2, OnlyCurrent DEF Worked, Busy
      <3>4. Settled'
        BY <1>1, <2>1, <2>3, OnlyCurrent DEF Settled, Delivering
      <3> QED BY <1>2, <2>1, <3>1, <3>3, <3>4 DEF Delivering
    <2> QED BY <1>3, <1>7, <2>1, <2>2, <2>3 DEF Consider, Delivering
  <1>8. CASE Decide(w)
    <2>1. pc[w] = "reviewing" /\ \A e \in Events \ {c} : review'[e] = review[e]
      BY <1>8 DEF Decide, CInv, TInv, AnalysisTypes
    <2>2. CASE job' = [job EXCEPT ![c] = "READY"] /\ UNCHANGED notice
      BY <1>1, <1>2, <2>1, <2>2, EndClaims DEF Delivering
    <2>3. CASE /\ notice' = NoticeWith(c)
               /\ pc' = [pc EXCEPT ![w] = "delivering"]
               /\ UNCHANGED <<job, batch>>
      <3>1. pc'[w] = "delivering" /\ Current(w)' = c
        BY <2>3 DEF CInv, TInv, RunTypes, Current
      <3>2. Worked'
        BY <1>1, <2>3, <3>1, OnlyCurrent DEF Worked, Busy, Delivering
      <3>3. Settled'
        BY <1>1, <2>1, <2>3, <3>1, OnlyCurrent DEF Settled, NoticeWith, Delivering
      <3> QED BY <1>2, <2>1, <3>2, <3>3 DEF Delivering
    <2> QED BY <1>8, <2>2, <2>3 DEF Decide
  <1>9. CASE ReviewFails(w)
    BY <1>3, <1>9 DEF ReviewFails, Delivering
  <1>10. CASE Deliver(w)
    <2>1. job' = [job EXCEPT ![c] = "READY"] /\ UNCHANGED <<review, notice>>
      BY <1>10 DEF Deliver, Delivered
    <2> QED BY <1>1, <2>1, EndClaims DEF ApprovalStays
  <1>11. CASE Push(w)
    <2>1. PICK p \in {"retrying", "delivered"} : pc' = [pc EXCEPT ![w] = p]
      BY <1>11, PushStep DEF CInv
    <2>2. pc[w] \in Delivering /\ UNCHANGED <<job, review, notice, batch>>
      BY <1>11 DEF Push, rows, analyses, Delivering
    <2>3. pc'[w] \in Delivering /\ Current(w)' = c
      BY <2>1, <2>2 DEF CInv, TInv, RunTypes, Current, Delivering
    <2>4. Worked'
      BY <1>1, <2>2, <2>3, OnlyCurrent DEF Worked, Busy
    <2>5. Settled'
      BY <1>1, <2>2, <2>3, OnlyCurrent DEF Settled
    <2> QED BY <2>2, <2>4, <2>5 DEF ApprovalStays
  <1> QED BY <1>5, <1>6, <1>7, <1>8, <1>9, <1>10, <1>11 DEF Step

LEMMA ClaimsKept == ASSUME CInv, Claims, [Next]_vars PROVE Claims' /\ ApprovalStays
  <1>1. CASE stopped'
    BY <1>1 DEF Claims, ApprovalStays
  <1>2. CASE ~stopped'
    <2>1. ~stopped
      <3>1. CASE \/ \E t \in Tasks, h \in Inputs : Observe(t, h)
                 \/ \E t \in Tasks : ForceEstimate(t)
                 \/ \E e \in Events : Detect(e)
                 \/ \E j \in Jobs : Age(j)
                 \/ Configure
        BY <1>2, <3>1 DEF Observe, ForceEstimate, Detect, Age, Configure, history
      <3>2. ASSUME NEW w \in Workers, Run(w) \/ Step(w) PROVE ~stopped
        BY <1>2, <3>2 DEF Run, Step, TakeEffort, TakeReview, Estimate, Consider, Decide,
           ReviewFails, Push, Deliver, history
      <3>3. CASE UNCHANGED vars
        BY <1>2, <3>3 DEF vars, history
      <3> QED BY <1>2, <3>1, <3>2, <3>3 DEF Next, DeliverRaises, Interrupt, Crash
    <2>2. Worked /\ Settled
      BY <2>1 DEF Claims
    <2>3. CASE UNCHANGED vars
      BY <2>2, <2>3 DEF vars, rows, analyses, runs, Worked, Settled, Claims, ApprovalStays, Current
    <2> QED BY <1>2, <2>2, <2>3, OutsideClaims, RunClaims, StepClaims
            DEF Next, Claims, DeliverRaises, Interrupt, Crash
  <1> QED BY <1>1, <1>2

(* An approved change with a notification stays approved and visible while *)
(* only calls and deliveries fail (notifier.py:44).                        *)
THEOREM ApprovalsSurvive == Spec => ApprovalSurvives
  <1>1. Init => Claims
    BY DEF Init, Claims, Worked, Settled
  <1>2. CInv /\ Claims /\ [Next]_vars => Claims'
    BY ClaimsKept
  <1>3. CInv /\ Claims /\ [Next]_vars => [ApprovalStays]_vars
    BY ClaimsKept
  <1> QED BY <1>1, <1>2, <1>3, CountInvariance, PTL DEF Spec, ApprovalSurvives

-----------------------------------------------------------------------------
(* "Scheduler and HTTP trigger can run in separate threads/event loops"    *)
(* (ai/queue.py:161): however many do, no two work on the same job.        *)
THEOREM RunsAreExclusive == Spec => []ReviewIsExclusive
  <1>1. IInv => ReviewIsExclusive
    BY DEF IInv, LockHeld, ReviewIsExclusive, Busy, Delivering
  <1> QED BY <1>1, Invariance, PTL

(* However reviews fail, are interrupted and repeated, and whatever other   *)
(* runs, recoveries and settings do between the decision and the first or   *)
(* the second attempt to push, the review that is stored approves what is   *)
(* pushed (sync.py:516, notifier.py:31-58).                                 *)
THEOREM PushesStandOnApproval == Spec => PushesAreApproved
  <1>1. ASSUME IInv, [Next]_vars PROVE PushIsApproved \/ UNCHANGED vars
    <2>1. CASE \E w \in Workers : Push(w)
      <3>1. PICK w \in Workers : Push(w)
        BY <2>1
      <3>2. /\ pc[w] \in {"delivering", "retrying"}
            /\ \A f \in Events \ {Current(w)} : pushes'[f] = pushes[f]
        BY <1>1, <3>1, PushStep
      <3>3. review[Current(w)] = "APPROVED"
        BY <1>1, <3>2 DEF IInv, DeliveryStands, Delivering
      <3>4. \A f \in Events \ {Current(w)} : ~(pushes'[f] > pushes[f])
        BY <1>1, <3>2 DEF IInv, Shape
      <3> QED BY <3>3, <3>4 DEF PushIsApproved
    <2>2. CASE UNCHANGED pushes
      BY <1>1, <2>2 DEF PushIsApproved, IInv, Shape
    <2>3. CASE UNCHANGED vars
      BY <2>3
    <2>4. \/ \E w \in Workers : Push(w)
          \/ UNCHANGED pushes
          \/ UNCHANGED vars
      BY <1>1 DEF Next, Observe, ForceEstimate, Detect, Age, Configure, Run, Step, TakeEffort,
         TakeReview, Estimate, Consider, Decide, ReviewFails, Deliver, DeliverRaises, Interrupt,
         Crash, history
    <2> QED BY <2>1, <2>2, <2>3, <2>4
  <1>2. IInv /\ [Next]_vars => [PushIsApproved]_vars
    BY <1>1
  <1> QED BY <1>2, Invariance, PTL DEF Spec, PushesAreApproved

(* A change is pushed once, though its review may be repeated after a crash *)
(* or a failed commit, and a second time only if the answer to the first    *)
(* push was lost (notifier.py:34-58).                                       *)
THEOREM PushesStayBounded == Spec => []PushesAreBounded
  <1>1. IInv => PushesAreBounded
    BY DEF IInv
  <1> QED BY <1>1, Invariance, PTL

(* A finished review has left its verdict (ai/queue.py:207-239, 271-303).  *)
THEOREM FinishedReviewsAreDecided == Spec => []FinishedIsDecided
  <1>1. IInv => FinishedIsDecided
    BY DEF IInv
  <1> QED BY <1>1, Invariance, PTL

-----------------------------------------------------------------------------
(* Summaries.  Every call took an attempt of its job; the job of an input   *)
(* that comes back keeps its attempts; and what is about to be published    *)
(* was the input when it was looked at again.                               *)

AsksCounted(i) ==
    /\ jobs[i].attempts \in 0 .. MaxAttempts /\ asked[i] \in Nat
    /\ asked[i] <= jobs[i].attempts
    /\ step = "claimed" /\ current = i => asked[i] < jobs[i].attempts
    /\ jobs[i].state = "NONE" => jobs[i].attempts = 0

SummaryInv ==
    /\ DOMAIN jobs = Hashes /\ DOMAIN asked = Hashes
    /\ \A i \in Hashes : AsksCounted(i)
    /\ step \in {"claimed", "asking", "answered", "checked"} => current \in Hashes
    /\ step = "answered" => input \in since
    /\ step = "checked" => current \in since

\* A step that puts the current job into another state.
LEMMA PutKeepsAttempts ==
    ASSUME SummaryInv, NEW s \in {"PENDING", "FAILED", "SUPERSEDED", "READY"},
           step \in {"claimed", "asking", "answered", "checked"}, Summaries!Put(current, s)
    PROVE  /\ DOMAIN jobs' = Hashes
           /\ \A i \in Hashes : jobs'[i].attempts = jobs[i].attempts /\ jobs'[i].state \in {jobs[i].state, s}
<1>1. PICK c : c = current
  OBVIOUS
<1>2. jobs' = [jobs EXCEPT ![c] = [jobs[c] EXCEPT !.state = s]] /\ c \in Hashes
  BY <1>1 DEF Summaries!Put, SummaryInv
<1>3. PICK r : r = [jobs[c] EXCEPT !.state = s]
  OBVIOUS
<1>4. r.attempts = jobs[c].attempts /\ r.state = s
  BY <1>3
<1> QED
  BY <1>2, <1>3, <1>4 DEF SummaryInv

LEMMA SummaryEnds ==
    ASSUME SummaryInv,
           \/ Summaries!Obsolete \/ Summaries!GenerateFails \/ Summaries!Publish
           \/ Summaries!Recheck /\ ~Summaries!StillWanted
    PROVE  SummaryInv'
<1>1. \E s \in {"PENDING", "FAILED", "SUPERSEDED", "READY"} : Summaries!Put(current, s)
  BY DEF Summaries!Obsolete, Summaries!GenerateFails, Summaries!Publish, Summaries!Recheck,
     Summaries!Retried
<1>2. step \in {"claimed", "asking", "answered", "checked"} /\ step' = "next" /\ asked' = asked
  BY DEF Summaries!Obsolete, Summaries!GenerateFails, Summaries!Publish, Summaries!Recheck,
     Summaries!Rests
<1>3. /\ DOMAIN jobs' = Hashes
      /\ \A i \in Hashes : /\ jobs'[i].attempts = jobs[i].attempts
                           /\ jobs'[i].state = "NONE" => jobs[i].state = "NONE"
  BY <1>1, <1>2, PutKeepsAttempts
<1>4. ASSUME NEW i \in Hashes PROVE AsksCounted(i)'
  BY <1>2, <1>3 DEF SummaryInv, AsksCounted
<1> QED
  BY <1>2, <1>3, <1>4 DEF SummaryInv

\* Jobs wait, or wait again, with the attempts they have.
LEMMA SummaryWaits ==
    ASSUME SummaryInv, Summaries!Start \/ Summaries!Enqueue
    PROVE  SummaryInv'
<1>1. asked' = asked /\ step' \in {"enqueue", "next"}
  BY DEF Summaries!Start, Summaries!Enqueue
<1>2. /\ DOMAIN jobs' = Hashes
      /\ \A i \in Hashes : /\ jobs'[i].attempts = jobs[i].attempts
                           /\ jobs'[i].state = "NONE" => jobs[i].state = "NONE"
  <2>1. CASE Summaries!Start
    <3>1. PICK dead \in SUBSET {i \in Hashes : jobs[i].state = "REVIEWING"} : jobs' = Summaries!TakenBack(dead)
      BY <2>1 DEF Summaries!Start
    <3>2. ASSUME NEW i \in Hashes, i \in dead
          PROVE  jobs'[i].attempts = jobs[i].attempts /\ jobs'[i].state # "NONE"
      <4>1. PICK r : r = [jobs[i] EXCEPT !.state = Summaries!Retried(i)]
        OBVIOUS
      <4>2. jobs'[i] = r
        BY <3>1, <3>2, <4>1 DEF Summaries!TakenBack
      <4> QED
        BY <4>1, <4>2 DEF Summaries!Retried
    <3>3. ASSUME NEW i \in Hashes, i \notin dead PROVE jobs'[i] = jobs[i]
      BY <3>1, <3>3 DEF Summaries!TakenBack
    <3> QED
      BY <3>1, <3>2, <3>3 DEF Summaries!TakenBack
  <2>2. CASE Summaries!Enqueue
    <3>1. PICK c, r : c = input /\ r = Summaries!Enqueued(c)
      OBVIOUS
    <3>2. jobs' = jobs \/ (jobs' = [jobs EXCEPT ![c] = r])
      BY <2>2, <3>1 DEF Summaries!Enqueue
    <3>3. c \in Hashes => r.attempts = jobs[c].attempts /\ (r.state = "NONE" => jobs[c].state = "NONE")
      <4>1. SUFFICES ASSUME c \in Hashes
                     PROVE  r.attempts = jobs[c].attempts /\ (r.state = "NONE" => jobs[c].state = "NONE")
        OBVIOUS
      <4>2. jobs[c].state = "NONE" => jobs[c].attempts = 0
        BY <4>1 DEF SummaryInv, AsksCounted
      <4>3. CASE jobs[c].state = "NONE"
        BY <3>1, <4>2, <4>3 DEF Summaries!Enqueued
      <4>4. CASE jobs[c].state \in {"SUPERSEDED", "READY", "PENDING"}
        <5>1. r = [jobs[c] EXCEPT !.state = Summaries!Retried(c)]
          BY <3>1, <4>4 DEF Summaries!Enqueued
        <5> QED
          BY <5>1 DEF Summaries!Retried
      <4>5. CASE jobs[c].state \notin {"NONE", "SUPERSEDED", "READY", "PENDING"}
        BY <3>1, <4>5 DEF Summaries!Enqueued
      <4> QED
        BY <4>3, <4>4, <4>5
    <3> QED
      BY <3>2, <3>3 DEF SummaryInv
  <2> QED
    BY <2>1, <2>2
<1>3. ASSUME NEW i \in Hashes PROVE AsksCounted(i)'
  BY <1>1, <1>2 DEF SummaryInv, AsksCounted
<1> QED
  BY <1>1, <1>2, <1>3 DEF SummaryInv

LEMMA SummaryClaimed ==
    ASSUME SummaryInv, NEW c \in Hashes, Summaries!Claim(c)
    PROVE  SummaryInv'
<1>1. PICK r : r = [state |-> "REVIEWING", attempts |-> jobs[c].attempts + 1]
  OBVIOUS
<1>2. jobs' = [jobs EXCEPT ![c] = r] /\ step' = "claimed" /\ current' = c /\ asked' = asked
  BY <1>1 DEF Summaries!Claim
<1>3. jobs[c].attempts + 1 \in 0 .. MaxAttempts
  BY QueueAssumption DEF Summaries!Claim, Summaries!Exhausted, SummaryInv, AsksCounted
<1>4. \A i \in Hashes : AsksCounted(i)'
  BY <1>1, <1>2, <1>3 DEF SummaryInv, AsksCounted
<1> QED
  BY <1>2, <1>4 DEF SummaryInv

LEMMA SummaryGoesOn ==
    ASSUME SummaryInv,
           \/ Summaries!Change \/ Summaries!Configure \/ Summaries!AskProvider \/ Summaries!AnswerArrives
           \/ Summaries!Recheck /\ Summaries!StillWanted
           \/ Summaries!End
    PROVE  SummaryInv'
<1>1. CASE Summaries!Change
  BY <1>1 DEF Summaries!Change, SummaryInv, AsksCounted
<1>2. CASE Summaries!Configure
  BY <1>2 DEF Summaries!Configure, SummaryInv, AsksCounted
<1>3. CASE Summaries!AskProvider
  <2>1. /\ asked' = [asked EXCEPT ![current] = asked[current] + 1] /\ current \in Hashes
        /\ step = "claimed" /\ step' = "asking" /\ UNCHANGED <<jobs, current, input, since>>
    BY <1>3 DEF Summaries!AskProvider, SummaryInv, Summaries!World
  <2>2. \A i \in Hashes : AsksCounted(i)'
    BY <2>1 DEF SummaryInv, AsksCounted
  <2> QED
    BY <2>1, <2>2 DEF SummaryInv
<1>4. CASE Summaries!AnswerArrives
  BY <1>4 DEF Summaries!AnswerArrives, Summaries!World, SummaryInv, AsksCounted
<1>5. CASE Summaries!Recheck /\ Summaries!StillWanted
  BY <1>5 DEF Summaries!Recheck, Summaries!StillWanted, Summaries!World, SummaryInv, AsksCounted
<1>6. CASE Summaries!End
  BY <1>6 DEF Summaries!End, Summaries!World, SummaryInv, AsksCounted
<1> QED
  BY <1>1, <1>2, <1>3, <1>4, <1>5, <1>6

LEMMA SummaryStep ==
    ASSUME SummaryInv, [Summaries!Next]_(Summaries!summaryVars)
    PROVE  SummaryInv' /\ Summaries!PublishedWasCurrent
<1>1. SummaryInv'
  <2>1. CASE UNCHANGED Summaries!summaryVars
    BY <2>1 DEF Summaries!summaryVars, SummaryInv, AsksCounted
  <2> QED
    BY <2>1, SummaryEnds, SummaryWaits, SummaryClaimed, SummaryGoesOn DEF Summaries!Next
<1>2. summaries' = summaries \/ Summaries!Publish
  BY DEF Summaries!Next, Summaries!summaryVars, Summaries!Change, Summaries!Configure, Summaries!Start,
     Summaries!Enqueue, Summaries!Claim, Summaries!Obsolete, Summaries!AskProvider,
     Summaries!AnswerArrives, Summaries!GenerateFails, Summaries!Recheck, Summaries!End
<1>3. Summaries!Publish => Summaries!PublishedWasCurrent
  BY DEF Summaries!Publish, Summaries!PublishedWasCurrent, SummaryInv
<1> QED
  BY <1>1, <1>2, <1>3 DEF Summaries!PublishedWasCurrent

\* The provider is asked about an input at most MaxAttempts times, and what is published was
\* the item's input after the provider had answered (generate_summary and
\* enqueue_visible_summaries, assignment_summaries.py).
THEOREM SummariesStayCurrent == Summaries!Spec => SummariesAreCurrent
<1>1. Summaries!Init => SummaryInv
  BY QueueAssumption DEF Summaries!Init, SummaryInv, AsksCounted
<1>2. SummaryInv /\ [Summaries!Next]_(Summaries!summaryVars)
        => SummaryInv' /\ [Summaries!PublishedWasCurrent]_(Summaries!summaryVars)
  BY SummaryStep
<1>3. SummaryInv => Summaries!SummariesAreBounded
  BY QueueAssumption DEF SummaryInv, AsksCounted, Summaries!SummariesAreBounded
<1>4. SummariesAreCurrent <=> []Summaries!SummariesAreBounded
                               /\ [][Summaries!PublishedWasCurrent]_(Summaries!summaryVars)
  BY DEF SummariesAreCurrent, Summaries!SummariesAreCurrent, Summaries!NothingObsolete
<1> QED
  BY <1>1, <1>2, <1>3, <1>4, PTL DEF Summaries!Spec

-----------------------------------------------------------------------------
(* The chat.  While a turn is under way the history has the lookups that    *)
(* are shown; a request works on the proposal it was made for; and the      *)
(* request that carries out a tool that does not await holds the event loop *)
(* until the proposal is marked.                                            *)

Direct == Proposals \ Awaiting

\* How often p may have been carried out.
Accounted(p) == IF status[p] = "APPLIED" \/ Chat!Unmarked(p) THEN unmarked[p] + 1 ELSE unmarked[p]

ChatTypes ==
    /\ DOMAIN status = Proposals
    /\ effects \in [Proposals -> Nat] /\ unmarked \in [Proposals -> Nat]
    /\ click \in [Clicks -> [phase : {"idle", "tool", "record"}, proposal : Proposals \union {None}]]
    /\ \A c \in Clicks :
          \/ click[c] = Chat!NoClick
          \/ click[c].phase # "idle" /\ click[c].proposal \in Proposals

HoldsLoop ==
    \A c \in Clicks : /\ click[c].phase = "record" => running = c
                      /\ click[c].proposal \in Direct =>
                            running = c /\ status[click[c].proposal] = "PENDING"

ChatInv ==
    /\ turn.asking \/ reply = "limit" => kept = cards
    /\ ChatTypes /\ HoldsLoop
    /\ \A p \in Direct : effects[p] <= Accounted(p)

\* A turn leaves the requests alone, and proposes what was not proposed.
TurnLeaves ==
    /\ UNCHANGED <<effects, unmarked, click, running>>
    /\ \/ status' = status
       \/ \E p \in Proposals : status[p] = "NONE" /\ status' = [status EXCEPT ![p] = "PENDING"]
    /\ turn'.asking \/ reply' = "limit" => kept' = cards'

LEMMA TurnStep ==
    ASSUME ChatInv, Chat!Turn
    PROVE  ChatInv' /\ Chat!ResolvedStays
<1>1. UNCHANGED <<click, running, unmarked>>
  BY DEF Chat!Turn
<1>2. TurnLeaves
  <2>1. CASE Chat!Ask
    BY <1>1, <2>1 DEF Chat!Ask, TurnLeaves
  <2>2. CASE Chat!FallBack
    <3>1. turn.asking /\ UNCHANGED <<kept, cards, status, effects>>
      BY <2>2 DEF Chat!FallBack
    <3> QED
      BY <1>1, <3>1 DEF ChatInv, TurnLeaves
  <2>3. CASE Chat!Answer \/ Chat!RunOut \/ Chat!Break
    <3>1. turn.asking /\ UNCHANGED <<kept, cards, status, effects>>
      BY <2>3 DEF Chat!Answer, Chat!RunOut, Chat!Break
    <3> QED
      BY <1>1, <3>1 DEF ChatInv, TurnLeaves
  <2>4. ASSUME NEW n \in 1 .. MaxCalls, Chat!LookUp(n) PROVE TurnLeaves
    <3>1. kept' = cards + n /\ cards' = cards + n /\ UNCHANGED <<status, effects>>
      BY <2>4 DEF Chat!LookUp, Chat!KeptWith
    <3> QED
      BY <1>1, <3>1 DEF TurnLeaves
  <2>5. ASSUME NEW n \in 0 .. MaxCalls, Chat!LookUpBreaks(n) PROVE TurnLeaves
    <3>1. ~turn'.asking /\ reply' = "error" /\ UNCHANGED <<status, effects>>
      BY <2>5 DEF Chat!LookUpBreaks, Chat!Ends, Chat!NoTurn
    <3> QED
      BY <1>1, <3>1 DEF TurnLeaves
  <2>6. ASSUME NEW n \in 0 .. MaxCalls, NEW p \in Proposals, Chat!Propose(n, p)
        PROVE  TurnLeaves
    <3>1. /\ ~turn'.asking /\ reply' = "proposal" /\ effects' = effects
          /\ status[p] = "NONE" /\ status' = [status EXCEPT ![p] = "PENDING"]
      BY <2>6 DEF Chat!Propose, Chat!Ends, Chat!NoTurn
    <3> QED
      BY <1>1, <3>1 DEF TurnLeaves
  <2> QED
    BY <2>1, <2>2, <2>3, <2>4, <2>5, <2>6 DEF Chat!Turn
<1>3. /\ DOMAIN status' = Proposals
      /\ \A p \in Proposals :
            \/ status'[p] = status[p]
            \/ status[p] = "NONE" /\ status'[p] = "PENDING"
  BY <1>2 DEF TurnLeaves, ChatInv, ChatTypes
<1>4. ChatTypes' /\ HoldsLoop'
  BY <1>2, <1>3 DEF TurnLeaves, ChatInv, ChatTypes, HoldsLoop, Direct
<1>5. \A p \in Direct : effects'[p] <= Accounted(p)'
  BY <1>2, <1>3 DEF TurnLeaves, ChatInv, Accounted, Chat!Unmarked, Direct
<1>6. Chat!ResolvedStays
  BY <1>2, <1>3 DEF TurnLeaves, Chat!ResolvedStays, Chat!Settled
<1> QED
  BY <1>2, <1>4, <1>5, <1>6 DEF TurnLeaves, ChatInv

LEMMA ClickStep ==
    ASSUME ChatInv, Chat!Click
    PROVE  ChatInv' /\ Chat!ResolvedStays
<1>1. UNCHANGED <<turn, cards, kept, reply>>
  BY DEF Chat!Click, Chat!Cancel, Chat!Confirm, Chat!ToolCommits, Chat!Record, Chat!ConfirmFails,
     Chat!turnVars
<1> USE AssistantAssumption
<1>2. ASSUME NEW p \in Proposals, running = None, Chat!Cancel(p) PROVE ChatInv' /\ Chat!ResolvedStays
  <2>1. /\ status[p] = "PENDING" /\ status' = [status EXCEPT ![p] = "CANCELLED"]
        /\ UNCHANGED <<effects, unmarked, click, running>>
    BY <1>2 DEF Chat!Cancel, Chat!MayResolve
  <2>2. \A c \in Clicks : click[c].proposal \notin Direct
    BY <1>2 DEF ChatInv, HoldsLoop
  <2>3. ChatTypes' /\ HoldsLoop'
    BY <2>1, <2>2 DEF ChatInv, ChatTypes, HoldsLoop, Direct
  <2>4. \A q \in Direct : effects'[q] <= Accounted(q)'
    BY <2>1 DEF ChatInv, ChatTypes, Accounted, Chat!Unmarked, Direct
  <2> QED
    BY <1>1, <2>1, <2>3, <2>4 DEF ChatInv, ChatTypes, Chat!ResolvedStays, Chat!Settled
<1>3. ASSUME NEW c \in Clicks, NEW p \in Proposals, running = None, Chat!Confirm(c, p)
      PROVE  ChatInv' /\ Chat!ResolvedStays
  <2>1. /\ status[p] = "PENDING"
        /\ click' = [click EXCEPT ![c] = [phase |-> "tool", proposal |-> p]]
        /\ running' = IF p \in Awaiting THEN None ELSE c
        /\ UNCHANGED <<status, effects, unmarked>>
        /\ click[c] = Chat!NoClick
    BY <1>3 DEF Chat!Confirm, Chat!MayResolve
  <2>2. \A d \in Clicks : click[d].proposal \notin Direct /\ click[d].phase # "record"
    BY <1>3 DEF ChatInv, HoldsLoop
  <2>3. /\ click'[c].phase = "tool" /\ click'[c].proposal = p
        /\ \A d \in Clicks \ {c} : click'[d] = click[d]
    BY <2>1 DEF ChatInv, ChatTypes
  <2>4. ChatTypes'
    BY <2>1, <2>3 DEF ChatInv, ChatTypes
  <2>5. HoldsLoop'
    BY <2>1, <2>2, <2>3 DEF HoldsLoop, Direct
  <2>6. \A q \in Direct : effects'[q] <= Accounted(q)'
    BY <2>1, <2>2, <2>3 DEF ChatInv, Accounted, Chat!Unmarked
  <2> QED
    BY <1>1, <2>1, <2>4, <2>5, <2>6 DEF ChatInv, Chat!ResolvedStays
<1>4. ASSUME NEW c \in Clicks, running \in {c, None}, Chat!ToolCommits(c)
      PROVE  ChatInv' /\ Chat!ResolvedStays
  <2>1. PICK p : p = click[c].proposal
    OBVIOUS
  <2>2. /\ click[c].phase = "tool" /\ p \in Proposals
        /\ effects' = [effects EXCEPT ![p] = effects[p] + 1]
        /\ click' = [click EXCEPT ![c].phase = "record"]
        /\ running' = c /\ UNCHANGED <<status, unmarked>>
    BY <1>4, <2>1 DEF Chat!ToolCommits, ChatInv, ChatTypes, Chat!NoClick
  <2>3. /\ click'[c].phase = "record" /\ click'[c].proposal = p
        /\ \A d \in Clicks \ {c} : click'[d] = click[d]
    BY <2>1, <2>2 DEF ChatInv, ChatTypes
  <2>4. \A d \in Clicks \ {c} : click[d].proposal \notin Direct /\ click[d].phase # "record"
    BY <1>4 DEF ChatInv, HoldsLoop
  <2>5. ChatTypes'
    BY <2>1, <2>2, <2>3 DEF ChatInv, ChatTypes
  <2>6. HoldsLoop'
    BY <2>1, <2>2, <2>3, <2>4 DEF ChatInv, HoldsLoop
  <2>7. ASSUME NEW q \in Direct PROVE effects'[q] <= Accounted(q)'
    <3>1. effects[q] <= Accounted(q) /\ effects[q] \in Nat /\ unmarked[q] \in Nat /\ q \in Proposals
      BY DEF ChatInv, ChatTypes, Direct
    <3>2. CASE q = p
      <4>1. status[p] = "PENDING" /\ ~Chat!Unmarked(p)
        BY <2>1, <2>2, <2>4, <3>2 DEF ChatInv, HoldsLoop, Chat!Unmarked
      <4>2. Chat!Unmarked(p)'
        BY <2>3 DEF Chat!Unmarked
      <4>3. effects[p] <= unmarked[p]
        BY <3>1, <3>2, <4>1 DEF Accounted
      <4>4. effects'[p] = effects[p] + 1
        BY <2>2 DEF ChatInv, ChatTypes
      <4> QED
        BY <2>2, <3>1, <3>2, <4>2, <4>3, <4>4 DEF Accounted
    <3>3. CASE q # p
      <4>1. ~Chat!Unmarked(q)
        BY <2>1, <2>2, <2>4, <3>3 DEF Chat!Unmarked
      <4>2. effects'[q] = effects[q]
        BY <2>2, <3>3 DEF ChatInv, ChatTypes
      <4> QED
        BY <2>2, <3>1, <4>1, <4>2 DEF Accounted
    <3> QED
      BY <3>2, <3>3
  <2>8. \A q \in Proposals \ {p} : status'[q] = status[q] /\ effects'[q] = effects[q]
    BY <2>2 DEF ChatInv, ChatTypes
  <2> QED
    BY <1>1, <2>1, <2>5, <2>6, <2>7, <2>8 DEF ChatInv, Chat!ResolvedStays, Chat!Settled
<1>5. ASSUME NEW c \in Clicks, running \in {c, None}, Chat!Record(c) \/ Chat!ConfirmFails(c)
      PROVE  ChatInv' /\ Chat!ResolvedStays
  <2>1. PICK p : p = click[c].proposal
    OBVIOUS
  <2>2. /\ click' = [click EXCEPT ![c] = Chat!NoClick] /\ running' = None /\ effects' = effects
        /\ click[c].phase # "idle"
    BY <1>5 DEF Chat!Record, Chat!ConfirmFails, ChatInv, ChatTypes, Chat!NoClick
  <2>3. p \in Proposals
    BY <2>1, <2>2 DEF ChatInv, ChatTypes, Chat!NoClick
  <2>4. /\ click'[c].phase = "idle" /\ click'[c].proposal = None
        /\ \A d \in Clicks \ {c} : click'[d] = click[d]
    BY <2>2 DEF ChatInv, ChatTypes, Chat!NoClick
  <2>5. \A d \in Clicks \ {c} : click[d].proposal \notin Direct /\ click[d].phase # "record"
    BY <1>5 DEF ChatInv, HoldsLoop
  <2>6. HoldsLoop'
    BY <2>4, <2>5 DEF HoldsLoop, Direct
  <2>7. \A q \in Proposals : ~Chat!Unmarked(q)'
    BY <2>4, <2>5 DEF Chat!Unmarked
  <2>8. /\ DOMAIN status' = Proposals /\ unmarked' \in [Proposals -> Nat]
        /\ \A q \in Proposals \ {p} : status'[q] = status[q]
        /\ \A q \in Proposals : unmarked'[q] >= unmarked[q]
        /\ \/ click[c].phase = "record" /\ status'[p] = "APPLIED"
           \/ status' = status /\ (click[c].phase = "record" => unmarked'[p] = unmarked[p] + 1)
    <3>1. CASE Chat!Record(c)
      BY <2>1, <2>3, <3>1 DEF Chat!Record, ChatInv, ChatTypes
    <3>2. CASE Chat!ConfirmFails(c)
      <4>1. click[c].phase = "record" => Chat!Unmarked(p)
        BY <2>1 DEF Chat!Unmarked
      <4>2. \A q \in Proposals : unmarked'[q] = IF click[c].phase = "record" /\ q = p THEN unmarked[q] + 1
                                                                                   ELSE unmarked[q]
        BY <2>1, <2>3, <3>2, <4>1 DEF Chat!ConfirmFails, Chat!LeftUnmarked
      <4>3. unmarked' \in [Proposals -> Nat]
        BY <3>2 DEF Chat!ConfirmFails, Chat!LeftUnmarked, ChatInv, ChatTypes
      <4>4. \A q \in Proposals : unmarked'[q] >= unmarked[q]
        BY <4>2 DEF ChatInv, ChatTypes
      <4>5. status' = status /\ DOMAIN status' = Proposals
        BY <3>2 DEF Chat!ConfirmFails, ChatInv, ChatTypes
      <4> QED
        BY <2>3, <4>2, <4>3, <4>4, <4>5
    <3> QED
      BY <1>5, <3>1, <3>2
  <2>9. ChatTypes'
    BY <2>2, <2>4, <2>8 DEF ChatInv, ChatTypes, Chat!NoClick
  <2>10. ASSUME NEW q \in Direct PROVE effects'[q] <= Accounted(q)'
    <3>1. /\ effects[q] <= Accounted(q) /\ q \in Proposals
          /\ effects[q] \in Nat /\ unmarked[q] \in Nat /\ unmarked'[q] \in Nat
      BY <2>8 DEF ChatInv, ChatTypes, Direct
    <3>2. Chat!Unmarked(q) => q = p /\ click[c].phase = "record"
      BY <2>1, <2>5 DEF Chat!Unmarked
    <3>3. q = p => status[q] = "PENDING"
      BY <2>1 DEF ChatInv, HoldsLoop
    <3> QED
      BY <2>2, <2>7, <2>8, <3>1, <3>2, <3>3 DEF Accounted
  <2>11. Chat!ResolvedStays
    BY <2>1, <2>2, <2>8 DEF Chat!ResolvedStays, Chat!Settled
  <2> QED
    BY <1>1, <2>6, <2>9, <2>10, <2>11 DEF ChatInv
<1> QED
  BY <1>2, <1>3, <1>4, <1>5 DEF Chat!Click

LEMMA ChatStep ==
    ASSUME ChatInv, [Chat!Next]_(Chat!chatVars)
    PROVE  ChatInv' /\ Chat!ResolvedStays
<1>1. CASE Chat!Restart
  <2>1. /\ ~turn'.asking /\ reply' = "none" /\ UNCHANGED <<status, effects>>
        /\ click' = [c \in Clicks |-> Chat!NoClick] /\ running' = None
    BY <1>1 DEF Chat!Restart, Chat!NoTurn
  <2>2. /\ \A q \in Proposals : unmarked'[q] = IF Chat!Unmarked(q) THEN unmarked[q] + 1 ELSE unmarked[q]
        /\ unmarked' \in [Proposals -> Nat]
    BY <1>1 DEF Chat!Restart, Chat!LeftUnmarked, ChatInv, ChatTypes
  <2>3. ChatTypes' /\ HoldsLoop'
    BY <2>1, <2>2, AssistantAssumption DEF ChatInv, ChatTypes, HoldsLoop, Chat!NoClick, Direct
  <2>4. ASSUME NEW q \in Direct PROVE effects'[q] <= Accounted(q)'
    <3>1. effects[q] <= Accounted(q) /\ effects[q] \in Nat /\ unmarked[q] \in Nat /\ q \in Proposals
      BY DEF ChatInv, ChatTypes, Direct
    <3> QED
      BY <2>1, <2>2, <3>1 DEF Accounted
  <2> QED
    BY <2>1, <2>3, <2>4 DEF ChatInv, Chat!ResolvedStays
<1>2. CASE UNCHANGED Chat!chatVars
  BY <1>2 DEF Chat!chatVars, ChatInv, ChatTypes, HoldsLoop, Accounted, Chat!Unmarked,
              Chat!ResolvedStays
<1> QED
  BY <1>1, <1>2, TurnStep, ClickStep DEF Chat!Next

\* When the lookups of a turn are used up, all that were shown are in the history; what a user
\* confirmed is carried out once, and again only after its mark was lost; and a proposal that
\* was applied or cancelled, with no request for it under way, stays so
\* (chat and resolve_confirmation, ai_chat.py).
THEOREM HistoryIsKept == Chat!Spec => HistoryStays
<1>1. Chat!Init => ChatInv
  BY AssistantAssumption DEF Chat!Init, Chat!NoTurn, Chat!NoClick, ChatInv, ChatTypes, HoldsLoop,
     Accounted, Chat!Unmarked, Direct
<1>2. ChatInv /\ [Chat!Next]_(Chat!chatVars) => ChatInv' /\ [Chat!ResolvedStays]_(Chat!chatVars)
  BY ChatStep
<1>3. ChatInv => Chat!LimitKeepsEvidence
  BY DEF ChatInv, Chat!LimitKeepsEvidence
<1>4. ChatInv => Chat!CarriedOutOnce
  <2> SUFFICES ASSUME ChatInv, NEW p \in Direct PROVE effects[p] <= 1 + unmarked[p]
    BY DEF Chat!CarriedOutOnce, Direct
  <2>1. effects[p] <= Accounted(p) /\ effects[p] \in Nat /\ unmarked[p] \in Nat
    BY DEF ChatInv, ChatTypes, Direct
  <2> QED
    BY <2>1 DEF Accounted
<1>5. HistoryStays <=> /\ []Chat!LimitKeepsEvidence /\ []Chat!CarriedOutOnce
                       /\ [][Chat!ResolvedStays]_(Chat!chatVars)
  BY DEF HistoryStays, Chat!HistoryStays
<1> QED
  BY <1>1, <1>2, <1>3, <1>4, <1>5, PTL DEF Chat!Spec

-----------------------------------------------------------------------------
(* The settings.  What a record says was tested, was, with its key; and a   *)
(* test that still has the secrets' generation was started with their key.  *)

KeyFor(r, b) == IF b = Local THEN Local ELSE IF r.base = b THEN r.key ELSE None

TestedKeys == [base : Settings!Bases, model : Models, revision : Nat]
Secrets == [key : Keys \union {None}, base : Clouds \union {None}, verified : TestedKeys \union {None}]

Backed(r) ==
    r.verified # None /\ KeyFor(r, r.verified.base) # None =>
        [base |-> r.verified.base, model |-> r.verified.model,
         key |-> KeyFor(r, r.verified.base)] \in passed

Started(q) ==
    /\ q.identity \in [base : Settings!Bases, model : Models, revision : Nat, generation : Nat]
    /\ q.identity.generation <= generation
    /\ q.identity.generation = generation => q.key = KeyFor(secret, q.identity.base)

SettingsInv ==
    /\ setting \in [base : Settings!Bases \union {None}, model : Models \union {None}, revision : Nat]
    /\ setting.base = None <=> setting.model = None
    /\ generation \in Nat
    /\ \A r \in disk \union {secret} : r \in Secrets /\ Backed(r)
    /\ DOMAIN probe = Probes
    /\ \A p \in Probes : probe[p].phase = "asked" => Started(probe[p])

LEMMA RecordsStayBacked ==
    ASSUME SettingsInv, NEW record \in Secrets, record.verified = None \/ Backed(record)',
           passed \subseteq passed', disk' \union {secret'} \subseteq disk \union {secret, record}
    PROVE  \A r \in disk' \union {secret'} : r \in Secrets /\ Backed(r)'
<1>1. ASSUME NEW r \in disk \union {secret} PROVE r \in Secrets /\ Backed(r)'
  BY DEF SettingsInv, Backed
<1>2. Backed(record)'
  BY DEF Backed
<1> QED
  BY <1>1, <1>2

LEMMA TestsStayStarted ==
    ASSUME SettingsInv, generation' \in Nat, generation' >= generation,
           generation' = generation => secret'.key = secret.key /\ secret'.base = secret.base,
           NEW p \in Probes, probe'[p] = probe[p], probe[p].phase = "asked"
    PROVE  Started(probe[p])'
<1>1. PICK q : q = probe[p]
  OBVIOUS
<1>2. Started(q) /\ q = probe'[p] /\ generation \in Nat
  BY <1>1 DEF SettingsInv
<1>3. Started(q)'
  <2>1. /\ q.identity \in [base : Settings!Bases, model : Models, revision : Nat, generation : Nat]
        /\ q.identity.generation <= generation /\ q.identity.generation \in Nat
        /\ q.identity.generation = generation => q.key = KeyFor(secret, q.identity.base)
    BY <1>2 DEF Started
  <2>2. q.identity.generation <= generation'
    BY <1>2, <2>1
  <2>3. q.identity.generation = generation' => q.key = KeyFor(secret, q.identity.base)'
    BY <1>2, <2>1 DEF KeyFor
  <2> QED
    BY <2>1, <2>2, <2>3 DEF Started
<1> QED
  BY <1>2, <1>3

\* A record without a test is saved, or the vault fails.
LEMMA WritesUntested ==
    ASSUME SettingsInv, NEW record \in Secrets, record.verified = None,
           (Settings!Saves(record) /\ generation' \in {generation, generation + 1}) \/ Settings!SaveFails(record),
           generation' = generation /\ secret' # secret => record.key = secret.key /\ record.base = secret.base,
           setting' \in [base : Settings!Bases \union {None}, model : Models \union {None}, revision : Nat],
           setting'.base = None <=> setting'.model = None,
           UNCHANGED passed, DOMAIN probe' = Probes,
           \A p \in Probes : probe'[p].phase = "asked" => probe'[p] = probe[p] \/ Started(probe[p])'
    PROVE  SettingsInv'
<1>1. \A r \in disk' \union {secret'} : r \in Secrets /\ Backed(r)'
  <2>1. disk' \union {secret'} \subseteq disk \union {secret, record}
    BY DEF Settings!Saves, Settings!SaveFails
  <2> QED
    BY <2>1, RecordsStayBacked
<1>2. /\ generation' \in Nat /\ generation' >= generation
      /\ generation' = generation => secret'.key = secret.key /\ secret'.base = secret.base
  BY DEF SettingsInv, Settings!Saves, Settings!SaveFails
<1>3. ASSUME NEW p \in Probes, probe'[p].phase = "asked" PROVE Started(probe[p])'
  BY <1>2, <1>3, TestsStayStarted
<1> QED
  BY <1>1, <1>2, <1>3 DEF SettingsInv

LEMMA SettingsTyped ==
    ASSUME SettingsInv
    PROVE  /\ generation \in Nat /\ secret \in Secrets /\ Settings!NoSecret \in Secrets
           /\ Settings!Unverified \in Secrets /\ Settings!Unverified.verified = None
           /\ Settings!Unverified.key = secret.key /\ Settings!Unverified.base = secret.base
           /\ Settings!NoSecret.verified = None
<1>1. generation \in Nat /\ secret \in Secrets
  BY DEF SettingsInv
<1>2. Settings!NoSecret \in Secrets /\ Settings!NoSecret.verified = None
  BY DEF Settings!NoSecret, Secrets
<1>3. PICK r : r = [secret EXCEPT !.verified = None]
  OBVIOUS
<1>4. r \in Secrets /\ r.verified = None /\ r.key = secret.key /\ r.base = secret.base
  BY <1>1, <1>3 DEF Secrets
<1> QED
  BY <1>1, <1>2, <1>3, <1>4 DEF Settings!Unverified

LEMMA SavesSetting ==
    ASSUME SettingsInv, NEW b \in Settings!Bases, NEW m \in Models, Settings!Save(b, m)
    PROVE  SettingsInv'
<1>1. PICK record : record = Settings!Forgets(b)
  OBVIOUS
<1>2. record \in Secrets /\ record.verified = None
  BY <1>1, SettingsTyped DEF Settings!Forgets
<1>3. /\ (Settings!Saves(record) /\ generation' \in {generation, generation + 1}) \/ Settings!SaveFails(record)
      /\ UNCHANGED <<passed, probe>>
  BY <1>1 DEF Settings!Save
<1>4. generation' = generation /\ secret' # secret => record.key = secret.key /\ record.base = secret.base
  BY <1>1, SettingsTyped DEF Settings!Save, Settings!Forgets, Settings!SaveFails
<1>5. setting' \in [base : Settings!Bases \union {None}, model : Models \union {None}, revision : Nat]
  <2>1. setting.revision + 1 \in Nat
    BY DEF SettingsInv
  <2> QED
    BY <2>1 DEF Settings!Save
<1>6. setting'.base # None /\ setting'.model # None
  BY AssistantAssumption DEF Settings!Save, Settings!Bases
<1> QED
  BY <1>2, <1>3, <1>4, <1>5, <1>6, WritesUntested DEF SettingsInv

LEMMA SetsKey ==
    ASSUME SettingsInv, Settings!ClearKey \/ \E k \in Keys : Settings!SetKey(k)
    PROVE  SettingsInv'
<1>1. PICK record \in Secrets :
        /\ record.verified = None
        /\ (Settings!Saves(record) /\ generation' = generation + 1) \/ Settings!SaveFails(record)
        /\ UNCHANGED <<setting, passed, probe>>
  <2>1. CASE Settings!ClearKey
    BY <2>1, SettingsTyped DEF Settings!ClearKey
  <2>2. ASSUME NEW k \in Keys, Settings!SetKey(k)
        PROVE  \E record \in Secrets :
                 /\ record.verified = None
                 /\ (Settings!Saves(record) /\ generation' = generation + 1) \/ Settings!SaveFails(record)
                 /\ UNCHANGED <<setting, passed, probe>>
    <3>1. PICK record : record = [key |-> k, base |-> setting.base, verified |-> None]
      OBVIOUS
    <3>2. record \in Secrets /\ record.verified = None
      BY <2>2, <3>1 DEF Settings!SetKey, Secrets
    <3>3. /\ (Settings!Saves(record) /\ generation' = generation + 1) \/ Settings!SaveFails(record)
          /\ UNCHANGED <<setting, passed, probe>>
      BY <2>2, <3>1 DEF Settings!SetKey
    <3> QED
      BY <3>2, <3>3
  <2> QED
    BY <2>1, <2>2
<1>2. generation' = generation => secret' = secret
  BY <1>1, SettingsTyped DEF Settings!SaveFails
<1> QED
  BY <1>1, <1>2, WritesUntested DEF SettingsInv

LEMMA StartsTest ==
    ASSUME SettingsInv, NEW p \in Probes, Settings!StartProbe(p)
    PROVE  SettingsInv'
<1>1. PICK record : record = Settings!Unverified
  OBVIOUS
<1>2. record \in Secrets /\ record.verified = None /\ record.key = secret.key /\ record.base = secret.base
  BY <1>1, SettingsTyped
<1>3. /\ (Settings!Saves(record) /\ generation' = generation + 1) \/ Settings!SaveFails(record)
      /\ UNCHANGED <<passed, setting>> /\ setting.model # None
  BY <1>1 DEF Settings!StartProbe
<1>4. PICK q : q = [phase |-> "asked", key |-> Settings!KeyUsed, identity |-> Settings!IdentityAt(generation + 1)]
  OBVIOUS
<1>5. CASE Settings!Saves(record) /\ generation' = generation + 1 /\ probe' = [probe EXCEPT ![p] = q]
  <2>1. setting.base \in Settings!Bases /\ setting.model \in Models /\ setting.revision \in Nat /\ generation \in Nat
    BY <1>3 DEF SettingsInv
  <2>2. PICK i : i = Settings!IdentityAt(generation + 1)
    OBVIOUS
  <2>3. i \in [base : Settings!Bases, model : Models, revision : Nat, generation : Nat]
    BY <2>1, <2>2 DEF Settings!IdentityAt
  <2>4. i.generation = generation' /\ i.base = setting.base
    BY <1>5, <2>2 DEF Settings!IdentityAt
  <2>5. secret'.key = secret.key /\ secret'.base = secret.base
    BY <1>2, <1>5 DEF Settings!Saves
  <2>6. q.identity = i /\ q.key = KeyFor(secret, setting.base)'
    BY <1>3, <1>4, <2>2, <2>5 DEF Settings!KeyUsed, Settings!Loaded, KeyFor
  <2>7. Started(q)'
    <3>1. q.identity.generation <= generation'
      BY <2>1, <2>4, <2>6, <1>5
    <3>2. q.key = KeyFor(secret, q.identity.base)'
      BY <1>3, <2>4, <2>6
    <3> QED
      BY <2>3, <2>6, <3>1, <3>2 DEF Started
  <2>8. DOMAIN probe' = Probes /\ probe'[p] = q /\ \A o \in Probes \ {p} : probe'[o] = probe[o]
    BY <1>5 DEF SettingsInv
  <2>9. \A o \in Probes : probe'[o].phase = "asked" => probe'[o] = probe[o] \/ Started(probe[o])'
    BY <2>7, <2>8
  <2> QED
    BY <1>2, <1>3, <1>5, <2>8, <2>9, WritesUntested DEF SettingsInv
<1>6. CASE Settings!SaveFails(record) /\ probe' = probe
  <2>1. generation' = generation /\ secret' = secret
    BY <1>6 DEF Settings!SaveFails
  <2> QED
    BY <1>2, <1>3, <1>6, <2>1, WritesUntested DEF SettingsInv
<1> QED
  BY <1>1, <1>4, <1>5, <1>6 DEF Settings!StartProbe

\* A test is over, and what it says of the secrets is published only if it still is about them.
LEMMA EndsTest ==
    ASSUME SettingsInv, NEW p \in Probes, Settings!Succeed(p) \/ Settings!Refuse(p)
    PROVE  SettingsInv'
<1>1. PICK q : q = probe[p]
  OBVIOUS
<1>2. PICK i : i = q.identity
  OBVIOUS
<1>3. /\ probe' = [probe EXCEPT ![p] = Settings!Idle] /\ setting' = setting /\ generation' = generation
      /\ q.phase = "asked" /\ passed \subseteq passed'
  BY <1>1 DEF Settings!Succeed, Settings!Refuse, Settings!SaveFails
<1>4. Started(q) /\ i \in [base : Settings!Bases, model : Models, revision : Nat, generation : Nat]
  BY <1>1, <1>2, <1>3 DEF SettingsInv, Started
<1>5. PICK record : record = [secret EXCEPT !.verified = Settings!Tested(i)]
  OBVIOUS
<1>6. /\ record \in Secrets /\ record.key = secret.key /\ record.base = secret.base
      /\ record.verified = Settings!Tested(i)
  <2>1. Settings!Tested(i) \in TestedKeys
    BY <1>4 DEF Settings!Tested, TestedKeys
  <2>2. secret \in Secrets
    BY DEF SettingsInv
  <2> QED
    BY <1>5, <2>1, <2>2 DEF Secrets
<1>7. \/ UNCHANGED <<secret, disk>>
      \/ /\ Settings!Succeed(p) /\ i = Settings!Identity
         /\ Settings!Saves(record) \/ Settings!SaveFails(record)
  BY <1>1, <1>2, <1>5 DEF Settings!Succeed, Settings!Refuse
<1>8. secret'.key = secret.key /\ secret'.base = secret.base
  BY <1>6, <1>7 DEF Settings!Saves, Settings!SaveFails
<1>9. \A r \in disk' \union {secret'} : r \in Secrets /\ Backed(r)'
  <2>1. CASE UNCHANGED <<secret, disk>>
    BY <1>3, <2>1 DEF SettingsInv, Backed
  <2>2. CASE /\ Settings!Succeed(p) /\ i = Settings!Identity
             /\ Settings!Saves(record) \/ Settings!SaveFails(record)
    <3>1. [base |-> i.base, model |-> i.model, key |-> q.key] \in passed'
      BY <1>1, <1>2, <2>2 DEF Settings!Succeed
    <3>2. i.generation = generation
      BY <2>2 DEF Settings!Identity, Settings!IdentityAt
    <3>3. q.key = KeyFor(secret, i.base)
      BY <1>2, <1>4, <3>2 DEF Started
    <3>4. record.verified.base = i.base /\ record.verified.model = i.model
      BY <1>6 DEF Settings!Tested
    <3>5. KeyFor(record, i.base) = q.key
      BY <1>6, <3>3 DEF KeyFor
    <3>6. Backed(record)'
      BY <3>1, <3>4, <3>5 DEF Backed, KeyFor
    <3>7. disk' \union {secret'} \subseteq disk \union {secret, record}
      BY <2>2 DEF Settings!Saves, Settings!SaveFails
    <3> QED
      BY <1>3, <1>6, <3>6, <3>7, RecordsStayBacked
  <2> QED
    BY <1>7, <2>1, <2>2
<1>10. ASSUME NEW o \in Probes, probe'[o].phase = "asked" PROVE Started(probe[o])'
  <2>1. DOMAIN probe = Probes /\ generation \in Nat
    BY DEF SettingsInv
  <2>2. o # p /\ probe'[o] = probe[o]
    BY <1>3, <1>10, <2>1 DEF Settings!Idle
  <2> QED
    BY <1>3, <1>8, <1>10, <2>1, <2>2, TestsStayStarted
<1> QED
  BY <1>3, <1>9, <1>10 DEF SettingsInv

LEMMA StartsAgain ==
    ASSUME SettingsInv, Settings!Restart
    PROVE  SettingsInv'
<1>1. /\ secret' \in disk /\ disk' = {secret'} /\ generation' = 1 /\ UNCHANGED <<setting, passed>>
      /\ probe' = [p \in Probes |-> Settings!Idle]
  BY DEF Settings!Restart
<1>2. \A r \in disk' \union {secret'} : r \in Secrets /\ Backed(r)'
  BY <1>1 DEF SettingsInv, Backed
<1>3. \A p \in Probes : probe'[p].phase # "asked"
  BY <1>1 DEF Settings!Idle
<1> QED
  BY <1>1, <1>2, <1>3 DEF SettingsInv

LEMMA SettingsStep ==
    ASSUME SettingsInv, [Settings!Next]_(Settings!settingsVars)
    PROVE  SettingsInv'
<1>1. CASE UNCHANGED Settings!settingsVars
  <2>1. UNCHANGED <<setting, secret, generation, disk, probe, passed>>
    BY <1>1 DEF Settings!settingsVars
  <2>2. \A r \in disk' \union {secret'} : r \in Secrets /\ Backed(r)'
    BY <2>1 DEF SettingsInv, Backed
  <2>3. \A p \in Probes : probe'[p].phase = "asked" => Started(probe[p])'
    BY <2>1 DEF SettingsInv, Started, KeyFor
  <2> QED
    BY <2>1, <2>2, <2>3 DEF SettingsInv
<1> QED
  BY <1>1, SavesSetting, SetsKey, StartsTest, EndsTest, StartsAgain DEF Settings!Next

\* Chat is offered only for a provider, model and key that passed a test together, whatever
\* was saved or removed while the test was under way and whichever write failed
\* (get_ai_probe_settings and probe_selected_model, ai_settings.py).
THEOREM ReadinessIsTested == Settings!Spec => []ReadyMeansTested
<1>1. Settings!Init => SettingsInv
  <2> SUFFICES ASSUME Settings!Init PROVE SettingsInv
    OBVIOUS
  <2>1. Settings!NoSecret \in Secrets /\ Settings!NoSecret.verified = None
    BY DEF Settings!NoSecret, Secrets
  <2>2. \A r \in disk \union {secret} : r \in Secrets /\ Backed(r)
    BY <2>1 DEF Settings!Init, Backed
  <2> QED
    BY <2>2 DEF Settings!Init, SettingsInv, Settings!Unsaved, Settings!Idle
<1>2. SettingsInv /\ [Settings!Next]_(Settings!settingsVars) => SettingsInv'
  BY SettingsStep
<1>3. SettingsInv => ReadyMeansTested
  <2> SUFFICES ASSUME SettingsInv, Settings!Ready
               PROVE  [base |-> setting.base, model |-> setting.model, key |-> Settings!KeyUsed] \in passed
    BY DEF ReadyMeansTested, Settings!ReadyMeansTested
  <2>1. setting.base \in Settings!Bases /\ setting.model \in Models /\ setting.revision \in Nat
    BY DEF SettingsInv, Settings!Ready
  <2>2. secret.verified = [base |-> setting.base, model |-> setting.model, revision |-> setting.revision]
    BY DEF Settings!Ready, Settings!Tested, Settings!Identity, Settings!IdentityAt
  <2>3. secret.verified # None
    BY <2>1, <2>2, AssistantAssumption DEF Settings!Bases
  <2>4. secret.verified.base = setting.base /\ secret.verified.model = setting.model
    BY <2>2
  <2>5. KeyFor(secret, setting.base) = Settings!KeyUsed
    BY DEF KeyFor, Settings!KeyUsed, Settings!Loaded
  <2> QED
    BY <2>3, <2>4, <2>5 DEF SettingsInv, Backed, Settings!Ready
<1> QED
  BY <1>1, <1>2, <1>3, PTL DEF Settings!Spec

-----------------------------------------------------------------------------
(* The rules.  A pattern stands on its rejections, which only grow; and     *)
(* while a request of the user's waits, reviews may only switch its rule off. *)

Rejections(g, pattern) ==
    {f \in Candidates : verdict[f] = "REJECTED" /\ context[f].family = g
                          /\ ~context[f].several /\ context[f].text \in pattern}

Rules == [pattern : SUBSET Texts, enabled : BOOLEAN, removed : BOOLEAN]
Overtaken(now, saw) == now.removed = saw.removed /\ (now.enabled => saw.enabled)

\* What it takes to suppress a change.
Suppressible(e, c) ==
    ~context[e].several /\ Cardinality(Rejections(context[e].family, c)) >= Needed

FiltersInv ==
    /\ rule \in [Families -> Rules]
    /\ DOMAIN verdict = Candidates /\ DOMAIN context = Candidates /\ DOMAIN cause = Candidates
    /\ \A g \in Families : rule[g].pattern = {} => rule[g] = Filters!NoRule
    /\ \A g \in Families : rule[g].pattern # {} => Cardinality(Rejections(g, rule[g].pattern)) >= Needed
    /\ \A e \in Candidates : verdict[e] = "SUPPRESSED" => Suppressible(e, cause[e])
    /\ switch # None =>
          /\ switch.family \in Families /\ switch.saw \in Rules
          /\ rule[switch.family].pattern # {}
          /\ Overtaken(rule[switch.family], switch.saw)

LEMMA SameCardinality == \A S : Filters!Cardinality(S) = Cardinality(S)
  BY Zenon DEF Cardinality, Filters!Cardinality

LEMMA MoreThanNeeded ==
    ASSUME NEW S, NEW T, S \subseteq T, T \subseteq Candidates, Cardinality(S) >= Needed
    PROVE  Cardinality(T) >= Needed
<1>1. IsFiniteSet(T)
  BY AssistantAssumption, FS_Subset
<1>2. IsFiniteSet(S) /\ Cardinality(S) <= Cardinality(T)
  BY <1>1, FS_Subset
<1>3. Cardinality(S) \in Nat /\ Cardinality(T) \in Nat /\ Needed \in Nat
  BY <1>1, <1>2, FS_CardinalityType, AssistantAssumption
<1> QED
  BY <1>2, <1>3

\* Rejections stay, and with them what stands on them.
LEMMA RejectionsStay ==
    ASSUME \A f \in Candidates : verdict[f] = "REJECTED" => verdict'[f] = "REJECTED" /\ context'[f] = context[f],
           NEW g, NEW pattern, Cardinality(Rejections(g, pattern)) >= Needed
    PROVE  Cardinality(Rejections(g, pattern)') >= Needed
<1>1. PICK S, T : S = Rejections(g, pattern) /\ T = Rejections(g, pattern)'
  OBVIOUS
<1>2. S \subseteq T /\ T \subseteq Candidates
  BY <1>1 DEF Rejections
<1> QED
  BY <1>1, <1>2, MoreThanNeeded

\* A step on a candidate that suppresses nothing and leaves the rules alone, or changes them.
LEMMA ReviewMoves ==
    ASSUME FiltersInv, rule' \in [Families -> Rules],
           \A g \in Families : rule'[g].pattern = {} => rule'[g] = Filters!NoRule,
           NEW e \in Candidates, NEW v, verdict' = [verdict EXCEPT ![e] = v],
           DOMAIN context' = Candidates, DOMAIN cause' = Candidates,
           verdict[e] # "REJECTED",
           \A f \in Candidates \ {e} : context'[f] = context[f] /\ cause'[f] = cause[f],
           v = "SUPPRESSED" => Suppressible(e, cause[e])',
           \A g \in Families : rule'[g].pattern = rule[g].pattern
                               \/ Cardinality(Rejections(g, rule[g].pattern)') >= Needed,
           switch' = switch,
           switch # None => /\ rule'[switch.family].pattern # {}
                            /\ Overtaken(rule'[switch.family], switch.saw)
    PROVE  FiltersInv'
<1>1. /\ DOMAIN verdict' = Candidates /\ verdict'[e] = v
      /\ \A f \in Candidates \ {e} : verdict'[f] = verdict[f] /\ context'[f] = context[f]
  BY DEF FiltersInv
<1>2. \A f \in Candidates : verdict[f] = "REJECTED" => verdict'[f] = "REJECTED" /\ context'[f] = context[f]
  BY <1>1
<1>3. ASSUME NEW g \in Families, rule'[g].pattern # {}
      PROVE  Cardinality(Rejections(g, rule[g].pattern)') >= Needed
  <2>1. CASE rule'[g].pattern = rule[g].pattern
    <3>1. PICK pattern : pattern = rule[g].pattern
      OBVIOUS
    <3>2. Cardinality(Rejections(g, pattern)) >= Needed
      BY <1>3, <2>1, <3>1 DEF FiltersInv
    <3>3. Cardinality(Rejections(g, pattern)') >= Needed
      BY <1>2, <3>2, RejectionsStay
    <3> QED
      BY <2>1, <3>1, <3>3
  <2>2. CASE rule'[g].pattern # rule[g].pattern
    BY <2>2
  <2> QED
    BY <2>1, <2>2
<1>4. ASSUME NEW f \in Candidates, verdict'[f] = "SUPPRESSED" PROVE Suppressible(f, cause[f])'
  <2>1. CASE f = e
    BY <1>1, <1>4, <2>1
  <2>2. CASE f # e
    <3>1. PICK g, c : g = context[f].family /\ c = cause[f]
      OBVIOUS
    <3>2. ~context[f].several /\ Cardinality(Rejections(g, c)) >= Needed
      BY <1>1, <1>4, <2>2, <3>1 DEF FiltersInv, Suppressible
    <3>3. Cardinality(Rejections(g, c)') >= Needed
      BY <1>2, <3>2, RejectionsStay
    <3> QED
      BY <1>1, <2>2, <3>1, <3>2, <3>3 DEF Suppressible
  <2> QED
    BY <2>1, <2>2
<1> QED
  BY <1>1, <1>3, <1>4 DEF FiltersInv

LEMMA FilterMoves ==
    ASSUME FiltersInv, NEW e \in Candidates, NEW c, NEW o \in {"PENDING", "REVIEWING"},
           Filters!Filter(e, c, o), verdict[e] # "REJECTED",
           DOMAIN context' = Candidates, context'[e] = c,
           \A f \in Candidates \ {e} : context'[f] = context[f],
           UNCHANGED <<rule, switch>>
    PROVE  FiltersInv'
<1>1. ASSUME NEW g \in Families, NEW pattern, pattern = rule[g].pattern, g \in Filters!MatchingRule(c),
             verdict' = [verdict EXCEPT ![e] = "SUPPRESSED"], cause' = [cause EXCEPT ![e] = pattern]
      PROVE  FiltersInv'
  <2>1. c.family = g /\ ~c.several /\ Cardinality(Rejections(g, pattern)) >= Needed
    BY <1>1 DEF Filters!MatchingRule, Filters!Matches, FiltersInv
  <2>2. DOMAIN cause' = Candidates /\ cause'[e] = pattern /\ \A f \in Candidates \ {e} : cause'[f] = cause[f]
    BY <1>1 DEF FiltersInv
  <2>3. \A f \in Candidates : verdict[f] = "REJECTED" => verdict'[f] = "REJECTED" /\ context'[f] = context[f]
    BY <1>1 DEF FiltersInv
  <2>4. Cardinality(Rejections(g, pattern)') >= Needed
    BY <2>1, <2>3, RejectionsStay
  <2>5. Suppressible(e, cause[e])'
    BY <2>1, <2>2, <2>4 DEF Suppressible
  <2>6. PICK v : v = "SUPPRESSED"
    OBVIOUS
  <2> QED
    BY <1>1, <2>2, <2>5, <2>6, ReviewMoves DEF FiltersInv
<1>2. CASE verdict' = [verdict EXCEPT ![e] = o] /\ cause' = cause
  BY <1>2, ReviewMoves DEF FiltersInv
<1> QED
  BY <1>1, <1>2 DEF Filters!Filter, Filters!MatchingRule

LEMMA CandidateStep ==
    ASSUME FiltersInv, NEW e \in Candidates,
           \/ \E c \in Filters!Contexts : Filters!Enqueue(e, c)
           \/ Filters!StartReview(e) \/ Filters!Interrupted(e)
           \/ \E v \in {"REJECTED", "NOTIFY"} : Filters!Decide(e, v)
    PROVE  FiltersInv' /\ rule' = rule
<1>1. ASSUME NEW c \in Filters!Contexts, Filters!Enqueue(e, c) PROVE FiltersInv' /\ rule' = rule
  <2>1. /\ Filters!Filter(e, c, "PENDING") /\ verdict[e] # "REJECTED"
        /\ context' = [context EXCEPT ![e] = c] /\ UNCHANGED <<rule, switch>>
    BY <1>1 DEF Filters!Enqueue
  <2>2. DOMAIN context' = Candidates /\ context'[e] = c /\ \A f \in Candidates \ {e} : context'[f] = context[f]
    BY <2>1 DEF FiltersInv
  <2> QED
    BY <2>1, <2>2, FilterMoves
<1>2. CASE Filters!StartReview(e)
  <2>1. PICK c : c = context[e]
    OBVIOUS
  <2>2. /\ Filters!Filter(e, c, "REVIEWING") /\ verdict[e] # "REJECTED" /\ UNCHANGED <<rule, context, switch>>
    BY <1>2, <2>1 DEF Filters!StartReview
  <2> QED
    BY <2>1, <2>2, FilterMoves DEF FiltersInv
<1>3. ASSUME NEW v \in {"REJECTED", "NOTIFY", "PENDING"}, verdict[e] = "REVIEWING",
             verdict' = [verdict EXCEPT ![e] = v], UNCHANGED <<rule, context, cause, switch>>
      PROVE  FiltersInv' /\ rule' = rule
  BY <1>3, ReviewMoves DEF FiltersInv
<1>4. CASE Filters!Interrupted(e)
  BY <1>3, <1>4 DEF Filters!Interrupted
<1>5. ASSUME NEW v \in {"REJECTED", "NOTIFY"}, Filters!Decide(e, v) PROVE FiltersInv' /\ rule' = rule
  BY <1>3, <1>5 DEF Filters!Decide, Filters!Answered
<1> QED
  BY <1>1, <1>2, <1>4, <1>5

LEMMA LearnStep ==
    ASSUME FiltersInv, NEW e \in Candidates, NEW g \in Families, NEW pattern \in Filters!Patterns,
           Filters!Learn(e, g, pattern)
    PROVE  FiltersInv' /\ Filters!StaysOff
<1>1. PICK r : r = [pattern |-> pattern, enabled |-> TRUE, removed |-> FALSE]
  OBVIOUS
<1>2. /\ verdict[e] # "REJECTED" /\ verdict' = [verdict EXCEPT ![e] = "REJECTED"]
      /\ rule' = [rule EXCEPT ![g] = r] /\ UNCHANGED <<context, cause, switch>>
  BY <1>1 DEF Filters!Learn, Filters!Answered
<1>3. r \in Rules /\ r.pattern = pattern /\ r.enabled = TRUE /\ r.removed = FALSE /\ pattern # {}
  <2>1. pattern \in SUBSET Texts /\ pattern # {}
    BY DEF Filters!Patterns
  <2> QED
    BY <1>1, <2>1 DEF Rules
<1>4. rule \in [Families -> Rules] /\ rule' \in [Families -> Rules] /\ rule'[g] = r
      /\ \A h \in Families \ {g} : rule'[h] = rule[h]
  BY <1>2, <1>3 DEF FiltersInv
<1>5. Cardinality(Rejections(g, pattern)') >= Needed
  <2>1. Filters!Evidence(g, pattern) = Rejections(g, pattern)'
    BY <1>2 DEF Filters!Evidence, Filters!Matches, Rejections
  <2>2. Cardinality(Filters!Evidence(g, pattern)) >= Needed
    BY SameCardinality DEF Filters!Learn
  <2>3. PICK S, T : S = Filters!Evidence(g, pattern) /\ T = Rejections(g, pattern)'
    OBVIOUS
  <2> QED
    BY <2>1, <2>2, <2>3
<1>6. \A h \in Families : rule'[h].pattern = rule[h].pattern
                          \/ Cardinality(Rejections(h, rule[h].pattern)') >= Needed
  BY <1>3, <1>4, <1>5
<1>7. rule[g] # Filters!NoRule => rule[g].enabled /\ ~rule[g].removed
  BY DEF Filters!Learn, Filters!MayLearn, Filters!Usable
<1>8. switch # None => /\ rule'[switch.family].pattern # {}
                       /\ Overtaken(rule'[switch.family], switch.saw)
  <2>1. SUFFICES ASSUME switch # None
                 PROVE  rule'[switch.family].pattern # {} /\ Overtaken(rule'[switch.family], switch.saw)
    OBVIOUS
  <2>2. /\ switch.family \in Families /\ rule[switch.family].pattern # {}
        /\ Overtaken(rule[switch.family], switch.saw)
    BY <2>1 DEF FiltersInv
  <2>3. CASE switch.family = g
    <3>1. rule[g] # Filters!NoRule
      BY <2>2, <2>3 DEF Filters!NoRule
    <3> QED
      BY <1>3, <1>4, <1>7, <2>2, <2>3, <3>1 DEF Overtaken, Rules
  <2>4. CASE switch.family # g
    BY <1>4, <2>2, <2>4
  <2> QED
    BY <2>3, <2>4
<1>9. FiltersInv'
  <2>1. PICK v : v = "REJECTED"
    OBVIOUS
  <2>2. \A h \in Families : rule'[h].pattern = {} => rule'[h] = Filters!NoRule
    BY <1>3, <1>4 DEF FiltersInv
  <2> QED
    BY <1>2, <1>4, <1>6, <1>8, <2>1, <2>2, ReviewMoves DEF FiltersInv
<1>10. Filters!StaysOff
  BY <1>4, <1>7 DEF Filters!StaysOff, Filters!Usable
<1> QED
  BY <1>9, <1>10

LEMMA UnlearnStep ==
    ASSUME FiltersInv, NEW e \in Candidates, NEW g \in Families, Filters!Unlearn(e, g)
    PROVE  FiltersInv' /\ Filters!StaysOff
<1>1. PICK r : r = [rule[g] EXCEPT !.enabled = FALSE]
  OBVIOUS
<1>2. /\ verdict[e] # "REJECTED" /\ verdict' = [verdict EXCEPT ![e] = "REJECTED"]
      /\ rule' = [rule EXCEPT ![g] = r] /\ UNCHANGED <<context, cause, switch>>
      /\ rule[g].enabled /\ ~rule[g].removed
  BY <1>1 DEF Filters!Unlearn, Filters!Answered, Filters!Usable
<1>3. rule \in [Families -> Rules]
  BY DEF FiltersInv
<1>4. r \in Rules /\ r.pattern = rule[g].pattern /\ ~r.enabled /\ r.removed = rule[g].removed
  BY <1>1, <1>3 DEF Rules
<1>5. rule' \in [Families -> Rules] /\ rule'[g] = r /\ \A h \in Families \ {g} : rule'[h] = rule[h]
  BY <1>2, <1>3, <1>4
<1>6. \A h \in Families : rule'[h].pattern = rule[h].pattern
  BY <1>4, <1>5
<1>7. rule[g].pattern # {}
  BY <1>2 DEF FiltersInv, Filters!NoRule
<1>8. switch # None => /\ rule'[switch.family].pattern # {}
                       /\ Overtaken(rule'[switch.family], switch.saw)
  BY <1>4, <1>5, <1>6 DEF FiltersInv, Overtaken
<1>9. FiltersInv'
  <2>1. PICK v : v = "REJECTED"
    OBVIOUS
  <2>2. \A h \in Families : rule'[h].pattern = {} => rule'[h] = Filters!NoRule
    BY <1>4, <1>5, <1>7 DEF FiltersInv
  <2> QED
    BY <1>2, <1>5, <1>6, <1>8, <2>1, <2>2, ReviewMoves DEF FiltersInv
<1>10. Filters!StaysOff
  BY <1>2, <1>5 DEF Filters!StaysOff, Filters!Usable
<1> QED
  BY <1>9, <1>10

LEMMA AskStep ==
    ASSUME FiltersInv, NEW g \in Families, NEW want, Filters!Ask(g, want)
    PROVE  FiltersInv' /\ rule' = rule
<1>1. PICK q : q = [family |-> g, want |-> want, saw |-> rule[g]]
  OBVIOUS
<1>2. switch' = q /\ rule[g] # Filters!NoRule /\ UNCHANGED <<rule, verdict, context, cause>>
  BY <1>1 DEF Filters!Ask
<1>3. rule[g] \in Rules /\ rule[g].pattern # {} /\ q.family = g /\ q.saw = rule[g]
  BY <1>1, <1>2 DEF FiltersInv
<1>4. Overtaken(rule[q.family], q.saw)'
  BY <1>2, <1>3 DEF Overtaken
<1>5. \A h, c : Rejections(h, c)' = Rejections(h, c)
  BY <1>2 DEF Rejections
<1>6. \A e \in Candidates : verdict'[e] = "SUPPRESSED" => Suppressible(e, cause[e])'
  BY <1>2, <1>5 DEF FiltersInv, Suppressible
<1>7. \A h \in Families : rule'[h].pattern # {} => Cardinality(Rejections(h, rule[h].pattern)') >= Needed
  BY <1>2, <1>5 DEF FiltersInv
<1> QED
  BY <1>2, <1>3, <1>4, <1>6, <1>7 DEF FiltersInv

LEMMA ToggleStep ==
    ASSUME FiltersInv, Filters!Toggle
    PROVE  FiltersInv' /\ Filters!StaysOff
<1>1. PICK g, old, saw, want : g = switch.family /\ old = rule[g] /\ saw = switch.saw /\ want = switch.want
  OBVIOUS
<1>2. PICK r : r = [old EXCEPT
                 !.enabled = IF (want = "enable") = saw.enabled THEN old.enabled ELSE (want = "enable"),
                 !.removed = IF (want = "remove") = saw.removed THEN old.removed ELSE (want = "remove")]
  OBVIOUS
<1>3. /\ switch # None /\ switch' = None /\ UNCHANGED <<verdict, context, cause>>
      /\ rule \in [Families -> Rules] /\ g \in Families /\ old \in Rules /\ saw \in Rules
      /\ old.pattern # {} /\ Overtaken(old, saw)
  BY <1>1 DEF Filters!Toggle, FiltersInv
<1>4. rule' = [rule EXCEPT ![g] = r]
  BY <1>1, <1>2, <1>3 DEF Filters!Toggle
<1>5. /\ r \in Rules /\ r.pattern = old.pattern
      /\ r.enabled = IF (want = "enable") = saw.enabled THEN old.enabled ELSE (want = "enable")
      /\ r.removed = IF (want = "remove") = saw.removed THEN old.removed ELSE (want = "remove")
  BY <1>2, <1>3 DEF Rules
<1>6. rule' \in [Families -> Rules] /\ rule'[g] = r /\ \A h \in Families \ {g} : rule'[h] = rule[h]
  BY <1>3, <1>4, <1>5
<1>7. FiltersInv'
  <2>1. \A h \in Families : rule'[h].pattern = rule[h].pattern
    BY <1>1, <1>5, <1>6
  <2>2. \A h, c : Rejections(h, c)' = Rejections(h, c)
    BY <1>3 DEF Rejections
  <2>3. \A e \in Candidates : verdict'[e] = "SUPPRESSED" => Suppressible(e, cause[e])'
    BY <1>3, <2>2 DEF FiltersInv, Suppressible
  <2>4. \A h \in Families : rule'[h].pattern # {} => Cardinality(Rejections(h, rule[h].pattern)') >= Needed
    BY <2>1, <2>2 DEF FiltersInv
  <2>5. \A h \in Families : rule'[h].pattern = {} => rule'[h] = Filters!NoRule
    BY <1>3, <1>5, <1>6, <2>1 DEF FiltersInv
  <2> QED
    BY <1>3, <1>6, <2>3, <2>4, <2>5 DEF FiltersInv
\* Neither removing nor disabling a rule can make it usable that was not.
<1>8. (r.enabled /\ ~r.removed) /\ ~(old.enabled /\ ~old.removed) => want = "enable"
  <2>1. SUFFICES ASSUME want # "enable", r.enabled, ~r.removed PROVE old.enabled /\ ~old.removed
    BY <1>3, <1>5 DEF Rules
  <2>2. r.enabled = IF ~saw.enabled THEN old.enabled ELSE FALSE
    BY <1>3, <1>5, <2>1 DEF Rules
  <2>3. old.enabled
    BY <1>3, <2>1, <2>2 DEF Rules
  <2>4. ~old.removed
    <3>1. CASE want = "remove"
      BY <1>3, <1>5, <2>1, <3>1 DEF Rules, Overtaken
    <3>2. CASE want # "remove"
      BY <1>3, <1>5, <2>1, <2>2, <2>3, <3>2 DEF Rules, Overtaken
    <3> QED
      BY <3>1, <3>2
  <2> QED
    BY <2>3, <2>4
<1>9. Filters!StaysOff
  BY <1>1, <1>3, <1>6, <1>8 DEF Filters!StaysOff, Filters!Usable
<1> QED
  BY <1>7, <1>9

LEMMA FiltersStep ==
    ASSUME FiltersInv, [Filters!Next]_(Filters!vars)
    PROVE  FiltersInv' /\ Filters!StaysOff
<1>1. CASE UNCHANGED Filters!vars
  <2>1. UNCHANGED <<rule, verdict, context, cause, switch>>
    BY <1>1 DEF Filters!vars
  <2>2. \A g, c : Rejections(g, c)' = Rejections(g, c)
    BY <2>1 DEF Rejections
  <2>3. \A e \in Candidates : verdict'[e] = "SUPPRESSED" => Suppressible(e, cause[e])'
    BY <2>1, <2>2 DEF FiltersInv, Suppressible
  <2>4. \A g \in Families : rule'[g].pattern # {} => Cardinality(Rejections(g, rule[g].pattern)') >= Needed
    BY <2>1, <2>2 DEF FiltersInv
  <2>5. switch # None => Overtaken(rule[switch.family], switch.saw)'
    BY <2>1 DEF FiltersInv, Overtaken
  <2> QED
    BY <2>1, <2>3, <2>4, <2>5 DEF FiltersInv, Filters!StaysOff
<1>2. rule' = rule => Filters!StaysOff
  BY DEF Filters!StaysOff
<1> QED
  BY <1>1, <1>2, CandidateStep, LearnStep, UnlearnStep, AskStep, ToggleStep DEF Filters!Next

\* What was suppressed changed one text that had been rejected often enough, and a rule that is
\* off is changed and turned on only by the user (matching_rule, mutate_from_review and
\* set_rule_enabled, change_filters.py).
THEOREM SuppressionsAreEarned == Filters!Spec => SuppressionIsEarned
<1>1. Filters!Init => FiltersInv
  <2> SUFFICES ASSUME Filters!Init PROVE FiltersInv
    OBVIOUS
  <2>1. /\ rule = [g \in Families |-> Filters!NoRule] /\ verdict = [e \in Candidates |-> "NONE"]
        /\ DOMAIN context = Candidates /\ DOMAIN cause = Candidates /\ switch = None
    BY DEF Filters!Init
  <2>2. Filters!NoRule \in Rules /\ Filters!NoRule.pattern = {}
    BY DEF Filters!NoRule, Rules
  <2> QED
    BY <2>1, <2>2 DEF FiltersInv
<1>2. FiltersInv /\ [Filters!Next]_(Filters!vars) => FiltersInv' /\ [Filters!StaysOff]_(Filters!vars)
  BY FiltersStep
<1>3. FiltersInv => Filters!Earned
  <2> SUFFICES ASSUME FiltersInv, NEW e \in Candidates, verdict[e] = "SUPPRESSED"
               PROVE  /\ ~context[e].several
                      /\ Cardinality({f \in Candidates : verdict[f] = "REJECTED"
                           /\ context[f].family = context[e].family
                           /\ ~context[f].several /\ context[f].text \in cause[e]}) >= Needed
    BY SameCardinality DEF Filters!Earned
  <2> QED
    BY DEF FiltersInv, Suppressible, Rejections
<1>4. SuppressionIsEarned <=> []Filters!Earned /\ [][Filters!StaysOff]_(Filters!vars)
  BY DEF SuppressionIsEarned, Filters!SuppressionIsEarned
<1> QED
  BY <1>1, <1>2, <1>3, <1>4, PTL DEF Filters!Spec
=============================================================================
