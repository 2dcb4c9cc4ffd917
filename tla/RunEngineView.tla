--------------------------- MODULE RunEngineView ---------------------------
(***************************************************************************)
(* What clients and subscribers see of a run: a feed without gaps, no run  *)
(* left behind, and the life cycle of RunLifecycle, which RunEngine        *)
(* implements while nobody cancels, no call fails and no overrun occurs.   *)
(***************************************************************************)
EXTENDS RunEngineCarriers

USE StepsAssumption, RetriesAssumption, ThreadsAssumption, BatchAssumption,
    BudgetAssumption

(* A step never takes back an event. *)
LEMMA FeedKept ==
  ASSUME [Next]_vars
  PROVE  feed \subseteq feed'
BY DEF Next, ThreadStep, ReadGroup, Exit, Recover, Scan, ScanDone, Claim,
   IdempotencyCheck, Process, FetchStatus, Drop, FetchStep, SetRunning,
   PublishRunning, ReadContext, PublishStarted, Execute, InsertExec, Ack,
   PublishStepCompleted, SaveContext, CountSteps, EnqueueNext, CompleteRun,
   PublishRunCompleted, PublishStepFailed, FetchPolicy, Backoff, Recheck,
   EnqueueRetry, MarkRunFailed, PublishAborted, PublishRunFailed, Publish,
   PublishLast, Announce, Age, Handlers, CreateInsert, CreateEnqueue, CancelRead,
   CancelWrite, Lifetime, Stop, StopDone, Crash, Restart, vars, ghost

-----------------------------------------------------------------------------
(* The feed has no gaps.                                                   *)

(* Until a call fails, a step is asked for, and a goroutine saves a        *)
(* step's output, after the step before, or the step, was announced as     *)
(* completed.                                                              *)
ToldAt(t) ==
  /\ pc[t] \in {"save_context"} \cup Saved => Done(RunOf(t), StepOf(t)) \in feed
  /\ pc[t] = "pub_run_completed" => StepOf(t) = NumSteps - 1
ToldOK == Before({"fault"}) =>
  /\ \A id \in Ids : stream[id].step > 0 => Done(stream[id].run, stream[id].step - 1) \in feed
  /\ \A t \in Threads : ~Cancelled(t) => ToldAt(t)

LEMMA ToldStep ==
  ASSUME IInv, BudgetOK, GroundsOK, ToldOK, [Next]_vars
  PROVE  ToldOK'
<1> SUFFICES ASSUME Before({"fault"})'
             PROVE  /\ \A id \in Ids' : stream'[id].step > 0 =>
                         Done(stream'[id].run, stream'[id].step - 1) \in feed'
                    /\ \A t \in Threads : ~Cancelled(t)' => ToldAt(t)'
  BY DEF ToldOK, Done
<1>b. Before({"fault"}) /\ ~Spend("fault")
  BY BeforeStep DEF Hazards
<1>f. feed \subseteq feed'
  BY FeedKept
<1>1. ASSUME NEW id \in Ids', stream'[id].step > 0
      PROVE  Done(stream'[id].run, stream'[id].step - 1) \in feed'
  <2>1. CASE id \in Ids
    BY <1>1, <1>b, <1>f, <2>1, StreamKept DEF ToldOK
  <2>2. CASE id \notin Ids
    <3>1. FirstOf(stream'[id]) \/ FollowOf(stream'[id])
      BY <2>2, NewMessage, StreamKept DEF Ids
    <3>2. CASE FirstOf(stream'[id])
      BY <1>1, <3>2 DEF FirstOf
    <3>3. CASE FollowOf(stream'[id])
      <4>1. PICK t \in Threads :
              /\ ~Cancelled(t) /\ pc[t] \in {"enqueue_next", "enqueue_retry"}
              /\ job[t] \in Ids /\ stream'[id].run = RunOf(t)
              /\ stream'[id].step
                   = IF pc[t] = "enqueue_next" THEN StepOf(t) + 1 ELSE StepOf(t)
        BY <3>3 DEF FollowOf
      <4>2. StepOf(t) \in Int
        BY <4>1, StreamKept DEF StepOf, Message, Steps
      <4>3. CASE pc[t] = "enqueue_next"
        <5>1. Done(RunOf(t), StepOf(t)) \in feed
          BY <1>b, <4>1, <4>3 DEF ToldOK, ToldAt, Saved
        <5> QED
          BY <1>f, <4>1, <4>2, <4>3, <5>1
      <4>4. CASE pc[t] = "enqueue_retry"
        BY <1>1, <1>b, <1>f, <4>1, <4>4 DEF ToldOK, RunOf, StepOf
      <4> QED
        BY <4>1, <4>3, <4>4
    <3> QED
      BY <3>1, <3>2, <3>3
  <2> QED
    BY <2>1, <2>2
<1>2. ASSUME NEW t \in Threads, ~Cancelled(t)', pc'[t] \in {"save_context"} \cup Saved
      PROVE  /\ Done(RunOf(t)', StepOf(t)') \in feed'
             /\ pc'[t] = "pub_run_completed" => StepOf(t)' = NumSteps - 1
  <2>1. ~Cancelled(t) /\ (ThreadStep(t) \/ UNCHANGED <<pc[t], job[t]>>)
    BY <1>2, LiveStep DEF Saved, Acked
  <2>2. CASE UNCHANGED <<pc[t], job[t]>>
    <3>1. job[t] \in Ids
      BY <1>2, <2>2, JobLemma DEF Saved, Acked, IInv
    <3>2. RunOf(t)' = RunOf(t) /\ StepOf(t)' = StepOf(t)
      BY <2>2, <3>1, StreamKept DEF RunOf, StepOf
    <3> QED
      BY <1>2, <1>b, <1>f, <2>1, <2>2, <3>2 DEF ToldOK, ToldAt, Saved
  <2>3. CASE ThreadStep(t)
    <3>1. /\ pc[t] \in {"pub_step_completed", "save_context"} \cup Saved
          /\ UNCHANGED <<job, stream>>
          /\ pc[t] = "pub_step_completed" => PublishStepCompleted(t)
          /\ pc'[t] = "pub_run_completed" => pc[t] = "complete_run"
      <4> USE <1>2, <2>3 DEF IInv, TypeOK, At, Goto, Finish, Saved, redis, work
      <4>1. CASE ReadGroup(t) \/ Recover(t) \/ Exit(t)
        BY <4>1 DEF ReadGroup, Exit, Recover, Scan, ScanDone, Claim,
           IdempotencyCheck, AfterCheck
      <4>2. CASE Process(t)
        BY <4>2 DEF Process, FetchStatus, Drop, FetchStep, SetRunning,
           PublishRunning, ReadContext, PublishStarted, Execute, InsertExec, Ack,
           AfterAck, PublishStepCompleted, SaveContext, CountSteps, EnqueueNext,
           CompleteRun, PublishRunCompleted, PublishStepFailed, FetchPolicy,
           Backoff, Recheck, EnqueueRetry, MarkRunFailed, PublishAborted,
           PublishRunFailed, Publish, PublishLast
      <4> QED
        BY <4>1, <4>2 DEF ThreadStep
    <3>2. RunOf(t)' = RunOf(t) /\ StepOf(t)' = StepOf(t)
      BY <3>1 DEF RunOf, StepOf
    <3>3. CASE PublishStepCompleted(t)
      <4>1. Done(RunOf(t), StepOf(t)) \in feed' /\ pc'[t] = "save_context"
        BY <1>b, <2>1, <3>3 DEF PublishStepCompleted, Publish, Announce, Works,
           Faulty, Done, Goto, IInv, TypeOK
      <4> QED
        BY <3>2, <4>1
    <3>4. CASE pc[t] \in {"save_context"} \cup Saved
      <4>1. Done(RunOf(t), StepOf(t)) \in feed
        BY <1>b, <2>1, <3>4 DEF ToldOK, ToldAt
      <4>2. pc[t] = "complete_run" => StepOf(t) = NumSteps - 1
        BY <1>b, <2>1 DEF GroundsOK, GroundsAt
      <4> QED
        BY <1>f, <3>1, <3>2, <4>1, <4>2
    <3> QED
      BY <3>1, <3>3, <3>4
  <2> QED
    BY <2>1, <2>2, <2>3
<1>3. \A t \in Threads : ~Cancelled(t)' => ToldAt(t)'
  BY <1>2 DEF ToldAt, Saved, Done
<1> QED
  BY <1>1, <1>3

LEMMA NoGapsStep ==
  ASSUME IInv, BudgetOK, ToldOK, NoGapsInFeed, [Next]_vars
  PROVE  NoGapsInFeed'
<1> SUFFICES ASSUME Before({"fault"})', NEW e \in feed'
             PROVE  /\ (e.type = "step.started" /\ e.step > 0)
                         => Done(e.run, e.step - 1) \in feed'
                    /\ e.type = "run.completed" => Done(e.run, NumSteps - 1) \in feed'
  BY DEF NoGapsInFeed, Done
<1>b. Before({"fault"})
  BY BeforeStep DEF Hazards
<1>f. feed \subseteq feed'
  BY FeedKept
<1>1. CASE e \in feed
  BY <1>1, <1>b, <1>f DEF NoGapsInFeed
<1>2. CASE e \notin feed
  <2>1. PICK t \in Threads :
          /\ ~Cancelled(t) /\ job[t] \in Ids /\ e.run = RunOf(t) /\ e.step = StepOf(t)
          /\ e.type = "step.started" => PublishStarted(t)
          /\ e.type = "run.completed" => PublishRunCompleted(t)
    BY <1>2, FeedStep
  <2>2. ASSUME e.type = "step.started", e.step > 0
        PROVE  Done(e.run, e.step - 1) \in feed
    BY <1>b, <2>1, <2>2 DEF ToldOK, RunOf, StepOf
  <2>3. ASSUME e.type = "run.completed"
        PROVE  Done(e.run, NumSteps - 1) \in feed
    <3>1. pc[t] = "pub_run_completed"
      BY <2>1, <2>3 DEF PublishRunCompleted, PublishLast, At
    <3> QED
      BY <1>b, <2>1, <3>1 DEF ToldOK, ToldAt, Saved
  <2> QED
    BY <1>f, <2>2, <2>3
<1> QED
  BY <1>1, <1>2

(* The feed has no gaps: until a call fails, a step is announced as        *)
(* started after the step before it was announced as completed, and a run  *)
(* as completed after its last step was - through crashes, overlapping     *)
(* recovery and cancels.                                                   *)
THEOREM FeedHasNoGaps == Spec => []NoGapsInFeed
<1> DEFINE Inv == BudgetOK /\ GroundsOK /\ ToldOK /\ NoGapsInFeed
<1>1. Init => Inv
  <2> SUFFICES ASSUME Init PROVE Inv
    OBVIOUS
  <2>1. \A t \in Threads : pc[t] \in {"reading", "ticking"}
    BY DEF Init, Start
  <2>2. Ids = {}
    BY EmptySeq DEF Init, Ids
  <2>3. BudgetOK /\ NoGapsInFeed
    BY DEF Init, BudgetOK, NoGapsInFeed
  <2>4. GroundsOK /\ ToldOK
    BY <2>1, <2>2 DEF GroundsOK, GroundsAt, ToldOK, ToldAt, Saved
  <2> QED
    BY <2>3, <2>4
<1>2. IInv /\ Inv /\ [Next]_vars => Inv'
  BY BudgetStep, GroundsStep, ToldStep, NoGapsStep
<1>3. Inv => NoGapsInFeed
  OBVIOUS
<1> HIDE DEF Inv
<1> QED
  BY <1>1, <1>2, <1>3, InductiveInv, PTL DEF Spec

-----------------------------------------------------------------------------
(* No run is left behind.                                                  *)

(* The places from which a goroutine still does something for its run,     *)
(* and what stands behind an active run: its handler, a message nobody has *)
(* read yet, or a goroutine at one of these places.                        *)
Forward == (Unacked \cup Acked) \ {"idem_check", "drop", "abort_run",
             "pub_aborted", "pub_run_completed", "pub_run_failed"}
Smooth  == Before({"fault", "crash", "stop"})
UpOK    == Smooth => \A i \in Instances : inst[i] = "up"
Unread(r) == \E id \in Ids : id > delivered /\ stream[id].run = r
Worked(r) == \E t \in Threads : pc[t] \in Forward /\ RunOf(t) = r
BackedOK  == Smooth => \A r \in Runs : status[r] \in Active =>
                         creating[r] # NoInstance \/ Unread(r) \/ Worked(r)

LEMMA SmoothStep ==
  ASSUME IInv, BudgetOK, [Next]_vars, Smooth'
  PROVE  /\ Smooth /\ ~Spend("fault") /\ ~Spend("crash") /\ ~Spend("stop")
         /\ Before({"fault"})
BY BeforeStep DEF Smooth, Hazards, Before

LEMMA UpStep ==
  ASSUME IInv, BudgetOK, UpOK, [Next]_vars
  PROVE  UpOK'
<1> SUFFICES ASSUME Smooth' PROVE \A i \in Instances : inst'[i] = "up"
  BY DEF UpOK
<1>1. Smooth /\ ~Spend("crash") /\ ~Spend("stop")
  BY SmoothStep
<1>2. \A i \in Instances : inst[i] = "up"
  BY <1>1 DEF UpOK
<1> QED
  BY <1>1, <1>2, ThreadFrame DEF Next, Age, Handlers, CreateInsert, CreateEnqueue,
     CancelRead, CancelWrite, Lifetime, Stop, StopDone, Crash, Restart, vars, IInv

(* While no call fails and every instance is up, a goroutine going forward *)
(* goes on, enqueues the run's next message, or finds the run over.        *)
LEMMA ForwardStep ==
  ASSUME IInv, NEW t \in Threads, ThreadStep(t), pc[t] \in Forward,
         ~Cancelled(t), ~Spend("fault"), NEW r \in Runs, RunOf(t) = r
  PROVE  \/ pc'[t] \in Forward /\ RunOf(t)' = r
         \/ Unread(r)'
         \/ status'[r] \notin Active
<1> USE DEF IInv, TypeOK, At, Goto, Forward, Unacked, Acked, Works, Faulty
<1>j. /\ job[t] \in Ids /\ StepOf(t) \in Steps /\ AttemptOf(t) \in Attempts
      /\ JobAt(pc[t], job[t], outcome[t])
  BY JobLemma DEF JobsOK
<1>1. CASE EnqueueNext(t) \/ EnqueueRetry(t)
  <2>1. \E s \in Steps, n \in Attempts : Enqueue(RunOf(t), s, n)
    <3>1. CASE EnqueueNext(t)
      <4>1. StepOf(t) + 1 \in Steps
        BY <1>j, <3>1 DEF EnqueueNext, JobAt, StepOf, Steps
      <4>2. 1 \in Attempts
        BY DEF Attempts, AttemptLimit, EffectiveRetries
      <4> QED
        BY <3>1, <4>1, <4>2 DEF EnqueueNext
    <3>2. CASE EnqueueRetry(t)
      <4>1. AttemptOf(t) + 1 \in Attempts
        BY <1>j, <3>2, RetryInLimit DEF EnqueueRetry, JobAt, AttemptOf
      <4> QED
        BY <1>j, <3>2, <4>1 DEF EnqueueRetry
    <3> QED
      BY <1>1, <3>1, <3>2
  <2>2. PICK s \in Steps, n \in Attempts : Enqueue(RunOf(t), s, n)
    BY <2>1
  <2>3. /\ Len(stream) \in Nat /\ Len(stream') = Len(stream) + 1
        /\ stream'[Len(stream) + 1] = [run |-> RunOf(t), step |-> s, attempt |-> n]
    BY <1>j, <2>2, EnqueueLemma
  <2>4. delivered' = delivered
    BY <1>1 DEF EnqueueNext, EnqueueRetry
  <2>5. Len(stream) + 1 \in Ids' /\ Len(stream) + 1 > delivered'
    BY <2>3, <2>4 DEF Ids
  <2>6. stream'[Len(stream) + 1].run = r
    BY <2>3
  <2> QED
    BY <2>5, <2>6 DEF Unread
<1>2. CASE Process(t) /\ ~EnqueueNext(t) /\ ~EnqueueRetry(t)
  <2>1. stream' = stream
    BY <1>2 DEF Process, FetchStatus, Drop, FetchStep, SetRunning, PublishRunning,
       ReadContext, PublishStarted, Execute, InsertExec, Ack, PublishStepCompleted,
       SaveContext, CountSteps, CompleteRun, PublishRunCompleted,
       PublishStepFailed, FetchPolicy, Backoff, Recheck, MarkRunFailed,
       PublishAborted, PublishRunFailed, Publish, PublishLast, redis
  <2>2. \/ pc'[t] \in Forward /\ job'[t] = job[t]
        \/ status'[r] \notin Active
    BY <1>j, <1>2 DEF Process, FetchStatus, Drop, FetchStep, SetRunning,
       PublishRunning, ReadContext, PublishStarted, Execute, InsertExec, Ack,
       AfterAck, PublishStepCompleted, SaveContext, CountSteps, CompleteRun,
       PublishRunCompleted, PublishStepFailed, FetchPolicy, Backoff, Recheck,
       MarkRunFailed, PublishAborted, PublishRunFailed, Publish, PublishLast,
       Runnable, Active, work, db
  <2> QED
    BY <2>1, <2>2 DEF RunOf
<1>3. CASE ReadGroup(t) \/ Recover(t) \/ Exit(t)
  BY <1>3 DEF ReadGroup, Recover, Scan, ScanDone, Claim, IdempotencyCheck, Exit
<1> QED
  BY <1>1, <1>2, <1>3 DEF ThreadStep

LEMMA BackedStep ==
  ASSUME IInv, BudgetOK, UpOK, BackedOK, [Next]_vars
  PROVE  BackedOK'
<1> SUFFICES ASSUME Smooth', NEW r \in Runs, status'[r] \in Active
             PROVE  creating'[r] # NoInstance \/ Unread(r)' \/ Worked(r)'
  BY DEF BackedOK
<1>s. Smooth /\ ~Spend("fault") /\ ~Spend("crash") /\ ~Spend("stop")
  BY SmoothStep
<1>u. \A i \in Instances : inst[i] = "up"
  BY <1>s DEF UpOK
<1>c. \A t \in Threads : ~Cancelled(t)
  BY <1>u, ThreadsAssumption DEF Cancelled
<1>1. CASE status[r] \notin Active
  <2>1. CASE \E t \in Threads : /\ SetRunning(t) /\ ~Cancelled(t) /\ RunOf(t) = r
    <3>1. PICK t \in Threads : SetRunning(t) /\ RunOf(t) = r
      BY <2>1
    <3>2. pc'[t] \in Forward /\ UNCHANGED <<job, stream>>
      BY <3>1 DEF SetRunning, Goto, Forward, Unacked, redis, work, IInv, TypeOK
    <3> QED
      BY <3>1, <3>2 DEF Worked, RunOf
  <2>2. CASE status[r] = Missing /\ status'[r] = "pending"
    <3>1. \E i \in Instances : CreateInsert(i, r)
      <4>1. ASSUME NEW t \in Threads, ThreadStep(t)
            PROVE  FALSE
        <5>1. PICK u \in Threads : SetRunning(u) \/ CompleteRun(u) \/ MarkRunFailed(u)
          BY <2>2, <4>1 DEF ThreadStep, ReadGroup, Recover, Scan, ScanDone, Claim,
             IdempotencyCheck, Exit, Process, FetchStatus, Drop, FetchStep,
             PublishRunning, ReadContext, PublishStarted, Execute, InsertExec, Ack,
             PublishStepCompleted, SaveContext, CountSteps, EnqueueNext,
             PublishRunCompleted, PublishStepFailed, FetchPolicy, Backoff, Recheck,
             EnqueueRetry, PublishAborted, PublishRunFailed, Publish, PublishLast,
             db, Missing
        <5> QED
          BY <2>2, <5>1 DEF SetRunning, CompleteRun, MarkRunFailed, IInv, TypeOK,
             Missing
      <4> QED
        BY <2>2, <4>1 DEF Next, Age, Handlers, CreateInsert, CreateEnqueue,
           CancelRead, CancelWrite, Lifetime, Stop, StopDone, Crash, Restart, vars,
           db, IInv, TypeOK, Missing
    <3> QED
      BY <3>1, InstanceAssumption DEF CreateInsert, IInv, TypeOK
  <2> QED
    BY <1>1, <2>1, <2>2, StatusStep DEF Terminal
<1>2. CASE status[r] \in Active /\ creating[r] # NoInstance
  <2>1. CASE creating'[r] = NoInstance
    <3>1. \E i \in Instances : CreateEnqueue(i, r)
      BY <1>2, <1>s, <2>1, InstanceAssumption, ThreadFrame DEF Next, Age, Handlers,
         CreateInsert, CreateEnqueue, CancelRead, CancelWrite, Lifetime, Stop,
         StopDone, Crash, Restart, vars, http, IInv, TypeOK
    <3>2. Enqueue(r, 0, 1) /\ delivered' = delivered
      BY <1>s, <3>1 DEF CreateEnqueue
    <3>3. 0 \in Steps /\ 1 \in Attempts
      BY DEF Steps, Attempts, AttemptLimit, EffectiveRetries
    <3>4. /\ Len(stream) \in Nat /\ Len(stream') = Len(stream) + 1
          /\ stream'[Len(stream) + 1] = [run |-> r, step |-> 0, attempt |-> 1]
      BY <3>2, <3>3, EnqueueLemma DEF IInv, TypeOK
    <3>5. Len(stream) + 1 \in Ids' /\ Len(stream) + 1 > delivered'
      BY <3>2, <3>4 DEF Ids, IInv, TypeOK
    <3>6. stream'[Len(stream) + 1].run = r
      BY <3>4
    <3> QED
      BY <3>5, <3>6 DEF Unread
  <2> QED
    BY <2>1
<1>3. CASE status[r] \in Active /\ Unread(r)
  <2>1. PICK id \in Ids : id > delivered /\ stream[id].run = r
    BY <1>3 DEF Unread
  <2>2. id \in Ids' /\ stream'[id].run = r
    BY <2>1, StreamKept
  <2>3. CASE id > delivered'
    BY <2>2, <2>3 DEF Unread
  <2>4. CASE ~(id > delivered')
    <3>1. PICK t \in Threads : ReadGroup(t)
      BY <2>1, <2>4 DEF Next, ThreadStep, Recover, Scan, ScanDone, Claim,
         IdempotencyCheck, Exit, Process, FetchStatus, Drop, FetchStep, SetRunning,
         PublishRunning, ReadContext, PublishStarted, Execute, InsertExec, Ack,
         PublishStepCompleted, SaveContext, CountSteps, EnqueueNext, CompleteRun,
         PublishRunCompleted, PublishStepFailed, FetchPolicy, Backoff, Recheck,
         EnqueueRetry, MarkRunFailed, PublishAborted, PublishRunFailed, Publish,
         PublishLast, redis, vars, Age, Handlers, CreateInsert, CreateEnqueue,
         CancelRead, CancelWrite, Lifetime, Stop, StopDone, Crash, Restart
    <3>2. /\ pc'[t] = "fetch_status" /\ job'[t] = delivered + 1
          /\ delivered' = delivered + 1
      BY <1>s, <3>1 DEF ReadGroup, Goto, IInv, TypeOK
    <3>3. job'[t] = id
      BY <2>1, <2>4, <3>2 DEF Ids, IInv, TypeOK
    <3>4. pc'[t] \in Forward /\ RunOf(t)' = r
      BY <2>2, <3>2, <3>3 DEF Forward, Unacked, RunOf
    <3> QED
      BY <3>4 DEF Worked
  <2> QED
    BY <2>3, <2>4
<1>4. CASE status[r] \in Active /\ Worked(r)
  <2>1. PICK t \in Threads : pc[t] \in Forward /\ RunOf(t) = r
    BY <1>4 DEF Worked
  <2>2. CASE ThreadStep(t)
    <3>1. (pc'[t] \in Forward /\ RunOf(t)' = r) \/ Unread(r)'
      BY <1>s, <1>c, <2>1, <2>2, ForwardStep
    <3> QED
      BY <3>1 DEF Worked
  <2>3. CASE ~ThreadStep(t)
    <3>1. pc'[t] = pc[t] /\ job'[t] = job[t]
      BY <1>s, <1>u, <2>3, ThreadFrame DEF Next, Age, Handlers, CreateInsert,
         CreateEnqueue, CancelRead, CancelWrite, Lifetime, Stop, StopDone, Crash,
         Restart, vars, local, work, IInv, TypeOK
    <3>2. job[t] \in Ids
      BY <2>1, JobLemma DEF Forward, IInv
    <3>3. RunOf(t)' = r
      BY <2>1, <3>1, <3>2, StreamKept DEF RunOf
    <3> QED
      BY <2>1, <3>1, <3>3 DEF Worked
  <2> QED
    BY <2>2, <2>3
<1>5. status[r] \in Active => creating[r] # NoInstance \/ Unread(r) \/ Worked(r)
  BY <1>s DEF BackedOK
<1> QED
  BY <1>1, <1>2, <1>3, <1>4, <1>5

(* No run is left behind: unless a call fails or a process dies or stops,  *)
(* an active run is in a handler, in a message still to be read or         *)
(* recovered, or in the hands of a goroutine - whoever overtakes whom, and *)
(* whatever a cancel is overwritten by.                                    *)
THEOREM NoneIsLeftBehind == Spec => []NoneStranded
<1> DEFINE Inv == BudgetOK /\ PastOK /\ UpOK /\ BackedOK
<1>1. Init => Inv
  BY DEF Init, BudgetOK, PastOK, UpOK, BackedOK, Active, Missing
<1>2. IInv /\ Inv /\ [Next]_vars => Inv'
  BY BudgetStep, PastStep, UpStep, BackedStep
<1>3. IInv /\ Inv => NoneStranded
  <2> SUFFICES ASSUME IInv, PastOK, BackedOK, Smooth, NEW r \in Runs,
                      status[r] \in Active
               PROVE  \/ Carriers(r) # {}
                      \/ \E t \in Threads : job[t] # 0 /\ RunOf(t) = r
    BY DEF NoneStranded, Smooth
  <2>1. CASE creating[r] # NoInstance
    BY <2>1 DEF Carriers, IInv, TypeOK
  <2>2. CASE Unread(r)
    <3>1. PICK id \in Ids : id > delivered /\ stream[id].run = r
      BY <2>2 DEF Unread
    <3>2. ~Recorded(id)
      <4> SUFFICES ASSUME NEW e \in execs, e.attempt = id PROVE FALSE
        BY DEF Recorded
      <4>1. e.attempt <= delivered
        BY DEF PastOK
      <4> QED
        BY <3>1, <4>1 DEF Ids, IInv, TypeOK
    <3> QED
      BY <3>1, <3>2 DEF Carriers
  <2>3. CASE Worked(r)
    BY <2>3 DEF Worked, Forward, IInv, JobsOK, JobAt
  <2> QED
    BY <2>1, <2>2, <2>3 DEF BackedOK
<1> HIDE DEF Inv
<1> QED
  BY <1>1, <1>2, <1>3, InductiveInv, PTL DEF Spec

-----------------------------------------------------------------------------
(* The life cycle.                                                         *)

(* While nobody cancels, no call fails and no overrun occurs, the row of a *)
(* run follows its last message: a message still to be executed is for the *)
(* step the row is at or for the next one, and a goroutine that set the    *)
(* run to running or hands it on finds the row as it left it.              *)
Ideal == Before({"fault", "overrun", "cancel"})
Begun == {"pub_running", "read_context", "pub_started", "execute", "insert_exec"}
RowIs(r, s)  == status[r] = "running" /\ currentStep[r] = s
Awaits(r, s) == \/ status[r] = "pending" /\ s = 0
                \/ status[r] = "running" /\ s \in {currentStep[r], currentStep[r] + 1}
Leaves(t) == IF pc[t] = "pub_run_completed" THEN status[RunOf(t)] = "completed"
             ELSE IF pc[t] = "pub_run_failed" THEN status[RunOf(t)] = "failed"
             ELSE RowIs(RunOf(t), StepOf(t))
PathOK == Ideal =>
  /\ \A r \in Runs : cancelling[r] = NoInstance
  /\ \A r \in Runs : creating[r] # NoInstance => status[r] = "pending"
  /\ \A id \in Ids : Open(id) => Awaits(stream[id].run, stream[id].step)
  /\ \A t \in Threads : ~Cancelled(t) /\ pc[t] \in Begun => RowIs(RunOf(t), StepOf(t))
  /\ \A t \in Threads : Handing(t) => Leaves(t)

LEMMA IdealStep ==
  ASSUME BaseInv, [Next]_vars, Ideal'
  PROVE  /\ Ideal /\ Calm /\ Calm' /\ ~Spend("fault") /\ ~Spend("cancel")
         /\ \A t \in Threads : HeldAt(t)
         /\ \A t \in Threads : ~Cancelled(t) => AckedAt(t)
<1>1. Ideal /\ Calm /\ Calm' /\ ~Spend("fault") /\ ~Spend("cancel")
  BY BeforeStep DEF Ideal, Calm, Hazards, Before, BaseInv
<1> QED
  BY <1>1, CalmStep

(* Who writes the status or the step of a run, while nobody cancels.       *)
Enters(r)       == /\ status[r] = Missing
                   /\ status' = [status EXCEPT ![r] = "pending"]
                   /\ UNCHANGED <<currentStep, feed>>
Starts(t)       == /\ SetRunning(t) /\ ~Cancelled(t)
                   /\ status' = [status EXCEPT ![RunOf(t)] = "running"]
                   /\ currentStep' = [currentStep EXCEPT ![RunOf(t)] = StepOf(t)]
                   /\ UNCHANGED feed
Concludes(t, v) == /\ Handing(t)
                   /\ \/ v = "completed" /\ CompleteRun(t) /\ pc[t] = "complete_run"
                      \/ v = "failed" /\ MarkRunFailed(t) /\ pc[t] = "fail_run"
                   /\ status' = [status EXCEPT ![RunOf(t)] = v]
                   /\ UNCHANGED <<currentStep, feed>>

LEMMA WriteStep ==
  ASSUME BaseInv, PathOK, [Next]_vars, Ideal'
  PROVE  \/ UNCHANGED <<status, currentStep>>
         \/ \E r \in Runs : Enters(r)
         \/ \E t \in Threads : Starts(t)
         \/ \E t \in Threads, v \in Verdicts : Concludes(t, v)
<1>i. /\ Ideal /\ ~Spend("fault")
      /\ \A t \in Threads : ~Cancelled(t) => AckedAt(t)
  BY IdealStep
<1>1. ASSUME NEW t \in Threads, ThreadStep(t)
      PROVE  \/ UNCHANGED <<status, currentStep>>
             \/ SetRunning(t) \/ CompleteRun(t) \/ MarkRunFailed(t)
  BY <1>1 DEF ThreadStep, ReadGroup, Exit, Recover, Scan, ScanDone, Claim,
     IdempotencyCheck, Process, FetchStatus, Drop, FetchStep,
     PublishRunning, ReadContext, PublishStarted, Execute, InsertExec, Ack,
     PublishStepCompleted, SaveContext, CountSteps, EnqueueNext,
     PublishRunCompleted, PublishStepFailed, FetchPolicy, Backoff, Recheck,
     EnqueueRetry, PublishAborted, PublishRunFailed, Publish, PublishLast, db
<1>2. ASSUME NEW t \in Threads, SetRunning(t)
      PROVE  UNCHANGED <<status, currentStep>> \/ Starts(t)
  BY <1>2 DEF SetRunning, Starts, Works, Faulty, ghost
<1>3. ASSUME NEW t \in Threads, CompleteRun(t)
      PROVE  UNCHANGED <<status, currentStep>> \/ Concludes(t, "completed")
  BY <1>3 DEF CompleteRun, Concludes, Handing, Works, Faulty, ghost, At, Acked
<1>4. ASSUME NEW t \in Threads, MarkRunFailed(t)
      PROVE  UNCHANGED <<status, currentStep>> \/ Concludes(t, "failed")
  BY <1>i, <1>4 DEF MarkRunFailed, Concludes, Handing, Works, Faulty, ghost, At, Acked,
     AckedAt
<1>5. ASSUME NEW i \in Instances, NEW r \in Runs, CreateInsert(i, r)
      PROVE  Enters(r)
  BY <1>5 DEF CreateInsert, Enters, ghost
<1>6. ASSUME NEW i \in Instances, NEW r \in Runs, CancelWrite(i, r)
      PROVE  FALSE
  BY <1>i, <1>6, InstanceAssumption DEF CancelWrite, PathOK
<1>7. ASSUME NEW i \in Instances, NEW r \in Runs,
             CreateEnqueue(i, r) \/ CancelRead(i, r)
      PROVE  UNCHANGED <<status, currentStep>>
  BY <1>7 DEF CreateEnqueue, CancelRead, db
<1>8. ASSUME \/ \E i \in Instances : Lifetime(i)
             \/ \E id \in pel : Age(id)
             \/ UNCHANGED vars
      PROVE  UNCHANGED <<status, currentStep>>
  BY <1>8 DEF Lifetime, Stop, StopDone, Crash, Restart, Age, vars, db
<1> QED
  BY <1>1, <1>2, <1>3, <1>4, <1>5, <1>6, <1>7, <1>8 DEF Next, Handlers, Verdicts

(* The same for the row of one run that has a message.                     *)
LEMMA RowWrite ==
  ASSUME BaseInv, PathOK, [Next]_vars, Ideal', NEW id \in Ids, NEW r \in Runs,
         r = stream[id].run
  PROVE  \/ status'[r] = status[r] /\ currentStep'[r] = currentStep[r]
         \/ \E t \in Threads : /\ Starts(t) /\ RunOf(t) = r
                               /\ status'[r] = "running" /\ currentStep'[r] = StepOf(t)
         \/ \E t \in Threads, v \in Verdicts :
               Concludes(t, v) /\ RunOf(t) = r /\ status'[r] = v
<1>1. status[r] # Missing
  BY DEF BaseInv, UnbornOK
<1>2. /\ DOMAIN status = Runs /\ DOMAIN currentStep = Runs
      /\ status \in [Runs -> Statuses \cup {Missing}] /\ currentStep \in [Runs -> Steps]
  BY DEF BaseInv, IInv, TypeOK
<1> QED
  BY <1>1, <1>2, WriteStep DEF Enters, Starts, Concludes

(* A message to be executed, whose goroutine holds it, is overtaken by     *)
(* nobody: only the goroutine that starts it writes its run's row.         *)
LEMMA OpenIsAlone ==
  ASSUME BaseInv, LastOK, PathOK, [Next]_vars, Ideal', NEW id \in Ids, Open(id),
         NEW r \in Runs, r = stream[id].run
  PROVE  \/ status'[r] = status[r] /\ currentStep'[r] = currentStep[r]
         \/ \E t \in Threads : /\ Starts(t) /\ job[t] = id /\ HeldAt(t)
                               /\ status'[r] = "running"
                               /\ currentStep'[r] = stream[id].step
<1>i. /\ Calm /\ Calm'
      /\ \A t \in Threads : ~Cancelled(t) => AckedAt(t)
  BY IdealStep
<1>1. IsLast(id)
  BY <1>i DEF LastOK
<1>2. ASSUME NEW t \in Threads, Starts(t), RunOf(t) = r
      PROVE  job[t] = id /\ HeldAt(t)
  BY <1>i, <1>1, <1>2, RunningIsOpen, LastIsOne DEF Starts, RunOf
<1>3. ASSUME NEW t \in Threads, Handing(t)
      PROVE  RunOf(t) # r
  <2>1. job[t] \in Ids /\ IsLast(job[t]) /\ Recorded(job[t])
    BY <1>i, <1>3, JobLemma DEF Handing, LastOK, AckedAt, BaseInv, IInv, Unacked
  <2> QED
    BY <1>1, <2>1, LastIsOne DEF RunOf, Open
<1> QED
  BY <1>2, <1>3, RowWrite DEF Concludes, StepOf

LEMMA AwaitedStep ==
  ASSUME BaseInv, LastOK, PathOK, [Next]_vars, Ideal', NEW id \in Ids', Open(id)'
  PROVE  Awaits(stream[id].run, stream[id].step)'
<1>i. Ideal /\ Calm /\ Calm'
  BY IdealStep
<1>t. IInv /\ IInv'
  BY TypingStep DEF BaseInv
<1>1. CASE id \in Ids
  <2>1. Open(id) /\ stream'[id] = stream[id] /\ stream[id] \in Message
    BY <1>1, OpenStep, StreamKept DEF BaseInv
  <2>2. PICK r \in Runs : r = stream[id].run
    BY <2>1 DEF Message
  <2>3. Awaits(r, stream[id].step)
    BY <1>i, <2>1, <2>2, <1>1 DEF PathOK
  <2>4. \/ status'[r] = status[r] /\ currentStep'[r] = currentStep[r]
        \/ status'[r] = "running" /\ currentStep'[r] = stream[id].step
    BY <1>1, <2>1, <2>2, OpenIsAlone
  <2> QED
    BY <2>1, <2>2, <2>3, <2>4 DEF Awaits
<1>2. CASE id \notin Ids
  <2>1. /\ UNCHANGED <<status, currentStep>>
        /\ FirstOf(stream'[id]) \/ FollowOf(stream'[id])
    BY <1>i, <1>2, NewIsAlone DEF db
  <2>2. CASE FirstOf(stream'[id])
    BY <1>i, <2>1, <2>2 DEF FirstOf, PathOK, Awaits
  <2>3. CASE FollowOf(stream'[id])
    <3>1. PICK t \in Threads :
            /\ ~Cancelled(t) /\ pc[t] \in {"enqueue_next", "enqueue_retry"}
            /\ stream'[id].run = RunOf(t)
            /\ stream'[id].step
                 = IF pc[t] = "enqueue_next" THEN StepOf(t) + 1 ELSE StepOf(t)
      BY <2>3 DEF FollowOf
    <3>2. RowIs(RunOf(t), StepOf(t))
      BY <1>i, <3>1 DEF PathOK, Handing, Leaves, Acked
    <3> QED
      BY <2>1, <3>1, <3>2 DEF Awaits, RowIs
  <2> QED
    BY <2>1, <2>2, <2>3
<1> QED
  BY <1>1, <1>2

LEMMA BegunStep ==
  ASSUME BaseInv, LastOK, PathOK, [Next]_vars, Ideal', NEW t \in Threads,
         ~Cancelled(t)', pc'[t] \in Begun
  PROVE  RowIs(RunOf(t), StepOf(t))'
<1>i. /\ Ideal /\ Calm /\ Calm' /\ ~Spend("fault")
      /\ \A u \in Threads : HeldAt(u)
  BY IdealStep
<1>1. /\ ~Cancelled(t)
      /\ ThreadStep(t) \/ UNCHANGED <<pc[t], job[t]>>
  BY LiveStep DEF Begun, Unacked, BaseInv
<1>2. /\ pc[t] \in Begun \cup {"set_running"} /\ job'[t] = job[t]
      /\ pc[t] = "set_running" => SetRunning(t)
      /\ pc'[t] = pc[t] \/ stream' = stream
  <2> USE <1>i DEF BaseInv, IInv, TypeOK, At, Goto, Finish, Begun, redis, work
  <2>1. CASE ReadGroup(t) \/ Recover(t) \/ Exit(t)
    BY <2>1 DEF ReadGroup, Exit, Recover, Scan, ScanDone, Claim, IdempotencyCheck,
       AfterCheck
  <2>2. CASE Process(t)
    BY <2>2 DEF Process, FetchStatus, Drop, FetchStep, SetRunning,
       PublishRunning, ReadContext, PublishStarted, Execute, InsertExec, Ack,
       AfterAck, PublishStepCompleted, SaveContext, CountSteps, EnqueueNext,
       CompleteRun, PublishRunCompleted, PublishStepFailed, FetchPolicy,
       Backoff, Recheck, EnqueueRetry, MarkRunFailed, PublishAborted,
       PublishRunFailed, Publish, PublishLast
  <2> QED
    BY <1>1, <2>1, <2>2 DEF ThreadStep
<1>3. job[t] \in Ids /\ RunOf(t) \in Runs
  BY <1>2, JobLemma DEF Begun, Unacked, BaseInv, IInv
<1>4. Open(job[t])
  BY <1>2, <1>3, <1>i DEF HeldAt, Open, Begun, Unacked, Fresh, BaseInv, IInv, TypeOK
<1>5. stream'[job[t]] = stream[job[t]]
  BY <1>3, StreamKept DEF BaseInv
<1>6. CASE pc[t] = "set_running"
  <2>1. Starts(t)
    BY <1>1, <1>2, <1>6, <1>i DEF SetRunning, Starts, Works, Faulty, ghost
  <2> QED
    BY <1>2, <1>3, <1>5, <2>1 DEF Starts, RowIs, RunOf, StepOf, BaseInv, IInv, TypeOK
<1>7. CASE pc[t] \in Begun
  <2>1. RowIs(RunOf(t), StepOf(t))
    BY <1>1, <1>7, <1>i DEF PathOK
  <2>2. ASSUME NEW u \in Threads, Starts(u), job[u] = job[t]
        PROVE  FALSE
    <3>1. pc[u] = "set_running"
      BY <2>2 DEF Starts, SetRunning, At
    <3>2. u = t
      BY <1>7, <1>i, <2>2, <3>1 DEF HeldAt, Begun, Unacked
    <3> QED
      BY <1>7, <3>1, <3>2 DEF Begun
  <2>3. PICK r \in Runs : r = RunOf(t)
    BY <1>3
  <2>4. status'[r] = status[r] /\ currentStep'[r] = currentStep[r]
    BY <1>3, <1>4, <2>2, <2>3, OpenIsAlone DEF RunOf
  <2> QED
    BY <1>2, <1>5, <2>1, <2>3, <2>4 DEF RowIs, RunOf, StepOf
<1> QED
  BY <1>2, <1>6, <1>7

LEMMA LeavesStep ==
  ASSUME BaseInv, LastOK, PathOK, [Next]_vars, Ideal', NEW t \in Threads,
         Handing(t)'
  PROVE  Leaves(t)'
<1>i. /\ Ideal /\ Calm /\ Calm' /\ ~Spend("fault")
      /\ \A u \in Threads : HeldAt(u)
      /\ \A u \in Threads : ~Cancelled(u) => AckedAt(u)
  BY IdealStep
<1>1. /\ job'[t] = job[t] /\ job[t] \in Ids /\ ~Cancelled(t)
      /\ \/ Handing(t) /\ Recorded(job[t])
         \/ InsertExec(t) /\ pc[t] = "insert_exec"
  BY <1>i, HandingStep
<1>2. stream'[job[t]] = stream[job[t]] /\ RunOf(t) \in Runs
  BY <1>1, StreamKept DEF BaseInv, RunOf, Message
<1>3. RunOf(t)' = RunOf(t) /\ StepOf(t)' = StepOf(t)
  BY <1>1, <1>2 DEF RunOf, StepOf
<1>4. PICK r \in Runs : r = RunOf(t)
  BY <1>2
<1>5. CASE InsertExec(t) /\ pc[t] = "insert_exec"
  <2>1. RowIs(r, StepOf(t))
    BY <1>i, <1>1, <1>4, <1>5 DEF PathOK, Begun
  <2>2. pc'[t] = "ack" /\ UNCHANGED <<status, currentStep>>
    BY <1>5 DEF InsertExec, Goto, BaseInv, IInv, TypeOK
  <2> QED
    BY <1>3, <1>4, <2>1, <2>2 DEF Leaves, RowIs
<1>6. CASE Handing(t) /\ Recorded(job[t])
  <2>1. Leaves(t)
    BY <1>i, <1>6 DEF PathOK
  <2>2. ASSUME NEW u \in Threads, Starts(u)
        PROVE  RunOf(u) # r
    BY <1>i, <1>4, <1>6, <2>2, HandingIsAlone DEF Starts
  <2>3. ASSUME NEW u \in Threads, NEW v \in Verdicts, Concludes(u, v), u # t
        PROVE  RunOf(u) # r
    BY <1>i, <1>4, <1>6, <2>3, HandingIsAlone DEF Concludes
  <2>4. CASE \E v \in Verdicts : Concludes(t, v)
    <3>1. PICK v \in Verdicts : Concludes(t, v)
      BY <2>4
    <3>2. status'[r] = v
      BY <1>4, <3>1 DEF Concludes, BaseInv, IInv, TypeOK
    <3>3. pc'[t] = IF v = "completed" THEN "pub_run_completed" ELSE "pub_run_failed"
      BY <3>1 DEF Concludes, CompleteRun, MarkRunFailed, At, Goto, BaseInv, IInv, TypeOK
    <3> QED
      BY <1>3, <1>4, <3>2, <3>3 DEF Leaves, Verdicts
  <2>5. CASE ~ \E v \in Verdicts : Concludes(t, v)
    <3>1. status'[r] = status[r] /\ currentStep'[r] = currentStep[r]
      BY <1>1, <1>4, <2>2, <2>3, <2>5, RowWrite DEF RunOf
    <3>2. pc'[t] \in {"pub_run_completed", "pub_run_failed"} => pc'[t] = pc[t]
      <4> SUFFICES ASSUME pc'[t] \in {"pub_run_completed", "pub_run_failed"},
                          pc'[t] # pc[t]
                   PROVE  FALSE
        OBVIOUS
      <4>1. ThreadStep(t)
        BY <1>1, LiveStep DEF Handing, BaseInv
      <4>2. CompleteRun(t) \/ MarkRunFailed(t)
        <5> USE DEF BaseInv, IInv, TypeOK, At, Goto, Finish
        <5>1. CASE ReadGroup(t) \/ Recover(t) \/ Exit(t)
          BY <1>i, <5>1 DEF ReadGroup, Exit, Recover, Scan, ScanDone, Claim,
             IdempotencyCheck, AfterCheck
        <5>2. CASE Process(t)
          BY <5>2 DEF Process, FetchStatus, Drop, FetchStep, SetRunning,
             PublishRunning, ReadContext, PublishStarted, Execute, InsertExec, Ack,
             AfterAck, PublishStepCompleted, SaveContext, CountSteps, EnqueueNext,
             PublishRunCompleted, PublishStepFailed, FetchPolicy,
             Backoff, Recheck, EnqueueRetry, PublishAborted,
             PublishRunFailed, Publish, PublishLast
        <5> QED
          BY <4>1, <5>1, <5>2 DEF ThreadStep
      <4>3. \E v \in Verdicts : Concludes(t, v)
        BY <1>i, <1>6, <4>2 DEF Concludes, CompleteRun, MarkRunFailed, Works, Faulty,
           Handing, AckedAt, At, ghost, Verdicts
      <4> QED
        BY <2>5, <4>3
    <3>3. pc[t] \in {"pub_run_completed", "pub_run_failed"} => pc'[t] = pc[t]
      <4> SUFFICES ASSUME pc[t] \in {"pub_run_completed", "pub_run_failed"},
                          pc'[t] # pc[t]
                   PROVE  FALSE
        OBVIOUS
      <4>1. ThreadStep(t)
        BY <1>1, LiveStep DEF Handing, BaseInv, Unacked
      <4> USE DEF BaseInv, IInv, TypeOK, At, Goto, Finish
      <4>2. CASE ReadGroup(t) \/ Recover(t) \/ Exit(t)
        BY <1>i, <4>2 DEF ReadGroup, Exit, Recover, Scan, ScanDone, Claim,
           IdempotencyCheck, AfterCheck
      <4>3. CASE Process(t)
        BY <1>1, <4>3 DEF Process, FetchStatus, Drop, FetchStep, SetRunning,
           PublishRunning, ReadContext, PublishStarted, Execute, InsertExec, Ack,
           AfterAck, PublishStepCompleted, SaveContext, CountSteps, EnqueueNext,
           CompleteRun, MarkRunFailed, PublishRunCompleted, PublishStepFailed,
           FetchPolicy, Backoff, Recheck, EnqueueRetry, PublishAborted,
           PublishRunFailed, Publish, PublishLast, Handing, Acked
      <4> QED
        BY <4>1, <4>2, <4>3 DEF ThreadStep
    <3> QED
      BY <1>3, <1>4, <2>1, <3>1, <3>2, <3>3 DEF Leaves, RowIs
  <2> QED
    BY <2>4, <2>5
<1> QED
  BY <1>1, <1>5, <1>6

LEMMA PathStep ==
  ASSUME BaseInv, LastOK, PathOK, [Next]_vars
  PROVE  PathOK'
<1> SUFFICES ASSUME Ideal'
             PROVE  /\ \A r \in Runs : cancelling'[r] = NoInstance
                    /\ \A r \in Runs : creating'[r] # NoInstance => status'[r] = "pending"
  BY AwaitedStep, BegunStep, LeavesStep DEF PathOK
<1>i. Ideal /\ ~Spend("cancel")
  BY IdealStep
<1>1. ASSUME NEW r \in Runs PROVE cancelling'[r] = NoInstance
  BY <1>i, ThreadFrame DEF PathOK, Next, Age, Handlers, CreateInsert, CreateEnqueue,
     CancelRead, CancelWrite, Lifetime, Stop, StopDone, Crash, Restart, vars, http,
     BaseInv, IInv, TypeOK
<1>2. ASSUME NEW r \in Runs, creating'[r] # NoInstance PROVE status'[r] = "pending"
  <2>1. CASE creating'[r] # creating[r]
    BY <1>2, <2>1, RowStep DEF BaseInv
  <2>2. CASE creating'[r] = creating[r]
    <3>1. status[r] = "pending"
      BY <1>i, <1>2, <2>2 DEF PathOK
    <3>2. ASSUME NEW t \in Threads, pc[t] \in Unacked \cup Acked PROVE RunOf(t) # r
      BY <1>2, <2>2, <3>2, JobLemma DEF RunOf, BaseInv, UnbornOK, IInv
    <3> QED
      BY <3>1, <3>2, WriteStep DEF Enters, Starts, Concludes, SetRunning, At, Handing,
         Unacked, Missing, BaseInv, IInv, TypeOK
  <2> QED
    BY <2>1, <2>2
<1> QED
  BY <1>1, <1>2

(* The verdict a subscriber has read changes with the feed only, and only  *)
(* an announced end changes it.                                            *)
LEMMA VerdictKept ==
  ASSUME NEW r \in Runs, feed \subseteq feed',
         \A e \in feed' \ feed : e.run = r => e.type \notin Ends
  PROVE  PublishedVerdict(r)' = PublishedVerdict(r)
BY DEF PublishedVerdict, Ends

(* A published end is the first one and the one the row holds.             *)
LEMMA PublishMaps ==
  ASSUME BaseInv, LastOK, EndedOK, PathOK, [Next]_vars, Ideal', feed' # feed
  PROVE  [Lifecycle!Next]_(Lifecycle!vars)
<1>i. /\ Ideal /\ Calm
      /\ \A t \in Threads : ~Cancelled(t) => AckedAt(t)
  BY IdealStep
<1>1. PICK e \in feed' \ feed : TRUE
  BY FeedKept
<1>2. PICK t \in Threads :
        /\ ~Cancelled(t) /\ job[t] \in Ids /\ e.run = RunOf(t)
        /\ UNCHANGED <<db, redis, http, inst>>
        /\ feed' = feed \cup {e}
        /\ \/ e.type \notin Ends
           \/ e.type = "run.completed" /\ PublishRunCompleted(t)
           \/ e.type = "run.failed" /\ (PublishRunFailed(t) \/ PublishAborted(t))
  BY <1>1, FeedStep DEF BaseInv, Ends
<1>3. PICK r \in Runs : r = RunOf(t)
  BY <1>2, StreamKept DEF BaseInv, RunOf, Message
<1>4. UNCHANGED <<status, currentStep>>
  BY <1>2 DEF db
<1>5. \A q \in Runs \ {r} : PublishedVerdict(q)' = PublishedVerdict(q)
  BY <1>2, <1>3, VerdictKept
<1>6. CASE e.type \notin Ends
  <2>1. \A q \in Runs : PublishedVerdict(q)' = PublishedVerdict(q)
    BY <1>2, <1>6, VerdictKept
  <2> QED
    BY <1>4, <2>1 DEF Lifecycle!vars
<1>7. CASE e.type \in Ends
  <2>1. \/ e.type = "run.completed" /\ pc[t] = "pub_run_completed"
        \/ e.type = "run.failed" /\ pc[t] = "pub_run_failed"
    BY <1>i, <1>2, <1>7 DEF PublishRunCompleted, PublishRunFailed, PublishAborted,
       Publish, PublishLast, At, AckedAt
  <2>2. Handing(t)
    BY <1>2, <2>1 DEF Handing, Acked
  <2>3. /\ e.type = "run.completed" => status[r] = "completed"
        /\ e.type = "run.failed" => status[r] = "failed"
    BY <1>i, <1>3, <2>1, <2>2 DEF PathOK, Leaves
  <2>4. \A d \in feed : d.type \in Ends => d.run # r
    BY <1>i, <1>3, <2>2 DEF EndedOK, Over
  <2>5. PublishedVerdict(r) = "none"
    BY <2>4 DEF PublishedVerdict, Ends
  <2>6. PublishedVerdict(r)' = status[r]
    <3>1. \A d \in feed' : d.run = r /\ d.type \in Ends => d = e
      BY <1>2, <2>4
    <3>2. e \in feed' /\ e.run = r
      BY <1>2, <1>3
    <3> QED
      BY <1>7, <2>3, <3>1, <3>2 DEF PublishedVerdict, Ends
  <2>7. status[r] \in {"completed", "failed"}
    BY <1>7, <2>3 DEF Ends
  <2>8. [q \in Runs |-> PublishedVerdict(q)]'
          = [[q \in Runs |-> PublishedVerdict(q)] EXCEPT ![r] = status[r]]
    BY <1>5, <2>6
  <2>9. Lifecycle!Publish(r)
    BY <1>4, <2>5, <2>7, <2>8 DEF Lifecycle!Publish
  <2> QED
    BY <2>9 DEF Lifecycle!Next
<1> QED
  BY <1>6, <1>7

(* Every other step creates a run, begins or repeats a step, ends the run, *)
(* or changes nothing a client sees.                                       *)
LEMMA WriteMaps ==
  ASSUME BaseInv, LastOK, GroundsOK, PathOK, [Next]_vars, Ideal', feed' = feed
  PROVE  [Lifecycle!Next]_(Lifecycle!vars)
<1>i. Ideal /\ Calm /\ Calm' /\ Before({"fault"})
  BY IdealStep DEF Ideal, Before
<1>v. [r \in Runs |-> PublishedVerdict(r)]' = [r \in Runs |-> PublishedVerdict(r)]
  BY DEF PublishedVerdict
<1>1. CASE UNCHANGED <<status, currentStep>>
  BY <1>1, <1>v DEF Lifecycle!vars
<1>2. ASSUME NEW r \in Runs, Enters(r)
      PROVE  Lifecycle!Next
  BY <1>2, <1>v DEF Enters, Missing, Lifecycle!Next, Lifecycle!Create
<1>3. ASSUME NEW t \in Threads, Starts(t)
      PROVE  Lifecycle!Next
  <2>1. job[t] \in Ids /\ Open(job[t])
    BY <1>i, <1>3, RunningIsOpen DEF Starts
  <2>2. RunOf(t) \in Runs /\ StepOf(t) \in 0 .. NumSteps - 1
    BY <2>1, StreamKept DEF BaseInv, RunOf, StepOf, Message, Steps
  <2>3. Awaits(RunOf(t), StepOf(t))
    BY <1>i, <2>1 DEF PathOK, RunOf, StepOf
  <2>4. Lifecycle!Begin(RunOf(t), StepOf(t))
    BY <1>3, <1>v, <2>2, <2>3 DEF Starts, Awaits, Lifecycle!Begin
  <2> QED
    BY <2>2, <2>4 DEF Lifecycle!Next
<1>4. ASSUME NEW t \in Threads, NEW v \in Verdicts, Concludes(t, v)
      PROVE  Lifecycle!Next
  <2>1. RunOf(t) \in Runs
    BY <1>4, JobLemma DEF Concludes, BaseInv, IInv, Acked
  <2>2. RowIs(RunOf(t), StepOf(t))
    BY <1>i, <1>4 DEF Concludes, PathOK, Leaves
  <2>3. v = "completed" => StepOf(t) = NumSteps - 1
    BY <1>i, <1>4 DEF Concludes, Handing, GroundsOK, GroundsAt
  <2>4. Lifecycle!End(RunOf(t), v)
    BY <1>4, <1>v, <2>2, <2>3 DEF Concludes, RowIs, Lifecycle!End
  <2> QED
    BY <2>1, <2>4 DEF Lifecycle!Next, Verdicts
<1> QED
  BY <1>1, <1>2, <1>3, <1>4, WriteStep

(* The run a client sees follows RunLifecycle: as long as nobody cancels,  *)
(* no call fails and no overrun occurs, a run starts at step 0, works      *)
(* through its steps without going back, ends once, and the verdict its    *)
(* subscribers get is the one the row holds - through every crash, stop,   *)
(* redelivery and recovery.                                                *)
THEOREM ImplementsLifecycle ==
  Spec /\ []Before({"fault", "overrun", "cancel"}) => LifecycleSpec
<1>1. Init => Lifecycle!Init
  BY DEF Init, Missing, Lifecycle!Init, PublishedVerdict
<1>2. Init => GroundsOK /\ PathOK
  <2> SUFFICES ASSUME Init PROVE GroundsOK /\ PathOK
    OBVIOUS
  <2>1. \A t \in Threads : pc[t] \in {"reading", "ticking"}
    BY DEF Init, Start
  <2>2. Ids = {}
    BY EmptySeq DEF Init, Ids
  <2> QED
    BY <2>1, <2>2 DEF Init, GroundsOK, GroundsAt, PathOK, Begun, Handing, Acked
<1>3. CarrierInv /\ GroundsOK /\ PathOK /\ [Next]_vars => GroundsOK' /\ PathOK'
  BY GroundsStep, PathStep DEF CarrierInv, BaseInv
<1>4. CarrierInv /\ GroundsOK /\ PathOK /\ Ideal' /\ [Next]_vars
        => [Lifecycle!Next]_(Lifecycle!vars)
  BY PublishMaps, WriteMaps DEF CarrierInv
<1>5. Before({"fault", "overrun", "cancel"}) <=> Ideal
  BY DEF Ideal
<1> QED
  BY <1>1, <1>2, <1>3, <1>4, <1>5, Carried, PTL
     DEF Spec, LifecycleSpec, Lifecycle!Spec

-----------------------------------------------------------------------------
(* What RunLifecycle promises holds of RunEngine, because RunEngine        *)
(* implements it.                                                          *)

(* The verdict that was published to a run's subscribers (the run_completed *)
(* or run_failed event) is the status its row holds.                        *)
VerdictsAgree ==
  \A r \in Runs : PublishedVerdict(r) # "none" => PublishedVerdict(r) = status[r]

(* A step never changes a terminal status, and moves current_step only of a *)
(* running run, by one.                                                     *)
OnlyForward(r) ==
  /\ status[r] \in Terminal => status'[r] = status[r]
  /\ currentStep'[r] # currentStep[r] =>
       status[r] = "running" /\ currentStep'[r] = currentStep[r] + 1

(* A run that has not begun is at step 0. *)
NotBegun   == \A r \in Runs : status[r] \in {Missing, "pending"} => currentStep[r] = 0
PromiseInv == VerdictsAgree /\ NotBegun

LEMMA VerdictAt ==
  ASSUME NEW q \in Runs
  PROVE  /\ [r \in Runs |-> PublishedVerdict(r)][q] = PublishedVerdict(q)
         /\ ([r \in Runs |-> PublishedVerdict(r)]')[q] = PublishedVerdict(q)'
OBVIOUS

LEMMA PromiseStep ==
  ASSUME TypeOK, PromiseInv, [Lifecycle!Next]_(Lifecycle!vars)
  PROVE  PromiseInv' /\ \A r \in Runs : OnlyForward(r)
<1> USE DEF TypeOK, PromiseInv, VerdictsAgree, NotBegun, OnlyForward, Terminal,
            Statuses, Active, Missing, Steps
<1>1. CASE UNCHANGED Lifecycle!vars
  <2>1. \A q \in Runs : PublishedVerdict(q)' = PublishedVerdict(q)
    BY <1>1, VerdictAt DEF Lifecycle!vars
  <2> QED
    BY <1>1, <2>1 DEF Lifecycle!vars
<1>2. ASSUME NEW r \in Runs, Lifecycle!Create(r)
      PROVE  PromiseInv' /\ \A q \in Runs : OnlyForward(q)
  <2>1. \A q \in Runs : PublishedVerdict(q)' = PublishedVerdict(q)
    BY <1>2, VerdictAt DEF Lifecycle!Create
  <2>2. PublishedVerdict(r) = "none"
    BY <1>2 DEF Lifecycle!Create, PublishedVerdict
  <2> QED
    BY <1>2, <2>1, <2>2 DEF Lifecycle!Create
<1>3. ASSUME NEW r \in Runs, NEW s \in 0 .. NumSteps - 1, Lifecycle!Begin(r, s)
      PROVE  PromiseInv' /\ \A q \in Runs : OnlyForward(q)
  <2>1. \A q \in Runs : PublishedVerdict(q)' = PublishedVerdict(q)
    BY <1>3, VerdictAt DEF Lifecycle!Begin
  <2>2. PublishedVerdict(r) = "none"
    BY <1>3 DEF Lifecycle!Begin, PublishedVerdict
  <2> QED
    BY <1>3, <2>1, <2>2 DEF Lifecycle!Begin
<1>4. ASSUME NEW r \in Runs, NEW v \in {"completed", "failed"}, Lifecycle!End(r, v)
      PROVE  PromiseInv' /\ \A q \in Runs : OnlyForward(q)
  <2>1. \A q \in Runs : PublishedVerdict(q)' = PublishedVerdict(q)
    BY <1>4, VerdictAt DEF Lifecycle!End
  <2>2. PublishedVerdict(r) = "none"
    BY <1>4 DEF Lifecycle!End, PublishedVerdict
  <2> QED
    BY <1>4, <2>1, <2>2 DEF Lifecycle!End
<1>5. ASSUME NEW r \in Runs, Lifecycle!Publish(r)
      PROVE  PromiseInv' /\ \A q \in Runs : OnlyForward(q)
  <2>1. /\ PublishedVerdict(r)' = status[r]
        /\ \A q \in Runs \ {r} : PublishedVerdict(q)' = PublishedVerdict(q)
    BY <1>5, VerdictAt DEF Lifecycle!Publish
  <2> QED
    BY <1>5, <2>1 DEF Lifecycle!Publish
<1> QED
  BY <1>1, <1>2, <1>3, <1>4, <1>5 DEF Lifecycle!Next

(* While nobody cancels, no call fails and no goroutine is overtaken by    *)
(* recovery, subscribers are told the status the row holds, a terminal     *)
(* status is final and a run works through its steps one after the other.  *)
THEOREM PromisesHold ==
  Spec /\ []Before({"fault", "overrun", "cancel"})
    => []VerdictsAgree /\ [][\A r \in Runs : OnlyForward(r)]_vars
<1>1. Lifecycle!Init => PromiseInv
  BY DEF Lifecycle!Init, PromiseInv, VerdictsAgree, NotBegun
<1>2. TypeOK /\ PromiseInv /\ [Lifecycle!Next]_(Lifecycle!vars) => PromiseInv'
  BY PromiseStep
<1>3. TypeOK /\ PromiseInv /\ [Lifecycle!Next]_(Lifecycle!vars)
        => [\A r \in Runs : OnlyForward(r)]_vars
  BY PromiseStep
<1>4. PromiseInv => VerdictsAgree
  BY DEF PromiseInv
<1> QED
  BY <1>1, <1>2, <1>3, <1>4, ImplementsLifecycle, TypeCorrect, PTL
     DEF LifecycleSpec, Lifecycle!Spec
=============================================================================
