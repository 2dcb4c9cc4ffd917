-------------------------- MODULE RunEngineProofs --------------------------
(***************************************************************************)
(* What RunEngine guarantees whatever happens - crashes, stops, failed     *)
(* calls, overlapping recovery, cancels - for every value of the constants.*)
(***************************************************************************)
EXTENDS RunEngineTyping

USE StepsAssumption, RetriesAssumption, ThreadsAssumption, BatchAssumption,
    BudgetAssumption

(* How a message can come into the stream. *)
First(m)    == m.step = 0 /\ m.attempt = 1
Next1(m, t) == /\ job[t] \in Ids /\ Had(job[t], "completed")
               /\ m = [run |-> RunOf(t), step |-> StepOf(t) + 1, attempt |-> 1]
Again(m, t) == /\ job[t] \in Ids /\ Had(job[t], "failed") /\ MayRetry(AttemptOf(t))
               /\ m = [run |-> RunOf(t), step |-> StepOf(t), attempt |-> AttemptOf(t) + 1]
Justified(m) == First(m) \/ \E t \in Threads : Next1(m, t) \/ Again(m, t)

(* A step leaves the stream alone or adds one message that the state it    *)
(* starts from accounts for, and it never takes back an effect.            *)
LEMMA StreamStep ==
  ASSUME IInv, [Next]_vars
  PROVE  /\ effects \subseteq effects'
         /\ \/ stream' = stream
            \/ /\ Len(stream) \in Nat /\ Len(stream') = Len(stream) + 1
               /\ \A id \in Ids : stream'[id] = stream[id]
               /\ Justified(stream'[Len(stream) + 1])
<1> USE DEF IInv, db, redis, work, local, http, ghost, At
<1>1. ASSUME NEW t \in Threads, EnqueueNext(t)
      PROVE  /\ effects' = effects
             /\ \/ stream' = stream
                \/ /\ Len(stream) \in Nat /\ Len(stream') = Len(stream) + 1
                   /\ \A id \in Ids : stream'[id] = stream[id]
                   /\ Next1(stream'[Len(stream) + 1], t)
  <2>1. /\ job[t] \in Ids /\ RunOf(t) \in Runs
        /\ StepOf(t) \in Steps /\ AttemptOf(t) \in Attempts
    BY <1>1, JobLemma DEF EnqueueNext, Acked
  <2>2. Had(job[t], "completed") /\ StepOf(t) + 1 < NumSteps
    BY <1>1 DEF EnqueueNext, JobsOK, JobAt, StepOf, Executed, Success
  <2>3. StepOf(t) + 1 \in Steps /\ 1 \in Attempts
    BY <2>1, <2>2 DEF Steps, Attempts, AttemptLimit, EffectiveRetries
  <2>4. CASE Enqueue(RunOf(t), StepOf(t) + 1, 1)
    BY <1>1, <2>1, <2>2, <2>3, <2>4, EnqueueLemma DEF EnqueueNext, TypeOK, Ids, Next1
  <2> QED
    BY <1>1, <2>4 DEF EnqueueNext
<1>2. ASSUME NEW t \in Threads, EnqueueRetry(t)
      PROVE  /\ effects' = effects
             /\ \/ stream' = stream
                \/ /\ Len(stream) \in Nat /\ Len(stream') = Len(stream) + 1
                   /\ \A id \in Ids : stream'[id] = stream[id]
                   /\ Again(stream'[Len(stream) + 1], t)
  <2>1. /\ job[t] \in Ids /\ RunOf(t) \in Runs
        /\ StepOf(t) \in Steps /\ AttemptOf(t) \in Attempts
    BY <1>2, JobLemma DEF EnqueueRetry, Acked
  <2>2. Had(job[t], "failed") /\ MayRetry(AttemptOf(t))
    BY <1>2 DEF EnqueueRetry, JobsOK, JobAt, AttemptOf, Executed, Failure
  <2>3. AttemptOf(t) + 1 \in Attempts
    BY <2>1, <2>2, RetryInLimit
  <2>4. CASE Enqueue(RunOf(t), StepOf(t), AttemptOf(t) + 1)
    BY <1>2, <2>1, <2>2, <2>3, <2>4, EnqueueLemma DEF EnqueueRetry, TypeOK, Ids, Again
  <2> QED
    BY <1>2, <2>4 DEF EnqueueRetry
<1>3. ASSUME NEW t \in Threads, Process(t), ~EnqueueNext(t), ~EnqueueRetry(t)
      PROVE  stream' = stream /\ effects \subseteq effects'
  BY <1>3 DEF Process, FetchStatus, Drop, FetchStep, SetRunning, PublishRunning,
     ReadContext, PublishStarted, Execute, InsertExec, Ack, PublishStepCompleted,
     SaveContext, CountSteps, CompleteRun, PublishRunCompleted, PublishStepFailed,
     FetchPolicy, Backoff, Recheck, MarkRunFailed, PublishAborted,
     PublishRunFailed, Publish, PublishLast
<1>4. ASSUME NEW t \in Threads, ReadGroup(t) \/ Recover(t) \/ Exit(t)
      PROVE  stream' = stream /\ effects' = effects
  BY <1>4 DEF ReadGroup, Recover, Scan, ScanDone, IdempotencyCheck, Claim, Exit
<1>5. ASSUME NEW i \in Instances, NEW r \in Runs, CreateEnqueue(i, r)
      PROVE  /\ effects' = effects
             /\ \/ stream' = stream
                \/ /\ Len(stream) \in Nat /\ Len(stream') = Len(stream) + 1
                   /\ \A id \in Ids : stream'[id] = stream[id]
                   /\ First(stream'[Len(stream) + 1])
  <2>1. 0 \in Steps /\ 1 \in Attempts
    BY DEF Steps, Attempts, AttemptLimit, EffectiveRetries
  <2>2. CASE Enqueue(r, 0, 1)
    <3>1. /\ Len(stream) \in Nat /\ Len(stream') = Len(stream) + 1
          /\ \A id \in 1 .. Len(stream) : stream'[id] = stream[id]
          /\ stream'[Len(stream) + 1] = [run |-> r, step |-> 0, attempt |-> 1]
      BY <2>1, <2>2, EnqueueLemma DEF TypeOK
    <3>2. First(stream'[Len(stream) + 1])
      BY <3>1 DEF First
    <3> QED
      BY <1>5, <3>1, <3>2 DEF CreateEnqueue, Ids
  <2> QED
    BY <1>5, <2>2 DEF CreateEnqueue
<1>6. ASSUME NEW i \in Instances, Handlers(i) \/ Lifetime(i),
             \A r \in Runs : ~CreateEnqueue(i, r)
      PROVE  stream' = stream /\ effects' = effects
  BY <1>6 DEF Handlers, CreateInsert, CancelRead, CancelWrite, Lifetime, Stop,
     StopDone, Crash, Restart
<1>7. ASSUME NEW id \in pel, Age(id)
      PROVE  stream' = stream /\ effects' = effects
  BY <1>7 DEF Age
<1>8. CASE UNCHANGED vars
  BY <1>8 DEF vars
<1> QED
  BY <1>1, <1>2, <1>3, <1>4, <1>5, <1>6, <1>7, <1>8 DEF Next, ThreadStep, Justified

-----------------------------------------------------------------------------
(* The order of the steps.                                                 *)

LEMMA StepOrderKept ==
  IInv /\ StepOrder /\ [Next]_vars => StepOrder'
<1> SUFFICES ASSUME IInv, StepOrder, [Next]_vars,
                    NEW id \in Ids', NEW s \in 0 .. stream'[id].step - 1
             PROVE  \E p \in 1 .. id - 1 :
                      Of(p, stream[id].run, s)' /\ Had(p, "completed")'
  BY DEF StepOrder
<1>g. Len(stream) \in Nat /\ effects \subseteq effects'
  BY StreamStep, LenProperties DEF IInv, TypeOK
<1>1. CASE id \in Ids /\ stream'[id] = stream[id]
           /\ \A p \in Ids : stream'[p] = stream[p]
  <2>1. PICK p \in 1 .. id - 1 : Of(p, stream[id].run, s) /\ Had(p, "completed")
    BY <1>1 DEF StepOrder
  <2>2. p \in Ids
    BY <1>1, <1>g DEF Ids
  <2> QED
    BY <1>1, <1>g, <2>1, <2>2 DEF Of, Had
<1>2. CASE /\ id = Len(stream) + 1 /\ Justified(stream'[id])
           /\ \A p \in Ids : stream'[p] = stream[p]
  <2>1. ~First(stream'[id])
    BY DEF First
  <2>2. ASSUME NEW t \in Threads, Next1(stream'[id], t) \/ Again(stream'[id], t)
        PROVE  \E p \in 1 .. id - 1 :
                 Of(p, stream[id].run, s)' /\ Had(p, "completed")'
    <3>1. /\ job[t] \in Ids /\ stream[job[t]].step \in Steps
          /\ stream'[id].run = stream[job[t]].run
          /\ stream'[job[t]] = stream[job[t]]
      BY <1>2, <2>2, MessageLemma DEF Next1, Again, RunOf, IInv, TypeOK
    <3>2. CASE s \in 0 .. stream[job[t]].step - 1
      <4>1. PICK p \in 1 .. job[t] - 1 :
                   Of(p, stream[job[t]].run, s) /\ Had(p, "completed")
        BY <3>1, <3>2 DEF StepOrder
      <4>2. p \in Ids /\ p \in 1 .. id - 1
        BY <1>2, <1>g, <3>1 DEF Ids
      <4> QED
        BY <1>2, <1>g, <3>1, <4>1, <4>2 DEF Of, Had
    <3>3. CASE s \notin 0 .. stream[job[t]].step - 1
      <4>1. Next1(stream'[id], t) /\ s = stream[job[t]].step
        BY <2>2, <3>1, <3>3 DEF Next1, Again, StepOf, Steps
      <4>2. job[t] \in 1 .. id - 1
        BY <1>2, <1>g, <3>1 DEF Ids
      <4> QED
        BY <1>g, <3>1, <4>1, <4>2 DEF Next1, Of, Had
    <3> QED
      BY <3>2, <3>3
  <2> QED
    BY <1>2, <2>1, <2>2 DEF Justified
<1> QED
  BY <1>1, <1>2, <1>g, StreamStep DEF Ids

(* A step is enqueued only after every earlier step of the run succeeded.  *)
THEOREM StepsInOrder == Spec => []StepOrder
<1>1. Init => StepOrder
  BY EmptySeq DEF Init, StepOrder, Ids
<1> QED
  BY <1>1, InductiveInv, StepOrderKept, PTL DEF Spec

LEMMA RetryOrderKept ==
  IInv /\ RetryOrder /\ [Next]_vars => RetryOrder'
<1> SUFFICES ASSUME IInv, RetryOrder, [Next]_vars, NEW id \in Ids'
             PROVE  /\ stream'[id].attempt <= AttemptLimit
                    /\ stream'[id].attempt > 1 =>
                         \E p \in 1 .. id - 1 :
                           /\ Of(p, stream[id].run, stream[id].step)'
                           /\ stream'[p].attempt = stream'[id].attempt - 1
                           /\ Had(p, "failed")'
  BY DEF RetryOrder
<1>g. /\ Len(stream) \in Nat /\ effects \subseteq effects'
      /\ stream' \in Seq(Message)
  BY StreamStep, LenProperties, TypingStep DEF IInv, TypeOK
<1>1. stream'[id].attempt \in Attempts
  <2>1. stream'[id] \in Message
    BY <1>g, ElementOfSeq DEF Ids
  <2> QED
    BY <2>1 DEF Message
<1>2. stream'[id].attempt <= AttemptLimit
  BY <1>1 DEF Attempts, AttemptLimit, EffectiveRetries
<1>3. CASE id \in Ids /\ stream'[id] = stream[id]
           /\ \A p \in Ids : stream'[p] = stream[p]
  <2> SUFFICES ASSUME stream'[id].attempt > 1
               PROVE  \E p \in 1 .. id - 1 :
                        /\ Of(p, stream[id].run, stream[id].step)'
                        /\ stream'[p].attempt = stream'[id].attempt - 1
                        /\ Had(p, "failed")'
    BY <1>2
  <2>1. PICK p \in 1 .. id - 1 :
          /\ Of(p, stream[id].run, stream[id].step)
          /\ stream[p].attempt = stream[id].attempt - 1
          /\ Had(p, "failed")
    BY <1>3 DEF RetryOrder
  <2>2. p \in Ids
    BY <1>3, <1>g DEF Ids
  <2> QED
    BY <1>3, <1>g, <2>1, <2>2 DEF Of, Had
<1>4. CASE /\ id = Len(stream) + 1 /\ Justified(stream'[id])
           /\ \A p \in Ids : stream'[p] = stream[p]
  <2>1. CASE First(stream'[id])
    BY <1>2, <2>1 DEF First
  <2>2. ASSUME NEW t \in Threads, Next1(stream'[id], t)
        PROVE  stream'[id].attempt = 1
    BY <2>2 DEF Next1
  <2>3. ASSUME NEW t \in Threads, Again(stream'[id], t)
        PROVE  \E p \in 1 .. id - 1 :
                 /\ Of(p, stream[id].run, stream[id].step)'
                 /\ stream'[p].attempt = stream'[id].attempt - 1
                 /\ Had(p, "failed")'
    <3>1. /\ job[t] \in Ids /\ stream[job[t]].attempt \in Attempts
          /\ stream'[job[t]] = stream[job[t]]
      BY <1>4, <2>3, MessageLemma DEF Again, IInv, TypeOK
    <3>2. job[t] \in 1 .. id - 1
      BY <1>4, <1>g, <3>1 DEF Ids
    <3>3. /\ stream'[id].run = stream[job[t]].run
          /\ stream'[id].step = stream[job[t]].step
          /\ stream'[id].attempt - 1 = stream[job[t]].attempt
      BY <2>3, <3>1 DEF Again, RunOf, StepOf, AttemptOf, Attempts
    <3> QED
      BY <1>g, <2>3, <3>1, <3>2, <3>3 DEF Again, Of, Had
  <2> QED
    BY <1>2, <1>4, <2>1, <2>2, <2>3 DEF Justified
<1> QED
  BY <1>3, <1>4, <1>g, StreamStep DEF Ids

(* A retry follows a failed attempt, and no attempt is beyond the limit.   *)
THEOREM RetriesInOrder == Spec => []RetryOrder
<1>1. Init => RetryOrder
  BY EmptySeq DEF Init, RetryOrder, Ids
<1> QED
  BY <1>1, InductiveInv, RetryOrderKept, PTL DEF Spec

-----------------------------------------------------------------------------
(* A run that is over stays over.                                          *)

(* A goroutine at work touches its own run only. *)
LEMMA OwnRunOnly ==
  ASSUME IInv, [Next]_vars, NEW t \in Threads, Process(t), NEW r \in Runs,
         r # RunOf(t)
  PROVE  Untouched(r)
<1> USE DEF IInv, db, redis, work, http, ghost, At, Process, FetchStatus, Drop,
     FetchStep, SetRunning, PublishRunning, ReadContext, PublishStarted, Execute,
     InsertExec, Ack, PublishStepCompleted, SaveContext, CountSteps, EnqueueNext,
     CompleteRun, PublishRunCompleted, PublishStepFailed, FetchPolicy, Backoff,
     Recheck, EnqueueRetry, MarkRunFailed, PublishAborted, PublishRunFailed,
     Publish, PublishLast
<1>1. pc[t] \in Unacked \cup Acked
  BY DEF Unacked, Acked
<1>2. job[t] \in Ids /\ RunOf(t) \in Runs
  BY <1>1, JobLemma
<1>3. /\ status'[r] = status[r] /\ currentStep'[r] = currentStep[r]
      /\ context'[r] = context[r]
  BY <1>2 DEF TypeOK
<1>4. \A e \in feed' \ feed : e.run # r
  BY <1>2 DEF Announce
<1>5. \A x \in effects' \ effects : x[1] = job[t]
  BY <1>2
<1>6. stream'[job[t]].run = RunOf(t)
  BY <1>2, StreamStep DEF RunOf
<1>7. \A id \in Ids' \ Ids : stream'[id].run # r
  <2>1. CASE stream' = stream
    BY <2>1 DEF Ids
  <2>2. CASE \/ Enqueue(RunOf(t), StepOf(t) + 1, 1)
             \/ Enqueue(RunOf(t), StepOf(t), AttemptOf(t) + 1)
    BY <1>2, <2>2, LenProperties DEF Ids, TypeOK, Enqueue
  <2> QED
    BY <2>1, <2>2
<1> QED
  BY <1>3, <1>4, <1>5, <1>6, <1>7 DEF Untouched

(* The three places a goroutine can be in with a message of a settled run. *)
Harmless == {"idem_check", "fetch_status", "drop"}

LEMMA SettledStep ==
  ASSUME IInv, [Next]_vars, NEW r \in Runs, Settled(r)
  PROVE  Settled(r)' /\ Untouched(r)
<1> USE DEF IInv, db, redis, local, work, http, ghost, At
<1>g. /\ Len(stream) \in Nat /\ \A id \in Ids : stream'[id] = stream[id]
  BY StreamStep, LenProperties DEF TypeOK, Ids
<1>n. status[r] # Missing
  BY DEF Settled, Terminal, Statuses, Missing
<1>h. \A u \in Threads : job[u] # 0 => job[u] \in Ids
  <2> SUFFICES ASSUME NEW u \in Threads, job[u] # 0
               PROVE  job[u] \in Ids
    OBVIOUS
  <2>1. pc[u] \in Unacked \cup Acked
    BY DEF JobsOK, JobAt
  <2> QED
    BY <2>1, JobLemma
<1>1. ASSUME NEW t \in Threads, ThreadStep(t)
      PROVE  Settled(r)' /\ Untouched(r)
  <2>1. CASE job[t] # 0 /\ RunOf(t) = r
    <3>1. pc[t] \in Harmless
      BY <2>1 DEF Settled, Harmless
    <3>2. FetchStatus(t) \/ Drop(t) \/ IdempotencyCheck(t)
      BY <1>1, <3>1 DEF ThreadStep, ReadGroup, Exit, Recover, Scan, ScanDone, Claim,
         Process, FetchStep, SetRunning, PublishRunning, ReadContext,
         PublishStarted, Execute, InsertExec, Ack, PublishStepCompleted,
         SaveContext, CountSteps, EnqueueNext, CompleteRun, PublishRunCompleted,
         PublishStepFailed, FetchPolicy, Backoff, Recheck, EnqueueRetry,
         MarkRunFailed, PublishAborted, PublishRunFailed, Publish, PublishLast,
         Harmless
    <3>3. ~Runnable(r)
      BY DEF Settled, Runnable, Terminal
    <3>4. pc'[t] \in Harmless \/ job'[t] = 0
      BY <2>1, <3>2, <3>3 DEF FetchStatus, Drop, IdempotencyCheck, Finish, Goto,
         AfterCheck, TypeOK, Harmless
    <3>5. UNCHANGED <<status, currentStep, context, stream, feed, effects>>
      BY <3>2 DEF FetchStatus, Drop, IdempotencyCheck
    <3>6. \A u \in Threads : job'[u] # 0 /\ stream'[job'[u]].run = r => pc'[u] \in Harmless
      BY <1>1, <3>4, <3>5, ThreadFrame DEF Settled, RunOf, Harmless
    <3>7. Settled(r)'
      BY <1>1, <3>5, <3>6, ThreadFrame DEF Settled, RunOf, Harmless
    <3> QED
      BY <3>5, <3>7 DEF Untouched, Ids
  <2>2. CASE Process(t) /\ ~(job[t] # 0 /\ RunOf(t) = r)
    <3>1. pc[t] \in Unacked \cup Acked /\ job[t] # 0
      BY <2>2 DEF JobsOK, JobAt, Process, FetchStatus, Drop, FetchStep, SetRunning,
         PublishRunning, ReadContext, PublishStarted, Execute, InsertExec, Ack,
         PublishStepCompleted, SaveContext, CountSteps, EnqueueNext, CompleteRun,
         PublishRunCompleted, PublishStepFailed, FetchPolicy, Backoff, Recheck,
         EnqueueRetry, MarkRunFailed, PublishAborted, PublishRunFailed, Publish,
         PublishLast, Unacked, Acked
    <3>2. RunOf(t) # r
      BY <2>2, <3>1
    <3>3. Untouched(r)
      BY <2>2, <3>2, OwnRunOnly
    <3>4. job'[t] = job[t] \/ job'[t] = 0
      BY <2>2 DEF Process, FetchStatus, Drop, FetchStep, SetRunning,
         PublishRunning, ReadContext, PublishStarted, Execute, InsertExec, Ack,
         PublishStepCompleted, SaveContext, CountSteps, EnqueueNext, CompleteRun,
         PublishRunCompleted, PublishStepFailed, FetchPolicy, Backoff, Recheck,
         EnqueueRetry, MarkRunFailed, PublishAborted, PublishRunFailed, Publish,
         PublishLast, Finish, TypeOK
    <3>5. \A u \in Threads : job'[u] # 0 /\ stream'[job'[u]].run = r => pc'[u] \in Harmless
      BY <1>1, <1>g, <1>h, <3>2, <3>4, ThreadFrame DEF Settled, RunOf, Harmless
    <3>6. Settled(r)'
      BY <1>1, <3>3, <3>5, ThreadFrame DEF Settled, Untouched, RunOf, Harmless
    <3> QED
      BY <3>3, <3>6
  <2>3. CASE ReadGroup(t) \/ Recover(t) \/ Exit(t)
    <3>1. UNCHANGED <<status, currentStep, context, stream, feed, effects>>
      BY <2>3 DEF ReadGroup, Recover, Scan, ScanDone, Claim, IdempotencyCheck, Exit
    <3>2. \/ job'[t] = 0 \/ pc'[t] \in Harmless
          \/ job'[t] = job[t] /\ pc'[t] = pc[t]
          \/ job'[t] = job[t] /\ pc[t] \notin Unacked \cup Acked
      BY <2>3 DEF ReadGroup, Recover, Scan, ScanDone, Claim, IdempotencyCheck, Exit,
         AfterCheck, Finish, Goto, TypeOK, Harmless, Unacked, Acked
    <3>3. job[t] # 0 => pc[t] \in Unacked \cup Acked
      BY DEF JobsOK, JobAt
    <3>4. \A u \in Threads : job'[u] # 0 /\ stream'[job'[u]].run = r => pc'[u] \in Harmless
      BY <1>1, <3>1, <3>2, <3>3, ThreadFrame DEF Settled, RunOf, Harmless
    <3>5. Settled(r)'
      BY <1>1, <3>1, <3>4, ThreadFrame DEF Settled, RunOf, Harmless
    <3> QED
      BY <3>1, <3>5 DEF Untouched, Ids
  <2> QED
    BY <1>1, <2>1, <2>2, <2>3 DEF ThreadStep
<1>2. ASSUME NEW id \in pel, Age(id)
      PROVE  Settled(r)' /\ Untouched(r)
  BY <1>2 DEF Age, Settled, RunOf, Untouched, Ids
<1>3. ASSUME NEW i \in Instances, NEW q \in Runs,
             CreateInsert(i, q) \/ CancelRead(i, q) \/ CancelWrite(i, q)
      PROVE  Settled(r)' /\ Untouched(r)
  <2>1. q # r
    BY <1>3, <1>n, InstanceAssumption DEF CreateInsert, CancelRead, CancelWrite,
       Settled, Terminal
  <2> QED
    BY <1>3, <2>1 DEF CreateInsert, CancelRead, CancelWrite, Settled, Untouched,
       RunOf, Ids, TypeOK
<1>4. ASSUME NEW i \in Instances, NEW q \in Runs, CreateEnqueue(i, q)
      PROVE  Settled(r)' /\ Untouched(r)
  <2>1. q # r
    BY <1>4, InstanceAssumption DEF CreateEnqueue, Settled
  <2>2. \A id \in Ids' \ Ids : stream'[id].run # r
    BY <1>4, <1>g, <2>1 DEF CreateEnqueue, Enqueue, Ids, TypeOK
  <2>3. \A u \in Threads : job'[u] # 0 /\ stream'[job'[u]].run = r => pc'[u] \in Harmless
    BY <1>4, <1>g, <1>h DEF CreateEnqueue, Settled, RunOf, Harmless
  <2>4. Settled(r)'
    BY <1>4, <2>1, <2>3 DEF CreateEnqueue, Settled, RunOf, Harmless, TypeOK
  <2> QED
    BY <1>4, <2>2, <2>4 DEF CreateEnqueue, Untouched
<1>5. ASSUME NEW i \in Instances, Lifetime(i)
      PROVE  Settled(r)' /\ Untouched(r)
  <2>1. CASE Crash(i)
    BY <2>1 DEF Crash, Settled, RunOf, Untouched, Ids
  <2>2. CASE Stop(i) \/ StopDone(i)
    BY <2>2 DEF Stop, StopDone, Settled, RunOf, Untouched, Ids
  <2>3. CASE Restart(i)
    <3>1. \A u \in Threads : HostOf[u] = i => job[u] = 0
      BY <2>3 DEF Restart, DownOK, JobsOK, JobAt, Unacked, Acked
    <3> QED
      BY <2>3, <3>1 DEF Restart, Settled, RunOf, Untouched, Ids
  <2> QED
    BY <1>5, <2>1, <2>2, <2>3 DEF Lifetime
<1>6. CASE UNCHANGED vars
  BY <1>6 DEF vars, Settled, RunOf, Untouched, Ids
<1> QED
  BY <1>1, <1>2, <1>3, <1>4, <1>5, <1>6 DEF Next, Handlers

(* A run that is over stays over: no step changes its row, executes one of *)
(* its steps or adds a message or an event for it.                         *)
THEOREM OverStaysOver == Spec => SettledForGood
<1>1. IInv /\ [Next]_vars =>
        [\A r \in Runs : Settled(r) => Settled(r)' /\ Untouched(r)]_vars
  BY SettledStep
<1> QED
  BY <1>1, InductiveInv, PTL DEF Spec, SettledForGood

-----------------------------------------------------------------------------
(* A run that is over is not resumed.                                      *)

(* The step of a goroutine that holds a message of a closed run.           *)
LEMMA ClosingStep ==
  ASSUME IInv, [Next]_vars, NEW t \in Threads, ThreadStep(t), job[t] # 0,
         pc[t] \in Closing, status[RunOf(t)] \in Terminal
  PROVE  /\ pc'[t] \in Closing \/ job'[t] = 0
         /\ job'[t] \in {job[t], 0}
         /\ status'[RunOf(t)] \in Terminal
         /\ UNCHANGED <<stream, effects, creating>>
<1> USE DEF IInv, db, redis, work, http, ghost, At
<1>1. \/ FetchStatus(t) \/ Drop(t) \/ IdempotencyCheck(t) \/ Recheck(t)
      \/ MarkRunFailed(t) \/ CompleteRun(t)
      \/ PublishAborted(t) \/ PublishStepFailed(t) \/ PublishRunCompleted(t)
      \/ PublishRunFailed(t) \/ FetchPolicy(t) \/ Backoff(t)
  BY DEF ThreadStep, ReadGroup, Exit, Recover, Scan, ScanDone, Claim, Process,
     FetchStep, SetRunning, PublishRunning, ReadContext, PublishStarted, Execute,
     InsertExec, Ack, PublishStepCompleted, SaveContext, CountSteps, EnqueueNext,
     EnqueueRetry, Publish, Closing
<1>2. ~Runnable(RunOf(t))
  BY DEF Runnable, Terminal
<1>3. pc \in [Threads -> Places] /\ job \in [Threads -> 0 .. delivered]
  BY DEF TypeOK
<1>4. CASE FetchStatus(t) \/ Drop(t) \/ IdempotencyCheck(t) \/ Recheck(t)
  BY <1>2, <1>3, <1>4 DEF FetchStatus, Drop, IdempotencyCheck, Recheck, Finish,
     Goto, AfterCheck, Closing
<1>5. CASE MarkRunFailed(t) \/ CompleteRun(t)
  <2>1. status \in [Runs -> Statuses \cup {Missing}]
    BY DEF TypeOK
  <2>2. RunOf(t) \in Runs
    BY <1>5, JobLemma DEF MarkRunFailed, CompleteRun, Acked, Unacked
  <2> QED
    BY <1>3, <1>5, <2>1, <2>2 DEF MarkRunFailed, CompleteRun, Goto, Closing,
       Terminal, Statuses, Active
<1>6. CASE \/ PublishAborted(t) \/ PublishStepFailed(t) \/ PublishRunCompleted(t)
           \/ PublishRunFailed(t) \/ FetchPolicy(t) \/ Backoff(t)
  BY <1>3, <1>6 DEF PublishAborted, PublishStepFailed, PublishRunCompleted,
     PublishRunFailed, FetchPolicy, Backoff, Publish, PublishLast, Finish, Goto,
     Closing
<1> QED
  BY <1>1, <1>4, <1>5, <1>6

LEMMA ClosedStep ==
  ASSUME IInv, [Next]_vars, NEW r \in Runs, Closed(r)
  PROVE  Closed(r)' /\ NoNewWork(r)
<1> USE DEF IInv, db, redis, local, work, http, ghost, At
<1>g. /\ Len(stream) \in Nat /\ \A id \in Ids : stream'[id] = stream[id]
  BY StreamStep, LenProperties DEF TypeOK, Ids
<1>n. status[r] # Missing
  BY DEF Closed, Terminal, Statuses, Missing
<1>h. \A u \in Threads : job[u] # 0 => job[u] \in Ids /\ pc[u] \in Unacked \cup Acked
  <2> SUFFICES ASSUME NEW u \in Threads, job[u] # 0
               PROVE  job[u] \in Ids /\ pc[u] \in Unacked \cup Acked
    OBVIOUS
  <2>1. pc[u] \in Unacked \cup Acked
    BY DEF JobsOK, JobAt
  <2> QED
    BY <2>1, JobLemma
<1>1. ASSUME NEW t \in Threads, ThreadStep(t)
      PROVE  Closed(r)' /\ NoNewWork(r)
  <2>1. CASE job[t] # 0 /\ RunOf(t) = r
    <3>1. /\ pc'[t] \in Closing \/ job'[t] = 0
          /\ job'[t] \in {job[t], 0}
          /\ status'[r] \in Terminal /\ UNCHANGED <<stream, effects, creating>>
      BY <1>1, <2>1, ClosingStep DEF Closed
    <3>2. \A u \in Threads : job'[u] # 0 /\ stream'[job'[u]].run = r => pc'[u] \in Closing
      BY <1>1, <3>1, ThreadFrame DEF Closed, RunOf
    <3> QED
      BY <3>1, <3>2 DEF Closed, NoNewWork, RunOf, Ids
  <2>2. CASE Process(t) /\ ~(job[t] # 0 /\ RunOf(t) = r)
    <3>1. job[t] # 0
      BY <2>2 DEF JobsOK, JobAt, Process, FetchStatus, Drop, FetchStep, SetRunning,
         PublishRunning, ReadContext, PublishStarted, Execute, InsertExec, Ack,
         PublishStepCompleted, SaveContext, CountSteps, EnqueueNext, CompleteRun,
         PublishRunCompleted, PublishStepFailed, FetchPolicy, Backoff, Recheck,
         EnqueueRetry, MarkRunFailed, PublishAborted, PublishRunFailed, Publish,
         PublishLast, Unacked, Acked
    <3>2. Untouched(r)
      BY <2>2, <3>1, OwnRunOnly
    <3>3. job'[t] = job[t] \/ job'[t] = 0
      BY <2>2 DEF Process, FetchStatus, Drop, FetchStep, SetRunning,
         PublishRunning, ReadContext, PublishStarted, Execute, InsertExec, Ack,
         PublishStepCompleted, SaveContext, CountSteps, EnqueueNext, CompleteRun,
         PublishRunCompleted, PublishStepFailed, FetchPolicy, Backoff, Recheck,
         EnqueueRetry, MarkRunFailed, PublishAborted, PublishRunFailed, Publish,
         PublishLast, Finish, TypeOK
    <3>4. \A u \in Threads : job'[u] # 0 /\ stream'[job'[u]].run = r => pc'[u] \in Closing
      BY <1>1, <1>g, <1>h, <2>2, <3>1, <3>3, ThreadFrame DEF Closed, RunOf
    <3> QED
      BY <1>1, <3>2, <3>4, ThreadFrame DEF Closed, Untouched, NoNewWork, RunOf
  <2>3. CASE (ReadGroup(t) \/ Recover(t) \/ Exit(t)) /\ ~(job[t] # 0 /\ RunOf(t) = r)
    <3>1. UNCHANGED <<status, stream, effects, creating>>
      BY <2>3 DEF ReadGroup, Recover, Scan, ScanDone, Claim, IdempotencyCheck, Exit
    <3>2. pc'[t] \in Closing \/ job'[t] \in {job[t], 0}
      BY <2>3 DEF ReadGroup, Recover, Scan, ScanDone, Claim, IdempotencyCheck, Exit,
         AfterCheck, Finish, Goto, TypeOK, Closing
    <3>3. \A u \in Threads : job'[u] # 0 /\ stream'[job'[u]].run = r => pc'[u] \in Closing
      BY <1>1, <2>3, <3>1, <3>2, ThreadFrame DEF Closed, RunOf
    <3> QED
      BY <3>1, <3>3 DEF Closed, NoNewWork, RunOf, Ids
  <2> QED
    BY <1>1, <2>1, <2>2, <2>3 DEF ThreadStep
<1>2. ASSUME NEW id \in pel, Age(id)
      PROVE  Closed(r)' /\ NoNewWork(r)
  BY <1>2 DEF Age, Closed, RunOf, NoNewWork, Ids
<1>3. ASSUME NEW i \in Instances, NEW q \in Runs,
             CreateInsert(i, q) \/ CancelRead(i, q) \/ CancelWrite(i, q)
      PROVE  Closed(r)' /\ NoNewWork(r)
  <2>1. UNCHANGED <<stream, effects, job, pc>>
    BY <1>3 DEF CreateInsert, CancelRead, CancelWrite
  <2>2. status'[r] \in Terminal /\ creating'[r] = NoInstance
    BY <1>3, <1>n DEF CreateInsert, CancelRead, CancelWrite, Closed, Terminal,
       Statuses, Active, TypeOK
  <2> QED
    BY <2>1, <2>2 DEF Closed, NoNewWork, RunOf, Ids
<1>4. ASSUME NEW i \in Instances, NEW q \in Runs, CreateEnqueue(i, q)
      PROVE  Closed(r)' /\ NoNewWork(r)
  <2>1. q # r
    BY <1>4, InstanceAssumption DEF CreateEnqueue, Closed
  <2>2. \A id \in Ids' \ Ids : stream'[id].run # r
    BY <1>4, <1>g, <2>1 DEF CreateEnqueue, Enqueue, Ids, TypeOK
  <2>3. \A u \in Threads : job'[u] # 0 /\ stream'[job'[u]].run = r => pc'[u] \in Closing
    BY <1>4, <1>g, <1>h DEF CreateEnqueue, Closed, RunOf
  <2>4. Closed(r)'
    BY <1>4, <2>1, <2>3 DEF CreateEnqueue, Closed, RunOf, TypeOK
  <2> QED
    BY <1>4, <2>2, <2>4 DEF CreateEnqueue, NoNewWork
<1>5. ASSUME NEW i \in Instances, Lifetime(i)
      PROVE  Closed(r)' /\ NoNewWork(r)
  <2>1. CASE Crash(i)
    BY <2>1 DEF Crash, Closed, RunOf, NoNewWork, Ids
  <2>2. CASE Stop(i) \/ StopDone(i)
    BY <2>2 DEF Stop, StopDone, Closed, RunOf, NoNewWork, Ids
  <2>3. CASE Restart(i)
    <3>1. \A u \in Threads : HostOf[u] = i => job[u] = 0
      BY <2>3 DEF Restart, DownOK, JobsOK, JobAt, Unacked, Acked
    <3> QED
      BY <2>3, <3>1 DEF Restart, Closed, RunOf, NoNewWork, Ids
  <2> QED
    BY <1>5, <2>1, <2>2, <2>3 DEF Lifetime
<1>6. CASE UNCHANGED vars
  BY <1>6 DEF vars, Closed, RunOf, NoNewWork, Ids
<1> QED
  BY <1>1, <1>2, <1>3, <1>4, <1>5, <1>6 DEF Next, Handlers

(* A run that is over is not resumed: no step asks for one of its steps or *)
(* executes one, whatever a goroutine in a backoff or after a redelivery   *)
(* still has to do for it.                                                 *)
THEOREM OverNotResumed == Spec => NeverResumed
<1>1. IInv /\ [Next]_vars =>
        [\A r \in Runs : Closed(r) => Closed(r)' /\ NoNewWork(r)]_vars
  BY ClosedStep
<1> QED
  BY <1>1, InductiveInv, PTL DEF Spec, NeverResumed

-----------------------------------------------------------------------------
(* Verdicts are earned as long as no call fails.                           *)

BudgetOK == \A h \in Hazards : budget[h] <= Budget[h]

(* What brought a goroutine whose calls work to a verdict. *)
GroundsAt(t) ==
  /\ pc[t] # "abort_run"
  /\ pc[t] = "complete_run" => StepOf(t) = NumSteps - 1
  /\ pc[t] = "fail_run" => ~MayRetry(AttemptOf(t))
GroundsOK == Before({"fault"}) => \A t \in Threads : ~Cancelled(t) => GroundsAt(t)

LEMMA BudgetStep ==
  ASSUME IInv, BudgetOK, [Next]_vars
  PROVE  /\ BudgetOK' /\ \A h \in Hazards : budget'[h] <= budget[h]
         /\ Before({"fault"})' => Before({"fault"}) /\ budget'["fault"] = budget["fault"]
<1> USE DEF IInv, TypeOK, Works, Faulty, Spend, Hazards
<1>1. \A h \in Hazards : budget'[h] <= budget[h]
  <2>1. ASSUME NEW t \in Threads, ThreadStep(t)
        PROVE  UNCHANGED budget \/ Spend("fault")
    BY <2>1 DEF ThreadStep, ReadGroup, Exit, Recover, Scan, ScanDone, Claim,
       IdempotencyCheck, Process, FetchStatus, Drop, FetchStep, SetRunning,
       PublishRunning, ReadContext, PublishStarted, Execute, InsertExec, Ack,
       PublishStepCompleted, SaveContext, CountSteps, EnqueueNext, CompleteRun,
       PublishRunCompleted, PublishStepFailed, FetchPolicy, Backoff, Recheck,
       EnqueueRetry, MarkRunFailed, PublishAborted, PublishRunFailed, Publish,
       PublishLast, Announce
  <2>2. ASSUME NEW i \in Instances, Handlers(i) \/ Lifetime(i)
        PROVE  UNCHANGED budget \/ \E h \in Hazards : Spend(h)
    BY <2>2 DEF Handlers, CreateInsert, CreateEnqueue, CancelRead, CancelWrite,
       Lifetime, Stop, StopDone, Crash, Restart
  <2>3. ASSUME NEW id \in pel, Age(id)
        PROVE  UNCHANGED budget \/ Spend("overrun")
    BY <2>3 DEF Age
  <2>4. UNCHANGED budget \/ \E h \in Hazards : Spend(h)
    BY <2>1, <2>2, <2>3 DEF Next, vars
  <2> HIDE DEF IInv, TypeOK, Spend, Hazards
  <2>5. budget \in [Hazards -> Nat]
    BY DEF IInv, TypeOK
  <2>6. ASSUME NEW g \in Hazards, Spend(g), NEW h \in Hazards
        PROVE  budget'[h] <= budget[h]
    <3>1. budget'[h] = IF h = g THEN budget[g] - 1 ELSE budget[h]
      BY <2>5, <2>6 DEF Spend
    <3>2. budget[h] \in Nat
      BY <2>5
    <3> QED
      BY <3>1, <3>2
  <2>7. ASSUME UNCHANGED budget, NEW h \in Hazards
        PROVE  budget'[h] <= budget[h]
    BY <2>5, <2>7
  <2> QED
    BY <2>4, <2>6, <2>7
<1> HIDE DEF IInv, TypeOK, Works, Faulty, Spend, Hazards
<1>2. budget \in [Hazards -> Nat] /\ budget' \in [Hazards -> Nat]
  BY TypingStep DEF IInv, TypeOK
<1>3. BudgetOK'
  <2> SUFFICES ASSUME NEW h \in Hazards
               PROVE  budget'[h] <= Budget[h]
    BY DEF BudgetOK
  <2>1. budget[h] \in Nat /\ budget'[h] \in Nat /\ Budget[h] \in Nat
    BY <1>2
  <2>2. budget'[h] <= budget[h] /\ budget[h] <= Budget[h]
    BY <1>1 DEF BudgetOK
  <2> QED
    BY <2>1, <2>2
<1>4. Before({"fault"})' => Before({"fault"}) /\ budget'["fault"] = budget["fault"]
  <2>1. "fault" \in Hazards
    BY DEF Hazards
  <2>2. /\ budget["fault"] \in Nat /\ budget'["fault"] \in Nat
        /\ budget'["fault"] <= budget["fault"] /\ budget["fault"] <= Budget["fault"]
    BY <1>1, <1>2, <2>1 DEF BudgetOK
  <2>3. Budget["fault"] \in Nat
    BY <2>1
  <2> QED
    BY <2>2, <2>3 DEF Before
<1> QED
  BY <1>1, <1>3, <1>4

LEMMA GroundsStep ==
  ASSUME IInv, BudgetOK, GroundsOK, [Next]_vars
  PROVE  GroundsOK'
<1> USE DEF IInv, db, redis, local, work, http, ghost, At
<1> SUFFICES ASSUME Before({"fault"})', NEW u \in Threads, ~Cancelled(u)'
             PROVE  GroundsAt(u)'
  BY DEF GroundsOK
<1>f. Before({"fault"}) /\ budget'["fault"] = budget["fault"] /\ budget["fault"] \in Nat
  BY BudgetStep DEF TypeOK, Hazards
<1>s. ~Spend("fault")
  BY <1>f DEF Spend, TypeOK, Hazards
<1>j. pc[u] \in {"complete_run", "fail_run"} => stream'[job[u]] = stream[job[u]]
  <2>1. pc[u] \in {"complete_run", "fail_run"} => job[u] \in Ids
    BY JobLemma DEF Acked
  <2> QED
    BY <2>1, StreamStep
<1>1. CASE UNCHANGED <<pc, job, inst>>
  BY <1>1, <1>f, <1>j DEF GroundsOK, GroundsAt, Cancelled, StepOf, AttemptOf, MayRetry
<1>2. ASSUME NEW t \in Threads, ThreadStep(t)
      PROVE  GroundsAt(u)'
  <2>1. ~Cancelled(u)
    BY <1>2, ThreadFrame DEF Cancelled
  <2>2. GroundsAt(u)
    BY <1>f, <2>1 DEF GroundsOK
  <2>3. CASE u # t
    <3>1. pc'[u] = pc[u] /\ job'[u] = job[u]
      BY <1>2, <2>3, ThreadFrame
    <3> QED
      BY <1>j, <2>2, <3>1 DEF GroundsAt, StepOf, AttemptOf, MayRetry
  <2>4. CASE u = t
    <3>1. CASE CountSteps(t)
      <4>1. /\ job' = job /\ stream' = stream
            /\ pc'[t] = IF MoreSteps(StepOf(t)) THEN "enqueue_next" ELSE "complete_run"
        BY <1>s, <2>1, <2>4, <3>1 DEF CountSteps, Works, Faulty, Goto, TypeOK
      <4>2. StepOf(t) \in Steps
        BY <3>1, JobLemma DEF CountSteps, Acked
      <4>3. pc'[t] = "complete_run" => StepOf(t) = NumSteps - 1
        BY <4>1, <4>2 DEF MoreSteps, Steps
      <4> QED
        BY <2>4, <4>1, <4>3 DEF GroundsAt, StepOf
    <3>2. CASE FetchPolicy(t)
      <4>1. /\ job' = job /\ stream' = stream
            /\ pc'[t] = IF MayRetry(AttemptOf(t)) THEN "backoff" ELSE "fail_run"
        BY <1>s, <2>1, <2>4, <3>2 DEF FetchPolicy, Works, Faulty, Goto, TypeOK
      <4> QED
        BY <2>4, <4>1 DEF GroundsAt, AttemptOf, MayRetry
    <3>3. CASE FetchStep(t)
      <4>1. pc'[t] = "set_running"
        BY <1>s, <2>1, <2>4, <3>3 DEF FetchStep, Works, Faulty, Goto, TypeOK
      <4> QED
        BY <2>4, <4>1 DEF GroundsAt
    <3>4. CASE ~CountSteps(t) /\ ~FetchPolicy(t) /\ ~FetchStep(t)
      <4> DEFINE Calm == \/ pc'[t] \notin {"abort_run", "complete_run", "fail_run"}
                         \/ pc'[t] = pc[t] /\ job'[t] = job[t]
      <4>p. pc \in [Threads -> Places] /\ job \in [Threads -> 0 .. delivered]
        BY DEF TypeOK
      <4>2. ReadGroup(t) \/ Recover(t) \/ Exit(t) => Calm
        BY <4>p DEF ReadGroup, Exit, Recover, Scan, ScanDone, Claim,
           IdempotencyCheck, AfterCheck, Finish, Goto
      <4>3. ASSUME \/ FetchStatus(t) \/ Drop(t) \/ SetRunning(t) \/ PublishRunning(t)
                   \/ ReadContext(t) \/ PublishStarted(t) \/ Execute(t) \/ InsertExec(t)
                   \/ Ack(t) \/ PublishStepCompleted(t) \/ SaveContext(t)
            PROVE Calm
        BY <4>3, <4>p DEF FetchStatus, Drop, SetRunning, PublishRunning, ReadContext,
           PublishStarted, Execute, InsertExec, Ack, PublishStepCompleted,
           SaveContext, Publish, AfterAck, Finish, Goto
      <4>4. ASSUME \/ EnqueueNext(t) \/ CompleteRun(t) \/ PublishRunCompleted(t)
                   \/ PublishStepFailed(t) \/ Backoff(t) \/ Recheck(t)
                   \/ EnqueueRetry(t) \/ MarkRunFailed(t) \/ PublishAborted(t)
                   \/ PublishRunFailed(t)
            PROVE Calm
        BY <4>4, <4>p DEF EnqueueNext, CompleteRun, PublishRunCompleted,
           PublishStepFailed, Backoff, Recheck, EnqueueRetry, MarkRunFailed,
           PublishAborted, PublishRunFailed, Publish, PublishLast, Finish, Goto
      <4>1. Calm
        BY <1>2, <3>4, <4>2, <4>3, <4>4 DEF ThreadStep, Process
      <4> QED
        BY <1>j, <2>2, <2>4, <4>1 DEF GroundsAt, StepOf, AttemptOf, MayRetry
    <3> QED
      BY <3>1, <3>2, <3>3, <3>4
  <2> QED
    BY <2>3, <2>4
<1>3. ASSUME NEW i \in Instances, Stop(i)
      PROVE  GroundsAt(u)'
  BY <1>3, <1>f, <1>j DEF Stop, GroundsOK, GroundsAt, Cancelled, StepOf, AttemptOf,
     MayRetry, TypeOK
<1>4. ASSUME NEW i \in Instances, StopDone(i) \/ Crash(i) \/ Restart(i)
      PROVE  GroundsAt(u)'
  <2>1. CASE HostOf[u] = i
    <3>1. pc'[u] \in Resting
      BY <1>4, <2>1 DEF StopDone, Crash, Restart, Start, Resting
    <3> QED
      BY <3>1 DEF GroundsAt, Resting
  <2>2. CASE HostOf[u] # i
    <3>1. /\ pc'[u] = pc[u] /\ job'[u] = job[u]
          /\ inst'[HostOf[u]] = inst[HostOf[u]]
      BY <1>4, <2>2 DEF StopDone, Crash, Restart, TypeOK
    <3> QED
      BY <1>f, <1>j, <3>1 DEF GroundsOK, GroundsAt, Cancelled, StepOf, AttemptOf, MayRetry
  <2> QED
    BY <2>1, <2>2
<1>5. ASSUME NEW i \in Instances, Handlers(i)
      PROVE  UNCHANGED <<pc, job, inst>>
  BY <1>5 DEF Handlers, CreateInsert, CreateEnqueue, CancelRead, CancelWrite
<1>6. ASSUME NEW id \in pel, Age(id)
      PROVE  UNCHANGED <<pc, job, inst>>
  BY <1>6 DEF Age
<1>7. CASE UNCHANGED vars
  BY <1>1, <1>7 DEF vars
<1> QED
  BY <1>1, <1>2, <1>3, <1>4, <1>5, <1>6, <1>7 DEF Next, Lifetime

(* Who may write a verdict. *)
LEMMA VerdictStep ==
  ASSUME IInv, [Next]_vars, NEW r \in Runs, status'[r] # status[r]
  PROVE  /\ status'[r] = "completed" =>
              \E t \in Threads : CompleteRun(t) /\ ~Cancelled(t) /\ RunOf(t) = r
         /\ status'[r] = "failed" =>
              \E t \in Threads : MarkRunFailed(t) /\ ~Cancelled(t) /\ RunOf(t) = r
<1> USE DEF IInv, db, redis, local, work, http, ghost, At
<1>1. ASSUME NEW t \in Threads, ThreadStep(t), ~CompleteRun(t), ~MarkRunFailed(t)
      PROVE  UNCHANGED status \/ status'[r] = "running"
  BY <1>1 DEF ThreadStep, ReadGroup, Exit, Recover, Scan, ScanDone, Claim,
     IdempotencyCheck, Process, FetchStatus, Drop, FetchStep, SetRunning,
     PublishRunning, ReadContext, PublishStarted, Execute, InsertExec, Ack,
     PublishStepCompleted, SaveContext, CountSteps, EnqueueNext,
     PublishRunCompleted, PublishStepFailed, FetchPolicy, Backoff, Recheck,
     EnqueueRetry, PublishAborted, PublishRunFailed, Publish, PublishLast, TypeOK
<1>2. ASSUME NEW t \in Threads, CompleteRun(t)
      PROVE  ~Cancelled(t) /\ RunOf(t) = r /\ status'[r] = "completed"
  BY <1>2 DEF CompleteRun, Works, Faulty, TypeOK
<1>3. ASSUME NEW t \in Threads, MarkRunFailed(t)
      PROVE  ~Cancelled(t) /\ RunOf(t) = r /\ status'[r] = "failed"
  BY <1>3 DEF MarkRunFailed, Works, Faulty, TypeOK
<1>4. ASSUME NEW i \in Instances, Handlers(i) \/ Lifetime(i)
      PROVE  status'[r] \in {"pending", "cancelled"}
  BY <1>4 DEF Handlers, CreateInsert, CreateEnqueue, CancelRead, CancelWrite,
     Lifetime, Stop, StopDone, Crash, Restart, TypeOK
<1>5. ASSUME NEW id \in pel, Age(id)
      PROVE  FALSE
  BY <1>5 DEF Age
<1>6. ~UNCHANGED vars
  BY DEF vars
<1> QED
  BY <1>1, <1>2, <1>3, <1>4, <1>5, <1>6 DEF Next

LEMMA VerdictsKept ==
  ASSUME IInv, BudgetOK, GroundsOK, StepOrder, VerdictsEarned, [Next]_vars
  PROVE  VerdictsEarned'
<1> USE DEF IInv
<1> SUFFICES ASSUME Before({"fault"})'
             PROVE  CompletedRanAll' /\ FailedExhausted'
  BY DEF VerdictsEarned
<1>f. Before({"fault"})
  BY BudgetStep
<1>g. /\ Ids \subseteq Ids' /\ effects \subseteq effects'
      /\ \A id \in Ids : stream'[id] = stream[id]
  BY StreamStep DEF Ids
<1>1. ASSUME NEW r \in Runs, status'[r] = "completed", NEW s \in Steps
      PROVE  \E id \in Ids : Of(id, r, s) /\ Had(id, "completed")
  <2>1. CASE status[r] = "completed"
    BY <1>f, <2>1 DEF VerdictsEarned, CompletedRanAll
  <2>2. CASE status[r] # "completed"
    <3>1. PICK t \in Threads : CompleteRun(t) /\ ~Cancelled(t) /\ RunOf(t) = r
      BY <1>1, <2>2, VerdictStep
    <3>2. pc[t] = "complete_run"
      BY <3>1 DEF CompleteRun, At
    <3>3. job[t] \in Ids /\ StepOf(t) \in Steps
      BY <3>2, JobLemma DEF Acked
    <3>4. Had(job[t], "completed")
      BY <3>2 DEF JobsOK, JobAt, Executed, Success
    <3>5. StepOf(t) = NumSteps - 1
      BY <1>f, <3>1, <3>2 DEF GroundsOK, GroundsAt
    <3>6. CASE s = NumSteps - 1
      BY <3>1, <3>3, <3>4, <3>5, <3>6 DEF Of, RunOf, StepOf
    <3>7. CASE s # NumSteps - 1
      <4>1. s \in 0 .. StepOf(t) - 1
        BY <3>5, <3>7 DEF Steps
      <4>2. PICK p \in 1 .. job[t] - 1 : Of(p, r, s) /\ Had(p, "completed")
        BY <3>1, <3>3, <4>1 DEF StepOrder, RunOf, StepOf
      <4>3. p \in Ids
        BY <3>3, LenProperties DEF TypeOK, Ids
      <4> QED
        BY <4>2, <4>3
    <3> QED
      BY <3>6, <3>7
  <2> QED
    BY <2>1, <2>2
<1>2. CompletedRanAll'
  <2> SUFFICES ASSUME NEW r \in Runs, status'[r] = "completed", NEW s \in Steps
               PROVE  \E id \in Ids' : Of(id, r, s)' /\ Had(id, "completed")'
    BY DEF CompletedRanAll
  <2>1. PICK id \in Ids : Of(id, r, s) /\ Had(id, "completed")
    BY <1>1
  <2>2. id \in Ids' /\ Of(id, r, s)' /\ Had(id, "completed")'
    BY <2>1, <1>g DEF Of, Had
  <2> QED
    BY <2>2
<1>3. ASSUME NEW r \in Runs, status'[r] = "failed"
      PROVE  \E id \in Ids : /\ stream[id].run = r
                             /\ stream[id].attempt = AttemptLimit
                             /\ Had(id, "failed")
  <2>1. CASE status[r] = "failed"
    BY <1>f, <2>1 DEF VerdictsEarned, FailedExhausted
  <2>2. CASE status[r] # "failed"
    <3>1. PICK t \in Threads : MarkRunFailed(t) /\ ~Cancelled(t) /\ RunOf(t) = r
      BY <1>3, <2>2, VerdictStep
    <3>2. pc[t] = "fail_run"
      BY <1>f, <3>1 DEF MarkRunFailed, At, GroundsOK, GroundsAt
    <3>3. job[t] \in Ids /\ AttemptOf(t) \in Attempts
      BY <3>2, JobLemma DEF Acked
    <3>4. Had(job[t], "failed")
      BY <3>2 DEF JobsOK, JobAt, Executed, Failure
    <3>5. ~MayRetry(AttemptOf(t))
      BY <1>f, <3>1, <3>2 DEF GroundsOK, GroundsAt
    <3>6. AttemptOf(t) = AttemptLimit
      BY <3>3, <3>5 DEF MayRetry, Attempts, AttemptLimit, EffectiveRetries
    <3> QED
      BY <3>1, <3>3, <3>4, <3>6 DEF RunOf, AttemptOf
  <2> QED
    BY <2>1, <2>2
<1>4. FailedExhausted'
  BY <1>3, <1>g DEF FailedExhausted, Had
<1> QED
  BY <1>2, <1>4

(* Verdicts are earned: until a call fails, a run is completed only when   *)
(* every step succeeded and failed only when a step used up its attempts,  *)
(* for any number of servers, goroutines, runs, steps and retries.         *)
THEOREM VerdictsAreEarned == Spec => []VerdictsEarned
<1>1. Init => BudgetOK /\ GroundsOK /\ StepOrder /\ VerdictsEarned
  <2> SUFFICES ASSUME Init
               PROVE  BudgetOK /\ GroundsOK /\ StepOrder /\ VerdictsEarned
    OBVIOUS
  <2>1. BudgetOK
    BY DEF Init, BudgetOK
  <2>2. GroundsOK
    BY DEF Init, GroundsOK, GroundsAt, Start
  <2>3. StepOrder
    BY EmptySeq DEF Init, StepOrder, Ids
  <2>4. VerdictsEarned
    BY DEF Init, VerdictsEarned, CompletedRanAll, FailedExhausted, Missing
  <2> QED
    BY <2>1, <2>2, <2>3, <2>4
<1>2. IInv /\ BudgetOK /\ GroundsOK /\ StepOrder /\ VerdictsEarned /\ [Next]_vars
      => (BudgetOK /\ GroundsOK /\ StepOrder /\ VerdictsEarned)'
  BY BudgetStep, GroundsStep, StepOrderKept, VerdictsKept
<1> QED
  BY <1>1, <1>2, InductiveInv, PTL DEF Spec
=============================================================================
