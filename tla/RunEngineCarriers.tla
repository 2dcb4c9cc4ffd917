------------------------- MODULE RunEngineCarriers -------------------------
(***************************************************************************)
(* Where a run is: which message or goroutine carries it forward, and what *)
(* follows from there being one at most - nothing is lost, executed twice  *)
(* or given the wrong context, and what was announced stays so.            *)
(*                                                                         *)
(* For every number of runs, steps, retries, servers and goroutines, and   *)
(* however often servers crash, stop and recover each other's messages.    *)
(***************************************************************************)
EXTENDS RunEngineProofs

USE StepsAssumption, RetriesAssumption, ThreadsAssumption, BatchAssumption,
    BudgetAssumption

-----------------------------------------------------------------------------
(* What every step has in common.                                          *)

(* A hazard that has not happened after a step did not happen in it. *)
LEMMA BeforeStep ==
  ASSUME IInv, BudgetOK, [Next]_vars, NEW H \in SUBSET Hazards, Before(H)'
  PROVE  Before(H) /\ \A h \in H : ~Spend(h)
<1> SUFFICES ASSUME NEW h \in H
             PROVE  budget[h] = Budget[h] /\ ~Spend(h)
  BY DEF Before
<1>1. budget[h] \in Nat /\ Budget[h] \in Nat
  BY DEF IInv, TypeOK
<1>2. budget'[h] <= budget[h] /\ budget[h] <= Budget[h]
  BY BudgetStep DEF BudgetOK
<1>3. budget'[h] = Budget[h]
  BY DEF Before
<1>4. budget[h] = Budget[h]
  BY <1>1, <1>2, <1>3
<1> QED
  BY <1>1, <1>3, <1>4 DEF Spend, IInv, TypeOK

(* The stream only grows, and a message keeps its place. *)
LEMMA StreamKept ==
  ASSUME IInv, [Next]_vars
  PROVE  /\ Len(stream) \in Nat /\ Ids \subseteq Ids'
         /\ \A id \in Ids : stream'[id] = stream[id] /\ stream[id] \in Message
BY StreamStep, MessageLemma DEF IInv, TypeOK, Ids

-----------------------------------------------------------------------------
(* Who holds which entry.                                                  *)

Fresh == Unacked \ {"idem_check", "drop", "ack"}

(* Until an overrun, an entry is in the hands of one goroutine at most,    *)
(* which recovery will not take it from, and one that was checked and not  *)
(* yet inserted is not recorded.                                           *)
HeldAt(t) ==
  pc[t] \in Unacked =>
    /\ job[t] \in pel \ idle
    /\ \A u \in Threads : pc[u] \in Unacked /\ job[u] = job[t] => u = t
    /\ pc[t] \in Fresh => ~Recorded(job[t])
HeldOK == Before({"overrun"}) => \A t \in Threads : HeldAt(t)

(* Only what was delivered is recorded. *)
PastOK == \A e \in execs : e.attempt <= delivered

LEMMA ProcessHeld ==
  ASSUME IInv, HeldOK, PastOK, Before({"overrun"}), NEW t \in Threads, Process(t)
  PROVE  PastOK' /\ \A a \in Threads : HeldAt(a)'
<1> USE DEF IInv, TypeOK, db, redis, work, local, http, ghost, At, Goto, Finish,
        Works, Faulty, HeldOK, HeldAt, PastOK, Unacked, Fresh, Recorded
<1> SUFFICES ASSUME NEW a \in Threads
             PROVE  PastOK' /\ HeldAt(a)'
  OBVIOUS
<1>1. CASE PublishRunning(t) \/ PublishStarted(t) \/ PublishStepCompleted(t)
           \/ PublishRunCompleted(t) \/ PublishStepFailed(t)
           \/ PublishAborted(t) \/ PublishRunFailed(t)
  BY <1>1 DEF PublishRunning, PublishStarted, PublishStepCompleted,
     PublishRunCompleted, PublishStepFailed, PublishAborted, PublishRunFailed,
     Publish, PublishLast
<1>2. CASE FetchStatus(t) \/ FetchStep(t) \/ SetRunning(t) \/ ReadContext(t)
           \/ Execute(t)
  BY <1>2 DEF FetchStatus, FetchStep, SetRunning, ReadContext, Execute
<1>3. CASE Drop(t)
  BY <1>3 DEF Drop
<1>4. CASE InsertExec(t)
  BY <1>4 DEF InsertExec
<1>5. CASE Ack(t)
  BY <1>5 DEF Ack, AfterAck
<1>6. CASE SaveContext(t) \/ CountSteps(t) \/ EnqueueNext(t) \/ CompleteRun(t)
           \/ MarkRunFailed(t)
  BY <1>6 DEF SaveContext, CountSteps, EnqueueNext, CompleteRun, MarkRunFailed
<1>7. CASE FetchPolicy(t) \/ Backoff(t) \/ Recheck(t) \/ EnqueueRetry(t)
  BY <1>7 DEF FetchPolicy, Backoff, Recheck, EnqueueRetry
<1> QED
  BY <1>1, <1>2, <1>3, <1>4, <1>5, <1>6, <1>7 DEF Process

LEMMA PastStep ==
  ASSUME IInv, PastOK, [Next]_vars
  PROVE  PastOK'
<1> USE DEF IInv, TypeOK, db, redis, work, local, http, ghost, PastOK
<1>1. ASSUME NEW t \in Threads, InsertExec(t)
      PROVE  PastOK'
  BY <1>1 DEF InsertExec
<1>2. ASSUME NEW t \in Threads, ThreadStep(t), ~InsertExec(t)
      PROVE  execs' = execs /\ delivered' >= delivered
  BY <1>2 DEF ThreadStep, ReadGroup, Exit, Recover, Scan, ScanDone, Claim,
     IdempotencyCheck, Process, FetchStatus, Drop, FetchStep, SetRunning,
     PublishRunning, ReadContext, PublishStarted, Execute, Ack,
     PublishStepCompleted, SaveContext, CountSteps, EnqueueNext, CompleteRun,
     PublishRunCompleted, PublishStepFailed, FetchPolicy, Backoff, Recheck,
     EnqueueRetry, MarkRunFailed, PublishAborted, PublishRunFailed, Publish,
     PublishLast
<1>3. ASSUME NEW i \in Instances, Handlers(i) \/ Lifetime(i)
      PROVE  UNCHANGED <<execs, delivered>>
  BY <1>3 DEF Handlers, CreateInsert, CreateEnqueue, CancelRead, CancelWrite,
     Lifetime, Stop, StopDone, Crash, Restart
<1>4. ASSUME NEW id \in pel, Age(id)
      PROVE  UNCHANGED <<execs, delivered>>
  BY <1>4 DEF Age
<1>5. ASSUME UNCHANGED vars
      PROVE  UNCHANGED <<execs, delivered>>
  BY <1>5 DEF vars
<1>6. ASSUME execs' = execs, delivered' >= delivered
      PROVE  PastOK'
  <2>1. /\ delivered \in Nat /\ delivered' \in Nat
        /\ \A e \in execs : e.attempt \in Nat
    BY TypingStep, LenProperties
  <2> QED
    BY <1>6, <2>1
<1>7. delivered \in Int
  BY LenProperties
<1> HIDE DEF IInv, TypeOK, PastOK
<1>8. (\E t \in Threads : InsertExec(t)) \/ (execs' = execs /\ delivered' >= delivered)
  BY <1>2, <1>3, <1>4, <1>5, <1>7 DEF Next
<1> QED
  BY <1>1, <1>6, <1>8

LEMMA HeldStep ==
  ASSUME IInv, BudgetOK, HeldOK, PastOK, [Next]_vars
  PROVE  HeldOK' /\ PastOK'
<1> USE DEF IInv, TypeOK, db, redis, work, local, http, ghost, At, Goto, Finish,
        Works, Faulty, HeldOK, HeldAt, PastOK, Unacked, Fresh, Recorded
<1>p. PastOK'
  BY PastStep
<1> SUFFICES ASSUME Before({"overrun"})', NEW a \in Threads
             PROVE  HeldAt(a)'
  BY <1>p
<1>b. Before({"overrun"}) /\ ~Spend("overrun")
  BY BeforeStep DEF Hazards
<1>1. ASSUME NEW t \in Threads, ReadGroup(t)
      PROVE  HeldAt(a)'
  BY <1>1, <1>b DEF ReadGroup
<1>2. ASSUME NEW t \in Threads, Recover(t) \/ Exit(t)
      PROVE  HeldAt(a)'
  BY <1>2, <1>b DEF Recover, Scan, ScanDone, Claim, Claimable, IdempotencyCheck,
     AfterCheck, Exit
<1>3. ASSUME NEW id \in pel, Age(id)
      PROVE  HeldAt(a)'
  BY <1>3, <1>b DEF Age, Orphan, Holds
<1>4. ASSUME NEW i \in Instances, Handlers(i)
      PROVE  HeldAt(a)'
  BY <1>4, <1>b DEF Handlers, CreateInsert, CreateEnqueue, CancelRead, CancelWrite
<1>5. ASSUME NEW i \in Instances, Lifetime(i)
      PROVE  HeldAt(a)'
  <2>1. CASE Stop(i) \/ StopDone(i)
    BY <2>1, <1>b DEF Stop, StopDone
  <2>2. CASE Crash(i)
    BY <2>2, <1>b DEF Crash
  <2>3. CASE Restart(i)
    BY <2>3, <1>b DEF Restart, Start
  <2> QED
    BY <1>5, <2>1, <2>2, <2>3 DEF Lifetime
<1>6. CASE UNCHANGED vars
  BY <1>6, <1>b DEF vars
<1> QED
  BY <1>b, <1>1, <1>2, <1>3, <1>4, <1>5, <1>6, ProcessHeld DEF Next, ThreadStep

-----------------------------------------------------------------------------
(* Goroutines of running pools, while no call fails.                       *)

(* What is recorded stays recorded. *)
LEMMA RecordsKept ==
  ASSUME [Next]_vars
  PROVE  execs \subseteq execs' /\ \A id : Recorded(id) => Recorded(id)'
<1> USE DEF db
<1>1. execs \subseteq execs'
  BY DEF Next, ThreadStep, ReadGroup, Exit, Recover, Scan, ScanDone, Claim,
     IdempotencyCheck, Process, FetchStatus, Drop, FetchStep, SetRunning,
     PublishRunning, ReadContext, PublishStarted, Execute, InsertExec, Ack,
     PublishStepCompleted, SaveContext, CountSteps, EnqueueNext, CompleteRun,
     PublishRunCompleted, PublishStepFailed, FetchPolicy, Backoff, Recheck,
     EnqueueRetry, MarkRunFailed, PublishAborted, PublishRunFailed, Publish,
     PublishLast, Age, Handlers, CreateInsert, CreateEnqueue, CancelRead,
     CancelWrite, Lifetime, Stop, StopDone, Crash, Restart, vars
<1> QED
  BY <1>1 DEF Recorded

(* A goroutine of a running pool with a message in hand was in a running   *)
(* pool before the step; it made the step, or did not move.                *)
LEMMA LiveStep ==
  ASSUME IInv, [Next]_vars, NEW u \in Threads, ~Cancelled(u)',
         pc'[u] \in Unacked \cup Acked
  PROVE  /\ ~Cancelled(u)
         /\ \/ ThreadStep(u)
            \/ UNCHANGED <<pc[u], job[u], input[u], outcome[u]>>
<1> USE DEF IInv, TypeOK, work, local, Cancelled
<1>1. ASSUME NEW t \in Threads, ThreadStep(t)
      PROVE  /\ inst' = inst
             /\ t # u => UNCHANGED <<pc[u], job[u], outcome[u]>>
             /\ t # u => UNCHANGED input[u]
  <2>1. t # u => UNCHANGED input[u]
    BY <1>1 DEF ThreadStep, ReadGroup, Exit, Recover, Scan, ScanDone, Claim,
       IdempotencyCheck, Process, FetchStatus, Drop, FetchStep, SetRunning,
       PublishRunning, ReadContext, PublishStarted, Execute, InsertExec, Ack,
       PublishStepCompleted, SaveContext, CountSteps, EnqueueNext, CompleteRun,
       PublishRunCompleted, PublishStepFailed, FetchPolicy, Backoff, Recheck,
       EnqueueRetry, MarkRunFailed, PublishAborted, PublishRunFailed, Publish,
       PublishLast, Finish
  <2> QED
    BY <1>1, <2>1, ThreadFrame
<1>2. ASSUME NEW i \in Instances, Handlers(i)
      PROVE  UNCHANGED <<inst, pc, job, input, outcome>>
  BY <1>2 DEF Handlers, CreateInsert, CreateEnqueue, CancelRead, CancelWrite
<1>3. ASSUME NEW id \in pel, Age(id)
      PROVE  UNCHANGED <<inst, pc, job, input, outcome>>
  BY <1>3 DEF Age
<1>4. ASSUME NEW i \in Instances, Lifetime(i)
      PROVE  ~Cancelled(u) /\ UNCHANGED <<pc[u], job[u], input[u], outcome[u]>>
  <2>1. CASE Stop(i)
    BY <2>1 DEF Stop
  <2>2. CASE StopDone(i)
    BY <2>2 DEF StopDone, At, Unacked, Acked
  <2>3. CASE Crash(i)
    BY <2>3 DEF Crash, Unacked, Acked
  <2>4. CASE Restart(i)
    BY <2>4 DEF Restart, Start, Unacked, Acked
  <2> QED
    BY <1>4, <2>1, <2>2, <2>3, <2>4 DEF Lifetime
<1> QED
  BY <1>1, <1>2, <1>3, <1>4 DEF Next, vars

(* Until a call fails, such a goroutine has recorded what it acknowledged, *)
(* and no step was without a definition.                                   *)
AckedAt(t) ==
  /\ pc[t] \in Acked \cup {"ack"} => Recorded(job[t])
  /\ pc[t] \notin {"abort_run", "pub_aborted"}
AckedOK == Before({"fault"}) => \A t \in Threads : ~Cancelled(t) => AckedAt(t)

LEMMA AckedStep ==
  ASSUME IInv, BudgetOK, AckedOK, [Next]_vars
  PROVE  AckedOK'
<1> SUFFICES ASSUME Before({"fault"})', NEW t \in Threads, ~Cancelled(t)'
             PROVE  AckedAt(t)'
  BY DEF AckedOK
<1>b. Before({"fault"}) /\ ~Spend("fault")
  BY BeforeStep DEF Hazards
<1>r. \A id : Recorded(id) => Recorded(id)'
  BY RecordsKept
<1>1. CASE pc'[t] \notin Unacked \cup Acked
  BY <1>1 DEF AckedAt, Unacked, Acked
<1>2. CASE pc'[t] \in Unacked \cup Acked
  <2>1. ~Cancelled(t) /\ AckedAt(t)
    BY <1>2, <1>b, LiveStep DEF AckedOK
  <2>2. CASE UNCHANGED <<pc[t], job[t]>>
    BY <2>1, <2>2, <1>r DEF AckedAt
  <2>3. CASE ThreadStep(t)
    <3> USE DEF IInv, TypeOK, db, work, local, At, Goto, Finish, Works, Faulty, AckedAt,
           Unacked, Acked
    <3>1. CASE ReadGroup(t) \/ Recover(t) \/ Exit(t)
      BY <1>b, <1>r, <2>1, <3>1 DEF ReadGroup, Exit, Recover, Scan, ScanDone, Claim,
         IdempotencyCheck, AfterCheck
    <3>2. CASE InsertExec(t)
      <4>1. pc'[t] = "ack" /\ job'[t] = job[t]
        BY <3>2 DEF InsertExec
      <4>2. \/ Recorded(job[t])
            \/ [attempt |-> job[t], status |-> outcome[t]] \in execs'
        BY <1>b, <2>1, <3>2 DEF InsertExec
      <4>3. Recorded(job[t])'
        BY <1>r, <4>1, <4>2 DEF Recorded
      <4> QED
        BY <4>1, <4>3
    <3>3. CASE PublishRunning(t) \/ PublishStarted(t) \/ PublishStepCompleted(t)
               \/ PublishRunCompleted(t) \/ PublishStepFailed(t)
               \/ PublishAborted(t) \/ PublishRunFailed(t)
      BY <1>b, <1>r, <2>1, <3>3 DEF PublishRunning, PublishStarted,
         PublishStepCompleted, PublishRunCompleted, PublishStepFailed,
         PublishAborted, PublishRunFailed, Publish, PublishLast
    <3>4. CASE FetchStatus(t) \/ Drop(t) \/ FetchStep(t) \/ SetRunning(t)
               \/ ReadContext(t) \/ Execute(t)
      BY <1>b, <1>r, <2>1, <3>4 DEF FetchStatus, Drop, FetchStep, SetRunning,
         ReadContext, Execute
    <3>5. CASE Ack(t) \/ SaveContext(t) \/ CountSteps(t) \/ EnqueueNext(t)
               \/ CompleteRun(t) \/ MarkRunFailed(t)
      BY <1>b, <1>r, <2>1, <3>5 DEF Ack, AfterAck, SaveContext, CountSteps,
         EnqueueNext, CompleteRun, MarkRunFailed
    <3>6. CASE FetchPolicy(t) \/ Backoff(t) \/ Recheck(t) \/ EnqueueRetry(t)
      BY <1>b, <1>r, <2>1, <3>6 DEF FetchPolicy, Backoff, Recheck, EnqueueRetry
    <3> QED
      BY <2>3, <3>1, <3>2, <3>3, <3>4, <3>5, <3>6 DEF ThreadStep, Process
  <2> QED
    BY <1>2, <2>2, <2>3, LiveStep
<1> QED
  BY <1>1, <1>2

-----------------------------------------------------------------------------
(* New messages and the runs they belong to.                               *)

(* How a step adds a message m to the stream. *)
FirstOf(m)   == \E r \in Runs : /\ creating[r] # NoInstance
                                /\ creating' = [creating EXCEPT ![r] = NoInstance]
                                /\ UNCHANGED <<pc, job>>
                                /\ m = [run |-> r, step |-> 0, attempt |-> 1]
FollowOf(m)  == \E t \in Threads :
                  /\ ~Cancelled(t) /\ pc[t] \in {"enqueue_next", "enqueue_retry"}
                  /\ job[t] \in Ids /\ Finish(t) /\ UNCHANGED creating
                  /\ m.run = RunOf(t)
                  /\ m.step = IF pc[t] = "enqueue_next" THEN StepOf(t) + 1 ELSE StepOf(t)

LEMMA NewMessage ==
  ASSUME IInv, [Next]_vars
  PROVE  \/ stream' = stream
         \/ /\ Len(stream') = Len(stream) + 1
            /\ \A id \in Ids : stream'[id] = stream[id]
            /\ FirstOf(stream'[Len(stream) + 1]) \/ FollowOf(stream'[Len(stream) + 1])
            /\ UNCHANGED <<db, delivered, pel, idle, inst, ghost>>
<1> USE DEF IInv, http, local, work, At
<1>1. ASSUME NEW i \in Instances, NEW r \in Runs, CreateEnqueue(i, r), Enqueue(r, 0, 1)
      PROVE  /\ Len(stream') = Len(stream) + 1
             /\ \A id \in Ids : stream'[id] = stream[id]
             /\ FirstOf(stream'[Len(stream) + 1])
  <2>1. 0 \in Steps /\ 1 \in Attempts
    BY DEF Steps, Attempts, AttemptLimit, EffectiveRetries
  <2>2. /\ Len(stream') = Len(stream) + 1
        /\ \A id \in Ids : stream'[id] = stream[id]
        /\ stream'[Len(stream) + 1] = [run |-> r, step |-> 0, attempt |-> 1]
    BY <1>1, <2>1, EnqueueLemma DEF TypeOK, Ids
  <2>3. creating[r] # NoInstance
    BY <1>1, InstanceAssumption DEF CreateEnqueue
  <2>4. creating' = [creating EXCEPT ![r] = NoInstance] /\ UNCHANGED <<pc, job>>
    BY <1>1 DEF CreateEnqueue
  <2> QED
    BY <2>2, <2>3, <2>4 DEF FirstOf
<1>2. ASSUME NEW t \in Threads, EnqueueNext(t), Enqueue(RunOf(t), StepOf(t) + 1, 1), Works(t)
      PROVE  /\ Len(stream') = Len(stream) + 1
             /\ \A id \in Ids : stream'[id] = stream[id]
             /\ FollowOf(stream'[Len(stream) + 1])
  <2>1. /\ job[t] \in Ids /\ RunOf(t) \in Runs /\ StepOf(t) \in Steps
    BY <1>2, JobLemma DEF EnqueueNext, Acked
  <2>2. StepOf(t) + 1 < NumSteps
    BY <1>2 DEF EnqueueNext, JobsOK, JobAt, StepOf
  <2>3. StepOf(t) + 1 \in Steps /\ 1 \in Attempts
    BY <2>1, <2>2 DEF Steps, Attempts, AttemptLimit, EffectiveRetries
  <2>4. /\ Len(stream') = Len(stream) + 1
        /\ \A id \in Ids : stream'[id] = stream[id]
        /\ stream'[Len(stream) + 1] = [run |-> RunOf(t), step |-> StepOf(t) + 1, attempt |-> 1]
    BY <1>2, <2>1, <2>3, EnqueueLemma DEF TypeOK, Ids
  <2>5. /\ ~Cancelled(t) /\ pc[t] = "enqueue_next" /\ Finish(t) /\ UNCHANGED creating
    BY <1>2 DEF EnqueueNext, Works
  <2> QED
    BY <2>1, <2>4, <2>5 DEF FollowOf
<1>3. ASSUME NEW t \in Threads, EnqueueRetry(t), Works(t),
             Enqueue(RunOf(t), StepOf(t), AttemptOf(t) + 1)
      PROVE  /\ Len(stream') = Len(stream) + 1
             /\ \A id \in Ids : stream'[id] = stream[id]
             /\ FollowOf(stream'[Len(stream) + 1])
  <2>1. /\ job[t] \in Ids /\ RunOf(t) \in Runs
        /\ StepOf(t) \in Steps /\ AttemptOf(t) \in Attempts
    BY <1>3, JobLemma DEF EnqueueRetry, Acked
  <2>2. MayRetry(AttemptOf(t))
    BY <1>3 DEF EnqueueRetry, JobsOK, JobAt, AttemptOf
  <2>3. AttemptOf(t) + 1 \in Attempts
    BY <2>1, <2>2, RetryInLimit
  <2>4. /\ Len(stream') = Len(stream) + 1
        /\ \A id \in Ids : stream'[id] = stream[id]
        /\ stream'[Len(stream) + 1]
             = [run |-> RunOf(t), step |-> StepOf(t), attempt |-> AttemptOf(t) + 1]
    BY <1>3, <2>1, <2>3, EnqueueLemma DEF TypeOK, Ids
  <2>5. /\ ~Cancelled(t) /\ pc[t] = "enqueue_retry" /\ Finish(t) /\ UNCHANGED creating
    BY <1>3 DEF EnqueueRetry, Works
  <2> QED
    BY <2>1, <2>4, <2>5 DEF FollowOf
<1>4. CASE stream' # stream
  <2>1. \/ \E t \in Threads : EnqueueNext(t) \/ EnqueueRetry(t)
        \/ \E i \in Instances, r \in Runs : CreateEnqueue(i, r)
    BY <1>4 DEF Next, ThreadStep, ReadGroup, Exit, Recover, Scan, ScanDone, Claim,
       IdempotencyCheck, Process, FetchStatus, Drop, FetchStep, SetRunning,
       PublishRunning, ReadContext, PublishStarted, Execute, InsertExec, Ack,
       PublishStepCompleted, SaveContext, CountSteps, CompleteRun,
       PublishRunCompleted, PublishStepFailed, FetchPolicy, Backoff, Recheck,
       MarkRunFailed, PublishAborted, PublishRunFailed, Publish, PublishLast,
       Age, Handlers, CreateInsert, CancelRead, CancelWrite, Lifetime, Stop,
       StopDone, Crash, Restart, vars, redis
  <2>2. ASSUME NEW t \in Threads, EnqueueNext(t) \/ EnqueueRetry(t)
        PROVE  /\ Works(t)
               /\ \/ EnqueueNext(t) /\ Enqueue(RunOf(t), StepOf(t) + 1, 1)
                  \/ EnqueueRetry(t) /\ Enqueue(RunOf(t), StepOf(t), AttemptOf(t) + 1)
               /\ UNCHANGED <<db, delivered, pel, idle, inst, ghost>>
    BY <1>4, <2>2 DEF EnqueueNext, EnqueueRetry
  <2>3. ASSUME NEW i \in Instances, NEW r \in Runs, CreateEnqueue(i, r)
        PROVE  Enqueue(r, 0, 1) /\ UNCHANGED <<db, delivered, pel, idle, inst, ghost>>
    BY <1>4, <2>3 DEF CreateEnqueue
  <2> QED
    BY <1>1, <1>2, <1>3, <2>1, <2>2, <2>3
<1> QED
  BY <1>4

(* A run without a row has nothing else either, and a run that has a       *)
(* message is not about to be given its first one.                         *)
UnbornOK ==
  /\ \A r \in Runs : status[r] = Missing \/ creating[r] # NoInstance => context[r] = 0
  /\ \A r \in Runs : status[r] = Missing => creating[r] = NoInstance
  /\ \A id \in Ids : /\ status[stream[id].run] # Missing
                     /\ creating[stream[id].run] = NoInstance

(* Who writes a run's context, and how it gets its first handler. *)
LEMMA RowStep ==
  ASSUME IInv, [Next]_vars, NEW r \in Runs
  PROVE  /\ status'[r] = Missing => status[r] = Missing
         /\ creating'[r] \notin {creating[r], NoInstance} =>
              /\ status[r] = Missing /\ status'[r] = "pending"
              /\ UNCHANGED <<stream, context>>
         /\ context'[r] # context[r] =>
              \E t \in Threads : /\ SaveContext(t) /\ ~Cancelled(t) /\ job[t] \in Ids
                                 /\ RunOf(t) = r
<1> USE DEF IInv, TypeOK, db, redis, http, Missing
<1>1. ASSUME NEW t \in Threads, ThreadStep(t)
      PROVE  /\ status'[r] = Missing => status[r] = Missing
             /\ UNCHANGED creating
             /\ context'[r] # context[r] => SaveContext(t)
  <2> HIDE DEF TypeOK, IInv
  <2>1. /\ UNCHANGED creating
        /\ SaveContext(t) \/ UNCHANGED context
        /\ SetRunning(t) \/ CompleteRun(t) \/ MarkRunFailed(t) \/ UNCHANGED status
    BY <1>1 DEF ThreadStep, ReadGroup, Exit, Recover, Scan, ScanDone, Claim,
       IdempotencyCheck, Process, FetchStatus, Drop, FetchStep, SetRunning,
       PublishRunning, ReadContext, PublishStarted, Execute, InsertExec, Ack,
       PublishStepCompleted, SaveContext, CountSteps, EnqueueNext, CompleteRun,
       PublishRunCompleted, PublishStepFailed, FetchPolicy, Backoff, Recheck,
       EnqueueRetry, MarkRunFailed, PublishAborted, PublishRunFailed, Publish,
       PublishLast
  <2>2. CASE SetRunning(t) \/ CompleteRun(t) \/ MarkRunFailed(t)
    <3>1. status'[r] \in {status[r], "running", "completed", "failed"}
      BY <2>2 DEF IInv, TypeOK, SetRunning, CompleteRun, MarkRunFailed
    <3> QED
      BY <2>1, <3>1
  <2> QED
    BY <2>1, <2>2
<1>2. ASSUME NEW t \in Threads, SaveContext(t), context'[r] # context[r]
      PROVE  ~Cancelled(t) /\ RunOf(t) = r /\ job[t] \in Ids
  <2>1. pc[t] = "save_context"
    BY <1>2 DEF SaveContext, At
  <2>2. job[t] \in Ids
    BY <2>1, JobLemma DEF Acked
  <2> QED
    BY <1>2, <2>2 DEF SaveContext, Works, Faulty
<1>3. ASSUME NEW i \in Instances, Handlers(i)
      PROVE  /\ status'[r] = Missing => status[r] = Missing
             /\ creating'[r] \notin {creating[r], NoInstance} =>
                  /\ status[r] = Missing /\ status'[r] = "pending"
                  /\ UNCHANGED <<stream, context>>
             /\ UNCHANGED context
  BY <1>3 DEF Handlers, CreateInsert, CreateEnqueue, CancelRead, CancelWrite
<1>4. ASSUME NEW i \in Instances, Lifetime(i)
      PROVE  /\ UNCHANGED <<status, context>>
             /\ creating'[r] \in {creating[r], NoInstance}
  BY <1>4 DEF Lifetime, Stop, StopDone, Crash, Restart
<1>5. ASSUME NEW id \in pel, Age(id)
      PROVE  UNCHANGED <<status, context, creating>>
  BY <1>5 DEF Age
<1>6. ASSUME UNCHANGED vars
      PROVE  UNCHANGED <<status, context, creating>>
  BY <1>6 DEF vars
<1> HIDE DEF TypeOK, IInv
<1> QED
  BY <1>1, <1>2, <1>3, <1>4, <1>5, <1>6 DEF Next

LEMMA UnbornStep ==
  ASSUME IInv, UnbornOK, [Next]_vars
  PROVE  UnbornOK'
<1>1. ASSUME NEW r \in Runs, status'[r] = Missing \/ creating'[r] # NoInstance
      PROVE  context'[r] = 0
  <2>1. status[r] = Missing \/ creating[r] # NoInstance
    BY <1>1, RowStep
  <2>2. \A id \in Ids : stream[id].run # r
    BY <2>1 DEF UnbornOK
  <2>3. context'[r] = context[r]
    BY <2>2, RowStep DEF RunOf
  <2> QED
    BY <2>1, <2>3 DEF UnbornOK
<1>2. ASSUME NEW r \in Runs, status'[r] = Missing
      PROVE  creating'[r] = NoInstance
  BY <1>2, RowStep DEF UnbornOK, Missing
<1>3. ASSUME NEW id \in Ids'
      PROVE  status'[stream'[id].run] # Missing /\ creating'[stream'[id].run] = NoInstance
  <2>1. CASE id \in Ids
    <3>1. stream[id].run \in Runs /\ stream'[id] = stream[id]
      BY <2>1, StreamKept DEF Message
    <3>2. /\ status[stream[id].run] # Missing
          /\ creating[stream[id].run] = NoInstance
      BY <2>1 DEF UnbornOK
    <3> QED
      BY <3>1, <3>2, RowStep
  <2>2. CASE id \notin Ids
    <3>1. /\ id = Len(stream) + 1 /\ UNCHANGED status
          /\ FirstOf(stream'[id]) \/ FollowOf(stream'[id])
      BY <2>2, NewMessage, StreamKept DEF Ids, db
    <3>2. CASE FirstOf(stream'[id])
      BY <3>1, <3>2 DEF FirstOf, UnbornOK, IInv, TypeOK
    <3>3. CASE FollowOf(stream'[id])
      BY <3>1, <3>3 DEF FollowOf, UnbornOK, RunOf
    <3> QED
      BY <3>1, <3>2, <3>3
  <2> QED
    BY <2>1, <2>2
<1> QED
  BY <1>1, <1>2, <1>3 DEF UnbornOK

-----------------------------------------------------------------------------
(* What carries a run: a message still to be executed, or a goroutine of a *)
(* running pool between recording an attempt and what follows from it.     *)

Open(id)   == id \in Ids /\ ~Recorded(id) /\ (id > delivered \/ id \in pel)
Handing(t) == ~Cancelled(t) /\ pc[t] \in Acked \cup {"ack"}
IsLast(id) == \A k \in Ids : stream[k].run = stream[id].run => k <= id
Calm       == Before({"fault", "overrun"})

(* Both are about the last message of the run, and there is one of them.   *)
LastOK == Calm =>
  /\ \A id \in Ids : Open(id) => IsLast(id)
  /\ \A t \in Threads : Handing(t) =>
       /\ IsLast(job[t])
       /\ \A u \in Threads : Handing(u) /\ job[u] = job[t] => u = t

(* The invariants so far; the later ones are about calm behaviours. *)
BaseInv == IInv /\ BudgetOK /\ HeldOK /\ PastOK /\ AckedOK /\ UnbornOK

LEMMA CalmStep ==
  ASSUME BaseInv, [Next]_vars, Calm'
  PROVE  /\ Calm /\ ~Spend("fault") /\ ~Spend("overrun")
         /\ \A t \in Threads : HeldAt(t)
         /\ \A t \in Threads : ~Cancelled(t) => AckedAt(t)
<1>1. Calm /\ ~Spend("fault") /\ ~Spend("overrun")
  BY BeforeStep DEF Calm, Hazards, BaseInv
<1>2. Before({"fault"}) /\ Before({"overrun"})
  BY <1>1 DEF Calm, Before
<1> QED
  BY <1>1, <1>2 DEF BaseInv, HeldOK, AckedOK

(* The pending entries grow by what is delivered only. *)
LEMMA QueueStep ==
  ASSUME IInv, [Next]_vars
  PROVE  /\ delivered \in Nat /\ delivered' \in Nat /\ delivered' >= delivered
         /\ pel' \subseteq pel \cup (delivered + 1) .. delivered'
<1> USE DEF redis
<1>1. \/ UNCHANGED <<delivered, pel>>
      \/ delivered' = delivered /\ pel' \subseteq pel
      \/ delivered' = delivered + 1 /\ pel' = pel \cup {delivered + 1}
  BY DEF Next, ThreadStep, ReadGroup, Exit, Recover, Scan, ScanDone, Claim,
     IdempotencyCheck, Process, FetchStatus, Drop, FetchStep, SetRunning,
     PublishRunning, ReadContext, PublishStarted, Execute, InsertExec, Ack,
     PublishStepCompleted, SaveContext, CountSteps, EnqueueNext, CompleteRun,
     PublishRunCompleted, PublishStepFailed, FetchPolicy, Backoff, Recheck,
     EnqueueRetry, MarkRunFailed, PublishAborted, PublishRunFailed, Publish,
     PublishLast, Age, Handlers, CreateInsert, CreateEnqueue, CancelRead,
     CancelWrite, Lifetime, Stop, StopDone, Crash, Restart, vars
<1>2. delivered \in Nat
  BY LenProperties DEF IInv, TypeOK
<1> QED
  BY <1>1, <1>2

LEMMA OpenStep ==
  ASSUME IInv, [Next]_vars, NEW id \in Ids, Open(id)'
  PROVE  Open(id)
BY QueueStep, RecordsKept DEF Open, Ids

LEMMA HandingStep ==
  ASSUME BaseInv, [Next]_vars, Calm', NEW t \in Threads, Handing(t)'
  PROVE  /\ job'[t] = job[t] /\ job[t] \in Ids /\ ~Cancelled(t)
         /\ \/ Handing(t) /\ Recorded(job[t])
            \/ InsertExec(t) /\ Open(job[t]) /\ pc[t] = "insert_exec"
<1> USE DEF BaseInv
<1>1. pc'[t] \in Unacked \cup Acked
  BY DEF Handing, Unacked
<1>2. ~Cancelled(t) /\ (ThreadStep(t) \/ UNCHANGED <<pc[t], job[t]>>)
  BY <1>1, LiveStep DEF Handing
<1>3. CASE UNCHANGED <<pc[t], job[t]>>
  <2>1. Handing(t)
    BY <1>2, <1>3 DEF Handing
  <2>2. job[t] \in Ids
    BY <2>1, JobLemma DEF Handing, Unacked, IInv
  <2>3. Recorded(job[t])
    BY <2>1, CalmStep DEF Handing, AckedAt
  <2> QED
    BY <1>2, <1>3, <2>1, <2>2, <2>3
<1>4. CASE ThreadStep(t)
  <2>1. \/ InsertExec(t) /\ pc[t] = "insert_exec"
        \/ pc[t] \in Acked \cup {"ack"}
    <3> USE DEF IInv, TypeOK, At, Goto, Finish, Handing, Acked
    <3>1. CASE ReadGroup(t) \/ Recover(t) \/ Exit(t)
      BY <3>1 DEF ReadGroup, Exit, Recover, Scan, ScanDone, Claim,
         IdempotencyCheck, AfterCheck
    <3>2. CASE Process(t)
      BY <3>2 DEF Process, FetchStatus, Drop, FetchStep, SetRunning,
         PublishRunning, ReadContext, PublishStarted, Execute, InsertExec, Ack,
         PublishStepCompleted, SaveContext, CountSteps, EnqueueNext, CompleteRun,
         PublishRunCompleted, PublishStepFailed, FetchPolicy, Backoff, Recheck,
         EnqueueRetry, MarkRunFailed, PublishAborted, PublishRunFailed, Publish,
         PublishLast
    <3> QED
      BY <1>4, <3>1, <3>2 DEF ThreadStep
  <2>2. job'[t] = job[t]
    <3> USE DEF IInv, TypeOK, At, Goto, Finish, Handing, Acked, work
    <3>1. CASE ReadGroup(t) \/ Recover(t) \/ Exit(t)
      BY <3>1 DEF ReadGroup, Exit, Recover, Scan, ScanDone, Claim,
         IdempotencyCheck, AfterCheck
    <3>2. CASE Process(t)
      BY <3>2 DEF Process, FetchStatus, Drop, FetchStep, SetRunning,
         PublishRunning, ReadContext, PublishStarted, Execute, InsertExec, Ack,
         PublishStepCompleted, SaveContext, CountSteps, EnqueueNext, CompleteRun,
         PublishRunCompleted, PublishStepFailed, FetchPolicy, Backoff, Recheck,
         EnqueueRetry, MarkRunFailed, PublishAborted, PublishRunFailed, Publish,
         PublishLast
    <3> QED
      BY <1>4, <3>1, <3>2 DEF ThreadStep
  <2>3. job[t] \in Ids
    BY <2>1, JobLemma DEF Unacked, IInv
  <2>4. CASE InsertExec(t) /\ pc[t] = "insert_exec"
    <3>1. HeldAt(t)
      BY CalmStep
    <3>2. job[t] \in pel /\ ~Recorded(job[t])
      BY <2>4, <3>1 DEF HeldAt, Unacked, Fresh
    <3> QED
      BY <1>2, <2>2, <2>3, <2>4, <3>2 DEF Open
  <2>5. CASE pc[t] \in Acked \cup {"ack"}
    <3>1. Handing(t) /\ Recorded(job[t])
      BY <1>2, <2>5, CalmStep DEF Handing, AckedAt
    <3> QED
      BY <1>2, <2>2, <2>3, <3>1
  <2> QED
    BY <2>1, <2>4, <2>5
<1> QED
  BY <1>2, <1>3, <1>4

(* A new message is the last of its run, and nothing else carries the run. *)
LEMMA NewIsAlone ==
  ASSUME BaseInv, LastOK, [Next]_vars, Calm', NEW n \in Ids' \ Ids
  PROVE  /\ n = Len(stream) + 1 /\ UNCHANGED <<db, inst, ghost>>
         /\ FirstOf(stream'[n]) \/ FollowOf(stream'[n])
         /\ \A k \in Ids : Open(k) => stream[k].run # stream'[n].run
         /\ \A t \in Threads : Handing(t)' => stream[job[t]].run # stream'[n].run
<1> USE DEF BaseInv
<1>1. /\ n = Len(stream) + 1 /\ UNCHANGED <<db, inst, ghost>>
      /\ FirstOf(stream'[n]) \/ FollowOf(stream'[n])
      /\ UNCHANGED execs
  BY NewMessage, StreamKept DEF Ids, db
<1>c. Calm
  BY CalmStep
<1>h. \A t \in Threads : Handing(t)' => /\ job[t] \in Ids /\ Handing(t)
                                        /\ job'[t] = job[t] /\ Recorded(job[t])
  <2>1. \A t \in Threads : InsertExec(t) => stream' = stream
    BY DEF InsertExec, redis
  <2>2. stream' # stream
    BY DEF Ids
  <2> QED
    BY <2>1, <2>2, HandingStep
<1>2. CASE FirstOf(stream'[n])
  <2>1. \A k \in Ids : stream[k].run # stream'[n].run
    BY <1>2 DEF FirstOf, UnbornOK
  <2> QED
    BY <1>1, <1>h, <2>1
<1>3. CASE FollowOf(stream'[n])
  <2>1. PICK t \in Threads : /\ ~Cancelled(t) /\ pc[t] \in Acked
                             /\ job[t] \in Ids /\ Finish(t)
                             /\ stream'[n].run = stream[job[t]].run
    BY <1>3 DEF FollowOf, Acked, RunOf
  <2>2. Handing(t) /\ IsLast(job[t]) /\ Recorded(job[t])
    BY <1>c, <2>1, CalmStep DEF Handing, LastOK, AckedAt
  <2>3. ASSUME NEW k \in Ids, IsLast(k), stream[k].run = stream'[n].run
        PROVE  k = job[t]
    <3>1. k <= job[t] /\ job[t] <= k
      BY <2>1, <2>2, <2>3 DEF IsLast
    <3> QED
      BY <2>1, <3>1 DEF Ids
  <2>4. \A k \in Ids : Open(k) => stream[k].run # stream'[n].run
    BY <1>c, <2>2, <2>3 DEF LastOK, Open
  <2>5. ~Handing(t)'
    BY <2>1 DEF Finish, Goto, Handing, Acked, IInv, TypeOK
  <2>6. ASSUME NEW u \in Threads, Handing(u)', stream[job[u]].run = stream'[n].run
        PROVE  FALSE
    <3>1. Handing(u) /\ job[u] \in Ids /\ IsLast(job[u])
      BY <1>c, <1>h, <2>6 DEF LastOK
    <3>2. job[u] = job[t]
      BY <2>3, <2>6, <3>1
    <3> QED
      BY <1>c, <2>2, <2>5, <2>6, <3>1, <3>2 DEF LastOK
  <2> QED
    BY <1>1, <2>4, <2>6
<1> QED
  BY <1>1, <1>2, <1>3

LEMMA LastStep ==
  ASSUME BaseInv, LastOK, [Next]_vars
  PROVE  LastOK'
<1> SUFFICES ASSUME Calm'
             PROVE  /\ \A id \in Ids' : Open(id)' => IsLast(id)'
                    /\ \A t \in Threads : Handing(t)' =>
                         /\ IsLast(job[t])'
                         /\ \A u \in Threads : Handing(u)' /\ job'[u] = job'[t] => u = t
  BY DEF LastOK
<1> USE DEF BaseInv
<1>c. Calm
  BY CalmStep
<1>s. /\ Len(stream) \in Nat /\ Ids \subseteq Ids'
      /\ \A id \in Ids : stream'[id] = stream[id]
      /\ \A n \in Ids' \ Ids : n = Len(stream) + 1
  BY StreamKept, NewIsAlone
(* A last message stays the last unless one is added for the same run. *)
<1>1. ASSUME NEW id \in Ids, IsLast(id),
             \A n \in Ids' \ Ids : stream[id].run # stream'[n].run
      PROVE  \A k \in Ids' : stream'[k].run = stream'[id].run => k <= id
  BY <1>1, <1>s DEF IsLast
<1>2. ASSUME NEW id \in Ids', Open(id)'
      PROVE  IsLast(id)'
  <2>1. CASE id \in Ids
    <3>1. Open(id) /\ IsLast(id)
      BY <1>c, <1>2, <2>1, OpenStep DEF LastOK
    <3>2. \A n \in Ids' \ Ids : stream[id].run # stream'[n].run
      BY <2>1, <3>1, NewIsAlone
    <3> QED
      BY <1>1, <2>1, <3>1, <3>2 DEF IsLast
  <2>2. CASE id \notin Ids
    <3>1. \A k \in Ids' : k <= id
      BY <1>s, <2>2 DEF Ids
    <3> QED
      BY <3>1 DEF IsLast
  <2> QED
    BY <2>1, <2>2
<1>3. ASSUME NEW t \in Threads, Handing(t)'
      PROVE  IsLast(job[t])'
  <2>1. job'[t] = job[t] /\ job[t] \in Ids /\ IsLast(job[t])
    BY <1>c, <1>3, HandingStep DEF LastOK
  <2>2. \A n \in Ids' \ Ids : stream[job[t]].run # stream'[n].run
    BY <1>3, NewIsAlone
  <2> QED
    BY <1>1, <2>1, <2>2 DEF IsLast
<1>4. ASSUME NEW t \in Threads, Handing(t)', NEW u \in Threads, Handing(u)',
             job'[u] = job'[t]
      PROVE  u = t
  <2>1. job[u] = job[t]
    BY <1>4, HandingStep
  <2>2. CASE Handing(t) /\ Handing(u)
    BY <1>c, <2>1, <2>2 DEF LastOK
  <2>3. CASE pc[t] = "insert_exec" /\ pc[u] = "insert_exec"
    BY <2>1, <2>3, CalmStep DEF HeldAt, Unacked
  <2>4. ~(Open(job[t]) /\ Recorded(job[u])) /\ ~(Open(job[u]) /\ Recorded(job[t]))
    BY <2>1 DEF Open
  <2> QED
    BY <1>4, <2>2, <2>3, <2>4, HandingStep
<1> QED
  BY <1>2, <1>3, <1>4

LEMMA OneCarrierFollows == BaseInv /\ LastOK => OneCarrier
<1> SUFFICES ASSUME BaseInv, LastOK, Calm, NEW r \in Runs,
                    NEW x \in Carriers(r), NEW y \in Carriers(r)
             PROVE  x = y
  BY DEF OneCarrier, Calm
<1> USE DEF BaseInv
<1> DEFINE Maker(z)  == z \in Instances /\ creating[r] = z
           Letter(z) == Open(z) /\ stream[z].run = r
           Worker(z) == z \in Threads /\ Handing(z) /\ RunOf(z) = r
<1>k. \A z \in Carriers(r) : Maker(z) \/ Letter(z) \/ Worker(z)
  BY DEF Carriers, Open, Handing, Busy
<1>1. ASSUME NEW z, Worker(z)
      PROVE  /\ job[z] \in Ids /\ IsLast(job[z]) /\ Recorded(job[z])
             /\ stream[job[z]].run = r
             /\ \A u \in Threads : Handing(u) /\ job[u] = job[z] => u = z
  <2>1. job[z] \in Ids
    BY <1>1, JobLemma DEF Handing, Unacked, IInv
  <2>2. Recorded(job[z])
    <3>1. Before({"fault"})
      BY DEF Calm, Before
    <3> QED
      BY <1>1, <3>1 DEF Handing, AckedOK, AckedAt
  <2> QED
    BY <1>1, <2>1, <2>2 DEF LastOK, RunOf
<1>2. ASSUME NEW z, Letter(z)
      PROVE  z \in Ids /\ IsLast(z) /\ ~Recorded(z) /\ stream[z].run = r
  BY <1>2 DEF Open, LastOK
<1>3. ASSUME NEW k \in Ids, NEW l \in Ids, IsLast(k), IsLast(l),
             stream[k].run = stream[l].run
      PROVE  k = l
  <2>1. k <= l /\ l <= k
    BY <1>3 DEF IsLast
  <2> QED
    BY <2>1 DEF Ids
<1>4. ASSUME NEW z, Maker(z), NEW w, Letter(w) \/ Worker(w)
      PROVE  FALSE
  <2>1. \E id \in Ids : stream[id].run = r
    BY <1>4, <1>1, <1>2
  <2> QED
    BY <1>4, <2>1, InstanceAssumption DEF UnbornOK
<1>5. ASSUME NEW z, Letter(z), NEW w, Worker(w)
      PROVE  FALSE
  <2>1. /\ z \in Ids /\ IsLast(z) /\ ~Recorded(z) /\ stream[z].run = r
    BY <1>2, <1>5
  <2>2. job[w] \in Ids /\ IsLast(job[w]) /\ Recorded(job[w]) /\ stream[job[w]].run = r
    BY <1>1, <1>5
  <2>3. z = job[w]
    BY <2>1, <2>2, <1>3
  <2> QED
    BY <2>1, <2>2, <2>3
<1>6. ASSUME Letter(x), Letter(y)
      PROVE  x = y
  <2>1. /\ x \in Ids /\ IsLast(x) /\ stream[x].run = r
        /\ y \in Ids /\ IsLast(y) /\ stream[y].run = r
    BY <1>2, <1>6
  <2> QED
    BY <2>1, <1>3
<1>7. ASSUME Worker(x), Worker(y)
      PROVE  x = y
  <2>1. /\ job[x] \in Ids /\ IsLast(job[x]) /\ stream[job[x]].run = r
        /\ \A u \in Threads : Handing(u) /\ job[u] = job[x] => u = x
    BY <1>1, <1>7
  <2>2. job[y] \in Ids /\ IsLast(job[y]) /\ stream[job[y]].run = r
    BY <1>1, <1>7
  <2>3. job[y] = job[x]
    BY <2>1, <2>2, <1>3
  <2> QED
    BY <1>7, <2>1, <2>3
<1> HIDE DEF Maker, Letter, Worker
<1>8. (Maker(x) \/ Letter(x) \/ Worker(x)) /\ (Maker(y) \/ Letter(y) \/ Worker(y))
  BY <1>k
<1>9. ASSUME Maker(x), Maker(y)
      PROVE  x = y
  BY <1>9 DEF Maker
<1> QED
  BY <1>4, <1>5, <1>6, <1>7, <1>8, <1>9

-----------------------------------------------------------------------------
(* Runs that are over.                                                     *)

(* Who takes a run out of a terminal status. *)
LEMMA StatusStep ==
  ASSUME IInv, [Next]_vars, NEW r \in Runs, status'[r] # status[r]
  PROVE  \/ status[r] = Missing /\ status'[r] = "pending"
         \/ status'[r] \in Terminal
         \/ \E t \in Threads : /\ SetRunning(t) /\ ~Cancelled(t) /\ RunOf(t) = r
                               /\ status'[r] = "running"
<1> USE DEF db, Terminal, Statuses, Active
<1>1. ASSUME NEW t \in Threads, ThreadStep(t)
      PROVE  SetRunning(t) \/ CompleteRun(t) \/ MarkRunFailed(t)
  BY <1>1 DEF ThreadStep, ReadGroup, Exit, Recover, Scan, ScanDone, Claim,
     IdempotencyCheck, Process, FetchStatus, Drop, FetchStep, SetRunning,
     PublishRunning, ReadContext, PublishStarted, Execute, InsertExec, Ack,
     PublishStepCompleted, SaveContext, CountSteps, EnqueueNext, CompleteRun,
     PublishRunCompleted, PublishStepFailed, FetchPolicy, Backoff, Recheck,
     EnqueueRetry, MarkRunFailed, PublishAborted, PublishRunFailed, Publish,
     PublishLast
<1>2. ASSUME NEW t \in Threads, SetRunning(t)
      PROVE  ~Cancelled(t) /\ RunOf(t) = r /\ status'[r] = "running"
  BY <1>2 DEF SetRunning, Works, Faulty, IInv, TypeOK
<1>3. ASSUME NEW t \in Threads, CompleteRun(t) \/ MarkRunFailed(t)
      PROVE  status'[r] \in {"completed", "failed"}
  BY <1>3 DEF CompleteRun, MarkRunFailed, IInv, TypeOK
<1>4. ASSUME NEW i \in Instances, Handlers(i)
      PROVE  \/ status[r] = Missing /\ status'[r] = "pending"
             \/ status'[r] = "cancelled"
  BY <1>4 DEF Handlers, CreateInsert, CreateEnqueue, CancelRead, CancelWrite,
     IInv, TypeOK
<1>5. ASSUME \/ \E i \in Instances : Lifetime(i)
             \/ \E id \in pel : Age(id)
             \/ UNCHANGED vars
      PROVE  FALSE
  BY <1>5 DEF Lifetime, Stop, StopDone, Crash, Restart, Age, vars
<1> QED
  BY <1>1, <1>2, <1>3, <1>4, <1>5 DEF Next

(* What carries a run is the only thing that can: nobody else of the run   *)
(* is about to write its status.                                           *)
LEMMA RunningIsOpen ==
  ASSUME BaseInv, LastOK, [Next]_vars, Calm', NEW t \in Threads, SetRunning(t)
  PROVE  job[t] \in Ids /\ Open(job[t]) /\ IsLast(job[t]) /\ HeldAt(t)
<1>1. pc[t] = "set_running"
  BY DEF SetRunning, At
<1>2. job[t] \in Ids
  BY <1>1, JobLemma DEF Unacked, BaseInv, IInv
<1>3. HeldAt(t) /\ Calm
  BY CalmStep
<1>4. Open(job[t])
  BY <1>1, <1>2, <1>3 DEF HeldAt, Open, Unacked, Fresh
<1> QED
  BY <1>2, <1>3, <1>4 DEF LastOK

LEMMA LastIsOne ==
  ASSUME NEW k \in Ids, NEW l \in Ids, IsLast(k), IsLast(l),
         stream[k].run = stream[l].run
  PROVE  k = l
<1>1. k <= l /\ l <= k
  BY DEF IsLast
<1> QED
  BY <1>1 DEF Ids

(* A run is over: its status says so, and nothing carries it. *)
Over(r) == /\ status[r] \in Terminal /\ creating[r] = NoInstance
           /\ \A id \in Ids : Open(id) => stream[id].run # r
           /\ \A t \in Threads : Handing(t) => RunOf(t) # r

LEMMA OverStep ==
  ASSUME BaseInv, LastOK, [Next]_vars, Calm', NEW r \in Runs, Over(r)
  PROVE  Over(r)'
<1> USE DEF BaseInv
<1>1. status'[r] \in Terminal
  <2>1. ASSUME NEW t \in Threads, SetRunning(t)
        PROVE  RunOf(t) # r
    BY <2>1, RunningIsOpen DEF Over, RunOf
  <2>2. status[r] # Missing
    BY DEF Over, Terminal, Statuses, Missing
  <2>3. status[r] \in Terminal
    BY DEF Over
  <2> QED
    BY <2>1, <2>2, <2>3, StatusStep
<1>2. creating'[r] = NoInstance
  <2>1. status[r] # Missing /\ creating[r] = NoInstance
    BY DEF Over, Terminal, Statuses, Missing
  <2> QED
    BY <2>1, RowStep
<1>3. ASSUME NEW id \in Ids', Open(id)'
      PROVE  stream'[id].run # r
  <2>1. CASE id \in Ids
    BY <1>3, <2>1, OpenStep, StreamKept DEF Over
  <2>2. CASE id \notin Ids
    <3>1. FirstOf(stream'[id]) \/ FollowOf(stream'[id])
      BY <2>2, NewIsAlone
    <3>2. CASE FirstOf(stream'[id])
      BY <3>2 DEF FirstOf, Over
    <3>3. CASE FollowOf(stream'[id])
      BY <3>3 DEF FollowOf, Over, Handing, Acked
    <3> QED
      BY <3>1, <3>2, <3>3
  <2> QED
    BY <2>1, <2>2
<1>4. ASSUME NEW t \in Threads, Handing(t)'
      PROVE  RunOf(t)' # r
  <2>1. /\ job'[t] = job[t] /\ job[t] \in Ids
        /\ Handing(t) \/ Open(job[t])
    BY <1>4, HandingStep
  <2>2. RunOf(t)' = RunOf(t)
    BY <2>1, StreamKept DEF RunOf
  <2> QED
    BY <2>1, <2>2 DEF Over, RunOf
<1> QED
  BY <1>1, <1>2, <1>3, <1>4 DEF Over

-----------------------------------------------------------------------------
(* Nothing is acknowledged away.                                           *)

(* A goroutine of a running pool drops a message when its attempt is       *)
(* recorded or its run is over.                                            *)
DropAt(t) == pc[t] = "drop" => Recorded(job[t]) \/ status[RunOf(t)] \in Terminal
DropOK    == Calm => \A t \in Threads : ~Cancelled(t) => DropAt(t)

(* What left the pending entries unrecorded belongs to a run that is over. *)
GoneOK == Calm => \A id \in 1 .. delivered :
  id \notin pel /\ ~Recorded(id) => Over(stream[id].run)

LEMMA DropStep ==
  ASSUME BaseInv, LastOK, DropOK, [Next]_vars
  PROVE  DropOK'
<1> SUFFICES ASSUME Calm', NEW t \in Threads, ~Cancelled(t)', pc'[t] = "drop"
             PROVE  Recorded(job[t])' \/ status'[RunOf(t)'] \in Terminal
  BY DEF DropOK, DropAt
<1> USE DEF BaseInv
<1>c. /\ Calm /\ ~Spend("fault") /\ HeldAt(t)
      /\ ~Cancelled(t) => AckedAt(t)
  BY CalmStep
<1>1. ~Cancelled(t) /\ (ThreadStep(t) \/ UNCHANGED <<pc[t], job[t]>>)
  BY LiveStep DEF Unacked
<1>2. CASE UNCHANGED <<pc[t], job[t]>>
  <2>1. job[t] \in Ids /\ RunOf(t) \in Runs
    BY <1>2, JobLemma DEF Unacked, IInv
  <2>2. RunOf(t)' = RunOf(t)
    BY <1>2, <2>1, StreamKept DEF RunOf
  <2>3. Recorded(job[t]) => Recorded(job[t])'
    BY <1>2, RecordsKept
  <2>4. CASE ~Recorded(job[t])
    <3>1. status[RunOf(t)] \in Terminal
      BY <1>1, <1>2, <1>c, <2>4 DEF DropOK, DropAt
    <3>2. Open(job[t]) /\ IsLast(job[t])
      BY <1>2, <1>c, <2>1, <2>4 DEF HeldAt, Open, Unacked, LastOK
    <3>3. ASSUME NEW u \in Threads, SetRunning(u), RunOf(u) = RunOf(t)
          PROVE  FALSE
      <4>1. job[u] = job[t]
        BY <2>1, <3>2, <3>3, RunningIsOpen, LastIsOne DEF RunOf
      <4>2. pc[u] = "set_running"
        BY <3>3 DEF SetRunning, At
      <4> QED
        BY <1>2, <1>c, <4>1, <4>2 DEF HeldAt, Unacked
    <3>4. status[RunOf(t)] # Missing
      BY <3>1 DEF Terminal, Statuses, Missing
    <3> QED
      BY <2>1, <2>2, <3>1, <3>3, <3>4, StatusStep
  <2> QED
    BY <2>3, <2>4
<1>3. CASE ThreadStep(t)
  <2>1. CASE FetchStatus(t)
    <3>1. ~Runnable(RunOf(t)) /\ UNCHANGED <<status, job, stream>>
      BY <1>1, <1>c, <2>1 DEF FetchStatus, Works, Faulty, Goto, IInv, TypeOK, db,
         work, redis
    <3>2. job[t] \in Ids /\ RunOf(t) \in Runs
      BY <2>1, JobLemma DEF FetchStatus, At, Unacked, IInv
    <3>3. status[RunOf(t)] \in Terminal
      BY <3>1, <3>2 DEF Runnable, UnbornOK, RunOf, IInv, TypeOK, Terminal
    <3> QED
      BY <3>1, <3>3 DEF RunOf
  <2>2. CASE IdempotencyCheck(t)
    <3>1. Recorded(job[t]) /\ UNCHANGED <<execs, job>>
      BY <1>1, <1>c, <2>2 DEF IdempotencyCheck, AfterCheck, Works, Faulty, Goto,
         IInv, TypeOK, db, work
    <3> QED
      BY <3>1 DEF Recorded
  <2>3. CASE ~FetchStatus(t) /\ ~IdempotencyCheck(t)
    <3> USE <1>1, <1>c DEF IInv, TypeOK, At, Goto, Finish, AckedAt
    <3>1. CASE ReadGroup(t) \/ Recover(t) \/ Exit(t)
      BY <2>3, <3>1 DEF ReadGroup, Exit, Recover, Scan, ScanDone, Claim, work
    <3>2. CASE Drop(t) \/ FetchStep(t) \/ SetRunning(t) \/ ReadContext(t)
               \/ Execute(t) \/ InsertExec(t)
      BY <3>2 DEF Drop, FetchStep, SetRunning, ReadContext, Execute, InsertExec
    <3>3. CASE PublishRunning(t) \/ PublishStarted(t) \/ PublishStepCompleted(t)
               \/ PublishRunCompleted(t) \/ PublishStepFailed(t)
               \/ PublishAborted(t) \/ PublishRunFailed(t)
      BY <3>3 DEF PublishRunning, PublishStarted,
         PublishStepCompleted, PublishRunCompleted, PublishStepFailed,
         PublishAborted, PublishRunFailed, Publish, PublishLast
    <3>4. CASE Ack(t) \/ SaveContext(t) \/ CountSteps(t) \/ EnqueueNext(t)
               \/ CompleteRun(t) \/ MarkRunFailed(t)
      BY <3>4 DEF Ack, AfterAck, SaveContext, CountSteps, EnqueueNext, CompleteRun,
         MarkRunFailed
    <3>5. CASE FetchPolicy(t) \/ Backoff(t) \/ Recheck(t) \/ EnqueueRetry(t)
      BY <3>5 DEF FetchPolicy, Backoff, Recheck, EnqueueRetry
    <3> QED
      BY <1>3, <2>3, <3>1, <3>2, <3>3, <3>4, <3>5 DEF ThreadStep, Process
  <2> QED
    BY <2>1, <2>2, <2>3
<1> QED
  BY <1>1, <1>2, <1>3

(* Who takes an entry out of the pending entries. *)
LEMMA GoneStep ==
  ASSUME IInv, [Next]_vars, NEW id \in 1 .. delivered', id \notin pel',
         id \in pel \/ id > delivered
  PROVE  \E t \in Threads : /\ Drop(t) \/ Ack(t)
                            /\ Works(t) /\ id = job[t] /\ UNCHANGED delivered
<1> USE DEF redis
<1>0. delivered \in Nat
  BY QueueStep
<1>1. \/ \E t \in Threads : Drop(t) \/ Ack(t) \/ ReadGroup(t)
      \/ UNCHANGED <<delivered, pel>>
  BY DEF Next, ThreadStep, Exit, Recover, Scan, ScanDone, Claim,
     IdempotencyCheck, Process, FetchStatus, FetchStep, SetRunning,
     PublishRunning, ReadContext, PublishStarted, Execute, InsertExec,
     PublishStepCompleted, SaveContext, CountSteps, EnqueueNext, CompleteRun,
     PublishRunCompleted, PublishStepFailed, FetchPolicy, Backoff, Recheck,
     EnqueueRetry, MarkRunFailed, PublishAborted, PublishRunFailed, Publish,
     PublishLast, Age, Handlers, CreateInsert, CreateEnqueue, CancelRead,
     CancelWrite, Lifetime, Stop, StopDone, Crash, Restart, vars
<1>2. ASSUME NEW t \in Threads, ReadGroup(t)
      PROVE  FALSE
  BY <1>0, <1>2 DEF ReadGroup
<1>3. ASSUME NEW t \in Threads, Drop(t) \/ Ack(t)
      PROVE  Works(t) /\ id = job[t] /\ UNCHANGED delivered
  BY <1>0, <1>3 DEF Drop, Ack
<1> QED
  BY <1>0, <1>1, <1>2, <1>3

LEMMA GoneKept ==
  ASSUME BaseInv, LastOK, DropOK, GoneOK, [Next]_vars
  PROVE  GoneOK'
<1> SUFFICES ASSUME Calm', NEW id \in 1 .. delivered', id \notin pel', ~Recorded(id)'
             PROVE  Over(stream[id].run)'
  BY DEF GoneOK
<1> USE DEF BaseInv
<1>c. Calm
  BY CalmStep
<1>n. ~Recorded(id)
  BY RecordsKept
<1>1. CASE id \in 1 .. delivered /\ id \notin pel
  <2>1. id \in Ids
    BY <1>1, StreamKept DEF IInv, TypeOK, Ids
  <2>2. Over(stream[id].run) /\ stream[id].run \in Runs
    BY <1>1, <1>c, <1>n, <2>1, StreamKept DEF GoneOK, Message
  <2>3. PICK r \in Runs : r = stream[id].run
    BY <2>2
  <2>4. Over(r)'
    BY <2>2, <2>3, OverStep
  <2>5. stream'[id].run = stream[id].run
    BY <2>1, StreamKept
  <2> QED
    BY <2>3, <2>4, <2>5 DEF Over
<1>2. CASE id \in pel \/ id > delivered
  <2>1. PICK t \in Threads : /\ Drop(t) \/ Ack(t)
                             /\ Works(t) /\ id = job[t] /\ UNCHANGED delivered
    BY <1>2, GoneStep
  <2>2. Drop(t) /\ pc[t] = "drop"
    <3>1. pc[t] = "ack" => Recorded(job[t])
      BY <2>1, CalmStep DEF Works, AckedAt
    <3> QED
      BY <1>n, <2>1, <3>1 DEF Drop, Ack, At
  <2>3. id \in Ids /\ id \in pel /\ Open(id) /\ IsLast(id)
    <3>1. job[t] \in Ids /\ HeldAt(t)
      BY <2>2, CalmStep, JobLemma DEF Unacked, IInv
    <3> QED
      BY <1>c, <1>n, <2>1, <2>2, <3>1 DEF HeldAt, Unacked, Open, LastOK
  <2>4. /\ UNCHANGED <<status, stream, creating>>
        /\ \A u \in Threads : ~InsertExec(u)
    BY <2>2, <2>3 DEF Drop, InsertExec, db, redis, http
  <2>5. PICK r \in Runs : r = stream[id].run
    BY <2>3, StreamKept DEF Message
  <2>6. status[r] \in Terminal
    BY <1>c, <1>n, <2>1, <2>2, <2>5 DEF DropOK, DropAt, Works, RunOf
  <2>7. creating[r] = NoInstance
    BY <2>3, <2>5 DEF UnbornOK
  <2>8. ASSUME NEW k \in Ids, Open(k)', stream[k].run = r
        PROVE  FALSE
    <3>1. k = id
      BY <1>c, <2>3, <2>5, <2>8, OpenStep, LastIsOne DEF LastOK
    <3>2. delivered' \in Nat
      BY QueueStep
    <3>3. ~(id > delivered') /\ id \notin pel'
      BY <3>2
    <3> QED
      BY <2>8, <3>1, <3>3 DEF Open
  <2>9. ASSUME NEW u \in Threads, Handing(u)', stream[job[u]].run = r
        PROVE  FALSE
    <3>1. job[u] \in Ids /\ Handing(u) /\ Recorded(job[u])
      BY <2>4, <2>9, HandingStep
    <3>2. job[u] = id
      BY <1>c, <2>3, <2>5, <2>9, <3>1, LastIsOne DEF LastOK
    <3> QED
      BY <1>n, <3>1, <3>2
  <2>10. \A u \in Threads : Handing(u)' => RunOf(u)' = stream[job[u]].run
    BY <2>4, HandingStep DEF RunOf
  <2>11. Ids' = Ids
    BY <2>4 DEF Ids
  <2> QED
    BY <2>4, <2>5, <2>6, <2>7, <2>8, <2>9, <2>10, <2>11 DEF Over
<1> QED
  BY <1>1, <1>2, QueueStep

-----------------------------------------------------------------------------
(* What was announced stays so.                                            *)

Ends == {"run.completed", "run.failed"}

(* Who publishes an event. *)
LEMMA FeedStep ==
  ASSUME IInv, [Next]_vars, NEW e \in feed' \ feed
  PROVE  \E t \in Threads :
           /\ ~Cancelled(t) /\ job[t] \in Ids /\ e.run = RunOf(t) /\ e.step = StepOf(t)
           /\ UNCHANGED <<db, redis, http, inst>>
           /\ feed' = feed \cup {e}
           /\ \/ e.type = "run.status_changed" /\ PublishRunning(t)
              \/ e.type = "step.started" /\ PublishStarted(t)
              \/ e.type = "step.completed" /\ PublishStepCompleted(t)
              \/ e.type = "step.failed" /\ PublishStepFailed(t)
              \/ e.type = "run.completed" /\ PublishRunCompleted(t)
              \/ e.type = "run.failed" /\ (PublishRunFailed(t) \/ PublishAborted(t))
<1>1. ASSUME feed' # feed
      PROVE  \E t \in Threads :
               \/ PublishRunning(t) \/ PublishStarted(t) \/ PublishStepCompleted(t)
               \/ PublishStepFailed(t) \/ PublishRunCompleted(t)
               \/ PublishRunFailed(t) \/ PublishAborted(t)
  BY <1>1 DEF Next, ThreadStep, ReadGroup, Exit, Recover, Scan, ScanDone, Claim,
     IdempotencyCheck, Process, FetchStatus, Drop, FetchStep, SetRunning,
     ReadContext, Execute, InsertExec, Ack, SaveContext, CountSteps, EnqueueNext,
     CompleteRun, FetchPolicy, Backoff, Recheck, EnqueueRetry, MarkRunFailed,
     Age, Handlers, CreateInsert, CreateEnqueue, CancelRead, CancelWrite,
     Lifetime, Stop, StopDone, Crash, Restart, vars, ghost
<1>2. ASSUME NEW t \in Threads, NEW type, Announce(t, type)
      PROVE  /\ ~Cancelled(t) /\ e.run = RunOf(t) /\ e.step = StepOf(t)
             /\ e.type = type /\ feed' = feed \cup {e}
  BY <1>2 DEF Announce, Works, Faulty
<1>3. PICK t \in Threads :
               \/ PublishRunning(t) \/ PublishStarted(t) \/ PublishStepCompleted(t)
               \/ PublishStepFailed(t) \/ PublishRunCompleted(t)
               \/ PublishRunFailed(t) \/ PublishAborted(t)
  BY <1>1
<1>4. pc[t] \in Unacked \cup Acked
  BY <1>3 DEF PublishRunning, PublishStarted, PublishStepCompleted,
     PublishStepFailed, PublishRunCompleted, PublishRunFailed, PublishAborted,
     Publish, PublishLast, At, Unacked, Acked
<1>5. job[t] \in Ids
  BY <1>4, JobLemma DEF IInv
<1>6. UNCHANGED <<db, redis, http, inst>>
  BY <1>3 DEF PublishRunning, PublishStarted, PublishStepCompleted,
     PublishStepFailed, PublishRunCompleted, PublishRunFailed, PublishAborted,
     Publish, PublishLast
<1>7. /\ ~Cancelled(t) /\ e.run = RunOf(t) /\ e.step = StepOf(t) /\ feed' = feed \cup {e}
      /\ \/ e.type = "run.status_changed" /\ PublishRunning(t)
         \/ e.type = "step.started" /\ PublishStarted(t)
         \/ e.type = "step.completed" /\ PublishStepCompleted(t)
         \/ e.type = "step.failed" /\ PublishStepFailed(t)
         \/ e.type = "run.completed" /\ PublishRunCompleted(t)
         \/ e.type = "run.failed" /\ (PublishRunFailed(t) \/ PublishAborted(t))
  BY <1>2, <1>3 DEF PublishRunning, PublishStarted, PublishStepCompleted,
     PublishStepFailed, PublishRunCompleted, PublishRunFailed, PublishAborted,
     Publish, PublishLast
<1> QED
  BY <1>5, <1>6, <1>7

(* Until its end is published, a run that was given a verdict is over but  *)
(* for the goroutine that gave it; from then on it is over.                *)
EndAt(t) ==
  pc[t] \in {"pub_run_completed", "pub_run_failed"} => status[RunOf(t)] \in Terminal
EndedOK == Calm => /\ \A t \in Threads : ~Cancelled(t) => EndAt(t)
                   /\ \A e \in feed : e.type \in Ends => Over(e.run)

(* A goroutine that carries a run is the only one to write its status. *)
LEMMA HandingIsAlone ==
  ASSUME BaseInv, LastOK, [Next]_vars, Calm', NEW t \in Threads, Handing(t),
         NEW u \in Threads, SetRunning(u) \/ (Handing(u) /\ u # t)
  PROVE  RunOf(u) # RunOf(t)
<1>c. Calm /\ (~Cancelled(t) => AckedAt(t))
  BY CalmStep
<1>1. job[t] \in Ids /\ IsLast(job[t]) /\ Recorded(job[t])
  BY <1>c, JobLemma DEF Handing, LastOK, AckedAt, BaseInv, IInv, Unacked
<1>2. CASE SetRunning(u)
  BY <1>1, <1>2, RunningIsOpen, LastIsOne DEF RunOf, Open
<1>3. CASE Handing(u) /\ u # t
  <2>1. job[u] \in Ids /\ IsLast(job[u]) /\ job[u] # job[t]
    BY <1>c, <1>3, JobLemma DEF Handing, LastOK, BaseInv, IInv, Unacked
  <2> QED
    BY <1>1, <2>1, LastIsOne DEF RunOf
<1> QED
  BY <1>2, <1>3

LEMMA EndedStep ==
  ASSUME BaseInv, LastOK, EndedOK, [Next]_vars
  PROVE  EndedOK'
<1> SUFFICES ASSUME Calm'
             PROVE  /\ \A t \in Threads : ~Cancelled(t)' => EndAt(t)'
                    /\ \A e \in feed' : e.type \in Ends => Over(e.run)'
  BY DEF EndedOK
<1> USE DEF BaseInv
<1>c. Calm /\ ~Spend("fault")
  BY CalmStep
<1>1. ASSUME NEW t \in Threads, ~Cancelled(t)',
             pc'[t] \in {"pub_run_completed", "pub_run_failed"}
      PROVE  status'[RunOf(t)'] \in Terminal
  <2>0. pc'[t] \in Acked
    BY <1>1 DEF Acked
  <2>1. ~Cancelled(t) /\ (ThreadStep(t) \/ UNCHANGED <<pc[t], job[t]>>)
    BY <1>1, <2>0, LiveStep
  <2>2. Handing(t)'
    BY <1>1, <2>0 DEF Handing
  <2>3. job[t] \in Ids /\ job'[t] = job[t] /\ RunOf(t)' = RunOf(t) /\ RunOf(t) \in Runs
    BY <2>2, HandingStep, StreamKept DEF RunOf, Message
  <2>4. CASE pc[t] = pc'[t]
    <3>1. Handing(t) /\ status[RunOf(t)] \in Terminal
      BY <1>1, <1>c, <2>0, <2>1, <2>4 DEF Handing, EndedOK, EndAt
    <3>2. status[RunOf(t)] # Missing
      BY <3>1 DEF Terminal, Statuses, Missing
    <3> QED
      BY <2>3, <3>1, <3>2, HandingIsAlone, StatusStep
  <2>5. CASE pc[t] # pc'[t]
    <3>1. CompleteRun(t) \/ MarkRunFailed(t)
      <4> USE <1>1, <2>1, <2>5 DEF IInv, TypeOK, At, Goto, Finish
      <4>1. CASE ReadGroup(t) \/ Recover(t) \/ Exit(t)
        BY <4>1 DEF ReadGroup, Exit, Recover, Scan, ScanDone, Claim,
           IdempotencyCheck, AfterCheck
      <4>2. CASE Process(t)
        BY <4>2 DEF Process, FetchStatus, Drop, FetchStep, SetRunning,
           PublishRunning, ReadContext, PublishStarted, Execute, InsertExec, Ack,
           AfterAck, PublishStepCompleted, SaveContext, CountSteps, EnqueueNext,
           CompleteRun, PublishRunCompleted, PublishStepFailed, FetchPolicy,
           Backoff, Recheck, EnqueueRetry, MarkRunFailed, PublishAborted,
           PublishRunFailed, Publish, PublishLast
      <4> QED
        BY <4>1, <4>2 DEF ThreadStep
    <3>2. status'[RunOf(t)] \in {"completed", "failed"}
      BY <1>c, <2>1, <2>3, <3>1 DEF CompleteRun, MarkRunFailed, Works, Faulty, IInv, TypeOK
    <3> QED
      BY <2>3, <3>2 DEF Terminal, Statuses, Active
  <2> QED
    BY <2>4, <2>5
<1>2. ASSUME NEW e \in feed', e.type \in Ends
      PROVE  Over(e.run)'
  <2>0. e.run \in Runs
    BY TypingStep DEF IInv, TypeOK, Event
  <2>1. CASE e \in feed
    <3>1. Over(e.run)
      BY <1>2, <1>c, <2>1 DEF EndedOK
    <3> QED
      BY <2>0, <3>1, OverStep
  <2>2. CASE e \notin feed
    <3>1. PICK t \in Threads :
            /\ ~Cancelled(t) /\ job[t] \in Ids /\ e.run = RunOf(t)
            /\ UNCHANGED <<db, redis, http, inst>>
            /\ feed' = feed \cup {e}
            /\ PublishRunCompleted(t) \/ PublishRunFailed(t) \/ PublishAborted(t)
      BY <1>2, <2>2, FeedStep DEF Ends
    <3>2. /\ pc[t] \in {"pub_run_completed", "pub_run_failed"}
          /\ pc'[t] \notin Acked \cup {"ack"}
      <4>1. pc[t] # "pub_aborted"
        BY <3>1, CalmStep DEF AckedAt
      <4> QED
        BY <3>1, <4>1 DEF PublishRunCompleted, PublishRunFailed, PublishAborted,
           Publish, PublishLast, Finish, Goto, At, Acked, IInv, TypeOK
    <3>3. Handing(t) /\ IsLast(job[t]) /\ Recorded(job[t]) /\ status[e.run] \in Terminal
      BY <1>c, <3>1, <3>2, CalmStep DEF Handing, Acked, LastOK, AckedAt, EndedOK, EndAt
    <3>4. creating[e.run] = NoInstance
      BY <3>1 DEF UnbornOK, RunOf
    <3>5. ASSUME NEW k \in Ids, Open(k)'
          PROVE  stream[k].run # e.run
      BY <1>c, <3>1, <3>3, <3>5, OpenStep, LastIsOne DEF LastOK, RunOf, Open
    <3>6. ASSUME NEW u \in Threads, Handing(u)'
          PROVE  RunOf(u)' # e.run
      <4>1. Handing(u) /\ job'[u] = job[u]
        BY <2>2, <3>1, <3>6, HandingStep DEF InsertExec, ghost
      <4>2. u # t
        BY <3>2, <3>6 DEF Handing
      <4>3. RunOf(u) # e.run
        BY <3>1, <3>3, <4>1, <4>2, HandingIsAlone
      <4> QED
        BY <3>1, <4>1, <4>3 DEF RunOf, redis
    <3> QED
      BY <3>1, <3>3, <3>4, <3>5, <3>6 DEF Over, db, redis, http, Ids
  <2> QED
    BY <2>1, <2>2
<1> QED
  BY <1>1, <1>2 DEF EndAt

-----------------------------------------------------------------------------
(* Each step works on the output of the step before it.                    *)

Saved   == {"count_steps", "enqueue_next", "complete_run", "pub_run_completed"}
Read    == {"pub_started", "execute", "insert_exec"}
Left(t) == IF pc[t] \in Saved THEN StepOf(t) + 1 ELSE StepOf(t)

(* The row's context is what the message to be executed needs, or what the *)
(* goroutine that executed it leaves.                                      *)
DataOK == Calm =>
  /\ \A id \in Ids : Open(id) => context[stream[id].run] = stream[id].step
  /\ \A t \in Threads : Handing(t) => context[RunOf(t)] = Left(t)
  /\ \A t \in Threads : ~Cancelled(t) /\ pc[t] \in Read => input[t] = StepOf(t)

LEMMA DataStep ==
  ASSUME BaseInv, LastOK, DataOK, [Next]_vars
  PROVE  DataOK'
<1> SUFFICES ASSUME Calm'
             PROVE  /\ \A id \in Ids' : Open(id)' =>
                         context'[stream'[id].run] = stream'[id].step
                    /\ \A t \in Threads : Handing(t)' => context'[RunOf(t)'] = Left(t)'
                    /\ \A t \in Threads : ~Cancelled(t)' /\ pc'[t] \in Read =>
                         input'[t] = StepOf(t)'
  BY DEF DataOK
<1> USE DEF BaseInv
<1>c. Calm /\ ~Spend("fault")
  BY CalmStep
<1>h. ASSUME NEW t \in Threads, SaveContext(t), ~Cancelled(t)
      PROVE  /\ Handing(t) /\ job[t] \in Ids /\ Recorded(job[t]) /\ IsLast(job[t])
             /\ UNCHANGED <<stream, job>>
             /\ pc'[t] = "count_steps" /\ context'[RunOf(t)] = StepOf(t) + 1
  <2>1. pc[t] = "save_context"
    BY <1>h DEF SaveContext, At
  <2>2. Handing(t) /\ job[t] \in Ids
    BY <1>h, <2>1, JobLemma DEF Handing, Acked, IInv
  <2>3. RunOf(t) \in Runs
    BY <2>2, StreamKept DEF RunOf, Message
  <2>4. /\ UNCHANGED <<stream, job>>
        /\ pc'[t] = "count_steps" /\ context'[RunOf(t)] = StepOf(t) + 1
    BY <1>c, <1>h, <2>3 DEF SaveContext, Works, Faulty, Goto, IInv, TypeOK, redis, work
  <2> QED
    BY <1>c, <2>2, <2>4, CalmStep DEF LastOK, AckedAt, Handing
<1>1. ASSUME NEW id \in Ids', Open(id)'
      PROVE  context'[stream'[id].run] = stream'[id].step
  <2>1. CASE id \in Ids
    <3>1. Open(id) /\ IsLast(id) /\ stream[id].run \in Runs /\ stream'[id] = stream[id]
      BY <1>c, <1>1, <2>1, OpenStep, StreamKept DEF LastOK, Message
    <3>2. context[stream[id].run] = stream[id].step
      BY <1>c, <2>1, <3>1 DEF DataOK
    <3>3. context'[stream[id].run] = context[stream[id].run]
      <4>1. ASSUME NEW t \in Threads, SaveContext(t), ~Cancelled(t)
            PROVE  RunOf(t) # stream[id].run
        BY <1>h, <2>1, <3>1, <4>1, LastIsOne DEF RunOf, Open
      <4> QED
        BY <3>1, <4>1, RowStep
    <3> QED
      BY <3>1, <3>2, <3>3
  <2>2. CASE id \notin Ids
    <3>1. UNCHANGED context /\ (FirstOf(stream'[id]) \/ FollowOf(stream'[id]))
      BY <2>2, NewIsAlone DEF db
    <3>2. CASE FirstOf(stream'[id])
      BY <3>1, <3>2 DEF FirstOf, UnbornOK
    <3>3. CASE FollowOf(stream'[id])
      <4>1. PICK t \in Threads :
              /\ ~Cancelled(t) /\ pc[t] \in {"enqueue_next", "enqueue_retry"}
              /\ stream'[id].run = RunOf(t)
              /\ stream'[id].step
                   = IF pc[t] = "enqueue_next" THEN StepOf(t) + 1 ELSE StepOf(t)
        BY <3>3 DEF FollowOf
      <4>2. context[RunOf(t)] = Left(t)
        BY <1>c, <4>1 DEF DataOK, Handing, Acked
      <4> QED
        BY <3>1, <4>1, <4>2 DEF Left, Saved
    <3> QED
      BY <3>1, <3>2, <3>3
  <2> QED
    BY <2>1, <2>2
<1>2. ASSUME NEW t \in Threads, Handing(t)'
      PROVE  context'[RunOf(t)'] = Left(t)'
  <2>0. pc'[t] \in Unacked \cup Acked
    BY <1>2 DEF Handing, Unacked
  <2>1. ~Cancelled(t) /\ (ThreadStep(t) \/ UNCHANGED <<pc[t], job[t]>>)
    BY <1>2, <2>0, LiveStep DEF Handing
  <2>2. /\ job'[t] = job[t] /\ job[t] \in Ids
        /\ RunOf(t)' = RunOf(t) /\ StepOf(t)' = StepOf(t) /\ RunOf(t) \in Runs
        /\ Handing(t) \/ (InsertExec(t) /\ Open(job[t]))
    BY <1>2, HandingStep, StreamKept DEF RunOf, StepOf, Message
  <2>3. CASE InsertExec(t) /\ Open(job[t])
    <3>1. UNCHANGED context /\ pc'[t] = "ack"
      BY <2>3 DEF InsertExec, Goto, IInv, TypeOK
    <3>2. context[RunOf(t)] = StepOf(t)
      BY <1>c, <2>2, <2>3 DEF DataOK, RunOf, StepOf
    <3> QED
      BY <2>2, <3>1, <3>2 DEF Left, Saved
  <2>4. CASE Handing(t) /\ SaveContext(t)
    <3>1. pc'[t] = "count_steps" /\ context'[RunOf(t)] = StepOf(t) + 1
      BY <1>h, <2>1, <2>4
    <3> QED
      BY <2>2, <3>1 DEF Left, Saved
  <2>5. CASE Handing(t) /\ ~SaveContext(t)
    <3>1. context'[RunOf(t)] = context[RunOf(t)]
      <4>1. ASSUME NEW u \in Threads, SaveContext(u), ~Cancelled(u)
            PROVE  RunOf(u) # RunOf(t)
        BY <1>h, <2>5, <4>1, HandingIsAlone
      <4> QED
        BY <2>2, <4>1, RowStep
    <3>2. context[RunOf(t)] = Left(t)
      BY <1>c, <2>5 DEF DataOK
    <3>3. pc'[t] \in Saved <=> pc[t] \in Saved
      <4> USE <1>2, <2>1, <2>5 DEF IInv, TypeOK, At, Goto, Finish, Saved, Handing, Acked
      <4>1. CASE ReadGroup(t) \/ Recover(t) \/ Exit(t)
        BY <4>1 DEF ReadGroup, Exit, Recover, Scan, ScanDone, Claim, IdempotencyCheck
      <4>2. CASE Process(t)
        BY <4>2 DEF Process, FetchStatus, Drop, FetchStep, SetRunning,
           PublishRunning, ReadContext, PublishStarted, Execute, InsertExec, Ack,
           AfterAck, PublishStepCompleted, CountSteps, EnqueueNext, CompleteRun,
           PublishRunCompleted, PublishStepFailed, FetchPolicy, Backoff, Recheck,
           EnqueueRetry, MarkRunFailed, PublishAborted, PublishRunFailed, Publish,
           PublishLast
      <4> QED
        BY <4>1, <4>2 DEF ThreadStep
    <3> QED
      BY <2>2, <3>1, <3>2, <3>3 DEF Left
  <2> QED
    BY <2>2, <2>3, <2>4, <2>5
<1>3. ASSUME NEW t \in Threads, ~Cancelled(t)', pc'[t] \in Read
      PROVE  input'[t] = StepOf(t)'
  <2>0. pc'[t] \in Unacked
    BY <1>3 DEF Read, Unacked
  <2>1. ~Cancelled(t) /\ (ThreadStep(t) \/ UNCHANGED <<pc[t], job[t], input[t]>>)
    BY <1>3, <2>0, LiveStep
  <2>2. pc[t] \in Unacked => job[t] \in Ids /\ RunOf(t) \in Runs
    BY JobLemma DEF IInv
  <2>3. CASE UNCHANGED <<pc[t], job[t], input[t]>>
    <3>1. StepOf(t)' = StepOf(t)
      BY <2>0, <2>2, <2>3, StreamKept DEF StepOf
    <3> QED
      BY <1>3, <1>c, <2>1, <2>3, <3>1 DEF DataOK
  <2>4. CASE ReadContext(t)
    <3>1. pc[t] = "read_context" /\ UNCHANGED <<job, stream>>
      BY <2>4 DEF ReadContext, At, redis
    <3>2. input'[t] = context[RunOf(t)]
      BY <1>c, <2>1, <2>4 DEF ReadContext, Works, Faulty, IInv, TypeOK
    <3>3. Open(job[t])
      <4>1. HeldAt(t)
        BY CalmStep
      <4> QED
        BY <2>2, <3>1, <4>1 DEF HeldAt, Open, Unacked, Fresh
    <3>4. context[RunOf(t)] = StepOf(t)
      BY <1>c, <3>3 DEF DataOK, RunOf, StepOf, Open
    <3> QED
      BY <3>1, <3>2, <3>4 DEF StepOf
  <2>5. CASE ThreadStep(t) /\ ~ReadContext(t)
    <3>1. /\ pc[t] \in Read /\ job'[t] = job[t] /\ input'[t] = input[t]
      <4> USE <1>3, <2>5 DEF IInv, TypeOK, At, Goto, Finish, Read, work
      <4>1. CASE ReadGroup(t) \/ Recover(t) \/ Exit(t)
        BY <4>1 DEF ReadGroup, Exit, Recover, Scan, ScanDone, Claim,
           IdempotencyCheck, AfterCheck
      <4>2. CASE Process(t)
        BY <4>2 DEF Process, FetchStatus, Drop, FetchStep, SetRunning,
           PublishRunning, PublishStarted, Execute, InsertExec, Ack,
           AfterAck, PublishStepCompleted, SaveContext, CountSteps, EnqueueNext,
           CompleteRun, PublishRunCompleted, PublishStepFailed, FetchPolicy,
           Backoff, Recheck, EnqueueRetry, MarkRunFailed, PublishAborted,
           PublishRunFailed, Publish, PublishLast
      <4> QED
        BY <2>5, <4>1, <4>2 DEF ThreadStep
    <3>2. input[t] = StepOf(t)
      BY <1>c, <2>1, <3>1 DEF DataOK
    <3>3. StepOf(t)' = StepOf(t)
      BY <2>2, <3>1, StreamKept DEF StepOf, Read, Unacked
    <3> QED
      BY <3>1, <3>2, <3>3
  <2> QED
    BY <2>1, <2>3, <2>4, <2>5
<1> QED
  BY <1>1, <1>2, <1>3

-----------------------------------------------------------------------------
(* The theorems.                                                           *)

CarrierInv == BaseInv /\ LastOK /\ DropOK /\ GoneOK /\ EndedOK /\ DataOK

LEMMA CarrierInit == Init => CarrierInv
<1> SUFFICES ASSUME Init PROVE CarrierInv
  OBVIOUS
<1>1. IInv
  BY InitTyped DEF IInv
<1>2. BudgetOK
  BY DEF Init, BudgetOK
<1>3. \A t \in Threads : pc[t] \in {"reading", "ticking"}
  BY DEF Init, Start
<1>4. HeldOK /\ AckedOK
  BY <1>3 DEF HeldOK, HeldAt, AckedOK, AckedAt, Unacked, Acked
<1>5. PastOK
  BY DEF Init, PastOK
<1>6. Ids = {}
  BY EmptySeq DEF Init, Ids
<1>7. UnbornOK
  BY <1>6 DEF Init, UnbornOK
<1>8. LastOK /\ DropOK /\ DataOK
  BY <1>3, <1>6 DEF LastOK, DropOK, DropAt, DataOK, Handing, Acked, Read
<1>9. GoneOK
  BY DEF Init, GoneOK
<1>10. EndedOK
  BY <1>3 DEF Init, EndedOK, EndAt
<1> QED
  BY <1>1, <1>2, <1>4, <1>5, <1>7, <1>8, <1>9, <1>10 DEF CarrierInv, BaseInv

LEMMA BaseStep == BaseInv /\ [Next]_vars => BaseInv'
BY TypingStep, BudgetStep, HeldStep, AckedStep, UnbornStep DEF BaseInv

LEMMA CarrierStep == CarrierInv /\ [Next]_vars => CarrierInv'
BY BaseStep, LastStep, DropStep, GoneKept, EndedStep, DataStep DEF CarrierInv

LEMMA Carried == Spec => []CarrierInv
BY CarrierInit, CarrierStep, PTL DEF Spec

(* An attempt that is recorded is not executed again: until an overrun,    *)
(* recovery takes no entry from a goroutine at work on it, and looks for   *)
(* the record before it works on one itself.                               *)
THEOREM RecordedIsNotRerun == Spec => []NoRerun
<1>1. CarrierInv => NoRerun
  <2> SUFFICES ASSUME CarrierInv, Before({"overrun"}), NEW t \in Threads,
                      At(t, "execute")
               PROVE  ~Recorded(job[t])
    BY DEF NoRerun
  <2>1. HeldAt(t)
    BY DEF CarrierInv, BaseInv, HeldOK
  <2> QED
    BY <2>1 DEF HeldAt, At, Unacked, Fresh
<1> QED
  BY <1>1, Carried, PTL

(* A run is never in two places: until a call fails or an overrun occurs,  *)
(* one handler, message or goroutine at most carries it, through crashes,  *)
(* stops and recovery.                                                     *)
THEOREM RunsAreInOnePlace == Spec => []OneCarrier
<1>1. CarrierInv => OneCarrier
  BY OneCarrierFollows DEF CarrierInv
<1> QED
  BY <1>1, Carried, PTL

(* Nothing is acknowledged away: until a call fails or an overrun occurs,  *)
(* a message that left the pending entries is recorded or its run is over. *)
THEOREM NothingIsLost == Spec => []NothingLost
<1>1. CarrierInv => NothingLost
  BY DEF CarrierInv, GoneOK, Calm, NothingLost, Over
<1> QED
  BY <1>1, Carried, PTL

(* Each step works on the output of the step before it: until a call fails *)
(* or an overrun occurs, what a goroutine executes step s with is what     *)
(* step s - 1 left in the run's row, whoever worked on that.               *)
THEOREM ContextIsHandedOn == Spec => []ContextFlow
<1>1. CarrierInv => ContextFlow
  BY DEF CarrierInv, DataOK, Calm, ContextFlow, Busy, Read
<1> QED
  BY <1>1, Carried, PTL

(* What subscribers were told is so: until a call fails or an overrun      *)
(* occurs, a run whose end was announced is over and stays over.           *)
THEOREM AnnouncementsHold == Spec => []AnnouncedIsOver
<1>1. CarrierInv => AnnouncedIsOver
  BY DEF CarrierInv, EndedOK, Calm, AnnouncedIsOver, Over, Ends
<1> QED
  BY <1>1, Carried, PTL
=============================================================================
