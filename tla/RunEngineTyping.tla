-------------------------- MODULE RunEngineTyping --------------------------
(***************************************************************************)
(* Type correctness of RunEngine, for every set of runs, instances and     *)
(* goroutines, every retry policy and every number of hazards.             *)
(***************************************************************************)
EXTENDS RunEngine, SequenceTheorems, TLAPS

USE StepsAssumption, RetriesAssumption, ThreadsAssumption, BatchAssumption,
    BudgetAssumption

(* What appending a message does to the stream. *)
LEMMA EnqueueLemma ==
  ASSUME stream \in Seq(Message), NEW r \in Runs, NEW s \in Steps,
         NEW n \in Attempts, Enqueue(r, s, n)
  PROVE  /\ stream' \in Seq(Message)
         /\ Len(stream) \in Nat /\ Len(stream') = Len(stream) + 1
         /\ \A id \in 1 .. Len(stream) : stream'[id] = stream[id]
         /\ stream'[Len(stream) + 1] = [run |-> r, step |-> s, attempt |-> n]
<1> DEFINE m == [run |-> r, step |-> s, attempt |-> n]
<1>1. m \in Message
  BY DEF Message
<1> QED
  BY <1>1, AppendProperties DEF Enqueue

(* A message in the stream is a message. *)
LEMMA MessageLemma ==
  ASSUME stream \in Seq(Message), NEW id \in Ids
  PROVE  /\ stream[id] \in Message /\ stream[id].run \in Runs
         /\ stream[id].step \in Steps /\ stream[id].attempt \in Attempts
<1>1. stream[id] \in Message
  BY ElementOfSeq DEF Ids
<1> QED
  BY <1>1 DEF Message

-----------------------------------------------------------------------------
(* What a goroutine's position says about the attempt j it works on and    *)
(* the outcome o it has seen.                                              *)

Success  == {"pub_step_completed", "save_context", "count_steps",
             "enqueue_next", "complete_run", "pub_run_completed"}
Failure  == {"pub_step_failed", "fetch_policy", "fail_run", "pub_run_failed",
             "backoff", "recheck", "enqueue_retry"}
Executed == {"insert_exec", "ack"} \cup Success \cup Failure

JobAt(l, j, o) ==
  /\ l \in Unacked \cup Acked <=> j # 0
  /\ l \in Executed => o \in Verdicts /\ Had(j, o)
  /\ l \in Success => o = "completed"
  /\ l \in Failure => o = "failed"
  /\ l = "enqueue_next" => stream[j].step + 1 < NumSteps
  /\ l \in {"backoff", "recheck", "enqueue_retry"} => MayRetry(stream[j].attempt)

JobsOK == \A t \in Threads : JobAt(pc[t], job[t], outcome[t])

(* The goroutines of a process that is down have exited. *)
DownOK == \A t \in Threads : inst[HostOf[t]] = "down" => pc[t] = "exited"

(* A goroutine at work has a message of the stream in hand. *)
LEMMA JobLemma ==
  ASSUME TypeOK, JobsOK, NEW t \in Threads, pc[t] \in Unacked \cup Acked
  PROVE  /\ job[t] \in Ids /\ job[t] \in 1 .. delivered
         /\ RunOf(t) \in Runs /\ StepOf(t) \in Steps /\ AttemptOf(t) \in Attempts
<1>1. job[t] \in 1 .. delivered /\ delivered \in 0 .. Len(stream) /\ Len(stream) \in Nat
  BY LenProperties DEF TypeOK, JobsOK, JobAt
<1>2. job[t] \in Ids
  BY <1>1 DEF Ids
<1> QED
  BY <1>1, <1>2, MessageLemma DEF TypeOK, RunOf, StepOf, AttemptOf

-----------------------------------------------------------------------------
(* The pieces the steps are made of keep the types.                        *)

LEMMA GotoTyped ==
  ASSUME TypeOK, NEW t \in Threads, NEW l \in Places, Goto(t, l)
  PROVE  pc' \in [Threads -> Places]
BY DEF TypeOK, Goto

LEMMA CallTyped ==
  ASSUME TypeOK, NEW t \in Threads, Works(t) \/ Faulty(t)
  PROVE  budget' \in [Hazards -> Nat]
BY DEF TypeOK, Works, Faulty, Spend, Hazards

LEMMA SpendTyped ==
  ASSUME TypeOK, NEW h \in Hazards, Spend(h)
  PROVE  budget' \in [Hazards -> Nat]
BY DEF TypeOK, Spend

LEMMA FinishTyped ==
  ASSUME TypeOK, NEW t \in Threads, Finish(t)
  PROVE  /\ pc' \in [Threads -> Places] /\ job' \in [Threads -> 0 .. delivered]
         /\ outcome' \in [Threads -> Verdicts \cup {"none"}]
         /\ input' \in [Threads -> Contexts]
         /\ todo' \in [Threads -> SUBSET (1 .. delivered)]
<1>1. pc' \in [Threads -> Places]
  BY GotoTyped DEF Finish, Places, Resting
<1>2. 0 \in Contexts /\ 0 \in 0 .. delivered
  BY LenProperties DEF Contexts, Empty, TypeOK
<1> QED
  BY <1>1, <1>2 DEF Finish, TypeOK

LEMMA AnnounceTyped ==
  ASSUME TypeOK, NEW t \in Threads, NEW type \in EventTypes, Announce(t, type),
         RunOf(t) \in Runs, StepOf(t) \in Steps
  PROVE  feed' \subseteq Event /\ budget' \in [Hazards -> Nat]
<1>1. budget' \in [Hazards -> Nat]
  BY CallTyped DEF Announce
<1>2. [type |-> type, run |-> RunOf(t), step |-> StepOf(t)] \in Event
  BY DEF Event
<1> QED
  BY <1>1, <1>2 DEF Announce, TypeOK

LEMMA EnqueueTyped ==
  ASSUME TypeOK, NEW r \in Runs, NEW s \in Steps, NEW n \in Attempts,
         Enqueue(r, s, n), UNCHANGED <<execs, delivered, pel, effects>>
  PROVE  /\ stream' \in Seq(Message) /\ delivered' \in 0 .. Len(stream')
         /\ execs' \subseteq [attempt : 1 .. Len(stream'), status : Verdicts]
         /\ effects' \subseteq (1 .. Len(stream')) \X Verdicts
<1>1. /\ stream' \in Seq(Message) /\ Len(stream) \in Nat
      /\ Len(stream') = Len(stream) + 1
  BY EnqueueLemma DEF TypeOK
<1>2. 1 .. Len(stream) \subseteq 1 .. Len(stream')
  BY <1>1
<1> QED
  BY <1>1, <1>2 DEF TypeOK

(* Attempts within the retry policy stay within the limit. *)
LEMMA RetryInLimit ==
  ASSUME NEW n \in Attempts, MayRetry(n)
  PROVE  n + 1 \in Attempts
BY DEF MayRetry, Attempts, AttemptLimit, EffectiveRetries

-----------------------------------------------------------------------------
(* Steps that only move goroutines and grow the stream keep JobsOK.        *)

Grows == /\ Len(stream') >= Len(stream)
         /\ \A id \in Ids : stream'[id] = stream[id]
         /\ effects \subseteq effects'

LEMMA GotoJobs ==
  ASSUME TypeOK, JobsOK, NEW t \in Threads, NEW l \in Places, Goto(t, l),
         UNCHANGED <<job, outcome, stream>>, effects \subseteq effects',
         JobAt(l, job[t], outcome[t])
  PROVE  JobsOK'
<1> SUFFICES ASSUME NEW u \in Threads
             PROVE  JobAt(pc[u], job[u], outcome[u])'
  BY DEF JobsOK
<1>1. pc'[u] = IF u = t THEN l ELSE pc[u]
  BY DEF Goto, TypeOK
<1>2. JobAt(pc'[u], job[u], outcome[u])
  BY <1>1 DEF JobsOK
<1> QED
  BY <1>2 DEF JobAt, Had, MayRetry

LEMMA FinishJobs ==
  ASSUME TypeOK, JobsOK, NEW t \in Threads, Finish(t), Grows
  PROVE  JobsOK'
<1> SUFFICES ASSUME NEW u \in Threads
             PROVE  JobAt(pc[u], job[u], outcome[u])'
  BY DEF JobsOK
<1>1. CASE u = t
  <2>1. pc'[u] \in Resting /\ job'[u] = 0
    BY <1>1 DEF Finish, Goto, TypeOK, Resting
  <2> QED
    BY <2>1 DEF JobAt, Resting, Unacked, Acked, Executed, Success, Failure
<1>2. CASE u # t
  <2>1. pc'[u] = pc[u] /\ job'[u] = job[u] /\ outcome'[u] = outcome[u]
    BY <1>2 DEF Finish, Goto, TypeOK
  <2>2. JobAt(pc[u], job[u], outcome[u])
    BY DEF JobsOK
  <2>3. pc[u] \in Unacked \cup Acked => job[u] \in Ids
    BY JobLemma
  <2>4. \A l \in {"enqueue_next", "backoff", "recheck", "enqueue_retry"} :
           pc[u] = l => stream'[job[u]] = stream[job[u]]
    BY <2>3 DEF Grows, Acked
  <2> QED
    BY <2>1, <2>2, <2>4 DEF JobAt, Had, MayRetry, Grows
<1> QED
  BY <1>1, <1>2

-----------------------------------------------------------------------------
(* Type correctness.                                                       *)

LEMMA InitTyped ==
  Init => TypeOK /\ JobsOK /\ DownOK
<1> SUFFICES ASSUME Init PROVE TypeOK /\ JobsOK /\ DownOK
  OBVIOUS
<1>1. \A t \in Threads : Start(t) \in Resting
  BY DEF Start, Resting
<1>2. TypeOK
  BY <1>1, EmptySeq DEF Init, TypeOK, Missing, Steps, Contexts, Empty, Places
<1>3. JobsOK
  BY <1>1 DEF Init, JobsOK, JobAt, Resting, Unacked, Acked, Executed, Success,
     Failure
<1>4. DownOK
  BY DEF Init, DownOK
<1> QED
  BY <1>2, <1>3, <1>4

LEMMA PublishKeeps ==
  ASSUME TypeOK, JobsOK, NEW t \in Threads, NEW from \in Unacked \cup Acked,
         NEW type \in EventTypes, NEW to \in Places, Publish(t, from, type,
           to),
         JobAt(from, job[t], outcome[t]) => JobAt(to, job[t], outcome[t])
  PROVE  TypeOK' /\ JobsOK'
<1>1. RunOf(t) \in Runs /\ StepOf(t) \in Steps
  BY JobLemma DEF Publish, At
<1>2. feed' \subseteq Event /\ budget' \in [Hazards -> Nat]
  BY <1>1, AnnounceTyped DEF Publish
<1>3. pc' \in [Threads -> Places]
  BY GotoTyped DEF Publish
<1>4. JobAt(to, job[t], outcome[t])
  BY DEF Publish, At, JobsOK
<1>5. JobsOK'
  BY <1>4, GotoJobs DEF Publish, redis, work
<1> QED
  BY <1>2, <1>3, <1>5 DEF TypeOK, Publish, db, redis, work, http

LEMMA PublishLastKeeps ==
  ASSUME TypeOK, JobsOK, NEW t \in Threads, NEW from \in Unacked \cup Acked,
         NEW type \in EventTypes, PublishLast(t, from, type)
  PROVE  TypeOK' /\ JobsOK'
<1>1. RunOf(t) \in Runs /\ StepOf(t) \in Steps
  BY JobLemma DEF PublishLast, At
<1>2. feed' \subseteq Event /\ budget' \in [Hazards -> Nat]
  BY <1>1, AnnounceTyped DEF PublishLast
<1>3. JobsOK'
  BY FinishJobs, LenProperties DEF PublishLast, redis, Grows, TypeOK
<1> QED
  BY <1>2, <1>3, FinishTyped DEF TypeOK, PublishLast, db, redis, http

LEMMA ProcessKeeps ==
  ASSUME TypeOK, JobsOK, NEW t \in Threads, Process(t)
  PROVE  TypeOK' /\ JobsOK'
<1> USE DEF db, redis, work, http, ghost, At
<1>j. JobAt(pc[t], job[t], outcome[t])
  BY DEF JobsOK
<1>1. CASE FetchStatus(t)
  <2>1. PICK l \in {"fetch_step", "drop"} : Goto(t, l)
    BY <1>1 DEF FetchStatus
  <2>2. l \in Places /\ JobAt(l, job[t], outcome[t])
    BY <1>1, <1>j DEF FetchStatus, JobAt, Places, Unacked, Acked, Executed,
       Success, Failure
  <2>3. pc' \in [Threads -> Places] /\ budget' \in [Hazards -> Nat]
    BY <1>1, <2>1, <2>2, GotoTyped, CallTyped DEF FetchStatus
  <2>4. JobsOK'
    BY <1>1, <2>1, <2>2, GotoJobs DEF FetchStatus
  <2> QED
    BY <1>1, <2>3, <2>4 DEF FetchStatus, TypeOK
<1>2. CASE FetchStep(t)
  <2>1. PICK l \in {"set_running", "abort_run"} : Goto(t, l)
    BY <1>2 DEF FetchStep
  <2>2. l \in Places /\ JobAt(l, job[t], outcome[t])
    BY <1>2, <1>j DEF FetchStep, JobAt, Places, Unacked, Acked, Executed,
       Success, Failure
  <2>3. pc' \in [Threads -> Places] /\ budget' \in [Hazards -> Nat]
    BY <1>2, <2>1, <2>2, GotoTyped, CallTyped DEF FetchStep
  <2>4. JobsOK'
    BY <1>2, <2>1, <2>2, GotoJobs DEF FetchStep
  <2> QED
    BY <1>2, <2>3, <2>4 DEF FetchStep, TypeOK
<1>3. CASE SetRunning(t)
  <2>1. /\ "pub_running" \in Places
        /\ JobAt("pub_running", job[t], outcome[t])
    BY <1>3, <1>j DEF SetRunning, JobAt, Places, Unacked, Acked, Executed,
       Success, Failure
  <2>2. pc' \in [Threads -> Places] /\ budget' \in [Hazards -> Nat]
    BY <1>3, <2>1, GotoTyped, CallTyped DEF SetRunning
  <2>3. JobsOK'
    BY <1>3, <2>1, GotoJobs DEF SetRunning
  <2>4. /\ status' \in [Runs -> Statuses \cup {Missing}]
        /\ currentStep' \in [Runs -> Steps]
    BY <1>3, JobLemma DEF SetRunning, TypeOK, Statuses, Unacked
  <2> QED
    BY <1>3, <2>2, <2>3, <2>4 DEF SetRunning, TypeOK
<1>4. CASE ReadContext(t)
  <2>1. /\ "pub_started" \in Places
        /\ JobAt("pub_started", job[t], outcome[t])
    BY <1>4, <1>j DEF ReadContext, JobAt, Places, Unacked, Acked, Executed,
       Success, Failure
  <2>2. pc' \in [Threads -> Places] /\ budget' \in [Hazards -> Nat]
    BY <1>4, <2>1, GotoTyped, CallTyped DEF ReadContext
  <2>3. JobsOK'
    BY <1>4, <2>1, GotoJobs DEF ReadContext
  <2>4. context[RunOf(t)] \in Contexts /\ Empty \in Contexts
    BY <1>4, JobLemma DEF ReadContext, TypeOK, Contexts, Empty, Unacked
  <2>5. input' \in [Threads -> Contexts]
    BY <1>4, <2>4 DEF ReadContext, TypeOK
  <2> QED
    BY <1>4, <2>2, <2>3, <2>4, <2>5 DEF ReadContext, TypeOK
<1>5. CASE InsertExec(t)
  <2>1. "ack" \in Places /\ JobAt("ack", job[t], outcome[t])
    BY <1>5, <1>j DEF InsertExec, JobAt, Places, Unacked, Acked, Executed,
       Success, Failure
  <2>2. pc' \in [Threads -> Places] /\ budget' \in [Hazards -> Nat]
    BY <1>5, <2>1, GotoTyped, CallTyped DEF InsertExec
  <2>3. JobsOK'
    BY <1>5, <2>1, GotoJobs DEF InsertExec
  <2>4. execs' \subseteq [attempt : 1 .. Len(stream), status : Verdicts]
    BY <1>5, <1>j, JobLemma DEF InsertExec, TypeOK, JobAt, Ids, Unacked,
       Executed
  <2> QED
    BY <1>5, <2>2, <2>3, <2>4 DEF InsertExec, TypeOK
<1>6. CASE SaveContext(t)
  <2>1. /\ "count_steps" \in Places
        /\ JobAt("count_steps", job[t], outcome[t])
    BY <1>6, <1>j DEF SaveContext, JobAt, Places, Unacked, Acked, Executed,
       Success, Failure
  <2>2. pc' \in [Threads -> Places] /\ budget' \in [Hazards -> Nat]
    BY <1>6, <2>1, GotoTyped, CallTyped DEF SaveContext
  <2>3. JobsOK'
    BY <1>6, <2>1, GotoJobs DEF SaveContext
  <2>4. StepOf(t) + 1 \in Contexts
    BY <1>6, JobLemma DEF SaveContext, Contexts, Empty, Steps, Acked
  <2>5. context' \in [Runs -> Contexts]
    BY <1>6, <2>4 DEF SaveContext, TypeOK
  <2> QED
    BY <1>6, <2>2, <2>3, <2>4, <2>5 DEF SaveContext, TypeOK
<1>7. CASE CompleteRun(t)
  <2>1. /\ "pub_run_completed" \in Places
        /\ JobAt("pub_run_completed", job[t], outcome[t])
    BY <1>7, <1>j DEF CompleteRun, JobAt, Places, Unacked, Acked, Executed,
       Success, Failure
  <2>2. pc' \in [Threads -> Places] /\ budget' \in [Hazards -> Nat]
    BY <1>7, <2>1, GotoTyped, CallTyped DEF CompleteRun
  <2>3. JobsOK'
    BY <1>7, <2>1, GotoJobs DEF CompleteRun
  <2>4. status' \in [Runs -> Statuses \cup {Missing}]
    BY <1>7, JobLemma DEF CompleteRun, TypeOK, Statuses, Acked
  <2> QED
    BY <1>7, <2>2, <2>3, <2>4 DEF CompleteRun, TypeOK
<1>8. CASE Execute(t)
  <2>1. job[t] \in Ids
    BY <1>8, JobLemma DEF Execute, Unacked
  <2>2. PICK o \in Verdicts :
          /\ outcome' = [outcome EXCEPT ![t] = o]
          /\ effects' = effects \cup {<<job[t], o>>}
    BY <1>8 DEF Execute
  <2>3. /\ effects' \subseteq (1 .. Len(stream)) \X Verdicts
        /\ outcome' \in [Threads -> Verdicts \cup {"none"}]
    BY <2>1, <2>2 DEF TypeOK, Ids
  <2>4. pc' \in [Threads -> Places]
    BY <1>8, GotoTyped DEF Execute, Places, Unacked
  <2>5. JobsOK'
    <3> SUFFICES ASSUME NEW u \in Threads
                 PROVE  JobAt(pc[u], job[u], outcome[u])'
      BY DEF JobsOK
    <3>1. CASE u = t
      <4>1. pc'[u] = "insert_exec" /\ job'[u] = job[t] /\ outcome'[u] = o
        BY <1>8, <2>2, <3>1 DEF Execute, Goto, TypeOK
      <4>2. job[t] # 0 /\ <<job[t], o>> \in effects'
        BY <1>8, <1>j, <2>2 DEF Execute, JobAt, Unacked
      <4> QED
        BY <2>2, <4>1, <4>2 DEF JobAt, Had, Unacked, Acked, Executed, Success,
           Failure
    <3>2. CASE u # t
      <4>1. pc'[u] = pc[u] /\ job'[u] = job[u] /\ outcome'[u] = outcome[u]
        BY <1>8, <2>2, <3>2 DEF Execute, Goto, TypeOK
      <4>2. /\ stream' = stream /\ effects \subseteq effects'
            /\ JobAt(pc[u], job[u], outcome[u])
        BY <1>8, <2>2 DEF Execute, JobsOK
      <4> QED
        BY <4>1, <4>2 DEF JobAt, Had, MayRetry
    <3> QED
      BY <3>1, <3>2
  <2> QED
    BY <1>8, <2>3, <2>4, <2>5 DEF Execute, TypeOK
<1>9. CASE Ack(t)
  <2>1. AfterAck(t) \in Places /\ JobAt(AfterAck(t), job[t], outcome[t])
    BY <1>9, <1>j DEF Ack, AfterAck, JobAt, Places, Verdicts, Unacked, Acked,
       Executed, Success, Failure
  <2>2. pc' \in [Threads -> Places] /\ budget' \in [Hazards -> Nat]
    BY <1>9, <2>1, GotoTyped, CallTyped DEF Ack
  <2>3. JobsOK'
    BY <1>9, <2>1, GotoJobs DEF Ack
  <2>4. pel' \subseteq 1 .. delivered /\ idle' \subseteq pel'
    BY <1>9 DEF Ack, TypeOK
  <2> QED
    BY <1>9, <2>2, <2>3, <2>4 DEF Ack, TypeOK
<1>10. CASE CountSteps(t)
  <2>1. PICK l \in {"enqueue_next", "complete_run"} :
          /\ Goto(t, l)
          /\ (l = "enqueue_next" => MoreSteps(StepOf(t)))
    BY <1>10 DEF CountSteps
  <2>2. l \in Places /\ JobAt(l, job[t], outcome[t])
    BY <1>10, <1>j, <2>1 DEF CountSteps, JobAt, Places, MoreSteps, StepOf,
       Unacked, Acked, Executed, Success, Failure
  <2>3. pc' \in [Threads -> Places] /\ budget' \in [Hazards -> Nat]
    BY <1>10, <2>1, <2>2, GotoTyped, CallTyped DEF CountSteps
  <2>4. JobsOK'
    BY <1>10, <2>1, <2>2, GotoJobs DEF CountSteps
  <2> QED
    BY <1>10, <2>3, <2>4 DEF CountSteps, TypeOK
<1>11. CASE FetchPolicy(t)
  <2>1. PICK l \in {"backoff", "fail_run"} :
          /\ Goto(t, l)
          /\ (l = "backoff" => MayRetry(AttemptOf(t)))
    BY <1>11 DEF FetchPolicy
  <2>2. l \in Places /\ JobAt(l, job[t], outcome[t])
    BY <1>11, <1>j, <2>1 DEF FetchPolicy, JobAt, Places, AttemptOf, Unacked,
       Acked, Executed, Success, Failure
  <2>3. pc' \in [Threads -> Places] /\ budget' \in [Hazards -> Nat]
    BY <1>11, <2>1, <2>2, GotoTyped, CallTyped DEF FetchPolicy
  <2>4. JobsOK'
    BY <1>11, <2>1, <2>2, GotoJobs DEF FetchPolicy
  <2> QED
    BY <1>11, <2>3, <2>4 DEF FetchPolicy, TypeOK
<1>12. CASE Drop(t)
  <2>1. JobsOK'
    BY <1>12, FinishJobs, LenProperties DEF Drop, Grows, TypeOK
  <2>2. pel' \subseteq 1 .. delivered /\ idle' \subseteq pel'
    BY <1>12 DEF Drop, TypeOK
  <2>3. budget' \in [Hazards -> Nat]
    BY <1>12, CallTyped DEF Drop
  <2> QED
    BY <1>12, <2>1, <2>2, <2>3, FinishTyped DEF Drop, TypeOK
<1>13. CASE EnqueueNext(t)
  <2>1. /\ RunOf(t) \in Runs
        /\ StepOf(t) \in Steps
        /\ AttemptOf(t) \in Attempts
    BY <1>13, JobLemma DEF EnqueueNext, Acked
  <2>2. StepOf(t) + 1 \in Steps /\ 1 \in Attempts
    BY <1>13, <1>j, <2>1, RetryInLimit DEF EnqueueNext, JobAt, StepOf,
       AttemptOf, Steps, Attempts, AttemptLimit, EffectiveRetries
  <2>3. budget' \in [Hazards -> Nat] /\ UNCHANGED effects
    BY <1>13, CallTyped DEF EnqueueNext
  <2>4. CASE Enqueue(RunOf(t), StepOf(t) + 1, 1)
    <3>1. Grows
      <4>1. /\ Len(stream) \in Nat /\ Len(stream') = Len(stream) + 1
            /\ \A id \in 1 .. Len(stream) : stream'[id] = stream[id]
        BY <2>1, <2>2, <2>4, EnqueueLemma DEF TypeOK
      <4> QED
        BY <2>3, <4>1 DEF Grows, Ids
    <3>2. JobsOK'
      BY <1>13, <3>1, FinishJobs DEF EnqueueNext
    <3> QED
      BY <1>13, <2>1, <2>2, <2>3, <2>4, <3>2, EnqueueTyped, FinishTyped DEF
         EnqueueNext, TypeOK
  <2>5. CASE UNCHANGED stream
    <3>1. JobsOK'
      BY <1>13, <2>5, FinishJobs, LenProperties DEF EnqueueNext, Grows, TypeOK
    <3> QED
      BY <1>13, <2>3, <2>5, <3>1, FinishTyped DEF EnqueueNext, TypeOK
  <2> QED
    BY <1>13, <2>4, <2>5 DEF EnqueueNext
<1>14. CASE EnqueueRetry(t)
  <2>1. /\ RunOf(t) \in Runs
        /\ StepOf(t) \in Steps
        /\ AttemptOf(t) \in Attempts
    BY <1>14, JobLemma DEF EnqueueRetry, Acked
  <2>2. AttemptOf(t) + 1 \in Attempts
    BY <1>14, <1>j, <2>1, RetryInLimit DEF EnqueueRetry, JobAt, StepOf,
       AttemptOf, Steps
  <2>3. budget' \in [Hazards -> Nat] /\ UNCHANGED effects
    BY <1>14, CallTyped DEF EnqueueRetry
  <2>4. CASE Enqueue(RunOf(t), StepOf(t), AttemptOf(t) + 1)
    <3>1. Grows
      <4>1. /\ Len(stream) \in Nat /\ Len(stream') = Len(stream) + 1
            /\ \A id \in 1 .. Len(stream) : stream'[id] = stream[id]
        BY <2>1, <2>2, <2>4, EnqueueLemma DEF TypeOK
      <4> QED
        BY <2>3, <4>1 DEF Grows, Ids
    <3>2. JobsOK'
      BY <1>14, <3>1, FinishJobs DEF EnqueueRetry
    <3> QED
      BY <1>14, <2>1, <2>2, <2>3, <2>4, <3>2, EnqueueTyped, FinishTyped DEF
         EnqueueRetry, TypeOK
  <2>5. CASE UNCHANGED stream
    <3>1. JobsOK'
      BY <1>14, <2>5, FinishJobs, LenProperties DEF EnqueueRetry, Grows, TypeOK
    <3> QED
      BY <1>14, <2>3, <2>5, <3>1, FinishTyped DEF EnqueueRetry, TypeOK
  <2> QED
    BY <1>14, <2>4, <2>5 DEF EnqueueRetry
<1>15. CASE Backoff(t)
  <2>1. budget' \in [Hazards -> Nat]
    BY <1>15 DEF Backoff, TypeOK
  <2>2. CASE Goto(t, "recheck") /\ UNCHANGED work
    <3>1. "recheck" \in Places /\ JobAt("recheck", job[t], outcome[t])
      BY <1>15, <1>j DEF Backoff, JobAt, Places, Unacked, Acked, Executed,
         Success, Failure
    <3>2. pc' \in [Threads -> Places] /\ JobsOK'
      BY <1>15, <2>2, <3>1, GotoTyped, GotoJobs DEF Backoff
    <3> QED
      BY <1>15, <2>1, <2>2, <3>2 DEF Backoff, TypeOK
  <2>3. CASE Finish(t)
    <3>1. JobsOK'
      BY <1>15, <2>3, FinishJobs, LenProperties DEF Backoff, Grows, TypeOK
    <3> QED
      BY <1>15, <2>1, <2>3, <3>1, FinishTyped DEF Backoff, TypeOK
  <2> QED
    BY <1>15, <2>2, <2>3 DEF Backoff
<1>16. CASE Recheck(t)
  <2>1. budget' \in [Hazards -> Nat]
    BY <1>16, CallTyped DEF Recheck
  <2>2. CASE Goto(t, "enqueue_retry") /\ UNCHANGED work
    <3>1. "enqueue_retry" \in Places /\ JobAt("enqueue_retry", job[t],
      outcome[t])
      BY <1>16, <1>j DEF Recheck, JobAt, Places, Unacked, Acked, Executed,
         Success, Failure
    <3>2. pc' \in [Threads -> Places] /\ JobsOK'
      BY <1>16, <2>2, <3>1, GotoTyped, GotoJobs DEF Recheck
    <3> QED
      BY <1>16, <2>1, <2>2, <3>2 DEF Recheck, TypeOK
  <2>3. CASE Finish(t)
    <3>1. JobsOK'
      BY <1>16, <2>3, FinishJobs, LenProperties DEF Recheck, Grows, TypeOK
    <3> QED
      BY <1>16, <2>1, <2>3, <3>1, FinishTyped DEF Recheck, TypeOK
  <2> QED
    BY <1>16, <2>2, <2>3 DEF Recheck
<1>17. CASE MarkRunFailed(t)
  <2>1. PICK l \in {"pub_aborted", "pub_run_failed"} :
          /\ Goto(t, l)
          /\ (l = "pub_aborted" <=> pc[t] = "abort_run")
          /\ pc[t] \in {"abort_run", "fail_run"}
    BY <1>17 DEF MarkRunFailed
  <2>2. l \in Places /\ JobAt(l, job[t], outcome[t])
    BY <1>17, <1>j, <2>1 DEF MarkRunFailed, JobAt, Places, Unacked, Acked,
       Executed, Success, Failure
  <2>3. pc' \in [Threads -> Places] /\ budget' \in [Hazards -> Nat]
    BY <1>17, <2>1, <2>2, GotoTyped, CallTyped DEF MarkRunFailed
  <2>4. JobsOK'
    BY <1>17, <2>1, <2>2, GotoJobs DEF MarkRunFailed
  <2>5. status' \in [Runs -> Statuses \cup {Missing}]
    BY <1>17, <2>1, JobLemma DEF MarkRunFailed, TypeOK, Statuses, Unacked,
       Acked
  <2> QED
    BY <1>17, <2>3, <2>4, <2>5 DEF MarkRunFailed, TypeOK
<1>18. CASE PublishRunning(t)
  <2>1. /\ "pub_running" \in Unacked \cup Acked
        /\ "run.status_changed" \in EventTypes
        /\ "read_context" \in Places
    BY DEF Unacked, Acked, EventTypes, Places
  <2>2. JobAt("pub_running", job[t], outcome[t]) => JobAt("read_context",
    job[t], outcome[t])
    BY DEF JobAt, Unacked, Acked, Executed, Success, Failure
  <2> QED
    BY <1>18, <2>1, <2>2, PublishKeeps DEF PublishRunning
<1>19. CASE PublishStarted(t)
  <2>1. /\ "pub_started" \in Unacked \cup Acked
        /\ "step.started" \in EventTypes
        /\ "execute" \in Places
    BY DEF Unacked, Acked, EventTypes, Places
  <2>2. JobAt("pub_started", job[t], outcome[t]) => JobAt("execute", job[t],
    outcome[t])
    BY DEF JobAt, Unacked, Acked, Executed, Success, Failure
  <2> QED
    BY <1>19, <2>1, <2>2, PublishKeeps DEF PublishStarted
<1>20. CASE PublishStepCompleted(t)
  <2>1. /\ "pub_step_completed" \in Unacked \cup Acked
        /\ "step.completed" \in EventTypes
        /\ "save_context" \in Places
    BY DEF Unacked, Acked, EventTypes, Places
  <2>2. JobAt("pub_step_completed", job[t], outcome[t]) =>
    JobAt("save_context", job[t], outcome[t])
    BY DEF JobAt, Unacked, Acked, Executed, Success, Failure
  <2> QED
    BY <1>20, <2>1, <2>2, PublishKeeps DEF PublishStepCompleted
<1>21. CASE PublishStepFailed(t)
  <2>1. /\ "pub_step_failed" \in Unacked \cup Acked
        /\ "step.failed" \in EventTypes
        /\ "fetch_policy" \in Places
    BY DEF Unacked, Acked, EventTypes, Places
  <2>2. JobAt("pub_step_failed", job[t], outcome[t]) => JobAt("fetch_policy",
    job[t], outcome[t])
    BY DEF JobAt, Unacked, Acked, Executed, Success, Failure
  <2> QED
    BY <1>21, <2>1, <2>2, PublishKeeps DEF PublishStepFailed
<1>22. CASE PublishAborted(t)
  <2>1. /\ "pub_aborted" \in Unacked \cup Acked
        /\ "run.failed" \in EventTypes
        /\ "drop" \in Places
    BY DEF Unacked, Acked, EventTypes, Places
  <2>2. JobAt("pub_aborted", job[t], outcome[t]) => JobAt("drop", job[t],
    outcome[t])
    BY DEF JobAt, Unacked, Acked, Executed, Success, Failure
  <2> QED
    BY <1>22, <2>1, <2>2, PublishKeeps DEF PublishAborted
<1>23. CASE PublishRunCompleted(t)
  <2>1. /\ "pub_run_completed" \in Unacked \cup Acked
        /\ "run.completed" \in EventTypes
    BY DEF Acked, EventTypes
  <2> QED
    BY <1>23, <2>1, PublishLastKeeps DEF PublishRunCompleted
<1>24. CASE PublishRunFailed(t)
  <2>1. /\ "pub_run_failed" \in Unacked \cup Acked
        /\ "run.failed" \in EventTypes
    BY DEF Acked, EventTypes
  <2> QED
    BY <1>24, <2>1, PublishLastKeeps DEF PublishRunFailed
<1> QED
  BY <1>1, <1>2, <1>3, <1>4, <1>5, <1>6, <1>7, <1>8, <1>9, <1>10, <1>11,
     <1>12, <1>13, <1>14, <1>15, <1>16, <1>17, <1>18, <1>19, <1>20, <1>21,
       <1>22, <1>23, <1>24 DEF Process

LEMMA OtherStepsKeep ==
  ASSUME TypeOK, JobsOK, NEW t \in Threads,
         ReadGroup(t) \/ Recover(t) \/ Exit(t)
  PROVE  TypeOK' /\ JobsOK'
<1> USE DEF db, redis, work, http, ghost, At
<1>j. JobAt(pc[t], job[t], outcome[t])
  BY DEF JobsOK
<1>g. Len(stream) \in Nat /\ delivered \in 0 .. Len(stream)
  BY LenProperties DEF TypeOK
<1>1. CASE ReadGroup(t)
  <2>1. delivered' = delivered + 1 /\ delivered' \in 1 .. Len(stream)
    BY <1>1, <1>g DEF ReadGroup
  <2>2. /\ pel' \subseteq 1 .. delivered' /\ idle' \subseteq pel'
        /\ todo' \in [Threads -> SUBSET (1 .. delivered')]
    BY <1>1, <1>g, <2>1 DEF ReadGroup, TypeOK
  <2>3. budget' \in [Hazards -> Nat]
    BY <1>1, SpendTyped DEF ReadGroup, Hazards, TypeOK
  <2>4. CASE UNCHANGED <<pc, job>>
    <3>1. JobsOK'
      BY <1>1, <2>4 DEF ReadGroup, JobsOK, JobAt, Had, MayRetry
    <3>2. job' \in [Threads -> 0 .. delivered']
      BY <2>1, <2>4, <1>g DEF TypeOK
    <3> QED
      BY <1>1, <1>g, <2>1, <2>2, <2>3, <2>4, <3>1, <3>2 DEF ReadGroup, TypeOK
  <2>5. CASE Goto(t, "fetch_status") /\ job' = [job EXCEPT ![t] = delivered + 1]
    <3>1. job' \in [Threads -> 0 .. delivered']
      BY <2>1, <2>5, <1>g DEF TypeOK
    <3>2. pc' \in [Threads -> Places]
      BY <2>5, GotoTyped DEF Places, Unacked
    <3>3. JobsOK'
      <4> SUFFICES ASSUME NEW u \in Threads
                   PROVE  JobAt(pc[u], job[u], outcome[u])'
        BY DEF JobsOK
      <4>1. CASE u = t
        <5>1. pc'[u] = "fetch_status" /\ job'[u] # 0
          BY <1>g, <2>5, <4>1 DEF Goto, TypeOK
        <5> QED
          BY <5>1 DEF JobAt, Unacked, Acked, Executed, Success, Failure
      <4>2. CASE u # t
        <5>1. /\ pc'[u] = pc[u] /\ job'[u] = job[u] /\ outcome'[u] = outcome[u]
              /\ stream' = stream /\ effects' = effects
              /\ JobAt(pc[u], job[u], outcome[u])
          BY <1>1, <2>5, <4>2 DEF ReadGroup, Goto, TypeOK, JobsOK
        <5> QED
          BY <5>1 DEF JobAt, Had, MayRetry
      <4> QED
        BY <4>1, <4>2
    <3> QED
      BY <1>1, <1>g, <2>1, <2>2, <2>3, <3>1, <3>2, <3>3 DEF ReadGroup, TypeOK
  <2> QED
    BY <1>1, <2>4, <2>5 DEF ReadGroup
<1>2. CASE Scan(t)
  <2>1. "claiming" \in Places /\ JobAt("claiming", job[t], outcome[t])
    BY <1>2, <1>j DEF Scan, JobAt, Places, Unacked, Acked, Resting, Executed,
       Success, Failure
  <2>2. pc' \in [Threads -> Places] /\ JobsOK'
    BY <1>2, <2>1, GotoTyped, GotoJobs DEF Scan
  <2>3. todo' \in [Threads -> SUBSET (1 .. delivered)]
    BY <1>2 DEF Scan, TypeOK
  <2> QED
    BY <1>2, <2>2, <2>3, CallTyped DEF Scan, TypeOK
<1>3. CASE ScanDone(t)
  <2>1. "ticking" \in Places /\ JobAt("ticking", job[t], outcome[t])
    BY <1>3, <1>j DEF ScanDone, JobAt, Places, Unacked, Acked, Resting, Executed,
       Success, Failure
  <2>2. pc' \in [Threads -> Places] /\ JobsOK'
    BY <1>3, <2>1, GotoTyped, GotoJobs DEF ScanDone
  <2> QED
    BY <1>3, <2>2 DEF ScanDone, TypeOK
<1>4. CASE IdempotencyCheck(t)
  <2>1. budget' \in [Hazards -> Nat]
    BY <1>4, CallTyped DEF IdempotencyCheck
  <2>2. CASE Goto(t, AfterCheck(t)) /\ UNCHANGED work
    <3>1. AfterCheck(t) \in Places /\ JobAt(AfterCheck(t), job[t], outcome[t])
      BY <1>4, <1>j DEF IdempotencyCheck, AfterCheck, JobAt, Places, Unacked,
         Acked, Executed, Success, Failure
    <3>2. pc' \in [Threads -> Places] /\ JobsOK'
      BY <1>4, <2>2, <3>1, GotoTyped, GotoJobs DEF IdempotencyCheck
    <3> QED
      BY <1>4, <2>1, <2>2, <3>2 DEF IdempotencyCheck, TypeOK
  <2>3. CASE Finish(t)
    <3>1. JobsOK'
      BY <1>4, <1>g, <2>3, FinishJobs DEF IdempotencyCheck, Grows
    <3> QED
      BY <1>4, <2>1, <2>3, <3>1, FinishTyped DEF IdempotencyCheck, TypeOK
  <2> QED
    BY <1>4, <2>2, <2>3 DEF IdempotencyCheck
<1>5. ASSUME NEW id \in todo[t], Claim(t, id)
      PROVE  TypeOK' /\ JobsOK'
  <2>1. /\ budget' \in [Hazards -> Nat] /\ idle' \subseteq pel'
        /\ todo' \in [Threads -> SUBSET (1 .. delivered)]
    BY <1>5, CallTyped DEF Claim, TypeOK
  <2>2. CASE UNCHANGED <<job, pc>>
    <3>1. JobsOK'
      BY <1>5, <2>2 DEF Claim, JobsOK, JobAt, Had, MayRetry
    <3> QED
      BY <1>5, <2>1, <2>2, <3>1 DEF Claim, TypeOK
  <2>3. CASE Goto(t, "idem_check") /\ job' = [job EXCEPT ![t] = id]
    <3>1. id \in 1 .. delivered
      BY DEF TypeOK
    <3>2. job' \in [Threads -> 0 .. delivered]
      BY <2>3, <3>1 DEF TypeOK
    <3>3. pc' \in [Threads -> Places]
      BY <2>3, GotoTyped DEF Places, Unacked
    <3>4. JobsOK'
      <4> SUFFICES ASSUME NEW u \in Threads
                   PROVE  JobAt(pc[u], job[u], outcome[u])'
        BY DEF JobsOK
      <4>1. CASE u = t
        <5>1. pc'[u] = "idem_check" /\ job'[u] # 0
          BY <2>3, <3>1, <4>1 DEF Goto, TypeOK
        <5> QED
          BY <5>1 DEF JobAt, Unacked, Acked, Executed, Success, Failure
      <4>2. CASE u # t
        <5>1. /\ pc'[u] = pc[u] /\ job'[u] = job[u] /\ outcome'[u] = outcome[u]
              /\ stream' = stream /\ effects' = effects
              /\ JobAt(pc[u], job[u], outcome[u])
          BY <1>5, <2>3, <4>2 DEF Claim, Goto, TypeOK, JobsOK
        <5> QED
          BY <5>1 DEF JobAt, Had, MayRetry
      <4> QED
        BY <4>1, <4>2
    <3> QED
      BY <1>5, <2>1, <3>2, <3>3, <3>4 DEF Claim, TypeOK
  <2> QED
    BY <1>5, <2>2, <2>3 DEF Claim
<1>6. CASE Exit(t)
  <2>1. "exited" \in Places /\ JobAt("exited", job[t], outcome[t])
    BY <1>6, <1>j DEF Exit, JobAt, Places, Unacked, Acked, Resting, Executed,
       Success, Failure
  <2>2. pc' \in [Threads -> Places] /\ JobsOK'
    BY <1>6, <2>1, GotoTyped, GotoJobs DEF Exit
  <2> QED
    BY <1>6, <2>2 DEF Exit, TypeOK
<1> QED
  BY <1>1, <1>2, <1>3, <1>4, <1>5, <1>6 DEF Recover

LEMMA ServerStepsKeep ==
  ASSUME TypeOK, JobsOK, DownOK, NEW i \in Instances,
         Handlers(i) \/ Lifetime(i)
  PROVE  TypeOK' /\ JobsOK'
<1> USE DEF db, redis, local, work, http, ghost
<1>g. Len(stream) \in Nat
  BY LenProperties DEF TypeOK
<1>1. ASSUME NEW r \in Runs, CreateInsert(i, r) \/ CancelRead(i, r) \/ CancelWrite(i, r)
      PROVE  TypeOK' /\ JobsOK'
  <2>1. status' \in [Runs -> Statuses \cup {Missing}]
    BY <1>1 DEF CreateInsert, CancelRead, CancelWrite, TypeOK, Statuses
  <2>4. creating' \in [Runs -> Instances \cup {NoInstance}]
    BY <1>1 DEF CreateInsert, CancelRead, CancelWrite, TypeOK
  <2>5. cancelling' \in [Runs -> Instances \cup {NoInstance}]
    BY <1>1 DEF CreateInsert, CancelRead, CancelWrite, TypeOK
  <2>2. budget' \in [Hazards -> Nat]
    BY <1>1, SpendTyped DEF CreateInsert, CancelRead, CancelWrite, TypeOK, Hazards
  <2>3. JobsOK'
    BY <1>1 DEF CreateInsert, CancelRead, CancelWrite, JobsOK, JobAt, Had, MayRetry
  <2> QED
    BY <1>1, <2>1, <2>2, <2>3, <2>4, <2>5 DEF CreateInsert, CancelRead, CancelWrite, TypeOK
<1>2. ASSUME NEW r \in Runs, CreateEnqueue(i, r)
      PROVE  TypeOK' /\ JobsOK'
  <2>1. /\ creating' \in [Runs -> Instances \cup {NoInstance}]
        /\ budget' \in [Hazards -> Nat]
    BY <1>2, SpendTyped DEF CreateEnqueue, TypeOK, Hazards
  <2>2. 0 \in Steps /\ 1 \in Attempts
    BY DEF Steps, Attempts, AttemptLimit, EffectiveRetries
  <2>3. CASE UNCHANGED stream
    <3>1. JobsOK'
      BY <1>2, <2>3 DEF CreateEnqueue, JobsOK, JobAt, Had, MayRetry
    <3> QED
      BY <1>2, <2>1, <2>3, <3>1 DEF CreateEnqueue, TypeOK
  <2>4. CASE Enqueue(r, 0, 1)
    <3>1. \A id \in Ids : stream'[id] = stream[id]
      BY <2>2, <2>4, EnqueueLemma DEF Ids, TypeOK
    <3>2. JobsOK'
      <4> SUFFICES ASSUME NEW u \in Threads
                   PROVE  JobAt(pc[u], job[u], outcome[u])'
        BY DEF JobsOK
      <4>1. pc[u] \in Unacked \cup Acked => stream'[job[u]] = stream[job[u]]
        BY <3>1, JobLemma
      <4>2. /\ pc' = pc /\ job' = job /\ outcome' = outcome /\ effects' = effects
            /\ JobAt(pc[u], job[u], outcome[u])
        BY <1>2 DEF CreateEnqueue, JobsOK
      <4>3. \A l \in {"enqueue_next", "backoff", "recheck", "enqueue_retry"} :
              pc[u] = l => stream'[job[u]] = stream[job[u]]
        BY <4>1 DEF Acked
      <4> QED
        BY <4>2, <4>3 DEF JobAt, Had, MayRetry
    <3> QED
      BY <1>2, <2>1, <2>2, <2>4, <3>2, EnqueueTyped DEF CreateEnqueue, TypeOK
  <2> QED
    BY <1>2, <2>3, <2>4 DEF CreateEnqueue
<1>3. CASE Stop(i) \/ StopDone(i)
  <2>1. budget' \in [Hazards -> Nat]
    BY <1>3, SpendTyped DEF Stop, StopDone, TypeOK, Hazards
  <2>2. JobsOK'
    BY <1>3 DEF Stop, StopDone, JobsOK, JobAt, Had, MayRetry
  <2> QED
    BY <1>3, <2>1, <2>2 DEF Stop, StopDone, TypeOK
<1>4. CASE Crash(i)
  <2>1. "exited" \in Places /\ 0 \in Contexts /\ 0 \in 0 .. delivered
    BY <1>g DEF Places, Resting, Contexts, Empty, TypeOK
  <2>2. /\ pc' \in [Threads -> Places] /\ job' \in [Threads -> 0 .. delivered]
        /\ outcome' \in [Threads -> Verdicts \cup {"none"}]
        /\ input' \in [Threads -> Contexts]
        /\ todo' \in [Threads -> SUBSET (1 .. delivered)]
    BY <1>4, <2>1 DEF Crash, TypeOK
  <2>3. /\ creating' \in [Runs -> Instances \cup {NoInstance}]
        /\ cancelling' \in [Runs -> Instances \cup {NoInstance}]
        /\ inst' \in [Instances -> {"up", "stopping", "down"}]
        /\ budget' \in [Hazards -> Nat]
    BY <1>4, SpendTyped DEF Crash, TypeOK, Hazards
  <2>4. JobsOK'
    <3> SUFFICES ASSUME NEW u \in Threads
                 PROVE  JobAt(pc[u], job[u], outcome[u])'
      BY DEF JobsOK
    <3>1. stream' = stream /\ effects' = effects /\ JobAt(pc[u], job[u], outcome[u])
      BY <1>4 DEF Crash, JobsOK
    <3>2. \/ pc'[u] = "exited" /\ job'[u] = 0
          \/ pc'[u] = pc[u] /\ job'[u] = job[u] /\ outcome'[u] = outcome[u]
      BY <1>4 DEF Crash
    <3>3. CASE pc'[u] = "exited" /\ job'[u] = 0
      BY <3>3 DEF JobAt, Unacked, Acked, Executed, Success, Failure
    <3>4. CASE pc'[u] = pc[u] /\ job'[u] = job[u] /\ outcome'[u] = outcome[u]
      BY <3>1, <3>4 DEF JobAt, Had, MayRetry
    <3> QED
      BY <3>2, <3>3, <3>4
  <2> QED
    BY <1>4, <2>2, <2>3, <2>4 DEF Crash, TypeOK
<1>5. CASE Restart(i)
  <2>1. pc' \in [Threads -> Places]
    BY <1>5 DEF Restart, TypeOK, Start, Places, Resting
  <2>2. inst' \in [Instances -> {"up", "stopping", "down"}]
    BY <1>5 DEF Restart, TypeOK
  <2>3. JobsOK'
    <3> SUFFICES ASSUME NEW u \in Threads
                 PROVE  JobAt(pc[u], job[u], outcome[u])'
      BY DEF JobsOK
    <3>1. /\ stream' = stream /\ effects' = effects /\ JobAt(pc[u], job[u], outcome[u])
          /\ job'[u] = job[u] /\ outcome'[u] = outcome[u]
      BY <1>5 DEF Restart, JobsOK
    <3>2. CASE HostOf[u] = i
      <4>1. pc[u] = "exited"
        BY <1>5, <3>2 DEF Restart, DownOK
      <4>2. job'[u] = 0
        BY <3>1, <4>1 DEF JobAt, Unacked, Acked
      <4>3. pc'[u] \in Resting
        BY <1>5, <3>2 DEF Restart, Start, Resting
      <4> QED
        BY <4>2, <4>3 DEF JobAt, Resting, Unacked, Acked, Executed, Success, Failure
    <3>3. CASE HostOf[u] # i
      <4>1. pc'[u] = pc[u]
        BY <1>5, <3>3 DEF Restart
      <4> QED
        BY <3>1, <4>1 DEF JobAt, Had, MayRetry
    <3> QED
      BY <3>2, <3>3
  <2> QED
    BY <1>5, <2>1, <2>2, <2>3 DEF Restart, TypeOK
<1> QED
  BY <1>1, <1>2, <1>3, <1>4, <1>5 DEF Handlers, Lifetime

-----------------------------------------------------------------------------
(* A step of one goroutine leaves the others, the processes and the        *)
(* request handlers alone.                                                 *)

LEMMA ThreadFrame ==
  ASSUME TypeOK, NEW t \in Threads, ThreadStep(t)
  PROVE  /\ pc[t] # "exited"
         /\ UNCHANGED <<inst, http>>
         /\ \A u \in Threads \ {t} : /\ pc'[u] = pc[u] /\ job'[u] = job[u]
                                     /\ outcome'[u] = outcome[u]
<1> USE DEF work, http, At, Goto, TypeOK
<1>1. CASE ReadGroup(t)
  BY <1>1 DEF ReadGroup
<1>2. CASE Exit(t)
  BY <1>2 DEF Exit
<1>3. CASE Recover(t)
  BY <1>3 DEF Recover, Scan, ScanDone, IdempotencyCheck, Claim, Finish
<1>4. CASE Process(t)
  <2>1. CASE PublishRunning(t) \/ PublishStarted(t) \/ PublishStepCompleted(t)
             \/ PublishRunCompleted(t) \/ PublishStepFailed(t)
             \/ PublishAborted(t) \/ PublishRunFailed(t)
    BY <2>1 DEF PublishRunning, PublishStarted, PublishStepCompleted,
       PublishRunCompleted, PublishStepFailed, PublishAborted, PublishRunFailed,
       Publish, PublishLast, Finish
  <2>2. CASE FetchStatus(t) \/ Drop(t) \/ FetchStep(t) \/ SetRunning(t)
             \/ ReadContext(t) \/ Execute(t) \/ InsertExec(t) \/ Ack(t)
    BY <2>2 DEF FetchStatus, Drop, FetchStep, SetRunning, ReadContext, Execute,
       InsertExec, Ack, Finish
  <2>3. CASE SaveContext(t) \/ CountSteps(t) \/ EnqueueNext(t)
             \/ CompleteRun(t) \/ MarkRunFailed(t)
    BY <2>3 DEF SaveContext, CountSteps, EnqueueNext, CompleteRun, MarkRunFailed,
       Finish
  <2>4. CASE FetchPolicy(t) \/ Backoff(t) \/ Recheck(t) \/ EnqueueRetry(t)
    BY <2>4 DEF FetchPolicy, Backoff, Recheck, EnqueueRetry, Finish
  <2> QED
    BY <1>4, <2>1, <2>2, <2>3, <2>4 DEF Process
<1> QED
  BY <1>1, <1>2, <1>3, <1>4 DEF ThreadStep

LEMMA DownKeeps ==
  ASSUME TypeOK, DownOK, Next
  PROVE  DownOK'
<1>1. ASSUME NEW t \in Threads, ThreadStep(t)
      PROVE  DownOK'
  BY <1>1, ThreadFrame DEF DownOK
<1>2. ASSUME NEW id \in pel, Age(id)
      PROVE  DownOK'
  BY <1>2 DEF Age, local, DownOK
<1>3. ASSUME NEW i \in Instances, Handlers(i)
      PROVE  DownOK'
  BY <1>3 DEF Handlers, CreateInsert, CreateEnqueue, CancelRead, CancelWrite,
     local, DownOK
<1>4. ASSUME NEW i \in Instances, Lifetime(i)
      PROVE  DownOK'
  <2>1. \A t \in Threads : HostOf[t] \in Instances
    OBVIOUS
  <2>2. CASE Stop(i)
    BY <2>1, <2>2 DEF Stop, local, DownOK, TypeOK
  <2>3. CASE StopDone(i)
    BY <2>1, <2>3 DEF StopDone, local, At, DownOK, TypeOK
  <2>4. CASE Crash(i)
    BY <2>1, <2>4 DEF Crash, DownOK, TypeOK
  <2>5. CASE Restart(i)
    BY <2>1, <2>5 DEF Restart, DownOK, TypeOK
  <2> QED
    BY <1>4, <2>2, <2>3, <2>4, <2>5 DEF Lifetime
<1> QED
  BY <1>1, <1>2, <1>3, <1>4 DEF Next

IInv == TypeOK /\ JobsOK /\ DownOK

LEMMA TypingStep ==
  IInv /\ [Next]_vars => IInv'
<1> SUFFICES ASSUME IInv, [Next]_vars PROVE IInv'
  OBVIOUS
<1> USE DEF IInv
<1>1. CASE UNCHANGED vars
  <2>1. TypeOK'
    BY <1>1 DEF vars, db, redis, work, local, http, ghost, TypeOK
  <2>2. JobsOK' /\ DownOK'
    BY <1>1 DEF vars, db, redis, work, local, http, ghost, JobsOK, JobAt, Had,
       MayRetry, DownOK
  <2> QED
    BY <2>1, <2>2
<1>2. CASE Next
  <2>1. ASSUME NEW t \in Threads, ThreadStep(t)
        PROVE  TypeOK' /\ JobsOK'
    BY <2>1, ProcessKeeps, OtherStepsKeep DEF ThreadStep
  <2>2. ASSUME NEW id \in pel, Age(id)
        PROVE  TypeOK' /\ JobsOK'
    <3>1. budget' \in [Hazards -> Nat]
      BY <2>2, SpendTyped DEF Age, TypeOK, Hazards
    <3>2. JobsOK'
      BY <2>2 DEF Age, local, work, ghost, JobsOK, JobAt, Had, MayRetry
    <3> QED
      BY <2>2, <3>1, <3>2 DEF Age, db, local, work, http, ghost, TypeOK
  <2>3. ASSUME NEW i \in Instances, Handlers(i) \/ Lifetime(i)
        PROVE  TypeOK' /\ JobsOK'
    BY <2>3, ServerStepsKeep
  <2> QED
    BY <1>2, <2>1, <2>2, <2>3, DownKeeps DEF Next
<1> QED
  BY <1>1, <1>2

LEMMA InductiveInv == Spec => []IInv
<1>1. Init => IInv
  BY InitTyped DEF IInv
<1> QED
  BY <1>1, TypingStep, PTL DEF Spec

(* Type correctness: the state of RunEngine stays in TypeOK, whatever the  *)
(* constants are. In particular no goroutine ever works on an id that is   *)
(* not in the stream, and what is pending or recorded was delivered.       *)
THEOREM TypeCorrect == Spec => []TypeOK
BY InductiveInv, PTL DEF IInv
=============================================================================
