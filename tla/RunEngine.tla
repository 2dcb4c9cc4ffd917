----------------------------- MODULE RunEngine -----------------------------
(***************************************************************************)
(* The run engine of FlowForge: the HTTP handlers that create and cancel a *)
(* run, the Redis stream that carries one message per step attempt, and    *)
(* the worker pools that consume it.                                       *)
(*                                                                         *)
(*   handler.RunHandler   Create, Cancel        internal/handler/run.go    *)
(*   worker.Pool          consume, processMessage, handleStepFailure,      *)
(*                        recoverOrphaned, doRecovery                      *)
(*                                              internal/worker/worker.go  *)
(*   main                 start, graceful stop  cmd/server/main.go         *)
(*                                                                         *)
(* A process step is one call to PostgreSQL, Redis or an action; whatever  *)
(* other goroutines and servers do may come between two of them.           *)
(***************************************************************************)
EXTENDS Integers, Sequences, FiniteSets

CONSTANTS
  Runs,           \* run ids (rows of workflow_runs)
  NumSteps,       \* steps of the workflow, numbered from 0
  MaxRetries,     \* retry_policy.max_retries as it is stored
  Instances,      \* server processes
  Consumers,      \* goroutines running Pool.consume, over all instances
  Recoverers,     \* goroutines running Pool.recoverOrphaned
  HostOf,         \* the instance a goroutine belongs to
  RecoveryBatch,  \* entries one XPENDING returns (100 in the code)
  NoInstance,     \* no request handler is in flight
  Budget          \* how often each hazard may occur in a behaviour

Threads == Consumers \cup Recoverers
Hazards == {"crash", "stop", "fault", "overrun", "cancel"}

ASSUME StepsAssumption    == NumSteps \in Nat \ {0}
ASSUME RetriesAssumption  == MaxRetries \in Int
ASSUME ThreadsAssumption  == /\ Consumers \cap Recoverers = {}
                             /\ HostOf \in [Threads -> Instances]
ASSUME InstanceAssumption == NoInstance \notin Instances
ASSUME BatchAssumption    == RecoveryBatch \in Nat \ {0}
ASSUME BudgetAssumption   == Budget \in [Hazards -> Nat]

-----------------------------------------------------------------------------
(* RetryPolicy.WithDefaults, and the number of attempts it allows a step.  *)
EffectiveRetries == IF MaxRetries = 0 THEN 3 ELSE MaxRetries
AttemptLimit     == IF EffectiveRetries > 0 THEN EffectiveRetries + 1 ELSE 1

Steps    == 0 .. NumSteps - 1
Attempts == 1 .. AttemptLimit
Verdicts == {"completed", "failed"}
Statuses == {"pending", "running", "completed", "failed", "cancelled"}
Active   == {"pending", "running"}
Terminal == Statuses \ Active
Missing  == "none"              \* the run has no row yet

(* A value of workflow_runs.context: 0 is the one given to Create, s + 1   *)
(* the output of step s, and Empty the `{}` used when it cannot be read.   *)
Empty    == -1
Contexts == Empty .. NumSteps

EventTypes == {"run.status_changed", "step.started", "step.completed",
               "step.failed", "run.completed", "run.failed"}
Message    == [run : Runs, step : Steps, attempt : Attempts]
Event      == [type : EventTypes, run : Runs, step : Steps]

(* Where a goroutine can stand.  Up to "ack" a goroutine works on a        *)
(* message it has not acknowledged; after it, on a finished attempt.       *)
Unacked  == {"idem_check", "drop", "fetch_status", "fetch_step", "abort_run",
             "pub_aborted", "set_running", "pub_running", "read_context",
             "pub_started", "execute", "insert_exec", "ack"}
Acked    == {"pub_step_completed", "save_context", "count_steps",
             "enqueue_next", "complete_run", "pub_run_completed",
             "pub_step_failed", "fetch_policy", "fail_run", "pub_run_failed",
             "backoff", "recheck", "enqueue_retry"}
Resting  == {"reading", "ticking", "claiming", "exited"}
Places   == Unacked \cup Acked \cup Resting

VARIABLES
  (* PostgreSQL *)
  status,       \* workflow_runs.status, Missing before the INSERT
  currentStep,  \* workflow_runs.current_step
  context,      \* workflow_runs.context
  execs,        \* step_executions: [attempt, status]
  (* Redis: the stream flowforge:steps and its consumer group *)
  stream,       \* every message ever added; its position is its id
  delivered,    \* last-delivered id of the group
  pel,          \* pending entries: delivered, not acknowledged
  idle,         \* pending entries idle for recovery_idle_threshold or more
  (* goroutines of the pools *)
  pc, job,      \* position, and id of the message being worked on (0: none)
  outcome,      \* outcome of the action executed for job
  input,        \* run context the action is executed with
  todo,         \* entries of the last XPENDING still to be looked at
  (* request handlers between their two calls *)
  creating, cancelling,
  (* processes *)
  inst,
  (* observations: published events, executed actions *)
  feed, effects,
  budget        \* what is left of Budget

db    == <<status, currentStep, context, execs>>
redis == <<stream, delivered, pel, idle>>
work  == <<job, outcome, input, todo>>
local == <<pc, work>>
http  == <<creating, cancelling>>
ghost == <<feed, effects>>
vars  == <<db, redis, local, http, inst, ghost, budget>>

TypeOK ==
  /\ status \in [Runs -> Statuses \cup {Missing}]
  /\ currentStep \in [Runs -> Steps]
  /\ context \in [Runs -> Contexts]
  /\ stream \in Seq(Message)
  /\ execs \subseteq [attempt : 1 .. Len(stream), status : Verdicts]
  /\ delivered \in 0 .. Len(stream)
  /\ pel \subseteq 1 .. delivered
  /\ idle \subseteq pel
  /\ pc \in [Threads -> Places]
  /\ job \in [Threads -> 0 .. delivered]
  /\ outcome \in [Threads -> Verdicts \cup {"none"}]
  /\ input \in [Threads -> Contexts]
  /\ todo \in [Threads -> SUBSET (1 .. delivered)]
  /\ creating \in [Runs -> Instances \cup {NoInstance}]
  /\ cancelling \in [Runs -> Instances \cup {NoInstance}]
  /\ inst \in [Instances -> {"up", "stopping", "down"}]
  /\ feed \subseteq Event
  /\ effects \subseteq (1 .. Len(stream)) \X Verdicts
  /\ budget \in [Hazards -> Nat]

Start(t) == IF t \in Consumers THEN "reading" ELSE "ticking"

Init ==
  /\ status = [r \in Runs |-> Missing]
  /\ currentStep = [r \in Runs |-> 0]
  /\ context = [r \in Runs |-> 0]
  /\ execs = {}
  /\ stream = <<>> /\ delivered = 0 /\ pel = {} /\ idle = {}
  /\ pc = [t \in Threads |-> Start(t)]
  /\ job = [t \in Threads |-> 0]
  /\ outcome = [t \in Threads |-> "none"]
  /\ input = [t \in Threads |-> 0]
  /\ todo = [t \in Threads |-> {}]
  /\ creating = [r \in Runs |-> NoInstance]
  /\ cancelling = [r \in Runs |-> NoInstance]
  /\ inst = [i \in Instances |-> "up"]
  /\ feed = {} /\ effects = {}
  /\ budget = Budget

-----------------------------------------------------------------------------
(* Helpers.                                                                *)

Spend(h)  == budget[h] > 0 /\ budget' = [budget EXCEPT ![h] = @ - 1]
(* None of the hazards H has happened so far. *)
Before(H) == \A h \in H : budget[h] = Budget[h]

(* Pool.Stop cancels the context of every call its goroutines make: from   *)
(* then on each of them returns an error and changes nothing.  Otherwise a *)
(* call works, or fails on its own account.                                *)
Cancelled(t) == inst[HostOf[t]] = "stopping"
Works(t)     == ~Cancelled(t) /\ UNCHANGED budget
Faulty(t)    == \/ Cancelled(t) /\ UNCHANGED budget
                \/ ~Cancelled(t) /\ Spend("fault")

At(t, l)   == pc[t] = l
Goto(t, l) == pc' = [pc EXCEPT ![t] = l]

(* processMessage returns: to the loop of consume, which looks at the      *)
(* context first, or to the loop over the entries of doRecovery.           *)
Finish(t) ==
  /\ Goto(t, IF t \in Recoverers THEN "claiming"
             ELSE IF Cancelled(t) THEN "exited" ELSE "reading")
  /\ job' = [job EXCEPT ![t] = 0]
  /\ outcome' = [outcome EXCEPT ![t] = "none"]
  /\ input' = [input EXCEPT ![t] = 0]
  /\ UNCHANGED todo

RunOf(t)     == stream[job[t]].run
StepOf(t)    == stream[job[t]].step
AttemptOf(t) == stream[job[t]].attempt

(* The decisions processMessage, handleStepFailure and doRecovery take,    *)
(* each after the mutants that change it the way a slip in the code would. *)
MoreStepsSkipsLast(s) == s + 2 < NumSteps
MoreSteps(s)          == s + 1 < NumSteps

MayRetryOnceMore(n) == n <= EffectiveRetries + 1
MayRetry(n)         == n < EffectiveRetries + 1

AfterAckIgnoresError(t) == "pub_step_completed"
AfterAckIsSilent(t)     ==
  IF outcome[t] = "failed" THEN "pub_step_failed" ELSE "save_context"
AfterAck(t) ==
  IF outcome[t] = "failed" THEN "pub_step_failed" ELSE "pub_step_completed"

RunnableAlways(r)    == TRUE
RunnableIfStarted(r) == status[r] = "running"
Runnable(r)          == status[r] \in Active

ClaimableWhenPending(id) == id \in pel
Claimable(id)            == id \in idle

Recorded(id)    == \E e \in execs : e.attempt = id
Holds(t, id)    == job[t] = id /\ pc[t] \in Unacked
Orphan(id)      == id \in pel /\ ~ \E t \in Threads : Holds(t, id)
Enqueue(r, s, n) ==
  stream' = Append(stream, [run |-> r, step |-> s, attempt |-> n])

(* publishEvent: fire and forget, an error is only logged. *)
Announce(t, type) ==
  \/ /\ Works(t)
     /\ feed' = feed \cup {[type |-> type, run |-> RunOf(t), step |-> StepOf(t)]}
  \/ Faulty(t) /\ UNCHANGED feed
Publish(t, from, type, to) ==
  /\ At(t, from) /\ Goto(t, to) /\ Announce(t, type)
  /\ UNCHANGED <<db, redis, work, http, inst, effects>>
PublishLast(t, from, type) ==
  /\ At(t, from) /\ Finish(t) /\ Announce(t, type)
  /\ UNCHANGED <<db, redis, http, inst, effects>>

-----------------------------------------------------------------------------
(* RunHandler.Create: the row is inserted, then the first step is added to *)
(* the stream.  When XADD fails the caller gets an error and the row stays. *)
CreateInsert(i, r) ==
  /\ inst[i] # "down" /\ status[r] = Missing
  /\ status' = [status EXCEPT ![r] = "pending"]
  /\ creating' = [creating EXCEPT ![r] = i]
  /\ UNCHANGED <<currentStep, context, execs, redis, local, cancelling, inst,
                 ghost, budget>>

CreateEnqueue(i, r) ==
  /\ creating[r] = i
  /\ creating' = [creating EXCEPT ![r] = NoInstance]
  /\ \/ Enqueue(r, 0, 1) /\ UNCHANGED budget
     \/ Spend("fault") /\ UNCHANGED stream
  /\ UNCHANGED <<db, delivered, pel, idle, local, cancelling, inst, ghost>>

(* RunHandler.Cancel: the status is read and checked, then overwritten.    *)
CancelRead(i, r) ==
  /\ inst[i] # "down" /\ status[r] \in Active
  /\ cancelling[r] = NoInstance
  /\ Spend("cancel")
  /\ cancelling' = [cancelling EXCEPT ![r] = i]
  /\ UNCHANGED <<db, redis, local, creating, inst, ghost>>

CancelWrite(i, r) ==
  /\ cancelling[r] = i
  /\ cancelling' = [cancelling EXCEPT ![r] = NoInstance]
  /\ \/ status' = [status EXCEPT ![r] = "cancelled"] /\ UNCHANGED budget
     \/ Spend("fault") /\ UNCHANGED status
  /\ UNCHANGED <<currentStep, context, execs, redis, local, creating, inst, ghost>>

-----------------------------------------------------------------------------
(* Pool.consume.  XREADGROUP hands the next message to one consumer and    *)
(* enters it in the pending entries; when the answer is lost the entry is  *)
(* there and nobody works on it.  A call that was blocked in Redis when    *)
(* the context was cancelled may still bring a message.                    *)
ReadGroup(t) ==
  /\ t \in Consumers /\ At(t, "reading")
  /\ delivered < Len(stream)
  /\ delivered' = delivered + 1
  /\ pel' = pel \cup {delivered + 1}
  /\ \/ /\ Goto(t, "fetch_status")
        /\ job' = [job EXCEPT ![t] = delivered + 1]
        /\ UNCHANGED budget
     \/ Spend("fault") /\ UNCHANGED <<pc, job>>
  /\ UNCHANGED <<db, stream, idle, outcome, input, todo, http, inst, ghost>>

(* processMessage: the run's status; an error drops the message.           *)
FetchStatus(t) ==
  /\ At(t, "fetch_status")
  /\ \/ Works(t) /\ Goto(t, IF Runnable(RunOf(t)) THEN "fetch_step" ELSE "drop")
     \/ Faulty(t) /\ Goto(t, "drop")
  /\ UNCHANGED <<db, redis, work, http, inst, ghost>>

(* Acknowledge the message without working on it, and return. *)
Drop(t) ==
  /\ At(t, "drop") /\ Finish(t)
  /\ \/ Works(t) /\ pel' = pel \ {job[t]} /\ idle' = idle \ {job[t]}
     \/ Faulty(t) /\ UNCHANGED <<pel, idle>>
  /\ UNCHANGED <<db, stream, delivered, http, inst, ghost>>

(* The step definition; any error is taken for a missing definition.       *)
FetchStep(t) ==
  /\ At(t, "fetch_step")
  /\ \/ Works(t) /\ Goto(t, "set_running")
     \/ Faulty(t) /\ Goto(t, "abort_run")
  /\ UNCHANGED <<db, redis, work, http, inst, ghost>>

(* UPDATE ... status = 'running': it does not look at the old status. *)
SetRunning(t) ==
  /\ At(t, "set_running") /\ Goto(t, "pub_running")
  /\ \/ /\ Works(t)
        /\ status' = [status EXCEPT ![RunOf(t)] = "running"]
        /\ currentStep' = [currentStep EXCEPT ![RunOf(t)] = StepOf(t)]
     \/ Faulty(t) /\ UNCHANGED <<status, currentStep>>
  /\ UNCHANGED <<context, execs, redis, work, http, inst, ghost>>

PublishRunning(t) == Publish(t, "pub_running", "run.status_changed", "read_context")

ReadContext(t) ==
  /\ At(t, "read_context") /\ Goto(t, "pub_started")
  /\ \/ Works(t) /\ input' = [input EXCEPT ![t] = context[RunOf(t)]]
     \/ Faulty(t) /\ input' = [input EXCEPT ![t] = Empty]
  /\ UNCHANGED <<db, redis, job, outcome, todo, http, inst, ghost>>

PublishStarted(t) == Publish(t, "pub_started", "step.started", "execute")

(* ExecuteAction: its effects on the world cannot be taken back. *)
Execute(t) ==
  /\ At(t, "execute") /\ Goto(t, "insert_exec")
  /\ \E o \in Verdicts :
       /\ outcome' = [outcome EXCEPT ![t] = o]
       /\ effects' = effects \cup {<<job[t], o>>}
  /\ UNCHANGED <<db, redis, job, input, todo, http, inst, feed, budget>>

(* INSERT INTO step_executions; attempt_id is UNIQUE, and an error of the  *)
(* INSERT, a conflict too, is only logged.                                 *)
InsertExec(t) ==
  /\ At(t, "insert_exec") /\ Goto(t, "ack")
  /\ \/ Works(t) /\ execs' = IF Recorded(job[t]) THEN execs
             ELSE execs \cup {[attempt |-> job[t], status |-> outcome[t]]}
     \/ Faulty(t) /\ UNCHANGED execs
  /\ UNCHANGED <<status, currentStep, context, redis, work, http, inst, ghost>>

Ack(t) ==
  /\ At(t, "ack")
  /\ Goto(t, AfterAck(t))
  /\ \/ Works(t) /\ pel' = pel \ {job[t]} /\ idle' = idle \ {job[t]}
     \/ Faulty(t) /\ UNCHANGED <<pel, idle>>
  /\ UNCHANGED <<db, stream, delivered, work, http, inst, ghost>>

-----------------------------------------------------------------------------
(* The rest of processMessage after a success: the output becomes the      *)
(* run's context, and the next step is added to the stream or, after the   *)
(* last one, the run is completed.  When COUNT fails the number of steps   *)
(* is taken to be 0.                                                       *)
PublishStepCompleted(t) ==
  Publish(t, "pub_step_completed", "step.completed", "save_context")

SaveContext(t) ==
  /\ At(t, "save_context") /\ Goto(t, "count_steps")
  /\ \/ Works(t) /\ context' = [context EXCEPT ![RunOf(t)] = StepOf(t) + 1]
     \/ Faulty(t) /\ UNCHANGED context
  /\ UNCHANGED <<status, currentStep, execs, redis, work, http, inst, ghost>>

CountSteps(t) ==
  /\ At(t, "count_steps")
  /\ \/ Works(t) /\ Goto(t, IF MoreSteps(StepOf(t)) THEN "enqueue_next"
                                                    ELSE "complete_run")
     \/ Faulty(t) /\ Goto(t, "complete_run")
  /\ UNCHANGED <<db, redis, work, http, inst, ghost>>

EnqueueNext(t) ==
  /\ At(t, "enqueue_next") /\ Finish(t)
  /\ \/ Works(t) /\ Enqueue(RunOf(t), StepOf(t) + 1, 1)
     \/ Faulty(t) /\ UNCHANGED stream
  /\ UNCHANGED <<db, delivered, pel, idle, http, inst, ghost>>

CompleteRun(t) ==
  /\ At(t, "complete_run") /\ Goto(t, "pub_run_completed")
  /\ \/ Works(t) /\ status' = [status EXCEPT ![RunOf(t)] = "completed"]
     \/ Faulty(t) /\ UNCHANGED status
  /\ UNCHANGED <<currentStep, context, execs, redis, work, http, inst, ghost>>

-----------------------------------------------------------------------------
(* handleStepFailure: give up or wait and add the next attempt.            *)
PublishStepFailed(t) == Publish(t, "pub_step_failed", "step.failed", "fetch_policy")

(* A stored policy that cannot be decoded ends the run after one attempt,  *)
(* as a negative MaxRetries does.                                          *)
FetchPolicy(t) ==
  /\ At(t, "fetch_policy")
  /\ \/ Works(t) /\ Goto(t, IF MayRetry(AttemptOf(t)) THEN "backoff" ELSE "fail_run")
     \/ Faulty(t) /\ Goto(t, "fail_run")
  /\ UNCHANGED <<db, redis, work, http, inst, ghost>>

(* The sleep is over: go on, or return when the context is cancelled. *)
Backoff(t) ==
  /\ At(t, "backoff")
  /\ \/ Goto(t, "recheck") /\ UNCHANGED work
     \/ Cancelled(t) /\ Finish(t)
  /\ UNCHANGED <<db, redis, http, inst, ghost, budget>>

(* After the sleep the status is looked at again; the mutant does not.     *)
RecheckNothing(t) ==
  /\ At(t, "recheck") /\ Works(t) /\ Goto(t, "enqueue_retry")
  /\ UNCHANGED <<db, redis, work, http, inst, ghost>>
Recheck(t) ==
  /\ At(t, "recheck")
  /\ \/ /\ Works(t) /\ Runnable(RunOf(t))
        /\ Goto(t, "enqueue_retry") /\ UNCHANGED work
     \/ Works(t) /\ ~Runnable(RunOf(t)) /\ Finish(t)
     \/ Faulty(t) /\ Finish(t)
  /\ UNCHANGED <<db, redis, http, inst, ghost>>

EnqueueRetry(t) ==
  /\ At(t, "enqueue_retry") /\ Finish(t)
  /\ \/ Works(t) /\ Enqueue(RunOf(t), StepOf(t), AttemptOf(t) + 1)
     \/ Faulty(t) /\ UNCHANGED stream
  /\ UNCHANGED <<db, delivered, pel, idle, http, inst, ghost>>

(* markRunFailed, called when a step has no definition (the message is     *)
(* acknowledged afterwards) and when a step is given up.                   *)
MarkRunFailed(t) ==
  /\ \/ At(t, "abort_run") /\ Goto(t, "pub_aborted")
     \/ At(t, "fail_run") /\ Goto(t, "pub_run_failed")
  /\ \/ Works(t) /\ status' = [status EXCEPT ![RunOf(t)] = "failed"]
     \/ Faulty(t) /\ UNCHANGED status
  /\ UNCHANGED <<currentStep, context, execs, redis, work, http, inst, ghost>>

PublishAborted(t) == Publish(t, "pub_aborted", "run.failed", "drop")

(* The verdict of a run is the last thing processMessage publishes. *)
PublishRunCompleted(t) == PublishLast(t, "pub_run_completed", "run.completed")
PublishRunFailed(t)    == PublishLast(t, "pub_run_failed", "run.failed")

-----------------------------------------------------------------------------
(* Recovery.  An entry nobody works on grows idle as time passes; one that *)
(* is being worked on does only when the work outlasts the threshold, the  *)
(* hazard "overrun".                                                       *)
Age(id) ==
  /\ id \in pel \ idle
  /\ idle' = idle \cup {id}
  /\ \/ Orphan(id) /\ UNCHANGED budget
     \/ ~Orphan(id) /\ Spend("overrun")
  /\ UNCHANGED <<db, stream, delivered, pel, local, http, inst, ghost>>

(* XPENDING: the oldest entries, of which those idle long enough matter.   *)
(* The mutant starts after the first entry instead of with it.             *)
Smaller(S, id) == {k \in S : k < id}
OldestButOne   == {id \in pel : Smaller(pel, id) # {}}
Oldest         == {id \in pel : Cardinality(Smaller(pel, id)) < RecoveryBatch}

Scan(t) ==
  /\ t \in Recoverers /\ At(t, "ticking")
  /\ Works(t)
  /\ Oldest \cap idle # {}
  /\ todo' = [todo EXCEPT ![t] = Oldest \cap idle]
  /\ Goto(t, "claiming")
  /\ UNCHANGED <<db, redis, job, outcome, input, http, inst, ghost>>

(* XCLAIM with MinIdle: the entry is claimed when it is still pending and  *)
(* still idle, and counts as fresh again.                                  *)
Claim(t, id) ==
  /\ At(t, "claiming") /\ id \in todo[t] /\ Smaller(todo[t], id) = {}
  /\ todo' = [todo EXCEPT ![t] = @ \ {id}]
  /\ \/ /\ Works(t) /\ Claimable(id)
        /\ idle' = idle \ {id}
        /\ job' = [job EXCEPT ![t] = id]
        /\ Goto(t, "idem_check")
     \/ Works(t) /\ ~Claimable(id) /\ UNCHANGED <<idle, job, pc>>
     \/ Faulty(t) /\ UNCHANGED <<idle, job, pc>>
  /\ UNCHANGED <<db, stream, delivered, pel, outcome, input, http, inst, ghost>>

(* The attempt may be recorded already: then the message is only           *)
(* acknowledged, otherwise it is processed here and now.                   *)
AfterCheckAlways(t) == "fetch_status"
AfterCheck(t) == IF Recorded(job[t]) THEN "drop" ELSE "fetch_status"

IdempotencyCheck(t) ==
  /\ At(t, "idem_check")
  /\ \/ /\ Works(t) /\ Goto(t, AfterCheck(t))
        /\ UNCHANGED work
     \/ Faulty(t) /\ Finish(t)
  /\ UNCHANGED <<db, redis, http, inst, ghost>>

ScanDone(t) ==
  /\ At(t, "claiming") /\ todo[t] = {}
  /\ Goto(t, "ticking")
  /\ UNCHANGED <<db, redis, work, http, inst, ghost, budget>>

-----------------------------------------------------------------------------
(* Processes.  Pool.Stop cancels the context and waits for the goroutines; *)
(* the HTTP server is shut down after that and waits for its requests.     *)
Stop(i) ==
  /\ inst[i] = "up" /\ Spend("stop")
  /\ inst' = [inst EXCEPT ![i] = "stopping"]
  /\ UNCHANGED <<db, redis, local, http, ghost>>

Exit(t) ==
  /\ pc[t] \in {"reading", "ticking"} /\ Cancelled(t)
  /\ Goto(t, "exited")
  /\ UNCHANGED <<db, redis, work, http, inst, ghost, budget>>

StopDone(i) ==
  /\ inst[i] = "stopping"
  /\ \A t \in Threads : HostOf[t] = i => At(t, "exited")
  /\ \A r \in Runs : creating[r] # i /\ cancelling[r] # i
  /\ inst' = [inst EXCEPT ![i] = "down"]
  /\ UNCHANGED <<db, redis, local, http, ghost, budget>>

(* The process dies, with what its goroutines and handlers were doing. *)
Crash(i) ==
  /\ inst[i] # "down" /\ Spend("crash")
  /\ inst' = [inst EXCEPT ![i] = "down"]
  /\ pc' = [t \in Threads |-> IF HostOf[t] = i THEN "exited" ELSE pc[t]]
  /\ job' = [t \in Threads |-> IF HostOf[t] = i THEN 0 ELSE job[t]]
  /\ outcome' = [t \in Threads |-> IF HostOf[t] = i THEN "none" ELSE outcome[t]]
  /\ input' = [t \in Threads |-> IF HostOf[t] = i THEN 0 ELSE input[t]]
  /\ todo' = [t \in Threads |-> IF HostOf[t] = i THEN {} ELSE todo[t]]
  /\ creating' = [r \in Runs |-> IF creating[r] = i THEN NoInstance ELSE creating[r]]
  /\ cancelling' = [r \in Runs |-> IF cancelling[r] = i THEN NoInstance ELSE cancelling[r]]
  /\ UNCHANGED <<db, redis, ghost>>

Restart(i) ==
  /\ inst[i] = "down"
  /\ inst' = [inst EXCEPT ![i] = "up"]
  /\ pc' = [t \in Threads |-> IF HostOf[t] = i THEN Start(t) ELSE pc[t]]
  /\ UNCHANGED <<db, redis, work, http, ghost, budget>>

-----------------------------------------------------------------------------
(* processMessage and handleStepFailure, one disjunct per call they make.  *)
Process(t) ==
  \/ FetchStatus(t) \/ Drop(t) \/ FetchStep(t) \/ SetRunning(t)
  \/ PublishRunning(t) \/ ReadContext(t) \/ PublishStarted(t) \/ Execute(t)
  \/ InsertExec(t) \/ Ack(t)
  \/ PublishStepCompleted(t) \/ SaveContext(t) \/ CountSteps(t)
  \/ EnqueueNext(t) \/ CompleteRun(t) \/ PublishRunCompleted(t)
  \/ PublishStepFailed(t) \/ FetchPolicy(t) \/ Backoff(t) \/ Recheck(t)
  \/ EnqueueRetry(t) \/ MarkRunFailed(t) \/ PublishAborted(t)
  \/ PublishRunFailed(t)

Recover(t) ==
  \/ Scan(t) \/ ScanDone(t) \/ IdempotencyCheck(t)
  \/ \E id \in todo[t] : Claim(t, id)

ThreadStep(t) == ReadGroup(t) \/ Process(t) \/ Recover(t) \/ Exit(t)

Handlers(i) ==
  \E r \in Runs : \/ CreateInsert(i, r) \/ CreateEnqueue(i, r)
                  \/ CancelRead(i, r) \/ CancelWrite(i, r)

Lifetime(i) == Stop(i) \/ StopDone(i) \/ Crash(i) \/ Restart(i)

Next ==
  \/ \E t \in Threads : ThreadStep(t)
  \/ \E id \in pel : Age(id)
  \/ \E i \in Instances : Handlers(i) \/ Lifetime(i)

Spec == Init /\ [][Next]_vars

(* Goroutines are scheduled and their calls return; a handler that started *)
(* goes on; a pending entry ages; a stopped process is started again.      *)
(* Nothing makes a client, a failure or an overrun happen.                 *)
Fairness ==
  /\ \A t \in Threads : WF_vars(ThreadStep(t))
  /\ \A i \in Instances, r \in Runs :
       WF_vars(CreateEnqueue(i, r)) /\ WF_vars(CancelWrite(i, r))
  /\ \A i \in Instances : WF_vars(StopDone(i)) /\ WF_vars(Restart(i))
  /\ WF_vars(\E id \in pel : Age(id) /\ Orphan(id))

FairSpec == Spec /\ Fairness

-----------------------------------------------------------------------------
(* Properties.                                                             *)

Ids == 1 .. Len(stream)
Of(id, r, s) == stream[id].run = r /\ stream[id].step = s
Had(id, o)   == <<id, o>> \in effects   \* the action of attempt id had outcome o

(* A step is only ever asked for after every step before it succeeded: the *)
(* message for a step was preceded, for each earlier step of the run, by a *)
(* message whose action completed.  Each step is enqueued from the success *)
(* path of the one before it, whatever crashes, fails or overlaps.         *)
StepOrder ==
  \A id \in Ids : \A s \in 0 .. stream[id].step - 1 :
    \E p \in 1 .. id - 1 : Of(p, stream[id].run, s) /\ Had(p, "completed")

(* Retries are earned and bounded: attempt n > 1 of a step was preceded by *)
(* a failed attempt n - 1 of it, and no attempt is beyond the limit the    *)
(* retry policy sets (handleStepFailure).                                  *)
RetryOrder ==
  \A id \in Ids :
    /\ stream[id].attempt <= AttemptLimit
    /\ stream[id].attempt > 1 =>
         \E p \in 1 .. id - 1 :
           /\ Of(p, stream[id].run, stream[id].step)
           /\ stream[p].attempt = stream[id].attempt - 1
           /\ Had(p, "failed")

(* A completed run did all its work: the action of every step succeeded.   *)
CompletedRanAll ==
  \A r \in Runs : status[r] = "completed" =>
    \A s \in Steps : \E id \in Ids : Of(id, r, s) /\ Had(id, "completed")

(* A failed run used up the attempts of some step. *)
FailedExhausted ==
  \A r \in Runs : status[r] = "failed" =>
    \E id \in Ids : /\ stream[id].run = r /\ stream[id].attempt = AttemptLimit
                    /\ Had(id, "failed")

(* Verdicts are earned: until a call fails, a run is 'completed' only when *)
(* every step succeeded and 'failed' only when one used up its attempts.   *)
(* Crashes, stops, overlapping recovery and cancels do not break this.     *)
VerdictsEarned == Before({"fault"}) => CompletedRanAll /\ FailedExhausted

(* What a subscriber can see has no gaps: until a call fails, a step is    *)
(* announced as started only after the step before it was announced as     *)
(* completed, and a run as completed only after its last step was          *)
(* (processMessage publishes before it enqueues).                          *)
Done(r, s) == [type |-> "step.completed", run |-> r, step |-> s]
NoGapsInFeed ==
  Before({"fault"}) => \A e \in feed :
    /\ e.type = "step.started" /\ e.step > 0 => Done(e.run, e.step - 1) \in feed
    /\ e.type = "run.completed" => Done(e.run, NumSteps - 1) \in feed

(* Nothing is acknowledged away: until a call fails or a message is taken  *)
(* from a goroutine still at work on it, a message that left the pending   *)
(* entries has its attempt recorded or belongs to a run that is over.      *)
NothingLost ==
  Before({"fault", "overrun"}) => \A id \in 1 .. delivered :
    id \notin pel => Recorded(id) \/ status[stream[id].run] \in Terminal

(* What carries a run forward: the handler about to enqueue it, a message  *)
(* still to be executed, a goroutine of a running pool between recording   *)
(* an attempt and enqueueing what follows from it.                         *)
Busy(t) == ~Cancelled(t) /\ job[t] # 0
Carriers(r) ==
  {i \in Instances : creating[r] = i} \cup
  {id \in Ids : stream[id].run = r /\ ~Recorded(id) /\ (id > delivered \/ id \in pel)}
  \cup {t \in Threads : Busy(t) /\ RunOf(t) = r /\ pc[t] \in Acked \cup {"ack"}}

(* A run is never in two places: until a call fails or an overrun occurs,  *)
(* at most one message or goroutine carries it, however instances crash,   *)
(* stop and claim each other's messages (XCLAIM, the idempotency check).   *)
OneCarrier ==
  Before({"fault", "overrun"}) =>
    \A r \in Runs : \A x, y \in Carriers(r) : x = y

(* Each step works on the output of the step before it (PLAN.md): until a  *)
(* call fails or an overrun occurs, a goroutine of a running pool about to *)
(* execute step s, or to record it, holds what step s - 1 left.            *)
ContextFlow ==
  Before({"fault", "overrun"}) => \A t \in Threads :
    (Busy(t) /\ pc[t] \in {"execute", "insert_exec"}) => input[t] = StepOf(t)

(* An attempt that is recorded is not executed again: until an overrun, no *)
(* goroutine is about to execute an attempt that is recorded (doRecovery   *)
(* looks for the record before it calls processMessage).                   *)
NoRerun ==
  Before({"overrun"}) => \A t \in Threads : At(t, "execute") => ~Recorded(job[t])

(* What subscribers were told is so: until a call fails or an overrun      *)
(* occurs, a run whose end was announced is over and stays so.             *)
AnnouncedIsOver ==
  Before({"fault", "overrun"}) => \A e \in feed :
    e.type \in {"run.completed", "run.failed"} => status[e.run] \in Terminal

(* No run is left behind: unless a call fails or a process dies or stops,  *)
(* an active run is in a handler, in a message still to be read or         *)
(* recovered, or in the hands of a goroutine - whoever overtakes whom, and *)
(* whatever a cancel is overwritten by.                                    *)
NoneStranded ==
  Before({"fault", "crash", "stop"}) => \A r \in Runs : status[r] \in Active =>
    Carriers(r) # {} \/ \E t \in Threads : job[t] # 0 /\ RunOf(t) = r

(* A run that is over stays over: once its status is terminal, no cancel   *)
(* is in flight and no goroutine is past the status check, nothing - no    *)
(* redelivery, no recovery, no crash - changes its row, executes one of    *)
(* its steps or adds a message or an event for it.                         *)
Settled(r) ==
  /\ status[r] \in Terminal
  /\ creating[r] = NoInstance /\ cancelling[r] = NoInstance
  /\ \A t \in Threads : job[t] # 0 /\ RunOf(t) = r =>
        pc[t] \in {"idem_check", "fetch_status", "drop"}
Untouched(r) ==
  /\ status'[r] = status[r] /\ currentStep'[r] = currentStep[r]
  /\ context'[r] = context[r]
  /\ \A id \in Ids' \ Ids : stream'[id].run # r
  /\ \A x \in effects' \ effects : stream'[x[1]].run # r
  /\ \A e \in feed' \ feed : e.run # r
SettledForGood ==
  [][\A r \in Runs : Settled(r) => Settled(r)' /\ Untouched(r)]_vars

(* A run that is over is not resumed: once its status is terminal and its  *)
(* goroutines have at most a verdict left to write or a failed attempt to  *)
(* judge - in its backoff, too - it stays over, none of its steps is asked *)
(* for and none is executed (handleStepFailure looks at the status again   *)
(* after the sleep).                                                       *)
Closing == {"idem_check", "fetch_status", "drop", "abort_run", "pub_aborted",
            "complete_run", "pub_run_completed", "pub_step_failed",
            "fetch_policy", "fail_run", "pub_run_failed", "backoff", "recheck"}
Closed(r) ==
  /\ status[r] \in Terminal /\ creating[r] = NoInstance
  /\ \A t \in Threads : job[t] # 0 /\ RunOf(t) = r => pc[t] \in Closing
NoNewWork(r) ==
  /\ \A id \in Ids' \ Ids : stream'[id].run # r
  /\ \A x \in effects' \ effects : stream'[x[1]].run # r
NeverResumed == [][\A r \in Runs : Closed(r) => Closed(r)' /\ NoNewWork(r)]_vars

(* The run as a client sees it: RunLifecycle, with the verdict read off    *)
(* the published events.  Holds where nobody cancels, no call fails and no *)
(* overrun occurs, through crashes, stops and recovery.                    *)
PublishedVerdict(r) ==
  IF \E e \in feed : e.run = r /\ e.type = "run.completed" THEN "completed"
  ELSE IF \E e \in feed : e.run = r /\ e.type = "run.failed" THEN "failed"
  ELSE "none"
Lifecycle == INSTANCE RunLifecycle
  WITH step <- currentStep, verdict <- [r \in Runs |-> PublishedVerdict(r)]
LifecycleSpec == Lifecycle!Spec

(* Every message is acknowledged in the end: once no more runs are created *)
(* the stream is read to its end and no entry stays pending, whatever      *)
(* failed or crashed on the way (XREADGROUP, doRecovery).                  *)
MessagesDrain == <>[](delivered = Len(stream) /\ pel = {})

(* A run that was created reaches a terminal status and keeps it, whoever  *)
(* overtakes or cancels whom, where nothing crashes, stops or fails.       *)
RunsSettle ==
  \A r \in Runs : (status[r] # Missing) ~> [](status[r] \in Terminal)

-----------------------------------------------------------------------------
(* What the documents and comments say without reservation.                *)

(* A cancelled run stays cancelled (run_test.go: "Cancel second time -     *)
(* should 409"; worker.go: "skip if not pending/running").                 *)
CancelIsFinal ==
  [][\A r \in Runs : status[r] = "cancelled" => status'[r] = "cancelled"]_vars

(* A run that was started ends, crash or no crash (PLAN.md: "Durable       *)
(* multi-step workflow execution with crash recovery").                    *)
StartedRunsEnd ==
  \A r \in Runs : status[r] = "running" ~> status[r] \in Terminal
=============================================================================
