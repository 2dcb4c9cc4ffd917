# FlowForge: specifications

FlowForge runs workflows of several steps. A Go server (`src/apps/api`) stores
workflows and runs in PostgreSQL, passes one message per step attempt through a
Redis stream to a pool of workers, retries failed steps, recovers messages of
workers that died, and streams events to browsers over WebSockets. This
directory holds TLA+ models of it, the configurations TLC checks them with, and
theorems checked by TLAPS.

## 1. Inventory

| Component | State | Operations | Interacts with |
|---|---|---|---|
| worker pool (`internal/worker/worker.go`) | goroutines, a cancellable context; nothing of its own survives a process | `Start`, `Stop`, `consume`, `processMessage`, `handleStepFailure`, `recoverOrphaned`, `doRecovery`, `markRunFailed` | PostgreSQL, Redis stream and group, Redis pub/sub, actions |
| retry policy (`retry.go`, `model/workflow.go`) | none | `CalculateBackoffDelay`, `WithDefaults` | called by the pool |
| run handlers (`handler/run.go`) | rows of `workflow_runs` | `Create`, `Cancel`, `List`, `GetByID` | PostgreSQL, Redis stream |
| workflow handlers (`handler/workflow.go`) | rows of `workflows`, `workflow_steps` | `Create`, `Update`, `Delete`, `List`, `GetByID` | PostgreSQL; read the runs' status |
| WebSocket hub (`ws/hub.go`, `handler/ws.go`) | clients, subscriptions in both directions, one buffer per client | register, unregister, subscribe, unsubscribe, fan-out, two pumps per connection | Redis pub/sub, browsers |
| auth handler (`handler/auth.go`) | rows of `users`, `refresh_tokens` | register, login, refresh, logout, me | PostgreSQL |
| actions (`action_*.go`, `executor.go`) | none | `http_call`, `delay`, `log`, `transform` | the outside world |
| server (`cmd/server/main.go`) | the process | start, graceful shutdown | everything |
| middleware, router, config, logging, metrics, tracing, health | none that is read back | per request | |

What is hard in it:

* several servers and goroutines share the stream; each step of a message is a
  separate call that can fail, or be followed by a crash, on its own;
* the status of a run is read at the start and written without a condition
  later, while a cancel may come in between;
* a message is acknowledged before the next one is added;
* recovery claims what has been idle for a threshold, whether or not its worker
  is dead;
* errors of several calls are ignored or taken for an empty result;
* registration, subscriptions, delivery and disconnection meet in the hub
  through separate channels;
* a refresh token is read, revoked and replaced by three statements, which
  another refresh or a logout may cross and each of which may fail;
* an update or delete of a workflow checks for active runs before it writes,
  and creating a run checks for the workflow before it inserts.

What makes each component correct:

* engine: steps run in order and only after their predecessors; retries follow
  failures and are bounded; a verdict is earned; a run is never worked on in
  two places unless recovery overtakes a live worker; no message is lost
  without a trace; a run that is over is left alone and not resumed; the stream
  drains; runs end;
* hub: both directions of the subscription map agree; requests of a client take
  effect in the order it made them; events reach a client in order and once;
  a slow client delays nobody; a connection that ends leaves nothing behind;
* workflow handlers: an active run that the check counted keeps the steps it was
  created with; an answer never pairs a new header with old details;
* auth handler: a refresh token has a successor only once it is revoked, and
  another one only from a refresh that overlapped; a session ends for good and
  only by its own logout or a fault of its own.

## 2. Modules

| Module | Models | Kind |
|---|---|---|
| `RunEngine` | worker pool, `Create` and `Cancel` of runs, start and stop of servers | specification |
| `RunLifecycle` | what a client may rely on about a run | abstract specification |
| `MCRunEngine` | small instances of `RunEngine` | model checking |
| `RunEngineTyping` | inductive typing invariant of `RunEngine` | proofs |
| `RunEngineProofs` | step order, retry order, finality, earned verdicts | proofs |
| `RunEngineCarriers` | where a run is carried: nothing lost, executed twice or given the wrong context | proofs |
| `RunEngineView` | what clients see: a feed without gaps, no run left behind, `RunLifecycle` | proofs |
| `WSHub` | WebSocket hub, handler and pumps, Redis listener | specification |
| `ClientFeed` | what a WebSocket client may rely on about events | abstract specification |
| `MCWSHub` | symmetry sets for `WSHub` | model checking |
| `WSHubProofs` | every safety property of the hub, and that it implements `ClientFeed` | proofs |
| `WorkflowEdit` | `Create`, `Update`, `Delete` of workflows against runs being created and executed | specification |
| `WorkflowReads` | `WorkflowEdit` next to a GET of the workflow or a run | composition |
| `MCWorkflowEdit`, `MCWorkflowReads` | symmetry sets | model checking |
| `WorkflowEditProofs` | every safety property of `WorkflowEdit` | proofs |
| `WorkflowReadsProofs` | what a GET is answered | proofs |
| `Sessions` | accounts, refresh tokens: register, login, refresh, logout | specification |
| `MCSessions` | symmetry sets for `Sessions` | model checking |
| `SessionsProofs` | typing, rotation, end and survival of sessions | proofs |

### RunEngine

State. `status`, `currentStep`, `context` are columns of `workflow_runs`, `execs`
the rows of `step_executions`. `stream` is the Redis stream; a message's position
is its id and stands for its `attempt_id`, which the code draws afresh for each
XADD. `delivered`, `pel` and `idle` are the consumer group: the last delivered id,
the pending entries, and those idle for `recovery_idle_threshold` or longer.
Each goroutine has a position `pc`, the message `job`, and its local values
`outcome` and `input`; `todo` is what is left of the last XPENDING. `creating` and
`cancelling` are request handlers between their two calls. `inst` says whether
a server is up, stopping (context cancelled) or down. `feed` and `effects` record
published events and executed actions, and `budget` what is left of the hazards.

Actions. Every call to PostgreSQL, Redis or an action is one step, with its
success and its failure as disjuncts; local computation belongs to the call
before it. `Process(t)` is `processMessage` with `handleStepFailure` and
`markRunFailed`: `FetchStatus`, `FetchStep`, `SetRunning`, `PublishRunning`,
`ReadContext`, `PublishStarted`, `Execute`, `InsertExec`, `Ack`, then
`PublishStepCompleted`, `SaveContext`, `CountSteps`, `EnqueueNext` or `CompleteRun`,
`PublishRunCompleted`; or `PublishStepFailed`, `FetchPolicy`, `Backoff`, `Recheck`,
`EnqueueRetry` or `MarkRunFailed`, `PublishRunFailed`. `Recover(t)` is `doRecovery`.
`ReadGroup` is XREADGROUP, `Drop` the acknowledgement of a message nobody will
work on. `CreateInsert/CreateEnqueue` and `CancelRead/CancelWrite` are the handlers.

Failures. `Faulty(t)` is a call that returns an error without an effect: for
free once the pool's context is cancelled, against the budget `fault`
otherwise. A call that took effect although an error came back is the same as
one that succeeded before the context was cancelled or the process died, except
for its later branch; the model leaves out that combination for single calls,
keeping it for XREADGROUP, where a lost answer leaves a pending entry behind.
A call blocked in XREADGROUP when the context is cancelled may still return a
message, which is then processed with every call failing. Crashes, stops,
overruns (work that outlasts the idle threshold) and cancels have budgets too;
`Before(H)` says that no hazard of `H` has occurred yet, and the properties that
need it say so.

Abstractions. The context is the index of the step whose output it is; action,
configuration and error texts are left out; an action succeeds or fails
nondeterministically. Durations are left out: an entry may grow idle whenever
nobody works on it, a backoff may end at any time. Validation in `Create` (the
workflow exists and has steps) is a precondition. All runs are of one workflow
whose steps do not change; `WorkflowEdit` is about edits. A stored `retry_policy`
that cannot be decoded - no handler validates it - fails the run after one attempt
(`worker.go:342`), as a negative `MaxRetries` does, so that value stands for it.
`os.Exit` when the
graceful shutdown times out is a crash.

### WSHub

State. `clients`, `runSubs` and `subs` are the maps of `Hub` and `Client` (a run
without subscribers has no entry in the code), `requests` the buffered subscribe
channel, `buffer` and `shut` each client's send channel and whether it is closed.
`handler`, `reader`, `held` and `writer` are where `Handle`, `ReadPump` (with the
request it wants to pass on) and `WritePump` stand; `conn` is the connection as
this server can tell. `published` and `inbox` are Redis pub/sub: an event reaches the
listener in order or is lost. `asked`, `wanted`, `named` and `received` are observations.

Actions. `Connect`, `Register`, `StartPumps` are `Handle`: the unbuffered register
channel makes `Register` one step of two goroutines, and so is `Unregister`. `Serve`
is the subscribe case of `Hub.Run`; the hub holds `h.mu` for a whole case and the
listener a read lock for a whole fan-out, so both are atomic. `Route` is one event of
`listenRedis`; if a subscriber's channel is closed it panics and the process
ends (`alive`). `Ask`, `SendRequest`, `ReadError`, `CloseRead` are `ReadPump`, `Write`,
`WriteClose` and `Ping` are `WritePump`. `Lose` stands for a peer that closes, stays
silent past the read deadline or sends more than `maxMessageSize`. A ping that
succeeds changes nothing and is left out. Messages that are not JSON or of
another type are ignored by the code and left out.

### WorkflowEdit

State. `row` is the version of the one row of `workflows`, `steps` its committed
rows of `workflow_steps`, `lock` the transaction that holds the row. `edit`, `want`,
`cleared` and `draft` are where an `Update` or `Delete` stands, what it wants, and
the step rows its transaction deleted and inserted. `call` is where
`RunHandler.Create` stands, `status` the column, `at` the step of the run's message,
`work` and `hand` the worker's position (`gone` once there is no message) and the
definition it read. `done` are the rows of `step_executions` the run has, each as
the step definition that was executed.

Actions. `Check` is the COUNT of active runs, which lies outside of the
transaction and whose error leaves it 0. `LockRow`, `DeleteSteps`, `InsertStep`,
`Commit` are the statements of `Update`; `GiveUp` is an error or a crash, which rolls
back. UPDATE of columns that are no key excludes other updates and deletes of
the row, but not the foreign-key check of an INSERT. `DeleteWorkflow` is one
statement with its cascades. `FindWorkflow`, `CountSteps`, `InsertRun` are
`RunHandler.Create`. `FetchStatus` to `StepGivenUp` are what `processMessage` does as far
as edits can tell: it looks the definition up afresh for each attempt, counts
the steps afresh after each, and writes the status without a condition. Every
call of the worker may fail, as the code lets it: a failed status query drops
the message, a failed look-up of the step fails the run; errors of an UPDATE or
of the INSERT of the execution are only logged; a failed COUNT of the steps
leaves 0, so that the run is completed after any step; a failed XADD leaves the
run with no message. A deleted run takes no execution, by the foreign key.

`uncounted` marks the runs an admitted edit did not count: created after the
check, missed by a check that failed, or over but still held by a worker, which
may revive them. `KeepsDefinition` and `CompletedWhole` say that these are the
only ways for a run to have its definition changed. `ignored` marks the runs whose
worker went on after a failed INSERT of an execution or a failed COUNT: when such
a run completes, executions of it may be missing - the code does not promise
more - but `CompletedWhole` says that those it has are still of one version, and
that they are all there for every other run. Crashes and recovery, hence a
second worker on the same message, are left to `RunEngine`; UNIQUE (workflow_id,
step_index), a second guard behind the lock, is left out.

### WorkflowReads

`Get` is one request, in two steps: `ReadHeader` and `ReadDetails` are the two
statements of `WorkflowHandler.GetByID` (the row, then `getSteps`) or of
`RunHandler.GetByID` (the run, then its executions), whichever the `subject` is;
`header` and `details` are what they returned. Everything in `WorkflowEdit` goes on
in between (`Meanwhile`); `since` records the versions the workflow has had since
the header was read. An error of either statement answers with an error and is
left out; but the loops over the rows stop when `Next` says so and never ask
`rows.Err()` (`workflow.go:350`, `run.go:246`), so a connection that breaks while they
read gives an answer that looks complete: `details` is then the first rows in the
statements' order, and `answer` is `cut`. `StepsNotOlder` and `CompletedShown` speak of
such answers as well: less than all rows, but of no other version.

### Sessions

State. `users` are the emails with an account, `token` and `expired` the rows of
`refresh_tokens` (`revoked_at` and `expires_at` as far as the code tells them apart),
`known` the tokens that reached a client - only a token's hash is stored, so one
whose answer was lost is of no use to anybody. `at` and `from` are where a request
stands and the token it has read. A session is named after the registration or
login that began it; `session`, `parent`, `overlaps`, `broken` and `left` are
observations.

Actions. `Register` and `Login` are the handlers up to `issueTokenPair`, which is
`Issue`. `ReadToken` is `Refresh` up to its checks, `RevokeToken` its UPDATE, and `Issue`
its end. A failing call may have taken effect; a server that dies is a call
that failed with nobody to hear the answer. `Logout` is one UPDATE whose error is
ignored. Requests that fail validation, give a wrong password or a token the
database does not know, or whose first query fails, end without an effect,
which the last disjunct of `Register`, `Login` and `ReadToken` stands for. Passwords
never change and users are never deleted, which no handler does.

## 3. Runs

All bounds: two steps (the least with a "next step" and a "last step"), one
retry (`MaxRetries = 1`, the least with a first, a last and a refused attempt),
a `RecoveryBatch` (100 in the code) of 1 in `drain`, where two entries can be pending
and the younger has to wait for the older, and of 2 elsewhere, one or
two servers of one consumer and one recovery goroutine each, one workflow run, or
two that share the stream in `faults`. A budget of 1 per hazard keeps the state space finite; each
run combines the hazards its properties are about. `CHECK_DEADLOCK FALSE`: with
clients and budgets used up the system may stop.

| Run | Instance | Shows |
|---|---|---|
| crashes | two servers; a crash, a stop | `NothingLost`, `OneCarrier`, `ContextFlow`, `NoRerun`, `NoGapsInFeed`, `AnnouncedIsOver`; `LifecycleSpec`: `RunEngine` implements `RunLifecycle` under the mapping `step <- currentStep`, `verdict` <- the published one |
| faults | two runs on one server; a failing call, a cancel | `TypeOK`, `StepOrder`, `RetryOrder`, `SettledForGood`, `NeverResumed` |
| overlap | one server; an overrun, a cancel; fair | `VerdictsEarned`, `NoGapsInFeed`, `StepOrder`, `NoneStranded` when a worker is overtaken; `RunsSettle` |
| drain | one server; a crash, a stop, a failing call; fair | `MessagesDrain` |
| hub_safety | two connections, one run, two requests each, three events, buffer of two | `TypeOK`, `MapsAgree`, `RequestsHonoured`, `NoGhostClients`; `FeedSpec`: `WSHub` implements `ClientFeed`, variables of the same names mapped to each other; a second connection is what a wrong removal would hurt, and the buffer both fills and holds two events that could swap |
| hub_live | two connections, two events, buffer of one; fair except for the writers | `EventsHandled`, `ConnectionsEnd` |
| edit_whole | two requests that update or delete, one run, up to two steps, one GET | `ReadsTypeOK`, `StepsWhole`, `RunsHaveWorkflow`, `CompletedWhole`, `KeepsDefinition`, `StepsNotOlder`, `CompletedShown`; any call of the worker may fail; two edits are what it takes for one to meet the other's transaction, two steps for a run to meet an edit between them; runs meet each other only in the count of active ones, where one stands for all |
| sessions | one account, four requests, four tokens | `TypeOK`, `ReplacedIsRevoked`, `LiveTokensCounted`, `SessionKept`, `OverForGood`; four requests are two sessions with a refresh each, or one with three refreshes, two of which may overlap before the third uses what one of them got |

Runs that are expected to find a violation, each of a sentence of the
repository, with what happens:

| Run | Claim | What the code does |
|---|---|---|
| cancel_is_final | a cancelled run is refused a second cancel (`run_test.go:152`), is skipped (`worker.go:158`) | a worker past the status check sets it back to `running` (`worker.go:193`) |
| started_runs_end | durable execution with crash recovery (`docs/PLAN.md:9`) | a crash between XACK and XADD (`worker.go:259`, `307`) strands the run |
| hub_late | a client that leaves is removed from all subscriptions (`hub.go:80`) | a subscription still in the channel is entered after the client left (`hub.go:110`), and the next event of the run is sent on its closed channel |
| edit_updated | "Cannot update workflow with active runs" (`workflow.go:226`) | the check (`workflow.go:222`) is outside of the transaction and its error is ignored; a run created in between is active when the steps are replaced |

The premises `Before(...)` of the passing properties are needed, and say where the
code makes no such promise: a failed COUNT of the steps reads as 0 and completes
the run after any step (`worker.go:286`, hence `VerdictsEarned` "until a call
fails"); a failed read or write of the context hands the next step something
else (`worker.go:207`, `276`, hence `ContextFlow`); an action that outlasts the
recovery threshold is executed twice, since the attempt is recorded after it
ran (`worker.go:249`, hence `OneCarrier` and `NoRerun` "until an overrun"); a
failed XADD, a crash or a stop leaves an active run that nothing carries
(`run.go:96`, `worker.go:307`, hence `NoneStranded`). `CompletedWhole` and
`CompletedShown` name their exceptions one by one (`uncounted`, `ignored`, `cut`)
instead of a premise, and say what still holds under the last two.

`SettledForGood` starts when nobody is past the status check and then promises
that nothing of the run changes. `NeverResumed` starts earlier: goroutines may
still be about to write a verdict or sit in a backoff, so the verdict may change,
but no step is asked for or executed any more.

### Fairness

`FairSpec` assumes: a goroutine that can take a step does (`WF(ThreadStep(t))`: the Go
scheduler, and calls have timeouts or return when the context is cancelled); a
request handler past its first call goes on; a server told to stop does; a
pending entry nobody works on grows idle; and a server that is down is started
again. The last is about the deployment (`infra/docker`), not the code;
without it nothing could be promised after a crash. No fairness makes a client,
a failure, a crash or an overrun happen.
In `WSHub`, the hub, the listener and the readers are scheduled (`Serving`,
`Listening`), and a case of the hub's select that stays ready is taken in the end
(Go picks among ready cases at random). Nothing is assumed of the writers, which
stall when their peer does not read: `EventsHandled` holds without them.
`ConnectionsEnd` has `Writing` as a premise, which their write deadline
justifies. The liveness properties allow for the process to have died by the panic above.

## 4. Proofs

`RunEngineTyping` proves `TypeCorrect: Spec => []TypeOK` for every number of runs,
steps, retries, servers, goroutines and every budget, from the assumptions
named in `RunEngine` (at least one step, integer retries, consumers and recovery
goroutines disjoint, `NoInstance` not a server, a positive batch). `TypeOK` is not
inductive: the message a goroutine adds is in range only because it stands
where it does. The inductive invariant is `IInv == TypeOK /\ JobsOK /\ DownOK`:
`JobsOK` says what each position implies (a message in hand exactly between
taking and finishing it; after `execute` the outcome seen is one the action had;
after the acknowledgement the branch matches the outcome; before `enqueue_next`
there is a next step; in the retry path another attempt is allowed), `DownOK` that
goroutines of a dead process have exited. One lemma covers each group of
actions; `TypingStep` combines them.

`RunEngineProofs` builds on it:

* `StepsInOrder`, `RetriesInOrder`: the stream only grows, by one message that is
  justified (`StreamStep`), so an order once true of a message stays true;
* `OverStaysOver`: a settled run is touched by no step. Who works on another
  run leaves it alone (`OwnRunOnly`); who works on it is before the status check;
* `OverNotResumed`: likewise from the moment the goroutines of a run that is over
  have only verdicts to write and failures to judge: each of their steps stays
  among such places or lets the message go (`ClosingStep`), because the status is
  read again after a backoff;
* `VerdictsAreEarned`: with `GroundsOK` (a goroutine of a live pool stands at
  `complete_run` only at the last step and at `fail_run` only without a retry left,
  until a call fails) and the monotone budget, the writer of a verdict holds
  the evidence, and `StepOrder` supplies the earlier steps.

`RunEngineCarriers` proves where a run is. None of `OneCarrier`, `NothingLost`,
`ContextFlow` and `AnnouncedIsOver` is inductive, nor are they together: that two
messages of a run are not both waiting says nothing of the goroutine that has
recorded one of them and is about to add the next. The idea that makes them so
is that whatever carries a run is about the run's *last* message (`LastOK`): a
message still to be executed (`Open`), or the one a goroutine is handing on
(`Handing`: from the acknowledgement to the XADD), is the last of its run, and
only one goroutine hands it on. A new message comes from the handler that just
created the run or from that one goroutine, which lets go in the same step, so
it is alone again (`NewIsAlone`, `LastStep`). Three facts about single messages
carry this (`BaseInv`), each under the hazards it needs: until an overrun, an
unacknowledged goroutine has its entry to itself and fresh, and one past the
idempotency check has no record (`HeldOK`; a claim needs an idle entry); until a
call fails, a goroutine past the INSERT has its record (`AckedOK`); and a run
that has a message has a row and no handler in flight (`UnbornOK`). On top:
an acknowledged message without a record belongs to a run that is over and that
nothing carries (`DropOK`, `GoneOK`), what was announced as ended is over
(`EndedOK`), and the row's context is the input of the last message, or its
output once saved (`DataOK`). `CarrierInv` is their conjunction; the five
theorems are read off it: `RecordedIsNotRerun`, `RunsAreInOnePlace`,
`NothingIsLost`, `ContextIsHandedOn`, `AnnouncementsHold`.

`RunEngineView` proves what is visible from outside:

* `FeedHasNoGaps`: until a call fails, a message for step s + 1 exists, and a
  goroutine saves the output of s, only after the completion of s is in the feed
  (`ToldOK`), which never shrinks. No carrier argument is needed, so this holds
  under overruns and cancels too;
* `NoneIsLeftBehind`: while nothing fails, crashes or stops, an active run has its
  handler, an unread message, or a goroutine at a place from which it still goes
  forward (`BackedOK`); the duplicates an overrun makes do not disturb that, since
  a goroutine gives a message up only when it found the run over (`ForwardStep`);
* `ImplementsLifecycle`: `RunEngine` implements `RunLifecycle` in every behaviour
  without a cancel, a failing call or an overrun. `PathOK` ties the row to the
  carrier: a message still to be executed is for the step the row is at or the
  next one, and a goroutine finds the row as it left it, because nobody else
  could have written it (`OpenIsAlone`, `HandingIsAlone`). `WriteMaps` and `PublishMaps`
  map each step to `Create`, `Begin`, `End`, `Publish` or to none;
* `PromisesHold`: what `RunLifecycle` says of every behaviour holds of the engine
  through that refinement: the published verdict is the status of the row, a
  terminal status is final, and the step of a running run goes up by one at a time.

The premises `Before(...)` of these theorems are about the behaviour, not the
constants: a budget may allow any number of each hazard, and the statement
stands up to the first one of its list.

`WSHubProofs` proves every safety property that `hub_safety` checks, for any
number of clients, runs, requests and events and any capacities, and that `WSHub`
implements `ClientFeed`. `TypeStep` goes part by part, with one lemma that says
which actions touch it. `MapsAgree` and `NoGhostClients` are part of `LifeInv`: a
client is registered from the end of `Handle` to its unregister, and before its
reader runs nothing refers to it. `RequestsHonoured` only speaks of an empty
queue; the inductive `HeardOK` says of any queue that the last request naming a
run decides what the client wants (`HeardByServe`, `HeardBySend`, `HeardByAsk`).
For `HubImplementsFeed`, `WayOK` follows an event through inbox, buffer and
connection: numbers rise along the way, and `NamedOK` keeps every subscriber and
every request to runs the client has named; `FeedMaps` then maps each step to a
step of `ClientFeed` or to none.

`WorkflowEditProofs` proves every safety property of `WorkflowEdit` that
`edit_whole` checks, for any number of requests, runs and steps. `EditInv`:
exactly the request between `LockRow` and the end of its transaction holds the
lock, it has deleted the rows there are and inserted a prefix of its own, so
`Commit` leaves one whole version (`StepsAreWhole`). `RunInv`: while an edit is
admitted, every run that is active or in a worker's hands is uncounted, so nothing
an edit writes is under a counted run (`DefinitionKept`). `Progress` follows such
a run: what it has recorded are steps of the one version up to the one it is at,
each of them unless an error was ignored, and it completes with no step left
unless a COUNT failed (`CompletedRunsWhole`); `StepsOfLemma` and `StepsOfMore`
supply the numbers of steps.
`WorkflowReadsProofs` carries the invariant over to `WorkflowReads`, whose steps
are steps of `WorkflowEdit` or leave it alone (`ReadsStep`), and adds `ReadInv`:
versions noted since the first statement keep their steps, and a completed run
stays as it was read, unless it is deleted; errors once ignored stay marked
(`CompletedKept`). `CompletedRunsShown` follows for whole and for cut answers.

`SessionsProofs` proves every property of `Sessions` for any number of
accounts, requests and tokens. `TypeOK` needs that a stored token has a session
(`Named`), and `ReplacedIsRevoked` that a refresh that issues has revoked what it
read (`Holds`); with both it is inductive (`StepIInv`). `SessionsEnd` rests on
`JoinLemma`: a request joins a session only by starting it or through a usable
token of it, and a token only from a request under way, so a session with
neither stays without. `SessionsKept` is a step-by-step argument (`KeptStep`): only
`RevokeToken` takes a token from a session that is not left, and only when its
request goes on or fails. `TokensAreCounted` needs a sum that is inductive where
the number of live tokens is not: live tokens nobody is about to revoke, plus
requests under way, are at most one more than the overlaps (`Counted`). A refresh
moves one from the first to the second, or is an overlap; issuing moves it back;
and a live token that is not free belongs to a request about to revoke it
(`CountedBounds`). Nothing is assumed finite: the sets counted are shown to be.

Every invariant, every action property and both refinements that the passing
runs check are proved. Only model-checked: the liveness properties `MessagesDrain`,
`RunsSettle`, `EventsHandled` and `ConnectionsEnd` (liveness under fairness and
ENABLED are beyond the prover; so are recursive definitions by induction and
RECURSIVE operators, of which there are none), and the four violations.

## 5. Not modelled

Middleware, router, configuration, logging, metrics, tracing, health and
infrastructure keep no state that another part reads back: they have no states a
model could tell apart. The `List` handlers return one page by one statement and a
count by another and keep nothing; `Me` reads one row. The length of a backoff
(`retry.go`, floating point) is left out: a backoff may end at any time. What an
action computes, the contents of events and HTTP answers are
left out. Redis and PostgreSQL are modelled by the commands the code uses.

## 6. Plan

1. done: `RunEngine`, `RunLifecycle`, their runs, typing and order proofs.
2. done: `WSHub` and its runs. `ClientFeed`, which it implements. Its
   safety properties and the refinement are proved.
3. done: `WorkflowEdit` and its runs; its safety properties are proved.
4. done: proofs of where a run is carried and of what is seen of it
   (`RunEngineCarriers`, `RunEngineView`).
5. done: `WorkflowReads` and `Sessions` with their proofs.
6. A composition of the engine's publishing with `ClientFeed`: what a subscriber
   can conclude from the events it receives.
