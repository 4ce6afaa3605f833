# A verification project for NAVI

TLA+ specifications of the core of NAVI (open-navi), the TLC configurations that
model-check them, and TLAPS proofs of their most important properties.

## 1. The system

NAVI is a daemon (`cmd/navid`) that runs a personal agent. Messages reach it from
a web console, HTTP clients, connectors (Telegram, Slack, ...), webhooks, a
heartbeat and cron jobs. Each becomes an inbox item of a *runtime session*; the run
coordinator turns inbox items into *runs*, one at a time per session; a run executes
the agent loop, which calls language models and tools; a tool call that the governor
does not allow outright becomes a *proposal*, and the run waits, possibly across
restarts, until the owner resolves it. State is in SQLite, events go over JetStream.

| Component | State | Operations | Hard behaviours |
|---|---|---|---|
| Run coordinator (`internal/runtime`) | `running` map, `RunState`, draining flag, scheduler heap | submit, signal, resolve, cancel, drain, dispatch, launch, watchdog, pause, resume, complete, delayed messages | goroutines sharing a `RunState`, contexts cancelled under store calls, crash between two statements, watchdog against a late executor |
| Runtime store (`internal/navi/store`) | inbox, runs, checkpoints, transcript, event log | one SQL statement or transaction each | each is atomic, their sequence is not |
| Message intake (`internal/navi/message_intake.go`) | chats, endpoints | append to chat, submit | duplicate submissions |
| Agent loop (`internal/navi/runtime_executor.go`) | prompt, checkpoint | execute, replay an approved call, ask for approval | interruption, replay after a restart |
| Proposals (`internal/store/proposal.go`, `navi.go`) | proposals table | upsert, resolve, expire | resolve/expire/upsert races, duplicate resolutions |
| Cron (`internal/cron`) | cron_jobs rows, timers | tick, run now, create, update, delete, catch-up | tick against RunNow and edits, jobs stuck after a crash |
| Connectors (`internal/connectors`, `navi/delivery_service.go`) | delivery rows, workers, queues, circuits | deliver, dispatch, send with retry, drain, start, stop | queue limit, close during send, stop against retries, half-open circuit |
| Heartbeat (`internal/navi/heartbeat`) | pending wakes, timer, loop | request wake, drain, start, stop | coalescing by priority, timer against drain, restart against an old loop |
| Orchestrator and workers (`internal/orchestrator`, `critic`, `coder`, ...) | directives, messages, tasks | tick, decide, decompose, finalize; take, authorize, execute | crash between persisting and publishing, redelivery during execution, messages during a model call |
| Connector intake (`internal/intake`) | records, chunks, provenance, passes | emit, admit, de-duplicate, resume, synthesise, flush | redelivery after a crash, flush between check and count |
| Governor (`internal/governor`) | counters in memory | record and trip | limits lost and renewed by a restart |
| Event bus (`internal/bus`) | JetStream, event log | publish, subscribe | redelivery, panics of handlers, dual write |
| LLM fallback (`internal/llm`) | cooldowns | chat, stream | order of candidates |
| Gateway, memory vault, identity, world model, artifacts, UI, plugins | data and I/O | | no protocol of their own |

How they interact: gateway, connectors, cron and heartbeat call message intake or
`SubmitSignal`; the coordinator reads and writes the store and calls the executor in
a goroutine of its own; the executor saves proposals and returns a result (reply,
scheduled messages, pause, error); resolving a proposal writes its row and enqueues
an inbox item; the coordinator's loop picks that item up when the session's run is
paused. Besides these turns there is a second path: a directive, written by the
gateway, is taken up by the orchestrator's loop, which decomposes it into tasks; workers
receive them over a durable JetStream consumer, execute them and write their rows, which
the loop reads to finalize the directive. A third leads from connectors through a durable
work queue into the world model (the "refinery"). Replies go out through the delivery
service and the connector manager. The governor's counters are shared by all of them.
Nothing but the store and the streams survives a restart.

What makes each correct: an accepted message is acted on once and not forgotten; a
session never has two runs at work; a tool call behind a proposal is executed only with
an approval of its own; a paused run can be resumed; a run ends once, and says so.
For cron: a due job is executed, by one tick at a time, and the service never stops
looking. For connectors: a delivery is sent once, and its row says what became of it.
For the heartbeat: no accepted wake is forgotten. For directives: one decomposition, whose
tasks all end, and a status that reflects them. For the intake: an acknowledged record has
been refined, each of its derivations once, and every record is counted in one pass.
`PROJECT.json` lists the hazards line by line, with the properties that cover them.

## 2. Modules

| Module | What it is |
|---|---|
| `RuntimeStore` | the durable state of one session and the statements on it: `navi_inbox`, `runtime_runs`, checkpoints, proposals, transcript, terminal events. One operator per statement or transaction. |
| `RunCoordinator` | the coordinator with the handlers that call it and the executor it calls: one action per step between two store calls. |
| `SessionTurns` | the abstract specification: turns, without runs, checkpoints or goroutines. |
| `MCRunCoordinator` | instances for TLC. |
| `RunCoordinatorTypes`, `RunCoordinatorTurns`, `RunCoordinatorRuns` | theorems about the coordinator and their proofs: types; turns and the refinement; merged text, completion, replays and checkpoints. Each extends the one before. |
| `CronService` | the cron service on its table: timers, ticks, executions, clients, start and stop. |
| `MCCronService` | instances for TLC. |
| `CronServiceProofs` | theorems about the cron service and their proofs. |
| `ConnectorDelivery` | delivery service, connector manager with its circuit breaker, workers. |
| `ConnectorDeliveryProofs` | theorems about deliveries. |
| `Heartbeat` | ticker loop, wake requests, the coalescing timer and its drains. |
| `HeartbeatProofs` | theorems about the wakes. |
| `Governor` | the governor's counters, as pure operators shared by the two modules below. |
| `Directives` | gateway handlers, orchestration loop, JetStream consumer and workers, composed. |
| `DirectivesProofs` | theorems about decompositions, tasks and types. |
| `Refinery` | the intake pipeline: work queue, worker, stages, passes and their flush. |
| `RefineryProofs` | theorems about passes, then about stages. |
| `MCConnectorDelivery`, `MCHeartbeat`, `MCDirectives`, `MCRefinery` | instances for TLC. |

Definitions whose comment begins with "Mutant of" are variants of the definition that
follows them with a plausible mistake; nothing uses them. Each property is shown to fail
with one of them in place of the original.

### RunCoordinator and the code

The unit is one runtime session: `running`, the inbox query, the paused run and the
classifier are all keyed by it.

* **The loop goroutine** (`lpc`): `Boot` is `recoverOrphanedRuns`; `Poll`, `ListItems`,
  `Promote`, `GiveUp`, `Create`, `ConsumeItem`, `Abort`, `EmitAbort` and `Launch` are the
  statements of `dispatchRuntimeSession` and `launchRun` in order. The ticker (200 ms)
  may fire at any time, so `Wake`, whose token is dropped when the channel is full, adds
  no behaviour.
* **A launch** (`gpc`): the goroutine of `launchRun`. `LoadCheckpoint`, `ConsumeResume` and
  `Activate` for a resolution; `AwaitResult`, `Timeout` and `DrainExpired` for the select
  statements; then one of `FailRun`, `CancelledRun` (followed by `EmitEnded`),
  `SavePause`/`PersistPause`, `Reply`/`Complete`, or `Deliver`/`MarkDelivered`; `Exit` is
  the deferred function. `gctx` is the launch's context: after `CancelRun` every store
  call under it fails, which is what database/sql does with a cancelled context.
* **The executor** (`xpc`): external to the coordinator and modelled by what
  `ExecuteRun` may do: `Replay`, `Propose`/`SavePropose`, `Return`. It may run on after the
  launch has given up on it.
* **The scheduler** (`spc`, `jobs`, `left`): `FireJob` and `CompleteJob`, under
  `context.Background()`.
* **Clients**: `BeginSubmit`, `ClassifySubmit`, `FinishSubmit` are the three store accesses of
  a submission (`sub`); `ResolveRead`, `ResolveUpdate`, `EnqueueCheck`, `EnqueueInsert`,
  `ResolveFails` those of a resolution (`call`), several callers at once; `CancelMark`,
  `CancelRead`, `CancelWrite`, `CancelSignal` a `CancelRun`, which works on the `RunState`
  the launch is using, without a lock (`mem` is that object; reading its fields and writing
  the row are two steps); `Drain`, `DrainReturns`; `Expire` is navid's janitor.
* **Crash** loses everything but the store. Any store call may fail (`Fault`), at most
  `MaxFaults` times; `MaxIncidents` bounds the two together.
* **History variables** (`ran`, `input`, `seen`, `approvals`, `replays`) record what was
  executed; no action reads them.

Abstractions to know of. Text is the set of submissions it contains. The burst window of
the classifier is a nondeterministic choice of a pending text item. `GetProposal` and
`GetPausedRun` of a resolution are one read step. The transcript an executor works on is
read when it starts. A resumed run's executor and an abandoned earlier executor of the same
run share one program counter. Events that do not end a run, metrics, execution outcomes,
scratchpads and ICS state are left out. `AcceptMessage` refuses a known idempotency key
before it looks at the queue action, so a row with status `superseded` is never inserted
(`RetryInv` is the reason). A replay is not revalidated (`ProposalResolutionRevalidate`,
`runtime_executor.go:643`), which no caller in the daemon asks for, and `SaveProposal` does not
supersede older proposals, which it does for reflection proposals only. `GetPausedRun` may return any paused run when there are several.

### CronService and the code

Cron and the coordinator meet only in the submission a dispatch makes, so the two modules
are separate: to the coordinator a job is one more client, to cron a dispatch is a result.

* **Rows** (`rows`): one `cron_jobs` row per job: schedule, `enabled`, `next_run_at_ms`,
  `running_at_ms`, `consecutive_errors`. `NextInstant`, `ErrorBackoff` and `Outcome` are
  `ComputeJobNextInstant`, `ErrorBackoffMs` and `applyOutcome`.
* **Workers** (`pc`, `local`): the goroutine of `Start` (`Boot`), goroutines of `onTimer`
  (`Ticks`) and of client requests (`Clients`). A tick is `OnTimer`, `Load`, `MarkRunning` and
  `Spawn` for each due job, `WaitDone`, `FinishTick`, `ArmTimer`; the catch-up is `CatchUp`,
  `CatchUpMark`, `CatchUpNext`, `DeferRead`, `DeferWrite`, `CatchUpDone`; `Create`, `Delete`,
  `BeginUpdate`/`CheckUpdate`/`WriteUpdate` (the `update_task` handler reads the row before
  `Update` reads it again) and `RunNow`/`RunNowMark`/`RunNowDone` are the requests. What a
  worker read stays in `local` until it is written, whole rows as in the code.
* **Executions** (`exec`): `runOneJob` per worker and job: `Dispatch`, `Refresh`, then
  `Persist` or `DeleteAfterRun`, and `ClearRunning` on failure. `ctx` is a caller's context,
  `stopped` also stands for the cancelled `rootCtx`; statements under a cancelled one fail.
* **Timers** (`timer`, `recheck`, `fired`): `Fire` is a timer's goroutine starting; it may wait
  for the mutex while others re-arm, up to `MaxFired` of them at once. Delays are not
  modelled: a timer fires at any time after it is set, which includes the code's 2 s to 60 s.
* **Time** is a counter up to `MaxTime`; `StuckAfter`, `Period`, `Stagger`, `MinGap` and the
  backoff table are in its unit. Failures, requests, stops and crashes happen only while
  `Early` holds, so that the two hours after which a mark is ignored can still pass.
  `consecutive_errors` saturates at `MaxErrors`, above every threshold it is compared with.

### ConnectorDelivery and the code

* **Dispatchers** (`dpc`, `target`), one per delivery: `Deliver` saves the row as queued and
  makes the first half of `isCircuitOpen`, `Probe` the half under the write lock, `Lookup` takes
  the worker from the map, `Enqueue` sends to its channel, `Refuse` records a failed dispatch.
  The lock is released between `Lookup` and `Enqueue`, as in the code.
* **Workers** (`wpc`, `job`, `queue`, `closed`, `cancelled`): `Receive`, `StartDrain`, `ExitLoop` are the
  select statements of `runLoop`; `PreSend`, `Send`, `Backoff`, `Record` the steps of
  `sendWithRetry` for one chunk, `Proceed` the loop over chunks. A statement under a context
  that has ended fails. Workers are numbered, because `StopOne` takes a worker out of the map
  before it has finished and `StartOne` may make the next one meanwhile.
* **Manager**: `StartOne`, `StopBegin`/`StopClose`/`StopWait`/`StopCancel` for `StopOne` and
  `StopAll`, `Judged` is `onSendResult`, `OnInbound` and `Janitor` make and forget placeholders.
* `panicked` ends every behaviour: a send to a closed channel is a panic in Go.

One connector, one chat (so one placeholder). The insertion of the row and the first half of
`isCircuitOpen` are one step: nobody else reads the row in between. The limiter, backoffs and the cool-down are
times that pass at any moment; a rate-limit answer is retried like a temporary one. Hooks
may cancel a delivery, not rewrite it. A delivery of several chunks has one row, as in the
code, and the last chunk decides it: `SentWasAcknowledged` says "at least in part" for that
reason.

### Heartbeat and the code

`Start`, `Stop`, `CancelCtx` and the loops they make (`lpc`); `runLoop` reads `h.stopChan` anew in
every iteration (`LoopSelect`), and the loop of an earlier `Start` may still be in a cycle.
`RequestWake` is the check of the running flag, do-not-disturb and quiet hours, `MergeWake`
the part under `wakeMu`; `TimerFires` starts the goroutine of the timer, `TakeWakes`,
`CheckRunning` and `WakeCycle` are `drainMergedWake`. The notes of a wake are the set of
requests whose reasons they hold; reading HEARTBEAT.md, the prompt and the wait for the
agent are one step with either result.

### Governor, Directives and the code

`Governor` has one operator per `Record...` call. In `Directives`:

* **The loop** (`loop`): `Tick` is `HasWork`, the action budget and the call of `Decide`; `Decide`
  reads the newest active directive with its messages and tasks, in one step, and chooses
  (`Choice`, in the order of the tests); `ChatReplies`, `DecomposeReplies`, `PersistTask` per task and
  `Decomposed` follow the model call, `Finalize` writes the status `Decide` has computed
  (`FinalStatus`) and `Summarise` what comes behind it; `Reply` saves the message and then tells the governor; `Publish` sends the
  decision's events one by one. A trip or an error ends `RunLoop` for good (`Exit`).
* **Broker** (`mail`, `inbox`): at-least-once delivery with a 30 s acknowledgement wait
  (`AckWaitExpires` hands out a message again that a worker still has).
* **Workers** (`worker`): `TakeTask`, `Authorize` (with `StartTask`, the write of `running`),
  `ReportTask` and then `CompleteTask`, or `ExecuteFails`, `FailTask`, `Ack`;
  `HandlerPanics` is the recovery in `Subscribe`. A worker writes the whole row it got with
  the event. Critic, strategist and scout behave alike; a coder task fails, because the
  daemon builds its runner without the directive writer it insists on.
* **Crash** keeps rows and streams; loop, governor and subscriptions start anew.

Model answers are a choice from `Contents` and `Plans`; consecutive replies in the log are
one, because nothing tells them apart. The retries of the model within a decomposition
(`adapter.go:380-415`) are one answer, and a history is read whole, not its last 50 or 10
messages (`adapter.go:361`). `FinalStatus` counts failed tasks only: `finalizeDirective` also
counts cancelled ones, but only a project's tasks are ever cancelled. `GetActiveDirectives` also selects paused
directives, but nothing sets that status. `again` and `stranded` are history: which tasks
were delivered twice, and which were lost and why.

### Refinery and the code

The handler (`h`) walks through `processRecord` for the message at the head of the
subscription: `Begin` (action budget, admission), `Dedupe`, `Budget`, `Cost`, `Save`, `Bump`, then
`RunStages`: `SaveChunk` one by one, `Candidate` and `Link` for each derivation, `MemoryFails` for a
chunk memory that cannot be written (it is passed over), `StageFails` (any other failure ends
the stages) or `StagesDone`; `Respond` acknowledges. `FlushPasses` is the ticker's goroutine, which may run
between any two of these; a pass taken out of the map is written later (`closing`,
`WriteRow`). `Crash` loses pass, counters and the handler, and the broker delivers again what
was not acknowledged.

One connector, all of whose records have the same chunks and candidates; the cost of a
record is 1. `passCanAdmit` and the closing of a full pass are one step: they are two
critical sections, and a flush between them leaves nothing to close. Connectors of hidden
visibility log no completed pass; the model is of a visible one. Of the two budgets of a
pass, records and bytes (`policy/pass.go:62-68`), it has the first. A message that does not
unmarshal is terminated before `processRecord` (`worker.go:134-138`) and touches nothing, so
there is none; the malformed one of the run is what `Admit` refuses. The stream forgets a
message after 48 hours (`bus/streams.go:48`); here it is redelivered without limit, so
`RecordsSettle` speaks of messages younger than that. Whether the governor lets a candidate become an
entity is a choice. `Save` cannot meet a duplicate, because there is one consumer.

## 3. Runs

Every configuration gives the bounds; `PageSize = 20` is the code's, except in `progress`,
where a page of 2 is filled by a signal and a resolution. Deadlock is not
checked: a session with an empty inbox and no client is meant to stand still, and each
instance stops when its submissions (or, for cron, its time) are used up. The same holds
for the other modules: deliveries, wakes, directives and records are used up.

| Run | Instance | Checks |
|---|---|---|
| `intake` | 3 items, 2 runs, 1 key, 1 crash, 1 fault, drain | `TypeOK`, `ActedAtMostOnce`, `ConsumedBeforeActed`, `MergedTextIsSeen`, `MergedTextIsCarried` |
| `approval` | 3 items, 1 run, 2 proposals, 2 callers, 1 crash or 1 fault, expiry (3.0 million states) | `ReplayOncePerApproval`, `PausedHasCheckpoint`, `ResumesItsOwnProposal` |
| `delivery` | 2 items, 2 runs, three plans of messages, signals, 1 cancel, 1 crash, 1 fault, watchdog | `CompletedOnceAtTheEnd`, `SingleFlight`, `TurnInv`, `ImplementsTurns` |
| `progress` | 3 items, 1 run, 1 proposal, a page of 2, signals, watchdog, fairness (0.18 million states) | `SessionIsReleased`, `MessagesProgress`, `ResolutionsProgress` |
| `cron` | 2 jobs of all four kinds, 2 ticks, all results, 1 fault, 1 crash, 1 stop | `TypeOK`, `TimerNeverLost`, `TicksDoNotOverlap` |
| `cron_due` | 1 job, 2 ticks, 1 request of a client who may vanish, 1 crash, fairness | `DueIsServed` |
| `connectors` | 2 messages, one of 2 chunks, queue of 1, 1 retry, threshold 1, 2 workers, `StopOne` and `StopAll`, 1 mishap, fairness (1.0 million states) | `TypeOK`, `SentWasAcknowledged`, `QueuedIsHeld`, `AcknowledgedIsNotResent`, `DeliveriesSettle` |
| `connector_stop` | 2 messages, 1 worker, no mishaps | `NoPanic`, violated |
| `heartbeat` | 3 requests of two priorities for one session, 2 starts, 2 drains, fairness (0.2 million) | `NotesAreCarried`, `PendingHasTimer`, `WakesAreTaken`, `LoopsEnd` |
| `directives` | 1 directive, 1 message, plans of 0, 1 and 2 tasks, action budget 3, cost ceiling 2, repetition limit 3, 1 crash, fault, redelivery or change of mode, fairness (0.26 million) | `TypeOK`, `OpenTaskIsHeld`, `OneDecomposition`, `CompleteMeansCompleted`, `TasksEnd`, `DirectivesAreFinalized`, `OwnerIsHeard` |
| `reply_race` | 1 directive, 2 messages, no tasks, no incidents, fairness | `OwnerIsAnswered`, violated |
| `refinery` | 2 records and a malformed one, 2 chunks, a chunk memory and a contact named twice, 1 record per pass, ceiling 2, action budget 5, 1 crash, fault or redelivery, fairness (0.95 million) | `PassesAddUp`, `BudgetIsKept`, `AcknowledgedIsRefined`, `EntityOncePerDerivation`, `RecordsSettle` |

Why the bounds are enough: an item interacts with at most one other through a merge and
with at most one run at a time, so two runs and three items (a message, one that is merged
or deferred, one that comes later; or a message and two resolutions) reach every pair of
program points; one crash or one fault at *every* point is what the code has to survive, and
the properties proved in section 4 hold for any number of them. `delivery` has no
proposals: that a resumption, too, refines a turn is what the theorem `Refinement` adds. Two callers are the least
that race. Symmetry (callers and proposals; jobs and ticks) is used for safety properties
only, and the members of these sets are only compared for equality. For cron, two jobs are one more than
the pool and the immediate catch-up take (`Pool = MaxImmediate = 1`), two `onTimer`
goroutines the least that overlap, three units of time let a mark grow old and a recurring
job come due twice; `cron` has faults and results, `cron_due` the clients, and the
theorems cover both together. For `connectors`, a queue of one is full with the second
message, one retry has a first and a last attempt, and two workers are what a stop and a
start need to overlap. For `heartbeat`, two requests of equal priority merge and a third
outranks them, and two drains overlap. For `directives`, the loop works on one directive at a
time and the worker on one task; two tasks are the least for a decomposition to be cut in
two, and the theorems hold for any number. For `refinery`, a budget of one makes the second
record close a pass; a record comes twice through redelivery.

### Disagreements with the documentation

Two runs are expected to end with a counterexample. `connector_stop`: `Dispatch` looks the worker up
and releases the lock, `StopOne` or `StopAll` closes its queue, and the send that follows
panics, where the comments promise a graceful stop that accepts no more messages. (Two
stops of one worker close its channel twice, with the same end.) `connectors` therefore
asks its questions of the behaviours in which the process survives.

`reply_race`: the owner writes to a directive in chat mode, the loop reads the log and calls
the model, the owner writes again, and the reply to the first message is saved behind the
second. From then on the last message of the log is NAVI's, so `HasWork` (`adapter.go:84`)
and `Decide` (`adapter.go:125`) see nothing to do, and the second message waits until the owner
writes once more, although the comment at `adapter.go:123` says that NAVI, having replied,
waits "for a new user message". `OwnerIsHeard` in `directives` therefore excepts messages
that come in while an answer is under way (`Answering`), and directives with tasks, whose
workers write reports into the same log; everything else the owner says is put before
the model.

Other disagreements that TLC finds in these models when the property is stated, without a
run of their own:

* *A cancelled run is left active.* The update that ends a cancelled run uses the context that
  was just cancelled (`runtime/coordinator.go:665`); `coordinator_test.go:972` expects
  "cancelled run status" and passes because its in-memory store ignores the context.
* *A completed run becomes active again.* `CancelRun` reads the run, the run completes,
  `CancelRun` writes the row back (`coordinator.go:345`).
* *A duplicate resolution starts a run.* It stays pending, and when no run is paused any
  more it is dispatched as a message would be (`coordinator.go:454`), although
  `coordinator.go:322` says "proposal resolution resumes a paused foreground run".
* *A resolution may never be read.* A dispatch looks at the first twenty pending rows
  (`coordinator.go:421`), and a paused run skips every row that is not its resolution. With
  twenty signals before it, the resolution is not in the page and never will be, against
  `docs/FEATURES.md:17`: "Runs can pause on a proposal and resume after owner resolution".
  TLC finds this with `PageSize = 1`, one signal and `ResolutionsProgress` stated for every
  pending resolution; the property in `progress` is about those in the page.
* *An expired proposal leaves its run waiting* and its session blocked: `ExpireProposals`
  (`store/proposal.go:341`) enqueues no resolution, and an expired proposal cannot be resolved.
* *A job run by hand whose caller is cancelled stays marked as running*: outcome and reset
  fail under the same context (`cron/service.go:518`, against the comment at 476).
  `DueIsServed` shows that it recovers after two hours.
* *A task that was persisted and not published stays pending for ever* when the process dies in
  between: nothing looks for pending tasks at start. `docs/concepts/orchestration-loop.md`
  says "Crash and restart — it picks up exactly where it left off." These are the tasks
  `OpenTaskIsHeld` excepts as `stranded`.
* *A record that is cut off behind its first chunk is not resumed*: `resumeDownstream`
  (`intake/worker.go:275`) does nothing once a chunk exists, where
  `docs/specs/context-intake-pipeline-v1.md:241` describes resumption. These are the sources
  `AcknowledgedIsRefined` excepts as `damaged`.
* *A record larger than the byte budget of a pass is admitted*: when `CanAdmit` refuses it, the
  pass is closed and the record goes into a fresh one that is not asked again
  (`intake/worker.go:213-215`), where `policy/pass.go:59-60` says "exceeding budget never
  silently admits". (The model has no bytes; this is from reading.)
* *Every coder task fails* as `cmd/navid/main.go:730` wires the runner.

`findings` in `PROJECT.json` quotes the lines of the two runs.

More limits of the code that the model shows with other constants or properties:
`PausedHasCheckpoint` does not survive a `CancelRun` (with `MaxCancels = 1`, the cancellation
may write the row of a pausing run between the assignment of its status and
`SaveCheckpoint`). A delivery stays queued for ever when the wait of a stop expires and the
worker's context ends in a back-off (`connectors/worker.go:227`): `QueuedIsHeld` and
`DeliveriesSettle` except what happens after such a mishap. A task that was delivered again
while its first handler still worked may end with the later of the two reports, so
`CompleteMeansCompleted` excepts tasks that were delivered twice (`again`). A dispatch that has passed the draining check launches
its run after `Drain` has seen none in flight and returned. A tick and `RunNow`, which both
read the mark before they write it, may execute one job at the same time
(`TicksDoNotOverlap` is about ticks for that reason), and the full-row marks of ticks,
`RunNow` and the catch-up may overwrite a concurrent `Update`. After a `Stop` and a `Start`, two
heartbeat loops may run, the old one now listening to the new stop channel (`LoopsEnd` holds
all the same). A half-open circuit lets every dispatch through until the first result. A
directive with a blocked task spends the action budget tick by tick until the loop ends,
which is why `DirectivesAreFinalized` and `OwnerIsHeard` except a loop that has exited; and a
message below the newest directive waits until that one is complete.

### Fairness

Liveness is checked under `Fairness`: weak fairness of the loop (its ticker never stops),
of a launch and its two timers, of the scheduler's goroutine, and of a request once begun.
A goroutine that can run does run, a timer that is set fires: the Go runtime gives no
more. Nothing is assumed of the executor (a model or a tool may hang for ever; that the
watchdog copes with it is `SessionIsReleased`), of the owner (hence
`[](PausedRuns # {})` in `MessagesProgress`) or of clients.

`Fairness` of `CronService` is the same: goroutines run, set timers fire, time passes. Two
assumptions are its own: a dispatch ends, because `runOneJob` gives it a context with a
deadline, and a daemon that died is started again by its supervisor.

`ConnectorDelivery`: dispatchers and workers run, `Connector.Send` returns (the clients have
timeouts); nothing is assumed of stops and starts. `Heartbeat`: loops and drains run, the timer
fires, and a `select` with several ready channels does not ignore one for ever (strong
fairness of `LoopExit`: Go chooses among ready cases at random). `Directives`: the loop's ticker
ticks and model calls return, the broker delivers, workers run; not that clients act.
`Refinery`: the broker delivers and the handler runs; the ticker owes nothing.

## 4. Proofs

TLAPS checks, for every number of items, runs, proposals, callers, keys, crashes, faults
and cancellations (the assumptions are the named `ASSUME`s: bounds are naturals, `None` is
not a value, plans are non-empty sequences, switches are Booleans):

* `TypeCorrect`: `Spec => []TypeOK`;
* `TurnInvariant`: `Spec => []TurnInv`, and from it `OneLaunchAtATime` (`SingleFlight`),
  `ActsAtMostOnce` (`ActedAtMostOnce`) and `ConsumesBeforeActing` (`ConsumedBeforeActed`);
* `Refinement`: `Spec => ImplementsTurns`, that is, `RunCoordinator` implements `SessionTurns`.

The argument. "No item is acted on twice" is not inductive: the launch that starts an executor
must know that its item was not acted on before. `TurnInv` adds who may hold an item:
`SingleFlight` (the loop dispatches only while no launch is registered, and a launch is
registered while its goroutine lives), `LoopInv` (from `create` to `launch` the picked item is
untouched, and consumed once past the consume step, unless it is a resolution, which the
launch consumes), `LaunchInv` (a resuming launch's item is untouched up to `activate`),
`IntakeInv` (a submission in progress has no row yet, so accepting it cannot revive a
consumed item) and `RetryInv` (a submission classified as superseding carries a key that is
taken). Acting makes `ran[i] = 1` with the row consumed; no statement takes a row out of
`consumed`, and an item is picked only when pending, so it is never picked again. Each proof
has one step per action; lemmas about the store operators (`AcceptMessage`,
`MarkInboxConsumed`, `PromoteDeferredItems`, ...) carry the data part. For the refinement,
`Turn` is the item of the dispatch or of the registered launch; `Launch` and `Activate` map
to `Act`, `ConsumeItem` and `ConsumeResume` to `Take` (or a stutter), everything that
releases the session to `End`.

`RunCoordinatorRuns` adds the runs themselves, with the same constants:

* `TextInvariant`, and from it `MergedTextCarried` (`MergedTextIsCarried`) and `MergedTextSeen`
  (`MergedTextIsSeen`). Text moves once, from a row that becomes merged to a row that is in the
  queue, and never on (`Carried`); what is merged is in the chat before (`Heard`); a row that was
  dispatched gets no more text; and `Read` ties what an executor loaded to the row of its run,
  through the `RunState` of the launch and of the loop (`RunsKnown`, `LoopKnown`, `FreshKnown`).
* `RunsInvariant`, and from it `CompletedOnce` (`CompletedOnceAtTheEnd`). `SendOK`: a run that may still
  start, be resumed or act has sent nothing of a schedule, and whoever brings the counter of
  outstanding messages to zero, the launch or the scheduler, is alone to complete the run.
  `CkptOK`: a run that may be resumed has the checkpoint of the proposal it is blocked on.
  `LoopOK` is the same for the run in the loop's hands.
* `ReplayedOnce` (`ReplayOncePerApproval`). `Approved`: when a run may still execute the tool call of
  an approved proposal (`MayReplay`: the proposal is in the checkpoint of a run that is paused or on
  its way back, or its executor has just asked), the proposal has been replayed less often than
  approved.
* `PausedIsCheckpointed`, `ResumedWithItsProposal`: `PausedHasCheckpoint` and `ResumesItsOwnProposal`
  as long as `cancels = 0`. The condition is needed: a `CancelRun` that is overtaken by the pause,
  the resumption and the next pause of its run writes back the row it read, and the row then
  names a proposal that the checkpoint does not. `approval` checks the two without cancellations
  for that reason. The other theorems need no such condition: a row that `CancelRun` wrote is marked
  as cancelled by the user, and the executor resumed from it is interrupted before it acts, so
  `SendOK`, `CkptOK` and `Approved` speak of unmarked runs only.

For `CronService`, for any sets of jobs, ticks and clients, any configurations and bounds:

* `TimerKept`: `Spec => []TimerNeverLost`;
* `TicksApart`: `Spec => []TicksDoNotOverlap`;
* `CronTypes`: `Spec => []TypeOK`.

`TickInv`, the inductive invariant of the second, says that a tick past `OnTimer` and before
`FinishTick` is the only one and `ticking` holds, and that a tick's executions live within
it (`WaitDone` waits for them); two ticks executing one job would both be at work.
`TimerInv` is `TickInv` (for the types of the program counters), `fired` a natural number, and
`TimerNeverLost` itself: whoever stops a timer either sets another in the same critical
section (`armTimer`, `onTimer`), has fired it, or is left about to arm (`FinishTick`), and only
`ArmTimer` takes a worker out of that state. `CronInv` is `TickInv`, the types, and what a client
holds between two statements (`ClientHolds`: `Update` and `RunNow` name a job, `RunNow` has its
row): without it a copy written back need not be a row. The lemmas about `NextInstant`,
`ErrorBackoff` and `Outcome` show that every instant is a natural number and the index into the
back-off table is always in its range.

For `ConnectorDelivery`, any messages of any number of chunks, workers, retries and mishaps:
`DeliveryTypes`, `SentIsAcknowledged` (`SentWasAcknowledged`), `AcknowledgedStays`
(`AcknowledgedIsNotResent`) and `QueuedStaysHeld` (`QueuedIsHeld`). `DeliveryInv` adds: nobody holds a
worker that was not made yet (`BornFirst`); a worker's context ends behind its loop or through
an expired wait (`ContextsEnd`); a message is in one channel or in one worker's hands, once,
behind its dispatch (`Once`); and of the message at hand the platform has no chunk behind the current
one, and the current one exactly when its result is still to be recorded (`Chunkwise`). The
last two are what keeps two workers of one connector, or a retry, from sending a chunk twice.

For `Heartbeat`, any requests, sessions, starts and drains: `PendingAlwaysHasTimer` and
`NotesAreNeverDropped`. `WakeInv` adds to the two properties that all notes pending for a session
have its priority (so whatever replaces them outranks them) and that a drain which has not
taken anything holds nothing (so the one that takes loses nothing it held).

For `Refinery`, any records, chunks, candidates, limits and incidents:

* `PassesAlwaysAddUp`, `BudgetIsAlwaysKept`. `QueueInv`: while the handler is at work its message is at
  the head of the queue. `PassInv`: a closed pass counts nothing, a row of the handler is
  written before the slot is used again, and between the budget check and the count one
  more record fits the open pass: a flush in between only makes room.
* `AcknowledgedIsAlwaysRefined`, `EntityAlwaysOnce`. `StageInv` says where each stage leaves the store:
  a source in the chunk stage has no candidate yet, in synthesis every candidate before the
  current one is linked or a memory that failed, an entity without a link is the current one's
  or that of a memory gone by (whose key does not come again), and a source
  that has a chunk and is not at work is refined, or halted, or damaged. That last part is
  what makes skipping a duplicate sound.

For `Directives`, any directives, tasks, messages, plans, limits and incidents:

* `AlwaysOneDecomposition`. `DecInv`: only persisted tasks are on their way, each to the worker of its
  agent; the persisted tasks are the first ones and a plan fits behind them; and while the
  loop decomposes, all tasks of its directive are those it has just persisted (none, before
  the first).
* `OpenTaskIsAlwaysHeld`, `CompleteAlwaysMeansCompleted`. `TaskInv` adds: a task that was
  delivered once is in one place only (`Copies`), and its status follows from that place
  (`Progressed`); what the loop is about to publish was not published before; a directive that
  is being decomposed is not over; a directive about to be written complete has tasks that all
  completed (`CompleteOK`), since `Decide` reads them one step before `Finalize` writes; and before a message is acknowledged its task has ended
  or is written off. A completed task changes only through a second delivery (`again`).
* `DirectiveTypes`: `Spec => []TypeOK`, from these two and the types of what they do not mention: the
  logs, the governor's counters, the requests.

Every invariant of a passing run is the subject of a theorem, and so is the refinement. Only
model-checked: the liveness properties (fairness and ENABLED are outside this prover), and the
two refutations. `PausedHasCheckpoint` and `ResumesItsOwnProposal` are proved and checked without
cancellations, as said above.

## 5. Plan

Done: `RuntimeStore`, `RunCoordinator`, `SessionTurns`, `CronService`, `ConnectorDelivery`, `Heartbeat`,
`Governor`, `Directives`, `Refinery`. Left, in this order:

1. `EventBus` with its event log, `LLMFallback`; abstract specifications of a delivery and of a
   job's life, with proofs that `ConnectorDelivery` and `CronService` implement them.
2. Action properties of rows: which columns a step may change, who may change them.
3. Several connectors in `Refinery`, forget requests, merge proposals.

## 6. Not modelled

Prompt construction, model and tool calls (nondeterministic results), governance rules
(whether a call needs approval is a choice), the gateway's protocols, identity
(cryptography and I/O), world model and artifacts (data access), user interfaces, plugins,
generated code. Within the runtime: chat and endpoint resolution, event visibility,
metrics, traces, wording of messages. Most of the repository's lines are of these kinds: of
its 132,000 lines, connectors' platform protocols, the command line, the gateway's handlers,
prompt assembly, data access and migrations have no state that several actors share and no
order of steps that could go wrong, so a model of them would repeat them. The modules
cover the parts that have: sessions and runs, cron, deliveries, wakes, directives, intake.
