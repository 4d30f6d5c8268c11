# A TLA+ model of Kingu's agent orchestration

Kingu runs coding agents in terminals.  Its *orchestration* subsystem lets a
coordinator split work into Tasks, dispatch each Task to an agent in a terminal
(on this host or a paired one), supervise the worker behind it, exchange mail
with it, and collect its report.  Everything it decides is written to one
SQLite database, `orchestration.db`; the code is `src/main/runtime` and most of
it `src/main/runtime/orchestration`.  This directory specifies that subsystem,
checks it with TLC and proves its safety properties with TLAPS.

Paths below that start with `db/` are relative to
`src/main/runtime/orchestration/`; the other file names are unique under
`src/main/runtime`.

## The system: inventory

| Component | State it keeps | Operations | Status here |
|---|---|---|---|
| Attempt lifecycle (`db/tasks`, `db/dispatch-context`, `db/lifecycle-transition.ts`) | `tasks`, `dispatch_contexts` | create and update a task, dispatch, fail, report, promote dependents | modelled |
| Supervised workers (`db/worker-dispatch`, `context-only-dispatch-release.ts`) | `worker_dispatches` with its runtime epoch | start, ready, start unknown, stop, stop unknown, abandon, recover, federated polls | modelled |
| Gates and questions (`db/decision-gates`, `db/questions`) | `decision_gates`, question threads | open, resolve, re-block; ask, relay, answer, close | modelled |
| Mutation receipts (`db/mutation-receipts`, `orchestration-mutation-executor.ts`, `mutation-receipt-capacity.ts`) | receipt rows; the handlers in flight | reserve, run or join, complete, replay, discard, prune | modelled |
| Federation relay (`db/federation`, `federation-sync.ts`, `rpc/methods/orchestration/federation`) | attachments, relay queue, cursors, checkpoints, peer capability | attach, stop, show, pull, import, acknowledge, push | partly |
| Mailboxes (`mailbox-pointer-*.ts`, `db/messages`) | messages, deliveries, flights, watermarks, timers | point, submit, resume, retire, check, acknowledge, rebind | partly |
| Dispatch authority (`db/dispatch-context/dispatch-capability.ts`, `dispatch-lookup.ts`) | capability hash, revocation, assignee pane | mint, verify, revoke, find the owner | partly |
| Terminal exit, escalation (`orca-runtime-subscribe-to-terminal-resize.ts`, `coordinator-escalation-triage.ts`) | none of their own | exit callback; coordinator triage | partly |
| Worker terminals (`db/worker-terminal`) | terminal resources, archives | custody, release, archive | planned |
| Coordinator (`coordinator.ts`) | a run's tick | poll, dispatch, converge | planned (its transactions are modelled) |
| Runs, schema, legacy, reset (`db/runs`, `db/schema`, `db/legacy`, `db/reset`) | run rows, migrations | bind, migrate, reset | not modelled: data conversion |
| Terminal daemon, native chat, SSH, cloud relay, hooks, automations, git hosting, user interfaces | their own | their own | not modelled: separate subsystems or I/O |

Components call each other inside one process: RPC handlers, the terminal-exit
callback, title observers, the coordinator's tick and the federation poller all
call methods of one `OrchestrationDb`.  A method runs one `BEGIN IMMEDIATE`
transaction (or a savepoint inside one), and Node runs it without interruption.
*Between* methods a handler awaits a terminal, a paired host or a user, and
anything else may run.  A second host is reached only through calls that may be
lost and a relay queue the home pulls.  A runtime may die anywhere between two
transactions and another opens the same database later.

What is hard here, and what the properties are aimed at:

- a row read before an `await` is stale after it (a stop and an exit, a prompt
  failure and a report, a poll of a paired host and an abandon, a probe and a
  rebinding);
- outcomes can be *unknown* (`start_unknown`, `stop_unknown`, an unverifiable
  write, a pending receipt): the other side may still act, so nothing may be
  repeated and nothing may wait for ever;
- a report may arrive late, twice, before the start finished, or after the
  start was wrongly recorded as failed, and its verdict may be lost on the way
  back;
- a handler dies with its runtime and leaves `starting`, `stopping`, a pending
  receipt or a half-submitted pointer behind;
- three tables (task, dispatch, worker) say overlapping things about one
  attempt and must change together;
- failure counts, panes, gates, queues and ledgers are bounded and shared.

`PROJECT.json` lists each hazard at its line, with the properties that cover it.

What makes each component correct: the *attempt lifecycle* never lets two
attempts act on one task and never loses a task; *workers* settle exactly once
and with their dispatch; *authority* ends with the attempt; *gates* hold their
task; *questions* are pending only where an answer is possible; the *relay*
forgets no item the home has not stored, and tells the worker what the home
decided; a *receipt* stands for one effect and replays it; a *mailbox* points
its consumer at new mail and presses Enter once for it; a *terminal* is
released once, by its owner; the *coordinator* ends when the graph does.

## The modules

| Module | What it is |
|---|---|
| `Lifecycle.tla` | The statuses and the edge graph of `db/lifecycle-transition.ts`. |
| `Orchestration.tla` | Tasks, dispatches, workers, authority, questions, gates, restarts: one action per transaction. |
| `Federation.tla` | One Dispatch between its home and a paired host: calls, relay, acknowledgements, faults, fairness. |
| `FederationHome.tla` | The refinement: the home rows of `Federation` are an attempt of `Orchestration`. |
| `MutationReceipts.tla` | Request ids, the executor, the ledger and the handlers as far as they touch a receipt. |
| `MailboxPointer.tla` | One run mailbox, the pointers typed into the panes of its consumer, the consumer. |
| `MCOrchestration.tla`, `MCFederation.tla`, `MCMutationReceipts.tla`, `MCMailboxPointer.tla` and `MC*.cfg` | Small instances for TLC. |
| `OrchestrationProofs.tla`, `OrchestrationStepProofs.tla`, `OrchestrationAuthorityProofs.tla` | Theorems about `Orchestration`. |
| `FederationProofs.tla`, `FederationVerdictProofs.tla` | Theorems about `Federation`; the first holds the invariant and the steps of both hosts, the second the relay, the verdicts and the theorems. |
| `FederationHomeProofs.tla` | The step simulation behind the refinement. |
| `MutationReceiptsProofs.tla` | Theorems about `MutationReceipts`. |
| `MailboxPointerProofs.tla` | Theorems about `MailboxPointer`. |

In every module, definitions named `X_Something` are faults: mutated forms of
`X` that a plausible bug would produce.  No specification uses them; they
document which mistake each property detects (`PROJECT.json`, "mutants").

### How `Orchestration` corresponds to the code

One action is one write transaction.  Its guards are the transaction's checks
and the `WHERE` clauses of its updates (a call that is refused, or that finds
its work already done, changes nothing and is not an action); its primed
variables are every column the transaction writes that a property can tell
apart.

| Variable | Column |
|---|---|
| `task`, `taskOf`, `dispatch`, `worker` | `tasks.status`, `dispatch_contexts.task_id`, `.status`, `worker_dispatches.state` |
| `kind` | which side tables a dispatch has: none (context-only), `worker_dispatches` (local), and `federated_dispatches` too (federated) |
| `assignee`, `capability` | the pane a dispatch is assigned to; no capability hash, a hash, or a revoked one |
| `failures`, `stalled` | `failure_count`; the rows whose `last_failure` is the stalled-prompt error |
| `workerEpoch`, `epoch` | `worker_dispatches.runtime_epoch`, the identity of the running runtime |
| `asking`, `gate` | rows with a pending question thread; `decision_gates` |

Rows are numbered in `rowid` order, so "the latest dispatch of a task" is the
largest number.  Groups of actions:

- **Tasks.**  `CreateTask`, `UpdateTaskStatus` (RPC `taskUpdate`; a terminal
  status settles the task's context-only attempts, a completion promotes).
- **Context-only dispatches.**  `CreateDispatchContext` (RPC `dispatch` and the
  coordinator; the capability mint that follows an injected dispatch is folded
  in, the row without one is what a crash between the two leaves),
  `PromptSendFails`, `ApplyEscalationToDispatch`, `ReleaseContextOnlyDispatch`.
- **Starting a worker.**  `CreateStartingWorkerDispatch`,
  `PrepareStartingWorkerAuthority`, then one of `MarkWorkerDispatchReady`,
  `FailWorkerStart`, `MarkWorkerStartUnknown`.  `StartInFlight` says the
  handler is still running: it belongs to the runtime that inserted the row.
  `ReconcileFederatedWorkerStart` is a poll of the paired host.
- **Reports and exits.**  `SettleWorkerReport` with its three early forms
  (`Correcting` a stalled prompt, `Reconnecting` after an unknown start,
  `ReportingStart` before the start finished); `TerminalExit`.
- **Stopping.**  `BeginWorkerStop`, then `SettleWorkerStop`,
  `ReconcileFederatedWorkerStop`, `MarkWorkerStopUnknown` or
  `ResumeFederatedWorkerForTerminalRelay`; `AbandonWorkerDispatch`;
  `ReconcileMissingWorkerTerminal` (startup and SSH-reconnect recovery, hence
  enabled at any time).
- **Gates and questions.**  `CreateGate`, `ResolveGate`,
  `ReblockTasksWithPendingGates`, `CreateQuestion`,
  `RegisterFederatedQuestion`, `AnswerQuestion`.
- **`RuntimeRestart`** ends every handler in flight and changes no row.

`Lifecycle`'s graph is *not* a guard of any action.  In the code a write off the
graph throws; `StepsFollowLifecycleGraph` shows that no operation ever relies
on that.

Abstractions.  Text, timestamps, stages, heartbeats, nesting depth, creator
identity and receipts are left out.  A dispatch has at most one pending
question thread in the model (`asking` is a set).  A gate requested by a
worker has stricter guards than one the operator creates, so one action covers
both.  Reports are accepted from any process on the assigned pane with an
unrevoked capability: the code also checks the process incarnation, so the
model has more reports than the code.  `timeoutGate`, `completeDispatch` and
`failActiveDispatchForTask` have no production caller.  `worker-start --spec`
is `CreateTask` followed by a start.  The orchestration reset, which empties
the tables, is left out.

### How `Federation` corresponds to the code

The home runtime owns task, dispatch and worker rows; the paired host owns an
attachment, the process and the queue.  One action is one transaction, or one
synchronous stretch of a handler between two awaits.

| Variable | What it stands for |
|---|---|
| `home`, `workerEpoch`, `asking` | the three statuses at home, the runtime that owns a call in flight, a pending question |
| `mailbox`, `imported`, `acked`, `peerEpoch` | messages imported by sequence; `to_home_imported_sequence`, `to_home_acknowledged_sequence`, `remote_runtime_epoch` |
| `outbox`, `outboxAcked`, `delivered` | mail for the worker, both ends of it |
| `sync`, `wanted`, `checkpoint`, `peer` | memory of the home: the sync in flight, a second one asked for, the acknowledgement checkpoint, the capability cache |
| `polled` | memory of the home: the relay has its timer |
| `startCall`, `stopCall`, `show` | the calls of the home and their answers |
| `attach`, `stopNet`, `lateAcks` | requests on the wire; a caller that gave up does not take them back |
| `attachment`, `stage`, `capability`, `items`, `receipts` | rows of the paired host; `items[n]` has sequence `n` |
| `stopRun`, `waiting`, `told` | its handlers: a stop, a report that waits for its verdict, what the worker was told |
| `epoch`, `remoteEpoch`, `advertises` | the runtimes, and whether the remote one settles reports at home (an older build does not) |

`HomeStep` holds start, stop, abandon, show and mail; `RemoteStep` the handlers
of the paired host and what its worker sends; `SyncStep` one pass of
`syncFederatedDispatchPages`: probe, pull, import item by item, acknowledge
with verdicts, record, push mail (the import there, `AnswerPush`, and the record
here, `RecordPush`, are two steps), and the next page.  `LoseSyncCall` ends a pass
anywhere; an acknowledgement it gave up on may still be handled (`LateAck`).
`HomeRestart` and `RemoteRestart` keep the rows and drop the memory.

The timer of a relay is memory (`runtime-orchestration-federation.ts:174`).  It is
armed by a start answered ready (`federated-worker-start.ts:226`), a check
(`check-run.ts:61`), a show (`federated-worker-show.ts:78`), a reply
(`message-methods.ts:104`, `mutation-replay-nudge.ts:59`), control mail
(`send-control-mail.ts:88`), and by opening the database, which arms it for every
run with a live federated dispatch (`orca-runtime-automation-operations.ts:152-168`).
Startup opens the database before anybody asks for anything: it refreshes the
restored orchestration authority (`main-process-runtime-launch.ts:149`,
`orcad-entry.ts:292`).  So `HomeRestart` leaves `polled` to `Reopened`, not to an
operator.  `StopPolling` is the tick that finds the dispatch no longer eligible.
A worker whose start was only recorded as unknown is eligible but on no timer until
one of these calls, or a restart, arms it.  One boolean stands for the one-second
timer and for the terminal-history recovery beside it
(`runtime-orchestration-federation.ts:170-239`).

Left out: a push handled after its caller gave up on it (it is handled before or
never), the receipts of `federationImport`, byte quotas (the item limit is `QUOTA`), task-id mismatches, worker
process incarnations, output reads, release and archive of the remote terminal,
fleet snapshots, and several hosts or dispatches at once (the tables are keyed
by dispatch and nothing crosses a key but the peer's capability cache).

### How `MutationReceipts` corresponds to the code

`state`, `kindOf` and `order` are the receipt rows (status, input hash, and the
order in which pruning takes completed ones); `inFlight` is the executor's map
of running promises; `call` is what each connection's RPC is doing.  `applied`,
`overtaken`, `stranded` and `excused` are history: how often an effect happened,
which starts waited while others moved their dispatch on, which pending rows a
crash or a doubt left, and which requests the ledger promises nothing about.  A
request's input is its *kind*: what commits together with the receipt differs
between a message (`send`), a worker_done on the Run's host (`report`: checkpoint,
then settlement and receipt in one transaction) and on a worker's host (`relayed`:
the report is queued, the home's verdict awaited, no checkpoint is left), a
`start`, a `prompt` typed into a terminal and a `release`.  `Arrive` is a call
reaching the executor; `Handle` is everything the executor and the handler do for
it (these are the fair steps); `CrashAfterInsert` and `CrashAfterCheckpoint` are
the crashes between two commits of one handler; `Crash` any other.

An error discards the row, with two exceptions: a prompt that may have been written,
and `operation_unknown` (`orchestration-mutation-executor.ts:245-249`).  After an
effect only a remote worker_done says the latter, when its verdict is not seen
(`VerdictNotSeen`, `send-remote.ts:98`).  A start that has its row turns each failure
into an answer, as long as its dispatch is still `starting`.  Once a show, a report,
an exit, a stop or a gate moved it on (`OvertakeStart`), recording the outcome
throws as well, and the row of the accepted start is discarded (`MCReceiptOvertaken.cfg`).  Some
paths of a local start notice that and return; the model allows both.

Three things of the code a reader may not expect: `discardPending...` looks at
the id only, not at the input, so one id used for two inputs at once loses
rows; a completed row may be pruned while a call observes it if fewer than a
batch of completed rows remain; pending rows a crash stranded are never
cleared.  The first two put a request in `excused`.

Left out: statements of the database that fail; the mutations that say
`operation_unknown` before any effect (a relay import that is not contiguous,
`federation-relay.ts:115`, and the operations of legacy runs); the other
effect-free mutations; prompt bindings to a terminal incarnation; several callers.

### How `MailboxPointer` corresponds to the code

| Variable | What it stands for |
|---|---|
| `rows` | messages of the mailbox in sequence order: `read`, `delivered_at`, `pointer_enter_pending` (0 to 3) and the process in `pointer_pty_id`/`pointer_process_incarnation` |
| `outstanding` | the consumer's unacknowledged delivery |
| `owner`, `waiter` | the pane the run is bound to; a `check --wait` on the whole mailbox |
| `term` | each session: the process that runs, the one the runtime knows, writability, and the last status seen *live* (`"unseen"` is a restored or stale one: it authorizes nothing) |
| `mem` | memory: the flights, the current flight of a pane, the watermark (`mark`), parked deliveries (`parked`, `reoffer`), the repoint and re-check timers, probes |
| `keys` | history: for which messages Enter was pressed in which session |

An operator takes the state as a record and gives the states it may leave, so
that a handler which calls another (settling a flight delivers what parked
behind it) is one step; `Becomes` ends the step and runs the microtask it
queued.  Awaits are steps: the write (`SettlePaste`), the timer before Enter
(`EnterTimer`), the liveness probe (`Submit`), the Enter (`SettleEnter`), the
probe before a delivery (`AfterProbe`).  `Exit` is the process, `ReportExit`
the callback; between them the session may be respawned under the same id
(`Register`), and then the exit is dropped.  The transport answers `accepted`
for bytes that reached the process, `refused` for bytes that did not and
`unverifiable` for either.

Left out: message types, filtered waiters and reserved types, the batch limit of
a delivery, cold-parked panes, mailboxes of dispatches, routing of direct mail,
the structured lane, database exceptions, and providers that give no process
incarnation.  No liveness is claimed of delivery: a write that is refused while
a delivery is parked is offered again at once, for as long as it is refused.

## What the runs check

| Run | Instance | Properties | What it shows |
|---|---|---|---|
| `attempts` | 1 task, 3 rows, all kinds, 1 restart, breaker 3 | `TypeOK`, `TaskMirrorsAttempt`, `WorkerAndDispatchSettleTogether`, `AuthorityFollowsWorker`, `LocalQuestionsAreAnswerable`, `StepsFollowLifecycleGraph`, `OwnStopNeverReadsAsCrash` | the records of one attempt agree, its authority and questions end with it |
| `task_graph` | 2 tasks (one depends on the other), 2 rows, 2 panes, 1 gate, all kinds, breaker 2 | `ActiveAttemptIsLatest`, `DispatchedTaskHasAttempt`, `OneActiveDispatchPerTerminal`, `LateOutcomeNeverReopensTask`, `CompletionPromotesDependents` | relations between tasks, panes and gates |
| `federation_relay` | protocol 3, a setup status, heartbeats, a question and reports, 2 items, queue of 2, 2 pages of 1, 1 mail, 1 stop, 1 remote restart, 1 fault | `TypeOK`, `NoAckedItemLost`, `VerdictComesFromHome`, `WorkerIsToldTheTruth`, `WatermarkIsCovered` | a full queue, late acknowledgements and older builds lose nothing and misreport nothing |
| `federation_home` | protocol 2, 1 report, 1 stop, 1 poll, restarts on both sides, 1 fault, fair | `ImplementsAttemptLifecycle`, `PollNeverRewindsPeer`, `RelayComesToRest`, `ReadyWorkerIsPolled` | the home rows implement `Orchestration`; the relay of a ready worker is polled, that of a settled one ends |
| `federation_progress` | protocol 3, 1 report, 1 mail, 1 stop, a restart or a lost call, fair | `StopIsDecided`, `StartIsDecided`, `ReportComesHome`, `ReportIsAnswered`, `MailIsDelivered` | what was begun is decided; while the relay is polled, what was sent arrives |
| `receipts` | 2 ids with the inputs of every kind, 2 connections, 1 row, pruned one by one, 2 crashes, fair | `TypeOK`, `OneEffect`, `EffectIsOnRecord`, `CheckpointMeansNoEffect`, `PendingHasCause`, `OneHandlerPerRequest`, `DoneMeansApplied`, `OpenRowsAreKept`, `CallIsAnswered` | repeating a request repeats its effect only after a start that others overtook, and every call is answered |
| `mailbox` | 2 panes, 1 message, 1 flight, an agent that queues input, an exit and respawn, a lost connection, 1 restart | `TypeOK`, `EnterOncePerPointer`, `EnterFollowsItsText`, `FlightsAreWhole`, `IdleEdgeOffersMail` | Enter goes once to the process that got the text, and an idle edge strands no mail |
| `supervised_breaker` | as `attempts` | `ConsecutiveFailuresFailTheTask` | violated: finding 1 |
| `replaced_heartbeat` | protocol 3, queue of 1 | `MailboxMirrorsQueue` | violated: finding 2 |
| `resumed_worker` | protocol 2, 1 report, 1 stop | `ResumedWorkerHasReport` | violated: finding 3 |
| `lost_ack` | protocol 3, 1 report, 1 fault | `RetriedAckIsAccepted` | violated: finding 4 |
| `stale_probe` | 2 panes, 1 message, 1 flight, a probe that outlives a rebinding | `EnterOncePerPointer` | violated: finding 5 |

The runs of `Federation`, `MutationReceipts` and `MailboxPointer` switch the
deadlock check off: once the bounded sends, stops, crashes or processes are used
up nothing need happen any more.  `Orchestration`'s passing runs keep it.

**Bounds.**  In `Orchestration`, `MaxDispatch` bounds inserted rows: three rows
let the real breaker limit of three break on one task, and put a settled, an
uncertain and a new attempt of one task side by side; two are enough for
questions about two tasks or two panes (the breaker is lowered to two there so
that it can still break).  One restart is enough because only "this runtime"
and "another one" are told apart.  In `Federation`, page size, pages per sync
and queue are scaled down so that two items fill them (the real values are
fractions of a hundred); protocol 2 and 3 differ in who settles a report and are
checked apart; one fault at a time is what the calls are written for, and one is
enough for every counterexample below.  In `MutationReceipts` a ledger of one
row prunes whenever the second request arrives; two connections are the fewest
that join or conflict; two crashes strand a row and then strand its retry.  In
`MailboxPointer` one message stands for a batch (a batch is reserved, written
and settled together); one flight at a time is what one pane holds, and the
second pane is needed for rebinding.  Two messages on one pane were checked as
well (353 000 states), without a difference.  Two flights make one: a flight that
was retired while its probe was out may answer after a later flight of the same
pane began.  `LateAbsence` says whether it may then find the session gone;
`MCMailboxTwoFlights.cfg` (two flights, without it) passes with 1.8 million
states, `MCMailboxRetiredProbe.cfg` (with it) does not, see below.
`LateProbes` is off in `mailbox`: the probe that outlives a rebinding is
finding 5, and is kept out of the run that shows the rest.  The theorems need
none of these bounds; those that need one of the two switches say so.

**Fairness.**  `Federation!FairSpec` gives weak fairness to a sync in progress
and to the timer that begins the next one (`SyncRuns`), to the attach handler
and to the stop handler of the paired host; strong fairness to the home's
reaction to an answer (`StartAnswered`, `StopAnswered`) and to the timeout of a
call that hangs (`StartGivesUp /\ StartHangs`, and so for stops), because an
import that holds the event loop disables them now and then.  The code justifies
them: a sync is one chain of awaits each with a timeout, and every federated call
has a timeout.  The timer counts only while the relay has one: `BeginSync` needs
`polled` or a sync that was asked for, and `ReportComesHome`, `ReportIsAnswered`
and `MailIsDelivered` say what happens to a relay that is polled.  Who arms it is
part of the model, see above; no check, show or reply is assumed to come, and
`ReadyWorkerIsPolled` says for which workers none has to.  `MutationReceipts`
gives weak fairness to each handler.  Nothing is assumed of workers, operators,
faults, or of a paired host that restarts.  Each of the liveness properties
fails without its fairness, and each has a fault of the code that breaks it.

**Refinement.**  `FederationHome` instantiates `Orchestration` with one task and
one federated row and maps the home rows onto it; `ImplementsAttemptLifecycle`
is `Attempt!Spec`.  So every step the calls, polls and the relay make at home
is a transaction of `Orchestration` or leaves its rows alone, whatever was lost
or late, and the theorems about `Orchestration` hold of it.  The run checks that
on a small instance; `HomeImplementsAttempt` proves it.

### Findings

1. Supervised attempts do not carry the failure count, and a failed start does
   not count at all: three in a row do not break the circuit, as
   `recovery-and-cleanup.md:120` says (`supervised_breaker`).
2. With the queue full a report overwrites the oldest unacknowledged heartbeat
   and keeps its sequence, even when the home has imported that sequence and
   only its acknowledgement is outstanding; the home then refuses the report, or
   counts it as acknowledged unseen (`replaced_heartbeat`).
3. A report imported while its worker is `stopping` is rejected and consumed; a
   stop answered "already reported" then makes the worker ready again to wait
   for that report (`resumed_worker`).
4. The request id of an acknowledgement names only its cursor, its receipt also
   hashes its verdicts: when the answer of one with a verdict is lost, the retry
   is refused as a different request on every tick (`lost_ack`).
5. The delivery after a liveness probe does not check that the probed pane still
   owns the mailbox: it releases the new owner's pointer although its Enter is
   in doubt, and Enter later goes to that process a second time (`stale_probe`).

More counterexamples can be run but are not among the listed runs:

- `MCExitWhileUnknown.cfg` (`ExitMakesTaskReady`): the escalation for a crashed
  worker says its task is ready; when the worker's start or stop was unknown the
  task stays blocked (`orca-runtime-subscribe-to-terminal-resize.ts:126`).
- `MCSettledQuestion.cfg` (`SettledAttemptHoldsNoQuestion`): a question relayed
  from a paired host is registered without looking at its dispatch, so a settled
  dispatch can keep a pending question (`dispatch-completion.ts:32`).
- `MCGatedRetry.cfg` (`GatedTaskStaysBlocked`): a retry accepts a blocked task
  without looking at its gates.
- `MCMailboxStaleMark.cfg` (`PersistedMailStaysAvailable`): a watermark left
  inactive by a pointer in doubt refuses the same mail to the process that
  replaced the one it was typed into, when the exit between them was dropped; the
  comment at `mailbox-pointer-delivery.ts:50` promises a later idle edge.
- `MCMailboxRetiredProbe.cfg` (`EnterOncePerPointer`, two flights): a connection is
  lost while the probe before Enter is out, the flight is retired, the connection
  is there again and the mail is typed into the same process by a new flight.  The
  session then ends, and the old probe finds it gone.
  `mailbox-pointer-submit.ts:59` acts on the absence before it asks (`:64`) whether
  its flight is still the current one, so it releases the rows and the watermark
  of the newer flight; 20 steps later a process has got Enter for one message
  twice.  The assumption `RetiredStaysRetired` of two theorems is exactly this.
- `MCReceiptOvertaken.cfg` (`RetryNeverDuplicates`): while a federated start awaits
  its answer, a show may find the paired host ready and reconcile the dispatch
  (`federated-worker-start-reconcile.ts:41`).  `markWorkerDispatchReady` then throws
  (`worker-dispatch-outcome.ts:16`), so does `markWorkerStartUnknown` in the catch
  (`federated-worker-start.ts:286`), and the executor discards the receipt of a live
  dispatch (`orchestration-mutation-executor.ts:249`): the same request with `--spec`
  starts a second worker, where `recovery-and-cleanup.md:77` promises that a retry
  replays, joins or recovers "instead of starting a duplicate".  This is the
  exception of overtaken starts in `OneEffect` and `EffectIsOnRecord`.
- `MCReceiptNoVerdict.cfg` (`PendingMeansRunningOrRestarted`): a remote worker_done
  whose verdict does not come in 30 seconds leaves its request pending for ever,
  although nothing runs and nothing restarted, the two causes that
  `recovery-and-cleanup.md:86` names.  The retry recommended there is answered
  `operation_unknown` each time, since the row has no checkpoint to resume from.
- `MCFederationLostReport.cfg` (`NoAckedItemLost`, protocol 2): what finding 2 costs
  where the peer settles its own reports.  The report that takes over the sequence
  of a heartbeat the home has imported is acknowledged with it, and the home never
  sees it.

Observed while modelling, without a run: `RelayComesToRest` is checked under
protocol 2, since finding 4 keeps a relay of protocol 3 busy; the re-check timer
of a pane does not ask whether the idle it acts on was seen live, so it may type
into a respawned process that has shown no title yet (the exit callback's own
comment at `orca-runtime-on-pty-exit.ts:213` rules that out for the other
paths); a stop that resumes a worker whose host has its outcome already asks for
one sync and arms no timer, the exception in `ReadyWorkerIsPolled`; a show of an
abandoned worker asks for a sync of a relay that nothing polls.

## What is proved

Every invariant, action property and refinement that a passing run checks is a theorem,
for every value of the constants that satisfies the assumptions declared in the
modules (they say only what kind of thing each constant is).  Three theorems
have a hypothesis, named below, and each hypothesis has a counterexample that
shows it is needed.

| Module | Theorems |
|---|---|
| `OrchestrationProofs` | `TypeCorrect`; `AttemptsAlwaysAgree`, and from it `TaskAlwaysMirrorsAttempt`, `DispatchedTaskAlwaysHasAttempt`, `ActiveAttemptAlwaysLatest`, `WorkerAndDispatchAlwaysSettleTogether`: the three tables agree |
| `OrchestrationStepProofs` | `StepsAlwaysFollowLifecycleGraph`, `LateOutcomeNeverReopens`, `BrokenCircuitNeverLeavesReady`, `OwnStopNeverACrash`, `CompletionAlwaysPromotes`: what no step does (that a broken circuit closes its task is only proved, no run checks it) |
| `OrchestrationAuthorityProofs` | `AuthorityAlwaysAgrees`, and from it `OneActiveDispatchPerTerminalAlways`, `AuthorityAlwaysFollowsWorker`, `LocalQuestionsAlwaysAnswerable`: who may act |
| `FederationVerdictProofs` | `FederationTypes`, `WatermarkHolds`, `VerdictsComeFromHome`, `WorkersAreToldTheTruth`, `PollsNeverRewind`, `ReadyWorkersArePolled`: what the two hosts believe of each other; `NothingAckedIsLost`, if `SettlesAtHome \/ MaxSequence < QUOTA` |
| `FederationHomeProofs` | `HomeImplementsAttempt`: `Spec => ImplementsAttemptLifecycle` |
| `MutationReceiptsProofs` | `ReceiptsAlwaysTyped`, `OpenRowsAlwaysKept`, `NeverTwoEffects`, `EffectAlwaysOnRecord`, `CheckpointAlwaysMeansNoEffect`, `PendingAlwaysHasCause`, `NeverTwoHandlers`, `DoneAlwaysMeansApplied`: the promises of the receipts, for any number of requests, connections, crashes and any ledger |
| `MailboxPointerProofs` | `MailboxTypes`, `EnterAlwaysFollowsItsText`, `IdleEdgesOfferMail`; `FlightsAlwaysWhole`, if `RetiredStaysRetired`; `EnterAlwaysOncePerPointer`, if `~LateProbes` as well |

**The agreement of the tables.**  None of the four invariants is inductive
alone.  That the outcome of an attempt may reset its task needs *nobody else
attempts it* (`ActiveAttemptIsLatest`); that a retry may start beside a settled
latest row needs *worker and dispatch agree on what settled means*
(`WorkerAndDispatchSettleTogether`); that the new row is the only active one
needs *a ready task is not attempted* (`TaskMirrorsAttempt`).  `AttemptsAgree`
is their conjunction with two facts about rows (`RowShape`, `RowsInOrder`),
`IInv == TypeOK /\ AttemptsAgree` is inductive.
The proof does not repeat that argument for each of the 28 actions.  It names
five shapes a transaction can have (`EndsAttempt`, `MovesWorker`,
`MovesIdleTasks`, `StartsAttempt`, or no change to the graph), proves once per
shape that it preserves `AttemptsAgree`, and then has one lemma per action that
says which shape the action has and why.

**The steps.**  The action properties follow from `IInv` and from a description
of every step: `DispatchStep` (a row is left alone, inserted, moved on while
active, or corrected), `WorkerMoves`, and `TouchesOwnTask` (what happens to an
attempt touches its own task and completes nothing).  Promotion needs one more
invariant, `NoSelfWait`: a task that names itself as a dependency can never be
created.

**Authority.**  `AuthorityAgrees` adds to the
three invariants what a row looks like (`AuthorityShape`): a prompt is recorded
as stalled only on a failed start, and an assigned local row always has a
capability, revoked or not.  The second is what makes a question askable only
by a worker nobody is stopping.  `RowAuthority` restates it row by row, so that
a step needs an argument for the one row it names.

**The receipts.**  None of the six invariants is inductive alone: that an
effect is not repeated needs *the row that prevents it is still there*, which
needs *only its own handler takes it away*, which needs *one handler per id*,
which needs *the promise a call joins is that of the handler that runs*.  The
invariant is `IInv == RowsTyped /\ CallsTyped /\ PromiseInv /\ \A r \in Vouched :
RequestInv(r)`: the promises in the map belong to running handlers, and for each
request that the ledger still vouches for, the phase of its handler, its row and
its effects fit together.  The steps fall into a few shapes, each with a lemma:
a handler that ends (`EndsKeeps`), that reaches another phase (`ReachesKeeps`),
that is launched (`LaunchKeeps`), a call without a handler (`FreeCallKeeps`) and
a crash (`DiesKeeps`).  Vouching is what makes the statement true: requests
whose row was pruned, or whose id was used with two inputs at once, drop out of
it, and the proof shows that no other does.  A start others overtook drops out of
what is said of effects only (`InForce` counts it as none), as its effect may be
repeated (`MCReceiptOvertaken.cfg`); of its row, handler and answers everything else still holds.

`TypeOK` adds that the pruning order names each row once (`OrderInv`), which is
what bounds it; `OpenRowsAreKept` comes with it, from a description of what a step
may do to one row (`Fates`): an open row is only discarded by its own handler, as
making room takes settled rows.

**The federation.**  The invariant `IInv` has a part for each place where a truth
is kept, and a step of one host must respect the parts that live on the other:
the home rows (`HomeInv`), the attachment (`RemoteInv`), the epochs (`EpochInv`),
the queue against what the home imported (`QueueInv`), the page under way
(`PageInv`), the acknowledgement under way (`SyncInv`), the watermark
(`WatermarkIsCovered`) and the verdicts (`VerdictInv`).  `WatermarkIsCovered` is
not inductive by itself: the home raises its watermark after an acknowledgement
was answered, so `SyncInv` carries what that answer, a late acknowledgement and
a receipt that replays one have covered (`sync.phase = "acked"` means the whole
prefix is acknowledged), and that no acknowledgement reaches past what was
imported.  `VerdictComesFromHome` needs that every verdict anywhere, under way,
late or in a receipt, belongs to a report the home stored and is true of its rows
(`GoodVerdict`), which stays so because neither side ever changes an outcome
(`EndsKept`) and the queue only grows (`QueueGrows`).  The proof goes host by
host: types, home parts and relay parts of a home step, of a remote step, of a
sync step and of a restart.  `ReadyWorkersArePolled`
needs beside it which home rows and calls may still make a worker ready without a
timer (`PollInv`).  `NothingAckedIsLost` adds `StoreInv`: everything up
to the import cursor is stored, or is a report that took the place of a heartbeat
and is not acknowledged, because a home that settles reports stops its
acknowledgements below it.  A peer that settles its own has no such barrier: that
is finding 2 and `MCFederationLostReport.cfg`, and the theorem's hypothesis.

**The refinement.**  `HomeImplementsAttempt` shows that the initial state maps to
the initial state and that each step is a step of `Attempt` or a stutter.  One lemma reads and
writes the mapped rows (`Reads`, `Writes`), one lemma per shape of home step
names the transaction it is (`Starting`, `Stopped`, `Reporting`), and one
further invariant, `HomeLinks`, says what a step needs beside its guard: nothing
reaches the paired host before the worker exists, so a report finds an attempt,
and whoever waits for a stop began it in this very runtime.

**The mailbox.**  A handler is one step here but calls several others, so
the invariant is stated of a state record (`Sound(s, x)`) and carried through
the operators: `RedriveKeeps`, `PointKeeps`, `ResumePendingKeeps`,
`DeliverKeeps`, `SettleFlightKeeps`, `RetirePtyKeeps` each say that one keeps
it, and an action composes them.  While a flight `x` is ending, what holds of
flights holds of the others.  `EnterOncePerPointer` is far from
inductive.  It needs that a row whose Enter was pressed is *past*: read,
delivered, or still marked for the process that runs (`EntersOnce`); that a
flight's unread rows are its own (`Whole`), so that it cannot mark a row that is
past; that at most one flight is under way, which is what an active watermark
means (`FlightsHold`, `MarkStands`); and that all pending pointers are pending in
one process (`Uniform`), since a delivery settles or releases all of them on the
evidence of one.  The two hypotheses are the two ways this breaks in the code:
`~LateProbes` (finding 5) and `RetiredStaysRetired == ~LateAbsence \/ MaxFlights
= 1` (`MCMailboxRetiredProbe.cfg`).  They enter as premises inside the invariant,
so its other parts hold without them.  `EnterFollowsItsText` needs neither:
a process only changes through `Exit` and `Register`, and the text of a flight
went to the process it was reserved for or nowhere (`TextLands`,
`ProcessesKnown`).

`IdleEdgesOfferMail` also holds without them.  Two facts make it: no step but an idle
title makes a pane idle (`OnlyTitlesIdle`, one case per action, and a family of
lemmas by which the operators leave the sessions alone), and what an idle title then
does puts the mail on its way (`IdleTitleOffers`): the re-check is armed, or the delivery
behind the gate parks, notes, probes, types or settles.  The refusal of
an older watermark is the one exit, and that is `InDoubtAt`.

**Only model-checked.**  Liveness: `RelayComesToRest`, `StopIsDecided`,
`StartIsDecided`, `ReportComesHome`, `ReportIsAnswered`, `MailIsDelivered` and
`CallIsAnswered`.  Liveness under fairness and `ENABLED` are out of the
prover's reach, and so are induction over data and anything defined with
`RECURSIVE`.

## Not modelled

The parts of a modelled component that are left out are named with its
correspondence above.  Not modelled at all: worker terminals and the
coordinator's loop (planned); runs, schema, migrations, reset and legacy
adoption (conversion of rows, one call at a time); parsing and wording in the
RPC handlers; and everything outside orchestration, which is by far the larger
part of the repository: the terminal daemon, native chat, SSH remotes, the cloud
relay and push services, hooks, automations, git hosting, the desktop, mobile
and command-line programs.  Each of these is a subsystem with a state of its
own and would be a development of its own.

## Plan

In this order, the most important first.

1. (done) `Lifecycle`, `Orchestration` and their proofs.
2. (done) `Federation` with its faults and fairness, and `FederationHome`, the
   refinement.
3. (done) `MutationReceipts` and its proofs.
4. (done) `MailboxPointer`; next, filtered waiters and the mailboxes of
   dispatches.
5. (done) Proofs of `Federation`, of the refinement, of the types of the receipts
   and of `MailboxPointer`.
6. `WorkerTerminal.tla`: custody and release of terminals.
7. `Coordinator.tla`: the tick as a process, with weak fairness of its loop: a
   run whose tasks can settle converges.
8. Outside orchestration: output streams of the terminal daemon and their
   back-pressure; the phone's connection through the cloud relay.
