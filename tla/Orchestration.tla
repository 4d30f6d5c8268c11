---------------------------- MODULE Orchestration ----------------------------
(***************************************************************************)
(* The attempt lifecycle of the orchestration database                     *)
(* (src/main/runtime/orchestration/db): Tasks, the Dispatches that         *)
(* attempt them, the supervised worker behind a Dispatch, the questions an *)
(* attempt asks and the decision gates that hold a Task.  One action is    *)
(* one write transaction of the database; every RPC handler, terminal exit *)
(* callback, coordinator tick and federation poll is a sequence of those   *)
(* transactions that any other may interleave with.                        *)
(***************************************************************************)
EXTENDS Integers, FiniteSets, Lifecycle

CONSTANTS
    Tasks,           \* tasks that may be created
    Deps,            \* Deps[t]: the tasks t names as dependencies
    MaxDispatch,     \* bound: Dispatch rows inserted, in rowid order
    Terminals,       \* stable panes an agent can be assigned through
    NoTerminal,      \* a NULL assignee
    NoTask,          \* the task of a row not inserted yet
    Kinds,           \* the kinds of Dispatch this instance starts
    MaxGates,        \* bound: decision gates created
    MaxEpoch,        \* bound: runtime restarts
    DISPATCH_CIRCUIT_BREAK_FAILURES

ASSUME DepsAssumption == Deps \in [Tasks -> SUBSET Tasks]
ASSUME NoTaskAssumption == NoTask \notin Tasks
ASSUME NoTerminalAssumption == NoTerminal \notin Terminals
ASSUME MaxDispatchAssumption == MaxDispatch \in Nat
ASSUME KindsAssumption == Kinds \subseteq {"context", "local", "federated"}
ASSUME BoundsAssumption == MaxGates \in Nat /\ MaxEpoch \in Nat
ASSUME BreakAssumption == DISPATCH_CIRCUIT_BREAK_FAILURES \in Nat \ {0}

Dispatches == 1 .. MaxDispatch
Gates == 1 .. MaxGates
Epochs == 0 .. MaxEpoch

VARIABLES
    task,         \* tasks.status, "absent" before the insert
    taskOf,       \* dispatch_contexts.task_id
    kind,         \* which side tables the row has: none, worker_dispatches,
                  \* or worker_dispatches and federated_dispatches
    dispatch,     \* dispatch_contexts.status
    assignee,     \* dispatch_contexts.assignee_pane_key / assignee_handle
    capability,   \* no hash, a hash, or a hash with capability_revoked_at
    failures,     \* dispatch_contexts.failure_count
    stalled,      \* rows whose last_failure is AGENT_PROMPT_STALLED_ERROR
    worker,       \* worker_dispatches.state, "none" for a context-only row
    workerEpoch,  \* worker_dispatches.runtime_epoch
    asking,       \* rows with a pending question thread
    gate,         \* decision_gates: the task held and the gate's status
    epoch         \* the identity of the running runtime

graphVars == <<task, taskOf, kind, dispatch, worker>>
authorityVars == <<assignee, capability>>
vars == <<task, taskOf, kind, dispatch, assignee, capability, failures, stalled,
          worker, workerEpoch, asking, gate, epoch>>

TypeOK ==
    /\ task \in [Tasks -> TaskStatuses \cup {"absent"}]
    /\ taskOf \in [Dispatches -> Tasks \cup {NoTask}]
    /\ kind \in [Dispatches -> Kinds \cup {"none"}]
    /\ dispatch \in [Dispatches -> DispatchStatuses \cup {"absent"}]
    /\ assignee \in [Dispatches -> Terminals \cup {NoTerminal}]
    /\ capability \in [Dispatches -> {"none", "live", "revoked"}]
    /\ failures \in [Dispatches -> Nat]
    /\ stalled \subseteq Dispatches
    /\ worker \in [Dispatches -> WorkerStates \cup {"none"}]
    /\ workerEpoch \in [Dispatches -> Epochs]
    /\ asking \subseteq Dispatches
    /\ gate \in [Gates -> [task : Tasks \cup {NoTask},
                           status : {"absent", "pending", "resolved"}]]
    /\ epoch \in Epochs

Init ==
    /\ task = [t \in Tasks |-> "absent"]
    /\ taskOf = [d \in Dispatches |-> NoTask]
    /\ kind = [d \in Dispatches |-> "none"]
    /\ dispatch = [d \in Dispatches |-> "absent"]
    /\ assignee = [d \in Dispatches |-> NoTerminal]
    /\ capability = [d \in Dispatches |-> "none"]
    /\ failures = [d \in Dispatches |-> 0]
    /\ stalled = {}
    /\ worker = [d \in Dispatches |-> "none"]
    /\ workerEpoch = [d \in Dispatches |-> 0]
    /\ asking = {}
    /\ gate = [g \in Gates |-> [task |-> NoTask, status |-> "absent"]]
    /\ epoch = 0
-----------------------------------------------------------------------------
(***************************************************************************)
(* The reads the transactions share.                                       *)
(***************************************************************************)
Active(d) == dispatch[d] \in DispatchActive
Supervised(d) == worker[d] # "none"
LiveWorker(d) == worker[d] \in WorkerUnsettled
ActiveOf(t) == {d \in Dispatches : taskOf[d] = t /\ Active(d)}
Rivals(d) == ActiveOf(taskOf[d]) \ {d}
LatestOf(t, d) == taskOf[d] = t /\ \A x \in Dispatches : taskOf[x] = t => x <= d
ActiveWorkerOn(t) == \E d \in ActiveOf(t) : LiveWorker(d)
\* Fault: a start that has not delivered its prompt yet does not hold its pane.
TerminalBusy_DispatchedOnly(h, d) ==
    \E x \in Dispatches \ {d} : dispatch[x] = "dispatched" /\ assignee[x] = h
TerminalBusy(h, d) == \E x \in Dispatches \ {d} : Active(x) /\ assignee[x] = h

(***************************************************************************)
(* The writes the transactions share.                                      *)
(***************************************************************************)
\* A capability that was never minted stays absent whatever is revoked.
Revoked(ds) ==
    [d \in Dispatches |-> IF d \in ds /\ capability[d] = "live" THEN "revoked"
                                                                ELSE capability[d]]

Settled(ds, status) == [d \in Dispatches |-> IF d \in ds THEN status ELSE dispatch[d]]

\* Fault: the dependencies are read before the completion is written.
Promoted_StaleRead(statuses, completed) ==
    [c \in Tasks |->
        IF /\ statuses[c] = "pending"
           /\ completed \in Deps[c]
           /\ \A dep \in Deps[c] : task[dep] = "completed"
        THEN "ready" ELSE statuses[c]]

\* Pending tasks that waited on a task that completes, and wait on nothing else.
Promoted(statuses, completed) ==
    [c \in Tasks |->
        IF /\ statuses[c] = "pending"
           /\ completed \in Deps[c]
           /\ \A dep \in Deps[c] : statuses[dep] = "completed"
        THEN "ready" ELSE statuses[c]]

\* What is left of d's task once d's attempt is interrupted.
Reconciled(d) ==
    [t \in Tasks |->
        IF t = taskOf[d] /\ task[t] \in {"dispatched", "blocked"}
        THEN IF Rivals(d) # {} THEN "dispatched" ELSE "blocked"
        ELSE task[t]]

WithTask(t, status) == [task EXCEPT ![t] = status]
WithWorker(d, state) == [worker EXCEPT ![d] = state]
-----------------------------------------------------------------------------
(***************************************************************************)
(* Tasks                                                                   *)
(***************************************************************************)
CreateTask(t) ==
    /\ task[t] = "absent"
    /\ \A dep \in Deps[t] : task[dep] # "absent"
    /\ task' = WithTask(t, IF \A dep \in Deps[t] : task[dep] = "completed"
                           THEN "ready" ELSE "pending")
    /\ UNCHANGED <<taskOf, kind, dispatch, authorityVars, failures, stalled,
                   worker, workerEpoch, asking, gate, epoch>>

\* The guards of updateTaskStatus: a supervised worker owns its task while it
\* is alive, and only a terminal status or a re-asserted "dispatched" passes an
\* active dispatch.
MayUpdateTask(t, status) ==
    /\ task[t] # "absent"
    /\ status \in TaskTerminal \/ (status = "dispatched" /\ task[t] # "dispatched")
         => ~ActiveWorkerOn(t)
    /\ status = "dispatched" => ActiveOf(t) # {}
    /\ status \notin TaskTerminal \cup {"dispatched"} => ActiveOf(t) = {}

\* orchestration.taskUpdate.  Writing a status the task already has without a
\* result is a no-op in the code and a stutter (or a harmless rewrite) here.
UpdateTaskStatus(t, status) ==
    LET settles == IF status \in TaskTerminal THEN ActiveOf(t) ELSE {}
    IN  /\ MayUpdateTask(t, status)
        /\ task' = IF status = "completed" THEN Promoted(WithTask(t, status), t)
                                           ELSE WithTask(t, status)
        /\ dispatch' = Settled(settles, status)
        /\ capability' = Revoked(settles)
        /\ asking' = asking \ settles
        /\ UNCHANGED <<taskOf, kind, assignee, failures, stalled, worker,
                       workerEpoch, gate, epoch>>
-----------------------------------------------------------------------------
(***************************************************************************)
(* Context-only Dispatches: a prompt to a terminal nobody supervises       *)
(***************************************************************************)
\* Rows are inserted in order: the next one is the first absent one.
NextRow(d) == dispatch[d] = "absent" /\ \A x \in 1 .. d - 1 : dispatch[x] # "absent"

\* n is MAX(failure_count) over the task's rows.
CarriedFailures(t, n) ==
    LET counts == {failures[x] : x \in {y \in Dispatches : taskOf[y] = t}} \cup {0}
    IN  n \in counts /\ \A m \in counts : m <= n

\* orchestration.dispatch, and the coordinator's automatic dispatch.  With
\* inject the handler mints a capability right after the row is committed; a
\* row without one is also what a crash between the two leaves.
CreateDispatchContext(d, t, h, inject) ==
    /\ "context" \in Kinds
    /\ NextRow(d)
    /\ task[t] = "ready"
    /\ ~TerminalBusy(h, d)
    /\ taskOf' = [taskOf EXCEPT ![d] = t]
    /\ kind' = [kind EXCEPT ![d] = "context"]
    /\ dispatch' = [dispatch EXCEPT ![d] = "dispatched"]
    /\ assignee' = [assignee EXCEPT ![d] = h]
    /\ capability' = [capability EXCEPT ![d] = IF inject THEN "live" ELSE "none"]
    /\ \E n \in {failures[x] : x \in Dispatches} \cup {0} :
          CarriedFailures(t, n) /\ failures' = [failures EXCEPT ![d] = n]
    /\ task' = WithTask(t, "dispatched")
    /\ UNCHANGED <<stalled, worker, workerEpoch, asking, gate, epoch>>

FailureStatus(d) ==
    IF failures[d] + 1 >= DISPATCH_CIRCUIT_BREAK_FAILURES THEN "circuit_broken" ELSE "failed"

\* failDispatch on an active row: the count is bumped, and the task follows
\* only if it still belongs to this attempt.
FailedTask(d) ==
    IF task[taskOf[d]] = "dispatched" /\ Rivals(d) = {}
    THEN WithTask(taskOf[d], IF FailureStatus(d) = "circuit_broken" THEN "failed" ELSE "ready")
    ELSE task

\* Fault: a failed attempt keeps its capability.
FailDispatch_AuthorityKept(d) ==
    /\ dispatch' = Settled({d}, FailureStatus(d))
    /\ failures' = [failures EXCEPT ![d] = @ + 1]
    /\ capability' = capability
    /\ asking' = asking \ {d}

\* Fault: a failed attempt keeps its pending question.
FailDispatch_QuestionOpen(d) ==
    /\ dispatch' = Settled({d}, FailureStatus(d))
    /\ failures' = [failures EXCEPT ![d] = @ + 1]
    /\ capability' = Revoked({d})
    /\ asking' = asking

FailDispatch(d) ==
    /\ dispatch' = Settled({d}, FailureStatus(d))
    /\ failures' = [failures EXCEPT ![d] = @ + 1]
    /\ capability' = Revoked({d})
    /\ asking' = asking \ {d}

\* The prompt of an injected dispatch could not be sent.
PromptSendFails(d) ==
    /\ Active(d)
    /\ ~LiveWorker(d)
    /\ FailDispatch(d)
    /\ task' = FailedTask(d)
    /\ UNCHANGED <<taskOf, kind, assignee, stalled, worker, workerEpoch, gate, epoch>>

\* A worker's escalation, as the coordinator reads it: the sender must own an
\* active dispatch with no live supervised worker, and a broken circuit also
\* fails the task and whatever else still attempts it.
ApplyEscalationToDispatch(d) ==
    LET broken == FailureStatus(d) = "circuit_broken"
        settles == IF broken THEN Rivals(d) ELSE {}
    IN  /\ Active(d)
        /\ ~LiveWorker(d)
        /\ task[taskOf[d]] \notin TaskTerminal
        /\ \A x \in settles : ~LiveWorker(x)
        /\ dispatch' = [x \in Dispatches |->
               IF x = d THEN FailureStatus(d)
               ELSE IF x \in settles THEN "failed" ELSE dispatch[x]]
        /\ failures' = [failures EXCEPT ![d] = @ + 1]
        /\ capability' = Revoked(settles \cup {d})
        /\ asking' = asking \ (settles \cup {d})
        /\ task' = IF broken THEN WithTask(taskOf[d], "failed") ELSE FailedTask(d)
        /\ UNCHANGED <<taskOf, kind, assignee, stalled, worker, workerEpoch, gate, epoch>>
-----------------------------------------------------------------------------
(***************************************************************************)
(* Starting a supervised worker, on this host or on a paired one           *)
(***************************************************************************)
\* Fault: an attempt whose start or stop is unknown counts as over.
MayRetry_OutcomeUnknown(t, prior) ==
    /\ LatestOf(t, prior)
    /\ IF Supervised(prior) THEN worker[prior] \notin {"ready", "succeeded"}
                            ELSE dispatch[prior] = "failed"
    /\ task[t] \in {"failed", "blocked"}

\* A retry names the task's latest row, which must be settled.
MayRetry(t, prior) ==
    /\ LatestOf(t, prior)
    /\ IF Supervised(prior) THEN worker[prior] \in {"failed", "stopped", "abandoned"}
                            ELSE dispatch[prior] = "failed"
    /\ task[t] \in {"failed", "blocked"}

\* orchestration.workerStart accepted.  The row starts its own failure count.
CreateStartingWorkerDispatch(d, t, k) ==
    /\ k \in Kinds \ {"context"}
    /\ NextRow(d)
    /\ \/ task[t] = "ready"
       \/ \E prior \in Dispatches : MayRetry(t, prior)
    /\ taskOf' = [taskOf EXCEPT ![d] = t]
    /\ kind' = [kind EXCEPT ![d] = k]
    /\ dispatch' = [dispatch EXCEPT ![d] = "pending"]
    /\ worker' = WithWorker(d, "starting")
    /\ workerEpoch' = [workerEpoch EXCEPT ![d] = epoch]
    /\ task' = WithTask(t, "dispatched")
    /\ UNCHANGED <<authorityVars, failures, stalled, asking, gate, epoch>>

\* The start handler that inserted d is still running: it dies with its runtime.
StartInFlight(d) == worker[d] = "starting" /\ workerEpoch[d] = epoch

PrepareStartingWorkerAuthority(d, h) ==
    /\ kind[d] = "local"
    /\ StartInFlight(d)
    /\ dispatch[d] = "pending"
    /\ assignee[d] = NoTerminal    \* the handler attaches authority once
    /\ ~TerminalBusy(h, d)
    /\ assignee' = [assignee EXCEPT ![d] = h]
    /\ capability' = [capability EXCEPT ![d] = "live"]
    /\ UNCHANGED <<graphVars, failures, stalled, workerEpoch, asking, gate, epoch>>

MarkWorkerDispatchReady(d) ==
    /\ StartInFlight(d)
    /\ kind[d] = "local" => assignee[d] # NoTerminal
    /\ dispatch[d] = "pending"
    /\ dispatch' = [dispatch EXCEPT ![d] = "dispatched"]
    /\ worker' = WithWorker(d, "ready")
    /\ UNCHANGED <<task, taskOf, kind, authorityVars, failures, stalled,
                   workerEpoch, asking, gate, epoch>>

\* A start that failed.  A prompt whose turn start went unobserved is recorded
\* as stalled, and its worker keeps the authority its own report needs.
FailWorkerStart(d, unobserved) ==
    /\ StartInFlight(d)
    /\ unobserved => assignee[d] # NoTerminal
    /\ dispatch' = Settled({d}, "failed")
    /\ capability' = IF unobserved THEN capability ELSE Revoked({d})
    /\ stalled' = IF unobserved THEN stalled \cup {d} ELSE stalled
    /\ worker' = WithWorker(d, "failed")
    /\ task' = IF Rivals(d) = {} /\ task[taskOf[d]] # "completed"
               THEN WithTask(taskOf[d], "failed") ELSE task
    /\ asking' = asking \ {d}
    /\ UNCHANGED <<taskOf, kind, assignee, failures, workerEpoch, gate, epoch>>

\* The handler lost track of its start, or workerShow found a local start that
\* another runtime left behind.  Authority and questions survive.
MarkWorkerStartUnknown(d) ==
    /\ worker[d] = "starting"
    /\ StartInFlight(d) \/ kind[d] = "local"
    /\ task[taskOf[d]] = "dispatched"
    /\ worker' = WithWorker(d, "start_unknown")
    /\ task' = WithTask(taskOf[d], "blocked")
    /\ UNCHANGED <<taskOf, kind, dispatch, authorityVars, failures, stalled,
                   workerEpoch, asking, gate, epoch>>

\* A poll of the paired host that shows what became of a federated start.
ReconcileFederatedWorkerStart(d, state) ==
    /\ kind[d] = "federated"
    /\ worker[d] \in {"starting", "start_unknown"}
    /\ worker' = WithWorker(d, state)
    /\ \/ /\ state = "ready"
          /\ dispatch' = [dispatch EXCEPT ![d] = IF @ = "pending" THEN "dispatched" ELSE @]
          /\ task' = IF task[taskOf[d]] = "blocked" THEN WithTask(taskOf[d], "dispatched")
                                                    ELSE task
          /\ UNCHANGED <<capability, asking>>
       \/ /\ state = "start_unknown"
          /\ task' = IF task[taskOf[d]] = "dispatched" THEN WithTask(taskOf[d], "blocked")
                                                       ELSE task
          /\ UNCHANGED <<dispatch, capability, asking>>
       \/ /\ state \in {"failed", "stopped"}
          /\ dispatch' = IF Active(d) THEN Settled({d}, "failed") ELSE dispatch
          /\ capability' = IF Active(d) THEN Revoked({d}) ELSE capability
          /\ task' = IF Rivals(d) = {} /\ task[taskOf[d]] \in {"dispatched", "blocked"}
                     THEN WithTask(taskOf[d], "failed") ELSE Reconciled(d)
          /\ asking' = asking \ {d}
    /\ UNCHANGED <<taskOf, kind, assignee, failures, stalled, workerEpoch, gate, epoch>>
-----------------------------------------------------------------------------
(***************************************************************************)
(* What a worker says and what its process does                            *)
(***************************************************************************)
\* A report reaches the database from the assigned pane with an unrevoked
\* capability, or over the relay of a paired host, which checked its own.
MayReport(d) ==
    \/ kind[d] = "federated"
    \/ kind[d] \in {"context", "local"} /\ assignee[d] # NoTerminal /\ capability[d] # "revoked"

\* Fault: the correction does not look at what became of the task since.
Correcting_TaskUnchecked(d) == dispatch[d] = "failed" /\ d \in stalled

Correcting(d) == dispatch[d] = "failed" /\ d \in stalled /\ task[taskOf[d]] = "failed"
Reconnecting(d) == Active(d) /\ task[taskOf[d]] = "blocked" /\ worker[d] = "start_unknown"
ReportingStart(d) ==
    dispatch[d] = "pending" /\ task[taskOf[d]] = "dispatched" /\ worker[d] = "starting"

\* settleWorkerReport.  A report it rejects, or has settled before, changes
\* nothing; a worker it cannot move rolls the transaction back.
SettleWorkerReport(d, outcome) ==
    LET t == taskOf[d]
        status == IF outcome = "succeeded" THEN "completed" ELSE "failed"
        settles == Rivals(d) \cup {d}
    IN  /\ MayReport(d)
        /\ \/ Correcting(d) /\ worker[d] = "failed"
           \/ Reconnecting(d)
           \/ ReportingStart(d)
           \/ /\ dispatch[d] = "dispatched" /\ task[t] = "dispatched"
              /\ worker[d] \in IF outcome = "succeeded"
                               THEN {"none", "ready"}
                               ELSE {"none", "ready", "start_unknown", "starting"}
        /\ \A x \in Rivals(d) : ~LiveWorker(x)
        /\ ~Supervised(d) => Active(d) /\ \A x \in Rivals(d) : x < d
        /\ dispatch' = Settled(settles, status)
        /\ capability' = Revoked(settles)
        /\ stalled' = stalled \ {d}
        /\ worker' = IF Supervised(d) THEN WithWorker(d, outcome) ELSE worker
        /\ task' = IF outcome = "succeeded" THEN Promoted(WithTask(t, status), t)
                                            ELSE WithTask(t, status)
        /\ asking' = asking \ settles
        /\ UNCHANGED <<taskOf, kind, assignee, failures, workerEpoch, gate, epoch>>

\* A stop this runtime has begun and not yet seen the end of.
StopInFlight(d) == worker[d] = "stopping" /\ workerEpoch[d] = epoch

\* Fault: the worker's outcome is written to the dispatch.
StopSettles_WorkerOutcome(d) ==
    /\ worker' = WithWorker(d, "stopped")
    /\ dispatch' = IF Active(d) THEN Settled({d}, "stopped") ELSE dispatch
    /\ task' = Reconciled(d)
    /\ UNCHANGED <<capability, failures, asking>>

\* Fault: the dispatch of a stopped worker is left open.
StopSettles_DispatchOpen(d) ==
    /\ worker' = WithWorker(d, "stopped")
    /\ task' = Reconciled(d)
    /\ UNCHANGED <<dispatch, capability, failures, asking>>

StopSettles(d) ==
    /\ worker' = WithWorker(d, "stopped")
    /\ dispatch' = IF Active(d) THEN Settled({d}, "failed") ELSE dispatch
    /\ task' = Reconciled(d)
    /\ UNCHANGED <<capability, failures, asking>>

\* Fault: an exit is a crash, whoever asked for it.
TerminalExit_AlwaysCrash(h) ==
    /\ \E d \in Dispatches :
        /\ Active(d)
        /\ assignee[d] = h
        /\ FailDispatch(d)
        /\ worker' = IF Supervised(d) THEN WithWorker(d, "failed") ELSE worker
        /\ task' = FailedTask(d)
    /\ UNCHANGED <<taskOf, kind, assignee, stalled, workerEpoch, gate, epoch>>

\* The process behind terminal h exits.  Only a stop of this very runtime
\* claims the exit; any other exit fails the attempt it belonged to.
TerminalExit(h) ==
    /\ \E d \in Dispatches :
        /\ Active(d)
        /\ assignee[d] = h
        /\ IF StopInFlight(d)
           THEN StopSettles(d)
           ELSE /\ FailDispatch(d)
                /\ worker' = IF Supervised(d) THEN WithWorker(d, "failed") ELSE worker
                /\ task' = FailedTask(d)
    /\ UNCHANGED <<taskOf, kind, assignee, stalled, workerEpoch, gate, epoch>>
-----------------------------------------------------------------------------
(***************************************************************************)
(* Stopping, abandoning and recovering a worker                            *)
(***************************************************************************)
\* A context-only row is released without touching its process.
ReleaseContextOnlyDispatch(d) ==
    /\ kind[d] = "context"
    /\ Active(d)
    /\ dispatch' = Settled({d}, "failed")
    /\ capability' = Revoked({d})
    /\ task' = IF Rivals(d) = {} /\ task[taskOf[d]] = "dispatched"
               THEN WithTask(taskOf[d], "blocked") ELSE task
    /\ asking' = asking \ {d}
    /\ UNCHANGED <<taskOf, kind, assignee, failures, stalled, worker, workerEpoch, gate, epoch>>

\* orchestration.workerStop.  A "stopping" row of another runtime is a stop
\* nobody is running any more: it may be begun again.
BeginWorkerStop(d) ==
    /\ \/ worker[d] \in {"ready", "start_unknown"}
       \/ worker[d] = "stopping" /\ workerEpoch[d] # epoch
    /\ worker' = WithWorker(d, "stopping")
    /\ workerEpoch' = [workerEpoch EXCEPT ![d] = epoch]
    /\ capability' = Revoked({d})
    /\ task' = Reconciled(d)
    /\ asking' = asking \ {d}
    /\ UNCHANGED <<taskOf, kind, dispatch, assignee, failures, stalled, gate, epoch>>

\* The local stop handler proved the process gone.
SettleWorkerStop(d) ==
    /\ kind[d] = "local"
    /\ StopInFlight(d)
    /\ StopSettles(d)
    /\ UNCHANGED <<taskOf, kind, assignee, stalled, workerEpoch, gate, epoch>>

\* The stop handler could not prove the outcome, or workerShow found a local
\* stop that another runtime left behind.
MarkWorkerStopUnknown(d) ==
    /\ worker[d] = "stopping"
    /\ StopInFlight(d) \/ kind[d] = "local"
    /\ worker' = WithWorker(d, "stop_unknown")
    /\ UNCHANGED <<task, taskOf, kind, dispatch, authorityVars, failures, stalled,
                   workerEpoch, asking, gate, epoch>>

\* The paired host says the process stopped: to the stop handler, or to a poll.
ReconcileFederatedWorkerStop(d) ==
    /\ kind[d] = "federated"
    /\ worker[d] \in {"stopping", "stop_unknown"}
    /\ StopSettles(d)
    /\ UNCHANGED <<taskOf, kind, assignee, stalled, workerEpoch, gate, epoch>>

\* Fault: the task stays held back under the resumed worker.
ResumeFederatedWorkerForTerminalRelay_TaskHeld(d) ==
    /\ kind[d] = "federated"
    /\ StopInFlight(d)
    /\ worker' = WithWorker(d, "ready")
    /\ UNCHANGED <<task, taskOf, kind, dispatch, authorityVars, failures, stalled,
                   workerEpoch, asking, gate, epoch>>

\* The paired host answers the stop with "it had already reported": the row is
\* handed back to the report that is still in the relay.
ResumeFederatedWorkerForTerminalRelay(d) ==
    /\ kind[d] = "federated"
    /\ StopInFlight(d)
    /\ worker' = WithWorker(d, "ready")
    /\ task' = IF task[taskOf[d]] = "blocked" THEN WithTask(taskOf[d], "dispatched") ELSE task
    /\ UNCHANGED <<taskOf, kind, dispatch, authorityVars, failures, stalled,
                   workerEpoch, asking, gate, epoch>>

\* Fault: a worker that has settled can still be abandoned.
MayAbandon_Settled(d) == Supervised(d) /\ LatestOf(taskOf[d], d)

\* Only the task's latest row, while its outcome is open and no stop is under way.
MayAbandon(d) ==
    /\ LatestOf(taskOf[d], d)
    /\ worker[d] \in {"starting", "start_unknown", "ready", "stop_unknown"}

\* orchestration.workerAbandon on a supervised row.
AbandonWorkerDispatch(d) ==
    /\ MayAbandon(d)
    /\ worker' = WithWorker(d, "abandoned")
    /\ dispatch' = IF Active(d) THEN Settled({d}, "failed") ELSE dispatch
    /\ capability' = IF Active(d) THEN Revoked({d}) ELSE capability
    /\ task' = Reconciled(d)
    /\ asking' = asking \ {d}
    /\ UNCHANGED <<taskOf, kind, assignee, failures, stalled, workerEpoch, gate, epoch>>

\* Startup (or reconnect) recovery finds the recorded terminal of a local
\* worker gone.  A pending stop settles as that stop; anything else is a failure.
ReconcileMissingWorkerTerminal(d) ==
    LET stopping == worker[d] \in {"stopping", "stop_unknown"}
        retried == IF FailureStatus(d) = "circuit_broken" THEN "failed" ELSE "ready"
    IN  /\ kind[d] = "local" /\ assignee[d] # NoTerminal
        /\ LiveWorker(d) /\ Active(d)
        /\ FailDispatch(d)
        /\ worker' = WithWorker(d, IF stopping THEN "stopped" ELSE "abandoned")
        /\ task' = IF stopping THEN task
                   ELSE IF task[taskOf[d]] \in {"dispatched", "blocked"} /\ Rivals(d) = {}
                        THEN WithTask(taskOf[d], retried)
                        ELSE Reconciled(d)
        /\ UNCHANGED <<taskOf, kind, assignee, stalled, workerEpoch, gate, epoch>>
-----------------------------------------------------------------------------
(***************************************************************************)
(* Decision gates and questions                                            *)
(***************************************************************************)
\* Fault: the gate ends the attempt but leaves the task's status alone.
CreateGate_TaskOpen(g, t) ==
    /\ gate[g].status = "absent" /\ \A x \in 1 .. g - 1 : gate[x].status # "absent"
    /\ task[t] # "absent"
    /\ ~ActiveWorkerOn(t)
    /\ gate' = [gate EXCEPT ![g] = [task |-> t, status |-> "pending"]]
    /\ dispatch' = Settled(ActiveOf(t), "completed")
    /\ capability' = Revoked(ActiveOf(t))
    /\ asking' = asking \ ActiveOf(t)
    /\ UNCHANGED <<task, taskOf, kind, assignee, failures, stalled, worker, workerEpoch, epoch>>

\* orchestration.gateCreate, or a decision_gate message from the owner of the
\* task's active dispatch: a gate ends a context-only attempt and is refused
\* while a supervised worker lives.
CreateGate(g, t) ==
    /\ gate[g].status = "absent" /\ \A x \in 1 .. g - 1 : gate[x].status # "absent"
    /\ task[t] # "absent"
    /\ ~ActiveWorkerOn(t)
    /\ gate' = [gate EXCEPT ![g] = [task |-> t, status |-> "pending"]]
    /\ dispatch' = Settled(ActiveOf(t), "completed")
    /\ capability' = Revoked(ActiveOf(t))
    /\ asking' = asking \ ActiveOf(t)
    /\ task' = WithTask(t, "blocked")
    /\ UNCHANGED <<taskOf, kind, assignee, failures, stalled, worker, workerEpoch, epoch>>

\* A gate resolves whatever its status is, if the task may become ready.
ResolveGate(g) ==
    /\ gate[g].status # "absent"
    /\ MayUpdateTask(gate[g].task, "ready")
    /\ gate' = [gate EXCEPT ![g] = [@ EXCEPT !.status = "resolved"]]
    /\ task' = WithTask(gate[g].task, "ready")
    /\ UNCHANGED <<taskOf, kind, dispatch, authorityVars, failures, stalled,
                   worker, workerEpoch, asking, epoch>>

PendingGates == {g \in Gates : gate[g].status = "pending"}

\* Each coordinator tick blocks the tasks of pending gates again, oldest gate
\* first; the first task with an active dispatch throws and ends the loop.
ReblockTasksWithPendingGates ==
    LET open == {g \in PendingGates : task[gate[g].task] # "blocked"}
        refused == {g \in open : ~MayUpdateTask(gate[g].task, "blocked")}
        reached == {g \in open : \A r \in refused : g < r}
    IN  /\ reached # {}
        /\ task' = [t \in Tasks |->
               IF \E g \in reached : gate[g].task = t THEN "blocked" ELSE task[t]]
        /\ UNCHANGED <<taskOf, kind, dispatch, authorityVars, failures, stalled,
                       worker, workerEpoch, asking, gate, epoch>>

\* orchestration.ask, from the assigned pane of an active local row.
CreateQuestion(d) ==
    /\ Active(d)
    /\ assignee[d] # NoTerminal
    /\ capability[d] # "revoked"
    /\ asking' = asking \cup {d}
    /\ UNCHANGED <<graphVars, authorityVars, failures, stalled, workerEpoch, gate, epoch>>

\* A question relayed from a paired host is registered whatever d's state is.
RegisterFederatedQuestion(d) ==
    /\ kind[d] = "federated"
    /\ asking' = asking \cup {d}
    /\ UNCHANGED <<graphVars, authorityVars, failures, stalled, workerEpoch, gate, epoch>>

AnswerQuestion(d) ==
    /\ d \in asking
    /\ asking' = asking \ {d}
    /\ UNCHANGED <<graphVars, authorityVars, failures, stalled, workerEpoch, gate, epoch>>

\* The runtime dies and a new one opens the database: every handler that was
\* in flight is gone, every row is as its last transaction left it.
RuntimeRestart ==
    /\ epoch < MaxEpoch
    /\ epoch' = epoch + 1
    /\ UNCHANGED <<graphVars, authorityVars, failures, stalled, workerEpoch, asking, gate>>
-----------------------------------------------------------------------------
Next ==
    \/ \E t \in Tasks : CreateTask(t) \/ \E s \in TaskStatuses : UpdateTaskStatus(t, s)
    \/ \E d \in Dispatches, t \in Tasks :
          \/ \E h \in Terminals, inject \in BOOLEAN : CreateDispatchContext(d, t, h, inject)
          \/ \E k \in {"local", "federated"} : CreateStartingWorkerDispatch(d, t, k)
    \/ \E d \in Dispatches :
          \/ PromptSendFails(d) \/ ApplyEscalationToDispatch(d)
          \/ \E h \in Terminals : PrepareStartingWorkerAuthority(d, h)
          \/ MarkWorkerDispatchReady(d) \/ MarkWorkerStartUnknown(d)
          \/ \E unobserved \in BOOLEAN : FailWorkerStart(d, unobserved)
          \/ \E s \in {"ready", "failed", "stopped", "start_unknown"} :
                ReconcileFederatedWorkerStart(d, s)
          \/ \E o \in {"succeeded", "failed"} : SettleWorkerReport(d, o)
          \/ ReleaseContextOnlyDispatch(d)
          \/ BeginWorkerStop(d) \/ SettleWorkerStop(d) \/ MarkWorkerStopUnknown(d)
          \/ ReconcileFederatedWorkerStop(d) \/ ResumeFederatedWorkerForTerminalRelay(d)
          \/ AbandonWorkerDispatch(d) \/ ReconcileMissingWorkerTerminal(d)
          \/ CreateQuestion(d) \/ RegisterFederatedQuestion(d) \/ AnswerQuestion(d)
    \/ \E h \in Terminals : TerminalExit(h)
    \/ \E g \in Gates : ResolveGate(g) \/ \E t \in Tasks : CreateGate(g, t)
    \/ ReblockTasksWithPendingGates
    \/ RuntimeRestart

Spec == Init /\ [][Next]_vars
-----------------------------------------------------------------------------
(***************************************************************************)
(* Safety: what the tables always agree on                                 *)
(***************************************************************************)
Suspended == {"start_unknown", "stopping", "stop_unknown"}

\* A task that some attempt is active on shows the state of that attempt: held
\* back while the worker's start or stop is unresolved, dispatched otherwise.
\* No task update, gate, retry or late report can pull it from under a worker
\* (the wedge of #16904).
TaskMirrorsAttempt ==
    \A d \in Dispatches : Active(d) =>
        task[taskOf[d]] = IF worker[d] \in Suspended THEN "blocked" ELSE "dispatched"

\* A dispatched task has an attempt that will settle it: whichever way an
\* attempt ends, it takes its task out of "dispatched" in the same transaction.
DispatchedTaskHasAttempt ==
    \A t \in Tasks : task[t] = "dispatched" => ActiveOf(t) # {}

\* A task is attempted by its newest dispatch or by none: a retry never starts
\* beside an attempt that can still act, however the earlier one became unknown.
ActiveAttemptIsLatest ==
    \A d \in Dispatches : Active(d) => LatestOf(taskOf[d], d)

\* The worker record and the dispatch record of one attempt settle together: a
\* live worker's dispatch is active, and an active dispatch's worker is live.
WorkerAndDispatchSettleTogether ==
    \A d \in Dispatches : Supervised(d) => (LiveWorker(d) <=> Active(d))

\* One terminal works on one dispatch at a time, whichever start claimed it.
OneActiveDispatchPerTerminal ==
    \A d, x \in Dispatches :
        Active(d) /\ Active(x) /\ assignee[d] = assignee[x] /\ assignee[d] # NoTerminal
            => d = x

\* An assigned local worker may act on its dispatch exactly as long as nobody
\* has asked it to stop: an uncertain start keeps its authority, a stop takes it
\* away for good, and a settled dispatch keeps it only when the prompt stalled.
AuthorityFollowsWorker ==
    \A d \in Dispatches : kind[d] = "local" /\ assignee[d] # NoTerminal =>
        (capability[d] = "live" <=>
            \/ worker[d] \in {"starting", "start_unknown", "ready"}
            \/ worker[d] = "failed" /\ d \in stalled)

\* No local dispatch that is settled, or being stopped, still waits for an
\* answer nobody could use.
LocalQuestionsAreAnswerable ==
    \A d \in asking : kind[d] # "federated" =>
        Active(d) /\ worker[d] \notin {"stopping", "stop_unknown"}

\* A row belongs to a task from its insert on, and only rows of worker_dispatches
\* have a worker.
RowShape ==
    \A d \in Dispatches :
        /\ dispatch[d] = "absent" => taskOf[d] = NoTask /\ worker[d] = "none"
        /\ dispatch[d] # "absent" => taskOf[d] \in Tasks
        /\ kind[d] = "context" => worker[d] = "none"

RowsInOrder ==
    \A d, x \in Dispatches : x < d /\ dispatch[d] # "absent" => dispatch[x] # "absent"

\* What every transaction preserves: the four invariants above hold together or
\* not at all.  A settled attempt finds its task as it left it because it was the
\* only active one, and a retry may trust the latest row because worker and
\* dispatch agree on whether it is over.
AttemptsAgree ==
    /\ RowShape
    /\ RowsInOrder
    /\ TaskMirrorsAttempt
    /\ DispatchedTaskHasAttempt
    /\ ActiveAttemptIsLatest
    /\ WorkerAndDispatchSettleTogether
\* A row has no kind and no pane before its insert, a local row has a worker and,
\* once it is assigned, a capability, and a prompt stalls only on the way to a failed start.
AuthorityShape ==
    \A d \in Dispatches :
        /\ dispatch[d] = "absent" <=> kind[d] = "none"
        /\ kind[d] = "none" => assignee[d] = NoTerminal
        /\ kind[d] = "local" => worker[d] # "none"
        /\ kind[d] = "local" /\ assignee[d] # NoTerminal => capability[d] # "none"
        /\ d \in stalled => worker[d] = "failed"

\* What every transaction preserves beside AttemptsAgree: who may act on an
\* attempt, through which pane, and whether an answer can still reach it.
AuthorityAgrees ==
    /\ AuthorityShape
    /\ OneActiveDispatchPerTerminal
    /\ AuthorityFollowsWorker
    /\ LocalQuestionsAreAnswerable
-----------------------------------------------------------------------------
(***************************************************************************)
(* Safety: what no step may do                                             *)
(***************************************************************************)
Settles(d) == Active(d) /\ dispatch'[d] \in DispatchSettled
WorkerStep(d) == <<worker[d], worker'[d]>>

\* The graph never has to refuse a write: every operation's own guards keep
\* every worker on the declared edges (a report may pass through "ready"), and
\* a settled row leaves its outcome only by the unobserved-prompt correction.
StepsFollowLifecycleGraph ==
    [][\A d \in Dispatches :
          /\ \/ worker[d] = "none"
             \/ WorkerStep(d) \in WorkerEdges
             \/ <<worker[d], "ready">> \in WorkerEdges /\ worker'[d] = "succeeded"
             \/ WorkerStep(d) \in UnobservedPromptCorrections /\ d \in stalled
          /\ \/ dispatch[d] = "absent"
             \/ <<dispatch[d], dispatch'[d]>> \in DispatchEdges
             \/ <<dispatch[d], dispatch'[d]>> \in UnobservedPromptCorrections /\ d \in stalled]_vars

\* The end of an attempt never reopens a task that has completed: only an
\* operator's task update or a gate does.
LateOutcomeNeverReopensTask ==
    [][\A t \in Tasks :
          task[t] = "completed" /\ task'[t] # "completed"
            => UNCHANGED <<dispatch, worker, stalled>>]_vars

\* A process that exits while this runtime is stopping it is that stop
\* succeeding: the attempt is never recorded as a crash.
OwnStopNeverReadsAsCrash ==
    [][\A d \in Dispatches :
          StopInFlight(d) /\ worker'[d] # worker[d] =>
              worker'[d] \in {"stopped", "stop_unknown", "ready"}]_vars

\* The step that breaks the circuit never leaves the task open for another
\* automatic dispatch.
BrokenCircuitNeverLeavesTaskReady ==
    [][\A d \in Dispatches :
          Settles(d) /\ dispatch'[d] = "circuit_broken" => task'[taskOf[d]] # "ready"]_vars

\* A task that completes takes every pending dependent that was waiting on it
\* alone with it, in the same transaction, whichever operation completed it.
CompletionPromotesDependents ==
    [][\A t, c \in Tasks :
          /\ task[t] # "completed" /\ task'[t] = "completed"
          /\ t \in Deps[c] /\ task[c] = "pending"
          /\ \A dep \in Deps[c] : task'[dep] = "completed"
          => task'[c] = "ready"]_vars
-----------------------------------------------------------------------------
(***************************************************************************)
(* What the documentation says and the code does not keep                  *)
(***************************************************************************)
\* "A settled Dispatch can never be answered, and a pending thread on it kept
\* the fleet row demanding input" (dispatch-completion.ts:32): so none is left.
SettledAttemptHoldsNoQuestion == \A d \in asking : Active(d)

\* "After three consecutive failures for one Task, its dispatch context
\* circuit-breaks and the Task is failed" (recovery-and-cleanup.md:120).
ConsecutiveFailuresFailTheTask ==
    [][\A d \in Dispatches :
          LET earlier == {x \in 1 .. d - 1 : taskOf[x] = taskOf[d]}
          IN  /\ worker[d] # "failed" /\ worker'[d] = "failed"
              /\ \A x \in earlier : worker[x] = "failed"
              /\ Cardinality(earlier) + 1 >= DISPATCH_CIRCUIT_BREAK_FAILURES
              => task'[taskOf[d]] = "failed"]_vars

\* "The task is ready to be dispatched again" (the escalation an exit sends when
\* it fails a dispatch below the limit, orca-runtime-subscribe-to-terminal-resize.ts:126).
ExitMakesTaskReady ==
    [][\A d \in Dispatches :
          Settles(d) /\ dispatch'[d] = "failed" /\ failures'[d] > failures[d]
              /\ worker'[d] = "failed"
            => task'[taskOf[d]] = "ready"]_vars

\* "Keeping gated tasks blocked" (coordinator-decision-gates.ts:1), because gates
\* are "approval checkpoints" (:53): no attempt starts on a task a gate holds.
GatedTaskStaysBlocked ==
    [][\A g \in PendingGates :
          task[gate[g].task] = "blocked" => task'[gate[g].task] # "dispatched"]_vars
=============================================================================
