------------------------------ MODULE Federation ------------------------------
(***************************************************************************)
(* One Dispatch whose worker runs on a paired host.  The home runtime owns *)
(* the Task, the Dispatch and the worker row; the paired host ("remote")   *)
(* owns an attachment, the process, and the queue of what the worker said. *)
(* Between them are three calls that can be lost, time out or answer late  *)
(* (start, stop, show) and a relay: the home pulls pages of the queue,     *)
(* imports each item once in sequence order, and acknowledges it with the  *)
(* verdicts the Run home gave the worker's reports.                        *)
(*                                                                         *)
(* One action is one transaction, or one synchronous stretch of a handler  *)
(* between two awaits.                                                     *)
(***************************************************************************)
EXTENDS Integers, Sequences, FiniteSets, Lifecycle

CONSTANTS
    Protocol,        \* federated_dispatches.protocol_version
    PAGE_SIZE,       \* FEDERATION_PULL_PAGE_SIZE
    MAX_PAGES,       \* MAX_FEDERATION_PULL_PAGES_PER_SYNC
    QUOTA,           \* unacknowledged items the queue holds
    Sends,           \* the kinds of message this instance's worker sends
    MaxSequence,     \* bound: items queued for the home
    MaxMail,         \* bound: items queued for the worker
    MaxStops,        \* bound: stops requested
    MaxShows,        \* bound: polls of the paired host
    MaxEpoch,        \* bound: restarts of the home
    MaxRemoteEpoch,  \* bound: runtimes the paired host has been
    MaxFaults        \* bound: lost calls, timeouts and restarts

ASSUME ProtocolAssumption == Protocol \in 1 .. 3
ASSUME PageAssumption == PAGE_SIZE \in Nat \ {0} /\ MAX_PAGES \in Nat \ {0}
ASSUME QuotaAssumption == QUOTA \in Nat \ {0}
ASSUME SendsAssumption == Sends \subseteq {"status", "heartbeat", "question", "worker_done"}
ASSUME BoundAssumption ==
    /\ {MaxSequence, MaxMail, MaxStops, MaxShows, MaxEpoch, MaxFaults} \subseteq Nat
    /\ MaxRemoteEpoch \in Nat \ {0}

SettlesAtHome == Protocol >= 3
Outcomes == {"succeeded", "failed"}
Verdicts == Outcomes \cup {"rejected"}
NoCapability == [epoch |-> 0, supported |-> FALSE]

NotSyncing ==
    [phase |-> "idle", pages |-> 0, imported |-> 0, acked |-> 0, peerEpoch |-> 0,
     capability |-> NoCapability, page |-> << >>, epoch |-> 0, next |-> 0, cursor |-> 0,
     verdicts |-> {}, barrier |-> 0, through |-> 0]

NotShowing == [phase |-> "idle", fence |-> << >>, state |-> "none", stage |-> "none", epoch |-> 0]

VARIABLES
    \* Rows of the home database
    home,          \* the statuses of the Task, the Dispatch and the worker
    workerEpoch,   \* worker_dispatches.runtime_epoch
    asking,        \* a pending question thread of the Dispatch
    mailbox,       \* messages imported: the sequence and kind that name each
    imported,      \* to_home_imported_sequence
    acked,         \* to_home_acknowledged_sequence
    peerEpoch,     \* remote_runtime_epoch, 0 for NULL
    outbox,        \* items queued for the worker, numbered from 1
    outboxAcked,   \* the last of them the worker's host acknowledged
    \* Memory of the home runtime
    epoch,         \* its identity
    sync,          \* the sync in flight
    wanted,        \* somebody waits to sync after the current one
    checkpoint,    \* the acknowledgement checkpoint of the Dispatch
    peer,          \* what the peer last said it supports
    polled,        \* the relay has its timer
    startCall,     \* the start call, and its answer
    stopCall,      \* the stop call, and its answer
    stops,         \* stops requested so far
    show,          \* the poll in flight
    shows,         \* polls begun so far
    \* Calls on the wire
    attach,        \* the start request, until its handler ends
    stopNet,       \* stop requests not handled yet
    lateAcks,      \* acknowledgements whose caller gave up
    \* Rows and memory of the paired host
    attachment,    \* remote_dispatch_attachments.state
    stage,         \* its stage, as far as a poll reads it
    capability,    \* whether the worker's capability is live
    items,         \* the queue: items[n] has sequence n
    receipts,      \* mutation_receipts of the acknowledgements it completed
    delivered,     \* to_worker_imported_sequence
    stopRun,       \* the stop handler running, 0 for none
    waiting,       \* the report whose sender waits for a verdict, 0 for none
    told,          \* the last answer a report got
    remoteEpoch,   \* the identity of its runtime
    advertises,    \* whether that runtime says it settles reports at home
    faults         \* faults so far

homeRows == <<home, workerEpoch, asking>>
relayRows == <<mailbox, imported, acked, peerEpoch>>
queue == <<items, receipts>>
mailRows == <<outbox, outboxAcked, delivered>>
syncMemory == <<sync, wanted, checkpoint, peer, polled>>
stopState == <<stopCall, stops, stopNet, stopRun>>
startState == <<startCall, attach>>
showState == <<show, shows>>
remoteRow == <<attachment, stage, capability>>
worker == <<waiting, told>>
epochs == <<epoch, remoteEpoch, advertises>>
vars == <<homeRows, relayRows, mailRows, syncMemory, startState, stopState, showState,
          lateAcks, remoteRow, queue, worker, epochs, faults>>

Item == [kind : {"status", "heartbeat", "question", "worker_done"},
         outcome : Outcomes \cup {"none"}, acked : BOOLEAN]
Pulled == [sequence : 1 .. MaxSequence, kind : {"status", "heartbeat", "question", "worker_done"},
           outcome : Outcomes \cup {"none"}]
Verdict == [sequence : 1 .. MaxSequence, action : Verdicts]
Ack == [request : 1 .. MaxSequence, through : 1 .. MaxSequence, verdicts : SUBSET Verdict]
Attachments == {"none", "starting", "ready", "start_unknown", "stopping", "stop_unknown",
                "stopped", "succeeded", "failed"}
Answers == {"idle", "waiting", "ready", "failed", "start_unknown", "stopped", "stop_unknown",
            "succeeded", "error"}
Capability == [epoch : 0 .. MaxRemoteEpoch, supported : BOOLEAN]

TypeOK ==
    /\ home \in [task : TaskStatuses \cup {"absent"}, dispatch : DispatchStatuses \cup {"absent"},
                 worker : WorkerStates \cup {"none"}]
    /\ workerEpoch \in 0 .. MaxEpoch /\ epoch \in 0 .. MaxEpoch
    /\ asking \in BOOLEAN
    /\ mailbox \subseteq (1 .. MaxSequence) \X {"status", "heartbeat", "question", "worker_done"}
    /\ imported \in 0 .. MaxSequence /\ acked \in 0 .. MaxSequence
    /\ peerEpoch \in 0 .. MaxRemoteEpoch /\ remoteEpoch \in 1 .. MaxRemoteEpoch
    /\ {outbox, outboxAcked, delivered} \subseteq 0 .. MaxMail
    /\ sync.phase \in {"idle", "probing", "pulling", "paged", "importing", "acking", "acked",
                       "pushing", "mailed", "pushed"}
    /\ sync.capability \in Capability /\ peer \in Capability
    /\ sync.page \in Seq(Pulled) /\ Len(sync.page) <= PAGE_SIZE
    /\ sync.verdicts \subseteq Verdict
    /\ sync.pages \in IF sync.phase = "idle" THEN {0} ELSE 1 .. MAX_PAGES
    /\ sync.epoch \in 0 .. MaxRemoteEpoch
    /\ {sync.cursor, sync.barrier} \subseteq 0 .. MaxSequence
    /\ sync.through \in 0 .. IF sync.phase \in {"acking", "acked"} THEN MaxSequence ELSE MaxMail
    /\ wanted \in BOOLEAN /\ polled \in BOOLEAN
    /\ checkpoint \in [epoch : 0 .. MaxRemoteEpoch, through : 0 .. MaxSequence]
    /\ startCall \in Answers /\ stopCall \in Answers
    /\ stops \in 0 .. MaxStops /\ stopNet \subseteq 1 .. MaxStops /\ stopRun \in 0 .. MaxStops
    /\ show.phase \in {"idle", "asked", "answered"} /\ shows \in 0 .. MaxShows
    /\ attach \in {"none", "requested", "running"}
    /\ lateAcks \subseteq Ack /\ receipts \subseteq Ack
    /\ attachment \in Attachments
    /\ stage \in {"none", "worker_report_queued", "worker_report_settled"}
    /\ capability \in BOOLEAN /\ advertises \in BOOLEAN
    /\ items \in Seq(Item) /\ Len(items) <= MaxSequence
    /\ waiting \in 0 .. MaxSequence
    /\ told \in [sequence : 0 .. MaxSequence, action : Verdicts \cup {"nothing", "unknown"}]
    /\ faults \in 0 .. MaxFaults

Init ==
    /\ home = [task |-> "absent", dispatch |-> "absent", worker |-> "none"]
    /\ workerEpoch = 0 /\ asking = FALSE
    /\ mailbox = {} /\ imported = 0 /\ acked = 0 /\ peerEpoch = 0
    /\ outbox = 0 /\ outboxAcked = 0 /\ delivered = 0
    /\ epoch = 0
    /\ sync = NotSyncing /\ wanted = FALSE
    /\ checkpoint = [epoch |-> 0, through |-> 0]
    /\ peer = NoCapability /\ polled = FALSE
    /\ startCall = "idle" /\ attach = "none"
    /\ stopCall = "idle" /\ stops = 0 /\ stopNet = {} /\ stopRun = 0
    /\ show = NotShowing /\ shows = 0
    /\ lateAcks = {}
    /\ attachment = "none" /\ stage = "none" /\ capability = FALSE
    /\ items = << >> /\ receipts = {}
    /\ waiting = 0 /\ told = [sequence |-> 0, action |-> "nothing"]
    /\ remoteEpoch = 1 /\ advertises = SettlesAtHome
    /\ faults = 0
-----------------------------------------------------------------------------
(***************************************************************************)
(* Rows of the home                                                        *)
(***************************************************************************)
\* The import of a page never awaits: nothing else runs at home meanwhile.
HomeFree == sync.phase # "importing"

Active == home.dispatch \in DispatchActive
Interrupted(task) == IF task \in {"dispatched", "blocked"} THEN "blocked" ELSE task
DispatchFailed == IF Active THEN "failed" ELSE home.dispatch
StatusOf(outcome) == IF outcome = "succeeded" THEN "completed" ELSE "failed"

\* reconcileFederatedWorkerStop
StopSettled == [task |-> Interrupted(home.task), dispatch |-> DispatchFailed, worker |-> "stopped"]

\* reconcileFederatedWorkerStart
StartSettled(state) ==
    IF state = "ready"
    THEN [task |-> IF home.task = "blocked" THEN "dispatched" ELSE home.task,
          dispatch |-> IF home.dispatch = "pending" THEN "dispatched" ELSE home.dispatch,
          worker |-> "ready"]
    ELSE IF state = "start_unknown"
    THEN [home EXCEPT !.worker = "start_unknown",
                      !.task = IF @ = "dispatched" THEN "blocked" ELSE @]
    ELSE [task |-> IF home.task \in {"dispatched", "blocked"} THEN "failed" ELSE home.task,
          dispatch |-> DispatchFailed, worker |-> state]

\* Fault: a Dispatch that failed by itself passes for one its report settled.
SettledAlready_TaskUnchecked(outcome) == home.dispatch = StatusOf(outcome)

\* What settleWorkerReport makes of a report: settled before, settled now, or
\* refused.
SettledAlready(outcome) ==
    home.dispatch = StatusOf(outcome) /\ home.task = StatusOf(outcome)

\* Fault: a report still settles a worker that is being stopped.
Accepts_WhileStopping(outcome) == Active /\ home.worker \in {"ready", "start_unknown", "stopping"}

Accepts(outcome) ==
    \/ Active /\ home.task = "blocked" /\ home.worker = "start_unknown"
    \/ home.dispatch = "pending" /\ home.task = "dispatched" /\ home.worker = "starting"
    \/ /\ home.dispatch = "dispatched" /\ home.task = "dispatched"
       /\ home.worker \in IF outcome = "succeeded" THEN {"ready"}
                          ELSE {"ready", "start_unknown", "starting"}

VerdictOn(outcome) ==
    IF SettledAlready(outcome) \/ Accepts(outcome) THEN outcome ELSE "rejected"

Reported(outcome) ==
    [task |-> StatusOf(outcome), dispatch |-> StatusOf(outcome), worker |-> outcome]

\* Fault: only a ready worker is polled.
RelayEligible_ReadyOnly == home.worker = "ready" \/ acked < imported

\* The relay of the Dispatch is polled while its worker may still speak, and
\* while something imported is not acknowledged.
RelayEligible == home.worker \in WorkerUnsettled \/ acked < imported

\* ensureRelay: the timer is memory, and only who asks for it starts it.
EnsureRelay == polled' = (polled \/ RelayEligible)
-----------------------------------------------------------------------------
(***************************************************************************)
(* Starting the worker                                                     *)
(***************************************************************************)
CreateTask ==
    /\ HomeFree
    /\ home.task = "absent"
    /\ home' = [home EXCEPT !.task = "ready"]
    /\ UNCHANGED <<workerEpoch, asking, relayRows, mailRows, syncMemory, startState, stopState,
                   showState, lateAcks, remoteRow, queue, worker, epochs, faults>>

\* orchestration.workerStart on a paired host: the rows, then the call.
StartWorker ==
    /\ HomeFree
    /\ home.task = "ready" /\ home.worker = "none"
    /\ home' = [task |-> "dispatched", dispatch |-> "pending", worker |-> "starting"]
    /\ workerEpoch' = epoch
    /\ startCall' = "waiting" /\ attach' = "requested"
    /\ UNCHANGED <<asking, relayRows, mailRows, syncMemory, stopState, showState, lateAcks,
                   remoteRow, queue, worker, epochs, faults>>

\* The answer reaches the call only if it still waits.
StartAnswer(answer) == IF startCall = "waiting" THEN answer ELSE startCall

\* orchestration.federationAttachStart validates, then inserts the attachment.
CreateRemoteDispatchAttachment ==
    /\ attach = "requested"
    /\ \/ /\ attach' = "running" /\ attachment' = "starting"
          /\ UNCHANGED startCall
       \/ /\ attach' = "none" /\ startCall' = StartAnswer("failed")
          /\ UNCHANGED attachment
    /\ UNCHANGED <<homeRows, relayRows, mailRows, syncMemory, stopState, showState, lateAcks,
                   stage, capability, queue, worker, epochs, faults>>

\* The terminal is ready: mint the capability the prompt will carry.
PrepareRemoteAttachmentAuthority ==
    /\ attach = "running" /\ attachment = "starting" /\ ~capability
    /\ capability' = TRUE
    /\ UNCHANGED <<homeRows, relayRows, mailRows, syncMemory, startState, stopState, showState,
                   lateAcks, attachment, stage, queue, worker, epochs, faults>>

\* The prompt was accepted.
MarkRemoteAttachmentReady ==
    /\ attach = "running" /\ attachment = "starting" /\ capability
    /\ attachment' = "ready"
    /\ attach' = "none" /\ startCall' = StartAnswer("ready")
    /\ UNCHANGED <<homeRows, relayRows, mailRows, syncMemory, stopState, showState, lateAcks,
                   stage, capability, queue, worker, epochs, faults>>

\* Any step of the start failed; once the prompt is on its way the effect is unknown.
FailRemoteAttachment ==
    /\ attach = "running" /\ attachment = "starting"
    /\ \E state \in {"failed", "start_unknown"} :
        /\ attachment' = state
        /\ startCall' = StartAnswer(state)
    /\ capability' = FALSE
    /\ attach' = "none"
    /\ UNCHANGED <<homeRows, relayRows, mailRows, syncMemory, stopState, showState, lateAcks,
                   stage, queue, worker, epochs, faults>>

\* The answer of the start call.  Each of the three writes needs the worker to
\* be starting still; a write that is refused changes nothing.  Only a worker
\* that is ready gets its relay here.
StartAnswered ==
    /\ HomeFree
    /\ startCall \in {"ready", "failed", "start_unknown"}
    /\ startCall' = "idle"
    /\ home' = IF home.worker = "starting" THEN StartSettled(startCall) ELSE home
    /\ asking' = IF home.worker = "starting" /\ startCall = "failed" THEN FALSE ELSE asking
    /\ IF startCall = "ready" THEN peerEpoch' \in 1 .. remoteEpoch   \* it may have restarted since
                              ELSE UNCHANGED peerEpoch
    /\ polled' = (polled \/ (home.worker = "starting" /\ startCall = "ready"))
    /\ UNCHANGED <<workerEpoch, mailbox, imported, acked, mailRows, sync, wanted, checkpoint, peer,
                   attach, stopState, showState, lateAcks, remoteRow, queue, worker, epochs, faults>>

\* The start call times out or its answer is lost; the request may still run.
\* When its handler is gone the timeout is all that is left.
StartHangs_Never == FALSE   \* Fault: the call has no timeout.
StartHangs == startCall = "waiting" /\ attach = "none"

StartGivesUp ==
    /\ HomeFree
    /\ startCall # "idle"
    /\ IF StartHangs THEN UNCHANGED faults ELSE faults < MaxFaults /\ faults' = faults + 1
    /\ startCall' = "idle"
    /\ home' = IF home.worker = "starting" THEN StartSettled("start_unknown") ELSE home
    /\ attach' \in IF attach = "requested" THEN {"requested", "none"} ELSE {attach}
    /\ UNCHANGED <<workerEpoch, asking, relayRows, mailRows, syncMemory, stopState, showState,
                   lateAcks, remoteRow, queue, worker, epochs>>
-----------------------------------------------------------------------------
(***************************************************************************)
(* Stopping, abandoning and polling                                        *)
(***************************************************************************)
\* orchestration.workerStop: fence the row, then call the paired host.
BeginWorkerStop ==
    /\ HomeFree
    /\ stops < MaxStops
    /\ \/ home.worker \in {"ready", "start_unknown"}
       \/ home.worker = "stopping" /\ workerEpoch # epoch
    /\ home' = [home EXCEPT !.worker = "stopping", !.task = Interrupted(@)]
    /\ workerEpoch' = epoch /\ asking' = FALSE
    /\ stops' = stops + 1 /\ stopCall' = "waiting" /\ stopNet' = stopNet \cup {stops + 1}
    /\ UNCHANGED <<relayRows, mailRows, syncMemory, startState, stopRun, showState, lateAcks,
                   remoteRow, queue, worker, epochs, faults>>

\* Only the newest stop can still have somebody waiting for it.
StopAnswer(n, answer) == IF n = stops /\ stopCall = "waiting" THEN answer ELSE stopCall

\* orchestration.federationStop up to its first await.  An attachment that
\* settled answers at once; one that neither runs nor may run is an error.
BeginRemoteAttachmentStop ==
    \E n \in stopNet :
        /\ stopNet' = stopNet \ {n}
        /\ IF attachment \in {"ready", "start_unknown"}
           THEN /\ attachment' = "stopping" /\ stage' = "none" /\ capability' = FALSE
                /\ stopRun' = n
                /\ UNCHANGED stopCall
           ELSE /\ stopCall' = StopAnswer(n, IF attachment \in {"succeeded", "failed", "stopped"}
                                            THEN attachment ELSE "error")
                /\ UNCHANGED <<remoteRow, stopRun>>
        /\ UNCHANGED <<homeRows, relayRows, mailRows, syncMemory, startState, stops, showState,
                       lateAcks, queue, worker, epochs, faults>>

\* The process was seen to end, or it could not be proved to.
SettleRemoteAttachmentStop ==
    /\ stopRun # 0
    /\ \E state \in {"stopped", "stop_unknown"} :
        /\ attachment' = state
        /\ stopCall' = StopAnswer(stopRun, state)
    /\ stopRun' = 0
    /\ UNCHANGED <<homeRows, relayRows, mailRows, syncMemory, startState, stops, stopNet, showState,
                   lateAcks, stage, capability, queue, worker, epochs, faults>>

\* resumeFederatedWorkerForTerminalRelay
Resumed == [home EXCEPT !.worker = "ready", !.task = IF @ = "blocked" THEN "dispatched" ELSE @]

\* The answer of the stop call.  A stop that something else has settled
\* meanwhile is left as it is.
StopAnswered ==
    /\ HomeFree
    /\ stopCall \notin {"idle", "waiting"}
    /\ stopCall' = "idle"
    /\ LET reported == stopCall \in Outcomes
           stopping == home.worker = "stopping"
       IN  /\ home' = IF stopCall = "stopped" /\ home.worker \in {"stopping", "stop_unknown"}
                      THEN StopSettled
                      ELSE IF stopping /\ reported THEN Resumed
                      ELSE IF stopping THEN [home EXCEPT !.worker = "stop_unknown"]
                      ELSE home
           /\ wanted' = (wanted \/ (stopping /\ reported))
    /\ UNCHANGED <<workerEpoch, asking, relayRows, mailRows, sync, checkpoint, peer, polled,
                   startState, stops, stopNet, stopRun, showState, lateAcks, remoteRow, queue, worker,
                   epochs, faults>>

\* The stop call times out; its request may still be on its way.
StopHangs_Never == FALSE   \* Fault: the call has no timeout.
StopHangs == stopCall = "waiting" /\ stops \notin stopNet /\ stopRun # stops

StopGivesUp ==
    /\ HomeFree
    /\ stopCall # "idle"
    /\ IF StopHangs THEN UNCHANGED faults ELSE faults < MaxFaults /\ faults' = faults + 1
    /\ stopCall' = "idle"
    /\ home' = IF home.worker = "stopping" THEN [home EXCEPT !.worker = "stop_unknown"] ELSE home
    /\ stopNet' \in {stopNet, stopNet \ {stops}}
    /\ UNCHANGED <<workerEpoch, asking, relayRows, mailRows, syncMemory, startState, stops, stopRun,
                   showState, lateAcks, remoteRow, queue, worker, epochs>>

\* orchestration.workerAbandon
AbandonWorkerDispatch ==
    /\ HomeFree
    /\ home.worker \in {"starting", "start_unknown", "ready", "stop_unknown"}
    /\ home' = [task |-> Interrupted(home.task), dispatch |-> DispatchFailed, worker |-> "abandoned"]
    /\ asking' = FALSE
    /\ UNCHANGED <<workerEpoch, relayRows, mailRows, syncMemory, startState, stopState, showState,
                   lateAcks, remoteRow, queue, worker, epochs, faults>>

Fence == <<home, workerEpoch, peerEpoch>>

\* orchestration.workerShow captures the home rows before it asks the host.
BeginShow ==
    /\ HomeFree
    /\ show.phase = "idle" /\ shows < MaxShows /\ home.worker # "none"
    /\ shows' = shows + 1
    /\ show' = [NotShowing EXCEPT !.phase = "asked", !.fence = Fence]
    /\ EnsureRelay
    /\ UNCHANGED <<homeRows, relayRows, mailRows, sync, wanted, checkpoint, peer, startState, stopState, lateAcks,
                   remoteRow, queue, worker, epochs, faults>>

AnswerShow ==
    /\ show.phase = "asked" /\ attachment # "none"
    /\ show' = [show EXCEPT !.phase = "answered", !.state = attachment, !.stage = stage,
                            !.epoch = remoteEpoch]
    /\ UNCHANGED <<homeRows, relayRows, mailRows, syncMemory, startState, stopState, shows, lateAcks,
                   remoteRow, queue, worker, epochs, faults>>

\* The host reported an outcome the relay still has to bring home.
ReportQueued ==
    \/ show.state = "succeeded"
    \/ show.state = "failed" /\ show.stage = "worker_report_queued"

\* Fault: whatever the poll saw is projected, however old it is by now.
ShowMatches_Always == TRUE

ShowMatches == show.fence = Fence

\* What the poll saw is projected only over the very rows it started from.
ProjectShow ==
    /\ HomeFree
    /\ show.phase = "answered"
    /\ show' = NotShowing
    /\ LET stopped == show.state = "stopped" /\ home.worker \in {"stopping", "stop_unknown"}
           started == /\ ~stopped /\ ~ReportQueued
                      /\ show.state \in {"ready", "failed", "stopped", "start_unknown"}
                      /\ home.worker \in {"starting", "start_unknown"}
       IN  IF ShowMatches
           THEN /\ home' = IF stopped THEN StopSettled
                           ELSE IF started THEN StartSettled(show.state) ELSE home
                /\ asking' = IF started /\ show.state \in {"failed", "stopped"} THEN FALSE
                                                                                ELSE asking
                /\ peerEpoch' = show.epoch
           ELSE UNCHANGED <<home, asking, peerEpoch>>
    /\ wanted' = (wanted \/ ReportQueued)
    /\ UNCHANGED <<workerEpoch, mailbox, imported, acked, mailRows, sync, checkpoint, peer, polled,
                   startState, stopState, shows, lateAcks, remoteRow, queue, worker, epochs, faults>>

LoseShow ==
    /\ HomeFree
    /\ show.phase # "idle"
    /\ IF show.phase = "asked" /\ attachment = "none" THEN UNCHANGED faults
       ELSE faults < MaxFaults /\ faults' = faults + 1
    /\ show' = NotShowing
    /\ UNCHANGED <<homeRows, relayRows, mailRows, syncMemory, startState, stopState, shows, lateAcks,
                   remoteRow, queue, worker, epochs>>
-----------------------------------------------------------------------------
(***************************************************************************)
(* What the worker says, on the paired host                                *)
(***************************************************************************)
Unacked == {n \in DOMAIN items : ~items[n].acked}
UnackedOf(k) == {n \in Unacked : items[n].kind = k}
First(S) == CHOOSE n \in S : \A m \in S : n <= m

\* An older peer settles its attachment as it queues the report.
QueueSettles(outcome) ==
    IF SettlesAtHome \/ outcome = "none"
    THEN UNCHANGED remoteRow
    ELSE /\ attachment = "ready"
         /\ attachment' = outcome /\ stage' = "worker_report_queued" /\ capability' = FALSE

\* A full queue makes room for a report only, and only where a heartbeat was.
Replaceable(kind) == IF kind = "worker_done" THEN UnackedOf("heartbeat") ELSE {}

Put(kind, outcome, n) ==
    items' = [m \in 1 .. (IF n > Len(items) THEN n ELSE Len(items)) |->
        IF m = n THEN [kind |-> kind, outcome |-> outcome, acked |-> FALSE] ELSE items[m]]

\* enqueueFederationRelay: a heartbeat overwrites the one still queued, a report
\* that is queued already is not queued again, and anything else is appended or
\* refused by the quota.
Enqueue(kind, outcome, n) ==
    \/ /\ kind = "heartbeat" /\ n \in UnackedOf("heartbeat") /\ UNCHANGED items
    \/ /\ kind = "worker_done" /\ n \in UnackedOf("worker_done") /\ items[n].outcome = outcome
       /\ UNCHANGED items
    \/ /\ kind = "heartbeat" => UnackedOf("heartbeat") = {}
       /\ IF Cardinality(Unacked) < QUOTA
          THEN n = Len(items) + 1 /\ n <= MaxSequence
          ELSE Replaceable(kind) # {} /\ n = First(Replaceable(kind))
       /\ Put(kind, outcome, n)

\* orchestration.send from the worker's own pane with its capability.  A report
\* then waits for the verdict of the Run home, or is its own verdict.
WorkerSends(kind, outcome) ==
    /\ capability
    /\ kind \in Sends
    /\ (kind = "worker_done") <=> (outcome # "none")
    /\ \E n \in 1 .. MaxSequence :
        /\ Enqueue(kind, outcome, n)
        /\ waiting' = IF kind = "worker_done" /\ SettlesAtHome THEN n ELSE waiting
        /\ told' = IF kind = "worker_done"
                   THEN [sequence |-> n,
                         action |-> IF SettlesAtHome THEN "nothing" ELSE outcome]
                   ELSE told
    /\ QueueSettles(outcome)
    /\ UNCHANGED <<homeRows, relayRows, mailRows, syncMemory, startState, stopState, showState,
                   lateAcks, receipts, epochs, faults>>

\* The wait for the verdict ends after 30 seconds, or with the caller.
StopWaiting ==
    /\ waiting # 0
    /\ waiting' = 0 /\ told' = [told EXCEPT !.action = "unknown"]
    /\ UNCHANGED <<homeRows, relayRows, mailRows, syncMemory, startState, stopState, showState,
                   lateAcks, remoteRow, queue, epochs, faults>>

\* The setup script of the worktree ends and says so, with no capability.
ReportSetup ==
    /\ "status" \in Sends
    /\ attachment = "ready" \/ stage # "none"
    /\ Enqueue("status", "none", Len(items) + 1)
    /\ UNCHANGED <<homeRows, relayRows, mailRows, syncMemory, startState, stopState, showState,
                   lateAcks, receipts, remoteRow, worker, epochs, faults>>
-----------------------------------------------------------------------------
(***************************************************************************)
(* One sync of the relay                                                   *)
(***************************************************************************)
syncFrame == <<homeRows, mailbox, imported, mailRows, startState, stopState, showState,
               remoteRow, queue, worker, epochs, polled>>

\* The peer's cached answer stands for the runtime last seen there; only a
\* negative answer expires.
Cached == peer.epoch # 0

\* Each page starts from a fresh read of the row, then learns what the peer supports.
Page(n) ==
    [NotSyncing EXCEPT !.phase = IF SettlesAtHome /\ ~Cached THEN "probing" ELSE "pulling",
        !.pages = n, !.imported = imported, !.acked = acked, !.peerEpoch = peerEpoch,
        !.capability = IF SettlesAtHome THEN peer ELSE NoCapability]

\* A tick of the timer, or whoever waits for a sync after the current one.
BeginSync ==
    /\ sync.phase = "idle"
    /\ (polled /\ RelayEligible) \/ wanted
    /\ sync' = Page(MAX_PAGES)
    /\ wanted' = FALSE
    /\ UNCHANGED <<syncFrame, acked, peerEpoch, checkpoint, peer, lateAcks, faults>>

\* A tick that finds nothing left to poll for.
StopPolling ==
    /\ HomeFree
    /\ polled /\ ~RelayEligible
    /\ polled' = FALSE
    /\ UNCHANGED <<homeRows, relayRows, mailRows, sync, wanted, checkpoint, peer, startState,
                   stopState, showState, lateAcks, remoteRow, queue, worker, epochs, faults>>

\* orchestration.check, and a replayed mutation: nothing here but the timer.
CheckMail ==
    /\ HomeFree
    /\ ~polled /\ RelayEligible
    /\ EnsureRelay
    /\ UNCHANGED <<homeRows, relayRows, mailRows, sync, wanted, checkpoint, peer, startState,
                   stopState, showState, lateAcks, remoteRow, queue, worker, epochs, faults>>

AnswerProbe ==
    /\ sync.phase = "probing"
    /\ LET answer == [epoch |-> remoteEpoch, supported |-> advertises]
       IN sync' = [sync EXCEPT !.phase = "pulling", !.capability = answer] /\ peer' = answer
    /\ UNCHANGED <<syncFrame, acked, peerEpoch, wanted, checkpoint, lateAcks, faults>>

ExpireCapability ==
    /\ peer.epoch # 0 /\ ~peer.supported
    /\ peer' = NoCapability
    /\ UNCHANGED <<syncFrame, acked, peerEpoch, sync, wanted, checkpoint, lateAcks, faults>>

Supported == SettlesAtHome /\ sync.capability.supported

\* Fault: a page always follows the last import.
Replays_Never == FALSE

Replays == Supported \/ (SettlesAtHome /\ sync.acked < sync.imported)

\* A page of the queue, in sequence order: what is not acknowledged, or what
\* follows the last import.
Asked == IF Replays THEN Unacked ELSE {n \in DOMAIN items : n > sync.imported}
Wire(n) == [sequence |-> n, kind |-> items[n].kind, outcome |-> items[n].outcome]

\* orchestration.federationPull
AnswerPull ==
    /\ sync.phase = "pulling" /\ attachment # "none"
    /\ LET from == IF Asked = {} THEN 1 ELSE First(Asked)
           size == IF Cardinality(Asked) < PAGE_SIZE THEN Cardinality(Asked) ELSE PAGE_SIZE
       IN  sync' = [sync EXCEPT !.phase = "paged", !.epoch = remoteEpoch,
                                !.page = [i \in 1 .. size |-> Wire(from + i - 1)]]
    /\ UNCHANGED <<syncFrame, acked, peerEpoch, wanted, checkpoint, peer, lateAcks, faults>>

BeginImport ==
    /\ sync.phase = "paged"
    /\ sync' = [sync EXCEPT !.phase = "importing", !.next = 1,
            !.cursor = IF Replays /\ sync.page # << >> THEN sync.page[1].sequence - 1
                                                        ELSE sync.imported]
    /\ UNCHANGED <<syncFrame, acked, peerEpoch, wanted, checkpoint, peer, lateAcks, faults>>

Incoming == sync.page[sync.next]
Duplicate == Incoming.sequence <= imported
Known == <<Incoming.sequence, Incoming.kind>> \in mailbox

\* A verdict counts only if the runtime that said it settles reports at home is
\* the one the page came from.
SameRuntime == sync.capability.epoch = sync.epoch

Importable ==
    /\ Incoming.sequence = sync.cursor + 1
    /\ Duplicate => Known
    /\ ~Duplicate => Incoming.sequence = imported + 1

\* importFederatedRelayItem, and what the loop around it remembers of the item.
ImportItem ==
    /\ sync.phase = "importing" /\ sync.next <= Len(sync.page)
    /\ Importable
    /\ LET item == Incoming
           report == item.kind = "worker_done"
           verdict == VerdictOn(item.outcome)
           settles == report /\ verdict # "rejected" /\ ~SettledAlready(item.outcome)
           kept == report /\ Supported /\ SameRuntime
           bars == sync.barrier = 0 /\ SettlesAtHome /\ report /\ ~kept
       IN  /\ mailbox' = mailbox \cup {<<item.sequence, item.kind>>}
           /\ imported' = IF Duplicate THEN imported ELSE item.sequence
           /\ home' = IF settles THEN Reported(item.outcome) ELSE home
           /\ asking' = IF settles THEN FALSE
                        ELSE asking \/ (item.kind = "question" /\ ~Duplicate)
           /\ sync' = [sync EXCEPT !.next = @ + 1, !.cursor = item.sequence,
                  !.verdicts = IF kept
                               THEN @ \cup {[sequence |-> item.sequence, action |-> verdict]}
                               ELSE @,
                  !.barrier = IF bars THEN item.sequence ELSE @]
    /\ UNCHANGED <<workerEpoch, acked, peerEpoch, mailRows, startState, stopState, showState,
                   remoteRow, queue, worker, epochs, wanted, checkpoint, peer, polled, lateAcks,
                   faults>>

\* A gap, or a sequence that was imported as another message, ends the sync.
RefuseItem ==
    /\ sync.phase = "importing" /\ sync.next <= Len(sync.page)
    /\ ~Importable
    /\ sync' = NotSyncing
    /\ UNCHANGED <<syncFrame, acked, peerEpoch, wanted, checkpoint, peer, lateAcks, faults>>

\* How far the page may be acknowledged: never past a report without a verdict.
AckCursor == IF sync.barrier # 0 THEN sync.barrier - 1 ELSE sync.cursor

AckedBefore ==
    LET durable == IF sync.peerEpoch = sync.epoch THEN sync.acked ELSE 0
        remembered == IF checkpoint.epoch = sync.epoch THEN checkpoint.through ELSE 0
    IN  IF durable > remembered THEN durable ELSE remembered

\* Fault: mail goes out only after something came in.
Pushes_AfterNews == home.worker = "ready" /\ outboxAcked < outbox /\ sync.page # << >>

Pushes == home.worker = "ready" /\ outboxAcked < outbox

\* What follows the acknowledgement: note the epoch, then push the worker's mail.
AfterAck ==
    /\ peer' = IF peer.epoch = sync.epoch THEN peer ELSE NoCapability
    /\ peerEpoch' = sync.epoch
    /\ sync' = [sync EXCEPT !.phase = IF Pushes THEN "pushing" ELSE "pushed",
                            !.through = outbox]

\* Fault: the watermark is recorded as the acknowledgement is sent.
FinishImport_RecordFirst ==
    /\ sync.phase = "importing" /\ sync.next > Len(sync.page)
    /\ IF AckCursor > AckedBefore
       THEN /\ sync' = [sync EXCEPT !.phase = "acking", !.through = AckCursor]
            /\ acked' = AckCursor
            /\ UNCHANGED <<peer, peerEpoch>>
       ELSE AfterAck /\ UNCHANGED acked
    /\ UNCHANGED <<syncFrame, wanted, checkpoint, lateAcks, faults>>

FinishImport ==
    /\ sync.phase = "importing" /\ sync.next > Len(sync.page)
    /\ IF AckCursor > AckedBefore
       THEN /\ sync' = [sync EXCEPT !.phase = "acking", !.through = AckCursor]
            /\ UNCHANGED <<peer, peerEpoch>>
       ELSE AfterAck
    /\ UNCHANGED <<syncFrame, acked, wanted, checkpoint, lateAcks, faults>>

\* acknowledgeFederationRelay: every verdict names a queued report and does not
\* contradict it, no report goes without one, and the worker can still take it.
AckAcceptable(through, verdicts) ==
    LET terminal == {v.action : v \in verdicts} \ {"rejected"}
    IN  /\ \A v \in verdicts :
            /\ items[v.sequence].kind = "worker_done"
            /\ v.action \in {items[v.sequence].outcome, "rejected"}
        /\ SettlesAtHome =>
            \A n \in UnackedOf("worker_done") : n <= through => \E v \in verdicts : v.sequence = n
        /\ Cardinality(terminal) <= 1
        /\ terminal \subseteq {attachment} \/ attachment = "ready"

\* Fault: an acknowledgement covers whatever the queue holds by now.
Acknowledge_WholeQueue(through, verdicts) ==
    /\ items' = [n \in DOMAIN items |-> [items[n] EXCEPT !.acked = TRUE]]
    /\ UNCHANGED <<remoteRow, worker>>

\* Fault: a verdict settles the worker as its report said.
Acknowledge_AsReported(through, verdicts) ==
    /\ items' = [n \in DOMAIN items |-> [items[n] EXCEPT !.acked = @ \/ n <= through]]
    /\ IF verdicts = {} \/ attachment # "ready" THEN UNCHANGED remoteRow
       ELSE /\ attachment' \in {items[v.sequence].outcome : v \in verdicts}
            /\ stage' = "worker_report_settled" /\ capability' = FALSE
    /\ UNCHANGED worker

Acknowledge(through, verdicts) ==
    LET terminal == {v.action : v \in verdicts} \ {"rejected"}
        mine == {v \in verdicts : v.sequence = waiting}
    IN  /\ items' = [n \in DOMAIN items |-> [items[n] EXCEPT !.acked = @ \/ n <= through]]
        /\ IF terminal = {} \/ attachment # "ready" THEN UNCHANGED remoteRow
           ELSE /\ attachment' \in terminal
                /\ stage' = "worker_report_settled" /\ capability' = FALSE
        /\ IF mine = {} THEN UNCHANGED worker
           ELSE /\ waiting' = 0
                /\ told' \in mine

\* The acknowledgement a sync sends.  Its request is named after the last item
\* of the page, not after what it acknowledges.
UpTo(through, verdicts) == {v \in verdicts : v.sequence <= through}
Sent == [request |-> sync.cursor, through |-> sync.through,
         verdicts |-> UpTo(sync.through, sync.verdicts)]

\* A request completed before under the same name is replayed if it is the same
\* in every detail, and refused otherwise.
Mismatched(ack) == \E done \in receipts : done.request = ack.request /\ done # ack
Taken(ack) ==
    \/ ack \in receipts
    \/ ~Mismatched(ack) /\ AckAcceptable(ack.through, ack.verdicts)

\* orchestration.federationAck
TakeAck(ack) ==
    IF ack \in receipts THEN UNCHANGED <<remoteRow, queue, worker>>
    ELSE Acknowledge(ack.through, ack.verdicts) /\ receipts' = receipts \cup {ack}

AnswerAck ==
    /\ sync.phase = "acking"
    /\ Taken(Sent) /\ TakeAck(Sent)
    /\ sync' = [sync EXCEPT !.phase = "acked"]
    /\ UNCHANGED <<homeRows, relayRows, mailRows, startState, stopState, showState, epochs,
                   wanted, checkpoint, peer, polled, lateAcks, faults>>

\* The host refuses the acknowledgement; nothing of it is kept.
RefuseAck ==
    /\ sync.phase = "acking" /\ ~Taken(Sent)
    /\ sync' = NotSyncing
    /\ UNCHANGED <<syncFrame, acked, peerEpoch, wanted, checkpoint, peer, lateAcks, faults>>

\* The last page of a long backlog leaves one item unacknowledged, so that the
\* relay stays eligible.
Watermark(through) ==
    IF Len(sync.page) = PAGE_SIZE /\ sync.pages = 1 THEN through - 1 ELSE through

\* Fault: the watermark is kept in memory only.
RecordAck_CheckpointOnly ==
    /\ sync.phase = "acked"
    /\ checkpoint' = [epoch |-> sync.epoch, through |-> Watermark(sync.through)]
    /\ AfterAck
    /\ UNCHANGED <<syncFrame, acked, wanted, lateAcks, faults>>

\* recordFederatedHomeAcknowledgment and the checkpoint beside it.
RecordAck ==
    /\ sync.phase = "acked"
    /\ LET through == Watermark(sync.through)
       IN  /\ acked' = IF peerEpoch = sync.epoch /\ acked > through THEN acked ELSE through
           /\ checkpoint' = IF checkpoint.epoch = sync.epoch /\ checkpoint.through >= through
                            THEN checkpoint ELSE [epoch |-> sync.epoch, through |-> through]
    /\ AfterAck
    /\ UNCHANGED <<syncFrame, wanted, lateAcks, faults>>

\* orchestration.federationImport: apply what is new, in order, to a ready worker.
AnswerPush ==
    /\ sync.phase = "pushing"
    /\ delivered >= sync.through \/ attachment = "ready"
    /\ delivered' = IF delivered >= sync.through THEN delivered ELSE sync.through
    /\ sync' = [sync EXCEPT !.phase = "mailed", !.through = delivered']
    /\ UNCHANGED <<homeRows, relayRows, outbox, outboxAcked, startState, stopState, showState,
                   remoteRow, queue, worker, epochs, wanted, checkpoint, peer, polled, lateAcks,
                   faults>>

\* The home notes what the worker's host has.
RecordPush ==
    /\ sync.phase = "mailed"
    /\ outboxAcked' = sync.through
    /\ sync' = [sync EXCEPT !.phase = "pushed"]
    /\ UNCHANGED <<homeRows, relayRows, outbox, delivered, startState, stopState, showState,
                   remoteRow, queue, worker, epochs, wanted, checkpoint, peer, polled, lateAcks,
                   faults>>

RefusePush ==
    /\ sync.phase = "pushing"
    /\ delivered < sync.through /\ attachment # "ready"
    /\ sync' = NotSyncing
    /\ UNCHANGED <<syncFrame, acked, peerEpoch, wanted, checkpoint, peer, lateAcks, faults>>

\* Fault: pages follow each other without a limit.
EndPage_Unlimited ==
    /\ sync.phase = "pushed"
    /\ sync' = IF Len(sync.page) = PAGE_SIZE /\ sync.barrier = 0 THEN Page(sync.pages - 1)
                                                                ELSE NotSyncing
    /\ UNCHANGED <<syncFrame, acked, peerEpoch, wanted, checkpoint, peer, lateAcks, faults>>

\* A full page is followed by another, unless a report bars the way.
EndPage ==
    /\ sync.phase = "pushed"
    /\ sync' = IF Len(sync.page) = PAGE_SIZE /\ sync.pages > 1 /\ sync.barrier = 0
               THEN Page(sync.pages - 1) ELSE NotSyncing
    /\ checkpoint' = IF sync'.phase = "idle" /\ ~RelayEligible THEN [epoch |-> 0, through |-> 0]
                                                               ELSE checkpoint
    /\ UNCHANGED <<syncFrame, acked, peerEpoch, wanted, peer, lateAcks, faults>>

\* A call of the sync fails or times out.  An acknowledgement the caller has
\* given up on may still be on the wire, or may have been handled.
LoseSyncCall ==
    /\ sync.phase \in {"probing", "pulling", "paged", "acking", "acked", "pushing", "mailed"}
    /\ IF sync.phase = "pulling" /\ attachment = "none"
       THEN UNCHANGED faults   \* the host knows no such attachment
       ELSE faults < MaxFaults /\ faults' = faults + 1
    /\ sync' = NotSyncing
    /\ lateAcks' \in IF sync.phase = "acking" THEN {lateAcks, lateAcks \cup {Sent}} ELSE {lateAcks}
    /\ UNCHANGED <<syncFrame, acked, peerEpoch, wanted, checkpoint, peer>>

LateAck ==
    \E ack \in lateAcks :
        /\ lateAcks' = lateAcks \ {ack}
        /\ IF Taken(ack) THEN TakeAck(ack) ELSE UNCHANGED <<remoteRow, queue, worker>>
        /\ UNCHANGED <<homeRows, relayRows, mailRows, syncMemory, startState, stopState, showState,
                       epochs, faults>>
-----------------------------------------------------------------------------
(***************************************************************************)
(* Mail for the worker, and restarts                                       *)
(***************************************************************************)
\* A message to a live federated worker, or the answer to its question.
SendControlMail ==
    /\ HomeFree
    /\ Protocol >= 2 /\ home.worker = "ready" /\ outbox < MaxMail
    /\ outbox' = outbox + 1
    /\ EnsureRelay
    /\ UNCHANGED <<homeRows, relayRows, outboxAcked, delivered, sync, wanted, checkpoint, peer,
                   startState, stopState, showState, lateAcks, remoteRow, queue, worker, epochs, faults>>

AnswerQuestion ==
    /\ HomeFree
    /\ asking /\ outbox < MaxMail
    /\ asking' = FALSE /\ outbox' = outbox + 1
    /\ EnsureRelay
    /\ UNCHANGED <<home, workerEpoch, relayRows, outboxAcked, delivered, sync, wanted, checkpoint,
                   peer, startState, stopState, showState, lateAcks, remoteRow, queue, worker, epochs, faults>>

\* Fault: a runtime that opens the database leaves its relays to who asks next.
Reopened_Unpolled == FALSE

\* getOrchestrationDb: opening the database starts the relays it lists.  A runtime
\* does so as it starts, before it reads or writes any of these rows.
Reopened == RelayEligible

\* Every call and every memory of the home dies with it; requests may survive.
HomeRestart ==
    /\ epoch < MaxEpoch /\ epoch' = epoch + 1
    /\ faults < MaxFaults /\ faults' = faults + 1
    /\ sync' = NotSyncing /\ wanted' = FALSE /\ polled' = Reopened
    /\ checkpoint' = [epoch |-> 0, through |-> 0] /\ peer' = NoCapability
    /\ startCall' = "idle" /\ stopCall' = "idle" /\ show' = NotShowing
    /\ UNCHANGED <<homeRows, relayRows, mailRows, attach, stops, stopNet, stopRun, shows, lateAcks,
                   remoteRow, queue, worker, remoteEpoch, advertises>>

\* The handlers of the paired host die with it; its rows stay as they are.  The
\* runtime that follows may be an older build.
RemoteRestart ==
    /\ remoteEpoch < MaxRemoteEpoch /\ remoteEpoch' = remoteEpoch + 1
    /\ faults < MaxFaults /\ faults' = faults + 1
    /\ advertises' \in IF SettlesAtHome THEN BOOLEAN ELSE {FALSE}
    /\ attach' = IF attach = "running" THEN "none" ELSE attach
    /\ stopRun' = 0 /\ waiting' = 0
    /\ told' = IF waiting # 0 THEN [told EXCEPT !.action = "unknown"] ELSE told
    /\ UNCHANGED <<homeRows, relayRows, mailRows, syncMemory, startCall, stopCall, stops, stopNet,
                   showState, lateAcks, remoteRow, queue, epoch>>
-----------------------------------------------------------------------------
HomeStep ==
    \/ CreateTask \/ StartWorker \/ StartAnswered \/ StartGivesUp
    \/ BeginWorkerStop \/ StopAnswered \/ StopGivesUp \/ AbandonWorkerDispatch
    \/ BeginShow \/ ProjectShow \/ LoseShow \/ SendControlMail \/ AnswerQuestion \/ CheckMail

RemoteStep ==
    \/ CreateRemoteDispatchAttachment \/ PrepareRemoteAttachmentAuthority
    \/ MarkRemoteAttachmentReady \/ FailRemoteAttachment
    \/ BeginRemoteAttachmentStop \/ SettleRemoteAttachmentStop \/ AnswerShow
    \/ \E kind \in Sends : \E outcome \in Outcomes \cup {"none"} : WorkerSends(kind, outcome)
    \/ StopWaiting \/ ReportSetup \/ LateAck

SyncStep ==
    \/ BeginSync \/ AnswerProbe \/ ExpireCapability \/ AnswerPull \/ BeginImport
    \/ ImportItem \/ RefuseItem \/ FinishImport \/ AnswerAck \/ RefuseAck \/ RecordAck
    \/ AnswerPush \/ RecordPush \/ RefusePush \/ EndPage \/ LoseSyncCall \/ StopPolling

Next == HomeStep \/ RemoteStep \/ SyncStep \/ HomeRestart \/ RemoteRestart

Spec == Init /\ [][Next]_vars

(***************************************************************************)
(* Fairness.  A timer that was started ticks, and a tick begins a sync or  *)
(* ends the timer; a sync that has begun runs on until a call is lost; a   *)
(* handler of the paired host ends; what answers a call, or times it out,  *)
(* reaches the home event loop although imports keep it busy now and then. *)
(* Nothing is assumed of who starts the timer, nor of the worker, of its   *)
(* operator, or of faults: a relay nobody asked for is not polled.         *)
(***************************************************************************)
SyncRuns ==
    \/ BeginSync \/ AnswerProbe \/ AnswerPull \/ BeginImport \/ ImportItem \/ RefuseItem
    \/ FinishImport \/ AnswerAck \/ RefuseAck \/ RecordAck \/ AnswerPush \/ RecordPush \/ RefusePush
    \/ EndPage \/ StopPolling
    \/ LoseSyncCall /\ UNCHANGED faults

AttachRuns ==
    \/ CreateRemoteDispatchAttachment \/ PrepareRemoteAttachmentAuthority
    \/ MarkRemoteAttachmentReady \/ FailRemoteAttachment

StopRuns == BeginRemoteAttachmentStop \/ SettleRemoteAttachmentStop

FairSpec ==
    /\ Spec
    /\ WF_vars(SyncRuns) /\ WF_vars(AttachRuns) /\ WF_vars(StopRuns)
    /\ SF_vars(StartAnswered) /\ SF_vars(StartGivesUp /\ StartHangs)
    /\ SF_vars(StopAnswered) /\ SF_vars(StopGivesUp /\ StopHangs)
-----------------------------------------------------------------------------
(***************************************************************************)
(* What the relay and the calls promise                                    *)
(***************************************************************************)
\* The paired host forgets nothing the home has not stored: whatever it counts
\* as acknowledged is in the mailbox, through lost answers, late acknowledgements,
\* a full queue and restarts of either side (federation-sync.ts, federation-relay-ack.ts).
NoAckedItemLost ==
    \A n \in DOMAIN items : items[n].acked => <<n, items[n].kind>> \in mailbox

\* Each sequence is imported once, without a gap, and still names the message
\* that was imported (federation-relay-import.ts): else a replay of it is refused
\* for ever.
MailboxMirrorsQueue ==
    mailbox = {<<n, items[n].kind>> : n \in 1 .. imported}

\* The paired host settles an attachment from an acknowledgement only as the Run
\* home settled the worker, however late that acknowledgement arrives
\* (federation-relay-ack.ts, "worker_report_settled").
VerdictComesFromHome ==
    stage = "worker_report_settled" => home.worker = attachment

\* A worker that is told its report completed or failed the task is told what
\* the home rows say, whichever runtime answered the probe, the pull and the
\* acknowledgement (send-remote.ts, federation-lifecycle-settlement.ts).
WorkerIsToldTheTruth ==
    SettlesAtHome /\ told.action \in Outcomes => home.worker = told.action

\* The home never believes more acknowledged than was: below its watermark
\* nothing is left to replay, so the relay may stop there
\* (federation-sync.ts, recordFederatedHomeAcknowledgment).
WatermarkIsCovered ==
    /\ acked <= imported
    /\ \A n \in 1 .. acked : items[n].acked

\* A poll never replaces what the home knows of the peer's runtime by an older
\* observation (federated-dispatch-observation-fence.ts).
PollNeverRewindsPeer == [][ProjectShow => peerEpoch' >= peerEpoch]_vars

\* A worker whose host settled it as reported runs on at home only while the
\* relay still has that report to bring (worker-dispatch-stop.ts, stage
\* "remote_report_pending").
ResumedWorkerHasReport ==
    home.worker = "ready" /\ attachment \in Outcomes =>
        \E n \in DOMAIN items : n > imported /\ items[n].kind = "worker_done"

\* An acknowledgement that is sent again because its answer was lost is accepted
\* (federation-sync.ts and the receipts of orchestration-mutation-executor.ts).
RetriedAckIsAccepted ==
    sync.phase = "acking" /\ (\A n \in 1 .. sync.through : items[n].acked) => Taken(Sent)

\* A stop or a start in flight ends, in a settled or an unknown state, unless
\* the runtime that made the call is gone (worker-stop.ts, federated-worker-start.ts).
InFlight(state) == home.worker = state /\ workerEpoch = epoch
StopIsDecided == InFlight("stopping") ~> ~InFlight("stopping")
StartIsDecided == InFlight("starting") ~> ~InFlight("starting")

\* The relay of a ready worker has its timer, through restarts of the home and
\* whichever call found the worker ready: only a stop that resumes a worker whose
\* host has its report already leaves it to the one sync it asks for
\* (runtime-orchestration-federation.ts ensureRelay and its callers).
ReadyWorkerIsPolled == home.worker = "ready" => polled \/ attachment \in Outcomes

\* A report the worker queued reaches the home while the home still waits for
\* that worker, once anything has started its relay (federation-sync.ts and the
\* timer of runtime-orchestration-federation.ts).
ReportComesHome ==
    \A n \in 1 .. MaxSequence :
        (polled /\ n \in DOMAIN items /\ items[n].kind = "worker_done") ~>
            (n <= imported \/ home.worker \notin WorkerUnsettled)

\* The verdict on a report the home has imported while it polls reaches the
\* paired host, for as long as the attachment waits for one and its runtime takes
\* verdicts (federation-sync.ts, federation-relay-ack.ts).
ReportIsAnswered ==
    \A n \in 1 .. MaxSequence :
        (polled /\ n <= imported /\ n \in DOMAIN items /\ items[n].kind = "worker_done") ~>
            (n \notin Unacked \/ attachment # "ready" \/ ~advertises)

\* Mail for the worker is delivered, and known to be, while both sides hold it
\* ready and the home polls (federation-sync.ts, orchestration.federationImport).
MailIsDelivered ==
    \A n \in 1 .. MaxMail :
        (polled /\ outbox >= n) ~>
            (outboxAcked >= n \/ home.worker # "ready" \/ attachment # "ready")

\* The timer of a settled worker ends: what a polled relay has imported ends up
\* acknowledged on both sides (runtime-orchestration-federation.ts, tick).
RelayComesToRest == <>[](home.worker \notin WorkerUnsettled) => <>[]~polled
=============================================================================
