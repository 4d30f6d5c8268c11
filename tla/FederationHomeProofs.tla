------------------------- MODULE FederationHomeProofs -------------------------
(***************************************************************************)
(* The home rows of a federated Dispatch implement the attempt lifecycle,  *)
(* for every protocol version, page size, quota and bound: the initial     *)
(* rows are its initial state, and a step leaves them alone or is one of   *)
(* its transactions.  What the refinement needs of a step beside its guard *)
(* is the invariant of the federation.                                     *)
(***************************************************************************)
EXTENDS FederationHome, FederationVerdictProofs

\* The rows as one task, one dispatch and one worker.
Task(s) == [t \in {OneTask} |-> s]
Row(s) == [d \in {1} |-> s]

LEMMA OneRow ==
    /\ Attempt!Dispatches = {1} /\ Attempt!Gates = {}
    /\ Attempt!Rivals(1) = {}
<1>1. 1 .. 1 = {1} /\ 1 .. 0 = {}
  OBVIOUS
<1>2. Attempt!Dispatches = {1} /\ Attempt!Gates = {}
  BY <1>1 DEF Attempt!Dispatches, Attempt!Gates
<1>3. Attempt!Rivals(1) = {}
  BY <1>2 DEF Attempt!Rivals, Attempt!ActiveOf
<1> QED BY <1>2, <1>3

LEMMA Reads ==
    /\ Attempt!Active(1) <=> Active
    /\ Attempt!Supervised(1) <=> home.worker # "none"
    /\ Attempt!TaskTerminal = TaskTerminal /\ Attempt!TaskStatuses = TaskStatuses
BY DEF Attempt!Active, Active, Attempt!DispatchActive, DispatchActive, Attempt!Supervised,
       Attempt!TaskTerminal, TaskTerminal, Attempt!TaskStatuses, TaskStatuses

LEMMA Writes ==
    /\ \A s : Attempt!WithTask(OneTask, s) = Task(s)
    /\ \A s : Attempt!WithWorker(1, s) = Row(s)
    /\ \A s : Attempt!Settled({1}, s) = Row(s)
    /\ \A S : Attempt!Revoked(S) = Row("none")
    /\ \A s : Attempt!Promoted(Task(s), OneTask) = Task(s)
    /\ home.worker # "none" => Attempt!Reconciled(1) = Task(Interrupted(home.task))
<1>1. \A s : Attempt!WithTask(OneTask, s) = Task(s)
  BY DEF Attempt!WithTask, Task
<1>2. \A s : Attempt!WithWorker(1, s) = Row(s)
  BY DEF Attempt!WithWorker, Row
<1>3. \A s : Attempt!Settled({1}, s) = Row(s)
  BY OneRow DEF Attempt!Settled, Row
<1>4. \A S : Attempt!Revoked(S) = Row("none")
  BY OneRow DEF Attempt!Revoked, Row
<1>5. \A s : Attempt!Promoted(Task(s), OneTask) = Task(s)
  BY DEF Attempt!Promoted, Task
<1>6. ASSUME home.worker # "none" PROVE Attempt!Reconciled(1) = Task(Interrupted(home.task))
  BY <1>6, OneRow DEF Attempt!Reconciled, Task, Interrupted
<1> QED BY <1>1, <1>2, <1>3, <1>4, <1>5, <1>6

-----------------------------------------------------------------------------
(***************************************************************************)
(* What a step may do to the home rows, and the transaction that it is.    *)
(***************************************************************************)
Starting(s) ==
    /\ home.worker \in {"starting", "start_unknown"}
    /\ home' = StartSettled(s)
    /\ asking' = IF s \in {"failed", "stopped"} THEN FALSE ELSE asking
Stopped == home.worker \in {"stopping", "stop_unknown"} /\ home' = StopSettled /\ asking' = asking
Reporting(o) ==
    /\ Accepts(o)
    /\ home' = Reported(o) /\ asking' = FALSE

LEMMA StartingIsAttempt ==
    ASSUME HomeTyped, NEW s \in {"ready", "failed", "stopped", "start_unknown"}, Starting(s),
           UNCHANGED <<workerEpoch, epoch>>
    PROVE  Attempt!ReconcileFederatedWorkerStart(1, s)
<1> USE OneRow, Reads, Writes DEF Starting, Task, Row
<1>1. home' = StartSettled(s) /\ home.worker \in {"starting", "start_unknown"} /\ home'.worker = s
  BY DEF StartSettled
<1>2. CASE s = "ready"
  BY <1>1, <1>2 DEF StartSettled, Attempt!ReconcileFederatedWorkerStart
<1>3. CASE s = "start_unknown"
  BY <1>1, <1>3, HomeFields DEF StartSettled, Attempt!ReconcileFederatedWorkerStart
<1>4. CASE s \in {"failed", "stopped"}
  <2>1. asking' = FALSE
    BY <1>4
  <2>2. /\ home'.task = IF home.task \in {"dispatched", "blocked"} THEN "failed" ELSE home.task
        /\ home'.dispatch = IF Active THEN "failed" ELSE home.dispatch
    BY <1>1, <1>4 DEF StartSettled, DispatchFailed
  <2>3. Attempt!Reconciled(1) = Task(Interrupted(home.task))
    BY <1>1
  <2>4. Row(home'.dispatch) = IF Active THEN Row("failed") ELSE Row(home.dispatch)
    BY <2>2
  <2>5. Task(home'.task) = IF home.task \in {"dispatched", "blocked"} THEN Task("failed")
                                                                    ELSE Attempt!Reconciled(1)
    BY <2>2, <2>3 DEF Interrupted
  <2>6. (IF asking' THEN {1} ELSE {}) = (IF asking THEN {1} ELSE {}) \ {1}
    BY <2>1
  <2> QED BY <1>1, <1>4, <2>4, <2>5, <2>6, ZenonT(60) DEF Attempt!ReconcileFederatedWorkerStart
<1> QED BY <1>2, <1>3, <1>4

LEMMA StoppedIsAttempt ==
    ASSUME HomeTyped, Stopped, UNCHANGED <<workerEpoch, epoch>>
    PROVE  Attempt!ReconcileFederatedWorkerStop(1)
<1> USE OneRow, Reads, Writes DEF Stopped, Task, Row
<1>1. /\ home.worker \in {"stopping", "stop_unknown"} /\ home'.worker = "stopped" /\ asking' = asking
      /\ home'.task = Interrupted(home.task)
      /\ home'.dispatch = IF Active THEN "failed" ELSE home.dispatch
  BY DEF StopSettled, DispatchFailed
<1>2. Attempt!Reconciled(1) = Task(Interrupted(home.task))
  BY <1>1
<1>3. Row(home'.dispatch) = IF Active THEN Row("failed") ELSE Row(home.dispatch)
  BY <1>1
<1>4. Attempt!StopSettles(1)
  <2>1. Attempt!WithWorker(1, "stopped") = Row(home'.worker)
    BY <1>1
  <2>2. (IF Attempt!Active(1) THEN Attempt!Settled({1}, "failed") ELSE Row(home.dispatch)) = Row(home'.dispatch)
    BY <1>3
  <2>3. Attempt!Reconciled(1) = Task(home'.task)
    BY <1>1, <1>2
  <2> QED BY <1>1, <2>1, <2>2, <2>3 DEF Attempt!StopSettles
<1> QED BY <1>1, <1>4 DEF Attempt!ReconcileFederatedWorkerStop

LEMMA ReportingIsAttempt ==
    ASSUME HomeTyped, HomeInv, NEW o \in {"succeeded", "failed"}, Reporting(o),
           UNCHANGED <<workerEpoch, epoch>>
    PROVE  Attempt!SettleWorkerReport(1, o)
<1> USE OneRow, Reads, Writes
<1>1. /\ Accepts(o) /\ asking' = FALSE
      /\ home'.worker = o /\ home'.task = StatusOf(o) /\ home'.dispatch = StatusOf(o)
  BY DEF Reporting, Reported
<1>2. home.worker \in {"starting", "start_unknown", "ready"} /\ Active
  BY <1>1 DEF Accepts, Active, DispatchActive, HomeInv
<1>3. Attempt!MayReport(1)
  BY <1>2 DEF Attempt!MayReport
<1>4. \/ Attempt!Reconnecting(1) \/ Attempt!ReportingStart(1)
      \/ /\ home.dispatch = "dispatched" /\ home.task = "dispatched"
         /\ home.worker \in IF o = "succeeded" THEN {"none", "ready"}
                            ELSE {"none", "ready", "start_unknown", "starting"}
  BY <1>1, <1>2 DEF Accepts, Attempt!Reconnecting, Attempt!ReportingStart
<1>5. (IF asking THEN {1} ELSE {}) \ {1} = {} /\ {} \cup {1} = {1} /\ {} \ {1} = {}
  OBVIOUS
<1>6. Attempt!Promoted(Task(StatusOf(o)), OneTask) = Task(home'.task)
  BY <1>1
<1>7. Attempt!WithWorker(1, o) = Row(home'.worker) /\ Attempt!Settled({1}, StatusOf(o)) = Row(home'.dispatch)
  BY <1>1
<1>8. Attempt!Revoked({1}) = Row("none") /\ Attempt!WithTask(OneTask, StatusOf(o)) = Task(home'.task)
  BY <1>1
<1>9. home.worker # "none" /\ home'.worker # "none"
  BY <1>1, <1>2
<1> HIDE OneRow, Reads, Writes
<1>10. [d \in {1} |-> IF home.worker = "none" THEN "none" ELSE OneTask][1] = OneTask
  BY <1>9
<1> QED
  BY <1>1, <1>3, <1>4, <1>5, <1>6, <1>7, <1>8, <1>9, <1>10, OneRow, Reads
     DEF Attempt!SettleWorkerReport, StatusOf, Task, Row

LEMMA CreateTaskIsAttempt ==
    ASSUME HomeTyped, HomeInv, CreateTask
    PROVE  Attempt!CreateTask(OneTask)
<1>1. /\ home.task = "absent" /\ home'.task = "ready" /\ home'.worker = home.worker
      /\ home'.dispatch = home.dispatch /\ UNCHANGED <<workerEpoch, asking, epoch>>
  BY HomeFields DEF CreateTask, epochs
<1>2. Attempt!WithTask(OneTask, "ready") = Task(home'.task)
  BY <1>1, Writes
<1> QED BY <1>1, <1>2 DEF Attempt!CreateTask, Task

LEMMA StartWorkerIsAttempt ==
    ASSUME HomeTyped, HomeInv, StartWorker
    PROVE  Attempt!CreateStartingWorkerDispatch(1, OneTask, "federated")
<1>1. /\ home.task = "ready" /\ home.worker = "none" /\ home.dispatch = "absent"
      /\ home'.task = "dispatched" /\ home'.worker = "starting" /\ home'.dispatch = "pending"
      /\ workerEpoch' = epoch /\ UNCHANGED <<asking, epoch>>
  BY DEF StartWorker, epochs, HomeInv
<1>2. /\ Attempt!WithTask(OneTask, "dispatched") = Task(home'.task)
      /\ Attempt!WithWorker(1, "starting") = Row(home'.worker)
  BY <1>1, Writes
<1>3. /\ [[d \in {1} |-> home.dispatch] EXCEPT ![1] = "pending"] = Row(home'.dispatch)
      /\ [[d \in {1} |-> workerEpoch] EXCEPT ![1] = epoch] = Row(workerEpoch')
      /\ [[d \in {1} |-> IF home.worker = "none" THEN "none" ELSE OneTask] EXCEPT ![1] = OneTask]
            = [d \in {1} |-> IF home'.worker = "none" THEN "none" ELSE OneTask]
      /\ [[d \in {1} |-> IF home.worker = "none" THEN "none" ELSE "federated"] EXCEPT ![1] = "federated"]
            = [d \in {1} |-> IF home'.worker = "none" THEN "none" ELSE "federated"]
  BY <1>1 DEF Row
<1>4. Attempt!NextRow(1)
  BY <1>1 DEF Attempt!NextRow
<1> QED BY <1>1, <1>2, <1>3, <1>4 DEF Attempt!CreateStartingWorkerDispatch, Task, Row

LEMMA BeginStopIsAttempt ==
    ASSUME HomeTyped, HomeInv, BeginWorkerStop
    PROVE  Attempt!BeginWorkerStop(1)
<1>1. /\ \/ home.worker \in {"ready", "start_unknown"}
         \/ home.worker = "stopping" /\ workerEpoch # epoch
      /\ home'.task = Interrupted(home.task) /\ home'.worker = "stopping"
      /\ home'.dispatch = home.dispatch
      /\ workerEpoch' = epoch /\ asking' = FALSE /\ epoch' = epoch
  BY HomeFields DEF BeginWorkerStop, epochs
<1>2. /\ Attempt!Reconciled(1) = Task(home'.task)
      /\ Attempt!WithWorker(1, "stopping") = Row(home'.worker)
      /\ Attempt!Revoked({1}) = Row("none")
  BY <1>1, Writes
<1>3. /\ [[d \in {1} |-> workerEpoch] EXCEPT ![1] = epoch] = Row(workerEpoch')
      /\ (IF asking THEN {1} ELSE {}) \ {1} = {}
      /\ home.worker # "none" /\ home'.worker # "none"
  BY <1>1 DEF Row
<1> QED BY <1>1, <1>2, <1>3 DEF Attempt!BeginWorkerStop, Task, Row

LEMMA StopUnknownIsAttempt ==
    ASSUME HomeTyped, home.worker = "stopping", workerEpoch = epoch,
           home' = [home EXCEPT !.worker = "stop_unknown"], UNCHANGED <<workerEpoch, asking, epoch>>
    PROVE  Attempt!MarkWorkerStopUnknown(1)
<1>1. home'.worker = "stop_unknown" /\ home'.task = home.task /\ home'.dispatch = home.dispatch
  BY HomeFields
<1>2. Attempt!WithWorker(1, "stop_unknown") = Row(home'.worker)
  BY <1>1, Writes
<1>3. Attempt!StopInFlight(1)
  BY DEF Attempt!StopInFlight
<1> QED BY <1>1, <1>2, <1>3 DEF Attempt!MarkWorkerStopUnknown, Task, Row

LEMMA ResumedIsAttempt ==
    ASSUME HomeTyped, home.worker = "stopping", workerEpoch = epoch,
           home' = Resumed, UNCHANGED <<workerEpoch, asking, epoch>>
    PROVE  Attempt!ResumeFederatedWorkerForTerminalRelay(1)
<1>1. /\ home'.worker = "ready" /\ home'.dispatch = home.dispatch
      /\ home'.task = IF home.task = "blocked" THEN "dispatched" ELSE home.task
  BY HomeFields DEF Resumed
<1>2. /\ Attempt!WithWorker(1, "ready") = Row(home'.worker)
      /\ (IF home.task = "blocked" THEN Attempt!WithTask(OneTask, "dispatched") ELSE Task(home.task))
            = Task(home'.task)
  BY <1>1, Writes
<1>3. Attempt!StopInFlight(1)
  BY DEF Attempt!StopInFlight
<1> QED BY <1>1, <1>2, <1>3 DEF Attempt!ResumeFederatedWorkerForTerminalRelay, Task, Row

LEMMA AbandonIsAttempt ==
    ASSUME HomeTyped, HomeInv, AbandonWorkerDispatch
    PROVE  Attempt!AbandonWorkerDispatch(1)
<1>1. /\ home.worker \in {"starting", "start_unknown", "ready", "stop_unknown"}
      /\ home'.task = Interrupted(home.task) /\ home'.worker = "abandoned"
      /\ home'.dispatch = IF Active THEN "failed" ELSE home.dispatch
      /\ asking' = FALSE /\ UNCHANGED <<workerEpoch, epoch>>
  BY DEF AbandonWorkerDispatch, DispatchFailed, epochs
<1>2. /\ Attempt!Reconciled(1) = Task(home'.task)
      /\ Attempt!WithWorker(1, "abandoned") = Row(home'.worker)
      /\ (IF Attempt!Active(1) THEN Attempt!Revoked({1}) ELSE Row("none")) = Row("none")
  BY <1>1, Writes
<1>3. (IF Attempt!Active(1) THEN Attempt!Settled({1}, "failed") ELSE Row(home.dispatch)) = Row(home'.dispatch)
  BY <1>1, Writes, Reads
<1>4. (IF asking THEN {1} ELSE {}) \ {1} = {} /\ home.worker # "none" /\ home'.worker # "none"
  BY <1>1
<1>5. Attempt!MayAbandon(1)
  BY <1>1, OneRow DEF Attempt!MayAbandon, Attempt!LatestOf
<1> QED BY <1>1, <1>2, <1>3, <1>4, <1>5 DEF Attempt!AbandonWorkerDispatch, Task, Row

LEMMA QuestionIsAttempt ==
    ASSUME home.worker # "none", asking' \in BOOLEAN, asking \in BOOLEAN,
           asking => asking', UNCHANGED <<home, workerEpoch, epoch>>
    PROVE  Attempt!RegisterFederatedQuestion(1) \/ UNCHANGED Attempt!vars
<1>1. CASE asking'
  BY <1>1 DEF Attempt!RegisterFederatedQuestion, Attempt!graphVars, Attempt!authorityVars
<1>2. CASE ~asking'
  BY <1>2 DEF Attempt!vars
<1> QED BY <1>1, <1>2

-----------------------------------------------------------------------------
(***************************************************************************)
(* Two more links of the home rows: nothing reaches the paired host before *)
(* the worker exists, and whoever waits for a stop began it in this very   *)
(* runtime.                                                                *)
(***************************************************************************)
Untouched == ~capability /\ stage = "none" /\ DOMAIN items = {}
HomeLinks ==
    /\ home.worker = "none" => Untouched
    /\ stopCall # "idle" /\ home.worker = "stopping" => workerEpoch = epoch

LEMMA LinksKept ==
    HomeLinks /\ UNCHANGED <<home, workerEpoch, epoch, remoteRow, items>> /\ stopCall' \in {stopCall, "idle"}
        => HomeLinks'
BY DEF HomeLinks, Untouched, remoteRow

LEMMA HomeStepLinks ==
    ASSUME Typed, HomeInv, HomeLinks, HomeStep
    PROVE  HomeLinks'
<1> USE HomeFields DEF Typed, HomeLinks, Untouched, remoteRow, queue, stopState, epochs
<1>1. CASE CreateTask
  BY <1>1 DEF CreateTask
<1>2. CASE StartWorker
  BY <1>2 DEF StartWorker
<1>3. CASE StartAnswered
  BY <1>3 DEF StartAnswered, StartSettled
<1>4. CASE StartGivesUp
  BY <1>4 DEF StartGivesUp, StartSettled
<1>5. CASE BeginWorkerStop
  BY <1>5 DEF BeginWorkerStop
<1>6. CASE StopAnswered
  BY <1>6 DEF StopAnswered, StopSettled, Resumed
<1>7. CASE StopGivesUp
  BY <1>7 DEF StopGivesUp
<1>8. CASE AbandonWorkerDispatch
  BY <1>8 DEF AbandonWorkerDispatch
<1>9. CASE BeginShow \/ LoseShow \/ SendControlMail \/ AnswerQuestion \/ CheckMail
  BY <1>9 DEF BeginShow, LoseShow, SendControlMail, AnswerQuestion, CheckMail, homeRows
<1>10. CASE ProjectShow
  <2>1. UNCHANGED <<workerEpoch, epoch, stopCall, capability, stage, items>>
    BY <1>10 DEF ProjectShow
  <2>2. home' = home \/ home'.worker \notin {"none", "stopping"}
    <3>1. ASSUME NEW s \in {"ready", "failed", "stopped", "start_unknown"}, home' = StartSettled(s)
          PROVE  home'.worker = s
      BY <3>1 DEF StartSettled
    <3> QED BY <1>10, <3>1, ProjectedHome DEF StopSettled
  <2> QED BY <2>1, <2>2
<1> QED BY <1>1, <1>2, <1>3, <1>4, <1>5, <1>6, <1>7, <1>8, <1>9, <1>10 DEF HomeStep

LEMMA TakeAckLinks ==
    ASSUME NEW ack, TakeAck(ack), attachment = "none"
    PROVE  UNCHANGED remoteRow /\ DOMAIN items' = DOMAIN items
<1>1. CASE UNCHANGED <<remoteRow, queue, worker>>
  BY <1>1 DEF queue
<1>2. CASE ~UNCHANGED <<remoteRow, queue, worker>>
  BY <1>2 DEF TakeAck, Acknowledge
<1> QED BY <1>1, <1>2

LEMMA RemoteStepLinks ==
    ASSUME Typed, RemoteInv, HomeLinks, RemoteStep
    PROVE  HomeLinks'
<1>1. UNCHANGED <<home, workerEpoch, epoch>>
  BY DEF RemoteStep, CreateRemoteDispatchAttachment, PrepareRemoteAttachmentAuthority,
         MarkRemoteAttachmentReady, FailRemoteAttachment, BeginRemoteAttachmentStop,
         SettleRemoteAttachmentStop, AnswerShow, WorkerSends, StopWaiting, ReportSetup, LateAck,
         homeRows, epochs
<1>2. stopCall = "idle" => stopCall' = "idle"
  BY DEF RemoteStep, CreateRemoteDispatchAttachment, PrepareRemoteAttachmentAuthority,
         MarkRemoteAttachmentReady, FailRemoteAttachment, BeginRemoteAttachmentStop,
         SettleRemoteAttachmentStop, AnswerShow, WorkerSends, StopWaiting, ReportSetup, LateAck,
         stopState, StopAnswer
<1>3. ASSUME home.worker = "none" PROVE Untouched'
  <2>1. Untouched /\ attach = "none" /\ attachment = "none" /\ stopRun = 0
    BY <1>3 DEF HomeLinks, RemoteInv
  <2>2. ASSUME NEW ack \in lateAcks, IF Taken(ack) THEN TakeAck(ack) ELSE UNCHANGED <<remoteRow, queue, worker>>
        PROVE  Untouched'
    <3>1. CASE TakeAck(ack)
      BY <2>1, <3>1, TakeAckLinks DEF Untouched, remoteRow
    <3>2. CASE UNCHANGED <<remoteRow, queue, worker>>
      BY <2>1, <3>2 DEF Untouched, remoteRow, queue
    <3> QED BY <2>2, <3>1, <3>2
  <2>3. CASE LateAck
    BY <2>2, <2>3 DEF LateAck
  <2>4. CASE BeginRemoteAttachmentStop
    BY <2>1, <2>4 DEF BeginRemoteAttachmentStop, Untouched, remoteRow, queue
  <2>5. CASE AnswerShow \/ StopWaiting
    BY <2>1, <2>5 DEF AnswerShow, StopWaiting, Untouched, remoteRow, queue
  <2>6. CASE \E kind \in Sends : \E outcome \in Outcomes \cup {"none"} : WorkerSends(kind, outcome)
    BY <2>1, <2>6 DEF WorkerSends, Untouched
  <2>7. CASE ReportSetup
    BY <2>1, <2>7 DEF ReportSetup, Untouched
  <2>8. CASE CreateRemoteDispatchAttachment \/ PrepareRemoteAttachmentAuthority \/ MarkRemoteAttachmentReady
             \/ FailRemoteAttachment \/ SettleRemoteAttachmentStop
    BY <2>1, <2>8 DEF CreateRemoteDispatchAttachment, PrepareRemoteAttachmentAuthority,
           MarkRemoteAttachmentReady, FailRemoteAttachment, SettleRemoteAttachmentStop
  <2> QED BY <2>3, <2>4, <2>5, <2>6, <2>7, <2>8 DEF RemoteStep
<1> QED BY <1>1, <1>2, <1>3 DEF HomeLinks

LEMMA SyncStepLinks ==
    ASSUME Typed, HomeInv, RemoteInv, PageInv, HomeLinks, SyncStep
    PROVE  HomeLinks'
<1>1. CASE ImportItem
  <2>1. home' = home \/ home'.worker \in Outcomes
    <3>1. Incoming.kind = "worker_done" => Incoming.outcome \in Outcomes
      BY <1>1, ItemTypes DEF Typed, PageInv, Incoming, Pulled
    <3>2. \/ home' = home
          \/ home' = Reported(Incoming.outcome) /\ Incoming.kind = "worker_done"
      BY <1>1 DEF ImportItem
    <3> QED BY <3>1, <3>2 DEF Reported
  <2>2. UNCHANGED <<workerEpoch, epoch, stopCall, capability, stage, items>>
    BY <1>1 DEF ImportItem, epochs, stopState, remoteRow, queue
  <2> QED BY <2>1, <2>2 DEF HomeLinks, Untouched, Outcomes
<1>2. CASE AnswerAck
  <2>1. UNCHANGED <<home, workerEpoch, epoch, stopCall>> /\ TakeAck(Sent)
    BY <1>2 DEF AnswerAck, homeRows, epochs, stopState
  <2>2. home.worker = "none" => Untouched'
    BY <2>1, TakeAckLinks DEF HomeLinks, RemoteInv, Untouched, remoteRow
  <2> QED BY <2>1, <2>2 DEF HomeLinks
<1>3. CASE AnswerPush \/ RecordPush \/ StopPolling
  BY <1>3, LinksKept DEF AnswerPush, RecordPush, StopPolling, homeRows, epochs, stopState, queue
<1>4. CASE UNCHANGED syncFrame
  BY <1>4, LinksKept DEF syncFrame, homeRows, epochs, stopState, queue
<1> QED
  BY <1>1, <1>2, <1>3, <1>4
     DEF SyncStep, BeginSync, AnswerProbe, ExpireCapability, AnswerPull, BeginImport, RefuseItem,
         FinishImport, RefuseAck, RecordAck, RefusePush, EndPage, LoseSyncCall

LEMMA NextLinks == IInv /\ HomeLinks /\ [Next]_vars => HomeLinks'
<1> SUFFICES ASSUME IInv, HomeLinks, [Next]_vars PROVE HomeLinks'
  OBVIOUS
<1>1. CASE HomeStep \/ RemoteStep \/ SyncStep
  BY <1>1, HomeStepLinks, RemoteStepLinks, SyncStepLinks DEF IInv
<1>2. CASE HomeRestart
  BY <1>2 DEF HomeRestart, HomeLinks, Untouched, homeRows, remoteRow, queue
<1>3. CASE RemoteRestart
  BY <1>3, LinksKept DEF RemoteRestart, homeRows, queue
<1>4. CASE UNCHANGED vars
  BY <1>4, LinksKept DEF vars, homeRows, epochs, stopState, queue
<1> QED BY <1>1, <1>2, <1>3, <1>4 DEF Next

LEMMA AlwaysLinked == Spec => [](IInv /\ HomeLinks)
<1>1. Init => IInv /\ HomeLinks
  BY InitIInv DEF Init, HomeLinks, Untouched
<1>2. (IInv /\ HomeLinks) /\ [Next]_vars => (IInv /\ HomeLinks)'
  BY NextKeeps, NextLinks
<1> QED BY <1>1, <1>2, PTL DEF Spec
-----------------------------------------------------------------------------
(***************************************************************************)
(* The refinement.                                                         *)
(***************************************************************************)
LEMMA InitIsAttempt == Init => Attempt!Init
<1>1. 1 .. 1 = {1} /\ 1 .. 0 = {}
  OBVIOUS
<1> QED BY <1>1 DEF Init, Attempt!Init, Attempt!Dispatches, Attempt!Gates

LEMMA HomeRowsKept == UNCHANGED <<homeRows, epoch>> => UNCHANGED Attempt!vars
BY DEF homeRows, Attempt!vars

\* An action of one dispatch, or of its task, is an action of the lifecycle.
LEMMA OneOfAttempt ==
    /\ Attempt!CreateTask(OneTask) => Attempt!Next
    /\ Attempt!CreateStartingWorkerDispatch(1, OneTask, "federated") => Attempt!Next
    /\ \A s \in {"ready", "failed", "stopped", "start_unknown"} :
          Attempt!ReconcileFederatedWorkerStart(1, s) => Attempt!Next
    /\ \A o \in {"succeeded", "failed"} : Attempt!SettleWorkerReport(1, o) => Attempt!Next
    /\ Attempt!BeginWorkerStop(1) => Attempt!Next
    /\ Attempt!MarkWorkerStopUnknown(1) => Attempt!Next
    /\ Attempt!ReconcileFederatedWorkerStop(1) => Attempt!Next
    /\ Attempt!ResumeFederatedWorkerForTerminalRelay(1) => Attempt!Next
    /\ Attempt!AbandonWorkerDispatch(1) => Attempt!Next
    /\ Attempt!RegisterFederatedQuestion(1) => Attempt!Next
    /\ Attempt!AnswerQuestion(1) => Attempt!Next
    /\ Attempt!RuntimeRestart => Attempt!Next
<1>1. OneTask \in {OneTask} /\ 1 \in Attempt!Dispatches
  BY OneRow
<1> QED BY <1>1 DEF Attempt!Next

LEMMA HomeStepIsAttempt ==
    ASSUME IInv, HomeLinks, HomeStep
    PROVE  Attempt!Next \/ UNCHANGED Attempt!vars
<1>t. HomeTyped /\ HomeInv /\ asking \in BOOLEAN
  BY DEF IInv, Typed, HomeTyped
<1> DEFINE Goal == Attempt!Next \/ UNCHANGED Attempt!vars
<1>1. CASE CreateTask
  BY <1>1, <1>t, CreateTaskIsAttempt, OneOfAttempt
<1>2. CASE StartWorker
  BY <1>2, <1>t, StartWorkerIsAttempt, OneOfAttempt
<1>3. CASE StartAnswered
  <2>1. startCall \in {"ready", "failed", "start_unknown"} /\ UNCHANGED <<workerEpoch, epoch>>
    BY <1>3 DEF StartAnswered, epochs
  <2>2. CASE home.worker = "starting"
    <3>1. Starting(startCall)
      BY <1>3, <2>1, <2>2 DEF StartAnswered, Starting
    <3>2. PICK s \in {"ready", "failed", "stopped", "start_unknown"} : s = startCall
      BY <2>1
    <3>3. Starting(s)
      BY <3>1, <3>2 DEF Starting
    <3> QED BY <2>1, <3>3, <1>t, StartingIsAttempt, OneOfAttempt
  <2>3. CASE home.worker # "starting"
    BY <1>3, <2>1, <2>3, HomeRowsKept DEF StartAnswered, homeRows
  <2> QED BY <2>2, <2>3
<1>4. CASE StartGivesUp
  <2>1. UNCHANGED <<workerEpoch, asking, epoch>>
    BY <1>4 DEF StartGivesUp, epochs
  <2>2. CASE home.worker = "starting"
    <3>1. Starting("start_unknown")
      BY <1>4, <2>1, <2>2 DEF StartGivesUp, Starting
    <3> QED BY <2>1, <3>1, <1>t, StartingIsAttempt, OneOfAttempt
  <2>3. CASE home.worker # "starting"
    BY <1>4, <2>1, <2>3, HomeRowsKept DEF StartGivesUp, homeRows
  <2> QED BY <2>2, <2>3
<1>5. CASE BeginWorkerStop
  BY <1>5, <1>t, BeginStopIsAttempt, OneOfAttempt
<1>6. CASE StopAnswered
  <2>1. stopCall # "idle" /\ UNCHANGED <<workerEpoch, asking, epoch>>
    BY <1>6 DEF StopAnswered, epochs
  <2>2. \/ home' = StopSettled /\ home.worker \in {"stopping", "stop_unknown"}
        \/ home' = Resumed /\ home.worker = "stopping"
        \/ home' = [home EXCEPT !.worker = "stop_unknown"] /\ home.worker = "stopping"
        \/ home' = home
    BY <1>6 DEF StopAnswered
  <2>3. home.worker = "stopping" => workerEpoch = epoch
    BY <2>1 DEF HomeLinks
  <2>4. CASE home' = StopSettled /\ home.worker \in {"stopping", "stop_unknown"}
    BY <2>1, <2>4, <1>t, StoppedIsAttempt, OneOfAttempt DEF Stopped
  <2>5. CASE home' = Resumed /\ home.worker = "stopping"
    BY <2>1, <2>3, <2>5, <1>t, ResumedIsAttempt, OneOfAttempt
  <2>6. CASE home' = [home EXCEPT !.worker = "stop_unknown"] /\ home.worker = "stopping"
    BY <2>1, <2>3, <2>6, <1>t, StopUnknownIsAttempt, OneOfAttempt
  <2>7. CASE home' = home
    BY <2>1, <2>7, HomeRowsKept DEF homeRows
  <2> QED BY <2>2, <2>4, <2>5, <2>6, <2>7
<1>7. CASE StopGivesUp
  <2>1. stopCall # "idle" /\ UNCHANGED <<workerEpoch, asking, epoch>>
    BY <1>7 DEF StopGivesUp, epochs
  <2>2. CASE home.worker = "stopping"
    <3>1. home' = [home EXCEPT !.worker = "stop_unknown"] /\ workerEpoch = epoch
      BY <1>7, <2>1, <2>2 DEF StopGivesUp, HomeLinks
    <3> QED BY <2>1, <2>2, <3>1, <1>t, StopUnknownIsAttempt, OneOfAttempt
  <2>3. CASE home.worker # "stopping"
    BY <1>7, <2>1, <2>3, HomeRowsKept DEF StopGivesUp, homeRows
  <2> QED BY <2>2, <2>3
<1>8. CASE AbandonWorkerDispatch
  BY <1>8, <1>t, AbandonIsAttempt, OneOfAttempt
<1>9. CASE BeginShow \/ LoseShow \/ SendControlMail \/ CheckMail
  BY <1>9, HomeRowsKept DEF BeginShow, LoseShow, SendControlMail, CheckMail, epochs
<1>10. CASE ProjectShow
  <2>1. UNCHANGED <<workerEpoch, epoch>>
    BY <1>10 DEF ProjectShow, epochs
  <2>2. \/ home' = StopSettled /\ asking' = asking /\ home.worker \in {"stopping", "stop_unknown"}
        \/ home' = home /\ asking' = asking
        \/ Starting(show.state) /\ show.state \in {"ready", "failed", "stopped", "start_unknown"}
    BY <1>10 DEF ProjectShow, Starting
  <2>3. CASE home' = StopSettled /\ asking' = asking /\ home.worker \in {"stopping", "stop_unknown"}
    BY <2>1, <2>3, <1>t, StoppedIsAttempt, OneOfAttempt DEF Stopped
  <2>4. CASE Starting(show.state) /\ show.state \in {"ready", "failed", "stopped", "start_unknown"}
    <3>1. PICK s \in {"ready", "failed", "stopped", "start_unknown"} : s = show.state
      BY <2>4
    <3>2. Starting(s)
      BY <2>4, <3>1 DEF Starting
    <3> QED BY <2>1, <3>2, <1>t, StartingIsAttempt, OneOfAttempt
  <2>5. CASE home' = home /\ asking' = asking
    BY <2>1, <2>5, HomeRowsKept DEF homeRows
  <2> QED BY <2>2, <2>3, <2>4, <2>5
<1>11. CASE AnswerQuestion
  <2>1. asking /\ asking' = FALSE /\ UNCHANGED <<home, workerEpoch, epoch>>
    BY <1>11 DEF AnswerQuestion, epochs
  <2>2. Attempt!AnswerQuestion(1)
    BY <2>1 DEF Attempt!AnswerQuestion, Attempt!graphVars, Attempt!authorityVars
  <2> QED BY <2>2, OneOfAttempt
<1> QED BY <1>1, <1>2, <1>3, <1>4, <1>5, <1>6, <1>7, <1>8, <1>9, <1>10, <1>11 DEF HomeStep

LEMMA SyncStepIsAttempt ==
    ASSUME IInv, HomeLinks, SyncStep
    PROVE  Attempt!Next \/ UNCHANGED Attempt!vars
<1>t. HomeTyped /\ HomeInv /\ asking \in BOOLEAN
  BY DEF IInv, Typed, HomeTyped
<1>1. CASE ImportItem
  <2> DEFINE o == Incoming.outcome
  <2>1. UNCHANGED <<workerEpoch, epoch>>
    BY <1>1 DEF ImportItem, epochs
  <2>2. Incoming.kind = "worker_done" => o \in {"succeeded", "failed"}
    BY <1>1, ItemTypes DEF IInv, Typed, PageInv, Incoming, Pulled, Outcomes
  <2>3. \/ /\ home' = Reported(o) /\ asking' = FALSE
           /\ Incoming.kind = "worker_done" /\ VerdictOn(o) # "rejected" /\ ~SettledAlready(o)
        \/ home' = home /\ asking' \in BOOLEAN /\ (asking => asking')
    BY <1>1, <1>t DEF ImportItem
  <2>4. CASE /\ home' = Reported(o) /\ asking' = FALSE
             /\ Incoming.kind = "worker_done" /\ VerdictOn(o) # "rejected" /\ ~SettledAlready(o)
    <3>1. PICK p \in {"succeeded", "failed"} : p = o
      BY <2>2, <2>4
    <3>2. Reporting(p)
      BY <2>4, <3>1 DEF Reporting, VerdictOn
    <3> QED BY <2>1, <3>2, <1>t, ReportingIsAttempt, OneOfAttempt
  <2>5. CASE home' = home /\ asking' \in BOOLEAN /\ (asking => asking')
    <3>1. home.worker # "none"
      <4>1. sync.next \in 1 .. Len(sync.page) /\ Incoming.sequence <= Len(items) /\ Incoming \in Pulled
        BY <1>1, ItemTypes DEF IInv, Typed, PageInv, Incoming
      <4>2. items \in Seq(Item)
        BY DEF IInv, Typed, QueueTyped
      <4>3. Incoming.sequence \in Nat /\ Incoming.sequence >= 1
        BY <4>1, BoundAssumption DEF Pulled
      <4>4. Len(items) \in Nat /\ DOMAIN items = 1 .. Len(items)
        BY <4>2
      <4>5. 1 \in DOMAIN items
        BY <4>1, <4>3, <4>4
      <4> QED BY <4>5 DEF HomeLinks, Untouched
    <3> QED BY <2>1, <2>5, <3>1, <1>t, QuestionIsAttempt, OneOfAttempt
  <2> QED BY <2>3, <2>4, <2>5
<1>2. CASE UNCHANGED syncFrame
  BY <1>2, HomeRowsKept DEF syncFrame, epochs
<1>3. CASE AnswerAck \/ AnswerPush \/ RecordPush \/ StopPolling
  BY <1>3, HomeRowsKept DEF AnswerAck, AnswerPush, RecordPush, StopPolling, epochs
<1> QED
  BY <1>1, <1>2, <1>3
     DEF SyncStep, BeginSync, AnswerProbe, ExpireCapability, AnswerPull, BeginImport, RefuseItem,
         FinishImport, RefuseAck, RecordAck, RefusePush, EndPage, LoseSyncCall

LEMMA NextIsAttempt == IInv /\ HomeLinks /\ [Next]_vars => [Attempt!Next]_(Attempt!vars)
<1> SUFFICES ASSUME IInv, HomeLinks, [Next]_vars PROVE Attempt!Next \/ UNCHANGED Attempt!vars
  OBVIOUS
<1>1. CASE HomeStep
  BY <1>1, HomeStepIsAttempt
<1>2. CASE SyncStep
  BY <1>2, SyncStepIsAttempt
<1>3. CASE RemoteStep
  BY <1>3, HomeRowsKept
     DEF RemoteStep, CreateRemoteDispatchAttachment, PrepareRemoteAttachmentAuthority,
         MarkRemoteAttachmentReady, FailRemoteAttachment, BeginRemoteAttachmentStop,
         SettleRemoteAttachmentStop, AnswerShow, WorkerSends, StopWaiting, ReportSetup, LateAck, epochs
<1>4. CASE HomeRestart
  <2>1. epoch < MaxEpoch /\ epoch' = epoch + 1 /\ UNCHANGED <<home, workerEpoch, asking>>
    BY <1>4 DEF HomeRestart, homeRows
  <2>2. Attempt!RuntimeRestart
    BY <2>1 DEF Attempt!RuntimeRestart, Attempt!graphVars, Attempt!authorityVars
  <2> QED BY <2>2, OneOfAttempt
<1>5. CASE RemoteRestart \/ UNCHANGED vars
  BY <1>5, HomeRowsKept DEF RemoteRestart, vars, epochs
<1> QED BY <1>1, <1>2, <1>3, <1>4, <1>5 DEF Next

\* Seen at its home rows, the federated Dispatch is one attempt of the
\* lifecycle: no call, poll, report, timeout or restart writes them along a way
\* that module does not have.
THEOREM HomeImplementsAttempt == Spec => ImplementsAttemptLifecycle
BY InitIsAttempt, NextIsAttempt, AlwaysLinked, PTL DEF Spec, ImplementsAttemptLifecycle, Attempt!Spec
=============================================================================
