----------------------- MODULE OrchestrationStepProofs -----------------------
(***************************************************************************)
(* What no step of the attempt lifecycle may do, for every value of the    *)
(* constants.  Everything here rests on the invariant IInv: an active      *)
(* attempt is alone on its task, its worker is live exactly as long as it  *)
(* is, and its task shows which.                                           *)
(***************************************************************************)
EXTENDS OrchestrationProofs

(***************************************************************************)
(* The rows a transaction writes, and how.                                 *)
(***************************************************************************)
\* A row is left alone, inserted, moved on while active, or corrected from a
\* stalled prompt to the success its worker reported.
DispatchStep(d) ==
    \/ dispatch'[d] = dispatch[d]
    \/ dispatch[d] = "absent"
    \/ Active(d) /\ dispatch'[d] \in DispatchSettled \cup {"dispatched"}
    \/ dispatch[d] = "failed" /\ dispatch'[d] = "completed" /\ d \in stalled

LEMMA SettlingStep ==
    ASSUME TypeOK, NEW ds, NEW status \in DispatchSettled, dispatch' = Settled(ds, status),
           \A x \in ds : Active(x)
    PROVE  \A x \in Dispatches : DispatchStep(x)
BY DEF DispatchStep, Settled, TypeOK

LEMMA LiveWorkerIsSupervised ==
    ASSUME IInv, NEW d \in Dispatches, worker[d] \in WorkerUnsettled
    PROVE  Active(d) /\ Rivals(d) = {} /\ ActiveOf(taskOf[d]) = {d} /\ taskOf[d] \in Tasks
BY LiveIsActive, ActiveIsAlone DEF LiveWorker

LEMMA FailingStep ==
    ASSUME TypeOK, NEW d \in Dispatches, Active(d), FailDispatch(d)
    PROVE  \A x \in Dispatches : DispatchStep(x)
<1>1. FailureStatus(d) \in DispatchSettled
  BY DEF FailureStatus, DispatchSettled
<1> QED BY <1>1, SettlingStep DEF FailDispatch

LEMMA StopSettlesStep ==
    ASSUME TypeOK, NEW d \in Dispatches, StopSettles(d)
    PROVE  \A x \in Dispatches : DispatchStep(x)
<1>1. "failed" \in DispatchSettled
  BY DEF DispatchSettled
<1>2. CASE Active(d)
  BY <1>1, <1>2, SettlingStep DEF StopSettles
<1>3. CASE ~Active(d)
  BY <1>3 DEF StopSettles, DispatchStep
<1> QED BY <1>2, <1>3

LEMMA ReportStep ==
    ASSUME IInv, NEW d \in Dispatches, NEW outcome \in {"succeeded", "failed"},
           SettleWorkerReport(d, outcome)
    PROVE  \A x \in Dispatches : DispatchStep(x)
<1> DEFINE status == IF outcome = "succeeded" THEN "completed" ELSE "failed"
<1>1. status \in DispatchSettled /\ TypeOK
  BY DEF DispatchSettled, IInv
<1>2. dispatch' = Settled(Rivals(d) \cup {d}, status)
  BY DEF SettleWorkerReport
<1>3. \A x \in Rivals(d) : Active(x)
  BY DEF Rivals, ActiveOf
<1>4. CASE Active(d)
  BY <1>1, <1>2, <1>3, <1>4, SettlingStep
<1>5. CASE ~Active(d)
  <2>1. dispatch[d] = "failed" /\ d \in stalled
    BY <1>5 DEF SettleWorkerReport, Correcting, Reconnecting, ReportingStart, Active,
                DispatchActive
  <2> QED BY <1>1, <1>2, <1>3, <2>1 DEF DispatchStep, Settled, DispatchSettled, TypeOK
<1> QED BY <1>4, <1>5

LEMMA EveryDispatchStep ==
    ASSUME IInv, [Next]_vars
    PROVE  \A d \in Dispatches : DispatchStep(d)
<1>0. TypeOK /\ {"completed", "failed"} \subseteq DispatchSettled /\ TaskTerminal = {"completed", "failed"}
  BY DEF IInv, DispatchSettled, TaskTerminal
<1>1. CASE UNCHANGED dispatch
  BY <1>1 DEF DispatchStep
<1>2. ASSUME NEW t \in Tasks, NEW status \in TaskStatuses, UpdateTaskStatus(t, status)
      PROVE  \A d \in Dispatches : DispatchStep(d)
  <2>1. CASE status \in TaskTerminal
    BY <1>0, <1>2, <2>1, SettlingStep DEF UpdateTaskStatus, ActiveOf
  <2>2. CASE status \notin TaskTerminal
    BY <1>0, <1>2, <2>2, SettledNothing, <1>1 DEF UpdateTaskStatus
  <2> QED BY <2>1, <2>2
<1>3. ASSUME NEW d \in Dispatches, NEW t \in Tasks,
             \/ \E h \in Terminals, inject \in BOOLEAN : CreateDispatchContext(d, t, h, inject)
             \/ \E k \in {"local", "federated"} : CreateStartingWorkerDispatch(d, t, k)
      PROVE  \A x \in Dispatches : DispatchStep(x)
  BY <1>0, <1>3
     DEF CreateDispatchContext, CreateStartingWorkerDispatch, NextRow, DispatchStep, TypeOK
<1>4. ASSUME NEW d \in Dispatches,
             PromptSendFails(d) \/ ReconcileMissingWorkerTerminal(d)
      PROVE  \A x \in Dispatches : DispatchStep(x)
  BY <1>0, <1>4, FailingStep DEF PromptSendFails, ReconcileMissingWorkerTerminal
<1>5. ASSUME NEW d \in Dispatches, ApplyEscalationToDispatch(d)
      PROVE  \A x \in Dispatches : DispatchStep(x)
  <2>1. FailureStatus(d) \in DispatchSettled
    BY DEF FailureStatus, DispatchSettled
  <2>2. \A x \in Rivals(d) : Active(x)
    BY DEF Rivals, ActiveOf
  <2> QED BY <1>0, <1>5, <2>1, <2>2 DEF ApplyEscalationToDispatch, DispatchStep
<1>6. ASSUME NEW d \in Dispatches,
             \/ MarkWorkerDispatchReady(d)
             \/ \E unobserved \in BOOLEAN : FailWorkerStart(d, unobserved)
      PROVE  \A x \in Dispatches : DispatchStep(x)
  <2>1. Active(d)
    BY <1>6, LiveWorkerIsSupervised
       DEF MarkWorkerDispatchReady, FailWorkerStart, StartInFlight, WorkerUnsettled
  <2> QED BY <1>0, <1>6, <2>1, SettlingStep
          DEF MarkWorkerDispatchReady, FailWorkerStart, DispatchStep, TypeOK
<1>7. ASSUME NEW d \in Dispatches, NEW s \in {"ready", "failed", "stopped", "start_unknown"},
             ReconcileFederatedWorkerStart(d, s)
      PROVE  \A x \in Dispatches : DispatchStep(x)
  <2>1. Active(d)
    BY <1>7, LiveWorkerIsSupervised DEF ReconcileFederatedWorkerStart, WorkerUnsettled
  <2> QED BY <1>0, <1>7, <2>1, SettlingStep
          DEF ReconcileFederatedWorkerStart, DispatchStep, TypeOK
<1>8. ASSUME NEW d \in Dispatches, NEW outcome \in {"succeeded", "failed"},
             SettleWorkerReport(d, outcome)
      PROVE  \A x \in Dispatches : DispatchStep(x)
  BY <1>8, ReportStep
<1>9. ASSUME NEW d \in Dispatches, ReleaseContextOnlyDispatch(d) \/ AbandonWorkerDispatch(d)
      PROVE  \A x \in Dispatches : DispatchStep(x)
  BY <1>0, <1>9, SettlingStep, <1>1 DEF ReleaseContextOnlyDispatch, AbandonWorkerDispatch
<1>10. ASSUME NEW d \in Dispatches, SettleWorkerStop(d) \/ ReconcileFederatedWorkerStop(d)
       PROVE  \A x \in Dispatches : DispatchStep(x)
  BY <1>0, <1>10, StopSettlesStep DEF SettleWorkerStop, ReconcileFederatedWorkerStop
<1>11. ASSUME NEW h \in Terminals, TerminalExit(h)
       PROVE  \A x \in Dispatches : DispatchStep(x)
  BY <1>0, <1>11, StopSettlesStep, FailingStep DEF TerminalExit
<1>12. ASSUME NEW g \in Gates, NEW t \in Tasks, CreateGate(g, t)
       PROVE  \A x \in Dispatches : DispatchStep(x)
  BY <1>0, <1>12, SettlingStep DEF CreateGate, ActiveOf
<1>13. ASSUME \/ \E t \in Tasks : CreateTask(t)
              \/ \E d \in Dispatches, h \in Terminals : PrepareStartingWorkerAuthority(d, h)
              \/ \E d \in Dispatches : \/ MarkWorkerStartUnknown(d) \/ BeginWorkerStop(d)
                                       \/ MarkWorkerStopUnknown(d)
                                       \/ ResumeFederatedWorkerForTerminalRelay(d)
                                       \/ CreateQuestion(d) \/ RegisterFederatedQuestion(d)
                                       \/ AnswerQuestion(d)
              \/ \E g \in Gates : ResolveGate(g)
              \/ ReblockTasksWithPendingGates \/ RuntimeRestart \/ UNCHANGED vars
       PROVE  UNCHANGED dispatch
  BY <1>13 DEF CreateTask, PrepareStartingWorkerAuthority, MarkWorkerStartUnknown,
               BeginWorkerStop, MarkWorkerStopUnknown, ResumeFederatedWorkerForTerminalRelay,
               CreateQuestion, RegisterFederatedQuestion, AnswerQuestion, ResolveGate,
               ReblockTasksWithPendingGates, RuntimeRestart, graphVars, vars
<1> QED
  BY <1>1, <1>2, <1>3, <1>4, <1>5, <1>6, <1>7, <1>8, <1>9, <1>10, <1>11, <1>12, <1>13 DEF Next
-----------------------------------------------------------------------------
(***************************************************************************)
(* Workers move along the graph.                                           *)
(***************************************************************************)
MovesAlong(before, after) ==
    \/ before = "none"
    \/ <<before, after>> \in WorkerEdges
    \/ <<before, "ready">> \in WorkerEdges /\ after = "succeeded"

WorkerMoves(d) ==
    \/ MovesAlong(worker[d], worker'[d])
    \/ WorkerStep(d) \in UnobservedPromptCorrections /\ d \in stalled

LEMMA StayingIsAnEdge ==
    ASSUME TypeOK, NEW d \in Dispatches, worker'[d] = worker[d]
    PROVE  WorkerMoves(d)
BY DEF TypeOK, WorkerMoves, MovesAlong, WorkerEdges

LEMMA Edges ==
    /\ \A before \in WorkerUnsettled : MovesAlong(before, "failed")
    /\ \A before \in WorkerUnsettled : MovesAlong(before, "abandoned")
    /\ \A before \in {"starting", "start_unknown", "stopping", "stop_unknown"} :
          MovesAlong(before, "stopped")
    /\ \A before \in {"starting", "start_unknown", "ready"} : MovesAlong(before, "succeeded")
    /\ \A before \in {"starting", "start_unknown", "stopping"} : MovesAlong(before, "ready")
    /\ \A before \in {"start_unknown", "ready", "stopping"} : MovesAlong(before, "stopping")
    /\ \A before \in {"starting", "start_unknown"} : MovesAlong(before, "start_unknown")
    /\ MovesAlong("stopping", "stop_unknown")
BY DEF MovesAlong, WorkerEdges, WorkerUnsettled, WorkerStates

LEMMA OneWorkerMoves ==
    ASSUME TypeOK, NEW d \in Dispatches, NEW state, worker' = WithWorker(d, state),
           MovesAlong(worker[d], state)
    PROVE  \A x \in Dispatches : WorkerMoves(x)
<1> SUFFICES ASSUME NEW x \in Dispatches PROVE WorkerMoves(x)
  OBVIOUS
<1>1. CASE x = d
  BY <1>1, WithWorkerEffect DEF WorkerMoves
<1>2. CASE x # d
  BY <1>2, WithWorkerEffect, StayingIsAnEdge
<1> QED BY <1>1, <1>2

LEMMA ReportMovesWorker ==
    ASSUME IInv, NEW d \in Dispatches, NEW outcome \in {"succeeded", "failed"},
           SettleWorkerReport(d, outcome)
    PROVE  \A x \in Dispatches : WorkerMoves(x)
<1>1. TypeOK
  BY DEF IInv
<1>2. CASE ~Supervised(d)
  BY <1>1, <1>2, StayingIsAnEdge DEF SettleWorkerReport
<1>3. CASE Supervised(d) /\ Active(d)
  <2>1. worker' = WithWorker(d, outcome)
    BY <1>3 DEF SettleWorkerReport
  <2>2. MovesAlong(worker[d], outcome)
    BY <1>3, Edges
       DEF SettleWorkerReport, Correcting, Reconnecting, ReportingStart, Supervised, Active,
           DispatchActive, WorkerUnsettled
  <2> QED BY <1>1, <2>1, <2>2, OneWorkerMoves
<1>4. CASE Supervised(d) /\ ~Active(d)
  <2>1. /\ worker' = WithWorker(d, outcome) /\ worker[d] = "failed"
        /\ d \in stalled
    BY <1>4 DEF SettleWorkerReport, Correcting, Reconnecting, ReportingStart, Active,
                DispatchActive
  <2>2. WorkerMoves(d)
    BY <1>1, <2>1, WithWorkerEffect
       DEF WorkerMoves, MovesAlong, WorkerStep, UnobservedPromptCorrections, WorkerEdges,
           WorkerStates, WorkerSettled
  <2> QED BY <1>1, <2>1, <2>2, WithWorkerEffect, StayingIsAnEdge
<1> QED BY <1>2, <1>3, <1>4

LEMMA EveryWorkerMoves ==
    ASSUME IInv, [Next]_vars
    PROVE  \A d \in Dispatches : WorkerMoves(d)
<1>0. TypeOK
  BY DEF IInv
<1>1. CASE UNCHANGED worker
  BY <1>0, <1>1, StayingIsAnEdge
<1>2. ASSUME NEW d \in Dispatches, NEW t \in Tasks, NEW k \in {"local", "federated"},
             CreateStartingWorkerDispatch(d, t, k)
      PROVE  \A x \in Dispatches : WorkerMoves(x)
  <2>1. worker[d] = "none"
    BY <1>2 DEF CreateStartingWorkerDispatch, NextRow, IInv, AttemptsAgree, RowShape
  <2> QED BY <1>0, <1>2, <2>1, OneWorkerMoves DEF CreateStartingWorkerDispatch, MovesAlong
<1>3. ASSUME NEW d \in Dispatches,
             \/ MarkWorkerDispatchReady(d) \/ MarkWorkerStartUnknown(d)
             \/ \E unobserved \in BOOLEAN : FailWorkerStart(d, unobserved)
      PROVE  \A x \in Dispatches : WorkerMoves(x)
  BY <1>0, <1>3, Edges, OneWorkerMoves
     DEF MarkWorkerDispatchReady, MarkWorkerStartUnknown, FailWorkerStart, StartInFlight,
         WorkerUnsettled
<1>4. ASSUME NEW d \in Dispatches, NEW s \in {"ready", "failed", "stopped", "start_unknown"},
             ReconcileFederatedWorkerStart(d, s)
      PROVE  \A x \in Dispatches : WorkerMoves(x)
  BY <1>0, <1>4, Edges, OneWorkerMoves DEF ReconcileFederatedWorkerStart, WorkerUnsettled
<1>5. ASSUME NEW d \in Dispatches, NEW outcome \in {"succeeded", "failed"},
             SettleWorkerReport(d, outcome)
      PROVE  \A x \in Dispatches : WorkerMoves(x)
  BY <1>5, ReportMovesWorker
<1>6. ASSUME NEW d \in Dispatches,
             \/ BeginWorkerStop(d) \/ MarkWorkerStopUnknown(d)
             \/ ResumeFederatedWorkerForTerminalRelay(d) \/ AbandonWorkerDispatch(d)
      PROVE  \A x \in Dispatches : WorkerMoves(x)
  BY <1>0, <1>6, Edges, OneWorkerMoves
     DEF BeginWorkerStop, MarkWorkerStopUnknown, ResumeFederatedWorkerForTerminalRelay,
         AbandonWorkerDispatch, MayAbandon, StopInFlight, WorkerUnsettled
<1>7. ASSUME NEW d \in Dispatches,
             \/ SettleWorkerStop(d) \/ ReconcileFederatedWorkerStop(d)
             \/ ReconcileMissingWorkerTerminal(d)
      PROVE  \A x \in Dispatches : WorkerMoves(x)
  BY <1>0, <1>7, Edges, OneWorkerMoves
     DEF SettleWorkerStop, ReconcileFederatedWorkerStop, ReconcileMissingWorkerTerminal,
         StopInFlight, StopSettles, LiveWorker
<1>8. ASSUME NEW h \in Terminals, TerminalExit(h)
      PROVE  \A x \in Dispatches : WorkerMoves(x)
  <2>1. PICK d \in Dispatches :
          /\ Active(d)
          /\ IF StopInFlight(d)
             THEN worker' = WithWorker(d, "stopped")
             ELSE worker' = IF Supervised(d) THEN WithWorker(d, "failed") ELSE worker
    BY <1>8 DEF TerminalExit, StopSettles
  <2>2. Supervised(d) => worker[d] \in WorkerUnsettled
    BY <2>1 DEF IInv, AttemptsAgree, WorkerAndDispatchSettleTogether, LiveWorker
  <2> QED BY <1>0, <1>1, <2>1, <2>2, Edges, OneWorkerMoves DEF StopInFlight
<1>9. ASSUME \/ \E t \in Tasks : CreateTask(t) \/ \E s \in TaskStatuses : UpdateTaskStatus(t, s)
             \/ \E d \in Dispatches, t \in Tasks, h \in Terminals, inject \in BOOLEAN :
                   CreateDispatchContext(d, t, h, inject)
             \/ \E d \in Dispatches : \/ PromptSendFails(d) \/ ApplyEscalationToDispatch(d)
                                      \/ \E h \in Terminals : PrepareStartingWorkerAuthority(d, h)
                                      \/ ReleaseContextOnlyDispatch(d) \/ CreateQuestion(d)
                                      \/ RegisterFederatedQuestion(d) \/ AnswerQuestion(d)
             \/ \E g \in Gates : ResolveGate(g) \/ \E t \in Tasks : CreateGate(g, t)
             \/ ReblockTasksWithPendingGates \/ RuntimeRestart \/ UNCHANGED vars
      PROVE  UNCHANGED worker
  BY <1>9 DEF CreateTask, UpdateTaskStatus, CreateDispatchContext, PromptSendFails,
              ApplyEscalationToDispatch, PrepareStartingWorkerAuthority,
              ReleaseContextOnlyDispatch, CreateQuestion, RegisterFederatedQuestion,
              AnswerQuestion, ResolveGate, CreateGate, ReblockTasksWithPendingGates,
              RuntimeRestart, graphVars, vars
<1> QED BY <1>1, <1>2, <1>3, <1>4, <1>5, <1>6, <1>7, <1>8, <1>9 DEF Next

\* No operation relies on the lifecycle graph to refuse a write: its own guards
\* keep every worker and every dispatch on the declared edges, and a settled row
\* leaves its outcome only by the unobserved-prompt correction.
THEOREM StepsAlwaysFollowLifecycleGraph == Spec => StepsFollowLifecycleGraph
<1> DEFINE FollowsGraph ==
      \A d \in Dispatches :
          /\ \/ worker[d] = "none"
             \/ WorkerStep(d) \in WorkerEdges
             \/ <<worker[d], "ready">> \in WorkerEdges /\ worker'[d] = "succeeded"
             \/ WorkerStep(d) \in UnobservedPromptCorrections /\ d \in stalled
          /\ \/ dispatch[d] = "absent"
             \/ <<dispatch[d], dispatch'[d]>> \in DispatchEdges
             \/ <<dispatch[d], dispatch'[d]>> \in UnobservedPromptCorrections /\ d \in stalled
<1>1. ASSUME IInv, [Next]_vars PROVE FollowsGraph
  <2> SUFFICES ASSUME NEW d \in Dispatches
               PROVE  /\ WorkerMoves(d)
                      /\ \/ dispatch[d] = "absent"
                         \/ <<dispatch[d], dispatch'[d]>> \in DispatchEdges
                         \/ /\ <<dispatch[d], dispatch'[d]>> \in UnobservedPromptCorrections
                            /\ d \in stalled
    BY DEF WorkerMoves, MovesAlong, WorkerStep
  <2>1. WorkerMoves(d) /\ DispatchStep(d) /\ dispatch[d] \in DispatchStatuses \cup {"absent"}
    BY <1>1, EveryWorkerMoves, EveryDispatchStep DEF IInv, TypeOK
  <2> QED BY <2>1 DEF DispatchStep, Active, DispatchEdges, DispatchSettled,
                      UnobservedPromptCorrections
<1>2. IInv /\ [Next]_vars => [FollowsGraph]_vars
  BY <1>1
<1> QED BY <1>2, Invariance, PTL DEF Spec, StepsFollowLifecycleGraph
-----------------------------------------------------------------------------
(***************************************************************************)
(* A completed task is reopened by an operator or a gate, never by the end *)
(* of an attempt.                                                          *)
(***************************************************************************)
Reopened(t) == task[t] = "completed" /\ task'[t] # "completed"

\* A task some attempt is active on has not completed.
LEMMA CompletedTaskIsIdle ==
    ASSUME IInv, NEW t \in Tasks, task[t] = "completed"
    PROVE  ActiveOf(t) = {} /\ \A d \in Dispatches : Active(d) => taskOf[d] # t
BY TaskOfActive DEF ActiveOf

\* The statuses the end or the move of an attempt leaves its task in.
Unfinished == {"ready", "dispatched", "blocked", "failed"}

\* What happens to an attempt touches its own task only, and completes nothing.
TouchesOwnTask(d) ==
    /\ Active(d)
    /\ \A t \in Tasks : task'[t] = task[t] \/ (t = taskOf[d] /\ task'[t] \in Unfinished)

LEMMA TouchingOwnTask ==
    ASSUME IInv, NEW d \in Dispatches, Active(d),
           \/ task' = task
           \/ task' = FailedTask(d)
           \/ task' = Reconciled(d)
           \/ \E status \in Unfinished : task' = WithTask(taskOf[d], status)
    PROVE  TouchesOwnTask(d)
<1>1. taskOf[d] \in Tasks /\ TypeOK
  BY ActiveIsAlone DEF IInv
<1>2. \A t \in Tasks \ {taskOf[d]} : task'[t] = task[t]
  BY <1>1, FailedTaskEffect, ReconciledEffect, WithTaskEffect
<1>3. task'[taskOf[d]] \in Unfinished
  BY <1>1, TaskOfActive, ReconciledEffect, WithTaskEffect DEF FailedTask, Unfinished
<1> QED BY <1>2, <1>3 DEF TouchesOwnTask

LEMMA AttemptStepsTouchOwnTask ==
    ASSUME IInv, NEW d \in Dispatches,
           \/ PromptSendFails(d) \/ ApplyEscalationToDispatch(d)
           \/ \E unobserved \in BOOLEAN : FailWorkerStart(d, unobserved)
           \/ MarkWorkerStartUnknown(d) \/ ReleaseContextOnlyDispatch(d)
           \/ BeginWorkerStop(d) \/ SettleWorkerStop(d) \/ ReconcileFederatedWorkerStop(d)
           \/ \E s \in {"ready", "failed", "stopped", "start_unknown"} :
                 ReconcileFederatedWorkerStart(d, s)
           \/ ResumeFederatedWorkerForTerminalRelay(d) \/ AbandonWorkerDispatch(d)
           \/ ReconcileMissingWorkerTerminal(d)
    PROVE  TouchesOwnTask(d)
<1>1. Active(d)
  BY LiveWorkerIsSupervised
     DEF PromptSendFails, ApplyEscalationToDispatch, FailWorkerStart, StartInFlight,
         MarkWorkerStartUnknown, ReleaseContextOnlyDispatch, BeginWorkerStop,
         SettleWorkerStop, ReconcileFederatedWorkerStop, ReconcileFederatedWorkerStart,
         ResumeFederatedWorkerForTerminalRelay, AbandonWorkerDispatch, MayAbandon,
         ReconcileMissingWorkerTerminal, StopInFlight, WorkerUnsettled
<1>2. \/ task' = task
      \/ task' = FailedTask(d) \/ task' = Reconciled(d)
      \/ \E status \in Unfinished : task' = WithTask(taskOf[d], status)
  BY DEF PromptSendFails, ApplyEscalationToDispatch, FailWorkerStart,
         MarkWorkerStartUnknown, ReleaseContextOnlyDispatch, BeginWorkerStop,
         SettleWorkerStop, ReconcileFederatedWorkerStop, ReconcileFederatedWorkerStart,
         ResumeFederatedWorkerForTerminalRelay, AbandonWorkerDispatch, StopSettles,
         ReconcileMissingWorkerTerminal, Unfinished
<1> QED BY <1>1, <1>2, TouchingOwnTask

LEMMA TerminalExitTouchesOwnTask ==
    ASSUME IInv, NEW h \in Terminals, TerminalExit(h)
    PROVE  \E d \in Dispatches : TouchesOwnTask(d)
BY TouchingOwnTask DEF TerminalExit, StopSettles

LEMMA OnlyIdleTasksReopen ==
    ASSUME IInv, [Next]_vars, NEW t \in Tasks, Reopened(t)
    PROVE  UNCHANGED <<dispatch, worker, stalled>>
<1>0. /\ TypeOK /\ TaskTerminal = {"completed", "failed"} /\ task[t] = "completed"
      /\ task'[t] # "completed" /\ task' # task
  BY DEF IInv, TaskTerminal, Reopened
<1>1. ASSUME NEW c \in Tasks, CreateTask(c) PROVE FALSE
  BY <1>0, <1>1, WithTaskEffect DEF CreateTask
<1>2. ASSUME NEW c \in Tasks, NEW status \in TaskStatuses, UpdateTaskStatus(c, status)
      PROVE  UNCHANGED <<dispatch, worker, stalled>>
  <2>1. c = t
    BY <1>0, <1>2, WithTaskEffect, PromotedEffect DEF UpdateTaskStatus
  <2> QED BY <1>0, <1>2, <2>1, CompletedTaskIsIdle, SettledNothing DEF UpdateTaskStatus
<1>3. ASSUME NEW d \in Dispatches, NEW c \in Tasks,
             \/ \E h \in Terminals, inject \in BOOLEAN : CreateDispatchContext(d, c, h, inject)
             \/ \E k \in {"local", "federated"} : CreateStartingWorkerDispatch(d, c, k)
      PROVE  FALSE
  <2>1. task[c] # "completed" /\ task' = WithTask(c, "dispatched")
    BY <1>3 DEF CreateDispatchContext, CreateStartingWorkerDispatch, MayRetry
  <2> QED BY <1>0, <2>1, WithTaskEffect
<1>4. ASSUME NEW d \in Dispatches,
             \/ PromptSendFails(d) \/ ApplyEscalationToDispatch(d)
             \/ \E unobserved \in BOOLEAN : FailWorkerStart(d, unobserved)
             \/ MarkWorkerStartUnknown(d) \/ ReleaseContextOnlyDispatch(d)
             \/ BeginWorkerStop(d) \/ SettleWorkerStop(d) \/ ReconcileFederatedWorkerStop(d)
             \/ \E s \in {"ready", "failed", "stopped", "start_unknown"} :
                   ReconcileFederatedWorkerStart(d, s)
             \/ ResumeFederatedWorkerForTerminalRelay(d) \/ AbandonWorkerDispatch(d)
             \/ ReconcileMissingWorkerTerminal(d)
      PROVE  FALSE
  BY <1>0, <1>4, AttemptStepsTouchOwnTask, CompletedTaskIsIdle DEF TouchesOwnTask
<1>5. ASSUME NEW d \in Dispatches, NEW outcome \in {"succeeded", "failed"},
             SettleWorkerReport(d, outcome)
      PROVE  FALSE
  <2>1. taskOf[d] \in Tasks /\ task[taskOf[d]] # "completed"
    BY <1>5 DEF SettleWorkerReport, Correcting, Reconnecting, ReportingStart, IInv,
                AttemptsAgree, RowShape, Active, DispatchActive
  <2> QED BY <1>0, <1>5, <2>1, WithTaskEffect, PromotedEffect DEF SettleWorkerReport
<1>6. ASSUME NEW h \in Terminals, TerminalExit(h)
      PROVE  FALSE
  BY <1>0, <1>6, TerminalExitTouchesOwnTask, CompletedTaskIsIdle DEF TouchesOwnTask
<1>7. ASSUME NEW g \in Gates, NEW c \in Tasks, CreateGate(g, c)
      PROVE  UNCHANGED <<dispatch, worker, stalled>>
  <2>1. c = t
    BY <1>0, <1>7, WithTaskEffect DEF CreateGate
  <2> QED BY <1>0, <1>7, <2>1, CompletedTaskIsIdle, SettledNothing DEF CreateGate
<1>8. CASE (\E g \in Gates : ResolveGate(g)) \/ ReblockTasksWithPendingGates
  BY <1>8 DEF ResolveGate, ReblockTasksWithPendingGates
<1>9. CASE \/ \E d \in Dispatches, h \in Terminals : PrepareStartingWorkerAuthority(d, h)
           \/ \E d \in Dispatches :
                 \/ MarkWorkerDispatchReady(d) \/ MarkWorkerStopUnknown(d)
                 \/ CreateQuestion(d) \/ RegisterFederatedQuestion(d) \/ AnswerQuestion(d)
           \/ RuntimeRestart \/ UNCHANGED vars
  BY <1>0, <1>9 DEF PrepareStartingWorkerAuthority, MarkWorkerDispatchReady,
                    MarkWorkerStopUnknown, CreateQuestion, RegisterFederatedQuestion,
                    AnswerQuestion, RuntimeRestart, graphVars, vars
<1> QED BY <1>1, <1>2, <1>3, <1>4, <1>5, <1>6, <1>7, <1>8, <1>9 DEF Next

\* Whatever order reports, exits, stops and polls arrive in, the end of an attempt
\* never reopens a completed task.
THEOREM LateOutcomeNeverReopens == Spec => LateOutcomeNeverReopensTask
<1> DEFINE A == \A t \in Tasks :
                  task[t] = "completed" /\ task'[t] # "completed"
                    => UNCHANGED <<dispatch, worker, stalled>>
<1>1. IInv /\ [Next]_vars => [A]_vars
  BY OnlyIdleTasksReopen DEF Reopened
<1> QED BY <1>1, Invariance, PTL DEF Spec, LateOutcomeNeverReopensTask
-----------------------------------------------------------------------------
(***************************************************************************)
(* The circuit breaker and the stop of this runtime.                       *)
(***************************************************************************)
\* The row that breaks is one failDispatch counted, so its task fails with it or
\* is held back.
LEMMA FailingNeverLeavesReady ==
    ASSUME IInv, NEW d \in Dispatches, Active(d), task' = FailedTask(d),
           FailureStatus(d) = "circuit_broken"
    PROVE  task'[taskOf[d]] # "ready"
<1>1. taskOf[d] \in Tasks /\ TypeOK /\ Rivals(d) = {}
  BY ActiveIsAlone DEF IInv
<1>2. task[taskOf[d]] # "ready"
  BY TaskOfActive
<1> QED BY <1>1, <1>2, WithTaskEffect DEF FailedTask

LEMMA BreakingStep ==
    ASSUME IInv, [Next]_vars, NEW d \in Dispatches, Settles(d), dispatch'[d] = "circuit_broken"
    PROVE  task'[taskOf[d]] # "ready"
<1>0. /\ TypeOK /\ Active(d) /\ dispatch'[d] # dispatch[d] /\ taskOf[d] \in Tasks
      /\ Rivals(d) = {}
      /\ "circuit_broken" \notin TaskStatuses \cup {"pending", "dispatched", "failed", "completed"}
  BY ActiveIsAlone DEF IInv, Settles, Active, DispatchActive, TaskStatuses, TaskTerminal
<1>1. ASSUME NEW x \in Dispatches, Active(x), FailDispatch(x)
      PROVE  x = d /\ FailureStatus(d) = "circuit_broken"
  BY <1>0, <1>1 DEF FailDispatch, Settled
<1>2. ASSUME NEW x \in Dispatches, PromptSendFails(x)
      PROVE  task'[taskOf[d]] # "ready"
  BY <1>0, <1>1, <1>2, FailingNeverLeavesReady DEF PromptSendFails
<1>3. ASSUME NEW x \in Dispatches, ApplyEscalationToDispatch(x)
      PROVE  task'[taskOf[d]] # "ready"
  <2>1. x = d /\ FailureStatus(d) = "circuit_broken"
    BY <1>0, <1>3 DEF ApplyEscalationToDispatch
  <2> QED BY <1>0, <1>3, <2>1, WithTaskEffect DEF ApplyEscalationToDispatch
<1>4. ASSUME NEW x \in Dispatches, ReconcileMissingWorkerTerminal(x)
      PROVE  task'[taskOf[d]] # "ready"
  <2>1. x = d /\ FailureStatus(d) = "circuit_broken"
    BY <1>1, <1>4 DEF ReconcileMissingWorkerTerminal
  <2>2. task[taskOf[d]] # "ready"
    BY <1>0, TaskOfActive
  <2> QED BY <1>0, <1>4, <2>1, <2>2, WithTaskEffect, ReconciledEffect
          DEF ReconcileMissingWorkerTerminal
<1>5. ASSUME NEW h \in Terminals, TerminalExit(h)
      PROVE  task'[taskOf[d]] # "ready"
  <2>1. PICK x \in Dispatches : \/ FailDispatch(x) /\ Active(x) /\ task' = FailedTask(x)
                                \/ StopSettles(x)
    BY <1>5 DEF TerminalExit
  <2>2. ~StopSettles(x)
    BY <1>0 DEF StopSettles, Settled
  <2> QED BY <1>0, <1>1, <2>1, <2>2, FailingNeverLeavesReady
<1>6. ASSUME NEW t \in Tasks, NEW status \in TaskStatuses, UpdateTaskStatus(t, status)
      PROVE  FALSE
  BY <1>0, <1>6 DEF UpdateTaskStatus, Settled
<1>7. ASSUME NEW x \in Dispatches, NEW t \in Tasks,
             \/ \E h \in Terminals, inject \in BOOLEAN : CreateDispatchContext(x, t, h, inject)
             \/ \E k \in {"local", "federated"} : CreateStartingWorkerDispatch(x, t, k)
      PROVE  FALSE
  BY <1>0, <1>7 DEF CreateDispatchContext, CreateStartingWorkerDispatch, TypeOK
<1>8. ASSUME NEW x \in Dispatches,
             \/ MarkWorkerDispatchReady(x)
             \/ \E unobserved \in BOOLEAN : FailWorkerStart(x, unobserved)
             \/ \E s \in {"ready", "failed", "stopped", "start_unknown"} :
                   ReconcileFederatedWorkerStart(x, s)
             \/ \E o \in {"succeeded", "failed"} : SettleWorkerReport(x, o)
             \/ ReleaseContextOnlyDispatch(x) \/ AbandonWorkerDispatch(x)
             \/ SettleWorkerStop(x) \/ ReconcileFederatedWorkerStop(x)
      PROVE  FALSE
  BY <1>0, <1>8
     DEF MarkWorkerDispatchReady, FailWorkerStart, ReconcileFederatedWorkerStart,
         SettleWorkerReport, ReleaseContextOnlyDispatch, AbandonWorkerDispatch,
         SettleWorkerStop, ReconcileFederatedWorkerStop, StopSettles, Settled, TypeOK
<1>9. ASSUME NEW g \in Gates, NEW t \in Tasks, CreateGate(g, t)
      PROVE  FALSE
  BY <1>0, <1>9 DEF CreateGate, Settled
<1>10. CASE \/ \E t \in Tasks : CreateTask(t)
            \/ \E x \in Dispatches, h \in Terminals : PrepareStartingWorkerAuthority(x, h)
            \/ \E x \in Dispatches : \/ MarkWorkerStartUnknown(x) \/ BeginWorkerStop(x)
                                     \/ MarkWorkerStopUnknown(x)
                                     \/ ResumeFederatedWorkerForTerminalRelay(x)
                                     \/ CreateQuestion(x) \/ RegisterFederatedQuestion(x)
                                     \/ AnswerQuestion(x)
            \/ \E g \in Gates : ResolveGate(g)
            \/ ReblockTasksWithPendingGates \/ RuntimeRestart \/ UNCHANGED vars
  BY <1>0, <1>10
     DEF CreateTask, PrepareStartingWorkerAuthority, MarkWorkerStartUnknown,
         BeginWorkerStop, MarkWorkerStopUnknown, ResumeFederatedWorkerForTerminalRelay,
         CreateQuestion, RegisterFederatedQuestion, AnswerQuestion, ResolveGate,
         ReblockTasksWithPendingGates, RuntimeRestart, graphVars, vars
<1> QED
  BY <1>2, <1>3, <1>4, <1>5, <1>6, <1>7, <1>8, <1>9, <1>10 DEF Next

\* The failure that breaks the circuit of an attempt never leaves its task ready
\* for another automatic dispatch, for every limit.
THEOREM BrokenCircuitNeverLeavesReady == Spec => BrokenCircuitNeverLeavesTaskReady
<1> DEFINE A == \A d \in Dispatches :
                  Settles(d) /\ dispatch'[d] = "circuit_broken" => task'[taskOf[d]] # "ready"
<1>1. IInv /\ [Next]_vars => [A]_vars
  BY BreakingStep
<1> QED BY <1>1, Invariance, PTL DEF Spec, BrokenCircuitNeverLeavesTaskReady

\* A worker this runtime is stopping moves only by the outcome of the stop, or
\* back to the report a paired host has already relayed.
LEMMA StoppingStep ==
    ASSUME IInv, [Next]_vars, NEW d \in Dispatches, StopInFlight(d), worker'[d] # worker[d]
    PROVE  worker'[d] \in {"stopped", "stop_unknown", "ready"}
<1>0. TypeOK /\ worker[d] = "stopping" /\ workerEpoch[d] = epoch /\ Supervised(d)
  BY DEF IInv, StopInFlight, Supervised
<1>1. ASSUME NEW x \in Dispatches, NEW state, worker' = WithWorker(x, state)
      PROVE  x = d /\ worker'[d] = state
  BY <1>0, <1>1, WithWorkerEffect
<1>2. CASE UNCHANGED worker
  BY <1>2
<1>3. ASSUME NEW x \in Dispatches,
             \/ MarkWorkerDispatchReady(x) \/ MarkWorkerStartUnknown(x)
             \/ MarkWorkerStopUnknown(x) \/ ResumeFederatedWorkerForTerminalRelay(x)
             \/ SettleWorkerStop(x) \/ ReconcileFederatedWorkerStop(x)
      PROVE  worker'[d] \in {"stopped", "stop_unknown", "ready"}
  BY <1>0, <1>1, <1>3
     DEF MarkWorkerDispatchReady, MarkWorkerStartUnknown, StartInFlight,
         MarkWorkerStopUnknown, ResumeFederatedWorkerForTerminalRelay, SettleWorkerStop,
         ReconcileFederatedWorkerStop, StopSettles
<1>4. ASSUME NEW x \in Dispatches,
             \/ \E t \in Tasks, k \in {"local", "federated"} : CreateStartingWorkerDispatch(x, t, k)
             \/ \E unobserved \in BOOLEAN : FailWorkerStart(x, unobserved)
             \/ \E s \in {"ready", "failed", "stopped", "start_unknown"} :
                   ReconcileFederatedWorkerStart(x, s)
             \/ BeginWorkerStop(x) \/ AbandonWorkerDispatch(x)
      PROVE  FALSE
  <2>1. \E state : worker' = WithWorker(x, state)
    BY <1>4 DEF CreateStartingWorkerDispatch, FailWorkerStart,
                ReconcileFederatedWorkerStart, BeginWorkerStop, AbandonWorkerDispatch
  <2>2. x = d
    BY <1>1, <2>1
  <2>3. dispatch[d] # "absent"
    BY <1>0 DEF IInv, AttemptsAgree, RowShape
  <2> QED BY <1>0, <1>4, <2>2, <2>3
          DEF CreateStartingWorkerDispatch, NextRow, FailWorkerStart, StartInFlight,
              ReconcileFederatedWorkerStart, BeginWorkerStop, AbandonWorkerDispatch,
              MayAbandon
<1>5. ASSUME NEW x \in Dispatches, NEW outcome \in {"succeeded", "failed"},
             SettleWorkerReport(x, outcome)
      PROVE  FALSE
  <2>1. x = d
    BY <1>1, <1>2, <1>5 DEF SettleWorkerReport
  <2>2. Active(d) /\ task[taskOf[d]] = "blocked"
    BY <1>0, LiveWorkerIsSupervised, TaskOfActive DEF WorkerUnsettled, Suspended
  <2> QED BY <1>0, <1>5, <2>1, <2>2
          DEF SettleWorkerReport, Correcting, Reconnecting, ReportingStart
<1>6. ASSUME NEW x \in Dispatches, ReconcileMissingWorkerTerminal(x)
      PROVE  worker'[d] = "stopped"
  BY <1>0, <1>1, <1>6 DEF ReconcileMissingWorkerTerminal
<1>7. ASSUME NEW h \in Terminals, TerminalExit(h)
      PROVE  worker'[d] = "stopped"
  BY <1>0, <1>1, <1>7 DEF TerminalExit, StopSettles, StopInFlight
<1>8. CASE \/ \E t \in Tasks : CreateTask(t) \/ \E s \in TaskStatuses : UpdateTaskStatus(t, s)
           \/ \E x \in Dispatches, t \in Tasks, h \in Terminals, inject \in BOOLEAN :
                 CreateDispatchContext(x, t, h, inject)
           \/ \E x \in Dispatches : \/ PromptSendFails(x) \/ ApplyEscalationToDispatch(x)
                                    \/ \E h \in Terminals : PrepareStartingWorkerAuthority(x, h)
                                    \/ ReleaseContextOnlyDispatch(x) \/ CreateQuestion(x)
                                    \/ RegisterFederatedQuestion(x) \/ AnswerQuestion(x)
           \/ \E g \in Gates : ResolveGate(g) \/ \E t \in Tasks : CreateGate(g, t)
           \/ ReblockTasksWithPendingGates \/ RuntimeRestart \/ UNCHANGED vars
  BY <1>2, <1>8
     DEF CreateTask, UpdateTaskStatus, CreateDispatchContext, PromptSendFails,
         ApplyEscalationToDispatch, PrepareStartingWorkerAuthority,
         ReleaseContextOnlyDispatch, CreateQuestion, RegisterFederatedQuestion,
         AnswerQuestion, ResolveGate, CreateGate, ReblockTasksWithPendingGates,
         RuntimeRestart, graphVars, vars
<1> QED BY <1>2, <1>3, <1>4, <1>5, <1>6, <1>7, <1>8 DEF Next

\* A process that exits, reports or disappears while this runtime is stopping it
\* is never recorded as a crash, however those races end.
THEOREM OwnStopNeverACrash == Spec => OwnStopNeverReadsAsCrash
<1> DEFINE A == \A d \in Dispatches :
                  StopInFlight(d) /\ worker'[d] # worker[d] =>
                      worker'[d] \in {"stopped", "stop_unknown", "ready"}
<1>1. IInv /\ [Next]_vars => [A]_vars
  BY StoppingStep
<1> QED BY <1>1, Invariance, PTL DEF Spec, OwnStopNeverReadsAsCrash
-----------------------------------------------------------------------------
(***************************************************************************)
(* Promotion: a completion releases what waited on it alone.               *)
(***************************************************************************)
\* A task that names itself can never be created, so no created task waits on
\* its own completion.
NoSelfWait == \A t \in Tasks : t \in Deps[t] => task[t] = "absent"

WInv == IInv /\ NoSelfWait

\* A completion, and every status it changes.
Completes(t) == task[t] # "absent" /\ task' = Promoted(WithTask(t, "completed"), t)

\* Every other step: no task completes, and no absent one appears uncreated.
CompletesNothing ==
    \A t \in Tasks : \/ task'[t] = task[t]
                     \/ /\ task'[t] # "completed"
                        /\ task[t] = "absent" => \A dep \in Deps[t] : task[dep] # "absent"

LEMMA WithTaskCompletesNothing ==
    ASSUME TypeOK, NEW t \in Tasks, NEW status, task' = WithTask(t, status),
           status # "completed", task[t] # "absent"
    PROVE  CompletesNothing
BY WithTaskEffect DEF CompletesNothing

LEMMA OwnTaskCompletesNothing ==
    ASSUME IInv, NEW d \in Dispatches, TouchesOwnTask(d)
    PROVE  CompletesNothing
BY TaskOfActive DEF TouchesOwnTask, Unfinished, CompletesNothing

LEMMA EveryTaskStep ==
    ASSUME IInv, [Next]_vars
    PROVE  CompletesNothing \/ \E t \in Tasks : Completes(t)
<1>0. TypeOK
  BY DEF IInv
<1>1. CASE task' = task
  BY <1>1 DEF CompletesNothing
<1>2. ASSUME NEW t \in Tasks, CreateTask(t)
      PROVE  CompletesNothing
  BY <1>0, <1>2, WithTaskEffect DEF CreateTask, CompletesNothing
<1>3. ASSUME NEW t \in Tasks, NEW status \in TaskStatuses, UpdateTaskStatus(t, status)
      PROVE  CompletesNothing \/ Completes(t)
  BY <1>0, <1>3, WithTaskCompletesNothing DEF UpdateTaskStatus, MayUpdateTask, Completes
<1>4. ASSUME NEW d \in Dispatches, NEW t \in Tasks,
             \/ \E h \in Terminals, inject \in BOOLEAN : CreateDispatchContext(d, t, h, inject)
             \/ \E k \in {"local", "federated"} : CreateStartingWorkerDispatch(d, t, k)
      PROVE  CompletesNothing
  BY <1>0, <1>4, WithTaskCompletesNothing
     DEF CreateDispatchContext, CreateStartingWorkerDispatch, MayRetry
<1>5. ASSUME NEW d \in Dispatches,
             \/ PromptSendFails(d) \/ ApplyEscalationToDispatch(d)
             \/ \E unobserved \in BOOLEAN : FailWorkerStart(d, unobserved)
             \/ MarkWorkerStartUnknown(d) \/ ReleaseContextOnlyDispatch(d)
             \/ BeginWorkerStop(d) \/ SettleWorkerStop(d) \/ ReconcileFederatedWorkerStop(d)
             \/ \E s \in {"ready", "failed", "stopped", "start_unknown"} :
                   ReconcileFederatedWorkerStart(d, s)
             \/ ResumeFederatedWorkerForTerminalRelay(d) \/ AbandonWorkerDispatch(d)
             \/ ReconcileMissingWorkerTerminal(d)
      PROVE  CompletesNothing
  BY <1>5, AttemptStepsTouchOwnTask, OwnTaskCompletesNothing
<1>6. ASSUME NEW d \in Dispatches, NEW outcome \in {"succeeded", "failed"},
             SettleWorkerReport(d, outcome)
      PROVE  CompletesNothing \/ \E t \in Tasks : Completes(t)
  <2>1. taskOf[d] \in Tasks /\ task[taskOf[d]] # "absent"
    BY <1>6, TaskOfActive
       DEF SettleWorkerReport, Correcting, Reconnecting, ReportingStart, IInv,
           AttemptsAgree, RowShape, Active, DispatchActive
  <2> QED BY <1>0, <1>6, <2>1, WithTaskCompletesNothing DEF SettleWorkerReport, Completes
<1>7. ASSUME NEW h \in Terminals, TerminalExit(h)
      PROVE  CompletesNothing
  BY <1>7, TerminalExitTouchesOwnTask, OwnTaskCompletesNothing
<1>8. ASSUME NEW g \in Gates, NEW t \in Tasks, CreateGate(g, t)
      PROVE  CompletesNothing
  BY <1>0, <1>8, WithTaskCompletesNothing DEF CreateGate
<1>9. ASSUME NEW g \in Gates, ResolveGate(g)
      PROVE  CompletesNothing
  BY <1>0, <1>9 DEF ResolveGate, MayUpdateTask, WithTask, TypeOK, CompletesNothing
<1>10. ASSUME ReblockTasksWithPendingGates
       PROVE  CompletesNothing
  <2> SUFFICES ASSUME NEW t \in Tasks, task'[t] # task[t]
               PROVE  task'[t] = "blocked" /\ task[t] # "absent"
    BY DEF CompletesNothing
  <2>1. PICK g \in PendingGates : gate[g].task = t /\ MayUpdateTask(gate[g].task, "blocked")
    BY <1>0, <1>10, BoundsAssumption
       DEF ReblockTasksWithPendingGates, PendingGates, Gates, TypeOK
  <2>2. task'[t] = "blocked"
    BY <1>0, <1>10 DEF ReblockTasksWithPendingGates, TypeOK
  <2> QED BY <2>1, <2>2 DEF MayUpdateTask
<1>11. ASSUME \/ \E d \in Dispatches, h \in Terminals : PrepareStartingWorkerAuthority(d, h)
              \/ \E d \in Dispatches :
                    \/ MarkWorkerDispatchReady(d) \/ MarkWorkerStopUnknown(d)
                    \/ CreateQuestion(d) \/ RegisterFederatedQuestion(d) \/ AnswerQuestion(d)
              \/ RuntimeRestart \/ UNCHANGED vars
       PROVE  task' = task
  BY <1>11 DEF PrepareStartingWorkerAuthority, MarkWorkerDispatchReady,
               MarkWorkerStopUnknown, CreateQuestion, RegisterFederatedQuestion,
               AnswerQuestion, RuntimeRestart, graphVars, vars
<1> QED
  BY <1>1, <1>2, <1>3, <1>4, <1>5, <1>6, <1>7, <1>8, <1>9, <1>10, <1>11 DEF Next

LEMMA SelfWaitInvariance == Spec => []WInv
<1>1. Init => NoSelfWait
  BY DEF Init, NoSelfWait
<1>2. ASSUME WInv, [Next]_vars PROVE NoSelfWait'
  <2>1. CASE CompletesNothing
    BY <1>2, <2>1 DEF WInv, NoSelfWait, CompletesNothing
  <2>2. ASSUME NEW t \in Tasks, Completes(t) PROVE NoSelfWait'
    BY <1>2, <2>2, PromotedEffect DEF WInv, IInv, NoSelfWait, Completes
  <2> QED BY <1>2, <2>1, <2>2, EveryTaskStep DEF WInv
<1>3. WInv /\ [Next]_vars => WInv'
  BY <1>2, NextAgrees DEF WInv
<1>4. Init => WInv
  BY <1>1, InitType, InitAgrees DEF WInv, IInv
<1> QED BY <1>3, <1>4, PTL DEF Spec

LEMMA PromotingStep ==
    ASSUME WInv, [Next]_vars, NEW t \in Tasks, NEW c \in Tasks,
           task[t] # "completed", task'[t] = "completed", t \in Deps[c], task[c] = "pending",
           \A dep \in Deps[c] : task'[dep] = "completed"
    PROVE  task'[c] = "ready"
<1>0. TypeOK /\ Deps[c] \subseteq Tasks
  BY DepsAssumption DEF WInv, IInv
<1>1. PICK done \in Tasks : Completes(done)
  BY EveryTaskStep DEF WInv, CompletesNothing
<1>2. done = t
  BY <1>0, <1>1, PromotedEffect DEF Completes
<1>3. c # t
  BY DEF WInv, NoSelfWait
<1>4. \A dep \in Deps[c] : WithTask(t, "completed")[dep] = "completed"
  BY <1>0, <1>1, <1>2, PromotedEffect, WithTaskEffect DEF Completes
<1>5. WithTask(t, "completed")[c] = "pending"
  BY <1>0, <1>3, WithTaskEffect
<1> QED BY <1>1, <1>2, <1>4, <1>5 DEF Completes, Promoted

\* Whichever operation completes a task, and whatever the dependency graph, every
\* dependent that waited on it alone becomes ready in the same transaction.
THEOREM CompletionAlwaysPromotes == Spec => CompletionPromotesDependents
<1> DEFINE A == \A t, c \in Tasks :
                  /\ task[t] # "completed" /\ task'[t] = "completed"
                  /\ t \in Deps[c] /\ task[c] = "pending"
                  /\ \A dep \in Deps[c] : task'[dep] = "completed"
                  => task'[c] = "ready"
<1>1. WInv /\ [Next]_vars => [A]_vars
  BY PromotingStep
<1> QED BY <1>1, SelfWaitInvariance, PTL DEF Spec, CompletionPromotesDependents
=============================================================================
