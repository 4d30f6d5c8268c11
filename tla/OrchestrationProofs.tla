------------------------- MODULE OrchestrationProofs -------------------------
(***************************************************************************)
(* Theorems about the attempt lifecycle, for every value of the constants. *)
(***************************************************************************)
EXTENDS Orchestration, TLAPS

(***************************************************************************)
(* What the shared writes return.                                          *)
(***************************************************************************)
LEMMA SettledType ==
    ASSUME TypeOK, NEW ds, NEW status \in DispatchStatuses
    PROVE  Settled(ds, status) \in [Dispatches -> DispatchStatuses \cup {"absent"}]
BY DEF TypeOK, Settled

LEMMA RevokedType ==
    ASSUME TypeOK, NEW ds
    PROVE  Revoked(ds) \in [Dispatches -> {"none", "live", "revoked"}]
BY DEF TypeOK, Revoked

LEMMA TaskType ==
    ASSUME TypeOK, NEW t, NEW status \in TaskStatuses
    PROVE  WithTask(t, status) \in [Tasks -> TaskStatuses \cup {"absent"}]
BY DEF TypeOK, WithTask

LEMMA WorkerType ==
    ASSUME TypeOK, NEW d, NEW state \in WorkerStates
    PROVE  WithWorker(d, state) \in [Dispatches -> WorkerStates \cup {"none"}]
BY DEF TypeOK, WithWorker

LEMMA PromotedType ==
    ASSUME NEW statuses \in [Tasks -> TaskStatuses \cup {"absent"}], NEW t
    PROVE  Promoted(statuses, t) \in [Tasks -> TaskStatuses \cup {"absent"}]
BY DEF Promoted, TaskStatuses, TaskTerminal

LEMMA ReconciledType ==
    ASSUME TypeOK, NEW d
    PROVE  Reconciled(d) \in [Tasks -> TaskStatuses \cup {"absent"}]
BY DEF TypeOK, Reconciled, TaskStatuses, TaskTerminal

LEMMA FailedTaskType ==
    ASSUME TypeOK, NEW d
    PROVE  FailedTask(d) \in [Tasks -> TaskStatuses \cup {"absent"}]
BY TaskType DEF TypeOK, FailedTask, TaskStatuses, TaskTerminal

LEMMA FailDispatchType ==
    ASSUME TypeOK, NEW d \in Dispatches, FailDispatch(d)
    PROVE  /\ dispatch' \in [Dispatches -> DispatchStatuses \cup {"absent"}]
           /\ failures' \in [Dispatches -> Nat]
           /\ capability' \in [Dispatches -> {"none", "live", "revoked"}]
           /\ asking' \subseteq Dispatches
<1>1. FailureStatus(d) \in DispatchStatuses
  BY DEF FailureStatus, DispatchStatuses, DispatchSettled
<1>2. failures[d] + 1 \in Nat
  BY DEF TypeOK
<1> QED BY <1>1, <1>2, SettledType, RevokedType DEF TypeOK, FailDispatch

LEMMA StopSettlesType ==
    ASSUME TypeOK, NEW d \in Dispatches, StopSettles(d)
    PROVE  /\ dispatch' \in [Dispatches -> DispatchStatuses \cup {"absent"}]
           /\ failures' \in [Dispatches -> Nat]
           /\ capability' \in [Dispatches -> {"none", "live", "revoked"}]
           /\ asking' \subseteq Dispatches
           /\ worker' \in [Dispatches -> WorkerStates \cup {"none"}]
           /\ task' \in [Tasks -> TaskStatuses \cup {"absent"}]
<1>1. "failed" \in DispatchStatuses /\ "stopped" \in WorkerStates
  BY DEF DispatchStatuses, DispatchSettled, WorkerStates, WorkerSettled
<1> QED BY <1>1, SettledType, WorkerType, ReconciledType DEF TypeOK, StopSettles

-----------------------------------------------------------------------------
(***************************************************************************)
(* The tables hold what their columns admit.                               *)
(***************************************************************************)
LEMMA InitType == Init => TypeOK
BY MaxDispatchAssumption, BoundsAssumption
   DEF Init, TypeOK, Epochs, Gates, Dispatches

LEMMA NextType == TypeOK /\ [Next]_vars => TypeOK'
<1> SUFFICES ASSUME TypeOK, [Next]_vars PROVE TypeOK'
  OBVIOUS
<1>w. /\ {"ready", "pending", "dispatched", "blocked", "failed", "completed"} \subseteq TaskStatuses
      /\ {"pending", "dispatched", "completed", "failed", "circuit_broken"} \subseteq DispatchStatuses
      /\ {"starting", "start_unknown", "ready", "stopping", "stop_unknown",
          "succeeded", "failed", "stopped", "abandoned"} \subseteq WorkerStates
      /\ TaskTerminal = {"completed", "failed"}
  BY DEF TaskStatuses, TaskTerminal, DispatchStatuses, DispatchActive, DispatchSettled,
         WorkerStates, WorkerSettled, WorkerUnsettled
<1>1. ASSUME NEW t \in Tasks,
             CreateTask(t)
      PROVE  TypeOK'
  BY <1>1, <1>w, TaskType DEF TypeOK, CreateTask, authorityVars
<1>2. ASSUME NEW t \in Tasks, NEW s \in TaskStatuses,
             UpdateTaskStatus(t, s)
      PROVE  TypeOK'
  <2> DEFINE settles == IF s \in TaskTerminal THEN ActiveOf(t) ELSE {}
  <2>2. Settled(settles, s) \in [Dispatches -> DispatchStatuses \cup {"absent"}]
    BY <1>w, SettledType DEF TypeOK, Settled
  <2>3. WithTask(t, s) \in [Tasks -> TaskStatuses \cup {"absent"}]
    BY TaskType
  <2> QED BY <1>2, <2>2, <2>3, PromotedType, RevokedType DEF TypeOK, UpdateTaskStatus
<1>3. ASSUME NEW d \in Dispatches, NEW t \in Tasks, NEW h \in Terminals, NEW inject \in BOOLEAN,
             CreateDispatchContext(d, t, h, inject)
      PROVE  TypeOK'
  BY <1>3, <1>w, TaskType DEF TypeOK, CreateDispatchContext
<1>4. ASSUME NEW d \in Dispatches, NEW t \in Tasks, NEW k \in {"local", "federated"},
             CreateStartingWorkerDispatch(d, t, k)
      PROVE  TypeOK'
  BY <1>4, <1>w, TaskType, WorkerType DEF TypeOK, CreateStartingWorkerDispatch, authorityVars
<1>5. ASSUME NEW d \in Dispatches,
             PromptSendFails(d)
      PROVE  TypeOK'
  BY <1>5, <1>w, FailDispatchType, FailedTaskType DEF TypeOK, PromptSendFails
<1>6. ASSUME NEW d \in Dispatches,
             ApplyEscalationToDispatch(d)
      PROVE  TypeOK'
  <2>1. dispatch' \in [Dispatches -> DispatchStatuses \cup {"absent"}]
    BY <1>6, <1>w DEF TypeOK, ApplyEscalationToDispatch, FailureStatus
  <2>2. task' \in [Tasks -> TaskStatuses \cup {"absent"}]
    BY <1>6, <1>w, TaskType, FailedTaskType DEF ApplyEscalationToDispatch
  <2>3. failures' \in [Dispatches -> Nat]
    BY <1>6 DEF TypeOK, ApplyEscalationToDispatch
  <2> QED BY <1>6, <2>1, <2>2, <2>3, RevokedType DEF TypeOK, ApplyEscalationToDispatch
<1>7. ASSUME NEW d \in Dispatches, NEW h \in Terminals,
             PrepareStartingWorkerAuthority(d, h)
      PROVE  TypeOK'
  BY <1>7, <1>w DEF TypeOK, PrepareStartingWorkerAuthority, graphVars
<1>8. ASSUME NEW d \in Dispatches,
             MarkWorkerDispatchReady(d)
      PROVE  TypeOK'
  BY <1>8, <1>w, WorkerType DEF TypeOK, MarkWorkerDispatchReady, authorityVars
<1>9. ASSUME NEW d \in Dispatches,
             MarkWorkerStartUnknown(d)
      PROVE  TypeOK'
  BY <1>9, <1>w, WorkerType, TaskType DEF TypeOK, MarkWorkerStartUnknown, authorityVars
<1>10. ASSUME NEW d \in Dispatches, NEW u \in BOOLEAN,
              FailWorkerStart(d, u)
       PROVE  TypeOK'
  BY <1>10, <1>w, SettledType, RevokedType, WorkerType, TaskType DEF TypeOK, FailWorkerStart
<1>11. ASSUME NEW d \in Dispatches, NEW s \in {"ready", "failed", "stopped", "start_unknown"},
              ReconcileFederatedWorkerStart(d, s)
       PROVE  TypeOK'
  BY <1>11, <1>w, SettledType, RevokedType, WorkerType, TaskType, ReconciledType DEF TypeOK, ReconcileFederatedWorkerStart
<1>12. ASSUME NEW d \in Dispatches, NEW o \in {"succeeded", "failed"},
              SettleWorkerReport(d, o)
       PROVE  TypeOK'
  BY <1>12, <1>w, SettledType, RevokedType, WorkerType, TaskType, PromotedType DEF TypeOK, SettleWorkerReport
<1>13. ASSUME NEW d \in Dispatches,
              ReleaseContextOnlyDispatch(d)
       PROVE  TypeOK'
  BY <1>13, <1>w, SettledType, RevokedType, TaskType DEF TypeOK, ReleaseContextOnlyDispatch
<1>14. ASSUME NEW d \in Dispatches,
              BeginWorkerStop(d)
       PROVE  TypeOK'
  BY <1>14, <1>w, WorkerType, RevokedType, ReconciledType DEF TypeOK, BeginWorkerStop
<1>15. ASSUME NEW d \in Dispatches,
              SettleWorkerStop(d)
       PROVE  TypeOK'
  BY <1>15, <1>w, StopSettlesType DEF TypeOK, SettleWorkerStop
<1>16. ASSUME NEW d \in Dispatches,
              MarkWorkerStopUnknown(d)
       PROVE  TypeOK'
  BY <1>16, <1>w, WorkerType DEF TypeOK, MarkWorkerStopUnknown, authorityVars
<1>17. ASSUME NEW d \in Dispatches,
              ReconcileFederatedWorkerStop(d)
       PROVE  TypeOK'
  BY <1>17, <1>w, StopSettlesType DEF TypeOK, ReconcileFederatedWorkerStop
<1>18. ASSUME NEW d \in Dispatches,
              ResumeFederatedWorkerForTerminalRelay(d)
       PROVE  TypeOK'
  BY <1>18, <1>w, WorkerType, TaskType DEF TypeOK, ResumeFederatedWorkerForTerminalRelay, authorityVars
<1>19. ASSUME NEW d \in Dispatches,
              AbandonWorkerDispatch(d)
       PROVE  TypeOK'
  BY <1>19, <1>w, SettledType, RevokedType, WorkerType, ReconciledType DEF TypeOK, AbandonWorkerDispatch
<1>20. ASSUME NEW d \in Dispatches,
              ReconcileMissingWorkerTerminal(d)
       PROVE  TypeOK'
  BY <1>20, <1>w, FailDispatchType, WorkerType, TaskType, ReconciledType DEF TypeOK, ReconcileMissingWorkerTerminal
<1>21. ASSUME NEW d \in Dispatches,
              CreateQuestion(d)
       PROVE  TypeOK'
  BY <1>21, <1>w DEF TypeOK, CreateQuestion, graphVars, authorityVars
<1>22. ASSUME NEW d \in Dispatches,
              RegisterFederatedQuestion(d)
       PROVE  TypeOK'
  BY <1>22, <1>w DEF TypeOK, RegisterFederatedQuestion, graphVars, authorityVars
<1>23. ASSUME NEW d \in Dispatches,
              AnswerQuestion(d)
       PROVE  TypeOK'
  BY <1>23, <1>w DEF TypeOK, AnswerQuestion, graphVars, authorityVars
<1>24. ASSUME NEW h \in Terminals,
              TerminalExit(h)
       PROVE  TypeOK'
  BY <1>24, <1>w, FailDispatchType, StopSettlesType, FailedTaskType, WorkerType DEF TypeOK, TerminalExit
<1>25. ASSUME NEW g \in Gates,
              ResolveGate(g)
       PROVE  TypeOK'
  BY <1>25, <1>w, TaskType DEF TypeOK, ResolveGate, authorityVars
<1>26. ASSUME NEW g \in Gates, NEW t \in Tasks,
              CreateGate(g, t)
       PROVE  TypeOK'
  BY <1>26, <1>w, SettledType, RevokedType, TaskType DEF TypeOK, CreateGate
<1>27. ASSUME ReblockTasksWithPendingGates
       PROVE  TypeOK'
  BY <1>27, <1>w DEF TypeOK, ReblockTasksWithPendingGates, authorityVars
<1>28. ASSUME RuntimeRestart
       PROVE  TypeOK'
  BY <1>28, <1>w, BoundsAssumption DEF TypeOK, RuntimeRestart, graphVars, authorityVars, Epochs
<1>29. CASE UNCHANGED vars
  BY <1>29 DEF vars, TypeOK
<1> QED
  BY <1>1, <1>2, <1>3, <1>4, <1>5, <1>6, <1>7, <1>8, <1>9, <1>10, <1>11, <1>12, <1>13, <1>14, <1>15, <1>16, <1>17, <1>18, <1>19, <1>20, <1>21, <1>22, <1>23, <1>24, <1>25, <1>26, <1>27, <1>28, <1>29 DEF Next

\* Every reachable state of the database, whatever the number of tasks, rows,
\* panes, gates and restarts, holds only statuses its tables declare.
THEOREM TypeCorrect == Spec => []TypeOK
<1>1. Init => TypeOK
  BY InitType
<1>2. TypeOK /\ [Next]_vars => TypeOK'
  BY NextType
<1> QED BY <1>1, <1>2, PTL DEF Spec
-----------------------------------------------------------------------------
(***************************************************************************)
(* The five shapes a transaction can have, and why each preserves the      *)
(* agreement of tasks, dispatches and workers.                             *)
(***************************************************************************)
IInv == TypeOK /\ AttemptsAgree

\* One attempt is over, and nothing else attempts its task.
EndsAttempt(d) ==
    /\ dispatch[d] # "absent"
    /\ \A x \in Dispatches \ {d} : Active(x) => taskOf[x] # taskOf[d]
    /\ dispatch'[d] \in DispatchSettled
    /\ \/ worker[d] = "none" /\ worker'[d] = "none"
       \/ worker[d] # "none" /\ worker'[d] \in WorkerSettled
    /\ \A x \in Dispatches \ {d} : dispatch'[x] = dispatch[x] /\ worker'[x] = worker[x]
    /\ task'[taskOf[d]] # "dispatched"
    /\ \A t \in Tasks \ {taskOf[d]} :
          task'[t] = task[t] \/ (task[t] = "pending" /\ task'[t] = "ready")
    /\ UNCHANGED <<taskOf, kind>>

\* A live worker moves to another unsettled state, and its task with it.
MovesWorker(d) ==
    /\ LiveWorker(d)
    /\ dispatch'[d] \in DispatchActive
    /\ worker'[d] \in WorkerUnsettled
    /\ \A x \in Dispatches \ {d} : dispatch'[x] = dispatch[x] /\ worker'[x] = worker[x]
    /\ task'[taskOf[d]] = IF worker'[d] \in Suspended THEN "blocked" ELSE "dispatched"
    /\ \A t \in Tasks \ {taskOf[d]} : task'[t] = task[t]
    /\ UNCHANGED <<taskOf, kind>>

\* Tasks nobody attempts change their status, never to "dispatched".
MovesIdleTasks ==
    /\ \A t \in Tasks : \/ task'[t] = task[t]
                        \/ ActiveOf(t) = {} /\ task'[t] # "dispatched"
    /\ UNCHANGED <<taskOf, kind, dispatch, worker>>

\* A row is inserted for a task nobody attempts.
StartsAttempt(d, t) ==
    /\ NextRow(d)
    /\ ActiveOf(t) = {}
    /\ taskOf' = [taskOf EXCEPT ![d] = t]
    /\ dispatch'[d] \in DispatchActive
    /\ \/ worker'[d] = "none"
       \/ worker'[d] = "starting" /\ kind'[d] # "context"
    /\ \A x \in Dispatches \ {d} :
          dispatch'[x] = dispatch[x] /\ worker'[x] = worker[x] /\ kind'[x] = kind[x]
    /\ task' = WithTask(t, "dispatched")

LEMMA ActiveIsAlone ==
    ASSUME IInv, NEW d \in Dispatches, Active(d)
    PROVE  /\ Rivals(d) = {}
           /\ taskOf[d] \in Tasks
           /\ ActiveOf(taskOf[d]) = {d}
           /\ \A x \in Dispatches \ {d} : Active(x) => taskOf[x] # taskOf[d]
<1>1. taskOf[d] \in Tasks
  BY DEF IInv, AttemptsAgree, RowShape, Active, DispatchActive
<1>2. ASSUME NEW x \in Dispatches, Active(x), taskOf[x] = taskOf[d] PROVE x = d
  <2>1. x <= d /\ d <= x
    BY <1>2 DEF IInv, AttemptsAgree, ActiveAttemptIsLatest, LatestOf
  <2> QED BY <2>1, MaxDispatchAssumption DEF Dispatches
<1> QED BY <1>1, <1>2 DEF Rivals, ActiveOf

LEMMA LiveIsActive ==
    ASSUME IInv, NEW d \in Dispatches, LiveWorker(d)
    PROVE  Active(d) /\ worker[d] # "none"
BY DEF IInv, AttemptsAgree, WorkerAndDispatchSettleTogether, Supervised, LiveWorker,
       WorkerUnsettled

LEMMA EndsAttemptPreserves ==
    ASSUME IInv, NEW d \in Dispatches, EndsAttempt(d)
    PROVE  AttemptsAgree'
<1> USE DEF IInv, AttemptsAgree
<1>1. /\ ~Active(d)'
      /\ dispatch'[d] # "absent"
      /\ taskOf' = taskOf /\ kind' = kind
  BY DEF EndsAttempt, Active, DispatchSettled, DispatchActive
<1>2. \A x \in Dispatches \ {d} : Active(x)' <=> Active(x)
  BY DEF EndsAttempt, Active
<1>3. RowShape'
  BY <1>1 DEF EndsAttempt, RowShape
<1>4. RowsInOrder'
  BY <1>1 DEF EndsAttempt, RowsInOrder
<1>5. TaskMirrorsAttempt'
  <2> SUFFICES ASSUME NEW x \in Dispatches, Active(x)'
               PROVE  task'[taskOf[x]] = IF worker'[x] \in Suspended THEN "blocked" ELSE "dispatched"
    BY <1>1 DEF TaskMirrorsAttempt
  <2>1. x # d /\ Active(x) /\ taskOf[x] \in Tasks \ {taskOf[d]} /\ worker'[x] = worker[x]
    BY <1>1, <1>2, ActiveIsAlone DEF EndsAttempt
  <2>2. task[taskOf[x]] # "pending"
    BY <2>1 DEF TaskMirrorsAttempt
  <2> QED BY <2>1, <2>2 DEF EndsAttempt, TaskMirrorsAttempt
<1>6. DispatchedTaskHasAttempt'
  <2> SUFFICES ASSUME NEW t \in Tasks, task'[t] = "dispatched"
               PROVE  \E x \in Dispatches : taskOf'[x] = t /\ Active(x)'
    BY DEF DispatchedTaskHasAttempt, ActiveOf
  <2>1. t # taskOf[d] /\ task[t] = "dispatched"
    BY DEF EndsAttempt
  <2>2. PICK x \in Dispatches : taskOf[x] = t /\ Active(x)
    BY <2>1 DEF DispatchedTaskHasAttempt, ActiveOf
  <2> QED BY <2>1, <2>2, <1>1, <1>2
<1>7. ActiveAttemptIsLatest'
  BY <1>1, <1>2 DEF ActiveAttemptIsLatest, LatestOf
<1>8. WorkerAndDispatchSettleTogether'
  <2> SUFFICES ASSUME NEW x \in Dispatches, Supervised(x)'
               PROVE  LiveWorker(x)' <=> Active(x)'
    BY DEF WorkerAndDispatchSettleTogether
  <2>1. CASE x = d
    BY <2>1, <1>1 DEF EndsAttempt, Supervised, LiveWorker, WorkerSettled, WorkerUnsettled
  <2>2. CASE x # d
    BY <2>2, <1>2 DEF EndsAttempt, WorkerAndDispatchSettleTogether, Supervised, LiveWorker
  <2> QED BY <2>1, <2>2
<1> QED BY <1>3, <1>4, <1>5, <1>6, <1>7, <1>8

LEMMA MovesWorkerPreserves ==
    ASSUME IInv, NEW d \in Dispatches, MovesWorker(d)
    PROVE  AttemptsAgree'
<1> USE DEF IInv, AttemptsAgree
<1>1. /\ Active(d) /\ worker[d] # "none" /\ Active(d)' /\ worker'[d] # "none"
      /\ taskOf[d] \in Tasks /\ dispatch[d] # "absent" /\ dispatch'[d] # "absent"
      /\ taskOf' = taskOf /\ kind' = kind
  BY LiveIsActive, ActiveIsAlone DEF MovesWorker, Active, DispatchActive, WorkerUnsettled
<1>2. \A x \in Dispatches : Active(x)' <=> Active(x)
  BY <1>1 DEF MovesWorker, Active
<1>3. RowShape'
  BY <1>1 DEF MovesWorker, RowShape
<1>4. RowsInOrder'
  BY <1>1 DEF MovesWorker, RowsInOrder
<1>5. TaskMirrorsAttempt'
  <2> SUFFICES ASSUME NEW x \in Dispatches, Active(x)'
               PROVE  task'[taskOf[x]] = IF worker'[x] \in Suspended THEN "blocked" ELSE "dispatched"
    BY <1>1 DEF TaskMirrorsAttempt
  <2>1. CASE x = d
    BY <2>1 DEF MovesWorker
  <2>2. CASE x # d
    <3>1. Active(x) /\ taskOf[x] \in Tasks \ {taskOf[d]} /\ worker'[x] = worker[x]
      BY <2>2, <1>1, <1>2, ActiveIsAlone DEF MovesWorker
    <3> QED BY <3>1 DEF MovesWorker, TaskMirrorsAttempt
  <2> QED BY <2>1, <2>2
<1>6. DispatchedTaskHasAttempt'
  <2> SUFFICES ASSUME NEW t \in Tasks, task'[t] = "dispatched"
               PROVE  \E x \in Dispatches : taskOf'[x] = t /\ Active(x)'
    BY DEF DispatchedTaskHasAttempt, ActiveOf
  <2>1. CASE t = taskOf[d]
    BY <2>1, <1>1
  <2>2. CASE t # taskOf[d]
    <3>1. PICK x \in Dispatches : taskOf[x] = t /\ Active(x)
      BY <2>2 DEF MovesWorker, DispatchedTaskHasAttempt, ActiveOf
    <3> QED BY <3>1, <1>1, <1>2
  <2> QED BY <2>1, <2>2
<1>7. ActiveAttemptIsLatest'
  BY <1>1, <1>2 DEF ActiveAttemptIsLatest, LatestOf
<1>8. WorkerAndDispatchSettleTogether'
  <2> SUFFICES ASSUME NEW x \in Dispatches, Supervised(x)'
               PROVE  LiveWorker(x)' <=> Active(x)'
    BY DEF WorkerAndDispatchSettleTogether
  <2>1. CASE x = d
    BY <2>1, <1>1 DEF MovesWorker, LiveWorker
  <2>2. CASE x # d
    BY <2>2, <1>2 DEF MovesWorker, WorkerAndDispatchSettleTogether, Supervised, LiveWorker
  <2> QED BY <2>1, <2>2
<1> QED BY <1>3, <1>4, <1>5, <1>6, <1>7, <1>8

LEMMA MovesIdleTasksPreserves ==
    ASSUME IInv, MovesIdleTasks
    PROVE  AttemptsAgree'
<1> USE DEF IInv, AttemptsAgree
<1>1. taskOf' = taskOf /\ kind' = kind /\ dispatch' = dispatch /\ worker' = worker
  BY DEF MovesIdleTasks
<1>2. TaskMirrorsAttempt'
  <2> SUFFICES ASSUME NEW x \in Dispatches, Active(x)
               PROVE  task'[taskOf[x]] = task[taskOf[x]]
    BY <1>1 DEF TaskMirrorsAttempt, Active
  <2> QED BY ActiveIsAlone DEF MovesIdleTasks
<1>3. DispatchedTaskHasAttempt'
  BY <1>1 DEF MovesIdleTasks, DispatchedTaskHasAttempt, ActiveOf, Active
<1>4. RowShape' /\ RowsInOrder'
  BY <1>1 DEF RowShape, RowsInOrder
<1>5. ActiveAttemptIsLatest' /\ WorkerAndDispatchSettleTogether'
  BY <1>1 DEF ActiveAttemptIsLatest, WorkerAndDispatchSettleTogether, LatestOf, Active,
              Supervised, LiveWorker
<1> QED BY <1>2, <1>3, <1>4, <1>5

LEMMA StartsAttemptPreserves ==
    ASSUME IInv, NEW d \in Dispatches, NEW t \in Tasks, StartsAttempt(d, t)
    PROVE  AttemptsAgree'
<1> USE DEF IInv, AttemptsAgree
<1>1. /\ dispatch[d] = "absent" /\ taskOf[d] = NoTask /\ worker[d] = "none" /\ ~Active(d)
      /\ \A x \in Dispatches : x < d => dispatch[x] # "absent"
      /\ \A x \in Dispatches : d < x => dispatch[x] = "absent" /\ taskOf[x] = NoTask
  <2>1. dispatch[d] = "absent" /\ \A x \in 1 .. d - 1 : dispatch[x] # "absent"
    BY DEF StartsAttempt, NextRow
  <2>2. \A x \in Dispatches : x < d => x \in 1 .. d - 1
    BY MaxDispatchAssumption DEF Dispatches
  <2> QED BY <2>1, <2>2 DEF RowShape, RowsInOrder, Active, DispatchActive
<1>2. /\ Active(d)' /\ dispatch'[d] # "absent" /\ taskOf'[d] = t
      /\ \A x \in Dispatches \ {d} : taskOf'[x] = taskOf[x] /\ (Active(x)' <=> Active(x))
  BY DEF StartsAttempt, Active, DispatchActive, TypeOK
<1>3. \A x \in Dispatches \ {d} : Active(x) => taskOf[x] \in Tasks \ {t}
  BY ActiveIsAlone DEF StartsAttempt, ActiveOf
<1>4. /\ task'[t] = "dispatched"
      /\ \A c \in Tasks \ {t} : task'[c] = task[c]
  BY DEF StartsAttempt, WithTask, TypeOK
<1>5. RowShape'
  BY <1>1, <1>2 DEF StartsAttempt, RowShape
<1>6. RowsInOrder'
  <2> SUFFICES ASSUME NEW y \in Dispatches, NEW x \in Dispatches, x < y,
                      dispatch'[y] # "absent"
               PROVE  dispatch'[x] # "absent"
    BY DEF RowsInOrder
  <2>1. CASE x = d
    BY <2>1, <1>2
  <2>2. CASE x # d /\ y = d
    BY <2>2, <1>1 DEF StartsAttempt
  <2>3. CASE x # d /\ y # d
    BY <2>3 DEF StartsAttempt, RowsInOrder
  <2> QED BY <2>1, <2>2, <2>3
<1>7. TaskMirrorsAttempt'
  <2> SUFFICES ASSUME NEW x \in Dispatches, Active(x)'
               PROVE  task'[taskOf'[x]] = IF worker'[x] \in Suspended THEN "blocked" ELSE "dispatched"
    BY DEF TaskMirrorsAttempt
  <2>1. CASE x = d
    BY <2>1, <1>2, <1>4 DEF StartsAttempt, Suspended
  <2>2. CASE x # d
    BY <2>2, <1>2, <1>3, <1>4 DEF StartsAttempt, TaskMirrorsAttempt
  <2> QED BY <2>1, <2>2
<1>8. DispatchedTaskHasAttempt'
  <2> SUFFICES ASSUME NEW c \in Tasks, task'[c] = "dispatched"
               PROVE  \E x \in Dispatches : taskOf'[x] = c /\ Active(x)'
    BY DEF DispatchedTaskHasAttempt, ActiveOf
  <2>1. CASE c = t
    BY <2>1, <1>2
  <2>2. CASE c # t
    <3>1. PICK x \in Dispatches : taskOf[x] = c /\ Active(x)
      BY <2>2, <1>4 DEF DispatchedTaskHasAttempt, ActiveOf
    <3> QED BY <3>1, <1>1, <1>2
  <2> QED BY <2>1, <2>2
<1>9. ActiveAttemptIsLatest'
  <2> SUFFICES ASSUME NEW x \in Dispatches, Active(x)',
                      NEW y \in Dispatches, taskOf'[y] = taskOf'[x]
               PROVE  y <= x
    BY DEF ActiveAttemptIsLatest, LatestOf
  <2>1. CASE x = d
    <3>1. ~(d < y)
      BY <2>1, <1>1, <1>2, NoTaskAssumption
    <3> QED BY <3>1, <2>1, MaxDispatchAssumption DEF Dispatches
  <2>2. CASE x # d
    <3>1. y # d
      BY <2>2, <1>2, <1>3
    <3> QED BY <2>2, <3>1, <1>2 DEF ActiveAttemptIsLatest, LatestOf
  <2> QED BY <2>1, <2>2
<1>10. WorkerAndDispatchSettleTogether'
  <2> SUFFICES ASSUME NEW x \in Dispatches, Supervised(x)'
               PROVE  LiveWorker(x)' <=> Active(x)'
    BY DEF WorkerAndDispatchSettleTogether
  <2>1. CASE x = d
    BY <2>1, <1>2 DEF StartsAttempt, Supervised, LiveWorker, WorkerUnsettled
  <2>2. CASE x # d
    BY <2>2, <1>2 DEF StartsAttempt, WorkerAndDispatchSettleTogether, Supervised, LiveWorker
  <2> QED BY <2>1, <2>2
<1> QED BY <1>5, <1>6, <1>7, <1>8, <1>9, <1>10

(***************************************************************************)
(* What the shared writes do to the task of an active attempt.             *)
(***************************************************************************)
LEMMA TaskOfActive ==
    ASSUME IInv, NEW d \in Dispatches, Active(d)
    PROVE  task[taskOf[d]] = IF worker[d] \in Suspended THEN "blocked" ELSE "dispatched"
BY DEF IInv, AttemptsAgree, TaskMirrorsAttempt

LEMMA WithTaskEffect ==
    ASSUME TypeOK, NEW t \in Tasks, NEW status
    PROVE  /\ WithTask(t, status)[t] = status
           /\ \A c \in Tasks \ {t} : WithTask(t, status)[c] = task[c]
BY DEF TypeOK, WithTask

LEMMA WithWorkerEffect ==
    ASSUME TypeOK, NEW d \in Dispatches, NEW state
    PROVE  /\ WithWorker(d, state)[d] = state
           /\ \A x \in Dispatches \ {d} : WithWorker(d, state)[x] = worker[x]
BY DEF TypeOK, WithWorker

LEMMA SettledEffect ==
    ASSUME NEW d \in Dispatches, NEW status
    PROVE  /\ Settled({d}, status)[d] = status
           /\ \A x \in Dispatches \ {d} : Settled({d}, status)[x] = dispatch[x]
BY DEF Settled

LEMMA SettledNothing == TypeOK => \A status : Settled({}, status) = dispatch
BY DEF TypeOK, Settled

LEMMA PromotedEffect ==
    ASSUME TypeOK, NEW t \in Tasks
    PROVE  /\ Promoted(WithTask(t, "completed"), t)[t] = "completed"
           /\ \A c \in Tasks \ {t} :
                \/ Promoted(WithTask(t, "completed"), t)[c] = task[c]
                \/ /\ task[c] = "pending"
                   /\ Promoted(WithTask(t, "completed"), t)[c] = "ready"
BY WithTaskEffect DEF Promoted

LEMMA ReconciledEffect ==
    ASSUME IInv, NEW d \in Dispatches, Active(d)
    PROVE  /\ Reconciled(d)[taskOf[d]] = "blocked"
           /\ \A t \in Tasks \ {taskOf[d]} : Reconciled(d)[t] = task[t]
BY TaskOfActive, ActiveIsAlone DEF Reconciled

LEMMA FailedTaskEffect ==
    ASSUME IInv, NEW d \in Dispatches, Active(d)
    PROVE  /\ FailedTask(d)[taskOf[d]] # "dispatched"
           /\ \A t \in Tasks \ {taskOf[d]} : FailedTask(d)[t] = task[t]
<1>1. TypeOK /\ taskOf[d] \in Tasks
  BY ActiveIsAlone DEF IInv
<1>2. CASE task[taskOf[d]] = "dispatched"
  BY <1>1, <1>2, ActiveIsAlone, WithTaskEffect DEF FailedTask
<1>3. CASE task[taskOf[d]] # "dispatched"
  BY <1>3 DEF FailedTask
<1> QED BY <1>2, <1>3

\* An attempt that settles with its worker, if it has one, is the end of it.
LEMMA SettlingEnds ==
    ASSUME IInv, NEW d \in Dispatches, Active(d), NEW status \in DispatchSettled,
           dispatch' = Settled({d}, status),
           \/ worker[d] = "none" /\ worker' = worker
           \/ worker[d] # "none" /\ \E state \in WorkerSettled : worker' = WithWorker(d, state),
           task'[taskOf[d]] # "dispatched",
           \A t \in Tasks \ {taskOf[d]} :
              task'[t] = task[t] \/ (task[t] = "pending" /\ task'[t] = "ready"),
           UNCHANGED <<taskOf, kind>>
    PROVE  EndsAttempt(d)
<1>1. TypeOK /\ dispatch[d] # "absent"
  BY DEF IInv, Active, DispatchActive
<1>2. /\ dispatch'[d] = status
      /\ \A x \in Dispatches \ {d} : dispatch'[x] = dispatch[x]
  BY DEF Settled
<1>3. /\ \/ worker[d] = "none" /\ worker'[d] = "none"
         \/ worker[d] # "none" /\ worker'[d] \in WorkerSettled
      /\ \A x \in Dispatches \ {d} : worker'[x] = worker[x]
  BY <1>1, WithWorkerEffect
<1> QED BY <1>1, <1>2, <1>3, ActiveIsAlone DEF EndsAttempt

LEMMA FailDispatchEnds ==
    ASSUME IInv, NEW d \in Dispatches, Active(d), FailDispatch(d),
           \/ worker[d] = "none" /\ worker' = worker
           \/ worker[d] # "none" /\ \E state \in WorkerSettled : worker' = WithWorker(d, state),
           task'[taskOf[d]] # "dispatched",
           \A t \in Tasks \ {taskOf[d]} :
              task'[t] = task[t] \/ (task[t] = "pending" /\ task'[t] = "ready"),
           UNCHANGED <<taskOf, kind>>
    PROVE  EndsAttempt(d)
<1>1. FailureStatus(d) \in DispatchSettled /\ dispatch' = Settled({d}, FailureStatus(d))
  BY DEF FailDispatch, FailureStatus, DispatchSettled
<1> QED BY <1>1, SettlingEnds

LEMMA StopSettlesEnds ==
    ASSUME IInv, NEW d \in Dispatches, LiveWorker(d), StopSettles(d), UNCHANGED <<taskOf, kind>>
    PROVE  EndsAttempt(d)
<1>1. Active(d) /\ worker[d] # "none"
  BY LiveIsActive
<1>2. /\ dispatch' = Settled({d}, "failed") /\ "failed" \in DispatchSettled
      /\ worker' = WithWorker(d, "stopped") /\ "stopped" \in WorkerSettled
      /\ task' = Reconciled(d)
  BY <1>1 DEF StopSettles, DispatchSettled, WorkerSettled
<1> QED BY <1>1, <1>2, ReconciledEffect, SettlingEnds
-----------------------------------------------------------------------------
(***************************************************************************)
(* Every transaction has one of the five shapes.                           *)
(***************************************************************************)
LEMMA CreateTaskAgrees ==
    ASSUME IInv, NEW t \in Tasks, CreateTask(t)
    PROVE  AttemptsAgree'
<1>1. ActiveOf(t) = {}
  BY TaskOfActive DEF ActiveOf, CreateTask
<1>2. MovesIdleTasks
  BY <1>1, WithTaskEffect DEF CreateTask, MovesIdleTasks, IInv, authorityVars
<1> QED BY <1>2, MovesIdleTasksPreserves

LEMMA UpdateTaskStatusAgrees ==
    ASSUME IInv, NEW t \in Tasks, NEW status \in TaskStatuses, UpdateTaskStatus(t, status)
    PROVE  AttemptsAgree'
<1> USE DEF TaskTerminal
<1>0. TypeOK
  BY DEF IInv
<1>1. CASE status \in TaskTerminal /\ ActiveOf(t) # {}
  <2>1. PICK d \in Dispatches : Active(d) /\ taskOf[d] = t /\ ActiveOf(t) = {d}
    BY <1>1, ActiveIsAlone DEF ActiveOf
  <2>2. worker[d] = "none"
    BY <1>1, <2>1 DEF UpdateTaskStatus, MayUpdateTask, ActiveWorkerOn, IInv, AttemptsAgree,
                      WorkerAndDispatchSettleTogether, Supervised
  <2>3. status \in DispatchSettled /\ dispatch' = Settled({d}, status)
    BY <1>1, <2>1 DEF UpdateTaskStatus, DispatchSettled
  <2>4. /\ task'[t] # "dispatched"
        /\ \A c \in Tasks \ {t} :
             task'[c] = task[c] \/ (task[c] = "pending" /\ task'[c] = "ready")
    BY <1>0, <1>1, WithTaskEffect, PromotedEffect DEF UpdateTaskStatus
  <2>5. EndsAttempt(d)
    BY <2>1, <2>2, <2>3, <2>4, SettlingEnds DEF UpdateTaskStatus
  <2> QED BY <2>5, EndsAttemptPreserves
<1>2. CASE status \in TaskTerminal /\ ActiveOf(t) = {}
  <2>1. dispatch' = dispatch
    BY <1>0, <1>2, SettledNothing DEF UpdateTaskStatus
  <2>2. \A c \in Tasks : \/ task'[c] = task[c]
                         \/ ActiveOf(c) = {} /\ task'[c] # "dispatched"
    <3>1. \A c \in Tasks : task[c] = "pending" => ActiveOf(c) = {}
      BY TaskOfActive DEF ActiveOf
    <3> QED BY <3>1, <1>0, <1>2, WithTaskEffect, PromotedEffect DEF UpdateTaskStatus
  <2> QED BY <2>1, <2>2, MovesIdleTasksPreserves DEF MovesIdleTasks, UpdateTaskStatus
<1>3. CASE status = "dispatched"
  <2>1. task[t] = "dispatched"
    BY <1>3, TaskOfActive
       DEF UpdateTaskStatus, MayUpdateTask, ActiveWorkerOn, ActiveOf, Suspended, LiveWorker,
           WorkerUnsettled
  <2>2. task' = task /\ dispatch' = dispatch
    BY <1>0, <1>3, <2>1, SettledNothing DEF UpdateTaskStatus, WithTask, TypeOK
  <2> QED BY <2>2, MovesIdleTasksPreserves DEF MovesIdleTasks, UpdateTaskStatus
<1>4. CASE status \notin TaskTerminal \cup {"dispatched"}
  <2>1. ActiveOf(t) = {} /\ dispatch' = dispatch /\ task' = WithTask(t, status)
    BY <1>0, <1>4, SettledNothing DEF UpdateTaskStatus, MayUpdateTask
  <2>2. MovesIdleTasks
    BY <1>0, <1>4, <2>1, WithTaskEffect DEF MovesIdleTasks, UpdateTaskStatus
  <2> QED BY <2>2, MovesIdleTasksPreserves
<1> QED BY <1>1, <1>2, <1>3, <1>4

LEMMA CreateDispatchContextAgrees ==
    ASSUME IInv, NEW d \in Dispatches, NEW t \in Tasks, NEW h \in Terminals,
           NEW inject \in BOOLEAN, CreateDispatchContext(d, t, h, inject)
    PROVE  AttemptsAgree'
<1>1. ActiveOf(t) = {}
  BY TaskOfActive DEF ActiveOf, CreateDispatchContext
<1>2. worker[d] = "none" /\ worker' = worker
  BY DEF CreateDispatchContext, NextRow, IInv, AttemptsAgree, RowShape
<1>3. StartsAttempt(d, t)
  BY <1>1, <1>2 DEF CreateDispatchContext, StartsAttempt, IInv, TypeOK, DispatchActive
<1> QED BY <1>3, StartsAttemptPreserves

LEMMA CreateStartingWorkerDispatchAgrees ==
    ASSUME IInv, NEW d \in Dispatches, NEW t \in Tasks, NEW k \in {"local", "federated"},
           CreateStartingWorkerDispatch(d, t, k)
    PROVE  AttemptsAgree'
<1>1. ActiveOf(t) = {}
  <2>1. CASE task[t] = "ready"
    BY <2>1, TaskOfActive DEF ActiveOf
  <2>2. ASSUME NEW prior \in Dispatches, MayRetry(t, prior) PROVE ActiveOf(t) = {}
    <3>1. ~Active(prior)
      BY <2>2 DEF MayRetry, Active, DispatchActive, IInv, AttemptsAgree,
                  WorkerAndDispatchSettleTogether, LiveWorker, WorkerUnsettled
    <3>2. \A x \in ActiveOf(t) : x <= prior /\ prior <= x
      BY <2>2 DEF MayRetry, LatestOf, ActiveOf, IInv, AttemptsAgree, ActiveAttemptIsLatest
    <3>3. \A x \in ActiveOf(t) : x = prior
      BY <3>2, MaxDispatchAssumption DEF ActiveOf, Dispatches
    <3> QED BY <3>1, <3>3 DEF ActiveOf
  <2> QED BY <2>1, <2>2 DEF CreateStartingWorkerDispatch
<1>2. StartsAttempt(d, t)
  BY <1>1, WithWorkerEffect
     DEF CreateStartingWorkerDispatch, StartsAttempt, IInv, TypeOK, DispatchActive
<1> QED BY <1>2, StartsAttemptPreserves

LEMMA PromptSendFailsAgrees ==
    ASSUME IInv, NEW d \in Dispatches, PromptSendFails(d)
    PROVE  AttemptsAgree'
<1>1. Active(d) /\ worker[d] = "none"
  BY DEF PromptSendFails, IInv, AttemptsAgree, WorkerAndDispatchSettleTogether, Supervised
<1>2. EndsAttempt(d)
  BY <1>1, FailedTaskEffect, FailDispatchEnds DEF PromptSendFails
<1> QED BY <1>2, EndsAttemptPreserves

LEMMA ApplyEscalationToDispatchAgrees ==
    ASSUME IInv, NEW d \in Dispatches, ApplyEscalationToDispatch(d)
    PROVE  AttemptsAgree'
<1>1. Active(d) /\ worker[d] = "none" /\ Rivals(d) = {} /\ taskOf[d] \in Tasks /\ TypeOK
  BY ActiveIsAlone DEF ApplyEscalationToDispatch, IInv, AttemptsAgree,
                       WorkerAndDispatchSettleTogether, Supervised
<1>2. dispatch' = Settled({d}, FailureStatus(d)) /\ FailureStatus(d) \in DispatchSettled
  BY <1>1 DEF ApplyEscalationToDispatch, Settled, FailureStatus, DispatchSettled
<1>3. /\ task'[taskOf[d]] # "dispatched"
      /\ \A t \in Tasks \ {taskOf[d]} : task'[t] = task[t]
  BY <1>1, FailedTaskEffect, WithTaskEffect DEF ApplyEscalationToDispatch
<1>4. EndsAttempt(d)
  BY <1>1, <1>2, <1>3, SettlingEnds DEF ApplyEscalationToDispatch
<1> QED BY <1>4, EndsAttemptPreserves

\* A worker that moves keeps its dispatch active.
LEMMA MovingWorkerAgrees ==
    ASSUME IInv, NEW d \in Dispatches, LiveWorker(d), NEW state \in WorkerUnsettled,
           worker' = WithWorker(d, state),
           dispatch'[d] \in DispatchActive,
           \A x \in Dispatches \ {d} : dispatch'[x] = dispatch[x],
           task'[taskOf[d]] = IF state \in Suspended THEN "blocked" ELSE "dispatched",
           \A t \in Tasks \ {taskOf[d]} : task'[t] = task[t],
           UNCHANGED <<taskOf, kind>>
    PROVE  AttemptsAgree'
<1>1. worker'[d] = state /\ \A x \in Dispatches \ {d} : worker'[x] = worker[x]
  BY DEF WithWorker, IInv, TypeOK
<1>2. MovesWorker(d)
  BY <1>1 DEF MovesWorker
<1> QED BY <1>2, MovesWorkerPreserves

LEMMA MarkWorkerDispatchReadyAgrees ==
    ASSUME IInv, NEW d \in Dispatches, MarkWorkerDispatchReady(d)
    PROVE  AttemptsAgree'
<1>1. worker[d] = "starting" /\ LiveWorker(d) /\ Active(d)
  BY LiveIsActive DEF MarkWorkerDispatchReady, StartInFlight, LiveWorker, WorkerUnsettled
<1>2. "ready" \in WorkerUnsettled /\ "ready" \notin Suspended /\ worker[d] \notin Suspended
  BY <1>1 DEF WorkerUnsettled, Suspended
<1>3. dispatch'[d] \in DispatchActive /\ \A x \in Dispatches \ {d} : dispatch'[x] = dispatch[x]
  BY DEF MarkWorkerDispatchReady, IInv, TypeOK, DispatchActive
<1> QED BY <1>1, <1>2, <1>3, TaskOfActive, MovingWorkerAgrees DEF MarkWorkerDispatchReady

LEMMA MarkWorkerStartUnknownAgrees ==
    ASSUME IInv, NEW d \in Dispatches, MarkWorkerStartUnknown(d)
    PROVE  AttemptsAgree'
<1>1. LiveWorker(d) /\ Active(d) /\ taskOf[d] \in Tasks /\ TypeOK
  BY LiveIsActive, ActiveIsAlone DEF MarkWorkerStartUnknown, LiveWorker, WorkerUnsettled, IInv
<1>2. "start_unknown" \in WorkerUnsettled /\ "start_unknown" \in Suspended
  BY DEF WorkerUnsettled, Suspended
<1> QED BY <1>1, <1>2, WithTaskEffect, MovingWorkerAgrees DEF MarkWorkerStartUnknown, Active

LEMMA FailWorkerStartAgrees ==
    ASSUME IInv, NEW d \in Dispatches, NEW unobserved \in BOOLEAN,
           FailWorkerStart(d, unobserved)
    PROVE  AttemptsAgree'
<1>1. /\ worker[d] = "starting" /\ Active(d) /\ taskOf[d] \in Tasks
      /\ Rivals(d) = {} /\ TypeOK
  BY LiveIsActive, ActiveIsAlone
     DEF FailWorkerStart, StartInFlight, LiveWorker, WorkerUnsettled, IInv
<1>2. task[taskOf[d]] = "dispatched"
  BY <1>1, TaskOfActive DEF Suspended
<1>3. "failed" \in DispatchSettled /\ "failed" \in WorkerSettled
  BY DEF DispatchSettled, WorkerSettled
<1>4. EndsAttempt(d)
  BY <1>1, <1>2, <1>3, WithTaskEffect, SettlingEnds DEF FailWorkerStart
<1> QED BY <1>4, EndsAttemptPreserves

LEMMA ReconcileFederatedWorkerStartAgrees ==
    ASSUME IInv, NEW d \in Dispatches, NEW s \in {"ready", "failed", "stopped", "start_unknown"},
           ReconcileFederatedWorkerStart(d, s)
    PROVE  AttemptsAgree'
<1>1. /\ worker[d] \in {"starting", "start_unknown"} /\ worker[d] # "none"
      /\ LiveWorker(d) /\ Active(d) /\ taskOf[d] \in Tasks /\ Rivals(d) = {} /\ TypeOK
  BY LiveIsActive, ActiveIsAlone
     DEF ReconcileFederatedWorkerStart, LiveWorker, WorkerUnsettled, IInv
<1>2. /\ worker[d] = "starting" => task[taskOf[d]] = "dispatched"
      /\ worker[d] = "start_unknown" => task[taskOf[d]] = "blocked"
  BY <1>1, TaskOfActive DEF Suspended
<1>3. CASE s = "ready"
  <2>1. "ready" \in WorkerUnsettled /\ "ready" \notin Suspended
    BY DEF WorkerUnsettled, Suspended
  <2>2. dispatch'[d] \in DispatchActive /\ \A x \in Dispatches \ {d} : dispatch'[x] = dispatch[x]
    BY <1>1, <1>3 DEF ReconcileFederatedWorkerStart, TypeOK, Active, DispatchActive
  <2>3. task'[taskOf[d]] = "dispatched" /\ \A t \in Tasks \ {taskOf[d]} : task'[t] = task[t]
    BY <1>1, <1>2, <1>3, WithTaskEffect DEF ReconcileFederatedWorkerStart
  <2> QED BY <1>1, <1>3, <2>1, <2>2, <2>3, MovingWorkerAgrees DEF ReconcileFederatedWorkerStart
<1>4. CASE s = "start_unknown"
  <2>1. "start_unknown" \in WorkerUnsettled /\ "start_unknown" \in Suspended
    BY DEF WorkerUnsettled, Suspended
  <2>2. dispatch' = dispatch
    BY <1>4 DEF ReconcileFederatedWorkerStart
  <2>3. task'[taskOf[d]] = "blocked" /\ \A t \in Tasks \ {taskOf[d]} : task'[t] = task[t]
    BY <1>1, <1>2, <1>4, WithTaskEffect DEF ReconcileFederatedWorkerStart
  <2> QED BY <1>1, <1>4, <2>1, <2>2, <2>3, MovingWorkerAgrees
          DEF ReconcileFederatedWorkerStart, Active
<1>5. CASE s \in {"failed", "stopped"}
  <2>1. "failed" \in DispatchSettled /\ s \in WorkerSettled
    BY <1>5 DEF DispatchSettled, WorkerSettled
  <2>2. dispatch' = Settled({d}, "failed")
    BY <1>1, <1>5 DEF ReconcileFederatedWorkerStart
  <2>3. task'[taskOf[d]] = "failed" /\ \A t \in Tasks \ {taskOf[d]} : task'[t] = task[t]
    BY <1>1, <1>2, <1>5, WithTaskEffect DEF ReconcileFederatedWorkerStart
  <2>4. EndsAttempt(d)
    BY <1>1, <2>1, <2>2, <2>3, SettlingEnds DEF ReconcileFederatedWorkerStart
  <2> QED BY <2>4, EndsAttemptPreserves
<1> QED BY <1>3, <1>4, <1>5

LEMMA SettleWorkerReportAgrees ==
    ASSUME IInv, NEW d \in Dispatches, NEW outcome \in {"succeeded", "failed"},
           SettleWorkerReport(d, outcome)
    PROVE  AttemptsAgree'
<1> DEFINE status == IF outcome = "succeeded" THEN "completed" ELSE "failed"
<1>1. /\ status \in DispatchSettled /\ outcome \in WorkerSettled /\ status # "dispatched"
      /\ TypeOK
  BY DEF DispatchSettled, WorkerSettled, IInv
<1>2. /\ dispatch[d] # "absent" /\ taskOf[d] \in Tasks
      /\ Active(d) \/ task[taskOf[d]] = "failed"
  BY DEF SettleWorkerReport, Correcting, Reconnecting, ReportingStart, Active, DispatchActive,
         IInv, AttemptsAgree, RowShape
<1>3. Rivals(d) = {} /\ \A x \in Dispatches \ {d} : Active(x) => taskOf[x] # taskOf[d]
  <2>1. CASE Active(d)
    BY <2>1, ActiveIsAlone
  <2>2. CASE task[taskOf[d]] = "failed"
    <3>1. \A x \in Dispatches : Active(x) => taskOf[x] # taskOf[d]
      BY <2>2, TaskOfActive
    <3> QED BY <3>1 DEF Rivals, ActiveOf
  <2> QED BY <2>1, <2>2, <1>2
<1>4. dispatch' = Settled({d}, status)
  BY <1>3 DEF SettleWorkerReport
<1>5. dispatch'[d] = status /\ \A x \in Dispatches \ {d} : dispatch'[x] = dispatch[x]
  BY <1>4 DEF Settled
<1>6. /\ \/ worker[d] = "none" /\ worker'[d] = "none"
         \/ worker[d] # "none" /\ worker'[d] \in WorkerSettled
      /\ \A x \in Dispatches \ {d} : worker'[x] = worker[x]
  BY <1>1, WithWorkerEffect DEF SettleWorkerReport, Supervised
<1>7. /\ task'[taskOf[d]] # "dispatched"
      /\ \A t \in Tasks \ {taskOf[d]} :
            task'[t] = task[t] \/ (task[t] = "pending" /\ task'[t] = "ready")
  BY <1>1, <1>2, WithTaskEffect, PromotedEffect DEF SettleWorkerReport
<1>8. EndsAttempt(d)
  BY <1>1, <1>2, <1>3, <1>5, <1>6, <1>7 DEF EndsAttempt, SettleWorkerReport
<1> QED BY <1>8, EndsAttemptPreserves

LEMMA TerminalExitAgrees ==
    ASSUME IInv, NEW h \in Terminals, TerminalExit(h)
    PROVE  AttemptsAgree'
<1>1. PICK d \in Dispatches :
        /\ Active(d)
        /\ IF StopInFlight(d)
           THEN StopSettles(d)
           ELSE /\ FailDispatch(d)
                /\ worker' = IF Supervised(d) THEN WithWorker(d, "failed") ELSE worker
                /\ task' = FailedTask(d)
  BY DEF TerminalExit
<1>2. UNCHANGED <<taskOf, kind>>
  BY DEF TerminalExit
<1>3. CASE StopInFlight(d)
  <2>1. LiveWorker(d)
    BY <1>3 DEF StopInFlight, LiveWorker, WorkerUnsettled
  <2> QED BY <1>1, <1>2, <1>3, <2>1, StopSettlesEnds, EndsAttemptPreserves
<1>4. CASE ~StopInFlight(d)
  <2>1. "failed" \in WorkerSettled
    BY DEF WorkerSettled
  <2>2. EndsAttempt(d)
    BY <1>1, <1>2, <1>4, <2>1, FailedTaskEffect, FailDispatchEnds DEF Supervised
  <2> QED BY <2>2, EndsAttemptPreserves
<1> QED BY <1>3, <1>4

LEMMA ReleaseContextOnlyDispatchAgrees ==
    ASSUME IInv, NEW d \in Dispatches, ReleaseContextOnlyDispatch(d)
    PROVE  AttemptsAgree'
<1>1. /\ Active(d) /\ worker[d] = "none" /\ Rivals(d) = {} /\ taskOf[d] \in Tasks /\ TypeOK
      /\ task[taskOf[d]] = "dispatched"
  BY ActiveIsAlone, TaskOfActive
     DEF ReleaseContextOnlyDispatch, IInv, AttemptsAgree, RowShape, Suspended
<1>2. "failed" \in DispatchSettled
  BY DEF DispatchSettled
<1>3. EndsAttempt(d)
  BY <1>1, <1>2, WithTaskEffect, SettlingEnds DEF ReleaseContextOnlyDispatch
<1> QED BY <1>3, EndsAttemptPreserves

LEMMA BeginWorkerStopAgrees ==
    ASSUME IInv, NEW d \in Dispatches, BeginWorkerStop(d)
    PROVE  AttemptsAgree'
<1>1. LiveWorker(d) /\ Active(d)
  BY LiveIsActive DEF BeginWorkerStop, LiveWorker, WorkerUnsettled
<1>2. "stopping" \in WorkerUnsettled /\ "stopping" \in Suspended
  BY DEF WorkerUnsettled, Suspended
<1> QED BY <1>1, <1>2, ReconciledEffect, MovingWorkerAgrees DEF BeginWorkerStop, Active

LEMMA StopSettlingAgrees ==
    ASSUME IInv, NEW d \in Dispatches, SettleWorkerStop(d) \/ ReconcileFederatedWorkerStop(d)
    PROVE  AttemptsAgree'
<1>1. LiveWorker(d) /\ StopSettles(d) /\ UNCHANGED <<taskOf, kind>>
  BY DEF SettleWorkerStop, ReconcileFederatedWorkerStop, StopInFlight, LiveWorker,
         WorkerUnsettled
<1> QED BY <1>1, StopSettlesEnds, EndsAttemptPreserves

LEMMA MarkWorkerStopUnknownAgrees ==
    ASSUME IInv, NEW d \in Dispatches, MarkWorkerStopUnknown(d)
    PROVE  AttemptsAgree'
<1>1. LiveWorker(d) /\ Active(d) /\ worker[d] \in Suspended
  BY LiveIsActive DEF MarkWorkerStopUnknown, LiveWorker, WorkerUnsettled, Suspended
<1>2. "stop_unknown" \in WorkerUnsettled /\ "stop_unknown" \in Suspended
  BY DEF WorkerUnsettled, Suspended
<1> QED BY <1>1, <1>2, TaskOfActive, MovingWorkerAgrees DEF MarkWorkerStopUnknown, Active

LEMMA ResumeFederatedWorkerForTerminalRelayAgrees ==
    ASSUME IInv, NEW d \in Dispatches, ResumeFederatedWorkerForTerminalRelay(d)
    PROVE  AttemptsAgree'
<1>1. LiveWorker(d) /\ Active(d) /\ worker[d] \in Suspended /\ taskOf[d] \in Tasks /\ TypeOK
  BY LiveIsActive, ActiveIsAlone
     DEF ResumeFederatedWorkerForTerminalRelay, StopInFlight, LiveWorker, WorkerUnsettled,
         Suspended, IInv
<1>2. "ready" \in WorkerUnsettled /\ "ready" \notin Suspended
  BY DEF WorkerUnsettled, Suspended
<1>3. task'[taskOf[d]] = "dispatched" /\ \A t \in Tasks \ {taskOf[d]} : task'[t] = task[t]
  BY <1>1, TaskOfActive, WithTaskEffect DEF ResumeFederatedWorkerForTerminalRelay
<1> QED BY <1>1, <1>2, <1>3, MovingWorkerAgrees
        DEF ResumeFederatedWorkerForTerminalRelay, Active

LEMMA AbandonWorkerDispatchAgrees ==
    ASSUME IInv, NEW d \in Dispatches, AbandonWorkerDispatch(d)
    PROVE  AttemptsAgree'
<1>1. LiveWorker(d) /\ Active(d) /\ worker[d] # "none"
  BY LiveIsActive DEF AbandonWorkerDispatch, MayAbandon, LiveWorker, WorkerUnsettled
<1>2. "failed" \in DispatchSettled /\ "abandoned" \in WorkerSettled
  BY DEF DispatchSettled, WorkerSettled
<1>3. EndsAttempt(d)
  BY <1>1, <1>2, ReconciledEffect, SettlingEnds DEF AbandonWorkerDispatch
<1> QED BY <1>3, EndsAttemptPreserves

LEMMA ReconcileMissingWorkerTerminalAgrees ==
    ASSUME IInv, NEW d \in Dispatches, ReconcileMissingWorkerTerminal(d)
    PROVE  AttemptsAgree'
<1>1. /\ Active(d) /\ worker[d] # "none" /\ Rivals(d) = {} /\ taskOf[d] \in Tasks /\ TypeOK
  BY LiveIsActive, ActiveIsAlone DEF ReconcileMissingWorkerTerminal, IInv
<1>2. \E state \in WorkerSettled : worker' = WithWorker(d, state)
  BY DEF ReconcileMissingWorkerTerminal, WorkerSettled
<1>3. /\ task'[taskOf[d]] # "dispatched"
      /\ \A t \in Tasks \ {taskOf[d]} : task'[t] = task[t]
  <2>1. CASE worker[d] \in {"stopping", "stop_unknown"}
    BY <2>1, <1>1, TaskOfActive DEF ReconcileMissingWorkerTerminal, Suspended
  <2>2. CASE worker[d] \notin {"stopping", "stop_unknown"}
    BY <2>2, <1>1, TaskOfActive, WithTaskEffect DEF ReconcileMissingWorkerTerminal
  <2> QED BY <2>1, <2>2
<1>4. EndsAttempt(d)
  BY <1>1, <1>2, <1>3, FailDispatchEnds DEF ReconcileMissingWorkerTerminal
<1> QED BY <1>4, EndsAttemptPreserves

LEMMA CreateGateAgrees ==
    ASSUME IInv, NEW g \in Gates, NEW t \in Tasks, CreateGate(g, t)
    PROVE  AttemptsAgree'
<1>1. /\ TypeOK /\ task'[t] = "blocked"
      /\ \A c \in Tasks \ {t} : task'[c] = task[c]
  BY WithTaskEffect DEF CreateGate, IInv
<1>2. CASE ActiveOf(t) = {}
  <2>1. dispatch' = dispatch
    BY <1>1, <1>2, SettledNothing DEF CreateGate
  <2>2. MovesIdleTasks
    BY <1>1, <1>2, <2>1 DEF CreateGate, MovesIdleTasks
  <2> QED BY <2>2, MovesIdleTasksPreserves
<1>3. CASE ActiveOf(t) # {}
  <2>1. PICK d \in Dispatches : Active(d) /\ taskOf[d] = t /\ ActiveOf(t) = {d}
    BY <1>3, ActiveIsAlone DEF ActiveOf
  <2>2. worker[d] = "none"
    BY <2>1 DEF CreateGate, ActiveWorkerOn, IInv, AttemptsAgree,
                WorkerAndDispatchSettleTogether, Supervised
  <2>3. dispatch' = Settled({d}, "completed") /\ "completed" \in DispatchSettled
    BY <2>1 DEF CreateGate, DispatchSettled
  <2>4. EndsAttempt(d)
    BY <1>1, <2>1, <2>2, <2>3, SettlingEnds DEF CreateGate
  <2> QED BY <2>4, EndsAttemptPreserves
<1> QED BY <1>2, <1>3

LEMMA ResolveGateAgrees ==
    ASSUME IInv, NEW g \in Gates, ResolveGate(g)
    PROVE  AttemptsAgree'
<1>1. ActiveOf(gate[g].task) = {}
  BY DEF ResolveGate, MayUpdateTask, TaskTerminal
<1>2. \A c \in Tasks : task'[c] = task[c] \/ (c = gate[g].task /\ task'[c] = "ready")
  BY DEF ResolveGate, WithTask, IInv, TypeOK
<1>3. MovesIdleTasks
  BY <1>1, <1>2 DEF ResolveGate, MovesIdleTasks
<1> QED BY <1>3, MovesIdleTasksPreserves

LEMMA ReblockTasksWithPendingGatesAgrees ==
    ASSUME IInv, ReblockTasksWithPendingGates
    PROVE  AttemptsAgree'
<1>1. ASSUME NEW c \in Tasks
      PROVE  task'[c] = task[c] \/ (ActiveOf(c) = {} /\ task'[c] = "blocked")
  <2> SUFFICES ASSUME task'[c] # task[c] PROVE ActiveOf(c) = {} /\ task'[c] = "blocked"
    OBVIOUS
  <2>1. PICK g \in PendingGates : gate[g].task = c /\ MayUpdateTask(gate[g].task, "blocked")
    BY MaxDispatchAssumption, BoundsAssumption
       DEF ReblockTasksWithPendingGates, PendingGates, Gates, IInv, TypeOK
  <2>2. task'[c] = "blocked"
    BY DEF ReblockTasksWithPendingGates, IInv, TypeOK
  <2> QED BY <2>1, <2>2 DEF MayUpdateTask, TaskTerminal
<1>2. MovesIdleTasks
  BY <1>1 DEF MovesIdleTasks, ReblockTasksWithPendingGates
<1> QED BY <1>2, MovesIdleTasksPreserves

LEMMA GraphUnchangedAgrees ==
    ASSUME IInv, UNCHANGED graphVars
    PROVE  AttemptsAgree'
BY MovesIdleTasksPreserves DEF MovesIdleTasks, graphVars
-----------------------------------------------------------------------------
(***************************************************************************)
(* The invariant, and what a reader wants of it.                           *)
(***************************************************************************)
LEMMA InitAgrees == Init => AttemptsAgree
<1> SUFFICES ASSUME Init PROVE AttemptsAgree
  OBVIOUS
<1>1. \A d \in Dispatches : ~Active(d) /\ worker[d] = "none" /\ kind[d] = "none"
                            /\ dispatch[d] = "absent" /\ taskOf[d] = NoTask
  BY DEF Init, Active, DispatchActive
<1>2. \A t \in Tasks : task[t] = "absent"
  BY DEF Init
<1> QED BY <1>1, <1>2
        DEF AttemptsAgree, RowShape, RowsInOrder, TaskMirrorsAttempt, DispatchedTaskHasAttempt,
            ActiveAttemptIsLatest, WorkerAndDispatchSettleTogether, Supervised

LEMMA NextAgrees == IInv /\ [Next]_vars => IInv'
<1> SUFFICES ASSUME IInv, [Next]_vars PROVE AttemptsAgree'
  BY NextType DEF IInv
<1>1. CASE \E d \in Dispatches, h \in Terminals : PrepareStartingWorkerAuthority(d, h)
  BY <1>1, GraphUnchangedAgrees DEF PrepareStartingWorkerAuthority
<1>2. CASE \E d \in Dispatches :
             CreateQuestion(d) \/ RegisterFederatedQuestion(d) \/ AnswerQuestion(d)
  BY <1>2, GraphUnchangedAgrees DEF CreateQuestion, RegisterFederatedQuestion, AnswerQuestion
<1>3. CASE RuntimeRestart \/ UNCHANGED vars
  BY <1>3, GraphUnchangedAgrees DEF RuntimeRestart, vars, graphVars
<1>4. CASE \/ \E t \in Tasks : CreateTask(t)
           \/ \E t \in Tasks, status \in TaskStatuses : UpdateTaskStatus(t, status)
  BY <1>4, CreateTaskAgrees, UpdateTaskStatusAgrees
<1>5. CASE \E d \in Dispatches, t \in Tasks :
             \/ \E h \in Terminals, inject \in BOOLEAN : CreateDispatchContext(d, t, h, inject)
             \/ \E k \in {"local", "federated"} : CreateStartingWorkerDispatch(d, t, k)
  BY <1>5, CreateDispatchContextAgrees, CreateStartingWorkerDispatchAgrees
<1>6. CASE \E d \in Dispatches :
             \/ PromptSendFails(d) \/ ApplyEscalationToDispatch(d)
             \/ MarkWorkerDispatchReady(d) \/ MarkWorkerStartUnknown(d)
             \/ \E unobserved \in BOOLEAN : FailWorkerStart(d, unobserved)
  BY <1>6, PromptSendFailsAgrees, ApplyEscalationToDispatchAgrees,
     MarkWorkerDispatchReadyAgrees, MarkWorkerStartUnknownAgrees, FailWorkerStartAgrees
<1>7. CASE \E d \in Dispatches :
             \/ \E s \in {"ready", "failed", "stopped", "start_unknown"} :
                   ReconcileFederatedWorkerStart(d, s)
             \/ \E o \in {"succeeded", "failed"} : SettleWorkerReport(d, o)
             \/ ReleaseContextOnlyDispatch(d) \/ BeginWorkerStop(d)
  BY <1>7, ReconcileFederatedWorkerStartAgrees, SettleWorkerReportAgrees,
     ReleaseContextOnlyDispatchAgrees, BeginWorkerStopAgrees
<1>8. CASE \E d \in Dispatches :
             \/ SettleWorkerStop(d) \/ ReconcileFederatedWorkerStop(d)
             \/ MarkWorkerStopUnknown(d) \/ ResumeFederatedWorkerForTerminalRelay(d)
             \/ AbandonWorkerDispatch(d) \/ ReconcileMissingWorkerTerminal(d)
  BY <1>8, StopSettlingAgrees, MarkWorkerStopUnknownAgrees,
     ResumeFederatedWorkerForTerminalRelayAgrees, AbandonWorkerDispatchAgrees,
     ReconcileMissingWorkerTerminalAgrees
<1>9. CASE \/ \E h \in Terminals : TerminalExit(h)
           \/ \E g \in Gates : ResolveGate(g) \/ \E t \in Tasks : CreateGate(g, t)
           \/ ReblockTasksWithPendingGates
  BY <1>9, TerminalExitAgrees, ResolveGateAgrees, CreateGateAgrees,
     ReblockTasksWithPendingGatesAgrees
<1> QED BY <1>1, <1>2, <1>3, <1>4, <1>5, <1>6, <1>7, <1>8, <1>9 DEF Next

LEMMA Invariance == Spec => []IInv
<1>1. Init => IInv
  BY InitType, InitAgrees DEF IInv
<1>2. IInv /\ [Next]_vars => IInv'
  BY NextAgrees
<1> QED BY <1>1, <1>2, PTL DEF Spec

\* However transactions interleave, a task with an active attempt is "blocked"
\* while that attempt's worker is suspended and "dispatched" otherwise: nothing
\* pulls a task from under a live worker.
THEOREM TaskAlwaysMirrorsAttempt == Spec => []TaskMirrorsAttempt
<1>1. IInv => TaskMirrorsAttempt
  BY DEF IInv, AttemptsAgree
<1> QED BY <1>1, Invariance, PTL

\* A task never stays "dispatched" with nobody left to settle it.
THEOREM DispatchedTaskAlwaysHasAttempt == Spec => []DispatchedTaskHasAttempt
<1>1. IInv => DispatchedTaskHasAttempt
  BY DEF IInv, AttemptsAgree
<1> QED BY <1>1, Invariance, PTL

\* An active attempt is its task's newest: no retry runs beside an older attempt.
THEOREM ActiveAttemptAlwaysLatest == Spec => []ActiveAttemptIsLatest
<1>1. IInv => ActiveAttemptIsLatest
  BY DEF IInv, AttemptsAgree
<1> QED BY <1>1, Invariance, PTL

\* A supervised worker and its dispatch are live together and settle together,
\* through restarts, polls of the paired host, exits and late reports alike.
THEOREM WorkerAndDispatchAlwaysSettleTogether == Spec => []WorkerAndDispatchSettleTogether
<1>1. IInv => WorkerAndDispatchSettleTogether
  BY DEF IInv, AttemptsAgree
<1> QED BY <1>1, Invariance, PTL

\* What the records of an attempt say of each other always holds together: no
\* interleaving of the transactions ever leaves one half of it.
THEOREM AttemptsAlwaysAgree == Spec => []AttemptsAgree
<1>1. IInv => AttemptsAgree
  BY DEF IInv
<1> QED BY <1>1, Invariance, PTL
=============================================================================
