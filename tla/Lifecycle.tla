------------------------------ MODULE Lifecycle ------------------------------
(***************************************************************************)
(* The explicit lifecycle graph of the orchestration database: the states  *)
(* a Task, a Dispatch and a supervised worker can be in, and the edges     *)
(* transitionLifecycleWithDb lets a row take.  A write along any other     *)
(* edge throws and rolls the whole transaction back.                       *)
(***************************************************************************)

TaskTerminal == {"completed", "failed"}
TaskStatuses == {"pending", "ready", "dispatched", "blocked"} \cup TaskTerminal

DispatchActive == {"pending", "dispatched"}
DispatchSettled == {"completed", "failed", "circuit_broken"}
DispatchStatuses == DispatchActive \cup DispatchSettled

WorkerSettled == {"succeeded", "failed", "stopped", "abandoned"}
WorkerUnsettled == {"starting", "start_unknown", "ready", "stopping", "stop_unknown"}
WorkerStates == WorkerUnsettled \cup WorkerSettled

\* Public taskUpdate accepts every status, so the task graph is complete; the
\* operations themselves guard it.
TaskEdges == TaskStatuses \X TaskStatuses

DispatchEdges ==
    (DispatchActive \X {"dispatched", "completed", "failed", "circuit_broken"})
      \cup {<<s, s>> : s \in DispatchStatuses}

WorkerEdges ==
    ({"starting"} \X {"ready", "start_unknown", "failed", "stopping", "stopped", "abandoned"})
      \cup ({"start_unknown"} \X {"ready", "failed", "stopping", "stopped", "abandoned"})
      \cup ({"ready"} \X {"succeeded", "failed", "stopping", "abandoned"})
      \cup ({"stopping"} \X {"stopped", "stop_unknown", "ready", "failed", "abandoned"})
      \cup ({"stop_unknown"} \X {"failed", "stopped", "abandoned"})
      \cup {<<s, s>> : s \in WorkerStates}

\* The one correction the graph admits beside its edges: the first-hand report
\* of a worker whose prompt was recorded as stalled.
UnobservedPromptCorrections == {<<"failed", "completed">>, <<"failed", "succeeded">>}
=============================================================================
