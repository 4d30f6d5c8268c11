---------------------------- MODULE FederationHome ----------------------------
(***************************************************************************)
(* The home rows of a federated Dispatch are one attempt of Orchestration: *)
(* whatever the calls, the polls and the relay do, every step they make at *)
(* home is a transaction that module allows, or leaves its rows alone.     *)
(***************************************************************************)
EXTENDS Federation

OneTask == "task"

Attempt == INSTANCE Orchestration WITH
    Tasks <- {OneTask}, Deps <- [t \in {OneTask} |-> {}], MaxDispatch <- 1,
    Terminals <- {}, NoTerminal <- "NULL", NoTask <- "none", Kinds <- {"federated"},
    MaxGates <- 0, MaxEpoch <- MaxEpoch, DISPATCH_CIRCUIT_BREAK_FAILURES <- 3,
    task <- [t \in {OneTask} |-> home.task],
    taskOf <- [d \in {1} |-> IF home.worker = "none" THEN "none" ELSE OneTask],
    kind <- [d \in {1} |-> IF home.worker = "none" THEN "none" ELSE "federated"],
    dispatch <- [d \in {1} |-> home.dispatch],
    assignee <- [d \in {1} |-> "NULL"],
    capability <- [d \in {1} |-> "none"],
    failures <- [d \in {1} |-> 0],
    stalled <- {},
    worker <- [d \in {1} |-> home.worker],
    workerEpoch <- [d \in {1} |-> workerEpoch],
    asking <- IF asking THEN {1} ELSE {},
    gate <- [g \in 1 .. 0 |-> [task |-> "none", status |-> "absent"]],
    epoch <- epoch

\* Every behaviour of the federated Dispatch, seen at its home rows, is a
\* behaviour of the attempt lifecycle.
ImplementsAttemptLifecycle == Attempt!Spec
=============================================================================
