\* A task and its dependent, two terminals, a gate, every kind of attempt.  The breaker
\* is lowered to two so that two attempts can break it.
SPECIFICATION Spec
CONSTANTS
    First = t1
    Tasks = {t1, t2}
    Deps <- FirstThenRest
    MaxDispatch = 2
    Terminals = {h1, h2}
    NoTerminal = NoTerminal
    NoTask = NoTask
    Kinds = {"context", "local", "federated"}
    MaxGates = 1
    MaxEpoch = 0
    DISPATCH_CIRCUIT_BREAK_FAILURES = 2
INVARIANTS
    ActiveAttemptIsLatest
    DispatchedTaskHasAttempt
    OneActiveDispatchPerTerminal
PROPERTIES
    LateOutcomeNeverReopensTask
    CompletionPromotesDependents
