\* A retry of a task that waits at a gate.
SPECIFICATION Spec
CONSTANTS
    First = t1
    Tasks = {t1}
    Deps <- NoDeps
    MaxDispatch = 2
    Terminals = {h1}
    NoTerminal = NoTerminal
    NoTask = NoTask
    Kinds = {"context", "local", "federated"}
    MaxGates = 2
    MaxEpoch = 1
    DISPATCH_CIRCUIT_BREAK_FAILURES = 2
PROPERTIES
    GatedTaskStaysBlocked
