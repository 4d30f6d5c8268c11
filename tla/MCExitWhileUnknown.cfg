\* A worker that exits while its start or stop is unknown.
SPECIFICATION Spec
CONSTANTS
    First = t1
    Tasks = {t1}
    Deps <- NoDeps
    MaxDispatch = 3
    Terminals = {h1}
    NoTerminal = NoTerminal
    NoTask = NoTask
    Kinds = {"context", "local"}
    MaxGates = 0
    MaxEpoch = 1
    DISPATCH_CIRCUIT_BREAK_FAILURES = 3
PROPERTIES
    ExitMakesTaskReady
