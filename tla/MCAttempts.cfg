\* One task, up to three attempts of it by unsupervised rows and by workers here and
\* on a paired host, across one restart.
SPECIFICATION Spec
CONSTANTS
    First = t1
    Tasks = {t1}
    Deps <- NoDeps
    MaxDispatch = 3
    Terminals = {h1}
    NoTerminal = NoTerminal
    NoTask = NoTask
    Kinds = {"context", "local", "federated"}
    MaxGates = 0
    MaxEpoch = 1
    DISPATCH_CIRCUIT_BREAK_FAILURES = 3
INVARIANTS
    WorkerAndDispatchSettleTogether
    TypeOK
    TaskMirrorsAttempt
    AuthorityFollowsWorker
    LocalQuestionsAreAnswerable
PROPERTIES
    StepsFollowLifecycleGraph
    OwnStopNeverReadsAsCrash
