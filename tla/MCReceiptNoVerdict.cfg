CONSTANTS
    r1 = r1
    r2 = r2
    NoCall = NoCall
    Requests = {r1, r2}
    Calls = {c1, c2}
    MAX_ROWS = 1
    PRUNE_BATCH = 1
    Uses <- InputsOfRelay
    MaxCrashes = 2
SPECIFICATION Spec
INVARIANTS
    PendingMeansRunningOrRestarted
CHECK_DEADLOCK FALSE
