SPECIFICATION Spec
CONSTANTS
    Protocol = 3
    PAGE_SIZE = 1
    MAX_PAGES = 2
    QUOTA = 2
    Sends = {"status", "heartbeat", "question", "worker_done"}
    MaxSequence = 2
    MaxMail = 1
    MaxStops = 1
    MaxShows = 0
    MaxEpoch = 0
    MaxRemoteEpoch = 2
    MaxFaults = 1
INVARIANTS
    TypeOK
    NoAckedItemLost
    VerdictComesFromHome
    WorkerIsToldTheTruth
    WatermarkIsCovered
CHECK_DEADLOCK FALSE
