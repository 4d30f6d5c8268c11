SPECIFICATION Spec
CONSTANTS
    Protocol = 2
    PAGE_SIZE = 1
    MAX_PAGES = 1
    QUOTA = 8
    Sends = {"worker_done"}
    MaxSequence = 1
    MaxMail = 0
    MaxStops = 1
    MaxShows = 0
    MaxEpoch = 0
    MaxRemoteEpoch = 1
    MaxFaults = 0
INVARIANT ResumedWorkerHasReport
CHECK_DEADLOCK FALSE
