SPECIFICATION Spec
CONSTANTS
    Protocol = 3
    PAGE_SIZE = 1
    MAX_PAGES = 1
    QUOTA = 8
    Sends = {"worker_done"}
    MaxSequence = 1
    MaxMail = 0
    MaxStops = 0
    MaxShows = 0
    MaxEpoch = 0
    MaxRemoteEpoch = 1
    MaxFaults = 1
INVARIANT RetriedAckIsAccepted
CHECK_DEADLOCK FALSE
