SPECIFICATION Spec
CONSTANTS
    Protocol = 3
    PAGE_SIZE = 1
    MAX_PAGES = 1
    QUOTA = 1
    Sends = {"heartbeat", "worker_done"}
    MaxSequence = 1
    MaxMail = 0
    MaxStops = 0
    MaxShows = 0
    MaxEpoch = 0
    MaxRemoteEpoch = 1
    MaxFaults = 0
INVARIANT MailboxMirrorsQueue
CHECK_DEADLOCK FALSE
