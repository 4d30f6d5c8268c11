SPECIFICATION FairSpec
CONSTANTS
    Protocol = 2
    PAGE_SIZE = 1
    MAX_PAGES = 1
    QUOTA = 1
    Sends = {"worker_done"}
    MaxSequence = 1
    MaxMail = 0
    MaxStops = 1
    MaxShows = 1
    MaxEpoch = 1
    MaxRemoteEpoch = 2
    MaxFaults = 1
INVARIANT ReadyWorkerIsPolled
PROPERTIES
    ImplementsAttemptLifecycle
    PollNeverRewindsPeer
    RelayComesToRest
CHECK_DEADLOCK FALSE
