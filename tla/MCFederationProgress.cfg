SPECIFICATION FairSpec
CONSTANTS
    Protocol = 3
    PAGE_SIZE = 1
    MAX_PAGES = 1
    QUOTA = 8
    Sends = {"worker_done"}
    MaxSequence = 1
    MaxMail = 1
    MaxStops = 1
    MaxShows = 0
    MaxEpoch = 1
    MaxRemoteEpoch = 2
    MaxFaults = 1
PROPERTIES
    StopIsDecided
    StartIsDecided
    ReportComesHome
    ReportIsAnswered
    MailIsDelivered
CHECK_DEADLOCK FALSE
