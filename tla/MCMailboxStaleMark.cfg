SPECIFICATION Spec
CONSTANTS
    p1 = p1
    p2 = p2
    Ptys = {p1}
    Mortal = {p1}
    QueuesInput = {p1}
    LateExits = TRUE
    LateProbes = FALSE
    LateAbsence = TRUE
    MaxMessages = 1
    MaxIncarnation = 2
    MaxFlights = 1
    MaxRestarts = 0
    Titles = {"idle", "working"}
PROPERTIES PersistedMailStaysAvailable
CHECK_DEADLOCK FALSE
