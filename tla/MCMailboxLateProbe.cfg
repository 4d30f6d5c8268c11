SPECIFICATION Spec
CONSTANTS
    p1 = p1
    p2 = p2
    Ptys = {p1, p2}
    Mortal = {}
    QueuesInput = {p1}
    LateExits = FALSE
    LateProbes = TRUE
    LateAbsence = TRUE
    MaxMessages = 1
    MaxIncarnation = 1
    MaxFlights = 1
    MaxRestarts = 0
    Titles = {"idle", "working"}
INVARIANTS EnterOncePerPointer
CHECK_DEADLOCK FALSE
