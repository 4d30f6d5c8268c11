SPECIFICATION Spec
CONSTANTS
    p1 = p1
    p2 = p2
    Ptys = {p1, p2}
    Mortal = {p1}
    QueuesInput = {p1}
    LateExits = TRUE
    LateProbes = FALSE
    LateAbsence = TRUE
    MaxMessages = 1
    MaxIncarnation = 2
    MaxFlights = 2
    MaxRestarts = 0
    Titles = {"idle"}
INVARIANTS EnterOncePerPointer
CHECK_DEADLOCK FALSE
