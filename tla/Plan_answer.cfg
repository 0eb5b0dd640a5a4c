\* Two plans for one file; one late edit by hand, two failures, crashes or stops; fair.
SPECIFICATION FairSpec
CONSTANTS
    p1 = p1
    p2 = p2
    f1 = f1
    f2 = f2
    None = None
    Tokens = {p1, p2}
    Files = {f1}
    Touch <- MCTouchOne
    MaxOutside = 0
    MaxTrouble = 2
    Stops = TRUE
    MaxLate = 1
PROPERTIES  NotLockedOut
CHECK_DEADLOCK FALSE
