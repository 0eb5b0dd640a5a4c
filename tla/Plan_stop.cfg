\* One stop of the bot in phase 2, no change from outside.
SPECIFICATION Spec
CONSTANTS
    p1 = p1
    p2 = p2
    f1 = f1
    f2 = f2
    None = None
    Tokens = {p1, p2}
    Files = {f1, f2}
    Touch <- MCTouch
    MaxOutside = 0
    MaxTrouble = 1
    Stops = TRUE
    MaxLate = 0
INVARIANT AppliedMeansPushed
CHECK_DEADLOCK FALSE
