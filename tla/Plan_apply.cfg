\* Two plans, two files; one change from outside, two failures or crashes.
SPECIFICATION Spec
CONSTANTS
    p1 = p1
    p2 = p2
    f1 = f1
    f2 = f2
    None = None
    Tokens = {p1, p2}
    Files = {f1, f2}
    Touch <- MCTouch
    MaxOutside = 1
    MaxTrouble = 2
    Stops = FALSE
    MaxLate = 0
INVARIANTS TypeOK WholePlansPushed AppliedMeansPushed FailedMeansAbsent NoResidue
PROPERTIES LedgerKept HandEditKept
CHECK_DEADLOCK FALSE
