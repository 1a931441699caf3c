SPECIFICATION MCSpec
CONSTANTS
    t1 = t1
    t3 = t3
    Texts = {t1, t2, t3}
    Pages <- MCPages
    MaxRequests = 6
    MaxPending = 3
    Projects = {p1, p2}
    none = none
    MaxTouches = 5
    MaxChanges = 2
INVARIANT ResultsOfTypes
CHECK_DEADLOCK FALSE
