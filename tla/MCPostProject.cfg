SPECIFICATION MCSpec
CONSTANTS
    p1 = p1
    p2 = p2
    p3 = p3
    Projects = {p1, p2, p3}
    NoId = NoId
    MaxVisits = 2
    MaxTaps = 8
    MaxPending = 2
    t1 = t1
    t2 = t2
    t3 = t3
    Tasks = {t1, t2, t3}
    none = none
    MaxTouches = 9
    MaxSaves = 2
INVARIANTS OneProjectPerVisit SavesReachTheirProject InvitedWhenComplete QuietDraft SavesReachTheirTask FormOfVisit StepsInOrder
PROPERTY NothingReverted
CHECK_DEADLOCK FALSE
