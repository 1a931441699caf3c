SPECIFICATION MCSpec
CONSTANTS
    Kinds <- Listings
    Filters = {f1, f2}
    Long = f1
    Records <- MCRecords
    MaxRequests = 6
    MaxPending = 3
    t1 = t1
    t2 = t2
    t3 = t3
    t4 = t4
    none = none
    c1 = c1
    c2 = c2
    s1 = s1
    s2 = s2
    s3 = s3
    y1 = y1
    y2 = y2
    undefined = undefined
    Tasks = {t1, t2, t3, t4}
    Published = {t1}
    PageSize = 2
    MaxTaps = 5
    MaxSent = 2
    Tops = {c1, c2}
    Subs = {s1, s2, s3}
    Types = {y1, y2}
    Parent <- MCParent
    MaxTouches = 6
    MaxAsked = 3
INVARIANT SearchIsWhatIsShown
CHECK_DEADLOCK FALSE
