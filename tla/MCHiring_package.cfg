SPECIFICATION MCSpec
CONSTANTS
    Proposals = {p1, p2}
    None = None
    NoKey = NoKey
    MaxVersion = 2
    MaxTaps = 8
    MaxPending = 2
    s1 = s1
    s2 = s2
    s3 = s3
    Services = {s1, s2, s3}
    Price <- MCPrice
    Offers <- MCOffers
    MaxTouches = 6
    MaxSent = 2
INVARIANT SubtotalOfPackage
CHECK_DEADLOCK FALSE
