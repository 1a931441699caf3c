SPECIFICATION FairSpec
CONSTANTS
    buyer = buyer
    p1 = p1
    m1 = m1
    ada = ada
    bob = bob
    asBuyer = asBuyer
    asSeller = asSeller
    other = other
    none = none
    MaxTaps = 4
    MaxPending = 2
INVARIANTS OrderShown
PROPERTIES OverlayClears FormUncovers
CHECK_DEADLOCK FALSE
