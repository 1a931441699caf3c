SPECIFICATION MCSpec
CONSTANTS
    MaxRate <- MCMaxRate
    MaxTaps = 6
    MaxPending = 3
    Methods = {paypal, bank}
    none = none
    MaxTouches = 6
    MaxLookUps = 3
INVARIANTS AmountsOfRate AcceptedAsMeant PayoutsShown
CHECK_DEADLOCK FALSE
