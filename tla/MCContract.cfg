SPECIFICATION MCSpec
CONSTANTS
    buyer = buyer
    seller = seller
    p1 = p1
    p2 = p2
    p3 = p3
    m1 = m1
    m2 = m2
    m3 = m3
    m4 = m4
    m5 = m5
    Screens = {buyer, seller}
    Buyers = {buyer}
    Proposals = {p1, p2, p3}
    Milestones = {m1, m2, m3, m4, m5}
    Owner <- MCOwner
    Listed <- MCListed
    Completable = {p3}
    StartStates <- MCStarts
    Ops = {"select", "approve", "request", "decline", "pay", "add", "comment", "dispute", "complete"}
    Lossy = TRUE
    MaxTaps <- MCTaps
    MaxPending = 2
    MaxDraft = 2
INVARIANTS CausalLifecycle NoInventedStatus NoDuplicateRows SingleBoard QuietBoardFresh PaymentBlocksScreen
PROPERTIES ImplementsContract
CHECK_DEADLOCK FALSE
