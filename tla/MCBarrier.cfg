CONSTANTS
    pA = pA
    pB = pB
    pX = pX
    c1 = c1
    c2 = c2
    c3 = c3
    c4 = c4
    c5 = c5
    Steps <- MCSteps
    Arrivable <- MCArrivable
    Calls = {c1, c2, c3, c4, c5}
    NoCall = NoCall
    NoKey = NoKey
    NoLease = NoLease
    NotAborted = NotAborted
    Reasons = {"reset"}
    LeaseTtl = 1
    MaxTime = 2
    Timed = TRUE
SPECIFICATION Spec
SYMMETRY MCSymmetry
CHECK_DEADLOCK FALSE
INVARIANTS
    ReleasesFollowSchedule
    NoWaiterLeftBehind
    OnlyReleasedCallsReturn
    BlockedCallsAreParked
    LeasesHaveWaiters
PROPERTIES
    AbortIsFinal
    ImplementsOrderedRelease
