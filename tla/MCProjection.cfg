CONSTANTS
    billing = billing
    ledger = ledger
    p1 = p1
    p2 = p2
    r1 = r1
    r2 = r2
    kA = kA
    kB = kB
    cA = cA
    cB = cB
    Services = {billing, ledger}
    Requests = {r1, r2}
    Cases = {cA}
    Keys = {kA, kB}
    EventIds = {1, 2}
    Projectors = {p1, p2}
    Orders <- MCOrders
    NoService = NoService
    NoEvent = NoEvent
SPECIFICATION FairSpec
SYMMETRY MCSymmetry
CHECK_DEADLOCK FALSE
INVARIANTS
    TotalIsExact
    NothingIsLost
PROPERTIES
    FinishedRunsCaughtUp
    EveryRunEnds
