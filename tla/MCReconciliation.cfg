CONSTANTS
    billing = billing
    ledger = ledger
    r1 = r1
    r2 = r2
    kA = kA
    kB = kB
    case1 = case1
    Services = {billing, ledger}
    Requests = {r1, r2}
    Cases = {case1}
    Keys = {kA, kB}
    EventIds = {1, 2}
    Case = case1
    ServiceOrder <- MCServiceOrder
SPECIFICATION Spec
CHECK_DEADLOCK FALSE
INVARIANT NothingOldIsMissed
PROPERTY AlarmsAreTrue
