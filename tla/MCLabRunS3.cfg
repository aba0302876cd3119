CONSTANTS
    A = A
    B = B
    C = C
    P = P
    Q = Q
    R = R
    billing = billing
    ledger = ledger
    case1 = case1
    Agents = {A, B, C}
    Projectors = {P, Q}
    Redeliverers = {R}
    Services = {billing, ledger}
    Case = case1
    EventIds = {1, 2, 3}
    Experiments <- MCExperiments
    Schedules <- OnlyS3
    ServiceOrder <- MCServiceOrder
    CheckpointAt <- MCCheckpointAt
    Authorized = 10
    Threshold = 5
    MaxSteps = 3
    Replies <- MCReplies
    MaxLost = 0
    NoService = NoService
    NoEvent = NoEvent
    NoCheckpoint = NoCheckpoint
SPECIFICATION Spec
CHECK_DEADLOCK FALSE
INVARIANT ViewsAsDeclared
