CONSTANTS
    A = A
    B = B
    C = C
    P = P
    Q = Q
    R = R
    billing = billing
    ledger = ledger
    case1 = case1
    Agents = {A, B, C}
    Projectors = {P, Q}
    Redeliverers = {R}
    Services = {billing, ledger}
    Case = case1
    EventIds = {1, 2, 3}
    Experiments <- MCExperiments
    Schedules <- MCSchedules
    ServiceOrder <- MCServiceOrder
    CheckpointAt <- MCCheckpointAt
    Authorized = 10
    Threshold = 5
    MaxSteps = 3
    Replies <- MCReplies
    MaxLost = 1
    NoService = NoService
    NoEvent = NoEvent
    NoCheckpoint = NoCheckpoint
SPECIFICATION FairSpec
CHECK_DEADLOCK FALSE
INVARIANTS
    SpendingWasGranted
    OverspendIsExplained
    LeaksAreKnown
    VerdictStands
    DeclinesAreEarned
    GuardedRunsAreClean
    RunsAsDeclared
PROPERTIES EveryRunIsJudged
 ImplementsReservations
