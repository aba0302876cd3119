CONSTANTS
    r1 = r1
    r2 = r2
    r3 = r3
    kA = kA
    kB = kB
    cA = cA
    cB = cB
    Service = "billing"
    Requests = {r1, r2, r3}
    Cases = {cA, cB}
    Keys = {kA, kB}
    MaxId = 3
    NoInput = NoInput
SPECIFICATION FairSpec
CHECK_DEADLOCK FALSE
INVARIANTS
    TablesAgree
    HistoryIsReplayable
    AnswersAreTrue
PROPERTIES
    ImplementsEffects
    EveryRequestIsAnswered
