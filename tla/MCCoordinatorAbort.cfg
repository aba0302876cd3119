CONSTANTS
    A = A
    B = B
    X = X
    cp = cp
    s1 = s1
    s2 = s2
    q1 = q1
    q2 = q2
    q3 = q3
    o1 = o1
    o2 = o2
    o3 = o3
    Steps <- MCSteps
    Arrivable <- MCArrivable
    Requests = {q1, q2}
    Ops = {o1, o2, o3}
    IdOf <- MCIdOf
    FaultsOf <- MCFaultsOf
    Ids = {s1, s2}
    NoId = NoId
    NoActor = NoActor
    NoKey = NoKey
SPECIFICATION Spec
SYMMETRY MCSymmetry
CHECK_DEADLOCK FALSE
PROPERTY NoReleaseAfterAbort
