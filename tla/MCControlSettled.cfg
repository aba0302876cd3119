CONSTANTS
    r1 = r1
    r2 = r2
    r3 = r3
    r4 = r4
    kA = kA
    kB = kB
    cA = cA
    cB = cB
    Requests = {r1, r2, r3}
    Cases = {cA, cB}
    Keys = {kA, kB}
    Amounts = {1}
    Ttls = {1, NoTtl}
    Authorized = 1
    MaxTime = 1
    NoTtl = NoTtl
    NoDeadline = NoDeadline
    NoRow = NoRow
    NoRequest = NoRequest
    NoInput = NoInput
SPECIFICATION Spec
SYMMETRY MCSymmetry
CHECK_DEADLOCK FALSE
PROPERTY SettledIsFinal
