SPECIFICATION Spec
CONSTANTS
    a1 = a1
    a2 = a2
    t1 = t1
    t2 = t2
    s1 = s1
    s2 = s2
    Addresses = {a1, a2, t1, t2}
    Treasuries = {t1, t2}
    NoAddress = NoAddress
    RequestIds = {r1, r2}
    NoDecision = NoDecision
    Hashes = {h1, h2}
    TotalBps = 2
    Sleeves = {s1, s2}
    Amounts = {0, 1}
    MaxBalance = 1
    VerdictArgs <- MCVerdictArgs
    FractionArgs <- MCFractionArgs
    SleeveLists <- MCSleeveLists
    WeightLists <- MCWeightLists
INVARIANT TypeOK
INVARIANT TrailMatchesLog
INVARIANT MovesMatchExecutions
INVARIANT BookFollowsEvents
INVARIANT SleeveListIsExact
INVARIANT CompleteMoveTotals
PROPERTY AppendOnly
PROPERTY GateSpec
SYMMETRY MCSymmetry
CHECK_DEADLOCK FALSE
