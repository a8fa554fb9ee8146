SPECIFICATION SubmissionSafety
CONSTANTS
    a1 = a1
    a2 = a2
    t1 = t1
    t2 = t2
    s1 = s1
    s2 = s2
    h1 = h1
    Addresses = {a1, a2, t1, t2}
    Treasuries = {t1, t2}
    Signer = a1
    Vault = t1
    NoAddress = NoAddress
    Runs = {p1, p2}
    RequestIds = {r1, r2}
    NoDecision = NoDecision
    Hashes = {h1}
    TotalBps = 4
    Unit = 2
    Grain = 2
    Sleeves = {s1, s2}
    SleeveOrder <- MCSleeveOrder
    Deliberations <- MCDeliberations
    VerdictArgs = {}
    FractionArgs = {}
    SleeveLists = {}
    WeightLists = {}
    Amounts = {}
    MaxBalance = 0
SYMMETRY Symmetry
INVARIANT SubmissionTypeOK
INVARIANT RefusedForCause
INVARIANT CleanFileIsComplete
INVARIANT NoForgottenMove
CHECK_DEADLOCK FALSE
