SPECIFICATION Spec
CONSTANTS
    first = first
    second = second
    approve = approve
    R = {first, second}
    Scenarios = {approve}
    ScenarioOf <- MCScenarioOf
    MaxClock = 2
    Loads = {1, 2}
    DirFaults = FALSE
    NoFile = NoFile
    Empty = Empty
    Mixed = Mixed
INVARIANT NoRunsClaim
CHECK_DEADLOCK FALSE
