SPECIFICATION Spec
CONSTANTS
    first = first
    second = second
    approve = approve
    R = {first, second}
    Scenarios = {approve}
    ScenarioOf <- MCScenarioOf
    MaxClock = 2
    Loads = {1, 2}
    DirFaults = TRUE
    NoFile = NoFile
    Empty = Empty
    Mixed = Mixed
INVARIANT TypeOK
INVARIANT SavedStays
INVARIANT ListIsFaithful
PROPERTY PageCatchesUp
CHECK_DEADLOCK FALSE
