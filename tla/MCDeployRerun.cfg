SPECIFICATION Spec
CONSTANTS
    MaxRuns = 2
    Agents = 2
INVARIANT RerunIsSafe
CHECK_DEADLOCK FALSE
