SPECIFICATION Spec
CONSTANTS
    TotalBps = 4
    Fine = 2
    Grain = 3
    Sleeves = 3
    CurrentSums <- About
    Noise <- Off
INVARIANT TypeOK
INVARIANT SumIsExact
INVARIANT OrderIsKept
INVARIANT MoveMatchesRecord
CHECK_DEADLOCK FALSE
