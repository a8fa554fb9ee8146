SPECIFICATION Spec
CONSTANTS
    Whole = 10
    CurrentBooks <- MCCurrentBooks
    TargetBooks <- MCTargetBooks
    Markets <- MCMarkets
    Horizons = {0, 1}
    Masses = {0, 1, 3, 6}
    Payoffs = {1, 3, 10}
    OpposedPayoff = 3
INVARIANT TypeOK
INVARIANT WithinLimits
INVARIANT NoNewBreach
INVARIANT OpposedNeverMoves
INVARIANT FitsLog
CHECK_DEADLOCK FALSE
