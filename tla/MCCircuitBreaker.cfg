\* The breaker opens at the third failure and waits for two ticks.
SPECIFICATION BreakerFairSpec
CONSTANTS
    Calls = {c1, c2, c3}
    Threshold = 3
    ResetTimeout = 2
INVARIANTS
    BreakerTypeOK
    LoadOnABrokenService
PROPERTY ClosesInTheEnd
