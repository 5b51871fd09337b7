SPECIFICATION LoopFairSpec
CONSTANTS
    Instance = {a, b}
    NoOne = NoOne
    Dead = Dead
    TTL = 5
    Sleep = 1
    Retries = 2
    RetryDelay <- HalfToWhole
    Lag = 1
INVARIANT AtMostOneCleaner
PROPERTIES CleansAgain TakesOver
CHECK_DEADLOCK FALSE
