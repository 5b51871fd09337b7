SPECIFICATION LoopFairSpec
CONSTANTS
    Instance = {a}
    NoOne = NoOne
    Dead = Dead
    TTL = 1
    Sleep = 2
    Retries = 0
    RetryDelay = {1}
    Lag = 0
PROPERTY CleansAgain
CHECK_DEADLOCK FALSE
