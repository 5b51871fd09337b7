SPECIFICATION Spec
CONSTANTS
    Instance = {i1, i2}
    Redis = redis
    HasRedis = TRUE
    Limit = 2
    NumBuckets = 1
    Straddle = FALSE
    MaxCounts = 5
    Horizon = 3
INVARIANTS Inv WindowLimit RefusedOverLimit
SYMMETRY Symmetry
CHECK_DEADLOCK FALSE
