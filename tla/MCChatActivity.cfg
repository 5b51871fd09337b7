SPECIFICATION ActivityFairSpec
CONSTANTS
    r1 = r1
    r2 = r2
    m1 = m1
    m2 = m2
    Request = {r1, r2}
    Model = {m1, m2}
    Chosen <- OneAndTwo
    NoModel = NoModel
INVARIANT ActivityTypeOK
PROPERTY ActiveIsCleared
CHECK_DEADLOCK FALSE
