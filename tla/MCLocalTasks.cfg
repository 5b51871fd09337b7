SPECIFICATION FairSpec
CONSTANTS
    Task = {t1, t2, t3}
    Item = {i1}
    ChatTask = {t1, t2}
    Stopper = {s1, s2}
    NoItem = NoItem
INVARIANTS
    TypeOK
    ActiveIsListed
PROPERTY StopReturns
CHECK_DEADLOCK FALSE
