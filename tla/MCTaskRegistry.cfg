SPECIFICATION FairSpec
CONSTANTS
    Node = {n1}
    Task = {t1, t2}
    Item = {i1}
    NoItem = NoItem
    NoNode = NoNode
    Stopper = {s1}
INVARIANTS
    ListedAreRegistered
    RunningRegistered
    OnlyAskedCancelled
PROPERTIES
    RegisteredIsDeregistered
    DeliveredStopTakesEffect
CHECK_DEADLOCK FALSE
