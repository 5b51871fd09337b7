SPECIFICATION AlertFairSpec
CONSTANTS
    Instance = {i1, i2}
    Event = {e1, e2}
    User = {u1}
    Window <- OneWindow
    MaxClock = 1
    MaxEdits = 1
    MaxFaults = 1
INVARIANTS AlertTypeOK RepeatsOnlyIfUnmarked
PROPERTY UpcomingIsAlerted
CHECK_DEADLOCK FALSE
