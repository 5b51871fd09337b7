\* Two requests, two callbacks or logouts, four sessions of one user.
SPECIFICATION Spec
CONSTANTS
    Session = {s1, s2, s3, s4}
    Asked = {s1}
    Request = {r1, r2}
    Handler = {h1, h2}
    Limit = 2
    MaxToken = 3
    MaxTime = 1
    Cast <- MCCast
SYMMETRY Symmetry
INVARIANTS
    DroppedOnlyIfHurt
    PrunedAreOldest
PROPERTIES
    GoneForGood
    LoginAloneKeepsLimit
CHECK_DEADLOCK FALSE
