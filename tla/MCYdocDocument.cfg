SPECIFICATION Spec
CONSTANTS
    s1 = s1
    s2 = s2
    last = last
    First = {u1, u2, u3}
    Session = {s1, s2}
    Update <- Updates
    Author <- EditorOf
    Threshold = 4
    Shared = FALSE
INVARIANTS TypeOK NothingMissed Bounded
PROPERTY KeepsItsPromise
SYMMETRY Symmetry
CHECK_DEADLOCK FALSE
