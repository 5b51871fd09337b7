SPECIFICATION FairSpec
CONSTANTS
    a = a
    b = b
    s1 = s1
    s2 = s2
    Instance = {a, b}
    Session = {s1, s2}
    Model = {gpt}
    Home <- Apart
    Timeout = 0
    Reaper = {b}
    Cleaner = {b}
INVARIANT TypeOK
PROPERTIES ClosedNotRevived ClosedIsReaped ClosedIsUnused
CHECK_DEADLOCK FALSE
