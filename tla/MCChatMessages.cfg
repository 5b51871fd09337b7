CONSTANTS
    t1 = t1
    t2 = t2
    t3 = t3
    t4 = t4
    e1 = e1
    Task = {t1, t2, t3, t4}
    Event = {e1}
    Cast <- MCCast
    Thread <- MCThread
    May <- MCMay
SPECIFICATION FairSpec
INVARIANTS EndsComplete
PROPERTIES AnswerStays UsageKept StoppedIsSaved
CHECK_DEADLOCK FALSE
