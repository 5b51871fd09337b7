SPECIFICATION FairSpec
CONSTANTS
    Instance = {i1, i2}
    Automation = {a1, a2, a3}
    Request = {q1, q2}
    Rule <- Rules
    Horizon = 2
    Wall <- LocalTime
    Instant <- FirstShowing
    Limit = 1
    MaxCount = 1
    Postgres = TRUE
    May <- OneMayAll
INVARIANT TypeOK 
PROPERTY ClaimNotStale ClaimsAdvance DueIsClaimed
CHECK_DEADLOCK FALSE
