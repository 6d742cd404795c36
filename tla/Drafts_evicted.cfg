SPECIFICATION Spec
CONSTANTS
    q1 = q1
    q2 = q2
    q3 = q3
    a = a
    b = b
    Requests <- TwoCalls
    Keys <- TwoKeys
    Work <- Around
    MaxNewDrafts = 6
    MaxPolls = 1
    CacheMax = 1
    CacheTTL = 1
    UnknownTTL = 3
    ResumeTTL = 3
    Quotas <- Plenty
    Day = 4
    MaxTime = 1
    MaxSession = 1
INVARIANTS
    UnknownQuarantined
CHECK_DEADLOCK FALSE
