SPECIFICATION FairSpec
CONSTANTS
    q1 = q1
    q2 = q2
    q3 = q3
    a = a
    b = b
    Requests <- TwoCalls
    Keys <- TwoKeys
    Work <- Crossed
    MaxNewDrafts = 1
    MaxPolls = 1
    CacheMax = 1
    CacheTTL = 1
    UnknownTTL = 2
    ResumeTTL = 2
    Quotas <- Plenty
    Day = 4
    MaxTime = 0
    MaxSession = 2
PROPERTIES
    CallsEnd
CHECK_DEADLOCK FALSE
