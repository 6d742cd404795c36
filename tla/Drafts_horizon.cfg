SPECIFICATION Spec
CONSTANTS
    q1 = q1
    q2 = q2
    q3 = q3
    a = a
    b = b
    Requests <- ThreeCalls
    Keys <- OneKey
    Work <- Same
    MaxNewDrafts = 6
    MaxPolls = 2
    CacheMax = 2
    CacheTTL = 1
    UnknownTTL = 2
    ResumeTTL = 2
    Quotas <- Stepped
    Day = 3
    MaxTime = 3
    MaxSession = 2
INVARIANTS
    TypeOK
    NoSecondDraft
    OpenDraftsResumable
    BudgetKept
PROPERTIES
    KeepsPromise
SYMMETRY CallSymmetry
CHECK_DEADLOCK FALSE
