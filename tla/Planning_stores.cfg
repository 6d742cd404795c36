SPECIFICATION Spec
CONSTANTS
    s1 = s1
    s2 = s2
    r1 = r1
    q1 = q1
    d1 = d1
    e1 = e1
    e2 = e2
    Syncs <- TwoSyncs
    Runs <- NoThreads
    Checks <- NoThreads
    Deletes <- NoThreads
    Endpoints <- TwoEndpoints
    Packs <- Fixed
    Costs <- Fixed
    Mappings <- Fixed
    Choices <- Fixed
    KeepSources = 2
    KeepAnalyses = 2
    KeepPlans = 2
    UnlinkMayFail = TRUE
    MaxDoc = 2
    MaxGen = 3
    MaxSource = 3
    MaxAnalysis = 2
    MaxPlan = 1
INVARIANTS
    FallbackKept
    NewestIsOnDisk
CHECK_DEADLOCK FALSE
