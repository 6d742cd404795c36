SPECIFICATION Spec
CONSTANTS
    s1 = s1
    s2 = s2
    r1 = r1
    q1 = q1
    d1 = d1
    e1 = e1
    e2 = e2
    Syncs <- OneSync
    Runs <- OneRun
    Checks <- OneCheck
    Deletes <- NoThreads
    Endpoints <- OneEndpoint
    Packs <- Fixed
    Costs <- Fixed
    Mappings <- Fixed
    Choices <- Fixed
    KeepSources = 3
    KeepAnalyses = 2
    KeepPlans = 2
    UnlinkMayFail = TRUE
    MaxDoc = 2
    MaxGen = 2
    MaxSource = 1
    MaxAnalysis = 1
    MaxPlan = 1
INVARIANTS
    ReplacementUnexportable
CHECK_DEADLOCK FALSE
