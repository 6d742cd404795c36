SPECIFICATION Spec
CONSTANTS
    s1 = s1
    s2 = s2
    r1 = r1
    q1 = q1
    d1 = d1
    e1 = e1
    e2 = e2
    Syncs <- OneSync
    Runs <- OneRun
    Checks <- OneCheck
    Deletes <- NoThreads
    Endpoints <- OneEndpoint
    Packs <- Fixed
    Costs <- Fixed
    Mappings <- Varies
    Choices <- Fixed
    KeepSources = 3
    KeepAnalyses = 2
    KeepPlans = 2
    UnlinkMayFail = FALSE
    MaxDoc = 2
    MaxGen = 4
    MaxSource = 2
    MaxAnalysis = 2
    MaxPlan = 1
INVARIANTS
    TypeOK
    SourcesOfVault
    AnalysesOnCurrentSource
PROPERTIES
    SessionsNeverRevive
    SourceNeverRegresses
CHECK_DEADLOCK FALSE
