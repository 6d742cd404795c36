SPECIFICATION Spec
CONSTANTS
    s1 = s1
    s2 = s2
    r1 = r1
    q1 = q1
    d1 = d1
    e1 = e1
    e2 = e2
    Syncs <- OneSync
    Runs <- OneRun
    Checks <- OneCheck
    Deletes <- OneDelete
    Endpoints <- OneEndpoint
    Packs <- Varies
    Costs <- Varies
    Mappings <- Fixed
    Choices <- Varies
    KeepSources = 3
    KeepAnalyses = 2
    KeepPlans = 2
    UnlinkMayFail = FALSE
    MaxDoc = 1
    MaxGen = 1
    MaxSource = 1
    MaxAnalysis = 2
    MaxPlan = 1
INVARIANTS
    PackDataFresh
    PlansMatchDecisions
    ExportFaithful
CHECK_DEADLOCK FALSE
