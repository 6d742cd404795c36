SPECIFICATION MCSpec
CONSTANTS
    j1 = j1
    c1 = c1
    c2 = c2
    p1 = p1
    p2 = p2
    Postings <- ThreePostings
    InitialStates <- AtFirst
    NoSource = NoSource
    Week = 2
    Overlap = 1
    NeedWeeks = 2
    InitialWeeks = 1
    BackfillWeeks = 1
    MaxWeeks = 3
    TTL <- Lifetimes
    FirstDay = 6
    LastDay = 7
    MaxCatalog = 2
    MaxFaults = 1
    NoInput = NoInput
    Jobs <- OneJob
    Cabinets <- TwoCabinets
    CostContents <- TwoContents
    Assortments <- OneAssortment
    AdReports <- TwoReports
    FinanceRoom = 1
    AnalysisRoom = 1
    MaxAnalysis = 2
    MaxFinance = 1
    MaxTransitions = 1
    Ledgers <- SomeLedgers
    Skus = {"s", "t"}
    Cost <- OneCost
    Delivered <- OnePosting
    Days = 2
    MaxPages = 3
    MaxRows = 2
    Missing = Missing
    Clusters = {1, 2, 3}
    Cases <- SomeCases
    Managed <- ManagedCases
    Quantities = {0, 2, 3, 4}
    HorizonDays = 7
    Thresholds <- OneThreshold
    Unknown = Unknown
    Unlimited = Unlimited
    Requests <- SomeRequests
    Rules <- SomeRules
    MaxCandidates = 3
    Absent = Absent
    Regions <- HereAndThere
    Histories <- SomeHistories
    FirstAnalysis = 13
    LastAnalysis = 17
    Window = 3
    MinFulfilled = 3
    MinWeekly = 10
    MinAffected = 1
    WeeklySales <- SomeSales
    CoveredFrom = 3
    Lags = {0, 3}
    LongestHistory = 9
    NoRate = NoRate
    Products <- SomeProducts
    One = 10
    Acquiring = 0
    Drr = 1
    Vat = 2
    IncomeTax = 1
    CoInvest = 0
    Buyout = 8
    FixedFee = 1
    Doublings = 3
    NotKnown = NotKnown
    Inputs <- SomeInputs
    Tariffed = {"N", "S"}
    ManualLabels <- SomeLabels
    None = None
INVARIANTS
    ComputationsTypeOK
    HistoryExact
    EvidenceHonest
    StoresOfCabinet
    ReportBalances
    AllocationOptimal
    PlanShippable
    SelectionFair
    OptionsSound
    RateMonotone
    TargetIsLeast
    OrderIndependent
PROPERTIES
    ReportsConsistent
    HistoryStable
CHECK_DEADLOCK FALSE
