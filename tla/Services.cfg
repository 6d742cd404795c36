SPECIFICATION MCSpec
CONSTANTS
    stock = stock
    create = create
    a1 = a1
    a2 = a2
    NoCall = NoCall
    Calls <- TwoCalls
    Stock <- Reads
    Safe <- Reads
    Cancellable <- Reads
    MaxAttempts = 3
    Interval = 1
    StockInterval = 2
    MaxWait = 2
    LimitedDelay <- Doubling
    Backoff <- NoBackoff
    RetryAfters <- Headers
    MaxSession = 2
    NoContext = NoContext
    PriceKeys <- TwoPrices
    SourceKeys <- BothPrices
    FinalKeys <- OneFinal
    PriceAccounts <- TwoAccounts
    Checkpoint = 2
    BlockAfter = 1
    MaxGenerations = 4
    MaxUnlocks = 2
    Listings <- VendorRows
    Asked = {"a", "b"}
    ReadPage = 2
    MaxOddPages = 1
INVARIANTS
    ServicesTypeOK
    NotRepeated
    PricesOfAccount
    SettledIsComplete
    AccountedFor
PROPERTIES
    IntervalsKept
    CooldownKept
    CallsEnd
    PricesSettle
    EveryReadEnds
CHECK_DEADLOCK FALSE
