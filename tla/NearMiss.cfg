\* The scanner alone.
CONSTANTS
    Parts = {"scanner"}
    Backends <- MCBackends
    MaxScans = 3
    ExtraPairs <- MCExtraPairs
    MaxPairs = 3
    Cooldown = 2
    MaxTime = 2
    RayPools <- MCRayPools
    PresetPools = {"r2"}
    OrcaPools <- MCOrcaPools
    BpsDivisor = 4
    MaxReserve = 4
    ScanQuotes <- MCScanQuotes
    QuotesPerScan = 3
    Divisor = 20
    Slippage = 1
    PriorityFee = 0
    MinProfit = 2
    NearHit = 1
    MinLiquidity = 10
    MaxDeviation = 2
    Window = 2
    BotPairs <- MCBotPairs
    BotDeviation = 2
    Iterations = 2
    Offers <- MCOffers
    Loads <- MCLoads
    Policies <- MCPolicies
    ScanLimit = 3
    QueueLimit = 2
    Legs <- MCLegs
    OutAmounts = {1, 2}
    LookupKeys = {"k1"}
    NumEndpoints = 2
    MaxErrors = 2
    Flashbots = TRUE
    MaxAttempts = 4
    Requests = {"r1", "r2"}
    Markets <- MCMarkets
    WithFallback = {"r2"}
    RpcUrls = 2
    ShortTtl = 1
    LongTtl = 2
    ThinTtl = 1
    DeepTtl = 2
    EmailInterval = 2
    FirstEmail = 1
    DayLength = 4
    DailyHour = 2
    MaxNow = 7
    Spreads <- MCSpreads
    LiveScans = 3
    Listings <- MCListings
    Tokens <- MCTokens
    TargetOf <- MCTargetOf
    BluePairs = {"W/U", "S/U"}
    MinVolume = 2
    MinDexes = 2
    MaxResults = 2
    ConfigPairs <- MCConfigPairs
    Registered <- MCRegistered
    Venues <- MCVenues
    ViewPairs = {"p1", "p2"}
    WindowLengths <- MCWindowLengths
    LossesPass = FALSE
    RefusalReasons = {"below_min_spread"}
    Limits <- MCLimits
    HourLength = 1
    MaxRows = 2
    MaxClock = 1
SPECIFICATION Spec
INVARIANT NearMissSpeedsUp
CHECK_DEADLOCK FALSE
