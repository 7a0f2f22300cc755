SPECIFICATION StoresSpec
CONSTANTS
    Answers <- SomeAnswers
    Items <- SomeItems
    Published <- SomePublished
    Tickers <- SomeTickers
    Listed <- SomeListed
    RssFeeds <- SomeRssFeeds
    Traded <- SomeTraded
    Screens <- SomeScreens
    NewsNames <- SomeNewsNames
    Fallback <- SomeFallback
    Symbols = {s1, s2}
    MaxLots = 2
    MaxSyncs = 3
    FaultSets = {{"read_fails"}, {"read_fails", "emit_fails", "crash"}}
    Videos = {v1, v2}
    Playlists = {p1}
    Workers = {w1, w2}
    Pollers = {q1}
    MaxRetries = 1
    MaxWindows = 1
    MaxPolls = 2
    PipelineFaults = {{"no_video", "no_model"}, {"gives_up", "bad_rows", "no_model"}}
    Headlines = {"h1", "h2", "h3"}
    Offering = {"h1"}
    Untitled = {"h3"}
    ApiFeed = "api"
    Batch = 1
    Lookback = 0
    MaxFetches = 2
    MaxNewsTime = 1
    NewsFaults = {{}, {"no_feed", "no_row", "no_model"}, {"gives_up", "no_undo", "no_row"}}
    alpha = alpha
    beta = beta
    etf = etf
    Stocks = {alpha, beta, etf}
    Excluded = {etf}
    Band = {alpha, beta, etf}
    TopNames = 1
    MaxUniverse = 1
    MaxGappers = 1
    Refresh = 2
    OrbBars = 2
    StaleAfter = 1
    StaleBlock = TRUE
    LastMinute = 5
    MaxDiscoveries = 2
    BarFaults = {{}, {"dies"}, {"no_screen", "no_bars", "no_upsert"}}
    WatchNames = {alpha, beta}
    Injectable = {beta}
    MinBars = 1
    RowLimit = 1
    MaxSymbols = 2
    MaxBars = 1
    MaxTicks = 3
    FlowFaults = {{}, {"refused"}, {"no_rows", "dies"}}
    Tickets = {o1}
    Watched = {alpha}
    QueryLimit = 4
    MaxEvents = 5
    MaxDrops = 1
    ScanLimit = 2
    MaxRisks = 3
    MaxQuestions = 2
    MaxStarts = 2
    NoticeFaults = {{}, {"no_send"}, {"restarts"}, {"restarts", "no_prime"}, {"bot_dies"}}
    BuiltTracks = {"v1", "run1"}
    Sessions = 2
    MaxBuilds = 3
    MaxChanges = 1
CHECK_DEADLOCK FALSE
INVARIANTS Types JournaledOnce ShownCloseJournaled  RowsWhole SaidOnce 
PROPERTIES ClaimsSound  LabelsKept
