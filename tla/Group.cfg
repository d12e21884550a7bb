SPECIFICATION MCSpec
CONSTANTS
    btc = btc
    eth = eth
    sA = sA
    sB = sB
    Symbols = {btc}
    Strategies = {sA, sB}
    Legacy = Legacy
    Margins = {2}
    Equities = {0, 10}
    UtilNum = 4
    UtilDen = 5
    MaxConcurrent = 0
    GroupCapital = 2
    AccountCap = 0
    DryRuns = {TRUE, FALSE}
    Events = {"order_fails", "sl_fails"}
    MaxTrades = 3
    MaxGenerations = 1
    Sizes = {40, 12}
    MinLot = 5
    MaxRows = 6
    MaxCrashes = 1
    LadderWorlds = {{"close_fails", "sl_fails"}, {"close_fails", "manual"}, {"crash"}, {"db_fails"}, {"manual"}}
    Size = 2
    MaxRequotes = 2
    MaxAttempts = 3
    MaxEntries = 2
    OrderWorlds = {{"maker", "embeds", "rejects", "voids"}, {"maker", "ticker_fails", "sl_fails", "tp_fails", "close_fails"}, {"embeds", "order_fails", "sl_fails"}, {"maker", "order_fails", "fetch_fails"}, {"maker", "cancel_fails"}, {"order_fails", "sl_fails", "crash"}}
    Fetchers = {"e1", "e2"}
    Limit = 3
    MinBars = 2
    Ttls = {2, 6}
    MaxTime = 10
    MaxRequests = 1
    CandleWorlds = {{"down", "fallback"}, {"limited"}, {"short"}, {"down", "past"}, {"recent"}}
INVARIANTS TypesOK SinglePosition Accounted NoGhostLive BookedAsOrdered Protected TrackedIsWhole ServedIsCurrent
PROPERTIES SlotSpec ClosesAreBooked StopTightens CallsEnd
CHECK_DEADLOCK FALSE
