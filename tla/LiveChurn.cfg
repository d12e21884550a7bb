SPECIFICATION MCSpec
CONSTANTS
    btc = btc
    eth = eth
    sA = sA
    sB = sB
    Symbols = {btc}
    Strategies = {sA}
    Legacy = Legacy
    Margins = {2}
    Equities = {0, 10}
    UtilNum = 4
    UtilDen = 5
    MaxConcurrent = 0
    GroupCapital = 2
    AccountCap = 0
    DryRuns = {FALSE}
    Events = {"stop", "restart", "repost", "insert_fails", "close_fails", "order_fails", "sl_fails", "reads_fail"}
    MaxTrades = 2
    MaxGenerations = 2
    Users = {"u1", "u2"}
    Coins = {"coin"}
    Ttl = 1
    Bar = 2
    MaxTime = 2
    Kinds = {"trend", "retest"}
    Confirming = {TRUE, FALSE}
    Failures = {"htf_fails", "rejects", "order_fails", "sl_fails", "restart"}
    Closes = {1, 2}
    MaxCandles = 2
    MaxEntries = 2
INVARIANTS TypesOK BookedOnce RowsTracked
PROPERTIES NotRepeated
CHECK_DEADLOCK FALSE
